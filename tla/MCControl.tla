----------------------------- MODULE MCControl -----------------------------
(* The control plane for TLC.  Gate and Manager share no state: a          *)
(* behaviour explores one of them.  The configurations of the manager have *)
(* two units and a target, and between them a unit nobody links to,        *)
(* changed types, a link that cannot be resolved, and a file that fails    *)
(* to load after some of its links were read.                              *)
EXTENDS Gate, Manager

CONSTANTS a, b, t

Conf(outcome, links, ta, tb, tt) ==
    [outcome |-> outcome, links |-> links,
     type |-> [n \in Names |-> CASE n = a -> ta [] n = b -> tb [] n = t -> tt]]

MCConfigs == {
    Conf("ok",    {a, b}, "rib", "rib", "null"),
    Conf("ok",    {a},    "rib", "rib", "null"),
    Conf("ok",    {a},    "bmp", None,  "file"),
    Conf("ok",    {a, b}, "rib", None,  "null"),
    Conf("fails", {b},    "rib", None,  "null")}

VARIABLE which

controlVars == <<which, gateVars, managerVars>>

ControlInit == GateInit /\ ManagerInit /\ which \in {"gate", "manager"}

ControlNext ==
    \/ which = "gate" /\ GateNext /\ UNCHANGED <<which, managerVars>>
    \/ which = "manager" /\ ManagerNext /\ UNCHANGED <<which, gateVars>>

(* Weak fairness of the steps that each module's own fairness names. *)
ControlFairness ==
    WF_controlVars(\/ which = "gate" /\ GateSystem /\ UNCHANGED <<which, managerVars>>
                   \/ which = "manager" /\ ManagerSystem /\ UNCHANGED <<which, gateVars>>)

ControlSpec == ControlInit /\ [][ControlNext]_controlVars /\ ControlFairness

(* ReloadConverges of the behaviours that explore Gate: the slots of the   *)
(* map that Gate::process replaces on a reload are filled again.           *)
GateReloadConverges == which = "gate" => ReloadConverges
=============================================================================
