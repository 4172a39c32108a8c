------------------------------ MODULE MCInputs ------------------------------
(* The inputs for TLC: BGP sessions with one peer, or BMP sessions of one  *)
(* router.  A behaviour explores one of the two.                           *)
EXTENDS BgpIn, BmpIn

VARIABLE which

inputsVars == <<which, bgpVars, bmpVars>>

InputsInit == BgpInit /\ BmpInit /\ which \in {"bgp", "bmp"}

InputsNext ==
    \/ which = "bgp" /\ BgpNext /\ UNCHANGED <<which, bmpVars>>
    \/ which = "bmp" /\ BmpNext /\ UNCHANGED <<which, bgpVars>>

(* The fairness of BgpIn, in the behaviours that explore it. *)
Bgp(A) == which = "bgp" /\ A /\ UNCHANGED <<which, bmpVars>>

InputsFairness ==
    /\ WF_inputsVars(Bgp(BgpTasks))
    /\ WF_inputsVars(Bgp(SweepStep))
    /\ SF_inputsVars(Bgp(ReapScan(TRUE)))

InputsSpec == InputsInit /\ [][InputsNext]_inputsVars /\ InputsFairness
=============================================================================
