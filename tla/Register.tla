------------------------------ MODULE Register ------------------------------
(***************************************************************************)
(* The ingress register (src/src/ingress/register.rs): the entry of every  *)
(* ingress id, shared by the units.  Each operation holds the lock, so     *)
(* that it is one operator from a register to the next.                    *)
(*                                                                         *)
(* An entry keeps the type, the state, the parent, the identity by which a *)
(* returning connection finds it (the addresses and names of the code),    *)
(* and the activity generation of a path child.  The history counters,     *)
(* which only the exporters read, are left out.                            *)
(***************************************************************************)
EXTENDS Naturals, FiniteSets

CONSTANTS
    MaxIds,   \* bound: ingress ids handed out
    None      \* nothing: no session, no message

Ids  == 1..MaxIds
NoId == 0

Types  == {"none", "Bmp", "Bgp", "BgpViaBmp", "BgpPath"}
States == {"none", "Connected", "Disconnected"}

Entry(type, state, parent, key, activity) ==
    [type |-> type, state |-> state, parent |-> parent, key |-> key,
     activity |-> activity]

NoEntry == Entry("none", "none", NoId, NoId, 0)

NewRegister == [id \in Ids |-> NoEntry]

Registered(info) == {id \in Ids : info[id] # NoEntry}

(* update_info: fields that are set overwrite; path_activity stays. *)
UpdateInfo(info, id, type, parent, key) ==
    [info EXCEPT ![id] = Entry(type, "Connected", parent, key, @.activity)]

MarkDisconnected(info, ids) ==
    [id \in Ids |-> IF id \in ids /\ info[id] # NoEntry
                    THEN [info[id] EXCEPT !.state = "Disconnected"] ELSE info[id]]

IdsForParent(info, parent) == {id \in Ids : info[id].parent = parent}

(* find_existing_bgp_session_and_claim looks at entries in any state; the  *)
(* other three leave those that are connected alone.  The iteration order  *)
(* of the map chooses among several.                                       *)
ExistingSessions(info, key) ==
    {id \in Ids : info[id].type = "Bgp" /\ info[id].key = key}

\* Mutant: an id that a live session holds is handed out again.
InAnyState(info, type, parent, key) ==
    {id \in Ids : info[id].type = type /\ info[id].parent = parent /\ info[id].key = key}

Claimable(info, type, parent, key) ==
    {id \in Ids : /\ info[id].state # "Connected" /\ info[id].type = type
                  /\ info[id].parent = parent /\ info[id].key = key}

Claim(info, id) ==
    [info EXCEPT ![id].state = "Connected",
                 ![id].activity = IF info[id].type = "BgpPath" THEN @ + 1 ELSE @]

(* refresh_path_child: FALSE when the cached child is no longer this path. *)
IsPathChild(info, id, parent, key) ==
    id # NoId /\ info[id].type = "BgpPath" /\ info[id].parent = parent
              /\ info[id].key = key

RefreshPathChild(info, id) ==
    [info EXCEPT ![id].state = "Connected", ![id].activity = @ + 1]

(* retire_path_child, for the children whose generation is still the one   *)
(* that the scan saw.                                                      *)
Retirable(info, seen) ==
    {id \in DOMAIN seen : /\ info[id].type = "BgpPath"
                          /\ info[id].state = "Connected"
                          /\ info[id].activity = seen[id]}

(* remove_if_disconnected. *)
Removable(info, ids) == {id \in ids : info[id].state = "Disconnected"}

Remove(info, ids) == [id \in Ids |-> IF id \in ids THEN NoEntry ELSE info[id]]
=============================================================================
