------------------------------- MODULE BgpIn -------------------------------
(***************************************************************************)
(* BGP sessions with one peer (src/src/units/bgp_tcp_in/router_handler.rs),*)
(* the ingress register and per-peer statistics they share, the records    *)
(* they leave in the RIB, and the sweep that reclaims those                *)
(* (src/src/units/rib_unit/rib.rs, unit.rs).                               *)
(*                                                                         *)
(* Several connections of the peer may be open at once.  The handler of    *)
(* SessionNegotiated and the teardown after the loop take and release      *)
(* locks and await the gate, so that each is a sequence of steps between   *)
(* which other connections run.  The RIB holds one prefix; a record is     *)
(* absent, withdrawn, or active with the connection that announced it.     *)
(***************************************************************************)
EXTENDS Register

CONSTANTS
    Conns,        \* connections of the peer, each used once
    MaxUpdates    \* bound: UPDATE messages processed

Plain == 0                \* a path without a path id
Paths == {Plain, 1}
Peer  == 1                \* (remote_addr, remote_asn)

ASSUME BgpInAssumption == MaxIds \in Nat /\ MaxUpdates \in Nat /\ None \notin Conns

VARIABLES
    info,     \* the register
    serial,   \* the next ingress id
    pc,       \* pc[c]: how far the task of connection c got
    sid,      \* sid[c]: session_ingress_id
    child,    \* child[c]: path_children[1], or NoId
    stale,    \* stale[c]: ids whose routes SessionNegotiated withdraws
    told,     \* connections that were sent Command::Disconnect
    live,     \* live_sessions[Peer]: the connection it names, or None
    rec,      \* rec[id]: the record stored under this id
    stats,    \* ids in the registry of per-peer statistics
    pend,     \* pend[c]: the route on its way from c to the RIB, or None
    updates,  \* UPDATE messages processed
    sweep     \* the sweeping task of the RIB

bgpVars == <<info, serial, pc, sid, child, stale, told, live, rec, stats, pend,
             updates, sweep>>

NoIdle == [id \in {} |-> 0]

BgpInit ==
    /\ info = NewRegister /\ serial = 1
    /\ pc = [c \in Conns |-> "idle"]
    /\ sid = [c \in Conns |-> NoId]
    /\ child = [c \in Conns |-> NoId]
    /\ stale = [c \in Conns |-> {}]
    /\ told = {} /\ live = None
    /\ rec = [id \in Ids |-> "none"]
    /\ stats = {}
    /\ pend = [c \in Conns |-> None]
    /\ updates = 0
    /\ sweep = [phase |-> "idle", candidates |-> {}, idle |-> NoIdle,
                prevIdle |-> NoIdle, peers |-> {}]

(* Update::Withdraw and WithdrawBulk, as the RIB applies them. *)
Withdrawn(ids) == [id \in Ids |-> IF id \in ids /\ rec[id] # "none"
                                  THEN "withdrawn" ELSE rec[id]]

-----------------------------------------------------------------------------
(* handle_connection, up to the first message of the session. *)
HandleConnection(c) ==
    /\ pc[c] = "idle" /\ pc' = [pc EXCEPT ![c] = "open"]
    /\ UNCHANGED <<info, serial, sid, child, stale, told, live, rec, stats,
                   pend, updates, sweep>>

(* SessionNegotiated: claim the peer's ingress and disconnect the path     *)
(* children of the session before, or use the id of the connection.        *)
Negotiate(c) ==
    /\ pc[c] = "open"
    /\ \/ \E id \in ExistingSessions(info, Peer) :
             LET kids == IdsForParent(info, id) IN
             /\ info' = MarkDisconnected(Claim(info, id), kids)
             /\ sid' = [sid EXCEPT ![c] = id]
             /\ stale' = [stale EXCEPT ![c] = {id} \cup kids]
             /\ pc' = [pc EXCEPT ![c] = "claimed"]
             /\ UNCHANGED serial
       \/ /\ ExistingSessions(info, Peer) = {} /\ serial \in Ids
          /\ sid' = [sid EXCEPT ![c] = serial]
          /\ serial' = serial + 1
          /\ pc' = [pc EXCEPT ![c] = "withdrew"]
          /\ UNCHANGED <<info, stale>>
    /\ UNCHANGED <<child, told, live, rec, stats, pend, updates, sweep>>

WithdrawStale(c) ==
    /\ pc[c] = "claimed" /\ pc' = [pc EXCEPT ![c] = "withdrew"]
    /\ rec' = Withdrawn(stale[c])
    /\ UNCHANGED <<info, serial, sid, child, stale, told, live, stats, pend,
                   updates, sweep>>

(* Take the live entry; the session that had it is told to disconnect. *)
ReplaceSession(c) ==
    LET gone == IF live # None /\ sid[live] # sid[c]
                THEN {sid[live]} \cup IdsForParent(info, sid[live]) ELSE {} IN
    /\ pc[c] = "withdrew" /\ pc' = [pc EXCEPT ![c] = "replaced"]
    /\ live' = None
    /\ told' = told \cup ({live} \ {None})
    /\ rec' = Withdrawn(gone)
    /\ info' = MarkDisconnected(info, gone)
    /\ stats' = stats \ gone
    /\ UNCHANGED <<serial, sid, child, stale, pend, updates, sweep>>

InsertLive(c) ==
    /\ pc[c] = "replaced" /\ pc' = [pc EXCEPT ![c] = "listed"]
    /\ live' = c
    /\ UNCHANGED <<info, serial, sid, child, stale, told, rec, stats, pend,
                   updates, sweep>>

Establish(c) ==
    /\ pc[c] = "listed" /\ pc' = [pc EXCEPT ![c] = "up"]
    /\ info' = UpdateInfo(info, sid[c], "Bgp", NoId, Peer)
    /\ stats' = stats \cup {sid[c]}
    /\ UNCHANGED <<serial, sid, child, stale, told, live, rec, pend, updates,
                   sweep>>

-----------------------------------------------------------------------------
(* UPDATE messages.  The ids are resolved first; the routes reach the RIB  *)
(* when the gate delivers them.  An UPDATE that the filter rejects only    *)
(* counts.                                                                 *)

Send(c, id, active) ==
    /\ pend' = [pend EXCEPT ![c] = [id |-> id, active |-> active]]
    /\ updates' = updates + 1

(* get_or_create_path_child. *)
PathChild(c, p, id) ==
    \/ /\ IsPathChild(info, child[c], sid[c], p)
       /\ id = child[c]
       /\ info' = RefreshPathChild(info, id)
       /\ UNCHANGED <<serial, stats, child>>
    \/ /\ ~IsPathChild(info, child[c], sid[c], p)
       /\ LET old == Claimable(info, "BgpPath", sid[c], p) IN
          IF old # {} THEN /\ id \in old
                           /\ info' = Claim(info, id)
                           /\ UNCHANGED serial
          ELSE /\ id = serial /\ serial' = serial + 1
               /\ info' = UpdateInfo(info, id, "BgpPath", sid[c], p)
       /\ stats' = IF sid[c] \in stats THEN stats \cup {id} ELSE stats
       /\ child' = [child EXCEPT ![c] = id]

Announce(c, p) ==
    /\ pc[c] = "up" /\ pend[c] = None /\ updates < MaxUpdates
    /\ \E id \in Ids :
         /\ Send(c, id, TRUE)
         /\ IF p = Plain THEN id = sid[c] /\ UNCHANGED <<info, serial, stats, child>>
            ELSE PathChild(c, p, id)
    /\ UNCHANGED <<pc, sid, stale, told, live, rec, sweep>>

(* A withdrawal for an unknown path id is dropped. *)
WithdrawRoute(c, p) ==
    LET id == IF p = Plain THEN sid[c] ELSE child[c] IN
    /\ pc[c] = "up" /\ pend[c] = None /\ updates < MaxUpdates
    /\ id # NoId
    /\ Send(c, id, FALSE)
    /\ UNCHANGED <<info, serial, pc, sid, child, stale, told, live, rec, stats,
                   sweep>>

Deliver(c) ==
    /\ pend[c] # None
    /\ rec' = [rec EXCEPT ![pend[c].id] = IF pend[c].active THEN c
                                          ELSE IF @ = "none" THEN @ ELSE "withdrawn"]
    /\ pend' = [pend EXCEPT ![c] = None]
    /\ UNCHANGED <<info, serial, pc, sid, child, stale, told, live, stats,
                   updates, sweep>>

-----------------------------------------------------------------------------
(* The loop ends: an error of the FSM, ConnectionLost, termination or      *)
(* reconfiguration of the unit, or the Disconnect of another session.      *)

Kids(c) == {child[c]} \ {NoId}

Leave(c) ==
    /\ pc[c] \in {"open", "up"} /\ pend[c] = None
    /\ IF live = c
       THEN /\ live' = None
            /\ info' = MarkDisconnected(info, {sid[c]} \cup Kids(c))
            /\ pc' = [pc EXCEPT ![c] = "leaving"]
       ELSE /\ pc' = [pc EXCEPT ![c] = "ended"]
            /\ UNCHANGED <<live, info>>
    /\ UNCHANGED <<serial, sid, child, stale, told, rec, stats, pend, updates,
                   sweep>>

WithdrawOwn(c) ==
    /\ pc[c] = "leaving" /\ pc' = [pc EXCEPT ![c] = "left"]
    /\ rec' = Withdrawn({sid[c]} \cup Kids(c))
    /\ UNCHANGED <<info, serial, sid, child, stale, told, live, stats, pend,
                   updates, sweep>>

\* Mutant: ownership of the ingress is not checked again.
ForgetsBlindly(c) ==
    /\ pc[c] = "left" /\ pc' = [pc EXCEPT ![c] = "ended"]
    /\ stats' = stats \ ({sid[c]} \cup Kids(c))
    /\ UNCHANGED <<info, serial, sid, child, stale, told, live, rec, pend,
                   updates, sweep>>

ForgetStats(c) ==
    /\ pc[c] = "left" /\ pc' = [pc EXCEPT ![c] = "ended"]
    /\ stats' = IF live # None /\ sid[live] = sid[c] THEN stats
                ELSE stats \ ({sid[c]} \cup Kids(c))
    /\ UNCHANGED <<info, serial, sid, child, stale, told, live, rec, pend,
                   updates, sweep>>

-----------------------------------------------------------------------------
(* The sweep.  It runs every 300 seconds, in which handlers come to their  *)
(* end: none is at work from one sweep to the next.  That is assumed by    *)
(* starting a sweep between handlers; they run while it goes on.           *)

\* Mutant: children that own an active record count as idle, too.
AnyChildren == [id \in {i \in Ids : /\ info[i].type = "BgpPath"
                                     /\ info[i].state = "Connected"} |-> info[id].activity]

(* reap_idle_path_children, every REAP_EVERY sweeps: the children that own *)
(* no active record, with their generation.                                *)
IdleChildren == [id \in {i \in Ids : /\ info[i].type = "BgpPath"
                                      /\ info[i].state = "Connected"
                                      /\ rec[i] \notin Conns} |-> info[id].activity]

ReapScan(reap) ==
    /\ sweep.phase = "idle"
    /\ \A c \in Conns : /\ pc[c] \in {"idle", "open", "up", "ended"} /\ pend[c] = None
                        /\ c \in told => pc[c] = "ended"
    /\ sweep' = [sweep EXCEPT !.phase = "scanned",
                              !.prevIdle = IF reap THEN sweep.idle ELSE NoIdle,
                              !.idle = IF reap THEN IdleChildren ELSE sweep.idle]
    /\ UNCHANGED <<info, serial, pc, sid, child, stale, told, live, rec, stats,
                   pend, updates>>

RetireChildren ==
    LET same == {id \in DOMAIN sweep.idle :
                   id \in DOMAIN sweep.prevIdle
                     /\ sweep.prevIdle[id] = sweep.idle[id]} IN
    /\ sweep.phase = "scanned"
    /\ info' = MarkDisconnected(info, same \cap Retirable(info, sweep.idle))
    /\ sweep' = [sweep EXCEPT !.phase = "retired"]
    /\ UNCHANGED <<serial, pc, sid, child, stale, told, live, rec, stats, pend,
                   updates>>

\* Mutant: the candidates are not kept for the next sweep.
ForgetsCandidates ==
    /\ sweep.phase = "retired"
    /\ sweep' = [sweep EXCEPT !.phase = "snapped", !.peers = {}]
    /\ UNCHANGED <<info, serial, pc, sid, child, stale, told, live, rec, stats,
                   pend, updates>>

(* gc_disconnected_bmp_peers: what was disconnected in the last sweep too; *)
(* a session only when nothing refers to it as its parent.                 *)
GcSnapshot ==
    LET off == {id \in Ids : info[id].state = "Disconnected"}
        inUse == {info[id].parent : id \in Ids} IN
    /\ sweep.phase = "retired"
    /\ sweep' = [sweep EXCEPT !.phase = "snapped", !.candidates = off,
                   !.peers = {id \in off \cap sweep.candidates :
                                info[id].type = "BgpPath" \/ id \notin inUse}]
    /\ UNCHANGED <<info, serial, pc, sid, child, stale, told, live, rec, stats,
                   pend, updates>>

GcUnregister ==
    LET reclaimed == Removable(info, sweep.peers) IN
    /\ sweep.phase = "snapped"
    /\ info' = Remove(info, reclaimed)
    /\ sweep' = [sweep EXCEPT !.phase = "unregistered", !.peers = reclaimed]
    /\ UNCHANGED <<serial, pc, sid, child, stale, told, live, rec, stats, pend,
                   updates>>

GcRemoveRecords ==
    /\ sweep.phase = "unregistered"
    /\ rec' = [id \in Ids |-> IF id \in sweep.peers THEN "none" ELSE rec[id]]
    /\ stats' = stats \ sweep.peers
    /\ sweep' = [sweep EXCEPT !.phase = "idle", !.peers = {}]
    /\ UNCHANGED <<info, serial, pc, sid, child, stale, told, live, pend,
                   updates>>

-----------------------------------------------------------------------------
SessionStep(c) ==
    \/ WithdrawStale(c) \/ ReplaceSession(c) \/ InsertLive(c) \/ Establish(c)
    \/ Deliver(c) \/ WithdrawOwn(c) \/ ForgetStats(c)

SweepStep == \/ \E reap \in BOOLEAN : ReapScan(reap)
             \/ RetireChildren \/ GcSnapshot \/ GcUnregister \/ GcRemoveRecords

BgpNext ==
    \/ \E c \in Conns : \/ HandleConnection(c) \/ Negotiate(c) \/ SessionStep(c)
                        \/ Leave(c)
                        \/ \E p \in Paths : Announce(c, p) \/ WithdrawRoute(c, p)
    \/ SweepStep

(* A task that holds a message runs on, a session that was told to         *)
(* disconnect does so, and the interval of the sweep elapses again and     *)
(* again.  The peer need not do anything.                                  *)
BgpTasks == \E c \in Conns : SessionStep(c) \/ (c \in told /\ Leave(c))

BgpFairness ==
    /\ WF_bgpVars(BgpTasks)
    /\ WF_bgpVars(SweepStep)
    /\ SF_bgpVars(ReapScan(TRUE))

BgpSpec == BgpInit /\ [][BgpNext]_bgpVars /\ BgpFairness

-----------------------------------------------------------------------------
(* Type invariant; live_sessions only names sessions that have not ended,  *)
(* or the dialer (has_live_session) would wait for a session for ever.     *)
BgpTypeOK ==
    /\ info \in [Ids -> [type : Types, state : States, parent : Ids \cup {NoId},
                         key : 0..1, activity : 0..MaxUpdates]]
    /\ serial \in 1..(MaxIds + 1)
    /\ pc \in [Conns -> {"idle", "open", "claimed", "withdrew", "replaced",
                         "listed", "up", "leaving", "left", "ended"}]
    /\ sid \in [Conns -> Ids \cup {NoId}] /\ child \in [Conns -> Ids \cup {NoId}]
    /\ stale \in [Conns -> SUBSET Ids] /\ told \subseteq Conns
    /\ live \in {c \in Conns : pc[c] \in {"listed", "up"}} \cup {None}
    /\ rec \in [Ids -> {"none", "withdrawn"} \cup Conns]
    /\ stats \subseteq Ids /\ updates \in 0..MaxUpdates

(* The registration and the statistics of the session in live_sessions are *)
(* its own to keep, whatever an older session of the same ingress still    *)
(* does in its teardown ("Otherwise we would delete the registration and   *)
(* per-peer stats out from under the live, reconnected session").          *)
LiveSessionRegistered ==
    live # None /\ pc[live] = "up" =>
        info[sid[live]].state = "Connected" /\ sid[live] \in stats

(* Every record can be found through the register by the sweep: dropping   *)
(* registrations earlier "orphaned one retained table per reconnect".      *)
(* Excepted are the path children that a newer session disconnected, under *)
(* which the older one may still have had a route on its way.              *)
RecordsRegistered ==
    \A id \in Ids : rec[id] # "none" =>
        \/ id \in Registered(info)
        \/ sweep.phase = "unregistered" /\ id \in sweep.peers
        \/ \E c \in Conns : id \in stale[c] \ {sid[c]}

(* What the register has to keep for a session that is up, and for the     *)
(* records that are still stored (register, statistics, sweep).            *)
RegisterKept == LiveSessionRegistered /\ RecordsRegistered

(* remove_for_ingresses never removes an active route of the live session, *)
(* unless a newer connection has claimed its ingress and is replacing it:  *)
(* "remove_mui only ever clears the old, genuinely-departed session's      *)
(* records".                                                               *)
BeingReplaced(s) == \E c \in Conns : sid[c] = sid[s] /\ pc[c] \in {"claimed", "withdrew"}

SweepSparesLiveRoutes ==
    [][GcRemoveRecords /\ live # None /\ ~BeingReplaced(live)
         => \A id \in sweep.peers : rec[id] # live]_bgpVars

(* A path child that does not route anything is retired, and one that is   *)
(* disconnected is reclaimed, unless it comes back: the register does not  *)
(* grow with every path id ever used.                                      *)
IdleChildrenReclaimed ==
    \A id \in Ids :
        (info[id].type = "BgpPath" /\ rec[id] \notin Conns)
          ~> (info[id] = NoEntry \/ rec[id] \in Conns)

(* SessionNegotiated: "Withdraw stale routes from the previous session."   *)
(* Once the new session is up, no route of an ended session is active.     *)
StaleRoutesWithdrawn ==
    live # None /\ pc[live] = "up" =>
        \A id \in Ids : rec[id] \in Conns => pc[rec[id]] # "ended"
=============================================================================
