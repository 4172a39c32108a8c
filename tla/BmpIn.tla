------------------------------- MODULE BmpIn -------------------------------
(***************************************************************************)
(* BMP sessions of one monitored router (src/src/units/bmp_tcp_in): the    *)
(* connection handler (router_handler.rs), the state machine it drives     *)
(* (state_machine/), the ingress register it shares with the sessions that *)
(* overlap it, and the records it leaves in the RIB.                       *)
(*                                                                         *)
(* The router monitors one BGP peer in two views, before and after policy, *)
(* which are two entries of PeerStates with the same peer identity.  The   *)
(* handler awaits the gate after each message; the teardown that follows   *)
(* the loop takes the register's lock twice and then awaits the gate.      *)
(* Other sessions run in between.                                          *)
(***************************************************************************)
EXTENDS Register

CONSTANTS
    Sessions,     \* connections of the router, each used once
    EorViews,     \* views whose PeerUp advertises Graceful Restart
    MaxMsgs       \* bound: PeerUp, PeerDown and RouteMonitoring messages

Views     == {"pre", "post"}
NlriPaths == {0, 1}            \* without a path id, and with one
ViewKey(v) == IF v = "pre" THEN 1 ELSE 2
SysName   == 1                 \* the identity of the router once it is known

ASSUME BmpInAssumption ==
    /\ MaxIds \in Nat /\ MaxMsgs \in Nat /\ EorViews \subseteq Views
    /\ None \notin [active : BOOLEAN, ids : SUBSET Ids]

VARIABLES
    reg,      \* the register
    nextId,   \* the next ingress id
    fsm,      \* fsm[s]: the state of the machine of session s, then its end
    rid,      \* rid[s]: the ingress id of the router
    peers,    \* peers[s][v]: PeerStates
    flight,   \* flight[s]: the update whose delivery the handler awaits
    store,    \* store[id]: the record the RIB holds under this id
    msgs      \* messages processed

bmpVars == <<reg, nextId, fsm, rid, peers, flight, store, msgs>>

PeerState(id, synthesized, eor, pending, child) ==
    [id |-> id, synthesized |-> synthesized, eor |-> eor, pending |-> pending,
     child |-> child]

NoPeer  == PeerState(NoId, FALSE, FALSE, {}, NoId)
NoPeers == [v \in Views |-> NoPeer]

NewPeer(v, id) == PeerState(id, FALSE, v \in EorViews, {}, NoId)

Up(s) == {v \in Views : peers[s][v] # NoPeer}

\* The ids of a peer: its own and those of its path children.
IdsOf(p) == {p.id, p.child} \ {NoId}
OwnIds(s) == UNION {IdsOf(peers[s][v]) : v \in Views}

Active(ids) == [active |-> TRUE, ids |-> ids]
Gone(ids)   == [active |-> FALSE, ids |-> ids]

BmpInit ==
    /\ reg = NewRegister /\ nextId = 1
    /\ fsm = [s \in Sessions |-> "idle"]
    /\ rid = [s \in Sessions |-> NoId]
    /\ peers = [s \in Sessions |-> NoPeers]
    /\ flight = [s \in Sessions |-> None]
    /\ store = [id \in Ids |-> "none"]
    /\ msgs = 0

Running(s) == fsm[s] \in {"Dumping", "Updating"} /\ flight[s] = None

-----------------------------------------------------------------------------
(* The id under which an identity is known: one a former session left,     *)
(* claimed, or the next one.                                               *)
IdsFor(r, n, type, parent, key) ==
    LET known == Claimable(r, type, parent, key)
    IN  IF known # {} THEN known ELSE {n} \cap Ids

NextAfter(n, id) == IF id = n THEN n + 1 ELSE n

(* prepare_connection: a provisional id, for which nothing is known but    *)
(* the address.                                                            *)
BmpConnect(s) ==
    /\ fsm[s] = "idle" /\ nextId \in Ids
    /\ reg' = [reg EXCEPT ![nextId] = Entry("Bmp", "none", NoId, NoId, 0)]
    /\ rid' = [rid EXCEPT ![s] = nextId]
    /\ nextId' = nextId + 1
    /\ fsm' = [fsm EXCEPT ![s] = "Initiating"]
    /\ UNCHANGED <<peers, flight, store, msgs>>

(* The Initiation message names the router.  A former session's id is      *)
(* adopted and the provisional entry removed, or the provisional id stays. *)
Initiation(s) ==
    /\ fsm[s] = "Initiating"
    /\ LET known == Claimable(reg, "Bmp", NoId, SysName)
       IN  IF known = {}
           THEN /\ reg' = UpdateInfo(reg, rid[s], "Bmp", NoId, SysName)
                /\ UNCHANGED rid
           ELSE \E id \in known :
                  /\ reg' = Remove(UpdateInfo(reg, id, "Bmp", NoId, SysName), {rid[s]})
                  /\ rid' = [rid EXCEPT ![s] = id]
    /\ fsm' = [fsm EXCEPT ![s] = "Dumping"]
    /\ UNCHANGED <<nextId, peers, flight, store, msgs>>

-----------------------------------------------------------------------------
\* Mutant: the duplicate is noticed only when the entry is stored.
MintsForDuplicate(s, v) ==
    /\ Running(s) /\ msgs < MaxMsgs
    /\ \E id \in IdsFor(reg, nextId, "BgpViaBmp", rid[s], ViewKey(v)) :
         /\ reg' = UpdateInfo(reg, id, "BgpViaBmp", rid[s], ViewKey(v))
         /\ nextId' = NextAfter(nextId, id)
         /\ peers' = [peers EXCEPT ![s][v] =
                         IF @ = NoPeer THEN NewPeer(v, id) ELSE @]
    /\ msgs' = msgs + 1
    /\ UNCHANGED <<fsm, rid, flight, store>>

(* A PeerUp for a view that is already up is rejected before the register  *)
(* is touched.                                                             *)
PeerUp(s, v) ==
    /\ Running(s) /\ msgs < MaxMsgs
    /\ peers[s][v] = NoPeer
    /\ \E id \in IdsFor(reg, nextId, "BgpViaBmp", rid[s], ViewKey(v)) :
         /\ reg' = UpdateInfo(reg, id, "BgpViaBmp", rid[s], ViewKey(v))
         /\ nextId' = NextAfter(nextId, id)
         /\ peers' = [peers EXCEPT ![s][v] = NewPeer(v, id)]
    /\ msgs' = msgs + 1
    /\ UNCHANGED <<fsm, rid, flight, store>>

\* Mutant: only the view that the PeerDown names comes down.
DownOneView(s, v) ==
    /\ Running(s) /\ msgs < MaxMsgs /\ Up(s) # {}
    /\ reg' = MarkDisconnected(reg, OwnIds(s))
    /\ flight' = [flight EXCEPT ![s] = Gone(IdsOf(peers[s][v]))]
    /\ peers' = [peers EXCEPT ![s] = NoPeers]
    /\ msgs' = msgs + 1
    /\ UNCHANGED <<nextId, fsm, rid, store>>

(* A PeerDown takes down every view of the peer, whichever it names, with  *)
(* the path children of each.                                              *)
PeerDown(s, v) ==
    /\ Running(s) /\ msgs < MaxMsgs /\ Up(s) # {}
    /\ reg' = MarkDisconnected(reg, OwnIds(s))
    /\ flight' = [flight EXCEPT ![s] = Gone(OwnIds(s))]
    /\ peers' = [peers EXCEPT ![s] = NoPeers]
    /\ msgs' = msgs + 1
    /\ UNCHANGED <<nextId, fsm, rid, store>>

-----------------------------------------------------------------------------
(* Route monitoring.                                                       *)

(* The view of a RouteMonitoring message that no PeerUp announced is       *)
(* synthesized from another view of the peer: a clone, its pending End of  *)
(* RIB markers included, with an id of its own and no path children.       *)
Cloned(s, v, id) ==
    LET source == peers[s][CHOOSE w \in Up(s) : w # v]
    IN  [source EXCEPT !.id = id, !.synthesized = TRUE, !.child = NoId]

Resolved(s, v) ==
    IF v \in Up(s) THEN {[r |-> reg, n |-> nextId, p |-> peers[s], id |-> NoId]}
    ELSE {[r |-> UpdateInfo(reg, id, "BgpViaBmp", rid[s], ViewKey(v)),
           n |-> NextAfter(nextId, id),
           p |-> [peers[s] EXCEPT ![v] = Cloned(s, v, id)], id |-> NoId] :
             id \in IdsFor(reg, nextId, "BgpViaBmp", rid[s], ViewKey(v))}

(* get_or_create_path_child, in what Resolved left. *)
WithChild(x, v, path) ==
    LET p == x.p[v]
    IN  IF path = 0 THEN {[x EXCEPT !.id = p.id]}
        ELSE IF IsPathChild(x.r, p.child, p.id, path)
        THEN {[x EXCEPT !.r = RefreshPathChild(@, p.child), !.id = p.child]}
        ELSE {[id |-> kid, r |-> UpdateInfo(x.r, kid, "BgpPath", p.id, path),
               n |-> NextAfter(x.n, kid),
               p |-> [x.p EXCEPT ![v].child = kid]] :
                 kid \in IdsFor(x.r, x.n, "BgpPath", p.id, path)}

(* A message for a peer of which no view is up is dropped. *)
Monitoring(s) == Running(s) /\ msgs < MaxMsgs /\ Up(s) # {}

(* The message cannot be parsed under any configuration; the view was      *)
(* synthesized before it was tried.                                        *)
Unparsable(s, v) ==
    /\ Monitoring(s) /\ v \notin Up(s)
    /\ \E x \in Resolved(s, v) :
         reg' = x.r /\ nextId' = x.n /\ peers' = [peers EXCEPT ![s] = x.p]
    /\ msgs' = msgs + 1
    /\ UNCHANGED <<fsm, rid, flight, store>>

OwesEor(p, v) == IF p[v].eor THEN [p EXCEPT ![v].pending = @ \cup {v}] ELSE p

(* Announcements: each is stored under the id of the view, or of the child *)
(* of its path; a peer that will send End of RIB now owes one.             *)
MonitorActive(s, v, path) ==
    /\ Monitoring(s)
    /\ \E x \in Resolved(s, v) : \E y \in WithChild(x, v, path) :
         /\ reg' = y.r /\ nextId' = y.n
         /\ peers' = [peers EXCEPT ![s] = OwesEor(y.p, v)]
         /\ flight' = [flight EXCEPT ![s] = Active({y.id})]
    /\ msgs' = msgs + 1
    /\ UNCHANGED <<fsm, rid, store>>

(* Withdrawals; one for a path that this session has not announced is      *)
(* dropped.                                                                *)
MonitorWithdrawn(s, v, path) ==
    /\ Monitoring(s)
    /\ \E x \in Resolved(s, v) :
         /\ reg' = x.r /\ nextId' = x.n /\ peers' = [peers EXCEPT ![s] = x.p]
         /\ LET id == IF path = 0 THEN x.p[v].id ELSE x.p[v].child
            IN  flight' = IF id = NoId THEN flight
                          ELSE [flight EXCEPT ![s] = Gone({id})]
    /\ msgs' = msgs + 1
    /\ UNCHANGED <<fsm, rid, store>>

(* remove_pending_eor: none is pending any more in any view. *)
DumpDone(p) == \A w \in Views : p[w].pending = {}

(* End of RIB: the last one ends the dump. *)
EndOfRib(s, v) ==
    /\ Monitoring(s)
    /\ \E x \in Resolved(s, v) :
         LET p == [x.p EXCEPT ![v].pending = @ \ {v}]
         IN  /\ reg' = x.r /\ nextId' = x.n
             /\ peers' = [peers EXCEPT ![s] = p]
             /\ fsm' = IF DumpDone(p) THEN [fsm EXCEPT ![s] = "Updating"] ELSE fsm
    /\ msgs' = msgs + 1
    /\ UNCHANGED <<rid, flight, store>>

(* The RIB applies the update; the handler goes on. *)
BmpDeliver(s) ==
    /\ flight[s] # None
    /\ store' = [id \in Ids |->
          IF id \notin flight[s].ids THEN store[id]
          ELSE IF flight[s].active THEN "active"
          ELSE IF store[id] = "none" THEN "none" ELSE "withdrawn"]
    /\ flight' = [flight EXCEPT ![s] = None]
    /\ fsm' = IF fsm[s] = "leaving" THEN [fsm EXCEPT ![s] = "closed"] ELSE fsm
    /\ UNCHANGED <<reg, nextId, rid, peers, msgs>>

-----------------------------------------------------------------------------
(* The end of a session.                                                   *)

(* Termination: the peers are taken down at once, and nothing is accepted  *)
(* any more.                                                               *)
Terminate(s) ==
    /\ Running(s)
    /\ reg' = MarkDisconnected(reg, OwnIds(s))
    /\ flight' = IF OwnIds(s) = {} THEN flight
                 ELSE [flight EXCEPT ![s] = Gone(OwnIds(s) \cap Registered(reg))]
    /\ peers' = [peers EXCEPT ![s] = NoPeers]
    /\ fsm' = [fsm EXCEPT ![s] = "Terminated"]
    /\ UNCHANGED <<nextId, rid, store, msgs>>

(* The stream ends, or the gate was terminated. *)
ConnectionLost(s) ==
    /\ fsm[s] \in {"Initiating", "Dumping", "Updating", "Terminated"}
    /\ flight[s] = None
    /\ reg' = MarkDisconnected(reg, {rid[s]})
    /\ fsm' = [fsm EXCEPT ![s] = "closing"]
    /\ UNCHANGED <<nextId, rid, peers, flight, store, msgs>>

(* disconnect_into_register, and the bulk withdrawal that the handler      *)
(* awaits before it is done.                                               *)
DisconnectPeers(s) ==
    /\ fsm[s] = "closing"
    /\ reg' = MarkDisconnected(reg, OwnIds(s))
    /\ flight' = [flight EXCEPT ![s] = Gone(OwnIds(s) \cap Registered(reg))]
    /\ peers' = [peers EXCEPT ![s] = NoPeers]
    /\ fsm' = [fsm EXCEPT ![s] = "leaving"]
    /\ UNCHANGED <<nextId, rid, store, msgs>>

-----------------------------------------------------------------------------
BmpNext ==
    \E s \in Sessions :
       \/ BmpConnect(s) \/ Initiation(s) \/ Terminate(s)
       \/ ConnectionLost(s) \/ DisconnectPeers(s) \/ BmpDeliver(s)
       \/ \E v \in Views :
            \/ PeerUp(s, v) \/ PeerDown(s, v) \/ Unparsable(s, v) \/ EndOfRib(s, v)
            \/ \E path \in NlriPaths :
                 MonitorActive(s, v, path) \/ MonitorWithdrawn(s, v, path)

(* A handler that awaits a delivery, or is tearing down, goes on. *)
BmpTasks == \E s \in Sessions : DisconnectPeers(s) \/ BmpDeliver(s)

BmpSpec == BmpInit /\ [][BmpNext]_bmpVars /\ WF_bmpVars(BmpTasks)

-----------------------------------------------------------------------------
BmpTypeOK ==
    /\ reg \in [Ids -> [type : Types, state : States, parent : Ids \cup {NoId},
                        key : 0..2, activity : Nat]]
    /\ nextId \in 1..(MaxIds + 1)
    /\ fsm \in [Sessions -> {"idle", "Initiating", "Dumping", "Updating",
                             "Terminated", "closing", "leaving", "closed"}]
    /\ rid \in [Sessions -> Ids \cup {NoId}]
    /\ peers \in [Sessions -> [Views ->
          [id : Ids \cup {NoId}, synthesized : BOOLEAN, eor : BOOLEAN,
           pending : SUBSET Views, child : Ids \cup {NoId}]]]
    /\ flight \in [Sessions -> {None} \cup [active : BOOLEAN, ids : SUBSET Ids]]
    /\ store \in [Ids -> {"none", "active", "withdrawn"}]
    /\ msgs \in 0..MaxMsgs

Open(s) == fsm[s] \in {"Initiating", "Dumping", "Updating", "Terminated"}

(* find_existing_peer_and_claim and find_existing_bmp_router_and_claim     *)
(* hand an id to one session: no two entries of the peer maps, of one      *)
(* session or of sessions that overlap, store routes under the same id,    *)
(* and no two open sessions are the same router in the register.           *)
SessionsApart ==
    /\ \A s, t \in Sessions : \A v, w \in Views :
          <<s, v>> # <<t, w>> => IdsOf(peers[s][v]) \cap IdsOf(peers[t][w]) = {}
    /\ \A s, t \in Sessions : s # t /\ Open(s) /\ Open(t) => rid[s] # rid[t]

(* Teardown, PeerDown and the sweep of the RIB trust the register's state: *)
(* the peers an open session holds are Connected, so that no other session *)
(* can claim them and the sweep does not reclaim them.                     *)
HeldPeersConnected ==
    \A s \in Sessions : Open(s) => \A v \in Up(s) : reg[peers[s][v].id].state = "Connected"

(* "orphaning a Connected mui that GC (which only reaps Disconnected) can  *)
(* never reclaim" (machine.rs): every Connected entry is the router of an  *)
(* open session or belongs to a peer that a session still holds, so that   *)
(* its teardown disconnects it.                                            *)
ConnectedIsHeld ==
    \A id \in Ids : reg[id].state = "Connected" =>
       \E s \in Sessions : \/ Open(s) /\ rid[s] = id
                           \/ id \in OwnIds(s)

(* The register and the peer maps agree: an entry is Connected exactly if  *)
(* a session holds it, so that each is claimed, torn down and swept when   *)
(* it should be (claim, PeerDown, teardown).                               *)
ConnectedIffHeld == HeldPeersConnected /\ ConnectedIsHeld

(* "otherwise ... routes stored under those ingresses are never withdrawn" *)
(* (machine.rs): a route that the RIB serves belongs to a peer that some   *)
(* session holds, or its withdrawal is on its way.                         *)
ServedRoutesOwned ==
    \A id \in Ids : store[id] = "active" =>
       \E s \in Sessions : \/ id \in OwnIds(s)
                           \/ flight[s] # None /\ ~flight[s].active /\ id \in flight[s].ids

(* "the stale session's teardown would later withdraw the live one's       *)
(* routes" (register.rs, of what the claim is to prevent): a route that is *)
(* served under the id of a peer which session t holds is withdrawn only   *)
(* by an update of t.                                                      *)
TeardownSparesLiveSession ==
    [][\A t \in Sessions : \A id \in OwnIds(t) :
          store[id] = "active" /\ store'[id] = "withdrawn" => flight'[t] # flight[t]]_bmpVars
=============================================================================
