---------------------------- MODULE BmpInProofs ----------------------------
(***************************************************************************)
(* BMP sessions of one router (bmp_tcp_in, register.rs), for any number of *)
(* sessions that overlap in any way, any number of ingress ids and any     *)
(* number of messages: no two of them store routes under one id (theorem   *)
(* OverlapsKeptApart), the register calls an entry Connected exactly while *)
(* a session holds it (HeldIffConnected), and no route is served that no   *)
(* session will withdraw (RoutesHaveOwner).                                *)
(*                                                                         *)
(* One invariant carries the three.  An id is handed out only if it is new *)
(* or its entry is not Connected, and every id a session holds, until its  *)
(* teardown gives it up, is Connected: therefore it is never handed out    *)
(* twice.  The types of the entries keep the ids of routers, peers and     *)
(* paths apart, so that disconnecting a router leaves the peers of the     *)
(* session that is still closing alone.                                    *)
(***************************************************************************)
EXTENDS BmpIn, TLAPS

(* Zenon proves the leaves that do not name the SMT solver.                *)
USE ZenonT(30)

Entries == [type : Types, state : States, parent : Ids \cup {NoId}, key : 0..2,
            activity : Nat]
PeerStates == [id : Ids \cup {NoId}, synthesized : BOOLEAN, eor : BOOLEAN,
               pending : SUBSET Views, child : Ids \cup {NoId}]
Machines == {"idle", "Initiating", "Dumping", "Updating", "Terminated", "closing", "leaving",
             "closed"}
OpenStates == {"Initiating", "Dumping", "Updating", "Terminated"}

(* A register r, the next id n, peer maps P, states of the machines F and  *)
(* ids of the routers R that belong together.                              *)

(* The entries of a peer and of its path child. *)
PeerFits(r, p) ==
    /\ p.id \in Ids /\ r[p.id].type = "BgpViaBmp" /\ r[p.id].state = "Connected"
    /\ p.child # NoId => /\ p.child \in Ids /\ r[p.child].type = "BgpPath"
                         /\ r[p.child].state = "Connected"
                         /\ r[p.child].parent = p.id /\ r[p.child].key = 1

RouterFits(r, state, id) ==
    state \in OpenStates =>
        /\ id \in Ids /\ r[id].type = "Bmp"
        /\ state = "Initiating" => r[id].key = NoId
        /\ state # "Initiating" => r[id].key = SysName /\ r[id].state = "Connected"

HeldIn(P, F, R, id) ==
    \E s \in Sessions : \/ F[s] \in OpenStates /\ R[s] = id
                        \/ \E v \in Views : id \in IdsOf(P[s][v])

PeersApart(P) ==
    \A s, t \in Sessions : \A v, w \in Views :
        <<s, v>> # <<t, w>> => IdsOf(P[s][v]) \cap IdsOf(P[t][w]) = {}

RoutersApart(F, R) ==
    \A s, t \in Sessions : s # t /\ F[s] \in OpenStates /\ F[t] \in OpenStates => R[s] # R[t]

Consistent(r, n, P, F, R) ==
    /\ r \in [Ids -> Entries] /\ n \in 1..(MaxIds + 1)
    /\ P \in [Sessions -> [Views -> PeerStates]]
    /\ \A id \in Ids : id >= n => r[id] = NoEntry
    /\ \A s \in Sessions, v \in Views : P[s][v] = NoPeer \/ PeerFits(r, P[s][v])
    /\ \A s \in Sessions : RouterFits(r, F[s], R[s])
    /\ PeersApart(P) /\ RoutersApart(F, R)
    /\ \A id \in Ids : r[id].state = "Connected" => HeldIn(P, F, R, id)

(* What is on its way to the RIB fits what its session holds. *)
FlightsFit ==
    \A s \in Sessions :
        /\ flight[s] # None /\ flight[s].active = TRUE => flight[s].ids \subseteq OwnIds(s)
        /\ fsm[s] \in {"closing", "closed"} => flight[s] = None

RestTypeOK ==
    /\ fsm \in [Sessions -> Machines] /\ rid \in [Sessions -> Ids \cup {NoId}]
    /\ flight \in [Sessions -> {None} \cup [active : BOOLEAN, ids : SUBSET Ids]]
    /\ store \in [Ids -> {"none", "active", "withdrawn"}] /\ msgs \in 0..MaxMsgs

BmpInv ==
    /\ RestTypeOK
    /\ Consistent(reg, nextId, peers, fsm, rid)
    /\ FlightsFit /\ ServedRoutesOwned

-----------------------------------------------------------------------------
(* What the operations on the register keep *)

(* Fields of the records the model builds.                                 *)
LEMMA Shapes ==
    /\ NoPeer \in PeerStates /\ NoPeer.id = NoId /\ NoPeer.child = NoId
    /\ IdsOf(NoPeer) = {}
    /\ NoEntry \in Entries /\ NoEntry.state = "none" /\ NoEntry.type = "none"
    /\ NoId \notin Ids
  BY SMTT(30), BmpInAssumption DEF NoPeer, PeerState, PeerStates, IdsOf, NoEntry, Entry, Entries, NoId, Ids,
     Types, States

(* Every id that a session holds is Connected and not a router's.          *)
LEMMA HeldIsConnected ==
    ASSUME NEW r, NEW p, p = NoPeer \/ PeerFits(r, p)
    PROVE  \A id \in IdsOf(p) :
              /\ id \in Ids /\ r[id].state = "Connected" /\ r[id].type # "Bmp"
  BY Shapes DEF PeerFits, IdsOf

(* It is one of a peer or of a path of a peer.                             *)
LEMMA HeldIsPeer ==
    ASSUME NEW r, NEW p, p = NoPeer \/ PeerFits(r, p)
    PROVE  \A id \in IdsOf(p) : r[id].type \in {"BgpViaBmp", "BgpPath"}
  BY Shapes DEF PeerFits, IdsOf

(* From r, n and P to q, m and Q, session s takes id for its view v.       *)
Took(r, n, P, q, m, Q, s, v, id) ==
    /\ q \in [Ids -> Entries] /\ m \in 1..(MaxIds + 1)
    /\ Q \in [Sessions -> [Views -> PeerStates]]
    /\ s \in Sessions /\ v \in Views /\ id \in Ids
    /\ r[id].state # "Connected" /\ r[id].type # "Bmp"
    /\ q[id].state = "Connected" /\ q[id].type # "Bmp"
    /\ \A j \in Ids \ {id} : q[j] = r[j]
    /\ m >= n /\ id < m
    /\ \A t \in Sessions, w \in Views : <<t, w>> # <<s, v>> => Q[t][w] = P[t][w]
    /\ IdsOf(Q[s][v]) = IdsOf(P[s][v]) \cup {id}
    /\ PeerFits(q, Q[s][v])

(* find_existing_peer_and_claim, or a new id, for a peer or a path child:  *)
(* the id was nobody's.                                                    *)
LEMMA TakesId ==
    ASSUME NEW r, NEW n, NEW P, NEW F, NEW R, Consistent(r, n, P, F, R),
           NEW q, NEW m, NEW Q, NEW s, NEW v, NEW id, Took(r, n, P, q, m, Q, s, v, id)
    PROVE  Consistent(q, m, Q, F, R)
<1> USE DEF Took
<1>1. \A t \in Sessions, w \in Views : P[t][w] = NoPeer \/ PeerFits(r, P[t][w])
  BY DEF Consistent
<1>2. ASSUME NEW t \in Sessions, NEW w \in Views PROVE id \notin IdsOf(P[t][w])
  <2>1. P[t][w] = NoPeer \/ PeerFits(r, P[t][w])
    BY <1>1
  <2>2. r[id].state # "Connected"
    OBVIOUS
  <2> HIDE DEF Took
  <2>. QED
    BY <2>1, <2>2, HeldIsConnected
<1>3. ASSUME NEW t \in Sessions, NEW w \in Views
      PROVE  Q[t][w] = NoPeer \/ PeerFits(q, Q[t][w])
  <2>1. CASE <<t, w>> = <<s, v>>
    BY <2>1
  <2>2. CASE <<t, w>> # <<s, v>> /\ P[t][w] = NoPeer
    BY <2>2
  <2>3. CASE <<t, w>> # <<s, v>> /\ PeerFits(r, P[t][w])
    <3>1. Q[t][w] = P[t][w] /\ \A j \in Ids \ {id} : q[j] = r[j]
      BY <2>3
    <3> HIDE DEF Took
    <3>4. P[t][w].id \in Ids /\ id \in Ids
      BY <2>3 DEF PeerFits, Took
    <3>2. P[t][w].id # id /\ P[t][w].child # id
      BY <1>2, <3>4, Shapes DEF IdsOf
    <3>3. PeerFits(q, P[t][w])
      BY <2>3, <3>1, <3>2 DEF PeerFits
    <3>. QED
      BY <3>1, <3>3
  <2>. QED
    BY <1>1, <2>1, <2>2, <2>3
<1>4. ASSUME NEW t \in Sessions PROVE RouterFits(q, F[t], R[t])
  <2>1. RouterFits(r, F[t], R[t])
    BY DEF Consistent
  <2>2. F[t] \in OpenStates => R[t] \in Ids /\ R[t] # id
    BY <2>1 DEF RouterFits
  <2>. QED
    BY <2>1, <2>2 DEF RouterFits
<1>5. PeersApart(Q)
  <2> SUFFICES ASSUME NEW t \in Sessions, NEW u \in Sessions, NEW w \in Views, NEW x \in Views,
                      <<t, w>> # <<u, x>>
               PROVE  IdsOf(Q[t][w]) \cap IdsOf(Q[u][x]) = {}
    BY DEF PeersApart
  <2>1. IdsOf(P[t][w]) \cap IdsOf(P[u][x]) = {}
    BY DEF Consistent, PeersApart
  <2>2. CASE <<t, w>> = <<s, v>>
    <3>1. Q[u][x] = P[u][x] /\ t = s /\ w = v
      BY <2>2
    <3>. QED
      BY SMTT(30), <1>2, <2>1, <3>1
  <2>3. CASE <<u, x>> = <<s, v>>
    <3>1. Q[t][w] = P[t][w] /\ u = s /\ x = v
      BY <2>3
    <3>. QED
      BY SMTT(30), <1>2, <2>1, <3>1
  <2>4. CASE <<t, w>> # <<s, v>> /\ <<u, x>> # <<s, v>>
    <3>1. Q[t][w] = P[t][w] /\ Q[u][x] = P[u][x]
      BY <2>4
    <3>. QED
      BY <2>1, <3>1
  <2>. QED
    BY <2>2, <2>3, <2>4
<1>6. ASSUME NEW j \in Ids, q[j].state = "Connected" PROVE HeldIn(Q, F, R, j)
  <2>1. CASE j = id
    BY <2>1 DEF HeldIn
  <2>2. CASE j # id
    <3>1. HeldIn(P, F, R, j)
      BY <1>6, <2>2 DEF Consistent
    <3>2. \A t \in Sessions, w \in Views : IdsOf(P[t][w]) \subseteq IdsOf(Q[t][w])
      OBVIOUS
    <3>. QED
      BY <3>1, <3>2 DEF HeldIn
  <2>. QED
    BY <2>1, <2>2
<1>7. \A j \in Ids : j >= m => q[j] = NoEntry
  BY SMTT(30), BmpInAssumption DEF Consistent, Ids
<1>. QED
  BY <1>3, <1>4, <1>5, <1>6, <1>7 DEF Consistent

(* q and Q differ from r and P in what is not part of an identity.         *)
SameIds(r, P, q, Q) ==
    /\ q \in [Ids -> Entries] /\ Q \in [Sessions -> [Views -> PeerStates]]
    /\ \A j \in Ids : \/ q[j] = r[j]
                      \/ /\ r[j].state = "Connected" /\ q[j].state = "Connected"
                         /\ q[j].type = r[j].type /\ q[j].parent = r[j].parent
                         /\ q[j].key = r[j].key
    /\ \A t \in Sessions, w \in Views :
          \/ Q[t][w] = P[t][w]
          \/ /\ Q[t][w].id = P[t][w].id /\ Q[t][w].child = P[t][w].child
             /\ P[t][w] # NoPeer

(* A path child is refreshed, the pending End of RIB markers change.       *)
LEMMA KeepsIds ==
    ASSUME NEW r, NEW n, NEW P, NEW F, NEW R, Consistent(r, n, P, F, R),
           NEW q, NEW Q, SameIds(r, P, q, Q)
    PROVE  Consistent(q, n, Q, F, R)
<1> USE DEF SameIds
<1>1. \A j \in Ids : /\ q[j].state = r[j].state /\ q[j].type = r[j].type
                     /\ q[j].parent = r[j].parent /\ q[j].key = r[j].key
  OBVIOUS
<1>2. \A t \in Sessions, w \in Views : IdsOf(Q[t][w]) = IdsOf(P[t][w])
  BY DEF IdsOf
<1>3. ASSUME NEW t \in Sessions, NEW w \in Views
      PROVE  Q[t][w] = NoPeer \/ PeerFits(q, Q[t][w])
  <2>1. P[t][w] = NoPeer \/ PeerFits(r, P[t][w])
    BY DEF Consistent
  <2>2. \/ Q[t][w] = P[t][w]
        \/ /\ Q[t][w].id = P[t][w].id /\ Q[t][w].child = P[t][w].child
           /\ P[t][w] # NoPeer
    OBVIOUS
  <2>3. PeerFits(r, P[t][w]) => PeerFits(q, P[t][w])
    BY <1>1 DEF PeerFits
  <2>4. CASE Q[t][w] = P[t][w]
    BY <2>1, <2>3, <2>4
  <2>5. CASE /\ Q[t][w].id = P[t][w].id /\ Q[t][w].child = P[t][w].child
             /\ P[t][w] # NoPeer
    BY <2>1, <2>3, <2>5 DEF PeerFits
  <2>. QED
    BY <2>2, <2>4, <2>5
<1>4. ASSUME NEW t \in Sessions PROVE RouterFits(q, F[t], R[t])
  <2>1. RouterFits(r, F[t], R[t])
    BY DEF Consistent
  <2> HIDE DEF SameIds
  <2>. QED
    BY <1>1, <2>1 DEF RouterFits
<1>5. PeersApart(Q)
  BY <1>2 DEF Consistent, PeersApart
<1>6. ASSUME NEW j \in Ids, q[j].state = "Connected" PROVE HeldIn(Q, F, R, j)
  <2>1. HeldIn(P, F, R, j)
    BY <1>1, <1>6 DEF Consistent
  <2>. QED
    BY <1>2, <2>1 DEF HeldIn
<1>7. \A j \in Ids : j >= n => q[j] = NoEntry
  BY SMTT(30), Shapes DEF Consistent
<1>. QED
  BY <1>3, <1>4, <1>5, <1>6, <1>7 DEF Consistent

(* mark_disconnected.                                                      *)
LEMMA Marked ==
    ASSUME NEW r \in [Ids -> Entries], NEW ids
    PROVE  /\ MarkDisconnected(r, ids) \in [Ids -> Entries]
           /\ \A j \in Ids \ ids : MarkDisconnected(r, ids)[j] = r[j]
           /\ \A j \in Ids \cap ids :
                 /\ MarkDisconnected(r, ids)[j].state # "Connected"
                 /\ MarkDisconnected(r, ids)[j].type = r[j].type
                 /\ MarkDisconnected(r, ids)[j].key = r[j].key
           /\ \A j \in Ids : r[j] = NoEntry => MarkDisconnected(r, ids)[j] = NoEntry
<1> DEFINE D(j) == [r[j] EXCEPT !.state = "Disconnected"]
<1>1. ASSUME NEW j \in Ids
      PROVE  /\ D(j) \in Entries /\ D(j).state = "Disconnected"
             /\ D(j).type = r[j].type /\ D(j).key = r[j].key
  <2>1. r[j] \in Entries
    OBVIOUS
  <2>. QED
    BY <2>1 DEF Entries, States
<1>2. \A j \in Ids : MarkDisconnected(r, ids)[j] =
                        IF j \in ids /\ r[j] # NoEntry THEN D(j) ELSE r[j]
  BY DEF MarkDisconnected
<1>3. MarkDisconnected(r, ids) = [j \in Ids |-> IF j \in ids /\ r[j] # NoEntry THEN D(j) ELSE r[j]]
  BY DEF MarkDisconnected
<1> HIDE DEF D
<1>4. MarkDisconnected(r, ids) \in [Ids -> Entries]
  BY <1>1, <1>3
<1>. QED
  BY <1>1, <1>2, <1>4, Shapes

(* PeerDown, termination and teardown: a session gives up all its peers.   *)
LEMMA DropsPeers ==
    ASSUME NEW r, NEW n, NEW P, NEW F, NEW R, Consistent(r, n, P, F, R),
           NEW s \in Sessions, NEW ids, ids = UNION {IdsOf(P[s][v]) : v \in Views}
    PROVE  Consistent(MarkDisconnected(r, ids), n, [P EXCEPT ![s] = NoPeers], F, R)
<1> DEFINE q == MarkDisconnected(r, ids)
           Q == [P EXCEPT ![s] = NoPeers]
<1>1. r \in [Ids -> Entries] /\ P \in [Sessions -> [Views -> PeerStates]]
      /\ \A t \in Sessions, w \in Views : P[t][w] = NoPeer \/ PeerFits(r, P[t][w])
  BY DEF Consistent
<1>2. /\ q \in [Ids -> Entries] /\ \A j \in Ids \ ids : q[j] = r[j]
      /\ \A j \in Ids \cap ids : q[j].state # "Connected"
      /\ \A j \in Ids : r[j] = NoEntry => q[j] = NoEntry
  BY SMTT(30), <1>1, Marked
<1>3. /\ Q \in [Sessions -> [Views -> PeerStates]]
      /\ \A w \in Views : Q[s][w] = NoPeer
      /\ \A t \in Sessions \ {s} : Q[t] = P[t]
  BY <1>1, Shapes DEF NoPeers
<1> HIDE DEF q, Q
<1>4. \A j \in ids : r[j].type # "Bmp"
  BY <1>1, HeldIsConnected
<1>5. ASSUME NEW t \in Sessions \ {s}, NEW w \in Views PROVE IdsOf(P[t][w]) \cap ids = {}
  <2>1. \A v \in Views : IdsOf(P[t][w]) \cap IdsOf(P[s][v]) = {}
    <3> SUFFICES ASSUME NEW v \in Views PROVE IdsOf(P[t][w]) \cap IdsOf(P[s][v]) = {}
      OBVIOUS
    <3>1. <<t, w>> # <<s, v>>
      OBVIOUS
    <3>. QED
      BY <3>1 DEF Consistent, PeersApart
  <2>. QED
    BY SMTT(30), <2>1
<1>6. ASSUME NEW t \in Sessions, NEW w \in Views
      PROVE  Q[t][w] = NoPeer \/ PeerFits(q, Q[t][w])
  <2>1. CASE t = s
    BY <1>3, <2>1
  <2>2. CASE t # s /\ P[t][w] = NoPeer
    BY <1>3, <2>2
  <2>3. CASE t # s /\ PeerFits(r, P[t][w])
    <3>1. Q[t][w] = P[t][w] /\ IdsOf(P[t][w]) \cap ids = {}
      BY <1>3, <1>5, <2>3
    <3>2. P[t][w].id \in IdsOf(P[t][w])
      BY <2>3, Shapes DEF PeerFits, IdsOf
    <3>3. P[t][w].child # NoId => P[t][w].child \in IdsOf(P[t][w])
      BY DEF IdsOf
    <3>. QED
      BY SMTT(30), <1>2, <2>3, <3>1, <3>2, <3>3 DEF PeerFits
  <2>. QED
    BY <1>1, <2>1, <2>2, <2>3
<1>7. \A t \in Sessions : RouterFits(q, F[t], R[t])
  BY SMTT(30), <1>2, <1>4 DEF Consistent, RouterFits
<1>8. \A t \in Sessions, w \in Views : IdsOf(Q[t][w]) \subseteq IdsOf(P[t][w])
  BY <1>3, Shapes
<1>9. PeersApart(Q)
  <2> SUFFICES ASSUME NEW t \in Sessions, NEW u \in Sessions, NEW w \in Views, NEW x \in Views,
                      <<t, w>> # <<u, x>>
               PROVE  IdsOf(Q[t][w]) \cap IdsOf(Q[u][x]) = {}
    BY DEF PeersApart
  <2>1. IdsOf(P[t][w]) \cap IdsOf(P[u][x]) = {}
    BY DEF Consistent, PeersApart
  <2>. QED
    BY <1>8, <2>1
<1>10. ASSUME NEW j \in Ids, q[j].state = "Connected" PROVE HeldIn(Q, F, R, j)
  <2>1. j \notin ids /\ q[j] = r[j]
    BY <1>2, <1>10
  <2>2. HeldIn(P, F, R, j)
    BY <1>10, <2>1 DEF Consistent
  <2>3. \A v \in Views : j \notin IdsOf(P[s][v])
    BY <2>1
  <2>. QED
    BY <1>3, <2>2, <2>3 DEF HeldIn
<1>11. \A j \in Ids : j >= n => q[j] = NoEntry
  BY <1>2 DEF Consistent
<1>12. Consistent(q, n, Q, F, R)
  BY <1>2, <1>3, <1>6, <1>7, <1>9, <1>10, <1>11 DEF Consistent
<1>. QED
  BY <1>12 DEF q, Q

(* update_info.                                                            *)
LEMMA Updated ==
    ASSUME NEW r \in [Ids -> Entries], NEW id \in Ids, NEW type \in Types,
           NEW parent \in Ids \cup {NoId}, NEW key \in 0..2
    PROVE  /\ UpdateInfo(r, id, type, parent, key) \in [Ids -> Entries]
           /\ UpdateInfo(r, id, type, parent, key)[id].state = "Connected"
           /\ UpdateInfo(r, id, type, parent, key)[id].type = type
           /\ UpdateInfo(r, id, type, parent, key)[id].parent = parent
           /\ UpdateInfo(r, id, type, parent, key)[id].key = key
           /\ \A j \in Ids \ {id} : UpdateInfo(r, id, type, parent, key)[j] = r[j]
<1> DEFINE e == Entry(type, "Connected", parent, key, r[id].activity)
<1>1. e \in Entries /\ e.state = "Connected" /\ e.type = type /\ e.parent = parent /\ e.key = key
  <2>1. r[id].activity \in Nat
    BY DEF Entries
  <2>. QED
    BY <2>1 DEF Entry, Entries, States
<1>2. UpdateInfo(r, id, type, parent, key) = [r EXCEPT ![id] = e]
  BY DEF UpdateInfo
<1> HIDE DEF e
<1>. QED
  BY <1>1, <1>2

(* The id for a peer or a path child is one that nobody holds.             *)
LEMMA HandsOut ==
    ASSUME NEW r, NEW n, NEW P, NEW F, NEW R, Consistent(r, n, P, F, R),
           NEW type \in {"BgpViaBmp", "BgpPath"}, NEW parent, NEW key,
           NEW id \in IdsFor(r, n, type, parent, key)
    PROVE  /\ id \in Ids /\ r[id].state # "Connected" /\ r[id].type # "Bmp"
           /\ NextAfter(n, id) \in 1..(MaxIds + 1) /\ NextAfter(n, id) >= n
           /\ id < NextAfter(n, id)
<1>1. n \in 1..(MaxIds + 1) /\ MaxIds \in Nat /\ \A j \in Ids : j >= n => r[j] = NoEntry
  BY BmpInAssumption DEF Consistent
<1>2. CASE id \in Claimable(r, type, parent, key)
  <2>1. id \in Ids /\ r[id].state # "Connected" /\ r[id].type = type
    BY <1>2 DEF Claimable
  <2>2. r[id] # NoEntry
    BY <2>1, Shapes
  <2>3. id < n
    BY SMTT(30), <1>1, <2>1, <2>2 DEF Ids
  <2>. QED
    BY SMTT(30), <1>1, <2>1, <2>3 DEF NextAfter, Ids
<1>3. CASE id \in {n} \cap Ids
  <2>1. id = n /\ id \in Ids /\ r[id] = NoEntry
    BY SMTT(30), <1>1, <1>3
  <2>. QED
    BY SMTT(30), <1>1, <2>1, Shapes DEF NextAfter, Ids
<1>. QED
  BY <1>2, <1>3 DEF IdsFor

(* A peer comes up, or a view is synthesized.                              *)
LEMMA TakesPeer ==
    ASSUME NEW r, NEW n, NEW P, NEW F, NEW R, Consistent(r, n, P, F, R),
           NEW s \in Sessions, NEW v \in Views, P[s][v] = NoPeer,
           NEW parent \in Ids \cup {NoId}, NEW key \in 0..2,
           NEW id \in IdsFor(r, n, "BgpViaBmp", parent, key),
           NEW p \in PeerStates, p.id = id, p.child = NoId
    PROVE  /\ Consistent(UpdateInfo(r, id, "BgpViaBmp", parent, key), NextAfter(n, id),
                         [P EXCEPT ![s] = [P[s] EXCEPT ![v] = p]], F, R)
           /\ IdsOf(p) = {id} /\ p # NoPeer
<1> DEFINE q == UpdateInfo(r, id, "BgpViaBmp", parent, key)
           Q == [P EXCEPT ![s] = [P[s] EXCEPT ![v] = p]]
<1>1. r \in [Ids -> Entries] /\ P \in [Sessions -> [Views -> PeerStates]]
  BY DEF Consistent
<1>2. /\ id \in Ids /\ r[id].state # "Connected" /\ r[id].type # "Bmp"
      /\ NextAfter(n, id) \in 1..(MaxIds + 1) /\ NextAfter(n, id) >= n /\ id < NextAfter(n, id)
  BY HandsOut
<1>3. /\ q \in [Ids -> Entries] /\ q[id].state = "Connected" /\ q[id].type = "BgpViaBmp"
      /\ \A j \in Ids \ {id} : q[j] = r[j]
  <2>1. r \in [Ids -> Entries] /\ id \in Ids /\ "BgpViaBmp" \in Types
    BY <1>1, <1>2 DEF Types
  <2>. QED
    BY SMTT(30), <2>1, Updated
<1>4. /\ Q \in [Sessions -> [Views -> PeerStates]] /\ Q[s][v] = p
      /\ \A t \in Sessions, w \in Views : <<t, w>> # <<s, v>> => Q[t][w] = P[t][w]
  <2>1. [P[s] EXCEPT ![v] = p] \in [Views -> PeerStates]
    BY <1>1
  <2>2. Q \in [Sessions -> [Views -> PeerStates]]
    BY <1>1, <2>1
  <2>3. Q[s][v] = p
    BY <1>1
  <2>4. ASSUME NEW t \in Sessions, NEW w \in Views, <<t, w>> # <<s, v>> PROVE Q[t][w] = P[t][w]
    BY <1>1, <2>4
  <2>. QED
    BY <2>2, <2>3, <2>4
<1> HIDE DEF q, Q
<1>5. IdsOf(p) = {id} /\ p # NoPeer /\ IdsOf(P[s][v]) = {}
  BY <1>2, Shapes DEF IdsOf
<1>6. PeerFits(q, p)
  BY <1>2, <1>3 DEF PeerFits
<1>7. Took(r, n, P, q, NextAfter(n, id), Q, s, v, id)
  BY <1>2, <1>3, <1>4, <1>5, <1>6 DEF Took
<1>8. Consistent(q, NextAfter(n, id), Q, F, R)
  BY <1>7, TakesId
<1>. QED
  BY <1>5, <1>8 DEF q, Q

(* get_or_create_path_child, for a path this session has not seen.         *)
LEMMA TakesChild ==
    ASSUME NEW r, NEW n, NEW P, NEW F, NEW R, Consistent(r, n, P, F, R),
           NEW s \in Sessions, NEW v \in Views, P[s][v] # NoPeer, P[s][v].child = NoId,
           NEW id \in IdsFor(r, n, "BgpPath", P[s][v].id, 1)
    PROVE  /\ Consistent(UpdateInfo(r, id, "BgpPath", P[s][v].id, 1), NextAfter(n, id),
                         [P EXCEPT ![s] = [P[s] EXCEPT ![v].child = id]], F, R)
           /\ id \in Ids
<1> DEFINE p == [P[s][v] EXCEPT !.child = id]
           q == UpdateInfo(r, id, "BgpPath", P[s][v].id, 1)
           Q == [P EXCEPT ![s] = [P[s] EXCEPT ![v].child = id]]
<1>1. /\ r \in [Ids -> Entries] /\ P \in [Sessions -> [Views -> PeerStates]]
      /\ PeerFits(r, P[s][v])
  BY DEF Consistent
<1>2. /\ id \in Ids /\ r[id].state # "Connected" /\ r[id].type # "Bmp"
      /\ NextAfter(n, id) \in 1..(MaxIds + 1) /\ NextAfter(n, id) >= n /\ id < NextAfter(n, id)
  BY HandsOut
<1>3. P[s][v] \in PeerStates /\ P[s][v].id \in Ids /\ P[s][v].id # id
  BY <1>1, <1>2 DEF PeerFits
<1>4. p \in PeerStates /\ p.id = P[s][v].id /\ p.child = id
  BY <1>2, <1>3 DEF PeerStates
<1>5. /\ q \in [Ids -> Entries] /\ q[id].state = "Connected" /\ q[id].type = "BgpPath"
      /\ q[id].parent = P[s][v].id /\ q[id].key = 1
      /\ \A j \in Ids \ {id} : q[j] = r[j]
  <2>1. "BgpPath" \in Types
    BY DEF Types
  <2>2. 1 \in 0..2
    BY SMTT(30)
  <2>3. PICK parent \in Ids \cup {NoId} : parent = P[s][v].id
    BY <1>3
  <2>5. r \in [Ids -> Entries] /\ id \in Ids
    BY <1>1, <1>2
  <2>4. LET u == UpdateInfo(r, id, "BgpPath", parent, 1) IN
        /\ u \in [Ids -> Entries] /\ u[id].state = "Connected" /\ u[id].type = "BgpPath"
        /\ u[id].parent = parent /\ u[id].key = 1
        /\ \A j \in Ids \ {id} : u[j] = r[j]
    BY SMTT(30), <2>1, <2>2, <2>5, Updated
  <2>. QED
    BY <2>3, <2>4
<1>6. /\ Q \in [Sessions -> [Views -> PeerStates]] /\ Q[s][v] = p
      /\ \A t \in Sessions, w \in Views : <<t, w>> # <<s, v>> => Q[t][w] = P[t][w]
  <2>1. Q = [P EXCEPT ![s] = [P[s] EXCEPT ![v] = p]]
    BY <1>1
  <2> HIDE DEF p, Q
  <2>2. [P[s] EXCEPT ![v] = p] \in [Views -> PeerStates]
    BY <1>1, <1>4
  <2>3. Q \in [Sessions -> [Views -> PeerStates]]
    BY <1>1, <2>1, <2>2
  <2>4. Q[s][v] = p
    BY <1>1, <2>1
  <2>5. ASSUME NEW t \in Sessions, NEW w \in Views, <<t, w>> # <<s, v>> PROVE Q[t][w] = P[t][w]
    BY <1>1, <2>1, <2>5
  <2>. QED
    BY <2>3, <2>4, <2>5
<1> HIDE DEF p, q, Q
<1>7. IdsOf(Q[s][v]) = IdsOf(P[s][v]) \cup {id}
  BY <1>2, <1>4, <1>6, Shapes DEF IdsOf
<1>8. PeerFits(q, Q[s][v])
  BY SMTT(30), <1>1, <1>2, <1>3, <1>4, <1>5, <1>6 DEF PeerFits
<1>9. Took(r, n, P, q, NextAfter(n, id), Q, s, v, id)
  BY <1>2, <1>5, <1>6, <1>7, <1>8 DEF Took
<1>10. Consistent(q, NextAfter(n, id), Q, F, R)
  BY <1>9, TakesId
<1>. QED
  BY <1>2, <1>10 DEF q, Q

(* A machine moves and stays open, or stays closed.                        *)
LEMMA MachineMoves ==
    ASSUME NEW r, NEW n, NEW P, NEW F, NEW R, Consistent(r, n, P, F, R), NEW G,
           \A t \in Sessions : /\ G[t] \in OpenStates <=> F[t] \in OpenStates
                               /\ G[t] = "Initiating" <=> F[t] = "Initiating"
    PROVE  Consistent(r, n, P, G, R)
<1>1. \A t \in Sessions : RouterFits(r, G[t], R[t])
  BY DEF Consistent, RouterFits
<1>2. RoutersApart(G, R)
  BY DEF Consistent, RoutersApart
<1>3. \A id \in Ids : HeldIn(P, F, R, id) => HeldIn(P, G, R, id)
  BY DEF HeldIn
<1>. QED
  BY <1>1, <1>2, <1>3 DEF Consistent

(* The entries of routers change, and what sessions are routers: the peers *)
(* stay as they are.                                                       *)
LEMMA RoutersMove ==
    ASSUME NEW r, NEW n, NEW P, NEW F, NEW R, Consistent(r, n, P, F, R),
           NEW q \in [Ids -> Entries], NEW m \in 1..(MaxIds + 1), NEW G, NEW S,
           \A j \in Ids : j >= m => q[j] = NoEntry,
           \A j \in Ids : r[j].type \notin {"none", "Bmp"} => q[j] = r[j],
           \A t \in Sessions : RouterFits(q, G[t], S[t]),
           RoutersApart(G, S),
           \A j \in Ids : q[j].state = "Connected" =>
               r[j].type \notin {"none", "Bmp"} \/ \E t \in Sessions : G[t] \in OpenStates /\ S[t] = j
    PROVE  Consistent(q, m, P, G, S)
<1>1. \A t \in Sessions, w \in Views : P[t][w] = NoPeer \/ PeerFits(r, P[t][w])
  BY DEF Consistent
<1>2. \A t \in Sessions, w \in Views : P[t][w] = NoPeer \/ PeerFits(q, P[t][w])
  BY SMTT(30), <1>1 DEF PeerFits
<1>3. ASSUME NEW j \in Ids, q[j].state = "Connected" PROVE HeldIn(P, G, S, j)
  <2>1. CASE \E t \in Sessions : G[t] \in OpenStates /\ S[t] = j
    BY <2>1 DEF HeldIn
  <2>2. CASE r[j].type \notin {"none", "Bmp"}
    <3>1. HeldIn(P, F, R, j)
      BY <1>3, <2>2 DEF Consistent
    <3>2. \A t \in Sessions : F[t] \in OpenStates => R[t] # j
      BY SMTT(30), <2>2 DEF Consistent, RouterFits
    <3>. QED
      BY <3>1, <3>2 DEF HeldIn
  <2>. QED
    BY <1>3, <2>1, <2>2
<1>. QED
  BY <1>2, <1>3 DEF Consistent

(* prepare_connection: a provisional entry under a new id.                 *)
LEMMA ConnectFits ==
    ASSUME BmpInv, NEW s \in Sessions, BmpConnect(s)
    PROVE  Consistent(reg, nextId, peers, fsm, rid)'
<1> DEFINE e == Entry("Bmp", "none", NoId, NoId, 0)
<1>1. /\ Consistent(reg, nextId, peers, fsm, rid) /\ fsm \in [Sessions -> Machines]
      /\ rid \in [Sessions -> Ids \cup {NoId}]
  BY DEF BmpInv, RestTypeOK
<1>2. /\ fsm[s] = "idle" /\ nextId \in Ids /\ reg' = [reg EXCEPT ![nextId] = e]
      /\ rid' = [rid EXCEPT ![s] = nextId] /\ nextId' = nextId + 1
      /\ fsm' = [fsm EXCEPT ![s] = "Initiating"] /\ peers' = peers
  BY DEF BmpConnect
<1>3. e \in Entries /\ e.type = "Bmp" /\ e.state = "none" /\ e.key = NoId
  BY SMTT(30) DEF Entry, Entries, Types, States, NoId
<1>4. /\ reg \in [Ids -> Entries] /\ reg[nextId] = NoEntry
      /\ \A j \in Ids : j >= nextId => reg[j] = NoEntry
  BY SMTT(30), <1>1, <1>2, BmpInAssumption DEF Consistent, Ids
<1> HIDE DEF e
<1>5. /\ reg' \in [Ids -> Entries] /\ reg'[nextId] = e
      /\ \A j \in Ids \ {nextId} : reg'[j] = reg[j]
  BY <1>2, <1>3, <1>4
<1>6. /\ fsm'[s] = "Initiating" /\ rid'[s] = nextId
      /\ \A t \in Sessions \ {s} : fsm'[t] = fsm[t] /\ rid'[t] = rid[t]
  BY <1>1, <1>2
<1>7. nextId' \in 1..(MaxIds + 1) /\ \A j \in Ids : j >= nextId' => reg'[j] = NoEntry
  BY SMTT(30), <1>2, <1>4, <1>5, BmpInAssumption DEF Ids
<1>8. \A j \in Ids : reg[j].type \notin {"none", "Bmp"} => reg'[j] = reg[j]
  BY <1>4, <1>5, Shapes
<1>9. \A t \in Sessions \ {s} : fsm[t] \in OpenStates => rid[t] \in Ids /\ rid[t] # nextId
  BY <1>1, <1>4, Shapes DEF Consistent, RouterFits
<1>10. ASSUME NEW t \in Sessions PROVE RouterFits(reg', fsm'[t], rid'[t])
  <2>1. CASE t = s
    BY <1>2, <1>3, <1>5, <1>6, <2>1 DEF RouterFits
  <2>2. CASE t # s
    BY SMTT(30), <1>1, <1>5, <1>6, <1>9, <2>2 DEF RouterFits, Consistent
  <2>. QED
    BY <2>1, <2>2
<1>11. RoutersApart(fsm', rid')
  BY SMTT(30), <1>1, <1>6, <1>9 DEF Consistent, RoutersApart
<1>12. ASSUME NEW j \in Ids, reg'[j].state = "Connected", reg[j].type \in {"none", "Bmp"}
       PROVE  \E t \in Sessions : fsm'[t] \in OpenStates /\ rid'[t] = j
  <2>1. j # nextId /\ reg'[j] = reg[j]
    BY <1>3, <1>5, <1>12
  <2>2. HeldIn(peers, fsm, rid, j)
    BY <1>1, <1>12, <2>1 DEF Consistent
  <2>3. ~\E t \in Sessions, w \in Views : j \in IdsOf(peers[t][w])
    BY <1>1, <1>12, HeldIsPeer DEF Consistent
  <2>4. PICK t \in Sessions : fsm[t] \in OpenStates /\ rid[t] = j
    BY <2>2, <2>3 DEF HeldIn
  <2>5. t # s
    BY <1>2, <2>4 DEF OpenStates
  <2>. QED
    BY <1>6, <2>4, <2>5
<1>13. Consistent(reg', nextId', peers, fsm', rid')
  BY <1>1, <1>5, <1>7, <1>8, <1>10, <1>11, <1>12, RoutersMove
<1>. QED
  BY <1>2, <1>13

(* The Initiation message: the provisional id becomes the router's, or it  *)
(* is given up for one that nobody holds.                                  *)
LEMMA InitiationFits ==
    ASSUME BmpInv, NEW s \in Sessions, Initiation(s)
    PROVE  Consistent(reg, nextId, peers, fsm, rid)'
<1>1. /\ Consistent(reg, nextId, peers, fsm, rid) /\ fsm \in [Sessions -> Machines]
      /\ rid \in [Sessions -> Ids \cup {NoId}]
  BY DEF BmpInv, RestTypeOK
<1>2. /\ fsm[s] = "Initiating" /\ fsm' = [fsm EXCEPT ![s] = "Dumping"]
      /\ nextId' = nextId /\ peers' = peers
  BY DEF Initiation
<1>3. /\ reg \in [Ids -> Entries] /\ nextId \in 1..(MaxIds + 1)
      /\ \A j \in Ids : j >= nextId => reg[j] = NoEntry
      /\ \A t \in Sessions : RouterFits(reg, fsm[t], rid[t])
  BY <1>1 DEF Consistent
<1>4. rid[s] \in Ids /\ reg[rid[s]].type = "Bmp" /\ reg[rid[s]].key = NoId
  BY <1>2, <1>3 DEF RouterFits, OpenStates
<1>5. fsm'[s] = "Dumping" /\ \A t \in Sessions \ {s} : fsm'[t] = fsm[t]
  BY <1>1, <1>2
<1>6. PICK id \in Ids :
        /\ id = rid[s] \/ id \in Claimable(reg, "Bmp", NoId, SysName)
        /\ \/ id = rid[s] /\ reg' = UpdateInfo(reg, id, "Bmp", NoId, SysName)
           \/ /\ id # rid[s]
              /\ reg' = Remove(UpdateInfo(reg, id, "Bmp", NoId, SysName), {rid[s]})
        /\ rid' = [rid EXCEPT ![s] = id]
  <2>1. CASE Claimable(reg, "Bmp", NoId, SysName) = {}
    <3>1. reg' = UpdateInfo(reg, rid[s], "Bmp", NoId, SysName) /\ rid' = rid
      BY <2>1 DEF Initiation
    <3>2. rid = [rid EXCEPT ![s] = rid[s]]
      BY <1>1
    <3>. QED
      BY <1>4, <3>1, <3>2
  <2>2. CASE Claimable(reg, "Bmp", NoId, SysName) # {}
    <3>1. PICK id \in Claimable(reg, "Bmp", NoId, SysName) :
             /\ reg' = Remove(UpdateInfo(reg, id, "Bmp", NoId, SysName), {rid[s]})
             /\ rid' = [rid EXCEPT ![s] = id]
      BY <2>2 DEF Initiation
    <3>2. id \in Ids /\ id # rid[s]
      BY SMTT(30), <1>4, <3>1 DEF Claimable, SysName, NoId
    <3>. QED
      BY <3>1, <3>2
  <2>. QED
    BY <2>1, <2>2
<1>7. PICK q : q = UpdateInfo(reg, id, "Bmp", NoId, SysName)
  OBVIOUS
<1>8. /\ q \in [Ids -> Entries] /\ q[id].state = "Connected" /\ q[id].type = "Bmp"
      /\ q[id].key = SysName /\ \A j \in Ids \ {id} : q[j] = reg[j]
  BY SMTT(30), <1>3, <1>7, Updated DEF Types, SysName
<1>9. /\ reg' \in [Ids -> Entries] /\ reg'[id] = q[id]
      /\ \A j \in Ids \ {id, rid[s]} : reg'[j] = reg[j]
      /\ id # rid[s] => reg'[rid[s]] = NoEntry
  BY SMTT(30), <1>4, <1>6, <1>7, <1>8, Shapes DEF Remove
<1>10. rid'[s] = id /\ \A t \in Sessions \ {s} : rid'[t] = rid[t]
  BY <1>1, <1>6
<1>11. \A t \in Sessions \ {s} : fsm[t] \in OpenStates => rid[t] # rid[s]
  BY <1>1, <1>2 DEF Consistent, RoutersApart, OpenStates
<1>12. ASSUME NEW t \in Sessions \ {s}, fsm[t] \in OpenStates PROVE rid[t] # id
  <2>1. RouterFits(reg, fsm[t], rid[t])
    BY <1>3
  <2>2. CASE id = rid[s]
    BY <1>11, <1>12, <2>2
  <2>3. CASE id \in Claimable(reg, "Bmp", NoId, SysName)
    BY SMTT(30), <1>12, <2>1, <2>3 DEF RouterFits, Claimable, NoId, SysName
  <2>. QED
    BY <1>6, <2>2, <2>3
<1>13. id < nextId
  <2>1. reg[id].type = "Bmp"
    BY <1>4, <1>6 DEF Claimable
  <2>2. reg[id] # NoEntry
    BY <2>1, Shapes
  <2>. QED
    BY SMTT(30), <1>3, <2>2, BmpInAssumption DEF Ids
<1>14. \A j \in Ids : j >= nextId => reg'[j] = NoEntry
  BY SMTT(30), <1>3, <1>9, <1>13, BmpInAssumption DEF Ids
<1>15. reg[id].type = "Bmp"
  BY <1>4, <1>6 DEF Claimable
<1>16. \A j \in Ids : reg[j].type \notin {"none", "Bmp"} => reg'[j] = reg[j]
  BY <1>4, <1>9, <1>15
<1>17. ASSUME NEW t \in Sessions PROVE RouterFits(reg', fsm'[t], rid'[t])
  <2>1. CASE t = s
    BY <1>5, <1>8, <1>9, <1>10, <2>1 DEF RouterFits, OpenStates
  <2>2. CASE t # s
    <3>1. RouterFits(reg, fsm[t], rid[t]) /\ fsm'[t] = fsm[t] /\ rid'[t] = rid[t]
      BY <1>3, <1>5, <1>10, <2>2
    <3>2. fsm[t] \in OpenStates => rid[t] \in Ids /\ reg'[rid[t]] = reg[rid[t]]
      BY <1>9, <1>11, <1>12, <2>2, <3>1 DEF RouterFits
    <3>. QED
      BY <3>1, <3>2 DEF RouterFits
  <2>. QED
    BY <2>1, <2>2
<1>18. RoutersApart(fsm', rid')
  BY SMTT(30), <1>1, <1>5, <1>10, <1>12 DEF Consistent, RoutersApart
<1>19. ASSUME NEW j \in Ids, reg'[j].state = "Connected", reg[j].type \in {"none", "Bmp"}
       PROVE  \E t \in Sessions : fsm'[t] \in OpenStates /\ rid'[t] = j
  <2>1. CASE j = id
    BY <1>5, <1>10, <2>1 DEF OpenStates
  <2>2. CASE j # id
    <3>1. j # rid[s] /\ reg'[j] = reg[j]
      BY <1>9, <1>19, <2>2, Shapes
    <3>2. HeldIn(peers, fsm, rid, j)
      BY <1>1, <1>19, <3>1 DEF Consistent
    <3>3. ~\E t \in Sessions, w \in Views : j \in IdsOf(peers[t][w])
      BY <1>1, <1>19, HeldIsPeer DEF Consistent
    <3>4. PICK t \in Sessions : fsm[t] \in OpenStates /\ rid[t] = j
      BY <3>2, <3>3 DEF HeldIn
    <3>. QED
      BY <1>5, <1>10, <3>1, <3>4
  <2>. QED
    BY <2>1, <2>2
<1>20. Consistent(reg', nextId, peers, fsm', rid')
  BY SMTT(30), <1>1, <1>3, <1>9, <1>14, <1>16, <1>17, <1>18, <1>19, RoutersMove
<1>. QED
  BY <1>2, <1>20

(* The connection is lost: the router's entry is disconnected and may be   *)
(* claimed while the peers are still to be torn down.                      *)
LEMMA LossFits ==
    ASSUME BmpInv, NEW s \in Sessions, ConnectionLost(s)
    PROVE  Consistent(reg, nextId, peers, fsm, rid)'
<1>1. /\ Consistent(reg, nextId, peers, fsm, rid) /\ fsm \in [Sessions -> Machines]
  BY DEF BmpInv, RestTypeOK
<1>2. /\ fsm[s] \in OpenStates /\ fsm' = [fsm EXCEPT ![s] = "closing"]
      /\ reg' = MarkDisconnected(reg, {rid[s]}) /\ UNCHANGED <<nextId, peers, rid>>
  BY DEF ConnectionLost, OpenStates
<1>3. /\ reg \in [Ids -> Entries] /\ nextId \in 1..(MaxIds + 1)
      /\ \A j \in Ids : j >= nextId => reg[j] = NoEntry
      /\ \A t \in Sessions : RouterFits(reg, fsm[t], rid[t])
  BY <1>1 DEF Consistent
<1>4. rid[s] \in Ids /\ reg[rid[s]].type = "Bmp"
  BY <1>2, <1>3 DEF RouterFits
<1>5. fsm'[s] = "closing" /\ \A t \in Sessions \ {s} : fsm'[t] = fsm[t]
  BY <1>1, <1>2
<1>6. /\ reg' \in [Ids -> Entries] /\ \A j \in Ids \ {rid[s]} : reg'[j] = reg[j]
      /\ reg'[rid[s]].state # "Connected"
      /\ \A j \in Ids : reg[j] = NoEntry => reg'[j] = NoEntry
  BY SMTT(30), <1>2, <1>3, <1>4, Marked
<1>7. \A t \in Sessions \ {s} : fsm[t] \in OpenStates => rid[t] # rid[s]
  BY <1>1, <1>2 DEF Consistent, RoutersApart
<1>8. \A j \in Ids : j >= nextId => reg'[j] = NoEntry
  BY <1>3, <1>6
<1>9. \A j \in Ids : reg[j].type \notin {"none", "Bmp"} => reg'[j] = reg[j]
  BY <1>4, <1>6
<1>10. ASSUME NEW t \in Sessions PROVE RouterFits(reg', fsm'[t], rid[t])
  <2>1. CASE t = s
    BY <1>5, <2>1 DEF RouterFits, OpenStates
  <2>2. CASE t # s
    BY SMTT(30), <1>3, <1>5, <1>6, <1>7, <2>2 DEF RouterFits
  <2>. QED
    BY <2>1, <2>2
<1>11. RoutersApart(fsm', rid)
  <2>1. \A t \in Sessions : fsm'[t] \in OpenStates => fsm[t] \in OpenStates
    BY <1>2, <1>5
  <2>. QED
    BY <1>1, <2>1 DEF Consistent, RoutersApart
<1>12. ASSUME NEW j \in Ids, reg'[j].state = "Connected", reg[j].type \in {"none", "Bmp"}
       PROVE  \E t \in Sessions : fsm'[t] \in OpenStates /\ rid[t] = j
  <2>1. j # rid[s] /\ reg'[j] = reg[j]
    BY <1>6, <1>12
  <2>2. HeldIn(peers, fsm, rid, j)
    BY <1>1, <1>12, <2>1 DEF Consistent
  <2>3. ~\E t \in Sessions, w \in Views : j \in IdsOf(peers[t][w])
    BY <1>1, <1>12, HeldIsPeer DEF Consistent
  <2>4. PICK t \in Sessions : fsm[t] \in OpenStates /\ rid[t] = j
    BY <2>2, <2>3 DEF HeldIn
  <2>. QED
    BY <1>5, <2>1, <2>4
<1>13. Consistent(reg', nextId, peers, fsm', rid)
  BY <1>1, <1>3, <1>6, <1>8, <1>9, <1>10, <1>11, <1>12, RoutersMove
<1>. QED
  BY <1>2, <1>13

-----------------------------------------------------------------------------
(* Messages *)

(* A view that no PeerUp announced is synthesized.                         *)
LEMMA ResolvedFits ==
    ASSUME BmpInv, NEW s \in Sessions, NEW v \in Views, Up(s) # {}, NEW x \in Resolved(s, v)
    PROVE  /\ x = [r |-> x.r, n |-> x.n, p |-> x.p, id |-> NoId]
           /\ x.p \in [Views -> PeerStates] /\ x.p[v] # NoPeer
           /\ Consistent(x.r, x.n, [peers EXCEPT ![s] = x.p], fsm, rid)
           /\ \A w \in Views : IdsOf(peers[s][w]) \subseteq IdsOf(x.p[w])
<1>1. /\ Consistent(reg, nextId, peers, fsm, rid) /\ rid[s] \in Ids \cup {NoId}
      /\ peers \in [Sessions -> [Views -> PeerStates]]
  BY DEF BmpInv, RestTypeOK, Consistent
<1>2. CASE v \in Up(s)
  <2>1. x = [r |-> reg, n |-> nextId, p |-> peers[s], id |-> NoId]
    BY <1>2 DEF Resolved
  <2>2. [peers EXCEPT ![s] = peers[s]] = peers
    BY <1>1
  <2>3. x.r = reg /\ x.n = nextId /\ x.p = peers[s]
    BY <2>1
  <2>. QED
    BY <1>1, <1>2, <2>1, <2>2, <2>3 DEF Up
<1>3. CASE v \notin Up(s)
  <2>1. PICK id \in IdsFor(reg, nextId, "BgpViaBmp", rid[s], ViewKey(v)) :
          x = [r |-> UpdateInfo(reg, id, "BgpViaBmp", rid[s], ViewKey(v)),
               n |-> NextAfter(nextId, id),
               p |-> [peers[s] EXCEPT ![v] = Cloned(s, v, id)], id |-> NoId]
    BY <1>3 DEF Resolved
  <2>2. PICK p : p = Cloned(s, v, id)
    OBVIOUS
  <2>3. id \in Ids
    BY <1>1, HandsOut
  <2>4. p \in PeerStates /\ p.id = id /\ p.child = NoId
    <3> DEFINE u == CHOOSE w \in Up(s) : w # v
               source == peers[s][u]
    <3>1. u \in Up(s)
      BY <1>3
    <3>2. source \in PeerStates
      BY <1>1, <3>1 DEF Up
    <3>3. p = [source EXCEPT !.id = id, !.synthesized = TRUE, !.child = NoId]
      BY <2>2 DEF Cloned
    <3> HIDE DEF source
    <3>. QED
      BY <2>3, <3>2, <3>3 DEF PeerStates
  <2>5. ViewKey(v) \in 0..2 /\ peers[s][v] = NoPeer
    <3>1. ViewKey(v) \in 0..2
      BY SMTT(30) DEF ViewKey
    <3>2. peers[s][v] = NoPeer
      BY <1>3 DEF Up
    <3>. QED
      BY <3>1, <3>2
  <2>6. /\ Consistent(UpdateInfo(reg, id, "BgpViaBmp", rid[s], ViewKey(v)), NextAfter(nextId, id),
                      [peers EXCEPT ![s] = [peers[s] EXCEPT ![v] = p]], fsm, rid)
        /\ p # NoPeer
    BY <1>1, <2>1, <2>4, <2>5, TakesPeer
  <2>7. /\ x.r = UpdateInfo(reg, id, "BgpViaBmp", rid[s], ViewKey(v))
        /\ x.n = NextAfter(nextId, id) /\ x.p = [peers[s] EXCEPT ![v] = p]
        /\ x = [r |-> x.r, n |-> x.n, p |-> x.p, id |-> NoId]
    BY <2>1, <2>2
  <2>8. x.p \in [Views -> PeerStates] /\ x.p[v] = p /\ \A w \in Views \ {v} : x.p[w] = peers[s][w]
    BY SMTT(30), <1>1, <2>4, <2>7
  <2>9. \A w \in Views : IdsOf(peers[s][w]) \subseteq IdsOf(x.p[w])
    BY <2>5, <2>8, Shapes
  <2>. QED
    BY <2>6, <2>7, <2>8, <2>9
<1>. QED
  BY <1>2, <1>3

(* refresh_path_child changes the activity of a Connected entry only.      *)
LEMMA Refreshed ==
    ASSUME NEW e \in Entries, e.state = "Connected"
    PROVE  \E d \in Entries : /\ d = [e EXCEPT !.state = "Connected", !.activity = @ + 1]
                              /\ d.state = "Connected" /\ d.type = e.type
                              /\ d.parent = e.parent /\ d.key = e.key
<1> DEFINE d == [e EXCEPT !.state = "Connected", !.activity = e.activity + 1]
<1>1. e.activity \in Nat
  BY DEF Entries
<1>2. e.activity + 1 \in Nat
  BY SMTT(30), <1>1
<1>3. d \in Entries
  BY <1>2 DEF Entries, States
<1>4. d.state = "Connected" /\ d.type = e.type /\ d.parent = e.parent /\ d.key = e.key
  BY DEF Entries
<1>. QED
  BY <1>3, <1>4

(* View v of c is up, and register a and next id b fit if session s has    *)
(* the peers c.                                                            *)
FitsWith(P, F, R, s, v, a, b, c) ==
    /\ P \in [Sessions -> [Views -> PeerStates]] /\ s \in Sessions /\ v \in Views
    /\ c \in [Views -> PeerStates] /\ c[v] # NoPeer
    /\ Consistent(a, b, [P EXCEPT ![s] = c], F, R)

(* Then the path child is looked up or created.                            *)
LEMMA WithChildFits ==
    ASSUME NEW P, NEW F, NEW R, NEW s, NEW v, NEW a, NEW b, NEW c, FitsWith(P, F, R, s, v, a, b, c),
           NEW path \in NlriPaths,
           NEW y \in WithChild([r |-> a, n |-> b, p |-> c, id |-> NoId], v, path)
    PROVE  /\ FitsWith(P, F, R, s, v, y.r, y.n, y.p)
           /\ y.id \in IdsOf(y.p[v])
           /\ \A w \in Views : IdsOf(c[w]) \subseteq IdsOf(y.p[w])
<1> USE DEF FitsWith
<1> DEFINE x == [r |-> a, n |-> b, p |-> c, id |-> NoId]
           P1 == [P EXCEPT ![s] = c]
<1>1. x.r = a /\ x.n = b /\ x.p = c /\ P1[s] = c /\ P1 \in [Sessions -> [Views -> PeerStates]]
  OBVIOUS
<1>2. PeerFits(a, c[v]) /\ a \in [Ids -> Entries] /\ c[v] \in PeerStates
  BY <1>1 DEF Consistent
<1>3. c[v].id \in IdsOf(c[v])
  BY <1>2, Shapes DEF PeerFits, IdsOf
<1>4. CASE path = 0
  <2>1. y = [x EXCEPT !.id = c[v].id]
    BY <1>4 DEF WithChild
  <2>2. y.r = a /\ y.n = b /\ y.p = c /\ y.id = c[v].id
    BY <2>1
  <2>. QED
    BY <1>3, <2>2
<1>5. CASE path = 1 /\ IsPathChild(a, c[v].child, c[v].id, path)
  <2>1. y = [x EXCEPT !.r = RefreshPathChild(@, c[v].child), !.id = c[v].child]
    BY SMTT(30), <1>5 DEF WithChild
  <2>2. y.r = RefreshPathChild(a, c[v].child) /\ y.n = b /\ y.p = c /\ y.id = c[v].child
    BY <2>1
  <2>3. PICK k : k = c[v].child
    OBVIOUS
  <2>4. k # NoId /\ k \in Ids /\ a[k].state = "Connected" /\ a[k] \in Entries
    BY <1>2, <1>5, <2>3 DEF IsPathChild, PeerFits
  <2>5. k \in IdsOf(c[v])
    BY <2>3, <2>4 DEF IdsOf
  <2>6. PICK e \in Entries :
          /\ e = [a[k] EXCEPT !.state = "Connected", !.activity = @ + 1]
          /\ e.state = "Connected" /\ e.type = a[k].type
          /\ e.parent = a[k].parent /\ e.key = a[k].key
    BY <2>4, Refreshed
  <2>7. y.r = [a EXCEPT ![k] = e]
    BY <1>2, <2>2, <2>3, <2>4, <2>6 DEF RefreshPathChild
  <2>8. y.r \in [Ids -> Entries] /\ y.r[k] = e /\ \A j \in Ids \ {k} : y.r[j] = a[j]
    BY <1>2, <2>4, <2>6, <2>7
  <2> HIDE DEF P1
  <2>9. \A j \in Ids : \/ y.r[j] = a[j]
                       \/ /\ a[j].state = "Connected" /\ y.r[j].state = "Connected"
                          /\ y.r[j].type = a[j].type /\ y.r[j].parent = a[j].parent
                          /\ y.r[j].key = a[j].key
    BY <2>4, <2>6, <2>8
  <2>10. Consistent(y.r, b, P1, F, R)
    <3>1. Consistent(a, b, P1, F, R)
      BY DEF P1
    <3>. QED
      BY <1>1, <2>8, <2>9, <3>1, KeepsIds DEF SameIds
  <2>. QED
    BY <2>2, <2>3, <2>5, <2>10 DEF P1
<1>6. CASE path = 1 /\ ~IsPathChild(a, c[v].child, c[v].id, path)
  <2>1. PICK kid \in IdsFor(a, b, "BgpPath", c[v].id, path) :
          y = [id |-> kid, r |-> UpdateInfo(a, kid, "BgpPath", c[v].id, path),
               n |-> NextAfter(b, kid), p |-> [c EXCEPT ![v].child = kid]]
    BY SMTT(30), <1>6 DEF WithChild
  <2>2. c[v].child = NoId
    BY <1>2, <1>6 DEF IsPathChild, PeerFits
  <2>3. /\ y.r = UpdateInfo(a, kid, "BgpPath", c[v].id, 1) /\ y.n = NextAfter(b, kid)
        /\ y.p = [c EXCEPT ![v].child = kid] /\ y.id = kid
    BY <1>6, <2>1
  <2>4. /\ Consistent(y.r, y.n, [P1 EXCEPT ![s] = [P1[s] EXCEPT ![v].child = kid]], F, R)
        /\ kid \in Ids
    <3>1. Consistent(a, b, P1, F, R)
      OBVIOUS
    <3> HIDE DEF P1
    <3>2. P1[s][v] = c[v] /\ kid \in IdsFor(a, b, "BgpPath", P1[s][v].id, 1)
      BY <1>1, <1>6, <2>1
    <3>3. P1[s][v] # NoPeer /\ P1[s][v].child = NoId
      BY <2>2, <3>2
    <3>4. /\ Consistent(UpdateInfo(a, kid, "BgpPath", P1[s][v].id, 1), NextAfter(b, kid),
                        [P1 EXCEPT ![s] = [P1[s] EXCEPT ![v].child = kid]], F, R)
          /\ kid \in Ids
      BY <3>1, <3>2, <3>3, TakesChild
    <3>. QED
      BY <2>3, <3>2, <3>4
  <2>5. [P1 EXCEPT ![s] = [P1[s] EXCEPT ![v].child = kid]] = [P EXCEPT ![s] = y.p]
    BY <1>1, <2>3
  <2> DEFINE d == [c[v] EXCEPT !.child = kid]
  <2>6. d \in PeerStates /\ d.child = kid /\ d.id = c[v].id
    BY <1>2, <2>4 DEF PeerStates
  <2>7. y.p = [c EXCEPT ![v] = d]
    BY <2>3
  <2> HIDE DEF d
  <2>8. y.p \in [Views -> PeerStates] /\ y.p[v] = d /\ \A w \in Views \ {v} : y.p[w] = c[w]
    BY <2>6, <2>7
  <2>9. kid \in IdsOf(d) /\ d # NoPeer /\ IdsOf(c[v]) \subseteq IdsOf(d)
    BY <2>2, <2>4, <2>6, Shapes DEF IdsOf
  <2>. QED
    BY <2>3, <2>4, <2>5, <2>8, <2>9
<1>. QED
  BY <1>4, <1>5, <1>6 DEF NlriPaths

-----------------------------------------------------------------------------
(* What is served, and what is on its way *)

(* Sessions keep the ids they hold; one may send an update for its own.    *)
LEMMA HoldsMore ==
    ASSUME BmpInv, store' = store,
           \A t \in Sessions : OwnIds(t) \subseteq OwnIds(t)',
           \A t \in Sessions :
              \/ flight'[t] = flight[t] /\ (fsm'[t] = fsm[t] \/ fsm'[t] \notin {"closing", "closed"}
                                                            \/ flight[t] = None)
              \/ /\ flight[t] = None /\ fsm'[t] \notin {"closing", "closed"}
                 /\ flight'[t].active = TRUE => flight'[t].ids \subseteq OwnIds(t)'
    PROVE  FlightsFit' /\ ServedRoutesOwned'
<1>1. ASSUME NEW t \in Sessions
      PROVE  /\ flight'[t] # None /\ flight'[t].active = TRUE => flight'[t].ids \subseteq OwnIds(t)'
             /\ fsm'[t] \in {"closing", "closed"} => flight'[t] = None
  <2>1. /\ flight[t] # None /\ flight[t].active = TRUE => flight[t].ids \subseteq OwnIds(t)
        /\ fsm[t] \in {"closing", "closed"} => flight[t] = None
    BY DEF BmpInv, FlightsFit
  <2>. QED
    BY <2>1
<1>2. FlightsFit'
  BY <1>1 DEF FlightsFit
<1>3. ASSUME NEW id \in Ids, store'[id] = "active"
      PROVE  \E t \in Sessions : \/ id \in OwnIds(t)'
                                 \/ /\ flight'[t] # None /\ ~flight'[t].active
                                    /\ id \in flight'[t].ids
  <2>1. PICK t \in Sessions : \/ id \in OwnIds(t)
                              \/ flight[t] # None /\ ~flight[t].active /\ id \in flight[t].ids
    BY <1>3 DEF BmpInv, ServedRoutesOwned
  <2>2. CASE id \in OwnIds(t)
    BY <2>2
  <2>3. CASE flight[t] # None /\ ~flight[t].active /\ id \in flight[t].ids
    <3>1. flight'[t] = flight[t]
      BY <2>3
    <3>. QED
      BY <2>3, <3>1
  <2>. QED
    BY <2>1, <2>2, <2>3
<1>4. ServedRoutesOwned'
  BY <1>3 DEF ServedRoutesOwned
<1>. QED
  BY <1>2, <1>4

(* A session gives up what it holds and sends the withdrawal for all of    *)
(* it.                                                                     *)
LEMMA GivesUp ==
    ASSUME BmpInv, store' = store, NEW s \in Sessions, flight[s] = None,
           \A t \in Sessions \ {s} : /\ OwnIds(t)' = OwnIds(t) /\ flight'[t] = flight[t]
                                     /\ fsm'[t] = fsm[t],
           fsm'[s] \notin {"closing", "closed"},
           \/ flight'[s] = None /\ OwnIds(s) = {}
           \/ flight'[s] = Gone(OwnIds(s)) /\ Gone(OwnIds(s)) # None
    PROVE  FlightsFit' /\ ServedRoutesOwned'
<1>0. Gone(OwnIds(s)).active = FALSE /\ Gone(OwnIds(s)).ids = OwnIds(s)
  BY DEF Gone
<1>1. ASSUME NEW t \in Sessions
      PROVE  /\ flight'[t] # None /\ flight'[t].active = TRUE => flight'[t].ids \subseteq OwnIds(t)'
             /\ fsm'[t] \in {"closing", "closed"} => flight'[t] = None
  <2>1. /\ flight[t] # None /\ flight[t].active = TRUE => flight[t].ids \subseteq OwnIds(t)
        /\ fsm[t] \in {"closing", "closed"} => flight[t] = None
    BY DEF BmpInv, FlightsFit
  <2>2. CASE t = s
    BY <1>0, <2>2
  <2>3. CASE t # s
    BY <2>1, <2>3
  <2>. QED
    BY <2>2, <2>3
<1>2. FlightsFit'
  BY <1>1 DEF FlightsFit
<1>3. ASSUME NEW id \in Ids, store'[id] = "active"
      PROVE  \E t \in Sessions : \/ id \in OwnIds(t)'
                                 \/ /\ flight'[t] # None /\ ~flight'[t].active
                                    /\ id \in flight'[t].ids
  <2>1. PICK t \in Sessions : \/ id \in OwnIds(t)
                              \/ flight[t] # None /\ ~flight[t].active /\ id \in flight[t].ids
    BY <1>3 DEF BmpInv, ServedRoutesOwned
  <2>2. CASE t # s
    BY <2>1, <2>2
  <2>3. CASE t = s
    <3>1. id \in OwnIds(s)
      BY <2>1, <2>3
    <3>2. flight'[s] # None /\ flight'[s].active = FALSE /\ id \in flight'[s].ids
      BY <1>0, <3>1
    <3>. QED
      BY <3>2
  <2>. QED
    BY <2>2, <2>3
<1>4. ServedRoutesOwned'
  BY <1>3 DEF ServedRoutesOwned
<1>. QED
  BY <1>2, <1>4

(* The RIB applies an update.                                              *)
LEMMA DeliverKeeps ==
    ASSUME BmpInv, NEW s \in Sessions, BmpDeliver(s)
    PROVE  BmpInv'
<1>1. /\ RestTypeOK /\ Consistent(reg, nextId, peers, fsm, rid) /\ FlightsFit /\ ServedRoutesOwned
  BY DEF BmpInv
<1>2. /\ flight[s] # None /\ flight' = [flight EXCEPT ![s] = None]
      /\ fsm' = IF fsm[s] = "leaving" THEN [fsm EXCEPT ![s] = "closed"] ELSE fsm
      /\ UNCHANGED <<reg, nextId, rid, peers, msgs>>
  BY DEF BmpDeliver
<1>3. store' = [id \in Ids |-> IF id \notin flight[s].ids THEN store[id]
                               ELSE IF flight[s].active THEN "active"
                               ELSE IF store[id] = "none" THEN "none" ELSE "withdrawn"]
  BY DEF BmpDeliver
<1>4. flight[s] \in [active : BOOLEAN, ids : SUBSET Ids]
  BY <1>1, <1>2 DEF RestTypeOK
<1>5. /\ flight'[s] = None /\ \A t \in Sessions \ {s} : flight'[t] = flight[t]
      /\ \A t \in Sessions : fsm'[t] = fsm[t] \/ (t = s /\ fsm[s] = "leaving" /\ fsm'[s] = "closed")
      /\ fsm' \in [Sessions -> Machines]
  <2>1. fsm \in [Sessions -> Machines] /\ "closed" \in Machines
    BY <1>1 DEF RestTypeOK, Machines
  <2>2. PICK T : flight \in [Sessions -> T]
    BY <1>1 DEF RestTypeOK
  <2>3. flight'[s] = None /\ \A t \in Sessions \ {s} : flight'[t] = flight[t]
    BY <1>2, <2>2
  <2>4. CASE fsm[s] = "leaving"
    <3>1. fsm' = [fsm EXCEPT ![s] = "closed"]
      BY <1>2, <2>4
    <3>. QED
      BY <2>1, <2>3, <2>4, <3>1
  <2>5. CASE fsm[s] # "leaving"
    BY <1>2, <2>1, <2>3, <2>5
  <2>. QED
    BY <2>4, <2>5
<1>6. RestTypeOK'
  <2>1. store' \in [Ids -> {"none", "active", "withdrawn"}]
    BY <1>1, <1>3 DEF RestTypeOK
  <2>2. flight' \in [Sessions -> {None} \cup [active : BOOLEAN, ids : SUBSET Ids]]
    BY <1>1, <1>2 DEF RestTypeOK
  <2>. QED
    BY <1>1, <1>2, <1>5, <2>1, <2>2 DEF RestTypeOK
<1>7. Consistent(reg, nextId, peers, fsm', rid)
  BY <1>1, <1>5, MachineMoves DEF OpenStates
<1>8. Consistent(reg, nextId, peers, fsm, rid)'
  BY <1>2, <1>7
<1>9. \A t \in Sessions : OwnIds(t)' = OwnIds(t)
  BY <1>2 DEF OwnIds
<1>10. FlightsFit'
  BY <1>1, <1>5, <1>9 DEF FlightsFit
<1>11. ASSUME NEW id \in Ids, store'[id] = "active"
       PROVE  \E t \in Sessions : \/ id \in OwnIds(t)'
                                  \/ /\ flight'[t] # None /\ ~flight'[t].active
                                     /\ id \in flight'[t].ids
  <2>1. CASE id \in flight[s].ids
    <3>1. flight[s].active = TRUE
      BY <1>3, <1>4, <1>11, <2>1
    <3>2. id \in OwnIds(s)
      BY <1>1, <1>2, <2>1, <3>1 DEF FlightsFit
    <3>. QED
      BY <1>9, <3>2
  <2>2. CASE id \notin flight[s].ids
    <3>1. store[id] = "active"
      BY <1>3, <1>11, <2>2
    <3>2. PICK t \in Sessions : \/ id \in OwnIds(t)
                                \/ flight[t] # None /\ ~flight[t].active /\ id \in flight[t].ids
      BY <1>1, <3>1 DEF ServedRoutesOwned
    <3>3. CASE id \in OwnIds(t)
      BY <1>9, <3>3
    <3>4. CASE flight[t] # None /\ ~flight[t].active /\ id \in flight[t].ids
      BY <1>5, <2>2, <3>4
    <3>. QED
      BY <3>2, <3>3, <3>4
  <2>. QED
    BY <2>1, <2>2
<1>12. ServedRoutesOwned'
  BY <1>11 DEF ServedRoutesOwned
<1>. QED
  BY <1>6, <1>8, <1>10, <1>12 DEF BmpInv

(* d is c but for what is pending in view v.                               *)
OnlyPending(c, d, v) == \E m \in SUBSET Views : d = [c EXCEPT ![v].pending = m]

(* The pending End of RIB markers of a peer change.                        *)
LEMMA PendingMoves ==
    ASSUME NEW P, NEW F, NEW R, NEW s, NEW v, NEW a, NEW b, NEW c, FitsWith(P, F, R, s, v, a, b, c),
           NEW d, OnlyPending(c, d, v)
    PROVE  /\ d \in [Views -> PeerStates]
           /\ Consistent(a, b, [P EXCEPT ![s] = d], F, R)
           /\ \A w \in Views : IdsOf(d[w]) = IdsOf(c[w])
<1>0. PICK m \in SUBSET Views : d = [c EXCEPT ![v].pending = m]
  BY DEF OnlyPending
<1>12. /\ P \in [Sessions -> [Views -> PeerStates]] /\ s \in Sessions /\ v \in Views
       /\ c \in [Views -> PeerStates] /\ c[v] # NoPeer
  BY DEF FitsWith
<1> DEFINE e == [c[v] EXCEPT !.pending = m]
           P1 == [P EXCEPT ![s] = c]
           Q == [P EXCEPT ![s] = d]
<1>1. c[v] \in PeerStates
  BY <1>12
<1>2. e \in PeerStates /\ e.id = c[v].id /\ e.child = c[v].child
  BY <1>1 DEF PeerStates
<1>3. d = [c EXCEPT ![v] = e]
  BY <1>0, <1>12
<1> HIDE DEF e
<1>4. d \in [Views -> PeerStates] /\ d[v] = e /\ \A w \in Views \ {v} : d[w] = c[w]
  BY <1>12, <1>2, <1>3
<1>5. \A w \in Views : IdsOf(d[w]) = IdsOf(c[w])
  BY <1>12, <1>2, <1>4 DEF IdsOf
<1>6. /\ Q \in [Sessions -> [Views -> PeerStates]] /\ Q[s] = d /\ P1[s] = c
      /\ \A t \in Sessions \ {s} : Q[t] = P1[t]
  <2>1. PICK T : T = [Views -> PeerStates]
    OBVIOUS
  <2>2. P \in [Sessions -> T] /\ c \in T /\ d \in T
    BY <1>12, <1>4, <2>1
  <2>3. Q \in [Sessions -> T] /\ Q[s] = d /\ P1[s] = c /\ \A t \in Sessions \ {s} : Q[t] = P1[t]
    BY <1>12, <2>2
  <2>. QED
    BY <2>1, <2>3
<1>71. Consistent(a, b, P1, F, R)
  BY DEF FitsWith
<1> HIDE DEF P1, Q
<1>7. Consistent(a, b, P1, F, R) /\ a \in [Ids -> Entries]
  BY <1>71 DEF Consistent
<1>8. ASSUME NEW t \in Sessions, NEW w \in Views
      PROVE  \/ Q[t][w] = P1[t][w]
             \/ /\ Q[t][w].id = P1[t][w].id /\ Q[t][w].child = P1[t][w].child
                /\ P1[t][w] # NoPeer
  <2>1. CASE t # s
    BY <1>12, <1>6, <2>1
  <2>2. CASE t = s /\ w # v
    BY <1>12, <1>4, <1>6, <2>2
  <2>3. CASE t = s /\ w = v
    BY <1>12, <1>2, <1>4, <1>6, <2>3
  <2>. QED
    BY <2>1, <2>2, <2>3
<1>9. SameIds(a, P1, a, Q)
  BY <1>6, <1>7, <1>8 DEF SameIds
<1>10. Consistent(a, b, Q, F, R)
  BY <1>7, <1>9, KeepsIds
<1>. QED
  BY <1>4, <1>5, <1>10 DEF Q

(* A message that leaves session s the peers c, with at least the ids it   *)
(* held before.                                                            *)
MessageStep(s, c) ==
    /\ Running(s) /\ msgs < MaxMsgs /\ msgs' = msgs + 1 /\ UNCHANGED <<rid, store>>
    /\ c \in [Views -> PeerStates] /\ peers' = [peers EXCEPT ![s] = c]
    /\ \A w \in Views : IdsOf(peers[s][w]) \subseteq IdsOf(c[w])
    /\ Consistent(reg', nextId', [peers EXCEPT ![s] = c], fsm, rid)
    /\ fsm' = fsm \/ fsm' = [fsm EXCEPT ![s] = "Updating"]
    /\ \/ flight' = flight
       \/ \E f \in [active : BOOLEAN, ids : SUBSET Ids] :
             /\ flight' = [flight EXCEPT ![s] = f]
             /\ f.active = TRUE => f.ids \subseteq UNION {IdsOf(c[w]) : w \in Views}

(* Such a message keeps the invariant.                                     *)
LEMMA MessageKeeps ==
    ASSUME BmpInv, NEW s \in Sessions, NEW c, MessageStep(s, c)
    PROVE  BmpInv'
<1> USE DEF MessageStep
<1>1. /\ RestTypeOK /\ peers \in [Sessions -> [Views -> PeerStates]]
      /\ fsm[s] \in {"Dumping", "Updating"} /\ flight[s] = None
  BY DEF BmpInv, Consistent, Running
<1>2. /\ fsm \in [Sessions -> Machines] /\ "Updating" \in Machines
      /\ flight \in [Sessions -> {None} \cup [active : BOOLEAN, ids : SUBSET Ids]]
  BY <1>1 DEF RestTypeOK, Machines
<1>3. /\ fsm' \in [Sessions -> Machines] /\ \A t \in Sessions \ {s} : fsm'[t] = fsm[t]
      /\ fsm'[s] \in {"Dumping", "Updating"}
  BY SMTT(30), <1>1, <1>2
<1>4. /\ flight' \in [Sessions -> {None} \cup [active : BOOLEAN, ids : SUBSET Ids]]
      /\ \A t \in Sessions \ {s} : flight'[t] = flight[t]
      /\ \/ flight'[s] = flight[s]
         \/ flight'[s].active = TRUE => flight'[s].ids \subseteq UNION {IdsOf(c[w]) : w \in Views}
  BY SMTT(30), <1>2
<1>5. msgs' \in 0..MaxMsgs
  BY SMTT(30), <1>1, BmpInAssumption DEF RestTypeOK
<1>6. RestTypeOK'
  BY <1>1, <1>3, <1>4, <1>5 DEF RestTypeOK
<1>7. peers'[s] = c /\ \A t \in Sessions \ {s} : peers'[t] = peers[t]
  BY <1>1
<1>8. OwnIds(s)' = UNION {IdsOf(c[w]) : w \in Views}
  BY SMTT(30), <1>7 DEF OwnIds
<1>9. ASSUME NEW t \in Sessions PROVE OwnIds(t) \subseteq OwnIds(t)'
  <2>1. CASE t = s
    BY SMTT(30), <1>8, <2>1 DEF OwnIds
  <2>2. CASE t # s
    BY SMTT(30), <1>7, <2>2 DEF OwnIds
  <2>. QED
    BY <2>1, <2>2
<1>10. FlightsFit' /\ ServedRoutesOwned'
  <2>1. ASSUME NEW t \in Sessions
        PROVE  \/ flight'[t] = flight[t] /\ (fsm'[t] = fsm[t] \/ fsm'[t] \notin {"closing", "closed"}
                                                            \/ flight[t] = None)
               \/ /\ flight[t] = None /\ fsm'[t] \notin {"closing", "closed"}
                  /\ flight'[t].active = TRUE => flight'[t].ids \subseteq OwnIds(t)'
    <3>1. CASE t = s
      BY <1>1, <1>3, <1>4, <1>8, <3>1
    <3>2. CASE t # s
      BY <1>3, <1>4, <3>2
    <3>. QED
      BY <3>1, <3>2
  <2>. QED
    BY <1>9, <2>1, HoldsMore
<1>11. Consistent(reg', nextId', peers', fsm', rid)
  <2>1. \A t \in Sessions : /\ fsm'[t] \in OpenStates <=> fsm[t] \in OpenStates
                            /\ fsm'[t] = "Initiating" <=> fsm[t] = "Initiating"
    BY <1>1, <1>3 DEF OpenStates
  <2>. QED
    BY <2>1, MachineMoves
<1>12. Consistent(reg, nextId, peers, fsm, rid)'
  BY <1>11
<1>. QED
  BY <1>6, <1>10, <1>12 DEF BmpInv

(* PeerUp.                                                                 *)
LEMMA PeerUpKeeps ==
    ASSUME BmpInv, NEW s \in Sessions, NEW v \in Views, PeerUp(s, v)
    PROVE  BmpInv'
<1>1. /\ Consistent(reg, nextId, peers, fsm, rid) /\ rid[s] \in Ids \cup {NoId}
      /\ peers \in [Sessions -> [Views -> PeerStates]]
  BY DEF BmpInv, RestTypeOK, Consistent
<1>2. /\ Running(s) /\ msgs < MaxMsgs /\ peers[s][v] = NoPeer /\ msgs' = msgs + 1
      /\ UNCHANGED <<fsm, rid, flight, store>>
  BY DEF PeerUp
<1>3. PICK id \in IdsFor(reg, nextId, "BgpViaBmp", rid[s], ViewKey(v)) :
         /\ reg' = UpdateInfo(reg, id, "BgpViaBmp", rid[s], ViewKey(v))
         /\ nextId' = NextAfter(nextId, id)
         /\ peers' = [peers EXCEPT ![s][v] = NewPeer(v, id)]
  BY DEF PeerUp
<1>4. id \in Ids
  BY <1>1, HandsOut
<1>5. PICK p \in PeerStates : p = NewPeer(v, id) /\ p.id = id /\ p.child = NoId
  <2>1. (v \in EorViews) \in BOOLEAN
    BY SMTT(30)
  <2>2. \A b \in BOOLEAN : /\ PeerState(id, FALSE, b, {}, NoId) \in PeerStates
                           /\ PeerState(id, FALSE, b, {}, NoId).id = id
                           /\ PeerState(id, FALSE, b, {}, NoId).child = NoId
    BY <1>4 DEF PeerState, PeerStates
  <2>. QED
    BY <2>1, <2>2 DEF NewPeer
<1>6. PICK c : c = [peers[s] EXCEPT ![v] = p]
  OBVIOUS
<1>7. c \in [Views -> PeerStates] /\ peers' = [peers EXCEPT ![s] = c]
      /\ c[v] = p /\ \A w \in Views \ {v} : c[w] = peers[s][w]
  BY <1>1, <1>3, <1>5, <1>6
<1>8. ViewKey(v) \in 0..2
  BY SMTT(30) DEF ViewKey
<1>9. Consistent(reg', nextId', [peers EXCEPT ![s] = c], fsm, rid)
  BY <1>1, <1>2, <1>3, <1>5, <1>6, <1>8, TakesPeer
<1>10. \A w \in Views : IdsOf(peers[s][w]) \subseteq IdsOf(c[w])
  BY <1>2, <1>7, Shapes
<1>11. MessageStep(s, c)
  BY <1>2, <1>7, <1>9, <1>10 DEF MessageStep
<1>. QED
  BY <1>11, MessageKeeps

(* A message that cannot be parsed.                                        *)
LEMMA UnparsableKeeps ==
    ASSUME BmpInv, NEW s \in Sessions, NEW v \in Views, Unparsable(s, v)
    PROVE  BmpInv'
<1>1. /\ Running(s) /\ msgs < MaxMsgs /\ Up(s) # {} /\ msgs' = msgs + 1
      /\ UNCHANGED <<fsm, rid, flight, store>>
  BY DEF Unparsable, Monitoring
<1>2. PICK x \in Resolved(s, v) :
         reg' = x.r /\ nextId' = x.n /\ peers' = [peers EXCEPT ![s] = x.p]
  BY DEF Unparsable
<1>3. /\ x.p \in [Views -> PeerStates]
      /\ Consistent(x.r, x.n, [peers EXCEPT ![s] = x.p], fsm, rid)
      /\ \A w \in Views : IdsOf(peers[s][w]) \subseteq IdsOf(x.p[w])
  BY <1>1, ResolvedFits
<1>4. MessageStep(s, x.p)
  BY <1>1, <1>2, <1>3 DEF MessageStep
<1>. QED
  BY <1>4, MessageKeeps

(* Register a and next id b fit if session s has the peers d.              *)
PlacedWith(P, F, R, s, a, b, d) ==
    d \in [Views -> PeerStates] /\ Consistent(a, b, [P EXCEPT ![s] = d], F, R)

(* OwesEor.                                                                *)
LEMMA OwesFits ==
    ASSUME NEW P, NEW F, NEW R, NEW s, NEW v, NEW a, NEW b, NEW c, FitsWith(P, F, R, s, v, a, b, c),
           NEW k, k = OwesEor(c, v)
    PROVE  /\ PlacedWith(P, F, R, s, a, b, k)
           /\ \A w \in Views : IdsOf(k[w]) = IdsOf(c[w])
<1>1. PICK m \in SUBSET Views : m = c[v].pending \cup {v}
  <2>1. c[v] \in PeerStates /\ v \in Views
    BY DEF FitsWith
  <2>. QED
    BY <2>1 DEF PeerStates
<1>2. PICK d : d = [c EXCEPT ![v].pending = m]
  OBVIOUS
<1>3. k = d \/ k = c
  BY <1>1, <1>2 DEF OwesEor
<1>4. /\ d \in [Views -> PeerStates] /\ Consistent(a, b, [P EXCEPT ![s] = d], F, R)
      /\ \A w \in Views : IdsOf(d[w]) = IdsOf(c[w])
  <2>1. OnlyPending(c, d, v)
    BY <1>2 DEF OnlyPending
  <2>. QED
    BY SMTT(30), <2>1, PendingMoves
<1>. QED
  BY <1>3, <1>4 DEF FitsWith, PlacedWith

(* Announcements.                                                          *)
LEMMA ActiveKeeps ==
    ASSUME BmpInv, NEW s \in Sessions, NEW v \in Views, NEW path \in NlriPaths,
           MonitorActive(s, v, path)
    PROVE  BmpInv'
<1>0. peers \in [Sessions -> [Views -> PeerStates]]
  BY DEF BmpInv, Consistent
<1>1. /\ Running(s) /\ msgs < MaxMsgs /\ Up(s) # {} /\ msgs' = msgs + 1
      /\ UNCHANGED <<fsm, rid, store>>
  BY DEF MonitorActive, Monitoring
<1>2. PICK x \in Resolved(s, v) : \E y \in WithChild(x, v, path) :
         /\ reg' = y.r /\ nextId' = y.n /\ peers' = [peers EXCEPT ![s] = OwesEor(y.p, v)]
         /\ flight' = [flight EXCEPT ![s] = Active({y.id})]
  BY DEF MonitorActive
<1>3. PICK y \in WithChild(x, v, path) :
         /\ reg' = y.r /\ nextId' = y.n /\ peers' = [peers EXCEPT ![s] = OwesEor(y.p, v)]
         /\ flight' = [flight EXCEPT ![s] = Active({y.id})]
  BY <1>2
<1>4. PICK a, b, c : a = x.r /\ b = x.n /\ c = x.p
  OBVIOUS
<1>5. /\ x = [r |-> a, n |-> b, p |-> c, id |-> NoId]
      /\ c \in [Views -> PeerStates] /\ c[v] # NoPeer
      /\ Consistent(a, b, [peers EXCEPT ![s] = c], fsm, rid)
      /\ \A w \in Views : IdsOf(peers[s][w]) \subseteq IdsOf(c[w])
  BY <1>1, <1>4, ResolvedFits
<1>6. y \in WithChild([r |-> a, n |-> b, p |-> c, id |-> NoId], v, path)
  BY <1>5
<1>7. /\ FitsWith(peers, fsm, rid, s, v, y.r, y.n, y.p) /\ y.id \in IdsOf(y.p[v])
      /\ \A w \in Views : IdsOf(c[w]) \subseteq IdsOf(y.p[w])
  <2>1. FitsWith(peers, fsm, rid, s, v, a, b, c)
    BY <1>0, <1>5 DEF FitsWith
  <2>. QED
    BY SMTT(30), <1>6, <2>1, WithChildFits
<1>8. PICK d : d = OwesEor(y.p, v)
  OBVIOUS
<1>9. /\ d \in [Views -> PeerStates] /\ Consistent(y.r, y.n, [peers EXCEPT ![s] = d], fsm, rid)
      /\ \A w \in Views : IdsOf(d[w]) = IdsOf(y.p[w])
  <2>1. PlacedWith(peers, fsm, rid, s, y.r, y.n, d) /\ \A w \in Views : IdsOf(d[w]) = IdsOf(y.p[w])
    BY SMTT(30), <1>7, <1>8, OwesFits
  <2>. QED
    BY <2>1 DEF PlacedWith
<1>10. PICK f : f = Active({y.id})
  OBVIOUS
<1>11. y.id \in Ids
  <2>1. d[v] \in PeerStates /\ y.id \in IdsOf(d[v])
    BY <1>7, <1>9
  <2>. QED
    BY <2>1 DEF PeerStates, IdsOf
<1>12. /\ f \in [active : BOOLEAN, ids : SUBSET Ids]
       /\ f.ids \subseteq UNION {IdsOf(d[w]) : w \in Views}
  <2>1. f.ids = {y.id} /\ f \in [active : BOOLEAN, ids : SUBSET Ids]
    BY <1>10, <1>11 DEF Active
  <2>2. y.id \in IdsOf(d[v])
    BY <1>7, <1>9
  <2>. QED
    BY <2>1, <2>2
<1>13. \A w \in Views : IdsOf(peers[s][w]) \subseteq IdsOf(d[w])
  BY <1>5, <1>7, <1>9
<1>14. MessageStep(s, d)
  <2>1. /\ reg' = y.r /\ nextId' = y.n /\ peers' = [peers EXCEPT ![s] = d]
        /\ flight' = [flight EXCEPT ![s] = f]
    BY <1>3, <1>8, <1>10
  <2>. QED
    BY <1>1, <1>9, <1>12, <1>13, <2>1 DEF MessageStep
<1>. QED
  BY <1>14, MessageKeeps

(* Withdrawals.                                                            *)
LEMMA WithdrawnKeeps ==
    ASSUME BmpInv, NEW s \in Sessions, NEW v \in Views, NEW path \in NlriPaths,
           MonitorWithdrawn(s, v, path)
    PROVE  BmpInv'
<1>1. /\ Running(s) /\ msgs < MaxMsgs /\ Up(s) # {} /\ msgs' = msgs + 1
      /\ UNCHANGED <<fsm, rid, store>>
  BY DEF MonitorWithdrawn, Monitoring
<1>2. PICK x \in Resolved(s, v) :
         /\ reg' = x.r /\ nextId' = x.n /\ peers' = [peers EXCEPT ![s] = x.p]
         /\ LET id == IF path = 0 THEN x.p[v].id ELSE x.p[v].child
            IN  flight' = IF id = NoId THEN flight ELSE [flight EXCEPT ![s] = Gone({id})]
  BY DEF MonitorWithdrawn
<1>3. /\ x.p \in [Views -> PeerStates]
      /\ Consistent(x.r, x.n, [peers EXCEPT ![s] = x.p], fsm, rid)
      /\ \A w \in Views : IdsOf(peers[s][w]) \subseteq IdsOf(x.p[w])
  BY <1>1, ResolvedFits
<1>4. PICK id : id = IF path = 0 THEN x.p[v].id ELSE x.p[v].child
  OBVIOUS
<1>5. id \in Ids \cup {NoId}
  <2>1. x.p[v] \in PeerStates
    BY <1>3
  <2>. QED
    BY <1>4, <2>1 DEF PeerStates
<1>6. flight' = flight \/ (id # NoId /\ flight' = [flight EXCEPT ![s] = Gone({id})])
  BY <1>2, <1>4
<1>7. id # NoId => /\ Gone({id}) \in [active : BOOLEAN, ids : SUBSET Ids]
                   /\ Gone({id}).active = FALSE
  BY <1>5 DEF Gone
<1>8. \/ flight' = flight
      \/ \E f \in [active : BOOLEAN, ids : SUBSET Ids] :
            flight' = [flight EXCEPT ![s] = f] /\ f.active = FALSE
  BY <1>6, <1>7
<1>9. MessageStep(s, x.p)
  BY <1>1, <1>2, <1>3, <1>8 DEF MessageStep
<1>. QED
  BY <1>9, MessageKeeps

(* End of RIB.                                                             *)
LEMMA EndOfRibKeeps ==
    ASSUME BmpInv, NEW s \in Sessions, NEW v \in Views, EndOfRib(s, v)
    PROVE  BmpInv'
<1>0. peers \in [Sessions -> [Views -> PeerStates]]
  BY DEF BmpInv, Consistent
<1>1. /\ Running(s) /\ msgs < MaxMsgs /\ Up(s) # {} /\ msgs' = msgs + 1
      /\ UNCHANGED <<rid, flight, store>>
  BY DEF EndOfRib, Monitoring
<1>2. PICK x \in Resolved(s, v) :
         /\ reg' = x.r /\ nextId' = x.n
         /\ peers' = [peers EXCEPT ![s] = [x.p EXCEPT ![v].pending = @ \ {v}]]
         /\ fsm' = IF DumpDone([x.p EXCEPT ![v].pending = @ \ {v}])
                   THEN [fsm EXCEPT ![s] = "Updating"] ELSE fsm
  BY DEF EndOfRib
<1>3. /\ x.p \in [Views -> PeerStates] /\ x.p[v] # NoPeer
      /\ Consistent(x.r, x.n, [peers EXCEPT ![s] = x.p], fsm, rid)
      /\ \A w \in Views : IdsOf(peers[s][w]) \subseteq IdsOf(x.p[w])
  BY <1>1, ResolvedFits
<1>4. PICK m \in SUBSET Views : m = x.p[v].pending \ {v}
  <2>1. x.p[v] \in PeerStates
    BY <1>3
  <2>. QED
    BY <2>1 DEF PeerStates
<1>5. PICK c, d : c = x.p /\ d = [c EXCEPT ![v].pending = m]
  OBVIOUS
<1>6. peers' = [peers EXCEPT ![s] = d] /\ (fsm' = fsm \/ fsm' = [fsm EXCEPT ![s] = "Updating"])
  BY <1>2, <1>4, <1>5
<1>7. /\ c \in [Views -> PeerStates] /\ c[v] # NoPeer
      /\ Consistent(x.r, x.n, [peers EXCEPT ![s] = c], fsm, rid)
  BY <1>3, <1>5
<1>8. /\ d \in [Views -> PeerStates] /\ Consistent(x.r, x.n, [peers EXCEPT ![s] = d], fsm, rid)
      /\ \A w \in Views : IdsOf(d[w]) = IdsOf(c[w])
  <2>1. OnlyPending(c, d, v) /\ FitsWith(peers, fsm, rid, s, v, x.r, x.n, c)
    BY <1>0, <1>5, <1>7 DEF OnlyPending, FitsWith
  <2>. QED
    BY SMTT(30), <2>1, PendingMoves
<1>9. MessageStep(s, d)
  BY <1>1, <1>2, <1>3, <1>5, <1>6, <1>8 DEF MessageStep
<1>. QED
  BY <1>9, MessageKeeps

-----------------------------------------------------------------------------
(* Sessions that give up their peers, and routers that come and go *)

(* The ids a session holds are ids, and registered.                        *)
LEMMA OwnAreRegistered ==
    ASSUME BmpInv, NEW s \in Sessions
    PROVE  /\ OwnIds(s) \in SUBSET Ids /\ OwnIds(s) \cap Registered(reg) = OwnIds(s)
           /\ Gone(OwnIds(s)) \in [active : BOOLEAN, ids : SUBSET Ids]
           /\ Gone(OwnIds(s)) # None
<1>1. \A v \in Views : \A id \in IdsOf(peers[s][v]) : id \in Ids /\ reg[id].state = "Connected"
  <2>1. \A v \in Views : peers[s][v] = NoPeer \/ PeerFits(reg, peers[s][v])
    BY DEF BmpInv, Consistent
  <2>. QED
    BY <2>1, HeldIsConnected
<1>2. \A id \in OwnIds(s) : id \in Ids /\ reg[id].state = "Connected"
  BY <1>1 DEF OwnIds
<1>3. OwnIds(s) \in SUBSET Ids /\ OwnIds(s) \cap Registered(reg) = OwnIds(s)
  BY <1>2, Shapes DEF Registered
<1>4. Gone(OwnIds(s)) \in [active : BOOLEAN, ids : SUBSET Ids]
  BY <1>3 DEF Gone
<1>. QED
  BY <1>3, <1>4, BmpInAssumption

(* Session s, whose machine moves to g, gives up its peers.                *)
DownStep(s, g) ==
    /\ flight[s] = None /\ reg' = MarkDisconnected(reg, OwnIds(s))
    /\ peers' = [peers EXCEPT ![s] = NoPeers] /\ UNCHANGED <<nextId, rid, store>>
    /\ msgs' \in 0..MaxMsgs
    /\ g \in Machines \ {"closing", "closed"} /\ fsm' = [fsm EXCEPT ![s] = g]
    /\ g \in OpenStates <=> fsm[s] \in OpenStates
    /\ g = "Initiating" <=> fsm[s] = "Initiating"
    /\ \/ flight' = flight /\ OwnIds(s) = {}
       \/ flight' = [flight EXCEPT ![s] = Gone(OwnIds(s))]

(* Such a step keeps the invariant.                                        *)
LEMMA DownStepKeeps ==
    ASSUME BmpInv, NEW s \in Sessions, NEW g, DownStep(s, g)
    PROVE  BmpInv'
<1> USE DEF DownStep
<1>1. /\ RestTypeOK /\ Consistent(reg, nextId, peers, fsm, rid)
      /\ peers \in [Sessions -> [Views -> PeerStates]]
  BY DEF BmpInv, Consistent
<1>2. /\ fsm \in [Sessions -> Machines]
      /\ flight \in [Sessions -> {None} \cup [active : BOOLEAN, ids : SUBSET Ids]]
  BY <1>1 DEF RestTypeOK
<1>3. /\ Gone(OwnIds(s)) \in [active : BOOLEAN, ids : SUBSET Ids] /\ Gone(OwnIds(s)) # None
  BY OwnAreRegistered
<1>4. /\ fsm' \in [Sessions -> Machines] /\ fsm'[s] = g
      /\ \A t \in Sessions \ {s} : fsm'[t] = fsm[t]
  BY <1>2
<1>5. PICK f \in [active : BOOLEAN, ids : SUBSET Ids] : f = Gone(OwnIds(s))
  BY <1>3
<1>6. /\ flight' \in [Sessions -> {None} \cup [active : BOOLEAN, ids : SUBSET Ids]]
      /\ \A t \in Sessions \ {s} : flight'[t] = flight[t]
      /\ (flight'[s] = None /\ OwnIds(s) = {}) \/ flight'[s] = f
  <2>1. PICK T : T = {None} \cup [active : BOOLEAN, ids : SUBSET Ids]
    OBVIOUS
  <2>2. flight \in [Sessions -> T] /\ f \in T
    BY <1>2, <2>1
  <2>3. CASE flight' = flight /\ OwnIds(s) = {}
    BY <2>2, <2>3, <2>1
  <2>4. CASE flight' = [flight EXCEPT ![s] = Gone(OwnIds(s))]
    <3>1. flight' = [flight EXCEPT ![s] = f]
      BY <1>5, <2>4
    <3>2. flight' \in [Sessions -> T] /\ flight'[s] = f
          /\ \A t \in Sessions \ {s} : flight'[t] = flight[t]
      BY <2>2, <3>1
    <3>. QED
      BY <2>1, <3>2
  <2>. QED
    BY <2>3, <2>4
<1>7. RestTypeOK'
  BY <1>1, <1>4, <1>6 DEF RestTypeOK
<1>8. Consistent(reg', nextId, peers', fsm, rid)
  <2>1. PICK ids : ids = OwnIds(s)
    OBVIOUS
  <2>2. ids = UNION {IdsOf(peers[s][v]) : v \in Views}
    BY <2>1 DEF OwnIds
  <2>3. Consistent(MarkDisconnected(reg, ids), nextId, [peers EXCEPT ![s] = NoPeers], fsm, rid)
    BY <1>1, <2>2, DropsPeers
  <2>. QED
    BY <2>1, <2>3
<1>9. Consistent(reg', nextId, peers', fsm', rid)
  <2>1. \A t \in Sessions : /\ fsm'[t] \in OpenStates <=> fsm[t] \in OpenStates
                            /\ fsm'[t] = "Initiating" <=> fsm[t] = "Initiating"
    BY <1>4
  <2>. QED
    BY <1>8, <2>1, MachineMoves
<1>10. Consistent(reg, nextId, peers, fsm, rid)'
  BY <1>9
<1>11. \A t \in Sessions \ {s} : OwnIds(t)' = OwnIds(t)
  BY <1>1 DEF OwnIds
<1>12. FlightsFit' /\ ServedRoutesOwned'
  BY <1>3, <1>4, <1>5, <1>6, <1>11, GivesUp
<1>. QED
  BY <1>7, <1>10, <1>12 DEF BmpInv

(* PeerDown, termination and the end of a session.                         *)
LEMMA DownKeeps ==
    ASSUME BmpInv, NEW s \in Sessions,
           (\E v \in Views : PeerDown(s, v)) \/ Terminate(s) \/ DisconnectPeers(s)
    PROVE  BmpInv'
<1>1. /\ fsm \in [Sessions -> Machines] /\ msgs \in 0..MaxMsgs
      /\ fsm[s] = "closing" => flight[s] = None
  BY DEF BmpInv, RestTypeOK, FlightsFit
<1>2. OwnIds(s) \cap Registered(reg) = OwnIds(s)
  BY OwnAreRegistered
<1>3. ASSUME NEW v \in Views, PeerDown(s, v) PROVE DownStep(s, fsm[s])
  <2>1. /\ Running(s) /\ msgs < MaxMsgs /\ reg' = MarkDisconnected(reg, OwnIds(s))
        /\ flight' = [flight EXCEPT ![s] = Gone(OwnIds(s))]
        /\ peers' = [peers EXCEPT ![s] = NoPeers] /\ msgs' = msgs + 1
        /\ UNCHANGED <<nextId, fsm, rid, store>>
    BY <1>3 DEF PeerDown
  <2>2. msgs' \in 0..MaxMsgs
    BY SMTT(30), <1>1, <2>1, BmpInAssumption
  <2>3. fsm' = [fsm EXCEPT ![s] = fsm[s]]
    BY <1>1, <2>1
  <2>4. fsm[s] \in Machines \ {"closing", "closed"} /\ flight[s] = None
    BY <2>1 DEF Running, Machines
  <2>. QED
    BY <2>1, <2>2, <2>3, <2>4 DEF DownStep
<1>4. ASSUME Terminate(s) PROVE DownStep(s, "Terminated")
  <2>1. /\ Running(s) /\ reg' = MarkDisconnected(reg, OwnIds(s))
        /\ flight' = IF OwnIds(s) = {} THEN flight ELSE [flight EXCEPT ![s] = Gone(OwnIds(s))]
        /\ peers' = [peers EXCEPT ![s] = NoPeers] /\ fsm' = [fsm EXCEPT ![s] = "Terminated"]
        /\ UNCHANGED <<nextId, rid, store, msgs>>
    BY <1>2, <1>4 DEF Terminate
  <2>2. fsm[s] \in {"Dumping", "Updating"} /\ flight[s] = None
    BY <2>1 DEF Running
  <2>. QED
    BY <1>1, <2>1, <2>2 DEF DownStep, Machines, OpenStates
<1>5. ASSUME DisconnectPeers(s) PROVE DownStep(s, "leaving")
  <2>1. /\ fsm[s] = "closing" /\ reg' = MarkDisconnected(reg, OwnIds(s))
        /\ flight' = [flight EXCEPT ![s] = Gone(OwnIds(s))]
        /\ peers' = [peers EXCEPT ![s] = NoPeers] /\ fsm' = [fsm EXCEPT ![s] = "leaving"]
        /\ UNCHANGED <<nextId, rid, store, msgs>>
    BY <1>2, <1>5 DEF DisconnectPeers
  <2>. QED
    BY <1>1, <2>1 DEF DownStep, Machines, OpenStates
<1>. QED
  BY <1>3, <1>4, <1>5, DownStepKeeps

(* Connection, initiation and the loss of the connection.                  *)
LEMMA RouterKeeps ==
    ASSUME BmpInv, NEW s \in Sessions, BmpConnect(s) \/ Initiation(s) \/ ConnectionLost(s)
    PROVE  BmpInv'
<1>1. /\ RestTypeOK /\ fsm \in [Sessions -> Machines] /\ rid \in [Sessions -> Ids \cup {NoId}]
  BY DEF BmpInv, RestTypeOK
<1>2. Consistent(reg, nextId, peers, fsm, rid)'
  BY ConnectFits, InitiationFits, LossFits
<1>3. UNCHANGED <<peers, flight, store, msgs>>
  BY DEF BmpConnect, Initiation, ConnectionLost
<1>4. PICK g \in Machines : /\ fsm' = [fsm EXCEPT ![s] = g]
                            /\ g \in {"closing", "closed"} => flight[s] = None
  BY DEF BmpConnect, Initiation, ConnectionLost, Machines
<1>5. rid' \in [Sessions -> Ids \cup {NoId}]
  <2>1. rid' = rid \/ \E id \in Ids : rid' = [rid EXCEPT ![s] = id]
    BY DEF BmpConnect, Initiation, ConnectionLost, Claimable
  <2>. QED
    BY <1>1, <2>1
<1>6. RestTypeOK'
  BY <1>1, <1>3, <1>4, <1>5 DEF RestTypeOK
<1>7. FlightsFit' /\ ServedRoutesOwned'
  <2>1. \A t \in Sessions : OwnIds(t) \subseteq OwnIds(t)'
    BY <1>3 DEF OwnIds
  <2>2. \A t \in Sessions : /\ flight'[t] = flight[t]
                            /\ \/ fsm'[t] = fsm[t] \/ fsm'[t] \notin {"closing", "closed"}
                               \/ flight[t] = None
    BY <1>1, <1>3, <1>4
  <2>. QED
    BY <1>3, <2>1, <2>2, HoldsMore
<1>. QED
  BY <1>2, <1>6, <1>7 DEF BmpInv

-----------------------------------------------------------------------------
(* The theorems *)

(* The invariant holds before the first connection.                        *)
LEMMA BmpInvInit == BmpInit => BmpInv
<1> SUFFICES ASSUME BmpInit PROVE BmpInv
  OBVIOUS
<1>1. /\ \A j \in Ids : reg[j] = NoEntry
      /\ reg \in [Ids -> Entries]
  BY Shapes DEF BmpInit, NewRegister
<1>2. /\ \A s \in Sessions, v \in Views : peers[s][v] = NoPeer
      /\ peers \in [Sessions -> [Views -> PeerStates]]
  <2>1. NoPeers \in [Views -> PeerStates] /\ \A v \in Views : NoPeers[v] = NoPeer
    BY Shapes DEF NoPeers
  <2>2. peers = [s \in Sessions |-> NoPeers]
    BY DEF BmpInit
  <2>. QED
    BY <2>1, <2>2
<1>3. /\ \A s \in Sessions : fsm[s] = "idle" /\ fsm[s] \notin OpenStates /\ flight[s] = None
      /\ nextId \in 1..(MaxIds + 1) /\ \A j \in Ids : store[j] = "none"
  BY SMTT(30), BmpInAssumption DEF BmpInit, OpenStates
<1>4. Consistent(reg, nextId, peers, fsm, rid)
  <2>1. PeersApart(peers)
    BY <1>2, Shapes DEF PeersApart
  <2>2. RoutersApart(fsm, rid) /\ \A s \in Sessions : RouterFits(reg, fsm[s], rid[s])
    BY <1>3 DEF RoutersApart, RouterFits
  <2>3. \A j \in Ids : reg[j].state # "Connected"
    BY <1>1, Shapes
  <2>. QED
    BY <1>1, <1>2, <1>3, <2>1, <2>2, <2>3 DEF Consistent
<1>5. RestTypeOK
  BY SMTT(30), BmpInAssumption DEF BmpInit, RestTypeOK, Machines
<1>6. FlightsFit /\ ServedRoutesOwned
  BY <1>3 DEF FlightsFit, ServedRoutesOwned
<1>. QED
  BY <1>4, <1>5, <1>6 DEF BmpInv

(* Every step of every session keeps it.                                   *)
LEMMA BmpInvNext == BmpInv /\ [BmpNext]_bmpVars => BmpInv'
<1> SUFFICES ASSUME BmpInv, [BmpNext]_bmpVars PROVE BmpInv'
  OBVIOUS
<1>1. CASE UNCHANGED bmpVars
  <2>1. UNCHANGED <<reg, nextId, fsm, rid, peers, flight, store, msgs>>
    BY <1>1 DEF bmpVars
  <2>2. \A t \in Sessions : OwnIds(t)' = OwnIds(t)
    BY <2>1 DEF OwnIds
  <2>3. /\ RestTypeOK /\ Consistent(reg, nextId, peers, fsm, rid)
        /\ FlightsFit /\ ServedRoutesOwned
    BY DEF BmpInv
  <2>4. RestTypeOK'
    BY <2>1, <2>3 DEF RestTypeOK
  <2>5. Consistent(reg, nextId, peers, fsm, rid)'
    BY <2>1, <2>3
  <2>6. FlightsFit'
    BY <2>1, <2>2, <2>3 DEF FlightsFit
  <2>7. ServedRoutesOwned'
    BY <2>1, <2>2, <2>3 DEF ServedRoutesOwned
  <2>. QED
    BY <2>4, <2>5, <2>6, <2>7 DEF BmpInv
<1>2. CASE BmpNext
  <2>1. PICK s \in Sessions :
           \/ BmpConnect(s) \/ Initiation(s) \/ Terminate(s)
           \/ ConnectionLost(s) \/ DisconnectPeers(s) \/ BmpDeliver(s)
           \/ \E v \in Views :
                \/ PeerUp(s, v) \/ PeerDown(s, v) \/ Unparsable(s, v) \/ EndOfRib(s, v)
                \/ \E path \in NlriPaths :
                     MonitorActive(s, v, path) \/ MonitorWithdrawn(s, v, path)
    BY <1>2 DEF BmpNext
  <2>2. CASE BmpConnect(s) \/ Initiation(s) \/ ConnectionLost(s)
    BY <2>2, RouterKeeps
  <2>3. CASE Terminate(s) \/ DisconnectPeers(s) \/ \E v \in Views : PeerDown(s, v)
    BY <2>3, DownKeeps
  <2>4. CASE BmpDeliver(s)
    BY <2>4, DeliverKeeps
  <2>5. ASSUME NEW v \in Views, PeerUp(s, v) \/ Unparsable(s, v) \/ EndOfRib(s, v)
        PROVE  BmpInv'
    BY <2>5, PeerUpKeeps, UnparsableKeeps, EndOfRibKeeps
  <2>6. ASSUME NEW v \in Views, NEW path \in NlriPaths,
               MonitorActive(s, v, path) \/ MonitorWithdrawn(s, v, path)
        PROVE  BmpInv'
    BY <2>6, ActiveKeeps, WithdrawnKeeps
  <2>. QED
    BY <2>1, <2>2, <2>3, <2>4, <2>5, <2>6
<1>. QED
  BY <1>1, <1>2

(* What the invariant says of the register.                                *)
LEMMA InvMeans == BmpInv => SessionsApart /\ ConnectedIffHeld /\ ServedRoutesOwned
<1> SUFFICES ASSUME BmpInv PROVE SessionsApart /\ ConnectedIffHeld /\ ServedRoutesOwned
  OBVIOUS
<1>1. Consistent(reg, nextId, peers, fsm, rid) /\ ServedRoutesOwned
  BY DEF BmpInv
<1>2. \A s \in Sessions : Open(s) <=> fsm[s] \in OpenStates
  BY DEF Open, OpenStates
<1>3. SessionsApart
  BY <1>1, <1>2 DEF Consistent, PeersApart, RoutersApart, SessionsApart
<1>4. HeldPeersConnected
  BY <1>1 DEF Consistent, PeerFits, HeldPeersConnected, Up
<1>5. ASSUME NEW id \in Ids, reg[id].state = "Connected"
      PROVE  \E s \in Sessions : \/ Open(s) /\ rid[s] = id
                                 \/ id \in OwnIds(s)
  <2>1. HeldIn(peers, fsm, rid, id)
    BY <1>1, <1>5 DEF Consistent
  <2>. QED
    BY <1>2, <2>1 DEF HeldIn, OwnIds
<1>6. ConnectedIsHeld
  BY <1>5 DEF ConnectedIsHeld
<1>. QED
  BY <1>1, <1>3, <1>4, <1>6 DEF ConnectedIffHeld

(* find_existing_peer_and_claim and find_existing_bmp_router_and_claim:    *)
(* sessions that overlap never store routes under one id, whether they     *)
(* belong to two connections of the router or to two views of one.         *)
THEOREM OverlapsKeptApart == BmpSpec => []SessionsApart
<1>1. BmpInv => SessionsApart
  BY InvMeans
<1>. QED
  BY BmpInvInit, BmpInvNext, <1>1, PTL DEF BmpSpec

(* The register's Connected state, which the claims, PeerDown, the         *)
(* teardown and the sweep of the RIB trust, says exactly which entries a   *)
(* session still holds: none is reclaimed early and none is orphaned.      *)
THEOREM HeldIffConnected == BmpSpec => []ConnectedIffHeld
<1>1. BmpInv => ConnectedIffHeld
  BY InvMeans
<1>. QED
  BY BmpInvInit, BmpInvNext, <1>1, PTL DEF BmpSpec

(* After PeerDown, Termination or a lost connection no route stays in the  *)
(* RIB that no session is answerable for.                                  *)
THEOREM RoutesHaveOwner == BmpSpec => []ServedRoutesOwned
<1>1. BmpInv => ServedRoutesOwned
  BY InvMeans
<1>. QED
  BY BmpInvInit, BmpInvNext, <1>1, PTL DEF BmpSpec
=============================================================================
