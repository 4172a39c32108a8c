---------------------------- MODULE BmpOutProofs ----------------------------
(* Theorems about the bmp-tcp-out unit, for every set of peers, prefixes and  *)
(* clients and every bound.                                                   *)
EXTENDS BmpOut, TLAPS

(* Zenon proves the leaves that do not name the SMT solver.                *)
USE ZenonT(30)

\* What each stage of an actor says about the update it works on.
Shape ==
    /\ \A t \in Tasks : stage[t] # "idle" => job[t] \in Update
    /\ \A t \in Tasks : stage[t] \in {"buffer"} \cup SendStages => cur[t] \in Clients
    /\ \A c \in Clients : stage[c] \in SendStages => batch[c] # <<>>
    /\ \A c \in Clients : stage[c] = "peer_ups" => left[c] \subseteq Peers
    /\ \A c \in Clients : stage[c] = "walk" => left[c] \subseteq Prefixes
    /\ \A a \in Actors : stage[a] = "body" => Job(a).kind \in {"raw", "route", "stats"}
    /\ \A a \in Actors : stage[a] = "peer_up" => Job(a).kind # "withdraw"

TypeInv == TypeOK /\ Shape

-----------------------------------------------------------------------------
(* Facts about the sets and the helpers. *)

\* How the sets of tasks, clients and actors lie to each other.
LEMMA ActorSets ==
    /\ Peers \subseteq Tasks /\ StatsEmitter \in Tasks
    /\ Actors = Tasks \cup Clients /\ Tasks \cap Clients = {}
  BY BmpOutAssumption DEF Tasks, Actors, BmpOutAssumption

\* The empty sequence and the others.
LEMMA EmptySeq ==
    ASSUME NEW S
    PROVE  <<>> \in Seq(S) /\ Len(<<>>) = 0 /\ \A q \in Seq(S) : q # <<>> => Len(q) \in Nat \ {0}
  BY SMTT(30)

\* Head and tail of a non-empty sequence.
LEMMA NonEmptySeq ==
    ASSUME NEW S, NEW q \in Seq(S), q # <<>>
    PROVE  /\ Head(q) \in S /\ Tail(q) \in Seq(S)
           /\ Len(q) \in Nat \ {0} /\ Len(Tail(q)) = Len(q) - 1
           /\ Len(q) > 1 => Tail(q) # <<>>
  <1>1. Len(q) \in Nat \ {0}
    BY EmptySeq
  <1>2. /\ Head(q) \in S /\ Tail(q) \in Seq(S)
        /\ Len(Tail(q)) = Len(q) - 1
    BY SMTT(30), <1>1
  <1>3. \A t : Len(t) # 0 => t # <<>>
    BY EmptySeq
  <1>4. Len(q) > 1 => Len(Tail(q)) # 0
    BY SMTT(30), <1>1, <1>2
  <1> QED
    BY <1>1, <1>2, <1>3, <1>4

\* The fields of an update, and which kinds carry a prefix.
LEMMA UpdateTypes ==
    ASSUME NEW u \in Update
    PROVE  /\ u.peer \in Peers
           /\ u.kind \in {"raw", "route", "withdraw", "reappeared", "stats"}
           /\ u.kind \in {"raw", "route"} =>
                /\ u.prefix \in Prefixes /\ u.route \in Routes
                /\ u \in RouteUpdate
           /\ shallow_bytes(u) \in Nat
  BY DEF Update, RouteUpdate, PeerUpdate, shallow_bytes

\* A peer without routes has a table all the same.
LEMMA EmptyTableType == EmptyTable \in [Prefixes -> Routes]
  BY DEF EmptyTable, Routes

\* Whatever a collector is sent, its view stays a view.
LEMMA ViewTypes ==
    ASSUME NEW v \in Views, NEW p \in Peers
    PROVE  /\ SeesPeerUp(v, p) \in Views
           /\ SeesPeerDown(v, p) \in Views
           /\ \A x \in Prefixes, r \in Routes : SeesRoute(v, p, x, r) \in Views
           /\ SeesStats(v, p) \in Views
  <1>1. SeesPeerUp(v, p) \in Views
    BY DEF SeesPeerUp, Views
  <1>2. SeesPeerDown(v, p) \in Views
    BY EmptyTableType DEF SeesPeerDown, Views, Tables
  <1>3. ASSUME NEW x \in Prefixes, NEW r \in Routes PROVE SeesRoute(v, p, x, r) \in Views
    BY DEF SeesRoute, Views, Tables
  <1>4. SeesStats(v, p) \in Views
    BY DEF SeesStats, Views
  <1> QED
    BY <1>1, <1>2, <1>3, <1>4

\* So does the view after one prefix of the walk.
LEMMA WalkedTypes ==
    ASSUME UpstreamOK, NEW v \in Views, NEW x \in Prefixes PROVE Walked(v, x) \in Views
  <1> DEFINE found == {p \in Peers : /\ rib[p][x] # NoRoute
                                     /\ p \in v.up \/ register[p] # "reclaimed"}
             routes == [p \in Peers |-> IF p \in found
                          THEN [v.routes[p] EXCEPT ![x] = rib[p][x]] ELSE v.routes[p]]
  <1>1. routes \in Tables
    BY DEF UpstreamOK, Tables, Views
  <1>2. Walked(v, x) = [v EXCEPT !.up = @ \cup found, !.routes = routes]
    BY DEF Walked
  <1> QED
    BY <1>1, <1>2 DEF Views

\* A group of variables that does not change keeps its types.
LEMMA Kept ==
    /\ UpstreamOK /\ UNCHANGED upstream => UpstreamOK'
    /\ StageOK /\ UNCHANGED stage => StageOK'
    /\ TaskOK /\ UNCHANGED taskVars => TaskOK'
    /\ BufferOK /\ UNCHANGED bufferVars => BufferOK'
    /\ PeerOK /\ UNCHANGED peerVars => PeerOK'
    /\ SignalOK /\ UNCHANGED signalVars => SignalOK'
    /\ StreamOK /\ UNCHANGED streamVars => StreamOK'
    /\ DumpOK /\ UNCHANGED dumpVars => DumpOK'
    /\ MainOK /\ UNCHANGED mainVars => MainOK'
    /\ SharedOK /\ UNCHANGED <<raw_covered, clients, writer>> => SharedOK'
    /\ Shape /\ UNCHANGED <<stage, job, cur, batch, left>> => Shape'
  <1>1. UpstreamOK /\ UNCHANGED upstream => UpstreamOK'
    BY DEF UpstreamOK, upstream
  <1>2. StageOK /\ UNCHANGED stage => StageOK'
    BY DEF StageOK
  <1>3. TaskOK /\ UNCHANGED taskVars => TaskOK'
    BY DEF TaskOK, taskVars
  <1>4. BufferOK /\ UNCHANGED bufferVars => BufferOK'
    BY DEF BufferOK, bufferVars
  <1>5. PeerOK /\ UNCHANGED peerVars => PeerOK'
    BY DEF PeerOK, peerVars
  <1>6. SignalOK /\ UNCHANGED signalVars => SignalOK'
    BY DEF SignalOK, signalVars
  <1>7. StreamOK /\ UNCHANGED streamVars => StreamOK'
    BY DEF StreamOK, streamVars
  <1>8. DumpOK /\ UNCHANGED dumpVars => DumpOK'
    BY DEF DumpOK, dumpVars
  <1>9. MainOK /\ UNCHANGED mainVars => MainOK'
    BY DEF MainOK, mainVars
  <1>10. SharedOK /\ UNCHANGED <<raw_covered, clients, writer>> => SharedOK'
    BY DEF SharedOK
  <1>11. Shape /\ UNCHANGED <<stage, job, cur, batch, left>> => Shape'
    BY DEF Shape, Job
  <1> QED
    BY <1>1, <1>2, <1>3, <1>4, <1>5, <1>6, <1>7, <1>8, <1>9, <1>10, <1>11

\* request_disconnect.
LEMMA SignalTypes == ASSUME SignalOK, NEW c \in Clients, request_disconnect(c) PROVE SignalOK'
  BY DEF SignalOK, request_disconnect

\* A message that enters the channel, which had room for it.
LEMMA SentTypes ==
    ASSUME StreamOK, SignalOK, NEW c \in Clients, NEW v \in Views, Sent(c, v)
    PROVE  StreamOK' /\ SignalOK'
  <1>1. StreamOK'
    BY SMTT(30), BmpOutAssumption DEF StreamOK, Sent, Full, BmpOutAssumption
  <1> QED
    BY <1>1, Kept DEF Sent

\* A message that does not: the client is flagged or already gone.
LEMMA NotSentTypes ==
    ASSUME StreamOK, SignalOK, NEW a, NEW c \in Clients, NotSent(a, c)
    PROVE  StreamOK' /\ SignalOK'
  BY SignalTypes, Kept DEF NotSent

\* remove_known_peer.
LEMMA RemoveTypes ==
    ASSUME PeerOK, NEW c \in Clients, NEW p, remove_known_peer(c, p) PROVE PeerOK'
  BY DEF PeerOK, remove_known_peer

\* Clearing the dump buffer gives its bytes back to the gauge.
LEMMA ClearedTypes ==
    ASSUME BufferOK, NEW c \in Clients,
           dump_buffer' = [dump_buffer EXCEPT ![c] = <<>>],
           buffered_bytes' = [buffered_bytes EXCEPT ![c] = 0],
           gauge' = gauge - buffered_bytes[c],
           phase' \in [Clients -> {"Dumping", "Locked", "Live"}]
    PROVE  BufferOK'
  <1>1. buffered_bytes[c] \in Nat /\ gauge \in Int
    BY DEF BufferOK
  <1>2. gauge' \in Int
    BY SMTT(30), <1>1
  <1>3. dump_buffer' \in [Clients -> Seq(Update)]
    BY EmptySeq DEF BufferOK
  <1>4. buffered_bytes' \in [Clients -> Nat]
    BY DEF BufferOK
  <1> QED
    BY <1>2, <1>3, <1>4 DEF BufferOK

\* The one place where an actor changes its stage.
LEMMA Moves ==
    ASSUME TypeInv, NEW a \in Actors, NEW s, stage' = [stage EXCEPT ![a] = s],
           \A t \in Tasks : t # a => job'[t] = job[t] /\ cur'[t] = cur[t],
           \A c \in Clients : c # a => batch'[c] = batch[c] /\ left'[c] = left[c],
           a \in Tasks => /\ s \in TaskStages
                          /\ s # "idle" => job'[a] \in Update
                          /\ s \in {"buffer"} \cup SendStages => cur'[a] \in Clients,
           a \in Clients => /\ s \in DumpStages
                            /\ s \in SendStages => batch'[a] # <<>>
                            /\ s = "peer_ups" => left'[a] \subseteq Peers
                            /\ s = "walk" => left'[a] \subseteq Prefixes,
           s = "body" => Job(a)'.kind \in {"raw", "route", "stats"},
           s = "peer_up" => Job(a)'.kind # "withdraw"
    PROVE  StageOK' /\ Shape'
  <1>0. StageOK /\ Shape
    BY DEF TypeInv, TypeOK
  <1>1. /\ \A b \in Actors : b # a => stage'[b] = stage[b]
        /\ stage'[a] = s
    BY <1>0 DEF StageOK
  <1>2. \A b \in Actors : b # a => Job(b)' = Job(b)
    BY ActorSets DEF Job
  <1>3. StageOK'
    BY <1>0, <1>1, ActorSets DEF StageOK
  <1>4. \A t \in Tasks : stage'[t] # "idle" => job'[t] \in Update
    BY <1>0, <1>1, ActorSets DEF Shape
  <1>5. \A t \in Tasks : stage'[t] \in {"buffer"} \cup SendStages => cur'[t] \in Clients
    BY SMTT(30), <1>0, <1>1, ActorSets DEF Shape
  <1>6. \A c \in Clients : stage'[c] \in SendStages => batch'[c] # <<>>
    BY SMTT(30), <1>0, <1>1, ActorSets DEF Shape
  <1>7. \A c \in Clients : /\ stage'[c] = "peer_ups" => left'[c] \subseteq Peers
                           /\ stage'[c] = "walk" => left'[c] \subseteq Prefixes
    BY SMTT(30), <1>0, <1>1, ActorSets DEF Shape
  <1>8. \A b \in Actors :
           /\ stage'[b] = "body" => Job(b)'.kind \in {"raw", "route", "stats"}
           /\ stage'[b] = "peer_up" => Job(b)'.kind # "withdraw"
    BY <1>0, <1>1, <1>2 DEF Shape
  <1> QED
    BY <1>3, <1>4, <1>5, <1>6, <1>7, <1>8 DEF Shape

-----------------------------------------------------------------------------
(* The initial state, and the steps of the peers. *)

\* The initial states.
LEMMA InitTypes == Init => TypeInv
  <1> SUFFICES ASSUME Init PROVE TypeInv
    OBVIOUS
  <1> USE DEF Init
  <1>1. UpstreamOK
    BY EmptyTableType, BmpOutAssumption DEF UpstreamOK, Tables, BmpOutAssumption
  <1>2. StageOK /\ Shape
    <2>1. /\ \A t \in Tasks : stage[t] = "idle"
          /\ \A c \in Clients : stage[c] = "absent"
      BY ActorSets
    <2>2. StageOK
      BY <2>1, ActorSets DEF StageOK, TaskStages, DumpStages
    <2> QED
      BY <2>1, <2>2, ActorSets DEF Shape, SendStages
  <1>3. TaskOK
    BY DEF TaskOK
  <1>4. BufferOK
    BY SMTT(30), EmptySeq DEF BufferOK
  <1>5. PeerOK /\ SignalOK /\ MainOK /\ SharedOK
    BY DEF PeerOK, SignalOK, MainOK, SharedOK
  <1>6. StreamOK
    <2>1. [p \in Peers |-> EmptyTable] \in Tables
      BY EmptyTableType DEF Tables
    <2> QED
      BY SMTT(30), <2>1, BmpOutAssumption DEF StreamOK, Views, BmpOutAssumption
  <1>7. DumpOK
    BY EmptySeq DEF DumpOK
  <1> QED
    BY <1>1, <1>2, <1>3, <1>4, <1>5, <1>6, <1>7 DEF TypeInv, TypeOK

\* A task that takes up an update.
LEMMA CarriesTypes ==
    ASSUME TypeInv, UpstreamOK', NEW t \in Tasks, NEW u \in Update,
           NEW s \in {"rib", "direct_update"}, Carries(t, u, s)
    PROVE  TypeInv'
  <1>1. /\ job' = [job EXCEPT ![t] = u] /\ UNCHANGED <<todo, cur, left, batch>>
        /\ stage' = [stage EXCEPT ![t] = s]
    BY DEF Carries, dumpVars
  <1>2. TaskOK
    BY DEF TypeInv, TypeOK
  <1>3. TaskOK' /\ job'[t] = u /\ \A r \in Tasks : r # t => job'[r] = job[r]
    BY <1>1, <1>2 DEF TaskOK
  <1>4. s \in TaskStages /\ s # "buffer" /\ s \notin SendStages
        /\ s # "body" /\ s # "peer_up"
    BY DEF TaskStages, SendStages
  <1>5. t \in Actors /\ t \notin Clients
    BY ActorSets
  <1>6. StageOK' /\ Shape'
    BY <1>1, <1>3, <1>4, <1>5, Moves
  <1> QED
    BY <1>3, <1>6, Kept DEF Carries, TypeInv, TypeOK

\* The messages of a peer and the statistics about it.
LEMMA PeerMessageTypes ==
    ASSUME TypeInv, NEW p \in Peers, PeerMessage(p) PROVE TypeInv'
  <1>0. UpstreamOK /\ budget \in Nat /\ p \in Tasks /\ StatsEmitter \in Tasks
    BY ActorSets DEF TypeInv, TypeOK, UpstreamOK
  <1>1. Spend => budget' \in Nat
    BY SMTT(30), <1>0 DEF Spend
  <1>2. ASSUME NEW s \in {"connected", "disconnected"},
               register' = [register EXCEPT ![p] = s], rib' = rib, Spend
        PROVE  UpstreamOK'
    BY <1>0, <1>1, <1>2 DEF UpstreamOK
  <1>3. Spend /\ UNCHANGED <<register, rib>> => UpstreamOK'
    BY <1>0, <1>1 DEF UpstreamOK
  <1>4. CASE PeerUpNew(p)
    <2>1. UpstreamOK' /\ Shape'
      <3>1. UNCHANGED <<stage, job, cur, batch, left>>
        BY <1>4 DEF PeerUpNew, taskVars, dumpVars
      <3>2. UpstreamOK'
        BY <1>2, <1>4 DEF PeerUpNew
      <3> QED
        BY <3>1, <3>2, Kept DEF TypeInv
    <2> QED
      BY <1>4, <2>1, Kept DEF PeerUpNew, TypeInv, TypeOK
  <1>5. CASE PeerUpAgain(p)
    <2>1. [kind |-> "reappeared", peer |-> p] \in Update
      BY DEF Update, PeerUpdate
    <2> QED
      BY <1>0, <1>2, <1>5, <2>1, CarriesTypes DEF PeerUpAgain
  <1>6. CASE PeerDown(p)
    <2>1. [kind |-> "withdraw", peer |-> p] \in Update
      BY DEF Update, PeerUpdate
    <2> QED
      BY <1>0, <1>2, <1>6, <2>1, CarriesTypes DEF PeerDown
  <1>7. CASE EmitStats(p)
    <2>1. [kind |-> "stats", peer |-> p] \in Update
      BY DEF Update, PeerUpdate
    <2> QED
      BY <1>0, <1>3, <1>7, <2>1, CarriesTypes DEF EmitStats
  <1>8. ASSUME NEW x \in Prefixes, NEW r \in Routes, RouteMonitoring(p, x, r)
        PROVE  TypeInv'
    <2>1. PICK k \in {"raw", "route"}, s \in {"rib", "direct_update"} :
            Carries(p, [kind |-> k, peer |-> p, prefix |-> x, route |-> r], s)
      BY <1>8 DEF RouteMonitoring
    <2>2. [kind |-> k, peer |-> p, prefix |-> x, route |-> r] \in Update
      BY DEF Update, RouteUpdate
    <2>3. UpstreamOK'
      BY <1>3, <1>8 DEF RouteMonitoring
    <2> QED
      BY <1>0, <2>1, <2>2, <2>3, CarriesTypes
  <1> QED
    BY <1>4, <1>5, <1>6, <1>7, <1>8 DEF PeerMessage

\* Garbage collection of a register entry.
LEMMA GcDisconnectedTypes ==
    ASSUME TypeInv, NEW p \in Peers, GcDisconnected(p) PROVE TypeInv'
  <1>1. UpstreamOK'
    BY EmptyTableType DEF GcDisconnected, TypeInv, TypeOK, UpstreamOK, Tables
  <1>2. UNCHANGED <<stage, job, cur, batch, left>>
    BY DEF GcDisconnected, taskVars, dumpVars
  <1>3. Shape'
    BY <1>2, Kept DEF TypeInv
  <1> QED
    BY <1>1, <1>3, Kept DEF GcDisconnected, TypeInv, TypeOK

-----------------------------------------------------------------------------
(* The steps of direct_update. *)

\* A task that moves on with its update, outside send_update_to_client.
LEMMA TaskMoves ==
    ASSUME TypeInv, NEW t \in Tasks, stage[t] # "idle",
           NEW s \in {"direct_update", "each", "buffer"}, stage' = [stage EXCEPT ![t] = s],
           UNCHANGED <<job, left, batch>>,
           \A r \in Tasks : r # t => cur'[r] = cur[r],
           s = "buffer" => cur'[t] \in Clients
    PROVE  StageOK' /\ Shape'
  <1>1. job[t] \in Update
    BY DEF TypeInv, Shape
  <1>2. s \in TaskStages /\ s \notin SendStages /\ s # "body" /\ s # "peer_up"
    BY DEF TaskStages, SendStages
  <1>3. t \in Actors /\ t \notin Clients
    BY ActorSets
  <1> QED
    BY <1>1, <1>2, <1>3, Moves

\* The RIB applies an update.
LEMMA RibUpdateTypes ==
    ASSUME TypeInv, NEW p \in Peers, RibUpdate(p) PROVE TypeInv'
  <1>0. /\ p \in Tasks /\ stage[p] = "rib" /\ job[p] \in Update /\ UpstreamOK
    BY ActorSets DEF RibUpdate, TypeInv, TypeOK, Shape
  <1>1. rib' \in Tables
    BY <1>0, UpdateTypes, EmptyTableType DEF RibUpdate, UpstreamOK, Tables
  <1>2. UpstreamOK'
    BY <1>0, <1>1 DEF RibUpdate, UpstreamOK
  <1>3. UNCHANGED <<job, cur, left, batch>> /\ stage' = [stage EXCEPT ![p] = "direct_update"]
    BY DEF RibUpdate, taskVars, dumpVars
  <1>4. StageOK' /\ Shape'
    BY <1>0, <1>3, TaskMoves
  <1> QED
    BY <1>2, <1>4, Kept DEF RibUpdate, TypeInv, TypeOK

\* direct_update takes its snapshot of the clients.
LEMMA DirectUpdateTypes ==
    ASSUME TypeInv, NEW t \in Tasks, DirectUpdate(t) PROVE TypeInv'
  <1>0. stage[t] = "direct_update" /\ job[t] \in Update /\ TaskOK /\ SharedOK
    BY DEF DirectUpdate, TypeInv, TypeOK, Shape
  <1>1. job[t].peer \in Peers
    BY <1>0, UpdateTypes
  <1>2. TaskOK'
    BY <1>0 DEF DirectUpdate, TaskOK, SharedOK
  <1>3. SharedOK'
    BY <1>0, <1>1 DEF DirectUpdate, SharedOK
  <1>4. UNCHANGED <<job, cur, left, batch>> /\ stage' = [stage EXCEPT ![t] = "each"]
    BY DEF DirectUpdate, dumpVars
  <1>5. StageOK' /\ Shape'
    BY <1>0, <1>4, TaskMoves
  <1> QED
    BY <1>2, <1>3, <1>5, Kept DEF DirectUpdate, TypeInv, TypeOK

\* direct_update turns to one client.
LEMMA EachClientTypes ==
    ASSUME TypeInv, NEW t \in Tasks, NEW c \in Clients, EachClient(t, c) PROVE TypeInv'
  <1>0. stage[t] = "each" /\ TaskOK
    BY DEF EachClient, TypeInv, TypeOK
  <1>1. TaskOK'
    BY <1>0 DEF EachClient, TaskOK
  <1>2. StageOK' /\ Shape'
    <2>1. UNCHANGED <<job, left, batch>>
      BY DEF EachClient, dumpVars
    <2>2. CASE disconnect_pending[c]
      BY <2>1, <2>2, Kept DEF EachClient, TypeInv, TypeOK
    <2>3. CASE ~disconnect_pending[c]
      <3>1. /\ stage' = [stage EXCEPT ![t] = "buffer"] /\ cur'[t] = c
            /\ \A r \in Tasks : r # t => cur'[r] = cur[r]
        BY <1>0, <2>3 DEF EachClient, TaskOK
      <3> QED
        BY <1>0, <2>1, <3>1, TaskMoves
    <2> QED
      BY <2>2, <2>3
  <1>3. UNCHANGED <<raw_covered, clients, writer>>
    BY DEF EachClient
  <1> QED
    BY <1>1, <1>2, <1>3, Kept DEF EachClient, TypeInv, TypeOK

\* An update is buffered for a client that is dumping, or overflows.
LEMMA BufferUpdateTypes ==
    ASSUME TypeInv, NEW t \in Tasks, BufferUpdate(t) PROVE TypeInv'
  <1>0. /\ stage[t] = "buffer" /\ TaskOK /\ BufferOK /\ SignalOK
        /\ job[t] \in Update /\ cur[t] \in Clients
    BY DEF BufferUpdate, TypeInv, TypeOK, Shape
  <1>1. /\ cur' = [cur EXCEPT ![t] = None] /\ UNCHANGED <<job, todo, left, batch, phase>>
        /\ stage' = [stage EXCEPT ![t] = "each"]
    BY DEF BufferUpdate, dumpVars
  <1>2. TaskOK' /\ \A r \in Tasks : r # t => cur'[r] = cur[r]
    BY <1>0, <1>1 DEF TaskOK
  <1>3. StageOK' /\ Shape'
    BY <1>0, <1>1, <1>2, TaskMoves
  <1>4. BufferOK' /\ SignalOK'
    <2>1. CASE Overflows(cur[t], job[t])
      <3>1. UNCHANGED bufferVars /\ request_disconnect(cur[t])
        BY <1>1, <2>1 DEF BufferUpdate, bufferVars
      <3> QED
        BY <1>0, <3>1, SignalTypes, Kept
    <2>2. CASE ~Overflows(cur[t], job[t])
      <3> DEFINE c == cur[t]
                 n == shallow_bytes(job[t])
      <3>0. n \in Nat /\ c \in Clients
        BY <1>0, UpdateTypes
      <3>1. /\ dump_buffer' = [dump_buffer EXCEPT ![c] = Append(@, job[t])]
            /\ buffered_bytes' = [buffered_bytes EXCEPT ![c] = @ + n]
            /\ gauge' = gauge + n
            /\ UNCHANGED signalVars
        BY <2>2 DEF BufferUpdate
      <3> HIDE DEF n
      <3>2. dump_buffer' \in [Clients -> Seq(Update)]
        BY SMTT(30), <1>0, <3>1 DEF BufferOK
      <3>3. buffered_bytes' \in [Clients -> Nat] /\ gauge' \in Int
        BY SMTT(30), <1>0, <3>0, <3>1 DEF BufferOK
      <3> QED
        BY <1>0, <1>1, <3>1, <3>2, <3>3, Kept DEF BufferOK
    <2> QED
      BY <2>1, <2>2
  <1> QED
    BY <1>2, <1>3, <1>4, Kept DEF BufferUpdate, TypeInv, TypeOK

\* A client that turned Live in the meantime.
LEMMA NotDumpingTypes ==
    ASSUME TypeInv, NEW t \in Tasks, NotDumping(t) PROVE TypeInv'
  <1>0. job[t] \in Update /\ cur[t] \in Clients
    BY DEF NotDumping, TypeInv, Shape
  <1>1. UNCHANGED <<job, cur, left, batch>> /\ stage' = [stage EXCEPT ![t] = "send"]
    BY DEF NotDumping, taskVars, dumpVars
  <1>2. "send" \in TaskStages /\ t \in Actors /\ t \notin Clients
    BY ActorSets DEF TaskStages, SendStages
  <1>3. StageOK' /\ Shape'
    BY <1>0, <1>1, <1>2, Moves
  <1> QED
    BY <1>3, Kept DEF NotDumping, TypeInv, TypeOK

\* direct_update returns.
LEMMA UpdateDoneTypes ==
    ASSUME TypeInv, NEW t \in Tasks, UpdateDone(t) PROVE TypeInv'
  <1>0. stage[t] = "each" /\ job[t] \in Update /\ TaskOK
    BY DEF UpdateDone, TypeInv, TypeOK, Shape
  <1>1. PICK u, s : /\ job' = [job EXCEPT ![t] = u] /\ u \in Update \cup {None}
                    /\ stage' = [stage EXCEPT ![t] = s] /\ s \in {"idle", "rib"}
                    /\ s = "rib" => u \in Update
    <2>1. CASE job[t].kind = "raw"
      <3> DEFINE u == [job[t] EXCEPT !.kind = "route"]
      <3>1. u \in Update
        BY <1>0, <2>1, UpdateTypes DEF Update, RouteUpdate
      <3>2. job' = [job EXCEPT ![t] = u] /\ stage' = [stage EXCEPT ![t] = "rib"]
        BY <2>1 DEF UpdateDone
      <3> QED
        BY <3>1, <3>2
    <2>2. CASE job[t].kind # "raw"
      BY SMTT(30), <2>2 DEF UpdateDone
    <2> QED
      BY <2>1, <2>2
  <1>2. UNCHANGED <<todo, cur, left, batch>>
    BY DEF UpdateDone, dumpVars
  <1>3. TaskOK' /\ job'[t] = u /\ \A r \in Tasks : r # t => job'[r] = job[r]
    BY <1>0, <1>1, <1>2 DEF TaskOK
  <1>4. /\ s \in TaskStages /\ s \notin SendStages /\ s # "buffer" /\ s # "body"
        /\ s # "peer_up" /\ (s # "idle" => u \in Update)
    BY <1>1 DEF TaskStages, SendStages
  <1>5. t \in Actors /\ t \notin Clients
    BY ActorSets
  <1>6. StageOK' /\ Shape'
    BY <1>1, <1>2, <1>3, <1>4, <1>5, Moves
  <1> QED
    BY <1>3, <1>6, Kept DEF UpdateDone, TypeInv, TypeOK

-----------------------------------------------------------------------------
(* The steps of send_update_to_client, on either kind of caller. *)

\* What a sending actor works on: a client and an update.
LEMMA TargetJob ==
    ASSUME TypeInv, NEW a \in Actors, stage[a] \in SendStages
    PROVE  /\ Target(a) \in Clients /\ Job(a) \in Update
           /\ a \in Clients => batch[a] \in Seq(Update) /\ batch[a] # <<>>
  <1>1. CASE a \in Clients
    <2>1. batch[a] \in Seq(Update) /\ batch[a] # <<>>
      BY <1>1 DEF TypeInv, TypeOK, DumpOK, Shape
    <2> QED
      BY <1>1, <2>1, NonEmptySeq DEF Target, Job
  <1>2. CASE a \notin Clients
    <2>1. a \in Tasks /\ stage[a] # "idle"
      BY <1>2, ActorSets DEF SendStages
    <2> QED
      BY <1>2, <2>1 DEF TypeInv, Shape, Target, Job
  <1> QED
    BY <1>1, <1>2

ActorTypes == StageOK /\ TaskOK /\ DumpOK /\ Shape

\* Going back to the loop over clients, or over the buffered updates.
LEMMA ReturnTypes ==
    ASSUME TypeInv, NEW a \in Actors, stage[a] \in SendStages, NEW ok, Return(a, ok),
           UNCHANGED <<job, todo, left, partial>>
    PROVE  ActorTypes'
  <1>0. TaskOK /\ DumpOK
    BY DEF TypeInv, TypeOK
  <1>1. CASE a \in Clients
    <2>1. batch[a] \in Seq(Update) /\ batch[a] # <<>>
      BY <1>1, TargetJob
    <2>2. /\ Tail(batch[a]) \in Seq(Update)
          /\ Len(batch[a]) > 1 => Tail(batch[a]) # <<>>
      BY <2>1, NonEmptySeq
    <2>3. PICK q, s : /\ batch' = [batch EXCEPT ![a] = q] /\ q \in Seq(Update)
                      /\ stage' = [stage EXCEPT ![a] = s]
                      /\ s \in {"send", "go_live", "drain", "failed"}
                      /\ s = "send" => q # <<>>
                      /\ UNCHANGED cur
      <3>1. CASE ok
        BY <1>1, <2>2, <3>1 DEF Return
      <3>2. CASE ~ok
        <4>1. <<>> \in Seq(Update)
          BY EmptySeq
        <4> QED
          BY <1>1, <3>2, <4>1 DEF Return
      <3> QED
        BY <3>1, <3>2
    <2>4. DumpOK' /\ batch'[a] = q /\ \A c \in Clients : c # a => batch'[c] = batch[c]
      BY <1>0, <1>1, <2>3 DEF DumpOK
    <2>5. TaskOK'
      BY <1>0, <2>3 DEF TaskOK
    <2>6. /\ s \in DumpStages /\ (s \in SendStages => s = "send")
          /\ s # "peer_ups" /\ s # "walk" /\ s # "body" /\ s # "peer_up"
      BY <2>3 DEF DumpStages, SendStages
    <2>7. a \notin Tasks
      BY <1>1, ActorSets
    <2>8. StageOK' /\ Shape'
      <3>1. /\ \A t \in Tasks : job'[t] = job[t] /\ cur'[t] = cur[t]
            /\ \A c \in Clients : c # a => batch'[c] = batch[c] /\ left'[c] = left[c]
        BY <2>3, <2>4
      <3>2. s \in SendStages => batch'[a] # <<>>
        BY <2>3, <2>4, <2>6
      <3> QED
        BY <1>1, <2>3, <2>6, <2>7, <3>1, <3>2, Moves
    <2> QED
      BY <2>4, <2>5, <2>8 DEF ActorTypes
  <1>2. CASE a \notin Clients
    <2>1. a \in Tasks /\ stage[a] # "idle"
      BY <1>2, ActorSets DEF SendStages
    <2>2. /\ cur' = [cur EXCEPT ![a] = None] /\ UNCHANGED batch
          /\ stage' = [stage EXCEPT ![a] = "each"]
      BY <1>2 DEF Return
    <2>3. TaskOK' /\ \A r \in Tasks : r # a => cur'[r] = cur[r]
      BY <1>0, <2>1, <2>2 DEF TaskOK
    <2>4. StageOK' /\ Shape'
      BY <2>1, <2>2, <2>3, TaskMoves
    <2>5. DumpOK'
      BY <1>0, <2>2 DEF DumpOK
    <2> QED
      BY <2>3, <2>4, <2>5 DEF ActorTypes
  <1> QED
    BY <1>1, <1>2

\* Going on with the same update.
LEMMA ContinueTypes ==
    ASSUME TypeInv, NEW a \in Actors, stage[a] \in SendStages, NEW s \in SendStages,
           Continue(a, s), UNCHANGED <<job, todo, left, partial>>,
           s = "body" => Job(a).kind \in {"raw", "route", "stats"},
           s = "peer_up" => Job(a).kind # "withdraw"
    PROVE  ActorTypes'
  <1>1. stage' = [stage EXCEPT ![a] = s] /\ UNCHANGED <<batch, cur>>
    BY DEF Continue
  <1>2. TaskOK' /\ DumpOK'
    BY <1>1 DEF TypeInv, TypeOK, TaskOK, DumpOK
  <1>3. Job(a)' = Job(a)
    BY <1>1 DEF Job
  <1>4. /\ a \in Tasks => job[a] \in Update /\ cur[a] \in Clients
        /\ a \in Clients => batch[a] # <<>>
    BY TargetJob, ActorSets DEF Target, Job
  <1>5. s \in TaskStages /\ s \in DumpStages /\ s # "peer_ups" /\ s # "walk"
    BY DEF TaskStages, DumpStages, SendStages
  <1>6. StageOK' /\ Shape'
    BY <1>1, <1>3, <1>4, <1>5, Moves
  <1> QED
    BY <1>2, <1>6 DEF ActorTypes

\* What a step of send_update_to_client has to establish.
LEMMA SendFrameTypes ==
    ASSUME TypeInv, SendFrame, ActorTypes', PeerOK', SignalOK', StreamOK' PROVE TypeInv'
  BY Kept DEF SendFrame, ActorTypes, TypeInv, TypeOK

\* send_update_to_client and its callees.
LEMMA SendTypes ==
    ASSUME TypeInv, NEW a \in Actors, SendStep(a) PROVE TypeInv'
  <1> DEFINE c == Target(a)
             u == Job(a)
             p == u.peer
  <1>0. stage[a] \in SendStages /\ SendFrame /\ UNCHANGED <<job, todo, left, partial>>
    <2>1. stage[a] \in SendStages
      BY DEF SendStep, SendCached, SendExpired, SendFirst, SendPeerUp, SendBody,
             SendPeerDown, ForgetPeer, SendStages
    <2>2. SendFrame
      BY DEF SendStep, SendCached, SendExpired, SendFirst, SendPeerUp, SendBody,
             SendPeerDown, ForgetPeer
    <2> QED
      BY <2>1, <2>2 DEF SendFrame
  <1>1. /\ c \in Clients /\ u \in Update /\ view[c] \in Views
        /\ PeerOK /\ SignalOK /\ StreamOK
    BY <1>0, TargetJob DEF TypeInv, TypeOK, StreamOK
  <1>2. /\ p \in Peers
        /\ u.kind \in {"raw", "route", "withdraw", "reappeared", "stats"}
        /\ u.kind \in {"raw", "route"} => u.prefix \in Prefixes /\ u.route \in Routes
    BY <1>1, UpdateTypes
  <1>3. ASSUME NEW ok, Return(a, ok) PROVE ActorTypes'
    BY <1>0, <1>3, ReturnTypes
  <1>4. ASSUME NEW s \in SendStages, Continue(a, s),
               s = "body" => u.kind \in {"raw", "route", "stats"},
               s = "peer_up" => u.kind # "withdraw"
        PROVE  ActorTypes'
    BY <1>0, <1>4, ContinueTypes
  <1>5. ASSUME NEW v \in Views, Sent(c, v) PROVE StreamOK' /\ SignalOK'
    BY <1>1, <1>5, SentTypes
  <1>6. NotSent(a, c) => StreamOK' /\ SignalOK'
    BY <1>1, NotSentTypes
  <1>7. request_disconnect(c) => SignalOK'
    BY <1>1, SignalTypes
  <1>8. remove_known_peer(c, p) => PeerOK'
    BY <1>1, RemoveTypes
  <1>9. /\ {"body", "peer_up", "forget", "forget_failed"} \subseteq SendStages
    BY DEF SendStages
  <1> HIDE DEF c, u, p
  <1>10. /\ UNCHANGED peerVars => PeerOK'
         /\ UNCHANGED signalVars => SignalOK'
         /\ UNCHANGED streamVars => StreamOK'
    BY <1>1, Kept
  <1>11. CASE SendCached(a)
    <2>1. ActorTypes' /\ PeerOK' /\ SignalOK' /\ StreamOK'
      <3>1. SeesRoute(view[c], p, u.prefix, u.route) \in Views
        BY <1>1, <1>2, <1>11, ViewTypes DEF SendCached, c, u, p
      <3>2. /\ \/ Sent(c, SeesRoute(view[c], p, u.prefix, u.route)) /\ Return(a, TRUE)
               \/ NotSent(a, c) /\ Return(a, FALSE)
            /\ UNCHANGED peerVars
        BY <1>11 DEF SendCached, c, u, p
      <3> QED
        BY <3>1, <3>2, <1>3, <1>5, <1>6, <1>10
    <2> QED
      BY <1>0, <2>1, SendFrameTypes
  <1>12. CASE SendExpired(a)
    <2>1. /\ \/ request_disconnect(c) /\ Return(a, FALSE)
             \/ Return(a, TRUE) /\ UNCHANGED signalVars
          /\ UNCHANGED <<peerVars, streamVars>>
      BY <1>12 DEF SendExpired, c, u
    <2>2. ActorTypes' /\ PeerOK' /\ SignalOK' /\ StreamOK'
      BY <2>1, <1>3, <1>7, <1>10
    <2> QED
      BY <1>0, <2>2, SendFrameTypes
  <1>13. CASE SendFirst(a)
    <2>1. /\ register_known_peer_if_absent(c, p)
          /\ UNCHANGED <<peer_info_cache, signalVars, streamVars>>
          /\ u.kind \in {"raw", "route", "stats", "reappeared"}
      BY <1>13 DEF SendFirst, c, u, p
    <2>2. \/ Continue(a, "peer_up")
          \/ Return(a, TRUE)
          \/ Continue(a, "body") /\ u.kind # "reappeared"
      BY <1>13 DEF SendFirst, c, u, p
    <2>3. PeerOK'
      BY <1>1, <1>2, <2>1 DEF register_known_peer_if_absent, PeerOK
    <2>4. ActorTypes'
      BY <2>1, <2>2, <1>3, <1>4, <1>9
    <2> QED
      BY <1>0, <1>10, <2>1, <2>3, <2>4, SendFrameTypes
  <1>14. CASE SendPeerUp(a)
    <2>0. u.kind # "withdraw"
      BY <1>14 DEF SendPeerUp, TypeInv, Shape, u
    <2>1. \/ /\ Return(a, TRUE) \/ (Continue(a, "body") /\ u.kind # "reappeared")
             /\ UNCHANGED peerVars
             /\ \/ UNCHANGED <<streamVars, signalVars>>
                \/ Sent(c, SeesPeerUp(view[c], p))
          \/ NotSent(a, c) /\ remove_known_peer(c, p) /\ Return(a, FALSE)
      BY <1>14 DEF SendPeerUp, c, u, p
    <2>2. SeesPeerUp(view[c], p) \in Views
      BY <1>1, <1>2, ViewTypes
    <2>3. PeerOK' /\ SignalOK' /\ StreamOK'
      BY <2>1, <2>2, <1>5, <1>6, <1>8, <1>10
    <2>4. ActorTypes'
      BY <1>2, <2>0, <2>1, <1>3, <1>4, <1>9
    <2> QED
      BY <1>0, <2>3, <2>4, SendFrameTypes
  <1>15. CASE SendBody(a)
    <2> DEFINE v == IF u.kind = "stats" THEN SeesStats(view[c], p)
                    ELSE SeesRoute(view[c], p, u.prefix, u.route)
    <2>0. u.kind \in {"raw", "route", "stats"}
      BY <1>15 DEF SendBody, TypeInv, Shape, u
    <2>1. v \in Views
      BY <1>1, <1>2, <2>0, ViewTypes
    <2>2. \/ /\ Return(a, FALSE) \/ Return(a, TRUE)
             /\ request_disconnect(c) \/ UNCHANGED signalVars
             /\ UNCHANGED <<peerVars, streamVars>>
          \/ /\ peer_info_cache' = [peer_info_cache EXCEPT ![c] =
                                      IF u.kind = "stats" THEN @ ELSE @ \cup {p}]
             /\ UNCHANGED known_peers
             /\ \/ Sent(c, v) /\ Return(a, TRUE)
                \/ NotSent(a, c) /\ Return(a, FALSE)
      BY <1>15 DEF SendBody, c, u, p
    <2> HIDE DEF v
    <2>3. PeerOK'
      <3>1. CASE UNCHANGED peerVars
        BY <3>1, <1>10
      <3>2. CASE /\ peer_info_cache' = [peer_info_cache EXCEPT ![c] =
                                      IF u.kind = "stats" THEN @ ELSE @ \cup {p}]
                 /\ UNCHANGED known_peers
        BY <3>2, <1>1, <1>2 DEF PeerOK
      <3> QED
        BY <2>2, <3>1, <3>2
    <2>4. ActorTypes' /\ SignalOK' /\ StreamOK'
      BY <2>1, <2>2, <1>3, <1>5, <1>6, <1>7, <1>10
    <2> QED
      BY <1>0, <2>3, <2>4, SendFrameTypes
  <1>16. CASE SendPeerDown(a)
    <2> DEFINE v == IF register[p] = "reclaimed" THEN view[c] ELSE SeesPeerDown(view[c], p)
    <2>1. v \in Views
      BY <1>1, <1>2, ViewTypes
    <2>2. /\ \/ Return(a, TRUE) /\ UNCHANGED <<streamVars, signalVars>>
             \/ Sent(c, v) /\ Continue(a, "forget")
             \/ NotSent(a, c) /\ Continue(a, "forget_failed")
          /\ UNCHANGED peerVars
      BY <1>16 DEF SendPeerDown, c, u, p
    <2> HIDE DEF v
    <2>3. PeerOK' /\ SignalOK' /\ StreamOK'
      BY <2>1, <2>2, <1>5, <1>6, <1>10
    <2>4. ActorTypes'
      BY <2>2, <1>3, <1>4, <1>9
    <2> QED
      BY <1>0, <2>3, <2>4, SendFrameTypes
  <1>17. CASE ForgetPeer(a)
    <2>1. PICK ok : /\ remove_known_peer(c, p) /\ Return(a, ok)
                    /\ UNCHANGED <<signalVars, streamVars>>
      BY <1>17 DEF ForgetPeer, c, u, p
    <2>2. ActorTypes' /\ PeerOK' /\ SignalOK' /\ StreamOK'
      BY <2>1, <1>3, <1>8, <1>10
    <2> QED
      BY <1>0, <2>2, SendFrameTypes
  <1> QED
    BY <1>11, <1>12, <1>13, <1>14, <1>15, <1>16, <1>17 DEF SendStep

-----------------------------------------------------------------------------
(* The steps of the dump task. *)

\* A dump task that moves on, outside send_update_to_client.
LEMMA DumpMoves ==
    ASSUME TypeInv, NEW c \in Clients, NEW s \in DumpStages \ {"peer_up", "body"},
           stage' = [stage EXCEPT ![c] = s], UNCHANGED <<job, cur>>,
           \A d \in Clients : d # c => batch'[d] = batch[d] /\ left'[d] = left[d],
           s \in SendStages => batch'[c] # <<>>,
           s = "peer_ups" => left'[c] \subseteq Peers,
           s = "walk" => left'[c] \subseteq Prefixes
    PROVE  StageOK' /\ Shape'
  <1>1. c \in Actors /\ c \notin Tasks
    BY ActorSets
  <1> QED
    BY <1>1, Moves

\* What a step of the dump has to establish.
LEMMA DumpFrameTypes ==
    ASSUME TypeInv, DumpFrame, StageOK', Shape', DumpOK', BufferOK', PeerOK', SignalOK',
           StreamOK'
    PROVE  TypeInv'
  BY Kept DEF DumpFrame, TypeInv, TypeOK

\* The dump tasks leave the updates of the other tasks alone.
LEMMA DumpFrameKeeps == DumpFrame => UNCHANGED <<job, cur>>
  BY DEF DumpFrame, taskVars

\* A message of the dump that does not change what the collector believes.
LEMMA DumpSendsTypes ==
    ASSUME StreamOK, SignalOK, NEW c \in Clients, NEW s, DumpSends(c, view[c], s)
    PROVE  /\ StreamOK' /\ SignalOK'
           /\ \E r \in {s, "failed"} : stage' = [stage EXCEPT ![c] = r]
  <1>1. view[c] \in Views
    BY DEF StreamOK
  <1> QED
    BY <1>1, SentTypes, NotSentTypes DEF DumpSends

\* The dump up to the walk: Initiation, the register, Peer Ups, the keys.
LEMMA DumpOpeningTypes ==
    ASSUME TypeInv, NEW c \in Clients,
           DumpInitiation(c) \/ DumpEnumerate(c) \/ DumpPeerUp(c) \/ DumpKeys(c)
    PROVE  TypeInv'
  <1>0. /\ DumpOK /\ BufferOK /\ PeerOK /\ SignalOK /\ StreamOK
        /\ view[c] \in Views /\ left[c] \subseteq Peers \cup Prefixes
    BY DEF TypeInv, TypeOK, StreamOK, DumpOK
  <1>1. CASE DumpInitiation(c)
    <2>1. /\ UNCHANGED <<bufferVars, peerVars, dumpVars>> /\ DumpFrame
          /\ DumpSends(c, view[c], "enumerate")
      BY <1>1 DEF DumpInitiation
    <2>2. PICK s \in {"enumerate", "failed"} : stage' = [stage EXCEPT ![c] = s]
      BY <1>0, <2>1, DumpSendsTypes
    <2>3. StreamOK' /\ SignalOK' /\ DumpOK' /\ BufferOK' /\ PeerOK'
      BY <1>0, <2>1, DumpSendsTypes, Kept
    <2>4. UNCHANGED <<left, batch>>
      BY <2>1 DEF dumpVars
    <2>5. StageOK' /\ Shape'
      BY <2>1, <2>2, <2>4, DumpFrameKeeps, DumpMoves DEF DumpStages, SendStages
    <2> QED
      BY <2>1, <2>3, <2>5, DumpFrameTypes
  <1>2. CASE DumpEnumerate(c) \/ DumpKeys(c)
    <2>1. PICK l, s : /\ left' = [left EXCEPT ![c] = l] /\ l \subseteq Peers \cup Prefixes
                      /\ s = "peer_ups" => l \subseteq Peers
                      /\ s = "walk" => l \subseteq Prefixes
                      /\ s \in {"peer_ups", "walk"}
                      /\ stage' = [stage EXCEPT ![c] = s]
      <3>1. CASE DumpEnumerate(c)
        BY <3>1 DEF DumpEnumerate
      <3>2. CASE DumpKeys(c)
        <4>1. PICK keys \in SUBSET Prefixes : left' = [left EXCEPT ![c] = keys]
          BY <3>2 DEF DumpKeys
        <4> QED
          BY <3>2, <4>1 DEF DumpKeys
      <3> QED
        BY <1>2, <3>1, <3>2
    <2>2. /\ UNCHANGED <<bufferVars, peerVars, signalVars, streamVars, batch, partial>>
          /\ DumpFrame
      BY <1>2 DEF DumpEnumerate, DumpKeys
    <2>3. DumpOK' /\ left'[c] = l /\ \A d \in Clients : d # c => left'[d] = left[d]
      BY <1>0, <2>1, <2>2 DEF DumpOK
    <2>4. StageOK' /\ Shape'
      <3>1. s \in DumpStages \ {"peer_up", "body"} /\ s \notin SendStages
        BY <2>1 DEF DumpStages, SendStages
      <3> QED
        BY <2>1, <2>2, <2>3, <3>1, DumpFrameKeeps, DumpMoves
    <2>5. StreamOK' /\ SignalOK' /\ BufferOK' /\ PeerOK'
      BY <1>0, <2>2, Kept
    <2> QED
      BY <2>2, <2>3, <2>4, <2>5, DumpFrameTypes
  <1>3. CASE DumpPeerUp(c)
    <2>0. /\ UNCHANGED <<bufferVars, peer_info_cache, batch, partial>> /\ DumpFrame
          /\ stage[c] = "peer_ups" /\ left[c] \subseteq Peers
      BY <1>3 DEF DumpPeerUp, TypeInv, Shape
    <2>1. PICK p \in left[c] :
            \/ /\ Sent(c, SeesPeerUp(view[c], p))
               /\ known_peers' = [known_peers EXCEPT ![c] = @ \cup {p}]
               /\ left' = [left EXCEPT ![c] = @ \ {p}]
               /\ UNCHANGED stage
            \/ /\ NotSent(c, c)
               /\ stage' = [stage EXCEPT ![c] = "failed"]
               /\ UNCHANGED <<known_peers, left>>
      BY <1>3 DEF DumpPeerUp
    <2>2. p \in Peers /\ SeesPeerUp(view[c], p) \in Views
      BY <1>0, <2>0, ViewTypes
    <2>3. BufferOK'
      BY <1>0, <2>0, Kept
    <2>4. CASE /\ Sent(c, SeesPeerUp(view[c], p))
               /\ known_peers' = [known_peers EXCEPT ![c] = @ \cup {p}]
               /\ left' = [left EXCEPT ![c] = @ \ {p}]
               /\ UNCHANGED stage
      <3>1. StreamOK' /\ SignalOK'
        BY <1>0, <2>2, <2>4, SentTypes
      <3>2. PeerOK'
        BY <1>0, <2>0, <2>2, <2>4 DEF PeerOK
      <3>3. /\ DumpOK' /\ left'[c] \subseteq Peers
            /\ \A d \in Clients : d # c => left'[d] = left[d]
        BY <1>0, <2>0, <2>4 DEF DumpOK
      <3>4. stage' = [stage EXCEPT ![c] = "peer_ups"]
        BY <2>0, <2>4 DEF TypeInv, TypeOK, StageOK
      <3>5. StageOK' /\ Shape'
        BY <2>0, <3>3, <3>4, DumpFrameKeeps, DumpMoves DEF DumpStages, SendStages
      <3> QED
        BY <2>0, <2>3, <3>1, <3>2, <3>3, <3>5, DumpFrameTypes
    <2>5. CASE /\ NotSent(c, c)
               /\ stage' = [stage EXCEPT ![c] = "failed"]
               /\ UNCHANGED <<known_peers, left>>
      <3>1. StreamOK' /\ SignalOK'
        BY <1>0, <2>5, NotSentTypes
      <3>2. PeerOK' /\ DumpOK'
        BY <1>0, <2>0, <2>5 DEF PeerOK, DumpOK
      <3>3. StageOK' /\ Shape'
        BY <2>0, <2>5, DumpFrameKeeps, DumpMoves DEF DumpStages, SendStages
      <3> QED
        BY <2>0, <2>3, <3>1, <3>2, <3>3, DumpFrameTypes
    <2> QED
      BY <2>1, <2>4, <2>5
  <1> QED
    BY <1>1, <1>2, <1>3

\* The walk, its deadline and a disconnect during it.
LEMMA DumpWalkTypes ==
    ASSUME TypeInv, NEW c \in Clients, DumpWalk(c) \/ DumpTruncate(c) \/ DumpAbort(c)
    PROVE  TypeInv'
  <1>0. /\ DumpOK /\ BufferOK /\ PeerOK /\ SignalOK /\ StreamOK /\ UpstreamOK
        /\ view[c] \in Views
    BY DEF TypeInv, TypeOK, StreamOK
  <1>1. /\ stage[c] = "walk" /\ DumpFrame /\ UNCHANGED <<peerVars, batch>>
        /\ left[c] \subseteq Prefixes
    BY DEF DumpWalk, DumpTruncate, DumpAbort, TypeInv, Shape
  <1>2. stage = [stage EXCEPT ![c] = "walk"]
    BY <1>1 DEF TypeInv, TypeOK, StageOK
  <1>3. PeerOK'
    BY <1>0, <1>1, Kept
  <1>4. ASSUME NEW l \in SUBSET left[c], NEW s \in {"walk", "done"},
               left' = [left EXCEPT ![c] = l], stage' = [stage EXCEPT ![c] = s],
               partial' \in [Clients -> BOOLEAN]
        PROVE  DumpOK' /\ StageOK' /\ Shape'
    <2>1. DumpOK' /\ left'[c] = l /\ \A d \in Clients : d # c => left'[d] = left[d]
      BY <1>0, <1>1, <1>4 DEF DumpOK
    <2>2. s \in DumpStages \ {"peer_up", "body"} /\ s \notin SendStages /\ s # "peer_ups"
      BY DEF DumpStages, SendStages
    <2>3. StageOK' /\ Shape'
      BY <1>1, <1>4, <2>1, <2>2, DumpFrameKeeps, DumpMoves
    <2> QED
      BY <2>1, <2>3
  <1>5. CASE DumpWalk(c)
    <2>1. PICK x \in left[c] : /\ Sent(c, Walked(view[c], x))
                               /\ left' = [left EXCEPT ![c] = @ \ {x}]
      BY <1>5 DEF DumpWalk
    <2>2. Walked(view[c], x) \in Views
      BY <1>0, <1>1, WalkedTypes
    <2>3. StreamOK' /\ SignalOK'
      BY <1>0, <2>1, <2>2, SentTypes
    <2>4. UNCHANGED <<stage, bufferVars, partial>> /\ left' = [left EXCEPT ![c] = left[c] \ {x}]
      BY <1>5, <2>1 DEF DumpWalk
    <2>5. DumpOK' /\ StageOK' /\ Shape'
      BY <1>0, <1>2, <1>4, <2>4 DEF DumpOK
    <2> QED
      BY <1>0, <1>1, <1>3, <2>3, <2>4, <2>5, Kept, DumpFrameTypes
  <1>6. CASE DumpTruncate(c)
    <2>1. /\ UNCHANGED <<stage, bufferVars, signalVars, streamVars>>
          /\ left' = [left EXCEPT ![c] = {}] /\ partial' = [partial EXCEPT ![c] = TRUE]
      BY <1>6 DEF DumpTruncate
    <2>2. partial' \in [Clients -> BOOLEAN]
      BY <1>0, <2>1 DEF DumpOK
    <2>3. DumpOK' /\ StageOK' /\ Shape'
      BY <1>2, <1>4, <2>1, <2>2
    <2> QED
      BY <1>0, <1>1, <1>3, <2>1, <2>3, Kept, DumpFrameTypes
  <1>7. CASE DumpAbort(c)
    <2>1. /\ UNCHANGED <<phase, streamVars, partial>> /\ request_disconnect(c)
          /\ dump_buffer' = [dump_buffer EXCEPT ![c] = <<>>]
          /\ buffered_bytes' = [buffered_bytes EXCEPT ![c] = 0]
          /\ gauge' = gauge - buffered_bytes[c]
          /\ left' = [left EXCEPT ![c] = {}] /\ stage' = [stage EXCEPT ![c] = "done"]
      BY <1>7 DEF DumpAbort
    <2>2. phase' \in [Clients -> {"Dumping", "Locked", "Live"}]
          /\ partial' \in [Clients -> BOOLEAN]
      BY <1>0, <2>1 DEF BufferOK, DumpOK
    <2>3. BufferOK'
      BY <1>0, <2>1, <2>2, ClearedTypes
    <2>4. DumpOK' /\ StageOK' /\ Shape'
      BY <1>4, <2>1, <2>2
    <2>5. SignalOK' /\ StreamOK'
      BY <1>0, <2>1, SignalTypes, Kept
    <2> QED
      BY <1>1, <1>3, <2>3, <2>4, <2>5, DumpFrameTypes
  <1> QED
    BY <1>5, <1>6, <1>7

\* Taking the buffered updates, in the drain loop or without a RIB.
LEMMA TakenTypes ==
    ASSUME TypeInv, NEW c \in Clients, DumpFrame,
           batch' = [batch EXCEPT ![c] = dump_buffer[c]],
           dump_buffer' = [dump_buffer EXCEPT ![c] = <<>>],
           buffered_bytes' = [buffered_bytes EXCEPT ![c] = 0],
           gauge' = gauge - buffered_bytes[c],
           phase' \in [Clients -> {"Dumping", "Locked", "Live"}],
           UNCHANGED <<peerVars, signalVars, streamVars, left, partial>>,
           NEW s \in {"send", "done", "go_live"}, stage' = [stage EXCEPT ![c] = s],
           s = "send" => dump_buffer[c] # <<>>
    PROVE  TypeInv'
  <1>0. DumpOK /\ BufferOK /\ PeerOK /\ SignalOK /\ StreamOK
    BY DEF TypeInv, TypeOK
  <1>1. BufferOK'
    BY <1>0, ClearedTypes
  <1>2. /\ DumpOK' /\ batch'[c] = dump_buffer[c]
        /\ \A d \in Clients : d # c => batch'[d] = batch[d]
    BY <1>0 DEF DumpOK, BufferOK
  <1>3. /\ s \in DumpStages \ {"peer_up", "body"} /\ s # "peer_ups" /\ s # "walk"
        /\ (s \in SendStages => s = "send")
    BY DEF DumpStages, SendStages
  <1>4. s \in SendStages => batch'[c] # <<>>
    BY <1>2, <1>3
  <1>5. StageOK' /\ Shape'
    BY <1>2, <1>3, <1>4, DumpFrameKeeps, DumpMoves
  <1> QED
    BY <1>0, <1>1, <1>2, <1>5, Kept, DumpFrameTypes

\* A step of the dump that only moves on, or only raises the signal.
LEMMA DumpPlainTypes ==
    ASSUME TypeInv, NEW c \in Clients, DumpFrame, DumpOK', BufferOK', PeerOK', SignalOK',
           StreamOK', NEW s \in {"drain", "failed", "done", "take"},
           stage' = [stage EXCEPT ![c] = s],
           \A d \in Clients : d # c => batch'[d] = batch[d] /\ left'[d] = left[d]
    PROVE  TypeInv'
  <1>1. /\ s \in DumpStages \ {"peer_up", "body"} /\ s \notin SendStages
        /\ s # "peer_ups" /\ s # "walk"
    BY DEF DumpStages, SendStages
  <1>2. StageOK' /\ Shape'
    BY <1>1, DumpFrameKeeps, DumpMoves
  <1> QED
    BY <1>2, DumpFrameTypes

\* The end of the dump: End-of-RIB, the drain, or failure.
LEMMA DumpClosingTypes ==
    ASSUME TypeInv, NEW c \in Clients, DumpEndOfRib(c) \/ DumpDrain(c) \/ DumpFailed(c)
    PROVE  TypeInv'
  <1>0. /\ DumpOK /\ BufferOK /\ PeerOK /\ SignalOK /\ StreamOK
        /\ view[c].up \subseteq Peers
    BY DEF TypeInv, TypeOK, StreamOK, Views
  <1>1. CASE DumpEndOfRib(c)
    <2>1. /\ known_peers' = [known_peers EXCEPT ![c] = view[c].up] /\ DumpFrame
          /\ UNCHANGED <<bufferVars, peer_info_cache, dumpVars>>
          /\ DumpSends(c, view[c], "drain")
      BY <1>1 DEF DumpEndOfRib
    <2>2. PICK s \in {"drain", "failed"} : stage' = [stage EXCEPT ![c] = s]
      BY <1>0, <2>1, DumpSendsTypes
    <2>3. PeerOK'
      BY <1>0, <2>1 DEF PeerOK
    <2>4. DumpOK' /\ BufferOK' /\ SignalOK' /\ StreamOK'
      BY <1>0, <2>1, DumpSendsTypes, Kept
    <2>5. UNCHANGED <<batch, left>>
      BY <2>1 DEF dumpVars
    <2> QED
      BY <2>1, <2>2, <2>3, <2>4, <2>5, DumpPlainTypes
  <1>2. CASE DumpDrain(c)
    <2>1. PICK s \in {"done", "send"} : /\ stage' = [stage EXCEPT ![c] = s]
                                        /\ s = "send" => dump_buffer[c] # <<>>
      BY <1>2 DEF DumpDrain
    <2>2. phase' \in [Clients -> {"Dumping", "Locked", "Live"}]
      BY <1>0, <1>2 DEF DumpDrain, BufferOK
    <2>3. /\ batch' = [batch EXCEPT ![c] = dump_buffer[c]]
          /\ dump_buffer' = [dump_buffer EXCEPT ![c] = <<>>]
          /\ buffered_bytes' = [buffered_bytes EXCEPT ![c] = 0]
          /\ gauge' = gauge - buffered_bytes[c] /\ DumpFrame
          /\ UNCHANGED <<peerVars, signalVars, streamVars, left, partial>>
      BY <1>2 DEF DumpDrain
    <2> QED
      BY <2>1, <2>2, <2>3, TakenTypes
  <1>3. CASE DumpFailed(c)
    <2>1. /\ left' = [left EXCEPT ![c] = {}] /\ stage' = [stage EXCEPT ![c] = "done"]
          /\ UNCHANGED <<bufferVars, peerVars, streamVars, batch, partial>> /\ DumpFrame
          /\ request_disconnect(c)
      BY <1>3 DEF DumpFailed
    <2>2. DumpOK' /\ \A d \in Clients : d # c => left'[d] = left[d]
      BY <1>0, <2>1 DEF DumpOK
    <2>3. BufferOK' /\ PeerOK' /\ SignalOK' /\ StreamOK'
      BY <1>0, <2>1, SignalTypes, Kept
    <2> QED
      BY <2>1, <2>2, <2>3, DumpPlainTypes
  <1> QED
    BY <1>1, <1>2, <1>3

\* The path taken when no RIB unit runs yet.
LEMMA NoRibTypes ==
    ASSUME TypeInv, NEW c \in Clients, NoRibInitiation(c) \/ NoRibTake(c) \/ NoRibLive(c)
    PROVE  TypeInv'
  <1>0. DumpOK /\ BufferOK /\ PeerOK /\ SignalOK /\ StreamOK /\ view[c] \in Views
    BY DEF TypeInv, TypeOK, StreamOK
  <1>1. CASE NoRibInitiation(c)
    <2>1. /\ stage' = [stage EXCEPT ![c] = "take"] /\ DumpFrame
          /\ partial' = [partial EXCEPT ![c] = TRUE]
          /\ UNCHANGED <<bufferVars, peerVars, left, batch>>
          /\ Sent(c, view[c]) \/ NotSent(c, c)
      BY <1>1 DEF NoRibInitiation
    <2>2. DumpOK'
      BY <1>0, <2>1 DEF DumpOK
    <2>3. BufferOK' /\ PeerOK' /\ SignalOK' /\ StreamOK'
      BY <1>0, <2>1, SentTypes, NotSentTypes, Kept
    <2> QED
      BY <2>1, <2>2, <2>3, DumpPlainTypes
  <1>2. CASE NoRibTake(c)
    <2>1. PICK s \in {"go_live", "send"} : /\ stage' = [stage EXCEPT ![c] = s]
                                           /\ s = "send" => dump_buffer[c] # <<>>
      BY <1>2 DEF NoRibTake
    <2>2. phase' \in [Clients -> {"Dumping", "Locked", "Live"}]
      BY <1>0, <1>2 DEF NoRibTake, BufferOK
    <2>3. /\ batch' = [batch EXCEPT ![c] = dump_buffer[c]]
          /\ dump_buffer' = [dump_buffer EXCEPT ![c] = <<>>]
          /\ buffered_bytes' = [buffered_bytes EXCEPT ![c] = 0]
          /\ gauge' = gauge - buffered_bytes[c] /\ DumpFrame
          /\ UNCHANGED <<peerVars, signalVars, streamVars, left, partial>>
      BY <1>2 DEF NoRibTake
    <2> QED
      BY <2>1, <2>2, <2>3, TakenTypes
  <1>3. CASE NoRibLive(c)
    <2>1. /\ phase' = [phase EXCEPT ![c] = "Live"] /\ DumpFrame
          /\ stage' = [stage EXCEPT ![c] = "done"]
          /\ UNCHANGED <<dump_buffer, buffered_bytes, gauge>>
          /\ UNCHANGED <<peerVars, signalVars, streamVars, dumpVars>>
      BY <1>3 DEF NoRibLive
    <2>2. BufferOK'
      BY <1>0, <2>1 DEF BufferOK
    <2>3. DumpOK' /\ PeerOK' /\ SignalOK' /\ StreamOK'
      BY <1>0, <2>1, Kept
    <2>4. UNCHANGED <<left, batch>>
      BY <2>1 DEF dumpVars
    <2> QED
      BY <2>1, <2>2, <2>3, <2>4, DumpPlainTypes
  <1> QED
    BY <1>1, <1>2, <1>3

-----------------------------------------------------------------------------
(* The steps of the writer tasks and of the main task. *)

\* The writer and the release of a client.
LEMMA WriterTypes ==
    ASSUME TypeInv, NEW c \in Clients, WriterStep(c) \/ DropClient(c) PROVE TypeInv'
  <1>0. BufferOK /\ SignalOK /\ StreamOK /\ SharedOK
    BY DEF TypeInv, TypeOK
  <1>1. UNCHANGED <<upstream, raw_covered, stage, taskVars, phase, peerVars,
                    disconnect_pending, view, dumpVars, mainVars>>
    BY DEF WriterStep, WriterWrites, WriterStops, WriterCleanup, DropClient, WriterFrame
  <1>2. UNCHANGED <<stage, job, cur, batch, left>>
    BY <1>1 DEF taskVars, dumpVars
  <1>3. \/ UNCHANGED queued
        \/ queued[c] > 0 /\ queued' = [queued EXCEPT ![c] = @ - 1]
    BY DEF WriterStep, WriterWrites, WriterStops, WriterCleanup, DropClient
  <1>4. StreamOK'
    BY SMTT(30), <1>0, <1>1, <1>3, BmpOutAssumption DEF StreamOK, BmpOutAssumption
  <1>5. SharedOK'
    BY <1>0, <1>1
    DEF SharedOK, WriterStep, WriterWrites, WriterStops, WriterCleanup, DropClient
  <1>6. SignalOK'
    BY <1>0, <1>1
    DEF SignalOK, WriterStep, WriterWrites, WriterStops, WriterCleanup, DropClient
  <1>7. BufferOK'
    <2>1. CASE WriterStep(c)
      <3>1. UNCHANGED bufferVars
        BY <1>1, <2>1 DEF WriterStep, WriterWrites, WriterStops, WriterCleanup, bufferVars
      <3> QED
        BY <1>0, <3>1, Kept
    <2>2. CASE DropClient(c)
      <3>1. phase' \in [Clients -> {"Dumping", "Locked", "Live"}]
        BY <1>0, <1>1 DEF BufferOK
      <3> QED
        BY <1>0, <2>2, <3>1, ClearedTypes DEF DropClient
    <2> QED
      BY <2>1, <2>2
  <1>8. Shape'
    BY <1>2, Kept DEF TypeInv
  <1> QED
    BY <1>1, <1>4, <1>5, <1>6, <1>7, <1>8, Kept DEF TypeInv, TypeOK

\* The unit's main loop.
LEMMA MainTypes ==
    ASSUME TypeInv, Terminate \/ MainStep \/ \E c \in Clients : AcceptClient(c)
    PROVE  TypeInv'
  <1>0. /\ SignalOK /\ StreamOK /\ SharedOK /\ MainOK
        /\ \A c \in Clients : view[c] \in Views
    BY DEF TypeInv, TypeOK, StreamOK
  <1>1. /\ MainFrame => UNCHANGED <<job, cur, batch, left, raw_covered>>
    BY DEF MainFrame, taskVars, dumpVars
  <1>2. ASSUME MainFrame, StageOK', Shape', SignalOK', StreamOK', SharedOK', MainOK'
        PROVE  TypeInv'
    BY <1>2, Kept DEF MainFrame, TypeInv, TypeOK
  <1>3. UNCHANGED stage /\ MainFrame => StageOK' /\ Shape'
    BY <1>1, Kept DEF TypeInv, TypeOK
  <1>4. UNCHANGED <<clients, writer>> /\ MainFrame => SharedOK'
    BY <1>0, <1>1, Kept
  <1>5. ASSUME NEW c \in Clients, AcceptClient(c) PROVE TypeInv'
    <2>1. /\ stage' = [stage EXCEPT ![c] = "initiation"] /\ MainFrame
          /\ UNCHANGED <<mainVars, signalVars, streamVars>>
      BY <1>5 DEF AcceptClient
    <2>2. StageOK' /\ Shape'
      BY <1>1, <2>1, DumpMoves DEF DumpStages, SendStages
    <2>3. SharedOK'
      BY <1>0, <1>1, <1>5 DEF AcceptClient, SharedOK
    <2> QED
      BY <1>0, <1>2, <2>1, <2>2, <2>3, Kept
  <1>6. CASE Terminate \/ Terminated
    <2>1. /\ MainFrame /\ UNCHANGED <<stage, clients, writer>>
          /\ UNCHANGED <<signalVars, streamVars>>
      BY <1>6 DEF Terminate, Terminated
    <2>2. MainOK'
      BY <1>0, <1>6 DEF Terminate, Terminated, MainOK, SharedOK
    <2> QED
      BY <1>0, <1>2, <1>3, <1>4, <2>1, <2>2, Kept
  <1>7. ASSUME NEW c \in Clients, TerminateClient(c) PROVE TypeInv'
    <2>1. /\ MainFrame /\ UNCHANGED <<stage, clients, writer>>
          /\ Sent(c, view[c]) \/ NotSent(c, c)
      BY <1>7 DEF TerminateClient
    <2>2. MainOK'
      BY <1>0, <1>7 DEF TerminateClient, MainOK
    <2>3. SignalOK' /\ StreamOK'
      BY <1>0, <2>1, SentTypes, NotSentTypes
    <2> QED
      BY <1>2, <1>3, <1>4, <2>1, <2>2, <2>3
  <1> QED
    BY <1>5, <1>6, <1>7 DEF MainStep

\* Steps that change nothing.
LEMMA StutterTypes == ASSUME TypeInv, UNCHANGED vars PROVE TypeInv'
  <1>1. /\ UNCHANGED <<upstream, raw_covered, clients, stage, taskVars, bufferVars,
                       peerVars, signalVars, streamVars, writer, dumpVars, mainVars>>
    BY DEF vars
  <1>2. UNCHANGED <<stage, job, cur, batch, left>>
    BY <1>1 DEF taskVars, dumpVars
  <1>3. UNCHANGED <<raw_covered, clients, writer>>
    BY <1>1
  <1> QED
    BY <1>1, <1>2, <1>3, Kept DEF TypeInv, TypeOK

-----------------------------------------------------------------------------
\* TypeInv is inductive.
LEMMA NextTypes == TypeInv /\ [Next]_vars => TypeInv'
  <1> SUFFICES ASSUME TypeInv, [Next]_vars PROVE TypeInv'
    OBVIOUS
  <1>1. ASSUME NEW p \in Peers, PeerMessage(p) \/ RibUpdate(p) \/ GcDisconnected(p)
        PROVE  TypeInv'
    BY <1>1, PeerMessageTypes, RibUpdateTypes, GcDisconnectedTypes
  <1>2. ASSUME NEW t \in Tasks, TaskStep(t) PROVE TypeInv'
    <2>1. t \in Actors
      BY ActorSets
    <2> QED
      BY <1>2, <2>1, DirectUpdateTypes, EachClientTypes, BufferUpdateTypes,
         NotDumpingTypes, UpdateDoneTypes, SendTypes DEF TaskStep
  <1>3. ASSUME NEW c \in Clients, DumpStep(c) PROVE TypeInv'
    <2>1. c \in Actors
      BY ActorSets
    <2> QED
      BY <1>3, <2>1, DumpOpeningTypes, DumpWalkTypes, DumpClosingTypes, NoRibTypes,
         SendTypes DEF DumpStep
  <1> QED
    BY <1>1, <1>2, <1>3, WriterTypes, MainTypes, StutterTypes DEF Next

\* The unit's state is well typed in every behaviour, for any number of peers,
\* prefixes and clients; in particular a client's channel never holds more than
\* live_queue_depth messages.
THEOREM TypeCorrect == Spec => []TypeOK
  <1>1. Init => TypeInv
    BY InitTypes
  <1>2. TypeInv /\ [Next]_vars => TypeInv'
    BY NextTypes
  <1>3. TypeInv => TypeOK
    BY DEF TypeInv
  <1> QED
    BY <1>1, <1>2, <1>3, PTL DEF Spec

=============================================================================
