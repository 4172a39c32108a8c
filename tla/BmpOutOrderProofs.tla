-------------------------- MODULE BmpOutOrderProofs --------------------------
(* Without statistics reports every message about a peer follows the peer's   *)
(* Peer Up, for every set of peers, prefixes and clients and every bound.     *)
EXTENDS BmpOutProofs

(* Zenon proves the leaves that do not name the SMT solver.                *)
USE ZenonT(30)

\* Some task is at one of the given stages with an update of p for c.
At(c, p, stages) ==
    \/ stage[p] \in stages /\ cur[p] = c
    \/ stage[c] \in stages /\ Job(c).peer = p

\* Who may be sending to a client: the tasks of the peers once it is Live, its
\* own dump task until then.
Turns ==
    /\ stage[StatsEmitter] = "idle"
    /\ \A p \in Peers : stage[p] # "idle" =>
         job[p].peer = p /\ register[p] # "reclaimed"
    /\ \A p \in Peers : stage[p] \in SendStages => phase[cur[p]] = "Live"
    /\ \A c \in Clients : phase[c] = "Live" => stage[c] = "done"
    /\ \A c \in Clients : writer[c] = "absent" => stage[c] = "absent"

\* What the client state says of p is what the collector was told, but for the
\* steps between a message and the bookkeeping that belongs to it.
Agrees(c, p) ==
    /\ p \in peer_info_cache[c] => p \in view[c].up \/ At(c, p, {"forget"})
    /\ p \in known_peers[c] =>
         p \in view[c].up \/ register[p] = "reclaimed" \/ At(c, p, {"peer_up", "forget"})
    /\ At(c, p, {"body"}) => p \in view[c].up \/ register[p] = "reclaimed"

Told == PeerUpFirst /\ \A c \in Clients, p \in Peers : Agrees(c, p)

OrderInv == Turns /\ Told

-----------------------------------------------------------------------------
(* Helpers. *)

\* The stages between a message about a peer and its bookkeeping.
Mid == {"peer_up", "forget", "body"}

\* What a Peer Up adds to a collector's view.
LEMMA PeerUpSeen ==
    ASSUME NEW v \in Views, NEW p
    PROVE  SeesPeerUp(v, p).up = v.up \cup {p} /\ SeesPeerUp(v, p).stray = v.stray
  BY DEF SeesPeerUp, Views

\* A Peer Down of a peer that is up takes it away and nothing else.
LEMMA PeerDownSeen ==
    ASSUME NEW v \in Views, NEW p, p \in v.up
    PROVE  SeesPeerDown(v, p).up = v.up \ {p} /\ SeesPeerDown(v, p).stray = v.stray
  BY DEF SeesPeerDown, Views

\* Messages about a peer that is up are not stray.
LEMMA RouteSeen ==
    ASSUME NEW v \in Views, NEW p, NEW x, NEW r, p \in v.up
    PROVE  SeesRoute(v, p, x, r).up = v.up /\ SeesRoute(v, p, x, r).stray = v.stray
  BY DEF SeesRoute, Views

\* Nor is a statistics report about one.
LEMMA StatsSeen ==
    ASSUME NEW v \in Views, NEW p, p \in v.up
    PROVE  SeesStats(v, p).up = v.up /\ SeesStats(v, p).stray = v.stray
  BY DEF SeesStats, Views

\* A message that is queued changes the view of its client only.
LEMMA SentView ==
    ASSUME StreamOK, NEW c \in Clients, NEW v, Sent(c, v)
    PROVE  view'[c] = v /\ \A d \in Clients : d # c => view'[d] = view[d]
  BY DEF Sent, StreamOK

\* A message that is not queued changes nobody's view.
LEMMA NotSentView == ASSUME NEW a, NEW c, NotSent(a, c) PROVE UNCHANGED view
  BY DEF NotSent, streamVars

\* An actor that is at none of the stages in between, before and after its step,
\* and the others as they were.
LEMMA AtKept ==
    ASSUME TypeInv, NEW b \in Actors, NEW s, s \notin Mid, stage[b] \notin Mid,
           stage' = [stage EXCEPT ![b] = s],
           \A t \in Tasks : t # b => cur'[t] = cur[t],
           \A d \in Clients : d # b => batch'[d] = batch[d]
    PROVE  \A c \in Clients, p \in Peers, S \in SUBSET Mid : At(c, p, S)' <=> At(c, p, S)
  <1> SUFFICES ASSUME NEW c \in Clients, NEW p \in Peers, NEW S \in SUBSET Mid
               PROVE  At(c, p, S)' <=> At(c, p, S)
    OBVIOUS
  <1>1. /\ \A d \in Actors : d # b => stage'[d] = stage[d]
        /\ stage'[b] = s
    BY DEF TypeInv, TypeOK, StageOK
  <1>2. p \in Tasks /\ p \in Actors /\ c \in Actors
    BY ActorSets
  <1>3. c # b => Job(c)' = Job(c)
    BY DEF Job
  <1>4. (stage'[p] \in S /\ cur'[p] = c) <=> (stage[p] \in S /\ cur[p] = c)
    BY <1>1, <1>2
  <1>5. (stage'[c] \in S /\ Job(c)'.peer = p) <=> (stage[c] \in S /\ Job(c).peer = p)
    BY <1>1, <1>2, <1>3
  <1> QED
    BY <1>4, <1>5 DEF At

\* Steps that send nothing but Peer Ups and End-of-RIB markers.
LEMMA ToldKept ==
    ASSUME Told, UNCHANGED peer_info_cache,
           \A c \in Clients : view[c].up \subseteq view'[c].up /\ view'[c].stray = view[c].stray,
           \A c \in Clients : known_peers'[c] \subseteq known_peers[c] \cup view'[c].up,
           \A p \in Peers : register[p] = "reclaimed" => register'[p] = "reclaimed",
           \A c \in Clients, p \in Peers, S \in SUBSET Mid : At(c, p, S)' <=> At(c, p, S)
    PROVE  Told'
  <1>1. PeerUpFirst'
    BY DEF Told, PeerUpFirst
  <1>2. ASSUME NEW c \in Clients, NEW p \in Peers PROVE Agrees(c, p)'
    <2>1. /\ At(c, p, {"forget"})' <=> At(c, p, {"forget"})
          /\ At(c, p, {"peer_up", "forget"})' <=> At(c, p, {"peer_up", "forget"})
          /\ At(c, p, {"body"})' <=> At(c, p, {"body"})
      <3>1. {{"forget"}, {"peer_up", "forget"}, {"body"}} \subseteq SUBSET Mid
        BY DEF Mid
      <3> QED
        BY <3>1
    <2>2. Agrees(c, p)
      BY DEF Told
    <2>3. p \in peer_info_cache'[c] => p \in view'[c].up \/ At(c, p, {"forget"})'
      BY <2>1, <2>2 DEF Agrees
    <2>4. p \in known_peers'[c] => \/ p \in view'[c].up \/ register'[p] = "reclaimed"
                                   \/ At(c, p, {"peer_up", "forget"})'
      BY <2>1, <2>2 DEF Agrees
    <2>5. At(c, p, {"body"})' => p \in view'[c].up \/ register'[p] = "reclaimed"
      BY <2>1, <2>2 DEF Agrees
    <2> QED
      BY <2>3, <2>4, <2>5 DEF Agrees
  <1> QED
    BY <1>1, <1>2 DEF Told

\* Steps that change nobody's stage.
LEMMA StillTold ==
    ASSUME Told, UNCHANGED <<stage, cur, batch, peerVars>>,
           \A c \in Clients : view'[c] = view[c],
           \A p \in Peers : register[p] = "reclaimed" => register'[p] = "reclaimed"
    PROVE  Told'
  <1>1. \A c \in Clients, p \in Peers, S \in SUBSET Mid : At(c, p, S)' <=> At(c, p, S)
    BY DEF At, Job
  <1>2. UNCHANGED <<known_peers, peer_info_cache>>
    BY DEF peerVars
  <1> QED
    BY <1>1, <1>2, ToldKept

\* Turns, when nobody moves.
LEMMA TurnsStill ==
    ASSUME Turns, UNCHANGED <<stage, job, cur, phase>>,
           \A c \in Clients : writer'[c] = "absent" => writer[c] = "absent",
           \A p \in Peers : stage[p] # "idle" => register'[p] # "reclaimed"
    PROVE  Turns'
  BY DEF Turns

\* Whose turn it is after a step of one actor.
LEMMA TurnsKept ==
    ASSUME TypeInv, Turns, NEW a \in Actors, a # StatsEmitter, NEW s,
           stage' = [stage EXCEPT ![a] = s],
           \A p \in Peers : p # a => job'[p] = job[p] /\ cur'[p] = cur[p],
           \A p \in Peers : p # a /\ stage[p] # "idle" => register'[p] # "reclaimed",
           a \in Peers => /\ s # "idle" => job'[a].peer = a /\ register'[a] # "reclaimed"
                          /\ s \in SendStages => phase[cur'[a]] = "Live" /\ cur'[a] \in Clients,
           a \in Clients => stage[a] # "done" /\ writer'[a] # "absent",
           \A c \in Clients : phase[c] = "Live" => phase'[c] = "Live",
           \A c \in Clients : phase'[c] = "Live" => phase[c] = "Live" \/ (c = a /\ s = "done"),
           \A c \in Clients : writer'[c] = "absent" => writer[c] = "absent"
    PROVE  Turns'
  <1>1. /\ \A b \in Actors : b # a => stage'[b] = stage[b]
        /\ stage'[a] = s
    BY DEF TypeInv, TypeOK, StageOK
  <1>2. /\ Peers \subseteq Actors /\ StatsEmitter \in Actors /\ Clients \subseteq Actors
        /\ Peers \cap Clients = {}
    BY ActorSets
  <1>3. stage'[StatsEmitter] = "idle"
    BY <1>1, <1>2 DEF Turns
  <1>4. \A p \in Peers : stage'[p] # "idle" => job'[p].peer = p /\ register'[p] # "reclaimed"
    BY SMTT(30), <1>1, <1>2 DEF Turns
  <1>5. ASSUME NEW p \in Peers, stage'[p] \in SendStages PROVE phase'[cur'[p]] = "Live"
    <2>1. CASE p = a
      BY SMTT(30), <1>1, <1>5, <2>1
    <2>2. CASE p # a
      <3>1. stage[p] \in SendStages /\ cur'[p] = cur[p] /\ phase[cur[p]] = "Live"
        BY SMTT(30), <1>1, <1>2, <1>5, <2>2 DEF Turns
      <3>2. cur[p] \in Clients
        BY <3>1, ActorSets DEF TypeInv, Shape
      <3> QED
        BY <3>1, <3>2
    <2> QED
      BY <2>1, <2>2
  <1>6. \A c \in Clients : phase'[c] = "Live" => stage'[c] = "done"
    BY SMTT(30), <1>1, <1>2 DEF Turns
  <1>7. \A c \in Clients : writer'[c] = "absent" => stage'[c] = "absent"
    BY SMTT(30), <1>1, <1>2 DEF Turns
  <1> QED
    BY <1>3, <1>4, <1>5, <1>6, <1>7 DEF Turns

-----------------------------------------------------------------------------
(* The steps of send_update_to_client. *)

\* An actor that sends to a client about a peer is the only one to do so.
LEMMA Alone ==
    ASSUME TypeInv, Turns, NEW a \in Actors, stage[a] \in SendStages
    PROVE  /\ a \in Peers \cup Clients
           /\ \A S \in SUBSET SendStages : At(Target(a), Job(a).peer, S) <=> stage[a] \in S
  <1>0. Target(a) \in Clients /\ Job(a) \in Update /\ Job(a).peer \in Peers
    BY TargetJob, UpdateTypes
  <1>1. a \in Peers \cup Clients
    BY ActorSets DEF Turns, SendStages, Actors, Tasks
  <1>2. ASSUME NEW S \in SUBSET SendStages
        PROVE  At(Target(a), Job(a).peer, S) <=> stage[a] \in S
    <2>1. CASE a \in Clients
      <3>1. Target(a) = a
        BY <2>1 DEF Target
      <3>2. phase[a] # "Live"
        BY <2>1 DEF Turns, SendStages
      <3>3. ~(stage[Job(a).peer] \in S /\ cur[Job(a).peer] = a)
        BY SMTT(30), <1>0, <3>2 DEF Turns
      <3> QED
        BY <3>1, <3>3 DEF At
    <2>2. CASE a \in Peers
      <3>1. a \notin Clients
        BY <2>2, ActorSets
      <3>2. Target(a) = cur[a] /\ Job(a) = job[a] /\ stage[a] # "idle"
        BY <3>1 DEF Target, Job, SendStages
      <3>3. Job(a).peer = a /\ phase[cur[a]] = "Live"
        BY <2>2, <3>2 DEF Turns
      <3>4. stage[cur[a]] \notin S
        BY SMTT(30), <1>0, <3>2, <3>3 DEF Turns, SendStages
      <3> QED
        BY <3>2, <3>3, <3>4 DEF At
    <2> QED
      BY <1>1, <2>1, <2>2
  <1> QED
    BY <1>1, <1>2

\* A step that leaves the actor at stage s: with the same update, or at a stage
\* where nothing is in between.
Leaves(a, s) ==
    /\ stage' = [stage EXCEPT ![a] = s]
    /\ \A t \in Tasks : t # a => job'[t] = job[t] /\ cur'[t] = cur[t]
    /\ \A c \in Clients : c # a => batch'[c] = batch[c]
    /\ s \in SendStages /\ a \in Tasks => cur'[a] = cur[a]
    /\ s \in Mid => Job(a)' = Job(a)
    /\ a \in Tasks => job'[a] = job[a] /\ s # "idle"

\* send_update_to_client goes on to its next step.
LEMMA ContinueLeaves ==
    ASSUME NEW a \in Actors, NEW s, Continue(a, s), UNCHANGED job, s # "idle"
    PROVE  Leaves(a, s)
  BY DEF Continue, Leaves, Job

\* send_update_to_client returns, to the live task or to the replay.
LEMMA ReturnLeaves ==
    ASSUME TypeInv, NEW a \in Actors, stage[a] \in SendStages, NEW ok, Return(a, ok),
           UNCHANGED job
    PROVE  \E s : Leaves(a, s) /\ s \notin Mid /\ s # "done"
  <1>0. DumpOK /\ TaskOK
    BY DEF TypeInv, TypeOK
  <1>1. CASE a \in Clients
    <2>1. PICK s \in {"send", "go_live", "drain", "failed"} : stage' = [stage EXCEPT ![a] = s]
      BY <1>1 DEF Return
    <2>2. UNCHANGED cur /\ \A c \in Clients : c # a => batch'[c] = batch[c]
      BY <1>0, <1>1 DEF Return, DumpOK
    <2>3. a \notin Tasks
      BY <1>1, ActorSets
    <2>4. s \notin Mid /\ s # "done"
      BY DEF Mid
    <2>5. Leaves(a, s)
      BY <2>1, <2>2, <2>3, <2>4 DEF Leaves
    <2> QED
      BY <2>4, <2>5
  <1>2. CASE a \notin Clients
    <2>1. /\ stage' = [stage EXCEPT ![a] = "each"] /\ UNCHANGED batch
          /\ \A t \in Tasks : t # a => cur'[t] = cur[t]
      BY <1>0, <1>2 DEF Return, TaskOK
    <2>2. Leaves(a, "each")
      BY <2>1 DEF Leaves, Mid, SendStages
    <2> QED
      BY <2>2 DEF Mid
  <1> QED
    BY <1>1, <1>2

\* Who is in between after such a step.
LEMMA LeavesAt ==
    ASSUME TypeInv, Turns, NEW a \in Actors, stage[a] \in SendStages, NEW s, Leaves(a, s),
           NEW d \in Clients, NEW q \in Peers, NEW S \in SUBSET Mid
    PROVE  IF d = Target(a) /\ q = Job(a).peer THEN At(d, q, S)' <=> s \in S
                                               ELSE At(d, q, S)' <=> At(d, q, S)
  <1>0. /\ S \subseteq SendStages /\ S \subseteq Mid
        /\ Mid \subseteq SendStages
    BY DEF Mid, SendStages
  <1>1. a \in Peers \cup Clients /\ (At(Target(a), Job(a).peer, S) <=> stage[a] \in S)
    BY <1>0, Alone
  <1>2. /\ \A b \in Actors : b # a => stage'[b] = stage[b]
        /\ stage'[a] = s
    BY DEF Leaves, TypeInv, TypeOK, StageOK
  <1>3. /\ q \in Tasks /\ q \in Actors /\ d \in Actors /\ q \notin Clients /\ d \notin Tasks
    BY ActorSets
  <1>4. d # a => Job(d)' = Job(d)
    BY DEF Job, Leaves
  <1>5. CASE a \in Clients
    <2>1. Target(a) = a /\ phase[a] # "Live" /\ a \notin Tasks /\ q # a
      BY <1>3, <1>5, ActorSets DEF Target, Turns, SendStages
    <2>2. (stage'[q] \in S /\ cur'[q] = d) <=> (stage[q] \in S /\ cur[q] = d)
      BY <1>2, <1>3, <2>1 DEF Leaves
    <2>3. CASE d = a
      <3>1. ~(stage[q] \in S /\ cur[q] = d)
        BY SMTT(30), <1>0, <2>1, <2>3 DEF Turns
      <3>2. At(d, q, S)' <=> (s \in S /\ Job(a)'.peer = q)
        BY <1>2, <2>2, <2>3, <3>1 DEF At
      <3>3. s \in S => Job(a)' = Job(a)
        BY <1>0 DEF Leaves
      <3>4. At(d, q, S) <=> (stage[a] \in S /\ Job(a).peer = q)
        BY <2>3, <3>1 DEF At
      <3> QED
        BY <2>1, <2>3, <3>2, <3>3, <3>4
    <2>4. CASE d # a
      <3>1. (stage'[d] \in S /\ Job(d)'.peer = q) <=> (stage[d] \in S /\ Job(d).peer = q)
        BY <1>2, <1>3, <1>4, <2>4
      <3> QED
        BY <2>1, <2>2, <2>4, <3>1 DEF At
    <2> QED
      BY <2>3, <2>4
  <1>6. CASE a \in Peers
    <2>0. a \notin Clients /\ a \in Tasks /\ d # a
      BY <1>6, ActorSets
    <2>1. Target(a) = cur[a] /\ Job(a).peer = a
      BY <1>6, <2>0 DEF Turns, SendStages, Target, Job
    <2>2. (stage'[d] \in S /\ Job(d)'.peer = q) <=> (stage[d] \in S /\ Job(d).peer = q)
      BY <1>2, <1>3, <1>4, <2>0
    <2>3. CASE q = a
      <3>1. s \in S => cur'[a] = cur[a]
        BY <1>0, <2>0 DEF Leaves
      <3>2. d = cur[a] => stage[d] \notin S
        BY SMTT(30), <1>0, <1>6 DEF Turns, SendStages
      <3>3. CASE d = cur[a]
        BY <1>2, <2>1, <2>2, <2>3, <3>1, <3>2, <3>3 DEF At
      <3>4. CASE d # cur[a]
        BY <1>2, <2>1, <2>2, <2>3, <3>1, <3>4 DEF At
      <3> QED
        BY <3>3, <3>4
    <2>4. CASE q # a
      BY <1>2, <1>3, <2>1, <2>2, <2>4 DEF At, Leaves
    <2> QED
      BY <2>3, <2>4
  <1> QED
    BY <1>1, <1>5, <1>6

\* Sending gives nobody a turn who did not have it.
LEMMA SendTurns ==
    ASSUME TypeInv, Turns, NEW a \in Actors, stage[a] \in SendStages, SendFrame,
           NEW s, Leaves(a, s)
    PROVE  Turns'
  <1>1. UNCHANGED <<register, phase, writer>>
    BY DEF SendFrame, upstream, bufferVars
  <1>2. a \in Peers \cup Clients /\ a # StatsEmitter /\ Peers \subseteq Tasks
    BY Alone, ActorSets, BmpOutAssumption DEF BmpOutAssumption
  <1>3. stage[a] # "idle" /\ stage[a] # "done" /\ stage[a] # "absent"
    BY DEF SendStages
  <1>4. a \in Peers => /\ s # "idle" => job'[a].peer = a /\ register'[a] # "reclaimed"
                       /\ s \in SendStages => phase[cur'[a]] = "Live" /\ cur'[a] \in Clients
    <2> SUFFICES ASSUME a \in Peers
                 PROVE  /\ job'[a].peer = a /\ register'[a] # "reclaimed"
                        /\ s \in SendStages => phase[cur'[a]] = "Live" /\ cur'[a] \in Clients
      OBVIOUS
    <2>1. job'[a] = job[a] /\ (s \in SendStages => cur'[a] = cur[a])
      BY <1>2 DEF Leaves
    <2>2. cur[a] \in Clients /\ phase[cur[a]] = "Live"
      BY <1>2 DEF Turns, TypeInv, Shape
    <2> QED
      BY <1>1, <1>3, <2>1, <2>2 DEF Turns
  <1>5. a \in Clients => stage[a] # "done" /\ writer'[a] # "absent"
    BY <1>1, <1>3 DEF Turns
  <1>6. /\ stage' = [stage EXCEPT ![a] = s]
        /\ \A p \in Peers : p # a => job'[p] = job[p] /\ cur'[p] = cur[p]
    BY <1>2 DEF Leaves
  <1>7. \A p \in Peers : p # a /\ stage[p] # "idle" => register'[p] # "reclaimed"
    BY <1>1 DEF Turns
  <1> QED
    BY <1>1, <1>2, <1>4, <1>5, <1>6, <1>7, TurnsKept

\* What is known of the peer before a step about it.
LEMMA SendFacts ==
    ASSUME TypeInv, OrderInv, NEW a \in Actors, stage[a] \in SendStages,
           NEW c, NEW p, c = Target(a), p = Job(a).peer
    PROVE  /\ c \in Clients /\ p \in Peers /\ view[c] \in Views
           /\ p \in peer_info_cache[c] => p \in view[c].up \/ stage[a] = "forget"
           /\ p \in known_peers[c] => \/ p \in view[c].up \/ register[p] = "reclaimed"
                                      \/ stage[a] \in {"peer_up", "forget"}
           /\ stage[a] = "body" => p \in view[c].up \/ register[p] = "reclaimed"
  <1>1. c \in Clients /\ Job(a) \in Update
    BY TargetJob
  <1>2. p \in Peers /\ view[c] \in Views
    BY <1>1, UpdateTypes DEF TypeInv, TypeOK, StreamOK
  <1>3. {{"forget"}, {"peer_up", "forget"}, {"body"}} \subseteq SUBSET SendStages
    BY DEF SendStages
  <1>4. /\ At(c, p, {"forget"}) <=> stage[a] \in {"forget"}
        /\ At(c, p, {"peer_up", "forget"}) <=> stage[a] \in {"peer_up", "forget"}
        /\ At(c, p, {"body"}) <=> stage[a] \in {"body"}
    BY <1>3, Alone DEF OrderInv
  <1>5. Agrees(c, p)
    BY <1>1, <1>2 DEF OrderInv, Told
  <1> QED
    BY <1>1, <1>2, <1>4, <1>5 DEF Agrees

\* What a step about a peer has to establish.
LEMMA SendTold ==
    ASSUME TypeInv, OrderInv, NEW a \in Actors, stage[a] \in SendStages, SendFrame,
           NEW s, Leaves(a, s), NEW c, NEW p, c = Target(a), p = Job(a).peer,
           \A d \in Clients, q \in Peers : d # c \/ q # p =>
              /\ q \in peer_info_cache'[d] <=> q \in peer_info_cache[d]
              /\ q \in known_peers'[d] <=> q \in known_peers[d]
              /\ q \in view'[d].up <=> q \in view[d].up,
           \A d \in Clients : view'[d].stray = view[d].stray,
           p \in peer_info_cache'[c] => p \in view'[c].up \/ s = "forget",
           p \in known_peers'[c] => \/ p \in view'[c].up \/ register[p] = "reclaimed"
                                    \/ s \in {"peer_up", "forget"},
           s = "body" => p \in view'[c].up \/ register[p] = "reclaimed"
    PROVE  OrderInv'
  <1>1. Turns' /\ UNCHANGED register
    BY SendTurns DEF OrderInv, SendFrame, upstream
  <1>2. PeerUpFirst'
    BY DEF OrderInv, Told, PeerUpFirst
  <1>3. ASSUME NEW d \in Clients, NEW q \in Peers PROVE Agrees(d, q)'
    <2>1. {{"forget"}, {"peer_up", "forget"}, {"body"}} \subseteq SUBSET Mid
      BY DEF Mid
    <2>2. CASE d = c /\ q = p
      <3>1. /\ At(d, q, {"forget"})' <=> s \in {"forget"}
            /\ At(d, q, {"peer_up", "forget"})' <=> s \in {"peer_up", "forget"}
            /\ At(d, q, {"body"})' <=> s \in {"body"}
        BY <2>1, <2>2, LeavesAt DEF OrderInv
      <3> QED
        BY <1>1, <2>2, <3>1 DEF Agrees
    <2>3. CASE d # c \/ q # p
      <3>1. /\ At(d, q, {"forget"})' <=> At(d, q, {"forget"})
            /\ At(d, q, {"peer_up", "forget"})' <=> At(d, q, {"peer_up", "forget"})
            /\ At(d, q, {"body"})' <=> At(d, q, {"body"})
        BY <2>1, <2>3, LeavesAt DEF OrderInv
      <3>2. Agrees(d, q)
        BY DEF OrderInv, Told
      <3> QED
        BY <1>1, <2>3, <3>1, <3>2 DEF Agrees
    <2> QED
      BY <2>2, <2>3
  <1> QED
    BY <1>1, <1>2, <1>3 DEF OrderInv, Told

\* remove_known_peer forgets that peer of that client and no other.
LEMMA RemoveKnown ==
    ASSUME PeerOK, NEW c \in Clients, NEW p, remove_known_peer(c, p)
    PROVE  /\ p \notin known_peers'[c] /\ p \notin peer_info_cache'[c]
           /\ \A d \in Clients, q \in Peers : d # c \/ q # p =>
                /\ q \in peer_info_cache'[d] <=> q \in peer_info_cache[d]
                /\ q \in known_peers'[d] <=> q \in known_peers[d]
  BY DEF PeerOK, remove_known_peer

\* send_update_to_client and its callees, one case per step.
LEMMA SendOrder ==
    ASSUME TypeInv, OrderInv, NEW a \in Actors, SendStep(a) PROVE OrderInv'
  <1> DEFINE c == Target(a)
             u == Job(a)
             p == u.peer
  <1>0. stage[a] \in SendStages /\ SendFrame /\ UNCHANGED job
    <2>1. stage[a] \in SendStages
      BY DEF SendStep, SendCached, SendExpired, SendFirst, SendPeerUp, SendBody,
             SendPeerDown, ForgetPeer, SendStages
    <2>2. SendFrame
      BY DEF SendStep, SendCached, SendExpired, SendFirst, SendPeerUp, SendBody,
             SendPeerDown, ForgetPeer
    <2> QED
      BY <2>1, <2>2 DEF SendFrame
  <1>1. /\ c \in Clients /\ p \in Peers /\ view[c] \in Views
        /\ p \in peer_info_cache[c] => p \in view[c].up \/ stage[a] = "forget"
        /\ p \in known_peers[c] => \/ p \in view[c].up \/ register[p] = "reclaimed"
                                   \/ stage[a] \in {"peer_up", "forget"}
        /\ stage[a] = "body" => p \in view[c].up \/ register[p] = "reclaimed"
    BY <1>0, SendFacts
  <1>2. StreamOK /\ PeerOK
    BY DEF TypeInv, TypeOK
  <1>3. ASSUME NEW ok, Return(a, ok) PROVE \E s : Leaves(a, s) /\ s \notin Mid
    BY <1>0, <1>3, ReturnLeaves
  <1>4. ASSUME NEW s \in Mid \cup {"forget_failed"}, Continue(a, s) PROVE Leaves(a, s)
    BY <1>0, <1>4, ContinueLeaves DEF Mid
  <1>5. ASSUME NEW v, Sent(c, v)
        PROVE  view'[c] = v /\ \A d \in Clients : d # c => view'[d] = view[d]
    BY <1>1, <1>2, <1>5, SentView
  <1>6. NotSent(a, c) => UNCHANGED view
    BY NotSentView
  <1>7. UNCHANGED peerVars => UNCHANGED <<known_peers, peer_info_cache>>
    BY DEF peerVars
  <1>8. UNCHANGED streamVars => UNCHANGED view
    BY DEF streamVars
  <1>9. ASSUME NEW s, Leaves(a, s),
           \A d \in Clients, q \in Peers : d # c \/ q # p =>
              /\ q \in peer_info_cache'[d] <=> q \in peer_info_cache[d]
              /\ q \in known_peers'[d] <=> q \in known_peers[d]
              /\ q \in view'[d].up <=> q \in view[d].up,
           \A d \in Clients : view'[d].stray = view[d].stray,
           p \in peer_info_cache'[c] => p \in view'[c].up \/ s = "forget",
           p \in known_peers'[c] => \/ p \in view'[c].up \/ register[p] = "reclaimed"
                                    \/ s \in {"peer_up", "forget"},
           s = "body" => p \in view'[c].up \/ register[p] = "reclaimed"
        PROVE  OrderInv'
    BY SMTT(30), <1>0, <1>9, SendTold
  <1> HIDE DEF c, u, p
  \* A step that sends nothing and leaves the bookkeeping alone.
  <1>10. ASSUME UNCHANGED <<known_peers, peer_info_cache, view>>, NEW s, Leaves(a, s),
                stage[a] # "forget", stage[a] # "peer_up" \/ register[p] = "reclaimed",
                s = "body" => p \in view[c].up \/ register[p] = "reclaimed"
         PROVE  OrderInv'
    BY <1>1, <1>9, <1>10
  <1>11. CASE SendCached(a)
    <2>1. /\ stage[a] = "send" /\ p \in peer_info_cache[c] /\ UNCHANGED peerVars
          /\ \/ Sent(c, SeesRoute(view[c], p, u.prefix, u.route)) /\ Return(a, TRUE)
             \/ NotSent(a, c) /\ Return(a, FALSE)
      BY <1>11 DEF SendCached, c, u, p
    <2>2. PICK s : Leaves(a, s) /\ s \notin Mid
      BY <2>1, <1>3
    <2>3. p \in view[c].up
      BY <1>1, <2>1
    <2>4. \A d \in Clients : view'[d].up = view[d].up /\ view'[d].stray = view[d].stray
      <3> DEFINE v == SeesRoute(view[c], p, u.prefix, u.route)
      <3>1. v.up = view[c].up /\ v.stray = view[c].stray
        BY SMTT(30), <1>1, <2>3, RouteSeen
      <3>2. Sent(c, v) \/ NotSent(a, c)
        BY <2>1
      <3> HIDE DEF v
      <3> QED
        BY <1>5, <1>6, <3>1, <3>2
    <2> QED
      BY <1>1, <1>7, <1>9, <2>1, <2>2, <2>3, <2>4 DEF Mid
  <1>12. CASE SendExpired(a)
    <2>1. /\ stage[a] = "send" /\ UNCHANGED <<peerVars, streamVars>>
          /\ \E ok : Return(a, ok)
      BY <1>12 DEF SendExpired
    <2>2. PICK s : Leaves(a, s) /\ s \notin Mid
      BY <2>1, <1>3
    <2> QED
      BY <1>7, <1>8, <1>10, <2>1, <2>2 DEF Mid
  <1>13. CASE SendFirst(a)
    <2>1. /\ stage[a] = "send" /\ UNCHANGED <<peer_info_cache, streamVars>>
          /\ known_peers' = [known_peers EXCEPT ![c] = @ \cup {p}]
          /\ \/ p \notin known_peers[c] /\ Continue(a, "peer_up")
             \/ p \in known_peers[c] /\ Return(a, TRUE)
             \/ p \in known_peers[c] /\ Continue(a, "body")
      BY <1>13 DEF SendFirst, register_known_peer_if_absent, c, u, p
    <2>2. \A d \in Clients, q \in Peers : d # c \/ q # p =>
             (q \in known_peers'[d] <=> q \in known_peers[d])
      BY <1>2, <2>1 DEF PeerOK
    <2>3. PICK s : /\ Leaves(a, s)
                   /\ s = "peer_up" \/ p \in known_peers[c]
      BY <1>3, <1>4, <2>1 DEF Mid
    <2> QED
      BY <1>1, <1>8, <1>9, <2>1, <2>2, <2>3
  <1>14. CASE SendPeerUp(a)
    <2>1. /\ stage[a] = "peer_up"
          /\ \/ /\ register[p] = "reclaimed" /\ UNCHANGED <<peerVars, streamVars>>
                /\ Return(a, TRUE) \/ Continue(a, "body")
             \/ /\ Sent(c, SeesPeerUp(view[c], p)) /\ UNCHANGED peerVars
                /\ Return(a, TRUE) \/ Continue(a, "body")
             \/ NotSent(a, c) /\ remove_known_peer(c, p) /\ Return(a, FALSE)
      BY <1>14 DEF SendPeerUp, c, u, p
    <2>2. CASE register[p] = "reclaimed" /\ UNCHANGED <<peerVars, streamVars>>
               /\ (Return(a, TRUE) \/ Continue(a, "body"))
      <3>1. PICK s : Leaves(a, s)
        BY <1>3, <1>4, <2>2 DEF Mid
      <3> QED
        BY <1>7, <1>8, <1>10, <2>1, <2>2, <3>1
    <2>3. CASE Sent(c, SeesPeerUp(view[c], p)) /\ UNCHANGED peerVars
               /\ (Return(a, TRUE) \/ Continue(a, "body"))
      <3>1. PICK s : Leaves(a, s)
        BY <1>3, <1>4, <2>3 DEF Mid
      <3>2. /\ view'[c] = SeesPeerUp(view[c], p)
            /\ \A d \in Clients : d # c => view'[d] = view[d]
        BY <1>5, <2>3
      <3>3. view'[c].up = view[c].up \cup {p} /\ view'[c].stray = view[c].stray
        BY SMTT(30), <1>1, <3>2, PeerUpSeen
      <3> QED
        BY <1>7, <1>9, <2>3, <3>1, <3>2, <3>3
    <2>4. CASE NotSent(a, c) /\ remove_known_peer(c, p) /\ Return(a, FALSE)
      <3>1. PICK s : Leaves(a, s) /\ s \notin Mid
        BY <1>3, <2>4
      <3>2. UNCHANGED view
        BY <1>6, <2>4
      <3> QED
        BY <1>1, <1>2, <1>9, <2>4, <3>1, <3>2, RemoveKnown DEF Mid
    <2> QED
      BY <2>1, <2>2, <2>3, <2>4
  <1>15. CASE SendBody(a)
    <2> DEFINE v == IF u.kind = "stats" THEN SeesStats(view[c], p)
                    ELSE SeesRoute(view[c], p, u.prefix, u.route)
    <2>1. /\ stage[a] = "body"
          /\ \/ /\ \E ok : Return(a, ok)
                /\ UNCHANGED <<peerVars, streamVars>>
             \/ /\ register[p] # "reclaimed"
                /\ peer_info_cache' = [peer_info_cache EXCEPT ![c] =
                                         IF u.kind = "stats" THEN @ ELSE @ \cup {p}]
                /\ UNCHANGED known_peers
                /\ \/ Sent(c, v) /\ Return(a, TRUE)
                   \/ NotSent(a, c) /\ Return(a, FALSE)
      BY <1>15 DEF SendBody, c, u, p
    <2>2. PICK s : Leaves(a, s) /\ s \notin Mid
      BY <1>3, <2>1
    <2>3. CASE UNCHANGED <<peerVars, streamVars>>
      BY <1>7, <1>8, <1>10, <2>1, <2>2, <2>3 DEF Mid
    <2>4. CASE /\ register[p] # "reclaimed"
               /\ peer_info_cache' = [peer_info_cache EXCEPT ![c] =
                                        IF u.kind = "stats" THEN @ ELSE @ \cup {p}]
               /\ UNCHANGED known_peers
               /\ Sent(c, v) \/ NotSent(a, c)
      <3>1. p \in view[c].up
        BY <1>1, <2>1, <2>4
      <3>2. v.up = view[c].up /\ v.stray = view[c].stray
        <4>1. /\ SeesStats(view[c], p).up = view[c].up
              /\ SeesStats(view[c], p).stray = view[c].stray
          BY <1>1, <3>1, StatsSeen
        <4>2. /\ SeesRoute(view[c], p, u.prefix, u.route).up = view[c].up
              /\ SeesRoute(view[c], p, u.prefix, u.route).stray = view[c].stray
          BY SMTT(30), <1>1, <3>1, RouteSeen
        <4> QED
          BY <4>1, <4>2
      <3> HIDE DEF v
      <3>3. \A d \in Clients : view'[d].up = view[d].up /\ view'[d].stray = view[d].stray
        BY <1>5, <1>6, <2>4, <3>2
      <3>4. \A d \in Clients, q \in Peers : d # c \/ q # p =>
               (q \in peer_info_cache'[d] <=> q \in peer_info_cache[d])
        BY <1>1, <1>2, <2>4 DEF PeerOK
      <3> QED
        BY <1>1, <1>9, <2>2, <2>4, <3>1, <3>3, <3>4 DEF Mid
    <2> QED
      BY <2>1, <2>3, <2>4
  <1>16. CASE SendPeerDown(a)
    <2> DEFINE v == IF register[p] = "reclaimed" THEN view[c] ELSE SeesPeerDown(view[c], p)
    <2>1. /\ stage[a] = "send" /\ UNCHANGED peerVars
          /\ \/ Return(a, TRUE) /\ UNCHANGED streamVars
             \/ p \in known_peers[c] /\ Sent(c, v) /\ Continue(a, "forget")
             \/ NotSent(a, c) /\ Continue(a, "forget_failed")
      BY <1>16 DEF SendPeerDown, c, u, p
    <2>2. CASE Return(a, TRUE) /\ UNCHANGED streamVars
      <3>1. PICK s : Leaves(a, s) /\ s \notin Mid
        BY <1>3, <2>2
      <3> QED
        BY <1>7, <1>8, <1>10, <2>1, <2>2, <3>1 DEF Mid
    <2>3. CASE p \in known_peers[c] /\ Sent(c, v) /\ Continue(a, "forget")
      <3>1. Leaves(a, "forget")
        BY <1>4, <2>3 DEF Mid
      <3>2. p \in view[c].up \/ register[p] = "reclaimed"
        BY <1>1, <2>1, <2>3
      <3>3. v.stray = view[c].stray /\ \A q \in Peers : q # p => (q \in v.up <=> q \in view[c].up)
        <4>1. CASE register[p] = "reclaimed"
          BY <4>1
        <4>2. CASE register[p] # "reclaimed"
          <5>1. /\ v.up = view[c].up \ {p}
                /\ v.stray = view[c].stray
            BY <1>1, <3>2, <4>2, PeerDownSeen
          <5> HIDE DEF v
          <5> QED
            BY <5>1
        <4> QED
          BY <4>1, <4>2
      <3> HIDE DEF v
      <3>4. view'[c] = v /\ \A d \in Clients : d # c => view'[d] = view[d]
        BY <1>5, <2>3
      <3> QED
        BY <1>7, <1>9, <2>1, <3>1, <3>3, <3>4
    <2>4. CASE NotSent(a, c) /\ Continue(a, "forget_failed")
      <3>1. Leaves(a, "forget_failed")
        BY <1>4, <2>4
      <3> QED
        BY <1>6, <1>7, <1>10, <2>1, <2>4, <3>1
    <2> QED
      BY <2>1, <2>2, <2>3, <2>4
  <1>17. CASE ForgetPeer(a)
    <2>1. /\ remove_known_peer(c, p) /\ UNCHANGED streamVars
          /\ \E ok : Return(a, ok)
      BY <1>17 DEF ForgetPeer, c, u, p
    <2>2. PICK s : Leaves(a, s) /\ s \notin Mid
      BY <1>3, <2>1
    <2> QED
      BY SMTT(30), <1>1, <1>2, <1>8, <1>9, <2>1, <2>2, RemoveKnown DEF Mid
  <1> QED
    BY <1>11, <1>12, <1>13, <1>14, <1>15, <1>16, <1>17 DEF SendStep

-----------------------------------------------------------------------------
(* The initial state and the other steps. *)

\* The initial states.
LEMMA InitOrder == Init => OrderInv
  <1> SUFFICES ASSUME Init PROVE OrderInv
    OBVIOUS
  <1>1. /\ \A t \in Tasks : stage[t] = "idle"
        /\ \A c \in Clients : stage[c] = "absent" /\ phase[c] = "Dumping"
    BY ActorSets DEF Init
  <1>2. Turns
    BY <1>1, ActorSets DEF Turns, SendStages
  <1>3. ASSUME NEW c \in Clients, NEW p \in Peers PROVE Agrees(c, p)
    <2>1. stage[p] = "idle" /\ stage[c] = "absent"
      BY <1>1, ActorSets
    <2>2. ~At(c, p, {"body"})
      BY <2>1 DEF At
    <2>3. p \notin peer_info_cache[c] /\ p \notin known_peers[c]
      BY DEF Init
    <2> QED
      BY <2>2, <2>3 DEF Agrees
  <1>4. PeerUpFirst
    BY DEF Init, PeerUpFirst
  <1> QED
    BY <1>2, <1>3, <1>4 DEF OrderInv, Told

\* A step of the task of a peer outside send_update_to_client.
LEMMA PeerTaskOrder ==
    ASSUME TypeInv, OrderInv, NEW p \in Peers, stage[p] \notin Mid,
           NEW s \in TaskStages \ Mid, stage' = [stage EXCEPT ![p] = s],
           \A t \in Tasks : t # p => job'[t] = job[t] /\ cur'[t] = cur[t],
           UNCHANGED <<batch, phase, peerVars, view, writer>>,
           s # "idle" => job'[p].peer = p /\ register'[p] # "reclaimed",
           s \in SendStages => phase[cur'[p]] = "Live" /\ cur'[p] \in Clients,
           \A q \in Peers : q # p => register'[q] = register[q],
           register[p] = "reclaimed" => register'[p] = "reclaimed"
    PROVE  OrderInv'
  <1>1. /\ p \in Actors /\ p # StatsEmitter /\ p \notin Clients /\ p \in Tasks
        /\ Peers \subseteq Tasks
    BY ActorSets, BmpOutAssumption DEF BmpOutAssumption
  <1>2. \A q \in Peers : q # p /\ stage[q] # "idle" => register'[q] # "reclaimed"
    BY SMTT(30) DEF OrderInv, Turns
  <1>3. Turns'
    BY <1>1, <1>2, TurnsKept DEF OrderInv
  <1>4. \A c \in Clients, q \in Peers, S \in SUBSET Mid : At(c, q, S)' <=> At(c, q, S)
    BY <1>1, AtKept
  <1>5. UNCHANGED <<known_peers, peer_info_cache>>
    BY DEF peerVars
  <1>6. \A q \in Peers : register[q] = "reclaimed" => register'[q] = "reclaimed"
    OBVIOUS
  <1>7. Told'
    BY <1>4, <1>5, <1>6, ToldKept DEF OrderInv
  <1> QED
    BY <1>3, <1>7 DEF OrderInv

\* A step that changes neither stages nor what a collector is told.
LEMMA StillOrder ==
    ASSUME OrderInv, UNCHANGED <<stage, job, cur, batch, phase, peerVars>>,
           \A c \in Clients : view'[c] = view[c],
           \A c \in Clients : writer'[c] = "absent" => writer[c] = "absent",
           \A p \in Peers : stage[p] # "idle" => register'[p] # "reclaimed",
           \A p \in Peers : register[p] = "reclaimed" => register'[p] = "reclaimed"
    PROVE  OrderInv'
  BY StillTold, TurnsStill DEF OrderInv

\* A peer's task takes up an update of its own peer.
LEMMA CarriesOrder ==
    ASSUME TypeInv, OrderInv, NEW p \in Peers, NEW u \in Update, u.peer = p,
           NEW s \in {"rib", "direct_update"}, Carries(p, u, s),
           register'[p] # "reclaimed", \A q \in Peers : q # p => register'[q] = register[q],
           register[p] # "reclaimed"
    PROVE  OrderInv'
  <1>1. /\ stage[p] = "idle" /\ stage' = [stage EXCEPT ![p] = s]
        /\ UNCHANGED <<cur, batch, phase, peerVars, view, writer>>
    BY DEF Carries, bufferVars, streamVars, dumpVars
  <1>2. job'[p] = u /\ \A t \in Tasks : t # p => job'[t] = job[t]
    BY ActorSets DEF Carries, TypeInv, TypeOK, TaskOK
  <1>3. s \in TaskStages \ Mid /\ s \notin SendStages /\ stage[p] \notin Mid
    BY <1>1 DEF TaskStages, SendStages, Mid
  <1> QED
    BY <1>1, <1>2, <1>3, PeerTaskOrder

\* The messages of a peer, the RIB, and garbage collection.
LEMMA PeersOrder ==
    ASSUME TypeInv, OrderInv, StatsPeers = {}, NEW p \in Peers,
           PeerMessage(p) \/ RibUpdate(p) \/ GcDisconnected(p)
    PROVE  OrderInv'
  <1>0. /\ UpstreamOK /\ TaskOK /\ p \in Tasks
        /\ \A q \in Peers : stage[q] # "idle" => register[q] # "reclaimed"
    BY ActorSets DEF TypeInv, TypeOK, OrderInv, Turns
  <1>1. ASSUME NEW r, register' = [register EXCEPT ![p] = r]
        PROVE  register'[p] = r /\ \A q \in Peers : q # p => register'[q] = register[q]
    BY <1>0, <1>1 DEF UpstreamOK
  <1>2. CASE PeerUpNew(p)
    <2>1. /\ register[p] = "new" /\ register' = [register EXCEPT ![p] = "connected"]
          /\ UNCHANGED <<stage, job, cur, batch, phase, peerVars, view, writer>>
      BY <1>2 DEF PeerUpNew, taskVars, bufferVars, dumpVars, streamVars
    <2>2. register'[p] = "connected" /\ \A q \in Peers : q # p => register'[q] = register[q]
      BY <1>1, <2>1
    <2> QED
      <3>1. \A q \in Peers : /\ stage[q] # "idle" => register'[q] # "reclaimed"
                             /\ register[q] = "reclaimed" => register'[q] = "reclaimed"
        BY <1>0, <2>1, <2>2
      <3> QED
        BY <2>1, <3>1, StillOrder
  <1>3. CASE PeerUpAgain(p)
    <2>1. [kind |-> "reappeared", peer |-> p] \in Update
      BY DEF Update, PeerUpdate
    <2>2. register'[p] = "connected" /\ \A q \in Peers : q # p => register'[q] = register[q]
      BY <1>1, <1>3 DEF PeerUpAgain
    <2> QED
      BY <1>3, <2>1, <2>2, CarriesOrder DEF PeerUpAgain
  <1>4. CASE PeerDown(p)
    <2>1. [kind |-> "withdraw", peer |-> p] \in Update
      BY DEF Update, PeerUpdate
    <2>2. register'[p] = "disconnected" /\ \A q \in Peers : q # p => register'[q] = register[q]
      BY <1>1, <1>4 DEF PeerDown
    <2> QED
      BY <1>4, <2>1, <2>2, CarriesOrder DEF PeerDown
  <1>5. ~EmitStats(p)
    BY DEF EmitStats
  <1>6. ASSUME NEW x \in Prefixes, NEW r \in Routes, RouteMonitoring(p, x, r)
        PROVE  OrderInv'
    <2>1. PICK k \in {"raw", "route"}, s \in {"rib", "direct_update"} :
            Carries(p, [kind |-> k, peer |-> p, prefix |-> x, route |-> r], s)
      BY <1>6 DEF RouteMonitoring
    <2>2. [kind |-> k, peer |-> p, prefix |-> x, route |-> r] \in Update
      BY DEF Update, RouteUpdate
    <2>3. register[p] = "connected" /\ UNCHANGED register
      BY <1>6 DEF RouteMonitoring
    <2> QED
      BY <2>1, <2>2, <2>3, CarriesOrder
  <1>7. CASE RibUpdate(p)
    <2>1. /\ stage[p] = "rib" /\ stage' = [stage EXCEPT ![p] = "direct_update"]
          /\ UNCHANGED <<job, cur, batch, phase, peerVars, view, writer>>
      BY <1>7 DEF RibUpdate, taskVars, bufferVars, dumpVars, streamVars
    <2>2. job[p].peer = p /\ register[p] # "reclaimed"
      BY <2>1 DEF OrderInv, Turns
    <2>3. register'[p] # "reclaimed" /\ \A q \in Peers : q # p => register'[q] = register[q]
      BY <1>0, <1>7, <2>2 DEF RibUpdate, UpstreamOK
    <2>4. /\ "direct_update" \in TaskStages \ Mid /\ "direct_update" \notin SendStages
          /\ stage[p] \notin Mid
      BY <2>1 DEF TaskStages, SendStages, Mid
    <2> QED
      BY <2>1, <2>2, <2>3, <2>4, PeerTaskOrder
  <1>8. CASE GcDisconnected(p)
    <2>1. /\ stage[p] = "idle" /\ register' = [register EXCEPT ![p] = "reclaimed"]
          /\ UNCHANGED <<stage, job, cur, batch, phase, peerVars, view, writer>>
      BY <1>8 DEF GcDisconnected, taskVars, bufferVars, dumpVars, streamVars
    <2>2. register'[p] = "reclaimed" /\ \A q \in Peers : q # p => register'[q] = register[q]
      BY <1>1, <2>1
    <2> QED
      <3>1. \A q \in Peers : /\ stage[q] # "idle" => register'[q] # "reclaimed"
                             /\ register[q] = "reclaimed" => register'[q] = "reclaimed"
        BY <1>0, <2>1, <2>2
      <3> QED
        BY <2>1, <3>1, StillOrder
  <1> QED
    BY <1>2, <1>3, <1>4, <1>5, <1>6, <1>7, <1>8 DEF PeerMessage

\* direct_update, up to and after the sending.
LEMMA TaskOrder ==
    ASSUME TypeInv, OrderInv, NEW t \in Tasks, TaskStep(t) PROVE OrderInv'
  <1>0. /\ TaskOK /\ stage[t] # "idle"
    BY DEF TypeInv, TypeOK, TaskStep, DirectUpdate, EachClient, BufferUpdate, NotDumping,
       UpdateDone, SendStep, SendCached, SendExpired, SendFirst, SendPeerUp, SendBody,
       SendPeerDown, ForgetPeer
  <1>1. t \in Peers /\ t \in Actors /\ job[t].peer = t /\ register[t] # "reclaimed"
    BY <1>0, ActorSets DEF Tasks, OrderInv, Turns
  <1>2. CASE SendStep(t)
    BY <1>1, <1>2, SendOrder
  <1>3. ASSUME ~SendStep(t) PROVE OrderInv'
    <2>1. /\ UNCHANGED <<register, batch, phase, peerVars, view, writer>>
          /\ stage[t] \in {"direct_update", "each", "buffer"}
      BY <1>3 DEF TaskStep, DirectUpdate, EachClient, BufferUpdate, NotDumping, UpdateDone,
         upstream, dumpVars, bufferVars, streamVars
    <2>2. stage[t] \notin Mid
      BY <2>1 DEF Mid
    <2>3. ASSUME NEW s \in {"idle", "rib", "each", "buffer"}, stage' = [stage EXCEPT ![t] = s],
                 \A r \in Tasks : r # t => job'[r] = job[r] /\ cur'[r] = cur[r],
                 s # "idle" => job'[t].peer = t
          PROVE  OrderInv'
      <3>1. s \in TaskStages \ Mid /\ s \notin SendStages
        BY DEF TaskStages, SendStages, Mid
      <3> QED
        BY <1>1, <2>1, <2>2, <2>3, <3>1, PeerTaskOrder
    <2>4. CASE DirectUpdate(t)
      BY <1>1, <2>3, <2>4 DEF DirectUpdate
    <2>5. ASSUME NEW c \in Clients, EachClient(t, c) PROVE OrderInv'
      <3>1. CASE UNCHANGED <<stage, cur>>
        <4>1. stage' = [stage EXCEPT ![t] = "each"] /\ UNCHANGED job
          BY <1>1, <2>5, <3>1 DEF EachClient, TypeInv, TypeOK, StageOK
        <4> QED
          BY <1>1, <2>3, <3>1, <4>1
      <3>2. CASE cur' = [cur EXCEPT ![t] = c] /\ stage' = [stage EXCEPT ![t] = "buffer"]
        <4>1. UNCHANGED job /\ \A r \in Tasks : r # t => cur'[r] = cur[r]
          BY <1>0, <2>5, <3>2 DEF EachClient, TaskOK
        <4> QED
          BY <1>1, <2>3, <3>2, <4>1
      <3> QED
        BY <2>5, <3>1, <3>2 DEF EachClient
    <2>6. CASE BufferUpdate(t)
      <3>1. /\ UNCHANGED job /\ stage' = [stage EXCEPT ![t] = "each"]
            /\ \A r \in Tasks : r # t => cur'[r] = cur[r]
        BY <1>0, <2>6 DEF BufferUpdate, TaskOK
      <3> QED
        BY <1>1, <2>3, <3>1
    <2>7. CASE NotDumping(t)
      <3>1. /\ UNCHANGED <<job, cur>> /\ stage' = [stage EXCEPT ![t] = "send"]
            /\ phase[cur[t]] = "Live" /\ cur[t] \in Clients
        BY <2>7 DEF NotDumping, taskVars, TypeInv, Shape
      <3>2. "send" \in TaskStages \ Mid
        BY DEF TaskStages, SendStages, Mid
      <3> QED
        BY <1>1, <2>1, <2>2, <3>1, <3>2, PeerTaskOrder
    <2>8. CASE UpdateDone(t)
      <3>1. job[t] \in Update
        BY <1>0 DEF TypeInv, Shape
      <3>2. PICK s \in {"idle", "rib"} :
               /\ stage' = [stage EXCEPT ![t] = s] /\ (s = "rib" => job'[t].peer = t)
        <4>1. CASE job[t].kind = "raw"
          <5>1. /\ stage' = [stage EXCEPT ![t] = "rib"]
                /\ job' = [job EXCEPT ![t] = [job[t] EXCEPT !.kind = "route"]]
            BY <2>8, <4>1 DEF UpdateDone
          <5>2. [job[t] EXCEPT !.kind = "route"].peer = t
            BY <1>1, <3>1, <4>1 DEF Update, RouteUpdate, PeerUpdate
          <5> QED
            BY <1>0, <5>1, <5>2 DEF TaskOK
        <4>2. CASE job[t].kind # "raw"
          BY <2>8, <4>2 DEF UpdateDone
        <4> QED
          BY <4>1, <4>2
      <3>3. \A r \in Tasks : r # t => job'[r] = job[r] /\ cur'[r] = cur[r]
        BY <1>0, <2>8 DEF UpdateDone, TaskOK
      <3> QED
        BY <2>3, <3>2, <3>3
    <2> QED
      BY <1>3, <2>4, <2>5, <2>6, <2>7, <2>8 DEF TaskStep
  <1> QED
    BY <1>2, <1>3

\* A step of a client's dump task outside send_update_to_client.
LEMMA DumpTaskOrder ==
    ASSUME TypeInv, OrderInv, NEW c \in Clients, DumpFrame,
           stage[c] \in DumpStages \ (SendStages \cup {"absent", "done"}),
           NEW s \in DumpStages \ Mid, stage' = [stage EXCEPT ![c] = s],
           UNCHANGED peer_info_cache,
           \A d \in Clients : d # c => batch'[d] = batch[d],
           \A d \in Clients : d # c => phase'[d] = phase[d],
           phase'[c] = "Live" => phase[c] = "Live" \/ s = "done",
           \A d \in Clients : view[d].up \subseteq view'[d].up /\ view'[d].stray = view[d].stray,
           \A d \in Clients : known_peers'[d] \subseteq known_peers[d] \cup view'[d].up
    PROVE  OrderInv'
  <1>1. UNCHANGED <<register, job, cur, writer>>
    BY DEF DumpFrame, upstream, taskVars
  <1>2. /\ c \in Actors /\ c # StatsEmitter /\ c \notin Peers /\ c \notin Tasks
        /\ stage[c] # "done" /\ stage[c] # "absent"
    BY ActorSets, BmpOutAssumption DEF BmpOutAssumption
  <1>3. stage[c] \notin Mid
    BY DEF Mid, SendStages
  <1>4. /\ phase[c] # "Live" /\ writer'[c] # "absent"
        /\ \A p \in Peers : stage[p] # "idle" => register'[p] # "reclaimed"
    BY <1>1, <1>2 DEF OrderInv, Turns
  <1>5. Turns'
    BY <1>1, <1>2, <1>4, TurnsKept DEF OrderInv
  <1>6. \A d \in Clients, p \in Peers, S \in SUBSET Mid : At(d, p, S)' <=> At(d, p, S)
    BY <1>1, <1>2, <1>3, AtKept
  <1>7. Told'
    BY <1>1, <1>6, ToldKept DEF OrderInv
  <1> QED
    BY <1>5, <1>7 DEF OrderInv

\* The dump task, where it does not send through send_update_to_client.
LEMMA DumpOrder ==
    ASSUME TypeInv, OrderInv, NEW c \in Clients, DumpStep(c), ~SendStep(c) PROVE OrderInv'
  <1>0. /\ StreamOK /\ PeerOK /\ BufferOK /\ DumpOK /\ view[c] \in Views
    BY DEF TypeInv, TypeOK, StreamOK
  <1>1. stage[c] \in DumpStages \ (SendStages \cup {"absent", "done"}) /\ DumpFrame
    <2>1. /\ stage[c] \in {"initiation", "enumerate", "peer_ups", "walk", "drain", "take",
                           "go_live", "failed"}
          /\ DumpFrame
      BY DEF DumpStep, NoRibInitiation, NoRibTake, NoRibLive, DumpInitiation, DumpEnumerate,
         DumpPeerUp, DumpKeys, DumpWalk, DumpTruncate, DumpAbort, DumpEndOfRib, DumpDrain,
         DumpFailed
    <2> QED
      BY <2>1 DEF DumpStages, SendStages
  <1>2. {"enumerate", "failed", "peer_ups", "walk", "done", "drain", "take", "go_live", "send"}
          \subseteq DumpStages \ Mid
    BY DEF DumpStages, SendStages, Mid
  <1>3. ASSUME NEW v, Sent(c, v), v.stray = view[c].stray, view[c].up \subseteq v.up
        PROVE  /\ view'[c] = v
               /\ \A d \in Clients : /\ view[d].up \subseteq view'[d].up
                                     /\ view'[d].stray = view[d].stray
    BY <1>0, <1>3, SentView
  <1>4. Sent(c, view[c]) \/ NotSent(c, c) =>
          \A d \in Clients : view'[d].up = view[d].up /\ view'[d].stray = view[d].stray
    <2>1. CASE Sent(c, view[c])
      BY <1>0, <2>1, SentView
    <2>2. CASE NotSent(c, c)
      BY <2>2, NotSentView
    <2> QED
      BY <2>1, <2>2
  \* Steps that keep the bookkeeping, the batch and the phase.
  <1>5. ASSUME NEW s \in DumpStages \ Mid, stage' = [stage EXCEPT ![c] = s],
               UNCHANGED <<peerVars, batch, phase>>,
               \A d \in Clients : view[d].up \subseteq view'[d].up
                                  /\ view'[d].stray = view[d].stray
        PROVE  OrderInv'
    <2>1. UNCHANGED <<known_peers, peer_info_cache>>
      BY <1>5 DEF peerVars
    <2> QED
      BY <1>1, <1>5, <2>1, DumpTaskOrder
  <1>6. stage = [stage EXCEPT ![c] = stage[c]]
    BY DEF TypeInv, TypeOK, StageOK
  <1>7. CASE DumpInitiation(c) \/ NoRibInitiation(c)
    <2>1. /\ UNCHANGED <<peerVars, batch, phase>>
          /\ Sent(c, view[c]) \/ NotSent(c, c)
      BY <1>7 DEF DumpInitiation, NoRibInitiation, DumpSends, bufferVars, dumpVars
    <2>2. PICK s \in {"enumerate", "failed", "take"} : stage' = [stage EXCEPT ![c] = s]
      BY <1>7 DEF DumpInitiation, NoRibInitiation, DumpSends
    <2>3. \A d \in Clients : view'[d].up = view[d].up /\ view'[d].stray = view[d].stray
      BY <1>4, <2>1
    <2>4. s \in DumpStages \ Mid
      BY <1>2
    <2> QED
      BY <1>5, <2>1, <2>2, <2>3, <2>4
  <1>8. CASE DumpEnumerate(c) \/ DumpKeys(c) \/ DumpTruncate(c) \/ DumpAbort(c)
             \/ DumpFailed(c)
    <2>1. /\ UNCHANGED <<peerVars, batch, phase, view>>
          /\ \/ UNCHANGED stage /\ stage[c] = "walk"
             \/ \E s \in {"peer_ups", "walk", "done"} : stage' = [stage EXCEPT ![c] = s]
      BY <1>8 DEF DumpEnumerate, DumpKeys, DumpTruncate, DumpAbort, DumpFailed, bufferVars,
         streamVars
    <2>2. PICK s \in {"peer_ups", "walk", "done"} : stage' = [stage EXCEPT ![c] = s]
      BY <1>6, <2>1
    <2> QED
      BY <1>2, <1>5, <2>1, <2>2
  <1>9. CASE DumpPeerUp(c)
    <2>0. /\ UNCHANGED <<peer_info_cache, batch, phase>> /\ stage[c] = "peer_ups"
          /\ left[c] \subseteq Peers
      BY <1>9 DEF DumpPeerUp, bufferVars, TypeInv, Shape
    <2>1. PICK p \in left[c] :
            \/ /\ Sent(c, SeesPeerUp(view[c], p))
               /\ known_peers' = [known_peers EXCEPT ![c] = @ \cup {p}]
               /\ UNCHANGED stage
            \/ /\ NotSent(c, c)
               /\ stage' = [stage EXCEPT ![c] = "failed"]
               /\ UNCHANGED known_peers
      BY <1>9 DEF DumpPeerUp
    <2>2. CASE /\ Sent(c, SeesPeerUp(view[c], p))
               /\ known_peers' = [known_peers EXCEPT ![c] = @ \cup {p}]
               /\ UNCHANGED stage
      <3> DEFINE v == SeesPeerUp(view[c], p)
      <3>1. v.up = view[c].up \cup {p} /\ v.stray = view[c].stray
        BY <1>0, PeerUpSeen
      <3>2. Sent(c, v)
        BY <2>2
      <3> HIDE DEF v
      <3>3. /\ view'[c] = v
            /\ \A d \in Clients : /\ view[d].up \subseteq view'[d].up
                                  /\ view'[d].stray = view[d].stray
        BY <1>3, <3>1, <3>2
      <3>4. \A d \in Clients : known_peers'[d] \subseteq known_peers[d] \cup view'[d].up
        BY <1>0, <2>2, <3>1, <3>3 DEF PeerOK
      <3>5. stage' = [stage EXCEPT ![c] = "peer_ups"] /\ "peer_ups" \in DumpStages \ Mid
        BY <1>2, <1>6, <2>0, <2>2
      <3> QED
        BY <1>1, <2>0, <3>3, <3>4, <3>5, DumpTaskOrder
    <2>3. CASE /\ NotSent(c, c)
               /\ stage' = [stage EXCEPT ![c] = "failed"]
               /\ UNCHANGED known_peers
      <3>1. UNCHANGED peerVars
        BY <2>0, <2>3 DEF peerVars
      <3> QED
        BY <1>2, <1>4, <1>5, <2>0, <2>3, <3>1
    <2> QED
      BY <2>1, <2>2, <2>3
  <1>10. CASE DumpWalk(c)
    <2>1. UNCHANGED <<peerVars, batch, phase, stage>> /\ stage[c] = "walk"
      BY <1>10 DEF DumpWalk, bufferVars
    <2>2. PICK x \in left[c] : Sent(c, Walked(view[c], x))
      BY <1>10 DEF DumpWalk
    <2> DEFINE v == Walked(view[c], x)
    <2>3. v.stray = view[c].stray /\ view[c].up \subseteq v.up
      BY <1>0 DEF Walked, Views
    <2>4. Sent(c, v)
      BY <2>2
    <2> HIDE DEF v
    <2>5. \A d \in Clients : /\ view[d].up \subseteq view'[d].up
                             /\ view'[d].stray = view[d].stray
      BY <1>3, <2>3, <2>4
    <2>6. stage' = [stage EXCEPT ![c] = "walk"]
      BY <1>6, <2>1
    <2> QED
      BY <1>2, <1>5, <2>1, <2>5, <2>6
  <1>11. CASE DumpEndOfRib(c)
    <2>1. /\ UNCHANGED <<peer_info_cache, batch, phase>>
          /\ known_peers' = [known_peers EXCEPT ![c] = view[c].up]
          /\ Sent(c, view[c]) \/ NotSent(c, c)
      BY <1>11 DEF DumpEndOfRib, DumpSends, bufferVars, dumpVars
    <2>2. PICK s \in {"drain", "failed"} : stage' = [stage EXCEPT ![c] = s]
      BY <1>11 DEF DumpEndOfRib, DumpSends
    <2>3. \A d \in Clients : view'[d].up = view[d].up /\ view'[d].stray = view[d].stray
      BY <1>4, <2>1
    <2>4. \A d \in Clients : known_peers'[d] \subseteq known_peers[d] \cup view'[d].up
      BY <1>0, <2>1, <2>3 DEF PeerOK
    <2>5. s \in DumpStages \ Mid
      BY <1>2
    <2> QED
      BY <1>1, <2>1, <2>2, <2>3, <2>4, <2>5, DumpTaskOrder
  <1>12. CASE DumpDrain(c) \/ NoRibTake(c) \/ NoRibLive(c)
    <2>1. UNCHANGED <<peerVars, view>>
      BY <1>12 DEF DumpDrain, NoRibTake, NoRibLive, streamVars
    <2>2. \A d \in Clients : d # c => batch'[d] = batch[d] /\ phase'[d] = phase[d]
      BY <1>0, <1>12 DEF DumpDrain, NoRibTake, NoRibLive, DumpOK, BufferOK, dumpVars
    <2>3. PICK s \in {"done", "send", "go_live"} :
             /\ stage' = [stage EXCEPT ![c] = s]
             /\ phase'[c] = "Live" => phase[c] = "Live" \/ s = "done"
      BY <1>0, <1>12 DEF DumpDrain, NoRibTake, NoRibLive, BufferOK
    <2>4. s \in DumpStages \ Mid
      BY <1>2
    <2>5. UNCHANGED <<known_peers, peer_info_cache>>
      BY <2>1 DEF peerVars
    <2> QED
      BY <1>1, <2>1, <2>2, <2>3, <2>4, <2>5, DumpTaskOrder
  <1> QED
    BY <1>7, <1>8, <1>9, <1>10, <1>11, <1>12 DEF DumpStep

\* The writer and the release of a client.
LEMMA WriterOrder ==
    ASSUME TypeInv, OrderInv, NEW c \in Clients, WriterStep(c) \/ DropClient(c)
    PROVE  OrderInv'
  <1>1. UNCHANGED <<register, stage, job, cur, batch, phase, peerVars, view>>
    BY DEF WriterStep, WriterWrites, WriterStops, WriterCleanup, DropClient, WriterFrame,
       upstream, taskVars, dumpVars
  <1>2. \A d \in Clients : writer'[d] = "absent" => writer[d] = "absent"
    BY DEF TypeInv, TypeOK, SharedOK, WriterStep, WriterWrites, WriterStops, WriterCleanup,
       DropClient
  <1> QED
    BY <1>1, <1>2, StillOrder DEF OrderInv, Turns

\* The unit's main loop: a new client starts with an empty view.
LEMMA MainOrder ==
    ASSUME TypeInv, OrderInv, Terminate \/ MainStep \/ \E c \in Clients : AcceptClient(c)
    PROVE  OrderInv'
  <1>0. StreamOK /\ SharedOK /\ \A p \in Peers : stage[p] # "idle" => register[p] # "reclaimed"
    BY DEF TypeInv, TypeOK, OrderInv, Turns
  <1>1. MainFrame => UNCHANGED <<register, job, cur, batch, phase, peerVars>>
    BY DEF MainFrame, upstream, taskVars, bufferVars, dumpVars
  <1>2. ASSUME NEW c \in Clients, AcceptClient(c) PROVE OrderInv'
    <2>1. /\ UNCHANGED <<register, job, cur, batch, phase, peerVars, view>>
          /\ writer[c] = "absent" /\ stage' = [stage EXCEPT ![c] = "initiation"]
      BY <1>1, <1>2 DEF AcceptClient, streamVars
    <2>2. writer'[c] = "run" /\ \A d \in Clients : d # c => writer'[d] = writer[d]
      BY <1>0, <1>2 DEF AcceptClient, SharedOK
    <2>3. stage[c] = "absent"
      BY <2>1 DEF OrderInv, Turns
    <2>4. /\ c \in Actors /\ c # StatsEmitter /\ c \notin Peers /\ c \notin Tasks
      BY ActorSets, BmpOutAssumption DEF BmpOutAssumption
    <2>5. "initiation" \notin Mid /\ stage[c] \notin Mid
      BY <2>3 DEF Mid
    <2>6. \A d \in Clients, p \in Peers, S \in SUBSET Mid : At(d, p, S)' <=> At(d, p, S)
      BY <2>1, <2>4, <2>5, AtKept
    <2>7. Turns'
      BY <1>0, <2>1, <2>2, <2>3, <2>4, TurnsKept DEF OrderInv
    <2>8. UNCHANGED <<known_peers, peer_info_cache>>
      BY <2>1 DEF peerVars
    <2>9. Told'
      BY <2>1, <2>6, <2>8, ToldKept DEF OrderInv
    <2> QED
      BY <2>7, <2>9 DEF OrderInv
  <1>3. CASE Terminate \/ Terminated
    <2>1. UNCHANGED <<register, job, cur, batch, phase, peerVars, stage, writer, view>>
      BY <1>1, <1>3 DEF Terminate, Terminated, streamVars
    <2> QED
      BY <1>0, <2>1, StillOrder
  <1>4. ASSUME NEW c \in Clients, TerminateClient(c) PROVE OrderInv'
    <2>1. UNCHANGED <<register, job, cur, batch, phase, peerVars, stage, writer>>
      BY <1>1, <1>4 DEF TerminateClient
    <2>2. Sent(c, view[c]) \/ NotSent(c, c)
      BY <1>4 DEF TerminateClient
    <2>3. \A d \in Clients : view'[d] = view[d]
      BY <1>0, <2>2, SentView, NotSentView
    <2> QED
      BY <1>0, <2>1, <2>3, StillOrder
  <1> QED
    BY <1>2, <1>3, <1>4 DEF MainStep

\* Steps that change nothing.
LEMMA StutterOrder == ASSUME OrderInv, UNCHANGED vars PROVE OrderInv'
  <1>1. UNCHANGED <<register, job, cur, batch, phase, peerVars, stage, writer, view>>
    BY DEF vars, upstream, taskVars, bufferVars, dumpVars, streamVars
  <1> QED
    BY <1>1, StillOrder DEF OrderInv, Turns

-----------------------------------------------------------------------------
\* OrderInv is inductive relative to TypeInv.
LEMMA NextOrder ==
    ASSUME StatsPeers = {}, TypeInv, OrderInv, [Next]_vars PROVE OrderInv'
  <1>1. ASSUME NEW c \in Clients, DumpStep(c) PROVE OrderInv'
    <2>1. c \in Actors
      BY ActorSets
    <2> QED
      BY <1>1, <2>1, SendOrder, DumpOrder
  <1> QED
    BY <1>1, PeersOrder, TaskOrder, WriterOrder, MainOrder, StutterOrder DEF Next

\* Without statistics reports, every Route Monitoring and Peer Down that the dump,
\* the replay or the live tasks send to a collector (send_update_to_client) is
\* about a peer whose Peer Up it was sent before, whatever is garbage collected,
\* whatever overflows and whoever disconnects.
THEOREM PeerUpComesFirst == StatsPeers = {} /\ Spec => []PeerUpFirst
  <1> SUFFICES ASSUME StatsPeers = {} PROVE Spec => []PeerUpFirst
    OBVIOUS
  <1>1. Init => TypeInv /\ OrderInv
    BY InitTypes, InitOrder
  <1>2. (TypeInv /\ OrderInv) /\ [Next]_vars => (TypeInv /\ OrderInv)'
    BY NextTypes, NextOrder
  <1>3. TypeInv /\ OrderInv => PeerUpFirst
    BY DEF OrderInv, Told
  <1> QED
    BY <1>1, <1>2, <1>3, PTL DEF Spec

=============================================================================
