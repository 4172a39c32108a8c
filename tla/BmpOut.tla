------------------------------- MODULE BmpOut -------------------------------
(***************************************************************************)
(* The bmp-tcp-out unit: how one collector (a client) is brought from an   *)
(* empty view to a mirror of the RIB while the RIB keeps changing.         *)
(*                                                                         *)
(* The actors are tokio tasks:                                             *)
(*   - one session task per upstream peer, which applies each update to    *)
(*     the RIB and then, inside the same call, runs direct_update;         *)
(*   - the per-peer statistics emitter of bgp-tcp-in;                      *)
(*   - per client, a dump task (perform_initial_dump) and a writer task;   *)
(*   - the unit's main task, which accepts clients and terminates them.    *)
(*                                                                         *)
(* A client's bounded channel is a count of queued messages; what those    *)
(* messages will have told the collector is accumulated in view when they  *)
(* are queued (the channel and the socket are first in, first out).        *)
(***************************************************************************)
EXTENDS Integers, Sequences

CONSTANTS
    Peers,              \* monitored BGP peers (ingress ids)
    Prefixes,
    Values,             \* path attributes, as far as they can be told apart
    NoRoute,            \* a prefix the peer does not announce
    Clients,            \* connections of collectors; a reconnect is another one
    StatsEmitter,       \* the bgp-in-peer-stats-emitter task
    None,               \* no job, no client

    MaxBufferEntries,   \* max_client_buffer
    MaxBufferBytes,     \* max_client_buffer_bytes
    LiveQueueDepth,     \* live_queue_depth
    Fastpath,           \* fastpath of this unit
    RawPeers,           \* peers behind a bmp-tcp-in with forward_raw_updates
    StatsPeers,         \* peers of a bgp-tcp-in with synthesize_peer_stats
    GcPeers,            \* peers the RIB's GC may reclaim during the run
    RibMayLack,         \* whether a client may connect before a RIB unit runs
    DumpDeadline,       \* whether a walk may hit DUMP_MAX_DURATION
    MayTerminate,       \* whether the unit may be told to terminate
    MaxMessages         \* bound: messages the peers send in a behaviour

ASSUME BmpOutAssumption ==
    /\ MaxBufferEntries \in Nat /\ MaxBufferBytes \in Nat
    /\ LiveQueueDepth \in Nat \ {0}
    /\ MaxMessages \in Nat
    /\ {Fastpath, RibMayLack, DumpDeadline, MayTerminate} \subseteq BOOLEAN
    /\ RawPeers \subseteq Peers /\ StatsPeers \subseteq Peers
    /\ GcPeers \subseteq Peers
    /\ NoRoute \notin Values
    /\ StatsEmitter \notin Peers
    /\ (Peers \cup {StatsEmitter}) \cap Clients = {}
    /\ None \notin Clients

Routes == Values \cup {NoRoute}

\* payload::Update, as far as this unit distinguishes its variants.
RouteUpdate == [kind : {"raw", "route"}, peer : Peers,
                prefix : Prefixes, route : Routes]

PeerUpdate == [kind : {"withdraw", "reappeared", "stats"}, peer : Peers]

Update == RouteUpdate \cup PeerUpdate

shallow_bytes(u) == IF u.kind = "route" THEN 2 ELSE 1

Tasks == Peers \cup {StatsEmitter}

Actors == Tasks \cup Clients

-----------------------------------------------------------------------------
VARIABLES
    register,           \* ingress register: state of each peer's entry
    rib,                \* route of each peer for each prefix
    raw_covered,        \* peers served from verbatim copies
    clients,            \* keys of the clients map
    stage,              \* where each actor is
    job,                \* update a session task or the emitter is carrying
    todo,               \* clients left in the task's snapshot
    cur,                \* client the task is at
    phase,              \* ClientPhase; "Locked" while phase.write() is held
    dump_buffer,
    buffered_bytes,
    known_peers,
    peer_info_cache,
    disconnect_pending,
    disconnect_notify,  \* a stored Notify permit
    queued,             \* messages in the client's channel
    writer,             \* writer task
    left,               \* peers, then prefixes, the dump has still to visit
    batch,              \* buffered updates the dump task is replaying
    partial,            \* there was no walk, or it stopped at its deadline
    view,               \* what the collector has been told
    main,               \* accept loop
    term_left,          \* clients still to be told of the termination
    gauge,              \* BMP_OUT_BUFFERED_BYTES
    budget              \* messages the peers may still send

upstream == <<register, rib, budget>>
taskVars == <<job, todo, cur>>
bufferVars == <<phase, dump_buffer, buffered_bytes, gauge>>
peerVars == <<known_peers, peer_info_cache>>
signalVars == <<disconnect_pending, disconnect_notify>>
streamVars == <<queued, view>>
dumpVars == <<left, batch, partial>>
mainVars == <<main, term_left>>
vars == <<upstream, raw_covered, clients, stage, taskVars, bufferVars,
          peerVars, signalVars, streamVars, writer, dumpVars, mainVars>>

EmptyTable == [x \in Prefixes |-> NoRoute]

Init ==
    /\ register = [p \in Peers |-> "new"]
    /\ rib = [p \in Peers |-> EmptyTable]
    /\ raw_covered = {}
    /\ clients = {}
    /\ stage = [a \in Actors |-> IF a \in Tasks THEN "idle" ELSE "absent"]
    /\ job = [t \in Tasks |-> None]
    /\ todo = [t \in Tasks |-> {}]
    /\ cur = [t \in Tasks |-> None]
    /\ phase = [c \in Clients |-> "Dumping"]
    /\ dump_buffer = [c \in Clients |-> <<>>]
    /\ buffered_bytes = [c \in Clients |-> 0]
    /\ gauge = 0
    /\ known_peers = [c \in Clients |-> {}]
    /\ peer_info_cache = [c \in Clients |-> {}]
    /\ disconnect_pending = [c \in Clients |-> FALSE]
    /\ disconnect_notify = [c \in Clients |-> FALSE]
    /\ queued = [c \in Clients |-> 0]
    /\ view = [c \in Clients |->
                 [up |-> {}, routes |-> [p \in Peers |-> EmptyTable],
                  stray |-> {}]]
    /\ writer = [c \in Clients |-> "absent"]
    /\ left = [c \in Clients |-> {}]
    /\ batch = [c \in Clients |-> <<>>]
    /\ partial = [c \in Clients |-> FALSE]
    /\ main = "run"
    /\ term_left = {}
    /\ budget = MaxMessages

-----------------------------------------------------------------------------
(* What a collector concludes from a message: routes belong to peers that   *)
(* are up, a Peer Down takes the peer's routes with it, and a message about *)
(* a peer it was never told is up is recorded in stray.                     *)

SeesPeerUp(v, p) == [v EXCEPT !.up = @ \cup {p}]

SeesPeerDown(v, p) ==
    [v EXCEPT !.up = @ \ {p}, !.routes[p] = EmptyTable,
              !.stray = IF p \in v.up THEN @ ELSE @ \cup {p}]

SeesRoute(v, p, x, r) ==
    IF p \in v.up THEN [v EXCEPT !.routes[p][x] = r]
                  ELSE [v EXCEPT !.stray = @ \cup {p}]

SeesStats(v, p) == [v EXCEPT !.stray = IF p \in v.up THEN @ ELSE @ \cup {p}]

-----------------------------------------------------------------------------
(* ClientState: the channel and the disconnect signal. *)

\* Mutant: a closed channel goes unnoticed.
ClosedUnnoticed(c) == FALSE

Closed(c) == writer[c] = "gone"

Full(c) == queued[c] >= LiveQueueDepth

\* Mutant: the flag is set but the writer is not woken.
FlagOnly(c) ==
    /\ disconnect_pending' = [disconnect_pending EXCEPT ![c] = TRUE]
    /\ UNCHANGED disconnect_notify

request_disconnect(c) ==
    /\ disconnect_pending' = [disconnect_pending EXCEPT ![c] = TRUE]
    /\ disconnect_notify' = [disconnect_notify EXCEPT
                               ![c] = @ \/ ~disconnect_pending[c]]

\* send_message_mode returning true: the message is queued.
Sent(c, v) ==
    /\ ~Closed(c) /\ ~Full(c)
    /\ queued' = [queued EXCEPT ![c] = @ + 1]
    /\ view' = [view EXCEPT ![c] = v]
    /\ UNCHANGED signalVars

\* Mutant: a full channel drops the message and keeps the client.
DropsSilently(a, c) ==
    /\ Closed(c) \/ (Full(c) /\ a \notin Clients)
    /\ UNCHANGED <<signalVars, streamVars>>

\* Mutant: the shared pipeline waits for room like the client's own task.
WaitsForRoom(a, c) == Closed(c) /\ UNCHANGED <<signalVars, streamVars>>

\* send_message_mode returning false.  A task of the client itself (blocking)
\* waits for room; the shared pipeline drops the message and the client.
NotSent(a, c) ==
    /\ \/ Closed(c) /\ UNCHANGED signalVars
       \/ ~Closed(c) /\ Full(c) /\ a \notin Clients /\ request_disconnect(c)
    /\ UNCHANGED streamVars

\* Mutant: a Peer Down leaves the peer among the known ones.
ForgetsHeaderOnly(c, p) ==
    /\ peer_info_cache' = [peer_info_cache EXCEPT ![c] = @ \ {p}]
    /\ UNCHANGED known_peers

remove_known_peer(c, p) ==
    /\ known_peers' = [known_peers EXCEPT ![c] = @ \ {p}]
    /\ peer_info_cache' = [peer_info_cache EXCEPT ![c] = @ \ {p}]

register_known_peer_if_absent(c, p) ==
    known_peers' = [known_peers EXCEPT ![c] = @ \cup {p}]

-----------------------------------------------------------------------------
(* The peers, as bmp-tcp-in and bgp-tcp-in turn their messages into updates. *)
(* A task handles one message at a time and awaits the whole pipeline.       *)

Carries(t, u, s) ==
    /\ stage[t] = "idle"
    /\ job' = [job EXCEPT ![t] = u]
    /\ stage' = [stage EXCEPT ![t] = s]
    /\ UNCHANGED <<todo, cur, raw_covered, clients, bufferVars, peerVars,
                   signalVars, streamVars, writer, dumpVars, mainVars>>

Spend == budget > 0 /\ budget' = budget - 1

\* First Peer Up: the peer gets an entry, no update is emitted.
PeerUpNew(p) ==
    /\ Spend
    /\ register[p] = "new" /\ stage[p] = "idle"
    /\ register' = [register EXCEPT ![p] = "connected"]
    /\ UNCHANGED <<rib, raw_covered, clients, stage, taskVars, bufferVars,
                   peerVars, signalVars, streamVars, writer, dumpVars, mainVars>>

\* Peer Up of a peer whose earlier entry is claimed again.
PeerUpAgain(p) ==
    /\ Spend
    /\ register[p] = "disconnected"
    /\ register' = [register EXCEPT ![p] = "connected"]
    /\ Carries(p, [kind |-> "reappeared", peer |-> p], "rib")
    /\ UNCHANGED rib

\* The entry is marked before the withdrawal is sent down the pipeline.
PeerDown(p) ==
    /\ Spend
    /\ register[p] = "connected"
    /\ register' = [register EXCEPT ![p] = "disconnected"]
    /\ Carries(p, [kind |-> "withdraw", peer |-> p], "rib")
    /\ UNCHANGED rib

\* A Route Monitoring (or UPDATE) message; its verbatim copy goes first.
RouteMonitoring(p, x, r) ==
    /\ Spend
    /\ register[p] = "connected"
    /\ LET kind == IF p \in RawPeers THEN "raw" ELSE "route" IN
       Carries(p, [kind |-> kind, peer |-> p, prefix |-> x, route |-> r],
               IF kind = "raw" THEN "direct_update" ELSE "rib")
    /\ UNCHANGED <<register, rib>>

\* The emitter picks a connected peer and awaits the gate afterwards.
EmitStats(p) ==
    /\ Spend
    /\ p \in StatsPeers /\ register[p] = "connected"
    /\ Carries(StatsEmitter, [kind |-> "stats", peer |-> p], "direct_update")
    /\ UNCHANGED <<register, rib>>

\* The RIB applies the update, and only then hands it to its gate.
RibUpdate(p) ==
    /\ stage[p] = "rib"
    /\ rib' = IF job[p].kind = "route"
                THEN [rib EXCEPT ![p][job[p].prefix] = job[p].route]
                ELSE [rib EXCEPT ![p] = EmptyTable]
    /\ register' = IF job[p].kind = "reappeared"
                     THEN [register EXCEPT ![p] = "connected"] ELSE register
    /\ stage' = [stage EXCEPT ![p] = "direct_update"]
    /\ UNCHANGED <<budget, raw_covered, clients, taskVars, bufferVars, peerVars,
                   signalVars, streamVars, writer, dumpVars, mainVars>>

\* GC of a peer found Disconnected by two sweeps.
GcDisconnected(p) ==
    /\ p \in GcPeers
    /\ register[p] = "disconnected" /\ stage[p] = "idle"
    /\ register' = [register EXCEPT ![p] = "reclaimed"]
    /\ rib' = [rib EXCEPT ![p] = EmptyTable]
    /\ UNCHANGED <<budget, raw_covered, clients, stage, taskVars, bufferVars,
                   peerVars, signalVars, streamVars, writer, dumpVars, mainVars>>

-----------------------------------------------------------------------------
(* BmpTcpOutRunner::direct_update, on the task that carries the update. *)

\* A writer waiting for clients.write() holds up new readers (the lock is fair).
ReadersWait == main = "terminating" /\ \E c \in Clients : writer[c] = "cleanup"

\* Whether the update is this unit's to send, given the coverage by raw copies.
Skipped(u) ==
    \/ u.kind = "raw" /\ ~Fastpath
    \/ u.kind = "route" /\ Fastpath /\ u.peer \in raw_covered

DirectUpdate(t) ==
    /\ stage[t] = "direct_update"
    /\ ~ReadersWait
    /\ LET u == job[t] IN
       /\ raw_covered' = CASE u.kind = "raw" /\ Fastpath -> raw_covered \cup {u.peer}
                           [] u.kind = "withdraw" -> raw_covered \ {u.peer}
                           [] OTHER -> raw_covered
       /\ todo' = [todo EXCEPT ![t] = IF Skipped(u) THEN {} ELSE clients]
    /\ stage' = [stage EXCEPT ![t] = "each"]
    /\ UNCHANGED <<upstream, clients, job, cur, bufferVars, peerVars, signalVars,
                   streamVars, writer, dumpVars, mainVars>>

\* Next client of the snapshot; one flagged for disconnect is passed over.
EachClient(t, c) ==
    /\ stage[t] = "each" /\ c \in todo[t]
    /\ todo' = [todo EXCEPT ![t] = @ \ {c}]
    /\ IF disconnect_pending[c]
         THEN UNCHANGED <<stage, cur>>
         ELSE /\ cur' = [cur EXCEPT ![t] = c]
              /\ stage' = [stage EXCEPT ![t] = "buffer"]
    /\ UNCHANGED <<upstream, raw_covered, clients, job, bufferVars, peerVars,
                   signalVars, streamVars, writer, dumpVars, mainVars>>

\* buffer_update_if_dumping, under phase.read() and the buffer's lock.
Overflows(c, u) ==
    \/ Len(dump_buffer[c]) >= MaxBufferEntries
    \/ buffered_bytes[c] + shallow_bytes(u) > MaxBufferBytes

BufferUpdate(t) ==
    LET c == cur[t]
        u == job[t]
    IN
    /\ stage[t] = "buffer"
    /\ phase[c] = "Dumping"
    /\ cur' = [cur EXCEPT ![t] = None]
    /\ stage' = [stage EXCEPT ![t] = "each"]
    /\ IF Overflows(c, u)
         THEN /\ request_disconnect(c)
              /\ UNCHANGED <<dump_buffer, buffered_bytes, gauge>>
         ELSE /\ dump_buffer' = [dump_buffer EXCEPT ![c] = Append(@, u)]
              /\ buffered_bytes' = [buffered_bytes EXCEPT ![c] = @ + shallow_bytes(u)]
              /\ gauge' = gauge + shallow_bytes(u)
              /\ UNCHANGED signalVars
    /\ UNCHANGED <<upstream, raw_covered, clients, job, todo, phase, peerVars,
                   streamVars, writer, dumpVars, mainVars>>

NotDumping(t) ==
    /\ stage[t] = "buffer"
    /\ phase[cur[t]] = "Live"
    /\ stage' = [stage EXCEPT ![t] = "send"]
    /\ UNCHANGED <<upstream, raw_covered, clients, taskVars, bufferVars, peerVars,
                   signalVars, streamVars, writer, dumpVars, mainVars>>

\* All clients served.  The parsed form follows its verbatim copy.
UpdateDone(t) ==
    /\ stage[t] = "each" /\ todo[t] = {}
    /\ IF job[t].kind = "raw"
         THEN /\ job' = [job EXCEPT ![t].kind = "route"]
              /\ stage' = [stage EXCEPT ![t] = "rib"]
         ELSE /\ job' = [job EXCEPT ![t] = None]
              /\ stage' = [stage EXCEPT ![t] = "idle"]
    /\ UNCHANGED <<upstream, raw_covered, clients, todo, cur, bufferVars, peerVars,
                   signalVars, streamVars, writer, dumpVars, mainVars>>

-----------------------------------------------------------------------------
(* send_update_to_client, run by a session task on a Live client or by the  *)
(* client's own dump task on the updates it buffered.                       *)

Target(a) == IF a \in Clients THEN a ELSE cur[a]

Job(a) == IF a \in Clients THEN Head(batch[a]) ELSE job[a]

\* Back to the caller: the loop over clients, or over the buffered updates.
Return(a, ok) ==
    IF a \in Clients
      THEN /\ batch' = [batch EXCEPT ![a] = IF ok THEN Tail(@) ELSE <<>>]
           /\ stage' = [stage EXCEPT ![a] = IF ok /\ Len(batch[a]) > 1 THEN "send"
                                            ELSE IF phase[a] = "Locked" THEN "go_live"
                                            ELSE IF ok THEN "drain" ELSE "failed"]
           /\ UNCHANGED cur
      ELSE /\ cur' = [cur EXCEPT ![a] = None]
           /\ stage' = [stage EXCEPT ![a] = "each"]
           /\ UNCHANGED batch

Continue(a, s) ==
    /\ stage' = [stage EXCEPT ![a] = s]
    /\ UNCHANGED <<batch, cur>>

SendFrame == UNCHANGED <<upstream, raw_covered, clients, job, todo, bufferVars,
                         writer, left, partial, mainVars>>

\* A route of a peer whose header is cached needs no lookups.
SendCached(a) ==
    LET c == Target(a)
        u == Job(a)
    IN
    /\ stage[a] = "send"
    /\ u.kind \in {"route", "raw"} /\ u.peer \in peer_info_cache[c]
    /\ \/ Sent(c, SeesRoute(view[c], u.peer, u.prefix, u.route)) /\ Return(a, TRUE)
       \/ NotSent(a, c) /\ Return(a, FALSE)
    /\ UNCHANGED peerVars
    /\ SendFrame

\* resolve_emit_target found neither a memo nor an entry: reconnect.  The memo
\* may outlive the entry, and a reappeared peer without an entry is no news.
SendExpired(a) ==
    LET c == Target(a)
        u == Job(a)
    IN
    /\ stage[a] = "send"
    /\ u.kind \in {"route", "reappeared"} /\ register[u.peer] = "reclaimed"
    /\ u.peer \notin peer_info_cache[c]
    /\ \/ request_disconnect(c) /\ Return(a, FALSE)
       \/ /\ u.kind = "reappeared"
          /\ Return(a, TRUE)
          /\ UNCHANGED signalVars
    /\ UNCHANGED <<peerVars, streamVars>>
    /\ SendFrame

\* First sight of the peer on this client registers it; a Peer Up follows.
SendFirst(a) ==
    LET c == Target(a)
        u == Job(a)
        p == u.peer
    IN
    /\ stage[a] = "send"
    /\ \/ u.kind \in {"route", "reappeared"} /\ register[p] # "reclaimed"
       \/ u.kind \in {"raw", "stats"}
    /\ ~(u.kind \in {"route", "raw"} /\ p \in peer_info_cache[c])
    /\ register_known_peer_if_absent(c, p)
    /\ CASE p \notin known_peers[c] -> Continue(a, "peer_up")
         [] p \in known_peers[c] /\ u.kind = "reappeared" -> Return(a, TRUE)
         [] OTHER -> Continue(a, "body")
    /\ UNCHANGED <<peer_info_cache, signalVars, streamVars>>
    /\ SendFrame

SendPeerUp(a) ==
    LET c == Target(a)
        u == Job(a)
        p == u.peer
        Next1 == IF u.kind = "reappeared" THEN Return(a, TRUE) ELSE Continue(a, "body")
    IN
    /\ stage[a] = "peer_up"
    /\ IF register[p] = "reclaimed"
         THEN Next1 /\ UNCHANGED <<peerVars, streamVars, signalVars>>
         ELSE \/ Sent(c, SeesPeerUp(view[c], p)) /\ Next1 /\ UNCHANGED peerVars
              \/ NotSent(a, c) /\ remove_known_peer(c, p) /\ Return(a, FALSE)
    /\ SendFrame

\* The message proper, under a header looked up now.
SendBody(a) ==
    LET c == Target(a)
        u == Job(a)
        p == u.peer
        v == IF u.kind = "stats" THEN SeesStats(view[c], p)
             ELSE SeesRoute(view[c], p, u.prefix, u.route)
    IN
    /\ stage[a] = "body"
    /\ IF register[p] = "reclaimed"
         THEN /\ IF u.kind = "route"
                   THEN request_disconnect(c) /\ Return(a, FALSE)
                   ELSE UNCHANGED signalVars /\ Return(a, TRUE)
              /\ UNCHANGED <<peerVars, streamVars>>
         ELSE /\ peer_info_cache' = [peer_info_cache EXCEPT ![c] =
                                       IF u.kind = "stats" THEN @ ELSE @ \cup {p}]
              /\ UNCHANGED known_peers
              /\ \/ Sent(c, v) /\ Return(a, TRUE)
                 \/ NotSent(a, c) /\ Return(a, FALSE)
    /\ SendFrame

\* send_peer_down.  Without an entry the header is that of no peer at all.
SendPeerDown(a) ==
    LET c == Target(a)
        u == Job(a)
        p == u.peer
        v == IF register[p] = "reclaimed" THEN view[c] ELSE SeesPeerDown(view[c], p)
    IN
    /\ stage[a] = "send"
    /\ u.kind = "withdraw"
    /\ IF p \notin known_peers[c]
         THEN Return(a, TRUE) /\ UNCHANGED <<streamVars, signalVars>>
         ELSE \/ Sent(c, v) /\ Continue(a, "forget")
              \/ NotSent(a, c) /\ Continue(a, "forget_failed")
    /\ UNCHANGED peerVars
    /\ SendFrame

ForgetPeer(a) ==
    /\ stage[a] \in {"forget", "forget_failed"}
    /\ remove_known_peer(Target(a), Job(a).peer)
    /\ Return(a, stage[a] = "forget")
    /\ UNCHANGED <<signalVars, streamVars>>
    /\ SendFrame

SendStep(a) ==
    \/ SendCached(a) \/ SendExpired(a) \/ SendFirst(a) \/ SendPeerUp(a)
    \/ SendBody(a) \/ SendPeerDown(a) \/ ForgetPeer(a)

-----------------------------------------------------------------------------
(* The client's dump task: perform_initial_dump. *)

DumpFrame == UNCHANGED <<upstream, raw_covered, clients, taskVars, writer, mainVars>>

\* A blocking send from the dump itself; false ends the dump.
DumpSends(c, v, s) ==
    \/ Sent(c, v) /\ stage' = [stage EXCEPT ![c] = s]
    \/ NotSent(c, c) /\ stage' = [stage EXCEPT ![c] = "failed"]

DumpInitiation(c) ==
    /\ stage[c] = "initiation"
    /\ DumpSends(c, view[c], "enumerate")
    /\ UNCHANGED <<bufferVars, peerVars, dumpVars>>
    /\ DumpFrame

\* Only peers whose entry is Connected are announced up front.
DumpEnumerate(c) ==
    /\ stage[c] = "enumerate"
    /\ left' = [left EXCEPT ![c] = {p \in Peers : register[p] = "connected"}]
    /\ stage' = [stage EXCEPT ![c] = "peer_ups"]
    /\ UNCHANGED <<bufferVars, peerVars, signalVars, streamVars, batch, partial>>
    /\ DumpFrame

DumpPeerUp(c) ==
    /\ stage[c] = "peer_ups"
    /\ \E p \in left[c] :
         \/ /\ Sent(c, SeesPeerUp(view[c], p))
            /\ known_peers' = [known_peers EXCEPT ![c] = @ \cup {p}]
            /\ left' = [left EXCEPT ![c] = @ \ {p}]
            /\ UNCHANGED stage
         \/ /\ NotSent(c, c)
            /\ stage' = [stage EXCEPT ![c] = "failed"]
            /\ UNCHANGED <<known_peers, left>>
    /\ UNCHANGED <<bufferVars, peer_info_cache, batch, partial>>
    /\ DumpFrame

\* stream_prefix_records enumerates the keys first; the key of a route that is
\* withdrawn by then may be among them.
DumpKeys(c) ==
    /\ stage[c] = "peer_ups" /\ left[c] = {}
    /\ \E keys \in SUBSET Prefixes :
         /\ \A x \in Prefixes : (\E p \in Peers : rib[p][x] # NoRoute) => x \in keys
         /\ left' = [left EXCEPT ![c] = keys]
    /\ stage' = [stage EXCEPT ![c] = "walk"]
    /\ UNCHANGED <<bufferVars, peerVars, signalVars, streamVars, batch, partial>>
    /\ DumpFrame

\* The records of one prefix, read together.  A peer with a route that was not
\* enumerated is announced on the spot if it has an entry, else left out.
Walked(v, x) ==
    LET found == {p \in Peers : /\ rib[p][x] # NoRoute
                                /\ p \in v.up \/ register[p] # "reclaimed"}
    IN [v EXCEPT !.up = @ \cup found,
                 !.routes = [p \in Peers |-> IF p \in found
                                THEN [@[p] EXCEPT ![x] = rib[p][x]] ELSE @[p]]]

DumpWalk(c) ==
    /\ stage[c] = "walk"
    /\ \E x \in left[c] :
         /\ Sent(c, Walked(view[c], x))
         /\ left' = [left EXCEPT ![c] = @ \ {x}]
    /\ UNCHANGED <<stage, bufferVars, peerVars, batch, partial>>
    /\ DumpFrame

\* The wall-clock backstop ends the walk early, as if it were complete.
DumpTruncate(c) ==
    /\ DumpDeadline
    /\ stage[c] = "walk" /\ left[c] # {}
    /\ left' = [left EXCEPT ![c] = {}]
    /\ partial' = [partial EXCEPT ![c] = TRUE]
    /\ UNCHANGED <<stage, bufferVars, peerVars, signalVars, streamVars, batch>>
    /\ DumpFrame

\* The writer is gone, or the client was seen flagged for disconnect: the
\* buffered updates are released at once.
DumpAbort(c) ==
    /\ stage[c] = "walk"
    /\ Closed(c) \/ disconnect_pending[c]
    /\ request_disconnect(c)
    /\ dump_buffer' = [dump_buffer EXCEPT ![c] = <<>>]
    /\ buffered_bytes' = [buffered_bytes EXCEPT ![c] = 0]
    /\ gauge' = gauge - buffered_bytes[c]
    /\ left' = [left EXCEPT ![c] = {}]
    /\ stage' = [stage EXCEPT ![c] = "done"]
    /\ UNCHANGED <<phase, peerVars, streamVars, batch, partial>>
    /\ DumpFrame

\* Mutant: peers the walk found are not made known.
EndOfRibForgetsFound(c) ==
    /\ stage[c] = "walk" /\ left[c] = {}
    /\ DumpSends(c, view[c], "drain")
    /\ UNCHANGED <<bufferVars, peerVars, dumpVars>>
    /\ DumpFrame

\* End-of-RIB markers; peers found by the walk become known peers here.
DumpEndOfRib(c) ==
    /\ stage[c] = "walk" /\ left[c] = {}
    /\ known_peers' = [known_peers EXCEPT ![c] = view[c].up]
    /\ DumpSends(c, view[c], "drain")
    /\ UNCHANGED <<bufferVars, peer_info_cache, dumpVars>>
    /\ DumpFrame

\* Under phase.write(): take what was buffered, or go Live if nothing was.
DumpDrain(c) ==
    /\ stage[c] = "drain"
    /\ batch' = [batch EXCEPT ![c] = dump_buffer[c]]
    /\ dump_buffer' = [dump_buffer EXCEPT ![c] = <<>>]
    /\ buffered_bytes' = [buffered_bytes EXCEPT ![c] = 0]
    /\ gauge' = gauge - buffered_bytes[c]
    /\ IF dump_buffer[c] = <<>>
         THEN /\ phase' = [phase EXCEPT ![c] = "Live"]
              /\ stage' = [stage EXCEPT ![c] = "done"]
         ELSE /\ stage' = [stage EXCEPT ![c] = "send"]
              /\ UNCHANGED phase
    /\ UNCHANGED <<peerVars, signalVars, streamVars, left, partial>>
    /\ DumpFrame

\* A dump that returned false wakes the writer.
DumpFailed(c) ==
    /\ stage[c] = "failed"
    /\ request_disconnect(c)
    /\ left' = [left EXCEPT ![c] = {}]
    /\ stage' = [stage EXCEPT ![c] = "done"]
    /\ UNCHANGED <<bufferVars, peerVars, streamVars, batch, partial>>
    /\ DumpFrame

\* No RIB found: the Initiation (whether it could be sent or not), then the
\* buffered updates with phase.write() held throughout, then Live.
NoRibInitiation(c) ==
    /\ RibMayLack
    /\ stage[c] = "initiation"
    /\ Sent(c, view[c]) \/ NotSent(c, c)
    /\ stage' = [stage EXCEPT ![c] = "take"]
    /\ partial' = [partial EXCEPT ![c] = TRUE]
    /\ UNCHANGED <<bufferVars, peerVars, left, batch>>
    /\ DumpFrame

NoRibTake(c) ==
    /\ stage[c] = "take"
    /\ phase' = [phase EXCEPT ![c] = "Locked"]
    /\ batch' = [batch EXCEPT ![c] = dump_buffer[c]]
    /\ dump_buffer' = [dump_buffer EXCEPT ![c] = <<>>]
    /\ buffered_bytes' = [buffered_bytes EXCEPT ![c] = 0]
    /\ gauge' = gauge - buffered_bytes[c]
    /\ stage' = [stage EXCEPT ![c] = IF dump_buffer[c] = <<>> THEN "go_live"
                                                              ELSE "send"]
    /\ UNCHANGED <<peerVars, signalVars, streamVars, left, partial>>
    /\ DumpFrame

NoRibLive(c) ==
    /\ stage[c] = "go_live"
    /\ phase' = [phase EXCEPT ![c] = "Live"]
    /\ stage' = [stage EXCEPT ![c] = "done"]
    /\ UNCHANGED <<dump_buffer, buffered_bytes, gauge, peerVars, signalVars,
                   streamVars, dumpVars>>
    /\ DumpFrame

DumpStep(c) ==
    \/ NoRibInitiation(c) \/ NoRibTake(c) \/ NoRibLive(c)
    \/ DumpInitiation(c) \/ DumpEnumerate(c) \/ DumpPeerUp(c) \/ DumpKeys(c)
    \/ DumpWalk(c) \/ DumpTruncate(c) \/ DumpAbort(c) \/ DumpEndOfRib(c)
    \/ DumpDrain(c) \/ DumpFailed(c) \/ SendStep(c)

-----------------------------------------------------------------------------
(* The client's writer task, and the end of a ClientState. *)

WriterFrame == UNCHANGED <<upstream, raw_covered, stage, taskVars, phase, peerVars,
                           disconnect_pending, view, dumpVars, mainVars>>

WriterWrites(c) ==
    /\ writer[c] = "run"
    /\ ~disconnect_notify[c] /\ queued[c] > 0
    /\ queued' = [queued EXCEPT ![c] = @ - 1]
    /\ UNCHANGED <<clients, writer, disconnect_notify, dump_buffer, buffered_bytes,
                   gauge>>
    /\ WriterFrame

\* The signal, or a write that failed or stalled for WRITE_STALL_TIMEOUT.
WriterStops(c) ==
    /\ writer[c] = "run"
    /\ \/ disconnect_notify[c] /\ UNCHANGED queued
       \/ /\ ~disconnect_notify[c] /\ queued[c] > 0
          /\ queued' = [queued EXCEPT ![c] = @ - 1]
    /\ disconnect_notify' = [disconnect_notify EXCEPT ![c] = FALSE]
    /\ writer' = [writer EXCEPT ![c] = "cleanup"]
    /\ UNCHANGED <<clients, dump_buffer, buffered_bytes, gauge>>
    /\ WriterFrame

\* Needs clients.write(); the channel closes only when the task ends.
WriterCleanup(c) ==
    /\ writer[c] = "cleanup"
    /\ main # "terminating"
    /\ clients' = clients \ {c}
    /\ writer' = [writer EXCEPT ![c] = "gone"]
    /\ UNCHANGED <<queued, disconnect_notify, dump_buffer, buffered_bytes, gauge>>
    /\ WriterFrame

\* Mutant: a dropped client takes its buffer along but not its share of the gauge.
DropLeavesGauge(c) ==
    /\ writer[c] = "gone" /\ stage[c] = "done"
    /\ \A t \in Tasks : c \notin todo[t] /\ cur[t] # c
    /\ writer' = [writer EXCEPT ![c] = "dropped"]
    /\ dump_buffer' = [dump_buffer EXCEPT ![c] = <<>>]
    /\ buffered_bytes' = [buffered_bytes EXCEPT ![c] = 0]
    /\ UNCHANGED <<clients, queued, disconnect_notify, gauge>>
    /\ WriterFrame

\* The last Arc<ClientState> is released.
DropClient(c) ==
    /\ writer[c] = "gone" /\ stage[c] = "done"
    /\ \A t \in Tasks : c \notin todo[t] /\ cur[t] # c
    /\ writer' = [writer EXCEPT ![c] = "dropped"]
    /\ dump_buffer' = [dump_buffer EXCEPT ![c] = <<>>]
    /\ buffered_bytes' = [buffered_bytes EXCEPT ![c] = 0]
    /\ gauge' = gauge - buffered_bytes[c]
    /\ UNCHANGED <<clients, queued, disconnect_notify>>
    /\ WriterFrame

WriterStep(c) == WriterWrites(c) \/ WriterStops(c) \/ WriterCleanup(c)

-----------------------------------------------------------------------------
(* BmpTcpOutRunner::run and handle_new_client. *)

MainFrame == UNCHANGED <<upstream, raw_covered, taskVars, bufferVars, peerVars,
                         dumpVars>>

\* The client enters the map before its writer and dump tasks exist.
AcceptClient(c) ==
    /\ main = "run" /\ writer[c] = "absent"
    /\ clients' = clients \cup {c}
    /\ writer' = [writer EXCEPT ![c] = "run"]
    /\ stage' = [stage EXCEPT ![c] = "initiation"]
    /\ UNCHANGED <<mainVars, signalVars, streamVars>>
    /\ MainFrame

\* Err(Terminated): clients.read() is held over the sends that follow.
Terminate ==
    /\ MayTerminate /\ main = "run"
    /\ main' = "terminating"
    /\ term_left' = clients
    /\ UNCHANGED <<clients, writer, stage, signalVars, streamVars>>
    /\ MainFrame

TerminateClient(c) ==
    /\ main = "terminating" /\ c \in term_left
    /\ Sent(c, view[c]) \/ NotSent(c, c)
    /\ term_left' = term_left \ {c}
    /\ UNCHANGED <<main, clients, writer, stage>>
    /\ MainFrame

Terminated ==
    /\ main = "terminating" /\ term_left = {}
    /\ main' = "done"
    /\ UNCHANGED <<term_left, clients, writer, stage, signalVars, streamVars>>
    /\ MainFrame

-----------------------------------------------------------------------------
TaskStep(t) ==
    \/ DirectUpdate(t)
    \/ \E c \in Clients : EachClient(t, c)
    \/ BufferUpdate(t) \/ NotDumping(t) \/ UpdateDone(t) \/ SendStep(t)

MainStep == (\E c \in Clients : TerminateClient(c)) \/ Terminated

PeerMessage(p) ==
    \/ PeerUpNew(p) \/ PeerUpAgain(p) \/ PeerDown(p) \/ EmitStats(p)
    \/ \E x \in Prefixes, r \in Routes : RouteMonitoring(p, x, r)

Next ==
    \/ \E p \in Peers : PeerMessage(p) \/ RibUpdate(p) \/ GcDisconnected(p)
    \/ \E t \in Tasks : TaskStep(t)
    \/ \E c \in Clients : AcceptClient(c) \/ DumpStep(c) \/ WriterStep(c)
                          \/ DropClient(c)
    \/ Terminate \/ MainStep

Spec == Init /\ [][Next]_vars

\* Every task is scheduled again and again.  Nothing obliges a peer to speak or a
\* collector to connect or to read.
FairSpec ==
    /\ Spec
    /\ \A p \in Peers : WF_vars(RibUpdate(p))
    /\ \A t \in Tasks : WF_vars(TaskStep(t))
    /\ \A c \in Clients : WF_vars(DumpStep(c))
    /\ WF_vars(MainStep)

\* Every write of a writer returns, fails or stalls for WRITE_STALL_TIMEOUT.
WritesEnd == \A c \in Clients : WF_vars(WriterStep(c))

-----------------------------------------------------------------------------
(* Properties. *)

SendStages == {"send", "peer_up", "body", "forget", "forget_failed"}

TaskStages == {"idle", "rib", "direct_update", "each", "buffer"} \cup SendStages

DumpStages == {"absent", "initiation", "enumerate", "peer_ups", "walk", "drain", "take",
               "go_live", "failed", "done"} \cup SendStages

Tables == [Peers -> [Prefixes -> Routes]]

Views == [up : SUBSET Peers, routes : Tables, stray : SUBSET Peers]

UpstreamOK ==
    /\ register \in [Peers -> {"new", "connected", "disconnected", "reclaimed"}]
    /\ rib \in Tables
    /\ budget \in Nat

StageOK ==
    /\ stage \in [Actors -> TaskStages \cup DumpStages]
    /\ \A t \in Tasks : stage[t] \in TaskStages
    /\ \A c \in Clients : stage[c] \in DumpStages

TaskOK ==
    /\ job \in [Tasks -> Update \cup {None}]
    /\ todo \in [Tasks -> SUBSET Clients]
    /\ cur \in [Tasks -> Clients \cup {None}]

BufferOK ==
    /\ phase \in [Clients -> {"Dumping", "Locked", "Live"}]
    /\ dump_buffer \in [Clients -> Seq(Update)]
    /\ buffered_bytes \in [Clients -> Nat]
    /\ gauge \in Int

PeerOK ==
    /\ known_peers \in [Clients -> SUBSET Peers]
    /\ peer_info_cache \in [Clients -> SUBSET Peers]

SignalOK ==
    /\ disconnect_pending \in [Clients -> BOOLEAN]
    /\ disconnect_notify \in [Clients -> BOOLEAN]

StreamOK ==
    /\ queued \in [Clients -> 0..LiveQueueDepth]
    /\ view \in [Clients -> Views]

DumpOK ==
    /\ left \in [Clients -> SUBSET (Peers \cup Prefixes)]
    /\ batch \in [Clients -> Seq(Update)]
    /\ partial \in [Clients -> BOOLEAN]

MainOK ==
    /\ main \in {"run", "terminating", "done"}
    /\ term_left \subseteq Clients

SharedOK ==
    /\ raw_covered \subseteq Peers
    /\ clients \subseteq Clients
    /\ writer \in [Clients -> {"absent", "run", "cleanup", "gone", "dropped"}]

\* Types of the unit's state.
TypeOK ==
    /\ UpstreamOK /\ StageOK /\ TaskOK /\ BufferOK /\ PeerOK /\ SignalOK
    /\ StreamOK /\ DumpOK /\ MainOK /\ SharedOK

\* A client that has gone Live and has not been given up on.
Following(c) == c \in clients /\ phase[c] = "Live" /\ ~disconnect_pending[c]
                /\ writer[c] = "run"

\* No update is under way anywhere between a peer and the clients.
Quiet == \A t \in Tasks : stage[t] = "idle"

\* Dump, buffered replay and live updates add up to the RIB: whenever the
\* pipeline is quiet, a collector that follows has been told exactly the routes
\* the RIB holds, whatever happened during its dump (unless the walk hit its
\* deadline).
Synced ==
    \A c \in Clients :
        Following(c) /\ Quiet /\ ~partial[c] => view[c].routes = rib

\* No collector that follows is left believing in a peer that has gone down.
NoZombiePeer ==
    \A c \in Clients :
        Following(c) /\ Quiet =>
            \A p \in view[c].up : register[p] = "connected"

\* Every Route Monitoring, Statistics Report and Peer Down a collector is sent
\* is about a peer whose Peer Up it was sent before.
PeerUpFirst == \A c \in Clients : view[c].stray = {}

\* A client flagged for disconnect leaves the map, even when its channel is full.
FlaggedClientLeaves ==
    WritesEnd => \A c \in Clients :
        (disconnect_pending[c] /\ c \in clients) ~> c \notin clients

\* A dump ends: the client goes Live or is let go.
DumpEnds ==
    WritesEnd => \A c \in Clients : (stage[c] = "initiation") ~> (stage[c] = "done")

\* An update is never parked on a collector, however slow: direct_update comes
\* back even if no client's writer ever gets a byte out.
IngestNeverParks == \A t \in Tasks : (stage[t] # "idle") ~> (stage[t] = "idle")

\* A unit told to terminate returns from run.
Terminates == WritesEnd => (main = "terminating") ~> (main = "done")

=============================================================================
