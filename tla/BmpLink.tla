------------------------------- MODULE BmpLink -------------------------------
(* The connections of bmp-tcp-in: BmpTcpInRunner::run and process_until    *)
(* (src/units/bmp_tcp_in/unit.rs), the outbound transport with its backoff *)
(* (transport.rs), and the framing of the stream that a RouterHandler      *)
(* reads (io.rs, router_handler.rs).  What the messages do is in BmpIn.    *)
EXTENDS Integers, FiniteSets

CONSTANTS
    RawConnections,   \* what a configuration may say: [listen, connect, tls]
    Slots,            \* connections that exist at once
    MaxReloads,       \* bound: reconfigurations that change something
    MaxFailures       \* bound: attempts in a row that come to nothing

ASSUME BmpLinkAssumption == MaxReloads \in Nat /\ MaxFailures \in Nat

VARIABLES
    wanted,     \* self.connection
    ignores,    \* self.ignore_post_policy_routes, read when a connection is prepared
    doing,      \* waiting, connecting, session, stopping, binding, accepting, over
    backoff,    \* Backoff(u64)
    delay,      \* retry_delay in seconds; the wait of bind_with_backoff
    link,       \* slot -> the RouterHandler of a connection
    ending,     \* the gate told the unit to terminate
    reloads,    \* reconfigurations so far
    quick       \* attempts and short sessions in a row

linkVars == <<wanted, ignores, doing, backoff, delay, link, ending, reloads, quick>>

Nobody == "nobody"
NoLink == [how |-> "none", to |-> Nobody, ignore |-> FALSE, state |-> "ended", rx |-> FALSE,
           fsm |-> FALSE, aligned |-> TRUE, dead |-> FALSE, stop |-> FALSE]

\* impl TryFrom<RawConnection>: exactly one of listen and connect, TLS only
\* with connect, and no CA file for a peer that is not verified.
Rejected == <<"rejected">>
ConnectionOf(raw) ==
    IF raw.listen # Nobody /\ raw.connect = Nobody /\ ~raw.tls.on THEN <<"listen", raw.listen>>
    ELSE IF raw.listen = Nobody /\ raw.connect # Nobody /\ raw.endpoint
            /\ ~(raw.tls.on /\ raw.tls.insecure /\ raw.tls.ca) /\ (raw.tls.on => raw.tls.name)
    THEN <<"connect", raw.connect, raw.tls>>
    ELSE Rejected

Connections == {ConnectionOf(r) : r \in RawConnections} \ {Rejected}
Connects(c) == c[1] = "connect"

\* Backoff::next_delay.
NextDelay(b) == IF b = 0 THEN 1 ELSE IF 2 * b > 300 THEN 300 ELSE 2 * b

\* The top of the loop: what a connection starts with.
Begin(c) == IF Connects(c) THEN "connecting" ELSE "binding"
FirstDelay(c) == IF Connects(c) THEN 0 ELSE 1

LinkInit ==
    /\ wanted \in Connections /\ ignores \in BOOLEAN
    /\ doing = Begin(wanted)
    /\ backoff = 0 /\ delay = FirstDelay(wanted) /\ quick = 0
    /\ link = [s \in Slots |-> NoLink]
    /\ ending = FALSE /\ reloads = 0

\* Start over with a connection and no delay.
StartOver(c) ==
    /\ doing' = Begin(c)
    /\ backoff' = 0 /\ quick' = 0
    /\ delay' = FirstDelay(c)

\* Wait for the next attempt.
Retry(b) ==
    /\ backoff' = NextDelay(b) /\ delay' = NextDelay(b) /\ doing' = "waiting"

Current == {s \in Slots : link[s].how = "connect" /\ link[s].state # "ended"}

-----------------------------------------------------------------------------
(* process_until *)

\* The unit looks at its gate.
AtGate == doing \in {"waiting", "connecting", "session", "binding", "accepting"} /\ ending = FALSE

\* The session is dropped and the next attempt starts.
Overlapping(c) ==
    /\ AtGate /\ reloads < MaxReloads
    /\ reloads' = reloads + 1 /\ wanted' = c /\ ignores' \in BOOLEAN
    /\ IF c = wanted THEN UNCHANGED <<doing, backoff, delay, quick, link>>
       ELSE /\ StartOver(c)
            /\ link' = [s \in Slots |-> IF doing = "session" /\ s \in Current
                                        THEN [link[s] EXCEPT !.stop = TRUE] ELSE link[s]]
    /\ UNCHANGED ending

\* Reconfiguring: a connection that stays as it was is kept; otherwise the
\* future that was awaited is dropped, or the session stopped and awaited.
Reconfigure(c) ==
    /\ AtGate /\ reloads < MaxReloads
    /\ reloads' = reloads + 1 /\ wanted' = c /\ ignores' \in BOOLEAN
    /\ IF c = wanted THEN UNCHANGED <<doing, backoff, delay, quick, link>>
       ELSE IF doing = "session"
       THEN /\ doing' = "stopping"
            /\ link' = [s \in Slots |-> IF s \in Current THEN [link[s] EXCEPT !.stop = TRUE] ELSE link[s]]
            /\ UNCHANGED <<backoff, delay, quick>>
       ELSE StartOver(c) /\ UNCHANGED link
    /\ UNCHANGED ending

\* Terminated: a session is stopped and awaited first.
GateTerminated ==
    /\ AtGate
    /\ ending' = TRUE
    /\ IF doing = "session"
       THEN /\ doing' = "stopping"
            /\ link' = [s \in Slots |-> IF s \in Current THEN [link[s] EXCEPT !.stop = TRUE] ELSE link[s]]
       ELSE doing' = "over" /\ UNCHANGED link
    /\ UNCHANGED <<wanted, ignores, backoff, delay, reloads, quick>>

-----------------------------------------------------------------------------
(* BmpTcpInRunner::run *)

RetryElapsed ==
    /\ doing = "waiting" /\ doing' = "connecting"
    /\ UNCHANGED <<wanted, ignores, backoff, delay, link, ending, reloads, quick>>

\* DNS, TCP, the TLS handshake or the 15 seconds for all of them.
ConnectFails ==
    /\ doing = "connecting" /\ quick < MaxFailures
    /\ Retry(backoff) /\ quick' = quick + 1
    /\ UNCHANGED <<wanted, ignores, link, ending, reloads>>

\* prepare_connection: settings of the unit are read now.
NewLink(how) == [how |-> how, to |-> wanted, ignore |-> ignores, state |-> "reading", rx |-> TRUE,
                 fsm |-> TRUE, aligned |-> TRUE, dead |-> FALSE, stop |-> FALSE]

Connected(s) ==
    /\ doing = "connecting" /\ link[s].state = "ended"
    /\ doing' = "session" /\ link' = [link EXCEPT ![s] = NewLink("connect")]
    /\ UNCHANGED <<wanted, ignores, backoff, delay, ending, reloads, quick>>

\* The session ended by itself: after five minutes the backoff starts again.
SessionOver ==
    /\ doing = "session" /\ Current = {} /\ quick < MaxFailures
    /\ \/ Retry(backoff) /\ quick' = quick + 1
       \/ Retry(0) /\ quick' = 1
    /\ UNCHANGED <<wanted, ignores, link, ending, reloads>>

\* session.await after a stop.
Stopped ==
    /\ doing = "stopping" /\ Current = {}
    /\ IF ending THEN doing' = "over" /\ UNCHANGED <<backoff, delay, quick>>
       ELSE StartOver(wanted)
    /\ UNCHANGED <<wanted, ignores, link, ending, reloads>>

BindFails ==
    /\ doing = "binding" /\ delay' = NextDelay(delay)
    /\ UNCHANGED <<wanted, ignores, doing, backoff, link, ending, reloads, quick>>

Bound ==
    /\ doing = "binding" /\ doing' = "accepting"
    /\ UNCHANGED <<wanted, ignores, backoff, delay, link, ending, reloads, quick>>

\* An error of accept binds again.
AcceptFails ==
    /\ doing = "accepting" /\ doing' = "binding" /\ delay' = 1
    /\ UNCHANGED <<wanted, ignores, backoff, link, ending, reloads, quick>>

Accepted(s) ==
    /\ doing = "accepting" /\ link[s].state = "ended"
    /\ link' = [link EXCEPT ![s] = NewLink("accept")]
    /\ UNCHANGED <<wanted, ignores, doing, backoff, delay, ending, reloads, quick>>

-----------------------------------------------------------------------------
(* BmpStream::next and the loop of read_from_router *)

OnLink(s, l) ==
    /\ link' = [link EXCEPT ![s] = l]
    /\ UNCHANGED <<wanted, ignores, doing, backoff, delay, ending, reloads, quick>>

Reading(s) == link[s].state = "reading" /\ link[s].rx

\* is_fatal, for the errors that bmp_read returns.
Fatal(kind) == kind \in {"UnexpectedEof", "InvalidData"}

\* next gives the reader up after a fatal error, and the loop breaks.
AfterError(l, kind) ==
    [l EXCEPT !.rx = ~Fatal(kind), !.state = IF Fatal(kind) THEN "closing" ELSE "reading"]

\* A whole message; process_msg takes the state machine out of its mutex.
ReadMessage(s) ==
    /\ Reading(s) /\ ~link[s].stop /\ ~link[s].dead
    /\ OnLink(s, [link[s] EXCEPT !.state = "message", !.fsm = FALSE])

\* A frame that the parser does not accept; it was read to its end.
ReadRejected(s) ==
    /\ Reading(s) /\ ~link[s].stop /\ ~link[s].dead
    /\ OnLink(s, AfterError(link[s], "Other"))

\* A length out of range: nothing but the header was read.
ReadBadLength(s) ==
    /\ Reading(s) /\ ~link[s].stop /\ ~link[s].dead
    /\ OnLink(s, AfterError([link[s] EXCEPT !.aligned = FALSE], "InvalidData"))

\* Keepalive found the other side gone, between two frames or within one;
\* the socket has nothing more to give.
ReadTimedOut(s) ==
    /\ Reading(s) /\ ~link[s].stop /\ ~link[s].dead
    /\ \E a \in {link[s].aligned, FALSE} :
           OnLink(s, AfterError([link[s] EXCEPT !.aligned = a, !.dead = TRUE], "TimedOut"))

\* The end of the stream, and what CancellableReader returns once stopped.
ReadEof(s) ==
    /\ Reading(s)
    /\ OnLink(s, AfterError(link[s], "UnexpectedEof"))

\* The clone of the gate was terminated: the read is dropped.
ReadAbandoned(s) ==
    /\ Reading(s) /\ ending
    /\ OnLink(s, [link[s] EXCEPT !.rx = FALSE, !.state = "closing"])

\* The state machine goes back, with the state after the message or as it was.
PutBack(l) == [l EXCEPT !.state = "reading", !.fsm = TRUE]

\* process_msg: a post-policy Route Monitoring that the connection leaves out,
\* and a message that the filter rejects or that the state machine processed.
Ignored(s) ==
    /\ link[s].state = "message" /\ link[s].ignore
    /\ OnLink(s, PutBack(link[s]))
Processed(s) ==
    /\ link[s].state = "message"
    /\ OnLink(s, PutBack(link[s]))

\* The rest of read_from_router: peers are withdrawn and the stream ended.
TornDown(s) ==
    /\ link[s].state = "closing"
    /\ OnLink(s, NoLink)

LinkNext ==
    \/ \E c \in Connections : Reconfigure(c)
    \/ GateTerminated
    \/ RetryElapsed \/ ConnectFails \/ SessionOver \/ Stopped
    \/ BindFails \/ Bound \/ AcceptFails
    \/ \E s \in Slots : Connected(s)
    \/ \E s \in Slots : Accepted(s)
    \/ \E s \in Slots : ReadMessage(s)
    \/ \E s \in Slots : ReadRejected(s)
    \/ \E s \in Slots : ReadBadLength(s)
    \/ \E s \in Slots : ReadTimedOut(s)
    \/ \E s \in Slots : ReadEof(s)
    \/ \E s \in Slots : ReadAbandoned(s)
    \/ \E s \in Slots : Ignored(s)
    \/ \E s \in Slots : Processed(s)
    \/ \E s \in Slots : TornDown(s)

LinkSpec == LinkInit /\ [][LinkNext]_linkVars

-----------------------------------------------------------------------------
(* Properties *)

\* "Reconnecting before this completes can overlap peer generations": a
\* session that the unit opened is gone, its peers withdrawn, before the next
\* whatever was reconfigured meanwhile, and before the unit ends.
OneGeneration ==
    /\ Cardinality(Current) <= 1
    /\ doing \notin {"session", "stopping"} => Current = {}
    /\ doing = "session" => \A s \in Current : link[s].to = wanted

\* "a server accepting and immediately closing cannot cause a spin": the n-th
\* attempt or short session in a row for a connection is followed by a pause
\* of 2^(n-1) seconds, and never more than 300.
PausesGrow ==
    doing = "waiting" => delay = IF quick > 9 THEN 300 ELSE 2^(quick - 1)

\* Only whole frames are handed to the state machine: after an error in the
\* middle of one, the loop goes on only where the stream has ended.
FramesWhole == \A s \in Slots : link[s].state = "message" => link[s].aligned

\* "Option is never None": outside process_msg a connection has its state
\* machine, which the teardown unwraps to withdraw the peers.
StateMachineKept == \A s \in Slots : link[s].state \in {"reading", "closing"} => link[s].fsm

\* The loop never calls next without a reader, which would return an error
\* that is not fatal for ever: next and read_from_router agree on which errors
\* end a connection.
ReaderPresent == \A s \in Slots : link[s].state = "reading" => link[s].rx

\* One session at a time, after a pause that grows while sessions fail, read in
\* whole frames, with what its teardown needs
\* (BmpTcpInRunner::run, RouterHandler::read_from_router, process_msg).
SessionKept == OneGeneration /\ PausesGrow /\ FramesWhole /\ StateMachineKept /\ ReaderPresent
=============================================================================
