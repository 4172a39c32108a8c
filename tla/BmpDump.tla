------------------------------- MODULE BmpDump -------------------------------
(* netom-bmpdump (tools/bmpdump): the reader of a PCAPNG capture, the TCP   *)
(* streams it reassembles, the BMP messages it cuts them into and the state *)
(* of the monitored peers it decodes them with.                             *)
(*                                                                          *)
(* An exporter opens one TCP connection after another between the same      *)
(* addresses; connection n sends the messages of Exported[n].  A capture    *)
(* holds any of their segments, in any order and any number of times.  An   *)
(* octet is its place <<n, p>> in what connection n sent, so that what was  *)
(* put together can be compared with what was sent.                         *)
EXTENDS Integers, Sequences, FiniteSets, SequencesExt

CONSTANTS
    SeqSpace,        \* 2^32: TCP sequence numbers
    HeaderLen,     \* 6: the octets that tell version, length and type
    Exported,      \* n -> [isn, messages, cuts, first]: where segments may end, and the SYN's
    MaxPending,    \* 8192 chunks of a stream out of order
    MaxStreamBuffer, MaxGlobalBuffer, MaxDirections, MaxPeers,
    Options,       \* [count, wants, forced]: -c, the filters and --add-path
    MaxCaptured, MaxSections, MaxInterfaces      \* bounds of the instance

VARIABLES
    chosen,          \* the member of Options of this run
    opened,        \* the connection whose segments the capture holds now
    captured,      \* packets read
    section, interfaces,         \* Capture
    connections,   \* flow -> Connection
    warned,        \* Diagnostics.count # 0
    matched,       \* matched_messages
    progress,      \* "reading", "stopped" by -c, "done" or why it was given up
    silent         \* a replaced stream lost octets and nobody was told

dumpVars == <<chosen, opened, captured, section, interfaces, connections, warned, matched,
              progress, silent>>

ASSUME BmpDumpAssumption ==
    /\ HeaderLen \in Nat \ {0} /\ SeqSpace \in Nat \ {0}
    /\ \A n \in DOMAIN Exported : \A k \in DOMAIN Exported[n].messages :
           Exported[n].messages[k].size >= HeaderLen

-----------------------------------------------------------------------------
(* What the exporter sent *)

\* Where message k of connection n starts, its octets being counted from 1.
Starts == [n \in DOMAIN Exported |->
              [k \in 1 .. Len(Exported[n].messages) + 1 |->
                  1 + FoldLeft(LAMBDA a, m : a + m.size, 0, SubSeq(Exported[n].messages, 1, k - 1))]]
StartOf(n, k) == Starts[n][k]
Numbers(n) == DOMAIN Exported[n].messages
Sent(n) == 1 .. StartOf(n, Len(Exported[n].messages) + 1) - 1

\* The message that starts at an octet; 0 inside one.
Beginning == [n \in DOMAIN Exported |-> [o \in Sent(n) |->
                 IF \E k \in Numbers(n) : StartOf(n, k) = o
                 THEN CHOOSE k \in Numbers(n) : StartOf(n, k) = o ELSE 0]]
MessageAt(o) == Beginning[o[1]][o[2]]

\* The lengths that a header at octet o declares: one, or none where there is
\* no header.  The body of a message may hold what looks like one (bait).
Headers == [n \in DOMAIN Exported |-> [o \in Sent(n) |->
               {Exported[n].messages[k].size : k \in {j \in Numbers(n) : StartOf(n, j) = o}} \cup
               UNION {{b.size : b \in {c \in Exported[n].messages[k].bait : StartOf(n, k) + c.at = o}} :
                         k \in Numbers(n)}]]
Declared(o) == Headers[o[1]][o[2]]

Consecutive(data) == \A i \in 1 .. Len(data) - 1 :
                         data[i + 1] = <<data[i][1], data[i][2] + 1>>

-----------------------------------------------------------------------------
(* Stream *)

NoSeq == -1

\* delta: the signed distance of two sequence numbers.
Delta(seq, reference) ==
    LET d == (seq - reference) % SeqSpace IN IF d < SeqSpace \div 2 THEN d ELSE d - SeqSpace

NewStream(initial, syn) ==
    [next |-> initial, pending |-> <<>>, buffer |-> <<>>, synchronized |-> initial # NoSeq,
     skipped |-> FALSE, syn |-> syn, frames |-> <<>>, error |-> "none"]

Buffered(s) ==
    Len(s.buffer) + FoldSet(LAMBDA q, a : a + Len(s.pending[q]), 0, DOMAIN s.pending)

WithoutPeer(f, x) == [y \in DOMAIN f \ {x} |-> f[y]]
With(f, x, v) == (x :> v) @@ f

Lesser(a, b) == IF a < b THEN a ELSE b
Dropped(data, n) == SubSeq(data, Lesser(n, Len(data)) + 1, Len(data))

\* One turn of the loop that takes chunks up to the first gap.
TakeOne(s) ==
    LET offset(q) == Delta(q, s.next)
        first == CHOOSE q \in DOMAIN s.pending :
                     \A r \in DOMAIN s.pending : offset(q) <= offset(r)
    IN  IF DOMAIN s.pending = {} \/ offset(first) > 0 THEN s
        ELSE LET chunk == Dropped(s.pending[first], -offset(first))
             IN  [s EXCEPT !.pending = WithoutPeer(s.pending, first),
                           !.buffer = s.buffer \o chunk,
                           !.next = (s.next + Len(chunk)) % SeqSpace]

Taken(s) ==
    LET turn[i \in Nat] == IF i = 0 THEN s ELSE TakeOne(turn[i - 1])
    IN  turn[Cardinality(DOMAIN s.pending)]

\* One turn of the loop that cuts the buffer into messages.
CutOne(s) ==
    LET head == SubSeq(s.buffer, 1, HeaderLen)
        sizes == IF Consecutive(head) THEN Declared(head[1]) ELSE {}
        size == CHOOSE z \in sizes : TRUE
    IN  CASE s.error # "none" \/ Len(s.buffer) < HeaderLen -> s
          [] OTHER -> CASE sizes = {} /\ s.synchronized -> [s EXCEPT !.error = "header"]
                        [] sizes = {} /\ ~s.synchronized ->
                               [s EXCEPT !.buffer = Tail(s.buffer), !.skipped = TRUE]
                        [] sizes # {} /\ size > Len(s.buffer) -> s
                        [] OTHER -> [s EXCEPT !.synchronized = TRUE,
                                              !.frames = Append(s.frames, SubSeq(s.buffer, 1, size)),
                                              !.buffer = Dropped(s.buffer, size)]

Cut(s) ==
    LET turn[i \in Nat] == IF i = 0 THEN s ELSE CutOne(turn[i - 1]) IN turn[Len(s.buffer)]

\* feed: the octets of a segment that were not read yet join those that wait.
Feed(s, seq, payload) ==
    LET next == IF s.next = NoSeq THEN seq ELSE s.next
        offset == Delta(seq, next)
        data == IF offset < 0 THEN Dropped(payload, -offset) ELSE payload
        at == IF offset < 0 THEN next ELSE seq
        old == IF at \in DOMAIN s.pending THEN s.pending[at] ELSE <<>>
        common == Lesser(Len(old), Len(data))
        queued == [s EXCEPT !.next = next, !.pending = With(s.pending, at, data)]
    IN  CASE data = <<>> -> s
          [] data # <<>> /\ SubSeq(old, 1, common) # SubSeq(data, 1, common) ->
                 [s EXCEPT !.error = "conflict"]
          [] data # <<>> /\ SubSeq(old, 1, common) = SubSeq(data, 1, common)
                 /\ Len(old) >= Len(data) -> [s EXCEPT !.next = next]
          [] OTHER -> IF \/ Buffered(queued) > MaxStreamBuffer
                         \/ Cardinality(DOMAIN queued.pending) > MaxPending
                      THEN [s EXCEPT !.error = "limit"]
                      ELSE Cut(Taken(queued))

\* unfinished.
Unfinished(s) == DOMAIN s.pending # {} \/ s.buffer # <<>>

-----------------------------------------------------------------------------
(* BmpDecoder *)

\* The mode of a family in the ADD-PATH capabilities of an OPEN: the last one.
Mode(caps, f) == LET given == SelectSeq(caps, LAMBDA c : c[1] = f)
                 IN  IF given = <<>> THEN {} ELSE Last(given)[2]
CapFamilies(caps) == {caps[i][1] : i \in DOMAIN caps}

Incoming(m) == IF m.loc THEN CapFamilies(m.sent)
               ELSE {f \in CapFamilies(m.received) :
                        "send" \in Mode(m.received, f) /\ "receive" \in Mode(m.sent, f)}
Outgoing(m) == IF m.loc THEN CapFamilies(m.sent)
               ELSE {f \in CapFamilies(m.sent) :
                        "send" \in Mode(m.sent, f) /\ "receive" \in Mode(m.received, f)}

Forced == {"v4", "v6", "evpn"}

\* The families whose NLRI of message m are read with path identifiers.
AddPaths(peers, m) ==
    CASE chosen.forced -> Forced
      [] ~chosen.forced /\ m.peer \in DOMAIN peers ->
             IF m.out THEN peers[m.peer].outgoing ELSE peers[m.peer].incoming
      [] OTHER -> {}

\* decode.  A flaw is met before the state of the peer changes (early), is in
\* one of the OPENs of a Peer Up (open), or is met after it (late).
Decode(peers, m) ==
    LET full == m.type = "up" /\ m.flaw \in {"none", "late"} /\ m.peer \notin DOMAIN peers
                /\ Cardinality(DOMAIN peers) >= MaxPeers
        after == CASE m.flaw = "early" \/ full -> peers
                   [] m.type = "up" /\ m.flaw \in {"none", "late"} /\ ~full ->
                          With(peers, m.peer, [incoming |-> Incoming(m), outgoing |-> Outgoing(m)])
                   [] m.type = "down" \/ m.flaw = "open" -> WithoutPeer(peers, m.peer)
                   [] OTHER -> peers
    IN  [peers |-> after, raw |-> m.flaw \in {"early", "late"} \/ full,
         bad |-> m.flaw # "none" \/ full]

-----------------------------------------------------------------------------
(* run *)

\* matches: a raw error record has no peer.
Matches(m, raw) == /\ m.type \in chosen.wants.types
                   /\ chosen.wants.peer \in {"any"} \cup (IF raw THEN {} ELSE {m.peer})

\* What a header in the middle of a message leads to.
Junk == [type |-> "other", peer |-> "none", out |-> FALSE, loc |-> FALSE, flaw |-> "early"]

Connection(stream) == [stream |-> stream, peers |-> <<>>, run |-> <<>>, octets |-> {}]

\* One message of a frame; nothing once -c is reached.
Show(t, frame) ==
    LET n == frame[1][1]
        k == MessageAt(frame[1])
        m == IF k = 0 THEN Junk ELSE Exported[n].messages[k]
        d == Decode(t.peers, m)
        hit == Matches(m, d.raw)
    IN  IF t.stopped THEN t
        ELSE [peers |-> d.peers, run |-> Append(t.run, [n |-> n, k |-> k, whole |-> Consecutive(frame), paths |-> AddPaths(t.peers, m)]),
              warned |-> t.warned \/ d.bad,
              matched |-> t.matched + IF hit THEN 1 ELSE 0,
              stopped |-> hit /\ chosen.count > 0 /\ t.matched + 1 >= chosen.count]

\* The octets of a segment, and the sequence number of the first.
Octets(p) == [j \in 1 .. p.to - p.from |-> <<p.n, p.from + j>>]
SeqNumber(p) == (Exported[p.n].isn + 1 + p.from) % SeqSpace

Delivered(c) == UNION {{<<c.run[i].n, o>> : o \in StartOf(c.run[i].n, c.run[i].k) ..
                                                  StartOf(c.run[i].n, c.run[i].k + 1) - 1} :
                          i \in {j \in DOMAIN c.run : c.run[j].k # 0}}

GiveUp(why) == /\ progress' = why
               /\ UNCHANGED <<chosen, opened, section, interfaces, connections, warned, matched, silent>>

\* Only the first SYN counts.
FirstOnly(key, p) == p.syn /\ key \notin DOMAIN connections

\* A SYN opens the stream anew, unless it is the one that opened it.
Restarts(key, p) ==
    p.syn /\ (key \in DOMAIN connections => connections[key].stream.syn # Exported[p.n].isn)

\* The connection that a segment belongs to.
ConnectionFor(key, p) ==
    IF Restarts(key, p)
    THEN Connection(NewStream((Exported[p.n].isn + 1) % SeqSpace, Exported[p.n].isn))
    ELSE IF key \in DOMAIN connections THEN connections[key]
    ELSE Connection(NewStream(NoSeq, NoSeq))

Replaces(key, p) == key \in DOMAIN connections /\ Restarts(key, p)
Loses(key, p) == Replaces(key, p) /\ Unfinished(connections[key].stream)

\* The octets that all the streams hold.
BufferedIn(all) == FoldSet(LAMBDA q, a : a + Buffered(all[q].stream), 0, DOMAIN all)

\* The messages of connection c, whose stream is s after the segment.
Shown(key, p, c, s) ==
    FoldLeft(Show, [peers |-> c.peers, run |-> c.run, warned |-> warned \/ Loses(key, p) \/ s.skipped,
                    matched |-> matched, stopped |-> FALSE], s.frames)

\* What the segment leaves behind; c and s are its connection and the stream of
\* it, all the connections with it.
Read(key, p, c, s, all) ==
    IF Cardinality(DOMAIN all) > MaxDirections THEN GiveUp("directions")
    ELSE IF s.error # "none"
    THEN GiveUp(IF s.error = "header" /\ s.syn = NoSeq THEN "midstream" ELSE s.error)
    ELSE IF BufferedIn(all) > MaxGlobalBuffer THEN GiveUp("limit")
    ELSE \E t \in {Shown(key, p, c, s)} :
         /\ connections' = With(all, key,
                [stream |-> [s EXCEPT !.frames = <<>>, !.skipped = FALSE],
                 peers |-> t.peers, run |-> t.run, octets |-> c.octets \cup ToSet(Octets(p))])
         /\ warned' = t.warned
         /\ matched' = t.matched
         /\ progress' = IF t.stopped THEN "stopped" ELSE "reading"
         /\ silent' = (silent \/ (/\ Replaces(key, p) /\ ~Loses(key, p)
                                  /\ connections[key].stream.syn # NoSeq
                                  /\ connections[key].octets # Delivered(connections[key])))
         /\ opened' = p.n
         /\ UNCHANGED <<chosen, section, interfaces>>

\* The packet with segment p, seen on interface i.
Segment(i, p) ==
    \E key \in {<<section, i>>} :
        \E c \in {ConnectionFor(key, p)} :
            \E s \in {Feed([c.stream EXCEPT !.frames = <<>>, !.skipped = FALSE],
                           SeqNumber(p), Octets(p))} :
                Read(key, p, c, s, With(connections, key, [c EXCEPT !.stream = s]))

\* The segments of connection n: any octets between two cuts, a SYN, and a SYN
\* that carries the first octets.
Segments(n) ==
    LET cuts == Exported[n].cuts
    IN  {[n |-> n, syn |-> FALSE, from |-> c[1], to |-> c[2]] :
            c \in {d \in cuts \X cuts : d[1] < d[2]}} \cup
        {[n |-> n, syn |-> TRUE, from |-> 0, to |-> b] : b \in Exported[n].first}

DumpInit ==
    /\ chosen \in Options
    /\ opened = 1 /\ captured = 0
    /\ section = 0 /\ interfaces = 0
    /\ connections = <<>>
    /\ warned = FALSE /\ matched = 0
    /\ progress = "reading" /\ silent = FALSE

\* A section header: what follows may come from another capture.
SectionBlock ==
    /\ progress = "reading" /\ section < MaxSections
    /\ section' = section + 1
    /\ interfaces' = 0
    /\ opened' \in DOMAIN Exported
    /\ UNCHANGED <<chosen, captured, connections, warned, matched, progress, silent>>

InterfaceBlock ==
    /\ progress = "reading" /\ interfaces < MaxInterfaces
    /\ interfaces' = interfaces + 1
    /\ UNCHANGED <<chosen, opened, captured, section, connections, warned, matched, progress, silent>>

\* A block that cannot be read ends the run.
CorruptBlock ==
    /\ progress = "reading"
    /\ captured' = captured
    /\ GiveUp("capture")

\* tcp_segment: the segment in the packet, none in a packet that is not TCP or
\* not on a BMP port, or a diagnostic (an IP fragment, a header cut off).
FromPacket(i) ==
    \/ \E n \in DOMAIN Exported \cap {opened, opened + 1} :
           \E p \in {q \in Segments(n) : n = opened \/ q.syn} : Segment(i, p)
    \/ /\ warned' \in {warned, TRUE}
       /\ UNCHANGED <<chosen, opened, section, interfaces, connections, matched, progress, silent>>

\* A packet block, of an interface that its section described.
PacketBlock ==
    /\ progress = "reading" /\ captured < MaxCaptured
    /\ captured' = captured + 1
    /\ \E i \in 0 .. MaxInterfaces - 1 :
          IF i >= interfaces THEN GiveUp("interface") ELSE FromPacket(i)

\* next_packet returns nothing: every stream with octets left over is reported.
EndOfCapture ==
    /\ progress = "reading"
    /\ progress' = "done"
    /\ warned' = (warned \/ \E key \in DOMAIN connections : Unfinished(connections[key].stream))
    /\ UNCHANGED <<chosen, opened, captured, section, interfaces, connections, matched, silent>>

DumpNext == \/ SectionBlock \/ InterfaceBlock \/ CorruptBlock \/ PacketBlock \/ EndOfCapture

DumpSpec == DumpInit /\ [][DumpNext]_dumpVars

-----------------------------------------------------------------------------

DumpStreams == {connections[key] : key \in DOMAIN connections}
FromSyn(c) == c.stream.syn # NoSeq

\* A stream whose SYN was captured yields exactly the first messages of its
\* connection, each once and in order, however its segments were reordered,
\* repeated, overlapped or lost, and wherever the sequence numbers wrapped
\* (stream.rs feed).
MessagesAsSent ==
    \A c \in DumpStreams : FromSyn(c) =>
        /\ \A j \in DOMAIN c.run : c.run[j].k = j /\ c.run[j].n = c.run[1].n /\ c.run[j].whole
        /\ Delivered(c) \subseteq c.octets

\* Exit code 0 at the end of a capture means that no captured octet of such a
\* stream was left out of a decoded message; a connection that was opened
\* again in between is no exception (cli.rs run, stream.rs unfinished).
NoSilentLoss ==
    progress = "done" /\ ~warned =>
        /\ ~silent
        /\ \A c \in DumpStreams : FromSyn(c) => c.octets = Delivered(c)

\* The last message about a peer before message k that had an effect.
Latest(n, k) ==
    LET ms == Exported[n].messages
        about == {j \in 1 .. k - 1 : ms[j].peer = ms[k].peer /\ ms[j].type \in {"up", "down"}
                                     /\ ms[j].flaw # "early"}
    IN  IF about = {} THEN 0 ELSE CHOOSE j \in about : \A i \in about : i <= j

\* Every route is read with the path identifiers its own connection negotiated:
\* those of the last Peer Up of its peer, none after a Peer Down or a Peer Up
\* with a malformed OPEN, and nothing from an earlier connection of the
\* exporter (protocol.rs BmpDecoder, cli.rs run).
PathsAsNegotiated ==
    \A c \in DumpStreams : FromSyn(c) =>
        \A j \in DOMAIN c.run :
            LET n == c.run[j].n
                m == Exported[n].messages[c.run[j].k]
                k == Latest(n, c.run[j].k)
                up == Exported[n].messages[k]
            IN  c.run[j].k # 0 /\ m.type = "route" =>
                    c.run[j].paths = CASE chosen.forced -> Forced
                                       [] ~chosen.forced /\ (k = 0 \/ (k # 0 /\ (up.type = "down" \/ up.flaw = "open"))) -> {}
                                       [] OTHER -> IF m.out THEN Outgoing(up) ELSE Incoming(up)

\* The octets an exporter repeats are the octets it sent: its retransmissions
\* are never taken for a conflict, and a stream followed from its SYN never
\* loses the message boundary (stream.rs feed, "conflicting TCP
\* retransmission" and "invalid BMP header").
HonestNotRefused == progress \notin {"conflict", "header"}

\* What is printed of a connection is what its exporter sent, read as it was
\* negotiated; the exit code admits what is missing, and an honest exporter
\* is not called a liar (cli.rs run, stream.rs feed, protocol.rs BmpDecoder).
MessagesFaithful == MessagesAsSent /\ NoSilentLoss /\ PathsAsNegotiated /\ HonestNotRefused
=============================================================================
