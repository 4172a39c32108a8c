------------------------------- MODULE CliRun --------------------------------
(* A run of netom-cli over a script (src/bin/netom-cli/main.rs): finding the *)
(* daemon (endpoint.rs), asking it (http.rs, session.rs), reading a body     *)
(* whose framing tells where it ends, passing the output through a filter    *)
(* (pipe.rs), and the exit code (error.rs).                                  *)
(*                                                                           *)
(* A body is a sequence of octets "a", "b", "c" and "n", the end of a line.  *)
(* A line of two octets is a record that parses; a shorter one is not.  The  *)
(* pattern of a filter is "a".                                               *)
EXTENDS Integers, Sequences, FiniteSets, FiniteSetsExt, SequencesExt

CONSTANTS Given,       \* what the command line, environment and files name
          Lines,       \* the lines of a script
          MaxLines,
          Bodies       \* what the daemon answers

VARIABLES given,       \* forgotten once the endpoint is known
          addrs,       \* the endpoint
          stage,       \* "start", "between", "asking", "reading", "done"
          left,        \* lines still to come
          line,        \* the line that runs
          tried,       \* addresses tried for this request
          resp,        \* Response
          incoming,        \* what is still to be read of the connection
          body,        \* what the daemon has framed in the response
          got,         \* what was read of it
          filter,      \* LineFilter
          count,       \* rows of a table dump
          code,        \* the exit code so far
          faults,      \* what went wrong, in any line
          short        \* a line ended well without its whole answer

runVars == <<given, addrs, stage, left, line, tried, resp, incoming, body, got, filter, count, code,
             faults, short>>

-----------------------------------------------------------------------------
(* endpoint.rs *)

\* A listen address as addresses to connect to.
connectable(listen) == CASE listen = "wild6" -> <<"lo6", "lo4">>
                         [] listen = "wild4" -> <<"lo4">>
                         [] OTHER -> <<listen>>

Unusable == <<>>
Endpoint(named) == IF named = "unusable" THEN Unusable ELSE connectable(named)

\* The first file found that sets http_listen, or the documented default.
Implicit(files) ==
    LET usable == SelectSeq(files, LAMBDA f : f \notin {"absent", "unusable"})
    IN  IF usable = <<>> THEN <<"lo4">> ELSE Endpoint(usable[1])

\* resolve.
Resolve(g) ==
    CASE g.url # "none" -> Endpoint(g.url)
      [] g.url = "none" /\ g.env \notin {"none", "empty"} -> Endpoint(g.env)
      [] g.url = "none" /\ g.env \in {"none", "empty"} /\ g.config # "absent" -> Endpoint(g.config)
      [] OTHER -> Implicit(g.files)

-----------------------------------------------------------------------------
(* http.rs: reading a response *)

Item(t, c, k) == [t |-> t, c |-> c, k |-> k]
SizeLine(k) == Item("head", "", k)
Crlf == Item("crlf", "", 0)
Byte(c) == Item("octet", c, 0)
EndOf(how) == Item(how, "", 0)         \* "eof" or "error"

Chunk(s) == IF s = <<>> THEN <<>>
            ELSE <<SizeLine(Len(s))>> \o [i \in DOMAIN s |-> Byte(s[i])] \o <<Crlf>>

\* What the daemon puts on the connection.
Framed(framing, b, split) ==
    IF framing = "Length" THEN [i \in DOMAIN b |-> Byte(b[i])]
    ELSE Chunk(SubSeq(b, 1, split)) \o Chunk(SubSeq(b, split + 1, Len(b))) \o <<SizeLine(0)>>

NoResponse == [framing |-> "none", remaining |-> 0, seen |-> FALSE, done |-> TRUE,
               truncated |-> FALSE, failed |-> FALSE]
NewResponse(framing, b) ==
    [framing |-> framing, remaining |-> IF framing = "Length" THEN Len(b) ELSE 0,
     seen |-> FALSE, done |-> FALSE, truncated |-> FALSE, failed |-> FALSE]

\* One call of read: the response after it, what is left to read, and the
\* octets it returned.
Result(r, w, octets) == [resp |-> r, wire |-> w, octets |-> octets]
Ended(r, w) == IF w[1].t = "error" THEN Result([r EXCEPT !.failed = TRUE], w, <<>>)
               ELSE Result([r EXCEPT !.done = TRUE, !.truncated = TRUE], w, <<>>)
Complete(r, w) == Result([r EXCEPT !.done = TRUE], w, <<>>)

ReadOctets(r, w, n) ==
    LET ready == Cardinality({i \in DOMAIN w : \A j \in 1 .. i : w[j].t = "octet"})
        k == Min({n, r.remaining, ready})
    IN  IF k = 0 THEN Ended(r, w)
        ELSE Result([r EXCEPT !.remaining = @ - k], SubSeq(w, k + 1, Len(w)),
                    [i \in 1 .. k |-> w[i].c])

\* The end of the connection taken for the end of the body.
ReadChunkedToEof(r, w, n) ==
    LET v == IF r.remaining = 0 /\ r.seen /\ w[1].t = "crlf" THEN Tail(w) ELSE w
    IN  IF r.remaining > 0 THEN ReadOctets(r, v, n)
        ELSE IF v[1].t = "eof" THEN Complete(r, v)
        ELSE IF v[1].t = "error" THEN Ended(r, v)
        ELSE IF v[1].k = 0 THEN Complete(r, Tail(v))
        ELSE ReadOctets([r EXCEPT !.remaining = v[1].k, !.seen = TRUE], Tail(v), n)

\* read_chunked: the line behind the last chunk, the next header, and octets
\* of that chunk.
ReadChunked(r, w, n) ==
    LET v == IF r.remaining = 0 /\ r.seen /\ w[1].t = "crlf" THEN Tail(w) ELSE w
    IN  IF r.remaining > 0 THEN ReadOctets(r, v, n)
        ELSE IF v[1].t \in {"eof", "error"} THEN Ended(r, v)
        ELSE IF v[1].k = 0 THEN Complete(r, Tail(v))
        ELSE ReadOctets([r EXCEPT !.remaining = v[1].k, !.seen = TRUE], Tail(v), n)

\* Read::read.
ReadCall(r, w, n) ==
    CASE r.framing = "Chunked" -> ReadChunked(r, w, n)
      [] r.framing = "Length" /\ r.remaining = 0 -> Complete(r, w)
      [] r.framing = "Length" /\ r.remaining > 0 -> ReadOctets(r, w, n)

-----------------------------------------------------------------------------
(* pipe.rs *)

NoFilter == [op |-> "none", buf |-> <<>>, begun |-> FALSE, total |-> 0, printed |-> <<>>]
NewFilter(op) == [NoFilter EXCEPT !.op = op]

Hit(text) == "a" \in ToSet(text)

\* emit_line and keep.
EmitLine(f, text) ==
    LET g == [f EXCEPT !.begun = @ \/ (f.op = "begin" /\ Hit(text)),
                       !.total = @ + IF f.op = "count" THEN 1 ELSE 0]
        keep == CASE f.op = "include" -> Hit(text)
                  [] f.op = "exclude" -> ~Hit(text)
                  [] f.op = "begin" -> g.begun
                  [] f.op = "count" -> FALSE
                  [] OTHER -> TRUE
    IN  IF keep THEN [g EXCEPT !.printed = Append(@, text)] ELSE g

FilterOctet(f, c) == IF c = "n" THEN EmitLine([f EXCEPT !.buf = <<>>], f.buf)
                                ELSE [f EXCEPT !.buf = Append(@, c)]

\* finish: the line that has no end.
FilterFinish(f) == IF f.buf = <<>> THEN f ELSE EmitLine([f EXCEPT !.buf = <<>>], f.buf)

\* write: what comes behind the last newline waits.
FilterWrite(f, octets) ==
    LET after[i \in 0 .. Len(octets)] == IF i = 0 THEN f ELSE FilterOctet(after[i - 1], octets[i])
    IN  after[Len(octets)]

-----------------------------------------------------------------------------
(* main.rs: run, run_lines and execute *)

NoLine == [kind |-> "blank", mode |-> "none", op |-> "none", requests |-> 0]
EXIT_USAGE == 1
EXIT_TRANSPORT == 2
EXIT_API == 3

Forgotten == [url |-> "none", env |-> "none", config |-> "absent", files |-> <<>>]

RunInit ==
    /\ given \in Given
    /\ addrs = <<>> /\ stage = "start" /\ left = MaxLines /\ line = NoLine /\ tried = 0
    /\ resp = NoResponse /\ incoming = <<>> /\ body = <<>> /\ got = <<>>
    /\ filter = NoFilter /\ count = 0 /\ code = 0 /\ faults = {} /\ short = FALSE

reading == <<resp, incoming, body, got, filter, count>>

FindDaemon ==
    /\ stage = "start"
    /\ addrs' = Resolve(given)
    /\ IF Resolve(given) = Unusable
       THEN stage' = "done" /\ code' = EXIT_USAGE /\ faults' = {EXIT_USAGE}
       ELSE stage' = "between" /\ UNCHANGED <<code, faults>>
    /\ UNCHANGED <<given, left, line, tried, short>> /\ UNCHANGED reading

\* An error is printed and sets the code; no success takes it back.
Failed(e) == code' = e /\ faults' = faults \cup {e}

\* The next line of the script.  A comment or a blank is passed over, a line
\* that does not parse is reported, and one that asks nothing is over at once.
NextLine ==
    /\ stage = "between" /\ left > 0
    /\ given' = Forgotten
    /\ left' = left - 1
    /\ \E l \in Lines :
         /\ line' = l
         /\ stage' = CASE l.kind = "exit" -> "done"
                       [] l.kind = "run" -> "asking"
                       [] OTHER -> "between"
         /\ IF l.kind = "bad" THEN Failed(EXIT_USAGE) ELSE UNCHANGED <<code, faults>>
         /\ filter' = NewFilter(l.op)
    /\ tried' = 0 /\ count' = 0 /\ resp' = NoResponse /\ incoming' = <<>> /\ body' = <<>> /\ got' = <<>>
    /\ UNCHANGED <<addrs, short>>

EndOfScript ==
    /\ stage = "between" /\ left = 0
    /\ stage' = "done"
    /\ UNCHANGED <<given, addrs, left, line, tried, code, faults, short>> /\ UNCHANGED reading

\* Client::get: an address that does not give a response leaves the next one
\* to be tried.
NotReached ==
    /\ stage = "asking"
    /\ tried' = tried + 1
    /\ IF tried' = Len(addrs) THEN stage' = "between" /\ Failed(EXIT_TRANSPORT)
                              ELSE UNCHANGED <<stage, code, faults>>
    /\ UNCHANGED <<given, addrs, left, line, short>> /\ UNCHANGED reading

\* Session::get: a status outside 200 to 299.
ApiRefuses ==
    /\ stage = "asking"
    /\ stage' = "between"
    /\ Failed(EXIT_API)
    /\ UNCHANGED <<given, addrs, left, line, tried, short>> /\ UNCHANGED reading

\* The daemon answers; the connection may end anywhere in the body.
Answered ==
    /\ stage = "asking"
    /\ stage' = "reading"
    /\ \E b \in Bodies, framing \in {"Chunked", "Length"} :
         \E split \in IF framing = "Chunked" THEN 0 .. Len(b) ELSE {0} :
           LET w == Framed(framing, b, split)
           IN  \E cut \in 0 .. Len(w), how \in {"eof", "error"} :
                 /\ body' = b
                 /\ incoming' = Append(SubSeq(w, 1, cut), EndOf(how))
                 /\ resp' = NewResponse(framing, b)
    /\ got' = <<>> /\ count' = 0
    /\ UNCHANGED <<given, addrs, left, line, tried, filter, code, faults, short>>

\* The lines of what was read, with the one that has no end.
LinesOf(octets) ==
    LET f == FilterFinish(FilterWrite(NoFilter, octets)) IN f.printed
Records(octets) == Len(SelectSeq(LinesOf(octets), LAMBDA l : Len(l) = 2))

\* A piece is read, and passed on by a command that prints as it reads.
ReadPiece ==
    /\ stage = "reading" /\ ~resp.done /\ ~resp.failed
    /\ \E n \in {1, 100} :
         LET c == ReadCall(resp, incoming, n)
         IN  /\ resp' = c.resp
             /\ incoming' = c.wire
             /\ got' = got \o c.octets
             /\ filter' = IF line.mode = "json" THEN FilterWrite(filter, c.octets) ELSE filter
    /\ UNCHANGED <<given, addrs, stage, left, line, tried, body, count, code, faults, short>>

\* A command ends well: it may have one more request to make.
EndedWell ==
    /\ IF line.requests > 1 THEN stage' = "asking" /\ line' = [line EXCEPT !.requests = @ - 1]
                            ELSE stage' = "between" /\ UNCHANGED line
    /\ short' = (short \/ got # body)
    /\ tried' = 0
    /\ UNCHANGED <<code, faults>>

EndedBadly == stage' = "between" /\ Failed(EXIT_TRANSPORT) /\ UNCHANGED <<line, tried, short>>

\* passthrough, stream_table and body_string with the parser behind it, which
\* a body cut short does not pass.
BodyRead ==
    /\ stage = "reading" /\ (resp.done \/ resp.failed)
    /\ filter' = IF resp.failed THEN filter ELSE FilterFinish(filter)
    /\ count' = IF line.mode = "stream" THEN Records(got) ELSE 0
    /\ LET bad == CASE line.mode = "buffered" -> resp.failed \/ got # body
                    [] OTHER -> resp.failed \/ resp.truncated
       IN  IF bad THEN EndedBadly ELSE EndedWell
    /\ UNCHANGED <<given, addrs, left, resp, incoming, body, got>>

\* The reader of standard output has gone: the command ends, without a word.
OutputClosed ==
    /\ stage = "reading" /\ got # <<>>
    /\ line.mode = "buffered" => resp.done /\ got = body
    /\ stage' = "between"
    /\ resp' = [resp EXCEPT !.failed = TRUE]
    /\ UNCHANGED <<given, addrs, left, line, tried, incoming, body, got, filter, count, code, faults,
                   short>>

RunNext == FindDaemon \/ NextLine \/ EndOfScript \/ NotReached \/ ApiRefuses \/ Answered
           \/ ReadPiece \/ BodyRead \/ OutputClosed

RunSpec == RunInit /\ [][RunNext]_runVars

-----------------------------------------------------------------------------
(* Properties *)

\* error.rs:5 and http.rs:9: the exit code lets a script tell.  Zero means
\* that no line was refused, went unanswered or was answered in part, and
\* that every dump counted all the records the daemon framed; another code is
\* that of a line that failed.
ExitTells ==
    /\ (code = 0) = (faults = {})
    /\ code # 0 => code \in faults
    /\ ~short
    /\ stage = "between" /\ line.mode = "stream" /\ resp.done /\ ~resp.failed /\ ~resp.truncated =>
         count = Records(body)

Reference(op, ls) ==
    LET hits == {i \in DOMAIN ls : Hit(ls[i])}
    IN  CASE op = "include" -> SelectSeq(ls, Hit)
          [] op = "exclude" -> SelectSeq(ls, LAMBDA l : ~Hit(l))
          [] op = "begin" -> IF hits = {} THEN <<>> ELSE SubSeq(ls, Min(hits), Len(ls))
          [] op = "count" -> <<>>
          [] OTHER -> ls

\* pipe.rs:3 and its test "across arbitrary write boundaries": an output
\* filter under --json shows of a body what it would show of the whole text
\* at once, however the body was split into chunks and reads, and loses no
\* last line.
FilteredAsWhole ==
    stage = "between" /\ line.mode = "json" /\ resp.done /\ ~resp.failed =>
        /\ filter.printed = Reference(line.op, LinesOf(got))
        /\ line.op = "count" => filter.total = Len(LinesOf(got))

\* endpoint.rs:40 ("an error, not something to silently fall back from"): a
\* daemon named on the command line or in the environment is the only one
\* asked; if the name is of no use nothing is asked and the exit code says so.
NoSilentFallback ==
    stage # "start" =>
        LET named == SelectSeq(<<given.url, given.env, given.config>>,
                               LAMBDA s : s \notin {"none", "empty", "absent"})
        IN  named # <<>> =>
              IF named[1] = "unusable" THEN stage = "done" /\ code = EXIT_USAGE
              ELSE addrs # <<>> /\ \A i \in DOMAIN addrs : addrs[i] \in ToSet(connectable(named[1]))

\* A script can rely on what it reads and on the exit code: both are about
\* the daemon it named and say whether the answer was whole (endpoint.rs,
\* http.rs, pipe.rs).
OutputHonest == ExitTells /\ FilteredAsWhole /\ NoSilentFallback
=============================================================================
