------------------------------- MODULE Query -------------------------------
(***************************************************************************)
(* Route queries (src/src/units/rib_unit/http_ng.rs and the query half of  *)
(* rib.rs): a query that is answered in one piece, and the dump of the     *)
(* whole RIB that is streamed while the RIB goes on changing.              *)
(*                                                                         *)
(* A dump takes a slot (DumpGuard), lists the keys, then reads the records *)
(* key by key in batches and writes them through a buffer and a bounded    *)
(* channel to the client, who may stall or go away.                        *)
(***************************************************************************)
EXTENDS Integers, Sequences, FiniteSets, Functions

CONSTANTS
    QRegister,     \* mui -> [type, parent, asn]; a mui that is not in its domain is unknown
    QRoutes,       \* the records there can be: [prefix, mui]
    QTables,       \* the tables to start from: sets of QRoutes
    QFilters,      \* [ingress, type, asn, roto, format]: what is asked for, "any" for no filter
    Requests,      \* requests for a dump over HTTP
    MaxDumps,      \* MAX_CONCURRENT_DUMPS
    DumpChunk,     \* DUMP_KEY_CHUNK
    BufferLines,   \* STREAM_CHUNK_SIZE, in lines
    StreamRoom,    \* the chunks that the channel holds
    MaxEdits       \* bound: changes of the table

(* A RIB holds finitely many records, and the sizes are positive constants *)
(* of http_ng.rs.                                                          *)
ASSUME QueryAssumption ==
    /\ IsFiniteSet(Requests) /\ IsFiniteSet(QRoutes) /\ QTables \subseteq SUBSET QRoutes
    /\ MaxDumps \in Nat /\ StreamRoom \in Nat
    /\ DumpChunk \in Nat \ {0} /\ BufferLines \in Nat \ {0}

(* A record is stored for a session of BGP, of a peer of BMP or of an MRT  *)
(* file, or for a path of one of them.                                     *)
ASSUME QRegisterAssumption ==
    \A r \in QRoutes : r.mui \in DOMAIN QRegister =>
        LET entry == QRegister[r.mui]
            sessions == {"bgp", "bgpViaBmp", "mrt"}
        IN \/ entry.type \in sessions
           \/ /\ entry.type = "bgpPath" /\ entry.parent \in DOMAIN QRegister
              /\ QRegister[entry.parent].type \in sessions

VARIABLES
    live,       \* the records that are not withdrawn
    active,     \* ACTIVE_DUMPS
    trusted,    \* dumps of BMP collectors, which enter unconditionally
    req,        \* per request, see Fresh
    edits

queryVars == <<live, active, trusted, req, edits>>

NoRead == -1

Fresh(f) ==
    [pc      |-> "asked",  \* asked, loading, walking, flushing, cutting, ended, cut, failed, refused, bad
     filter  |-> f,
     seen    |-> NoRead,   \* the counter as read by try_enter
     keys    |-> <<>>,     \* keys not yet read
     chunk   |-> 0,        \* keys of the chunk that are still to be read
     batch   |-> <<>>,     \* records that are read and not yet written
     buffer  |-> <<>>,     \* lines not yet sent
     written |-> <<>>,     \* every line written so far
     body    |-> <<>>,     \* every line sent to the client
     waiting |-> 0,        \* chunks that the client has not taken
     gone    |-> FALSE,    \* the client went away
     stable  |-> {}]       \* the records that did not change since the dump began

QueryInit ==
    /\ live \in QTables
    /\ active = 0 /\ trusted = 0 /\ edits = 0
    /\ \E asked \in [Requests -> QFilters] : req = [d \in Requests |-> Fresh(asked[d])]

-----------------------------------------------------------------------------
(* The orders in which a finite set can be listed, and whether one         *)
(* sequence is a beginning of another.                                     *)
Orders(S) == Bijection(1 .. Cardinality(S), S)

OpensWith(s, t) == Len(s) <= Len(t) /\ \A i \in 1 .. Len(s) : s[i] = t[i]

-----------------------------------------------------------------------------
(* Filters.                                                                *)

Infos(muis) == [m \in muis \cap DOMAIN QRegister |-> QRegister[m]]

ClonedInfo == QRegister

ClonedInfoFor(muis) ==
    Infos(muis \cup {QRegister[m].parent : m \in muis \cap DOMAIN QRegister})

SessionType(info, m) ==
    IF info[m].type # "bgpPath" THEN info[m].type
    ELSE IF info[m].parent \in DOMAIN info THEN info[info[m].parent].type
    ELSE "none"

\* Mutant: the type of the mui itself is compared.
OwnType(want, info, m) == info[m].type = want

IngressTypeMatches(want, info, m) ==
    \/ info[m].type = want
    \/ SessionType(info, m) = want
    \/ want = "bmp" /\ SessionType(info, m) = "bgpViaBmp"

(* apply_filter: the filter by type drops a record of an unknown ingress,  *)
(* the one by peer keeps it.  "odd" stands for a function in Roto that     *)
(* refuses the records of one of the prefixes.                             *)
Passes(r, f, info) ==
    /\ f.ingress # "any" => r.mui = f.ingress
    /\ f.type # "any" => r.mui \in DOMAIN info /\ IngressTypeMatches(f.type, info, r.mui)
    /\ f.asn # "any" => (r.mui \in DOMAIN info => info[r.mui].asn = f.asn)
    /\ f.roto = "odd" => r.prefix # "p"

(* search_routes for the default route with its more specifics.            *)
Searched(table, f) ==
    LET found == {r \in table : f.ingress # "any" => r.mui = f.ingress}
    IN {r \in found : Passes(r, f, ClonedInfoFor({x.mui : x \in found}))}

DumpInfo(f) == IF f.ingress # "any" THEN ClonedInfoFor({f.ingress}) ELSE ClonedInfo

Dumped(records, f) == {r \in records : Passes(r, f, DumpInfo(f))}

-----------------------------------------------------------------------------
(* The RIB goes on changing; what changed is not stable for any dump.      *)

Touched(r, recs) == [d \in Requests |-> [recs[d] EXCEPT !.stable = @ \ {r}]]

Edit(r) ==
    /\ edits < MaxEdits
    /\ edits' = edits + 1
    /\ live' = IF r \in live THEN live \ {r} ELSE live \cup {r}
    /\ req' = Touched(r, req)
    /\ UNCHANGED <<active, trusted>>

(* DumpGuard::enter and its drop, by a BMP collector's dump.               *)
CollectorEnters ==
    /\ trusted = 0
    /\ trusted' = 1 /\ active' = active + 1
    /\ UNCHANGED <<live, req, edits>>

CollectorLeaves ==
    /\ trusted = 1
    /\ trusted' = 0 /\ active' = active - 1
    /\ UNCHANGED <<live, req, edits>>

-----------------------------------------------------------------------------
(* A request for a dump.                                                   *)

(* The default route with its more specifics is answered as a stream only. *)
Streams(f) == f.format = "jsonl"

(* check_filter_and_store *)
FilterIsSound(f) == f.roto # "undefined"

Handled(d) ==
    /\ req[d].pc = "asked"
    /\ req' = [req EXCEPT ![d].pc =
                  IF Streams(req[d].filter) /\ FilterIsSound(req[d].filter) THEN "loading" ELSE "bad"]
    /\ UNCHANGED <<live, active, trusted, edits>>

(* try_enter: the load, then the exchange, which fails when the counter    *)
(* changed meanwhile and then yields what it is.                           *)
TryLoad(d) ==
    /\ req[d].pc = "loading" /\ req[d].seen = NoRead
    /\ req' = [req EXCEPT ![d].seen = active]
    /\ UNCHANGED <<live, active, trusted, edits>>

(* The keys are listed in some order when the walk begins.                 *)
Begun(d) ==
    LET keys == {r.prefix : r \in live}
    IN \E order \in Orders(keys) :
           req' = [req EXCEPT ![d].pc = "walking", ![d].keys = order,
                              ![d].chunk = IF Len(order) < DumpChunk THEN Len(order) ELSE DumpChunk,
                              ![d].stable = Dumped(live, req[d].filter)]

\* Mutant: the counter is stored without comparing it.
TryStore(d) ==
    /\ req[d].pc = "loading" /\ req[d].seen # NoRead
    /\ IF req[d].seen >= MaxDumps
       THEN req' = [req EXCEPT ![d].pc = "refused"] /\ UNCHANGED active
       ELSE active' = req[d].seen + 1 /\ Begun(d)
    /\ UNCHANGED <<live, trusted, edits>>

TryEnter(d) ==
    /\ req[d].pc = "loading" /\ req[d].seen # NoRead
    /\ IF req[d].seen >= MaxDumps
       THEN req' = [req EXCEPT ![d].pc = "refused"] /\ UNCHANGED active
       ELSE IF active = req[d].seen
       THEN active' = active + 1 /\ Begun(d)
       ELSE req' = [req EXCEPT ![d].seen = active] /\ UNCHANGED active
    /\ UNCHANGED <<live, trusted, edits>>

(* get_records_for_prefix, for the next key of the chunk. *)
ReadKey(d) ==
    /\ req[d].pc = "walking" /\ req[d].chunk > 0
    /\ \E lines \in Orders(Dumped({r \in live : r.prefix = Head(req[d].keys)}, req[d].filter)) :
           req' = [req EXCEPT ![d].keys = Tail(@), ![d].chunk = @ - 1, ![d].batch = @ \o lines]
    /\ UNCHANGED <<live, active, trusted, edits>>

(* send_buffer: the chunk is taken out of the buffer before it is sent, so *)
(* a send that fails loses it, and the dump with it.                       *)
Sends(q) == [q EXCEPT !.body = @ \o q.buffer, !.buffer = <<>>, !.waiting = @ + 1]

MustSend(q) ==
    \/ Len(q.buffer) >= BufferLines
    \/ q.pc \in {"flushing", "cutting"} /\ q.buffer # <<>>

SendBuffer(d) ==
    /\ MustSend(req[d])
    /\ ~req[d].gone /\ req[d].waiting < StreamRoom
    /\ req' = [req EXCEPT ![d] = Sends(req[d])]
    /\ UNCHANGED <<live, active, trusted, edits>>

\* Mutant: the dump goes on after a send that failed.
KeepsOn(d) ==
    /\ MustSend(req[d])
    /\ req[d].gone \/ req[d].waiting = StreamRoom
    /\ req' = [req EXCEPT ![d].buffer = <<>>]
    /\ UNCHANGED <<live, active, trusted, edits>>

(* The client is gone, or stalls for STREAM_WRITE_STALL.                   *)
SendFails(d) ==
    /\ MustSend(req[d])
    /\ req[d].gone \/ req[d].waiting = StreamRoom
    /\ req' = [req EXCEPT ![d].buffer = <<>>, ![d].pc = "failed", ![d].batch = <<>>]
    /\ active' = active - 1
    /\ UNCHANGED <<live, trusted, edits>>

WriteLine(d) ==
    /\ req[d].pc = "walking" /\ req[d].chunk = 0 /\ req[d].batch # <<>> /\ ~MustSend(req[d])
    /\ req' = [req EXCEPT ![d].batch = Tail(@), ![d].buffer = Append(@, Head(req[d].batch)),
                          ![d].written = Append(@, Head(req[d].batch))]
    /\ UNCHANGED <<live, active, trusted, edits>>

NextChunk(left) == IF left < DumpChunk THEN left ELSE DumpChunk

(* The chunk is written: the next one, or the end, by the deadline too.    *)
ChunkDone(d) ==
    /\ req[d].pc = "walking" /\ req[d].chunk = 0 /\ req[d].batch = <<>> /\ ~MustSend(req[d])
    /\ LET next == NextChunk(Len(req[d].keys))
       IN \/ req' = [req EXCEPT ![d].chunk = next, ![d].pc = IF next = 0 THEN "flushing" ELSE "walking"]
          \/ /\ next # 0
             /\ req' = [req EXCEPT ![d].pc = "cutting"]
    /\ UNCHANGED <<live, active, trusted, edits>>

(* The writer is flushed and the slot released. *)
DumpEnds(d) ==
    /\ req[d].pc \in {"flushing", "cutting"} /\ ~MustSend(req[d])
    /\ req' = [req EXCEPT ![d].pc = IF @ = "flushing" THEN "ended" ELSE "cut"]
    /\ active' = active - 1
    /\ UNCHANGED <<live, trusted, edits>>

ClientTakes(d) ==
    /\ req[d].waiting > 0 /\ ~req[d].gone
    /\ req' = [req EXCEPT ![d].waiting = @ - 1]
    /\ UNCHANGED <<live, active, trusted, edits>>

ClientGone(d) ==
    /\ req[d].pc \in {"walking", "flushing", "cutting"} /\ ~req[d].gone
    /\ req' = [req EXCEPT ![d].gone = TRUE]
    /\ UNCHANGED <<live, active, trusted, edits>>

QueryNext ==
    \/ \E r \in QRoutes : Edit(r)
    \/ CollectorEnters \/ CollectorLeaves
    \/ \E d \in Requests :
           \/ Handled(d) \/ TryLoad(d) \/ TryEnter(d) \/ ReadKey(d) \/ WriteLine(d)
           \/ SendBuffer(d) \/ SendFails(d) \/ ChunkDone(d) \/ DumpEnds(d)
           \/ ClientTakes(d) \/ ClientGone(d)

QuerySpec == QueryInit /\ [][QueryNext]_queryVars

-----------------------------------------------------------------------------
(* Properties.                                                             *)

Dumping == {d \in Requests : req[d].pc \in {"walking", "flushing", "cutting"}}

(* Dumps over HTTP never exceed MAX_CONCURRENT_DUMPS, whatever way their   *)
(* try_enter calls interleave, and the counter is given back on every way  *)
(* out: it is always the number of dumps (DumpGuard).                      *)
DumpSlots ==
    /\ Cardinality(Dumping) <= MaxDumps
    /\ active = Cardinality(Dumping) + trusted

(* A dump that ends by itself holds every record that matched the filter   *)
(* and stayed as it was throughout, once, although it reads the RIB        *)
(* piecemeal (write_jsonl_stream).                                         *)
StableRecordsDumped ==
    \A d \in Requests : req[d].pc = "ended" =>
        \A r \in req[d].stable : Cardinality({i \in DOMAIN req[d].body : req[d].body[i] = r}) = 1

(* What a client receives is the dump from its first line on, without a    *)
(* gap, also when a send failed (StreamResponseWriter).                    *)
BodyIsPrefix == \A d \in Requests : OpensWith(req[d].body, req[d].written)

(* A client gets the whole dump of the records that stay, or a beginning   *)
(* of it (write_jsonl_stream, StreamResponseWriter).                       *)
DumpedWhole == StableRecordsDumped /\ BodyIsPrefix

(* The dump and the search give the same answer to the same filter,        *)
(* although one has a copy of the register and the other only the entries  *)
(* of its records (SearchResult::new, write_jsonl_stream_inner).           *)
AnswersAgree ==
    [table \in SUBSET QRoutes |-> \A f \in QFilters : Searched(table, f) = Dumped(table, f)]
SameAnswer == AnswersAgree[live]

(* The answers by type of the sessions divide the records of known         *)
(* ingresses: no record is in two, and none, of an ADD-PATH peer say, is   *)
(* in no answer (ingress_type_matches).                                    *)
TypesPartition ==
    \A r \in live : r.mui \in DOMAIN QRegister =>
        Cardinality({t \in {"bgp", "bgpViaBmp", "mrt"} : IngressTypeMatches(t, ClonedInfo, r.mui)}) = 1

(* A filter means the same in every answer and its types tell the sessions *)
(* apart (include_record, SearchResult::new, ingress_type_matches).        *)
FiltersAgree == SameAnswer /\ TypesPartition
=============================================================================
