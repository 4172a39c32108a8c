----------------------------- MODULE ClickHouse -----------------------------
(***************************************************************************)
(* The ClickHouse target (src/src/targets/clickhouse): observations are    *)
(* admitted to a queue against a memory budget, a writer thread encodes    *)
(* them into a frame and appends frames to a segment file, and an uploader *)
(* inserts sealed segments and removes them.  The process may crash at any *)
(* step; the spool directory survives, and the next run recovers it.       *)
(*                                                                         *)
(* A row is its epoch (the run of the process), its number in the epoch    *)
(* and its kind; the observations are all of one peer.  Time is left out:  *)
(* every interval and deadline may pass at any moment.                     *)
(***************************************************************************)
EXTENDS Naturals, Sequences, FiniteSets

CONSTANTS
    MaxRuns,      \* bound: runs of the process; the last one does not end
    MaxEvents,    \* bound: observations per run
    MaxTroubles,  \* bound: failed inserts, lost answers, full disks, file errors
    QueueRoom,    \* queue_bytes, in observations
    BatchRows,    \* batch_rows
    Nothing       \* no event or file

Rows == [epoch : Nat, seq : Nat, kind : {"start", "event", "end", "identity"}]
OpenSegments == [token : Nat, rows : Seq(Rows), synced : Nat]

ASSUME ClickHouseAssumption ==
    Nothing \notin {"start", "event", "end"} \cup OpenSegments

VARIABLES
    run,       \* the run of the process; its rows carry it as their epoch
    alive,     \* is the process running?
    produced,  \* observations that the sources have sent in this run
    queue,     \* the channel to the writer: its length
    stop,      \* was the target told to stop (the budget is then closed)?
    writer,    \* the writer: [pc, first, ended, seen, full, seq, pending]
    frame,     \* the rows encoded but not appended
    open,      \* the segment being written, or one found by the next run
    sealed,    \* the .ready files, in the order of their names
    upload,    \* the uploader: idle or acked (inserted, not removed)
    stored,    \* the rows of the table, in the order they were inserted
    tokens,    \* the server's deduplication window
    made,      \* segments made: names and tokens
    troubles

chVars == <<run, alive, produced, queue, stop, writer, frame, open, sealed,
            upload, stored, tokens, made, troubles>>

spoolVars  == <<open, sealed, made>>
serverVars == <<upload, stored, tokens>>

Row(seq, kind) == [epoch |-> run, seq |-> seq, kind |-> kind]

NewWriter == [pc |-> "top", first |-> TRUE, ended |-> FALSE, seen |-> FALSE,
              full |-> FALSE, seq |-> 0, pending |-> Nothing]

ChInit ==
    /\ run = 1 /\ alive = TRUE /\ produced = 0
    /\ queue = 0 /\ stop = FALSE
    /\ writer = NewWriter /\ frame = <<>>
    /\ open = Nothing /\ sealed = <<>>
    /\ upload = "idle" /\ stored = <<>> /\ tokens = {}
    /\ made = 0 /\ troubles = 0

Trouble == troubles < MaxTroubles /\ troubles' = troubles + 1

-----------------------------------------------------------------------------
(* Receiver: direct_update waits for the budget, then queues; once the      *)
(* budget is closed it counts the observation as rejected.                 *)

Observe ==
    /\ alive /\ produced < MaxEvents
    /\ produced' = produced + 1
    /\ \/ stop /\ UNCHANGED queue
       \/ ~stop /\ queue < QueueRoom /\ queue' = queue + 1
    /\ UNCHANGED <<run, alive, stop, writer, frame, spoolVars, serverVars, troubles>>

-----------------------------------------------------------------------------
(* The writer's loop.  Each pass takes at most one event and then may      *)
(* append, sync and seal.                                                  *)

WriterAt(pc) == alive /\ writer.pc = pc

Done == queue = 0 /\ writer.pending = Nothing /\ stop

(* The event of this pass; Nothing if there is none. *)
NextEvent ==
    IF writer.pending # Nothing THEN writer.pending
    ELSE IF writer.first THEN "start"
    ELSE IF writer.ended THEN Nothing
    ELSE IF queue > 0 THEN "event"
    ELSE IF stop THEN "end" ELSE Nothing

(* An observation has its peer's identity before it, once per segment. *)
Encoded(kind) ==
    IF kind = "event" /\ ~writer.seen
    THEN <<Row(writer.seq, "identity"), Row(writer.seq + 1, kind)>>
    ELSE <<Row(writer.seq, kind)>>

NewSegment == [token |-> made + 1, rows |-> <<>>, synced |-> 0]

TakeNothing ==
    /\ WriterAt("top") /\ ~writer.full /\ NextEvent = Nothing
    /\ writer' = [writer EXCEPT !.pc = "flush"]
    /\ UNCHANGED <<run, alive, produced, queue, stop, frame, spoolVars,
                   serverVars, troubles>>

TakeEvent ==
    /\ WriterAt("top") /\ ~writer.full /\ NextEvent # Nothing
    /\ LET kind  == NextEvent
           fresh == writer.pending = Nothing
       IN  /\ queue' = IF kind = "event" /\ fresh THEN queue - 1 ELSE queue
           /\ \/ \* Segment::create fails: the event waits for the next pass
                 /\ open = Nothing /\ Trouble
                 /\ writer' = [writer EXCEPT !.pending = kind,
                                             !.first = FALSE,
                                             !.ended = @ \/ kind = "end"]
                 /\ UNCHANGED <<frame, open, made>>
              \/ /\ open' = IF open = Nothing THEN NewSegment ELSE open
                 /\ made' = IF open = Nothing THEN made + 1 ELSE made
                 /\ frame' = frame \o Encoded(kind)
                 /\ writer' = [writer EXCEPT !.pc = "flush",
                                             !.pending = Nothing,
                                             !.first = FALSE,
                                             !.ended = @ \/ kind = "end",
                                             !.seen = @ \/ kind = "event",
                                             !.seq = @ + Len(Encoded(kind))]
                 /\ UNCHANGED troubles
    /\ UNCHANGED <<run, alive, produced, stop, sealed, serverVars>>

BatchFull == open # Nothing /\ Len(open.rows) + Len(frame) >= BatchRows

Appended(synced) ==
    LET rows == open.rows \o frame
    IN  [open EXCEPT !.rows = rows, !.synced = IF synced THEN Len(rows) ELSE @]

AfterFlush(seal) == IF seal THEN "seal" ELSE "top"

(* Every interval may have passed or not; a full batch and the last pass   *)
(* seal in any case.                                                       *)
Flush(flush, sync, seal) ==
    /\ WriterAt("flush")
    /\ (BatchFull \/ Done) => seal
    /\ seal => flush /\ sync
    /\ \/ /\ flush /\ frame # <<>>
          /\ open' = Appended(sync)
          /\ frame' = <<>>
       \/ /\ ~flush \/ frame = <<>>
          /\ open' = IF sync /\ open # Nothing THEN [open EXCEPT !.synced = Len(open.rows)]
                     ELSE open
          /\ UNCHANGED frame
    /\ writer' = [writer EXCEPT !.pc = AfterFlush(seal)]
    /\ UNCHANGED <<run, alive, produced, queue, stop, sealed, made, serverVars,
                   troubles>>

(* A failed append was rolled back: the frame is kept and the writer acts  *)
(* as on a full disk.                                                      *)
FlushFails ==
    /\ WriterAt("flush") /\ frame # <<>> /\ Trouble
    /\ writer' = [writer EXCEPT !.pc = "top", !.full = TRUE]
    /\ UNCHANGED <<run, alive, produced, queue, stop, frame, spoolVars, serverVars>>

Forgotten(w) == [w EXCEPT !.seen = FALSE]

Seal ==
    /\ WriterAt("seal")
    /\ sealed' = IF open = Nothing THEN sealed
                 ELSE Append(sealed, [token |-> open.token, rows |-> open.rows])
    /\ open' = Nothing
    /\ writer' = [Forgotten(writer) EXCEPT !.pc = IF Done /\ writer.ended THEN "returned"
                                                  ELSE "top"]
    /\ UNCHANGED <<run, alive, produced, queue, stop, frame, made, serverVars,
                   troubles>>

(* The space check finds too little, or enough again. *)
DiskFull ==
    /\ WriterAt("top") /\ ~writer.full /\ Trouble
    /\ writer' = [writer EXCEPT !.full = TRUE]
    /\ UNCHANGED <<run, alive, produced, queue, stop, frame, spoolVars, serverVars>>

DiskDrains ==
    /\ WriterAt("top") /\ writer.full
    /\ writer' = [writer EXCEPT !.full = FALSE]
    /\ UNCHANGED <<run, alive, produced, queue, stop, frame, spoolVars, serverVars,
                   troubles>>

(* On a full disk the frame goes out, if it can be appended, and the       *)
(* segment is sealed so that the uploader can drain it.                    *)
WhileFull ==
    /\ WriterAt("top") /\ writer.full /\ open # Nothing
    /\ sealed' = Append(sealed, [token |-> open.token, rows |-> open.rows \o frame])
    /\ open' = Nothing
    /\ frame' = <<>>
    /\ writer' = Forgotten(writer)
    /\ UNCHANGED <<run, alive, produced, queue, stop, made, serverVars, troubles>>

(* A sync, seal or directory error, or the shutdown deadline, ends the     *)
(* writer; the budget is closed and the segment stays as it is.            *)
WriterFails ==
    /\ alive /\ run < MaxRuns /\ writer.pc \in {"top", "flush", "seal"}
    /\ \/ writer.pc # "top" /\ Trouble
       \/ writer.pc = "top" /\ stop /\ UNCHANGED troubles
    /\ writer' = [writer EXCEPT !.pc = "returned"]
    /\ stop' = TRUE
    /\ UNCHANGED <<run, alive, produced, queue, frame, spoolVars, serverVars>>

-----------------------------------------------------------------------------
(* The uploader.                                                           *)

UploaderOn == alive /\ sealed # <<>>

\* Mutant: an insert without a deduplication token.
AlwaysStored(seg) == stored \o seg.rows

(* The server drops an insert whose token it has seen. *)
Inserted(seg) == IF seg.token \in tokens THEN stored ELSE stored \o seg.rows

(* An insert that is acknowledged, whose answer is lost, or that fails. *)
Insert(acknowledged) ==
    /\ UploaderOn /\ upload = "idle"
    /\ stored' = Inserted(Head(sealed))
    /\ tokens' = tokens \cup {Head(sealed).token}
    /\ \/ acknowledged /\ upload' = "acked" /\ UNCHANGED troubles
       \/ ~acknowledged /\ Trouble /\ UNCHANGED upload
    /\ UNCHANGED <<run, alive, produced, queue, stop, writer, frame, spoolVars>>

InsertFails ==
    /\ UploaderOn /\ upload = "idle" /\ Trouble
    /\ UNCHANGED <<run, alive, produced, queue, stop, writer, frame, spoolVars,
                   serverVars>>

\* Mutant: the file is not removed.
KeepsFile ==
    /\ UploaderOn /\ upload = "acked"
    /\ upload' = "idle"
    /\ UNCHANGED <<run, alive, produced, queue, stop, writer, frame, spoolVars,
                   stored, tokens, troubles>>

Remove ==
    /\ UploaderOn /\ upload = "acked"
    /\ sealed' = Tail(sealed)
    /\ upload' = "idle"
    /\ UNCHANGED <<run, alive, produced, queue, stop, writer, frame, open, made,
                   stored, tokens, troubles>>

-----------------------------------------------------------------------------
(* The process.                                                            *)

Terminate ==
    /\ alive /\ ~stop /\ run < MaxRuns
    /\ stop' = TRUE
    /\ UNCHANGED <<run, alive, produced, queue, writer, frame, spoolVars,
                   serverVars, troubles>>

Gone(file) ==
    /\ alive' = FALSE
    /\ produced' = 0 /\ queue' = 0 /\ stop' = FALSE
    /\ writer' = NewWriter /\ frame' = <<>>
    /\ open' = file
    /\ upload' = "idle"
    /\ UNCHANGED <<run, sealed, made, stored, tokens, troubles>>

(* The writer has returned: the uploader is aborted and the target ends. *)
Exit == alive /\ writer.pc = "returned" /\ run < MaxRuns /\ Gone(open)

(* A crash keeps what was synced and may keep more of the open segment. *)
Crash ==
    /\ alive /\ run < MaxRuns
    /\ \/ open = Nothing /\ Gone(Nothing)
       \/ /\ open # Nothing
          /\ \E n \in open.synced..Len(open.rows) :
                Gone([open EXCEPT !.rows = SubSeq(@, 1, n), !.synced = n])

\* Mutant: an open file that a crash left behind is discarded.
DiscardsOpen(files) == files

(* Spool::open: complete frames of an .open file are sealed under the name *)
(* and token it has, which is older than that of any later segment.        *)
Recovered(files) ==
    IF open = Nothing THEN files
    ELSE Append(files, [token |-> open.token, rows |-> open.rows])

Start ==
    /\ ~alive
    /\ alive' = TRUE
    /\ run' = run + 1
    /\ sealed' = Recovered(sealed)
    /\ open' = Nothing
    /\ UNCHANGED <<produced, queue, stop, writer, frame, made, serverVars, troubles>>

-----------------------------------------------------------------------------
WriterStep ==
    \/ TakeNothing \/ TakeEvent \/ Seal \/ DiskDrains \/ WhileFull
    \/ \E flush, sync, seal \in BOOLEAN : Flush(flush, sync, seal)

ChNext ==
    \/ Observe
    \/ WriterStep \/ FlushFails \/ DiskFull \/ WriterFails
    \/ \E b \in BOOLEAN : Insert(b)
    \/ InsertFails \/ Remove
    \/ Terminate \/ Exit \/ Crash \/ Start

(* The uploader keeps trying, and the service manager starts the process   *)
(* again; failures are bounded, so that an insert succeeds in the end.     *)
ChSystem == Insert(TRUE) \/ Remove \/ Start

ChSpec == ChInit /\ [][ChNext]_chVars /\ WF_chVars(ChSystem)

-----------------------------------------------------------------------------
(* Properties.                                                             *)

Elements(s) == {s[i] : i \in 1..Len(s)}

(* What is in the table of a run is its history from the first row on,     *)
(* without a gap, a duplicate or an inversion, whatever crashed and        *)
(* however often inserts were repeated (deduplication tokens, one insert   *)
(* at a time in the order of the file names, frames kept when an append    *)
(* fails).                                                                 *)
HistoryIsPrefix ==
    \A i \in 1..Len(stored) :
        /\ \A j \in 1..(i - 1) : stored[j].epoch = stored[i].epoch => stored[j].seq < stored[i].seq
        /\ stored[i].seq > 0 => \E j \in 1..(i - 1) : /\ stored[j].epoch = stored[i].epoch
                                                    /\ stored[j].seq + 1 = stored[i].seq

(* Every segment can be read on its own: an observation comes after its    *)
(* peer's identity in the same file (writer, on "seen").                   *)
SegmentSelfContained ==
    \A n \in 1..Len(sealed) : LET rows == sealed[n].rows IN
        \A i \in 1..Len(rows) :
            rows[i].kind = "event" => \E j \in 1..(i - 1) : rows[j].kind = "identity"

Durable ==
    Elements(stored) \cup (UNION {Elements(sealed[n].rows) : n \in 1..Len(sealed)})
    \cup (IF open = Nothing THEN {} ELSE Elements(SubSeq(open.rows, 1, open.synced)))

(* A row that was synced is never lost, by a crash, a recovery, a full     *)
(* disk or an upload that is interrupted (Spool::open, uploader).          *)
DurableKept == [][Durable \subseteq Durable']_chVars

(* What was synced reaches the table in the end (uploader: "retaining      *)
(* segment", recover).                                                     *)
DurableDelivered == []<>(sealed = <<>> /\ alive)
=============================================================================
