------------------------------- MODULE FileOut -------------------------------
(***************************************************************************)
(* The file target (src/src/targets/file/target.rs): records go through a  *)
(* buffered writer that is flushed after a second without work, before     *)
(* work that comes later than a second after the last flush, and at the    *)
(* end.  Every record is written as a body and a line end.                 *)
(***************************************************************************)
EXTENDS Naturals, Sequences

CONSTANTS
    MaxBatches,    \* bound: updates with records; each has two
    MaxFaults      \* bound: failed writes and flushes

VARIABLES
    batches,   \* updates taken so far
    todo,      \* the rest of the current update
    part,      \* the body of the current record is written
    buffered, onDisk,   \* pieces: <<record, "body">> and <<record, "end">>
    stale,     \* more than a second has passed since the last flush
    faults,
    target     \* waiting, writing or ended

fileVars == <<batches, todo, part, buffered, onDisk, stale, faults, target>>

FileInit ==
    /\ batches = 0 /\ todo = <<>> /\ part = FALSE
    /\ buffered = <<>> /\ onDisk = <<>>
    /\ stale = FALSE /\ faults = 0 /\ target = "waiting"

(* flush swallows an error; what it could not write stays buffered. *)
Flushed(ok) ==
    /\ stale' = FALSE
    /\ IF ok
       THEN onDisk' = onDisk \o buffered /\ buffered' = <<>> /\ UNCHANGED faults
       ELSE faults < MaxFaults /\ faults' = faults + 1 /\ UNCHANGED <<onDisk, buffered>>

SecondPasses ==
    /\ stale = FALSE /\ target # "ended"
    /\ stale' = TRUE
    /\ UNCHANGED <<batches, todo, part, buffered, onDisk, faults, target>>

TimedOut(ok) ==
    /\ target = "waiting" /\ stale = TRUE
    /\ Flushed(ok)
    /\ UNCHANGED <<batches, todo, part, target>>

(* An update arrives; an old buffer is flushed first. *)
TakeBatch(ok) ==
    /\ target = "waiting" /\ batches < MaxBatches
    /\ IF stale = TRUE THEN Flushed(ok) ELSE ok = TRUE /\ UNCHANGED <<stale, faults, onDisk, buffered>>
    /\ batches' = batches + 1
    /\ todo' = <<2 * batches, 2 * batches + 1>>
    /\ target' = "writing"
    /\ UNCHANGED part

(* write_record, one write_all at a time: a failure drops the rest of the  *)
(* batch, and leaves the pieces that were written.                         *)
WritePiece(ok) ==
    /\ target = "writing"
    /\ IF ok
       THEN /\ buffered' = Append(buffered, <<Head(todo), IF part THEN "end" ELSE "body">>)
            /\ part' = ~part
            /\ todo' = IF part THEN Tail(todo) ELSE todo
            /\ UNCHANGED faults
       ELSE /\ faults < MaxFaults
            /\ faults' = faults + 1
            /\ todo' = <<>> /\ part' = FALSE
            /\ UNCHANGED buffered
    /\ target' = IF todo' = <<>> THEN "waiting" ELSE "writing"
    /\ UNCHANGED <<batches, onDisk, stale>>

(* Terminate, or the end of the commands or of the source. *)
FileEnds(ok) ==
    /\ target = "waiting"
    /\ Flushed(ok)
    /\ target' = "ended"
    /\ UNCHANGED <<batches, todo, part>>

FileSystem == \E ok \in BOOLEAN : TimedOut(ok) \/ WritePiece(ok)

FileNext ==
    \/ SecondPasses
    \/ FileSystem
    \/ \E ok \in BOOLEAN : TakeBatch(ok) \/ FileEnds(ok)
    \/ target = "ended" /\ UNCHANGED fileVars

(* Time passes, and the target's task runs. *)
FileFairness == WF_fileVars(SecondPasses) /\ WF_fileVars(FileSystem)

FileSpec == FileInit /\ [][FileNext]_fileVars /\ FileFairness

-----------------------------------------------------------------------------
(* Properties.                                                             *)

(* The records in the file are in the order in which they came, none       *)
(* twice, whatever failed (run, write_record).                             *)
FileInOrder ==
    \A i, j \in 1..Len(onDisk) :
        i < j /\ onDisk[i][2] = "body" /\ onDisk[j][2] = "body" => onDisk[i][1] < onDisk[j][1]

(* What was written reaches the file, without any further update, unless   *)
(* flushes keep failing until the end (run, flush).                        *)
FileFlushed == buffered # <<>> ~> buffered = <<>> \/ target = "ended"
=============================================================================
