------------------------------- MODULE Targets -------------------------------
(* The two targets that keep what they accept on disk, side by side: the   *)
(* spool and table of clickhouse, the file of the file target.             *)
EXTENDS ClickHouse, FileOut

(* What the targets have written is in the order in which it came, without *)
(* a gap and without a repetition (clickhouse writer and uploader, file    *)
(* write_record).                                                          *)
TargetsInOrder == HistoryIsPrefix /\ SegmentSelfContained /\ FileInOrder

(* What a target has accepted gets out: segments to the table, buffered    *)
(* records to the file (uploader, recover, file run).                      *)
TargetsDeliver == DurableDelivered /\ FileFlushed
=============================================================================
