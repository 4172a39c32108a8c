---------------------------- MODULE TargetProofs ----------------------------
(***************************************************************************)
(* The ClickHouse and file targets, for any number of rows, segments,      *)
(* runs, crashes and failures.  What was synced is never lost (theorem     *)
(* SyncedRowsSurvive), the table holds of every run a beginning of its     *)
(* history, in order and without a gap or a duplicate (HistoryInOrder),    *)
(* every segment can be read on its own (SegmentsStandAlone), and the file *)
(* has its records in order (RecordsInOrder).                              *)
(*                                                                         *)
(* The rows of the ClickHouse target lie on a line of five parts: the      *)
(* table, the sealed segments that the server has not stored, the open     *)
(* segment, the frame, and the row that the writer encodes next.  Each     *)
(* part is sorted and comes before the next one, and every row but the     *)
(* first of its run has its predecessor somewhere on the line: as that is  *)
(* a smaller row, it is in the same part or in an earlier one.  Steps move *)
(* rows over to an earlier part, add one at the end or take some off the   *)
(* end.  Which segments the server has stored is what the tokens tell:     *)
(* only the oldest one can be, and never the open one.                     *)
(***************************************************************************)
EXTENDS Targets, TLAPS

(* Zenon proves the leaves that do not name the SMT solver.                *)
USE ZenonT(30)

Kinds   == {"start", "event", "end"}
Files   == [token : Nat, rows : Seq(Rows)]
Writers == [pc : {"top", "flush", "seal", "returned"}, first : BOOLEAN, ended : BOOLEAN,
            seen : BOOLEAN, full : BOOLEAN, seq : Nat, pending : Kinds \cup {Nothing}]

ChTypeOK ==
    /\ run \in Nat /\ alive \in BOOLEAN /\ made \in Nat
    /\ writer \in Writers
    /\ frame \in Seq(Rows) /\ stored \in Seq(Rows)
    /\ open \in OpenSegments \cup {Nothing}
    /\ sealed \in Seq(Files)
    /\ upload \in {"idle", "acked"} /\ tokens \in SUBSET Nat

-----------------------------------------------------------------------------
(* What the tokens tell. *)

OpenRows == IF open = Nothing THEN <<>> ELSE open.rows
Unsent(n) == sealed[n].token \notin tokens

\* A token names one segment, and the server knows the oldest file at most.
TokensApart ==
    /\ \A t \in tokens : t <= made
    /\ \A n \in 1..Len(sealed) : sealed[n].token <= made
    /\ \A m, n \in 1..Len(sealed) : m < n => sealed[m].token # sealed[n].token
    /\ \A n \in 2..Len(sealed) : Unsent(n)

\* The open segment is unknown to the server, and synced up to a row it has.
OpenApart ==
    open # Nothing =>
        /\ open.token <= made /\ open.token \notin tokens
        /\ \A n \in 1..Len(sealed) : sealed[n].token # open.token
        /\ open.synced <= Len(open.rows)

\* What the server has acknowledged, it has stored.
KnownIsStored ==
    /\ \A n \in 1..Len(sealed) : Unsent(n) \/ Elements(sealed[n].rows) \subseteq Elements(stored)
    /\ upload = "acked" => sealed # <<>> /\ ~Unsent(1)

-----------------------------------------------------------------------------
(* The writer. *)

HasIdentity(rows) == \E i \in 1..Len(rows) : rows[i].kind = "identity"

\* Behind the rows p, every observation of rows has its identity before it.
ContainedBehind(p, rows) ==
    \A i \in 1..Len(rows) :
        rows[i].kind = "event" =>
            HasIdentity(p) \/ \E j \in 1..(i - 1) : rows[j].kind = "identity"
Contained(rows) == ContainedBehind(<<>>, rows)

\* The frame belongs to the open segment, and the writer remembers whether an
\* identity is in the two.
WriterKnows ==
    /\ open = Nothing => frame = <<>> /\ writer.seen = FALSE
    /\ writer.pc = "seal" => frame = <<>>
    /\ alive = FALSE => frame = <<>> /\ writer.seen = FALSE /\ writer.seq = 0
    /\ writer.seen = TRUE => HasIdentity(OpenRows) \/ HasIdentity(frame)
    /\ Contained(OpenRows)
    /\ ContainedBehind(OpenRows, frame)
    /\ SegmentSelfContained

-----------------------------------------------------------------------------
(* The line: the table st, the sealed files sl of which the server knows   *)
(* those with a token in tk, the rows op of the open segment, the frame fr.*)

Before(r, q) == r.epoch < q.epoch \/ (r.epoch = q.epoch /\ r.seq < q.seq)
Precedes(r, q) == r.epoch = q.epoch /\ r.seq + 1 = q.seq
Increasing(s) == \A i, j \in 1..Len(s) : i < j => Before(s[i], s[j])
AllBefore(A, B) == \A r \in A, q \in B : Before(r, q)

PartsSorted(st, sl, op, fr) ==
    /\ Increasing(st) /\ Increasing(op) /\ Increasing(fr)
    /\ \A n \in 1..Len(sl) : Increasing(sl[n].rows)

PartsInOrder(st, sl, tk, op, fr) ==
    /\ \A n \in 1..Len(sl) : sl[n].token \notin tk =>
           /\ AllBefore(Elements(st), Elements(sl[n].rows))
           /\ AllBefore(Elements(sl[n].rows), Elements(op))
           /\ AllBefore(Elements(sl[n].rows), Elements(fr))
    /\ \A m, n \in 1..Len(sl) : m < n /\ sl[m].token \notin tk =>
           AllBefore(Elements(sl[m].rows), Elements(sl[n].rows))
    /\ AllBefore(Elements(st), Elements(op))
    /\ AllBefore(Elements(st), Elements(fr))
    /\ AllBefore(Elements(op), Elements(fr))

Ordered(st, sl, tk, op, fr) == PartsSorted(st, sl, op, fr) /\ PartsInOrder(st, sl, tk, op, fr)

InFiles(sl) == {r \in Rows : \E n \in 1..Len(sl) : r \in Elements(sl[n].rows)}
LineOf(st, sl, op, fr) == Elements(st) \cup InFiles(sl) \cup Elements(op) \cup Elements(fr)

Unbroken(L) == \A r \in L : r.seq > 0 => \E q \in L : Precedes(q, r)

\* Row number seq of run e, which is encoded next, comes behind the line.
Fits(L, e, seq) ==
    /\ \A r \in L : r.epoch < e \/ (r.epoch = e /\ r.seq < seq)
    /\ seq > 0 => \E r \in L : r.epoch = e /\ r.seq + 1 = seq

Line == LineOf(stored, sealed, OpenRows, frame)

LineInv ==
    /\ Ordered(stored, sealed, tokens, OpenRows, frame)
    /\ Unbroken(Line)
    /\ alive = TRUE => Fits(Line, run, writer.seq)
    /\ alive = FALSE => \A r \in Line : r.epoch <= run

ChInv ==
    /\ ChTypeOK /\ TokensApart /\ OpenApart /\ KnownIsStored /\ WriterKnows
    /\ LineInv

-----------------------------------------------------------------------------
(* Sequences of rows. *)

\* What an append of rows to rows has in it, and where (segment append, insert).
LEMMA ConcatParts ==
    ASSUME NEW s \in Seq(Rows), NEW t \in Seq(Rows)
    PROVE  /\ s \o t \in Seq(Rows) /\ Len(s \o t) = Len(s) + Len(t)
           /\ \A i \in 1..Len(s) : i \in 1..Len(s \o t) /\ (s \o t)[i] = s[i]
           /\ \A j \in 1..Len(t) : Len(s) + j \in 1..Len(s \o t) /\ (s \o t)[Len(s) + j] = t[j]
           /\ \A k \in 1..Len(s \o t) :
                  \/ k \in 1..Len(s) /\ (s \o t)[k] = s[k]
                  \/ k - Len(s) \in 1..Len(t) /\ (s \o t)[k] = t[k - Len(s)]
           /\ Elements(s \o t) = Elements(s) \cup Elements(t)
<1>1. s \o t \in Seq(Rows) /\ Len(s \o t) = Len(s) + Len(t) /\ Len(s) \in Nat /\ Len(t) \in Nat
  BY SMTT(30)
<1>2. \A i \in 1..Len(s) : i \in 1..Len(s \o t) /\ (s \o t)[i] = s[i]
  BY SMTT(30), <1>1
<1>3. \A j \in 1..Len(t) : Len(s) + j \in 1..Len(s \o t) /\ (s \o t)[Len(s) + j] = t[j]
  BY SMTT(30), <1>1
<1>4. ASSUME NEW k \in 1..Len(s \o t)
      PROVE  \/ k \in 1..Len(s) /\ (s \o t)[k] = s[k]
             \/ k - Len(s) \in 1..Len(t) /\ (s \o t)[k] = t[k - Len(s)]
  <2>1. CASE k <= Len(s)
    BY SMTT(30), <1>1, <2>1
  <2>2. CASE k > Len(s)
    BY SMTT(30), <1>1, <2>2
  <2>. QED
    BY SMTT(30), <1>1, <2>1, <2>2
<1>5. Elements(s \o t) \subseteq Elements(s) \cup Elements(t)
  BY <1>4 DEF Elements
<1>6. Elements(s) \subseteq Elements(s \o t) /\ Elements(t) \subseteq Elements(s \o t)
  BY <1>2, <1>3 DEF Elements
<1>. QED
  BY <1>1, <1>2, <1>3, <1>4, <1>5, <1>6

\* Sorted rows that are appended to smaller sorted rows (segment append, insert).
LEMMA ConcatIncreasing ==
    ASSUME NEW s \in Seq(Rows), NEW t \in Seq(Rows), Increasing(s), Increasing(t),
           AllBefore(Elements(s), Elements(t))
    PROVE  Increasing(s \o t)
<1>. SUFFICES ASSUME NEW i \in 1..Len(s \o t), NEW j \in 1..Len(s \o t), i < j
              PROVE  Before((s \o t)[i], (s \o t)[j])
  BY DEF Increasing
<1>1. Len(s) \in Nat /\ Len(t) \in Nat /\ i \in Nat /\ j \in Nat
  BY SMTT(30), ConcatParts
<1>2. CASE i \in 1..Len(s) /\ j \in 1..Len(s)
  BY SMTT(30), <1>2, ConcatParts DEF Increasing
<1>3. CASE i \in 1..Len(s) /\ j \notin 1..Len(s)
  <2>1. j - Len(s) \in 1..Len(t) /\ (s \o t)[j] = t[j - Len(s)] /\ (s \o t)[i] = s[i]
    BY SMTT(30), <1>3, ConcatParts
  <2>. QED
    BY <1>3, <2>1 DEF AllBefore, Elements
<1>4. CASE i \notin 1..Len(s)
  <2>1. /\ i - Len(s) \in 1..Len(t) /\ (s \o t)[i] = t[i - Len(s)]
        /\ j - Len(s) \in 1..Len(t) /\ (s \o t)[j] = t[j - Len(s)]
    BY SMTT(30), <1>1, <1>4, ConcatParts
  <2>2. i - Len(s) < j - Len(s)
    BY SMTT(30), <1>1
  <2>. QED
    BY <2>1, <2>2 DEF Increasing
<1>. QED
  BY <1>2, <1>3, <1>4

\* An identity in front of or among the appended rows serves them (identity rows).
LEMMA ConcatContained ==
    ASSUME NEW s \in Seq(Rows), NEW t \in Seq(Rows), NEW p, ContainedBehind(p, s),
           HasIdentity(p) \/ ContainedBehind(s, t)
    PROVE  /\ ContainedBehind(p, s \o t)
           /\ HasIdentity(s \o t) <=> HasIdentity(s) \/ HasIdentity(t)
<1>1. Len(s) \in Nat /\ Len(t) \in Nat
  BY SMTT(30), ConcatParts
<1>2. ASSUME NEW i \in 1..Len(s \o t), (s \o t)[i].kind = "event", ~HasIdentity(p)
      PROVE  \E j \in 1..(i - 1) : (s \o t)[j].kind = "identity"
  <2>1. CASE i \in 1..Len(s)
    <3>1. PICK j \in 1..(i - 1) : s[j].kind = "identity"
      BY SMTT(30), <1>2, <2>1, ConcatParts DEF ContainedBehind
    <3>2. j \in 1..Len(s)
      BY SMTT(30), <1>1, <2>1
    <3>. QED
      BY SMTT(30), <3>1, <3>2, ConcatParts
  <2>2. CASE i \notin 1..Len(s)
    <3>1. i - Len(s) \in 1..Len(t) /\ (s \o t)[i] = t[i - Len(s)]
      BY SMTT(30), <2>2, ConcatParts
    <3>2. CASE HasIdentity(s)
      <4>1. PICK j \in 1..Len(s) : s[j].kind = "identity"
        BY <3>2 DEF HasIdentity
      <4>2. j \in 1..(i - 1)
        BY SMTT(30), <1>1, <2>2, ConcatParts
      <4>. QED
        BY SMTT(30), <4>1, <4>2, ConcatParts
    <3>3. CASE ~HasIdentity(s)
      <4>1. PICK j \in 1..(i - Len(s) - 1) : t[j].kind = "identity"
        BY <1>2, <3>1, <3>3 DEF ContainedBehind
      <4>2. j \in 1..Len(t) /\ Len(s) + j \in 1..(i - 1)
        BY SMTT(30), <1>1, <3>1
      <4>3. (s \o t)[Len(s) + j] = t[j]
        BY SMTT(30), <4>2, ConcatParts
      <4>. QED
        BY <4>1, <4>2, <4>3
    <3>. QED
      BY <3>2, <3>3
  <2>. QED
    BY <2>1, <2>2
<1>3. HasIdentity(s \o t) => HasIdentity(s) \/ HasIdentity(t)
  BY SMTT(30), ConcatParts DEF HasIdentity
<1>4. HasIdentity(s) => HasIdentity(s \o t)
  BY SMTT(30), ConcatParts DEF HasIdentity
<1>5. HasIdentity(t) => HasIdentity(s \o t)
  <2>1. ASSUME NEW j \in 1..Len(t), t[j].kind = "identity"
        PROVE  Len(s) + j \in 1..Len(s \o t) /\ (s \o t)[Len(s) + j].kind = "identity"
    BY <2>1, ConcatParts
  <2>. QED
    BY <2>1 DEF HasIdentity
<1>. QED
  BY <1>2, <1>3, <1>4, <1>5 DEF ContainedBehind

\* The empty sequence (a new segment, an empty frame).
LEMMA EmptyParts ==
    /\ <<>> \in Seq(Rows) /\ Len(<<>>) = 0 /\ Elements(<<>>) = {}
    /\ Increasing(<<>>) /\ ~HasIdentity(<<>>)
    /\ \A p : ContainedBehind(p, <<>>)
BY SMTT(30) DEF Elements, Increasing, HasIdentity, ContainedBehind

\* The rows of a file that a crash leaves are the first ones (recover).
LEMMA PrefixParts ==
    ASSUME NEW s \in Seq(Rows), NEW n \in 0..Len(s)
    PROVE  /\ SubSeq(s, 1, n) \in Seq(Rows) /\ Len(SubSeq(s, 1, n)) = n
           /\ \A i \in 1..n : i \in 1..Len(s) /\ SubSeq(s, 1, n)[i] = s[i]
           /\ Elements(SubSeq(s, 1, n)) \subseteq Elements(s)
           /\ Increasing(s) => Increasing(SubSeq(s, 1, n))
           /\ Contained(s) => Contained(SubSeq(s, 1, n))
           /\ Increasing(s) => \A r \in Elements(SubSeq(s, 1, n)), q \in Elements(s) :
                  q \in Elements(SubSeq(s, 1, n)) \/ Before(r, q)
<1>1. /\ SubSeq(s, 1, n) \in Seq(Rows) /\ Len(SubSeq(s, 1, n)) = n /\ n \in Nat /\ Len(s) \in Nat
      /\ \A i \in 1..n : i \in 1..Len(s) /\ SubSeq(s, 1, n)[i] = s[i]
  BY SMTT(30)
<1>2. Elements(SubSeq(s, 1, n)) \subseteq Elements(s)
  BY <1>1 DEF Elements
<1>3. Increasing(s) => Increasing(SubSeq(s, 1, n))
  BY SMTT(30), <1>1 DEF Increasing
<1>4. Contained(s) => Contained(SubSeq(s, 1, n))
  <2>. SUFFICES ASSUME Contained(s), NEW i \in 1..n, s[i].kind = "event"
                PROVE  \E j \in 1..(i - 1) : SubSeq(s, 1, n)[j].kind = "identity"
    BY <1>1 DEF Contained, ContainedBehind
  <2>1. PICK j \in 1..(i - 1) : s[j].kind = "identity"
    BY <1>1, EmptyParts DEF Contained, ContainedBehind
  <2>2. j \in 1..n
    BY SMTT(30), <1>1
  <2>. QED
    BY <1>1, <2>1, <2>2
<1>5. ASSUME Increasing(s), NEW r \in Elements(SubSeq(s, 1, n)), NEW q \in Elements(s)
      PROVE  q \in Elements(SubSeq(s, 1, n)) \/ Before(r, q)
  <2>1. PICK i \in 1..n : r = s[i]
    BY <1>1 DEF Elements
  <2>2. PICK j \in 1..Len(s) : q = s[j]
    BY DEF Elements
  <2>3. CASE j <= n
    <3>1. j \in 1..n
      BY SMTT(30), <1>1, <2>3
    <3>. QED
      BY <1>1, <2>2, <3>1 DEF Elements
  <2>4. CASE j > n
    BY SMTT(30), <1>1, <1>5, <2>1, <2>2, <2>4 DEF Increasing
  <2>. QED
    BY SMTT(30), <1>1, <2>3, <2>4
<1>. QED
  BY <1>1, <1>2, <1>3, <1>4, <1>5

-----------------------------------------------------------------------------
(* What a step may do to the line. *)

Parts(st, sl, op, fr) ==
    /\ st \in Seq(Rows) /\ op \in Seq(Rows) /\ fr \in Seq(Rows)
    /\ sl \in Seq(Files)

\* The rows of a typed part are rows, and so are those of the line (ClickHouse).
LEMMA LineRows ==
    ASSUME NEW st, NEW sl, NEW op, NEW fr, Parts(st, sl, op, fr)
    PROVE  LineOf(st, sl, op, fr) \subseteq Rows
<1>1. \A s \in Seq(Rows) : \A i \in 1..Len(s) : s[i] \in Rows
  BY SMTT(30)
<1>2. \A s \in Seq(Rows) : Elements(s) \subseteq Rows
  BY <1>1 DEF Elements
<1>. QED
  BY <1>2 DEF Parts, LineOf, InFiles

\* An append moves the frame to the open segment (Segment::append).
LEMMA AppendKeepsLine ==
    ASSUME NEW st, NEW sl, NEW tk, NEW op, NEW fr, Parts(st, sl, op, fr),
           Ordered(st, sl, tk, op, fr)
    PROVE  /\ Ordered(st, sl, tk, op \o fr, <<>>)
           /\ LineOf(st, sl, op \o fr, <<>>) = LineOf(st, sl, op, fr)
<1>1. /\ Elements(op \o fr) = Elements(op) \cup Elements(fr)
      /\ Elements(<<>>) = {} /\ Increasing(<<>>)
  BY ConcatParts, EmptyParts DEF Parts
<1>2. Increasing(op \o fr)
  BY ConcatIncreasing DEF Parts, Ordered, PartsSorted, PartsInOrder
<1>3. PartsSorted(st, sl, op \o fr, <<>>)
  BY <1>1, <1>2 DEF Ordered, PartsSorted
<1>4. PartsInOrder(st, sl, tk, op \o fr, <<>>)
  BY <1>1 DEF Ordered, PartsInOrder, AllBefore
<1>. QED
  BY <1>1, <1>3, <1>4 DEF Ordered, LineOf

\* A file that is sealed has the rows of the open segment (Segment::seal, recover).
LEMMA SealKeepsLine ==
    ASSUME NEW st, NEW sl, NEW tk, NEW op, NEW token \in Nat, Parts(st, sl, op, <<>>),
           Ordered(st, sl, tk, op, <<>>), token \notin tk
    PROVE  LET file == [token |-> token, rows |-> op] IN
           /\ Parts(st, Append(sl, file), <<>>, <<>>)
           /\ Ordered(st, Append(sl, file), tk, <<>>, <<>>)
           /\ LineOf(st, Append(sl, file), <<>>, <<>>) = LineOf(st, sl, op, <<>>)
<1>. DEFINE file == [token |-> token, rows |-> op]
            tl == Append(sl, file)
<1>1. /\ file \in Files /\ tl \in Seq(Files) /\ Len(sl) \in Nat /\ Len(tl) = Len(sl) + 1
      /\ \A n \in 1..Len(sl) : n \in 1..Len(tl) /\ tl[n] = sl[n]
      /\ Len(sl) + 1 \in 1..Len(tl) /\ tl[Len(sl) + 1] = file
      /\ \A n \in 1..Len(tl) : n \in 1..Len(sl) \/ n = Len(sl) + 1
  <2>1. file \in Files /\ sl \in Seq(Files)
    BY DEF Parts, Files
  <2>. HIDE DEF file
  <2>. QED
    BY SMTT(30), <2>1
<1>2. file.token = token /\ file.rows = op
  OBVIOUS
<1>3. Elements(<<>>) = {} /\ Increasing(<<>>) /\ <<>> \in Seq(Rows)
  BY EmptyParts
<1>4. Elements(op) \subseteq Rows
  BY SMTT(30) DEF Parts, Elements
<1>. HIDE DEF file, tl
<1>5. Parts(st, tl, <<>>, <<>>)
  BY <1>1, <1>3 DEF Parts
<1>6. PartsSorted(st, tl, <<>>, <<>>)
  <2>1. \A n \in 1..Len(tl) : Increasing(tl[n].rows)
    BY <1>1, <1>2 DEF Ordered, PartsSorted
  <2>. QED
    BY <1>3, <2>1 DEF Ordered, PartsSorted
<1>7. PartsInOrder(st, tl, tk, <<>>, <<>>)
  <2>1. ASSUME NEW n \in 1..Len(tl), tl[n].token \notin tk
        PROVE  AllBefore(Elements(st), Elements(tl[n].rows))
    BY <1>1, <1>2, <2>1 DEF Ordered, PartsInOrder
  <2>2. ASSUME NEW m \in 1..Len(tl), NEW n \in 1..Len(tl), m < n, tl[m].token \notin tk
        PROVE  AllBefore(Elements(tl[m].rows), Elements(tl[n].rows))
    <3>1. m \in 1..Len(sl) /\ tl[m] = sl[m]
      BY SMTT(30), <1>1, <2>2
    <3>2. CASE n \in 1..Len(sl)
      BY <1>1, <2>2, <3>1, <3>2 DEF Ordered, PartsInOrder
    <3>3. CASE n = Len(sl) + 1
      BY <1>1, <1>2, <2>2, <3>1, <3>3 DEF Ordered, PartsInOrder
    <3>. QED
      BY <1>1, <3>2, <3>3
  <2>3. \A A : AllBefore(A, {}) /\ AllBefore({}, A)
    BY DEF AllBefore
  <2>. QED
    BY <1>3, <2>1, <2>2, <2>3 DEF PartsInOrder
<1>8. InFiles(tl) = InFiles(sl) \cup Elements(op)
  BY <1>1, <1>2, <1>4 DEF InFiles
<1>. QED
  BY <1>3, <1>5, <1>6, <1>7, <1>8 DEF Ordered, LineOf, file, tl

\* The server stores the oldest file (upload).
LEMMA InsertKeepsLine ==
    ASSUME NEW st, NEW sl, NEW tk, NEW op, NEW fr, Parts(st, sl, op, fr),
           Ordered(st, sl, tk, op, fr), sl # <<>>, sl[1].token \notin tk
    PROVE  /\ st \o sl[1].rows \in Seq(Rows)
           /\ Ordered(st \o sl[1].rows, sl, tk \cup {sl[1].token}, op, fr)
           /\ LineOf(st \o sl[1].rows, sl, op, fr) = LineOf(st, sl, op, fr)
           /\ Elements(sl[1].rows) \subseteq Elements(st \o sl[1].rows)
<1>1. /\ Len(sl) \in Nat /\ 1 \in 1..Len(sl) /\ sl[1] \in Files
      /\ sl[1].rows \in Seq(Rows) /\ st \in Seq(Rows)
  <2>1. sl \in Seq(Files) /\ st \in Seq(Rows)
    BY DEF Parts
  <2>2. Len(sl) \in Nat /\ Len(sl) # 0 /\ 1 \in 1..Len(sl)
    BY SMTT(30), <2>1
  <2>3. sl[1] \in Files
    BY SMTT(30), <2>1, <2>2
  <2>. QED
    BY <2>1, <2>2, <2>3 DEF Files
<1>2. /\ st \o sl[1].rows \in Seq(Rows)
      /\ Elements(st \o sl[1].rows) = Elements(st) \cup Elements(sl[1].rows)
  BY SMTT(30), <1>1, ConcatParts
<1>3. Increasing(st \o sl[1].rows)
  BY <1>1, ConcatIncreasing DEF Ordered, PartsSorted, PartsInOrder
<1>4. PartsSorted(st \o sl[1].rows, sl, op, fr)
  BY <1>3 DEF Ordered, PartsSorted
<1>5. PartsInOrder(st \o sl[1].rows, sl, tk \cup {sl[1].token}, op, fr)
  <2>1. ASSUME NEW n \in 1..Len(sl), sl[n].token \notin tk \cup {sl[1].token}
        PROVE  AllBefore(Elements(st) \cup Elements(sl[1].rows), Elements(sl[n].rows))
    <3>1. n # 1 /\ 1 < n
      BY SMTT(30), <1>1, <2>1
    <3>. QED
      BY <1>1, <2>1, <3>1 DEF Ordered, PartsInOrder, AllBefore
  <2>2. /\ AllBefore(Elements(st) \cup Elements(sl[1].rows), Elements(op))
        /\ AllBefore(Elements(st) \cup Elements(sl[1].rows), Elements(fr))
    BY <1>1 DEF Ordered, PartsInOrder, AllBefore
  <2>. QED
    BY <1>2, <2>1, <2>2 DEF Ordered, PartsInOrder
<1>6. Elements(sl[1].rows) \subseteq InFiles(sl)
  BY SMTT(30), <1>1 DEF InFiles, Elements
<1>. QED
  BY <1>2, <1>4, <1>5, <1>6 DEF Ordered, LineOf

\* A file whose rows are all stored is removed (uploader, remove_segment).
LEMMA RemoveKeepsLine ==
    ASSUME NEW st, NEW sl, NEW tk, NEW op, NEW fr, Parts(st, sl, op, fr),
           Ordered(st, sl, tk, op, fr), sl # <<>>,
           Elements(sl[1].rows) \subseteq Elements(st)
    PROVE  /\ Parts(st, Tail(sl), op, fr)
           /\ Ordered(st, Tail(sl), tk, op, fr)
           /\ LineOf(st, Tail(sl), op, fr) = LineOf(st, sl, op, fr)
<1>. DEFINE tl == Tail(sl)
<1>1. /\ tl \in Seq(Files) /\ Len(sl) \in Nat /\ Len(tl) = Len(sl) - 1 /\ Len(tl) \in Nat
      /\ \A n \in 1..Len(tl) : n + 1 \in 1..Len(sl) /\ tl[n] = sl[n + 1]
      /\ \A n \in 1..Len(sl) : n = 1 \/ (n - 1 \in 1..Len(tl) /\ tl[n - 1] = sl[n])
  BY SMTT(30) DEF Parts
<1>. HIDE DEF tl
<1>2. Parts(st, tl, op, fr)
  BY <1>1 DEF Parts
<1>3. PartsSorted(st, tl, op, fr)
  BY <1>1 DEF Ordered, PartsSorted
<1>4. PartsInOrder(st, tl, tk, op, fr)
  <2>1. ASSUME NEW n \in 1..Len(tl), tl[n].token \notin tk
        PROVE  /\ AllBefore(Elements(st), Elements(tl[n].rows))
               /\ AllBefore(Elements(tl[n].rows), Elements(op))
               /\ AllBefore(Elements(tl[n].rows), Elements(fr))
    BY <1>1, <2>1 DEF Ordered, PartsInOrder
  <2>2. ASSUME NEW m \in 1..Len(tl), NEW n \in 1..Len(tl), m < n, tl[m].token \notin tk
        PROVE  AllBefore(Elements(tl[m].rows), Elements(tl[n].rows))
    <3>1. m + 1 < n + 1
      BY SMTT(30), <1>1, <2>2
    <3>. QED
      BY <1>1, <2>2, <3>1 DEF Ordered, PartsInOrder
  <2>. QED
    BY <2>1, <2>2 DEF Ordered, PartsInOrder
<1>5. InFiles(sl) \subseteq InFiles(tl) \cup Elements(st) /\ InFiles(tl) \subseteq InFiles(sl)
  BY <1>1 DEF InFiles
<1>. QED
  BY <1>2, <1>3, <1>4, <1>5 DEF Ordered, LineOf, tl

\* A crash takes rows off the end of the line (Crash of the open segment, exit).
LEMMA CutKeepsLine ==
    ASSUME NEW st, NEW sl, NEW tk, NEW op, NEW fr, Parts(st, sl, op, fr),
           Ordered(st, sl, tk, op, fr), NEW n \in 0..Len(op),
           \A i \in 1..Len(sl) : sl[i].token \notin tk \/ Elements(sl[i].rows) \subseteq Elements(st)
    PROVE  /\ Ordered(st, sl, tk, SubSeq(op, 1, n), <<>>)
           /\ LineOf(st, sl, SubSeq(op, 1, n), <<>>) \subseteq LineOf(st, sl, op, fr)
           /\ Unbroken(LineOf(st, sl, op, fr)) =>
                  Unbroken(LineOf(st, sl, SubSeq(op, 1, n), <<>>))
<1>. DEFINE cut == SubSeq(op, 1, n)
            L == LineOf(st, sl, op, fr)
            M == LineOf(st, sl, cut, <<>>)
<1>1. /\ Elements(cut) \subseteq Elements(op) /\ Increasing(cut)
      /\ \A r \in Elements(cut), q \in Elements(op) : q \in Elements(cut) \/ Before(r, q)
  BY PrefixParts DEF Parts, Ordered, PartsSorted
<1>2. Elements(<<>>) = {} /\ Increasing(<<>>)
  BY EmptyParts
<1>. HIDE DEF cut
<1>3. Ordered(st, sl, tk, cut, <<>>)
  BY <1>1, <1>2 DEF Ordered, PartsSorted, PartsInOrder, AllBefore
<1>4. M \subseteq L
  BY <1>1, <1>2 DEF LineOf
<1>5. L \subseteq Rows
  BY SMTT(30) DEF Parts, LineOf, InFiles, Elements
<1>6. \A r \in M, q \in L : q \in M \/ Before(r, q)
  <2>. SUFFICES ASSUME NEW r \in M, NEW q \in L, q \notin M
                PROVE  Before(r, q)
    OBVIOUS
  <2>1. q \in Elements(op) \/ q \in Elements(fr)
    BY DEF LineOf
  <2>2. CASE r \in Elements(cut)
    BY <1>1, <2>1, <2>2 DEF LineOf, Ordered, PartsInOrder, AllBefore
  <2>3. CASE r \in Elements(st)
    BY <2>1, <2>3 DEF Ordered, PartsInOrder, AllBefore
  <2>4. CASE r \in InFiles(sl)
    <3>1. PICK i \in 1..Len(sl) : r \in Elements(sl[i].rows)
      BY <2>4 DEF InFiles
    <3>2. CASE sl[i].token \notin tk
      BY <2>1, <3>1, <3>2 DEF Ordered, PartsInOrder, AllBefore
    <3>3. CASE sl[i].token \in tk
      BY <2>3, <3>1, <3>3
    <3>. QED
      BY <3>2, <3>3
  <2>. QED
    BY <1>2, <2>2, <2>3, <2>4 DEF LineOf
<1>7. ASSUME Unbroken(L)
      PROVE  Unbroken(M)
  <2>. SUFFICES ASSUME NEW r \in M, r.seq > 0
                PROVE  \E q \in M : Precedes(q, r)
    BY DEF Unbroken
  <2>1. PICK q \in L : Precedes(q, r)
    BY <1>4, <1>7 DEF Unbroken
  <2>2. ~Before(r, q)
    <3>1. q.seq \in Nat /\ q.epoch \in Nat /\ r.seq \in Nat /\ r.epoch \in Nat
      BY <1>4, <1>5 DEF Rows
    <3>. QED
      BY SMTT(30), <2>1, <3>1 DEF Before, Precedes
  <2>. QED
    BY <1>6, <2>1, <2>2
<1>. QED
  BY <1>3, <1>4, <1>7 DEF cut

-----------------------------------------------------------------------------
(* Types.  The steps that only move the writer, and those that do not.     *)

\* The writer's record when it moves on in its loop (Writer).
LEMMA WriterMoves ==
    ASSUME NEW w \in Writers, NEW p \in {"top", "flush", "seal", "returned"}
    PROVE  /\ [w EXCEPT !.pc = p] \in Writers /\ [w EXCEPT !.pc = p].pc = p
           /\ [w EXCEPT !.pc = p].seq = w.seq /\ [w EXCEPT !.pc = p].seen = w.seen
BY DEF Writers

\* A step that leaves the rows and the files as they are keeps the invariant
\* (receiver, passes of the writer without an append, failed inserts).
LEMMA StillKeeps ==
    ASSUME ChInv, UNCHANGED <<run, alive, frame, open, sealed, made, stored, tokens, upload>>,
           writer' \in Writers, writer'.seq = writer.seq, writer'.seen = writer.seen,
           writer'.pc = "seal" => frame = <<>>
    PROVE  ChInv'
<1>1. ChTypeOK'
  BY DEF ChInv, ChTypeOK
<1>2. TokensApart' /\ KnownIsStored' /\ OpenApart'
  BY SMTT(30) DEF ChInv, TokensApart, KnownIsStored, OpenApart, Unsent
<1>3. OpenRows' = OpenRows /\ Line' = Line
  BY DEF OpenRows, Line
<1>4. LineInv'
  BY <1>3 DEF ChInv, LineInv
<1>5. WriterKnows'
  BY SMTT(30), <1>3 DEF ChInv, WriterKnows, SegmentSelfContained
<1>. QED
  BY <1>1, <1>2, <1>4, <1>5 DEF ChInv

\* The typed parts of the line (ClickHouse).
LEMMA PartsTyped ==
    ASSUME ChInv
    PROVE  /\ Parts(stored, sealed, OpenRows, frame)
           /\ Ordered(stored, sealed, tokens, OpenRows, frame)
           /\ Len(sealed) \in Nat
           /\ open # Nothing => /\ open \in OpenSegments /\ open.rows = OpenRows
                                /\ open.token \in Nat /\ open.synced \in Nat
                                /\ open.synced \in 0..Len(open.rows)
<1>1. open # Nothing => open \in OpenSegments /\ open.rows \in Seq(Rows) /\ open.token \in Nat
                        /\ open.synced \in Nat /\ OpenRows = open.rows
  BY DEF ChInv, ChTypeOK, OpenSegments, OpenRows
<1>2. OpenRows \in Seq(Rows)
  BY <1>1, EmptyParts DEF OpenRows
<1>3. open # Nothing => open.synced \in 0..Len(open.rows)
  BY SMTT(30), <1>1 DEF ChInv, OpenApart
<1>. QED
  BY SMTT(30), <1>1, <1>2, <1>3 DEF ChInv, ChTypeOK, LineInv, Parts

\* What is on the line are rows (ClickHouse).
LEMMA LineTyped ==
    ASSUME ChInv
    PROVE  Line \subseteq Rows
<1>1. Parts(stored, sealed, OpenRows, frame)
  BY PartsTyped
<1>. QED
  BY <1>1, LineRows DEF Line

\* A segment is something (ClickHouse).
LEMMA SegmentThere == \A s \in OpenSegments : s # Nothing
BY ClickHouseAssumption

\* A pass of the writer's loop that may append the frame and sync (Flush).
LEMMA FlushKeeps ==
    ASSUME ChInv, NEW flush \in BOOLEAN, NEW sync \in BOOLEAN, NEW seal \in BOOLEAN,
           Flush(flush, sync, seal)
    PROVE  ChInv'
<1>1. /\ UNCHANGED <<run, alive, sealed, made, stored, tokens, upload>> /\ alive = TRUE
      /\ writer' = [writer EXCEPT !.pc = AfterFlush(seal)]
      /\ writer \in Writers /\ AfterFlush(seal) \in {"seal", "top"}
      /\ AfterFlush(seal) = "seal" => flush = TRUE
  BY DEF Flush, serverVars, ChInv, ChTypeOK, AfterFlush, WriterAt
<1>2. /\ writer' \in Writers /\ writer'.seq = writer.seq /\ writer'.seen = writer.seen
      /\ writer'.pc = AfterFlush(seal)
  <2>1. AfterFlush(seal) \in {"top", "flush", "seal", "returned"}
    BY <1>1
  <2>. QED
    BY <1>1, <2>1, WriterMoves
<1>3. CASE flush = TRUE /\ frame # <<>>
  <2>1. open # Nothing
    BY <1>3 DEF ChInv, WriterKnows
  <2>2. open' = Appended(sync) /\ frame' = <<>>
    BY <1>3 DEF Flush
  <2>. DEFINE n == IF sync THEN Len(open.rows \o frame) ELSE open.synced
  <2>3. /\ open \in OpenSegments /\ open.rows = OpenRows /\ OpenRows \in Seq(Rows)
        /\ frame \in Seq(Rows) /\ open.synced \in 0..Len(open.rows)
    BY <2>1, PartsTyped DEF Parts
  <2>4. /\ OpenRows \o frame \in Seq(Rows) /\ Len(OpenRows \o frame) = Len(OpenRows) + Len(frame)
        /\ Len(OpenRows) \in Nat /\ Len(frame) \in Nat
    BY SMTT(30), <2>3, ConcatParts
  <2>5. n \in Nat /\ n <= Len(OpenRows \o frame)
    BY SMTT(30), <2>3, <2>4
  <2>6. /\ open' = [open EXCEPT !.rows = OpenRows \o frame, !.synced = n]
    BY <2>2, <2>3 DEF Appended
  <2>. HIDE DEF n
  <2>7. /\ open' \in OpenSegments /\ open' # Nothing /\ open'.rows = OpenRows \o frame
        /\ open'.token = open.token /\ open'.synced = n
    <3>1. /\ open' \in OpenSegments /\ open'.rows = OpenRows \o frame
          /\ open'.token = open.token /\ open'.synced = n
      BY <2>3, <2>4, <2>5, <2>6 DEF OpenSegments
    <3>. QED
      BY <3>1, SegmentThere
  <2>8. OpenRows' = OpenRows \o frame
    BY <2>7 DEF OpenRows
  <2>9. ChTypeOK'
    BY <1>1, <1>2, <2>2, <2>7, EmptyParts DEF ChInv, ChTypeOK
  <2>10. TokensApart' /\ KnownIsStored'
    BY <1>1 DEF ChInv, TokensApart, KnownIsStored, Unsent
  <2>11. OpenApart'
    BY <1>1, <2>1, <2>5, <2>7 DEF ChInv, OpenApart
  <2>12. LineInv'
    <3>1. /\ Ordered(stored, sealed, tokens, OpenRows \o frame, <<>>)
          /\ LineOf(stored, sealed, OpenRows \o frame, <<>>) = Line
      BY SMTT(30), PartsTyped, AppendKeepsLine DEF Line
    <3>2. Line' = Line
      BY <1>1, <2>2, <2>8, <3>1 DEF Line
    <3>. QED
      BY <1>1, <1>2, <2>2, <2>8, <3>1, <3>2 DEF ChInv, LineInv
  <2>13. WriterKnows'
    <3>1. /\ Contained(OpenRows \o frame)
          /\ HasIdentity(OpenRows \o frame) <=> HasIdentity(OpenRows) \/ HasIdentity(frame)
      BY <2>3, ConcatContained DEF ChInv, WriterKnows, Contained
    <3>2. ContainedBehind(OpenRows', <<>>)
      BY EmptyParts
    <3>3. SegmentSelfContained'
      BY SMTT(30), <1>1 DEF ChInv, WriterKnows, SegmentSelfContained
    <3>. QED
      BY <1>1, <1>2, <2>2, <2>7, <2>8, <3>1, <3>2, <3>3 DEF ChInv, WriterKnows
  <2>. QED
    BY <2>9, <2>10, <2>11, <2>12, <2>13 DEF ChInv
<1>4. CASE ~(flush = TRUE /\ frame # <<>>)
  <2>1. /\ open' = IF sync /\ open # Nothing THEN [open EXCEPT !.synced = Len(open.rows)] ELSE open
        /\ frame' = frame
    BY <1>4 DEF Flush
  <2>2. writer'.pc = "seal" => frame = <<>>
    BY <1>1, <1>2, <1>4
  <2>3. CASE open' = open
    BY <1>1, <1>2, <2>1, <2>2, <2>3, StillKeeps
  <2>4. CASE sync /\ open # Nothing
    <3>1. /\ open \in OpenSegments /\ open.rows = OpenRows /\ OpenRows \in Seq(Rows)
      BY <2>4, PartsTyped DEF Parts
    <3>2. /\ open' \in OpenSegments /\ open' # Nothing /\ open'.rows = OpenRows
          /\ open'.token = open.token /\ open'.synced = Len(OpenRows) /\ Len(OpenRows) \in Nat
      <4>1. /\ open' \in OpenSegments /\ open'.rows = OpenRows /\ open'.token = open.token
            /\ open'.synced = Len(OpenRows) /\ Len(OpenRows) \in Nat
        BY SMTT(30), <2>1, <2>4, <3>1 DEF OpenSegments
      <4>. QED
        BY <4>1, SegmentThere
    <3>3. OpenRows' = OpenRows /\ Line' = Line
      BY <1>1, <2>1, <3>2 DEF OpenRows, Line
    <3>4. ChTypeOK'
      BY <1>1, <1>2, <2>1, <3>2 DEF ChInv, ChTypeOK
    <3>5. TokensApart' /\ KnownIsStored' /\ OpenApart'
      BY SMTT(30), <1>1, <2>4, <3>1, <3>2 DEF ChInv, TokensApart, KnownIsStored, OpenApart, Unsent
    <3>6. LineInv'
      BY <1>1, <1>2, <2>1, <3>3 DEF ChInv, LineInv
    <3>7. WriterKnows'
      BY SMTT(30), <1>1, <1>2, <2>1, <2>2, <3>2, <3>3 DEF ChInv, WriterKnows, SegmentSelfContained
    <3>. QED
      BY <3>4, <3>5, <3>6, <3>7 DEF ChInv
  <2>. QED
    BY <2>1, <2>3, <2>4
<1>. QED
  BY <1>3, <1>4

\* What is known of the files after the open segment, with the rows given, has
\* become one of them (Segment::seal, recover).
LEMMA SealedFile ==
    ASSUME ChInv, open # Nothing, NEW rows \in Seq(Rows), Contained(rows),
           Ordered(stored, sealed, tokens, rows, <<>>),
           sealed' = Append(sealed, [token |-> open.token, rows |-> rows]), open' = Nothing,
           UNCHANGED <<made, stored, tokens, upload>>
    PROVE  /\ sealed' \in Seq(Files) /\ OpenRows' = <<>>
           /\ TokensApart' /\ OpenApart' /\ KnownIsStored' /\ SegmentSelfContained'
           /\ Ordered(stored, sealed', tokens, <<>>, <<>>)
           /\ LineOf(stored, sealed', <<>>, <<>>) = LineOf(stored, sealed, rows, <<>>)
<1>. DEFINE file == [token |-> open.token, rows |-> rows]
<1>1. /\ open.token \in Nat /\ open.token \notin tokens /\ open.token <= made
      /\ stored \in Seq(Rows) /\ sealed \in Seq(Files) /\ made \in Nat
      /\ \A n \in 1..Len(sealed) : sealed[n].token # open.token
  BY PartsTyped DEF ChInv, ChTypeOK, OpenApart
<1>2. Parts(stored, sealed, rows, <<>>)
  BY <1>1, EmptyParts DEF Parts
<1>3. /\ Parts(stored, sealed', <<>>, <<>>)
      /\ Ordered(stored, sealed', tokens, <<>>, <<>>)
      /\ LineOf(stored, sealed', <<>>, <<>>) = LineOf(stored, sealed, rows, <<>>)
  BY <1>1, <1>2, SealKeepsLine
<1>4. file.token = open.token /\ file.rows = rows /\ file \in Files
  BY <1>1 DEF Files
<1>. HIDE DEF file
<1>5. /\ Len(sealed) \in Nat /\ Len(sealed') = Len(sealed) + 1
      /\ \A n \in 1..Len(sealed) : sealed'[n] = sealed[n]
      /\ sealed'[Len(sealed) + 1] = file
      /\ \A n \in 1..Len(sealed') : n \in Nat /\ (n \in 1..Len(sealed) \/ n = Len(sealed) + 1)
  BY SMTT(30), <1>1, <1>4 DEF file
<1>6. TokensApart'
  <2>1. \A n \in 1..Len(sealed') : sealed'[n].token <= made
    BY <1>1, <1>4, <1>5 DEF ChInv, TokensApart
  <2>2. ASSUME NEW m \in 1..Len(sealed'), NEW n \in 1..Len(sealed'), m < n
        PROVE  sealed'[m].token # sealed'[n].token
    <3>1. m \in 1..Len(sealed)
      BY SMTT(30), <1>5, <2>2
    <3>. QED
      BY SMTT(30), <1>1, <1>4, <1>5, <2>2, <3>1 DEF ChInv, TokensApart
  <2>3. ASSUME NEW n \in 2..Len(sealed')
        PROVE  sealed'[n].token \notin tokens
    <3>1. n \in 1..Len(sealed')
      BY SMTT(30), <1>5
    <3>2. CASE n = Len(sealed) + 1
      BY <1>1, <1>4, <1>5, <3>2
    <3>3. CASE n \in 1..Len(sealed)
      <4>1. n \in 2..Len(sealed)
        BY SMTT(30), <1>5, <3>3
      <4>. QED
        BY <1>5, <3>3, <4>1 DEF ChInv, TokensApart, Unsent
    <3>. QED
      BY <1>5, <3>1, <3>2, <3>3
  <2>. QED
    BY <2>1, <2>2, <2>3 DEF ChInv, TokensApart, Unsent
<1>7. KnownIsStored'
  <2>1. ASSUME NEW n \in 1..Len(sealed')
        PROVE  sealed'[n].token \notin tokens \/ Elements(sealed'[n].rows) \subseteq Elements(stored)
    <3>1. CASE n = Len(sealed) + 1
      BY <1>1, <1>4, <1>5, <3>1
    <3>2. CASE n \in 1..Len(sealed)
      BY <1>5, <3>2 DEF ChInv, KnownIsStored, Unsent
    <3>. QED
      BY <1>5, <3>1, <3>2
  <2>2. ASSUME upload = "acked"
        PROVE  sealed' # <<>> /\ sealed'[1].token \in tokens
    <3>1. sealed # <<>> /\ sealed[1].token \in tokens
      BY <2>2 DEF ChInv, KnownIsStored, Unsent
    <3>2. 1 \in 1..Len(sealed)
      BY SMTT(30), <1>1, <3>1
    <3>. QED
      BY SMTT(30), <1>5, <3>1, <3>2
  <2>. QED
    BY <2>1, <2>2 DEF KnownIsStored, Unsent
<1>8. SegmentSelfContained'
  <2>1. ASSUME NEW n \in 1..Len(sealed'), NEW i \in 1..Len(sealed'[n].rows),
               sealed'[n].rows[i].kind = "event"
        PROVE  \E j \in 1..(i - 1) : sealed'[n].rows[j].kind = "identity"
    <3>1. CASE n = Len(sealed) + 1
      BY SMTT(30), <1>4, <1>5, <2>1, <3>1, EmptyParts DEF Contained, ContainedBehind
    <3>2. CASE n \in 1..Len(sealed)
      BY SMTT(30), <1>5, <2>1, <3>2 DEF ChInv, WriterKnows, SegmentSelfContained
    <3>. QED
      BY <1>5, <3>1, <3>2
  <2>. QED
    BY <2>1 DEF SegmentSelfContained
<1>9. OpenRows' = <<>> /\ OpenApart'
  BY DEF OpenRows, OpenApart
<1>. QED
  BY <1>3, <1>6, <1>7, <1>8, <1>9 DEF Parts


\* The end of a segment (Seal).
LEMMA SealKeeps ==
    ASSUME ChInv, Seal
    PROVE  ChInv'
<1>1. /\ UNCHANGED <<run, alive, frame, made, stored, tokens, upload>> /\ alive = TRUE
      /\ writer.pc = "seal" /\ open' = Nothing /\ frame = <<>>
      /\ writer \in Writers
  BY DEF Seal, WriterAt, serverVars, ChInv, ChTypeOK, WriterKnows
<1>2. writer' \in Writers /\ writer'.seq = writer.seq /\ writer'.seen = FALSE
  <2>1. PICK p \in {"top", "flush", "seal", "returned"} :
            writer' = [[writer EXCEPT !.seen = FALSE] EXCEPT !.pc = p]
    BY DEF Seal, Forgotten
  <2>. DEFINE v == [writer EXCEPT !.seen = FALSE]
  <2>2. v \in Writers /\ v.seq = writer.seq /\ v.seen = FALSE
    BY <1>1 DEF Writers
  <2>. HIDE DEF v
  <2>3. writer' = [v EXCEPT !.pc = p]
    BY <2>1 DEF v
  <2>. QED
    BY <2>2, <2>3 DEF Writers
<1>3. CASE open = Nothing
  <2>1. sealed' = sealed
    BY <1>3 DEF Seal
  <2>2. OpenRows = <<>> /\ OpenRows' = <<>> /\ Line' = Line
    BY <1>1, <1>3, <2>1 DEF OpenRows, Line
  <2>3. ChTypeOK'
    BY <1>1, <1>2, <2>1 DEF ChInv, ChTypeOK
  <2>4. TokensApart' /\ KnownIsStored' /\ OpenApart' /\ SegmentSelfContained'
    BY SMTT(30), <1>1, <2>1 DEF ChInv, TokensApart, KnownIsStored, OpenApart, Unsent, WriterKnows,
                      SegmentSelfContained
  <2>5. LineInv'
    BY <1>1, <1>2, <2>1, <2>2 DEF ChInv, LineInv
  <2>6. WriterKnows'
    BY <1>1, <1>2, <2>2, <2>4, EmptyParts DEF WriterKnows, Contained
  <2>. QED
    BY <2>3, <2>4, <2>5, <2>6 DEF ChInv
<1>4. CASE open # Nothing
  <2>1. sealed' = Append(sealed, [token |-> open.token, rows |-> OpenRows])
    BY <1>4, PartsTyped DEF Seal
  <2>2. OpenRows \in Seq(Rows) /\ Contained(OpenRows)
        /\ Ordered(stored, sealed, tokens, OpenRows, <<>>)
    BY <1>1, PartsTyped DEF ChInv, WriterKnows, Parts
  <2>3. /\ sealed' \in Seq(Files) /\ OpenRows' = <<>>
        /\ TokensApart' /\ OpenApart' /\ KnownIsStored' /\ SegmentSelfContained'
        /\ Ordered(stored, sealed', tokens, <<>>, <<>>)
        /\ LineOf(stored, sealed', <<>>, <<>>) = LineOf(stored, sealed, OpenRows, <<>>)
    BY <1>1, <1>4, <2>1, <2>2, SealedFile
  <2>4. Line' = Line
    BY <1>1, <2>3 DEF Line
  <2>5. ChTypeOK'
    BY <1>1, <1>2, <2>3 DEF ChInv, ChTypeOK
  <2>6. LineInv'
    BY <1>1, <1>2, <2>3, <2>4 DEF ChInv, LineInv
  <2>7. WriterKnows'
    BY <1>1, <1>2, <2>3, EmptyParts DEF WriterKnows, Contained
  <2>. QED
    BY <2>3, <2>5, <2>6, <2>7 DEF ChInv
<1>. QED
  BY <1>3, <1>4

\* On a full disk the frame is appended and the segment sealed (WhileFull).
LEMMA WhileFullKeeps ==
    ASSUME ChInv, WhileFull
    PROVE  ChInv'
<1>1. /\ UNCHANGED <<run, alive, made, stored, tokens, upload>> /\ alive = TRUE
      /\ open # Nothing /\ open' = Nothing /\ frame' = <<>>
      /\ writer' = [writer EXCEPT !.seen = FALSE] /\ writer \in Writers
  BY DEF WhileFull, WriterAt, serverVars, ChInv, ChTypeOK, Forgotten
<1>2. writer' \in Writers /\ writer'.seq = writer.seq /\ writer'.seen = FALSE
  BY <1>1 DEF Writers
<1>3. /\ sealed' = Append(sealed, [token |-> open.token, rows |-> OpenRows \o frame])
      /\ OpenRows \in Seq(Rows) /\ frame \in Seq(Rows)
  BY <1>1, PartsTyped DEF WhileFull, Parts
<1>4. OpenRows \o frame \in Seq(Rows) /\ Contained(OpenRows \o frame)
  BY <1>3, ConcatParts, ConcatContained DEF ChInv, WriterKnows, Contained
<1>5. /\ Ordered(stored, sealed, tokens, OpenRows \o frame, <<>>)
      /\ LineOf(stored, sealed, OpenRows \o frame, <<>>) = Line
  BY SMTT(30), PartsTyped, AppendKeepsLine DEF Line
<1>6. /\ sealed' \in Seq(Files) /\ OpenRows' = <<>>
      /\ TokensApart' /\ OpenApart' /\ KnownIsStored' /\ SegmentSelfContained'
      /\ Ordered(stored, sealed', tokens, <<>>, <<>>)
      /\ LineOf(stored, sealed', <<>>, <<>>) = Line
  BY <1>1, <1>3, <1>4, <1>5, SealedFile
<1>7. Line' = Line
  BY <1>1, <1>6 DEF Line
<1>8. ChTypeOK'
  BY <1>1, <1>2, <1>6, EmptyParts DEF ChInv, ChTypeOK
<1>9. LineInv'
  BY <1>1, <1>2, <1>6, <1>7 DEF ChInv, LineInv
<1>10. WriterKnows'
  BY <1>1, <1>2, <1>6, EmptyParts DEF WriterKnows, Contained
<1>. QED
  BY <1>6, <1>8, <1>9, <1>10 DEF ChInv

\* The next run seals the segment that it finds (Start).
LEMMA StartKeeps ==
    ASSUME ChInv, Start
    PROVE  ChInv'
<1>1. /\ UNCHANGED <<writer, frame, made, stored, tokens, upload>>
      /\ alive = FALSE /\ alive' = TRUE /\ run' = run + 1 /\ open' = Nothing /\ run \in Nat
      /\ frame = <<>> /\ writer.seen = FALSE /\ writer.seq = 0
  BY DEF Start, serverVars, ChInv, ChTypeOK, WriterKnows
<1>2. /\ sealed' \in Seq(Files) /\ OpenRows' = <<>>
      /\ TokensApart' /\ OpenApart' /\ KnownIsStored' /\ SegmentSelfContained'
      /\ Ordered(stored, sealed', tokens, <<>>, <<>>)
      /\ Line' = Line
  <2>1. CASE open = Nothing
    <3>1. sealed' = sealed
      BY <2>1 DEF Start, Recovered
    <3>2. OpenRows = <<>> /\ OpenRows' = <<>> /\ Line' = Line
      BY <1>1, <2>1, <3>1 DEF OpenRows, Line
    <3>3. TokensApart' /\ KnownIsStored' /\ OpenApart' /\ SegmentSelfContained'
      BY SMTT(30), <1>1, <3>1 DEF ChInv, TokensApart, KnownIsStored, OpenApart, Unsent, WriterKnows,
                        SegmentSelfContained
    <3>. QED
      BY <1>1, <3>1, <3>2, <3>3 DEF ChInv, ChTypeOK, LineInv
  <2>2. CASE open # Nothing
    <3>1. sealed' = Append(sealed, [token |-> open.token, rows |-> OpenRows])
      BY <2>2, PartsTyped DEF Start, Recovered
    <3>2. OpenRows \in Seq(Rows) /\ Contained(OpenRows)
          /\ Ordered(stored, sealed, tokens, OpenRows, <<>>)
      BY <1>1, PartsTyped DEF ChInv, WriterKnows, Parts
    <3>3. /\ sealed' \in Seq(Files) /\ OpenRows' = <<>>
          /\ TokensApart' /\ OpenApart' /\ KnownIsStored' /\ SegmentSelfContained'
          /\ Ordered(stored, sealed', tokens, <<>>, <<>>)
          /\ LineOf(stored, sealed', <<>>, <<>>) = LineOf(stored, sealed, OpenRows, <<>>)
      BY <1>1, <2>2, <3>1, <3>2, SealedFile
    <3>. QED
      BY <1>1, <3>3 DEF Line
  <2>. QED
    BY <2>1, <2>2
<1>3. ChTypeOK'
  BY SMTT(30), <1>1, <1>2 DEF ChInv, ChTypeOK
<1>4. LineInv'
  <2>1. Line \subseteq Rows /\ \A r \in Line : r.epoch <= run
    BY <1>1, LineTyped DEF ChInv, LineInv
  <2>2. \A r \in Line : r.epoch \in Nat
    BY <2>1 DEF Rows
  <2>3. Fits(Line, run + 1, 0)
    BY SMTT(30), <1>1, <2>1, <2>2 DEF Fits
  <2>. QED
    BY <1>1, <1>2, <2>3 DEF ChInv, LineInv
<1>5. WriterKnows'
  BY <1>1, <1>2, EmptyParts DEF ChInv, WriterKnows, Contained
<1>. QED
  BY <1>2, <1>3, <1>4, <1>5 DEF ChInv

\* The process ends, and of the open segment the first n rows remain (Gone).
LEMMA GoneKeeps ==
    ASSUME ChInv, NEW n \in Nat, NEW file,
           alive = TRUE, Gone(file),
           IF open = Nothing THEN n = 0 /\ file = Nothing
           ELSE /\ n \in 0..Len(open.rows) /\ file \in OpenSegments
                /\ file.rows = SubSeq(open.rows, 1, n) /\ file.token = open.token
                /\ file.synced <= n
    PROVE  ChInv'
<1>1. /\ UNCHANGED <<run, sealed, made, stored, tokens>>
      /\ alive' = FALSE /\ writer' = NewWriter /\ frame' = <<>> /\ open' = file
      /\ upload' = "idle"
  BY DEF Gone
<1>2. /\ writer' \in Writers /\ writer'.seq = 0 /\ writer'.seen = FALSE /\ writer'.pc = "top"
  BY <1>1 DEF NewWriter, Writers
<1>3. Parts(stored, sealed, OpenRows, frame) /\ OpenRows \in Seq(Rows)
  BY PartsTyped DEF Parts
<1>4. n \in 0..Len(OpenRows) /\ OpenRows' = SubSeq(OpenRows, 1, n)
  <2>1. CASE open = Nothing
    <3>1. OpenRows = <<>> /\ OpenRows' = <<>> /\ n = 0 /\ SubSeq(<<>>, 1, 0) = <<>>
      BY SMTT(30), <1>1, <2>1 DEF OpenRows
    <3>. QED
      BY SMTT(30), <3>1, EmptyParts
  <2>2. CASE open # Nothing
    BY <1>1, <2>2, PartsTyped, SegmentThere DEF OpenRows
  <2>. QED
    BY <2>1, <2>2
<1>5. /\ Len(OpenRows') = n /\ (Contained(OpenRows) => Contained(OpenRows'))
      /\ OpenRows' \in Seq(Rows)
  BY <1>3, <1>4, PrefixParts
<1>6. ChTypeOK'
  BY <1>1, <1>2, EmptyParts DEF ChInv, ChTypeOK
<1>7. TokensApart' /\ KnownIsStored'
  BY <1>1 DEF ChInv, TokensApart, KnownIsStored, Unsent
<1>8. OpenApart'
  <2>. SUFFICES ASSUME file # Nothing
                PROVE  OpenApart'
    BY <1>1 DEF OpenApart
  <2>1. open # Nothing /\ file.token = open.token /\ file.synced <= n /\ file.rows = OpenRows'
    BY <1>1 DEF OpenRows
  <2>. QED
    BY <1>1, <1>5, <2>1 DEF ChInv, OpenApart
<1>9. LineInv'
  <2>1. \A i \in 1..Len(sealed) :
            sealed[i].token \notin tokens \/ Elements(sealed[i].rows) \subseteq Elements(stored)
    BY DEF ChInv, KnownIsStored, Unsent
  <2>2. /\ Ordered(stored, sealed, tokens, OpenRows', <<>>)
        /\ LineOf(stored, sealed, OpenRows', <<>>) \subseteq Line
        /\ Unbroken(Line) => Unbroken(LineOf(stored, sealed, OpenRows', <<>>))
    BY <1>3, <1>4, <2>1, PartsTyped, CutKeepsLine DEF Line
  <2>3. Line' = LineOf(stored, sealed, OpenRows', <<>>)
    BY <1>1 DEF Line
  <2>4. \A r \in Line : r.epoch <= run
    <3>1. Line \subseteq Rows
      BY LineTyped
    <3>2. \A r \in Line : r.epoch \in Nat
      BY <3>1 DEF Rows
    <3>. QED
      BY SMTT(30), <3>2 DEF ChInv, ChTypeOK, LineInv, Fits
  <2>. QED
    BY <1>1, <2>2, <2>3, <2>4 DEF ChInv, LineInv
<1>10. WriterKnows'
  <2>1. SegmentSelfContained /\ sealed' = sealed
    BY <1>1 DEF ChInv, WriterKnows
  <2>2. SegmentSelfContained'
    <3>. SUFFICES ASSUME NEW m \in 1..Len(sealed'), NEW i \in 1..Len(sealed'[m].rows),
                         sealed'[m].rows[i].kind = "event"
                  PROVE  \E j \in 1..(i - 1) : sealed'[m].rows[j].kind = "identity"
      BY DEF SegmentSelfContained
    <3>. QED
      BY <2>1 DEF SegmentSelfContained
  <2>. QED
    BY <1>1, <1>2, <1>5, <2>2, EmptyParts DEF ChInv, WriterKnows
<1>. QED
  BY <1>6, <1>7, <1>8, <1>9, <1>10 DEF ChInv

\* An insert, which the server stores unless it knows the token (Insert).
LEMMA InsertKeeps ==
    ASSUME ChInv, NEW b \in BOOLEAN, Insert(b)
    PROVE  ChInv' /\ Elements(stored) \subseteq Elements(stored')
<1>1. /\ UNCHANGED <<run, alive, writer, frame, open, sealed, made>>
      /\ sealed # <<>> /\ upload' \in {"idle", "acked"}
      /\ stored' = Inserted(Head(sealed)) /\ tokens' = tokens \cup {Head(sealed).token}
  BY DEF Insert, UploaderOn, spoolVars, ChInv, ChTypeOK
<1>2. /\ sealed \in Seq(Files) /\ Len(sealed) \in Nat /\ 1 \in 1..Len(sealed)
      /\ Head(sealed) = sealed[1] /\ stored \in Seq(Rows) /\ tokens \subseteq Nat
  BY SMTT(30), <1>1 DEF ChInv, ChTypeOK
<1>3. sealed[1] \in Files /\ sealed[1].token \in Nat
  <2>1. sealed[1] \in Files
    BY SMTT(30), <1>2
  <2>. QED
    BY <2>1 DEF Files
<1>4. /\ stored' \in Seq(Rows) /\ Elements(sealed[1].rows) \subseteq Elements(stored')
      /\ Elements(stored) \subseteq Elements(stored')
      /\ Ordered(stored', sealed, tokens', OpenRows, frame)
      /\ LineOf(stored', sealed, OpenRows, frame) = Line
  <2>1. CASE sealed[1].token \in tokens
    <3>1. stored' = stored /\ tokens' = tokens
      BY <1>1, <1>2, <2>1 DEF Inserted
    <3>2. Elements(sealed[1].rows) \subseteq Elements(stored)
      BY <1>2, <2>1 DEF ChInv, KnownIsStored, Unsent
    <3>. QED
      BY <1>2, <3>1, <3>2 DEF ChInv, LineInv, Line
  <2>2. CASE sealed[1].token \notin tokens
    <3>1. stored' = stored \o sealed[1].rows /\ tokens' = tokens \cup {sealed[1].token}
      BY <1>1, <1>2, <2>2 DEF Inserted
    <3>2. sealed[1].rows \in Seq(Rows)
      BY <1>3 DEF Files
    <3>3. Elements(stored) \subseteq Elements(stored')
      BY SMTT(30), <1>2, <3>1, <3>2, ConcatParts
    <3>4. /\ stored \o sealed[1].rows \in Seq(Rows)
          /\ Ordered(stored \o sealed[1].rows, sealed, tokens \cup {sealed[1].token}, OpenRows, frame)
          /\ LineOf(stored \o sealed[1].rows, sealed, OpenRows, frame)
                 = LineOf(stored, sealed, OpenRows, frame)
          /\ Elements(sealed[1].rows) \subseteq Elements(stored \o sealed[1].rows)
      <4>1. Parts(stored, sealed, OpenRows, frame) /\ Ordered(stored, sealed, tokens, OpenRows, frame)
        BY PartsTyped
      <4>. QED
        BY <1>1, <2>2, <4>1, InsertKeepsLine
    <3>. QED
      BY <3>1, <3>3, <3>4 DEF Line
  <2>. QED
    BY <2>1, <2>2
<1>5. OpenRows' = OpenRows /\ Line' = Line
  BY <1>1, <1>4 DEF OpenRows, Line
<1>6. ChTypeOK'
  BY <1>1, <1>2, <1>3, <1>4 DEF ChInv, ChTypeOK
<1>7. TokensApart'
  <2>1. \A n \in 2..Len(sealed) : n \in 1..Len(sealed) /\ 1 < n /\ sealed[n].token # sealed[1].token
    BY SMTT(30), <1>2 DEF ChInv, TokensApart
  <2>2. \A t \in tokens' : t <= made
    BY <1>1, <1>2 DEF ChInv, TokensApart
  <2>3. \A n \in 2..Len(sealed) : sealed[n].token \notin tokens'
    BY <1>1, <1>2, <2>1 DEF ChInv, TokensApart, Unsent
  <2>. QED
    BY <1>1, <2>2, <2>3 DEF ChInv, TokensApart, Unsent
<1>8. OpenApart'
  <2>1. open # Nothing => open.token \notin tokens'
    BY <1>1, <1>2 DEF ChInv, OpenApart
  <2>. QED
    BY <1>1, <2>1 DEF ChInv, OpenApart
<1>9. KnownIsStored'
  <2>1. ASSUME NEW n \in 1..Len(sealed)
        PROVE  sealed[n].token \notin tokens' \/ Elements(sealed[n].rows) \subseteq Elements(stored')
    <3>1. CASE sealed[n].token \in tokens
      BY <1>4, <3>1 DEF ChInv, KnownIsStored, Unsent
    <3>2. CASE n = 1
      BY <1>4, <3>2
    <3>3. CASE n # 1 /\ sealed[n].token \notin tokens
      <4>1. 1 < n /\ sealed[n].token # sealed[1].token
        BY SMTT(30), <1>2, <3>3 DEF ChInv, TokensApart
      <4>. QED
        BY <1>1, <1>2, <3>3, <4>1
    <3>. QED
      BY <3>1, <3>2, <3>3
  <2>2. sealed[1].token \in tokens'
    BY <1>1, <1>2
  <2>. QED
    BY <1>1, <2>1, <2>2 DEF KnownIsStored, Unsent
<1>10. LineInv'
  BY <1>1, <1>4, <1>5 DEF ChInv, LineInv
<1>11. WriterKnows'
  BY SMTT(30), <1>1, <1>5 DEF ChInv, WriterKnows, SegmentSelfContained
<1>. QED
  BY <1>4, <1>6, <1>7, <1>8, <1>9, <1>10, <1>11 DEF ChInv

\* A file that the server has stored is removed (Remove).
LEMMA RemoveKeeps ==
    ASSUME ChInv, Remove
    PROVE  /\ ChInv'
           /\ sealed # <<>> /\ Elements(sealed[1].rows) \subseteq Elements(stored)
<1>1. /\ UNCHANGED <<run, alive, writer, frame, open, made, stored, tokens>>
      /\ sealed # <<>> /\ upload = "acked" /\ upload' = "idle" /\ sealed' = Tail(sealed)
  BY DEF Remove, UploaderOn
<1>2. /\ sealed \in Seq(Files) /\ Len(sealed) \in Nat /\ 1 \in 1..Len(sealed)
  BY SMTT(30), <1>1 DEF ChInv, ChTypeOK
<1>3. Elements(sealed[1].rows) \subseteq Elements(stored)
  BY <1>1, <1>2 DEF ChInv, KnownIsStored, Unsent
<1>4. /\ Parts(stored, sealed', OpenRows, frame)
      /\ Ordered(stored, sealed', tokens, OpenRows, frame)
      /\ LineOf(stored, sealed', OpenRows, frame) = Line
  BY SMTT(30), <1>1, <1>3, PartsTyped, RemoveKeepsLine DEF Line
<1>5. OpenRows' = OpenRows /\ Line' = Line
  BY <1>1, <1>4 DEF OpenRows, Line
<1>6. /\ Len(sealed') = Len(sealed) - 1
      /\ \A n \in 1..Len(sealed') : n \in Nat /\ n + 1 \in 1..Len(sealed) /\ sealed'[n] = sealed[n + 1]
  BY SMTT(30), <1>1, <1>2
<1>7. ChTypeOK'
  BY <1>1, <1>4 DEF ChInv, ChTypeOK, Parts
<1>8. TokensApart'
  <2>1. ASSUME NEW m \in 1..Len(sealed'), NEW n \in 1..Len(sealed'), m < n
        PROVE  sealed'[m].token # sealed'[n].token
    <3>1. m + 1 \in 1..Len(sealed) /\ n + 1 \in 1..Len(sealed) /\ m + 1 < n + 1
      BY SMTT(30), <1>6, <2>1
    <3>2. sealed[m + 1].token # sealed[n + 1].token
      BY <3>1 DEF ChInv, TokensApart
    <3>. QED
      BY <1>6, <3>2
  <2>2. ASSUME NEW n \in 2..Len(sealed')
        PROVE  sealed'[n].token \notin tokens
    <3>1. n \in 1..Len(sealed') /\ n + 1 \in 2..Len(sealed)
      BY SMTT(30), <1>2, <1>6
    <3>. QED
      BY <1>6, <3>1 DEF ChInv, TokensApart, Unsent
  <2>3. \A n \in 1..Len(sealed') : sealed'[n].token <= made
    BY <1>6 DEF ChInv, TokensApart
  <2>. QED
    BY <1>1, <2>1, <2>2, <2>3 DEF ChInv, TokensApart, Unsent
<1>9. OpenApart'
  BY <1>1, <1>6 DEF ChInv, OpenApart
<1>10. KnownIsStored'
  BY <1>1, <1>6 DEF ChInv, KnownIsStored, Unsent
<1>11. LineInv'
  BY <1>1, <1>4, <1>5 DEF ChInv, LineInv
<1>12. WriterKnows'
  <2>1. SegmentSelfContained
    BY DEF ChInv, WriterKnows
  <2>2. ASSUME NEW n \in 1..Len(sealed'), NEW i \in 1..Len(sealed'[n].rows),
               sealed'[n].rows[i].kind = "event"
        PROVE  \E j \in 1..(i - 1) : sealed'[n].rows[j].kind = "identity"
    <3>1. n + 1 \in 1..Len(sealed) /\ sealed'[n] = sealed[n + 1]
      BY <1>6
    <3>2. i \in 1..Len(sealed[n + 1].rows) /\ sealed[n + 1].rows[i].kind = "event"
      BY <2>2, <3>1
    <3>3. \E j \in 1..(i - 1) : sealed[n + 1].rows[j].kind = "identity"
      BY <2>1, <3>1, <3>2 DEF SegmentSelfContained
    <3>. QED
      BY <3>1, <3>3
  <2>3. SegmentSelfContained'
    BY <2>2 DEF SegmentSelfContained
  <2>. QED
    BY <1>1, <1>5, <2>3 DEF ChInv, WriterKnows
<1>. QED
  BY <1>1, <1>3, <1>7, <1>8, <1>9, <1>10, <1>11, <1>12 DEF ChInv

\* The rows that the writer encodes have the numbers that come next (Encoded).
LEMMA EncodeKeepsLine ==
    ASSUME NEW st, NEW sl, NEW tk, NEW op, NEW fr, Parts(st, sl, op, fr),
           Ordered(st, sl, tk, op, fr), NEW e \in Nat, NEW seq \in Nat, NEW s \in Seq(Rows),
           Unbroken(LineOf(st, sl, op, fr)), Fits(LineOf(st, sl, op, fr), e, seq),
           Len(s) > 0, \A i \in 1..Len(s) : s[i].epoch = e /\ s[i].seq = seq + i - 1,
           \A i \in 1..Len(sl) : sl[i].token \notin tk \/ Elements(sl[i].rows) \subseteq Elements(st)
    PROVE  /\ Ordered(st, sl, tk, op, fr \o s)
           /\ Unbroken(LineOf(st, sl, op, fr \o s))
           /\ Fits(LineOf(st, sl, op, fr \o s), e, seq + Len(s))
<1>. DEFINE L == LineOf(st, sl, op, fr)
            M == LineOf(st, sl, op, fr \o s)
            n == Len(s)
<1>1. /\ fr \in Seq(Rows) /\ n \in Nat /\ n >= 1
      /\ Elements(fr \o s) = Elements(fr) \cup Elements(s)
  BY SMTT(30), ConcatParts DEF Parts
<1>2. M = L \cup Elements(s)
  BY <1>1 DEF LineOf
<1>3. /\ Elements(s) \subseteq Rows
      /\ \A r \in Elements(s) : r.epoch = e /\ \E i \in 1..n : r.seq = seq + i - 1
      /\ \A i \in 1..n : s[i] \in Elements(s)
  <2>1. \A r \in Elements(s) : \E i \in 1..n : r = s[i]
    BY DEF Elements
  <2>2. \A i \in 1..n : s[i] \in Elements(s)
    BY DEF Elements
  <2>3. \A i \in 1..n : s[i] \in Rows
    BY SMTT(30)
  <2>4. Elements(s) \subseteq Rows
    BY <2>1, <2>3
  <2>5. ASSUME NEW r \in Elements(s)
        PROVE  r.epoch = e /\ \E i \in 1..n : r.seq = seq + i - 1
    <3>1. PICK i \in 1..n : r = s[i]
      BY <2>1
    <3>. QED
      BY <3>1
  <2>. QED
    BY <2>2, <2>4, <2>5
<1>4. AllBefore(L, Elements(s))
  <2>. SUFFICES ASSUME NEW r \in L, NEW q \in Elements(s)
                PROVE  Before(r, q)
    BY DEF AllBefore
  <2>1. PICK i \in 1..n : q.epoch = e /\ q.seq = seq + i - 1
    BY <1>3
  <2>2. r \in Rows
    BY LineRows
  <2>3. r.seq \in Nat /\ (r.epoch < e \/ (r.epoch = e /\ r.seq < seq))
    BY <2>2 DEF Fits, Rows
  <2>. QED
    BY SMTT(30), <2>1, <2>3 DEF Before
<1>5. Increasing(s)
  <2>. SUFFICES ASSUME NEW i \in 1..n, NEW j \in 1..n, i < j
                PROVE  Before(s[i], s[j])
    BY DEF Increasing
  <2>. QED
    BY SMTT(30), <1>1 DEF Before
<1>. HIDE DEF L, M, n
<1>6. /\ Elements(st) \subseteq L /\ Elements(op) \subseteq L /\ Elements(fr) \subseteq L
      /\ InFiles(sl) \subseteq L
  BY DEF L, LineOf
<1>7. ASSUME NEW i \in 1..Len(sl)
      PROVE  Elements(sl[i].rows) \subseteq L
  <2>1. sl[i] \in Files
    BY SMTT(30) DEF Parts
  <2>2. sl[i].rows \in Seq(Rows)
    BY <2>1 DEF Files
  <2>3. Elements(sl[i].rows) \subseteq Rows
    BY SMTT(30), <2>2 DEF Elements
  <2>. QED
    BY <1>6, <2>3 DEF InFiles
<1>8. Increasing(fr \o s)
  <2>1. Increasing(fr) /\ AllBefore(Elements(fr), Elements(s))
    BY <1>4, <1>6 DEF Ordered, PartsSorted, AllBefore
  <2>. QED
    BY <1>1, <1>5, <2>1, ConcatIncreasing
<1>9. PartsSorted(st, sl, op, fr \o s)
  BY <1>8 DEF Ordered, PartsSorted
<1>10. PartsInOrder(st, sl, tk, op, fr \o s)
  <2>1. \A A : A \subseteq L /\ AllBefore(A, Elements(fr)) => AllBefore(A, Elements(fr \o s))
    BY <1>1, <1>4 DEF AllBefore
  <2>. QED
    BY <1>6, <1>7, <2>1 DEF Ordered, PartsInOrder
<1>11. Unbroken(M)
  <2>. SUFFICES ASSUME NEW r \in M, r.seq > 0
                PROVE  \E q \in M : Precedes(q, r)
    BY DEF Unbroken
  <2>1. CASE r \in L
    BY <1>2, <2>1 DEF Unbroken, L
  <2>2. CASE r \in Elements(s)
    <3>1. PICK i \in 1..n : r.epoch = e /\ r.seq = seq + i - 1
      BY <1>3, <2>2 DEF n
    <3>2. CASE i = 1
      <4>1. PICK q \in L : q.epoch = e /\ q.seq + 1 = seq
        BY SMTT(30), <3>1, <3>2 DEF Fits, L
      <4>. QED
        BY SMTT(30), <1>2, <3>1, <3>2, <4>1 DEF Precedes
    <3>3. CASE i # 1
      <4>1. i - 1 \in 1..n /\ i \in Nat
        BY SMTT(30), <1>1, <3>3
      <4>2. s[i - 1] \in Elements(s) /\ s[i - 1].epoch = e /\ s[i - 1].seq = seq + (i - 1) - 1
        BY <1>3, <4>1 DEF n
      <4>. QED
        BY SMTT(30), <1>2, <3>1, <4>1, <4>2 DEF Precedes
    <3>. QED
      BY <3>2, <3>3
  <2>. QED
    BY <1>2, <2>1, <2>2
<1>12. Fits(M, e, seq + n)
  <2>1. ASSUME NEW r \in M
        PROVE  r.epoch < e \/ (r.epoch = e /\ r.seq < seq + n)
    <3>1. CASE r \in L
      <4>1. r \in Rows
        BY SMTT(30), <3>1 DEF Parts, L, LineOf, InFiles, Elements
      <4>2. r.seq \in Nat /\ (r.epoch < e \/ (r.epoch = e /\ r.seq < seq))
        BY <3>1, <4>1 DEF Fits, Rows, L
      <4>. QED
        BY SMTT(30), <1>1, <4>2
    <3>2. CASE r \in Elements(s)
      <4>1. PICK i \in 1..n : r.epoch = e /\ r.seq = seq + i - 1
        BY <1>3, <3>2 DEF n
      <4>. QED
        BY SMTT(30), <1>1, <4>1
    <3>. QED
      BY <1>2, <3>1, <3>2
  <2>2. n \in 1..n /\ s[n] \in M /\ s[n].epoch = e /\ s[n].seq = seq + n - 1
    BY SMTT(30), <1>1, <1>2, <1>3 DEF n
  <2>3. s[n].seq + 1 = seq + n
    BY SMTT(30), <1>1, <2>2
  <2>. QED
    BY <2>1, <2>2, <2>3 DEF Fits
<1>. QED
  BY <1>9, <1>10, <1>11, <1>12 DEF Ordered, L, M, n

\* What is encoded of an event (Encoded).
LEMMA EncodedRows ==
    ASSUME run \in Nat, writer \in Writers, NEW kind \in Kinds
    PROVE  LET s == Encoded(kind) IN
           /\ s \in Seq(Rows) /\ Len(s) \in Nat /\ Len(s) > 0
           /\ \A i \in 1..Len(s) : s[i].epoch = run /\ s[i].seq = writer.seq + i - 1
           /\ \A i \in 1..Len(s) : s[i].kind = "event" =>
                  writer.seen = TRUE \/ \E j \in 1..(i - 1) : s[j].kind = "identity"
           /\ kind = "event" => writer.seen = TRUE \/ HasIdentity(s)
<1>1. writer.seq \in Nat /\ writer.seen \in BOOLEAN
  BY DEF Writers
<1>. DEFINE a == [epoch |-> run, seq |-> writer.seq, kind |-> "identity"]
            b == [epoch |-> run, seq |-> writer.seq + 1, kind |-> kind]
            c == [epoch |-> run, seq |-> writer.seq, kind |-> kind]
<1>2. /\ a \in Rows /\ a.epoch = run /\ a.seq = writer.seq /\ a.kind = "identity"
      /\ b \in Rows /\ b.epoch = run /\ b.seq = writer.seq + 1 /\ b.kind = kind
      /\ c \in Rows /\ c.epoch = run /\ c.seq = writer.seq /\ c.kind = kind
  BY SMTT(30), <1>1 DEF Rows, Kinds
<1>3. Encoded(kind) = IF kind = "event" /\ ~writer.seen THEN <<a, b>> ELSE <<c>>
  BY DEF Encoded, Row
<1>. HIDE DEF a, b, c
<1>4. CASE kind = "event" /\ writer.seen = FALSE
  <2>. DEFINE s == <<a, b>>
  <2>1. Encoded(kind) = s
    BY <1>3, <1>4
  <2>2. s \in Seq(Rows) /\ Len(s) = 2 /\ s[1] = a /\ s[2] = b
    BY SMTT(30), <1>2
  <2>. HIDE DEF s
  <2>3. \A i \in 1..Len(s) : s[i].epoch = run /\ s[i].seq = writer.seq + i - 1
    BY SMTT(30), <1>1, <1>2, <2>2
  <2>4. ASSUME NEW i \in 1..Len(s), s[i].kind = "event"
        PROVE  \E j \in 1..(i - 1) : s[j].kind = "identity"
    <3>1. i = 2 /\ 1 \in 1..(i - 1) /\ s[1].kind = "identity"
      BY SMTT(30), <1>2, <2>2, <2>4
    <3>. QED
      BY <3>1
  <2>5. HasIdentity(s)
    BY SMTT(30), <1>2, <2>2 DEF HasIdentity
  <2>. QED
    BY SMTT(30), <2>1, <2>2, <2>3, <2>4, <2>5
<1>5. CASE kind # "event" \/ writer.seen = TRUE
  <2>. DEFINE s == <<c>>
  <2>1. Encoded(kind) = s
    BY <1>3, <1>5
  <2>2. s \in Seq(Rows) /\ Len(s) = 1 /\ s[1] = c
    BY SMTT(30), <1>2
  <2>. HIDE DEF s
  <2>3. \A i \in 1..Len(s) : s[i].epoch = run /\ s[i].seq = writer.seq + i - 1 /\ s[i].kind = kind
    BY SMTT(30), <1>1, <1>2, <2>2
  <2>. QED
    BY SMTT(30), <1>5, <2>1, <2>2, <2>3
<1>. QED
  BY <1>1, <1>4, <1>5

\* The writer takes an event (TakeEvent).
LEMMA TakeEventKeeps ==
    ASSUME ChInv, TakeEvent
    PROVE  ChInv'
<1>. DEFINE kind == NextEvent
            s == Encoded(kind)
            ended == writer.ended \/ kind = "end"
            seen == writer.seen \/ kind = "event"
<1>1. /\ UNCHANGED <<run, alive, sealed, stored, tokens, upload>> /\ alive = TRUE
      /\ writer.pc = "top" /\ NextEvent # Nothing
  BY DEF TakeEvent, WriterAt, serverVars
<1>2. run \in Nat /\ made \in Nat /\ writer \in Writers
  BY DEF ChInv, ChTypeOK
<1>3. kind \in Kinds
  <2>1. writer.pending \in Kinds \cup {Nothing}
    BY <1>2 DEF Writers
  <2>. QED
    BY <1>1, <2>1 DEF NextEvent, Kinds
<1>4. \/ /\ writer' = [writer EXCEPT !.pending = kind, !.first = FALSE, !.ended = ended]
         /\ UNCHANGED <<frame, open, made>>
      \/ /\ open' = IF open = Nothing THEN NewSegment ELSE open
         /\ made' = IF open = Nothing THEN made + 1 ELSE made
         /\ frame' = frame \o s
         /\ writer' = [writer EXCEPT !.pc = "flush", !.pending = Nothing, !.first = FALSE,
                                     !.ended = ended, !.seen = seen,
                                     !.seq = writer.seq + Len(s)]
  BY DEF TakeEvent
<1>5. ended \in BOOLEAN /\ seen \in BOOLEAN /\ (seen = TRUE => writer.seen = TRUE \/ kind = "event")
  BY <1>2 DEF Writers
<1>6. /\ s \in Seq(Rows) /\ Len(s) \in Nat /\ Len(s) > 0
      /\ \A i \in 1..Len(s) : s[i].epoch = run /\ s[i].seq = writer.seq + i - 1
      /\ \A i \in 1..Len(s) : s[i].kind = "event" =>
             writer.seen = TRUE \/ \E j \in 1..(i - 1) : s[j].kind = "identity"
      /\ kind = "event" => writer.seen = TRUE \/ HasIdentity(s)
  BY <1>2, <1>3, EncodedRows
<1>. HIDE DEF kind, s, ended, seen
<1>7. CASE /\ writer' = [writer EXCEPT !.pending = kind, !.first = FALSE, !.ended = ended]
           /\ UNCHANGED <<frame, open, made>>
  <2>1. writer' \in Writers
    BY <1>2, <1>3, <1>5, <1>7 DEF Writers
  <2>2. writer'.seq = writer.seq /\ writer'.seen = writer.seen /\ writer'.pc = "top"
    BY <1>1, <1>2, <1>7 DEF Writers
  <2>. QED
    BY <1>1, <1>7, <2>1, <2>2, StillKeeps
<1>8. CASE /\ open' = IF open = Nothing THEN NewSegment ELSE open
           /\ made' = IF open = Nothing THEN made + 1 ELSE made
           /\ frame' = frame \o s
           /\ writer' = [writer EXCEPT !.pc = "flush", !.pending = Nothing, !.first = FALSE,
                                       !.ended = ended, !.seen = seen,
                                       !.seq = writer.seq + Len(s)]
  <2>1. writer.seq \in Nat /\ writer.seq + Len(s) \in Nat
    BY SMTT(30), <1>2, <1>6 DEF Writers
  <2>2. writer' \in Writers
    BY <1>2, <1>5, <1>8, <2>1 DEF Writers
  <2>3. writer'.seq = writer.seq + Len(s) /\ writer'.seen = seen /\ writer'.pc = "flush"
    BY <1>2, <1>8 DEF Writers
  <2>4. /\ open' \in OpenSegments /\ open'.rows = OpenRows /\ made' \in Nat /\ made <= made'
        /\ open = Nothing => open'.token = made + 1 /\ open'.synced = 0 /\ made' = made + 1
        /\ open # Nothing => open' = open /\ made' = made
    <3>1. CASE open = Nothing
      BY SMTT(30), <1>2, <1>8, <3>1, EmptyParts DEF NewSegment, OpenSegments, OpenRows
    <3>2. CASE open # Nothing
      BY SMTT(30), <1>2, <1>8, <3>2, PartsTyped
    <3>. QED
      BY <3>1, <3>2
  <2>5. open' # Nothing /\ OpenRows' = OpenRows
    BY <2>4, SegmentThere DEF OpenRows
  <2>6. /\ frame \in Seq(Rows) /\ OpenRows \in Seq(Rows) /\ frame' \in Seq(Rows)
        /\ frame' = frame \o s /\ Parts(stored, sealed, OpenRows, frame)
    BY <1>6, <1>8, PartsTyped, ConcatParts DEF Parts
  <2>7. ChTypeOK'
    BY <1>1, <2>2, <2>4, <2>6 DEF ChInv, ChTypeOK
  <2>8. TokensApart'
    <3>1. ASSUME NEW n \in 1..Len(sealed)
          PROVE  sealed[n].token \in Nat
      <4>1. sealed[n] \in Files
        BY SMTT(30), <2>6 DEF Parts
      <4>. QED
        BY <4>1 DEF Files
    <3>2. \A t \in tokens : t \in Nat
      BY DEF ChInv, ChTypeOK
    <3>. QED
      BY SMTT(30), <1>1, <1>2, <2>4, <3>1, <3>2 DEF ChInv, TokensApart, Unsent
  <2>9. OpenApart'
    <3>1. CASE open = Nothing
      <4>1. OpenRows' = <<>> /\ Len(OpenRows) = 0
        BY <2>5, <3>1, EmptyParts DEF OpenRows
      <4>2. \A t \in tokens : t \in Nat /\ t <= made
        BY DEF ChInv, ChTypeOK, TokensApart
      <4>3. \A n \in 1..Len(sealed) : sealed[n].token <= made
        BY DEF ChInv, TokensApart
      <4>. QED
        BY SMTT(30), <1>1, <1>2, <2>4, <3>1, <4>1, <4>2, <4>3 DEF OpenApart
    <3>2. CASE open # Nothing
      BY <1>1, <2>4, <3>2 DEF ChInv, OpenApart
    <3>. QED
      BY <3>1, <3>2
  <2>10. KnownIsStored'
    BY <1>1 DEF ChInv, KnownIsStored, Unsent
  <2>11. LineInv'
    <3>1. \A i \in 1..Len(sealed) :
              sealed[i].token \notin tokens \/ Elements(sealed[i].rows) \subseteq Elements(stored)
      BY DEF ChInv, KnownIsStored, Unsent
    <3>2. /\ Ordered(stored, sealed, tokens, OpenRows, frame)
          /\ Unbroken(LineOf(stored, sealed, OpenRows, frame))
          /\ Fits(LineOf(stored, sealed, OpenRows, frame), run, writer.seq)
      BY <1>1 DEF ChInv, LineInv, Line
    <3>3. /\ Ordered(stored, sealed, tokens, OpenRows, frame \o s)
          /\ Unbroken(LineOf(stored, sealed, OpenRows, frame \o s))
          /\ Fits(LineOf(stored, sealed, OpenRows, frame \o s), run, writer.seq + Len(s))
      BY <1>2, <1>6, <2>1, <2>6, <3>1, <3>2, EncodeKeepsLine
    <3>. QED
      BY <1>1, <2>3, <2>5, <2>6, <3>3 DEF LineInv, Line
  <2>12. WriterKnows'
    <3>1. ContainedBehind(OpenRows, frame)
      BY DEF ChInv, WriterKnows
    <3>2. HasIdentity(OpenRows) \/ ContainedBehind(frame, s)
      <4>1. CASE writer.seen = TRUE
        BY <4>1 DEF ChInv, WriterKnows, ContainedBehind
      <4>2. CASE writer.seen # TRUE
        BY <1>6, <4>2 DEF ContainedBehind
      <4>. QED
        BY <4>1, <4>2
    <3>3. /\ ContainedBehind(OpenRows, frame \o s)
          /\ HasIdentity(frame \o s) <=> HasIdentity(frame) \/ HasIdentity(s)
      BY <1>6, <2>6, <3>1, <3>2, ConcatContained
    <3>4. seen = TRUE => HasIdentity(OpenRows) \/ HasIdentity(frame \o s)
      BY <1>5, <1>6, <3>3 DEF ChInv, WriterKnows
    <3>5. SegmentSelfContained /\ Contained(OpenRows)
      BY DEF ChInv, WriterKnows
    <3>6. SegmentSelfContained'
      BY SMTT(30), <1>1, <3>5 DEF SegmentSelfContained
    <3>. QED
      BY <1>1, <2>3, <2>5, <2>6, <3>3, <3>4, <3>5, <3>6 DEF WriterKnows
  <2>. QED
    BY <2>7, <2>8, <2>9, <2>10, <2>11, <2>12 DEF ChInv
<1>. QED
  BY <1>4, <1>7, <1>8

-----------------------------------------------------------------------------
(* The inductive invariant.                                                *)

\* A first run starts with an empty spool and an empty table (ClickHouse::run).
LEMMA ChInitInv == ChInit => ChInv
<1>. SUFFICES ASSUME ChInit PROVE ChInv
  OBVIOUS
<1>1. /\ run = 1 /\ alive = TRUE /\ made = 0 /\ writer = NewWriter /\ frame = <<>>
      /\ open = Nothing /\ sealed = <<>> /\ upload = "idle" /\ stored = <<>> /\ tokens = {}
  BY DEF ChInit
<1>2. writer \in Writers /\ writer.seen = FALSE /\ writer.seq = 0 /\ writer.pc = "top"
  BY <1>1 DEF NewWriter, Writers
<1>3. sealed \in Seq(Files) /\ Len(sealed) = 0 /\ 1..Len(sealed) = {} /\ 2..Len(sealed) = {}
  BY SMTT(30), <1>1
<1>4. ChTypeOK
  BY <1>1, <1>2, <1>3, EmptyParts DEF ChTypeOK
<1>5. TokensApart /\ OpenApart /\ KnownIsStored /\ SegmentSelfContained
  BY <1>1, <1>3 DEF TokensApart, OpenApart, KnownIsStored, SegmentSelfContained
<1>6. OpenRows = <<>>
  BY <1>1 DEF OpenRows
<1>7. WriterKnows
  BY <1>1, <1>2, <1>5, <1>6, EmptyParts DEF WriterKnows, Contained
<1>8. Line = {}
  <2>1. InFiles(sealed) = {}
    BY <1>3 DEF InFiles
  <2>. QED
    BY <1>1, <1>6, <2>1, EmptyParts DEF Line, LineOf
<1>9. Ordered(stored, sealed, tokens, OpenRows, frame)
  <2>1. AllBefore({}, {})
    BY DEF AllBefore
  <2>. QED
    BY <1>1, <1>3, <1>6, <2>1, EmptyParts DEF Ordered, PartsSorted, PartsInOrder
<1>10. LineInv
  BY SMTT(30), <1>1, <1>2, <1>8, <1>9 DEF LineInv, Unbroken, Fits
<1>. QED
  BY <1>4, <1>5, <1>7, <1>10 DEF ChInv

\* The end of the process, with the open segment as it is or cut (Exit, Crash).
LEMMA EndKeeps ==
    ASSUME ChInv, Exit \/ Crash
    PROVE  /\ ChInv'
           /\ UNCHANGED <<stored, sealed>>
           /\ open = Nothing => open' = Nothing
           /\ open # Nothing => /\ open' \in OpenSegments
                                /\ open.synced <= open'.synced
                                /\ open'.synced <= Len(open'.rows)
                                /\ \A i \in 1..open.synced : open'.rows[i] = open.rows[i]
<1>1. alive = TRUE
  BY DEF Exit, Crash
<1>2. CASE open = Nothing
  <2>1. Gone(Nothing)
    BY <1>2 DEF Exit, Crash
  <2>. QED
    BY <1>1, <1>2, <2>1, GoneKeeps DEF Gone
<1>3. CASE open # Nothing
  <2>1. /\ open \in OpenSegments /\ open.rows \in Seq(Rows) /\ open.synced \in Nat
        /\ open.synced <= Len(open.rows) /\ Len(open.rows) \in Nat
    BY SMTT(30), <1>3, PartsTyped DEF OpenSegments
  <2>2. CASE Exit
    <3>1. Gone(open)
      BY <2>2 DEF Exit
    <3>2. SubSeq(open.rows, 1, Len(open.rows)) = open.rows
      BY SMTT(30), <2>1
    <3>3. ChInv'
      BY SMTT(30), <1>1, <1>3, <2>1, <3>1, <3>2, GoneKeeps
    <3>. QED
      BY SMTT(30), <1>3, <2>1, <3>1, <3>3 DEF Gone
  <2>3. CASE Crash
    <3>1. PICK n \in open.synced..Len(open.rows) :
              Gone([open EXCEPT !.rows = SubSeq(open.rows, 1, n), !.synced = n])
      BY <1>3, <2>3 DEF Crash
    <3>. DEFINE file == [open EXCEPT !.rows = SubSeq(open.rows, 1, n), !.synced = n]
    <3>2. n \in Nat /\ n \in 0..Len(open.rows)
      BY SMTT(30), <2>1
    <3>3. /\ SubSeq(open.rows, 1, n) \in Seq(Rows) /\ Len(SubSeq(open.rows, 1, n)) = n
          /\ \A i \in 1..n : SubSeq(open.rows, 1, n)[i] = open.rows[i]
      BY <2>1, <3>2, PrefixParts
    <3>4. /\ file \in OpenSegments /\ file.rows = SubSeq(open.rows, 1, n)
          /\ file.token = open.token /\ file.synced = n
      BY <2>1, <3>2, <3>3 DEF OpenSegments
    <3>. HIDE DEF file
    <3>5. Gone(file)
      BY <3>1 DEF file
    <3>6. ChInv'
      BY SMTT(30), <1>1, <1>3, <3>2, <3>4, <3>5, GoneKeeps
    <3>7. open' = file /\ UNCHANGED <<stored, sealed>>
      BY <3>5 DEF Gone
    <3>8. \A i \in 1..open.synced : file.rows[i] = open.rows[i]
      BY SMTT(30), <2>1, <3>2, <3>3, <3>4
    <3>. QED
      BY SMTT(30), <1>3, <2>1, <3>2, <3>3, <3>4, <3>6, <3>7, <3>8
  <2>. QED
    BY <2>2, <2>3
<1>. QED
  BY <1>2, <1>3

\* The steps that move no row and no file.
ChStill ==
    \/ Observe \/ TakeNothing \/ FlushFails \/ DiskFull \/ DiskDrains \/ WriterFails
    \/ InsertFails \/ Terminate

\* The steps that touch neither spool nor table keep the invariant (Receiver,
\* passes of the writer that append nothing, failed inserts).
LEMMA StillStep ==
    ASSUME ChInv, ChStill
    PROVE  ChInv' /\ UNCHANGED <<stored, sealed, open>>
<1>1. writer \in Writers /\ (writer.pc = "seal" => frame = <<>>)
  BY DEF ChInv, ChTypeOK, WriterKnows
<1>2. UNCHANGED <<run, alive, frame, open, sealed, made, stored, tokens, upload>>
  BY DEF ChStill, Observe, TakeNothing, FlushFails, DiskFull, DiskDrains, WriterFails,
         InsertFails, Terminate, spoolVars, serverVars
<1>3. \/ writer' = writer
      \/ \E p \in {"flush", "returned"} : writer' = [writer EXCEPT !.pc = p]
      \/ \E b \in BOOLEAN : writer' = [writer EXCEPT !.full = b]
      \/ writer' = [writer EXCEPT !.pc = "top", !.full = TRUE]
  BY DEF ChStill, Observe, TakeNothing, FlushFails, DiskFull, DiskDrains, WriterFails,
         InsertFails, Terminate
<1>4. /\ writer' \in Writers /\ writer'.seq = writer.seq /\ writer'.seen = writer.seen
      /\ writer'.pc = "seal" => frame = <<>>
  <2>1. CASE writer' = writer
    BY <1>1, <2>1
  <2>2. ASSUME NEW p \in {"flush", "returned"}, writer' = [writer EXCEPT !.pc = p]
        PROVE  <1>4
    BY <1>1, <2>2 DEF Writers
  <2>3. ASSUME NEW b \in BOOLEAN, writer' = [writer EXCEPT !.full = b]
        PROVE  <1>4
    BY <1>1, <2>3 DEF Writers
  <2>4. CASE writer' = [writer EXCEPT !.pc = "top", !.full = TRUE]
    BY <1>1, <2>4 DEF Writers
  <2>. QED
    BY <1>3, <2>1, <2>2, <2>3, <2>4
<1>. QED
  BY <1>2, <1>4, StillKeeps

\* Every step of the target keeps the invariant (ChNext).
LEMMA ChStepInv ==
    ASSUME ChInv, [ChNext]_chVars
    PROVE  ChInv'
<1>1. CASE ChStill
  BY <1>1, StillStep
<1>2. CASE \E b \in BOOLEAN : Insert(b)
  BY <1>2, InsertKeeps
<1>3. CASE \E flush, sync, seal \in BOOLEAN : Flush(flush, sync, seal)
  BY <1>3, FlushKeeps
<1>4. CASE Exit \/ Crash
  BY <1>4, EndKeeps
<1>5. CASE TakeEvent \/ Seal \/ WhileFull \/ Remove \/ Start
  BY <1>5, TakeEventKeeps, SealKeeps, WhileFullKeeps, RemoveKeeps, StartKeeps
<1>6. CASE UNCHANGED chVars
  <2>1. UNCHANGED <<run, alive, frame, open, sealed, made, stored, tokens, upload, writer>>
    BY <1>6 DEF chVars
  <2>. QED
    BY <2>1, StillKeeps DEF ChInv, ChTypeOK, WriterKnows
<1>. QED
  BY <1>1, <1>2, <1>3, <1>4, <1>5, <1>6 DEF ChNext, WriterStep, ChStill

\* The invariant holds at all times (ClickHouse::run).
LEMMA ChInvariant == ChSpec => []ChInv
BY ChInitInv, ChStepInv, PTL DEF ChSpec

-----------------------------------------------------------------------------
(* What the table holds.                                                   *)

\* A line in order and without a gap has each run's rows as a beginning of its
\* history in the table (uploader, Inserted).
LEMMA HistoryFromLine ==
    ASSUME ChInv
    PROVE  HistoryIsPrefix
<1>1. stored \in Seq(Rows) /\ Increasing(stored)
  BY DEF ChInv, ChTypeOK, LineInv, Ordered, PartsSorted
<1>2. \A i \in 1..Len(stored) : /\ stored[i] \in Rows /\ stored[i] \in Elements(stored)
                                /\ stored[i] \in Line
  BY SMTT(30), <1>1 DEF Elements, Line, LineOf
<1>3. \A r \in Rows : r.seq \in Nat /\ r.epoch \in Nat
  BY DEF Rows
<1>. SUFFICES ASSUME NEW i \in 1..Len(stored)
              PROVE  /\ \A j \in 1..(i - 1) : stored[j].epoch = stored[i].epoch => stored[j].seq < stored[i].seq
                     /\ stored[i].seq > 0 => \E j \in 1..(i - 1) : /\ stored[j].epoch = stored[i].epoch
                                                                 /\ stored[j].seq + 1 = stored[i].seq
  BY DEF HistoryIsPrefix
<1>4. ASSUME NEW j \in 1..(i - 1), stored[j].epoch = stored[i].epoch
      PROVE  stored[j].seq < stored[i].seq
  <2>1. j \in 1..Len(stored) /\ j < i
    BY SMTT(30), <1>1
  <2>2. Before(stored[j], stored[i]) /\ stored[j] \in Rows /\ stored[i] \in Rows
    BY <1>1, <1>2, <2>1 DEF Increasing
  <2>. QED
    BY SMTT(30), <1>3, <1>4, <2>2 DEF Before
<1>5. ASSUME stored[i].seq > 0
      PROVE  \E j \in 1..(i - 1) : stored[j].epoch = stored[i].epoch /\ stored[j].seq + 1 = stored[i].seq
  <2>1. PICK q \in Line : Precedes(q, stored[i])
    BY <1>2, <1>5 DEF ChInv, LineInv, Unbroken
  <2>2. q \in Rows /\ stored[i] \in Rows
    BY <1>2, LineTyped
  <2>3. ~Before(stored[i], q)
    BY SMTT(30), <1>3, <2>1, <2>2 DEF Before, Precedes
  <2>4. q \in Elements(stored)
    <3>1. PartsInOrder(stored, sealed, tokens, OpenRows, frame) /\ stored[i] \in Elements(stored)
      BY <1>2 DEF ChInv, LineInv, Ordered
    <3>2. q \notin Elements(OpenRows) /\ q \notin Elements(frame)
      BY <2>3, <3>1 DEF PartsInOrder, AllBefore
    <3>3. ASSUME NEW n \in 1..Len(sealed), q \in Elements(sealed[n].rows)
          PROVE  q \in Elements(stored)
      <4>1. sealed[n].token \in tokens
        BY <2>3, <3>1, <3>3 DEF PartsInOrder, AllBefore
      <4>. QED
        BY <3>3, <4>1 DEF ChInv, KnownIsStored, Unsent
    <3>. QED
      BY <3>2, <3>3 DEF Line, LineOf, InFiles
  <2>5. PICK j \in 1..Len(stored) : q = stored[j]
    BY <2>4 DEF Elements
  <2>6. j # i
    BY SMTT(30), <1>3, <2>1, <2>2, <2>5 DEF Precedes
  <2>7. ~(i < j)
    BY <1>1, <2>3, <2>5 DEF Increasing
  <2>8. j \in 1..(i - 1)
    BY SMTT(30), <1>1, <2>6, <2>7
  <2>. QED
    BY <2>1, <2>5, <2>8 DEF Precedes
<1>. QED
  BY <1>4, <1>5

\* Of every run the table holds a beginning of its history, in order, without a
\* gap or a duplicate, for any number of runs, crashes, failed and repeated
\* inserts (writer, recover, uploader, the deduplication token).
THEOREM HistoryInOrder == ChSpec => []HistoryIsPrefix
BY ChInvariant, HistoryFromLine, PTL

\* In every sealed file an observation comes after its peer's identity (writer,
\* on "seen"; seal and the full disk make the writer forget).
THEOREM SegmentsStandAlone == ChSpec => []SegmentSelfContained
<1>1. ChInv => SegmentSelfContained
  BY DEF ChInv, WriterKnows
<1>. QED
  BY <1>1, ChInvariant, PTL

-----------------------------------------------------------------------------
(* What was synced.                                                        *)

\* A row is durable when it is stored, in a sealed file, or synced (Durable).
DurableIs(r) ==
    \/ r \in Elements(stored)
    \/ \E n \in 1..Len(sealed) : r \in Elements(sealed[n].rows)
    \/ open # Nothing /\ \E i \in 1..open.synced : r = open.rows[i]

DurableShape == \A r : r \in Durable <=> DurableIs(r)

\* What is durable, row by row (Segment::sync, seal, the table).
LEMMA DurableRows == ChInv => DurableShape
<1>. SUFFICES ASSUME ChInv PROVE \A r : r \in Durable <=> DurableIs(r)
  BY DEF DurableShape
<1>1. CASE open = Nothing
  BY <1>1 DEF Durable, DurableIs
<1>2. CASE open # Nothing
  <2>1. open.rows \in Seq(Rows) /\ open.synced \in 0..Len(open.rows)
    BY <1>2, PartsTyped DEF OpenSegments
  <2>2. \A r : r \in Elements(SubSeq(open.rows, 1, open.synced)) <=>
                   \E i \in 1..open.synced : r = open.rows[i]
    BY SMTT(30), <2>1, PrefixParts DEF Elements
  <2>. QED
    BY <1>2, <2>2 DEF Durable, DurableIs
<1>. QED
  BY <1>1, <1>2

\* The same after a step.
LEMMA DurableRowsNext == ChInv' => DurableShape'
BY DurableRows, PTL

\* A step that keeps the table, the files and the synced rows keeps what is durable.
LEMMA DurableGrows ==
    ASSUME ChInv, ChInv', Elements(stored) \subseteq Elements(stored'),
           \A n \in 1..Len(sealed) :
               \/ Elements(sealed[n].rows) \subseteq Elements(stored')
               \/ \E m \in 1..Len(sealed') : Elements(sealed[n].rows) \subseteq Elements(sealed'[m].rows),
           open # Nothing =>
               \/ /\ open' # Nothing
                  /\ \A i \in 1..open.synced : i \in 1..open'.synced /\ open'.rows[i] = open.rows[i]
               \/ \E m \in 1..Len(sealed') : Elements(open.rows) \subseteq Elements(sealed'[m].rows)
    PROVE  Durable \subseteq Durable'
<1>. SUFFICES ASSUME NEW r \in Durable
              PROVE  r \in Durable'
  OBVIOUS
<1>1. (\A x : x \in Durable <=> DurableIs(x))'
  BY DurableRowsNext DEF DurableShape
<1>2. CASE r \in Elements(stored)
  BY <1>1, <1>2 DEF DurableIs
<1>3. ASSUME NEW n \in 1..Len(sealed), r \in Elements(sealed[n].rows)
      PROVE  r \in Durable'
  BY <1>1, <1>3 DEF DurableIs
<1>4. ASSUME open # Nothing, NEW i \in 1..open.synced, r = open.rows[i]
      PROVE  r \in Durable'
  <2>1. r \in Elements(open.rows)
    <3>1. i \in 1..Len(open.rows)
      BY SMTT(30), <1>4, PartsTyped
    <3>. QED
      BY <1>4, <3>1 DEF Elements
  <2>. QED
    BY <1>1, <1>4, <2>1 DEF DurableIs
<1>. QED
  BY <1>2, <1>3, <1>4, DurableRows DEF DurableShape, DurableIs

\* A segment that becomes a file brings its rows along (Segment::seal, recover).
LEMMA SealedKept ==
    ASSUME ChInv, ChInv', open # Nothing, NEW rows, Elements(open.rows) \subseteq Elements(rows),
           sealed' = Append(sealed, [token |-> open.token, rows |-> rows]), stored' = stored
    PROVE  Durable \subseteq Durable'
<1>1. sealed \in Seq(Files) /\ Len(sealed) \in Nat
  BY SMTT(30) DEF ChInv, ChTypeOK
<1>2. /\ \A n \in 1..Len(sealed) : n \in 1..Len(sealed') /\ sealed'[n] = sealed[n]
      /\ Len(sealed) + 1 \in 1..Len(sealed')
      /\ sealed'[Len(sealed) + 1] = [token |-> open.token, rows |-> rows]
  <2>1. Len(sealed') = Len(sealed) + 1
    BY SMTT(30), <1>1 DEF ChInv
  <2>. QED
    BY SMTT(30), <1>1, <2>1
<1>3. sealed'[Len(sealed) + 1].rows = rows
  BY SMTT(30), <1>2
<1>. QED
  BY <1>2, <1>3, DurableGrows

\* What a step of the target does to the synced rows (ChNext).
LEMMA DurableStep ==
    ASSUME ChInv, [ChNext]_chVars
    PROVE  Durable \subseteq Durable'
<1>0. ChInv'
  BY ChStepInv
<1>1. CASE UNCHANGED <<stored, sealed, open>>
  BY SMTT(30), <1>1 DEF Durable
<1>2. ASSUME NEW b \in BOOLEAN, Insert(b)
      PROVE  Durable \subseteq Durable'
  <2>1. UNCHANGED <<sealed, open>> /\ Elements(stored) \subseteq Elements(stored')
    BY <1>2, InsertKeeps DEF Insert, spoolVars
  <2>. QED
    BY <1>0, <2>1, DurableGrows
<1>3. ASSUME NEW flush \in BOOLEAN, NEW sync \in BOOLEAN, NEW seal \in BOOLEAN,
             Flush(flush, sync, seal)
      PROVE  Durable \subseteq Durable'
  <2>1. UNCHANGED <<sealed, stored>>
    BY <1>3 DEF Flush, serverVars
  <2>2. CASE open = Nothing
    BY <1>0, <2>1, <2>2, DurableGrows
  <2>3. CASE open # Nothing
    <3>1. /\ open \in OpenSegments /\ open.rows \in Seq(Rows) /\ open.synced \in Nat
          /\ open.synced <= Len(open.rows) /\ Len(open.rows) \in Nat
      BY SMTT(30), <2>3, PartsTyped DEF OpenSegments
    <3>2. frame \in Seq(Rows)
      BY DEF ChInv, ChTypeOK
    <3>3. /\ open' \in OpenSegments /\ open.synced <= open'.synced /\ open'.synced \in Nat
          /\ \A i \in 1..open.synced : open'.rows[i] = open.rows[i]
      <4>1. CASE flush = TRUE /\ frame # <<>>
        <5>. DEFINE all == open.rows \o frame
                    n == IF sync THEN Len(all) ELSE open.synced
        <5>1. /\ all \in Seq(Rows) /\ Len(all) \in Nat /\ Len(open.rows) <= Len(all)
              /\ \A i \in 1..Len(open.rows) : all[i] = open.rows[i]
          BY SMTT(30), <3>1, <3>2, ConcatParts
        <5>2. n \in Nat /\ open.synced <= n
          BY SMTT(30), <3>1, <5>1
        <5>3. open' = [open EXCEPT !.rows = all, !.synced = n]
          BY <1>3, <4>1 DEF Flush, Appended
        <5>. HIDE DEF all, n
        <5>4. open' \in OpenSegments /\ open'.rows = all /\ open'.synced = n
          BY <3>1, <5>1, <5>2, <5>3 DEF OpenSegments
        <5>. QED
          BY SMTT(30), <3>1, <5>1, <5>2, <5>4
      <4>2. CASE ~(flush = TRUE /\ frame # <<>>)
        <5>1. open' = IF sync THEN [open EXCEPT !.synced = Len(open.rows)] ELSE open
          BY <1>3, <2>3, <4>2 DEF Flush
        <5>. QED
          BY SMTT(30), <3>1, <5>1 DEF OpenSegments
      <4>. QED
        BY <4>1, <4>2
    <3>4. open' # Nothing /\ \A i \in 1..open.synced : i \in 1..open'.synced /\ open'.rows[i] = open.rows[i]
      BY SMTT(30), <3>1, <3>3, SegmentThere
    <3>. QED
      BY <1>0, <2>1, <3>4, DurableGrows
  <2>. QED
    BY <2>2, <2>3
<1>4. CASE Exit \/ Crash
  <2>1. UNCHANGED <<stored, sealed>>
    BY <1>4, EndKeeps
  <2>2. CASE open = Nothing
    BY <1>0, <2>1, <2>2, DurableGrows
  <2>3. CASE open # Nothing
    <3>1. /\ open' \in OpenSegments /\ open.synced <= open'.synced
          /\ \A i \in 1..open.synced : open'.rows[i] = open.rows[i]
      BY <1>4, <2>3, EndKeeps
    <3>2. open'.synced \in Nat /\ open.synced \in Nat
      BY <2>3, <3>1, PartsTyped DEF OpenSegments
    <3>3. open' # Nothing /\ \A i \in 1..open.synced : i \in 1..open'.synced /\ open'.rows[i] = open.rows[i]
      BY SMTT(30), <3>1, <3>2, SegmentThere
    <3>. QED
      BY <1>0, <2>1, <3>3, DurableGrows
  <2>. QED
    BY <2>2, <2>3
<1>5. CASE Remove
  <2>1. /\ sealed # <<>> /\ Elements(sealed[1].rows) \subseteq Elements(stored)
        /\ UNCHANGED <<stored, open>> /\ sealed' = Tail(sealed) /\ sealed \in Seq(Files)
    BY <1>5, RemoveKeeps DEF Remove, ChInv, ChTypeOK
  <2>2. \A n \in 1..Len(sealed) : n = 1 \/ (n - 1 \in 1..Len(sealed') /\ sealed'[n - 1] = sealed[n])
    BY SMTT(30), <2>1
  <2>3. \A n \in 1..Len(sealed) :
            \/ Elements(sealed[n].rows) \subseteq Elements(stored')
            \/ \E m \in 1..Len(sealed') : Elements(sealed[n].rows) \subseteq Elements(sealed'[m].rows)
    BY <2>1, <2>2
  <2>4. open # Nothing => /\ open' # Nothing
                          /\ \A i \in 1..open.synced : i \in 1..open'.synced /\ open'.rows[i] = open.rows[i]
    BY <2>1
  <2>. QED
    BY <1>0, <2>1, <2>3, <2>4, DurableGrows
<1>6. CASE Seal \/ Start
  <2>1. stored' = stored
    BY <1>6 DEF Seal, Start, serverVars
  <2>2. CASE open = Nothing
    <3>1. sealed' = sealed
      BY <1>6, <2>2 DEF Seal, Start, Recovered
    <3>. QED
      BY <1>0, <2>1, <2>2, <3>1, DurableGrows
  <2>3. CASE open # Nothing
    <3>1. sealed' = Append(sealed, [token |-> open.token, rows |-> open.rows])
      BY <1>6, <2>3 DEF Seal, Start, Recovered
    <3>. QED
      BY <1>0, <2>1, <2>3, <3>1, SealedKept
  <2>. QED
    BY <2>2, <2>3
<1>7. CASE WhileFull
  <2>1. /\ stored' = stored /\ open # Nothing
        /\ sealed' = Append(sealed, [token |-> open.token, rows |-> open.rows \o frame])
    BY <1>7 DEF WhileFull, serverVars
  <2>2. open.rows \in Seq(Rows) /\ frame \in Seq(Rows)
    BY <2>1, PartsTyped DEF OpenSegments, Parts
  <2>3. Elements(open.rows) \subseteq Elements(open.rows \o frame)
    BY SMTT(30), <2>2, ConcatParts
  <2>. QED
    BY <1>0, <2>1, <2>3, SealedKept
<1>8. CASE TakeEvent
  <2>1. UNCHANGED <<stored, sealed>> /\ (open # Nothing => open' = open)
    BY <1>8 DEF TakeEvent, serverVars
  <2>2. open # Nothing => /\ open' # Nothing
                          /\ \A i \in 1..open.synced : i \in 1..open'.synced /\ open'.rows[i] = open.rows[i]
    BY <2>1
  <2>. QED
    BY <1>0, <2>1, <2>2, DurableGrows
<1>9. CASE ChStill \/ UNCHANGED chVars
  BY <1>1, <1>9, StillStep DEF chVars
<1>. QED
  BY <1>2, <1>3, <1>4, <1>5, <1>6, <1>7, <1>8, <1>9 DEF ChNext, WriterStep, ChStill

\* What was synced is never lost, for any number of rows, crashes, full disks and
\* interrupted uploads (Spool::open, uploader, WhileFull).
THEOREM SyncedRowsSurvive == ChSpec => DurableKept
<1>1. ChInv /\ [ChNext]_chVars => [Durable \subseteq Durable']_chVars
  BY DurableStep
<1>. QED
  BY <1>1, ChInvariant, PTL DEF ChSpec, DurableKept

-----------------------------------------------------------------------------
(* The file target.  The bodies on disk, those in the buffer and the next  *)
(* record to write are on a line too: what fails is left out, and nothing  *)
(* is written twice.                                                       *)

Pieces == Nat \X {"body", "end"}

\* The record whose body is written next.
NextRecord ==
    IF todo = <<>> THEN 2 * batches ELSE IF part = TRUE THEN Head(todo) + 1 ELSE Head(todo)

FileTypeOK ==
    /\ batches \in Nat /\ part \in BOOLEAN
    /\ \/ todo = <<>> /\ part = FALSE
       \/ batches > 0 /\ todo = <<2 * batches - 1>>
       \/ batches > 0 /\ todo = <<2 * batches - 2, 2 * batches - 1>>
    /\ target = "waiting" => todo = <<>>
    /\ target = "writing" => todo # <<>>
    /\ buffered \in Seq(Pieces) /\ onDisk \in Seq(Pieces)

BodiesRise(s) ==
    \A i, j \in 1..Len(s) : i < j /\ s[i][2] = "body" /\ s[j][2] = "body" => s[i][1] < s[j][1]
BodiesUnder(s, n) == \A i \in 1..Len(s) : s[i][2] = "body" => s[i][1] < n
BodiesAhead(s, t) ==
    \A i \in 1..Len(s), j \in 1..Len(t) : s[i][2] = "body" /\ t[j][2] = "body" => s[i][1] < t[j][1]

FileInv ==
    /\ FileTypeOK
    /\ BodiesRise(onDisk) /\ BodiesRise(buffered) /\ BodiesAhead(onDisk, buffered)
    /\ BodiesUnder(onDisk, NextRecord) /\ BodiesUnder(buffered, NextRecord)

\* The file target starts with an empty buffer (run).
LEMMA FileInitInv == FileInit => FileInv
<1>. SUFFICES ASSUME FileInit PROVE FileInv
  OBVIOUS
<1>1. /\ batches = 0 /\ todo = <<>> /\ part = FALSE /\ target = "waiting"
      /\ buffered = <<>> /\ onDisk = <<>>
  BY DEF FileInit
<1>2. FileTypeOK
  <2>1. buffered \in Seq(Pieces) /\ onDisk \in Seq(Pieces)
    BY SMTT(30), <1>1
  <2>. QED
    BY <1>1, <2>1 DEF FileTypeOK
<1>3. Len(<<>>) = 0 /\ 1..0 = {}
  BY SMTT(30)
<1>. QED
  BY <1>1, <1>2, <1>3 DEF FileInv, BodiesRise, BodiesAhead, BodiesUnder

\* The buffer goes to the file, or stays where it is (flush).
LEMMA FlushedKeeps ==
    ASSUME FileInv, NEW ok \in BOOLEAN, Flushed(ok)
    PROVE  /\ buffered' \in Seq(Pieces) /\ onDisk' \in Seq(Pieces)
           /\ BodiesRise(onDisk') /\ BodiesRise(buffered') /\ BodiesAhead(onDisk', buffered')
           /\ \A n : BodiesUnder(onDisk, n) /\ BodiesUnder(buffered, n) =>
                  BodiesUnder(onDisk', n) /\ BodiesUnder(buffered', n)
<1>1. CASE ok = FALSE
  <2>1. UNCHANGED <<onDisk, buffered>>
    BY <1>1 DEF Flushed
  <2>. QED
    BY <2>1 DEF FileInv, FileTypeOK
<1>2. CASE ok = TRUE
  <2>1. onDisk' = onDisk \o buffered /\ buffered' = <<>>
    BY <1>2 DEF Flushed
  <2>2. /\ onDisk \in Seq(Pieces) /\ buffered \in Seq(Pieces)
        /\ Len(onDisk) \in Nat /\ Len(buffered) \in Nat
    BY SMTT(30) DEF FileInv, FileTypeOK
  <2>3. /\ onDisk' \in Seq(Pieces) /\ Len(onDisk') = Len(onDisk) + Len(buffered)
        /\ \A i \in 1..Len(onDisk') :
               \/ i \in 1..Len(onDisk) /\ onDisk'[i] = onDisk[i]
               \/ /\ i - Len(onDisk) \in 1..Len(buffered) /\ i > Len(onDisk)
                  /\ onDisk'[i] = buffered[i - Len(onDisk)]
    BY SMTT(30), <2>1, <2>2
  <2>4. BodiesRise(onDisk')
    <3>. SUFFICES ASSUME NEW i \in 1..Len(onDisk'), NEW j \in 1..Len(onDisk'), i < j,
                         onDisk'[i][2] = "body", onDisk'[j][2] = "body"
                  PROVE  onDisk'[i][1] < onDisk'[j][1]
      BY DEF BodiesRise
    <3>1. CASE j \in 1..Len(onDisk)
      <4>1. i \in 1..Len(onDisk) /\ onDisk'[i] = onDisk[i] /\ onDisk'[j] = onDisk[j]
        BY SMTT(30), <2>2, <2>3, <3>1
      <4>. QED
        BY <3>1, <4>1 DEF FileInv, BodiesRise
    <3>2. CASE j \notin 1..Len(onDisk)
      <4>. DEFINE k == j - Len(onDisk)
                  l == i - Len(onDisk)
      <4>1. k \in 1..Len(buffered) /\ onDisk'[j] = buffered[k]
        BY <2>3, <3>2
      <4>2. CASE i \in 1..Len(onDisk)
        <5>1. onDisk'[i] = onDisk[i]
          BY SMTT(30), <2>2, <2>3, <4>2
        <5>. QED
          BY <4>1, <4>2, <5>1 DEF FileInv, BodiesAhead
      <4>3. CASE i \notin 1..Len(onDisk)
        <5>1. l \in 1..Len(buffered) /\ onDisk'[i] = buffered[l] /\ l < k
          BY SMTT(30), <2>2, <2>3, <4>3
        <5>. QED
          BY <4>1, <5>1 DEF FileInv, BodiesRise
      <4>. QED
        BY <4>2, <4>3
    <3>. QED
      BY <3>1, <3>2
  <2>5. BodiesRise(buffered') /\ BodiesAhead(onDisk', buffered') /\ buffered' \in Seq(Pieces)
    BY SMTT(30), <2>1 DEF BodiesRise, BodiesAhead
  <2>6. ASSUME NEW n, BodiesUnder(onDisk, n), BodiesUnder(buffered, n)
        PROVE  BodiesUnder(onDisk', n) /\ BodiesUnder(buffered', n)
    BY SMTT(30), <2>1, <2>3, <2>6 DEF BodiesUnder
  <2>. QED
    BY <2>3, <2>4, <2>5, <2>6
<1>. QED
  BY <1>1, <1>2

\* A piece of a record is written, or the rest of its batch dropped (write_record).
LEMMA WritePieceKeeps ==
    ASSUME FileInv, NEW ok \in BOOLEAN, WritePiece(ok)
    PROVE  FileInv'
<1>1. /\ UNCHANGED <<batches, onDisk>> /\ todo # <<>> /\ batches \in Nat /\ batches > 0
      /\ part \in BOOLEAN
      /\ todo = <<2 * batches - 1>> \/ todo = <<2 * batches - 2, 2 * batches - 1>>
      /\ buffered \in Seq(Pieces) /\ onDisk \in Seq(Pieces) /\ Len(buffered) \in Nat
      /\ target' = IF todo' = <<>> THEN "waiting" ELSE "writing"
  BY SMTT(30) DEF WritePiece, FileInv, FileTypeOK
<1>2. Head(todo) \in Nat /\ Head(todo) < 2 * batches /\ NextRecord \in Nat /\ NextRecord <= 2 * batches
  BY SMTT(30), <1>1 DEF NextRecord
<1>3. \A i \in 1..Len(buffered) : buffered[i][1] \in Nat
  BY SMTT(30), <1>1 DEF Pieces
<1>4. \A i \in 1..Len(onDisk) : onDisk[i][1] \in Nat
  BY SMTT(30), <1>1 DEF Pieces
<1>5. CASE ok = FALSE
  <2>1. todo' = <<>> /\ part' = FALSE /\ buffered' = buffered
    BY <1>5 DEF WritePiece
  <2>2. NextRecord' = 2 * batches
    BY <1>1, <2>1 DEF NextRecord
  <2>3. BodiesUnder(onDisk, 2 * batches) /\ BodiesUnder(buffered, 2 * batches)
    <3>. DEFINE top == 2 * batches
    <3>1. top \in Nat /\ NextRecord <= top
      BY SMTT(30), <1>1, <1>2
    <3>. HIDE DEF top
    <3>2. BodiesUnder(onDisk, top)
      BY SMTT(30), <1>2, <1>4, <3>1 DEF FileInv, BodiesUnder
    <3>3. BodiesUnder(buffered, top)
      BY SMTT(30), <1>2, <1>3, <3>1 DEF FileInv, BodiesUnder
    <3>. QED
      BY <3>2, <3>3 DEF top
  <2>4. FileTypeOK'
    BY <1>1, <2>1 DEF FileTypeOK
  <2>. QED
    BY <1>1, <2>1, <2>2, <2>3, <2>4 DEF FileInv
<1>6. ASSUME ok = TRUE, NEW kind \in {"body", "end"}, buffered' = Append(buffered, <<Head(todo), kind>>),
             FileTypeOK', NextRecord <= NextRecord', NextRecord' \in Nat,
             kind = "body" => NextRecord = Head(todo) /\ NextRecord' = Head(todo) + 1
      PROVE  FileInv'
  <2>1. /\ Len(buffered') = Len(buffered) + 1
        /\ \A i \in 1..Len(buffered') :
               \/ i \in 1..Len(buffered) /\ buffered'[i] = buffered[i]
               \/ i = Len(buffered) + 1 /\ buffered'[i] = <<Head(todo), kind>>
    BY SMTT(30), <1>1, <1>2, <1>6
  <2>2. /\ \A i \in 1..Len(buffered) : buffered[i][2] = "body" => buffered[i][1] < NextRecord
        /\ \A i \in 1..Len(onDisk) : onDisk[i][2] = "body" => onDisk[i][1] < NextRecord
    BY DEF FileInv, BodiesUnder
  <2>3. BodiesRise(buffered')
    <3>. SUFFICES ASSUME NEW i \in 1..Len(buffered'), NEW j \in 1..Len(buffered'), i < j,
                         buffered'[i][2] = "body", buffered'[j][2] = "body"
                  PROVE  buffered'[i][1] < buffered'[j][1]
      BY DEF BodiesRise
    <3>1. i \in 1..Len(buffered) /\ buffered'[i] = buffered[i]
      BY SMTT(30), <1>1, <2>1
    <3>2. CASE j \in 1..Len(buffered)
      <4>1. buffered'[j] = buffered[j]
        BY SMTT(30), <1>1, <2>1, <3>2
      <4>. QED
        BY <3>1, <3>2, <4>1 DEF FileInv, BodiesRise
    <3>3. CASE j \notin 1..Len(buffered)
      <4>1. buffered'[j] = <<Head(todo), kind>>
        BY <2>1, <3>3
      <4>2. kind = "body" /\ buffered'[j][1] = Head(todo)
        BY SMTT(30), <4>1
      <4>. QED
        BY <1>6, <2>2, <3>1, <4>2
    <3>. QED
      BY <3>2, <3>3
  <2>4. BodiesAhead(onDisk, buffered')
    <3>. SUFFICES ASSUME NEW i \in 1..Len(onDisk), NEW j \in 1..Len(buffered'),
                         onDisk[i][2] = "body", buffered'[j][2] = "body"
                  PROVE  onDisk[i][1] < buffered'[j][1]
      BY DEF BodiesAhead
    <3>1. CASE j \in 1..Len(buffered) /\ buffered'[j] = buffered[j]
      BY <3>1 DEF FileInv, BodiesAhead
    <3>2. CASE buffered'[j] = <<Head(todo), kind>>
      <4>1. kind = "body" /\ buffered'[j][1] = Head(todo)
        BY SMTT(30), <3>2
      <4>. QED
        BY <1>6, <2>2, <4>1
    <3>. QED
      BY <2>1, <3>1, <3>2
  <2>5. BodiesUnder(onDisk, NextRecord')
    BY SMTT(30), <1>2, <1>4, <1>6, <2>2 DEF BodiesUnder
  <2>6. BodiesUnder(buffered', NextRecord')
    <3>. SUFFICES ASSUME NEW i \in 1..Len(buffered'), buffered'[i][2] = "body"
                  PROVE  buffered'[i][1] < NextRecord'
      BY DEF BodiesUnder
    <3>1. CASE i \in 1..Len(buffered) /\ buffered'[i] = buffered[i]
      BY SMTT(30), <1>2, <1>3, <1>6, <2>2, <3>1
    <3>2. CASE buffered'[i] = <<Head(todo), kind>>
      <4>1. kind = "body" /\ buffered'[i][1] = Head(todo)
        BY SMTT(30), <3>2
      <4>. QED
        BY SMTT(30), <1>2, <1>6, <4>1
    <3>. QED
      BY <2>1, <3>1, <3>2
  <2>. QED
    BY <1>1, <1>6, <2>3, <2>4, <2>5, <2>6 DEF FileInv
<1>7. CASE ok = TRUE /\ part = FALSE
  <2>1. buffered' = Append(buffered, <<Head(todo), "body">>) /\ part' = TRUE /\ todo' = todo
    BY <1>7 DEF WritePiece
  <2>2. buffered' \in Seq(Pieces)
    BY SMTT(30), <1>1, <1>2, <2>1 DEF Pieces
  <2>3. FileTypeOK'
    BY <1>1, <2>1, <2>2 DEF FileTypeOK
  <2>4. NextRecord = Head(todo) /\ NextRecord' = Head(todo) + 1
    BY <1>1, <1>7, <2>1 DEF NextRecord
  <2>. QED
    BY SMTT(30), <1>2, <1>6, <1>7, <2>1, <2>3, <2>4
<1>8. CASE ok = TRUE /\ part = TRUE
  <2>1. buffered' = Append(buffered, <<Head(todo), "end">>) /\ part' = FALSE /\ todo' = Tail(todo)
    BY <1>8 DEF WritePiece
  <2>2. buffered' \in Seq(Pieces)
    BY SMTT(30), <1>1, <1>2, <2>1 DEF Pieces
  <2>3. \/ todo = <<2 * batches - 1>> /\ todo' = <<>> /\ Head(todo) = 2 * batches - 1
        \/ todo' = <<2 * batches - 1>> /\ Head(todo) = 2 * batches - 2 /\ Head(todo') = 2 * batches - 1
    <3>1. \A a, b : /\ Head(<<a>>) = a /\ Tail(<<a>>) = <<>>
                    /\ Head(<<a, b>>) = a /\ Tail(<<a, b>>) = <<b>>
      BY SMTT(30)
    <3>2. CASE todo = <<2 * batches - 1>>
      BY <2>1, <3>1, <3>2
    <3>3. CASE todo = <<2 * batches - 2, 2 * batches - 1>>
      BY <2>1, <3>1, <3>3
    <3>. QED
      BY <1>1, <3>2, <3>3
  <2>4. FileTypeOK'
    BY <1>1, <2>1, <2>2, <2>3 DEF FileTypeOK
  <2>5. NextRecord = Head(todo) + 1 /\ NextRecord' = Head(todo) + 1
    <3>1. NextRecord = Head(todo) + 1
      BY <1>1, <1>8 DEF NextRecord
    <3>2. CASE todo = <<2 * batches - 1>> /\ todo' = <<>> /\ Head(todo) = 2 * batches - 1
      <4>1. NextRecord' = 2 * batches
        BY <1>1, <3>2 DEF NextRecord
      <4>. QED
        BY SMTT(30), <1>1, <3>1, <3>2, <4>1
    <3>3. CASE todo' = <<2 * batches - 1>> /\ Head(todo) = 2 * batches - 2 /\ Head(todo') = 2 * batches - 1
      <4>1. todo' # <<>>
        BY <3>3
      <4>2. NextRecord' = 2 * batches - 1
        BY <2>1, <3>3, <4>1 DEF NextRecord
      <4>. QED
        BY SMTT(30), <1>1, <3>1, <3>3, <4>2
    <3>. QED
      BY <2>3, <3>2, <3>3
  <2>. QED
    BY SMTT(30), <1>2, <1>6, <1>8, <2>1, <2>4, <2>5
<1>. QED
  BY <1>1, <1>5, <1>7, <1>8

\* Every step of the file target keeps the invariant (FileNext).
LEMMA FileStepInv ==
    ASSUME FileInv, [FileNext]_fileVars
    PROVE  FileInv'
<1>1. CASE SecondPasses \/ UNCHANGED fileVars
  <2>1. UNCHANGED <<batches, todo, part, buffered, onDisk, target>>
    BY <1>1 DEF SecondPasses, fileVars
  <2>2. NextRecord' = NextRecord /\ FileTypeOK'
    BY <2>1 DEF NextRecord, FileInv, FileTypeOK
  <2>. QED
    BY <2>1, <2>2 DEF FileInv
<1>2. ASSUME NEW ok \in BOOLEAN, TimedOut(ok) \/ FileEnds(ok)
      PROVE  FileInv'
  <2>1. /\ Flushed(ok) /\ UNCHANGED <<batches, todo, part>> /\ todo = <<>>
        /\ target' \in {"waiting", "ended"}
    BY <1>2 DEF TimedOut, FileEnds, FileInv, FileTypeOK
  <2>2. NextRecord' = NextRecord
    BY <2>1 DEF NextRecord
  <2>3. FileTypeOK'
    BY <2>1, FlushedKeeps DEF FileInv, FileTypeOK
  <2>. QED
    BY <2>1, <2>2, <2>3, FlushedKeeps DEF FileInv
<1>3. ASSUME NEW ok \in BOOLEAN, TakeBatch(ok)
      PROVE  FileInv'
  <2>1. /\ todo = <<>> /\ batches \in Nat /\ batches' = batches + 1 /\ target' = "writing"
        /\ todo' = <<2 * batches, 2 * batches + 1>> /\ part' = FALSE
    BY SMTT(30), <1>3 DEF TakeBatch, FileInv, FileTypeOK
  <2>2. /\ buffered' \in Seq(Pieces) /\ onDisk' \in Seq(Pieces)
        /\ BodiesRise(onDisk') /\ BodiesRise(buffered') /\ BodiesAhead(onDisk', buffered')
        /\ \A n : BodiesUnder(onDisk, n) /\ BodiesUnder(buffered, n) =>
               BodiesUnder(onDisk', n) /\ BodiesUnder(buffered', n)
    <3>1. CASE Flushed(ok)
      BY <3>1, FlushedKeeps
    <3>2. CASE UNCHANGED <<onDisk, buffered>>
      BY <3>2 DEF FileInv, FileTypeOK
    <3>. QED
      BY <1>3, <3>1, <3>2 DEF TakeBatch
  <2>3. NextRecord = 2 * batches /\ NextRecord' = 2 * batches
    <3>1. Head(todo') = 2 * batches /\ todo' # <<>>
      BY SMTT(30), <2>1
    <3>. QED
      BY <2>1, <3>1 DEF NextRecord
  <2>4. FileTypeOK'
    <3>1. todo' = <<2 * batches' - 2, 2 * batches' - 1>> /\ batches' \in Nat /\ batches' > 0 /\ todo' # <<>>
      BY SMTT(30), <2>1
    <3>. QED
      BY <2>1, <2>2, <3>1 DEF FileTypeOK
  <2>. QED
    BY <2>2, <2>3, <2>4 DEF FileInv
<1>. QED
  BY <1>1, <1>2, <1>3, WritePieceKeeps DEF FileNext, FileSystem

\* The records in the file are in the order in which they came, none twice, for
\* any number of updates, failed writes and failed flushes (run, write_record).
THEOREM RecordsInOrder == FileSpec => []FileInOrder
<1>1. FileInv => FileInOrder
  BY DEF FileInv, FileInOrder, BodiesRise
<1>. QED
  BY <1>1, FileInitInv, FileStepInv, PTL DEF FileSpec


\* Both targets keep the order of what they were given (the two theorems on the
\* clickhouse target and the one on the file target together).
THEOREM TargetsKeepOrder == ChSpec /\ FileSpec => []TargetsInOrder
<1>1. HistoryIsPrefix /\ SegmentSelfContained /\ FileInOrder => TargetsInOrder
  BY DEF TargetsInOrder
<1>. QED
  BY <1>1, HistoryInOrder, SegmentsStandAlone, RecordsInOrder, PTL
=============================================================================
