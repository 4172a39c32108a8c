----------------------------- MODULE QueryProofs -----------------------------
(***************************************************************************)
(* Proofs about the dumps of Query: the slots of DumpGuard, what a client  *)
(* gets of a RIB that goes on changing, and the two ways to answer.        *)
(***************************************************************************)
EXTENDS Query, TLAPS, FiniteSetTheorems

(* Zenon proves the leaves that do not name the SMT solver.                *)
USE ZenonT(30)

Keys == {r.prefix : r \in QRoutes}

QPlaces == {"asked", "loading", "walking", "flushing", "cutting", "ended", "cut", "failed",
            "refused", "bad"}

QRecs ==
    [pc : QPlaces, filter : QFilters, seen : Int, keys : Seq(Keys), chunk : Nat,
     batch : Seq(QRoutes), buffer : Seq(QRoutes), written : Seq(QRoutes), body : Seq(QRoutes),
     waiting : Nat, gone : BOOLEAN, stable : SUBSET QRoutes]

Working(q) == q.pc \in {"walking", "flushing", "cutting"}

Distinct(s) == \A i, j \in 1 .. Len(s) : s[i] = s[j] => i = j

Holds(s, x) == \E i \in 1 .. Len(s) : s[i] = x

(* The sequence holds x, and at one place only.                            *)
Once(s, x) == \E i \in 1 .. Len(s) : s[i] = x /\ \A j \in 1 .. Len(s) : s[j] = x => j = i

(* A record whose key is still to be read is in no line yet; one whose key *)
(* was read is in one.                                                     *)
Placed(r, keys, lines) ==
    IF Holds(keys, r.prefix) THEN ~Holds(lines, r) ELSE Once(lines, r)

AllPlaced(q) == \A r \in q.stable : Placed(r, q.keys, q.written \o q.batch)

(* What is true of a request while the table is tbl.                       *)
RecInv(q, tbl) ==
    /\ q.stable \subseteq Dumped(tbl, q.filter)
    /\ q.chunk <= Len(q.keys) /\ Distinct(q.keys)
    /\ q.pc \in {"asked", "loading"} => q.written = <<>> /\ q.batch = <<>>
    /\ q.pc \in {"flushing", "ended"} => q.keys = <<>> /\ q.batch = <<>>
    /\ ~Working(q) => q.buffer = <<>>
    /\ q.pc # "failed" => q.written = q.body \o q.buffer
    /\ OpensWith(q.body, q.written)
    /\ (Working(q) \/ q.pc = "ended") => AllPlaced(q)

QueryInv ==
    /\ live \subseteq QRoutes /\ trusted \in {0, 1} /\ req \in [Requests -> QRecs]
    /\ DumpSlots
    /\ \A d \in Requests : RecInv(req[d], live)

-----------------------------------------------------------------------------
(* Sequences.                                                              *)

(* An order of a finite set holds each of its elements at one place.       *)
LEMMA OrdersOf ==
    ASSUME NEW S, IsFiniteSet(S), NEW s \in Orders(S)
    PROVE  /\ s \in Seq(S) /\ Distinct(s) /\ Len(s) = Cardinality(S)
           /\ \A x : Holds(s, x) <=> x \in S
           /\ \A x \in S : Once(s, x)
<1> DEFINE D == 1 .. Cardinality(S)
<1>1. Cardinality(S) \in Nat
  BY FS_CardinalityType
<1>2. s \in [D -> S] /\ \A i, j \in D : i # j => s[i] # s[j]
  BY DEF Orders, Bijection, Injection, IsInjective
<1>3. s \in Seq(S) /\ Len(s) = Cardinality(S)
  BY SMTT(30), <1>1, <1>2
<1>4. \A x \in S : \E i \in D : s[i] = x
  BY DEF Orders, Bijection, Surjection
<1>5. Distinct(s)
  BY <1>2, <1>3 DEF Distinct
<1>6. \A x : Holds(s, x) <=> x \in S
  BY SMTT(30), <1>2, <1>3, <1>4 DEF Holds
<1>7. \A x \in S : Once(s, x)
  BY <1>3, <1>4, <1>5 DEF Once, Distinct
<1>. QED
  BY <1>3, <1>5, <1>6, <1>7

(* The keys of a table.                                                    *)
LEMMA KeysFinite ==
    ASSUME NEW T \in SUBSET QRoutes
    PROVE  IsFiniteSet({r.prefix : r \in T}) /\ {r.prefix : r \in T} \subseteq Keys
<1> DEFINE f == [r \in T |-> r.prefix]
           K == {r.prefix : r \in T}
<1>1. IsFiniteSet(T)
  BY QueryAssumption, FS_Subset
<1>2. f \in Surjection(T, K)
  BY DEF Surjection
<1> HIDE DEF f
<1>3. IsFiniteSet(K)
  BY <1>1, <1>2, FS_Surjection
<1>4. K \subseteq Keys
  BY DEF Keys
<1>. QED
  BY <1>3, <1>4

(* What is in two sequences put together.                                  *)
LEMMA HoldsConcat ==
    ASSUME NEW S, NEW s \in Seq(S), NEW t \in Seq(S), NEW x
    PROVE  /\ Holds(s \o t, x) <=> Holds(s, x) \/ Holds(t, x)
           /\ Once(s, x) /\ ~Holds(t, x) => Once(s \o t, x)
           /\ ~Holds(s, x) /\ Once(t, x) => Once(s \o t, x)
<1> DEFINE u == s \o t
<1>1. /\ u \in Seq(S) /\ Len(u) = Len(s) + Len(t) /\ Len(s) \in Nat /\ Len(t) \in Nat
      /\ \A i \in 1 .. Len(s) : i \in 1 .. Len(u) /\ u[i] = s[i]
      /\ \A i \in 1 .. Len(t) : Len(s) + i \in 1 .. Len(u) /\ u[Len(s) + i] = t[i]
      /\ \A i \in 1 .. Len(u) : i \in 1 .. Len(s) \/ (i - Len(s) \in 1 .. Len(t) /\ u[i] = t[i - Len(s)])
  BY SMTT(30)
<1> HIDE DEF u
<1>2. Holds(u, x) <=> Holds(s, x) \/ Holds(t, x)
  <2>1. Holds(s, x) => Holds(u, x)
    BY <1>1 DEF Holds
  <2>2. Holds(t, x) => Holds(u, x)
    BY <1>1 DEF Holds
  <2>3. Holds(u, x) => Holds(s, x) \/ Holds(t, x)
    BY <1>1 DEF Holds
  <2>. QED
    BY <2>1, <2>2, <2>3
<1>3. ASSUME Once(s, x), ~Holds(t, x) PROVE Once(u, x)
  <2>1. PICK i \in 1 .. Len(s) : s[i] = x /\ \A j \in 1 .. Len(s) : s[j] = x => j = i
    BY <1>3 DEF Once
  <2>2. ASSUME NEW j \in 1 .. Len(u), u[j] = x PROVE j = i
    <3>1. j \in 1 .. Len(s)
      BY <1>1, <1>3, <2>2 DEF Holds
    <3>. QED
      BY <1>1, <2>1, <2>2, <3>1
  <2>. QED
    BY <1>1, <2>1, <2>2 DEF Once
<1>4. ASSUME ~Holds(s, x), Once(t, x) PROVE Once(u, x)
  <2>1. PICK i \in 1 .. Len(t) : t[i] = x /\ \A j \in 1 .. Len(t) : t[j] = x => j = i
    BY <1>4 DEF Once
  <2>2. Len(s) + i \in 1 .. Len(u) /\ u[Len(s) + i] = x
    BY <1>1, <2>1
  <2>3. ASSUME NEW j \in 1 .. Len(u), u[j] = x PROVE j = Len(s) + i
    <3>1. j \notin 1 .. Len(s)
      BY <1>1, <1>4, <2>3 DEF Holds
    <3>2. j - Len(s) \in 1 .. Len(t) /\ t[j - Len(s)] = x
      BY <1>1, <2>3, <3>1
    <3>3. j - Len(s) = i
      BY <2>1, <3>2
    <3>. QED
      BY SMTT(30), <1>1, <3>3
  <2>. QED
    BY <2>2, <2>3 DEF Once
<1>. QED
  BY <1>2, <1>3, <1>4 DEF u

(* The first key is read: it is no longer left, and the others are.        *)
LEMMA HeadRead ==
    ASSUME NEW S, NEW s \in Seq(S), s # <<>>, Distinct(s), NEW x
    PROVE  /\ Head(s) \in S /\ Tail(s) \in Seq(S) /\ Distinct(Tail(s)) /\ Len(Tail(s)) = Len(s) - 1
           /\ Holds(s, Head(s)) /\ ~Holds(Tail(s), Head(s))
           /\ x # Head(s) => (Holds(Tail(s), x) <=> Holds(s, x))
<1>1. /\ Len(s) \in Nat \ {0} /\ Head(s) = s[1] /\ Head(s) \in S
      /\ Tail(s) \in Seq(S) /\ Len(Tail(s)) = Len(s) - 1
      /\ \A i \in 1 .. Len(Tail(s)) : i + 1 \in 1 .. Len(s) /\ Tail(s)[i] = s[i + 1]
      /\ \A i \in 2 .. Len(s) : i - 1 \in 1 .. Len(Tail(s)) /\ Tail(s)[i - 1] = s[i]
  BY SMTT(30)
<1>2. Distinct(Tail(s))
  BY SMTT(30), <1>1 DEF Distinct
<1>3. Holds(s, Head(s))
  BY SMTT(30), <1>1 DEF Holds
<1>4. ~Holds(Tail(s), Head(s))
  BY SMTT(30), <1>1 DEF Holds, Distinct
<1>5. ASSUME x # Head(s) PROVE Holds(Tail(s), x) <=> Holds(s, x)
  <2>1. Holds(Tail(s), x) => Holds(s, x)
    BY SMTT(30), <1>1 DEF Holds
  <2>2. ASSUME Holds(s, x) PROVE Holds(Tail(s), x)
    <3>1. PICK i \in 1 .. Len(s) : s[i] = x
      BY <2>2 DEF Holds
    <3>2. i \in 2 .. Len(s)
      BY SMTT(30), <1>1, <1>5, <3>1
    <3>. QED
      BY <1>1, <3>1, <3>2 DEF Holds
  <2>. QED
    BY <2>1, <2>2
<1>. QED
  BY <1>1, <1>2, <1>3, <1>4, <1>5

(* Putting sequences together.                                             *)
LEMMA ConcatAssoc ==
    ASSUME NEW s \in Seq(QRoutes), NEW t \in Seq(QRoutes), NEW u \in Seq(QRoutes)
    PROVE  s \o t \in Seq(QRoutes) /\ s \o (t \o u) = (s \o t) \o u
  BY SMTT(30)

(* An element is appended to the second of two.                            *)
LEMMA ConcatAppend ==
    ASSUME NEW s \in Seq(QRoutes), NEW t \in Seq(QRoutes), NEW x \in QRoutes
    PROVE  s \o Append(t, x) = Append(s \o t, x)
  BY SMTT(30)

(* The first element of the second moves to the end of the first.          *)
LEMMA HeadMoves ==
    ASSUME NEW s \in Seq(QRoutes), NEW t \in Seq(QRoutes), t # <<>>
    PROVE  Append(s, Head(t)) \o Tail(t) = s \o t
  BY SMTT(30)

(* The first is a beginning of the whole, and of itself.                   *)
LEMMA PrefixOfConcat ==
    ASSUME NEW s \in Seq(QRoutes), NEW t \in Seq(QRoutes)
    PROVE  OpensWith(s, s \o t) /\ OpensWith(s, s) /\ s \o <<>> = s
  BY SMTT(30) DEF OpensWith

-----------------------------------------------------------------------------
(* What a step makes of the record of its request.                         *)

(* The record keeps its lines and keys, and goes from one place to another.*)
LEMMA PlaceMoves ==
    ASSUME NEW tbl, NEW q \in QRecs, RecInv(q, tbl), NEW w \in QRecs,
           w.filter = q.filter, w.stable = q.stable, w.keys = q.keys, w.batch = q.batch,
           w.buffer = q.buffer, w.written = q.written, w.body = q.body,
           w.chunk <= Len(w.keys),
           w.pc \in {"asked", "loading"} => q.pc \in {"asked", "loading"},
           w.pc \in {"flushing", "ended"} => q.keys = <<>> /\ q.batch = <<>>,
           Working(w) \/ q.buffer = <<>>,
           q.pc = "failed" => w.pc = "failed",
           Working(w) \/ w.pc = "ended" => Working(q) \/ q.pc = "ended"
    PROVE  RecInv(w, tbl)
  BY DEF RecInv, AllPlaced

\* A request once the record has been touched (Touched).
Without(q, r) == [q EXCEPT !.stable = @ \ {r}]

(* A record of the table is added or withdrawn.                            *)
LEMMA TouchStep ==
    ASSUME NEW tbl, NEW q \in QRecs, RecInv(q, tbl), NEW r, NEW new, tbl \ {r} \subseteq new
    PROVE  /\ Without(q, r) \in QRecs /\ Without(q, r).pc = q.pc
           /\ RecInv(Without(q, r), new)
<1>. PICK w : w = [q EXCEPT !.stable = @ \ {r}]
  OBVIOUS
<1>1. /\ w \in QRecs /\ w.pc = q.pc /\ w.filter = q.filter /\ w.stable = q.stable \ {r}
      /\ w.keys = q.keys /\ w.chunk = q.chunk /\ w.batch = q.batch /\ w.buffer = q.buffer
      /\ w.written = q.written /\ w.body = q.body
  BY DEF QRecs
<1>2. w.stable \subseteq Dumped(new, w.filter)
  BY <1>1 DEF RecInv, Dumped
<1>3. Working(w) <=> Working(q)
  BY <1>1 DEF Working
<1>4. AllPlaced(q) => AllPlaced(w)
  BY <1>1 DEF AllPlaced
<1>5. RecInv(w, new)
  BY <1>1, <1>2, <1>3, <1>4 DEF RecInv
<1>6. w = Without(q, r)
  BY DEF Without
<1>. QED
  BY <1>1, <1>5, <1>6

\* A dump that has read its next key, whose records are the lines.
WithLines(q, lines) == [q EXCEPT !.keys = Tail(@), !.chunk = @ - 1, !.batch = @ \o lines]

(* get_records_for_prefix: the key is read, and its records are the next   *)
(* lines.                                                                  *)
LEMMA ReadStep ==
    ASSUME NEW tbl \in SUBSET QRoutes, NEW q \in QRecs, RecInv(q, tbl),
           q.pc = "walking", q.chunk > 0,
           NEW lines \in Orders(Dumped({r \in tbl : r.prefix = Head(q.keys)}, q.filter))
    PROVE  /\ WithLines(q, lines) \in QRecs /\ WithLines(q, lines).pc = q.pc
           /\ RecInv(WithLines(q, lines), tbl)
<1>. PICK w : w = [q EXCEPT !.keys = Tail(@), !.chunk = @ - 1, !.batch = @ \o lines]
  OBVIOUS
<1> DEFINE k == Head(q.keys)
           S == Dumped({r \in tbl : r.prefix = k}, q.filter)
<1>1. /\ q.keys \in Seq(Keys) /\ q.chunk \in Nat /\ q.chunk <= Len(q.keys) /\ Distinct(q.keys)
      /\ q.batch \in Seq(QRoutes) /\ q.written \in Seq(QRoutes) /\ q.keys # <<>>
  BY SMTT(30) DEF QRecs, RecInv
<1>2. S \in SUBSET QRoutes /\ IsFiniteSet(S)
  BY QueryAssumption, FS_Subset DEF Dumped
<1>3. /\ lines \in Seq(QRoutes)
      /\ \A x : Holds(lines, x) <=> x \in S
      /\ \A x \in S : Once(lines, x)
  <2>1. lines \in Seq(S) /\ (\A x : Holds(lines, x) <=> x \in S) /\ \A x \in S : Once(lines, x)
    BY <1>2, OrdersOf
  <2>2. lines \in Seq(QRoutes)
    BY SMTT(30), <1>2, <2>1
  <2>. QED
    BY <2>1, <2>2
<1>4. /\ k \in Keys /\ Tail(q.keys) \in Seq(Keys) /\ Distinct(Tail(q.keys))
      /\ Len(Tail(q.keys)) = Len(q.keys) - 1
      /\ Holds(q.keys, k) /\ ~Holds(Tail(q.keys), k)
      /\ \A x : x # k => (Holds(Tail(q.keys), x) <=> Holds(q.keys, x))
  BY <1>1, HeadRead
<1>5. q.batch \o lines \in Seq(QRoutes)
  BY SMTT(30), <1>1, <1>3
<1>6. /\ w.pc = q.pc /\ w.filter = q.filter /\ w.stable = q.stable
      /\ w.keys = Tail(q.keys) /\ w.chunk = q.chunk - 1 /\ w.batch = q.batch \o lines
      /\ w.buffer = q.buffer /\ w.written = q.written /\ w.body = q.body
  BY DEF QRecs
<1>7. w.written \o w.batch = (q.written \o q.batch) \o lines /\ q.written \o q.batch \in Seq(QRoutes)
  <2>1. q.written \o q.batch \in Seq(QRoutes)
    BY <1>1, ConcatAssoc
  <2>2. q.written \o (q.batch \o lines) = (q.written \o q.batch) \o lines
    BY <1>1, <1>3, ConcatAssoc
  <2>. QED
    BY <1>6, <2>1, <2>2
<1>9. q.chunk - 1 \in Nat
  BY SMTT(30), <1>1
<1>10. w \in QRecs
  BY <1>4, <1>5, <1>9 DEF QRecs
<1>11. w.chunk <= Len(w.keys)
  BY SMTT(30), <1>1, <1>4, <1>6
<1>8. AllPlaced(w)
  <2> SUFFICES ASSUME NEW r \in q.stable
               PROVE  Placed(r, Tail(q.keys), (q.written \o q.batch) \o lines)
    BY <1>6, <1>7 DEF AllPlaced
  <2> DEFINE old == q.written \o q.batch
  <2>1. Placed(r, q.keys, old) /\ r \in Dumped(tbl, q.filter)
    BY DEF RecInv, AllPlaced, Working
  <2> HIDE DEF old
  <2>2. old \in Seq(QRoutes)
    BY <1>7 DEF old
  <2>3. /\ Holds(old \o lines, r) <=> Holds(old, r) \/ Holds(lines, r)
        /\ Once(old, r) /\ ~Holds(lines, r) => Once(old \o lines, r)
        /\ ~Holds(old, r) /\ Once(lines, r) => Once(old \o lines, r)
    BY <1>3, <2>2, HoldsConcat
  <2>4. CASE r.prefix = k
    <3>1. r \in S
      BY <2>1, <2>4 DEF Dumped
    <3>2. ~Holds(old, r)
      BY <1>4, <2>1, <2>4 DEF Placed
    <3>. QED
      BY <1>3, <1>4, <2>3, <2>4, <3>1, <3>2 DEF Placed, old
  <2>5. CASE r.prefix # k
    <3>1. r \notin S
      BY <2>5 DEF Dumped
    <3>2. ~Holds(lines, r)
      BY <1>3, <3>1
    <3>3. Holds(Tail(q.keys), r.prefix) <=> Holds(q.keys, r.prefix)
      BY <1>4, <2>5
    <3>. QED
      BY <2>1, <2>3, <3>2, <3>3 DEF Placed, old
  <2>. QED
    BY <2>4, <2>5
<1>12. RecInv(w, tbl)
  BY <1>4, <1>6, <1>8, <1>10, <1>11 DEF RecInv, Working
<1>13. w = WithLines(q, lines)
  BY DEF WithLines
<1>. QED
  BY <1>6, <1>10, <1>12, <1>13

(* A record goes from the batch to the buffer.                             *)
LEMMA WriteStep ==
    ASSUME NEW tbl, NEW q \in QRecs, RecInv(q, tbl), q.pc = "walking", q.batch # <<>>,
           NEW w, w = [q EXCEPT !.batch = Tail(@), !.buffer = Append(@, Head(q.batch)),
                                !.written = Append(@, Head(q.batch))]
    PROVE  w \in QRecs /\ RecInv(w, tbl) /\ w.pc = q.pc
<1> DEFINE x == Head(q.batch)
<1>1. /\ q.batch \in Seq(QRoutes) /\ q.buffer \in Seq(QRoutes) /\ q.written \in Seq(QRoutes)
      /\ q.body \in Seq(QRoutes)
  BY DEF QRecs
<1>2. x \in QRoutes /\ Tail(q.batch) \in Seq(QRoutes)
  BY SMTT(30), <1>1
<1>3. /\ w.pc = q.pc /\ w.filter = q.filter /\ w.stable = q.stable
      /\ w.keys = q.keys /\ w.chunk = q.chunk /\ w.batch = Tail(q.batch)
      /\ w.buffer = Append(q.buffer, x) /\ w.written = Append(q.written, x) /\ w.body = q.body
  BY DEF QRecs
<1>4. w.written \o w.batch = q.written \o q.batch
  <2>1. Append(q.written, x) \o Tail(q.batch) = q.written \o q.batch
    BY <1>1, HeadMoves
  <2>. QED
    BY <1>3, <2>1
<1>9. Append(q.buffer, x) \in Seq(QRoutes) /\ Append(q.written, x) \in Seq(QRoutes)
  BY SMTT(30), <1>1, <1>2
<1>10. w \in QRecs
  BY <1>2, <1>9 DEF QRecs
<1>5. q.written = q.body \o q.buffer
  BY DEF RecInv
<1>6. w.written = w.body \o w.buffer
  <2>1. q.body \o Append(q.buffer, x) = Append(q.body \o q.buffer, x)
    BY <1>1, <1>2, ConcatAppend
  <2>. QED
    BY <1>3, <1>5, <2>1
<1>7. OpensWith(w.body, w.written)
  <2>1. OpensWith(q.body, q.body \o Append(q.buffer, x))
    BY <1>1, <1>9, PrefixOfConcat
  <2>. QED
    BY <1>3, <1>6, <2>1
<1>8. AllPlaced(w)
  BY <1>3, <1>4 DEF RecInv, AllPlaced, Working
<1>. QED
  BY <1>3, <1>6, <1>7, <1>8, <1>10 DEF RecInv, Working

(* send_buffer, when the client takes the chunk.                           *)
LEMMA SendStep ==
    ASSUME NEW tbl, NEW q \in QRecs, RecInv(q, tbl), MustSend(q), NEW w, w = Sends(q)
    PROVE  w \in QRecs /\ RecInv(w, tbl) /\ w.pc = q.pc
<1>1. /\ q.buffer \in Seq(QRoutes) /\ q.written \in Seq(QRoutes) /\ q.body \in Seq(QRoutes)
      /\ q.waiting \in Nat
  BY DEF QRecs
<1>2. Working(q) /\ q.pc # "failed"
  BY SMTT(30), <1>1, QueryAssumption DEF RecInv, MustSend, Working
<1>3. /\ w.pc = q.pc /\ w.filter = q.filter /\ w.stable = q.stable
      /\ w.keys = q.keys /\ w.chunk = q.chunk /\ w.batch = q.batch
      /\ w.buffer = <<>> /\ w.written = q.written /\ w.body = q.body \o q.buffer
  BY DEF QRecs, Sends
<1>4. q.written = q.body \o q.buffer
  BY <1>2 DEF RecInv
<1>5. q.body \o q.buffer \in Seq(QRoutes) /\ <<>> \in Seq(QRoutes) /\ q.waiting + 1 \in Nat
  BY SMTT(30), <1>1
<1>6. w \in QRecs
  BY <1>5 DEF QRecs, Sends
<1>7. w.written = w.body \o w.buffer /\ OpensWith(w.body, w.written)
  BY <1>1, <1>3, <1>4, <1>5, PrefixOfConcat
<1>. QED
  BY <1>2, <1>3, <1>6, <1>7 DEF RecInv, AllPlaced, Working

(* send_buffer, when the client is gone or stalls.                         *)
LEMMA FailStep ==
    ASSUME NEW tbl, NEW q \in QRecs, RecInv(q, tbl), MustSend(q),
           NEW w, w = [q EXCEPT !.buffer = <<>>, !.pc = "failed", !.batch = <<>>]
    PROVE  w \in QRecs /\ RecInv(w, tbl) /\ Working(q) /\ w.pc = "failed"
<1>1. Working(q)
  BY SMTT(30), QueryAssumption DEF RecInv, MustSend, Working, QRecs
<1>2. /\ w.pc = "failed" /\ w.filter = q.filter /\ w.stable = q.stable
      /\ w.keys = q.keys /\ w.chunk = q.chunk /\ w.batch = <<>>
      /\ w.buffer = <<>> /\ w.written = q.written /\ w.body = q.body
  BY DEF QRecs
<1>3. <<>> \in Seq(QRoutes) /\ "failed" \in QPlaces
  BY SMTT(30) DEF QPlaces
<1>4. w \in QRecs
  BY <1>3 DEF QRecs
<1>. QED
  BY <1>1, <1>2, <1>4 DEF RecInv, Working

\* A dump that has listed the keys of the table, in some order.
Listed(q, order, tbl) ==
    [q EXCEPT !.pc = "walking", !.keys = order,
              !.chunk = IF Len(order) < DumpChunk THEN Len(order) ELSE DumpChunk,
              !.stable = Dumped(tbl, q.filter)]

(* The keys are listed, and nothing is read yet.                           *)
LEMMA BeginStep ==
    ASSUME NEW tbl \in SUBSET QRoutes, NEW q \in QRecs, RecInv(q, tbl), q.pc = "loading",
           NEW order \in Orders({r.prefix : r \in tbl})
    PROVE  /\ Listed(q, order, tbl) \in QRecs /\ Listed(q, order, tbl).pc = "walking"
           /\ RecInv(Listed(q, order, tbl), tbl)
<1>. PICK n : n = IF Len(order) < DumpChunk THEN Len(order) ELSE DumpChunk
  OBVIOUS
<1>. PICK w : w = [q EXCEPT !.pc = "walking", !.keys = order, !.chunk = n,
                            !.stable = Dumped(tbl, q.filter)]
  OBVIOUS
<1> DEFINE K == {r.prefix : r \in tbl}
<1>1. IsFiniteSet(K) /\ K \subseteq Keys
  BY KeysFinite
<1>2. order \in Seq(K) /\ Distinct(order) /\ \A x : Holds(order, x) <=> x \in K
  BY <1>1, OrdersOf
<1>3. order \in Seq(Keys)
  BY SMTT(30), <1>1, <1>2
<1>4. n \in Nat /\ n <= Len(order)
  BY SMTT(30), <1>3, QueryAssumption
<1>5. Dumped(tbl, q.filter) \subseteq tbl
  BY DEF Dumped
<1>6. /\ w.pc = "walking" /\ w.filter = q.filter /\ w.stable = Dumped(tbl, q.filter)
      /\ w.keys = order /\ w.chunk = n /\ w.batch = q.batch
      /\ w.buffer = q.buffer /\ w.written = q.written /\ w.body = q.body
  BY DEF QRecs
<1>9. "walking" \in QPlaces /\ Dumped(tbl, q.filter) \in SUBSET QRoutes
  BY <1>5 DEF QPlaces
<1>10. w \in QRecs
  BY <1>3, <1>4, <1>9 DEF QRecs
<1>7. q.written = <<>> /\ q.batch = <<>> /\ q.buffer = <<>> /\ q.written = q.body \o q.buffer
  BY DEF RecInv, Working
<1>8. AllPlaced(w)
  <2> SUFFICES ASSUME NEW r \in Dumped(tbl, q.filter)
               PROVE  Placed(r, order, w.written \o w.batch)
    BY <1>6 DEF AllPlaced
  <2>1. Holds(order, r.prefix)
    BY <1>2, <1>5
  <2>2. w.written \o w.batch = <<>>
    BY SMTT(30), <1>6, <1>7
  <2>3. ~Holds(<<>>, r)
    BY SMTT(30) DEF Holds
  <2>. QED
    BY <2>1, <2>2, <2>3 DEF Placed
<1>11. RecInv(w, tbl)
  BY <1>2, <1>4, <1>6, <1>7, <1>8, <1>10 DEF RecInv, Working
<1>12. w = Listed(q, order, tbl)
  BY DEF Listed
<1>. QED
  BY <1>6, <1>10, <1>11, <1>12

-----------------------------------------------------------------------------
(* The slots, and the requests together.                                   *)

(* A step of one request, which takes a slot, gives it back or neither.    *)
LEMMA OneMoves ==
    ASSUME QueryInv, NEW d \in Requests, NEW w \in QRecs, RecInv(w, live),
           req' = [req EXCEPT ![d] = w], live' = live, trusted' = trusted,
           \/ (Working(w) <=> Working(req[d])) /\ active' = active
           \/ ~Working(req[d]) /\ Working(w) /\ active' = active + 1 /\ active < MaxDumps
           \/ Working(req[d]) /\ ~Working(w) /\ active' = active - 1
    PROVE  QueryInv'
<1>1. /\ req \in [Requests -> QRecs] /\ live \subseteq QRoutes /\ trusted \in {0, 1}
      /\ \A e \in Requests : RecInv(req[e], live)
  BY DEF QueryInv
<1>2. /\ req' \in [Requests -> QRecs] /\ req'[d] = w
      /\ \A e \in Requests \ {d} : req'[e] = req[e]
  BY <1>1
<1>3. \A e \in Requests : RecInv(req'[e], live')
  BY <1>1, <1>2
<1>4. /\ IsFiniteSet(Dumping) /\ Cardinality(Dumping) \in Nat
      /\ Cardinality(Dumping) <= MaxDumps /\ active = Cardinality(Dumping) + trusted
  BY QueryAssumption, FS_Subset, FS_CardinalityType DEF Dumping, QueryInv, DumpSlots
<1>5. DumpSlots'
  <2>1. CASE (Working(w) <=> Working(req[d])) /\ active' = active
    <3>1. Dumping' = Dumping
      BY <1>2, <2>1 DEF Dumping, Working
    <3>. QED
      BY <1>4, <2>1, <3>1 DEF DumpSlots
  <2>2. CASE ~Working(req[d]) /\ Working(w) /\ active' = active + 1 /\ active < MaxDumps
    <3>1. Dumping' = Dumping \cup {d} /\ d \notin Dumping
      BY <1>2, <2>2 DEF Dumping, Working
    <3>2. Cardinality(Dumping') = Cardinality(Dumping) + 1
      BY <1>4, <3>1, FS_AddElement
    <3>. QED
      BY SMTT(30), <1>1, <1>4, <2>2, <3>2, QueryAssumption DEF DumpSlots
  <2>3. CASE Working(req[d]) /\ ~Working(w) /\ active' = active - 1
    <3>1. Dumping' = Dumping \ {d} /\ d \in Dumping
      BY <1>2, <2>3 DEF Dumping, Working
    <3>2. Cardinality(Dumping') = Cardinality(Dumping) - 1
      BY <1>4, <3>1, FS_RemoveElement
    <3>. QED
      BY SMTT(30), <1>1, <1>4, <2>3, <3>2, QueryAssumption DEF DumpSlots
  <2>. QED
    BY <2>1, <2>2, <2>3
<1>. QED
  BY <1>1, <1>2, <1>3, <1>5 DEF QueryInv

(* Nothing is asked yet but the requests are made.                         *)
LEMMA QueryInitInv ==
    ASSUME QueryInit
    PROVE  QueryInv
<1>1. PICK asked \in [Requests -> QFilters] : req = [d \in Requests |-> Fresh(asked[d])]
  BY DEF QueryInit
<1>2. ASSUME NEW d \in Requests
      PROVE  req[d] \in QRecs /\ req[d].pc = "asked" /\ RecInv(req[d], live)
  <2> DEFINE q == Fresh(asked[d])
  <2>1. /\ q.pc = "asked" /\ q.keys = <<>> /\ q.chunk = 0 /\ q.batch = <<>> /\ q.buffer = <<>>
        /\ q.written = <<>> /\ q.body = <<>> /\ q.stable = {}
    BY DEF Fresh
  <2>2. <<>> \in Seq(Keys) /\ <<>> \in Seq(QRoutes) /\ 0 \in Nat /\ NoRead \in Int
        /\ FALSE \in BOOLEAN /\ {} \in SUBSET QRoutes /\ "asked" \in QPlaces
    BY SMTT(30) DEF NoRead, QPlaces
  <2>3. q \in QRecs
    BY <2>2 DEF QRecs, Fresh
  <2>4. OpensWith(<<>>, <<>>) /\ <<>> = <<>> \o <<>> /\ Distinct(<<>>) /\ 0 <= Len(<<>>)
    BY SMTT(30) DEF OpensWith, Distinct
  <2> HIDE DEF q
  <2>5. RecInv(q, live)
    BY <2>1, <2>4 DEF RecInv, Working
  <2>. QED
    BY <1>1, <2>1, <2>3, <2>5 DEF q
<1>3. req \in [Requests -> QRecs]
  BY <1>1, <1>2
<1>4. Dumping = {}
  BY <1>2 DEF Dumping
<1>5. DumpSlots
  BY SMTT(30), <1>4, FS_EmptySet, QueryAssumption DEF QueryInit, DumpSlots
<1>. QED
  BY <1>2, <1>3, <1>5, QueryAssumption DEF QueryInit, QueryInv

(* The RIB changes.                                                        *)
LEMMA EditInv ==
    ASSUME QueryInv, NEW r \in QRoutes, Edit(r)
    PROVE  QueryInv'
<1>1. /\ req \in [Requests -> QRecs] /\ live \subseteq QRoutes /\ trusted \in {0, 1}
      /\ \A e \in Requests : RecInv(req[e], live)
  BY DEF QueryInv
<1>2. live' \subseteq QRoutes /\ live \ {r} \subseteq live'
  BY <1>1 DEF Edit
<1>3. ASSUME NEW d \in Requests
      PROVE  req'[d] \in QRecs /\ RecInv(req'[d], live') /\ req'[d].pc = req[d].pc
  <2>1. req'[d] = Without(req[d], r)
    BY DEF Edit, Touched, Without
  <2>2. req[d] \in QRecs /\ RecInv(req[d], live)
    BY <1>1
  <2>3. live \ {r} \subseteq live'
    BY <1>2
  <2>4. /\ Without(req[d], r) \in QRecs /\ Without(req[d], r).pc = req[d].pc
        /\ RecInv(Without(req[d], r), live')
    BY <2>2, <2>3, TouchStep
  <2>. QED
    BY <2>1, <2>4
<1>4. req' \in [Requests -> QRecs]
  BY <1>3 DEF Edit, Touched
<1>5. Dumping' = Dumping
  BY <1>3 DEF Dumping
<1>6. DumpSlots'
  BY <1>5 DEF QueryInv, DumpSlots, Edit
<1>. QED
  BY <1>1, <1>2, <1>3, <1>4, <1>6 DEF QueryInv, Edit

(* A dump of a BMP collector begins or ends.                               *)
LEMMA CollectorInv ==
    ASSUME QueryInv, CollectorEnters \/ CollectorLeaves
    PROVE  QueryInv'
<1>1. UNCHANGED <<live, req>> /\ trusted' \in {0, 1} /\ active' - trusted' = active - trusted
      /\ active' \in Int
  <2>1. Cardinality(Dumping) \in Nat
    BY QueryAssumption, FS_Subset, FS_CardinalityType DEF Dumping
  <2>. QED
    BY SMTT(30), <2>1 DEF QueryInv, DumpSlots, CollectorEnters, CollectorLeaves
<1>2. Dumping' = Dumping
  BY <1>1 DEF Dumping
<1>3. Cardinality(Dumping) \in Nat
  BY QueryAssumption, FS_Subset, FS_CardinalityType DEF Dumping
<1>4. DumpSlots'
  BY SMTT(30), <1>1, <1>2, <1>3 DEF QueryInv, DumpSlots
<1>. QED
  BY <1>1, <1>4 DEF QueryInv

-----------------------------------------------------------------------------
(* The steps of a request.                                                 *)

(* What is known of the request that moves.                                *)
LEMMA Known ==
    ASSUME QueryInv, NEW d \in Requests
    PROVE  /\ req[d] \in QRecs /\ RecInv(req[d], live) /\ req \in [Requests -> QRecs]
           /\ live \in SUBSET QRoutes /\ active \in Int
<1>1. Cardinality(Dumping) \in Nat
  BY QueryAssumption, FS_Subset, FS_CardinalityType DEF Dumping
<1>. QED
  BY SMTT(30), <1>1 DEF QueryInv, DumpSlots

(* The handler.                                                            *)
LEMMA HandledInv ==
    ASSUME QueryInv, NEW d \in Requests, Handled(d)
    PROVE  QueryInv'
<1> DEFINE q == req[d]
           to == IF Streams(q.filter) /\ FilterIsSound(q.filter) THEN "loading" ELSE "bad"
           w == [q EXCEPT !.pc = to]
<1>1. q \in QRecs /\ RecInv(q, live) /\ req \in [Requests -> QRecs]
  BY Known
<1>2. q.pc = "asked" /\ req' = [req EXCEPT ![d] = w] /\ UNCHANGED <<live, active, trusted>>
  BY <1>1 DEF Handled
<1>3. to \in QPlaces /\ to \in {"loading", "bad"}
  BY DEF QPlaces
<1> HIDE DEF q, to
<1>4. /\ w.pc = to /\ w.filter = q.filter /\ w.stable = q.stable /\ w.keys = q.keys
      /\ w.chunk = q.chunk /\ w.batch = q.batch /\ w.buffer = q.buffer
      /\ w.written = q.written /\ w.body = q.body
  BY <1>1 DEF QRecs
<1>5. w \in QRecs
  BY <1>1, <1>3 DEF QRecs
<1> HIDE DEF w
<1>6. ~Working(w) /\ ~Working(q) /\ q.buffer = <<>> /\ q.chunk <= Len(q.keys)
  BY <1>1, <1>2, <1>3, <1>4 DEF Working, RecInv
<1>7. RecInv(w, live)
  BY <1>1, <1>2, <1>3, <1>4, <1>5, <1>6, PlaceMoves
<1>. QED
  BY <1>2, <1>5, <1>6, <1>7, OneMoves DEF q

(* A step that only reads the counter or the client takes.                 *)
LEMMA Unmoved ==
    ASSUME NEW tbl, NEW q \in QRecs, RecInv(q, tbl), NEW w,
           \/ \E n \in Int : w = [q EXCEPT !.seen = n]
           \/ \E n \in Nat : w = [q EXCEPT !.waiting = n]
           \/ w = [q EXCEPT !.gone = TRUE]
    PROVE  w \in QRecs /\ RecInv(w, tbl) /\ (Working(w) <=> Working(q))
<1>1. /\ w.pc = q.pc /\ w.filter = q.filter /\ w.stable = q.stable /\ w.keys = q.keys
      /\ w.chunk = q.chunk /\ w.batch = q.batch /\ w.buffer = q.buffer
      /\ w.written = q.written /\ w.body = q.body
  BY DEF QRecs
<1>2. w \in QRecs
  <2>1. CASE \E n \in Int : w = [q EXCEPT !.seen = n]
    BY <2>1 DEF QRecs
  <2>2. CASE \E n \in Nat : w = [q EXCEPT !.waiting = n]
    BY <2>2 DEF QRecs
  <2>3. CASE w = [q EXCEPT !.gone = TRUE]
    BY <2>3 DEF QRecs
  <2>. QED
    BY <2>1, <2>2, <2>3
<1>3. Working(w) <=> Working(q)
  BY <1>1 DEF Working
<1>4. AllPlaced(w) <=> AllPlaced(q)
  BY <1>1 DEF AllPlaced
<1>. QED
  BY <1>1, <1>2, <1>3, <1>4 DEF RecInv

(* try_enter: the load, and what the client does.                          *)
LEMMA CounterOrClientInv ==
    ASSUME QueryInv, NEW d \in Requests, TryLoad(d) \/ ClientTakes(d) \/ ClientGone(d)
    PROVE  QueryInv'
<1>1. /\ req[d] \in QRecs /\ RecInv(req[d], live) /\ req \in [Requests -> QRecs] /\ active \in Int
      /\ req[d].waiting \in Nat
  BY Known DEF QRecs
<1>2. UNCHANGED <<live, active, trusted>>
  BY DEF TryLoad, ClientTakes, ClientGone
<1>3. PICK w : /\ req' = [req EXCEPT ![d] = w]
               /\ \/ \E n \in Int : w = [req[d] EXCEPT !.seen = n]
                  \/ \E n \in Nat : w = [req[d] EXCEPT !.waiting = n]
                  \/ w = [req[d] EXCEPT !.gone = TRUE]
  <2>1. CASE TryLoad(d)
    <3>1. req' = [req EXCEPT ![d] = [req[d] EXCEPT !.seen = active]]
      BY <1>1, <2>1 DEF TryLoad
    <3>. QED
      BY <1>1, <3>1
  <2>2. CASE ClientTakes(d)
    <3>1. req' = [req EXCEPT ![d] = [req[d] EXCEPT !.waiting = req[d].waiting - 1]]
      BY <1>1, <2>2 DEF ClientTakes
    <3>2. req[d].waiting - 1 \in Nat
      BY SMTT(30), <1>1, <2>2 DEF ClientTakes
    <3>. QED
      BY <3>1, <3>2
  <2>3. CASE ClientGone(d)
    <3>1. req' = [req EXCEPT ![d] = [req[d] EXCEPT !.gone = TRUE]]
      BY <1>1, <2>3 DEF ClientGone
    <3>. QED
      BY <3>1
  <2>. QED
    BY <2>1, <2>2, <2>3
<1>4. w \in QRecs /\ RecInv(w, live) /\ (Working(w) <=> Working(req[d]))
  BY <1>1, <1>3, Unmoved
<1>. QED
  BY <1>2, <1>3, <1>4, OneMoves

(* try_enter: the exchange.                                                *)
LEMMA TryEnterInv ==
    ASSUME QueryInv, NEW d \in Requests, TryEnter(d)
    PROVE  QueryInv'
<1> DEFINE q == req[d]
<1>1. /\ q \in QRecs /\ RecInv(q, live) /\ req \in [Requests -> QRecs] /\ active \in Int
      /\ live \in SUBSET QRoutes /\ q.seen \in Int
  BY Known DEF QRecs
<1>2. q.pc = "loading" /\ live' = live /\ trusted' = trusted /\ ~Working(q) /\ q.buffer = <<>>
  BY <1>1 DEF TryEnter, Working, RecInv
<1>3. CASE q.seen >= MaxDumps
  <2> DEFINE w == [q EXCEPT !.pc = "refused"]
  <2>1. req' = [req EXCEPT ![d] = w] /\ active' = active
    BY <1>1, <1>3 DEF TryEnter
  <2> HIDE DEF q
  <2>2. /\ w.pc = "refused" /\ w.filter = q.filter /\ w.stable = q.stable /\ w.keys = q.keys
        /\ w.chunk = q.chunk /\ w.batch = q.batch /\ w.buffer = q.buffer
        /\ w.written = q.written /\ w.body = q.body
    BY <1>1 DEF QRecs
  <2>3. "refused" \in QPlaces /\ q.chunk <= Len(q.keys)
    BY <1>1 DEF QPlaces, RecInv
  <2>4. w \in QRecs
    BY <1>1, <2>3 DEF QRecs
  <2> HIDE DEF w
  <2>5. ~Working(w)
    BY <2>2 DEF Working
  <2>6. RecInv(w, live)
    BY <1>1, <1>2, <2>2, <2>3, <2>4, <2>5, PlaceMoves
  <2>. QED
    BY <1>2, <2>1, <2>4, <2>5, <2>6, OneMoves DEF q
<1>4. CASE ~(q.seen >= MaxDumps) /\ active = q.seen
  <2>1. active' = active + 1 /\ Begun(d) /\ active < MaxDumps
    BY SMTT(30), <1>1, <1>4, QueryAssumption DEF TryEnter
  <2>2. PICK order \in Orders({r.prefix : r \in live}) :
           req' = [req EXCEPT ![d].pc = "walking", ![d].keys = order,
                              ![d].chunk = IF Len(order) < DumpChunk THEN Len(order) ELSE DumpChunk,
                              ![d].stable = Dumped(live, req[d].filter)]
    BY <2>1 DEF Begun
  <2>3. PICK w : w = Listed(q, order, live)
    OBVIOUS
  <2>4. req' = [req EXCEPT ![d] = w]
    BY <1>1, <2>2, <2>3 DEF Listed
  <2> HIDE DEF q
  <2>5. w \in QRecs /\ RecInv(w, live) /\ w.pc = "walking"
    BY <1>1, <1>2, <2>3, BeginStep
  <2>6. Working(w)
    BY <2>5 DEF Working
  <2>. QED
    BY <1>2, <2>1, <2>4, <2>5, <2>6, OneMoves DEF q
<1>5. CASE ~(q.seen >= MaxDumps) /\ active # q.seen
  <2>1. req' = [req EXCEPT ![d] = [q EXCEPT !.seen = active]] /\ active' = active
    BY <1>1, <1>5 DEF TryEnter
  <2>2. PICK w : w = [q EXCEPT !.seen = active]
    OBVIOUS
  <2>4. \E n \in Int : w = [q EXCEPT !.seen = n]
    BY <1>1, <2>2
  <2>3. w \in QRecs /\ RecInv(w, live) /\ (Working(w) <=> Working(q))
    BY <1>1, <2>4, Unmoved
  <2>. QED
    BY <1>2, <2>1, <2>2, <2>3, OneMoves
<1>. QED
  BY <1>3, <1>4, <1>5

(* A key is read, or a record written.                                     *)
LEMMA ReadOrWriteInv ==
    ASSUME QueryInv, NEW d \in Requests, ReadKey(d) \/ WriteLine(d)
    PROVE  QueryInv'
<1> DEFINE q == req[d]
<1>1. /\ q \in QRecs /\ RecInv(q, live) /\ req \in [Requests -> QRecs]
      /\ live \in SUBSET QRoutes
  BY Known
<1>2. q.pc = "walking" /\ UNCHANGED <<live, active, trusted>>
  BY DEF ReadKey, WriteLine
<1>3. PICK w : /\ req' = [req EXCEPT ![d] = w]
               /\ w \in QRecs /\ RecInv(w, live) /\ w.pc = q.pc
  <2>1. CASE ReadKey(d)
    <3>1. PICK lines \in Orders(Dumped({r \in live : r.prefix = Head(q.keys)}, q.filter)) :
             req' = [req EXCEPT ![d].keys = Tail(@), ![d].chunk = @ - 1, ![d].batch = @ \o lines]
      BY <2>1 DEF ReadKey
    <3>2. PICK w : w = WithLines(q, lines)
      OBVIOUS
    <3>3. req' = [req EXCEPT ![d] = w]
      BY <1>1, <3>1, <3>2 DEF WithLines
    <3>4. q.chunk > 0
      BY <2>1 DEF ReadKey
    <3> HIDE DEF q
    <3>5. w \in QRecs /\ RecInv(w, live) /\ w.pc = q.pc
      BY <1>1, <1>2, <3>2, <3>4, ReadStep
    <3>. QED
      BY <3>3, <3>5
  <2>2. CASE WriteLine(d)
    <3>1. PICK w : w = [q EXCEPT !.batch = Tail(@), !.buffer = Append(@, Head(q.batch)),
                                 !.written = Append(@, Head(q.batch))]
      OBVIOUS
    <3>2. req' = [req EXCEPT ![d] = w]
      BY <1>1, <2>2, <3>1 DEF WriteLine
    <3>3. q.batch # <<>>
      BY <2>2 DEF WriteLine
    <3>4. w \in QRecs /\ RecInv(w, live) /\ w.pc = q.pc
      BY <1>1, <1>2, <3>1, <3>3, WriteStep
    <3>. QED
      BY <3>2, <3>4
  <2>. QED
    BY <2>1, <2>2
<1>4. Working(w) <=> Working(q)
  BY <1>3 DEF Working
<1>. QED
  BY <1>2, <1>3, <1>4, OneMoves

(* A chunk is sent, or cannot be.                                          *)
LEMMA SendInv ==
    ASSUME QueryInv, NEW d \in Requests, SendBuffer(d) \/ SendFails(d)
    PROVE  QueryInv'
<1> DEFINE q == req[d]
<1>1. q \in QRecs /\ RecInv(q, live) /\ req \in [Requests -> QRecs]
  BY Known
<1>2. MustSend(q) /\ live' = live /\ trusted' = trusted
  BY DEF SendBuffer, SendFails
<1>3. CASE SendBuffer(d)
  <2>1. PICK w : w = Sends(q)
    OBVIOUS
  <2>2. req' = [req EXCEPT ![d] = w] /\ active' = active
    BY <1>3, <2>1 DEF SendBuffer
  <2>3. w \in QRecs /\ RecInv(w, live) /\ w.pc = q.pc
    BY <1>1, <1>2, <2>1, SendStep
  <2>4. Working(w) <=> Working(q)
    BY <2>3 DEF Working
  <2>. QED
    BY <1>2, <2>2, <2>3, <2>4, OneMoves
<1>4. CASE SendFails(d)
  <2>1. PICK w : w = [q EXCEPT !.buffer = <<>>, !.pc = "failed", !.batch = <<>>]
    OBVIOUS
  <2>2. req' = [req EXCEPT ![d] = w] /\ active' = active - 1
    BY <1>1, <1>4, <2>1 DEF SendFails
  <2>3. w \in QRecs /\ RecInv(w, live) /\ Working(q) /\ w.pc = "failed"
    BY <1>1, <1>2, <2>1, FailStep
  <2>4. ~Working(w)
    BY <2>3 DEF Working
  <2>. QED
    BY <1>2, <2>2, <2>3, <2>4, OneMoves
<1>. QED
  BY <1>3, <1>4

(* A dump goes from chunk to chunk, to its end, and gives its slot back.   *)
LEMMA ChunkOrEndInv ==
    ASSUME QueryInv, NEW d \in Requests, ChunkDone(d) \/ DumpEnds(d)
    PROVE  QueryInv'
<1> DEFINE q == req[d]
<1>1. q \in QRecs /\ RecInv(q, live) /\ req \in [Requests -> QRecs]
  BY Known
<1>2. live' = live /\ trusted' = trusted /\ Working(q) /\ q.pc # "failed"
  BY DEF ChunkDone, DumpEnds, Working
<1>3. q.keys \in Seq(Keys) /\ q.chunk \in Nat /\ q.chunk <= Len(q.keys) /\ Len(q.keys) \in Nat
  BY SMTT(30), <1>1 DEF QRecs, RecInv
<1>4. PICK to, n, w :
        /\ \/ w = [q EXCEPT !.chunk = n, !.pc = to]
           \/ w = [q EXCEPT !.pc = to] /\ n = q.chunk
        /\ req' = [req EXCEPT ![d] = w]
        /\ n \in Nat /\ n <= Len(q.keys)
        /\ \/ to = "walking" /\ active' = active
           \/ to = "flushing" /\ q.keys = <<>> /\ q.batch = <<>> /\ active' = active
           \/ to = "cutting" /\ active' = active
           \/ to = "ended" /\ q.keys = <<>> /\ q.batch = <<>> /\ q.buffer = <<>> /\ active' = active - 1
           \/ to = "cut" /\ q.buffer = <<>> /\ active' = active - 1
  <2>1. CASE ChunkDone(d)
    <3> DEFINE next == NextChunk(Len(q.keys))
    <3>1. q.chunk = 0 /\ q.batch = <<>> /\ active' = active /\ q.pc = "walking"
      BY <2>1 DEF ChunkDone
    <3>2. next \in Nat /\ next <= Len(q.keys) /\ (next = 0 => q.keys = <<>>)
      BY SMTT(30), <1>3, QueryAssumption DEF NextChunk
    <3> HIDE DEF next
    <3>3. CASE req' = [req EXCEPT ![d].chunk = next, ![d].pc = IF next = 0 THEN "flushing" ELSE "walking"]
      <4>1. PICK to : to = IF next = 0 THEN "flushing" ELSE "walking"
        OBVIOUS
      <4>3. PICK w : w = [q EXCEPT !.chunk = next, !.pc = to]
        OBVIOUS
      <4>4. req' = [req EXCEPT ![d] = w]
        BY <1>1, <3>3, <4>1, <4>3
      <4>5. (to = "flushing" /\ q.keys = <<>>) \/ to = "walking"
        BY <3>2, <4>1
      <4>. QED
        BY <3>1, <3>2, <4>3, <4>4, <4>5
    <3>4. CASE req' = [req EXCEPT ![d].pc = "cutting"]
      <4>2. PICK w : w = [q EXCEPT !.pc = "cutting"]
        OBVIOUS
      <4>3. req' = [req EXCEPT ![d] = w]
        BY <1>1, <3>4, <4>2
      <4>. QED
        BY <1>3, <3>1, <4>2, <4>3
    <3>. QED
      BY <2>1, <3>3, <3>4 DEF ChunkDone, next
  <2>2. CASE DumpEnds(d)
    <3>1. PICK to : to = IF q.pc = "flushing" THEN "ended" ELSE "cut"
      OBVIOUS
    <3>3. PICK w : w = [q EXCEPT !.pc = to]
      OBVIOUS
    <3>4. req' = [req EXCEPT ![d] = w]
      BY <1>1, <2>2, <3>1, <3>3 DEF DumpEnds
    <3>5. active' = active - 1 /\ q.buffer = <<>>
          /\ ((to = "ended" /\ q.keys = <<>> /\ q.batch = <<>>) \/ to = "cut")
      BY <1>1, <2>2, <3>1 DEF DumpEnds, MustSend, RecInv
    <3>. QED
      BY <1>3, <3>3, <3>4, <3>5
  <2>. QED
    BY <2>1, <2>2
<1>5. to \in QPlaces
  BY <1>4 DEF QPlaces
<1> HIDE DEF q
<1>6. /\ w.pc = to /\ w.chunk = n /\ w.filter = q.filter /\ w.stable = q.stable /\ w.keys = q.keys
      /\ w.batch = q.batch /\ w.buffer = q.buffer /\ w.written = q.written /\ w.body = q.body
  <2>1. CASE w = [q EXCEPT !.chunk = n, !.pc = to]
    BY <1>1, <2>1 DEF QRecs
  <2>2. CASE w = [q EXCEPT !.pc = to] /\ n = q.chunk
    BY <1>1, <2>2 DEF QRecs
  <2>. QED
    BY <1>4, <2>1, <2>2
<1>7. w \in QRecs
  BY <1>1, <1>4, <1>5 DEF QRecs
<1>10. w.chunk <= Len(w.keys)
  BY <1>4, <1>6
<1>8. /\ Working(w) \/ q.buffer = <<>>
      /\ (Working(w) /\ active' = active) \/ (~Working(w) /\ active' = active - 1)
      /\ w.pc \notin {"asked", "loading"} /\ w.pc # "failed"
      /\ w.pc \in {"flushing", "ended"} => q.keys = <<>> /\ q.batch = <<>>
  <2>1. /\ to \in {"walking", "flushing", "cutting"} \/ q.buffer = <<>>
        /\ \/ to \in {"walking", "flushing", "cutting"} /\ active' = active
           \/ to \notin {"walking", "flushing", "cutting"} /\ active' = active - 1
        /\ to \notin {"asked", "loading"} /\ to # "failed"
        /\ to \in {"flushing", "ended"} => q.keys = <<>> /\ q.batch = <<>>
    BY <1>4
  <2>. QED
    <3>1. w.pc = to
      BY <1>6
    <3>3. w.pc \notin {"asked", "loading"} /\ w.pc # "failed"
      BY <2>1, <3>1
    <3>4. w.pc \in {"flushing", "ended"} => q.keys = <<>> /\ q.batch = <<>>
      BY <2>1, <3>1
    <3>5. Working(w) \/ q.buffer = <<>>
      BY <2>1, <3>1 DEF Working
    <3>6. (Working(w) /\ active' = active) \/ (~Working(w) /\ active' = active - 1)
      BY <2>1, <3>1 DEF Working
    <3>. QED
      BY <3>3, <3>4, <3>5, <3>6
<1>9. RecInv(w, live)
  BY <1>1, <1>2, <1>6, <1>7, <1>8, <1>10, PlaceMoves
<1>. QED
  BY <1>2, <1>4, <1>7, <1>8, <1>9, OneMoves DEF q

-----------------------------------------------------------------------------
(* The theorems.                                                           *)

(* Every step of the queries keeps the invariant.                          *)
LEMMA QueryStep ==
    ASSUME QueryInv, [QueryNext]_queryVars
    PROVE  QueryInv'
<1>1. CASE UNCHANGED queryVars
  <2>1. Dumping' = Dumping
    BY <1>1 DEF queryVars, Dumping
  <2>. QED
    BY <1>1, <2>1 DEF queryVars, QueryInv, DumpSlots
<1>2. CASE \E r \in QRoutes : Edit(r)
  BY <1>2, EditInv
<1>3. CASE CollectorEnters \/ CollectorLeaves
  BY <1>3, CollectorInv
<1>4. ASSUME NEW d \in Requests,
             \/ Handled(d) \/ TryLoad(d) \/ TryEnter(d) \/ ReadKey(d) \/ WriteLine(d)
             \/ SendBuffer(d) \/ SendFails(d) \/ ChunkDone(d) \/ DumpEnds(d)
             \/ ClientTakes(d) \/ ClientGone(d)
      PROVE  QueryInv'
  BY <1>4, HandledInv, CounterOrClientInv, TryEnterInv, ReadOrWriteInv, SendInv, ChunkOrEndInv
<1>. QED
  BY <1>1, <1>2, <1>3, <1>4 DEF QueryNext

(* The invariant holds throughout.                                         *)
LEMMA QueryInvariant == QuerySpec => []QueryInv
<1>1. QueryInit => QueryInv
  BY QueryInitInv
<1>2. QueryInv /\ [QueryNext]_queryVars => QueryInv'
  BY QueryStep
<1>. QED
  BY <1>1, <1>2, PTL DEF QuerySpec

(* Dumps over HTTP never exceed MAX_CONCURRENT_DUMPS, and ACTIVE_DUMPS is  *)
(* always the number of dumps, for any number of requests whose try_enter  *)
(* calls interleave in any way and that end, fail or are cut (DumpGuard).  *)
THEOREM DumpsWithinSlots == QuerySpec => []DumpSlots
<1>1. QueryInv => DumpSlots
  BY DEF QueryInv
<1>. QED
  BY <1>1, QueryInvariant, PTL

(* A dump that ends by itself holds each record that matched and stayed    *)
(* exactly once, however the RIB changed while it was read, and every      *)
(* client was sent a beginning of its dump (write_jsonl_stream).           *)
THEOREM DumpsWhole == QuerySpec => []DumpedWhole
<1>1. ASSUME QueryInv PROVE DumpedWhole
  <2>1. BodyIsPrefix
    BY <1>1 DEF QueryInv, RecInv, BodyIsPrefix
  <2>2. ASSUME NEW d \in Requests, req[d].pc = "ended", NEW r \in req[d].stable
        PROVE  Cardinality({i \in DOMAIN req[d].body : req[d].body[i] = r}) = 1
    <3> DEFINE q == req[d]
    <3>1. q \in QRecs /\ RecInv(q, live)
      BY <1>1, Known
    <3>2. q.body \in Seq(QRoutes) /\ q.written \in Seq(QRoutes) /\ q.pc = "ended" /\ r \in q.stable
      BY <2>2, <3>1 DEF QRecs
    <3> HIDE DEF q
    <3>3. /\ q.keys = <<>> /\ q.batch = <<>> /\ q.buffer = <<>> /\ q.written = q.body \o q.buffer
          /\ AllPlaced(q)
      BY <3>1, <3>2 DEF RecInv, Working
    <3>4. q.written \o q.batch = q.body
      BY SMTT(30), <3>2, <3>3
    <3>5. ~Holds(q.keys, r.prefix)
      BY SMTT(30), <3>3 DEF Holds
    <3>6. Once(q.body, r)
      BY <3>2, <3>3, <3>4, <3>5 DEF AllPlaced, Placed
    <3>7. PICK i \in 1 .. Len(q.body) :
             q.body[i] = r /\ \A j \in 1 .. Len(q.body) : q.body[j] = r => j = i
      BY <3>6 DEF Once
    <3>8. {j \in DOMAIN q.body : q.body[j] = r} = {i}
      BY SMTT(30), <3>2, <3>7
    <3>. QED
      BY <3>8, FS_Singleton DEF q
  <2>. QED
    BY <2>1, <2>2 DEF DumpedWhole, StableRecordsDumped
<1>. QED
  BY <1>1, QueryInvariant, PTL

(* The entries that the search copies tell as much of the record as the    *)
(* whole register (Register::cloned_info_for).                             *)
LEMMA ClonedEnough ==
    ASSUME NEW muis, NEW m \in muis
    PROVE  /\ m \in DOMAIN ClonedInfoFor(muis) <=> m \in DOMAIN QRegister
           /\ m \in DOMAIN QRegister =>
                /\ ClonedInfoFor(muis)[m] = QRegister[m]
                /\ SessionType(ClonedInfoFor(muis), m) = SessionType(QRegister, m)
<1> DEFINE info == ClonedInfoFor(muis)
<1>1. /\ DOMAIN info = (muis \cup {QRegister[x].parent : x \in muis \cap DOMAIN QRegister})
                       \cap DOMAIN QRegister
      /\ \A x \in DOMAIN info : info[x] = QRegister[x]
  BY DEF ClonedInfoFor, Infos
<1> HIDE DEF info
<1>2. m \in DOMAIN info <=> m \in DOMAIN QRegister
  BY <1>1
<1>3. ASSUME m \in DOMAIN QRegister
      PROVE  info[m] = QRegister[m] /\ SessionType(info, m) = SessionType(QRegister, m)
  <2>1. info[m] = QRegister[m]
    BY <1>1, <1>2, <1>3
  <2>2. QRegister[m].parent \in DOMAIN info <=> QRegister[m].parent \in DOMAIN QRegister
    BY <1>1, <1>3
  <2>3. QRegister[m].parent \in DOMAIN info =>
           info[QRegister[m].parent] = QRegister[QRegister[m].parent]
    BY <1>1
  <2>. QED
    BY <2>1, <2>2, <2>3 DEF SessionType
<1>. QED
  BY <1>2, <1>3 DEF info

(* Whatever the register holds, the search and the dump answer a filter    *)
(* alike: the entries that the search copies are all that the filter reads *)
(* (SearchResult::new, write_jsonl_stream_inner).                          *)
THEOREM AnswersAlike == QuerySpec => []SameAnswer
<1>1. ASSUME NEW tbl \in SUBSET QRoutes, NEW f \in QFilters
      PROVE  Searched(tbl, f) = Dumped(tbl, f)
  <2> DEFINE found == {r \in tbl : f.ingress # "any" => r.mui = f.ingress}
             copied == ClonedInfoFor({x.mui : x \in found})
  <2>1. ASSUME NEW r \in found
        PROVE  Passes(r, f, copied) <=> Passes(r, f, DumpInfo(f))
    <3>1. r.mui \in {x.mui : x \in found}
      OBVIOUS
    <3>2. /\ r.mui \in DOMAIN copied <=> r.mui \in DOMAIN QRegister
          /\ r.mui \in DOMAIN QRegister =>
               /\ copied[r.mui] = QRegister[r.mui]
               /\ SessionType(copied, r.mui) = SessionType(QRegister, r.mui)
      BY <3>1, ClonedEnough
    <3>3. /\ r.mui \in DOMAIN DumpInfo(f) <=> r.mui \in DOMAIN QRegister
          /\ r.mui \in DOMAIN QRegister =>
               /\ DumpInfo(f)[r.mui] = QRegister[r.mui]
               /\ SessionType(DumpInfo(f), r.mui) = SessionType(QRegister, r.mui)
      <4>1. CASE f.ingress # "any"
        <5>1. r.mui \in {f.ingress} /\ DumpInfo(f) = ClonedInfoFor({f.ingress})
          BY <4>1 DEF DumpInfo
        <5> DEFINE info == ClonedInfoFor({f.ingress})
        <5>2. /\ r.mui \in DOMAIN info <=> r.mui \in DOMAIN QRegister
              /\ r.mui \in DOMAIN QRegister =>
                   /\ info[r.mui] = QRegister[r.mui]
                   /\ SessionType(info, r.mui) = SessionType(QRegister, r.mui)
          BY SMTT(30), <5>1, ClonedEnough
        <5> HIDE DEF info
        <5>3. DumpInfo(f) = info
          BY <5>1 DEF info
        <5>. QED
          BY <5>2, <5>3
      <4>2. CASE f.ingress = "any"
        BY <4>2 DEF DumpInfo, ClonedInfo
      <4>. QED
        BY <4>1, <4>2
    <3> HIDE DEF copied, found
    <3>. QED
      BY <3>2, <3>3 DEF Passes, IngressTypeMatches
  <2>2. \A r \in tbl : Passes(r, f, DumpInfo(f)) => r \in found
    BY DEF Passes
  <2>3. Searched(tbl, f) = {r \in found : Passes(r, f, copied)}
    BY DEF Searched
  <2>4. found \subseteq tbl
    OBVIOUS
  <2> HIDE DEF found, copied
  <2>. QED
    BY <2>1, <2>2, <2>3, <2>4 DEF Dumped
<1>2. ASSUME QueryInv PROVE SameAnswer
  <2>1. live \in SUBSET QRoutes
    BY <1>2 DEF QueryInv
  <2>2. AnswersAgree[live] = (\A f \in QFilters : Searched(live, f) = Dumped(live, f))
    BY <2>1 DEF AnswersAgree
  <2>. QED
    BY <1>1, <2>1, <2>2 DEF SameAnswer
<1>. QED
  BY <1>2, QueryInvariant, PTL

(* A stored record has the type of one session (ingress_type_matches).     *)
LEMMA OneType ==
    ASSUME NEW r \in QRoutes, r.mui \in DOMAIN QRegister
    PROVE  Cardinality({t \in {"bgp", "bgpViaBmp", "mrt"} :
                           IngressTypeMatches(t, ClonedInfo, r.mui)}) = 1
<1>. DEFINE sessions == {"bgp", "bgpViaBmp", "mrt"}
            type == SessionType(ClonedInfo, r.mui)
<1>1. type \in sessions
  BY QRegisterAssumption DEF SessionType, ClonedInfo
<1>2. \A t \in sessions : IngressTypeMatches(t, ClonedInfo, r.mui) <=> t = type
  BY QRegisterAssumption DEF IngressTypeMatches, SessionType, ClonedInfo
<1>. HIDE DEF type
<1>3. {t \in sessions : IngressTypeMatches(t, ClonedInfo, r.mui)} = {type}
  BY <1>1, <1>2
<1>. QED
  BY <1>3, FS_Singleton

(* Search and dump agree on every filter, and the filters by type divide   *)
(* the records of known ingresses (SearchResult::new,                      *)
(* write_jsonl_stream_inner, ingress_type_matches).                        *)
THEOREM FiltersConsistent == QuerySpec => []FiltersAgree
<1>1. ASSUME QueryInv PROVE TypesPartition
  <2>1. live \subseteq QRoutes
    BY <1>1 DEF QueryInv
  <2>. QED
    BY <2>1, OneType DEF TypesPartition
<1>2. SameAnswer /\ TypesPartition => FiltersAgree
  BY DEF FiltersAgree
<1>. QED
  BY <1>1, <1>2, AnswersAlike, QueryInvariant, PTL
=============================================================================
