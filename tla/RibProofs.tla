----------------------------- MODULE RibProofs -----------------------------
(***************************************************************************)
(* The RIB, its gauges and its rule count (rib.rs, peer_stats.rs,          *)
(* flowspec.rs), for any number of sessions, routes and families: readers  *)
(* see one table (theorem ImplementsTable), every peer's gauge counts it   *)
(* (GaugesCountTable), and the count of stored rules is exact whenever no  *)
(* update is in progress, if peers withdraw only rules that they have      *)
(* announced (RulesCounted).                                               *)
(*                                                                         *)
(* Three facts carry them.  A session that is down shows no route unless   *)
(* the bulk withdrawal of its end is still to come, and one that came back *)
(* shows none until the removal of its old records is done.  What a live   *)
(* session shows is what its messages can carry, so that clearing a gauge  *)
(* for one mui of a family forgets no route of another.  And a count that  *)
(* is wrong is one that some task is still bound to take again.            *)
(***************************************************************************)
EXTENDS Rib, FiniteSetTheorems, TLAPS

(* Zenon proves the leaves that do not name the SMT solver.                *)
USE ZenonT(30)

(* Where a task can be. *)
Storing  == [at : {"store"}, route : RibRoutes, status : {"Active", "Withdrawn"}]
Counted  == [at : {"count"}, delta : {"add", "sub", "none"}]
Jobs     == [at : {"bulk", "apply"}, op : {"withdraw", "remove"},
             session : RibSessions, muis : SUBSET Muis]
Bare     == [at : {"idle", "release", "generation"}]
Recounts == [at : {"walk", "check", "set", "recheck"}, stale : BOOLEAN, found : Nat]
TaskStates == Storing \cup Counted \cup Jobs \cup Bare \cup Recounts

RibTypeOK ==
    /\ rec \in [RibRoutes -> {"none", "Active", "Withdrawn"}]
    /\ hidden \subseteq RibSessions \X Muis \X Families
    /\ gauge \in [RibSessions -> [Families -> Nat]]
    /\ rules \in Nat /\ up \subseteq RibSessions
    /\ task \in [Tasks -> TaskStates]

(* The session shows no route. *)
Silent(s) == \A r \in Visible : r.session # s

AtWork(t) == task[t].at \in {"bulk", "apply"}

(* What a task is doing fits the state of the session it does it for.      *)
StoresFit ==
    \A s \in RibSessions :
        /\ task[s].at \in {"store", "count"} => s \in up
        /\ task[s].at = "store" =>
              /\ task[s].route \in Carried(s) /\ task[s].route.family = Flow
              /\ task[s].status = "Withdrawn" /\ ~Stray => task[s].route \in Visible

JobsFit ==
    /\ \A s \in RibSessions : AtWork(s) =>
          /\ task[s].session = s
          /\ s \in up => /\ task[s].op = "remove" /\ task[s].muis = {"session"}
                         /\ Silent(s)
          /\ s \notin up => task[s].op = "withdraw" /\ task[s].muis = Muis
    /\ AtWork(Collector) =>
          /\ task[Collector].session \in RibSessions \ up
          /\ task[Collector].op = "remove" /\ task[Collector].muis = Muis
          /\ Silent(task[Collector].session)
    /\ task[Collector].at \notin {"store", "count"}

ShowsCarried ==
    /\ \A s \in RibSessions \ up : Silent(s) \/ AtWork(s)
    /\ \A r \in Visible : r.session \in up => r \in Carried(r.session)

TableInv == RibTypeOK /\ StoresFit /\ JobsFit /\ ShowsCarried

-----------------------------------------------------------------------------
(* The gauges *)

Shown(s, f) == {r \in Visible : r.session = s /\ r.family = f}

GaugeInv == \A s \in RibSessions, f \in Families : gauge[s][f] = Cardinality(Shown(s, f))

-----------------------------------------------------------------------------
(* The rule count *)

HoldsFlow(t) == task[t].at \in {"store", "count"}
HoldsBulk(t) == task[t].at \in {"apply", "release"}

FlowHeld == IF \E t \in Tasks : HoldsFlow(t) THEN 1 ELSE 0
BulkHeld == IF \E t \in Tasks : HoldsBulk(t) THEN 1 ELSE 0

(* One task at a time holds flowspec_lock, one withdraw_lock, and          *)
(* active_writers counts the two.                                          *)
FlowLockInv ==
    /\ \A t, u \in Tasks : HoldsFlow(t) /\ HoldsFlow(u) => t = u
    /\ flowLock = FALSE => \A t \in Tasks : ~HoldsFlow(t)

BulkLockInv ==
    /\ \A t, u \in Tasks : HoldsBulk(t) /\ HoldsBulk(u) => t = u
    /\ bulkLock = FALSE => \A t \in Tasks : ~HoldsBulk(t)

LocksInv == FlowLockInv /\ BulkLockInv /\ writers = FlowHeld + BulkHeld

NoneAt(at) == \A t \in Tasks : task[t].at # at

(* The count n is right, once the rule that was stored last is counted.    *)
Settles(n) ==
    \/ NoneAt("count") /\ n = Cardinality(VisibleRules)
    \/ \E s \in RibSessions : /\ task[s].at = "count"
                              /\ Moved(n, task[s].delta) = Cardinality(VisibleRules)

(* The task will count the rules again before it is done. *)
Recounting(t) ==
    \/ task[t].at \in {"release", "generation", "walk", "check", "set"}
    \/ task[t].at = "recheck" /\ task[t].stale # FALSE

CountInv ==
    /\ \A t \in Tasks : task[t].at = "check" /\ task[t].stale = FALSE =>
          task[t].found = Cardinality(VisibleRules) \/ ~NoneAt("count") \/ ~NoneAt("release")
    /\ \A t \in Tasks : task[t].at \in {"set", "recheck"} /\ task[t].stale = FALSE =>
          Settles(task[t].found) \/ ~NoneAt("release")
    /\ Settles(rules) \/ \E t \in Tasks : Recounting(t)

RibInv == TableInv /\ GaugeInv /\ LocksInv /\ (~Stray => CountInv)

-----------------------------------------------------------------------------
(* Tasks, and what readers see *)

(* The state of a task tells which fields it has.                          *)
LEMMA TaskShapes ==
    ASSUME NEW x \in TaskStates
    PROVE  /\ x.at = "store" => x \in Storing
           /\ x.at = "count" => x \in Counted
           /\ x.at \in {"bulk", "apply"} => x \in Jobs
           /\ x.at \in {"walk", "check", "set", "recheck"} => x \in Recounts
           /\ x.at \in {"idle", "release", "generation"} => x \in Bare
           /\ x.at = "idle" <=> x = Idle
<1>1. \A y \in Bare : y.at = "idle" <=> y = Idle
  BY SMTT(30) DEF Bare, Idle
<1>2. Idle.at = "idle"
  BY DEF Idle
<1>. QED
  BY <1>1, <1>2 DEF TaskStates, Storing, Counted, Jobs, Bare, Recounts

(* Only the stores and the withdrawn muis decide what is visible.          *)
LEMMA VisibleSame ==
    ASSUME UNCHANGED <<rec, hidden>>
    PROVE  Visible' = Visible /\ VisibleRules' = VisibleRules
  BY DEF Visible, VisibleRules

(* insert_prefix of an announcement adds this route for readers, and no    *)
(* other of the same mui that a bulk withdrawal had hidden.                *)
LEMMA InsertShows ==
    ASSUME RibTypeOK, NEW r \in RibRoutes, InsertActive(r)
    PROVE  /\ Visible' = Visible \cup {r}
           /\ rec' \in [RibRoutes -> {"none", "Active", "Withdrawn"}]
           /\ hidden' \subseteq RibSessions \X Muis \X Families
<1> DEFINE r1 == IF Place(r) \in hidden THEN ResetPrefixes(r) ELSE rec
<1>1. rec' = [r1 EXCEPT ![r] = "Active"] /\ hidden' = hidden \ {Place(r)}
  BY DEF InsertActive
<1>2. /\ r1 \in [RibRoutes -> {"none", "Active", "Withdrawn"}]
      /\ \A q \in RibRoutes : Place(q) # Place(r) => r1[q] = rec[q]
      /\ Place(r) \in hidden => \A q \in RibRoutes : Place(q) = Place(r) => r1[q] # "Active"
      /\ Place(r) \notin hidden => r1 = rec
  BY DEF RibTypeOK, ResetPrefixes
<1> HIDE DEF r1
<1>3. rec' \in [RibRoutes -> {"none", "Active", "Withdrawn"}] /\ rec'[r] = "Active"
      /\ \A q \in RibRoutes \ {r} : rec'[q] = r1[q]
  BY <1>1, <1>2
<1>4. ASSUME NEW q \in RibRoutes
      PROVE  q \in Visible' <=> q \in Visible \/ q = r
  BY <1>1, <1>2, <1>3 DEF Visible, Place
<1>5. Visible' = Visible \cup {r}
  BY <1>4 DEF Visible
<1>. QED
  BY <1>1, <1>3, <1>5 DEF RibTypeOK

(* A withdrawal takes out this route alone.                                *)
LEMMA WithdrawHides ==
    ASSUME RibTypeOK, NEW r \in RibRoutes, InsertWithdrawn(r)
    PROVE  /\ Visible' = Visible \ {r}
           /\ rec' \in [RibRoutes -> {"none", "Active", "Withdrawn"}]
           /\ hidden' \subseteq RibSessions \X Muis \X Families
<1>1. /\ rec' = [rec EXCEPT ![r] = IF @ = "none" THEN "none" ELSE "Withdrawn"]
      /\ hidden' = hidden
  BY DEF InsertWithdrawn
<1>. QED
  BY <1>1 DEF RibTypeOK, Visible, Place

(* insert_flowspec does the same for a rule.                               *)
LEMMA StoreShows ==
    ASSUME RibTypeOK, NEW s \in RibSessions, FlowStore(s)
    PROVE  /\ task[s] \in Storing /\ task[s].route \in RibRoutes
           /\ Visible' = IF task[s].status = "Active" THEN Visible \cup {task[s].route}
                         ELSE Visible \ {task[s].route}
           /\ rec' \in [RibRoutes -> {"none", "Active", "Withdrawn"}]
           /\ hidden' \subseteq RibSessions \X Muis \X Families
<1> DEFINE r == task[s].route
           announce == task[s].status = "Active"
           reset == announce /\ Place(r) \in hidden
           r1 == IF reset THEN ResetRules(r) ELSE rec
<1>1. task[s].at = "store" /\ task[s] \in TaskStates
  BY DEF FlowStore, RibTypeOK, Tasks
<1>2. task[s] \in Storing /\ r \in RibRoutes /\ task[s].status \in {"Active", "Withdrawn"}
  BY <1>1, TaskShapes DEF Storing
<1>3. /\ hidden' = IF reset THEN hidden \ {Place(r)} ELSE hidden
      /\ rec' = [r1 EXCEPT ![r] = IF announce THEN "Active" ELSE "none"]
  BY DEF FlowStore
<1>4. /\ r1 \in [RibRoutes -> {"none", "Active", "Withdrawn"}]
      /\ \A q \in RibRoutes : Place(q) # Place(r) => r1[q] = rec[q]
      /\ reset => \A q \in RibRoutes : Place(q) = Place(r) => r1[q] = "none"
      /\ ~reset => r1 = rec
  BY DEF RibTypeOK, ResetRules
<1> HIDE DEF r1, r
<1>5. /\ rec' \in [RibRoutes -> {"none", "Active", "Withdrawn"}]
      /\ rec'[r] = IF announce THEN "Active" ELSE "none"
      /\ \A q \in RibRoutes \ {r} : rec'[q] = r1[q]
  BY <1>2, <1>3, <1>4
<1>6. ASSUME NEW q \in RibRoutes
      PROVE  q \in Visible' <=> IF announce THEN q \in Visible \/ q = r
                                ELSE q \in Visible /\ q # r
  <2>1. CASE reset
    BY <1>3, <1>4, <1>5, <2>1 DEF Visible, Place
  <2>2. CASE ~reset
    BY <1>3, <1>4, <1>5, <2>2 DEF Visible, Place
  <2>. QED
    BY <2>1, <2>2
<1>7. Visible' = IF announce THEN Visible \cup {r} ELSE Visible \ {r}
  <2>1. Visible \subseteq RibRoutes /\ Visible' \subseteq RibRoutes
    BY DEF Visible
  <2>. QED
    BY <1>2, <1>6, <2>1
<1>8. hidden' \subseteq RibSessions \X Muis \X Families
  BY <1>3 DEF RibTypeOK
<1>. QED
  BY <1>2, <1>5, <1>7, <1>8 DEF r

(* A bulk operation on all muis of a session, or on those of one that      *)
(* shows nothing, leaves none of its routes visible and no other changed.  *)
LEMMA BulkClears ==
    ASSUME TableInv, NEW t \in Tasks, BulkApply(t)
    PROVE  /\ task[t] \in Jobs /\ task[t].session \in RibSessions
           /\ Visible' = {r \in Visible : r.session # task[t].session}
           /\ task[t].session \in up => Visible' = Visible
           /\ "session" \in task[t].muis
           /\ rec' \in [RibRoutes -> {"none", "Active", "Withdrawn"}]
           /\ hidden' \subseteq RibSessions \X Muis \X Families
<1> DEFINE job == task[t]
           places == {job.session} \X job.muis \X Families
<1>1. task[t].at = "apply" /\ task[t] \in TaskStates
  BY DEF BulkApply, TableInv, RibTypeOK
<1>2. job \in Jobs /\ job.session \in RibSessions /\ job.muis \subseteq Muis
  BY <1>1, TaskShapes DEF Jobs
<1>3. AtWork(t)
  BY <1>1 DEF AtWork
<1>4. \/ job.op = "withdraw" /\ job.muis = Muis
      \/ job.op = "remove" /\ Silent(job.session) /\ "session" \in job.muis
  BY SMTT(30), <1>3 DEF TableInv, JobsFit, Tasks, Muis
<1>5. job.session \in up => Silent(job.session)
  BY SMTT(30), <1>3 DEF TableInv, JobsFit, Tasks
<1>6. \/ job.op = "withdraw" /\ rec' = Compacted(job) /\ hidden' = hidden \cup places
      \/ job.op = "remove" /\ rec' = WithoutRecords(job) /\ hidden' = hidden \ places
  BY DEF BulkApply
<1>7. \A r \in RibRoutes : r.session \in RibSessions /\ r.mui \in Muis /\ r.family \in Families
  BY RibAssumption DEF Families
<1>8. places \subseteq RibSessions \X Muis \X Families
  BY <1>2
<1>9. rec \in [RibRoutes -> {"none", "Active", "Withdrawn"}]
      /\ hidden \subseteq RibSessions \X Muis \X Families
  BY DEF TableInv, RibTypeOK
<1> HIDE DEF job, places
<1>10. /\ rec' \in [RibRoutes -> {"none", "Active", "Withdrawn"}]
       /\ hidden' \subseteq RibSessions \X Muis \X Families
  <2>1. Compacted(job) \in [RibRoutes -> {"none", "Active", "Withdrawn"}]
    BY <1>9 DEF Compacted, EmptyRules, Tombstone
  <2>2. WithoutRecords(job) \in [RibRoutes -> {"none", "Active", "Withdrawn"}]
    BY <1>9 DEF WithoutRecords
  <2>. QED
    BY <1>6, <1>8, <1>9, <2>1, <2>2
<1>11. ASSUME NEW r \in RibRoutes
       PROVE  r \in Visible' <=> r \in Visible /\ r.session # job.session
  <2>1. CASE job.op = "withdraw"
    <3>1. rec' = Compacted(job) /\ hidden' = hidden \cup places /\ job.muis = Muis
      BY <1>4, <1>6, <2>1
    <3>2. Place(r) \in places <=> r.session = job.session
      BY <1>7, <3>1 DEF Place, places
    <3>3. r.session # job.session => rec'[r] = rec[r]
      BY <3>1 DEF Compacted, Affected
    <3>. QED
      BY <3>1, <3>2, <3>3 DEF Visible
  <2>2. CASE job.op = "remove"
    <3>1. rec' = WithoutRecords(job) /\ hidden' = hidden \ places /\ Silent(job.session)
      BY <1>4, <1>6, <2>2
    <3>2. Place(r) \in places <=> Affected(r, job)
      BY <1>7 DEF Place, places, Affected
    <3>3. Affected(r, job) => rec'[r] = "none"
      BY <3>1 DEF WithoutRecords
    <3>4. ~Affected(r, job) => rec'[r] = rec[r]
      BY <3>1 DEF WithoutRecords
    <3>5. r \in Visible => r.session # job.session
      BY <3>1 DEF Silent
    <3>6. Affected(r, job) => r.session = job.session
      BY DEF Affected
    <3>. QED
      BY <3>1, <3>2, <3>3, <3>4, <3>5, <3>6 DEF Visible
  <2>. QED
    BY <1>6, <2>1, <2>2
<1>12. Visible' = {r \in Visible : r.session # job.session}
  <2>1. Visible \subseteq RibRoutes /\ Visible' \subseteq RibRoutes
    BY DEF Visible
  <2>. QED
    BY <1>11, <2>1
<1>13. job.session \in up => Visible' = Visible
  BY <1>5, <1>12 DEF Silent
<1>14. "session" \in job.muis
  BY <1>4 DEF Muis
<1>. QED
  BY <1>2, <1>10, <1>12, <1>13, <1>14 DEF job

-----------------------------------------------------------------------------
(* Sessions, their tasks and what they show *)

(* A task that is counting stays one when it learns of a mutation.         *)
LEMMA StaleRecount ==
    ASSUME NEW y \in Recounts
    PROVE  /\ [y EXCEPT !.stale = TRUE] \in Recounts
           /\ [y EXCEPT !.stale = TRUE].at = y.at
           /\ [y EXCEPT !.stale = TRUE].stale = TRUE
  BY DEF Recounts

\* The task has finished its mutation and goes on with x.
Ends(t, x) == task' = EndMutation([task EXCEPT ![t] = x])

(* What finishing a mutation does to the other tasks: those that are       *)
(* counting learn of it.                                                   *)
LEMMA MutationEnds ==
    ASSUME RibTypeOK, NEW t \in Tasks, NEW x \in Bare,
           Ends(t, x)
    PROVE  /\ task' \in [Tasks -> TaskStates] /\ task'[t] = x
           /\ \A u \in Tasks \ {t} :
                 /\ task'[u].at = task[u].at
                 /\ task[u].at \notin {"walk", "check", "set", "recheck"} => task'[u] = task[u]
                 /\ task[u].at \in {"walk", "check", "set", "recheck"} => task'[u].stale = TRUE
<1>1. task \in [Tasks -> TaskStates]
  BY DEF RibTypeOK
<1> DEFINE w == [task EXCEPT ![t] = x]
<1>2. /\ w \in [Tasks -> TaskStates] /\ w[t] = x /\ \A u \in Tasks \ {t} : w[u] = task[u]
  BY <1>1 DEF TaskStates
<1>3. task' = [u \in Tasks |-> IF w[u].at \in {"walk", "check", "set", "recheck"}
                               THEN [w[u] EXCEPT !.stale = TRUE] ELSE w[u]]
  BY DEF EndMutation, Ends
<1> HIDE DEF w
<1>4. ASSUME NEW u \in Tasks, w[u].at \in {"walk", "check", "set", "recheck"}
      PROVE  /\ [w[u] EXCEPT !.stale = TRUE] \in Recounts
             /\ [w[u] EXCEPT !.stale = TRUE].at = w[u].at
             /\ [w[u] EXCEPT !.stale = TRUE].stale = TRUE
  <2>1. w[u] \in Recounts
    BY <1>2, <1>4, TaskShapes
  <2>. QED
    BY <2>1, StaleRecount
<1>5. x.at \notin {"walk", "check", "set", "recheck"}
  BY DEF Bare
<1>6. \A u \in Tasks : task'[u] \in TaskStates
  BY <1>2, <1>3, <1>4 DEF TaskStates
<1>7. task' \in [Tasks -> TaskStates]
  BY <1>3, <1>6
<1>8. task'[t] = x
  BY <1>2, <1>3, <1>5
<1>9. ASSUME NEW u \in Tasks \ {t}
      PROVE  /\ task'[u].at = task[u].at
             /\ task[u].at \notin {"walk", "check", "set", "recheck"} => task'[u] = task[u]
             /\ task[u].at \in {"walk", "check", "set", "recheck"} => task'[u].stale = TRUE
  <2>1. w[u] = task[u]
    BY <1>2
  <2>2. CASE task[u].at \notin {"walk", "check", "set", "recheck"}
    BY <1>3, <2>1, <2>2
  <2>3. CASE task[u].at \in {"walk", "check", "set", "recheck"}
    <3>1. task'[u] = [w[u] EXCEPT !.stale = TRUE]
      BY <1>3, <2>1, <2>3
    <3>. QED
      BY <1>4, <2>1, <2>3, <3>1
  <2>. QED
    BY <2>2, <2>3
<1>. QED
  BY <1>7, <1>8, <1>9

(* What a live session inserts keeps every other session as silent as it   *)
(* was and stays within what its messages can carry.                       *)
LEMMA RouteMoves ==
    ASSUME TableInv, NEW s \in up, NEW r \in Carried(s), ~AtWork(s),
           Visible' = Visible \cup {r} \/ Visible' = Visible \ {r},
           UNCHANGED <<families, up, paths>>,
           \A u \in Tasks \ {s} : task'[u] = task[u],
           task'[s].at \notin {"bulk", "apply"}
    PROVE  /\ ShowsCarried' /\ JobsFit'
           /\ \A q \in RibSessions \ {s} : Silent(q) => Silent(q)'
<1>1. r.session = s /\ s \in RibSessions /\ s # Collector
  BY RibAssumption DEF Carried, TableInv, RibTypeOK
<1>2. \A q \in RibSessions \ {s} : Silent(q) => Silent(q)'
  BY <1>1 DEF Silent
<1>3. \A q \in RibSessions : Carried(q)' = Carried(q)
  BY DEF Carried
<1>4. \A u \in Tasks \ {s} : (AtWork(u)' <=> AtWork(u))
  BY DEF AtWork
<1>5. ShowsCarried'
  <2>1. \A q \in RibSessions \ up : Silent(q)' \/ AtWork(q)'
    BY <1>2, <1>4 DEF TableInv, ShowsCarried, Tasks
  <2>2. ASSUME NEW q \in Visible', q.session \in up PROVE q \in Carried(q.session)'
    <3>1. q \in Visible \/ q = r
      OBVIOUS
    <3>. QED
      BY <1>1, <1>3, <2>2, <3>1 DEF TableInv, ShowsCarried, RibTypeOK
  <2>. QED
    BY <2>1, <2>2 DEF ShowsCarried
<1>6. JobsFit'
  <2>1. ASSUME NEW q \in RibSessions, AtWork(q)'
        PROVE  /\ task'[q].session = q
               /\ q \in up => /\ task'[q].op = "remove" /\ task'[q].muis = {"session"}
                              /\ Silent(q)'
               /\ q \notin up => task'[q].op = "withdraw" /\ task'[q].muis = Muis
    <3>1. q # s
      BY <2>1 DEF AtWork
    <3>2. AtWork(q) /\ task'[q] = task[q]
      BY <1>4, <2>1, <3>1 DEF Tasks
    <3>. QED
      BY SMTT(30), <1>2, <3>1, <3>2 DEF TableInv, JobsFit
  <2>2. task'[Collector] = task[Collector] /\ (AtWork(Collector)' <=> AtWork(Collector))
    BY <1>1, <1>4 DEF Tasks
  <2>3. AtWork(Collector) => Silent(task[Collector].session)'
    BY <1>2, <2>2 DEF TableInv, JobsFit
  <2>. QED
    BY <2>1, <2>2, <2>3 DEF TableInv, JobsFit
<1>. QED
  BY <1>2, <1>5, <1>6

(* Steps that change neither the routes nor which sessions are up, and in  *)
(* which one task moves on.                                                *)
LEMMA TasksMove ==
    ASSUME TableInv, NEW t \in Tasks, UNCHANGED <<families, rec, hidden, up, paths>>,
           \A u \in Tasks \ {t} :
               /\ task'[u].at = task[u].at
               /\ task[u].at \notin {"walk", "check", "set", "recheck"} => task'[u] = task[u],
           ~AtWork(t), task'[t].at \notin {"store", "count", "bulk", "apply"}
    PROVE  StoresFit' /\ JobsFit' /\ ShowsCarried'
<1>1. Visible' = Visible
  BY VisibleSame
<1>2. \A s : Silent(s)' = Silent(s) /\ Carried(s)' = Carried(s)
  BY <1>1 DEF Silent, Carried
<1>3. \A u \in Tasks \ {t} : (AtWork(u)' <=> AtWork(u)) /\ (AtWork(u) => task'[u] = task[u])
  BY DEF AtWork
<1>4. ~AtWork(t)'
  BY DEF AtWork
<1>5. StoresFit'
  <2>1. ASSUME NEW s \in RibSessions, task'[s].at \in {"store", "count"}
        PROVE  s # t /\ s \in Tasks /\ task'[s] = task[s]
    BY <2>1 DEF Tasks
  <2>. QED
    BY <1>1, <1>2, <2>1 DEF TableInv, StoresFit
<1>6. JobsFit'
  <2>1. RibSessions \subseteq Tasks /\ Collector \in Tasks
    BY DEF Tasks
  <2>2. \A u \in Tasks : AtWork(u)' => AtWork(u) /\ task'[u] = task[u]
    BY <1>3, <1>4
  <2>3. task'[Collector].at \notin {"store", "count"}
    BY <2>1 DEF TableInv, JobsFit
  <2>. QED
    BY SMTT(30), <1>2, <2>1, <2>2, <2>3 DEF TableInv, JobsFit
<1>7. ShowsCarried'
  <2>1. \A u \in Tasks : (AtWork(u)' <=> AtWork(u))
    BY <1>3, <1>4
  <2>. QED
    BY <1>1, <1>2, <2>1 DEF TableInv, ShowsCarried, Tasks
<1>. QED
  BY <1>5, <1>6, <1>7

(* insert_prefix.                                                          *)
LEMMA TableInsert ==
    ASSUME TableInv, NEW s \in RibSessions, NEW r \in RibRoutes, InsertPrefix(s, r),
           gauge' \in [RibSessions -> [Families -> Nat]]
    PROVE  TableInv'
<1>1. /\ s \in up /\ task[s] = Idle /\ r \in Carried(s) /\ r.family # Flow
      /\ InsertActive(r) \/ InsertWithdrawn(r)
      /\ UNCHANGED <<retain, families, rules, writers, flowLock, bulkLock, up, paths, task>>
  BY DEF InsertPrefix, ribConf
<1>2. RibTypeOK
  BY DEF TableInv
<1>3. /\ Visible' = Visible \cup {r} \/ Visible' = Visible \ {r}
      /\ rec' \in [RibRoutes -> {"none", "Active", "Withdrawn"}]
      /\ hidden' \subseteq RibSessions \X Muis \X Families
  BY <1>1, <1>2, InsertShows, WithdrawHides
<1>4. RibTypeOK'
  BY <1>1, <1>2, <1>3 DEF RibTypeOK
<1>5. task[s].at = "idle" /\ ~AtWork(s) /\ task'[s].at \notin {"bulk", "apply"}
  BY SMTT(30), <1>1 DEF Idle, AtWork
<1>6. ShowsCarried' /\ JobsFit'
  BY <1>1, <1>3, <1>5, RouteMoves
<1>7. StoresFit'
  <2>1. \A q \in RibSessions : Carried(q)' = Carried(q)
    BY <1>1 DEF Carried
  <2>2. \A q \in Visible : q.family = Flow => q \in Visible'
    BY <1>1, <1>3
  <2>. QED
    BY <1>1, <2>1, <2>2 DEF TableInv, StoresFit
<1>. QED
  BY <1>4, <1>6, <1>7 DEF TableInv

(* insert_flowspec: taking the lock.                                       *)
LEMMA TableFlowBegin ==
    ASSUME TableInv, NEW s \in RibSessions, NEW r \in RibRoutes,
           NEW st \in {"Active", "Withdrawn"}, FlowBegin(s, r, st)
    PROVE  TableInv'
<1> DEFINE x == [at |-> "store", route |-> r, status |-> st]
<1>1. /\ s \in up /\ task[s] = Idle /\ r \in Carried(s) /\ r.family = Flow
      /\ st = "Withdrawn" /\ ~Stray => r \in Visible
      /\ task' = [task EXCEPT ![s] = x]
      /\ UNCHANGED <<families, rec, hidden, gauge, rules, up, paths>>
  BY DEF FlowBegin, ribConf
<1>2. task \in [Tasks -> TaskStates] /\ s \in Tasks /\ x \in TaskStates
  BY DEF TableInv, RibTypeOK, Tasks, TaskStates, Storing
<1>3. x.at = "store" /\ x.route = r /\ x.status = st
  OBVIOUS
<1> HIDE DEF x
<1>4. /\ task' \in [Tasks -> TaskStates] /\ task'[s] = x
      /\ \A u \in Tasks \ {s} : task'[u] = task[u]
  BY <1>1, <1>2
<1>5. RibTypeOK'
  BY <1>1, <1>4 DEF TableInv, RibTypeOK
<1>6. Visible' = Visible /\ \A q : (Silent(q)' <=> Silent(q)) /\ Carried(q)' = Carried(q)
  BY <1>1, VisibleSame DEF Silent, Carried
<1>7. /\ ~AtWork(s) /\ ~AtWork(s)'
      /\ \A u \in Tasks \ {s} : AtWork(u)' <=> AtWork(u)
  BY SMTT(30), <1>1, <1>3, <1>4 DEF AtWork, Idle
<1>8. s # Collector /\ task'[Collector] = task[Collector] /\ (AtWork(Collector)' <=> AtWork(Collector))
  BY <1>4, <1>7, RibAssumption DEF Tasks
<1>9. JobsFit'
  <2>1. \A q \in RibSessions : AtWork(q)' => AtWork(q) /\ task'[q] = task[q]
    BY <1>4, <1>7 DEF Tasks
  <2>. QED
    BY SMTT(30), <1>1, <1>6, <1>8, <2>1 DEF TableInv, JobsFit
<1>10. ShowsCarried'
  BY <1>1, <1>6, <1>7 DEF TableInv, ShowsCarried, Tasks
<1>11. StoresFit'
  <2> SUFFICES ASSUME NEW q \in RibSessions
               PROVE  /\ task'[q].at \in {"store", "count"} => q \in up'
                      /\ task'[q].at = "store" =>
                           /\ task'[q].route \in Carried(q)' /\ task'[q].route.family = Flow
                           /\ task'[q].status = "Withdrawn" /\ ~Stray => task'[q].route \in Visible'
    BY DEF StoresFit
  <2>1. CASE q = s
    BY SMTT(30), <1>1, <1>3, <1>4, <1>6, <2>1
  <2>2. CASE q # s
    BY <1>1, <1>4, <1>6, <2>2 DEF TableInv, StoresFit, Tasks
  <2>. QED
    BY <2>1, <2>2
<1>. QED
  BY <1>5, <1>9, <1>10, <1>11 DEF TableInv

(* insert_flowspec: the rule set is stored.                                *)
LEMMA TableFlowStore ==
    ASSUME TableInv, NEW s \in RibSessions, FlowStore(s),
           gauge' \in [RibSessions -> [Families -> Nat]]
    PROVE  TableInv'
<1>1. PICK d \in {"add", "sub", "none"} : task' = [task EXCEPT ![s] = [at |-> "count", delta |-> d]]
  BY DEF FlowStore, Upserted, Removed
<1>2. task[s].at = "store" /\ UNCHANGED <<families, rules, up, paths>>
  BY DEF FlowStore, ribConf
<1>3. RibTypeOK /\ task \in [Tasks -> TaskStates] /\ s \in Tasks
      /\ [at |-> "count", delta |-> d] \in TaskStates
  BY DEF TableInv, RibTypeOK, Tasks, TaskStates, Counted
<1>4. /\ task' \in [Tasks -> TaskStates] /\ task'[s].at = "count"
      /\ \A u \in Tasks \ {s} : task'[u] = task[u]
  BY <1>1, <1>3
<1>5. s \in up /\ task[s].route \in Carried(s) /\ task[s].route.session = s
  BY <1>2 DEF TableInv, StoresFit, Carried
<1>6. /\ Visible' = Visible \cup {task[s].route} \/ Visible' = Visible \ {task[s].route}
      /\ rec' \in [RibRoutes -> {"none", "Active", "Withdrawn"}]
      /\ hidden' \subseteq RibSessions \X Muis \X Families
  BY <1>3, StoreShows
<1>7. RibTypeOK'
  BY <1>2, <1>3, <1>4, <1>6 DEF RibTypeOK
<1>8. ~AtWork(s) /\ task'[s].at \notin {"bulk", "apply"}
  BY <1>2, <1>4 DEF AtWork
<1>9. ShowsCarried' /\ JobsFit'
  BY <1>2, <1>4, <1>5, <1>6, <1>8, RouteMoves
<1>10. StoresFit'
  <2> SUFFICES ASSUME NEW q \in RibSessions
               PROVE  /\ task'[q].at \in {"store", "count"} => q \in up'
                      /\ task'[q].at = "store" =>
                           /\ task'[q].route \in Carried(q)' /\ task'[q].route.family = Flow
                           /\ task'[q].status = "Withdrawn" /\ ~Stray => task'[q].route \in Visible'
    BY DEF StoresFit
  <2>1. CASE q = s
    BY <1>2, <1>4, <1>5, <2>1
  <2>2. CASE q # s
    <3>1. task'[q] = task[q] /\ Carried(q)' = Carried(q)
      BY <1>2, <1>4, <2>2 DEF Tasks, Carried
    <3>2. task[q].at = "store" => task[q].route \in Carried(q) /\ task[q].route.session = q
      BY DEF TableInv, StoresFit, Carried
    <3>3. task[q].at = "store" /\ task[q].route \in Visible => task[q].route \in Visible'
      BY <1>5, <1>6, <2>2, <3>2
    <3>. QED
      BY <1>2, <3>1, <3>3 DEF TableInv, StoresFit
  <2>. QED
    BY <2>1, <2>2
<1>. QED
  BY <1>7, <1>9, <1>10 DEF TableInv

(* The task moves on to a point where it is about to change no record.     *)
MovesOn(t) ==
    /\ task' \in [Tasks -> TaskStates] /\ rules' \in Nat
    /\ ~AtWork(t) /\ task'[t].at \notin {"store", "count", "bulk", "apply"}
    /\ \A u \in Tasks \ {t} :
          /\ task'[u].at = task[u].at
          /\ task[u].at \notin {"walk", "check", "set", "recheck"} => task'[u] = task[u]

(* Steps that change neither the routes nor the sessions.                  *)
LEMMA TableRest ==
    ASSUME TableInv,
           \/ \E s \in RibSessions : FlowCount(s)
           \/ \E t \in Tasks : \/ BulkEnd(t) \/ RecountGeneration(t) \/ RecountWalk(t)
                               \/ RecountCheck(t) \/ RecountSet(t) \/ RecountRecheck(t)
    PROVE  TableInv'
<1>0. RibTypeOK /\ task \in [Tasks -> TaskStates] /\ RibSessions \subseteq Tasks
  BY DEF TableInv, RibTypeOK, Tasks
<1>1. Cardinality(VisibleRules) \in Nat
  BY RibAssumption, FS_Subset, FS_CardinalityType DEF VisibleRules, Visible
<1>2. UNCHANGED <<families, rec, hidden, gauge, up, paths>>
  BY DEF FlowCount, BulkEnd, RecountGeneration, RecountWalk, RecountCheck, RecountSet,
         RecountRecheck, ribConf
<1>3. \E t \in Tasks : MovesOn(t)
  <2>1. ASSUME NEW s \in RibSessions, FlowCount(s)
        PROVE  MovesOn(s)
    <3>1. task[s].at = "count" /\ Ends(s, Idle)
          /\ rules' = Moved(rules, task[s].delta)
      BY <2>1 DEF FlowCount, Ends
    <3>2. Idle \in Bare /\ Idle.at = "idle"
      BY DEF Idle, Bare
    <3>3. task[s].delta \in {"add", "sub", "none"}
      BY <1>0, <3>1, TaskShapes DEF Counted
    <3>4. rules' \in Nat
      BY SMTT(30), <3>1, <3>3 DEF TableInv, RibTypeOK, Moved, Minus
    <3>. QED
      BY <1>0, <3>1, <3>2, <3>4, MutationEnds DEF AtWork, MovesOn
  <2>2. ASSUME NEW t \in Tasks, BulkEnd(t)
        PROVE  MovesOn(t)
    <3> DEFINE x == [at |-> "generation"]
    <3>1. task[t].at = "release" /\ rules' = rules
          /\ Ends(t, x)
      BY <2>2 DEF BulkEnd, Ends
    <3>2. x \in Bare /\ x.at = "generation"
      BY DEF Bare
    <3> HIDE DEF x
    <3>3. /\ task' \in [Tasks -> TaskStates] /\ task'[t] = x
          /\ \A u \in Tasks \ {t} :
                /\ task'[u].at = task[u].at
                /\ task[u].at \notin {"walk", "check", "set", "recheck"} => task'[u] = task[u]
      BY <1>0, <3>1, <3>2, MutationEnds
    <3>. QED
      BY <1>0, <3>1, <3>2, <3>3 DEF AtWork, MovesOn, RibTypeOK
  <2>3. ASSUME NEW t \in Tasks,
               \/ RecountGeneration(t) \/ RecountWalk(t)
               \/ RecountCheck(t) \/ RecountSet(t) \/ RecountRecheck(t)
        PROVE  MovesOn(t)
    <3>1. /\ task[t].at \in {"generation", "walk", "check", "set", "recheck"}
          /\ task[t].at # "generation" => task[t] \in Recounts
      <4>1. task[t].at \in {"generation", "walk", "check", "set", "recheck"}
        BY <2>3 DEF RecountGeneration, RecountWalk, RecountCheck, RecountSet, RecountRecheck
      <4>2. task[t] \in TaskStates
        BY <1>0
      <4>. QED
        BY <4>1, <4>2, TaskShapes
    <3>2. PICK x \in Bare \cup Recounts : task' = [task EXCEPT ![t] = x]
      <4>1. CASE RecountGeneration(t)
        BY <4>1 DEF RecountGeneration, Recounts
      <4>2. CASE RecountWalk(t)
        <5> DEFINE x == [task[t] EXCEPT !.at = "check", !.found = Cardinality(VisibleRules)]
        <5>1. task' = [task EXCEPT ![t] = x] /\ task[t] \in Recounts
          BY <3>1, <4>2 DEF RecountWalk
        <5>2. x \in Recounts
          BY <1>1, <5>1 DEF Recounts
        <5>. QED
          BY <5>1, <5>2
      <4>3. CASE RecountCheck(t)
        <5>1. task[t] \in Recounts
          BY <3>1, <4>3 DEF RecountCheck
        <5>2. [task[t] EXCEPT !.at = "set"] \in Recounts /\ [at |-> "generation"] \in Bare
          BY <5>1 DEF Recounts, Bare
        <5>. QED
          BY <4>3, <5>2 DEF RecountCheck
      <4>4. CASE RecountSet(t)
        <5> DEFINE x == [task[t] EXCEPT !.at = "recheck"]
        <5>1. task' = [task EXCEPT ![t] = x] /\ task[t] \in Recounts
          BY <3>1, <4>4 DEF RecountSet
        <5>2. x \in Recounts
          BY <5>1 DEF Recounts
        <5>. QED
          BY <5>1, <5>2
      <4>5. CASE RecountRecheck(t)
        <5>1. Idle \in Bare /\ [at |-> "generation"] \in Bare
          BY DEF Bare, Idle
        <5>. QED
          BY <4>5, <5>1 DEF RecountRecheck
      <4>. QED
        BY <2>3, <4>1, <4>2, <4>3, <4>4, <4>5
    <3>3. x \in TaskStates /\ x.at \notin {"store", "count", "bulk", "apply"}
      BY DEF TaskStates, Bare, Recounts
    <3>4. /\ task' \in [Tasks -> TaskStates] /\ task'[t] = x
          /\ \A u \in Tasks \ {t} : task'[u] = task[u]
      BY <1>0, <3>2, <3>3
    <3>5. rules' \in Nat
      <4>1. CASE RecountSet(t)
        BY <3>1, <4>1 DEF RecountSet, Recounts
      <4>2. CASE rules' = rules
        BY <1>0, <4>2 DEF RibTypeOK
      <4>. QED
        BY <2>3, <4>1, <4>2 DEF RecountGeneration, RecountWalk, RecountCheck, RecountRecheck
    <3>. QED
      BY <3>1, <3>3, <3>4, <3>5 DEF AtWork, MovesOn
  <2>. QED
    BY <1>0, <2>1, <2>2, <2>3
<1>4. RibTypeOK'
  BY <1>0, <1>2, <1>3 DEF RibTypeOK, MovesOn
<1>5. StoresFit' /\ JobsFit' /\ ShowsCarried'
  BY <1>2, <1>3, TasksMove DEF MovesOn
<1>. QED
  BY <1>4, <1>5 DEF TableInv

(* A task takes up a bulk operation: what is queued fits the session.      *)
LEMMA TakesUp ==
    ASSUME TableInv, NEW t \in Tasks, NEW x \in TaskStates, ~AtWork(t),
           task[t].at \notin {"store", "count"},
           task' = [task EXCEPT ![t] = x],
           x.at \notin {"store", "count"},
           UNCHANGED <<families, rec, hidden, gauge, rules>>
    PROVE  /\ (up' \subseteq RibSessions => RibTypeOK')
           /\ Visible' = Visible
           /\ \A q : Silent(q)' <=> Silent(q)
           /\ task'[t] = x /\ \A u \in Tasks \ {t} : task'[u] = task[u]
           /\ \A u \in Tasks \ {t} : AtWork(u)' <=> AtWork(u)
           /\ AtWork(t)' <=> x.at \in {"bulk", "apply"}
<1>1. task \in [Tasks -> TaskStates]
  BY DEF TableInv, RibTypeOK
<1>2. /\ task' \in [Tasks -> TaskStates] /\ task'[t] = x
      /\ \A u \in Tasks \ {t} : task'[u] = task[u]
  BY <1>1
<1>3. Visible' = Visible
  BY VisibleSame
<1>. QED
  BY <1>2, <1>3 DEF TableInv, RibTypeOK, Silent, AtWork

(* A session comes up: it shows nothing, whether or not its old records    *)
(* are still to be removed.                                                *)
LEMMA TableConnect ==
    ASSUME TableInv, NEW s \in RibSessions, NEW ps \in SUBSET WithPaths(s), NEW b \in BOOLEAN,
           Connect(s, ps, b)
    PROVE  TableInv' /\ Silent(s) /\ s \notin up /\ up' = up \cup {s} /\ Visible' = Visible
<1> DEFINE x == IF b THEN Bulk("remove", s, {"session"}) ELSE Idle
<1>1. /\ s \notin up /\ task[s] = Idle /\ task[Collector] = Idle /\ up' = up \cup {s}
      /\ paths' = {p \in paths : p[1] # s} \cup ps
      /\ task' = [task EXCEPT ![s] = x]
      /\ UNCHANGED <<retain, families, rec, hidden, gauge, rules>>
  BY DEF Connect, ribConf
<1>2. x \in TaskStates /\ x.at \notin {"store", "count"}
      /\ (x.at \in {"bulk", "apply"} => /\ x.session = s /\ x.op = "remove"
                                        /\ x.muis = {"session"})
  BY DEF TaskStates, Jobs, Bare, Idle, Bulk, Muis
<1> HIDE DEF x
<1>3. s \in Tasks /\ Collector \in Tasks /\ s # Collector /\ Idle.at = "idle"
  BY RibAssumption DEF Tasks, Idle
<1>4. ~AtWork(s) /\ ~AtWork(Collector) /\ task[s].at = "idle"
  BY <1>1, <1>3 DEF AtWork
<1>5. /\ RibTypeOK' /\ Visible' = Visible
      /\ \A q : Silent(q)' <=> Silent(q)
      /\ task'[s] = x /\ \A u \in Tasks \ {s} : task'[u] = task[u]
      /\ \A u \in Tasks \ {s} : AtWork(u)' <=> AtWork(u)
      /\ AtWork(s)' <=> x.at \in {"bulk", "apply"}
  <2>1. up' \subseteq RibSessions
    BY <1>1 DEF TableInv, RibTypeOK
  <2>. QED
    BY <1>1, <1>2, <1>3, <1>4, <2>1, TakesUp
<1>6. Silent(s)
  BY <1>1, <1>4 DEF TableInv, ShowsCarried
<1>7. \A q \in RibSessions \ {s} : Carried(q)' = Carried(q)
  <2> SUFFICES ASSUME NEW q \in RibSessions \ {s}, NEW r \in RibRoutes
               PROVE  r \in Carried(q)' <=> r \in Carried(q)
    BY DEF Carried
  <2>1. \A p \in ps : p[1] = s
    BY SMTT(30) DEF WithPaths
  <2>2. <<q, r.family>> \in paths' <=> <<q, r.family>> \in paths
    BY <1>1, <2>1
  <2>. QED
    BY <1>1, <2>2 DEF Carried
<1>8. JobsFit'
  <2>1. ASSUME NEW q \in RibSessions \ {s}, AtWork(q)'
        PROVE  /\ task'[q].session = q
               /\ q \in up' => /\ task'[q].op = "remove" /\ task'[q].muis = {"session"}
                               /\ Silent(q)'
               /\ q \notin up' => task'[q].op = "withdraw" /\ task'[q].muis = Muis
    BY SMTT(30), <1>1, <1>5, <2>1 DEF TableInv, JobsFit, Tasks
  <2>2. AtWork(s)' => /\ task'[s].session = s /\ s \in up' /\ task'[s].op = "remove"
                      /\ task'[s].muis = {"session"} /\ Silent(s)'
    BY <1>1, <1>2, <1>5, <1>6
  <2>3. task'[Collector] = task[Collector] /\ ~AtWork(Collector)'
    BY <1>3, <1>4, <1>5
  <2>. QED
    BY SMTT(30), <2>1, <2>2, <2>3 DEF TableInv, JobsFit
<1>9. ShowsCarried'
  <2>1. \A q \in RibSessions \ up' : Silent(q)' \/ AtWork(q)'
    BY <1>1, <1>5 DEF TableInv, ShowsCarried, Tasks
  <2>2. ASSUME NEW r \in Visible', r.session \in up' PROVE r \in Carried(r.session)'
    <3>1. r \in Visible /\ r.session # s
      BY <1>5, <1>6 DEF Silent
    <3>2. r.session \in up /\ r.session \in RibSessions
      BY <1>1, <2>2, <3>1 DEF TableInv, RibTypeOK
    <3>. QED
      BY <1>7, <3>1, <3>2 DEF TableInv, ShowsCarried
  <2>. QED
    BY <2>1, <2>2 DEF ShowsCarried
<1>10. StoresFit'
  <2> SUFFICES ASSUME NEW q \in RibSessions, task'[q].at \in {"store", "count"}
               PROVE  /\ q \in up'
                      /\ task'[q].at = "store" =>
                           /\ task'[q].route \in Carried(q)' /\ task'[q].route.family = Flow
                           /\ task'[q].status = "Withdrawn" /\ ~Stray => task'[q].route \in Visible'
    BY DEF StoresFit
  <2>1. q # s /\ task'[q] = task[q]
    BY <1>2, <1>5 DEF Tasks
  <2>. QED
    BY SMTT(30), <1>1, <1>5, <1>7, <2>1 DEF TableInv, StoresFit
<1>. QED
  BY <1>1, <1>5, <1>6, <1>8, <1>9, <1>10 DEF TableInv

(* A session ends: its bulk withdrawal is to come, on all of its muis.     *)
LEMMA TableEnd ==
    ASSUME TableInv, NEW s \in RibSessions, End(s)
    PROVE  TableInv' /\ Visible' = Visible /\ s \in up /\ up' = up \ {s}
<1> DEFINE x == Bulk("withdraw", s, Muis)
<1>1. /\ s \in up /\ task[s] = Idle /\ up' = up \ {s}
      /\ task' = [task EXCEPT ![s] = x]
      /\ UNCHANGED <<retain, families, paths, rec, hidden, gauge, rules>>
  BY DEF End, ribConf
<1>2. x \in TaskStates /\ x.at = "bulk" /\ x.session = s /\ x.op = "withdraw" /\ x.muis = Muis
  BY DEF TaskStates, Jobs, Bulk
<1> HIDE DEF x
<1>3. s \in Tasks /\ Collector \in Tasks /\ s # Collector /\ Idle.at = "idle"
  BY RibAssumption DEF Tasks, Idle
<1>4. ~AtWork(s) /\ task[s].at = "idle"
  BY <1>1, <1>3 DEF AtWork
<1>5. /\ RibTypeOK' /\ Visible' = Visible
      /\ \A q : Silent(q)' <=> Silent(q)
      /\ task'[s] = x /\ \A u \in Tasks \ {s} : task'[u] = task[u]
      /\ \A u \in Tasks \ {s} : AtWork(u)' <=> AtWork(u)
      /\ AtWork(s)'
  <2>1. up' \subseteq RibSessions
    BY <1>1 DEF TableInv, RibTypeOK
  <2>. QED
    BY <1>1, <1>2, <1>3, <1>4, <2>1, TakesUp
<1>6. \A q : Carried(q)' = Carried(q)
  BY <1>1 DEF Carried
<1>7. JobsFit'
  <2>1. ASSUME NEW q \in RibSessions \ {s}, AtWork(q)'
        PROVE  /\ task'[q].session = q
               /\ q \in up' => /\ task'[q].op = "remove" /\ task'[q].muis = {"session"}
                               /\ Silent(q)'
               /\ q \notin up' => task'[q].op = "withdraw" /\ task'[q].muis = Muis
    BY SMTT(30), <1>1, <1>5, <2>1 DEF TableInv, JobsFit, Tasks
  <2>2. task'[s].session = s /\ s \notin up' /\ task'[s].op = "withdraw" /\ task'[s].muis = Muis
    BY <1>1, <1>2, <1>5
  <2>3. task'[Collector] = task[Collector] /\ (AtWork(Collector)' <=> AtWork(Collector))
    BY <1>3, <1>5
  <2>4. AtWork(Collector) =>
           /\ task'[Collector].session \in RibSessions \ up'
           /\ task'[Collector].op = "remove" /\ task'[Collector].muis = Muis
           /\ Silent(task[Collector].session)'
    BY SMTT(30), <1>1, <1>5, <2>3 DEF TableInv, JobsFit
  <2>. QED
    BY SMTT(30), <2>1, <2>2, <2>3, <2>4 DEF TableInv, JobsFit
<1>8. ShowsCarried'
  <2>1. \A q \in RibSessions \ up' : Silent(q)' \/ AtWork(q)'
    BY <1>1, <1>5 DEF TableInv, ShowsCarried, Tasks
  <2>. QED
    BY <1>1, <1>5, <1>6, <2>1 DEF TableInv, ShowsCarried
<1>9. StoresFit'
  <2> SUFFICES ASSUME NEW q \in RibSessions, task'[q].at \in {"store", "count"}
               PROVE  /\ q \in up'
                      /\ task'[q].at = "store" =>
                           /\ task'[q].route \in Carried(q)' /\ task'[q].route.family = Flow
                           /\ task'[q].status = "Withdrawn" /\ ~Stray => task'[q].route \in Visible'
    BY DEF StoresFit
  <2>1. q # s /\ task'[q] = task[q]
    BY <1>2, <1>5 DEF Tasks
  <2>. QED
    BY SMTT(30), <1>1, <1>5, <1>6, <2>1 DEF TableInv, StoresFit
<1>. QED
  BY <1>1, <1>5, <1>7, <1>8, <1>9 DEF TableInv

(* Garbage collection takes up a session that is down and shows nothing.   *)
LEMMA TableCollect ==
    ASSUME TableInv, NEW s \in RibSessions, Collect(s)
    PROVE  TableInv' /\ Visible' = Visible /\ up' = up
<1> DEFINE x == Bulk("remove", s, Muis)
<1>1. /\ s \notin up /\ task[s] = Idle /\ task[Collector] = Idle
      /\ task' = [task EXCEPT ![Collector] = x]
      /\ UNCHANGED <<retain, families, up, paths, rec, hidden, gauge, rules>>
  BY DEF Collect, ribConf
<1>2. x \in TaskStates /\ x.at = "bulk" /\ x.session = s /\ x.op = "remove" /\ x.muis = Muis
  BY DEF TaskStates, Jobs, Bulk
<1> HIDE DEF x
<1>3. s \in Tasks /\ Collector \in Tasks /\ Collector \notin RibSessions /\ Idle.at = "idle"
  BY RibAssumption DEF Tasks, Idle
<1>4. ~AtWork(s) /\ ~AtWork(Collector) /\ task[Collector].at = "idle"
  BY <1>1, <1>3 DEF AtWork
<1>5. /\ RibTypeOK' /\ Visible' = Visible
      /\ \A q : Silent(q)' <=> Silent(q)
      /\ task'[Collector] = x /\ \A u \in Tasks \ {Collector} : task'[u] = task[u]
      /\ \A u \in Tasks \ {Collector} : AtWork(u)' <=> AtWork(u)
      /\ AtWork(Collector)'
  <2>1. up' \subseteq RibSessions
    BY <1>1 DEF TableInv, RibTypeOK
  <2>. QED
    BY <1>1, <1>2, <1>3, <1>4, <2>1, TakesUp
<1>6. Silent(s)
  BY <1>1, <1>4 DEF TableInv, ShowsCarried
<1>7. \A q \in RibSessions : task'[q] = task[q] /\ (AtWork(q)' <=> AtWork(q))
  BY <1>3, <1>5 DEF Tasks
<1>8. \A q : Carried(q)' = Carried(q)
  BY <1>1 DEF Carried
<1>9. JobsFit'
  <2>1. Silent(task[Collector].session)'
    BY <1>2, <1>5, <1>6
  <2>. QED
    BY SMTT(30), <1>1, <1>2, <1>5, <1>7, <2>1 DEF TableInv, JobsFit
<1>10. ShowsCarried' /\ StoresFit'
  BY SMTT(30), <1>1, <1>5, <1>7, <1>8 DEF TableInv, ShowsCarried, StoresFit
<1>. QED
  BY <1>1, <1>5, <1>9, <1>10 DEF TableInv

(* A bulk operation takes its lock.                                        *)
LEMMA TableBulkBegin ==
    ASSUME TableInv, NEW t \in Tasks, BulkBegin(t)
    PROVE  TableInv' /\ Visible' = Visible /\ up' = up
<1>1. /\ task[t].at = "bulk" /\ task' = [task EXCEPT ![t].at = "apply"]
      /\ UNCHANGED <<retain, families, up, paths, rec, hidden, gauge, rules>>
  BY DEF BulkBegin, ribConf
<1>2. task \in [Tasks -> TaskStates] /\ RibSessions \subseteq Tasks /\ Collector \in Tasks
  BY DEF TableInv, RibTypeOK, Tasks
<1>3. task[t] \in Jobs
  BY <1>1, <1>2, TaskShapes
<1> DEFINE x == [task[t] EXCEPT !.at = "apply"]
<1>4. x \in Jobs /\ x.at = "apply" /\ x.session = task[t].session /\ x.op = task[t].op
      /\ x.muis = task[t].muis
  BY <1>3 DEF Jobs
<1>5. task' = [task EXCEPT ![t] = x]
  BY <1>1, <1>2
<1> HIDE DEF x
<1>6. /\ task' \in [Tasks -> TaskStates] /\ task'[t] = x
      /\ \A u \in Tasks \ {t} : task'[u] = task[u]
  BY <1>2, <1>4, <1>5 DEF TaskStates
<1>7. \A u \in Tasks :
         /\ AtWork(u)' <=> AtWork(u)
         /\ AtWork(u) => /\ task'[u].session = task[u].session /\ task'[u].op = task[u].op
                         /\ task'[u].muis = task[u].muis
         /\ task'[u].at \in {"store", "count"} => task'[u] = task[u]
  BY <1>1, <1>4, <1>6 DEF AtWork
<1>8. Visible' = Visible /\ (\A q : Silent(q)' <=> Silent(q)) /\ (\A q : Carried(q)' = Carried(q))
  BY <1>1, VisibleSame DEF Silent, Carried
<1>9. RibTypeOK'
  BY <1>1, <1>6 DEF TableInv, RibTypeOK
<1>10. JobsFit'
  <2>1. AtWork(Collector) => Silent(task[Collector].session)'
    BY <1>2, <1>7, <1>8 DEF TableInv, JobsFit
  <2>2. task'[Collector].at \notin {"store", "count"}
    BY <1>2, <1>4, <1>6 DEF TableInv, JobsFit
  <2>. QED
    BY SMTT(30), <1>1, <1>2, <1>7, <1>8, <2>1, <2>2 DEF TableInv, JobsFit
<1>11. ShowsCarried'
  BY <1>1, <1>2, <1>7, <1>8 DEF TableInv, ShowsCarried
<1>12. StoresFit'
  BY <1>1, <1>2, <1>7, <1>8 DEF TableInv, StoresFit
<1>. QED
  BY <1>1, <1>8, <1>9, <1>10, <1>11, <1>12 DEF TableInv

(* A bulk operation is applied to every store.                             *)
LEMMA TableBulkApply ==
    ASSUME TableInv, NEW t \in Tasks, BulkApply(t),
           gauge' \in [RibSessions -> [Families -> Nat]]
    PROVE  TableInv'
<1> DEFINE x == [at |-> "release"]
<1>0. PICK gone \in RibSessions : gone = task[t].session
  BY BulkClears
<1>1. /\ task[t].at = "apply" /\ task' = [task EXCEPT ![t] = x]
      /\ UNCHANGED <<families, up, paths, rules>>
  BY DEF BulkApply, ribConf
<1>2. task \in [Tasks -> TaskStates] /\ RibSessions \subseteq Tasks /\ Collector \in Tasks
  BY DEF TableInv, RibTypeOK, Tasks
<1>3. x \in TaskStates /\ x.at = "release"
  BY DEF TaskStates, Bare
<1> HIDE DEF x
<1>4. /\ task' \in [Tasks -> TaskStates] /\ task'[t] = x
      /\ \A u \in Tasks \ {t} : task'[u] = task[u]
  BY <1>1, <1>2, <1>3
<1>5. /\ Visible' = {r \in Visible : r.session # gone}
      /\ gone \in up => Visible' = Visible
      /\ rec' \in [RibRoutes -> {"none", "Active", "Withdrawn"}]
      /\ hidden' \subseteq RibSessions \X Muis \X Families
  BY <1>0, BulkClears
<1>6. t \in RibSessions => gone = t
  BY <1>0, <1>1 DEF TableInv, JobsFit, AtWork
<1>7. Silent(gone)' /\ (\A q : Silent(q) => Silent(q)') /\ \A q : Carried(q)' = Carried(q)
  BY <1>1, <1>5 DEF Silent, Carried
<1>8. /\ ~AtWork(t)'
      /\ \A u \in Tasks \ {t} : AtWork(u)' <=> AtWork(u)
  BY <1>3, <1>4 DEF AtWork
<1>9. RibTypeOK'
  BY <1>1, <1>4, <1>5 DEF TableInv, RibTypeOK
<1>10. JobsFit'
  <2>1. \A u \in Tasks : AtWork(u)' => AtWork(u) /\ task'[u] = task[u]
    BY <1>4, <1>8
  <2>2. AtWork(Collector)' => Silent(task[Collector].session)'
    BY <1>2, <1>7, <2>1 DEF TableInv, JobsFit
  <2>3. task'[Collector].at \notin {"store", "count"}
    BY <1>2, <1>3, <1>4 DEF TableInv, JobsFit
  <2>. QED
    BY SMTT(30), <1>1, <1>2, <1>7, <2>1, <2>2, <2>3 DEF TableInv, JobsFit
<1>11. ShowsCarried'
  <2>1. ASSUME NEW q \in RibSessions \ up PROVE Silent(q)' \/ AtWork(q)'
    <3>1. CASE q = t
      BY <1>6, <1>7, <3>1
    <3>2. CASE q # t
      BY <1>2, <1>7, <1>8, <3>2 DEF TableInv, ShowsCarried
    <3>. QED
      BY <3>1, <3>2
  <2>2. ASSUME NEW r \in Visible', r.session \in up PROVE r \in Carried(r.session)'
    BY <1>5, <1>7, <2>2 DEF TableInv, ShowsCarried
  <2>. QED
    BY <1>1, <2>1, <2>2 DEF ShowsCarried
<1>12. StoresFit'
  <2> SUFFICES ASSUME NEW q \in RibSessions, task'[q].at \in {"store", "count"}
               PROVE  /\ q \in up
                      /\ task'[q].at = "store" =>
                           /\ task'[q].route \in Carried(q)' /\ task'[q].route.family = Flow
                           /\ task'[q].status = "Withdrawn" /\ ~Stray => task'[q].route \in Visible'
    BY <1>1 DEF StoresFit
  <2>1. q # t /\ task'[q] = task[q]
    BY <1>2, <1>3, <1>4
  <2>2. q \in up
    BY <2>1 DEF TableInv, StoresFit
  <2>3. ASSUME NEW r \in Visible, r.session = q PROVE r \in Visible'
    BY <1>5, <2>2, <2>3
  <2>4. task[q].at = "store" => task[q].route.session = q
    BY DEF TableInv, StoresFit, Carried
  <2>. QED
    BY <1>7, <2>1, <2>2, <2>3, <2>4 DEF TableInv, StoresFit
<1>. QED
  BY <1>9, <1>10, <1>11, <1>12 DEF TableInv

-----------------------------------------------------------------------------
(* Gauges *)

(* What readers see is finite.                                             *)
LEMMA FiniteTable ==
    /\ IsFiniteSet(Visible) /\ IsFiniteSet(VisibleRules)
    /\ \A s, f : IsFiniteSet(Shown(s, f))
  BY RibAssumption, FS_Subset DEF Visible, VisibleRules, Shown

(* A live session's routes of one family are all stored under one mui, so  *)
(* that clearing the gauge when the mui is reset finds it at zero.         *)
LEMMA ResetIsIdle ==
    ASSUME TableInv, GaugeInv, NEW s \in up, NEW r \in Carried(s), Place(r) \in hidden
    PROVE  ResetGauge(r) = gauge /\ gauge[s][r.family] = 0
<1>1. s \in RibSessions /\ r \in RibRoutes /\ r.session = s /\ r.family \in Families
  BY DEF Carried, TableInv, RibTypeOK, Families
<1>2. Shown(s, r.family) = {}
  <2> SUFFICES ASSUME NEW q \in Visible, q.session = s, q.family = r.family PROVE FALSE
    BY DEF Shown
  <2>1. q \in Carried(s) /\ q \in RibRoutes
    BY DEF TableInv, ShowsCarried, Visible
  <2>2. q.mui = r.mui
    BY <1>1, <2>1, RibAssumption DEF Carried, Muis
  <2>3. Place(q) = Place(r)
    BY <1>1, <2>2 DEF Place
  <2>. QED
    BY <2>3 DEF Visible
<1>3. gauge[s][r.family] = 0
  BY <1>1, <1>2, FS_EmptySet DEF GaugeInv
<1>4. gauge \in [RibSessions -> [Families -> Nat]]
  BY DEF TableInv, RibTypeOK
<1>5. [gauge EXCEPT ![r.session][r.family] = 0] = gauge
  BY <1>1, <1>3, <1>4
<1>. QED
  BY <1>3, <1>5 DEF ResetGauge

(* Counting one route up or down keeps the gauges in step with the table.  *)
LEMMA GaugeFollows ==
    ASSUME TableInv, GaugeInv, NEW r \in RibRoutes,
           \/ /\ Visible' = Visible \cup {r}
              /\ gauge' = IF r \in Visible THEN gauge
                          ELSE [gauge EXCEPT ![r.session][r.family] = @ + 1]
           \/ /\ Visible' = Visible \ {r}
              /\ gauge' = IF r \in Visible
                          THEN [gauge EXCEPT ![r.session][r.family] = Minus(@, 1)] ELSE gauge
    PROVE  gauge' \in [RibSessions -> [Families -> Nat]] /\ GaugeInv'
<1>1. r.session \in RibSessions /\ r.family \in Families
  BY RibAssumption DEF Families
<1>2. gauge \in [RibSessions -> [Families -> Nat]]
  BY DEF TableInv, RibTypeOK
<1>3. \A s, f : Cardinality(Shown(s, f)) \in Nat
  BY FiniteTable, FS_CardinalityType
<1>4. gauge' \in [RibSessions -> [Families -> Nat]]
  BY SMTT(30), <1>1, <1>2 DEF Minus
<1>5. ASSUME NEW s \in RibSessions, NEW f \in Families
      PROVE  gauge'[s][f] = Cardinality(Shown(s, f)')
  <2>1. gauge[s][f] = Cardinality(Shown(s, f)) /\ Cardinality(Shown(s, f)) \in Nat
    BY <1>3 DEF GaugeInv
  <2>2. CASE s = r.session /\ f = r.family
    <3>1. r \in Visible <=> r \in Shown(s, f)
      BY <2>2 DEF Shown
    <3>2. CASE /\ Visible' = Visible \cup {r}
               /\ gauge' = IF r \in Visible THEN gauge
                           ELSE [gauge EXCEPT ![r.session][r.family] = @ + 1]
      <4>1. Shown(s, f)' = Shown(s, f) \cup {r}
        BY <2>2, <3>2 DEF Shown
      <4>2. Cardinality(Shown(s, f)') = IF r \in Shown(s, f) THEN Cardinality(Shown(s, f))
                                        ELSE Cardinality(Shown(s, f)) + 1
        BY <4>1, FiniteTable, FS_AddElement
      <4>. QED
        BY <1>2, <2>1, <2>2, <3>1, <3>2, <4>2
    <3>3. CASE /\ Visible' = Visible \ {r}
               /\ gauge' = IF r \in Visible
                           THEN [gauge EXCEPT ![r.session][r.family] = Minus(@, 1)] ELSE gauge
      <4>1. Shown(s, f)' = Shown(s, f) \ {r}
        BY <2>2, <3>3 DEF Shown
      <4>2. Cardinality(Shown(s, f)') = IF r \in Shown(s, f) THEN Cardinality(Shown(s, f)) - 1
                                        ELSE Cardinality(Shown(s, f))
        BY <4>1, FiniteTable, FS_RemoveElement
      <4>3. r \in Shown(s, f) => Cardinality(Shown(s, f)) # 0
        BY FiniteTable, FS_EmptySet
      <4>. QED
        <5>1. CASE r \in Visible
          <6>1. gauge'[s][f] = Minus(gauge[s][f], 1)
            BY <1>2, <2>2, <3>3, <5>1
          <6>2. Minus(gauge[s][f], 1) = Cardinality(Shown(s, f)) - 1
            BY SMTT(30), <2>1, <3>1, <4>3, <5>1 DEF Minus
          <6>. QED
            BY <3>1, <4>2, <5>1, <6>1, <6>2
        <5>2. CASE r \notin Visible
          BY <2>1, <3>1, <3>3, <4>2, <5>2
        <5>. QED
          BY <5>1, <5>2
    <3>. QED
      BY <3>2, <3>3
  <2>3. CASE ~(s = r.session /\ f = r.family)
    <3>1. Shown(s, f)' = Shown(s, f)
      BY <2>3 DEF Shown
    <3>2. gauge'[s][f] = gauge[s][f]
      BY SMTT(30), <1>1, <1>2, <2>3
    <3>. QED
      BY <2>1, <3>1, <3>2
  <2>. QED
    BY <2>2, <2>3
<1>. QED
  BY <1>4, <1>5 DEF GaugeInv

(* insert_prefix.                                                          *)
LEMMA GaugeInsert ==
    ASSUME TableInv, GaugeInv, NEW s \in RibSessions, NEW r \in RibRoutes, InsertPrefix(s, r)
    PROVE  gauge' \in [RibSessions -> [Families -> Nat]] /\ GaugeInv'
<1>1. s \in up /\ r \in Carried(s) /\ RibTypeOK
  BY DEF InsertPrefix, TableInv
<1>2. WasActive(r) <=> r \in Visible
  BY DEF WasActive, Visible
<1>3. CASE InsertActive(r)
  <2>1. Visible' = Visible \cup {r}
    BY <1>1, <1>3, InsertShows
  <2>2. Place(r) \in hidden => ResetGauge(r) = gauge
    BY <1>1, ResetIsIdle
  <2>3. gauge' = IF r \in Visible THEN gauge
                 ELSE [gauge EXCEPT ![r.session][r.family] = @ + 1]
    BY <1>2, <1>3, <2>2 DEF InsertActive
  <2>. QED
    BY <2>1, <2>3, GaugeFollows
<1>4. CASE InsertWithdrawn(r)
  <2>1. Visible' = Visible \ {r}
    BY <1>1, <1>4, WithdrawHides
  <2>2. gauge' = IF r \in Visible
                 THEN [gauge EXCEPT ![r.session][r.family] = Minus(@, 1)] ELSE gauge
    BY <1>2, <1>4 DEF InsertWithdrawn
  <2>. QED
    BY <2>1, <2>2, GaugeFollows
<1>. QED
  BY <1>3, <1>4 DEF InsertPrefix

(* insert_flowspec.  A rule that is stored but hidden is taken for held    *)
(* when it is withdrawn; the gauge it counts down is at zero already.      *)
LEMMA GaugeStore ==
    ASSUME TableInv, GaugeInv, NEW s \in RibSessions, FlowStore(s)
    PROVE  gauge' \in [RibSessions -> [Families -> Nat]] /\ GaugeInv'
<1> DEFINE r == task[s].route
           announce == task[s].status = "Active"
           reset == announce /\ Place(r) \in hidden
           r1 == IF reset THEN ResetRules(r) ELSE rec
           g1 == IF reset THEN ResetGauge(r) ELSE gauge
           held == r1[r] = "Active"
           delta == IF announce THEN Upserted(held) ELSE Removed(held)
<1>1. /\ task[s].at = "store"
      /\ gauge' = [g1 EXCEPT ![s][Flow] = Moved(@, delta)]
  BY DEF FlowStore
<1>2. /\ s \in up /\ r \in Carried(s) /\ r.family = Flow /\ r \in RibRoutes /\ r.session = s
      /\ RibTypeOK
  BY <1>1 DEF TableInv, StoresFit, Carried
<1>3. Visible' = IF announce THEN Visible \cup {r} ELSE Visible \ {r}
  BY <1>2, StoreShows
<1>4. g1 = gauge /\ (Place(r) \in hidden => gauge[s][Flow] = 0)
  BY <1>2, ResetIsIdle
<1>5. gauge \in [RibSessions -> [Families -> Nat]] /\ Flow \in Families
  BY <1>2 DEF RibTypeOK, Families
<1>6. announce => (held <=> r \in Visible)
  BY <1>2 DEF Visible, ResetRules
<1>7. ~announce => (held <=> rec[r] = "Active")
  OBVIOUS
<1>8. r \in Visible <=> rec[r] = "Active" /\ Place(r) \notin hidden
  BY <1>2 DEF Visible
<1> HIDE DEF r, announce, r1, g1, held
<1>9. [gauge EXCEPT ![s][Flow] = gauge[s][Flow]] = gauge
  BY <1>5
<1>10. CASE announce
  <2>1. gauge' = IF r \in Visible THEN gauge ELSE [gauge EXCEPT ![r.session][r.family] = @ + 1]
    BY <1>1, <1>2, <1>4, <1>6, <1>9, <1>10 DEF Upserted, Moved
  <2>. QED
    BY <1>2, <1>3, <1>10, <2>1, GaugeFollows
<1>11. CASE ~announce
  <2>1. Minus(0, 1) = 0
    BY SMTT(30) DEF Minus
  <2>2. gauge' = IF r \in Visible
                 THEN [gauge EXCEPT ![r.session][r.family] = Minus(@, 1)] ELSE gauge
    <3>1. CASE r \in Visible
      BY <1>1, <1>2, <1>4, <1>7, <1>8, <1>11, <3>1 DEF Removed, Moved
    <3>2. CASE r \notin Visible /\ held
      <4>1. gauge[s][Flow] = 0
        BY <1>4, <1>7, <1>8, <1>11, <3>2
      <4>2. gauge' = [gauge EXCEPT ![s][Flow] = Minus(gauge[s][Flow], 1)]
        BY <1>1, <1>4, <1>11, <3>2 DEF Removed, Moved
      <4>. QED
        BY <1>9, <2>1, <3>2, <4>1, <4>2
    <3>3. CASE r \notin Visible /\ ~held
      <4>1. gauge' = [gauge EXCEPT ![s][Flow] = gauge[s][Flow]]
        BY <1>1, <1>4, <1>11, <3>3 DEF Removed, Moved
      <4>. QED
        BY <1>9, <3>3, <4>1
    <3>. QED
      BY <3>1, <3>2, <3>3
  <2>. QED
    BY <1>2, <1>3, <1>11, <2>2, GaugeFollows
<1>. QED
  BY <1>10, <1>11

(* withdraw_for_ingress and remove_for_ingress clear the session's gauges. *)
LEMMA GaugeBulk ==
    ASSUME TableInv, GaugeInv, NEW t \in Tasks, BulkApply(t)
    PROVE  gauge' \in [RibSessions -> [Families -> Nat]] /\ GaugeInv'
<1>0. PICK gone \in RibSessions : gone = task[t].session
  BY BulkClears
<1>1. Visible' = {r \in Visible : r.session # gone} /\ "session" \in task[t].muis
  BY <1>0, BulkClears
<1>2. gauge' = [gauge EXCEPT ![gone] = [f \in Families |-> 0]]
  BY <1>0, <1>1 DEF BulkApply, BulkGauges
<1>3. gauge \in [RibSessions -> [Families -> Nat]]
  BY DEF TableInv, RibTypeOK
<1>4. gauge' \in [RibSessions -> [Families -> Nat]]
  BY <1>2, <1>3
<1>5. ASSUME NEW s \in RibSessions, NEW f \in Families
      PROVE  gauge'[s][f] = Cardinality(Shown(s, f)')
  <2>1. CASE s = gone
    <3>1. Shown(s, f)' = {} /\ gauge'[s][f] = 0
      BY <1>1, <1>2, <1>3, <2>1 DEF Shown
    <3>. QED
      BY <3>1, FS_EmptySet
  <2>2. CASE s # gone
    <3>1. Shown(s, f)' = Shown(s, f) /\ gauge'[s][f] = gauge[s][f]
      BY <1>1, <1>2, <1>3, <2>2 DEF Shown
    <3>. QED
      BY <3>1 DEF GaugeInv
  <2>. QED
    BY <2>1, <2>2
<1>. QED
  BY <1>4, <1>5 DEF GaugeInv

-----------------------------------------------------------------------------
(* One table *)

(* Tables and gauges, for every step.                                      *)
LEMMA TableAndGauges ==
    ASSUME TableInv, GaugeInv, [RibNext]_ribVars
    PROVE  TableInv' /\ GaugeInv'
<1>1. ASSUME UNCHANGED <<rec, hidden, gauge>> PROVE GaugeInv'
  <2>1. \A s, f : Shown(s, f)' = Shown(s, f)
    BY <1>1, VisibleSame DEF Shown
  <2>. QED
    BY <1>1, <2>1 DEF GaugeInv
<1>2. ASSUME NEW s \in RibSessions,
             \/ \E ps \in SUBSET WithPaths(s), b \in BOOLEAN : Connect(s, ps, b)
             \/ End(s) \/ Collect(s)
      PROVE  TableInv' /\ GaugeInv'
  <2>1. TableInv'
    BY <1>2, TableConnect, TableEnd, TableCollect
  <2>2. UNCHANGED <<rec, hidden, gauge>>
    BY <1>2 DEF Connect, End, Collect
  <2>. QED
    BY <1>1, <2>1, <2>2
<1>3. ASSUME NEW s \in RibSessions, NEW r \in RibRoutes, InsertPrefix(s, r)
      PROVE  TableInv' /\ GaugeInv'
  BY <1>3, GaugeInsert, TableInsert
<1>4. ASSUME NEW s \in RibSessions, NEW r \in RibRoutes, NEW st \in {"Active", "Withdrawn"},
             FlowBegin(s, r, st)
      PROVE  TableInv' /\ GaugeInv'
  BY <1>1, <1>4, TableFlowBegin DEF FlowBegin
<1>5. ASSUME NEW s \in RibSessions, FlowStore(s) PROVE TableInv' /\ GaugeInv'
  BY <1>5, GaugeStore, TableFlowStore
<1>6. ASSUME NEW t \in Tasks, BulkApply(t) PROVE TableInv' /\ GaugeInv'
  BY <1>6, GaugeBulk, TableBulkApply
<1>7. ASSUME NEW t \in Tasks, BulkBegin(t) PROVE TableInv' /\ GaugeInv'
  BY <1>1, <1>7, TableBulkBegin DEF BulkBegin
<1>8. ASSUME \/ \E s \in RibSessions : FlowCount(s)
             \/ \E t \in Tasks : \/ BulkEnd(t) \/ RecountGeneration(t) \/ RecountWalk(t)
                                 \/ RecountCheck(t) \/ RecountSet(t) \/ RecountRecheck(t)
      PROVE  TableInv' /\ GaugeInv'
  <2>1. UNCHANGED <<rec, hidden, gauge>>
    BY <1>8 DEF FlowCount, BulkEnd, RecountGeneration, RecountWalk, RecountCheck, RecountSet,
                RecountRecheck
  <2>. QED
    BY <1>1, <1>8, <2>1, TableRest
<1>9. CASE UNCHANGED ribVars
  <2>1. Visible' = Visible /\ GaugeInv'
    BY <1>1, <1>9, VisibleSame DEF ribVars
  <2>2. StoresFit' /\ JobsFit' /\ ShowsCarried'
    BY <1>9, <2>1 DEF ribVars, TableInv, StoresFit, JobsFit, ShowsCarried, Silent, AtWork, Carried
  <2>3. RibTypeOK'
    BY <1>9 DEF ribVars, TableInv, RibTypeOK
  <2>. QED
    BY <2>1, <2>2, <2>3 DEF TableInv
<1>. QED
  BY <1>2, <1>3, <1>4, <1>5, <1>6, <1>7, <1>8, <1>9 DEF RibNext

(* Before the first session.                                               *)
LEMMA TableAndGaugesInit == RibInit => TableInv /\ GaugeInv
<1> SUFFICES ASSUME RibInit PROVE TableInv /\ GaugeInv
  OBVIOUS
<1>1. Visible = {}
  BY DEF RibInit, Visible
<1>2. RibTypeOK
  BY DEF RibInit, RibTypeOK, Idle, TaskStates, Bare
<1>3. \A t \in Tasks : task[t] = Idle /\ task[t].at = "idle"
  BY DEF RibInit, Idle
<1>4. RibSessions \subseteq Tasks /\ Collector \in Tasks
  BY DEF Tasks
<1>5. StoresFit /\ JobsFit /\ ShowsCarried
  BY <1>1, <1>3, <1>4 DEF StoresFit, JobsFit, ShowsCarried, Silent, AtWork
<1>6. GaugeInv
  <2>1. \A s, f : Shown(s, f) = {}
    BY <1>1 DEF Shown
  <2>. QED
    BY <2>1, FS_EmptySet DEF RibInit, GaugeInv
<1>. QED
  BY <1>2, <1>5, <1>6 DEF TableInv

(* Every step is one of the table, or changes nothing that a reader sees.  *)
LEMMA TableSteps ==
    ASSUME TableInv, [RibNext]_ribVars
    PROVE  [Table!TableNext]_(Table!tableVars)
<1>1. ASSUME Visible' = Visible, up' = up PROVE UNCHANGED Table!tableVars
  BY <1>1 DEF Table!tableVars
<1>2. ASSUME NEW s \in RibSessions, NEW ps \in SUBSET WithPaths(s), NEW b \in BOOLEAN,
             Connect(s, ps, b)
      PROVE  Table!TableNext
  <2>1. Silent(s) /\ s \notin up /\ up' = up \cup {s} /\ Visible' = Visible
    BY <1>2, TableConnect
  <2>2. Table!Up(s)
    BY <2>1 DEF Table!Up, Table!Owned, RouteOwner, Silent
  <2>. QED
    BY <2>2 DEF Table!TableNext
<1>3. ASSUME NEW s \in RibSessions, End(s) PROVE Table!TableNext
  <2>1. Visible' = Visible /\ s \in up /\ up' = up \ {s}
    BY <1>3, TableEnd
  <2>. QED
    BY <2>1 DEF Table!TableNext, Table!Down
<1>4. ASSUME NEW r \in RibRoutes, r.session \in up, up' = up,
             Visible' = Visible \cup {r} \/ Visible' = Visible \ {r}
      PROVE  Table!TableNext
  BY <1>4 DEF Table!TableNext, Table!Announced, Table!Withdrawn, RouteOwner
<1>5. ASSUME NEW s \in RibSessions, NEW r \in RibRoutes, InsertPrefix(s, r)
      PROVE  Table!TableNext
  <2>1. r.session \in up /\ up' = up /\ RibTypeOK
    BY <1>5 DEF InsertPrefix, Carried, TableInv
  <2>2. Visible' = Visible \cup {r} \/ Visible' = Visible \ {r}
    BY <1>5, <2>1, InsertShows, WithdrawHides DEF InsertPrefix
  <2>. QED
    BY <1>4, <2>1, <2>2
<1>6. ASSUME NEW s \in RibSessions, FlowStore(s) PROVE Table!TableNext
  <2>1. RibTypeOK /\ up' = up /\ task[s].at = "store"
    BY <1>6 DEF FlowStore, TableInv
  <2>2. task[s].route \in RibRoutes /\ task[s].route.session \in up
    BY <2>1 DEF TableInv, StoresFit, Carried
  <2>3. Visible' = Visible \cup {task[s].route} \/ Visible' = Visible \ {task[s].route}
    BY <1>6, <2>1, StoreShows
  <2>. QED
    BY <1>4, <2>1, <2>2, <2>3
<1>7. ASSUME NEW t \in Tasks, BulkApply(t) PROVE [Table!TableNext]_(Table!tableVars)
  <2>1. /\ task[t].session \in RibSessions /\ up' = up
        /\ Visible' = {r \in Visible : r.session # task[t].session}
        /\ task[t].session \in up => Visible' = Visible
    BY <1>7, BulkClears DEF BulkApply
  <2>2. CASE task[t].session \in up
    BY <1>1, <2>1, <2>2
  <2>3. CASE task[t].session \notin up
    <3>1. Table!Cleared(task[t].session)
      BY <2>1, <2>3 DEF Table!Cleared, Table!Owned, RouteOwner
    <3>. QED
      BY <2>1, <3>1 DEF Table!TableNext
  <2>. QED
    BY <2>2, <2>3
<1>8. ASSUME UNCHANGED <<rec, hidden, up>> PROVE UNCHANGED Table!tableVars
  BY <1>1, <1>8, VisibleSame
<1>9. ASSUME NEW s \in RibSessions,
             \/ Collect(s) \/ FlowCount(s)
             \/ \E r \in RibRoutes, st \in {"Active", "Withdrawn"} : FlowBegin(s, r, st)
      PROVE  UNCHANGED Table!tableVars
  BY <1>8, <1>9 DEF Collect, FlowCount, FlowBegin
<1>10. ASSUME NEW t \in Tasks,
              \/ BulkBegin(t) \/ BulkEnd(t) \/ RecountGeneration(t) \/ RecountWalk(t)
              \/ RecountCheck(t) \/ RecountSet(t) \/ RecountRecheck(t)
       PROVE  UNCHANGED Table!tableVars
  BY <1>8, <1>10 DEF BulkBegin, BulkEnd, RecountGeneration, RecountWalk, RecountCheck,
                     RecountSet, RecountRecheck
<1>11. CASE UNCHANGED ribVars
  BY <1>8, <1>11 DEF ribVars
<1>. QED
  BY <1>2, <1>3, <1>5, <1>6, <1>7, <1>9, <1>10, <1>11 DEF RibNext

(* rib.rs, insert, withdraw_for_ingress, remove_for_ingress: readers see   *)
(* the table of RibTable.  Records that a bulk withdrawal hid never come   *)
(* back with a later announcement, and the routes of a session that ended, *)
(* those of its path children included, go together.                       *)
THEOREM ImplementsTable == RibSpec => ShowsOneTable
<1>1. RibInit => TableInv /\ GaugeInv
  BY TableAndGaugesInit
<1>2. RibInit => Table!TableInit
  BY DEF RibInit, Table!TableInit, Visible
<1>3. (TableInv /\ GaugeInv) /\ [RibNext]_ribVars => (TableInv /\ GaugeInv)'
  BY TableAndGauges
<1>4. (TableInv /\ GaugeInv) /\ [RibNext]_ribVars => [Table!TableNext]_(Table!tableVars)
  BY TableSteps
<1>. QED
  BY <1>1, <1>2, <1>3, <1>4, PTL DEF RibSpec, ShowsOneTable, Table!TableSpec

(* peer_stats.rs and the gauge updates of rib.rs: whenever no update of a  *)
(* session is in progress, and even if peers withdraw rules they never     *)
(* announced, the session's gauge of each family counts what readers see.  *)
THEOREM GaugesCountTable == RibSpec => []GaugeIsTable
<1>1. RibInit => TableInv /\ GaugeInv
  BY TableAndGaugesInit
<1>2. (TableInv /\ GaugeInv) /\ [RibNext]_ribVars => (TableInv /\ GaugeInv)'
  BY TableAndGauges
<1>3. TableInv /\ GaugeInv => GaugeIsTable
  BY DEF TableInv, RibTypeOK, GaugeInv, GaugeIsTable, Shown
<1>. QED
  BY <1>1, <1>2, <1>3, PTL DEF RibSpec

-----------------------------------------------------------------------------
(* Locks and writers *)

(* One task moves; it keeps, takes or gives back flowspec_lock.            *)
LEMMA FlowLockMoves ==
    ASSUME FlowLockInv, NEW t \in Tasks,
           \A u \in Tasks \ {t} : task'[u].at = task[u].at
    PROVE  /\ (HoldsFlow(t)' <=> HoldsFlow(t)) /\ flowLock' = flowLock
                 => FlowLockInv' /\ FlowHeld' = FlowHeld
           /\ ~HoldsFlow(t) /\ flowLock = FALSE /\ HoldsFlow(t)' /\ flowLock' = TRUE
                 => FlowLockInv' /\ FlowHeld = 0 /\ FlowHeld' = 1
           /\ HoldsFlow(t) /\ ~HoldsFlow(t)' /\ flowLock' = FALSE
                 => FlowLockInv' /\ FlowHeld = 1 /\ FlowHeld' = 0
<1>1. \A u \in Tasks \ {t} : HoldsFlow(u)' <=> HoldsFlow(u)
  BY DEF HoldsFlow
<1>. QED
  BY <1>1 DEF FlowLockInv, FlowHeld

(* The same for withdraw_lock.                                             *)
LEMMA BulkLockMoves ==
    ASSUME BulkLockInv, NEW t \in Tasks,
           \A u \in Tasks \ {t} : task'[u].at = task[u].at
    PROVE  /\ (HoldsBulk(t)' <=> HoldsBulk(t)) /\ bulkLock' = bulkLock
                 => BulkLockInv' /\ BulkHeld' = BulkHeld
           /\ ~HoldsBulk(t) /\ bulkLock = FALSE /\ HoldsBulk(t)' /\ bulkLock' = TRUE
                 => BulkLockInv' /\ BulkHeld = 0 /\ BulkHeld' = 1
           /\ HoldsBulk(t) /\ ~HoldsBulk(t)' /\ bulkLock' = FALSE
                 => BulkLockInv' /\ BulkHeld = 1 /\ BulkHeld' = 0
<1>1. \A u \in Tasks \ {t} : HoldsBulk(u)' <=> HoldsBulk(u)
  BY DEF HoldsBulk
<1>. QED
  BY <1>1 DEF BulkLockInv, BulkHeld

(* A task moves without taking or giving back a lock.                      *)
LEMMA LocksKept ==
    ASSUME LocksInv, NEW t \in Tasks, UNCHANGED <<writers, flowLock, bulkLock>>,
           \A u \in Tasks \ {t} : task'[u].at = task[u].at,
           HoldsFlow(t)' <=> HoldsFlow(t), HoldsBulk(t)' <=> HoldsBulk(t)
    PROVE  LocksInv'
<1>1. FlowLockInv /\ BulkLockInv /\ writers = FlowHeld + BulkHeld
  BY DEF LocksInv
<1>2. FlowLockInv' /\ FlowHeld' = FlowHeld
  BY <1>1, FlowLockMoves
<1>3. BulkLockInv' /\ BulkHeld' = BulkHeld
  BY <1>1, BulkLockMoves
<1>. QED
  BY <1>1, <1>2, <1>3 DEF LocksInv

(* Where a step of one task leads it.                                      *)
LEMMA TaskGoes ==
    ASSUME TableInv, NEW t \in Tasks, NEW x, task' = [task EXCEPT ![t] = x]
    PROVE  task'[t] = x /\ \A u \in Tasks \ {t} : task'[u] = task[u]
  BY DEF TableInv, RibTypeOK

(* The steps of a recount.                                                 *)
LEMMA RecountMoves ==
    ASSUME TableInv, NEW t \in Tasks,
           \/ RecountGeneration(t) \/ RecountWalk(t) \/ RecountCheck(t)
           \/ RecountSet(t) \/ RecountRecheck(t)
    PROVE  /\ \A u \in Tasks \ {t} : task'[u] = task[u]
           /\ RecountGeneration(t) => task'[t].at = "walk"
           /\ RecountWalk(t) => /\ task'[t].at = "check" /\ task'[t].stale = task[t].stale
                                /\ task'[t].found = Cardinality(VisibleRules)
           /\ RecountCheck(t) =>
                 \/ /\ Quiescent(t) /\ task'[t].at = "set" /\ task'[t].stale = task[t].stale
                    /\ task'[t].found = task[t].found
                 \/ task'[t].at = "generation"
           /\ RecountSet(t) => /\ task'[t].at = "recheck" /\ task'[t].stale = task[t].stale
                               /\ task'[t].found = task[t].found
           /\ RecountRecheck(t) => \/ Quiescent(t) /\ task'[t].at = "idle"
                                   \/ task'[t].at = "generation"
           /\ task'[t].at \notin {"store", "count", "bulk", "apply", "release"}
<1>1. task \in [Tasks -> TaskStates]
  BY DEF TableInv, RibTypeOK
<1>2. CASE RecountGeneration(t)
  BY <1>1, <1>2 DEF RecountGeneration, RecountWalk, RecountCheck, RecountSet, RecountRecheck
<1>3. CASE RecountWalk(t)
  <2>1. task[t].at = "walk" /\ task[t] \in Recounts
    BY <1>1, <1>3, TaskShapes DEF RecountWalk
  <2> DEFINE x == [task[t] EXCEPT !.at = "check", !.found = Cardinality(VisibleRules)]
  <2>2. x.at = "check" /\ x.stale = task[t].stale /\ x.found = Cardinality(VisibleRules)
    BY <2>1 DEF Recounts
  <2>3. task' = [task EXCEPT ![t] = x]
    BY <1>1, <1>3 DEF RecountWalk
  <2> HIDE DEF x
  <2>. QED
    BY <1>1, <2>1, <2>2, <2>3 DEF RecountGeneration, RecountCheck, RecountSet, RecountRecheck
<1>4. CASE RecountCheck(t)
  <2>1. task[t].at = "check" /\ task[t] \in Recounts
    BY <1>1, <1>4, TaskShapes DEF RecountCheck
  <2> DEFINE x == [task[t] EXCEPT !.at = "set"]
             y == [at |-> "generation"]
  <2>2. x.at = "set" /\ x.stale = task[t].stale /\ x.found = task[t].found /\ y.at = "generation"
    BY <2>1 DEF Recounts
  <2>3. task' = [task EXCEPT ![t] = IF Quiescent(t) THEN x ELSE y]
    BY <1>1, <1>4 DEF RecountCheck
  <2> HIDE DEF x, y
  <2>. QED
    BY <1>1, <2>1, <2>2, <2>3 DEF RecountGeneration, RecountWalk, RecountSet, RecountRecheck
<1>5. CASE RecountSet(t)
  <2>1. task[t].at = "set" /\ task[t] \in Recounts
    BY <1>1, <1>5, TaskShapes DEF RecountSet
  <2> DEFINE x == [task[t] EXCEPT !.at = "recheck"]
  <2>2. x.at = "recheck" /\ x.stale = task[t].stale /\ x.found = task[t].found
    BY <2>1 DEF Recounts
  <2>3. task' = [task EXCEPT ![t] = x]
    BY <1>1, <1>5 DEF RecountSet
  <2> HIDE DEF x
  <2>. QED
    BY <1>1, <2>1, <2>2, <2>3 DEF RecountGeneration, RecountWalk, RecountCheck, RecountRecheck
<1>6. CASE RecountRecheck(t)
  <2> DEFINE y == [at |-> "generation"]
  <2>1. task[t].at = "recheck" /\ task' = [task EXCEPT ![t] = IF Quiescent(t) THEN Idle ELSE y]
    BY <1>6 DEF RecountRecheck
  <2>2. Idle.at = "idle" /\ y.at = "generation"
    BY DEF Idle
  <2> HIDE DEF y
  <2>. QED
    BY <1>1, <2>1, <2>2 DEF RecountGeneration, RecountWalk, RecountCheck, RecountSet
<1>. QED
  BY <1>2, <1>3, <1>4, <1>5, <1>6

(* The locks, for every step.                                              *)
LEMMA LocksNext ==
    ASSUME TableInv, LocksInv, [RibNext]_ribVars
    PROVE  LocksInv'
<1>0. /\ RibSessions \subseteq Tasks /\ Collector \in Tasks /\ Idle.at = "idle"
      /\ RibTypeOK /\ task \in [Tasks -> TaskStates]
      /\ FlowLockInv /\ BulkLockInv /\ writers = FlowHeld + BulkHeld
      /\ FlowHeld \in {0, 1} /\ BulkHeld \in {0, 1}
  BY DEF Tasks, Idle, TableInv, RibTypeOK, LocksInv, FlowHeld, BulkHeld
<1>1. ASSUME NEW s \in RibSessions, NEW ps \in SUBSET WithPaths(s), NEW b \in BOOLEAN,
             Connect(s, ps, b)
      PROVE  LocksInv'
  <2> DEFINE x == IF b THEN Bulk("remove", s, {"session"}) ELSE Idle
  <2>1. task[s] = Idle /\ task' = [task EXCEPT ![s] = x]
        /\ UNCHANGED <<writers, flowLock, bulkLock>>
    BY <1>1 DEF Connect
  <2>2. x.at \in {"idle", "bulk"}
    BY DEF Idle, Bulk
  <2> HIDE DEF x
  <2>. QED
    BY <1>0, <2>1, <2>2, TaskGoes, LocksKept DEF HoldsFlow, HoldsBulk
<1>2. ASSUME NEW s \in RibSessions, End(s) PROVE LocksInv'
  <2> DEFINE x == Bulk("withdraw", s, Muis)
  <2>1. task[s] = Idle /\ task' = [task EXCEPT ![s] = x]
        /\ UNCHANGED <<writers, flowLock, bulkLock>>
    BY <1>2 DEF End
  <2>2. x.at = "bulk"
    BY DEF Bulk
  <2> HIDE DEF x
  <2>. QED
    BY <1>0, <2>1, <2>2, TaskGoes, LocksKept DEF HoldsFlow, HoldsBulk
<1>3. ASSUME NEW s \in RibSessions, Collect(s) PROVE LocksInv'
  <2> DEFINE x == Bulk("remove", s, Muis)
  <2>1. task[Collector] = Idle /\ task' = [task EXCEPT ![Collector] = x]
        /\ UNCHANGED <<writers, flowLock, bulkLock>>
    BY <1>3 DEF Collect
  <2>2. x.at = "bulk"
    BY DEF Bulk
  <2> HIDE DEF x
  <2>. QED
    BY <1>0, <2>1, <2>2, TaskGoes, LocksKept DEF HoldsFlow, HoldsBulk
<1>4. ASSUME UNCHANGED <<task, writers, flowLock, bulkLock>> PROVE LocksInv'
  BY <1>4 DEF LocksInv, FlowLockInv, BulkLockInv, FlowHeld, BulkHeld, HoldsFlow, HoldsBulk
<1>5. ASSUME NEW s \in RibSessions, NEW r \in RibRoutes, NEW st \in {"Active", "Withdrawn"},
             FlowBegin(s, r, st)
      PROVE  LocksInv'
  <2> DEFINE x == [at |-> "store", route |-> r, status |-> st]
  <2>1. /\ task[s] = Idle /\ flowLock = FALSE /\ flowLock' = TRUE /\ writers' = writers + 1
        /\ bulkLock' = bulkLock /\ task' = [task EXCEPT ![s] = x]
    BY <1>5 DEF FlowBegin
  <2>2. x.at = "store"
    OBVIOUS
  <2> HIDE DEF x
  <2>3. task'[s] = x /\ \A u \in Tasks \ {s} : task'[u] = task[u]
    BY <1>0, <2>1, TaskGoes
  <2>4. ~HoldsFlow(s) /\ HoldsFlow(s)' /\ ~HoldsBulk(s) /\ ~HoldsBulk(s)'
    BY <1>0, <2>1, <2>2, <2>3 DEF HoldsFlow, HoldsBulk
  <2>5. FlowLockInv' /\ FlowHeld = 0 /\ FlowHeld' = 1
    BY <1>0, <2>1, <2>3, <2>4, FlowLockMoves
  <2>6. BulkLockInv' /\ BulkHeld' = BulkHeld
    BY <1>0, <2>1, <2>3, <2>4, BulkLockMoves
  <2>. QED
    BY SMTT(30), <1>0, <2>1, <2>5, <2>6 DEF LocksInv
<1>6. ASSUME NEW s \in RibSessions, FlowStore(s) PROVE LocksInv'
  <2>1. PICK d : task' = [task EXCEPT ![s] = [at |-> "count", delta |-> d]]
    BY <1>6 DEF FlowStore
  <2>2. task[s].at = "store" /\ UNCHANGED <<writers, flowLock, bulkLock>>
    BY <1>6 DEF FlowStore
  <2>3. task'[s].at = "count" /\ \A u \in Tasks \ {s} : task'[u] = task[u]
    BY <1>0, <2>1, TaskGoes
  <2>. QED
    BY <1>0, <2>2, <2>3, LocksKept DEF HoldsFlow, HoldsBulk
<1>7. ASSUME NEW s \in RibSessions, FlowCount(s) PROVE LocksInv'
  <2>1. /\ task[s].at = "count" /\ Ends(s, Idle)
        /\ writers' = writers - 1 /\ flowLock' = FALSE /\ bulkLock' = bulkLock
    BY <1>7 DEF FlowCount, Ends
  <2>2. Idle \in Bare
    BY DEF Idle, Bare
  <2>3. task'[s] = Idle /\ \A u \in Tasks \ {s} : task'[u].at = task[u].at
    BY <1>0, <2>1, <2>2, MutationEnds
  <2>4. HoldsFlow(s) /\ ~HoldsFlow(s)' /\ ~HoldsBulk(s) /\ ~HoldsBulk(s)'
    BY <1>0, <2>1, <2>3 DEF HoldsFlow, HoldsBulk
  <2>5. FlowLockInv' /\ FlowHeld = 1 /\ FlowHeld' = 0
    BY <1>0, <2>1, <2>3, <2>4, FlowLockMoves
  <2>6. BulkLockInv' /\ BulkHeld' = BulkHeld
    BY <1>0, <2>1, <2>3, <2>4, BulkLockMoves
  <2>. QED
    BY SMTT(30), <1>0, <2>1, <2>5, <2>6 DEF LocksInv
<1>8. ASSUME NEW t \in Tasks, BulkBegin(t) PROVE LocksInv'
  <2>1. /\ task[t].at = "bulk" /\ bulkLock = FALSE /\ bulkLock' = TRUE /\ writers' = writers + 1
        /\ flowLock' = flowLock /\ task' = [task EXCEPT ![t].at = "apply"]
    BY <1>8 DEF BulkBegin
  <2>2. task[t] \in Jobs
    BY <1>0, <2>1, TaskShapes
  <2>3. [task[t] EXCEPT !.at = "apply"].at = "apply"
    BY <2>2 DEF Jobs
  <2>4. task'[t].at = "apply" /\ \A u \in Tasks \ {t} : task'[u] = task[u]
    BY <1>0, <2>1, <2>3
  <2>5. ~HoldsFlow(t) /\ ~HoldsFlow(t)' /\ ~HoldsBulk(t) /\ HoldsBulk(t)'
    BY <2>1, <2>4 DEF HoldsFlow, HoldsBulk
  <2>6. FlowLockInv' /\ FlowHeld' = FlowHeld
    BY <1>0, <2>1, <2>4, <2>5, FlowLockMoves
  <2>7. BulkLockInv' /\ BulkHeld = 0 /\ BulkHeld' = 1
    BY <1>0, <2>1, <2>4, <2>5, BulkLockMoves
  <2>. QED
    BY SMTT(30), <1>0, <2>1, <2>6, <2>7 DEF LocksInv
<1>9. ASSUME NEW t \in Tasks, BulkApply(t) PROVE LocksInv'
  <2>1. /\ task[t].at = "apply" /\ task' = [task EXCEPT ![t] = [at |-> "release"]]
        /\ UNCHANGED <<writers, flowLock, bulkLock>>
    BY <1>9 DEF BulkApply
  <2>2. task'[t].at = "release" /\ \A u \in Tasks \ {t} : task'[u] = task[u]
    BY <1>0, <2>1, TaskGoes
  <2>. QED
    BY <1>0, <2>1, <2>2, LocksKept DEF HoldsFlow, HoldsBulk
<1>10. ASSUME NEW t \in Tasks, BulkEnd(t) PROVE LocksInv'
  <2> DEFINE x == [at |-> "generation"]
  <2>1. /\ task[t].at = "release" /\ Ends(t, x)
        /\ writers' = writers - 1 /\ bulkLock' = FALSE /\ flowLock' = flowLock
    BY <1>10 DEF BulkEnd, Ends
  <2>2. x \in Bare /\ x.at = "generation"
    BY DEF Bare
  <2> HIDE DEF x
  <2>3. task'[t] = x /\ \A u \in Tasks \ {t} : task'[u].at = task[u].at
    BY <1>0, <2>1, <2>2, MutationEnds
  <2>4. ~HoldsFlow(t) /\ ~HoldsFlow(t)' /\ HoldsBulk(t) /\ ~HoldsBulk(t)'
    BY <2>1, <2>2, <2>3 DEF HoldsFlow, HoldsBulk
  <2>5. FlowLockInv' /\ FlowHeld' = FlowHeld
    BY <1>0, <2>1, <2>3, <2>4, FlowLockMoves
  <2>6. BulkLockInv' /\ BulkHeld = 1 /\ BulkHeld' = 0
    BY <1>0, <2>1, <2>3, <2>4, BulkLockMoves
  <2>. QED
    BY SMTT(30), <1>0, <2>1, <2>5, <2>6 DEF LocksInv
<1>11. ASSUME NEW t \in Tasks,
              \/ RecountGeneration(t) \/ RecountWalk(t) \/ RecountCheck(t)
              \/ RecountSet(t) \/ RecountRecheck(t)
       PROVE  LocksInv'
  <2>1. UNCHANGED <<writers, flowLock, bulkLock>>
    BY <1>11 DEF RecountGeneration, RecountWalk, RecountCheck, RecountSet, RecountRecheck
  <2>2. task[t].at \in {"generation", "walk", "check", "set", "recheck"}
    BY <1>11 DEF RecountGeneration, RecountWalk, RecountCheck, RecountSet, RecountRecheck
  <2>3. task'[t].at \notin {"store", "count", "bulk", "apply", "release"}
        /\ \A u \in Tasks \ {t} : task'[u] = task[u]
    BY <1>11, RecountMoves
  <2>. QED
    BY <2>1, <2>2, <2>3, LocksKept DEF HoldsFlow, HoldsBulk
<1>12. CASE UNCHANGED ribVars
  BY <1>4, <1>12 DEF ribVars
<1>13. ASSUME NEW s \in RibSessions, NEW r \in RibRoutes, InsertPrefix(s, r) PROVE LocksInv'
  BY <1>4, <1>13 DEF InsertPrefix
<1>. QED
  BY <1>1, <1>2, <1>3, <1>5, <1>6, <1>7, <1>8, <1>9, <1>10, <1>11, <1>12, <1>13 DEF RibNext

-----------------------------------------------------------------------------
(* The count of stored rules *)

(* A count settles as before where neither the rules nor the tasks that    *)
(* store and withdraw them have moved.                                     *)
LEMMA SettlesAsBefore ==
    ASSUME Cardinality(VisibleRules)' = Cardinality(VisibleRules),
           \A u \in Tasks : task'[u] = task[u] \/ {task[u].at, task'[u].at} \cap {"count", "release"} = {}
    PROVE  /\ NoneAt("count")' <=> NoneAt("count")
           /\ NoneAt("release")' <=> NoneAt("release")
           /\ \A n : Settles(n)' <=> Settles(n)
<1>1. \A u \in Tasks : (task'[u].at = "count" <=> task[u].at = "count")
                       /\ (task'[u].at = "count" => task'[u] = task[u])
  OBVIOUS
<1>2. \A u \in Tasks : task'[u].at = "release" <=> task[u].at = "release"
  OBVIOUS
<1>3. NoneAt("count")' <=> NoneAt("count")
  BY <1>1 DEF NoneAt
<1>4. NoneAt("release")' <=> NoneAt("release")
  BY <1>2 DEF NoneAt
<1>5. ASSUME NEW n PROVE Settles(n)' <=> Settles(n)
  BY <1>1, <1>3 DEF Settles, Tasks
<1>. QED
  BY <1>3, <1>4, <1>5

(* A task moves that neither stores a rule nor ends a bulk operation.      *)
LEMMA CountMoves ==
    ASSUME CountInv, NEW t \in Tasks,
           Cardinality(VisibleRules)' = Cardinality(VisibleRules),
           \A u \in Tasks \ {t} : task'[u] = task[u],
           {task[t].at, task'[t].at} \cap {"count", "release"} = {},
           task'[t].at = "check" /\ task'[t].stale = FALSE =>
               task'[t].found = Cardinality(VisibleRules) \/ ~NoneAt("count") \/ ~NoneAt("release"),
           task'[t].at \in {"set", "recheck"} /\ task'[t].stale = FALSE =>
               Settles(task'[t].found) \/ ~NoneAt("release"),
           Settles(rules') \/ \E u \in Tasks : Recounting(u)'
    PROVE  CountInv'
<1>1. /\ NoneAt("count")' <=> NoneAt("count")
      /\ NoneAt("release")' <=> NoneAt("release")
      /\ \A n : Settles(n)' <=> Settles(n)
  BY SettlesAsBefore
<1>2. ASSUME NEW u \in Tasks, task'[u].at = "check", task'[u].stale = FALSE
      PROVE  task'[u].found = Cardinality(VisibleRules)'
             \/ ~NoneAt("count")' \/ ~NoneAt("release")'
  BY <1>1, <1>2 DEF CountInv
<1>3. ASSUME NEW u \in Tasks, task'[u].at \in {"set", "recheck"}, task'[u].stale = FALSE
      PROVE  Settles(task[u].found)' \/ ~NoneAt("release")'
  <2>1. Settles(task'[u].found) \/ ~NoneAt("release")
    BY <1>3 DEF CountInv
  <2>2. PICK n : n = task'[u].found
    OBVIOUS
  <2>3. Settles(n) => Settles(n)'
    BY <1>1
  <2>4. Settles(n)' => Settles(task[u].found)'
    BY <2>2 DEF Settles
  <2>5. Settles(task'[u].found) => Settles(n)
    BY <2>2 DEF Settles
  <2>. QED
    BY <1>1, <2>1, <2>3, <2>4, <2>5
<1>4. Settles(rules)' \/ \E u \in Tasks : Recounting(u)'
  <2>1. PICK n : n = rules'
    OBVIOUS
  <2>2. Settles(n) => Settles(n)'
    BY <1>1
  <2>3. Settles(n)' => Settles(rules)'
    BY <2>1 DEF Settles
  <2>4. Settles(rules') => Settles(n)
    BY <2>1 DEF Settles
  <2>. QED
    BY <2>2, <2>3, <2>4
<1>. QED
  BY <1>2, <1>3, <1>4 DEF CountInv

(* A session comes up or ends, an update or a bulk operation begins.       *)
LEMMA CountQuiet ==
    ASSUME CountInv, NEW t \in Tasks,
           Cardinality(VisibleRules)' = Cardinality(VisibleRules), rules' = rules,
           \A u \in Tasks \ {t} : task'[u] = task[u],
           task[t].at \in {"idle", "bulk"},
           task'[t].at \in {"idle", "bulk", "apply", "store"}
    PROVE  CountInv'
<1>1. \A u \in Tasks : Recounting(u) => u # t
  BY DEF Recounting
<1>2. \A u \in Tasks \ {t} : Recounting(u)' <=> Recounting(u)
  BY DEF Recounting
<1>3. Settles(rules') <=> Settles(rules)
  OBVIOUS
<1>4. Settles(rules') \/ \E u \in Tasks : Recounting(u)'
  BY <1>1, <1>2, <1>3 DEF CountInv
<1>. QED
  BY <1>4, CountMoves

(* flowspec_lock held while a rule is stored keeps every other rule out    *)
(* until it is counted.                                                    *)
LEMMA StoreSettles ==
    ASSUME ~Stray, TableInv, LocksInv, NEW s \in RibSessions, FlowStore(s)
    PROVE  /\ NoneAt("count") /\ task'[s].at = "count"
           /\ \A u \in Tasks \ {s} : task'[u] = task[u]
           /\ Moved(Cardinality(VisibleRules), task'[s].delta) = Cardinality(VisibleRules)'
<1> DEFINE r == task[s].route
           announce == task[s].status = "Active"
           reset == announce /\ Place(r) \in hidden
           r1 == IF reset THEN ResetRules(r) ELSE rec
           held == r1[r] = "Active"
           delta == IF announce THEN Upserted(held) ELSE Removed(held)
<1>1. /\ task[s].at = "store" /\ s \in Tasks
      /\ task' = [task EXCEPT ![s] = [at |-> "count", delta |-> delta]]
  BY DEF FlowStore, Tasks
<1>2. /\ r \in RibRoutes /\ r.family = Flow /\ RibTypeOK
      /\ task[s].status = "Withdrawn" => r \in Visible
  BY <1>1 DEF TableInv, StoresFit, Carried
<1>3. Visible' = (IF announce THEN Visible \cup {r} ELSE Visible \ {r}) /\ task[s] \in Storing
  BY <1>2, StoreShows
<1>4. announce => (held <=> r \in Visible)
  BY <1>2 DEF Visible, ResetRules
<1>5. ~announce => held /\ r \in Visible
  <2>1. task[s].status \in {"Active", "Withdrawn"}
    BY <1>3 DEF Storing
  <2>2. ~announce => r \in Visible
    BY <1>2, <2>1
  <2>3. r \in Visible => rec[r] = "Active"
    BY DEF Visible
  <2>. QED
    BY <2>2, <2>3
<1> HIDE DEF r, announce, held, delta
<1>6. task'[s] = [at |-> "count", delta |-> delta] /\ \A u \in Tasks \ {s} : task'[u] = task[u]
  BY <1>1, TaskGoes
<1>7. task'[s].at = "count" /\ task'[s].delta = delta
  BY SMTT(30), <1>6
<1>8. NoneAt("count")
  BY <1>1 DEF LocksInv, FlowLockInv, HoldsFlow, NoneAt
<1>9. VisibleRules' = IF announce THEN VisibleRules \cup {r} ELSE VisibleRules \ {r}
  BY <1>2, <1>3 DEF VisibleRules
<1>10. IsFiniteSet(VisibleRules) /\ (r \in VisibleRules <=> r \in Visible)
  BY <1>2, FiniteTable DEF VisibleRules
<1>11. Cardinality(VisibleRules) \in Nat
  BY <1>10, FS_CardinalityType
<1>12. Moved(Cardinality(VisibleRules), delta) = Cardinality(VisibleRules)'
  <2>1. CASE announce /\ r \in Visible
    <3>1. delta = "none" /\ VisibleRules' = VisibleRules
      BY <1>4, <1>9, <1>10, <2>1 DEF delta, Upserted
    <3>. QED
      BY <3>1 DEF Moved
  <2>2. CASE announce /\ r \notin Visible
    <3>1. delta = "add" /\ VisibleRules' = VisibleRules \cup {r}
      BY <1>4, <1>9, <2>2 DEF delta, Upserted
    <3>2. Cardinality(VisibleRules \cup {r}) = Cardinality(VisibleRules) + 1
      BY <1>10, <2>2, FS_AddElement
    <3>. QED
      BY <3>1, <3>2 DEF Moved
  <2>3. CASE ~announce
    <3>1. delta = "sub" /\ VisibleRules' = VisibleRules \ {r} /\ r \in VisibleRules
      BY <1>5, <1>9, <1>10, <2>3 DEF delta, Removed
    <3>2. Cardinality(VisibleRules \ {r}) = Cardinality(VisibleRules) - 1
      BY <1>10, <3>1, FS_RemoveElement
    <3>3. Cardinality(VisibleRules \ {r}) \in Nat
      BY <1>10, FS_Subset, FS_CardinalityType
    <3>4. Minus(Cardinality(VisibleRules), 1) = Cardinality(VisibleRules) - 1
      BY SMTT(30), <1>11, <3>2, <3>3 DEF Minus
    <3>. QED
      BY <3>1, <3>2, <3>4 DEF Moved
  <2>. QED
    BY <2>1, <2>2, <2>3
<1>. QED
  BY <1>6, <1>7, <1>8, <1>12

(* Storing a rule: a count that was right is right once it is counted.     *)
LEMMA CountStore ==
    ASSUME ~Stray, TableInv, LocksInv, CountInv, NEW s \in RibSessions, FlowStore(s)
    PROVE  CountInv'
<1>1. /\ NoneAt("count") /\ task'[s].at = "count"
      /\ \A u \in Tasks \ {s} : task'[u] = task[u]
      /\ Moved(Cardinality(VisibleRules), task'[s].delta) = Cardinality(VisibleRules)'
  BY StoreSettles
<1>2. task[s].at = "store" /\ rules' = rules /\ s \in Tasks
  BY DEF FlowStore, Tasks
<1>3. ASSUME NEW n, Settles(n) PROVE Settles(n)'
  <2>1. n = Cardinality(VisibleRules)
    BY <1>1, <1>3 DEF Settles, NoneAt, Tasks
  <2>. QED
    BY <1>1, <2>1 DEF Settles
<1>4. ~NoneAt("count")' /\ (~NoneAt("release") => ~NoneAt("release")')
  BY <1>1, <1>2 DEF NoneAt
<1>5. \A u \in Tasks : Recounting(u) => Recounting(u)'
  BY <1>1, <1>2 DEF Recounting
<1>6. ASSUME NEW u \in Tasks, task'[u].at \in {"set", "recheck"}, task'[u].stale = FALSE
      PROVE  Settles(task[u].found)' \/ ~NoneAt("release")'
  <2>1. u # s /\ task'[u] = task[u]
    BY <1>1, <1>6
  <2>2. PICK n : n = task[u].found
    OBVIOUS
  <2>3. Settles(n) \/ ~NoneAt("release")
    BY <1>6, <2>1, <2>2 DEF CountInv
  <2>4. Settles(n)' => Settles(task[u].found)'
    BY <2>1, <2>2 DEF Settles
  <2>. QED
    BY <1>3, <1>4, <2>3, <2>4
<1>7. Settles(rules)' \/ \E u \in Tasks : Recounting(u)'
  <2>1. PICK n : n = rules
    OBVIOUS
  <2>2. Settles(n) \/ \E u \in Tasks : Recounting(u)
    BY <2>1 DEF CountInv
  <2>3. Settles(n)' => Settles(rules)'
    BY <1>2, <2>1 DEF Settles
  <2>. QED
    BY <1>3, <1>5, <2>2, <2>3
<1>. QED
  BY <1>4, <1>6, <1>7 DEF CountInv

(* The rule is counted: what other tasks found meanwhile is stale.         *)
LEMMA CountCounted ==
    ASSUME TableInv, LocksInv, CountInv, NEW s \in RibSessions, FlowCount(s)
    PROVE  CountInv'
<1>1. /\ task[s].at = "count" /\ Ends(s, Idle)
      /\ rules' = Moved(rules, task[s].delta) /\ UNCHANGED <<rec, hidden>> /\ s \in Tasks
  BY DEF FlowCount, Tasks, Ends
<1>2. Idle \in Bare /\ Idle.at = "idle" /\ RibTypeOK
  BY DEF Idle, Bare, TableInv
<1>3. /\ task'[s] = Idle
      /\ \A u \in Tasks \ {s} :
            /\ task'[u].at = task[u].at
            /\ task[u].at \in {"walk", "check", "set", "recheck"} => task'[u].stale = TRUE
  BY <1>1, <1>2, MutationEnds
<1>4. \A u \in Tasks \ {s} : task[u].at # "count"
  BY <1>1 DEF LocksInv, FlowLockInv, HoldsFlow
<1>5. NoneAt("count")'
  BY <1>2, <1>3, <1>4 DEF NoneAt
<1>6. \A u \in Tasks : task'[u].at \in {"check", "set", "recheck"} => task'[u].stale # FALSE
  BY <1>2, <1>3
<1>7. CASE Settles(rules)
  <2>1. Moved(rules, task[s].delta) = Cardinality(VisibleRules)
    BY <1>1, <1>4, <1>7 DEF Settles, NoneAt, Tasks
  <2>2. Settles(rules)'
    BY <1>1, <1>5, <2>1, VisibleSame DEF Settles
  <2>. QED
    BY <1>6, <2>2 DEF CountInv
<1>8. CASE \E u \in Tasks : Recounting(u)
  <2>1. PICK u \in Tasks : Recounting(u)
    BY <1>8
  <2>2. u # s
    BY <1>1, <2>1 DEF Recounting
  <2>3. Recounting(u)'
    BY <1>3, <2>1, <2>2 DEF Recounting
  <2>. QED
    BY <1>6, <2>3 DEF CountInv
<1>. QED
  BY <1>7, <1>8 DEF CountInv

(* A bulk operation will count again, and none that counts meanwhile ends  *)
(* before it has released its lock.                                        *)
LEMMA CountBulk ==
    ASSUME TableInv, CountInv, NEW t \in Tasks, BulkApply(t) \/ BulkEnd(t)
    PROVE  CountInv'
<1>0. RibTypeOK /\ task \in [Tasks -> TaskStates]
  BY DEF TableInv, RibTypeOK
<1>1. CASE BulkApply(t)
  <2>1. task' = [task EXCEPT ![t] = [at |-> "release"]]
    BY <1>1 DEF BulkApply
  <2>2. task'[t].at = "release"
    BY <1>0, <2>1
  <2>3. ~NoneAt("release")' /\ Recounting(t)'
    BY <2>2 DEF NoneAt, Recounting
  <2>. QED
    BY <2>3 DEF CountInv
<1>2. CASE BulkEnd(t)
  <2> DEFINE x == [at |-> "generation"]
  <2>1. Ends(t, x)
    BY <1>2 DEF BulkEnd, Ends
  <2>2. x \in Bare /\ x.at = "generation"
    BY DEF Bare
  <2> HIDE DEF x
  <2>3. /\ task'[t] = x
        /\ \A u \in Tasks \ {t} :
            /\ task'[u].at = task[u].at
            /\ task[u].at \in {"walk", "check", "set", "recheck"} => task'[u].stale = TRUE
    BY <1>0, <2>1, <2>2, MutationEnds
  <2>4. Recounting(t)'
    BY <2>2, <2>3 DEF Recounting
  <2>5. \A u \in Tasks : task'[u].at \in {"check", "set", "recheck"} => task'[u].stale # FALSE
    BY <2>2, <2>3
  <2>. QED
    BY <2>4, <2>5 DEF CountInv
<1>. QED
  BY <1>1, <1>2

(* active_writers at zero: no rule is stored and not counted, and no bulk  *)
(* operation has changed the stores and not ended.                         *)
LEMMA NoWriters ==
    ASSUME LocksInv, writers = 0
    PROVE  NoneAt("count") /\ NoneAt("release")
<1>1. ~\E t \in Tasks : HoldsFlow(t)
  BY SMTT(30) DEF LocksInv, FlowHeld, BulkHeld
<1>2. ~\E t \in Tasks : HoldsBulk(t)
  BY SMTT(30) DEF LocksInv, FlowHeld, BulkHeld
<1>. QED
  BY <1>1, <1>2 DEF NoneAt, HoldsFlow, HoldsBulk

(* recount_flowspec_rules: a count is stored only if no mutation was under *)
(* way or ended since the walk, and is taken again if one ended before the *)
(* second look.                                                            *)
LEMMA CountRecount ==
    ASSUME TableInv, LocksInv, CountInv, NEW t \in Tasks,
           \/ RecountGeneration(t) \/ RecountWalk(t) \/ RecountCheck(t)
           \/ RecountSet(t) \/ RecountRecheck(t)
    PROVE  CountInv'
<1>1. UNCHANGED <<rec, hidden>>
  BY DEF RecountGeneration, RecountWalk, RecountCheck, RecountSet, RecountRecheck
<1>2. Cardinality(VisibleRules)' = Cardinality(VisibleRules)
  BY <1>1, VisibleSame
<1>3. \A u \in Tasks \ {t} : task'[u] = task[u]
  BY RecountMoves
<1>4. {task[t].at, task'[t].at} \cap {"count", "release"} = {}
  <2>1. task[t].at \in {"generation", "walk", "check", "set", "recheck"}
    BY DEF RecountGeneration, RecountWalk, RecountCheck, RecountSet, RecountRecheck
  <2>2. task'[t].at \notin {"store", "count", "bulk", "apply", "release"}
    BY RecountMoves
  <2>. QED
    BY <2>1, <2>2
<1>5. \A u \in Tasks \ {t} : Recounting(u) => Recounting(u)'
  BY <1>3 DEF Recounting
<1>6. CASE RecountGeneration(t)
  <2>1. task'[t].at = "walk"
    BY <1>6, RecountMoves
  <2>2. Recounting(t)'
    BY <2>1 DEF Recounting
  <2>. QED
    BY <1>2, <1>3, <1>4, <2>1, <2>2, CountMoves
<1>7. CASE RecountWalk(t)
  <2>1. task'[t].at = "check" /\ task'[t].found = Cardinality(VisibleRules)
    BY <1>7, RecountMoves
  <2>2. Recounting(t)'
    BY <2>1 DEF Recounting
  <2>. QED
    BY <1>2, <1>3, <1>4, <2>1, <2>2, CountMoves
<1>8. CASE RecountCheck(t)
  <2>1. CASE task'[t].at = "generation"
    <3>1. Recounting(t)'
      BY <2>1 DEF Recounting
    <3>. QED
      BY <1>2, <1>3, <1>4, <2>1, <3>1, CountMoves
  <2>2. CASE Quiescent(t) /\ task'[t].at = "set" /\ task'[t].found = task[t].found
    <3>1. Recounting(t)'
      BY <2>2 DEF Recounting
    <3>2. NoneAt("count") /\ NoneAt("release")
      BY <2>2, NoWriters DEF Quiescent
    <3>3. task[t].at = "check" /\ task[t].stale = FALSE
      BY <1>8, <2>2 DEF RecountCheck, Quiescent
    <3>4. task'[t].found = Cardinality(VisibleRules)
      BY <2>2, <3>2, <3>3 DEF CountInv
    <3>5. Settles(task'[t].found)
      BY <3>2, <3>4 DEF Settles
    <3>. QED
      BY <1>2, <1>3, <1>4, <2>2, <3>1, <3>5, CountMoves
  <2>. QED
    BY <1>8, <2>1, <2>2, RecountMoves
<1>9. CASE RecountSet(t)
  <2>1. /\ task'[t].at = "recheck" /\ task'[t].stale = task[t].stale
        /\ task'[t].found = task[t].found
    BY <1>9, RecountMoves
  <2>2. task[t].at = "set" /\ rules' = task[t].found
    BY <1>9 DEF RecountSet
  <2>3. CASE task[t].stale # FALSE
    <3>1. Recounting(t)'
      BY <2>1, <2>3 DEF Recounting
    <3>. QED
      BY <1>2, <1>3, <1>4, <2>1, <2>3, <3>1, CountMoves
  <2>4. CASE task[t].stale = FALSE
    <3>1. Settles(task[t].found) \/ ~NoneAt("release")
      BY <2>2, <2>4 DEF CountInv
    <3>2. Settles(task'[t].found) \/ ~NoneAt("release")
      BY <2>1, <3>1
    <3>3. Settles(rules') \/ \E u \in Tasks : Recounting(u)'
      <4>1. Settles(rules') <=> Settles(task[t].found)
        BY <2>2
      <4>2. ~NoneAt("release") => \E u \in Tasks : Recounting(u)'
        <5>1. \A u \in Tasks : task[u].at = "release" => u # t /\ Recounting(u)
          BY <2>2 DEF Recounting
        <5>. QED
          BY <1>5, <5>1 DEF NoneAt
      <4>. QED
        BY <3>1, <4>1, <4>2
    <3>. QED
      BY <1>2, <1>3, <1>4, <2>1, <3>2, <3>3, CountMoves
  <2>. QED
    BY <2>3, <2>4
<1>10. CASE RecountRecheck(t)
  <2>1. CASE task'[t].at = "generation"
    <3>1. Recounting(t)'
      BY <2>1 DEF Recounting
    <3>. QED
      BY <1>2, <1>3, <1>4, <2>1, <3>1, CountMoves
  <2>2. CASE Quiescent(t) /\ task'[t].at = "idle"
    <3>1. task[t].at = "recheck" /\ task[t].stale = FALSE /\ rules' = rules
      BY <1>10, <2>2 DEF RecountRecheck, Quiescent
    <3>2. ~Recounting(t)
      BY <3>1 DEF Recounting
    <3>3. Settles(rules') <=> Settles(rules)
      BY <3>1
    <3>4. Settles(rules') \/ \E u \in Tasks : Recounting(u)'
      BY <1>5, <3>2, <3>3 DEF CountInv
    <3>. QED
      BY <1>2, <1>3, <1>4, <2>2, <3>4, CountMoves
  <2>. QED
    BY <1>10, <2>1, <2>2, RecountMoves
<1>. QED
  BY <1>6, <1>7, <1>8, <1>9, <1>10

(* The count, for every step.                                              *)
LEMMA CountNext ==
    ASSUME ~Stray, TableInv, LocksInv, CountInv, [RibNext]_ribVars
    PROVE  CountInv'
<1>0. /\ RibSessions \subseteq Tasks /\ Collector \in Tasks /\ Idle.at = "idle"
      /\ RibTypeOK /\ task \in [Tasks -> TaskStates]
  BY DEF Tasks, Idle, TableInv, RibTypeOK
<1>1. ASSUME UNCHANGED <<rec, hidden>>
      PROVE  Cardinality(VisibleRules)' = Cardinality(VisibleRules)
  BY <1>1, VisibleSame
<1>2. ASSUME NEW t \in Tasks, NEW x, task' = [task EXCEPT ![t] = x],
             UNCHANGED <<rec, hidden, rules>>, task[t].at \in {"idle", "bulk"},
             x.at \in {"idle", "bulk", "apply", "store"}
      PROVE  CountInv'
  <2>1. task'[t] = x /\ \A u \in Tasks \ {t} : task'[u] = task[u]
    BY <1>2, TaskGoes
  <2>. QED
    BY <1>1, <1>2, <2>1, CountQuiet
<1>3. ASSUME NEW s \in RibSessions, NEW ps \in SUBSET WithPaths(s), NEW b \in BOOLEAN,
             Connect(s, ps, b)
      PROVE  CountInv'
  <2> DEFINE x == IF b THEN Bulk("remove", s, {"session"}) ELSE Idle
  <2>1. task[s] = Idle /\ task' = [task EXCEPT ![s] = x] /\ UNCHANGED <<rec, hidden, rules>>
    BY <1>3 DEF Connect
  <2>2. x.at \in {"idle", "bulk"}
    BY DEF Idle, Bulk
  <2> HIDE DEF x
  <2>. QED
    BY <1>0, <1>2, <2>1, <2>2
<1>4. ASSUME NEW s \in RibSessions, End(s) PROVE CountInv'
  <2> DEFINE x == Bulk("withdraw", s, Muis)
  <2>1. task[s] = Idle /\ task' = [task EXCEPT ![s] = x] /\ UNCHANGED <<rec, hidden, rules>>
    BY <1>4 DEF End
  <2>2. x.at = "bulk"
    BY DEF Bulk
  <2> HIDE DEF x
  <2>. QED
    BY <1>0, <1>2, <2>1, <2>2
<1>5. ASSUME NEW s \in RibSessions, Collect(s) PROVE CountInv'
  <2> DEFINE x == Bulk("remove", s, Muis)
  <2>1. /\ task[Collector] = Idle /\ task' = [task EXCEPT ![Collector] = x]
        /\ UNCHANGED <<rec, hidden, rules>>
    BY <1>5 DEF Collect
  <2>2. x.at = "bulk"
    BY DEF Bulk
  <2> HIDE DEF x
  <2>. QED
    BY <1>0, <1>2, <2>1, <2>2
<1>6. ASSUME NEW s \in RibSessions, NEW r \in RibRoutes, NEW st \in {"Active", "Withdrawn"},
             FlowBegin(s, r, st)
      PROVE  CountInv'
  <2> DEFINE x == [at |-> "store", route |-> r, status |-> st]
  <2>1. task[s] = Idle /\ task' = [task EXCEPT ![s] = x] /\ UNCHANGED <<rec, hidden, rules>>
    BY <1>6 DEF FlowBegin
  <2>2. x.at = "store"
    OBVIOUS
  <2> HIDE DEF x
  <2>. QED
    BY <1>0, <1>2, <2>1, <2>2
<1>7. ASSUME NEW t \in Tasks, BulkBegin(t) PROVE CountInv'
  <2> DEFINE x == [task[t] EXCEPT !.at = "apply"]
  <2>1. /\ task[t].at = "bulk" /\ task' = [task EXCEPT ![t] = x]
        /\ UNCHANGED <<rec, hidden, rules>>
    BY <1>0, <1>7 DEF BulkBegin
  <2>2. task[t] \in Jobs
    BY <1>0, <2>1, TaskShapes
  <2>3. x.at = "apply"
    BY <2>2 DEF Jobs
  <2> HIDE DEF x
  <2>. QED
    BY <1>2, <2>1, <2>3
<1>8. ASSUME UNCHANGED <<task, rules>>, VisibleRules' = VisibleRules PROVE CountInv'
  BY <1>8 DEF CountInv, Settles, NoneAt, Recounting
<1>9. ASSUME NEW s \in RibSessions, NEW r \in RibRoutes, InsertPrefix(s, r) PROVE CountInv'
  <2>1. Visible' = Visible \cup {r} \/ Visible' = Visible \ {r}
    BY <1>0, <1>9, InsertShows, WithdrawHides DEF InsertPrefix
  <2>2. r.family # Flow /\ UNCHANGED <<task, rules>>
    BY <1>9 DEF InsertPrefix
  <2>3. VisibleRules' = VisibleRules
    BY SMTT(30), <2>1, <2>2 DEF VisibleRules
  <2>. QED
    BY <1>8, <2>2, <2>3
<1>10. CASE UNCHANGED ribVars
  BY <1>8, <1>10, VisibleSame DEF ribVars
<1>. QED
  BY <1>3, <1>4, <1>5, <1>6, <1>7, <1>9, <1>10, CountStore, CountCounted, CountBulk,
     CountRecount DEF RibNext

(* Before the first session.                                               *)
LEMMA CountInit == RibInit => LocksInv /\ CountInv
<1> SUFFICES ASSUME RibInit PROVE LocksInv /\ CountInv
  OBVIOUS
<1>1. \A t \in Tasks : task[t].at = "idle"
  BY DEF RibInit, Idle
<1>2. VisibleRules = {}
  BY DEF RibInit, VisibleRules, Visible
<1>3. Cardinality(VisibleRules) = 0 /\ rules = 0
  BY <1>2, FS_EmptySet DEF RibInit
<1>4. FlowLockInv /\ BulkLockInv /\ FlowHeld = 0 /\ BulkHeld = 0 /\ writers = 0
  BY <1>1 DEF FlowLockInv, BulkLockInv, FlowHeld, BulkHeld, HoldsFlow, HoldsBulk, RibInit
<1>5. Settles(rules)
  BY <1>1, <1>3 DEF Settles, NoneAt
<1>. QED
  BY SMTT(30), <1>1, <1>4, <1>5 DEF LocksInv, CountInv

(* recount_flowspec_rules and FlowSpecMutationGuard (rib.rs, flowspec.rs): *)
(* with peers that withdraw only the rules they announced, the gauges and  *)
(* the count of stored rules are what the stores hold whenever no update   *)
(* is in progress, however inserts, bulk operations and recounts overlap.  *)
THEOREM RulesCounted ==
    ASSUME ~Stray
    PROVE  RibSpec => []GaugesExact
<1>1. RibInit => RibInv
  BY TableAndGaugesInit, CountInit DEF RibInv
<1>2. RibInv /\ [RibNext]_ribVars => RibInv'
  BY TableAndGauges, LocksNext, CountNext DEF RibInv
<1>3. RibInv => GaugesExact
  <2> SUFFICES ASSUME RibInv PROVE GaugesExact
    OBVIOUS
  <2>1. GaugeIsTable
    BY DEF RibInv, TableInv, RibTypeOK, GaugeInv, GaugeIsTable, Shown
  <2>2. ASSUME \A t \in Tasks : task[t] = Idle PROVE rules = Cardinality(VisibleRules)
    <3>1. \A t \in Tasks : task[t].at = "idle"
      BY SMTT(30), <2>2 DEF Idle
    <3>2. ~\E t \in Tasks : Recounting(t)
      BY <3>1 DEF Recounting
    <3>3. Settles(rules)
      BY <3>2 DEF RibInv, CountInv
    <3>. QED
      BY <3>1, <3>3 DEF Settles, Tasks
  <2>. QED
    BY <2>1, <2>2 DEF GaugesExact, RuleCountExact
<1>. QED
  BY <1>1, <1>2, <1>3, PTL DEF RibSpec
=============================================================================
