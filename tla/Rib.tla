-------------------------------- MODULE Rib --------------------------------
(***************************************************************************)
(* The RIB (src/src/units/rib_unit/rib.rs) with the per-peer gauges        *)
(* (src/src/ingress/peer_stats.rs) and the count of stored FlowSpec rules  *)
(* (src/src/units/rib_unit/flowspec.rs).                                   *)
(*                                                                         *)
(* A record is stored under the ingress id (mui) of the session, or of the *)
(* session's path child in a family with ADD-PATH.  Every store keeps, per *)
(* address family, the set of muis that are withdrawn as a whole; such a   *)
(* mui's records stay where they are and are not visible.                  *)
(*                                                                         *)
(* The gate runs the RIB's code in the task of the session that sends the  *)
(* update, so that each session is a task here, next to the task that      *)
(* collects what ended sessions left.  Only a session's own task and,      *)
(* while it is down, the collector touch its records, so that what one     *)
(* insert does to the records of its mui is one step.  The rule count is   *)
(* shared: its protocol is modelled step by step.                          *)
(***************************************************************************)
EXTENDS Naturals, FiniteSets

CONSTANTS
    RibSessions,  \* the sessions
    RibRoutes,    \* the routes they may announce: [session, mui, family, key]
    FamilySets,   \* the sets of families that peers may be configured with
    Stray         \* may a peer withdraw FlowSpec rules it has not announced
                  \* in this session?

VARIABLES
    retain,    \* configuration: retain_withdrawn_attributes
    families,  \* configuration: the families that sessions negotiate
    rec,       \* per route, its record: none, Active or Withdrawn
    hidden,    \* the <<session, mui, family>> whose mui is withdrawn as a whole
    gauge,     \* per session and family, the Adj-RIB-In gauge
    rules,     \* FlowSpecRuleCounts: the stored rules
    writers,   \* FlowSpecRuleCounts: active_writers
    flowLock,  \* is flowspec_lock taken?
    bulkLock,  \* is withdraw_lock taken?
    up,        \* the sessions that are up
    paths,     \* the <<session, family>> that negotiated ADD-PATH
    task       \* per task, where it is

ribConf == <<retain, families>>
ribVars == <<retain, families, rec, hidden, gauge, rules, writers, flowLock, bulkLock,
             up, paths, task>>

Collector == "collector"
Tasks == RibSessions \cup {Collector}
Muis  == {"session", "path"}

ASSUME RibAssumption ==
    /\ Collector \notin RibSessions
    /\ IsFiniteSet(RibRoutes)
    /\ \A r \in RibRoutes : r.session \in RibSessions /\ r.mui \in Muis
    /\ Stray \in BOOLEAN

(* FlowSpec has its own store; the family stands for one address family of *)
(* it, the others for one address family of the unicast or the multicast   *)
(* store: insert_prefix treats them alike.                                 *)
Flow     == "flowspec"
Families == {r.family : r \in RibRoutes} \cup {Flow}

Idle == [at |-> "idle"]

Place(r)      == <<r.session, r.mui, r.family>>
RouteOwner(r) == r.session

Visible == {r \in RibRoutes : rec[r] = "Active" /\ Place(r) \notin hidden}

VisibleRules == {r \in Visible : r.family = Flow}

RibInit ==
    /\ retain \in BOOLEAN /\ families \in FamilySets
    /\ rec = [r \in RibRoutes |-> "none"]
    /\ hidden = {}
    /\ gauge = [s \in RibSessions |-> [f \in Families |-> 0]]
    /\ rules = 0 /\ writers = 0
    /\ flowLock = FALSE /\ bulkLock = FALSE
    /\ up = {} /\ paths = {}
    /\ task = [t \in Tasks |-> Idle]

-----------------------------------------------------------------------------
(* One prefix.                                                             *)

(* The routes that the session's messages can carry: in a family with      *)
(* ADD-PATH every route has a path id, in the others none has.             *)
Carried(s) ==
    {r \in RibRoutes : /\ r.session = s /\ r.family \in families
                       /\ (r.mui = "path") <=> (<<s, r.family>> \in paths)}

(* reset_prefix_family, reset_flowspec_family: what the mui still stores   *)
(* in this family is overwritten before its bit is cleared.                *)
ResetPrefixes(r) ==
    [q \in RibRoutes |-> IF Place(q) = Place(r) /\ rec[q] # "none" THEN "Withdrawn"
                         ELSE rec[q]]

ResetRules(r) == [q \in RibRoutes |-> IF Place(q) = Place(r) THEN "none" ELSE rec[q]]

(* get_session resolves a session's own mui only. *)
ResetGauge(r) ==
    IF r.mui = "session" THEN [gauge EXCEPT ![r.session][r.family] = 0] ELSE gauge

Minus(n, k) == IF n > k THEN n - k ELSE 0

\* Mutant: a bare status check takes a hidden record for an active one.
StatusOnly(r) == rec[r] = "Active"

WasActive(r) == Place(r) \notin hidden /\ rec[r] = "Active"

InsertActive(r) ==
    LET reset == Place(r) \in hidden
        r1    == IF reset THEN ResetPrefixes(r) ELSE rec
        g1    == IF reset THEN ResetGauge(r) ELSE gauge
    IN  /\ reset => bulkLock = FALSE
        /\ rec' = [r1 EXCEPT ![r] = "Active"]
        /\ hidden' = hidden \ {Place(r)}
        /\ gauge' = IF WasActive(r) THEN g1
                    ELSE [g1 EXCEPT ![r.session][r.family] = @ + 1]

InsertWithdrawn(r) ==
    /\ gauge' = IF WasActive(r)
                THEN [gauge EXCEPT ![r.session][r.family] = Minus(@, 1)] ELSE gauge
    /\ rec' = [rec EXCEPT ![r] = IF @ = "none" THEN "none" ELSE "Withdrawn"]
    /\ UNCHANGED hidden

InsertPrefix(s, r) ==
    /\ s \in up /\ task[s] = Idle
    /\ r \in Carried(s) /\ r.family # Flow
    /\ InsertActive(r) \/ InsertWithdrawn(r)
    /\ UNCHANGED <<ribConf, rules, writers, flowLock, bulkLock, up, paths, task>>

-----------------------------------------------------------------------------
(* One FlowSpec rule: a read-modify-write of the mui's rule set under      *)
(* flowspec_lock, inside a mutation of the rule counts.                    *)

(* A task that is counting sees that the generation has moved on. *)
EndMutation(tasks) ==
    [t \in Tasks |-> IF tasks[t].at \in {"walk", "check", "set", "recheck"}
                     THEN [tasks[t] EXCEPT !.stale = TRUE] ELSE tasks[t]]

FlowBegin(s, r, status) ==
    /\ s \in up /\ task[s] = Idle
    /\ r \in Carried(s) /\ r.family = Flow
    /\ status = "Withdrawn" /\ ~Stray => r \in Visible
    /\ flowLock = FALSE
    /\ flowLock' = TRUE
    /\ writers' = writers + 1
    /\ task' = [task EXCEPT ![s] = [at |-> "store", route |-> r, status |-> status]]
    /\ UNCHANGED <<ribConf, rec, hidden, gauge, rules, bulkLock, up, paths>>

(* FlowSpecRuleSet: upsert adds the rule unless it replaces one, remove    *)
(* takes one out if it is there.                                           *)
Upserted(held) == IF held THEN "none" ELSE "add"
Removed(held)  == IF held THEN "sub" ELSE "none"

Moved(n, delta) == CASE delta = "add"  -> n + 1
                     [] delta = "sub"  -> Minus(n, 1)
                     [] delta = "none" -> n

(* The rule set read includes one that is hidden. *)
FlowStore(s) ==
    /\ task[s].at = "store"
    /\ LET r        == task[s].route
           announce == task[s].status = "Active"
           reset    == announce /\ Place(r) \in hidden
           r1       == IF reset THEN ResetRules(r) ELSE rec
           g1       == IF reset THEN ResetGauge(r) ELSE gauge
           held     == r1[r] = "Active"
           delta    == IF announce THEN Upserted(held) ELSE Removed(held)
       IN  /\ reset => bulkLock = FALSE
           /\ hidden' = IF reset THEN hidden \ {Place(r)} ELSE hidden
           /\ rec' = [r1 EXCEPT ![r] = IF announce THEN "Active" ELSE "none"]
           /\ gauge' = [g1 EXCEPT ![s][Flow] = Moved(@, delta)]
           /\ task' = [task EXCEPT ![s] = [at |-> "count", delta |-> delta]]
    /\ UNCHANGED <<ribConf, rules, writers, flowLock, bulkLock, up, paths>>

FlowCount(s) ==
    /\ task[s].at = "count"
    /\ rules' = Moved(rules, task[s].delta)
    /\ writers' = writers - 1
    /\ flowLock' = FALSE
    /\ task' = EndMutation([task EXCEPT ![s] = Idle])
    /\ UNCHANGED <<ribConf, rec, hidden, gauge, bulkLock, up, paths>>

-----------------------------------------------------------------------------
(* Sessions, and what they do to all the records of their muis.            *)

Bulk(op, s, muis) == [at |-> "bulk", op |-> op, session |-> s, muis |-> muis]

(* A session comes up.  A returning BGP session tells the RIB that its     *)
(* ingress reappeared, which removes the records of its mui; a peer        *)
(* monitored over BMP just starts to announce.                             *)
Connect(s, ps, reappeared) ==
    /\ \E r \in RibRoutes : r.session = s /\ r.family \in families
    /\ s \notin up /\ task[s] = Idle /\ task[Collector] = Idle
    /\ up' = up \cup {s}
    /\ paths' = {p \in paths : p[1] # s} \cup ps
    /\ task' = [task EXCEPT ![s] = IF reappeared THEN Bulk("remove", s, {"session"})
                                   ELSE Idle]
    /\ UNCHANGED <<ribConf, rec, hidden, gauge, rules, writers, flowLock, bulkLock>>

\* Mutant: the routes of the path children outlive the session.
EndsOwnMui(s) ==
    /\ s \in up /\ task[s] = Idle
    /\ up' = up \ {s}
    /\ task' = [task EXCEPT ![s] = Bulk("withdraw", s, {"session"})]
    /\ UNCHANGED <<ribConf, rec, hidden, gauge, rules, writers, flowLock, bulkLock, paths>>

(* Its end: Withdraw for the session's mui, or WithdrawBulk for it and its *)
(* path children.                                                          *)
End(s) ==
    /\ s \in up /\ task[s] = Idle
    /\ up' = up \ {s}
    /\ task' = [task EXCEPT ![s] = Bulk("withdraw", s, Muis)]
    /\ UNCHANGED <<ribConf, rec, hidden, gauge, rules, writers, flowLock, bulkLock, paths>>

(* Garbage collection of a session that is down, once: its entries go too. *)
Collect(s) ==
    /\ \E h \in hidden : h[1] = s
    /\ s \notin up /\ task[s] = Idle /\ task[Collector] = Idle
    /\ task' = [task EXCEPT ![Collector] = Bulk("remove", s, Muis)]
    /\ UNCHANGED <<ribConf, rec, hidden, gauge, rules, writers, flowLock, bulkLock,
                   up, paths>>

BulkBegin(t) ==
    /\ task[t].at = "bulk"
    /\ bulkLock = FALSE
    /\ bulkLock' = TRUE
    /\ writers' = writers + 1
    /\ task' = [task EXCEPT ![t].at = "apply"]
    /\ UNCHANGED <<ribConf, rec, hidden, gauge, rules, flowLock, up, paths>>

Affected(r, job) == r.session = job.session /\ r.mui \in job.muis

(* compact_withdrawn_attributes_for_ingresses, unless withdrawn attributes *)
(* are retained: tombstones for the prefixes, empty rule sets for FlowSpec. *)
Tombstone(r) == IF rec[r] = "none" THEN "none" ELSE "Withdrawn"
EmptyRules(r) == "none"

Compacted(job) ==
    [r \in RibRoutes |->
        IF retain \/ ~Affected(r, job) THEN rec[r]
        ELSE IF r.family = Flow THEN EmptyRules(r) ELSE Tombstone(r)]

BulkGauges(job) ==
    IF "session" \notin job.muis THEN gauge
    ELSE [gauge EXCEPT ![job.session] = [f \in Families |-> 0]]

WithoutRecords(job) ==
    [r \in RibRoutes |-> IF Affected(r, job) THEN "none" ELSE rec[r]]

BulkApply(t) ==
    /\ task[t].at = "apply"
    /\ LET job    == task[t]
           places == {job.session} \X job.muis \X Families
       IN  /\ \/ /\ job.op = "withdraw"
                 /\ rec' = Compacted(job)
                 /\ hidden' = hidden \cup places
              \/ /\ job.op = "remove"
                 /\ rec' = WithoutRecords(job)
                 /\ hidden' = hidden \ places
           /\ gauge' = BulkGauges(job)
    /\ task' = [task EXCEPT ![t] = [at |-> "release"]]
    /\ UNCHANGED <<ribConf, rules, writers, flowLock, bulkLock, up, paths>>

BulkEnd(t) ==
    /\ task[t].at = "release"
    /\ writers' = writers - 1
    /\ bulkLock' = FALSE
    /\ task' = EndMutation([task EXCEPT ![t] = [at |-> "generation"]])
    /\ UNCHANGED <<ribConf, rec, hidden, gauge, rules, flowLock, up, paths>>

-----------------------------------------------------------------------------
(* recount_flowspec_rules: count without a lock, and start again if the    *)
(* counts were changed meanwhile.                                          *)

RecountGeneration(t) ==
    /\ task[t].at = "generation"
    /\ writers = 0
    /\ task' = [task EXCEPT ![t] = [at |-> "walk", stale |-> FALSE, found |-> 0]]
    /\ UNCHANGED <<ribConf, rec, hidden, gauge, rules, writers, flowLock, bulkLock,
                   up, paths>>

RecountWalk(t) ==
    /\ task[t].at = "walk"
    /\ task' = [task EXCEPT ![t].at = "check", ![t].found = Cardinality(VisibleRules)]
    /\ UNCHANGED <<ribConf, rec, hidden, gauge, rules, writers, flowLock, bulkLock,
                   up, paths>>

Quiescent(t) == writers = 0 /\ task[t].stale = FALSE

RecountCheck(t) ==
    /\ task[t].at = "check"
    /\ task' = [task EXCEPT ![t] = IF Quiescent(t) THEN [@ EXCEPT !.at = "set"]
                                   ELSE [at |-> "generation"]]
    /\ UNCHANGED <<ribConf, rec, hidden, gauge, rules, writers, flowLock, bulkLock,
                   up, paths>>

RecountSet(t) ==
    /\ task[t].at = "set"
    /\ rules' = task[t].found
    /\ task' = [task EXCEPT ![t].at = "recheck"]
    /\ UNCHANGED <<ribConf, rec, hidden, gauge, writers, flowLock, bulkLock, up, paths>>

RecountRecheck(t) ==
    /\ task[t].at = "recheck"
    /\ task' = [task EXCEPT ![t] = IF Quiescent(t) THEN Idle ELSE [at |-> "generation"]]
    /\ UNCHANGED <<ribConf, rec, hidden, gauge, rules, writers, flowLock, bulkLock,
                   up, paths>>

-----------------------------------------------------------------------------
(* ADD-PATH can be negotiated where the session has routes with path ids. *)
WithPaths(s) == {<<s, r.family>> : r \in {q \in RibRoutes : q.session = s /\ q.mui = "path"}}

RibNext ==
    \/ \E s \in RibSessions :
        \/ \E ps \in SUBSET WithPaths(s), b \in BOOLEAN : Connect(s, ps, b)
        \/ End(s)
        \/ Collect(s)
        \/ \E r \in RibRoutes : InsertPrefix(s, r)
        \/ \E r \in RibRoutes, st \in {"Active", "Withdrawn"} : FlowBegin(s, r, st)
        \/ FlowStore(s)
        \/ FlowCount(s)
    \/ \E t \in Tasks :
        \/ BulkBegin(t) \/ BulkApply(t) \/ BulkEnd(t)
        \/ RecountGeneration(t) \/ RecountWalk(t) \/ RecountCheck(t)
        \/ RecountSet(t) \/ RecountRecheck(t)

RibSpec == RibInit /\ [][RibNext]_ribVars

-----------------------------------------------------------------------------
(* Properties.                                                             *)

(* Readers see a table as in RibTable: a session that reconnects and       *)
(* announces one route after its records were hidden as a whole does not   *)
(* bring back any other (reset_prefix_family, reset_flowspec_family), what *)
(* it announced in another family since then stays, and an ended session's *)
(* routes go together.                                                     *)
Table == INSTANCE RibTable WITH
            Sessions <- RibSessions, Routes <- RibRoutes, SessionOf <- RouteOwner,
            table <- Visible, live <- up

ShowsOneTable == Table!TableSpec

(* The gauge that is exported for a session (insert_prefix and             *)
(* insert_flowspec move it, reset_peer_gauge clears it) is the number of   *)
(* its visible routes, path children included, whenever no update of the   *)
(* session is in progress, and never wraps below zero in between.          *)
GaugeIsTable ==
    \A s \in up : task[s] = Idle =>
        \A f \in Families :
            gauge[s][f] = Cardinality({r \in Visible : r.session = s /\ r.family = f})

(* The stored-rule count is the number of visible rules once no update is  *)
(* in progress, whatever inserts, bulk withdrawals, removals and recounts  *)
(* overlapped: "so the gauges cannot drift" (rib.rs, on                    *)
(* recount_flowspec_rules).                                                *)
RuleCountExact ==
    (\A t \in Tasks : task[t] = Idle) => rules = Cardinality(VisibleRules)

(* What is exported as a gauge can be counted in the store (insert_prefix, *)
(* insert_flowspec, withdraw, recount_flowspec_rules).                     *)
GaugesExact == GaugeIsTable /\ RuleCountExact
=============================================================================
