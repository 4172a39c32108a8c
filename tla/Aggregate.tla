------------------------------ MODULE Aggregate ------------------------------
(* RouteAggregator of src/units/bmp_tcp_out/bmp_builder.rs: the walk of a  *)
(* dump adds the stored routes, and then the rules, to groups that share a *)
(* peer, a family and a set of attributes; a group leaves as one UPDATE    *)
(* when it is full, when the memory budget is exceeded, when another set   *)
(* of attributes has its hash, and at the end.  The client may go away at  *)
(* any message.                                                            *)
EXTENDS BmpWire, FiniteSetsExt

CONSTANTS
    AggItems,      \* routes and rules: a record of BmpWire with ingress, hash and name
    AggMaxBytes    \* max_bytes

VARIABLES
    unwalked,   \* items that the walk has still to come to
    groups,     \* the open groups, by key
    buffered,   \* buffered_bytes
    emitted,    \* messages handed to the sink: [key, blob, items, len]
    oversized,  \* items dropped because they fit no message
    step        \* walk, evict, flush, done, or gone with the client

aggVars == <<unwalked, groups, buffered, emitted, oversized, step>>

AggMemPerPrefix == 32
AggMemPerGroup == 128

IsFlow(r) == r.family[2] = 133

\* Unicast and FlowSpec groups live in two maps with keys of one shape.
GroupKey(r) == [flow |-> IsFlow(r), ingress |-> r.ingress, v4 |-> r.family[1] = 1,
                pid |-> r.pid, hash |-> r.hash]

ItemNlri(r) == IF IsFlow(r) THEN FlowNlriLen(r) ELSE NlriLen(r)
SumOver(f(_), S) == MapThenSumSet(f, S)

\* The length of the UPDATE without NLRI.
UnicastBase(r) ==
    19 + 2 + 2 + AttrsLen(Verbatims(r.blob))
    + IF r.family = Ipv4Unicast THEN 0 ELSE 4 + (2 + 1 + 1 + NextHopLen(r.blob) + 1)
FlowBase(r) == 19 + 2 + 2 + AttrsLen(Verbatims(r.blob)) + 4 + 5

NewGroup(r) == [blob |-> r.blob, items |-> {}, nlri |-> 0, base |-> IF IsFlow(r) THEN FlowBase(r) ELSE UnicastBase(r)]

\* FsAggGroup::cost counts the octets of the rules as well.
FlowCost(g) == AggMemPerGroup + SumOver(LAMBDA r : AggMemPerPrefix + r.raw, g.items)
Cost(k, g) == IF k.flow THEN FlowCost(g)
                        ELSE AggMemPerGroup + AggMemPerPrefix * Cardinality(g.items)

\* What is written: both encoders take the long header of MP_REACH_NLRI.
AttrsAndHeader(g) == 19 + 2 + 2 + AttrsLen(Verbatims(g.blob))
FlowEncodedLen(g) == AttrsAndHeader(g) + 4 + (2 + 1 + 1 + 1) + SumOver(FlowNlriWritten, g.items)
UnicastEncodedLen(k, g) ==
    AttrsAndHeader(g) + SumOver(NlriLen, g.items)
    + IF k.v4 THEN 0 ELSE 4 + 2 + 1 + 1 + NextHopLen(g.blob) + 1
EncodedLen(k, g) == IF k.flow THEN FlowEncodedLen(g) ELSE UnicastEncodedLen(k, g)

EmitOf(k, g) == [key |-> k, blob |-> g.blob, items |-> g.items, len |-> EncodedLen(k, g)]

\* The message of build_route_monitoring for a route that fits no group.
SingleOf(r) == [key |-> GroupKey(r), blob |-> r.blob, items |-> {r}, len |-> AnnounceLen(r)]

-----------------------------------------------------------------------------
AggInit ==
    /\ unwalked = AggItems /\ groups = <<>> /\ buffered = 0
    /\ emitted = {} /\ oversized = {} /\ step = "walk"

Without1(f, k) == [x \in DOMAIN f \ {k} |-> f[x]]
With1(f, k, v) == [x \in DOMAIN f \cup {k} |-> IF x = k THEN v ELSE f[x]]

\* The sink takes every message, or the first few and then reports that the
\* consumer is gone: the walk stops, and the aggregator goes with it.
Sink(messages, g, bytes, next) ==
    \/ /\ emitted' = emitted \cup ToSet(messages)
       /\ groups' = g /\ buffered' = bytes /\ step' = next
    \/ /\ messages # <<>>
       /\ \E n \in 0 .. Len(messages) - 1 : emitted' = emitted \cup ToSet(SubSeq(messages, 1, n))
       /\ groups' = <<>> /\ buffered' = 0 /\ step' = "gone"

\* The group that the item joins.  A group with another set of attributes
\* under the same hash is displaced; either way it is counted out first.
OpenGroup(r) ==
    LET k == GroupKey(r)
    IN  IF k \in DOMAIN groups /\ groups[k].blob = r.blob THEN groups[k] ELSE NewGroup(r)

Uncounted(k) == IF k \in DOMAIN groups THEN buffered - Cost(k, groups[k]) ELSE buffered

\* Replaced without being sent.
DisplacedLost(r) == <<>>

Displaced(r) ==
    LET k == GroupKey(r)
    IN  IF k \in DOMAIN groups /\ groups[k].blob # r.blob THEN <<EmitOf(k, groups[k])>> ELSE <<>>

Full(g, r) == g.items # {} /\ g.base + g.nlri + ItemNlri(r) > MaxBgpUpdateLen

Reset(g) == [g EXCEPT !.items = {}, !.nlri = 0]

PushItem(g, r) == [g EXCEPT !.items = @ \cup {r}, !.nlri = @ + ItemNlri(r)]

\* The item joins its group, or leaves by itself if it fits none.
Add(r) ==
    LET k == GroupKey(r)
        open == OpenGroup(r)
        full == Full(open, r)
        g == IF full THEN Reset(open) ELSE open
        before == Displaced(r) \o IF full THEN <<EmitOf(k, open)>> ELSE <<>>
        alone == g.items = {} /\ g.base + ItemNlri(r) > MaxBgpUpdateLen
        pushed == PushItem(g, r)
        bytes == Uncounted(k) + Cost(k, pushed)
    IN  /\ step = "walk" /\ r \in unwalked
        /\ unwalked' = unwalked \ {r}
        /\ oversized' = IF alone /\ TooLong(r) THEN oversized \cup {r} ELSE oversized
        /\ IF alone
           THEN Sink(before \o IF TooLong(r) THEN <<>> ELSE <<SingleOf(r)>>,
                     Without1(groups, k), Uncounted(k), "walk")
           ELSE Sink(before, With1(groups, k, pushed), bytes,
                     IF bytes > AggMaxBytes THEN "evict" ELSE "walk")

AddRoute(r) == ~IsFlow(r) /\ Add(r)

\* The walk of the rules begins when that of the routes is over.
AddFlowspec(r) == IsFlow(r) /\ (\A s \in unwalked : IsFlow(s)) /\ Add(r)

\* One turn of evict_until_under_budget: unicast groups first, the fullest
\* ones before the others, down to half the budget.
Target == AggMaxBytes \div 2
Fullest(K) == {k \in K : \A x \in K : Cardinality(groups[x].items) <= Cardinality(groups[k].items)}
OfKind(flow) == {k \in DOMAIN groups : k.flow = flow}

Victims == IF OfKind(FALSE) # {} THEN Fullest(OfKind(FALSE)) ELSE Fullest(OfKind(TRUE))

Evict ==
    /\ step = "evict"
    /\ \/ /\ buffered > Target
          /\ \E k \in Victims : Sink(<<EmitOf(k, groups[k])>>, Without1(groups, k),
                                     buffered - Cost(k, groups[k]), "evict")
       \/ /\ buffered <= Target \/ Victims = {}
          /\ Sink(<<>>, groups, buffered, "walk")
    /\ UNCHANGED <<unwalked, oversized>>

\* flush_all, one group after the other: the unicast ones first.
FlushAll ==
    /\ step = "walk" /\ unwalked = {} /\ step' = "flush"
    /\ UNCHANGED <<unwalked, groups, buffered, emitted, oversized>>

FlushOne ==
    /\ step = "flush"
    /\ \E k \in IF OfKind(FALSE) # {} THEN OfKind(FALSE) ELSE OfKind(TRUE) :
          Sink(<<EmitOf(k, groups[k])>>, Without1(groups, k), buffered - Cost(k, groups[k]), "flush")
    /\ UNCHANGED <<unwalked, oversized>>

Flushed ==
    /\ step = "flush" /\ groups = <<>> /\ step' = "done" /\ buffered' = 0
    /\ UNCHANGED <<unwalked, groups, emitted, oversized>>

AggNext ==
    \/ \E r \in AggItems : AddRoute(r)
    \/ \E r \in AggItems : AddFlowspec(r)
    \/ Evict
    \/ FlushAll
    \/ FlushOne
    \/ Flushed

AggSpec == AggInit /\ [][AggNext]_aggVars

-----------------------------------------------------------------------------
(* Properties *)

\* buffered_bytes, counted up and down around every add, displacement,
\* eviction and flush, is the cost of the open groups, so that the budget is
\* about the memory held; and no add returns with more than the budget held.
BudgetHolds ==
    /\ buffered = SumOver(LAMBDA k : Cost(k, groups[k]), DOMAIN groups)
    /\ step = "walk" => buffered <= AggMaxBytes

\* No message of RouteAggregator exceeds the length that the OPENs negotiated,
\* and the length that add counts with is the length that emit writes.
MessagesFit ==
    /\ \A m \in emitted : m.items # {} /\ m.len <= MaxBgpUpdateLen
    /\ \A k \in DOMAIN groups : groups[k].base + groups[k].nlri = EncodedLen(k, groups[k])

\* The routes of one message share their peer, family and attributes, and
\* carry path identifiers all or none.
MessagesUniform ==
    \A m \in emitted : \A r \in m.items : GroupKey(r) = m.key /\ r.blob = m.blob

\* Every route of the walk is in one place: a single message, a single open
\* group, or dropped because no UPDATE can hold it.  A client that stays
\* receives every other route exactly once.
Batches == {m.items : m \in emitted} \cup {groups[k].items : k \in DOMAIN groups}
           \cup {unwalked, oversized}
EachRouteOnce ==
    /\ Cardinality(UNION Batches)
       = Cardinality(unwalked) + Cardinality(oversized)
         + SumOver(LAMBDA m : Cardinality(m.items), emitted)
         + SumOver(LAMBDA k : Cardinality(groups[k].items), DOMAIN groups)
    /\ step # "gone" => UNION Batches = AggItems
    /\ \A r \in oversized : TooLong(r)
    /\ step = "done" => unwalked = {} /\ groups = <<>>

\* RouteAggregator only repacks: the messages hold the routes of the walk, each
\* once, with its own attributes, in the room and the memory there is (add,
\* emit, evict, flush).
AggregationExact == EachRouteOnce /\ MessagesUniform /\ MessagesFit /\ BudgetHolds
=============================================================================
