------------------------------ MODULE BestPath ------------------------------
(***************************************************************************)
(* Best path selection at query time (src/src/units/rib_unit/best_path.rs, *)
(* Rib::best_path).  The ranking itself is routecore's (external); the     *)
(* module assembles the candidates, sorts them and explains the outcome.   *)
(*                                                                         *)
(* A query is a sequence of records in the order of the store, a strategy, *)
(* and the number of alternatives wanted.  A record is                     *)
(*   [child, info, parent, parses, hasOrigin, hasPath, path, as4,          *)
(*    origin, lp, med, originator, clusters]                               *)
(* with info and parent the register's entries of its mui and of that      *)
(* one's session: [known, addr, local, remote, id], 0 for what is not      *)
(* known.  A path is a sequence of hops [kind, asns].                      *)
(***************************************************************************)
EXTENDS Integers, Sequences, FiniteSets, FiniteSetsExt

CONSTANTS
    Pool,         \* the records that queries are made of
    MaxRecords,   \* bound: records of a prefix
    UnknownId     \* UNKNOWN_BGP_ID: above every other identifier

VARIABLES records, strategy, howMany

bestVars == <<records, strategy, howMany>>

Strategies == {"rfc4271", "skipMed"}

BestInit == records = <<>> /\ strategy \in Strategies /\ howMany \in {0, 1, MaxRecords}

(* The store returns one more record. *)
OneMore ==
    /\ Len(records) < MaxRecords
    /\ \E r \in Pool : records' = Append(records, r)
    /\ UNCHANGED <<strategy, howMany>>

BestNext == OneMore

BestSpec == BestInit /\ [][BestNext]_bestVars

-----------------------------------------------------------------------------
(* classify                                                                *)

(* RouteSource::resolve: a path of an ADD-PATH peer has its session's info. *)
SessionInfo(r) == IF r.child THEN r.parent ELSE r.info

IsConfed(hop) == hop.kind \in {"confedSequence", "confedSet"}

StripLeadingConfed(path) ==
    LET rest == {i \in DOMAIN path : ~IsConfed(path[i])}
    IN IF path = <<>> \/ ~IsConfed(Head(path)) THEN path
       ELSE IF rest = {} THEN <<>>
       ELSE SubSeq(path, Min(rest), Len(path))

AsPathContains(path, asn) == \E i \in DOMAIN path : asn \in path[i].asns

Confederation(r) == r.hasPath /\ \E i \in DOMAIN r.path : IsConfed(r.path[i])

RouteSourceOf(r) ==
    LET s == SessionInfo(r)
    IN IF Confederation(r) THEN "Ibgp"
       ELSE IF s.local # 0 /\ s.local = s.remote THEN "Ibgp"
       ELSE "Ebgp"

ComparedPath(r) == StripLeadingConfed(r.path)

(* HopPath::neighbor_path_selection: the first hop, if it is a bare AS. *)
PathNeighbour(path) ==
    IF path # <<>> /\ Head(path).kind = "as" THEN CHOOSE a \in Head(path).asns : TRUE ELSE -1

(* OrdRoute::eligible *)
RouteCoreError(r) ==
    IF ~r.hasOrigin THEN "MissingOrigin"
    ELSE IF ~r.hasPath THEN "MissingAsPath"
    ELSE IF RouteSourceOf(r) = "Ebgp" /\ PathNeighbour(ComparedPath(r)) = -1
         THEN "EbgpWithoutNeighbour"
    ELSE "none"

Ineligible(r) ==
    LET s == SessionInfo(r)
    IN IF ~s.known THEN "UnknownIngress"
       ELSE IF s.addr = 0 THEN "UnknownPeerAddress"
       ELSE IF ~r.parses THEN "MalformedPathAttributes"
       ELSE IF s.local # 0 /\ \/ r.hasPath /\ AsPathContains(r.path, s.local)
                              \/ AsPathContains(r.as4, s.local)
            THEN "AsPathLoop"
       ELSE RouteCoreError(r)

Candidates == {i \in DOMAIN records : Ineligible(records[i]) = "none"}

-----------------------------------------------------------------------------
(* The comparison: the lowest value at the first step where two differ.    *)

DegreeOfPreference(r) == IF RouteSourceOf(r) = "Ibgp" THEN r.lp ELSE 0

NeighbourAsn(r) ==
    IF PathNeighbour(ComparedPath(r)) # -1
    THEN PathNeighbour(ComparedPath(r))
    ELSE SessionInfo(r).local

BgpId(r) ==
    IF r.originator # 0 THEN r.originator
    ELSE IF SessionInfo(r).id # 0 THEN SessionInfo(r).id ELSE UnknownId

(* HopPath::hop_count_path_selection *)
HopCount(path) == Cardinality({i \in DOMAIN path : ~IsConfed(path[i])})

PeerType(r) == IF RouteSourceOf(r) = "Ebgp" THEN 0 ELSE 1

Steps == <<"DegreeOfPreference", "AsPathLength", "Origin", "Med", "PeerType", "BgpIdentifier",
           "ClusterListLength", "PeerAddress">>

MedStep == 4

(* The values that routecore's Ord compares, and those that decisive_step  *)
(* does.                                                                   *)
OrdRoute(r) ==
    <<-DegreeOfPreference(r), HopCount(ComparedPath(r)), r.origin, r.med, PeerType(r),
      BgpId(r), r.clusters, SessionInfo(r).addr>>

\* Mutant: the length of the CLUSTER_LIST is compared before the identifier.
ClusterFirst(r) ==
    <<-DegreeOfPreference(r), HopCount(ComparedPath(r)), r.origin, r.med, PeerType(r),
      r.clusters, BgpId(r), SessionInfo(r).addr>>

Decisive(r) ==
    <<-DegreeOfPreference(r), HopCount(ComparedPath(r)), r.origin, r.med, PeerType(r),
      BgpId(r), r.clusters, SessionInfo(r).addr>>

(* The steps at which two routes differ; MEDs count only within one        *)
(* neighbour AS.                                                           *)
Differ(x, y, kx, ky) ==
    {i \in DOMAIN Steps :
        /\ kx[i] # ky[i]
        /\ i = MedStep => strategy = "rfc4271" /\ NeighbourAsn(x) = NeighbourAsn(y)}

(* The first of some steps; 0 if there is none. *)
FirstOf(steps) == IF steps = {} THEN 0 ELSE Min(steps)

LessAt(step, kx, ky) == step # 0 /\ kx[step] < ky[step]
Less(x, y, kx, ky) == LessAt(FirstOf(Differ(x, y, kx, ky)), kx, ky)

(* compare, with the index for what compares equal. *)
Before(i, j) ==
    LET x == records[i]  y == records[j]
    IN \/ Less(x, y, OrdRoute(x), OrdRoute(y))
       \/ ~Less(y, x, OrdRoute(y), OrdRoute(x)) /\ i < j

(* decisive_step: 0 stands for Tie. *)
DecisiveStep(i, j) ==
    FirstOf(Differ(records[i], records[j], Decisive(records[i]), Decisive(records[j])))

EqualThroughStepE(i, j) == DecisiveStep(i, j) \notin 1 .. 5

-----------------------------------------------------------------------------
(* select: sort_by of a short slice is an insertion sort, which moves an   *)
(* index down past those it comes before.                                  *)

InsertedAt(order, i, at) == Append(SubSeq(order, 1, at), i) \o SubSeq(order, at + 1, Len(order))
Inserted(order, i) ==
    InsertedAt(order, i, Max({0} \cup {k \in DOMAIN order : ~Before(i, order[k])}))

(* The ranking of the candidates among the first n records, taken in the   *)
(* sequence `from'.                                                        *)
RankingOf(from) ==
    LET sorted[n \in 0 .. Len(from)] ==
            IF n = 0 THEN <<>>
            ELSE IF from[n] \in Candidates THEN Inserted(sorted[n - 1], from[n])
            ELSE sorted[n - 1]
    IN sorted[Len(from)]

Ranking == RankingOf([i \in DOMAIN records |-> i])

ReportedOf(ranking) == SubSeq(ranking, 1, Min({Len(ranking), howMany + 1}))
Reported == ReportedOf(Ranking)

EqualCost == Cardinality({k \in DOMAIN Reported : k = 1 \/ EqualThroughStepE(Reported[1], Reported[k])})

-----------------------------------------------------------------------------
(* Properties.                                                             *)

(* MEDs of different neighbours do not compare, so with routes of several  *)
(* neighbours of which two are decided by MED the order is not transitive. *)
MedDecides ==
    /\ Cardinality({NeighbourAsn(records[i]) : i \in Candidates}) > 1
    /\ \E i, j \in Candidates : DecisiveStep(i, j) = MedStep

Explains(best, other, step) ==
    IF step = 0 THEN ~Less(best, other, OrdRoute(best), OrdRoute(other))
    ELSE Decisive(best)[step] < Decisive(other)[step]

(* The explanations are true: at the step named for an alternative         *)
(* (lostAt) the best path is the better one, and a tie is named only for a *)
(* route that equals it at every step, unless MEDs break the order         *)
(* (select, decisive_step).                                                *)
BestExplained ==
    ~MedDecides =>
        \A shown \in {Reported} : \A k \in 2 .. Len(shown) :
            Explains(records[shown[1]], records[shown[k]], DecisiveStep(shown[1], shown[k]))

SameAtEveryStep(x, y) == Differ(x, y, OrdRoute(x), OrdRoute(y)) = {}

(* Without MEDs the outcome does not depend on the order in which the      *)
(* store returns the records, except for routes that tie at every step:    *)
(* two neighbouring records can change places (select).                    *)
OrderIrrelevant ==
    strategy = "skipMed" =>
        \A n \in 1 .. Len(records) - 1 :
            LET swapped == [i \in DOMAIN records |-> IF i = n THEN n + 1 ELSE IF i = n + 1 THEN n ELSE i]
            IN \A here \in {Ranking}, there \in {RankingOf(swapped)} : \A k \in DOMAIN here :
                   SameAtEveryStep(records[there[k]], records[here[k]])

(* RFC 5065, section 5.3: the neighbour is the leftmost AS of the first    *)
(* AS_SEQUENCE past the confederation segments, and the local AS when the  *)
(* path has none (classify, strip_leading_confed).                         *)
NeighbourByRfc5065 ==
    \A i \in Candidates :
        LET path == records[i].path
            outside == {k \in DOMAIN path : ~IsConfed(path[k])}
        IN NeighbourAsn(records[i]) =
               IF outside = {} \/ path[Min(outside)].kind # "as"
               THEN SessionInfo(records[i]).local
               ELSE CHOOSE a \in path[Min(outside)].asns : TRUE

(* The selection for one prefix: who is a neighbour, which order follows   *)
(* from it and what is said about it (classify, select, decisive_step).    *)
SelectionSound == BestExplained /\ OrderIrrelevant /\ NeighbourByRfc5065
=============================================================================
