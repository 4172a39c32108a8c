----------------------------- MODULE FlowValid -----------------------------
(***************************************************************************)
(* Validation of FlowSpec rules by RFC 8955, section 6, and the query that *)
(* refreshes it (validate_flowspec, flowspec_identity and query_flowspec   *)
(* of src/src/units/rib_unit/rib.rs, build_flowspec_response of            *)
(* http_ng.rs).                                                            *)
(*                                                                         *)
(* A prefix is a sequence of bits, <<>> the default route of the family.   *)
(* A unicast route is [prefix, mui, originator, neighbour], a rule         *)
(* [dst, match, mui, originator] with 0 for an attribute that it does not  *)
(* carry and NoDst for a rule without a usable destination prefix.         *)
(***************************************************************************)
EXTENDS Integers, Sequences, FiniteSets, SequencesExt, FiniteSetsExt

CONSTANTS
    FlowRegister,   \* mui -> [parent, id, asn]: parent is the mui itself for a session
    FlowRoutes,     \* unicast routes there can be
    FlowRules,      \* rules there can be
    NoDst,          \* a model value
    MaxRows         \* MAX_FLOWSPEC_HTTP_ROWS

VARIABLES
    unicast,   \* the unicast routes
    flows,     \* the rules that are stored
    outcome,   \* of the query: "none", "rows" or "exceeds"
    answer     \* its rows: a sequence of [rule, validity]

flowVars == <<unicast, flows, outcome, answer>>

FlowInit == unicast = {} /\ flows = {} /\ outcome = "none" /\ answer = <<>>

-----------------------------------------------------------------------------
(* flowspec_identity *)

FlowSessionFor(m) == FlowRegister[m].parent

Originator(x) ==
    IF x.originator # 0 THEN <<"BgpId", x.originator>>
    ELSE IF FlowRegister[FlowSessionFor(x.mui)].id # 0
         THEN <<"BgpId", FlowRegister[FlowSessionFor(x.mui)].id>>
    ELSE <<"Ingress", FlowSessionFor(x.mui)>>

FlowNeighbour(r) ==
    IF r.neighbour # 0 THEN r.neighbour ELSE FlowRegister[FlowSessionFor(r.mui)].asn

(* index_prefix: the key that a rule is stored under. *)
Key(rule) == IF rule.dst = NoDst THEN <<>> ELSE rule.dst

-----------------------------------------------------------------------------
(* The store's longest match with more specifics. *)

FlowCovers(p, q) == IsPrefix(p, q)

LongestMatch(p) ==
    LET covering == {r \in unicast : FlowCovers(r.prefix, p)}
    IN {r \in covering : \A o \in covering : Len(o.prefix) <= Len(r.prefix)}

MoreSpecifics(p) == {r \in unicast : FlowCovers(p, r.prefix) /\ r.prefix # p}

(* (b), given the route that matches the originator. *)
ByNeighbours(rule, best) ==
    IF FlowNeighbour(best) # 0
       /\ \E r \in MoreSpecifics(rule.dst) : FlowNeighbour(r) \notin {0, FlowNeighbour(best)}
    THEN "invalid" ELSE "valid"

(* validate_flowspec: (a) is met by the first record of the same           *)
(* originator, in the order of the store.                                  *)
Validities(rule) ==
    LET matching == {r \in LongestMatch(rule.dst) : Originator(r) = Originator(rule)}
    IN IF rule.dst = NoDst THEN {"unvalidatable"}
       ELSE IF matching = {} THEN {"invalid"}
       ELSE {ByNeighbours(rule, r) : r \in matching}

-----------------------------------------------------------------------------
(* The RIB changes. *)

UnicastChanges(r) ==
    /\ unicast' = IF r \in unicast THEN unicast \ {r} ELSE unicast \cup {r}
    /\ UNCHANGED <<flows, outcome, answer>>

(* insert_flowspec *)
RuleChanges(rule) ==
    /\ flows' = IF rule \in flows THEN flows \ {rule} ELSE flows \cup {rule}
    /\ UNCHANGED <<unicast, outcome, answer>>

(* query_flowspec of a whole table: the result for a key and an originator *)
(* is computed for the first row that has them and shared by the others.   *)
CacheKey(rule) == <<Key(rule), Originator(rule)>>

\* Mutant: the result is shared by all the rules of a key.
KeyOnly(rule) == <<Key(rule), 0>>

SharedBy(rule) == CacheKey(rule)

QueryFlow ==
    /\ flows # {}
    /\ UNCHANGED <<unicast, flows>>
    /\ IF Cardinality(flows) > MaxRows THEN outcome' = "exceeds" /\ UNCHANGED answer
       ELSE outcome' = "rows" /\ \E order \in SetToSeqs(flows) :
            LET first(i) == order[Min({j \in 1 .. i : SharedBy(order[j]) = SharedBy(order[i])})]
            IN \E v \in [{first(i) : i \in DOMAIN order} ->
                         {"valid", "invalid", "unvalidatable"}] :
                   /\ \A x \in DOMAIN v : v[x] \in Validities(x)
                   /\ answer' = [i \in DOMAIN order |->
                                    [rule |-> order[i], validity |-> v[first(i)]]]

FlowNext ==
    /\ outcome = "none"
    /\ \/ \E r \in FlowRoutes : UnicastChanges(r)
       \/ \E r \in FlowRules : RuleChanges(r)
       \/ QueryFlow

FlowValidSpec == FlowInit /\ [][FlowNext]_flowVars

-----------------------------------------------------------------------------
(* Properties.                                                             *)

(* A rule without a destination shares its key with the rules for the      *)
(* default route.                                                          *)
KeyIsShared(rule) == \E o \in flows : CacheKey(o) = CacheKey(rule) /\ o.dst # rule.dst

(* Every row of an answer has a validity by the unicast RIB as it is now,  *)
(* although it was computed for another rule, unless the key stands for    *)
(* two destinations (query_flowspec's validity_cache).                     *)
AnswerIsCurrent ==
    \A i \in DOMAIN answer :
        \/ answer[i].validity \in Validities(answer[i].rule)
        \/ KeyIsShared(answer[i].rule)

(* RFC 8955, section 6: a best match route has the originator of the rule  *)
(* and no more specific route comes from another neighbour AS.             *)
Rfc8955(rule) ==
    \E best \in unicast :
        /\ Originator(best) = Originator(rule)
        /\ FlowCovers(best.prefix, rule.dst)
        /\ \A r \in unicast :
               /\ FlowCovers(r.prefix, rule.dst) => Len(r.prefix) <= Len(best.prefix)
               /\ FlowCovers(rule.dst, r.prefix) /\ r.prefix # rule.dst /\ FlowNeighbour(best) # 0 =>
                      FlowNeighbour(r) \in {0, FlowNeighbour(best)}

(* A rule can be found valid exactly when it is by RFC 8955                *)
(* (validate_flowspec).                                                    *)
ValidByRfc8955 ==
    \A rule \in flows : rule.dst # NoDst => ("valid" \in Validities(rule) <=> Rfc8955(rule))

(* A session and all of its ADD-PATH children count as one peer: a rule    *)
(* validates alike whichever of them it came by (flowspec_identity).       *)
PathsAreOnePeer ==
    \A rule \in flows : \A m \in DOMAIN FlowRegister :
        FlowRegister[m].parent = FlowRegister[rule.mui].parent =>
            Validities([rule EXCEPT !.mui = m]) = Validities(rule)

(* The validity shown with a FlowSpec rule is that of RFC 8955, for the    *)
(* peer it came from, by the routes there are (query_flowspec).            *)
ValidityRight == AnswerIsCurrent /\ ValidByRfc8955 /\ PathsAreOnePeer
=============================================================================
