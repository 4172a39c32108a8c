--------------------------------- MODULE Rov ---------------------------------
(***************************************************************************)
(* Route origin validation: the RTR client (src/src/units/rtr/client.rs),  *)
(* the RIB's cache of validated ROA payloads (src/src/units/rib_unit/      *)
(* rpki.rs), and the code of the RIB unit (unit.rs) that applies RTR       *)
(* updates to the cache and to the routes that are stored.                 *)
(*                                                                         *)
(* A prefix is a sequence of bits.  The updates of one RTR unit come one   *)
(* after the other; routes come from other units, on other threads, and    *)
(* the validation of the whole RIB after a full update is a task of its    *)
(* own.  Whoever revalidates a route reads the record, and later writes it *)
(* back with a new status; `held' has the records that were read.          *)
(***************************************************************************)
EXTENDS Naturals, Sequences, FiniteSets

CONSTANTS
    RovPrefixes, RovOrigins,
    RovVrps,      \* the payloads of the relying party: [prefix, asn, max]
    Refused,      \* the payloads for which the vrp_update filter rejects
    Quiet,        \* TRUE: nothing happens between a read and its write
    MaxTurns      \* bound: changes of payloads and routes

VARIABLES
    server,    \* the payloads that the relying party has
    synced,    \* those that the client was told of
    online,    \* down, fresh (the next update is a full one) or current
    lost,      \* the connection to the relying party was lost before
    job,       \* the update in hand: [kind, verbs]
    vrps,      \* the VRP store: a list of max lengths for each prefix and AS
    origins,   \* the cache's set of payloads
    scan,      \* the prefixes that the validation of the whole RIB has yet to read
    routes,    \* the routes in the RIB
    held,      \* records read and not yet written back
    turns

rovVars == <<server, synced, online, lost, job, vrps, origins, scan, routes, held, turns>>

Keys == {<<v.prefix, v.asn>> : v \in RovVrps}

KeyOf(v) == <<v.prefix, v.asn>>

Covers(p, q) == Len(p) <= Len(q) /\ SubSeq(q, 1, Len(p)) = p

Elems(list) == {list[i] : i \in DOMAIN list}

NoRoute == [active |-> FALSE, origin |-> 0, rov |-> "NotChecked"]

NoJob == [kind |-> "none", verbs |-> {}]

RovInit ==
    /\ server \in SUBSET RovVrps /\ synced = {}
    /\ online = "down" /\ lost = FALSE /\ job = NoJob
    /\ vrps = [k \in Keys |-> <<>>] /\ origins = {}
    /\ scan = {} /\ held = {} /\ turns = 0
    /\ routes = [p \in RovPrefixes |-> NoRoute]

Settled == Quiet => held = {}

Turn == turns < MaxTurns /\ turns' = turns + 1

-----------------------------------------------------------------------------
(* The relying party and the client.                                       *)

ServerChanges(v) ==
    /\ Turn
    /\ server' = IF v \in server THEN server \ {v} ELSE server \union {v}
    /\ UNCHANGED <<lost, synced, online, job, vrps, origins, scan, routes, held>>

(* Every connection is made without a state, so it begins with a reset. *)
RtrConnect ==
    /\ online = "down"
    /\ online' = "fresh"
    /\ UNCHANGED <<lost, server, synced, job, vrps, origins, scan, routes, held, turns>>

RtrLost ==
    /\ online # "down" /\ job = NoJob /\ Turn
    /\ online' = "down" /\ lost' = TRUE
    /\ UNCHANGED <<server, synced, job, vrps, origins, scan, routes, held>>

(* An update is complete before it goes to the gate, and applied before    *)
(* the next one is asked for.                                              *)
RtrUpdate ==
    /\ online # "down" /\ job = NoJob
    /\ online = "current" => server # synced
    /\ job' = IF online = "fresh"
              THEN [kind |-> "Full", verbs |-> {<<"Announce", v>> : v \in server}]
              ELSE [kind |-> "Delta",
                    verbs |-> {<<"Announce", v>> : v \in server \ synced}
                              \union {<<"Withdraw", v>> : v \in synced \ server}]
    /\ online' = "current" /\ synced' = server
    /\ UNCHANGED <<lost, server, vrps, origins, scan, routes, held, turns>>

-----------------------------------------------------------------------------
(* RtrCache::check_rov.  A prefix whose list is empty does not cover: the  *)
(* store never removes one.                                                *)
CheckRov(p, origin) ==
    LET covering == {k \in Keys : Covers(k[1], p) /\ vrps[k] # <<>>}
        valid == \E k \in covering : k[2] = origin /\ \E m \in Elems(vrps[k]) : Len(p) <= m
    IN IF covering = {} THEN "NotFound" ELSE IF valid THEN "Valid" ELSE "Invalid"

(* The payloads of a full update are pushed on top of what is there. *)
FullVerb(verb) ==
    /\ job.kind = "Full" /\ verb \in job.verbs
    /\ vrps' = [vrps EXCEPT ![KeyOf(verb[2])] = Append(@, verb[2].max)]
    /\ job' = [job EXCEPT !.verbs = @ \ {verb}]
    /\ UNCHANGED <<lost, server, synced, online, origins, scan, routes, held, turns>>

(* The set is replaced, and the validation of the whole RIB is spawned     *)
(* (bound: one at a time).                                                 *)
FullDone ==
    /\ job.kind = "Full" /\ job.verbs = {} /\ scan = {} /\ Settled
    /\ origins' = synced
    /\ scan' = RovPrefixes
    /\ job' = NoJob
    /\ UNCHANGED <<lost, server, synced, online, vrps, routes, held, turns>>

ScanReads(p) ==
    /\ p \in scan /\ Settled
    /\ scan' = scan \ {p}
    /\ held' = held \union {[by |-> "scan", prefix |-> p, record |-> routes[p]]}
    /\ UNCHANGED <<lost, server, synced, online, job, vrps, origins, routes, turns>>

-----------------------------------------------------------------------------
(* A serial update, one verb after the other.                              *)

Without(list, m) ==
    IF m \in Elems(list)
    THEN LET i == CHOOSE j \in DOMAIN list :
                      list[j] = m /\ \A k \in 1 .. (j - 1) : list[k] # m
         IN SubSeq(list, 1, i - 1) \o SubSeq(list, i + 1, Len(list))
    ELSE list

Applied(verb, list) ==
    LET m == verb[2].max
    IN IF verb[1] = "Withdraw"
       THEN Without(list, m)
       ELSE IF m \in Elems(list) THEN list ELSE Append(list, m)

\* Mutant: only the routes for the very prefix of the payload are revalidated.
ExactRoutes(verb) == {p \in RovPrefixes : routes[p].active /\ p = verb[2].prefix}

(* The records for the prefix of the payload and for those it covers, all  *)
(* read by one query.                                                      *)
AffectedRoutes(verb) == {p \in RovPrefixes : routes[p].active /\ Covers(verb[2].prefix, p)}

DeltaVerb(verb) ==
    /\ job.kind = "Delta" /\ verb \in job.verbs /\ Settled
    /\ \A h \in held : h.by # "delta"
    /\ vrps' = [vrps EXCEPT ![KeyOf(verb[2])] = Applied(verb, @)]
    /\ origins' = IF verb[1] = "Announce" THEN origins \union {verb[2]} ELSE origins \ {verb[2]}
    /\ held' = IF verb[2] \in Refused THEN held
               ELSE held \union {[by |-> "delta", prefix |-> p, record |-> routes[p]] :
                                     p \in AffectedRoutes(verb)}
    /\ job' = IF job.verbs = {verb} THEN NoJob ELSE [job EXCEPT !.verbs = @ \ {verb}]
    /\ UNCHANGED <<lost, server, synced, online, scan, routes, turns>>

(* The record as it was read, with the status by the cache as it is now.   *)
WritesBack(h) ==
    /\ h \in held
    /\ routes' = IF h.by = "insert"
                 THEN [routes EXCEPT ![h.prefix] = h.record]
                 ELSE IF h.record = NoRoute THEN routes
                 ELSE [routes EXCEPT ![h.prefix] =
                          [h.record EXCEPT !.rov = CheckRov(h.prefix, h.record.origin)]]
    /\ held' = held \ {h}
    /\ UNCHANGED <<lost, server, synced, online, job, vrps, origins, scan, turns>>

-----------------------------------------------------------------------------
(* Routes: the filter of the example configuration validates an incoming   *)
(* route (rpki.check_rov), and then it is inserted.                        *)

RouteArrives(p, origin) ==
    /\ Turn /\ Settled /\ \A h \in held : h.by # "insert"
    /\ held' = held \union {[by |-> "insert", prefix |-> p,
                             record |-> [active |-> TRUE, origin |-> origin,
                                         rov |-> CheckRov(p, origin)]]}
    /\ UNCHANGED <<lost, server, synced, online, job, vrps, origins, scan, routes>>

(* The withdrawal of an insert in hand comes after it. *)
RouteWithdrawn(p) ==
    /\ Turn /\ Settled /\ routes[p].active /\ \A h \in held : h.by # "insert"
    /\ routes' = [routes EXCEPT ![p].active = FALSE]
    /\ UNCHANGED <<lost, server, synced, online, job, vrps, origins, scan, held>>

-----------------------------------------------------------------------------
RovNext ==
    \/ \E v \in RovVrps : ServerChanges(v)
    \/ RtrConnect \/ RtrLost \/ RtrUpdate
    \/ \E verb \in job.verbs : FullVerb(verb) \/ DeltaVerb(verb)
    \/ FullDone
    \/ \E p \in RovPrefixes :
           \/ ScanReads(p)
           \/ RouteWithdrawn(p)
           \/ \E o \in RovOrigins : RouteArrives(p, o)
    \/ \E h \in held : WritesBack(h)

RovSpec == RovInit /\ [][RovNext]_rovVars

-----------------------------------------------------------------------------
(* Properties.                                                             *)

(* RFC 6811, for a set of payloads. *)
Rfc6811(p, origin, payloads) ==
    LET covering == {v \in payloads : Covers(v.prefix, p)}
    IN IF covering = {} THEN "NotFound"
       ELSE IF \E v \in covering : v.asn = origin /\ Len(p) <= v.max THEN "Valid"
       ELSE "Invalid"

AtRest == job = NoJob /\ scan = {} /\ held = {}

(* The payloads that check_rov finds. *)
InStore == {v \in RovVrps : v.max \in Elems(vrps[KeyOf(v)])}

(* When all work is done, every active route has the status that RFC 6811  *)
(* gives it under the payloads in the store, whichever of a serial update, *)
(* the validation of the whole RIB and the route came first (check_rov,    *)
(* the handling of Update::Rtr).  Between updates that store has all the   *)
(* payloads of the cache's set, with which the code that applies a serial  *)
(* update compares it ("tmp check with the HashSet"), and no others as     *)
(* long as the connection to the relying party lasts.                      *)
RovCurrent ==
    /\ AtRest /\ online = "current" =>
          \A p \in RovPrefixes :
              routes[p].active => routes[p].rov = Rfc6811(p, routes[p].origin, InStore)
    /\ job = NoJob => origins \subseteq InStore /\ (lost = FALSE => InStore = origins)
=============================================================================
