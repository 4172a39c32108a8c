------------------------------ MODULE RibTable ------------------------------
(***************************************************************************)
(* What the RIB promises to whoever reads it: a table of routes, each      *)
(* owned by one session.  A live session adds and withdraws its own routes *)
(* one at a time.  When it ends, all of them go at once, and a session     *)
(* that comes back starts with none.  Rib.tla is shown to implement it.    *)
(***************************************************************************)
CONSTANTS
    Sessions,        \* the sessions, of BGP peers or of peers monitored over BMP
    Routes,          \* the routes: [session, mui, family, key]
    SessionOf(_)     \* the session that a route belongs to

VARIABLES
    table,   \* the routes a query, a dump or an exporter can see
    live     \* the sessions that are up

tableVars == <<table, live>>

TableInit == table = {} /\ live = {}

Owned(s) == {r \in table : SessionOf(r) = s}

Up(s) ==
    /\ s \notin live
    /\ Owned(s) = {}
    /\ live' = live \cup {s}
    /\ UNCHANGED table

Announced(r) ==
    /\ SessionOf(r) \in live
    /\ table' = table \cup {r}
    /\ UNCHANGED live

Withdrawn(r) ==
    /\ SessionOf(r) \in live
    /\ table' = table \ {r}
    /\ UNCHANGED live

Down(s) ==
    /\ s \in live
    /\ live' = live \ {s}
    /\ UNCHANGED table

Cleared(s) ==
    /\ s \notin live
    /\ table' = table \ Owned(s)
    /\ UNCHANGED live

TableNext ==
    \/ \E s \in Sessions : Up(s) \/ Down(s) \/ Cleared(s)
    \/ \E r \in Routes : Announced(r) \/ Withdrawn(r)

TableSpec == TableInit /\ [][TableNext]_tableVars
=============================================================================
