------------------------------ MODULE MCRoutes ------------------------------
(* What becomes of routes, for TLC: the RIB and its origin validation, the *)
(* queries on it, best paths, the rules' validity, what bmp-tcp-out makes  *)
(* of it, MRT imports, BMP connections, and the two tools.  The modules    *)
(* share no state: a behaviour explores one of them.                       *)
EXTENDS MCWire, Rib, Rov, BestPath, Query, FlowValid, Aggregate, MrtIn, BmpLink, BmpDump,
        CliTree, CliRun

VARIABLE which

-----------------------------------------------------------------------------
(* Rib and Rov *)

RibRoute(s, m, f, k) == [session |-> s, mui |-> m, family |-> f, key |-> k]
SomeRibRoutes ==
    {RibRoute("a", "session", "unicast", "p"), RibRoute("a", "session", "unicast", "q"),
     RibRoute("a", "path", "unicast", "p"), RibRoute("a", "session", "multicast", "p"),
     RibRoute("a", "session", "flowspec", "r"), RibRoute("b", "session", "flowspec", "r")}
SomeFamilies == {{"unicast", "multicast"}, {"flowspec"}}

NestedPrefixes == {<<0>>, <<0, 1>>}
Vrp(p, asn, max) == [prefix |-> p, asn |-> asn, max |-> max]
SomeVrps == {Vrp(<<0>>, 1, 1), Vrp(<<0>>, 1, 2), Vrp(<<0, 1>>, 2, 2)}

-----------------------------------------------------------------------------
(* BestPath: the records of one prefix *)

Info(addr, local, remote, id) ==
    [known |-> TRUE, addr |-> addr, local |-> local, remote |-> remote, id |-> id]
Nowhere == [Info(0, 0, 0, 0) EXCEPT !.known = FALSE]
As(x) == [kind |-> "as", asns |-> {x}]
Confed(x) == [kind |-> "confedSequence", asns |-> {x}]
Rec(info, path, med) ==
    [child |-> FALSE, info |-> info, parent |-> Nowhere, parses |-> TRUE, hasOrigin |-> TRUE,
     hasPath |-> TRUE, path |-> path, as4 |-> <<>>, origin |-> 0, lp |-> 100, med |-> med,
     originator |-> 0, clusters |-> 0]
SomeRecords ==
    {Rec(Info(3, 9, 1, 3), <<As(1), As(5)>>, 0),
     Rec(Info(1, 9, 1, 1), <<As(1), As(5)>>, 1),
     Rec(Info(2, 9, 2, 2), <<As(2), As(5)>>, 0),
     [Rec(Info(4, 9, 2, 0), <<As(2), As(5)>>, 0) EXCEPT !.clusters = 1, !.originator = 1],
     Rec(Info(5, 9, 9, 4), <<Confed(8), Confed(7), As(1), As(5)>>, 1),
     Rec(Info(6, 9, 8, 5), <<Confed(8), Confed(7)>>, 0),
     [Rec(Info(0, 0, 0, 0), <<As(1), As(5)>>, 0)
         EXCEPT !.child = TRUE, !.parent = Info(7, 0, 1, 0)],
     Rec(Info(8, 9, 1, 8), <<As(1), As(9)>>, 0),
     Rec(Info(8, 9, 1, 8), <<[kind |-> "set", asns |-> {1, 2}], As(5)>>, 0),
     [Rec(Info(8, 9, 2, 8), <<As(2)>>, 0) EXCEPT !.hasOrigin = FALSE],
     [Rec(Info(8, 9, 2, 8), <<>>, 0) EXCEPT !.hasPath = FALSE],
     [Rec(Info(8, 9, 2, 8), <<As(2), As(5)>>, 0) EXCEPT !.parses = FALSE],
     Rec(Nowhere, <<As(2), As(5)>>, 0),
     Rec(Info(0, 9, 2, 8), <<As(2), As(5)>>, 0)}

-----------------------------------------------------------------------------
(* Query: a session with a path of its own, a router's peer, and a route   *)
(* whose ingress the register no longer knows                              *)

SomeRegister ==
    [s |-> [type |-> "bgp", parent |-> "none", asn |-> "1"],
     c |-> [type |-> "bgpPath", parent |-> "s", asn |-> "1"],
     v |-> [type |-> "bgpViaBmp", parent |-> "b", asn |-> "2"],
     b |-> [type |-> "bmp", parent |-> "none", asn |-> "none"]]
SomeRoutes == {[prefix |-> "p", mui |-> "c"], [prefix |-> "p", mui |-> "v"],
               [prefix |-> "q", mui |-> "u"]}
SomeTables == {{r \in SomeRoutes : r.mui # "v"}, {}}
Ask(ingress, type, asn, roto) ==
    [ingress |-> ingress, type |-> type, asn |-> asn, roto |-> roto, format |-> "jsonl"]
Plain == Ask("any", "any", "any", "any")
Narrow == Ask("c", "bgp", "any", "any")
SomeFilters ==
    {Plain, Narrow, Ask("any", "bmp", "2", "any"),
     Ask("any", "any", "1", "odd"), Ask("any", "any", "any", "undefined"),
     [Plain EXCEPT !.format = "json"]}

-----------------------------------------------------------------------------
(* FlowValid *)

FlowPeers == [s |-> [parent |-> "s", id |-> 0, asn |-> 1],
              c |-> [parent |-> "s", id |-> 0, asn |-> 1],
              t |-> [parent |-> "t", id |-> 7, asn |-> 2]]
Uni(p, m, o, n) == [prefix |-> p, mui |-> m, originator |-> o, neighbour |-> n]
SomeUnicast == {Uni(<<>>, "s", 0, 0), Uni(<<0>>, "c", 0, 0), Uni(<<0>>, "t", 0, 1),
                Uni(<<0, 1>>, "s", 7, 2), Uni(<<0, 1>>, "t", 0, 0)}
Rule(d, x, m, o) == [dst |-> d, match |-> x, mui |-> m, originator |-> o]
SomeRules == {Rule(<<0>>, "a", "s", 0), Rule(<<0>>, "b", "t", 0), Rule(<<>>, "a", "c", 0),
              Rule(NoDst, "a", "c", 0), Rule(<<0>>, "a", "c", 7)}

-----------------------------------------------------------------------------
(* Aggregate: groups that share a key, a hash or neither, and blobs that   *)
(* fill a message to the last octets                                       *)

Nlri(name, ingress, f, bits, raw, pid, blob) ==
    [name |-> name, ingress |-> ingress, family |-> f, bits |-> bits, raw |-> raw, pid |-> pid,
     hash |-> ingress, blob |-> blob]
Origin == <<At(1, 3, 1, 0, TRUE)>>
Filling == <<At(2, 4, 65499, 0, TRUE)>>
SomeItems ==
    {Nlri("a", 1, Ipv4Unicast, 24, 0, FALSE, Small), Nlri("b", 1, Ipv4Unicast, 16, 0, FALSE, Small),
     Nlri("c", 1, Ipv4Unicast, 24, 0, FALSE, Origin), Nlri("d", 1, Ipv4Unicast, 24, 0, TRUE, Small),
     Nlri("f", 2, Ipv4Unicast, 24, 0, FALSE, Filling),
     Nlri("g", 2, Ipv4Unicast, 32, 0, FALSE, Filling), Nlri("h", 2, Ipv4Unicast, 32, 0, TRUE, Filling),
     Nlri("v", 1, Ipv6Unicast, 48, 0, FALSE, Small), Nlri("x", 1, Ipv4FlowSpec, 0, 20, FALSE, Small),
     Nlri("y", 1, Ipv4FlowSpec, 0, 250, FALSE, Small)}

-----------------------------------------------------------------------------
(* MrtIn: a table dump and update files, whole and spoiled                 *)

MrtRoute(f, x, pid) == [family |-> f, prefix |-> x, pid |-> pid, good |-> TRUE]
Entry(peer, f, x, pid, blob) ==
    [peer |-> peer, family |-> f, prefix |-> x, pid |-> pid, good |-> TRUE,
     bits |-> 48, blob |-> blob]
NextHopOnly(h, v, n) == At(14, h, v, n, TRUE)
MrtUpdate(peer, reach, unreach) ==
    [kind |-> "update", peer |-> peer, reach |-> reach, unreach |-> unreach]
MrtOther(kind, peer) == [MrtUpdate(peer, <<>>, <<>>) EXCEPT !.kind = kind]
SomeEntries ==
    {Entry("a", <<1, 1>>, "x", 0, <<>>), Entry("a", <<2, 1>>, "x", 1, <<NextHopOnly(4, 33, 32)>>),
     Entry("b", <<2, 2>>, "y", 0, <<NextHopOnly(3, 17, 16), At(14, 3, 9, 9, FALSE)>>),
     [Entry("b", <<1, 133>>, "r", 2, <<>>) EXCEPT !.good = FALSE]}
SomeMessages ==
    {MrtUpdate("a", <<MrtRoute(<<1, 1>>, "x", 1), MrtRoute(<<1, 1>>, "x", 2)>>, <<>>),
     MrtUpdate("a", <<>>, <<MrtRoute(<<1, 1>>, "x", 1)>>),
     MrtUpdate("a", <<MrtRoute(<<1, 1>>, "x", 0)>>, <<MrtRoute(<<1, 2>>, "y", 0)>>),
     MrtUpdate("c", <<>>, <<MrtRoute(<<2, 133>>, "r", 3)>>),
     MrtUpdate("a", <<>>, <<MrtRoute(<<1, 1>>, "x", 0)>>),
     MrtOther("idle", "a"), MrtOther("other", "a")}
UpToTwo(S) == {<<>>} \cup {<<a>> : a \in S} \cup {<<a, b>> : a \in S, b \in S}
MrtFile(index, rib, messages) ==
    [opens |-> TRUE, index |-> index, rib |-> rib, messages |-> messages]
FirstEntry == <<Entry("a", <<1, 1>>, "x", 0, <<>>)>>
TableDumps == {MrtFile(<<"a", "b">>, <<x, y>>, <<>>) : x \in SomeEntries, y \in SomeEntries}
UpdateFiles == {MrtFile(<<>>, <<>>, m) : m \in UpToTwo(SomeMessages)}
OneMessage == {MrtFile(<<>>, <<>>, <<m>>) : m \in SomeMessages}
SpoiledFiles == {[MrtFile(<<"a", "b">>, <<>>, <<>>) EXCEPT !.opens = FALSE],
                 MrtFile(<<>>, FirstEntry, <<>>),
                 MrtFile(<<"a", "b">>, <<>>, <<MrtOther("unexplodable", "a")>>)}
SomeBatches == (TableDumps \X UpdateFiles) \cup (UpdateFiles \X (OneMessage \cup SpoiledFiles))
               \cup {<<MrtFile(<<"a", "b">>, FirstEntry, m)>> : m \in UpToTwo(SomeMessages)}

-----------------------------------------------------------------------------
(* BmpLink *)

Tls(on, insecure, ca) == [on |-> on, insecure |-> insecure, ca |-> ca, name |-> TRUE]
NoTls == Tls(FALSE, FALSE, FALSE)
BmpEnd(l, c, tls) == [listen |-> l, connect |-> c, tls |-> tls, endpoint |-> TRUE]
SomeConnections ==
    {BmpEnd("here", Nobody, NoTls), BmpEnd(Nobody, "there", NoTls),
     BmpEnd(Nobody, "there", Tls(TRUE, FALSE, TRUE)),
     BmpEnd(Nobody, "there", Tls(TRUE, TRUE, TRUE)), BmpEnd("here", "there", NoTls)}

-----------------------------------------------------------------------------
(* BmpDump: two connections, whose sequence numbers wrap in the first      *)

BmpMsg(type, size, flaw, sent, received, bait) ==
    [type |-> type, peer |-> "p", size |-> size, flaw |-> flaw, out |-> FALSE, loc |-> FALSE,
     sent |-> sent, received |-> received, bait |-> bait]
V4Paths(directions) == <<<<"v4", directions>>>>
SomeExports ==
    <<[isn |-> 26, cuts |-> {0, 2, 5, 8}, first |-> {0, 2},
       messages |-> <<BmpMsg("up", 3, "none", V4Paths({"receive"}),
                             V4Paths({"send", "receive"}), {}),
                      BmpMsg("route", 3, "none", <<>>, <<>>, {[at |-> 1, size |-> 2]}),
                      BmpMsg("down", 2, "none", <<>>, <<>>, {})>>],
      [isn |-> 2, cuts |-> {0, 2, 4, 7}, first |-> {0},
       messages |-> <<BmpMsg("up", 2, "none", V4Paths({"send", "receive"}), V4Paths({"send"}), {}),
                      BmpMsg("up", 2, "open", <<>>, <<>>, {}),
                      BmpMsg("route", 3, "none", <<>>, <<>>, {})>>]>>
Everything == [types |-> {"up", "down", "route", "other"}, peer |-> "any"]
SomeOptions ==
    {[count |-> 0, wants |-> Everything, forced |-> FALSE],
     [count |-> 2, wants |-> [types |-> {"up", "route"}, peer |-> "p"], forced |-> TRUE]}

-----------------------------------------------------------------------------
(* CliTree and CliRun *)

CliValue(kinds, family) == [kinds |-> kinds, family |-> family]
SomeValues ==
    ("192.0.2.0/24" :> CliValue({"Prefix"}, "V4"))
    @@ ("2001:db8::/32" :> CliValue({"Prefix"}, "V6"))
    @@ ("192.0.2.1" :> CliValue({"Ip"}, "V4")) @@ ("2001:db8::1" :> CliValue({"Ip"}, "V6"))
    @@ ("7" :> CliValue({"IngressId", "Asn"}, "")) @@ ("as7" :> CliValue({"Asn"}, ""))
    @@ ("65000:1" :> CliValue({"Community"}, ""))

SomeGiven == [url : {"none", "unusable", "wild6"}, env : {"none", "empty", "host"},
              config : {"absent", "unusable", "wild4"},
              files : [1 .. 2 -> {"absent", "unusable", "wild6"}]]
RunLine(mode, op, n) == [kind |-> "run", mode |-> mode, op |-> op, requests |-> n]
OtherLine(kind) == [kind |-> kind, mode |-> "none", op |-> "none", requests |-> 0]
SomeLines == {RunLine("json", op, 1) : op \in {"include", "exclude", "begin", "count"}}
             \cup {RunLine("stream", "none", 1), RunLine("buffered", "none", 2)}
             \cup {OtherLine(k) : k \in {"blank", "bad", "exit"}}
SomeBodies == {<<"a", "n", "b">>, <<>>}

-----------------------------------------------------------------------------
routesVars == <<which, ribVars, rovVars, bestVars, queryVars, flowVars, wire, aggVars, mrtVars,
                linkVars, dumpVars, treeVars, runVars>>

(* The configurations and inputs of the modules that are not explored are  *)
(* fixed.                                                                  *)
OneConnection == CHOOSE c \in Connections : TRUE
OneGiven == CHOOSE g \in SomeGiven : TRUE
RoutesInit ==
    /\ which \in {"rib", "rov", "best", "query", "flow", "wire", "agg", "mrt", "link", "dump",
                  "tree", "run"}
    /\ IF which = "rib" THEN retain \in BOOLEAN /\ families \in SomeFamilies
                        ELSE retain = FALSE /\ families = {"flowspec"}
    /\ IF which = "rov" THEN server \in {{}, SomeVrps} ELSE server = {}
    /\ IF which = "best" THEN strategy \in Strategies /\ howMany \in {0, 1, MaxRecords}
                         ELSE strategy = "rfc4271" /\ howMany = 0
    /\ IF which = "query"
       THEN /\ live \in SomeTables
            /\ \E f \in SomeFilters :
                  req = [d \in Requests |-> Fresh(IF d = "d" THEN f ELSE Narrow)]
       ELSE live = {} /\ req = [d \in Requests |-> Fresh(Plain)]
    /\ IF which = "mrt" THEN mrtFiles \in SomeBatches
                        ELSE mrtFiles = <<MrtFile(<<"a", "b">>, FirstEntry, <<>>)>>
    /\ IF which = "link" THEN wanted \in Connections /\ ignores \in BOOLEAN
                         ELSE wanted = OneConnection /\ ignores = FALSE
    /\ IF which = "dump" THEN chosen \in SomeOptions ELSE chosen = CHOOSE o \in SomeOptions : TRUE
    /\ IF which = "run" THEN given \in SomeGiven ELSE given = OneGiven
    /\ RibInit /\ RovInit /\ BestInit /\ QueryInit /\ FlowInit /\ WireInit
    /\ AggInit /\ MrtInit /\ LinkInit /\ DumpInit /\ TreeInit /\ RunInit

RoutesNext ==
    \/ which = "rib" /\ RibNext
       /\ UNCHANGED <<which, rovVars, bestVars, queryVars, flowVars, wire, aggVars, mrtVars,
                      linkVars, dumpVars, treeVars, runVars>>
    \/ which = "rov" /\ RovNext
       /\ UNCHANGED <<which, ribVars, bestVars, queryVars, flowVars, wire, aggVars, mrtVars,
                      linkVars, dumpVars, treeVars, runVars>>
    \/ which = "best" /\ BestNext
       /\ UNCHANGED <<which, ribVars, rovVars, queryVars, flowVars, wire, aggVars, mrtVars,
                      linkVars, dumpVars, treeVars, runVars>>
    \/ which = "query" /\ QueryNext
       /\ UNCHANGED <<which, ribVars, rovVars, bestVars, flowVars, wire, aggVars, mrtVars,
                      linkVars, dumpVars, treeVars, runVars>>
    \/ which = "flow" /\ FlowNext
       /\ UNCHANGED <<which, ribVars, rovVars, bestVars, queryVars, wire, aggVars, mrtVars,
                      linkVars, dumpVars, treeVars, runVars>>
    \/ which = "wire" /\ WireNext
       /\ UNCHANGED <<which, ribVars, rovVars, bestVars, queryVars, flowVars, aggVars, mrtVars,
                      linkVars, dumpVars, treeVars, runVars>>
    \/ which = "agg" /\ AggNext
       /\ UNCHANGED <<which, ribVars, rovVars, bestVars, queryVars, flowVars, wire, mrtVars,
                      linkVars, dumpVars, treeVars, runVars>>
    \/ which = "mrt" /\ MrtNext
       /\ UNCHANGED <<which, ribVars, rovVars, bestVars, queryVars, flowVars, wire, aggVars,
                      linkVars, dumpVars, treeVars, runVars>>
    \/ which = "link" /\ LinkNext
       /\ UNCHANGED <<which, ribVars, rovVars, bestVars, queryVars, flowVars, wire, aggVars,
                      mrtVars, dumpVars, treeVars, runVars>>
    \/ which = "dump" /\ DumpNext
       /\ UNCHANGED <<which, ribVars, rovVars, bestVars, queryVars, flowVars, wire, aggVars,
                      mrtVars, linkVars, treeVars, runVars>>
    \/ which = "tree" /\ TreeNext
       /\ UNCHANGED <<which, ribVars, rovVars, bestVars, queryVars, flowVars, wire, aggVars,
                      mrtVars, linkVars, dumpVars, runVars>>
    \/ which = "run" /\ RunNext
       /\ UNCHANGED <<which, ribVars, rovVars, bestVars, queryVars, flowVars, wire, aggVars,
                      mrtVars, linkVars, dumpVars, treeVars>>

RoutesSpec == RoutesInit /\ [][RoutesNext]_routesVars
=============================================================================
