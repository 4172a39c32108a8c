------------------------------- MODULE CliTree -------------------------------
(* The command line of netom-cli (src/bin/netom-cli/): one tree of keywords *)
(* and typed values (tree.rs) that the parser, the abbreviations, the tab   *)
(* key and the ? key all read; the handlers that turn a parsed line into    *)
(* requests (commands/); and what the daemon's route endpoints answer to    *)
(* them (src/units/rib_unit/http_ng.rs).                                    *)
(*                                                                          *)
(* A token is its text in lower case.  What a value parses as is given by   *)
(* the constant Values; every keyword, and every beginning of one, has the  *)
(* shape of a community name too, unless it holds a digit.                  *)
EXTENDS Integers, Sequences, FiniteSets, SequencesExt

CONSTANTS Values,      \* token -> [kinds, family]
          Strays,      \* beginnings of words that are typed where they may not belong
          MaxShort     \* words of one line that are not typed in full

VARIABLES typed,       \* the tokens of the line being edited
          open,        \* no space yet behind the last one
          shown,       \* what ? has listed for this line
          ran          \* the last line that was entered

treeVars == <<typed, open, shown, ran>>

-----------------------------------------------------------------------------
(* Nodes *)

None == <<>>
Node(kw, set, run, next) == [kw |-> kw, arg |-> FALSE, set |-> set, run |-> run, next |-> next]
ArgNode(kind, run, next) == [kw |-> kind, arg |-> TRUE, set |-> None, run |-> run, next |-> next]
lit(kw, next) == Node(kw, None, "", next)
leaf(kw, run) == Node(kw, None, run, "NONE")
Afi(f) == <<"Afi", f>>
Safi(f) == <<"Safi", f>>
Source(s) == <<"Source", s>>
Best == <<"Best", "">>
Detail == <<"Detail", "">>

-----------------------------------------------------------------------------
(* The tree *)

FILTER_SOURCE_KINDS ==
    << Node("bgp", Source("bgp"), "routes", "NONE"),
       Node("bmp", Source("bmp"), "routes", "NONE"),
       Node("mrt", Source("mrt"), "routes", "NONE") >>
FILTER_INGRESS_ARG == << ArgNode("IngressId", "routes", "NONE") >>
FILTER_ORIGIN_AS_ARG == << ArgNode("Asn", "routes", "NONE") >>
FILTER_COMMUNITY_ARG == << ArgNode("Community", "routes", "NONE") >>

FILTER_SOURCE == lit("source", "FILTER_SOURCE_KINDS")
FILTER_INGRESS == lit("ingress", "FILTER_INGRESS_ARG")
FILTER_ORIGIN_AS == lit("origin-as", "FILTER_ORIGIN_AS_ARG")
FILTER_COMMUNITY == lit("community", "FILTER_COMMUNITY_ARG")

BGP_BEST_FILTERS == << FILTER_SOURCE, FILTER_INGRESS, FILTER_ORIGIN_AS, FILTER_COMMUNITY >>

ROOT == << lit("show", "SHOW"), leaf("help", "help"), leaf("exit", "exit"),
           leaf("quit", "exit"), leaf("end", "exit") >>

SHOW == << lit("ip", "SHOW_IP"), lit("ipv6", "SHOW_IPV6"), lit("bmp", "SHOW_BMP"),
           leaf("ingresses", "ingresses"), leaf("version", "version"), leaf("status", "status"),
           leaf("running-config", "running_config"), leaf("filters", "filters") >>

SHOW_IP == << Node("bgp", Afi("V4"), "routes", "BGP_BODY") >>
SHOW_IPV6 == << Node("bgp", Afi("V6"), "routes", "BGP_BODY") >>

DETAIL_LEAF == Node("detail", Detail, "routes", "NONE")

BGP_BODY ==
    << Node("summary", None, "summary", "BGP_SUMMARY"),
       Node("neighbors", None, "neighbors", "BGP_NEIGHBORS"),
       Node("flowspec", Safi("FlowSpec"), "routes", "BGP_FLOWSPEC"),
       ArgNode("Prefix", "routes", "BGP_PREFIX_BODY"),
       Node("best", Best, "", "BGP_BEST_ADDR"),
       Node("detail", Detail, "routes", "BGP_DETAIL_BODY") >> \o BGP_BEST_FILTERS

BGP_DETAIL_BODY == << ArgNode("Prefix", "routes", "NONE") >> \o BGP_BEST_FILTERS
BGP_PREFIX_BODY == << Node("best", Best, "routes", "BGP_BEST_FILTERS"), DETAIL_LEAF >>
BGP_BEST_ADDR == << ArgNode("Ip", "routes", "BGP_BEST_FILTERS") >>
BGP_SUMMARY == << Node("bgp", Source("bgp"), "summary", "NONE"),
                  Node("bmp", Source("bmp"), "summary", "NONE") >>
BGP_NEIGHBORS == << ArgNode("Ip", "neighbors", "BGP_NEIGHBOR_BODY") >>
BGP_NEIGHBOR_BODY == << Node("routes", None, "routes", "DETAIL") >>
BGP_FLOWSPEC == << ArgNode("Prefix", "routes", "NONE"), FILTER_SOURCE, FILTER_INGRESS >>
SHOW_BMP == << leaf("routers", "routers"), lit("router", "SHOW_BMP_ROUTER") >>
SHOW_BMP_ROUTER == << ArgNode("IngressId", "router", "NONE") >>

Tree ==
    [ROOT |-> ROOT, SHOW |-> SHOW, SHOW_IP |-> SHOW_IP, SHOW_IPV6 |-> SHOW_IPV6,
     BGP_BODY |-> BGP_BODY, BGP_DETAIL_BODY |-> BGP_DETAIL_BODY,
     BGP_PREFIX_BODY |-> BGP_PREFIX_BODY, BGP_BEST_ADDR |-> BGP_BEST_ADDR,
     BGP_BEST_FILTERS |-> BGP_BEST_FILTERS, BGP_SUMMARY |-> BGP_SUMMARY,
     BGP_NEIGHBORS |-> BGP_NEIGHBORS, BGP_NEIGHBOR_BODY |-> BGP_NEIGHBOR_BODY,
     BGP_FLOWSPEC |-> BGP_FLOWSPEC, SHOW_BMP |-> SHOW_BMP, SHOW_BMP_ROUTER |-> SHOW_BMP_ROUTER,
     FILTER_SOURCE_KINDS |-> FILTER_SOURCE_KINDS, FILTER_INGRESS_ARG |-> FILTER_INGRESS_ARG,
     FILTER_ORIGIN_AS_ARG |-> FILTER_ORIGIN_AS_ARG,
     FILTER_COMMUNITY_ARG |-> FILTER_COMMUNITY_ARG,
     DETAIL |-> << DETAIL_LEAF >>, NONE |-> <<>>]

Words == {n.kw : n \in {m \in UNION {ToSet(Tree[l]) : l \in DOMAIN Tree} : ~m.arg}}

-----------------------------------------------------------------------------
(* Matching *)

Begins(word, tok) == Len(word) >= Len(tok) /\ SubSeq(word, 1, Len(tok)) = tok
Tokens == UNION {{SubSeq(w, 1, n) : n \in 1 .. Len(w)} : w \in Words} \cup DOMAIN Values

\* ArgKind::parse.
Parses(kind, tok) ==
    IF tok \in DOMAIN Values THEN kind \in Values[tok].kinds
    ELSE kind = "Community" /\ tok # "ipv6"

Matched(node) == [ok |-> TRUE, node |-> node, err |-> ""]
NotMatched(err) == [ok |-> FALSE, node |-> lit("", "NONE"), err |-> err]

\* match_one: the word itself, else the only word that begins so, else the
\* first value that parses.
Chosen(exact, begun, args) ==
    CASE exact # <<>> -> Matched(exact[1])
      [] exact = <<>> /\ Len(begun) = 1 -> Matched(begun[1])
      [] exact = <<>> /\ Len(begun) > 1 -> NotMatched("Ambiguous")
      [] begun = <<>> /\ args # <<>> -> Matched(args[1])
      [] OTHER -> NotMatched("Invalid")

MatchOne(level, tok) ==
    Chosen(SelectSeq(Tree[level], LAMBDA n : ~n.arg /\ n.kw = tok),
           SelectSeq(Tree[level], LAMBDA n : ~n.arg /\ Begins(n.kw, tok)),
           SelectSeq(Tree[level], LAMBDA n : n.arg /\ Parses(n.kw, tok)))

\* The same as a table.
Match == [l \in DOMAIN Tree |-> [t \in Tokens |-> MatchOne(l, t)]]

\* The loop of resolve_tokens: what one token makes of what the ones before it
\* have made.  path keeps the nodes that were passed.
Passed(b, m, tok) ==
    IF b.err # "" THEN b
    ELSE IF ~m.ok THEN [b EXCEPT !.err = m.err]
    ELSE [level |-> m.node.next,
          flags |-> IF m.node.set = None THEN b.flags ELSE Append(b.flags, m.node.set),
          args |-> IF m.node.arg THEN Append(b.args, <<m.node.kw, tok>>) ELSE b.args,
          run |-> m.node.run, err |-> "", path |-> Append(b.path, m.node)]

Descend(b, tok) == Passed(b, Match[b.level][tok], tok)

Follow(tokens) ==
    LET at[i \in 0 .. Len(tokens)] ==
            IF i = 0 THEN [level |-> "ROOT", flags |-> <<>>, args |-> <<>>, run |-> "",
                           err |-> "", path |-> <<>>]
            ELSE Descend(at[i - 1], tokens[i])
    IN  at[Len(tokens)]

Judged(f, tokens) ==
    [f EXCEPT !.err = CASE tokens = <<>> -> "Empty"
                        [] f.err = "" /\ f.run = "" -> "Incomplete"
                        [] OTHER -> f.err]

resolve(tokens) == Judged(Follow(tokens), tokens)

\* A line that is wrong goes on as if its last word were not there.
ListsAnyway(f, begun) ==
    {n \in ToSet(Tree[f.level]) : IF n.arg THEN begun = "" ELSE Begins(n.kw, begun)}

\* candidates: the words, and the values if no word was begun, that may come
\* next.
ListedAfter(f, begun) ==
    {n \in ToSet(Tree[f.level]) :
        f.err = "" /\ IF n.arg THEN begun = "" ELSE Begins(n.kw, begun)}

candidates(tokens, partial) ==
    IF partial THEN ListedAfter(Follow(Front(tokens)), Last(tokens))
    ELSE ListedAfter(Follow(tokens), "")

help_text(tokens, partial) ==
    [next |-> candidates(tokens, partial), cr |-> resolve(tokens).err = ""]

\* all_commands: every way down the tree that ends in a node that runs.
all_commands ==
    LET below[d \in 0 .. 7] ==
            IF d = 0 THEN {[level |-> "ROOT", path |-> <<>>, run |-> ""]}
            ELSE UNION {{[level |-> n.next, path |-> Append(w.path, n), run |-> n.run] :
                            n \in ToSet(Tree[w.level])} : w \in below[d - 1]}
    IN  {w.path : w \in {v \in UNION {below[d] : d \in 1 .. 7} : v.run # ""}}

-----------------------------------------------------------------------------
(* Captures and the requests of the handlers *)

Arg(c, kind) ==
    LET of == SelectSeq(c.args, LAMBDA a : a[1] = kind)
    IN  IF of = <<>> THEN "" ELSE of[1][2]
Flag(c, name, default) ==
    LET of == SelectSeq(c.flags, LAMBDA f : f[1] = name)
    IN  IF of = <<>> THEN default ELSE Last(of)[2]
Has(c, flag) == flag \in ToSet(c.flags)

Param(name, value) == IF value = "" THEN {} ELSE {<<name, value>>}

\* filter_params.
FilterParams(c) ==
    Param("filter[ingressType]", Flag(c, "Source", ""))
    \cup Param("ingressId", Arg(c, "IngressId"))
    \cup Param("filter[peerAddress]", Arg(c, "Ip"))
    \cup Param("filter[originAsn]", Arg(c, "Asn"))
    \cup Param("filter[community]", Arg(c, "Community"))

Request(table, afi, prefix, addr, jsonl, params) ==
    [table |-> table, afi |-> afi, prefix |-> prefix, addr |-> addr, jsonl |-> jsonl,
     params |-> params]
Get(path, id, params) == Request(path, "", "", id, FALSE, params)

\* With every filter left in.
BestPathAllFilters(c) ==
    Request("best-path", Flag(c, "Afi", "V4"), Arg(c, "Prefix"),
            IF Arg(c, "Prefix") = "" THEN Arg(c, "Ip") ELSE "", FALSE, FilterParams(c))

\* best_path: an address that is looked up is not a peer's.
BestPathOf(c) ==
    LET lookup == Arg(c, "Prefix") = ""
        params == {p \in FilterParams(c) : ~(lookup /\ p[1] = "filter[peerAddress]")}
    IN  Request("best-path", Flag(c, "Afi", "V4"), Arg(c, "Prefix"),
                IF lookup THEN Arg(c, "Ip") ELSE "", FALSE, params)

\* routes: only the dump of a whole unicast table is asked for as a stream.
RoutesOf(c) ==
    LET flow == Flag(c, "Safi", "Unicast") = "FlowSpec"
    IN  IF Has(c, Best) THEN BestPathOf(c)
        ELSE Request(IF flow THEN "flowspec" ELSE "unicast", Flag(c, "Afi", "V4"),
                     Arg(c, "Prefix"), "", ~flow /\ Arg(c, "Prefix") = "", FilterParams(c))

\* The requests of one command, in their order.
RequestsOf(c, json) ==
    CASE c.run = "routes" -> <<RoutesOf(c)>>
      [] c.run = "summary" -> <<Get("neighbors", "", {})>>
      [] c.run = "neighbors" -> <<Get("neighbors", Arg(c, "Ip"), {})>>
      [] c.run = "routers" -> <<Get("ingresses", "", {<<"filter[type]", "bmp">>})>>
                              \o IF json THEN <<>> ELSE <<Get("ingresses", "", {})>>
      [] c.run = "router" -> <<Get("ingresses", Arg(c, "IngressId"), {})>>
                             \o IF json THEN <<>> ELSE <<Get("ingresses", "", {})>>
      [] c.run = "ingresses" -> <<Get("ingresses", "", {})>>
      [] c.run \in {"version", "status"} -> <<Get("status", "", {})>>
      [] c.run = "running_config" -> <<Get("config", "", {})>>
      [] c.run = "filters" -> <<Get("filters", "", {})>>
      [] OTHER -> <<>>

-----------------------------------------------------------------------------
(* What the route endpoints take *)

\* The address in the path is read as one of the table's family.
FamilyOf(tok) == Values[tok].family
PathReadable(q) == \A v \in {q.prefix, q.addr} \ {""} : FamilyOf(v) = q.afi

FlowspecTakes(q) ==
    ~q.jsonl /\ \A p \in q.params : p[1] \in {"filter[ingressType]", "ingressId"}
BestPathTakes(q) == ~q.jsonl
\* Without a prefix it is the whole table with its more specifics.
UnicastTakes(q) == q.prefix = "" => q.jsonl

ApiAccepts(q) ==
    /\ PathReadable(q)
    /\ CASE q.table = "flowspec" -> FlowspecTakes(q)
         [] q.table = "best-path" -> BestPathTakes(q)
         [] q.table = "unicast" -> UnicastTakes(q)

-----------------------------------------------------------------------------
(* The prompt *)

NotShown == [next |-> {}, cr |-> FALSE]
NothingRan == [line |-> <<>>, c |-> resolve(<<>>), requests |-> <<>>]

TreeInit == typed = <<>> /\ open = FALSE /\ shown = NotShown /\ ran = NothingRan

Short(tokens) == {i \in DOMAIN tokens : tokens[i] \notin Words \cup DOMAIN Values}

\* What is typed at a level: its own words or the beginnings of them, any value
\* where one is expected, or a stray.
Typing ==
    [l \in DOMAIN Tree |->
        {t \in Tokens : \E n \in ToSet(Tree[l]) : ~n.arg /\ Begins(n.kw, t)}
        \cup (IF \E n \in ToSet(Tree[l]) : n.arg THEN DOMAIN Values ELSE {}) \cup Strays]

\* A word is typed behind the space; a line that is wrong already is left.
TypeToken ==
    /\ open = FALSE
    /\ \E f \in {Follow(typed)} :
         /\ f.err = ""
         /\ \E t \in Typing[f.level] :
              /\ Cardinality(Short(Append(typed, t))) <= MaxShort
              /\ typed' = Append(typed, t)
    /\ open' = TRUE
    /\ shown' = NotShown
    /\ ran' = NothingRan

TypeSpace ==
    /\ open = TRUE
    /\ open' = FALSE
    /\ shown' = NotShown
    /\ UNCHANGED <<typed, ran>>

\* Completer::complete: the word under the cursor is replaced, and a space
\* put behind it.
TabKey ==
    /\ \E n \in candidates(typed, open) :
         /\ ~n.arg
         /\ typed' = Append(IF open THEN Front(typed) ELSE typed, n.kw)
    /\ open' = FALSE
    /\ shown' = NotShown
    /\ ran' = NothingRan

\* The ? key lists and leaves the line as it is.
HelpKey ==
    /\ shown' = help_text(typed, open)
    /\ UNCHANGED <<typed, open, ran>>

\* A blank line is not run.
EnterKey ==
    /\ typed # <<>>
    /\ \E c \in {resolve(typed)} :
           ran' = [line |-> typed, c |-> c,
                   requests |-> IF c.err = "" THEN RequestsOf(c, FALSE) ELSE <<>>]
    /\ typed' = <<>>
    /\ open' = FALSE
    /\ shown' = NotShown

Interrupt ==
    /\ typed' = <<>>
    /\ open' = FALSE
    /\ shown' = NotShown
    /\ UNCHANGED ran

TreeNext ==
    \/ TypeToken
    \/ TypeSpace
    \/ TabKey
    \/ HelpKey
    \/ EnterKey
    \/ Interrupt

TreeSpec == TreeInit /\ [][TreeNext]_treeVars

-----------------------------------------------------------------------------
(* Properties *)

Done == IF open THEN Front(typed) ELSE typed
BegunWord == IF open THEN Last(typed) ELSE ""
ValuesOf(kind) == {v \in DOMAIN Values : kind \in Values[v].kinds}

\* tree.rs:3 and interactive.rs:20: what ? lists and tab inserts is what the
\* parser takes.  Everything listed can be typed there, a word in full or a
\* value of the kind shown, and everything that the parser would take there
\* is listed.
HelpHonest ==
    shown # NotShown =>
        /\ \A n \in shown.next :
             \A t \in IF n.arg THEN ValuesOf(n.kw) ELSE {n.kw} :
                 LET f == Follow(Append(Done, t)) IN f.err = "" /\ Last(f.path) = n
        /\ LET f == Follow(Done)
           IN  f.err = "" =>
                 \A t \in Tokens :
                     LET m == Match[f.level][t]
                     IN  m.ok /\ Begins(t, BegunWord) /\ (m.node.arg => BegunWord = "") =>
                             m.node \in shown.next

Kinds == {"Prefix", "Ip", "IngressId", "Asn", "Community"}
InFull(path, value) == [i \in DOMAIN path |-> IF path[i].arg THEN value[path[i].kw] ELSE path[i].kw]
Typeable ==
    \A value \in {v \in [Kinds -> DOMAIN Values] : \A k \in Kinds : v[k] \in ValuesOf(k)} :
        \A p \in all_commands : Follow(InFull(p, value)).path = p

\* tree.rs:491: help lists the commands there are.  Each one listed, typed in
\* full with values of the kinds it shows, is that command and no other (its
\* words are not taken by a sibling that begins alike), and each line that
\* runs, however abbreviated, is one of the list.
HelpListsAll ==
    /\ Typeable
    /\ ran.c.err = "" => ran.c.path \in all_commands

\* What a line says, by the word in front of each value.
Meaning(c) ==
    LET before(i) == c.path[i - 1].kw
        named(i) == CASE c.path[i].kw = "Prefix" -> "prefix"
                      [] before(i) = "best" -> "addr"
                      [] before(i) = "neighbors" -> "filter[peerAddress]"
                      [] before(i) = "ingress" -> "ingressId"
                      [] before(i) = "origin-as" -> "filter[originAsn]"
                      [] before(i) = "community" -> "filter[community]"
                      [] before(i) = "source" -> "filter[ingressType]"
        said == {i \in 2 .. Len(c.path) : c.path[i].arg \/ before(i) = "source"}
    IN  {<<named(i), IF c.path[i].arg THEN ran.line[i] ELSE c.path[i].kw>> : i \in said}

\* commands/bgp.rs, routes and best_path: the captures forget which word a
\* value stood behind.  The one request that a route command sends still asks
\* for what was typed, of the table that was named, with every value where
\* its word puts it and nothing besides.
AskedAsTyped ==
    ran.c.err = "" /\ ran.c.run = "routes" =>
        LET q == ran.requests[1]
            words == {ran.c.path[i].kw : i \in DOMAIN ran.c.path}
        IN  /\ q.table = IF "best" \in words THEN "best-path"
                         ELSE IF "flowspec" \in words THEN "flowspec" ELSE "unicast"
            /\ q.afi = IF "ipv6" \in words THEN "V6" ELSE "V4"
            /\ Param("prefix", q.prefix) \cup Param("addr", q.addr) \cup q.params = Meaning(ran.c)

\* tree.rs:864 ("rejects every filter but these two with a 400, so only these
\* two are typeable here"): no route command that can be typed is one that
\* its endpoint refuses, unless an address is of the other family.
RequestAccepted ==
    ran.c.err = "" /\ ran.c.run = "routes" =>
        LET q == ran.requests[1] IN PathReadable(q) => ApiAccepts(q)

\* A route command asks the daemon for what was typed, in a way that the
\* daemon takes (commands/bgp.rs, tree.rs:864).
RequestsRight == AskedAsTyped /\ RequestAccepted

\* Help, tab and the parser agree (tree.rs candidates, match_one, all_commands).
HelpExact == HelpHonest /\ HelpListsAll
=============================================================================
