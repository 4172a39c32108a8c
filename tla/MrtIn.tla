-------------------------------- MODULE MrtIn --------------------------------
(* The mrt-file-in unit (src/units/mrt_file_in/unit.rs).  Before it emits  *)
(* anything it reads every file of the batch for the families in which a   *)
(* peer has ADD-PATH, because a BMP receiver is told of them once, with    *)
(* the Peer Up; then it imports the files one after the other.             *)
(*                                                                         *)
(* A file is an index of peers, the RIB entries that refer to it, and the  *)
(* messages.  Attributes are those of BmpWire.                             *)
EXTENDS BmpWire

CONSTANT MrtBatches    \* the batches of files to import

VARIABLES
    mrtFiles,    \* the batch: a sequence of files
    mrtStage,    \* preflight, index, rib, messages, done; failed, stopped
    mrtAt,       \* the file and the record of it that come next
    noted,       \* addpath_families: peer -> families
    ids,         \* the register by ingress id: [peer, parent, pid, families], and
                 \* the families when the first route was emitted
    children,    \* path_children: <<parent, path id>> -> ingress id
    stored,      \* the routes of the RIB: [mui, family, prefix, blob]
    mrtLost,        \* the files that could not be opened again for the import
    stopping     \* the unit was told to terminate; the import is detached

mrtVars == <<mrtFiles, mrtStage, mrtAt, noted, ids, children, stored, mrtLost, stopping>>

NoPath == 0     \* a route without a path identifier

\* is_supported_afisafi; of the RIB entries, the multicast ones pass as well,
\* and a rule whose bytes do not parse does not.
Supported(f) == f \in {Ipv4Unicast, Ipv6Unicast, Ipv4FlowSpec, Ipv6FlowSpec}
Storable(r) == r.good /\ (Supported(r.family) \/ r.family \in {<<1, 2>>, <<2, 2>>})

File == mrtFiles[mrtAt[1]]

\* explode_announcements and explode_withdrawals fail for the UPDATE.
Explodes(m) == m.kind # "unexplodable"

-----------------------------------------------------------------------------
(* Preflight *)

FamiliesIn(table, peer) == IF peer \in DOMAIN table THEN table[peer] ELSE {}
FamiliesOf(peer) == FamiliesIn(noted, peer)

\* note_addpath_family of every pair of a set.
Noting(table, pairs) ==
    [p \in DOMAIN table \cup {x[1] : x \in pairs} |->
        FamiliesIn(table, p) \cup {x[2] : x \in {y \in pairs : y[1] = p}}]

PathPairs(records, peer(_)) ==
    {<<peer(records[i]), records[i].family>> : i \in
        {j \in DOMAIN records : records[j].pid # NoPath /\ Supported(records[j].family)}}

RibPairs(f) == PathPairs(f.rib, LAMBDA r : r.peer)
MessagePairs(f) ==
    UNION {PathPairs(f.messages[i].reach \o f.messages[i].unreach, LAMBDA r : f.messages[i].peer) :
           i \in {j \in DOMAIN f.messages : f.messages[j].kind = "update"}}

\* supported_rib_records: the index and the RIB records, if there are any.
HasRib(f) == f.index # <<>> \/ f.rib # <<>>

\* preflight_bytes: a file that cannot be read, RIB entries without an index
\* and an UPDATE that does not explode are errors; a message that is no BGP
\* message is skipped.
PreflightOk(f) ==
    /\ f.opens
    /\ HasRib(f) => f.index # <<>>
    /\ \A i \in DOMAIN f.messages : Explodes(f.messages[i])

Notes(f) == Noting(noted, RibPairs(f) \cup MessagePairs(f))

MrtInit ==
    /\ mrtFiles \in MrtBatches
    /\ mrtStage = "preflight" /\ mrtAt = <<1, 1>> /\ noted = <<>>
    /\ ids = <<>> /\ children = <<>> /\ stored = {} /\ mrtLost = {} /\ stopping = FALSE

\* One file of MrtFileIn::run's loop; an error ends the unit.
Preflight ==
    /\ mrtStage = "preflight"
    /\ IF PreflightOk(File)
       THEN /\ noted' = Notes(File)
            /\ IF mrtAt[1] = Len(mrtFiles) THEN mrtStage' = "index" /\ mrtAt' = <<1, 1>>
                                           ELSE mrtStage' = "preflight" /\ mrtAt' = <<mrtAt[1] + 1, 1>>
       ELSE mrtStage' = "failed" /\ UNCHANGED <<noted, mrtAt>>
    /\ UNCHANGED <<mrtFiles, ids, children, stored, mrtLost, stopping>>

-----------------------------------------------------------------------------
(* Ingress ids *)

\* find_existing_peer.
PeerIds(reg, peer) == {i \in DOMAIN reg : reg[i].parent = 0 /\ reg[i].peer = peer}
NewPeer(peer) == [peer |-> peer, parent |-> 0, pid |-> NoPath, families |-> FamiliesOf(peer),
                  started |-> FALSE, told |-> {}]

\* peer_ingress: families are only written when there are some.
PeerIngress(reg, peer) ==
    IF PeerIds(reg, peer) = {} THEN Append(reg, NewPeer(peer))
    ELSE [i \in DOMAIN reg |->
            IF i \in PeerIds(reg, peer) /\ FamiliesOf(peer) # {}
            THEN [reg[i] EXCEPT !.families = FamiliesOf(peer)] ELSE reg[i]]
IdOf(reg, peer) == CHOOSE i \in PeerIds(reg, peer) : TRUE

\* What an import changes; "sent" says that a payload was emitted.
Now == [noted |-> noted, reg |-> ids, kids |-> children, table |-> stored, sent |-> FALSE]

\* note_ingress_addpath_family, and the child of mrt_path_ingress.
PathIngress(st, id, r) ==
    LET peer == st.reg[id].peer
        known == IF Supported(r.family) THEN Noting(st.noted, {<<peer, r.family>>}) ELSE st.noted
        seen == [st EXCEPT !.noted = known, !.reg[id].families = FamiliesIn(known, peer)]
        n == Len(st.reg) + 1
    IN  IF r.pid = NoPath THEN st
        ELSE IF <<id, r.pid>> \in DOMAIN st.kids THEN seen
        ELSE [seen EXCEPT
                !.reg = Append(@, [NewPeer(peer) EXCEPT !.parent = id, !.pid = r.pid, !.families = {}]),
                !.kids = [k \in DOMAIN @ \cup {<<id, r.pid>>} |-> IF k = <<id, r.pid>> THEN n ELSE @[k]]]

Mui(st, id, r) == IF r.pid = NoPath THEN id ELSE st.kids[<<id, r.pid>>]

\* The state after an import; with the first payload of a peer BMP-out
\* describes it from the register.
Becomes(st, id) ==
    /\ noted' = st.noted /\ children' = st.kids /\ stored' = st.table
    /\ ids' = IF st.sent /\ ~st.reg[id].started
              THEN [st.reg EXCEPT ![id].started = TRUE, ![id].told = st.reg[id].families]
              ELSE st.reg

-----------------------------------------------------------------------------
(* The import *)

\* normalize_mrt_mp_reach: MP_REACH_NLRI of a RIB entry holds the length and
\* the next hop only; the rest of the value is put in.
ShortReach(a) == a.code = 14 /\ a.value >= 1 + a.nh

FullReach(a, nlri) ==
    LET value == 2 + 1 + 1 + a.nh + 1 + nlri
    IN  [a EXCEPT !.value = value, !.header = IF value > 255 THEN 4 ELSE 3]

Normalized(blob, nlri) ==
    LET n == Len(Readable(blob))
    IN  [i \in DOMAIN blob |-> IF i <= n /\ ShortReach(blob[i]) THEN FullReach(blob[i], nlri)
                               ELSE blob[i]]

StoredBlob(r) == IF r.family \in {<<2, 1>>, <<2, 2>>}
                 THEN Normalized(r.blob, 1 + (r.bits + 7) \div 8) ELSE r.blob

Importing(s) == mrtStage = s /\ mrtAt[1] <= Len(mrtFiles)
Goto(s) == mrtStage' = s /\ mrtAt' = <<mrtAt[1], 1>>

Put(st, id, r, blob) ==
    LET mui == Mui(st, id, r)
    IN  [st EXCEPT !.sent = TRUE,
                   !.table = {x \in @ : ~(x.mui = mui /\ x.family = r.family /\ x.prefix = r.prefix)}
                             \cup {[mui |-> mui, family |-> r.family, prefix |-> r.prefix, blob |-> blob]}]
Take(st, id, r) ==
    LET mui == Mui(st, id, r)
    IN  [st EXCEPT !.sent = TRUE,
                   !.table = {x \in @ : ~(x.mui = mui /\ x.family = r.family /\ x.prefix = r.prefix)}]

\* peer_ingress for every peer of the index.
PeerIndex ==
    /\ Importing("index")
    /\ ids' = FoldLeft(PeerIngress, ids, File.index)
    /\ Goto("rib")
    /\ UNCHANGED <<mrtFiles, noted, children, stored, mrtLost, stopping>>

NextFile ==
    /\ mrtAt' = <<mrtAt[1] + 1, 1>>
    /\ mrtStage' = IF mrtAt[1] = Len(mrtFiles) THEN "done" ELSE "index"

\* process_file cannot open the file any more: the next one is imported.
FileLost ==
    /\ Importing("index") /\ mrtLost = {}
    /\ mrtLost' = {mrtAt[1]} /\ NextFile
    /\ UNCHANGED <<mrtFiles, noted, ids, children, stored, stopping>>

\* One RIB entry.
RibEntry ==
    /\ Importing("rib") /\ mrtAt[2] <= Len(File.rib)
    /\ LET r == File.rib[mrtAt[2]]
           id == IdOf(ids, r.peer)
       IN  IF Storable(r) THEN Becomes(Put(PathIngress(Now, id, r), id, r, StoredBlob(r)), id)
                          ELSE UNCHANGED <<noted, ids, children, stored>>
    /\ mrtAt' = <<mrtAt[1], mrtAt[2] + 1>>
    /\ UNCHANGED <<mrtFiles, mrtStage, mrtLost, stopping>>

RibDone ==
    /\ Importing("rib") /\ mrtAt[2] > Len(File.rib) /\ Goto("messages")
    /\ UNCHANGED <<mrtFiles, noted, ids, children, stored, mrtLost, stopping>>

Routes(s) == SelectSeq(s, LAMBDA r : Supported(r.family))

\* A withdrawal of a path that was never announced is dropped.
Withdraw(st, id, r) ==
    IF r.pid # NoPath /\ <<id, r.pid>> \notin DOMAIN st.kids THEN st ELSE Take(st, id, r)

\* A peer that is not known yet and has only withdrawals of paths.
NothingToWithdraw(m) ==
    /\ PeerIds(ids, m.peer) = {} /\ Routes(m.reach) = <<>>
    /\ \A r \in ToSet(Routes(m.unreach)) : r.pid # NoPath

\* process_message: the announcements of an UPDATE, then its withdrawals.
UpdateMessage(m) ==
    IF m.kind # "update" \/ Routes(m.reach) \o Routes(m.unreach) = <<>> \/ NothingToWithdraw(m)
    THEN UNCHANGED <<noted, ids, children, stored>>
    ELSE LET start == [Now EXCEPT !.reg = PeerIngress(ids, m.peer)]
             id == IdOf(start.reg, m.peer)
             reach(st, r) == Put(PathIngress(st, id, r), id, r, <<>>)
             unreach(st, r) == Withdraw(st, id, r)
         IN  Becomes(FoldLeft(unreach, FoldLeft(reach, start, Routes(m.reach)), Routes(m.unreach)), id)

\* The peer alone, without its paths.
GoneMuis(id) == {id}
PeerMuis(id) == {id} \cup {children[k] : k \in {x \in DOMAIN children : x[1] = id}}

\* process_state_change from Established to Idle.
StateChange(m) ==
    /\ stored' = {x \in stored : \A id \in PeerIds(ids, m.peer) : x.mui \notin PeerMuis(id)}
    /\ UNCHANGED <<noted, ids, children>>

NextMessage ==
    /\ Importing("messages") /\ mrtAt[2] <= Len(File.messages)
    /\ LET m == File.messages[mrtAt[2]]
       IN  IF m.kind = "idle" THEN StateChange(m) ELSE UpdateMessage(m)
    /\ mrtAt' = <<mrtAt[1], mrtAt[2] + 1>>
    /\ UNCHANGED <<mrtFiles, mrtStage, mrtLost, stopping>>

FileDone ==
    /\ Importing("messages") /\ mrtAt[2] > Len(File.messages) /\ NextFile
    /\ UNCHANGED <<mrtFiles, noted, ids, children, stored, mrtLost, stopping>>

\* MrtInRunner::run returns; the task that imports goes on.
MrtTerminated ==
    /\ mrtStage \in {"index", "rib", "messages", "done"} /\ stopping = FALSE
    /\ stopping' = TRUE
    /\ UNCHANGED <<mrtFiles, mrtStage, mrtAt, noted, ids, children, stored, mrtLost>>

MrtNext ==
    \/ Preflight
    \/ PeerIndex
    \/ FileLost
    \/ RibEntry
    \/ RibDone
    \/ NextMessage
    \/ FileDone
    \/ MrtTerminated

MrtSpec == MrtInit /\ [][MrtNext]_mrtVars

-----------------------------------------------------------------------------
(* Properties *)

\* A table keyed by what the file says: peer, path identifier, family, prefix.
RowOf(peer, r) == [peer |-> peer, pid |-> r.pid, family |-> r.family, prefix |-> r.prefix]
Rows(peer, s) == {RowOf(peer, r) : r \in ToSet(Routes(s))}
Replay(table, m) ==
    CASE m.kind = "entry" -> table \cup IF Storable(m.route) THEN {RowOf(m.peer, m.route)} ELSE {}
      [] m.kind = "update" -> (table \cup Rows(m.peer, m.reach)) \ Rows(m.peer, m.unreach)
      [] m.kind = "idle" -> {x \in table : x.peer # m.peer}
      [] OTHER -> table
Entries(f) == [i \in DOMAIN f.rib |-> [kind |-> "entry", peer |-> f.rib[i].peer, route |-> f.rib[i]]]
Whole(i) == IF i \in mrtLost THEN <<>> ELSE Entries(mrtFiles[i]) \o mrtFiles[i].messages
Imported ==
    LET before == FoldLeft(LAMBDA acc, i : acc \o Whole(i), <<>>, [i \in 1 .. mrtAt[1] - 1 |-> i])
    IN  CASE mrtStage = "rib" -> before \o SubSeq(Entries(File), 1, mrtAt[2] - 1)
          [] mrtStage = "messages" -> before \o Entries(File) \o SubSeq(File.messages, 1, mrtAt[2] - 1)
          [] mrtStage \in {"index", "done"} -> before
          [] OTHER -> <<>>

\* What is stored under the ingress ids of the unit is what a replay of the
\* files by peer and path identifier gives: paths never overwrite each other,
\* a withdrawal takes one path and nothing else, and a session that goes idle
\* leaves no path behind, across the files of the batch (process_message,
\* process_state_change, mrt_path_ingress).
StoredIsReplay ==
    {[peer |-> ids[x.mui].peer, pid |-> ids[x.mui].pid, family |-> x.family, prefix |-> x.prefix] :
        x \in stored} = FoldLeft(Replay, {}, Imported)

\* The ADD-PATH families of a peer are complete when its first route leaves:
\* what BMP-out tells of the peer stays true for the rest of the batch
\* (preflight_file, note_ingress_addpath_family).
PathsKnownAtStart ==
    \A i \in DOMAIN ids : ids[i].parent = 0 /\ ids[i].started => ids[i].families = ids[i].told

\* "no routes emitted": one file that cannot be imported keeps the whole batch
\* out, wherever it is in it (MrtFileIn::run).
AllOrNothing ==
    (\E i \in DOMAIN mrtFiles : ~PreflightOk(mrtFiles[i])) => ids = <<>> /\ stored = {}

\* The next hop that bmp-tcp-out recovers from the attributes of an imported
\* IPv6 route is that of the RIB entry, and the rewritten attribute has the
\* header its length calls for (normalize_mrt_mp_reach, filter_pa_from_raw).
NextHopSurvives ==
    \A x \in stored : \A i \in DOMAIN Readable(x.blob) :
        LET a == x.blob[i]
        IN  x.family \in {<<2, 1>>, <<2, 2>>} /\ a.code = 14 /\ a.value >= 1 + a.nh =>
                /\ a.header = 3 <=> a.value <= 255
                /\ NextHopLen(x.blob) = a.nh

\* An import leaves what the files of the batch say, or nothing
\* (MrtFileIn::run, parallel_parse).
ImportFaithful == StoredIsReplay /\ PathsKnownAtStart /\ AllOrNothing /\ NextHopSurvives
=============================================================================
