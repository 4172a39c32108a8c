-------------------------------- MODULE Gate --------------------------------
(***************************************************************************)
(* Gates and links (src/src/comms.rs, src/src/common/frim.rs): how a unit  *)
(* distributes its updates, across the reloads the manager drives.         *)
(*                                                                         *)
(* One upstream unit owns the root gate.  Its connection tasks own clones. *)
(* Downstream components (Owners) hold links.  Each reload of the          *)
(* configuration gives the unit a new command channel (a generation) and   *)
(* every owner a new link, attached to that channel.  A slot at the gate   *)
(* is named by the link that subscribed it: <<owner, generation>>.         *)
(*                                                                         *)
(* Suspension is left out: the one caller of Link::suspend, the null       *)
(* target, calls it on a link that it never connects, where it returns     *)
(* without an effect.                                                      *)
(***************************************************************************)
EXTENDS Naturals, Sequences, FiniteSets

CONSTANTS
    Owners,       \* downstream components that link to the gate
    Clones,       \* clones of the gate, one per connection task
    Drains,       \* the clones whose task runs process()
    MaxGen,       \* bound: number of reloads
    QueueLen,     \* COMMAND_QUEUE_LEN
    MaxUpdates    \* bound: updates published in a behaviour

ASSUME GateAssumption ==
    /\ Drains \subseteq Clones
    /\ MaxGen \in Nat /\ QueueLen \in Nat \ {0} /\ MaxUpdates \in Nat

VARIABLES
    gen,       \* generation of the channel the root gate reads commands from
    root,      \* "running", "terminated" (process returned Err) or "dropped"
    chan,      \* chan[g]: commands queued in the channel of generation g
    updates,   \* slots in the map shared by the root gate and its clones
    clone,     \* clone[c]: "none", "live", or "done"
    cloneq,    \* cloneq[c]: commands queued for clone c
    link,      \* link[<<o, g>>]: the state of that link
    owner,     \* owner[o]: "running" or "panicked"
    told,      \* told[o]: reconfigurations queued for owner o
    latest,    \* the newest generation the manager has spawned
    unsent,    \* reconfigurations whose sender task has not yet run
    unasked,   \* generations whose coordinator has not yet sent ReportLinks
    stopping,  \* the manager has sent Terminate
    dropping,  \* slots whose drop-link task has not yet run
    metrics    \* num_updates and num_dropped_updates

gateVars == <<gen, root, chan, updates, clone, cloneq, link, owner, told,
              latest, unsent, unasked, stopping, dropping, metrics>>

Gens       == 0..MaxGen
Slots      == Owners \X Gens
Root       == "root"
Publishers == Clones \cup {Root}

Subscribe(s)   == [op |-> "Subscribe", slot |-> s]
Unsubscribe(s) == [op |-> "Unsubscribe", slot |-> s]
Reconfigure(g) == [op |-> "Reconfigure", to |-> g]
ReportLinks    == [op |-> "ReportLinks"]
Terminate      == [op |-> "Terminate"]
FollowSubscribe(s)   == [op |-> "FollowSubscribe", slot |-> s]
FollowUnsubscribe(s) == [op |-> "FollowUnsubscribe", slot |-> s]
FollowReconfigure    == [op |-> "FollowReconfigure"]

RootCommands  == {Subscribe(s) : s \in Slots} \cup {Unsubscribe(s) : s \in Slots}
                   \cup {Reconfigure(g) : g \in Gens} \cup {ReportLinks, Terminate}
CloneCommands == {FollowSubscribe(s) : s \in Slots}
                   \cup {FollowUnsubscribe(s) : s \in Slots}
                   \cup {FollowReconfigure, ReportLinks, Terminate}

(* A channel is open while some gate still holds its receiver: the gate of *)
(* the running unit, or the new gate that travels in a Reconfigure.        *)
Open(g) == root # "dropped" /\ g >= gen

(* Send a command to the root gate: wait for room, fail when closed. *)
Send(g, cmd) == /\ Open(g) /\ Len(chan[g]) < QueueLen
                /\ chan' = [chan EXCEPT ![g] = Append(@, cmd)]

GateInit ==
    /\ gen = 0 /\ root = "running" /\ latest = 0
    /\ chan = [g \in Gens |-> <<>>]
    /\ updates = {}
    /\ clone = [c \in Clones |-> "none"]
    /\ cloneq = [c \in Clones |-> <<>>]
    /\ link = [s \in Slots |-> IF s[2] = 0 THEN "connecting" ELSE "none"]
    /\ owner = [o \in Owners |-> "running"]
    /\ told = [o \in Owners |-> <<>>]
    /\ unsent = {} /\ unasked = {} /\ stopping = FALSE /\ dropping = {}
    /\ metrics = [updates |-> 0, dropped |-> 0]

-----------------------------------------------------------------------------
(* The root gate: process() and the commands it handles. *)

(* notify_clones: try_send to every registered clone; a full queue drops   *)
(* the command.  The registry holds the live clones: a dropped clone takes *)
(* itself out (blocking_detach).                                           *)
NotifyClones(cmd) ==
    cloneq' = [c \in Clones |->
                 IF clone[c] = "live" /\ Len(cloneq[c]) < QueueLen
                 THEN Append(cloneq[c], cmd) ELSE cloneq[c]]

(* Take the next command of the channel the root gate reads. *)
Receive(op) == /\ root = "running" /\ chan[gen] # <<>> /\ Head(chan[gen]).op = op
             /\ chan' = [chan EXCEPT ![gen] = Tail(@)]

(* Every change of a FrimMap replaces the whole map: readers keep theirs. *)
FrimInsert(map, s) == map \cup {s}
FrimRemove(map, s) == map \ {s}

(* The owner of the link waits for the answer, so that it never fails. *)
GateSubscribe ==
    LET s == Head(chan[gen]).slot IN
    /\ Receive("Subscribe")
    /\ updates' = FrimInsert(updates, s)
    /\ link' = [link EXCEPT ![s] = "connected"]
    /\ NotifyClones(FollowSubscribe(s))
    /\ UNCHANGED <<gen, root, clone, owner, told, latest, unsent, dropping,
                   unasked, stopping, metrics>>

GateUnsubscribe ==
    LET s == Head(chan[gen]).slot IN
    /\ Receive("Unsubscribe")
    /\ updates' = FrimRemove(updates, s)
    /\ NotifyClones(FollowUnsubscribe(s))
    /\ UNCHANGED <<gen, root, clone, link, owner, told, latest, unsent,
                   dropping, unasked, stopping, metrics>>

(* Replacing the receiver drops the old channel with the commands still in *)
(* it; a Subscribe among them is never answered, so that its link is gone. *)
(* Every caller unwraps the result of connect.                             *)
Orphans(g) == {cmd.slot : cmd \in {chan[g][i] : i \in 2..Len(chan[g])}
                                    \cap {Subscribe(s) : s \in Slots}}

Abandon(slots) ==
    /\ link' = [s \in Slots |-> IF s \in slots THEN "gone" ELSE link[s]]
    /\ owner' = [o \in Owners |-> IF \E s \in slots : s[1] = o
                                   THEN "panicked" ELSE owner[o]]

GateReconfigure ==
    /\ root = "running" /\ chan[gen] # <<>> /\ Head(chan[gen]).op = "Reconfigure"
    /\ gen' = Head(chan[gen]).to
    /\ chan' = [chan EXCEPT ![gen] = <<>>]
    /\ updates' = {}
    /\ Abandon(Orphans(gen))
    /\ NotifyClones(FollowReconfigure)
    /\ UNCHANGED <<root, clone, told, latest, unsent, dropping, unasked,
                   stopping, metrics>>

GateReportLinks ==
    /\ Receive("ReportLinks")
    /\ NotifyClones(ReportLinks)
    /\ UNCHANGED <<gen, root, updates, clone, link, owner, told, latest,
                   unsent, dropping, unasked, stopping, metrics>>

GateTerminate ==
    /\ Receive("Terminate")
    /\ root' = "terminated"
    /\ NotifyClones(Terminate)
    /\ UNCHANGED <<gen, updates, clone, link, owner, told, latest, unsent,
                   dropping, unasked, stopping, metrics>>

(* The unit's run returns and drops the root gate, the registry of clone   *)
(* senders with it: the clones hold it only weakly.                        *)
GateDrop ==
    /\ root = "terminated"
    /\ root' = "dropped"
    /\ chan' = [g \in Gens |-> <<>>]
    /\ Abandon({s \in Slots : \E i \in 1..Len(chan[s[2]]) :
                                  chan[s[2]][i] = Subscribe(s)})
    /\ UNCHANGED <<gen, updates, clone, cloneq, told, latest, unsent,
                   dropping, unasked, stopping, metrics>>

-----------------------------------------------------------------------------
(* Clones. *)

(* Clone for Gate: registered with the root before the clone is used. *)
GateClone(c) ==
    /\ clone[c] = "none" /\ root = "running"
    /\ clone' = [clone EXCEPT ![c] = "live"]
    /\ UNCHANGED <<gen, root, chan, updates, cloneq, link, owner, told,
                   latest, unsent, dropping, unasked, stopping,
                   metrics>>

\* Mutant: a clone follows a reconfiguration by emptying the shared map.
FollowerEmptiesMap(c) ==
    /\ clone[c] = "live" /\ c \in Drains /\ cloneq[c] # <<>>
    /\ updates' = IF Head(cloneq[c]) = FollowReconfigure THEN {} ELSE updates
    /\ cloneq' = [cloneq EXCEPT ![c] = Tail(@)]
    /\ UNCHANGED <<gen, root, chan, clone, link, owner, told, latest, unsent,
                   dropping, unasked, stopping, metrics>>

(* process() on a clone. *)
CloneProcess(c) ==
    /\ clone[c] = "live" /\ c \in Drains /\ cloneq[c] # <<>>
    /\ LET cmd == Head(cloneq[c]) IN
       /\ updates' = CASE cmd.op = "FollowSubscribe" -> FrimInsert(updates, cmd.slot)
                       [] cmd.op = "FollowUnsubscribe" -> FrimRemove(updates, cmd.slot)
                       [] OTHER -> updates
       /\ clone' = [clone EXCEPT ![c] = IF cmd.op = "Terminate" THEN "done" ELSE @]
    /\ cloneq' = [cloneq EXCEPT ![c] = Tail(@)]
    /\ UNCHANGED <<gen, root, chan, link, owner, told, latest, unsent,
                   dropping, unasked, stopping, metrics>>

\* Mutant: the clones keep the registry of senders alive.
StrongRegistry(c) == clone[c] = "live" /\ FALSE /\ UNCHANGED gateVars

(* recv returns None once the senders are gone and the queue is empty. *)
CloneClosed(c) ==
    /\ clone[c] = "live" /\ c \in Drains
    /\ root = "dropped" /\ cloneq[c] = <<>>
    /\ clone' = [clone EXCEPT ![c] = "done"]
    /\ UNCHANGED <<gen, root, chan, updates, cloneq, link, owner, told,
                   latest, unsent, dropping, unasked, stopping,
                   metrics>>

(* The connection task ends and drops its clone with the queued commands. *)
CloneDrop(c) ==
    /\ clone[c] = "live"
    /\ clone' = [clone EXCEPT ![c] = "done"]
    /\ cloneq' = [cloneq EXCEPT ![c] = <<>>]
    /\ UNCHANGED <<gen, root, chan, updates, link, owner, told, latest,
                   unsent, dropping, unasked, stopping, metrics>>

-----------------------------------------------------------------------------
(* Publishing.  update_data sends to the slots of one snapshot of the map; *)
(* the sends are one step here: they change nothing at the gate but its    *)
(* metrics, and a clone whose task is still sending is a clone that has    *)
(* not run process() yet.  A direct link delivers when its weak target is  *)
(* still alive.                                                            *)

UpdateData(p) ==
    /\ IF p = Root THEN root = "running" ELSE clone[p] = "live"
    /\ metrics.updates < MaxUpdates
    /\ LET sent_at_least_once == \E s \in updates : owner[s[1]] = "running" IN
       metrics' = [updates |-> metrics.updates + 1,
                   dropped |-> metrics.dropped + (IF sent_at_least_once THEN 0 ELSE 1)]
    /\ UNCHANGED <<gen, root, chan, updates, clone, cloneq, link, owner, told,
                   latest, unsent, unasked, stopping, dropping>>

-----------------------------------------------------------------------------
(* Links and their owners. *)

(* Link::connect: send Subscribe and wait; a closed channel is Gone. *)
LinkConnect(s) ==
    /\ link[s] = "connecting" /\ owner[s[1]] = "running"
    /\ \/ /\ Send(s[2], Subscribe(s))
          /\ link' = [link EXCEPT ![s] = "waiting"]
          /\ UNCHANGED owner
       \/ /\ ~Open(s[2])
          /\ Abandon({s})
          /\ UNCHANGED chan
    /\ UNCHANGED <<gen, root, updates, clone, cloneq, told, latest, unsent,
                   dropping, unasked, stopping, metrics>>

\* Mutant: the old links are dropped and the new ones are not connected.
ForgetsToConnect(o) ==
    LET old == {s \in Slots : s[1] = o /\ link[s] = "connected"} IN
    /\ owner[o] = "running" /\ told[o] # <<>>
    /\ \A s \in Slots : s[1] = o => link[s] \notin {"connecting", "waiting"}
    /\ told' = [told EXCEPT ![o] = Tail(@)]
    /\ dropping' = dropping \cup old
    /\ link' = [s \in Slots |-> IF s \in old THEN "dropped" ELSE link[s]]
    /\ UNCHANGED <<gen, root, chan, updates, clone, cloneq, owner, latest,
                   unsent, unasked, stopping, metrics>>

(* An owner handles Reconfiguring between two of its awaits: the old links *)
(* are dropped, then the new ones connect.                                 *)
OwnerReconfigure(o) ==
    LET old == {s \in Slots : s[1] = o /\ link[s] = "connected"} IN
    /\ owner[o] = "running" /\ told[o] # <<>>
    /\ \A s \in Slots : s[1] = o => link[s] \notin {"connecting", "waiting"}
    /\ told' = [told EXCEPT ![o] = Tail(@)]
    /\ dropping' = dropping \cup old
    /\ link' = [s \in Slots |-> IF s \in old THEN "dropped"
                                ELSE IF s = <<o, Head(told[o])>> THEN "connecting"
                                ELSE link[s]]
    /\ UNCHANGED <<gen, root, chan, updates, clone, cloneq, owner, latest,
                   unsent, unasked, stopping, metrics>>

(* Drop for Link spawns a task that sends Unsubscribe, or finds it closed. *)
DropLink(s) ==
    /\ s \in dropping
    /\ dropping' = dropping \ {s}
    /\ Send(s[2], Unsubscribe(s)) \/ (~Open(s[2]) /\ UNCHANGED chan)
    /\ UNCHANGED <<gen, root, updates, clone, cloneq, link, owner, told,
                   latest, unsent, unasked, stopping, metrics>>

-----------------------------------------------------------------------------
(* The manager's part: its commands are sent by tasks of their own. *)

Reload ==
    /\ latest < MaxGen /\ ~stopping
    /\ latest' = latest + 1
    /\ unsent' = unsent \cup {latest + 1}
    /\ unasked' = unasked \cup {latest + 1}
    /\ told' = [o \in Owners |-> Append(told[o], latest + 1)]
    /\ UNCHANGED <<gen, root, chan, updates, clone, cloneq, link, owner,
                   dropping, stopping, metrics>>

(* The unit-reconfigurer task: Reconfigure travels on the old channel. *)
SendReconfigure(g) ==
    /\ g \in unsent
    /\ unsent' = unsent \ {g}
    /\ Send(g - 1, Reconfigure(g)) \/ (~Open(g - 1) /\ UNCHANGED chan)
    /\ UNCHANGED <<gen, root, updates, clone, cloneq, link, owner, told,
                   latest, dropping, unasked, stopping, metrics>>

(* A coordinator asks the agent of its generation for its links. *)
SendReportLinks(g) ==
    /\ g \in unasked
    /\ unasked' = unasked \ {g}
    /\ Send(g, ReportLinks) \/ (~Open(g) /\ UNCHANGED chan)
    /\ UNCHANGED <<gen, root, updates, clone, cloneq, link, owner, told,
                   latest, unsent, stopping, dropping, metrics>>

(* Manager::terminate sends to the agents of the newest configuration. *)
SendTerminate ==
    /\ ~stopping /\ stopping' = TRUE
    /\ Send(latest, Terminate)
    /\ UNCHANGED <<gen, root, updates, clone, cloneq, link, owner, told,
                   latest, unsent, unasked, dropping, metrics>>

-----------------------------------------------------------------------------
GateProcess == GateSubscribe \/ GateUnsubscribe \/ GateReconfigure
                 \/ GateReportLinks \/ GateTerminate

GateNext ==
    \/ GateProcess
    \/ GateDrop
    \/ Reload
    \/ SendTerminate
    \/ \E c \in Clones : \/ GateClone(c) \/ CloneProcess(c) \/ CloneClosed(c)
                         \/ CloneDrop(c)
    \/ \E p \in Publishers : UpdateData(p)
    \/ \E s \in Slots : LinkConnect(s) \/ DropLink(s)
    \/ \E o \in Owners : OwnerReconfigure(o)
    \/ \E g \in Gens : SendReconfigure(g) \/ SendReportLinks(g)

(* Tokio polls every woken task: each loop and each spawned task runs.     *)
(* Nothing makes the operator reload or stop the program, a unit publish,  *)
(* or a clone appear.  Every behaviour is finite (the bounds), so weak     *)
(* fairness of all these steps together is fairness of each.               *)
GateSystem ==
    \/ GateProcess \/ GateDrop
    \/ \E c \in Clones : CloneProcess(c) \/ CloneClosed(c)
    \/ \E s \in Slots : LinkConnect(s) \/ DropLink(s)
    \/ \E o \in Owners : OwnerReconfigure(o)
    \/ \E g \in Gens : SendReconfigure(g) \/ SendReportLinks(g)

GateSpec == GateInit /\ [][GateNext]_gateVars /\ WF_gateVars(GateSystem)

-----------------------------------------------------------------------------
(* Type invariant. *)
GateTypeOK ==
    /\ gen \in Gens /\ latest \in Gens
    /\ root \in {"running", "terminated", "dropped"}
    /\ chan \in [Gens -> Seq(RootCommands)]
    /\ updates \subseteq Slots
    /\ clone \in [Clones -> {"none", "live", "done"}]
    /\ cloneq \in [Clones -> Seq(CloneCommands)]
    /\ link \in [Slots -> {"none", "connecting", "waiting", "connected",
                           "dropped", "gone"}]
    /\ owner \in [Owners -> {"running", "panicked"}]
    /\ told \in [Owners -> Seq(Gens)]
    /\ unsent \subseteq Gens /\ unasked \subseteq Gens /\ stopping \in BOOLEAN
    /\ dropping \subseteq Slots
    /\ metrics \in [updates : 0..MaxUpdates, dropped : 0..MaxUpdates]

(* A link that the gate's present channel answered stays in the shared map *)
(* for as long as its owner holds it, whatever commands of earlier links   *)
(* the clones replay late into the map (FollowUnsubscribe,                 *)
(* FollowReconfigure) and whatever notify_clones had to drop.              *)
SubscribedWhileConnected ==
    \A s \in Slots : link[s] = "connected" /\ s[2] = gen => s \in updates

(* Only a reload makes connect fail while the unit runs: the panic of an   *)
(* owner (connect(..).await.unwrap()) needs a later Reconfigure to have    *)
(* overtaken its Subscribe.                                                *)
PanicNeedsOvertaking ==
    \A o \in Owners : owner[o] = "panicked" =>
        root = "dropped" \/ \E g \in Gens : link[<<o, g>>] = "gone" /\ g < gen

(* comms.rs documents that terminating or dropping a gate terminates its   *)
(* clones.  Terminate itself may be dropped by a full queue; closing the   *)
(* clone's channel makes up for it, for every clone that runs process().   *)
ClonesFollowTermination ==
    \A c \in Drains : root = "dropped" ~> clone[c] # "live"

(* When the reloads stop, every owner that is still alive ends up          *)
(* subscribed with the link of the newest configuration, and stays so.     *)
ReloadConverges ==
    <>[](root = "running" => \A o \in Owners :
            owner[o] = "running" => <<o, latest>> \in updates)

(* comms.rs: "Links receive data updates as long as they are connected to  *)
(* a Gate and have not been suspended."  The next update goes to the slots *)
(* in the map.                                                             *)
ConnectedReceives ==
    \A s \in Slots : root = "running" /\ link[s] = "connected" => s \in updates
=============================================================================
