----------------------------- MODULE GateProofs -----------------------------
(***************************************************************************)
(* Gates and links (comms.rs), for any number of links, clones, reloads    *)
(* and queued commands: what a clone replays late into the shared map      *)
(* never takes a link out of it that its owner still holds (theorem        *)
(* StaysSubscribed), and a component panics in connect only after a reload *)
(* overtook its Subscribe or the gate was dropped (PanicsOnlyOvertaken).   *)
(*                                                                         *)
(* Neither is inductive.  What carries them is where a command can still   *)
(* be queued: an Unsubscribe, to the gate or forwarded to a clone, only    *)
(* for a link that was dropped, which is final; a Subscribe only once, on  *)
(* the channel of its own generation, while its owner waits; a Reconfigure *)
(* only on the channel just before the one it installs.                    *)
(***************************************************************************)
EXTENDS Gate, TLAPS

(* Zenon proves the leaves that do not name the SMT solver.                *)
USE ZenonT(30)

(* The commands that may be in the channel of generation g. *)
Fits(g, cmd) ==
    /\ cmd.op = "Subscribe" => cmd.slot[2] = g /\ link[cmd.slot] = "waiting"
    /\ cmd.op = "Unsubscribe" => link[cmd.slot] = "dropped"
    /\ cmd.op = "Reconfigure" => cmd.to = g + 1

QueuesFit == \A g \in Gens : \A i \in 1..Len(chan[g]) : Fits(g, chan[g][i])

SubscribesOnce ==
    \A g \in Gens : \A i, j \in 1..Len(chan[g]) :
        i # j /\ chan[g][i].op = "Subscribe" /\ chan[g][j].op = "Subscribe"
          => chan[g][i].slot # chan[g][j].slot

ClonesFit ==
    \A c \in Clones : \A i \in 1..Len(cloneq[c]) :
        cloneq[c][i].op = "FollowUnsubscribe" => link[cloneq[c][i].slot] = "dropped"

DroppingFits == \A s \in dropping : link[s] = "dropped"

(* A link can have been answered only by a channel that the gate has read. *)
AnsweredInTime == \A s \in Slots : link[s] = "connected" => s[2] <= gen

(* An owner is told of each generation once, in order, and before it has a *)
(* link of that generation.                                                *)
ToldInOrder ==
    /\ \A o \in Owners : \A i \in 1..Len(told[o]) :
          told[o][i] <= latest /\ link[<<o, told[o][i]>>] = "none"
    /\ \A o \in Owners : \A i, j \in 1..Len(told[o]) : i < j => told[o][i] < told[o][j]
    /\ \A s \in Slots : s[2] > latest => link[s] = "none"

UnsentLater == \A g \in unsent : g >= 1

CountsDrops == metrics.dropped <= metrics.updates

GateInv ==
    /\ GateTypeOK /\ CountsDrops
    /\ QueuesFit /\ SubscribesOnce /\ ClonesFit /\ DroppingFits
    /\ AnsweredInTime /\ ToldInOrder /\ UnsentLater
    /\ SubscribedWhileConnected /\ PanicNeedsOvertaking

-----------------------------------------------------------------------------
(* Commands and queues *)

(* What the fields of a command to the root gate are (GateCommand).        *)
LEMMA RootShapes ==
    ASSUME NEW cmd \in RootCommands
    PROVE  /\ cmd.op = "Subscribe" => cmd.slot \in Slots /\ cmd = Subscribe(cmd.slot)
           /\ cmd.op = "Unsubscribe" => cmd.slot \in Slots /\ cmd = Unsubscribe(cmd.slot)
           /\ cmd.op = "Reconfigure" => cmd.to \in Gens
<1>1. CASE \E s \in Slots : cmd = Subscribe(s)
  BY SMTT(30), <1>1 DEF Subscribe
<1>2. CASE \E s \in Slots : cmd = Unsubscribe(s)
  BY SMTT(30), <1>2 DEF Unsubscribe
<1>3. CASE \E g \in Gens : cmd = Reconfigure(g)
  BY SMTT(30), <1>3 DEF Reconfigure
<1>4. CASE cmd = ReportLinks \/ cmd = Terminate
  BY SMTT(30), <1>4 DEF ReportLinks, Terminate
<1>. QED
  BY <1>1, <1>2, <1>3, <1>4 DEF RootCommands

(* The commands that links, the manager and the gate itself send.          *)
LEMMA CommandShapes ==
    /\ \A s \in Slots : /\ Subscribe(s) \in RootCommands /\ Subscribe(s).op = "Subscribe"
                        /\ Subscribe(s).slot = s
                        /\ Unsubscribe(s) \in RootCommands
                        /\ Unsubscribe(s).op = "Unsubscribe" /\ Unsubscribe(s).slot = s
                        /\ FollowSubscribe(s) \in CloneCommands
                        /\ FollowSubscribe(s).op = "FollowSubscribe"
                        /\ FollowUnsubscribe(s) \in CloneCommands
                        /\ FollowUnsubscribe(s).slot = s
    /\ \A g \in Gens : /\ Reconfigure(g) \in RootCommands
                       /\ Reconfigure(g).op = "Reconfigure" /\ Reconfigure(g).to = g
    /\ {ReportLinks, Terminate} \subseteq RootCommands
    /\ {ReportLinks, Terminate, FollowReconfigure} \subseteq CloneCommands
    /\ ReportLinks.op = "ReportLinks" /\ Terminate.op = "Terminate"
    /\ FollowReconfigure.op = "FollowReconfigure"
  BY DEF RootCommands, CloneCommands, Subscribe, Unsubscribe, FollowSubscribe,
         FollowUnsubscribe, Reconfigure, ReportLinks, Terminate, FollowReconfigure

(* What the fields of a command to a clone are.                            *)
LEMMA CloneShapes ==
    ASSUME NEW cmd \in CloneCommands
    PROVE  /\ cmd.op = "FollowSubscribe" => cmd.slot \in Slots
           /\ cmd.op = "FollowUnsubscribe" => cmd.slot \in Slots
<1>1. CASE \E s \in Slots : cmd = FollowSubscribe(s)
  BY SMTT(30), <1>1 DEF FollowSubscribe
<1>2. CASE \E s \in Slots : cmd = FollowUnsubscribe(s)
  BY SMTT(30), <1>2 DEF FollowUnsubscribe
<1>3. CASE cmd \in {FollowReconfigure, ReportLinks, Terminate}
  BY SMTT(30), <1>3 DEF FollowReconfigure, ReportLinks, Terminate
<1>. QED
  BY <1>1, <1>2, <1>3 DEF CloneCommands

(* Sending to a channel adds one command at its end.                       *)
LEMMA SendAdds ==
    ASSUME chan \in [Gens -> Seq(RootCommands)],
           NEW g \in Gens, NEW cmd \in RootCommands, Send(g, cmd)
    PROVE  /\ chan' \in [Gens -> Seq(RootCommands)]
           /\ \A h \in Gens \ {g} : chan'[h] = chan[h]
           /\ Len(chan'[g]) = Len(chan[g]) + 1
           /\ \A i \in 1..Len(chan[g]) : chan'[g][i] = chan[g][i]
           /\ chan'[g][Len(chan[g]) + 1] = cmd
  BY SMTT(30) DEF Send

(* Receiving takes the command at the head of the present channel.         *)
LEMMA ReceiveTakes ==
    ASSUME chan \in [Gens -> Seq(RootCommands)], gen \in Gens, NEW op, Receive(op)
    PROVE  /\ chan' \in [Gens -> Seq(RootCommands)]
           /\ Head(chan[gen]) = chan[gen][1] /\ 1 \in 1..Len(chan[gen])
           /\ Head(chan[gen]) \in RootCommands /\ Head(chan[gen]).op = op
           /\ \A h \in Gens \ {gen} : chan'[h] = chan[h]
           /\ Len(chan'[gen]) = Len(chan[gen]) - 1
           /\ \A i \in 1..Len(chan'[gen]) : chan'[gen][i] = chan[gen][i + 1]
  BY SMTT(30) DEF Receive

(* notify_clones adds the command to some of the clones' queues.           *)
LEMMA NotifyAdds ==
    ASSUME cloneq \in [Clones -> Seq(CloneCommands)], NEW cmd \in CloneCommands,
           NotifyClones(cmd)
    PROVE  /\ cloneq' \in [Clones -> Seq(CloneCommands)]
           /\ \A c \in Clones : \A i \in 1..Len(cloneq'[c]) :
                 \/ i \in 1..Len(cloneq[c]) /\ cloneq'[c][i] = cloneq[c][i]
                 \/ cloneq'[c][i] = cmd
  BY SMTT(30) DEF NotifyClones

-----------------------------------------------------------------------------
(* Steps that leave the links alone *)

(* A step that only moves the map, the queues of the clones or what tasks  *)
(* have yet to send leaves the links, their owners and the gate's channel. *)
Aside == UNCHANGED <<gen, link, told, latest, owner>> /\ (root = "dropped" => root' = "dropped")

(* A queue of commands has a length.                                       *)
LEMMA LenIsNat == \A q \in Seq(RootCommands) : Len(q) \in Nat
BY SMTT(30)

(* What waits in a gate's queue is a command, and fits.                    *)
LEMMA QueuedFits ==
    ASSUME GateInv, NEW g \in Gens, NEW i \in 1..Len(chan[g])
    PROVE  chan[g][i] \in RootCommands /\ Fits(g, chan[g][i])
<1>1. chan[g] \in Seq(RootCommands)
  BY DEF GateInv, GateTypeOK
<1>2. chan[g][i] \in RootCommands
  BY SMTT(30), <1>1
<1>3. Fits(g, chan[g][i])
  BY DEF GateInv, QueuesFit
<1>. QED
  BY <1>2, <1>3

(* Commands other than Subscribe that fit may be sent without harm.        *)
LEMMA SendKeepsQueues ==
    ASSUME GateInv, UNCHANGED link, NEW g \in Gens, NEW cmd \in RootCommands,
           Fits(g, cmd), cmd.op # "Subscribe",
           Send(g, cmd) \/ UNCHANGED chan
    PROVE  chan' \in [Gens -> Seq(RootCommands)] /\ QueuesFit' /\ SubscribesOnce'
<1>1. CASE UNCHANGED chan
  BY SMTT(30), <1>1 DEF GateInv, GateTypeOK, QueuesFit, SubscribesOnce, Fits
<1>2. CASE Send(g, cmd)
  <2>0. chan \in [Gens -> Seq(RootCommands)]
    BY DEF GateInv, GateTypeOK
  <2>1. /\ chan' \in [Gens -> Seq(RootCommands)]
        /\ \A h \in Gens \ {g} : chan'[h] = chan[h]
        /\ Len(chan'[g]) = Len(chan[g]) + 1
        /\ \A i \in 1..Len(chan[g]) : chan'[g][i] = chan[g][i]
        /\ chan'[g][Len(chan[g]) + 1] = cmd
    BY <1>2, <2>0, SendAdds
  <2>2. \A i \in 1..Len(chan'[g]) : i \in 1..Len(chan[g]) \/ i = Len(chan[g]) + 1
    BY SMTT(30), <2>0, <2>1
  <2>3. QueuesFit'
    <3> SUFFICES ASSUME NEW h \in Gens, NEW i \in 1..Len(chan'[h])
                 PROVE  Fits(h, chan[h][i])'
      BY DEF QueuesFit
    <3>1. CASE i \in 1..Len(chan[h]) /\ chan'[h][i] = chan[h][i]
      <4>1. Fits(h, chan[h][i])
        BY <3>1, QueuedFits
      <4>. QED
        BY <3>1, <4>1 DEF Fits
    <3>2. CASE h = g /\ chan'[h][i] = cmd
      BY <3>2 DEF Fits
    <3>. QED
      BY <2>1, <2>2, <3>1, <3>2
  <2>4. SubscribesOnce'
    <3> SUFFICES ASSUME NEW h \in Gens, NEW i \in 1..Len(chan'[h]),
                        NEW j \in 1..Len(chan'[h]), i # j,
                        chan'[h][i].op = "Subscribe", chan'[h][j].op = "Subscribe"
                 PROVE  chan'[h][i].slot # chan'[h][j].slot
      BY DEF SubscribesOnce
    <3>1. i \in 1..Len(chan[h]) /\ chan'[h][i] = chan[h][i]
      BY <2>1, <2>2
    <3>2. j \in 1..Len(chan[h]) /\ chan'[h][j] = chan[h][j]
      BY <2>1, <2>2
    <3>. QED
      BY <3>1, <3>2 DEF GateInv, SubscribesOnce
  <2>. QED
    BY <2>1, <2>3, <2>4
<1>. QED
  BY <1>1, <1>2

(* Taking a command from the head leaves what fits.                        *)
LEMMA ReceiveKeepsQueues ==
    ASSUME GateInv, UNCHANGED link, NEW op, Receive(op)
    PROVE  chan' \in [Gens -> Seq(RootCommands)] /\ QueuesFit' /\ SubscribesOnce'
<1>0. chan \in [Gens -> Seq(RootCommands)] /\ gen \in Gens
  BY DEF GateInv, GateTypeOK
<1>1. /\ chan' \in [Gens -> Seq(RootCommands)]
      /\ \A h \in Gens \ {gen} : chan'[h] = chan[h]
      /\ Len(chan'[gen]) = Len(chan[gen]) - 1
      /\ \A i \in 1..Len(chan'[gen]) : chan'[gen][i] = chan[gen][i + 1]
  BY <1>0, ReceiveTakes
<1>2. \A i \in 1..Len(chan'[gen]) : i + 1 \in 1..Len(chan[gen])
  BY SMTT(30), <1>0, <1>1
<1>3. QueuesFit'
  <2> SUFFICES ASSUME NEW h \in Gens, NEW i \in 1..Len(chan'[h])
               PROVE  Fits(h, chan[h][i])'
    BY DEF QueuesFit
  <2>1. CASE h = gen
    <3>1. i + 1 \in 1..Len(chan[h]) /\ chan'[h][i] = chan[h][i + 1]
      BY <1>1, <1>2, <2>1
    <3>2. Fits(h, chan[h][i + 1])
      BY <3>1, QueuedFits
    <3>. QED
      BY <3>1, <3>2 DEF Fits
  <2>2. CASE h # gen
    <3>1. i \in 1..Len(chan[h]) /\ chan'[h][i] = chan[h][i]
      BY <1>1, <2>2
    <3>2. Fits(h, chan[h][i])
      BY <3>1, QueuedFits
    <3>. QED
      BY <3>1, <3>2 DEF Fits
  <2>. QED
    BY <2>1, <2>2
<1>4. SubscribesOnce'
  <2> SUFFICES ASSUME NEW g \in Gens, NEW i \in 1..Len(chan'[g]), NEW j \in 1..Len(chan'[g]),
                      i # j, chan'[g][i].op = "Subscribe", chan'[g][j].op = "Subscribe"
               PROVE  chan'[g][i].slot # chan'[g][j].slot
    BY DEF SubscribesOnce
  <2>1. CASE g # gen
    <3>1. chan'[g] = chan[g]
      BY <1>1, <2>1
    <3>. QED
      BY <3>1 DEF GateInv, SubscribesOnce
  <2>2. CASE g = gen
    <3>1. i + 1 # j + 1 /\ i + 1 \in 1..Len(chan[gen]) /\ j + 1 \in 1..Len(chan[gen])
      BY SMTT(30), <1>2, <2>2
    <3>2. chan'[g][i] = chan[gen][i + 1] /\ chan'[g][j] = chan[gen][j + 1]
      BY <1>1, <2>2
    <3>. QED
      BY <1>0, <3>1, <3>2 DEF GateInv, SubscribesOnce
  <2>. QED
    BY <2>1, <2>2
<1>. QED
  BY <1>1, <1>3, <1>4

(* The conjuncts of the invariant that only speak of links and owners.     *)
LEMMA AsideKeeps ==
    ASSUME GateInv, Aside
    PROVE  AnsweredInTime' /\ ToldInOrder' /\ PanicNeedsOvertaking'
<1>1. AnsweredInTime' /\ ToldInOrder'
  BY DEF GateInv, Aside, AnsweredInTime, ToldInOrder
<1>2. PanicNeedsOvertaking'
  BY DEF GateInv, Aside, PanicNeedsOvertaking
<1>. QED
  BY <1>1, <1>2

(* Sending a Reconfigure, a ReportLinks, a Terminate or an Unsubscribe.    *)
LEMMA GateInvSends ==
    ASSUME GateInv,
           \/ SendTerminate
           \/ \E s \in Slots : DropLink(s)
           \/ \E g \in Gens : SendReconfigure(g) \/ SendReportLinks(g)
    PROVE  GateInv'
<1>0. /\ UNCHANGED <<gen, root, updates, clone, cloneq, link, owner, told, latest, metrics>>
      /\ dropping' \subseteq dropping /\ unsent' \subseteq unsent
      /\ unasked' \subseteq unasked /\ stopping' \in BOOLEAN
  BY DEF GateInv, GateTypeOK, SendTerminate, DropLink, SendReconfigure, SendReportLinks
<1>1. chan' \in [Gens -> Seq(RootCommands)] /\ QueuesFit' /\ SubscribesOnce'
  <2>1. CASE SendTerminate
    <3>1. latest \in Gens /\ Send(latest, Terminate)
      BY <2>1 DEF GateInv, GateTypeOK, SendTerminate
    <3>. QED
      BY <1>0, <3>1, SendKeepsQueues, CommandShapes DEF Fits
  <2>2. ASSUME NEW s \in Slots, DropLink(s)
        PROVE  chan' \in [Gens -> Seq(RootCommands)] /\ QueuesFit' /\ SubscribesOnce'
    <3>1. s[2] \in Gens /\ link[s] = "dropped"
      BY <2>2 DEF GateInv, DroppingFits, DropLink, Slots
    <3>2. Fits(s[2], Unsubscribe(s))
      BY <3>1, CommandShapes DEF Fits
    <3>3. Send(s[2], Unsubscribe(s)) \/ UNCHANGED chan
      BY <2>2 DEF DropLink
    <3>. QED
      BY <1>0, <3>1, <3>2, <3>3, SendKeepsQueues, CommandShapes
  <2>3. ASSUME NEW g \in Gens, SendReconfigure(g)
        PROVE  chan' \in [Gens -> Seq(RootCommands)] /\ QueuesFit' /\ SubscribesOnce'
    <3>1. g - 1 \in Gens /\ (g - 1) + 1 = g
      BY SMTT(30), <2>3, GateAssumption DEF GateInv, UnsentLater, SendReconfigure, Gens
    <3>2. Fits(g - 1, Reconfigure(g))
      BY <3>1, CommandShapes DEF Fits
    <3>3. Send(g - 1, Reconfigure(g)) \/ UNCHANGED chan
      BY <2>3 DEF SendReconfigure
    <3>. QED
      BY <1>0, <3>1, <3>2, <3>3, SendKeepsQueues, CommandShapes
  <2>4. ASSUME NEW g \in Gens, SendReportLinks(g)
        PROVE  chan' \in [Gens -> Seq(RootCommands)] /\ QueuesFit' /\ SubscribesOnce'
    <3>1. Send(g, ReportLinks) \/ UNCHANGED chan
      BY <2>4 DEF SendReportLinks
    <3>. QED
      BY <1>0, <3>1, SendKeepsQueues, CommandShapes DEF Fits
  <2>. QED
    BY <2>1, <2>2, <2>3, <2>4
<1>2. GateTypeOK'
  <2>1. unsent' \subseteq Gens /\ unasked' \subseteq Gens /\ dropping' \subseteq Slots
    BY <1>0 DEF GateInv, GateTypeOK
  <2>. QED
    BY <1>0, <1>1, <2>1 DEF GateInv, GateTypeOK
<1>3. Aside
  BY <1>0 DEF Aside
<1>4. ClonesFit' /\ DroppingFits' /\ UnsentLater' /\ CountsDrops' /\ SubscribedWhileConnected'
  BY <1>0 DEF GateInv, ClonesFit, DroppingFits, UnsentLater, CountsDrops,
              SubscribedWhileConnected
<1>. QED
  BY <1>1, <1>2, <1>3, <1>4, AsideKeeps DEF GateInv

(* ReportLinks and Terminate: forwarded to the clones, nothing else        *)
(* happens to the links.                                                   *)
LEMMA GateInvForwards ==
    ASSUME GateInv, GateReportLinks \/ GateTerminate
    PROVE  GateInv'
<1>0. /\ UNCHANGED <<gen, updates, clone, link, owner, told, latest, unsent, dropping,
                     unasked, stopping, metrics>>
      /\ root' \in {"running", "terminated"}
      /\ root = "running"
      /\ \E op \in {"ReportLinks", "Terminate"} : Receive(op)
      /\ \E cmd \in {ReportLinks, Terminate} : NotifyClones(cmd)
  BY DEF GateReportLinks, GateTerminate, Receive
<1>1. chan' \in [Gens -> Seq(RootCommands)] /\ QueuesFit' /\ SubscribesOnce'
  BY <1>0, ReceiveKeepsQueues
<1>2. PICK cmd \in {ReportLinks, Terminate} : NotifyClones(cmd)
  BY <1>0
<1>3. cmd \in CloneCommands /\ cmd.op # "FollowUnsubscribe"
  BY <1>2, CommandShapes
<1>4. cloneq \in [Clones -> Seq(CloneCommands)]
  BY DEF GateInv, GateTypeOK
<1>5. /\ cloneq' \in [Clones -> Seq(CloneCommands)]
      /\ \A c \in Clones : \A i \in 1..Len(cloneq'[c]) :
            \/ i \in 1..Len(cloneq[c]) /\ cloneq'[c][i] = cloneq[c][i]
            \/ cloneq'[c][i] = cmd
  BY <1>2, <1>3, <1>4, NotifyAdds
<1>6. ClonesFit'
  BY <1>0, <1>3, <1>5 DEF GateInv, ClonesFit
<1>7. GateTypeOK'
  BY <1>0, <1>1, <1>5 DEF GateInv, GateTypeOK
<1>8. Aside
  BY <1>0 DEF Aside
<1>9. DroppingFits' /\ UnsentLater' /\ CountsDrops' /\ SubscribedWhileConnected'
  BY <1>0 DEF GateInv, DroppingFits, UnsentLater, CountsDrops, SubscribedWhileConnected
<1>. QED
  BY <1>1, <1>6, <1>7, <1>8, <1>9, AsideKeeps DEF GateInv

(* A clone that appears, ends, or replays a command.  What it takes out of *)
(* the map belongs to a link that was dropped.                             *)
LEMMA GateInvClones ==
    ASSUME GateInv, NEW c \in Clones,
           GateClone(c) \/ CloneProcess(c) \/ CloneClosed(c) \/ CloneDrop(c)
    PROVE  GateInv'
<1>0. /\ UNCHANGED <<gen, root, chan, link, owner, told, latest, unsent, dropping, unasked,
                     stopping, metrics>>
      /\ cloneq' \in {cloneq, [cloneq EXCEPT ![c] = Tail(@)], [cloneq EXCEPT ![c] = <<>>]}
      /\ CloneProcess(c) \/ UNCHANGED updates
      /\ [cloneq EXCEPT ![c] = Tail(@)] = cloneq' => cloneq' = cloneq \/ cloneq[c] # <<>>
      /\ \E v \in {"live", "done"} : clone' = [clone EXCEPT ![c] = v] \/ clone' = clone
  BY SMTT(30) DEF GateInv, GateTypeOK, GateClone, CloneProcess, CloneClosed, CloneDrop
<1>1. cloneq \in [Clones -> Seq(CloneCommands)]
  BY DEF GateInv, GateTypeOK
<1>2. /\ cloneq' \in [Clones -> Seq(CloneCommands)]
      /\ \A d \in Clones : \A i \in 1..Len(cloneq'[d]) :
            \E j \in 1..Len(cloneq[d]) : cloneq'[d][i] = cloneq[d][j]
  <2>1. CASE cloneq' = cloneq
    BY <1>1, <2>1
  <2>2. CASE cloneq' = [cloneq EXCEPT ![c] = Tail(@)] /\ cloneq[c] # <<>>
    <3>1. cloneq' \in [Clones -> Seq(CloneCommands)]
      BY SMTT(30), <1>1, <2>2
    <3>2. \A i \in 1..Len(cloneq'[c]) :
             i + 1 \in 1..Len(cloneq[c]) /\ cloneq'[c][i] = cloneq[c][i + 1]
      BY SMTT(30), <1>1, <2>2
    <3>3. ASSUME NEW d \in Clones, NEW i \in 1..Len(cloneq'[d])
          PROVE  \E j \in 1..Len(cloneq[d]) : cloneq'[d][i] = cloneq[d][j]
      <4>1. CASE d = c
        BY <3>2, <4>1
      <4>2. CASE d # c
        BY <1>1, <2>2, <4>2
      <4>. QED
        BY <4>1, <4>2
    <3>. QED
      BY <3>1, <3>3
  <2>3. CASE cloneq' = [cloneq EXCEPT ![c] = <<>>]
    BY SMTT(30), <1>1, <2>3
  <2>. QED
    BY <1>0, <2>1, <2>2, <2>3
<1>3. ClonesFit'
  BY SMTT(30), <1>0, <1>2 DEF GateInv, ClonesFit
<1>4. updates' \subseteq Slots /\ SubscribedWhileConnected'
  <2>1. CASE UNCHANGED updates
    BY <1>0, <2>1 DEF GateInv, GateTypeOK, SubscribedWhileConnected
  <2>2. CASE CloneProcess(c)
    <3> DEFINE cmd == Head(cloneq[c])
    <3>1. cmd = cloneq[c][1] /\ 1 \in 1..Len(cloneq[c]) /\ cmd \in CloneCommands
      BY SMTT(30), <1>1, <2>2 DEF CloneProcess
    <3>2. cmd.op = "FollowUnsubscribe" => cmd.slot \in Slots /\ link[cmd.slot] = "dropped"
      BY <3>1, CloneShapes DEF GateInv, ClonesFit
    <3>3. cmd.op = "FollowSubscribe" => cmd.slot \in Slots
      BY <3>1, CloneShapes
    <3>4. updates' = CASE cmd.op = "FollowSubscribe" -> updates \cup {cmd.slot}
                       [] cmd.op = "FollowUnsubscribe" -> updates \ {cmd.slot}
                       [] OTHER -> updates
      BY <2>2 DEF CloneProcess, FrimInsert, FrimRemove
    <3> HIDE DEF cmd
    <3>. QED
      BY <1>0, <3>2, <3>3, <3>4 DEF GateInv, GateTypeOK, SubscribedWhileConnected
  <2>. QED
    BY <1>0, <2>1, <2>2
<1>5. clone' \in [Clones -> {"none", "live", "done"}]
  BY <1>0 DEF GateInv, GateTypeOK
<1>6. GateTypeOK'
  BY <1>0, <1>2, <1>4, <1>5 DEF GateInv, GateTypeOK
<1>7. Aside
  BY <1>0 DEF Aside
<1>8. QueuesFit' /\ SubscribesOnce' /\ DroppingFits' /\ UnsentLater' /\ CountsDrops'
  BY SMTT(30), <1>0 DEF GateInv, QueuesFit, Fits, SubscribesOnce, DroppingFits, UnsentLater, CountsDrops
<1>. QED
  BY <1>3, <1>4, <1>6, <1>7, <1>8, AsideKeeps DEF GateInv

(* Publishing counts updates and nothing else (update_data).               *)
LEMMA GateInvUpdates ==
    ASSUME GateInv, NEW p \in Publishers, UpdateData(p)
    PROVE  GateInv'
<1>0. UNCHANGED <<gen, root, chan, updates, clone, cloneq, link, owner, told, latest, unsent,
                  unasked, stopping, dropping>>
  BY DEF UpdateData
<1>1. metrics' \in [updates : 0..MaxUpdates, dropped : 0..MaxUpdates] /\ CountsDrops'
  BY SMTT(30), GateAssumption DEF GateInv, GateTypeOK, CountsDrops, UpdateData
<1>2. GateTypeOK'
  BY <1>0, <1>1 DEF GateInv, GateTypeOK
<1>3. Aside
  BY <1>0 DEF Aside
<1>4. /\ QueuesFit' /\ SubscribesOnce' /\ ClonesFit' /\ DroppingFits' /\ UnsentLater'
      /\ SubscribedWhileConnected'
  BY SMTT(30), <1>0 DEF GateInv, QueuesFit, Fits, SubscribesOnce, ClonesFit, DroppingFits, UnsentLater,
              SubscribedWhileConnected
<1>. QED
  BY <1>1, <1>2, <1>3, <1>4, AsideKeeps DEF GateInv

-----------------------------------------------------------------------------
(* Steps that move a link *)

(* Links that were dropped or are gone stay so, which is what the queued   *)
(* Unsubscribes and the panicked owners rest on.                           *)
Final == \A s \in Slots : link[s] \in {"dropped", "gone"} => link'[s] = link[s]

(* What the queued commands and the panics rest on is kept while the dropped *)
(* links stay dropped (Gate::process, Link::connect).                        *)
LEMMA FinalKeeps ==
    ASSUME GateInv, Final
    PROVE  /\ UNCHANGED cloneq => ClonesFit'
           /\ UNCHANGED dropping => DroppingFits'
           /\ (/\ gen' \in Gens /\ gen <= gen' /\ UNCHANGED owner
               /\ root = "dropped" => root' = "dropped") => PanicNeedsOvertaking'
<1>1. ASSUME UNCHANGED cloneq PROVE ClonesFit'
  <2> SUFFICES ASSUME NEW c \in Clones, NEW i \in 1..Len(cloneq[c]),
                      cloneq[c][i].op = "FollowUnsubscribe"
               PROVE  link'[cloneq[c][i].slot] = "dropped"
    BY <1>1 DEF ClonesFit
  <2>1. cloneq[c][i] \in CloneCommands
    BY SMTT(30) DEF GateInv, GateTypeOK
  <2>2. cloneq[c][i].slot \in Slots /\ link[cloneq[c][i].slot] = "dropped"
    BY <2>1, CloneShapes DEF GateInv, ClonesFit
  <2>. QED
    BY <2>2 DEF Final
<1>2. UNCHANGED dropping => DroppingFits'
  BY DEF GateInv, GateTypeOK, DroppingFits, Final
<1>3. ASSUME gen' \in Gens, gen <= gen', UNCHANGED owner, root = "dropped" => root' = "dropped"
      PROVE  PanicNeedsOvertaking'
  <2> SUFFICES ASSUME NEW o \in Owners, owner[o] = "panicked", root # "dropped"
               PROVE  \E g \in Gens : link'[<<o, g>>] = "gone" /\ g < gen'
    BY <1>3 DEF PanicNeedsOvertaking
  <2>1. PICK g \in Gens : link[<<o, g>>] = "gone" /\ g < gen
    BY DEF GateInv, PanicNeedsOvertaking
  <2>2. <<o, g>> \in Slots /\ g < gen'
    BY SMTT(30), <1>3, <2>1 DEF Slots, Gens, GateInv, GateTypeOK
  <2>. QED
    BY <2>1, <2>2 DEF Final
<1>. QED
  BY <1>1, <1>2, <1>3

(* Subscribe is answered once, on the channel it was sent on, so that a    *)
(* link becomes connected in the generation it belongs to and while its    *)
(* owner still waits.                                                      *)
LEMMA GateInvSubscribe == ASSUME GateInv, GateSubscribe PROVE GateInv'
<1> DEFINE s == Head(chan[gen]).slot
<1>0. /\ Receive("Subscribe") /\ updates' = updates \cup {s}
      /\ link' = [link EXCEPT ![s] = "connected"]
      /\ NotifyClones(FollowSubscribe(s))
      /\ UNCHANGED <<gen, root, clone, owner, told, latest, unsent, dropping,
                     unasked, stopping, metrics>>
  BY DEF GateSubscribe, FrimInsert
<1>1. /\ chan \in [Gens -> Seq(RootCommands)] /\ gen \in Gens
      /\ link \in [Slots -> {"none", "connecting", "waiting", "connected", "dropped", "gone"}]
      /\ cloneq \in [Clones -> Seq(CloneCommands)]
  BY DEF GateInv, GateTypeOK
<1>2. /\ chan' \in [Gens -> Seq(RootCommands)]
      /\ Head(chan[gen]) = chan[gen][1] /\ 1 \in 1..Len(chan[gen])
      /\ Head(chan[gen]) \in RootCommands /\ Head(chan[gen]).op = "Subscribe"
      /\ \A h \in Gens \ {gen} : chan'[h] = chan[h]
      /\ Len(chan'[gen]) = Len(chan[gen]) - 1
      /\ \A i \in 1..Len(chan'[gen]) : chan'[gen][i] = chan[gen][i + 1]
  BY <1>0, <1>1, ReceiveTakes
<1>3. s \in Slots /\ s[2] = gen /\ link[s] = "waiting"
  <2>1. Fits(gen, Head(chan[gen]))
    BY <1>1, <1>2 DEF GateInv, QueuesFit
  <2>. QED
    BY <1>2, <2>1, RootShapes DEF Fits
<1>4. \A h \in Gens : \A i \in 1..Len(chan'[h]) :
          \E j \in 1..Len(chan[h]) : /\ chan'[h][i] = chan[h][j]
                                     /\ h = gen => j = i + 1
  <2>1. \A i \in 1..Len(chan'[gen]) : i + 1 \in 1..Len(chan[gen])
    BY SMTT(30), <1>1, <1>2
  <2>. QED
    BY <1>2, <2>1
<1> HIDE DEF s
<1>5. Final /\ \A t \in Slots \ {s} : link'[t] = link[t]
  BY <1>0, <1>1, <1>3 DEF Final
<1>6. QueuesFit'
  <2> SUFFICES ASSUME NEW g \in Gens, NEW i \in 1..Len(chan'[g])
               PROVE  Fits(g, chan[g][i])'
    BY DEF QueuesFit
  <2>1. PICK j \in 1..Len(chan[g]) : chan'[g][i] = chan[g][j] /\ (g = gen => j = i + 1)
    BY <1>4
  <2>2. chan[g][j] \in RootCommands /\ Fits(g, chan[g][j])
    BY SMTT(30), <1>1 DEF GateInv, QueuesFit
  <2>3. ASSUME chan[g][j].op = "Subscribe"
        PROVE  chan[g][j].slot \in Slots /\ chan[g][j].slot # s
    <3>1. CASE g = gen
      <4>1. j # 1
        BY SMTT(30), <2>1, <3>1
      <4>. QED
        BY SMTT(30), <1>2, <2>2, <2>3, <3>1, <4>1, RootShapes DEF GateInv, SubscribesOnce, s
    <3>2. CASE g # gen
      BY <1>3, <2>2, <2>3, <3>2, RootShapes DEF Fits
    <3>. QED
      BY <3>1, <3>2
  <2>4. ASSUME chan[g][j].op = "Unsubscribe"
        PROVE  chan[g][j].slot \in Slots /\ chan[g][j].slot # s
    BY <1>3, <2>2, <2>4, RootShapes DEF Fits
  <2>. QED
    BY <1>5, <2>1, <2>2, <2>3, <2>4 DEF Fits
<1>7. SubscribesOnce'
  <2> SUFFICES ASSUME NEW g \in Gens, NEW i \in 1..Len(chan'[g]), NEW j \in 1..Len(chan'[g]),
                      i # j, chan'[g][i].op = "Subscribe", chan'[g][j].op = "Subscribe"
               PROVE  chan'[g][i].slot # chan'[g][j].slot
    BY DEF SubscribesOnce
  <2>1. CASE g # gen
    <3>1. chan'[g] = chan[g]
      BY <1>2, <2>1
    <3>. QED
      BY <3>1 DEF GateInv, SubscribesOnce
  <2>2. CASE g = gen
    <3>1. i + 1 # j + 1 /\ i + 1 \in 1..Len(chan[gen]) /\ j + 1 \in 1..Len(chan[gen])
      BY SMTT(30), <1>1, <1>2, <2>2
    <3>2. chan'[g][i] = chan[gen][i + 1] /\ chan'[g][j] = chan[gen][j + 1]
      BY <1>2, <2>2
    <3>. QED
      BY <1>1, <3>1, <3>2 DEF GateInv, SubscribesOnce
  <2>. QED
    BY <2>1, <2>2
<1>8. /\ FollowSubscribe(s) \in CloneCommands
      /\ FollowSubscribe(s).op # "FollowUnsubscribe"
  BY <1>3, CommandShapes
<1>9. /\ cloneq' \in [Clones -> Seq(CloneCommands)]
      /\ \A c \in Clones : \A i \in 1..Len(cloneq'[c]) :
            \/ i \in 1..Len(cloneq[c]) /\ cloneq'[c][i] = cloneq[c][i]
            \/ cloneq'[c][i] = FollowSubscribe(s)
  BY <1>0, <1>1, <1>8, NotifyAdds
<1>10. ClonesFit'
  <2> SUFFICES ASSUME NEW c \in Clones, NEW i \in 1..Len(cloneq'[c]),
                      cloneq'[c][i].op = "FollowUnsubscribe"
               PROVE  link'[cloneq'[c][i].slot] = "dropped"
    BY DEF ClonesFit
  <2>1. i \in 1..Len(cloneq[c]) /\ cloneq'[c][i] = cloneq[c][i]
    BY <1>8, <1>9
  <2>2. cloneq[c][i] \in CloneCommands
    BY SMTT(30), <1>1, <2>1
  <2>. QED
    BY SMTT(30), <1>5, <2>1, <2>2, CloneShapes DEF GateInv, ClonesFit, Final
<1>11. AnsweredInTime' /\ UnsentLater' /\ CountsDrops'
  BY SMTT(30), <1>0, <1>1, <1>3, <1>5 DEF GateInv, AnsweredInTime, UnsentLater, CountsDrops, Gens
<1>12. ToldInOrder'
  <2>1. \A o \in Owners : \A i \in 1..Len(told[o]) :
           <<o, told[o][i]>> \in Slots /\ <<o, told[o][i]>> # s
    BY SMTT(30), <1>3 DEF GateInv, GateTypeOK, ToldInOrder, Slots
  <2>2. \A o \in Owners : \A i \in 1..Len(told[o]) : link'[<<o, told[o][i]>>] = "none"
    BY <1>5, <2>1 DEF GateInv, ToldInOrder
  <2>3. \A t \in Slots : t[2] > latest => link'[t] = "none"
    BY <1>3, <1>5 DEF GateInv, ToldInOrder
  <2>. QED
    BY <1>0, <2>2, <2>3 DEF GateInv, ToldInOrder
<1>13. SubscribedWhileConnected'
  BY <1>0, <1>5 DEF GateInv, SubscribedWhileConnected
<1>14. GateTypeOK'
  <2>1. /\ updates' \subseteq Slots
        /\ link' \in [Slots -> {"none", "connecting", "waiting", "connected", "dropped", "gone"}]
    BY <1>0, <1>1, <1>3 DEF GateInv, GateTypeOK
  <2>. QED
    BY <1>0, <1>2, <1>9, <2>1 DEF GateInv, GateTypeOK
<1>15. DroppingFits' /\ PanicNeedsOvertaking'
  <2>1. gen' \in Gens /\ gen <= gen' /\ UNCHANGED <<owner, dropping>> /\ root' = root
    BY SMTT(30), <1>0, <1>1 DEF Gens
  <2>. QED
    BY <1>5, <2>1, FinalKeeps
<1>. QED
  BY <1>6, <1>7, <1>10, <1>11, <1>12, <1>13, <1>14, <1>15 DEF GateInv

(* Unsubscribe takes a slot out of the map whose link was dropped, and     *)
(* that is all a clone may later repeat.                                   *)
LEMMA GateInvUnsubscribe == ASSUME GateInv, GateUnsubscribe PROVE GateInv'
<1> DEFINE s == Head(chan[gen]).slot
<1>0. /\ Receive("Unsubscribe") /\ updates' = updates \ {s}
      /\ NotifyClones(FollowUnsubscribe(s))
      /\ UNCHANGED <<gen, root, clone, link, owner, told, latest, unsent, dropping,
                     unasked, stopping, metrics>>
  BY DEF GateUnsubscribe, FrimRemove
<1>1. /\ chan \in [Gens -> Seq(RootCommands)] /\ gen \in Gens
      /\ cloneq \in [Clones -> Seq(CloneCommands)]
  BY DEF GateInv, GateTypeOK
<1>2. /\ Head(chan[gen]) = chan[gen][1] /\ 1 \in 1..Len(chan[gen])
      /\ Head(chan[gen]) \in RootCommands /\ Head(chan[gen]).op = "Unsubscribe"
  BY <1>0, <1>1, ReceiveTakes
<1>3. s \in Slots /\ link[s] = "dropped"
  <2>1. Fits(gen, Head(chan[gen]))
    BY <1>1, <1>2 DEF GateInv, QueuesFit
  <2>. QED
    BY <1>2, <2>1, RootShapes DEF Fits
<1> HIDE DEF s
<1>4. chan' \in [Gens -> Seq(RootCommands)] /\ QueuesFit' /\ SubscribesOnce'
  BY <1>0, ReceiveKeepsQueues
<1>5. FollowUnsubscribe(s) \in CloneCommands /\ FollowUnsubscribe(s).slot = s
  BY <1>3, CommandShapes
<1>6. /\ cloneq' \in [Clones -> Seq(CloneCommands)]
      /\ \A c \in Clones : \A i \in 1..Len(cloneq'[c]) :
            \/ i \in 1..Len(cloneq[c]) /\ cloneq'[c][i] = cloneq[c][i]
            \/ cloneq'[c][i] = FollowUnsubscribe(s)
  BY <1>0, <1>1, <1>5, NotifyAdds
<1>7. ClonesFit'
  BY <1>0, <1>3, <1>5, <1>6 DEF GateInv, ClonesFit
<1>8. GateTypeOK'
  <2>1. updates' \subseteq Slots
    BY <1>0 DEF GateInv, GateTypeOK
  <2>. QED
    BY <1>0, <1>4, <1>6, <2>1 DEF GateInv, GateTypeOK
<1>9. Aside
  BY <1>0 DEF Aside
<1>10. DroppingFits' /\ UnsentLater' /\ CountsDrops' /\ SubscribedWhileConnected'
  BY <1>0, <1>3 DEF GateInv, DroppingFits, UnsentLater, CountsDrops, SubscribedWhileConnected
<1>. QED
  BY <1>4, <1>7, <1>8, <1>9, <1>10, AsideKeeps DEF GateInv

(* Links that wait for their channel are lost with it.                     *)
LEMMA AbandonMoves ==
    ASSUME GateInv, NEW slots \in SUBSET Slots, Abandon(slots),
           \A s \in slots : link[s] \in {"connecting", "waiting"}
    PROVE  /\ link' \in [Slots -> {"none", "connecting", "waiting", "connected", "dropped", "gone"}]
           /\ owner' \in [Owners -> {"running", "panicked"}]
           /\ Final
           /\ \A s \in slots : link'[s] = "gone"
           /\ \A s \in Slots \ slots : link'[s] = link[s]
           /\ \A o \in Owners : owner'[o] = "panicked" =>
                 owner[o] = "panicked" \/ \E s \in slots : s[1] = o
<1>1. /\ link \in [Slots -> {"none", "connecting", "waiting", "connected", "dropped", "gone"}]
      /\ owner \in [Owners -> {"running", "panicked"}]
  BY DEF GateInv, GateTypeOK
<1>2. /\ link' = [s \in Slots |-> IF s \in slots THEN "gone" ELSE link[s]]
      /\ owner' = [o \in Owners |-> IF \E s \in slots : s[1] = o THEN "panicked" ELSE owner[o]]
  BY DEF Abandon
<1>3. /\ \A s \in slots : link'[s] = "gone"
      /\ \A s \in Slots \ slots : link'[s] = link[s]
  BY <1>2
<1>4. Final
  BY <1>3 DEF Final
<1>5. \A o \in Owners : owner'[o] = "panicked" =>
         owner[o] = "panicked" \/ \E s \in slots : s[1] = o
  BY <1>2
<1>. QED
  BY <1>1, <1>2, <1>3, <1>4, <1>5

(* What losing such links leaves alone.                                    *)
LEMMA AbandonKeeps ==
    ASSUME GateInv, NEW slots \in SUBSET Slots, Abandon(slots),
           \A s \in slots : link[s] \in {"connecting", "waiting"},
           UNCHANGED <<told, latest, unsent, dropping, metrics>>,
           gen' \in Gens, gen <= gen'
    PROVE  AnsweredInTime' /\ ToldInOrder' /\ UnsentLater' /\ CountsDrops' /\ DroppingFits'
<1>1. /\ Final
      /\ \A s \in slots : link'[s] = "gone"
      /\ \A s \in Slots \ slots : link'[s] = link[s]
  BY AbandonMoves
<1>2. \A s \in Slots : link'[s] = "connected" => link[s] = "connected"
  BY <1>1
<1>3. \A s \in Slots : link[s] = "none" => link'[s] = "none"
  BY <1>1
<1>4. gen \in Nat /\ gen' \in Nat /\ \A s \in Slots : s[2] \in Nat
  BY SMTT(30) DEF GateInv, GateTypeOK, Gens, Slots
<1>5. AnsweredInTime'
  BY SMTT(30), <1>2, <1>4 DEF GateInv, AnsweredInTime
<1>6. ToldInOrder'
  <2>1. \A o \in Owners : \A i \in 1..Len(told[o]) : <<o, told[o][i]>> \in Slots
    BY SMTT(30) DEF GateInv, GateTypeOK, Slots
  <2>2. \A o \in Owners : \A i \in 1..Len(told[o]) : link'[<<o, told[o][i]>>] = "none"
    BY <1>3, <2>1 DEF GateInv, ToldInOrder
  <2>. QED
    BY <1>3, <2>2 DEF GateInv, ToldInOrder
<1>7. DroppingFits'
  BY <1>1, FinalKeeps
<1>. QED
  BY <1>5, <1>6, <1>7 DEF GateInv, UnsentLater, CountsDrops

(* The Subscribes behind a Reconfigure are those of the old generation.    *)
LEMMA OrphansWait ==
    ASSUME GateInv
    PROVE  /\ Orphans(gen) \in SUBSET Slots
           /\ \A s \in Orphans(gen) : link[s] = "waiting" /\ s[2] = gen
<1> SUFFICES ASSUME NEW s \in Orphans(gen)
             PROVE  s \in Slots /\ link[s] = "waiting" /\ s[2] = gen
  OBVIOUS
<1>1. PICK i \in 2..Len(chan[gen]) :
         chan[gen][i] \in {Subscribe(t) : t \in Slots} /\ s = chan[gen][i].slot
  BY DEF Orphans
<1>2. chan \in [Gens -> Seq(RootCommands)] /\ gen \in Gens
  BY DEF GateInv, GateTypeOK
<1>3. i \in 1..Len(chan[gen])
  BY SMTT(30), <1>2
<1>4. PICK t \in Slots : chan[gen][i] = Subscribe(t)
  BY <1>1
<1>5. Fits(gen, chan[gen][i])
  BY <1>2, <1>3 DEF GateInv, QueuesFit
<1>. QED
  BY SMTT(30), <1>1, <1>4, <1>5, CommandShapes DEF Fits

(* A reconfiguration installs the next channel.  The links of the old one  *)
(* that were answered stay connected, in a generation that has passed.     *)
LEMMA GateInvReconfigure == ASSUME GateInv, GateReconfigure PROVE GateInv'
<1>0. /\ chan[gen] # <<>> /\ Head(chan[gen]).op = "Reconfigure"
      /\ gen' = Head(chan[gen]).to
      /\ chan' = [chan EXCEPT ![gen] = <<>>]
      /\ updates' = {}
      /\ Abandon(Orphans(gen))
      /\ NotifyClones(FollowReconfigure)
      /\ UNCHANGED <<root, clone, told, latest, unsent, dropping, unasked,
                     stopping, metrics>>
  BY DEF GateReconfigure
<1>1. /\ chan \in [Gens -> Seq(RootCommands)] /\ gen \in Gens
      /\ cloneq \in [Clones -> Seq(CloneCommands)]
  BY DEF GateInv, GateTypeOK
<1>2. gen' \in Gens /\ gen' = gen + 1
  <2>1. Head(chan[gen]) = chan[gen][1] /\ 1 \in 1..Len(chan[gen])
        /\ Head(chan[gen]) \in RootCommands
    BY SMTT(30), <1>0, <1>1
  <2>2. Fits(gen, Head(chan[gen]))
    BY <1>1, <2>1 DEF GateInv, QueuesFit
  <2>. QED
    BY <1>0, <2>1, <2>2, RootShapes DEF Fits
<1>3. gen < gen' /\ gen <= gen' /\ gen \in Nat
  BY SMTT(30), <1>1, <1>2 DEF Gens
<1> DEFINE lost == Orphans(gen)
<1>4. lost \in SUBSET Slots /\ \A s \in lost : link[s] = "waiting" /\ s[2] = gen
  BY OrphansWait
<1>5. Abandon(lost)
  BY <1>0
<1> HIDE DEF lost
<1>6. /\ link' \in [Slots -> {"none", "connecting", "waiting", "connected", "dropped", "gone"}]
      /\ owner' \in [Owners -> {"running", "panicked"}]
      /\ Final
      /\ \A s \in lost : link'[s] = "gone"
      /\ \A s \in Slots \ lost : link'[s] = link[s]
      /\ \A o \in Owners : owner'[o] = "panicked" =>
            owner[o] = "panicked" \/ \E s \in lost : s[1] = o
  BY SMTT(30), <1>4, <1>5, AbandonMoves
<1>7. AnsweredInTime' /\ ToldInOrder' /\ UnsentLater' /\ CountsDrops' /\ DroppingFits'
  BY <1>0, <1>2, <1>3, <1>4, <1>5, AbandonKeeps
<1>8. /\ chan' \in [Gens -> Seq(RootCommands)] /\ chan'[gen] = <<>>
      /\ \A h \in Gens \ {gen} : chan'[h] = chan[h]
  BY SMTT(30), <1>0, <1>1
<1>9. QueuesFit'
  <2> SUFFICES ASSUME NEW g \in Gens, NEW i \in 1..Len(chan'[g])
               PROVE  Fits(g, chan[g][i])'
    BY DEF QueuesFit
  <2>1. g # gen
    BY SMTT(30), <1>8
  <2>2. /\ chan'[g][i] = chan[g][i] /\ i \in 1..Len(chan[g])
    BY <1>8, <2>1
  <2>3. chan[g][i] \in RootCommands /\ Fits(g, chan[g][i])
    BY <2>2, QueuedFits
  <2>4. chan[g][i].op \in {"Subscribe", "Unsubscribe"} =>
           chan[g][i].slot \in Slots /\ chan[g][i].slot \notin lost
    BY <1>4, <2>1, <2>3, RootShapes DEF Fits
  <2>. QED
    BY SMTT(30), <1>6, <2>2, <2>3, <2>4 DEF Fits
<1>10. SubscribesOnce'
  <2> SUFFICES ASSUME NEW g \in Gens, NEW i \in 1..Len(chan'[g]), NEW j \in 1..Len(chan'[g]),
                      i # j, chan'[g][i].op = "Subscribe", chan'[g][j].op = "Subscribe"
               PROVE  chan'[g][i].slot # chan'[g][j].slot
    BY DEF SubscribesOnce
  <2>1. g # gen
    BY SMTT(30), <1>8
  <2>2. chan'[g] = chan[g]
    BY <1>8, <2>1
  <2>. QED
    BY <2>2 DEF GateInv, SubscribesOnce
<1>11. /\ cloneq' \in [Clones -> Seq(CloneCommands)]
       /\ \A c \in Clones : \A i \in 1..Len(cloneq'[c]) :
            \/ i \in 1..Len(cloneq[c]) /\ cloneq'[c][i] = cloneq[c][i]
            \/ cloneq'[c][i] = FollowReconfigure
  BY <1>0, <1>1, CommandShapes, NotifyAdds
<1>12. ClonesFit'
  <2> SUFFICES ASSUME NEW c \in Clones, NEW i \in 1..Len(cloneq'[c]),
                      cloneq'[c][i].op = "FollowUnsubscribe"
               PROVE  link'[cloneq'[c][i].slot] = "dropped"
    BY DEF ClonesFit
  <2>1. i \in 1..Len(cloneq[c]) /\ cloneq'[c][i] = cloneq[c][i]
    BY <1>11, CommandShapes
  <2>2. cloneq[c][i] \in CloneCommands
    BY SMTT(30), <1>1, <2>1
  <2>. QED
    BY SMTT(30), <1>6, <2>1, <2>2, CloneShapes DEF GateInv, ClonesFit, Final
<1>13. SubscribedWhileConnected'
  <2> SUFFICES ASSUME NEW s \in Slots, link'[s] = "connected", s[2] = gen'
               PROVE  FALSE
    BY DEF SubscribedWhileConnected
  <2>1. link[s] = "connected"
    BY <1>6
  <2>2. s[2] <= gen
    BY <2>1 DEF GateInv, AnsweredInTime
  <2>. QED
    BY SMTT(30), <1>2, <1>3, <2>2
<1>14. PanicNeedsOvertaking'
  <2> SUFFICES ASSUME NEW o \in Owners, owner'[o] = "panicked", root # "dropped"
               PROVE  \E g \in Gens : link'[<<o, g>>] = "gone" /\ g < gen'
    BY <1>0 DEF PanicNeedsOvertaking
  <2>1. CASE owner[o] = "panicked"
    <3>1. PICK g \in Gens : link[<<o, g>>] = "gone" /\ g < gen
      BY <2>1 DEF GateInv, PanicNeedsOvertaking
    <3>2. <<o, g>> \in Slots /\ g < gen'
      BY SMTT(30), <1>2, <1>3, <3>1 DEF Slots, Gens
    <3>. QED
      BY <1>6, <3>1, <3>2 DEF Final
  <2>2. CASE \E s \in lost : s[1] = o
    <3>1. PICK s \in lost : s[1] = o
      BY <2>2
    <3>2. s = <<o, gen>>
      BY SMTT(30), <1>4, <3>1 DEF Slots
    <3>. QED
      BY <1>1, <1>3, <1>6, <3>2
  <2>. QED
    BY <1>6, <2>1, <2>2
<1>15. GateTypeOK'
  <2>1. updates' \subseteq Slots
    BY <1>0
  <2>. QED
    BY <1>0, <1>2, <1>6, <1>8, <1>11, <2>1 DEF GateInv, GateTypeOK
<1>. QED
  BY <1>7, <1>9, <1>10, <1>12, <1>13, <1>14, <1>15 DEF GateInv

(* Dropping the gate closes every channel.                                 *)
LEMMA GateInvDrop == ASSUME GateInv, GateDrop PROVE GateInv'
<1> DEFINE lost == {s \in Slots : \E i \in 1..Len(chan[s[2]]) : chan[s[2]][i] = Subscribe(s)}
<1>0. /\ root' = "dropped" /\ chan' = [g \in Gens |-> <<>>] /\ Abandon(lost)
      /\ UNCHANGED <<gen, updates, clone, cloneq, told, latest, unsent,
                     dropping, unasked, stopping, metrics>>
  BY DEF GateDrop
<1>1. chan \in [Gens -> Seq(RootCommands)] /\ gen \in Gens /\ gen' = gen /\ gen \in Nat
  BY SMTT(30), <1>0 DEF GateInv, GateTypeOK, Gens
<1>2. lost \in SUBSET Slots /\ \A s \in lost : link[s] = "waiting"
  <2> SUFFICES ASSUME NEW s \in lost PROVE link[s] = "waiting"
    OBVIOUS
  <2>1. PICK i \in 1..Len(chan[s[2]]) : chan[s[2]][i] = Subscribe(s)
    OBVIOUS
  <2>2. s[2] \in Gens
    BY DEF Slots
  <2>3. Fits(s[2], chan[s[2]][i])
    BY <2>2 DEF GateInv, QueuesFit
  <2>. QED
    BY SMTT(30), <2>1, <2>3, CommandShapes DEF Fits
<1> HIDE DEF lost
<1>3. /\ link' \in [Slots -> {"none", "connecting", "waiting", "connected", "dropped", "gone"}]
      /\ owner' \in [Owners -> {"running", "panicked"}]
      /\ Final
      /\ \A s \in lost : link'[s] = "gone"
      /\ \A s \in Slots \ lost : link'[s] = link[s]
  BY <1>0, <1>2, AbandonMoves
<1>4. AnsweredInTime' /\ ToldInOrder' /\ UnsentLater' /\ CountsDrops' /\ DroppingFits'
  BY SMTT(30), <1>0, <1>1, <1>2, AbandonKeeps
<1>5. QueuesFit' /\ SubscribesOnce'
  BY SMTT(30), <1>0 DEF QueuesFit, SubscribesOnce
<1>6. ClonesFit'
  BY <1>0, <1>3, FinalKeeps
<1>7. SubscribedWhileConnected' /\ PanicNeedsOvertaking'
  BY <1>0, <1>3 DEF GateInv, SubscribedWhileConnected, PanicNeedsOvertaking
<1>8. chan' \in [Gens -> Seq(RootCommands)] /\ root' \in {"running", "terminated", "dropped"}
  BY SMTT(30), <1>0
<1>9. GateTypeOK'
  BY <1>0, <1>3, <1>8 DEF GateInv, GateTypeOK
<1>. QED
  BY <1>4, <1>5, <1>6, <1>7, <1>9 DEF GateInv

(* connect sends the one Subscribe of its link, or finds the channel       *)
(* closed: the gate dropped, or replaced by a later reload.                *)
LEMMA GateInvConnect ==
    ASSUME GateInv, NEW s \in Slots, LinkConnect(s)
    PROVE  GateInv'
<1>0. /\ link[s] = "connecting"
      /\ UNCHANGED <<gen, root, updates, clone, cloneq, told, latest, unsent,
                     dropping, unasked, stopping, metrics>>
  BY DEF LinkConnect
<1>1. /\ chan \in [Gens -> Seq(RootCommands)] /\ gen \in Gens /\ gen' = gen
      /\ gen \in Nat /\ s[2] \in Gens /\ s[2] \in Nat /\ s[1] \in Owners
      /\ link \in [Slots -> {"none", "connecting", "waiting", "connected", "dropped", "gone"}]
  BY SMTT(30), <1>0 DEF GateInv, GateTypeOK, Gens, Slots
<1>2. CASE /\ Send(s[2], Subscribe(s))
           /\ link' = [link EXCEPT ![s] = "waiting"]
           /\ UNCHANGED owner
  <2>1. /\ link'[s] = "waiting" /\ \A t \in Slots \ {s} : link'[t] = link[t]
        /\ link' \in [Slots -> {"none", "connecting", "waiting", "connected", "dropped", "gone"}]
    BY <1>1, <1>2
  <2>2. Final
    BY <1>0, <2>1 DEF Final
  <2>3. /\ chan' \in [Gens -> Seq(RootCommands)]
        /\ \A h \in Gens \ {s[2]} : chan'[h] = chan[h]
        /\ Len(chan'[s[2]]) = Len(chan[s[2]]) + 1
        /\ \A i \in 1..Len(chan[s[2]]) : chan'[s[2]][i] = chan[s[2]][i]
        /\ chan'[s[2]][Len(chan[s[2]]) + 1] = Subscribe(s)
    <3>1. Subscribe(s) \in RootCommands
      BY CommandShapes
    <3>. QED
      BY <1>1, <1>2, <3>1, SendAdds
  <2>4. \A g \in Gens : \A i \in 1..Len(chan'[g]) :
           \/ i \in 1..Len(chan[g]) /\ chan'[g][i] = chan[g][i]
           \/ g = s[2] /\ i = Len(chan[s[2]]) + 1 /\ chan'[g][i] = Subscribe(s)
    <3> SUFFICES ASSUME NEW g \in Gens, NEW i \in 1..Len(chan'[g])
                 PROVE  \/ i \in 1..Len(chan[g]) /\ chan'[g][i] = chan[g][i]
                        \/ g = s[2] /\ i = Len(chan[s[2]]) + 1 /\ chan'[g][i] = Subscribe(s)
      OBVIOUS
    <3>1. CASE g # s[2]
      BY <2>3, <3>1
    <3>2. CASE g = s[2]
      <4>2. PICK k : k = Len(chan[s[2]])
        OBVIOUS
      <4>3. k \in Nat /\ i \in 1..(k + 1)
        BY <1>1, <2>3, <3>2, <4>2, LenIsNat
      <4>4. i \in 1..k \/ i = k + 1
        BY SMTT(30), <4>3
      <4>1. i \in 1..Len(chan[s[2]]) \/ i = Len(chan[s[2]]) + 1
        BY <4>2, <4>4
      <4>. QED
        BY <2>3, <3>2, <4>1
    <3>. QED
      BY <3>1, <3>2
  <2>5. \A g \in Gens : \A i \in 1..Len(chan[g]) :
           chan[g][i].op \in {"Subscribe", "Unsubscribe"} =>
              chan[g][i].slot \in Slots /\ chan[g][i].slot # s
    <3> SUFFICES ASSUME NEW g \in Gens, NEW i \in 1..Len(chan[g]),
                        chan[g][i].op \in {"Subscribe", "Unsubscribe"}
                 PROVE  chan[g][i].slot \in Slots /\ chan[g][i].slot # s
      OBVIOUS
    <3>1. chan[g][i] \in RootCommands /\ Fits(g, chan[g][i])
      BY QueuedFits
    <3>. QED
      BY <1>0, <3>1, RootShapes DEF Fits
  <2>6. QueuesFit'
    <3> SUFFICES ASSUME NEW g \in Gens, NEW i \in 1..Len(chan'[g])
                 PROVE  Fits(g, chan[g][i])'
      BY DEF QueuesFit
    <3>1. CASE i \in 1..Len(chan[g]) /\ chan'[g][i] = chan[g][i]
      <4>1. Fits(g, chan[g][i])
        BY <3>1 DEF GateInv, QueuesFit
      <4>. QED
        BY <2>1, <2>5, <3>1, <4>1 DEF Fits
    <3>2. CASE g = s[2] /\ chan'[g][i] = Subscribe(s)
      BY SMTT(30), <2>1, <3>2, CommandShapes DEF Fits
    <3>. QED
      BY <2>4, <3>1, <3>2
  <2>7. SubscribesOnce'
    <3> SUFFICES ASSUME NEW g \in Gens, NEW i \in 1..Len(chan'[g]), NEW j \in 1..Len(chan'[g]),
                        i # j, chan'[g][i].op = "Subscribe", chan'[g][j].op = "Subscribe"
                 PROVE  chan'[g][i].slot # chan'[g][j].slot
      BY DEF SubscribesOnce
    <3>1. CASE /\ i \in 1..Len(chan[g]) /\ chan'[g][i] = chan[g][i]
               /\ j \in 1..Len(chan[g]) /\ chan'[g][j] = chan[g][j]
      BY <3>1 DEF GateInv, SubscribesOnce
    <3>2. CASE /\ i \in 1..Len(chan[g]) /\ chan'[g][i] = chan[g][i]
               /\ chan'[g][j] = Subscribe(s)
      BY SMTT(30), <2>5, <3>2, CommandShapes
    <3>3. CASE /\ j \in 1..Len(chan[g]) /\ chan'[g][j] = chan[g][j]
               /\ chan'[g][i] = Subscribe(s)
      BY SMTT(30), <2>5, <3>3, CommandShapes
    <3>. QED
      BY <2>4, <3>1, <3>2, <3>3
  <2>8. AnsweredInTime' /\ UnsentLater' /\ CountsDrops' /\ SubscribedWhileConnected'
    BY <1>0, <2>1 DEF GateInv, AnsweredInTime, UnsentLater, CountsDrops, SubscribedWhileConnected
  <2>9. ToldInOrder'
    <3>1. \A t \in Slots : link[t] = "none" => link'[t] = "none"
      BY <1>0, <2>1
    <3>2. \A o \in Owners : \A i \in 1..Len(told[o]) : <<o, told[o][i]>> \in Slots
      BY SMTT(30) DEF GateInv, GateTypeOK, Slots
    <3>. QED
      BY <1>0, <3>1, <3>2 DEF GateInv, ToldInOrder
  <2>10. ClonesFit' /\ DroppingFits' /\ PanicNeedsOvertaking'
    BY SMTT(30), <1>0, <1>1, <1>2, <2>2, FinalKeeps
  <2>11. GateTypeOK'
    BY <1>0, <1>2, <2>1, <2>3 DEF GateInv, GateTypeOK
  <2>. QED
    BY <2>6, <2>7, <2>8, <2>9, <2>10, <2>11 DEF GateInv
<1>3. CASE ~Open(s[2]) /\ Abandon({s}) /\ UNCHANGED chan
  <2>1. /\ link' \in [Slots -> {"none", "connecting", "waiting", "connected", "dropped", "gone"}]
        /\ owner' \in [Owners -> {"running", "panicked"}]
        /\ Final
        /\ link'[s] = "gone"
        /\ \A t \in Slots \ {s} : link'[t] = link[t]
        /\ \A o \in Owners : owner'[o] = "panicked" =>
              owner[o] = "panicked" \/ \E t \in {s} : t[1] = o
    BY <1>0, <1>3, AbandonMoves
  <2>2. AnsweredInTime' /\ ToldInOrder' /\ UnsentLater' /\ CountsDrops' /\ DroppingFits'
    BY SMTT(30), <1>0, <1>1, <1>3, AbandonKeeps
  <2>3. QueuesFit' /\ SubscribesOnce'
    <3>1. ASSUME NEW g \in Gens, NEW i \in 1..Len(chan[g])
          PROVE  Fits(g, chan[g][i])'
      <4>1. chan[g][i] \in RootCommands /\ Fits(g, chan[g][i])
        BY SMTT(30), <1>1 DEF GateInv, QueuesFit
      <4>2. chan[g][i].op \in {"Subscribe", "Unsubscribe"} =>
               chan[g][i].slot \in Slots /\ chan[g][i].slot # s
        BY <1>0, <4>1, RootShapes DEF Fits
      <4>. QED
        BY <1>3, <2>1, <4>1, <4>2 DEF Fits
    <3>. QED
      BY SMTT(30), <1>3, <3>1 DEF GateInv, QueuesFit, SubscribesOnce
  <2>4. ClonesFit' /\ SubscribedWhileConnected'
    BY <1>0, <2>1, FinalKeeps DEF GateInv, SubscribedWhileConnected
  <2>5. PanicNeedsOvertaking'
    <3> SUFFICES ASSUME NEW o \in Owners, owner'[o] = "panicked", root # "dropped"
                 PROVE  \E g \in Gens : link'[<<o, g>>] = "gone" /\ g < gen
      BY <1>0 DEF PanicNeedsOvertaking
    <3>1. CASE owner[o] = "panicked"
      <4>1. PICK g \in Gens : link[<<o, g>>] = "gone" /\ g < gen
        BY <3>1 DEF GateInv, PanicNeedsOvertaking
      <4>. QED
        BY <2>1, <4>1 DEF Slots, Final
    <3>2. CASE s[1] = o
      <4>1. s = <<o, s[2]>> /\ s[2] < gen
        BY SMTT(30), <1>1, <1>3, <3>2 DEF Slots, Open
      <4>. QED
        BY <1>1, <2>1, <4>1
    <3>. QED
      BY <2>1, <3>1, <3>2
  <2>6. GateTypeOK'
    BY <1>0, <1>3, <2>1 DEF GateInv, GateTypeOK
  <2>. QED
    BY <2>2, <2>3, <2>4, <2>5, <2>6 DEF GateInv
<1>. QED
  BY <1>2, <1>3 DEF LinkConnect

(* An owner that is reconfigured drops the links that were answered and    *)
(* starts on the link of the next generation it was told of.               *)
LEMMA GateInvOwner ==
    ASSUME GateInv, NEW o \in Owners, OwnerReconfigure(o)
    PROVE  GateInv'
<1> DEFINE old == {s \in Slots : s[1] = o /\ link[s] = "connected"}
           next == <<o, Head(told[o])>>
<1>0. /\ told[o] # <<>>
      /\ \A s \in Slots : s[1] = o => link[s] \notin {"connecting", "waiting"}
      /\ told' = [told EXCEPT ![o] = Tail(@)]
      /\ dropping' = dropping \cup old
      /\ link' = [s \in Slots |-> IF s \in old THEN "dropped"
                                  ELSE IF s = next THEN "connecting" ELSE link[s]]
      /\ UNCHANGED <<gen, root, chan, updates, clone, cloneq, owner, latest,
                     unsent, unasked, stopping, metrics>>
  BY DEF OwnerReconfigure
<1>1. /\ chan \in [Gens -> Seq(RootCommands)] /\ gen \in Gens /\ gen' = gen /\ gen \in Nat
      /\ told \in [Owners -> Seq(Gens)] /\ latest \in Nat
      /\ link \in [Slots -> {"none", "connecting", "waiting", "connected", "dropped", "gone"}]
  BY SMTT(30), <1>0 DEF GateInv, GateTypeOK, Gens
<1>2. /\ Head(told[o]) = told[o][1] /\ 1 \in 1..Len(told[o]) /\ Head(told[o]) \in Gens
  BY SMTT(30), <1>0, <1>1
<1>3. next \in Slots /\ link[next] = "none" /\ next[2] <= latest
  BY <1>2 DEF GateInv, ToldInOrder, Slots
<1>4. /\ old \in SUBSET Slots /\ \A s \in old : link[s] = "connected"
  OBVIOUS
<1>5. \A s \in old : s[1] = o
  OBVIOUS
<1> HIDE DEF old, next
<1>6. /\ \A s \in old : link'[s] = "dropped"
      /\ link'[next] = "connecting"
      /\ \A s \in Slots \ (old \cup {next}) : link'[s] = link[s]
      /\ link' \in [Slots -> {"none", "connecting", "waiting", "connected", "dropped", "gone"}]
  BY <1>0, <1>1, <1>3, <1>4
<1>7. Final
  BY <1>3, <1>4, <1>6 DEF Final
<1>8. QueuesFit' /\ SubscribesOnce'
  <2>1. ASSUME NEW g \in Gens, NEW i \in 1..Len(chan[g])
        PROVE  Fits(g, chan[g][i])'
    <3>1. chan[g][i] \in RootCommands /\ Fits(g, chan[g][i])
      BY SMTT(30), <1>1 DEF GateInv, QueuesFit
    <3>2. chan[g][i].op \in {"Subscribe", "Unsubscribe"} =>
             chan[g][i].slot \in Slots \ (old \cup {next})
      BY <1>3, <1>4, <3>1, RootShapes DEF Fits
    <3>. QED
      BY <1>0, <1>6, <3>1, <3>2 DEF Fits
  <2>. QED
    BY SMTT(30), <1>0, <2>1 DEF GateInv, QueuesFit, SubscribesOnce
<1>9. \A s \in Slots : link'[s] = "connected" => link[s] = "connected"
  BY <1>6
<1>10. AnsweredInTime' /\ UnsentLater' /\ CountsDrops' /\ SubscribedWhileConnected'
  BY <1>0, <1>9 DEF GateInv, AnsweredInTime, UnsentLater, CountsDrops, SubscribedWhileConnected
<1>11. ClonesFit' /\ PanicNeedsOvertaking'
  BY SMTT(30), <1>0, <1>1, <1>7, FinalKeeps
<1>12. DroppingFits'
  <2> SUFFICES ASSUME NEW s \in dropping' PROVE link'[s] = "dropped"
    BY DEF DroppingFits
  <2>. QED
    BY <1>0, <1>6, <1>7 DEF GateInv, GateTypeOK, DroppingFits, Final
<1>13. ToldInOrder'
  <2>1. /\ told' \in [Owners -> Seq(Gens)]
        /\ \A p \in Owners \ {o} : told'[p] = told[p]
        /\ Len(told'[o]) = Len(told[o]) - 1
        /\ \A i \in 1..Len(told'[o]) : told'[o][i] = told[o][i + 1] /\ i + 1 \in 1..Len(told[o])
    BY SMTT(30), <1>0, <1>1
  <2>2. \A p \in Owners : \A i \in 1..Len(told'[p]) :
           \E j \in 1..Len(told[p]) : told'[p][i] = told[p][j] /\ (p = o => j > 1)
    <3>1. \A i \in 1..Len(told'[o]) : i + 1 > 1
      BY SMTT(30)
    <3>. QED
      BY <2>1, <3>1
  <2>3. ASSUME NEW p \in Owners, NEW i \in 1..Len(told'[p])
        PROVE  told'[p][i] <= latest /\ link'[<<p, told'[p][i]>>] = "none"
    <3>1. PICK j \in 1..Len(told[p]) : told'[p][i] = told[p][j] /\ (p = o => j > 1)
      BY <2>2
    <3>2. /\ told[p][j] \in Gens /\ told[p][j] <= latest
          /\ link[<<p, told[p][j]>>] = "none" /\ <<p, told[p][j]>> \in Slots
      BY SMTT(30), <1>1 DEF GateInv, ToldInOrder, Slots
    <3>3. <<p, told[p][j]>> # next
      <4>1. CASE p = o
        <5>1. told[o][1] < told[o][j]
          BY <1>2, <3>1, <4>1 DEF GateInv, ToldInOrder
        <5>. QED
          BY SMTT(30), <1>2, <3>2, <4>1, <5>1 DEF next, Gens
      <4>2. CASE p # o
        BY <4>2 DEF next
      <4>. QED
        BY <4>1, <4>2
    <3>4. <<p, told[p][j]>> \notin old
      BY <1>4, <3>2
    <3>. QED
      BY <1>6, <3>1, <3>2, <3>3, <3>4
  <2>4. ASSUME NEW p \in Owners, NEW i \in 1..Len(told'[p]), NEW j \in 1..Len(told'[p]), i < j
        PROVE  told'[p][i] < told'[p][j]
    <3>1. CASE p # o
      BY <2>1, <2>4, <3>1 DEF GateInv, ToldInOrder
    <3>2. CASE p = o
      <4>1. i + 1 < j + 1 /\ i + 1 \in 1..Len(told[o]) /\ j + 1 \in 1..Len(told[o])
        BY SMTT(30), <1>1, <2>1, <2>4, <3>2
      <4>. QED
        BY <2>1, <3>2, <4>1 DEF GateInv, ToldInOrder
    <3>. QED
      BY <3>1, <3>2
  <2>5. ASSUME NEW s \in Slots, s[2] > latest PROVE link'[s] = "none"
    <3>1. link[s] = "none" /\ s \notin old /\ s # next
      <4>1. link[s] = "none"
        BY <2>5 DEF GateInv, ToldInOrder
      <4>2. s[2] \in Nat /\ next[2] \in Nat
        BY SMTT(30), <1>3 DEF Slots, Gens
      <4>. QED
        BY SMTT(30), <1>1, <1>3, <1>4, <2>5, <4>1, <4>2
    <3>. QED
      BY <1>6, <3>1
  <2>. QED
    BY <1>0, <2>3, <2>4, <2>5 DEF ToldInOrder
<1>14. GateTypeOK'
  <2>1. told' \in [Owners -> Seq(Gens)] /\ dropping' \subseteq Slots
    BY SMTT(30), <1>0, <1>1, <1>4 DEF GateInv, GateTypeOK
  <2>. QED
    BY <1>0, <1>6, <2>1 DEF GateInv, GateTypeOK
<1>. QED
  BY <1>8, <1>10, <1>11, <1>12, <1>13, <1>14 DEF GateInv

(* A reload numbers its generation past every link there is.               *)
LEMMA GateInvReload == ASSUME GateInv, Reload PROVE GateInv'
<1>0. /\ latest < MaxGen /\ latest' = latest + 1
      /\ unsent' = unsent \cup {latest + 1}
      /\ unasked' = unasked \cup {latest + 1}
      /\ told' = [p \in Owners |-> Append(told[p], latest + 1)]
      /\ UNCHANGED <<gen, root, chan, updates, clone, cloneq, link, owner,
                     dropping, stopping, metrics>>
  BY DEF Reload
<1>1. /\ told \in [Owners -> Seq(Gens)] /\ latest \in Nat /\ latest + 1 \in Gens
      /\ \A g \in Gens : g \in Nat
  BY SMTT(30), <1>0, GateAssumption DEF GateInv, GateTypeOK, Gens
<1>2. /\ told' \in [Owners -> Seq(Gens)]
      /\ \A p \in Owners : \A i \in 1..Len(told'[p]) :
            \/ i \in 1..Len(told[p]) /\ told'[p][i] = told[p][i]
            \/ i = Len(told[p]) + 1 /\ told'[p][i] = latest + 1
  BY SMTT(30), <1>0, <1>1
<1>3. \A p \in Owners : \A i \in 1..Len(told[p]) :
         told[p][i] \in Nat /\ told[p][i] <= latest /\ link[<<p, told[p][i]>>] = "none"
  BY SMTT(30), <1>1 DEF GateInv, ToldInOrder
<1>4. \A p \in Owners : link[<<p, latest + 1>>] = "none"
  <2>1. \A p \in Owners : <<p, latest + 1>> \in Slots /\ <<p, latest + 1>>[2] > latest
    BY SMTT(30), <1>1 DEF Slots
  <2>. QED
    BY <2>1 DEF GateInv, ToldInOrder
<1>5. ToldInOrder'
  <2>1. ASSUME NEW p \in Owners, NEW i \in 1..Len(told'[p])
        PROVE  told'[p][i] <= latest + 1 /\ link[<<p, told'[p][i]>>] = "none"
    <3>1. CASE i \in 1..Len(told[p]) /\ told'[p][i] = told[p][i]
      BY SMTT(30), <1>1, <1>3, <3>1
    <3>2. CASE told'[p][i] = latest + 1
      BY SMTT(30), <1>1, <1>4, <3>2
    <3>. QED
      BY <1>2, <3>1, <3>2
  <2>2. ASSUME NEW p \in Owners, NEW i \in 1..Len(told'[p]), NEW j \in 1..Len(told'[p]), i < j
        PROVE  told'[p][i] < told'[p][j]
    <3>1. i \in 1..Len(told[p]) /\ told'[p][i] = told[p][i]
      BY SMTT(30), <1>0, <1>1, <1>2, <2>2
    <3>2. CASE j \in 1..Len(told[p]) /\ told'[p][j] = told[p][j]
      <4>1. told[p][i] < told[p][j]
        BY <2>2, <3>1, <3>2 DEF GateInv, ToldInOrder
      <4>. QED
        BY <3>1, <3>2, <4>1
    <3>3. CASE told'[p][j] = latest + 1
      <4>1. told[p][i] \in Nat /\ told[p][i] <= latest
        BY <1>3, <3>1
      <4>2. told[p][i] < latest + 1
        BY SMTT(30), <1>1, <4>1
      <4>. QED
        BY <3>1, <3>3, <4>2
    <3>. QED
      BY <1>2, <3>2, <3>3
  <2>3. ASSUME NEW s \in Slots, s[2] > latest + 1 PROVE link[s] = "none"
    <3>1. s[2] \in Nat
      BY <1>1 DEF Slots
    <3>2. s[2] > latest
      BY SMTT(30), <1>1, <2>3, <3>1
    <3>. QED
      BY <3>2 DEF GateInv, ToldInOrder
  <2>. QED
    BY <1>0, <2>1, <2>2, <2>3 DEF ToldInOrder
<1>6. QueuesFit' /\ SubscribesOnce' /\ ClonesFit' /\ DroppingFits'
  BY SMTT(30), <1>0 DEF GateInv, QueuesFit, Fits, SubscribesOnce, ClonesFit, DroppingFits
<1>7. AnsweredInTime' /\ CountsDrops' /\ SubscribedWhileConnected' /\ PanicNeedsOvertaking'
  BY <1>0 DEF GateInv, AnsweredInTime, CountsDrops, SubscribedWhileConnected,
              PanicNeedsOvertaking
<1>8. UnsentLater'
  BY SMTT(30), <1>0, <1>1 DEF GateInv, UnsentLater
<1>9. GateTypeOK'
  <2>1. latest' \in Gens /\ unsent' \subseteq Gens /\ unasked' \subseteq Gens
    BY <1>0, <1>1 DEF GateInv, GateTypeOK
  <2>. QED
    BY <1>0, <1>2, <2>1 DEF GateInv, GateTypeOK
<1>. QED
  BY <1>5, <1>6, <1>7, <1>8, <1>9 DEF GateInv

-----------------------------------------------------------------------------
(* The invariant and the theorems *)

(* At startup every owner connects and nothing is queued.                  *)
LEMMA GateInvInit == GateInit => GateInv
<1> SUFFICES ASSUME GateInit PROVE GateInv
  OBVIOUS
<1>1. GateTypeOK
  <2>1. 0 \in Gens /\ 0 \in 0..MaxUpdates
    BY SMTT(30), GateAssumption DEF Gens
  <2>2. metrics \in [updates : 0..MaxUpdates, dropped : 0..MaxUpdates]
    BY <2>1 DEF GateInit
  <2>3. link \in [Slots -> {"none", "connecting", "waiting", "connected", "dropped", "gone"}]
    BY DEF GateInit
  <2>4. /\ chan \in [Gens -> Seq(RootCommands)] /\ cloneq \in [Clones -> Seq(CloneCommands)]
        /\ told \in [Owners -> Seq(Gens)]
    BY SMTT(30) DEF GateInit
  <2>. QED
    BY <2>1, <2>2, <2>3, <2>4 DEF GateInit, GateTypeOK
<1>2. QueuesFit /\ SubscribesOnce /\ ClonesFit /\ DroppingFits /\ UnsentLater
  BY SMTT(30) DEF GateInit, QueuesFit, SubscribesOnce, ClonesFit, DroppingFits, UnsentLater
<1>3. CountsDrops /\ PanicNeedsOvertaking
  BY SMTT(30) DEF GateInit, CountsDrops, PanicNeedsOvertaking
<1>4. AnsweredInTime /\ ToldInOrder /\ SubscribedWhileConnected
  <2>1. \A s \in Slots : link[s] # "connected" /\ (s[2] > 0 => link[s] = "none")
    BY SMTT(30) DEF GateInit, Slots, Gens
  <2>. QED
    BY SMTT(30), <2>1 DEF GateInit, AnsweredInTime, ToldInOrder, SubscribedWhileConnected
<1>. QED
  BY <1>1, <1>2, <1>3, <1>4 DEF GateInv

(* Stuttering.                                                             *)
LEMMA GateInvStutter == ASSUME GateInv, UNCHANGED gateVars PROVE GateInv'
<1>1. QueuesFit' /\ SubscribesOnce' /\ ClonesFit' /\ DroppingFits' /\ CountsDrops'
  BY SMTT(30) DEF gateVars, GateInv, QueuesFit, Fits, SubscribesOnce, ClonesFit, DroppingFits,
         CountsDrops
<1>2. AnsweredInTime' /\ ToldInOrder' /\ UnsentLater'
  BY DEF gateVars, GateInv, AnsweredInTime, ToldInOrder, UnsentLater
<1>3. SubscribedWhileConnected' /\ PanicNeedsOvertaking'
  BY DEF gateVars, GateInv, SubscribedWhileConnected, PanicNeedsOvertaking
<1>4. GateTypeOK'
  BY DEF gateVars, GateInv, GateTypeOK
<1>. QED
  BY <1>1, <1>2, <1>3, <1>4 DEF GateInv

(* Every step of the gate, its clones, its links and the manager.          *)
LEMMA GateInvNext == GateInv /\ [GateNext]_gateVars => GateInv'
<1> SUFFICES ASSUME GateInv, [GateNext]_gateVars PROVE GateInv'
  OBVIOUS
<1>1. CASE GateProcess
  BY <1>1, GateInvSubscribe, GateInvUnsubscribe, GateInvReconfigure, GateInvForwards
     DEF GateProcess
<1>2. CASE GateDrop \/ Reload
  BY <1>2, GateInvDrop, GateInvReload
<1>3. CASE SendTerminate \/ (\E g \in Gens : SendReconfigure(g) \/ SendReportLinks(g))
  BY <1>3, GateInvSends
<1>4. CASE \E c \in Clones : GateClone(c) \/ CloneProcess(c) \/ CloneClosed(c) \/ CloneDrop(c)
  BY <1>4, GateInvClones
<1>5. CASE \E p \in Publishers : UpdateData(p)
  BY <1>5, GateInvUpdates
<1>6. CASE \E s \in Slots : LinkConnect(s) \/ DropLink(s)
  BY <1>6, GateInvConnect, GateInvSends
<1>7. CASE \E o \in Owners : OwnerReconfigure(o)
  BY <1>7, GateInvOwner
<1>8. CASE UNCHANGED gateVars
  BY <1>8, GateInvStutter
<1>. QED
  BY <1>1, <1>2, <1>3, <1>4, <1>5, <1>6, <1>7, <1>8 DEF GateNext

(* comms.rs, Gate::process and its clones: a link that the gate's present  *)
(* channel answered stays in the shared map while its owner holds it,      *)
(* whatever the clones replay late and whatever notify_clones drops.       *)
THEOREM StaysSubscribed == GateSpec => []SubscribedWhileConnected
<1>1. GateInv => SubscribedWhileConnected
  BY DEF GateInv
<1>. QED
  BY <1>1, GateInvInit, GateInvNext, PTL DEF GateSpec

(* comms.rs, Link::connect and the unwrap of its callers: while the gate   *)
(* exists, a component panics there only after a later Reconfigure         *)
(* overtook the Subscribe of one of its links.                             *)
THEOREM PanicsOnlyOvertaken == GateSpec => []PanicNeedsOvertaking
<1>1. GateInv => PanicNeedsOvertaking
  BY DEF GateInv
<1>. QED
  BY <1>1, GateInvInit, GateInvNext, PTL DEF GateSpec
=============================================================================
