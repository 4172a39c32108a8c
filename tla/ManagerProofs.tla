--------------------------- MODULE ManagerProofs ---------------------------
(***************************************************************************)
(* The start-up barrier of manager.rs, for any number of components, of    *)
(* configurations and of reloads: theorem StartsTogether.  A component     *)
(* that runs says nothing about the others by itself; the invariant ties   *)
(* the stage of every tracked component to the round its coordinator is    *)
(* in, and keeps the components of different spawns apart.                 *)
(***************************************************************************)
EXTENDS Manager, TLAPS

(* Zenon proves the leaves that do not name the SMT solver.                *)
USE ZenonT(30)

Stages == {"none", "starting", "wait ready", "ready", "wait running", "running", "ended"}
Rounds == {"none", "ready", "running", "done"}

(* The stages of the components a coordinator waits for, by its round.     *)
StagesIn(round) ==
    CASE round = "none"    -> {}
      [] round = "ready"   -> {"starting", "wait ready", "ended"}
      [] round = "running" -> {"ready", "wait running", "ended"}
      [] round = "done"    -> {"running", "ended"}

BarrierTypes ==
    /\ spawns \in 0..MaxSpawns
    /\ stage \in [Insts -> Stages]
    /\ coord \in [Spawns -> [tracked : SUBSET Insts, round : Rounds]]

(* The inductive invariant: a component that was started is tracked by the *)
(* coordinator of its own spawn and is as far as that coordinator's round, *)
(* and spawns that are still to come have left no trace.                   *)
BarrierInv ==
    /\ BarrierTypes
    /\ \A s \in Spawns : \A j \in coord[s].tracked :
          j[2] = s /\ stage[j] \in StagesIn(coord[s].round)
    /\ \A i \in Insts : stage[i] # "none" => i \in coord[i[2]].tracked
    /\ \A s \in Spawns : s > spawns => coord[s] = NoCoord

(* Nothing is started and no coordinator waits when the program begins     *)
(* (Manager::new).                                                         *)
LEMMA BarrierInit == ManagerInit => BarrierInv
<1> SUFFICES ASSUME ManagerInit PROVE BarrierInv
  OBVIOUS
<1>1. BarrierTypes
  BY SMTT(30), ManagerAssumption DEF ManagerInit, BarrierTypes, NoCoord, Stages, Rounds, Spawns
<1>2. \A s \in Spawns : coord[s].tracked = {}
  BY DEF ManagerInit, NoCoord
<1>. QED
  BY <1>1, <1>2 DEF ManagerInit, BarrierInv

(* spawn_internal starts the fresh components of one new spawn and hands   *)
(* exactly those to the coordinator of that spawn.                         *)
LEMMA BarrierSpawn ==
    ASSUME BarrierInv, NEW c \in Configs, Spawn(c)
    PROVE  BarrierInv'
<1> DEFINE s == spawns + 1
           have == pending \cup gates \cup c.links
           used == (have \cap Defined(c)) \cup {n \in Targets : c.type[n] # None}
           new == {<<n, s>> : n \in Fresh(c, used)}
<1>1. /\ s \in Spawns /\ spawns' = s /\ spawns \in 0..MaxSpawns
      /\ stage' = [i \in Insts |-> IF i[2] = s /\ i[1] \in Fresh(c, used)
                                   THEN "starting" ELSE stage[i]]
      /\ coord' = [coord EXCEPT ![s] = [tracked |-> new, round |-> "ready"]]
  BY SMTT(30), ManagerAssumption DEF BarrierInv, BarrierTypes, Spawn, SpawnInternal, Track, Spawns
<1>2. Fresh(c, used) \subseteq Names
  BY DEF Fresh, Defined, Names
<1>3. new \subseteq Insts
  <2>1. \A n \in Fresh(c, used) : n \in Names /\ <<n, s>> \in Names \X Spawns
    BY <1>1, <1>2
  <2>. QED
    BY <2>1 DEF Insts, new
<1> HIDE DEF s, have, used, new
<1>4. coord[s] = NoCoord
  BY SMTT(30), <1>1 DEF BarrierInv, s, Spawns
<1>5. BarrierTypes'
  <2>1. [tracked |-> new, round |-> "ready"] \in [tracked : SUBSET Insts, round : Rounds]
    BY <1>3 DEF Rounds
  <2>2. coord' \in [Spawns -> [tracked : SUBSET Insts, round : Rounds]]
    BY <1>1, <2>1 DEF BarrierInv, BarrierTypes
  <2>3. stage' \in [Insts -> Stages]
    BY <1>1 DEF BarrierInv, BarrierTypes, Stages
  <2>. QED
    BY SMTT(30), <1>1, <2>2, <2>3 DEF BarrierTypes, Spawns
<1>6. \A i \in Insts : i \in new <=> i[2] = s /\ i[1] \in Fresh(c, used)
  BY SMTT(30) DEF Insts, new
<1>7. \A i \in new : i \in Insts /\ i[2] = s /\ stage'[i] = "starting"
  BY <1>1, <1>3, <1>6
<1>8. \A t \in Spawns \ {s} : coord'[t] = coord[t]
  BY <1>1 DEF BarrierInv, BarrierTypes
<1>9. coord'[s].tracked = new /\ coord'[s].round = "ready"
  BY <1>1 DEF BarrierInv, BarrierTypes
<1>10. \A t \in Spawns : \A j \in coord'[t].tracked :
          j[2] = t /\ stage'[j] \in StagesIn(coord'[t].round)
  <2> SUFFICES ASSUME NEW t \in Spawns, NEW j \in coord'[t].tracked
               PROVE  j[2] = t /\ stage'[j] \in StagesIn(coord'[t].round)
    OBVIOUS
  <2>1. CASE t = s
    BY <1>7, <1>9, <2>1 DEF StagesIn
  <2>2. CASE t # s
    <3>1. j \in coord[t].tracked /\ j \in Insts /\ j[2] = t
      BY <1>8, <2>2 DEF BarrierInv, BarrierTypes
    <3>2. stage'[j] = stage[j]
      BY <1>1, <2>2, <3>1
    <3>. QED
      BY <1>8, <2>2, <3>1, <3>2 DEF BarrierInv
  <2>. QED
    BY <2>1, <2>2
<1>11. \A i \in Insts : stage'[i] # "none" => i \in coord'[i[2]].tracked
  <2> SUFFICES ASSUME NEW i \in Insts, stage'[i] # "none"
               PROVE  i \in coord'[i[2]].tracked
    OBVIOUS
  <2>0. i[2] \in Spawns
    BY DEF Insts
  <2>1. CASE i \in new
    BY <1>7, <1>9, <2>1
  <2>2. CASE i \notin new
    <3>1. stage[i] # "none"
      BY <1>1, <1>6, <2>2
    <3>2. i \in coord[i[2]].tracked
      BY <3>1 DEF BarrierInv
    <3>3. i[2] # s
      BY SMTT(30), <1>4, <3>2 DEF NoCoord
    <3>. QED
      BY <1>8, <2>0, <3>2, <3>3
  <2>. QED
    BY <2>1, <2>2
<1>12. \A t \in Spawns : t > spawns' => coord'[t] = NoCoord
  BY SMTT(30), <1>1, <1>8 DEF BarrierInv, s, Spawns
<1>. QED
  BY <1>5, <1>10, <1>11, <1>12 DEF BarrierInv

(* A component that arrives, or that handles Terminate, moves within the   *)
(* stages of its round (WaitPoint::ready, running, process_until).         *)
LEMMA BarrierStep ==
    ASSUME BarrierInv, NEW i \in Insts, Arrive(i) \/ HandleTerminate(i)
    PROVE  BarrierInv'
<1>1. /\ UNCHANGED <<spawns, coord>> /\ stage[i] # "none"
      /\ \E v \in Stages : /\ stage' = [stage EXCEPT ![i] = v]
                           /\ \/ stage[i] = "starting" /\ v = "wait ready"
                              \/ stage[i] = "ready" /\ v = "wait running"
                              \/ stage[i] \in {"running", "wait ready"} /\ v = "ended"
  BY DEF Arrive, HandleTerminate, Stages, BarrierInv, BarrierTypes
<1>2. \A r \in Rounds : stage[i] \in StagesIn(r) => stage'[i] \in StagesIn(r)
  BY <1>1 DEF StagesIn, Rounds, Stages, BarrierInv, BarrierTypes
<1>3. \A j \in Insts \ {i} : stage'[j] = stage[j]
  BY <1>1 DEF BarrierInv, BarrierTypes
<1>4. BarrierTypes'
  <2>0. PICK v \in Stages : stage' = [stage EXCEPT ![i] = v]
    BY <1>1
  <2>1. stage' \in [Insts -> Stages]
    BY <2>0 DEF BarrierInv, BarrierTypes
  <2>. QED
    BY <1>1, <2>1 DEF BarrierInv, BarrierTypes
<1>5. \A s \in Spawns : \A j \in coord[s].tracked :
          j \in Insts /\ j[2] = s /\ stage'[j] \in StagesIn(coord[s].round)
  BY <1>2, <1>3 DEF BarrierInv, BarrierTypes
<1>6. \A j \in Insts : stage'[j] # "none" => j \in coord[j[2]].tracked
  BY <1>1, <1>3 DEF BarrierInv
<1>. QED
  BY <1>1, <1>4, <1>5, <1>6 DEF BarrierInv

(* The barrier of one spawn lets all of its components into the next       *)
(* stage and touches no other spawn's (Coordinator::wait_internal).        *)
LEMMA BarrierTrip ==
    ASSUME BarrierInv, NEW s \in Spawns, BarrierTrips(s)
    PROVE  BarrierInv'
<1> DEFINE round == coord[s].round
           next == IF round = "ready" THEN "running" ELSE "done"
<1>1. /\ round \in {"ready", "running"} /\ Arrived(s) = coord[s].tracked
      /\ coord' = [coord EXCEPT ![s].round = next]
      /\ UNCHANGED spawns
      /\ stage' = [i \in Insts |->
                     IF i \notin coord[s].tracked THEN stage[i]
                     ELSE CASE stage[i] = "wait ready" -> "ready"
                            [] stage[i] = "wait running" -> "running"
                            [] OTHER -> stage[i]]
  BY DEF BarrierTrips, BarrierInv, BarrierTypes
<1>a. coord \in [Spawns -> [tracked : SUBSET Insts, round : Rounds]]
  BY DEF BarrierInv, BarrierTypes
<1>b. next \in Rounds
  BY DEF Rounds
<1>c. [coord[s] EXCEPT !.round = next]
        = [tracked |-> coord[s].tracked, round |-> next]
  BY SMTT(30), <1>a
<1>d. coord' = [coord EXCEPT ![s] = [tracked |-> coord[s].tracked, round |-> next]]
  BY <1>1, <1>a, <1>c
<1> HIDE DEF next
<1>3. /\ coord'[s].tracked = coord[s].tracked /\ coord'[s].round = next
      /\ \A t \in Spawns \ {s} : coord'[t] = coord[t]
  BY <1>a, <1>d
<1>2. BarrierTypes'
  <2>1. [tracked |-> coord[s].tracked, round |-> next]
          \in [tracked : SUBSET Insts, round : Rounds]
    BY <1>a, <1>b
  <2>2. coord' \in [Spawns -> [tracked : SUBSET Insts, round : Rounds]]
    BY <1>a, <1>d, <2>1
  <2>3. stage' \in [Insts -> Stages]
    BY <1>1 DEF BarrierInv, BarrierTypes, Stages
  <2>. QED
    BY <1>1, <2>2, <2>3 DEF BarrierInv, BarrierTypes
<1>4. \A j \in coord[s].tracked : stage'[j] \in StagesIn(next)
  <2> SUFFICES ASSUME NEW j \in coord[s].tracked PROVE stage'[j] \in StagesIn(next)
    OBVIOUS
  <2>1. j \in Insts /\ stage[j] \in StagesIn(round) /\ j \in Arrived(s)
    BY <1>1 DEF BarrierInv, BarrierTypes
  <2>2. CASE round = "ready"
    BY <1>1, <2>1, <2>2 DEF StagesIn, Arrived, next
  <2>3. CASE round = "running"
    BY <1>1, <2>1, <2>3 DEF StagesIn, Arrived, next
  <2>. QED
    BY <1>1, <2>2, <2>3
<1>5. \A i \in Insts : (stage'[i] = "none" <=> stage[i] = "none")
  BY <1>1
<1>6. \A t \in Spawns : \A j \in coord'[t].tracked :
          j[2] = t /\ stage'[j] \in StagesIn(coord'[t].round)
  <2> SUFFICES ASSUME NEW t \in Spawns, NEW j \in coord'[t].tracked
               PROVE  j[2] = t /\ stage'[j] \in StagesIn(coord'[t].round)
    OBVIOUS
  <2>1. j \in coord[t].tracked /\ j \in Insts /\ j[2] = t
    BY <1>3 DEF BarrierInv, BarrierTypes
  <2>2. CASE t = s
    BY <1>3, <1>4, <2>1, <2>2
  <2>3. CASE t # s
    <3>1. j \notin coord[s].tracked
      BY <2>1, <2>3 DEF BarrierInv
    <3>2. stage'[j] = stage[j]
      BY <1>1, <2>1, <3>1
    <3>. QED
      BY <1>3, <2>1, <2>3, <3>2 DEF BarrierInv
  <2>. QED
    BY <2>2, <2>3
<1>7. \A i \in Insts : stage'[i] # "none" => i \in coord'[i[2]].tracked
  <2> SUFFICES ASSUME NEW i \in Insts, stage'[i] # "none"
               PROVE  i \in coord'[i[2]].tracked
    OBVIOUS
  <2>1. i[2] \in Spawns /\ i \in coord[i[2]].tracked
    BY <1>5 DEF BarrierInv, Insts
  <2>. QED
    BY <1>3, <2>1
<1>8. \A t \in Spawns : t > spawns' => coord'[t] = NoCoord
  <2>0. NoCoord.round = "none"
    BY DEF NoCoord
  <2>1. coord[s] # NoCoord
    BY <1>1, <2>0
  <2>. QED
    BY <1>1, <1>3, <2>1 DEF BarrierInv
<1>. QED
  BY <1>2, <1>6, <1>7, <1>8 DEF BarrierInv

(* Every step of the manager, of a component or of a coordinator keeps the *)
(* invariant; the others touch neither stages nor coordinators.            *)
LEMMA BarrierNext == BarrierInv /\ [ManagerNext]_managerVars => BarrierInv'
<1> SUFFICES ASSUME BarrierInv, [ManagerNext]_managerVars PROVE BarrierInv'
  OBVIOUS
<1> DEFINE Kept3 == UNCHANGED <<spawns, stage, coord>>
<1>0. Kept3 => BarrierInv'
  BY SMTT(30) DEF BarrierInv, BarrierTypes
<1>1. ASSUME NEW c \in Configs, LoadFails(c) \/ PrepareFails(c) PROVE Kept3
  BY <1>1 DEF LoadFails, PrepareFails
<1>2. ASSUME NEW i \in Insts, EatReconfigure(i) \/ HandleReconfigure(i) PROVE Kept3
  BY <1>2 DEF EatReconfigure, HandleReconfigure
<1>3. ASSUME StopUnits \/ StopTargets \/ Exit PROVE Kept3
  BY <1>3 DEF StopUnits, StopTargets, Exit
<1>4. ASSUME UNCHANGED managerVars PROVE Kept3
  BY <1>4 DEF managerVars
<1>. QED
  BY <1>0, <1>1, <1>2, <1>3, <1>4, BarrierSpawn, BarrierStep, BarrierTrip DEF ManagerNext

(* A component that runs is done with both rounds of its barrier, so that  *)
(* its coordinator is, and with it all the components it tracks.           *)
LEMMA BarrierImplies == BarrierInv => StartTogether
<1> SUFFICES ASSUME BarrierInv, NEW i \in Insts, stage[i] = "running",
                    NEW j \in coord[i[2]].tracked
             PROVE  stage[j] \notin {"none", "starting", "wait ready"}
  BY DEF StartTogether
<1>1. i[2] \in Spawns /\ i \in coord[i[2]].tracked /\ coord[i[2]].round \in Rounds
  BY DEF BarrierInv, BarrierTypes, Insts
<1>2. stage[i] \in StagesIn(coord[i[2]].round) /\ stage[j] \in StagesIn(coord[i[2]].round)
  BY <1>1 DEF BarrierInv
<1>3. coord[i[2]].round = "done"
  BY <1>1, <1>2 DEF StagesIn, Rounds
<1>. QED
  BY <1>2, <1>3 DEF StagesIn

(* "All units and targets start together" (rib_unit/unit.rs): whatever     *)
(* configurations are loaded, refused, reloaded and terminated, a          *)
(* component only runs once every component of its spawn is past its       *)
(* preparations.                                                           *)
THEOREM StartsTogether == ManagerSpec => []StartTogether
  BY BarrierInit, BarrierNext, BarrierImplies, PTL DEF ManagerSpec
=============================================================================
