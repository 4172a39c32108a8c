------------------------------ MODULE Manager ------------------------------
(***************************************************************************)
(* The manager (src/src/manager.rs, with the signal loop of                *)
(* src/src/main.rs): loading a configuration, wiring it, starting,         *)
(* reconfiguring and stopping components, and the start-up barrier.        *)
(*                                                                         *)
(* A configuration is a record: how its loading ends, the names its links  *)
(* refer to (the thread-local GATES map gets one entry for each), and the  *)
(* type of every unit and target it defines.  An instance is one spawned   *)
(* component task, named by the component and the spawn that started it.   *)
(***************************************************************************)
EXTENDS Naturals, FiniteSets

CONSTANTS
    Units, Targets,   \* names a configuration may use
    Configs,          \* the configurations the operator may write
    None,             \* no type, no instance
    MaxSpawns         \* bound: successful loads

Names  == Units \cup Targets
Spawns == 1..MaxSpawns
Insts  == Names \X Spawns

ASSUME ManagerAssumption ==
    /\ MaxSpawns \in Nat
    /\ \A c \in Configs : /\ c.outcome \in {"ok", "fails"}
                          /\ c.links \subseteq Units
                          /\ DOMAIN c.type = Names

VARIABLES
    gates,      \* names in GATES: links deserialised since the last drain
    pending,    \* names in pending_gates
    running,    \* running[n]: the instance and type in running_units/targets
    spawns,     \* number of spawns so far
    stage,      \* stage[i]: how far the task of instance i got
    applied,    \* applied[i]: the spawn whose settings instance i works with
    inbox,      \* inbox[i]: commands on the way to instance i, a set: the
                \* tasks that send them are not ordered
    coord,      \* coord[s]: the coordinator task of spawn s
    signal      \* the signal loop: "serving", then the stages of shutdown

managerVars == <<gates, pending, running, spawns, stage,
                 applied, inbox, coord, signal>>

Absent    == [type |-> None, inst |-> None]
NoCoord   == [tracked |-> {}, round |-> "none"]
Reconf(s) == [op |-> "Reconfigure", spawn |-> s]
TerminateCmd == [op |-> "Terminate", spawn |-> 0]

ManagerInit ==
    /\ gates = {} /\ pending = {}
    /\ running = [n \in Names |-> Absent]
    /\ spawns = 0
    /\ stage = [i \in Insts |-> "none"]
    /\ applied = [i \in Insts |-> 0]
    /\ inbox = [i \in Insts |-> {}]
    /\ coord = [s \in Spawns |-> NoCoord]
    /\ signal = "serving"

-----------------------------------------------------------------------------
(* Loading: Config::from_bytes creates gates through load_link, prepare    *)
(* compiles the script, drains GATES and looks for unresolved links.       *)
(* Only the main thread does this.                                         *)

Defined(c)    == {n \in Units : c.type[n] # None}
Unresolved(c) == (gates \cup c.links) \ Defined(c)

(* Instances that a spawn of c replaces, stops, reconfigures or starts.    *)
Kept(c, used)  == {n \in used : running[n].inst # None
                                  /\ running[n].type = c.type[n]}

Fresh(c, used) == used \ Kept(c, used)

\* Mutant: the coordinator also counts on the components that are kept.
TracksAll(c, used) == used

(* Coordinator::track is called for the components that are spawned. *)
Track(c, used) == Fresh(c, used)

(* spawn_internal: targets first, then units; a unit no link refers to has *)
(* no pending gate: it is not started, or stopped.  Reconfigure and        *)
(* Terminate are sent by tasks of their own.                               *)
SpawnInternal(c, have) ==
    LET s    == spawns + 1
        used == (have \cap Defined(c)) \cup {n \in Targets : c.type[n] # None}
        kept == Kept(c, used)
        gone == {n \in Names \ kept : running[n].inst # None}
    IN
    /\ spawns' = s
    /\ running' = [n \in Names |->
                     IF n \in kept THEN running[n]
                     ELSE IF n \in used THEN [type |-> c.type[n], inst |-> <<n, s>>]
                     ELSE Absent]
    /\ inbox' = [i \in Insts |->
                   IF i \in {running[n].inst : n \in kept} THEN inbox[i] \cup {Reconf(s)}
                   ELSE IF i \in {running[n].inst : n \in gone} THEN inbox[i] \cup {TerminateCmd}
                   ELSE inbox[i]]
    /\ stage' = [i \in Insts |-> IF i[2] = s /\ i[1] \in Fresh(c, used)
                                   THEN "starting" ELSE stage[i]]
    /\ applied' = [i \in Insts |-> IF i[2] = s /\ i[1] \in Fresh(c, used)
                                     THEN s ELSE applied[i]]
    /\ coord' = [coord EXCEPT ![s] = [tracked |-> {<<n, s>> : n \in Track(c, used)},
                                      round |-> "ready"]]

(* One pass over a configuration file: at start-up, and for every SIGHUP   *)
(* after that.  A failing one is logged (at start-up the program exits).   *)
LoadFails(c) ==
    /\ signal = "serving" /\ spawns > 0 /\ c.outcome = "fails"
    /\ gates' = gates \cup c.links
    /\ UNCHANGED <<pending, running, spawns, stage, applied,
                   inbox, coord, signal>>

(* The gates drained before the unresolved one is met stay pending. *)
PrepareFails(c) ==
    /\ signal = "serving" /\ spawns > 0 /\ c.outcome = "ok" /\ Unresolved(c) # {}
    /\ gates' = {}
    /\ \E met \in SUBSET ((gates \cup c.links) \cap Defined(c)) :
           pending' = pending \cup met
    /\ UNCHANGED <<running, spawns, stage, applied, inbox, coord, signal>>

Spawn(c) ==
    /\ signal = "serving" /\ spawns < MaxSpawns
    /\ c.outcome = "ok" /\ Unresolved(c) = {}
    /\ gates' = {}
    /\ SpawnInternal(c, pending \cup gates \cup c.links)
    /\ pending' = pending \ Defined(c)
    /\ UNCHANGED signal

-----------------------------------------------------------------------------
(* Component tasks.  A unit runs its gate while it waits for the others    *)
(* to be ready (process_until), where Reconfiguring is returned and        *)
(* dropped; targets and the second wait take no commands.                  *)

IsUnit(i) == i[1] \in Units

(* A command to a unit travels on the channel that the Reconfigure before  *)
(* it installs.  Those to a target share one channel.                      *)
InOrder(i, cmd) ==
    IsUnit(i) => \A other \in inbox[i] \ {cmd} :
                    \/ other = TerminateCmd
                    \/ cmd # TerminateCmd /\ cmd.spawn < other.spawn

(* WaitPoint::ready and running: arrive at the barrier. *)
Arrive(i) ==
    /\ stage[i] \in {"starting", "ready"}
    /\ stage' = [stage EXCEPT ![i] = IF @ = "starting" THEN "wait ready"
                                     ELSE "wait running"]
    /\ UNCHANGED <<gates, pending, running, spawns, applied,
                   inbox, coord, signal>>

(* process_until eats the status; the gate itself has switched channels. *)
EatReconfigure(i) ==
    /\ IsUnit(i) /\ stage[i] = "wait ready"
    /\ \E cmd \in inbox[i] : /\ cmd.op = "Reconfigure" /\ InOrder(i, cmd)
                             /\ inbox' = [inbox EXCEPT ![i] = @ \ {cmd}]
    /\ UNCHANGED <<gates, pending, running, spawns, stage,
                   applied, coord, signal>>

HandleReconfigure(i) ==
    /\ stage[i] = "running"
    /\ \E cmd \in inbox[i] :
         /\ cmd.op = "Reconfigure" /\ InOrder(i, cmd)
         /\ inbox' = [inbox EXCEPT ![i] = @ \ {cmd}]
         /\ applied' = [applied EXCEPT ![i] = cmd.spawn]
    /\ UNCHANGED <<gates, pending, running, spawns, stage,
                   coord, signal>>

HandleTerminate(i) ==
    /\ TerminateCmd \in inbox[i] /\ InOrder(i, TerminateCmd)
    /\ stage[i] = "running" \/ (IsUnit(i) /\ stage[i] = "wait ready")
    /\ stage' = [stage EXCEPT ![i] = "ended"]
    /\ inbox' = [inbox EXCEPT ![i] = {}]
    /\ UNCHANGED <<gates, pending, running, spawns, applied,
                   coord, signal>>

-----------------------------------------------------------------------------
(* Coordinator: two rounds of a barrier for the tracked components and the *)
(* coordinator itself.  An arrival counts even if its waiter has ended.    *)

(* wait_internal: stand in for the slots that no component uses, then wait *)
(* like the others.                                                        *)
Arrived(s) == {i \in coord[s].tracked :
                 IF coord[s].round = "ready" THEN stage[i] \notin {"none", "starting"}
                 ELSE stage[i] = "wait running"}

\* Mutant: the coordinator stands in for one slot too many.
SlotTooMany(s) ==
    /\ coord[s].round \in {"ready", "running"}
    /\ Cardinality(coord[s].tracked \ Arrived(s)) <= 1
    /\ coord' = [coord EXCEPT ![s].round = IF @ = "ready" THEN "running" ELSE "done"]
    /\ stage' = [i \in Insts |->
                   IF i \notin coord[s].tracked THEN stage[i]
                   ELSE CASE stage[i] = "wait ready" -> "ready"
                          [] stage[i] = "wait running" -> "running"
                          [] OTHER -> stage[i]]
    /\ UNCHANGED <<gates, pending, running, spawns, applied, inbox, signal>>

BarrierTrips(s) ==
    /\ coord[s].round \in {"ready", "running"} /\ Arrived(s) = coord[s].tracked
    /\ coord' = [coord EXCEPT ![s].round = IF @ = "ready" THEN "running" ELSE "done"]
    /\ stage' = [i \in Insts |->
                   IF i \notin coord[s].tracked THEN stage[i]
                   ELSE CASE stage[i] = "wait ready" -> "ready"
                          [] stage[i] = "wait running" -> "running"
                          [] OTHER -> stage[i]]
    /\ UNCHANGED <<gates, pending, running, spawns, applied,
                   inbox, signal>>

-----------------------------------------------------------------------------
(* shutdown: stop the units, wait for them for five seconds, then stop the *)
(* targets and wait for those.                                             *)

StopUnits ==
    /\ signal = "serving" /\ signal' = "units"
    /\ inbox' = [i \in Insts |-> IF i \in {running[n].inst : n \in Units}
                                   THEN inbox[i] \cup {TerminateCmd} ELSE inbox[i]]
    /\ running' = [n \in Names |-> IF n \in Units THEN Absent ELSE running[n]]
    /\ UNCHANGED <<gates, pending, spawns, stage, applied,
                   coord>>

(* All units have ended, or the five seconds are over. *)
StopTargets ==
    /\ signal = "units" /\ signal' = "targets"
    /\ inbox' = [i \in Insts |-> IF i \in {running[n].inst : n \in Targets}
                                   THEN inbox[i] \cup {TerminateCmd} ELSE inbox[i]]
    /\ UNCHANGED <<gates, pending, running, spawns, stage,
                   applied, coord>>

Exit ==
    /\ signal = "targets"
    /\ \A n \in Targets : running[n].inst # None => stage[running[n].inst] = "ended"
    /\ signal' = "exited"
    /\ UNCHANGED <<gates, pending, running, spawns, stage,
                   applied, inbox, coord>>

-----------------------------------------------------------------------------
ManagerNext ==
    \/ \E c \in Configs : LoadFails(c) \/ PrepareFails(c) \/ Spawn(c)
    \/ \E i \in Insts : \/ Arrive(i) \/ EatReconfigure(i)
                        \/ HandleReconfigure(i) \/ HandleTerminate(i)
    \/ \E s \in Spawns : BarrierTrips(s)
    \/ StopUnits \/ StopTargets \/ Exit

(* Tokio polls every woken task, and the shutdown sequence runs through.   *)
(* The steps it covers cannot repeat for ever (the bounds), so that        *)
(* fairness of all of them together is fairness of each.                   *)
ManagerSystem ==
    \/ \E i \in Insts : \/ Arrive(i) \/ EatReconfigure(i)
                        \/ HandleReconfigure(i) \/ HandleTerminate(i)
    \/ \E s \in Spawns : BarrierTrips(s)
    \/ StopTargets \/ Exit

ManagerSpec == ManagerInit /\ [][ManagerNext]_managerVars /\ WF_managerVars(ManagerSystem)

-----------------------------------------------------------------------------
(* Type invariant. *)
ManagerTypeOK ==
    /\ gates \subseteq Units /\ pending \subseteq Units
    /\ \A n \in Names : running[n] = Absent \/ running[n].inst \in Insts
    /\ spawns \in 0..MaxSpawns
    /\ stage \in [Insts -> {"none", "starting", "wait ready", "ready",
                            "wait running", "running", "ended"}]
    /\ applied \in [Insts -> 0..MaxSpawns]
    /\ \A i \in Insts : inbox[i] \subseteq {Reconf(s) : s \in Spawns} \cup {TerminateCmd}
    /\ \A s \in Spawns : coord[s].round \in {"none", "ready", "running", "done"}
    /\ signal \in {"serving", "units", "targets", "exited"}

(* The barrier of one spawn, with its slots for components that are not    *)
(* started: "All units and targets start together, otherwise data passed   *)
(* from one component to another may be lost" (rib_unit/unit.rs).          *)
StartTogether ==
    \A i \in Insts : stage[i] = "running" =>
        \A j \in coord[i[2]].tracked : stage[j] \notin {"none", "starting", "wait ready"}

(* A coordinator gets through both rounds (and restarts the HTTP API)      *)
(* unless one of the components it waits for was terminated on the way.    *)
CoordinatorCompletes ==
    \A s \in Spawns : coord[s].round = "ready" ~>
        coord[s].round = "done" \/ \E i \in coord[s].tracked : stage[i] = "ended"

(* Manager::shutdown: "Quiesce producers, then let durable targets drain   *)
(* before dropping the runtime.  Bound the producer wait".                 *)
ShutdownCompletes == signal = "units" ~> signal = "exited"
=============================================================================
