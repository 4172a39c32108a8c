------------------------------- MODULE BgpDial -------------------------------
(***************************************************************************)
(* Who connects to a BGP peer, and what is reported of it: the supervisor  *)
(* and the dialer of connector.rs, the listener and the reload of unit.rs, *)
(* the sessions' reaction to a reload (router_handler.rs) and the registry *)
(* of session_status.rs (src/src/units/bgp_tcp_in).  The negotiation and   *)
(* the routes of a session are BgpIn's.                                    *)
(*                                                                         *)
(* The model has one peer address.  Its configuration is under the exact   *)
(* address or under a prefix that contains it, with connect = true or      *)
(* without; param stands for the other connect parameters that PeerConfig's*)
(* PartialEq compares (remote_port, source_addr, connect_retry_secs).      *)
(***************************************************************************)
EXTENDS Naturals, Sequences, FiniteSets

CONSTANTS
    Slots,        \* bound: sessions of the peer at a time
    Absent,       \* no configuration, no task, no session
    MaxReloads    \* bound: reloads of the configuration

Config(key, connect, param) == [key |-> key, connect |-> connect, param |-> param]

Configs == {Absent, Config("exact", TRUE, 1), Config("exact", TRUE, 2),
            Config("exact", FALSE, 1), Config("prefix", TRUE, 1)}

VARIABLES
    cfg,       \* peer_configs of the unit, for the address
    reloads,   \* reloads so far
    roster,    \* how far publish_peer_roster got
    listed,    \* the SessionStatus that the registry holds for the address
    task,      \* the dialer task, with the PeerConfig it was started for
    sess,      \* sess[i]: a session task
    named      \* live_sessions: the session it names, or Absent

dialVars == <<cfg, reloads, roster, listed, task, sess, named>>

(* arc: the session's SessionStatus is the listed one, or one that the     *)
(* registry dropped, whose fields nobody reads.                            *)
NoSession == [st |-> "none", cfg |-> Absent, dialed |-> FALSE, arc |-> "none",
              told |-> FALSE, inbox |-> <<>>]

DialInit ==
    /\ cfg \in Configs /\ reloads = 0 /\ roster = "mark"
    /\ listed = Absent /\ task = Absent
    /\ sess = [i \in Slots |-> NoSession]
    /\ named = Absent

Exact(c)  == c # Absent /\ c.key = "exact"
Wanted(c) == Exact(c) /\ c.connect

-----------------------------------------------------------------------------
(* The registry: get_or_create. *)
GetOrCreate == IF listed = Absent THEN [configured |-> FALSE, fsm |-> "Idle"] ELSE listed

(* process_until, on Reconfiguring: the unit stores the configuration, the *)
(* sessions have their own copy of the message to come, and                *)
(* publish_peer_roster begins with clear_configured_marks.  main says that *)
(* the unit's own settings changed: as a bound, only in a reload that      *)
(* keeps the peer's.                                                       *)
Reload(c, main) ==
    /\ roster = "done" /\ reloads < MaxReloads
    /\ cfg' = c /\ reloads' = reloads + 1 /\ roster' = "mark"
    /\ listed' = IF listed = Absent THEN Absent ELSE [listed EXCEPT !.configured = FALSE]
    /\ sess' = [i \in Slots |-> IF sess[i].st \in {"none", "ended"} THEN sess[i]
                   ELSE [sess[i] EXCEPT !.inbox = Append(@, [cfg |-> c, main |-> main])]]
    /\ UNCHANGED <<task, named>>

RosterMark ==
    /\ roster = "mark"
    /\ listed' = IF Exact(cfg) THEN [GetOrCreate EXCEPT !.configured = TRUE] ELSE listed
    /\ roster' = "forget"
    /\ UNCHANGED <<cfg, reloads, task, sess, named>>

(* forget_unconfigured_idle. *)
RosterForget ==
    /\ roster = "forget" /\ roster' = "done"
    /\ IF listed # Absent /\ listed = [configured |-> FALSE, fsm |-> "Idle"]
       THEN /\ listed' = Absent
            /\ sess' = [i \in Slots |-> [sess[i] EXCEPT
                           !.arc = IF @ = "listed" THEN "dropped" ELSE @]]
       ELSE UNCHANGED <<listed, sess>>
    /\ UNCHANGED <<cfg, reloads, task, named>>

-----------------------------------------------------------------------------
(* Sessions.                                                               *)

(* spawn_session. *)
Spawned(i, c, dialed) ==
    sess' = [sess EXCEPT ![i] = [NoSession EXCEPT !.st = "spawned", !.cfg = c,
                                                  !.dialed = dialed]]

(* The listener, in the task that also reloads: the configuration is       *)
(* looked up by the peer's address.                                        *)
Accept(i) ==
    /\ roster = "done" /\ sess[i].st = "none" /\ cfg # Absent
    /\ Spawned(i, cfg, FALSE)
    /\ UNCHANGED <<cfg, reloads, roster, listed, task, named>>

(* The task looks its status object up once, before its loop. *)
SessionStart(i) ==
    /\ sess[i].st = "spawned"
    /\ listed' = GetOrCreate
    /\ sess' = [sess EXCEPT ![i].st = "opening", ![i].arc = "listed"]
    /\ UNCHANGED <<cfg, reloads, roster, task, named>>

(* A tick of the FSM that succeeds mirrors its state. *)
Mirror(i, fsm) ==
    listed' = IF sess[i].arc = "listed" THEN [listed EXCEPT !.fsm = fsm] ELSE listed

Established(i) ==
    /\ sess[i].st = "opening" /\ ~sess[i].told
    /\ Mirror(i, "Established")
    /\ sess' = [k \in Slots |-> IF k = i THEN [sess[k] EXCEPT !.st = "up"]
                   ELSE IF k = named THEN [sess[k] EXCEPT !.told = TRUE] ELSE sess[k]]
    /\ named' = i
    /\ UNCHANGED <<cfg, reloads, roster, task>>

(* The FSM acts on Command::Disconnect; the loop goes on until the stream  *)
(* ends.                                                                   *)
Disconnected(i) ==
    /\ sess[i].st \in {"opening", "up"} /\ sess[i].told
    /\ Mirror(i, "Idle")
    /\ sess' = [sess EXCEPT ![i].st = "down"]
    /\ UNCHANGED <<cfg, reloads, roster, task, named>>

(* The session takes its own entry out of live_sessions, nobody else's. *)
Unnamed(i) == named' = IF named = i THEN Absent ELSE named

(* The stream ends; the last tick succeeds, or fails and is not mirrored. *)
Lost(i, mirrored) ==
    /\ sess[i].st \in {"opening", "up", "down"}
    /\ IF mirrored THEN Mirror(i, "Idle") ELSE UNCHANGED listed
    /\ sess' = [sess EXCEPT ![i].st = "ended"] /\ Unnamed(i)
    /\ UNCHANGED <<cfg, reloads, roster, task>>

\* Mutant: a session whose peer was removed from the configuration stays.
IgnoresRemoval(i) ==
    /\ sess[i].st \in {"opening", "up", "down"} /\ sess[i].inbox # <<>>
    /\ LET m == Head(sess[i].inbox)
       IN  IF m.main
           THEN /\ sess' = [sess EXCEPT ![i].st = "ended", ![i].inbox = <<>>]
                /\ Unnamed(i)
           ELSE /\ sess' = [sess EXCEPT ![i].inbox = Tail(@),
                                        ![i].told = @ \/ (m.cfg # Absent /\ m.cfg # sess[i].cfg)]
                /\ UNCHANGED named
    /\ UNCHANGED <<cfg, reloads, roster, listed, task>>

(* Reconfiguring, as the session sees it: it leaves its loop when the unit *)
(* changed, or when its key is configured no more, and tells the FSM to    *)
(* disconnect when the peer's configuration is not what it was made with.  *)
SessionReconfigured(i) ==
    /\ sess[i].st \in {"opening", "up", "down"} /\ sess[i].inbox # <<>>
    /\ LET m == Head(sess[i].inbox)
       IN  IF m.main \/ m.cfg = Absent \/ m.cfg.key # sess[i].cfg.key
           THEN /\ sess' = [sess EXCEPT ![i].st = "ended", ![i].inbox = <<>>]
                /\ Unnamed(i)
           ELSE /\ sess' = [sess EXCEPT ![i].inbox = Tail(@),
                                        ![i].told = @ \/ m.cfg # sess[i].cfg]
                /\ UNCHANGED named
    /\ UNCHANGED <<cfg, reloads, roster, listed, task>>

Waits(i) == task # Absent /\ task.pc = "session" /\ task.on = i

Free(i) ==
    /\ sess[i].st = "ended" /\ ~Waits(i)
    /\ sess' = [sess EXCEPT ![i] = NoSession]
    /\ UNCHANGED <<cfg, reloads, roster, listed, task, named>>

-----------------------------------------------------------------------------
(* The supervisor and its dialer.                                          *)

NewTask == [cfg |-> cfg, pc |-> "check", using |-> Absent, on |-> Absent]

\* Mutant: a task that has returned is kept.
KeepsFinished ==
    /\ LET keep == task # Absent /\ Wanted(cfg) /\ task.cfg = cfg
       IN  task' = IF keep THEN task ELSE IF Wanted(cfg) THEN NewTask ELSE Absent
    /\ UNCHANGED <<cfg, reloads, roster, listed, sess, named>>

(* run_connectors: a task whose peer is gone or changed is aborted, one    *)
(* that returned is replaced.  A session outlives the task that dialed it. *)
Reconcile ==
    /\ LET keep == task # Absent /\ Wanted(cfg) /\ task.cfg = cfg /\ task.pc # "finished"
       IN  task' = IF keep THEN task ELSE IF Wanted(cfg) THEN NewTask ELSE Absent
    /\ UNCHANGED <<cfg, reloads, roster, listed, sess, named>>

At(pc) == task # Absent /\ task.pc = pc
Goto(pc) == task' = [task EXCEPT !.pc = pc]

(* connect_loop reads the configuration again in every pass. *)
DialCheck ==
    /\ At("check")
    /\ IF ~Wanted(cfg) THEN Goto("finished")
       ELSE IF named # Absent THEN Goto("sleeping")
       ELSE task' = [task EXCEPT !.pc = "dialing", !.using = cfg]
    /\ UNCHANGED <<cfg, reloads, roster, listed, sess, named>>

DialSucceeds(i) ==
    /\ At("dialing") /\ sess[i].st = "none"
    /\ Spawned(i, task.using, TRUE)
    /\ task' = [task EXCEPT !.pc = "session", !.on = i]
    /\ UNCHANGED <<cfg, reloads, roster, listed, named>>

(* Refused, timed out, or no source address of the peer's family. *)
DialFails ==
    /\ At("dialing")
    /\ listed' = [GetOrCreate EXCEPT !.fsm = "Active"]
    /\ task' = [task EXCEPT !.pc = "sleeping", !.using = Absent]
    /\ UNCHANGED <<cfg, reloads, roster, sess, named>>

SessionOver ==
    /\ At("session") /\ sess[task.on].st = "ended"
    /\ task' = [task EXCEPT !.pc = "sleeping", !.using = Absent, !.on = Absent]
    /\ UNCHANGED <<cfg, reloads, roster, listed, sess, named>>

Awake ==
    /\ At("sleeping") /\ Goto("check")
    /\ UNCHANGED <<cfg, reloads, roster, listed, sess, named>>

-----------------------------------------------------------------------------
DialSystem ==
    \/ RosterMark \/ RosterForget
    \/ \E i \in Slots : SessionStart(i) \/ SessionReconfigured(i) \/ Disconnected(i) \/ Free(i)

DialNext ==
    \/ \E c \in Configs : Reload(c, FALSE)
    \/ Reload(cfg, TRUE)
    \/ DialSystem \/ Reconcile \/ DialCheck \/ DialFails \/ SessionOver \/ Awake
    \/ \E i \in Slots : \/ Accept(i) \/ DialSucceeds(i) \/ Established(i)
                        \/ \E mirrored \in BOOLEAN : Lost(i, mirrored)

(* Tasks run: the supervisor comes round again and again, and a dialer's   *)
(* connect and its timers complete.  Peers need not do anything.           *)
DialFairness ==
    /\ WF_dialVars(DialSystem)
    /\ WF_dialVars(Reconcile)
    /\ WF_dialVars(DialCheck \/ DialFails \/ SessionOver \/ Awake)

DialSpec == DialInit /\ [][DialNext]_dialVars /\ DialFairness

-----------------------------------------------------------------------------
(* "Keep one outbound session to remote_addr up, forever" (connect_loop):  *)
(* a peer that stays configured with connect = true is dialed, or has a    *)
(* session, again and again, whatever reloads and aborted tasks went       *)
(* before.                                                                 *)
WantedPeerDialed ==
    Wanted(cfg) ~> \/ ~Wanted(cfg) \/ At("dialing")
                   \/ \E i \in Slots : sess[i].st \notin {"none", "ended"}

(* The row of show ip bgp summary is the session's: the status object that *)
(* an established session writes to is the one the registry lists, if the  *)
(* peer is configured by its address and came in through the listener, and *)
(* once the session has seen the reloads.                                  *)
StatusIsListed ==
    \A i \in Slots :
       /\ sess[i].st = "up" /\ sess[i].inbox = <<>>
       /\ sess[i].cfg.key = "exact" /\ ~sess[i].dialed
       => sess[i].arc = "listed"
==============================================================================
