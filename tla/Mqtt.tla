-------------------------------- MODULE Mqtt --------------------------------
(***************************************************************************)
(* The MQTT target (src/src/targets/mqtt): updates are queued by           *)
(* direct_update, and one task makes the connection, handles commands and  *)
(* publishes.  The client library's event loop runs in a task of its own,  *)
(* which hands its client over; the library itself is external.            *)
(*                                                                         *)
(* The select of process_events drops the future of Connection::process    *)
(* whenever it takes a command or a message.  While the connection is new, *)
(* this drops the receiving end of the handover as well.                   *)
(***************************************************************************)
EXTENDS Naturals

CONSTANTS
    Brokers,       \* destinations (with the client id and the queue size)
    Delays,        \* values of connect_retry_secs
    PubRoom,       \* capacity of the publish queue
    ClientRoom,    \* capacity of a client's own queue of requests
    MaxPublished,  \* bound: messages
    MaxChanges     \* bound: reconfigurations

VARIABLES
    settings,   \* the configuration in force: [broker, delay]
    changes, sent,
    waiting,    \* messages in the publish queue
    state,      \* ConnectionState; Leaving and Ending: in disconnect().await
    handover,   \* none, spawned (the loop has the client) or sent
    dialed,     \* the broker of the connection
    delay,      \* the retry delay that the event loop goes by
    link,       \* the running loop is connected
    requests,   \* requests in the client's queue
    orphans     \* event loops that no connection holds

mqttVars == <<settings, changes, sent, waiting, state, handover, dialed, delay, link,
              requests, orphans>>

Settings == [broker : Brokers, delay : Delays]

MqttInit ==
    /\ settings \in Settings
    /\ changes = 0 /\ sent = 0 /\ waiting = 0
    /\ state = "New" /\ handover = "none"
    /\ dialed = settings.broker /\ delay = settings.delay
    /\ link = FALSE /\ requests = 0 /\ orphans = 0

(* direct_update never waits: at a full queue, the message is dropped. *)
Enqueue ==
    /\ sent < MaxPublished
    /\ sent' = sent + 1
    /\ waiting' = IF waiting < PubRoom /\ state # "Ended" THEN waiting + 1 ELSE waiting
    /\ UNCHANGED <<settings, changes, state, handover, dialed, delay, link, requests, orphans>>

-----------------------------------------------------------------------------
(* Connection::process of a new connection: the client comes from the loop. *)

SpawnLoop ==
    /\ state = "New" /\ handover = "none"
    /\ handover' = "spawned"
    /\ UNCHANGED <<settings, changes, sent, waiting, state, dialed, delay, link, requests,
                   orphans>>

LoopHandsOver ==
    /\ handover = "spawned"
    /\ handover' = "sent"
    /\ UNCHANGED <<settings, changes, sent, waiting, state, dialed, delay, link, requests,
                   orphans>>

TakesClient ==
    /\ state = "New" /\ handover = "sent"
    /\ state' = "Running" /\ handover' = "none"
    /\ UNCHANGED <<settings, changes, sent, waiting, dialed, delay, link, requests, orphans>>

(* Another branch of the select is taken: a loop that has not handed over  *)
(* finds the receiver gone and returns; one that has goes on, although     *)
(* nobody has its client.                                                  *)
Cancelled ==
    /\ handover' = "none"
    /\ orphans' = IF handover = "sent" THEN orphans + 1 ELSE orphans

(* The branches are polled in order: a command or a message is taken only  *)
(* when process was pending.                                               *)
Selectable == state = "Running" \/ (state = "New" /\ handover # "none")

-----------------------------------------------------------------------------
(* mqtt_event_loop, of the connection's own loop: it connects, fails and   *)
(* retries after the delay, and sends requests only while connected.       *)

HasLoop == state \in {"Running", "Leaving", "Ending"}

LoopConnects ==
    /\ HasLoop /\ link = FALSE
    /\ link' = TRUE
    /\ UNCHANGED <<settings, changes, sent, waiting, state, handover, dialed, delay,
                   requests, orphans>>

LoopFails ==
    /\ HasLoop /\ link = TRUE
    /\ link' = FALSE
    /\ UNCHANGED <<settings, changes, sent, waiting, state, handover, dialed, delay,
                   requests, orphans>>

LoopSends ==
    /\ HasLoop /\ link = TRUE /\ requests > 0
    /\ requests' = requests - 1
    /\ UNCHANGED <<settings, changes, sent, waiting, state, handover, dialed, delay, link,
                   orphans>>

-----------------------------------------------------------------------------
(* Commands and messages.                                                  *)

\* Mutant: a new broker does not make the target reconnect.
NeverReconnects(new) == FALSE

Reconnects(new) == new.broker # settings.broker

(* do_run makes the next connection from the configuration in force. *)
Fresh(conf) ==
    /\ state' = "New" /\ dialed' = conf.broker /\ delay' = conf.delay
    /\ link' = FALSE /\ requests' = 0

(* The delay is first set from the configuration that is being replaced. *)
Reconfigure(new) ==
    /\ Selectable /\ changes < MaxChanges /\ new # settings
    /\ changes' = changes + 1
    /\ settings' = new
    /\ Cancelled
    /\ IF Reconnects(new) /\ state = "New"
       THEN Fresh(new)
       ELSE /\ delay' = settings.delay
            /\ state' = IF Reconnects(new) THEN "Leaving" ELSE state
            /\ UNCHANGED <<dialed, link, requests>>
    /\ UNCHANGED <<sent, waiting>>

Terminates ==
    /\ Selectable
    /\ Cancelled
    /\ state' = IF state = "Running" THEN "Ending" ELSE "Ended"
    /\ UNCHANGED <<settings, changes, sent, waiting, dialed, delay, link, requests>>

(* disconnect: the request to disconnect needs room in the client's queue; *)
(* then the loop is aborted, whatever it still had to send.                *)
Disconnects ==
    /\ state \in {"Leaving", "Ending"} /\ requests < ClientRoom
    /\ IF state = "Leaving"
       THEN Fresh(settings)
       ELSE /\ state' = "Ended" /\ link' = FALSE /\ requests' = 0
            /\ UNCHANGED <<dialed, delay>>
    /\ UNCHANGED <<settings, changes, sent, waiting, handover, orphans>>

Popped == waiting - 1

(* publish_msg: without room in the client's queue the attempt times out,  *)
(* and without a client there is nothing to attempt; the message is gone   *)
(* in each case.                                                           *)
Publish ==
    /\ Selectable /\ waiting > 0
    /\ waiting' = Popped
    /\ Cancelled
    /\ requests' = IF state = "Running" /\ requests < ClientRoom THEN requests + 1 ELSE requests
    /\ UNCHANGED <<settings, changes, sent, state, dialed, delay, link>>

-----------------------------------------------------------------------------
MqttSystem == SpawnLoop \/ LoopHandsOver \/ TakesClient \/ Publish \/ Disconnects \/ LoopSends

MqttNext ==
    \/ Enqueue
    \/ MqttSystem
    \/ LoopConnects \/ LoopFails
    \/ \E new \in Settings : Reconfigure(new)
    \/ Terminates
    \/ state = "Ended" /\ UNCHANGED mqttVars

MqttSpec == MqttInit /\ [][MqttNext]_mqttVars /\ WF_mqttVars(MqttSystem)

-----------------------------------------------------------------------------
(* Properties.                                                             *)

(* After reloads and messages the target is connected to the broker that   *)
(* is configured and its queue is empty: although every message that is    *)
(* queued meanwhile cancels the handover, which then starts again, and     *)
(* although the broker may be away (process_events, Connection::process,   *)
(* publish_msg); or else it ended, or it waits in disconnect for a broker  *)
(* that is away to take a request.                                         *)
MqttSettles ==
    []<>(\/ state = "Running" /\ dialed = settings.broker /\ waiting = 0
         \/ state = "Ended"
         \/ state \in {"Leaving", "Ending"} /\ link = FALSE /\ requests = ClientRoom)
=============================================================================
