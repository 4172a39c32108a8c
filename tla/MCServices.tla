----------------------------- MODULE MCServices -----------------------------
(* Outgoing BGP sessions and three targets for TLC.  They share no state:  *)
(* a behaviour explores one of them.                                       *)
EXTENDS BgpDial, Mqtt, Targets

VARIABLE which

servicesVars == <<which, dialVars, chVars, mqttVars, fileVars>>

ServicesInit ==
    /\ which \in {"dial", "clickhouse", "mqtt", "file"}
    /\ DialInit /\ ChInit /\ MqttInit /\ FileInit
    /\ which # "dial" => cfg = Absent
    /\ which # "mqtt" => settings = CHOOSE s \in Settings : TRUE

Dial(A) == which = "dial" /\ A /\ UNCHANGED <<which, chVars, mqttVars, fileVars>>
Ch(A) == which = "clickhouse" /\ A /\ UNCHANGED <<which, dialVars, mqttVars, fileVars>>
Mq(A) == which = "mqtt" /\ A /\ UNCHANGED <<which, dialVars, chVars, fileVars>>
Fi(A) == which = "file" /\ A /\ UNCHANGED <<which, dialVars, chVars, mqttVars>>

ServicesNext ==
    \/ which = "dial" /\ DialNext /\ UNCHANGED <<which, chVars, mqttVars, fileVars>>
    \/ which = "clickhouse" /\ ChNext /\ UNCHANGED <<which, dialVars, mqttVars, fileVars>>
    \/ which = "mqtt" /\ MqttNext /\ UNCHANGED <<which, dialVars, chVars, fileVars>>
    \/ which = "file" /\ FileNext /\ UNCHANGED <<which, dialVars, chVars, mqttVars>>

(* The fairness of each module, in the behaviours that explore it; as      *)
(* `which' never changes, a disjunction over it is as fair as its parts.   *)
ServicesFairness ==
    /\ WF_servicesVars(Dial(DialSystem) \/ Ch(ChSystem) \/ Mq(MqttSystem) \/ Fi(FileSystem))
    /\ WF_servicesVars(Dial(Reconcile) \/ Fi(SecondPasses))
    /\ WF_servicesVars(Dial(DialCheck \/ DialFails \/ SessionOver \/ Awake))

ServicesSpec == ServicesInit /\ [][ServicesNext]_servicesVars /\ ServicesFairness

(* MqttSettles of the behaviours that explore Mqtt: reloads and messages   *)
(* never keep MqttRunner::process_events from its broker for ever.         *)
BrokerInUse == which = "mqtt" => MqttSettles
=============================================================================
