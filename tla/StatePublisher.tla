---------------------------- MODULE StatePublisher ----------------------------
(* What the network services thread tells clients of the pool's state       *)
(* (net_services.c).  Whoever changes the state sets is_dirty; the thread   *)
(* then sends the whole state to the browsers and what differs from what it *)
(* sent last to the MQTT server, which retains it, and clears the flag.     *)
(* The state is not locked.  A connection that is lost is opened again at   *)
(* the next broadcast.                                                      *)
EXTENDS Integers, Sequences

CONSTANTS
    ReportZeroPool, ReportZeroSpa,  \* report_zero_pool_temp, report_zero_spa_temp
    Temperatures,                   \* and setpoints
    StateChanges,                   \* bound: changes of the state
    Breaks                          \* bound: losses of the connection

ASSUME PublisherAssumption ==
    /\ {ReportZeroPool, ReportZeroSpa} \subseteq BOOLEAN
    /\ Temperatures \subseteq Nat \ {0} /\ {StateChanges, Breaks} \subseteq Nat

Unknown == -999     \* TEMP_UNKNOWN, LED_S_UNKNOWN
Never == -1         \* what is in no state: TEMP_REFRESH, -1, LED_S_UNKNOWN for other LEDs
Off == 0
On == 1

(* In the order in which mqtt_broadcast_aqualinkstate compares them; the    *)
(* members of the state that it treats like one of these are left out, and  *)
(* so are the topics of timers, which depend on the time.                   *)
Fields == <<"pool_temp", "spa_temp", "frz_set_point", "frz_state", "swg_led", "boost">>
Names == {Fields[k] : k \in DOMAIN Fields}
Domain(f) ==
    CASE f \in {"frz_state", "boost"} -> {Off, On}
      [] f = "swg_led" -> {Unknown, Off, On}
      [] OTHER -> {Unknown} \cup Temperatures

(* What is changed without is_dirty in places: the LED and boost with a     *)
(* request, the temperatures when their pump stops, the setpoint by a menu. *)
Quiet == {"pool_temp", "spa_temp", "frz_set_point", "boost"}

(* What is recorded after it was sent, from the state as it is then, where  *)
(* the others are recorded first and then sent from the state as it is      *)
(* then.  The state of freeze protection is sent with its setpoint.         *)
Late(f) ==
    CASE f \in {"swg_led", "boost"} -> f
      [] f = "frz_set_point" -> "frz_state"
      [] OTHER -> "none"

VARIABLES
    aqualinkdata,   \* the state
    is_dirty,
    lastMqtt,       \* _last_mqtt_aqualinkdata
    mqttExit,       \* _mqtt_exit_flag
    connection,     \* "none", "connecting" or "connected"
    outgoing,       \* what is in the connection's send buffer, by topic
    retained,       \* what the MQTT server retains
    page,           \* what the browsers were sent last
    cursor,         \* the field to be compared next, 0 outside of a broadcast
    stage,          \* "compare", "send" or "record": what is to be done next
    source,         \* what is then sent for the field
    missed,         \* since the last broadcast began something was changed
                    \* in it or without is_dirty (history)
    slipped,        \* fields changed between being sent and recorded when they
                    \* were sent last (history)
    stateChanges, breaks

publisherVars == <<aqualinkdata, is_dirty, lastMqtt, mqttExit, connection, outgoing, retained,
                   page, cursor, stage, source, missed, slipped, stateChanges, breaks>>

Unsent == [f \in Names |-> Never]

PublisherInit ==
    /\ aqualinkdata = [f \in Names |-> IF Unknown \in Domain(f) THEN Unknown ELSE Off]
    /\ is_dirty = TRUE /\ lastMqtt = Unsent /\ mqttExit = FALSE
    /\ connection = "connecting" /\ outgoing = Unsent /\ retained = Unsent
    /\ page = Unsent /\ cursor = 0 /\ stage = "compare" /\ source = "none"
    /\ missed = FALSE /\ slipped = {} /\ stateChanges = 0 /\ breaks = 0

-----------------------------------------------------------------------------
(* The threads of the program.  The value is written before the flag.       *)
ChangeState(f, v) ==
    /\ stateChanges < StateChanges /\ stateChanges' = stateChanges + 1
    /\ v \in Domain(f) \ {aqualinkdata[f]}
    /\ v = Unknown => f \in {"pool_temp", "spa_temp"}
    /\ aqualinkdata' = [aqualinkdata EXCEPT ![f] = v]
    /\ \E tells \in {TRUE, f \notin Quiet} :
          /\ is_dirty' = (is_dirty \/ tells)
          /\ missed' = (missed \/ ~tells \/ cursor # 0)
    /\ slipped' = CASE stage = "send" /\ f = source -> slipped \cup {Fields[cursor]}
                    [] stage = "record" /\ f = Late(Fields[cursor]) -> slipped \cup {f}
                    [] OTHER -> slipped
    /\ UNCHANGED <<lastMqtt, mqttExit, connection, outgoing, retained, page, cursor, stage, source,
                   breaks>>

-----------------------------------------------------------------------------
(* mg_mgr_poll: events of the connection, between two broadcasts.           *)
Poll(c, exit, out, server) ==
    /\ cursor = 0
    /\ connection' = c /\ mqttExit' = exit /\ outgoing' = out /\ retained' = server
    /\ UNCHANGED <<aqualinkdata, is_dirty, lastMqtt, page, cursor, stage, source, missed, slipped,
                   stateChanges>>

Arrived == [f \in Names |-> IF outgoing[f] = Never THEN retained[f] ELSE outgoing[f]]

(* MG_EV_CONNECT; what is in the buffer is sent after that.                 *)
Connect == connection = "connecting" /\ Poll("connected", FALSE, outgoing, retained) /\ UNCHANGED breaks
Flush == connection = "connected" /\ outgoing # Unsent
         /\ Poll(connection, mqttExit, Unsent, Arrived) /\ UNCHANGED breaks

(* MG_EV_CLOSE: the server refuses the connection, or it is lost with what  *)
(* is in the buffer, and maybe with what the server retained.               *)
Close ==
    /\ connection # "none" /\ breaks < Breaks /\ breaks' = breaks + 1
    /\ \E server \in {retained, Unsent} : Poll("none", TRUE, Unsent, server)

-----------------------------------------------------------------------------
(* (Fault) What was sent over the lost connection counts as sent.           *)
start_mqttKeepsLast ==
    /\ connection' = "connecting" /\ mqttExit' = FALSE /\ outgoing' = Unsent
    /\ UNCHANGED lastMqtt

(* start_mqtt with reset_last_mqtt_status.                                  *)
start_mqtt ==
    /\ connection' = "connecting" /\ mqttExit' = FALSE /\ outgoing' = Unsent
    /\ lastMqtt' = Unsent

(* _broadcast_aqualinkstate: the browsers, then the MQTT connection, which  *)
(* may be one that was asked for just now.                                  *)
BeginBroadcast ==
    /\ cursor = 0 /\ is_dirty
    /\ page' = aqualinkdata
    /\ cursor' = 1 /\ missed' = FALSE
    /\ IF mqttExit THEN start_mqtt ELSE UNCHANGED <<connection, mqttExit, outgoing, lastMqtt>>
    /\ UNCHANGED <<aqualinkdata, is_dirty, retained, stage, source, slipped, stateChanges, breaks>>

(* What mqtt_broadcast_aqualinkstate sends for the field f: itself, what    *)
(* stands for it, or nothing.  Temperatures and what is unknown have rules  *)
(* of their own, and boost is not looked at without a SWG.                  *)
Source(f) ==
    LET now == aqualinkdata[f]
        pool == aqualinkdata["pool_temp"]
        withSwg == f \notin {"swg_led", "boost"} \/ aqualinkdata["swg_led"] # Unknown
    IN CASE now = lastMqtt[f] \/ ~withSwg -> "none"
         [] now # lastMqtt[f] /\ withSwg /\ now # Unknown -> f
         [] OTHER -> CASE f = "pool_temp" /\ ReportZeroPool -> "zero"
                       [] f = "spa_temp" /\ ReportZeroSpa -> "zero"
                       [] f = "spa_temp" /\ ~ReportZeroSpa /\ pool # lastMqtt[f] /\ pool # Unknown ->
                            "pool_temp"
                       [] OTHER -> "none"

(* An unknown temperature that is sent as 0 is recorded as unknown.         *)
Value(from, zero) == IF from = "zero" THEN zero ELSE aqualinkdata[from]

Step ==
    /\ cursor' = IF cursor = Len(Fields) THEN 0 ELSE cursor + 1
    /\ is_dirty' = (cursor # Len(Fields) /\ is_dirty)
    /\ stage' = "compare" /\ source' = "none"
Goes(to, from) == stage' = to /\ source' = from /\ UNCHANGED <<cursor, is_dirty>>

CompareField ==
    LET f == Fields[cursor]
        from == Source(f)
    IN /\ cursor # 0 /\ stage = "compare"
       /\ slipped' = IF from = "none" THEN slipped ELSE slipped \ {f}
       /\ CASE from = "none" -> Step /\ UNCHANGED <<lastMqtt, outgoing>>
            [] from # "none" /\ Late(f) = f ->
                 outgoing' = [outgoing EXCEPT ![f] = Value(from, 0)]
                 /\ Goes("record", from) /\ UNCHANGED lastMqtt
            [] OTHER ->
                 lastMqtt' = [lastMqtt EXCEPT ![f] = Value(from, Unknown)]
                 /\ Goes("send", from) /\ UNCHANGED outgoing
       /\ UNCHANGED <<aqualinkdata, mqttExit, connection, retained, page, missed, stateChanges, breaks>>

SendField ==
    LET f == Fields[cursor]
        with == IF Late(f) = "none" THEN {} ELSE {Late(f)}
    IN /\ stage = "send"
       /\ outgoing' = [g \in Names |-> CASE g = f -> Value(source, 0)
                                         [] g \in with -> aqualinkdata[g]
                                         [] OTHER -> outgoing[g]]
       /\ slipped' = slipped \ with
       /\ IF with = {} THEN Step ELSE Goes("record", "none")
       /\ UNCHANGED <<aqualinkdata, lastMqtt, mqttExit, connection, retained, page, missed,
                      stateChanges, breaks>>

RecordField ==
    LET f == Late(Fields[cursor])
    IN /\ stage = "record"
       /\ lastMqtt' = [lastMqtt EXCEPT ![f] = aqualinkdata[f]]
       /\ Step
       /\ UNCHANGED <<aqualinkdata, mqttExit, connection, outgoing, retained, page, missed, slipped,
                      stateChanges, breaks>>

PublisherNext ==
    \/ \E f \in Names : \E v \in Domain(f) : ChangeState(f, v)
    \/ Connect \/ Flush \/ Close
    \/ BeginBroadcast \/ CompareField \/ SendField \/ RecordField

-----------------------------------------------------------------------------
(* What the topics should say, for what there is to say.                    *)
Meant(f) ==
    LET now == aqualinkdata[f]
    IN CASE f = "boost" /\ aqualinkdata["swg_led"] = Unknown -> Never
         [] f = "pool_temp" /\ now = Unknown -> IF ReportZeroPool THEN 0 ELSE Never
         [] f = "spa_temp" /\ now = Unknown ->
              IF ReportZeroSpa THEN 0
              ELSE IF aqualinkdata["pool_temp"] = Unknown THEN Never ELSE aqualinkdata["pool_temp"]
         [] OTHER -> IF now = Unknown THEN Never ELSE now

(* When nothing is marked as changed, the browsers have been sent the state *)
(* and the MQTT server retains it, or will when it has got what is in the   *)
(* buffer: after a connection that was lost with its messages, a server     *)
(* that forgot everything, an unknown temperature, or a SWG that appears.   *)
(* Not so what was changed without the mark or during the last broadcast,   *)
(* nor a field that changed between its sending and its recording.          *)
CleanIsTold ==
    cursor = 0 /\ ~is_dirty /\ ~missed =>
        /\ page = aqualinkdata
        /\ connection # "none" =>
              \A f \in Names \ slipped : Meant(f) \in {Never, Arrived[f]}
=============================================================================
