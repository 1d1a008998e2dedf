------------------------------ MODULE Scheduler ------------------------------
(* The events at which the scheduler starts the pump (aq_scheduler.c): the  *)
(* pump is to run between two hours, which are read from the crontab each   *)
(* time into two numbers of the configuration, 0 standing for not set.      *)
EXTENDS Integers, Sequences

CONSTANTS
    Hours,      \* of the day that are looked at
    Crontabs    \* sequences of lines that start the pump or stop it

ASSUME SchedulerAssumption ==
    /\ Hours \subseteq 0..23
    /\ Crontabs \subseteq Seq([start : BOOLEAN, hour : 0..23])

(* build_schedules_js: what one line does to the hours.                     *)
ReadLine(hours, line) ==
    CASE line.start /\ (line.hour < hours.on \/ hours.on = 0) -> [hours EXCEPT !.on = line.hour]
      [] ~line.start /\ line.hour > hours.off -> [hours EXCEPT !.off = line.hour]
      [] OTHER -> hours

(* get_cron_pump_times: the hours are not reset before.                     *)
get_cron_pump_times(hours, crontab) ==
    LET read[k \in 0..Len(crontab)] ==
            IF k = 0 THEN hours ELSE ReadLine(read[k - 1], crontab[k])
    IN read[Len(crontab)]

(* (Fault) The pump is started in the hour in which it is to stop, too.     *)
ScheduledToTheEnd(hours, hour) == hour >= hours.on /\ hour <= hours.off

scheduledOn(hours, hour) == hour >= hours.on /\ hour < hours.off

(* event_happened_set_device_state for AQS_FRZ_PROTECT_OFF, AQS_BOOST_OFF   *)
(* and AQS_POWER_ON, all enabled.  The request sets the LED at once, so a   *)
(* second event does not press the key again.                               *)
event_happened_set_device_state(s, event, crontab, hour) ==
    LET hours == get_cron_pump_times(s.hours, crontab)
        asks == scheduledOn(hours, hour) /\ ~s.pump
    IN [s EXCEPT !.hours = hours, !.pump = @ \/ asks,
                 !.asked = @ \/ asks, !.events = @ \cup {event}]
=============================================================================
