---------------------------- MODULE FireSchedule ----------------------------
(***************************************************************************)
(* When an automation sends (automations.go, processor.go): the operator's *)
(* form becomes a schedule, the schedule four columns, the columns a       *)
(* schedule again, that a rule, and the rule and the moment of the event   *)
(* the moment of the send.                                                 *)
(*                                                                         *)
(* Instants are minutes; instant 0 is a Monday 00:00 in UTC.  A zone is    *)
(* its offset, the same all year: the nights on which clocks change are    *)
(* not here.                                                               *)
(***************************************************************************)
EXTENDS Integers

CONSTANTS
    MinutesPerHour, HoursPerDay,
    Zones,         \* names LoadLocation knows; "UTC" and DefaultTimezone too
    Offset         \* for each of them, local time minus UTC in minutes

MinutesPerDay == MinutesPerHour * HoursPerDay
DefaultTimezone == "Africa/Tunis"

ASSUME ScheduleAssumption ==
    /\ MinutesPerHour \in Nat \ {0}
    /\ HoursPerDay \in Nat \ {0}
    /\ {"UTC", DefaultTimezone} \subseteq Zones
    /\ Offset \in [Zones -> -MinutesPerDay .. MinutesPerDay]
    /\ Offset["UTC"] = 0

AllDays == 1 .. 7
Minutes == 0 .. MinutesPerDay - 1

Absent == -1       \* a nil pointer, a NULL column, a field that does not parse

-----------------------------------------------------------------------------
(* The form and the schedule.                                              *)

(* A schedule; "nil" fires at once, "refused" is an error.                 *)
Schedule(minute, delay, zone, days) ==
    [kind |-> "rule", minute |-> minute, delay |-> delay, zone |-> zone,
     days |-> days]
Nil     == [Schedule(Absent, Absent, "", {}) EXCEPT !.kind = "nil"]
Refused == [Schedule(Absent, Absent, "", {}) EXCEPT !.kind = "refused"]

FixedSchedule(form) ==
    LET zone == IF form.zone = "" THEN DefaultTimezone ELSE form.zone
    IN  IF /\ form.time # Absent
           /\ zone \in Zones
           /\ form.days # {} /\ form.days \subseteq AllDays
        THEN Schedule(form.time, Absent, zone, form.days)
        ELSE Refused

DelayedSchedule(form) ==
    IF form.delay > 0 THEN Schedule(Absent, form.delay, "", AllDays) ELSE Refused

ParseSchedule(form) ==
    CASE form.mode \in {"", "instant"} -> Nil
      [] form.mode = "fixed"           -> FixedSchedule(form)
      [] form.mode = "delayed"         -> DelayedSchedule(form)
      [] OTHER                         -> Refused

-----------------------------------------------------------------------------
(* The columns and back.  send_time is a time of day.                      *)

TimeOfDay(minute) == [hour   |-> minute \div MinutesPerHour,
                      minute |-> minute % MinutesPerHour]
NullTime == [hour |-> Absent, minute |-> Absent]

ScheduleToColumns(s) ==
    [sendTime |-> IF s.minute = Absent THEN NullTime ELSE TimeOfDay(s.minute),
     timezone |-> IF s.zone = "" THEN "UTC" ELSE s.zone,
     days     |-> IF s.days = {} THEN AllDays ELSE s.days,
     delay    |-> s.delay]

ScheduleOf(cols) ==
    LET minute == IF cols.sendTime = NullTime THEN Absent
                  ELSE cols.sendTime.hour * MinutesPerHour + cols.sendTime.minute
    IN  IF minute = Absent /\ cols.delay = Absent THEN Nil
        ELSE Schedule(minute, cols.delay,
                      IF cols.timezone = "" THEN "UTC" ELSE cols.timezone,
                      IF cols.days = {} THEN AllDays ELSE cols.days)

RuleFromSchedule(s) ==
    [minute |-> s.minute, delay |-> s.delay,
     zone   |-> IF s.zone = "" THEN "UTC" ELSE s.zone,
     days   |-> IF s.days = {} THEN AllDays ELSE s.days]

-----------------------------------------------------------------------------
(* The moment of the send.                                                 *)

Location(rule) == IF rule.zone \in Zones THEN rule.zone ELSE "UTC"

DayOf(local)    == local \div MinutesPerDay
MinuteOf(local) == local % MinutesPerDay

(* time.Weekday counts from Sunday, and instant 0 is a Monday.             *)
Weekday(local) == (DayOf(local) + 1) % 7

IsoWeekday(local) == ((Weekday(local) + 6) % 7) + 1

Allows(rule, weekday) == weekday \in rule.days

Window(rule, day) == day * MinutesPerDay + rule.minute

(* The first allowed day of the next two weeks; Absent when there is none. *)
NextAllowedDay(rule, local) ==
    LET ahead == {d \in 1 .. 14 : Allows(rule, IsoWeekday(local + d * MinutesPerDay))}
    IN  IF ahead = {} THEN Absent
        ELSE Window(rule, DayOf(local) + CHOOSE d \in ahead : \A e \in ahead : d <= e)

(* Mutated form: a window that has opened waits for the next day.          *)
FixedFireLate(rule, local) ==
    IF Allows(rule, IsoWeekday(local)) /\ Window(rule, DayOf(local)) > local
    THEN Window(rule, DayOf(local)) ELSE NextAllowedDay(rule, local)

FixedFire(rule, local) ==
    IF ~Allows(rule, IsoWeekday(local)) THEN NextAllowedDay(rule, local)
    ELSE IF Window(rule, DayOf(local)) > local THEN Window(rule, DayOf(local))
    ELSE Absent

(* Absent sends right away.                                                *)
ScheduledFire(rule, now) ==
    LET offset == Offset[Location(rule)]
        local  == now + offset
    IN  IF rule.delay # Absent THEN now + rule.delay
        ELSE IF rule.minute = Absent THEN Absent
        ELSE LET at == FixedFire(rule, local)
             IN  IF at = Absent THEN Absent ELSE at - offset

(* What the save of a form and an event at now come to.                    *)
Sent(form, now) ==
    LET stored == ScheduleOf(ScheduleToColumns(ParseSchedule(form)))
        at     == ScheduledFire(RuleFromSchedule(stored), now)
    IN  IF at = Absent THEN now ELSE at

-----------------------------------------------------------------------------

(* What the form says: at once, so many minutes later, or at the first     *)
(* moment from the event on that is, in the zone of the form, on a chosen  *)
(* weekday and not before the chosen time of day.                          *)
InWindow(form, instant) ==
    LET zone  == IF form.zone = "" THEN DefaultTimezone ELSE form.zone
        local == instant + Offset[zone]
    IN  MinuteOf(local) >= form.time /\ (DayOf(local) % 7) + 1 \in form.days

Asked(form, now) ==
    CASE form.mode = "fixed" ->
            CHOOSE u \in now .. now + 8 * MinutesPerDay :
                /\ InWindow(form, u)
                /\ \A v \in now .. u - 1 : ~InWindow(form, v)
      [] form.mode = "delayed" -> now + form.delay
      [] OTHER -> now

=============================================================================
