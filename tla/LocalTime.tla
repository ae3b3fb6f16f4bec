------------------------------ MODULE LocalTime ------------------------------
(***************************************************************************)
(* The clock functions of baldr/datetime.cc, as a trip planner uses them:  *)
(* the current date and time of a zone, the next date and time of a        *)
(* weekday, seconds since the epoch and back, and a time so many seconds   *)
(* later, while the clock runs on and the zone goes to summer time and     *)
(* back.                                                                   *)
(*                                                                         *)
(* An instant is a number of seconds since the pivot date in UTC.  A local *)
(* date and time, a string in the code, is the number of seconds since the *)
(* pivot date on the wall clock.  The time zones are Boost's: what a zone  *)
(* does to an instant or to a local time is external.                      *)
(***************************************************************************)
EXTENDS Calendar

CONSTANTS
  Instants,   \* when callers look at the clock
  Zones,      \* time zones
  NoZone,     \* the null zone of an unknown region
  Empty,      \* an empty string, or zero seconds
  AskedDays,  \* weekdays that callers ask for
  Times,      \* times of day they ask for, in seconds
  Durations   \* seconds they add

Day    == 86400
Minute == 60
kDOWNone == -1    \* no bit; the weekdays are the numbers of their bits

\* A zone has an offset and a summer time: from one instant to another, and
\* the seconds the clock is put forward; Boost's zones are in whole minutes.
IsZone(z) ==
  /\ z.base \in Int /\ z.from \in Int /\ z.to \in Int /\ z.shift \in Nat
  /\ z.base % Minute = 0 /\ z.from % Minute = 0
  /\ z.to % Minute = 0 /\ z.shift % Minute = 0
  /\ z.from + z.shift <= z.to - z.shift

ASSUME ClockTypes ==
  /\ Instants \subseteq Nat
  /\ \A z \in Zones : IsZone(z)
  /\ NoZone \notin Zones /\ Empty \notin Int
  /\ AskedDays \subseteq Weekdays
  /\ Times \subseteq {t \in 0 .. Day - 1 : t % Minute = 0}
  /\ Durations \subseteq Nat

VARIABLES
  now,     \* the clock
  zone,    \* the caller's time zone
  kept,    \* the last date and time it got from iso_date_time, and when
  ret      \* the last call and its answer
clock_vars == <<now, zone, kept, ret>>

Date(d) == d \div Day
Time(d) == d % Day
ToMinute(d) == d - (d % Minute)
-----------------------------------------------------------------------------
\* Boost: the local time of an instant.
Summer(z, u) == z.from <= u /\ u < z.to
Offset(z, u) == IF Summer(z, u) THEN z.base + z.shift ELSE z.base
Local(z, u)  == u + Offset(z, u)

\* Boost: the labels the clock skips, and those of summer time only.
Skipped(z, d) == z.from + z.base <= d /\ d < z.from + z.base + z.shift
OnlySummer(z, d) == z.from + z.base + z.shift <= d /\ d < z.to + z.base

\* Boost: the instant of a local time that the caller says is not in summer
\* time (dst false); an exception for a label that is, or is skipped.
Refused(z, d) == Skipped(z, d) \/ OnlySummer(z, d)
Utc(z, d)     == d - z.base
-----------------------------------------------------------------------------
\* iso_date_time(time_zone): the seconds are cut off.
NowIn(z) == IF z = NoZone THEN Empty ELSE ToMinute(Local(z, now))

DayOfWeekMask(d) == IF Date(d) < 0 THEN kDOWNone ELSE DayOfWeek(Date(d))

\* desired_tod and current_tod are uint8_t.
Byte(n) == n % 256

\* The first day from date on that has the weekday: the while loop.
NextDay(date, dow) ==
  CHOOSE d \in date + 1 .. date + 7 : DayOfWeek(d) = dow

\* Mutant of InThePast: the current minute is past.
InThePastToo(desired, current) == Byte(desired) <= Byte(current)
InThePast(desired, current) == Byte(desired) < Byte(current)

\* iso_date_time(dow_mask, time, time_zone).
OnWeekday(dow, time, z) ==
  IF z = NoZone \/ dow = kDOWNone THEN Empty
  ELSE LET today == Date(Local(z, now))
           date  == IF DayOfWeek(today) # dow THEN NextDay(today, dow)
                    ELSE IF InThePast(time, Time(ToMinute(Local(z, now))))
                      THEN today + 7 ELSE today
       IN  date * Day + time

\* seconds_since_epoch(date_time, time_zone): whatever goes wrong is 0.
\* Mutant of SecondsOf: the offset is added.
SecondsOfAdded(d, z) == IF Refused(z, d) THEN Empty ELSE d + z.base
SecondsOf(d, z) == IF Refused(z, d) THEN Empty ELSE Utc(z, d)

\* seconds_to_date(seconds, time_zone).
\* Mutant of ToDate: in UTC.
ToDateUtc(u, z) == IF z = NoZone THEN Empty ELSE ToMinute(u)
ToDate(u, z) == IF z = NoZone THEN Empty ELSE ToMinute(Local(z, u))

\* get_duration(date_time, seconds), on the wall clock.
\* Mutant of Later: the date does not move on with the time.
LaterSameDate(d, seconds) ==
  IF Date(d) < 0 THEN Empty ELSE Date(d) * Day + Time(ToMinute(d + seconds))
Later(d, seconds) == IF Date(d) < 0 THEN Empty ELSE ToMinute(d + seconds)
-----------------------------------------------------------------------------
NoTime == [at |-> 0, text |-> Empty]

ClockInit ==
  /\ now \in Instants
  /\ zone \in Zones \cup {NoZone}
  /\ kept = NoTime
  /\ ret = [call |-> "none", answer |-> Empty]

\* The clock runs on.
Tick ==
  /\ \E later \in Instants : now < later /\ now' = later
  /\ UNCHANGED <<zone, kept, ret>>

AskNow ==
  /\ kept' = [at |-> now, text |-> NowIn(zone)]
  /\ ret' = [call |-> "now", answer |-> NowIn(zone)]
  /\ UNCHANGED <<now, zone>>

\* A weekday and a time of the caller's own, or those of the time it keeps.
AskWeekday ==
  /\ \/ \E dow \in AskedDays, time \in Times :
          ret' = [call |-> "weekday", at |-> now, dow |-> dow, time |-> time,
                  answer |-> OnWeekday(dow, time, zone)]
     \/ /\ kept.text # Empty
        /\ ret' = [call |-> "weekday", at |-> now, dow |-> DayOfWeekMask(kept.text),
                   time |-> Time(kept.text),
                   answer |-> OnWeekday(DayOfWeekMask(kept.text), Time(kept.text), zone)]
  /\ UNCHANGED <<now, zone, kept>>

AskSeconds ==
  /\ kept.text # Empty
  /\ ret' = [call |-> "seconds", of |-> kept, answer |-> SecondsOf(kept.text, zone)]
  /\ UNCHANGED <<now, zone, kept>>

\* The seconds it was answered, or the current ones, turned into a date.
AskDate ==
  /\ \E u \in {now} \cup (IF ret.call = "seconds" /\ ret.answer # Empty
                           THEN {ret.answer} ELSE {}) :
       ret' = [call |-> "date", of |-> u, from |-> ret, answer |-> ToDate(u, zone)]
  /\ ret.call \in {"none", "now", "seconds"}
  /\ UNCHANGED <<now, zone, kept>>

AskLater == \E seconds \in Durations :
  /\ kept.text # Empty
  /\ ret' = [call |-> "later", of |-> kept, seconds |-> seconds,
             answer |-> Later(kept.text, seconds)]
  /\ UNCHANGED <<now, zone, kept>>

ClockNext == Tick \/ AskNow \/ AskWeekday \/ AskSeconds \/ AskDate \/ AskLater

ClockSpec == ClockInit /\ [][ClockNext]_clock_vars
-----------------------------------------------------------------------------
Today(u) == Date(Local(zone, u))

(***************************************************************************)
(* The date for a weekday and time has that weekday and that time, and is  *)
(* the first such day after today or, when today has the weekday, today or *)
(* a week later (datetime.cc:306-328).  Which of the two is right where    *)
(* one byte is enough to compare the times: within 256 seconds of each     *)
(* other it is a week later exactly if the time is past, so that a caller  *)
(* who asks for the current minute gets it (test/datetime.cc:65-73).       *)
(***************************************************************************)
SameBlock(t1, t2) == t1 \div 256 = t2 \div 256

WeekdayIsNext ==
  ret.call = "weekday" /\ ret.answer # Empty =>
    LET today == Today(ret.at)
        date  == Date(ret.answer)
        tod   == Time(ToMinute(Local(zone, ret.at)))
    IN  /\ DayOfWeek(date) = ret.dow /\ Time(ret.answer) = ret.time
        /\ IF DayOfWeek(today) = ret.dow THEN date \in {today, today + 7}
                                         ELSE date \in today + 1 .. today + 6
        /\ DayOfWeek(today) = ret.dow /\ SameBlock(ret.time, tod)
           => (date = today + 7 <=> ret.time < tod)

(***************************************************************************)
(* "is the desired time in the past?" (datetime.cc:319): on its weekday a  *)
(* time is put off by a week exactly if it is past.  The code breaks this: *)
(* it compares the two times of day in a byte each (datetime.cc:312-320).  *)
(***************************************************************************)
PutOffIfPast ==
  ret.call = "weekday" /\ ret.answer # Empty =>
    LET today == Today(ret.at)
        tod   == Time(ToMinute(Local(zone, ret.at)))
    IN  DayOfWeek(today) = ret.dow =>
          (Date(ret.answer) = today + 7 <=> ret.time < tod)

(***************************************************************************)
(* The seconds of a local time that was taken from the clock in standard   *)
(* time are those of the minute it was taken in.  The code takes every     *)
(* time for standard time (datetime.cc:409): of a time taken in summer the *)
(* seconds, where it has any, are those of the same label an hour later,   *)
(* when the clock shows it again.                                          *)
(***************************************************************************)
SecondsAreOfTheMinute ==
  ret.call = "seconds" =>
    /\ ~Summer(zone, ret.of.at) => ret.answer = ToMinute(ret.of.at)
    /\ Summer(zone, ret.of.at) =>
         ret.answer \in {Empty, ToMinute(ret.of.at) + zone.shift}

(***************************************************************************)
(* "Get the seconds from epoch" of a date and time that "is already        *)
(* adjusted to TZ" (datetime.h:135-138): a time the clock has shown has    *)
(* some.  The code breaks this in summer time: it answers 0.               *)
(***************************************************************************)
LocalTimesHaveSeconds == ret.call = "seconds" => ret.answer # Empty

(***************************************************************************)
(* Seconds that were made from a local time turn into it again, and the    *)
(* current seconds into the current local time (datetime.cc:377-450).      *)
(***************************************************************************)
DateIsOfSeconds ==
  ret.call = "date" /\ ret.answer # Empty =>
    IF ret.from.call = "seconds" /\ ret.of = ret.from.answer
      THEN ret.answer = ret.from.of.text
      ELSE ret.answer = ToMinute(Local(zone, ret.of))

(***************************************************************************)
(* A time so many seconds after one taken from the clock is what the clock *)
(* will show then, up to the minute cut off, and off by exactly the change *)
(* of the zone when it goes to or from summer time in between              *)
(* (datetime.cc:508-540 adds on the wall clock).                           *)
(***************************************************************************)
LaterIsOnTheClock ==
  ret.call = "later" /\ ret.answer # Empty =>
    LET then   == ret.of.at + ret.seconds
        change == Offset(zone, then) - Offset(zone, ret.of.at)
    IN  ToMinute(Local(zone, then)) - change - ret.answer \in {0, Minute}
=============================================================================
