------------------------------ MODULE ServiceDays ------------------------------
(***************************************************************************)
(* The service days of a transit departure, from the feed that publishes   *)
(* them to the two readers that ask whether the departure runs on a date.  *)
(*                                                                         *)
(* datetime.cc turns the start date, end date and weekdays of a feed into  *)
(* a 64 bit mask (get_service_days), which also moves the two dates, its   *)
(* reference parameters, into the window the mask covers; exceptions of    *)
(* the feed then set and clear single days (add_service_day,               *)
(* remove_service_day).  The mask goes into a TransitDeparture, whose days *)
(* are "relative to the tile's creation date", and is read by              *)
(* is_service_available and by GraphTile::GetNextDeparture.                *)
(*                                                                         *)
(* Dates are days since the pivot date and a mask is the set of its one    *)
(* bits.  The caller that reads feeds and writes departures is not in the  *)
(* repository: it calls get_service_days once and then the exceptions, in  *)
(* any order.                                                              *)
(***************************************************************************)
EXTENDS Calendar

CONSTANTS TileDate,   \* the tile creation date
          Dates,      \* the dates that feeds and their exceptions name
          DowMasks    \* the sets of weekdays that feeds name

Horizon  == 59        \* the last day of a window, counted from its first
MaskBits == 64        \* width of the mask

ASSUME FeedsAreDated == /\ TileDate \in Nat
                        /\ Dates \subseteq Nat
                        /\ DowMasks \subseteq SUBSET Weekdays

VARIABLES
  feed,        \* what the feed publishes
  start_date,  \* get_service_days' first reference parameter
  end_date,    \* and its second
  days,        \* the mask
  stage,       \* "read", then "built" or "rejected" by get_service_days
  edited,      \* some exception was applied
  wanted       \* history: the dates of the window on which the feed and the
               \* exceptions applied so far want service
vars == <<feed, start_date, end_date, days, stage, edited, wanted>>

(***************************************************************************)
(* What a feed asks for, whatever the code does with it.                   *)
(***************************************************************************)

InFeed(f, date) == f.start <= date /\ date <= f.end

\* The sixty days a mask can be about: from the tile date, or from the start
\* of a service that is yet to start.
Window(f) == LET first == IF f.start <= TileDate THEN TileDate ELSE f.start
             IN  first .. first + Horizon

Schedule(f) == {date \in Window(f) : InFeed(f, date) /\ DayOfWeek(date) \in f.dow}
--------------------------------------------------------------------------------
Init ==
  /\ feed \in [start : Dates, end : Dates, dow : DowMasks]
  /\ start_date = feed.start
  /\ end_date = feed.end
  /\ days = {}
  /\ stage = "read"
  /\ edited = FALSE
  /\ wanted = {}

\* The mask with the bits of a set of day numbers.  Shifting 1 by 64 or more is
\* undefined: the shift instruction of x86-64 and ARM64 takes the amount modulo
\* 64, a shift the compiler evaluates gives no bit.
Shifted(numbers, wraps) ==
  {x \in numbers : x < MaskBits}
    \cup (IF wraps THEN {x - MaskBits : x \in {y \in numbers : y >= MaskBits}} ELSE {})

Earliest(a, b) == IF a <= b THEN a ELSE b

Rejected == start_date > TileDate + Horizon \/ TileDate > end_date

ServiceStart == IF start_date <= TileDate THEN TileDate ELSE start_date
ServiceEnd   == Earliest(ServiceStart + Horizon, end_date)

\* Mutant: the day numbers are counted from the start of the service.
ServedDaysFromStart == {x \in 0 .. ServiceEnd - ServiceStart :
                          DayOfWeek(ServiceStart + x) \in feed.dow}

\* The day numbers of the loop: counted from the tile date.
ServedDays == {x \in ServiceStart - TileDate .. ServiceEnd - TileDate :
                 DayOfWeek(TileDate + x) \in feed.dow}

\* Mutant: the dates are moved in copies, not through the references.
MoveCopies == UNCHANGED <<start_date, end_date>>

MoveDates == start_date' = ServiceStart /\ end_date' = ServiceEnd

GetServiceDays ==
  /\ stage = "read"
  /\ \/ /\ Rejected
        /\ stage' = "rejected"
        /\ UNCHANGED <<start_date, end_date, days, wanted>>
     \/ /\ ~Rejected
        /\ stage' = "built"
        /\ MoveDates
        /\ \E wraps \in BOOLEAN : days' = Shifted(ServedDays, wraps)
        /\ wanted' = Schedule(feed)
  /\ UNCHANGED <<feed, edited>>

\* The test of both exceptions: the date is among the sixty from start_date, as
\* the caller passes it, and not after end_date.
InRange(date) == start_date <= date /\ date <= Earliest(start_date + Horizon, end_date)

AddServiceDay(added_date) ==
  /\ stage \in {"built", "rejected"}
  /\ days' = IF InRange(added_date) THEN days \cup {added_date - start_date} ELSE days
  /\ edited' = TRUE
  /\ wanted' = IF InFeed(feed, added_date) /\ added_date \in Window(feed)
                 THEN wanted \cup {added_date} ELSE wanted
  /\ UNCHANGED <<feed, start_date, end_date, stage>>

\* The complement of a 64 bit word.
Complement(mask) == (0 .. MaskBits - 1) \ mask

\* ~((~days) | bit)
RemoveServiceDay(removed_date) ==
  /\ stage \in {"built", "rejected"}
  /\ days' = IF InRange(removed_date)
               THEN Complement(Complement(days) \cup {removed_date - start_date})
               ELSE days
  /\ edited' = TRUE
  /\ wanted' = wanted \ {removed_date}
  /\ UNCHANGED <<feed, start_date, end_date, stage>>

Next ==
  \/ GetServiceDays
  \/ \E date \in Dates : AddServiceDay(date) \/ RemoveServiceDay(date)

Spec == Init /\ [][Next]_vars
--------------------------------------------------------------------------------
(***************************************************************************)
(* The two readers of the mask.                                            *)
(***************************************************************************)

\* The day a departure's mask ends on, in the six bits of TransitDeparture.
EndDay == (end_date - TileDate) % 64

IsServiceAvailable(date) == /\ TileDate <= date /\ date <= end_date
                            /\ date - TileDate \in days

\* GetNextDeparture's test of one departure for a date that is not before the
\* tile's: the mask up to the end day, the weekdays after it.
RunsOn(date) == IF date - TileDate <= EndDay
                  THEN date - TileDate \in days
                  ELSE DayOfWeek(date) \in feed.dow
--------------------------------------------------------------------------------
TypeOK == /\ feed \in [start : Dates, end : Dates, dow : DowMasks]
          /\ start_date \in Nat /\ end_date \in Nat
          /\ days \subseteq 0 .. MaskBits - 1
          /\ stage \in {"read", "built", "rejected"}
          /\ edited \in BOOLEAN
          /\ wanted \subseteq Window(feed)

\* The mask counts from the tile date and its exceptions from start_date.  They
\* agree for a service that has started by the tile date; a later one is right
\* until its first exception, if its window ends inside the mask.
CountsAgree == \/ feed.start <= TileDate
               \/ ~edited /\ feed.start + Horizon < TileDate + MaskBits

\* Where the counts agree, the mask of a feed that was not rejected has exactly
\* the days its schedule and the exceptions applied to it ask for, whatever the
\* order of the exceptions (get_service_days, add_service_day,
\* remove_service_day).
MaskIsSchedule ==
  stage = "built" /\ CountsAgree => days = {date - TileDate : date \in wanted}

\* Both readers answer a date of the mask's range as the schedule does, although
\* one finds the range in the moved end date and the other in six bits of the
\* departure (is_service_available, GetNextDeparture).
ReadersFollowSchedule ==
  stage = "built" /\ CountsAgree =>
    \A date \in TileDate .. end_date :
      /\ IsServiceAvailable(date) <=> date \in wanted
      /\ RunsOn(date) <=> date \in wanted

\* The dates left in the reference parameters bound a window of at most sixty
\* days that does not reach outside the feed or before the tile date.
DatesAreMovedIntoWindow ==
  stage = "built" => /\ start_date >= TileDate /\ start_date >= feed.start
                     /\ end_date <= feed.end /\ end_date <= start_date + Horizon
                     /\ wanted \subseteq start_date .. end_date
================================================================================
