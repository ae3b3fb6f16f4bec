--------------------------- MODULE DateTimeProofs ------------------------------
(***************************************************************************)
(* The proofs about datetime.cc.  ServiceDays: for every tile date, every  *)
(* set of feeds and every order of exceptions, the mask is the schedule of *)
(* the feed where the dates the code counts from agree, and both readers   *)
(* answer from it.  LocalTime: in every zone of whole minutes with at most *)
(* one summer time, whatever is asked and whenever, weekdays, seconds,     *)
(* dates and durations answer as the zone's clock goes.                    *)
(***************************************************************************)
EXTENDS ServiceDays, LocalTime, TLAPS

\* Where the two dates stand: as the feed has them, or moved into the window.
Unmoved == stage # "built" => start_date = feed.start /\ end_date = feed.end
Moved   == stage = "built" =>
             /\ TileDate <= feed.end
             /\ start_date = IF feed.start <= TileDate THEN TileDate ELSE feed.start
             /\ end_date = Earliest(start_date + Horizon, feed.end)
             /\ feed.start <= TileDate + Horizon

\* No day outside the two dates is wanted, so that an exception the code ignores
\* is one the schedule ignores too.
WantedInRange == stage = "built" => wanted \subseteq start_date .. end_date

Inv == TypeOK /\ Unmoved /\ Moved /\ WantedInRange /\ MaskIsSchedule

LEMMA InitInv == Init => Inv
<1> SUFFICES ASSUME Init PROVE Inv
  OBVIOUS
<1>1. TypeOK
  <2>1. feed.start \in Nat /\ feed.end \in Nat
    BY FeedsAreDated DEF Init
  <2>2. QED
    BY <2>1 DEF Init, TypeOK
<1>2. Unmoved /\ Moved /\ WantedInRange /\ MaskIsSchedule
  BY DEF Init, Unmoved, Moved, WantedInRange, MaskIsSchedule
<1>3. QED
  BY <1>1, <1>2 DEF Inv

\* The fields of a feed and the tile date are numbers.
LEMMA DatesAreNumbers ==
  ASSUME TypeOK
  PROVE  /\ TileDate \in Nat /\ feed.start \in Nat /\ feed.end \in Nat
         /\ feed.dow \subseteq Weekdays
  BY FeedsAreDated DEF TypeOK

\* Whatever the undefined shift does, no bit lies outside the mask.
LEMMA ShiftedInMask ==
  ASSUME NEW numbers, NEW wraps \in BOOLEAN, numbers \subseteq 0 .. 2 * Horizon
  PROVE  Shifted(numbers, wraps) \subseteq 0 .. MaskBits - 1
<1>0. \A x \in numbers : x \in Int /\ 0 <= x /\ x <= 118
  <2>1. 2 * Horizon = 118
    BY DEF Horizon
  <2>2. QED
    BY <2>1
<1>1. {x \in numbers : x < MaskBits} \subseteq 0 .. MaskBits - 1
  <2>1. \A x \in numbers : x < MaskBits => x \in 0 .. MaskBits - 1
    BY <1>0 DEF MaskBits
  <2>2. QED
    BY <2>1
<1>2. {x - MaskBits : x \in {y \in numbers : y >= MaskBits}} \subseteq 0 .. MaskBits - 1
  <2>1. \A y \in numbers : y >= MaskBits => y - MaskBits \in 0 .. MaskBits - 1
    BY <1>0 DEF MaskBits
  <2>2. QED
    BY <2>1
<1>3. QED
  BY <1>1, <1>2 DEF Shifted

\* Days inside the mask are shifted to their own bits.
LEMMA ShiftedInside ==
  ASSUME NEW numbers, NEW wraps \in BOOLEAN, numbers \subseteq 0 .. MaskBits - 1
  PROVE  Shifted(numbers, wraps) = numbers
<1>0. \A x \in numbers : x \in Int /\ x < 64 /\ ~(x >= 64)
  BY DEF MaskBits
<1>1. {x \in numbers : x < MaskBits} = numbers
  BY <1>0 DEF MaskBits
<1>2. {y \in numbers : y >= MaskBits} = {}
  BY <1>0 DEF MaskBits
<1>3. {x - MaskBits : x \in {y \in numbers : y >= MaskBits}} = {}
  BY <1>2
<1>4. QED
  BY <1>1, <1>3 DEF Shifted

LEMMA GetServiceDaysKeepsInv == Inv /\ GetServiceDays => Inv'
<1> SUFFICES ASSUME Inv, GetServiceDays PROVE Inv'
  OBVIOUS
<1> USE DEF Horizon, MaskBits
<1>0. /\ TileDate \in Nat /\ feed.start \in Nat /\ feed.end \in Nat
      /\ feed' = feed /\ start_date = feed.start /\ end_date = feed.end
  BY DatesAreNumbers DEF Inv, Unmoved, GetServiceDays
<1>1. CASE Rejected
  <2>1. stage' = "rejected" /\ UNCHANGED <<start_date, end_date, days, wanted, feed, edited>>
    BY <1>1 DEF GetServiceDays
  <2>2. TypeOK'
    BY <2>1 DEF Inv, TypeOK, Window
  <2>3. QED
    BY <2>1, <2>2, <1>0 DEF Inv, Unmoved, Moved, WantedInRange, MaskIsSchedule
<1>2. CASE ~Rejected
  <2>1. /\ stage' = "built" /\ start_date' = ServiceStart /\ end_date' = ServiceEnd
        /\ wanted' = Schedule(feed) /\ edited' = edited
    BY <1>2 DEF GetServiceDays, MoveDates
  <2>2. PICK wraps \in BOOLEAN : days' = Shifted(ServedDays, wraps)
    BY <1>2 DEF GetServiceDays
  <2>3. TileDate <= feed.end /\ feed.start <= TileDate + Horizon
    BY <1>0, <1>2 DEF Rejected
  <2>4. /\ ServiceStart = IF feed.start <= TileDate THEN TileDate ELSE feed.start
        /\ ServiceStart \in Nat /\ ServiceStart >= TileDate
        /\ ServiceStart <= TileDate + Horizon
    BY <1>0, <2>3 DEF ServiceStart
  <2>5. /\ ServiceEnd = Earliest(ServiceStart + Horizon, feed.end)
        /\ ServiceEnd \in Nat /\ ServiceEnd <= ServiceStart + Horizon
        /\ ServiceEnd <= feed.end
    BY <1>0, <2>4 DEF ServiceEnd, Earliest
  <2>6. days' \subseteq 0 .. MaskBits - 1
    <3>1. ServedDays \subseteq 0 .. 2 * Horizon
      BY <1>0, <2>4, <2>5 DEF ServedDays
    <3>2. QED
      BY <2>2, <3>1, ShiftedInMask
  <2>7. TypeOK'
    <3>1. wanted' \subseteq Window(feed')
      BY <2>1, <1>0 DEF Schedule
    <3>2. QED
      BY <2>1, <2>4, <2>5, <2>6, <3>1, <1>0 DEF Inv, TypeOK
  <2>8. Unmoved' /\ Moved'
    BY <2>1, <2>3, <2>4, <2>5, <1>0 DEF Unmoved, Moved
  <2>9. Window(feed) = ServiceStart .. ServiceStart + Horizon
    BY <2>4 DEF Window
  <2>10. Schedule(feed) = {date \in ServiceStart .. ServiceEnd : DayOfWeek(date) \in feed.dow}
    <3>1. \A date \in Int : date \in Window(feed) /\ InFeed(feed, date)
                              <=> date \in ServiceStart .. ServiceEnd
      BY <1>0, <2>4, <2>5, <2>9 DEF InFeed, Earliest
    <3>2. QED
      BY <3>1, <2>9, <2>4, <2>5 DEF Schedule
  <2>11. WantedInRange'
    BY <2>1, <2>10 DEF WantedInRange
  <2>12. MaskIsSchedule'
    <3>1. SUFFICES ASSUME CountsAgree'
                   PROVE  days' = {date - TileDate : date \in Schedule(feed)}
      BY <2>1 DEF MaskIsSchedule
    <3>2. ServiceStart + Horizon < TileDate + MaskBits
      BY <3>1, <1>0, <2>4 DEF CountsAgree
    <3>3. ServedDays \subseteq 0 .. MaskBits - 1
      BY <3>2, <1>0, <2>4, <2>5 DEF ServedDays
    <3>4. days' = ServedDays
      BY <2>2, <3>3, ShiftedInside
    <3>5. \A date \in ServiceStart .. ServiceEnd :
            /\ date - TileDate \in ServiceStart - TileDate .. ServiceEnd - TileDate
            /\ TileDate + (date - TileDate) = date
      BY <1>0, <2>4, <2>5
    <3>6. \A x \in ServiceStart - TileDate .. ServiceEnd - TileDate :
            /\ TileDate + x \in ServiceStart .. ServiceEnd
            /\ (TileDate + x) - TileDate = x
      BY <1>0, <2>4, <2>5
    <3>7. {date - TileDate : date \in Schedule(feed)} \subseteq ServedDays
      <4>1. SUFFICES ASSUME NEW date \in Schedule(feed)
                     PROVE  date - TileDate \in ServedDays
        OBVIOUS
      <4>2. date \in ServiceStart .. ServiceEnd /\ DayOfWeek(date) \in feed.dow
        BY <4>1, <2>10
      <4>3. QED
        BY <4>2, <3>5 DEF ServedDays
    <3>8. ServedDays \subseteq {date - TileDate : date \in Schedule(feed)}
      <4>1. SUFFICES ASSUME NEW x \in ServedDays
                     PROVE  \E date \in Schedule(feed) : x = date - TileDate
        OBVIOUS
      <4>2. /\ x \in ServiceStart - TileDate .. ServiceEnd - TileDate
            /\ DayOfWeek(TileDate + x) \in feed.dow
        BY <4>1 DEF ServedDays
      <4>3. TileDate + x \in Schedule(feed) /\ x = (TileDate + x) - TileDate
        BY <4>2, <3>6, <2>10
      <4>4. QED
        BY <4>3
    <3>9. QED
      BY <3>4, <3>7, <3>8
  <2>13. QED
    BY <2>7, <2>8, <2>11, <2>12 DEF Inv
<1>3. QED
  BY <1>1, <1>2

\* Where the code's count and the schedule's agree, they give an exception the
\* same range.
LEMMA RangesAgree ==
  ASSUME Inv, stage = "built", feed.start <= TileDate, NEW date \in Dates
  PROVE  /\ start_date = TileDate
         /\ InRange(date) <=> InFeed(feed, date) /\ date \in Window(feed)
<1>1. TileDate \in Nat /\ feed.start \in Nat /\ feed.end \in Nat /\ date \in Nat
  BY DatesAreNumbers, FeedsAreDated DEF Inv
<1>2. start_date = TileDate /\ end_date = Earliest(TileDate + Horizon, feed.end)
  BY DEF Inv, Moved
<1>3. QED
  BY <1>1, <1>2 DEF InRange, InFeed, Window, Earliest, Horizon

\* The code's complement of a union of a complement is the mask without the bit.
LEMMA BitCleared ==
  ASSUME NEW mask, mask \subseteq 0 .. MaskBits - 1, NEW x
  PROVE  Complement(Complement(mask) \cup {x}) = mask \ {x}
  BY DEF Complement

\* What an exception does to the mask it finds, both kinds alike.
LEMMA ExceptionKeepsInv ==
  ASSUME Inv, NEW date \in Dates, AddServiceDay(date) \/ RemoveServiceDay(date)
  PROVE  Inv'
<1> USE DEF Horizon, MaskBits
<1>0. /\ TileDate \in Nat /\ feed.start \in Nat /\ feed.end \in Nat /\ date \in Nat
      /\ start_date \in Nat /\ end_date \in Nat
      /\ feed' = feed /\ start_date' = start_date /\ end_date' = end_date /\ stage' = stage
      /\ edited' = TRUE /\ Window(feed') = Window(feed)
  BY DatesAreNumbers, FeedsAreDated DEF Inv, TypeOK, AddServiceDay, RemoveServiceDay
<1>1. InRange(date) => date - start_date \in 0 .. MaskBits - 1
  BY <1>0 DEF InRange, Earliest
<1>2. days' \subseteq 0 .. MaskBits - 1
  <2>1. days \subseteq 0 .. MaskBits - 1
    BY DEF Inv, TypeOK
  <2>2. \/ days' = days
        \/ days' = days \ {date - start_date}
        \/ InRange(date) /\ days' = days \cup {date - start_date}
    BY <2>1, BitCleared DEF AddServiceDay, RemoveServiceDay
  <2>3. QED
    BY <1>1, <2>1, <2>2
<1>3. wanted' \subseteq Window(feed)
  BY DEF Inv, TypeOK, AddServiceDay, RemoveServiceDay
<1>4. TypeOK'
  BY <1>0, <1>2, <1>3 DEF Inv, TypeOK
<1>5. Unmoved' /\ Moved'
  BY <1>0 DEF Inv, Unmoved, Moved
<1>6. WantedInRange'
  <2>1. SUFFICES ASSUME stage = "built" PROVE wanted' \subseteq start_date .. end_date
    BY <1>0 DEF WantedInRange
  <2>2. wanted \subseteq start_date .. end_date
    BY <2>1 DEF Inv, WantedInRange
  <2>3. InFeed(feed, date) /\ date \in Window(feed) => date \in start_date .. end_date
    <3>1. /\ start_date = IF feed.start <= TileDate THEN TileDate ELSE feed.start
          /\ end_date = Earliest(start_date + Horizon, feed.end)
      BY <2>1 DEF Inv, Moved
    <3>2. QED
      BY <1>0, <3>1 DEF InFeed, Window, Earliest
  <2>4. QED
    BY <2>2, <2>3 DEF AddServiceDay, RemoveServiceDay
<1>7. MaskIsSchedule'
  <2>1. SUFFICES ASSUME stage = "built", feed.start <= TileDate
                 PROVE  days' = {d - TileDate : d \in wanted'}
    BY <1>0 DEF MaskIsSchedule, CountsAgree
  <2>2. days = {d - TileDate : d \in wanted}
    BY <2>1 DEF Inv, MaskIsSchedule, CountsAgree
  <2>3. /\ start_date = TileDate
        /\ InRange(date) <=> InFeed(feed, date) /\ date \in Window(feed)
    BY <2>1, RangesAgree
  <2>4. wanted \subseteq Int
    BY <1>0 DEF Inv, TypeOK, Window
  <2>5. CASE AddServiceDay(date)
    <3>1. CASE InRange(date)
      <4>1. days' = days \cup {date - TileDate} /\ wanted' = wanted \cup {date}
        BY <2>3, <2>5, <3>1 DEF AddServiceDay
      <4>2. QED
        BY <2>2, <4>1
    <3>2. CASE ~InRange(date)
      BY <2>2, <2>3, <2>5, <3>2 DEF AddServiceDay
    <3>3. QED
      BY <3>1, <3>2
  <2>6. CASE RemoveServiceDay(date)
    <3>1. wanted' = wanted \ {date}
      BY <2>6 DEF RemoveServiceDay
    <3>2. CASE InRange(date)
      <4>1. days' = days \ {date - TileDate}
        <5>1. days \subseteq 0 .. MaskBits - 1
          BY DEF Inv, TypeOK
        <5>2. days' = Complement(Complement(days) \cup {date - TileDate})
          BY <2>3, <2>6, <3>2 DEF RemoveServiceDay
        <5>3. QED
          BY <5>1, <5>2, BitCleared
      <4>2. \A d \in wanted : d - TileDate = date - TileDate => d = date
        BY <1>0, <2>4
      <4>3. QED
        BY <2>2, <3>1, <4>1, <4>2
    <3>3. CASE ~InRange(date)
      <4>1. date \notin wanted
        <5>1. wanted \subseteq start_date .. end_date
          BY <2>1 DEF Inv, WantedInRange
        <5>2. end_date <= start_date + Horizon
          BY <1>0, <2>1 DEF Inv, Moved, Earliest
        <5>3. QED
          BY <1>0, <3>3, <5>1, <5>2 DEF InRange, Earliest
      <4>2. QED
        BY <2>2, <2>6, <3>1, <3>3, <4>1 DEF RemoveServiceDay
    <3>4. QED
      BY <3>2, <3>3
  <2>7. QED
    BY <2>5, <2>6
<1>8. QED
  BY <1>4, <1>5, <1>6, <1>7 DEF Inv

LEMMA NextKeepsInv == Inv /\ [Next]_vars => Inv'
<1> SUFFICES ASSUME Inv, [Next]_vars PROVE Inv'
  OBVIOUS
<1>1. CASE GetServiceDays
  BY <1>1, GetServiceDaysKeepsInv
<1>2. ASSUME NEW date \in Dates, AddServiceDay(date) \/ RemoveServiceDay(date)
      PROVE  Inv'
  BY <1>2, ExceptionKeepsInv
<1>3. CASE UNCHANGED vars
  BY <1>3 DEF vars, Inv, TypeOK, Unmoved, Moved, WantedInRange, MaskIsSchedule,
              CountsAgree, Window
<1>4. QED
  BY <1>1, <1>2, <1>3 DEF Next

THEOREM Invariance == Spec => []Inv
<1>1. QED
  BY InitInv, NextKeepsInv, PTL DEF Spec

\* The mask never has a bit outside its 64, whatever dates a feed has.
THEOREM TypesKept == Spec => []TypeOK
<1>1. Inv => TypeOK
  BY DEF Inv
<1>2. QED
  BY <1>1, Invariance, PTL

\* The mask of a service that has started by the tile date is its schedule with
\* its exceptions in the order they came; that of a later service is its
\* schedule until the first exception (get_service_days, add_service_day,
\* remove_service_day).
THEOREM MaskFollowsSchedule == Spec => []MaskIsSchedule
<1>1. Inv => MaskIsSchedule
  BY DEF Inv
<1>2. QED
  BY <1>1, Invariance, PTL

\* The dates left in the reference parameters bound the window.
THEOREM DatesBoundWindow == Spec => []DatesAreMovedIntoWindow
<1>1. Inv => DatesAreMovedIntoWindow
  <2> SUFFICES ASSUME Inv, stage = "built"
               PROVE  /\ start_date >= TileDate /\ start_date >= feed.start
                      /\ end_date <= feed.end /\ end_date <= start_date + Horizon
                      /\ wanted \subseteq start_date .. end_date
    BY DEF DatesAreMovedIntoWindow
  <2>1. TileDate \in Nat /\ feed.start \in Nat /\ feed.end \in Nat
    BY DatesAreNumbers DEF Inv
  <2>2. QED
    BY <2>1 DEF Inv, Moved, WantedInRange, Earliest, Horizon
<1>2. QED
  BY <1>1, Invariance, PTL

\* Both readers of the mask answer as the schedule does.
THEOREM ReadersAgree == Spec => []ReadersFollowSchedule
<1>1. Inv => ReadersFollowSchedule
  <2> SUFFICES ASSUME Inv, stage = "built", CountsAgree, NEW date \in TileDate .. end_date
               PROVE  /\ IsServiceAvailable(date) <=> date \in wanted
                      /\ RunsOn(date) <=> date \in wanted
    BY DEF ReadersFollowSchedule
  <2>1. TileDate \in Nat /\ feed.start \in Nat /\ feed.end \in Nat /\ end_date \in Nat
        /\ start_date \in Nat
    BY DatesAreNumbers DEF Inv, TypeOK
  <2>2. wanted \subseteq Int
    BY <2>1 DEF Inv, TypeOK, Window
  <2>3. date - TileDate \in days <=> date \in wanted
    <3>1. days = {d - TileDate : d \in wanted}
      BY DEF Inv, MaskIsSchedule
    <3>2. \A d \in wanted : d - TileDate = date - TileDate => d = date
      BY <2>1, <2>2
    <3>3. QED
      BY <3>1, <3>2
  <2>4. end_date - TileDate \in 0 .. 63
    <3>1. end_date <= start_date + Horizon
      BY <2>1 DEF Inv, Moved, Earliest, Horizon
    <3>2. start_date + Horizon < TileDate + 64
      BY <2>1 DEF Inv, Moved, CountsAgree, Horizon, MaskBits
    <3>3. QED
      BY <2>1, <3>1, <3>2 DEF Horizon
  <2>5. EndDay = end_date - TileDate
    BY <2>4 DEF EndDay
  <2>6. QED
    BY <2>1, <2>3, <2>5 DEF IsServiceAvailable, RunsOn
<1>2. QED
  BY <1>1, Invariance, PTL
--------------------------------------------------------------------------------
(***************************************************************************)
(* The clock of module LocalTime: for any zones in whole minutes, any      *)
(* instants callers look at and any times, weekdays and durations they     *)
(* ask for.                                                                *)
(***************************************************************************)

\* Cutting off the seconds, and what leaves the seconds alone.
LEMMA CutToMinute ==
  ASSUME NEW d \in Int
  PROVE  /\ ToMinute(d) \in Int /\ ToMinute(d) % Minute = 0
         /\ ToMinute(d) <= d /\ d < ToMinute(d) + Minute
BY DEF ToMinute, Minute

LEMMA WholeMinutesMoveOut ==
  ASSUME NEW d \in Int, NEW k \in Int, k % Minute = 0
  PROVE  ToMinute(d + k) = ToMinute(d) + k
BY DEF ToMinute, Minute

\* The seconds of a day.
LEMMA TimesOfDay ==
  ASSUME NEW t
  PROVE  t \in 0 .. Day - 1 <=> t \in Int /\ 0 <= t /\ t < Day
<1>1. Day \in Int
  BY DEF Day
<1>2. QED
  BY <1>1

\* A date and a time make a label, and a label is made of its date and time.
LEMMA LabelOfDate ==
  ASSUME NEW date \in Int, NEW time \in 0 .. Day - 1
  PROVE  /\ date * Day + time \in Int
         /\ Date(date * Day + time) = date /\ Time(date * Day + time) = time
<1>1. time \in Int /\ 0 <= time /\ time < Day
  BY TimesOfDay
<1>2. ASSUME NEW t \in Int, 0 <= t, t < Day
      PROVE  /\ date * Day + t \in Int
             /\ Date(date * Day + t) = date /\ Time(date * Day + t) = t
  BY <1>2 DEF Date, Time, Day
<1>3. QED
  BY <1>1, <1>2

LEMMA DateOfLabel ==
  ASSUME NEW d \in Int
  PROVE  /\ Date(d) \in Int /\ Time(d) \in 0 .. Day - 1
         /\ d = Date(d) * Day + Time(d)
<1>1. d \div Day \in Int
  BY DEF Day
<1>2. d % Day \in Int /\ 0 <= d % Day /\ d % Day < Day
  BY DEF Day
<1>3. d = (d \div Day) * Day + (d % Day)
  BY DEF Day
<1>4. QED
  BY <1>1, <1>2, <1>3, TimesOfDay DEF Date, Time

\* A minute lies within one day.
LEMMA MinuteKeepsDate ==
  ASSUME NEW d \in Int
  PROVE  Date(ToMinute(d)) = Date(d)
BY DEF Date, ToMinute, Day, Minute

\* Every weekday comes within the seven days after a date.
LEMMA WeekdayComes ==
  ASSUME NEW date \in Int, NEW dow \in Weekdays
  PROVE  \E d \in date + 1 .. date + 7 : DayOfWeek(d) = dow
<1> USE DEF Weekdays, DayOfWeek
<1>1. PICK e \in 0 .. 6 : e = (date + 4) % 7
  OBVIOUS
<1>2. CASE e <= dow
  <2>1. (date + 1 + (dow - e) + 3) % 7 = dow
    BY <1>1, <1>2
  <2>2. date + 1 + (dow - e) \in date + 1 .. date + 7
    BY <1>2
  <2>3. QED
    BY <2>1, <2>2
<1>3. CASE e > dow
  <2>1. (date + 1 + (dow - e + 7) + 3) % 7 = dow
    BY <1>1, <1>3
  <2>2. date + 1 + (dow - e + 7) \in date + 1 .. date + 7
    BY <1>3
  <2>3. QED
    BY <2>1, <2>2
<1>4. QED
  BY <1>2, <1>3

LEMMA NextDayComes ==
  ASSUME NEW date \in Int, NEW dow \in Weekdays
  PROVE  NextDay(date, dow) \in date + 1 .. date + 7 /\ DayOfWeek(NextDay(date, dow)) = dow
BY WeekdayComes DEF NextDay

\* What the wall clock of a zone shows.
LEMMA ZoneFacts ==
  ASSUME NEW z \in Zones, NEW u \in Int
  PROVE  /\ z # NoZone /\ IsZone(z)
         /\ Offset(z, u) \in Int /\ Offset(z, u) % Minute = 0
         /\ Local(z, u) \in Int /\ Local(z, u) = u + Offset(z, u)
<1>1. z # NoZone /\ IsZone(z)
  BY ClockTypes
<1>2. Offset(z, u) \in Int /\ Offset(z, u) % Minute = 0
  BY <1>1 DEF IsZone, Offset, Minute
<1>3. QED
  BY <1>1, <1>2 DEF Local

--------------------------------------------------------------------------------
(***************************************************************************)
(* The inductive invariant: a kept time was read off the zone's clock, and *)
(* so was the time that seconds were asked of; the answers are as the four *)
(* properties say.                                                         *)
(***************************************************************************)
OfClock(k) == /\ zone \in Zones /\ k.at \in Nat
              /\ k.text = ToMinute(Local(zone, k.at))

ClockTypeOK == now \in Nat /\ zone \in Zones \cup {NoZone}
KeptIsOfClock == kept.text # Empty => OfClock(kept)
SecondsAreOfKept ==
  ret.call = "seconds" => /\ OfClock(ret.of)
                          /\ ret.answer = SecondsOf(ret.of.text, zone)

ClockInv == /\ ClockTypeOK /\ KeptIsOfClock /\ SecondsAreOfKept
            /\ WeekdayIsNext /\ SecondsAreOfTheMinute
            /\ DateIsOfSeconds /\ LaterIsOnTheClock

\* Every time kept, the current one and the answers are of the clock at first.
LEMMA ClockStarts == ClockInit => ClockInv
BY ClockTypes DEF ClockInit, NoTime, ClockInv, ClockTypeOK, KeptIsOfClock, SecondsAreOfKept,
   WeekdayIsNext, SecondsAreOfTheMinute, DateIsOfSeconds, LaterIsOnTheClock

\* What the properties say of an answer stays true while it is the last one.
LEMMA AnswerStays ==
  ASSUME ClockInv, UNCHANGED <<zone, ret>>
  PROVE  /\ SecondsAreOfKept' /\ WeekdayIsNext' /\ SecondsAreOfTheMinute'
         /\ DateIsOfSeconds' /\ LaterIsOnTheClock'
BY DEF ClockInv, SecondsAreOfKept, OfClock, WeekdayIsNext, Today, SecondsAreOfTheMinute,
       DateIsOfSeconds, LaterIsOnTheClock

LEMMA TickKeeps ==
  ASSUME ClockInv, Tick
  PROVE  ClockInv'
<1>1. now' \in Nat /\ UNCHANGED <<zone, kept, ret>>
  BY ClockTypes DEF Tick
<1>2. ClockTypeOK' /\ KeptIsOfClock'
  BY <1>1 DEF ClockInv, ClockTypeOK, KeptIsOfClock, OfClock
<1>3. QED
  BY <1>1, <1>2, AnswerStays DEF ClockInv

LEMMA AskNowKeeps ==
  ASSUME ClockInv, AskNow
  PROVE  ClockInv'
<1>1. /\ kept' = [at |-> now, text |-> NowIn(zone)]
      /\ ret' = [call |-> "now", answer |-> NowIn(zone)]
      /\ now' = now /\ zone' = zone
  BY DEF AskNow
<1>2. kept'.text # Empty => OfClock(kept)'
  BY <1>1 DEF ClockInv, ClockTypeOK, NowIn, OfClock
<1>3. ret'.call = "now"
  BY <1>1
<1>4. /\ SecondsAreOfKept' /\ WeekdayIsNext' /\ SecondsAreOfTheMinute'
      /\ DateIsOfSeconds' /\ LaterIsOnTheClock'
  BY <1>3 DEF SecondsAreOfKept, WeekdayIsNext, SecondsAreOfTheMinute, DateIsOfSeconds,
              LaterIsOnTheClock
<1>5. QED
  BY <1>1, <1>2, <1>4 DEF ClockInv, ClockTypeOK, KeptIsOfClock

--------------------------------------------------------------------------------
\* Two times of day in one block of 256 seconds compare as their bytes do.
LEMMA OneByteTells ==
  ASSUME NEW t1 \in Int, NEW t2 \in Int, SameBlock(t1, t2)
  PROVE  InThePast(t1, t2) <=> t1 < t2
<1>1. t1 = 256 * (t1 \div 256) + (t1 % 256) /\ t2 = 256 * (t2 \div 256) + (t2 % 256)
  OBVIOUS
<1>2. t1 \div 256 = t2 \div 256
  BY DEF SameBlock
<1>3. t1 % 256 < t2 % 256 <=> t1 < t2
  BY <1>1, <1>2
<1>4. QED
  BY <1>3 DEF InThePast, Byte

\* The date OnWeekday counts to from today: the arithmetic of WeekdayIsNext.
LEMMA WeekdayCounted ==
  ASSUME NEW z \in Zones, NEW u \in Nat, now = u, NEW dow \in Weekdays,
         NEW time \in 0 .. Day - 1, time % Minute = 0
  PROVE  LET today   == Date(Local(z, u))
             tod     == Time(ToMinute(Local(z, u)))
             answer  == OnWeekday(dow, time, z)
         IN  /\ DayOfWeek(Date(answer)) = dow /\ Time(answer) = time
             /\ IF DayOfWeek(today) = dow THEN Date(answer) \in {today, today + 7}
                                           ELSE Date(answer) \in today + 1 .. today + 6
             /\ DayOfWeek(today) = dow /\ SameBlock(time, tod)
                => (Date(answer) = today + 7 <=> time < tod)
<1> DEFINE today   == Date(Local(z, u))
           tod     == Time(ToMinute(Local(z, u)))
           date    == IF DayOfWeek(today) # dow THEN NextDay(today, dow)
                      ELSE IF InThePast(time, tod) THEN today + 7 ELSE today
           answer  == OnWeekday(dow, time, z)
<1>1. z # NoZone /\ Local(z, u) \in Int
  BY ZoneFacts
<1>2. dow # kDOWNone
  BY DEF Weekdays, kDOWNone
<1>3. answer = date * Day + time
  BY <1>1, <1>2 DEF OnWeekday
<1>4. today \in Int /\ tod \in 0 .. Day - 1
  BY <1>1, CutToMinute, DateOfLabel
<1>5. NextDay(today, dow) \in today + 1 .. today + 7 /\ DayOfWeek(NextDay(today, dow)) = dow
  BY <1>4, NextDayComes
<1>6. DayOfWeek(today + 7) = DayOfWeek(today)
  BY <1>4 DEF DayOfWeek
<1> HIDE DEF today, tod, answer
<1>7. ASSUME DayOfWeek(today) # dow
      PROVE  date \in today + 1 .. today + 6 /\ DayOfWeek(date) = dow
  <2>1. date = NextDay(today, dow)
    BY <1>7
  <2>2. date # today + 7
    BY <1>5, <1>6, <1>7, <2>1
  <2>3. date \in today + 1 .. today + 6 /\ DayOfWeek(date) = dow
    BY <1>4, <1>5, <2>1, <2>2
  <2>4. QED
    BY <1>7, <2>3
<1>8. ASSUME DayOfWeek(today) = dow
      PROVE  /\ date \in {today, today + 7} /\ DayOfWeek(date) = dow
             /\ SameBlock(time, tod) => (date = today + 7 <=> time < tod)
  <2>1. date = IF InThePast(time, tod) THEN today + 7 ELSE today
    BY <1>8
  <2>2. SameBlock(time, tod) => (InThePast(time, tod) <=> time < tod)
    BY <1>4, TimesOfDay, OneByteTells
  <2>3. date \in {today, today + 7} /\ DayOfWeek(date) = dow
    BY <1>6, <1>8, <2>1
  <2>4. SameBlock(time, tod) => (date = today + 7 <=> time < tod)
    BY <1>4, <2>1, <2>2
  <2>5. QED
    BY <1>8, <2>3, <2>4
<1> HIDE DEF date
<1>9. date \in Int
  BY <1>4, <1>7, <1>8
<1>10. Date(answer) = date /\ Time(answer) = time
  BY <1>3, <1>9, LabelOfDate
<1>11. /\ DayOfWeek(Date(answer)) = dow /\ Time(answer) = time
       /\ IF DayOfWeek(today) = dow THEN Date(answer) \in {today, today + 7}
                                    ELSE Date(answer) \in today + 1 .. today + 6
       /\ DayOfWeek(today) = dow /\ SameBlock(time, tod)
          => (Date(answer) = today + 7 <=> time < tod)
  BY <1>7, <1>8, <1>10
<1>12. QED
  BY <1>11 DEF today, tod, answer

LEMMA AskWeekdayKeeps ==
  ASSUME ClockInv, AskWeekday
  PROVE  ClockInv'
<1>0. now \in Nat /\ UNCHANGED <<now, zone, kept>>
  BY DEF ClockInv, ClockTypeOK, AskWeekday
<1>1. PICK dow, time :
        /\ \/ dow \in Weekdays /\ time \in 0 .. Day - 1 /\ time % Minute = 0
           \/ dow = kDOWNone
        /\ ret' = [call |-> "weekday", at |-> now, dow |-> dow, time |-> time,
                   answer |-> OnWeekday(dow, time, zone)]
  <2>1. ASSUME NEW dow \in AskedDays, NEW time \in Times
        PROVE  dow \in Weekdays /\ time \in 0 .. Day - 1 /\ time % Minute = 0
    BY ClockTypes
  <2>2. ASSUME kept.text # Empty
        PROVE  /\ DayOfWeekMask(kept.text) \in Weekdays \/ DayOfWeekMask(kept.text) = kDOWNone
               /\ Time(kept.text) \in 0 .. Day - 1 /\ Time(kept.text) % Minute = 0
    <3>1. kept.text = ToMinute(Local(zone, kept.at)) /\ Local(zone, kept.at) \in Int
      BY <2>2, ZoneFacts DEF ClockInv, KeptIsOfClock, OfClock
    <3>2. kept.text \in Int /\ kept.text % Minute = 0
      BY <3>1, CutToMinute
    <3>3. Date(kept.text) \in Int /\ Time(kept.text) \in 0 .. Day - 1
      BY <3>2, DateOfLabel
    <3>4. DayOfWeek(Date(kept.text)) \in Weekdays
      BY <3>3 DEF DayOfWeek, Weekdays
    <3>5. Time(kept.text) % Minute = 0
      BY <3>2 DEF Time, Day, Minute
    <3>6. QED
      BY <3>3, <3>4, <3>5 DEF DayOfWeekMask
  <2>3. QED
    BY <2>1, <2>2 DEF AskWeekday
<1>2. /\ ret'.call = "weekday" /\ ret'.at = now /\ ret'.dow = dow /\ ret'.time = time
      /\ ret'.answer = OnWeekday(dow, time, zone)
  BY <1>1
<1>3. WeekdayIsNext'
  <2>1. SUFFICES ASSUME ret'.answer # Empty
                 PROVE  WeekdayIsNext'
    BY DEF WeekdayIsNext
  <2>2. zone # NoZone /\ dow # kDOWNone
    BY <1>2, <2>1 DEF OnWeekday
  <2>3. /\ zone \in Zones
        /\ dow \in Weekdays /\ time \in 0 .. Day - 1 /\ time % Minute = 0
    BY <1>1, <2>2 DEF ClockInv, ClockTypeOK
  <2>4. LET today   == Date(Local(zone, now))
            tod     == Time(ToMinute(Local(zone, now)))
            answer  == OnWeekday(dow, time, zone)
        IN  /\ DayOfWeek(Date(answer)) = dow /\ Time(answer) = time
            /\ IF DayOfWeek(today) = dow THEN Date(answer) \in {today, today + 7}
                                          ELSE Date(answer) \in today + 1 .. today + 6
            /\ DayOfWeek(today) = dow /\ SameBlock(time, tod)
               => (Date(answer) = today + 7 <=> time < tod)
    BY <1>0, <2>3, WeekdayCounted
  <2>5. zone' = zone
    BY <1>0
  <2>6. QED
    BY <1>2, <2>4, <2>5 DEF WeekdayIsNext, Today
<1>4. /\ SecondsAreOfKept' /\ SecondsAreOfTheMinute' /\ DateIsOfSeconds' /\ LaterIsOnTheClock'
  BY <1>2 DEF SecondsAreOfKept, SecondsAreOfTheMinute, DateIsOfSeconds, LaterIsOnTheClock
<1>5. ClockTypeOK' /\ KeptIsOfClock'
  BY <1>0 DEF ClockInv, ClockTypeOK, KeptIsOfClock, OfClock
<1>6. QED
  BY <1>3, <1>4, <1>5 DEF ClockInv

--------------------------------------------------------------------------------
\* The zone goes to summer time and back at whole minutes.
LEMMA SummerByTheMinute ==
  ASSUME NEW z \in Zones, NEW u \in Nat
  PROVE  /\ Summer(z, u) <=> Summer(z, ToMinute(u))
         /\ ToMinute(Local(z, u)) = ToMinute(u) + Offset(z, u)
<1>1. IsZone(z) /\ Offset(z, u) \in Int /\ Offset(z, u) % Minute = 0
  BY ZoneFacts
<1>2. /\ ToMinute(u) \in Int /\ ToMinute(u) % Minute = 0
      /\ ToMinute(u) <= u /\ u < ToMinute(u) + Minute
  BY CutToMinute
<1>3. \A c \in Int : c % Minute = 0 => (c <= u <=> c <= ToMinute(u))
  BY <1>2 DEF Minute
<1>4. /\ z.from \in Int /\ z.from % Minute = 0
      /\ z.to \in Int /\ z.to % Minute = 0
  BY <1>1 DEF IsZone
<1>5. /\ z.from <= u <=> z.from <= ToMinute(u)
      /\ u < z.to <=> ToMinute(u) < z.to
  BY <1>2, <1>3, <1>4
<1>6. ToMinute(u + Offset(z, u)) = ToMinute(u) + Offset(z, u)
  BY <1>1, WholeMinutesMoveOut
<1>7. QED
  BY <1>5, <1>6 DEF Summer, Local

\* The seconds of a label the clock showed: the arithmetic of
\* SecondsAreOfTheMinute.
LEMMA SecondsOfLabel ==
  ASSUME NEW z \in Zones, NEW u \in Nat, NEW d, d = ToMinute(Local(z, u))
  PROVE  /\ ~Summer(z, u) => SecondsOf(d, z) = ToMinute(u)
         /\ Summer(z, u) => SecondsOf(d, z) \in {Empty, ToMinute(u) + z.shift}
<1>1. /\ z.base \in Int /\ z.from \in Int /\ z.to \in Int /\ z.shift \in Nat
      /\ z.from + z.shift <= z.to - z.shift
  BY ZoneFacts DEF IsZone
<1>2. ToMinute(u) \in Int
  BY CutToMinute
<1>3. d = ToMinute(u) + Offset(z, u)
  BY SummerByTheMinute
<1>4. Empty \notin Int
  BY ClockTypes
<1>5. CASE ~Summer(z, u)
  <2>1. d = ToMinute(u) + z.base
    BY <1>3, <1>5 DEF Offset
  <2>2. ~(z.from <= ToMinute(u) /\ ToMinute(u) < z.to)
    BY <1>5, SummerByTheMinute DEF Summer
  <2>3. ~Refused(z, d)
    BY <1>1, <1>2, <2>1, <2>2 DEF Refused, Skipped, OnlySummer
  <2>4. SecondsOf(d, z) = ToMinute(u)
    BY <1>1, <1>2, <2>1, <2>3 DEF SecondsOf, Utc
  <2>5. QED
    BY <1>5, <2>4
<1>6. CASE Summer(z, u)
  <2>1. d = ToMinute(u) + (z.base + z.shift)
    BY <1>3, <1>6 DEF Offset
  <2>2. ~Refused(z, d) => SecondsOf(d, z) = ToMinute(u) + z.shift
    BY <1>1, <1>2, <2>1 DEF SecondsOf, Utc
  <2>3. Refused(z, d) => SecondsOf(d, z) = Empty
    BY DEF SecondsOf
  <2>4. QED
    BY <1>1, <1>2, <1>6, <2>2, <2>3
<1>7. QED
  BY <1>5, <1>6

LEMMA AskSecondsKeeps ==
  ASSUME ClockInv, AskSeconds
  PROVE  ClockInv'
<1>1. /\ kept.text # Empty
      /\ ret' = [call |-> "seconds", of |-> kept, answer |-> SecondsOf(kept.text, zone)]
      /\ UNCHANGED <<now, zone, kept>>
  BY DEF AskSeconds
<1>2. OfClock(kept)
  BY <1>1 DEF ClockInv, KeptIsOfClock
<1>3. ret'.call = "seconds" /\ ret'.of = kept /\ ret'.answer = SecondsOf(kept.text, zone)
  BY <1>1
<1>4. SecondsAreOfKept'
  <2>1. zone' = zone /\ zone \in Zones /\ kept.at \in Nat
    BY <1>1, <1>2 DEF OfClock
  <2>2. ret'.of.text = ToMinute(Local(zone', ret'.of.at))
    BY <1>2, <1>3, <2>1 DEF OfClock
  <2>3. OfClock(ret.of)'
    BY <1>3, <2>1, <2>2 DEF OfClock
  <2>4. ret'.answer = SecondsOf(ret'.of.text, zone')
    BY <1>3, <2>1
  <2>5. QED
    BY <2>3, <2>4 DEF SecondsAreOfKept
<1>5. SecondsAreOfTheMinute'
  <2>1. /\ ~Summer(zone, kept.at) => SecondsOf(kept.text, zone) = ToMinute(kept.at)
        /\ Summer(zone, kept.at) =>
             SecondsOf(kept.text, zone) \in {Empty, ToMinute(kept.at) + zone.shift}
    BY <1>2, SecondsOfLabel DEF OfClock
  <2>2. zone' = zone
    BY <1>1
  <2>3. QED
    BY <1>3, <2>1, <2>2 DEF SecondsAreOfTheMinute
<1>6. WeekdayIsNext' /\ DateIsOfSeconds' /\ LaterIsOnTheClock'
  BY <1>3 DEF WeekdayIsNext, DateIsOfSeconds, LaterIsOnTheClock
<1>7. ClockTypeOK' /\ KeptIsOfClock'
  BY <1>1 DEF ClockInv, ClockTypeOK, KeptIsOfClock, OfClock
<1>8. QED
  BY <1>4, <1>5, <1>6, <1>7 DEF ClockInv

--------------------------------------------------------------------------------
\* A label that has seconds is the label of those seconds.
LEMMA LabelOfSeconds ==
  ASSUME NEW z \in Zones, NEW d \in Int, d % Minute = 0, SecondsOf(d, z) # Empty
  PROVE  ToDate(SecondsOf(d, z), z) = d
<1>1. /\ z.base \in Int /\ z.from \in Int /\ z.to \in Int /\ z.shift \in Nat
      /\ z.from + z.shift <= z.to - z.shift
  BY ZoneFacts DEF IsZone
<1>2. ~Refused(z, d) /\ SecondsOf(d, z) = d - z.base
  BY DEF SecondsOf, Utc
<1>3. ~Summer(z, d - z.base)
  BY <1>1, <1>2 DEF Refused, Skipped, OnlySummer, Summer
<1>4. Local(z, d - z.base) = d
  BY <1>1, <1>3 DEF Local, Offset
<1>5. ToMinute(d) = d
  BY DEF ToMinute, Minute
<1>6. QED
  BY <1>2, <1>4, <1>5, ZoneFacts DEF ToDate

LEMMA AskDateKeeps ==
  ASSUME ClockInv, AskDate
  PROVE  ClockInv'
<1>1. UNCHANGED <<now, zone, kept>>
  BY DEF AskDate
<1>2. PICK u :
        /\ \/ ret.call = "seconds" /\ ret.answer # Empty /\ u = ret.answer
           \/ u = now
        /\ ret' = [call |-> "date", of |-> u, from |-> ret, answer |-> ToDate(u, zone)]
  BY DEF AskDate
<1>3. /\ ret'.call = "date" /\ ret'.of = u /\ ret'.from = ret
      /\ ret'.answer = ToDate(u, zone)
  BY <1>2
<1>4. DateIsOfSeconds'
  <2>1. SUFFICES ASSUME ret'.answer # Empty
                 PROVE  IF ret.call = "seconds" /\ u = ret.answer
                          THEN ret'.answer = ret.of.text
                          ELSE ret'.answer = ToMinute(Local(zone, u))
    <3>1. zone' = zone
      BY <1>1
    <3>2. QED
      BY <1>3, <3>1 DEF DateIsOfSeconds
  <2>2. ret'.answer = ToMinute(Local(zone, u))
    BY <1>3, <2>1 DEF ToDate
  <2>3. CASE ret.call = "seconds" /\ u = ret.answer
    <3>1. /\ zone \in Zones /\ ret.of.at \in Nat
          /\ ret.of.text = ToMinute(Local(zone, ret.of.at))
          /\ ret.answer = SecondsOf(ret.of.text, zone)
      BY <2>3 DEF ClockInv, SecondsAreOfKept, OfClock
    <3>2. Local(zone, ret.of.at) \in Int
      BY <3>1, ZoneFacts
    <3>3. ret.of.text \in Int /\ ret.of.text % Minute = 0
      BY <3>1, <3>2, CutToMinute
    <3>4. ret.answer # Empty
      <4>1. CASE u = now
        BY <2>3, <4>1, ClockTypes DEF ClockInv, ClockTypeOK
      <4>2. CASE u # now
        BY <1>2, <4>2
      <4>3. QED
        BY <4>1, <4>2
    <3>5. QED
      BY <1>3, <2>3, <3>1, <3>3, <3>4, LabelOfSeconds
  <2>4. QED
    BY <2>2, <2>3
<1>5. /\ SecondsAreOfKept' /\ SecondsAreOfTheMinute' /\ WeekdayIsNext' /\ LaterIsOnTheClock'
  BY <1>3 DEF SecondsAreOfKept, SecondsAreOfTheMinute, WeekdayIsNext, LaterIsOnTheClock
<1>6. ClockTypeOK' /\ KeptIsOfClock'
  BY <1>1 DEF ClockInv, ClockTypeOK, KeptIsOfClock, OfClock
<1>7. QED
  BY <1>4, <1>5, <1>6 DEF ClockInv

\* The minutes cut off before and after the seconds are added differ by one
\* minute at most.
LEMMA CutTwice ==
  ASSUME NEW x \in Int, NEW s \in Nat
  PROVE  ToMinute(x + s) - ToMinute(ToMinute(x) + s) \in {0, Minute}
BY DEF ToMinute, Minute

LEMMA AskLaterKeeps ==
  ASSUME ClockInv, AskLater
  PROVE  ClockInv'
<1>1. PICK seconds \in Durations :
        /\ kept.text # Empty
        /\ ret' = [call |-> "later", of |-> kept, seconds |-> seconds,
                   answer |-> Later(kept.text, seconds)]
        /\ UNCHANGED <<now, zone, kept>>
  BY DEF AskLater
<1>2. /\ zone \in Zones /\ kept.at \in Nat
      /\ kept.text = ToMinute(Local(zone, kept.at))
  BY <1>1 DEF ClockInv, KeptIsOfClock, OfClock
<1>3. /\ ret'.call = "later" /\ ret'.of = kept /\ ret'.seconds = seconds
      /\ ret'.answer = Later(kept.text, seconds)
  BY <1>1
<1>4. seconds \in Nat
  BY ClockTypes
<1>5. LaterIsOnTheClock'
  <2> DEFINE then   == kept.at + seconds
             change == Offset(zone, then) - Offset(zone, kept.at)
  <2>1. SUFFICES ASSUME ret'.answer # Empty
                 PROVE  ToMinute(Local(zone, then)) - change - ret'.answer \in {0, Minute}
    <3>1. zone' = zone
      BY <1>1
    <3>2. QED
      BY <1>3, <3>1 DEF LaterIsOnTheClock
  <2>2. ret'.answer = ToMinute(kept.text + seconds)
    BY <1>3, <2>1 DEF Later
  <2>3. /\ Offset(zone, kept.at) \in Int /\ Offset(zone, kept.at) % Minute = 0
        /\ Local(zone, kept.at) = kept.at + Offset(zone, kept.at)
    BY <1>2, ZoneFacts
  <2>4. then \in Nat
    BY <1>2, <1>4
  <2>5. /\ Offset(zone, then) \in Int /\ Offset(zone, then) % Minute = 0
        /\ Local(zone, then) = then + Offset(zone, then)
    BY <1>2, <2>4, ZoneFacts
  <2> DEFINE x == kept.at + Offset(zone, kept.at)
  <2>6. x \in Int /\ change \in Int /\ change % Minute = 0
    BY <1>2, <2>3, <2>5 DEF Minute
  <2>7. Local(zone, then) = (x + seconds) + change
    BY <1>2, <1>4, <2>3, <2>5
  <2> HIDE DEF x, change, then
  <2>8. ToMinute(Local(zone, then)) = ToMinute(x + seconds) + change
    BY <1>4, <2>6, <2>7, WholeMinutesMoveOut
  <2>9. ToMinute(x + seconds) \in Int
    BY <1>4, <2>6, CutToMinute
  <2>10. ToMinute(Local(zone, then)) - change = ToMinute(x + seconds)
    BY <2>6, <2>8, <2>9
  <2>11. kept.text = ToMinute(x)
    BY <1>2, <2>3 DEF x
  <2>12. QED
    BY <1>4, <2>2, <2>6, <2>10, <2>11, CutTwice
<1>6. /\ SecondsAreOfKept' /\ SecondsAreOfTheMinute' /\ WeekdayIsNext' /\ DateIsOfSeconds'
  BY <1>3 DEF SecondsAreOfKept, SecondsAreOfTheMinute, WeekdayIsNext, DateIsOfSeconds
<1>7. ClockTypeOK' /\ KeptIsOfClock'
  BY <1>1 DEF ClockInv, ClockTypeOK, KeptIsOfClock, OfClock
<1>8. QED
  BY <1>5, <1>6, <1>7 DEF ClockInv

LEMMA ClockKeeps == ClockInv /\ [ClockNext]_clock_vars => ClockInv'
<1>1. ASSUME ClockInv, UNCHANGED clock_vars
      PROVE  ClockInv'
  <2>1. UNCHANGED <<now, zone, kept, ret>>
    BY <1>1 DEF clock_vars
  <2>2. ClockTypeOK' /\ KeptIsOfClock'
    BY <1>1, <2>1 DEF ClockInv, ClockTypeOK, KeptIsOfClock, OfClock
  <2>3. QED
    BY <1>1, <2>1, <2>2, AnswerStays DEF ClockInv
<1>2. QED
  BY <1>1, TickKeeps, AskNowKeeps, AskWeekdayKeeps, AskSecondsKeeps, AskDateKeeps,
     AskLaterKeeps DEF ClockNext

\* The last answer stays right as time goes on, and the time the caller keeps
\* stays one the clock has shown: LocalTime's inductive invariant.
THEOREM ClockInvariance == ClockSpec => []ClockInv
<1>1. QED
  BY ClockStarts, ClockKeeps, PTL DEF ClockSpec

\* In any zone, for any weekday and time asked for at any instant, the answer has
\* that weekday and time; on another day it is the next such day, on the day
\* itself that day or a week later, and the right one of the two if the time is
\* within the current block of 256 seconds (iso_date_time(dow_mask, time,
\* time_zone)).
THEOREM WeekdaysAreNext == ClockSpec => []WeekdayIsNext
<1>1. ClockInv => WeekdayIsNext
  BY DEF ClockInv
<1>2. QED
  BY <1>1, ClockInvariance, PTL

\* In any zone, the seconds of a time its clock showed in standard time are those
\* of its minute; of one it showed in summer time, where there are any, those of
\* the same label in standard time (seconds_since_epoch).
THEOREM SecondsOfTheClock == ClockSpec => []SecondsAreOfTheMinute
<1>1. ClockInv => SecondsAreOfTheMinute
  BY DEF ClockInv
<1>2. QED
  BY <1>1, ClockInvariance, PTL

\* In any zone, seconds made from a local time turn into it again
\* (seconds_since_epoch, seconds_to_date).
THEOREM SecondsTurnBack == ClockSpec => []DateIsOfSeconds
<1>1. ClockInv => DateIsOfSeconds
  BY DEF ClockInv
<1>2. QED
  BY <1>1, ClockInvariance, PTL

\* In any zone, a time some seconds later is off the clock then by the change of
\* the zone in between and the minute cut off, never more (get_duration).
THEOREM LaterOnTheClock == ClockSpec => []LaterIsOnTheClock
<1>1. ClockInv => LaterIsOnTheClock
  BY DEF ClockInv
<1>2. QED
  BY <1>1, ClockInvariance, PTL
================================================================================
