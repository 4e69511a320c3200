------------------------------- MODULE MCCron -------------------------------
(* Cron expressions on a small calendar, for TLC: hours of two minutes,    *)
(* days of two hours, weeks of three days, years of two months of two      *)
(* days, and a third day of the second month in the third year.            *)
EXTENDS Cron, TLC, SequencesExt

LeapYear == 3

DaysOf(y) ==
  <<<<1, 1>>, <<1, 2>>, <<2, 1>>, <<2, 2>>>> \o (IF y = LeapYear THEN <<<<2, 3>>>> ELSE <<>>)

Dates == FlattenSeq([y \in 1..5 |-> [i \in DOMAIN DaysOf(y) |-> <<y>> \o DaysOf(y)[i]]])

SmallCalendar ==
  [i \in DOMAIN Dates |->
     [year |-> Dates[i][1], month |-> Dates[i][2], day |-> Dates[i][3], weekday |-> i % 3]]

(* The clock goes back by an hour after 21 minutes, forward by one later.  *)
ChangingClock == [i \in 0..83 |-> IF i \in 22..49 THEN i - 2 ELSE i]

FiveDays == 5 * 4

Part(kind, from, to, step) == [kind |-> kind, from |-> from, to |-> to, step |-> step]
Star == Part("star", 0, 0, NoStep)
At(n) == Part("value", n, n, NoStep)
Parts ==
  {Star, Part("other", 0, 0, NoStep)}
    \cup {Part("star", 0, 0, n) : n \in {-1, 0, 2, 3}}
    \cup {Part("value", n, n, s) : n \in {0, 1, 3, 4}, s \in {NoStep, 2}}
    \cup {Part("range", m, n, s) : m \in 0..3, n \in {2, 4}, s \in {NoStep, 0, 2}}

DaySpecs == {<<p>> : p \in Parts} \cup {<<p, At(2)>> : p \in Parts}

SmallSpecs ==
  {[minute |-> <<minute>>, hour |-> <<At(1)>>, day_of_month |-> day, month |-> <<month>>,
    day_of_week |-> <<week>>] :
     minute \in {Star, At(0)}, day \in DaySpecs, month \in {Star, At(2)},
     week \in {Star, At(0)}}
=============================================================================
