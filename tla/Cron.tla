-------------------------------- MODULE Cron --------------------------------
(***************************************************************************)
(* Cron expressions of schedule.py: parse_cron and its fields, the search  *)
(* of next_after for the next time that matches, and the instant a job is  *)
(* then due at (JobBuilder.do, ScheduledJob.schedule_next).                *)
(*                                                                         *)
(* Times are minutes.  An instant is a minute of the clock time.time(); a  *)
(* wall time is a minute as the calendar counts them, without time zone:   *)
(* what datetime.fromtimestamp makes of an instant.  A change of the local *)
(* clock shows wall times twice or never.                                  *)
(***************************************************************************)
EXTENDS Integers, Sequences, FiniteSets, FiniteSetsExt

CONSTANTS Minutes, Hours, Weekdays,  \* in an hour, a day, a week
          Days,     \* the calendar: [year, month, day, weekday] of each day, Monday is 0
          Limit,    \* the wall times next_after tries: a year of 366 days
          Wall,     \* instant -> the wall time it shows
          Specs,    \* the expressions given to parse_cron
          Nows,     \* the instants at which a next time is asked for
          NoStep    \* a part without "/"

Fields == {"minute", "hour", "day_of_month", "month", "day_of_week"}

(* _FIELD_RANGES                                                           *)
Lo(f) == IF f \in {"day_of_month", "month"} THEN 1 ELSE 0
Hi(f) == CASE f = "minute"       -> Minutes - 1
           [] f = "hour"         -> Hours - 1
           [] f = "day_of_month" -> Max({d.day : d \in {Days[i] : i \in DOMAIN Days}})
           [] f = "month"        -> Max({d.month : d \in {Days[i] : i \in DOMAIN Days}})
           [] f = "day_of_week"  -> Weekdays - 1
Valid(f) == Lo(f) .. Hi(f)

(* A number in a part has no sign: "-" makes a range of it.                *)
PartType == [kind : {"star", "value", "range", "other"}, from : Nat, to : Nat, step : Int \cup {NoStep}]

ASSUME SpecsAssumption ==
  /\ \A f \in Fields : Hi(f) \in Nat
  /\ \A spec \in Specs, f \in Fields : \A i \in DOMAIN spec[f] : spec[f][i] \in PartType

(* The local clock: it starts at its earliest, and what it skips when it   *)
(* is put forward it shows at no other time.                               *)
ASSUME WallAssumption ==
  /\ IsFiniteSet(DOMAIN Wall) /\ DOMAIN Wall = 0 .. Cardinality(DOMAIN Wall) - 1
  /\ Nows \subseteq DOMAIN Wall
  /\ \A i \in DOMAIN Wall : Wall[i] \in Nat /\ Wall[0] <= Wall[i]
  /\ \A i, j \in DOMAIN Wall : i > 0 => ~(Wall[i - 1] < Wall[j] /\ Wall[j] < Wall[i])

Window == Limit \div (Minutes * Hours)

Annual(month, day) ==
  \A y \in {Days[i].year : i \in DOMAIN Days} :
    \E i \in DOMAIN Days : Days[i].year = y /\ Days[i].month = month /\ Days[i].day = day

(* The calendar: as many days in a row as the longest year has hold every  *)
(* date that all years have, and it goes on for as long as is searched.    *)
ASSUME CalendarAssumption ==
  /\ {Minutes, Hours, Weekdays} \subseteq Nat \ {0}
  /\ Limit \in Nat \ {0} /\ Limit = Window * (Minutes * Hours)
  /\ DOMAIN Days = 1 .. Len(Days) /\ Len(Days) \in Nat
  /\ \A i \in DOMAIN Days : Days[i].weekday \in Nat
  /\ \A n \in Nows : Wall[n] + 1 + Limit <= Len(Days) * (Minutes * Hours)
  /\ \A d, i \in DOMAIN Days :
       Annual(Days[d].month, Days[d].day) /\ i + Window - 1 \in DOMAIN Days =>
         \E j \in i .. i + Window - 1 : Days[j].month = Days[d].month /\ Days[j].day = Days[d].day

VARIABLES phase,      \* "parse", "malformed", "search", "found" or "raised"
          specs,      \* the expression: per field, its comma-separated parts
          cron,       \* CronExpression: the set of values of each field
          now,        \* the instant of the call
          candidate,  \* the wall time next_after looks at
          tried       \* how many it has looked at before

vars == <<phase, specs, cron, now, candidate, tried>>

(* A part is "*", a number, a range "a-b", each with a step or without, or *)
(* something else: [kind, from, to, step].                                 *)
IsStar(spec) == Len(spec) = 1 /\ spec[1].kind = "star" /\ spec[1].step = NoStep

Init ==
  /\ phase = "parse"
  /\ specs \in Specs
  /\ now \in Nows
  /\ cron = [f \in Fields |-> {}]
  /\ candidate = 0 /\ tried = 0

-----------------------------------------------------------------------------
(* _parse_field, _parse_range                                              *)

\* Mutant: the lower end of a range is not looked at.
EndsUnchecked(part, f) ==
  \/ part.kind = "other"
  \/ part.step # NoStep /\ part.step <= 0
  \/ part.kind = "star" /\ part.step = NoStep
  \/ part.kind = "value" /\ part.step = NoStep /\ part.from \notin Valid(f)
  \/ part.kind = "range" /\ (part.from > part.to \/ part.to \notin Valid(f))

(* A start with a step is not compared with the range of the field.        *)
PartMalformed(part, f) ==
  \/ part.kind = "other"
  \/ part.step # NoStep /\ part.step <= 0
  \/ part.kind = "star" /\ part.step = NoStep
  \/ part.kind = "value" /\ part.step = NoStep /\ part.from \notin Valid(f)
  \/ part.kind = "range" /\ (part.from > part.to \/ ~({part.from, part.to} \subseteq Valid(f)))

FirstValue(part, f) == IF part.kind = "star" THEN Lo(f) ELSE part.from
LastValue(part, f) ==
  CASE part.kind = "range" -> part.to
    [] part.kind = "value" /\ part.step = NoStep -> part.from
    [] OTHER -> Hi(f)

(* Every step-th value, counted from the first.                            *)
Listed(part, f) ==
  {v \in FirstValue(part, f) .. LastValue(part, f) :
     part.step # NoStep => (v - FirstValue(part, f)) % part.step = 0}

(* The values of a field; none means ValueError.                           *)
ParseField(spec, f) ==
  IF IsStar(spec) THEN Valid(f)
  ELSE IF \E i \in DOMAIN spec : PartMalformed(spec[i], f) THEN {}
  ELSE UNION {Listed(spec[i], f) : i \in DOMAIN spec}

-----------------------------------------------------------------------------
(* parse_cron, then the first candidate of next_after: the minute after.   *)
\* Mutant: the minute of the call is tried as well.
SameMinute(wall) == wall

FirstCandidate(wall) == wall + 1

\* Mutant: a year of 365 days is searched.
CommonYear == Limit - Minutes * Hours

MaxTries == Limit

Parse ==
  /\ phase = "parse"
  /\ cron' = [f \in Fields |-> ParseField(specs[f], f)]
  /\ IF \E f \in Fields : cron'[f] = {}
     THEN phase' = "malformed" /\ UNCHANGED candidate
     ELSE phase' = "search" /\ candidate' = FirstCandidate(Wall[now])
  /\ UNCHANGED <<specs, now, tried>>

Day(wall) == Days[wall \div (Minutes * Hours) + 1]

(* The fields of a wall time.  The week of cron begins on Sunday.          *)
FieldsOf(wall) ==
  [minute       |-> wall % Minutes,
   hour         |-> (wall \div Minutes) % Hours,
   day_of_month |-> Day(wall).day,
   month        |-> Day(wall).month,
   day_of_week  |-> (Day(wall).weekday + 1) % Weekdays]

Matches(wall) == \A f \in Fields : FieldsOf(wall)[f] \in cron[f]

Found ==
  /\ phase = "search" /\ tried < MaxTries
  /\ Matches(candidate)
  /\ phase' = "found"
  /\ UNCHANGED <<specs, cron, now, candidate, tried>>

Advance ==
  /\ phase = "search" /\ tried < MaxTries
  /\ ~Matches(candidate)
  /\ candidate' = candidate + 1
  /\ tried' = tried + 1
  /\ UNCHANGED <<phase, specs, cron, now>>

Raise ==
  /\ phase = "search" /\ tried = MaxTries
  /\ phase' = "raised"
  /\ UNCHANGED <<specs, cron, now, candidate, tried>>

Next == Parse \/ Found \/ Advance \/ Raise

Spec == Init /\ [][Next]_vars

-----------------------------------------------------------------------------
Shown(wall) == {i \in DOMAIN Wall : Wall[i] = wall}

(* datetime.timestamp() of what next_after returns: its wall time is of    *)
(* the first showing, and a wall time that is skipped counts from the last *)
(* instant before the change.                                              *)
FireTime ==
  IF Shown(candidate) # {} THEN Min(Shown(candidate))
  ELSE LET before == Max({i \in DOMAIN Wall : Wall[i] < candidate})
       IN  before + (candidate - Wall[before])

-----------------------------------------------------------------------------
(* A field that is accepted holds values a time can have, but for a start  *)
(* with a step that lies below the range, which nothing looks at           *)
(* (_parse_field, _parse_range).                                           *)
FieldsValid ==
  phase \notin {"parse", "malformed"} =>
    \A f \in Fields :
      \/ cron[f] \subseteq Valid(f)
      \/ \E i \in DOMAIN specs[f] :
           LET part == specs[f][i]
           IN  part.kind = "value" /\ part.step # NoStep /\ part.from < Lo(f)

(* A search of 366 days is long enough for what happens on the same date   *)
(* of every year, wherever it begins and whether or not it meets a leap    *)
(* day: next_after raises only for what some year lacks.                   *)
AnnualFound ==
  phase = "raised" /\ cron["day_of_week"] = Valid("day_of_week") =>
    ~\E month \in cron["month"], day \in cron["day_of_month"] : Annual(month, day)

(* A job is due later than the call that computes its time, unless the     *)
(* local clock shows the time of that call for the second time; and if no  *)
(* clock is changed meanwhile, it is due at the first time after the call  *)
(* that matches (next_after and the conversions around it).                *)
FiresNext ==
  phase = "found" =>
    /\ now = Min(Shown(Wall[now])) => FireTime > now
    /\ (\A wall \in Wall[now] .. candidate : Cardinality(Shown(wall)) = 1) =>
         /\ Matches(Wall[FireTime])
         /\ \A i \in now + 1 .. FireTime - 1 : ~Matches(Wall[i])
=============================================================================
