----------------------------- MODULE CronProofs -----------------------------
(***************************************************************************)
(* Theorems about the cron expressions of schedule.py, for every calendar  *)
(* and clock that the assumptions of Cron allow: what _parse_field accepts *)
(* is in range, next_after finds the first time that matches, and it finds *)
(* one for every date that all years have.                                 *)
(***************************************************************************)
EXTENDS Cron, ListProofs, FiniteSetTheorems, TLAPS

-----------------------------------------------------------------------------
(* The invariant of the search: it has passed over what does not match,    *)
(* minute by minute, from the minute after the call.                       *)
Parsed == phase \notin {"parse", "malformed"}

CronInv ==
  /\ specs \in Specs /\ now \in Nows
  /\ phase \in {"parse", "malformed", "search", "found", "raised"}
  /\ Parsed => /\ \A f \in Fields : cron[f] = ParseField(specs[f], f) /\ cron[f] # {}
               /\ candidate = Wall[now] + 1 + tried /\ tried \in Nat
               /\ \A wall \in Wall[now] + 1 .. candidate - 1 : ~Matches(wall)
  /\ phase = "parse" => tried = 0
  /\ phase = "found" => Matches(candidate)
  /\ phase = "raised" => tried = Limit

LEMMA NowShown == CronInv => now \in DOMAIN Wall /\ now \in Nat /\ Wall[now] \in Nat
BY WallAssumption, FS_CardinalityType DEF CronInv

(* The invariant of the search holds whatever the expression and the       *)
(* instant of the call (parse_cron, next_after).                           *)
THEOREM CronInvariance == Spec => []CronInv
<1>1. Init => CronInv
  BY DEF Init, CronInv, Parsed
<1>2. CronInv /\ [Next]_vars => CronInv'
  <2> SUFFICES ASSUME CronInv, [Next]_vars PROVE CronInv'
    OBVIOUS
  <2>1. CASE Parse
    <3>1. CASE phase' = "malformed"
      BY <2>1, <3>1 DEF Parse, CronInv, Parsed
    <3>2. CASE phase' # "malformed"
      <4>1. /\ cron' = [f \in Fields |-> ParseField(specs[f], f)]
            /\ \A f \in Fields : cron'[f] # {}
            /\ candidate' = Wall[now] + 1 /\ phase' = "search"
            /\ UNCHANGED <<specs, now>> /\ tried' = 0
        BY <2>1, <3>2 DEF Parse, FirstCandidate, CronInv
      <4>2. candidate' = Wall[now] + 1 + tried'
        BY <4>1, NowShown
      <4>3. Wall[now] + 1 .. candidate' - 1 = {}
        BY <4>1, NowShown
      <4> QED BY <4>1, <4>2, <4>3 DEF CronInv, Parsed
    <3> QED BY <3>1, <3>2
  <2>2. CASE Found
    BY <2>2 DEF Found, CronInv, Parsed, Matches
  <2>3. CASE Advance
    <3>1. /\ phase = "search" /\ candidate' = candidate + 1 /\ ~Matches(candidate)
          /\ UNCHANGED <<phase, specs, cron, now>>
      BY <2>3 DEF Advance
    <3>2. candidate = Wall[now] + 1 + tried /\ tried \in Nat /\ Wall[now] \in Nat
      BY <3>1, NowShown DEF CronInv, Parsed
    <3>5. candidate' = Wall[now] + 1 + tried' /\ tried' \in Nat
      BY <2>3, <3>1, <3>2 DEF Advance
    <3>3. \A wall \in Wall[now] + 1 .. candidate' - 1 : ~Matches(wall)
      <4>1. ASSUME NEW wall \in Wall[now] + 1 .. candidate' - 1
            PROVE  wall = candidate \/ wall \in Wall[now] + 1 .. candidate - 1
        BY <3>1, <3>2
      <4> QED BY <3>1, <4>1 DEF CronInv, Parsed
    <3>4. \A wall : Matches(wall)' <=> Matches(wall)
      BY <3>1 DEF Matches
    <3> QED BY <3>1, <3>3, <3>4, <3>5 DEF CronInv, Parsed
  <2>4. CASE Raise
    BY <2>4 DEF Raise, MaxTries, CronInv, Parsed, Matches
  <2>5. CASE UNCHANGED vars
    BY <2>5 DEF vars, CronInv, Parsed, Matches
  <2> QED BY <2>1, <2>2, <2>3, <2>4, <2>5 DEF Next
<1> QED BY <1>1, <1>2, PTL DEF Spec

-----------------------------------------------------------------------------
LEMMA ListedValid ==
  ASSUME NEW f \in Fields, NEW part \in PartType, ~PartMalformed(part, f),
         ~(part.kind = "value" /\ part.step # NoStep /\ part.from < Lo(f))
  PROVE  Listed(part, f) \subseteq Valid(f)
<1>1. Lo(f) \in Nat /\ Hi(f) \in Nat
  BY SpecsAssumption DEF Lo
<1>2. part.from \in Nat /\ part.to \in Nat /\ part.kind \in {"star", "value", "range", "other"}
  BY DEF PartType
<1>3. SUFFICES ASSUME NEW v \in FirstValue(part, f) .. LastValue(part, f) PROVE v \in Valid(f)
  BY DEF Listed
<1>4. CASE part.kind = "star"
  BY <1>1, <1>3, <1>4 DEF FirstValue, LastValue, Valid
<1>5. CASE part.kind = "range"
  BY <1>1, <1>2, <1>3, <1>5 DEF FirstValue, LastValue, Valid, PartMalformed
<1>6. CASE part.kind = "value" /\ part.step = NoStep
  BY <1>1, <1>2, <1>3, <1>6 DEF FirstValue, LastValue, Valid, PartMalformed
<1>7. CASE part.kind = "value" /\ part.step # NoStep
  BY <1>1, <1>2, <1>3, <1>7 DEF FirstValue, LastValue, Valid
<1> QED BY <1>2, <1>4, <1>5, <1>6, <1>7 DEF PartMalformed

LEMMA AcceptedValid == CronInv => FieldsValid
<1> SUFFICES ASSUME CronInv, Parsed, NEW f \in Fields,
                    \A i \in DOMAIN specs[f] :
                      ~(/\ specs[f][i].kind = "value" /\ specs[f][i].step # NoStep
                        /\ specs[f][i].from < Lo(f))
             PROVE  cron[f] \subseteq Valid(f)
  BY DEF FieldsValid, Parsed
<1>1. cron[f] = ParseField(specs[f], f) /\ cron[f] # {}
  BY DEF CronInv
<1>2. \A i \in DOMAIN specs[f] : specs[f][i] \in PartType
  BY SpecsAssumption DEF CronInv
<1>3. CASE IsStar(specs[f])
  BY <1>1, <1>3 DEF ParseField
<1>4. CASE ~IsStar(specs[f])
  <2>1. /\ \A i \in DOMAIN specs[f] : ~PartMalformed(specs[f][i], f)
        /\ cron[f] = UNION {Listed(specs[f][i], f) : i \in DOMAIN specs[f]}
    BY <1>1, <1>4 DEF ParseField
  <2>2. \A i \in DOMAIN specs[f] : Listed(specs[f][i], f) \subseteq Valid(f)
    BY <1>2, <2>1, ListedValid
  <2> QED BY <2>1, <2>2
<1> QED BY <1>3, <1>4

(* What parse_cron accepts are values a time can have, but for a start     *)
(* with a step that lies below the range (_parse_field).                   *)
THEOREM FieldsAlwaysValid == Spec => []FieldsValid
BY AcceptedValid, CronInvariance, PTL

-----------------------------------------------------------------------------
(* The clock passes through every wall time that it shows at all.          *)
LEMMA Crossing ==
  ASSUME NEW a \in DOMAIN Wall, NEW b \in DOMAIN Wall, NEW j \in DOMAIN Wall,
         a < b, Wall[a] < Wall[j], Wall[j] < Wall[b]
  PROVE  \E i \in DOMAIN Wall : a < i /\ i < b /\ Wall[i] = Wall[j]
<1> DEFINE N == Cardinality(DOMAIN Wall)
           T == {i \in a + 1 .. b : Wall[j] <= Wall[i]}
<1>1. N \in Nat /\ DOMAIN Wall = 0 .. N - 1 /\ \A i \in DOMAIN Wall : Wall[i] \in Nat
  BY WallAssumption, FS_CardinalityType
<1> HIDE DEF N
<1>2. a \in Nat /\ b \in Nat
  BY <1>1
<1>3. T \in SUBSET Nat /\ b \in T
  BY <1>1, <1>2
<1>4. PICK m \in T : \A k \in T : m <= k
  <2> HIDE DEF T
  <2> QED BY <1>3, NatMin
<1>5. m \in Nat /\ m > a /\ m <= b /\ m \in DOMAIN Wall /\ m - 1 \in DOMAIN Wall /\ m > 0
  BY <1>1, <1>2, <1>4
<1>6. Wall[m - 1] < Wall[j]
  <2>1. CASE m - 1 = a
    BY <2>1
  <2>2. CASE m - 1 # a
    <3>1. m - 1 \notin T
      BY <1>4, <1>5
    <3>2. m - 1 \in a + 1 .. b
      BY <1>2, <1>5, <2>2
    <3> QED BY <1>1, <1>5, <3>1, <3>2
  <2> QED BY <2>1, <2>2
<1>7. ~(Wall[j] < Wall[m])
  BY <1>5, <1>6, WallAssumption
<1>8. Wall[m] = Wall[j]
  BY <1>1, <1>4, <1>5, <1>7
<1> QED BY <1>1, <1>2, <1>5, <1>8

LEMMA ShownFinite == \A wall : IsFiniteSet(Shown(wall))
BY WallAssumption, FS_Subset DEF Shown

LEMMA FirstShowing ==
  ASSUME NEW wall, Shown(wall) # {}
  PROVE  /\ Min(Shown(wall)) \in Shown(wall)
         /\ \A i \in Shown(wall) : Min(Shown(wall)) <= i
<1>1. Shown(wall) \in SUBSET Nat
  BY WallAssumption, FS_CardinalityType DEF Shown
<1>2. \E m \in Shown(wall) : \A k \in Shown(wall) : m <= k
  BY <1>1, NatMin
<1> QED BY <1>2 DEF Min

LEMMA LastBefore ==
  ASSUME NEW S \in SUBSET DOMAIN Wall, S # {}
  PROVE  Max(S) \in S /\ \A i \in S : i <= Max(S)
<1> DEFINE N == Cardinality(DOMAIN Wall)
           T == {k \in Nat : \A i \in S : i <= k}
<1>1. N \in Nat /\ DOMAIN Wall = 0 .. N - 1
  BY WallAssumption, FS_CardinalityType
<1> HIDE DEF N
<1>2. \A i \in S : i \in Nat /\ i <= N
  BY <1>1
<1>3. N \in T /\ T \in SUBSET Nat
  BY <1>1, <1>2
<1>4. PICK m \in T : \A k \in T : m <= k
  <2> HIDE DEF T
  <2> QED BY <1>3, NatMin
<1>5. m \in S
  <2>1. SUFFICES ASSUME m \notin S PROVE FALSE
    OBVIOUS
  <2>2. \A i \in S : i <= m - 1
    BY <1>2, <1>4, <2>1
  <2>3. m - 1 \in Nat
    BY <1>2, <1>4, <2>2
  <2>4. m - 1 \in T
    BY <2>2, <2>3
  <2> QED BY <1>4, <2>4
<1>6. \E x \in S : \A y \in S : x >= y
  BY <1>2, <1>4, <1>5
<1> QED BY <1>2, <1>6 DEF Max

(* A job is due after the call that computes its time, unless the clock    *)
(* shows the time of that call again; and at the first time that matches,  *)
(* unless a clock change comes between (next_after, schedule_next).        *)
THEOREM FiresNextAlways == Spec => []FiresNext
<1>1. CronInv => FiresNext
  <2> SUFFICES ASSUME CronInv, phase = "found" PROVE FiresNext
    BY DEF FiresNext
  <2> DEFINE t == Wall[now]
             c == candidate
             f == FireTime
  <2>1. /\ now \in DOMAIN Wall /\ now \in Nat /\ t \in Nat
        /\ c \in Int /\ c > t /\ Matches(c)
        /\ \A wall \in t + 1 .. c - 1 : ~Matches(wall)
    BY NowShown DEF CronInv, Parsed
  <2>2. \A i \in DOMAIN Wall : i \in Nat /\ Wall[i] \in Nat
    BY WallAssumption, FS_CardinalityType
  <2>3. ASSUME Shown(c) # {} PROVE f \in DOMAIN Wall /\ f \in Nat /\ Wall[f] = c
    <3>1. f = Min(Shown(c))
      BY <2>3 DEF FireTime
    <3> QED BY <2>2, <2>3, <3>1, FirstShowing DEF Shown
  <2>4. ASSUME now = Min(Shown(t)) PROVE f > now
    <3>1. CASE Shown(c) # {}
      <4>1. f \in DOMAIN Wall /\ f \in Nat /\ Wall[f] = c
        BY <2>3, <3>1
      <4>2. SUFFICES ASSUME f < now PROVE FALSE
        BY <2>1, <4>1
      <4>3. Wall[0] <= t /\ 0 \in DOMAIN Wall
        BY <2>1, WallAssumption, FS_CardinalityType
      <4>4. \A i \in DOMAIN Wall : i < now => Wall[i] # t
        <5>1. SUFFICES ASSUME NEW i \in DOMAIN Wall, i < now, Wall[i] = t PROVE FALSE
          OBVIOUS
        <5>2. i \in Shown(t)
          BY <5>1 DEF Shown
        <5>3. now <= i
          BY <2>4, <5>2, FirstShowing
        <5> QED BY <2>1, <2>2, <5>1, <5>3
      <4>5. Wall[0] < t /\ 0 < f
        BY <2>1, <2>2, <4>1, <4>2, <4>3, <4>4
      <4>6. PICK i \in DOMAIN Wall : 0 < i /\ i < f /\ Wall[i] = t
        BY <2>1, <4>1, <4>3, <4>5, Crossing
      <4> QED BY <2>1, <2>2, <4>1, <4>2, <4>4, <4>6
    <3>2. CASE Shown(c) = {}
      <4> DEFINE S == {i \in DOMAIN Wall : Wall[i] < c}
                 before == Max(S)
      <4>1. now \in S
        BY <2>1
      <4>2. before \in S /\ now <= before
        BY <4>1, LastBefore
      <4>3. f = before + (c - Wall[before])
        BY <3>2 DEF FireTime
      <4> QED BY <2>1, <2>2, <4>2, <4>3
    <3> QED BY <3>1, <3>2
  <2>5. ASSUME \A wall \in t .. c : Cardinality(Shown(wall)) = 1
        PROVE  Matches(Wall[f]) /\ \A i \in now + 1 .. f - 1 : ~Matches(Wall[i])
    <3>1. \A wall \in t .. c : \A i, j \in Shown(wall) : i = j
      <4>1. SUFFICES ASSUME NEW wall \in t .. c PROVE \A i, j \in Shown(wall) : i = j
        OBVIOUS
      <4>2. Cardinality(Shown(wall)) = 1
        BY <2>5
      <4>3. IsFiniteSet(Shown(wall))
        BY ShownFinite
      <4> QED BY <4>2, <4>3, FS_Singleton
    <3>2. Shown(c) # {}
      <4>1. c \in t .. c
        BY <2>1
      <4>2. Cardinality(Shown(c)) = 1
        BY <2>5, <4>1
      <4> QED BY <4>2, FS_EmptySet
    <3>3. f \in DOMAIN Wall /\ f \in Nat /\ Wall[f] = c
      BY <2>3, <3>2
    <3>4. ASSUME NEW i \in now + 1 .. f - 1 PROVE ~Matches(Wall[i])
      <4>1. i \in Nat /\ now < i /\ i < f /\ now < f /\ i \in DOMAIN Wall
        BY <2>1, <3>3, <3>4, WallAssumption, FS_CardinalityType
      <4>2. Wall[i] \in Nat
        BY <2>2, <4>1
      <4>3. ASSUME NEW k \in DOMAIN Wall, NEW l \in DOMAIN Wall, k # l, Wall[k] \in t .. c
            PROVE  Wall[k] # Wall[l]
        BY <3>1, <4>3 DEF Shown
      <4>4. Wall[i] # t /\ Wall[i] # c
        <5>1. t \in t .. c /\ c \in t .. c
          BY <2>1
        <5> QED BY <2>1, <3>3, <4>1, <4>3, <5>1
      <4>5. ~(Wall[i] > c)
        <5>1. SUFFICES ASSUME Wall[i] > c PROVE FALSE
          OBVIOUS
        <5>2. PICK k \in DOMAIN Wall : now < k /\ k < i /\ Wall[k] = Wall[f]
          BY <2>1, <3>3, <4>1, <5>1, Crossing
        <5>3. k # f /\ Wall[k] \in t .. c
          BY <2>1, <2>2, <3>3, <4>1, <5>2
        <5> QED BY <3>3, <4>3, <5>2, <5>3
      <4>6. ~(Wall[i] < t)
        <5>1. SUFFICES ASSUME Wall[i] < t PROVE FALSE
          OBVIOUS
        <5>2. PICK k \in DOMAIN Wall : i < k /\ k < f /\ Wall[k] = Wall[now]
          BY <2>1, <3>3, <4>1, <5>1, Crossing
        <5>3. k # now /\ Wall[k] \in t .. c
          BY <2>1, <2>2, <4>1, <5>2
        <5> QED BY <2>1, <4>3, <5>2, <5>3
      <4>7. Wall[i] \in t + 1 .. c - 1
        BY <2>1, <4>2, <4>4, <4>5, <4>6
      <4> QED BY <2>1, <4>7
    <3> QED BY <2>1, <3>3, <3>4
  <2> QED BY <2>4, <2>5 DEF FiresNext
<1> QED BY <1>1, CronInvariance, PTL

-----------------------------------------------------------------------------
(* Minutes of a day.                                                       *)
LEMMA Quotient ==
  ASSUME NEW b \in Nat \ {0}, NEW q \in Nat, NEW r \in 0 .. b - 1
  PROVE  (q * b + r) \div b = q /\ (q * b + r) % b = r
OBVIOUS

LEMMA Products ==
  ASSUME NEW a \in Nat \ {0}, NEW b \in Nat \ {0}
  PROVE  a * b \in Nat \ {0}
OBVIOUS

LEMMA Division ==
  ASSUME NEW n \in Nat, NEW b \in Nat \ {0}
  PROVE  n \div b \in Nat /\ n % b \in 0 .. b - 1 /\ n = (n \div b) * b + (n % b)
<1>1. n \div b \in Nat
  OBVIOUS
<1>2. n % b \in 0 .. b - 1
  OBVIOUS
<1>3. n = b * (n \div b) + (n % b)
  OBVIOUS
<1>4. b * (n \div b) = (n \div b) * b
  BY <1>1
<1> QED BY <1>1, <1>2, <1>3, <1>4

LEMMA Scaled ==
  ASSUME NEW a \in Int, NEW b \in Int, NEW c \in Nat, a <= b
  PROVE  a * c <= b * c
<1>1. (b - a) * c >= 0
  OBVIOUS
<1> QED BY <1>1

LEMMA Spread ==
  ASSUME NEW a \in Int, NEW b \in Int, NEW c \in Int
  PROVE  a * c \in Int /\ (a + b) * c = a * c + b * c
OBVIOUS

LEMMA WindowType == Window \in Nat \ {0} /\ Minutes * Hours \in Nat \ {0}
<1>1. Minutes * Hours \in Nat \ {0} /\ Limit \in Nat \ {0} /\ Limit = Window * (Minutes * Hours)
  BY CalendarAssumption, Products
<1>2. Window \in Nat
  BY <1>1, Division DEF Window
<1> QED BY <1>1, <1>2

LEMMA AtMinute ==
  ASSUME NEW j \in Nat, NEW h \in 0 .. Hours - 1, NEW m \in 0 .. Minutes - 1
  PROVE  LET wall == j * (Minutes * Hours) + (h * Minutes + m) IN
         /\ h * Minutes + m \in 0 .. Minutes * Hours - 1
         /\ wall % Minutes = m /\ (wall \div Minutes) % Hours = h
         /\ wall \div (Minutes * Hours) = j
<1> DEFINE wall == j * (Minutes * Hours) + (h * Minutes + m)
<1>1. Minutes \in Nat \ {0} /\ Hours \in Nat \ {0} /\ h \in Nat /\ m \in Nat
  BY CalendarAssumption
<1>2. Minutes * Hours \in Nat \ {0}
  BY <1>1, Products
<1>3. h * Minutes + m \in 0 .. Minutes * Hours - 1
  <2>1. h * Minutes \in Nat
    BY <1>1
  <2>2. h * Minutes <= (Hours - 1) * Minutes
    BY <1>1
  <2>3. (Hours - 1) * Minutes = Minutes * Hours - Minutes
    BY <1>1
  <2> QED BY <1>1, <1>2, <2>1, <2>2, <2>3
<1>4. wall = (j * Hours + h) * Minutes + m
  BY <1>1
<1>5. j * Hours + h \in Nat
  BY <1>1
<1>6. wall % Minutes = m /\ wall \div Minutes = j * Hours + h
  BY <1>1, <1>4, <1>5, Quotient
<1>7. (j * Hours + h) % Hours = h
  BY <1>1, Quotient
<1>8. wall \div (Minutes * Hours) = j
  BY <1>2, <1>3, Quotient
<1> QED BY <1>3, <1>6, <1>7, <1>8

(* A minute of the day comes on Window days in a row in as many minutes    *)
(* as they have, wherever in a day these begin.                            *)
LEMMA DaysSearched ==
  ASSUME NEW first \in Nat, first + Limit <= Len(Days) * (Minutes * Hours),
         NEW minute \in 0 .. Minutes * Hours - 1
  PROVE  \E i \in Nat : /\ i + Window <= Len(Days)
                        /\ \A j \in i .. i + Window - 1 :
                             j * (Minutes * Hours) + minute \in first .. first + Limit - 1
<1> DEFINE MH == Minutes * Hours
           D == first \div MH
           off == first % MH
           N == Len(Days)
           K == Window
<1>1. MH \in Nat \ {0} /\ K \in Nat /\ Limit \in Nat /\ Limit = K * MH /\ N \in Nat
  BY CalendarAssumption, WindowType
<1>2. D \in Nat /\ off \in 0 .. MH - 1 /\ first = D * MH + off
  BY WindowType, Division
<1> DEFINE i == IF minute >= off THEN D ELSE D + 1
<1>4. minute \in Nat /\ minute < MH
  BY <1>1
<1> HIDE DEF MH, D, off, N, K
<1>5. i \in Nat /\ first <= i * MH + minute /\ i * MH + minute - MH < first /\ i * MH - MH < first
  <2>1. (D + 1) * MH = D * MH + MH
    BY <1>1, <1>2
  <2> QED BY <1>1, <1>2, <1>4, <2>1
<1> HIDE DEF i
<1>6. i + K <= N
  <2>1. SUFFICES ASSUME N + 1 <= i + K PROVE FALSE
    BY <1>1, <1>5
  <2>2. (N + 1) * MH <= (i + K) * MH
    <3>1. N + 1 \in Int /\ i + K \in Int /\ MH \in Nat
      BY <1>1, <1>5
    <3> QED BY <2>1, <3>1, Scaled
  <2>3. (i + K) * MH = i * MH + Limit /\ (N + 1) * MH = N * MH + MH
    BY <1>1, <1>5, Spread
  <2>4. first + Limit <= N * MH
    BY DEF MH, N
  <2>5. i * MH \in Int /\ N * MH \in Int
    BY <1>1, <1>5, Spread
  <2> QED BY <1>1, <1>5, <2>2, <2>3, <2>4, <2>5
<1>7. ASSUME NEW j \in i .. i + K - 1
      PROVE  j * MH + minute \in first .. first + Limit - 1
  <2>1. /\ i \in Int /\ j \in Int /\ j + 1 \in Int /\ i + K \in Int /\ MH \in Nat
        /\ i <= j /\ j + 1 <= i + K
    BY <1>1, <1>5
  <2>2. i * MH <= j * MH /\ (j + 1) * MH <= (i + K) * MH
    BY <2>1, Scaled
  <2>3. (j + 1) * MH = j * MH + MH /\ (i + K) * MH = i * MH + Limit
    BY <1>1, <2>1, Spread
  <2>4. i * MH \in Int /\ j * MH \in Int
    BY <2>1, Spread
  <2> QED BY <1>1, <1>4, <1>5, <2>2, <2>3, <2>4
<1> QED BY <1>5, <1>6, <1>7 DEF MH, N, K

(* Hours and minutes are accepted in range, with a value at least.         *)
LEMMA ClockFields ==
  ASSUME CronInv, phase = "raised"
  PROVE  /\ \E h \in 0 .. Hours - 1 : h \in cron["hour"]
         /\ \E m \in 0 .. Minutes - 1 : m \in cron["minute"]
<1>1. ASSUME NEW f \in {"hour", "minute"} PROVE cron[f] # {} /\ cron[f] \subseteq Valid(f)
  <2>1. f \in Fields /\ Lo(f) = 0 /\ cron[f] # {}
    BY DEF CronInv, Parsed, Fields, Lo
  <2>2. \A i \in DOMAIN specs[f] : specs[f][i].from \in Nat
    BY <2>1, SpecsAssumption DEF CronInv, PartType
  <2> QED BY <2>1, <2>2, AcceptedValid DEF FieldsValid
<1>2. Valid("hour") = 0 .. Hours - 1 /\ Valid("minute") = 0 .. Minutes - 1
  BY DEF Valid, Lo, Hi
<1> QED BY <1>1, <1>2

(* A search of 366 days meets whatever date every year has, at every time  *)
(* of day, if the day of the week does not matter: next_after raises only  *)
(* for what some year lacks.                                               *)
THEOREM AnnualAlwaysFound == Spec => []AnnualFound
<1>1. CronInv => AnnualFound
  <2> SUFFICES ASSUME CronInv, phase = "raised",
                      cron["day_of_week"] = Valid("day_of_week"),
                      NEW month \in cron["month"], NEW day \in cron["day_of_month"],
                      Annual(month, day)
               PROVE  FALSE
    BY DEF AnnualFound
  <2>1. /\ now \in Nows /\ Wall[now] \in Nat /\ candidate = Wall[now] + 1 + Limit
        /\ \A wall \in Wall[now] + 1 .. candidate - 1 : ~Matches(wall)
    BY NowShown DEF CronInv, Parsed
  <2> DEFINE first == Wall[now] + 1
  <2>2. PICK h \in 0 .. Hours - 1 : h \in cron["hour"]
    BY ClockFields
  <2>3. PICK m \in 0 .. Minutes - 1 : m \in cron["minute"]
    BY ClockFields
  <2>4. h * Minutes + m \in 0 .. Minutes * Hours - 1
    BY <2>2, <2>3, AtMinute
  <2>5. first \in Nat /\ first + Limit <= Len(Days) * (Minutes * Hours)
    BY <2>1, CalendarAssumption
  <2> DEFINE At(k) == k * (Minutes * Hours) + (h * Minutes + m)
  <2>6. PICK i \in Nat : /\ i + Window <= Len(Days)
                         /\ \A k \in i .. i + Window - 1 : At(k) \in first .. first + Limit - 1
    BY <2>4, <2>5, DaysSearched
  <2>7. PICK j \in Nat : /\ i <= j /\ j <= i + Window - 1 /\ j + 1 \in DOMAIN Days
                         /\ Days[j + 1].month = month /\ Days[j + 1].day = day
    <3>1. /\ Len(Days) \in Nat /\ Window \in Int /\ DOMAIN Days = 1 .. Len(Days)
          /\ Window > 0
      BY <2>1, CalendarAssumption, WindowType
    <3>2. Len(Days) > 0
      BY <2>6, <3>1
    <3>3. PICK d \in DOMAIN Days : Days[d].month = month /\ Days[d].day = day
      <4>1. 1 \in DOMAIN Days
        BY <3>1, <3>2
      <4> QED BY <4>1 DEF Annual
    <3>4. i + 1 \in DOMAIN Days /\ i + 1 + Window - 1 \in DOMAIN Days
      BY <2>6, <3>1, <3>2
    <3>5. PICK k \in i + 1 .. i + 1 + Window - 1 : Days[k].month = month /\ Days[k].day = day
      BY <3>3, <3>4, CalendarAssumption
    <3>6. k - 1 \in Nat /\ i <= k - 1 /\ k - 1 <= i + Window - 1 /\ k - 1 + 1 = k /\ k \in DOMAIN Days
      BY <2>6, <3>1, <3>5
    <3> QED BY <3>5, <3>6
  <2> DEFINE wall == At(j)
  <2>8. /\ wall % Minutes = m /\ (wall \div Minutes) % Hours = h
        /\ wall \div (Minutes * Hours) = j
    BY <2>2, <2>3, <2>7, AtMinute
  <2>9. j \in i .. i + Window - 1
    <3>1. Window \in Nat
      BY WindowType
    <3> QED BY <2>6, <2>7, <3>1
  <2>10. ~Matches(wall)
    <3>1. wall \in first .. first + Limit - 1
      <4> HIDE DEF At, first
      <4> QED BY <2>6, <2>9
    <3>2. first .. first + Limit - 1 = Wall[now] + 1 .. candidate - 1
      <4>1. Limit \in Nat
        BY CalendarAssumption
      <4>2. candidate = first + Limit
        BY <2>1
      <4> QED BY <2>1, <4>1, <4>2
    <3> QED BY <2>1, <3>1, <3>2
  <2>11. Day(wall) = Days[j + 1]
    BY <2>8 DEF Day
  <2>12. FieldsOf(wall)["day_of_week"] \in cron["day_of_week"]
    <3>1. Days[j + 1].weekday \in Nat /\ Weekdays \in Nat \ {0}
      BY <2>7, CalendarAssumption
    <3>2. (Days[j + 1].weekday + 1) % Weekdays \in 0 .. Weekdays - 1
      BY <3>1
    <3>3. Valid("day_of_week") = 0 .. Weekdays - 1
      BY DEF Valid, Lo, Hi
    <3> QED BY <2>11, <3>2, <3>3 DEF FieldsOf
  <2>13. \A f \in {"minute", "hour", "day_of_month", "month"} : FieldsOf(wall)[f] \in cron[f]
    BY <2>2, <2>3, <2>7, <2>8, <2>11 DEF FieldsOf
  <2> QED BY <2>10, <2>12, <2>13 DEF Matches, Fields
<1> QED BY <1>1, CronInvariance, PTL
=============================================================================
