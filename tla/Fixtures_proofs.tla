--------------------------- MODULE Fixtures_proofs ---------------------------
(***************************************************************************)
(* Theorems about the schedule generateFixtures computes, for any number   *)
(* of teams, dates, days, times and durations.  The invariant has two      *)
(* parts: where everybody stands on the circle after a number of turns     *)
(* (the pairings follow from arithmetic modulo the number of places), and  *)
(* what the clock of the round reads (the times and days follow from it).  *)
(***************************************************************************)
EXTENDS Fixtures, WellFoundedInduction, SequenceTheorems, FiniteSetTheorems, TLAPS

\* A set of natural numbers has a least element.
LEMMA LeastNumber ==
  ASSUME NEW A, A \subseteq Nat, A # {}
  PROVE  \E x \in A : \A y \in A : x <= y
<1>1. \E x \in A : \A y \in A : ~ (<<y, x>> \in OpToRel(<, Nat))
  BY NatLessThanWellFounded, WFMin
<1>2. PICK x \in A : \A y \in A : ~ (<<y, x>> \in OpToRel(<, Nat))
  BY <1>1
<1>3. \A y \in A : ~ (y < x)
  BY <1>2 DEF OpToRel
<1>. QED BY <1>3

\* Induction over the natural numbers, for a set instead of an operator.
LEMMA SetInduction ==
  ASSUME NEW S, 0 \in S, \A n \in Nat : n \in S => n + 1 \in S
  PROVE  \A n \in Nat : n \in S
<1>. SUFFICES ASSUME NEW n \in Nat, n \notin S PROVE FALSE
  OBVIOUS
<1>. DEFINE T == Nat \ S
<1>1. T \subseteq Nat /\ T # {}
  OBVIOUS
<1>2. PICK x \in T : \A y \in T : x <= y
  <2>. HIDE DEF T
  <2>. QED BY <1>1, LeastNumber
<1>4. x \in Nat /\ x # 0 /\ x - 1 \in Nat
  OBVIOUS
<1>5. x - 1 \in S
  BY <1>2, <1>4
<1>6. (x - 1) + 1 \in S
  BY <1>4, <1>5
<1>. QED BY <1>4, <1>6

-----------------------------------------------------------------------------
(* Days and hours. *)

\* The minute of the UTC day at which a Thai time falls, negative before 7:00.
Minute(time) == (time[1] - 7) * 60 + time[2]

\* A set of numbers below eight has a least element.
LEMMA LeastBelowEight ==
  ASSUME NEW A \in SUBSET (0 .. 7), A # {}
  PROVE  LET least == CHOOSE k \in A : \A j \in A : k <= j
         IN  least \in A
<1>1. A \subseteq Nat
  OBVIOUS
<1>2. \E x \in A : \A y \in A : x <= y
  BY <1>1, LeastNumber
<1>. QED BY <1>2

\* The settings of a league, component by component.
LEMMA SettingsTypes ==
  ASSUME NEW l \in Settings
  PROVE  /\ l.teams \in Nat /\ l.teams >= 2
         /\ l.format \in {"SINGLE", "DOUBLE"}
         /\ l.startDate \in Nat \ {0}
         /\ l.days \subseteq 0 .. 6 /\ l.days # {}
         /\ l.startTime[1] \in 0 .. 23 /\ l.startTime[2] \in 0 .. 59
         /\ l.endTime[1] \in 0 .. 23 /\ l.endTime[2] \in 0 .. 59
         /\ l.duration \in Nat /\ l.duration >= 30
<1>1. l.startTime \in StartTimes /\ l.endTime \in EndTimes
  BY DEF Settings
<1>2. /\ l.startTime \in (0 .. 23) \X (0 .. 59)
      /\ l.endTime \in (0 .. 23) \X (0 .. 59)
  BY <1>1, FixturesAssumption
<1>3. l.teams \in TeamCounts /\ l.format \in Formats
  BY DEF Settings
<1>4. l.startDate \in StartDates /\ l.days \in DaySets /\ l.duration \in Durations
  BY DEF Settings
<1>5. l.days \in SUBSET (0 .. 6) /\ l.days # {}
  BY <1>4, FixturesAssumption
<1>. QED BY <1>2, <1>3, <1>4, <1>5, FixturesAssumption

LEMMA MinuteRange ==
  ASSUME NEW l \in Settings
  PROVE  /\ Minute(l.startTime) \in -420 .. 1019
         /\ Minute(l.endTime) \in -420 .. 1019
         /\ l.startTime[1] >= 7 => Minute(l.startTime) >= 0
         /\ l.startTime[1] < 7 => Minute(l.startTime) < 0
<1>. DEFINE h == l.startTime[1]  m == l.startTime[2]
            g == l.endTime[1]  n == l.endTime[2]
<1>1. h \in 0 .. 23 /\ m \in 0 .. 59 /\ g \in 0 .. 23 /\ n \in 0 .. 59
  BY SettingsTypes
<1>2. Minute(l.startTime) = (h - 7) * 60 + m /\ Minute(l.endTime) = (g - 7) * 60 + n
  BY DEF Minute
<1>. HIDE DEF h, m, g, n
<1>3. /\ (h - 7) * 60 + m \in -420 .. 1019
      /\ (g - 7) * 60 + n \in -420 .. 1019
      /\ h >= 7 => (h - 7) * 60 + m >= 0
      /\ h < 7 => (h - 7) * 60 + m < 0
  BY <1>1
<1>4. l.startTime[1] = h
  BY DEF h
<1>. DEFINE from == Minute(l.startTime)  until == Minute(l.endTime)
            early == l.startTime[1]
<1>. HIDE DEF from, until, early
<1>5. /\ from \in -420 .. 1019 /\ until \in -420 .. 1019
      /\ early >= 7 => from >= 0
      /\ early < 7 => from < 0
  BY <1>2, <1>3, <1>4 DEF from, until, early
<1>. QED BY <1>5 DEF from, until, early

\* Setting a time of day keeps the UTC day of the instant.
LEMMA AtThaiTimeOf ==
  ASSUME NEW t \in Int, NEW time, time[1] \in 0 .. 23, time[2] \in 0 .. 59
  PROVE  AtThaiTime(t, time) = (t \div Day) * Day + Minute(time)
<1>. DEFINE a == time[1]  b == time[2]  d == t \div Day
<1>1. d * Day \in Int
  BY DEF Day
<1>2. AtThaiTime(t, time) = d * Day + (a - 7) * 60 + b
  BY DEF AtThaiTime, SetUTCHours
<1>3. Minute(time) = (a - 7) * 60 + b
  BY DEF Minute
<1>4. a \in Int /\ b \in Int
  OBVIOUS
<1>. HIDE DEF a, b, d
<1>5. AtThaiTime(t, time) = d * Day + Minute(time)
  BY <1>1, <1>2, <1>3, <1>4
<1>. QED BY <1>5 DEF d

\* A week of successive days has every weekday.
LEMMA Weekdays ==
  ASSUME serverZone \in Int, NEW t \in Int, NEW w \in 0 .. 6
  PROVE  /\ \A k \in 0 .. 7 : GetDay(t + k * Day) = (GetDay(t) + k) % 7
         /\ \E k \in 0 .. 6 : GetDay(t + k * Day) = w
<1>. DEFINE q == (t + serverZone) \div 1440
<1>1. serverZone \in Int
  OBVIOUS
<1>2. q \in Int
  BY <1>1
<1>3. ASSUME NEW k \in 0 .. 7
      PROVE  GetDay(t + k * Day) = (q + k + 4) % 7
  <2>1. (t + k * 1440 + serverZone) \div 1440 = q + k
    BY <1>1
  <2>. QED BY <2>1, <1>2 DEF GetDay, ServerDay, Day
<1>4. GetDay(t) = (q + 4) % 7
  BY <1>1 DEF GetDay, ServerDay, Day
<1>. HIDE DEF q
<1>5. \A k \in 0 .. 7 : (q + k + 4) % 7 = (((q + 4) % 7) + k) % 7
  BY <1>2
<1>6. \E k \in 0 .. 6 : (((q + 4) % 7) + k) % 7 = w
  <2>. DEFINE x == (q + 4) % 7
  <2>1. x \in 0 .. 6
    BY <1>2
  <2>. HIDE DEF x
  <2>2. CASE w >= x
    <3>1. w - x \in 0 .. 6 /\ (x + (w - x)) % 7 = w
      BY <2>1, <2>2
    <3>. QED BY <3>1 DEF x
  <2>3. CASE w < x
    <3>1. w - x + 7 \in 0 .. 6 /\ (x + (w - x + 7)) % 7 = w
      BY <2>1, <2>3
    <3>. QED BY <3>1 DEF x
  <2>. QED BY <2>1, <2>2, <2>3
<1>. QED BY <1>3, <1>4, <1>5, <1>6

\* The day of the first round is an allowed one, on or after the start date.
LEMMA FirstRoundDay ==
  ASSUME serverZone \in Int, NEW l \in Settings
  PROVE  /\ GetDay(FirstRound(l)) \in l.days
         /\ \E d \in Nat \ {0} : FirstRound(l) = d * Day + Minute(l.startTime)
<1>. DEFINE c == Minute(l.startTime)
            t0 == AtThaiTime(l.startDate * Day, l.startTime)
            at == CHOOSE at : at = [k \in 0 .. 7 |->
                                      IF k = 0 THEN t0 ELSE at[k - 1] + Day]
            allowed == {k \in 0 .. 7 : GetDay(at[k]) \in l.days}
            least == CHOOSE k \in allowed : \A j \in allowed : k <= j
<1>1. /\ l.startDate \in Nat \ {0} /\ l.days \subseteq 0 .. 6 /\ l.days # {}
      /\ l.startTime[1] \in 0 .. 23 /\ l.startTime[2] \in 0 .. 59
      /\ c \in -420 .. 1019
  BY SettingsTypes, MinuteRange
<1>2. t0 = l.startDate * Day + c
  <2>. DEFINE s == l.startDate  h == l.startTime[1]  m == l.startTime[2]
  <2>1. t0 = ((s * Day) \div Day) * Day + (h - 7) * 60 + m
    BY DEF AtThaiTime, SetUTCHours
  <2>2. c = (h - 7) * 60 + m
    BY DEF Minute
  <2>3. s \in Nat /\ h \in 0 .. 23 /\ m \in 0 .. 59
    BY <1>1
  <2>. HIDE DEF s, h, m, c, t0
  <2>4. (s * Day) \div Day = s
    BY <2>3 DEF Day
  <2>5. s * Day \in Int
    BY <2>3 DEF Day
  <2>6. t0 = s * Day + c
    BY <2>1, <2>2, <2>3, <2>4, <2>5
  <2>. QED BY <2>6 DEF s
<1>3. FirstRound(l) = at[least]
  BY DEF FirstRound, FirstAllowed
<1>4. t0 \in Int
  <2>1. l.startDate * Day + c \in Int
    <3>. HIDE DEF c
    <3>. QED BY <1>1 DEF Day
  <2>. QED BY <1>2, <2>1
<1>5. at = [k \in 0 .. 7 |-> IF k = 0 THEN t0 ELSE at[k - 1] + Day]
  <2>. DEFINE g == [k \in 0 .. 7 |-> t0 + k * Day]
  <2>. HIDE DEF t0
  <2>1. ASSUME NEW k \in 0 .. 7
        PROVE  t0 + k * Day = IF k = 0 THEN t0 ELSE g[k - 1] + Day
    BY <1>4 DEF Day
  <2>2. g = [k \in 0 .. 7 |-> IF k = 0 THEN t0 ELSE g[k - 1] + Day]
    BY <2>1
  <2>. QED BY <2>2
<1>. HIDE DEF at
<1>6. ASSUME NEW k \in 0 .. 7 PROVE at[k] = t0 + k * Day
  <2>. HIDE DEF t0
  <2>0. at[0] = t0
    BY <1>5
  <2>1. \A j \in 1 .. 7 : at[j] = at[j - 1] + Day
    BY <1>5
  <2>2. /\ at[1] = at[0] + Day /\ at[2] = at[1] + Day /\ at[3] = at[2] + Day
        /\ at[4] = at[3] + Day /\ at[5] = at[4] + Day /\ at[6] = at[5] + Day
        /\ at[7] = at[6] + Day
    BY <2>1
  <2>3. k \in {0, 1, 2, 3, 4, 5, 6, 7}
    OBVIOUS
  <2>. QED BY <2>0, <2>2, <2>3, <1>4 DEF Day
<1>7. allowed # {}
  <2>1. PICK w \in l.days : w \in 0 .. 6
    BY <1>1
  <2>. HIDE DEF t0
  <2>2. PICK k \in 0 .. 6 : GetDay(t0 + k * Day) = w
    BY <1>4, Weekdays, <2>1
  <2>3. k \in 0 .. 7 /\ GetDay(at[k]) \in l.days
    BY <2>2, <1>6, <2>1
  <2>. QED BY <2>3
<1>8. least \in 0 .. 7 /\ GetDay(at[least]) \in l.days
  <2>1. allowed \in SUBSET (0 .. 7)
    OBVIOUS
  <2>. HIDE DEF allowed
  <2>2. least \in allowed
    BY <1>7, <2>1, LeastBelowEight
  <2>. QED BY <2>2 DEF allowed
<1>. HIDE DEF least
<1>9. FirstRound(l) = (l.startDate + least) * Day + c
  <2>1. at[least] = t0 + least * Day
    BY <1>6, <1>8
  <2>. HIDE DEF c
  <2>. QED BY <2>1, <1>1, <1>2, <1>3, <1>8 DEF Day
<1>10. l.startDate + least \in Nat \ {0}
  BY <1>1, <1>8
<1>. QED BY <1>3, <1>8, <1>9, <1>10

\* The hours of a league set on the next day: the next day, or, before 7:00, the
\* day one came from.
LEMMA NextDayOf ==
  ASSUME NEW l \in Settings, NEW d \in Int,
         NEW t, t = d * Day + Minute(l.startTime)
  PROVE  AtThaiTime(t + Day, l.startTime) =
           IF Minute(l.startTime) >= 0 THEN t + Day ELSE t
<1>. DEFINE c == Minute(l.startTime)
            h == l.startTime[1]  m == l.startTime[2]
<1>1. AtThaiTime(t + Day, l.startTime) = ((t + Day) \div Day) * Day + (h - 7) * 60 + m
  BY DEF AtThaiTime, SetUTCHours
<1>2. c = (h - 7) * 60 + m
  BY DEF Minute
<1>3. h \in 0 .. 23 /\ m \in 0 .. 59 /\ c \in -420 .. 1019
  BY SettingsTypes, MinuteRange
<1>4. t = d * Day + c
  OBVIOUS
<1>. HIDE DEF c, h, m
<1>5. CASE c >= 0
  <2>1. (t + Day) \div Day = d + 1
    BY <1>3, <1>4, <1>5 DEF Day
  <2>2. AtThaiTime(t + Day, l.startTime) = t + Day
    BY <1>1, <1>2, <1>3, <1>4, <2>1 DEF Day
  <2>. QED BY <2>2, <1>5 DEF c
<1>6. CASE c < 0
  <2>1. (t + Day) \div Day = d
    BY <1>3, <1>4, <1>6 DEF Day
  <2>2. AtThaiTime(t + Day, l.startTime) = t
    BY <1>1, <1>2, <1>3, <1>4, <2>1 DEF Day
  <2>3. ~(c >= 0)
    BY <1>3, <1>6
  <2>. QED BY <2>2, <2>3 DEF c
<1>. QED BY <1>3, <1>5, <1>6

\* The next round is on an allowed day, a later one if rounds start at 7:00 or
\* after.
LEMMA NextRoundDay ==
  ASSUME serverZone \in Int, NEW l \in Settings, NEW d \in Nat \ {0},
         NEW t, t = d * Day + Minute(l.startTime), GetDay(t) \in l.days
  PROVE  /\ GetDay(NextRound(t, l)) \in l.days
         /\ \E e \in Nat \ {0} :
              /\ NextRound(t, l) = e * Day + Minute(l.startTime)
              /\ Minute(l.startTime) >= 0 => d < e
<1>. DEFINE c == Minute(l.startTime)
            NextDay(u) == AtThaiTime(u + Day, l.startTime)
            t0 == NextDay(t)
            at == CHOOSE at : at = [k \in 0 .. 7 |->
                                      IF k = 0 THEN t0 ELSE NextDay(at[k - 1])]
            allowed == {k \in 0 .. 7 : GetDay(at[k]) \in l.days}
            least == CHOOSE k \in allowed : \A j \in allowed : k <= j
            s == IF c >= 0 THEN Day ELSE 0
            g == [k \in 0 .. 7 |-> t0 + k * s]
<1>1. /\ l.days \subseteq 0 .. 6 /\ l.days # {}
      /\ c \in -420 .. 1019
  BY SettingsTypes, MinuteRange
<1>2. NextRound(t, l) = at[least]
  BY DEF NextRound, FirstAllowed
<1>3. t0 = t + s
  <2>1. AtThaiTime(t + Day, l.startTime) = IF c >= 0 THEN t + Day ELSE t
    BY NextDayOf
  <2>2. t \in Int
    <3>. HIDE DEF c
    <3>1. t = d * Day + c
      BY DEF c
    <3>. QED BY <1>1, <3>1 DEF Day
  <2>3. t0 = IF c >= 0 THEN t + Day ELSE t
    BY <2>1
  <2>. HIDE DEF c, t0
  <2>. QED BY <2>2, <2>3
<1>4. s \in {0, Day} /\ s \in Int
  BY DEF Day
<1>5. t = d * Day + c
  OBVIOUS
<1>6. ASSUME NEW k \in 0 .. 7
      PROVE  /\ t0 + k * s \in Int
             /\ NextDay(t0 + k * s) = t0 + (k + 1) * s
  <2>. DEFINE e == IF c >= 0 THEN d + 1 + k ELSE d
              u == t0 + k * s
  <2>1. u = e * Day + c /\ e \in Int /\ u \in Int
    <3>. HIDE DEF t0, c
    <3>1. CASE c >= 0
      BY <1>1, <1>3, <1>5, <3>1 DEF Day
    <3>2. CASE ~(c >= 0)
      BY <1>1, <1>3, <1>5, <3>2 DEF Day
    <3>. QED BY <3>1, <3>2
  <2>. HIDE DEF e, u
  <2>2. u = e * Day + Minute(l.startTime)
    BY <2>1
  <2>3. AtThaiTime(u + Day, l.startTime) = IF c >= 0 THEN u + Day ELSE u
    BY <2>1, <2>2, NextDayOf
  <2>4. NextDay(u) = u + s
    <3>. HIDE DEF c
    <3>1. NextDay(u) = IF c >= 0 THEN u + Day ELSE u
      BY <2>3
    <3>. HIDE DEF NextDay
    <3>. QED BY <3>1, <2>1
  <2>5. u + s = t0 + (k + 1) * s
    <3>1. t0 \in Int
      <4>. HIDE DEF t0, c, s
      <4>. QED BY <1>1, <1>3, <1>4, <1>5 DEF Day
    <3>. HIDE DEF t0, c
    <3>2. u = t0 + k * s
      BY DEF u
    <3>3. CASE s = 0
      <4>. HIDE DEF s
      <4>. QED BY <3>1, <3>2, <3>3
    <3>4. CASE s = Day
      <4>. HIDE DEF s
      <4>. QED BY <3>1, <3>2, <3>4 DEF Day
    <3>. QED BY <3>3, <3>4, <1>4
  <2>. HIDE DEF NextDay, t0, s
  <2>. QED BY <2>1, <2>4, <2>5 DEF u
<1>7. t0 \in Int
  <2>. HIDE DEF t0, c, s
  <2>. QED BY <1>1, <1>3, <1>4, <1>5 DEF Day
<1>8. at = [k \in 0 .. 7 |-> IF k = 0 THEN t0 ELSE NextDay(at[k - 1])]
  <2>. HIDE DEF t0, NextDay, s
  <2>1. ASSUME NEW k \in 0 .. 7
        PROVE  t0 + k * s = IF k = 0 THEN t0 ELSE NextDay(g[k - 1])
    <3>1. CASE k = 0
      BY <3>1, <1>4, <1>7
    <3>2. CASE k # 0
      <4>1. k - 1 \in 0 .. 7 /\ (k - 1) + 1 = k
        BY <3>2
      <4>2. g[k - 1] = t0 + (k - 1) * s
        BY <4>1
      <4>3. NextDay(t0 + (k - 1) * s) = t0 + ((k - 1) + 1) * s
        BY <1>6, <4>1
      <4>. QED BY <3>2, <4>1, <4>2, <4>3
    <3>. QED BY <3>1, <3>2
  <2>2. g = [k \in 0 .. 7 |-> IF k = 0 THEN t0 ELSE NextDay(g[k - 1])]
    BY <2>1
  <2>. HIDE DEF g
  <2>. QED BY <2>2
<1>. HIDE DEF at, NextDay, t0, s
<1>9. ASSUME NEW k \in 0 .. 7 PROVE at[k] = t0 + k * s
  <2>0. at[0] = t0
    BY <1>8
  <2>1. \A j \in 1 .. 7 : at[j] = NextDay(at[j - 1])
    BY <1>8
  <2>2. \A j \in 0 .. 6 : at[j] = t0 + j * s => at[j + 1] = t0 + (j + 1) * s
    <3>. SUFFICES ASSUME NEW j \in 0 .. 6, at[j] = t0 + j * s
                  PROVE  at[j + 1] = t0 + (j + 1) * s
      OBVIOUS
    <3>1. j + 1 \in 1 .. 7 /\ (j + 1) - 1 = j /\ j \in 0 .. 7
      OBVIOUS
    <3>2. at[j + 1] = NextDay(at[(j + 1) - 1])
      BY <2>1, <3>1
    <3>3. at[j + 1] = NextDay(t0 + j * s)
      BY <3>1, <3>2
    <3>. QED BY <1>6, <3>1, <3>3
  <2>3. at[0] = t0 + 0 * s
    BY <2>0, <1>4, <1>7
  <2>. DEFINE Ok(j) == at[j] = t0 + j * s
  <2>4. Ok(0) /\ \A j \in 0 .. 6 : Ok(j) => Ok(j + 1)
    BY <2>2, <2>3
  <2>. HIDE DEF Ok
  <2>5. Ok(0) /\ Ok(1) /\ Ok(2) /\ Ok(3) /\ Ok(4) /\ Ok(5) /\ Ok(6) /\ Ok(7)
    BY <2>4
  <2>6. k \in {0, 1, 2, 3, 4, 5, 6, 7}
    OBVIOUS
  <2>7. Ok(k)
    BY <2>5, <2>6
  <2>. QED BY <2>7 DEF Ok
<1>10. allowed # {}
  <2>1. CASE c >= 0
    <3>1. PICK w \in l.days : w \in 0 .. 6
      BY <1>1
    <3>2. PICK k \in 0 .. 6 : GetDay(t0 + k * Day) = w
      BY <1>7, Weekdays, <3>1
    <3>3. s = Day
      BY <2>1 DEF s
    <3>4. k \in 0 .. 7 /\ GetDay(at[k]) \in l.days
      BY <3>1, <3>2, <3>3, <1>9
    <3>. QED BY <3>4
  <2>2. CASE ~(c >= 0)
    <3>1. s = 0
      BY <2>2 DEF s
    <3>2. t0 = t /\ at[0] = t0
      <4>1. t \in Int
        <5>. HIDE DEF c
        <5>. QED BY <1>1, <1>5 DEF Day
      <4>2. 0 \in 0 .. 7 /\ 0 * s = 0
        BY <3>1
      <4>. QED BY <3>1, <1>3, <1>7, <1>9, <4>1, <4>2
    <3>3. 0 \in 0 .. 7 /\ GetDay(at[0]) \in l.days
      BY <3>2
    <3>. QED BY <3>3
  <2>. QED BY <2>1, <2>2
<1>11. least \in 0 .. 7 /\ GetDay(at[least]) \in l.days
  <2>1. allowed \in SUBSET (0 .. 7)
    OBVIOUS
  <2>. HIDE DEF allowed
  <2>2. least \in allowed
    BY <1>10, <2>1, LeastBelowEight
  <2>. QED BY <2>2 DEF allowed
<1>. HIDE DEF least
<1>12. at[least] = t0 + least * s
  BY <1>9, <1>11
<1>13. \E e \in Nat \ {0} : at[least] = e * Day + c /\ (c >= 0 => d < e)
  <2>. HIDE DEF c
  <2>1. CASE c >= 0
    <3>1. s = Day
      BY <2>1 DEF s
    <3>2. at[least] = (d + 1 + least) * Day + c
      BY <3>1, <1>1, <1>3, <1>5, <1>11, <1>12 DEF Day
    <3>3. d + 1 + least \in Nat \ {0} /\ d < d + 1 + least
      BY <1>11
    <3>. QED BY <3>2, <3>3
  <2>2. CASE ~(c >= 0)
    <3>1. s = 0
      BY <2>2 DEF s
    <3>2. at[least] = d * Day + c
      BY <3>1, <1>1, <1>3, <1>5, <1>11, <1>12 DEF Day
    <3>. QED BY <3>2, <2>2
  <2>. QED BY <2>1, <2>2
<1>. QED BY <1>2, <1>11, <1>13

-----------------------------------------------------------------------------
(* The times of the slots of a round. *)

\* The time at which a slot is over that could begin at t.
After(slot, t) == IF Played(slot) THEN KickoffAfter(t) + league.duration ELSE t

\* SlotTime satisfies the equation that defines it: a slot begins when the one
\* before it is over.
LEMMA SlotTimeUnfold ==
  ASSUME NEW h \in Nat, Slots = 1 .. h
  PROVE  SlotTime = [slot \in 1 .. h |->
                       IF slot = 1 THEN roundStartDate
                       ELSE After(slot - 1, SlotTime[slot - 1])]
<1>. DEFINE S == {n \in Nat : \E f : f = [slot \in 1 .. n |->
                                 IF slot = 1 THEN roundStartDate
                                 ELSE After(slot - 1, f[slot - 1])]}
<1>1. 0 \in S
  <2>. DEFINE f == [slot \in 1 .. 0 |-> roundStartDate]
  <2>1. f = [slot \in 1 .. 0 |-> IF slot = 1 THEN roundStartDate
                                 ELSE After(slot - 1, f[slot - 1])]
    OBVIOUS
  <2>. HIDE DEF f
  <2>. QED BY <2>1
<1>2. ASSUME NEW n \in Nat, n \in S
      PROVE  n + 1 \in S
  <2>1. PICK f : f = [slot \in 1 .. n |-> IF slot = 1 THEN roundStartDate
                                          ELSE After(slot - 1, f[slot - 1])]
    BY <1>2
  <2>. DEFINE g == [slot \in 1 .. n + 1 |-> IF slot = 1 THEN roundStartDate
                                            ELSE After(slot - 1, f[slot - 1])]
  <2>2. \A slot \in 1 .. n : g[slot] = f[slot]
    <3>. SUFFICES ASSUME NEW slot \in 1 .. n PROVE g[slot] = f[slot]
      OBVIOUS
    <3>1. slot \in 1 .. n + 1
      OBVIOUS
    <3>2. f[slot] = IF slot = 1 THEN roundStartDate
                    ELSE After(slot - 1, f[slot - 1])
      BY <2>1
    <3>. QED BY <3>1, <3>2
  <2>3. ASSUME NEW slot \in 1 .. n + 1
        PROVE  (IF slot = 1 THEN roundStartDate ELSE After(slot - 1, f[slot - 1]))
             = (IF slot = 1 THEN roundStartDate ELSE After(slot - 1, g[slot - 1]))
    <3>1. CASE slot = 1
      BY <3>1
    <3>2. CASE slot # 1
      <4>1. slot - 1 \in 1 .. n
        BY <3>2
      <4>2. f[slot - 1] = g[slot - 1]
        BY <2>2, <4>1
      <4>. QED BY <4>2
    <3>. QED BY <3>1, <3>2
  <2>4. g = [slot \in 1 .. n + 1 |-> IF slot = 1 THEN roundStartDate
                                     ELSE After(slot - 1, g[slot - 1])]
    <3>. DEFINE g2 == [slot \in 1 .. n + 1 |-> IF slot = 1 THEN roundStartDate
                                               ELSE After(slot - 1, g[slot - 1])]
    <3>1. \A slot \in 1 .. n + 1 : g[slot] = g2[slot]
      BY <2>3
    <3>. QED BY <3>1
  <2>. HIDE DEF g
  <2>5. n + 1 \in Nat
    OBVIOUS
  <2>. QED BY <2>4, <2>5
<1>. HIDE DEF S
<1>3. h \in S
  BY <1>1, <1>2, SetInduction
<1>4. PICK f : f = [slot \in 1 .. h |-> IF slot = 1 THEN roundStartDate
                                        ELSE After(slot - 1, f[slot - 1])]
  BY <1>3 DEF S
<1>. DEFINE time == CHOOSE time : time = [slot \in Slots |->
                       IF slot = 1 THEN roundStartDate
                       ELSE After(slot - 1, time[slot - 1])]
<1>5. SlotTime = time
  BY DEF SlotTime, After
<1>6. time = [slot \in Slots |-> IF slot = 1 THEN roundStartDate
                                 ELSE After(slot - 1, time[slot - 1])]
  <2>1. f = [slot \in Slots |-> IF slot = 1 THEN roundStartDate
                                ELSE After(slot - 1, f[slot - 1])]
    BY <1>4
  <2>. QED BY <2>1
<1>. HIDE DEF time
<1>. QED BY <1>5, <1>6

\* No kick-off is before the start of the day, and a later one leaves room for
\* the match.
LEMMA KickoffTimes ==
  ASSUME league \in Settings, roundStartDate \in Int, NEW h \in Nat, Slots = 1 .. h,
         NEW slot \in 1 .. h
  PROVE  LET kickoff == KickoffAfter(SlotTime[slot])
         IN  /\ kickoff \in Int
             /\ kickoff >= roundStartDate
             /\ \/ kickoff = roundStartDate
                \/ kickoff + league.duration
                     <= AtThaiTime(roundStartDate, league.endTime) + 1
<1>. DEFINE S == {n \in Nat : n + 1 \in 1 .. h =>
                    SlotTime[n + 1] \in Int /\ SlotTime[n + 1] >= roundStartDate}
            until == AtThaiTime(roundStartDate, league.endTime) + 1
            d == league.duration
<1>1. d \in Nat
  BY SettingsTypes
<1>2. until \in Int
  <2>. DEFINE a == league.endTime[1]  b == league.endTime[2]
  <2>1. a \in 0 .. 23 /\ b \in 0 .. 59
    BY SettingsTypes
  <2>. HIDE DEF a, b
  <2>2. (roundStartDate \div Day) * Day + (a - 7) * 60 + b + 1 \in Int
    BY <2>1 DEF Day
  <2>. QED BY <2>2 DEF AtThaiTime, SetUTCHours, a, b
<1>. HIDE DEF until, d
<1>3. ASSUME NEW t \in Int, t >= roundStartDate
      PROVE  LET k == KickoffAfter(t)
             IN  /\ k \in Int /\ k >= roundStartDate
                 /\ k = roundStartDate \/ k + d <= until
  <2>1. KickoffAfter(t) = IF t + d > until THEN roundStartDate ELSE t
    BY DEF KickoffAfter, until, d
  <2>. QED BY <2>1, <1>1, <1>2, <1>3
<1>4. \A i \in 1 .. h : SlotTime[i] = IF i = 1 THEN roundStartDate
                                      ELSE After(i - 1, SlotTime[i - 1])
  BY SlotTimeUnfold
<1>5. 0 \in S
  <2>1. 0 + 1 \in 1 .. h => SlotTime[0 + 1] = roundStartDate
    BY <1>4
  <2>. QED BY <2>1
<1>6. ASSUME NEW n \in Nat, n \in S
      PROVE  n + 1 \in S
  <2>. SUFFICES ASSUME (n + 1) + 1 \in 1 .. h
                PROVE  /\ SlotTime[(n + 1) + 1] \in Int
                       /\ SlotTime[(n + 1) + 1] >= roundStartDate
    OBVIOUS
  <2>. DEFINE i == n + 1  u == SlotTime[i]
  <2>1. i \in 1 .. h /\ i + 1 # 1 /\ (i + 1) - 1 = i /\ i + 1 \in 1 .. h
    OBVIOUS
  <2>2. u \in Int /\ u >= roundStartDate
    BY <1>6, <2>1
  <2>3. SlotTime[i + 1] = After(i, u)
    BY <1>4, <2>1
  <2>. HIDE DEF u
  <2>4. KickoffAfter(u) \in Int /\ KickoffAfter(u) >= roundStartDate
    BY <1>3, <2>2
  <2>5. After(i, u) = IF Played(i) THEN KickoffAfter(u) + d ELSE u
    BY DEF After, d
  <2>6. After(i, u) \in Int /\ After(i, u) >= roundStartDate
    <3>. HIDE DEF i
    <3>. QED BY <1>1, <2>2, <2>4, <2>5
  <2>. QED BY <2>3, <2>6
<1>. HIDE DEF S
<1>7. slot - 1 \in S
  <2>1. slot - 1 \in Nat
    OBVIOUS
  <2>. QED BY <1>5, <1>6, <2>1, SetInduction
<1>8. (slot - 1) + 1 = slot
  OBVIOUS
<1>9. SlotTime[slot] \in Int /\ SlotTime[slot] >= roundStartDate
  BY <1>7, <1>8 DEF S
<1>. QED BY <1>3, <1>9 DEF until, d

-----------------------------------------------------------------------------
(* The circle, for k + 1 places of which the first stands still: numbers count *)
(* the teams in the order they are found, a BYE last.                         *)

\* Numbers modulo k, of one that is at most 2k below 0 or less than 3k.
Wrap(x, k) == IF x >= 0 THEN x ELSE IF x >= -k THEN x + k ELSE x + 2 * k
Turn(x, k) == IF x < k THEN x ELSE IF x < 2 * k THEN x - k ELSE x - 2 * k

\* Who is in place i after r turns, and the place of x then.
Occupant(i, r, k) == IF i = 1 THEN 1 ELSE 2 + Wrap(i - 2 - r, k)
Place(x, r, k) == IF x = 1 THEN 1 ELSE 2 + Turn(x - 2 + r, k)

\* x and y are drawn against each other after r turns.
Faces(x, y, r, k) == Place(x, r, k) + Place(y, r, k) = k + 2

\* Every place has one occupant and every number one place.
LEMMA Placing ==
  ASSUME NEW k \in Nat, k >= 1, NEW r \in 0 .. 2 * k, NEW i \in 1 .. k + 1
  PROVE  /\ Occupant(i, r, k) \in 1 .. k + 1
         /\ Place(Occupant(i, r, k), r, k) = i
         /\ Place(i, r, k) \in 1 .. k + 1
         /\ Occupant(Place(i, r, k), r, k) = i
<1>1. i = 1 => Occupant(i, r, k) = 1 /\ Place(i, r, k) = 1
  BY DEF Occupant, Place
<1>2. ASSUME i # 1
      PROVE  /\ Occupant(i, r, k) \in 2 .. k + 1
             /\ Place(Occupant(i, r, k), r, k) = i
  <2>1. Occupant(i, r, k) = 2 + Wrap(i - 2 - r, k)
    BY <1>2 DEF Occupant
  <2>2. Wrap(i - 2 - r, k) \in 0 .. k - 1
    BY <1>2 DEF Wrap
  <2>3. Turn(Wrap(i - 2 - r, k) + r, k) = i - 2
    BY <1>2 DEF Wrap, Turn
  <2>. DEFINE w == Wrap(i - 2 - r, k)
  <2>. HIDE DEF w
  <2>4. Place(2 + w, r, k) = 2 + Turn(w + r, k)
    <3>1. 2 + w # 1 /\ (2 + w) - 2 + r = w + r
      BY <2>2 DEF w
    <3>. QED BY <3>1 DEF Place
  <2>. QED BY <2>1, <2>2, <2>3, <2>4 DEF w
<1>3. ASSUME i # 1
      PROVE  /\ Place(i, r, k) \in 2 .. k + 1
             /\ Occupant(Place(i, r, k), r, k) = i
  <2>1. Place(i, r, k) = 2 + Turn(i - 2 + r, k)
    BY <1>3 DEF Place
  <2>2. Turn(i - 2 + r, k) \in 0 .. k - 1
    BY <1>3 DEF Turn
  <2>3. Wrap(Turn(i - 2 + r, k) - r, k) = i - 2
    BY <1>3 DEF Wrap, Turn
  <2>. DEFINE w == Turn(i - 2 + r, k)
  <2>. HIDE DEF w
  <2>4. Occupant(2 + w, r, k) = 2 + Wrap(w - r, k)
    <3>1. 2 + w # 1 /\ (2 + w) - 2 - r = w - r
      BY <2>2 DEF w
    <3>. QED BY <3>1 DEF Occupant
  <2>. QED BY <2>1, <2>2, <2>3, <2>4 DEF w
<1>4. i = 1 => Occupant(1, r, k) = 1 /\ Place(1, r, k) = 1
  BY DEF Occupant, Place
<1>. QED BY <1>1, <1>2, <1>3, <1>4

\* A turn moves everybody but the first one place up, the last to the second.
LEMMA Turning ==
  ASSUME NEW k \in Nat, k >= 1, NEW r \in 0 .. 2 * k - 1, NEW i \in 1 .. k + 1
  PROVE  Occupant(i, r + 1, k) = IF i = 1 THEN Occupant(1, r, k)
                                 ELSE IF i = 2 THEN Occupant(k + 1, r, k)
                                 ELSE Occupant(i - 1, r, k)
<1>1. CASE i = 1
  BY <1>1 DEF Occupant
<1>2. CASE i = 2
  <2>1. k + 1 # 1
    OBVIOUS
  <2>2. Wrap(2 - 2 - (r + 1), k) = Wrap((k + 1) - 2 - r, k)
    BY DEF Wrap
  <2>. QED BY <1>2, <2>1, <2>2 DEF Occupant
<1>3. CASE i > 2
  <2>1. i # 1 /\ i # 2 /\ i - 1 # 1
    BY <1>3
  <2>2. i - 2 - (r + 1) = (i - 1) - 2 - r
    BY <1>3
  <2>. QED BY <2>1, <2>2 DEF Occupant
<1>. QED BY <1>1, <1>2, <1>3

\* With an odd number of places that turn, two numbers face each other once in k
\* turns.
LEMMA MeetingRounds ==
  ASSUME NEW k \in Nat, \E h \in Nat : k = 2 * h + 1,
         NEW a \in 1 .. k + 1, NEW b \in 1 .. k + 1, a < b
  PROVE  \E first \in 0 .. k - 1 :
           \A r \in 0 .. 2 * k - 1 :
             Faces(a, b, r, k) <=> r = first \/ r = first + k
<1>. PICK h \in Nat : k = 2 * h + 1
  OBVIOUS
<1>1. ASSUME NEW x \in 1 .. k + 1, NEW r \in 0 .. k - 1
      PROVE  Place(x, r + k, k) = Place(x, r, k)
  BY DEF Place, Turn
<1>2. \E first \in 0 .. k - 1 : \A r \in 0 .. k - 1 :
        Faces(a, b, r, k) <=> r = first
  <2>1. CASE a = 1
    <3>1. k + 1 - b \in 0 .. k - 1
      BY <2>1
    <3>2. \A r \in 0 .. k - 1 : Faces(a, b, r, k) <=> r = k + 1 - b
      BY <2>1 DEF Faces, Place, Turn
    <3>. QED BY <3>1, <3>2
  <2>2. CASE a # 1
    <3>. DEFINE s == a + b - 2
    <3>1. ASSUME NEW r \in 0 .. k - 1
          PROVE  Faces(a, b, r, k) <=>
                   2 * r + s = k \/ 2 * r + s = 2 * k \/ 2 * r + s = 3 * k
      BY <2>2 DEF Faces, Place, Turn
    <3>2. s \in 3 .. 2 * k - 1
      BY <2>2
    <3>. HIDE DEF s
    <3>3. PICK e \in Nat : s = 2 * e \/ s = 2 * e + 1
      <4>1. s \div 2 \in Nat /\ (s = 2 * (s \div 2) \/ s = 2 * (s \div 2) + 1)
        BY <3>2
      <4>. QED BY <4>1
    <3>4. CASE s = 2 * e
      <4>1. k - e \in 0 .. k - 1
        BY <3>2, <3>4
      <4>2. \A r \in 0 .. k - 1 : Faces(a, b, r, k) <=> r = k - e
        BY <3>1, <3>2, <3>4
      <4>. QED BY <4>1, <4>2
    <3>5. CASE s = 2 * e + 1 /\ e <= h
      <4>1. h - e \in 0 .. k - 1
        BY <3>2, <3>5
      <4>2. \A r \in 0 .. k - 1 : Faces(a, b, r, k) <=> r = h - e
        BY <3>1, <3>2, <3>5
      <4>. QED BY <4>1, <4>2
    <3>6. CASE s = 2 * e + 1 /\ e > h
      <4>1. 3 * h + 1 - e \in 0 .. k - 1
        BY <3>2, <3>6
      <4>2. \A r \in 0 .. k - 1 : Faces(a, b, r, k) <=> r = 3 * h + 1 - e
        BY <3>1, <3>2, <3>6
      <4>. QED BY <4>1, <4>2
    <3>. QED BY <3>3, <3>4, <3>5, <3>6
  <2>. QED BY <2>1, <2>2
<1>3. PICK first \in 0 .. k - 1 : \A r \in 0 .. k - 1 :
        Faces(a, b, r, k) <=> r = first
  BY <1>2
<1>4. ASSUME NEW r \in 0 .. 2 * k - 1
      PROVE  Faces(a, b, r, k) <=> r = first \/ r = first + k
  <2>1. CASE r < k
    <3>1. r \in 0 .. k - 1 /\ r # first + k
      BY <2>1
    <3>. QED BY <1>3, <3>1
  <2>2. CASE r >= k
    <3>. DEFINE q == r - k
    <3>1. q \in 0 .. k - 1 /\ r = q + k /\ r # first
      BY <2>2
    <3>. HIDE DEF q
    <3>2. Place(a, r, k) = Place(a, q, k) /\ Place(b, r, k) = Place(b, q, k)
      BY <1>1, <3>1
    <3>3. Faces(a, b, r, k) <=> Faces(a, b, q, k)
      BY <3>2 DEF Faces
    <3>4. Faces(a, b, q, k) <=> q = first
      BY <1>3, <3>1
    <3>. QED BY <3>1, <3>3, <3>4
  <2>. QED BY <2>1, <2>2
<1>. QED BY <1>4

-----------------------------------------------------------------------------
(* The inductive invariant of the types, the circle and the clock.            *)

Places == league.teams + (league.teams % 2)
Label(x) == IF x <= league.teams THEN x ELSE BYE

\* After round turns the circle holds the occupants of its places.
Circled ==
  /\ league \in Settings
  /\ round \in 0 .. NumRounds
  /\ Len(teamIds) = Places
  /\ teamIds = [i \in 1 .. Places |-> Label(Occupant(i, round, Places - 1))]

\* The next round starts at the hour of the league, on an allowed day.
Clock ==
  /\ serverZone \in ServerZones
  /\ GetDay(roundStartDate) \in league.days
  /\ \E d \in Nat \ {0} : roundStartDate = d * Day + Minute(league.startTime)

Fixture(x) ==
  /\ x.home \in 1 .. league.teams
  /\ x.away \in 1 .. league.teams
  /\ x.round \in 0 .. round - 1
  /\ x.matchDate \in Nat

Fixed == \A x \in matchesToCreate : Fixture(x)

TypeInv == Circled /\ Clock /\ Fixed

\* A function on 1 .. n is a sequence of length n.
LEMMA LenOfFunction ==
  ASSUME NEW n \in Nat, NEW S, NEW f \in [1 .. n -> S]
  PROVE  Len(f) = n
<1>1. f \in Seq(S) /\ DOMAIN f = 1 .. n
  BY SeqDef
<1>2. Len(f) \in Nat /\ DOMAIN f = 1 .. Len(f)
  BY <1>1, LenProperties
<1>. QED BY <1>1, <1>2

\* The number of places is even, and that of the places that turn odd.
LEMMA PlacesEven ==
  ASSUME league \in Settings
  PROVE  \E h \in Nat \ {0} :
           /\ Places = 2 * h
           /\ Places - 1 = 2 * (h - 1) + 1
           /\ league.teams \in {Places - 1, Places}
           /\ league.teams % 2 = 1 <=> league.teams = Places - 1
<1>. DEFINE n == league.teams
<1>1. n \in Nat /\ n >= 2
  BY SettingsTypes
<1>. HIDE DEF n
<1>2. n % 2 \in {0, 1} /\ (n + (n % 2)) % 2 = 0
  BY <1>1
<1>3. n = 2 * (n \div 2) + (n % 2) /\ n \div 2 \in Nat
  BY <1>1
<1>. DEFINE h == (n \div 2) + (n % 2)
<1>4. h \in Nat \ {0} /\ n + (n % 2) = 2 * h
  BY <1>1, <1>2, <1>3
<1>. HIDE DEF h
<1>5. /\ n + (n % 2) - 1 = 2 * (h - 1) + 1
      /\ n \in {n + (n % 2) - 1, n + (n % 2)}
      /\ n % 2 = 1 <=> n = n + (n % 2) - 1
  BY <1>1, <1>2, <1>4
<1>. QED BY <1>4, <1>5 DEF Places, n

\* What the circle says of the rounds and the slots.
LEMMA Shape ==
  ASSUME Circled
  PROVE  \E h \in Nat \ {0}, k \in Nat :
           /\ k = 2 * (h - 1) + 1 /\ k >= 1
           /\ k = Places - 1 /\ Places = 2 * h /\ Len(teamIds) = 2 * h
           /\ league.teams \in {k, k + 1}
           /\ league.teams % 2 = 1 <=> league.teams = k
           /\ NumRounds = IF league.format = "DOUBLE" THEN 2 * k ELSE k
           /\ round \in 0 .. 2 * k
           /\ round < NumRounds => round \in 0 .. 2 * k - 1
           /\ Slots = 1 .. h
           /\ teamIds = [i \in 1 .. k + 1 |-> Label(Occupant(i, round, k))]
<1>1. PICK h \in Nat \ {0} :
           /\ Places = 2 * h
           /\ Places - 1 = 2 * (h - 1) + 1
           /\ league.teams \in {Places - 1, Places}
           /\ league.teams % 2 = 1 <=> league.teams = Places - 1
  BY PlacesEven DEF Circled
<1>. DEFINE k == Places - 1
<1>2. k \in Nat /\ k >= 1 /\ Places = k + 1
  BY <1>1
<1>3. Slots = 1 .. h
  <2>1. (2 * h) \div 2 = h
    OBVIOUS
  <2>. QED BY <1>1, <2>1 DEF Slots, Circled
<1>4. NumRounds = IF league.format = "DOUBLE" THEN 2 * k ELSE k
  BY <1>1, <1>2 DEF NumRounds, Circled
<1>5. round \in 0 .. 2 * k /\ (round < NumRounds => round \in 0 .. 2 * k - 1)
  <2>1. round \in 0 .. NumRounds
    BY DEF Circled
  <2>. HIDE DEF k
  <2>. QED BY <1>2, <1>4, <2>1
<1>6. teamIds = [i \in 1 .. k + 1 |-> Label(Occupant(i, round, k))]
  BY <1>2 DEF Circled
<1>. HIDE DEF k
<1>7. /\ k = 2 * (h - 1) + 1
      /\ league.teams \in {k, k + 1}
      /\ league.teams % 2 = 1 <=> league.teams = k
  BY <1>1, <1>2 DEF k
<1>8. k = Places - 1 /\ Places = 2 * h /\ Len(teamIds) = 2 * h
  BY <1>1 DEF Circled, k
<1>. QED BY <1>2, <1>3, <1>4, <1>5, <1>6, <1>7, <1>8

\* Teams are in the places, or the BYE.
LEMMA LabelType ==
  ASSUME league \in Settings, NEW x \in Nat \ {0}
  PROVE  /\ Label(x) \in 0 .. league.teams
         /\ Label(x) # BYE <=> x \in 1 .. league.teams
         /\ Label(x) # BYE => Label(x) = x
<1>1. league.teams \in Nat
  BY SettingsTypes
<1>. QED BY <1>1 DEF Label, BYE

LEMMA InitTypeInv == Init => TypeInv
<1>. SUFFICES ASSUME Init PROVE TypeInv
  OBVIOUS
<1>. USE DEF Init
<1>1. league \in Settings /\ league.teams \in Nat /\ league.teams >= 2
  BY SettingsTypes
<1>2. PICK h \in Nat \ {0} :
           /\ Places = 2 * h
           /\ Places - 1 = 2 * (h - 1) + 1
           /\ league.teams \in {Places - 1, Places}
  BY <1>1, PlacesEven
<1>3. ASSUME NEW i \in 1 .. Places
      PROVE  (IF i <= league.teams THEN i ELSE BYE) = Label(Occupant(i, 0, Places - 1))
  <2>1. Occupant(i, 0, Places - 1) = i
    BY <1>2 DEF Occupant, Wrap
  <2>. QED BY <2>1 DEF Label
<1>4. teamIds = [i \in 1 .. Places |-> Label(Occupant(i, 0, Places - 1))]
  BY <1>3 DEF Circle, Places
<1>5. Len(teamIds) = Places
  <2>1. \A i \in 1 .. Places : Label(Occupant(i, 0, Places - 1)) \in 0 .. league.teams
    BY <1>1, <1>2, <1>3 DEF BYE
  <2>2. teamIds \in [1 .. Places -> 0 .. league.teams]
    BY <1>4, <2>1
  <2>3. Places \in Nat
    BY <1>2
  <2>. QED BY <2>2, <2>3, LenOfFunction
<1>6. Circled
  <2>1. round \in 0 .. NumRounds
    BY <1>2, <1>5 DEF NumRounds
  <2>. QED BY <1>1, <1>4, <1>5, <2>1 DEF Circled
<1>7. Clock
  <2>1. serverZone \in Int
    BY FixturesAssumption
  <2>. QED BY <1>1, <2>1, FirstRoundDay DEF Clock
<1>8. Fixed
  BY DEF Fixed
<1>. QED BY <1>6, <1>7, <1>8 DEF TypeInv

LEMMA ClockType ==
  ASSUME league \in Settings, Clock
  PROVE  roundStartDate \in Nat
<1>1. PICK d \in Nat \ {0} : roundStartDate = d * Day + Minute(league.startTime)
  BY DEF Clock
<1>. DEFINE c == Minute(league.startTime)
<1>2. c \in -420 .. 1019
  BY MinuteRange
<1>. HIDE DEF c
<1>3. d * Day + c \in Nat
  BY <1>2 DEF Day
<1>. QED BY <1>1, <1>3 DEF c

\* The fixture of a slot that is played.
Drawn(slot) ==
  [round |-> round, home |-> HomeIn(slot), away |-> AwayIn(slot),
   matchDate |-> KickoffAfter(SlotTime[slot])]

\* The occupants of the two places of a slot, who play if both are teams.
LEMMA SlotOccupants ==
  ASSUME Circled, NEW h \in Nat \ {0}, NEW k, k = 2 * (h - 1) + 1,
         Len(teamIds) = 2 * h,
         teamIds = [i \in 1 .. k + 1 |-> Label(Occupant(i, round, k))],
         round \in 0 .. 2 * k,
         NEW slot \in 1 .. h
  PROVE  /\ HomeIn(slot) = Label(Occupant(slot, round, k))
         /\ AwayIn(slot) = Label(Occupant(k + 2 - slot, round, k))
         /\ Occupant(slot, round, k) \in 1 .. k + 1
         /\ Occupant(k + 2 - slot, round, k) \in 1 .. k + 1
         /\ Played(slot) <=> /\ Occupant(slot, round, k) \in 1 .. league.teams
                             /\ Occupant(k + 2 - slot, round, k) \in 1 .. league.teams
         /\ Played(slot) => /\ HomeIn(slot) = Occupant(slot, round, k)
                            /\ AwayIn(slot) = Occupant(k + 2 - slot, round, k)
<1>1. /\ slot \in 1 .. k + 1 /\ k + 2 - slot \in 1 .. k + 1
      /\ 2 * h + 1 - slot = k + 2 - slot
      /\ k \in Nat /\ k >= 1
  OBVIOUS
<1>2. HomeIn(slot) = Label(Occupant(slot, round, k))
  BY <1>1 DEF HomeIn
<1>3. AwayIn(slot) = Label(Occupant(k + 2 - slot, round, k))
  <2>1. AwayIn(slot) = teamIds[k + 2 - slot]
    BY <1>1 DEF AwayIn
  <2>. QED BY <1>1, <2>1
<1>. DEFINE x == Occupant(slot, round, k)  y == Occupant(k + 2 - slot, round, k)
<1>4. x \in 1 .. k + 1
  BY <1>1, Placing
<1>5. y \in 1 .. k + 1
  <2>. DEFINE j == k + 2 - slot
  <2>1. j \in 1 .. k + 1
    BY <1>1
  <2>. HIDE DEF j
  <2>2. Occupant(j, round, k) \in 1 .. k + 1
    BY <1>1, <2>1, Placing
  <2>. QED BY <2>2 DEF j
<1>. HIDE DEF x, y
<1>6. league \in Settings
  BY DEF Circled
<1>7. x \in Nat \ {0} /\ y \in Nat \ {0}
  BY <1>1, <1>4, <1>5
<1>8. Played(slot) <=> x \in 1 .. league.teams /\ y \in 1 .. league.teams
  <2>1. Played(slot) <=> Label(x) # BYE /\ Label(y) # BYE
    BY <1>2, <1>3 DEF Played, x, y
  <2>. QED BY <2>1, <1>6, <1>7, LabelType
<1>9. Played(slot) => HomeIn(slot) = x /\ AwayIn(slot) = y
  <2>1. Played(slot) => Label(x) # BYE /\ Label(y) # BYE
    BY <1>2, <1>3 DEF Played, x, y
  <2>2. HomeIn(slot) = Label(x) /\ AwayIn(slot) = Label(y)
    BY <1>2, <1>3 DEF x, y
  <2>. QED BY <2>1, <2>2, <1>6, <1>7, LabelType
<1>. QED BY <1>2, <1>3, <1>4, <1>5, <1>8, <1>9 DEF x, y

\* A fixture that is drawn has two teams and a date.
LEMMA DrawnType ==
  ASSUME Circled, Clock, NEW slot \in Slots, Played(slot)
  PROVE  /\ Drawn(slot).home \in 1 .. league.teams
         /\ Drawn(slot).away \in 1 .. league.teams
         /\ Drawn(slot).round = round
         /\ Drawn(slot).matchDate \in Nat
<1>1. PICK h \in Nat \ {0}, k \in Nat :
           /\ k = 2 * (h - 1) + 1 /\ k >= 1
           /\ Len(teamIds) = 2 * h
           /\ round \in 0 .. 2 * k
           /\ Slots = 1 .. h
           /\ teamIds = [i \in 1 .. k + 1 |-> Label(Occupant(i, round, k))]
  BY Shape
<1>2. slot \in 1 .. h
  BY <1>1
<1>3. HomeIn(slot) \in 1 .. league.teams /\ AwayIn(slot) \in 1 .. league.teams
  <2>1. /\ Occupant(slot, round, k) \in 1 .. league.teams
        /\ Occupant(k + 2 - slot, round, k) \in 1 .. league.teams
        /\ HomeIn(slot) = Occupant(slot, round, k)
        /\ AwayIn(slot) = Occupant(k + 2 - slot, round, k)
    BY <1>1, <1>2, SlotOccupants
  <2>. QED BY <2>1
<1>4. KickoffAfter(SlotTime[slot]) \in Nat
  <2>1. roundStartDate \in Nat /\ league \in Settings
    BY ClockType DEF Circled
  <2>2. h \in Nat /\ roundStartDate \in Int
    BY <2>1
  <2>3. /\ KickoffAfter(SlotTime[slot]) \in Int
        /\ KickoffAfter(SlotTime[slot]) >= roundStartDate
    BY <1>1, <1>2, <2>1, <2>2, KickoffTimes
  <2>. QED BY <2>1, <2>3
<1>. QED BY <1>3, <1>4 DEF Drawn

\* Making a round keeps the types, the circle and the clock.
LEMMA NextTypeInv == TypeInv /\ [Next]_vars => TypeInv'
<1>. SUFFICES ASSUME TypeInv, [Next]_vars PROVE TypeInv'
  OBVIOUS
<1>1. Circled /\ Clock /\ Fixed
  BY DEF TypeInv
<1>2. CASE UNCHANGED vars
  <2>. USE <1>2 DEF vars
  <2>1. Circled'
    BY <1>1 DEF Circled, NumRounds, Places, Label
  <2>2. Clock'
    BY <1>1 DEF Clock, GetDay, ServerDay
  <2>3. Fixed'
    BY <1>1 DEF Fixed, Fixture
  <2>. QED BY <2>1, <2>2, <2>3 DEF TypeInv
<1>3. CASE MakeRound
  <2>. USE <1>3
  <2>1. PICK h \in Nat \ {0}, k \in Nat :
           /\ k = 2 * (h - 1) + 1 /\ k >= 1
           /\ k = Places - 1 /\ Places = 2 * h /\ Len(teamIds) = 2 * h
           /\ round < NumRounds => round \in 0 .. 2 * k - 1
           /\ teamIds = [i \in 1 .. k + 1 |-> Label(Occupant(i, round, k))]
    BY <1>1, Shape
  <2>2. /\ round \in 0 .. 2 * k - 1 /\ round' = round + 1
        /\ league' = league /\ serverZone' = serverZone
    BY <2>1 DEF MakeRound
  <2>3. Places' = Places
    BY <2>2 DEF Places
  <2>4. Circled'
    <3>1. teamIds' = [i \in 1 .. 2 * h |->
                        IF i = 1 THEN teamIds[1]
                        ELSE IF i = 2 THEN teamIds[2 * h] ELSE teamIds[i - 1]]
      BY <2>1 DEF MakeRound, Rotate
    <3>2. ASSUME NEW i \in 1 .. 2 * h
          PROVE  (IF i = 1 THEN teamIds[1]
                  ELSE IF i = 2 THEN teamIds[2 * h] ELSE teamIds[i - 1])
                 = Label(Occupant(i, round + 1, k))
      <4>1. Occupant(i, round + 1, k) =
              IF i = 1 THEN Occupant(1, round, k)
              ELSE IF i = 2 THEN Occupant(k + 1, round, k)
              ELSE Occupant(i - 1, round, k)
        <5>1. i \in 1 .. k + 1
          BY <2>1
        <5>. QED BY <5>1, <2>1, <2>2, Turning
      <4>2. \A j \in 1 .. k + 1 : teamIds[j] = Label(Occupant(j, round, k))
        BY <2>1
      <4>3. 1 \in 1 .. k + 1 /\ k + 1 \in 1 .. k + 1 /\ 2 * h = k + 1
        BY <2>1
      <4>4. i # 1 /\ i # 2 => i - 1 \in 1 .. k + 1
        BY <2>1
      <4>5. CASE i = 1
        BY <4>1, <4>2, <4>3, <4>5
      <4>6. CASE i = 2
        BY <4>1, <4>2, <4>3, <4>6
      <4>7. CASE i # 1 /\ i # 2
        BY <4>1, <4>2, <4>4, <4>7
      <4>. QED BY <4>5, <4>6, <4>7
    <3>3. teamIds' = [i \in 1 .. 2 * h |-> Label(Occupant(i, round + 1, k))]
      BY <3>1, <3>2
    <3>4. Len(teamIds') = 2 * h
      <4>1. \A i \in 1 .. 2 * h : Label(Occupant(i, round + 1, k)) \in 0 .. league.teams
        <5>. SUFFICES ASSUME NEW i \in 1 .. 2 * h
                      PROVE  Label(Occupant(i, round + 1, k)) \in 0 .. league.teams
          OBVIOUS
        <5>1. i \in 1 .. k + 1 /\ round + 1 \in 0 .. 2 * k
          BY <2>1, <2>2
        <5>2. Occupant(i, round + 1, k) \in 1 .. k + 1
          BY <5>1, <2>1, Placing
        <5>3. Occupant(i, round + 1, k) \in Nat \ {0}
          BY <5>2
        <5>. QED BY <5>3, <1>1, LabelType DEF Circled
      <4>2. teamIds' \in [1 .. 2 * h -> 0 .. league.teams]
        BY <3>3, <4>1
      <4>3. 2 * h \in Nat
        OBVIOUS
      <4>. QED BY <4>2, <4>3, LenOfFunction
    <3>5. round' \in 0 .. NumRounds'
      <4>1. NumRounds' = NumRounds
        BY <2>1, <2>2, <3>4 DEF NumRounds
      <4>2. round \in 0 .. NumRounds /\ round < NumRounds
        BY <1>1 DEF Circled, MakeRound
      <4>3. NumRounds \in Int
        BY <2>1 DEF NumRounds
      <4>. QED BY <2>2, <4>1, <4>2, <4>3
    <3>6. [i \in 1 .. Places |-> Label(Occupant(i, round, Places - 1))]'
            = [i \in 1 .. 2 * h |-> Label(Occupant(i, round + 1, k))]
      <4>1. Places' = 2 * h /\ Places' - 1 = k
        BY <2>1, <2>3
      <4>. QED BY <2>2, <4>1 DEF Label
    <3>7. league' \in Settings
      BY <1>1, <2>2 DEF Circled
    <3>. QED BY <2>1, <2>3, <3>3, <3>4, <3>5, <3>6, <3>7 DEF Circled
  <2>5. Clock'
    <3>1. PICK d \in Nat \ {0} :
            roundStartDate = d * Day + Minute(league.startTime)
      BY <1>1 DEF Clock
    <3>2. roundStartDate' = NextRound(roundStartDate, league)
      BY DEF MakeRound
    <3>3. /\ league \in Settings /\ GetDay(roundStartDate) \in league.days
          /\ serverZone \in ServerZones /\ serverZone \in Int
      BY <1>1, FixturesAssumption DEF Circled, Clock
    <3>4. /\ GetDay(NextRound(roundStartDate, league)) \in league.days
          /\ \E e \in Nat \ {0} : NextRound(roundStartDate, league)
                                    = e * Day + Minute(league.startTime)
      BY <3>1, <3>3, NextRoundDay
    <3>5. GetDay(roundStartDate)' \in league'.days
      BY <2>2, <3>2, <3>4 DEF GetDay, ServerDay
    <3>. QED BY <2>2, <3>2, <3>3, <3>4, <3>5 DEF Clock, GetDay, ServerDay
  <2>6. Fixed'
    <3>. SUFFICES ASSUME NEW x \in matchesToCreate' PROVE Fixture(x)'
      BY DEF Fixed
    <3>1. CASE x \in matchesToCreate
      <4>1. Fixture(x)
        BY <1>1, <3>1 DEF Fixed
      <4>. QED BY <4>1, <2>2 DEF Fixture
    <3>2. CASE x \notin matchesToCreate
      <4>1. PICK slot \in Slots : Played(slot) /\ x = Drawn(slot)
        BY <3>2 DEF MakeRound, Drawn
      <4>2. /\ x.home \in 1 .. league.teams
            /\ x.away \in 1 .. league.teams
            /\ x.round = round
            /\ x.matchDate \in Nat
        BY <4>1, <1>1, DrawnType
      <4>3. x.round \in 0 .. round' - 1
        BY <2>1, <2>2, <4>2
      <4>. QED BY <2>2, <4>2, <4>3 DEF Fixture
    <3>. QED BY <3>1, <3>2
  <2>. QED BY <2>4, <2>5, <2>6 DEF TypeInv
<1>. QED BY <1>2, <1>3 DEF Next, Finished

\* The circle keeps its teams, and every fixture that is made has two teams of
\* the league, a round that was made and a date, in every state.
THEOREM FixturesTypeCorrect == Spec => []TypeOK
<1>1. TypeInv => TypeOK
  <2>. SUFFICES ASSUME TypeInv PROVE TypeOK
    OBVIOUS
  <2>1. Circled /\ Clock /\ Fixed
    BY DEF TypeInv
  <2>2. PICK h \in Nat \ {0}, k \in Nat :
           /\ k = 2 * (h - 1) + 1 /\ k >= 1
           /\ Len(teamIds) = 2 * h
           /\ round \in 0 .. 2 * k
           /\ teamIds = [i \in 1 .. k + 1 |-> Label(Occupant(i, round, k))]
    BY <2>1, Shape
  <2>3. league \in Settings /\ round \in 0 .. NumRounds
    BY <2>1 DEF Circled
  <2>4. teamIds \in [1 .. Len(teamIds) -> 0 .. league.teams]
    <3>1. ASSUME NEW i \in 1 .. k + 1
          PROVE  Label(Occupant(i, round, k)) \in 0 .. league.teams
      <4>1. Occupant(i, round, k) \in 1 .. k + 1
        BY <2>2, Placing
      <4>2. Occupant(i, round, k) \in Nat \ {0}
        BY <4>1
      <4>. QED BY <4>2, <2>3, LabelType
    <3>2. Len(teamIds) = k + 1
      BY <2>2
    <3>. QED BY <2>2, <3>1, <3>2
  <2>5. roundStartDate \in Nat /\ serverZone \in ServerZones
    BY <2>1, <2>3, ClockType DEF Clock
  <2>. QED BY <2>1, <2>3, <2>4, <2>5 DEF TypeOK, Fixed, Fixture
<1>. QED BY <1>1, InitTypeInv, NextTypeInv, PTL DEF Spec

-----------------------------------------------------------------------------
(* Who plays whom.                                                            *)

Opponents(a, b, r) == Faces(a, b, r, Places - 1)

\* The fixtures made so far are those of teams that faced each other, one for each
\* of these pairs, and no two of a round share a team.
PairsFaced ==
  \A x \in matchesToCreate : x.home # x.away /\ Opponents(x.home, x.away, x.round)

FacedPlayed ==
  \A r \in 0 .. round - 1 : \A a, b \in 1 .. league.teams :
    a # b /\ Opponents(a, b, r) =>
      \E x \in matchesToCreate : x.round = r /\ {x.home, x.away} = {a, b}

NoneTwice ==
  \A x, y \in matchesToCreate :
    x.round = y.round /\ {x.home, x.away} \cap {y.home, y.away} # {} => x = y

Drawings == PairsFaced /\ FacedPlayed /\ NoneTwice

\* The places of the two teams of a slot that is played.
LEMMA DrawnPlaces ==
  ASSUME Circled, NEW h \in Nat \ {0}, NEW k \in Nat, k = 2 * (h - 1) + 1, k >= 1,
         Len(teamIds) = 2 * h, round \in 0 .. 2 * k,
         teamIds = [i \in 1 .. k + 1 |-> Label(Occupant(i, round, k))],
         NEW slot \in 1 .. h, Played(slot)
  PROVE  /\ Place(HomeIn(slot), round, k) = slot
         /\ Place(AwayIn(slot), round, k) = k + 2 - slot
<1>1. /\ HomeIn(slot) = Occupant(slot, round, k)
      /\ AwayIn(slot) = Occupant(k + 2 - slot, round, k)
  BY SlotOccupants
<1>. DEFINE i == k + 2 - slot
<1>2. slot \in 1 .. k + 1 /\ i \in 1 .. k + 1
  OBVIOUS
<1>. HIDE DEF i
<1>3. Place(Occupant(slot, round, k), round, k) = slot
  BY <1>2, Placing
<1>4. Place(Occupant(i, round, k), round, k) = i
  BY <1>2, Placing
<1>. QED BY <1>1, <1>3, <1>4 DEF i

\* Two teams that face each other are drawn in a slot.
LEMMA FacingDrawn ==
  ASSUME Circled, NEW h \in Nat \ {0}, NEW k \in Nat, k = 2 * (h - 1) + 1, k >= 1,
         Len(teamIds) = 2 * h, round \in 0 .. 2 * k,
         teamIds = [i \in 1 .. k + 1 |-> Label(Occupant(i, round, k))],
         league.teams \in {k, k + 1},
         NEW a \in 1 .. league.teams, NEW b \in 1 .. league.teams,
         Faces(a, b, round, k)
  PROVE  \E slot \in 1 .. h :
           /\ Played(slot)
           /\ \/ HomeIn(slot) = a /\ AwayIn(slot) = b
              \/ HomeIn(slot) = b /\ AwayIn(slot) = a
<1>1. a \in 1 .. k + 1 /\ b \in 1 .. k + 1
  OBVIOUS
<1>. DEFINE p == Place(a, round, k)  q == Place(b, round, k)
<1>2. /\ p \in 1 .. k + 1 /\ Occupant(p, round, k) = a
      /\ q \in 1 .. k + 1 /\ Occupant(q, round, k) = b
  BY <1>1, Placing
<1>3. p + q = k + 2
  BY DEF Faces
<1>. HIDE DEF p, q
<1>4. CASE p <= h
  <2>1. p \in 1 .. h /\ k + 2 - p = q
    BY <1>2, <1>3, <1>4
  <2>2. /\ Played(p) <=> /\ Occupant(p, round, k) \in 1 .. league.teams
                         /\ Occupant(k + 2 - p, round, k) \in 1 .. league.teams
        /\ Played(p) => /\ HomeIn(p) = Occupant(p, round, k)
                        /\ AwayIn(p) = Occupant(k + 2 - p, round, k)
    BY <2>1, SlotOccupants
  <2>3. Played(p) /\ HomeIn(p) = a /\ AwayIn(p) = b
    BY <2>1, <2>2, <1>2
  <2>. QED BY <2>1, <2>3
<1>5. CASE p > h
  <2>1. q \in 1 .. h /\ k + 2 - q = p
    BY <1>2, <1>3, <1>5
  <2>2. /\ Played(q) <=> /\ Occupant(q, round, k) \in 1 .. league.teams
                         /\ Occupant(k + 2 - q, round, k) \in 1 .. league.teams
        /\ Played(q) => /\ HomeIn(q) = Occupant(q, round, k)
                        /\ AwayIn(q) = Occupant(k + 2 - q, round, k)
    BY <2>1, SlotOccupants
  <2>3. Played(q) /\ HomeIn(q) = b /\ AwayIn(q) = a
    BY <2>1, <2>2, <1>2
  <2>. QED BY <2>1, <2>3
<1>6. p <= h \/ p > h
  BY <1>2
<1>. QED BY <1>4, <1>5, <1>6

LEMMA InitDrawings == Init => Drawings
<1>. SUFFICES ASSUME Init PROVE Drawings
  OBVIOUS
<1>1. round = 0 /\ matchesToCreate = {}
  BY DEF Init
<1>. QED BY <1>1 DEF Drawings, PairsFaced, FacedPlayed, NoneTwice

\* A round draws each pair that faces each other, and nobody twice.
LEMMA NextDrawings == TypeInv /\ Drawings /\ [Next]_vars => Drawings'
<1>. SUFFICES ASSUME TypeInv, Drawings, [Next]_vars PROVE Drawings'
  OBVIOUS
<1>1. /\ Circled /\ Clock /\ Fixed
      /\ PairsFaced /\ FacedPlayed /\ NoneTwice
  BY DEF TypeInv, Drawings
<1>2. CASE UNCHANGED vars
  <2>. USE <1>2 DEF vars
  <2>1. PairsFaced'
    BY <1>1 DEF PairsFaced, Opponents, Places
  <2>2. FacedPlayed'
    <3>1. /\ Places' = Places /\ round' = round /\ league' = league
          /\ matchesToCreate' = matchesToCreate
      BY DEF Places
    <3>. SUFFICES ASSUME NEW r \in 0 .. round - 1,
                         NEW a \in 1 .. league.teams, NEW b \in 1 .. league.teams,
                         a # b, Faces(a, b, r, Places - 1)
                  PROVE  \E x \in matchesToCreate :
                           x.round = r /\ {x.home, x.away} = {a, b}
      BY <3>1 DEF FacedPlayed, Opponents
    <3>. QED BY <1>1 DEF FacedPlayed, Opponents
  <2>3. NoneTwice'
    BY <1>1 DEF NoneTwice
  <2>. QED BY <2>1, <2>2, <2>3 DEF Drawings
<1>3. CASE MakeRound
  <2>1. PICK h \in Nat \ {0}, k \in Nat :
           /\ k = 2 * (h - 1) + 1 /\ k >= 1
           /\ k = Places - 1 /\ Places = 2 * h /\ Len(teamIds) = 2 * h
           /\ league.teams \in {k, k + 1}
           /\ round < NumRounds => round \in 0 .. 2 * k - 1
           /\ Slots = 1 .. h
           /\ teamIds = [i \in 1 .. k + 1 |-> Label(Occupant(i, round, k))]
    BY <1>1, Shape
  <2>2. round \in 0 .. 2 * k /\ round' = round + 1 /\ league' = league
    BY <1>3, <2>1 DEF MakeRound
  <2>3. Places' - 1 = k /\ Places - 1 = k
    BY <2>1, <2>2 DEF Places
  <2>4. matchesToCreate' = matchesToCreate \cup {Drawn(slot) : slot \in {s \in Slots : Played(s)}}
    BY <1>3 DEF MakeRound, Drawn
  <2>5. \A x \in matchesToCreate : /\ x.round \in 0 .. round - 1
                                   /\ x.home \in 1 .. league.teams
                                   /\ x.away \in 1 .. league.teams
    BY <1>1 DEF Fixed, Fixture
  <2>6. ASSUME NEW slot \in Slots, Played(slot)
        PROVE  /\ Drawn(slot).round = round
               /\ Drawn(slot).home = HomeIn(slot) /\ Drawn(slot).away = AwayIn(slot)
               /\ Place(HomeIn(slot), round, k) = slot
               /\ Place(AwayIn(slot), round, k) = k + 2 - slot
               /\ slot \in 1 .. h
    <3>1. slot \in 1 .. h
      BY <2>1
    <3>2. /\ Place(HomeIn(slot), round, k) = slot
          /\ Place(AwayIn(slot), round, k) = k + 2 - slot
      BY <3>1, <2>1, <2>2, <2>6, <1>1, DrawnPlaces
    <3>. QED BY <3>1, <3>2 DEF Drawn
  <2>7. PairsFaced'
    <3>. SUFFICES ASSUME NEW x \in matchesToCreate'
                  PROVE  x.home # x.away /\ Faces(x.home, x.away, x.round, k)
      BY <2>3 DEF PairsFaced, Opponents
    <3>1. CASE x \in matchesToCreate
      BY <3>1, <1>1, <2>3 DEF PairsFaced, Opponents
    <3>2. CASE x \notin matchesToCreate
      <4>1. PICK slot \in Slots : Played(slot) /\ x = Drawn(slot)
        BY <2>4, <3>2
      <4>2. /\ x.round = round /\ slot \in 1 .. h
            /\ Place(x.home, round, k) = slot
            /\ Place(x.away, round, k) = k + 2 - slot
        BY <2>6, <4>1
      <4>3. slot # k + 2 - slot /\ slot + (k + 2 - slot) = k + 2
        BY <2>1, <4>2
      <4>. QED BY <4>2, <4>3 DEF Faces
    <3>. QED BY <3>1, <3>2
  <2>8. FacedPlayed'
    <3>. SUFFICES ASSUME NEW r \in 0 .. round' - 1,
                         NEW a \in 1 .. league.teams, NEW b \in 1 .. league.teams,
                         a # b, Faces(a, b, r, k)
                  PROVE  \E x \in matchesToCreate' :
                           x.round = r /\ {x.home, x.away} = {a, b}
      BY <2>2, <2>3 DEF FacedPlayed, Opponents
    <3>1. CASE r < round
      <4>1. r \in 0 .. round - 1
        BY <3>1, <2>2
      <4>2. \E x \in matchesToCreate : x.round = r /\ {x.home, x.away} = {a, b}
        BY <4>1, <1>1, <2>3 DEF FacedPlayed, Opponents
      <4>. QED BY <4>2, <2>4
    <3>2. CASE r = round
      <4>1. PICK slot \in 1 .. h :
              /\ Played(slot)
              /\ \/ HomeIn(slot) = a /\ AwayIn(slot) = b
                 \/ HomeIn(slot) = b /\ AwayIn(slot) = a
        <5>1. Faces(a, b, round, k)
          BY <3>2
        <5>. QED BY <5>1, <1>1, <2>1, <2>2, FacingDrawn
      <4>2. slot \in Slots
        BY <2>1
      <4>3. Drawn(slot) \in matchesToCreate'
        BY <2>4, <4>1, <4>2
      <4>4. /\ Drawn(slot).round = r
            /\ {Drawn(slot).home, Drawn(slot).away} = {a, b}
        BY <3>2, <4>1, <4>2, <2>6
      <4>. QED BY <4>3, <4>4
    <3>. QED BY <3>1, <3>2, <2>2
  <2>9. NoneTwice'
    <3>. SUFFICES ASSUME NEW x \in matchesToCreate', NEW y \in matchesToCreate',
                         x.round = y.round,
                         {x.home, x.away} \cap {y.home, y.away} # {}
                  PROVE  x = y
      BY DEF NoneTwice
    <3>1. CASE x \in matchesToCreate /\ y \in matchesToCreate
      BY <3>1, <1>1 DEF NoneTwice
    <3>2. ASSUME NEW z \in matchesToCreate', z \notin matchesToCreate
          PROVE  z.round = round
      <4>1. PICK slot \in Slots : Played(slot) /\ z = Drawn(slot)
        BY <2>4, <3>2
      <4>. QED BY <2>6, <4>1
    <3>3. \A z \in matchesToCreate : z.round # round
      BY <2>2, <2>5
    <3>4. CASE x \notin matchesToCreate /\ y \notin matchesToCreate
      <4>1. PICK s1 \in Slots : Played(s1) /\ x = Drawn(s1)
        BY <2>4, <3>4
      <4>2. PICK s2 \in Slots : Played(s2) /\ y = Drawn(s2)
        BY <2>4, <3>4
      <4>3. /\ Place(x.home, round, k) = s1 /\ Place(x.away, round, k) = k + 2 - s1
            /\ s1 \in 1 .. h
        BY <2>6, <4>1
      <4>4. /\ Place(y.home, round, k) = s2 /\ Place(y.away, round, k) = k + 2 - s2
            /\ s2 \in 1 .. h
        BY <2>6, <4>2
      <4>5. PICK t : t \in {x.home, x.away} /\ t \in {y.home, y.away}
        OBVIOUS
      <4>6. /\ Place(t, round, k) = s1 \/ Place(t, round, k) = k + 2 - s1
            /\ Place(t, round, k) = s2 \/ Place(t, round, k) = k + 2 - s2
        BY <4>3, <4>4, <4>5
      <4>7. s1 = s2
        BY <4>3, <4>4, <4>6, <2>1
      <4>. QED BY <4>1, <4>2, <4>7
    <3>. QED BY <3>1, <3>2, <3>3, <3>4
  <2>. QED BY <2>7, <2>8, <2>9 DEF Drawings
<1>. QED BY <1>2, <1>3 DEF Next, Finished

\* Facing each other is mutual.
LEMMA FacesMutual ==
  ASSUME NEW k \in Nat, k >= 1, NEW r \in 0 .. 2 * k,
         NEW a \in 1 .. k + 1, NEW b \in 1 .. k + 1
  PROVE  Faces(a, b, r, k) <=> Faces(b, a, r, k)
<1>1. Place(a, r, k) \in 1 .. k + 1 /\ Place(b, r, k) \in 1 .. k + 1
  BY Placing
<1>. QED BY <1>1 DEF Faces

\* A team in a fixture of a round faces the other team of the fixture.
LEMMA InFixture ==
  ASSUME TypeInv, PairsFaced, NEW x \in matchesToCreate, NEW t \in {x.home, x.away}
  PROVE  \E u \in 1 .. league.teams :
           /\ u # t /\ {x.home, x.away} = {t, u}
           /\ Opponents(t, u, x.round)
<1>1. Circled /\ Fixed
  BY DEF TypeInv
<1>2. PICK k \in Nat :
           /\ k >= 1 /\ k = Places - 1
           /\ league.teams \in {k, k + 1}
           /\ round \in 0 .. 2 * k
  BY <1>1, Shape
<1>3. /\ x.home \in 1 .. league.teams
      /\ x.away \in 1 .. league.teams
      /\ x.round \in 0 .. round - 1
  BY <1>1 DEF Fixed, Fixture
<1>4. x.home # x.away /\ Faces(x.home, x.away, x.round, k)
  BY <1>2 DEF PairsFaced, Opponents
<1>5. Faces(x.away, x.home, x.round, k)
  <2>1. /\ x.home \in 1 .. k + 1 /\ x.away \in 1 .. k + 1
        /\ x.round \in 0 .. 2 * k
    BY <1>2, <1>3
  <2>. QED BY <1>2, <1>4, <2>1, FacesMutual
<1>6. CASE t = x.home
  BY <1>2, <1>3, <1>4, <1>6 DEF Opponents
<1>7. CASE t = x.away
  BY <1>2, <1>3, <1>4, <1>5, <1>7 DEF Opponents
<1>. QED BY <1>6, <1>7

\* In every round that was made a team plays one match, or none if it has the BYE,
\* which a league with an odd number of teams has.
LEMMA OneMatchEach == TypeInv /\ Drawings => OneMatchPerRound
<1>. SUFFICES ASSUME TypeInv, Drawings,
                     NEW r \in 0 .. round - 1, NEW t \in 1 .. league.teams
              PROVE  LET own == {x \in matchesToCreate :
                                   x.round = r /\ t \in {x.home, x.away}}
                     IN  \/ Cardinality(own) = 1
                         \/ Cardinality(own) = 0 /\ league.teams % 2 = 1
  BY DEF OneMatchPerRound
<1>. DEFINE own == {x \in matchesToCreate : x.round = r /\ t \in {x.home, x.away}}
<1>1. Circled /\ Fixed /\ PairsFaced /\ FacedPlayed /\ NoneTwice
  BY DEF TypeInv, Drawings
<1>2. PICK h \in Nat \ {0}, k \in Nat :
           /\ k = 2 * (h - 1) + 1 /\ k >= 1
           /\ k = Places - 1
           /\ league.teams \in {k, k + 1}
           /\ league.teams % 2 = 1 <=> league.teams = k
           /\ round \in 0 .. 2 * k
  BY <1>1, Shape
<1>3. r \in 0 .. 2 * k /\ t \in 1 .. k + 1
  BY <1>2
<1>. DEFINE p == Place(t, r, k)  q == k + 2 - p  u == Occupant(q, r, k)
<1>4. p \in 1 .. k + 1
  BY <1>2, <1>3, Placing
<1>5. q \in 1 .. k + 1 /\ q # p /\ p + q = k + 2
  <2>. HIDE DEF p
  <2>. QED BY <1>2, <1>4
<1>. HIDE DEF q
<1>6. u \in 1 .. k + 1 /\ Place(u, r, k) = q
  BY <1>2, <1>3, <1>5, Placing
<1>7. u # t
  BY <1>5, <1>6
<1>. HIDE DEF u
<1>8. Faces(t, u, r, k)
  BY <1>5, <1>6 DEF Faces
<1>9. \A x, y \in own : x = y
  <2>. SUFFICES ASSUME NEW x \in own, NEW y \in own PROVE x = y
    OBVIOUS
  <2>1. t \in {x.home, x.away} \cap {y.home, y.away} /\ x.round = y.round
    OBVIOUS
  <2>. QED BY <1>1, <2>1 DEF NoneTwice
<1>10. CASE u \in 1 .. league.teams
  <2>0. Opponents(t, u, r) /\ t # u
    BY <1>2, <1>7, <1>8 DEF Opponents
  <2>1. \E x \in matchesToCreate : x.round = r /\ {x.home, x.away} = {t, u}
    BY <1>1, <1>10, <2>0 DEF FacedPlayed
  <2>2. PICK x \in own : TRUE
    BY <2>1
  <2>3. own = {x}
    BY <1>9, <2>2
  <2>4. Cardinality(own) = 1
    <3>. HIDE DEF own
    <3>. QED BY <2>3, FS_Singleton
  <2>. QED BY <2>4
<1>11. CASE u \notin 1 .. league.teams
  <2>1. league.teams % 2 = 1
    BY <1>2, <1>6, <1>11
  <2>2. own = {}
    <3>. SUFFICES ASSUME NEW x \in own PROVE FALSE
      OBVIOUS
    <3>1. PICK v \in 1 .. league.teams : Opponents(t, v, x.round)
      BY <1>1, InFixture
    <3>2. Faces(t, v, r, k)
      BY <1>2, <3>1 DEF Opponents
    <3>3. v \in 1 .. k + 1
      BY <1>2
    <3>4. Place(v, r, k) \in 1 .. k + 1 /\ Occupant(Place(v, r, k), r, k) = v
      BY <1>2, <1>3, <3>3, Placing
    <3>5. Place(v, r, k) = q
      <4>1. p + Place(v, r, k) = k + 2
        BY <3>2 DEF Faces
      <4>. HIDE DEF p
      <4>. QED BY <1>4, <1>5, <3>4, <4>1
    <3>6. u = v
      BY <3>4, <3>5 DEF u
    <3>. QED BY <3>6, <1>11
  <2>3. Cardinality(own) = 0
    <3>. HIDE DEF own
    <3>. QED BY <2>2, FS_EmptySet
  <2>. QED BY <2>1, <2>3
<1>. QED BY <1>10, <1>11

\* A completed schedule has every two teams meet once, or twice if it is DOUBLE.
LEMMA AllPairsMeet == TypeInv /\ Drawings => EveryPairMeets
<1>. SUFFICES ASSUME TypeInv, Drawings, round = NumRounds,
                     NEW a \in 1 .. league.teams, NEW b \in 1 .. league.teams, a < b
              PROVE  Cardinality({x \in matchesToCreate : {x.home, x.away} = {a, b}})
                       = IF league.format = "DOUBLE" THEN 2 ELSE 1
  BY DEF EveryPairMeets
<1>. DEFINE met == {x \in matchesToCreate : {x.home, x.away} = {a, b}}
<1>1. Circled /\ Fixed /\ PairsFaced /\ FacedPlayed /\ NoneTwice
  BY DEF TypeInv, Drawings
<1>2. PICK h \in Nat \ {0}, k \in Nat :
           /\ k = 2 * (h - 1) + 1 /\ k >= 1
           /\ k = Places - 1
           /\ league.teams \in {k, k + 1}
           /\ NumRounds = IF league.format = "DOUBLE" THEN 2 * k ELSE k
  BY <1>1, Shape
<1>3. a \in 1 .. k + 1 /\ b \in 1 .. k + 1 /\ h - 1 \in Nat
  BY <1>2
<1>4. PICK first \in 0 .. k - 1 : \A r \in 0 .. 2 * k - 1 :
        Faces(a, b, r, k) <=> r = first \/ r = first + k
  <2>1. \E g \in Nat : k = 2 * g + 1
    BY <1>2, <1>3
  <2>. QED BY <1>3, <2>1, MeetingRounds
<1>5. ASSUME NEW x \in met
      PROVE  x.round \in 0 .. round - 1 /\ (x.round = first \/ x.round = first + k)
  <2>1. x.round \in 0 .. round - 1
    BY <1>1 DEF Fixed, Fixture
  <2>2. x.round \in 0 .. 2 * k - 1
    BY <1>2, <2>1
  <2>3. a \in {x.home, x.away} /\ a # b /\ {x.home, x.away} = {a, b}
    OBVIOUS
  <2>4. PICK u \in 1 .. league.teams :
          u # a /\ {x.home, x.away} = {a, u} /\ Opponents(a, u, x.round)
    BY <1>1, <2>3, InFixture
  <2>5. u = b
    BY <2>3, <2>4
  <2>6. Faces(a, b, x.round, k)
    BY <1>2, <2>4, <2>5 DEF Opponents
  <2>. QED BY <1>4, <2>1, <2>2, <2>6
<1>6. \A x, y \in met : x.round = y.round => x = y
  <2>. SUFFICES ASSUME NEW x \in met, NEW y \in met, x.round = y.round
                PROVE  x = y
    OBVIOUS
  <2>1. a \in {x.home, x.away} \cap {y.home, y.away}
    OBVIOUS
  <2>. QED BY <1>1, <2>1 DEF NoneTwice
<1>7. ASSUME NEW r \in 0 .. round - 1, r = first \/ r = first + k
      PROVE  \E x \in met : x.round = r
  <2>1. r \in 0 .. 2 * k - 1
    BY <1>2, <1>4, <1>7
  <2>2. Opponents(a, b, r) /\ a # b
    BY <1>2, <1>4, <1>7, <2>1 DEF Opponents
  <2>3. \E x \in matchesToCreate : x.round = r /\ {x.home, x.away} = {a, b}
    BY <1>1, <2>2 DEF FacedPlayed
  <2>. QED BY <2>3
<1>8. CASE league.format = "DOUBLE"
  <2>1. /\ first \in 0 .. round - 1 /\ first + k \in 0 .. round - 1
        /\ first # first + k
    BY <1>2, <1>4, <1>8
  <2>2. PICK x \in met : x.round = first
    BY <1>7, <2>1
  <2>3. PICK y \in met : y.round = first + k
    BY <1>7, <2>1
  <2>4. x # y
    BY <2>1, <2>2, <2>3
  <2>5. met = {x} \cup {y}
    BY <1>5, <1>6, <2>2, <2>3
  <2>6. Cardinality(met) = 2
    <3>. HIDE DEF met
    <3>1. IsFiniteSet({x}) /\ Cardinality({x}) = 1
      BY FS_Singleton
    <3>2. Cardinality({x} \cup {y}) = Cardinality({x}) + 1
      BY <2>4, <3>1, FS_AddElement
    <3>. QED BY <2>5, <3>1, <3>2
  <2>. QED BY <1>8, <2>6
<1>9. CASE league.format # "DOUBLE"
  <2>1. first \in 0 .. round - 1 /\ first + k \notin 0 .. round - 1
    BY <1>2, <1>4, <1>9
  <2>2. PICK x \in met : x.round = first
    BY <1>7, <2>1
  <2>0. \A y \in met : y.round = first
    BY <1>5, <2>1
  <2>3. met = {x}
    BY <1>6, <2>0, <2>2
  <2>4. Cardinality(met) = 1
    <3>. HIDE DEF met
    <3>. QED BY <2>3, FS_Singleton
  <2>. QED BY <1>9, <2>4
<1>. QED BY <1>8, <1>9

\* The circle method is right for every number of teams: no team is drawn twice in
\* a round, and only a BYE leaves one out.
THEOREM NobodyDrawnTwice == Spec => []OneMatchPerRound
BY InitTypeInv, NextTypeInv, InitDrawings, NextDrawings, OneMatchEach, PTL DEF Spec

\* A completed schedule is a round robin, for every number of teams: every two meet
\* once in a SINGLE and twice in a DOUBLE league.
THEOREM ScheduleComplete == Spec => []EveryPairMeets
BY InitTypeInv, NextTypeInv, InitDrawings, NextDrawings, AllPairsMeet, PTL DEF Spec

-----------------------------------------------------------------------------
(* When the matches are played.  The hours and the order of the days are for  *)
(* leagues whose rounds start at 7:00 Thai time or later, the weekday is for  *)
(* all of them.                                                               *)

StartAfterSeven == \A s \in StartTimes : s[1] >= 7

\* A match begins with its day, or late enough and in time to be over on it.
Timely(t) ==
  LET from == AtThaiTime(t, league.startTime)
  IN  /\ from <= t
      /\ t = from \/ t + league.duration <= AtThaiTime(t, league.endTime) + 1

Timed == \A x \in matchesToCreate : Timely(x.matchDate)

\* The next round is on a later day than those made, and they are in order.
InOrder ==
  /\ \A x \in matchesToCreate : ThaiDay(x.matchDate) < ThaiDay(roundStartDate)
  /\ RoundsOnLaterDays

\* A match of a round is played on the day of the round.
LEMMA SameDay ==
  ASSUME league \in Settings, NEW d \in Nat \ {0}, NEW from, NEW t \in Int,
         Minute(league.startTime) >= 0,
         from = d * Day + Minute(league.startTime),
         t >= from,
         t = from \/ t + league.duration <= AtThaiTime(from, league.endTime) + 1
  PROVE  /\ AtThaiTime(t, league.startTime) = from
         /\ AtThaiTime(t, league.endTime) = AtThaiTime(from, league.endTime)
         /\ ThaiDay(t) = d
<1>. DEFINE c == Minute(league.startTime)  e == Minute(league.endTime)
<1>1. /\ c \in 0 .. 1019 /\ e \in -420 .. 1019
      /\ league.duration \in Nat /\ league.duration >= 30
      /\ league.startTime[1] \in 0 .. 23 /\ league.startTime[2] \in 0 .. 59
      /\ league.endTime[1] \in 0 .. 23 /\ league.endTime[2] \in 0 .. 59
  <2>1. /\ league.duration \in Nat /\ league.duration >= 30
        /\ league.startTime[1] \in 0 .. 23 /\ league.startTime[2] \in 0 .. 59
        /\ league.endTime[1] \in 0 .. 23 /\ league.endTime[2] \in 0 .. 59
    BY SettingsTypes
  <2>2. c \in -420 .. 1019 /\ e \in -420 .. 1019
    BY MinuteRange
  <2>3. c >= 0
    OBVIOUS
  <2>. HIDE DEF c, e
  <2>4. c \in 0 .. 1019
    BY <2>2, <2>3
  <2>. QED BY <2>1, <2>2, <2>4
<1>2. d \in Int /\ c \in 0 .. 1439 /\ from = d * Day + c
  BY <1>1
<1>3. AtThaiTime(from, league.endTime) = d * Day + e
  <2>1. from \div Day = d /\ from \in Int
    <3>. HIDE DEF c
    <3>. QED BY <1>2 DEF Day
  <2>. QED BY <1>1, <2>1, AtThaiTimeOf
<1>. HIDE DEF c, e
<1>4. \E o \in 0 .. 1019 : t = d * Day + o
  <2>. DEFINE start == d * Day
              long == league.duration
              last == AtThaiTime(from, league.endTime)
  <2>1. start \in Int /\ long \in Nat /\ long >= 30
    BY <1>1, <1>2 DEF Day
  <2>2. from = start + c /\ last = start + e /\ t >= from
    BY <1>2, <1>3
  <2>3. t = from \/ t + long <= last + 1
    OBVIOUS
  <2>. HIDE DEF start, long, last
  <2>4. c \in 0 .. 1019 /\ e \in -420 .. 1019
    BY <1>1
  <2>. DEFINE o == t - start
  <2>5. o \in Int /\ t = start + o
    BY <2>1
  <2>. HIDE DEF o
  <2>6. c \in Int /\ e \in Int /\ 0 <= c /\ c <= 1019 /\ e <= 1019
    BY <2>4
  <2>7. o >= c
    BY <2>1, <2>2, <2>5, <2>6
  <2>8. o = c \/ o + long <= e + 1
    BY <2>1, <2>2, <2>3, <2>5, <2>6
  <2>9. o <= 1019
    BY <2>1, <2>5, <2>6, <2>8
  <2>10. o >= 0
    BY <2>5, <2>6, <2>7
  <2>11. o \in 0 .. 1019
    BY <2>5, <2>9, <2>10
  <2>. QED BY <2>5, <2>11 DEF start
<1>. PICK o \in 0 .. 1019 : t = d * Day + o
  BY <1>4
<1>5. t \div Day = d
  BY <1>4 DEF Day
<1>6. AtThaiTime(t, league.startTime) = d * Day + Minute(league.startTime)
  BY <1>1, <1>5, AtThaiTimeOf
<1>7. AtThaiTime(t, league.endTime) = d * Day + Minute(league.endTime)
  BY <1>1, <1>5, AtThaiTimeOf
<1>8. ThaiDay(t) = d
  <2>1. (d * 1440 + o + 420) \div 1440 = d
    BY <1>4
  <2>2. t + 7 * 60 = d * 1440 + o + 420
    BY <1>4 DEF Day
  <2>. QED BY <2>1, <2>2 DEF ThaiDay, Day
<1>. QED BY <1>3, <1>6, <1>7, <1>8 DEF e

\* What a round that is made has of the clock.
LEMMA DrawnTimes ==
  ASSUME TypeInv, StartAfterSeven, NEW slot \in Slots
  PROVE  \E d \in Nat \ {0} :
           LET t == KickoffAfter(SlotTime[slot])
           IN  /\ roundStartDate = d * Day + Minute(league.startTime)
               /\ Minute(league.startTime) >= 0
               /\ Timely(t)
               /\ ThaiDay(t) = d /\ ThaiDay(roundStartDate) = d
<1>. DEFINE t == KickoffAfter(SlotTime[slot])
<1>1. Circled /\ Clock /\ league \in Settings
  BY DEF TypeInv, Circled
<1>2. PICK d \in Nat \ {0} :
        roundStartDate = d * Day + Minute(league.startTime)
  BY <1>1 DEF Clock
<1>3. Minute(league.startTime) >= 0
  <2>1. league.startTime \in StartTimes
    BY <1>1 DEF Settings
  <2>. QED BY <1>1, <2>1, MinuteRange DEF StartAfterSeven
<1>4. PICK h \in Nat \ {0} : Slots = 1 .. h
  BY <1>1, Shape
<1>5. roundStartDate \in Nat
  BY <1>1, ClockType
<1>6. /\ t \in Int /\ t >= roundStartDate
      /\ \/ t = roundStartDate
         \/ t + league.duration <= AtThaiTime(roundStartDate, league.endTime) + 1
  <2>1. h \in Nat /\ roundStartDate \in Int /\ slot \in 1 .. h
    BY <1>4, <1>5
  <2>. QED BY <1>1, <1>4, <2>1, KickoffTimes
<1>. HIDE DEF t
<1>7. /\ AtThaiTime(t, league.startTime) = roundStartDate
      /\ AtThaiTime(t, league.endTime) = AtThaiTime(roundStartDate, league.endTime)
      /\ ThaiDay(t) = d
  BY <1>1, <1>2, <1>3, <1>6, SameDay
<1>8. ThaiDay(roundStartDate) = d
  <2>1. roundStartDate \in Int /\ roundStartDate >= roundStartDate
    BY <1>5
  <2>. QED BY <1>1, <1>2, <1>3, <2>1, SameDay
<1>9. Timely(t)
  BY <1>6, <1>7 DEF Timely
<1>. QED BY <1>2, <1>3, <1>7, <1>8, <1>9 DEF t

LEMMA InitTimes == Init => Timed /\ InOrder
<1>. SUFFICES ASSUME Init PROVE Timed /\ InOrder
  OBVIOUS
<1>1. matchesToCreate = {}
  BY DEF Init
<1>. QED BY <1>1 DEF Timed, InOrder, RoundsOnLaterDays

LEMMA NextTimes ==
  ASSUME StartAfterSeven
  PROVE  TypeInv /\ Timed /\ InOrder /\ [Next]_vars => Timed' /\ InOrder'
<1>. SUFFICES ASSUME TypeInv, Timed, InOrder, [Next]_vars
              PROVE  Timed' /\ InOrder'
  OBVIOUS
<1>1. CASE UNCHANGED vars
  <2>. USE <1>1 DEF vars
  <2>1. Timed'
    BY DEF Timed, Timely, AtThaiTime, SetUTCHours
  <2>2. InOrder'
    BY DEF InOrder, RoundsOnLaterDays, ThaiDay
  <2>. QED BY <2>1, <2>2
<1>2. CASE MakeRound
  <2>1. /\ league' = league
        /\ roundStartDate' = NextRound(roundStartDate, league)
        /\ matchesToCreate' = matchesToCreate \cup
                                {Drawn(slot) : slot \in {s \in Slots : Played(s)}}
    BY <1>2 DEF MakeRound, Drawn
  <2>2. Circled /\ Clock /\ Fixed /\ league \in Settings
    BY DEF TypeInv, Circled
  <2>3. Minute(league.startTime) >= 0
    <3>1. league.startTime \in StartTimes
      BY <2>2 DEF Settings
    <3>. QED BY <2>2, <3>1, MinuteRange DEF StartAfterSeven
  <2>4. PICK d \in Nat \ {0} :
          roundStartDate = d * Day + Minute(league.startTime)
    BY <2>2 DEF Clock
  <2>5. PICK e \in Nat \ {0} :
          /\ roundStartDate' = e * Day + Minute(league.startTime)
          /\ d < e
    <3>1. GetDay(roundStartDate) \in league.days
      BY <2>2 DEF Clock
    <3>2. \E e \in Nat \ {0} :
            /\ NextRound(roundStartDate, league) = e * Day + Minute(league.startTime)
            /\ Minute(league.startTime) >= 0 => d < e
      <4>1. serverZone \in Int
        BY <2>2, FixturesAssumption DEF Clock
      <4>. QED BY <2>2, <2>4, <3>1, <4>1, NextRoundDay
    <3>. QED BY <2>1, <2>3, <3>2
  <2>6. ASSUME NEW f \in Nat \ {0}, NEW t, t = f * Day + Minute(league.startTime)
        PROVE  ThaiDay(t) = f
    <3>1. t \in Int /\ t >= t
      <4>. DEFINE c == Minute(league.startTime)
      <4>1. c \in -420 .. 1019
        BY <2>2, MinuteRange
      <4>2. t = f * Day + c
        BY <2>6
      <4>. HIDE DEF c
      <4>. QED BY <4>1, <4>2 DEF Day
    <3>. QED BY <2>2, <2>3, <2>6, <3>1, SameDay
  <2>7. ThaiDay(roundStartDate) = d /\ ThaiDay(roundStartDate') = e
    BY <2>4, <2>5, <2>6
  <2>8. ASSUME NEW x \in matchesToCreate', x \notin matchesToCreate
        PROVE  /\ x.round = round
               /\ Timely(x.matchDate)
               /\ ThaiDay(x.matchDate) = d
    <3>1. PICK slot \in Slots : Played(slot) /\ x = Drawn(slot)
      BY <2>1, <2>8
    <3>2. x.round = round /\ x.matchDate = KickoffAfter(SlotTime[slot])
      BY <3>1 DEF Drawn
    <3>3. Timely(x.matchDate) /\ ThaiDay(x.matchDate) = ThaiDay(roundStartDate)
      BY <3>2, DrawnTimes
    <3>. QED BY <2>7, <3>2, <3>3
  <2>9. Timed'
    <3>. SUFFICES ASSUME NEW x \in matchesToCreate' PROVE Timely(x.matchDate)'
      BY DEF Timed
    <3>1. Timely(x.matchDate)
      BY <2>8 DEF Timed
    <3>. QED BY <2>1, <3>1 DEF Timely, AtThaiTime, SetUTCHours
  <2>10. \A x \in matchesToCreate :
           x.round \in 0 .. round - 1 /\ ThaiDay(x.matchDate) \in Int
    <3>. SUFFICES ASSUME NEW x \in matchesToCreate
                  PROVE  x.round \in 0 .. round - 1 /\ ThaiDay(x.matchDate) \in Int
      OBVIOUS
    <3>1. x.round \in 0 .. round - 1 /\ x.matchDate \in Nat
      BY <2>2 DEF Fixed, Fixture
    <3>. DEFINE t == x.matchDate
    <3>. HIDE DEF t
    <3>2. t \in Nat => (t + 7 * 60) \div 1440 \in Int
      OBVIOUS
    <3>. QED BY <3>1, <3>2 DEF t, ThaiDay, Day
  <2>11. \A x \in matchesToCreate : ThaiDay(x.matchDate) < d
    BY <2>7 DEF InOrder
  <2>12. \A x \in matchesToCreate' : ThaiDay(x.matchDate) < e
    BY <2>5, <2>8, <2>10, <2>11
  <2>13. \A x, y \in matchesToCreate' :
           x.round < y.round => ThaiDay(x.matchDate) < ThaiDay(y.matchDate)
    <3>. SUFFICES ASSUME NEW x \in matchesToCreate', NEW y \in matchesToCreate',
                         x.round < y.round
                  PROVE  ThaiDay(x.matchDate) < ThaiDay(y.matchDate)
      OBVIOUS
    <3>0. round \in Nat
      BY <2>2, Shape
    <3>1. x \in matchesToCreate
      <4>1. y.round <= round
        BY <3>0, <2>8, <2>10
      <4>. QED BY <3>0, <4>1, <2>8, <2>10
    <3>2. CASE y \in matchesToCreate
      BY <3>1, <3>2 DEF InOrder, RoundsOnLaterDays
    <3>3. CASE y \notin matchesToCreate
      BY <3>1, <3>3, <2>8, <2>11
    <3>. QED BY <3>2, <3>3
  <2>14. InOrder'
    BY <2>7, <2>12, <2>13 DEF InOrder, RoundsOnLaterDays, ThaiDay
  <2>. QED BY <2>9, <2>14
<1>. QED BY <1>1, <1>2 DEF Next, Finished

\* The invariant of the clock in every state.
LEMMA TimesInvariant ==
  ASSUME StartAfterSeven
  PROVE  Spec => [](TypeInv /\ Timed /\ InOrder)
<1>1. TypeInv /\ Timed /\ InOrder /\ [Next]_vars => Timed' /\ InOrder'
  BY NextTimes
<1>. QED BY <1>1, InitTypeInv, NextTypeInv, InitTimes, PTL DEF Spec

\* If one match fits between the hours of the league, every match is played between
\* them, for every length of match and every number of matches in a round.
THEOREM PlayedWithinHours ==
  ASSUME StartAfterSeven
  PROVE  Spec => []WithinHours
<1>1. TypeInv /\ Timed => WithinHours
  <2>. SUFFICES ASSUME TypeInv, Timed, NEW x \in matchesToCreate,
                       AtThaiTime(x.matchDate, league.startTime) + league.duration
                         <= AtThaiTime(x.matchDate, league.endTime) + 1
                PROVE  /\ AtThaiTime(x.matchDate, league.startTime) <= x.matchDate
                       /\ x.matchDate + league.duration
                            <= AtThaiTime(x.matchDate, league.endTime) + 1
    BY DEF WithinHours
  <2>1. Timely(x.matchDate)
    BY DEF Timed
  <2>. QED BY <2>1 DEF Timely
<1>. QED BY <1>1, TimesInvariant, PTL

\* A team that has played a round plays the next one on a later day.
THEOREM RoundsAdvance ==
  ASSUME StartAfterSeven
  PROVE  Spec => []RoundsOnLaterDays
<1>1. InOrder => RoundsOnLaterDays
  BY DEF InOrder
<1>. QED BY <1>1, TimesInvariant, PTL

-----------------------------------------------------------------------------
(* The weekdays. *)

\* The Thai day of a match is one whose weekday, asked for at the hour of the
\* league in the server's time, is allowed.
OnDay(t) ==
  \E d \in Nat \ {0} :
    /\ ThaiDay(t) = d
    /\ GetDay(d * Day + Minute(league.startTime)) \in league.days

OnDays == \A x \in matchesToCreate : OnDay(x.matchDate)

\* The Thai and the server's day of the hour of the league.
LEMMA DaysOf ==
  ASSUME NEW l \in Settings, serverZone \in Int, NEW d \in Nat
  PROVE  LET t == d * Day + Minute(l.startTime)
         IN  /\ t \in Int
             /\ ThaiDay(t) = d
             /\ ServerDay(t) = d + (Minute(l.startTime) + serverZone) \div Day
<1>. DEFINE c == Minute(l.startTime)
<1>1. c \in -420 .. 1019
  BY MinuteRange
<1>. HIDE DEF c
<1>2. d * Day + c \in Int
  BY <1>1 DEF Day
<1>3. ThaiDay(d * Day + c) = d
  <2>1. (d * 1440 + c + 420) \div 1440 = d
    BY <1>1
  <2>. QED BY <2>1 DEF ThaiDay, Day
<1>4. ServerDay(d * Day + c) = d + (c + serverZone) \div Day
  <2>1. (d * 1440 + c + serverZone) \div 1440 = d + (c + serverZone) \div 1440
    BY <1>1
  <2>. QED BY <2>1 DEF ServerDay, Day
<1>. QED BY <1>2, <1>3, <1>4 DEF c

\* A round that starts before 7:00 is played in parallel: on the UTC day of its
\* start, its end is over by then.
LEMMA InParallel ==
  ASSUME league \in Settings, NEW d \in Nat \ {0}, Minute(league.startTime) < 0,
         roundStartDate = d * Day + Minute(league.startTime)
  PROVE  AtThaiTime(roundStartDate, league.endTime) + 1 < roundStartDate + league.duration
<1>. DEFINE c == Minute(league.startTime)  e == Minute(league.endTime)
            long == league.duration
<1>1. c \in -420 .. 1019 /\ e \in -420 .. 1019
  BY MinuteRange
<1>2. /\ long \in Nat /\ long >= 30
      /\ league.endTime[1] \in 0 .. 23 /\ league.endTime[2] \in 0 .. 59
  BY SettingsTypes
<1>3. c < 0 /\ roundStartDate = d * Day + c
  OBVIOUS
<1>. HIDE DEF c, e, long
<1>4. roundStartDate \in Int /\ roundStartDate \div Day = d - 1
  BY <1>1, <1>3 DEF Day
<1>5. AtThaiTime(roundStartDate, league.endTime) = (d - 1) * Day + e
  BY <1>2, <1>4, AtThaiTimeOf DEF e
<1>6. (d - 1) * Day + e + 1 < d * Day + c + long
  BY <1>1, <1>2 DEF Day
<1>. QED BY <1>3, <1>5, <1>6 DEF long

\* A match of the round is on the day of the round.
LEMMA DrawnDay ==
  ASSUME TypeInv, NEW slot \in Slots
  PROVE  OnDay(KickoffAfter(SlotTime[slot]))
<1>. DEFINE t == KickoffAfter(SlotTime[slot])
<1>1. Circled /\ Clock /\ league \in Settings /\ serverZone \in Int
  BY FixturesAssumption DEF TypeInv, Circled, Clock
<1>2. PICK d \in Nat \ {0} :
        roundStartDate = d * Day + Minute(league.startTime)
  BY <1>1 DEF Clock
<1>3. GetDay(d * Day + Minute(league.startTime)) \in league.days
  BY <1>1, <1>2 DEF Clock
<1>4. ThaiDay(t) = d
  <2>1. PICK h \in Nat \ {0} : Slots = 1 .. h
    BY <1>1, Shape
  <2>2. roundStartDate \in Nat
    BY <1>1, ClockType
  <2>3. /\ t \in Int /\ t >= roundStartDate
        /\ \/ t = roundStartDate
           \/ t + league.duration <= AtThaiTime(roundStartDate, league.endTime) + 1
    <3>1. h \in Nat /\ roundStartDate \in Int /\ slot \in 1 .. h
      BY <2>1, <2>2
    <3>. QED BY <1>1, <2>1, <3>1, KickoffTimes
  <2>. HIDE DEF t
  <2>4. CASE Minute(league.startTime) >= 0
    BY <1>1, <1>2, <2>3, <2>4, SameDay
  <2>5. CASE Minute(league.startTime) < 0
    <3>1. t = roundStartDate
      <4>. DEFINE until == AtThaiTime(roundStartDate, league.endTime) + 1
                  long == league.duration
      <4>1. until < roundStartDate + long
        BY <1>1, <1>2, <2>5, InParallel
      <4>2. long \in Nat
        BY <1>1, SettingsTypes
      <4>3. until \in Int
        <5>1. /\ league.endTime[1] \in 0 .. 23 /\ league.endTime[2] \in 0 .. 59
          BY <1>1, SettingsTypes
        <5>2. roundStartDate \in Int
          BY <2>2
        <5>3. AtThaiTime(roundStartDate, league.endTime)
                = (roundStartDate \div Day) * Day + Minute(league.endTime)
          BY <5>1, <5>2, AtThaiTimeOf
        <5>. DEFINE e == Minute(league.endTime)
        <5>4. e \in -420 .. 1019
          BY <1>1, MinuteRange
        <5>. HIDE DEF e
        <5>5. (roundStartDate \div Day) * Day + e + 1 \in Int
          BY <5>2, <5>4 DEF Day
        <5>. QED BY <5>3, <5>5 DEF e
      <4>4. t = roundStartDate \/ t + long <= until
        BY <2>3
      <4>. HIDE DEF until, long
      <4>. QED BY <2>2, <2>3, <4>1, <4>2, <4>3, <4>4
    <3>. QED BY <1>1, <1>2, <3>1, DaysOf
  <2>6. Minute(league.startTime) >= 0 \/ Minute(league.startTime) < 0
    <3>. DEFINE c == Minute(league.startTime)
    <3>1. c \in -420 .. 1019
      BY <1>1, MinuteRange
    <3>. HIDE DEF c
    <3>2. c >= 0 \/ c < 0
      BY <3>1
    <3>. QED BY <3>2 DEF c
  <2>. QED BY <2>4, <2>5, <2>6
<1>. HIDE DEF t
<1>. QED BY <1>3, <1>4 DEF OnDay, t

LEMMA NextDays == TypeInv /\ OnDays /\ [Next]_vars => OnDays'
<1>. SUFFICES ASSUME TypeInv, OnDays, [Next]_vars PROVE OnDays'
  OBVIOUS
<1>1. league' = league /\ serverZone' = serverZone
  BY DEF Next, MakeRound, Finished, vars
<1>2. ASSUME NEW x \in matchesToCreate' PROVE OnDay(x.matchDate)
  <2>1. CASE x \in matchesToCreate
    BY <2>1 DEF OnDays
  <2>2. CASE x \notin matchesToCreate
    <3>1. PICK slot \in Slots : x = Drawn(slot)
      BY <2>2 DEF Next, MakeRound, Finished, vars, Drawn
    <3>2. x.matchDate = KickoffAfter(SlotTime[slot])
      BY <3>1 DEF Drawn
    <3>. QED BY <3>2, DrawnDay
  <2>. QED BY <2>1, <2>2
<1>. QED BY <1>1, <1>2 DEF OnDays, OnDay, GetDay, ServerDay

\* Whatever the hours of the league and wherever the server is: if the hour at
\* which rounds start falls on the same day there and in Thailand, every match is
\* on a weekday of the league as its players see it.
THEOREM DaysAreAllowed == Spec => []OnAllowedDays
<1>1. Init => OnDays
  <2>1. Init => matchesToCreate = {}
    BY DEF Init
  <2>. QED BY <2>1 DEF OnDays
<1>2. TypeInv /\ OnDays => OnAllowedDays
  <2>. SUFFICES ASSUME TypeInv, OnDays,
                       ServerDay(roundStartDate) = ThaiDay(roundStartDate),
                       NEW x \in matchesToCreate
                PROVE  (ThaiDay(x.matchDate) + 4) % 7 \in league.days
    BY DEF OnAllowedDays
  <2>1. league \in Settings /\ serverZone \in Int /\ Clock
    BY FixturesAssumption DEF TypeInv, Circled, Clock
  <2>2. PICK d \in Nat \ {0} :
          roundStartDate = d * Day + Minute(league.startTime)
    BY <2>1 DEF Clock
  <2>3. PICK e \in Nat \ {0} :
          /\ ThaiDay(x.matchDate) = e
          /\ GetDay(e * Day + Minute(league.startTime)) \in league.days
    BY DEF OnDays, OnDay
  <2>4. (Minute(league.startTime) + serverZone) \div Day = 0
    <3>. DEFINE ahead == (Minute(league.startTime) + serverZone) \div Day
    <3>1. ThaiDay(roundStartDate) = d /\ ServerDay(roundStartDate) = d + ahead
      BY <2>1, <2>2, DaysOf
    <3>2. ahead \in Int
      <4>. DEFINE c == Minute(league.startTime)
      <4>1. c \in -420 .. 1019
        BY <2>1, MinuteRange
      <4>. HIDE DEF c
      <4>2. (c + serverZone) \div Day \in Int
        BY <2>1, <4>1 DEF Day
      <4>. QED BY <4>2 DEF c
    <3>. HIDE DEF ahead
    <3>3. ahead = 0
      BY <3>1, <3>2
    <3>. QED BY <3>3 DEF ahead
  <2>5. ServerDay(e * Day + Minute(league.startTime)) = e
    <3>1. ServerDay(e * Day + Minute(league.startTime)) = e + 0
      BY <2>1, <2>4, DaysOf
    <3>. QED BY <3>1
  <2>. QED BY <2>3, <2>5 DEF GetDay
<1>. QED BY <1>1, <1>2, InitTypeInv, NextTypeInv, NextDays, PTL DEF Spec
=============================================================================
