------------------------------ MODULE Fixtures ------------------------------
(***************************************************************************)
(* The schedule generateFixtures computes (modules/leagues/                *)
(* leagues.service.ts): a round robin by the circle method, one round per  *)
(* match day, on the weekdays and between the hours of the league.         *)
(*                                                                         *)
(* One step is one iteration of the loop over the rounds.  Times are       *)
(* minutes since 1970-01-01T00:00Z; the hours of a league are Thai hours   *)
(* (UTC+7), which the code turns into UTC by subtracting 7 from the hour.  *)
(***************************************************************************)
EXTENDS Integers, Sequences, FiniteSets

CONSTANTS
  TeamCounts,   \* numbers of approved teams
  Formats,      \* matchFormat
  StartDates,   \* League.startDate, in days since 1970-01-01
  DaySets,      \* daysOfWeek, 0 = Sunday
  StartTimes, EndTimes,  \* <<hour, minute>>
  Durations,    \* matchDuration
  ServerZones   \* minutes by which a server's local time is ahead of UTC

ASSUME FixturesAssumption ==
  /\ TeamCounts \subseteq {n \in Nat : n >= 2}
  /\ Formats \subseteq {"SINGLE", "DOUBLE"}
  /\ StartDates \subseteq Nat \ {0}
  /\ DaySets \subseteq (SUBSET (0 .. 6)) \ {{}}
  /\ StartTimes \cup EndTimes \subseteq (0 .. 23) \X (0 .. 59)
  /\ \A d \in Durations : d \in Nat /\ d >= 30
  /\ ServerZones \subseteq Int

VARIABLES
  serverZone,      \* where the server is; its offset from UTC does not change
  league,          \* the settings generateFixtures works with
  teamIds,         \* the circle
  round,           \* the loop variable: rounds made so far
  roundStartDate,
  matchesToCreate  \* the fixtures made so far

vars == <<serverZone, league, teamIds, round, roundStartDate, matchesToCreate>>

Settings == [teams : TeamCounts, format : Formats, startDate : StartDates,
             days : DaySets, startTime : StartTimes, endTime : EndTimes,
             duration : Durations]

BYE == 0
Day == 24 * 60

\* Date.setUTCHours with an hour that may be negative: the day before, then.
SetUTCHours(t, hour, minute) == (t \div Day) * Day + hour * 60 + minute
AtThaiTime(t, time) == SetUTCHours(t, time[1] - 7, time[2])

ServerDay(t) == (t + serverZone) \div Day

\* Date.getDay, in the local time of the server; 1970-01-01 was a Thursday.
GetDay(t) == (ServerDay(t) + 4) % 7

\* An odd number of teams gets a BYE.
Circle(n) == [i \in 1 .. n + (n % 2) |-> IF i <= n THEN i ELSE BYE]

\* Mutant of NumRounds: one round too few when there is a BYE.
NumRoundsWithoutBye ==
  (league.teams - 1) * (IF league.format = "DOUBLE" THEN 2 ELSE 1)

NumRounds ==
  (Len(teamIds) - 1) * (IF league.format = "DOUBLE" THEN 2 ELSE 1)

\* Repeats Next[t] until the day is allowed; a week is enough, as a step is a
\* day or, when it stands still, on an allowed day.
FirstAllowed(t0, Step(_), days) ==
  LET at[k \in 0 .. 7] == IF k = 0 THEN t0 ELSE Step(at[k - 1])
      allowed == {k \in 0 .. 7 : GetDay(at[k]) \in days}
  IN  at[CHOOSE k \in allowed : \A j \in allowed : k <= j]

\* The day of the first round: the start date or the next allowed day.
FirstRound(l) ==
  LET NextDay(t) == t + Day
  IN  FirstAllowed(AtThaiTime(l.startDate * Day, l.startTime), NextDay, l.days)

\* Mutants of NextRound: the next day whatever it is; while instead of do.
NextRoundAnyDay(t, l) == AtThaiTime(t + Day, l.startTime)

NextRoundStays(t, l) ==
  LET NextDay(u) == AtThaiTime(u + Day, l.startTime)
  IN  FirstAllowed(t, NextDay, l.days)

\* "Move to the next available day for the NEXT round": do ... while.
NextRound(t, l) ==
  LET NextDay(u) == AtThaiTime(u + Day, l.startTime)
  IN  FirstAllowed(NextDay(t), NextDay, l.days)

\* teamIds.pop and splice(1, 0, ...): the first stays, the others move up.
Rotate(ids) ==
  [i \in 1 .. Len(ids) |->
     IF i = 1 THEN ids[1] ELSE IF i = 2 THEN ids[Len(ids)] ELSE ids[i - 1]]

Slots == 1 .. Len(teamIds) \div 2
HomeIn(slot) == teamIds[slot]

\* Mutant of AwayIn: off by one, every team is drawn a neighbour.
AwayInOffByOne(slot) == teamIds[Len(teamIds) - slot]

AwayIn(slot) == teamIds[Len(teamIds) + 1 - slot]

\* Mutant of Played: a match against the BYE is created.
PlayedOrBye(slot) == TRUE

Played(slot) == HomeIn(slot) # BYE /\ AwayIn(slot) # BYE

\* Mutant of KickoffAfter: the end of the day is not looked at.
KickoffLate(t) == t

\* Kick-off of a match when the one before it ends at t: back to the start of
\* the day, in parallel, when it would end more than a minute too late.
KickoffAfter(t) ==
  IF t + league.duration > AtThaiTime(roundStartDate, league.endTime) + 1
    THEN roundStartDate ELSE t

\* currentMatchTime before each slot of the round.
SlotTime ==
  LET time[slot \in Slots] ==
        IF slot = 1 THEN roundStartDate
        ELSE IF Played(slot - 1)
               THEN KickoffAfter(time[slot - 1]) + league.duration
               ELSE time[slot - 1]
  IN  time

Init ==
  /\ serverZone \in ServerZones
  /\ league \in Settings
  /\ teamIds = Circle(league.teams)
  /\ round = 0
  /\ roundStartDate = FirstRound(league)
  /\ matchesToCreate = {}

MakeRound ==
  /\ round < NumRounds
  /\ matchesToCreate' = matchesToCreate \cup
       {[round |-> round, home |-> HomeIn(slot), away |-> AwayIn(slot),
         matchDate |-> KickoffAfter(SlotTime[slot])] :
           slot \in {s \in Slots : Played(s)}}
  /\ teamIds' = Rotate(teamIds)
  /\ roundStartDate' = NextRound(roundStartDate, league)
  /\ round' = round + 1
  /\ UNCHANGED <<serverZone, league>>

\* createMany writes the fixtures.
Finished == round = NumRounds /\ UNCHANGED vars

Next == MakeRound \/ Finished

Spec == Init /\ [][Next]_vars

-----------------------------------------------------------------------------
(* Properties. *)

TypeOK ==
  /\ serverZone \in ServerZones
  /\ league \in Settings
  /\ teamIds \in [1 .. Len(teamIds) -> 0 .. league.teams]
  /\ round \in 0 .. NumRounds
  /\ roundStartDate \in Nat
  /\ \A x \in matchesToCreate :
       /\ x.home \in 1 .. league.teams
       /\ x.away \in 1 .. league.teams
       /\ x.round \in 0 .. round - 1
       /\ x.matchDate \in Nat

\* At the end of the loop every two teams meet once, or twice in a DOUBLE
\* league, also with an odd number of teams.
EveryPairMeets ==
  round = NumRounds =>
    \A a, b \in 1 .. league.teams : a < b =>
      Cardinality({x \in matchesToCreate : {x.home, x.away} = {a, b}})
        = IF league.format = "DOUBLE" THEN 2 ELSE 1

\* A team plays one match in a round, or none if it has the BYE, and at most one
\* team has.
OneMatchPerRound ==
  \A r \in 0 .. round - 1, t \in 1 .. league.teams :
    LET own == {x \in matchesToCreate : x.round = r /\ t \in {x.home, x.away}}
    IN  Cardinality(own) = 1 \/ (Cardinality(own) = 0 /\ league.teams % 2 = 1)

\* Matches are played in Thailand, whatever the time zone of the server.
ThaiDay(t) == (t + 7 * 60) \div Day

\* A match kicks off on one of the league's weekdays, as its players see them,
\* although the code asks for the weekday in the server's local time: whenever the
\* hour at which rounds start falls on the same day there and in Thailand.  (It
\* does not for a start before 7:00 and a server in UTC, nor for one at 9:30 and
\* a server in New York.)
OnAllowedDays ==
  ServerDay(roundStartDate) = ThaiDay(roundStartDate) =>
    \A x \in matchesToCreate : (ThaiDay(x.matchDate) + 4) % 7 \in league.days

\* If one match fits between the hours of the league, every match is played
\* between them, up to the minute of tolerance, however many a round has.
WithinHours ==
  LET from(t)  == AtThaiTime(t, league.startTime)
      until(t) == AtThaiTime(t, league.endTime) + 1
  IN  \A x \in matchesToCreate :
        from(x.matchDate) + league.duration <= until(x.matchDate) =>
          /\ from(x.matchDate) <= x.matchDate
          /\ x.matchDate + league.duration <= until(x.matchDate)

\* "Move to the next available day for the NEXT round": a team that has played a
\* round plays the next one on a later day.
RoundsOnLaterDays ==
  \A x, y \in matchesToCreate :
    x.round < y.round => ThaiDay(x.matchDate) < ThaiDay(y.matchDate)
=============================================================================
