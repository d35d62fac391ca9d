# A TLA+ model of the football backend

The program is a NestJS service (`src/src`) over PostgreSQL (through Prisma,
schema in `src/prisma/schema.prisma`) and Redis. It manages leagues, teams,
players, matches, the league table and live scores. Almost every endpoint is
an `async` method of a service that awaits several database statements in a
row. Only one of them (`join-requests` approval) uses a transaction. So the
state that matters lives in tables, the actors are the requests in progress,
and what is hard is what happens between two `await`s.

Paths below are relative to `src/src/modules/` unless they start otherwise.

## 1. Inventory

| Component | State | Operations | Talks to | Hard behaviour | What makes it correct |
|---|---|---|---|---|---|
| Matches (`matches/matches.service.ts`) | `Match`, `MatchEvent`, `LeagueStanding`, `PlayerStat` rows | `create`, `update` (also `reportScore`), `addEvent`; private `syncLeagueStandings`, `updatePlayerStats` | Redis channel `match:<id>`; table read by `getStandings` | old row read before, used after the write; two lines of the table in two statements; find-then-create without unique constraints; failure between statements | the table equals what the results say; every line adds up; player totals equal the event log |
| Live score (`getLiveScoreStream`) | one Redis connection and a timer per viewer | connect, message, heartbeat, time-out, disconnect | Redis, the publishing handlers | snapshot before subscription; disconnect before set-up has resolved; a score written and not published | a viewer ends up with the stored score if it was published; nothing is left behind |
| Leagues (`leagues/leagues.service.ts`) | `League.status`, fixtures, lines of the table | `updateStatus`, `update`, `generateFixtures`, `startSeason`, `remove` | `Team`, `Match`, `LeagueStanding` | four kinds of statements without a transaction; repetition after a failure; statuses of leagues and matches may be set by hand at any time | an ONGOING league has all fixtures and lines; only what was changed by hand is drawn twice; no result is lost |
| Fixture schedule (loop of `generateFixtures`) | the circle and the dates while it runs | one iteration per round | - | odd numbers, UTC against local time, negative hours, window overrun | every pair meets; one match per team and round; right day, right hours |
| Teams (`teams/teams.service.ts`) | `Team.leagueId`, `Team.status` | `create`, `update`, `updateStatus`, `joinLeague`, `removeFromLeague`, `remove` | `League` | count-then-write; decisions on rows read earlier | never more approved teams than `maxTeams`; approved teams stay in an ONGOING league |
| Players (`players/players.service.ts`), join requests (`join-requests/join-requests.service.ts`) | `Player`, `JoinRequest` | create, update, remove; request, approve, reject | `Team`, `League` | squad limit and shirt number are check-then-act; request read before the transaction, which sees what others commit meanwhile; unique constraint on user, team and status | squad limit, unique numbers, a request is decided once, approval is all or nothing |
| Accounts (`auth/auth.service.ts`, `user/user.service.ts`) | `User`, `OauthAccount` | register, Google sign-in, forgot, reset, change password, second factor, deactivation | breach check, Google, mail | rows read, then written after hashing or a call outside; two endpoints make a second factor | one user per Google account; a factor that is on can be verified; a reset token sets one password |
| Sessions (`auth/auth.service.ts`) | cache keys `refresh:`, `blacklist:`, `login_attempts:`, `login_attempts_ip:`, `account_locked:`, `ip_locked:` | login, refresh, logout, the guard of every other request | cache (Redis), `User` | counters by read and write; token read then deleted; entries expire; restart | a redeemed token is refused; a lock is earned and no failure forgotten |
| Mail, health, CSRF guard, filters, configuration | a row, or nothing | single statements, pure functions | - | - | - |

`PROJECT.json` lists the hazards line by line.

## 2. Modules

| Module | Models |
|---|---|
| `MatchResults` | the match handlers and the tables they write, one action from one `await` to the next |
| `LeagueTable` | extends it: properties that sum the table, the player statistics, and the refinement |
| `ResultLedger` | what the table promises, without handlers: a result is posted to both lines before it changes again, and always in the end |
| `Season` | teams entering and being judged, `generateFixtures`, `startSeason`, statuses, matches made and changed by hand |
| `Fixtures` | the dates and pairings `generateFixtures` computes |
| `Roster` | players, join requests and the transaction that approves them |
| `LiveScore` | one match's stream, its set-up, timers and clean-up, and a viewer who stays |
| `Accounts` | the handlers that write `User` and `OauthAccount` |
| `Sessions` | extends it: login, lockout, refresh, logout, the guards, expiry and restart |
| `MatchResults_proofs`, `MatchLedger_proofs`, `LeagueTable_proofs` | theorems about `MatchResults`, its ledger and the sums of `LeagueTable` |
| `Season_proofs`, `Fixtures_proofs`, `Roster_proofs`, `LiveScore_proofs`, `Sessions_proofs` | theorems about the module each is named after |
| `MCMatchResults`, `MCSeason`, `MCFixtures`, `MCRoster`, `MCLiveScore`, `MCAuth` | values of the constants for TLC |

`MatchResults`, `Season`, `Roster`, `LiveScore` and `Sessions` are checked side
by side: they meet in rows that one of them writes and the others only read or
abstract (`Season.CreateMatch`, `Season.UpdateMatch` and `LiveScore.WriteScore`
are one-step versions of handlers of `MatchResults`; `Roster` takes the league's
limit as a constant).
`LeagueTable` and `ResultLedger`, `Sessions` and `Accounts` are composed.

Operators called a *mutant* in their comment are not part of any
specification: each is a plausible slip in the definition that follows it,
kept to show that a property notices.

### MatchResults

`matches`, `standings`, `statRows`, `events` are the tables; `standings[t]` is
a sequence because the schema has no unique constraint on league and team, and
`findFirst` may return any row. `live[m]` is the last score published for a
match. A request has a program counter `pc` and the locals of the handler:
`on` (the id), `dto`/`event` (the body), `old` and `new` (`match`,
`updatedMatch`), `found` (what `findFirst` returned). `posted` is history: it
adds up what each match has added to its teams, and no action reads it.

`update` is `BeginUpdate`, `WriteMatch`, then `FindHome`, `ApplyHome`,
`FindAway`, `ApplyAway` when a COMPLETED row is involved (a side whose delta is
zero is skipped, as in the code), then `PublishUpdate`. `addEvent` is
`BeginEvent`, `CreateEvent`, `ScoreGoal`, `PublishGoal`, `FindStat`,
`ApplyStat`, the last four as the event needs them. A statement of PostgreSQL
is atomic (`increment` included); a handler is not. `Fail` stops a handler at
any await. A request that is refused because the match does not exist changes
nothing and is not an action. `matchDate`, `minute` and `commentary` are left
out: nothing modelled depends on them.

What the callers do and the code does not enforce is a constant of the model,
so that every property says what it needs:

| Constant | Meaning when TRUE |
|---|---|
| `SerialPerMatch` | requests for one match do not overlap (those for different matches do) |
| `Failures` | handlers may die |
| `LateGoals` | goals are logged on COMPLETED matches |
| `TableInitialised` | `startSeason` has created a line for every team |

### Season

`status`, `team`, `matches`, `standing` are tables (`standing` counts the lines
of a team). A row of `matches` has its league, the pair of teams, the leg it was
drawn for (`ByHand` if it was not drawn), its status, and `by`, the request that
made it, which tells duplicates apart; `touched` is history: PATCH has changed
its status. All five values of `MatchStatus` occur: `deleteMany` in
`generateFixtures` removes what is DRAFT or SCHEDULED and keeps the rest.

Rows of teams and leagues come and go: `ABSENT` before `CreateTeam` or
`CreateLeague`, `REMOVED` after `DeleteTeam` or `DeleteLeague`, which do what
the foreign keys say (lines of the table go too, teams lose their league, a
match stops the deletion). A write that refers to a row that is gone is
refused. Each handler is again a sequence of actions: `BeginGenerate`,
`ReadTeams`, `ClearFixtures`, `InsertFixtures`; `BeginStart`, `CountDrafts`,
`ScheduleDrafts`, `ReadApproved`, then `NextTeam`/`CreateStanding` per team,
`GoOngoing`; and those of the team handlers. `job` holds a handler's locals
and is empty once it has ended. The registration window and the minimum squad of
`joinLeague` are a free choice between refused and accepted, and so is the
presence of join requests that stop the deletion of a team.

`CreateMatch` is `POST /matches`, with any pair (a team against itself too) and
any status, as the constant `HandMade` lists them. `UpdateMatch` is
`PATCH /matches/:id` (also the report of a result): any status on any match, but
no result on a DRAFT; a COMPLETED match gives each of its teams a line of the
table (`WithLines`). It is one step here, and changes no score: its awaits are
the subject of `MatchResults`.

The variable `serial`, fixed at the start, says whether requests follow each
other; properties that need this say so. The other regimes are the constants
`Failures`, `UncheckedStatus` (statuses set through PATCH of a team),
`RosterFrozen` (teams change during REGISTRATION only) and `ForwardOnly`
(statuses set by hand only from REGISTRATION to PRE_SEASON, leagues made in
REGISTRATION and deleted there, matches made and updated by hand only in an
ONGOING league). `maxTeams` is a constant: PATCH of a league may lower it below
the teams already approved, which no check in the code looks at.

### Fixtures

A step is one iteration over the rounds. Times are minutes since the epoch;
`AtThaiTime` is `setUTCHours(h - 7, m)` with its effect on the date when the
hour is negative, `GetDay` the weekday in the server's zone. The settings and
`serverZone` are picked in `Init`; the zone is any number of minutes, ahead of
UTC or behind it, and does not change (no daylight saving). `ThaiDay` is the day
as players see it, and belongs to the properties only. `allowOverlap` is
constantly true in the code, and so in the model.

### Roster

`player` is the Player table by user (`userId` is unique; `by` tells a row from
one created later), `joins` the JoinRequest table with its unique key on user,
team and status. A handler's `job` has its parameters and the rows it has read
(`seen`).

The approval is a transaction, which PostgreSQL runs as READ COMMITTED: a
statement sees what is committed when it runs. `CountSquad` and `FindPlayer`
read, `CheckNumber` too (`validateJerseyNumber` uses the client outside the
transaction), and `ClearOthers` is `deleteMany`: it picks the rows that are
there by then (`job[r].gone`), so a request made later survives it. They vanish
for others at the commit and are locked until then (`Locked`): whoever wants to
write or collide with one waits. `CommitApproval` is the rest of the transaction
in one step, because each of its statements locks the one row it writes and
nobody sees the write before the commit: it writes player and request, or, if
the request was deleted, the player is gone or the unique key is violated, all is
rolled back. `Abort` ends a transaction at any of its awaits (a deadlock, the
time limit of Prisma). `update` of a player leaves the number alone when the body
has none and clears it when the body says null.

`serial` means here that requests about one user or one team do not overlap;
`NumbersGiven` that every approval carries a number.

### LiveScore

Scores are numbered by the changes made to them. A stream goes through
`Connect`, `Snapshot`, `Subscribe`, `Watch`; messages published to its
connection wait in `inbox` and are lost if they arrive before `Watch`, because
the handler is not set yet. Two 30-second timers run: the heartbeat's, and that
of `TimeoutInterceptor`, which starts again at every emission. Only their order
matters: `first` is the one that fires first on a quiet stream. `LeaveEarly` is
a teardown before `setup()` has resolved, when `cleanup` is not there yet.
A handler that has written a score ends in one of three ways: `Publish`; `Fail`,
when `syncLeagueStandings` or `redis.publish` rejects and the process lives on
with its streams; or `Crash`, the unhandled rejection of `setup()`, which ends
the process with all its handlers and streams. The viewer opens the stream again
when it ends, as an `EventSource` does. `serial` means that a score is published
before the next one is written.

### Accounts and Sessions

`account` is the User table by email, `oauth` the linked Google accounts.
Secrets, reset tokens and token pairs are named by the request that made them,
so a token that is presented is one that exists. Hashing, signing, mail and
Google itself are awaits that touch no shared state. `holder`, `access`,
`refresh`, `blacklist`, `attempts` and `locked` are the token pairs and the
cache. `logout` takes the user from the access token and does not ask whose the
refresh cookie is, so any token may come with it. It writes `blacklist:` entries;
no code under `src` reads them, and so no action does. Every entry may expire
(`Expire`), and `Restart` fails the requests in progress and loses the cache or
keeps it. The counters are written by `CountEmail`, `CountIp` (read),
`SetEmail`, `SetIp`, `LockEmail`, `LockIp`; every other endpoint starts with the
guard's `Validate`. `wrong` is history: failures since the last success or
expiry. A lock lives as long as its counter and is set after it, so without
overlap it expires later.

## 3. Runs

| Run | Instance | Shows |
|---|---|---|
| `MatchSerial` | 2 matches sharing a team, 3 requests, 4 updates, 3 events, table without lines | `Settled`, `LiveSettled`, `TableExact`: with one request per match at a time the table and the live score follow the results through corrections and withdrawals, although two handlers may both find team A without a line |
| `MatchOverlap` | same matches, 3 overlapping requests that may fail, late goals, initial COMPLETED rows | `OneStandingPerTeam`, `RowArithmetic`, `PlayerTally`; `TableBalanced`: whatever is counted twice is counted twice for both |
| `MatchLedger` | 2 matches, 2 requests, fairness | `ImplementsLedger`, with its liveness |
| `MatchRetry` | a failing report and its repetition | violates `ReportUpdatesTable` |
| `SeasonStart` | 1 league of 2 places, 3 teams, 2 legs, 5 requests one after the other that may fail, one of them perhaps a match made by hand; any status for matches once the league is ONGOING | `CapacityRespected`, `SeasonReady` |
| `SeasonRoster` | 2 leagues, 2 teams, created and deleted, 3 requests one after the other that may fail, roster and statuses (of leagues and matches) free; and 1 league with 3 such requests that overlap | `PlayedKept` in both; in the first `ApprovedStay`, and `FixturesOnce`: a pair and leg has two drawn matches only if the status of one was changed by hand |
| `FixturesSchedule` | 2-8 teams, both formats, 2 dates, 3 sets of weekdays, 4 opening (from 07:00) and 3 closing times, 2 durations, server in New York, UTC, Thailand or Japan | `EveryPairMeets`, `OneMatchPerRound`, `WithinHours`, `RoundsOnLaterDays`; `OnAllowedDays`, where the start hour falls on the same day at the server and in Thailand |
| `FixturesEarly` | start at 06:30 Thai time | violates `RoundsOnLaterDays` |
| `Roster` | 2 users, 2 teams (one place, no limit), 1 number, 3 requests in both regimes; players with and without teams, a request made again after a rejection | `SquadWithinLimit`, `UniqueNumbers`, `DecidedOnce` in the first regime; `ApprovalSigns` in both: approval is all or nothing, also against a rejection and a new request in the middle of it |
| `RosterReject` | 1 user, 1 team, 4 requests one after the other | violates `RejectionWorks` |
| `LiveScore` | 3 scores whose handlers may fail before they publish, 2 streams used again and again, 1 crash, fairness | `CatchesUp` (with its exception), `NeverBack`, `LeaksOnlyEarly` |
| `Auth` | 2 accounts (one may not exist), an administrator, 1 address, 2 passwords, 1 Google account, 2 old token pairs, 3 requests in both regimes, 2 expiries or restarts | `FailuresCounted`, `LockEarned`, `TwoFactorUsable`, `GoogleLinked`, `TokenSpentOnce`, `ResetCurrent` |

The violations are disagreements between the code and what it says:

* `MatchRetry`: "Report match result (scores) and auto-update standings"
  (`matches.controller.ts:61`). After a failed synchronisation the repetition
  sees a delta of zero and succeeds without touching the table.
* `FixturesEarly`: "Move to the next available day for the NEXT round"
  (`leagues.service.ts:286`) does not move when `startH - 7` is negative.
* `RosterReject`: "Reject a join request" (`join-requests.controller.ts:59`)
  fails when the same user was rejected by the team before, because
  `@@unique([userId, teamId, status])` (`schema.prisma:161`) allows one REJECTED
  row: the second request stays PENDING.

Other disagreements are in the models without a run of their own. `addEvent`
changes the score of a DRAFT match, which `update` refuses
(`matches.service.ts:83`). Two approvals that overlap exceed "League is full"
(`teams.service.ts:107`). `startSeason` that failed after scheduling the drafts
answers its repetition with "No fixtures found" (`leagues.service.ts:165`). A
match set to LIVE or CANCELLED before the season is kept by `deleteMany`
(`leagues.service.ts:225`), and its pair is drawn again beside it. The weekday is
asked in the server's zone (`leagues.service.ts:251`, `:290`): a league that
starts at 06:30 with a server in UTC, or at 09:30 with one in New York, plays on
the day after the one it allows. When a request is rejected and made again while
it is being approved, the new one stays PENDING beside the APPROVED one.

**Bounds.** Two matches that share one team are the least in which handlers of
different matches meet in a line; three requests allow a first result, a
correction and a third handler in the middle of either. Scores are those of
the few bodies in `MCMatchResults`: they include a win, a draw, a result turned
round, a single score corrected and a result withdrawn. Two places and three
teams are the least that can exceed a capacity; five requests let a season be
drawn, fail, be repaired and start. A draw, a start (complete or not) and a
second draw take three requests, and so does a request rejected and made again
while it is being approved. One place and two users are the least that can exceed
a squad. The four zones are behind UTC, at it, at the players' time and ahead of
it; with the four opening times server and players agree on the day in some cases
and differ in either direction in others. Two
streams are one that is being torn down and the next. A lock needs two failures
instead of five (three of an address instead of twenty): the third request
meets the lock. `Menus` lists which operations occur together in
`Auth`: those that write the same keys and columns. Operations and events of
different menus do not meet; the run leaves out, for instance, a login while a
reset writes the password, and a restart after an expiry. Requests are
interchangeable and no formula orders them, hence the symmetry; it is used for
invariants and for properties of single steps, never where liveness is checked.
Eight teams need seven rounds, enough for every case of the circle with and
without a BYE, and for a day that overruns its window. Nothing else is
bounded, apart from `MaxEvents` (expiries and restarts in `Auth`: two, one for
a counter and one for its lock) and `MaxCrashes` (one): the counters are finite
because each request is used once.

**Deadlock** is checked in every run. `Terminated` (`Finished` in `Fixtures`)
lets the bounded instance stop when all requests are answered; a viewer of
`LiveScore` never stops.

**Fairness** is weak fairness of the steps of a handler that has started: a
query that was sent is answered and Node runs its continuation. `Fail` is not
fair, and no client is obliged to send anything. `MatchLedger` uses it, and so
does `LiveScore`: queries and Redis commands are answered, messages that were
published arrive, timers fire, and the viewer opens the stream again. Nobody is
obliged to score or to leave, and teardown and crashes are not fair. A handler
that has written a score goes on: it publishes or it fails (fairness of the two
together, so that it may fail every time). Under this `CatchesUp` holds although
messages are lost between snapshot and handler and scores written before a crash
are never published: a stream that missed the last message has received none, so
it is quiet, its first timer is the interceptor's, and it is ended and opened
again. The exception is in the property: when the handler of the last
change failed and the process did not, a stream in which the heartbeat was
started first is kept open by it and shows the score before (`Unpublished` and
`Kept`).
The other modules state no fairness.

## 4. Proofs

Every invariant and every action property that a passing run checks is also a
theorem, for any sets and any values of the constants that satisfy the named
`ASSUME`s. TLC evaluates the `ASSUME`s of every instance; apart
from the one about `POST /matches` in the first row, the code establishes them:

| Assumption | What it says | Why |
|---|---|---|
| `MatchesAssumption` | finitely many teams and matches, two teams of a match differ, `null` is no player | the circle method of `generateFixtures` pairs different teams; `POST /matches` does not check it, and is taken to be called with two different teams (the table has no meaning for a team that plays itself); tables are finite, and their sums are sums over sets |
| `DtoAssumption`, `RegimeAssumption` | bodies and rows have their types | the DTOs' validators and the schema |
| `SeasonAssumption` | finitely many teams, at the start a team's league exists; a leg is never numbered `ByHand`, and a match made by hand has one team or two | `Team.leagueId` is a foreign key; the legs are 1 and 2; `CreateMatchDto` has two teams, perhaps the same |
| `FixturesAssumption` | at least two teams, at least one weekday, a match takes at least 30 minutes; the server's offset from UTC is a number of minutes | checks of `generateFixtures` and its DTO; the offset may be negative, and that it stays the same leaves daylight saving out |
| `RosterAssumption` | each row of the initial JoinRequest table has an id of its own, no request's | primary keys are generated |
| `AccountsAssumption` | initially no reset token and no second factor without a secret; names of tokens, requests, emails and addresses do not clash | only `forgotPassword` and the two second-factor handlers write these columns; cache keys have prefixes |
| `LiveAssumption` | bounds of the instance are numbers | - |

A theorem whose property needs a discipline of the callers names it after
`ASSUME`, with the constants of section 2, exactly as the run that checks the
property sets them; where the discipline is a variable (`serial`) it is part of
the property. The arguments, by module:

**`MatchResults_proofs`.** `TypeCorrect`: `TypeOK` is inductive; it includes
that a handler looking for a statistic has a player (`StatsHavePlayer`).
`RowsConsistent`: every delta satisfies the linear equations of a line, and so
does a line with a delta added. No regime is assumed.

**`MatchLedger_proofs`.** `OneStanding` from `Seeded`: a handler about to write
has found a line. `TableFollowsResults` under `ExactRegime` (serial per match,
no failures, no late goals, no match created COMPLETED): `Settled` only speaks
of matches nobody works on; `ExactInv` says what is posted at every point of a
handler (`Stage`: the old result until a line is written, then the new one),
what a lookup may have found (`Lookup`), that a team without a line has been
posted nothing, and that handlers do not share a match (`Alone`).
`HandlersImplementLedger`: from the same invariant every step is a step of
`ResultLedger` or a stutter. The theorem lets the ledger hold any row
(`MatchRow`); TLC enumerates the rows and uses the finite set `LedgerRows` of
`MCMatchResults`, which holds every score that the run can reach.
`ViewersSeeStoredScore` needs less than the ledger: late goals and matches
created COMPLETED are allowed, because every write of a score is published.

**`LeagueTable_proofs`** proves what adds rows up. The community modules define
a sum over a set by recursion over a `CHOOSE`n element, and no theorem of the
library speaks of it; the first part unfolds that recursion: it has a solution
over every finite set, all solutions agree, and a sum of integers may be taken
apart at any of its elements (`SumRemove`, by well-founded induction over the
proper subsets). Then:

* `ColumnsFollowResults` (`TableExact`) has two halves. `AddedUp` holds in every
  regime: each column of a team's lines, however many, is the sum of what its
  matches have posted, because an apply step writes and posts the same delta to
  a row that is still there (`Located`: rows are never removed between
  `findFirst` and the write). Under `ExactRegime` what was posted is what the
  results are worth (`Settled`).
* `BothSidesCount` (`TableBalanced`): with overlapping updates nothing is known
  of a single line, and the table is unbalanced while a handler is between the
  home team and the away team. `Level(c)` is column `c` over the whole table
  plus what the handlers halfway still owe it; the two deltas of a handler
  mirror each other (`DeltaMirrored`), so `Level("won") = Level("lost")` and
  so on are inductive (`Mirrored`). It needs lines for all teams: without one a
  handler that withdraws a result posts nothing.
* `TalliesMatchLog` (`PlayerTally`): what a player's rows add up to plus the
  handlers that have logged an event and not yet credited it (`Due`) are the
  events logged (`TallyInv`); a request logs one event at most (`LoggedOnce`).

**`Season_proofs`.** `TypeInv` adds which locals a handler has at which label.
`ReferencesHold` (not checked by a run) says that the foreign keys between
leagues, teams, matches and lines are kept by every handler. `ResultsKept`
needs the types only: no write to the Match table but `UpdateMatch` touches a
match that is COMPLETED. The other properties rest on `Undisturbed`: while
requests follow each other the one active handler knows that what it has read is
still so (`Knows`, by label). From it `CapacityHolds`, if no status is written
past the check (`~UncheckedStatus`), and `ApprovedStayInSeason`. `SeasonIsReady`
needs `Discipline` (rosters frozen, statuses set forward only, no season running
at the start) and `Ready`: what the tables of a league look like in each of its
statuses (nothing drawn, or exactly the pairs of the approved teams) and how far
each handler has come (`ReadyHandler`), which survives a failure at any label.
`NothingDrawnTwice` assumes nothing of rosters, statuses or hand-made matches: a
drawn match whose status PATCH has not changed is DRAFT or SCHEDULED, so
`deleteMany` clears it, and when the insert comes no such match is left
(`ClearedBefore`).

**`Roster_proofs`.** `TypeInv` with `Fits` (the locals by label) and `KeysKept`
(an id names one row, of a request that is done). `ApprovalIsWhole` holds in
every interleaving, and rests on `NoneMissed`: at the commit, as long as the
request that is approved is PENDING, the user's other requests to the team are
those the transaction has deleted. No new one can be made meanwhile, because the
unique key allows one PENDING row, and a step of others keeps the rows the
transaction has locked (`RowsStay`, `StepMissed`). Once somebody else has decided
the request there is room for a new one, and the property claims nothing of it.
`Separate`: while no two requests
about one user or team overlap, what a handler has read is true until it writes
(`Knows`). From it `SquadsFit`, `NumbersUnique` (with `NumbersGiven`: an
approval without a number is not checked) and `DecisionsStand`.

**`LiveScore_proofs`.** `OnlyEarlyLeak` from `Held`: a stream that is not closed
early holds what its stage says. `ScoreNeverBack` from `InOrder`: if each score
is published before the next is written, what waits in an inbox is sorted,
between what the viewer sees and what is stored.

**`Sessions_proofs`.** `TypeInv` with `Fits` and `Owned` (whatever names a user
names one that exists; no user disappears). Then one invariant per property, in
every interleaving unless said otherwise: `Secured` (secrets are replaced, never
removed), `Linked`, `Spent` (a token that was redeemed or revoked is not in the
cache and cannot be issued again), `Backed` (a count, stored or about to be,
never exceeds the logins counted for its key: a set's cardinality), and, for
requests that follow each other, `ResetKept` with `ResetHeld`, and `NoneLost`
(the counters lag behind the history only where a handler is about to write
them).

**`Fixtures_proofs`** proves the circle method for any number of teams: after
`r` turns place `i` holds `Occupant(i, r, k)` (`Circled`), `Faces` says who
meets whom, and arithmetic modulo `k` gives that two teams meet in one round of
a cycle and a team has one opponent in each: `ScheduleComplete` and
`NobodyDrawnTwice`, for every setting. `PlayedWithinHours` and `RoundsAdvance`
assume that play starts at 07:00 Thai time or later (`StartAfterSeven`): before
seven the UTC hour is negative, and `FixturesEarly` shows what happens then.
`DaysAreAllowed` has no such hypothesis, for hours or for the server's zone; the
condition is in the property, that the start hour falls on one day at the server
and in Thailand. `OnDays` says of every match that its Thai day is one whose start
hour the server finds on an allowed weekday, and `DaysOf` what that hour's days
are. A round that starts at seven or later kicks off within one Thai day; one that
starts earlier has its closing time on the UTC day before, so all its matches kick
off at once (`InParallel`).

Only model-checked: the liveness of `ImplementsLedger` and `CatchesUp`, which
need fairness and `ENABLED`, out of the prover's reach. `ImplementsLedger` is
proved up to that. The properties of `MatchRetry`, `FixturesEarly` and
`RosterReject` do not hold.

## 5. Not modelled

* Reads (`findAll`, `getStandings`, `getProfile`, ...) change no state.
* Fields no property tells apart: names, logos, dates, positions, venues, the
  profile of a user, and the league's limits, which are constants.
* `CsrfGuard` compares a cookie and a header of one request; the other guards
  are in `Sessions`.
* `TimeoutInterceptor` outside the stream: it answers after 30 seconds and the
  handler goes on, so for the tables nothing happens.
* Mail, health, cryptography, formatting, logging and configuration are input
  and output. `seed-tournament.ts` fills an empty database once, by itself.
* Rate limits of the throttler: a library, configured and not called.
* Two replicas of the service behave as more requests of the same kind, except
  in `LiveScore`, where a crash ends all of them.

## 6. Plan

Done: all modules of section 2, checked, and the theorems of section 4: every
safety property a run checks is proved, under the hypotheses listed there.

Next:

1. Weaker hypotheses. `BothSidesCount` with failures: `Mirrored` restricted to
   the handlers that did not fail, with what the failed ones owe as a term of
   `Level`. `SeasonIsReady` without `RosterFrozen`, for the fixtures of the
   teams that were approved when they were drawn.
2. Abstract specifications beside `ResultLedger`: a lockout that counts
   failures in one step, refined by `Sessions` while requests follow each other;
   a token that is issued, spent and gone, refined in every interleaving.
3. In `Accounts`, that a linked Google account never changes its user, and that
   a password changes only through reset or change: properties to check first.
