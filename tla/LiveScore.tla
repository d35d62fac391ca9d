------------------------------ MODULE LiveScore ------------------------------
(***************************************************************************)
(* The live score stream of one match (getLiveScoreStream in               *)
(* modules/matches/matches.service.ts) and a viewer who stays: a client    *)
(* that opens the stream again whenever it ends, as EventSource does.      *)
(*                                                                         *)
(* A stream reads the match, sends it, subscribes a Redis connection of    *)
(* its own, and only then handles messages and starts its heartbeat.  The  *)
(* observable passes through TimeoutInterceptor, which ends it when it has *)
(* emitted nothing for 30 seconds, the period of the heartbeat.  The       *)
(* publishing handlers are those of MatchResults, reduced to the write of  *)
(* the score and its publication.                                          *)
(***************************************************************************)
EXTENDS Integers, Sequences

CONSTANTS
  Requests,    \* handlers that change the score; each identifier is used once
  Streams,     \* streams; one that is closed and cleaned up is used again
  MaxCrashes,  \* how often the process dies
  Regimes      \* what `serial` may be

ASSUME LiveAssumption == MaxCrashes \in Nat /\ Regimes \subseteq BOOLEAN

VARIABLES
  exists,   \* whether there is such a match
  score,    \* the stored score, as the number of changes made to it
  serial,   \* the callers' discipline: a score is published before the next is
            \* written.  Nothing in the code enforces it.
  pc,       \* where each publishing handler is
  value,    \* its `updatedMatch`
  stage,    \* how far the set-up of each stream is
  open,     \* its subscriber has not been torn down
  subs,     \* Redis: connections subscribed to match:<id>
  inbox,    \* messages on their way to a connection
  first,    \* which of a stream's two 30-second timers was started first
  early,    \* history: streams torn down before their set-up had resolved
  shown,    \* what the viewer sees
  crashes

match   == <<exists, score, serial, pc, value>>
streams == <<stage, open, subs, inbox, first, early>>
vars    == <<exists, score, serial, pc, value, stage, open, subs, inbox, first,
             early, shown, crashes>>

Stages == {"free", "reading", "subscribing", "subscribed", "watching"}
Timers == {"timeout", "heartbeat"}

Init ==
  /\ exists \in BOOLEAN
  /\ score = 0
  /\ serial \in Regimes
  /\ pc = [r \in Requests |-> "idle"]
  /\ value = [r \in Requests |-> 0]
  /\ stage = [s \in Streams |-> "free"]
  /\ open = [s \in Streams |-> FALSE]
  /\ subs = {}
  /\ inbox = [s \in Streams |-> <<>>]
  /\ first = [s \in Streams |-> "timeout"]
  /\ early = {}
  /\ shown = 0
  /\ crashes = 0

-----------------------------------------------------------------------------
(* The publishing handlers. *)

\* Mutant of Scored: the increment has the wrong sign.
ScoredBack == score - 1

Scored == score + 1

\* match.update returns the new row.
WriteScore(r) ==
  /\ exists
  /\ pc[r] = "idle"
  /\ serial => \A q \in Requests : pc[q] # "publish"
  /\ score' = Scored
  /\ value' = [value EXCEPT ![r] = Scored]
  /\ pc' = [pc EXCEPT ![r] = "publish"]
  /\ UNCHANGED <<exists, serial, streams, shown, crashes>>

\* Mutant of Message: the row as it was before the update.
MessageOfOld(r) == value[r] - 1

Message(r) == value[r]

\* redis.publish reaches the connections subscribed at this moment.
Publish(r) ==
  /\ pc[r] = "publish"
  /\ inbox' = [s \in Streams |->
       IF s \in subs THEN Append(inbox[s], Message(r)) ELSE inbox[s]]
  /\ pc' = [pc EXCEPT ![r] = "done"]
  /\ UNCHANGED <<exists, score, serial, value, stage, open, subs, first, early,
                 shown, crashes>>

\* The handler fails after match.update, with the process alive:
\* syncLeagueStandings or redis.publish rejects, and the caller gets an error.
\* The score is stored, and nobody is told of it.
Fail(r) ==
  /\ pc[r] = "publish"
  /\ pc' = [pc EXCEPT ![r] = "failed"]
  /\ UNCHANGED <<exists, score, serial, value, streams, shown, crashes>>

-----------------------------------------------------------------------------
(* A stream. *)

\* The viewer, who has no stream at the moment, opens one.
Connect(s) ==
  /\ \A t \in Streams : ~open[t]
  /\ stage[s] = "free"
  /\ open' = [open EXCEPT ![s] = TRUE]
  /\ stage' = [stage EXCEPT ![s] = "reading"]
  /\ UNCHANGED <<match, subs, inbox, first, early, shown, crashes>>

\* "Match not found": subscriber.error ends the stream, and set-up as well.
NotFound(s) ==
  /\ stage[s] = "reading" /\ ~exists
  /\ stage' = [stage EXCEPT ![s] = "free"]
  /\ open' = [open EXCEPT ![s] = FALSE]
  /\ early' = early \ {s}
  /\ UNCHANGED <<match, subs, inbox, first, shown, crashes>>

\* findUnique returns, and the match is sent, if anyone is there to receive it.
\* The timeout's clock starts again with whatever is sent.
Snapshot(s) ==
  /\ stage[s] = "reading" /\ exists
  /\ stage' = [stage EXCEPT ![s] = "subscribing"]
  /\ shown' = IF open[s] THEN score ELSE shown
  /\ UNCHANGED <<match, open, subs, inbox, first, early, crashes>>

\* Redis has the subscription.
Subscribe(s) ==
  /\ stage[s] = "subscribing"
  /\ stage' = [stage EXCEPT ![s] = "subscribed"]
  /\ subs' = subs \cup {s}
  /\ UNCHANGED <<match, open, inbox, first, early, shown, crashes>>

\* `await subscribe` returns: the message handler and the heartbeat are set.
Watch(s) ==
  /\ stage[s] = "subscribed"
  /\ stage' = [stage EXCEPT ![s] = "watching"]
  /\ first' = [first EXCEPT ![s] = "timeout"]
  /\ UNCHANGED <<match, open, subs, inbox, early, shown, crashes>>

\* A message arrives.  Without a handler it is lost; otherwise it is sent, and
\* the heartbeat is now the timer that was started first.
Deliver(s) ==
  LET seen == stage[s] = "watching" /\ open[s]
  IN  /\ inbox[s] # <<>>
      /\ inbox' = [inbox EXCEPT ![s] = Tail(@)]
      /\ shown' = IF seen THEN Head(inbox[s]) ELSE shown
      /\ first' = IF seen THEN [first EXCEPT ![s] = "heartbeat"] ELSE first
      /\ UNCHANGED <<match, stage, open, subs, early, crashes>>

\* 30 quiet seconds.
Quiet(s) == stage[s] = "watching" /\ open[s] /\ inbox[s] = <<>>

\* The heartbeat is sent.  Both timers start again at the same time, and either
\* may fire first the next time.
Heartbeat(s) ==
  /\ Quiet(s) /\ first[s] = "heartbeat"
  /\ \E timer \in Timers : first' = [first EXCEPT ![s] = timer]
  /\ UNCHANGED <<match, stage, open, subs, inbox, early, shown, crashes>>

\* Mutant of Expired: streams are exempt from the interceptor.
ExpiredNever(s) == FALSE

\* TimeoutInterceptor fires before the heartbeat.
Expired(s) == Quiet(s) /\ first[s] = "timeout"

\* Mutant of Released: clean-up leaves the subscription.
ReleasedNothing(s) == subs

\* What clean-up leaves in Redis: unsubscribe and disconnect.
Released(s) == subs \ {s}

\* Teardown of a stream whose set-up has resolved.
CleanUp(s) ==
  /\ stage' = [stage EXCEPT ![s] = "free"]
  /\ open' = [open EXCEPT ![s] = FALSE]
  /\ subs' = Released(s)
  /\ inbox' = [inbox EXCEPT ![s] = <<>>]
  /\ UNCHANGED <<match, first, early, shown, crashes>>

TimeOut(s) == Expired(s) /\ CleanUp(s)

\* The viewer's connection ends.
Leave(s) == stage[s] = "watching" /\ open[s] /\ CleanUp(s)

\* Teardown, by the viewer or the timeout, before set-up has resolved: there is
\* no clean-up function yet, set-up goes on and nobody will call it.  Another
\* stream must be left for the viewer.
LeaveEarly(s) ==
  /\ open[s] /\ stage[s] \in {"reading", "subscribing", "subscribed"}
  /\ \E t \in Streams \ {s} : stage[t] = "free"
  /\ open' = [open EXCEPT ![s] = FALSE]
  /\ early' = early \cup {s}
  /\ UNCHANGED <<match, stage, subs, inbox, first, shown, crashes>>

\* The database or Redis fails during set-up: setup() is rejected, nobody
\* handles it, and Node ends the process with all its handlers and connections.
\* Docker starts it again (restart: unless-stopped).
Crash(s) ==
  /\ stage[s] \in {"reading", "subscribing"}
  /\ crashes < MaxCrashes
  /\ crashes' = crashes + 1
  /\ pc' = [r \in Requests |-> IF pc[r] = "publish" THEN "killed" ELSE pc[r]]
  /\ stage' = [t \in Streams |-> "free"]
  /\ open' = [t \in Streams |-> FALSE]
  /\ subs' = {}
  /\ inbox' = [t \in Streams |-> <<>>]
  /\ early' = {}
  /\ UNCHANGED <<exists, score, serial, value, first, shown>>

-----------------------------------------------------------------------------
SetUp(s) == NotFound(s) \/ Snapshot(s) \/ Subscribe(s) \/ Watch(s)

Stream(s) ==
  \/ Connect(s)
  \/ SetUp(s)
  \/ Deliver(s)
  \/ Heartbeat(s)
  \/ TimeOut(s)
  \/ Leave(s)
  \/ LeaveEarly(s)
  \/ Crash(s)

Next ==
  \/ \E r \in Requests : WriteScore(r) \/ Publish(r) \/ Fail(r)
  \/ \E s \in Streams : Stream(s)

\* Queries and commands are answered, messages arrive, timers fire, and the
\* client opens the stream again.  A handler ends, one way or the other.  Nobody
\* is obliged to score or to leave.
Fairness ==
  /\ \A r \in Requests : WF_vars(Publish(r) \/ Fail(r))
  /\ \A s \in Streams :
       WF_vars(SetUp(s)) /\ WF_vars(Deliver(s)) /\ WF_vars(TimeOut(s))
         /\ WF_vars(Heartbeat(s))
  /\ WF_vars(\E s \in Streams : Connect(s))

Spec == Init /\ [][Next]_vars /\ Fairness

-----------------------------------------------------------------------------
(* Properties. *)

TypeOK ==
  /\ {exists, serial} \subseteq BOOLEAN
  /\ {score, shown, crashes} \subseteq Nat
  /\ pc \in [Requests -> {"idle", "publish", "done", "failed", "killed"}]
  /\ value \in [Requests -> Nat]
  /\ stage \in [Streams -> Stages]
  /\ open \in [Streams -> BOOLEAN]
  /\ subs \subseteq Streams
  /\ inbox \in [Streams -> Seq(Nat)]
  /\ first \in [Streams -> Timers]
  /\ early \subseteq Streams

\* The handler of the last change failed with the process alive.
Unpublished == \E r \in Requests : pc[r] = "failed" /\ value[r] = score

\* The stream is set up, and heartbeats can keep it open.
Kept(s) == stage[s] = "watching" /\ open[s]

\* A viewer who stays sees the stored score in the end, although the snapshot is
\* older than the subscription, messages that find no handler are lost and the
\* process may die between the write of a score and its publication: a stream
\* that has missed the last message is quiet, times out and is opened again.
\* There is one exception.  When the handler of the last change fails before it
\* publishes, a stream that is open by then may be kept open by its heartbeats
\* for ever, and shows the score before.
CatchesUp ==
  serial /\ exists =>
    <>[](shown = score \/ (Unpublished /\ \E s \in Streams : Kept(s)))

\* The score a viewer sees never goes back, not even from one stream to the
\* next, as long as scores are published in the order they are written.
NeverBack == [][serial => shown' >= shown]_vars

\* A torn down stream keeps its Redis connection only if it was torn down before
\* its set-up had resolved (the clean-up function did not exist yet).
LeaksOnlyEarly == \A s \in subs : open[s] \/ s \in early
=============================================================================
