-------------------------- MODULE LiveScore_proofs --------------------------
(***************************************************************************)
(* Theorems about the live score stream, for any number of publishing      *)
(* handlers, streams and crashes.                                          *)
(***************************************************************************)
EXTENDS LiveScore, TLAPS

-----------------------------------------------------------------------------
(* Type correctness. *)

\* The variables always hold what they should.
THEOREM LiveTypeCorrect == Spec => []TypeOK
<1>1. Init => TypeOK
  BY LiveAssumption DEF Init, TypeOK, Stages, Timers
<1>2. TypeOK /\ [Next]_vars => TypeOK'
  <2> SUFFICES ASSUME TypeOK, [Next]_vars PROVE TypeOK'
    OBVIOUS
  <2> USE DEF TypeOK, Stages, Timers, match, streams
  <2>1. ASSUME NEW r \in Requests, WriteScore(r) PROVE TypeOK'
    BY <2>1 DEF WriteScore, Scored
  <2>2. ASSUME NEW r \in Requests, Publish(r) PROVE TypeOK'
    <3>1. Message(r) \in Nat
      BY DEF Message
    <3>2. inbox' \in [Streams -> Seq(Nat)]
      BY <2>2, <3>1 DEF Publish
    <3>3. QED
      BY <2>2, <3>2 DEF Publish
  <2>3. ASSUME NEW s \in Streams, Deliver(s) PROVE TypeOK'
    <3>1. Head(inbox[s]) \in Nat /\ Tail(inbox[s]) \in Seq(Nat)
      BY <2>3 DEF Deliver
    <3>2. inbox' \in [Streams -> Seq(Nat)]
      BY <2>3, <3>1 DEF Deliver
    <3>3. shown' \in Nat /\ first' \in [Streams -> Timers]
      <4>1. shown' \in {Head(inbox[s]), shown}
        BY <2>3 DEF Deliver
      <4>2. first' \in {[first EXCEPT ![s] = "heartbeat"], first}
        BY <2>3 DEF Deliver
      <4>. QED BY <3>1, <4>1, <4>2
    <3>4. UNCHANGED <<match, stage, open, subs, early, crashes>>
      BY <2>3 DEF Deliver
    <3>5. QED
      BY <3>2, <3>3, <3>4
  <2>4. ASSUME NEW s \in Streams,
               Connect(s) \/ SetUp(s) \/ Heartbeat(s) \/ LeaveEarly(s)
        PROVE  TypeOK'
    <3>1. CASE Connect(s)
      BY <3>1 DEF Connect
    <3>2. CASE LeaveEarly(s)
      BY <3>2 DEF LeaveEarly
    <3>3. CASE NotFound(s)
      BY <3>3 DEF NotFound
    <3>4. CASE Snapshot(s)
      <4>1. shown' \in {score, shown}
        BY <3>4 DEF Snapshot
      <4>2. UNCHANGED <<match, open, subs, inbox, first, early, crashes>>
        BY <3>4 DEF Snapshot
      <4>3. stage' = [stage EXCEPT ![s] = "subscribing"]
        BY <3>4 DEF Snapshot
      <4>4. QED
        BY <4>1, <4>2, <4>3
    <3>5. CASE Subscribe(s)
      BY <3>5 DEF Subscribe
    <3>6. CASE Watch(s)
      BY <3>6 DEF Watch
    <3>7. CASE Heartbeat(s)
      BY <3>7 DEF Heartbeat
    <3>8. QED
      BY <2>4, <3>1, <3>2, <3>3, <3>4, <3>5, <3>6, <3>7 DEF SetUp
  <2>5. ASSUME NEW s \in Streams, TimeOut(s) \/ Leave(s) \/ Crash(s)
        PROVE  TypeOK'
    <3>1. <<>> \in Seq(Nat)
      OBVIOUS
    <3>2. CASE CleanUp(s)
      BY <3>1, <3>2 DEF CleanUp, Released
    <3>3. CASE Crash(s)
      BY <3>1, <3>3, LiveAssumption DEF Crash
    <3>4. QED
      BY <2>5, <3>2, <3>3 DEF TimeOut, Leave
  <2>6. ASSUME NEW r \in Requests, Fail(r) PROVE TypeOK'
    BY <2>6 DEF Fail
  <2>7. CASE UNCHANGED vars
    BY <2>7 DEF vars
  <2>8. QED
    BY <2>1, <2>2, <2>3, <2>4, <2>5, <2>6, <2>7 DEF Next, Stream
<1>3. QED
  BY <1>1, <1>2, PTL DEF Spec

-----------------------------------------------------------------------------
(* Connections that stay. *)

\* A stream whose set-up has not come that far has no subscription and no
\* messages; one that has started is open or was torn down early; a viewer has
\* one stream at a time.
Held ==
  /\ \A s \in Streams : stage[s] \notin {"subscribed", "watching"} =>
                          s \notin subs /\ inbox[s] = <<>>
  /\ \A s \in Streams : stage[s] # "free" => open[s] \/ s \in early
  /\ \A s, t \in Streams : open[s] /\ open[t] => s = t

LEMMA HeldKept == Spec => [](TypeOK /\ Held)
<1>1. Init => Held
  BY DEF Init, Held
<1>2. TypeOK /\ Held /\ [Next]_vars => Held'
  <2> SUFFICES ASSUME TypeOK, Held, [Next]_vars PROVE Held'
    OBVIOUS
  <2> USE DEF TypeOK, Held, match, streams
  <2>1. ASSUME NEW r \in Requests, WriteScore(r) PROVE Held'
    BY <2>1 DEF WriteScore
  <2>2. ASSUME NEW r \in Requests, Publish(r) PROVE Held'
    BY <2>2 DEF Publish
  <2>3. ASSUME NEW s \in Streams, Connect(s) PROVE Held'
    BY <2>3 DEF Connect
  <2>4. ASSUME NEW s \in Streams, SetUp(s) PROVE Held'
    BY <2>4 DEF SetUp, NotFound, Snapshot, Subscribe, Watch
  <2>5. ASSUME NEW s \in Streams, Deliver(s) PROVE Held'
    BY <2>5 DEF Deliver
  <2>6. ASSUME NEW s \in Streams, Heartbeat(s) \/ LeaveEarly(s) PROVE Held'
    BY <2>6 DEF Heartbeat, LeaveEarly
  <2>7. ASSUME NEW s \in Streams, TimeOut(s) \/ Leave(s) PROVE Held'
    BY <2>7 DEF TimeOut, Leave, CleanUp, Released
  <2>8. ASSUME NEW s \in Streams, Crash(s) PROVE Held'
    BY <2>8 DEF Crash
  <2>9. CASE UNCHANGED vars
    BY <2>9 DEF vars
  <2>10. ASSUME NEW r \in Requests, Fail(r) PROVE Held'
    BY <2>10 DEF Fail
  <2>11. QED
    BY <2>1, <2>2, <2>3, <2>4, <2>5, <2>6, <2>7, <2>8, <2>9, <2>10 DEF Next, Stream
<1>3. QED
  BY LiveTypeCorrect, <1>1, <1>2, PTL DEF Spec

\* A connection to Redis outlives its stream only if the stream was torn down
\* before its set-up had resolved: the clean-up function releases all others.
THEOREM OnlyEarlyLeak == Spec => []LeaksOnlyEarly
<1>1. TypeOK /\ Held => LeaksOnlyEarly
  BY DEF TypeOK, Held, LeaksOnlyEarly
<1>2. QED
  BY HeldKept, <1>1, PTL

-----------------------------------------------------------------------------
(* The order in which scores are seen. *)

\* What is on its way to a stream is in order: no older than what the viewer sees,
\* no newer than what is stored.
Queued(s) ==
  \A i \in 1 .. Len(inbox[s]) :
    /\ shown <= inbox[s][i] /\ inbox[s][i] <= score
    /\ \A k \in i .. Len(inbox[s]) : inbox[s][i] <= inbox[s][k]

\* If each score is published before the next is written, what is about to be
\* published is the stored score, and so the viewer's stream is in order.
InOrder ==
  serial => /\ \A r \in Requests : pc[r] = "publish" => value[r] = score
            /\ shown <= score
            /\ \A s \in Streams : open[s] => Queued(s)

\* A queue that stays as it is, or is empty, stays in order.
LEMMA StaysQueued ==
  ASSUME NEW s \in Streams, shown' = shown, score' = score, inbox'[s] = inbox[s], Queued(s)
  PROVE  Queued(s)'
BY DEF Queued

LEMMA EmptyQueued == ASSUME NEW s \in Streams, inbox'[s] = <<>> PROVE Queued(s)'
<1>1. Len(inbox'[s]) = 0
  OBVIOUS
<1>2. \A i \in 1 .. 0 : FALSE
  OBVIOUS
<1>3. QED
  BY <1>1, <1>2 DEF Queued

\* The stored score may grow.
LEMMA ScoreGrows ==
  ASSUME TypeOK, NEW s \in Streams, shown' = shown, score' = score + 1,
         inbox' = inbox, Queued(s)
  PROVE  Queued(s)'
<1>1. score \in Nat /\ inbox[s] \in Seq(Nat)
  BY DEF TypeOK
<1>2. \A i \in 1 .. Len(inbox[s]) : inbox[s][i] \in Nat
  BY <1>1
<1>3. \A i \in 1 .. Len(inbox[s]) : inbox[s][i] <= score + 1
  BY <1>1, <1>2 DEF Queued
<1>4. QED
  BY <1>3 DEF Queued

\* The stored score may be published.
LEMMA ScorePublished ==
  ASSUME TypeOK, NEW s \in Streams, shown' = shown, score' = score, shown <= score,
         inbox'[s] = Append(inbox[s], score), Queued(s)
  PROVE  Queued(s)'
<1>1. score \in Nat /\ shown \in Nat /\ inbox[s] \in Seq(Nat)
  BY DEF TypeOK
<1>2. PICK n \in Nat : n = Len(inbox[s])
  BY <1>1
<1>3. /\ Len(inbox'[s]) = n + 1 /\ inbox'[s][n + 1] = score
      /\ \A k \in 1 .. n : inbox'[s][k] = inbox[s][k]
  BY <1>1, <1>2
<1>4. /\ \A k \in 1 .. n : inbox[s][k] \in Nat /\ shown <= inbox[s][k] /\ inbox[s][k] <= score
      /\ \A k \in 1 .. n : \A m \in k .. n : inbox[s][k] <= inbox[s][m]
  BY <1>1, <1>2 DEF Queued
<1>5. ASSUME NEW i \in 1 .. n + 1
      PROVE  /\ shown' <= inbox'[s][i] /\ inbox'[s][i] <= score'
             /\ \A k \in i .. n + 1 : inbox'[s][i] <= inbox'[s][k]
  <2>1. CASE i = n + 1
    BY <1>1, <1>3, <2>1
  <2>2. CASE i \in 1 .. n
    <3>1. ASSUME NEW k \in i .. n + 1 PROVE inbox'[s][i] <= inbox'[s][k]
      <4>1. CASE k = n + 1
        BY <1>3, <1>4, <2>2, <4>1
      <4>2. CASE k # n + 1
        <5>1. k \in i .. n /\ k \in 1 .. n
          BY <2>2, <4>2
        <5>2. QED
          BY <1>3, <1>4, <2>2, <5>1
      <4>3. QED
        BY <4>1, <4>2
    <3>2. QED
      BY <1>3, <1>4, <2>2, <3>1
  <2>3. i = n + 1 \/ i \in 1 .. n
    BY <1>5
  <2>4. QED
    BY <2>1, <2>2, <2>3
<1>6. QED
  BY <1>3, <1>5 DEF Queued

\* The first message may be taken, and seen.
LEMMA FirstTaken ==
  ASSUME TypeOK, NEW s \in Streams, inbox[s] # <<>>, inbox'[s] = Tail(inbox[s]),
         shown' \in {shown, Head(inbox[s])}, score' = score, Queued(s)
  PROVE  Queued(s)' /\ shown <= Head(inbox[s]) /\ Head(inbox[s]) <= score
<1> DEFINE b == inbox[s]
<1>1. score \in Nat /\ shown \in Nat /\ b \in Seq(Nat)
  BY DEF TypeOK
<1>2. PICK n \in Nat : n = Len(b) /\ n >= 1
  BY <1>1
<1>3. /\ Head(b) = b[1] /\ Len(inbox'[s]) = n - 1
      /\ \A i \in 1 .. n - 1 : inbox'[s][i] = b[i + 1]
  BY <1>1, <1>2
<1>4. /\ \A k \in 1 .. n : b[k] \in Nat /\ shown <= b[k] /\ b[k] <= score
      /\ \A k \in 1 .. n : \A m \in k .. n : b[k] <= b[m]
  BY <1>1, <1>2 DEF Queued
<1>5. 1 \in 1 .. n /\ \A m \in 1 .. n : b[1] <= b[m]
  BY <1>2, <1>4
<1> HIDE DEF b
<1>6. ASSUME NEW i \in 1 .. n - 1
      PROVE  /\ shown' <= inbox'[s][i] /\ inbox'[s][i] <= score'
             /\ \A k \in i .. n - 1 : inbox'[s][i] <= inbox'[s][k]
  <2>1. i + 1 \in 1 .. n /\ \A k \in i .. n - 1 : k \in 1 .. n - 1 /\ k + 1 \in (i + 1) .. n
    BY <1>2, <1>6
  <2>2. shown' = shown \/ shown' = b[1]
    BY <1>3 DEF b
  <2>3. QED
    BY <1>3, <1>4, <1>5, <2>1, <2>2
<1>7. QED
  BY <1>3, <1>4, <1>5, <1>6 DEF Queued, b

\* The score a viewer sees never goes back.
THEOREM ScoreNeverBack == Spec => NeverBack
<1>1. Init => InOrder
  <2>1. ASSUME Init, NEW s \in Streams PROVE ~open[s]
    BY <2>1 DEF Init
  <2>2. QED
    BY <2>1 DEF Init, InOrder
<1>2. TypeOK /\ Held /\ InOrder /\ [Next]_vars => InOrder' /\ (serial => shown' >= shown)
  <2>1. [Next]_vars => serial' = serial
    <3>1. ASSUME NEW r \in Requests, WriteScore(r) \/ Publish(r) \/ Fail(r)
               PROVE  serial' = serial
      BY <3>1 DEF WriteScore, Publish, Fail
    <3>2. ASSUME NEW s \in Streams, Stream(s) PROVE serial' = serial
      BY <3>2 DEF match, Stream, Connect, SetUp, NotFound, Snapshot, Subscribe, Watch,
         Deliver, Heartbeat, TimeOut, Leave, LeaveEarly, CleanUp, Crash
    <3>3. QED
      BY <3>1, <3>2 DEF Next, vars
  <2> SUFFICES ASSUME TypeOK, Held, InOrder, [Next]_vars, serial
               PROVE  /\ \A r \in Requests : pc'[r] = "publish" => value'[r] = score'
                      /\ shown' <= score' /\ shown' >= shown
                      /\ \A s \in Streams : open'[s] => Queued(s)'
    BY <2>1 DEF InOrder
  <2> DEFINE Goal == /\ \A r \in Requests : pc'[r] = "publish" => value'[r] = score'
                     /\ shown' <= score' /\ shown' >= shown
                     /\ \A s \in Streams : open'[s] => Queued(s)'
  <2>2. /\ shown \in Nat /\ score \in Nat
        /\ \A r \in Requests : pc[r] = "publish" => value[r] = score
        /\ shown <= score
        /\ \A s \in Streams : open[s] => Queued(s)
    BY DEF TypeOK, InOrder
  <2>3. ASSUME NEW r \in Requests, WriteScore(r) PROVE Goal
    <3>1. /\ score' = score + 1 /\ shown' = shown /\ open' = open /\ inbox' = inbox
          /\ \A q \in Requests : pc'[q] = "publish" => value'[q] = score'
      BY <2>3 DEF WriteScore, Scored, TypeOK, streams
    <3>2. \A s \in Streams : open'[s] => Queued(s)'
      BY <2>2, <3>1, ScoreGrows
    <3>3. QED
      BY <2>2, <3>1, <3>2
  <2>4. ASSUME NEW r \in Requests, Publish(r) PROVE Goal
    <3>1. /\ score' = score /\ shown' = shown /\ open' = open /\ value' = value
          /\ \A q \in Requests : pc'[q] = "publish" => pc[q] = "publish"
          /\ \A s \in Streams :
               inbox'[s] = inbox[s] \/ inbox'[s] = Append(inbox[s], score)
      BY <2>2, <2>4 DEF Publish, Message, TypeOK
    <3>2. \A s \in Streams : open'[s] => Queued(s)'
      BY <2>2, <3>1, ScorePublished, StaysQueued
    <3>3. QED
      BY <2>2, <3>1, <3>2
  <2>5. ASSUME NEW s \in Streams, Deliver(s) PROVE Goal
    <3>1. /\ score' = score /\ open' = open /\ value' = value /\ pc' = pc
          /\ inbox[s] # <<>> /\ inbox'[s] = Tail(inbox[s])
          /\ \A t \in Streams : t # s => inbox'[t] = inbox[t]
          /\ shown' = shown \/ (open[s] /\ shown' = Head(inbox[s]))
      BY <2>5 DEF Deliver, match, TypeOK
    <3>2. open[s] => Queued(s)' /\ shown <= Head(inbox[s]) /\ Head(inbox[s]) <= score
      BY <2>2, <3>1, FirstTaken
    <3>3. \A t \in Streams : open[t] /\ t # s => shown' = shown
      BY <3>1 DEF Held
    <3>4. \A t \in Streams : open'[t] => Queued(t)'
      BY <2>2, <3>1, <3>2, <3>3, StaysQueued
    <3>5. QED
      BY <2>2, <3>1, <3>2, <3>4
  <2>6. ASSUME NEW s \in Streams, Snapshot(s) PROVE Goal
    <3>1. /\ score' = score /\ open' = open /\ value' = value /\ pc' = pc
          /\ inbox' = inbox /\ inbox[s] = <<>>
          /\ shown' = shown \/ (open[s] /\ shown' = score)
      BY <2>6 DEF Snapshot, match, Held
    <3>2. \A t \in Streams : open[t] => t = s \/ shown' = shown
      BY <3>1 DEF Held
    <3>3. \A t \in Streams : open'[t] => Queued(t)'
      BY <2>2, <3>1, <3>2, StaysQueued, EmptyQueued
    <3>4. QED
      BY <2>2, <3>1, <3>3
  <2>7. ASSUME NEW s \in Streams, Connect(s) PROVE Goal
    <3>1. /\ score' = score /\ value' = value /\ pc' = pc /\ shown' = shown
          /\ inbox' = inbox /\ inbox[s] = <<>> /\ \A t \in Streams : open'[t] => t = s
      BY <2>7 DEF Connect, match, Held, TypeOK
    <3>2. \A t \in Streams : open'[t] => Queued(t)'
      BY <3>1, EmptyQueued
    <3>3. QED
      BY <2>2, <3>1, <3>2
  <2>8. ASSUME NEW s \in Streams,
               \/ NotFound(s) \/ Subscribe(s) \/ Watch(s) \/ Heartbeat(s)
               \/ LeaveEarly(s) \/ TimeOut(s) \/ Leave(s) \/ Crash(s)
        PROVE  Goal
    <3>1. /\ score' = score /\ value' = value /\ shown' = shown
          /\ \A r \in Requests : pc'[r] = "publish" => pc[r] = "publish"
          /\ \A t \in Streams : open'[t] => open[t] /\ inbox'[t] = inbox[t]
      BY <2>8 DEF TypeOK, match, NotFound, Subscribe, Watch, Heartbeat, LeaveEarly,
         TimeOut, Leave, CleanUp, Crash
    <3>2. \A t \in Streams : open'[t] => Queued(t)'
      BY <2>2, <3>1, StaysQueued
    <3>3. QED
      BY <2>2, <3>1, <3>2
  <2>9. CASE UNCHANGED vars
    BY <2>2, <2>9, StaysQueued DEF vars
  <2>10. ASSUME NEW r \in Requests, Fail(r) PROVE Goal
    <3>1. /\ score' = score /\ shown' = shown /\ open' = open /\ inbox' = inbox
          /\ value' = value
          /\ \A q \in Requests : pc'[q] = "publish" => pc[q] = "publish"
      BY <2>10 DEF Fail, TypeOK, streams
    <3>2. \A s \in Streams : open'[s] => Queued(s)'
      BY <2>2, <3>1, StaysQueued
    <3>3. QED
      BY <2>2, <3>1, <3>2
  <2>11. QED
    BY <2>3, <2>4, <2>5, <2>6, <2>7, <2>8, <2>9, <2>10 DEF Next, Stream, SetUp
<1>3. TypeOK /\ Held /\ InOrder /\ [Next]_vars => [serial => shown' >= shown]_vars
  BY <1>2
<1>4. TypeOK /\ Held /\ InOrder /\ [Next]_vars => InOrder'
  BY <1>2
<1>5. QED
  BY HeldKept, <1>1, <1>3, <1>4, PTL DEF Spec, NeverBack
=============================================================================
