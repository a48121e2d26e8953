---------------------------- MODULE IngestProofs ----------------------------
(* Machine-checked proofs about Ingest, for every value of its constants. *)
EXTENDS Ingest, FiniteSetTheorems, TLAPS

Ended == {"backoff", "dropped"}

\* The call of a batch, as a pair.
LEMMA CurrentIsCall ==
  ASSUME TypeOK, NEW b \in Batch
  PROVE  Current(b) \in Call /\ Current(b)[1] = b /\ Current(b)[2] = attempt[b]
  BY DEF TypeOK, Current, Call

\* A call is the pair of its batch and its attempt.
LEMMA CallIsPair ==
  ASSUME NEW c \in Call
  PROVE  c[1] \in Batch /\ c[2] \in 0..MaxRetries /\ c = <<c[1], c[2]>>
  BY DEF Call

----------------------------------------------------------------------------
(* Type correctness.  A batch is called again only while retries are left, and *)
(* refused at most once per call.                                            *)

Counted ==
  \A b \in Batch :
    /\ refused[b] <= attempt[b] + IF send[b] \in Ended THEN 1 ELSE 0
    /\ send[b] = "backoff" => attempt[b] < MaxRetries

Typed == TypeOK /\ Counted

\* What Failed does to a batch that is being called.
LEMMA FailedTyped ==
  ASSUME IngestAssumption, Typed, NEW b \in Batch, Failed(b), send[b] = "calling"
  PROVE  /\ send' \in [Batch -> {"new", "calling", "backoff", "sent", "dropped"}]
         /\ send'[b] \in Ended
         /\ send'[b] = "backoff" => attempt[b] < MaxRetries
         /\ send'[b] = "dropped" => attempt[b] = MaxRetries
         /\ \A a \in Batch : a # b => send'[a] = send[a]
  BY DEF Typed, TypeOK, Failed, FailedAfter, Ended, IngestAssumption

LEMMA TypedStep ==
  ASSUME IngestAssumption, Typed, [Next]_vars
  PROVE  Typed'
<1> USE DEF Typed, TypeOK, Counted, Inject, IngestAssumption
<1>1. ASSUME NEW b \in Batch, Begin(b)  PROVE Typed'
  BY <1>1 DEF Begin, Ended
<1>2. ASSUME NEW b \in Batch, Refused(b)  PROVE Typed'
  <2>1. send[b] = "calling" /\ Failed(b)
    BY <1>2 DEF Refused
  <2>2. refused[b] <= attempt[b] /\ attempt[b] \in 0..MaxRetries
    BY <2>1 DEF Ended
  <2> QED  BY <1>2, <2>1, <2>2, FailedTyped DEF Refused, Failed, FailedAfter, Ended
<1>3. ASSUME NEW b \in Batch, Break(b)  PROVE Typed'
  <2>1. send[b] = "calling" /\ Failed(b) /\ UNCHANGED <<refused, failing>>
    BY <1>3 DEF Break
  <2>2. faults' \in 0..MaxFaults
    BY <1>3 DEF Break
  <2> QED  BY <2>1, <2>2, FailedTyped DEF Failed, FailedAfter, Ended
<1>4. ASSUME NEW b \in Batch, Reply(b)  PROVE Typed'
  <2>1. CASE handler[Current(b)] = "ok" /\ send' = [send EXCEPT ![b] = "sent"]
             /\ UNCHANGED <<attempt, handler, flight, stream, server, cancelled>>
    BY <1>4, <2>1 DEF Reply, Ended
  <2>2. CASE Failed(b)
    <3>1. send[b] = "calling" /\ UNCHANGED <<faults, refused, failing>>
      BY <1>4 DEF Reply
    <3> QED  BY <2>2, <3>1, FailedTyped DEF Failed, FailedAfter, Ended
  <2> QED  BY <1>4, <2>1, <2>2 DEF Reply
<1>5. ASSUME NEW b \in Batch, Retry(b)  PROVE Typed'
  BY <1>5 DEF Retry, Ended
<1>6. ASSUME NEW b \in Batch, GiveUp(b)  PROVE Typed'
  BY <1>6 DEF GiveUp, Ended
<1>7. ASSUME NEW b \in Batch, Cancel(b)  PROVE Typed'
  BY <1>7 DEF Cancel
<1>8. ASSUME NEW b \in Batch, Arrive(b)  PROVE Typed'
  BY <1>8, CurrentIsCall DEF Arrive
<1>14. ASSUME NEW b \in Batch, Reconnect(b)  PROVE Typed'
  BY <1>14 DEF Reconnect
<1>9. ASSUME NEW c \in Call, Serve(c)  PROVE Typed'
  BY <1>9 DEF Serve, Reject, Publish, PublishThen, Acked, PublishFails
<1>10. ASSUME NEW c \in Call, Store(c) \/ Lose(c)  PROVE Typed'
  BY <1>10 DEF Store, Lose
<1>11. CASE Signal \/ Restart
  BY <1>11 DEF Signal, Restart
<1>12. CASE Exit \/ Crash
  BY <1>12 DEF Exit, Crash, Down, Running
<1>13. CASE UNCHANGED vars
  BY <1>13 DEF vars
<1> QED
  BY <1>1, <1>2, <1>3, <1>4, <1>5, <1>6, <1>7, <1>8, <1>9, <1>10, <1>11, <1>12, <1>13,
     <1>14
  DEF Next, Exporter

LEMMA TypedInit == ASSUME IngestAssumption, Init  PROVE Typed
  BY DEF Init, Typed, TypeOK, Counted, IngestAssumption, Ended

\* The state of exporters, handlers, stream and server is of its type: Send never calls
\* more than MaxRetries + 1 times.
THEOREM IngestTypeCorrect == Spec => []TypeOK
<1>1. Init => Typed
  BY IngestAssumption, TypedInit
<1>2. Typed /\ [Next]_vars => Typed'
  BY IngestAssumption, TypedStep
<1>3. Typed => TypeOK
  BY DEF Typed
<1> QED  BY <1>1, <1>2, <1>3, PTL DEF Spec

----------------------------------------------------------------------------
(* DroppedForCause.  A call that has failed, or cannot succeed any more, has    *)
(* met a fault, or no server or no connection: the fault came when the call     *)
(* broke, the handler died, the message was lost or the acknowledgement late.  *)

Doomed(b) ==
  \/ send[b] \in Ended
  \/ /\ send[b] = "calling"
     /\ \/ handler[Current(b)] \in {"error", "dead"}
        \/ handler[Current(b)] = "publish" /\ Current(b) \notin flight \cup stream

Costly(b) ==
  ~cancelled[b] =>
    /\ attempt[b] + (IF Doomed(b) THEN 1 ELSE 0) <= faults + refused[b]
    /\ send[b] = "dropped" => attempt[b] = MaxRetries

\* Calls that have not begun have no handler.
Ahead ==
  \A c \in Call : handler[c] # "none" => c[2] <= attempt[c[1]] /\ send[c[1]] # "new"

CauseInv == Typed /\ Ahead /\ \A b \in Valid \cap Fits : Costly(b)

LEMMA AheadStep ==
  ASSUME IngestAssumption, Typed, Ahead, [Next]_vars
  PROVE  Ahead'
<1> USE DEF Typed, TypeOK, Ahead
<1>1. ASSUME NEW b \in Batch, Begin(b) \/ Refused(b) \/ Break(b) \/ Reply(b) \/ GiveUp(b)
                              \/ Cancel(b)
      PROVE  Ahead'
  <2>1. handler' = handler /\ attempt' = attempt
    BY <1>1 DEF Begin, Refused, Break, Reply, GiveUp, Cancel, Failed, FailedAfter
  <2>2. \A a \in Batch : send'[a] = "new" => send[a] = "new"
    BY <1>1 DEF Begin, Refused, Break, Reply, GiveUp, Cancel, Failed, FailedAfter
  <2> QED  BY <2>1, <2>2, CallIsPair
<1>2. ASSUME NEW b \in Batch, Retry(b)  PROVE Ahead'
  BY <1>2, CallIsPair DEF Retry
<1>3. ASSUME NEW b \in Batch, Arrive(b)  PROVE Ahead'
  <2>1. \A c \in Call : c # Current(b) => handler'[c] = handler[c]
    BY <1>3, CurrentIsCall DEF Arrive
  <2>2. UNCHANGED <<attempt, send>> /\ send[b] = "calling"
    BY <1>3 DEF Arrive
  <2> QED  BY <2>1, <2>2, CurrentIsCall, CallIsPair
<1>4. ASSUME NEW c \in Call, Serve(c)  PROVE Ahead'
  BY <1>4 DEF Serve, Reject, Publish, PublishThen, Acked, PublishFails
<1>5. ASSUME NEW c \in Call, Store(c) \/ Lose(c)  PROVE Ahead'
  BY <1>5 DEF Store, Lose
<1>6. CASE Signal \/ Restart \/ \E b \in Batch : Reconnect(b)
  BY <1>6 DEF Signal, Restart, Reconnect
<1>7. CASE Exit \/ Crash
  BY <1>7 DEF Exit, Crash, Down, Running
<1>8. CASE UNCHANGED vars
  BY <1>8 DEF vars
<1> QED
  BY <1>1, <1>2, <1>3, <1>4, <1>5, <1>6, <1>7, <1>8 DEF Next, Exporter

\* What a step leaves alone keeps the cost of a batch.
LEMMA CostKept ==
  ASSUME Typed, Typed', NEW b \in Batch, Costly(b),
         send'[b] = send[b], attempt'[b] = attempt[b], refused'[b] = refused[b],
         cancelled[b] => cancelled'[b], faults' >= faults, Doomed(b)' => Doomed(b)
  PROVE  Costly(b)'
  BY DEF Costly, Typed, TypeOK

\* A fault pays for the call that it dooms.
LEMMA CostPaid ==
  ASSUME Typed, Typed', NEW b \in Batch, Costly(b),
         send'[b] = send[b], attempt'[b] = attempt[b], refused'[b] = refused[b],
         cancelled[b] => cancelled'[b], faults' = faults + 1
  PROVE  Costly(b)'
  BY DEF Costly, Typed, TypeOK

LEMMA CauseStep ==
  ASSUME IngestAssumption, CauseInv, [Next]_vars
  PROVE  CauseInv'
<1> DEFINE B == Valid \cap Fits
<1>1. Typed' /\ Ahead'
  BY TypedStep, AheadStep DEF CauseInv
<1>2. B \subseteq Batch
  BY DEF IngestAssumption
<1> SUFFICES ASSUME NEW a \in B  PROVE Costly(a)'
  BY <1>1 DEF CauseInv
<1>3. a \in Batch /\ Costly(a) /\ Typed /\ Ahead
  BY <1>2 DEF CauseInv
<1>4. /\ Current(a) \in Call /\ Current(a)[1] = a /\ attempt[a] \in Nat
      /\ refused[a] \in Nat /\ faults \in Nat
  BY <1>3, CurrentIsCall DEF Typed, TypeOK, IngestAssumption
<1>5. ASSUME NEW b \in Batch, Begin(b)  PROVE Costly(a)'
  BY <1>5, <1>3, <1>4 DEF Begin, Costly, Doomed, Ended, Current, Typed, TypeOK, Ahead
<1>6. ASSUME NEW b \in Batch, Refused(b)  PROVE Costly(a)'
  <2>1. send[b] = "calling" /\ Failed(b) /\ handler[Current(b)] = "none"
    BY <1>6 DEF Refused
  <2>2. a # b => Costly(a)'
    BY <1>6, <1>1, <1>3, <1>4, <2>1, CostKept
       DEF Refused, Failed, FailedAfter, Doomed, Current, Typed, TypeOK
  <2>3. a = b => Costly(a)'
    BY <1>6, <1>3, <1>4, <2>1, FailedTyped
       DEF Refused, Failed, FailedAfter, Costly, Doomed, Typed, TypeOK
  <2> QED  BY <2>2, <2>3
<1>7. ASSUME NEW b \in Batch, Break(b)  PROVE Costly(a)'
  <2>1. send[b] = "calling" /\ Failed(b) /\ UNCHANGED refused /\ faults' >= faults
    BY <1>7, <1>4 DEF Break, Inject
  <2>2. a # b => Costly(a)'
    BY <1>1, <1>3, <2>1, CostKept
       DEF Failed, FailedAfter, Doomed, Current, Typed, TypeOK
  <2>3. ASSUME a = b  PROVE Costly(a)'
    <3>1. \/ faults' = faults + 1
          \/ handler[Current(a)] = "dead" /\ faults' = faults
          \/ cancelled[a]
      BY <1>7, <2>3 DEF Break, Inject
    <3>2. /\ attempt' = attempt /\ cancelled' = cancelled
          /\ send'[a] = "dropped" => attempt[a] = MaxRetries
      BY <1>3, <2>1, <2>3, FailedTyped DEF Failed, FailedAfter
    <3>3. CASE faults' = faults + 1
      BY <1>3, <1>4, <2>1, <3>2, <3>3 DEF Costly
    <3>4. CASE handler[Current(a)] = "dead" /\ faults' = faults
      <4>1. Doomed(a)
        BY <2>1, <2>3, <3>4 DEF Doomed
      <4> QED  BY <1>3, <1>4, <2>1, <3>2, <3>4, <4>1 DEF Costly
    <3>5. CASE cancelled[a]
      BY <3>2, <3>5 DEF Costly
    <3> QED  BY <3>1, <3>3, <3>4, <3>5
  <2> QED  BY <2>2, <2>3
<1>8. ASSUME NEW b \in Batch, Reply(b)  PROVE Costly(a)'
  <2>1. send[b] = "calling" /\ UNCHANGED <<attempt, handler, flight, stream, cancelled, faults, refused>>
    BY <1>8 DEF Reply, Failed, FailedAfter
  <2>2. CASE handler[Current(b)] = "ok" /\ send' = [send EXCEPT ![b] = "sent"]
    BY <1>3, <1>4, <2>1, <2>2 DEF Costly, Doomed, Ended, Current, Typed, TypeOK
  <2>3. CASE handler[Current(b)] = "error" /\ Failed(b)
    <3>1. a # b => Costly(a)'
      BY <1>1, <1>3, <1>4, <2>1, <2>3, CostKept DEF Failed, FailedAfter, Doomed, Current, Typed, TypeOK
    <3>2. a = b => Doomed(a)
      BY <2>1, <2>3 DEF Doomed
    <3>3. a = b => Costly(a)'
      BY <1>3, <1>4, <2>1, <2>3, <3>2, FailedTyped DEF Costly
    <3> QED  BY <3>1, <3>3
  <2> QED  BY <1>8, <2>2, <2>3 DEF Reply
<1>9. ASSUME NEW b \in Batch, Retry(b)  PROVE Costly(a)'
  <2>1. a # b => Costly(a)'
    BY <1>9, <1>1, <1>3, <1>4, CostKept DEF Retry, Doomed, Current, Typed, TypeOK
  <2>2. ASSUME a = b  PROVE Costly(a)'
    <3>1. Doomed(a)
      BY <1>9, <2>2 DEF Retry, Doomed, Ended
    <3>2. /\ send'[a] = "calling" /\ attempt'[a] = attempt[a] + 1
          /\ UNCHANGED <<handler, cancelled, faults, refused>>
      BY <1>9, <2>2, <1>3 DEF Retry, Typed, TypeOK
    <3>3. Current(a)' \in Call /\ Current(a)'[1] = a /\ Current(a)'[2] = attempt[a] + 1
      BY <1>1, <1>3, <3>2 DEF Current, Call, Typed, TypeOK
    <3>4. handler[Current(a)'] = "none"
      BY <1>3, <1>4, <3>3 DEF Ahead
    <3>5. ~Doomed(a)'
      BY <3>2, <3>4 DEF Doomed, Ended
    <3> QED  BY <1>3, <1>4, <3>1, <3>2, <3>5 DEF Costly
  <2> QED  BY <2>1, <2>2
<1>10. ASSUME NEW b \in Batch, GiveUp(b) \/ Cancel(b)  PROVE Costly(a)'
  BY <1>10, <1>3, <1>4 DEF GiveUp, Cancel, Costly, Doomed, Ended, Current, Typed, TypeOK
<1>11. ASSUME NEW b \in Batch, Arrive(b)  PROVE Costly(a)'
  <2>1. Doomed(a)' => Doomed(a)
    BY <1>11, <1>3, <1>4, CurrentIsCall DEF Arrive, Doomed, Current, Typed, TypeOK, Call
  <2> QED  BY <1>11, <1>1, <1>3, <1>4, <2>1, CostKept DEF Arrive
<1>12. ASSUME NEW c \in Call, Reject(c)  PROVE Costly(a)'
  <2>1. c # Current(a)
    BY <1>12, <1>4 DEF Reject
  <2>2. Doomed(a)' => Doomed(a)
    BY <1>12, <1>4, <2>1 DEF Reject, Doomed, Current, Typed, TypeOK
  <2> QED  BY <1>12, <1>1, <1>3, <1>4, <2>2, CostKept DEF Reject
<1>13. ASSUME NEW c \in Call, Publish(c) \/ Acked(c)  PROVE Costly(a)'
  <2>1. Doomed(a)' => Doomed(a)
    BY <1>13, <1>3, <1>4 DEF Publish, PublishThen, Acked, Doomed, Current, Typed, TypeOK
  <2> QED  BY <1>13, <1>1, <1>3, <1>4, <2>1, CostKept DEF Publish, PublishThen, Acked
<1>14. ASSUME NEW c \in Call, PublishFails(c)  PROVE Costly(a)'
  <2>1. UNCHANGED <<send, attempt, refused, cancelled, flight, stream>>
    BY <1>14 DEF PublishFails
  <2>2. CASE faults' = faults + 1
    BY <1>1, <1>3, <2>1, <2>2, CostPaid
  <2>3. CASE (c \notin flight \cup stream \/ Abandoned(c)) /\ UNCHANGED faults
    <3>1. Doomed(a)' => Doomed(a)
      BY <1>14, <1>3, <1>4, <2>1, <2>3, CurrentIsCall
         DEF PublishFails, Doomed, Abandoned, Current, Typed, TypeOK
    <3> QED  BY <1>1, <1>3, <1>4, <2>1, <2>3, <3>1, CostKept
  <2> QED  BY <1>14, <2>2, <2>3 DEF PublishFails, Inject
<1>15. ASSUME NEW c \in Call, Store(c)  PROVE Costly(a)'
  <2>1. Doomed(a)' => Doomed(a)
    BY <1>15 DEF Store, Doomed, Current
  <2> QED  BY <1>15, <1>1, <1>3, <1>4, <2>1, CostKept DEF Store
<1>16. ASSUME NEW c \in Call, Lose(c)  PROVE Costly(a)'
  BY <1>16, <1>1, <1>3, CostPaid DEF Lose, Inject
<1>17. CASE Crash
  BY <1>17, <1>1, <1>3, CostPaid DEF Crash, Down, Inject
<1>18. CASE Exit
  <2>1. handler' = handler
    BY <1>18, <1>3 DEF Exit, Down, Typed, TypeOK
  <2>2. Doomed(a)' => Doomed(a)
    BY <1>18, <2>1 DEF Exit, Down, Doomed, Current
  <2> QED  BY <1>18, <1>1, <1>3, <1>4, <2>2, CostKept DEF Exit, Down
<1>19. CASE Signal \/ Restart \/ UNCHANGED vars \/ \E b \in Batch : Reconnect(b)
  <2>1. Doomed(a)' => Doomed(a)
    BY <1>19 DEF Signal, Restart, Reconnect, vars, Doomed, Current
  <2> QED  BY <1>19, <1>1, <1>3, <1>4, <2>1, CostKept DEF Signal, Restart, Reconnect, vars
<1> QED
  BY <1>5, <1>6, <1>7, <1>8, <1>9, <1>10, <1>11, <1>12, <1>13, <1>14, <1>15, <1>16, <1>17,
     <1>18, <1>19
  DEF Next, Exporter, Serve

\* A batch that the stream would take is dropped by a running agent only after each of
\* its MaxRetries + 1 calls has met a fault, no server, or a connection that backs off from
\* that, however many batches, faults and restarts there are.
THEOREM IngestDroppedForCause == Spec => []DroppedForCause
<1>1. Init => CauseInv
  <2> SUFFICES ASSUME Init  PROVE CauseInv
    OBVIOUS
  <2>1. \A b \in Batch : ~Doomed(b) /\ Costly(b)
    BY IngestAssumption DEF Init, Doomed, Ended, Costly
  <2> QED  BY <2>1, IngestAssumption, TypedInit DEF CauseInv, Ahead, Init, IngestAssumption
<1>2. CauseInv /\ [Next]_vars => CauseInv'
  BY IngestAssumption, CauseStep
<1>3. CauseInv => DroppedForCause
  <2> SUFFICES ASSUME CauseInv, NEW b \in Valid \cap Fits, send[b] = "dropped", ~cancelled[b]
               PROVE  faults + refused[b] > MaxRetries
    BY DEF DroppedForCause
  <2>1. b \in Batch /\ faults \in Nat /\ refused[b] \in Nat /\ MaxRetries \in Nat
    BY IngestAssumption DEF CauseInv, Typed, TypeOK, IngestAssumption
  <2> QED  BY <2>1 DEF CauseInv, Costly, Doomed, Ended
<1> QED  BY <1>1, <1>2, <1>3, PTL DEF Spec

----------------------------------------------------------------------------
(* At least once.  What JetStream has, or may get, was published by a handler   *)
(* that found it valid; a handler answers "ok" only with the message stored.   *)

Published ==
  /\ \A c \in flight \cup stream : c[1] \in Valid \cap Fits /\ handler[c] \notin {"none", "run"}
  /\ flight \cap stream = {}
  /\ \A c \in Call : handler[c] = "ok" => c \in stream

PublishedInv == Typed /\ Published

LEMMA PublishedStep ==
  ASSUME IngestAssumption, PublishedInv, [Next]_vars
  PROVE  PublishedInv'
<1>1. Typed'
  BY TypedStep DEF PublishedInv
<1> SUFFICES Published'
  BY <1>1 DEF PublishedInv
<1> USE DEF PublishedInv, Published, Typed, TypeOK
<1>2. ASSUME NEW b \in Batch, Begin(b) \/ Refused(b) \/ Break(b) \/ Reply(b) \/ Retry(b)
                              \/ GiveUp(b) \/ Cancel(b)
      PROVE  Published'
  <2>1. UNCHANGED <<handler, flight, stream>>
    BY <1>2 DEF Begin, Refused, Break, Reply, Retry, GiveUp, Cancel, Failed, FailedAfter
  <2> QED  BY <2>1
<1>3. ASSUME NEW b \in Batch, Arrive(b)  PROVE Published'
  BY <1>3, CurrentIsCall DEF Arrive
<1>4. ASSUME NEW c \in Call, Reject(c)  PROVE Published'
  BY <1>4 DEF Reject
<1>5. ASSUME NEW c \in Call, Publish(c)  PROVE Published'
  BY <1>5 DEF Publish, PublishThen
<1>6. ASSUME NEW c \in Call, Acked(c) \/ PublishFails(c)  PROVE Published'
  BY <1>6 DEF Acked, PublishFails
<1>7. ASSUME NEW c \in Call, Store(c) \/ Lose(c)  PROVE Published'
  BY <1>7 DEF Store, Lose
<1>8. CASE Exit \/ Crash
  BY <1>8 DEF Exit, Crash, Down, Running
<1>9. CASE Signal \/ Restart \/ UNCHANGED vars \/ \E b \in Batch : Reconnect(b)
  BY <1>9 DEF Signal, Restart, Reconnect, vars
<1> QED
  BY <1>2, <1>3, <1>4, <1>5, <1>6, <1>7, <1>8, <1>9 DEF Next, Exporter, Serve

LEMMA PublishedInit == ASSUME IngestAssumption, Init  PROVE PublishedInv
  BY TypedInit DEF PublishedInv, Published, Init

\* Steps of Send that do not end it change nothing that AtLeastOnce sees.
LEMMA StatusSame ==
  ASSUME \A b \in Batch : \/ send'[b] = send[b]
                          \/ send'[b] \notin {"sent", "dropped"} /\ send[b] \notin {"sent", "dropped"}
  PROVE  Status' = Status
  BY DEF Status

\* Send drops a batch, or is still at it.
LEMMA StatusFailed ==
  ASSUME IngestAssumption, Typed, NEW b \in Batch, Failed(b), send[b] = "calling"
  PROVE  [ALO!Next]_(ALO!vars)
<1>1. UNCHANGED stream
  BY DEF Failed, FailedAfter
<1>2. CASE send'[b] = "dropped"
  <2>1. Status' = [Status EXCEPT ![b] = "dropped"] /\ Status[b] = "pending"
    BY <1>2, FailedTyped DEF Status
  <2>2. ALO!Drop(b)
    BY <1>1, <2>1 DEF ALO!Drop
  <2> QED  BY <2>2 DEF ALO!Next
<1>3. CASE send'[b] # "dropped"
  <2>1. Status' = Status
    BY <1>3, FailedTyped, StatusSame DEF Ended
  <2> QED  BY <1>1, <2>1 DEF ALO!vars
<1> QED  BY <1>2, <1>3

LEMMA AtLeastOnceStep ==
  ASSUME IngestAssumption, PublishedInv, [Next]_vars
  PROVE  [ALO!Next]_(ALO!vars)
<1>1. Typed /\ Published
  BY DEF PublishedInv
<1>2. ASSUME NEW b \in Batch, Begin(b) \/ Retry(b) \/ Cancel(b) \/ Arrive(b)
      PROVE  [ALO!Next]_(ALO!vars)
  <2>1. UNCHANGED stream
    BY <1>2 DEF Begin, Retry, Cancel, Arrive
  <2>2. Status' = Status
    BY <1>1, <1>2, StatusSame DEF Begin, Retry, Cancel, Arrive, Typed, TypeOK
  <2> QED  BY <2>1, <2>2 DEF ALO!vars
<1>3. ASSUME NEW b \in Batch, Refused(b) \/ Break(b)
      PROVE  [ALO!Next]_(ALO!vars)
  BY <1>1, <1>3, StatusFailed DEF Refused, Break
<1>4. ASSUME NEW b \in Batch, Reply(b)  PROVE [ALO!Next]_(ALO!vars)
  <2>1. CASE Failed(b)
    BY <1>1, <1>4, <2>1, StatusFailed DEF Reply
  <2>2. CASE handler[Current(b)] = "ok" /\ send' = [send EXCEPT ![b] = "sent"] /\ UNCHANGED stream
    <3>1. <<b, attempt[b]>> \in stream /\ attempt[b] \in 0..MaxRetries
      BY <1>1, <2>2, CurrentIsCall DEF Published, Current, Typed, TypeOK
    <3>2. Status' = [Status EXCEPT ![b] = "sent"] /\ Status[b] = "pending"
      BY <1>1, <1>4, <2>2 DEF Status, Reply, Typed, TypeOK
    <3>3. ALO!Succeed(b)
      BY <2>2, <3>1, <3>2 DEF ALO!Succeed
    <3> QED  BY <3>3 DEF ALO!Next
  <2> QED  BY <1>4, <2>1, <2>2 DEF Reply
<1>5. ASSUME NEW b \in Batch, GiveUp(b)  PROVE [ALO!Next]_(ALO!vars)
  <2>1. Status' = [Status EXCEPT ![b] = "dropped"] /\ Status[b] = "pending"
    BY <1>1, <1>5 DEF GiveUp, Status, Typed, TypeOK
  <2>2. ALO!Drop(b)
    BY <1>5, <2>1 DEF ALO!Drop, GiveUp
  <2> QED  BY <2>2 DEF ALO!Next
<1>6. ASSUME NEW c \in Call, Serve(c) \/ Lose(c)  PROVE [ALO!Next]_(ALO!vars)
  <2>1. UNCHANGED <<send, stream>>
    BY <1>6 DEF Serve, Reject, Publish, PublishThen, Acked, PublishFails, Lose
  <2> QED  BY <2>1, StatusSame DEF ALO!vars
<1>7. ASSUME NEW c \in Call, Store(c)  PROVE [ALO!Next]_(ALO!vars)
  <2>1. c[1] \in Valid \cap Fits /\ c \notin stream /\ stream' = stream \cup {c} /\ send' = send
    BY <1>1, <1>7 DEF Store, Published
  <2>2. c[1] \in Batch /\ c[2] \in 0..MaxRetries /\ c = <<c[1], c[2]>>
    BY CallIsPair
  <2>3. Status' = Status
    BY <2>1, StatusSame
  <2>4. ALO!Store(c[1], c[2])
    BY <2>1, <2>2, <2>3 DEF ALO!Store
  <2> QED  BY <2>2, <2>4 DEF ALO!Next
<1>8. CASE Signal \/ Exit \/ Crash \/ Restart \/ UNCHANGED vars
           \/ \E b \in Batch : Reconnect(b)
  <2>1. UNCHANGED <<send, stream>>
    BY <1>8 DEF Signal, Exit, Crash, Down, Restart, Reconnect, vars
  <2> QED  BY <2>1, StatusSame DEF ALO!vars
<1> QED
  BY <1>2, <1>3, <1>4, <1>5, <1>6, <1>7, <1>8 DEF Next, Exporter

\* Ingestion implements AtLeastOnce, for every number of batches, retries and faults:
\* Send reports a batch as sent only if JetStream has stored it.
THEOREM IngestAtLeastOnce == Spec => ImplementsAtLeastOnce
<1>1. Init => ALO!Init /\ PublishedInv
  BY IngestAssumption, PublishedInit DEF Init, ALO!Init, Status
<1>2. PublishedInv /\ [Next]_vars => PublishedInv' /\ [ALO!Next]_(ALO!vars)
  BY IngestAssumption, PublishedStep, AtLeastOnceStep
<1> QED  BY <1>1, <1>2, PTL DEF Spec, ImplementsAtLeastOnce, ALO!Spec

----------------------------------------------------------------------------
(* OnceUnlessFault.  A call that may still put, or has put, a message into the  *)
(* stream although Send no longer counts on it has cost a fault.               *)

Live(c) == handler[c] = "run" \/ c \in flight \cup stream

Lost(c) ==
  \/ c[2] # attempt[c[1]]
  \/ send[c[1]] \in Ended
  \/ handler[c] \in {"error", "dead"}

Doubt(b) == {c \in Call : c[1] = b /\ Live(c) /\ Lost(c)}

Doubted(b) == ~cancelled[b] => IsFiniteSet(Doubt(b)) /\ Cardinality(Doubt(b)) <= faults

\* Send ends as "sent" only after its call was answered.
Answered == \A b \in Batch : send[b] = "sent" => handler[Current(b)] = "ok"

OnceInv == Typed /\ Published /\ Ahead /\ Answered /\ \A b \in Batch : Doubted(b)

LEMMA AnsweredStep ==
  ASSUME IngestAssumption, Typed, Answered, [Next]_vars
  PROVE  Answered'
<1> USE DEF Typed, TypeOK, Answered, Current
<1>1. ASSUME NEW b \in Batch, Begin(b) \/ GiveUp(b) \/ Cancel(b) \/ Retry(b)  PROVE Answered'
  BY <1>1 DEF Begin, GiveUp, Cancel, Retry
<1>2. ASSUME NEW b \in Batch, Refused(b) \/ Break(b)  PROVE Answered'
  <2>1. Failed(b) /\ send[b] = "calling" /\ UNCHANGED <<handler, attempt>>
    BY <1>2 DEF Refused, Break, Failed, FailedAfter
  <2> QED  BY <2>1, FailedTyped DEF Ended
<1>3. ASSUME NEW b \in Batch, Reply(b)  PROVE Answered'
  <2>1. CASE Failed(b)
    <3>1. send[b] = "calling" /\ UNCHANGED <<handler, attempt>>
      BY <1>3, <2>1 DEF Reply, Failed, FailedAfter
    <3> QED  BY <2>1, <3>1, FailedTyped DEF Ended
  <2>2. CASE /\ handler[Current(b)] = "ok" /\ send' = [send EXCEPT ![b] = "sent"]
             /\ UNCHANGED <<attempt, handler>>
    BY <2>2
  <2> QED  BY <1>3, <2>1, <2>2 DEF Reply
<1>4. ASSUME NEW b \in Batch, Arrive(b)  PROVE Answered'
  <2>1. UNCHANGED <<send, attempt>> /\ handler[Current(b)] = "none"
    BY <1>4 DEF Arrive
  <2>2. \A c \in Call : c # Current(b) => handler'[c] = handler[c]
    BY <1>4, CurrentIsCall DEF Arrive
  <2> QED  BY <2>1, <2>2, CurrentIsCall
<1>5. ASSUME NEW c \in Call, Serve(c)  PROVE Answered'
  <2>1. UNCHANGED <<send, attempt>> /\ handler[c] # "ok"
    BY <1>5 DEF Serve, Reject, Publish, PublishThen, Acked, PublishFails
  <2>2. \A d \in Call : d # c => handler'[d] = handler[d]
    BY <1>5 DEF Serve, Reject, Publish, PublishThen, Acked, PublishFails
  <2> QED  BY <2>1, <2>2, CurrentIsCall
<1>6. ASSUME NEW c \in Call, Store(c) \/ Lose(c)  PROVE Answered'
  BY <1>6 DEF Store, Lose
<1>7. CASE Exit \/ Crash
  <2>1. UNCHANGED <<send, attempt>>
    BY <1>7 DEF Exit, Crash, Down
  <2>2. \A d \in Call : handler[d] = "ok" => handler'[d] = "ok"
    BY <1>7 DEF Exit, Crash, Down, Running
  <2> QED  BY <2>1, <2>2, CurrentIsCall
<1>8. CASE Signal \/ Restart \/ UNCHANGED vars \/ \E b \in Batch : Reconnect(b)
  BY <1>8 DEF Signal, Restart, Reconnect, vars
<1> QED
  BY <1>1, <1>2, <1>3, <1>4, <1>5, <1>6, <1>7, <1>8 DEF Next, Exporter

\* A step that puts no call in doubt.
LEMMA DoubtKept ==
  ASSUME Typed, Typed', NEW b \in Batch, Doubted(b), Doubt(b)' \subseteq Doubt(b),
         cancelled[b] => cancelled'[b], faults' >= faults
  PROVE  Doubted(b)'
<1> SUFFICES ASSUME ~cancelled'[b]
             PROVE  IsFiniteSet(Doubt(b)') /\ Cardinality(Doubt(b)') <= faults'
  BY DEF Doubted
<1>1. IsFiniteSet(Doubt(b)) /\ Cardinality(Doubt(b)) <= faults
  BY DEF Doubted
<1>2. /\ IsFiniteSet(Doubt(b)') /\ Cardinality(Doubt(b)') <= Cardinality(Doubt(b))
      /\ Cardinality(Doubt(b)) \in Nat /\ Cardinality(Doubt(b)') \in Nat
  BY <1>1, FS_Subset, FS_CardinalityType
<1>3. faults \in Nat /\ faults' \in Nat
  BY DEF Typed, TypeOK
<1> QED  BY <1>1, <1>2, <1>3

\* One element more, at most.
LEMMA OneMore ==
  ASSUME NEW S, IsFiniteSet(S), NEW x
  PROVE  /\ IsFiniteSet(S \cup {x}) /\ Cardinality(S \cup {x}) <= Cardinality(S) + 1
         /\ Cardinality(S) \in Nat /\ Cardinality(S \cup {x}) \in Nat
<1>1. IsFiniteSet(S \cup {x})
      /\ Cardinality(S \cup {x}) = IF x \in S THEN Cardinality(S) ELSE Cardinality(S) + 1
  BY FS_AddElement
<1>2. Cardinality(S) \in Nat
  BY FS_CardinalityType
<1>3. CASE x \in S
  BY <1>1, <1>2, <1>3
<1>4. CASE x \notin S
  BY <1>1, <1>2, <1>4
<1> QED  BY <1>3, <1>4

\* A fault that puts one call of the batch in doubt.
LEMMA DoubtPaid ==
  ASSUME Typed, Typed', NEW b \in Batch, Doubted(b), NEW x, Doubt(b)' \subseteq Doubt(b) \cup {x},
         cancelled[b] => cancelled'[b], faults' = faults + 1
  PROVE  Doubted(b)'
<1> SUFFICES ASSUME ~cancelled'[b]
             PROVE  IsFiniteSet(Doubt(b)') /\ Cardinality(Doubt(b)') <= faults'
  BY DEF Doubted
<1>1. IsFiniteSet(Doubt(b)) /\ Cardinality(Doubt(b)) <= faults
  BY DEF Doubted
<1> DEFINE D == Doubt(b) \cup {x}
<1>2. IsFiniteSet(D) /\ Cardinality(D) <= Cardinality(Doubt(b)) + 1
      /\ Cardinality(Doubt(b)) \in Nat /\ Cardinality(D) \in Nat
  BY <1>1, OneMore
<1>3. IsFiniteSet(Doubt(b)') /\ Cardinality(Doubt(b)') <= Cardinality(D)
      /\ Cardinality(Doubt(b)') \in Nat
  BY <1>2, FS_Subset, FS_CardinalityType
<1>4. faults \in Nat /\ faults' \in Nat
  BY DEF Typed, TypeOK
<1> QED  BY <1>1, <1>2, <1>3, <1>4

LEMMA DoubtStep ==
  ASSUME IngestAssumption, OnceInv, [Next]_vars, NEW a \in Batch
  PROVE  Doubted(a)'
<1>1. Typed' /\ Typed /\ Published /\ Ahead /\ Answered /\ Doubted(a)
  BY TypedStep DEF OnceInv
<1>2. Current(a) \in Call /\ Current(a)[1] = a /\ Current(a)[2] = attempt[a]
  BY <1>1, CurrentIsCall DEF Typed
<1>3. \A c \in Call : c[1] = a /\ c[2] = attempt[a] => c = Current(a)
  BY CallIsPair DEF Current
<1>4. faults \in Nat
  BY <1>1 DEF Typed, TypeOK
<1>5. ASSUME NEW b \in Batch, Begin(b)  PROVE Doubted(a)'
  <2>1. Doubt(a)' \subseteq Doubt(a)
    BY <1>5, <1>1 DEF Begin, Doubt, Live, Lost, Ended, Typed, TypeOK
  <2> QED  BY <1>5, <1>1, <1>4, <2>1, DoubtKept DEF Begin
<1>6. ASSUME NEW b \in Batch, Refused(b)  PROVE Doubted(a)'
  <2>1. /\ send[b] = "calling" /\ Failed(b) /\ handler[Current(b)] = "none"
        /\ UNCHANGED <<attempt, handler, flight, stream, cancelled, faults>>
    BY <1>6 DEF Refused, Failed, FailedAfter
  <2>2. a = b => ~Live(Current(a))
    BY <1>1, <2>1 DEF Live, Published
  <2>3. Doubt(a)' \subseteq Doubt(a)
    BY <1>1, <1>2, <1>3, <2>1, <2>2, FailedTyped DEF Doubt, Live, Lost
  <2> QED  BY <1>1, <1>4, <2>1, <2>3, DoubtKept
<1>7. ASSUME NEW b \in Batch, Break(b)  PROVE Doubted(a)'
  <2>1. /\ send[b] = "calling" /\ Failed(b)
        /\ UNCHANGED <<attempt, handler, flight, stream, cancelled>>
    BY <1>7 DEF Break, Failed, FailedAfter
  <2>2. Doubt(a)' \subseteq Doubt(a) \cup {Current(a)}
    BY <1>1, <1>3, <2>1, FailedTyped DEF Doubt, Live, Lost
  <2>3. CASE faults' = faults + 1
    BY <1>1, <2>1, <2>2, <2>3, DoubtPaid
  <2>4. CASE handler[Current(b)] = "dead" /\ UNCHANGED faults
    <3>1. Doubt(a)' \subseteq Doubt(a)
      BY <1>1, <1>3, <2>1, <2>4, FailedTyped DEF Doubt, Live, Lost
    <3> QED  BY <1>1, <1>4, <2>1, <2>4, <3>1, DoubtKept
  <2>5. CASE cancelled[b] /\ UNCHANGED faults
    <3>1. a # b => Doubt(a)' \subseteq Doubt(a)
      BY <1>1, <2>1, FailedTyped DEF Doubt, Live, Lost
    <3>2. a = b => Doubted(a)'
      BY <2>1, <2>5 DEF Doubted
    <3> QED  BY <1>1, <1>4, <2>1, <2>5, <3>1, <3>2, DoubtKept
  <2> QED  BY <1>7, <2>3, <2>4, <2>5 DEF Break, Inject
<1>8. ASSUME NEW b \in Batch, Reply(b)  PROVE Doubted(a)'
  <2>1. /\ send[b] = "calling"
        /\ UNCHANGED <<attempt, handler, flight, stream, cancelled, faults>>
    BY <1>8 DEF Reply, Failed, FailedAfter
  <2>2. CASE handler[Current(b)] = "ok" /\ send' = [send EXCEPT ![b] = "sent"]
    <3>1. Doubt(a)' \subseteq Doubt(a)
      BY <1>1, <2>1, <2>2 DEF Doubt, Live, Lost, Ended, Typed, TypeOK
    <3> QED  BY <1>1, <1>4, <2>1, <3>1, DoubtKept
  <2>3. CASE handler[Current(b)] = "error" /\ Failed(b)
    <3>1. Doubt(a)' \subseteq Doubt(a)
      BY <1>1, <1>3, <2>1, <2>3, FailedTyped DEF Doubt, Live, Lost
    <3> QED  BY <1>1, <1>4, <2>1, <3>1, DoubtKept
  <2> QED  BY <1>8, <2>2, <2>3 DEF Reply
<1>9. ASSUME NEW b \in Batch, Retry(b)  PROVE Doubted(a)'
  <2>1. /\ send[b] = "backoff" /\ send' = [send EXCEPT ![b] = "calling"]
        /\ attempt' = [attempt EXCEPT ![b] = @ + 1]
        /\ UNCHANGED <<handler, flight, stream, cancelled, faults>>
    BY <1>9 DEF Retry
  <2>2. a = b => \A c \in Call : c[1] = a => Lost(c)
    BY <2>1 DEF Lost, Ended
  <2>3. a # b => Doubt(a)' \subseteq Doubt(a)
    BY <1>1, <2>1 DEF Doubt, Live, Lost, Typed, TypeOK
  <2>4. Doubt(a)' \subseteq Doubt(a)
    BY <2>1, <2>2, <2>3 DEF Doubt, Live
  <2> QED  BY <1>1, <1>4, <2>1, <2>4, DoubtKept
<1>10. ASSUME NEW b \in Batch, GiveUp(b)  PROVE Doubted(a)'
  <2>1. a # b => Doubt(a)' \subseteq Doubt(a)
    BY <1>10, <1>1 DEF GiveUp, Doubt, Live, Lost, Typed, TypeOK
  <2>2. a = b => Doubted(a)'
    BY <1>10 DEF GiveUp, Doubted
  <2> QED  BY <1>10, <1>1, <1>4, <2>1, <2>2, DoubtKept DEF GiveUp
<1>11. ASSUME NEW b \in Batch, Cancel(b)  PROVE Doubted(a)'
  <2>1. Doubt(a)' \subseteq Doubt(a)
    BY <1>11 DEF Cancel, Doubt, Live, Lost
  <2> QED  BY <1>11, <1>1, <1>4, <2>1, DoubtKept DEF Cancel, Typed, TypeOK
<1>12. ASSUME NEW b \in Batch, Arrive(b)  PROVE Doubted(a)'
  <2>1. /\ send[b] = "calling" /\ Current(b) \in Call
        /\ handler' = [handler EXCEPT ![Current(b)] = "run"]
        /\ UNCHANGED <<send, attempt, flight, stream, cancelled, faults>>
    BY <1>12, <1>1, CurrentIsCall DEF Arrive, Typed
  <2>2. ~Lost(Current(b))'
    BY <1>1, <2>1, CurrentIsCall DEF Lost, Ended, Current, Typed, TypeOK
  <2>3. \A c \in Call : c # Current(b) => handler'[c] = handler[c]
    BY <2>1
  <2>4. Doubt(a)' \subseteq Doubt(a)
    BY <2>1, <2>2, <2>3 DEF Doubt, Live, Lost, Current
  <2> QED  BY <1>1, <1>4, <2>1, <2>4, DoubtKept
<1>13. ASSUME NEW c \in Call, Reject(c)  PROVE Doubted(a)'
  <2>1. Doubt(a)' \subseteq Doubt(a)
    BY <1>13, <1>1 DEF Reject, Doubt, Live, Lost, Published, Typed, TypeOK
  <2> QED  BY <1>13, <1>1, <1>4, <2>1, DoubtKept DEF Reject
<1>14. ASSUME NEW c \in Call, Publish(c) \/ Acked(c)  PROVE Doubted(a)'
  <2>1. Doubt(a)' \subseteq Doubt(a)
    BY <1>14, <1>1 DEF Publish, PublishThen, Acked, Doubt, Live, Lost, Typed, TypeOK
  <2> QED  BY <1>14, <1>1, <1>4, <2>1, DoubtKept DEF Publish, PublishThen, Acked
<1>15. ASSUME NEW c \in Call, PublishFails(c)  PROVE Doubted(a)'
  <2>1. /\ handler[c] = "publish" /\ handler' = [handler EXCEPT ![c] = "error"]
        /\ UNCHANGED <<send, attempt, flight, stream, cancelled>>
    BY <1>15 DEF PublishFails
  <2>2. CASE faults' = faults + 1
    <3>1. Doubt(a)' \subseteq Doubt(a) \cup {c}
      BY <1>1, <2>1 DEF Doubt, Live, Lost, Typed, TypeOK
    <3> QED  BY <1>1, <2>1, <2>2, <3>1, DoubtPaid
  <2>3. CASE (c \notin flight \cup stream \/ Abandoned(c)) /\ UNCHANGED faults
    <3>1. Live(c) => Lost(c)
      <4>1. c[1] \in Batch /\ c = <<c[1], c[2]>>
        BY CallIsPair
      <4>2. Live(c) => Abandoned(c)
        BY <2>1, <2>3 DEF Live
      <4>3. attempt[c[1]] = c[2] => c = Current(c[1])
        BY <4>1 DEF Current
      <4>4. attempt[c[1]] = c[2] => send[c[1]] \notin {"new", "sent"}
        BY <1>1, <2>1, <4>1, <4>3 DEF Ahead, Answered
      <4> QED  BY <1>1, <4>1, <4>2, <4>4 DEF Abandoned, Lost, Ended, Typed, TypeOK
    <3>2. Doubt(a)' \subseteq Doubt(a)
      BY <1>1, <2>1, <3>1 DEF Doubt, Live, Lost, Typed, TypeOK
    <3> QED  BY <1>1, <1>4, <2>1, <2>3, <3>2, DoubtKept
  <2> QED  BY <1>15, <2>2, <2>3 DEF PublishFails, Inject
<1>16. ASSUME NEW c \in Call, Store(c)  PROVE Doubted(a)'
  <2>1. Doubt(a)' \subseteq Doubt(a)
    BY <1>16 DEF Store, Doubt, Live, Lost
  <2> QED  BY <1>16, <1>1, <1>4, <2>1, DoubtKept DEF Store
<1>17. ASSUME NEW c \in Call, Lose(c)  PROVE Doubted(a)'
  <2>1. Doubt(a)' \subseteq Doubt(a)
    BY <1>17 DEF Lose, Doubt, Live, Lost
  <2> QED  BY <1>17, <1>1, <1>4, <2>1, DoubtKept DEF Lose, Inject
<1>18. CASE Exit
  <2>1. handler' = handler
    BY <1>18, <1>1 DEF Exit, Down, Typed, TypeOK
  <2>2. Doubt(a)' \subseteq Doubt(a)
    BY <1>18, <2>1 DEF Exit, Down, Doubt, Live, Lost
  <2> QED  BY <1>18, <1>1, <1>4, <2>2, DoubtKept DEF Exit, Down
<1>19. CASE Crash
  <2>1. UNCHANGED <<send, attempt, flight, stream, cancelled>> /\ faults' = faults + 1
    BY <1>19 DEF Crash, Down, Inject
  <2>2. \A c \in Call : handler'[c] = "run" => handler[c] = "run"
    BY <1>19, <1>1 DEF Crash, Down, Running
  <2>3. Doubt(a)' \subseteq Doubt(a) \cup {Current(a)}
    BY <1>3, <2>1, <2>2 DEF Doubt, Live, Lost
  <2> QED  BY <1>1, <2>1, <2>3, DoubtPaid
<1>20. CASE Signal \/ Restart \/ UNCHANGED vars \/ \E b \in Batch : Reconnect(b)
  <2>1. Doubt(a)' \subseteq Doubt(a)
    BY <1>20 DEF Signal, Restart, Reconnect, vars, Doubt, Live, Lost
  <2> QED  BY <1>20, <1>1, <1>4, <2>1, DoubtKept DEF Signal, Restart, Reconnect, vars
<1> QED
  BY <1>5, <1>6, <1>7, <1>8, <1>9, <1>10, <1>11, <1>12, <1>13, <1>14, <1>15, <1>16, <1>17,
     <1>18, <1>19, <1>20
  DEF Next, Exporter, Serve

\* As long as its agent runs, a batch is in the stream once, and once more per fault, for
\* every number of retries: a restart of the server in good order duplicates nothing.
THEOREM IngestOnceUnlessFault == Spec => []OnceUnlessFault
<1>1. Init => OnceInv
  <2> SUFFICES ASSUME Init  PROVE OnceInv
    OBVIOUS
  <2>1. Typed /\ Published /\ Ahead /\ Answered
    BY IngestAssumption, PublishedInit DEF PublishedInv, Init, Ahead, Answered
  <2>2. \A b \in Batch : Doubt(b) = {}
    BY DEF Init, Doubt, Live
  <2>3. \A b \in Batch : Doubted(b)
    BY <2>2, FS_EmptySet DEF Doubted, Init
  <2> QED  BY <2>1, <2>3 DEF OnceInv
<1>2. OnceInv /\ [Next]_vars => OnceInv'
  <2> SUFFICES ASSUME OnceInv, [Next]_vars  PROVE OnceInv'
    OBVIOUS
  <2>1. Typed' /\ Published' /\ Ahead' /\ Answered'
    BY IngestAssumption, PublishedStep, AheadStep, AnsweredStep DEF OnceInv, PublishedInv
  <2>2. ASSUME NEW b \in Batch  PROVE Doubted(b)'
    BY IngestAssumption, DoubtStep
  <2> QED  BY <2>1, <2>2 DEF OnceInv
<1>3. OnceInv => OnceUnlessFault
  <2> SUFFICES ASSUME OnceInv, NEW b \in Batch, ~cancelled[b]
               PROVE  Cardinality(Copies(b)) <= 1 + faults
    BY DEF OnceUnlessFault
  <2> DEFINE D == Doubt(b) \cup {Current(b)}
  <2>1. Copies(b) \subseteq D
    BY CallIsPair DEF OnceInv, Typed, TypeOK, Copies, Doubt, Live, Lost, Current
  <2>2. IsFiniteSet(Doubt(b)) /\ Cardinality(Doubt(b)) <= faults /\ faults \in Nat
    BY DEF OnceInv, Doubted, Typed, TypeOK
  <2>3. /\ IsFiniteSet(D) /\ Cardinality(D) <= Cardinality(Doubt(b)) + 1
        /\ Cardinality(Doubt(b)) \in Nat /\ Cardinality(D) \in Nat
    BY <2>2, OneMore
  <2>4. Cardinality(Copies(b)) <= Cardinality(D) /\ Cardinality(Copies(b)) \in Nat
    BY <2>1, <2>3, FS_Subset, FS_CardinalityType
  <2> QED  BY <2>2, <2>3, <2>4
<1> QED  BY <1>1, <1>2, <1>3, PTL DEF Spec
=============================================================================
