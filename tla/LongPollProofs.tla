--------------------------- MODULE LongPollProofs ---------------------------
(***************************************************************************)
(* Proofs about LongPoll, for any number of updates and retries.           *)
(***************************************************************************)
EXTENDS LongPoll, TLAPS

(* What no handler has seen: the updates after the one being handled, after *)
(* the position of a waiting session, or still to come when there is none.  *)
Fresh(e) == tries[e] = 0 /\ fate[e] = "none"

Reached == IF InResponse THEN next ELSE IF at = "poll" THEN ts ELSE history

\* The tries of the update being handled are its counted attempts.
Ahead ==
  /\ \A e \in Updates : e > Reached => Fresh(e)
  /\ InResponse => fate[next] = "none" /\ tries[next] = attempt

ConsumerInv == TypeOK /\ Ahead

\* The two parts of SessionComplete.
NonePassedOver ==
  at \in {"poll", "handle", "retry"} =>
    \A e \in Updates :
      from < e /\ e < (IF InResponse THEN next ELSE ts + 1) => fate[e] # "none"

SkippedAfterRetries ==
  \A e \in Updates :
    /\ tries[e] <= Retries + 1
    /\ fate[e] = "skipped" => tries[e] = Retries + 1

SafetyInv == ConsumerInv /\ SkippedAfterRetries /\ NonePassedOver

-----------------------------------------------------------------------------
(* The invariant.                                                          *)

\* Positions are numbers, and responses hold updates.
LEMMA Positions ==
  ASSUME TypeOK
  PROVE  /\ MaxUpdates \in Nat /\ Retries \in Nat
         /\ history \in Nat /\ history <= MaxUpdates
         /\ ts \in Nat /\ from \in Nat /\ upto \in Nat
         /\ next \in Nat /\ 1 <= next /\ attempt \in Nat
         /\ InResponse => next \in Updates
BY UpdatesAssumption, RetriesAssumption DEF TypeOK, Updates

LEMMA InitSafe == ASSUME Init PROVE SafetyInv
<1> USE UpdatesAssumption, RetriesAssumption DEF Init
<1>1. TypeOK
  <2>1. ~InResponse
    BY DEF InResponse
  <2>2. tries \in [Updates -> Nat]
    OBVIOUS
  <2>3. fate \in [Updates -> {"none", "ignored", "handled", "skipped"}]
    OBVIOUS
  <2>4. history \in 0 .. MaxUpdates /\ attempt \in 0 .. Retries
    OBVIOUS
  <2>5. ts \in 0 .. history /\ from \in 0 .. ts /\ upto \in 0 .. history
        /\ next \in 1 .. (upto + 1)
    OBVIOUS
  <2> QED
    BY <2>1, <2>2, <2>3, <2>4, <2>5 DEF TypeOK
<1>2. Ahead
  BY DEF Ahead, Fresh, Reached, InResponse, Updates
<1>3. SkippedAfterRetries
  BY DEF SkippedAfterRetries
<1>4. NonePassedOver
  BY DEF NonePassedOver
<1> QED
  BY <1>1, <1>2, <1>3, <1>4 DEF SafetyInv, ConsumerInv

\* Every step keeps the types and the positions.
LEMMA TypesKept ==
  ASSUME SafetyInv, [Next]_vars
  PROVE  TypeOK'
<1> USE Positions DEF SafetyInv, ConsumerInv, TypeOK, InResponse, session, batch, record
<1>1. CASE Arrive
  BY <1>1 DEF Arrive
<1>2. CASE Bootstrap
  BY <1>2 DEF Bootstrap, Begin
<1>3. CASE Sleep
  BY <1>3 DEF Sleep
<1>4. CASE PollUpdates
  BY <1>4 DEF PollUpdates
<1>5. CASE PollOutdated
  BY <1>5 DEF PollOutdated, Begin
<1>6. CASE PollError
  BY <1>6 DEF PollError
<1>7. CASE RetryDelay
  BY <1>7 DEF RetryDelay
<1>8. CASE Signal
  BY <1>8 DEF Signal
<1>9. CASE Restart
  <2>1. /\ UNCHANGED <<history, ts, from, tries, fate>>
        /\ at' = "bootstrap" /\ stopping' \in BOOLEAN
    BY <1>9 DEF Restart
  <2>2. upto' \in 0 .. history' /\ next' \in 1 .. (upto' + 1) /\ attempt' \in 0 .. Retries
    BY <1>9 DEF Restart
  <2> QED
    BY <2>1, <2>2
<1>10. CASE Ignore
  <2>1. fate' \in [Updates -> {"none", "ignored", "handled", "skipped"}]
    BY <1>10 DEF Ignore, Finish
  <2>2. ts' \in 0 .. history' /\ from' \in 0 .. ts'
    BY <1>10 DEF Ignore, Finish
  <2>3. next' \in 1 .. (upto' + 1) /\ (InResponse' => ts' < next' /\ next' <= upto')
    BY <1>10 DEF Ignore, Finish
  <2> QED
    BY <1>10, <2>1, <2>2, <2>3 DEF Ignore, Finish
<1>11. CASE HandlerSucceeds
  BY <1>11 DEF HandlerSucceeds, HandlerRuns, Finish
<1>12. CASE HandlerFails
  <2> USE <1>12 DEF HandlerFails, HandlerRuns, Finish
  <2>1. CASE ~stopping /\ attempt < Retries
    BY <2>1
  <2>2. CASE ~stopping /\ attempt >= Retries
    BY <2>2
  <2>3. CASE stopping
    BY <2>3
  <2> QED
    BY <2>1, <2>2, <2>3
<1>13. CASE UNCHANGED vars
  BY <1>13 DEF vars
<1> QED
  BY <1>1, <1>2, <1>3, <1>4, <1>5, <1>6, <1>7, <1>8, <1>9, <1>10, <1>11,
     <1>12, <1>13
  DEF Next, ConsumerStep

\* Nothing beyond the update being handled has been touched.
LEMMA AheadKept ==
  ASSUME SafetyInv, [Next]_vars
  PROVE  Ahead'
<1> USE Positions
     DEF SafetyInv, ConsumerInv, TypeOK, Ahead, Fresh, Reached, InResponse,
         Updates, session, batch, record
<1>1. CASE Arrive
  BY <1>1 DEF Arrive
<1>2. CASE Bootstrap
  BY <1>2 DEF Bootstrap, Begin
<1>3. CASE Sleep
  BY <1>3 DEF Sleep
<1>4. CASE PollUpdates
  BY <1>4 DEF PollUpdates
<1>5. CASE PollOutdated
  BY <1>5 DEF PollOutdated, Begin
<1>6. CASE PollError
  BY <1>6 DEF PollError
<1>7. CASE RetryDelay
  BY <1>7 DEF RetryDelay
<1>8. CASE Signal
  BY <1>8 DEF Signal
<1>9. CASE Restart
  BY <1>9 DEF Restart
<1>10. CASE Ignore
  BY <1>10 DEF Ignore, Finish
<1>11. CASE HandlerSucceeds
  BY <1>11 DEF HandlerSucceeds, HandlerRuns, Finish
<1>12. CASE HandlerFails
  <2> USE <1>12 DEF HandlerFails, HandlerRuns, Finish
  <2>1. CASE ~stopping /\ attempt < Retries
    BY <2>1
  <2>2. CASE ~stopping /\ attempt >= Retries
    BY <2>2
  <2>3. CASE stopping
    BY <2>3
  <2> QED
    BY <2>1, <2>2, <2>3
<1>13. CASE UNCHANGED vars
  BY <1>13 DEF vars
<1> QED
  BY <1>1, <1>2, <1>3, <1>4, <1>5, <1>6, <1>7, <1>8, <1>9, <1>10, <1>11,
     <1>12, <1>13
  DEF Next, ConsumerStep

\* The tries of an update are counted up to the last retry.
LEMMA SkippedKept ==
  ASSUME SafetyInv, [Next]_vars
  PROVE  SkippedAfterRetries'
<1> USE Positions, RetriesAssumption
     DEF SafetyInv, ConsumerInv, TypeOK, Ahead, InResponse, SkippedAfterRetries,
         Updates, session, batch, record
<1>1. CASE Arrive
  BY <1>1 DEF Arrive
<1>2. CASE Bootstrap
  BY <1>2 DEF Bootstrap, Begin
<1>3. CASE Sleep
  BY <1>3 DEF Sleep
<1>4. CASE PollUpdates
  BY <1>4 DEF PollUpdates
<1>5. CASE PollOutdated
  BY <1>5 DEF PollOutdated, Begin
<1>6. CASE PollError
  BY <1>6 DEF PollError
<1>7. CASE RetryDelay
  BY <1>7 DEF RetryDelay
<1>8. CASE Signal
  BY <1>8 DEF Signal
<1>9. CASE Restart
  BY <1>9 DEF Restart
<1>10. CASE Ignore
  BY <1>10 DEF Ignore, Finish
<1>11. CASE HandlerSucceeds
  BY <1>11 DEF HandlerSucceeds, HandlerRuns, Finish
<1>12. CASE HandlerFails
  <2> USE <1>12 DEF HandlerFails, HandlerRuns, Finish
  <2>1. CASE ~stopping /\ attempt < Retries
    BY <2>1
  <2>2. CASE ~stopping /\ attempt >= Retries
    BY <2>2
  <2>3. CASE stopping
    BY <2>3
  <2> QED
    BY <2>1, <2>2, <2>3
<1>13. CASE UNCHANGED vars
  BY <1>13 DEF vars
<1> QED
  BY <1>1, <1>2, <1>3, <1>4, <1>5, <1>6, <1>7, <1>8, <1>9, <1>10, <1>11,
     <1>12, <1>13
  DEF Next, ConsumerStep

\* A response is worked off without gaps.
LEMMA SessionKept ==
  ASSUME SafetyInv, [Next]_vars
  PROVE  NonePassedOver'
<1> USE Positions
     DEF SafetyInv, ConsumerInv, TypeOK, InResponse, NonePassedOver, Updates,
         session, batch, record
<1>1. CASE Arrive
  BY <1>1 DEF Arrive
<1>2. CASE Bootstrap
  BY <1>2 DEF Bootstrap, Begin
<1>3. CASE Sleep
  BY <1>3 DEF Sleep
<1>4. CASE PollUpdates
  BY <1>4 DEF PollUpdates
<1>5. CASE PollOutdated
  BY <1>5 DEF PollOutdated, Begin
<1>6. CASE PollError
  BY <1>6 DEF PollError
<1>7. CASE RetryDelay
  BY <1>7 DEF RetryDelay
<1>8. CASE Signal
  BY <1>8 DEF Signal
<1>9. CASE Restart
  BY <1>9 DEF Restart
<1>10. CASE Ignore
  BY <1>10 DEF Ignore, Finish
<1>11. CASE HandlerSucceeds
  BY <1>11 DEF HandlerSucceeds, HandlerRuns, Finish
<1>12. CASE HandlerFails
  <2> USE <1>12 DEF HandlerFails, HandlerRuns, Finish
  <2>1. CASE ~stopping /\ attempt < Retries
    BY <2>1
  <2>2. CASE ~stopping /\ attempt >= Retries
    BY <2>2
  <2>3. CASE stopping
    BY <2>3
  <2> QED
    BY <2>1, <2>2, <2>3
<1>13. CASE UNCHANGED vars
  BY <1>13 DEF vars
<1> QED
  BY <1>1, <1>2, <1>3, <1>4, <1>5, <1>6, <1>7, <1>8, <1>9, <1>10, <1>11,
     <1>12, <1>13
  DEF Next, ConsumerStep

LEMMA Safe == Spec => []SafetyInv
<1>1. ASSUME SafetyInv, [Next]_vars PROVE SafetyInv'
  BY <1>1, TypesKept, AheadKept, SkippedKept, SessionKept
  DEF SafetyInv, ConsumerInv
<1> QED
  BY <1>1, InitSafe, PTL DEF Spec

-----------------------------------------------------------------------------
(* What follows.                                                           *)

\* Positions of the consumer stay consistent (Run, consumeLoop).
THEOREM TypeCorrect == Spec => []TypeOK
BY Safe, PTL DEF SafetyInv, ConsumerInv

\* consumeLoop passes over no update of its session, and retryUpdateHandler
\* skips one only after all its retries, restarts included.
THEOREM SessionsAreComplete == Spec => []SessionComplete
<1>1. SafetyInv => SessionComplete
  BY DEF SafetyInv, NonePassedOver, SkippedAfterRetries, SessionComplete
<1> QED
  BY <1>1, Safe, PTL

\* Handlers run in VK's order and an update whose handling has ended is never
\* handled again.
THEOREM HandlersRunInOrder == Spec => HandledInOrderOnce
<1> DEFINE InOrder ==
      \A e \in Updates : tries'[e] > tries[e] =>
        fate[e] = "none" /\ \A f \in Updates : f > e => tries[f] = 0
<1>1. ASSUME SafetyInv, [Next]_vars PROVE [InOrder]_vars
  <2>1. SUFFICES ASSUME NEW e \in Updates, tries'[e] > tries[e]
                 PROVE  fate[e] = "none" /\ \A f \in Updates : f > e => tries[f] = 0
    OBVIOUS
  <2>2. tries[e] \in Nat
    BY <1>1 DEF SafetyInv, ConsumerInv, TypeOK
  <2>3. tries' # tries
    BY <2>1, <2>2
  <2>4. at = "handle" /\ HandlerRuns
    BY <1>1, <2>3
    DEF Next, ConsumerStep, Arrive, Bootstrap, Sleep, PollUpdates, PollOutdated,
        PollError, Ignore, HandlerSucceeds, HandlerFails, RetryDelay, Signal,
        Restart, record, vars
  <2>5. e = next
    BY <2>1, <2>2, <2>4, <1>1 DEF HandlerRuns, SafetyInv, ConsumerInv, TypeOK
  <2> QED
    BY <1>1, <2>4, <2>5
    DEF SafetyInv, ConsumerInv, Ahead, Fresh, Reached, InResponse
<1> QED
  BY <1>1, Safe, PTL DEF Spec, HandledInOrderOnce
=============================================================================
