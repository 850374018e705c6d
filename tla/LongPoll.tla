------------------------------ MODULE LongPoll ------------------------------
(***************************************************************************)
(* The VK Bots Long Poll consumer (internal/vk/longpoll.go): one goroutine *)
(* that opens a session at the current position of VK's history, polls for *)
(* updates after it, and runs the handler of each update with retries.     *)
(*                                                                         *)
(* Updates are numbered by VK.  What a handler does is module AutoRun (it  *)
(* signals jobs) and module Digest (it saves a message); here it answers   *)
(* or fails.                                                               *)
(***************************************************************************)
EXTENDS Integers

CONSTANTS
  MaxUpdates,  \* bound: updates VK ever has
  Ignored,     \* updates that no handler sees: other types, undecodable
               \* objects, peers that are not conversations
  Retries,     \* len(updateHandlerRetryDelays)
  Crashes      \* whether the process may be killed

ASSUME UpdatesAssumption == MaxUpdates \in Nat
ASSUME RetriesAssumption == Retries \in Nat
ASSUME CrashesAssumption == Crashes \in BOOLEAN

VARIABLES
  history,   \* number of updates VK has had so far
  at,        \* where the goroutine is
  ts,        \* position of the session
  from,      \* history variable: position where the session last began
  next,      \* the update of the response being handled
  upto,      \* ts of the response, its last update
  attempt,   \* attempts at the current update that failed
  tries,     \* history variable: handler runs of every update
  fate,      \* history variable: how the handling of every update ended
  stopping   \* the group context is cancelled

session == <<ts, from>>
batch   == <<next, upto, attempt>>
record  == <<tries, fate>>
vars    == <<history, at, session, batch, record, stopping>>

Updates == 1 .. MaxUpdates

Init ==
  /\ history = 0 /\ stopping = FALSE
  /\ at = "bootstrap" /\ ts = 0 /\ from = 0
  /\ next = 1 /\ upto = 0 /\ attempt = 0
  /\ tries = [e \in Updates |-> 0]
  /\ fate = [e \in Updates |-> "none"]

-----------------------------------------------------------------------------
(* Sessions.                                                               *)

\* A message or a button pressed in a conversation of the group.
Arrive ==
  /\ history < MaxUpdates
  /\ history' = history + 1
  /\ UNCHANGED <<at, session, batch, record, stopping>>

\* A new session is at the present: what came before it is not delivered.
Begin(position) == ts' = position /\ from' = position

\* Run, top of the loop: cancellation, GetLongPollServer or its error.
Bootstrap ==
  /\ at = "bootstrap"
  /\ \/ stopping /\ at' = "exited" /\ UNCHANGED session
     \/ ~stopping /\ at' = "poll" /\ Begin(history)
     \/ at' = "wait" /\ UNCHANGED session
  /\ UNCHANGED <<history, batch, record, stopping>>

\* sleepWithContext before the next session.
Sleep ==
  /\ at = "wait"
  /\ at' = IF stopping THEN "exited" ELSE "bootstrap"
  /\ UNCHANGED <<history, session, batch, record, stopping>>

-----------------------------------------------------------------------------
(* consumeLoop.                                                            *)

\* The updates after ts, up to any that VK has; none when the wait is over.
PollUpdates ==
  /\ at = "poll" /\ ~stopping
  /\ \E last \in (ts + 1) .. history :
       next' = ts + 1 /\ upto' = last /\ attempt' = 0
  /\ at' = "handle"
  /\ UNCHANGED <<history, session, record, stopping>>

\* failed = 1: VK has lost a part of the history and names a new position.
PollOutdated ==
  /\ at = "poll" /\ ~stopping
  /\ \E position \in ts .. history : Begin(position)
  /\ UNCHANGED <<history, at, batch, record, stopping>>

\* Mutant: an error is taken for a poll without updates.
PollAgain ==
  /\ at = "poll"
  /\ UNCHANGED vars

\* failed = 2 or 3, a transport error, an unreadable or too long body.
PollError ==
  /\ at = "poll"
  /\ at' = IF stopping THEN "exited" ELSE "wait"
  /\ UNCHANGED <<history, session, batch, record, stopping>>

-----------------------------------------------------------------------------
(* One update.                                                             *)

\* Mutant: the position of the response is forgotten.
FinishKeepingTs(outcome) ==
  /\ fate' = [fate EXCEPT ![next] = outcome]
  /\ attempt' = 0 /\ next' = next + 1
  /\ at' = IF next < upto THEN "handle" ELSE "poll"
  /\ UNCHANGED <<upto, ts>>

\* Mutant: the position moves before the response is handled.
FinishMovingTsFirst(outcome) ==
  /\ fate' = [fate EXCEPT ![next] = outcome]
  /\ attempt' = 0 /\ next' = next + 1
  /\ at' = IF next < upto THEN "handle" ELSE "poll"
  /\ ts' = upto
  /\ UNCHANGED upto

\* The loop over the updates of a response goes on; after the last one the
\* position moves.
Finish(outcome) ==
  /\ fate' = [fate EXCEPT ![next] = outcome]
  /\ attempt' = 0 /\ next' = next + 1
  /\ at' = IF next < upto THEN "handle" ELSE "poll"
  /\ ts' = IF next < upto THEN ts ELSE upto
  /\ UNCHANGED upto

Ignore ==
  /\ at = "handle" /\ next \in Ignored
  /\ Finish("ignored")
  /\ UNCHANGED <<history, from, tries, stopping>>

HandlerRuns == tries' = [tries EXCEPT ![next] = @ + 1]

HandlerSucceeds ==
  /\ at = "handle" /\ next \notin Ignored
  /\ HandlerRuns
  /\ Finish("handled")
  /\ UNCHANGED <<history, from, stopping>>

\* Mutant: the error of an update that is given up ends its response.
FailsDroppingRest ==
  /\ at = "handle" /\ next \notin Ignored
  /\ HandlerRuns
  /\ \/ ~stopping /\ attempt < Retries /\ at' = "retry"
        /\ attempt' = attempt + 1 /\ UNCHANGED <<next, upto, ts, fate>>
     \/ ~stopping /\ attempt >= Retries /\ at' = "poll" /\ ts' = upto
        /\ fate' = [fate EXCEPT ![next] = "skipped"]
        /\ UNCHANGED <<next, upto, attempt>>
     \/ stopping /\ at' = "exited"
        /\ UNCHANGED <<next, upto, attempt, ts, fate>>
  /\ UNCHANGED <<history, from, stopping>>

\* retryUpdateHandler after an error: the shutdown ends it, a delay precedes
\* another attempt, and after the last delay the update is skipped.
HandlerFails ==
  /\ at = "handle" /\ next \notin Ignored
  /\ HandlerRuns
  /\ \/ ~stopping /\ attempt < Retries /\ at' = "retry"
        /\ attempt' = attempt + 1 /\ UNCHANGED <<next, upto, ts, fate>>
     \/ ~stopping /\ attempt >= Retries /\ Finish("skipped")
     \/ stopping /\ at' = "exited"
        /\ UNCHANGED <<next, upto, attempt, ts, fate>>
  /\ UNCHANGED <<history, from, stopping>>

\* Mutant: the timer is never started.
RetryDelayForever ==
  /\ at = "retry" /\ stopping
  /\ at' = "exited"
  /\ UNCHANGED <<history, session, batch, record, stopping>>

RetryDelay ==
  /\ at = "retry"
  /\ at' = IF stopping THEN "exited" ELSE "handle"
  /\ UNCHANGED <<history, session, batch, record, stopping>>

-----------------------------------------------------------------------------
(* The process.                                                            *)

Signal ==
  /\ ~stopping /\ stopping' = TRUE
  /\ UNCHANGED <<history, at, session, batch, record>>

\* A new process knows nothing of the old one.
Restart ==
  /\ at = "exited" \/ Crashes
  /\ at' = "bootstrap" /\ stopping' = FALSE
  /\ next' = 1 /\ upto' = 0 /\ attempt' = 0
  /\ UNCHANGED <<history, session, record>>

ConsumerStep ==
  \/ Bootstrap \/ Sleep
  \/ PollUpdates \/ PollOutdated \/ PollError
  \/ Ignore \/ HandlerSucceeds \/ HandlerFails \/ RetryDelay

Next == ConsumerStep \/ Arrive \/ Signal \/ Restart

Spec == Init /\ [][Next]_vars

\* The goroutine is scheduled, and its calls and sleeps have timeouts.  Polls
\* may find nothing for ever, but a cancelled one ends.
FairSpec == Spec /\ WF_vars((at = "poll" => stopping) /\ ConsumerStep)

-----------------------------------------------------------------------------
(* Properties.                                                             *)

InResponse == at \in {"handle", "retry"}

\* Every variable keeps its type, and the position of a response is
\* consistent with that of its session and with VK's history.
TypeOK ==
  /\ history \in 0 .. MaxUpdates
  /\ at \in {"bootstrap", "wait", "poll", "handle", "retry", "exited"}
  /\ ts \in 0 .. history /\ from \in 0 .. ts
  /\ upto \in 0 .. history /\ next \in 1 .. (upto + 1)
  /\ attempt \in 0 .. Retries
  /\ tries \in [Updates -> Nat]
  /\ fate \in [Updates -> {"none", "ignored", "handled", "skipped"}]
  /\ stopping \in BOOLEAN
  /\ InResponse => ts < next /\ next <= upto

\* Handlers run one after the other in VK's order, and never again for an
\* update that was handled, skipped or ignored, not in a later session and
\* not after a restart.
HandledInOrderOnce ==
  [][\A e \in Updates : tries'[e] > tries[e] =>
       fate[e] = "none" /\ \A f \in Updates : f > e => tries[f] = 0]_vars

\* Within a session no update is passed over: a failing update, a failed poll
\* or an early position loses nothing.  Only a new position, of a new session
\* or named by VK, can.  And an update is skipped only after all its retries,
\* and never tried more often (docs/architecture.md, Long Poll).
SessionComplete ==
  \A e \in Updates :
    /\ at \in {"poll", "handle", "retry"} /\ from < e
         /\ e < (IF InResponse THEN next ELSE ts + 1) => fate[e] # "none"
    /\ tries[e] <= Retries + 1
    /\ fate[e] = "skipped" => tries[e] = Retries + 1

\* One failing update does not hold up the others (docs/architecture.md, Long
\* Poll): each update of a response comes to its end, unless the process does.
UpdatesGetAFate ==
  \A e \in Updates :
    InResponse /\ next <= e /\ e <= upto ~>
      fate[e] # "none" \/ at \in {"bootstrap", "exited"}

\* A cancelled consumer returns, whatever it was doing: App.Run waits for it.
SignalStopsConsumer == stopping ~> at = "exited" \/ ~stopping
=============================================================================
