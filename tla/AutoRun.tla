------------------------------- MODULE AutoRun -------------------------------
(***************************************************************************)
(* The background jobs of MessageIngestionService and the life of App.Run  *)
(* around them (internal/app/ingestion.go, internal/app/app.go).           *)
(*                                                                         *)
(* The long poll consumer is one goroutine that handles messages in order. *)
(* A handled message may start a manual job and always signals the         *)
(* automatic job of its conversation.  Each critical section of autoMu and *)
(* lifecycleMu is one atomic step; goroutines interleave between them.     *)
(* What a job does inside executeNext is module Digest.                    *)
(***************************************************************************)
EXTENDS Integers, FiniteSets

CONSTANTS
  Peers,   \* conversations
  Slots,   \* bound: background goroutines alive at the same time
  None     \* no conversation

ASSUME NoneAssumption == None \notin Peers \cup Slots
ASSUME SlotsAssumption == IsFiniteSet(Slots)

VARIABLES
  ctx,       \* lifecycleCtx: live, cancelled, or nil after StopAndWait
  autoRuns,  \* the entry of each peer: absent, running, or running + pending
  jobs,      \* the background goroutines
  jobsWg,    \* counter of the wait group
  consumer,  \* the long poll goroutine: where it is, and for which peer
  cleanup,   \* the retention goroutine
  run        \* the goroutine of App.Run

vars == <<ctx, autoRuns, jobs, jobsWg, consumer, cleanup, run>>

\* An automatic run: top of the loop, a pass, failure accounting, decision
\* under autoMu, deferred clear.  A manual job executes and reports.  "done":
\* only jobsWg.Done() is left.
AutoLabels   == {"top", "execute", "failed", "decide", "clear"}
ManualLabels == {"manual", "report"}
Free         == [peer |-> None, at |-> "free"]

AutoJobs(p) == {j \in Slots : jobs[j].peer = p /\ jobs[j].at \in AutoLabels}
Live == {j \in Slots : jobs[j].at # "free"}

Init ==
  /\ ctx = "live"
  /\ autoRuns = [p \in Peers |-> "absent"]
  /\ jobs = [j \in Slots |-> Free]
  /\ jobsWg = 0
  /\ consumer = [at |-> "poll", peer |-> None]
  /\ cleanup = "prune"
  /\ run = "wait"

-----------------------------------------------------------------------------
(* The consumer: HandleMessage once the message is saved.                  *)

Consumer(from, to, p) ==
  /\ consumer.at = from /\ consumer.peer = p
  /\ consumer' = [at |-> to, peer |-> IF to \in {"poll", "exited"}
                                        THEN None ELSE p]

\* SaveMessage succeeded; the text is the manual command of an allowed sender
\* or anything else.  A handler that gives up before saves nothing.
Receive(p) ==
  /\ ctx = "live" /\ consumer.at = "poll"
  /\ \E to \in {"command", "schedule"} : consumer' = [at |-> to, peer |-> p]
  /\ UNCHANGED <<ctx, autoRuns, jobs, jobsWg, cleanup, run>>

\* Mutant: the job is counted by its own goroutine, later or never.
StartUncounted(p, label) ==
  /\ ctx = "live"
  /\ \E j \in Slots :
       /\ jobs[j] = Free
       /\ jobs' = [jobs EXCEPT ![j] = [peer |-> p, at |-> label]]
  /\ UNCHANGED jobsWg

\* startBackgroundJob, under lifecycleMu: the context is checked and the job
\* counted in one critical section.
StartBackgroundJob(p, label) ==
  /\ ctx = "live"
  /\ \E j \in Slots :
       /\ jobs[j] = Free
       /\ jobs' = [jobs EXCEPT ![j] = [peer |-> p, at |-> label]]
  /\ jobsWg' = jobsWg + 1

Rejected == ctx # "live" /\ UNCHANGED <<jobs, jobsWg>>

\* handleManualTrigger: a rejected job answers with a notice; when that fails
\* too the handler returns the error and no automatic run is scheduled.
StartManual(p) ==
  /\ \/ StartBackgroundJob(p, "manual") /\ Consumer("command", "schedule", p)
     \/ Rejected /\ \E to \in {"schedule", "poll"} : Consumer("command", to, p)
  /\ UNCHANGED <<ctx, autoRuns, cleanup, run>>

\* scheduleAutoSummary, first critical section of autoMu.
ScheduleAutoSummary(p) ==
  /\ IF autoRuns[p] # "absent"
       THEN /\ autoRuns' = [autoRuns EXCEPT ![p] = "pending"]
            /\ Consumer("schedule", "poll", p)
       ELSE /\ autoRuns' = [autoRuns EXCEPT ![p] = "running"]
            /\ Consumer("schedule", "start", p)
  /\ UNCHANGED <<ctx, jobs, jobsWg, cleanup, run>>

StartAuto(p) ==
  /\ \/ StartBackgroundJob(p, "top") /\ Consumer("start", "poll", p)
     \/ Rejected /\ Consumer("start", "rollback", p)
  /\ UNCHANGED <<ctx, autoRuns, cleanup, run>>

\* Mutant: a rejected job leaves its entry.
RollbackNothing(p) ==
  /\ Consumer("rollback", "poll", p)
  /\ UNCHANGED <<ctx, autoRuns, jobs, jobsWg, cleanup, run>>

\* A rejected automatic job takes its entry back.
RollbackAuto(p) ==
  /\ Consumer("rollback", "poll", p)
  /\ autoRuns' = [autoRuns EXCEPT ![p] = "absent"]
  /\ UNCHANGED <<ctx, jobs, jobsWg, cleanup, run>>

ConsumerExit ==
  /\ ctx # "live" /\ consumer.at = "poll"
  /\ consumer' = [at |-> "exited", peer |-> None]
  /\ UNCHANGED <<ctx, autoRuns, jobs, jobsWg, cleanup, run>>

-----------------------------------------------------------------------------
(* Background goroutines.                                                  *)

Move(j, from, to) ==
  /\ jobs[j].at = from
  /\ jobs' = [jobs EXCEPT ![j].at = to]

\* runAutoSummary, top of the loop: shutdown stops it.
TopOfLoop(j) ==
  /\ Move(j, "top", IF ctx = "live" THEN "execute" ELSE "clear")
  /\ UNCHANGED <<ctx, autoRuns, jobsWg, consumer, cleanup, run>>

\* handleAutoSummary returns: nothing more to publish, or an error, which is
\* counted before the shutdown and ends the run after it.
EndOfPass(j) ==
  /\ \E to \in {"decide", IF ctx = "live" THEN "failed" ELSE "clear"} :
       Move(j, "execute", to)
  /\ UNCHANGED <<ctx, autoRuns, jobsWg, consumer, cleanup, run>>

RecordFailure(j) ==
  /\ Move(j, "failed", "decide")
  /\ UNCHANGED <<ctx, autoRuns, jobsWg, consumer, cleanup, run>>

\* Mutant: the pending mark is not looked at.
DecideToStop(j) ==
  /\ Move(j, "decide", "clear")
  /\ UNCHANGED <<ctx, autoRuns, jobsWg, consumer, cleanup, run>>

\* Under autoMu: a pending signal is consumed by another pass.
Decide(j) ==
  /\ jobs[j].at = "decide"
  /\ IF autoRuns[jobs[j].peer] = "pending"
       THEN /\ Move(j, "decide", "top")
            /\ autoRuns' = [autoRuns EXCEPT ![jobs[j].peer] = "running"]
       ELSE Move(j, "decide", "clear") /\ UNCHANGED autoRuns
  /\ UNCHANGED <<ctx, jobsWg, consumer, cleanup, run>>

\* The deferred clearAutoSummaryRun takes autoMu again.
ClearAutoSummaryRun(j) ==
  /\ Move(j, "clear", "done")
  /\ autoRuns' = [autoRuns EXCEPT ![jobs[j].peer] = "absent"]
  /\ UNCHANGED <<ctx, jobsWg, consumer, cleanup, run>>

\* runManualSummary; a shutdown suppresses the report.
RunManual(j) ==
  /\ Move(j, "manual", IF ctx = "live" THEN "report" ELSE "done")
  /\ UNCHANGED <<ctx, autoRuns, jobsWg, consumer, cleanup, run>>

PublishManualResult(j) ==
  /\ Move(j, "report", "done")
  /\ UNCHANGED <<ctx, autoRuns, jobsWg, consumer, cleanup, run>>

\* Mutant: jobsWg.Done() is skipped.
JobGone(j) ==
  /\ jobs[j].at = "done"
  /\ jobs' = [jobs EXCEPT ![j] = Free]
  /\ UNCHANGED <<ctx, autoRuns, jobsWg, consumer, cleanup, run>>

JobDone(j) ==
  /\ jobs[j].at = "done"
  /\ jobs' = [jobs EXCEPT ![j] = Free]
  /\ jobsWg' = jobsWg - 1
  /\ UNCHANGED <<ctx, autoRuns, consumer, cleanup, run>>

JobStep(j) ==
  \/ TopOfLoop(j) \/ EndOfPass(j) \/ RecordFailure(j)
  \/ Decide(j) \/ ClearAutoSummaryRun(j)
  \/ RunManual(j) \/ PublishManualResult(j) \/ JobDone(j)

-----------------------------------------------------------------------------
(* App.Run and the process.                                                *)

\* SIGTERM or SIGINT cancels the context that lifecycleCtx derives from.
Signal ==
  /\ ctx = "live"
  /\ ctx' = "cancelled"
  /\ UNCHANGED <<autoRuns, jobs, jobsWg, consumer, cleanup, run>>

\* Retention prunes at start and daily, and leaves when the context is done.
Cleanup ==
  /\ \/ cleanup = "prune" /\ cleanup' = "ticker"
     \/ cleanup = "ticker" /\ ctx = "live" /\ cleanup' = "prune"
     \/ cleanup = "ticker" /\ ctx # "live" /\ cleanup' = "exited"
  /\ UNCHANGED <<ctx, autoRuns, jobs, jobsWg, consumer, run>>

\* group.Wait() returned; the deferred StopAndWait takes lifecycleMu.
StopAndWait ==
  /\ run = "wait" /\ consumer.at = "exited" /\ cleanup = "exited"
  /\ run' = "stop" /\ ctx' = "nil"
  /\ UNCHANGED <<autoRuns, jobs, jobsWg, consumer, cleanup>>

\* Mutant: the pool is closed as soon as the context is cancelled.
CloseWithoutWaiting ==
  /\ run = "stop"
  /\ run' = "closed"
  /\ UNCHANGED <<ctx, autoRuns, jobs, jobsWg, consumer, cleanup>>

\* jobsWg.Wait() returned; the deferred repo.Close() runs last.
CloseRepository ==
  /\ run = "stop" /\ jobsWg = 0
  /\ run' = "closed"
  /\ UNCHANGED <<ctx, autoRuns, jobs, jobsWg, consumer, cleanup>>

ConsumerStep ==
  \/ \E p \in Peers : \/ StartManual(p) \/ ScheduleAutoSummary(p)
                      \/ StartAuto(p) \/ RollbackAuto(p)
  \/ ConsumerExit

Next ==
  \/ \E p \in Peers : Receive(p)
  \/ ConsumerStep
  \/ \E j \in Slots : JobStep(j)
  \/ Signal \/ Cleanup \/ StopAndWait \/ CloseRepository

Spec == Init /\ [][Next]_vars

\* Goroutines are scheduled, every call of theirs has a timeout, and a pass
\* ends: Digest shows that each job finishes, and the rounds of a pass are
\* bounded by the stored batches.  Messages and signals may never come.
FairSpec ==
  /\ Spec
  /\ WF_vars(ConsumerStep) /\ WF_vars(Cleanup)
  /\ WF_vars(StopAndWait) /\ WF_vars(CloseRepository)
  /\ \A j \in Slots : WF_vars(JobStep(j))

-----------------------------------------------------------------------------
(* Properties.                                                             *)

\* Every variable keeps its type, and the goroutines exist only in the
\* places the code gives them.
TypeOK ==
  /\ ctx \in {"live", "cancelled", "nil"}
  /\ autoRuns \in [Peers -> {"absent", "running", "pending"}]
  /\ jobs \in [Slots -> {Free} \cup
                        [peer : Peers,
                         at : AutoLabels \cup ManualLabels \cup {"done"}]]
  /\ jobsWg \in Nat
  /\ consumer \in [at : {"poll", "exited"}, peer : {None}] \cup
                  [at : {"command", "schedule", "start", "rollback"},
                   peer : Peers]
  /\ cleanup \in {"prune", "ticker", "exited"}
  /\ run \in {"wait", "stop", "closed"}

\* The owner of an entry, between a consumer that reserved it and the deferred
\* clear.
Owners(p) == AutoJobs(p) \cup
  (IF consumer.peer = p /\ consumer.at \in {"start", "rollback"}
     THEN {None} ELSE {})

\* Automatic runs are serialised per conversation: an entry has exactly one
\* owner.  A leaked one would turn every later signal of the conversation into
\* a pending mark nobody reads; beside a run without its entry a second one
\* would start.
EntryHasOneOwner ==
  \A p \in Peers : /\ autoRuns[p] # "absent" <=> Owners(p) # {}
                   /\ \A x, y \in Owners(p) : x = y

\* The pool is closed only when nothing that uses it is alive: no background
\* job, no handler, no retention statement.
ClosedMeansQuiet ==
  run = "closed" => /\ Live = {}
                    /\ consumer.at = "exited" /\ cleanup = "exited"

\* After a signal the application stops: no job, handler or wait is circular.
ShutdownCompletes == ctx # "live" ~> run = "closed"

\* A signal that arrives while a pass is under way gets a pass of its own.
SignalGetsAPass ==
  \A p \in Peers :
    autoRuns[p] = "pending"
      /\ (\E j \in AutoJobs(p) : jobs[j].at \notin {"top", "clear"})
    ~> ctx # "live" \/ \E j \in AutoJobs(p) : jobs[j].at = "top"

\* CHANGELOG.md, 2026-07-07: a repeated signal during the work is marked as
\* pending and handled by the next pass.
PendingNeverDropped ==
  [][\A p \in Peers : autoRuns[p] = "pending" /\ autoRuns'[p] = "absent"
                        => ctx # "live"]_vars
=============================================================================
