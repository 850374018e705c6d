---------------------------- MODULE AutoRunProofs ----------------------------
(***************************************************************************)
(* Proofs about AutoRun, for any number of conversations and goroutines.   *)
(***************************************************************************)
EXTENDS AutoRun, FiniteSetTheorems, TLAPS

(* The wait group counts the goroutines that are alive, and App.Run is past *)
(* group.Wait() only when its goroutines are gone and no job can start.     *)
WaitGroupCounts == jobsWg = Cardinality(Live)

Phases ==
  /\ run = "wait" <=> ctx # "nil"
  /\ run # "wait" => consumer.at = "exited" /\ cleanup = "exited"
  /\ run = "closed" => Live = {}

\* Every step keeps the types, as far as the wait group stays a number.
LEMMA TypesKept ==
  ASSUME TypeOK, [Next]_vars, jobsWg' \in Nat
  PROVE  TypeOK'
<1> USE DEF TypeOK, Free, AutoLabels, ManualLabels
<1>1. ASSUME NEW p \in Peers, Receive(p) PROVE TypeOK'
  BY <1>1 DEF Receive
<1>2. ASSUME NEW p \in Peers, StartManual(p) PROVE TypeOK'
  BY <1>2 DEF StartManual, StartBackgroundJob, Rejected, Consumer
<1>3. ASSUME NEW p \in Peers, ScheduleAutoSummary(p) PROVE TypeOK'
  BY <1>3 DEF ScheduleAutoSummary, Consumer
<1>4. ASSUME NEW p \in Peers, StartAuto(p) PROVE TypeOK'
  BY <1>4 DEF StartAuto, StartBackgroundJob, Rejected, Consumer
<1>5. ASSUME NEW p \in Peers, RollbackAuto(p) PROVE TypeOK'
  BY <1>5 DEF RollbackAuto, Consumer
<1>6. CASE ConsumerExit
  BY <1>6 DEF ConsumerExit
<1>7. ASSUME NEW j \in Slots, JobStep(j) PROVE TypeOK'
  BY <1>7, NoneAssumption
  DEF JobStep, TopOfLoop, EndOfPass, RecordFailure, Decide,
      ClearAutoSummaryRun, RunManual, PublishManualResult, JobDone, Move
<1>8. CASE Signal \/ Cleanup \/ StopAndWait \/ CloseRepository
  BY <1>8 DEF Signal, Cleanup, StopAndWait, CloseRepository
<1>9. CASE UNCHANGED vars
  BY <1>9 DEF vars
<1> QED
  BY <1>1, <1>2, <1>3, <1>4, <1>5, <1>6, <1>7, <1>8, <1>9
  DEF Next, ConsumerStep

-----------------------------------------------------------------------------
(* Shutdown.                                                               *)

\* Occupying a free slot adds one live goroutine.
LEMMA StartCounts ==
  ASSUME TypeOK, NEW p \in Peers, NEW label \in AutoLabels \cup ManualLabels,
         WaitGroupCounts, StartBackgroundJob(p, label)
  PROVE  WaitGroupCounts' /\ ctx = "live"
<1>1. PICK j \in Slots : /\ jobs[j] = Free
                         /\ jobs' = [jobs EXCEPT ![j] = [peer |-> p, at |-> label]]
  BY DEF StartBackgroundJob
<1>2. j \notin Live /\ Live' = Live \cup {j}
  BY <1>1 DEF Live, Free, TypeOK, AutoLabels, ManualLabels
<1>3. IsFiniteSet(Live)
  BY SlotsAssumption, FS_Subset DEF Live
<1>4. Cardinality(Live') = Cardinality(Live) + 1
  BY <1>2, <1>3, FS_AddElement
<1> QED
  BY <1>4 DEF WaitGroupCounts, StartBackgroundJob

\* A finished goroutine is subtracted exactly once.
LEMMA DoneCounts ==
  ASSUME TypeOK, NEW j \in Slots, WaitGroupCounts, JobDone(j)
  PROVE  WaitGroupCounts' /\ Live' \subseteq Live
<1>1. j \in Live /\ Live' = Live \ {j}
  BY DEF JobDone, Live, Free, TypeOK
<1>2. IsFiniteSet(Live)
  BY SlotsAssumption, FS_Subset DEF Live
<1>3. Cardinality(Live') = Cardinality(Live) - 1
  BY <1>1, <1>2, FS_RemoveElement
<1> QED
  BY <1>1, <1>3 DEF WaitGroupCounts, JobDone

\* Any other step of a goroutine keeps it alive.
LEMMA MoveKeepsLive ==
  ASSUME TypeOK, NEW j \in Slots, JobStep(j), ~JobDone(j)
  PROVE  Live' = Live /\ UNCHANGED <<ctx, jobsWg, consumer, cleanup, run>>
BY DEF JobStep, TopOfLoop, EndOfPass, RecordFailure, Decide,
       ClearAutoSummaryRun, RunManual, PublishManualResult, Move, Live, TypeOK,
       Free

\* What the shutdown relies on: the wait group is exact, and once App.Run has
\* passed group.Wait() nobody is left who could add to it.
ShutdownInv == TypeOK /\ WaitGroupCounts /\ Phases

LEMMA ShutdownInductive == Spec => []ShutdownInv
<1>1. Init => ShutdownInv
  <2> SUFFICES ASSUME Init PROVE WaitGroupCounts /\ Phases /\ TypeOK
    BY DEF ShutdownInv
  <2>1. Live = {}
    BY DEF Init, Live, Free
  <2> QED
    BY <2>1, FS_EmptySet DEF Init, WaitGroupCounts, Phases, TypeOK, Free
<1>2. ShutdownInv /\ [Next]_vars => ShutdownInv'
  <2> SUFFICES ASSUME TypeOK, WaitGroupCounts, Phases, [Next]_vars
               PROVE  WaitGroupCounts' /\ Phases'
    <3>1. ASSUME WaitGroupCounts' PROVE jobsWg' \in Nat
      BY <3>1, SlotsAssumption, FS_Subset, FS_CardinalityType
      DEF WaitGroupCounts, Live
    <3> QED
      BY <3>1, TypesKept DEF ShutdownInv
  <2>1. ASSUME NEW p \in Peers, Receive(p) PROVE WaitGroupCounts' /\ Phases'
    BY <2>1 DEF Receive, WaitGroupCounts, Phases, Live
  <2>2. ASSUME NEW p \in Peers, StartManual(p) \/ StartAuto(p)
        PROVE  WaitGroupCounts' /\ Phases'
    <3>1. CASE Rejected
      BY <2>2, <3>1 DEF StartManual, StartAuto, StartBackgroundJob, Rejected,
                        Consumer, WaitGroupCounts, Phases, Live
    <3>2. CASE ~Rejected
      <4>1. WaitGroupCounts' /\ ctx = "live"
        BY <2>2, <3>2, StartCounts
        DEF StartManual, StartAuto, AutoLabels, ManualLabels
      <4>2. UNCHANGED <<ctx, run>>
        BY <2>2 DEF StartManual, StartAuto
      <4> QED
        BY <4>1, <4>2 DEF Phases
    <3> QED
      BY <3>1, <3>2
  <2>3. ASSUME NEW p \in Peers, ScheduleAutoSummary(p) \/ RollbackAuto(p)
        PROVE  WaitGroupCounts' /\ Phases'
    BY <2>3 DEF ScheduleAutoSummary, RollbackAuto, Consumer, WaitGroupCounts,
                Phases, Live
  <2>4. CASE ConsumerExit
    BY <2>4 DEF ConsumerExit, WaitGroupCounts, Phases, Live
  <2>5. ASSUME NEW j \in Slots, JobStep(j) PROVE WaitGroupCounts' /\ Phases'
    <3>1. CASE JobDone(j)
      BY <3>1, DoneCounts DEF JobDone, Phases
    <3>2. CASE ~JobDone(j)
      BY <2>5, <3>2, MoveKeepsLive DEF WaitGroupCounts, Phases
    <3> QED
      BY <3>1, <3>2
  <2>6. CASE Signal \/ Cleanup \/ StopAndWait
    BY <2>6 DEF Signal, Cleanup, StopAndWait, WaitGroupCounts, Phases, Live,
                TypeOK
  <2>7. CASE CloseRepository
    <3>1. Live = {}
      BY <2>7, SlotsAssumption, FS_Subset, FS_EmptySet
      DEF CloseRepository, WaitGroupCounts, Live
    <3> QED
      BY <2>7, <3>1 DEF CloseRepository, WaitGroupCounts, Phases, Live
  <2>8. CASE UNCHANGED vars
    BY <2>8 DEF vars, WaitGroupCounts, Phases, Live
  <2> QED
    BY <2>1, <2>2, <2>3, <2>4, <2>5, <2>6, <2>7, <2>8 DEF Next, ConsumerStep
<1> QED
  BY <1>1, <1>2, PTL DEF Spec

\* Every variable keeps its type; in particular the wait group is never
\* taken below zero, which would panic.
THEOREM TypeCorrect == Spec => []TypeOK
BY ShutdownInductive, PTL DEF ShutdownInv

\* The repository is closed only after the last goroutine that uses it.
THEOREM NothingUsesClosedRepository == Spec => []ClosedMeansQuiet
<1>1. ShutdownInv => ClosedMeansQuiet
  BY DEF ShutdownInv, Phases, ClosedMeansQuiet
<1> QED
  BY <1>1, ShutdownInductive, PTL

-----------------------------------------------------------------------------
(* Serialisation of the automatic runs.                                    *)

\* The entry of a conversation and its owner come and go together.
OneOwner      == \A p \in Peers : \A x, y \in Owners(p) : x = y
EntryHasOwner == \A p \in Peers : autoRuns[p] # "absent" <=> Owners(p) # {}
Ownership     == EntryHasOwner /\ OneOwner

\* Steps that leave the automatic goroutines, the entries and the consumer's
\* claim alone leave the owners alone.
LEMMA OwnersUnchanged ==
  ASSUME Ownership, UNCHANGED autoRuns, \A p \in Peers : Owners(p)' = Owners(p)
  PROVE  Ownership'
BY DEF Ownership, EntryHasOwner, OneOwner

LEMMA OwnershipInductive == Spec => []Ownership
<1>1. Init => Ownership
  BY DEF Init, Ownership, EntryHasOwner, OneOwner, Owners, AutoJobs, Free,
         AutoLabels
<1>2. Ownership /\ TypeOK /\ TypeOK' /\ [Next]_vars => Ownership'
  <2> SUFFICES ASSUME Ownership, TypeOK, TypeOK', [Next]_vars PROVE Ownership'
    OBVIOUS
  <2>1. ASSUME NEW p \in Peers, Receive(p) PROVE Ownership'
    <3>1. \A q \in Peers : Owners(q)' = Owners(q)
      BY <2>1 DEF Receive, Owners, AutoJobs
    <3> QED
      BY <2>1, <3>1, OwnersUnchanged DEF Receive
  <2>2. ASSUME NEW p \in Peers, StartManual(p) PROVE Ownership'
    <3>1. \A q \in Peers : AutoJobs(q)' = AutoJobs(q)
      BY <2>2 DEF StartManual, StartBackgroundJob, Rejected, AutoJobs, TypeOK,
                  Free, AutoLabels
    <3>2. \A q \in Peers : Owners(q)' = Owners(q)
      BY <2>2, <3>1 DEF StartManual, Consumer, Owners
    <3> QED
      BY <2>2, <3>2, OwnersUnchanged DEF StartManual
  <2>3. ASSUME NEW p \in Peers, ScheduleAutoSummary(p) PROVE Ownership'
    <3>1. \A q \in Peers : AutoJobs(q)' = AutoJobs(q)
      BY <2>3 DEF ScheduleAutoSummary, AutoJobs
    <3>2. \A q \in Peers \ {p} : Owners(q)' = Owners(q)
                                 /\ autoRuns'[q] = autoRuns[q]
      BY <2>3, <3>1, NoneAssumption DEF ScheduleAutoSummary, Consumer, Owners, TypeOK
    <3>3. CASE autoRuns[p] = "absent"
      <4>1. Owners(p) = {}
        BY <3>3 DEF Ownership, EntryHasOwner
      <4>2. AutoJobs(p) = {}
        BY <4>1 DEF Owners
      <4>3. Owners(p)' = {None} /\ autoRuns'[p] = "running"
        BY <2>3, <3>1, <3>3, <4>2 DEF ScheduleAutoSummary, Consumer, Owners, TypeOK
      <4> QED
        BY <3>2, <4>3 DEF Ownership, EntryHasOwner, OneOwner
    <3>4. CASE autoRuns[p] # "absent"
      <4>1. Owners(p)' = Owners(p) /\ autoRuns'[p] = "pending"
        BY <2>3, <3>1, <3>4, NoneAssumption DEF ScheduleAutoSummary, Consumer, Owners, TypeOK
      <4> QED
        BY <3>2, <3>4, <4>1 DEF Ownership, EntryHasOwner, OneOwner
    <3> QED
      BY <3>3, <3>4
  <2>4. ASSUME NEW p \in Peers, StartAuto(p) PROVE Ownership'
    <3>1. \A q \in Peers \ {p} : Owners(q)' = Owners(q)
      BY <2>4, NoneAssumption
      DEF StartAuto, StartBackgroundJob, Rejected, Consumer, Owners, AutoJobs,
          TypeOK, Free, AutoLabels
    <3>2. Owners(p) = {None} /\ AutoJobs(p) = {}
      BY <2>4, NoneAssumption
      DEF StartAuto, Consumer, Ownership, OneOwner, Owners, AutoJobs
    <3>3. \E x : Owners(p)' = {x}
      <4>1. CASE Rejected
        BY <2>4, <3>2, <4>1 DEF StartAuto, StartBackgroundJob, Rejected, Consumer, Owners, AutoJobs
      <4>2. CASE ~Rejected
        <5>1. PICK j \in Slots :
                /\ jobs[j] = Free
                /\ jobs' = [jobs EXCEPT ![j] = [peer |-> p, at |-> "top"]]
          BY <2>4, <4>2 DEF StartAuto, StartBackgroundJob
        <5>2. AutoJobs(p)' = {j}
          BY <3>2, <5>1 DEF AutoJobs, AutoLabels, TypeOK
        <5>3. consumer'.peer = None
          BY <2>4, <4>2 DEF StartAuto, Consumer
        <5>4. Owners(p)' = {j}
          BY <5>2, <5>3, NoneAssumption DEF Owners
        <5> QED
          BY <5>4
      <4> QED
        BY <4>1, <4>2
    <3>4. UNCHANGED autoRuns
      BY <2>4 DEF StartAuto
    <3> QED
      BY <3>1, <3>2, <3>3, <3>4 DEF Ownership, EntryHasOwner, OneOwner
  <2>5. ASSUME NEW p \in Peers, RollbackAuto(p) PROVE Ownership'
    <3>1. \A q \in Peers \ {p} : Owners(q)' = Owners(q)
                                 /\ autoRuns'[q] = autoRuns[q]
      BY <2>5, NoneAssumption DEF RollbackAuto, Consumer, Owners, AutoJobs, TypeOK
    <3>2. Owners(p) = {None} /\ AutoJobs(p) = {}
      BY <2>5, NoneAssumption
      DEF RollbackAuto, Consumer, Ownership, OneOwner, Owners, AutoJobs
    <3>3. Owners(p)' = {} /\ autoRuns'[p] = "absent"
      BY <2>5, <3>2, NoneAssumption DEF RollbackAuto, Consumer, Owners, AutoJobs, TypeOK
    <3> QED
      BY <3>1, <3>3 DEF Ownership, EntryHasOwner, OneOwner
  <2>6. CASE ConsumerExit
    <3>1. \A q \in Peers : Owners(q)' = Owners(q)
      BY <2>6, NoneAssumption DEF ConsumerExit, Owners, AutoJobs
    <3> QED
      BY <2>6, <3>1, OwnersUnchanged DEF ConsumerExit
  <2>7. ASSUME NEW j \in Slots,
               \/ TopOfLoop(j) \/ EndOfPass(j) \/ RecordFailure(j)
               \/ RunManual(j) \/ PublishManualResult(j) \/ JobDone(j)
        PROVE  Ownership'
    <3>1. \A q \in Peers : AutoJobs(q)' = AutoJobs(q)
      BY <2>7, NoneAssumption
      DEF TopOfLoop, EndOfPass, RecordFailure, RunManual, PublishManualResult,
          JobDone, Move, AutoJobs, AutoLabels, TypeOK, Free
    <3>2. UNCHANGED <<autoRuns, consumer>>
      BY <2>7 DEF TopOfLoop, EndOfPass, RecordFailure, RunManual,
                  PublishManualResult, JobDone
    <3> QED
      BY <3>1, <3>2, OwnersUnchanged DEF Owners
  <2>8. ASSUME NEW j \in Slots, Decide(j) PROVE Ownership'
    <3>1. \A q \in Peers : Owners(q)' = Owners(q)
      BY <2>8 DEF Decide, Move, Owners, AutoJobs, AutoLabels, TypeOK, Free
    <3>2. \A q \in Peers : autoRuns'[q] = "absent" <=> autoRuns[q] = "absent"
      BY <2>8 DEF Decide, TypeOK
    <3> QED
      BY <3>1, <3>2 DEF Ownership, EntryHasOwner, OneOwner
  <2>9. ASSUME NEW j \in Slots, ClearAutoSummaryRun(j) PROVE Ownership'
    <3>1. PICK p \in Peers : p = jobs[j].peer /\ j \in AutoJobs(p)
      BY <2>9 DEF ClearAutoSummaryRun, Move, AutoJobs, AutoLabels, TypeOK, Free
    <3>2. Owners(p) = {j}
      BY <3>1 DEF Ownership, OneOwner, Owners
    <3>3. AutoJobs(p)' = AutoJobs(p) \ {j} /\ autoRuns'[p] = "absent"
      BY <2>9, <3>1 DEF ClearAutoSummaryRun, Move, AutoJobs, AutoLabels, TypeOK
    <3>4. Owners(p)' = {}
      BY <2>9, <3>2, <3>3, NoneAssumption DEF ClearAutoSummaryRun, Owners
    <3>5. \A q \in Peers \ {p} : Owners(q)' = Owners(q)
                                 /\ autoRuns'[q] = autoRuns[q]
      BY <2>9, <3>1 DEF ClearAutoSummaryRun, Move, Owners, AutoJobs, TypeOK
    <3> QED
      BY <3>3, <3>4, <3>5 DEF Ownership, EntryHasOwner, OneOwner
  <2>10. CASE Signal \/ Cleanup \/ StopAndWait \/ CloseRepository \/ UNCHANGED vars
    <3>1. \A q \in Peers : Owners(q)' = Owners(q)
      BY <2>10 DEF Signal, Cleanup, StopAndWait, CloseRepository, vars, Owners,
                   AutoJobs
    <3> QED
      BY <2>10, <3>1, OwnersUnchanged
      DEF Signal, Cleanup, StopAndWait, CloseRepository, vars
  <2> QED
    BY <2>1, <2>2, <2>3, <2>4, <2>5, <2>6, <2>7, <2>8, <2>9, <2>10
    DEF Next, ConsumerStep, JobStep
<1> QED
  BY <1>1, <1>2, TypeCorrect, PTL DEF Spec

\* At most one automatic run per conversation, whatever the consumer does, and
\* an entry of autoRuns exactly while there is one.
THEOREM AutomaticRunsSerialised == Spec => []EntryHasOneOwner
<1>1. Ownership => EntryHasOneOwner
  BY DEF Ownership, OneOwner, EntryHasOwner, EntryHasOneOwner
<1> QED
  BY <1>1, OwnershipInductive, PTL
=============================================================================
