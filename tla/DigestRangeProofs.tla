------------------------- MODULE DigestRangeProofs --------------------------
(***************************************************************************)
(* Proofs about the ranges of Digest: what the batch lock protects, that a *)
(* range is counted once, that a pause is kept, and that jobs which do not *)
(* overlap never digest a message of a recorded range.                     *)
(***************************************************************************)
EXTENDS DigestProofs

-----------------------------------------------------------------------------
(* The moves of a job.                                                     *)

\* A job has left executeNext.
Left(w) ==
  pc'[w] \in {"idle", "failed"} /\ job'[w] = NewJob /\ w \notin holders'

\* A job goes on with its candidate and its lock.
Kept(w) ==
  /\ job'[w].first = job[w].first /\ job'[w].cursor = job[w].cursor
  /\ job'[w].ids = job[w].ids
  /\ \/ job'[w].stored = job[w].stored
     \/ job'[w].stored = batches /\ pc[w] = "state"
  /\ w \in holders' <=> w \in holders

\* The moves that keep the candidate.
Arrows ==
  {<<"idle", "state">>, <<"state", "after">>, <<"check", "generate">>,
   <<"generate", "reserve">>, <<"generate", "notice">>, <<"notice", "advance">>,
   <<"reserve", "publish">>, <<"publish", "finalize">>, <<"finalize", "reset">>,
   <<"failed", "idle">>}

\* A step of w is none of another job.
OthersKept(w) ==
  \A v \in Workers \ {w} :
    pc'[v] = pc[v] /\ job'[v] = job[v] /\ (v \in holders' <=> v \in holders)

LEMMA Leaving ==
  ASSUME TypeOK, NEW w \in Workers, Return(w) \/ Throw(w)
  PROVE  Left(w) /\ OthersKept(w)
<1>1. PICK label \in {"idle", "failed"} : Leave(w, label)
  BY DEF Return, Throw
<1> QED
  BY <1>1 DEF Leave, Left, OthersKept, TypeOK, JobsOK

LEMMA Going ==
  ASSUME TypeOK, NEW w \in Workers, NEW label, Goto(w, label)
  PROVE  Kept(w) /\ OthersKept(w) /\ pc'[w] = label
BY DEF Goto, Kept, OthersKept, TypeOK, JobsOK

LEMMA Setting ==
  ASSUME TypeOK, NEW w \in Workers, NEW label, NEW locals, Set(w, label, locals)
  PROVE  /\ pc'[w] = label /\ job'[w] = locals /\ OthersKept(w)
         /\ w \in holders' <=> w \in holders
BY DEF Set, OthersKept, TypeOK, JobsOK

LEMMA KeepingMoves ==
  ASSUME TypeOK, NEW w \in Workers, Begin(w) \/ Step(w),
         ~ LastProcessedMessageID(w), ~ CollectCandidate(w), ~ AcquireBatchLock(w)
  PROVE  /\ OthersKept(w)
         /\ Left(w) \/ (Kept(w) /\ <<pc[w], pc'[w]>> \in Arrows)
<1> USE DEF Arrows
<1>1. CASE LoadState(w)
  <2>1. CASE Return(w)
    BY <2>1, Leaving
  <2>2. CASE Set(w, "after", [job[w] EXCEPT !.next = chat.next,
                                            !.stored = batches])
    <3>1. job[w] \in LocalsType
      BY DEF TypeOK, JobsOK
    <3>2. /\ pc'[w] = "after" /\ OthersKept(w) /\ (w \in holders' <=> w \in holders)
          /\ job'[w] = [job[w] EXCEPT !.next = chat.next, !.stored = batches]
      BY <2>2, Setting
    <3>3. Kept(w)
      BY <1>1, <3>1, <3>2 DEF Kept, LocalsType, LoadState
    <3> QED
      BY <1>1, <3>2, <3>3 DEF LoadState
  <2> QED
    BY <1>1, <2>1, <2>2 DEF LoadState
<1>2. CASE ReserveSummaryIssueNumber(w)
  <2>1. CASE Throw(w)
    BY <2>1, Leaving
  <2>2. CASE Set(w, "publish", [job[w] EXCEPT !.issue = nextIssue])
    <3>1. job[w] \in LocalsType
      BY DEF TypeOK, JobsOK
    <3>2. /\ pc'[w] = "publish" /\ job'[w] = [job[w] EXCEPT !.issue = nextIssue]
          /\ OthersKept(w) /\ (w \in holders' <=> w \in holders)
      BY <2>2, Setting
    <3>3. Kept(w)
      BY <3>1, <3>2 DEF Kept, LocalsType
    <3> QED
      BY <1>2, <3>2, <3>3 DEF ReserveSummaryIssueNumber
  <2> QED
    BY <1>2, <2>1, <2>2 DEF ReserveSummaryIssueNumber, Answer
<1>3. CASE \/ Begin(w) \/ IsBatchProcessed(w) \/ GenerateSummary(w) \/ Publish(w)
           \/ MarkBatchPublished(w) \/ ResetSummaryChatState(w)
           \/ PublishRateLimitNotice(w) \/ AdvanceSummaryChatRateLimit(w)
           \/ Fail(w) \/ RecordAutoSummaryFailure(w)
  <2>1. \/ Return(w) \/ Throw(w)
        \/ \E label \in Labels : <<pc[w], label>> \in Arrows /\ Goto(w, label)
    BY <1>3
    DEF Begin, IsBatchProcessed, GenerateSummary, Publish, MarkBatchPublished,
        FinalizeWith, ResetSummaryChatState, PublishRateLimitNotice,
        AdvanceSummaryChatRateLimit, Fail, RecordAutoSummaryFailure, Answer, Labels
  <2> QED
    BY <2>1, Leaving, Going
<1> QED
  BY <1>1, <1>2, <1>3 DEF Step, Call

-----------------------------------------------------------------------------
(* The pause after a rate limit.                                           *)

LEMMA ThresholdStep ==
  ASSUME TypeOK, [Next]_vars, chat'.next < chat.next
  PROVE  \E w \in Workers : pc[w] = "reset" /\ pc'[w] # "reset"
<1>1. chat.next \in Nat
  BY DEF TypeOK, TablesOK
<1>2. PICK w \in Workers : \/ ResetSummaryChatState(w)
                          \/ AdvanceSummaryChatRateLimit(w)
                          \/ RecordAutoSummaryFailure(w)
  <2>1. chat' # chat
    BY <1>1
  <2> QED
    BY <2>1
    DEF Next, Step, Call, SaveMessage, Begin, LoadState, LastProcessedMessageID,
        CollectCandidate, AcquireBatchLock, IsBatchProcessed, GenerateSummary,
        ReserveSummaryIssueNumber, Publish, MarkBatchPublished, FinalizeWith,
        PublishRateLimitNotice, Fail, PruneExpiredData, LoseLock, Shutdown, Restart,
        vars, tables
<1>3. CASE ResetSummaryChatState(w)
  <2>1. pc[w] = "reset" /\ (Return(w) \/ Throw(w))
    BY <1>3 DEF ResetSummaryChatState, Answer
  <2> QED
    BY <2>1, Leaving DEF Left
<1>4. CASE AdvanceSummaryChatRateLimit(w)
  <2>1. MeaningfulCount(job[w].ids) + BatchSize \in Nat
    BY CountIsNat, BatchAssumption DEF TypeOK, JobsOK, LocalsType
  <2> QED
    BY <1>1, <1>4, <2>1 DEF AdvanceSummaryChatRateLimit
<1>5. CASE RecordAutoSummaryFailure(w)
  <2>1. chat'.next = chat.next
    BY <1>5 DEF RecordAutoSummaryFailure, TypeOK, TablesOK
  <2> QED
    BY <1>1, <2>1
<1> QED
  BY <1>2, <1>3, <1>4, <1>5

\* Only the reset after a recorded digest lowers the threshold, whatever jobs that
\* read it earlier write: a pause is not cut short.
THEOREM PausesAreKept == Spec => PauseKept
<1>1. TypeOK /\ [Next]_vars =>
        [chat'.next < chat.next =>
           \E w \in Workers : pc[w] = "reset" /\ pc'[w] # "reset"]_vars
  BY ThresholdStep
<1> QED
  BY <1>1, TypeCorrect, PTL DEF Spec, PauseKept

-----------------------------------------------------------------------------
(* What the batch lock protects.                                           *)

\* The job has found its range open and has not recorded it.
OpenLabels ==
  {"generate", "reserve", "publish", "finalize", "notice", "advance"}

SameCandidate(v, w) ==
  job[v].first = job[w].first /\ job[v].cursor = job[w].cursor

\* No lock is lost, so jobs in the section have theirs, and at most one has
\* that of a range.
LockInv ==
  /\ \A w \in Workers : pc[w] \in LockedLabels => w \in holders
  /\ \A v, w \in holders : SameCandidate(v, w) => v = w
  /\ \A w \in holders : pc[w] \in OpenLabels => ~ Recorded(w)

LEMMA LockKeptByMove ==
  ASSUME TypeOK, LockInv, NEW w \in Workers, OthersKept(w), batches' \subseteq batches,
         holders' \subseteq Workers,
         \/ w \notin holders' /\ pc'[w] \notin LockedLabels
         \/ /\ Kept(w) /\ w \in holders
            /\ pc'[w] \in OpenLabels => pc[w] \in OpenLabels \/ ~ Recorded(w)
  PROVE  LockInv'
<1>1. \A v \in Workers : pc'[v] \in LockedLabels => v \in holders'
  BY DEF LockInv, OthersKept, Kept
<1>2. \A v \in holders' : v \in holders /\ job'[v].first = job[v].first
                                        /\ job'[v].cursor = job[v].cursor
  BY DEF OthersKept, Kept
<1>3. ASSUME NEW v \in holders', pc'[v] \in OpenLabels
      PROVE  ~ Recorded(v)'
  <2>1. ~ Recorded(v)
    BY <1>2, <1>3 DEF LockInv, OthersKept
  <2> QED
    BY <1>2, <2>1 DEF Recorded
<1> QED
  BY <1>1, <1>2, <1>3 DEF LockInv, SameCandidate

LEMMA LockKeptByStep ==
  ASSUME TypeOK, LockInv, NEW w \in Workers, Begin(w) \/ Step(w)
  PROVE  LockInv'
<1>1. holders \subseteq Workers /\ \A v \in holders : pc[v] \in LockedLabels
  BY DEF TypeOK, JobsOK
<1>2. CASE LastProcessedMessageID(w)
  <2>1. /\ OthersKept(w) /\ pc[w] = "after" /\ pc'[w] = "collect"
        /\ w \in holders' <=> w \in holders
        /\ holders' = holders /\ batches' = batches
    BY <1>2, Setting DEF LastProcessedMessageID, Set, tables
  <2> QED
    BY <1>1, <2>1, LockKeptByMove DEF LockedLabels
<1>3. CASE CollectCandidate(w)
  <2>1. batches' = batches /\ pc[w] = "collect"
    BY <1>3 DEF CollectCandidate, tables
  <2>2. /\ OthersKept(w) /\ pc'[w] \in {"idle", "failed", "collect", "lock"}
        /\ holders' \subseteq holders
    <3>1. CASE Return(w)
      BY <3>1, Leaving DEF Left, Return, Leave
    <3>2. CASE ~ Return(w)
      <4>1. PICK label \in {"collect", "lock"} :
              Goto(w, label) \/ \E locals : Set(w, label, locals)
        <5>1. PICK label \in {"collect", "lock"}, page \in {Page(job[w].cursor)} :
                TakePage(w, page, label)
          BY <1>3, <3>2, Zenon DEF CollectCandidate
        <5> QED
          BY <5>1, Zenon DEF TakePage
      <4> QED
        BY <4>1, Going, Setting DEF Goto, Set
    <3> QED
      BY <3>1, <3>2
  <2> QED
    BY <1>1, <2>1, <2>2, LockKeptByMove DEF LockedLabels
<1>4. CASE AcquireBatchLock(w)
  <2>1. batches' = batches /\ pc[w] = "lock"
    BY <1>4 DEF AcquireBatchLock, tables
  <2>2. CASE Return(w)
    BY <1>1, <2>1, <2>2, Leaving, LockKeptByMove DEF Left, Return, Leave, LockedLabels
  <2>3. CASE /\ ~Locked(w) /\ holders' = holders \cup {w}
             /\ pc' = [pc EXCEPT ![w] = "check"] /\ UNCHANGED job
    <3>1. \A v \in Workers : pc'[v] \in LockedLabels => v \in holders'
      BY <2>3 DEF LockInv, TypeOK, JobsOK
    <3>2. \A u, v \in holders' : SameCandidate(u, v)' => u = v
      BY <2>3 DEF LockInv, Locked, SameCandidate
    <3>3. \A v \in holders' : pc'[v] \in OpenLabels => v \in holders /\ pc[v] = pc'[v]
      BY <1>1, <2>1, <2>3 DEF OpenLabels, TypeOK, JobsOK
    <3>4. \A v \in holders' : pc'[v] \in OpenLabels => ~ Recorded(v)'
      BY <2>1, <2>3, <3>3 DEF LockInv, Recorded
    <3> QED
      BY <3>1, <3>2, <3>4 DEF LockInv
  <2> QED
    BY <1>4, <2>2, <2>3 DEF AcquireBatchLock
<1>5. CASE MarkBatchPublished(w)
  <2>1. /\ pc[w] = "finalize" /\ w \in holders
        /\ batches' \subseteq batches \cup {Batch(w)}
    BY <1>5 DEF MarkBatchPublished, FinalizeWith, LockInv, LockedLabels
  <2>2. OthersKept(w) /\ (Left(w) \/ (Kept(w) /\ pc'[w] = "reset"))
    <3>1. Throw(w) \/ Goto(w, "reset")
      BY <1>5 DEF MarkBatchPublished, FinalizeWith, Answer
    <3> QED
      BY <3>1, Leaving, Going
  <2>3. holders' \subseteq holders
    BY <1>5 DEF MarkBatchPublished, FinalizeWith, Answer, Goto, Throw, Leave
  <2>4. \A v \in Workers : pc'[v] \in LockedLabels => v \in holders'
    BY <2>1, <2>2 DEF LockInv, OthersKept, Kept, Left, LockedLabels
  <2>5. \A v \in holders' : job'[v].first = job[v].first
                            /\ job'[v].cursor = job[v].cursor
    BY <1>1, <2>2, <2>3 DEF OthersKept, Kept, Left
  <2>6. ASSUME NEW v \in holders', pc'[v] \in OpenLabels
        PROVE  ~ Recorded(v)'
    <3>1. v # w /\ pc[v] = pc'[v] /\ v \in holders
      BY <1>1, <2>2, <2>3, <2>6 DEF OthersKept, Left, OpenLabels
    <3>2. ~ Recorded(v) /\ ~ SameCandidate(v, w)
      BY <2>1, <2>6, <3>1 DEF LockInv
    <3> QED
      BY <2>1, <2>5, <3>2 DEF Recorded, SameCandidate, Batch
  <2> QED
    BY <2>3, <2>4, <2>5, <2>6 DEF LockInv, SameCandidate
<1>6. CASE ~ LastProcessedMessageID(w) /\ ~ CollectCandidate(w)
             /\ ~ AcquireBatchLock(w) /\ ~ MarkBatchPublished(w)
  <2>1. /\ OthersKept(w)
        /\ Left(w) \/ (Kept(w) /\ <<pc[w], pc'[w]>> \in Arrows)
    BY <1>6, KeepingMoves
  <2>2. batches' = batches /\ holders' \subseteq holders
    BY <1>6
    DEF Step, Call, Begin, LoadState, IsBatchProcessed, GenerateSummary,
        ReserveSummaryIssueNumber, Publish, ResetSummaryChatState,
        PublishRateLimitNotice, AdvanceSummaryChatRateLimit, Fail,
        RecordAutoSummaryFailure, tables, Answer, Goto, Set, Return, Throw, Leave
  <2>3. pc[w] = "check" /\ pc'[w] = "generate" => ~ Recorded(w)
    <3>1. pc[w] = "check" => IsBatchProcessed(w) \/ Fail(w)
      BY <1>6
      DEF Step, Call, Begin, LoadState, GenerateSummary, ReserveSummaryIssueNumber,
          Publish, ResetSummaryChatState, PublishRateLimitNotice,
          AdvanceSummaryChatRateLimit, RecordAutoSummaryFailure
    <3>2. Fail(w) => pc'[w] # "generate"
      BY Leaving DEF Fail, Left
    <3>3. IsBatchProcessed(w) /\ Return(w) => pc'[w] # "generate"
      BY Leaving DEF Left
    <3> QED
      BY <3>1, <3>2, <3>3 DEF IsBatchProcessed
  <2>4. CASE Left(w)
    BY <1>1, <2>1, <2>2, <2>4, LockKeptByMove DEF Left, LockedLabels
  <2>5. CASE Kept(w) /\ w \in holders /\ <<pc[w], pc'[w]>> \in Arrows
    <3>1. pc'[w] \in OpenLabels => pc[w] \in OpenLabels \/ pc[w] = "check"
      BY <1>1, <2>5 DEF Arrows, OpenLabels, LockedLabels
    <3>2. pc[w] = "check" => pc'[w] = "generate"
      BY <2>5 DEF Arrows
    <3> QED
      BY <1>1, <2>1, <2>2, <2>3, <2>5, <3>1, <3>2, LockKeptByMove
  <2>6. CASE Kept(w) /\ w \notin holders /\ <<pc[w], pc'[w]>> \in Arrows
    <3>1. pc[w] \notin LockedLabels
      BY <2>6 DEF LockInv
    <3>2. pc'[w] \notin LockedLabels
      BY <2>6, <3>1 DEF Arrows, LockedLabels
    <3> QED
      BY <1>1, <2>1, <2>2, <2>6, <3>2, LockKeptByMove DEF Kept
  <2> QED
    BY <2>1, <2>4, <2>5, <2>6
<1> QED
  BY <1>2, <1>3, <1>4, <1>5, <1>6

LEMMA LockInductive ==
  ASSUME TypeOK, LockInv, [Next]_vars, "unlock" \notin Events
  PROVE  LockInv'
<1>1. CASE \E w \in Workers : Begin(w) \/ Step(w)
  BY <1>1, LockKeptByStep
<1>2. CASE \/ \E src \in 1 .. MaxId : SaveMessage(src)
           \/ PruneExpiredData \/ Shutdown \/ UNCHANGED vars
  <2>1. batches' \subseteq batches /\ UNCHANGED <<pc, job, holders>>
    BY <1>2 DEF SaveMessage, PruneExpiredData, Shutdown, vars, tables, world
  <2> QED
    BY <2>1 DEF LockInv, Recorded, SameCandidate
<1>3. CASE Restart
  BY <1>3 DEF Restart, LockInv, LockedLabels
<1>4. \A w \in Workers : ~ LoseLock(w)
  BY DEF LoseLock
<1> QED
  BY <1>1, <1>2, <1>3, <1>4 DEF Next

\* As long as no connection is lost, what IsBatchProcessed found stays true until
\* the job records its batch, for any number of jobs.
THEOREM CheckedRangesStayOpen ==
  ASSUME "unlock" \notin Events
  PROVE  Spec => []CheckedRangeStaysOpen
<1>1. Init => LockInv
  BY DEF Init, LockInv, LockedLabels
<1>2. TypeOK /\ LockInv /\ [Next]_vars => LockInv'
  BY LockInductive
<1>3. LockInv => CheckedRangeStaysOpen
  BY DEF LockInv, SameCandidate, OpenLabels, CheckedRangeStaysOpen
<1> QED
  BY <1>1, <1>2, <1>3, TypeCorrect, PTL DEF Spec

-----------------------------------------------------------------------------
(* Usage counts a range once.                                              *)

\* Before its first page a job has no candidate, with its lock it has one.
CandidateShape ==
  /\ \A w \in Workers :
       /\ job[w].first # 0 => job[w].first <= job[w].cursor
       /\ job[w].ids # {} => job[w].first # 0
       /\ pc[w] \in {"idle", "state", "after", "failed"} => job[w].first = 0
       /\ pc[w] \in LockedLabels \cup {"lock"} => job[w].first # 0

\* What is counted has left no row, and when its batch is gone as well no job has
\* a candidate that starts before its end.
UsageSettled ==
  /\ \A u \in usage : u.last <= Len(sourceOf)
  /\ \A u \in usage, m \in messages : u.last < m
  /\ \A u \in usage \ batches, w \in Workers :
       job[w].first # 0 => u.last < job[w].first

\* The same of every batch a job found when it began, which is why retention
\* may remove those beside it.
StoredBehind ==
  \A w \in Workers : \A b \in job[w].stored :
    /\ b.last <= Len(sourceOf)
    /\ \A m \in messages : b.last < m
    /\ job[w].first # 0 => b.last < job[w].first

UsageInv == CandidateShape /\ UsageSettled /\ StoredBehind /\ CountedOnce

LEMMA UsageKeptByMove ==
  ASSUME TypeOK, UsageInv, NEW w \in Workers, OthersKept(w),
         UNCHANGED <<sourceOf, messages, batches, usage>>,
         Left(w) \/ (Kept(w) /\ <<pc[w], pc'[w]>> \in Arrows)
  PROVE  UsageInv'
<1>1. \A v \in Workers :
        \/ job'[v].first = 0 /\ job'[v].ids = {}
        \/ /\ job'[v].first = job[v].first /\ job'[v].cursor = job[v].cursor
           /\ job'[v].ids = job[v].ids
  BY DEF Left, Kept, OthersKept, NewJob
<1>2. CandidateShape'
  <2>1. ASSUME NEW v \in Workers
        PROVE  /\ pc'[v] \in {"idle", "state", "after", "failed"} => job'[v].first = 0
               /\ pc'[v] \in LockedLabels \cup {"lock"} => job'[v].first # 0
    <3>1. CASE v # w
      BY <3>1 DEF UsageInv, CandidateShape, OthersKept
    <3>2. CASE v = w /\ Left(w)
      BY <3>2 DEF Left, NewJob, LockedLabels
    <3>3. CASE v = w /\ Kept(w) /\ <<pc[w], pc'[w]>> \in Arrows
      BY <3>3 DEF Kept, Arrows, UsageInv, CandidateShape, LockedLabels
    <3> QED
      BY <3>1, <3>2, <3>3
  <2> QED
    BY <1>1, <2>1 DEF UsageInv, CandidateShape
<1>3. UsageSettled'
  BY <1>1 DEF UsageInv, UsageSettled
<1>4. StoredBehind'
  <2> SUFFICES ASSUME NEW v \in Workers, NEW b \in job'[v].stored
               PROVE  /\ b.last <= Len(sourceOf)
                      /\ \A m \in messages : b.last < m
                      /\ job'[v].first # 0 => b.last < job'[v].first
    BY DEF StoredBehind
  <2>1. CASE b \in job[v].stored
    BY <1>1, <2>1 DEF UsageInv, StoredBehind
  <2>2. CASE b \notin job[v].stored
    <3>1. v = w /\ Kept(w) /\ pc[w] = "state" /\ b \in batches
      BY <2>2 DEF Left, Kept, OthersKept, NewJob
    <3>2. b \in usage /\ job'[v].first = 0
      BY <3>1 DEF UsageInv, CountedOnce, CandidateShape, Kept
    <3> QED
      BY <3>2 DEF UsageInv, UsageSettled
  <2> QED
    BY <2>1, <2>2
<1> QED
  BY <1>2, <1>3, <1>4 DEF UsageInv, CountedOnce

LEMMA UsageKeptByCursor ==
  ASSUME TypeOK, UsageInv, NEW w \in Workers, LastProcessedMessageID(w)
  PROVE  UsageInv'
<1>1. PICK id \in 0 .. Len(sourceOf) :
        Set(w, "collect", [job[w] EXCEPT !.cursor = id])
  BY DEF LastProcessedMessageID
<1>2. UNCHANGED <<sourceOf, messages, batches, usage>> /\ pc[w] = "after"
  BY DEF LastProcessedMessageID, tables
<1>3. job[w] \in LocalsType
  BY DEF TypeOK, JobsOK
<1>4. /\ pc'[w] = "collect" /\ OthersKept(w)
      /\ job'[w] = [job[w] EXCEPT !.cursor = id]
  BY <1>1, Setting
<1>5. /\ job'[w].first = job[w].first /\ job'[w].ids = job[w].ids
      /\ job'[w].stored = job[w].stored
  BY <1>3, <1>4 DEF LocalsType
<1>6. job[w].first = 0
  BY <1>2 DEF UsageInv, CandidateShape
<1>7. CandidateShape'
  BY <1>4, <1>5, <1>6 DEF UsageInv, CandidateShape, OthersKept, LockedLabels
<1>8. UsageSettled'
  BY <1>2, <1>4, <1>5 DEF UsageInv, UsageSettled, OthersKept
<1>9. StoredBehind'
  BY <1>2, <1>4, <1>5 DEF UsageInv, StoredBehind, OthersKept
<1> QED
  BY <1>2, <1>7, <1>8, <1>9 DEF UsageInv, CountedOnce

LEMMA UsageKeptByPage ==
  ASSUME TypeOK, UsageInv, NEW w \in Workers, CollectCandidate(w)
  PROVE  UsageInv'
<1> DEFINE page == Page(job[w].cursor)
<1>1. UNCHANGED <<sourceOf, messages, batches, usage>> /\ pc[w] = "collect"
  BY DEF CollectCandidate, tables
<1>2. job[w] \in LocalsType
  BY DEF TypeOK, JobsOK
<1>3. \A m \in page : m \in messages /\ m \in Nat /\ m >= 1 /\ job[w].cursor < m
  BY DEF Page, TypeOK, TablesOK, Ids
<1>4. CASE Return(w)
  BY <1>1, <1>4, Leaving, UsageKeptByMove
<1>5. ASSUME NEW label \in {"collect", "lock"}, TakePage(w, page, label),
             page = {}, label = "lock" => job[w].ids # {}
      PROVE  UsageInv'
  <2>1. Goto(w, label)
    BY <1>5 DEF TakePage
  <2>2. Kept(w) /\ OthersKept(w) /\ pc'[w] = label
    BY <2>1, Going
  <2>3. CandidateShape'
    BY <1>5, <2>2 DEF UsageInv, CandidateShape, OthersKept, Kept, LockedLabels
  <2>4. UsageSettled' /\ StoredBehind'
    BY <1>1, <2>2 DEF UsageInv, UsageSettled, StoredBehind, OthersKept, Kept
  <2> QED
    BY <1>1, <2>3, <2>4 DEF UsageInv, CountedOnce
<1>6. ASSUME NEW label \in {"collect", "lock"}, TakePage(w, page, label),
             page # {}
      PROVE  UsageInv'
  <2>1. PICK low \in page, high \in page :
          /\ IsBottom(low, page)
          /\ Set(w, label, [job[w] EXCEPT !.cursor = high,
                                          !.first = IF @ = 0 THEN low ELSE @,
                                          !.ids = @ \cup page])
    BY <1>6, Zenon DEF TakePage
  <2>2. /\ pc'[w] = label /\ OthersKept(w)
        /\ job'[w] = [job[w] EXCEPT !.cursor = high,
                                    !.first = IF @ = 0 THEN low ELSE @,
                                    !.ids = @ \cup page]
    BY <2>1, SMTT(20) DEF Set, OthersKept, TypeOK, JobsOK
  <2>3. /\ job'[w].cursor = high
        /\ job'[w].first = IF job[w].first = 0 THEN low ELSE job[w].first
        /\ job'[w].stored = job[w].stored
    BY <1>2, <2>2 DEF LocalsType
  <2>4. /\ low \in messages /\ low \in Nat /\ high \in Nat /\ low >= 1
        /\ low <= high /\ job[w].cursor < high
        /\ job[w].first \in Nat /\ job[w].cursor \in Nat
    BY <1>2, <1>3, <2>1 DEF IsBottom, LocalsType
  <2>5. job'[w].first # 0 /\ job'[w].first <= job'[w].cursor
    BY <2>3, <2>4 DEF UsageInv, CandidateShape
  <2>6. CandidateShape'
    BY <2>2, <2>5 DEF UsageInv, CandidateShape, OthersKept
  <2>7. \A u \in usage \ batches : u.last < job'[w].first
    BY <2>3, <2>4 DEF UsageInv, UsageSettled
  <2>8. UsageSettled'
    BY <1>1, <2>2, <2>7 DEF UsageInv, UsageSettled, OthersKept
  <2>9. StoredBehind'
    BY <1>1, <2>2, <2>3, <2>4 DEF UsageInv, StoredBehind, OthersKept
  <2> QED
    BY <1>1, <2>6, <2>8, <2>9 DEF UsageInv, CountedOnce
<1>7. \/ Return(w)
      \/ \E label \in {"collect", "lock"} :
           /\ TakePage(w, page, label)
           /\ label = "lock" /\ page = {} => job[w].ids # {}
  <2>1. CASE Cardinality(page) = FetchLimit /\ TakePage(w, page, "collect")
    BY <2>1
  <2>2. CASE /\ job[w].ids \cup page # {}
             /\ TakePage(w, page, "lock")
    BY <2>2
  <2> QED
    BY <2>1, <2>2, Zenon DEF CollectCandidate
<1> HIDE DEF page
<1> QED
  BY <1>4, <1>5, <1>6, <1>7

LEMMA UsageKeptByFinalize ==
  ASSUME TypeOK, CoverInv, UsageInv, NEW w \in Workers, MarkBatchPublished(w)
  PROVE  UsageInv'
<1>1. /\ pc[w] = "finalize" /\ UNCHANGED sourceOf
      /\ messages' = {m \in messages : m > job[w].cursor}
      /\ batches' = IF Recorded(w) THEN batches ELSE batches \cup {Batch(w)}
      /\ usage' = IF ~ Recorded(w) THEN usage \cup {Batch(w)} ELSE usage
  BY DEF MarkBatchPublished, FinalizeWith
<1>2. job[w].first \in Nat /\ job[w].cursor \in Nat /\ Len(sourceOf) \in Nat
  BY DEF TypeOK, JobsOK, LocalsType, TablesOK
<1>3. /\ job[w].first # 0 /\ job[w].first <= job[w].cursor
      /\ job[w].cursor <= Len(sourceOf)
  BY <1>1 DEF UsageInv, CandidateShape, LockedLabels, CoverInv, EndsBounded
<1>4. Batch(w).first = job[w].first /\ Batch(w).last = job[w].cursor
  BY DEF Batch
<1>5. OthersKept(w) /\ (Left(w) \/ (Kept(w) /\ pc'[w] = "reset"))
  <2>1. Throw(w) \/ Goto(w, "reset")
    BY DEF MarkBatchPublished, FinalizeWith, Answer
  <2> QED
    BY <2>1, Leaving, Going
<1>6. CandidateShape'
  BY <1>1, <1>3, <1>5
  DEF UsageInv, CandidateShape, OthersKept, Left, Kept, NewJob, LockedLabels
<1>7. ~ Recorded(w) => \A u \in usage : ~ SameRange(u, Batch(w))
  <2> SUFFICES ASSUME ~ Recorded(w), NEW u \in usage, SameRange(u, Batch(w))
               PROVE  FALSE
    OBVIOUS
  <2>1. u.last = job[w].cursor /\ u \notin batches
    BY <1>4 DEF SameRange, Recorded
  <2>2. u.last < job[w].first
    BY <1>3, <2>1 DEF UsageInv, UsageSettled
  <2> QED
    BY <1>2, <1>3, <2>1, <2>2
<1>8. CountedOnce'
  BY <1>1, <1>7 DEF UsageInv, CountedOnce, SameRange
<1>9. UsageSettled'
  <2>1. \A m \in messages : m \in Nat
    BY DEF TypeOK, TablesOK, Ids
  <2>2. \A u \in usage' : u.last <= Len(sourceOf')
    BY <1>1, <1>3, <1>4 DEF UsageInv, UsageSettled
  <2>3. \A u \in usage', m \in messages' : u.last < m
    BY <1>1, <1>2, <1>4, <2>1 DEF UsageInv, UsageSettled
  <2>4. usage' \ batches' \subseteq usage \ batches
    BY <1>1
  <2>5. \A u \in usage' \ batches', v \in Workers :
          job'[v].first # 0 => u.last < job'[v].first
    BY <1>5, <2>4 DEF UsageInv, UsageSettled, OthersKept, Left, Kept, NewJob
  <2> QED
    BY <2>2, <2>3, <2>5 DEF UsageSettled
<1>10. StoredBehind'
  <2>1. messages' \subseteq messages /\ sourceOf' = sourceOf
    BY <1>1
  <2>2. \A v \in Workers :
          /\ job'[v].stored \subseteq job[v].stored
          /\ job'[v].first # 0 => job'[v].first = job[v].first
    BY <1>1, <1>5 DEF OthersKept, Left, Kept, NewJob
  <2> QED
    BY <2>1, <2>2 DEF UsageInv, StoredBehind
<1> QED
  BY <1>6, <1>8, <1>9, <1>10 DEF UsageInv

LEMMA UsageKeptElsewhere ==
  ASSUME TypeOK, UsageInv,
         \/ \E src \in 1 .. MaxId : SaveMessage(src)
         \/ PruneExpiredData \/ Shutdown \/ Restart \/ UNCHANGED vars
         \/ \E w \in Workers : LoseLock(w)
  PROVE  UsageInv'
<1>1. CASE \E src \in 1 .. MaxId : SaveMessage(src)
  <2>1. /\ Len(sourceOf') = Len(sourceOf) + 1 /\ Len(sourceOf) \in Nat
        /\ messages' = messages \cup {Len(sourceOf) + 1}
        /\ UNCHANGED <<batches, usage, pc, job>>
    BY <1>1 DEF SaveMessage, TypeOK, TablesOK
  <2>2. \A u \in usage : u.last \in Nat
    BY DEF TypeOK, TablesOK, BatchType
  <2>3. UsageSettled'
    BY <2>1, <2>2 DEF UsageInv, UsageSettled
  <2>4. \A w \in Workers : \A b \in job[w].stored : b.last \in Nat
    BY DEF TypeOK, JobsOK, LocalsType, BatchType
  <2>5. StoredBehind'
    BY <2>1, <2>4 DEF UsageInv, StoredBehind
  <2> QED
    BY <2>1, <2>3, <2>5 DEF UsageInv, CandidateShape, CountedOnce
<1>2. CASE PruneExpiredData
  <2>1. PICK old \in SUBSET Prunable :
          /\ batches' = batches \ old
          /\ \E days \in SUBSET (usage \ batches') : usage' = usage \ days
    BY <1>2 DEF PruneExpiredData
  <2>2. messages' \subseteq messages /\ UNCHANGED <<sourceOf, pc, job>>
    BY <1>2 DEF PruneExpiredData
  <2>3. usage' \subseteq usage
    BY <2>1
  <2>4. batches' \subseteq usage'
    BY <2>1 DEF UsageInv, CountedOnce
  <2>5. \A u \in usage' \ batches', w \in Workers :
          job[w].first # 0 => u.last < job[w].first
    <3> SUFFICES ASSUME NEW u \in usage' \ batches', NEW w \in Workers,
                        job[w].first # 0
                 PROVE  u.last < job[w].first
      OBVIOUS
    <3>1. CASE u \in old
      <4>1. pc[w] \notin {"idle", "state", "failed"}
        BY DEF UsageInv, CandidateShape
      <4> QED
        BY <3>1, <4>1 DEF Prunable, UsageInv, StoredBehind
    <3>2. CASE u \notin old
      BY <2>1, <2>3, <3>2 DEF UsageInv, UsageSettled
    <3> QED
      BY <3>1, <3>2
  <2>6. UsageSettled'
    BY <2>2, <2>3, <2>5 DEF UsageInv, UsageSettled
  <2>7. StoredBehind'
    BY <2>2 DEF UsageInv, StoredBehind
  <2> QED
    BY <2>2, <2>3, <2>4, <2>6, <2>7 DEF UsageInv, CandidateShape, CountedOnce
<1>3. CASE Shutdown \/ UNCHANGED vars \/ \E w \in Workers : LoseLock(w)
  <2>1. UNCHANGED <<sourceOf, messages, batches, usage, pc, job>>
    BY <1>3 DEF Shutdown, LoseLock, vars, tables
  <2> QED
    BY <2>1 DEF UsageInv, CandidateShape, UsageSettled, StoredBehind, CountedOnce
<1>4. CASE Restart
  <2>1. /\ UNCHANGED <<sourceOf, messages, batches, usage>>
        /\ \A w \in Workers : pc'[w] = "idle" /\ job'[w] = NewJob
    BY <1>4 DEF Restart, tables
  <2>2. CandidateShape'
    BY <2>1 DEF CandidateShape, NewJob, LockedLabels
  <2>3. UsageSettled' /\ StoredBehind'
    BY <2>1 DEF UsageInv, UsageSettled, StoredBehind, NewJob
  <2> QED
    BY <2>1, <2>2, <2>3 DEF UsageInv, CountedOnce
<1> QED
  BY <1>1, <1>2, <1>3, <1>4

LEMMA UsageInductive ==
  ASSUME TypeOK, CoverInv, UsageInv, [Next]_vars
  PROVE  UsageInv'
<1>1. ASSUME NEW w \in Workers, Begin(w) \/ Step(w)
      PROVE  UsageInv'
  <2>1. CASE AcquireBatchLock(w)
    <3>1. UNCHANGED <<sourceOf, messages, batches, usage>> /\ pc[w] = "lock"
      BY <2>1 DEF AcquireBatchLock, tables
    <3>2. CASE Return(w)
      BY <3>1, <3>2, Leaving, UsageKeptByMove
    <3>3. CASE pc' = [pc EXCEPT ![w] = "check"] /\ job' = job
      <4>1. CandidateShape'
        BY <3>1, <3>3
        DEF UsageInv, CandidateShape, TypeOK, JobsOK, LockedLabels
      <4>2. UsageSettled' /\ StoredBehind'
        BY <3>1, <3>3 DEF UsageInv, UsageSettled, StoredBehind
      <4> QED
        BY <3>1, <4>1, <4>2 DEF UsageInv, CountedOnce
    <3> QED
      BY <2>1, <3>2, <3>3 DEF AcquireBatchLock
  <2>2. CASE ~ LastProcessedMessageID(w) /\ ~ CollectCandidate(w)
               /\ ~ AcquireBatchLock(w) /\ ~ MarkBatchPublished(w)
    <3>1. UNCHANGED <<sourceOf, messages, batches, usage>>
      BY <1>1, <2>2
      DEF Step, Call, Begin, LoadState, IsBatchProcessed, GenerateSummary,
          ReserveSummaryIssueNumber, Publish, ResetSummaryChatState,
          PublishRateLimitNotice, AdvanceSummaryChatRateLimit, Fail,
          RecordAutoSummaryFailure, tables
    <3> QED
      BY <1>1, <2>2, <3>1, KeepingMoves, UsageKeptByMove
  <2> QED
    BY <2>1, <2>2, UsageKeptByCursor, UsageKeptByPage, UsageKeptByFinalize
<1> QED
  BY <1>1, UsageKeptElsewhere DEF Next

LEMMA UsageHolds == Spec => []UsageInv
<1>1. Init => UsageInv
  BY DEF Init, UsageInv, CandidateShape, UsageSettled, StoredBehind, CountedOnce,
         NewJob, LockedLabels
<1>2. TypeOK /\ CoverInv /\ UsageInv /\ [Next]_vars => UsageInv'
  BY UsageInductive
<1> QED
  BY <1>1, <1>2, Covered, PTL DEF Spec

\* Each recorded range is in the daily usage once, whatever is retried, lost or
\* pruned: a batch that retention removed is not counted again.
THEOREM RangesCountedOnce == Spec => []CountedOnce
BY UsageHolds, PTL DEF UsageInv

-----------------------------------------------------------------------------
(* Jobs that do not overlap.                                               *)

\* Until it records its own batch, a job has no row of a recorded one.
CandidatesFresh ==
  \A w \in Workers : pc[w] # "reset" =>
    \A m \in job[w].ids, b \in batches : b.last < m

LEMMA FreshStep ==
  ASSUME TypeOK, CoverInv, CandidatesFresh, NEW w \in Workers, Workers = {w},
         Begin(w) \/ Step(w)
  PROVE  CandidatesFresh'
<1>1. NewJob.ids = {}
  BY DEF NewJob
<1>2. CASE LastProcessedMessageID(w)
  <2>1. PICK id \in 0 .. Len(sourceOf) :
          Set(w, "collect", [job[w] EXCEPT !.cursor = id])
    BY <1>2 DEF LastProcessedMessageID
  <2>2. batches' = batches /\ pc[w] = "after" /\ job[w] \in LocalsType
    BY <1>2 DEF LastProcessedMessageID, tables, TypeOK, JobsOK
  <2>3. job'[w].ids = job[w].ids
    BY <2>1, <2>2, Setting DEF LocalsType
  <2> QED
    BY <2>2, <2>3 DEF CandidatesFresh
<1>3. CASE CollectCandidate(w)
  <2> DEFINE page == Page(job[w].cursor)
  <2>1. batches' = batches /\ pc[w] = "collect" /\ job[w] \in LocalsType
    BY <1>3 DEF CollectCandidate, tables, TypeOK, JobsOK
  <2>2. page \subseteq messages
    BY DEF Page
  <2>3. \/ Return(w)
        \/ \E label \in {"collect", "lock"} : TakePage(w, page, label)
    BY <1>3, Zenon DEF CollectCandidate
  <2> HIDE DEF page
  <2>4. job'[w].ids \subseteq job[w].ids \cup page
    <3>1. CASE Return(w)
      BY <1>1, <3>1, Leaving DEF Left
    <3>2. ASSUME NEW label, TakePage(w, page, label), page = {}
          PROVE  job'[w].ids \subseteq job[w].ids \cup page
      BY <3>2, Going DEF TakePage, Kept
    <3>3. ASSUME NEW label, TakePage(w, page, label), page # {}
          PROVE  job'[w].ids \subseteq job[w].ids \cup page
      <4>1. PICK low \in page, high \in page :
              Set(w, label, [job[w] EXCEPT !.cursor = high,
                                           !.first = IF @ = 0 THEN low ELSE @,
                                           !.ids = @ \cup page])
        BY <3>3, Zenon DEF TakePage
      <4> QED
        BY <2>1, <4>1 DEF Set, TypeOK, JobsOK, LocalsType
    <3> QED
      BY <2>3, <3>1, <3>2, <3>3
  <2>5. \A m \in job'[w].ids, b \in batches : b.last < m
    BY <2>1, <2>2, <2>4 DEF CandidatesFresh, CoverInv, NoSurvivor
  <2> QED
    BY <2>1, <2>5 DEF CandidatesFresh
<1>4. CASE AcquireBatchLock(w)
  <2>1. batches' = batches /\ pc[w] = "lock"
    BY <1>4 DEF AcquireBatchLock, tables
  <2>2. job'[w].ids = job[w].ids \/ job'[w].ids = {}
    BY <1>1, <1>4, Leaving DEF AcquireBatchLock, Left
  <2> QED
    BY <2>1, <2>2 DEF CandidatesFresh
<1>5. CASE MarkBatchPublished(w)
  <2>1. Left(w) \/ pc'[w] = "reset"
    <3>1. Throw(w) \/ Goto(w, "reset")
      BY <1>5 DEF MarkBatchPublished, FinalizeWith, Answer
    <3> QED
      BY <3>1, Leaving, Going
  <2> QED
    BY <1>1, <2>1 DEF CandidatesFresh, Left
<1>6. CASE ~ LastProcessedMessageID(w) /\ ~ CollectCandidate(w)
             /\ ~ AcquireBatchLock(w) /\ ~ MarkBatchPublished(w)
  <2>1. Left(w) \/ (Kept(w) /\ <<pc[w], pc'[w]>> \in Arrows)
    BY <1>6, KeepingMoves
  <2>2. batches' = batches
    BY <1>6
    DEF Step, Call, Begin, LoadState, IsBatchProcessed, GenerateSummary,
        ReserveSummaryIssueNumber, Publish, ResetSummaryChatState,
        PublishRateLimitNotice, AdvanceSummaryChatRateLimit, Fail,
        RecordAutoSummaryFailure, tables
  <2>3. pc[w] = "reset" => job'[w].ids = {} \/ pc'[w] = "reset"
    BY <1>1, <2>1 DEF Left, Arrows
  <2> QED
    BY <1>1, <2>1, <2>2, <2>3 DEF CandidatesFresh, Left, Kept
<1> QED
  BY <1>2, <1>3, <1>4, <1>5, <1>6

LEMMA FreshInductive ==
  ASSUME TypeOK, CoverInv, CandidatesFresh, [Next]_vars, Manual = {}
  PROVE  CandidatesFresh'
<1>1. Workers = {AutoJob}
  BY DEF Workers
<1>2. CASE \E w \in Workers : Begin(w) \/ Step(w)
  BY <1>1, <1>2, FreshStep
<1>3. CASE \/ \E src \in 1 .. MaxId : SaveMessage(src)
           \/ PruneExpiredData \/ Shutdown \/ UNCHANGED vars
           \/ \E w \in Workers : LoseLock(w)
  <2>1. batches' \subseteq batches /\ UNCHANGED <<pc, job>>
    BY <1>3 DEF SaveMessage, PruneExpiredData, Shutdown, LoseLock, vars, tables, world
  <2> QED
    BY <2>1 DEF CandidatesFresh
<1>4. CASE Restart
  <2>1. \A w \in Workers : job'[w].ids = {}
    BY <1>4 DEF Restart, NewJob
  <2> QED
    BY <2>1 DEF CandidatesFresh
<1> QED
  BY <1>2, <1>3, <1>4 DEF Next

LEMMA NewDigestsFresh ==
  ASSUME TypeOK, CandidatesFresh, [Next]_vars,
         NEW p \in posts' \ posts, NEW b \in batches, NEW m \in p.ids
  PROVE  b.last < m
<1>1. PICK w \in Workers : Publish(w)
  <2>1. posts' # posts
    OBVIOUS
  <2> QED
    BY <2>1
    DEF Next, Step, Call, SaveMessage, Begin, LoadState, LastProcessedMessageID,
        CollectCandidate, AcquireBatchLock, IsBatchProcessed, GenerateSummary,
        ReserveSummaryIssueNumber, MarkBatchPublished, FinalizeWith,
        ResetSummaryChatState, AdvanceSummaryChatRateLimit, PublishRateLimitNotice,
        Fail, RecordAutoSummaryFailure, PruneExpiredData, LoseLock, Shutdown, Restart,
        vars, world
<1>2. p = Digest(w) /\ pc[w] = "publish"
  BY <1>1 DEF Publish
<1> QED
  BY <1>2 DEF Digest, CandidatesFresh

\* A digest of jobs that follow each other has no message of a recorded range,
\* whatever fails, crashes or is pruned between and within them.
THEOREM SerialJobsDoNotRepublish ==
  ASSUME Manual = {}
  PROVE  Spec => ProcessedNotRepublished
<1>1. Init => CandidatesFresh
  BY DEF Init, CandidatesFresh
<1>2. TypeOK /\ CoverInv /\ CandidatesFresh /\ [Next]_vars => CandidatesFresh'
  BY FreshInductive
<1>3. TypeOK /\ CandidatesFresh /\ [Next]_vars =>
        [\A p \in posts' \ posts, b \in batches :
           \A m \in p.ids : b.last < m]_vars
  BY NewDigestsFresh
<1> QED
  BY <1>1, <1>2, <1>3, Covered, PTL DEF Spec, ProcessedNotRepublished

-----------------------------------------------------------------------------
(* How long a job is.                                                      *)

\* The calls ahead of a job; while it collects, also the ids it may page over.
CallsAhead ==
  [label \in Labels |->
     CASE label = "idle"     -> 0
       [] label = "failed"   -> 1
       [] label = "reset"    -> 2
       [] label = "finalize" -> 3
       [] label = "publish"  -> 4
       [] label = "advance"  -> 4
       [] label = "reserve"  -> 5
       [] label = "notice"   -> 5
       [] label = "generate" -> 6
       [] label = "check"    -> 7
       [] label = "lock"     -> 8
       [] label = "collect"  -> 9
       [] label = "after"    -> 10
       [] label = "state"    -> 11]

RowsAhead(w) ==
  IF pc[w] \in {"state", "after"} THEN Len(sourceOf)
  ELSE IF pc[w] = "collect" THEN Len(sourceOf) - job[w].cursor
  ELSE 0

StepsLeft(w) == CallsAhead[pc[w]] + RowsAhead(w)

LEMMA CallsAheadValues ==
  /\ CallsAhead["idle"] = 0 /\ CallsAhead["failed"] = 1
  /\ CallsAhead["reset"] = 2 /\ CallsAhead["finalize"] = 3
  /\ CallsAhead["publish"] = 4 /\ CallsAhead["advance"] = 4
  /\ CallsAhead["reserve"] = 5 /\ CallsAhead["notice"] = 5
  /\ CallsAhead["generate"] = 6 /\ CallsAhead["check"] = 7
  /\ CallsAhead["lock"] = 8 /\ CallsAhead["collect"] = 9
  /\ CallsAhead["after"] = 10 /\ CallsAhead["state"] = 11
BY DEF CallsAhead, Labels

LEMMA StepsLeftRange ==
  ASSUME TypeOK, CoverInv, NEW w \in Workers
  PROVE  /\ StepsLeft(w) \in 0 .. 11 + Len(sourceOf)
         /\ StepsLeft(w) = 0 <=> pc[w] = "idle"
         /\ Len(sourceOf) \in Nat
         /\ RowsAhead(w) \in 0 .. Len(sourceOf)
<1>1. /\ pc[w] \in Labels /\ job[w].cursor \in Nat /\ Len(sourceOf) \in Nat
      /\ job[w].cursor <= Len(sourceOf)
  BY DEF TypeOK, JobsOK, TablesOK, LocalsType, CoverInv, EndsBounded
<1>2. RowsAhead(w) \in 0 .. Len(sourceOf)
  BY <1>1 DEF RowsAhead
<1>3. CallsAhead[pc[w]] \in 0 .. 11 /\ (CallsAhead[pc[w]] = 0 <=> pc[w] = "idle")
  BY <1>1, CallsAheadValues DEF Labels
<1>4. pc[w] = "idle" => RowsAhead(w) = 0
  BY DEF RowsAhead
<1>5. PICK calls \in 0 .. 11, rows \in 0 .. Len(sourceOf) :
        calls = CallsAhead[pc[w]] /\ rows = RowsAhead(w)
  BY <1>2, <1>3
<1>6. StepsLeft(w) = calls + rows
  BY <1>5 DEF StepsLeft
<1>7. calls + rows = 0 <=> pc[w] = "idle"
  <2>1. calls + rows = 0 <=> calls = 0 /\ rows = 0
    BY <1>1
  <2> QED
    BY <1>3, <1>4, <1>5, <2>1
<1>8. calls + rows \in 0 .. 11 + Len(sourceOf)
  BY <1>1
<1> QED
  BY <1>1, <1>2, <1>6, <1>7, <1>8

\* A page has a row, so its end lies beyond the cursor.
LEMMA FullPageHasRow ==
  ASSUME NEW cursor, Cardinality(Page(cursor)) = FetchLimit
  PROVE  Page(cursor) # {}
<1>1. FetchLimit # 0
  BY FetchAssumption, BatchAssumption
<1> QED
  BY <1>1, FS_EmptySet

\* No step of a job, whatever it meets, leads back.
LEMMA StepNearer ==
  ASSUME TypeOK, CoverInv, NEW w \in Workers, Step(w)
  PROVE  StepsLeft(w)' < StepsLeft(w) /\ OthersKept(w) /\ sourceOf' = sourceOf
<1>1. /\ pc[w] \in Labels /\ job[w] \in LocalsType /\ job[w].cursor \in Nat
      /\ Len(sourceOf) \in Nat /\ job[w].cursor <= Len(sourceOf)
  BY DEF TypeOK, JobsOK, TablesOK, LocalsType, CoverInv, EndsBounded
<1>2. sourceOf' = sourceOf
  BY DEF Step, Call, LoadState, LastProcessedMessageID, CollectCandidate, AcquireBatchLock,
         IsBatchProcessed, GenerateSummary, ReserveSummaryIssueNumber, Publish,
         MarkBatchPublished, FinalizeWith, ResetSummaryChatState,
         PublishRateLimitNotice, AdvanceSummaryChatRateLimit, Fail,
         RecordAutoSummaryFailure, tables
<1>3. ASSUME Left(w), pc[w] \notin {"idle", "failed"}
      PROVE  StepsLeft(w)' < StepsLeft(w)
  <2>1. PICK after \in 0 .. 1 : StepsLeft(w)' = after
    BY <1>3, CallsAheadValues DEF Left, StepsLeft, RowsAhead
  <2>2. PICK calls \in 2 .. 11 : CallsAhead[pc[w]] = calls
    BY <1>1, <1>3, CallsAheadValues DEF Labels
  <2>3. PICK rows \in 0 .. Len(sourceOf) : RowsAhead(w) = rows
    BY <1>1 DEF RowsAhead
  <2>4. StepsLeft(w) = calls + rows
    BY <2>2, <2>3 DEF StepsLeft
  <2> QED
    BY <1>1, <2>1, <2>4
<1>4. CASE LastProcessedMessageID(w)
  <2>1. PICK id \in 0 .. Len(sourceOf) :
          pc[w] = "after" /\ Set(w, "collect", [job[w] EXCEPT !.cursor = id])
    BY <1>4 DEF LastProcessedMessageID
  <2>2. pc'[w] = "collect" /\ job'[w].cursor = id /\ OthersKept(w)
    BY <1>1, <2>1, Setting DEF LocalsType
  <2>3. StepsLeft(w) = 10 + Len(sourceOf)
    BY <2>1, CallsAheadValues DEF StepsLeft, RowsAhead
  <2>4. StepsLeft(w)' = 9 + (Len(sourceOf) - id)
    BY <1>2, <2>2, CallsAheadValues DEF StepsLeft, RowsAhead
  <2> QED
    BY <1>1, <1>2, <2>2, <2>3, <2>4
<1>5. CASE CollectCandidate(w)
  <2> DEFINE page == Page(job[w].cursor)
  <2>1. pc[w] = "collect"
    BY <1>5 DEF CollectCandidate
  <2>2. CASE Return(w)
    BY <1>2, <1>3, <2>1, <2>2, Leaving
  <2>3. ASSUME NEW label \in {"collect", "lock"}, TakePage(w, page, label), page # {}
        PROVE  StepsLeft(w)' < StepsLeft(w) /\ OthersKept(w)
    <3>1. PICK low \in page, high \in page :
            Set(w, label, [job[w] EXCEPT !.cursor = high,
                                         !.first = IF @ = 0 THEN low ELSE @,
                                         !.ids = @ \cup page])
      BY <2>3, Zenon DEF TakePage
    <3>2. /\ pc'[w] = label /\ OthersKept(w)
          /\ job'[w] = [job[w] EXCEPT !.cursor = high,
                                      !.first = IF @ = 0 THEN low ELSE @,
                                      !.ids = @ \cup page]
      BY <3>1, SMTT(20) DEF Set, OthersKept, TypeOK, JobsOK
    <3>3. job'[w].cursor = high
      BY <1>1, <3>2 DEF LocalsType
    <3>4. high \in Nat /\ job[w].cursor < high /\ high <= Len(sourceOf)
      BY <1>1 DEF Page, TypeOK, TablesOK, Ids
    <3> HIDE DEF page
    <3>5. StepsLeft(w) = 9 + (Len(sourceOf) - job[w].cursor)
      BY <2>1, CallsAheadValues DEF StepsLeft, RowsAhead
    <3>6. \/ StepsLeft(w)' = 9 + (Len(sourceOf) - high)
          \/ StepsLeft(w)' = 8 + 0
      BY <1>2, <2>3, <3>2, <3>3, CallsAheadValues DEF StepsLeft, RowsAhead
    <3> QED
      BY <1>1, <3>2, <3>4, <3>5, <3>6
  <2>4. CASE page = {} /\ TakePage(w, page, "lock")
    <3>1. pc'[w] = "lock" /\ OthersKept(w)
      BY <2>4, Going DEF TakePage
    <3>2. StepsLeft(w) = 9 + (Len(sourceOf) - job[w].cursor)
      BY <2>1, CallsAheadValues DEF StepsLeft, RowsAhead
    <3>3. StepsLeft(w)' = 8
      BY <3>1, CallsAheadValues DEF StepsLeft, RowsAhead
    <3> QED
      BY <1>1, <1>2, <3>1, <3>2, <3>3
  <2>5. page = {} => ~ (Cardinality(page) = FetchLimit)
    BY FullPageHasRow
  <2>6. \/ Return(w)
        \/ Cardinality(page) = FetchLimit /\ TakePage(w, page, "collect")
        \/ TakePage(w, page, "lock")
    BY <1>5, Zenon DEF CollectCandidate
  <2> HIDE DEF page
  <2> QED
    BY <1>2, <2>2, <2>3, <2>4, <2>5, <2>6
<1>6. CASE AcquireBatchLock(w)
  <2>1. CASE Return(w)
    BY <1>2, <1>3, <1>6, <2>1, Leaving DEF AcquireBatchLock
  <2>2. CASE ~ Return(w)
    <3>1. pc[w] = "lock" /\ pc'[w] = "check" /\ OthersKept(w)
      BY <1>6, <2>2 DEF AcquireBatchLock, OthersKept, TypeOK, JobsOK
    <3> QED
      BY <1>2, <3>1, CallsAheadValues DEF StepsLeft, RowsAhead
  <2> QED
    BY <2>1, <2>2
<1>7. CASE ~ LastProcessedMessageID(w) /\ ~ CollectCandidate(w)
             /\ ~ AcquireBatchLock(w)
  <2>1. OthersKept(w) /\ (Left(w) \/ (Kept(w) /\ <<pc[w], pc'[w]>> \in Arrows))
    BY <1>7, KeepingMoves
  <2>2. /\ pc[w] # "idle"
        /\ pc[w] = "failed" => pc'[w] = "idle"
    <3>1. RecordAutoSummaryFailure(w) => pc[w] = "failed" /\ pc'[w] = "idle"
      BY Going DEF RecordAutoSummaryFailure
    <3>2. pc[w] \in {"idle", "failed"} => RecordAutoSummaryFailure(w)
      BY <1>7
      DEF Step, Call, LoadState, IsBatchProcessed, GenerateSummary,
          ReserveSummaryIssueNumber, Publish, MarkBatchPublished, FinalizeWith,
          ResetSummaryChatState, PublishRateLimitNotice,
          AdvanceSummaryChatRateLimit, Fail
    <3> QED
      BY <3>1, <3>2
  <2>3. CASE pc[w] = "failed"
    <3>1. StepsLeft(w) = 1
      BY <2>3, CallsAheadValues DEF StepsLeft, RowsAhead
    <3>2. StepsLeft(w)' = 0
      BY <2>2, <2>3, CallsAheadValues DEF StepsLeft, RowsAhead
    <3> QED
      BY <1>2, <2>1, <3>1, <3>2
  <2>4. CASE Left(w) /\ pc[w] # "failed"
    BY <1>2, <1>3, <2>1, <2>2, <2>4
  <2>5. CASE <<pc[w], pc'[w]>> \in Arrows /\ pc[w] # "failed"
    <3>1. \/ pc[w] = "state" /\ pc'[w] = "after"
          \/ /\ pc[w] \notin {"state", "after", "collect"}
             /\ pc'[w] \notin {"state", "after", "collect"}
      BY <2>2, <2>5 DEF Arrows
    <3>2. PICK rows \in Nat : RowsAhead(w) = rows /\ RowsAhead(w)' = rows
      BY <1>1, <1>2, <3>1 DEF RowsAhead
    <3>3. PICK before \in Nat, after \in Nat :
            /\ CallsAhead[pc[w]] = before /\ CallsAhead[pc'[w]] = after
            /\ after < before
      BY <2>2, <2>5, CallsAheadValues DEF Arrows
    <3>4. StepsLeft(w) = before + rows
      BY <3>2, <3>3 DEF StepsLeft
    <3>5. StepsLeft(w)' = after + rows
      BY <3>2, <3>3 DEF StepsLeft
    <3> QED
      BY <1>2, <2>1, <3>3, <3>4, <3>5
  <2> QED
    BY <1>2, <2>1, <2>3, <2>4, <2>5
<1> QED
  BY <1>2, <1>4, <1>5, <1>6, <1>7

\* A new row lengthens a job by one while it may still page over it.
LEMMA SaveFarther ==
  ASSUME TypeOK, CoverInv, NEW w \in Workers,
         NEW src \in 1 .. MaxId, SaveMessage(src)
  PROVE  StepsLeft(w)' \in {StepsLeft(w), StepsLeft(w) + 1}
<1>1. /\ pc' = pc /\ job' = job /\ sourceOf' = Append(sourceOf, src)
  BY DEF SaveMessage
<1>2. Len(sourceOf') = Len(sourceOf) + 1 /\ Len(sourceOf) \in Nat
  BY <1>1 DEF TypeOK, TablesOK
<1>3. pc[w] \in Labels /\ job[w].cursor \in Nat
  BY DEF TypeOK, JobsOK, LocalsType
<1>4. PICK calls \in Nat : CallsAhead[pc[w]] = calls
  BY <1>3, CallsAheadValues DEF Labels
<1>5. PICK rows \in Int : RowsAhead(w) = rows
  BY <1>2, <1>3 DEF RowsAhead
<1>6. RowsAhead(w)' \in {rows, rows + 1}
  BY <1>1, <1>2, <1>3, <1>5 DEF RowsAhead
<1>7. StepsLeft(w) = calls + rows
  BY <1>4, <1>5 DEF StepsLeft
<1>8. CASE RowsAhead(w)' = rows
  <2>1. StepsLeft(w)' = calls + rows
    BY <1>1, <1>4, <1>8 DEF StepsLeft
  <2> QED
    BY <1>7, <2>1
<1>9. CASE RowsAhead(w)' = rows + 1
  <2>1. StepsLeft(w)' = calls + (rows + 1)
    BY <1>1, <1>4, <1>9 DEF StepsLeft
  <2> QED
    BY <1>7, <2>1
<1> QED
  BY <1>6, <1>8, <1>9

\* The safety part of JobsFinish: a job runs down a finite distance, whatever
\* the calls answer and the other jobs do meanwhile.  Only a new start and,
\* before the job has collected, a message that arrives lengthen it: but for its
\* timeout, a job could go on only while rows come faster than it pages.
JobsRunDown ==
  /\ [] \A w \in Workers : /\ StepsLeft(w) \in 0 .. 11 + Len(sourceOf)
                           /\ StepsLeft(w) = 0 <=> pc[w] = "idle"
  /\ [][\A w \in Workers :
          /\ Step(w) => StepsLeft(w)' < StepsLeft(w)
          /\ StepsLeft(w)' > StepsLeft(w) =>
               \/ Begin(w)
               \/ /\ \E src \in 1 .. MaxId : SaveMessage(src)
                  /\ StepsLeft(w)' = StepsLeft(w) + 1]_vars

\* Every job runs down to its end, one call at a time.
THEOREM JobsAreBounded == Spec => JobsRunDown
<1>1. TypeOK /\ CoverInv =>
        \A w \in Workers : /\ StepsLeft(w) \in 0 .. 11 + Len(sourceOf)
                           /\ StepsLeft(w) = 0 <=> pc[w] = "idle"
  BY StepsLeftRange
<1>2. ASSUME TypeOK, CoverInv, [Next]_vars, NEW w \in Workers,
             StepsLeft(w)' > StepsLeft(w)
      PROVE  \/ Begin(w)
             \/ /\ \E src \in 1 .. MaxId : SaveMessage(src)
                /\ StepsLeft(w)' = StepsLeft(w) + 1
  <2>1. PICK steps \in Nat : StepsLeft(w) = steps
    BY <1>2, StepsLeftRange
  <2>2. ASSUME NEW src \in 1 .. MaxId, SaveMessage(src)
        PROVE  StepsLeft(w)' = StepsLeft(w) + 1
    BY <1>2, <2>1, <2>2, SaveFarther
  <2>3. ASSUME NEW v \in Workers, Begin(v), v # w PROVE FALSE
    <3>1. pc'[w] = pc[w] /\ job'[w] = job[w] /\ sourceOf' = sourceOf
      BY <1>2, <2>3, Going DEF Begin, OthersKept, tables
    <3> QED
      BY <1>2, <2>1, <3>1 DEF StepsLeft, RowsAhead
  <2>4. ASSUME NEW v \in Workers, Step(v) PROVE FALSE
    <3>1. CASE v = w
      <4>1. TypeOK'
        BY <1>2, NextTypes
      <4>2. pc'[w] \in Labels /\ job'[w].cursor \in Nat /\ Len(sourceOf') \in Nat
        BY <4>1 DEF TypeOK, JobsOK, TablesOK, LocalsType
      <4>3. PICK calls \in Nat : CallsAhead[pc'[w]] = calls
        BY <4>2, CallsAheadValues DEF Labels
      <4>4. PICK rows \in Int : RowsAhead(w)' = rows
        BY <4>2 DEF RowsAhead
      <4>5. StepsLeft(w)' = calls + rows
        BY <4>3, <4>4 DEF StepsLeft
      <4>6. StepsLeft(w)' < StepsLeft(w)
        BY <1>2, <2>4, <3>1, StepNearer
      <4> QED
        BY <1>2, <2>1, <4>5, <4>6
    <3>2. CASE v # w
      <4>1. pc'[w] = pc[w] /\ job'[w] = job[w] /\ sourceOf' = sourceOf
        BY <1>2, <2>4, <3>2, StepNearer DEF OthersKept
      <4> QED
        BY <1>2, <2>1, <4>1 DEF StepsLeft, RowsAhead
    <3> QED
      BY <3>1, <3>2
  <2>5. CASE \/ \E v \in Workers : LoseLock(v)
             \/ PruneExpiredData \/ Shutdown \/ UNCHANGED vars
    <3>1. UNCHANGED <<pc, job, sourceOf>>
      BY <2>5 DEF LoseLock, PruneExpiredData, Shutdown, vars, tables
    <3> QED
      BY <1>2, <2>1, <3>1 DEF StepsLeft, RowsAhead
  <2>6. CASE Restart
    <3>1. StepsLeft(w)' = 0
      BY <2>6, CallsAheadValues DEF Restart, StepsLeft, RowsAhead
    <3> QED
      BY <1>2, <2>1, <3>1
  <2> QED
    BY <1>2, <2>2, <2>3, <2>4, <2>5, <2>6 DEF Next
<1>3. TypeOK /\ CoverInv /\ [Next]_vars =>
        [\A w \in Workers :
           /\ Step(w) => StepsLeft(w)' < StepsLeft(w)
           /\ StepsLeft(w)' > StepsLeft(w) =>
                \/ Begin(w)
                \/ /\ \E src \in 1 .. MaxId : SaveMessage(src)
                   /\ StepsLeft(w)' = StepsLeft(w) + 1]_vars
  BY <1>2, StepNearer
<1> QED
  BY <1>1, <1>3, Covered, PTL DEF Spec, JobsRunDown
=============================================================================
