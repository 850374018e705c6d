---------------------------- MODULE DigestProofs ----------------------------
(***************************************************************************)
(* Proofs about Digest: for any batch size, page size, number of jobs and  *)
(* set of environment events, and without its bounds on rows and issues.   *)
(***************************************************************************)
EXTENDS Digest, FiniteSetTheorems, TLAPS

-----------------------------------------------------------------------------
(* Types.                                                                  *)

LEMMA CountIsNat == ASSUME TablesOK, NEW ids \in SUBSET Ids
                    PROVE  MeaningfulCount(ids) \in Nat
<1>1. IsFiniteSet(Ids)
  BY FS_Interval DEF Ids, TablesOK
<1>2. IsFiniteSet({m \in ids : sourceOf[m] \in Meaningful})
  BY <1>1, FS_Subset
<1> QED
  BY <1>2, FS_CardinalityType DEF MeaningfulCount

LEMMA NewJobOK == ASSUME TablesOK PROVE NewJob \in LocalsType
BY DEF NewJob, LocalsType

LEMMA GotoOK ==
  ASSUME TypeOK, NEW w \in Workers, NEW label \in Labels,
         w \in holders => label \in LockedLabels,
         UNCHANGED sourceOf, Goto(w, label)
  PROVE  JobsOK'
BY DEF TypeOK, JobsOK, Goto, LocalsType, Ids

LEMMA SetOK ==
  ASSUME TypeOK, NEW w \in Workers, NEW label \in Labels,
         w \in holders => label \in LockedLabels, NEW locals \in LocalsType,
         UNCHANGED sourceOf, Set(w, label, locals)
  PROVE  JobsOK'
BY DEF TypeOK, JobsOK, Set, LocalsType, Ids

LEMMA LeaveOK ==
  ASSUME TypeOK, NEW w \in Workers, UNCHANGED sourceOf,
         Return(w) \/ Throw(w)
  PROVE  JobsOK'
<1>1. PICK label \in {"idle", "failed"} : Leave(w, label)
  BY DEF Return, Throw
<1> QED
  BY <1>1, NewJobOK DEF TypeOK, JobsOK, Leave, LocalsType, Ids, Labels

\* A call with its answer: the job moves on, returns, or fails.
LEMMA AnswerOK ==
  ASSUME TypeOK, NEW w \in Workers, NEW label \in LockedLabels,
         UNCHANGED sourceOf, Answer(w, Goto(w, label))
  PROVE  JobsOK'
BY GotoOK, LeaveOK DEF Answer, Labels, LockedLabels

LEMMA AnswerReturnOK ==
  ASSUME TypeOK, NEW w \in Workers, UNCHANGED sourceOf, Answer(w, Return(w))
  PROVE  JobsOK'
BY LeaveOK DEF Answer

\* What each step of a job does to the types.
LEMMA StepTypes ==
  ASSUME TypeOK, NEW w \in Workers, Step(w)
  PROVE  TypeOK'
<1> USE DEF TypeOK
<1>1. CASE LoadState(w)
  <2>1. [job[w] EXCEPT !.next = chat.next, !.stored = batches] \in LocalsType
    BY DEF TablesOK, JobsOK, LocalsType
  <2>2. w \notin holders
    BY <1>1 DEF LoadState, JobsOK, LockedLabels
  <2>3. UNCHANGED <<tables, world>>
    BY <1>1 DEF LoadState
  <2>4. JobsOK'
    BY <1>1, <2>1, <2>2, <2>3, SetOK, LeaveOK DEF LoadState, Labels, tables
  <2> QED
    BY <2>3, <2>4 DEF TablesOK, WorldOK, tables, world, Ids, DigestType
<1>2. CASE LastProcessedMessageID(w)
  <2>1. PICK id \in 0 .. Len(sourceOf) :
          Set(w, "collect", [job[w] EXCEPT !.cursor = id])
    BY <1>2 DEF LastProcessedMessageID
  <2>2. [job[w] EXCEPT !.cursor = id] \in LocalsType
    <3>1. job[w] \in LocalsType /\ id \in Nat
      BY DEF JobsOK, TablesOK
    <3> QED
      BY <3>1 DEF LocalsType
  <2>3. w \notin holders
    BY <1>2 DEF LastProcessedMessageID, JobsOK, LockedLabels
  <2>4. UNCHANGED <<tables, world>>
    BY <1>2 DEF LastProcessedMessageID
  <2>5. JobsOK'
    BY <2>1, <2>2, <2>3, <2>4, SetOK DEF Labels, tables
  <2> QED
    BY <2>4, <2>5 DEF TablesOK, WorldOK, tables, world, Ids, DigestType
<1>3. CASE CollectCandidate(w)
  <2> DEFINE page == Page(job[w].cursor)
  <2>1. w \notin holders
    BY <1>3 DEF CollectCandidate, JobsOK, LockedLabels
  <2>2. UNCHANGED <<tables, world>>
    BY <1>3 DEF CollectCandidate
  <2>3. page \subseteq Ids
    BY DEF Page, TablesOK
  <2>4. ASSUME NEW label \in {"collect", "lock"}, TakePage(w, page, label)
        PROVE  JobsOK'
    <3>1. CASE page = {}
      BY <2>1, <2>2, <2>4, <3>1, GotoOK DEF TakePage, Labels, tables
    <3>2. CASE page # {}
      <4>1. PICK low \in page, high \in page :
              Set(w, label, [job[w] EXCEPT !.cursor = high,
                                           !.first = IF @ = 0 THEN low ELSE @,
                                           !.ids = @ \cup page])
        BY <2>4, <3>2 DEF TakePage
      <4>2. low \in Nat /\ high \in Nat
        BY <2>3 DEF Ids, TablesOK
      <4>3. job[w] \in LocalsType
        BY DEF JobsOK
      <4>4. [job[w] EXCEPT !.cursor = high, !.first = IF @ = 0 THEN low ELSE @,
                           !.ids = @ \cup page] \in LocalsType
        BY <2>3, <4>2, <4>3 DEF LocalsType
      <4> QED
        BY <2>1, <2>2, <4>1, <4>4, SetOK DEF Labels, tables
    <3> QED
      BY <3>1, <3>2
  <2>5. JobsOK'
    BY <1>3, <2>2, <2>4, LeaveOK DEF CollectCandidate, tables
  <2> QED
    BY <2>2, <2>5 DEF TablesOK, WorldOK, tables, world, Ids, DigestType
<1>4. CASE AcquireBatchLock(w)
  <2>1. UNCHANGED <<tables, world>>
    BY <1>4 DEF AcquireBatchLock
  <2>2. JobsOK'
    <3>1. CASE Return(w)
      BY <2>1, <3>1, LeaveOK DEF tables
    <3>2. CASE ~ Return(w)
      BY <1>4, <2>1, <3>2
      DEF AcquireBatchLock, JobsOK, tables, LocalsType, Ids, Labels, LockedLabels
    <3> QED
      BY <3>1, <3>2
  <2> QED
    BY <2>1, <2>2 DEF TablesOK, WorldOK, tables, world, Ids, DigestType
<1>5. CASE IsBatchProcessed(w) \/ GenerateSummary(w)
  <2>1. UNCHANGED <<tables, world>>
    BY <1>5 DEF IsBatchProcessed, GenerateSummary
  <2>2. JobsOK'
    BY <1>5, <2>1, GotoOK, LeaveOK
    DEF IsBatchProcessed, GenerateSummary, tables, Labels, LockedLabels
  <2> QED
    BY <2>1, <2>2 DEF TablesOK, WorldOK, tables, world, Ids, DigestType
<1>6. CASE ReserveSummaryIssueNumber(w)
  <2>1. [job[w] EXCEPT !.issue = nextIssue] \in LocalsType
    BY DEF TablesOK, JobsOK, LocalsType
  <2>2. JobsOK'
    BY <1>6, <2>1, SetOK, LeaveOK
    DEF ReserveSummaryIssueNumber, Answer, Labels, LockedLabels
  <2> QED
    BY <1>6, <2>2
    DEF ReserveSummaryIssueNumber, TablesOK, WorldOK, world, Ids, DigestType
<1>7. CASE Publish(w)
  <2>1. job[w] \in LocalsType
    BY DEF JobsOK
  <2>2. Digest(w) \in DigestType
    BY <2>1 DEF Digest, RandomID, LocalsType, DigestType
  <2>3. posts' \subseteq DigestType
    BY <1>7, <2>2 DEF Publish, WorldOK
  <2>4. JobsOK'
    BY <1>7, AnswerOK DEF Publish, Labels, LockedLabels, tables
  <2> QED
    BY <1>7, <2>3, <2>4 DEF Publish, TablesOK, WorldOK, tables, Ids, DigestType
<1>8. CASE MarkBatchPublished(w)
  <2>1. job[w] \in LocalsType
    BY DEF JobsOK
  <2>2. Batch(w) \in BatchType
    BY <2>1 DEF Batch, LocalsType, BatchType
  <2>3. JobsOK'
    BY <1>8, AnswerOK
    DEF MarkBatchPublished, FinalizeWith, Labels, LockedLabels
  <2>4. TablesOK'
    BY <1>8, <2>2 DEF MarkBatchPublished, FinalizeWith, TablesOK, Ids
  <2> QED
    BY <1>8, <2>3, <2>4
    DEF MarkBatchPublished, FinalizeWith, WorldOK, world, Ids, DigestType
<1>9. CASE ResetSummaryChatState(w)
  <2>1. JobsOK'
    BY <1>9, AnswerReturnOK DEF ResetSummaryChatState
  <2>2. chat' \in [next : Nat, failures : Nat]
    BY <1>9, BatchAssumption DEF ResetSummaryChatState, NewState
  <2> QED
    BY <1>9, <2>1, <2>2
    DEF ResetSummaryChatState, TablesOK, WorldOK, world, Ids, DigestType
<1>10. CASE PublishRateLimitNotice(w)
  <2>1. JobsOK'
    BY <1>10, GotoOK
    DEF PublishRateLimitNotice, tables, world, Labels, LockedLabels
  <2> QED
    BY <1>10, <2>1
    DEF PublishRateLimitNotice, TablesOK, WorldOK, tables, world, Ids, DigestType
<1>11. CASE AdvanceSummaryChatRateLimit(w)
  <2>1. job[w].ids \subseteq Ids
    BY DEF JobsOK, LocalsType
  <2>2. MeaningfulCount(job[w].ids) + BatchSize \in Nat
    BY <2>1, CountIsNat, BatchAssumption
  <2>3. chat' \in [next : Nat, failures : Nat]
    BY <1>11, <2>2 DEF AdvanceSummaryChatRateLimit, TablesOK
  <2>4. JobsOK'
    BY <1>11, AnswerReturnOK DEF AdvanceSummaryChatRateLimit
  <2> QED
    BY <1>11, <2>3, <2>4
    DEF AdvanceSummaryChatRateLimit, TablesOK, WorldOK, world, Ids, DigestType
<1>12. CASE Fail(w)
  <2>1. JobsOK'
    BY <1>12, LeaveOK DEF Fail, tables
  <2> QED
    BY <1>12, <2>1 DEF Fail, TablesOK, WorldOK, tables, world, Ids, DigestType
<1>13. CASE RecordAutoSummaryFailure(w)
  <2>1. JobsOK'
    BY <1>13, GotoOK
    DEF RecordAutoSummaryFailure, Labels, JobsOK, LockedLabels
  <2>2. chat' \in [next : Nat, failures : Nat]
    BY <1>13 DEF RecordAutoSummaryFailure, TablesOK
  <2> QED
    BY <1>13, <2>1, <2>2
    DEF RecordAutoSummaryFailure, TablesOK, WorldOK, world, Ids, DigestType
<1> QED
  BY <1>1, <1>2, <1>3, <1>4, <1>5, <1>6, <1>7, <1>8, <1>9, <1>10, <1>11,
     <1>12, <1>13
  DEF Step, Call

LEMMA NextTypes == TypeOK /\ [Next]_vars => TypeOK'
<1> SUFFICES ASSUME TypeOK, [Next]_vars PROVE TypeOK'
  OBVIOUS
<1>1. ASSUME NEW src \in 1 .. MaxId, SaveMessage(src) PROVE TypeOK'
  <2>1. sourceOf' \in Seq(Nat) /\ Len(sourceOf') = Len(sourceOf) + 1
    BY <1>1 DEF SaveMessage, TypeOK, TablesOK
  <2>2. Ids \subseteq Ids' /\ Len(sourceOf) + 1 \in Ids'
    BY <2>1 DEF Ids, TypeOK, TablesOK
  <2>3. TablesOK'
    BY <1>1, <2>1, <2>2 DEF SaveMessage, TypeOK, TablesOK
  <2>4. DigestType \subseteq DigestType' /\ LocalsType \subseteq LocalsType'
    BY <2>2 DEF DigestType, LocalsType
  <2>5. WorldOK'
    BY <1>1, <2>2, <2>4 DEF SaveMessage, TypeOK, WorldOK, world
  <2>6. JobsOK'
    BY <1>1, <2>4 DEF SaveMessage, TypeOK, JobsOK
  <2> QED
    BY <2>3, <2>5, <2>6 DEF TypeOK
<1>2. ASSUME NEW w \in Workers, Begin(w) PROVE TypeOK'
  <2>1. JobsOK'
    BY <1>2, GotoOK DEF Begin, TypeOK, JobsOK, Labels, LockedLabels, tables
  <2> QED
    BY <1>2, <2>1
    DEF Begin, TypeOK, TablesOK, WorldOK, tables, world, Ids, DigestType
<1>3. ASSUME NEW w \in Workers, LoseLock(w) PROVE TypeOK'
  BY <1>3 DEF LoseLock, TypeOK, TablesOK, WorldOK, JobsOK, tables, world, Ids,
              DigestType, LocalsType
<1>4. CASE PruneExpiredData
  BY <1>4 DEF PruneExpiredData, TypeOK, TablesOK, WorldOK, JobsOK, Ids,
              DigestType, LocalsType
<1>5. CASE Shutdown
  BY <1>5 DEF Shutdown, TypeOK, TablesOK, WorldOK, JobsOK, tables, Ids,
              DigestType, LocalsType
<1>6. CASE Restart
  <2>1. NewJob \in LocalsType /\ LocalsType' = LocalsType
    BY <1>6, NewJobOK DEF Restart, TypeOK, tables, LocalsType, Ids
  <2>2. JobsOK'
    BY <1>6, <2>1 DEF Restart, JobsOK, Labels
  <2> QED
    BY <1>6, <2>2
    DEF Restart, TypeOK, TablesOK, WorldOK, tables, Ids, DigestType
<1>7. CASE UNCHANGED vars
  BY <1>7 DEF vars, tables, world, TypeOK, TablesOK, WorldOK, JobsOK, Ids,
              DigestType, LocalsType
<1> QED
  BY <1>1, <1>2, <1>3, <1>4, <1>5, <1>6, <1>7, StepTypes DEF Next

LEMMA InitTypes == Init => TypeOK
<1> SUFFICES ASSUME Init PROVE TypeOK
  OBVIOUS
<1>1. TablesOK
  BY BatchAssumption DEF Init, TablesOK, NewState, Ids
<1> QED
  BY <1>1, NewJobOK
  DEF Init, TypeOK, WorldOK, JobsOK, Labels, DigestType

\* Every variable of the conversation keeps its type.
THEOREM TypeCorrect == Spec => []TypeOK
BY InitTypes, NextTypes, PTL DEF Spec

-----------------------------------------------------------------------------
(* No message is lost.                                                     *)

\* A cursor, the end of a batch and the end of a digest are ids drawn before.
EndsBounded ==
  /\ \A w \in Workers : job[w].cursor <= Len(sourceOf)
  /\ \A b \in batches : b.last <= Len(sourceOf)
  /\ \A p \in posts : p.last <= Len(sourceOf)

\* A job has seen every stored row up to its cursor: rows only arrive beyond
\* every cursor, and other jobs and retention only take rows away.
NothingSkipped ==
  \A w \in Workers, m \in messages : m <= job[w].cursor => m \in job[w].ids

\* The same holds of a published digest for ever.
DigestsCover == \A p \in posts, m \in messages : m <= p.last => m \in p.ids

\* The random_id says which range it is, and a job that finalizes has had its
\* range accepted by VK, perhaps as the digest of an earlier attempt.
PostsIdentified ==
  /\ \A p \in posts : p.rid = <<p.first, p.last>>
  /\ \A p, q \in posts : p.rid = q.rid => p = q

PublishedBeforeFinalize ==
  \A w \in Workers : pc[w] = "finalize" =>
    \E p \in posts : p.last = job[w].cursor

CoverInv ==
  /\ EndsBounded /\ NoSurvivor /\ NothingSkipped /\ DigestsCover
  /\ PostsIdentified /\ PublishedBeforeFinalize /\ EveryMessageAccounted

\* Steps that touch neither the rows, the batches, the digests nor a cursor,
\* except that a job may forget its locals.
LEMMA QuietStep ==
  ASSUME TypeOK, CoverInv,
         UNCHANGED <<sourceOf, messages, batches, posts, expired>>,
         \A w \in Workers :
           \/ job'[w].cursor = 0
           \/ job'[w].cursor = job[w].cursor /\ job'[w].ids = job[w].ids,
         \A w \in Workers : pc'[w] = "finalize" =>
           pc[w] = "finalize" /\ job'[w].cursor = job[w].cursor
  PROVE  CoverInv'
<1>1. EndsBounded'
  BY DEF CoverInv, EndsBounded, TypeOK, TablesOK
<1>2. NothingSkipped'
  <2> SUFFICES ASSUME NEW w \in Workers, NEW m \in messages,
                      m <= job'[w].cursor
               PROVE  m \in job'[w].ids
    BY DEF NothingSkipped
  <2>1. m >= 1
    BY DEF TypeOK, TablesOK, Ids
  <2> QED
    BY <2>1 DEF CoverInv, NothingSkipped, TypeOK, TablesOK, Ids
<1>3. PublishedBeforeFinalize'
  BY DEF CoverInv, PublishedBeforeFinalize
<1> QED
  BY <1>1, <1>2, <1>3
  DEF CoverInv, NoSurvivor, DigestsCover, PostsIdentified,
      EveryMessageAccounted, Ids

\* The moves of a job that are quiet whatever else the step does.
Quiet(w) ==
  /\ \A v \in Workers :
       \/ job'[v].cursor = 0
       \/ job'[v].cursor = job[v].cursor /\ job'[v].ids = job[v].ids
  /\ \A v \in Workers : pc'[v] = "finalize" =>
       pc[v] = "finalize" /\ job'[v].cursor = job[v].cursor

LEMMA QuietMoves ==
  ASSUME TypeOK, NEW w \in Workers, NEW label \in Labels \ {"finalize"},
         NEW locals \in LocalsType,
         locals.cursor = job[w].cursor /\ locals.ids = job[w].ids,
         \/ Return(w) \/ Throw(w) \/ Goto(w, label) \/ Set(w, label, locals)
  PROVE  Quiet(w)
<1> USE DEF TypeOK, JobsOK
<1>1. CASE Return(w) \/ Throw(w)
  <2>1. PICK l \in {"idle", "failed"} : Leave(w, l)
    BY <1>1 DEF Return, Throw
  <2> QED
    BY <2>1 DEF Leave, Quiet, NewJob
<1>2. CASE Goto(w, label)
  BY <1>2 DEF Goto, Quiet
<1>3. CASE Set(w, label, locals)
  BY <1>3 DEF Set, Quiet
<1> QED
  BY <1>1, <1>2, <1>3

LEMMA QuietSteps ==
  ASSUME TypeOK, CoverInv, NEW w \in Workers,
         \/ Begin(w) \/ LoadState(w) \/ AcquireBatchLock(w)
         \/ IsBatchProcessed(w) \/ GenerateSummary(w)
         \/ ReserveSummaryIssueNumber(w) \/ ResetSummaryChatState(w)
         \/ PublishRateLimitNotice(w) \/ AdvanceSummaryChatRateLimit(w)
         \/ Fail(w) \/ RecordAutoSummaryFailure(w) \/ LoseLock(w)
  PROVE  CoverInv'
<1>1. UNCHANGED <<sourceOf, messages, batches, posts, expired>>
  BY DEF Begin, LoadState, AcquireBatchLock, IsBatchProcessed, GenerateSummary,
         ReserveSummaryIssueNumber, ResetSummaryChatState,
         PublishRateLimitNotice, AdvanceSummaryChatRateLimit, Fail,
         RecordAutoSummaryFailure, LoseLock, tables, world
<1>2. job[w] \in LocalsType
  BY DEF TypeOK, JobsOK
<1>3. Quiet(w)
  <2>1. CASE LoadState(w)
    <3> DEFINE locals == [job[w] EXCEPT !.next = chat.next, !.stored = batches]
    <3>1. /\ locals \in LocalsType
          /\ locals.cursor = job[w].cursor /\ locals.ids = job[w].ids
      BY <1>2 DEF LocalsType, TypeOK, TablesOK
    <3>2. Return(w) \/ Set(w, "after", locals)
      BY <2>1 DEF LoadState
    <3> QED
      BY <3>1, <3>2, QuietMoves DEF Labels
  <2>2. CASE ReserveSummaryIssueNumber(w)
    <3> DEFINE locals == [job[w] EXCEPT !.issue = nextIssue]
    <3>1. /\ locals \in LocalsType
          /\ locals.cursor = job[w].cursor /\ locals.ids = job[w].ids
      BY <1>2 DEF LocalsType, TypeOK, TablesOK
    <3>2. Throw(w) \/ Set(w, "publish", locals)
      BY <2>2 DEF ReserveSummaryIssueNumber, Answer
    <3> QED
      BY <3>1, <3>2, QuietMoves DEF Labels
  <2>3. CASE AcquireBatchLock(w)
    <3>1. Return(w) \/ (pc' = [pc EXCEPT ![w] = "check"] /\ UNCHANGED job)
      BY <2>3 DEF AcquireBatchLock
    <3>2. Return(w) => Quiet(w)
      BY <1>2, QuietMoves DEF Labels
    <3> QED
      BY <3>1, <3>2 DEF Quiet, TypeOK, JobsOK
  <2>4. CASE LoseLock(w)
    BY <2>4 DEF LoseLock, Quiet
  <2>5. CASE \/ Begin(w) \/ IsBatchProcessed(w) \/ GenerateSummary(w)
             \/ ResetSummaryChatState(w) \/ PublishRateLimitNotice(w)
             \/ AdvanceSummaryChatRateLimit(w) \/ Fail(w)
             \/ RecordAutoSummaryFailure(w)
    <3>1. \/ Return(w) \/ Throw(w)
          \/ \E l \in {"state", "generate", "reserve", "notice", "advance", "idle"} :
               Goto(w, l)
      BY <2>5 DEF Begin, IsBatchProcessed, GenerateSummary,
                  ResetSummaryChatState, PublishRateLimitNotice,
                  AdvanceSummaryChatRateLimit, Fail, RecordAutoSummaryFailure,
                  Answer
    <3> QED
      BY <1>2, <3>1, QuietMoves DEF Labels
  <2> QED
    BY <2>1, <2>2, <2>3, <2>4, <2>5
<1> QED
  BY <1>1, <1>3, QuietStep DEF Quiet

\* A new row lies beyond every cursor and every end.
LEMMA SaveStep ==
  ASSUME TypeOK, CoverInv, NEW src \in 1 .. MaxId, SaveMessage(src)
  PROVE  CoverInv'
<1> DEFINE new == Len(sourceOf) + 1
<1>1. /\ Len(sourceOf') = new /\ Len(sourceOf) \in Nat
      /\ messages' = messages \cup {new}
      /\ UNCHANGED <<batches, posts, expired, pc, job>>
  BY DEF SaveMessage, TypeOK, TablesOK, world
<1>2. EndsBounded'
  BY <1>1 DEF CoverInv, EndsBounded, TypeOK, TablesOK, WorldOK, JobsOK,
              BatchType, DigestType, LocalsType
<1>3. NoSurvivor'
  BY <1>1 DEF CoverInv, EndsBounded, NoSurvivor, TypeOK, TablesOK, BatchType
<1>4. NothingSkipped'
  BY <1>1 DEF CoverInv, EndsBounded, NothingSkipped, TypeOK, JobsOK, LocalsType
<1>5. DigestsCover'
  BY <1>1 DEF CoverInv, EndsBounded, DigestsCover, TypeOK, WorldOK, DigestType
<1>6. EveryMessageAccounted'
  <2>1. Ids' = Ids \cup {new}
    BY <1>1 DEF Ids
  <2> QED
    BY <1>1, <2>1 DEF CoverInv, EveryMessageAccounted
<1> QED
  BY <1>1, <1>2, <1>3, <1>4, <1>5, <1>6
  DEF CoverInv, PostsIdentified, PublishedBeforeFinalize

\* The cursor starts at the end of a batch, where no row is left, or at 0.
LEMMA CursorStep ==
  ASSUME TypeOK, CoverInv, NEW w \in Workers, LastProcessedMessageID(w)
  PROVE  CoverInv'
<1>1. PICK id \in 0 .. Len(sourceOf) :
        LastProcessed(id) /\ Set(w, "collect", [job[w] EXCEPT !.cursor = id])
  BY DEF LastProcessedMessageID
<1>2. UNCHANGED <<sourceOf, messages, batches, posts, expired>>
  BY DEF LastProcessedMessageID, tables, world
<1>3. job[w] \in LocalsType /\ job \in [Workers -> LocalsType]
  BY DEF TypeOK, JobsOK
<1>4. /\ job'[w].cursor = id
      /\ \A v \in Workers \ {w} : job'[v] = job[v]
      /\ \A v \in Workers : pc'[v] = "finalize" => v # w /\ pc[v] = "finalize"
  BY <1>1, <1>3 DEF Set, TypeOK, JobsOK, LocalsType
<1>5. EndsBounded'
  BY <1>2, <1>4 DEF CoverInv, EndsBounded, TypeOK, TablesOK
<1>6. \A m \in messages : id < m
  BY <1>1 DEF LastProcessed, IsTop, CoverInv, NoSurvivor, TypeOK, TablesOK, Ids
<1>7. NothingSkipped'
  <2> SUFFICES ASSUME NEW v \in Workers, NEW m \in messages,
                      m <= job'[v].cursor
               PROVE  m \in job'[v].ids
    BY <1>2 DEF NothingSkipped
  <2>1. m \in Nat
    BY DEF TypeOK, TablesOK, Ids
  <2>2. v # w
    BY <1>4, <1>6, <2>1
  <2> QED
    BY <1>4, <2>2 DEF CoverInv, NothingSkipped
<1>8. PublishedBeforeFinalize'
  BY <1>2, <1>4 DEF CoverInv, PublishedBeforeFinalize
<1> QED
  BY <1>2, <1>5, <1>7, <1>8
  DEF CoverInv, NoSurvivor, DigestsCover, PostsIdentified,
      EveryMessageAccounted, Ids

\* A page has no gaps: with a row it has every stored row between the cursor
\* and that row.
LEMMA PageHasNoGaps ==
  ASSUME TablesOK, FetchLimit \in Nat, NEW cursor \in Nat,
         NEW high \in Page(cursor), NEW m \in messages, cursor < m, m <= high
  PROVE  m \in Page(cursor)
<1> DEFINE upToHigh == {k \in messages : cursor < k /\ k <= high}
           upToM    == {k \in messages : cursor < k /\ k <= m}
<1>1. IsFiniteSet(Ids)
  BY FS_Interval DEF Ids, TablesOK
<1>2. /\ messages \subseteq Ids /\ Ids \subseteq Nat
      /\ high \in messages /\ Cardinality(upToHigh) <= FetchLimit
  BY DEF Page, TablesOK, Ids
<1>3. upToHigh \subseteq Ids /\ upToM \subseteq upToHigh
  <2>1. \A k \in messages : k \in Nat /\ (k <= m => k <= high)
    <3>1. \A k \in messages : k \in Nat
      BY <1>2
    <3> QED
      BY <1>2, <3>1
  <2> QED
    BY <1>2, <2>1
<1>4. IsFiniteSet(upToHigh)
  BY <1>1, <1>3, FS_Subset
<1>5. IsFiniteSet(upToM) /\ Cardinality(upToM) <= Cardinality(upToHigh)
  BY <1>3, <1>4, FS_Subset
<1>6. Cardinality(upToM) \in Nat /\ Cardinality(upToHigh) \in Nat
  BY <1>4, <1>5, FS_CardinalityType
<1>7. Cardinality(upToM) <= FetchLimit
  BY <1>2, <1>5, <1>6
<1> QED
  BY <1>7 DEF Page

\* Paging over rows that disappear meanwhile skips none that stays.
LEMMA CollectStep ==
  ASSUME TypeOK, CoverInv, NEW w \in Workers, CollectCandidate(w)
  PROVE  CoverInv'
<1> DEFINE page == Page(job[w].cursor)
<1>1. UNCHANGED <<sourceOf, messages, batches, posts, expired>>
  BY DEF CollectCandidate, tables, world
<1>2. job[w] \in LocalsType /\ job \in [Workers -> LocalsType]
  BY DEF TypeOK, JobsOK
<1>3. CASE Return(w) \/ \E l \in {"collect", "lock"} : Goto(w, l)
  <2>1. Quiet(w)
    BY <1>2, <1>3, QuietMoves DEF Labels
  <2> QED
    BY <1>1, <2>1, QuietStep DEF Quiet
<1>4. CASE ~ (Return(w) \/ \E l \in {"collect", "lock"} : Goto(w, l))
  <2>1. PICK label \in {"collect", "lock"} :
          TakePage(w, page, label) /\ page # {}
    BY <1>4 DEF CollectCandidate, TakePage
  <2>2. PICK low \in page, high \in page :
          /\ IsTop(high, page)
          /\ Set(w, label, [job[w] EXCEPT !.cursor = high,
                                          !.first = IF @ = 0 THEN low ELSE @,
                                          !.ids = @ \cup page])
    BY <2>1 DEF TakePage
  <2>3. /\ job'[w].cursor = high /\ job'[w].ids = job[w].ids \cup page
        /\ \A v \in Workers \ {w} : job'[v] = job[v]
        /\ \A v \in Workers : pc'[v] = "finalize" => v # w /\ pc[v] = "finalize"
    BY <1>2, <2>2 DEF Set, TypeOK, JobsOK, LocalsType
  <2>4. high \in Ids /\ high \in Nat
    BY DEF Page, TypeOK, TablesOK, Ids
  <2>5. EndsBounded'
    BY <1>1, <2>3, <2>4 DEF CoverInv, EndsBounded, TypeOK, TablesOK, Ids
  <2>6. NothingSkipped'
    <3> SUFFICES ASSUME NEW v \in Workers, NEW m \in messages,
                        m <= job'[v].cursor
                 PROVE  m \in job'[v].ids
      BY <1>1 DEF NothingSkipped
    <3>1. CASE v # w
      BY <2>3, <3>1 DEF CoverInv, NothingSkipped
    <3>2. CASE v = w /\ m <= job[w].cursor
      BY <2>3, <3>2 DEF CoverInv, NothingSkipped
    <3>3. CASE v = w /\ ~ (m <= job[w].cursor)
      <4>1. job[w].cursor \in Nat /\ m \in Nat /\ FetchLimit \in Nat
        BY <1>2, FetchAssumption DEF LocalsType, TypeOK, TablesOK, Ids
      <4>2. m \in page
        BY <2>3, <3>3, <4>1, PageHasNoGaps DEF TypeOK
      <4> QED
        BY <2>3, <3>3, <4>2
    <3> QED
      BY <3>1, <3>2, <3>3
  <2>7. PublishedBeforeFinalize'
    BY <1>1, <2>3 DEF CoverInv, PublishedBeforeFinalize
  <2> QED
    BY <1>1, <2>5, <2>6, <2>7
    DEF CoverInv, NoSurvivor, DigestsCover, PostsIdentified,
        EveryMessageAccounted, Ids
<1> QED
  BY <1>3, <1>4

\* A digest shows all a job has seen, and VK shows one digest for a range.
LEMMA PublishStep ==
  ASSUME TypeOK, CoverInv, NEW w \in Workers, Publish(w)
  PROVE  CoverInv'
<1>1. UNCHANGED <<sourceOf, messages, batches, expired>>
  BY DEF Publish, tables
<1>2. job[w] \in LocalsType /\ job \in [Workers -> LocalsType]
  BY DEF TypeOK, JobsOK
<1>3. /\ posts' = posts \/ posts' = posts \cup {Digest(w)}
      /\ (\E p \in posts : p.rid = Digest(w).rid) <=> Digest(w) \notin posts' \ posts
      /\ \E p \in posts' : p.rid = Digest(w).rid
  BY DEF Publish, Digest
<1>4. /\ Digest(w).rid = <<job[w].first, job[w].cursor>>
      /\ Digest(w).first = job[w].first /\ Digest(w).last = job[w].cursor
      /\ Digest(w).ids = job[w].ids
  BY DEF Digest, RandomID
<1>5. Throw(w) \/ Goto(w, "finalize")
  BY DEF Publish, Answer
<1>6. \A v \in Workers :
        \/ job'[v].cursor = 0
        \/ job'[v].cursor = job[v].cursor /\ job'[v].ids = job[v].ids
  BY <1>2, <1>5 DEF Throw, Leave, Goto, NewJob, TypeOK, JobsOK
<1>7. EndsBounded'
  BY <1>1, <1>3, <1>4, <1>6 DEF CoverInv, EndsBounded, TypeOK, TablesOK
<1>8. NothingSkipped'
  <2> SUFFICES ASSUME NEW v \in Workers, NEW m \in messages,
                      m <= job'[v].cursor
               PROVE  m \in job'[v].ids
    BY <1>1 DEF NothingSkipped
  <2>1. m >= 1
    BY DEF TypeOK, TablesOK, Ids
  <2> QED
    BY <1>6, <2>1 DEF CoverInv, NothingSkipped, TypeOK, TablesOK, Ids
<1>9. DigestsCover'
  BY <1>1, <1>3, <1>4 DEF CoverInv, DigestsCover, NothingSkipped
<1>10. PostsIdentified'
  BY <1>3, <1>4 DEF CoverInv, PostsIdentified
<1>11. PublishedBeforeFinalize'
  <2> SUFFICES ASSUME NEW v \in Workers, pc'[v] = "finalize"
               PROVE  \E p \in posts' : p.last = job'[v].cursor
    BY DEF PublishedBeforeFinalize
  <2>1. CASE v = w
    <3>1. job' = job
      BY <1>5, <2>1 DEF Throw, Leave, Goto, TypeOK, JobsOK
    <3>2. PICK p \in posts' : p.rid = <<job[w].first, job[w].cursor>>
      BY <1>3, <1>4
    <3>3. p.rid = <<p.first, p.last>>
      BY <1>10 DEF PostsIdentified
    <3> QED
      BY <2>1, <3>1, <3>2, <3>3
  <2>2. CASE v # w
    <3>1. pc[v] = "finalize" /\ job'[v] = job[v]
      BY <1>2, <1>5, <2>2 DEF Throw, Leave, Goto, TypeOK, JobsOK
    <3> QED
      BY <1>3, <3>1 DEF CoverInv, PublishedBeforeFinalize
  <2> QED
    BY <2>1, <2>2
<1>12. EveryMessageAccounted'
  BY <1>1, <1>3 DEF CoverInv, EveryMessageAccounted, Ids
<1> QED
  BY <1>1, <1>7, <1>8, <1>9, <1>10, <1>11, <1>12 DEF CoverInv, NoSurvivor

\* The rows a job deletes are in the digest of its range.
LEMMA FinalizeStep ==
  ASSUME TypeOK, CoverInv, NEW w \in Workers, MarkBatchPublished(w)
  PROVE  CoverInv'
<1>1. /\ messages' = {m \in messages : m > job[w].cursor}
      /\ batches' \subseteq batches \cup {Batch(w)}
      /\ pc[w] = "finalize"
      /\ UNCHANGED <<sourceOf, posts, expired>>
      /\ Throw(w) \/ Goto(w, "reset")
  BY DEF MarkBatchPublished, FinalizeWith, Answer, world
<1>2. job[w] \in LocalsType /\ job \in [Workers -> LocalsType]
  BY DEF TypeOK, JobsOK
<1>3. Quiet(w)
  BY <1>1, <1>2, QuietMoves DEF Labels
<1>4. EndsBounded'
  BY <1>1, <1>3
  DEF CoverInv, EndsBounded, Quiet, Batch, TypeOK, TablesOK
<1>5. NoSurvivor'
  <2>1. \A m \in messages : m \in Nat
    BY DEF TypeOK, TablesOK, Ids
  <2>2. job[w].cursor \in Nat
    BY <1>2 DEF LocalsType
  <2> QED
    BY <1>1, <2>1, <2>2 DEF CoverInv, NoSurvivor, Batch
<1>6. NothingSkipped'
  <2> SUFFICES ASSUME NEW v \in Workers, NEW m \in messages,
                      m <= job'[v].cursor
               PROVE  m \in job'[v].ids
    BY <1>1 DEF NothingSkipped
  <2>1. m >= 1
    BY DEF TypeOK, TablesOK, Ids
  <2> QED
    BY <1>3, <2>1 DEF Quiet, CoverInv, NothingSkipped, TypeOK, TablesOK, Ids
<1>7. EveryMessageAccounted'
  <2>1. PICK p \in posts : p.last = job[w].cursor
    BY <1>1 DEF CoverInv, PublishedBeforeFinalize
  <2>2. \A m \in messages \ messages' : m \in p.ids
    <3> SUFFICES ASSUME NEW m \in messages, ~ (m > job[w].cursor)
                 PROVE  m \in p.ids
      BY <1>1
    <3>1. m <= p.last
      BY <1>2, <2>1 DEF LocalsType, TypeOK, TablesOK, Ids
    <3> QED
      BY <3>1 DEF CoverInv, DigestsCover
  <2> QED
    BY <1>1, <2>2 DEF CoverInv, EveryMessageAccounted, Ids
<1>8. PublishedBeforeFinalize'
  BY <1>1, <1>3 DEF CoverInv, PublishedBeforeFinalize, Quiet
<1> QED
  BY <1>1, <1>4, <1>5, <1>6, <1>7, <1>8
  DEF CoverInv, DigestsCover, PostsIdentified

\* Retention only removes rows and batches, and remembers the rows.
LEMMA PruneStep ==
  ASSUME TypeOK, CoverInv, PruneExpiredData
  PROVE  CoverInv'
<1>1. /\ messages' \subseteq messages /\ batches' \subseteq batches
      /\ expired' = expired \cup (messages \ messages')
      /\ UNCHANGED <<sourceOf, posts, pc, job>>
  BY DEF PruneExpiredData
<1>2. EveryMessageAccounted'
  BY <1>1 DEF CoverInv, EveryMessageAccounted, Ids
<1> QED
  BY <1>1, <1>2
  DEF CoverInv, EndsBounded, NoSurvivor, NothingSkipped, DigestsCover,
      PostsIdentified, PublishedBeforeFinalize

LEMMA CoverInductive == TypeOK /\ CoverInv /\ [Next]_vars => CoverInv'
<1> SUFFICES ASSUME TypeOK, CoverInv, [Next]_vars PROVE CoverInv'
  OBVIOUS
<1>1. CASE Shutdown \/ UNCHANGED vars
  BY <1>1, QuietStep DEF Shutdown, vars, tables, world
<1>2. CASE Restart
  <2>1. \A w \in Workers : job'[w].cursor = 0 /\ pc'[w] = "idle"
    BY <1>2 DEF Restart, NewJob
  <2> QED
    BY <1>2, <2>1, QuietStep DEF Restart, tables
<1>3. CASE \E w \in Workers : Begin(w) \/ Step(w) \/ LoseLock(w)
  BY <1>3, QuietSteps, CursorStep, CollectStep, PublishStep, FinalizeStep
  DEF Step, Call
<1> QED
  BY <1>1, <1>2, <1>3, SaveStep, PruneStep DEF Next

LEMMA InitCovers == Init => CoverInv
BY DEF Init, NewJob, CoverInv, EndsBounded, NoSurvivor, NothingSkipped,
       DigestsCover, PostsIdentified, PublishedBeforeFinalize,
       EveryMessageAccounted, Ids

LEMMA Covered == Spec => [](TypeOK /\ CoverInv)
<1>1. Init => TypeOK /\ CoverInv
  BY InitTypes, InitCovers
<1>2. TypeOK /\ CoverInv /\ [Next]_vars => (TypeOK /\ CoverInv)'
  BY NextTypes, CoverInductive
<1> QED
  BY <1>1, <1>2, PTL DEF Spec

\* Retention, a lost lock or a crash cannot bring a digested row back: after
\* a batch is recorded no row at or before its end is ever stored.
THEOREM DigestedRowsAreGone == Spec => []NoSurvivor
<1>1. TypeOK /\ CoverInv => NoSurvivor
  BY DEF CoverInv
<1> QED
  BY <1>1, Covered, PTL

\* No interleaving, failure or crash loses a message: a row that is gone was
\* in a published digest, or retention deleted it.
THEOREM NoMessageLost == Spec => []EveryMessageAccounted
<1>1. TypeOK /\ CoverInv => EveryMessageAccounted
  BY DEF CoverInv
<1> QED
  BY <1>1, Covered, PTL

\* However often a range is retried, VK shows one digest for it.
THEOREM RangeShownOnce == Spec => []PostedOnce
<1>1. TypeOK /\ CoverInv => PostedOnce
  BY DEF CoverInv, PostsIdentified, PostedOnce, SameRange
<1> QED
  BY <1>1, Covered, PTL

-----------------------------------------------------------------------------
(* The pipeline implements the ledger.                                     *)

told == UNION {p.ids : p \in posts}

LEMMA PublishTells ==
  ASSUME TypeOK, NEW w \in Workers, Publish(w)
  PROVE  [Ledger!Next]_(Ledger!vars)
<1>1. job[w].ids \subseteq 1 .. Len(sourceOf)
  BY DEF TypeOK, JobsOK, LocalsType, Ids
<1>2. posts' = posts \/ posts' = posts \cup {Digest(w)}
  BY DEF Publish
<1>3. told' = told \/ told' = told \cup job[w].ids
  <2>1. Digest(w).ids = job[w].ids
    BY DEF Digest
  <2> QED
    BY <1>2, <2>1 DEF told
<1>4. UNCHANGED <<sourceOf, messages, expired>>
  BY DEF Publish, tables
<1> QED
  BY <1>1, <1>3, <1>4 DEF told, Ledger!Next, Ledger!Tell, Ledger!vars

LEMMA FinalizeForgets ==
  ASSUME TypeOK, CoverInv, NEW w \in Workers, MarkBatchPublished(w)
  PROVE  Ledger!Forget
<1>1. /\ pc[w] = "finalize"
      /\ messages' = {m \in messages : m > job[w].cursor}
      /\ UNCHANGED <<sourceOf, posts, expired>>
  BY DEF MarkBatchPublished, FinalizeWith, world
<1>2. PICK p \in posts : p.last = job[w].cursor
  BY <1>1 DEF CoverInv, PublishedBeforeFinalize
<1>3. \A m \in messages \ messages' : m \in p.ids
  <2> SUFFICES ASSUME NEW m \in messages, ~ (m > job[w].cursor)
               PROVE  m \in p.ids
    BY <1>1
  <2>1. m <= p.last
    BY <1>2 DEF TypeOK, TablesOK, JobsOK, LocalsType, Ids
  <2> QED
    BY <2>1 DEF CoverInv, DigestsCover
<1>4. messages \ messages' \in SUBSET told
  BY <1>3 DEF told
<1>5. messages' = messages \ (messages \ messages')
  BY <1>1
<1> QED
  BY <1>1, <1>4, <1>5 DEF told, Ledger!Forget

LEMMA PruneLapses ==
  ASSUME PruneExpiredData
  PROVE  Ledger!Lapse
<1>1. /\ messages' \subseteq messages
      /\ expired' = expired \cup (messages \ messages')
      /\ UNCHANGED <<sourceOf, posts>>
  BY DEF PruneExpiredData
<1>2. messages' = messages \ (messages \ messages')
  BY <1>1
<1> QED
  BY <1>1, <1>2 DEF Ledger!Lapse

LEMMA StepRefines ==
  ASSUME TypeOK, CoverInv, [Next]_vars
  PROVE  [Ledger!Next]_(Ledger!vars)
<1>1. ASSUME NEW src \in 1 .. MaxId, SaveMessage(src)
      PROVE  Ledger!Save
  <2>1. Len(sourceOf') = Len(sourceOf) + 1
    BY <1>1 DEF SaveMessage, TypeOK, TablesOK
  <2> QED
    BY <1>1, <2>1 DEF SaveMessage, Ledger!Save, world
<1>2. ASSUME NEW w \in Workers,
             Begin(w) \/ LoseLock(w)
               \/ (Step(w) /\ ~ Publish(w) /\ ~ MarkBatchPublished(w))
      PROVE  UNCHANGED <<sourceOf, messages, posts, expired>>
  BY <1>2
  DEF Step, Call, Begin, LoadState, LastProcessedMessageID, CollectCandidate,
      AcquireBatchLock, IsBatchProcessed, GenerateSummary,
      ReserveSummaryIssueNumber, ResetSummaryChatState,
      PublishRateLimitNotice, AdvanceSummaryChatRateLimit, Fail,
      RecordAutoSummaryFailure, LoseLock, tables, world
<1>3. ASSUME Shutdown \/ Restart \/ UNCHANGED vars
      PROVE  UNCHANGED <<sourceOf, messages, posts, expired>>
  BY <1>3 DEF Shutdown, Restart, vars, tables, world
<1>4. ASSUME UNCHANGED <<sourceOf, messages, posts, expired>>
      PROVE  UNCHANGED Ledger!vars
  BY <1>4 DEF Ledger!vars
<1> QED
  BY <1>1, <1>2, <1>3, <1>4, PublishTells, FinalizeForgets, PruneLapses
  DEF Next, Ledger!Next

\* With all its interleavings, failures and crashes the pipeline keeps the
\* promise of the ledger: only published or lapsed messages are forgotten.
THEOREM PipelineImplementsLedger == Spec => ImplementsLedger
<1>1. Init => Ledger!Init
  BY DEF Init, Ledger!Init
<1>2. TypeOK /\ CoverInv /\ [Next]_vars => [Ledger!Next]_(Ledger!vars)
  BY StepRefines
<1> QED
  BY <1>1, <1>2, Covered, PTL DEF Spec, ImplementsLedger, Ledger!Spec
=============================================================================
