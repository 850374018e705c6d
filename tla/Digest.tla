------------------------------- MODULE Digest -------------------------------
(***************************************************************************)
(* One conversation of the bot: its rows in PostgreSQL and the background  *)
(* jobs that turn stored messages into a published digest.                 *)
(*                                                                         *)
(* Every table is keyed by peer_id and every statement of the pipeline     *)
(* filters on it, so conversations do not share state and one is enough.   *)
(* A job is one call of executeNext (internal/summary/service.go).  Its    *)
(* program counter names the call it makes next: every repository, LLM and *)
(* VK call is one atomic step, and other jobs, the consumer, retention and *)
(* shutdown run between any two of them.                                   *)
(***************************************************************************)
EXTENDS Integers, FiniteSets, Sequences

CONSTANTS
  Meaningful,   \* the VK messages, numbered by arrival, whose text passes
                \* the garbage filter
  AutoJob,      \* the automatic job (AutoRun shows there is at most one)
  Manual,       \* jobs started by the manual command, in any number
  BatchSize,    \* SUMMARY_BATCH_SIZE
  FetchLimit,   \* page size of the candidate query
  MaxAutoSummaryAttempts,
  Events,       \* what the environment of a run may do, see AllEvents
  MaxId,        \* bound: rows ever inserted
  MaxIssue      \* bound: jobs ever started, through the issue numbers

(* What can happen to a job besides an answer to its call.                 *)
AllEvents ==
  { "error",      \* a call fails and had no effect
    "ambiguous",  \* a call takes effect and its answer is lost
    "ratelimit",  \* the LLM provider answers 429
    "redeliver",  \* the consumer runs the handler of a message again
    "expire",     \* the daily retention cleanup deletes rows
    "unlock",     \* PostgreSQL drops the connection that holds a batch lock
    "shutdown",   \* SIGTERM: the lifecycle context is cancelled
    "crash" }     \* the process dies without running its defers

ASSUME EventsAssumption == Events \subseteq AllEvents
ASSUME WorkersAssumption == AutoJob \notin Manual
ASSUME BatchAssumption == BatchSize \in Nat \ {0}
ASSUME FetchAssumption == FetchLimit \in Nat /\ FetchLimit >= 3 * BatchSize
ASSUME AttemptsAssumption == MaxAutoSummaryAttempts \in Nat \ {0}

VARIABLES
  sourceOf,    \* VK message of every row ever inserted; the index is the
               \* BIGSERIAL id, so the length is the last id drawn
  messages,    \* ids of the rows in messages
  batches,     \* rows of processed_summary_batches
  usage,       \* batches summed up in usage_daily_stats
  nextIssue,   \* summary_issue_counters.next_issue_number
  chat,        \* the row of summary_chat_state
  posts,       \* digests VK shows in the conversation
  expired,     \* history: ids that retention deleted
  holders,     \* jobs whose connection holds their batch advisory lock
  stopping,    \* the lifecycle context is cancelled
  pc,          \* the call each job makes next
  job          \* local variables of each job

tables == <<sourceOf, messages, batches, usage, nextIssue, chat>>
world  == <<posts, expired, stopping>>
vars   == <<tables, world, holders, pc, job>>

Workers == {AutoJob} \cup Manual
Labels  == {"idle", "state", "after", "collect", "lock", "check", "generate",
            "notice", "advance", "reserve", "publish", "finalize", "reset",
            "failed"}

NewState == [next |-> BatchSize, failures |-> 0]
NewJob   == [next |-> 0, cursor |-> 0, first |-> 0,
             ids |-> {}, issue |-> 0, stored |-> {}]

Init ==
  /\ sourceOf = <<>> /\ messages = {} /\ batches = {} /\ usage = {}
  /\ nextIssue = 1 /\ chat = NewState
  /\ posts = {} /\ expired = {}
  /\ holders = {} /\ stopping = FALSE
  /\ pc = [w \in Workers |-> "idle"]
  /\ job = [w \in Workers |-> NewJob]

-----------------------------------------------------------------------------
(* Helpers.                                                                *)

IsTop(x, S) == x \in S /\ \A y \in S : y <= x
IsBottom(x, S) == x \in S /\ \A y \in S : x <= y

MeaningfulCount(ids) == Cardinality({m \in ids : sourceOf[m] \in Meaningful})

SameRange(x, y) == x.first = y.first /\ x.last = y.last

\* job.cursor is candidate.LastMessageID once the candidate is complete.
Locked(w) == \E v \in holders :
  job[v].first = job[w].first /\ job[v].cursor = job[w].cursor

Recorded(w) == \E b \in batches :
  b.first = job[w].first /\ b.last = job[w].cursor

\* Mutant: the id changes with every attempt.
RandomIDPerIssue(first, last, issue) == <<first, last, issue>>

\* VK drops a second message with a random_id it has seen.  The id is a 31-bit
\* hash of the range: two ranges that collide are left out.
RandomID(first, last, issue) == <<first, last>>

\* The two moves of a job inside executeNext.
Goto(w, label) ==
  /\ pc' = [pc EXCEPT ![w] = label]
  /\ UNCHANGED <<job, holders>>

Set(w, label, locals) ==
  /\ pc' = [pc EXCEPT ![w] = label]
  /\ job' = [job EXCEPT ![w] = locals]
  /\ UNCHANGED holders

\* Mutant: an early return without the unlock.
LeaveLocked(w, label) ==
  /\ pc' = [pc EXCEPT ![w] = label]
  /\ job' = [job EXCEPT ![w] = NewJob]
  /\ UNCHANGED holders

\* Leaving executeNext runs the deferred unlock.
Leave(w, label) ==
  /\ pc' = [pc EXCEPT ![w] = label]
  /\ job' = [job EXCEPT ![w] = NewJob]
  /\ holders' = holders \ {w}

Return(w) == Leave(w, "idle")

\* An error is counted for automatic jobs only, and not after cancellation.
Throw(w) == Leave(w, IF w = AutoJob /\ ~stopping THEN "failed" ELSE "idle")

\* The outcomes of a call that took effect: its answer arrives and the job
\* goes on with A, or the answer is lost and the job sees an error.
Answer(w, A) ==
  \/ ~stopping /\ A
  \/ "ambiguous" \in Events /\ Throw(w)

-----------------------------------------------------------------------------
(* The long poll consumer.                                                 *)

\* Updates are handled in order, so a handler runs for the next VK message or
\* again for the latest one.  The upsert leaves a stored source alone.
Arrived == IF sourceOf = <<>> THEN 0 ELSE sourceOf[Len(sourceOf)]

SaveMessage(src) ==
  /\ ~stopping
  /\ Len(sourceOf) < MaxId
  /\ src = Arrived + 1 \/ ("redeliver" \in Events /\ src = Arrived)
  /\ \A m \in messages : sourceOf[m] # src
  /\ sourceOf' = Append(sourceOf, src)
  /\ messages' = messages \cup {Len(sourceOf) + 1}
  /\ UNCHANGED <<batches, usage, nextIssue, chat, world, holders, pc, job>>

-----------------------------------------------------------------------------
(* executeNext, call by call.                                              *)

\* Bounds of a run, not conditions of the code: every running job may still
\* draw a number, and failing to read the state is not counted for ever.
WithinBounds ==
  /\ nextIssue + Cardinality({v \in Workers : pc[v] # "idle"}) <= MaxIssue
  /\ chat.failures <= MaxAutoSummaryAttempts

\* A job starts, or the automatic job goes round after a published digest.
Begin(w) ==
  /\ pc[w] = "idle" /\ ~stopping
  /\ WithinBounds
  /\ Goto(w, "state")
  /\ UNCHANGED <<tables, world>>

\* GetSummaryChatState, and the retry limit of the automatic trigger.
\* History: the batches that are older than what the job reads.
LoadState(w) ==
  /\ pc[w] = "state" /\ ~stopping
  /\ IF w = AutoJob /\ chat.failures >= MaxAutoSummaryAttempts
       THEN Return(w)
       ELSE Set(w, "after", [job[w] EXCEPT !.next = chat.next,
                                            !.stored = batches])
  /\ UNCHANGED <<tables, world>>

\* The largest recorded last_message_id, or 0 when it is beyond every row.
LastProcessed(id) ==
  \E top \in {0} \cup {b.last : b \in batches} :
    /\ IsTop(top, {0} \cup {b.last : b \in batches})
    /\ id = IF messages # {} /\ \A m \in messages : m < top THEN 0 ELSE top

LastProcessedMessageID(w) ==
  /\ pc[w] = "after" /\ ~stopping
  /\ \E id \in 0 .. Len(sourceOf) :
       /\ LastProcessed(id)
       /\ Set(w, "collect", [job[w] EXCEPT !.cursor = id])
  /\ UNCHANGED <<tables, world>>

\* The first FetchLimit rows after a cursor.
Page(cursor) ==
  {m \in messages :
     m > cursor /\ Cardinality({k \in messages : cursor < k /\ k <= m})
                     <= FetchLimit}

\* An automatic job wants the threshold it read, a manual one any message.
Skip(w, ids) ==
  IF w = AutoJob THEN MeaningfulCount(ids) < job[w].next
              ELSE MeaningfulCount(ids) = 0

\* Mutant: the cursor stays where it was.
TakePageAgain(w, page, label) ==
  IF page = {} THEN Goto(w, label)
  ELSE \E low \in page :
         /\ IsBottom(low, page)
         /\ Set(w, label, [job[w] EXCEPT !.first = IF @ = 0 THEN low ELSE @,
                                         !.ids = @ \cup page])

\* Appending a page moves the cursor to its last row.
TakePage(w, page, label) ==
  IF page = {} THEN Goto(w, label)
  ELSE \E low, high \in page :
         /\ IsBottom(low, page) /\ IsTop(high, page)
         /\ Set(w, label, [job[w] EXCEPT !.cursor = high,
                                         !.first = IF @ = 0 THEN low ELSE @,
                                         !.ids = @ \cup page])

\* One page of collectCandidate.  A page that is not full is the last one
\* and decides whether the job goes on.
CollectCandidate(w) ==
  /\ pc[w] = "collect" /\ ~stopping
  /\ LET page == Page(job[w].cursor)
         full == Cardinality(page) = FetchLimit
         ids  == job[w].ids \cup page
         skip == ids = {} \/ Skip(w, ids)
     IN \/ full /\ TakePage(w, page, "collect")
        \/ ~full /\ skip /\ Return(w)
        \/ ~full /\ ~skip /\ TakePage(w, page, "lock")
  /\ UNCHANGED <<tables, world>>

\* Mutant: the answer of pg_try_advisory_lock is not looked at.
AcquireBatchLockAnyway(w) ==
  /\ pc[w] = "lock" /\ ~stopping
  /\ holders' = holders \cup {w}
  /\ pc' = [pc EXCEPT ![w] = "check"]
  /\ UNCHANGED <<job, tables, world>>

\* pg_try_advisory_lock: a taken range ends the job, nothing waits.
AcquireBatchLock(w) ==
  /\ pc[w] = "lock" /\ ~stopping
  /\ \/ Locked(w) /\ Return(w)
     \/ /\ ~Locked(w)
        /\ holders' = holders \cup {w}
        /\ pc' = [pc EXCEPT ![w] = "check"]
        /\ UNCHANGED job
  /\ UNCHANGED <<tables, world>>

IsBatchProcessed(w) ==
  /\ pc[w] = "check" /\ ~stopping
  /\ IF Recorded(w) THEN Return(w) ELSE Goto(w, "generate")
  /\ UNCHANGED <<tables, world>>

GenerateSummary(w) ==
  /\ pc[w] = "generate" /\ ~stopping
  /\ \/ Goto(w, "reserve")
     \/ "ratelimit" \in Events /\ Goto(w, "notice")
  /\ UNCHANGED <<tables, world>>

\* The issue number is drawn before anything is published.
ReserveSummaryIssueNumber(w) ==
  /\ pc[w] = "reserve"
  /\ nextIssue' = nextIssue + 1
  /\ Answer(w, Set(w, "publish", [job[w] EXCEPT !.issue = nextIssue]))
  /\ UNCHANGED <<sourceOf, messages, batches, usage, chat, world>>

Digest(w) ==
  [rid |-> RandomID(job[w].first, job[w].cursor, job[w].issue),
   first |-> job[w].first, last |-> job[w].cursor, ids |-> job[w].ids]

\* Mutant: a refused publication is logged and ignored.
PublishIgnoringErrors(w) ==
  /\ pc[w] = "publish"
  /\ \/ posts' = posts \cup {Digest(w)}
     \/ UNCHANGED posts
  /\ Answer(w, Goto(w, "finalize"))
  /\ UNCHANGED <<tables, expired, stopping>>

\* With or without an image, every attempt carries the same random_id.
Publish(w) ==
  /\ pc[w] = "publish"
  /\ posts' = IF \E p \in posts : p.rid = Digest(w).rid
                THEN posts ELSE posts \cup {Digest(w)}
  /\ Answer(w, Goto(w, "finalize"))
  /\ UNCHANGED <<tables, expired, stopping>>

Batch(w) == [first |-> job[w].first, last |-> job[w].cursor,
             issue |-> job[w].issue]

\* The transaction with a condition for the rows that stay and one for counting.
FinalizeWith(w, rest, counted) ==
  /\ pc[w] = "finalize"
  /\ batches' = IF Recorded(w) THEN batches ELSE batches \cup {Batch(w)}
  /\ usage' = IF counted THEN usage \cup {Batch(w)} ELSE usage
  /\ messages' = rest
  /\ Answer(w, Goto(w, "reset"))
  /\ UNCHANGED <<sourceOf, nextIssue, chat, world>>

\* Mutants: the delete is one short, forgets its bound, or takes one row; the
\* usage is added without looking at the rows the insert affected.
FinalizeOneShort(w) ==
  FinalizeWith(w, {m \in messages : m >= job[w].cursor}, ~ Recorded(w))
FinalizeUnbounded(w) == FinalizeWith(w, {}, ~ Recorded(w))
FinalizeLastRowOnly(w) ==
  FinalizeWith(w, messages \ {job[w].cursor}, ~ Recorded(w))
FinalizeAlwaysCounted(w) ==
  FinalizeWith(w, {m \in messages : m > job[w].cursor}, TRUE)

\* One transaction: insert the batch unless the range is there, add it to
\* the daily usage if it was inserted, delete every row up to its end.
MarkBatchPublished(w) ==
  FinalizeWith(w, {m \in messages : m > job[w].cursor}, ~ Recorded(w))

ResetSummaryChatState(w) ==
  /\ pc[w] = "reset"
  /\ chat' = NewState
  /\ Answer(w, Return(w))
  /\ UNCHANGED <<sourceOf, messages, batches, usage, nextIssue, world>>

\* handleRateLimit: the notice, if the last one of the snapshot is an hour old.
\* Nothing depends on it: neither its failure nor the time that is stored.
PublishRateLimitNotice(w) ==
  /\ pc[w] = "notice"
  /\ Goto(w, "advance")
  /\ UNCHANGED <<tables, world>>

\* Mutant: the stored threshold is overwritten, not raised.
AdvanceOverwriting(w) ==
  /\ pc[w] = "advance"
  /\ chat' = [next |-> MeaningfulCount(job[w].ids) + BatchSize, failures |-> 0]
  /\ Answer(w, Return(w))
  /\ UNCHANGED <<sourceOf, messages, batches, usage, nextIssue, world>>

\* The stored threshold is only raised.
AdvanceSummaryChatRateLimit(w) ==
  /\ pc[w] = "advance"
  /\ LET attempt == MeaningfulCount(job[w].ids) + BatchSize
     IN chat' = [next |-> IF chat.next > attempt THEN chat.next ELSE attempt,
                 failures |-> 0]
  /\ Answer(w, Return(w))
  /\ UNCHANGED <<sourceOf, messages, batches, usage, nextIssue, world>>

\* The call a job is about to make fails and changes nothing, its timeout or
\* that of the job included.  After the cancellation every call does.
Fail(w) ==
  /\ pc[w] \notin {"idle", "failed", "notice"}
  /\ stopping \/ "error" \in Events
  /\ Throw(w)
  /\ UNCHANGED <<tables, world>>

\* runAutoSummary counts the error, unless the update fails in its turn (as
\* it does when the conversation has no row yet).
RecordAutoSummaryFailure(w) ==
  /\ pc[w] = "failed"
  /\ \/ ~stopping /\ chat' = [chat EXCEPT !.failures = @ + 1]
     \/ (stopping \/ "error" \in Events) /\ UNCHANGED chat
  /\ Goto(w, "idle")
  /\ UNCHANGED <<sourceOf, messages, batches, usage, nextIssue, world>>

\* A call that is answered, be it with an answer that is lost.
Call(w) ==
  \/ LoadState(w) \/ LastProcessedMessageID(w) \/ CollectCandidate(w)
  \/ AcquireBatchLock(w) \/ IsBatchProcessed(w) \/ GenerateSummary(w)
  \/ ReserveSummaryIssueNumber(w) \/ Publish(w) \/ MarkBatchPublished(w)
  \/ ResetSummaryChatState(w) \/ PublishRateLimitNotice(w)
  \/ AdvanceSummaryChatRateLimit(w) \/ RecordAutoSummaryFailure(w)

Step(w) == Call(w) \/ Fail(w)

-----------------------------------------------------------------------------
(* Retention, time, connections and the process.                           *)

\* A batch lives for at least a day and a job lasts minutes: what is recorded
\* while a job runs outlives the job.
Prunable ==
  {b \in batches : \A w \in Workers :
     pc[w] \notin {"idle", "state", "failed"} => b \in job[w].stored}

\* Rows expire by age, oldest first, beside running jobs.  The three deletes are
\* separate statements: any of them may not be reached, and a cleanup that others
\* interrupt between two of them is two of these steps.  The usage of a day
\* goes only after the batches of that day.
PruneExpiredData ==
  /\ "expire" \in Events
  /\ \E cut \in 0 .. Len(sourceOf), old \in SUBSET Prunable :
       /\ messages' = {m \in messages : m > cut}
       /\ expired' = expired \cup (messages \ messages')
       /\ batches' = batches \ old
       /\ \E days \in SUBSET (usage \ batches') : usage' = usage \ days
  /\ UNCHANGED <<sourceOf, nextIssue, chat, posts, holders,
                 stopping, pc, job>>

LoseLock(w) ==
  /\ "unlock" \in Events /\ w \in holders
  /\ holders' = holders \ {w}
  /\ UNCHANGED <<tables, world, pc, job>>

Shutdown ==
  /\ "shutdown" \in Events /\ ~stopping
  /\ stopping' = TRUE
  /\ UNCHANGED <<tables, posts, expired, holders, pc, job>>

\* The process is gone: after StopAndWait, or killed at any point.
Restart ==
  /\ \/ stopping /\ \A w \in Workers : pc[w] = "idle"
     \/ "crash" \in Events
  /\ stopping' = FALSE /\ holders' = {}
  /\ pc' = [w \in Workers |-> "idle"]
  /\ job' = [w \in Workers |-> NewJob]
  /\ UNCHANGED <<tables, posts, expired>>

Next ==
  \/ \E src \in 1 .. MaxId : SaveMessage(src)
  \/ \E w \in Workers : Begin(w) \/ Step(w) \/ LoseLock(w)
  \/ PruneExpiredData \/ Shutdown \/ Restart

Spec == Init /\ [][Next]_vars

\* The Go scheduler runs every job, and every call has a timeout, so each
\* call is answered or fails.  That it fails some day is assumed after the
\* cancellation only: a loop of successful calls is one.
FairSpec ==
  Spec /\ \A w \in Workers : WF_vars(Call(w) \/ (stopping /\ Fail(w)))

-----------------------------------------------------------------------------
(* Properties.                                                             *)

Ids == 1 .. Len(sourceOf)

BatchType  == [first : Nat, last : Nat, issue : Nat]
DigestType == [rid : Nat \X Nat, first : Nat, last : Nat, ids : SUBSET Ids]
LocalsType == [next : Nat, cursor : Nat, first : Nat,
               ids : SUBSET Ids, issue : Nat, stored : SUBSET BatchType]

LockedLabels == {"check", "generate", "notice", "advance", "reserve",
                 "publish", "finalize", "reset"}

TablesOK ==
  /\ sourceOf \in Seq(Nat)
  /\ messages \subseteq Ids
  /\ batches \subseteq BatchType /\ usage \subseteq BatchType
  /\ nextIssue \in Nat
  /\ chat \in [next : Nat, failures : Nat]

WorldOK ==
  /\ posts \subseteq DigestType
  /\ expired \subseteq Ids
  /\ stopping \in BOOLEAN

JobsOK ==
  /\ pc \in [Workers -> Labels]
  /\ job \in [Workers -> LocalsType]
  /\ holders \subseteq {w \in Workers : pc[w] \in LockedLabels}

\* Every variable and every local of a job keeps its type, and only a job
\* inside the locked section holds a lock.
TypeOK == TablesOK /\ WorldOK /\ JobsOK

\* A recorded batch leaves no row at or before its end: the fallback of
\* LastProcessedMessageID to 0, and the loss of batches to retention, can
\* then not bring a digested message back.
NoSurvivor == \A m \in messages, b \in batches : b.last < m

\* Forgetting follows publishing: a row that is gone was in a digest VK
\* accepted, or retention deleted it, whatever fails between the two calls.
EveryMessageAccounted ==
  \A m \in Ids :
    m \in messages \cup expired \/ \E p \in posts : m \in p.ids

\* The pipeline, with the failures its Events have, implements the promise of
\* DigestLedger (PipelineImplementsLedger: with all of them).
Ledger == INSTANCE DigestLedger
  WITH saved  <- Len(sourceOf),
       kept   <- messages,
       told   <- UNION {p.ids : p \in posts},
       lapsed <- expired

ImplementsLedger == Ledger!Spec

\* Retrying a range after an ambiguous publication, a crash or a lost lock
\* never shows its digest twice: the random_id is a function of the range.
PostedOnce == \A p, q \in posts : SameRange(p, q) => p = q

\* Each recorded digest is in the daily usage exactly once, even when two
\* jobs finalize the same range after a lost lock or one finalizes twice.
CountedOnce ==
  /\ batches \subseteq usage
  /\ \A u, v \in usage : SameRange(u, v) => u = v

\* The check made under the lock stays true until the job records its own
\* batch: no other job publishes or records the range meanwhile.
CheckedRangeStaysOpen ==
  \A w \in holders :
    /\ \A v \in holders : job[v].first = job[w].first
                          /\ job[v].cursor = job[w].cursor => v = w
    /\ pc[w] \in {"generate", "reserve", "publish", "finalize", "notice",
                  "advance"} => ~ Recorded(w)

\* The pause announced after a 429 is only ever lifted by a recorded digest:
\* a job that read the chat state earlier cannot shorten it.
PauseKept ==
  [][chat'.next < chat.next =>
       \E w \in Workers : pc[w] = "reset" /\ pc'[w] # "reset"]_vars

\* A digest never repeats a message of a range that is already recorded
\* (README.md, the manual command: a processed range is not published again).
ProcessedNotRepublished ==
  [][\A p \in posts' \ posts, b \in batches :
       \A m \in p.ids : b.last < m]_vars

\* Every job comes to its end: a job that finds its range locked does not wait
\* for the other, paging advances also when rows arrive between two pages, and
\* a cancelled job fails at its next call.
JobsFinish == \A w \in Workers : pc[w] # "idle" ~> pc[w] = "idle"
=============================================================================
