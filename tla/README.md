# Verification of vk_chat_digest_bot

The bot stores the messages of VK group conversations in PostgreSQL, lets an
LLM write a digest when enough meaningful messages are there (or when an allowed
user sends a command), publishes it and deletes the messages it covers. This
directory holds TLA+ models of the part where things can go wrong (background
jobs, the database, the publication, shutdown), the TLC runs that check them
and the TLAPS proofs about them.

## 1. Inventory

| Component (source) | State | Operations | Talks to | What is hard, and what makes it correct |
|---|---|---|---|---|
| Summary service (`internal/summary/service.go`) | none of its own; locals of `executeNext` | `ExecuteAuto`, `ExecuteManual` = `executeNext`, `handleRateLimit`, `publishWithOptionalImage` | repository, LLM, image generator, VK | ten calls, each of which may fail, be ambiguous or be cancelled, with other jobs between any two: no message lost, no range shown twice, the pause after a 429 kept |
| Storage (`internal/storage/postgres.go`) | tables `messages`, `processed_summary_batches`, `usage_daily_stats`, `summary_chat_state`, `summary_issue_counters`, `schema_migrations`; advisory locks; the pool | one method per statement or transaction | PostgreSQL | atomicity of `MarkBatchPublished`, the cursor fallback of `LastProcessedMessageID`, locks that die with their connection, issue numbers |
| Retention (`PruneExpiredData`, `app.go` cleanup goroutine) | none | daily prune in three statements | storage | races with jobs that have read the rows |
| Background jobs (`internal/app/ingestion.go`) | `lifecycleCtx`, `jobsWg`, `autoRuns` | `Start`, `startBackgroundJob`, `scheduleAutoSummary`, `runAutoSummary`, `StopAndWait` | summary service, storage | one automatic run per conversation, no lost or leaked entry, nothing started after shutdown |
| Application (`internal/app/app.go`, `cmd/bot/main.go`) | signal context, errgroup | `New`, `Run` | all | order of shutdown: handlers, jobs, pool |
| Message handling and commands (`ingestion.go`) | none | `HandleMessage`, `HandleMessageEvent`, `handleManualTrigger`, debug command | storage, VK, jobs | handlers that are retried as a whole |
| Long Poll consumer (`internal/vk/longpoll.go`) | `server`, `key`, `ts` | `Run`, `consumeLoop`, `retryUpdateHandler` | VK, handlers | expired sessions, retries, updates that are skipped |
| VK client (`internal/vk/client.go`) | sender name cache | requests | VK | ambiguous answers, `random_id` |
| Progress message (`internal/summary/progress.go`) | message ids, a ticker goroutine | start, discover, edit, stop | VK | discovery by text, two jobs at once, stop racing with discovery |
| LLM client (`internal/llm`) | none | `GenerateSummary` with retries | provider | deadline, rate limit |
| Image generation (`internal/imagegen`) | none | generate, poll, watermark | provider | polling deadline, fallback to text |
| Preparation, prompt, formatting (`internal/summary`) | none | pure functions | - | trimming, overlapping format ranges |
| Usage and pricing (`storage/usage.go`, `app/pricing.go`) | `usage_daily_stats` | sums, periods, prices | storage | totals and requests come from two tables and several statements; retention deletes one by the instant and the other by the day |
| Migrations (`postgres.go`, `migrations/`) | `schema_migrations` | `New`, `runMigrations` | PostgreSQL | starts of several instances, perhaps of different releases; a crash, a lost session or a timeout between any two statements |
| Connection pool and advisory locks (`postgres.go`) | acquired connections, session locks | `AcquireBatchLock`, unlock, every statement, `Close` | pgxpool, PostgreSQL | jobs that hold one connection and wait for another; locks that outlive their job; `Close` waits for every connection |
| Debug report and chart (`app/debug_*.go`) | none | queries, drawing | storage, VK | a report is read in eight statements while the tables change |
| Configuration, logging | none | read once at start | - | which ranges it checks: section 4 |

`PROJECT.json` lists the same components with their status and all hazards
with their source lines.

## 2. Modules

### Digest

One conversation: its rows, what VK shows, and the jobs. All statements of the
pipeline filter by `peer_id`, so conversations are independent and one is
enough. A job is one call of `executeNext`; `pc[w]` names the call it makes next
and `job[w]` holds the locals that later calls use:

| `pc` | call | action |
|---|---|---|
| `state` | `GetSummaryChatState`, retry limit | `LoadState` |
| `after` | `LastProcessedMessageID` | `LastProcessedMessageID` |
| `collect` | `ListMessagesAfterID` page by page, count check | `CollectCandidate` |
| `lock` | `AcquireBatchLock` | `AcquireBatchLock` |
| `check` | `IsBatchProcessed` | `IsBatchProcessed` |
| `generate` | previous summaries, prompt, LLM | `GenerateSummary` |
| `reserve` | `ReserveSummaryIssueNumber` | same |
| `publish` | `publishWithOptionalImage` | `Publish` |
| `finalize` | `MarkBatchPublished` (one transaction) | same |
| `reset` | `ResetSummaryChatState` | same |
| `notice`, `advance` | `handleRateLimit` | `PublishRateLimitNotice`, `AdvanceSummaryChatRateLimit` |
| `failed` | `recordAutoSummaryFailure` of an automatic job | `RecordAutoSummaryFailure` |

Every call is answered (`Call`) or fails (`Fail`), and those with an effect can take
effect while the answer is lost (`Answer`). Leaving `executeNext` always runs the
deferred unlock (`Leave`). Around the jobs: `SaveMessage` by the consumer,
`PruneExpiredData`, `LoseLock` (the
connection of an advisory lock is gone), `Shutdown` and `Restart` (also a
crash). The constant `Events` says which of these a run includes.

Retention runs beside the jobs, at any point of them. It deletes rows from the oldest
on, and any batches that are `Prunable`: a batch recorded while a job runs outlives that
job, because a retention has at least one day (`config.go:219`) and a job ends within its
deadline of some minutes. The history variable `job[w].stored` is what that takes: the
batches that were stored when the job read the chat state. All others may be deleted
while the job holds a candidate, a lock or a digest in VK.

Abstractions: row ids are 1, 2, ... in the order of insertion (the sequence is
shared by all conversations and has gaps, only its order is used); a text is
meaningful or not; prompts, texts, statistics and images are left out; an
absent row of `summary_chat_state` is its default; the two counts of meaningful
messages in `executeNext` (before and after the lock) apply the same filter to
the same rows, so they are one; the rate limit notice is a step without effect,
since nothing reads it or the time stored with it
(`last_rate_limit_notice_at` only decides whether the next one is sent); hashes
(advisory lock key, `random_id`) do not collide. VK is a set of posts that refuses a `random_id` it has seen.

### DigestLedger

What `docs/privacy.md` promises about messages: kept until a digest with them was
published, or until their retention is over. `Digest` implements it through the
mapping in `Ledger == INSTANCE DigestLedger WITH ...`.

### AutoRun

What decides *when* a job runs: the consumer goroutine that handles messages in
order, the entries `autoRuns` with their pending mark, the background goroutines
and their wait group, the retention goroutine, and `App.Run` with its deferred
`StopAndWait` and `Close`. Each critical section of `autoMu` or `lifecycleMu` is
one step. The bound `Slots` on goroutines only delays a start.

### LongPoll

How updates reach the handlers: `Run` opens sessions (`Bootstrap`, `Sleep`),
`consumeLoop` polls (`PollUpdates`, `PollOutdated` for `failed=1`, `PollError` for all
that ends the session) and works off a response update by update
(`Ignore`, `HandlerSucceeds`, `HandlerFails`, `RetryDelay`), moving `ts` after the
last one (`Finish`). VK is the number of updates so far; a new session starts at
the present, `failed=1` at a position VK chooses. `tries` and `fate` record what
happened to each update. What handlers do is in `AutoRun` and `Digest`.

### Progress

The progress message of a job: sent, found by its text (`Find`) or by editing id
after id (`BlindEdit`), edited every second (`Tick`) and deleted by `Stop`. The
conversation is a sequence of messages, and VK edits and deletes only the bot's.
The anchor of the lookup is any user message (`Start`): the last row of the candidate, which
newer messages may have followed. A text (phrase and frame) is one of `Texts`; what was sent and what it shows are
kept apart, so an edit of the wrong message is visible. VK's answer to
`messages.send` is taken to be 0, as the code expects for conversations.

### Publication and Publishing

What `Digest` does in the steps `GenerateSummary`, `ReserveSummaryIssueNumber` and
`Publish`, call by call: the LLM request with its retries (`Attempt`, `Delay`), the
image prompt (any failure is replaced by a fixed prompt), the image by one request
(OpenAI, Cloudflare: provider `single`) or by an operation that is polled (YandexART:
`operation`), the upload with its candidates (`NextCandidate`), the message with the
image and the text that follows when any of it fails. `at` names the next call,
`left` is the time until the deadline of the job in discrete units, and a call takes
what its HTTP timeout and the context allow: it is `Answered` before its limit or
`Expired` at it. Runs of the same range follow each other, with a new deadline or,
in an automatic pass, with what is left of the old one. `late`, `vkTime` and `clean` are
history variables: they name the runs the properties promise something to, and no action reads
them. `Publishing` is what `Digest` takes a run to do, and `Publication` implements it.

### Repository

The repository as a resource: what `New` does to the schema, the pool, and the locks
that live as long as a server session. `boot[i]` is where an instance is: waiting for
the migration lock, in one of the statements of `runMigrations` (`IsMigrationApplied`,
`ExecuteScript`, `RecordVersion`, `Commit`, each of which can fail), serving, stopping or
down. `task[t]` is a goroutine that uses the repository: a job asks for a connection and
the lock of its range (`AcquireForLock`, `TryBatchLock`), keeps it while its statements take
others, and unlocks; a handler or retention runs single statements. `user[c]` says who has
acquired a connection, `alive[c]` whether its session still exists, `lock[l]` which
connection owns an advisory lock. `Ghost` is the session of a client that is gone and that
the server has not noticed. An instance can be killed at any step (`Crash`), a session can
be lost under its user (`LoseConn`), the pool can close what nobody uses (`Recycle`).
`Files[i]` is how many migrations the binary of `i` has, so two instances can be of
different releases. `timeout` is `DB_QUERY_TIMEOUT > 0`: without it the context of the
deferred unlock has expired before it starts (`postgres.go:675`), and the connection
keeps the lock of the range until it is recycled.

### UsageReport

`MarkBatchPublished` records a digest and adds to the row of its day in one transaction
(`Commit`); `PruneExpiredData` deletes digests by the instant and rows by the day, in two
statements that can be interrupted (`PruneBatches`, `PruneStats`, `PruneFails`). A
report has four sections (text or image, by day or for the month), each of a statement for
the totals (`ReadTotals`) and one for the requests (`ReadRequests`), and each statement
looks at the clock for itself. `Cost` is the price of a line: every request at the rates of
its own model, the long-context rates of one model, cached tokens not charged
twice, and `None` (shown as `-`) when a model has no price or the requests do not add up
to the totals. The pictures of an image line are priced by the configured image model, and
`imagePrice` knows only `gpt-image-1-mini` (`pricing.go:97-104`): with the
default `yandex-art` (`config.go:157`, `:162`), and with Cloudflare, every image line of a
report shows `-`. `PicturePrice` is therefore a function of the models that have a price,
and `imageModel` one of `ImageModels`, chosen at the start.

`MCDigest`, `MCAutoRun`, `MCLongPoll`, `MCProgress`, `MCPublication`, `MCRepository` and
`MCUsageReport` instantiate them; `DigestProofs`, `DigestRangeProofs`, `AutoRunProofs`,
`LongPollProofs`, `PublicationProofs`, `RepositoryProofs`, `ProgressProofs` and
`UsageReportProofs` hold the proofs. Operators marked `Mutant` in the models are faulty versions of the
operator after them; each property is violated when its mutant takes that
place.

## 3. Runs

| Run | Bounds | Shows |
|---|---|---|
| `digest_concurrent` | automatic + 1 manual job, 4 rows, pages of 3, 3 issue numbers, batch of 1, failing calls, rate limits, shutdown, under fairness (0.5 million states) | types; `CheckedRangeStaysOpen`, `PauseKept`, `JobsFinish` |
| `digest_faults` | automatic + 1 manual job, 3 rows, failing calls, lost answers, dropped locks, crashes, redelivery, retention (0.75 million states) | `NoSurvivor`, `EveryMessageAccounted`, `PostedOnce`, `CountedOnce`, refinement of `DigestLedger` |
| `digest_serial` | automatic job only, 4 rows, pages of 3, all events (2.3 million states) | `ProcessedNotRepublished` holds when jobs do not overlap |
| `auto_run` | 2 conversations, 2 goroutines | `EntryHasOneOwner`, `ClosedMeansQuiet`, `ShutdownCompletes`, `SignalGetsAPass` |
| `long_poll` | 4 updates, one of them ignored, 3 retries as in the code, crashes and restarts | `HandledInOrderOnce`, `SessionComplete`, `UpdatesGetAFate`, `SignalStopsConsumer` |
| `progress` | 2 jobs one after the other, 2 texts, 5 messages, window of 3, every fault | `HoldsOwnMessage`, `PostsIntact`, `ProgressRemoved` |
| `publication` | 3 providers, 2 runs, 2 retries, 2 candidates, timeouts of 1 to 3 units, shutdown | `ShownOnce`, `FlagMatchesPost`, `TextHasTime`, refinement of `Publishing`, `RunEnds` |
| `repository` | an old and a new release, pools of 2 connections and 1, 1 and 2 migrations, a job on each and a handler, 1 range, 1 statement between lock and unlock, with and without a query timeout, kills and lost sessions | `MigrationsSerialised`, `AppliedOnceInOrder`, `ServesMigrated`, `ConnsAccounted`, `LocksFollowJobs`, `StartEnds`, `WaitsEnd`, `CloseReturns` |
| `usage_report` | 2 of 3 different digests are recorded, 6 instants on 3 days, periods of 2 days, retention of 1 or 2 days, an image model with a price and one without | `DaysComplete`, `CostIsComplete`, `QuietReportIsExact` |
| `digest_overlap`, `auto_run_lost_signal`, `progress_overlap` | small | the findings of section 6 |

Why the bounds suffice: two jobs are what overlaps: one finds the lock taken, holds an
old candidate or an old chat state while the other publishes and records; a third only
repeats this. Three rows give two ranges with the same first and different last row, and
a row that arrives last. With pages of three rows (`FetchLimit`, three times the
batch as in the code) a fourth row makes a second page that is not empty, and a row that
arrives between two pages. Three issue numbers bound the digests: two of overlapping jobs
and one after them. Retention in `digest_faults` deletes any batch that was there when the
jobs began, at every point of a job.
Four updates make responses of one to four with an ignored one inside, a gap
between two sessions and updates that arrive during a retry. Five messages make a
leftover progress message with the same text, a post behind the anchor and a
window that ends before the message. In `publication` a second run repeats the
range of one whose answer was lost, two candidates make one retry of the upload, two
retries two delays, and the limits are small enough for the deadline to come in every call. In
`repository` the pool of one connection makes a job wait for a connection while it holds
the only one, the other pool lets a lock outlive its job; two migrations in one
binary and one in the other make a start that finds a newer schema, and one that dies
between two migrations. In `usage_report` the three digests are a long request with an
image, a short one with more cached tokens than tokens, and one of a model without a price;
three days and a retention shorter than, or equal to, the period put midnight and the prune
between any two statements. `MaxIssue` bounds the jobs through the numbers they draw; `MaxId` the rows ever
inserted. No run uses symmetry.
Deadlock is not checked: without traffic the bot is idle for ever, and `App.Run`
returns.

### Fairness

`Digest!FairSpec`: for every job, weak fairness of `Call(w)`, and of `Fail(w)` once the
context is cancelled. Go schedules every goroutine, every
query runs under `queryTimeout`, the other calls under HTTP timeouts and the job's
own deadline, so a call comes to its end; that a call fails is not assumed,
except once the context is cancelled. A lock that is taken is an answer, not a wait. Nothing is assumed of messages, the shutdown
or retention. `Publication!FairSpec`: weak fairness of `Step`, the goroutine of the job. `AutoRun!FairSpec`: weak fairness of the
goroutines that exist: consumer, cleanup ticker, `App.Run`, each background job
(a pass ends because its jobs finish, `JobsFinish`, and each round digests
stored rows). Messages and signals may never come. `LongPoll!FairSpec`: the consumer
goroutine is scheduled and its calls and sleeps end; a poll may find nothing for
ever, but a cancelled one ends, because the request carries the context.
`Repository!FairSpec`: goroutines are scheduled and statements answered, failed or timed
out; the server ends the sessions of dead clients (`EndGhost`). Strong fairness is only for
two queues that are served in order: PostgreSQL grants a lock to its oldest request, and
pgxpool gives a connection to its oldest request. Nothing is assumed of starts, signals,
kills and the work that arrives.

## 4. Proofs

TLAPS proves these for every value of the constants; the bounds `MaxId`,
`MaxIssue`, `MaxRuns`, `Slots` and `MaxLen` included, so for any number of rows, jobs and
conversations.

| Theorem | States |
|---|---|
| `DigestProofs!TypeCorrect` | `Spec => []TypeOK` |
| `DigestProofs!DigestedRowsAreGone` | `Spec => []NoSurvivor` |
| `DigestProofs!NoMessageLost` | `Spec => []EveryMessageAccounted` |
| `DigestProofs!RangeShownOnce` | `Spec => []PostedOnce` |
| `DigestProofs!PipelineImplementsLedger` | `Spec => ImplementsLedger` |
| `DigestRangeProofs!PausesAreKept` | `Spec => PauseKept` |
| `DigestRangeProofs!CheckedRangesStayOpen` | `Spec => []CheckedRangeStaysOpen`, if `"unlock" \notin Events` |
| `DigestRangeProofs!RangesCountedOnce` | `Spec => []CountedOnce` |
| `DigestRangeProofs!SerialJobsDoNotRepublish` | `Spec => ProcessedNotRepublished`, if `Manual = {}` |
| `DigestRangeProofs!JobsAreBounded` | `Spec => JobsRunDown` (the safety part of `JobsFinish`) |
| `ProgressProofs!JobsHoldTheirOwn` | `Spec => []HoldsOwnMessage`, if `~Overlap` |
| `ProgressProofs!PostsStayIntact` | `Spec => []PostsIntact`, if `~Overlap` |
| `ProgressProofs!FinishedJobsLeaveNothing` | `Spec => []ProgressRemoved`, if `~Overlap` |
| `RepositoryProofs!TypeCorrect` | `Spec => []TypeOK` |
| `RepositoryProofs!ConnectionsAccounted` | `Spec => []ConnsAccounted` |
| `RepositoryProofs!MigrationsAreSerialised` | `Spec => []MigrationsSerialised` |
| `RepositoryProofs!MigrationsApplyOnce` | `Spec => []AppliedOnceInOrder` |
| `RepositoryProofs!ServesAfterMigrating` | `Spec => []ServesMigrated` |
| `RepositoryProofs!BatchLocksFollowJobs` | `Spec => []LocksFollowJobs` |
| `LongPollProofs!TypeCorrect` | `Spec => []TypeOK` |
| `LongPollProofs!HandlersRunInOrder` | `Spec => HandledInOrderOnce` |
| `LongPollProofs!SessionsAreComplete` | `Spec => []SessionComplete` |
| `PublicationProofs!TypeCorrect` | `Spec => []TypeOK` |
| `PublicationProofs!RangeShownOnce` | `Spec => []ShownOnce` |
| `PublicationProofs!FlagIsTrue` | `Spec => []FlagMatchesPost` |
| `PublicationProofs!TextInTime` | `Spec => []TextHasTime` |
| `PublicationProofs!Implementation` | `Spec => ImplementsPublishing` |
| `PublicationProofs!RunsAreBounded` | `Spec => BoundedRuns` (the safety part of `RunEnds`) |
| `UsageReportProofs!TypeCorrect` | `Spec => []Typed` |
| `UsageReportProofs!RowsComplete` | `Spec => []DaysComplete` |
| `UsageReportProofs!CostsComplete` | `Spec => []CostIsComplete` |
| `UsageReportProofs!QuietReportsExact` | `Spec => []QuietReportIsExact` |
| `AutoRunProofs!TypeCorrect` | `Spec => []TypeOK` |
| `AutoRunProofs!NothingUsesClosedRepository` | `Spec => []ClosedMeansQuiet` |
| `AutoRunProofs!AutomaticRunsSerialised` | `Spec => []EntryHasOneOwner` |

The assumptions on the constants are named in the modules. Not all of them are checked by
the program. `NewService` makes `FetchLimit` at least three batches; `config.go` refuses a
batch size or a retention that is not positive and, with images, an image timeout or a poll interval
that is not. It accepts any value of `LLM_REQUEST_TIMEOUT`, the timeout of the image prompt,
`LLM_MAX_RETRIES`, `VK_REQUEST_TIMEOUT` and the database timeouts: `TimesAssumption` and
`RetriesAssumption` of `Publication`, and the fairness of `Digest`, hold for the
defaults and for every deployment that sets them to positive values (retries: not
negative), not for one that sets 0, which means no timeout. `Repository` has
`DB_QUERY_TIMEOUT=0` as a case of its own. That providers report token counts that are not negative
(`TokensAssumption`) is taken from them.

**Digest.** `NoSurvivor` is not inductive: that no row at or before the end of a
batch survives depends on new rows getting ids beyond every cursor
(`EndsBounded`). `EveryMessageAccounted` is not inductive either: when a job
deletes up to its cursor, each deleted row must be in the digest VK accepted.
The argument of `CoverInv` is: a job has seen every stored row up to its cursor
(`NothingSkipped`; paging has no gaps, `PageHasNoGaps`, and the cursor starts at
the end of a batch, where `NoSurvivor` says no row is left, or at 0); hence a
digest contains every stored row up to its last (`DigestsCover`), for ever; and a
job that finalizes has a digest with its last row in VK
(`PublishedBeforeFinalize`), perhaps from an earlier attempt with the same
`random_id` (`PostsIdentified`). So deletion takes only rows of that digest. The
refinement uses the same invariant: publication is `Tell`, the transaction is
`Forget`, retention is `Lapse`, everything else stutters.

**Ranges, usage, pauses.** `DigestRangeProofs` extends `DigestProofs`.
`CheckedRangeStaysOpen` holds as long as no session of a lock is lost (`unlock` is that
event): a lock has one holder, and only a holder records its range. That two jobs may
finalize one range *after* a lost lock is why `CountedOnce` is proved separately, for all
events: while the batch is stored the unique index refuses it, and once retention has
removed the batch no job has a candidate that starts before its end (`UsageSettled`).
Retention removes it beside running jobs, so this needs `StoredBehind`: the batches that
were stored when a job began end before its candidate, and only those can be removed
under it. `ProcessedNotRepublished` is proved for jobs that
follow each other (without manual ones; `digest_overlap` shows that it fails
otherwise): the job that publishes collected its rows behind every batch.

**Progress.** For jobs that do not overlap (`progress_overlap` shows that they must
not), for any texts, window and conversation, the invariant `IInv` says that at most one job
runs, that behind a message that is being looked for only users have written, so the latest
match is the job's own, and that a job which edits blindly is one whose lookup failed or
whose message left the window (`~Findable`). Each action is proved to keep a `Promise`
about the conversation, from which `Bystander` derives the invariant of all other jobs. The
assumption `TextsAssumption` says that a progress text is none of the markers.

**Repository.** `ConnsAccounted` needs for every task and start that its connection is its
own, and that one without a user is alive. `MigrationsSerialised` follows from the lock: a start
whose transaction is open and whose session lives owns the migration lock. With it,
`AppliedOnceInOrder` needs that what a start has checked is recorded, and what it is about
to record is not. `ServesMigrated` follows because `recorded` only grows.

**AutoRun.** `ClosedMeansQuiet` needs that the wait group counts exactly the living
goroutines and that none starts once the context is not live;
`EntryHasOneOwner` is inductive together with the types.

**LongPoll.** `Ahead` says that no handler has seen an update after the one being
handled, after `ts` of a waiting session, or after VK's history when there is no
session, and that the tries of the update being handled are its counted
attempts. Order, single handling and the number of tries follow from it, across
sessions and restarts.

**Publication.** `ShownOnce` needs that all posts have the `random_id` of the range;
`FlagMatchesPost`, which speaks of the run that is the first to publish the range and has
lost no answer, that such a run has published nothing before its
last message (`Unpublished`); a later run, whose text VK refuses because an image is already
there, may count wrongly. `TextHasTime` is the last line of `TimeKept`, which adds
up, call by call, what the run has used of its budget: the timeouts before the call and
what VK's calls took. The refinement maps the calls up to the issue number to
`generating` and the later ones to `publishing`.

**Usage.** The counters of a day are sums over sets, which the community modules define by a
fold. That a sum over finite sets is what it should be (`SumTakes`, `SumAdds`,
`SumDisjoint`, `SumOfParts`: the sum over a union of disjoint parts is the sum of their
sums) is proved from well-foundedness of the subsets of a finite set: the smallest subset
for which a claim fails is not empty, and without the element the fold takes next it is a
smaller one. `DaysComplete` is not inductive: when the rows of old days go, nothing in it
says that their digests are gone. `IndInv` adds that a digest is recorded once
and not in the future (`Recorded`), that only digests older than the retention are missing and
a prune between its statements has left none before its cutoff (`Deleted`), and that the
days of the retention still have rows of all their digests (`Kept`). Recording
cannot write to a day that is already deleted, because a
digest is committed at most one instant after its time was read and a retention has at
least one day. `CostIsComplete` needs no invariant of the tables but that stored digests were
recorded: the comparison in `recordedLLMCostValue` makes a cost one of the right set or
hides it, whatever changed between the two statements. It compares sums: that the digests
are those counted in the row holds where no two sets of digests have the same sums, as in
the run. `QuietReportIsExact` needs
`StillRead`: while nothing happens, the totals that were read are those of the tables; the
line of the month is then a sum of rows that each count their day (`PeriodTotal`), and with
`Kept` the requests are exactly the digests recorded in the period. The assumptions are
`TokensAssumption`, `PriceAssumption` (tokens and the prices there are, are not negative; no
model needs to have one),
`TimeAssumption` (the week lies within the month, a retention has a day) and `NoneAssumption`.

**Ends.** `JobsFinish` and `RunEnds` are liveness, but that every step leads to the end is
safety. `StepsLeft` of a run of `Publication` adds up the retries, candidates, units of
polling time and single calls still ahead; each step makes it smaller, so a run has at most
`Longest` = 8 + 2 `Candidates` + 4 `MaxRetries` + `Budget` steps. `StepsLeft(w)` of a job
of `Digest` is the calls ahead plus, until the candidate is complete, the ids between its
cursor and the last one; a page has a row, so paging shrinks it (`FullPageHasRow`,
`EndsBounded`). A row that arrives while a job is before that point lengthens it by one,
and nothing but a new start does so later.

Only model-checked: liveness (`JobsFinish`, `RunEnds`, `ShutdownCompletes`,
`SignalGetsAPass`, `UpdatesGetAFate`, `SignalStopsConsumer`, `StartEnds`, `WaitsEnd`,
`CloseReturns`), because fairness and `ENABLED` are out of the prover's reach. Every other
property of a passing run is stated by a theorem, under the conditions named in the table.

## 5. What is not modelled

* The contents of texts, prompts, images and reports, the drawing of the chart, the
  keyboard of a report and the decoding of VK's and the providers' answers: pure functions of
  what they are given, without state or order; the repository tests them with examples.
* Average latencies and the numbers of posts and conversations in a report: sums like
  those of `UsageReport`, with the same statements.
* Configuration and logging: read once at the start. Section 4 says which assumptions on
  the constants the configuration checks.
* What the scripts of the migrations contain: a migration takes effect as a whole or not.
* `ListMessagesByWindow` and `AcquireWindowLock`: no code of the program calls them.
* The cache of sender names: only names in prompts depend on it.
* Hash collisions of lock keys and `random_id`; the sizes `MAX_CONTEXT_*`, which are
  configured and not enforced.

## 6. Where code and documents disagree

* `auto_run_lost_signal` - `runAutoSummary` decides to stop in one critical
  section and deletes its entry in the next (`ingestion.go:484`, `:515`). A signal
  in between is marked pending on an entry that is then deleted, against
  `CHANGELOG.md:149-150`. It waits for the next message of the conversation.
* `digest_overlap` - the candidate is read before the lock, and lock, check and
  unique index use the exact range (`service.go:154`, `:168`): two overlapping jobs
  publish the same messages twice, against `README.md:297`.
* `progress_overlap` - the progress message is found by its text
  (`progress.go:88`): of two jobs that show the same phrase one takes the other's
  message, and its own is never deleted, against `CHANGELOG.md:27-29`. In the same
  way, after a failed lookup the first id behind the anchor that can be edited is
  overwritten and deleted (`progress.go:101`), which may be a digest; `PostsIntact`
  therefore supposes that lookups work.

Three more were met while modelling; no run shows them. They are described here because the
models have them:

* The recording transaction runs under the cancelled context (`service.go:224`): a
  shutdown right after the publication leaves it unrecorded, while
  `docs/architecture.md:63` says that operations are not left half done.
* An upload tries up to six candidates with two requests each (`client.go:248`) under the
  deadline of the job, whose budget has two margins of 30 s for VK (`app.go:71-74`).
  Candidates that time out use it up, and the text that should replace the image is not
  published (`service.go:407-412`, `docs/architecture.md:108`). `TextHasTime` takes the time
  of VK's calls off its promise (`vkTime`), so nothing may be left of it for such runs.
* With a retention shorter than the 30 days of a report its cost is `-`: the digests at
  the edge are gone while their day's row is there. `QuietReportIsExact` supposes a
  retention of at least the period.

## 7. What could follow

1. `Bot`: the composition of `LongPoll`, `AutoRun` and `Digest`: what a signal
   achieves end to end, messages that wait after a restart or a lost signal, and
   handler retries that save a digested message again.
2. Pure functions against reference definitions over bounded inputs: prompt trimming and
   format ranges.
3. `Digest` on the connections of `Repository`: the loss of a lock as a consequence of the
   loss of its session, instead of an event of its own.
