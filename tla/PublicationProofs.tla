-------------------------- MODULE PublicationProofs --------------------------
(***************************************************************************)
(* Proofs about Publication, for all timeouts, retries and runs.           *)
(***************************************************************************)
EXTENDS Publication, TLAPS

\* A client waits only for another attempt, and only a job with images asks
\* for a prompt and an image; only an operation is polled.
Course ==
  /\ at \in {"llm_delay", "prompt_delay"} => attempt < MaxRetries
  /\ at \in {"prompt", "prompt_delay", "image", "poll", "upload", "photo",
             "save", "send"} => provider # "none"
  /\ at = "poll" => provider = "operation"

\* All posts of the range have its random_id, so there is at most one.
OneRange == ShownOnce /\ \A p \in posts : p.random_id = "range"

\* A run that started on an unpublished range and lost no answer has
\* published nothing before its last call.
Unpublished == at # "idle" => ~flag /\ (clean => posts = {})

\* What is left of the budget, phase by phase.
Spent(time) == left + SetupTime + time >= Budget

Timely == ~late /\ ~stopping

BeforeUpload ==
  LLMTimeout + DBTimeout + PromptTimeout + ImageTimeout + Extra

Limits ==
  /\ at = "llm" => Spent(0)
  /\ at = "reserve" => Spent(LLMTimeout)
  /\ at = "prompt" => Spent(LLMTimeout + DBTimeout)
  /\ at = "image" => Spent(LLMTimeout + DBTimeout + PromptTimeout)
  /\ at = "text" /\ provider = "none" => Spent(LLMTimeout + DBTimeout)
  /\ at \in {"upload", "photo", "save", "send", "text"} /\ provider = "single" =>
       Spent(BeforeUpload + vkTime)

TimeKept == Timely => Limits

IInv == TypeOK /\ Course /\ OneRange /\ Unpublished /\ FlagMatchesPost /\ TimeKept

LEMMA InitInv == ASSUME Init PROVE IInv
<1>1. TypeOK
  <2>1. left \in Nat /\ waited \in Nat /\ vkTime \in Nat /\ runs \in 0 .. MaxRuns
    BY RunsAssumption DEF Init
  <2>2. attempt \in 0 .. MaxRetries /\ candidate \in 0 .. (Candidates - 1)
    BY RetriesAssumption, CandidatesAssumption DEF Init
  <2>3. posts \subseteq PostType
    BY DEF Init
  <2> QED
    BY <2>1, <2>2, <2>3 DEF Init, TypeOK
<1>2. Course /\ Unpublished /\ TimeKept
  BY DEF Init, Course, Unpublished, TimeKept, Limits
<1>3. OneRange /\ FlagMatchesPost
  BY DEF Init, OneRange, ShownOnce, FlagMatchesPost
<1> QED
  BY <1>1, <1>2, <1>3 DEF IInv

LEMMA Times ==
  /\ LLMTimeout \in Nat /\ PromptTimeout \in Nat /\ ImageTimeout \in Nat
  /\ VKTimeout \in Nat /\ DBTimeout \in Nat /\ Margin \in Nat
  /\ Extra \in Nat /\ SetupTime \in Nat
BY TimesAssumption

\* The delay before another attempt.
LEMMA DelayTime ==
  ASSUME IInv, at \in {"llm_delay", "prompt_delay"}
  PROVE  /\ RetryDelay[attempt] \in Nat
         /\ attempt + 1 \in 0 .. MaxRetries
<1>1. attempt \in 0 .. MaxRetries /\ attempt < MaxRetries
  BY DEF IInv, TypeOK, Course
<1> QED
  BY <1>1, RetriesAssumption

\* A call leaves at most what was left, and takes at most its limit.
LEMMA CallTime ==
  ASSUME left \in Nat, NEW limit \in Nat, Fails(limit)
  PROVE  left' \in Nat /\ left' <= left /\ left' + limit >= left
BY DEF Fails, Answered, Expired

\* The steps of a run that publish nothing.
Quiet ==
  /\ at # "idle" /\ UNCHANGED <<posts, flag, clean>>
  /\ \/ at' # "idle" /\ outcome' = outcome
     \/ at' = "idle" /\ outcome' \in {"ratelimit", "error"}

LEMMA QuietKept ==
  ASSUME IInv, Quiet
  PROVE  OneRange' /\ Unpublished' /\ FlagMatchesPost'
BY DEF IInv, TypeOK, Quiet, OneRange, ShownOnce, Unpublished, FlagMatchesPost

LEMMA QuietSteps ==
  ASSUME IInv, [Next]_vars
  PROVE  \/ Quiet \/ Begin \/ SendImage \/ SendText \/ UNCHANGED vars
<1>1. CASE GenerateSummary
  BY <1>1 DEF GenerateSummary, Attempt, Go, Finish, Quiet, history
<1>2. CASE GenerateSummaryDelay
  BY <1>2 DEF GenerateSummaryDelay, Delay, Go, Finish, Quiet
<1>3. CASE ReserveSummaryIssueNumber
  BY <1>3 DEF ReserveSummaryIssueNumber, Go, Finish, Quiet, history
<1>4. CASE BuildSummaryImagePrompt
  BY <1>4 DEF BuildSummaryImagePrompt, Attempt, Go, Quiet, history
<1>5. CASE BuildSummaryImagePromptDelay
  BY <1>5 DEF BuildSummaryImagePromptDelay, Delay, Go, Quiet
<1>6. CASE GenerateSummaryImage \/ StartOperation
  BY <1>6 DEF GenerateSummaryImage, StartOperation, Go, Quiet, history
<1>7. CASE PollDone \/ PollAgain \/ PollDeadline
  BY <1>7 DEF PollDone, PollAgain, PollDeadline, Go, Quiet, history
<1>8. CASE GetMessagesUploadServer
  BY <1>8 DEF GetMessagesUploadServer, CallMethod, NextCandidate, Go, Quiet
<1>9. CASE UploadMessagePhoto
  BY <1>9 DEF UploadMessagePhoto, NextCandidate, Go, Quiet
<1>10. CASE SaveMessagePhoto
  BY <1>10 DEF SaveMessagePhoto, CallMethod, Go, Quiet
<1>11. CASE Shutdown
  BY <1>11 DEF Shutdown, Quiet, history
<1> QED
  BY <1>1, <1>2, <1>3, <1>4, <1>5, <1>6, <1>7, <1>8, <1>9, <1>10, <1>11
  DEF Next, Step

\* A message with the range's random_id leaves one post, and shows it.
LEMMA PostOne ==
  ASSUME OneRange, NEW form \in {"image", "text"}, Post("range", form)
  PROVE  /\ OneRange' /\ posts' # {}
         /\ posts = {} => posts' = {[random_id |-> "range", form |-> form]}
         /\ posts # {} => posts' = posts
<1> DEFINE post == [random_id |-> "range", form |-> form]
<1>1. CASE posts = {}
  <2>1. posts' = {post} /\ post.random_id = "range"
    BY <1>1 DEF Post
  <2> QED
    BY <1>1, <2>1 DEF OneRange, ShownOnce
<1>2. CASE posts # {}
  <2>1. \E p \in posts : p.random_id = "range"
    BY <1>2 DEF OneRange
  <2> QED
    BY <1>2, <2>1 DEF OneRange, ShownOnce, Post
<1> QED
  BY <1>1, <1>2

LEMMA PostTyped ==
  ASSUME posts \subseteq PostType, NEW form \in {"image", "text"},
         Post("range", form)
  PROVE  posts' \subseteq PostType
<1>1. [random_id |-> "range", form |-> form] \in PostType
  BY DEF PostType
<1>2. posts' = posts \/ posts' = posts \cup {[random_id |-> "range", form |-> form]}
  BY Zenon DEF Post
<1> QED
  BY <1>1, <1>2

LEMMA PostsKept ==
  ASSUME IInv, [Next]_vars
  PROVE  OneRange' /\ Unpublished' /\ FlagMatchesPost'
<1> USE DEF IInv
<1>1. CASE Quiet
  BY <1>1, QuietKept
<1>2. CASE Begin
  BY <1>2 DEF Begin, OneRange, ShownOnce, Unpublished, FlagMatchesPost
<1>3. CASE SendImage
  <2>1. at = "send"
    BY <1>3 DEF SendImage
  <2>2. CASE /\ Post("range", "image") /\ UNCHANGED clean
             /\ flag' = TRUE /\ Finish("ok")
    BY <2>1, <2>2, PostOne
    DEF TypeOK, OneRange, Unpublished, FlagMatchesPost, Finish
  <2>3. CASE UNCHANGED <<posts, clean>> /\ UNCHANGED flag /\ Go("text")
    BY <2>1, <2>3 DEF TypeOK, OneRange, ShownOnce, Unpublished, FlagMatchesPost, Go
  <2>4. CASE /\ Post("range", "image") /\ clean' = FALSE
             /\ UNCHANGED flag /\ Go("text")
    BY <2>1, <2>4, PostOne DEF Unpublished, FlagMatchesPost, Go
  <2> QED
    BY <1>3, <2>2, <2>3, <2>4 DEF SendImage, SendMessage, CallMethod
<1>4. CASE SendText
  <2>1. at = "text" /\ UNCHANGED flag
    BY <1>4 DEF SendText
  <2>2. CASE Post("range", "text") /\ UNCHANGED clean /\ Finish("ok")
    BY <2>1, <2>2, PostOne
    DEF TypeOK, OneRange, Unpublished, FlagMatchesPost, Finish
  <2>3. CASE UNCHANGED <<posts, clean>> /\ Finish("error")
    BY <2>1, <2>3 DEF OneRange, ShownOnce, Unpublished, FlagMatchesPost, Finish
  <2>4. CASE Post("range", "text") /\ clean' = FALSE /\ Finish("error")
    BY <2>1, <2>4, PostOne DEF Unpublished, FlagMatchesPost, Finish
  <2> QED
    BY <1>4, <2>2, <2>3, <2>4 DEF SendText, SendMessage, CallMethod
<1>5. CASE UNCHANGED vars
  BY <1>5 DEF vars, job, history, OneRange, ShownOnce, Unpublished, FlagMatchesPost
<1> QED
  BY <1>1, <1>2, <1>3, <1>4, <1>5, QuietSteps

\* Every step keeps the types and the course of the calls.
LEMMA CallsKept ==
  ASSUME IInv, [Next]_vars
  PROVE  TypeOK' /\ Course'
<1> USE Times, RetriesAssumption, CandidatesAssumption, RunsAssumption
    DEF IInv, TypeOK, Course, Go, Finish, job, progress, history
<1>1. CASE GenerateSummary
  <2>1. left' \in Nat
    BY <1>1, CallTime DEF GenerateSummary, Attempt, Fails
  <2> QED
    BY <1>1, <2>1 DEF GenerateSummary, Attempt
<1>2. CASE GenerateSummaryDelay
  BY <1>2, DelayTime DEF GenerateSummaryDelay, Delay
<1>3. CASE ReserveSummaryIssueNumber
  BY <1>3, CallTime DEF ReserveSummaryIssueNumber, Fails
<1>4. CASE BuildSummaryImagePrompt
  <2>1. left' \in Nat
    BY <1>4, CallTime DEF BuildSummaryImagePrompt, Attempt, Fails
  <2> QED
    BY <1>4, <2>1 DEF BuildSummaryImagePrompt, Attempt
<1>5. CASE BuildSummaryImagePromptDelay
  BY <1>5, DelayTime DEF BuildSummaryImagePromptDelay, Delay
<1>6. CASE GenerateSummaryImage \/ StartOperation \/ PollDone
  <2>1. left' \in Nat
    BY <1>6, CallTime
    DEF GenerateSummaryImage, StartOperation, PollDone, ImageLimit, Fails
  <2> QED
    BY <1>6, <2>1 DEF GenerateSummaryImage, StartOperation, PollDone
<1>7. CASE PollAgain \/ PollDeadline
  <2>1. left' \in Nat /\ waited' \in Nat
    BY <1>7 DEF PollAgain, PollDeadline
  <2>2. /\ UNCHANGED <<provider, runs, stopping, attempt, candidate, posts, flag,
                       late, vkTime, clean, outcome>>
        /\ at = "poll" /\ at' \in {"poll", "text"}
    BY <1>7 DEF PollAgain, PollDeadline
  <2> QED
    BY <2>1, <2>2
<1>8. CASE GetMessagesUploadServer
  <2>1. left' \in Nat /\ vkTime' \in Nat
    BY <1>8, CallTime DEF GetMessagesUploadServer, CallMethod, Fails
  <2> QED
    BY <1>8, <2>1 DEF GetMessagesUploadServer, CallMethod, NextCandidate
<1>9. CASE UploadMessagePhoto
  <2>1. left' \in Nat /\ vkTime' \in Nat
    BY <1>9, CallTime DEF UploadMessagePhoto, Fails
  <2> QED
    BY <1>9, <2>1 DEF UploadMessagePhoto, NextCandidate
<1>10. CASE SaveMessagePhoto
  <2>1. left' \in Nat /\ vkTime' \in Nat
    BY <1>10, CallTime DEF SaveMessagePhoto, CallMethod, Fails
  <2> QED
    BY <1>10, <2>1 DEF SaveMessagePhoto, CallMethod
<1>11. CASE SendImage \/ SendText
  <2>1. left' \in Nat /\ vkTime' \in Nat
    BY <1>11, CallTime DEF SendImage, SendText, SendMessage, CallMethod, Fails
  <2>2. posts' \subseteq PostType
    BY <1>11, PostTyped DEF SendImage, SendText, SendMessage, CallMethod
  <2>3. /\ UNCHANGED <<provider, runs, stopping, attempt, waited, candidate, late>>
        /\ flag' \in BOOLEAN /\ clean' \in BOOLEAN
        /\ \/ at = "send" /\ at' = "text" /\ outcome' = outcome
           \/ at' = "idle" /\ outcome' \in {"ok", "error"}
    BY <1>11 DEF SendImage, SendText, SendMessage, CallMethod
  <2> QED
    BY <2>1, <2>2, <2>3
<1>12. CASE Begin
  <2>1. left' \in Nat /\ runs' \in 0 .. MaxRuns
    BY <1>12 DEF Begin
  <2>2. clean' \in BOOLEAN
    <3>1. clean' = (posts = {})
      BY <1>12 DEF Begin
    <3> QED
      BY <3>1, Zenon
  <2>3. /\ attempt' \in 0 .. MaxRetries /\ candidate' \in 0 .. (Candidates - 1)
        /\ at' = "llm" /\ outcome' = "running" /\ UNCHANGED <<provider, posts>>
        /\ waited' \in Nat /\ vkTime' \in Nat
        /\ flag' \in BOOLEAN /\ stopping' \in BOOLEAN /\ late' \in BOOLEAN
    <3>1. attempt' = 0 /\ waited' = 0 /\ candidate' = 0 /\ vkTime' = 0
      BY <1>12 DEF Begin
    <3>2. flag' = FALSE /\ stopping' = FALSE /\ late' \in BOOLEAN
      BY <1>12, Zenon DEF Begin
    <3>3. at' = "llm" /\ outcome' = "running" /\ UNCHANGED <<provider, posts>>
      BY <1>12 DEF Begin
    <3>4. attempt' \in 0 .. MaxRetries /\ candidate' \in 0 .. (Candidates - 1)
      BY <3>1
    <3>5. waited' \in Nat /\ vkTime' \in Nat
      BY <3>1
    <3>6. flag' \in BOOLEAN /\ stopping' \in BOOLEAN /\ late' \in BOOLEAN
      BY <3>2, Zenon
    <3> QED
      BY <3>3, <3>4, <3>5, <3>6
  <2> QED
    BY <2>1, <2>2, <2>3
<1>13. CASE Shutdown
  BY <1>13 DEF Shutdown
<1>14. CASE UNCHANGED vars
  BY <1>14 DEF vars
<1> QED
  BY <1>1, <1>2, <1>3, <1>4, <1>5, <1>6, <1>7, <1>8, <1>9, <1>10, <1>11,
     <1>12, <1>13, <1>14
  DEF Next, Step

\* The budget is a sum of whole numbers.
LEMMA BudgetKept ==
  ASSUME UNCHANGED provider
  PROVE  Budget \in Nat /\ Budget' = Budget
BY Times DEF Budget

\* Sums.  (SMT proves them of numbers, but not of primed variables.)
LEMMA Sum ==
  ASSUME NEW s \in Nat, NEW b \in Nat, NEW l \in Nat, NEW t \in Nat,
         NEW k \in Nat, NEW u \in Nat, l + s + t >= b, k + u >= l + t
  PROVE  k + s + u >= b
OBVIOUS

LEMMA SumMore ==
  ASSUME NEW l \in Nat, NEW t \in Nat, NEW k \in Nat, NEW u \in Nat,
         NEW v \in Nat, k + v >= l + t
  PROVE  /\ u + t \in Nat /\ u + v \in Nat
         /\ k + (u + v) >= l + (u + t)
OBVIOUS

LEMMA SumCall ==
  ASSUME NEW l \in Nat, NEW k \in Nat, NEW u \in Nat, NEW v \in Nat, k + v >= l
  PROVE  u + v \in Nat /\ k + (u + v) >= l + u
OBVIOUS

LEMMA SumLater ==
  ASSUME NEW k \in Nat, NEW s \in Nat, NEW u \in Nat, NEW v \in Nat,
         NEW b \in Nat, k + s + u >= b
  PROVE  k + s + (u + v) >= b
OBVIOUS

LEMMA SumSetup ==
  ASSUME NEW b \in Nat, NEW k \in 0 .. b, NEW s \in Nat, ~(b - k > s)
  PROVE  k \in Nat /\ k + s + 0 >= b
OBVIOUS

\* What is taken from the time left is added to the time spent.
LEMMA SpentMore ==
  ASSUME left \in Nat, left' \in Nat, Budget \in Nat, Budget' = Budget,
         NEW time \in Nat, NEW more \in Nat,
         Spent(time), left' + more >= left + time
  PROVE  left' + SetupTime + more >= Budget'
<1>1. left + SetupTime + time >= Budget
  BY DEF Spent
<1>2. SetupTime \in Nat
  BY Times
<1> QED
  BY <1>1, <1>2, Sum

\* A call that takes at most limit.
LEMMA SpentCall ==
  ASSUME left \in Nat, Budget \in Nat, Budget' = Budget,
         NEW time \in Nat, NEW limit \in Nat, Spent(time), Fails(limit)
  PROVE  left' + SetupTime + (time + limit) >= Budget'
<1>1. left' \in Nat /\ left' + limit >= left
  BY CallTime
<1>2. time + limit \in Nat /\ left' + (time + limit) >= left + time
  BY <1>1, SumCall
<1> QED
  BY <1>1, <1>2, SpentMore

\* The time of VK calls is counted.
VKCalled ==
  \E limit \in {VKTimeout, 2 * VKTimeout} : vkTime' = vkTime + limit /\ Fails(limit)

LEMMA VKTime ==
  ASSUME left \in Nat, vkTime \in Nat, VKCalled
  PROVE  vkTime' \in Nat /\ left' \in Nat /\ left' + vkTime' >= left + vkTime
<1>1. PICK limit \in {VKTimeout, 2 * VKTimeout} :
        vkTime' = vkTime + limit /\ Fails(limit)
  BY DEF VKCalled
<1>2. limit \in Nat
  BY Times
<1> QED
  BY <1>1, <1>2, CallTime

\* A VK call of the upload keeps the limit.
LEMMA VKLimits ==
  ASSUME left \in Nat, vkTime \in Nat, Budget \in Nat, Budget' = Budget,
         UNCHANGED provider, provider # "none", VKCalled, Limits,
         at \in {"upload", "photo", "save", "send"},
         at' \in {"upload", "photo", "save", "send", "text", "idle"}
  PROVE  Limits'
<1>1. CASE provider # "single"
  BY <1>1 DEF Limits
<1>2. CASE provider = "single"
  <2>1. Spent(BeforeUpload + vkTime)
    BY <1>2 DEF Limits
  <2>2. vkTime' \in Nat /\ left' \in Nat /\ left' + vkTime' >= left + vkTime
    BY VKTime
  <2>3. BeforeUpload \in Nat
    BY Times DEF BeforeUpload
  <2>4. /\ BeforeUpload + vkTime \in Nat /\ BeforeUpload + vkTime' \in Nat
        /\ left' + (BeforeUpload + vkTime') >= left + (BeforeUpload + vkTime)
    BY <2>2, <2>3, SumMore
  <2>5. left' + SetupTime + (BeforeUpload + vkTime') >= Budget'
    BY <2>1, <2>2, <2>4, SpentMore
  <2>6. Spent(BeforeUpload + vkTime)'
    BY <2>5 DEF Spent, BeforeUpload
  <2> QED
    BY <1>2, <2>6 DEF Limits
<1> QED
  BY <1>1, <1>2

\* Every call stays within the time that the budget has for it.
LEMMA TimesKept ==
  ASSUME IInv, [Next]_vars
  PROVE  TimeKept'
<1>1. left \in Nat /\ vkTime \in Nat /\ UNCHANGED provider
  BY DEF IInv, TypeOK, Next, Step, GenerateSummary, GenerateSummaryDelay, Begin,
     ReserveSummaryIssueNumber, BuildSummaryImagePrompt,
     BuildSummaryImagePromptDelay, GenerateSummaryImage, StartOperation,
     PollDone, PollAgain, PollDeadline, GetMessagesUploadServer,
     UploadMessagePhoto, SaveMessagePhoto, SendImage, SendText, Attempt, Delay,
     Shutdown, vars, job
<1>2. Budget \in Nat /\ Budget' = Budget
  BY <1>1, BudgetKept
<1>3. Course /\ (Timely => Limits)
  BY DEF IInv, TimeKept
<1> SUFFICES ASSUME Timely'
             PROVE  Limits'
  BY DEF TimeKept
<1>4. CASE GenerateSummary
  <2>1. /\ at = "llm" /\ at' \in {"llm_delay", "reserve", "idle"}
        /\ Fails(LLMTimeout) /\ UNCHANGED <<late, stopping>>
    BY <1>4 DEF GenerateSummary, Attempt, Fails, Go, Finish, job, history
  <2>2. Spent(0) /\ 0 \in Nat /\ LLMTimeout \in Nat
    BY <1>3, <2>1, Times DEF Timely, Limits
  <2>3. left' + SetupTime + (0 + LLMTimeout) >= Budget'
    BY <1>1, <1>2, <2>1, <2>2, SpentCall
  <2>4. Spent(LLMTimeout)'
    BY <2>2, <2>3 DEF Spent
  <2> QED
    BY <2>1, <2>4 DEF Limits
<1>5. CASE GenerateSummaryDelay \/ BuildSummaryImagePromptDelay
  BY <1>5 DEF GenerateSummaryDelay, BuildSummaryImagePromptDelay, Delay, Timely
<1>6. CASE ReserveSummaryIssueNumber
  <2>1. /\ at = "reserve" /\ Fails(DBTimeout) /\ UNCHANGED <<late, stopping>>
        /\ \/ at' = "text" /\ provider' = "none"
           \/ at' \in {"prompt", "idle"}
    BY <1>6 DEF ReserveSummaryIssueNumber, Fails, Go, Finish, job, history
  <2>2. Spent(LLMTimeout) /\ LLMTimeout \in Nat /\ DBTimeout \in Nat
    BY <1>3, <2>1, Times DEF Timely, Limits
  <2>3. left' + SetupTime + (LLMTimeout + DBTimeout) >= Budget'
    BY <1>1, <1>2, <2>1, <2>2, SpentCall
  <2>4. Spent(LLMTimeout + DBTimeout)'
    BY <2>3 DEF Spent
  <2> QED
    BY <2>1, <2>4 DEF Limits
<1>7. CASE BuildSummaryImagePrompt
  <2>1. /\ at = "prompt" /\ at' \in {"prompt_delay", "image"}
        /\ Fails(PromptTimeout) /\ UNCHANGED <<late, stopping>>
    BY <1>7 DEF BuildSummaryImagePrompt, Attempt, Fails, Go, job, history
  <2>2. Spent(LLMTimeout + DBTimeout)
    BY <1>3, <2>1 DEF Timely, Limits
  <2>3. LLMTimeout + DBTimeout \in Nat /\ PromptTimeout \in Nat
    BY Times
  <2>4. left' + SetupTime + (LLMTimeout + DBTimeout + PromptTimeout) >= Budget'
    BY <1>1, <1>2, <2>1, <2>2, <2>3, SpentCall
  <2>5. Spent(LLMTimeout + DBTimeout + PromptTimeout)'
    BY <2>4 DEF Spent
  <2> QED
    BY <2>1, <2>5 DEF Limits
<1>8. CASE GenerateSummaryImage
  <2>1. /\ at = "image" /\ at' \in {"upload", "text"} /\ provider' = "single"
        /\ Fails(ImageLimit) /\ UNCHANGED <<late, stopping, vkTime>>
    BY <1>1, <1>8 DEF GenerateSummaryImage, Fails, Go, job, history
  <2>2. Spent(LLMTimeout + DBTimeout + PromptTimeout)
    BY <1>3, <2>1 DEF Timely, Limits
  <2>3. /\ LLMTimeout + DBTimeout + PromptTimeout \in Nat
        /\ ImageLimit \in Nat
    BY Times DEF ImageLimit
  <2>4. left' + SetupTime + (LLMTimeout + DBTimeout + PromptTimeout + ImageLimit)
          >= Budget'
    BY <1>1, <1>2, <2>1, <2>2, <2>3, SpentCall
  <2>5. left' \in Nat
    BY <1>1, <2>1, <2>3, CallTime
  <2>6. /\ LLMTimeout + DBTimeout + PromptTimeout + ImageLimit = BeforeUpload
        /\ BeforeUpload \in Nat
    BY Times DEF BeforeUpload, ImageLimit
  <2>7. left' + SetupTime + BeforeUpload >= Budget'
    BY <2>4, <2>6
  <2>8. left' + SetupTime + (BeforeUpload + vkTime') >= Budget'
    BY <1>1, <1>2, <2>1, <2>5, <2>6, <2>7, Times, SumLater
  <2>9. Spent(BeforeUpload + vkTime)'
    BY <2>8 DEF Spent, BeforeUpload
  <2> QED
    BY <2>1, <2>9 DEF Limits
<1>9. CASE StartOperation
  BY <1>1, <1>9 DEF StartOperation, Limits, Go
<1>10. CASE PollDone \/ PollAgain \/ PollDeadline
  <2>1. provider' = "operation" /\ at' \in {"poll", "upload", "text"}
    BY <1>1, <1>3, <1>10 DEF PollDone, PollAgain, PollDeadline, Course, Go
  <2> QED
    BY <2>1 DEF Limits
<1>11. CASE GetMessagesUploadServer \/ UploadMessagePhoto \/ SaveMessagePhoto
              \/ SendImage
  <2>1. VKCalled
    BY <1>11
    DEF GetMessagesUploadServer, UploadMessagePhoto, SaveMessagePhoto, SendImage,
        SendMessage, CallMethod, VKCalled, Fails
  <2>2. /\ at \in {"upload", "photo", "save", "send"}
        /\ at' \in {"upload", "photo", "save", "send", "text", "idle"}
        /\ UNCHANGED <<late, stopping>>
    BY <1>11
    DEF GetMessagesUploadServer, UploadMessagePhoto, SaveMessagePhoto, SendImage,
        SendMessage, CallMethod, NextCandidate, Go, Finish, job
  <2>3. provider # "none" /\ Limits
    BY <1>3, <2>2 DEF Course, Timely
  <2> QED
    BY <1>1, <1>2, <2>1, <2>2, <2>3, VKLimits
<1>12. CASE SendText
  <2>1. at' = "idle"
    BY <1>12 DEF SendText, SendMessage, CallMethod, Finish
  <2> QED
    BY <2>1 DEF Limits
<1>13. CASE Begin
  <2>1. at' = "llm"
    BY <1>13 DEF Begin
  <2>2. left' \in 0 .. Budget /\ ~(Budget - left' > SetupTime)
    BY <1>13 DEF Begin, Timely
  <2>3. left' + SetupTime + 0 >= Budget'
    BY <1>2, <2>2, Times, SumSetup
  <2>4. Spent(0)'
    BY <2>3 DEF Spent
  <2> QED
    BY <2>1, <2>4 DEF Limits
<1>14. CASE Shutdown
  BY <1>14 DEF Shutdown, Timely
<1>15. CASE UNCHANGED vars
  <2>1. UNCHANGED <<at, left, provider, late, stopping, vkTime>>
    BY <1>15 DEF vars, job, history
  <2>2. Limits
    BY <1>3, <2>1 DEF Timely
  <2> QED
    BY <1>2, <2>1, <2>2 DEF Limits, Spent
<1> QED
  BY <1>4, <1>5, <1>6, <1>7, <1>8, <1>9, <1>10, <1>11, <1>12, <1>13, <1>14,
     <1>15
  DEF Next, Step

LEMMA Invariance == Spec => []IInv
<1>1. ASSUME IInv, [Next]_vars PROVE IInv'
  BY <1>1, CallsKept, PostsKept, TimesKept DEF IInv
<1> QED
  BY InitInv, <1>1, PTL DEF Spec

-----------------------------------------------------------------------------
(* Theorems.                                                               *)

\* The types of a run's variables: attempts and candidates stay within their
\* bounds, for any timeouts and numbers of retries.
THEOREM TypeCorrect == Spec => []TypeOK
<1>1. IInv => TypeOK
  BY DEF IInv
<1> QED
  BY <1>1, Invariance, PTL

\* The fallback to text and repeated runs show a range once.
THEOREM RangeShownOnce == Spec => []ShownOnce
<1>1. IInv => ShownOnce
  BY DEF IInv, OneRange
<1> QED
  BY <1>1, Invariance, PTL

\* The run that is the first to publish the range, and lost no answer, counts
\* its digest as one with an image exactly if it has one.
THEOREM FlagIsTrue == Spec => []FlagMatchesPost
<1>1. IInv => FlagMatchesPost
  BY DEF IInv
<1> QED
  BY <1>1, Invariance, PTL

\* The deadline of a job leaves its margins to the text, whatever the timeouts.
THEOREM TextInTime == Spec => []TextHasTime
<1>1. ASSUME IInv PROVE TextHasTime
  <2>1. left \in Nat /\ vkTime \in Nat
    BY <1>1 DEF IInv, TypeOK
  <2>2. CASE provider = "none"
    BY <1>1, <2>1, <2>2, Times DEF IInv, TimeKept, Timely, Limits, Spent, BeforeUpload, Budget, TextHasTime
  <2>3. CASE provider = "single"
    BY <1>1, <2>1, <2>3, Times DEF IInv, TimeKept, Timely, Limits, Spent, BeforeUpload, Budget, TextHasTime
  <2> QED
    BY <2>2, <2>3 DEF TextHasTime
<1> QED
  BY <1>1, Invariance, PTL

\* Where a run is, for Publishing.
Phase ==
  IF outcome # "running" THEN outcome
    ELSE IF at \in {"llm", "llm_delay", "reserve"} THEN "generating" ELSE "publishing"

LEMMA AbstractStep ==
  ASSUME IInv, [Next]_vars
  PROVE  [Abstract!Next]_(Abstract!vars)
<1> DEFINE generates == at \in {"llm", "llm_delay", "reserve"}
           shown == posts # {}
<1> USE DEF Phase
<1>1. TypeOK
  BY DEF IInv
<1>2. CASE GenerateSummary \/ GenerateSummaryDelay \/ ReserveSummaryIssueNumber
  <2>1. /\ generates /\ UNCHANGED posts
        /\ \/ generates' /\ UNCHANGED outcome
           \/ at' \in {"text", "prompt"} /\ UNCHANGED outcome
           \/ at' = "idle" /\ outcome' \in {"error", "ratelimit"}
    BY <1>2
    DEF GenerateSummary, GenerateSummaryDelay, ReserveSummaryIssueNumber, Attempt,
        Delay, Go, Finish
  <2>2. Phase = "generating"
    BY <1>1, <2>1 DEF TypeOK
  <2>3. Phase' \in {"generating", "publishing", "error", "ratelimit"}
    BY <1>1, <2>1 DEF TypeOK
  <2> QED
    BY <2>1, <2>2, <2>3
    DEF Abstract!Next, Abstract!vars, Abstract!Generate, Abstract!GiveUp
<1>3. CASE BuildSummaryImagePrompt \/ BuildSummaryImagePromptDelay
             \/ GenerateSummaryImage \/ StartOperation \/ PollDone \/ PollAgain
             \/ PollDeadline \/ GetMessagesUploadServer \/ UploadMessagePhoto
             \/ SaveMessagePhoto
  <2>1. UNCHANGED <<posts, outcome>>
    BY <1>3
    DEF BuildSummaryImagePrompt, BuildSummaryImagePromptDelay,
        GenerateSummaryImage, StartOperation, PollDone, PollAgain, PollDeadline,
        GetMessagesUploadServer, UploadMessagePhoto, SaveMessagePhoto, Attempt,
        Delay, CallMethod, NextCandidate, Go
  <2>2. /\ at \notin {"idle", "llm", "llm_delay", "reserve"}
        /\ at' \notin {"llm", "llm_delay", "reserve"}
    BY <1>3
    DEF BuildSummaryImagePrompt, BuildSummaryImagePromptDelay,
        GenerateSummaryImage, StartOperation, PollDone, PollAgain, PollDeadline,
        GetMessagesUploadServer, UploadMessagePhoto, SaveMessagePhoto, Attempt,
        Delay, CallMethod, NextCandidate, Go
  <2> QED
    BY <2>1, <2>2 DEF Abstract!vars
<1>4. CASE SendImage \/ SendText
  <2>1. /\ at \in {"send", "text"}
        /\ \/ at' = "text" /\ UNCHANGED outcome
           \/ at' = "idle" /\ outcome' \in {"ok", "error"}
    BY <1>4 DEF SendImage, SendText, SendMessage, CallMethod, Go, Finish
  <2>2. shown' \/ (UNCHANGED posts /\ outcome' \in {outcome, "error"})
    BY <1>4, PostOne
    DEF IInv, SendImage, SendText, SendMessage, CallMethod, Go, Finish
  <2>3. Phase = "publishing" /\ outcome = "running"
    BY <1>1, <2>1 DEF TypeOK
  <2>4. Phase' \in {"publishing", "ok", "error"}
    BY <2>1, <2>3
  <2>5. CASE shown'
    BY <2>3, <2>4, <2>5 DEF Abstract!Next, Abstract!Show
  <2>6. CASE UNCHANGED posts /\ outcome' \in {outcome, "error"}
    BY <2>1, <2>3, <2>6 DEF Abstract!Next, Abstract!vars, Abstract!Fail
  <2> QED
    BY <2>2, <2>5, <2>6
<1>5. CASE Begin
  <2>1. at = "idle" /\ at' = "llm" /\ outcome' = "running" /\ UNCHANGED posts
    BY <1>5 DEF Begin
  <2>2. Phase \in {"none", "ok", "error", "ratelimit"} /\ Phase' = "generating"
    BY <1>1, <2>1 DEF TypeOK
  <2> QED
    BY <2>1, <2>2 DEF Abstract!Next, Abstract!Begin, Abstract!Ended
<1>6. CASE Shutdown \/ UNCHANGED vars
  BY <1>6 DEF Shutdown, vars, Abstract!vars
<1> QED
  BY <1>2, <1>3, <1>4, <1>5, <1>6 DEF Next, Step

\* A run of the calls is a run as Digest sees it: a rate limit leaves the range
\* unpublished and is never that of the image prompt, and success means that
\* VK has shown the digest.
THEOREM Implementation == Spec => ImplementsPublishing
<1>1. Init => Abstract!Init
  BY DEF Init, Abstract!Init
<1>2. IInv /\ [Next]_vars => [Abstract!Next]_(Abstract!vars)
  BY AbstractStep
<1> QED
  BY <1>1, <1>2, Invariance, PTL DEF Spec, ImplementsPublishing, Abstract!Spec

-----------------------------------------------------------------------------
(* How long a run is.                                                      *)

\* What a run can still do: candidates to try, time to poll in, attempts and
\* the delays before them, and the calls that come once.
StepsLeft ==
  LET uploads == 2 * (Candidates - candidate)
      image   == 5 + 2 * Candidates + left
      retries == 2 * (MaxRetries - attempt)
      reserve == image + 2 * MaxRetries + 2
  IN CASE at = "idle"  -> 0
       [] at = "text"  -> 1
       [] at = "send"  -> 2
       [] at = "save"  -> 3
       [] at = "photo"  -> uploads + 2
       [] at = "upload" -> uploads + 3
       [] at = "poll"   -> image - 1
       [] at = "image"  -> image
       [] at = "prompt_delay" -> image + retries
       [] at = "prompt"       -> image + retries + 1
       [] at = "reserve"      -> reserve
       [] at = "llm_delay"    -> reserve + retries
       [] at = "llm"          -> reserve + retries + 1

Longest == 8 + 2 * Candidates + 4 * MaxRetries + Budget

LEMMA BudgetType == Budget \in Nat /\ Budget' \in Nat
BY Times DEF Budget

LEMMA StepsLeftRange ==
  ASSUME TypeOK, left <= Budget
  PROVE  StepsLeft \in 0 .. Longest /\ (StepsLeft = 0 <=> at = "idle")
<1>1. PICK c \in Nat, m \in Nat, b \in Nat : c = Candidates /\ m = MaxRetries /\ b = Budget
  BY RetriesAssumption, CandidatesAssumption, BudgetType
<1>2. PICK l \in 0 .. b, a \in 0 .. m, k \in 0 .. (c - 1) :
        l = left /\ a = attempt /\ k = candidate
  BY <1>1 DEF TypeOK
<1>3. PICK n \in Nat : n = Longest /\ n = 8 + 2 * c + 4 * m + b
  BY <1>1 DEF Longest
<1>4. CASE at = "idle"
  BY <1>3, <1>4 DEF StepsLeft
<1>5. CASE at \in {"text", "send", "save"}
  <2>1. StepsLeft \in 1 .. 3
    BY <1>5 DEF StepsLeft
  <2> QED
    BY <1>3, <1>5, <2>1
<1>6. CASE at \in {"photo", "upload"}
  <2>1. StepsLeft = 2 * (c - k) + 2 \/ StepsLeft = 2 * (c - k) + 3
    BY <1>1, <1>2, <1>6 DEF StepsLeft
  <2>2. 2 * (c - k) + 2 \in 1 .. n /\ 2 * (c - k) + 3 \in 1 .. n
    BY <1>2, <1>3
  <2> QED
    BY <1>3, <1>6, <2>1, <2>2
<1>7. CASE at \in {"poll", "image"}
  <2>1. StepsLeft = 5 + 2 * c + l - 1 \/ StepsLeft = 5 + 2 * c + l
    BY <1>1, <1>2, <1>7 DEF StepsLeft
  <2>2. 5 + 2 * c + l - 1 \in 1 .. n /\ 5 + 2 * c + l \in 1 .. n
    BY <1>2, <1>3
  <2> QED
    BY <1>3, <1>7, <2>1, <2>2
<1>8. CASE at \in {"prompt", "prompt_delay"}
  <2>1. \/ StepsLeft = 5 + 2 * c + l + 2 * (m - a)
        \/ StepsLeft = 5 + 2 * c + l + 2 * (m - a) + 1
    BY <1>1, <1>2, <1>8 DEF StepsLeft
  <2>2. /\ 5 + 2 * c + l + 2 * (m - a) \in 1 .. n
        /\ 5 + 2 * c + l + 2 * (m - a) + 1 \in 1 .. n
    BY <1>2, <1>3
  <2> QED
    BY <1>3, <1>8, <2>1, <2>2
<1>9. CASE at = "reserve"
  <2>1. StepsLeft = 5 + 2 * c + l + 2 * m + 2
    BY <1>1, <1>2, <1>9 DEF StepsLeft
  <2>2. 5 + 2 * c + l + 2 * m + 2 \in 1 .. n
    BY <1>2, <1>3
  <2> QED
    BY <1>3, <1>9, <2>1, <2>2
<1>10. CASE at \in {"llm", "llm_delay"}
  <2>1. \/ StepsLeft = 5 + 2 * c + l + 2 * m + 2 + 2 * (m - a)
        \/ StepsLeft = 5 + 2 * c + l + 2 * m + 2 + 2 * (m - a) + 1
    BY <1>1, <1>2, <1>10 DEF StepsLeft
  <2>2. /\ 5 + 2 * c + l + 2 * m + 2 + 2 * (m - a) \in 1 .. n
        /\ 5 + 2 * c + l + 2 * m + 2 + 2 * (m - a) + 1 \in 1 .. n
    BY <1>2, <1>3
  <2> QED
    BY <1>3, <1>10, <2>1, <2>2
<1> QED
  BY <1>4, <1>5, <1>6, <1>7, <1>8, <1>9, <1>10 DEF TypeOK

\* Time only passes, in every call and in every delay.
LEMMA TimePasses ==
  ASSUME IInv, Step
  PROVE  left' \in Nat /\ left' <= left
<1>1. left \in Nat
  BY DEF IInv, TypeOK
<1>2. \A limit \in Nat : Fails(limit) => left' \in Nat /\ left' <= left
  BY <1>1, CallTime
<1>3. CASE GenerateSummary \/ BuildSummaryImagePrompt
  BY <1>2, <1>3, Times DEF GenerateSummary, BuildSummaryImagePrompt, Attempt, Fails
<1>4. CASE GenerateSummaryDelay \/ BuildSummaryImagePromptDelay
  <2>1. RetryDelay[attempt] \in Nat
    BY <1>4, DelayTime DEF GenerateSummaryDelay, BuildSummaryImagePromptDelay
  <2> QED
    BY <1>1, <1>4, <2>1
    DEF GenerateSummaryDelay, BuildSummaryImagePromptDelay, Delay
<1>5. CASE ReserveSummaryIssueNumber
  BY <1>2, <1>5, Times DEF ReserveSummaryIssueNumber, Fails
<1>6. CASE GenerateSummaryImage \/ StartOperation \/ PollDone
  <2>1. ImageLimit \in Nat
    BY Times DEF ImageLimit
  <2> QED
    BY <1>2, <1>6, <2>1 DEF GenerateSummaryImage, StartOperation, PollDone, Fails
<1>7. CASE PollAgain \/ PollDeadline
  BY <1>1, <1>7 DEF PollAgain, PollDeadline
<1>8. CASE GetMessagesUploadServer \/ UploadMessagePhoto \/ SaveMessagePhoto
             \/ SendImage \/ SendText
  <2>1. VKTimeout \in Nat /\ 2 * VKTimeout \in Nat
    BY Times
  <2> QED
    BY <1>2, <1>8, <2>1
    DEF GetMessagesUploadServer, UploadMessagePhoto, SaveMessagePhoto, SendImage,
        SendText, SendMessage, CallMethod, Fails
<1> QED
  BY <1>3, <1>4, <1>5, <1>6, <1>7, <1>8 DEF Step

LEMMA StepsShrink ==
  ASSUME IInv, Step
  PROVE  StepsLeft' < StepsLeft
<1>1. /\ left \in Nat /\ attempt \in 0 .. MaxRetries /\ candidate \in 0 .. (Candidates - 1)
      /\ MaxRetries \in Nat /\ Candidates \in Nat \ {0}
  BY RetriesAssumption, CandidatesAssumption DEF IInv, TypeOK
<1>2. left' \in Nat /\ left' <= left
  BY TimePasses
<1>3. CASE GenerateSummary
  <2>1. at = "llm" /\ UNCHANGED <<attempt, candidate>>
    BY <1>3 DEF GenerateSummary, Attempt, progress
  <2>2. at' \in {"llm_delay", "reserve", "idle"}
    BY <1>3 DEF GenerateSummary, Attempt, Go, Finish
  <2> QED
    BY <1>1, <1>2, <2>1, <2>2 DEF StepsLeft
<1>4. CASE GenerateSummaryDelay
  <2>1. at = "llm_delay" /\ UNCHANGED candidate /\ attempt < MaxRetries
    BY <1>4 DEF GenerateSummaryDelay, Delay, IInv, Course
  <2>2. at' = "idle" \/ (at' = "llm" /\ attempt' = attempt + 1)
    BY <1>4 DEF GenerateSummaryDelay, Delay, Go, Finish
  <2> QED
    BY <1>1, <1>2, <2>1, <2>2 DEF StepsLeft
<1>5. CASE ReserveSummaryIssueNumber
  <2>1. at = "reserve" /\ UNCHANGED candidate /\ attempt' = 0
    BY <1>5 DEF ReserveSummaryIssueNumber
  <2>2. at' \in {"text", "prompt", "idle"}
    BY <1>5 DEF ReserveSummaryIssueNumber, Go, Finish
  <2> QED
    BY <1>1, <1>2, <2>1, <2>2 DEF StepsLeft
<1>6. CASE BuildSummaryImagePrompt
  <2>1. at = "prompt" /\ UNCHANGED <<attempt, candidate>>
    BY <1>6 DEF BuildSummaryImagePrompt, Attempt, progress
  <2>2. at' \in {"prompt_delay", "image"}
    BY <1>6 DEF BuildSummaryImagePrompt, Attempt, Go
  <2> QED
    BY <1>1, <1>2, <2>1, <2>2 DEF StepsLeft
<1>7. CASE BuildSummaryImagePromptDelay
  <2>1. at = "prompt_delay" /\ UNCHANGED candidate /\ attempt < MaxRetries
    BY <1>7 DEF BuildSummaryImagePromptDelay, Delay, IInv, Course
  <2>2. \/ at' = "image" /\ UNCHANGED attempt
        \/ at' = "prompt" /\ attempt' = attempt + 1
    BY <1>7 DEF BuildSummaryImagePromptDelay, Delay, Go
  <2> QED
    BY <1>1, <1>2, <2>1, <2>2 DEF StepsLeft
<1>8. CASE GenerateSummaryImage \/ StartOperation
  <2>1. /\ at = "image" /\ UNCHANGED <<attempt, candidate>>
        /\ at' \in {"upload", "poll", "text"}
    BY <1>8 DEF GenerateSummaryImage, StartOperation, progress, Go
  <2> QED
    BY <1>1, <1>2, <2>1 DEF StepsLeft
<1>9. CASE PollDone \/ PollDeadline
  <2>1. /\ at = "poll" /\ UNCHANGED <<attempt, candidate>>
        /\ at' \in {"upload", "text"}
    BY <1>9 DEF PollDone, PollDeadline, progress, Go
  <2> QED
    BY <1>1, <1>2, <2>1 DEF StepsLeft
<1>10. CASE PollAgain
  <2>1. at = "poll" /\ at' = "poll" /\ left' < left /\ UNCHANGED <<attempt, candidate>>
    BY <1>1, <1>10 DEF PollAgain, Go
  <2> QED
    BY <1>1, <1>2, <2>1 DEF StepsLeft
<1>11. CASE GetMessagesUploadServer
  <2>1. /\ at = "upload"
        /\ \/ at' = "photo" /\ UNCHANGED candidate
           \/ at' = "upload" /\ candidate' = candidate + 1
           \/ at' = "text" /\ UNCHANGED candidate
    BY <1>11 DEF GetMessagesUploadServer, CallMethod, NextCandidate, Go
  <2> QED
    BY <1>1, <2>1 DEF StepsLeft
<1>12. CASE UploadMessagePhoto
  <2>1. /\ at = "photo"
        /\ \/ at' = "save" /\ UNCHANGED candidate
           \/ at' = "upload" /\ candidate' = candidate + 1
           \/ at' = "text" /\ UNCHANGED candidate
    BY <1>12 DEF UploadMessagePhoto, NextCandidate, Go
  <2> QED
    BY <1>1, <2>1 DEF StepsLeft
<1>13. CASE SaveMessagePhoto \/ SendImage \/ SendText
  <2>1. \/ at = "save" /\ at' \in {"send", "text"}
        \/ at = "send" /\ at' \in {"idle", "text"}
        \/ at = "text" /\ at' = "idle"
    BY <1>13 DEF SaveMessagePhoto, SendImage, SendText, SendMessage, CallMethod, Go, Finish
  <2> QED
    BY <2>1 DEF StepsLeft
<1> QED
  BY <1>3, <1>4, <1>5, <1>6, <1>7, <1>8, <1>9, <1>10, <1>11, <1>12, <1>13 DEF Step

\* The safety part of RunEnds.  A run has at most Longest steps, for any number
\* of retries and candidates, whatever fails: each makes StepsLeft smaller, and
\* neither the shutdown nor anything else but a new run makes it larger.
BoundedRuns ==
  /\ [](StepsLeft \in 0 .. Longest /\ (StepsLeft = 0 <=> at = "idle"))
  /\ [][/\ Step => StepsLeft' < StepsLeft
        /\ Shutdown => StepsLeft' <= StepsLeft]_vars

\* Every run is that short: the text retries, the image retries and the polls
\* do not feed each other, and a failed candidate is not tried again.
THEOREM RunsAreBounded == Spec => BoundedRuns
<1> DEFINE Inv == IInv /\ left <= Budget
<1>1. Init => Inv
  <2> SUFFICES ASSUME Init PROVE Inv
    OBVIOUS
  <2>1. left = 0
    BY DEF Init
  <2> QED
    BY <2>1, InitInv, BudgetType
<1>2. ASSUME Inv, [Next]_vars, IInv' PROVE Inv'
  <2>1. left \in Nat /\ left <= Budget /\ Budget \in Nat /\ Budget' \in Nat
    BY <1>2, BudgetType DEF IInv, TypeOK
  <2>2. CASE Begin
    BY <1>2, <2>1, <2>2 DEF Begin, Budget
  <2>3. CASE Step
    <3>1. UNCHANGED provider
      BY <2>3
      DEF Step, GenerateSummary, GenerateSummaryDelay, ReserveSummaryIssueNumber,
          BuildSummaryImagePrompt, BuildSummaryImagePromptDelay, GenerateSummaryImage,
          StartOperation, PollDone, PollAgain, PollDeadline, GetMessagesUploadServer,
          UploadMessagePhoto, SaveMessagePhoto, SendImage, SendText, Attempt, Delay, job
    <3>2. Budget' = Budget
      BY <3>1 DEF Budget
    <3>3. left' \in Nat /\ left' <= left
      BY <1>2, <2>3, TimePasses
    <3> QED
      BY <1>2, <2>1, <3>2, <3>3
  <2>4. CASE Shutdown \/ UNCHANGED vars
    BY <1>2, <2>1, <2>4 DEF Shutdown, vars, job, Budget
  <2> QED
    BY <1>2, <2>2, <2>3, <2>4 DEF Next
<1>3. Spec => []Inv
  <2>1. IInv /\ Inv /\ [Next]_vars /\ IInv' => Inv'
    BY <1>2
  <2> HIDE DEF Inv
  <2> QED
    BY <1>1, <2>1, Invariance, PTL DEF Spec
<1>4. Inv => StepsLeft \in 0 .. Longest /\ (StepsLeft = 0 <=> at = "idle")
  BY StepsLeftRange DEF IInv
<1>5. Inv /\ [Next]_vars =>
        [/\ Step => StepsLeft' < StepsLeft
         /\ Shutdown => StepsLeft' <= StepsLeft]_vars
  <2>1. Inv /\ Shutdown => StepsLeft' <= StepsLeft
    <3> SUFFICES ASSUME IInv, Shutdown PROVE StepsLeft' <= StepsLeft
      OBVIOUS
    <3>1. /\ left \in Nat /\ attempt \in 0 .. MaxRetries
          /\ candidate \in 0 .. (Candidates - 1)
          /\ MaxRetries \in Nat /\ Candidates \in Nat \ {0}
      BY RetriesAssumption, CandidatesAssumption DEF IInv, TypeOK
    <3>2. UNCHANGED <<at, attempt, candidate>> /\ left' = 0
      BY DEF Shutdown, progress
    <3>3. at \in {"idle", "llm", "llm_delay", "reserve", "prompt", "prompt_delay",
                 "image", "poll", "upload", "photo", "save", "send", "text"}
      BY DEF IInv, TypeOK
    <3>4. CASE at \in {"idle", "text", "send", "save", "photo", "upload"}
      BY <3>1, <3>2, <3>4 DEF StepsLeft
    <3>5. CASE at \in {"poll", "image", "prompt_delay", "prompt"}
      BY <3>1, <3>2, <3>5 DEF StepsLeft
    <3>6. CASE at \in {"reserve", "llm_delay", "llm"}
      BY <3>1, <3>2, <3>6 DEF StepsLeft
    <3> QED
      BY <3>3, <3>4, <3>5, <3>6
  <2> QED
    BY <2>1, StepsShrink
<1> HIDE DEF Inv
<1> QED
  BY <1>3, <1>4, <1>5, PTL DEF Spec, BoundedRuns
=============================================================================
