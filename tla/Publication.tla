----------------------------- MODULE Publication -----------------------------
(***************************************************************************)
(* The calls of one run that are abstracted by GenerateSummary,            *)
(* ReserveSummaryIssueNumber and Publish in Digest: the LLM request with   *)
(* its retries (internal/llm), the image (internal/imagegen), its upload   *)
(* (internal/vk/client.go) and the fallback to text                        *)
(* (publishWithOptionalImage).  All share the deadline of the job          *)
(* (app.go, 71-74), and each request has the timeout of its HTTP client.   *)
(*                                                                         *)
(* Time is discrete: left is what remains until the deadline, and every    *)
(* step takes what its call takes.  Runs work on the same range, one after *)
(* another, because a run that fails, or that cannot record its digest, is *)
(* repeated with the same random_id.                                       *)
(***************************************************************************)
EXTENDS Integers, FiniteSets

CONSTANTS
  LLMTimeout, PromptTimeout,  \* RequestTimeout of the two LLM clients
  ImageTimeout,  \* Image.Timeout
  VKTimeout,     \* VK.RequestTimeout
  DBTimeout,     \* query timeout
  Margin,        \* 30 seconds (app.go)
  Extra,         \* 15 seconds (app.go)
  SetupTime,     \* what a run takes at most before it asks the LLM
  MaxRetries,    \* of both LLM clients
  RetryDelay,    \* delay after each attempt, RetryBaseDelay * 2^attempt
  Candidates,    \* imageUploadCandidates
  Providers,     \* configurations of the image: "none", "single", "operation"
  Stops,         \* whether the bot may be told to stop
  MaxRuns        \* bound: runs on the range

ASSUME TimesAssumption ==
  /\ LLMTimeout \in Nat \ {0} /\ PromptTimeout \in Nat \ {0}
  /\ ImageTimeout \in Nat \ {0} /\ VKTimeout \in Nat \ {0}
  /\ DBTimeout \in Nat \ {0}
  /\ Margin \in Nat /\ Extra \in Nat /\ SetupTime \in Nat
ASSUME RunsAssumption == MaxRuns \in Nat
ASSUME RetriesAssumption ==
  MaxRetries \in Nat /\ RetryDelay \in [0 .. MaxRetries -> Nat]
ASSUME CandidatesAssumption == Candidates \in Nat \ {0}
ASSUME ProvidersAssumption == Providers \subseteq {"none", "single", "operation"}
ASSUME StopsAssumption == Stops \in BOOLEAN

VARIABLES
  provider,   \* Image.Enabled and Image.Provider
  at,         \* the call the run makes next
  left,       \* time until the deadline of the job
  attempt,    \* of the LLM request
  waited,     \* time spent on the image operation
  candidate,  \* attempt of the upload
  posts,      \* what VK shows of the range
  flag,       \* stats.ImagePublished
  outcome,    \* what the run returned
  runs,       \* runs so far
  stopping,   \* the context was cancelled
  late,       \* history variable: a run the budget does not reckon with
  vkTime,     \* history variable: time that the VK calls of the run may take
  clean       \* history variable: nothing shown before, no answer lost

progress == <<attempt, waited, candidate>>
history  == <<late, vkTime, clean>>
job      == <<provider, runs, stopping>>
vars     == <<job, at, left, progress, posts, flag, outcome, history>>

\* Mutant: the second margin is forgotten.
BudgetWithoutMargin ==
  LLMTimeout + Margin
    + IF provider = "none" THEN 0 ELSE PromptTimeout + ImageTimeout

\* app.New: manualExecutionTimeout.
Budget ==
  LLMTimeout + Margin
    + IF provider = "none" THEN 0 ELSE PromptTimeout + ImageTimeout + Margin

Init ==
  /\ provider \in Providers
  /\ at = "idle" /\ outcome = "none" /\ posts = {} /\ runs = 0
  /\ left = 0 /\ attempt = 0 /\ waited = 0 /\ candidate = 0 /\ vkTime = 0
  /\ flag = FALSE /\ stopping = FALSE /\ late = FALSE /\ clean = TRUE

-----------------------------------------------------------------------------
(* Time.                                                                   *)

\* A call is answered, with success or not, within its limit.
Answered(limit) == left' \in 1 .. left /\ left - left' < limit

\* A call takes until its limit or until the context of the job ends.
Expired(limit) == left' = IF left > limit THEN left - limit ELSE 0

Fails(limit) == Answered(limit) \/ Expired(limit)

Go(label)  == at' = label /\ UNCHANGED outcome
Finish(o)  == at' = "idle" /\ outcome' = o

-----------------------------------------------------------------------------
(* A run of executeNext reaches the LLM request, after its queries and the *)
(* progress message, which take up to SetupTime.  The further runs of an   *)
(* automatic pass start with what the earlier ones have left.              *)

Begin ==
  /\ at = "idle" /\ runs < MaxRuns /\ runs' = runs + 1
  /\ at' = "llm" /\ outcome' = "running"
  /\ left' \in 0 .. Budget
  /\ late' \in BOOLEAN /\ (late' <=> Budget - left' > SetupTime)
  /\ attempt' = 0 /\ waited' = 0 /\ candidate' = 0 /\ vkTime' = 0
  /\ flag' = FALSE /\ stopping' = FALSE
  /\ clean' = (posts = {})
  /\ UNCHANGED <<provider, posts>>

-----------------------------------------------------------------------------
(* The LLM clients.                                                        *)

\* Answers of doRequest: 429; 5xx or an HTTP/2 error; any other error; no
\* answer, or none after the headers.
Answers == {"ok", "limited", "busy", "refused", "timeout", "cut"}

\* A cancelled request is not a timeout.
Retryable(answer) ==
  answer \in {"limited", "busy"} \/ (answer = "timeout" /\ ~stopping)

\* GenerateSummary: an attempt of its loop, which ends with a retry, success,
\* a rate limit or another error.
Attempt(limit, retry, success, limited, failure) ==
  /\ \E answer \in Answers :
       /\ IF answer \in {"timeout", "cut"} THEN Expired(limit) ELSE Answered(limit)
       /\ CASE answer = "ok" -> success
            [] Retryable(answer) /\ attempt < MaxRetries -> Go(retry)
            [] answer = "limited" /\ attempt = MaxRetries -> limited
            [] OTHER -> failure
  /\ UNCHANGED <<job, progress, posts, flag, history>>

\* Mutant: sleeps without the context and does not count the attempts.
DelayUncounted(request, cancelled) ==
  /\ left' \in {0, left - RetryDelay[attempt]} /\ left' >= 0
  /\ Go(request)
  /\ late' = TRUE
  /\ UNCHANGED <<job, progress, posts, flag, vkTime, clean>>

\* The select of the loop: the delay is over, or the context is.
Delay(request, cancelled) ==
  /\ \/ /\ RetryDelay[attempt] <= left /\ left' = left - RetryDelay[attempt]
        /\ attempt' = attempt + 1 /\ Go(request)
     \/ /\ left <= RetryDelay[attempt] /\ left' = 0
        /\ cancelled /\ UNCHANGED attempt
  /\ late' = TRUE
  /\ UNCHANGED <<job, waited, candidate, posts, flag, vkTime, clean>>

\* executeNext: a rate limit is the answer to the last attempt.
GenerateSummary ==
  /\ at = "llm"
  /\ Attempt(LLMTimeout, "llm_delay", Go("reserve"), Finish("ratelimit"), Finish("error"))

GenerateSummaryDelay == at = "llm_delay" /\ Delay("llm", Finish("error"))

ReserveSummaryIssueNumber ==
  /\ at = "reserve"
  /\ \/ /\ Answered(DBTimeout)
        /\ Go(IF provider = "none" THEN "text" ELSE "prompt")
     \/ Fails(DBTimeout) /\ Finish("error")
  /\ attempt' = 0
  /\ UNCHANGED <<job, waited, candidate, posts, flag, history>>

\* Mutant: a rate limit of the prompt ends the run like one of the digest.
PromptRateLimit ==
  /\ at = "prompt"
  /\ Attempt(PromptTimeout, "prompt_delay", Go("image"), Finish("ratelimit"), Go("image"))

\* buildSummaryImagePrompt: any failure is replaced by the fallback prompt.
BuildSummaryImagePrompt ==
  /\ at = "prompt"
  /\ Attempt(PromptTimeout, "prompt_delay", Go("image"), Go("image"), Go("image"))

BuildSummaryImagePromptDelay == at = "prompt_delay" /\ Delay("prompt", Go("image"))

-----------------------------------------------------------------------------
(* The image.                                                              *)

\* Timeout of the HTTP client for images.
ImageLimit == ImageTimeout + Extra

\* OpenAI and Cloudflare: one request.
GenerateSummaryImage ==
  /\ at = "image" /\ provider = "single"
  /\ \/ Answered(ImageLimit) /\ Go("upload")
     \/ Fails(ImageLimit) /\ Go("text")
  /\ UNCHANGED <<job, progress, posts, flag, history>>

\* YandexART: the request that starts the operation.
StartOperation ==
  /\ at = "image" /\ provider = "operation"
  /\ \/ Answered(ImageLimit) /\ Go("poll")
     \/ Fails(ImageLimit) /\ Go("text")
  /\ UNCHANGED <<job, progress, posts, flag, history>>

\* A poll that finds the operation done, with an image or not, or fails.
PollDone ==
  /\ at = "poll"
  /\ \/ Answered(ImageLimit) /\ Go("upload")
     \/ Fails(ImageLimit) /\ Go("text")
  /\ UNCHANGED <<job, progress, posts, flag, history>>

\* The operation is not done: the next tick.  Select may prefer it to the
\* deadline when both are there after a slow poll.
PollAgain ==
  /\ at = "poll" /\ Go("poll")
  /\ left' \in 0 .. (left - 1) /\ left - left' < ImageLimit + 1
  /\ waited' = waited + (left - left')
  /\ UNCHANGED <<job, attempt, candidate, posts, flag, history>>

\* The deadline of wait, or the end of the context.
PollDeadline ==
  /\ at = "poll" /\ Go("text")
  /\ left' \in 0 .. left /\ left - left' < ImageLimit
  /\ left' = 0 \/ waited + (left - left') >= ImageTimeout
  /\ UNCHANGED <<job, progress, posts, flag, history>>

-----------------------------------------------------------------------------
(* VK.                                                                     *)

\* callMethod: a second request is made when the name of the first host cannot
\* be resolved.
CallMethod(success, failure) ==
  \E limit \in {VKTimeout, 2 * VKTimeout} :
    /\ vkTime' = vkTime + limit
    /\ (Answered(limit) /\ success) \/ (Fails(limit) /\ failure)

\* VK drops a message whose random_id it has seen.
Post(random_id, form) ==
  posts' = IF \E p \in posts : p.random_id = random_id
             THEN posts
             ELSE posts \cup {[random_id |-> random_id, form |-> form]}

\* Mutant: the end of the candidates is missed by one.
NextCandidatePast ==
  IF candidate < Candidates
    THEN candidate' = candidate + 1 /\ Go("upload")
    ELSE UNCHANGED candidate /\ Go("text")

\* uploadMessagePhoto after a failed attempt: the next candidate, if any.
NextCandidate ==
  IF candidate + 1 < Candidates
    THEN candidate' = candidate + 1 /\ Go("upload")
    ELSE UNCHANGED candidate /\ Go("text")

\* photos.getMessagesUploadServer.
GetMessagesUploadServer ==
  /\ at = "upload"
  /\ CallMethod(Go("photo") /\ UNCHANGED candidate, NextCandidate)
  /\ UNCHANGED <<job, attempt, waited, posts, flag, late, clean>>

\* The upload itself goes to a URL of its own.
UploadMessagePhoto ==
  /\ at = "photo" /\ vkTime' = vkTime + VKTimeout
  /\ \/ Answered(VKTimeout) /\ Go("save") /\ UNCHANGED candidate
     \/ Fails(VKTimeout) /\ NextCandidate
  /\ UNCHANGED <<job, attempt, waited, posts, flag, late, clean>>

SaveMessagePhoto ==
  /\ at = "save"
  /\ CallMethod(Go("send"), Go("text"))
  /\ UNCHANGED <<job, progress, posts, flag, late, clean>>

\* messages.send: shown and answered, not shown, or shown although the answer
\* is lost.
SendMessage(random_id, form, success, failure) ==
  LET Lost == left > 0 /\ Post(random_id, form) /\ clean' = FALSE
  IN CallMethod(/\ Post(random_id, form) /\ UNCHANGED clean /\ success,
                /\ UNCHANGED <<posts, clean>> \/ Lost
                /\ failure)

\* Mutant: the digest counts as one with an image before VK has answered.
SendFlaggedImage ==
  /\ at = "send" /\ flag' = TRUE
  /\ SendMessage("range", "image", Finish("ok"), Go("text"))
  /\ UNCHANGED <<job, progress, late>>

\* publishWithOptionalImage, the message with the image.
SendImage ==
  /\ at = "send"
  /\ SendMessage("range", "image", flag' = TRUE /\ Finish("ok"),
                 UNCHANGED flag /\ Go("text"))
  /\ UNCHANGED <<job, progress, late>>

\* Mutant: the fallback draws a random_id of its own.
SendTextAfresh ==
  /\ at = "text"
  /\ SendMessage("fresh", "text", Finish("ok"), Finish("error"))
  /\ UNCHANGED <<job, progress, flag, late>>

\* publishWithOptionalImage, the message without image.
SendText ==
  /\ at = "text"
  /\ SendMessage("range", "text", Finish("ok"), Finish("error"))
  /\ UNCHANGED <<job, progress, flag, late>>

-----------------------------------------------------------------------------

\* SIGTERM: the calls in progress end with the context.
Shutdown ==
  /\ Stops /\ at # "idle" /\ ~stopping
  /\ stopping' = TRUE /\ left' = 0
  /\ UNCHANGED <<provider, runs, at, progress, posts, flag, outcome, history>>

Step ==
  \/ GenerateSummary \/ GenerateSummaryDelay \/ ReserveSummaryIssueNumber
  \/ BuildSummaryImagePrompt \/ BuildSummaryImagePromptDelay
  \/ GenerateSummaryImage \/ StartOperation
  \/ PollDone \/ PollAgain \/ PollDeadline
  \/ GetMessagesUploadServer \/ UploadMessagePhoto \/ SaveMessagePhoto
  \/ SendImage \/ SendText

Next == Begin \/ Step \/ Shutdown

Spec == Init /\ [][Next]_vars

\* The goroutine of the job is scheduled, and its calls have timeouts.
FairSpec == Spec /\ WF_vars(Step)

-----------------------------------------------------------------------------
(* Properties.                                                             *)

\* A message has the random_id of the range or a fresh one.
PostType == [random_id : {"range", "fresh"}, form : {"image", "text"}]

\* Every variable keeps its type.
TypeOK ==
  /\ provider \in Providers
  /\ at \in {"idle", "llm", "llm_delay", "reserve", "prompt", "prompt_delay",
             "image", "poll", "upload", "photo", "save", "send", "text"}
  /\ left \in Nat /\ waited \in Nat /\ vkTime \in Nat /\ runs \in 0 .. MaxRuns
  /\ attempt \in 0 .. MaxRetries /\ candidate \in 0 .. (Candidates - 1)
  /\ posts \subseteq PostType
  /\ outcome \in {"none", "running", "ok", "error", "ratelimit"}
  /\ at = "idle" <=> outcome # "running"
  /\ flag \in BOOLEAN /\ stopping \in BOOLEAN
  /\ late \in BOOLEAN /\ clean \in BOOLEAN

\* The run does what Digest takes it to do: a rate limit is reported only
\* while nothing is published, by the digest's own request and never by that
\* of the image prompt, and success only if VK shows the digest.
Abstract == INSTANCE Publishing WITH
  phase <- IF outcome # "running" THEN outcome
             ELSE IF at \in {"llm", "llm_delay", "reserve"}
                    THEN "generating" ELSE "publishing",
  shown <- posts # {}

ImplementsPublishing == Abstract!Spec

\* A range is shown once, also when the answer to the message with the image
\* is lost and the text follows it, and when the run is repeated.
ShownOnce == \A p, q \in posts : p = q

\* What the usage statistics count as a digest with an image is one, if the
\* run was the first to publish the range and no answer was lost.
FlagMatchesPost ==
  outcome = "ok" /\ clean =>
    \A p \in posts : p.form = IF flag THEN "image" ELSE "text"

\* The deadline of the job (app.go, 71-74) leaves time for the text: its two
\* margins less what is used outside the timeouts it adds up, for the
\* first run of a job, if no LLM request is repeated and the image is generated
\* by a single request.
TextHasTime ==
  at = "text" /\ ~late /\ ~stopping =>
    /\ provider = "none" => left + SetupTime + DBTimeout >= Margin
    /\ provider = "single" =>
         left + SetupTime + DBTimeout + Extra + vkTime >= 2 * Margin

\* A run ends, whatever fails and however often it tries again.
RunEnds == at # "idle" ~> at = "idle"
=============================================================================
