----------------------------- MODULE UsageReport -----------------------------
(***************************************************************************)
(* The usage statistics and the debug report (internal/storage/usage.go,   *)
(* internal/app/debug_usage.go, pricing.go).                               *)
(*                                                                         *)
(* A digest is recorded in processed_summary_batches and added to the row  *)
(* of its day in usage_daily_stats, in one transaction.  A report takes    *)
(* its totals from the rows of days and its costs from the digests, in     *)
(* separate statements, while digests are recorded, retention deletes from *)
(* both tables, and midnight passes.                                       *)
(*                                                                         *)
(* The rows of the conversations of a day are one: the report adds them.   *)
(* All days are days in Moscow.  Latencies and the numbers of digests and  *)
(* conversations are left out.                                             *)
(***************************************************************************)
EXTENDS Integers, FiniteSets, Sequences, Functions

CONSTANTS
  Digests,       \* digests that may be recorded
  Model,         \* Model[kind][d]: the recorded model
  Tokens,        \* Tokens[d][c]: what d adds to the counter c of its day
  Price,         \* Price[m][field]: per token, of the models llmPrice knows
  PicturePrice,  \* PicturePrice[m][field]: the same of those imagePrice knows
  Luna, Long,    \* the model with long-context rates, and where they begin
  PerDay,        \* instants of a day
  MaxTime,       \* bound: the last instant
  MaxDigests,    \* bound: digests that are recorded
  Week, Month,   \* days of the two periods: 7 and 30
  Retentions,    \* SUMMARY_HISTORY_RETENTION_DAYS: the values a run considers
  ImageModels,   \* SUMMARY_IMAGE_MODEL: the values a run considers
  None           \* nothing; a cost that is shown as "-"

Kinds    == {"text", "image"}
Fields   == {"input", "cached", "output"}
Counters == (Kinds \X Fields) \cup ({"picture"} \X {"text", "image", "output"})

ASSUME TokensAssumption == Tokens \in [Digests -> [Counters -> Nat]]
ASSUME PriceAssumption ==
  /\ \A m \in DOMAIN Price : Price[m] \in [Fields -> Nat]
  /\ \A m \in DOMAIN PicturePrice :
       PicturePrice[m] \in [{"text", "image", "output"} -> Nat]
ASSUME NoneAssumption == None \notin Int
ASSUME TimeAssumption ==
  /\ PerDay \in Nat \ {0} /\ MaxTime \in Nat
  /\ Week \in Nat \ {0} /\ Month \in Nat \ {0} /\ Week <= Month
  /\ Retentions \subseteq Nat \ {0}

VARIABLES
  now,        \* time
  retention,  \* in days
  imageModel, \* the configured image model
  batches,    \* processed_summary_batches: the digest and published_at
  stats,      \* usage_daily_stats: the counters of a day
  cutoff,     \* of a prune that has deleted digests and not yet rows of days
  report,     \* the report being made: its next statement and section
  totals,     \* what the first statement of the section has returned, by day
  shown,      \* the lines of the section that was read last
  told,       \* history: every digest that was recorded
  quiet       \* history: since the report began nothing was recorded or
              \* deleted, and no midnight passed

vars == <<now, retention, imageModel, batches, stats, cutoff, report, totals,
          shown, told, quiet>>

Day(t) == t \div PerDay
Today  == Day(now)
Days   == (1 - Month) .. Day(MaxTime)

\* The counters of a set of digests, and of some days.
Adds(c) == [d \in Digests |-> Tokens[d][c]]
CountersOf(S) == [c \in Counters |-> SumFunctionOnSet(Adds(c), S)]
Total(rows) == [c \in Counters |-> SumFunction([day \in DOMAIN rows |-> rows[day][c]])]
Ids(S) == {b.id : b \in S}
On(S, day) == {b \in S : Day(b.at) = day}

Init ==
  /\ now = 0
  /\ retention \in Retentions /\ imageModel \in ImageModels
  /\ batches = {}
  /\ stats = [day \in Days |-> CountersOf({})]
  /\ cutoff = None
  /\ report = [at |-> "idle", section |-> 1, days |-> {}, first |-> 0]
  /\ totals = None /\ shown = {}
  /\ told = {} /\ quiet = TRUE

-----------------------------------------------------------------------------
(* Costs.                                                                  *)

\* llmCostValue, for a model with a price: luna has other rates for a long
\* request, and cached tokens are not charged twice.
LLMCost(kind, d) ==
  LET m    == Model[kind][d]
      n    == [f \in Fields |-> Tokens[d][<<kind, f>>]]
      rate == IF m = Luna /\ n["input"] > Long
                THEN [input |-> 2 * Price[m].input, cached |-> 2 * Price[m].cached,
                      output |-> (3 * Price[m].output) \div 2]
                ELSE Price[m]
      regular == IF n["input"] > n["cached"] THEN n["input"] - n["cached"] ELSE 0
  IN regular * rate.input + n["cached"] * rate.cached + n["output"] * rate.output

\* The digests that made a request of this kind.
Requesting(kind, S) ==
  {d \in S : Tokens[d][<<kind, "input">>] # 0 \/ Tokens[d][<<kind, "output">>] # 0}

Priced(kind, S) == \A d \in S : Model[kind][d] \in DOMAIN Price

\* The recorded requests add up to the totals.
AddUp(kind, S, row) ==
  \A f \in Fields : CountersOf(S)[<<kind, f>>] = row[<<kind, f>>]

LLMCosts(kind, S) == SumFunction([d \in S |-> LLMCost(kind, d)])

\* Mutant: the totals are not compared.
UncheckedLLMCost(kind, S, row) ==
  LET used == Requesting(kind, S)
  IN IF Priced(kind, used) THEN LLMCosts(kind, used) ELSE None

\* Mutant: a digest without a request of this kind needs a price, too.
StrictLLMCost(kind, S, row) ==
  IF Priced(kind, S) /\ AddUp(kind, S, row) THEN LLMCosts(kind, S) ELSE None

\* recordedLLMCostValue: every request at the price of its own model.
RecordedLLMCost(kind, S, row) ==
  LET used == Requesting(kind, S)
  IN IF Priced(kind, used) /\ AddUp(kind, S, row) THEN LLMCosts(kind, used)
       ELSE None

\* imagePrice: most image models, yandex-art of the default configuration among
\* them, have no price.
PicturesPriced == imageModel \in DOMAIN PicturePrice

\* imageCostValue, every picture at the price of the configured model.
PictureCost(row) ==
  IF ~ PicturesPriced THEN None
  ELSE LET price == PicturePrice[imageModel]
       IN SumFunction([f \in DOMAIN price |-> price[f] * row[<<"picture", f>>]])

\* formatRecordedLLMCost, formatImageCost: "-" unless both parts are known.
Cost(kind, S, row) ==
  LET llm == RecordedLLMCost(kind, S, row)
  IN IF kind = "text" THEN llm
     ELSE IF None \in {llm, PictureCost(row)} THEN None
     ELSE llm + PictureCost(row)

-----------------------------------------------------------------------------
(* What is recorded and deleted.                                           *)

Record(d, at) ==
  /\ d \notin Ids(told) /\ Cardinality(told) < MaxDigests
  /\ batches' = batches \cup {[id |-> d, at |-> at]}
  /\ told' = told \cup {[id |-> d, at |-> at]}
  /\ quiet' = FALSE
  /\ UNCHANGED <<now, retention, imageModel, cutoff, report, totals, shown>>

\* MarkBatchPublished with upsertUsageDailyStats; the time was read before.
Commit(d) ==
  \E at \in {now, now - 1} \cap Nat :
    /\ Record(d, at)
    /\ stats' = [stats EXCEPT ![Day(at)] =
                   [c \in Counters |-> @[c] + Tokens[d][c]]]

Tick ==
  /\ now < MaxTime /\ now' = now + 1
  /\ quiet' = (quiet /\ Day(now + 1) = Today)
  /\ UNCHANGED <<retention, imageModel, batches, stats, cutoff, report,
                 totals, shown, told>>

\* PruneExpiredData: the digests that are older than the retention ...
PruneBatches ==
  /\ cutoff = None
  /\ cutoff' = now - retention * PerDay
  /\ batches' = {b \in batches : b.at >= cutoff'}
  /\ quiet' = FALSE
  /\ UNCHANGED <<now, retention, imageModel, stats, report, totals, shown,
                 told>>

Forget(days) ==
  /\ cutoff # None /\ cutoff' = None
  /\ stats' = [day \in Days |-> IF day \in days THEN CountersOf({}) ELSE stats[day]]
  /\ quiet' = FALSE
  /\ UNCHANGED <<now, retention, imageModel, batches, report, totals, shown,
                 told>>

\* Mutant: the day of the cutoff, too.
PruneStatsThrough == Forget({day \in Days : day <= Day(cutoff)})

\* ... and the rows of the days before the day of the cutoff.
PruneStats == Forget({day \in Days : day < Day(cutoff)})

\* It fails or is interrupted in between.
PruneFails ==
  /\ cutoff # None /\ cutoff' = None
  /\ UNCHANGED <<now, retention, imageModel, batches, stats, report, totals,
                 shown, told, quiet>>

-----------------------------------------------------------------------------
(* The report: DailyLLMUsage, LLMUsageDays, DailyImageUsage,               *)
(* ImageUsageDays, each a statement for the totals and one for the         *)
(* requests.                                                               *)

Sections == <<[kind |-> "text", daily |-> TRUE], [kind |-> "text", daily |-> FALSE],
              [kind |-> "image", daily |-> TRUE], [kind |-> "image", daily |-> FALSE]>>
Section == Sections[report.section]

\* A statement counts from this day, by the clock of the moment it runs.
From == Today - ((IF Section.daily THEN Week ELSE Month) - 1)

\* publishDebugUsage, for the command or for the button of a report.
Ask ==
  /\ report.at = "idle"
  /\ report' = [at |-> "totals", section |-> 1, days |-> {}, first |-> 0]
  /\ shown' = {} /\ quiet' = TRUE
  /\ UNCHANGED <<now, retention, imageModel, batches, stats, cutoff, totals,
                 told>>

\* The rows of the days of the period.
ReadTotals ==
  /\ report.at = "totals"
  /\ totals' = [day \in From .. Today |-> stats[day]]
  /\ report' = [report EXCEPT !.at = "requests", !.first = From,
                  !.days = IF report.section = 1 THEN From .. Today ELSE @]
  /\ UNCHANGED <<now, retention, imageModel, batches, stats, cutoff, shown,
                 told, quiet>>

Line(from, to, row, requests) ==
  [kind |-> Section.kind, from |-> from, to |-> to, row |-> row,
   cost |-> Cost(Section.kind, Ids(requests), row)]

\* formatUsageTotalLine, formatImageUsageTotalLine for each day of the text
\* totals: the images of a day are looked up by it, and a day that was not
\* found counts as empty.
DailyLines(requests) ==
  {Line(day, day, IF day \in DOMAIN totals THEN totals[day] ELSE CountersOf({}),
        IF day \in DOMAIN totals THEN On(requests, day) ELSE {})
     : day \in report.days}

PeriodLine(requests) ==
  Line(report.first, report.first + Month - 1, Total(totals), requests)

\* llmRequestsByDay, and the lines of the section.
ReadRequests ==
  /\ report.at = "requests"
  /\ LET requests == {b \in batches : Day(b.at) >= From} IN
       shown' = IF Section.daily THEN DailyLines(requests)
                  ELSE {PeriodLine(requests)}
  /\ totals' = None
  /\ report' = IF report.section = Len(Sections)
                 THEN [report EXCEPT !.at = "publish"]
                 ELSE [report EXCEPT !.at = "totals", !.section = @ + 1]
  /\ UNCHANGED <<now, retention, imageModel, batches, stats, cutoff, told,
                 quiet>>

\* The report is posted, or replaces the one whose button was pressed; or a
\* statement or VK fails.  A command that fails is handled again from the start.
EndReport ==
  /\ report.at # "idle"
  /\ report' = [at |-> "idle", section |-> 1, days |-> {}, first |-> 0]
  /\ totals' = None /\ shown' = {}
  /\ UNCHANGED <<now, retention, imageModel, batches, stats, cutoff, told,
                 quiet>>

Next ==
  \/ \E d \in Digests : Commit(d)
  \/ Tick \/ PruneBatches \/ PruneStats \/ PruneFails
  \/ Ask \/ ReadTotals \/ ReadRequests \/ EndReport

Spec == Init /\ [][Next]_vars

-----------------------------------------------------------------------------
(* Properties.                                                             *)

\* The row of a day counts every digest of the day, or is gone; and it goes
\* only after all of them: retention deletes digests by the instant and rows by
\* the day, in two statements that may be interrupted.
DaysComplete ==
  \A day \in Days :
    \/ stats[day] = CountersOf(Ids(On(told, day)))
    \/ stats[day] = CountersOf({}) /\ On(batches, day) = {}

\* What is needed for the cost of a line: a price for the model of every request
\* and, beside images, one for the configured image model.
Known(kind, S) ==
  Priced(kind, Requesting(kind, S)) /\ (kind = "image" => PicturesPriced)

\* The cost of digests and of the pictures counted in a row.
FullCost(kind, S, row) ==
  LLMCosts(kind, Requesting(kind, S))
    + (IF kind = "image" THEN PictureCost(row) ELSE 0)

\* CHANGELOG.md:15-17: a digest is priced by its own model, cached tokens
\* included; no misleading partial cost is shown (pricing.go:137).  A cost is that
\* of digests with the tokens beside it, each at the rates of its own model and
\* never below zero, whatever was recorded or deleted while the report was read.
\* The code compares sums: they are the digests counted there where, as in the
\* run, no two sets of digests have the same sums.
CostIsComplete ==
  \A l \in shown : l.cost # None =>
    \E S \in SUBSET Ids(told) :
      /\ l.cost >= 0
      /\ AddUp(l.kind, S, l.row)
      /\ Known(l.kind, S)
      /\ l.cost = FullCost(l.kind, S, l.row)

\* When nothing happens meanwhile, and the retention covers the period, every
\* line counts all digests of its days, and shows their cost unless a price is not
\* known: that of the model of one of them or, beside images, of the image model.
QuietReportIsExact ==
  quiet /\ retention >= Month => \A l \in shown :
    LET S == Ids({b \in told : Day(b.at) \in l.from .. l.to}) IN
      /\ l.row = CountersOf(S)
      /\ l.cost = IF Known(l.kind, S) THEN FullCost(l.kind, S, l.row) ELSE None
=============================================================================
