---------------------------- MODULE SavingsSummary ----------------------------
(***************************************************************************)
(* What is counted of one request and how the counts are added up:         *)
(* event_from_transport_observation (application/measurement.rs),          *)
(* SavingsSummary and ProviderCacheSummary (modules/telemetry/aggregate.rs)*)
(* and the view of them (savings_view, application/desktop_runtime.rs).    *)
(* Of the twenty numeric metrics, which are all added the same way, only   *)
(* the bytes saved are kept; output tokens are treated like input tokens   *)
(* and left out.  Every sum saturates.                                     *)
(***************************************************************************)
EXTENDS Naturals

CONSTANTS
  MaxCount,  \* u64::MAX
  NoUsage    \* the provider reported no token counts

ASSUME SavingsSummaryAssumption == MaxCount \in Nat \ {0}

PreparationOutcomes ==
  {"Disabled", "CompactionBypass", "NativePassthrough", "FailOriginal",
   "EvaluatedNoEligibleResult", "EvaluatedNoSavings", "Aged"}

\* The outcome an observation is counted under.
OutcomeOf(outcome) == IF outcome = "CompactionBypass" THEN "Bypassed" ELSE outcome

Outcomes == {OutcomeOf(o) : o \in PreparationOutcomes}

\* Requests whose provider usage is compared with that of aged requests.
Unaged == {"Disabled", "FailOriginal", "EvaluatedNoEligibleResult", "EvaluatedNoSavings"}

Add(a, b) == IF a + b > MaxCount THEN MaxCount ELSE a + b

\* Bytes to tokens, four to one, rounded half up.
EstimatedTokens(bytes) == Add(bytes, 2) \div 4

-----------------------------------------------------------------------------

NoCache == [events |-> 0, input |-> 0, cached |-> 0]

\* A provider may report more cached than input tokens.
Cached(usage) == IF usage.cached < usage.input THEN usage.cached ELSE usage.input

CacheObserve(cache, usage) ==
  [events |-> Add(cache.events, 1),
   input  |-> Add(cache.input, usage.input),
   cached |-> Add(cache.cached, Cached(usage))]

\* Hits per ten thousand input tokens.
RateBasisPoints(cache) ==
  LET scaled == cache.cached * 10000
  IN  (IF scaled > MaxCount THEN MaxCount ELSE scaled) \div cache.input

NoSavings ==
  [events |-> 0, outcomes |-> [o \in Outcomes |-> 0],
   saved |-> 0, tokens |-> 0,
   usage |-> NoCache, aged |-> NoCache, unaged |-> NoCache]

\* Mutant: every response with usage that is not aged is the control group.
ObserveAllUnaged(summary, event) ==
  [events   |-> Add(summary.events, 1),
   outcomes |-> [summary.outcomes EXCEPT ![event.outcome] = Add(@, 1)],
   saved    |-> Add(summary.saved, event.saved),
   tokens   |-> Add(summary.tokens, EstimatedTokens(event.saved)),
   usage    |-> IF event.usage = NoUsage THEN summary.usage
                ELSE CacheObserve(summary.usage, event.usage),
   aged     |-> IF event.usage = NoUsage \/ event.outcome # "Aged" THEN summary.aged
                ELSE CacheObserve(summary.aged, event.usage),
   unaged   |-> IF event.usage = NoUsage \/ event.outcome = "Aged" THEN summary.unaged
                ELSE CacheObserve(summary.unaged, event.usage)]

Observe(summary, event) ==
  [events   |-> Add(summary.events, 1),
   outcomes |-> [summary.outcomes EXCEPT ![event.outcome] = Add(@, 1)],
   saved    |-> Add(summary.saved, event.saved),
   tokens   |-> Add(summary.tokens, EstimatedTokens(event.saved)),
   usage    |-> IF event.usage = NoUsage THEN summary.usage
                ELSE CacheObserve(summary.usage, event.usage),
   aged     |-> IF event.usage = NoUsage \/ event.outcome # "Aged" THEN summary.aged
                ELSE CacheObserve(summary.aged, event.usage),
   unaged   |-> IF event.usage = NoUsage \/ event.outcome \notin Unaged THEN summary.unaged
                ELSE CacheObserve(summary.unaged, event.usage)]

\* What the tray and the CLI show: requests to the Responses API are all those
\* that were neither compactions nor passed through.
ResponsesRequests(summary) ==
  LET n == summary.outcomes
  IN  Add(Add(Add(Add(n["Aged"], n["Disabled"]), n["FailOriginal"]),
              n["EvaluatedNoEligibleResult"]), n["EvaluatedNoSavings"])
=============================================================================
