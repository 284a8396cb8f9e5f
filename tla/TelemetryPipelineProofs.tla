----------------------- MODULE TelemetryPipelineProofs -----------------------
(***************************************************************************)
(* Proofs about SavingsSummary and TelemetryPipeline, for every set of     *)
(* requests, every capacity, every number of buckets and every limit of    *)
(* the sums.  First what adding one event does to a summary: the sums      *)
(* never shrink, and a summary whose parts fit together keeps them         *)
(* fitting.  Then the pipeline.                                            *)
(*                                                                         *)
(* "Wired" says what a place of the connection or of the process rules out *)
(* elsewhere, and that a store without changes is the file; "Dated" that   *)
(* the date is never more than a day behind the newest bucket; "Once" that *)
(* no response is known twice.                                             *)
(***************************************************************************)
EXTENDS TelemetryPipeline, FoldLemmas

Count == 0 .. MaxCount

Caches == {c \in [events : Count, input : Count, cached : Count] : c.cached <= c.input}

SummaryRecords ==
  [events : Count, outcomes : [Outcomes -> Count], saved : Count, tokens : Count,
   usage : Caches, aged : Caches, unaged : Caches]

\* What Observe reads of an event.
IsEvent(event) ==
  /\ event.outcome \in Outcomes
  /\ event.saved \in Nat
  /\ event.usage # NoUsage => event.usage.input \in Nat /\ event.usage.cached \in Nat

\* As long as the events fit, every outcome is counted once.
Counted(s) ==
  s.events < MaxCount =>
    /\ s.events = s.outcomes["Aged"] + s.outcomes["Disabled"] + s.outcomes["FailOriginal"]
                    + s.outcomes["EvaluatedNoEligibleResult"]
                    + s.outcomes["EvaluatedNoSavings"]
                    + s.outcomes["Bypassed"] + s.outcomes["NativePassthrough"]
    /\ s.aged.events <= s.outcomes["Aged"]
    /\ s.unaged.events <= s.outcomes["Disabled"] + s.outcomes["FailOriginal"]
                            + s.outcomes["EvaluatedNoEligibleResult"]
                            + s.outcomes["EvaluatedNoSavings"]

\* As long as the bytes fit, the estimate follows them; it rounds by at most two
\* bytes an event, and never to more than half a token a byte.
Estimated(s) ==
  s.saved < MaxCount =>
    /\ 4 * s.tokens <= 2 * s.saved
    /\ s.events < MaxCount => 4 * s.tokens <= s.saved + 2 * s.events
    /\ s.events < MaxCount => s.saved <= 4 * s.tokens + 2 * s.events

Coherent(s) == s \in SummaryRecords /\ Counted(s) /\ Estimated(s)

-----------------------------------------------------------------------------
(* Saturating sums *)

LEMMA CountIsNat == MaxCount \in Nat \ {0} /\ Count \subseteq Nat
BY SavingsSummaryAssumption DEF Count

LEMMA AddProperties ==
  ASSUME NEW a \in Count, NEW b \in Nat
  PROVE  /\ Add(a, b) \in Count
         /\ Add(a, b) >= a
         /\ Add(a, b) < MaxCount => Add(a, b) = a + b
BY SavingsSummaryAssumption DEF Add, Count

LEMMA AddNats ==
  ASSUME NEW a \in Nat, NEW b \in Nat
  PROVE  /\ Add(a, b) \in Count
         /\ a + b <= MaxCount => Add(a, b) = a + b
BY SavingsSummaryAssumption DEF Add, Count

\* The estimate of the bytes of one event is within two of them.
LEMMA EstimateProperties ==
  ASSUME NEW b \in Nat
  PROVE  /\ EstimatedTokens(b) \in Count
         /\ b < MaxCount =>
              /\ 4 * EstimatedTokens(b) <= b + 2
              /\ b <= 4 * EstimatedTokens(b) + 2
              /\ 4 * EstimatedTokens(b) <= 2 * b
<1> DEFINE n == Add(b, 2)
<1>1. n \in Nat /\ n <= MaxCount /\ n <= b + 2 /\ (b < MaxCount => n >= b + 1)
  BY SavingsSummaryAssumption DEF Add
<1>2. EstimatedTokens(b) = n \div 4
  BY DEF EstimatedTokens
<1> HIDE DEF n
<1>3. /\ n \div 4 \in Nat /\ n \div 4 <= n
      /\ 4 * (n \div 4) <= n /\ n <= 4 * (n \div 4) + 3
  BY <1>1
<1>4. n \div 4 \in Count
  BY <1>1, <1>3, SavingsSummaryAssumption DEF Count
<1>5. ASSUME b < 2 PROVE n \div 4 = 0
  BY <1>1, <1>5
<1> QED
  BY <1>1, <1>2, <1>3, <1>4, <1>5

LEMMA CacheProperties ==
  ASSUME NEW cache \in Caches, NEW usage, usage.input \in Nat, usage.cached \in Nat
  PROVE  /\ CacheObserve(cache, usage) \in Caches
         /\ CacheObserve(cache, usage).events <= cache.events + 1
<1>1. /\ Cached(usage) \in Nat /\ Cached(usage) <= usage.input
  BY DEF Cached
<1>2. /\ cache.events \in Count /\ cache.input \in Count /\ cache.cached \in Count
      /\ cache.cached <= cache.input
  BY DEF Caches
<1>3. /\ Add(cache.events, 1) \in Count /\ Add(cache.input, usage.input) \in Count
      /\ Add(cache.cached, Cached(usage)) \in Count
      /\ Add(cache.events, 1) <= cache.events + 1
      /\ Add(cache.cached, Cached(usage)) <= Add(cache.input, usage.input)
  BY <1>1, <1>2, SavingsSummaryAssumption DEF Add, Count
<1> QED
  BY <1>3 DEF CacheObserve, Caches

\* The rate shown to the user is a proper one.
LEMMA RateProperties ==
  ASSUME NEW cache \in Caches, cache.input > 0
  PROVE  RateBasisPoints(cache) <= 10000
<1> DEFINE c == cache.cached
           i == cache.input
           n == IF c * 10000 > MaxCount THEN MaxCount ELSE c * 10000
<1>1. c \in Nat /\ i \in Nat /\ c <= i /\ i > 0
  BY CountIsNat DEF Caches, Count
<1>2. n \in Nat /\ n <= i * 10000
  BY <1>1, SavingsSummaryAssumption
<1>3. RateBasisPoints(cache) = n \div i
  BY DEF RateBasisPoints
<1> HIDE DEF c, i, n
<1>4. i * (n \div i) <= n /\ n \div i \in Nat
  BY <1>1, <1>2
<1>5. ASSUME n \div i > 10000 PROVE FALSE
  <2>1. i * (n \div i) >= i * 10001
    BY <1>1, <1>4, <1>5
  <2> QED
    BY <1>1, <1>2, <1>4, <2>1
<1> QED
  BY <1>3, <1>4, <1>5
-----------------------------------------------------------------------------
(* One event *)

LEMMA ObserveShape ==
  ASSUME NEW s \in SummaryRecords, NEW event, IsEvent(event)
  PROVE  /\ Observe(s, event) \in SummaryRecords
         /\ Observe(s, event).events >= s.events
         /\ Observe(s, event).saved >= s.saved
<1> DEFINE t == Observe(s, event)
<1>1. /\ s.events \in Count /\ s.saved \in Count /\ s.tokens \in Count
      /\ s.outcomes \in [Outcomes -> Count]
      /\ s.usage \in Caches /\ s.aged \in Caches /\ s.unaged \in Caches
  BY DEF SummaryRecords
<1>2. Add(s.events, 1) \in Count /\ Add(s.events, 1) >= s.events
  BY <1>1, AddProperties
<1>3. Add(s.saved, event.saved) \in Count /\ Add(s.saved, event.saved) >= s.saved
  BY <1>1, AddProperties DEF IsEvent
<1>4. Add(s.tokens, EstimatedTokens(event.saved)) \in Count
  BY <1>1, AddProperties, EstimateProperties, CountIsNat DEF IsEvent
<1>5. [s.outcomes EXCEPT ![event.outcome] = Add(@, 1)] \in [Outcomes -> Count]
  BY <1>1, AddProperties DEF IsEvent
<1>6. \A c \in Caches : event.usage # NoUsage => CacheObserve(c, event.usage) \in Caches
  BY CacheProperties DEF IsEvent
<1>7. t.usage \in Caches /\ t.aged \in Caches /\ t.unaged \in Caches
  BY <1>1, <1>6 DEF Observe
<1>8. /\ t.events = Add(s.events, 1) /\ t.saved = Add(s.saved, event.saved)
      /\ t.tokens = Add(s.tokens, EstimatedTokens(event.saved))
      /\ t.outcomes = [s.outcomes EXCEPT ![event.outcome] = Add(@, 1)]
      /\ t = [events |-> t.events, outcomes |-> t.outcomes, saved |-> t.saved,
              tokens |-> t.tokens, usage |-> t.usage, aged |-> t.aged, unaged |-> t.unaged]
  BY DEF Observe
<1> HIDE DEF t
<1>9. t \in SummaryRecords
  BY <1>2, <1>3, <1>4, <1>5, <1>7, <1>8 DEF SummaryRecords
<1> QED
  BY <1>2, <1>3, <1>8, <1>9 DEF t

\* Counts of outcomes by name, for the provers.
LEMMA OutcomeNames ==
  Outcomes = {"Disabled", "Bypassed", "NativePassthrough", "FailOriginal",
              "EvaluatedNoEligibleResult", "EvaluatedNoSavings", "Aged"}
<1>1. /\ OutcomeOf("Disabled") = "Disabled" /\ OutcomeOf("CompactionBypass") = "Bypassed"
      /\ OutcomeOf("NativePassthrough") = "NativePassthrough"
      /\ OutcomeOf("FailOriginal") = "FailOriginal"
      /\ OutcomeOf("EvaluatedNoEligibleResult") = "EvaluatedNoEligibleResult"
      /\ OutcomeOf("EvaluatedNoSavings") = "EvaluatedNoSavings"
      /\ OutcomeOf("Aged") = "Aged"
  BY DEF OutcomeOf
<1> QED
  BY <1>1 DEF Outcomes, PreparationOutcomes

LEMMA ObserveCounted ==
  ASSUME NEW s, Coherent(s), NEW event, IsEvent(event)
  PROVE  Counted(Observe(s, event))
<1> DEFINE t == Observe(s, event)
           n == s.outcomes
           m == t.outcomes
<1>1. SUFFICES ASSUME t.events < MaxCount PROVE Counted(t)
  BY DEF Counted
<1>2. /\ s.events \in Nat /\ t.events = s.events + 1 /\ s.events < MaxCount
  <2>1. s.events \in Count /\ t.events = Add(s.events, 1)
    BY DEF Coherent, SummaryRecords, Observe
  <2> QED
    BY <1>1, <2>1, SavingsSummaryAssumption DEF Add, Count
<1>3. n \in [Outcomes -> Nat] /\ \A o \in Outcomes : n[o] <= s.events
  <2>1. n \in [Outcomes -> Nat]
    BY CountIsNat DEF Coherent, SummaryRecords
  <2> QED
    BY <1>2, <2>1, OutcomeNames DEF Coherent, Counted
<1>4. /\ event.outcome \in Outcomes
      /\ m = [n EXCEPT ![event.outcome] = n[event.outcome] + 1]
  <2>1. event.outcome \in Outcomes
    BY DEF IsEvent
  <2>2. Add(n[event.outcome], 1) = n[event.outcome] + 1
    BY <1>2, <1>3, <2>1, SavingsSummaryAssumption DEF Add
  <2>3. m = [n EXCEPT ![event.outcome] = Add(n[event.outcome], 1)]
    BY DEF Observe
  <2> QED
    BY <2>1, <2>2, <2>3
<1>5. /\ s.aged.events \in Nat /\ s.unaged.events \in Nat
      /\ t.aged.events \in Nat /\ t.unaged.events \in Nat
      /\ t.aged.events <= s.aged.events + (IF event.outcome = "Aged" THEN 1 ELSE 0)
      /\ t.unaged.events <= s.unaged.events + (IF event.outcome \in Unaged THEN 1 ELSE 0)
  <2>1. s.aged \in Caches /\ s.unaged \in Caches
    BY DEF Coherent, SummaryRecords
  <2>2. \A c \in Caches : c.events \in Nat
    BY CountIsNat DEF Caches
  <2>3. CASE event.usage = NoUsage
    <3>1. t.aged = s.aged /\ t.unaged = s.unaged
      BY <2>3 DEF Observe
    <3> QED
      BY <2>1, <2>2, <3>1
  <2>4. CASE event.usage # NoUsage
    <3>1. \A c \in Caches : /\ CacheObserve(c, event.usage) \in Caches
                           /\ CacheObserve(c, event.usage).events <= c.events + 1
      BY <2>4, CacheProperties DEF IsEvent
    <3>2. /\ t.aged = IF event.outcome # "Aged" THEN s.aged
                      ELSE CacheObserve(s.aged, event.usage)
          /\ t.unaged = IF event.outcome \notin Unaged THEN s.unaged
                        ELSE CacheObserve(s.unaged, event.usage)
      BY <2>4 DEF Observe
    <3> QED
      BY <2>1, <2>2, <3>1, <3>2
  <2> QED
    BY <2>3, <2>4
<1>6. Counted(s)
  BY DEF Coherent
<1> HIDE DEF n, m, t
<1>7. /\ n["Aged"] \in Nat /\ n["Disabled"] \in Nat /\ n["FailOriginal"] \in Nat
      /\ n["EvaluatedNoEligibleResult"] \in Nat /\ n["EvaluatedNoSavings"] \in Nat
      /\ n["Bypassed"] \in Nat /\ n["NativePassthrough"] \in Nat
  BY <1>3, OutcomeNames
<1>8. \A o \in Outcomes : m[o] = n[o] + (IF o = event.outcome THEN 1 ELSE 0)
  BY <1>3, <1>4
<1>9. /\ m["Aged"] = n["Aged"] + (IF "Aged" = event.outcome THEN 1 ELSE 0)
      /\ m["Disabled"] = n["Disabled"] + (IF "Disabled" = event.outcome THEN 1 ELSE 0)
      /\ m["FailOriginal"] = n["FailOriginal"]
            + (IF "FailOriginal" = event.outcome THEN 1 ELSE 0)
      /\ m["EvaluatedNoEligibleResult"] = n["EvaluatedNoEligibleResult"]
            + (IF "EvaluatedNoEligibleResult" = event.outcome THEN 1 ELSE 0)
      /\ m["EvaluatedNoSavings"] = n["EvaluatedNoSavings"]
            + (IF "EvaluatedNoSavings" = event.outcome THEN 1 ELSE 0)
      /\ m["Bypassed"] = n["Bypassed"] + (IF "Bypassed" = event.outcome THEN 1 ELSE 0)
      /\ m["NativePassthrough"] = n["NativePassthrough"]
            + (IF "NativePassthrough" = event.outcome THEN 1 ELSE 0)
  BY <1>8, OutcomeNames
<1>10. /\ s.events = n["Aged"] + n["Disabled"] + n["FailOriginal"]
             + n["EvaluatedNoEligibleResult"] + n["EvaluatedNoSavings"]
             + n["Bypassed"] + n["NativePassthrough"]
       /\ s.aged.events <= n["Aged"]
       /\ s.unaged.events <= n["Disabled"] + n["FailOriginal"]
             + n["EvaluatedNoEligibleResult"] + n["EvaluatedNoSavings"]
  BY <1>2, <1>6 DEF Counted, n
<1>11. \/ event.outcome = "Aged" \/ event.outcome = "Disabled"
       \/ event.outcome = "FailOriginal" \/ event.outcome = "EvaluatedNoEligibleResult"
       \/ event.outcome = "EvaluatedNoSavings" \/ event.outcome = "Bypassed"
       \/ event.outcome = "NativePassthrough"
  BY <1>4, OutcomeNames
<1>12. /\ t.events = m["Aged"] + m["Disabled"] + m["FailOriginal"]
             + m["EvaluatedNoEligibleResult"] + m["EvaluatedNoSavings"]
             + m["Bypassed"] + m["NativePassthrough"]
       /\ t.aged.events <= m["Aged"]
       /\ t.unaged.events <= m["Disabled"] + m["FailOriginal"]
             + m["EvaluatedNoEligibleResult"] + m["EvaluatedNoSavings"]
  BY <1>2, <1>5, <1>7, <1>9, <1>10, <1>11 DEF Unaged
<1> QED
  BY <1>12 DEF Counted, m

LEMMA ObserveEstimated ==
  ASSUME NEW s, Coherent(s), NEW event, IsEvent(event)
  PROVE  Estimated(Observe(s, event))
<1> DEFINE t == Observe(s, event)
           b == event.saved
           e == EstimatedTokens(event.saved)
<1>1. SUFFICES ASSUME t.saved < MaxCount PROVE Estimated(t)
  BY DEF Estimated
<1>2. /\ s.saved \in Count /\ s.tokens \in Count /\ s.events \in Count /\ b \in Nat
      /\ t.saved = Add(s.saved, b) /\ t.tokens = Add(s.tokens, e)
      /\ t.events = Add(s.events, 1)
  BY DEF Coherent, SummaryRecords, Observe, IsEvent
<1> HIDE DEF t, b, e
<1>3. /\ s.saved \in Nat /\ s.tokens \in Nat /\ s.events \in Nat
  BY <1>2, CountIsNat
<1>4. t.saved = s.saved + b /\ s.saved < MaxCount /\ b < MaxCount
  BY <1>1, <1>2, <1>3, AddProperties, CountIsNat
<1>5. e \in Nat /\ 4 * e <= b + 2 /\ b <= 4 * e + 2 /\ 4 * e <= 2 * b
  BY <1>2, <1>4, EstimateProperties, CountIsNat DEF b, e
<1>6. /\ 4 * s.tokens <= 2 * s.saved
      /\ s.events < MaxCount => 4 * s.tokens <= s.saved + 2 * s.events
      /\ s.events < MaxCount => s.saved <= 4 * s.tokens + 2 * s.events
  BY <1>4 DEF Coherent, Estimated
<1>7. t.events < MaxCount => t.events = s.events + 1
  BY <1>2, AddProperties
<1>8. t.tokens = s.tokens + e
  <2>1. s.tokens + e <= MaxCount
    BY <1>1, <1>2, <1>3, <1>4, <1>5, <1>6, CountIsNat
  <2> QED
    BY <1>2, <1>3, <1>5, <2>1, AddNats
<1>9. 4 * t.tokens <= 2 * t.saved
  BY <1>3, <1>2, <1>4, <1>5, <1>6, <1>8
<1>10. ASSUME t.events < MaxCount
       PROVE  4 * t.tokens <= t.saved + 2 * t.events /\ t.saved <= 4 * t.tokens + 2 * t.events
  <2>1. t.events = s.events + 1 /\ s.events < MaxCount
    BY <1>3, <1>7, <1>10, CountIsNat
  <2> QED
    BY <1>2, <1>3, <1>4, <1>5, <1>6, <1>8, <2>1
<1> QED
  BY <1>9, <1>10 DEF Estimated, t

LEMMA ObserveCoherent ==
  ASSUME NEW s, Coherent(s), NEW event, IsEvent(event)
  PROVE  Coherent(Observe(s, event))
BY ObserveShape, ObserveCounted, ObserveEstimated DEF Coherent

LEMMA NoSavingsCoherent == Coherent(NoSavings)
<1>1. 0 \in Count /\ NoCache \in Caches
  BY SavingsSummaryAssumption DEF Count, NoCache, Caches
<1>2. NoSavings \in SummaryRecords
  BY <1>1 DEF NoSavings, SummaryRecords
<1>3. /\ NoSavings.events = 0 /\ NoSavings.saved = 0 /\ NoSavings.tokens = 0
      /\ NoSavings.aged.events = 0 /\ NoSavings.unaged.events = 0
      /\ \A o \in Outcomes : NoSavings.outcomes[o] = 0
  BY DEF NoSavings, NoCache
<1>4. Counted(NoSavings)
  BY <1>3, OutcomeNames DEF Counted
<1>5. Estimated(NoSavings)
  BY <1>3 DEF Estimated
<1> QED
  BY <1>2, <1>4, <1>5 DEF Coherent

\* What SummaryCoherent asks of a summary follows.
LEMMA CoherentShows ==
  ASSUME NEW s, Coherent(s)
  PROVE  /\ s.events < MaxCount =>
              /\ s.events = ResponsesRequests(s) + s.outcomes["Bypassed"]
                              + s.outcomes["NativePassthrough"]
              /\ s.aged.events <= s.outcomes["Aged"]
              /\ s.unaged.events <= ResponsesRequests(s) - s.outcomes["Aged"]
         /\ \A cache \in {s.usage, s.aged, s.unaged} :
              cache.input > 0 => RateBasisPoints(cache) <= 10000
         /\ s.saved < MaxCount =>
              /\ 4 * s.tokens <= s.saved + 2 * s.events
              /\ s.saved <= 4 * s.tokens + 2 * s.events
<1> DEFINE n == s.outcomes
<1>1. /\ s.events \in Nat /\ s.saved \in Nat /\ s.tokens \in Nat /\ s.events <= MaxCount
      /\ s.usage \in Caches /\ s.aged \in Caches /\ s.unaged \in Caches
      /\ n \in [Outcomes -> Nat]
  BY CountIsNat DEF Coherent, SummaryRecords, Count
<1>2. ASSUME s.events < MaxCount
      PROVE  /\ s.events = ResponsesRequests(s) + n["Bypassed"] + n["NativePassthrough"]
             /\ s.aged.events <= n["Aged"]
             /\ s.unaged.events <= ResponsesRequests(s) - n["Aged"]
  <2>1. /\ n["Aged"] \in Nat /\ n["Disabled"] \in Nat /\ n["FailOriginal"] \in Nat
        /\ n["EvaluatedNoEligibleResult"] \in Nat /\ n["EvaluatedNoSavings"] \in Nat
        /\ n["Bypassed"] \in Nat /\ n["NativePassthrough"] \in Nat
    BY <1>1, OutcomeNames
  <2>2. Counted(s)
    BY DEF Coherent
  <2>3. /\ s.events = n["Aged"] + n["Disabled"] + n["FailOriginal"]
             + n["EvaluatedNoEligibleResult"] + n["EvaluatedNoSavings"]
             + n["Bypassed"] + n["NativePassthrough"]
        /\ s.aged.events <= n["Aged"]
        /\ s.unaged.events <= n["Disabled"] + n["FailOriginal"]
             + n["EvaluatedNoEligibleResult"] + n["EvaluatedNoSavings"]
    BY <1>2, <2>2 DEF Counted
  <2>4. ResponsesRequests(s) = n["Aged"] + n["Disabled"] + n["FailOriginal"]
          + n["EvaluatedNoEligibleResult"] + n["EvaluatedNoSavings"]
    <3> HIDE DEF n
    <3>1. Add(n["Aged"], n["Disabled"]) = n["Aged"] + n["Disabled"]
      BY <1>1, <1>2, <2>1, <2>3, AddNats, CountIsNat
    <3>2. Add(n["Aged"] + n["Disabled"], n["FailOriginal"])
            = n["Aged"] + n["Disabled"] + n["FailOriginal"]
      BY <1>1, <1>2, <2>1, <2>3, AddNats, CountIsNat
    <3>3. Add(n["Aged"] + n["Disabled"] + n["FailOriginal"], n["EvaluatedNoEligibleResult"])
            = n["Aged"] + n["Disabled"] + n["FailOriginal"] + n["EvaluatedNoEligibleResult"]
      BY <1>1, <1>2, <2>1, <2>3, AddNats, CountIsNat
    <3>4. Add(n["Aged"] + n["Disabled"] + n["FailOriginal"] + n["EvaluatedNoEligibleResult"],
              n["EvaluatedNoSavings"])
            = n["Aged"] + n["Disabled"] + n["FailOriginal"]
                + n["EvaluatedNoEligibleResult"] + n["EvaluatedNoSavings"]
      BY <1>1, <1>2, <2>1, <2>3, AddNats, CountIsNat
    <3> QED
      BY <3>1, <3>2, <3>3, <3>4 DEF ResponsesRequests, n
  <2> HIDE DEF n
  <2>5. s.aged.events \in Nat /\ s.unaged.events \in Nat
    BY <1>1, CountIsNat DEF Caches
  <2> QED
    BY <1>1, <2>1, <2>3, <2>4, <2>5
<1>3. \A cache \in {s.usage, s.aged, s.unaged} :
        cache.input > 0 => RateBasisPoints(cache) <= 10000
  BY <1>1, RateProperties
<1>4. ASSUME s.saved < MaxCount
      PROVE  4 * s.tokens <= s.saved + 2 * s.events /\ s.saved <= 4 * s.tokens + 2 * s.events
  <2>1. Estimated(s)
    BY DEF Coherent
  <2>2. CASE s.events < MaxCount
    BY <1>4, <2>1, <2>2 DEF Estimated
  <2>3. CASE s.events = MaxCount
    BY <1>1, <1>4, <2>1, <2>3, CountIsNat DEF Estimated
  <2> QED
    BY <1>1, <2>2, <2>3, CountIsNat
<1> QED
  BY <1>2, <1>3, <1>4

-----------------------------------------------------------------------------
(* The pipeline *)

Days == 1 .. LastDay

CoherentSummaries == {s \in SummaryRecords : Coherent(s)}

Buckets == UNION {[D -> CoherentSummaries] : D \in SUBSET Days}

DataRecords ==
  {d \in [all : CoherentSummaries, daily : Buckets, last : Nat] :
     Cardinality(DOMAIN d.daily) <= MaxDays}

Observations ==
  [id : Requests, outcome : PreparationOutcomes, saved : Nat, usage : Usages]
Events == [id : Requests, outcome : Outcomes, saved : Nat, usage : Usages]
Either == [id : Requests, outcome : PreparationOutcomes \cup Outcomes, saved : Nat, usage : Usages]

Typed ==
  /\ process \in {"running", "exited", "dead"}
  /\ link \in {"down", "up", "drain", "flush"}
  /\ quitting \in BOOLEAN
  /\ stream \in [Requests -> [at : {"none", "open", "ended", "abandoned", "done"},
                              pending : Prepared \cup {None}]]
  /\ channel \in Seq(Observations) /\ Len(channel) <= Capacity
  /\ dropped \in Nat
  /\ task \in [at : {"off", "recv", "ledger", "store"}, event : Events \cup {None}]
  /\ task.at \in {"ledger", "store"} => task.event \in Events
  /\ ledger \in Seq(Events)
  /\ store \in [data : DataRecords, dirty : BOOLEAN]
  /\ disk \in DataRecords
  /\ day \in Days /\ latest \in Days
  /\ lost \in [session : Nat, store : Nat]

\* The date is today or, after a step back, yesterday; no bucket is of a later one.
Dated ==
  /\ day <= latest /\ latest <= day + 1
  /\ \A d \in DOMAIN store.data.daily : d <= latest
  /\ \A d \in DOMAIN disk.daily : d <= latest

\* What is left of a connection in each of its states, and the file the store
\* has been written to.
Wired ==
  /\ process # "running" => link = "down"
  /\ link \in {"down", "flush"} => task = Off /\ channel = <<>>
  /\ \A r \in Requests :
       /\ stream[r].at \in {"open", "ended"} => link = "up"
       /\ stream[r].pending # None => stream[r].at = "open"
  /\ ~store.dirty => disk = store.data
  /\ process = "exited" => disk = store.data

\* The store is never behind the file.
Ahead ==
  /\ store.data.all.events >= disk.all.events
  /\ store.data.all.saved >= disk.all.saved

\* What the session knows of, recorded or on its way.
Waiting(t, c) == (IF t.at = "ledger" THEN <<t.event>> ELSE <<>>) \o c
KnownOf(l, t, c) == l \o Waiting(t, c)
Known == KnownOf(ledger, task, channel)

Once ==
  /\ IsFiniteSet(Emitted)
  /\ \A i \in 1 .. Len(Known) : Known[i].id \in Emitted
  /\ \A i, j \in 1 .. Len(Known) : Known[i].id = Known[j].id => i = j
  /\ Cardinality(Emitted) = Len(Known) + dropped + lost.session

Inv == Typed /\ Dated /\ Wired /\ Ahead /\ Once

-----------------------------------------------------------------------------
(* Constants and data *)

LEMMA Limits ==
  /\ Capacity \in Nat \ {0} /\ MaxDays \in Nat \ {0, 1} /\ LastDay \in Nat \ {0}
  /\ Days \subseteq Nat /\ 1 \in Days
BY TelemetryAssumption DEF Days

LEMMA EventsAreEvents == \A e \in Events : IsEvent(e)
BY TelemetryAssumption DEF Events, IsEvent

LEMMA EventOfObservation ==
  ASSUME NEW o \in Observations
  PROVE  Event(o) \in Events /\ Event(o).id = o.id
<1>1. OutcomeOf(o.outcome) \in Outcomes
  BY DEF Observations, Outcomes
<1> QED
  BY <1>1 DEF Observations, Events, Event

LEMMA Below == Events \subseteq Either /\ Observations \subseteq Either
BY DEF Events, Observations, Either

LEMMA ObservePreserves ==
  ASSUME NEW s \in CoherentSummaries, NEW e \in Events
  PROVE  /\ Observe(s, e) \in CoherentSummaries
         /\ Observe(s, e).events >= s.events
         /\ Observe(s, e).saved >= s.saved
BY EventsAreEvents, ObserveCoherent, ObserveShape DEF CoherentSummaries

LEMMA NoSavingsIsCoherent == NoSavings \in CoherentSummaries
BY NoSavingsCoherent DEF CoherentSummaries, Coherent

LEMMA SummaryNumbers ==
  ASSUME NEW s \in CoherentSummaries
  PROVE  s.events \in Nat /\ s.saved \in Nat
BY CountIsNat DEF CoherentSummaries, SummaryRecords

LEMMA DataParts ==
  ASSUME NEW d \in DataRecords
  PROVE  /\ d.all \in CoherentSummaries
         /\ DOMAIN d.daily \subseteq Days
         /\ \A x \in DOMAIN d.daily : d.daily[x] \in CoherentSummaries
         /\ d.last \in Nat
         /\ Cardinality(DOMAIN d.daily) <= MaxDays
         /\ IsFiniteSet(DOMAIN d.daily)
<1>1. /\ d.all \in CoherentSummaries /\ d.daily \in Buckets /\ d.last \in Nat
      /\ Cardinality(DOMAIN d.daily) <= MaxDays
  BY DEF DataRecords
<1>2. PICK D \in SUBSET Days : d.daily \in [D -> CoherentSummaries]
  BY <1>1 DEF Buckets
<1>3. IsFiniteSet(Days)
  BY Limits, FS_Interval DEF Days
<1>4. IsFiniteSet(D)
  BY <1>3, FS_Subset
<1> QED
  BY <1>1, <1>2, <1>4

LEMMA EmptyStoreIsData == EmptyStore \in DataRecords /\ DOMAIN EmptyStore.daily = {}
<1>1. DOMAIN <<>> = {}
  BY EmptySeq
<1>2. <<>> \in [{} -> CoherentSummaries]
  BY <1>1
<1>3. <<>> \in Buckets
  BY <1>2 DEF Buckets
<1>4. Cardinality(DOMAIN <<>>) <= MaxDays
  BY <1>1, FS_EmptySet, Limits
<1> QED
  BY <1>1, <1>3, <1>4, NoSavingsIsCoherent DEF EmptyStore, DataRecords
-----------------------------------------------------------------------------
(* Buckets *)

LEMMA OldestProperties ==
  ASSUME NEW f, DOMAIN f \subseteq Nat, DOMAIN f # {}
  PROVE  Oldest(f) \in DOMAIN f /\ \A d \in DOMAIN f : Oldest(f) <= d
<1>1. \E m \in DOMAIN f : \A n \in DOMAIN f : m <= n
  BY SmallestExists
<1> QED
  BY <1>1 DEF Oldest

\* Of the buckets as they are with one more, at most one goes, and it is not of a
\* day d that has at most one day after it.
LEMMA EvictedProperties ==
  ASSUME NEW f, f = [d \in DOMAIN f |-> f[d]],
         DOMAIN f \subseteq Nat, IsFiniteSet(DOMAIN f),
         Cardinality(DOMAIN f) <= MaxDays + 1
  PROVE  /\ DOMAIN Evicted(f) \subseteq DOMAIN f
         /\ Evicted(f) = [d \in DOMAIN Evicted(f) |-> f[d]]
         /\ Cardinality(DOMAIN Evicted(f)) <= MaxDays
         /\ \A d \in DOMAIN f : (\A e \in DOMAIN f : e <= d + 1) => d \in DOMAIN Evicted(f)
<1> DEFINE old == Oldest(f)
<1>1. CASE Cardinality(DOMAIN f) <= MaxDays
  <2>1. Evicted(f) = f
    BY <1>1 DEF Evicted
  <2> QED
    BY <1>1, <2>1
<1>2. CASE ~(Cardinality(DOMAIN f) <= MaxDays)
  <2>1. Evicted(f) = [d \in DOMAIN f \ {old} |-> f[d]]
    BY <1>2 DEF Evicted
  <2>2. Cardinality(DOMAIN f) \in Nat /\ MaxDays \in Nat /\ MaxDays >= 2
    BY FS_CardinalityType, Limits
  <2>3. DOMAIN f # {}
    BY <1>2, <2>2, FS_EmptySet
  <2>4. old \in DOMAIN f /\ \A d \in DOMAIN f : old <= d
    BY <2>3, OldestProperties
  <2> HIDE DEF old
  <2>5. Cardinality(DOMAIN f \ {old}) = Cardinality(DOMAIN f) - 1
    BY <2>4, FS_RemoveElement
  <2>6. ASSUME NEW d \in DOMAIN f, \A e \in DOMAIN f : e <= d + 1
        PROVE  d # old
    <3>1. SUFFICES ASSUME d = old PROVE FALSE
      OBVIOUS
    <3>2. DOMAIN f \subseteq {d, d + 1}
      BY <2>4, <2>6, <3>1
    <3>3. IsFiniteSet({d, d + 1}) /\ Cardinality({d, d + 1}) <= 2
      <4>1. IsFiniteSet({d}) /\ Cardinality({d}) = 1
        BY FS_Singleton
      <4>2. {d} \cup {d + 1} = {d, d + 1}
        OBVIOUS
      <4>3. /\ IsFiniteSet({d} \cup {d + 1})
            /\ Cardinality({d} \cup {d + 1}) =
                 IF d + 1 \in {d} THEN Cardinality({d}) ELSE Cardinality({d}) + 1
        BY <4>1, FS_AddElement
      <4> QED
        BY <4>1, <4>2, <4>3
    <3>4. Cardinality(DOMAIN f) <= Cardinality({d, d + 1})
      BY <3>2, <3>3, FS_Subset
    <3>5. Cardinality({d, d + 1}) \in Nat
      BY <3>3, FS_CardinalityType
    <3> QED
      BY <1>2, <2>2, <3>3, <3>4, <3>5
  <2> QED
    BY <2>1, <2>2, <2>5, <2>6
<1> QED
  BY <1>1, <1>2

\* One event in the store, on a day with at most one later bucket's day.
LEMMA RecordedProperties ==
  ASSUME NEW d \in DataRecords, NEW e \in Events, day \in Days
  PROVE  /\ Recorded(d, e) \in DataRecords
         /\ Recorded(d, e).all.events >= d.all.events
         /\ Recorded(d, e).all.saved >= d.all.saved
         /\ DOMAIN Recorded(d, e).daily \subseteq DOMAIN d.daily \cup {day}
         /\ (\A x \in DOMAIN d.daily : x <= day + 1) =>
              Bucket(Recorded(d, e).daily, day) = Observe(Bucket(d.daily, day), e)
<1> DEFINE R == Recorded(d, e)
           f == [x \in DOMAIN d.daily \cup {day} |->
                   IF x = day THEN Observe(Bucket(d.daily, x), e) ELSE d.daily[x]]
<1>1. /\ d.all \in CoherentSummaries
      /\ DOMAIN d.daily \subseteq Days
      /\ \A x \in DOMAIN d.daily : d.daily[x] \in CoherentSummaries
      /\ d.last \in Nat
      /\ Cardinality(DOMAIN d.daily) <= MaxDays
      /\ IsFiniteSet(DOMAIN d.daily)
  BY DataParts
<1>2. R = [all |-> Observe(d.all, e), daily |-> Evicted(f),
           last |-> IF e.outcome = "Aged" THEN e.saved ELSE d.last]
  BY DEF Recorded
<1>3. Bucket(d.daily, day) \in CoherentSummaries
  BY <1>1, NoSavingsIsCoherent DEF Bucket
<1>4. /\ DOMAIN f = DOMAIN d.daily \cup {day}
      /\ f[day] = Observe(Bucket(d.daily, day), e)
      /\ \A x \in DOMAIN f : f[x] \in CoherentSummaries
  BY <1>1, <1>3, ObservePreserves
<1>0. f = [x \in DOMAIN f |-> f[x]]
  OBVIOUS
<1> HIDE DEF f
<1>5. DOMAIN f \subseteq Days /\ DOMAIN f \subseteq Nat
  BY <1>1, <1>4, Limits
<1>6. /\ IsFiniteSet(DOMAIN f)
      /\ Cardinality(DOMAIN f) <= MaxDays + 1
  <2>1. Cardinality(DOMAIN d.daily) \in Nat
    BY <1>1, FS_CardinalityType
  <2>2. /\ IsFiniteSet(DOMAIN d.daily \cup {day})
        /\ Cardinality(DOMAIN d.daily \cup {day}) <= Cardinality(DOMAIN d.daily) + 1
    <3>1. IsFiniteSet(DOMAIN d.daily)
      BY <1>1
    <3>2. /\ IsFiniteSet(DOMAIN d.daily \cup {day})
          /\ Cardinality(DOMAIN d.daily \cup {day}) =
               IF day \in DOMAIN d.daily THEN Cardinality(DOMAIN d.daily)
               ELSE Cardinality(DOMAIN d.daily) + 1
      BY <3>1, FS_AddElement
    <3> QED
      BY <2>1, <3>2
  <2>3. Cardinality(DOMAIN d.daily \cup {day}) \in Nat
    BY <2>2, FS_CardinalityType
  <2> QED
    BY <1>1, <1>4, <2>1, <2>2, <2>3, Limits
<1>7. /\ DOMAIN Evicted(f) \subseteq DOMAIN f
      /\ Evicted(f) = [x \in DOMAIN Evicted(f) |-> f[x]]
      /\ Cardinality(DOMAIN Evicted(f)) <= MaxDays
      /\ \A x \in DOMAIN f : (\A y \in DOMAIN f : y <= x + 1) => x \in DOMAIN Evicted(f)
  BY <1>0, <1>5, <1>6, EvictedProperties
<1> DEFINE g == Evicted(f)
<1> HIDE DEF g
<1>8. \A x \in DOMAIN g : g[x] = f[x]
  BY <1>7 DEF g
<1>9. g \in [DOMAIN g -> CoherentSummaries]
  BY <1>4, <1>7, <1>8 DEF g
<1>10. g \in Buckets
  <2>1. DOMAIN g \in SUBSET Days
    BY <1>5, <1>7 DEF g
  <2> QED
    BY <1>9, <2>1 DEF Buckets
<1>11. e.saved \in Nat
  BY DEF Events
<1>12. R \in DataRecords
  BY <1>1, <1>2, <1>7, <1>10, <1>11, ObservePreserves DEF DataRecords, g
<1>13. R.all.events >= d.all.events /\ R.all.saved >= d.all.saved
  BY <1>1, <1>2, ObservePreserves
<1>14. DOMAIN R.daily \subseteq DOMAIN d.daily \cup {day}
  BY <1>2, <1>4, <1>7
<1>15. ASSUME \A x \in DOMAIN d.daily : x <= day + 1
       PROVE  Bucket(R.daily, day) = Observe(Bucket(d.daily, day), e)
  <2>1. day \in Nat
    BY Limits
  <2>2. \A x \in DOMAIN f : x <= day + 1
    BY <1>4, <1>15, <2>1
  <2>3. day \in DOMAIN g
    BY <1>4, <1>7, <2>2 DEF g
  <2>4. R.daily = g
    BY <1>2 DEF g
  <2> QED
    BY <1>4, <1>8, <2>3, <2>4 DEF Bucket
<1> QED
  BY <1>12, <1>13, <1>14, <1>15

-----------------------------------------------------------------------------
(* What the session knows of *)

LEMMA WaitingShape ==
  ASSUME NEW t, NEW c \in Seq(Observations), t.at = "ledger" => t.event \in Events
  PROVE  /\ Waiting(t, c) \in Seq(Either)
         /\ t.at = "ledger" => /\ Len(Waiting(t, c)) = Len(c) + 1
                              /\ Waiting(t, c)[1] = t.event
                              /\ \A i \in 1 .. Len(c) : Waiting(t, c)[i + 1] = c[i]
         /\ t.at # "ledger" => Waiting(t, c) = c
<1> DEFINE w == Waiting(t, c)
<1>1. c \in Seq(Either)
  BY Below, SeqMonotonic
<1>2. CASE t.at = "ledger"
  <2>1. t.event \in Either
    BY <1>2, Below
  <2>2. /\ <<t.event>> \in Seq(Either) /\ Len(<<t.event>>) = 1
        /\ <<t.event>>[1] = t.event
    BY <2>1
  <2>3. w = <<t.event>> \o c
    BY <1>2 DEF Waiting
  <2>4. /\ <<t.event>> \o c \in Seq(Either)
        /\ Len(<<t.event>> \o c) = 1 + Len(c)
        /\ \A i \in 1 .. 1 + Len(c) :
             (<<t.event>> \o c)[i] = IF i <= 1 THEN <<t.event>>[i] ELSE c[i - 1]
    BY <1>1, <2>2, ConcatProperties
  <2>5. Len(c) \in Nat
    BY <1>1, LenProperties
  <2> HIDE DEF w
  <2>6. w[1] = t.event
    BY <2>2, <2>3, <2>4, <2>5
  <2>7. ASSUME NEW i \in 1 .. Len(c) PROVE w[i + 1] = c[i]
    <3>1. i + 1 \in 1 .. 1 + Len(c) /\ ~(i + 1 <= 1) /\ (i + 1) - 1 = i
      BY <2>5
    <3> QED
      BY <2>3, <2>4, <3>1
  <2>8. w \in Seq(Either) /\ Len(w) = Len(c) + 1
    BY <2>3, <2>4, <2>5
  <2> QED
    BY <1>2, <2>6, <2>7, <2>8 DEF w
<1>3. CASE t.at # "ledger"
  <2>1. w = <<>> \o c
    BY <1>3 DEF Waiting
  <2> QED
    BY <1>1, <1>3, <2>1, ConcatEmptySeq
<1> QED
  BY <1>2, <1>3

LEMMA KnownShape ==
  ASSUME NEW l \in Seq(Events), NEW t, NEW c \in Seq(Observations),
         t.at = "ledger" => t.event \in Events
  PROVE  /\ KnownOf(l, t, c) \in Seq(Either)
         /\ Len(l) \in Nat /\ Len(Waiting(t, c)) \in Nat
         /\ Len(KnownOf(l, t, c)) = Len(l) + Len(Waiting(t, c))
         /\ \A i \in 1 .. Len(l) : KnownOf(l, t, c)[i] = l[i]
         /\ \A i \in 1 .. Len(Waiting(t, c)) : KnownOf(l, t, c)[Len(l) + i] = Waiting(t, c)[i]
<1> DEFINE w == Waiting(t, c)
           k == KnownOf(l, t, c)
<1>1. l \in Seq(Either) /\ w \in Seq(Either)
  BY Below, SeqMonotonic, WaitingShape
<1>2. k = l \o w
  BY DEF KnownOf
<1> HIDE DEF w, k
<1>3. /\ k \in Seq(Either)
      /\ Len(k) = Len(l) + Len(w)
      /\ \A i \in 1 .. Len(l) + Len(w) : k[i] = IF i <= Len(l) THEN l[i] ELSE w[i - Len(l)]
  BY <1>1, <1>2, ConcatProperties
<1>4. Len(l) \in Nat /\ Len(w) \in Nat
  BY <1>1, LenProperties
<1>5. \A i \in 1 .. Len(l) : k[i] = l[i]
  BY <1>3, <1>4
<1>6. ASSUME NEW i \in 1 .. Len(w) PROVE k[Len(l) + i] = w[i]
  <2>1. /\ Len(l) + i \in 1 .. Len(l) + Len(w)
        /\ ~(Len(l) + i <= Len(l))
        /\ (Len(l) + i) - Len(l) = i
    BY <1>4
  <2> QED
    BY <1>3, <2>1
<1> QED
  BY <1>3, <1>4, <1>5, <1>6 DEF w, k

\* What was known may be forgotten from its end, as long as that is counted.
LEMMA OnceKept ==
  ASSUME Typed, Typed', Once, Emitted' = Emitted,
         Len(Known') <= Len(Known),
         \A i \in 1 .. Len(Known') : Known'[i].id = Known[i].id,
         Len(Known') + dropped' + lost'.session = Len(Known) + dropped + lost.session
  PROVE  Once'
<1>1. Len(Known) \in Nat /\ Len(Known') \in Nat
  <2>1. Known \in Seq(Either)
    BY KnownShape DEF Typed, Known
  <2>2. Known' \in Seq(Either)
    BY KnownShape DEF Typed, Known
  <2> QED
    BY <2>1, <2>2, LenProperties
<1>2. \A i \in 1 .. Len(Known') : i \in 1 .. Len(Known)
  BY <1>1
<1> QED
  BY <1>2 DEF Once

-----------------------------------------------------------------------------
(* Initially *)

LEMMA InitInv ==
  ASSUME Init
  PROVE  Inv
<1>1. Typed
  <2>1. <<>> \in Seq(Observations) /\ <<>> \in Seq(Events) /\ Len(<<>>) = 0
    BY EmptySeq
  <2>2. stream \in [Requests -> [at : {"none", "open", "ended", "abandoned", "done"},
                                pending : Prepared \cup {None}]]
    BY DEF Init
  <2>3. /\ task \in [at : {"off", "recv", "ledger", "store"}, event : Events \cup {None}]
        /\ task.at = "off"
    BY DEF Init, Off
  <2>4. channel \in Seq(Observations) /\ Len(channel) <= Capacity /\ ledger \in Seq(Events)
    BY <2>1, Limits DEF Init
  <2>5. store \in [data : DataRecords, dirty : BOOLEAN] /\ disk \in DataRecords
    BY EmptyStoreIsData DEF Init
  <2> QED
    BY <2>2, <2>3, <2>4, <2>5, Limits DEF Init, Typed
<1>2. Dated
  BY EmptyStoreIsData DEF Init, Dated
<1>3. Wired
  BY DEF Init, Wired
<1>4. Ahead
  BY NoSavingsIsCoherent, SummaryNumbers DEF Init, Ahead, EmptyStore
<1>5. Once
  <2>1. Emitted = {}
    BY DEF Init, Emitted
  <2>2. Known = <<>>
    <3>1. Waiting(task, channel) = <<>>
      <4>1. task.at = "off" /\ channel = <<>> /\ <<>> \in Seq(Observations)
        BY EmptySeq DEF Init, Off
      <4> QED
        BY <4>1, WaitingShape
    <3> QED
      BY <3>1, ConcatEmptySeq, EmptySeq DEF Known, KnownOf, Init
  <2>3. Len(<<>>) = 0 /\ 1 .. 0 = {}
    OBVIOUS
  <2> QED
    BY <2>1, <2>2, <2>3, FS_EmptySet DEF Init, Once
<1> QED
  BY <1>1, <1>2, <1>3, <1>4, <1>5 DEF Inv

-----------------------------------------------------------------------------
(* A response stream *)

LEMMA GotoShape ==
  ASSUME Typed, NEW r \in Requests,
         NEW stage \in {"none", "open", "ended", "abandoned", "done"},
         NEW p \in Prepared \cup {None}, Goto(r, stage, p)
  PROVE  /\ stream' \in [Requests -> [at : {"none", "open", "ended", "abandoned", "done"},
                                    pending : Prepared \cup {None}]]
         /\ stream'[r].at = stage /\ stream'[r].pending = p
         /\ \A q \in Requests \ {r} : stream'[q] = stream[q]
BY DEF Typed, Goto

LEMMA OpenStep ==
  ASSUME Inv, NEW r \in Requests, Open(r),
         UNCHANGED <<control, records, disk, clock, lost>>
  PROVE  Inv'
<1>1. PICK p \in Prepared : Goto(r, "open", p)
  BY DEF Open
<1>2. /\ stream' \in [Requests -> [at : {"none", "open", "ended", "abandoned", "done"},
                                 pending : Prepared \cup {None}]]
      /\ stream'[r].at = "open" /\ stream'[r].pending = p
      /\ \A q \in Requests \ {r} : stream'[q] = stream[q]
  BY <1>1, GotoShape DEF Inv
<1>3. UNCHANGED <<process, link, quitting, task, ledger, store, opened, disk, day, latest,
                  lost, channel, dropped>>
  BY DEF Open, control, records, clock
<1>4. link = "up" /\ stream[r].at = "none"
  BY DEF Open, At
<1>5. Typed'
  BY <1>2, <1>3 DEF Inv, Typed
<1>6. Dated' /\ Ahead'
  BY <1>3 DEF Inv, Dated, Ahead
<1>7. Wired'
  BY <1>2, <1>3, <1>4 DEF Inv, Wired
<1>8. Emitted' = Emitted
  BY <1>2, <1>4 DEF Emitted
<1>9. Once'
  BY <1>3, <1>8 DEF Inv, Once, Known
<1> QED
  BY <1>5, <1>6, <1>7, <1>9 DEF Inv

LEMMA CloseStep ==
  ASSUME Inv, NEW r \in Requests, Close(r),
         UNCHANGED <<control, records, disk, clock, lost>>
  PROVE  Inv'
<1>1. PICK stage \in {"abandoned", "done"} :
        /\ Goto(r, stage, None)
        /\ stream[r].at = IF stage = "done" THEN "ended" ELSE "open"
  BY DEF Close, At
<1>2. /\ stream' \in [Requests -> [at : {"none", "open", "ended", "abandoned", "done"},
                                 pending : Prepared \cup {None}]]
      /\ stream'[r].at = stage /\ stream'[r].pending = None
      /\ \A q \in Requests \ {r} : stream'[q] = stream[q]
  BY <1>1, GotoShape DEF Inv
<1>3. UNCHANGED <<process, link, quitting, task, ledger, store, opened, disk, day, latest,
                  lost, channel, dropped>>
  BY DEF Close, control, records, clock
<1>5. Typed'
  BY <1>2, <1>3 DEF Inv, Typed
<1>6. Dated' /\ Ahead'
  BY <1>3 DEF Inv, Dated, Ahead
<1>7. Wired'
  BY <1>2, <1>3 DEF Inv, Wired
<1>8. Emitted' = Emitted
  BY <1>1, <1>2 DEF Emitted
<1>9. Once'
  BY <1>3, <1>8 DEF Inv, Once, Known
<1> QED
  BY <1>5, <1>6, <1>7, <1>9 DEF Inv

\* A response that ends is known for the first time, or counted as dropped.
LEMMA EmitStep ==
  ASSUME Inv, NEW r \in Requests, Emit(r),
         UNCHANGED <<control, records, disk, clock, lost>>
  PROVE  Inv'
<1>1. /\ stream' \in [Requests -> [at : {"none", "open", "ended", "abandoned", "done"},
                                 pending : Prepared \cup {None}]]
      /\ stream'[r].at = "ended" /\ stream'[r].pending = None
      /\ \A q \in Requests \ {r} : stream'[q] = stream[q]
  BY GotoShape DEF Inv, Emit
<1>2. UNCHANGED <<process, link, quitting, task, ledger, store, opened, disk, day, latest, lost>>
  BY DEF control, records, clock
<1>3. /\ stream[r].pending \in Prepared /\ stream[r].at = "open" /\ link = "up"
  BY DEF Emit, Inv, Wired, Typed
<1>4. PICK usage \in Usages : Send(r, usage)
  BY DEF Emit
<1> DEFINE o == [id |-> r, outcome |-> stream[r].pending.outcome,
                 saved |-> stream[r].pending.saved, usage |-> usage]
<1>5. o \in Observations /\ o.id = r
  BY <1>3, TelemetryAssumption DEF Observations
<1>6. Dated' /\ Ahead'
  BY <1>2 DEF Inv, Dated, Ahead
<1>7. Wired'
  BY <1>1, <1>2, <1>3 DEF Inv, Wired
<1>8. r \notin Emitted /\ Emitted' = Emitted \cup {r}
  BY <1>1, <1>3 DEF Emitted
<1>9. /\ IsFiniteSet(Emitted') /\ Cardinality(Emitted') = Cardinality(Emitted) + 1
  <2>1. IsFiniteSet(Emitted)
    BY DEF Inv, Once
  <2> QED
    BY <1>8, <2>1, FS_AddElement
<1>10. /\ Known \in Seq(Either) /\ Len(Known) \in Nat
       /\ Waiting(task, channel) \in Seq(Either)
  BY KnownShape, WaitingShape, LenProperties DEF Inv, Typed, Known
<1>11. dropped \in Nat /\ lost.session \in Nat /\ lost' = lost
  BY <1>2 DEF Inv, Typed
<1>12. CASE Len(channel) < Capacity
  <2>1. channel' = Append(channel, o) /\ dropped' = dropped
    BY <1>4, <1>12 DEF Send
  <2> HIDE DEF o
  <2>2. /\ channel' \in Seq(Observations) /\ Len(channel') = Len(channel) + 1
        /\ Len(channel) \in Nat
    BY <1>5, <2>1, AppendProperties, LenProperties DEF Inv, Typed
  <2>3. Len(channel') <= Capacity
    BY <1>12, <2>2, Limits
  <2>4. Typed'
    BY <1>1, <1>2, <2>1, <2>2, <2>3 DEF Inv, Typed
  <2>5. o \in Either
    BY <1>5, Below
  <2>6. Known' = Append(Known, o)
    <3>1. channel \in Seq(Either) /\ ledger \in Seq(Either)
      BY Below, SeqMonotonic DEF Inv, Typed
    <3>2. Waiting(task, channel') = Append(Waiting(task, channel), o)
      <4>1. CASE task.at = "ledger"
        <5>1. task.event \in Either
          BY <4>1, Below DEF Inv, Typed
        <5>2. <<task.event>> \in Seq(Either) /\ <<o>> \in Seq(Either)
          BY <2>5, <5>1
        <5>3. Append(channel, o) = channel \o <<o>>
          BY <2>5, <3>1, AppendIsConcat
        <5>4. <<task.event>> \o (channel \o <<o>>) = (<<task.event>> \o channel) \o <<o>>
          BY <3>1, <5>2, ConcatAssociative
        <5>5. <<task.event>> \o channel \in Seq(Either)
          BY <3>1, <5>2, ConcatProperties
        <5>6. Append(<<task.event>> \o channel, o) = (<<task.event>> \o channel) \o <<o>>
          BY <2>5, <5>5, AppendIsConcat
        <5> QED
          BY <2>1, <4>1, <5>3, <5>4, <5>6 DEF Waiting
      <4>2. CASE task.at # "ledger"
        <5>1. Waiting(task, channel) = channel
          BY <4>2, WaitingShape DEF Inv, Typed
        <5>2. Waiting(task, channel') = channel'
          BY <2>2, <4>2, WaitingShape
        <5> QED
          BY <2>1, <5>1, <5>2
      <4> QED
        BY <4>1, <4>2
    <3>3. <<o>> \in Seq(Either)
      BY <2>5
    <3>4. Append(Waiting(task, channel), o) = Waiting(task, channel) \o <<o>>
      BY <1>10, <2>5, AppendIsConcat
    <3>5. ledger \o (Waiting(task, channel) \o <<o>>)
            = (ledger \o Waiting(task, channel)) \o <<o>>
      BY <1>10, <3>1, <3>3, ConcatAssociative
    <3>6. Append(Known, o) = Known \o <<o>>
      BY <1>10, <2>5, AppendIsConcat
    <3>7. Known' = ledger \o Waiting(task, channel')
      BY <1>2 DEF Known, KnownOf
    <3>8. Known = ledger \o Waiting(task, channel)
      BY DEF Known, KnownOf
    <3> QED
      BY <3>2, <3>4, <3>5, <3>6, <3>7, <3>8
  <2>7. /\ Len(Known') = Len(Known) + 1
        /\ \A i \in 1 .. Len(Known) : Known'[i] = Known[i]
        /\ Known'[Len(Known) + 1] = o
    BY <1>10, <2>5, <2>6, AppendProperties
  <2>8. \A i \in 1 .. Len(Known') : i \in 1 .. Len(Known) \/ i = Len(Known) + 1
    BY <1>10, <2>7
  <2>9. \A i \in 1 .. Len(Known') : Known'[i].id \in Emitted'
    BY <1>5, <1>8, <2>7, <2>8 DEF Inv, Once
  <2>10. \A i, j \in 1 .. Len(Known') : Known'[i].id = Known'[j].id => i = j
    BY <1>5, <1>8, <2>7, <2>8 DEF Inv, Once
  <2>11. Cardinality(Emitted') = Len(Known') + dropped' + lost'.session
    BY <1>9, <1>10, <1>11, <2>1, <2>7 DEF Inv, Once
  <2> QED
    BY <1>6, <1>7, <1>9, <2>4, <2>9, <2>10, <2>11 DEF Inv, Once
<1>13. CASE ~(Len(channel) < Capacity)
  <2>1. channel' = channel /\ dropped' = dropped + 1
    BY <1>4, <1>13 DEF Send
  <2>2. Typed'
    BY <1>1, <1>2, <1>11, <2>1 DEF Inv, Typed
  <2>3. Known' = Known
    BY <1>2, <2>1 DEF Known
  <2>4. Cardinality(Emitted') = Len(Known') + dropped' + lost'.session
    BY <1>9, <1>10, <1>11, <2>1, <2>3 DEF Inv, Once
  <2>5. Once'
    BY <1>8, <1>9, <2>3, <2>4 DEF Inv, Once
  <2> QED
    BY <1>6, <1>7, <2>2, <2>5 DEF Inv
<1> QED
  BY <1>12, <1>13

-----------------------------------------------------------------------------
(* The observation task *)

LEMMA ReceiveStep ==
  ASSUME Inv, Receive, process = "running",
         UNCHANGED <<control, stream, dropped, disk, clock, opened, lost>>
  PROVE  Inv'
<1>1. UNCHANGED <<process, link, quitting, stream, dropped, ledger, store, disk, day, latest, lost>>
  BY DEF Receive, control, clock
<1>2. /\ channel # <<>> /\ channel' = Tail(channel) /\ task.at = "recv"
      /\ task' = [at |-> "ledger", event |-> Event(Head(channel))]
  BY DEF Receive
<1>3. /\ Head(channel) \in Observations /\ Tail(channel) \in Seq(Observations)
      /\ Len(Tail(channel)) = Len(channel) - 1 /\ Len(channel) \in Nat
      /\ \A i \in 1 .. Len(Tail(channel)) : Tail(channel)[i] = channel[i + 1]
      /\ Head(channel) = channel[1]
  BY <1>2, HeadTailProperties, LenProperties DEF Inv, Typed
<1>4. Event(Head(channel)) \in Events /\ Event(Head(channel)).id = channel[1].id
  BY <1>3, EventOfObservation
<1>5. /\ task'.at = "ledger" /\ task'.event = Event(Head(channel)) /\ task'.event \in Events
      /\ task' \in [at : {"off", "recv", "ledger", "store"}, event : Events \cup {None}]
  BY <1>2, <1>4
<1>6. Typed'
  BY <1>1, <1>2, <1>3, <1>5, Limits DEF Inv, Typed
<1>7. link \notin {"down", "flush"}
  BY <1>2 DEF Inv, Wired, Off
<1>8. Dated' /\ Ahead' /\ Wired'
  BY <1>1, <1>7 DEF Inv, Dated, Ahead, Wired
<1>9. Emitted' = Emitted
  BY <1>1 DEF Emitted
<1> DEFINE w == Waiting(task, channel)
           v == Waiting(task', channel')
<1>10. w = channel
  BY <1>2, WaitingShape DEF Inv, Typed
<1>11. /\ Len(v) = Len(channel') + 1 /\ v[1] = task'.event
       /\ \A i \in 1 .. Len(channel') : v[i + 1] = channel'[i]
  <2>1. channel' \in Seq(Observations)
    BY <1>2, <1>3
  <2>2. task'.at = "ledger" /\ task'.event \in Events
    BY <1>5
  <2> QED
    BY <2>1, <2>2, WaitingShape
<1> HIDE DEF w, v
<1>12. Len(v) = Len(w)
  BY <1>2, <1>3, <1>10, <1>11
<1>13. ASSUME NEW i \in 1 .. Len(v) PROVE v[i].id = w[i].id
  <2>1. CASE i = 1
    BY <1>4, <1>5, <1>10, <1>11, <2>1
  <2>2. CASE i # 1
    <3>1. i - 1 \in 1 .. Len(channel') /\ (i - 1) + 1 = i
      BY <1>2, <1>3, <1>11, <2>2
    <3>2. v[i] = channel'[i - 1]
      BY <1>11, <3>1
    <3>3. channel'[i - 1] = channel[i]
      BY <1>2, <1>3, <3>1
    <3> QED
      BY <1>10, <3>2, <3>3
  <2> QED
    BY <2>1, <2>2
<1>14. /\ Known = KnownOf(ledger, task, channel) /\ Known' = KnownOf(ledger, task', channel')
       /\ Len(ledger) \in Nat /\ Len(v) \in Nat
       /\ Len(Known) = Len(ledger) + Len(w) /\ Len(Known') = Len(ledger) + Len(v)
       /\ \A i \in 1 .. Len(ledger) : Known[i] = ledger[i] /\ Known'[i] = ledger[i]
       /\ \A i \in 1 .. Len(w) : Known[Len(ledger) + i] = w[i]
       /\ \A i \in 1 .. Len(v) : Known'[Len(ledger) + i] = v[i]
  <2>1. Known = KnownOf(ledger, task, channel) /\ Known' = KnownOf(ledger, task', channel')
    BY <1>1 DEF Known
  <2>2. /\ Len(ledger) \in Nat /\ Len(w) \in Nat
        /\ Len(Known) = Len(ledger) + Len(w)
        /\ \A i \in 1 .. Len(ledger) : Known[i] = ledger[i]
        /\ \A i \in 1 .. Len(w) : Known[Len(ledger) + i] = w[i]
    <3>1. /\ ledger \in Seq(Events) /\ channel \in Seq(Observations)
          /\ task.at = "ledger" => task.event \in Events
      BY DEF Inv, Typed
    <3>2. /\ Len(ledger) \in Nat /\ Len(Waiting(task, channel)) \in Nat
          /\ Len(KnownOf(ledger, task, channel)) = Len(ledger) + Len(Waiting(task, channel))
          /\ \A i \in 1 .. Len(ledger) : KnownOf(ledger, task, channel)[i] = ledger[i]
          /\ \A i \in 1 .. Len(Waiting(task, channel)) :
               KnownOf(ledger, task, channel)[Len(ledger) + i] = Waiting(task, channel)[i]
      BY <3>1, KnownShape
    <3> QED
      BY <2>1, <3>2 DEF w
  <2>3. /\ Len(v) \in Nat
        /\ Len(Known') = Len(ledger) + Len(v)
        /\ \A i \in 1 .. Len(ledger) : Known'[i] = ledger[i]
        /\ \A i \in 1 .. Len(v) : Known'[Len(ledger) + i] = v[i]
    <3>1. ledger \in Seq(Events) /\ channel' \in Seq(Observations)
      BY <1>2, <1>3 DEF Inv, Typed
    <3>2. task'.at = "ledger" => task'.event \in Events
      BY <1>5
    <3>3. KnownOf(ledger, task', channel') = Known'
      BY <2>1
    <3>4. /\ Len(ledger) \in Nat /\ Len(Waiting(task', channel')) \in Nat
          /\ Len(KnownOf(ledger, task', channel')) = Len(ledger) + Len(Waiting(task', channel'))
          /\ \A i \in 1 .. Len(ledger) : KnownOf(ledger, task', channel')[i] = ledger[i]
          /\ \A i \in 1 .. Len(Waiting(task', channel')) :
               KnownOf(ledger, task', channel')[Len(ledger) + i] = Waiting(task', channel')[i]
      BY <3>1, <3>2, KnownShape
    <3> QED
      BY <3>3, <3>4 DEF v
  <2> QED
    BY <2>1, <2>2, <2>3
<1>15. ASSUME NEW i \in 1 .. Len(Known') PROVE Known'[i].id = Known[i].id
  <2>1. CASE i <= Len(ledger)
    BY <1>14, <2>1
  <2>2. CASE ~(i <= Len(ledger))
    <3>1. i - Len(ledger) \in 1 .. Len(v) /\ Len(ledger) + (i - Len(ledger)) = i
      BY <1>14, <2>2
    <3>2. Known'[i] = v[i - Len(ledger)] /\ Known[i] = w[i - Len(ledger)]
      BY <1>12, <1>14, <3>1
    <3> QED
      BY <1>13, <3>1, <3>2
  <2> QED
    BY <2>1, <2>2
<1>16. Len(Known') = Len(Known) /\ Len(Known) \in Nat
  BY <1>12, <1>14
<1>17. Len(Known') <= Len(Known)
  BY <1>16
<1>18. Len(Known') + dropped' + lost'.session = Len(Known) + dropped + lost.session
  BY <1>1, <1>16
<1>19. Once'
  BY <1>6, <1>9, <1>15, <1>17, <1>18, OnceKept DEF Inv
<1> QED
  BY <1>6, <1>8, <1>19 DEF Inv

LEMMA RecordSessionStep ==
  ASSUME Inv, RecordSession, process = "running",
         UNCHANGED <<control, stream, dropped, disk, clock, opened, lost>>
  PROVE  Inv'
<1>1. UNCHANGED <<process, link, quitting, stream, channel, dropped, store, disk, day, latest, lost>>
  BY DEF RecordSession, control, clock
<1>2. /\ task.at = "ledger" /\ task.event \in Events
      /\ ledger' = Append(ledger, task.event)
      /\ task' \in [at : {"off", "recv", "ledger", "store"}, event : Events \cup {None}]
      /\ task'.at = "store" /\ task'.event = task.event
  BY DEF Inv, Typed, RecordSession
<1>3. ledger' \in Seq(Events)
  BY <1>2, AppendProperties DEF Inv, Typed
<1>4. Typed'
  BY <1>1, <1>2, <1>3 DEF Inv, Typed
<1>5. link \notin {"down", "flush"}
  BY <1>2 DEF Inv, Wired, Off
<1>6. Dated' /\ Ahead' /\ Wired'
  BY <1>1, <1>5 DEF Inv, Dated, Ahead, Wired
<1>7. Emitted' = Emitted
  BY <1>1 DEF Emitted
<1>8. Known' = Known
  <2>1. ledger \in Seq(Either) /\ channel \in Seq(Either) /\ <<task.event>> \in Seq(Either)
    BY <1>2, Below, SeqMonotonic DEF Inv, Typed
  <2>2. ledger' = ledger \o <<task.event>>
    BY <1>2, AppendIsConcat DEF Inv, Typed
  <2>3. Waiting(task', channel') = channel
    BY <1>1, <1>2, WaitingShape DEF Inv, Typed
  <2>4. Waiting(task, channel) = <<task.event>> \o channel
    BY <1>2 DEF Waiting
  <2>5. (ledger \o <<task.event>>) \o channel = ledger \o (<<task.event>> \o channel)
    BY <2>1, ConcatAssociative
  <2> QED
    BY <2>2, <2>3, <2>4, <2>5 DEF Known, KnownOf
<1>9. Once'
  BY <1>1, <1>7, <1>8 DEF Inv, Once
<1> QED
  BY <1>4, <1>6, <1>9 DEF Inv

LEMMA RecordDurableStep ==
  ASSUME Inv, RecordDurable, process = "running",
         UNCHANGED <<control, stream, dropped, disk, clock, opened, lost>>
  PROVE  Inv'
<1>1. UNCHANGED <<process, link, quitting, stream, channel, dropped, ledger, disk, day, latest, lost>>
  BY DEF RecordDurable, control, clock
<1>2. /\ task.at = "store" /\ task.event \in Events /\ task' = Receiving
      /\ store' = [data |-> Recorded(store.data, task.event), dirty |-> TRUE]
      /\ store.data \in DataRecords /\ disk \in DataRecords /\ day \in Days
  BY DEF Inv, Typed, RecordDurable
<1>3. /\ store'.data \in DataRecords
      /\ store'.data.all.events >= store.data.all.events
      /\ store'.data.all.saved >= store.data.all.saved
      /\ DOMAIN store'.data.daily \subseteq DOMAIN store.data.daily \cup {day}
  BY <1>2, RecordedProperties
<1>4. Typed'
  BY <1>1, <1>2, <1>3 DEF Inv, Typed, Receiving
<1>5. link \notin {"down", "flush"}
  BY <1>2 DEF Inv, Wired, Off
<1>6. Dated'
  BY <1>1, <1>3 DEF Inv, Dated
<1>7. Ahead'
  <2>1. /\ disk.all.events \in Nat /\ disk.all.saved \in Nat
        /\ store.data.all.events \in Nat /\ store.data.all.saved \in Nat
        /\ store'.data.all.events \in Nat /\ store'.data.all.saved \in Nat
    BY <1>2, <1>3, DataParts, SummaryNumbers
  <2> QED
    BY <1>1, <1>3, <2>1 DEF Inv, Ahead
<1>8. Wired'
  BY <1>1, <1>2, <1>5 DEF Inv, Wired
<1>9. Emitted' = Emitted
  BY <1>1 DEF Emitted
<1>10. Known' = Known
  <2>1. channel \in Seq(Observations) /\ task.at = "store" /\ task'.at = "recv"
    BY <1>2 DEF Inv, Typed, Receiving
  <2>2. Waiting(task, channel) = channel /\ Waiting(task', channel) = channel
    BY <2>1, WaitingShape
  <2> QED
    BY <1>1, <2>2 DEF Known, KnownOf
<1>11. Once'
  BY <1>1, <1>9, <1>10 DEF Inv, Once
<1> QED
  BY <1>4, <1>6, <1>7, <1>8, <1>11 DEF Inv

-----------------------------------------------------------------------------
(* The controller *)

\* What becomes of the store and the file in a step that leaves them alone, that
\* writes, or that fails to.
LEMMA Kept ==
  ASSUME Inv, UNCHANGED <<store, disk>> \/ Flush
  PROVE  /\ store' \in [data : DataRecords, dirty : BOOLEAN] /\ disk' \in DataRecords
         /\ store'.data = store.data
         /\ ~store'.dirty => disk' = store'.data
         /\ disk = store.data => disk' = store'.data
         /\ Flush => disk' = store'.data
         /\ disk' \in {disk, store.data}
         /\ Ahead'
<1>1. /\ store \in [data : DataRecords, dirty : BOOLEAN] /\ disk \in DataRecords
      /\ ~store.dirty => disk = store.data
      /\ Ahead
  BY DEF Inv, Typed, Wired
<1>2. CASE UNCHANGED <<store, disk>> /\ ~Flush
  BY <1>1, <1>2 DEF Ahead
<1>3. CASE Flush
  <2>1. /\ store' = [store EXCEPT !.dirty = FALSE]
        /\ disk' = store.data
    BY <1>1, <1>3 DEF Flush
  <2>2. /\ store' \in [data : DataRecords, dirty : BOOLEAN] /\ store'.data = store.data
        /\ disk' \in DataRecords
    BY <1>1, <2>1
  <2>3. /\ store.data.all.events \in Nat /\ store.data.all.saved \in Nat
    BY <1>1, DataParts, SummaryNumbers
  <2>4. Ahead'
    BY <2>1, <2>2, <2>3 DEF Ahead
  <2> QED
    BY <2>1, <2>2, <2>4
<1> QED
  BY <1>2, <1>3

LEMMA KeptDated ==
  ASSUME Inv, UNCHANGED <<store, disk>> \/ Flush, UNCHANGED <<day, latest>>
  PROVE  Dated'
BY Kept DEF Inv, Dated

LEMMA ConnectStep ==
  ASSUME Inv, Connect, process = "running", UNCHANGED <<process, stream, clock, opened>>
  PROVE  Inv'
<1>1. UNCHANGED <<process, quitting, stream, ledger, store, disk, day, latest>>
  BY DEF Connect, clock
<1>2. /\ link = "down" /\ link' = "up" /\ channel' = <<>> /\ dropped' = 0
      /\ task' = Receiving /\ lost' = [lost EXCEPT !.session = @ + dropped]
  BY DEF Connect
<1>3. channel = <<>> /\ task = Off
  BY <1>2 DEF Inv, Wired
<1>4. /\ lost' \in [session : Nat, store : Nat] /\ lost'.session = lost.session + dropped
  BY <1>2 DEF Inv, Typed
<1>5. Typed'
  <2>1. task' \in [at : {"off", "recv", "ledger", "store"}, event : Events \cup {None}]
        /\ task'.at = "recv"
    BY <1>2 DEF Receiving
  <2> QED
    BY <1>1, <1>2, <1>3, <1>4, <2>1 DEF Inv, Typed
<1>6. Dated' /\ Ahead'
  BY <1>1 DEF Inv, Dated, Ahead
<1>7. Wired'
  BY <1>1, <1>2 DEF Inv, Wired
<1>8. Emitted' = Emitted
  BY <1>1 DEF Emitted
<1>9. Known' = Known
  BY <1>1, <1>2, <1>3 DEF Known, KnownOf, Waiting, Receiving, Off
<1>10. Once'
  <2>1. Len(Known) \in Nat
    BY KnownShape, LenProperties DEF Inv, Typed, Known
  <2>2. dropped \in Nat /\ lost.session \in Nat
    BY DEF Inv, Typed
  <2> QED
    BY <1>2, <1>4, <1>8, <1>9, <2>1, <2>2 DEF Inv, Once
<1> QED
  BY <1>5, <1>6, <1>7, <1>10 DEF Inv

LEMMA BeginDisconnectStep ==
  ASSUME Inv, BeginDisconnect, process = "running", UNCHANGED <<process, stream, clock, opened>>
  PROVE  Inv'
<1>1. UNCHANGED <<process, stream, channel, dropped, task, ledger, store, disk, day, latest, lost>>
  BY DEF BeginDisconnect, clock
<1>2. /\ link' = "drain" /\ quitting' \in BOOLEAN
      /\ \A r \in Requests : stream[r].at \notin {"open", "ended"}
  BY DEF BeginDisconnect, Active
<1>3. Typed' /\ Dated' /\ Ahead'
  BY <1>1, <1>2 DEF Inv, Typed, Dated, Ahead
<1>4. Wired'
  BY <1>1, <1>2 DEF Inv, Wired
<1>5. Once'
  BY <1>1 DEF Inv, Once, Known, Emitted
<1> QED
  BY <1>3, <1>4, <1>5 DEF Inv

LEMMA TaskEndsStep ==
  ASSUME Inv, TaskEnds, process = "running", UNCHANGED <<process, stream, clock, opened>>
  PROVE  Inv'
<1>1. UNCHANGED <<process, quitting, stream, channel, dropped, ledger, store, disk, day, latest, lost>>
  BY DEF TaskEnds, clock
<1>2. /\ link = "drain" /\ link' = "flush" /\ task.at = "recv" /\ channel = <<>> /\ task' = Off
  BY DEF TaskEnds
<1>3. /\ task' \in [at : {"off", "recv", "ledger", "store"}, event : Events \cup {None}]
      /\ task'.at = "off"
  BY <1>2 DEF Off
<1>4. Typed'
  BY <1>1, <1>2, <1>3 DEF Inv, Typed
<1>5. Dated' /\ Ahead'
  BY <1>1 DEF Inv, Dated, Ahead
<1>6. Wired'
  BY <1>1, <1>2 DEF Inv, Wired
<1>7. Known' = Known /\ Emitted' = Emitted
  BY <1>1, <1>2, <1>3 DEF Known, KnownOf, Waiting, Emitted
<1>8. Once'
  BY <1>1, <1>7 DEF Inv, Once
<1> QED
  BY <1>4, <1>5, <1>6, <1>8 DEF Inv

LEMMA AbortStep ==
  ASSUME Inv, Abort, process = "running", UNCHANGED <<process, stream, clock, opened>>
  PROVE  Inv'
<1>1. UNCHANGED <<process, quitting, stream, dropped, ledger, store, disk, day, latest>>
  BY DEF Abort, clock
<1>2. /\ link = "drain" /\ link' = "flush" /\ task' = Off /\ channel' = <<>>
      /\ lost' = [session |-> lost.session + Len(channel)
           + (IF task.at = "ledger" THEN 1 ELSE 0),
                  store   |-> lost.store + (IF task.at = "store" THEN 1 ELSE 0)]
  BY DEF Abort
<1>3. /\ task' \in [at : {"off", "recv", "ledger", "store"}, event : Events \cup {None}]
      /\ task'.at = "off"
  BY <1>2 DEF Off
<1>4. /\ Len(channel) \in Nat /\ lost.session \in Nat /\ lost.store \in Nat /\ dropped \in Nat
  BY LenProperties DEF Inv, Typed
<1>5. channel' \in Seq(Observations) /\ Len(channel') = 0
  BY <1>2, EmptySeq
<1>6. lost' \in [session : Nat, store : Nat]
  BY <1>2, <1>4
<1>7. Typed'
  BY <1>1, <1>2, <1>3, <1>5, <1>6, Limits DEF Inv, Typed
<1>8. Dated' /\ Ahead'
  BY <1>1 DEF Inv, Dated, Ahead
<1>9. Wired'
  BY <1>1, <1>2 DEF Inv, Wired
<1>10. Emitted' = Emitted
  BY <1>1 DEF Emitted
<1>11. /\ Len(ledger) \in Nat
       /\ Len(Waiting(task, channel)) = Len(channel) + (IF task.at = "ledger" THEN 1 ELSE 0)
       /\ Len(Known) = Len(ledger) + Len(Waiting(task, channel))
       /\ \A i \in 1 .. Len(ledger) : Known[i] = ledger[i]
  <2>1. Len(Waiting(task, channel)) = Len(channel) + (IF task.at = "ledger" THEN 1 ELSE 0)
    BY <1>4, WaitingShape DEF Inv, Typed
  <2>2. /\ Len(ledger) \in Nat
        /\ Len(Known) = Len(ledger) + Len(Waiting(task, channel))
        /\ \A i \in 1 .. Len(ledger) : Known[i] = ledger[i]
    BY KnownShape DEF Inv, Typed, Known
  <2> QED
    BY <2>1, <2>2
<1>12. Known' = ledger
  <2>1. Waiting(task', channel') = <<>>
    BY <1>2, <1>3, <1>5, WaitingShape
  <2>2. Known' = ledger \o <<>>
    BY <1>1, <2>1 DEF Known, KnownOf
  <2> QED
    BY <2>2, ConcatEmptySeq DEF Inv, Typed
<1>13. /\ Len(Known') <= Len(Known)
       /\ Len(Known') + dropped' + lost'.session = Len(Known) + dropped + lost.session
  <2> DEFINE carried == IF task.at = "ledger" THEN 1 ELSE 0
  <2>1. lost'.session = lost.session + Len(channel) + carried
    BY <1>2
  <2>2. Len(Known') = Len(ledger) /\ dropped' = dropped
    BY <1>1, <1>12
  <2>3. Len(Known) = Len(ledger) + (Len(channel) + carried) /\ Len(ledger) \in Nat
    BY <1>11
  <2>4. carried \in Nat
    OBVIOUS
  <2> HIDE DEF carried
  <2> QED
    BY <1>4, <2>1, <2>2, <2>3, <2>4
<1>14. Once'
  BY <1>7, <1>10, <1>11, <1>12, <1>13, OnceKept DEF Inv
<1> QED
  BY <1>7, <1>8, <1>9, <1>14 DEF Inv

LEMMA FlushStep ==
  ASSUME Inv, (Tick /\ UNCHANGED process) \/ FinishDisconnect \/ Quit, process = "running",
         UNCHANGED <<stream, clock, opened>>
  PROVE  Inv'
<1>1. UNCHANGED <<stream, channel, dropped, task, ledger, day, latest, lost>>
  BY DEF Tick, FinishDisconnect, Quit, clock
<1>2. UNCHANGED <<store, disk>> \/ Flush
  BY DEF Tick, FinishDisconnect, Quit, FlushFails
<1>3. /\ process' \in {"running", "exited"} /\ quitting' \in BOOLEAN
      /\ link' = link \/ (link = "flush" /\ link' = "down")
      /\ process' = "exited" => Flush /\ link' = "down"
  BY DEF Inv, Typed, Tick, FinishDisconnect, Quit, FlushFails
<1>4. Typed'
  BY <1>1, <1>2, <1>3, Kept DEF Inv, Typed
<1>5. Dated' /\ Ahead'
  BY <1>1, <1>2, Kept, KeptDated
<1>6. Wired'
  BY <1>1, <1>2, <1>3, Kept DEF Inv, Wired
<1>7. Once'
  BY <1>1 DEF Inv, Once, Known, Emitted
<1> QED
  BY <1>4, <1>5, <1>6, <1>7 DEF Inv

-----------------------------------------------------------------------------
(* The process and the clock *)

LEMMA LoseMemoryStep ==
  ASSUME Inv, LoseMemory, process' \in {"running", "dead"},
         store' = [data |-> disk, dirty |-> FALSE], UNCHANGED <<disk, clock>>
  PROVE  Inv'
<1>1. UNCHANGED <<disk, day, latest>>
  BY DEF clock
<1>2. /\ link' = "down" /\ quitting' = FALSE /\ channel' = <<>> /\ dropped' = 0
      /\ task' = Off /\ ledger' = <<>> /\ lost' = [session |-> 0, store |-> 0]
      /\ stream' = [r \in Requests |-> IF stream[r].at = "none" THEN stream[r]
                                      ELSE [at |-> "abandoned", pending |-> None]]
  BY DEF LoseMemory, At
<1>3. /\ stream' \in [Requests -> [at : {"none", "open", "ended", "abandoned", "done"},
                                 pending : Prepared \cup {None}]]
      /\ \A r \in Requests : /\ stream'[r].at \in {"none", "abandoned"}
                             /\ stream'[r].pending = None
  BY <1>2 DEF Inv, Typed, Wired
<1>4. /\ channel' \in Seq(Observations) /\ Len(channel') = 0 /\ ledger' \in Seq(Events)
  BY <1>2, EmptySeq
<1>5. /\ task' \in [at : {"off", "recv", "ledger", "store"}, event : Events \cup {None}]
      /\ task'.at = "off"
  BY <1>2 DEF Off
<1>6. /\ store' \in [data : DataRecords, dirty : BOOLEAN] /\ store'.data = disk /\ ~store'.dirty
      /\ lost' \in [session : Nat, store : Nat] /\ lost'.session = 0
  BY <1>2 DEF Inv, Typed
<1>7. Typed'
  <2>1. Len(channel') <= Capacity
    BY <1>4, Limits
  <2>2. /\ process' \in {"running", "exited", "dead"} /\ quitting' \in BOOLEAN
        /\ link' \in {"down", "up", "drain", "flush"} /\ dropped' \in Nat
    BY <1>2
  <2>3. disk' \in DataRecords /\ day' \in Days /\ latest' \in Days
    BY <1>1 DEF Inv, Typed
  <2> QED
    BY <1>3, <1>4, <1>5, <1>6, <2>1, <2>2, <2>3 DEF Typed
<1>8. Dated'
  BY <1>1, <1>6 DEF Inv, Dated
<1>9. Ahead'
  <2>1. disk.all.events \in Nat /\ disk.all.saved \in Nat
    BY DataParts, SummaryNumbers DEF Inv, Typed
  <2> QED
    BY <1>1, <1>6, <2>1 DEF Ahead
<1>10. Wired'
  BY <1>1, <1>2, <1>3, <1>6 DEF Wired
<1>11. Emitted' = {}
  BY <1>3 DEF Emitted
<1>12. Known' = <<>>
  <2>1. channel' = <<>> /\ ledger' = <<>> /\ task'.at # "ledger"
    BY <1>2, <1>5
  <2>2. Waiting(task', channel') = <<>>
    BY <1>4, <2>1, WaitingShape
  <2> QED
    BY <2>1, <2>2, EmptySeq, ConcatEmptySeq DEF Known, KnownOf
<1>13. Len(<<>>) = 0 /\ 1 .. 0 = {}
  OBVIOUS
<1>14. Once'
  BY <1>2, <1>6, <1>11, <1>12, <1>13, FS_EmptySet DEF Once
<1> QED
  BY <1>7, <1>8, <1>9, <1>10, <1>14 DEF Inv

LEMMA ClockStep ==
  ASSUME Inv, Clock
  PROVE  Inv'
<1>1. UNCHANGED <<process, link, quitting, stream, channel, dropped, task, ledger, store, disk, lost>>
  BY DEF Clock, control, streams, records
<1>2. /\ day \in Days /\ latest \in Days /\ day <= latest /\ latest <= day + 1
  BY DEF Inv, Typed, Dated
<1>3. /\ day' \in Days /\ latest' \in Days /\ day' <= latest' /\ latest' <= day' + 1
      /\ latest <= latest'
  BY <1>2, Limits DEF Clock, Days
<1>4. Typed'
  BY <1>1, <1>3 DEF Inv, Typed
<1>5. Dated'
  <2>1. DOMAIN store.data.daily \subseteq Nat /\ DOMAIN disk.daily \subseteq Nat
    BY DataParts, Limits DEF Inv, Typed
  <2>2. latest \in Nat /\ latest' \in Nat
    BY <1>2, <1>3, Limits
  <2> QED
    BY <1>1, <1>3, <2>1, <2>2 DEF Inv, Dated
<1>6. Ahead' /\ Wired' /\ Once'
  BY <1>1 DEF Inv, Ahead, Wired, Once, Known, Emitted
<1> QED
  BY <1>4, <1>5, <1>6 DEF Inv

-----------------------------------------------------------------------------
(* Every step *)

LEMMA StutterStep ==
  ASSUME Inv, UNCHANGED vars
  PROVE  Inv'
<1>1. UNCHANGED <<process, link, quitting, stream, channel, dropped, task, ledger,
                  store, disk, day, latest, lost>>
  BY DEF vars
<1> QED
  BY <1>1 DEF Inv, Typed, Dated, Ahead, Wired, Once, Known, Emitted

LEMMA NextInv ==
  ASSUME Inv, [Next]_vars
  PROVE  Inv'
<1>1. CASE \E r \in Requests : process = "running" /\ Stream(r)
  <2>1. PICK r \in Requests : Stream(r)
    BY <1>1
  <2> QED
    BY <2>1, OpenStep, EmitStep, CloseStep DEF Stream
<1>2. CASE Task
  BY <1>2, ReceiveStep, RecordSessionStep, RecordDurableStep DEF Task
<1>3. CASE Controller
  <2>1. process = "running" /\ UNCHANGED <<stream, clock, opened>>
    BY <1>3 DEF Controller
  <2>2. CASE (Connect \/ BeginDisconnect \/ TaskEnds \/ Abort) /\ UNCHANGED process
    BY <2>1, <2>2, ConnectStep, BeginDisconnectStep, TaskEndsStep, AbortStep
  <2>3. CASE Tick /\ UNCHANGED process
    BY <2>1, <2>3, FlushStep
  <2>5. CASE FinishDisconnect \/ Quit
    BY <2>1, <2>5, FlushStep
  <2> QED
    BY <1>3, <2>2, <2>3, <2>5 DEF Controller
<1>4. CASE Crash
  BY <1>4, LoseMemoryStep DEF Crash
<1>5. CASE Launch
  BY <1>5, LoseMemoryStep DEF Launch, OpenedStore
<1>6. CASE Clock
  BY <1>6, ClockStep
<1>7. CASE UNCHANGED vars
  BY <1>7, StutterStep
<1> QED
  BY <1>1, <1>2, <1>3, <1>4, <1>5, <1>6, <1>7 DEF Next

THEOREM Invariance == Spec => []Inv
BY InitInv, NextInv, PTL DEF Spec

\* The type invariant: in particular the channel keeps to its capacity and the
\* store to its MaxDays buckets, whatever the dates events fall on.
THEOREM TypeCorrect == Spec => []TypeOK
<1>1. Inv => TypeOK
  <2> SUFFICES ASSUME Inv PROVE TypeOK
    OBVIOUS
  <2>2. task.at \in {"off", "recv", "ledger", "store"}
    BY DEF Inv, Typed
  <2>3. \A s \in Stores : Cardinality(DOMAIN s.daily) <= MaxDays
    BY DataParts DEF Inv, Typed, Stores
  <2> QED
    BY <2>2, <2>3 DEF Inv, Typed, TypeOK
<1> QED
  BY <1>1, Invariance, PTL

\* Every response that ended is observed once: recorded, on its way, counted as
\* dropped or lost with an aborted task, and never twice.
THEOREM ObservedOnceHolds == Spec => []ObservedOnce
<1>1. Inv => ObservedOnce
  <2> SUFFICES ASSUME Inv PROVE ObservedOnce
    OBVIOUS
  <2>2. ledger \o Pending = Known
    BY DEF Known, KnownOf, Waiting, Pending
  <2>3. Known \in Seq(Either) /\ DOMAIN Known = 1 .. Len(Known)
    BY KnownShape, LenProperties DEF Inv, Typed, Known
  <2>4. IsInjective([i \in DOMAIN Known |-> Known[i].id])
    BY <2>3 DEF Inv, Once, IsInjective
  <2> QED
    BY <2>2, <2>4 DEF Inv, Once, ObservedOnce
<1> QED
  BY <1>1, Invariance, PTL

\* Whoever quits leaves everything that was recorded on disk, and nothing that
\* could still have been recorded behind.
THEOREM CleanExitIsDurableHolds == Spec => []CleanExitIsDurable
<1>1. Inv => CleanExitIsDurable
  BY DEF Inv, Wired, CleanExitIsDurable
<1> QED
  BY <1>1, Invariance, PTL

\* Every summary in the store and in the file is coherent: its classes add up,
\* rates are proper and the estimate follows the bytes, until a sum saturates.
THEOREM SummaryCoherentHolds == Spec => []SummaryCoherent
<1>1. Inv => SummaryCoherent
  <2> SUFFICES ASSUME Inv PROVE SummaryCoherent
    OBVIOUS
  <2>2. \A d \in Stores : d \in DataRecords
    BY DEF Inv, Typed, Stores
  <2>3. \A s \in Summaries : s \in CoherentSummaries
    BY <2>2, DataParts DEF Summaries
  <2>4. \A s \in Summaries : Coherent(s)
    BY <2>3 DEF CoherentSummaries
  <2> QED
    BY <2>4, CoherentShows DEF SummaryCoherent
<1> QED
  BY <1>1, Invariance, PTL

\* No step takes back what was once written to the savings file.
THEOREM DiskNeverGoesBackHolds == Spec => DiskNeverGoesBack
<1>1. Inv /\ [Next]_vars =>
        [/\ disk'.all.events >= disk.all.events
         /\ disk'.all.saved >= disk.all.saved]_vars
  <2> SUFFICES ASSUME Inv, Next
                 PROVE  /\ disk'.all.events >= disk.all.events
                        /\ disk'.all.saved >= disk.all.saved
    OBVIOUS
  <2>2. disk' = disk \/ disk' = store.data
    BY DEF Next, Stream, Task, Controller, Connect, BeginDisconnect, TaskEnds, Abort, Tick,
           FinishDisconnect, Quit, Flush, FlushFails, Crash, Launch, Clock
  <2>3. disk.all.events \in Nat /\ disk.all.saved \in Nat
    BY DataParts, SummaryNumbers DEF Inv, Typed
  <2> QED
    BY <2>2, <2>3 DEF Inv, Ahead
<1> QED
  BY <1>1, Invariance, PTL DEF Spec, DiskNeverGoesBack

\* What is recorded today shows up in today's bucket, also after the local date
\* has stepped back over midnight: the bucket that goes is never today's.
THEOREM TodayIsCountedHolds == Spec => TodayIsCounted
<1>1. Inv /\ [Next]_vars =>
        [RecordDurable =>
           Bucket(store'.data.daily, day)
             = Observe(Bucket(store.data.daily, day), task.event)]_vars
  <2> SUFFICES ASSUME Inv, RecordDurable
                 PROVE  Bucket(store'.data.daily, day)
                          = Observe(Bucket(store.data.daily, day), task.event)
    OBVIOUS
  <2>2. /\ store'.data = Recorded(store.data, task.event)
        /\ store.data \in DataRecords /\ task.event \in Events /\ day \in Days
    BY DEF Inv, Typed, RecordDurable
  <2>3. \A x \in DOMAIN store.data.daily : x <= day + 1
    <3>1. /\ \A x \in DOMAIN store.data.daily : x \in Nat /\ x <= latest
          /\ latest <= day + 1 /\ latest \in Nat /\ day \in Nat
      BY <2>2, DataParts, Limits DEF Inv, Typed, Dated
    <3> QED
      BY <3>1
  <2> QED
    BY <2>2, <2>3, RecordedProperties
<1> QED
  BY <1>1, Invariance, PTL DEF Spec, TodayIsCounted

-----------------------------------------------------------------------------
(* The session and the store *)

\* The fold over the events of a session is the last of the summaries they lead
\* through.
LEMMA SessionTrace ==
  ASSUME NEW base \in CoherentSummaries, NEW events \in Seq(Events)
  PROVE  \E trace \in [0 .. Len(events) -> CoherentSummaries] :
           /\ trace[0] = base
           /\ \A k \in 1 .. Len(events) : trace[k] = Observe(trace[k - 1], events[k])
           /\ FoldLeft(Observe, base, events) = trace[Len(events)]
<1> DEFINE n == Len(events)
           step == [p \in CoherentSummaries \X (1 .. n) |-> Observe(p[1], events[p[2]])]
           jt == CHOOSE jt : jt = [u \in SUBSET (1 .. n) |->
                   IF u = {} THEN base ELSE Observe(jt[u \ {Max(u)}], events[Max(u)])]
<1>1. n \in Nat /\ DOMAIN events = 1 .. n /\ \A k \in 1 .. n : events[k] \in Events
  BY LenProperties, ElementOfSeq
<1>2. ASSUME NEW a \in CoherentSummaries, NEW k \in 1 .. n
      PROVE  Observe(a, events[k]) \in CoherentSummaries
  BY <1>1, ObservePreserves
<1>3. step \in [CoherentSummaries \X (1 .. n) -> CoherentSummaries]
  BY <1>2
<1>4. \E it : it = [u \in SUBSET (1 .. n) |->
                     IF u = {} THEN base ELSE Observe(it[u \ {Max(u)}], events[Max(u)])]
  <2>1. PICK it \in [SUBSET (1 .. n) -> CoherentSummaries] : Iterates(it, n, base, step)
    <3> DEFINE Values == CoherentSummaries
    <3>1. n \in Nat /\ base \in Values /\ step \in [Values \X (1 .. n) -> Values]
      BY <1>1, <1>3
    <3> HIDE DEF step, n, Values
    <3>2. \E it \in [SUBSET (1 .. n) -> Values] : Iterates(it, n, base, step)
      BY <3>1, IterationExists
    <3> QED
      BY <3>2 DEF Values
  <2>2. ASSUME NEW u \in SUBSET (1 .. n), u # {}
        PROVE  step[<<it[u \ {Max(u)}], Max(u)>>] = Observe(it[u \ {Max(u)}], events[Max(u)])
    <3>1. Max(u) \in 1 .. n /\ u \ {Max(u)} \in SUBSET (1 .. n)
      BY <1>1, <2>2, LargestIndex
    <3>2. <<it[u \ {Max(u)}], Max(u)>> \in CoherentSummaries \X (1 .. n)
      BY <2>1, <3>1
    <3> QED
      BY <3>2
  <2> HIDE DEF step
  <2>3. \A u \in SUBSET (1 .. n) : it[u] = IF u = {} THEN base
                                           ELSE Observe(it[u \ {Max(u)}], events[Max(u)])
    BY <2>1, <2>2 DEF Iterates
  <2> QED
    BY <2>1, <2>3
<1>5. jt = [u \in SUBSET (1 .. n) |->
              IF u = {} THEN base ELSE Observe(jt[u \ {Max(u)}], events[Max(u)])]
  BY <1>4
<1>6. FoldLeft(Observe, base, events) = jt[1 .. n]
  BY <1>1 DEF FoldLeft, MapThenFoldSet
<1> HIDE DEF jt
<1>7. jt[{}] = base
  BY <1>5
<1>8. ASSUME NEW k \in 1 .. n PROVE jt[1 .. k] = Observe(jt[1 .. (k - 1)], events[k])
  <2>1. k \in Nat /\ k # 0 /\ 1 .. k \in SUBSET (1 .. n)
    BY <1>1
  <2>2. Max(1 .. k) = k /\ (1 .. k) \ {k} = 1 .. (k - 1) /\ 1 .. k # {}
    BY <2>1, MaxOfInterval
  <2> QED
    BY <1>5, <2>1, <2>2
<1>9. ASSUME NEW a \in CoherentSummaries, NEW k \in 1 .. n
      PROVE  step[<<a, k>>] \in CoherentSummaries /\ step[<<a, k>>] = Observe(a, events[k])
  BY <1>2
<1> HIDE DEF step
<1>10. PICK trace \in [0 .. n -> CoherentSummaries] :
         IsTrace(trace, n, base, step) /\ trace[n] = jt[1 .. n]
  <2> DEFINE Values == CoherentSummaries
  <2>1. StepsWithin(jt, n, Values, step)
    BY <1>8, <1>9 DEF StepsWithin
  <2>2. n \in Nat /\ base \in Values
    BY <1>1
  <2> HIDE DEF n, Values
  <2>3. \E trace \in [0 .. n -> Values] : IsTrace(trace, n, base, step) /\ trace[n] = jt[1 .. n]
    BY <1>7, <2>1, <2>2, TraceOfIteration
  <2> QED
    BY <2>3 DEF Values
<1>11. ASSUME NEW k \in 1 .. n PROVE trace[k] = Observe(trace[k - 1], events[k])
  <2>1. k - 1 \in 0 .. n
    BY <1>1
  <2> QED
    BY <1>9, <1>10, <2>1 DEF IsTrace
<1> QED
  BY <1>6, <1>10, <1>11 DEF IsTrace

LEMMA SessionEmpty ==
  ASSUME NEW base \in CoherentSummaries
  PROVE  FoldLeft(Observe, base, <<>>) = base
<1> DEFINE none == <<>>
<1>1. none \in Seq(Events) /\ Len(none) = 0
  BY EmptySeq
<1> HIDE DEF none
<1>2. PICK trace \in [0 .. Len(none) -> CoherentSummaries] :
        trace[0] = base /\ FoldLeft(Observe, base, none) = trace[Len(none)]
  BY <1>1, SessionTrace
<1>3. FoldLeft(Observe, base, none) = base
  BY <1>1, <1>2
<1> QED
  BY <1>3 DEF none

\* One more event is observed on top of those before it.
LEMMA SessionAppend ==
  ASSUME NEW base \in CoherentSummaries, NEW events \in Seq(Events), NEW e \in Events
  PROVE  FoldLeft(Observe, base, Append(events, e))
           = Observe(FoldLeft(Observe, base, events), e)
<1> DEFINE longer == Append(events, e)
           n == Len(events)
<1>1. /\ longer \in Seq(Events) /\ Len(longer) = n + 1 /\ n \in Nat
      /\ \A i \in 1 .. n : longer[i] = events[i]
      /\ longer[n + 1] = e
  BY AppendProperties, LenProperties
<1>2. PICK a \in [0 .. n -> CoherentSummaries] :
        /\ a[0] = base
        /\ \A k \in 1 .. n : a[k] = Observe(a[k - 1], events[k])
        /\ FoldLeft(Observe, base, events) = a[n]
  BY SessionTrace
<1> HIDE DEF longer
<1>3. PICK b \in [0 .. n + 1 -> CoherentSummaries] :
        /\ b[0] = base
        /\ \A k \in 1 .. n + 1 : b[k] = Observe(b[k - 1], longer[k])
        /\ FoldLeft(Observe, base, longer) = b[n + 1]
  <2>1. \E b \in [0 .. Len(longer) -> CoherentSummaries] :
          /\ b[0] = base
          /\ \A k \in 1 .. Len(longer) : b[k] = Observe(b[k - 1], longer[k])
          /\ FoldLeft(Observe, base, longer) = b[Len(longer)]
    BY <1>1, SessionTrace
  <2> HIDE DEF n
  <2> QED
    BY <1>1, <2>1
<1> HIDE DEF n
<1> DEFINE Same == {k \in 0 .. n : a[k] = b[k]}
<1>4. 0 \in Same
  BY <1>1, <1>2, <1>3
<1>5. ASSUME NEW k \in 0 .. n, k < n, k \in Same PROVE k + 1 \in Same
  <2>1. k + 1 \in 1 .. n /\ k + 1 \in 1 .. n + 1 /\ (k + 1) - 1 = k /\ k + 1 \in 0 .. n
    BY <1>1, <1>5
  <2>2. a[k + 1] = Observe(a[k], events[k + 1]) /\ b[k + 1] = Observe(b[k], longer[k + 1])
    BY <1>2, <1>3, <2>1
  <2>3. longer[k + 1] = events[k + 1] /\ a[k] = b[k]
    BY <1>1, <1>5, <2>1
  <2> QED
    BY <2>1, <2>2, <2>3
<1>6. a[n] = b[n]
  <2> HIDE DEF Same
  <2>1. 0 .. n \subseteq Same
    BY <1>1, <1>4, <1>5, InductionUpTo
  <2>2. n \in Same
    BY <1>1, <2>1
  <2> QED
    BY <2>2 DEF Same
<1>7. b[n + 1] = Observe(b[n], e)
  <2>1. n + 1 \in 1 .. n + 1 /\ (n + 1) - 1 = n
    BY <1>1
  <2> QED
    BY <1>1, <1>3, <2>1
<1> QED
  BY <1>2, <1>3, <1>6, <1>7 DEF longer

\* Appending and taking the last off undo each other.
LEMMA AppendThenFront ==
  ASSUME NEW events \in Seq(Events), NEW e \in Events
  PROVE  LET longer == Append(events, e)
         IN  longer \in Seq(Events) /\ longer # <<>> /\ Front(longer) = events
             /\ Last(longer) = e
<1> DEFINE longer == Append(events, e)
           n == Len(events)
<1>1. /\ longer \in Seq(Events) /\ Len(longer) = n + 1 /\ n \in Nat
      /\ \A i \in 1 .. n : longer[i] = events[i]
      /\ longer[n + 1] = e
  BY AppendProperties, LenProperties
<1> HIDE DEF longer
<1>2. longer # <<>>
  <2>1. Len(longer) # 0
    <3> HIDE DEF n
    <3> QED
      BY <1>1
  <2> QED
    BY <2>1, EmptySeq
<1>3. /\ Front(longer) \in Seq(Events) /\ Len(Front(longer)) = Len(longer) - 1
      /\ \A i \in 1 .. Len(longer) - 1 : Front(longer)[i] = longer[i]
      /\ Last(longer) = longer[Len(longer)]
  BY <1>1, <1>2, FrontAndLast
<1>4. Len(longer) - 1 = n
  <2> HIDE DEF n
  <2> QED
    BY <1>1
<1>5. Len(Front(longer)) = Len(events)
      /\ \A i \in 1 .. Len(events) : Front(longer)[i] = events[i]
  BY <1>1, <1>3, <1>4
<1>6. Front(longer) = events
  BY <1>3, <1>5, SeqEqual
<1>7. Last(longer) = e
  BY <1>1, <1>3
<1> QED
  BY <1>1, <1>2, <1>6, <1>7 DEF longer

LEMMA FrontThenAppend ==
  ASSUME NEW events \in Seq(Events), events # <<>>
  PROVE  Front(events) \in Seq(Events) /\ events = Append(Front(events), Last(events))
<1> DEFINE front == Front(events)
           last == Last(events)
           again == Append(front, last)
           n == Len(events)
<1>1. /\ front \in Seq(Events) /\ n \in Nat \ {0} /\ Len(front) = n - 1
      /\ \A i \in 1 .. n - 1 : front[i] = events[i]
      /\ last = events[n]
  BY FrontAndLast
<1>2. last \in Events
  BY <1>1, ElementOfSeq
<1> HIDE DEF front, last
<1>3. /\ again \in Seq(Events) /\ Len(again) = Len(front) + 1
      /\ \A i \in 1 .. Len(front) : again[i] = front[i]
      /\ again[Len(front) + 1] = last
  BY <1>1, <1>2, AppendProperties
<1> HIDE DEF again
<1>4. Len(again) = n /\ \A i \in 1 .. n : again[i] = events[i]
  <2> HIDE DEF n
  <2>1. n - 1 + 1 = n /\ \A i \in 1 .. n : i \in 1 .. n - 1 \/ i = n
    BY <1>1
  <2> QED
    BY <1>1, <1>3, <2>1
<1>5. again = events
  BY <1>3, <1>4, SeqEqual DEF n
<1> QED
  BY <1>1, <1>5 DEF again, front, last

\* The events the store has recorded.
Settled == IF task.at = "store" THEN Front(ledger) ELSE ledger

\* What the task carries to the store is the last event of the session, and the
\* store is the session's events on top of what was found at launch.
Followed ==
  /\ opened \in CoherentSummaries
  /\ task.at = "store" => ledger # <<>> /\ Last(ledger) = task.event
  /\ lost.store = 0 => store.data.all = FoldLeft(Observe, opened, Settled)

LEMMA InitFollowed == Init => Followed
<1> SUFFICES ASSUME Init PROVE Followed
  OBVIOUS
<1>1. /\ opened = NoSavings /\ task.at = "off" /\ ledger = <<>>
      /\ store.data.all = NoSavings
  BY DEF Init, Off, EmptyStore
<1>2. FoldLeft(Observe, NoSavings, <<>>) = NoSavings
  BY NoSavingsIsCoherent, SessionEmpty
<1> QED
  BY <1>1, <1>2, NoSavingsIsCoherent DEF Followed, Settled

\* A step that leaves the session's events and the store's summary alone, and
\* takes the task neither to the store nor away from it.
LEMMA FollowedKept ==
  ASSUME Followed, UNCHANGED <<ledger, opened>>, lost'.store = lost.store,
         store'.data = store.data,
         task'.at = "store" \/ task.at = "store" => task' = task
  PROVE  Followed'
<1>1. CASE task' = task
  BY <1>1 DEF Followed, Settled
<1>2. CASE task' # task
  <2>1. task'.at # "store" /\ task.at # "store"
    BY <1>2
  <2> QED
    BY <2>1 DEF Followed, Settled
<1> QED
  BY <1>1, <1>2

LEMMA FollowedByRecordSession ==
  ASSUME Typed, Followed, RecordSession, UNCHANGED <<opened, lost>>
  PROVE  Followed'
<1>1. /\ task.at = "ledger" /\ ledger' = Append(ledger, task.event) /\ store' = store
      /\ task'.at = "store" /\ task'.event = task.event
  BY DEF Typed, RecordSession
<1>2. ledger \in Seq(Events) /\ task.event \in Events
  BY <1>1 DEF Typed
<1>3. ledger' # <<>> /\ Front(ledger') = ledger /\ Last(ledger') = task.event
  BY <1>1, <1>2, AppendThenFront
<1>4. Settled = ledger /\ Settled' = ledger
  BY <1>1, <1>3 DEF Settled
<1> QED
  BY <1>1, <1>3, <1>4 DEF Followed

LEMMA FollowedByRecordDurable ==
  ASSUME Typed, Followed, RecordDurable, UNCHANGED <<opened, lost>>
  PROVE  Followed'
<1>1. /\ task.at = "store" /\ ledger' = ledger /\ task'.at = "recv"
      /\ store'.data.all = Observe(store.data.all, task.event)
  BY DEF RecordDurable, Receiving, Recorded
<1>2. /\ ledger \in Seq(Events) /\ ledger # <<>> /\ Last(ledger) = task.event
      /\ task.event \in Events /\ opened \in CoherentSummaries
  BY <1>1 DEF Typed, Followed
<1>3. Front(ledger) \in Seq(Events) /\ ledger = Append(Front(ledger), task.event)
  BY <1>2, FrontThenAppend
<1>4. FoldLeft(Observe, opened, ledger)
        = Observe(FoldLeft(Observe, opened, Front(ledger)), task.event)
  <2> DEFINE before == Front(ledger)
  <2>1. before \in Seq(Events) /\ ledger = Append(before, task.event)
    BY <1>3
  <2> HIDE DEF before
  <2>2. FoldLeft(Observe, opened, Append(before, task.event))
          = Observe(FoldLeft(Observe, opened, before), task.event)
    BY <1>2, <2>1, SessionAppend
  <2>3. FoldLeft(Observe, opened, ledger)
          = Observe(FoldLeft(Observe, opened, before), task.event)
    BY <2>1, <2>2
  <2> QED
    BY <2>3 DEF before
<1>5. Settled = Front(ledger) /\ Settled' = ledger
  BY <1>1 DEF Settled
<1>6. lost'.store = 0 => store'.data.all = FoldLeft(Observe, opened, ledger)
  BY <1>1, <1>4, <1>5 DEF Followed
<1> QED
  BY <1>1, <1>2, <1>5, <1>6 DEF Followed

LEMMA FollowedByAbort ==
  ASSUME Typed, Followed, Abort, opened' = opened
  PROVE  Followed'
<1>1. /\ task'.at = "off" /\ UNCHANGED <<ledger, store>>
      /\ lost'.store = lost.store + (IF task.at = "store" THEN 1 ELSE 0)
      /\ lost.store \in Nat
  BY DEF Typed, Abort, Off
<1>2. CASE task.at = "store"
  <2>1. lost'.store # 0
    BY <1>1, <1>2
  <2> QED
    BY <1>1, <2>1 DEF Followed
<1>3. CASE task.at # "store"
  <2>1. lost'.store = lost.store
    BY <1>1, <1>3
  <2> QED
    BY <1>1, <1>3, <2>1 DEF Followed, Settled
<1> QED
  BY <1>2, <1>3

\* A process starts from what the savings file says and an empty session.
LEMMA FollowedByLoseMemory ==
  ASSUME Typed, LoseMemory, store'.data = disk
  PROVE  Followed'
<1>1. ledger' = <<>> /\ task'.at = "off" /\ opened' = store'.data.all
  BY DEF LoseMemory, Off
<1>2. opened' \in CoherentSummaries
  BY <1>1, DataParts DEF Typed
<1>3. Settled' = <<>>
  BY <1>1 DEF Settled
<1>4. FoldLeft(Observe, opened', <<>>) = opened'
  BY <1>2, SessionEmpty
<1> QED
  BY <1>1, <1>2, <1>3, <1>4 DEF Followed

LEMMA FollowedByController ==
  ASSUME Inv, Followed, Controller
  PROVE  Followed'
<1>1. opened' = opened
  BY DEF Controller
<1>2. CASE Connect
  <2>1. link = "down" /\ UNCHANGED <<ledger, store>> /\ task'.at = "recv"
        /\ lost' = [lost EXCEPT !.session = @ + dropped]
    BY <1>2 DEF Connect, Receiving
  <2>2. task.at = "off" /\ lost'.store = lost.store
    BY <2>1 DEF Inv, Typed, Wired, Off
  <2> QED
    BY <1>1, <2>1, <2>2, FollowedKept
<1>3. CASE TaskEnds
  <2>1. task.at = "recv" /\ task'.at = "off" /\ UNCHANGED <<ledger, store, lost>>
    BY <1>3 DEF TaskEnds, Off
  <2> QED
    BY <1>1, <2>1, FollowedKept
<1>4. CASE Abort
  BY <1>1, <1>4, FollowedByAbort DEF Inv
<1>5. CASE BeginDisconnect \/ Tick \/ FinishDisconnect \/ Quit
  <2>1. UNCHANGED <<ledger, task, lost>>
    BY <1>5 DEF BeginDisconnect, Tick, FinishDisconnect, Quit
  <2>2. store' = store \/ store' = [store EXCEPT !.dirty = FALSE]
    BY <1>5 DEF BeginDisconnect, Tick, FinishDisconnect, Quit, Flush, FlushFails
  <2>3. store'.data = store.data
    BY <2>2 DEF Inv, Typed
  <2> QED
    BY <1>1, <2>1, <2>3, FollowedKept
<1> QED
  BY <1>2, <1>3, <1>4, <1>5 DEF Controller

LEMMA NextFollowed ==
  ASSUME Inv, Followed, [Next]_vars
  PROVE  Followed'
<1>1. CASE \E r \in Requests : process = "running" /\ Stream(r)
  <2>1. UNCHANGED <<ledger, opened, lost, store, task>>
    BY <1>1 DEF Stream, records
  <2> QED
    BY <2>1, FollowedKept
<1>2. CASE Task
  <2>1. UNCHANGED <<opened, lost>>
    BY <1>2 DEF Task
  <2>2. CASE Receive
    <3>1. task.at = "recv" /\ task'.at = "ledger" /\ UNCHANGED <<ledger, store>>
      BY <2>2 DEF Receive
    <3> QED
      BY <2>1, <3>1, FollowedKept
  <2>3. CASE RecordSession
    BY <2>1, <2>3, FollowedByRecordSession DEF Inv
  <2>4. CASE RecordDurable
    BY <2>1, <2>4, FollowedByRecordDurable DEF Inv
  <2> QED
    BY <1>2, <2>2, <2>3, <2>4 DEF Task
<1>3. CASE Controller
  BY <1>3, FollowedByController
<1>4. CASE Crash
  <2>1. LoseMemory /\ store'.data = disk
    BY <1>4 DEF Crash
  <2> QED
    BY <2>1, FollowedByLoseMemory DEF Inv
<1>5. CASE Launch
  <2>1. LoseMemory /\ store'.data = disk
    BY <1>5 DEF Launch, OpenedStore
  <2> QED
    BY <2>1, FollowedByLoseMemory DEF Inv
<1>6. CASE Clock
  <2>1. UNCHANGED <<ledger, opened, lost, store, task>>
    BY <1>6 DEF Clock, records
  <2> QED
    BY <2>1, FollowedKept
<1>7. CASE UNCHANGED vars
  <2>1. UNCHANGED <<ledger, opened, lost, store, task>>
    BY <1>7 DEF vars
  <2> QED
    BY <2>1, FollowedKept
<1> QED
  BY <1>1, <1>2, <1>3, <1>4, <1>5, <1>6, <1>7 DEF Next

\* The all-time savings are those found at launch and what the session recorded,
\* event by event, for every session, unless a task was aborted between its two
\* records.
THEOREM StoreFollowsSessionHolds == Spec => []StoreFollowsSession
<1>1. Followed => StoreFollowsSession
  BY DEF Followed, Settled, StoreFollowsSession
<1>2. Inv /\ Followed /\ [Next]_vars => Followed'
  BY NextFollowed
<1> QED
  BY <1>1, <1>2, InitFollowed, Invariance, PTL DEF Spec
=============================================================================
