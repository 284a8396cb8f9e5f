\* Three requests for two places; histories of four items under three policies;
\* responses of seven bytes; texts of five symbols.
SPECIFICATION MCSpec
CONSTANTS
  r1 = r1
  r2 = r2
  r3 = r3
  Requests <- MCRequests
  MaxRequests = 2
  LoadOvertakes = FALSE
  Overhead = 2
  NameBytes <- MCNameBytes
  Items <- MCItems
  Envelopes <- MCEnvelopes
  Policies <- MCPolicies
  MaxItems = 4
  Format <- MCFormat
  Identity = {"identity"}
  MaxDecoded = 7
  Fields <- MCFields
  Stacks <- MCStacks
  NoValue = noValue
  Chunks <- MCChunks
  Newline = "newline"
  Return = "return"
  LineReports <- MCLineReports
  BodyReports <- MCBodyReports
  Nothing = nothing
  MaxLine = 3
  MaxBody = 4
  MaxBytes = 7
  Bytes <- MCBytes
  Units <- MCUnits
  Begin = "begin"
  Omitted = "omitted"
  End = "end"
  Wording = 1
  Texts <- MCTexts
  Previews = {0, 1, 2, 3}
  Candidates <- MCCandidates
  Unread = unread
INVARIANTS CounterExact DrainSafe GateReopens EngineMeetsReference OnlyAgedOutputsDiffer OutcomeExplained DiagnosticsAddUp ProviderReadsIt NothingHugeIsRewritten HeldBounded EvidenceIsExact PreviewsAreLongest
PROPERTIES ImplementsGate AgedStaysAged UsageOfWhole
\* A response that has been read is the end.
CHECK_DEADLOCK FALSE
