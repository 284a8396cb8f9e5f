---------------------------- MODULE ReceiptRecovery ----------------------------
(***************************************************************************)
(* A receipt written in the place of a tool result (build_receipt) and     *)
(* read again (parse_receipt, both modules/aging/receipt.rs), to say what  *)
(* it shows and whether a text found elsewhere is the one it stands for    *)
(* (application/recovery.rs).                                              *)
(*                                                                         *)
(* A text is a sequence of symbols, each so many bytes of UTF-8 and so     *)
(* many UTF-16 code units long: characters, and the marker lines of a      *)
(* receipt, which a tool may print too.  The digest of a text is the text  *)
(* itself: nothing here asks more of SHA-256 than to tell texts apart.     *)
(***************************************************************************)
EXTENDS Naturals, SequencesExt

CONSTANTS
  Bytes, Units,   \* how long each symbol is
  Begin, Omitted, End,   \* the marker lines
  Wording,        \* the bytes of a receipt besides its markers and previews
  Texts,          \* the tool results
  Previews,       \* preview_code_units
  Candidates,     \* texts found elsewhere, besides the right one
  Unread          \* stands for no receipt, no answer and what cannot be parsed

Symbol == DOMAIN Bytes

ASSUME ReceiptRecoveryAssumption ==
  /\ {Begin, Omitted, End} \subseteq Symbol
  /\ Bytes \in [Symbol -> Nat \ {0}] /\ Units \in [Symbol -> Nat \ {0}]
  /\ Texts \subseteq Seq(Symbol)
  /\ Wording \in Nat
  /\ Previews \subseteq Nat
  /\ Unread \notin [bytes : Nat, digest : Seq(Symbol), head : Seq(Symbol), tail : Seq(Symbol)]

VARIABLES
  original,  \* the tool result that was aged
  preview,   \* under which preview_code_units
  receipt,   \* what the history says instead
  answer     \* the last assessment or verification

recoveryVars == <<original, preview, receipt, answer>>

Length(text, size) == FoldLeft(LAMBDA n, c : n + size[c], 0, text)

-----------------------------------------------------------------------------
(* build_receipt *)

\* Mutant: a character that does not fit is passed over.
SafeHeadSkips(value, max) ==
  LET Walk(w, c) == IF w.units + Units[c] <= max
                    THEN [units |-> w.units + Units[c], at |-> w.at + 1, end |-> w.at + 1]
                    ELSE [w EXCEPT !.at = w.at + 1]
  IN  SubSeq(value, 1, FoldLeft(Walk, [units |-> 0, at |-> 0, end |-> 0], value).end)

\* safe_head: character by character, until one does not fit.
SafeHead(value, max) ==
  LET Walk(w, c) == IF ~w.full /\ w.units + Units[c] <= max
                    THEN [units |-> w.units + Units[c], end |-> w.end + 1, full |-> FALSE]
                    ELSE [w EXCEPT !.full = TRUE]
  IN  SubSeq(value, 1, FoldLeft(Walk, [units |-> 0, end |-> 0, full |-> FALSE], value).end)

\* safe_tail: the same from the other end.
SafeTail(value, max) == Reverse(SafeHead(Reverse(value), max))

\* The metadata line, and what follows the wording.
BuildReceipt(value, max) ==
  LET head == SafeHead(value, max)
      tail == SafeTail(value, max)
  IN  [originalBytes |-> Length(value, Bytes), digest |-> value,
       headBytes |-> Length(head, Bytes), tailBytes |-> Length(tail, Bytes),
       body |-> <<Begin>> \o head \o <<Omitted>> \o tail \o <<End>>]

ReceiptBytes(r) == Wording + Length(r.body, Bytes)

-----------------------------------------------------------------------------
(* parse_receipt *)

\* Mutant: the last marker is taken for the first.
SectionAfterLast(body) ==
  Len(body) + 2 - SelectInSeq(Reverse(body), LAMBDA c : c = Begin)

\* section_start: behind the first marker.  Every receipt has one.
SectionStart(body) == SelectInSeq(body, LAMBDA c : c = Begin) + 1

\* How many symbols from "start" on are that many bytes, if it is a boundary.
SymbolsIn(body, start, bytes) ==
  {n \in 0 .. Len(body) - start + 1 :
     Length(SubSeq(body, start, start + n - 1), Bytes) = bytes}

\* The section of that many bytes, if the marker follows it.
Section(body, start, bytes, marker) ==
  {n \in SymbolsIn(body, start, bytes) :
     start + n <= Len(body) /\ body[start + n] = marker}

ParseReceipt(r) ==
  LET headStart == SectionStart(r.body)
      heads == Section(r.body, headStart, r.headBytes, Omitted)
      tailStart == headStart + CHOOSE n \in heads : TRUE
      tails == Section(r.body, tailStart + 1, r.tailBytes, End)
  IN  IF r.headBytes + r.tailBytes > r.originalBytes \/ heads = {} THEN Unread
      ELSE IF tails = {} THEN Unread
      ELSE [bytes |-> r.originalBytes, digest |-> r.digest,
            head |-> SubSeq(r.body, headStart, tailStart - 1),
            tail |-> SubSeq(r.body, tailStart + 1,
                            tailStart + CHOOSE n \in tails : TRUE)]

\* Mutant: a text of the right length will do.
VerifyLength(evidence, candidate) == Length(candidate, Bytes) = evidence.bytes

\* verify_exact_candidate
VerifyExactCandidate(evidence, candidate) ==
  /\ Length(candidate, Bytes) = evidence.bytes
  /\ candidate = evidence.digest

-----------------------------------------------------------------------------
(* A receipt and the questions asked of it *)

RecoveryInit ==
  original = <<>> /\ preview = 0 /\ receipt = Unread /\ answer = Unread

\* The engine writes a receipt only where it is the shorter one (engine.rs).
Age(value, max) ==
  /\ receipt = Unread
  /\ ReceiptBytes(BuildReceipt(value, max)) < Length(value, Bytes)
  /\ receipt' = BuildReceipt(value, max)
  /\ original' = value
  /\ preview' = max
  /\ UNCHANGED answer

\* assess_receipt: whatever the need, the same evidence; what is omitted is
\* counted and never offered.
AssessReceipt(need) ==
  /\ receipt # Unread
  /\ answer' =
       LET evidence == ParseReceipt(receipt)
           visible == Length(evidence.head, Bytes) + Length(evidence.tail, Bytes)
       IN  IF evidence = Unread THEN [kind |-> "error"]
           ELSE [kind |-> "assessment", head |-> evidence.head, tail |-> evidence.tail,
                 sourceRequired |-> need = "ExactContent",
                 omitted |-> IF evidence.bytes > visible THEN evidence.bytes - visible ELSE 0]
  /\ UNCHANGED <<original, preview, receipt>>

\* verify_recovered_candidate
VerifyRecoveredCandidate(candidate) ==
  /\ receipt # Unread
  /\ answer' =
       LET evidence == ParseReceipt(receipt)
       IN  IF evidence = Unread THEN [kind |-> "error"]
           ELSE [kind |-> "verification", candidate |-> candidate,
                 exact |-> VerifyExactCandidate(evidence, candidate)]
  /\ UNCHANGED <<original, preview, receipt>>

RecoveryNext ==
  \/ \E value \in Texts, max \in Previews : Age(value, max)
  \/ \E need \in {"VisibleEvidenceOnly", "ExactContent"} : AssessReceipt(need)
  \/ \E candidate \in Candidates \cup {original} : VerifyRecoveredCandidate(candidate)

RecoverySpec == RecoveryInit /\ [][RecoveryNext]_recoveryVars

-----------------------------------------------------------------------------
(* Properties *)

\* docs/RECOVERY.md: every receipt the engine writes can be read again, even
\* when the tool printed the markers of a receipt and when the previews are a
\* large part of the text; what it shows is the beginning and the end of the
\* text and nothing twice, what it counts as omitted is the rest, and a candidate
\* is accepted exactly when it is the text.
EvidenceIsExact ==
  CASE answer = Unread -> TRUE
    [] answer # Unread /\ answer.kind = "error" -> FALSE
    [] answer # Unread /\ answer.kind = "verification" ->
         answer.exact <=> answer.candidate = original
    [] OTHER ->
         \E i, j \in 0 .. Len(original) :
           /\ i <= j
           /\ answer.head = SubSeq(original, 1, i)
           /\ answer.tail = SubSeq(original, j + 1, Len(original))
           /\ answer.omitted = Length(SubSeq(original, i + 1, j), Bytes)

\* The previews of a receipt are the longest beginning and the longest end of the
\* text that fit in preview_code_units, whole characters each (safe_head and
\* safe_tail decide it in one pass).
PreviewsAreLongest ==
  receipt # Unread =>
    LET head == SafeHead(original, preview)
        tail == SafeTail(original, preview)
    IN  \A n \in 0 .. Len(original) :
          /\ n <= Len(head) <=> Length(SubSeq(original, 1, n), Units) <= preview
          /\ n <= Len(tail) <=>
               Length(SubSeq(original, Len(original) - n + 1, Len(original)), Units) <= preview
=============================================================================
