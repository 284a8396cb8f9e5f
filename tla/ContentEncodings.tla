--------------------------- MODULE ContentEncodings ---------------------------
(***************************************************************************)
(* What becomes of a request body's content encodings on the way through   *)
(* TokenSaver: EncodingChain (modules/transport/compression.rs), used by   *)
(* prepare_responses_body (request.rs) on the Content-Encoding that        *)
(* handle_request (server.rs) reads and forwards.                          *)
(*                                                                         *)
(* A body is a text under layers, the outermost last; a layer is a format  *)
(* and the length of what it decodes to.  Whether a body that was decoded  *)
(* is rewritten is the subject of RequestPreparation and a choice here.    *)
(***************************************************************************)
EXTENDS Naturals, Sequences, SequencesExt

CONSTANTS
  Format,      \* the format of every coding EncodingChain knows
  Identity,    \* the codings it skips: "identity" and the empty one
  MaxDecoded,  \* MAX_DECODED_BODY_BYTES
  Fields,      \* the Content-Encoding fields a client may send
  Stacks,      \* the layers its body may have
  NoValue      \* no body, no chain: an error

Layer == UNION {ToSet(stack) : stack \in Stacks}
Coding == UNION {ToSet(codings) : codings \in UNION {ToSet(fs) : fs \in Fields}}

ASSUME ContentEncodingsAssumption ==
  /\ Stacks \subseteq Seq(Layer)
  /\ Fields \subseteq Seq(Seq(Coding))
  /\ MaxDecoded \in Nat
  /\ Identity \cap DOMAIN Format = {}
  /\ NoValue \notin [text : {"client's"}, layers : Seq(Layer)]

VARIABLES
  fields,  \* the client's Content-Encoding fields, each a list of codings
  body,    \* its body: [text, layers]
  onward   \* what the provider gets: [fields, body], or NoValue

encodingVars == <<fields, body, onward>>

-----------------------------------------------------------------------------
(* EncodingChain *)

\* The codings among those of "set", in their order.
Only(codings, set) ==
  FoldLeft(LAMBDA kept, coding : IF coding \in set THEN Append(kept, coding) ELSE kept,
           <<>>, codings)

\* parse
Parse(codings) ==
  IF \E i \in DOMAIN codings : codings[i] \notin DOMAIN Format \cup Identity
  THEN NoValue
  ELSE Only(codings, DOMAIN Format)

\* Mutant: read_limited has no limit.
PeelAll(b, coding) ==
  IF b = NoValue \/ b.layers = <<>> THEN NoValue
  ELSE IF Last(b.layers).format = Format[coding]
  THEN [b EXCEPT !.layers = Front(@)]
  ELSE NoValue

\* decode_one, with read_limited.
Peel(b, coding) ==
  IF b = NoValue \/ b.layers = <<>> THEN NoValue
  ELSE IF /\ Last(b.layers).format = Format[coding]
          /\ Last(b.layers).length <= MaxDecoded
  THEN [b EXCEPT !.layers = Front(@)]
  ELSE NoValue

\* decode: the coding applied last is taken off first.
Decode(b, chain) == FoldLeft(Peel, b, Reverse(chain))

\* Mutant: the layers are put back in the order they were taken off.
EncodeReversed(text, chain, length) ==
  [text |-> text,
   layers |-> [i \in DOMAIN chain |->
                 [format |-> Format[Reverse(chain)[i]], length |-> length]]]

\* encode, which has no limit: "length" is what the layers come to.
Encode(text, chain, length) ==
  [text |-> text,
   layers |-> [i \in DOMAIN chain |-> [format |-> Format[chain[i]], length |-> length]]]

-----------------------------------------------------------------------------
(* handle_request *)

\* Only the first field is looked at, and it is the one that is forwarded.
Declared == IF fields = <<>> THEN <<>> ELSE fields[1]

\* decode_root: what is left has to be JSON.
Readable(b, chain) ==
  /\ chain # NoValue
  /\ LET decoded == Decode(b, chain) IN decoded # NoValue /\ decoded.layers = <<>>

EncodingInit ==
  /\ fields \in Fields
  /\ body \in [text : {"client's"}, layers : Stacks]
  /\ onward = NoValue

Forward(b) ==
  /\ onward' = [fields |-> IF fields = <<>> THEN <<>> ELSE <<Declared>>, body |-> b]
  /\ UNCHANGED <<fields, body>>

\* Nothing to change, or no way to: the bytes leave as they came.
ForwardOriginal == onward = NoValue /\ Forward(body)

\* The rewritten body leaves under the layers it came with.
ForwardRewritten ==
  /\ onward = NoValue
  /\ Readable(body, Parse(Declared))
  /\ \E length \in {MaxDecoded, MaxDecoded + 1} :
       Forward(Encode("rewritten", Parse(Declared), length))

EncodingNext == ForwardOriginal \/ ForwardRewritten

EncodingSpec == EncodingInit /\ [][EncodingNext]_encodingVars

-----------------------------------------------------------------------------
(* Properties *)

\* What a reader makes of a body who follows every field, knows every coding
\* that any layer can have and stops at no length.
Reads(b, fs) ==
  LET codings == Only(FlattenSeq(fs), ToSet(FlattenSeq(fs)) \ Identity)
      Formats(coding) == IF coding \in DOMAIN Format THEN Format[coding] ELSE coding
  IN  IF [i \in DOMAIN b.layers |-> b.layers[i].format]
           = [i \in DOMAIN codings |-> Formats(codings[i])]
      THEN b.text ELSE "nothing"

\* With one Content-Encoding field at most, the provider reads the rewritten text
\* wherever it could read the client's, and reads an original exactly as far as
\* it could have read it from the client: whatever the chain of codings, nothing
\* is recoded into something the forwarded field does not describe
\* (docs/CODEX_TRANSPORT_CONTRACT.md:250-255, request.rs:219-262).
ProviderReadsIt ==
  onward # NoValue /\ Len(fields) <= 1 =>
    Reads(onward.body, onward.fields)
      = IF onward.body = body THEN Reads(body, fields)
        ELSE IF Reads(body, fields) = "client's" THEN "rewritten" ELSE "nothing"

\* However the body is packed, with as many fields as a client likes, no layer of
\* a body that is rewritten decoded to more than the limit (compression.rs:143-153).
NothingHugeIsRewritten ==
  onward # NoValue /\ onward.body # body =>
    \A i \in DOMAIN body.layers : body.layers[i].length <= MaxDecoded
=============================================================================
