------------------------------ MODULE Providers ------------------------------
(***************************************************************************)
(* What packages/webhook makes of one HTTP delivery before anything is     *)
(* stored: is it from the provider it names, is it a supported event, and  *)
(* which normalized event does it stand for. Verifiers and adapters are    *)
(* pure; Ingest runs them inside a request.                                *)
(*                                                                         *)
(* A delivery is a record                                                  *)
(*    provider, rid   the path and whether X-Request-Id is an identifier   *)
(*                    (one the server makes up always is);                 *)
(*    json            the media type is application/json;                  *)
(*    declared, size  Content-Length and the bytes that came;              *)
(*    sig, age        the signature header: "absent", "misshapen" (not     *)
(*                    the scheme's form), "forged" (another secret or      *)
(*                    other bytes) or "genuine", and how many seconds its  *)
(*                    timestamp lies in the past or, negative, the future; *)
(*    flaws           names of the checks below the payload does not pass; *)
(*    name, ext, pay, at, amount, ccy                                      *)
(*                    the fields themselves, where they are well-formed.   *)
(***************************************************************************)
EXTENDS Integers, Sequences, SequencesExt

CONSTANTS
  ToleranceSeconds,   \* age a synthetic signature may have
  MaxBodyBytes,       \* WEBHOOK_MAX_BODY_BYTES
  MaxAmount,          \* the largest amount the bigint column holds
  RazorpaySecret      \* whether RAZORPAY_WEBHOOK_SECRET is set

ASSUME ProvidersAssumption ==
  /\ ToleranceSeconds \in Nat /\ MaxBodyBytes \in Nat /\ MaxAmount \in Nat
  /\ RazorpaySecret \in BOOLEAN

-----------------------------------------------------------------------------
(* Signatures *)

\* The header's form, before anything is computed. Both schemes agree on it.
parseSignatureHeader(c) ==
  CASE c.sig = "absent"    -> "MISSING_SIGNATURE"
    [] c.sig = "misshapen" -> "MALFORMED_SIGNATURE"
    [] OTHER               -> "ok"

\* Mutant: the timestamp is believed before the digest is compared.
verifySyntheticByAge(c) ==
  IF parseSignatureHeader(c) # "ok" THEN parseSignatureHeader(c)
  ELSE IF c.age > ToleranceSeconds \/ -c.age > ToleranceSeconds
  THEN "EXPIRED_SIGNATURE"
  ELSE "VERIFIED"

\* The timestamp is part of what is signed: it is judged after the digest.
verifySynthetic(c) ==
  IF parseSignatureHeader(c) # "ok" THEN parseSignatureHeader(c)
  ELSE IF c.sig # "genuine" THEN "INVALID_SIGNATURE"
  ELSE IF c.age > ToleranceSeconds \/ -c.age > ToleranceSeconds
  THEN "EXPIRED_SIGNATURE"
  ELSE "VERIFIED"

\* Razorpay signs the body alone; without a secret nothing is genuine.
verifyRazorpay(c) ==
  IF parseSignatureHeader(c) # "ok" THEN parseSignatureHeader(c)
  ELSE IF ~RazorpaySecret \/ c.sig # "genuine" THEN "INVALID_SIGNATURE"
  ELSE "VERIFIED"

\* The verifier registry: an unknown provider has none.
verify(c) ==
  CASE c.provider = "SYNTHETIC" -> verifySynthetic(c)
    [] c.provider = "razorpay"  -> verifyRazorpay(c)
    [] OTHER                    -> "UNSUPPORTED_PROVIDER"

-----------------------------------------------------------------------------
(* Adapters *)

WEBHOOK_ERROR_CODE ==
  {"INVALID_PAYLOAD", "UNSUPPORTED_EVENT", "INVALID_AMOUNT",
   "INVALID_CURRENCY", "INVALID_TIMESTAMP", "MISSING_EXTERNAL_ID",
   "MISSING_PAYMENT_ID", "UNSUPPORTED_PROVIDER"}

SYNTHETIC_EVENT_TYPE_MAP ==
  << <<"syn.payment.opened",   "payment.created">>,
     <<"syn.payment.hold",     "payment.authorized">>,
     <<"syn.payment.settled",  "payment.captured">>,
     <<"syn.payment.declined", "payment.failed">>,
     <<"syn.payment.return",   "refund.created">> >>

\* Razorpay has no event for a creation.
RAZORPAY_EVENT_TYPE_MAP ==
  << <<"payment.authorized", "payment.authorized">>,
     <<"payment.captured",   "payment.captured">>,
     <<"payment.failed",     "payment.failed">>,
     <<"refund.created",     "refund.created">> >>

EventTypeMap(c) ==
  IF c.provider = "SYNTHETIC" THEN SYNTHETIC_EVENT_TYPE_MAP
                              ELSE RAZORPAY_EVENT_TYPE_MAP

Mapping(c) == SelectInSeq(EventTypeMap(c), LAMBDA m : m[1] = c.name)

mapEventType(c) == EventTypeMap(c)[Mapping(c)][2]

\* The checks of validate in the order they are made, each with its error. An
\* event name outside the map fails "unmapped".
SYNTHETIC_CHECKS ==
  << <<"object",         "INVALID_PAYLOAD">>,
     <<"infrastructure", "UNSUPPORTED_PROVIDER">>,
     <<"event_ref",      "MISSING_EXTERNAL_ID">>,
     <<"unmapped",       "UNSUPPORTED_EVENT">>,
     <<"entity",         "INVALID_PAYLOAD">>,
     <<"payment_ref",    "MISSING_PAYMENT_ID">>,
     <<"identifiers",    "INVALID_PAYLOAD">>,
     <<"money",          "INVALID_PAYLOAD">>,
     <<"booked_at",      "INVALID_TIMESTAMP">>,
     <<"currency",       "INVALID_CURRENCY">>,
     <<"amount",         "INVALID_AMOUNT">> >>

\* "era": created_at is a safe number of seconds, but no Date or none with a
\* year of four digits. What toISOString or instant throws is no WebhookError.
RAZORPAY_CHECKS ==
  << <<"object",      "INVALID_PAYLOAD">>,
     <<"entity_kind", "INVALID_PAYLOAD">>,
     <<"event",       "INVALID_PAYLOAD">>,
     <<"unmapped",    "UNSUPPORTED_EVENT">>,
     <<"event_id",    "MISSING_EXTERNAL_ID">>,
     <<"created_at",  "INVALID_TIMESTAMP">>,
     <<"era",         "RANGE_ERROR">>,
     <<"entity",      "INVALID_PAYLOAD">>,
     <<"payment_id",  "MISSING_PAYMENT_ID">>,
     <<"amount",      "INVALID_AMOUNT">>,
     <<"currency",    "INVALID_CURRENCY">>,
     <<"order_id",    "INVALID_PAYLOAD">>,
     <<"refund_id",   "INVALID_PAYLOAD">>,
     <<"identifiers", "INVALID_PAYLOAD">> >>

Checks(c) ==
  IF c.provider = "SYNTHETIC" THEN SYNTHETIC_CHECKS ELSE RAZORPAY_CHECKS

Failing(c) == c.flaws \cup (IF Mapping(c) = 0 THEN {"unmapped"} ELSE {})

\* The error validate throws: that of the first check that fails.
validate(c) ==
  LET first == SelectInSeq(Checks(c), LAMBDA k : k[1] \in Failing(c))
  IN  IF first = 0 THEN "none" ELSE Checks(c)[first][2]

\* A synthetic instant keeps the digits it is written with, milliseconds where
\* it has none; a Razorpay one is whole seconds. Z and an offset of zero agree.
normalizeOccurredAt(at) ==
  [sec |-> at.sec, frac |-> IF at.frac = << >> THEN <<0, 0, 0>> ELSE at.frac]

\* compareInstant pads the fraction; three digits tell the instants apart.
SortKey(instant) ==
  LET digit(i) == IF i <= Len(instant.frac) THEN instant.frac[i] ELSE 0
  IN  1000 * instant.sec + 100 * digit(1) + 10 * digit(2) + digit(3)

normalizeIsoCurrency(ccy) == IF ccy = "usd" THEN "USD" ELSE ccy

\* Mutant: the amount is left out of the canonical document.
hashPayloadBlind(c) ==
  <<c.provider, c.ext, c.name, c.pay, normalizeOccurredAt(c.at),
    normalizeIsoCurrency(c.ccy)>>

\* The fields of the canonical document stand for its digest.
hashPayload(c) ==
  <<c.provider, c.ext, c.name, c.pay, normalizeOccurredAt(c.at), c.amount,
    normalizeIsoCurrency(c.ccy)>>

\* The normalized event, in the form Replay works on. Its body is the money
\* and the hash.
normalize(c) ==
  [id   |-> c.ext,
   pay  |-> c.pay,
   type |-> mapEventType(c),
   at   |-> SortKey(normalizeOccurredAt(c.at)),
   body |-> [amount   |-> c.amount,
             currency |-> normalizeIsoCurrency(c.ccy),
             hash     |-> hashPayload(c)]]

webhookIdentity(c) == <<c.provider, c.ext>>
=============================================================================
