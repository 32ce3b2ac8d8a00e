----------------------------- MODULE IngestProofs -----------------------------
(***************************************************************************)
(* What the ingest route keeps true for any deliveries, any number of      *)
(* requests and workers, any traffic and any faults: that only authentic   *)
(* events are stored, that a stored event is never rewritten, and that     *)
(* what was answered with 200 is stored and has a retry row.               *)
(***************************************************************************)
EXTENDS Ingest, FiniteSetTheorems, TLAPS

-----------------------------------------------------------------------------
(* Facts about a delivery *)

\* Only what bears the provider's own signature, not too old and not from the
\* future where a time is signed, is verified.
LEMMA VerifiedIsGenuine ==
  ASSUME NEW d \in Delivery, verify(Content[d]) = "VERIFIED"
  PROVE  /\ Content[d].sig = "genuine"
         /\ Content[d].provider = "SYNTHETIC" =>
              Content[d].age \in -ToleranceSeconds..ToleranceSeconds
<1> DEFINE c == Content[d]
<1>1. CASE c.provider = "SYNTHETIC"
  <2>1. verifySynthetic(c) = "VERIFIED"
    BY <1>1 DEF verify
  <2>2. parseSignatureHeader(c) \in {"MISSING_SIGNATURE", "MALFORMED_SIGNATURE", "ok"}
    BY DEF parseSignatureHeader
  <2>3. /\ c.sig = "genuine"
        /\ ~(c.age > ToleranceSeconds \/ -c.age > ToleranceSeconds)
    BY <2>1, <2>2 DEF verifySynthetic
  <2> QED BY <2>3, ContentAssumption, ProvidersAssumption
<1>2. CASE c.provider = "razorpay"
  <2>1. verifyRazorpay(c) = "VERIFIED"
    BY <1>2 DEF verify
  <2>2. parseSignatureHeader(c) \in {"MISSING_SIGNATURE", "MALFORMED_SIGNATURE", "ok"}
    BY DEF parseSignatureHeader
  <2> QED BY <1>2, <2>1, <2>2 DEF verifyRazorpay
<1>3. CASE c.provider \notin {"SYNTHETIC", "razorpay"}
  BY <1>3 DEF verify
<1> QED BY <1>1, <1>2, <1>3

\* Of finitely many checks that fail there is a first.
LEMMA FirstOfFew ==
  ASSUME NEW I, I \subseteq 1..14, I # {}
  PROVE  Min(I) \in I
<1>1. \E i \in I : \A j \in I : i <= j
  <2> SUFFICES ASSUME \A i \in I : \E j \in I : j < i
               PROVE  FALSE
    OBVIOUS
  <2>1. \A i \in I : i > 2
    OBVIOUS
  <2>2. \A i \in I : i > 4
    BY <2>1
  <2>3. \A i \in I : i > 6
    BY <2>2
  <2>4. \A i \in I : i > 8
    BY <2>3
  <2>5. \A i \in I : i > 10
    BY <2>4
  <2>6. \A i \in I : i > 12
    BY <2>5
  <2>7. \A i \in I : i > 14
    BY <2>6
  <2>8. PICK i \in I : TRUE
    OBVIOUS
  <2> QED BY <2>7, <2>8
<1> QED BY <1>1 DEF Min

\* Each check has an error.
LEMMA ChecksHaveErrors ==
  ASSUME NEW c
  PROVE  /\ Len(Checks(c)) <= 14 /\ DOMAIN Checks(c) = 1..Len(Checks(c))
         /\ \A k \in 1..Len(Checks(c)) : Checks(c)[k][2] # "none"
<1>1. CASE c.provider = "SYNTHETIC"
  <2>1. Checks(c) = SYNTHETIC_CHECKS
    BY <1>1 DEF Checks
  <2>2. 1..11 = {1, 2, 3, 4, 5, 6, 7, 8, 9, 10, 11}
    OBVIOUS
  <2>3. Len(Checks(c)) = 11 /\ DOMAIN Checks(c) = 1..11
    BY <2>1 DEF SYNTHETIC_CHECKS
  <2>4. \A k \in 1..11 : Checks(c)[k][2] # "none"
    BY <2>1, <2>2 DEF SYNTHETIC_CHECKS
  <2> QED BY <2>3, <2>4
<1>2. CASE c.provider # "SYNTHETIC"
  <2>1. Checks(c) = RAZORPAY_CHECKS
    BY <1>2 DEF Checks
  <2>2. 1..14 = {1, 2, 3, 4, 5, 6, 7, 8, 9, 10, 11, 12, 13, 14}
    OBVIOUS
  <2>3. Len(Checks(c)) = 14 /\ DOMAIN Checks(c) = 1..14
    BY <2>1 DEF RAZORPAY_CHECKS
  <2>4. \A k \in 1..14 : Checks(c)[k][2] # "none"
    BY <2>1, <2>2 DEF RAZORPAY_CHECKS
  <2> QED BY <2>3, <2>4
<1> QED BY <1>1, <1>2

\* The checks are made one after the other: none fails where none is reported.
LEMMA ValidIsFlawless ==
  ASSUME NEW d \in Delivery, validate(Content[d]) = "none"
  PROVE  \A k \in DOMAIN Checks(Content[d]) :
           Checks(Content[d])[k][1] \notin Failing(Content[d])
<1> DEFINE c == Content[d]
           I == {k \in 1..Len(Checks(c)) : Checks(c)[k][1] \in Failing(c)}
           first == IF I # {} THEN Min(I) ELSE 0
<1>1. validate(c) = IF first = 0 THEN "none" ELSE Checks(c)[first][2]
  BY DEF validate, SelectInSeq
<1>2. I = {}
  <2> SUFFICES ASSUME I # {} PROVE FALSE
    OBVIOUS
  <2>1. I \subseteq 1..14
    BY ChecksHaveErrors, SMTT(40)
  <2>2. Min(I) \in I
    BY <2>1, FirstOfFew
  <2>3. first \in 1..Len(Checks(c)) /\ first # 0
    BY <2>2, ChecksHaveErrors
  <2> QED BY <1>1, <2>3, ChecksHaveErrors
<1> QED BY <1>2, ChecksHaveErrors

\* What passes both and can be stored is authentic and has no flaw.
LEMMA KeptIsAuthentic ==
  ASSUME NEW d \in Kept
  PROVE  /\ d \in Delivery /\ Screen[d].http = 0
         /\ Content[d].sig = "genuine" /\ Content[d].flaws = {}
         /\ Content[d].provider = "SYNTHETIC" =>
              Content[d].age \in -ToleranceSeconds..ToleranceSeconds
<1> DEFINE c == Content[d]
           e == IF "syntax" \in c.flaws THEN "INVALID_PAYLOAD" ELSE validate(c)
<1>1. d \in Delivery /\ Screen[d].http = 0 /\ d \notin Refuses
  BY DEF Kept
<1>2. screen(c).http = 0
  BY <1>1 DEF Screen
<1>3. verify(c) = "VERIFIED"
  <2> SUFFICES ASSUME verify(c) # "VERIFIED" PROVE FALSE
    OBVIOUS
  <2>1. screen(c).http = CASE verify(c) = "UNSUPPORTED_PROVIDER" -> 404
                           [] verify(c) = "MALFORMED_SIGNATURE"  -> 400
                           [] OTHER                              -> 401
    BY DEF screen
  <2>2. screen(c).http \in {404, 400, 401}
    BY <2>1
  <2> QED BY <1>2, <2>2
<1>4. e = "none"
  <2> SUFFICES ASSUME e # "none" PROVE FALSE
    OBVIOUS
  <2>1. screen(c).http \in {400, 500}
    BY <1>3 DEF screen
  <2> QED BY <1>2, <2>1
<1>5. "syntax" \notin c.flaws /\ validate(c) = "none"
  BY <1>4
<1>6. "calendar" \notin c.flaws
  BY <1>1 DEF Refuses, Unstorable
<1>7. c.flaws = {}
  <2>1. \A x \in c.flaws : \E check \in ToSet(Checks(c)) : x = check[1]
    BY <1>1, <1>5, <1>6, ContentAssumption
  <2>2. ToSet(Checks(c)) = {Checks(c)[k] : k \in DOMAIN Checks(c)}
    BY DEF ToSet
  <2> QED BY <1>1, <1>5, <2>1, <2>2, ValidIsFlawless DEF Failing
<1> QED BY <1>1, <1>3, <1>7, VerifiedIsGenuine

\* No refusal is a 200 or a 409.
LEMMA RefusalCodes ==
  ASSUME NEW d \in Delivery
  PROVE  Early[d] \in {0, 413, 415} /\ Screen[d].http \in {0, 400, 401, 404, 500}
<1> DEFINE c == Content[d]
           v == verify(c)
           e == IF "syntax" \in c.flaws THEN "INVALID_PAYLOAD" ELSE validate(c)
<1>1. Early[d] = early(c) /\ Screen[d] = screen(c)
  BY DEF Early, Screen
<1>2. early(c) \in {0, 413, 415}
  BY DEF early
<1>3. CASE v # "VERIFIED"
  <2>1. screen(c).http = CASE v = "UNSUPPORTED_PROVIDER" -> 404
                           [] v = "MALFORMED_SIGNATURE"  -> 400
                           [] OTHER                      -> 401
    BY <1>3 DEF screen
  <2>2. screen(c).http \in {404, 400, 401}
    BY <2>1
  <2> QED BY <1>1, <1>2, <2>2
<1>4. CASE v = "VERIFIED"
  <2>1. screen(c).http \in {0, 400, 500}
    BY <1>4 DEF screen
  <2> QED BY <1>1, <1>2, <2>1
<1> QED BY <1>3, <1>4

Passed == {d \in Delivery : Screen[d].http = 0}

\* A normalized event is an event.
LEMMA NormalizedIsEvent ==
  ASSUME NEW d \in Passed
  PROVE  Event[d] = normalize(Content[d]) /\ Event[d] # NoEvent
<1>1. Event[d] = normalize(Content[d])
  BY DEF Passed, Event
<1>2. Event[d].body.hash = hashPayload(Content[d]) /\ NoEvent.body.hash = << >>
  BY <1>1 DEF normalize, NoEvent
<1>3. hashPayload(Content[d]) # << >>
  BY DEF hashPayload
<1> QED BY <1>1, <1>2, <1>3

\* Two deliveries with one hash say the same.
LEMMA HashTellsMeaning ==
  ASSUME NEW d \in Passed, NEW b \in Passed,
         Event[d].body.hash = Event[b].body.hash
  PROVE  Says(d) = Says(b)
<1> DEFINE c == Content[d]  g == Content[b]
<1>1. Event[d] = normalize(c) /\ Event[b] = normalize(g)
  BY NormalizedIsEvent
<1>2. /\ Event[d].body.hash = hashPayload(c) /\ Event[b].body.hash = hashPayload(g)
      /\ Event[d].id = c.ext /\ Event[b].id = g.ext
      /\ Event[d].pay = c.pay /\ Event[b].pay = g.pay
      /\ Event[d].type = mapEventType(c) /\ Event[b].type = mapEventType(g)
      /\ Event[d].at = SortKey(normalizeOccurredAt(c.at))
      /\ Event[b].at = SortKey(normalizeOccurredAt(g.at))
      /\ Event[d].body.amount = c.amount /\ Event[b].body.amount = g.amount
      /\ Event[d].body.currency = normalizeIsoCurrency(c.ccy)
      /\ Event[b].body.currency = normalizeIsoCurrency(g.ccy)
  BY <1>1 DEF normalize
<1>3. hashPayload(c) = hashPayload(g)
  BY <1>2
<1>4. /\ c.provider = g.provider /\ c.ext = g.ext /\ c.name = g.name
      /\ c.pay = g.pay /\ c.amount = g.amount
      /\ normalizeOccurredAt(c.at) = normalizeOccurredAt(g.at)
      /\ normalizeIsoCurrency(c.ccy) = normalizeIsoCurrency(g.ccy)
  BY <1>3 DEF hashPayload
<1>5. mapEventType(c) = mapEventType(g)
  <2>1. EventTypeMap(c) = EventTypeMap(g)
    BY <1>4 DEF EventTypeMap
  <2>2. Mapping(c) = Mapping(g)
    BY <1>4, <2>1 DEF Mapping, SelectInSeq
  <2> QED BY <2>1, <2>2 DEF mapEventType
<1> QED BY <1>2, <1>4, <1>5 DEF Says, Meaning

\* What passes has a name in the map.
LEMMA PassedIsMapped ==
  ASSUME NEW d \in Passed
  PROVE  Mapping(Content[d]) # 0
<1> DEFINE c == Content[d]
           e == IF "syntax" \in c.flaws THEN "INVALID_PAYLOAD" ELSE validate(c)
<1>1. d \in Delivery /\ screen(c).http = 0
  BY DEF Passed, Screen
<1>2. verify(c) = "VERIFIED"
  <2> SUFFICES ASSUME verify(c) # "VERIFIED" PROVE FALSE
    OBVIOUS
  <2>1. screen(c).http = CASE verify(c) = "UNSUPPORTED_PROVIDER" -> 404
                           [] verify(c) = "MALFORMED_SIGNATURE"  -> 400
                           [] OTHER                              -> 401
    BY DEF screen
  <2>2. screen(c).http \in {404, 400, 401}
    BY <2>1
  <2> QED BY <1>1, <2>2
<1>3. e = "none"
  <2> SUFFICES ASSUME e # "none" PROVE FALSE
    OBVIOUS
  <2>1. screen(c).http \in {400, 500}
    BY <1>2 DEF screen
  <2> QED BY <1>1, <2>1
<1>4. 4 \in DOMAIN Checks(c) /\ Checks(c)[4][1] = "unmapped"
  BY DEF Checks, SYNTHETIC_CHECKS, RAZORPAY_CHECKS
<1>5. "unmapped" \notin Failing(c)
  BY <1>1, <1>3, <1>4, ValidIsFlawless
<1> QED BY <1>5 DEF Failing

\* No two names of a provider stand for one type of event.
LEMMA TypeTellsName ==
  ASSUME NEW c, NEW g, c.provider = g.provider, Mapping(c) # 0, Mapping(g) # 0,
         mapEventType(c) = mapEventType(g)
  PROVE  c.name = g.name
<1> DEFINE T == EventTypeMap(c)
           I(x) == {i \in 1..Len(T) : T[i][1] = x.name}
<1>1. EventTypeMap(g) = T
  BY DEF EventTypeMap
<1>2. /\ Len(T) \in {4, 5}
      /\ \A i, j \in 1..Len(T) : T[i][2] = T[j][2] => i = j
  <2>1. CASE T = SYNTHETIC_EVENT_TYPE_MAP
    <3>1. Len(T) = 5 /\ 1..5 = {1, 2, 3, 4, 5}
      BY <2>1 DEF SYNTHETIC_EVENT_TYPE_MAP
    <3> QED BY <2>1, <3>1 DEF SYNTHETIC_EVENT_TYPE_MAP
  <2>2. CASE T = RAZORPAY_EVENT_TYPE_MAP
    <3>1. Len(T) = 4 /\ 1..4 = {1, 2, 3, 4}
      BY <2>2 DEF RAZORPAY_EVENT_TYPE_MAP
    <3> QED BY <2>2, <3>1 DEF RAZORPAY_EVENT_TYPE_MAP
  <2> QED BY <2>1, <2>2 DEF EventTypeMap
<1>3. /\ Mapping(c) = IF I(c) # {} THEN Min(I(c)) ELSE 0
      /\ Mapping(g) = IF I(g) # {} THEN Min(I(g)) ELSE 0
  BY <1>1 DEF Mapping, SelectInSeq
<1>4. Mapping(c) \in I(c) /\ Mapping(g) \in I(g)
  <2>1. I(c) # {} /\ I(g) # {}
    BY <1>3
  <2>2. I(c) \subseteq 1..14 /\ I(g) \subseteq 1..14
    <3>1. \A i \in 1..Len(T) : i \in 1..14
      <4> HIDE DEF T
      <4> QED BY <1>2, SMTT(40)
    <3> QED BY <3>1
  <2> QED BY <1>3, <2>1, <2>2, FirstOfFew
<1>5. T[Mapping(c)][2] = T[Mapping(g)][2]
  BY <1>1 DEF mapEventType
<1> QED BY <1>2, <1>4, <1>5

LEMMA FractionDigits ==
  ASSUME NEW x \in Seq(0..9), NEW y \in Seq(0..9), Len(x) = Len(y), Len(x) <= 3,
         \A i \in {1, 2, 3} : i <= Len(x) => x[i] = y[i]
  PROVE  x = y
<1>1. Len(x) \in 0..3
  OBVIOUS
<1>2. \A i \in 1..Len(x) : x[i] = y[i]
  BY <1>1
<1> QED BY <1>2

Instant(x) == x \in [sec : Int, frac : Seq(0..9)] /\ Len(x.frac) <= 3

Digit(x, i) == IF i <= Len(x.frac) THEN x.frac[i] ELSE 0

LEMMA OneOfThem ==
  ASSUME NEW S, NEW f \in Seq(S), NEW i \in Nat \ {0}, i <= Len(f)
  PROVE  f[i] \in S
OBVIOUS

Weighed(s, x, y, z) == 1000 * s + 100 * x + 10 * y + z

\* A sort key and the number of digits make out the instant.
LEMMA KeyTellsInstant ==
  ASSUME NEW a, NEW b, Instant(a), Instant(b),
         Len(a.frac) = Len(b.frac), SortKey(a) = SortKey(b)
  PROVE  a = b
<1>1. /\ SortKey(a) = Weighed(a.sec, Digit(a, 1), Digit(a, 2), Digit(a, 3))
      /\ SortKey(b) = Weighed(b.sec, Digit(b, 1), Digit(b, 2), Digit(b, 3))
  BY DEF SortKey, Digit, Weighed
<1>2. /\ a.sec \in Int /\ a.frac \in Seq(0..9) /\ Len(a.frac) \in Nat
      /\ b.sec \in Int /\ b.frac \in Seq(0..9) /\ Len(b.frac) \in Nat
      /\ Len(a.frac) <= 3
  BY DEF Instant
<1>3. ASSUME NEW x \in {a, b}, NEW i \in {1, 2, 3} PROVE Digit(x, i) \in 0..9
  <2>1. x.frac \in Seq(0..9) /\ 0 \in 0..9 /\ i \in Nat \ {0}
    BY <1>2
  <2>2. CASE i <= Len(x.frac)
    BY <2>1, <2>2, OneOfThem DEF Digit
  <2>3. CASE ~(i <= Len(x.frac))
    BY <2>1, <2>3 DEF Digit
  <2> QED BY <2>2, <2>3
<1>4. /\ a.sec = b.sec /\ Digit(a, 1) = Digit(b, 1) /\ Digit(a, 2) = Digit(b, 2)
      /\ Digit(a, 3) = Digit(b, 3)
  <2>1. PICK s \in Int, x \in 0..9, y \in 0..9, z \in 0..9 :
          s = a.sec /\ x = Digit(a, 1) /\ y = Digit(a, 2) /\ z = Digit(a, 3)
    BY <1>2, <1>3
  <2>2. PICK t \in Int, u \in 0..9, v \in 0..9, w \in 0..9 :
          t = b.sec /\ u = Digit(b, 1) /\ v = Digit(b, 2) /\ w = Digit(b, 3)
    BY <1>2, <1>3
  <2>3. Weighed(s, x, y, z) = Weighed(t, u, v, w)
    BY <1>1, <2>1, <2>2
  <2>4. s = t /\ x = u /\ y = v /\ z = w
    BY <2>3 DEF Weighed
  <2> QED BY <2>1, <2>2, <2>4, SMTT(40)
<1>5. \A i \in {1, 2, 3} : i <= Len(a.frac) => a.frac[i] = b.frac[i]
  BY <1>4 DEF Digit
<1>6. a.frac = b.frac
  BY <1>2, <1>5, FractionDigits
<1> QED BY <1>4, <1>6 DEF Instant

\* Two deliveries of an event that say the same, with as many digits, have one
\* hash: what else they are written with makes no difference.
LEMMA MeaningTellsHash ==
  ASSUME NEW d \in Passed, NEW b \in Passed, Id[d] = Id[b], Says(d) = Says(b),
         Digits(Event[d]) = Digits(Event[b])
  PROVE  Event[d].body.hash = Event[b].body.hash
<1> DEFINE c == Content[d]  g == Content[b]
           s == normalizeOccurredAt(c.at)  t == normalizeOccurredAt(g.at)
<1>1. Event[d] = normalize(c) /\ Event[b] = normalize(g)
  BY NormalizedIsEvent
<1>2. /\ Event[d].body.hash = hashPayload(c) /\ Event[b].body.hash = hashPayload(g)
      /\ Event[d].pay = c.pay /\ Event[b].pay = g.pay
      /\ Event[d].type = mapEventType(c) /\ Event[b].type = mapEventType(g)
      /\ Event[d].at = SortKey(s) /\ Event[b].at = SortKey(t)
      /\ Event[d].body.amount = c.amount /\ Event[b].body.amount = g.amount
      /\ Event[d].body.currency = normalizeIsoCurrency(c.ccy)
      /\ Event[b].body.currency = normalizeIsoCurrency(g.ccy)
  BY <1>1 DEF normalize
<1>3. /\ c.pay = g.pay /\ mapEventType(c) = mapEventType(g)
      /\ SortKey(s) = SortKey(t) /\ c.amount = g.amount
      /\ normalizeIsoCurrency(c.ccy) = normalizeIsoCurrency(g.ccy)
  BY <1>2 DEF Says, Meaning
<1>4. d \in Delivery /\ b \in Delivery
  BY DEF Passed
<1>5. c.provider = g.provider /\ c.ext = g.ext
  BY <1>4 DEF Id, webhookIdentity
<1>6. c.name = g.name
  BY <1>3, <1>5, PassedIsMapped, TypeTellsName
<1>7. hashPayload(c)[5] = s /\ hashPayload(g)[5] = t
  BY DEF hashPayload
<1>8. Len(s.frac) = Len(t.frac)
  BY <1>2, <1>7 DEF Digits
<1>9. Instant(s) /\ Instant(t)
  <2>1. ASSUME NEW x, Instant(x) PROVE Instant(normalizeOccurredAt(x))
    <3>1. CASE x.frac = << >>
      <4>1. normalizeOccurredAt(x) = [sec |-> x.sec, frac |-> <<0, 0, 0>>]
        BY <3>1 DEF normalizeOccurredAt
      <4> QED BY <2>1, <4>1 DEF Instant
    <3>2. CASE x.frac # << >>
      <4>1. normalizeOccurredAt(x) = [sec |-> x.sec, frac |-> x.frac]
        BY <3>2 DEF normalizeOccurredAt
      <4> QED BY <2>1, <4>1 DEF Instant
    <3> QED BY <3>1, <3>2
  <2>2. Instant(c.at) /\ Instant(g.at)
    BY <1>4, ContentAssumption DEF Instant
  <2> QED BY <2>1, <2>2
<1>10. s = t
  <2> HIDE DEF s, t
  <2> QED BY <1>3, <1>8, <1>9, KeyTellsInstant
<1> QED BY <1>2, <1>3, <1>5, <1>6, <1>10 DEF hashPayload

-----------------------------------------------------------------------------
(* The invariant *)

AfterStore ==
  {"receipt", "conflict", "ensure", "begin", "observe"} \cup AttemptPoints

\* From the retry row on.
Working == {"begin", "observe"} \cup AttemptPoints

Domains ==
  /\ traffic \in Traffics
  /\ DOMAIN event = Identity /\ DOMAIN status = Identity /\ DOMAIN row = Identity
  /\ \A i \in Identity : DOMAIN row[i] = {"status", "att", "failed"}
  /\ DOMAIN answers = traffic.of
  /\ DOMAIN pc = Proc /\ DOMAIN hand = Proc
  /\ \A p \in Proc : DOMAIN hand[p] = {"d", "id", "stored", "again", "cause"}

\* A stored event is one that a delivery brought which may be kept.
Sourced ==
  \A i \in Identity :
    event[i] # NoEvent =>
      \E d \in traffic.of \cap Kept : Id[d] = i /\ event[i] = Event[d]

\* The columns of an event come and stay together, before its retry row.
Present ==
  \A i \in Identity :
    /\ status[i] = "ABSENT" <=> event[i] = NoEvent
    /\ row[i].status # "NONE" => event[i] # NoEvent

\* What d says is on record.
OnRecord(d) == event[Id[d]] # NoEvent /\ Meaning(event[Id[d]]) = Says(d)

\* A request works on what was sent, past the store only on what passed.
Screened(r) ==
  /\ pc[r] # "idle" => hand[r].d \in traffic.of
  /\ pc[r] \in {"store"} \cup AfterStore =>
       /\ Early[hand[r].d] = 0 /\ Screen[hand[r].d].http = 0
       /\ hand[r].id = Id[hand[r].d]

\* Only a delivery that differs from what is stored is told so.
Matched(r) ==
  /\ pc[r] \in AfterStore /\ hand[r].stored # "CONFLICT" => OnRecord(hand[r].d)
  /\ pc[r] \in {"ensure"} \cup Working => hand[r].stored # "CONFLICT"

\* An attempt has a row.
Rowed(p) ==
  pc[p] \in Working =>
    hand[p].id \in Identity /\ row[hand[p].id].status # "NONE"

Safe(p) == (p \in Request => Screened(p) /\ Matched(p)) /\ Rowed(p)

IInv ==
  /\ Domains
  /\ Sourced
  /\ Present
  /\ \A p \in Proc : Safe(p)
  /\ AcknowledgedIsTracked

-----------------------------------------------------------------------------
(* What every step does *)

\* No event is rewritten and no row is taken back.
Onward ==
  /\ traffic' = traffic
  /\ \A i \in Identity :
       /\ event[i] # NoEvent => event'[i] = event[i]
       /\ row[i].status # "NONE" => row'[i].status # "NONE"

Elsewhere(p) ==
  \A q \in Proc \ {p} : pc'[q] = pc[q] /\ hand'[q] = hand[q]

\* Nobody is told 200 who was not before, or may be told now.
Honest ==
  \A d \in traffic.of :
    200 \in answers'[d] =>
      200 \in answers[d] \/ (OnRecord(d) /\ row[Id[d]].status # "NONE")

Steady ==
  /\ UNCHANGED <<traffic, event, status, row>>
  /\ DOMAIN answers' = DOMAIN answers
  /\ DOMAIN pc' = DOMAIN pc /\ DOMAIN hand' = DOMAIN hand
  /\ \A p \in Proc : DOMAIN hand'[p] = DOMAIN hand[p]

LEMMA SameIdentities ==
  ASSUME traffic' = traffic
  PROVE  Identity' = Identity
BY DEF Identity

\* Deliveries in traffic are deliveries, with an identity each.
LEMMA InTraffic ==
  ASSUME traffic \in Traffics, NEW d \in traffic.of
  PROVE  d \in Delivery /\ Id[d] \in Identity
<1>1. traffic.of \subseteq Delivery
  BY IngestAssumption
<1> QED BY <1>1 DEF Identity

\* Whoever does nothing stays as safe as he was.
LEMMA SafeElsewhere ==
  ASSUME IInv, Onward, NEW q \in Proc, pc'[q] = pc[q], hand'[q] = hand[q]
  PROVE  Safe(q)'
<1>1. traffic' = traffic /\ Identity' = Identity
  BY SameIdentities DEF Onward
<1>2. Safe(q) /\ Domains
  BY DEF IInv
<1>3. ASSUME q \in Request PROVE Screened(q)'
  BY <1>1, <1>2, <1>3 DEF Safe, Screened
<1>4. ASSUME q \in Request PROVE Matched(q)'
  <2>1. ASSUME NEW d \in traffic.of, OnRecord(d) PROVE OnRecord(d)'
    <3>1. Id[d] \in Identity
      BY <1>2, InTraffic DEF Domains
    <3> QED BY <2>1, <3>1 DEF OnRecord, Onward
  <2>2. pc[q] \in AfterStore => hand[q].d \in traffic.of
    BY <1>2, <1>4 DEF Safe, Screened, AfterStore, AttemptPoints, HoldPoints
  <2> QED BY <1>1, <1>2, <1>4, <2>1, <2>2 DEF Safe, Matched
<1>5. Rowed(q)'
  BY <1>1, <1>2 DEF Safe, Rowed, Onward
<1> QED BY <1>3, <1>4, <1>5 DEF Safe

\* The answers stay true.
LEMMA AnswersStay ==
  ASSUME IInv, Onward, Honest
  PROVE  AcknowledgedIsTracked'
<1> SUFFICES ASSUME NEW d \in traffic.of, 200 \in answers'[d]
             PROVE  /\ event'[Id[d]] # NoEvent
                    /\ Meaning(event'[Id[d]]) = Says(d)
                    /\ row'[Id[d]].status # "NONE"
  BY DEF AcknowledgedIsTracked, Onward
<1>1. Id[d] \in Identity
  BY InTraffic DEF IInv, Domains
<1>2. OnRecord(d) /\ row[Id[d]].status # "NONE"
  BY DEF Honest, IInv, AcknowledgedIsTracked, OnRecord
<1> QED BY <1>1, <1>2 DEF OnRecord, Onward

\* Steps that write no event, no status and no row.
LEMMA SteadyKeeps ==
  ASSUME IInv, NEW p \in Proc, Steady, Elsewhere(p), Safe(p)', Honest
  PROVE  IInv' /\ Onward
<1>1. Onward
  BY DEF Onward, Steady
<1>2. Identity' = Identity /\ traffic' = traffic
  BY SameIdentities DEF Steady
<1>3. Domains'
  BY <1>2 DEF IInv, Domains, Steady
<1>4. Sourced' /\ Present'
  BY <1>2 DEF IInv, Sourced, Present, Steady
<1>5. \A q \in Proc : Safe(q)'
  BY <1>1, SafeElsewhere DEF Elsewhere
<1>6. AcknowledgedIsTracked'
  BY <1>1, AnswersStay
<1> QED BY <1>1, <1>3, <1>4, <1>5, <1>6 DEF IInv

-----------------------------------------------------------------------------
(* Steps that let go of a delivery *)

\* An answer other than 200 acknowledges nothing.
LEMMA AnswerIsHonest ==
  ASSUME IInv, NEW r \in Proc, NEW http, http # 200, Answer(r, http)
  PROVE  Honest /\ DOMAIN answers' = DOMAIN answers
<1>1. answers' = [answers EXCEPT ![hand[r].d] = @ \cup {http}]
  BY DEF Answer
<1>2. DOMAIN answers = traffic.of
  BY DEF IInv, Domains
<1> QED BY <1>1, <1>2 DEF Honest

LEMMA LeaveKeeps ==
  ASSUME IInv, NEW p \in Proc, Leave(p), UNCHANGED <<traffic, event, status, row>>,
         Honest, DOMAIN answers' = DOMAIN answers
  PROVE  IInv' /\ Onward
<1>1. DOMAIN pc = Proc /\ DOMAIN hand = Proc
  BY DEF IInv, Domains
<1>2. pc'[p] = "idle" /\ Elsewhere(p)
  BY <1>1 DEF Leave, Elsewhere
<1>3. \A q \in Proc : DOMAIN hand'[q] = DOMAIN hand[q]
  BY <1>1 DEF Leave, IInv, Domains, Idle
<1>4. Steady
  BY <1>1, <1>3 DEF Leave, Steady
<1>5. Safe(p)'
  BY <1>2 DEF Safe, Screened, Matched, Rowed, AfterStore, Working, AttemptPoints,
              HoldPoints
<1> QED BY <1>2, <1>4, <1>5, SteadyKeeps

LEMMA ThrownKeeps ==
  ASSUME IInv, NEW p \in Proc, Thrown(p), UNCHANGED <<traffic, event, status, row>>
  PROVE  IInv' /\ Onward
<1>1. CASE p \in Request
  <2>1. Answer(p, 500) /\ Leave(p)
    BY <1>1 DEF Thrown, Answer
  <2> QED BY <2>1, AnswerIsHonest, LeaveKeeps
<1>2. CASE p \notin Request
  <2>1. Leave(p) /\ answers' = answers
    BY <1>2 DEF Thrown, outside
  <2>2. Honest
    BY <2>1 DEF Honest
  <2> QED BY <2>1, <2>2, LeaveKeeps
<1> QED BY <1>1, <1>2

-----------------------------------------------------------------------------
(* Steps that go on to the next point *)

LEMMA GotoMoves ==
  ASSUME IInv, NEW p \in Proc, NEW from, NEW to, Goto(p, from, to)
  PROVE  /\ pc[p] = from /\ pc'[p] = to /\ DOMAIN pc' = DOMAIN pc
         /\ \A q \in Proc \ {p} : pc'[q] = pc[q]
BY DEF IInv, Domains, Goto

\* Nothing but the point changes, and the next one asks for no more.
LEMMA GotoKeeps ==
  ASSUME IInv, NEW p \in Proc, NEW from, NEW to, Goto(p, from, to),
         UNCHANGED <<traffic, event, status, row, hand, answers>>,
         \/ from \in Working /\ to \in Working
         \/ from = "refuse" /\ to = "report"
         \/ from = "receipt" /\ to = "conflict"
         \/ from = "receipt" /\ to = "ensure" /\ hand[p].stored # "CONFLICT",
         p \notin Request => from \in Working
  PROVE  IInv' /\ Onward
<1>1. /\ pc[p] = from /\ pc'[p] = to /\ DOMAIN pc' = DOMAIN pc
      /\ \A q \in Proc \ {p} : pc'[q] = pc[q]
  BY GotoMoves
<1>2. Steady /\ Elsewhere(p) /\ Honest
  BY <1>1 DEF Steady, Elsewhere, Honest
<1>3. Identity' = Identity
  BY SameIdentities
<1>4. Safe(p)
  BY DEF IInv
<1>5. Rowed(p)'
  BY <1>1, <1>3, <1>4 DEF Safe, Rowed, Working, AttemptPoints, HoldPoints
<1>6. ASSUME p \in Request PROVE Screened(p)'
  BY <1>1, <1>4, <1>6 DEF Safe, Screened, Working, AfterStore, AttemptPoints,
                          HoldPoints
<1>7. ASSUME p \in Request PROVE Matched(p)'
  BY <1>1, <1>4, <1>7 DEF Safe, Matched, OnRecord, Working, AfterStore,
                          AttemptPoints, HoldPoints
<1> QED BY <1>2, <1>5, <1>6, <1>7, SteadyKeeps DEF Safe

-----------------------------------------------------------------------------
(* Steps that write a status or a row *)

Written ==
  /\ UNCHANGED <<traffic, event, answers>>
  /\ DOMAIN status' = DOMAIN status /\ DOMAIN row' = DOMAIN row
  /\ \A i \in Identity :
       /\ status'[i] = "ABSENT" <=> status[i] = "ABSENT"
       /\ DOMAIN row'[i] = DOMAIN row[i]
       /\ row[i].status # "NONE" => row'[i].status # "NONE"
       /\ row'[i].status # "NONE" => event[i] # NoEvent
  /\ DOMAIN pc' = DOMAIN pc /\ DOMAIN hand' = DOMAIN hand
  /\ \A p \in Proc : DOMAIN hand'[p] = DOMAIN hand[p]

LEMMA WrittenKeeps ==
  ASSUME IInv, NEW p \in Proc, Written, Elsewhere(p), Safe(p)'
  PROVE  IInv' /\ Onward
<1>1. Onward /\ Honest
  BY DEF Onward, Written, Honest
<1>2. Identity' = Identity /\ traffic' = traffic
  BY SameIdentities DEF Written
<1>3. Domains'
  BY <1>2 DEF IInv, Domains, Written
<1>4. Sourced' /\ Present'
  BY <1>2 DEF IInv, Sourced, Present, Written
<1>5. \A q \in Proc : Safe(q)'
  BY <1>1, SafeElsewhere DEF Elsewhere
<1>6. AcknowledgedIsTracked'
  BY <1>1, AnswersStay
<1> QED BY <1>1, <1>3, <1>4, <1>5, <1>6 DEF IInv

\* The row a process works on is that of a stored event.
LEMMA InHand ==
  ASSUME IInv, NEW p \in Proc, pc[p] \in Working
  PROVE  /\ hand[p].id \in Identity /\ event[hand[p].id] # NoEvent
         /\ row[hand[p].id].status # "NONE" /\ status[hand[p].id] # "ABSENT"
BY DEF IInv, Safe, Rowed, Present

LEMMA EnsureKeeps ==
  ASSUME IInv, NEW r \in Request, Ensure(r)
  PROVE  IInv' /\ Onward
<1> DEFINE id == hand[r].id
           to == IF row[id].status \in {"NONE", "PENDING"} THEN "begin"
                                                          ELSE "observe"
<1>1. r \in Proc /\ Safe(r) /\ Domains
  BY DEF Proc, IInv
<1>2. Goto(r, "ensure", to)
  BY DEF Ensure
<1>3. /\ pc[r] = "ensure" /\ pc'[r] = to /\ DOMAIN pc' = DOMAIN pc
      /\ \A q \in Proc \ {r} : pc'[q] = pc[q]
  BY <1>1, <1>2, GotoMoves
<1>4. /\ row' = [row EXCEPT ![id].status = IF @ = "NONE" THEN "PENDING" ELSE @]
      /\ UNCHANGED <<traffic, event, status, answers, hand>>
  BY DEF Ensure, outside
<1>5. /\ hand[r].d \in traffic.of /\ id = Id[hand[r].d] /\ OnRecord(hand[r].d)
      /\ hand[r].stored # "CONFLICT"
  BY <1>1, <1>3 DEF Safe, Screened, Matched, AfterStore
<1>6. id \in Identity /\ event[id] # NoEvent
  BY <1>1, <1>5, InTraffic DEF Domains, OnRecord
<1>7. /\ DOMAIN row' = DOMAIN row
      /\ \A i \in Identity :
           /\ DOMAIN row'[i] = DOMAIN row[i]
           /\ i # id => row'[i] = row[i]
      /\ row'[id].status # "NONE"
  BY <1>1, <1>4, <1>6, SMTT(40) DEF Domains
<1>8. Written
  <2>1. \A i \in Identity : row[i].status # "NONE" => event[i] # NoEvent
    BY DEF IInv, Present
  <2> QED BY <1>3, <1>4, <1>6, <1>7, <2>1 DEF Written
<1>9. Elsewhere(r)
  BY <1>3, <1>4 DEF Elsewhere
<1>10. Screened(r)' /\ Matched(r)'
  BY <1>1, <1>3, <1>4, <1>5 DEF Safe, Screened, Matched, OnRecord, AfterStore, Working
<1>11. Rowed(r)'
  BY <1>4, <1>6, <1>7, SameIdentities DEF Rowed
<1> QED BY <1>1, <1>8, <1>9, <1>10, <1>11, WrittenKeeps DEF Safe

\* A claim by p of id, which has a row.
LEMMA ClaimsKeeps ==
  ASSUME IInv, NEW p \in Proc, NEW id \in Identity, Claims(p, id),
         NEW from, Goto(p, from, "announce"), row[id].status # "NONE",
         UNCHANGED <<traffic, event, status, answers>>,
         p \in Request => from = "begin" /\ id = hand[p].id
  PROVE  IInv' /\ Onward
<1>1. /\ pc[p] = from /\ pc'[p] = "announce" /\ DOMAIN pc' = DOMAIN pc
      /\ \A q \in Proc \ {p} : pc'[q] = pc[q]
  BY GotoMoves
<1>2. Domains /\ Safe(p) /\ event[id] # NoEvent
  BY DEF IInv, Present
<1>3. /\ DOMAIN row' = DOMAIN row
      /\ \A i \in Identity :
           /\ DOMAIN row'[i] = DOMAIN row[i]
           /\ i # id => row'[i] = row[i]
      /\ row'[id].status = "PROCESSING"
  BY <1>2 DEF Domains, Claims
<1>4. /\ DOMAIN hand' = DOMAIN hand
      /\ \A q \in Proc : DOMAIN hand'[q] = DOMAIN hand[q]
      /\ \A q \in Proc \ {p} : hand'[q] = hand[q]
      /\ hand'[p].id = id /\ hand'[p].d = hand[p].d
      /\ hand'[p].stored = hand[p].stored
  BY <1>2 DEF Domains, Claims
<1>5. Written
  <2>1. \A i \in Identity : row[i].status # "NONE" => event[i] # NoEvent
    BY DEF IInv, Present
  <2> QED BY <1>1, <1>2, <1>3, <1>4, <2>1 DEF Written
<1>6. Elsewhere(p)
  BY <1>1, <1>4 DEF Elsewhere
<1>7. Rowed(p)'
  BY <1>3, <1>4, SameIdentities DEF Rowed
<1>8. ASSUME p \in Request PROVE Screened(p)' /\ Matched(p)'
  BY <1>1, <1>2, <1>4, <1>8 DEF Safe, Screened, Matched, OnRecord, AfterStore,
                               Working, AttemptPoints, HoldPoints
<1> QED BY <1>5, <1>6, <1>7, <1>8, WrittenKeeps DEF Safe

LEMMA BeginKeeps ==
  ASSUME IInv, NEW r \in Request, Begin(r)
  PROVE  IInv' /\ Onward
<1>1. r \in Proc
  BY DEF Proc
<1>2. UNCHANGED <<traffic, event, status, answers>>
  BY DEF Begin, outside
<1>3. pc[r] = "begin"
  BY DEF Begin, Goto
<1>4. hand[r].id \in Identity /\ row[hand[r].id].status # "NONE"
  BY <1>1, <1>3, InHand DEF Working
<1>5. CASE Goto(r, "begin", "announce") /\ Claims(r, hand[r].id)
  BY <1>1, <1>2, <1>4, <1>5, ClaimsKeeps
<1>6. CASE Goto(r, "begin", "observe") /\ UNCHANGED <<row, hand>>
  BY <1>1, <1>2, <1>6, GotoKeeps DEF Working
<1> QED BY <1>5, <1>6 DEF Begin

LEMMA ClaimKeeps ==
  ASSUME IInv, NEW w \in Worker, Claim(w)
  PROVE  IInv' /\ Onward
<1>1. w \in Proc /\ w \notin Request
  BY IngestAssumption DEF Proc
<1>2. PICK id \in Identity : Due(id) /\ Claims(w, id)
  BY DEF Claim
<1>3. row[id].status # "NONE"
  BY <1>2 DEF Due
<1>4. Goto(w, "idle", "announce") /\ UNCHANGED <<traffic, event, status, answers>>
  BY DEF Claim, outside
<1> QED BY <1>1, <1>2, <1>3, <1>4, ClaimsKeeps

-----------------------------------------------------------------------------
(* The attempt *)

LEMMA AttemptKeeps ==
  ASSUME IInv, NEW p \in Proc, NEW from \in Working, NEW to \in Working,
         Goto(p, from, to), Written,
         \A q \in Proc \ {p} : hand'[q] = hand[q],
         hand'[p].d = hand[p].d, hand'[p].id = hand[p].id,
         hand'[p].stored = hand[p].stored
  PROVE  IInv' /\ Onward
<1>1. /\ pc[p] = from /\ pc'[p] = to
      /\ \A q \in Proc \ {p} : pc'[q] = pc[q]
  BY GotoMoves
<1>2. Elsewhere(p)
  BY <1>1 DEF Elsewhere
<1>3. hand[p].id \in Identity /\ row[hand[p].id].status # "NONE"
  BY <1>1, InHand
<1>4. Rowed(p)'
  BY <1>3, SameIdentities DEF Rowed, Written
<1>5. Safe(p)
  BY DEF IInv
<1>6. ASSUME p \in Request PROVE Screened(p)' /\ Matched(p)'
  BY <1>1, <1>5, <1>6 DEF Safe, Screened, Matched, OnRecord, Written, AfterStore,
                          Working, AttemptPoints, HoldPoints
<1> QED BY <1>2, <1>4, <1>6, WrittenKeeps DEF Safe

LEMMA AnnounceKeeps ==
  ASSUME IInv, NEW p \in Proc, Announce(p)
  PROVE  IInv' /\ Onward
<1>1. UNCHANGED <<traffic, event, status, row>>
  BY DEF Announce
<1>2. CASE Thrown(p)
  BY <1>1, <1>2, ThrownKeeps
<1>3. CASE Goto(p, "announce", "work") /\ UNCHANGED <<outside, hand>>
  BY <1>1, <1>3, GotoKeeps DEF outside, Working, AttemptPoints, HoldPoints
<1> QED BY <1>2, <1>3 DEF Announce

LEMMA WorkKeeps ==
  ASSUME IInv, NEW p \in Proc, Work(p)
  PROVE  IInv' /\ Onward
<1> DEFINE id == hand[p].id
<1>1. /\ Goto(p, "work", "commit") /\ pc[p] = "work"
      /\ UNCHANGED <<traffic, event, row, answers>>
  BY DEF Work, Goto, outside
<1>2. id \in Identity /\ event[id] # NoEvent /\ status[id] # "ABSENT"
  BY <1>1, InHand DEF Working, AttemptPoints, HoldPoints
<1>3. Domains
  BY DEF IInv
<1>4. /\ DOMAIN status' = Identity
      /\ \A i \in Identity : status'[i] = "ABSENT" <=> status[i] = "ABSENT"
  <2>1. \/ status' = status
        \/ \E s \in {status[id], "PROCESSING"} :
             status' = [status EXCEPT ![id] = s]
    BY DEF Work
  <2> QED BY <1>2, <1>3, <2>1 DEF Domains
<1>5. PICK cause : hand' = [hand EXCEPT ![p].cause = cause]
  BY DEF Work, Attempted
<1>6. /\ DOMAIN hand' = DOMAIN hand
      /\ \A q \in Proc : DOMAIN hand'[q] = DOMAIN hand[q]
      /\ \A q \in Proc \ {p} : hand'[q] = hand[q]
      /\ hand'[p].d = hand[p].d /\ hand'[p].id = hand[p].id
      /\ hand'[p].stored = hand[p].stored
  BY <1>3, <1>5 DEF Domains
<1>7. Written
  BY <1>1, <1>3, <1>4, <1>6, GotoMoves DEF Written, Domains, IInv, Present
<1> QED BY <1>1, <1>6, <1>7, AttemptKeeps DEF Working, AttemptPoints, HoldPoints

LEMMA CommitKeeps ==
  ASSUME IInv, NEW p \in Proc, Commit(p)
  PROVE  IInv' /\ Onward
<1> DEFINE id == hand[p].id
           met == hand[p].cause.met
<1>1. UNCHANGED <<traffic, event, row>> /\ pc[p] = "commit"
  BY DEF Commit
<1>2. CASE Thrown(p) /\ UNCHANGED status
  BY <1>1, <1>2, ThrownKeeps
<1>3. CASE /\ Goto(p, "commit", "settle")
           /\ status' = [status EXCEPT ![id] = IF met = NoMeeting THEN @
                                               ELSE TerminalStatus(met)]
           /\ UNCHANGED <<outside, hand>>
  <2>1. id \in Identity /\ status[id] # "ABSENT"
    BY <1>1, InHand DEF Working, AttemptPoints, HoldPoints
  <2>2. TerminalStatus(met) # "ABSENT"
    BY DEF TerminalStatus
  <2>3. Domains
    BY DEF IInv
  <2>4. /\ DOMAIN status' = Identity
        /\ \A i \in Identity : status'[i] = "ABSENT" <=> status[i] = "ABSENT"
    BY <1>3, <2>1, <2>2, <2>3 DEF Domains
  <2>5. Written
    BY <1>1, <1>3, <2>3, <2>4, GotoMoves DEF Written, Domains, IInv, Present, outside
  <2> QED BY <1>3, <2>5, AttemptKeeps DEF Working, AttemptPoints, HoldPoints
<1> QED BY <1>2, <1>3 DEF Commit

LEMMA SettleKeeps ==
  ASSUME IInv, NEW p \in Proc, Settle(p)
  PROVE  IInv' /\ Onward
<1> DEFINE id == hand[p].id
           outcome == AttemptStatus(hand[p].cause)
           to == IF outcome = "RETRY_SCHEDULED" THEN "tell" ELSE "raise"
<1>1. /\ Goto(p, "settle", to) /\ pc[p] = "settle"
      /\ UNCHANGED <<traffic, event, status, hand, answers>>
  BY DEF Settle, Goto, outside
<1>2. row' = [row EXCEPT ![id].status = outcome,
                         ![id].failed = outcome # "SUCCEEDED" \/ @]
  BY DEF Settle
<1>3. id \in Identity /\ event[id] # NoEvent
  BY <1>1, InHand DEF Working, AttemptPoints, HoldPoints
<1>4. outcome # "NONE"
  BY DEF AttemptStatus
<1>5. Domains
  BY DEF IInv
<1>6. /\ DOMAIN row' = DOMAIN row
      /\ \A i \in Identity :
           /\ DOMAIN row'[i] = DOMAIN row[i]
           /\ i # id => row'[i] = row[i]
      /\ row'[id].status = outcome
  <2> HIDE DEF outcome
  <2> QED BY <1>2, <1>3, <1>5 DEF Domains
<1>7. Written
  <2>1. \A i \in Identity : row[i].status # "NONE" => event[i] # NoEvent
    BY DEF IInv, Present
  <2> HIDE DEF outcome
  <2> QED BY <1>1, <1>3, <1>4, <1>6, <2>1, GotoMoves DEF Written
<1>8. to \in Working /\ "settle" \in Working
  BY DEF Working, AttemptPoints, HoldPoints
<1> HIDE DEF to
<1> QED BY <1>1, <1>7, <1>8, AttemptKeeps

LEMMA TellKeeps ==
  ASSUME IInv, NEW p \in Proc, Tell(p)
  PROVE  IInv' /\ Onward
<1>1. UNCHANGED <<traffic, event, status, row>>
  BY DEF Tell
<1>2. CASE Thrown(p)
  BY <1>1, <1>2, ThrownKeeps
<1>3. CASE Goto(p, "tell", "raise") /\ UNCHANGED <<outside, hand>>
  BY <1>1, <1>3, GotoKeeps DEF outside, Working, AttemptPoints
<1> QED BY <1>2, <1>3 DEF Tell

LEMMA RaiseKeeps ==
  ASSUME IInv, NEW p \in Proc, Raise(p)
  PROVE  IInv' /\ Onward
<1>1. UNCHANGED <<traffic, event, status, row, answers>>
  BY DEF Raise, outside
<1>2. CASE Goto(p, "raise", "observe") /\ UNCHANGED hand
  BY <1>1, <1>2, GotoKeeps DEF Working, AttemptPoints
<1>3. CASE Leave(p)
  BY <1>1, <1>3, LeaveKeeps DEF Honest
<1> QED BY <1>2, <1>3 DEF Raise

-----------------------------------------------------------------------------
(* Before the store *)

LEMMA TurnAwayKeeps ==
  ASSUME IInv, NEW r \in Request, NEW d \in Delivery, TurnAway(r, d)
  PROVE  IInv' /\ Onward
<1>1. r \in Proc /\ Domains
  BY DEF Proc, IInv
<1>2. /\ UNCHANGED <<traffic, event, status, row, pc, hand>>
      /\ answers' = [answers EXCEPT ![d] = @ \cup {Early[d]}]
  BY DEF TurnAway, tables
<1>3. Honest /\ DOMAIN answers' = DOMAIN answers
  BY <1>1, <1>2, RefusalCodes DEF Honest, Domains
<1>4. Steady /\ Elsewhere(r) /\ Onward
  BY <1>2, <1>3 DEF Steady, Elsewhere, Onward
<1>5. Safe(r)'
  BY <1>1, <1>2, <1>4, SafeElsewhere
<1> QED BY <1>1, <1>3, <1>4, <1>5, SteadyKeeps

LEMMA ReceiveKeeps ==
  ASSUME IInv, NEW r \in Request, NEW d \in Delivery, Receive(r, d)
  PROVE  IInv' /\ Onward
<1>1. r \in Proc /\ Domains
  BY DEF Proc, IInv
<1>2. /\ UNCHANGED <<traffic, event, status, row>>
      /\ d \in traffic.of /\ Early[d] = 0
  BY DEF Receive, Sends, tables
<1>3. CASE /\ answers' = [answers EXCEPT ![d] = @ \cup {500}]
           /\ UNCHANGED <<pc, hand>>
  <2>1. Honest /\ DOMAIN answers' = DOMAIN answers
    BY <1>1, <1>3 DEF Honest, Domains
  <2>2. Steady /\ Elsewhere(r) /\ Onward
    BY <1>2, <1>3, <2>1 DEF Steady, Elsewhere, Onward
  <2>3. Safe(r)'
    BY <1>1, <1>3, <2>2, SafeElsewhere
  <2> QED BY <1>1, <2>1, <2>2, <2>3, SteadyKeeps
<1>4. ASSUME NEW cause,
             Goto(r, "idle", IF Screen[d].http = 0 THEN "store" ELSE "refuse"),
             hand' = [hand EXCEPT ![r] = [Idle EXCEPT !.d = d, !.id = Id[d],
                                                      !.cause = cause]],
             UNCHANGED answers
      PROVE  IInv' /\ Onward
  <2>1. /\ pc'[r] = IF Screen[d].http = 0 THEN "store" ELSE "refuse"
        /\ DOMAIN pc' = DOMAIN pc
        /\ \A q \in Proc \ {r} : pc'[q] = pc[q]
    BY <1>1, <1>4, GotoMoves
  <2>2. /\ DOMAIN hand' = DOMAIN hand
        /\ \A q \in Proc : DOMAIN hand'[q] = DOMAIN hand[q]
        /\ \A q \in Proc \ {r} : hand'[q] = hand[q]
        /\ hand'[r].d = d /\ hand'[r].id = Id[d]
    BY <1>1, <1>4 DEF Domains, Idle
  <2>3. Steady /\ Elsewhere(r) /\ Honest
    BY <1>2, <1>4, <2>1, <2>2 DEF Steady, Elsewhere, Honest
  <2>4. Safe(r)'
    BY <1>2, <2>1, <2>2 DEF Safe, Screened, Matched, Rowed, AfterStore, Working,
                            AttemptPoints, HoldPoints
  <2> QED BY <1>1, <2>3, <2>4, SteadyKeeps
<1> QED BY <1>3, <1>4, ZenonT(60) DEF Receive

LEMMA RefuseKeeps ==
  ASSUME IInv, NEW r \in Request, Refuse(r)
  PROVE  IInv' /\ Onward
<1>1. r \in Proc
  BY DEF Proc
<1>2. Goto(r, "refuse", "report")
      /\ UNCHANGED <<traffic, event, status, row, hand, answers>>
  BY DEF Refuse, outside
<1> QED BY <1>1, <1>2, GotoKeeps

LEMMA ReportKeeps ==
  ASSUME IInv, NEW r \in Request, Report(r)
  PROVE  IInv' /\ Onward
<1>1. r \in Proc /\ Domains /\ Safe(r)
  BY DEF Proc, IInv
<1>2. /\ pc[r] = "report" /\ Answer(r, Screen[hand[r].d].http)
      /\ UNCHANGED <<traffic, event, status, row>>
  BY DEF Report
<1>3. hand[r].d \in Delivery
  BY <1>1, <1>2, InTraffic DEF Safe, Screened, Domains
<1>4. Screen[hand[r].d].http # 200
  BY <1>3, RefusalCodes
<1>5. Leave(r)
  BY <1>2 DEF Answer
<1> QED BY <1>1, <1>2, <1>4, <1>5, AnswerIsHonest, LeaveKeeps

-----------------------------------------------------------------------------
(* The store, the receipt and the answer *)

LEMMA StoreKeeps ==
  ASSUME IInv, NEW r \in Request, Store(r)
  PROVE  IInv' /\ Onward
<1> DEFINE id == hand[r].id
           d == hand[r].d
           outcome == StoreOutcome(id, Event[d])
<1>1. r \in Proc /\ Domains /\ Safe(r)
  BY DEF Proc, IInv
<1>2. /\ Goto(r, "store", "receipt") /\ pc[r] = "store" /\ d \notin Refuses
      /\ event' = [event EXCEPT ![id] = IF @ = NoEvent THEN Event[d] ELSE @]
      /\ status' = [status EXCEPT ![id] = IF @ = "ABSENT" THEN "RECEIVED" ELSE @]
      /\ hand' = [hand EXCEPT ![r].stored = outcome]
      /\ UNCHANGED <<traffic, row, answers>>
  BY DEF Store, Goto, outside
<1>3. /\ d \in traffic.of /\ d \in Delivery /\ id = Id[d] /\ id \in Identity
      /\ Early[d] = 0 /\ Screen[d].http = 0
  BY <1>1, <1>2, InTraffic DEF Safe, Screened, Domains
<1>4. d \in Kept /\ d \in Passed
  BY <1>2, <1>3 DEF Kept, Passed
<1>5. Event[d] # NoEvent
  BY <1>4, NormalizedIsEvent
<1>6. /\ DOMAIN event' = Identity /\ DOMAIN status' = Identity
      /\ \A i \in Identity :
           i # id => event'[i] = event[i] /\ status'[i] = status[i]
      /\ event'[id] = IF event[id] = NoEvent THEN Event[d] ELSE event[id]
      /\ status'[id] = IF status[id] = "ABSENT" THEN "RECEIVED" ELSE status[id]
  BY <1>1, <1>2, <1>3 DEF Domains
<1>7. /\ DOMAIN hand' = DOMAIN hand
      /\ \A q \in Proc : DOMAIN hand'[q] = DOMAIN hand[q]
      /\ \A q \in Proc \ {r} : hand'[q] = hand[q]
      /\ hand'[r].d = d /\ hand'[r].id = id /\ hand'[r].stored = outcome
  BY <1>1, <1>2 DEF Domains
<1>8. /\ pc'[r] = "receipt" /\ DOMAIN pc' = DOMAIN pc
      /\ \A q \in Proc \ {r} : pc'[q] = pc[q]
  BY <1>1, <1>2, GotoMoves
<1>9. Identity' = Identity
  BY <1>2, SameIdentities
<1>10. Onward
  BY <1>2, <1>6 DEF Onward
<1>11. Domains'
  BY <1>1, <1>2, <1>6, <1>7, <1>8, <1>9, SMTT(40) DEF Domains
<1>12. Sourced'
  BY <1>2, <1>3, <1>4, <1>6, <1>9 DEF IInv, Sourced
<1>13. Present'
  BY <1>2, <1>5, <1>6, <1>9 DEF IInv, Present
<1>14. outcome # "CONFLICT" => event'[id] # NoEvent /\ Meaning(event'[id]) = Says(d)
  <2>1. CASE event[id] = NoEvent
    BY <1>3, <1>5, <1>6, <2>1 DEF Says
  <2>2. CASE event[id] # NoEvent /\ event[id].body.hash = Event[d].body.hash
    <3>1. PICK b \in traffic.of \cap Kept : event[id] = Event[b]
      BY <1>3, <2>2 DEF IInv, Sourced
    <3>2. b \in Passed
      BY DEF Kept, Passed
    <3>3. Says(b) = Says(d)
      BY <1>4, <2>2, <3>1, <3>2, HashTellsMeaning
    <3> QED BY <1>3, <1>6, <2>2, <3>1, <3>3 DEF Says
  <2>3. CASE event[id] # NoEvent /\ event[id].body.hash # Event[d].body.hash
    <3>1. status[id] # "ABSENT"
      BY <1>3, <2>3 DEF IInv, Present
    <3>2. outcome = "CONFLICT"
      BY <2>3, <3>1 DEF StoreOutcome
    <3> QED BY <3>2
  <2> QED BY <2>1, <2>2, <2>3
<1>15. Safe(r)'
  <2> HIDE DEF outcome
  <2> QED BY <1>2, <1>3, <1>7, <1>8, <1>14
          DEF Safe, Screened, Matched, Rowed, Working, AttemptPoints, HoldPoints,
              OnRecord
<1>16. \A q \in Proc : Safe(q)'
  BY <1>7, <1>8, <1>10, <1>15, SafeElsewhere
<1>17. AcknowledgedIsTracked'
  BY <1>2, <1>10, AnswersStay DEF Honest
<1> QED BY <1>10, <1>11, <1>12, <1>13, <1>16, <1>17 DEF IInv

LEMMA StoreThrowsKeeps ==
  ASSUME IInv, NEW r \in Request, StoreThrows(r)
  PROVE  IInv' /\ Onward
BY ThrownKeeps DEF StoreThrows, tables, Proc

LEMMA ReceiptKeeps ==
  ASSUME IInv, NEW r \in Request, Receipt(r)
  PROVE  IInv' /\ Onward
<1>1. r \in Proc
  BY DEF Proc
<1>2. UNCHANGED <<traffic, event, status, row, hand, answers>>
  BY DEF Receipt, outside
<1>3. CASE hand[r].stored = "CONFLICT"
  BY <1>1, <1>2, <1>3, GotoKeeps DEF Receipt
<1>4. CASE hand[r].stored # "CONFLICT"
  BY <1>1, <1>2, <1>4, GotoKeeps DEF Receipt
<1> QED BY <1>3, <1>4

LEMMA ReportConflictKeeps ==
  ASSUME IInv, NEW r \in Request, ReportConflict(r)
  PROVE  IInv' /\ Onward
<1>1. r \in Proc
  BY DEF Proc
<1>2. Answer(r, 409) /\ Leave(r) /\ UNCHANGED <<traffic, event, status, row>>
  BY DEF ReportConflict, Answer
<1> QED BY <1>1, <1>2, AnswerIsHonest, LeaveKeeps

\* Where 200 is answered there is a row, and the event says what was sent.
LEMMA ObserveKeeps ==
  ASSUME IInv, NEW r \in Request, Observe(r)
  PROVE  IInv' /\ Onward
<1> DEFINE d == hand[r].d
<1>1. r \in Proc /\ Domains /\ Safe(r)
  BY DEF Proc, IInv
<1>2. /\ pc[r] = "observe" /\ UNCHANGED <<traffic, event, status, row>>
      /\ Leave(r) /\ \E http : answers' = [answers EXCEPT ![d] = @ \cup {http}]
  BY ZenonT(60) DEF Observe, Answer
<1>3. OnRecord(d) /\ row[Id[d]].status # "NONE"
  BY <1>1, <1>2 DEF Safe, Screened, Matched, Rowed, AfterStore, Working
<1>4. Honest /\ DOMAIN answers' = DOMAIN answers
  BY <1>1, <1>2, <1>3 DEF Honest, Domains
<1> QED BY <1>1, <1>2, <1>4, LeaveKeeps

-----------------------------------------------------------------------------
(* Faults *)

LEMMA ThrowKeeps ==
  ASSUME IInv, NEW p \in Proc, Throw(p)
  PROVE  IInv' /\ Onward
BY ThrownKeeps DEF Throw, tables

LEMMA CrashKeeps ==
  ASSUME IInv, Crash
  PROVE  IInv' /\ Onward
<1>1. /\ UNCHANGED <<traffic, event, status, row, answers>>
      /\ pc' = [p \in Proc |-> IF p \in Request THEN "idle" ELSE pc[p]]
      /\ hand' = [p \in Proc |-> IF p \in Request THEN Idle ELSE hand[p]]
  BY DEF Crash, tables, outside
<1>2. Onward /\ Honest /\ Identity' = Identity
  BY <1>1, SameIdentities DEF Onward, Honest
<1>3. Domains'
  BY <1>1, <1>2 DEF IInv, Domains, Idle
<1>4. Sourced' /\ Present'
  BY <1>1, <1>2 DEF IInv, Sourced, Present
<1>5. ASSUME NEW q \in Proc PROVE Safe(q)'
  <2>1. CASE q \in Request
    BY <1>1, <2>1 DEF Safe, Screened, Matched, Rowed, AfterStore, Working,
                      AttemptPoints, HoldPoints
  <2>2. CASE q \notin Request
    BY <1>1, <1>2, <2>2, SafeElsewhere
  <2> QED BY <2>1, <2>2
<1>6. AcknowledgedIsTracked'
  BY <1>2, AnswersStay
<1> QED BY <1>2, <1>3, <1>4, <1>5, <1>6 DEF IInv

-----------------------------------------------------------------------------
(* The invariant holds *)

LEMMA InitSafe == Init => IInv
<1> SUFFICES ASSUME Init PROVE IInv
  OBVIOUS
<1>1. Domains
  BY DEF Init, Domains, Idle
<1>2. Sourced /\ Present
  BY DEF Init, Sourced, Present
<1>3. \A p \in Proc : Safe(p)
  BY DEF Init, Safe, Screened, Matched, Rowed, AfterStore, Working,
         AttemptPoints, HoldPoints
<1>4. AcknowledgedIsTracked
  BY DEF Init, AcknowledgedIsTracked
<1> QED BY <1>1, <1>2, <1>3, <1>4 DEF IInv

LEMMA NextSafe ==
  ASSUME IInv, [Next]_vars
  PROVE  IInv' /\ Onward
<1>1. ASSUME NEW p \in Proc, FinishAttempt(p) PROVE IInv' /\ Onward
  BY <1>1, AnnounceKeeps, WorkKeeps, CommitKeeps, SettleKeeps, TellKeeps,
     RaiseKeeps DEF FinishAttempt
<1>2. ASSUME NEW d \in Delivery, Deliver(d) PROVE IInv' /\ Onward
  BY <1>2, TurnAwayKeeps, ReceiveKeeps DEF Deliver
<1>3. ASSUME NEW r \in Request, Handle(r) PROVE IInv' /\ Onward
  BY <1>1, <1>3, RefuseKeeps, ReportKeeps, StoreKeeps, StoreThrowsKeeps,
     ReceiptKeeps, ReportConflictKeeps, EnsureKeeps, BeginKeeps, ObserveKeeps
     DEF Handle, Proc
<1>4. ASSUME NEW w \in Worker, Claim(w) \/ FinishAttempt(w) PROVE IInv' /\ Onward
  BY <1>1, <1>4, ClaimKeeps DEF Proc
<1>5. ASSUME NEW p \in Proc, Throw(p) PROVE IInv' /\ Onward
  BY <1>5, ThrowKeeps
<1>6. CASE Crash
  BY <1>6, CrashKeeps
<1>7. CASE UNCHANGED vars
  <2>1. UNCHANGED <<traffic, event, status, row, answers, pc, hand>>
    BY <1>7 DEF vars, tables, outside
  <2>2. Onward /\ Identity' = Identity
    BY <2>1, SameIdentities DEF Onward
  <2>3. Domains' /\ Sourced' /\ Present'
    BY <2>1, <2>2 DEF IInv, Domains, Sourced, Present
  <2>4. \A q \in Proc : Safe(q)'
    BY <2>1, <2>2, SafeElsewhere
  <2>5. AcknowledgedIsTracked'
    BY <2>1, <2>2, AnswersStay DEF Honest
  <2> QED BY <2>2, <2>3, <2>4, <2>5 DEF IInv
<1> QED BY <1>2, <1>3, <1>4, <1>5, <1>6, <1>7 DEF Next

LEMMA Invariance == Spec => []IInv
<1>1. IInv /\ [Next]_vars => IInv'
  BY NextSafe
<1> QED BY InitSafe, <1>1, PTL DEF Spec

\* Whatever is sent, by whomever, how often and next to what else: the log
\* holds nothing but what an authentic, well-formed delivery said
\* (process-incoming-webhook.ts stores after verify and normalize, and the
\* store is the only writer of webhook_events).
THEOREM AuthenticLog == Spec => []OnlyAuthenticStored
<1>1. IInv => OnlyAuthenticStored
  <2> SUFFICES ASSUME IInv, NEW i \in Identity, event[i] # NoEvent
               PROVE  \E d \in traffic.of :
                        LET c == Content[d]
                        IN  /\ webhookIdentity(c) = i /\ event[i] = normalize(c)
                            /\ c.sig = "genuine" /\ c.flaws = {}
                            /\ c.provider = "SYNTHETIC" =>
                                 c.age \in -ToleranceSeconds..ToleranceSeconds
    BY DEF OnlyAuthenticStored
  <2>1. PICK d \in traffic.of \cap Kept : Id[d] = i /\ event[i] = Event[d]
    BY DEF IInv, Sourced
  <2>2. d \in Passed /\ d \in Delivery
    BY DEF Kept, Passed
  <2>3. webhookIdentity(Content[d]) = i /\ event[i] = normalize(Content[d])
    BY <2>1, <2>2, NormalizedIsEvent DEF Id
  <2> QED BY <2>1, <2>3, KeptIsAuthentic
<1> QED BY <1>1, Invariance, PTL

\* A provider that was told 200 may forget the delivery: what it said is stored
\* and has a retry row, whatever crashed or threw on the way, and whichever
\* spelling of the event came first (http/webhooks.ts, respond).
THEOREM AcknowledgedIsSafe == Spec => []AcknowledgedIsTracked
<1>1. IInv => AcknowledgedIsTracked
  BY DEF IInv
<1> QED BY <1>1, Invariance, PTL

\* A stored event is never rewritten, and an event never loses its retry row:
\* an INSERT that meets an identity leaves the row as it is.
THEOREM LogOnlyGrows == Spec => [][Onward]_vars
<1>1. IInv /\ [Next]_vars => [Onward]_vars
  BY NextSafe
<1> QED BY <1>1, Invariance, PTL DEF Spec

-----------------------------------------------------------------------------
(* The counters *)

\* Where a counted delivery ends.
EndNames == {"webhooksRejected", "conflicts", "processingFailures"}

Underway == {r \in Request : Busy(r)}

CountInv ==
  /\ IInv
  /\ metrics \in [RUNTIME_METRIC_NAMES -> Nat] /\ accepted \in Nat
  /\ CountersBalance

\* Counters that have no part in the balance.
Uncounted ==
  /\ metrics' \in [RUNTIME_METRIC_NAMES -> Nat] /\ accepted' = accepted
  /\ \A m \in EndNames \cup {"webhooksReceived"} : metrics'[m] = metrics[m]

LEMMA Counting ==
  ASSUME metrics \in [RUNTIME_METRIC_NAMES -> Nat], NEW m \in RUNTIME_METRIC_NAMES
  PROVE  /\ Counted(m) \in [RUNTIME_METRIC_NAMES -> Nat]
         /\ \A n \in RUNTIME_METRIC_NAMES :
              Counted(m)[n] = IF n = m THEN metrics[n] + 1 ELSE metrics[n]
BY DEF Counted

LEMMA CountingAside ==
  ASSUME CountInv, accepted' = accepted,
         \/ metrics' = metrics
         \/ \E m \in {"duplicates", "retryAttempts", "deadLetterEvents"} :
              metrics' = Counted(m)
  PROVE  Uncounted
<1>1. CASE metrics' = metrics
  BY <1>1 DEF CountInv, Uncounted
<1>2. ASSUME NEW m \in {"duplicates", "retryAttempts", "deadLetterEvents"},
             metrics' = Counted(m)
      PROVE  Uncounted
  <2>1. m \in RUNTIME_METRIC_NAMES /\ m \notin EndNames \cup {"webhooksReceived"}
        /\ EndNames \cup {"webhooksReceived"} \subseteq RUNTIME_METRIC_NAMES
    BY DEF RUNTIME_METRIC_NAMES, EndNames
  <2> QED BY <1>2, <2>1, Counting DEF CountInv, Uncounted
<1> QED BY <1>1, <1>2

\* Nobody takes up or lets go of a delivery.
LEMMA BusyAsBefore ==
  ASSUME CountInv, IInv', Uncounted, \A r \in Request : Busy(r)' <=> Busy(r)
  PROVE  CountInv'
<1>1. Underway' = Underway
  BY DEF Underway
<1> QED BY <1>1 DEF CountInv, CountersBalance, Uncounted, EndNames, Underway

\* Steps of one process between two awaits.
LEMMA GoesOn ==
  ASSUME CountInv, IInv', NEW p \in Proc, NEW from, NEW to, Goto(p, from, to),
         p \in Request => from # "idle" /\ to # "idle", Uncounted
  PROVE  CountInv'
<1>1. /\ pc[p] = from /\ pc'[p] = to
      /\ \A q \in Proc \ {p} : pc'[q] = pc[q]
  BY GotoMoves DEF CountInv
<1>2. \A r \in Request : Busy(r)' <=> Busy(r)
  BY <1>1 DEF Busy, Proc
<1> QED BY <1>2, BusyAsBefore

\* A worker's steps.
LEMMA WorkerGoes ==
  ASSUME CountInv, IInv', NEW p \in Proc, p \notin Request, Leave(p), Uncounted
  PROVE  CountInv'
<1>1. \A q \in Request : pc'[q] = pc[q]
  BY DEF Leave, CountInv, IInv, Domains, Proc
<1> QED BY <1>1, BusyAsBefore DEF Busy

LEMMA UnderwayIsFinite == IsFiniteSet(Underway) /\ Cardinality(Underway) \in Nat
<1>1. Underway \in SUBSET Request
  BY DEF Underway
<1>2. IsFiniteSet(Underway)
  BY <1>1, IngestAssumption, FS_Subset
<1> QED BY <1>2, FS_CardinalityType

\* A request that answers is counted once.
LEMMA EndCounted ==
  ASSUME CountInv, IInv', NEW r \in Request, Busy(r), Leave(r),
         \/ metrics' = metrics /\ accepted' = accepted + 1
         \/ /\ \E m \in EndNames : metrics' = Counted(m)
            /\ accepted' = accepted
  PROVE  CountInv'
<1>1. /\ pc'[r] = "idle" /\ r \in Proc
      /\ \A q \in Request \ {r} : pc'[q] = pc[q]
  BY DEF Leave, CountInv, IInv, Domains, Proc
<1>2. Underway' = Underway \ {r} /\ r \in Underway
  BY <1>1 DEF Underway, Busy
<1>3. Cardinality(Underway') = Cardinality(Underway) - 1
  BY <1>2, UnderwayIsFinite, FS_RemoveElement
<1>4. {"webhooksReceived"} \cup EndNames \subseteq RUNTIME_METRIC_NAMES
  BY DEF RUNTIME_METRIC_NAMES, EndNames
<1>5. CASE metrics' = metrics /\ accepted' = accepted + 1
  BY <1>3, <1>4, <1>5, UnderwayIsFinite DEF CountInv, CountersBalance, Underway, EndNames
<1>6. ASSUME NEW m \in EndNames, metrics' = Counted(m), accepted' = accepted
      PROVE  CountInv'
  <2>1. /\ metrics' \in [RUNTIME_METRIC_NAMES -> Nat]
        /\ \A n \in {"webhooksReceived"} \cup EndNames :
             metrics'[n] = IF n = m THEN metrics[n] + 1 ELSE metrics[n]
    BY <1>4, <1>6, Counting DEF CountInv
  <2>2. m # "webhooksReceived"
    BY DEF EndNames
  <2>3. \A n \in {"webhooksReceived"} \cup EndNames : metrics[n] \in Nat
    BY <1>4 DEF CountInv
  <2>4. metrics'["webhooksRejected"] + metrics'["conflicts"]
          + metrics'["processingFailures"]
        = metrics["webhooksRejected"] + metrics["conflicts"]
            + metrics["processingFailures"] + 1
    BY <2>1, <2>3 DEF EndNames
  <2>5. metrics'["webhooksReceived"] = metrics["webhooksReceived"]
    BY <2>1, <2>2
  <2>6. \A n \in {"webhooksReceived"} \cup EndNames : metrics'[n] \in Nat
    BY <1>4, <2>1
  <2>7. CountersBalance'
    BY <1>3, <1>6, <2>3, <2>4, <2>5, <2>6, UnderwayIsFinite
       DEF CountInv, CountersBalance, Underway, EndNames
  <2> QED BY <1>6, <2>1, <2>7 DEF CountInv
<1> QED BY <1>5, <1>6

\* Whatever throws out of the attempt.
LEMMA ThrownCounts ==
  ASSUME CountInv, IInv', NEW p \in Proc, Thrown(p), Busy(p)
  PROVE  CountInv'
<1>1. CASE p \in Request
  <2>1. /\ Leave(p) /\ accepted' = accepted
        /\ metrics' = Counted("processingFailures")
    BY <1>1 DEF Thrown, Answer
  <2> QED BY <1>1, <2>1, EndCounted DEF EndNames
<1>2. CASE p \notin Request
  <2>1. Leave(p) /\ metrics' = metrics /\ accepted' = accepted
    BY <1>2 DEF Thrown, counters
  <2> QED BY <1>2, <2>1, CountingAside, WorkerGoes
<1> QED BY <1>1, <1>2

LEMMA ReceiveCounts ==
  ASSUME CountInv, IInv', NEW r \in Request, NEW d \in Delivery, Receive(r, d)
  PROVE  CountInv'
<1>1. {"webhooksReceived"} \cup EndNames \subseteq RUNTIME_METRIC_NAMES
  BY DEF RUNTIME_METRIC_NAMES, EndNames
<1>2. /\ \A n \in {"webhooksReceived"} \cup EndNames :
           /\ metrics[n] \in Nat
           /\ Counted("webhooksReceived")[n] =
                IF n = "webhooksReceived" THEN metrics[n] + 1 ELSE metrics[n]
      /\ Counted("webhooksReceived") \in [RUNTIME_METRIC_NAMES -> Nat]
  BY <1>1, Counting DEF CountInv
<1>3. pc[r] = "idle" /\ accepted' = accepted /\ r \in Proc
  BY DEF Receive, Sends, Proc
<1>4. CASE Screen[d].http = 500
  <2>1. /\ metrics' = [Counted("webhooksReceived") EXCEPT !["processingFailures"] = @ + 1]
        /\ UNCHANGED pc
    BY <1>4 DEF Receive
  <2>2. /\ metrics' \in [RUNTIME_METRIC_NAMES -> Nat]
        /\ \A n \in {"webhooksReceived"} \cup EndNames :
             metrics'[n] = IF n \in {"webhooksReceived", "processingFailures"}
                           THEN metrics[n] + 1 ELSE metrics[n]
    BY <1>1, <1>2, <2>1 DEF EndNames
  <2>3. Underway' = Underway
    BY <2>1 DEF Underway, Busy
  <2>4. CountersBalance'
    <3>1. /\ metrics'["webhooksReceived"] = metrics["webhooksReceived"] + 1
          /\ metrics'["processingFailures"] = metrics["processingFailures"] + 1
          /\ metrics'["webhooksRejected"] = metrics["webhooksRejected"]
          /\ metrics'["conflicts"] = metrics["conflicts"]
      BY <2>2 DEF EndNames
    <3>2. \A n \in {"webhooksReceived", "processingFailures", "webhooksRejected",
                    "conflicts"} : metrics[n] \in Nat
      BY <1>2 DEF EndNames
    <3>3. metrics["webhooksReceived"] =
            metrics["webhooksRejected"] + metrics["conflicts"]
              + metrics["processingFailures"] + accepted + Cardinality(Underway)
      BY DEF CountInv, CountersBalance, Underway
    <3>4. metrics'["webhooksReceived"] =
            metrics'["webhooksRejected"] + metrics'["conflicts"]
              + metrics'["processingFailures"] + accepted' + Cardinality(Underway')
      BY <1>3, <2>3, <3>1, <3>2, <3>3, UnderwayIsFinite DEF CountInv
    <3> QED BY <3>4 DEF CountersBalance, Underway
  <2> QED BY <1>3, <2>2, <2>4 DEF CountInv
<1>5. CASE Screen[d].http # 500
  <2>1. PICK to \in {"store", "refuse"} : Goto(r, "idle", to)
    BY <1>5 DEF Receive
  <2>2. metrics' = Counted("webhooksReceived")
    BY <1>5 DEF Receive
  <2>3. pc'[r] = to /\ \A q \in Proc \ {r} : pc'[q] = pc[q]
    BY <1>3, <2>1, GotoMoves DEF CountInv
  <2>4. Underway' = Underway \cup {r} /\ r \notin Underway
    BY <1>3, <2>3 DEF Underway, Busy, Proc
  <2>5. Cardinality(Underway') = Cardinality(Underway) + 1
    BY <2>4, UnderwayIsFinite, FS_AddElement
  <2>6. CountersBalance'
    BY <1>2, <1>3, <2>2, <2>5, UnderwayIsFinite
       DEF CountInv, CountersBalance, Underway, EndNames
  <2> QED BY <1>2, <1>3, <2>2, <2>6 DEF CountInv
<1> QED BY <1>4, <1>5

LEMMA CrashCounts ==
  ASSUME CountInv, IInv', Crash
  PROVE  CountInv'
<1>1. /\ metrics' = [m \in RUNTIME_METRIC_NAMES |-> 0] /\ accepted' = 0
      /\ pc' = [p \in Proc |-> IF p \in Request THEN "idle" ELSE pc[p]]
  BY DEF Crash
<1>2. Underway' = {}
  BY <1>1 DEF Underway, Busy, Proc
<1>3. Cardinality(Underway') = 0
  BY <1>2, FS_EmptySet
<1> QED BY <1>1, <1>3 DEF CountInv, CountersBalance, Underway, RUNTIME_METRIC_NAMES

LEMMA AnswerCounts ==
  ASSUME CountInv, IInv', NEW r \in Request,
         Report(r) \/ ReportConflict(r) \/ Observe(r)
  PROVE  CountInv'
<1>1. r \in Proc /\ Busy(r) /\ Leave(r)
  BY DEF Report, ReportConflict, Observe, Answer, Busy, Proc
<1>2. CASE Report(r)
  <2>1. hand[r].d \in Delivery
    BY <1>1, <1>2, InTraffic DEF CountInv, IInv, Safe, Screened, Domains, Report
  <2>2. accepted' = accepted
    BY <1>2, <2>1, RefusalCodes DEF Report, Answer
  <2>3. \E m \in EndNames : metrics' = Counted(m)
    BY <1>2 DEF Report, EndNames
  <2> QED BY <1>1, <2>2, <2>3, EndCounted
<1>3. CASE ReportConflict(r)
  <2>1. accepted' = accepted /\ metrics' = Counted("conflicts")
    BY <1>3 DEF ReportConflict, Answer
  <2> QED BY <1>1, <2>1, EndCounted DEF EndNames
<1>4. CASE Observe(r)
  <2>1. \/ metrics' = metrics /\ accepted' = accepted + 1
        \/ metrics' = Counted("processingFailures") /\ accepted' = accepted
    BY <1>4 DEF Observe, Answer
  <2> QED BY <1>1, <2>1, EndCounted DEF EndNames
<1> QED BY <1>2, <1>3, <1>4

\* A delivery on its way.
LEMMA HandleCounts ==
  ASSUME CountInv, IInv', NEW r \in Request,
         Refuse(r) \/ Store(r) \/ Receipt(r) \/ Ensure(r) \/ Begin(r)
  PROVE  CountInv'
<1>1. r \in Proc
  BY DEF Proc
<1>2. \E from, to \in Points \ {"idle"} : Goto(r, from, to)
  BY DEF Refuse, Store, Receipt, Ensure, Begin, Points, AttemptPoints, HoldPoints
<1>3. Uncounted
  <2>1. accepted' = accepted
    BY DEF Refuse, Store, Receipt, Ensure, Begin, counters
  <2>2. \/ metrics' = metrics
        \/ metrics' = Counted("duplicates") \/ metrics' = Counted("retryAttempts")
    BY DEF Refuse, Store, Receipt, Ensure, Begin, counters
  <2> QED BY <2>1, <2>2, CountingAside
<1> QED BY <1>1, <1>2, <1>3, GoesOn

LEMMA AttemptCounts ==
  ASSUME CountInv, IInv', NEW p \in Proc, FinishAttempt(p)
  PROVE  CountInv'
<1>1. Busy(p)
  BY DEF FinishAttempt, Announce, Work, Commit, Settle, Tell, Raise, Goto, Busy
<1>2. CASE Thrown(p)
  BY <1>1, <1>2, ThrownCounts
<1>3. CASE /\ Uncounted
           /\ \E from, to \in Points \ {"idle"} : Goto(p, from, to)
  BY <1>3, GoesOn
<1>4. CASE Leave(p) /\ p \notin Request /\ Uncounted
  BY <1>4, WorkerGoes
<1>5. ASSUME metrics' = metrics \/ metrics' = Counted("deadLetterEvents"),
             accepted' = accepted
      PROVE  Uncounted
  BY <1>5, CountingAside
<1>6. {"announce", "work", "commit", "settle", "tell", "raise", "observe"}
        \subseteq Points \ {"idle"}
  BY DEF Points, AttemptPoints, HoldPoints
<1>7. CASE Announce(p)
  BY <1>2, <1>3, <1>5, <1>6, <1>7 DEF Announce, counters
<1>8. CASE Work(p)
  BY <1>3, <1>5, <1>6, <1>8 DEF Work, counters
<1>9. CASE Commit(p)
  BY <1>2, <1>3, <1>5, <1>6, <1>9 DEF Commit, counters
<1>10. CASE Settle(p)
  BY <1>3, <1>5, <1>6, <1>10 DEF Settle
<1>11. CASE Tell(p)
  BY <1>2, <1>3, <1>5, <1>6, <1>11 DEF Tell, counters
<1>12. CASE Raise(p)
  BY <1>3, <1>4, <1>5, <1>6, <1>12 DEF Raise, counters
<1> QED BY <1>7, <1>8, <1>9, <1>10, <1>11, <1>12 DEF FinishAttempt

LEMMA InitCounts == Init => CountInv
<1> SUFFICES ASSUME Init PROVE CountInv
  OBVIOUS
<1>1. Underway = {}
  BY DEF Init, Underway, Busy, Proc
<1>2. Cardinality(Underway) = 0
  BY <1>1, FS_EmptySet
<1> QED BY <1>2, InitSafe DEF Init, CountInv, CountersBalance, Underway, RUNTIME_METRIC_NAMES

LEMMA NextCounts ==
  ASSUME CountInv, [Next]_vars
  PROVE  CountInv'
<1>1. IInv'
  BY NextSafe DEF CountInv
<1>2. ASSUME metrics' = metrics, accepted' = accepted, pc' = pc
      PROVE  CountInv'
  BY <1>1, <1>2, CountingAside, BusyAsBefore DEF Busy
<1>3. ASSUME NEW d \in Delivery, Deliver(d) PROVE CountInv'
  <2>1. ASSUME NEW r \in Request, TurnAway(r, d) PROVE CountInv'
    BY <1>2, <2>1 DEF TurnAway, counters
  <2> QED BY <1>1, <1>3, <2>1, ReceiveCounts DEF Deliver
<1>4. ASSUME NEW r \in Request, StoreThrows(r) PROVE CountInv'
  BY <1>1, <1>4, ThrownCounts DEF StoreThrows, Busy, Proc
<1>5. ASSUME NEW r \in Request, Handle(r) PROVE CountInv'
  BY <1>1, <1>4, <1>5, AnswerCounts, HandleCounts, AttemptCounts DEF Handle, Proc
<1>6. ASSUME NEW w \in Worker, Claim(w) PROVE CountInv'
  <2>1. w \in Proc /\ w \notin Request
    BY IngestAssumption DEF Proc
  <2>2. Goto(w, "idle", "announce") /\ metrics' = metrics /\ accepted' = accepted
    BY <1>6 DEF Claim, counters
  <2> QED BY <1>1, <2>1, <2>2, CountingAside, GoesOn
<1>7. ASSUME NEW w \in Worker, FinishAttempt(w) PROVE CountInv'
  BY <1>1, <1>7, AttemptCounts DEF Proc
<1>8. ASSUME NEW p \in Proc, Throw(p) PROVE CountInv'
  <2>1. Busy(p)
    BY <1>8 DEF Throw, Busy, AttemptPoints, HoldPoints
  <2> QED BY <1>1, <1>8, <2>1, ThrownCounts DEF Throw
<1>9. CASE Crash
  BY <1>1, <1>9, CrashCounts
<1>10. CASE UNCHANGED vars
  BY <1>2, <1>10 DEF vars, counters
<1> QED BY <1>3, <1>5, <1>6, <1>7, <1>8, <1>9, <1>10 DEF Next

\* The counters of the API process add up: no path through the handler, no
\* swallowed failure and no throw leaves a delivery uncounted or counts it twice
\* (process-incoming-webhook.ts, which counts, and packages/observability).
THEOREM CountersAddUp == Spec => []CountersBalance
<1>1. CountInv /\ [Next]_vars => CountInv'
  BY NextCounts
<1>2. CountInv => CountersBalance
  BY DEF CountInv
<1> QED BY InitCounts, <1>1, <1>2, PTL DEF Spec

-----------------------------------------------------------------------------
(* Conflicts *)

\* Another version of what d brings is stored.
Refuted(d) == /\ d \in Passed
              /\ event[Id[d]] # NoEvent
              /\ event[Id[d]].body.hash # Event[d].body.hash

Doubts == {"receipt", "conflict"}

\* A request that will answer 409 is about to tell the truth.
Doubted(r) ==
  /\ pc[r] \in Doubts /\ hand[r].stored = "CONFLICT" => Refuted(hand[r].d)
  /\ pc[r] = "conflict" => hand[r].stored = "CONFLICT"

DifferInv ==
  /\ IInv
  /\ \A r \in Request : Doubted(r)
  /\ \A d \in traffic.of : 409 \in answers[d] => Refuted(d)

\* Nobody is told of a conflict who was not before, or may be told now.
Discreet ==
  \A d \in traffic.of :
    409 \in answers'[d] => 409 \in answers[d] \/ Refuted(d)

LEMMA RefutedStays ==
  ASSUME IInv, Onward, NEW d \in traffic.of, Refuted(d)
  PROVE  Refuted(d)'
<1>1. Id[d] \in Identity
  BY InTraffic DEF IInv, Domains
<1> QED BY <1>1 DEF Refuted, Onward

LEMMA DiscreetKeeps ==
  ASSUME DifferInv, IInv', Onward, Discreet, \A r \in Request : Doubted(r)'
  PROVE  DifferInv'
<1>1. \A d \in traffic.of : 409 \in answers'[d] => Refuted(d)'
  BY RefutedStays DEF DifferInv, Discreet
<1> QED BY <1>1 DEF DifferInv, Onward

\* Nobody gets to the store's answer.
LEMMA AsideKeeps ==
  ASSUME DifferInv, IInv', Onward, Discreet,
         \A r \in Request : \/ pc'[r] = pc[r] /\ hand'[r] = hand[r]
                            \/ pc'[r] \notin Doubts
  PROVE  DifferInv'
<1>1. ASSUME NEW r \in Request PROVE Doubted(r)'
  <2>1. CASE pc'[r] = pc[r] /\ hand'[r] = hand[r]
    <3>1. Doubted(r) /\ (pc[r] \in Doubts => hand[r].d \in traffic.of)
      BY DEF DifferInv, IInv, Safe, Screened, Doubts, Proc
    <3>2. pc[r] \in Doubts /\ hand[r].stored = "CONFLICT" => Refuted(hand[r].d)'
      <4> SUFFICES ASSUME pc[r] \in Doubts, hand[r].stored = "CONFLICT"
                   PROVE  Refuted(hand[r].d)'
        OBVIOUS
      <4>1. PICK d \in traffic.of : d = hand[r].d
        BY <3>1
      <4>2. Refuted(d)'
        BY <3>1, <4>1, RefutedStays DEF Doubted, DifferInv
      <4> QED BY <2>1, <4>1, <4>2 DEF Refuted
    <3> QED BY <2>1, <3>1, <3>2 DEF Doubted
  <2>2. CASE pc'[r] \notin Doubts
    BY <2>2 DEF Doubted, Doubts
  <2> QED BY <2>1, <2>2
<1> QED BY <1>1, DiscreetKeeps

LEMMA LeaveDiffers ==
  ASSUME DifferInv, IInv', Onward, Discreet, NEW p \in Proc, Leave(p)
  PROVE  DifferInv'
<1>1. pc'[p] = "idle" /\ \A q \in Proc \ {p} : pc'[q] = pc[q] /\ hand'[q] = hand[q]
  BY DEF Leave, DifferInv, IInv, Domains
<1> QED BY <1>1, AsideKeeps DEF Doubts, Proc

LEMMA GotoDiffers ==
  ASSUME DifferInv, IInv', Onward, NEW p \in Proc, NEW from, NEW to \in Points \ Doubts,
         Goto(p, from, to), answers' = answers,
         \A q \in Proc \ {p} : hand'[q] = hand[q]
  PROVE  DifferInv'
<1>1. pc'[p] = to /\ \A q \in Proc \ {p} : pc'[q] = pc[q]
  BY GotoMoves DEF DifferInv
<1>2. Discreet
  BY DEF Discreet
<1> QED BY <1>1, <1>2, AsideKeeps DEF Proc

LEMMA OtherAnswer ==
  ASSUME DifferInv, NEW r \in Proc, NEW http, Answer(r, http),
         http # 409 \/ Refuted(hand[r].d)
  PROVE  Discreet /\ Leave(r)
<1>1. answers' = [answers EXCEPT ![hand[r].d] = @ \cup {http}]
  BY DEF Answer
<1>2. DOMAIN answers = traffic.of
  BY DEF DifferInv, IInv, Domains
<1> QED BY <1>1, <1>2 DEF Discreet, Answer

LEMMA ThrownDiffers ==
  ASSUME DifferInv, IInv', Onward, NEW p \in Proc, Thrown(p)
  PROVE  DifferInv'
<1>1. CASE p \in Request
  <2>1. Discreet /\ Leave(p)
    BY <1>1, OtherAnswer DEF Thrown
  <2> QED BY <2>1, LeaveDiffers
<1>2. CASE p \notin Request
  <2>1. Discreet /\ Leave(p)
    BY <1>2 DEF Thrown, outside, Discreet
  <2> QED BY <2>1, LeaveDiffers
<1> QED BY <1>1, <1>2

LEMMA StoreDiffers ==
  ASSUME DifferInv, IInv', Onward, NEW r \in Request, Store(r)
  PROVE  DifferInv'
<1>0. PICK d, id : d = hand[r].d /\ id = hand[r].id
  OBVIOUS
<1>1. r \in Proc /\ Domains /\ Safe(r) /\ IInv
  BY DEF DifferInv, IInv, Proc
<1>2. /\ Goto(r, "store", "receipt") /\ pc[r] = "store" /\ answers' = answers
      /\ hand' = [hand EXCEPT ![r].stored = StoreOutcome(id, Event[d])]
  BY <1>0 DEF Store, Goto, outside
<1>3. /\ pc'[r] = "receipt" /\ hand'[r].d = d
      /\ hand'[r].stored = StoreOutcome(id, Event[d])
      /\ \A q \in Proc \ {r} : pc'[q] = pc[q] /\ hand'[q] = hand[q]
  BY <1>0, <1>1, <1>2, GotoMoves DEF Domains
<1>4. /\ d \in traffic.of /\ id = Id[d] /\ id \in Identity
      /\ d \in Passed
  BY <1>0, <1>1, <1>2, InTraffic DEF Safe, Screened, Domains, Passed
<1>5. StoreOutcome(id, Event[d]) = "CONFLICT" => Refuted(d)
  BY <1>1, <1>4 DEF StoreOutcome, Refuted, IInv, Present
<1>6. StoreOutcome(id, Event[d]) = "CONFLICT" => Refuted(d)'
  BY <1>1, <1>4, <1>5, RefutedStays
<1>7. Doubted(r)'
  BY <1>3, <1>6 DEF Doubted, Refuted
<1>8. ASSUME NEW q \in Request \ {r} PROVE Doubted(q)'
  <2>1. Doubted(q) /\ (pc[q] \in Doubts => hand[q].d \in traffic.of)
    BY DEF DifferInv, IInv, Safe, Screened, Doubts, Proc
  <2>2. pc[q] \in Doubts /\ hand[q].stored = "CONFLICT" => Refuted(hand[q].d)'
    <3> SUFFICES ASSUME pc[q] \in Doubts, hand[q].stored = "CONFLICT"
                 PROVE  Refuted(hand[q].d)'
      OBVIOUS
    <3>1. PICK b \in traffic.of : b = hand[q].d
      BY <2>1
    <3>2. Refuted(b)'
      BY <1>1, <2>1, <3>1, RefutedStays DEF Doubted
    <3> QED BY <1>3, <3>1, <3>2 DEF Refuted, Proc
  <2> QED BY <1>3, <2>1, <2>2 DEF Doubted, Proc
<1>9. Discreet
  BY <1>2 DEF Discreet
<1> QED BY <1>7, <1>8, <1>9, DiscreetKeeps

LEMMA ReceiptDiffers ==
  ASSUME DifferInv, IInv', Onward, NEW r \in Request, Receipt(r)
  PROVE  DifferInv'
<1>1. r \in Proc /\ UNCHANGED <<hand, answers, event>>
  BY DEF Receipt, outside, Proc
<1>2. CASE Goto(r, "receipt", "ensure")
  BY <1>1, <1>2, GotoDiffers DEF Points, Doubts
<1>3. CASE Goto(r, "receipt", "conflict") /\ hand[r].stored = "CONFLICT"
  <2>1. /\ pc[r] = "receipt" /\ pc'[r] = "conflict"
        /\ \A q \in Proc \ {r} : pc'[q] = pc[q]
    BY <1>1, <1>3, GotoMoves DEF DifferInv
  <2>2. \A q \in Request : Doubted(q)'
    BY <1>1, <1>3, <2>1 DEF DifferInv, Doubted, Doubts, Refuted, Proc
  <2> QED BY <1>1, <2>2, DiscreetKeeps DEF Discreet
<1> QED BY <1>2, <1>3 DEF Receipt

LEMMA AnswerDiffers ==
  ASSUME DifferInv, IInv', Onward, NEW r \in Request,
         Report(r) \/ ReportConflict(r) \/ Observe(r)
  PROVE  DifferInv'
<1>1. r \in Proc
  BY DEF Proc
<1>2. ASSUME NEW http, Answer(r, http), http # 409 \/ Refuted(hand[r].d)
      PROVE  DifferInv'
  BY <1>1, <1>2, OtherAnswer, LeaveDiffers
<1>3. CASE Report(r)
  <2>1. hand[r].d \in Delivery
    BY <1>1, <1>3, InTraffic DEF DifferInv, IInv, Safe, Screened, Domains, Report
  <2> QED BY <1>2, <1>3, <2>1, RefusalCodes DEF Report
<1>4. CASE ReportConflict(r)
  BY <1>2, <1>4 DEF ReportConflict, DifferInv, Doubted, Doubts
<1>5. CASE Observe(r)
  BY <1>2, <1>5 DEF Observe
<1> QED BY <1>3, <1>4, <1>5

LEMMA ArrivalDiffers ==
  ASSUME DifferInv, IInv', Onward, NEW r \in Request, NEW d \in Delivery,
         TurnAway(r, d) \/ Receive(r, d)
  PROVE  DifferInv'
<1>1. r \in Proc /\ Domains
  BY DEF DifferInv, IInv, Proc
<1>2. CASE TurnAway(r, d)
  <2>1. UNCHANGED <<pc, hand>> /\ Discreet
    BY <1>1, <1>2, RefusalCodes DEF TurnAway, Discreet, Domains
  <2> QED BY <2>1, AsideKeeps
<1>3. CASE Receive(r, d) /\ Screen[d].http = 500
  <2>1. UNCHANGED <<pc, hand>> /\ Discreet
    BY <1>1, <1>3 DEF Receive, Discreet, Domains
  <2> QED BY <2>1, AsideKeeps
<1>4. CASE Receive(r, d) /\ Screen[d].http # 500
  <2>1. answers' = answers /\ \A q \in Proc \ {r} : hand'[q] = hand[q]
    BY <1>1, <1>4 DEF Receive, Domains
  <2>2. PICK to \in {"store", "refuse"} : Goto(r, "idle", to)
    BY <1>4 DEF Receive
  <2>3. to \in Points \ Doubts
    BY DEF Points, Doubts
  <2> QED BY <1>1, <2>1, <2>2, <2>3, GotoDiffers
<1> QED BY <1>2, <1>3, <1>4

LEMMA HandleDiffers ==
  ASSUME DifferInv, IInv', Onward, NEW r \in Request,
         Refuse(r) \/ Ensure(r) \/ Begin(r)
  PROVE  DifferInv'
<1>1. r \in Proc /\ answers' = answers
  BY DEF Refuse, Ensure, Begin, outside, Proc
<1>2. \A q \in Proc \ {r} : hand'[q] = hand[q]
  BY DEF Refuse, Ensure, Begin, Claims, DifferInv, IInv, Domains
<1>3. \E from, to \in Points \ Doubts : Goto(r, from, to)
  BY DEF Refuse, Ensure, Begin, Points, AttemptPoints, HoldPoints, Doubts
<1> QED BY <1>1, <1>2, <1>3, GotoDiffers

LEMMA AttemptDiffers ==
  ASSUME DifferInv, IInv', Onward, NEW p \in Proc, FinishAttempt(p)
  PROVE  DifferInv'
<1>1. CASE Thrown(p)
  BY <1>1, ThrownDiffers
<1>2. CASE Leave(p) /\ answers' = answers
  BY <1>2, LeaveDiffers DEF Discreet
<1>3. CASE /\ answers' = answers /\ \A q \in Proc \ {p} : hand'[q] = hand[q]
           /\ \E from, to \in Points \ Doubts : Goto(p, from, to)
  BY <1>3, GotoDiffers
<1>4. {"announce", "work", "commit", "settle", "tell", "raise", "observe"}
        \subseteq Points \ Doubts
  BY DEF Points, AttemptPoints, HoldPoints, Doubts
<1>5. CASE Announce(p)
  BY <1>1, <1>3, <1>4, <1>5 DEF Announce, outside
<1>6. CASE Work(p)
  BY <1>3, <1>4, <1>6 DEF Work, outside, Attempted, DifferInv, IInv, Domains
<1>7. CASE Commit(p)
  BY <1>1, <1>3, <1>4, <1>7 DEF Commit, outside
<1>8. CASE Settle(p)
  BY <1>3, <1>4, <1>8 DEF Settle, outside
<1>9. CASE Tell(p)
  BY <1>1, <1>3, <1>4, <1>9 DEF Tell, outside
<1>10. CASE Raise(p)
  BY <1>2, <1>3, <1>4, <1>10 DEF Raise, outside
<1> QED BY <1>5, <1>6, <1>7, <1>8, <1>9, <1>10 DEF FinishAttempt

LEMMA CrashDiffers ==
  ASSUME DifferInv, IInv', Onward, Crash
  PROVE  DifferInv'
<1>1. /\ answers' = answers
      /\ pc' = [p \in Proc |-> IF p \in Request THEN "idle" ELSE pc[p]]
  BY DEF Crash, outside
<1> QED BY <1>1, AsideKeeps DEF Discreet, Doubts, Proc

LEMMA NextDiffers ==
  ASSUME DifferInv, [Next]_vars
  PROVE  DifferInv'
<1>1. IInv' /\ Onward
  BY NextSafe DEF DifferInv
<1>2. ASSUME NEW d \in Delivery, Deliver(d) PROVE DifferInv'
  BY <1>1, <1>2, ArrivalDiffers DEF Deliver
<1>3. ASSUME NEW r \in Request, Handle(r) PROVE DifferInv'
  <2>1. r \in Proc
    BY DEF Proc
  <2>2. CASE StoreThrows(r)
    BY <1>1, <2>1, <2>2, ThrownDiffers DEF StoreThrows
  <2> QED BY <1>1, <1>3, <2>1, <2>2, AnswerDiffers, StoreDiffers, ReceiptDiffers,
             HandleDiffers, AttemptDiffers DEF Handle
<1>4. ASSUME NEW w \in Worker, Claim(w) PROVE DifferInv'
  <2>1. w \in Proc /\ Goto(w, "idle", "announce") /\ answers' = answers
    BY <1>4 DEF Claim, outside, Proc
  <2>2. \A q \in Proc \ {w} : hand'[q] = hand[q]
    BY <1>4 DEF Claim, Claims, DifferInv, IInv, Domains
  <2>3. "announce" \in Points \ Doubts
    BY DEF Points, AttemptPoints, HoldPoints, Doubts
  <2> QED BY <1>1, <2>1, <2>2, <2>3, GotoDiffers
<1>5. ASSUME NEW w \in Worker, FinishAttempt(w) PROVE DifferInv'
  BY <1>1, <1>5, AttemptDiffers DEF Proc
<1>6. ASSUME NEW p \in Proc, Throw(p) PROVE DifferInv'
  BY <1>1, <1>6, ThrownDiffers DEF Throw
<1>7. CASE Crash
  BY <1>1, <1>7, CrashDiffers
<1>8. CASE UNCHANGED vars
  BY <1>1, <1>8, AsideKeeps DEF vars, outside, Discreet
<1> QED BY <1>2, <1>3, <1>4, <1>5, <1>6, <1>7, <1>8 DEF Next

\* What the provider is told is true: 200 means stored with a retry row, and
\* 409 that what is stored says something else or is written with other digits,
\* which no different spelling of one event comes to (http/webhooks.ts,
\* respond, and the canonical hash of packages/webhook).
THEOREM ToldTheTruth == Spec => []AnswersAreTrue
<1>1. Init => DifferInv
  <2> SUFFICES ASSUME Init PROVE DifferInv
    OBVIOUS
  <2> QED BY InitSafe DEF Init, DifferInv, Doubted, Doubts, Proc
<1>2. DifferInv /\ [Next]_vars => DifferInv'
  BY NextDiffers
<1>3. DifferInv => AnswersAreTrue
  <2> SUFFICES ASSUME DifferInv, NEW d \in traffic.of, 409 \in answers[d]
               PROVE  \/ Meaning(event[Id[d]]) # Says(d)
                      \/ Digits(event[Id[d]]) # Digits(Event[d])
    BY DEF AnswersAreTrue, ConflictsDiffer, DifferInv, IInv
  <2>1. Refuted(d) /\ Id[d] \in Identity /\ d \in Delivery
    BY InTraffic DEF DifferInv, IInv, Domains
  <2>2. PICK b \in traffic.of \cap Kept : Id[b] = Id[d] /\ event[Id[d]] = Event[b]
    BY <2>1 DEF Refuted, DifferInv, IInv, Sourced
  <2>3. b \in Passed
    BY DEF Kept, Passed
  <2>4. d \in Passed
    BY <2>1 DEF Refuted
  <2> QED BY <2>1, <2>2, <2>3, <2>4, MeaningTellsHash DEF Refuted, Says
<1> QED BY <1>1, <1>2, <1>3, PTL DEF Spec
=============================================================================
