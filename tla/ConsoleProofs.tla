---------------------------- MODULE ConsoleProofs ----------------------------
(***************************************************************************)
(* What Console keeps true, for any exceptions, webhooks, requests, tabs   *)
(* and plans, and any caps. First what its operators return, and what a    *)
(* step may do to the request that takes it (Turn), to the tables          *)
(* (RecordsAre, TrailIs) and to a page (TabTurn); then, of each part of    *)
(* the invariant, that every step keeps it.                                *)
(***************************************************************************)
EXTENDS Console, FiniteSetTheorems, SequenceTheorems, WellFoundedInduction, TLAPS

RetryStatus == RETRY_STATUSES \cup {"NONE"}

Investigators == {"stub", "openai", "unavailable"}

RetryState == [status : RetryStatus, att : Nat]

PastRow ==
  [type : AUDIT_EVENT_TYPES \ {"INVESTIGATION_RECORDED"}, hook : 0..Len(Hooks),
   corr : Nat, pay : BOOLEAN]

Moves == (Receipts \cup Ends) \X (1..Len(Hooks)) \X {0, 1}

Remaining ==
  [of : SUBSET DOMAIN Story, by : Investigators,
   retry : [1..Len(Hooks) -> RetryState], past : Seq(PastRow),
   moves : SUBSET Moves,
   pages : SUBSET {"exception", "incident"},
   asks : Nat, echoes : Nat, opens : Nat, ticks : Nat, faults : Nat,
   calm : BOOLEAN]

Attempt ==
  [kind : Ends, hook : DOMAIN Hooks, at : Nat, att : Nat \ {0},
   step : {"announce", "tell", "settle"}]

Webhook == [id : DOMAIN Hooks, received : Nat]

RetryRow == [hook : DOMAIN Hooks, status : RetryStatus]

AuditRow ==
  [id : Nat, type : AUDIT_EVENT_TYPES, hook : 0..Len(Hooks), pay : BOOLEAN, corr : Nat,
   at : Nat, about : Nat, reason : {"none"}]

Package ==
  [exc : DOMAIN Story, code : EXCEPTION_CODES, hook : 0..Len(Hooks),
   webhooks : Seq(Webhook), projected : BOOLEAN, retries : Seq(RetryRow),
   audit : SUBSET AuditRow]

Cite ==
  {"INCIDENT", "EXCEPTION", "WEBHOOK_EVENT", "RETRY_ATTEMPT", "STATE_TRANSITION",
   "AUDIT_EVENT"} \X Nat

Name == {"exception", "hook", "audit", "retry", "long"} \X Nat

Reply ==
  [type : INVESTIGATION_INCIDENT_TYPES, confidence : CONFIDENCES,
   cites : SUBSET Cite, mentions : SUBSET Name, limits : SUBSET Name]

Plea ==
  [exc : DOMAIN Story \cup {0}, tab : Tab \cup {0}, mount : Nat, at : Nat,
   corr : Nat, package : Package \cup {<< >>}, answer : Reply \cup {<< >>},
   by : Investigators \cup {"none"}, reason : SUBSET Name, id : Nat]

Investigation ==
  [id : Nat, exc : DOMAIN Story, by : Investigators,
   type : INVESTIGATION_INCIDENT_TYPES, confidence : CONFIDENCES,
   cites : SUBSET Cite, mentions : SUBSET Name, limits : SUBSET Name, at : Nat,
   package : Package]

Steps == {"record", "trail", "latest", "show", "list", "done", "failed"}

PageState ==
  [kind : {"none", "exception", "incident"}, exc : DOMAIN Story \cup {0},
   mount : Nat, step : Steps, locked : BOOLEAN, busy : BOOLEAN,
   shown : Seq(Nat), held : Nat, timeline : [rows : Nat, latest : Nat],
   known : BOOLEAN]

Awaits ==
  {"idle", "retries", "audit", "investigate", "create", "fallback", "append",
   "answer"}

\* A request has its package as long as it is at work, and its answer when it is
\* about to file it.
Types ==
  /\ plan \in Remaining
  /\ clock \in Nat \ {0}
  /\ retry \in [DOMAIN Hooks -> RetryState]
  /\ attempts \in SUBSET Attempt
  /\ audit \in Seq(AuditRow)
  /\ records \in SUBSET Investigation
  /\ pc \in [Request -> Awaits]
  /\ hand \in [Request -> Plea]
  /\ tabs \in [Tab -> PageState]
  /\ mounts \in Nat
  /\ echoed \in SUBSET Nat
  /\ \A r \in Request :
       /\ pc[r] # "idle" => /\ hand[r].exc \in plan.of
                            /\ hand[r].package \in Package
       /\ pc[r] = "create" => hand[r].answer \in Reply /\ hand[r].by \in Investigators

-----------------------------------------------------------------------------
(* The invariant *)

\* Ids are given out one by one, and nothing is dated ahead of the clock.
Filed ==
  /\ \A i \in DOMAIN audit : audit[i].id = i
  /\ IsFiniteSet(records)
  /\ Ids = 1..Cardinality(records)
  /\ \A x, y \in records : x.id = y.id => x = y
  /\ \A x \in records : x.exc \in plan.of /\ x.at \in 1..clock

\* What a request has filed.
Own(r) == {x \in records : x.id = hand[r].id /\ x.exc = hand[r].exc /\ x.at = hand[r].at}

\* A request that is to log a record, or to answer with one, has filed it.
Working ==
  \A r \in Request : pc[r] # "idle" =>
    /\ hand[r].at \in 1..clock
    /\ hand[r].corr \in echoed \cup {0}
    /\ pc[r] = "append" => hand[r].id # 0
    /\ hand[r].id # 0 => Own(r) # {}

LoggedIds ==
  {row.about : row \in {x \in ToSet(audit) : x.type = "INVESTIGATION_RECORDED"}}

OnPage(r, t) ==
  pc[r] # "idle" /\ hand[r].tab = t /\ hand[r].mount = tabs[t].mount

\* The investigation id is one of exception e.
IsOf(id, e) == \E x \in records : x.id = id /\ x.exc = e

AtMost(id, at) == \A x \in records : x.id = id => x.at <= at

\* All that a page holds is of its own exception. Nothing is shown before the
\* load has ended, unless the button was used.
PagesOK ==
  /\ \A r \in Request : pc[r] # "idle" => hand[r].mount <= mounts
  /\ \A t \in Tab :
       /\ tabs[t].mount <= mounts
       /\ tabs[t].kind # "none" => tabs[t].exc \in plan.of
       /\ tabs[t].held # 0 => IsOf(tabs[t].held, tabs[t].exc)
       /\ tabs[t].timeline.latest # 0 => IsOf(tabs[t].timeline.latest, tabs[t].exc)
       /\ \A i \in DOMAIN tabs[t].shown : IsOf(tabs[t].shown[i], tabs[t].exc)
       /\ tabs[t].timeline.rows <= Len(audit)
       /\ tabs[t].step \notin {"done", "failed"} /\ ~tabs[t].locked => tabs[t].shown = << >>

\* A page waits for one request at most, which is about its exception and began
\* after what the page shows first: the answer can only be newer.
Clicked ==
  \A t \in Tab :
    /\ \A r \in Request : OnPage(r, t) =>
         /\ tabs[t].locked /\ tabs[t].busy
         /\ hand[r].exc = tabs[t].exc
         /\ tabs[t].shown # << >> => AtMost(Head(tabs[t].shown), hand[r].at)
    /\ \A r, q \in Request : OnPage(r, t) /\ OnPage(q, t) => r = q

\* The trail tells how a row that is over came to that, and how one will that
\* an attempt is about to end. A row may be claimed again while that attempt is
\* on its way, but what is on the trail stays there.
OverIsTold ==
  /\ \A h \in DOMAIN Hooks : retry[h].status \in Over =>
       OnTrail(h, Telling(retry[h].status))
  /\ \A a \in attempts : a.step = "settle" /\ Ending(a.kind) \in Over =>
       OnTrail(a.hook, Telling(Ending(a.kind)))

\* Where the correlation ids on the trail are from: the past, a delivery, or
\* a caller.
Sources ==
  \A row \in ToSet(audit) :
    row.at = 0 \/ row.corr \in DOMAIN Hooks \/ row.corr \in echoed \cup {0}

\* What was read for an exception is its own, and what was over when it was read
\* had been told.
Evidence(e, p) ==
  /\ p.exc = e /\ p.hook = Story[e].hook /\ p.code = Story[e].code
  /\ p.projected = Story[e].pay
  /\ p.webhooks = capWebhooks(LoadedWebhooks(e), Story[e].hook)
  /\ \A row \in ToSet(p.retries) :
       /\ row.hook \in OwnHooks(e) /\ retry[row.hook].status # "NONE"
       /\ row.status \in Over => OnTrail(row.hook, Telling(row.status))
  /\ \A row \in p.audit : row \in ToSet(audit) /\ OwnRow(e, row)

\* The trail, read last, tells of what was over when the retries were read.
Complete(e, p) ==
  Cardinality(p.audit) < MaxAudit /\ Story[e].pay =>
    \A row \in ToSet(p.retries) : row.status \in Over =>
      \E told \in p.audit : told.hook = row.hook /\ told.type \in Telling(row.status)

\* Only a model goes above LOW over evidence that contradicts itself.
Cautious(p, answer, by) ==
  by # "openai" /\ evidenceConflictNote(p) => answer.confidence = "LOW"

Prepared ==
  \A r \in Request :
    /\ pc[r] # "idle" => Evidence(hand[r].exc, hand[r].package)
    /\ pc[r] \in {"investigate", "create", "fallback"} =>
         Complete(hand[r].exc, hand[r].package)
    /\ pc[r] = "create" =>
         /\ validateInvestigationResult(hand[r].package, hand[r].answer)
         /\ Cautious(hand[r].package, hand[r].answer, hand[r].by)

Kept ==
  \A x \in records :
    /\ Evidence(x.exc, x.package)
    /\ Complete(x.exc, x.package)
    /\ validateInvestigationResult(x.package, x)
    /\ Cautious(x.package, x, x.by)

AllInv ==
  Types /\ Filed /\ Working /\ RecordsAudited /\ PagesOK /\ Clicked /\ OverIsTold
  /\ Sources /\ Prepared /\ Kept

-----------------------------------------------------------------------------
(* The types *)

LEMMA LeastNumber ==
  ASSUME NEW S \in SUBSET Nat, S # {}
  PROVE  \E n \in S : \A m \in S : n <= m
<1> DEFINE R == OpToRel(<, Nat)
<1>1. IsWellFoundedOn(R, Nat)
  BY NatLessThanWellFounded
<1> HIDE DEF R
<1>2. PICK n \in S : \A m \in S : ~(<<m, n>> \in R)
  BY <1>1, WFMin
<1>3. \A m, k \in Nat : m < k => <<m, k>> \in R
  BY DEF R, OpToRel
<1>4. \A m \in S : ~(m < n)
  BY <1>2, <1>3
<1> QED BY <1>4

LEMMA HooksAre ==
  /\ Len(Hooks) \in Nat /\ DOMAIN Hooks = 1..Len(Hooks) /\ DOMAIN Story \subseteq Nat \ {0}
  /\ Hooks \in Seq(Webhook)
  /\ MaxWebhooks \in Nat \ {0} /\ MaxRetries \in Nat \ {0} /\ MaxAudit \in Nat \ {0}
  /\ \A t \in Tab : t \in Nat \ {0}
<1>1. Hooks \in Seq(Webhook) /\ Story \in Seq([code : EXCEPTION_CODES, pay : BOOLEAN, hook : 0..Len(Hooks), corr : Nat])
  BY ConsoleAssumption DEF Webhook
<1>2. Len(Hooks) \in Nat /\ DOMAIN Hooks = 1..Len(Hooks)
  BY <1>1
<1>3. DOMAIN Story = 1..Len(Story) /\ Len(Story) \in Nat
  BY <1>1
<1> QED BY <1>1, <1>2, <1>3, ConsoleAssumption

LEMMA StoryIs ==
  \A e \in DOMAIN Story :
    /\ Story[e].code \in EXCEPTION_CODES /\ Story[e].pay \in BOOLEAN
    /\ Story[e].hook \in 0..Len(Hooks) /\ Story[e].corr \in Nat
<1> DEFINE T == [code : EXCEPTION_CODES, pay : BOOLEAN, hook : 0..Len(Hooks), corr : Nat]
<1>1. Story \in Seq(T)
  BY ConsoleAssumption
<1> HIDE DEF T
<1>2. \A e \in DOMAIN Story : Story[e] \in T
  BY <1>1
<1> QED BY <1>2 DEF T

LEMMA PlaceIsOne ==
  ASSUME NEW h \in DOMAIN Hooks
  PROVE  PlaceOf(Hooks, h) \in DOMAIN Hooks /\ Hooks[PlaceOf(Hooks, h)].id = h
<1>1. \E i \in DOMAIN Hooks : Hooks[i].id = h
  BY ConsoleAssumption
<1> QED BY <1>1 DEF PlaceOf

LEMMA LoadedIs ==
  ASSUME NEW e \in DOMAIN Story
  PROVE  LoadedWebhooks(e) \in Seq(Webhook)
<1>1. CASE Story[e].pay
  BY <1>1, HooksAre DEF LoadedWebhooks
<1>2. CASE ~Story[e].pay /\ Story[e].hook # 0
  <2>1. Story[e].hook \in DOMAIN Hooks
    BY <1>2, StoryIs, HooksAre
  <2>2. Hooks[PlaceOf(Hooks, Story[e].hook)] \in Webhook
    BY <2>1, PlaceIsOne, HooksAre
  <2> QED BY <1>2, <2>2 DEF LoadedWebhooks
<1>3. CASE ~Story[e].pay /\ Story[e].hook = 0
  BY <1>3 DEF LoadedWebhooks
<1> QED BY <1>1, <1>2, <1>3

\* The webhooks of a package: they are loaded ones, the pinned one with them.
LEMMA CappedIs ==
  ASSUME NEW e \in DOMAIN Story
  PROVE  LET rows == capWebhooks(LoadedWebhooks(e), Story[e].hook)
         IN  /\ rows \in Seq(Webhook)
             /\ ToSet(rows) \subseteq ToSet(LoadedWebhooks(e))
             /\ Story[e].hook # 0 => \E w \in ToSet(rows) : w.id = Story[e].hook
             /\ ~Story[e].pay => rows = LoadedWebhooks(e)
<1> DEFINE loaded == LoadedWebhooks(e)
           h == Story[e].hook
           rows == capWebhooks(loaded, h)
<1>1. loaded \in Seq(Webhook) /\ MaxWebhooks \in Nat \ {0} /\ Len(loaded) \in Nat
      /\ DOMAIN loaded = 1..Len(loaded)
  BY LoadedIs, HooksAre
<1>2. h \in DOMAIN Hooks \cup {0}
  BY StoryIs, HooksAre
<1>3. h # 0 => \E i \in DOMAIN loaded : loaded[i].id = h
  <2> SUFFICES ASSUME h # 0 PROVE \E i \in DOMAIN loaded : loaded[i].id = h
    OBVIOUS
  <2>1. PlaceOf(Hooks, h) \in DOMAIN Hooks /\ Hooks[PlaceOf(Hooks, h)].id = h
    BY <1>2, PlaceIsOne
  <2>2. CASE Story[e].pay
    BY <2>1, <2>2 DEF LoadedWebhooks
  <2>3. CASE ~Story[e].pay
    <3>1. loaded = <<Hooks[PlaceOf(Hooks, h)]>>
      BY <2>3 DEF LoadedWebhooks
    <3>2. 1 \in DOMAIN loaded /\ loaded[1].id = h
      BY <2>1, <3>1
    <3> QED BY <3>2
  <2> QED BY <2>2, <2>3
<1>4. ~Story[e].pay => Len(loaded) <= MaxWebhooks
  BY <1>1 DEF LoadedWebhooks
<1> HIDE DEF loaded, h
<1>5. CASE Len(loaded) <= MaxWebhooks
  <2>1. rows = loaded
    BY <1>5 DEF capWebhooks
  <2> QED BY <1>1, <1>3, <2>1 DEF ToSet, loaded, h
<1>6. CASE Len(loaded) > MaxWebhooks /\ h = 0
  <2>1. rows = SubSeq(loaded, 1, MaxWebhooks)
    BY <1>1, <1>6 DEF capWebhooks
  <2>2. rows \in Seq(Webhook) /\ DOMAIN rows = 1..MaxWebhooks /\ \A i \in 1..MaxWebhooks : rows[i] = loaded[i]
    BY <1>1, <1>6, <2>1
  <2>3. \A i \in 1..MaxWebhooks : i \in DOMAIN loaded
    BY <1>1, <1>6
  <2>4. ToSet(rows) \subseteq ToSet(loaded)
    BY <2>2, <2>3 DEF ToSet
  <2>5. Story[e].pay
    BY <1>1, <1>4, <1>6
  <2> HIDE DEF rows
  <2> QED BY <2>2, <2>4, <2>5, <1>6 DEF loaded, h, rows
<1>7. CASE Len(loaded) > MaxWebhooks /\ h # 0
  <2> DEFINE i == PlaceOf(loaded, h)
             n == Len(loaded)
             front == SubSeq(loaded, 1, i - 1)
             back == SubSeq(loaded, i + 1, n)
             all == <<loaded[i]>> \o (front \o back)
  <2>1. i \in 1..n /\ loaded[i].id = h
    BY <1>1, <1>3, <1>7 DEF PlaceOf
  <2>2. rows = SubSeq(all, 1, MaxWebhooks)
    <3>1. ~(Len(loaded) <= MaxWebhooks) /\ h # 0
      BY <1>1, <1>7
    <3> QED BY <3>1, Zenon DEF capWebhooks, RemoveAt
  <2> HIDE DEF i
  <2> DEFINE S == ToSet(loaded)
  <2>3. loaded \in Seq(S) /\ loaded[i] \in S
    BY <1>1, <2>1 DEF ToSet
  <2>4. front \in Seq(S) /\ back \in Seq(S) /\ Len(front) = i - 1 /\ Len(back) = n - i
    <3>1. 1 \in Int /\ i - 1 \in Int /\ i + 1 \in Int /\ n \in Int
      BY <1>1, <2>1
    <3>2. (\A j \in 1..i - 1 : loaded[j] \in S) /\ (\A j \in i + 1..n : loaded[j] \in S)
      <4>1. \A j \in 1..n : loaded[j] \in S
        BY <1>1, <2>3
      <4> QED BY <4>1, <2>1, <1>1
    <3>3. front \in Seq(S) /\ Len(front) = IF 1 <= i - 1 THEN (i - 1) - 1 + 1 ELSE 0
      BY <3>1, <3>2, SubSeqProperties
    <3>4. back \in Seq(S) /\ Len(back) = IF i + 1 <= n THEN n - (i + 1) + 1 ELSE 0
      BY <3>1, <3>2, SubSeqProperties
    <3>5. i \in Nat /\ n \in Nat /\ 1 <= i /\ i <= n
      BY <1>1, <2>1
    <3> HIDE DEF front, back, n
    <3> QED BY <3>3, <3>4, <3>5
  <2> HIDE DEF front, back, S
  <2>5. all \in Seq(S) /\ Len(all) = n /\ all[1] = loaded[i]
    <3>1. front \o back \in Seq(S) /\ Len(front \o back) = n - 1
      <4>1. Len(front) + Len(back) = n - 1
        BY <1>1, <2>1, <2>4
      <4> QED BY <2>4, <4>1, ConcatProperties
    <3>2. <<loaded[i]>> \in Seq(S) /\ Len(<<loaded[i]>>) = 1 /\ <<loaded[i]>>[1] = loaded[i]
      BY <2>3
    <3> QED BY <3>1, <3>2, <1>1, ConcatProperties
  <2> HIDE DEF all
  <2>6. rows \in Seq(S) /\ Len(rows) = MaxWebhooks /\ rows[1] = loaded[i]
    BY <1>1, <1>7, <2>2, <2>5
  <2> HIDE DEF rows
  <2>7. ToSet(rows) \subseteq S
    BY <2>6 DEF ToSet
  <2>8. \E w \in ToSet(rows) : w.id = h
    <3>1. 1 \in DOMAIN rows
      BY <1>1, <2>6
    <3> QED BY <3>1, <2>1, <2>6 DEF ToSet
  <2>9. Story[e].pay
    BY <1>1, <1>4, <1>7
  <2>10. S \subseteq Webhook
    BY <1>1 DEF S, ToSet
  <2>11. rows \in Seq(Webhook)
    BY <2>6, <2>10
  <2> QED BY <2>7, <2>8, <2>9, <2>11, <1>7 DEF S, loaded, h, rows
<1> QED BY <1>1, <1>5, <1>6, <1>7

LEMMA TypesOfCodes ==
  \A code \in EXCEPTION_CODES :
    explanatoryIncidentTypeFor(code) \in INVESTIGATION_INCIDENT_TYPES
BY DEF EXCEPTION_CODES, explanatoryIncidentTypeFor, INVESTIGATION_INCIDENT_TYPES

LEMMA AnswerIs ==
  ASSUME NEW type \in INVESTIGATION_INCIDENT_TYPES, NEW confidence \in CONFIDENCES,
         NEW cites \in SUBSET Cite, NEW mentions \in SUBSET Name,
         NEW limits \in SUBSET Name
  PROVE  Answer(type, confidence, cites, mentions, limits) \in Reply
BY DEF Answer, Reply

LEMMA CitesAre ==
  \A n \in Nat :
    /\ <<"INCIDENT", n>> \in Cite /\ <<"EXCEPTION", n>> \in Cite
    /\ <<"WEBHOOK_EVENT", n>> \in Cite /\ <<"RETRY_ATTEMPT", n>> \in Cite
    /\ <<"STATE_TRANSITION", n>> \in Cite /\ <<"AUDIT_EVENT", n>> \in Cite
BY DEF Cite

LEMMA NamesAre ==
  \A n \in Nat :
    /\ <<"exception", n>> \in Name /\ <<"hook", n>> \in Name /\ <<"audit", n>> \in Name
    /\ <<"retry", n>> \in Name /\ <<"long", n>> \in Name
BY DEF Name

LEMMA CatalogIs ==
  ASSUME NEW p \in Package
  PROVE  contextIdentifierCatalog(p) \in SUBSET Name
<1>1. /\ p.exc \in Nat /\ p.hook \in Nat /\ p.webhooks \in Seq(Webhook)
      /\ p.retries \in Seq(RetryRow) /\ p.audit \in SUBSET AuditRow
  BY HooksAre DEF Package
<1>2. \A row \in ToSet(p.webhooks) : row.id \in Nat
  <2>1. \A row \in ToSet(p.webhooks) : row \in Webhook
    BY <1>1 DEF ToSet
  <2> QED BY <2>1, HooksAre DEF Webhook
<1>3. \A row \in ToSet(p.retries) : row.hook \in Nat
  <2>1. \A row \in ToSet(p.retries) : row \in RetryRow
    BY <1>1 DEF ToSet
  <2> QED BY <2>1, HooksAre DEF RetryRow
<1>4. \A row \in p.audit : row.id \in Nat
  BY <1>1 DEF AuditRow
<1>5. \A m \in contextIdentifierCatalog(p) :
        \/ m = <<"exception", p.exc>> \/ m = <<"hook", p.hook>>
        \/ \E row \in ToSet(p.webhooks) : m = <<"hook", row.id>>
        \/ \E row \in p.audit : m = <<"audit", row.id>>
        \/ \E row \in ToSet(p.retries) : m = <<"retry", row.hook>>
  BY Zenon DEF contextIdentifierCatalog
<1> QED BY <1>1, <1>2, <1>3, <1>4, <1>5, NamesAre

LEMMA GatheredIs ==
  ASSUME NEW p \in Package
  PROVE  /\ gatherEvidence(p) \in SUBSET Cite
         /\ \A h \in Relevant(p) : h \in Nat
<1>1. /\ p.exc \in Nat /\ p.webhooks \in Seq(Webhook) /\ p.retries \in Seq(RetryRow)
      /\ p.audit \in SUBSET AuditRow
  BY HooksAre DEF Package
<1>2. \A i \in DOMAIN p.webhooks : p.webhooks[i].id \in Nat
  <2>1. \A w \in Webhook : w.id \in Nat
    BY HooksAre DEF Webhook
  <2>2. \A i \in DOMAIN p.webhooks : p.webhooks[i] \in Webhook
    BY <1>1
  <2> QED BY <2>1, <2>2
<1>3. \A h \in Relevant(p) : h \in Nat
  <2> DEFINE i == SelectInSeq(p.webhooks, LAMBDA row : row.id = p.hook)
             I == {j \in 1..Len(p.webhooks) : p.webhooks[j].id = p.hook}
  <2>1. i = IF I # {} THEN Min(I) ELSE 0
    BY DEF SelectInSeq
  <2>2. i # 0 => i \in DOMAIN p.webhooks
    <3>1. I # {} => Min(I) \in I
      <4>1. I \in SUBSET Nat
        BY <1>1
      <4> HIDE DEF I
      <4> SUFFICES ASSUME I # {} PROVE Min(I) \in I
        OBVIOUS
      <4>2. PICK m \in I : \A k \in I : m <= k
        BY <4>1, LeastNumber
      <4> QED BY <4>2 DEF Min
    <3>2. DOMAIN p.webhooks = 1..Len(p.webhooks)
      BY <1>1
    <3> QED BY <2>1, <3>1, <3>2
  <2>3. p.webhooks # << >> => 1 \in DOMAIN p.webhooks
    BY <1>1
  <2>4. Relevant(p) = IF i # 0 THEN {p.webhooks[i].id}
                      ELSE IF p.webhooks # << >> THEN {p.webhooks[1].id} ELSE {}
    BY DEF Relevant
  <2> HIDE DEF i
  <2> QED BY <1>2, <2>2, <2>3, <2>4
<1>4. \A types : /\ FirstOf(p, "STATE_TRANSITION", types) \in SUBSET Cite
                 /\ FirstOf(p, "AUDIT_EVENT", types) \in SUBSET Cite
  <2>1. \A row \in p.audit : row.id \in Nat
    BY <1>1 DEF AuditRow
  <2> TAKE types
  <2>2. /\ \A c \in FirstOf(p, "STATE_TRANSITION", types) :
             \E x \in p.audit : c = <<"STATE_TRANSITION", x.id>>
        /\ \A c \in FirstOf(p, "AUDIT_EVENT", types) :
             \E x \in p.audit : c = <<"AUDIT_EVENT", x.id>>
    BY Zenon DEF FirstOf
  <2> QED BY <2>1, <2>2, CitesAre
<1>5. p.retries # << >> => p.retries[1].hook \in Nat
  <2>1. p.retries # << >> => p.retries[1] \in RetryRow
    BY <1>1
  <2> QED BY <2>1, HooksAre DEF RetryRow
<1>6. {"WEBHOOK_EVENT"} \X Relevant(p) \in SUBSET Cite
  <2>1. \A c \in {"WEBHOOK_EVENT"} \X Relevant(p) :
          \E h \in Relevant(p) : c = <<"WEBHOOK_EVENT", h>>
    OBVIOUS
  <2> QED BY <1>3, <2>1, CitesAre
<1>7. {<<"INCIDENT", p.exc>>, <<"EXCEPTION", p.exc>>} \in SUBSET Cite
  BY <1>1, CitesAre
<1>8. (IF p.retries = << >> THEN {} ELSE {<<"RETRY_ATTEMPT", p.retries[1].hook>>}) \in SUBSET Cite
  BY <1>5, CitesAre
<1> HIDE DEF Cite
<1> QED BY <1>3, <1>4, <1>6, <1>7, <1>8 DEF gatherEvidence

LEMMA StandInIs ==
  ASSUME NEW p \in Package, NEW reason \in SUBSET Name
  PROVE  /\ UnavailableInvestigator(p, reason) \in Reply
         /\ UnavailableInvestigator(p, reason).confidence = "LOW"
<1>1. p.exc \in Nat
  BY HooksAre DEF Package
<1>2. {<<"EXCEPTION", p.exc>>} \in SUBSET Cite /\ {<<"exception", p.exc>>} \in SUBSET Name
  BY <1>1, CitesAre, NamesAre
<1> DEFINE type == IF isInsufficientEvidence(p) THEN "INSUFFICIENT_EVIDENCE" ELSE "UNKNOWN"
           a == UnavailableInvestigator(p, reason)
<1>3. a = Answer(type, "LOW", {<<"EXCEPTION", p.exc>>}, {<<"exception", p.exc>>}, reason)
  BY DEF UnavailableInvestigator
<1>4. type \in INVESTIGATION_INCIDENT_TYPES /\ "LOW" \in CONFIDENCES
  BY DEF INVESTIGATION_INCIDENT_TYPES, CONFIDENCES
<1>5. a.confidence = "LOW"
  BY <1>3 DEF Answer
<1>6. a \in Reply
  <2> HIDE DEF type, a
  <2> QED BY <1>2, <1>3, <1>4, AnswerIs
<1> QED BY <1>5, <1>6

LEMMA StubIs ==
  ASSUME NEW p \in Package
  PROVE  /\ StubInvestigator(p) \in Reply
         /\ evidenceConflictNote(p) => StubInvestigator(p).confidence = "LOW"
<1> DEFINE a == StubInvestigator(p)
<1>1. gatherEvidence(p) \in SUBSET Cite /\ \A h \in Relevant(p) : h \in Nat
  BY GatheredIs
<1>2. /\ explanatoryIncidentTypeFor(p.code) \in INVESTIGATION_INCIDENT_TYPES
      /\ "INSUFFICIENT_EVIDENCE" \in INVESTIGATION_INCIDENT_TYPES
  <2>1. p.code \in EXCEPTION_CODES
    BY DEF Package
  <2> QED BY <2>1, TypesOfCodes DEF INVESTIGATION_INCIDENT_TYPES
<1>3. /\ confidenceFor(p) \in CONFIDENCES /\ "LOW" \in CONFIDENCES
      /\ evidenceConflictNote(p) => confidenceFor(p) = "LOW"
  BY DEF confidenceFor, CONFIDENCES
<1>4. /\ {<<"EXCEPTION", p.exc>>} \in SUBSET Cite /\ {<<"exception", p.exc>>} \in SUBSET Name
      /\ {} \in SUBSET Name
  <2>1. p.exc \in Nat
    BY HooksAre DEF Package
  <2> QED BY <2>1, CitesAre, NamesAre
<1>5. {<<"exception", p.exc>>} \cup {<<"hook", h>> : h \in Relevant(p)} \in SUBSET Name
  BY <1>1, <1>4, NamesAre
<1>6. CASE isInsufficientEvidence(p)
  <2>1. a = Answer("INSUFFICIENT_EVIDENCE", "LOW", {<<"EXCEPTION", p.exc>>},
                   {<<"exception", p.exc>>}, {})
    BY <1>6 DEF StubInvestigator
  <2>2. a.confidence = "LOW"
    BY <2>1 DEF Answer
  <2> HIDE DEF a
  <2>3. a \in Reply
    BY <1>2, <1>3, <1>4, <2>1, AnswerIs
  <2> QED BY <2>2, <2>3 DEF a
<1>7. CASE ~isInsufficientEvidence(p)
  <2> DEFINE named == {<<"exception", p.exc>>} \cup {<<"hook", h>> : h \in Relevant(p)}
  <2>1. a = Answer(explanatoryIncidentTypeFor(p.code), confidenceFor(p),
                   gatherEvidence(p), named, {})
    BY <1>7 DEF StubInvestigator
  <2> HIDE DEF named
  <2>2. a.confidence = confidenceFor(p)
    BY <2>1 DEF Answer
  <2>3. named \in SUBSET Name
    BY <1>5 DEF named
  <2> HIDE DEF a
  <2>4. a \in Reply
    BY <1>1, <1>2, <1>3, <1>4, <2>1, <2>3, AnswerIs
  <2> QED BY <1>3, <2>2, <2>4 DEF a
<1> QED BY <1>6, <1>7

LEMMA ModelAnswersAre ==
  ASSUME NEW p \in Package, NEW answer \in ModelAnswers(p)
  PROVE  answer \in Reply \/ answer = Malformed
<1> DEFINE cites == gatherEvidence(p)
           named == contextIdentifierCatalog(p)
<1>1. cites \in SUBSET Cite /\ named \in SUBSET Name /\ {} \in SUBSET Name
  BY GatheredIs, CatalogIs
<1>2. Stray \in Nat
  BY HooksAre DEF Stray
<1>3. /\ {<<"WEBHOOK_EVENT", Stray>>} \in SUBSET Cite
      /\ {<<"hook", Stray>>} \in SUBSET Name
      /\ named \cup {<<"hook", Stray>>} \in SUBSET Name
      /\ named \cup {<<"long", Stray>>} \in SUBSET Name
  BY <1>1, <1>2, CitesAre, NamesAre
<1>4. "UNKNOWN" \in INVESTIGATION_INCIDENT_TYPES /\ "LOW" \in CONFIDENCES
  BY DEF INVESTIGATION_INCIDENT_TYPES, CONFIDENCES
<1>5. CASE \E type \in INVESTIGATION_INCIDENT_TYPES, confidence \in CONFIDENCES :
             answer = Honest(p, type, confidence)
  <2>1. PICK type \in INVESTIGATION_INCIDENT_TYPES, confidence \in CONFIDENCES :
             answer = Answer(type, confidence, cites, named, {})
    BY <1>5 DEF Honest
  <2> HIDE DEF cites, named
  <2> QED BY <1>1, <2>1, AnswerIs
<1>6. CASE answer \in Astray(p)
  <2> DEFINE plain == Answer("UNKNOWN", "LOW", cites, named, {})
  <2>1. plain = Honest(p, "UNKNOWN", "LOW")
    BY DEF Honest
  <2> HIDE DEF cites, named
  <2>2. plain \in Reply /\ plain.mentions = named
    BY <1>1, <1>4, AnswerIs DEF Answer
  <2> HIDE DEF plain
  <2>3. \/ answer = [plain EXCEPT !.cites = {<<"WEBHOOK_EVENT", Stray>>}]
        \/ answer = [plain EXCEPT !.mentions = named \cup {<<"hook", Stray>>}]
        \/ answer = [plain EXCEPT !.mentions = named \cup {<<"long", Stray>>}]
        \/ answer = [plain EXCEPT !.limits = {<<"hook", Stray>>}]
    BY <1>6, <2>1, <2>2, Zenon DEF Astray
  <2> HIDE DEF Cite, Name, INVESTIGATION_INCIDENT_TYPES, CONFIDENCES
  <2> QED BY <1>3, <2>2, <2>3 DEF Reply
<1> QED BY <1>5, <1>6 DEF ModelAnswers

LEMMA RepliesAre ==
  ASSUME NEW p \in Package, NEW answer \in Replies(p), plan.by \in Investigators
  PROVE  /\ answer \in Reply \/ answer = Malformed
         /\ Cautious(p, answer, plan.by)
<1>1. {} \in SUBSET Name
  OBVIOUS
<1>2. CASE plan.by = "unavailable"
  <2>1. answer = UnavailableInvestigator(p, {})
    BY <1>2 DEF Replies
  <2> QED BY <1>1, <2>1, StandInIs DEF Cautious
<1>3. CASE plan.by = "stub"
  <2>1. answer = StubInvestigator(p)
    BY <1>3 DEF Replies
  <2> QED BY <2>1, StubIs DEF Cautious
<1>4. CASE plan.by = "openai"
  <2>1. answer \in ModelAnswers(p)
    BY <1>4 DEF Replies
  <2> QED BY <1>4, <2>1, ModelAnswersAre DEF Cautious
<1> QED BY <1>2, <1>3, <1>4 DEF Investigators

LEMMA ErrorNamesAre ==
  ASSUME NEW p, NEW answer, answer \in Reply \/ answer = Malformed,
         NEW names \in ErrorNames(p, answer)
  PROVE  names \in SUBSET Name
<1>1. answer.mentions \in SUBSET Name
  BY DEF Reply, Malformed, Answer
<1>2. names = {} \/ \E m \in Invented(p, answer) : names = {m}
  BY Zenon DEF ErrorNames
<1>3. Invented(p, answer) \subseteq answer.mentions
  BY DEF Invented
<1> QED BY <1>1, <1>2, <1>3

\* What is appended to the trail.
Draft ==
  [type : AUDIT_EVENT_TYPES, hook : 0..Len(Hooks), pay : BOOLEAN, corr : Nat,
   at : Nat, about : Nat, reason : {"none"}]

LEMMA NumberedIs ==
  ASSUME NEW rows \in Seq(Draft), NEW n \in Nat
  PROVE  /\ Numbered(rows, n) \in Seq(AuditRow)
         /\ Len(Numbered(rows, n)) = Len(rows)
         /\ \A i \in 1..Len(rows) :
              LET row == Numbered(rows, n)[i]
              IN  /\ row.id = n + i /\ row.type = rows[i].type
                  /\ row.hook = rows[i].hook /\ row.pay = rows[i].pay
                  /\ row.corr = rows[i].corr /\ row.at = rows[i].at
                  /\ row.about = rows[i].about
<1>1. Len(rows) \in Nat /\ DOMAIN rows = 1..Len(rows)
  OBVIOUS
<1>2. ASSUME NEW i \in 1..Len(rows)
      PROVE  [id |-> n + i, type |-> rows[i].type, hook |-> rows[i].hook,
              pay |-> rows[i].pay, corr |-> rows[i].corr, at |-> rows[i].at,
              about |-> rows[i].about, reason |-> rows[i].reason] \in AuditRow
  <2>1. rows[i] \in Draft
    BY <1>1
  <2>2. n + i \in Nat
    BY <1>1
  <2> QED BY <2>1, <2>2 DEF Draft, AuditRow
<1>3. Numbered(rows, n) \in [1..Len(rows) -> AuditRow]
  BY <1>1, <1>2 DEF Numbered
<1> QED BY <1>1, <1>3 DEF Numbered

LEMMA AppendedIs ==
  ASSUME audit \in Seq(AuditRow), NEW rows \in Seq(Draft)
  PROVE  /\ Appended(rows) \in Seq(AuditRow)
         /\ Len(Appended(rows)) = Len(audit) + Len(rows)
         /\ \A i \in DOMAIN audit : Appended(rows)[i] = audit[i]
         /\ \A i \in 1..Len(rows) :
              LET row == Appended(rows)[Len(audit) + i]
              IN  /\ row.id = Len(audit) + i /\ row.type = rows[i].type
                  /\ row.hook = rows[i].hook /\ row.pay = rows[i].pay
                  /\ row.corr = rows[i].corr /\ row.at = rows[i].at
                  /\ row.about = rows[i].about
<1> DEFINE new == Numbered(rows, Len(audit))
<1>1. Len(audit) \in Nat /\ DOMAIN audit = 1..Len(audit) /\ Len(rows) \in Nat
  OBVIOUS
<1>2. new \in Seq(AuditRow) /\ Len(new) = Len(rows)
  BY <1>1, NumberedIs
<1>3. \A i \in 1..Len(rows) :
         /\ new[i].id = Len(audit) + i /\ new[i].type = rows[i].type
         /\ new[i].hook = rows[i].hook /\ new[i].pay = rows[i].pay
         /\ new[i].corr = rows[i].corr /\ new[i].at = rows[i].at
         /\ new[i].about = rows[i].about
  BY <1>1, NumberedIs
<1>4. Appended(rows) = audit \o new
  BY DEF Appended
<1> HIDE DEF new
<1>5. /\ Appended(rows) \in Seq(AuditRow)
      /\ Len(Appended(rows)) = Len(audit) + Len(rows)
      /\ \A i \in 1..Len(audit) + Len(rows) :
           Appended(rows)[i] = IF i <= Len(audit) THEN audit[i] ELSE new[i - Len(audit)]
  <2>1. audit \in Seq(AuditRow)
    OBVIOUS
  <2>2. /\ audit \o new \in Seq(AuditRow)
        /\ Len(audit \o new) = Len(audit) + Len(new)
        /\ \A i \in 1..Len(audit) + Len(new) :
             (audit \o new)[i] = IF i <= Len(audit) THEN audit[i] ELSE new[i - Len(audit)]
    BY <1>2, <2>1, ConcatProperties
  <2> QED BY <1>2, <1>4, <2>2
<1>6. \A i \in DOMAIN audit : Appended(rows)[i] = audit[i]
  BY <1>1, <1>5
<1>7. \A i \in 1..Len(rows) : Appended(rows)[Len(audit) + i] = new[i]
  <2> TAKE i \in 1..Len(rows)
  <2>1. Len(audit) + i \in 1..Len(audit) + Len(rows) /\ ~(Len(audit) + i <= Len(audit))
        /\ (Len(audit) + i) - Len(audit) = i
    BY <1>1
  <2> QED BY <1>5, <2>1
<1> QED BY <1>3, <1>5, <1>6, <1>7

\* What happens to a webhook is told in rows of its own.
TellRows(types, h, at) == [i \in DOMAIN types |-> Row(types[i], h, TRUE, h, at, 0)]

Tellable == AUDIT_EVENT_TYPES \ {"INVESTIGATION_RECORDED"}

LEMMA TellRowsAre ==
  ASSUME NEW types \in Seq(Tellable), NEW h \in DOMAIN Hooks, NEW at \in Nat
  PROVE  /\ TellRows(types, h, at) \in Seq(Draft)
         /\ Len(TellRows(types, h, at)) = Len(types)
         /\ \A i \in 1..Len(types) :
              /\ TellRows(types, h, at)[i].type = types[i]
              /\ types[i] # "INVESTIGATION_RECORDED"
              /\ TellRows(types, h, at)[i].corr = h
              /\ TellRows(types, h, at)[i].hook = h
              /\ TellRows(types, h, at)[i].pay
<1> DEFINE rows == TellRows(types, h, at)
<1>1. /\ Len(types) \in Nat /\ DOMAIN types = 1..Len(types)
      /\ \A i \in 1..Len(types) : types[i] \in Tellable
  OBVIOUS
<1>2. Tellable \subseteq AUDIT_EVENT_TYPES /\ "INVESTIGATION_RECORDED" \notin Tellable
  BY DEF Tellable
<1>3. \A i \in 1..Len(types) : Row(types[i], h, TRUE, h, at, 0) \in Draft
  <2>1. h \in 0..Len(Hooks) /\ h \in Nat
    BY HooksAre
  <2> QED BY <1>1, <1>2, <2>1 DEF Row, Draft
<1>4. rows = [i \in 1..Len(types) |-> Row(types[i], h, TRUE, h, at, 0)]
  BY <1>1 DEF TellRows
<1>5. rows \in Seq(Draft) /\ Len(rows) = Len(types)
  <2>1. rows \in [1..Len(types) -> Draft]
    BY <1>3, <1>4
  <2> HIDE DEF rows
  <2> QED BY <1>1, <2>1
<1>6. \A i \in 1..Len(types) :
         /\ rows[i].type = types[i] /\ rows[i].corr = h /\ rows[i].hook = h
         /\ rows[i].pay
  BY <1>4 DEF Row
<1> HIDE DEF rows
<1> QED BY <1>1, <1>2, <1>5, <1>6 DEF rows

LEMMA OutcomeIs ==
  ASSUME NEW a \in Attempt
  PROVE  /\ Outcome(a) \in Seq(Tellable)
         /\ Ending(a.kind) \in Over /\ a.kind # "found" =>
              \E i \in 1..Len(Outcome(a)) : Outcome(a)[i] \in Telling(Ending(a.kind))
<1> DEFINE first == CASE a.kind = "applied"   -> <<"PAYMENT_STATE_CHANGED">>
                      [] a.kind = "delayed"   -> <<"WEBHOOK_DELAYED">>
                      [] a.kind = "found"     -> << >>
                      [] a.kind = "postponed" -> <<"RETRY_SCHEDULED">>
                      [] a.kind = "exhausted" -> <<"RETRY_DEAD_LETTERED">>
           second == IF a.att > 1 /\ Ending(a.kind) = "SUCCEEDED"
                     THEN <<"RETRY_SUCCEEDED">> ELSE << >>
<1>1. Outcome(a) = first \o second
  BY DEF Outcome
<1>2. a.kind \in Ends
  BY DEF Attempt
<1>3. \/ a.kind = "applied" /\ first = <<"PAYMENT_STATE_CHANGED">>
      \/ a.kind = "delayed" /\ first = <<"WEBHOOK_DELAYED">>
      \/ a.kind = "found" /\ first = << >>
      \/ a.kind = "postponed" /\ first = <<"RETRY_SCHEDULED">>
      \/ a.kind = "exhausted" /\ first = <<"RETRY_DEAD_LETTERED">>
  BY <1>2 DEF Ends
<1>4. second = << >> \/ second = <<"RETRY_SUCCEEDED">>
  OBVIOUS
<1>5. /\ "PAYMENT_STATE_CHANGED" \in Tellable /\ "WEBHOOK_DELAYED" \in Tellable
      /\ "RETRY_SCHEDULED" \in Tellable /\ "RETRY_DEAD_LETTERED" \in Tellable
      /\ "RETRY_SUCCEEDED" \in Tellable
  BY DEF Tellable, AUDIT_EVENT_TYPES
<1> HIDE DEF first, second
<1>6. first \in Seq(Tellable) /\ second \in Seq(Tellable)
  <2> HIDE DEF Tellable
  <2>1. \A x \in Tellable : <<x>> \in Seq(Tellable)
    OBVIOUS
  <2>2. << >> \in Seq(Tellable)
    OBVIOUS
  <2> QED BY <1>3, <1>4, <1>5, <2>1, <2>2, Zenon
<1>7. /\ Outcome(a) \in Seq(Tellable)
      /\ Len(Outcome(a)) = Len(first) + Len(second)
      /\ \A i \in 1..Len(first) : i \in 1..Len(Outcome(a)) /\ Outcome(a)[i] = first[i]
  <2>1. /\ first \o second \in Seq(Tellable)
        /\ Len(first \o second) = Len(first) + Len(second)
        /\ \A i \in 1 .. Len(first) + Len(second) :
             (first \o second)[i] = IF i <= Len(first) THEN first[i] ELSE second[i - Len(first)]
    BY <1>6, ConcatProperties
  <2>2. Len(first) \in Nat /\ Len(second) \in Nat
    BY <1>6
  <2> QED BY <1>1, <2>1, <2>2
<1>8. ASSUME Ending(a.kind) \in Over, a.kind # "found"
      PROVE  \E i \in 1..Len(Outcome(a)) : Outcome(a)[i] \in Telling(Ending(a.kind))
  <2>1. \E x \in Telling(Ending(a.kind)) : first = <<x>>
    <3>1. CASE a.kind = "applied"
      BY <1>3, <3>1 DEF Ending, Telling
    <3>2. CASE a.kind = "delayed"
      BY <1>3, <3>2 DEF Ending, Telling
    <3>3. CASE a.kind = "exhausted"
      BY <1>3, <3>3 DEF Ending, Telling
    <3>4. a.kind # "postponed"
      BY <1>8 DEF Ending, Over
    <3> QED BY <1>2, <1>8, <3>1, <3>2, <3>3, <3>4 DEF Ends
  <2>2. PICK x \in Telling(Ending(a.kind)) : first = <<x>>
    BY <2>1
  <2>3. 1 \in 1..Len(first) /\ first[1] = x
    BY <2>2
  <2> QED BY <1>7, <2>3
<1> QED BY <1>7, <1>8

-----------------------------------------------------------------------------
(* The steps *)

\* The page of tab t reads or displays something.
PageStep(t) ==
  \/ LoadRecord(t) \/ LoadTrail(t) \/ LoadLatest(t)
  \/ ShowLatest(t) \/ ShowList(t) \/ LoadFails(t)

\* The server gets on with request r, the answer to it aside.
ServerStep(r) ==
  \/ ReadRetries(r) \/ ReadAudit(r) \/ Investigate(r) \/ Abort(r)
  \/ Create(r) \/ CreateFails(r) \/ StandInFails(r)
  \/ recordInvestigationAudit(r) \/ Fails(r)

\* The pipeline gets on.
PipelineStep ==
  \/ \E kind, h, lag : Deliver(kind, h, lag) \/ Claim(kind, h, lag)
  \/ \E h \in DOMAIN Hooks : ensurePending(h)
  \/ \E a \in attempts : Announce(a) \/ TellOutcome(a) \/ Settle(a)

LEMMA NextIs ==
  ASSUME [Next]_vars
  PROVE  \/ PipelineStep
         \/ Tick
         \/ \E r \in Request : ServerStep(r)
         \/ \E r \in Request : Respond(r)
         \/ \E r \in Request, t \in Tab : Click(t, r)
         \/ \E r \in Request, e \in plan.of : PostEchoing(r, e)
         \/ Crash
         \/ \E t \in Tab, kind \in plan.pages, e \in plan.of : Open(t, kind, e)
         \/ \E t \in Tab : PageStep(t)
         \/ UNCHANGED vars
<1>1. CASE Next
  <2>1. CASE \E move \in plan.moves :
               Deliver(move[1], move[2], move[3]) \/ Claim(move[1], move[2], move[3])
    BY <2>1 DEF PipelineStep
  <2>2. CASE \E r \in Request :
               \/ Handle(r) \/ Investigate(r)
               \/ \E t \in Tab : Click(t, r)
               \/ \E e \in plan.of : PostEchoing(r, e)
    <3>1. PICK r \in Request : \/ Handle(r) \/ Investigate(r)
                               \/ \E t \in Tab : Click(t, r)
                               \/ \E e \in plan.of : PostEchoing(r, e)
      BY <2>2
    <3>2. Handle(r) => ServerStep(r) \/ Respond(r)
      BY DEF Handle, ServerStep
    <3>3. Investigate(r) => ServerStep(r)
      BY DEF ServerStep
    <3> QED BY <3>1, <3>2, <3>3
  <2>3. CASE \E t \in Tab :
               \/ \E kind \in plan.pages, e \in plan.of : Open(t, kind, e)
               \/ LoadRecord(t) \/ LoadTrail(t) \/ LoadLatest(t)
               \/ ShowLatest(t) \/ ShowList(t) \/ LoadFails(t)
    BY <2>3 DEF PageStep
  <2>4. CASE \/ \E h \in DOMAIN Hooks : ensurePending(h)
             \/ \E a \in attempts : Announce(a) \/ TellOutcome(a) \/ Settle(a)
    BY <2>4 DEF PipelineStep
  <2> QED BY <1>1, <2>1, <2>2, <2>3, <2>4 DEF Next
<1>2. CASE UNCHANGED vars
  BY <1>2
<1> QED BY <1>1, <1>2

LEMMA SpentIs ==
  ASSUME plan \in Remaining,
         Spend("asks") \/ Spend("echoes") \/ Spend("opens") \/ Spend("ticks")
  PROVE  /\ plan' \in Remaining /\ plan'.of = plan.of /\ plan'.by = plan.by
         /\ plan'.calm = plan.calm
<1>1. CASE Spend("asks")
  <2>1. plan.asks \in Nat
    BY DEF Remaining
  <2>2. plan.asks - 1 \in Nat /\ plan' = [plan EXCEPT !.asks = plan.asks - 1]
    <3>1. plan.asks > 0 /\ plan' = [plan EXCEPT !.asks = plan.asks - 1]
      BY <1>1, Zenon DEF Spend
    <3> QED BY <2>1, <3>1
  <2> QED BY <2>2 DEF Remaining
<1>2. CASE Spend("echoes")
  <2>1. plan.echoes \in Nat
    BY DEF Remaining
  <2>2. plan.echoes - 1 \in Nat /\ plan' = [plan EXCEPT !.echoes = plan.echoes - 1]
    <3>1. plan.echoes > 0 /\ plan' = [plan EXCEPT !.echoes = plan.echoes - 1]
      BY <1>2, Zenon DEF Spend
    <3> QED BY <2>1, <3>1
  <2> QED BY <2>2 DEF Remaining
<1>3. CASE Spend("opens")
  <2>1. plan.opens \in Nat
    BY DEF Remaining
  <2>2. plan.opens - 1 \in Nat /\ plan' = [plan EXCEPT !.opens = plan.opens - 1]
    <3>1. plan.opens > 0 /\ plan' = [plan EXCEPT !.opens = plan.opens - 1]
      BY <1>3, Zenon DEF Spend
    <3> QED BY <2>1, <3>1
  <2> QED BY <2>2 DEF Remaining
<1>4. CASE Spend("ticks")
  <2>1. plan.ticks \in Nat
    BY DEF Remaining
  <2>2. plan.ticks - 1 \in Nat /\ plan' = [plan EXCEPT !.ticks = plan.ticks - 1]
    <3>1. plan.ticks > 0 /\ plan' = [plan EXCEPT !.ticks = plan.ticks - 1]
      BY <1>4, Zenon DEF Spend
    <3> QED BY <2>1, <3>1
  <2> QED BY <2>2 DEF Remaining
<1> QED BY <1>1, <1>2, <1>3, <1>4

LEMMA FaultIs ==
  ASSUME plan \in Remaining, Fault
  PROVE  /\ plan' \in Remaining /\ plan'.of = plan.of /\ plan'.by = plan.by
         /\ ~plan'.calm
<1>1. plan.faults \in Nat
  BY DEF Remaining
<1>2. /\ plan.faults - 1 \in Nat
      /\ plan' = [plan EXCEPT !.faults = plan.faults - 1, !.calm = FALSE]
  BY <1>1 DEF Fault
<1> QED BY <1>2 DEF Remaining

LEMMA MovedIs ==
  ASSUME plan \in Remaining, NEW kind, NEW h, NEW lag, Move(kind, h, lag)
  PROVE  /\ kind \in Receipts \cup Ends /\ h \in DOMAIN Hooks /\ lag \in {0, 1}
         /\ plan' \in Remaining /\ plan'.of = plan.of /\ plan'.by = plan.by
         /\ plan'.calm = plan.calm
<1>1. <<kind, h, lag>> \in Moves
  <2>1. plan.moves \subseteq Moves /\ <<kind, h, lag>> \in plan.moves
    BY DEF Move, Remaining
  <2> QED BY <2>1
<1>2. kind \in Receipts \cup Ends /\ h \in DOMAIN Hooks /\ lag \in {0, 1}
  BY <1>1, HooksAre DEF Moves
<1>3. /\ plan' = [plan EXCEPT !.moves = plan.moves \ {<<kind, h, lag>>}]
      /\ plan.moves \ {<<kind, h, lag>>} \in SUBSET Moves
  BY DEF Move, Remaining
<1> HIDE DEF Moves
<1> QED BY <1>2, <1>3 DEF Remaining

LEMMA PipelineLeaves ==
  ASSUME PipelineStep
  PROVE  /\ clock' = clock /\ records' = records /\ tabs' = tabs /\ mounts' = mounts
         /\ pc' = pc /\ hand' = hand /\ echoed' = echoed
<1>1. ASSUME NEW kind, NEW h, NEW lag, Deliver(kind, h, lag) \/ Claim(kind, h, lag)
      PROVE  UNCHANGED <<clock, records, pages, server>>
  BY <1>1 DEF Deliver, Claim
<1>2. ASSUME NEW h, ensurePending(h)
      PROVE  UNCHANGED <<clock, records, pages, server>>
  BY <1>2 DEF ensurePending
<1>3. ASSUME NEW a, Announce(a) \/ TellOutcome(a) \/ Settle(a)
      PROVE  UNCHANGED <<clock, records, pages, server>>
  BY <1>3 DEF Announce, TellOutcome, Settle
<1>4. UNCHANGED <<clock, records, pages, server>>
  BY <1>1, <1>2, <1>3 DEF PipelineStep
<1> QED BY <1>4 DEF pages, server

-----------------------------------------------------------------------------
(* Types are kept *)

LEMMA PackageIs ==
  ASSUME NEW e \in DOMAIN Story
  PROVE  /\ EvidenceOf(e) \in Package
         /\ EvidenceOf(e).exc = e /\ EvidenceOf(e).code = Story[e].code
         /\ EvidenceOf(e).hook = Story[e].hook /\ EvidenceOf(e).projected = Story[e].pay
         /\ EvidenceOf(e).webhooks = capWebhooks(LoadedWebhooks(e), Story[e].hook)
         /\ EvidenceOf(e).retries = << >> /\ EvidenceOf(e).audit = {}
<1>1. capWebhooks(LoadedWebhooks(e), Story[e].hook) \in Seq(Webhook)
  BY CappedIs
<1>2. << >> \in Seq(RetryRow)
  OBVIOUS
<1> QED BY <1>1, <1>2, StoryIs DEF EvidenceOf, Package

\* The typing of one request.
Fit(s, h) ==
  /\ h \in Plea
  /\ s # "idle" => h.exc \in plan.of /\ h.package \in Package
  /\ s = "create" => h.answer \in Reply /\ h.by \in Investigators

LEMMA FitIs ==
  ASSUME pc \in [Request -> Awaits], hand \in [Request -> Plea]
  PROVE  (\A r \in Request :
            /\ pc[r] # "idle" => hand[r].exc \in plan.of /\ hand[r].package \in Package
            /\ pc[r] = "create" => hand[r].answer \in Reply /\ hand[r].by \in Investigators)
         <=> \A r \in Request : Fit(pc[r], hand[r])
BY DEF Fit

LEMMA NoPleaIs ==
  NoPlea \in Plea
BY HooksAre DEF NoPlea, Plea

LEMMA ReadsAre ==
  /\ Reads[1] = "retries" /\ After("retries") = "audit" /\ After("audit") = "investigate"
<1>1. DOMAIN Reads = {1, 2, 3} /\ Reads[1] = "retries" /\ Reads[2] = "audit"
      /\ Reads[3] = "investigate"
  BY DEF Reads
<1>2. (CHOOSE i \in DOMAIN Reads : Reads[i] = "retries") = 1
  BY <1>1
<1>3. (CHOOSE i \in DOMAIN Reads : Reads[i] = "audit") = 2
  BY <1>1
<1> QED BY <1>1, <1>2, <1>3 DEF After

\* The plea of a request after the step.
LEMMA BegunIs ==
  ASSUME Types, NEW r \in Request, NEW e \in DOMAIN Story, NEW t \in Tab \cup {0},
         NEW mount \in Nat, NEW corr \in Nat, Begin(r, e, t, mount, corr)
  PROVE  /\ pc[r] = "idle" /\ pc' = [pc EXCEPT ![r] = "retries"]
         /\ hand' = [hand EXCEPT ![r] = hand'[r]]
         /\ hand'[r] \in Plea
         /\ hand'[r].exc = e /\ hand'[r].tab = t /\ hand'[r].mount = mount
         /\ hand'[r].at = clock /\ hand'[r].corr = corr
         /\ hand'[r].package = EvidenceOf(e) /\ hand'[r].id = 0
<1> DEFINE h == [NoPlea EXCEPT !.exc = e, !.tab = t, !.mount = mount, !.at = clock,
                      !.corr = corr, !.package = EvidenceOf(e)]
<1>1. /\ h \in Plea /\ h.exc = e /\ h.tab = t /\ h.mount = mount /\ h.at = clock
      /\ h.corr = corr /\ h.package = EvidenceOf(e) /\ h.id = 0
  <2>1. clock \in Nat /\ EvidenceOf(e) \in Package
    BY PackageIs DEF Types
  <2> QED BY <2>1, NoPleaIs DEF Plea, NoPlea
<1>2. hand' = [hand EXCEPT ![r] = h]
  BY DEF Begin
<1>3. hand'[r] = h
  BY <1>2 DEF Types
<1> HIDE DEF h
<1> QED BY <1>1, <1>2, <1>3, ReadsAre DEF Begin, Goto

\* What no step of the server changes in a plea.
SamePlea(g, h) ==
  /\ g.exc = h.exc /\ g.tab = h.tab /\ g.mount = h.mount /\ g.at = h.at
  /\ g.corr = h.corr

SameButPackage(g, h) ==
  SamePlea(g, h) /\ g.id = h.id /\ g.answer = h.answer /\ g.by = h.by

LEMMA PleaWithPackage ==
  ASSUME NEW r \in Request, NEW p \in Package, hand \in [Request -> Plea],
         hand' = [hand EXCEPT ![r] = [hand[r] EXCEPT !.package = p]]
  PROVE  /\ hand' = [hand EXCEPT ![r] = hand'[r]]
         /\ hand'[r] \in Plea /\ hand'[r].package = p
         /\ SameButPackage(hand'[r], hand[r])
<1>1. hand'[r] = [hand[r] EXCEPT !.package = p] /\ hand[r] \in Plea
  OBVIOUS
<1> QED BY <1>1 DEF Plea, SameButPackage, SamePlea

LEMMA ReadRetriesIs ==
  ASSUME Types, NEW r \in Request, ReadRetries(r)
  PROVE  /\ pc[r] = "retries"
         /\ \/ hand' = hand /\ pc' = [pc EXCEPT ![r] = "audit"]
            \/ /\ pc' = pc /\ hand' = [hand EXCEPT ![r] = hand'[r]]
               /\ hand'[r] \in Plea /\ SameButPackage(hand'[r], hand[r])
               /\ \E w \in ToSet(hand[r].package.webhooks) :
                    /\ retry[w.id].status # "NONE"
                    /\ hand'[r].package =
                         [hand[r].package EXCEPT !.retries =
                            Append(@, [hook |-> w.id, status |-> retry[w.id].status])]
                    /\ hand'[r].package \in Package
<1> DEFINE p == hand[r].package
           left == {i \in DOMAIN p.webhooks :
                      /\ retry[p.webhooks[i].id].status # "NONE"
                      /\ \A row \in ToSet(p.retries) : row.hook # p.webhooks[i].id}
           next == p.webhooks[Min(left)].id
           row == [hook |-> next, status |-> retry[next].status]
           new == [p EXCEPT !.retries = Append(@, row)]
<1>1. pc[r] = "retries" /\ p \in Package
  BY ZenonT(60) DEF Types, ReadRetries
<1>2. CASE left = {} \/ Len(p.retries) >= MaxRetries
  BY <1>1, <1>2, ReadsAre DEF ReadRetries, Goto
<1>3. CASE ~(left = {} \/ Len(p.retries) >= MaxRetries)
  <2>1. left \in SUBSET Nat /\ left # {}
    <3>1. p.webhooks \in Seq(Webhook)
      BY <1>1 DEF Package
    <3>2. DOMAIN p.webhooks \subseteq Nat
      BY SMTT(40), <3>1
    <3> QED BY <1>3, <3>2
  <2>2. Min(left) \in left
    <3> HIDE DEF left
    <3>1. PICK m \in left : \A k \in left : m <= k
      BY <2>1, LeastNumber, SMTT(40)
    <3> QED BY <3>1 DEF Min
  <2> DEFINE w == p.webhooks[Min(left)]
  <2>3. Min(left) \in DOMAIN p.webhooks /\ retry[w.id].status # "NONE"
    BY <2>2
  <2>4. w \in ToSet(p.webhooks) /\ w \in Webhook
    <3>1. p.webhooks \in Seq(Webhook)
      BY <1>1 DEF Package
    <3> HIDE DEF left
    <3> QED BY <2>3, <3>1 DEF ToSet
  <2>5. hand' = [hand EXCEPT ![r].package.retries = Append(@, row)] /\ pc' = pc
    BY <1>3, Zenon DEF ReadRetries
  <2> HIDE DEF left
  <2>6. row \in RetryRow
    <3>1. retry[w.id] \in RetryState
      BY <2>4 DEF Types, Webhook
    <3> QED BY <2>4, <3>1 DEF Webhook, RetryRow, RetryState
  <2> HIDE DEF row
  <2>7. new \in Package
    <3>1. p.retries \in Seq(RetryRow)
      BY <1>1 DEF Package
    <3>2. Append(p.retries, row) \in Seq(RetryRow)
      BY <2>6, <3>1, AppendProperties
    <3> QED BY <1>1, <3>2 DEF Package
  <2>8. hand' = [hand EXCEPT ![r] = [hand[r] EXCEPT !.package = new]]
    BY <2>5, Zenon
  <2> HIDE DEF new
  <2>9. /\ hand' = [hand EXCEPT ![r] = hand'[r]] /\ hand'[r] \in Plea
        /\ hand'[r].package = new /\ SameButPackage(hand'[r], hand[r])
    BY <2>7, <2>8, PleaWithPackage DEF Types
  <2>10. new = [p EXCEPT !.retries = Append(@, [hook |-> w.id, status |-> retry[w.id].status])]
    BY DEF new, row
  <2> HIDE DEF w, p
  <2> QED BY <1>1, <2>3, <2>4, <2>5, <2>7, <2>9, <2>10 DEF p
<1> QED BY <1>1, <1>2, <1>3

LEMMA CapIs ==
  ASSUME NEW e, NEW rows
  PROVE  capAudit(e, rows) \subseteq rows
BY DEF capAudit

LEMMA ReadAuditIs ==
  ASSUME Types, NEW r \in Request, ReadAudit(r)
  PROVE  /\ pc[r] = "audit" /\ pc' = [pc EXCEPT ![r] = "investigate"]
         /\ hand' = [hand EXCEPT ![r] = hand'[r]]
         /\ hand'[r] \in Plea /\ SameButPackage(hand'[r], hand[r])
         /\ hand'[r].package = [hand[r].package EXCEPT !.audit =
                                  capAudit(hand[r].exc, LoadedAudit(hand[r].exc))]
         /\ hand'[r].package \in Package
<1> DEFINE p == hand[r].package
           rows == capAudit(hand[r].exc, LoadedAudit(hand[r].exc))
           new == [p EXCEPT !.audit = rows]
<1>1. pc[r] = "audit" /\ p \in Package /\ pc' = [pc EXCEPT ![r] = "investigate"]
  BY ReadsAre DEF Types, ReadAudit, Goto
<1>2. rows \in SUBSET AuditRow
  <2>1. LoadedAudit(hand[r].exc) \subseteq ToSet(audit)
    BY DEF LoadedAudit
  <2>2. ToSet(audit) \subseteq AuditRow
    <3>1. audit \in Seq(AuditRow)
      BY DEF Types
    <3> QED BY <3>1 DEF ToSet
  <2> QED BY <2>1, <2>2, CapIs
<1>3. hand' = [hand EXCEPT ![r].package.audit = rows]
  BY DEF ReadAudit
<1> HIDE DEF rows
<1>4. new \in Package
  BY <1>1, <1>2 DEF Package
<1>5. hand' = [hand EXCEPT ![r] = [hand[r] EXCEPT !.package = new]]
  BY <1>3, Zenon
<1> HIDE DEF new
<1>6. /\ hand' = [hand EXCEPT ![r] = hand'[r]] /\ hand'[r] \in Plea
      /\ hand'[r].package = new /\ SameButPackage(hand'[r], hand[r])
  BY <1>4, <1>5, PleaWithPackage DEF Types
<1> QED BY <1>1, <1>4, <1>6 DEF new, rows

LEMMA InvestigateIs ==
  ASSUME Types, NEW r \in Request, Investigate(r)
  PROVE  /\ pc[r] = "investigate"
         /\ hand' = [hand EXCEPT ![r] = hand'[r]] /\ hand'[r] \in Plea
         /\ SamePlea(hand'[r], hand[r]) /\ hand'[r].id = hand[r].id
         /\ hand'[r].package = hand[r].package
         /\ \/ pc' = [pc EXCEPT ![r] = "fallback"]
            \/ /\ pc' = [pc EXCEPT ![r] = "create"]
               /\ hand'[r].answer \in Reply /\ hand'[r].by \in Investigators
               /\ validateInvestigationResult(hand[r].package, hand'[r].answer)
               /\ Cautious(hand[r].package, hand'[r].answer, hand'[r].by)
<1> DEFINE p == hand[r].package
<1>1. pc[r] = "investigate" /\ p \in Package /\ plan.by \in Investigators
  BY DEF Types, Investigate, Remaining
<1>2. PICK answer \in Replies(p) :
        \/ /\ validateInvestigationResult(p, answer)
           /\ Settled(r, answer, plan.by)
           /\ Goto(r, "create")
        \/ /\ \E names \in ErrorNames(p, answer) :
                hand' = [hand EXCEPT ![r].reason = names]
           /\ Goto(r, "fallback")
  BY DEF Investigate
<1>3. (answer \in Reply \/ answer = Malformed) /\ Cautious(p, answer, plan.by)
  BY <1>1, RepliesAre
<1>4. CASE /\ \E names \in ErrorNames(p, answer) :
                hand' = [hand EXCEPT ![r].reason = names]
           /\ Goto(r, "fallback")
  <2>1. PICK names \in ErrorNames(p, answer) : hand' = [hand EXCEPT ![r].reason = names]
    BY <1>4
  <2>2. names \in SUBSET Name
    BY <1>3, ErrorNamesAre
  <2>3. pc' = [pc EXCEPT ![r] = "fallback"]
    BY <1>4 DEF Goto
  <2>4. /\ hand'[r] = [hand[r] EXCEPT !.reason = names]
        /\ hand[r] \in Plea /\ hand' = [hand EXCEPT ![r] = hand'[r]]
    BY <2>1 DEF Types
  <2>5. /\ hand'[r] \in Plea /\ SamePlea(hand'[r], hand[r]) /\ hand'[r].id = hand[r].id
        /\ hand'[r].package = hand[r].package
    <3> HIDE DEF Types, Package, Name, p
    <3> QED BY <2>2, <2>4 DEF Plea, SamePlea
  <2> QED BY <1>1, <2>3, <2>4, <2>5
<1>5. CASE /\ validateInvestigationResult(p, answer)
           /\ Settled(r, answer, plan.by)
           /\ Goto(r, "create")
  <2>1. answer \in Reply
    <3>1. answer # Malformed
      <4>1. Malformed.type \notin INVESTIGATION_INCIDENT_TYPES
        BY DEF Malformed, Answer, INVESTIGATION_INCIDENT_TYPES
      <4>2. answer.type \in INVESTIGATION_INCIDENT_TYPES
        BY <1>5 DEF validateInvestigationResult, createInvestigationResult
      <4> QED BY <4>1, <4>2
    <3> QED BY <1>3, <3>1
  <2>2. /\ pc' = [pc EXCEPT ![r] = "create"]
        /\ hand' = [hand EXCEPT ![r].answer = answer, ![r].by = plan.by]
    BY <1>5 DEF Settled, Goto
  <2>3. hand' = [hand EXCEPT ![r] = [hand[r] EXCEPT !.answer = answer, !.by = plan.by]]
    BY <2>2 DEF Types
  <2>4. /\ hand'[r] = [hand[r] EXCEPT !.answer = answer, !.by = plan.by]
        /\ hand[r] \in Plea /\ hand' = [hand EXCEPT ![r] = hand'[r]]
    BY <2>3 DEF Types
  <2>5. /\ hand'[r] \in Plea /\ SamePlea(hand'[r], hand[r]) /\ hand'[r].id = hand[r].id
        /\ hand'[r].package = hand[r].package
        /\ hand'[r].answer = answer /\ hand'[r].by = plan.by
    <3> HIDE DEF p
    <3>1. answer \in Reply /\ plan.by \in Investigators
      BY <1>1, <2>1
    <3> HIDE DEF Types, Reply, Package
    <3> QED BY <3>1, <2>4 DEF Plea, SamePlea
  <2> QED BY <1>1, <1>3, <1>5, <2>1, <2>2, <2>4, <2>5
<1> QED BY <1>2, <1>4, <1>5

LEMMA PleaWithId ==
  ASSUME NEW r \in Request, NEW id \in Nat, hand \in [Request -> Plea],
         hand' = [hand EXCEPT ![r].id = id]
  PROVE  /\ hand' = [hand EXCEPT ![r] = hand'[r]]
         /\ hand'[r] \in Plea /\ hand'[r].id = id
         /\ SamePlea(hand'[r], hand[r])
         /\ hand'[r].package = hand[r].package
<1>1. hand'[r] = [hand[r] EXCEPT !.id = id] /\ hand[r] \in Plea
      /\ hand' = [hand EXCEPT ![r] = hand'[r]]
  OBVIOUS
<1> QED BY <1>1 DEF Plea, SamePlea

\* What a request files as its record.
RecordOf(r) == InvestigationRecord(r, NewId, AnswerAt(r).answer, AnswerAt(r).by)

LEMMA RecordIs ==
  ASSUME Types, NewId \in Nat, NEW r \in Request, pc[r] \in {"create", "fallback"}
  PROVE  /\ RecordOf(r) \in Investigation
         /\ RecordOf(r).id = NewId /\ RecordOf(r).exc = hand[r].exc
         /\ RecordOf(r).at = hand[r].at /\ RecordOf(r).package = hand[r].package
         /\ RecordOf(r).type = AnswerAt(r).answer.type
         /\ RecordOf(r).confidence = AnswerAt(r).answer.confidence
         /\ RecordOf(r).cites = AnswerAt(r).answer.cites
         /\ RecordOf(r).mentions = AnswerAt(r).answer.mentions
         /\ RecordOf(r).limits = AnswerAt(r).answer.limits
         /\ RecordOf(r).by = AnswerAt(r).by
<1>1. AnswerAt(r).answer \in Reply /\ AnswerAt(r).by \in Investigators
  <2>1. CASE pc[r] = "create"
    BY <2>1 DEF AnswerAt, Types
  <2>2. CASE pc[r] # "create"
    <3>1. hand[r].package \in Package /\ hand[r].reason \in SUBSET Name
      BY DEF Types, Plea
    <3>2. StandIn(r) \in Reply
      BY <3>1, StandInIs DEF StandIn
    <3> QED BY <2>2, <3>2 DEF AnswerAt, Investigators
  <2> QED BY <2>1, <2>2
<1>2. hand[r].exc \in DOMAIN Story /\ hand[r].package \in Package /\ hand[r].at \in Nat
  <2>1. hand[r].exc \in plan.of /\ plan.of \subseteq DOMAIN Story /\ hand[r].package \in Package
    BY DEF Types, Remaining
  <2>2. hand[r] \in Plea
    BY DEF Types
  <2>3. hand[r].at \in Nat
    BY <2>2 DEF Plea
  <2> QED BY <2>1, <2>3
<1> DEFINE a == AnswerAt(r)
<1>3. RecordOf(r) = [id |-> NewId, exc |-> hand[r].exc, by |-> a.by, type |-> a.answer.type,
                     confidence |-> a.answer.confidence, cites |-> a.answer.cites,
                     mentions |-> a.answer.mentions, limits |-> a.answer.limits,
                     at |-> hand[r].at, package |-> hand[r].package]
  BY DEF RecordOf, InvestigationRecord
<1>4. /\ a.answer.type \in INVESTIGATION_INCIDENT_TYPES /\ a.answer.confidence \in CONFIDENCES
      /\ a.answer.cites \in SUBSET Cite /\ a.answer.mentions \in SUBSET Name
      /\ a.answer.limits \in SUBSET Name
  BY <1>1 DEF Reply
<1> HIDE DEF a
<1>5. RecordOf(r) \in Investigation
  BY <1>1, <1>2, <1>3, <1>4 DEF Investigation, a
<1> QED BY <1>3, <1>5 DEF a

LEMMA CreateIs ==
  ASSUME Types, NewId \in Nat, NEW r \in Request, Create(r)
  PROVE  /\ pc[r] \in {"create", "fallback"} /\ pc' = [pc EXCEPT ![r] = "append"]
         /\ hand' = [hand EXCEPT ![r] = hand'[r]]
         /\ hand'[r] \in Plea /\ hand'[r].id = NewId
         /\ SamePlea(hand'[r], hand[r]) /\ hand'[r].package = hand[r].package
         /\ records' = records \cup {RecordOf(r)} /\ Creatable(r)
<1>1. /\ pc[r] \in {"create", "fallback"} /\ pc' = [pc EXCEPT ![r] = "append"]
      /\ hand' = [hand EXCEPT ![r].id = NewId]
      /\ records' = records \cup {RecordOf(r)} /\ Creatable(r)
  BY DEF Create, Insert, RecordOf, Goto, ThenLog
<1> QED BY <1>1, PleaWithId DEF Types

LEMMA CreateFailsIs ==
  ASSUME NEW r \in Request, CreateFails(r)
  PROVE  /\ pc[r] \in {"create", "fallback"}
         /\ \/ pc[r] = "create" /\ pc' = [pc EXCEPT ![r] = "fallback"]
            \/ pc[r] = "fallback" /\ pc' = [pc EXCEPT ![r] = "answer"]
         /\ hand' = hand
         /\ records' = records \/ records' = records \cup {RecordOf(r)}
         /\ Creatable(r)
BY DEF CreateFails, Insert, RecordOf, Goto

LEMMA LoggedIs ==
  ASSUME Types, NEW r \in Request, pc[r] = "append", audit' = Logged(r)
  PROVE  /\ audit' \in Seq(AuditRow) /\ Len(audit') = Len(audit) + 1
         /\ \A i \in DOMAIN audit : audit'[i] = audit[i]
         /\ audit'[Len(audit) + 1].id = Len(audit) + 1
         /\ audit'[Len(audit) + 1].type = "INVESTIGATION_RECORDED"
         /\ audit'[Len(audit) + 1].corr = hand[r].corr
         /\ audit'[Len(audit) + 1].about = hand[r].id
<1> DEFINE e == hand[r].exc
           row == Row("INVESTIGATION_RECORDED", Story[e].hook, Story[e].pay,
                      recordCorrelation(r), hand[r].at, hand[r].id)
<1>1. hand[r] \in Plea /\ e \in DOMAIN Story
  BY DEF Types, Remaining
<1>2. hand[r].corr \in Nat /\ hand[r].at \in Nat /\ hand[r].id \in Nat
  BY <1>1 DEF Plea
<1>3. "INVESTIGATION_RECORDED" \in AUDIT_EVENT_TYPES
  BY DEF AUDIT_EVENT_TYPES
<1>4. /\ row \in Draft /\ row.type = "INVESTIGATION_RECORDED"
      /\ row.corr = hand[r].corr /\ row.about = hand[r].id
  BY <1>1, <1>2, <1>3, StoryIs DEF Row, Draft, recordCorrelation
<1>5. audit' = Appended(<<row>>)
  BY DEF Logged
<1> HIDE DEF row, e
<1>6. <<row>> \in Seq(Draft) /\ Len(<<row>>) = 1 /\ <<row>>[1] = row /\ 1 \in 1..Len(<<row>>)
  BY <1>4
<1>7. audit \in Seq(AuditRow) /\ Len(audit) \in Nat
  BY DEF Types
<1> DEFINE rows == <<row>>
<1>8. rows \in Seq(Draft) /\ Len(rows) = 1 /\ rows[1] = row /\ 1 \in 1..Len(rows) /\ audit' = Appended(rows)
  BY <1>5, <1>6
<1> HIDE DEF rows
<1> DEFINE x == Appended(rows)[Len(audit) + 1]
<1>9. /\ Appended(rows) \in Seq(AuditRow)
      /\ Len(Appended(rows)) = Len(audit) + Len(rows)
      /\ \A i \in DOMAIN audit : Appended(rows)[i] = audit[i]
      /\ x.id = Len(audit) + 1 /\ x.type = rows[1].type /\ x.hook = rows[1].hook
      /\ x.pay = rows[1].pay /\ x.corr = rows[1].corr /\ x.at = rows[1].at
      /\ x.about = rows[1].about
  BY <1>7, <1>8, AppendedIs
<1>10. x = audit'[Len(audit) + 1]
  BY <1>8
<1> HIDE DEF x
<1> QED BY <1>4, <1>8, <1>9, <1>10

LEMMA RecordAuditIs ==
  ASSUME NEW r \in Request, recordInvestigationAudit(r)
  PROVE  /\ pc[r] = "append" /\ pc' = [pc EXCEPT ![r] = "answer"]
         /\ audit' = Logged(r) /\ hand' = hand
BY DEF recordInvestigationAudit, Goto

LEMMA FailsIs ==
  ASSUME Types, NEW r \in Request, Fails(r)
  PROVE  /\ pc[r] \in {"retries", "audit", "append"} /\ pc' = [pc EXCEPT ![r] = "answer"]
         /\ hand' = [hand EXCEPT ![r] = hand'[r]]
         /\ hand'[r] \in Plea /\ hand'[r].id = 0
         /\ SamePlea(hand'[r], hand[r]) /\ hand'[r].package = hand[r].package
         /\ audit' = audit \/ (pc[r] = "append" /\ audit' = Logged(r))
<1>1. /\ pc[r] \in {"retries", "audit", "append"} /\ pc' = [pc EXCEPT ![r] = "answer"]
      /\ hand' = [hand EXCEPT ![r].id = 0]
      /\ audit' = audit \/ (pc[r] = "append" /\ audit' = Logged(r))
  BY DEF Fails, Goto
<1>2. 0 \in Nat /\ hand \in [Request -> Plea]
  BY DEF Types
<1> QED BY <1>1, <1>2, PleaWithId

-----------------------------------------------------------------------------
(* Places in an order *)

\* R is a strict order of S in which any two are comparable.
Orders(R, S) ==
  /\ \A x \in S : <<x, x>> \notin R
  /\ \A x, y, z \in S : <<x, y>> \in R /\ <<y, z>> \in R => <<x, z>> \in R
  /\ \A x, y \in S : x # y => <<x, y>> \in R \/ <<y, x>> \in R

Place(S, R, x) == Cardinality({y \in S : <<y, x>> \in R})

\* Every place is taken by somebody.
LEMMA PlacesAreTaken ==
  ASSUME NEW S, IsFiniteSet(S), NEW R, Orders(R, S)
  PROVE  /\ Cardinality(S) \in Nat
         /\ \A k \in 0..Cardinality(S) - 1 : \E x \in S : Place(S, R, x) = k
         /\ \A x, z \in S : Place(S, R, x) = Place(S, R, z) => x = z
         /\ \A x \in S : Place(S, R, x) \in Nat
<1> DEFINE n == Cardinality(S)
           P(x) == {y \in S : <<y, x>> \in R}
           f == [x \in S |-> Cardinality(P(x))]
           I == 0..n - 1
<1>1. n \in Nat
  BY FS_CardinalityType
<1>2. ASSUME NEW x \in S PROVE IsFiniteSet(P(x)) /\ Cardinality(P(x)) \in Nat
  <2>1. P(x) \in SUBSET S
    OBVIOUS
  <2> HIDE DEF P
  <2>2. IsFiniteSet(P(x))
    BY <2>1, FS_Subset
  <2> QED BY <2>2, FS_CardinalityType
<1>3. ASSUME NEW x \in S PROVE Cardinality(P(x)) \in I
  <2>1. P(x) \in SUBSET (S \ {x})
    BY DEF Orders
  <2>2. IsFiniteSet(S \ {x}) /\ Cardinality(S \ {x}) = n - 1
    BY FS_RemoveElement
  <2> HIDE DEF P
  <2>3. Cardinality(P(x)) <= n - 1
    BY <2>1, <2>2, FS_Subset
  <2> QED BY <1>1, <1>2, <2>3
<1>4. ASSUME NEW x \in S, NEW z \in S, <<x, z>> \in R
      PROVE  Cardinality(P(x)) # Cardinality(P(z))
  <2>1. P(x) \in SUBSET P(z) /\ x \in P(z) /\ x \notin P(x)
    BY <1>4 DEF Orders
  <2> HIDE DEF P
  <2> QED BY <1>2, <2>1, FS_Subset
<1>5. ASSUME NEW x \in S, NEW z \in S, Cardinality(P(x)) = Cardinality(P(z)) PROVE x = z
  <2> SUFFICES ASSUME x # z PROVE FALSE
    OBVIOUS
  <2>1. <<x, z>> \in R \/ <<z, x>> \in R
    BY DEF Orders
  <2> HIDE DEF P
  <2> QED BY <1>4, <1>5, <2>1
<1>6. IsFiniteSet(I) /\ Cardinality(I) = n
  BY SMTT(40), <1>1, FS_Interval
<1> HIDE DEF P, n, I
<1>7. f \in Injection(S, I)
  BY <1>3, <1>5 DEF Injection, IsInjective
<1>8. f \in Surjection(S, I)
  BY <1>6, <1>7, FS_Injection DEF n
<1>9. \A k \in I : \E x \in S : f[x] = k
  BY <1>8 DEF Surjection
<1>10. \A x \in S : Place(S, R, x) = Cardinality(P(x))
  BY DEF Place, P
<1> QED BY <1>1, <1>2, <1>5, <1>9, <1>10 DEF n, I

-----------------------------------------------------------------------------
(* What the pages read *)

LEMMA ListedIs ==
  ASSUME Types, Filed, NEW e
  PROVE  /\ Cardinality(About(e)) \in Nat
         /\ \A k \in 1..Cardinality(About(e)) : listByException(e)[k] \in About(e)
         /\ About(e) # {} => Cardinality(About(e)) # 0
<1> DEFINE S == About(e)
           R == {c \in S \X S : Before(c[1], c[2])}
<1>1. IsFiniteSet(S)
  BY FS_Subset DEF About, Filed
<1>2. \A x \in S : x \in records /\ x.at \in Nat /\ x.id \in Nat
  <2>1. records \in SUBSET Investigation
    BY DEF Types
  <2> QED BY <2>1 DEF About, Investigation
<1>3. \A x, y \in S : <<x, y>> \in R <=> Before(x, y)
  OBVIOUS
<1>4. \A x, y \in S : x.id = y.id => x = y
  BY <1>2 DEF Filed
<1> HIDE DEF R, S
<1>5. \A x, y, z \in S :
        /\ ~Before(x, x)
        /\ Before(x, y) /\ Before(y, z) => Before(x, z)
        /\ x.id # y.id => Before(x, y) \/ Before(y, x)
  BY <1>2 DEF Before
<1>6. Orders(R, S)
  BY <1>3, <1>4, <1>5 DEF Orders
<1>7. /\ Cardinality(S) \in Nat
      /\ \A k \in 0..Cardinality(S) - 1 :
           \E x \in S : Place(S, R, x) = k
  BY <1>1, <1>6, PlacesAreTaken
<1>8. \A x \in S : Place(S, R, x) = Cardinality({y \in S : Before(y, x)})
  <2> TAKE x \in S
  <2>1. {y \in S : <<y, x>> \in R} = {y \in S : Before(y, x)}
    BY <1>3
  <2> QED BY <2>1 DEF Place
<1>9. ASSUME NEW k \in 1..Cardinality(S) PROVE listByException(e)[k] \in S
  <2>1. k - 1 \in 0..Cardinality(S) - 1
    BY <1>7
  <2>2. \E x \in S : Cardinality({y \in S : Before(y, x)}) = k - 1
    BY <1>7, <1>8, <2>1
  <2>3. listByException(e)[k] =
          CHOOSE x \in S : Cardinality({y \in S : Before(y, x)}) = k - 1
    BY DEF listByException, S
  <2> QED BY <2>2, <2>3
<1>10. S # {} => Cardinality(S) # 0
  BY <1>1, FS_EmptySet
<1> QED BY <1>7, <1>9, <1>10 DEF S

LEMMA LatestIs ==
  ASSUME Types, Filed, NEW e
  PROVE  LET id == findLatestByExceptionId(e).id
         IN  id \in Nat /\ (id # 0 => IsOf(id, e)) /\ (About(e) # {} => id # 0)
<1> DEFINE n == Cardinality(About(e))
           x == findLatestByExceptionId(e)
<1>1. CASE About(e) = {}
  <2>1. x.id = 0
    BY <1>1 DEF findLatestByExceptionId, NoInvestigation
  <2> QED BY <1>1, <2>1
<1>2. CASE About(e) # {}
  <2>1. n \in Nat /\ n # 0 /\ \A k \in 1..n : listByException(e)[k] \in About(e)
    BY <1>2, ListedIs
  <2>2. x = listByException(e)[Len(listByException(e))]
    BY <1>2 DEF findLatestByExceptionId, Last
  <2>3. Len(listByException(e)) = n
    BY <2>1 DEF listByException
  <2>4. x \in About(e)
    BY <2>1, <2>2, <2>3
  <2> HIDE DEF x
  <2>5. x \in records /\ x.exc = e /\ x \in Investigation
    BY <2>4 DEF About, Types
  <2>6. x.id \in Nat /\ x.id # 0
    <3>1. x.id \in Nat
      BY <2>5 DEF Investigation
    <3>2. x.id \in Ids
      BY <2>5 DEF Ids
    <3>3. x.id \in 1..Cardinality(records)
      BY <3>2 DEF Filed
    <3> QED BY <3>1, <3>3
  <2> QED BY <2>5, <2>6 DEF IsOf, x
<1> QED BY <1>1, <1>2

LEMMA NewIdIs ==
  ASSUME Types, Filed
  PROVE  NewId \in Nat \ {0} /\ NewId \notin Ids
<1>1. Cardinality(records) \in Nat
  BY FS_CardinalityType DEF Filed
<1> QED BY <1>1 DEF NewId, Filed

-----------------------------------------------------------------------------
(* What any step does to each variable *)

\* Nothing is taken back: counters, correlation ids and that a webhook has a
\* retry row.
Onward ==
  /\ plan' \in Remaining /\ plan'.of = plan.of /\ plan'.by = plan.by
  /\ plan'.calm => plan.calm
  /\ clock' \in Nat \ {0} /\ clock <= clock'
  /\ mounts' \in Nat /\ mounts <= mounts'
  /\ echoed' \in SUBSET Nat /\ echoed \subseteq echoed'
  /\ retry' \in [DOMAIN Hooks -> RetryState]
  /\ attempts' \in SUBSET Attempt
  /\ \A h \in DOMAIN Hooks : retry[h].status # "NONE" => retry'[h].status # "NONE"

LEMMA AdvancedIs ==
  ASSUME attempts \in SUBSET Attempt, NEW a \in attempts, NEW step,
         step \in {"announce", "tell", "settle", "done"}, Advance(a, step)
  PROVE  /\ attempts' \in SUBSET Attempt
         /\ \A b \in attempts' : b \in attempts \/
              (b.step = step /\ b.kind = a.kind /\ b.hook = a.hook)
<1>1. a \in Attempt
  OBVIOUS
<1>2. CASE step = "done"
  BY <1>2 DEF Advance
<1>3. CASE step # "done"
  <2> DEFINE b == [a EXCEPT !.step = step]
  <2>1. attempts' = (attempts \ {a}) \cup {b}
    BY <1>3 DEF Advance
  <2>2. b \in Attempt /\ b.step = step /\ b.kind = a.kind /\ b.hook = a.hook
    BY <1>1, <1>3 DEF Attempt
  <2> HIDE DEF b
  <2> QED BY <2>1, <2>2
<1> QED BY <1>2, <1>3

LEMMA StepsOfAttempts ==
  ASSUME NEW kind \in Ends
  PROVE  /\ AfterAnnounce(kind) \in {"tell", "settle"}
         /\ AfterTell(kind) \in {"settle", "done"}
         /\ AfterSettle(kind) \in {"tell", "done"}
         /\ AfterAnnounce(kind) = "settle" => Ending(kind) \notin Over
         /\ Ending(kind) \in RETRY_STATUSES
BY DEF Ends, AfterAnnounce, AfterTell, AfterSettle, Ending, Over, RETRY_STATUSES

\* What the pipeline does to retry rows and attempts.
LEMMA PipelineGoes ==
  ASSUME Types, PipelineStep
  PROVE  /\ plan' \in Remaining /\ plan'.of = plan.of /\ plan'.by = plan.by
         /\ plan'.calm = plan.calm
         /\ retry' \in [DOMAIN Hooks -> RetryState]
         /\ attempts' \in SUBSET Attempt
         /\ \A h \in DOMAIN Hooks : retry[h].status # "NONE" => retry'[h].status # "NONE"
<1>1. /\ plan \in Remaining /\ clock \in Nat \ {0}
      /\ retry \in [DOMAIN Hooks -> RetryState] /\ attempts \in SUBSET Attempt
  BY DEF Types
<1> DEFINE Plans1 == /\ plan' \in Remaining /\ plan'.of = plan.of /\ plan'.by = plan.by
                     /\ plan'.calm = plan.calm
           Retries1 == /\ retry' \in [DOMAIN Hooks -> RetryState]
                       /\ \A h \in DOMAIN Hooks :
                            retry[h].status # "NONE" => retry'[h].status # "NONE"
           Attempts1 == attempts' \in SUBSET Attempt
<1>2. (plan' = plan => Plans1) /\ (retry' = retry => Retries1)
      /\ (attempts' = attempts => Attempts1)
  BY <1>1
<1>3. ASSUME NEW h \in DOMAIN Hooks, NEW row \in RetryState, row.status # "NONE",
             retry' = [retry EXCEPT ![h] = row]
      PROVE  Retries1
  BY <1>1, <1>3
<1> SUFFICES Plans1 /\ Retries1 /\ Attempts1
  OBVIOUS
<1> HIDE DEF Plans1, Retries1, Attempts1
<1>4. ASSUME NEW kind, NEW h, NEW lag, Deliver(kind, h, lag)
      PROVE  Plans1 /\ Retries1 /\ Attempts1
  <2>1. Move(kind, h, lag) /\ retry' = retry /\ attempts' = attempts
    BY <1>4 DEF Deliver
  <2> QED BY <1>1, <1>2, <2>1, MovedIs DEF Plans1
<1>5. ASSUME NEW h \in DOMAIN Hooks, ensurePending(h)
      PROVE  Plans1 /\ Retries1 /\ Attempts1
  <2>1. plan' = plan /\ attempts' = attempts
        /\ retry' = [retry EXCEPT ![h].status = "PENDING"]
    BY <1>5 DEF ensurePending
  <2> DEFINE row == [retry[h] EXCEPT !.status = "PENDING"]
  <2>2. row \in RetryState /\ row.status # "NONE"
    <3>1. retry[h] \in RetryState
      BY <1>1
    <3> QED BY <3>1 DEF RetryState, RetryStatus, RETRY_STATUSES
  <2>3. retry' = [retry EXCEPT ![h] = row]
    BY <2>1
  <2> HIDE DEF row
  <2> QED BY <1>2, <1>3, <2>1, <2>2, <2>3
<1>6. ASSUME NEW kind, NEW h, NEW lag, Claim(kind, h, lag)
      PROVE  Plans1 /\ Retries1 /\ Attempts1
  <2>1. Move(kind, h, lag) /\ kind \in Ends
    BY <1>6 DEF Claim
  <2>2. h \in DOMAIN Hooks /\ lag \in {0, 1} /\ Plans1
    BY <1>1, <2>1, MovedIs DEF Plans1
  <2>3. retry[h] \in RetryState /\ retry[h].att \in Nat
    BY <1>1, <2>2 DEF RetryState
  <2>4. Retries1
    <3> DEFINE row == [status |-> "PROCESSING", att |-> retry[h].att + 1]
    <3>1. row \in RetryState /\ row.status # "NONE"
      BY <2>3 DEF RetryState, RetryStatus, RETRY_STATUSES
    <3>2. retry' = [retry EXCEPT ![h] = row]
      BY <1>6 DEF Claim
    <3> HIDE DEF row
    <3> QED BY <1>3, <2>2, <3>1, <3>2
  <2>5. Attempts1
    <3> DEFINE step == IF retry[h].att = 0 THEN AfterAnnounce(kind) ELSE "announce"
               a == [kind |-> kind, hook |-> h, at |-> clock - lag,
                     att |-> retry[h].att + 1, step |-> step]
    <3>1. step \in {"announce", "tell", "settle"}
      BY <2>1, StepsOfAttempts
    <3>2. clock - lag \in Nat /\ retry[h].att + 1 \in Nat \ {0}
      BY <1>1, <2>2, <2>3
    <3>3. attempts' = attempts \cup {a}
      BY <1>6 DEF Claim
    <3> HIDE DEF step
    <3>4. a \in Attempt
      BY <2>1, <2>2, <3>1, <3>2 DEF Attempt
    <3> HIDE DEF a
    <3> QED BY <1>1, <3>3, <3>4 DEF Attempts1
  <2> QED BY <2>2, <2>4, <2>5
<1>7. ASSUME NEW a \in attempts, Announce(a) \/ TellOutcome(a)
      PROVE  Plans1 /\ Retries1 /\ Attempts1
  <2>1. /\ plan' = plan /\ retry' = retry
        /\ Advance(a, AfterAnnounce(a.kind)) \/ Advance(a, AfterTell(a.kind))
    BY <1>7 DEF Announce, TellOutcome
  <2>2. a.kind \in Ends
    BY <1>1 DEF Attempt
  <2>3. Attempts1
    BY <1>1, <2>1, <2>2, StepsOfAttempts, AdvancedIs DEF Attempts1
  <2> QED BY <1>2, <2>1, <2>3
<1>8. ASSUME NEW a \in attempts, Settle(a)
      PROVE  Plans1 /\ Retries1 /\ Attempts1
  <2>1. /\ plan' = plan /\ retry' = [retry EXCEPT ![a.hook].status = Ending(a.kind)]
        /\ Advance(a, AfterSettle(a.kind))
    BY <1>8 DEF Settle
  <2>2. a.kind \in Ends /\ a.hook \in DOMAIN Hooks
    BY <1>1 DEF Attempt
  <2>3. Attempts1
    BY <1>1, <2>1, <2>2, StepsOfAttempts, AdvancedIs DEF Attempts1
  <2> DEFINE h == a.hook
             status == Ending(a.kind)
             row == [retry[h] EXCEPT !.status = status]
  <2>4. status \in RETRY_STATUSES /\ retry' = [retry EXCEPT ![h].status = status]
    BY <2>1, <2>2, StepsOfAttempts
  <2> HIDE DEF h, status
  <2>5. h \in DOMAIN Hooks /\ retry[h] \in RetryState
    BY <1>1, <2>2 DEF h
  <2>6. row \in RetryState /\ row.status # "NONE"
    BY <2>4, <2>5 DEF RetryState, RetryStatus, RETRY_STATUSES
  <2>7. retry' = [retry EXCEPT ![h] = row]
    BY <2>4
  <2> HIDE DEF row
  <2>8. Retries1
    BY <1>3, <2>5, <2>6, <2>7
  <2> QED BY <1>2, <2>1, <2>3, <2>8
<1> QED BY <1>4, <1>5, <1>6, <1>7, <1>8 DEF PipelineStep

LEMMA OnwardIs ==
  ASSUME Types, [Next]_vars
  PROVE  Onward
<1>1. plan \in Remaining /\ clock \in Nat \ {0} /\ mounts \in Nat /\ echoed \in SUBSET Nat
      /\ retry \in [DOMAIN Hooks -> RetryState] /\ attempts \in SUBSET Attempt
  BY DEF Types
<1> DEFINE Plans1 == plan' \in Remaining /\ plan'.of = plan.of /\ plan'.by = plan.by
                     /\ (plan'.calm => plan.calm)
           Retries1 == /\ retry' \in [DOMAIN Hooks -> RetryState]
                       /\ attempts' \in SUBSET Attempt
                       /\ \A h \in DOMAIN Hooks :
                            retry[h].status # "NONE" => retry'[h].status # "NONE"
           Others1 == /\ clock' \in Nat \ {0} /\ clock <= clock'
                      /\ mounts' \in Nat /\ mounts <= mounts'
                      /\ echoed' \in SUBSET Nat /\ echoed \subseteq echoed'
<1>2. plan' = plan => Plans1
  BY <1>1
<1>3. retry' = retry /\ attempts' = attempts => Retries1
  BY <1>1
<1>4. clock' = clock /\ mounts' = mounts /\ echoed' = echoed => Others1
  BY <1>1
<1>5. Spend("asks") \/ Spend("echoes") \/ Spend("opens") \/ Spend("ticks") => Plans1
  BY <1>1, SpentIs
<1>6. Fault => Plans1
  BY <1>1, FaultIs
<1>7. SUFFICES Plans1 /\ Retries1 /\ Others1
  BY DEF Onward
<1> HIDE DEF Plans1, Retries1
<1>8. PipelineStep => Plans1 /\ Retries1 /\ Others1
  BY <1>4, PipelineGoes, PipelineLeaves DEF Plans1, Retries1
<1>9. Tick => Plans1 /\ Retries1 /\ Others1
  BY <1>1, <1>3, <1>5 DEF Tick, store, pages, server
<1>10. ASSUME NEW r \in Request, ServerStep(r)
       PROVE  Plans1 /\ Retries1 /\ Others1
  <2>1. /\ plan' = plan \/ Fault
        /\ clock' = clock /\ mounts' = mounts /\ echoed' = echoed /\ retry' = retry
        /\ attempts' = attempts
    BY <1>10 DEF ServerStep, ReadRetries, ReadAudit, Investigate, Abort, Create, CreateFails,
                 StandInFails, recordInvestigationAudit, Fails, store, pages, server
  <2> QED BY SMTT(40), <1>2, <1>3, <1>4, <1>6, <2>1
<1>11. ASSUME NEW r \in Request, Respond(r)
       PROVE  Plans1 /\ Retries1 /\ Others1
  BY <1>11, <1>2, <1>3, <1>4 DEF Respond, store
<1>12. ASSUME NEW r \in Request, NEW t \in Tab, Click(t, r)
       PROVE  Plans1 /\ Retries1 /\ Others1
  BY <1>12, <1>3, <1>4, <1>5 DEF Click, Begin, store
<1>13. ASSUME NEW r \in Request, NEW e \in plan.of, PostEchoing(r, e)
       PROVE  Plans1 /\ Retries1 /\ Others1
  <2>1. e \in DOMAIN Story
    BY <1>1 DEF Remaining
  <2>2. Story[e].corr \in Nat
    BY <2>1, StoryIs
  <2> QED BY <1>13, <1>1, <1>3, <1>5, <2>2 DEF PostEchoing, Begin, store
<1>14. Crash => Plans1 /\ Retries1 /\ Others1
  BY <1>3, <1>4, <1>6 DEF Crash, store
<1>15. ASSUME NEW t \in Tab, NEW kind, NEW e, Open(t, kind, e)
       PROVE  Plans1 /\ Retries1 /\ Others1
  BY <1>15, <1>1, <1>3, <1>5 DEF Open, store, server
<1>16. ASSUME NEW t \in Tab, PageStep(t)
       PROVE  Plans1 /\ Retries1 /\ Others1
  <2>1. /\ plan' = plan \/ Fault
        /\ clock' = clock /\ mounts' = mounts /\ echoed' = echoed /\ retry' = retry
        /\ attempts' = attempts
    BY <1>16 DEF PageStep, LoadRecord, LoadTrail, LoadLatest, ShowLatest, ShowList, LoadFails,
                 Loaded, store, server
  <2> QED BY SMTT(60), <1>2, <1>3, <1>4, <1>6, <2>1
<1>17. UNCHANGED vars => Plans1 /\ Retries1 /\ Others1
  BY <1>2, <1>3, <1>4 DEF vars, store, pages, server
<1> HIDE DEF Others1
<1> QED BY <1>1, <1>8, <1>9, <1>10, <1>11, <1>12, <1>13, <1>14, <1>15, <1>16, <1>17, NextIs

\* What a step can mean for one request.
Began(r) ==
  /\ pc[r] = "idle" /\ pc'[r] = "retries"
  /\ hand'[r] \in Plea /\ hand'[r].exc \in plan.of
  /\ hand'[r].at = clock /\ hand'[r].corr \in echoed' \cup {0}
  /\ hand'[r].package = EvidenceOf(hand'[r].exc) /\ hand'[r].id = 0
  /\ hand'[r].mount <= mounts

ReadOne(r) ==
  /\ pc[r] = "retries" /\ pc'[r] = "retries"
  /\ hand'[r] \in Plea /\ SameButPackage(hand'[r], hand[r])
  /\ \E w \in ToSet(hand[r].package.webhooks) :
       /\ retry[w.id].status # "NONE"
       /\ hand'[r].package =
            [hand[r].package EXCEPT !.retries =
               Append(@, [hook |-> w.id, status |-> retry[w.id].status])]
       /\ hand'[r].package \in Package

ReadTrail(r) ==
  /\ pc[r] = "audit" /\ pc'[r] = "investigate"
  /\ hand'[r] \in Plea /\ SameButPackage(hand'[r], hand[r])
  /\ hand'[r].package = [hand[r].package EXCEPT !.audit =
                           capAudit(hand[r].exc, LoadedAudit(hand[r].exc))]
  /\ hand'[r].package \in Package

Answered(r) ==
  /\ pc[r] = "investigate" /\ pc'[r] = "create"
  /\ hand'[r] \in Plea /\ SamePlea(hand'[r], hand[r]) /\ hand'[r].id = hand[r].id
  /\ hand'[r].package = hand[r].package
  /\ hand'[r].answer \in Reply /\ hand'[r].by \in Investigators
  /\ validateInvestigationResult(hand[r].package, hand'[r].answer)
  /\ Cautious(hand[r].package, hand'[r].answer, hand'[r].by)

Refused(r) ==
  /\ pc[r] = "investigate" /\ pc'[r] = "fallback"
  /\ hand'[r] \in Plea /\ SamePlea(hand'[r], hand[r]) /\ hand'[r].id = hand[r].id
  /\ hand'[r].package = hand[r].package

Stored(r) ==
  /\ pc[r] \in {"create", "fallback"} /\ pc'[r] = "append"
  /\ hand'[r] \in Plea /\ hand'[r].id = NewId
  /\ SamePlea(hand'[r], hand[r]) /\ hand'[r].package = hand[r].package
  /\ records' = records \cup {RecordOf(r)}

PassedOn(r) ==
  /\ hand'[r] = hand[r]
  /\ \/ pc[r] = "retries" /\ pc'[r] = "audit"
     \/ pc[r] = "create" /\ pc'[r] = "fallback"
     \/ pc[r] = "fallback" /\ pc'[r] = "answer"
     \/ pc[r] = "append" /\ pc'[r] = "answer" /\ audit' = Logged(r)

Failed(r) ==
  /\ pc[r] \in {"retries", "audit", "append"} /\ pc'[r] = "answer"
  /\ hand'[r] \in Plea /\ hand'[r].id = 0
  /\ SamePlea(hand'[r], hand[r]) /\ hand'[r].package = hand[r].package
  /\ ~plan'.calm

Ended(r) ==
  /\ pc'[r] = "idle" /\ hand'[r] = NoPlea
  /\ pc[r] = "answer" \/ ~plan'.calm

Turn(r) ==
  \/ pc'[r] = pc[r] /\ hand'[r] = hand[r]
  \/ Began(r) \/ ReadOne(r) \/ ReadTrail(r) \/ Answered(r) \/ Refused(r)
  \/ Stored(r) \/ PassedOn(r) \/ Failed(r) \/ Ended(r)

\* A step of the server on request r leaves the others where they are.
LEMMA OthersStay ==
  ASSUME Types, NEW r \in Request, NEW s \in Awaits, NEW g \in Plea,
         pc' = [pc EXCEPT ![r] = s], hand' = [hand EXCEPT ![r] = g]
  PROVE  /\ pc' \in [Request -> Awaits] /\ hand' \in [Request -> Plea]
         /\ pc'[r] = s /\ hand'[r] = g
         /\ \A q \in Request : q # r => pc'[q] = pc[q] /\ hand'[q] = hand[q]
<1>1. pc \in [Request -> Awaits] /\ hand \in [Request -> Plea]
  BY DEF Types
<1> QED BY <1>1

LEMMA SomeAwaits ==
  /\ "idle" \in Awaits /\ "retries" \in Awaits /\ "audit" \in Awaits
  /\ "investigate" \in Awaits /\ "create" \in Awaits /\ "fallback" \in Awaits
  /\ "append" \in Awaits /\ "answer" \in Awaits
BY DEF Awaits

LEMMA ServerTurns ==
  ASSUME Types, Filed, NEW r \in Request, ServerStep(r)
  PROVE  /\ pc' \in [Request -> Awaits] /\ hand' \in [Request -> Plea]
         /\ Turn(r)
         /\ \A q \in Request : q # r => pc'[q] = pc[q] /\ hand'[q] = hand[q]
<1>1. pc \in [Request -> Awaits] /\ hand \in [Request -> Plea] /\ hand[r] \in Plea
      /\ plan \in Remaining
  BY DEF Types
<1>2. hand' = hand => hand' = [hand EXCEPT ![r] = hand'[r]] /\ hand'[r] \in Plea
  BY <1>1
<1>3. pc' = pc => pc' = [pc EXCEPT ![r] = pc[r]]
  BY <1>1
<1>4. pc[r] \in Awaits
  BY <1>1
<1>5. NewId \in Nat
  BY NewIdIs
<1> DEFINE Goal == /\ pc' \in [Request -> Awaits] /\ hand' \in [Request -> Plea]
                   /\ Turn(r)
                   /\ \A q \in Request : q # r => pc'[q] = pc[q] /\ hand'[q] = hand[q]
<1>6. ASSUME NEW s \in Awaits, pc' = [pc EXCEPT ![r] = s],
             hand' = [hand EXCEPT ![r] = hand'[r]], hand'[r] \in Plea,
             pc'[r] = s => Turn(r)
      PROVE  Goal
  BY <1>6, OthersStay
<1> HIDE DEF Goal, Types, Filed
<1> SUFFICES Goal
  BY DEF Goal
<1>7. CASE ReadRetries(r)
  <2>1. CASE pc[r] = "retries" /\ hand' = hand /\ pc' = [pc EXCEPT ![r] = "audit"]
    <3>1. pc'[r] = "audit" /\ hand'[r] = hand[r] => Turn(r)
      BY <2>1 DEF Turn, PassedOn
    <3> QED BY <1>1, <1>2, <1>6, <2>1, <3>1, SomeAwaits
  <2>2. CASE pc' = pc /\ hand' = [hand EXCEPT ![r] = hand'[r]] /\ ReadOne(r)
    <3>1. Turn(r)
      BY <2>2 DEF Turn
    <3> QED BY <1>3, <1>4, <1>6, <2>2, <3>1 DEF ReadOne
  <2> QED BY <1>7, <2>1, <2>2, ReadRetriesIs DEF ReadOne
<1>8. CASE ReadAudit(r)
  <2>1. /\ pc[r] = "audit" /\ pc' = [pc EXCEPT ![r] = "investigate"]
        /\ hand' = [hand EXCEPT ![r] = hand'[r]]
        /\ hand'[r] \in Plea /\ SameButPackage(hand'[r], hand[r])
        /\ hand'[r].package = [hand[r].package EXCEPT !.audit =
                                 capAudit(hand[r].exc, LoadedAudit(hand[r].exc))]
        /\ hand'[r].package \in Package
    BY <1>8, ReadAuditIs
  <2>2. pc'[r] = "investigate" => Turn(r)
    BY <2>1 DEF Turn, ReadTrail
  <2> QED BY <1>6, <2>1, <2>2, SomeAwaits
<1>9. CASE Investigate(r)
  <2>1. /\ pc[r] = "investigate"
        /\ hand' = [hand EXCEPT ![r] = hand'[r]] /\ hand'[r] \in Plea
        /\ SamePlea(hand'[r], hand[r]) /\ hand'[r].id = hand[r].id
        /\ hand'[r].package = hand[r].package
        /\ \/ pc' = [pc EXCEPT ![r] = "fallback"]
           \/ /\ pc' = [pc EXCEPT ![r] = "create"]
              /\ hand'[r].answer \in Reply /\ hand'[r].by \in Investigators
              /\ validateInvestigationResult(hand[r].package, hand'[r].answer)
              /\ Cautious(hand[r].package, hand'[r].answer, hand'[r].by)
    BY <1>9, InvestigateIs
  <2>2. CASE pc' = [pc EXCEPT ![r] = "fallback"]
    <3>1. pc'[r] = "fallback" => Turn(r)
      BY <2>1 DEF Turn, Refused
    <3> QED BY <1>6, <2>1, <2>2, <3>1, SomeAwaits
  <2>3. CASE /\ pc' = [pc EXCEPT ![r] = "create"]
             /\ hand'[r].answer \in Reply /\ hand'[r].by \in Investigators
             /\ validateInvestigationResult(hand[r].package, hand'[r].answer)
             /\ Cautious(hand[r].package, hand'[r].answer, hand'[r].by)
    <3>1. pc'[r] = "create" => Turn(r)
      BY <2>1, <2>3 DEF Turn, Answered
    <3> QED BY <1>6, <2>1, <2>3, <3>1, SomeAwaits
  <2> QED BY <2>1, <2>2, <2>3
<1>10. CASE Abort(r)
  <2>1. pc[r] = "investigate" /\ hand' = hand /\ pc' = [pc EXCEPT ![r] = "fallback"]
    BY <1>10 DEF Abort, Goto
  <2>2. pc'[r] = "fallback" /\ hand'[r] = hand[r] => Turn(r)
    BY <1>1, <2>1 DEF Turn, Refused, SamePlea
  <2> QED BY <1>1, <1>2, <1>6, <2>1, <2>2, SomeAwaits
<1>11. CASE Create(r)
  <2>1. /\ pc[r] \in {"create", "fallback"} /\ pc' = [pc EXCEPT ![r] = "append"]
        /\ hand' = [hand EXCEPT ![r] = hand'[r]]
        /\ hand'[r] \in Plea /\ hand'[r].id = NewId
        /\ SamePlea(hand'[r], hand[r]) /\ hand'[r].package = hand[r].package
        /\ records' = records \cup {RecordOf(r)}
    BY <1>5, <1>11, CreateIs
  <2>2. pc'[r] = "append" => Turn(r)
    BY <2>1 DEF Turn, Stored
  <2> QED BY <1>6, <2>1, <2>2, SomeAwaits
<1>12. CASE CreateFails(r)
  <2>1. /\ hand' = hand
        /\ \/ pc[r] = "create" /\ pc' = [pc EXCEPT ![r] = "fallback"]
           \/ pc[r] = "fallback" /\ pc' = [pc EXCEPT ![r] = "answer"]
    BY <1>12, CreateFailsIs
  <2>2. CASE pc[r] = "create" /\ pc' = [pc EXCEPT ![r] = "fallback"]
    <3>1. pc'[r] = "fallback" /\ hand'[r] = hand[r] => Turn(r)
      BY <2>2 DEF Turn, PassedOn
    <3> QED BY <1>1, <1>2, <1>6, <2>1, <2>2, <3>1, SomeAwaits
  <2>3. CASE pc[r] = "fallback" /\ pc' = [pc EXCEPT ![r] = "answer"]
    <3>1. pc'[r] = "answer" /\ hand'[r] = hand[r] => Turn(r)
      BY <2>3 DEF Turn, PassedOn
    <3> QED BY <1>1, <1>2, <1>6, <2>1, <2>3, <3>1, SomeAwaits
  <2> QED BY <2>1, <2>2, <2>3
<1>15. CASE StandInFails(r)
  <2>1. pc[r] = "fallback" /\ hand' = hand /\ pc' = [pc EXCEPT ![r] = "answer"]
    BY <1>15 DEF StandInFails, Goto
  <2>2. pc'[r] = "answer" /\ hand'[r] = hand[r] => Turn(r)
    BY <2>1 DEF Turn, PassedOn
  <2> QED BY <1>1, <1>2, <1>6, <2>1, <2>2, SomeAwaits
<1>13. CASE recordInvestigationAudit(r)
  <2>1. pc[r] = "append" /\ pc' = [pc EXCEPT ![r] = "answer"] /\ audit' = Logged(r) /\ hand' = hand
    BY <1>13, RecordAuditIs
  <2>2. pc'[r] = "answer" /\ hand'[r] = hand[r] => Turn(r)
    BY <2>1 DEF Turn, PassedOn
  <2> QED BY <1>1, <1>2, <1>6, <2>1, <2>2, SomeAwaits
<1>14. CASE Fails(r)
  <2>1. /\ pc[r] \in {"retries", "audit", "append"} /\ pc' = [pc EXCEPT ![r] = "answer"]
        /\ hand' = [hand EXCEPT ![r] = hand'[r]]
        /\ hand'[r] \in Plea /\ hand'[r].id = 0
        /\ SamePlea(hand'[r], hand[r]) /\ hand'[r].package = hand[r].package
    BY <1>14, FailsIs
  <2>2. ~plan'.calm
    BY <1>1, <1>14, FaultIs DEF Fails
  <2>3. pc'[r] = "answer" => Turn(r)
    BY <2>1, <2>2 DEF Turn, Failed
  <2> QED BY <1>6, <2>1, <2>3, SomeAwaits
<1> QED BY <1>7, <1>8, <1>9, <1>10, <1>11, <1>12, <1>13, <1>14, <1>15 DEF ServerStep

LEMMA BegunTurns ==
  ASSUME Types, NEW r \in Request, NEW e \in plan.of, NEW t \in Tab \cup {0},
         NEW mount \in Nat, NEW corr \in Nat, Begin(r, e, t, mount, corr),
         corr \in echoed' \cup {0}, mount <= mounts
  PROVE  /\ pc' \in [Request -> Awaits] /\ hand' \in [Request -> Plea]
         /\ Began(r) /\ hand'[r].exc = e /\ hand'[r].tab = t /\ hand'[r].mount = mount
         /\ \A q \in Request : q # r => pc'[q] = pc[q] /\ hand'[q] = hand[q]
<1>1. e \in DOMAIN Story
  BY DEF Types, Remaining
<1>2. /\ pc[r] = "idle" /\ pc' = [pc EXCEPT ![r] = "retries"]
      /\ hand' = [hand EXCEPT ![r] = hand'[r]]
      /\ hand'[r] \in Plea
      /\ hand'[r].exc = e /\ hand'[r].tab = t /\ hand'[r].mount = mount
      /\ hand'[r].at = clock /\ hand'[r].corr = corr
      /\ hand'[r].package = EvidenceOf(e) /\ hand'[r].id = 0
  BY <1>1, BegunIs
<1>3. /\ pc' \in [Request -> Awaits] /\ hand' \in [Request -> Plea]
      /\ pc'[r] = "retries"
      /\ \A q \in Request : q # r => pc'[q] = pc[q] /\ hand'[q] = hand[q]
  <2> DEFINE g == hand'[r]
  <2>1. g \in Plea /\ hand' = [hand EXCEPT ![r] = g]
    BY <1>2
  <2> HIDE DEF g
  <2> QED BY <1>2, <2>1, OthersStay, SomeAwaits
<1> QED BY <1>2, <1>3 DEF Began

LEMMA TurnsAre ==
  ASSUME Types, Filed, PagesOK, [Next]_vars
  PROVE  /\ pc' \in [Request -> Awaits] /\ hand' \in [Request -> Plea]
         /\ \A r \in Request : Turn(r)
<1>1. /\ plan \in Remaining /\ pc \in [Request -> Awaits] /\ hand \in [Request -> Plea]
      /\ tabs \in [Tab -> PageState] /\ echoed \in SUBSET Nat
  BY DEF Types
<1> DEFINE Goal == /\ pc' \in [Request -> Awaits] /\ hand' \in [Request -> Plea]
                   /\ \A r \in Request : Turn(r)
<1> SUFFICES Goal
  OBVIOUS
<1>2. pc' = pc /\ hand' = hand => Goal
  BY <1>1 DEF Turn
<1>3. ASSUME NEW r \in Request, Turn(r),
             pc' \in [Request -> Awaits], hand' \in [Request -> Plea],
             \A q \in Request : q # r => pc'[q] = pc[q] /\ hand'[q] = hand[q]
      PROVE  Goal
  BY <1>3 DEF Turn
<1> HIDE DEF Goal
<1>4. ASSUME NEW r \in Request, ServerStep(r) PROVE Goal
  BY <1>3, <1>4, ServerTurns
<1>5. ASSUME NEW r \in Request, Respond(r) PROVE Goal
  <2>1. /\ pc[r] = "answer" /\ pc' = [pc EXCEPT ![r] = "idle"]
        /\ hand' = [hand EXCEPT ![r] = NoPlea]
    BY <1>5 DEF Respond, Goto
  <2>2. /\ pc' \in [Request -> Awaits] /\ hand' \in [Request -> Plea]
        /\ pc'[r] = "idle" /\ hand'[r] = NoPlea
        /\ \A q \in Request : q # r => pc'[q] = pc[q] /\ hand'[q] = hand[q]
    BY <2>1, OthersStay, SomeAwaits, NoPleaIs
  <2>3. Turn(r)
    BY <2>1, <2>2 DEF Turn, Ended
  <2> QED BY <1>3, <2>2, <2>3
<1>6. ASSUME NEW r \in Request, NEW t \in Tab, Click(t, r) PROVE Goal
  <2> DEFINE e == tabs[t].exc
             mount == tabs[t].mount
  <2>1. Begin(r, e, t, mount, 0) /\ tabs[t].kind # "none" /\ mount \in Nat
        /\ echoed' = echoed
    BY <1>1, <1>6 DEF Click, PageState
  <2>2. e \in plan.of /\ mount <= mounts
    BY <2>1 DEF PagesOK
  <2> QED BY <1>3, <2>1, <2>2, BegunTurns DEF Turn
<1>7. ASSUME NEW r \in Request, NEW e \in plan.of, PostEchoing(r, e) PROVE Goal
  <2>1. e \in DOMAIN Story
    BY <1>1 DEF Remaining
  <2>2. Story[e].corr \in Nat
    BY <2>1, StoryIs
  <2>3. Begin(r, e, 0, 0, Story[e].corr) /\ Story[e].corr \in echoed'
    BY <1>7 DEF PostEchoing
  <2>4. /\ pc' \in [Request -> Awaits] /\ hand' \in [Request -> Plea]
        /\ Began(r)
        /\ \A q \in Request : q # r => pc'[q] = pc[q] /\ hand'[q] = hand[q]
    <3> DEFINE c == Story[e].corr
    <3> HIDE DEF c
    <3>1. c \in Nat /\ c \in echoed' \cup {0} /\ Begin(r, e, 0, 0, c) /\ 0 <= mounts
      BY <2>2, <2>3 DEF c, Types
    <3> QED BY <3>1, BegunTurns
  <2> QED BY <1>3, <2>4 DEF Turn
<1>8. Crash => Goal
  <2> SUFFICES ASSUME Crash PROVE Goal
    OBVIOUS
  <2>1. /\ pc' = [r \in Request |-> "idle"] /\ hand' = [r \in Request |-> NoPlea] /\ Fault
    BY DEF Crash
  <2>2. ~plan'.calm
    BY <1>1, <2>1, FaultIs
  <2>3. /\ pc' \in [Request -> Awaits] /\ hand' \in [Request -> Plea]
        /\ \A r \in Request : pc'[r] = "idle" /\ hand'[r] = NoPlea
    BY <2>1, SomeAwaits, NoPleaIs
  <2> QED BY <2>2, <2>3 DEF Turn, Ended, Goal
<1>9. PipelineStep => Goal
  BY <1>2, PipelineLeaves
<1>10. Tick => Goal
  BY <1>2 DEF Tick, server
<1>11. ASSUME NEW t \in Tab, NEW kind, NEW e, Open(t, kind, e) PROVE Goal
  BY <1>2, <1>11 DEF Open, server
<1>12. ASSUME NEW t \in Tab, PageStep(t) PROVE Goal
  BY <1>2, <1>12 DEF PageStep, LoadRecord, LoadTrail, LoadLatest, ShowLatest, ShowList,
                     LoadFails, Loaded, server
<1>13. UNCHANGED vars => Goal
  BY <1>2 DEF vars, server
<1> QED BY <1>1, <1>4, <1>5, <1>6, <1>7, <1>8, <1>9, <1>10, <1>11, <1>12, <1>13, NextIs

\* What a step can mean for the investigations table.
OneMore(r) ==
  /\ pc[r] \in {"create", "fallback"} /\ records' = records \cup {RecordOf(r)}
  /\ Creatable(r)
  /\ Stored(r) \/ ~plan'.calm

LEMMA RecordsAre ==
  ASSUME Types, Filed, [Next]_vars
  PROVE  records' = records \/ \E r \in Request : OneMore(r)
<1>1. plan \in Remaining /\ hand \in [Request -> Plea]
  BY DEF Types
<1>2. ASSUME NEW r \in Request, ServerStep(r) PROVE records' = records \/ OneMore(r)
  <2>1. CASE Create(r)
    <3>1. /\ pc[r] \in {"create", "fallback"} /\ records' = records \cup {RecordOf(r)}
          /\ Creatable(r)
          /\ pc' = [pc EXCEPT ![r] = "append"]
          /\ hand'[r] \in Plea /\ hand'[r].id = NewId
          /\ SamePlea(hand'[r], hand[r]) /\ hand'[r].package = hand[r].package
      BY <2>1, NewIdIs, CreateIs
    <3>2. pc'[r] = "append"
      BY <3>1 DEF Types
    <3> QED BY <3>1, <3>2 DEF OneMore, Stored
  <2>2. CASE CreateFails(r)
    <3>1. ~plan'.calm
      BY SMTT(40), <1>1, <2>2, FaultIs DEF CreateFails
    <3> QED BY <2>2, <3>1, CreateFailsIs DEF OneMore
  <2>3. ASSUME ~Create(r), ~CreateFails(r) PROVE records' = records
    BY <1>2, <2>3 DEF ServerStep, ReadRetries, ReadAudit, Investigate, Abort,
                      StandInFails, recordInvestigationAudit, Fails, store
  <2> QED BY <2>1, <2>2, <2>3
<1>3. ASSUME NEW r \in Request, Respond(r) PROVE records' = records
  BY <1>3 DEF Respond, store
<1>4. ASSUME NEW r \in Request, NEW t \in Tab, Click(t, r) PROVE records' = records
  BY <1>4 DEF Click, Begin, store
<1>5. ASSUME NEW r \in Request, NEW e, PostEchoing(r, e) PROVE records' = records
  BY <1>5 DEF PostEchoing, Begin, store
<1>6. Crash => records' = records
  BY DEF Crash, store
<1>7. PipelineStep => records' = records
  BY PipelineLeaves
<1>8. Tick => records' = records
  BY DEF Tick, store
<1>9. ASSUME NEW t \in Tab, NEW kind, NEW e, Open(t, kind, e) PROVE records' = records
  BY <1>9 DEF Open, store
<1>10. ASSUME NEW t \in Tab, PageStep(t) PROVE records' = records
  BY <1>10 DEF PageStep, LoadRecord, LoadTrail, LoadLatest, ShowLatest, ShowList,
               LoadFails, Loaded, store
<1>11. UNCHANGED vars => records' = records
  BY DEF vars, store
<1> QED BY <1>1, <1>2, <1>3, <1>4, <1>5, <1>6, <1>7, <1>8, <1>9, <1>10, <1>11, NextIs

\* The trail only grows at its end: by rows of the pipeline and by those of
\* requests about to log what they filed.
NewRow(row) ==
  \/ row.type # "INVESTIGATION_RECORDED" /\ row.corr \in DOMAIN Hooks
  \/ \E r \in Request :
       pc[r] = "append" /\ row.about = hand[r].id /\ row.corr = hand[r].corr

TrailGrows ==
  /\ audit' \in Seq(AuditRow) /\ Len(audit) <= Len(audit')
  /\ \A i \in DOMAIN audit : audit'[i] = audit[i]
  /\ \A i \in Len(audit) + 1 .. Len(audit') :
       audit'[i].id = i /\ NewRow(audit'[i])

\* A row is over when an attempt that was about to end it has, and an attempt
\* comes to that point once its outcome is told.
ToldOf(h, types) ==
  \E row \in ToSet(audit') : row.hook = h /\ row.pay /\ row.type \in types

EndsTold ==
  /\ \A h \in DOMAIN Hooks : retry'[h].status \in Over =>
       \/ retry'[h].status = retry[h].status
       \/ \E a \in attempts : /\ a.step = "settle" /\ a.hook = h
                              /\ retry'[h].status = Ending(a.kind)
  /\ \A a \in attempts' : a.step = "settle" /\ Ending(a.kind) \in Over =>
       a \in attempts \/ ToldOf(a.hook, Telling(Ending(a.kind)))

LEMMA TrailKept ==
  ASSUME audit \in Seq(AuditRow), TrailGrows
  PROVE  \A row \in ToSet(audit) : row \in ToSet(audit')
<1>1. Len(audit) \in Nat /\ Len(audit') \in Nat /\ DOMAIN audit = 1..Len(audit)
      /\ DOMAIN audit' = 1..Len(audit') /\ Len(audit) <= Len(audit')
  BY DEF TrailGrows
<1>2. \A i \in DOMAIN audit : i \in DOMAIN audit' /\ audit'[i] = audit[i]
  BY <1>1 DEF TrailGrows
<1> QED BY <1>2 DEF ToSet

LEMMA TellIs ==
  ASSUME audit \in Seq(AuditRow), NEW types \in Seq(Tellable), NEW h \in DOMAIN Hooks,
         NEW at \in Nat, audit' = Appended(TellRows(types, h, at))
  PROVE  /\ TrailGrows
         /\ \A i \in 1..Len(types) :
              \E row \in ToSet(audit') : row.hook = h /\ row.pay /\ row.type = types[i]
<1> DEFINE rows == TellRows(types, h, at)
           n == Len(audit)
<1>1. n \in Nat /\ DOMAIN audit = 1..n
  OBVIOUS
<1>2. /\ rows \in Seq(Draft) /\ Len(rows) = Len(types) /\ audit' = Appended(rows)
      /\ \A i \in 1..Len(rows) :
           /\ rows[i].type = types[i] /\ rows[i].type # "INVESTIGATION_RECORDED"
           /\ rows[i].corr = h /\ rows[i].hook = h /\ rows[i].pay
  BY TellRowsAre
<1> HIDE DEF rows
<1>4. Len(rows) \in Nat
  BY <1>2
<1>5. /\ Appended(rows) \in Seq(AuditRow)
      /\ Len(Appended(rows)) = n + Len(rows)
      /\ \A i \in DOMAIN audit : Appended(rows)[i] = audit[i]
  BY <1>1, <1>2, AppendedIs
<1>6. \A i \in 1..Len(rows) :
        LET row == Appended(rows)[Len(audit) + i]
        IN  /\ row.id = Len(audit) + i /\ row.type = rows[i].type
            /\ row.hook = rows[i].hook /\ row.pay = rows[i].pay
            /\ row.corr = rows[i].corr /\ row.at = rows[i].at
            /\ row.about = rows[i].about
  BY <1>1, <1>2, AppendedIs
<1>7. \A i \in 1..Len(rows) :
        /\ audit'[n + i].id = n + i /\ audit'[n + i].type = rows[i].type
        /\ audit'[n + i].hook = h /\ audit'[n + i].pay /\ audit'[n + i].corr = h
  BY <1>2, <1>6, ZenonT(60)
<1>8. Len(audit') = n + Len(rows) /\ audit' \in Seq(AuditRow)
  BY <1>2, <1>5
<1>9. TrailGrows
  <2>1. ASSUME NEW i \in n + 1 .. Len(audit') PROVE audit'[i].id = i /\ NewRow(audit'[i])
    <3>1. i - n \in 1..Len(rows) /\ n + (i - n) = i
      BY <1>1, <1>4, <1>8
    <3>2. /\ audit'[i].id = i /\ audit'[i].type = rows[i - n].type /\ audit'[i].corr = h
      BY <1>7, <3>1
    <3> QED BY <1>2, <3>1, <3>2 DEF NewRow
  <2>2. n <= Len(audit') /\ \A i \in DOMAIN audit : audit'[i] = audit[i]
    BY <1>1, <1>2, <1>4, <1>5, <1>8
  <2> QED BY <1>8, <2>1, <2>2 DEF TrailGrows
<1>10. ASSUME NEW i \in 1..Len(types)
       PROVE  \E row \in ToSet(audit') : row.hook = h /\ row.pay /\ row.type = types[i]
  <2>1. n + i \in 1..Len(audit') /\ i \in 1..Len(rows)
    BY <1>1, <1>2, <1>4, <1>8
  <2>2. audit'[n + i] \in ToSet(audit')
    BY <1>8, <2>1, SMTT(40) DEF ToSet
  <2> QED BY <1>2, <1>7, <2>1, <2>2
<1> QED BY <1>9, <1>10

LEMMA PipelineTells ==
  ASSUME Types, PipelineStep
  PROVE  TrailGrows /\ EndsTold
<1>1. /\ plan \in Remaining /\ clock \in Nat \ {0} /\ audit \in Seq(AuditRow)
      /\ retry \in [DOMAIN Hooks -> RetryState] /\ attempts \in SUBSET Attempt
  BY DEF Types
<1> DEFINE Rows1 == \A h \in DOMAIN Hooks : retry'[h].status \in Over =>
                      \/ retry'[h].status = retry[h].status
                      \/ \E a \in attempts : /\ a.step = "settle" /\ a.hook = h
                                             /\ retry'[h].status = Ending(a.kind)
           Attempts1 == \A a \in attempts' : a.step = "settle" /\ Ending(a.kind) \in Over =>
                          a \in attempts \/ ToldOf(a.hook, Telling(Ending(a.kind)))
<1>2. retry' = retry => Rows1
  OBVIOUS
<1>3. attempts' = attempts => Attempts1
  OBVIOUS
<1>4. audit' = audit => TrailGrows
  <2>1. Len(audit) \in Nat
    BY <1>1
  <2> QED BY <1>1, <2>1 DEF TrailGrows
<1>5. ASSUME NEW h \in DOMAIN Hooks, NEW row, row.status \notin Over,
             retry' = [retry EXCEPT ![h] = row]
      PROVE  Rows1
  BY <1>1, <1>5
<1> SUFFICES TrailGrows /\ Rows1 /\ Attempts1
  BY DEF EndsTold
<1> HIDE DEF Rows1, Attempts1
<1>6. ASSUME NEW kind, NEW h, NEW lag, Deliver(kind, h, lag)
      PROVE  TrailGrows /\ Rows1 /\ Attempts1
  <2> DEFINE type == IF kind = "duplicate" THEN "WEBHOOK_DUPLICATE" ELSE "WEBHOOK_CONFLICT"
             at == clock - lag
             types == <<type>>
  <2>1. /\ Move(kind, h, lag) /\ retry' = retry /\ attempts' = attempts
        /\ audit' = Appended(TellRows(types, h, at))
    BY <1>6 DEF Deliver, Tell, TellRows
  <2>2. type \in Tellable
    BY DEF Tellable, AUDIT_EVENT_TYPES
  <2>3. h \in DOMAIN Hooks /\ at \in Nat
    <3>1. h \in DOMAIN Hooks /\ lag \in {0, 1}
      BY <1>1, <2>1, MovedIs
    <3> QED BY <1>1, <3>1
  <2> HIDE DEF type, at, Tellable
  <2>4. types \in Seq(Tellable)
    BY <2>2
  <2> HIDE DEF types
  <2>5. TrailGrows
    BY <1>1, <2>1, <2>3, <2>4, TellIs
  <2> QED BY <1>2, <1>3, <2>1, <2>5
<1>7. ASSUME NEW h \in DOMAIN Hooks, ensurePending(h)
      PROVE  TrailGrows /\ Rows1 /\ Attempts1
  <2>1. attempts' = attempts /\ audit' = audit
        /\ retry' = [retry EXCEPT ![h] = [retry[h] EXCEPT !.status = "PENDING"]]
    BY <1>7 DEF ensurePending
  <2>2. [retry[h] EXCEPT !.status = "PENDING"].status \notin Over
    <3>1. retry[h] \in RetryState
      BY <1>1
    <3> QED BY <3>1 DEF RetryState, Over
  <2> QED BY <1>3, <1>4, <1>5, <2>1, <2>2
<1>8. ASSUME NEW kind, NEW h, NEW lag, Claim(kind, h, lag)
      PROVE  TrailGrows /\ Rows1 /\ Attempts1
  <2>1. Move(kind, h, lag) /\ kind \in Ends /\ audit' = audit
        /\ retry' = [retry EXCEPT ![h] = [status |-> "PROCESSING", att |-> @.att + 1]]
    BY <1>8 DEF Claim
  <2>2. h \in DOMAIN Hooks
    BY <1>1, <2>1, MovedIs
  <2>3. Rows1
    <3> DEFINE row == [status |-> "PROCESSING", att |-> retry[h].att + 1]
    <3>1. row.status \notin Over /\ retry' = [retry EXCEPT ![h] = row]
      BY <2>1 DEF Over
    <3> HIDE DEF row
    <3> QED BY <1>5, <2>2, <3>1
  <2>4. Attempts1
    <3> DEFINE step == IF retry[h].att = 0 THEN AfterAnnounce(kind) ELSE "announce"
               a == [kind |-> kind, hook |-> h, at |-> clock - lag,
                     att |-> retry[h].att + 1, step |-> step]
    <3>1. attempts' = attempts \cup {a}
      BY <1>8 DEF Claim
    <3>2. a.step = "settle" => Ending(a.kind) \notin Over
      BY <2>1, StepsOfAttempts
    <3> HIDE DEF a
    <3> QED BY <3>1, <3>2 DEF Attempts1
  <2> QED BY <1>4, <2>1, <2>3, <2>4
<1>9. ASSUME NEW a \in attempts, Announce(a)
      PROVE  TrailGrows /\ Rows1 /\ Attempts1
  <2> DEFINE types == <<"RETRY_ATTEMPTED">>
  <2>1. /\ retry' = retry /\ Advance(a, AfterAnnounce(a.kind))
        /\ audit' = Appended(TellRows(types, a.hook, a.at))
    BY <1>9 DEF Announce, Tell, TellRows
  <2>2. a.kind \in Ends /\ a.hook \in DOMAIN Hooks /\ a.at \in Nat
    BY <1>1 DEF Attempt
  <2>3. types \in Seq(Tellable)
    BY DEF Tellable, AUDIT_EVENT_TYPES
  <2> HIDE DEF types
  <2>4. TrailGrows
    BY <1>1, <2>1, <2>2, <2>3, TellIs
  <2>5. \A b \in attempts' : b \in attempts \/
          (b.step = AfterAnnounce(a.kind) /\ b.kind = a.kind /\ b.hook = a.hook)
    BY <1>1, <2>1, <2>2, StepsOfAttempts, AdvancedIs
  <2>6. Attempts1
    BY <2>2, <2>5, StepsOfAttempts DEF Attempts1
  <2> QED BY <1>2, <2>1, <2>4, <2>6
<1>10. ASSUME NEW a \in attempts, TellOutcome(a)
       PROVE  TrailGrows /\ Rows1 /\ Attempts1
  <2> DEFINE types == Outcome(a)
  <2>1. /\ retry' = retry /\ Advance(a, AfterTell(a.kind))
        /\ a.kind = "found" => OnTrail(a.hook, {"PAYMENT_STATE_CHANGED", "WEBHOOK_DELAYED"})
        /\ audit' = Appended(TellRows(types, a.hook, a.at))
    BY <1>10 DEF TellOutcome, Tell, TellRows
  <2>2. a \in Attempt /\ a.kind \in Ends /\ a.hook \in DOMAIN Hooks /\ a.at \in Nat
    BY <1>1 DEF Attempt
  <2>3. types \in Seq(Tellable)
        /\ (Ending(a.kind) \in Over /\ a.kind # "found" =>
              \E i \in 1..Len(types) : types[i] \in Telling(Ending(a.kind)))
    BY <2>2, OutcomeIs
  <2> HIDE DEF types
  <2>4. /\ TrailGrows
        /\ \A i \in 1..Len(types) :
             \E row \in ToSet(audit') : row.hook = a.hook /\ row.pay /\ row.type = types[i]
    BY <1>1, <2>1, <2>2, <2>3, TellIs
  <2>5. \A b \in attempts' : b \in attempts \/
          (b.step = AfterTell(a.kind) /\ b.kind = a.kind /\ b.hook = a.hook)
    BY <1>1, <2>1, <2>2, StepsOfAttempts, AdvancedIs
  <2>6. Ending(a.kind) \in Over => ToldOf(a.hook, Telling(Ending(a.kind)))
    <3>1. CASE a.kind = "found"
      <4>1. {"PAYMENT_STATE_CHANGED", "WEBHOOK_DELAYED"} \subseteq Telling(Ending(a.kind))
        BY <3>1 DEF Telling, Ending
      <4>2. PICK row \in ToSet(audit) : /\ row.hook = a.hook /\ row.pay
                                        /\ row.type \in {"PAYMENT_STATE_CHANGED", "WEBHOOK_DELAYED"}
        BY <2>1, <3>1 DEF OnTrail
      <4>3. row \in ToSet(audit')
        BY <1>1, <2>4, <4>2, TrailKept
      <4> QED BY <4>1, <4>2, <4>3 DEF ToldOf
    <3>2. CASE a.kind # "found"
      BY <2>3, <2>4, <3>2 DEF ToldOf
    <3> QED BY <3>1, <3>2
  <2>7. Attempts1
    BY <2>5, <2>6 DEF Attempts1
  <2> QED BY <1>2, <2>1, <2>4, <2>7
<1>11. ASSUME NEW a \in attempts, Settle(a)
       PROVE  TrailGrows /\ Rows1 /\ Attempts1
  <2>1. /\ audit' = audit /\ retry' = [retry EXCEPT ![a.hook].status = Ending(a.kind)]
        /\ a.step = "settle" /\ Advance(a, AfterSettle(a.kind))
    BY <1>11 DEF Settle
  <2>2. a.kind \in Ends /\ a.hook \in DOMAIN Hooks
    BY <1>1 DEF Attempt
  <2>3. \A b \in attempts' : b \in attempts \/
          (b.step = AfterSettle(a.kind) /\ b.kind = a.kind /\ b.hook = a.hook)
    BY <1>1, <2>1, <2>2, StepsOfAttempts, AdvancedIs
  <2>4. Attempts1
    BY <2>2, <2>3, StepsOfAttempts DEF Attempts1
  <2>5. Rows1
    <3> DEFINE h == a.hook
               status == Ending(a.kind)
    <3>1. retry' = [retry EXCEPT ![h].status = status]
      BY <2>1
    <3>2. a.hook = h /\ status = Ending(a.kind) /\ h \in DOMAIN Hooks
      BY <2>2
    <3> HIDE DEF h, status
    <3>3. \A g \in DOMAIN Hooks : g # h => retry'[g] = retry[g]
      BY <1>1, <3>1
    <3>4. retry'[h].status = status
      <4>1. retry[h] \in RetryState
        BY <1>1, <3>2
      <4>2. retry'[h] = [retry[h] EXCEPT !.status = status]
        BY <1>1, <3>1, <3>2
      <4> QED BY <4>1, <4>2 DEF RetryState
    <3> QED BY <2>1, <3>2, <3>3, <3>4 DEF Rows1
  <2> QED BY <1>4, <2>1, <2>4, <2>5
<1> QED BY <1>6, <1>7, <1>8, <1>9, <1>10, <1>11 DEF PipelineStep

LEMMA LoggedTells ==
  ASSUME Types, NEW r \in Request, pc[r] = "append", audit' = Logged(r)
  PROVE  TrailGrows
<1> DEFINE n == Len(audit)
           row == audit'[n + 1]
<1>1. audit' \in Seq(AuditRow) /\ Len(audit') = n + 1
      /\ \A i \in DOMAIN audit : audit'[i] = audit[i]
  BY LoggedIs
<1>2. row.id = n + 1 /\ row.corr = hand[r].corr /\ row.about = hand[r].id
  BY LoggedIs
<1>3. n \in Nat
  BY DEF Types
<1>4. NewRow(row)
  BY <1>2 DEF NewRow
<1>5. \A i \in n + 1 .. n + 1 : i = n + 1
  BY <1>3
<1> HIDE DEF n
<1> QED BY <1>1, <1>2, <1>3, <1>4, <1>5 DEF TrailGrows, n

LEMMA TrailIs ==
  ASSUME Types, [Next]_vars
  PROVE  TrailGrows /\ EndsTold
<1>1. plan \in Remaining /\ audit \in Seq(AuditRow) /\ Len(audit) \in Nat
  BY DEF Types
<1>2. audit' = audit => TrailGrows
  BY <1>1 DEF TrailGrows
<1>3. retry' = retry /\ attempts' = attempts => EndsTold
  BY DEF EndsTold
<1>4. PipelineStep => TrailGrows /\ EndsTold
  BY PipelineTells
<1>5. Tick => TrailGrows /\ EndsTold
  BY <1>2, <1>3 DEF Tick, store
<1>6. ASSUME NEW r \in Request, ServerStep(r) PROVE TrailGrows /\ EndsTold
  <2>1. audit' = audit \/ (pc[r] = "append" /\ audit' = Logged(r))
    <3>1. recordInvestigationAudit(r) \/ Fails(r)
            => audit' = audit \/ (pc[r] = "append" /\ audit' = Logged(r))
      BY SMTT(40) DEF recordInvestigationAudit, Fails
    <3>2. ReadRetries(r) \/ ReadAudit(r) \/ Investigate(r) \/ Abort(r) \/ Create(r) \/ CreateFails(r)
          \/ StandInFails(r)
            => audit' = audit
      BY ZenonT(60) DEF ReadRetries, ReadAudit, Investigate, Abort, Create, CreateFails,
                         StandInFails, store
    <3> QED BY <1>6, <3>1, <3>2 DEF ServerStep
  <2>2. retry' = retry /\ attempts' = attempts
    BY <1>6 DEF ServerStep, ReadRetries, ReadAudit, Investigate, Abort, Create, CreateFails,
                 StandInFails, recordInvestigationAudit, Fails, store
  <2> QED BY <1>2, <1>3, <2>1, <2>2, LoggedTells
<1>7. ASSUME NEW r \in Request, Respond(r) PROVE TrailGrows /\ EndsTold
  BY <1>7, <1>2, <1>3 DEF Respond, store
<1>8. ASSUME NEW r \in Request, NEW t \in Tab, Click(t, r) PROVE TrailGrows /\ EndsTold
  BY <1>8, <1>2, <1>3 DEF Click, Begin, store
<1>9. ASSUME NEW r \in Request, NEW e, PostEchoing(r, e) PROVE TrailGrows /\ EndsTold
  BY <1>9, <1>2, <1>3 DEF PostEchoing, Begin, store
<1>10. Crash => TrailGrows /\ EndsTold
  BY <1>2, <1>3 DEF Crash, store
<1>11. ASSUME NEW t \in Tab, NEW kind, NEW e, Open(t, kind, e) PROVE TrailGrows /\ EndsTold
  BY <1>11, <1>2, <1>3 DEF Open, store
<1>12. ASSUME NEW t \in Tab, PageStep(t) PROVE TrailGrows /\ EndsTold
  BY <1>12, <1>2, <1>3 DEF PageStep, LoadRecord, LoadTrail, LoadLatest, ShowLatest, ShowList,
                           LoadFails, Loaded, store
<1>13. UNCHANGED vars => TrailGrows /\ EndsTold
  BY <1>2, <1>3 DEF vars, store
<1> QED BY <1>1, <1>4, <1>5, <1>6, <1>7, <1>8, <1>9, <1>10, <1>11, <1>12, <1>13, NextIs

-----------------------------------------------------------------------------
(* Tabs *)

\* What a step can mean for one page.
Opened(t) ==
  /\ tabs'[t].kind \in {"exception", "incident"} /\ tabs'[t].exc \in plan.of
  /\ tabs'[t] = Page(tabs'[t].kind, tabs'[t].exc, mounts + 1)
  /\ mounts' = mounts + 1 /\ pc' = pc /\ hand' = hand /\ records' = records

\* The button is used: one more request is at work on the page.
Used(t) ==
  /\ tabs[t].kind # "none" /\ ~tabs[t].busy
  /\ tabs'[t] = [tabs[t] EXCEPT !.locked = TRUE, !.busy = TRUE]
  /\ \E r \in Request :
       /\ Began(r) /\ hand'[r].exc = tabs[t].exc /\ hand'[r].tab = t
       /\ hand'[r].mount = tabs[t].mount
       /\ \A q \in Request : q # r => pc'[q] = pc[q] /\ hand'[q] = hand[q]

\* The request at work on the page is answered.
Settles(t) ==
  \E r \in Request :
    /\ pc[r] = "answer" /\ pc'[r] = "idle" /\ OnPage(r, t)
    /\ \A q \in Request : q # r => pc'[q] = pc[q] /\ hand'[q] = hand[q]
    /\ tabs'[t] = [tabs[t] EXCEPT !.busy = FALSE, !.shown = tabs'[t].shown]
    /\ \/ tabs'[t].shown = tabs[t].shown
       \/ /\ hand[r].id # 0
          /\ \/ tabs'[t].shown = <<hand[r].id>>
             \/ tabs'[t].shown = <<hand[r].id>> \o tabs[t].shown

\* All requests broke off.
BrokenOff(t) ==
  /\ \A r \in Request : pc'[r] = "idle"
  /\ tabs'[t] = [tabs[t] EXCEPT !.busy = FALSE]

\* The page has read or displays something of its exception.
SameView(p, q) ==
  /\ p.kind = q.kind /\ p.exc = q.exc /\ p.mount = q.mount /\ p.locked = q.locked
  /\ p.busy = q.busy

Looked(t) ==
  /\ tabs'[t] \in PageState /\ SameView(tabs'[t], tabs[t])
  /\ tabs[t].step \notin {"done", "failed"}
  /\ tabs'[t].held = tabs[t].held \/ tabs'[t].held = 0 \/ IsOf(tabs'[t].held, tabs[t].exc)
  /\ \/ tabs'[t].timeline.latest = tabs[t].timeline.latest
     \/ tabs'[t].timeline.latest = 0 \/ IsOf(tabs'[t].timeline.latest, tabs[t].exc)
  /\ \/ tabs'[t].timeline.rows = tabs[t].timeline.rows
     \/ tabs'[t].timeline.rows = Len(audit)
  /\ \/ tabs'[t].shown = tabs[t].shown
     \/ /\ ~tabs[t].locked /\ tabs'[t].step = "done"
        /\ \A i \in DOMAIN tabs'[t].shown : IsOf(tabs'[t].shown[i], tabs[t].exc)

LEMMA LookedIs ==
  ASSUME Types, Filed, PagesOK, NEW t \in Tab, PageStep(t)
  PROVE  Looked(t) /\ tabs' = [tabs EXCEPT ![t] = tabs'[t]]
<1> DEFINE p == tabs[t]
           e == p.exc
<1>1. p \in PageState /\ tabs \in [Tab -> PageState] /\ Len(audit) \in Nat
  BY DEF Types
<1>2. /\ {"record", "trail", "latest", "show", "list", "done", "failed"} = Steps
      /\ p.held \in Nat /\ p.shown \in Seq(Nat)
      /\ p.timeline \in [rows : Nat, latest : Nat] /\ p.step \in Steps
  BY <1>1 DEF PageState, Steps
<1>3. /\ p.held # 0 => IsOf(p.held, e)
  BY DEF PagesOK
<1> HIDE DEF p
<1>4. ASSUME NEW s \in Steps PROVE [p EXCEPT !.step = s] \in PageState
  BY <1>1, <1>4 DEF PageState
<1> DEFINE After1(q) == tabs'[t] = q /\ tabs' = [tabs EXCEPT ![t] = tabs'[t]]
<1>5. ASSUME NEW q, tabs' = [tabs EXCEPT ![t] = q] PROVE After1(q)
  BY <1>1, <1>5
<1> HIDE DEF After1
<1>6. CASE LoadRecord(t)
  <2> DEFINE s == IF p.kind = "incident" THEN "trail" ELSE "latest"
             q == [p EXCEPT !.step = s]
  <2>1. p.step = "record" /\ tabs' = [tabs EXCEPT ![t] = q]
    BY <1>6 DEF LoadRecord, Loaded, p
  <2>2. s \in Steps
    BY <1>2
  <2> HIDE DEF s
  <2>3. /\ q \in PageState /\ SameView(q, p) /\ q.held = p.held /\ q.timeline = p.timeline
        /\ q.shown = p.shown
    BY <1>1, <1>4, <2>2 DEF PageState, SameView
  <2> HIDE DEF q
  <2>4. After1(q)
    BY <1>5, <2>1
  <2> QED BY <2>1, <2>3, <2>4 DEF Looked, After1, p
<1>7. CASE LoadTrail(t)
  <2> DEFINE new == [p.timeline EXCEPT !.rows = Len(audit)]
             q == [p EXCEPT !.step = "latest", !.timeline = new]
  <2>1. p.step = "trail"
        /\ tabs' = [tabs EXCEPT ![t] = [p EXCEPT !.step = "latest", !.timeline.rows = Len(audit)]]
    BY <1>7, Zenon DEF LoadTrail, Loaded, p
  <2>2. tabs' = [tabs EXCEPT ![t] = q]
    BY <2>1, Zenon
  <2>3. new \in [rows : Nat, latest : Nat] /\ new.rows = Len(audit) /\ new.latest = p.timeline.latest
    BY <1>1, <1>2
  <2> HIDE DEF new
  <2>4. /\ q \in PageState /\ SameView(q, p) /\ q.held = p.held /\ q.timeline = new
        /\ q.shown = p.shown
    BY <1>1, <1>2, <2>3 DEF PageState, SameView
  <2> HIDE DEF q
  <2>5. After1(q)
    BY <1>5, <2>2
  <2> QED BY <2>1, <2>3, <2>4, <2>5 DEF Looked, After1, p
<1>8. CASE LoadLatest(t)
  <2> DEFINE id == findLatestByExceptionId(e).id
  <2>1. p.step = "latest"
    BY <1>8 DEF LoadLatest, p
  <2>2. id \in Nat /\ (id # 0 => IsOf(id, e))
    BY LatestIs
  <2>3. CASE p.kind = "incident"
    <3> DEFINE new == [p.timeline EXCEPT !.latest = id]
               q == [p EXCEPT !.step = "list", !.timeline = new]
    <3>1. tabs' = [tabs EXCEPT ![t] = [p EXCEPT !.step = "list", !.timeline.latest = id]]
      BY <1>8, <2>3, Zenon DEF LoadLatest, Loaded, p
    <3>2. tabs' = [tabs EXCEPT ![t] = q]
      BY <3>1, Zenon
    <3> HIDE DEF id
    <3>3. new \in [rows : Nat, latest : Nat] /\ new.rows = p.timeline.rows /\ new.latest = id
      BY <1>1, <1>2, <2>2
    <3> HIDE DEF new
    <3>4. /\ q \in PageState /\ SameView(q, p) /\ q.held = p.held /\ q.timeline = new
          /\ q.shown = p.shown
      BY <1>1, <1>2, <3>3 DEF PageState, SameView
    <3> HIDE DEF q
    <3>5. After1(q)
      BY <1>5, <3>2
    <3> QED BY <2>1, <2>2, <3>3, <3>4, <3>5 DEF Looked, After1, p
  <2>4. CASE p.kind # "incident"
    <3> DEFINE q == [p EXCEPT !.step = "show", !.held = id]
    <3>1. tabs' = [tabs EXCEPT ![t] = q]
      BY <1>8, <2>4, Zenon DEF LoadLatest, Loaded, p
    <3> HIDE DEF id
    <3>4. /\ q \in PageState /\ SameView(q, p) /\ q.held = id /\ q.timeline = p.timeline
          /\ q.shown = p.shown
      BY <1>1, <1>2, <2>2 DEF PageState, SameView
    <3> HIDE DEF q
    <3>5. After1(q)
      BY <1>5, <3>1
    <3> QED BY <2>1, <2>2, <3>4, <3>5 DEF Looked, After1, p
  <2> QED BY <2>3, <2>4
<1>9. CASE ShowLatest(t)
  <2> DEFINE rows == display(t, IF p.held = 0 THEN << >> ELSE <<p.held>>)
             q == [p EXCEPT !.step = "done", !.held = 0, !.shown = rows]
  <2>1. p.step = "show" /\ tabs' = [tabs EXCEPT ![t] = q]
    BY <1>9, Zenon DEF ShowLatest, Loaded, p
  <2>2. \/ rows = p.shown
        \/ ~p.locked /\ rows = << >>
        \/ ~p.locked /\ rows = <<p.held>> /\ p.held # 0
    BY DEF display, p
  <2>3. rows \in Seq(Nat) /\ (rows = p.shown \/ (~p.locked /\ \A i \in DOMAIN rows : IsOf(rows[i], e)))
    <3> HIDE DEF rows
    <3> DEFINE one == <<p.held>>
    <3>0. one \in Seq(Nat) /\ DOMAIN one = {1} /\ one[1] = p.held
      BY <1>2
    <3> HIDE DEF one
    <3>2. CASE rows = << >>
      BY <3>2, <2>2
    <3>3. CASE ~p.locked /\ rows = one /\ p.held # 0
      <4>1. \A i \in DOMAIN rows : rows[i] = p.held
        BY <3>0, <3>3
      <4> QED BY <1>3, <3>0, <3>3, <4>1
    <3>4. CASE rows = p.shown
      BY <1>2, <3>4
    <3>5. \/ rows = p.shown
          \/ ~p.locked /\ rows = << >>
          \/ ~p.locked /\ rows = one /\ p.held # 0
      BY <2>2 DEF one
    <3> QED BY <3>2, <3>3, <3>4, <3>5
  <2> HIDE DEF rows
  <2>4. /\ q \in PageState /\ SameView(q, p) /\ q.held = 0 /\ q.timeline = p.timeline
        /\ q.shown = rows /\ q.step = "done"
    BY <1>1, <1>2, <2>3 DEF PageState, SameView
  <2> HIDE DEF q
  <2>5. After1(q)
    BY <1>5, <2>1
  <2> QED BY <2>1, <2>3, <2>4, <2>5 DEF Looked, After1, p
<1>10. CASE ShowList(t)
  <2> DEFINE n == Cardinality(About(e))
             ids == [k \in 1..n |-> listByException(e)[k].id]
             rows == display(t, ids)
             q == [p EXCEPT !.step = "done", !.shown = rows]
  <2>1. p.step = "list" /\ tabs' = [tabs EXCEPT ![t] = q]
    BY <1>10, Zenon DEF ShowList, Loaded, p
  <2>2. rows = p.shown \/ (~p.locked /\ rows = ids)
    <3> HIDE DEF ids
    <3> QED BY DEF display, p
  <2>3. n \in Nat /\ \A k \in 1..n : listByException(e)[k] \in About(e)
    BY ListedIs
  <2>4. \A x \in About(e) : x.id \in Nat /\ IsOf(x.id, e)
    <3>1. records \in SUBSET Investigation
      BY DEF Types
    <3> QED BY <3>1 DEF About, Investigation, IsOf
  <2>5. ids \in Seq(Nat) /\ \A i \in DOMAIN ids : IsOf(ids[i], e)
    <3>1. ids \in [1..n -> Nat]
      BY <2>3, <2>4
    <3>2. \A i \in 1..n : IsOf(ids[i], e)
      BY <2>3, <2>4
    <3> HIDE DEF n
    <3>3. DOMAIN ids = 1..n
      OBVIOUS
    <3> HIDE DEF ids
    <3> QED BY <2>3, <3>1, <3>2, <3>3
  <2> HIDE DEF ids
  <2>6. rows \in Seq(Nat) /\ (rows = p.shown \/ (~p.locked /\ \A i \in DOMAIN rows : IsOf(rows[i], e)))
    BY <1>2, <2>2, <2>5
  <2> HIDE DEF rows
  <2>7. /\ q \in PageState /\ SameView(q, p) /\ q.held = p.held /\ q.timeline = p.timeline
        /\ q.shown = rows /\ q.step = "done"
    BY <1>1, <1>2, <2>6 DEF PageState, SameView
  <2> HIDE DEF q
  <2>8. After1(q)
    BY <1>5, <2>1
  <2> QED BY <2>1, <2>6, <2>7, <2>8 DEF Looked, After1, p
<1>11. CASE LoadFails(t)
  <2> DEFINE q == [p EXCEPT !.step = "failed"]
  <2>1. p.step \notin {"done", "failed"} /\ tabs' = [tabs EXCEPT ![t] = q]
    BY <1>11, Zenon DEF LoadFails, p
  <2>3. /\ q \in PageState /\ SameView(q, p) /\ q.held = p.held /\ q.timeline = p.timeline
        /\ q.shown = p.shown
    BY <1>1, <1>2 DEF PageState, SameView
  <2> HIDE DEF q
  <2>4. After1(q)
    BY <1>5, <2>1
  <2> QED BY <2>1, <2>3, <2>4 DEF Looked, After1, p
<1> QED BY <1>6, <1>7, <1>8, <1>9, <1>10, <1>11 DEF PageStep

\* Nothing begins on the page, and it stays as it is.
NoneBegins(t) ==
  \A r \in Request : pc'[r] # "idle" /\ hand'[r].tab = t =>
    pc[r] # "idle" /\ SamePlea(hand'[r], hand[r])

Stays(t) == tabs'[t] = tabs[t] /\ NoneBegins(t)

TabTurn(t) ==
  \/ Stays(t) \/ Opened(t) \/ Used(t) \/ Settles(t) \/ BrokenOff(t)
  \/ /\ pc' = pc /\ hand' = hand /\ records' = records /\ audit' = audit
     /\ Looked(t)

LEMMA TurnKeeps ==
  ASSUME NEW r \in Request, Turn(r), pc[r] # "idle", pc'[r] # "idle"
  PROVE  SamePlea(hand'[r], hand[r])
BY DEF Turn, Began, ReadOne, ReadTrail, Answered, Refused, Stored, PassedOn, Failed, Ended, SameButPackage,
       SamePlea

LEMMA RespondTabs ==
  ASSUME Types, Filed, NEW r \in Request, Respond(r)
  PROVE  /\ tabs' \in [Tab -> PageState]
         /\ \A t \in Tab : TabTurn(t)
<1> DEFINE t0 == hand[r].tab
           id == hand[r].id
<1>1. /\ pc[r] = "answer" /\ pc' = [pc EXCEPT ![r] = "idle"]
      /\ hand' = [hand EXCEPT ![r] = NoPlea]
      /\ tabs' = Received(r, id)
  BY DEF Respond, Goto
<1>2. /\ tabs \in [Tab -> PageState] /\ hand[r] \in Plea
      /\ pc \in [Request -> Awaits] /\ hand \in [Request -> Plea]
  BY DEF Types
<1>3. /\ pc'[r] = "idle"
      /\ \A q \in Request : q # r => pc'[q] = pc[q] /\ hand'[q] = hand[q]
  BY <1>1, OthersStay, SomeAwaits, NoPleaIs
<1>4. \A t : NoneBegins(t)
  BY <1>3 DEF NoneBegins, SamePlea
<1>5. t0 \in Tab \cup {0} /\ id \in Nat
  BY <1>2 DEF Plea
<1>6. CASE t0 = 0 \/ tabs[t0].mount # hand[r].mount
  <2>1. tabs' = tabs
    BY <1>1, <1>6 DEF Received
  <2> QED BY <1>2, <1>4, <2>1 DEF TabTurn, Stays
<1>7. CASE ~(t0 = 0 \/ tabs[t0].mount # hand[r].mount)
  <2> DEFINE p == tabs[t0]
             rows == IF id = 0 THEN p.shown
                     ELSE IF p.kind = "exception" THEN <<id>> ELSE <<id>> \o p.shown
             q == [p EXCEPT !.busy = FALSE, !.shown = rows]
  <2>1. t0 \in Tab /\ p \in PageState
    BY <1>2, <1>5, <1>7
  <2>2. tabs' = [tabs EXCEPT ![t0].busy = FALSE, ![t0].shown = rows]
    BY <1>1, <1>7, Zenon DEF Received
  <2> DEFINE one == <<id>>
  <2>3. p.shown \in Seq(Nat) /\ one \in Seq(Nat)
    BY <1>5, <2>1 DEF PageState
  <2>4. \/ rows = p.shown
        \/ id # 0 /\ rows = one
        \/ id # 0 /\ rows = one \o p.shown
    OBVIOUS
  <2>5. rows \in Seq(Nat)
    <3> HIDE DEF rows, one, p
    <3> QED BY <2>3, <2>4, ConcatProperties
  <2>6. tabs' = [tabs EXCEPT ![t0] = q]
    <3> HIDE DEF rows
    <3> QED BY <2>2, <2>1, <1>2
  <2> HIDE DEF rows
  <2>7. q \in PageState /\ q.shown = rows
    BY <2>1, <2>5 DEF PageState
  <2>8. /\ tabs' \in [Tab -> PageState] /\ tabs'[t0] = q
        /\ \A t \in Tab : t # t0 => tabs'[t] = tabs[t]
    <3> HIDE DEF q
    <3> QED BY <1>2, <2>1, <2>6, <2>7
  <2>9. Settles(t0)
    <3>1. OnPage(r, t0)
      BY <1>1, <1>7 DEF OnPage
    <3>2. tabs'[t0] = [tabs[t0] EXCEPT !.busy = FALSE, !.shown = tabs'[t0].shown]
      BY <2>7, <2>8
    <3>3. tabs'[t0].shown = rows
      BY <2>7, <2>8
    <3> HIDE DEF q
    <3> QED BY <1>1, <1>3, <2>4, <3>1, <3>2, <3>3 DEF Settles
  <2> QED BY <1>4, <2>8, <2>9 DEF TabTurn, Stays
<1> QED BY <1>6, <1>7

LEMMA TabsAre ==
  ASSUME Types, Filed, PagesOK, [Next]_vars
  PROVE  /\ tabs' \in [Tab -> PageState]
         /\ \A t \in Tab : TabTurn(t)
<1>1. /\ plan \in Remaining /\ tabs \in [Tab -> PageState] /\ mounts \in Nat
      /\ pc \in [Request -> Awaits] /\ hand \in [Request -> Plea]
  BY DEF Types
<1> DEFINE Goal == tabs' \in [Tab -> PageState] /\ \A t \in Tab : TabTurn(t)
<1> SUFFICES Goal
  OBVIOUS
<1>2. pc' = pc /\ hand' = hand => \A t : NoneBegins(t)
  BY DEF NoneBegins, SamePlea
<1>3. tabs' = tabs /\ (\A t \in Tab : NoneBegins(t)) => Goal
  BY <1>1 DEF TabTurn, Stays
<1>4. ASSUME NEW t \in Tab, tabs' = [tabs EXCEPT ![t] = tabs'[t]], tabs'[t] \in PageState,
             TabTurn(t), \A u \in Tab : u # t => NoneBegins(u)
      PROVE  Goal
  <2>1. tabs' \in [Tab -> PageState] /\ \A u \in Tab : u # t => tabs'[u] = tabs[u]
    <3> DEFINE q == tabs'[t]
    <3>1. q \in PageState /\ tabs' = [tabs EXCEPT ![t] = q]
      BY <1>4
    <3> HIDE DEF q
    <3> QED BY <1>1, <3>1
  <2> QED BY <1>4, <2>1 DEF TabTurn, Stays
<1> HIDE DEF Goal
<1>5. PipelineStep => Goal
  BY <1>2, <1>3, PipelineLeaves
<1>6. Tick => Goal
  BY <1>2, <1>3 DEF Tick, pages, server
<1>7. ASSUME NEW r \in Request, ServerStep(r) PROVE Goal
  <2>1. tabs' = tabs /\ pc[r] # "idle"
    BY <1>7 DEF ServerStep, ReadRetries, ReadAudit, Investigate, Abort, Create, CreateFails,
                StandInFails, recordInvestigationAudit, Fails, pages
  <2>2. /\ Turn(r)
        /\ \A q \in Request : q # r => pc'[q] = pc[q] /\ hand'[q] = hand[q]
    BY <1>7, ServerTurns
  <2>3. \A t \in Tab : NoneBegins(t)
    <3>1. pc'[r] # "idle" => SamePlea(hand'[r], hand[r])
      BY <2>1, <2>2, TurnKeeps
    <3> QED BY <2>1, <2>2, <3>1 DEF NoneBegins, SamePlea
  <2> QED BY SMTT(40), <1>3, <2>1, <2>3
<1>8. ASSUME NEW r \in Request, Respond(r) PROVE Goal
  BY <1>8, RespondTabs DEF Goal
<1>9. ASSUME NEW r \in Request, NEW t \in Tab, Click(t, r) PROVE Goal
  <2> DEFINE p == tabs[t]
             q == [p EXCEPT !.locked = TRUE, !.busy = TRUE]
             mount == p.mount
             e == p.exc
  <2>1. Begin(r, e, t, mount, 0) /\ p.kind # "none" /\ mount \in Nat /\ ~p.busy
        /\ p \in PageState
    BY <1>1, <1>9 DEF Click, PageState
  <2>2. tabs' = [tabs EXCEPT ![t].locked = TRUE, ![t].busy = TRUE]
    BY <1>9 DEF Click
  <2>3. tabs' = [tabs EXCEPT ![t] = q]
    BY <1>1, <2>2
  <2>4. q \in PageState
    BY <2>1 DEF PageState
  <2>5. tabs'[t] = q /\ tabs' = [tabs EXCEPT ![t] = tabs'[t]]
    <3> HIDE DEF q
    <3> QED BY <1>1, <2>3
  <2>6. e \in plan.of /\ mount <= mounts
    BY <2>1 DEF PagesOK
  <2> HIDE DEF e, mount
  <2>7. /\ Began(r) /\ hand'[r].exc = e /\ hand'[r].tab = t /\ hand'[r].mount = mount
        /\ \A i \in Request : i # r => pc'[i] = pc[i] /\ hand'[i] = hand[i]
    BY <2>1, <2>6, BegunTurns
  <2>8. Used(t)
    BY <2>1, <2>5, <2>7 DEF Used, e, mount
  <2>9. \A u \in Tab : u # t => NoneBegins(u)
    BY <2>7 DEF NoneBegins, SamePlea
  <2> HIDE DEF q
  <2> QED BY <1>4, <2>4, <2>5, <2>8, <2>9 DEF TabTurn
<1>10. ASSUME NEW r \in Request, NEW e \in plan.of, PostEchoing(r, e) PROVE Goal
  <2> DEFINE c == Story[e].corr
  <2>1. e \in DOMAIN Story
    BY <1>1 DEF Remaining
  <2>2. c \in Nat /\ Begin(r, e, 0, 0, c) /\ c \in echoed' \cup {0} /\ tabs' = tabs
        /\ 0 <= mounts
    BY <1>1, <2>1, <1>10, StoryIs DEF PostEchoing
  <2> HIDE DEF c
  <2>3. /\ hand'[r].tab = 0
        /\ \A q \in Request : q # r => pc'[q] = pc[q] /\ hand'[q] = hand[q]
    BY <2>2, BegunTurns
  <2>4. \A t \in Tab : NoneBegins(t)
    BY <2>3, HooksAre DEF NoneBegins, SamePlea
  <2> QED BY <1>3, <2>2, <2>4
<1>11. Crash => Goal
  <2> SUFFICES ASSUME Crash PROVE Goal
    OBVIOUS
  <2>1. /\ tabs' = [t \in Tab |->
               IF Broken(t) THEN [tabs[t] EXCEPT !.busy = FALSE] ELSE tabs[t]]
        /\ pc' = [r \in Request |-> "idle"]
    BY DEF Crash
  <2>2. \A t \in Tab : [tabs[t] EXCEPT !.busy = FALSE] \in PageState /\ tabs[t] \in PageState
    BY <1>1 DEF PageState
  <2>3. tabs' \in [Tab -> PageState]
    BY <2>1, <2>2
  <2>4. ASSUME NEW t \in Tab PROVE TabTurn(t)
    <3>1. \A r \in Request : pc'[r] = "idle"
      BY <2>1
    <3>2. tabs'[t] = [tabs[t] EXCEPT !.busy = FALSE] \/ tabs'[t] = tabs[t]
      BY <2>1
    <3> QED BY <3>1, <3>2 DEF TabTurn, BrokenOff, Stays, NoneBegins
  <2> QED BY <2>3, <2>4 DEF Goal
<1>12. ASSUME NEW t \in Tab, NEW kind \in plan.pages, NEW e \in plan.of, Open(t, kind, e)
       PROVE  Goal
  <2> DEFINE q == Page(kind, e, mounts + 1)
  <2>1. tabs' = [tabs EXCEPT ![t] = q] /\ mounts' = mounts + 1 /\ pc' = pc /\ hand' = hand
        /\ records' = records
    BY <1>12 DEF Open, Mounted, server, store
  <2>2. kind \in {"exception", "incident"} /\ e \in DOMAIN Story
    BY <1>1 DEF Remaining
  <2>3. q \in PageState /\ q.kind = kind /\ q.exc = e
    <3>1. << >> \in Seq(Nat) /\ "record" \in Steps /\ mounts + 1 \in Nat
      BY <1>1 DEF Steps
    <3>2. NoTimeline \in [rows : Nat, latest : Nat]
      BY DEF NoTimeline
    <3> QED BY <2>2, <3>1, <3>2 DEF Page, PageState
  <2> HIDE DEF q
  <2>4. tabs'[t] = q /\ tabs' = [tabs EXCEPT ![t] = tabs'[t]]
    BY <1>1, <2>1
  <2>5. Opened(t)
    BY <2>1, <2>2, <2>3, <2>4 DEF Opened, q
  <2> QED BY <1>2, <1>4, <2>1, <2>3, <2>4, <2>5 DEF TabTurn
<1>13. ASSUME NEW t \in Tab, PageStep(t) PROVE Goal
  <2>1. Looked(t) /\ tabs' = [tabs EXCEPT ![t] = tabs'[t]]
    BY <1>13, LookedIs
  <2>2. pc' = pc /\ hand' = hand /\ records' = records /\ audit' = audit
    BY <1>13 DEF PageStep, LoadRecord, LoadTrail, LoadLatest, ShowLatest, ShowList, LoadFails,
                 Loaded, store, server
  <2>3. tabs'[t] \in PageState
    BY <2>1 DEF Looked
  <2> QED BY <1>2, <1>4, <2>1, <2>2, <2>3 DEF TabTurn
<1>14. UNCHANGED vars => Goal
  BY <1>2, <1>3 DEF vars, pages, server
<1> QED BY <1>1, <1>5, <1>6, <1>7, <1>8, <1>9, <1>10, <1>11, <1>12, <1>13, <1>14, NextIs

-----------------------------------------------------------------------------
(* Types, Filed and Working are kept *)

LEMMA OneMoreIs ==
  ASSUME Types, Filed, NEW r \in Request, OneMore(r)
  PROVE  /\ records' = records \cup {RecordOf(r)} /\ RecordOf(r) \in Investigation
         /\ RecordOf(r).id = NewId /\ RecordOf(r).exc = hand[r].exc
         /\ RecordOf(r).at = hand[r].at /\ RecordOf(r).package = hand[r].package
         /\ RecordOf(r) \notin records
<1>1. NewId \in Nat /\ NewId \notin Ids
  BY NewIdIs
<1>2. pc[r] \in {"create", "fallback"} /\ records' = records \cup {RecordOf(r)}
  BY DEF OneMore
<1>3. /\ RecordOf(r) \in Investigation
      /\ RecordOf(r).id = NewId /\ RecordOf(r).exc = hand[r].exc
      /\ RecordOf(r).at = hand[r].at /\ RecordOf(r).package = hand[r].package
  BY <1>1, <1>2, RecordIs
<1>4. RecordOf(r) \notin records
  BY <1>1, <1>3 DEF Ids
<1> QED BY <1>2, <1>3, <1>4

LEMMA TypesKept ==
  ASSUME Types, Filed, PagesOK, [Next]_vars
  PROVE  Types'
<1>1. Onward
  BY OnwardIs
<1>2. TrailGrows
  BY TrailIs
<1>3. /\ pc' \in [Request -> Awaits] /\ hand' \in [Request -> Plea]
      /\ \A r \in Request : Turn(r)
  BY TurnsAre
<1>4. tabs' \in [Tab -> PageState]
  BY TabsAre
<1>5. records' \in SUBSET Investigation
  <2>1. records \in SUBSET Investigation
    BY DEF Types
  <2> QED BY <2>1, RecordsAre, OneMoreIs
<1>6. ASSUME NEW r \in Request
      PROVE  /\ pc'[r] # "idle" => hand'[r].exc \in plan'.of /\ hand'[r].package \in Package
             /\ pc'[r] = "create" => hand'[r].answer \in Reply /\ hand'[r].by \in Investigators
  <2>1. /\ pc[r] # "idle" => hand[r].exc \in plan.of /\ hand[r].package \in Package
        /\ pc[r] = "create" => hand[r].answer \in Reply /\ hand[r].by \in Investigators
    BY DEF Types
  <2>2. plan'.of = plan.of /\ plan.of \subseteq DOMAIN Story
    BY <1>1 DEF Onward, Types, Remaining
  <2>3. CASE Began(r)
    <3>1. hand'[r].exc \in plan.of /\ hand'[r].exc \in DOMAIN Story
          /\ hand'[r].package = EvidenceOf(hand'[r].exc) /\ pc'[r] = "retries"
      BY <2>2, <2>3 DEF Began
    <3>2. hand'[r].package \in Package
      <4> DEFINE e == hand'[r].exc
      <4>1. e \in DOMAIN Story /\ hand'[r].package = EvidenceOf(e)
        BY <3>1
      <4> HIDE DEF e
      <4> QED BY <4>1, PackageIs
    <3> QED BY <2>2, <3>1, <3>2
  <2>4. CASE ReadOne(r) \/ ReadTrail(r)
    BY <2>1, <2>2, <2>4 DEF ReadOne, ReadTrail, SameButPackage, SamePlea
  <2>5. CASE Answered(r) \/ Refused(r) \/ Stored(r) \/ Failed(r)
    BY <2>1, <2>2, <2>5 DEF Answered, Refused, Stored, Failed, SamePlea
  <2>6. CASE PassedOn(r) \/ Ended(r) \/ (pc'[r] = pc[r] /\ hand'[r] = hand[r])
    BY <2>1, <2>2, <2>6 DEF PassedOn, Ended
  <2> QED BY <1>3, <2>3, <2>4, <2>5, <2>6 DEF Turn
<1> QED BY <1>1, <1>2, <1>3, <1>4, <1>5, <1>6 DEF Types, Onward, TrailGrows

LEMMA FiledKept ==
  ASSUME Types, Filed, PagesOK, Working, [Next]_vars
  PROVE  Filed'
<1>1. plan'.of = plan.of /\ clock \in Nat /\ clock' \in Nat /\ clock <= clock'
  BY OnwardIs DEF Onward, Types
<1>2. \A i \in DOMAIN audit' : audit'[i].id = i
  <2>1. TrailGrows /\ audit \in Seq(AuditRow)
    BY TrailIs DEF Types
  <2>2. /\ Len(audit) \in Nat /\ DOMAIN audit = 1..Len(audit)
        /\ Len(audit') \in Nat /\ DOMAIN audit' = 1..Len(audit')
    BY <2>1 DEF TrailGrows
  <2> TAKE i \in DOMAIN audit'
  <2>3. CASE i <= Len(audit)
    <3>1. i \in DOMAIN audit
      BY <2>2, <2>3
    <3> QED BY <2>1, <3>1 DEF TrailGrows, Filed
  <2>4. CASE i > Len(audit)
    <3>1. i \in Len(audit) + 1 .. Len(audit')
      BY <2>2, <2>4
    <3> QED BY <2>1, <3>1 DEF TrailGrows
  <2> QED BY <2>2, <2>3, <2>4
<1>3. \A x \in records : x.exc \in plan'.of /\ x.at \in 1..clock'
  BY <1>1 DEF Filed
<1>4. CASE records' = records
  <2>1. Ids' = Ids
    BY <1>4 DEF Ids
  <2> QED BY <1>2, <1>3, <1>4, <2>1 DEF Filed
<1>5. ASSUME NEW r \in Request, OneMore(r) PROVE Filed'
  <2> DEFINE x == RecordOf(r)
             n == Cardinality(records)
  <2>1. /\ records' = records \cup {x} /\ x.id = NewId /\ x.exc = hand[r].exc
        /\ x.at = hand[r].at /\ x \notin records
    BY <1>5, OneMoreIs
  <2>2. pc[r] # "idle"
    BY <1>5 DEF OneMore
  <2>3. x.exc \in plan.of /\ x.at \in 1..clock
    <3>1. hand[r].exc \in plan.of
      BY <2>2 DEF Types
    <3>2. hand[r].at \in 1..clock
      BY <2>2 DEF Working
    <3> HIDE DEF x
    <3> QED BY <2>1, <3>1, <3>2
  <2> HIDE DEF x
  <2>4. IsFiniteSet(records) /\ n \in Nat /\ Ids = 1..n /\ NewId = n + 1
    <3>1. IsFiniteSet(records) /\ Ids = 1..n
      BY DEF Filed
    <3>2. n \in Nat
      BY <3>1, FS_CardinalityType
    <3>3. NewId = n + 1
      BY <3>2 DEF NewId
    <3> QED BY <3>1, <3>2, <3>3
  <2>5. IsFiniteSet(records \cup {x}) /\ Cardinality(records \cup {x}) = n + 1
    BY <2>1, <2>4, FS_AddElement
  <2> HIDE DEF n
  <2>6. IsFiniteSet(records') /\ Cardinality(records') = n + 1
    BY <2>1, <2>5
  <2>7. Ids' = Ids \cup {n + 1}
    <3>1. Ids' = {y.id : y \in records'}
      BY DEF Ids
    <3> QED BY <2>1, <2>4, <3>1 DEF Ids
  <2>8. Ids' = 1..Cardinality(records')
    BY <2>4, <2>6, <2>7
  <2>9. \A y, z \in records' : y.id = z.id => y = z
    <3>1. \A y \in records : y.id # x.id
      <4>1. \A y \in records : y.id \in 1..n
        BY <2>4 DEF Ids
      <4> QED BY <2>1, <2>4, <4>1
    <3> QED BY <2>1, <3>1 DEF Filed
  <2>10. \A y \in records' : y.exc \in plan'.of /\ y.at \in 1..clock'
    BY <1>1, <1>3, <2>1, <2>3
  <2> QED BY <1>2, <2>6, <2>8, <2>9, <2>10 DEF Filed
<1> QED BY <1>4, <1>5, RecordsAre

LEMMA RecordsStay ==
  ASSUME Types, Filed, [Next]_vars
  PROVE  records \subseteq records'
BY RecordsAre DEF OneMore

LEMMA WorkingKept ==
  ASSUME Types, Filed, PagesOK, Working, [Next]_vars
  PROVE  Working'
<1>1. /\ clock \in Nat /\ clock' \in Nat /\ clock <= clock' /\ echoed \subseteq echoed'
      /\ 0 < clock
  BY OnwardIs DEF Onward, Types
<1>2. records \subseteq records'
  BY RecordsStay
<1>3. \A r \in Request : Turn(r)
  BY TurnsAre
<1>4. ASSUME NEW r \in Request, pc'[r] # "idle"
      PROVE  /\ hand'[r].at \in 1..clock'
             /\ hand'[r].corr \in echoed' \cup {0}
             /\ pc'[r] = "append" => hand'[r].id # 0
             /\ hand'[r].id # 0 => Own(r)' # {}
  <2>1. pc[r] # "idle" =>
           /\ hand[r].at \in 1..clock'
           /\ hand[r].corr \in echoed' \cup {0}
           /\ pc[r] = "append" => hand[r].id # 0
           /\ hand[r].id # 0 =>
                \E x \in records' : x.id = hand[r].id /\ x.exc = hand[r].exc /\ x.at = hand[r].at
    BY <1>1, <1>2 DEF Working, Own
  <2>2. (\E x \in records' : x.id = hand'[r].id /\ x.exc = hand'[r].exc /\ x.at = hand'[r].at)
           => Own(r)' # {}
    BY DEF Own
  <2>3. CASE Began(r)
    BY <1>1, <2>3 DEF Began
  <2>4. CASE ReadOne(r) \/ ReadTrail(r)
    BY <2>1, <2>2, <2>4 DEF ReadOne, ReadTrail, SameButPackage, SamePlea
  <2>5. CASE Answered(r) \/ Refused(r) \/ Failed(r)
    BY <2>1, <2>2, <2>5 DEF Answered, Refused, Failed, SamePlea
  <2>6. CASE Stored(r)
    <3>1. /\ pc[r] # "idle" /\ pc[r] \in {"create", "fallback"}
          /\ hand'[r].id = NewId /\ SamePlea(hand'[r], hand[r])
          /\ records' = records \cup {RecordOf(r)}
      BY <2>6 DEF Stored
    <3>2. NewId # 0
      BY NewIdIs
    <3>3. RecordOf(r).id = NewId /\ RecordOf(r).exc = hand[r].exc /\ RecordOf(r).at = hand[r].at
      BY <3>1, NewIdIs, RecordIs
    <3>4. RecordOf(r) \in records'
      BY <3>1
    <3>5. hand'[r].exc = hand[r].exc /\ hand'[r].at = hand[r].at /\ hand'[r].corr = hand[r].corr
      BY <3>1 DEF SamePlea
    <3> QED BY <2>1, <2>2, <3>1, <3>2, <3>3, <3>4, <3>5
  <2>7. CASE PassedOn(r) \/ (pc'[r] = pc[r] /\ hand'[r] = hand[r])
    BY <1>4, <2>1, <2>2, <2>7 DEF PassedOn
  <2>8. CASE Ended(r)
    BY <1>4, <2>8 DEF Ended
  <2> QED BY <1>3, <2>3, <2>4, <2>5, <2>6, <2>7, <2>8 DEF Turn
<1> QED BY <1>4 DEF Working

-----------------------------------------------------------------------------
(* The pages *)

PageFine(t) ==
  /\ tabs[t].mount <= mounts
  /\ tabs[t].kind # "none" => tabs[t].exc \in plan.of
  /\ tabs[t].held # 0 => IsOf(tabs[t].held, tabs[t].exc)
  /\ tabs[t].timeline.latest # 0 => IsOf(tabs[t].timeline.latest, tabs[t].exc)
  /\ \A i \in DOMAIN tabs[t].shown : IsOf(tabs[t].shown[i], tabs[t].exc)
  /\ tabs[t].timeline.rows <= Len(audit)
  /\ tabs[t].step \notin {"done", "failed"} /\ ~tabs[t].locked => tabs[t].shown = << >>

LEMMA PagesAre ==
  PagesOK <=> /\ \A r \in Request : pc[r] # "idle" => hand[r].mount <= mounts
              /\ \A t \in Tab : PageFine(t)
BY DEF PagesOK, PageFine

\* It is one of the exception after the step.
IsThen(id, e) == \E x \in records' : x.id = id /\ x.exc = e

LEMMA AtMostStays ==
  ASSUME Types, Filed, [Next]_vars, NEW id, NEW e, NEW at, IsOf(id, e), AtMost(id, at)
  PROVE  AtMost(id, at)'
<1>1. id \in Ids
  BY DEF IsOf, Ids
<1>2. CASE records' = records
  BY <1>2 DEF AtMost
<1>3. ASSUME NEW r \in Request, OneMore(r) PROVE AtMost(id, at)'
  <2> DEFINE x == RecordOf(r)
  <2>1. records' = records \cup {x} /\ x.id = NewId
    BY <1>3, OneMoreIs
  <2>2. NewId # id
    BY <1>1, NewIdIs
  <2> HIDE DEF x
  <2> QED BY <2>1, <2>2 DEF AtMost
<1> QED BY <1>2, <1>3, RecordsAre

\* The answer on its way to a page is one to the page's exception.
LEMMA AnswerIsOf ==
  ASSUME Working, Clicked, NEW r \in Request, NEW t \in Tab, OnPage(r, t), hand[r].id # 0
  PROVE  IsOf(hand[r].id, tabs[t].exc)
<1>1. pc[r] # "idle" /\ hand[r].exc = tabs[t].exc
  BY DEF OnPage, Clicked
<1>2. Own(r) # {}
  BY <1>1 DEF Working
<1> QED BY <1>1, <1>2 DEF Own, IsOf

LEMMA PagesKept ==
  ASSUME Types, Filed, Working, PagesOK, Clicked, [Next]_vars
  PROVE  PagesOK'
<1>1. /\ mounts \in Nat /\ mounts' \in Nat /\ mounts <= mounts' /\ plan'.of = plan.of
      /\ hand \in [Request -> Plea] /\ tabs \in [Tab -> PageState]
      /\ Len(audit) \in Nat
  BY OnwardIs DEF Onward, Types
<1>2. Len(audit) <= Len(audit') /\ Len(audit') \in Nat
  BY TrailIs DEF TrailGrows
<1>3. \A id, e : IsOf(id, e) => IsThen(id, e)
  BY RecordsStay DEF IsOf, IsThen
<1>4. ASSUME NEW r \in Request, pc'[r] # "idle" PROVE hand'[r].mount <= mounts'
  <2>1. Turn(r)
    BY TurnsAre
  <2>2. hand[r].mount \in Nat /\ hand'[r].mount \in Nat
    <3>1. hand' \in [Request -> Plea]
      BY TurnsAre
    <3>2. hand[r] \in Plea /\ hand'[r] \in Plea
      BY <1>1, <3>1
    <3> QED BY <3>2 DEF Plea
  <2>3. CASE pc[r] = "idle"
    <3>1. hand'[r].mount <= mounts
      BY <1>4, <2>1, <2>3 DEF Turn, Began, ReadOne, ReadTrail, Answered, Refused, Stored, PassedOn, Failed,
                              Ended
    <3> QED BY <1>1, <2>2, <3>1
  <2>4. CASE pc[r] # "idle"
    <3>1. hand'[r].mount = hand[r].mount
      BY <1>4, <2>1, <2>4, TurnKeeps DEF SamePlea
    <3>2. hand[r].mount <= mounts
      BY <2>4 DEF PagesOK
    <3> QED BY <1>1, <2>2, <3>1, <3>2
  <2> QED BY <2>3, <2>4
<1>5. ASSUME NEW t \in Tab PROVE PageFine(t)'
  <2> DEFINE p == tabs[t]
             q == tabs'[t]
             e == p.exc
  <2>1. TabTurn(t) /\ q \in PageState
    BY TabsAre
  <2>2. PageFine(t) /\ p \in PageState
    BY <1>1, PagesAre
  <2>3. p.mount \in Nat /\ p.timeline.rows \in Nat /\ q.mount \in Nat /\ q.timeline.rows \in Nat
    BY <2>1, <2>2 DEF PageState
  <2>4. /\ p.mount <= mounts' /\ p.timeline.rows <= Len(audit')
        /\ p.kind # "none" => p.exc \in plan'.of
        /\ p.held # 0 => IsThen(p.held, e)
        /\ p.timeline.latest # 0 => IsThen(p.timeline.latest, e)
        /\ \A i \in DOMAIN p.shown : IsThen(p.shown[i], e)
    <3>1. p.mount <= mounts' /\ p.timeline.rows <= Len(audit') /\ (p.kind # "none" => p.exc \in plan'.of)
      BY <1>1, <1>2, <2>2, <2>3 DEF PageFine
    <3>2. /\ p.held # 0 => IsOf(p.held, e)
          /\ p.timeline.latest # 0 => IsOf(p.timeline.latest, e)
          /\ \A i \in DOMAIN p.shown : IsOf(p.shown[i], e)
      BY <2>2 DEF PageFine
    <3> QED BY <1>3, <3>1, <3>2
  <2>5. p.step \notin {"done", "failed"} /\ ~p.locked => p.shown = << >>
    BY <2>2 DEF PageFine
  <2>6. SUFFICES /\ q.mount <= mounts' /\ q.timeline.rows <= Len(audit')
                 /\ q.kind # "none" => q.exc \in plan'.of
                 /\ q.held # 0 => IsThen(q.held, q.exc)
                 /\ q.timeline.latest # 0 => IsThen(q.timeline.latest, q.exc)
                 /\ \A i \in DOMAIN q.shown : IsThen(q.shown[i], q.exc)
                 /\ q.step \notin {"done", "failed"} /\ ~q.locked => q.shown = << >>
    BY DEF PageFine, IsOf, IsThen
  <2> HIDE DEF p, q
  <2>7. CASE Stays(t)
    <3>1. q = p
      BY <2>7 DEF Stays, p, q
    <3> QED BY <2>4, <2>5, <3>1 DEF e
  <2>8. CASE Opened(t)
    <3>1. q.exc \in plan.of /\ q = Page(q.kind, q.exc, mounts + 1) /\ mounts' = mounts + 1
      BY <2>8 DEF Opened, q
    <3>2. /\ q.mount = mounts + 1 /\ q.held = 0 /\ q.timeline = NoTimeline /\ q.shown = << >>
      <4> DEFINE k == q.kind
                 f == q.exc
      <4>1. q = Page(k, f, mounts + 1)
        BY <3>1
      <4> HIDE DEF k, f
      <4> QED BY <4>1 DEF Page
    <3>3. q.timeline.rows = 0 /\ q.timeline.latest = 0
      BY <3>2 DEF NoTimeline
    <3> QED BY <1>1, <1>2, <3>1, <3>2, <3>3
  <2>9. CASE Used(t)
    <3>1. q = [p EXCEPT !.locked = TRUE, !.busy = TRUE]
      BY <2>9 DEF Used, p, q
    <3>2. /\ q.mount = p.mount /\ q.kind = p.kind /\ q.exc = p.exc /\ q.held = p.held
          /\ q.timeline = p.timeline /\ q.shown = p.shown /\ q.locked
      BY <2>2, <3>1 DEF PageState
    <3> QED BY <2>4, <3>2 DEF e
  <2>10. CASE Settles(t)
    <3>1. PICK r \in Request :
            /\ OnPage(r, t)
            /\ q = [p EXCEPT !.busy = FALSE, !.shown = q.shown]
            /\ \/ q.shown = p.shown
               \/ /\ hand[r].id # 0
                  /\ \/ q.shown = <<hand[r].id>>
                     \/ q.shown = <<hand[r].id>> \o p.shown
      BY <2>10 DEF Settles, p, q
    <3>2. /\ q.mount = p.mount /\ q.kind = p.kind /\ q.exc = p.exc /\ q.held = p.held
          /\ q.timeline = p.timeline /\ q.locked = p.locked
      <4> DEFINE rows == q.shown
      <4>1. q = [p EXCEPT !.busy = FALSE, !.shown = rows]
        BY <3>1
      <4> HIDE DEF rows
      <4> QED BY <2>2, <4>1 DEF PageState
    <3>3. p.locked
      BY <3>1 DEF Clicked, p
    <3>4. hand[r].id # 0 => IsThen(hand[r].id, e)
      BY <1>3, <3>1, AnswerIsOf DEF p
    <3>5. \A i \in DOMAIN q.shown : IsThen(q.shown[i], e)
      <4> DEFINE id == hand[r].id
                 one == <<id>>
      <4>1. one \in Seq({id}) /\ Len(one) = 1 /\ one[1] = id
        OBVIOUS
      <4>2. p.shown \in Seq(Nat) /\ Len(p.shown) \in Nat /\ DOMAIN p.shown = 1..Len(p.shown)
        BY <2>2 DEF PageState
      <4>3. CASE q.shown = p.shown
        BY <2>4, <4>3
      <4>4. CASE id # 0 /\ q.shown = one
        <5>1. \A i \in DOMAIN q.shown : q.shown[i] = id
          BY <4>4
        <5> QED BY <3>4, <4>4, <5>1
      <4> HIDE DEF one
      <4>5. CASE id # 0 /\ q.shown = one \o p.shown
        <5> DEFINE S == Nat \cup {id}
        <5>1. one \in Seq(S) /\ p.shown \in Seq(S)
          BY SMTT(40), <4>1, <4>2
        <5> HIDE DEF S
        <5>2. /\ Len(one \o p.shown) = 1 + Len(p.shown)
              /\ one \o p.shown \in Seq(S)
              /\ \A i \in 1 .. 1 + Len(p.shown) :
                   (one \o p.shown)[i] = IF i <= 1 THEN one[i] ELSE p.shown[i - 1]
          <6> DEFINE rest == p.shown
          <6>1. one \in Seq(S) /\ rest \in Seq(S)
            BY <5>1
          <6> HIDE DEF rest
          <6>2. /\ one \o rest \in Seq(S)
                /\ Len(one \o rest) = Len(one) + Len(rest)
                /\ \A i \in 1 .. Len(one) + Len(rest) :
                     (one \o rest)[i] = IF i <= Len(one) THEN one[i] ELSE rest[i - Len(one)]
            BY <6>1, ConcatProperties
          <6> QED BY <4>1, <6>2 DEF rest
        <5>3. DOMAIN q.shown = 1 .. 1 + Len(p.shown)
          BY <4>5, <5>2
        <5>4. \A i \in DOMAIN q.shown : q.shown[i] = id \/ \E j \in DOMAIN p.shown : q.shown[i] = p.shown[j]
          <6> TAKE i \in DOMAIN q.shown
          <6>1. CASE i = 1
            BY <4>1, <4>2, <4>5, <5>2, <5>3, <6>1
          <6>2. CASE i # 1
            <7>1. i - 1 \in DOMAIN p.shown /\ ~(i <= 1)
              BY <4>2, <5>3, <6>2
            <7>2. q.shown[i] = p.shown[i - 1]
              BY <4>5, <5>2, <5>3, <7>1
            <7> QED BY <7>1, <7>2
          <6> QED BY <6>1, <6>2
        <5> QED BY <2>4, <3>4, <4>5, <5>4
      <4> QED BY <3>1, <4>3, <4>4, <4>5 DEF one
    <3> QED BY <2>4, <3>2, <3>3, <3>5 DEF e
  <2>11. CASE BrokenOff(t)
    <3>1. q = [p EXCEPT !.busy = FALSE]
      BY <2>11 DEF BrokenOff, p, q
    <3>2. /\ q.mount = p.mount /\ q.kind = p.kind /\ q.exc = p.exc /\ q.held = p.held
          /\ q.timeline = p.timeline /\ q.shown = p.shown /\ q.locked = p.locked
          /\ q.step = p.step
      BY <2>2, <3>1 DEF PageState
    <3> QED BY <2>4, <2>5, <3>2 DEF e
  <2>12. CASE Looked(t)
    <3>1. /\ SameView(q, p) /\ p.step \notin {"done", "failed"}
          /\ q.held = p.held \/ q.held = 0 \/ IsOf(q.held, e)
          /\ \/ q.timeline.latest = p.timeline.latest
             \/ q.timeline.latest = 0 \/ IsOf(q.timeline.latest, e)
          /\ q.timeline.rows = p.timeline.rows \/ q.timeline.rows = Len(audit)
          /\ \/ q.shown = p.shown
             \/ /\ ~p.locked /\ q.step = "done"
                /\ \A i \in DOMAIN q.shown : IsOf(q.shown[i], e)
      BY <2>12 DEF Looked, p, q
    <3>2. q.mount = p.mount /\ q.kind = p.kind /\ q.exc = e /\ q.locked = p.locked
      BY <3>1 DEF SameView
    <3>3. q.timeline.rows <= Len(audit')
      BY <1>1, <1>2, <2>4, <3>1
    <3>4. /\ q.held # 0 => IsThen(q.held, e)
          /\ q.timeline.latest # 0 => IsThen(q.timeline.latest, e)
          /\ \A i \in DOMAIN q.shown : IsThen(q.shown[i], e)
      BY <1>3, <2>4, <3>1
    <3>5. q.step \notin {"done", "failed"} /\ ~q.locked => q.shown = << >>
      BY <2>5, <3>1, <3>2
    <3> QED BY <2>4, <3>2, <3>3, <3>4, <3>5 DEF e
  <2> QED BY <2>1, <2>7, <2>8, <2>9, <2>10, <2>11, <2>12 DEF TabTurn
<1>6. /\ \A r \in Request : pc'[r] # "idle" => hand'[r].mount <= mounts'
      /\ \A t \in Tab : PageFine(t)'
  BY <1>4, <1>5
<1> QED BY <1>6 DEF PagesOK, PageFine

\* The typed parts of a page after a step of each kind.
LEMMA UsedIs ==
  ASSUME Types, NEW t \in Tab, Used(t)
  PROVE  /\ tabs'[t].mount = tabs[t].mount /\ tabs'[t].exc = tabs[t].exc
         /\ tabs'[t].shown = tabs[t].shown /\ tabs'[t].locked /\ tabs'[t].busy
<1> DEFINE p == tabs[t]
<1>1. p \in PageState
  BY DEF Types
<1>2. tabs'[t] = [p EXCEPT !.locked = TRUE, !.busy = TRUE]
  BY DEF Used
<1> HIDE DEF p
<1>3. /\ tabs'[t].mount = p.mount /\ tabs'[t].exc = p.exc
      /\ tabs'[t].shown = p.shown /\ tabs'[t].locked /\ tabs'[t].busy
  BY <1>1, <1>2 DEF PageState
<1> QED BY <1>3 DEF p

LEMMA ClickedKept ==
  ASSUME Types, Filed, Working, PagesOK, Clicked, [Next]_vars
  PROVE  Clicked'
<1>1. /\ mounts \in Nat /\ clock \in Nat
      /\ hand \in [Request -> Plea] /\ tabs \in [Tab -> PageState]
  BY DEF Types
<1> SUFFICES ASSUME NEW t \in Tab
             PROVE  /\ \A r \in Request : OnPage(r, t)' =>
                         /\ tabs'[t].locked /\ tabs'[t].busy
                         /\ hand'[r].exc = tabs'[t].exc
                         /\ tabs'[t].shown # << >> =>
                              \A x \in records' : x.id = Head(tabs'[t].shown) => x.at <= hand'[r].at
                    /\ \A r, q \in Request : OnPage(r, t)' /\ OnPage(q, t)' => r = q
  BY DEF Clicked, AtMost
<1> DEFINE p == tabs[t]
           q == tabs'[t]
           AtMostThen(id, at) == \A x \in records' : x.id = id => x.at <= at
<1>2. \A r \in Request : OnPage(r, t)' <=> pc'[r] # "idle" /\ hand'[r].tab = t /\ hand'[r].mount = q.mount
  BY DEF OnPage
<1>3. \A r \in Request : OnPage(r, t) <=> pc[r] # "idle" /\ hand[r].tab = t /\ hand[r].mount = p.mount
  BY DEF OnPage
<1>4. /\ \A r \in Request : OnPage(r, t) =>
           /\ p.locked /\ p.busy
           /\ hand[r].exc = p.exc
           /\ p.shown # << >> => AtMost(Head(p.shown), hand[r].at)
      /\ \A r, s \in Request : OnPage(r, t) /\ OnPage(s, t) => r = s
  BY DEF Clicked
<1>5. p \in PageState /\ q \in PageState
  BY <1>1, TabsAre
<1>6. p.shown # << >> => IsOf(Head(p.shown), p.exc)
  <2>1. p.shown \in Seq(Nat)
    BY <1>5 DEF PageState
  <2>2. \A i \in DOMAIN p.shown : IsOf(p.shown[i], p.exc)
    BY DEF PagesOK
  <2> DEFINE rows == p.shown
  <2>3. rows \in Seq(Nat) /\ \A i \in DOMAIN rows : IsOf(rows[i], p.exc)
    BY <2>1, <2>2
  <2> HIDE DEF rows, p
  <2>4. rows # << >> => 1 \in DOMAIN rows /\ Head(rows) = rows[1]
    BY <2>3
  <2> QED BY <2>3, <2>4 DEF rows
<1>7. \A id, e, at : IsOf(id, e) /\ AtMost(id, at) => AtMostThen(id, at)
  <2>1. \A id, e, at : IsOf(id, e) /\ AtMost(id, at) => AtMost(id, at)'
    BY AtMostStays
  <2> QED BY <2>1 DEF AtMost
<1> HIDE DEF AtMostThen
<1> SUFFICES /\ \A r \in Request : OnPage(r, t)' =>
                  /\ q.locked /\ q.busy
                  /\ hand'[r].exc = q.exc
                  /\ q.shown # << >> => AtMostThen(Head(q.shown), hand'[r].at)
             /\ \A r, s \in Request : OnPage(r, t)' /\ OnPage(s, t)' => r = s
  BY DEF AtMostThen
<1>8. CASE \A r \in Request : ~OnPage(r, t)'
  BY <1>8
<1>9. ASSUME q.mount = p.mount, q.exc = p.exc, q.locked = p.locked, q.busy = p.busy,
             NoneBegins(t),
             (\E r \in Request : OnPage(r, t)) => q.shown = p.shown
      PROVE  /\ \A r \in Request : OnPage(r, t)' =>
                  /\ q.locked /\ q.busy
                  /\ hand'[r].exc = q.exc
                  /\ q.shown # << >> => AtMostThen(Head(q.shown), hand'[r].at)
             /\ \A r, s \in Request : OnPage(r, t)' /\ OnPage(s, t)' => r = s
  <2>1. ASSUME NEW r \in Request, OnPage(r, t)' PROVE OnPage(r, t) /\ SamePlea(hand'[r], hand[r])
    <3>1. pc'[r] # "idle" /\ hand'[r].tab = t /\ hand'[r].mount = q.mount
      BY <1>2, <2>1
    <3>2. pc[r] # "idle" /\ SamePlea(hand'[r], hand[r])
      BY <1>9, <3>1 DEF NoneBegins
    <3> QED BY <1>3, <1>9, <3>1, <3>2 DEF SamePlea
  <2>2. ASSUME NEW r \in Request, OnPage(r, t)'
        PROVE  /\ q.locked /\ q.busy
               /\ hand'[r].exc = q.exc
               /\ q.shown # << >> => AtMostThen(Head(q.shown), hand'[r].at)
    <3>1. OnPage(r, t) /\ hand'[r].exc = hand[r].exc /\ hand'[r].at = hand[r].at
      BY <2>1, <2>2 DEF SamePlea
    <3>2. q.shown = p.shown
      BY <1>9, <3>1
    <3> HIDE DEF p, q
    <3> QED BY <1>4, <1>6, <1>7, <1>9, <3>1, <3>2
  <2> QED BY <1>4, <2>1, <2>2
<1>10. CASE Stays(t)
  BY <1>9, <1>10 DEF Stays
<1>11. CASE Opened(t)
  <2>1. q.mount = mounts + 1 /\ pc' = pc /\ hand' = hand
    <3> DEFINE k == q.kind
               f == q.exc
    <3>1. q = Page(k, f, mounts + 1)
      BY <1>11 DEF Opened
    <3> HIDE DEF k, f, q
    <3>2. q.mount = mounts + 1
      BY <3>1 DEF Page
    <3> QED BY <1>11, <3>2 DEF Opened
  <2>2. \A r \in Request : pc[r] # "idle" => hand[r].mount <= mounts /\ hand[r].mount \in Nat
    <3>1. \A r \in Request : hand[r].mount \in Nat
      BY <1>1 DEF Plea
    <3> QED BY <3>1 DEF PagesOK
  <2>3. \A r \in Request : ~OnPage(r, t)'
    <3> HIDE DEF q
    <3> QED BY <1>1, <1>2, <2>1, <2>2
  <2> QED BY <1>8, <2>3
<1>12. CASE Used(t)
  <2>1. /\ q.mount = p.mount /\ q.exc = p.exc
        /\ q.shown = p.shown /\ q.locked /\ q.busy
    BY <1>12, UsedIs
  <2>2. PICK r \in Request :
          /\ Began(r) /\ hand'[r].exc = p.exc /\ hand'[r].tab = t
          /\ hand'[r].mount = p.mount
          /\ \A s \in Request : s # r => pc'[s] = pc[s] /\ hand'[s] = hand[s]
    BY <1>12 DEF Used
  <2>3. \A s \in Request : ~OnPage(s, t)
    BY <1>4, <1>12 DEF Used
  <2>4. \A s \in Request : OnPage(s, t)' => s = r
    BY <1>2, <1>3, <2>1, <2>2, <2>3
  <2>5. q.shown # << >> => AtMostThen(Head(q.shown), hand'[r].at)
    <3>1. hand'[r].at = clock
      BY <2>2 DEF Began
    <3>2. \A id : AtMost(id, clock)
      BY <1>1 DEF Filed, AtMost
    <3> HIDE DEF p, q
    <3> QED BY <1>6, <1>7, <2>1, <3>1, <3>2
  <2> QED BY <2>1, <2>2, <2>4, <2>5
<1>13. CASE Settles(t)
  <2>1. PICK r \in Request :
          /\ pc[r] = "answer" /\ pc'[r] = "idle" /\ OnPage(r, t)
          /\ \A s \in Request : s # r => pc'[s] = pc[s] /\ hand'[s] = hand[s]
    BY <1>13 DEF Settles
  <2>2. q.mount = p.mount
    <3> DEFINE rows == q.shown
    <3>1. q = [p EXCEPT !.busy = FALSE, !.shown = rows]
      BY <1>13 DEF Settles
    <3> HIDE DEF rows, p, q
    <3> QED BY <1>5, <3>1 DEF PageState
  <2>3. \A s \in Request : OnPage(s, t)' => s # r /\ OnPage(s, t)
    BY <1>2, <1>3, <2>1, <2>2
  <2> QED BY <1>4, <1>8, <2>1, <2>3
<1>14. CASE BrokenOff(t)
  BY <1>2, <1>8, <1>14 DEF BrokenOff
<1>15. CASE pc' = pc /\ hand' = hand /\ Looked(t)
  <2>1. /\ q.mount = p.mount /\ q.exc = p.exc /\ q.locked = p.locked /\ q.busy = p.busy
        /\ p.locked => q.shown = p.shown
    BY <1>15 DEF Looked, SameView
  <2>2. NoneBegins(t)
    BY <1>15 DEF NoneBegins, SamePlea
  <2>3. (\E r \in Request : OnPage(r, t)) => q.shown = p.shown
    BY <1>4, <2>1
  <2> QED BY <1>9, <2>1, <2>2, <2>3
<1>16. TabTurn(t)
  BY TabsAre
<1> QED BY <1>10, <1>11, <1>12, <1>13, <1>14, <1>15, <1>16 DEF TabTurn

LEMMA InvestigationIs ==
  ASSUME Filed, NEW x \in records
  PROVE  InvestigationOf(x.id) = x
<1>1. \A y \in records : y.id = x.id => y = x
  BY DEF Filed
<1> QED BY <1>1 DEF InvestigationOf

\* The investigation a page shows first is not replaced by an older one.
LEMMA NeverOlderStep ==
  ASSUME Types, Filed, Working, PagesOK, Clicked, [Next]_vars, NEW t \in Tab,
         tabs'[t].mount = tabs[t].mount, tabs[t].shown # << >>
  PROVE  tabs'[t].shown # << >> /\ ShownAt(t) <= ShownAt(t)'
<1> DEFINE p == tabs[t]
           q == tabs'[t]
           Then(id) == CHOOSE x \in records' : x.id = id
<1>1. p \in PageState /\ q \in PageState /\ mounts \in Nat
  BY TabsAre DEF Types
<1>2. Filed'
  BY FiledKept
<1>3. records \subseteq records' /\ \A x \in records' : x.at \in Nat
  <2>1. \A x \in records' : x.at \in 1..clock'
    BY <1>2 DEF Filed
  <2>2. clock' \in Nat
    BY OnwardIs DEF Onward
  <2> QED BY <2>1, <2>2, RecordsStay
<1>4. IsOf(Head(p.shown), p.exc)
  <2> DEFINE rows == p.shown
  <2>1. rows \in Seq(Nat)
    BY <1>1 DEF PageState
  <2>2. \A i \in DOMAIN rows : IsOf(rows[i], p.exc)
    BY DEF PagesOK
  <2>3. rows # << >>
    OBVIOUS
  <2> HIDE DEF rows, p
  <2>4. 1 \in DOMAIN rows /\ Head(rows) = rows[1]
    BY <2>1, <2>3
  <2> QED BY <2>2, <2>4 DEF rows
<1>5. PICK x \in records : x.id = Head(p.shown)
  BY <1>4 DEF IsOf
<1>6. ShownAt(t) = x.at /\ x.at \in Nat
  BY <1>3, <1>5, InvestigationIs DEF ShownAt
<1>7. \A y \in records' : Then(y.id) = y
  <2>1. \A y, z \in records' : y.id = z.id => y = z
    BY <1>2 DEF Filed
  <2> QED BY <2>1
<1>8. ShownAt(t)' = Then(Head(q.shown)).at
  BY DEF ShownAt, InvestigationOf
<1> HIDE DEF Then
<1>9. ASSUME q.shown = p.shown PROVE q.shown # << >> /\ ShownAt(t) <= ShownAt(t)'
  <2>1. Then(Head(q.shown)) = x
    BY <1>3, <1>5, <1>7, <1>9
  <2> QED BY <1>6, <1>8, <1>9, <2>1
<1>10. CASE Stays(t)
  BY <1>9, <1>10 DEF Stays
<1>11. CASE Opened(t)
  <2>1. q.mount = mounts + 1
    <3> DEFINE k == q.kind
               f == q.exc
    <3>1. q = Page(k, f, mounts + 1)
      BY <1>11 DEF Opened
    <3> HIDE DEF k, f, q
    <3> QED BY <3>1 DEF Page
  <2>2. p.mount <= mounts /\ p.mount \in Nat
    BY <1>1 DEF PagesOK, PageState
  <2>3. q.mount = p.mount
    OBVIOUS
  <2> HIDE DEF p, q
  <2> QED BY <1>1, <2>1, <2>2, <2>3
<1>12. CASE Used(t)
  BY <1>9, <1>12, UsedIs
<1>13. CASE Settles(t)
  <2>1. PICK r \in Request :
          /\ OnPage(r, t)
          /\ \/ q.shown = p.shown
             \/ /\ hand[r].id # 0
                /\ \/ q.shown = <<hand[r].id>>
                   \/ q.shown = <<hand[r].id>> \o p.shown
    BY <1>13 DEF Settles
  <2> DEFINE id == hand[r].id
             one == <<id>>
  <2>2. CASE id # 0 /\ (q.shown = one \/ q.shown = one \o p.shown)
    <3>1. q.shown # << >> /\ Head(q.shown) = id
      <4>1. p.shown \in Seq(Nat) /\ Len(p.shown) \in Nat
        BY <1>1 DEF PageState
      <4>2. one # << >> /\ Head(one) = id /\ one \in Seq({id}) /\ Len(one) = 1 /\ one[1] = id
        OBVIOUS
      <4> DEFINE S == Nat \cup {id}
                 rest == p.shown
      <4>3. one \in Seq(S) /\ rest \in Seq(S)
        BY SMTT(40), <4>1, <4>2
      <4> HIDE DEF S, one, rest
      <4>4. /\ one \o rest \in Seq(S)
            /\ Len(one \o rest) = Len(one) + Len(rest)
            /\ \A i \in 1 .. Len(one) + Len(rest) :
                 (one \o rest)[i] = IF i <= Len(one) THEN one[i] ELSE rest[i - Len(one)]
        BY <4>3, ConcatProperties
      <4>5. Len(rest) \in Nat
        BY <4>3
      <4>6. Len(one \o rest) = 1 + Len(rest) /\ (one \o rest)[1] = id
        BY <4>2, <4>4, <4>5
      <4>7. one \o rest # << >> /\ Head(one \o rest) = id
        BY <4>4, <4>5, <4>6
      <4> QED BY <2>2, <4>2, <4>7 DEF rest
    <3>2. PICK y \in records : y.id = id /\ y.at = hand[r].at
      <4>1. Own(r) # {}
        BY <2>1, <2>2 DEF OnPage, Working
      <4> QED BY <4>1 DEF Own
    <3>3. x.at <= hand[r].at
      <4>1. AtMost(Head(p.shown), hand[r].at)
        BY <2>1 DEF Clicked
      <4> QED BY <1>5, <4>1 DEF AtMost
    <3>4. Then(id) = y
      BY <1>3, <1>7, <3>2
    <3> HIDE DEF q, p
    <3> QED BY <1>6, <1>8, <3>1, <3>2, <3>3, <3>4 DEF q
  <2> QED BY <1>9, <2>1, <2>2
<1>14. CASE BrokenOff(t)
  <2>1. q = [p EXCEPT !.busy = FALSE]
    BY <1>14 DEF BrokenOff
  <2>2. q.shown = p.shown
    <3> HIDE DEF p, q
    <3> QED BY <1>1, <2>1 DEF PageState
  <2> QED BY <1>9, <2>2
<1>15. CASE Looked(t)
  <2>1. q.shown = p.shown
    BY <1>15 DEF Looked, PagesOK
  <2> QED BY <1>9, <2>1
<1>16. TabTurn(t)
  BY TabsAre
<1> QED BY <1>10, <1>11, <1>12, <1>13, <1>14, <1>15, <1>16 DEF TabTurn

-----------------------------------------------------------------------------
(* The trail *)

LEMMA RowsAre ==
  ASSUME audit \in Seq(AuditRow), TrailGrows
  PROVE  /\ ToSet(audit) \subseteq ToSet(audit')
         /\ \A row \in ToSet(audit') : row \in ToSet(audit) \/ NewRow(row)
         /\ \A i \in Len(audit) + 1 .. Len(audit') : audit'[i] \in ToSet(audit')
<1>1. /\ Len(audit) \in Nat /\ DOMAIN audit = 1..Len(audit)
      /\ Len(audit') \in Nat /\ DOMAIN audit' = 1..Len(audit') /\ Len(audit) <= Len(audit')
      /\ \A i \in DOMAIN audit : audit'[i] = audit[i]
      /\ \A i \in Len(audit) + 1 .. Len(audit') : NewRow(audit'[i])
  BY DEF TrailGrows
<1>2. \A i \in DOMAIN audit : i \in DOMAIN audit'
  BY <1>1
<1>3. \A i \in DOMAIN audit' : i \in DOMAIN audit \/ i \in Len(audit) + 1 .. Len(audit')
  BY <1>1
<1>4. \A i \in Len(audit) + 1 .. Len(audit') : i \in DOMAIN audit'
  BY <1>1
<1> QED BY <1>1, <1>2, <1>3, <1>4 DEF ToSet

LEMMA OverIsToldKept ==
  ASSUME Types, OverIsTold, [Next]_vars
  PROVE  OverIsTold'
<1>1. audit \in Seq(AuditRow) /\ TrailGrows /\ EndsTold
  BY TrailIs DEF Types
<1>2. \A h, types : OnTrail(h, types) => ToldOf(h, types)
  BY <1>1, TrailKept DEF OnTrail, ToldOf
<1>3. ASSUME NEW h \in DOMAIN Hooks, retry'[h].status \in Over
      PROVE  ToldOf(h, Telling(retry'[h].status))
  <2>1. CASE retry'[h].status = retry[h].status
    BY <1>2, <1>3, <2>1 DEF OverIsTold
  <2>2. CASE \E a \in attempts : /\ a.step = "settle" /\ a.hook = h
                                 /\ retry'[h].status = Ending(a.kind)
    BY <1>2, <1>3, <2>2 DEF OverIsTold
  <2> QED BY <1>1, <1>3, <2>1, <2>2 DEF EndsTold
<1>4. ASSUME NEW a \in attempts', a.step = "settle", Ending(a.kind) \in Over
      PROVE  ToldOf(a.hook, Telling(Ending(a.kind)))
  <2>1. CASE a \in attempts
    BY <1>2, <1>4, <2>1 DEF OverIsTold
  <2> QED BY <1>1, <1>4, <2>1 DEF EndsTold
<1> QED BY <1>3, <1>4 DEF OverIsTold, OnTrail, ToldOf

LEMMA SourcesKept ==
  ASSUME Types, Working, Sources, [Next]_vars
  PROVE  Sources'
<1>1. /\ audit \in Seq(AuditRow) /\ TrailGrows /\ echoed \subseteq echoed'
  BY TrailIs, OnwardIs DEF Types, Onward
<1>2. \A row \in ToSet(audit') : row \in ToSet(audit) \/ NewRow(row)
  BY <1>1, RowsAre
<1>3. ASSUME NEW row \in ToSet(audit')
      PROVE  row.at = 0 \/ row.corr \in DOMAIN Hooks \/ row.corr \in echoed' \cup {0}
  <2>1. CASE row \in ToSet(audit)
    BY <1>1, <2>1 DEF Sources
  <2>2. CASE NewRow(row)
    <3>1. \A r \in Request : pc[r] = "append" => hand[r].corr \in echoed \cup {0}
      BY DEF Working
    <3> QED BY <1>1, <2>2, <3>1 DEF NewRow
  <2> QED BY <1>2, <2>1, <2>2
<1> QED BY <1>3 DEF Sources

AboutToLog == {hand[r].id : r \in {q \in Request : pc[q] = "append"}}

LEMMA AuditedIs ==
  RecordsAudited <=> LoggedIds \subseteq Ids /\ (plan.calm => Ids \subseteq LoggedIds \cup AboutToLog)
BY DEF RecordsAudited, LoggedIds, AboutToLog

LEMMA RecordsAuditedKept ==
  ASSUME Types, Filed, PagesOK, Working, RecordsAudited, [Next]_vars
  PROVE  RecordsAudited'
<1>1. /\ audit \in Seq(AuditRow) /\ TrailGrows /\ (plan'.calm => plan.calm)
  BY TrailIs, OnwardIs DEF Types, Onward
<1>2. /\ ToSet(audit) \subseteq ToSet(audit')
      /\ \A row \in ToSet(audit') : row \in ToSet(audit) \/ NewRow(row)
      /\ \A i \in Len(audit) + 1 .. Len(audit') : audit'[i] \in ToSet(audit')
  BY <1>1, RowsAre
<1>3. LoggedIds' = {row.about : row \in {x \in ToSet(audit') : x.type = "INVESTIGATION_RECORDED"}}
  BY DEF LoggedIds
<1>4. LoggedIds \subseteq LoggedIds'
  BY <1>2, <1>3 DEF LoggedIds
<1>5. Ids \subseteq Ids'
  BY RecordsStay DEF Ids
<1>6. LoggedIds' \subseteq Ids'
  <2> SUFFICES ASSUME NEW row \in ToSet(audit'), row.type = "INVESTIGATION_RECORDED"
               PROVE  row.about \in Ids
    BY <1>3, <1>5
  <2>1. CASE row \in ToSet(audit)
    <3>1. row.about \in LoggedIds
      BY <2>1 DEF LoggedIds
    <3> QED BY <3>1, AuditedIs
  <2>2. CASE NewRow(row)
    <3>1. PICK r \in Request : pc[r] = "append" /\ row.about = hand[r].id
      BY <2>2 DEF NewRow
    <3>2. Own(r) # {}
      BY <3>1 DEF Working
    <3> QED BY <3>1, <3>2 DEF Own, Ids
  <2> QED BY <1>2, <2>1, <2>2
<1>7. ASSUME plan'.calm, NEW id \in Ids' PROVE id \in LoggedIds' \/ id \in AboutToLog'
  <2>1. AboutToLog' = {hand'[r].id : r \in {q \in Request : pc'[q] = "append"}}
    BY DEF AboutToLog
  <2>2. CASE id \in Ids
    <3>1. id \in LoggedIds \/ id \in AboutToLog
      BY <1>1, <1>7, <2>2, AuditedIs
    <3>2. CASE id \in AboutToLog
      <4>1. PICK r \in Request : pc[r] = "append" /\ hand[r].id = id
        BY <3>2 DEF AboutToLog
      <4>2. Turn(r)
        BY TurnsAre
      <4>3. \/ pc'[r] = "append" /\ hand'[r] = hand[r]
            \/ audit' = Logged(r)
        BY <1>7, <4>1, <4>2 DEF Turn, Began, ReadOne, ReadTrail, Answered, Refused, Stored, PassedOn,
                                Failed, Ended
      <4>4. CASE pc'[r] = "append" /\ hand'[r] = hand[r]
        BY <2>1, <4>1, <4>4
      <4>5. CASE audit' = Logged(r)
        <5> DEFINE n == Len(audit) + 1
        <5>1. audit'[n].type = "INVESTIGATION_RECORDED" /\ audit'[n].about = id
              /\ Len(audit') = Len(audit) + 1
          BY <4>1, <4>5, LoggedIs
        <5>2. n \in Len(audit) + 1 .. Len(audit')
          BY <1>1, <5>1
        <5>3. audit'[n] \in ToSet(audit')
          BY <1>2, <5>2
        <5> HIDE DEF n
        <5> QED BY <1>3, <5>1, <5>3
      <4> QED BY <4>3, <4>4, <4>5
    <3> QED BY <1>4, <3>1, <3>2
  <2>3. CASE id \notin Ids
    <3>1. records' # records
      BY <1>7, <2>3 DEF Ids
    <3>2. PICK r \in Request : OneMore(r)
      BY <3>1, RecordsAre
    <3>3. Stored(r)
      BY <1>7, <3>2 DEF OneMore
    <3>4. pc'[r] = "append" /\ hand'[r].id = NewId
      BY <3>3 DEF Stored
    <3>5. records' = records \cup {RecordOf(r)} /\ RecordOf(r).id = NewId
      BY <3>2, OneMoreIs
    <3>6. id = NewId
      <4>1. Ids' = {y.id : y \in records'}
        BY DEF Ids
      <4> DEFINE x == RecordOf(r)
      <4>2. records' = records \cup {x} /\ x.id = NewId
        BY <3>5
      <4> HIDE DEF x
      <4> QED BY <1>7, <2>3, <4>1, <4>2 DEF Ids
    <3> QED BY <2>1, <3>4, <3>6
  <2> QED BY <2>2, <2>3
<1> DEFINE C == plan'.calm
<1>8. LoggedIds' \subseteq Ids' /\ (C => Ids' \subseteq LoggedIds' \cup AboutToLog')
  BY <1>6, <1>7
<1> QED BY <1>8 DEF RecordsAudited, LoggedIds, AboutToLog

-----------------------------------------------------------------------------
(* Evidence *)

LEMMA StandingIs ==
  ASSUME NEW e, NEW row
  PROVE  Standing(e, row) \in Nat
BY DEF Standing

LEMMA TrailIsFinite ==
  ASSUME audit \in Seq(AuditRow)
  PROVE  IsFiniteSet(ToSet(audit))
<1>1. Len(audit) \in Nat /\ DOMAIN audit = 1..Len(audit)
  OBVIOUS
<1>2. IsFiniteSet(1..Len(audit))
  BY <1>1, FS_Interval
<1>3. ToSet(audit) = {audit[i] : i \in 1..Len(audit)}
  BY <1>1 DEF ToSet
<1> DEFINE f == [i \in 1..Len(audit) |-> audit[i]]
<1>4. f \in Surjection(1..Len(audit), ToSet(audit))
  BY <1>3 DEF Surjection
<1> HIDE DEF f
<1> QED BY <1>2, <1>4, FS_Surjection

\* A trail that was cut to size has that size.
LEMMA CapIsAll ==
  ASSUME Types, Filed, NEW e,
         Cardinality(capAudit(e, LoadedAudit(e))) < MaxAudit
  PROVE  capAudit(e, LoadedAudit(e)) = LoadedAudit(e)
<1> DEFINE S == LoadedAudit(e)
           R == {c \in S \X S : Ahead(e, c[1], c[2])}
           C == capAudit(e, S)
           I == 0..MaxAudit - 1
<1>1. audit \in Seq(AuditRow) /\ MaxAudit \in Nat \ {0}
  BY HooksAre DEF Types
<1>2. S \subseteq ToSet(audit)
  BY DEF LoadedAudit
<1>3. IsFiniteSet(S)
  BY <1>1, <1>2, TrailIsFinite, FS_Subset
<1>4. \A x \in S : x.at \in Nat /\ x.id \in Nat /\ Standing(e, x) \in Nat
  <2>1. ToSet(audit) \subseteq AuditRow
    BY <1>1 DEF ToSet
  <2> QED BY <1>2, <2>1, StandingIs DEF AuditRow
<1>5. \A x, y \in S : x.id = y.id => x = y
  BY <1>2 DEF Filed, ToSet
<1>6. \A x, y \in S : <<x, y>> \in R <=> Ahead(e, x, y)
  OBVIOUS
<1> HIDE DEF R, S
<1>7. \A x, y, z \in S :
        /\ ~Ahead(e, x, x)
        /\ Ahead(e, x, y) /\ Ahead(e, y, z) => Ahead(e, x, z)
        /\ x.id # y.id => Ahead(e, x, y) \/ Ahead(e, y, x)
  BY <1>4 DEF Ahead, Before
<1>8. Orders(R, S)
  BY <1>5, <1>6, <1>7 DEF Orders
<1>9. /\ Cardinality(S) \in Nat
      /\ \A k \in 0..Cardinality(S) - 1 : \E x \in S : Place(S, R, x) = k
  BY <1>3, <1>8, PlacesAreTaken
<1>10. \A x \in S : Place(S, R, x) = Cardinality({y \in S : Ahead(e, y, x)})
  <2> TAKE x \in S
  <2>1. {y \in S : <<y, x>> \in R} = {y \in S : Ahead(e, y, x)}
    BY <1>6
  <2> QED BY <2>1 DEF Place
<1>11. CASE Cardinality(S) <= MaxAudit
  BY <1>11 DEF capAudit, S
<1>12. CASE ~(Cardinality(S) <= MaxAudit)
  <2>1. C = {x \in S : Cardinality({y \in S : Ahead(e, y, x)}) < MaxAudit}
    BY <1>12 DEF capAudit
  <2>2. C = {x \in S : Place(S, R, x) < MaxAudit}
    BY <1>10, <2>1
  <2> HIDE DEF C
  <2>3. ASSUME NEW k \in I PROVE \E x \in C : Place(S, R, x) = k
    <3>1. k \in 0..Cardinality(S) - 1 /\ k < MaxAudit
      BY <1>1, <1>9, <1>12
    <3> QED BY <1>9, <2>2, <3>1
  <2>4. \A x \in S : Place(S, R, x) \in Nat
    BY <1>3, <1>8, PlacesAreTaken
  <2> DEFINE f == [x \in C |-> Place(S, R, x)]
  <2>5. f \in Surjection(C, I)
    <3>1. f \in [C -> I]
      BY <1>1, <2>2, <2>4
    <3>2. \A k \in I : \E x \in C : f[x] = k
      BY <2>3
    <3> HIDE DEF f
    <3> QED BY <3>1, <3>2 DEF Surjection
  <2> HIDE DEF f
  <2>6. IsFiniteSet(C)
    <3>1. C \subseteq S
      BY <2>2
    <3> QED BY <1>3, <3>1, FS_Subset
  <2>7. Cardinality(I) <= Cardinality(C)
    BY <2>5, <2>6, FS_Surjection
  <2>8. Cardinality(I) = MaxAudit
    BY <1>1, FS_Interval
  <2>9. Cardinality(C) \in Nat /\ Cardinality(C) < MaxAudit
    BY <2>6, FS_CardinalityType DEF C, S
  <2> QED BY <1>1, <2>7, <2>8, <2>9
<1> QED BY <1>11, <1>12

LEMMA OwnHooksAre ==
  ASSUME NEW e \in DOMAIN Story
  PROVE  OwnHooks(e) \subseteq DOMAIN Hooks
<1>1. LoadedWebhooks(e) \in Seq(Webhook)
  BY LoadedIs
<1>2. ToSet(LoadedWebhooks(e)) \subseteq Webhook
  BY <1>1 DEF ToSet
<1> QED BY <1>2 DEF OwnHooks, Webhook

LEMMA AppendToSet ==
  ASSUME NEW T, NEW s \in Seq(T), NEW x
  PROVE  \A y \in ToSet(Append(s, x)) : y \in ToSet(s) \/ y = x
<1>1. Len(s) \in Nat /\ DOMAIN s = 1..Len(s)
  OBVIOUS
<1>2. DOMAIN Append(s, x) = 1..Len(s) + 1
  OBVIOUS
<1>3. \A i \in 1..Len(s) + 1 : i \in DOMAIN s \/ i = Len(s) + 1
  BY <1>1
<1>4. /\ \A i \in DOMAIN s : Append(s, x)[i] = s[i]
      /\ Append(s, x)[Len(s) + 1] = x
  BY <1>1
<1> QED BY <1>1, <1>2, <1>3, <1>4 DEF ToSet

\* Evidence(e, p) after the step.
EvidenceThen(e, p) ==
  /\ p.exc = e /\ p.hook = Story[e].hook /\ p.code = Story[e].code
  /\ p.projected = Story[e].pay
  /\ p.webhooks = capWebhooks(LoadedWebhooks(e), Story[e].hook)
  /\ \A row \in ToSet(p.retries) :
       /\ row.hook \in OwnHooks(e) /\ retry'[row.hook].status # "NONE"
       /\ row.status \in Over => ToldOf(row.hook, Telling(row.status))
  /\ \A row \in p.audit : row \in ToSet(audit') /\ OwnRow(e, row)

LEMMA EvidenceStays ==
  ASSUME Types, [Next]_vars, NEW e \in DOMAIN Story, NEW p, Evidence(e, p)
  PROVE  EvidenceThen(e, p)
<1>1. OwnHooks(e) \subseteq DOMAIN Hooks
  BY OwnHooksAre
<1>2. \A h \in DOMAIN Hooks : retry[h].status # "NONE" => retry'[h].status # "NONE"
  BY OnwardIs DEF Onward
<1>3. ToSet(audit) \subseteq ToSet(audit')
  BY TrailIs, RowsAre DEF Types
<1>4. \A row \in ToSet(p.retries) :
        /\ row.hook \in OwnHooks(e) /\ retry'[row.hook].status # "NONE"
        /\ row.status \in Over => ToldOf(row.hook, Telling(row.status))
  <2>1. \A h, types : OnTrail(h, types) => ToldOf(h, types)
    BY <1>3 DEF OnTrail, ToldOf
  <2> QED BY <1>1, <1>2, <2>1 DEF Evidence
<1>5. \A row \in p.audit : row \in ToSet(audit') /\ OwnRow(e, row)
  BY <1>3 DEF Evidence
<1> QED BY <1>4, <1>5 DEF Evidence, EvidenceThen

\* What a request needs of its package by the time it is at s.
Ready(s, e, p, answer, by) ==
  /\ s # "idle" => EvidenceThen(e, p)
  /\ s \in {"investigate", "create", "fallback"} => Complete(e, p)
  /\ s = "create" => validateInvestigationResult(p, answer) /\ Cautious(p, answer, by)

LEMMA BegunIsReady ==
  ASSUME NEW e \in DOMAIN Story
  PROVE  EvidenceThen(e, EvidenceOf(e))
<1> DEFINE p == EvidenceOf(e)
<1>1. /\ p.exc = e /\ p.code = Story[e].code /\ p.hook = Story[e].hook
      /\ p.projected = Story[e].pay
      /\ p.webhooks = capWebhooks(LoadedWebhooks(e), Story[e].hook)
      /\ p.retries = << >> /\ p.audit = {}
  BY PackageIs
<1>2. ToSet(p.retries) = {}
  BY <1>1 DEF ToSet
<1> HIDE DEF p
<1> QED BY <1>1, <1>2 DEF EvidenceThen, p

LEMMA ReadOneIsSound ==
  ASSUME Types, OverIsTold, NEW r \in Request, NEW e \in DOMAIN Story, Evidence(e, hand[r].package),
         hand[r].package \in Package, ReadOne(r)
  PROVE  Evidence(e, hand'[r].package)
<1> DEFINE p == hand[r].package
           new == hand'[r].package
<1>1. PICK w \in ToSet(p.webhooks) :
        /\ retry[w.id].status # "NONE"
        /\ new = [p EXCEPT !.retries =
                    Append(@, [hook |-> w.id, status |-> retry[w.id].status])]
  BY DEF ReadOne
<1> DEFINE row == [hook |-> w.id, status |-> retry[w.id].status]
<1>2. row.hook = w.id /\ row.status = retry[w.id].status
  OBVIOUS
<1>3. new = [p EXCEPT !.retries = Append(p.retries, row)]
  BY <1>1
<1>4. p \in Package /\ Evidence(e, p)
  OBVIOUS
<1> HIDE DEF row, p, new
<1>5. /\ new.exc = p.exc /\ new.code = p.code /\ new.hook = p.hook /\ new.projected = p.projected
      /\ new.webhooks = p.webhooks /\ new.audit = p.audit
      /\ new.retries = Append(p.retries, row) /\ p.retries \in Seq(RetryRow)
  BY <1>3, <1>4 DEF Package
<1>6. \A y \in ToSet(new.retries) : y \in ToSet(p.retries) \/ y = row
  BY <1>5, AppendToSet
<1>7. w.id \in OwnHooks(e)
  <2>1. ToSet(capWebhooks(LoadedWebhooks(e), Story[e].hook)) \subseteq ToSet(LoadedWebhooks(e))
    BY CappedIs
  <2>2. w \in ToSet(LoadedWebhooks(e))
    BY <1>1, <1>4, <2>1 DEF Evidence
  <2> QED BY <2>2 DEF OwnHooks
<1>8. \A y \in ToSet(new.retries) :
        /\ y.hook \in OwnHooks(e) /\ retry[y.hook].status # "NONE"
        /\ y.status \in Over => OnTrail(y.hook, Telling(y.status))
  <2>1. w.id \in DOMAIN Hooks
    BY <1>7, OwnHooksAre
  <2>2. row.status \in Over => OnTrail(row.hook, Telling(row.status))
    BY <1>2, <2>1 DEF OverIsTold
  <2> QED BY <1>1, <1>2, <1>4, <1>6, <1>7, <2>2 DEF Evidence
<1>9. Evidence(e, new)
  BY <1>4, <1>5, <1>8 DEF Evidence
<1> QED BY <1>9 DEF new

LEMMA ReadTrailIsSound ==
  ASSUME Types, Filed, NEW r \in Request, NEW e \in DOMAIN Story, hand[r].exc = e,
         Evidence(e, hand[r].package), hand[r].package \in Package, ReadTrail(r)
  PROVE  Evidence(e, hand'[r].package) /\ Complete(e, hand'[r].package)
<1> DEFINE p == hand[r].package
           new == hand'[r].package
           rows == capAudit(e, LoadedAudit(e))
<1>1. new = [p EXCEPT !.audit = rows]
  BY DEF ReadTrail
<1>2. p \in Package /\ Evidence(e, p)
  OBVIOUS
<1> HIDE DEF p, new, rows
<1>3. /\ new.exc = p.exc /\ new.code = p.code /\ new.hook = p.hook /\ new.projected = p.projected
      /\ new.webhooks = p.webhooks /\ new.audit = rows /\ new.retries = p.retries
  BY <1>1, <1>2 DEF Package
<1>4. \A row \in rows : row \in ToSet(audit) /\ OwnRow(e, row)
  BY CapIs DEF rows, LoadedAudit
<1>5. Evidence(e, new)
  BY <1>2, <1>3, <1>4 DEF Evidence
<1>6. ASSUME Cardinality(new.audit) < MaxAudit, Story[e].pay,
             NEW row \in ToSet(new.retries), row.status \in Over
      PROVE  \E told \in new.audit :
               told.hook = row.hook /\ told.type \in Telling(row.status)
  <2>1. new.audit = LoadedAudit(e)
    BY <1>3, <1>6, CapIsAll DEF rows
  <2>4. PICK told \in ToSet(audit) : /\ told.hook = row.hook /\ told.pay
                                     /\ told.type \in Telling(row.status)
    BY <1>2, <1>3, <1>6 DEF Evidence, OnTrail
  <2>5. ofPayment(e, told)
    BY <1>6, <2>4 DEF ofPayment
  <2>6. told \in LoadedAudit(e)
    BY <2>4, <2>5 DEF LoadedAudit, OwnRow
  <2> QED BY <2>1, <2>4, <2>6
<1>7. Complete(e, new)
  BY <1>6 DEF Complete
<1> QED BY <1>5, <1>7 DEF new

LEMMA PreparedKept ==
  ASSUME Types, Filed, PagesOK, OverIsTold, Prepared, [Next]_vars
  PROVE  Prepared'
<1>1. \A r \in Request : Turn(r)
  BY TurnsAre
<1>2. plan.of \subseteq DOMAIN Story
  BY DEF Types, Remaining
<1>3. ASSUME NEW r \in Request
      PROVE  Ready(pc'[r], hand'[r].exc, hand'[r].package, hand'[r].answer,
                   hand'[r].by)
  <2> DEFINE e == hand[r].exc
             p == hand[r].package
             f == hand'[r].exc
             q == hand'[r].package
  <2>1. pc[r] # "idle" => e \in DOMAIN Story /\ p \in Package /\ Evidence(e, p)
    BY <1>2 DEF Types, Prepared
  <2>2. /\ pc[r] \in {"investigate", "create", "fallback"} => Complete(e, p)
        /\ pc[r] = "create" => /\ validateInvestigationResult(p, hand[r].answer)
                               /\ Cautious(p, hand[r].answer, hand[r].by)
    BY DEF Prepared
  <2>3. \A x : pc[r] # "idle" /\ Evidence(e, x) => EvidenceThen(e, x)
    BY <2>1, EvidenceStays
  <2>4. CASE Began(r)
    <3>1. f \in DOMAIN Story /\ q = EvidenceOf(f) /\ pc'[r] = "retries"
      BY <1>2, <2>4 DEF Began
    <3> HIDE DEF f, q
    <3>2. EvidenceThen(f, q)
      BY <3>1, BegunIsReady
    <3> QED BY <3>1, <3>2 DEF Ready, f, q
  <2>5. CASE ReadOne(r)
    <3>1. pc[r] # "idle" /\ pc'[r] = "retries" /\ f = e
      BY <2>5 DEF ReadOne, SameButPackage, SamePlea
    <3>2. Evidence(e, q)
      BY <2>1, <2>5, <3>1, ReadOneIsSound
    <3> QED BY <2>3, <3>1, <3>2 DEF Ready
  <2>6. CASE ReadTrail(r)
    <3>1. pc[r] # "idle" /\ pc'[r] = "investigate" /\ f = e
      BY <2>6 DEF ReadTrail, SameButPackage, SamePlea
    <3>2. Evidence(e, q) /\ Complete(e, q)
      BY <2>1, <2>6, <3>1, ReadTrailIsSound
    <3> QED BY <2>3, <3>1, <3>2 DEF Ready
  <2>7. CASE Answered(r)
    <3>1. /\ pc[r] = "investigate" /\ pc'[r] = "create" /\ f = e /\ q = p
          /\ validateInvestigationResult(p, hand'[r].answer)
          /\ Cautious(p, hand'[r].answer, hand'[r].by)
      BY <2>7 DEF Answered, SamePlea
    <3> QED BY <2>1, <2>2, <2>3, <3>1 DEF Ready
  <2>11. CASE Refused(r)
    <3>1. pc[r] = "investigate" /\ pc'[r] = "fallback" /\ f = e /\ q = p
      BY <2>11 DEF Refused, SamePlea
    <3> QED BY <2>1, <2>2, <2>3, <3>1 DEF Ready
  <2>8. CASE Stored(r) \/ Failed(r)
    <3>1. pc[r] # "idle" /\ pc'[r] \in {"append", "answer"} /\ f = e /\ q = p
      BY <2>8 DEF Stored, Failed, SamePlea
    <3> QED BY <2>1, <2>3, <3>1 DEF Ready
  <2>9. CASE PassedOn(r) \/ (pc'[r] = pc[r] /\ hand'[r] = hand[r])
    <3>1. /\ hand'[r] = hand[r] /\ (pc[r] = "idle" => pc'[r] = "idle")
          /\ pc'[r] = "create" => pc[r] = "create"
          /\ pc'[r] \in {"investigate", "create", "fallback"} =>
               pc[r] \in {"investigate", "create", "fallback"}
      BY <2>9 DEF PassedOn
    <3> QED BY <2>1, <2>2, <2>3, <3>1 DEF Ready
  <2>10. CASE Ended(r)
    BY <2>10 DEF Ended, Ready
  <2> QED BY <1>1, <2>4, <2>5, <2>6, <2>7, <2>8, <2>9, <2>10, <2>11 DEF Turn
<1>4. \A r \in Request :
        /\ pc'[r] # "idle" => EvidenceThen(hand'[r].exc, hand'[r].package)
        /\ pc'[r] \in {"investigate", "create", "fallback"} =>
             Complete(hand'[r].exc, hand'[r].package)
        /\ pc'[r] = "create" =>
             /\ validateInvestigationResult(hand'[r].package, hand'[r].answer)
             /\ Cautious(hand'[r].package, hand'[r].answer, hand'[r].by)
  BY <1>3 DEF Ready
<1> QED BY <1>4 DEF Prepared, Evidence, EvidenceThen, OnTrail, ToldOf

\* A record is validated as the answer it was made from.
LEMMA ValidAs ==
  ASSUME NEW p, NEW a, NEW x, validateInvestigationResult(p, a),
         x.type = a.type, x.confidence = a.confidence, x.cites = a.cites,
         x.mentions = a.mentions, x.limits = a.limits
  PROVE  validateInvestigationResult(p, x)
BY DEF validateInvestigationResult, createInvestigationResult, Invented

LEMMA KeptKept ==
  ASSUME Types, Filed, Prepared, Kept, [Next]_vars
  PROVE  Kept'
<1>1. ASSUME NEW x \in records
      PROVE  /\ EvidenceThen(x.exc, x.package) /\ Complete(x.exc, x.package)
             /\ validateInvestigationResult(x.package, x) /\ Cautious(x.package, x, x.by)
  <2>1. x.exc \in DOMAIN Story
    BY DEF Types, Investigation
  <2> DEFINE e == x.exc
             p == x.package
  <2>2. e \in DOMAIN Story /\ Evidence(e, p)
    BY <2>1 DEF Kept
  <2> HIDE DEF e, p
  <2>3. EvidenceThen(e, p)
    BY <2>2, EvidenceStays
  <2> QED BY <2>3 DEF Kept, e, p
<1>2. ASSUME NEW r \in Request, OneMore(r)
      PROVE  LET x == RecordOf(r)
             IN  /\ EvidenceThen(x.exc, x.package) /\ Complete(x.exc, x.package)
                 /\ validateInvestigationResult(x.package, x)
                 /\ Cautious(x.package, x, x.by)
  <2> DEFINE x == RecordOf(r)
             e == hand[r].exc
             p == hand[r].package
             a == AnswerAt(r).answer
             by == AnswerAt(r).by
  <2>1. pc[r] \in {"create", "fallback"} /\ Creatable(r)
    BY <1>2 DEF OneMore
  <2>2. x.exc = e /\ x.package = p
    BY <1>2, OneMoreIs
  <2>3. /\ x.type = a.type /\ x.confidence = a.confidence /\ x.cites = a.cites
        /\ x.mentions = a.mentions /\ x.limits = a.limits /\ x.by = by
    BY <2>1, NewIdIs, RecordIs
  <2>4. e \in DOMAIN Story /\ p \in Package /\ Evidence(e, p) /\ Complete(e, p)
    BY <2>1 DEF Types, Remaining, Prepared
  <2>5. validateInvestigationResult(p, a) /\ Cautious(p, a, by)
    <3>1. CASE pc[r] = "create"
      <4>1. a = hand[r].answer /\ by = hand[r].by
        BY <3>1 DEF AnswerAt
      <4> QED BY <3>1, <4>1 DEF Prepared
    <3>2. CASE pc[r] # "create"
      <4>1. a = StandIn(r) /\ validateInvestigationResult(p, StandIn(r))
        BY <2>1, <3>2 DEF AnswerAt, Creatable
      <4>2. StandIn(r).confidence = "LOW"
        <5>1. hand[r].reason \in SUBSET Name
          BY DEF Types, Plea
        <5> QED BY <2>4, <5>1, StandInIs DEF StandIn
      <4> HIDE DEF p, a
      <4> QED BY <4>1, <4>2 DEF Cautious
    <3> QED BY <3>1, <3>2
  <2> HIDE DEF x, e, p, a, by
  <2>6. EvidenceThen(e, p)
    BY <2>4, EvidenceStays
  <2>7. validateInvestigationResult(p, x)
    BY <2>3, <2>5, ValidAs
  <2>8. Cautious(p, x, x.by)
    BY <2>3, <2>5 DEF Cautious
  <2> QED BY <2>2, <2>4, <2>6, <2>7, <2>8 DEF x
<1>3. \A x \in records' :
        /\ EvidenceThen(x.exc, x.package) /\ Complete(x.exc, x.package)
        /\ validateInvestigationResult(x.package, x) /\ Cautious(x.package, x, x.by)
  <2>1. CASE records' = records
    BY <1>1, <2>1
  <2>2. CASE \E r \in Request : OneMore(r)
    BY <1>1, <1>2, <2>2, OneMoreIs
  <2> QED BY <2>1, <2>2, RecordsAre
<1> QED BY <1>3 DEF Kept, Evidence, EvidenceThen, OnTrail, ToldOf

-----------------------------------------------------------------------------
(* The start *)

LEMMA PastIs ==
  ASSUME plan \in Plan
  PROVE  /\ Past(plan.past) \in Seq(Draft)
         /\ Len(Past(plan.past)) \in Nat /\ DOMAIN plan.past = 1..Len(Past(plan.past))
         /\ \A i \in 1..Len(Past(plan.past)) :
              LET row == Past(plan.past)[i]
              IN  /\ row.at = 0 /\ row.type # "INVESTIGATION_RECORDED"
                  /\ row.type = plan.past[i].type /\ row.hook = plan.past[i].hook
                  /\ row.pay = plan.past[i].pay
<1> DEFINE s == plan.past
           R(i) == Row(s[i].type, s[i].hook, s[i].pay, s[i].corr, 0, 0)
<1>1. s \in Seq(PastRow)
  BY DEF Plan, PastRow
<1> HIDE DEF s
<1>2. Len(s) \in Nat /\ DOMAIN s = 1..Len(s) /\ \A i \in 1..Len(s) : s[i] \in PastRow
  BY <1>1
<1>3. \A i \in 1..Len(s) :
        /\ R(i) \in Draft /\ R(i).at = 0 /\ R(i).type # "INVESTIGATION_RECORDED"
        /\ R(i).type = s[i].type /\ R(i).hook = s[i].hook /\ R(i).pay = s[i].pay
  BY <1>2 DEF PastRow, Row, Draft
<1>4. Past(s) = [i \in 1..Len(s) |-> R(i)]
  BY <1>2 DEF Past
<1> HIDE DEF R
<1>5. Past(s) \in [1..Len(s) -> Draft]
  BY <1>3, <1>4
<1>6. Past(s) \in Seq(Draft) /\ Len(Past(s)) = Len(s)
  BY <1>2, <1>5
<1>7. \A i \in 1..Len(s) : Past(s)[i] = R(i)
  BY <1>4
<1> QED BY <1>2, <1>3, <1>6, <1>7 DEF s

\* A request that is not at work holds nothing.
Idle == \A r \in Request : pc[r] = "idle" => hand[r] = NoPlea

ConsoleInv == AllInv /\ Idle

LEMMA IdleKept ==
  ASSUME Types, Filed, PagesOK, Idle, [Next]_vars
  PROVE  Idle'
<1>1. \A r \in Request : Turn(r)
  BY TurnsAre
<1>2. ASSUME NEW r \in Request, pc'[r] = "idle" PROVE hand'[r] = NoPlea
  BY <1>1, <1>2 DEF Turn, Began, ReadOne, ReadTrail, Answered, Refused, Stored, PassedOn, Failed, Ended, Idle
<1>3. NoPlea' = NoPlea
  BY DEF NoPlea
<1> QED BY <1>2, <1>3 DEF Idle

LEMMA InitIs ==
  ASSUME Init
  PROVE  ConsoleInv
<1>1. plan \in Plan
  BY ConsoleAssumption DEF Init
<1>2. plan \in Remaining
  BY <1>1 DEF Plan, Remaining, Investigators, RetryState, RetryStatus, Moves, PastRow
<1> DEFINE rows == Past(plan.past)
<1>3. /\ rows \in Seq(Draft) /\ Len(rows) \in Nat /\ DOMAIN plan.past = 1..Len(rows)
      /\ \A i \in 1..Len(rows) :
           /\ rows[i].at = 0 /\ rows[i].type # "INVESTIGATION_RECORDED"
           /\ rows[i].type = plan.past[i].type /\ rows[i].hook = plan.past[i].hook
           /\ rows[i].pay = plan.past[i].pay
  BY <1>1, PastIs
<1>4. audit = Numbered(rows, 0)
  BY DEF Init
<1> HIDE DEF rows
<1>5. /\ audit \in Seq(AuditRow) /\ Len(audit) = Len(rows)
      /\ \A i \in 1..Len(rows) :
           /\ audit[i].id = i /\ audit[i].at = 0 /\ audit[i].type # "INVESTIGATION_RECORDED"
           /\ audit[i].type = rows[i].type /\ audit[i].hook = rows[i].hook
           /\ audit[i].pay = rows[i].pay
  <2>1. /\ Numbered(rows, 0) \in Seq(AuditRow)
        /\ Len(Numbered(rows, 0)) = Len(rows)
        /\ \A i \in 1..Len(rows) :
             LET row == Numbered(rows, 0)[i]
             IN  /\ row.id = 0 + i /\ row.type = rows[i].type
                 /\ row.hook = rows[i].hook /\ row.pay = rows[i].pay
                 /\ row.corr = rows[i].corr /\ row.at = rows[i].at
                 /\ row.about = rows[i].about
    BY <1>3, NumberedIs
  <2>2. \A i \in 1..Len(rows) : 0 + i = i
    BY <1>3
  <2> QED BY <1>3, <1>4, <2>1, <2>2
<1>6. DOMAIN audit = 1..Len(rows)
  BY <1>3, <1>5
<1>7. \A row \in ToSet(audit) : row.at = 0 /\ row.type # "INVESTIGATION_RECORDED"
  BY <1>5, <1>6 DEF ToSet
<1>8. retry = plan.retry /\ retry \in [DOMAIN Hooks -> RetryState]
  BY <1>2, HooksAre DEF Init, Remaining
<1>9. /\ clock = 1 /\ records = {} /\ mounts = 0 /\ echoed = {} /\ attempts = {}
      /\ \A r \in Request : pc[r] = "idle" /\ hand[r] = NoPlea
      /\ \A t \in Tab : tabs[t] = Blank
  BY DEF Init
<1>10. Blank \in PageState
  BY DEF Blank, PageState, Steps, NoTimeline
<1>11. Types
  <2>1. pc \in [Request -> Awaits] /\ hand \in [Request -> Plea] /\ tabs \in [Tab -> PageState]
    BY <1>10, NoPleaIs, SomeAwaits DEF Init
  <2> QED BY <1>2, <1>5, <1>8, <1>9, <2>1 DEF Types
<1>12. Filed
  <2>1. Cardinality({}) = 0 /\ IsFiniteSet({})
    BY FS_EmptySet
  <2>2. Ids = {}
    BY <1>9 DEF Ids
  <2> QED BY <1>5, <1>6, <1>9, <2>1, <2>2 DEF Filed
<1>13. Working /\ Prepared /\ Idle
  BY <1>9 DEF Working, Prepared, Idle
<1>14. RecordsAudited
  <2>1. LoggedIds = {} /\ Ids = {}
    BY <1>7, <1>9 DEF LoggedIds, Ids
  <2> QED BY <2>1, AuditedIs
<1>15. PagesOK
  <2>1. /\ Blank.mount = 0 /\ Blank.kind = "none" /\ Blank.held = 0
        /\ Blank.timeline.latest = 0 /\ Blank.timeline.rows = 0 /\ Blank.shown = << >>
    BY DEF Blank, NoTimeline
  <2> QED BY <1>3, <1>5, <1>9, <2>1 DEF PagesOK
<1>16. Clicked
  BY <1>9 DEF Clicked, OnPage
<1>17. OverIsTold
  <2>1. ASSUME NEW h \in DOMAIN Hooks, retry[h].status \in Over
        PROVE  OnTrail(h, Telling(retry[h].status))
    <3>1. plan \in Plans
      BY DEF Init
    <3>2. PICK i \in DOMAIN plan.past :
            /\ plan.past[i].hook = h /\ plan.past[i].pay
            /\ plan.past[i].type \in Telling(retry[h].status)
      BY <1>8, <2>1, <3>1, ConsoleAssumption
    <3>3. i \in 1..Len(rows)
      BY <1>3
    <3>4. audit[i].hook = h /\ audit[i].pay /\ audit[i].type \in Telling(retry[h].status)
      BY <1>3, <1>5, <3>2, <3>3
    <3>5. audit[i] \in ToSet(audit)
      BY <1>6, <3>3 DEF ToSet
    <3> QED BY <3>4, <3>5 DEF OnTrail
  <2> QED BY <1>9, <2>1 DEF OverIsTold
<1>18. Sources
  BY <1>7 DEF Sources
<1>19. Kept
  BY <1>9 DEF Kept
<1> QED BY <1>11, <1>12, <1>13, <1>14, <1>15, <1>16, <1>17, <1>18, <1>19 DEF ConsoleInv, AllInv

\* Whatever the constants, what the reads, the answers, the pages and the trail
\* rely on holds at all times.
THEOREM ConsoleInvariant ==
  Spec => []ConsoleInv
<1>1. Init => ConsoleInv
  BY InitIs
<1>2. ConsoleInv /\ [Next]_vars => ConsoleInv'
  <2> SUFFICES ASSUME ConsoleInv, [Next]_vars PROVE ConsoleInv'
    OBVIOUS
  <2>1. Types'
    BY TypesKept DEF ConsoleInv, AllInv
  <2>2. Filed' /\ Working'
    BY FiledKept, WorkingKept DEF ConsoleInv, AllInv
  <2>3. PagesOK' /\ Clicked'
    BY PagesKept, ClickedKept DEF ConsoleInv, AllInv
  <2>4. RecordsAudited' /\ OverIsTold' /\ Sources'
    BY RecordsAuditedKept, OverIsToldKept, SourcesKept DEF ConsoleInv, AllInv
  <2>5. Prepared' /\ Kept' /\ Idle'
    BY PreparedKept, KeptKept, IdleKept DEF ConsoleInv, AllInv
  <2> QED BY <2>1, <2>2, <2>3, <2>4, <2>5 DEF ConsoleInv, AllInv
<1> QED BY <1>1, <1>2, PTL DEF Spec

-----------------------------------------------------------------------------
(* What follows *)

\* The trail is never renumbered, ids of investigations are never given twice,
\* and a page only ever refers to investigations and rows there are.
THEOREM TypeCorrect ==
  Spec => []TypeOK
<1>1. ConsoleInv => TypeOK
  <2> SUFFICES ASSUME ConsoleInv PROVE TypeOK
    OBVIOUS
  <2>1. Types /\ Filed /\ PagesOK /\ Idle
    BY DEF ConsoleInv, AllInv
  <2>2. clock \in Nat /\ mounts \in Nat /\ audit \in Seq(AuditRow) /\ Len(audit) \in Nat
    BY <2>1 DEF Types
  <2>3. /\ retry \in [DOMAIN Hooks -> [status : RETRY_STATUSES \cup {"NONE"}, att : Nat]]
        /\ attempts \subseteq [kind : Ends, hook : DOMAIN Hooks, at : Int,
                               att : Nat \ {0}, step : {"announce", "tell", "settle"}]
    BY <2>1 DEF Types, RetryState, RetryStatus, Attempt
  <2>4. \A i \in DOMAIN audit :
          /\ audit[i].id = i
          /\ audit[i].hook \in 0..Len(Hooks) /\ audit[i].pay \in BOOLEAN
    <3>1. \A i \in DOMAIN audit : audit[i] \in AuditRow
      BY <2>2
    <3> QED BY <2>1, <3>1 DEF Filed, AuditRow
  <2>5. \A x \in records :
          /\ x.exc \in plan.of /\ x.at \in 1..clock
          /\ x.type \in INVESTIGATION_INCIDENT_TYPES
          /\ x.confidence \in CONFIDENCES
    BY <2>1 DEF Types, Investigation, Filed
  <2>6. pc \in [Request -> ToSet(Reads) \cup {"idle", "create", "fallback", "append", "answer"}]
    <3>1. {"retries", "audit", "investigate"} \subseteq ToSet(Reads)
      <4>1. DOMAIN Reads = {1, 2, 3} /\ Reads[1] = "retries" /\ Reads[2] = "audit"
            /\ Reads[3] = "investigate"
        BY DEF Reads
      <4> QED BY <4>1 DEF ToSet
    <3>2. Awaits \subseteq ToSet(Reads) \cup {"idle", "create", "fallback", "append", "answer"}
      BY <3>1 DEF Awaits
    <3>3. pc \in [Request -> Awaits]
      BY <2>1 DEF Types
    <3> QED BY <3>2, <3>3
  <2>7. \A r \in Request : hand[r].tab \in Tab \cup {0} /\ hand[r].mount \in 0..mounts
    <3> TAKE r \in Request
    <3>1. hand[r].tab \in Tab \cup {0} /\ hand[r].mount \in Nat
      BY <2>1 DEF Types, Plea
    <3>2. CASE pc[r] = "idle"
      BY <2>1, <2>2, <3>1, <3>2 DEF Idle, NoPlea
    <3>3. CASE pc[r] # "idle"
      BY <2>1, <2>2, <3>1, <3>3 DEF PagesOK
    <3> QED BY <3>2, <3>3, <3>1
  <2>8. \A t \in Tab :
          /\ tabs[t].step \in {"record", "trail", "latest", "show", "list", "done",
                              "failed"}
          /\ tabs[t].held \in Ids \cup {0}
          /\ ToSet(tabs[t].shown) \subseteq Ids
          /\ tabs[t].timeline \in [rows : 0..Len(audit), latest : Ids \cup {0}]
    <3> TAKE t \in Tab
    <3> DEFINE p == tabs[t]
    <3>1. p \in PageState
      BY <2>1 DEF Types
    <3>2. \A id, e : IsOf(id, e) => id \in Ids
      BY DEF IsOf, Ids
    <3>3. /\ p.held # 0 => p.held \in Ids
          /\ p.timeline.latest # 0 => p.timeline.latest \in Ids
          /\ \A i \in DOMAIN p.shown : p.shown[i] \in Ids
          /\ p.timeline.rows <= Len(audit)
      BY <2>1, <3>2 DEF PagesOK
    <3> HIDE DEF p
    <3>4. p.step \in Steps /\ p.timeline \in [rows : Nat, latest : Nat]
      BY <3>1 DEF PageState
    <3>5. p.timeline \in [rows : 0..Len(audit), latest : Ids \cup {0}]
      <4>1. p.timeline.rows \in 0..Len(audit) /\ p.timeline.latest \in Ids \cup {0}
        BY <2>2, <3>3, <3>4
      <4> QED BY <3>4, <4>1
    <3>6. ToSet(p.shown) \subseteq Ids
      BY <3>3 DEF ToSet
    <3> QED BY <3>3, <3>4, <3>5, <3>6 DEF p, Steps
  <2>9. Ids = 1..Cardinality(records)
    BY <2>1 DEF Filed
  <2> QED BY <2>2, <2>3, <2>4, <2>5, <2>6, <2>7, <2>8, <2>9 DEF TypeOK
<1> QED BY <1>1, ConsoleInvariant, PTL

\* Whatever a model answers and whichever request fails, what a record cites is
\* of its own exception, payment and webhooks, and so is what its prose names.
\* Its limitations are another matter: no step binds those to anything, and none
\* is needed. Over evidence that contradicts itself the confidence is LOW, or a
\* model's MEDIUM.
THEOREM CitesItsOwn ==
  Spec => []AnswersGrounded
<1>1. ConsoleInv => AnswersGrounded
  <2> SUFFICES ASSUME ConsoleInv, NEW x \in records
               PROVE  /\ \A cite \in x.cites : OwnCite(x.exc, cite)
                      /\ \A m \in x.mentions : OwnName(x.exc, m)
                      /\ evidenceConflictNote(x.package) =>
                           \/ x.confidence = "LOW"
                           \/ x.by = "openai" /\ x.confidence = "MEDIUM"
    BY DEF AnswersGrounded
  <2> DEFINE e == x.exc
             p == x.package
  <2>1. Types /\ Filed /\ Kept
    BY DEF ConsoleInv, AllInv
  <2>2. /\ e \in DOMAIN Story /\ Evidence(e, p) /\ validateInvestigationResult(p, x)
        /\ Cautious(p, x, x.by) /\ x.confidence \in CONFIDENCES
    BY <2>1 DEF Kept, Types, Investigation
  <2> HIDE DEF e, p
  <2>3. /\ p.exc = e /\ p.hook = Story[e].hook
        /\ p.webhooks = capWebhooks(LoadedWebhooks(e), Story[e].hook)
        /\ \A row \in ToSet(p.retries) :
             row.hook \in OwnHooks(e) /\ retry[row.hook].status # "NONE"
        /\ \A row \in p.audit : row \in ToSet(audit) /\ OwnRow(e, row)
    BY <2>2 DEF Evidence
  <2>4. /\ \A w \in ToSet(p.webhooks) : w.id \in OwnHooks(e)
        /\ p.hook # 0 => p.hook \in OwnHooks(e)
    <3>1. ToSet(p.webhooks) \subseteq ToSet(LoadedWebhooks(e))
      BY <2>2, <2>3, CappedIs
    <3>2. p.hook # 0 => \E w \in ToSet(p.webhooks) : w.id = p.hook
      BY <2>2, <2>3, CappedIs
    <3> QED BY <3>1, <3>2 DEF OwnHooks
  <2>5. \A row \in p.audit : audit[row.id] = row
    <3>1. \A row \in ToSet(audit) : audit[row.id] = row
      BY <2>1 DEF ToSet, Filed
    <3> QED BY <2>3, <3>1
  <2>6. ASSUME NEW cite \in x.cites PROVE OwnCite(e, cite)
    <3>1. evidenceAllowed(p, cite)
      BY <2>2 DEF validateInvestigationResult
    <3>2. \/ cite[1] \in {"EXCEPTION", "INCIDENT"} /\ cite[2] = p.exc
          \/ cite[1] = "WEBHOOK_EVENT" /\ \E row \in ToSet(p.webhooks) : row.id = cite[2]
          \/ /\ cite[1] \in {"AUDIT_EVENT", "STATE_TRANSITION"}
             /\ \E row \in p.audit : row.id = cite[2]
          \/ cite[1] = "RETRY_ATTEMPT" /\ \E row \in ToSet(p.retries) : row.hook = cite[2]
      BY <3>1 DEF evidenceAllowed
    <3> QED BY <2>3, <2>4, <2>5, <3>2 DEF OwnCite
  <2>7. ASSUME NEW m \in x.mentions PROVE OwnName(e, m)
    <3>1. m \in contextIdentifierCatalog(p)
      BY <2>2 DEF validateInvestigationResult, Invented
    <3>2. \/ m = <<"exception", p.exc>>
          \/ p.hook # 0 /\ m = <<"hook", p.hook>>
          \/ \E row \in ToSet(p.webhooks) : m = <<"hook", row.id>>
          \/ \E row \in p.audit : m = <<"audit", row.id>>
          \/ \E row \in ToSet(p.retries) : m = <<"retry", row.hook>>
      BY <3>1, Zenon DEF contextIdentifierCatalog
    <3>3. \/ m = <<"exception", e>>
          \/ m[1] = "hook" /\ m[2] \in OwnHooks(e)
          \/ m[1] = "audit" /\ OwnRow(e, audit[m[2]])
          \/ m[1] = "retry" /\ m[2] \in OwnHooks(e) /\ retry[m[2]].status # "NONE"
      BY <2>3, <2>4, <2>5, <3>2
    <3> QED BY <3>3 DEF OwnName
  <2>8. evidenceConflictNote(p) =>
          x.confidence = "LOW" \/ (x.by = "openai" /\ x.confidence = "MEDIUM")
    <3>1. evidenceConflictNote(p) => x.confidence # "HIGH"
      BY <2>2 DEF validateInvestigationResult
    <3> QED BY <2>2, <3>1 DEF Cautious, CONFIDENCES
  <2> QED BY <2>6, <2>7, <2>8 DEF e, p
<1> QED BY <1>1, ConsoleInvariant, PTL

\* An exception that came with nothing else keeps coming with nothing: whoever
\* looks into it, the row that is logged is filed under the caller's request,
\* so nothing it will be told next time is of its own.
THEOREM NothingFromItself ==
  Spec => []NoEvidenceOfItsOwn
<1>1. ConsoleInv => NoEvidenceOfItsOwn
  <2> SUFFICES ASSUME ConsoleInv, NEW x \in records,
                      Bare(x.exc), Story[x.exc].corr \notin echoed,
                      \A row \in ToSet(audit) : row.at = 0 => ~ofCorrelation(x.exc, row)
               PROVE  x.type = "INSUFFICIENT_EVIDENCE"
    BY DEF NoEvidenceOfItsOwn
  <2> DEFINE e == x.exc
             p == x.package
  <2>1. Types /\ Sources /\ Kept
    BY DEF ConsoleInv, AllInv
  <2>2. e \in DOMAIN Story /\ Evidence(e, p) /\ validateInvestigationResult(p, x)
    BY <2>1 DEF Kept, Types, Investigation
  <2>3. p.retries \in Seq(RetryRow)
    BY <2>1 DEF Types, Investigation, Package
  <2>4. /\ Bare(e) /\ Story[e].corr \notin echoed
        /\ \A row \in ToSet(audit) : row.at = 0 => ~ofCorrelation(e, row)
    OBVIOUS
  <2> HIDE DEF e, p
  <2>5. LoadedWebhooks(e) = << >>
    BY <2>2, <2>4, StoryIs DEF Bare, LoadedWebhooks
  <2>6. p.webhooks = << >> /\ OwnHooks(e) = {}
    <3>1. p.webhooks = LoadedWebhooks(e)
      BY <2>2, <2>4, CappedIs DEF Evidence, Bare
    <3> QED BY <2>5, <3>1 DEF OwnHooks, ToSet
  <2>7. p.retries = << >>
    <3>1. ToSet(p.retries) = {}
      BY <2>2, <2>6 DEF Evidence
    <3>2. \A i \in DOMAIN p.retries : p.retries[i] \in ToSet(p.retries)
      BY DEF ToSet
    <3>3. p.retries # << >> => 1 \in DOMAIN p.retries
      BY <2>3
    <3> QED BY <3>1, <3>2, <3>3
  <2>8. p.audit = {}
    <3> SUFFICES ASSUME NEW row \in p.audit PROVE FALSE
      OBVIOUS
    <3>1. row \in ToSet(audit) /\ OwnRow(e, row)
      BY <2>2 DEF Evidence
    <3>2. ofCorrelation(e, row)
      BY <2>4, <3>1 DEF OwnRow, ofPayment, ofWebhook, Bare
    <3>3. row.corr # 0 /\ row.corr = Story[e].corr
      BY <3>2 DEF ofCorrelation
    <3>4. row.at = 0 \/ row.corr \in DOMAIN Hooks \/ row.corr \in echoed \cup {0}
      BY <2>1, <3>1 DEF Sources
    <3> QED BY <2>4, <3>1, <3>2, <3>3, <3>4 DEF Bare
  <2>9. isInsufficientEvidence(p)
    BY <2>2, <2>4, <2>6, <2>7, <2>8, StoryIs DEF isInsufficientEvidence, Evidence, Bare
  <2> QED BY <2>2, <2>9 DEF validateInvestigationResult
<1> QED BY <1>1, ConsoleInvariant, PTL

\* However requests interleave and whichever statement of theirs fails, the
\* trail names only stored investigations, and lacks one only where the append
\* is still to come or something failed.
THEOREM EveryRecordIsAudited ==
  Spec => []RecordsAudited
<1>1. ConsoleInv => RecordsAudited
  BY DEF ConsoleInv, AllInv
<1> QED BY <1>1, ConsoleInvariant, PTL

\* The evidence of an investigation has the webhook that the exception is about
\* however many there are, and for each retry row that is over an audit row that
\* tells how it came to that, although attempts overlap, fall silent and commit
\* between the reads: how a row ends is told before it does.
THEOREM EvidenceMissesNothing ==
  Spec => []EvidenceSound
<1>1. ConsoleInv => EvidenceSound
  <2> SUFFICES ASSUME ConsoleInv, NEW x \in records
               PROVE  /\ Story[x.exc].hook # 0 =>
                           \E w \in ToSet(x.package.webhooks) : w.id = Story[x.exc].hook
                      /\ Cardinality(x.package.audit) < MaxAudit /\ Story[x.exc].pay =>
                           \A row \in {y \in ToSet(x.package.retries) : y.status \in Over} :
                             \E told \in x.package.audit :
                               told.hook = row.hook /\ told.type \in Telling(row.status)
    BY DEF EvidenceSound
  <2> DEFINE e == x.exc
             p == x.package
  <2>1. Types /\ Kept
    BY DEF ConsoleInv, AllInv
  <2>2. e \in DOMAIN Story /\ Evidence(e, p) /\ Complete(e, p)
    BY <2>1 DEF Kept, Types, Investigation
  <2> HIDE DEF e, p
  <2>3. Story[e].hook # 0 => \E w \in ToSet(p.webhooks) : w.id = Story[e].hook
    BY <2>2, CappedIs DEF Evidence
  <2>4. ASSUME Cardinality(p.audit) < MaxAudit, Story[e].pay,
               NEW row \in ToSet(p.retries), row.status \in Over
        PROVE  \E told \in p.audit : told.hook = row.hook /\ told.type \in Telling(row.status)
    BY <2>2, <2>4 DEF Complete
  <2> QED BY <2>3, <2>4 DEF e, p
<1> QED BY <1>1, ConsoleInvariant, PTL

\* While a page stays, no load and no answer replaces what it shows first by an
\* older investigation.
THEOREM NewestStays ==
  Spec => NeverOlder
<1> DEFINE Kept2 == \A t \in Tab :
                      /\ tabs'[t].mount = tabs[t].mount
                      /\ tabs[t].shown # << >>
                      => tabs'[t].shown # << >> /\ ShownAt(t) <= ShownAt(t)'
<1>1. ConsoleInv /\ [Next]_vars => [Kept2]_vars
  <2> SUFFICES ASSUME ConsoleInv, [Next]_vars, NEW t \in Tab,
                      tabs'[t].mount = tabs[t].mount, tabs[t].shown # << >>
               PROVE  tabs'[t].shown # << >> /\ ShownAt(t) <= ShownAt(t)'
    OBVIOUS
  <2>1. Types /\ Filed /\ Working /\ PagesOK /\ Clicked
    BY DEF ConsoleInv, AllInv
  <2> QED BY <2>1, NeverOlderStep
<1>2. NeverOlder <=> [][Kept2]_vars
  BY PTL DEF NeverOlder
<1> QED BY <1>1, <1>2, ConsoleInvariant, PTL DEF Spec

\* Whatever late answer comes in, what a page shows is of its own exception.
THEOREM PagesKeepToTheirs ==
  Spec => []PagesShowTheirOwn
<1>1. ConsoleInv => PagesShowTheirOwn
  <2> SUFFICES ASSUME ConsoleInv, NEW t \in Tab, NEW i \in DOMAIN tabs[t].shown
               PROVE  InvestigationOf(tabs[t].shown[i]).exc = tabs[t].exc
    BY DEF PagesShowTheirOwn
  <2>1. Filed /\ PagesOK
    BY DEF ConsoleInv, AllInv
  <2>2. PICK x \in records : x.id = tabs[t].shown[i] /\ x.exc = tabs[t].exc
    BY <2>1 DEF PagesOK, IsOf
  <2>3. InvestigationOf(x.id) = x
    BY <2>1, InvestigationIs
  <2> QED BY <2>2, <2>3
<1> QED BY <1>1, ConsoleInvariant, PTL
=============================================================================
