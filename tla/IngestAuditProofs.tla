--------------------------- MODULE IngestAuditProofs ---------------------------
(***************************************************************************)
(* What the ingest route leaves on record, for any deliveries, requests,   *)
(* workers, traffic and faults: the audit trail tells each event's outcome *)
(* exactly, its receipt is there once, whatever was given up is on the     *)
(* operators' list, and no fault takes more of these than the requests and *)
(* workers that were under way. The last part is the type invariant.       *)
(***************************************************************************)
EXTENDS IngestProofs

-----------------------------------------------------------------------------
(* The invariant *)

EventStatuses == {"ABSENT", "RECEIVED", "PROCESSING", "PROCESSED", "CONFLICT"}

RowStatuses ==
  {"NONE", "PENDING", "PROCESSING", "RETRY_SCHEDULED", "SUCCEEDED",
   "DEAD_LETTERED"}

RowType == [status : RowStatuses, att : Nat, failed : BOOLEAN]

Tables ==
  /\ status \in [Identity -> EventStatuses]
  /\ row \in [Identity -> RowType]
  /\ audit \in [Identity -> [AuditTypes -> Nat]]
  /\ pc \in [Proc -> Points]

\* One attempt at a time, on a row that says so.
Alone ==
  \A p, q \in Proc, i \in Identity : Holds(p, i) /\ Holds(q, i) => p = q

\* From the second attempt on the holder of a row knows that it tries again.
Knows(p) ==
  pc[p] \in HoldPoints =>
    LET r == row[hand[p].id]
    IN  r.status = "PROCESSING" /\ (r.att > 1 => hand[p].again)

\* The decision about to be committed is on an event that is still PROCESSING.
Deciding(p) ==
  LET c == hand[p].cause
  IN  pc[p] = "commit" /\ c.met # NoMeeting =>
        /\ status[hand[p].id] = "PROCESSING"
        /\ Decision(c.met) \in {"ACCEPTED", "DELAYED", "CONFLICT"}
        /\ c.code = DecisionCode(c.met)

\* The trail tells what the row is about to become.
Told(p) ==
  LET i == hand[p].id
      outcome == AttemptStatus(hand[p].cause)
  IN  pc[p] = "settle" =>
        /\ outcome = "SUCCEEDED" /\ row[i].att > 1 =>
             audit[i]["RETRY_SUCCEEDED"] > 0
        /\ outcome = "DEAD_LETTERED" => audit[i]["RETRY_DEAD_LETTERED"] > 0

StoreOutcomes == {"STORED", "DUPLICATE", "CONFLICT"}

\* The receipt is of something the store answered.
Received(p) == pc[p] = "receipt" => hand[p].stored \in StoreOutcomes

Telling(p) == Knows(p) /\ Deciding(p) /\ Told(p) /\ Received(p)

TellInv ==
  /\ IInv
  /\ Tables
  /\ Alone
  /\ \A p \in Proc : Telling(p)
  /\ AuditTellsOutcome

-----------------------------------------------------------------------------
(* Steps that tell nothing *)

\* The rows of the trail that say how an event ended.
Ends == {"PAYMENT_STATE_CHANGED", "WEBHOOK_DELAYED"}

\* No attempt reaches a point where it has more to answer for.
Aside(p) ==
  \/ pc'[p] = pc[p] /\ hand'[p] = hand[p]
  \/ pc'[p] \notin HoldPoints /\ Received(p)'
  \/ pc[p] = "announce" /\ pc'[p] = "work" /\ hand'[p] = hand[p]

\* Rows of other types may be added.
Silent ==
  /\ audit' \in [Identity -> [AuditTypes -> Nat]]
  /\ \A i \in Identity :
       /\ \A t \in AuditTypes : audit'[i][t] >= audit[i][t]
       /\ \A t \in Ends : audit'[i][t] = audit[i][t]

Untold ==
  /\ traffic' = traffic
  /\ Silent /\ pc' \in [Proc -> Points]
  /\ status' \in [Identity -> EventStatuses] /\ row' \in [Identity -> RowType]
  /\ \A i \in Identity :
       /\ status'[i] = status[i] \/ (status[i] = "ABSENT" /\ status'[i] = "RECEIVED")
       /\ \/ row'[i] = row[i]
          \/ row[i].status = "NONE" /\ row'[i].status = "PENDING"
  /\ \A p \in Proc : Aside(p)

LEMMA HandIsId ==
  ASSUME IInv, NEW p \in Proc, pc[p] \in HoldPoints
  PROVE  hand[p].id \in Identity
BY InHand DEF Working, AttemptPoints

LEMMA UntoldKeeps ==
  ASSUME TellInv, IInv', Untold
  PROVE  TellInv'
<1>1. Identity' = Identity
  BY SameIdentities DEF Untold
<1>2. Tables'
  BY <1>1 DEF Tables, Untold, Silent
<1>3. ASSUME NEW p \in Proc, pc'[p] \in HoldPoints
      PROVE  /\ pc[p] \in HoldPoints /\ hand'[p] = hand[p]
             /\ pc'[p] \in {"commit", "settle"} => pc[p] = pc'[p]
             /\ hand[p].id \in Identity
  <2>1. pc[p] \in HoldPoints /\ hand'[p] = hand[p]
        /\ (pc'[p] \in {"commit", "settle"} => pc[p] = pc'[p])
    BY <1>3 DEF Untold, Aside, HoldPoints
  <2> QED BY <2>1, HandIsId DEF TellInv
<1>4. Alone'
  BY <1>1, <1>3 DEF TellInv, Alone, Holds
<1>5. ASSUME NEW p \in Proc PROVE Telling(p)'
  <2>1. CASE pc'[p] \in HoldPoints
    <3>1. Telling(p) /\ pc[p] \in HoldPoints
      BY <1>3, <2>1 DEF TellInv
    <3>2. row[hand[p].id].status = "PROCESSING"
      BY <3>1 DEF Telling, Knows
    <3>3. row'[hand[p].id] = row[hand[p].id]
      BY <1>3, <2>1, <3>2 DEF Untold
    <3>4. Knows(p)'
      BY <1>3, <2>1, <3>1, <3>3 DEF Telling, Knows
    <3>5. Deciding(p)'
      BY <1>3, <2>1, <3>1 DEF Telling, Deciding, Untold
    <3>6. Told(p)'
      <4>1. \A t \in {"RETRY_SUCCEEDED", "RETRY_DEAD_LETTERED"} :
              audit[hand[p].id][t] > 0 => audit'[hand[p].id][t] > 0
        BY <1>3, <2>1 DEF Untold, Silent, AuditTypes, TellInv, Tables
      <4> QED BY <1>3, <2>1, <3>1, <3>3, <4>1 DEF Telling, Told
    <3> QED BY <2>1, <3>4, <3>5, <3>6 DEF Telling, Received, HoldPoints
  <2>2. CASE pc'[p] \notin HoldPoints
    <3>1. Received(p)'
      BY <2>2 DEF Untold, Aside, TellInv, Telling, Received, HoldPoints
    <3> QED BY <2>2, <3>1 DEF Telling, Knows, Deciding, Told, HoldPoints
  <2> QED BY <2>1, <2>2
<1>6. AuditTellsOutcome'
  <2> SUFFICES ASSUME NEW i \in Identity
               PROVE  /\ audit'[i]["PAYMENT_STATE_CHANGED"] + audit'[i]["WEBHOOK_DELAYED"]
                           = IF status'[i] = "PROCESSED" THEN 1 ELSE 0
                      /\ status'[i] = "CONFLICT" => audit'[i]["WEBHOOK_CONFLICT"] > 0
                      /\ row'[i].status = "SUCCEEDED" /\ row'[i].att > 1 =>
                           audit'[i]["RETRY_SUCCEEDED"] > 0
                      /\ row'[i].status = "DEAD_LETTERED" =>
                           audit'[i]["RETRY_DEAD_LETTERED"] > 0
    BY <1>1 DEF AuditTellsOutcome
  <2>1. \A t \in AuditTypes : audit[i][t] > 0 => audit'[i][t] > 0
    BY DEF Untold, Silent, TellInv, Tables
  <2> QED BY <2>1 DEF Untold, Silent, Ends, AuditTypes, TellInv, AuditTellsOutcome
<1> QED BY <1>2, <1>4, <1>5, <1>6 DEF TellInv

-----------------------------------------------------------------------------
(* The audit trail *)

LEMMA AppendedAdds ==
  ASSUME TellInv, NEW id \in Identity, NEW types \in SUBSET AuditTypes,
         NEW i \in Identity, NEW t \in AuditTypes
  PROVE  /\ Appended(id, types) \in [Identity -> [AuditTypes -> Nat]]
         /\ Appended(id, types)[i][t] =
              IF i = id /\ t \in types THEN audit[i][t] + 1 ELSE audit[i][t]
BY DEF TellInv, Tables, Appended

\* The receipt and the course of the attempts are no ends.
LEMMA NoteIsSilent ==
  ASSUME TellInv, NEW id \in Identity, NEW t \in AuditTypes \ Ends,
         audit' = Appended(id, {t}) \/ audit' = audit
  PROVE  Silent
<1>1. CASE audit' = Appended(id, {t})
  <2>1. {t} \in SUBSET AuditTypes /\ Ends \subseteq AuditTypes
    BY DEF Ends, AuditTypes
  <2>2. audit' \in [Identity -> [AuditTypes -> Nat]]
    <3>1. id \in Identity /\ "WEBHOOK_RECEIVED" \in AuditTypes
      BY DEF AuditTypes
    <3> QED BY <1>1, <2>1, <3>1, AppendedAdds
  <2>3. \A i \in Identity, s \in AuditTypes :
          audit'[i][s] = IF i = id /\ s \in {t} THEN audit[i][s] + 1
                                               ELSE audit[i][s]
    BY <1>1, <2>1, AppendedAdds
  <2>4. \A i \in Identity, s \in AuditTypes : audit[i][s] \in Nat
    BY DEF TellInv, Tables
  <2> QED BY <2>1, <2>2, <2>3, <2>4 DEF Silent
<1>2. CASE audit' = audit
  BY <1>2 DEF Silent, TellInv, Tables, Ends, AuditTypes
<1> QED BY <1>1, <1>2

-----------------------------------------------------------------------------
(* Which steps those are *)

LEMMA LeaveUntold ==
  ASSUME TellInv, NEW p \in Proc, Leave(p),
         UNCHANGED <<traffic, status, row, audit>>
  PROVE  Untold
<1>1. /\ pc' \in [Proc -> Points] /\ pc'[p] = "idle"
      /\ \A q \in Proc \ {p} : pc'[q] = pc[q] /\ hand'[q] = hand[q]
  BY DEF Leave, TellInv, Tables, Points, IInv, Domains
<1>2. Silent
  BY DEF Silent, TellInv, Tables, Ends, AuditTypes
<1> QED BY <1>1, <1>2 DEF Untold, Aside, Received, HoldPoints, TellInv, Tables

LEMMA GotoUntold ==
  ASSUME TellInv, NEW p \in Proc, NEW from, NEW to \in Points, Goto(p, from, to),
         \A q \in Proc \ {p} : hand'[q] = hand[q], to # "receipt",
         to \notin HoldPoints \/ (from = "announce" /\ to = "work" /\ hand' = hand),
         UNCHANGED <<traffic, status, row>>, Silent
  PROVE  Untold
<1>1. /\ pc' \in [Proc -> Points] /\ pc[p] = from /\ pc'[p] = to
      /\ \A q \in Proc \ {p} : pc'[q] = pc[q]
  BY DEF Goto, TellInv, Tables, IInv, Domains
<1> QED BY <1>1 DEF Untold, Aside, Received, TellInv, Tables

LEMMA ThrownUntold ==
  ASSUME TellInv, NEW p \in Proc, Thrown(p), UNCHANGED <<traffic, status, row, audit>>
  PROVE  Untold
BY LeaveUntold DEF Thrown, Answer

LEMMA NothingSilent ==
  ASSUME TellInv, audit' = audit
  PROVE  Silent
BY DEF Silent, TellInv, Tables, Ends, AuditTypes

\* A delivery before its retry row.
LEMMA ArrivalUntold ==
  ASSUME TellInv, NEW r \in Request, NEW d \in Delivery,
         TurnAway(r, d) \/ Receive(r, d)
  PROVE  Untold
<1>1. r \in Proc /\ UNCHANGED <<traffic, status, row, audit>>
  BY DEF TurnAway, Receive, tables, Proc
<1>2. CASE UNCHANGED <<pc, hand>>
  BY <1>1, <1>2, NothingSilent DEF Untold, Aside, TellInv, Tables
<1>3. CASE Receive(r, d) /\ Screen[d].http # 500
  <2> DEFINE to == IF Screen[d].http = 0 THEN "store" ELSE "refuse"
  <2>1. Goto(r, "idle", to) /\ \A q \in Proc \ {r} : hand'[q] = hand[q]
    BY <1>3 DEF Receive, TellInv, IInv, Domains
  <2>2. to \in Points /\ to \notin HoldPoints /\ to # "receipt"
    BY DEF Points, HoldPoints
  <2> HIDE DEF to
  <2> QED BY <1>1, <2>1, <2>2, NothingSilent, GotoUntold
<1> QED BY <1>2, <1>3 DEF TurnAway, Receive

LEMMA StoreUntold ==
  ASSUME TellInv, NEW r \in Request, Store(r)
  PROVE  Untold
<1>1. /\ r \in Proc /\ Goto(r, "store", "receipt")
      /\ UNCHANGED <<traffic, row, audit>>
  BY DEF Store, Proc
<1>2. /\ pc' \in [Proc -> Points] /\ pc'[r] = "receipt"
      /\ \A q \in Proc \ {r} : pc'[q] = pc[q] /\ hand'[q] = hand[q]
  BY <1>1 DEF Store, Goto, TellInv, Tables, IInv, Domains, Points
<1>3. status' = [status EXCEPT ![hand[r].id] =
                   IF @ = "ABSENT" THEN "RECEIVED" ELSE @]
  BY DEF Store
<1>4. /\ status' \in [Identity -> EventStatuses]
      /\ \A i \in Identity :
           status'[i] = status[i] \/ (status[i] = "ABSENT" /\ status'[i] = "RECEIVED")
  BY <1>3 DEF TellInv, Tables, EventStatuses
<1>5. hand'[r].stored \in StoreOutcomes
  <2>1. hand' = [hand EXCEPT ![r].stored = StoreOutcome(hand[r].id, Event[hand[r].d])]
    BY DEF Store
  <2>2. StoreOutcome(hand[r].id, Event[hand[r].d]) \in StoreOutcomes
    BY DEF StoreOutcome, StoreOutcomes
  <2> QED BY <1>1, <2>1, <2>2 DEF TellInv, IInv, Domains
<1> QED BY <1>1, <1>2, <1>4, <1>5, NothingSilent
        DEF Untold, Aside, Received, HoldPoints, TellInv, Tables

LEMMA ReceiptUntold ==
  ASSUME TellInv, NEW r \in Request, Receipt(r)
  PROVE  Untold
<1>1. r \in Proc /\ UNCHANGED <<traffic, status, row, hand>>
  BY DEF Receipt, Proc
<1>2. PICK to \in {"conflict", "ensure"} : Goto(r, "receipt", to)
  BY DEF Receipt
<1>3. to \in Points /\ to \notin HoldPoints /\ to # "receipt"
  BY DEF Points, HoldPoints
<1>4. Silent
  <2> DEFINE t == ReceiptType(hand[r].stored)
  <2>1. hand[r].id \in Identity
    <3>1. hand[r].d \in traffic.of /\ hand[r].id = Id[hand[r].d]
      BY <1>1, <1>2 DEF Goto, TellInv, IInv, Safe, Screened, AfterStore
    <3> QED BY <3>1 DEF Identity
  <2>2. hand[r].stored \in StoreOutcomes
    BY <1>1, <1>2 DEF Goto, TellInv, Telling, Received
  <2>3. t \in AuditTypes \ Ends
    BY <2>2 DEF StoreOutcomes, ReceiptType, AuditTypes, Ends
  <2>4. audit' = Appended(hand[r].id, {t}) \/ audit' = audit
    BY DEF Receipt
  <2> HIDE DEF t
  <2> QED BY <2>1, <2>3, <2>4, NoteIsSilent
<1> QED BY <1>1, <1>2, <1>3, <1>4, GotoUntold

LEMMA AnswerUntold ==
  ASSUME TellInv, NEW r \in Request, Report(r) \/ ReportConflict(r) \/ Observe(r)
  PROVE  Untold
<1>1. r \in Proc /\ Leave(r) /\ UNCHANGED <<traffic, status, row, audit>>
  BY DEF Report, ReportConflict, Observe, Answer, Proc
<1> QED BY <1>1, LeaveUntold

LEMMA RefuseUntold ==
  ASSUME TellInv, NEW r \in Request, Refuse(r)
  PROVE  Untold
<1>1. r \in Proc /\ Goto(r, "refuse", "report") /\ hand' = hand
      /\ UNCHANGED <<traffic, status, row, audit>>
  BY DEF Refuse, Proc
<1>2. "report" \in Points /\ "report" \notin HoldPoints
  BY DEF Points, HoldPoints
<1> QED BY <1>1, <1>2, NothingSilent, GotoUntold

LEMMA StoreThrowsUntold ==
  ASSUME TellInv, NEW r \in Request, StoreThrows(r)
  PROVE  Untold
BY ThrownUntold DEF StoreThrows, tables, Proc

LEMMA EnsureUntold ==
  ASSUME TellInv, NEW r \in Request, Ensure(r)
  PROVE  Untold
<1>1. r \in Proc /\ UNCHANGED <<traffic, status, audit, hand>>
  BY DEF Ensure, Proc
<1>2. PICK to \in {"begin", "observe"} : Goto(r, "ensure", to)
  BY DEF Ensure
<1>3. /\ pc' \in [Proc -> Points] /\ pc'[r] \in {"begin", "observe"}
      /\ \A q \in Proc \ {r} : pc'[q] = pc[q]
  BY <1>1, <1>2 DEF Goto, TellInv, Tables, IInv, Domains, Points
<1>4. row' = [row EXCEPT ![hand[r].id].status = IF @ = "NONE" THEN "PENDING" ELSE @]
  BY DEF Ensure
<1>5. /\ row' \in [Identity -> RowType]
      /\ \A i \in Identity :
           \/ row'[i] = row[i]
           \/ row[i].status = "NONE" /\ row'[i].status = "PENDING"
  <2>1. row \in [Identity -> RowType]
    BY DEF TellInv, Tables
  <2> QED BY <1>4, <2>1, ZenonT(60) DEF RowType, RowStatuses
<1> QED BY <1>1, <1>3, <1>5, NothingSilent
        DEF Untold, Aside, Received, HoldPoints, TellInv, Tables

LEMMA AnnounceUntold ==
  ASSUME TellInv, NEW p \in Proc, Announce(p)
  PROVE  Untold
<1>1. UNCHANGED <<traffic, status, row>> /\ pc[p] = "announce"
  BY DEF Announce
<1>2. CASE Thrown(p) /\ UNCHANGED audit
  BY <1>1, <1>2, ThrownUntold
<1>3. CASE /\ Goto(p, "announce", "work") /\ hand' = hand
           /\ \/ audit' = Appended(hand[p].id, {"RETRY_ATTEMPTED"})
              \/ audit' = audit
  <2>1. hand[p].id \in Identity
    BY <1>1, HandIsId DEF HoldPoints, TellInv
  <2>2. "RETRY_ATTEMPTED" \in AuditTypes \ Ends /\ "work" \in Points
    BY DEF AuditTypes, Ends, Points, AttemptPoints, HoldPoints
  <2>3. Silent
    BY <1>3, <2>1, <2>2, NoteIsSilent
  <2> QED BY <1>1, <1>3, <2>2, <2>3, GotoUntold
<1> QED BY <1>2, <1>3 DEF Announce

LEMMA TellUntold ==
  ASSUME TellInv, NEW p \in Proc, Tell(p)
  PROVE  Untold
<1>1. UNCHANGED <<traffic, status, row>> /\ pc[p] = "tell"
  BY DEF Tell
<1>2. CASE Thrown(p) /\ UNCHANGED audit
  BY <1>1, <1>2, ThrownUntold
<1>3. CASE /\ Goto(p, "tell", "raise") /\ hand' = hand
           /\ audit' = Appended(hand[p].id, {"RETRY_SCHEDULED"})
  <2>1. hand[p].id \in Identity
    BY <1>1, InHand DEF Working, AttemptPoints, TellInv
  <2>2. /\ "RETRY_SCHEDULED" \in AuditTypes \ Ends /\ "raise" \in Points
        /\ "raise" \notin HoldPoints
    BY DEF AuditTypes, Ends, Points, AttemptPoints, HoldPoints
  <2>3. Silent
    BY <1>3, <2>1, <2>2, NoteIsSilent
  <2> QED BY <1>1, <1>3, <2>2, <2>3, GotoUntold
<1> QED BY <1>2, <1>3 DEF Tell

LEMMA RaiseUntold ==
  ASSUME TellInv, NEW p \in Proc, Raise(p)
  PROVE  Untold
<1>1. UNCHANGED <<traffic, status, row, audit>>
  BY DEF Raise
<1>2. CASE Leave(p)
  BY <1>1, <1>2, LeaveUntold
<1>3. CASE Goto(p, "raise", "observe") /\ hand' = hand
  <2>1. "observe" \in Points /\ "observe" \notin HoldPoints
    BY DEF Points, HoldPoints
  <2> QED BY <1>1, <1>3, <2>1, NothingSilent, GotoUntold
<1> QED BY <1>2, <1>3 DEF Raise

LEMMA CrashUntold ==
  ASSUME TellInv, Crash
  PROVE  Untold
<1>1. /\ UNCHANGED <<traffic, status, row, audit>>
      /\ pc' = [p \in Proc |-> IF p \in Request THEN "idle" ELSE pc[p]]
      /\ hand' = [p \in Proc |-> IF p \in Request THEN Idle ELSE hand[p]]
  BY DEF Crash, tables
<1>2. pc' \in [Proc -> Points]
  BY <1>1 DEF TellInv, Tables, Points
<1>3. \A p \in Proc : Aside(p)
  BY <1>1 DEF Aside, Received, HoldPoints
<1> QED BY <1>1, <1>2, <1>3, NothingSilent DEF Untold, TellInv, Tables

LEMMA BeginAsideUntold ==
  ASSUME TellInv, NEW r \in Request, Goto(r, "begin", "observe"),
         UNCHANGED <<traffic, status, row, audit, hand>>
  PROVE  Untold
<1>1. r \in Proc /\ "observe" \in Points /\ "observe" \notin HoldPoints
  BY DEF Points, HoldPoints, Proc
<1> QED BY <1>1, NothingSilent, GotoUntold

LEMMA StutterUntold ==
  ASSUME TellInv, UNCHANGED vars
  PROVE  Untold
BY NothingSilent DEF vars, tables, Untold, Aside, TellInv, Tables

-----------------------------------------------------------------------------
(* Steps that have something to tell *)

\* The trail of one event and its outcome.
TellsOf(i) ==
  LET told == audit[i]
  IN  /\ told["PAYMENT_STATE_CHANGED"] + told["WEBHOOK_DELAYED"]
           = IF status[i] = "PROCESSED" THEN 1 ELSE 0
      /\ status[i] = "CONFLICT" => told["WEBHOOK_CONFLICT"] > 0
      /\ row[i].status = "SUCCEEDED" /\ row[i].att > 1 =>
           told["RETRY_SUCCEEDED"] > 0
      /\ row[i].status = "DEAD_LETTERED" => told["RETRY_DEAD_LETTERED"] > 0

\* p moves, on id, which nobody else holds.
Attends(p, id) ==
  /\ traffic' = traffic
  /\ \A q \in Proc \ {p} : pc'[q] = pc[q] /\ hand'[q] = hand[q] /\ ~Holds(q, id)
  /\ hand'[p].id = id
  /\ \A i \in Identity \ {id} :
       status'[i] = status[i] /\ row'[i] = row[i] /\ audit'[i] = audit[i]

LEMMA AttendsKeeps ==
  ASSUME TellInv, IInv', NEW p \in Proc, NEW id \in Identity, Attends(p, id),
         Tables', Telling(p)', TellsOf(id)'
  PROVE  TellInv'
<1>1. Identity' = Identity
  BY SameIdentities DEF Attends
<1>2. Alone'
  <2>1. Alone
    BY DEF TellInv
  <2> QED BY <1>1, <2>1 DEF Alone, Holds, Attends
<1>3. ASSUME NEW q \in Proc \ {p} PROVE Telling(q)'
  <2>1. Telling(q) /\ pc'[q] = pc[q] /\ hand'[q] = hand[q]
    BY DEF TellInv, Attends
  <2>2. CASE pc[q] \in HoldPoints
    <3>1. hand[q].id \in Identity \ {id}
      BY <2>2, HandIsId DEF Attends, Holds, TellInv
    <3>2. UNCHANGED <<status[hand[q].id], row[hand[q].id], audit[hand[q].id]>>
      BY <2>1, <3>1 DEF Attends
    <3> QED BY <2>1, <2>2, <3>2 DEF Telling, Knows, Deciding, Told, Received
  <2>3. CASE pc[q] \notin HoldPoints
    BY <2>1, <2>3 DEF Telling, Knows, Deciding, Told, Received, HoldPoints
  <2> QED BY <2>2, <2>3
<1>4. AuditTellsOutcome'
  <2>1. \A i \in Identity : TellsOf(i)'
    BY DEF TellInv, AuditTellsOutcome, TellsOf, Attends
  <2> QED BY <1>1, <2>1 DEF AuditTellsOutcome, TellsOf
<1> QED BY <1>2, <1>3, <1>4 DEF TellInv

\* The holder of a row is alone with it.
LEMMA HolderIsAlone ==
  ASSUME TellInv, NEW p \in Proc, pc[p] \in HoldPoints
  PROVE  /\ hand[p].id \in Identity
         /\ \A q \in Proc \ {p} : ~Holds(q, hand[p].id)
BY HandIsId DEF TellInv, Alone, Holds

LEMMA ClaimsTell ==
  ASSUME TellInv, IInv', NEW p \in Proc, NEW id \in Identity, NEW from,
         Goto(p, from, "announce"), from \notin HoldPoints, Claims(p, id), Due(id),
         UNCHANGED <<traffic, status, audit>>
  PROVE  TellInv'
<1>1. Tables /\ Domains /\ TellsOf(id) /\ Identity' = Identity
  BY SameIdentities DEF TellInv, IInv, AuditTellsOutcome, TellsOf
<1>2. /\ pc' \in [Proc -> Points] /\ pc'[p] = "announce"
      /\ \A q \in Proc \ {p} : pc'[q] = pc[q]
  BY <1>1 DEF Goto, Tables, Points, AttemptPoints, HoldPoints
<1>3. /\ row' \in [Identity -> RowType]
      /\ row'[id].status = "PROCESSING" /\ row'[id].att = row[id].att + 1
      /\ \A i \in Identity \ {id} : row'[i] = row[i]
  <2> DEFINE taken == [status |-> "PROCESSING", att |-> row[id].att + 1,
                       failed |-> row[id].failed]
  <2>1. row[id] \in RowType
    BY <1>1 DEF Tables
  <2>2. row' = [row EXCEPT ![id].status = "PROCESSING", ![id].att = @ + 1]
    BY DEF Claims
  <2>3. /\ DOMAIN row' = Identity /\ row'[id] = taken
        /\ \A i \in Identity \ {id} : row'[i] = row[i]
    BY <1>1, <2>1, <2>2 DEF Tables, RowType
  <2>4. taken \in RowType
    BY <2>1 DEF RowType, RowStatuses
  <2>5. row' = [i \in Identity |-> row'[i]]
    BY <1>1, <2>2 DEF Tables
  <2> QED BY <1>1, <2>3, <2>4, <2>5 DEF Tables
<1>4. /\ hand'[p].id = id /\ hand'[p].again = (row[id].att > 0 \/ row[id].failed)
      /\ \A q \in Proc \ {p} : hand'[q] = hand[q]
  BY <1>1 DEF Claims, Domains
<1>5. \A q \in Proc : ~Holds(q, id)
  BY DEF Due, TellInv, Telling, Knows, Holds
<1>6. Attends(p, id)
  BY <1>2, <1>3, <1>4, <1>5 DEF Attends
<1>7. Tables'
  BY <1>1, <1>2, <1>3 DEF Tables
<1>8. Telling(p)'
  <2>1. row[id].att \in Nat
    BY <1>1 DEF Tables, RowType
  <2>2. row'[id].att > 1 => row[id].att > 0
    BY <1>3, <2>1
  <2>3. row[id].att > 0 => hand'[p].again
    BY <1>4, Zenon
  <2> QED BY <1>2, <1>3, <1>4, <2>2, <2>3 DEF Telling, Knows, Deciding, Told, Received
<1>9. TellsOf(id)'
  BY <1>1, <1>3 DEF TellsOf
<1> QED BY <1>6, <1>7, <1>8, <1>9, AttendsKeeps

\* The drafts of a decision are those of the status it leads to.
LEMMA DraftsFit ==
  ASSUME NEW met, met # NoMeeting, Decision(met) \in {"ACCEPTED", "DELAYED", "CONFLICT"}
  PROVE  /\ TerminalStatus(met) = IF Decision(met) = "CONFLICT" THEN "CONFLICT"
                                                                ELSE "PROCESSED"
         /\ Decision(met) = "CONFLICT" => DecisionDrafts(met) = {"WEBHOOK_CONFLICT"}
         /\ Decision(met) # "CONFLICT" =>
              \/ DecisionDrafts(met) = {"PAYMENT_STATE_CHANGED"}
              \/ DecisionDrafts(met) = {"WEBHOOK_DELAYED"}
         /\ DecisionCode(met) = IF Decision(met) = "CONFLICT"
                                THEN "PERMANENT_CONFLICT" ELSE "none"
BY DEF TerminalStatus, DecisionDrafts, DecisionCode

\* A decision's attempt ends now.
LEMMA DecidedEnds ==
  ASSUME NEW cause, cause.code \in {"none", "PERMANENT_CONFLICT"}
  PROVE  AttemptStatus(cause) = IF cause.code = "none" THEN "SUCCEEDED"
                                                       ELSE "DEAD_LETTERED"
BY DEF AttemptStatus, NON_RETRYABLE_CODES

LEMMA CommitTells ==
  ASSUME TellInv, IInv', NEW p \in Proc, Goto(p, "commit", "settle"),
         status' = [status EXCEPT ![hand[p].id] =
                      IF hand[p].cause.met = NoMeeting THEN @
                      ELSE TerminalStatus(hand[p].cause.met)],
         audit' = Appended(hand[p].id, Drafts(p)),
         UNCHANGED <<traffic, row, hand>>
  PROVE  TellInv'
<1> DEFINE id == hand[p].id
           c == hand[p].cause
           met == c.met
           outcome == AttemptStatus(c)
<1>1. Tables /\ Identity' = Identity
  BY SameIdentities DEF TellInv
<1>2. pc[p] = "commit" /\ pc[p] \in HoldPoints
  BY DEF Goto, HoldPoints
<1>3. id \in Identity /\ (\A q \in Proc \ {p} : ~Holds(q, id))
  BY <1>2, HolderIsAlone
<1>4. TellsOf(id) /\ Telling(p)
  BY <1>3 DEF TellInv, AuditTellsOutcome, TellsOf
<1>5. /\ pc' \in [Proc -> Points] /\ pc'[p] = "settle"
      /\ \A q \in Proc \ {p} : pc'[q] = pc[q]
  BY <1>1 DEF Goto, Tables, Points, AttemptPoints, HoldPoints
<1>6. DecisionDrafts(met) \subseteq
        {"PAYMENT_STATE_CHANGED", "WEBHOOK_DELAYED", "WEBHOOK_CONFLICT"}
  BY DEF DecisionDrafts
<1>7. Drafts(p) \in SUBSET AuditTypes
  <2>1. Drafts(p) = IF outcome = "SUCCEEDED"
                    THEN DecisionDrafts(met)
                           \cup (IF hand[p].again THEN {"RETRY_SUCCEEDED"} ELSE {})
                    ELSE IF outcome = "DEAD_LETTERED"
                    THEN DecisionDrafts(met) \cup {"RETRY_DEAD_LETTERED"}
                    ELSE {}
    BY DEF Drafts
  <2> QED BY <1>6, <2>1 DEF AuditTypes
<1>8. /\ audit' \in [Identity -> [AuditTypes -> Nat]]
      /\ \A i \in Identity, t \in AuditTypes :
           audit'[i][t] = IF i = id /\ t \in Drafts(p) THEN audit[i][t] + 1
                                                       ELSE audit[i][t]
  <2>1. audit' \in [Identity -> [AuditTypes -> Nat]]
    <3>1. "WEBHOOK_RECEIVED" \in AuditTypes
      BY DEF AuditTypes
    <3> QED BY <1>3, <1>7, <3>1, AppendedAdds
  <2> QED BY <1>3, <1>7, <2>1, AppendedAdds
<1>9. /\ \A i \in Identity \ {id} : audit'[i] = audit[i] /\ status'[i] = status[i]
      /\ status'[id] = IF met = NoMeeting THEN status[id] ELSE TerminalStatus(met)
      /\ status' \in [Identity -> EventStatuses]
  <2>1. \A i \in Identity \ {id} : audit'[i] = audit[i]
    BY <1>1, <1>3 DEF Appended, Tables
  <2>2. TerminalStatus(met) \in EventStatuses
    BY DEF TerminalStatus, EventStatuses
  <2> QED BY <1>1, <1>3, <2>1, <2>2 DEF Tables
<1>10. Tables'
  BY <1>1, <1>5, <1>8, <1>9 DEF Tables
<1>11. Attends(p, id)
  BY <1>3, <1>5, <1>9 DEF Attends
<1>12. /\ outcome = "SUCCEEDED" =>
            Drafts(p) = DecisionDrafts(met)
                          \cup (IF hand[p].again THEN {"RETRY_SUCCEEDED"} ELSE {})
       /\ outcome = "DEAD_LETTERED" =>
            Drafts(p) = DecisionDrafts(met) \cup {"RETRY_DEAD_LETTERED"}
       /\ outcome \notin {"SUCCEEDED", "DEAD_LETTERED"} => Drafts(p) = {}
  BY DEF Drafts
<1>13. \A t \in AuditTypes : audit[id][t] \in Nat /\ audit'[id][t] \in Nat
  BY <1>1, <1>3, <1>8 DEF Tables
<1>14. Telling(p)'
  <2>1. Knows(p)'
    BY <1>2, <1>4, <1>5 DEF Telling, Knows, HoldPoints
  <2>2. ASSUME outcome = "SUCCEEDED", row[id].att > 1
        PROVE  audit'[id]["RETRY_SUCCEEDED"] > 0
    <3>1. hand[p].again
      BY <1>2, <1>4, <2>2 DEF Telling, Knows
    <3>2. "RETRY_SUCCEEDED" \in Drafts(p) /\ "RETRY_SUCCEEDED" \in AuditTypes
      BY <1>12, <2>2, <3>1 DEF AuditTypes
    <3> QED BY <1>3, <1>8, <1>13, <3>2
  <2>3. ASSUME outcome = "DEAD_LETTERED"
        PROVE  audit'[id]["RETRY_DEAD_LETTERED"] > 0
    <3>1. "RETRY_DEAD_LETTERED" \in Drafts(p) /\ "RETRY_DEAD_LETTERED" \in AuditTypes
      BY <1>12, <2>3 DEF AuditTypes
    <3> QED BY <1>3, <1>8, <1>13, <3>1
  <2>4. Told(p)'
    BY <2>2, <2>3 DEF Told
  <2> QED BY <1>5, <2>1, <2>4 DEF Telling, Deciding, Received
<1>15. TellsOf(id)'
  <2>1. "RETRY_SUCCEEDED" \in AuditTypes /\ "RETRY_DEAD_LETTERED" \in AuditTypes
        /\ "WEBHOOK_CONFLICT" \in AuditTypes /\ "PAYMENT_STATE_CHANGED" \in AuditTypes
        /\ "WEBHOOK_DELAYED" \in AuditTypes
    BY DEF AuditTypes
  <2>2. /\ row[id].status = "SUCCEEDED" /\ row[id].att > 1 =>
             audit'[id]["RETRY_SUCCEEDED"] > 0
        /\ row[id].status = "DEAD_LETTERED" => audit'[id]["RETRY_DEAD_LETTERED"] > 0
    BY <1>2, <1>4 DEF Telling, Knows
  <2>3. CASE met = NoMeeting
    <3>1. DecisionDrafts(met) = {}
      BY <2>3 DEF DecisionDrafts
    <3>2. "PAYMENT_STATE_CHANGED" \notin Drafts(p) /\ "WEBHOOK_DELAYED" \notin Drafts(p)
          /\ "WEBHOOK_CONFLICT" \notin Drafts(p)
      BY <1>12, <3>1
    <3>3. /\ audit'[id]["PAYMENT_STATE_CHANGED"] = audit[id]["PAYMENT_STATE_CHANGED"]
          /\ audit'[id]["WEBHOOK_DELAYED"] = audit[id]["WEBHOOK_DELAYED"]
          /\ audit'[id]["WEBHOOK_CONFLICT"] = audit[id]["WEBHOOK_CONFLICT"]
      BY <1>3, <1>8, <2>1, <3>2
    <3>4. status'[id] = status[id]
      BY <1>9, <2>3
    <3> QED BY <1>4, <2>2, <3>3, <3>4 DEF TellsOf
  <2>4. CASE met # NoMeeting
    <3>1. /\ status[id] = "PROCESSING"
          /\ Decision(met) \in {"ACCEPTED", "DELAYED", "CONFLICT"}
          /\ c.code = DecisionCode(met)
      BY <1>2, <1>4, <2>4 DEF Telling, Deciding
    <3>2. audit[id]["PAYMENT_STATE_CHANGED"] + audit[id]["WEBHOOK_DELAYED"] = 0
      BY <1>4, <3>1 DEF TellsOf
    <3>3. audit[id]["PAYMENT_STATE_CHANGED"] = 0 /\ audit[id]["WEBHOOK_DELAYED"] = 0
      BY <1>13, <2>1, <3>2
    <3>4. outcome = IF Decision(met) = "CONFLICT" THEN "DEAD_LETTERED"
                                                  ELSE "SUCCEEDED"
      <4>1. c.code = IF Decision(met) = "CONFLICT" THEN "PERMANENT_CONFLICT" ELSE "none"
        BY <2>4, <3>1, DraftsFit
      <4> QED BY <4>1, DecidedEnds
    <3>5. DecisionDrafts(met) \subseteq Drafts(p)
          /\ Drafts(p) \subseteq
               DecisionDrafts(met) \cup {"RETRY_SUCCEEDED", "RETRY_DEAD_LETTERED"}
      BY <1>12, <3>4
    <3>6. CASE Decision(met) = "CONFLICT"
      <4>1. status'[id] = "CONFLICT" /\ DecisionDrafts(met) = {"WEBHOOK_CONFLICT"}
        BY <1>9, <2>4, <3>1, <3>6, DraftsFit
      <4>2. "WEBHOOK_CONFLICT" \in Drafts(p) /\ "PAYMENT_STATE_CHANGED" \notin Drafts(p)
            /\ "WEBHOOK_DELAYED" \notin Drafts(p)
        BY <3>5, <4>1
      <4>3. /\ audit'[id]["PAYMENT_STATE_CHANGED"] = 0
            /\ audit'[id]["WEBHOOK_DELAYED"] = 0
            /\ audit'[id]["WEBHOOK_CONFLICT"] > 0
        BY <1>3, <1>8, <1>13, <2>1, <3>3, <4>2
      <4> QED BY <2>2, <4>1, <4>3 DEF TellsOf
    <3>7. CASE Decision(met) # "CONFLICT"
      <4>1. /\ status'[id] = "PROCESSED"
            /\ \/ DecisionDrafts(met) = {"PAYMENT_STATE_CHANGED"}
               \/ DecisionDrafts(met) = {"WEBHOOK_DELAYED"}
        BY <1>9, <2>4, <3>1, <3>7, DraftsFit
      <4>2. \/ "PAYMENT_STATE_CHANGED" \in Drafts(p) /\ "WEBHOOK_DELAYED" \notin Drafts(p)
            \/ "PAYMENT_STATE_CHANGED" \notin Drafts(p) /\ "WEBHOOK_DELAYED" \in Drafts(p)
        BY <3>5, <4>1
      <4>3. audit'[id]["PAYMENT_STATE_CHANGED"] + audit'[id]["WEBHOOK_DELAYED"] = 1
        BY <1>3, <1>8, <2>1, <3>3, <4>2
      <4> QED BY <2>2, <4>1, <4>3 DEF TellsOf
    <3> QED BY <3>6, <3>7
  <2> QED BY <2>3, <2>4
<1> QED BY <1>3, <1>10, <1>11, <1>14, <1>15, AttendsKeeps

\* The replay decides on every stored event, in one of three ways.
LEMMA MeetingDecides ==
  ASSUME IInv, NEW id \in Identity, event[id] # NoEvent
  PROVE  /\ Meeting(id) # NoMeeting
         /\ Decision(Meeting(id)) \in {"ACCEPTED", "DELAYED", "CONFLICT"}
<1> DEFINE log == {event[i] : i \in Log(id)}
<1>1. id \in Log(id) /\ event[id] \in log
  BY DEF Log, IInv, Present
<1>2. log \in SUBSET {Event[d] : d \in traffic.of \cap Kept}
  <2>1. \A i \in Log(id) : i \in Identity /\ event[i] # NoEvent
    BY DEF Log, IInv, Present
  <2> QED BY <2>1 DEF IInv, Sourced
<1>3. log \in UNION {SUBSET {Event[d] : d \in t.of \cap Kept} : t \in Traffics}
  BY <1>2 DEF IInv, Domains
<1>4. Meeting(id) = Meet(log, event[id])
  BY <1>1, <1>3 DEF Meeting, Meets
<1>5. PICK d, type : Meeting(id) = MeetingOf(d, type)
  BY <1>4 DEF Meet
<1>6. Meeting(id).outcome \in {"ACCEPTED", "INVALID_TRANSITION", "OUT_OF_ORDER"}
  BY <1>5 DEF MeetingOf
<1>7. Decision(Meeting(id)) \in {"ACCEPTED", "DELAYED", "CONFLICT"}
  BY <1>6 DEF Decision, classifyAttempt
<1>8. NoMeeting.outcome = "none"
  BY DEF NoMeeting
<1> QED BY <1>6, <1>7, <1>8

LEMMA WorkTells ==
  ASSUME TellInv, IInv', NEW p \in Proc, Work(p)
  PROVE  TellInv'
<1>0. PICK id : id = hand[p].id
  OBVIOUS
<1>1. Tables /\ Domains /\ Identity' = Identity
  BY SameIdentities DEF TellInv, IInv, Work
<1>2. /\ Goto(p, "work", "commit") /\ pc[p] = "work" /\ pc[p] \in HoldPoints
      /\ UNCHANGED <<traffic, event, row, audit>>
  BY DEF Work, Goto, HoldPoints
<1>3. id \in Identity /\ (\A q \in Proc \ {p} : ~Holds(q, id))
  BY <1>0, <1>2, HolderIsAlone
<1>4. TellsOf(id) /\ Telling(p) /\ IInv
  BY <1>3 DEF TellInv, AuditTellsOutcome, TellsOf
<1>5. /\ pc' \in [Proc -> Points] /\ pc'[p] = "commit"
      /\ \A q \in Proc \ {p} : pc'[q] = pc[q]
  BY <1>1, <1>2 DEF Goto, Tables, Points, AttemptPoints, HoldPoints
<1>6. event[id] # NoEvent
  BY <1>0, <1>2, <1>4, InHand DEF Working, AttemptPoints
<1>7. PICK cause :
        /\ hand' = [hand EXCEPT ![p].cause = cause]
        /\ \/ cause.met = NoMeeting /\ status' = status
           \/ /\ status[id] \in {"RECEIVED", "PROCESSING"}
              /\ \E s \in {status[id], "PROCESSING"} :
                   status' = [status EXCEPT ![id] = s]
              /\ cause.met = NoMeeting
           \/ /\ status[id] \in {"RECEIVED", "PROCESSING"}
              /\ status' = [status EXCEPT ![id] = "PROCESSING"]
              /\ cause.met = Meeting(id) /\ cause.code = DecisionCode(Meeting(id))
  <2> DEFINE of(code, met) == [by |-> "attempt", code |-> code, met |-> met,
                               last |-> row[hand[p].id].att >= MaxAttempts]
  <2>1. /\ \A code, met : of(code, met).code = code /\ of(code, met).met = met
        /\ \A code, met : Attempted(p, code, met) =>
             hand' = [hand EXCEPT ![p].cause = of(code, met)]
    BY DEF Attempted
  <2> HIDE DEF of
  <2>2. CASE status' = status /\ \E code : Attempted(p, code, NoMeeting)
    BY <2>1, <2>2
  <2>3. CASE /\ status[id] \in {"RECEIVED", "PROCESSING"}
             /\ \E s \in {status[id], "PROCESSING"} :
                  status' = [status EXCEPT ![id] = s]
             /\ Attempted(p, "TEMPORARY_DATABASE_FAILURE", NoMeeting)
    <3>1. PICK cause : /\ hand' = [hand EXCEPT ![p].cause = cause]
                       /\ cause.met = NoMeeting
      BY <2>1, <2>3
    <3> QED BY <2>3, <3>1
  <2>4. CASE /\ status[id] \in {"RECEIVED", "PROCESSING"}
             /\ status' = [status EXCEPT ![id] = "PROCESSING"]
             /\ Attempted(p, DecisionCode(Meeting(id)), Meeting(id))
    BY <2>1, <2>4
  <2> QED BY <1>0, <2>2, <2>3, <2>4 DEF Work
<1>8. /\ hand'[p].id = id /\ hand'[p].again = hand[p].again
      /\ hand'[p].cause = cause
      /\ \A q \in Proc \ {p} : hand'[q] = hand[q]
  BY <1>0, <1>1, <1>7 DEF Domains
<1>9. /\ status' \in [Identity -> EventStatuses]
      /\ \A i \in Identity \ {id} : status'[i] = status[i]
      /\ \/ status'[id] = status[id]
         \/ /\ status[id] \in {"RECEIVED", "PROCESSING"}
            /\ status'[id] = "PROCESSING"
      /\ cause.met # NoMeeting =>
           /\ status'[id] = "PROCESSING" /\ cause.met = Meeting(id)
           /\ cause.code = DecisionCode(Meeting(id))
  BY <1>1, <1>3, <1>7 DEF Tables, EventStatuses
<1>10. Tables'
  BY <1>1, <1>2, <1>5, <1>9 DEF Tables
<1>11. Attends(p, id)
  BY <1>2, <1>3, <1>5, <1>8, <1>9 DEF Attends
<1>12. Telling(p)'
  <2>1. Knows(p)'
    BY <1>0, <1>2, <1>4, <1>8 DEF Telling, Knows
  <2>2. Deciding(p)'
    BY <1>3, <1>4, <1>6, <1>8, <1>9, MeetingDecides DEF Deciding
  <2> QED BY <1>5, <2>1, <2>2 DEF Telling, Told, Received
<1>13. TellsOf(id)'
  BY <1>2, <1>4, <1>9 DEF TellsOf
<1> QED BY <1>3, <1>10, <1>11, <1>12, <1>13, AttendsKeeps

LEMMA SettleTells ==
  ASSUME TellInv, IInv', NEW p \in Proc, Settle(p)
  PROVE  TellInv'
<1>0. PICK id, outcome : id = hand[p].id /\ outcome = AttemptStatus(hand[p].cause)
  OBVIOUS
<1>1. Tables /\ Domains /\ Identity' = Identity
  BY SameIdentities DEF TellInv, IInv, Settle
<1>2. PICK to \in {"tell", "raise"} : Goto(p, "settle", to)
  BY DEF Settle
<1>3. /\ pc[p] = "settle" /\ pc[p] \in HoldPoints
      /\ UNCHANGED <<traffic, event, status, audit, hand>>
  BY <1>2 DEF Settle, Goto, HoldPoints
<1>4. id \in Identity /\ (\A q \in Proc \ {p} : ~Holds(q, id))
  BY <1>0, <1>3, HolderIsAlone
<1>5. TellsOf(id) /\ Telling(p)
  BY <1>4 DEF TellInv, AuditTellsOutcome, TellsOf
<1>6. /\ pc' \in [Proc -> Points] /\ pc'[p] \in {"tell", "raise"}
      /\ \A q \in Proc \ {p} : pc'[q] = pc[q]
  BY <1>1, <1>2 DEF Goto, Tables, Points, AttemptPoints
<1>7. outcome \in {"SUCCEEDED", "DEAD_LETTERED", "RETRY_SCHEDULED"}
  BY <1>0 DEF AttemptStatus
<1>8. /\ row' \in [Identity -> RowType]
      /\ row'[id].status = outcome /\ row'[id].att = row[id].att
      /\ \A i \in Identity \ {id} : row'[i] = row[i]
  <2> DEFINE ended == [status |-> outcome, att |-> row[id].att,
                       failed |-> (outcome # "SUCCEEDED" \/ row[id].failed)]
  <2>1. row[id] \in RowType
    BY <1>1, <1>4 DEF Tables
  <2>2. row' = [row EXCEPT ![id].status = outcome,
                           ![id].failed = outcome # "SUCCEEDED" \/ @]
    BY <1>0 DEF Settle
  <2>3. /\ DOMAIN row' = Identity /\ row'[id] = ended
        /\ \A i \in Identity \ {id} : row'[i] = row[i]
    BY <1>1, <1>4, <2>1, <2>2 DEF Tables, RowType
  <2>4. ended \in RowType
    BY <1>7, <2>1 DEF RowType, RowStatuses
  <2>5. row' = [i \in Identity |-> row'[i]]
    BY <1>1, <2>2 DEF Tables
  <2> QED BY <1>1, <1>4, <2>3, <2>4, <2>5 DEF Tables
<1>9. Tables'
  BY <1>1, <1>3, <1>6, <1>8 DEF Tables
<1>10. Attends(p, id)
  BY <1>0, <1>3, <1>4, <1>6, <1>8 DEF Attends
<1>11. Telling(p)'
  BY <1>6 DEF Telling, Knows, Deciding, Told, Received, HoldPoints
<1>12. TellsOf(id)'
  <2>1. /\ outcome = "SUCCEEDED" /\ row[id].att > 1 => audit[id]["RETRY_SUCCEEDED"] > 0
        /\ outcome = "DEAD_LETTERED" => audit[id]["RETRY_DEAD_LETTERED"] > 0
    BY <1>0, <1>3, <1>5 DEF Telling, Told
  <2> QED BY <1>3, <1>5, <1>8, <2>1 DEF TellsOf
<1> QED BY <1>4, <1>9, <1>10, <1>11, <1>12, AttendsKeeps

-----------------------------------------------------------------------------
(* The trail tells the outcome *)

LEMMA InitTells == Init => TellInv
<1> SUFFICES ASSUME Init PROVE TellInv
  OBVIOUS
<1>1. Tables
  BY DEF Init, Tables, EventStatuses, RowType, RowStatuses, Points
<1>2. Alone /\ \A p \in Proc : Telling(p)
  BY DEF Init, Alone, Holds, Telling, Knows, Deciding, Told, Received, HoldPoints
<1>3. AuditTellsOutcome
  BY DEF Init, AuditTellsOutcome, AuditTypes
<1> QED BY <1>1, <1>2, <1>3, InitSafe DEF TellInv

LEMMA NextTells ==
  ASSUME TellInv, [Next]_vars
  PROVE  TellInv'
<1>1. IInv'
  BY NextSafe DEF TellInv
<1>2. ASSUME NEW p \in Proc, Commit(p) PROVE TellInv'
  <2>1. CASE Thrown(p) /\ UNCHANGED <<status, audit>>
    BY <1>1, <1>2, <2>1, ThrownUntold, UntoldKeeps DEF Commit
  <2>2. CASE ~(Drafts(p) # {} /\ Unfit(p))
    BY <1>1, <1>2, <2>2, CommitTells DEF Commit
  <2> QED BY <1>2, <2>1, <2>2 DEF Commit
<1>3. ASSUME NEW p \in Proc, FinishAttempt(p) PROVE TellInv'
  BY <1>1, <1>2, <1>3, AnnounceUntold, WorkTells, SettleTells, TellUntold,
     RaiseUntold, UntoldKeeps DEF FinishAttempt
<1>4. ASSUME NEW r \in Request, Begin(r) PROVE TellInv'
  <2>1. r \in Proc /\ UNCHANGED <<traffic, status, audit>>
    BY <1>4 DEF Begin, Proc
  <2>2. CASE Goto(r, "begin", "observe") /\ UNCHANGED <<row, hand>>
    BY <1>1, <2>1, <2>2, BeginAsideUntold, UntoldKeeps
  <2>3. CASE /\ Goto(r, "begin", "announce") /\ Claims(r, hand[r].id)
             /\ row[hand[r].id].status \in {"PENDING", "RETRY_SCHEDULED"}
    <3>1. hand[r].id \in Identity
      BY <2>1, <2>3, InHand DEF Goto, Working, TellInv
    <3>2. Due(hand[r].id) /\ "begin" \notin HoldPoints
      BY <2>3 DEF Due, HoldPoints
    <3> QED BY <1>1, <2>1, <2>3, <3>1, <3>2, ClaimsTell
  <2> QED BY <1>4, <2>2, <2>3 DEF Begin
<1>5. ASSUME NEW w \in Worker, Claim(w) PROVE TellInv'
  <2>1. w \in Proc /\ "idle" \notin HoldPoints /\ UNCHANGED <<traffic, status, audit>>
    BY <1>5 DEF Claim, Proc, HoldPoints
  <2> QED BY <1>1, <1>5, <2>1, ClaimsTell DEF Claim
<1>6. ASSUME NEW r \in Request, Handle(r) PROVE TellInv'
  BY <1>1, <1>3, <1>4, <1>6, RefuseUntold, AnswerUntold, StoreUntold,
     StoreThrowsUntold, ReceiptUntold, EnsureUntold, UntoldKeeps
     DEF Handle, Proc
<1>7. ASSUME NEW d \in Delivery, Deliver(d) PROVE TellInv'
  BY <1>1, <1>7, ArrivalUntold, UntoldKeeps DEF Deliver
<1>8. ASSUME NEW p \in Proc, Throw(p) PROVE TellInv'
  BY <1>1, <1>8, ThrownUntold, UntoldKeeps DEF Throw, tables
<1>9. CASE Crash
  BY <1>1, <1>9, CrashUntold, UntoldKeeps
<1>10. CASE UNCHANGED vars
  BY <1>1, <1>10, StutterUntold, UntoldKeeps
<1> QED BY <1>3, <1>5, <1>6, <1>7, <1>8, <1>9, <1>10 DEF Next, Proc

\* The audit trail tells an event's fate exactly, whatever crashes and repeated
\* attempts led there: the status and the drafts are one transaction
\* (packages/storage, persistOutcome), and a row ends only after its drafts are
\* on record.
THEOREM TrailTellsOutcome == Spec => []AuditTellsOutcome
<1>1. TellInv /\ [Next]_vars => TellInv'
  BY NextTells
<1>2. TellInv => AuditTellsOutcome
  BY DEF TellInv
<1> QED BY InitTells, <1>1, <1>2, PTL DEF Spec

-----------------------------------------------------------------------------
(* What faults may take *)

\* The receipt of i is r's to write.
Pending(r, i) ==
  pc[r] = "receipt" /\ hand[r].id = i /\ hand[r].stored = "STORED"

\* One receipt at most is written or about to be, and none before the event.
Once(i) ==
  /\ audit[i]["WEBHOOK_RECEIVED"] \in {0, 1}
  /\ \A r \in Request :
       Pending(r, i) => /\ audit[i]["WEBHOOK_RECEIVED"] = 0
                        /\ \A s \in Request : Pending(s, i) => s = r
  /\ event[i] = NoEvent => /\ audit[i]["WEBHOOK_RECEIVED"] = 0
                           /\ \A r \in Request : ~Pending(r, i)

\* Events some delivery brings with a request id the audit refuses.
Unfitting == {Id[d] : d \in {x \in traffic.of : ~Content[x].rid}}

Missed ==
  {i \in Identity \ Unfitting : /\ event[i] # NoEvent
                                /\ audit[i]["WEBHOOK_RECEIVED"] = 0
                                /\ \A r \in Request : ~Pending(r, i)}

ReceiptInv ==
  /\ TellInv
  /\ faults \in Nat
  /\ \A i \in Identity : Once(i)
  /\ Cardinality(Missed) <= Losses

Severe(code) == severityForExceptionCode(code) \in {"ERROR", "CRITICAL"}

\* An attempt that gives up has a severe exception to raise, and may.
Grave(p) ==
  LET c == hand[p].cause
  IN  /\ pc[p] \in {"commit", "settle", "tell", "raise"} =>
           /\ c.by = "attempt"
           /\ c.code \in {"none", "PERMANENT_CONFLICT", "TEMPORARY_DATABASE_FAILURE"}
      /\ pc[p] \in {"settle", "raise"} /\ AttemptStatus(c) = "DEAD_LETTERED" =>
           ~Unfit(p)

\* p is about to raise what i was given up for.
Owing(p, i) ==
  /\ pc[p] = "raise" /\ hand[p].id = i
  /\ AttemptStatus(hand[p].cause) = "DEAD_LETTERED"

Lost ==
  {i \in Identity : /\ row[i].status = "DEAD_LETTERED"
                    /\ \A p \in Proc : ~Owing(p, i)
                    /\ \A x \in raised : x[2][1] = i => ~Severe(x[1])}

GraveInv ==
  /\ TellInv
  /\ faults \in Nat
  /\ \A p \in Proc : Grave(p)
  /\ Cardinality(Lost) <= Losses

-----------------------------------------------------------------------------
(* How much that is *)

\* No more is taken from T than there are of S.
LEMMA FewOf ==
  ASSUME NEW S, IsFiniteSet(S), NEW f, NEW T, \A t \in T : \E s \in S : f[s] = t
  PROVE  IsFiniteSet(T) /\ Cardinality(T) <= Cardinality(S)
<1> DEFINE U == {s \in S : f[s] \in T}
           g == [s \in U |-> f[s]]
<1>1. IsFiniteSet(U) /\ Cardinality(U) <= Cardinality(S)
  BY FS_Subset
<1>2. g \in Surjection(U, T)
  BY DEF Surjection
<1>3. IsFiniteSet(T) /\ Cardinality(T) <= Cardinality(U)
  BY <1>1, <1>2, FS_Surjection
<1> QED BY <1>1, <1>3, FS_CardinalityType

LEMMA Finite ==
  ASSUME traffic \in Traffics
  PROVE  /\ IsFiniteSet(Identity) /\ IsFiniteSet(traffic.of)
         /\ IsFiniteSet(Proc) /\ Cardinality(Proc) \in Nat
         /\ IsFiniteSet(Request) /\ Cardinality(Request) <= Cardinality(Proc)
         /\ \A p \in Proc : Cardinality({p}) <= Cardinality(Proc)
<1>1. IsFiniteSet(traffic.of)
  BY IngestAssumption
<1>2. IsFiniteSet(Identity)
  BY <1>1, FewOf DEF Identity
<1>3. IsFiniteSet(Proc)
  BY IngestAssumption, FS_Union DEF Proc
<1> QED BY <1>1, <1>2, <1>3, FS_Subset, FS_CardinalityType DEF Proc

\* Less is missing, and no fault is taken back.
LEMMA Spared ==
  ASSUME NEW A, IsFiniteSet(A), NEW B \in SUBSET A, NEW n \in Nat, NEW m \in {n, n + 1},
         NEW C \in Nat, Cardinality(A) <= n * C
  PROVE  Cardinality(B) <= m * C
<1>1. Cardinality(B) <= Cardinality(A) /\ Cardinality(A) \in Nat /\ Cardinality(B) \in Nat
  BY FS_Subset, FS_CardinalityType
<1>2. (n + 1) * C = n * C + C /\ n * C \in Nat
  OBVIOUS
<1> QED BY <1>1, <1>2

\* One fault takes no more than there are processes.
LEMMA Charged ==
  ASSUME NEW A, IsFiniteSet(A), NEW X, IsFiniteSet(X), NEW B \in SUBSET (A \cup X),
         NEW n \in Nat, NEW C \in Nat, Cardinality(A) <= n * C, Cardinality(X) <= C
  PROVE  Cardinality(B) <= (n + 1) * C
<1>1. /\ IsFiniteSet(A \cup X)
      /\ Cardinality(A \cup X) = Cardinality(A) + Cardinality(X) - Cardinality(A \cap X)
  BY FS_Union
<1>2. IsFiniteSet(A \cap X) /\ Cardinality(B) <= Cardinality(A \cup X)
  BY <1>1, FS_Subset, FS_Intersection
<1>3. /\ Cardinality(A) \in Nat /\ Cardinality(X) \in Nat
      /\ Cardinality(A \cap X) \in Nat /\ Cardinality(B) \in Nat
  BY <1>1, <1>2, FS_Subset, FS_CardinalityType
<1>4. (n + 1) * C = n * C + C /\ n * C \in Nat
  OBVIOUS
<1> QED BY <1>1, <1>2, <1>3, <1>4

-----------------------------------------------------------------------------
(* Steps of one process away from the receipts *)

Lonely(p) ==
  /\ traffic' = traffic /\ event' = event /\ faults' \in {faults, faults + 1}
  /\ Elsewhere(p) /\ pc[p] # "receipt" /\ pc'[p] # "receipt"
  /\ \A i \in Identity :
       audit'[i]["WEBHOOK_RECEIVED"] = audit[i]["WEBHOOK_RECEIVED"]

LEMMA LonelyKeeps ==
  ASSUME ReceiptInv, TellInv', NEW p \in Proc, Lonely(p)
  PROVE  ReceiptInv'
<1>1. Identity' = Identity /\ Unfitting' = Unfitting
  BY SameIdentities DEF Lonely, Unfitting
<1>2. \A r \in Request, i \in Identity : Pending(r, i)' <=> Pending(r, i)
  BY DEF Lonely, Elsewhere, Pending, Proc
<1>3. \A i \in Identity : Once(i)'
  BY <1>2 DEF ReceiptInv, Once, Lonely
<1>4. Missed' = Missed
  BY <1>1, <1>2 DEF Missed, Lonely
<1>5. IsFiniteSet(Missed)
  BY Finite, FS_Subset DEF Missed, ReceiptInv, TellInv, IInv, Domains
<1>6. faults' \in Nat /\ Cardinality(Missed') <= Losses'
  <2>1. /\ faults \in Nat /\ faults' \in {faults, faults + 1}
        /\ Cardinality(Missed) <= faults * Cardinality(Proc)
        /\ Cardinality(Proc) \in Nat
    BY Finite DEF ReceiptInv, Lonely, Losses, TellInv, IInv, Domains
  <2>2. Cardinality(Missed') <= faults' * Cardinality(Proc)
    BY <1>4, <1>5, <2>1, Spared
  <2> QED BY <2>1, <2>2 DEF Losses
<1> QED BY <1>1, <1>3, <1>6 DEF ReceiptInv

LEMMA AppendedSpares ==
  ASSUME TellInv, NEW id, NEW types, "WEBHOOK_RECEIVED" \notin types,
         audit' = Appended(id, types)
  PROVE  \A i \in Identity :
           audit'[i]["WEBHOOK_RECEIVED"] = audit[i]["WEBHOOK_RECEIVED"]
BY DEF TellInv, Tables, Appended, AuditTypes

LEMMA LeaveIsLonely ==
  ASSUME TellInv, NEW p \in Proc, Leave(p), pc[p] # "receipt",
         UNCHANGED <<traffic, event, audit>>, faults' \in {faults, faults + 1}
  PROVE  Lonely(p)
<1>1. pc'[p] = "idle" /\ Elsewhere(p)
  BY DEF Leave, Elsewhere, TellInv, IInv, Domains
<1> QED BY <1>1 DEF Lonely

LEMMA GotoIsLonely ==
  ASSUME TellInv, NEW p \in Proc, NEW from, NEW to, Goto(p, from, to),
         from # "receipt", to # "receipt", \A q \in Proc \ {p} : hand'[q] = hand[q],
         UNCHANGED <<traffic, event>>, faults' \in {faults, faults + 1},
         \A i \in Identity :
           audit'[i]["WEBHOOK_RECEIVED"] = audit[i]["WEBHOOK_RECEIVED"]
  PROVE  Lonely(p)
BY GotoMoves DEF Lonely, Elsewhere, TellInv

LEMMA ThrownLeaves ==
  ASSUME NEW p \in Proc, Thrown(p)
  PROVE  Leave(p)
BY DEF Thrown, Answer

LEMMA SwallowingCounts ==
  ASSUME NEW p, NEW lost, Swallowing(p, lost)
  PROVE  faults' \in {faults, faults + 1}
BY DEF Swallowing, Fault

LEMMA AttemptIsLonely ==
  ASSUME TellInv, NEW p \in Proc, FinishAttempt(p)
  PROVE  Lonely(p)
<1>1. UNCHANGED <<traffic, event>> /\ faults' \in {faults, faults + 1}
  BY SwallowingCounts
     DEF FinishAttempt, Announce, Work, Commit, Settle, Tell, Raise, Fault
<1>2. pc[p] \in AttemptPoints /\ pc[p] # "receipt"
  BY DEF FinishAttempt, Announce, Work, Commit, Settle, Tell, Raise, Goto,
         AttemptPoints, HoldPoints
<1>3. CASE Leave(p) /\ audit' = audit
  BY <1>1, <1>2, <1>3, LeaveIsLonely
<1>4. DOMAIN hand = Proc
  BY DEF TellInv, IInv, Domains
<1>5. CASE Announce(p)
  BY <1>1, <1>2, <1>3, <1>5, ThrownLeaves, GotoIsLonely, AppendedSpares DEF Announce
<1>6. CASE Work(p)
  <2>1. \A q \in Proc \ {p} : hand'[q] = hand[q]
    BY <1>4, <1>6 DEF Work, Attempted
  <2> QED BY <1>1, <1>6, <2>1, GotoIsLonely DEF Work
<1>7. CASE Commit(p)
  <2>1. "WEBHOOK_RECEIVED" \notin Drafts(p)
    BY DEF Drafts, DecisionDrafts
  <2> QED BY <1>1, <1>2, <1>3, <1>7, <2>1, ThrownLeaves, GotoIsLonely, AppendedSpares
          DEF Commit
<1>8. CASE Settle(p)
  <2>1. PICK to \in {"tell", "raise"} : Goto(p, "settle", to)
    BY <1>8 DEF Settle
  <2> QED BY <1>1, <1>8, <2>1, GotoIsLonely DEF Settle
<1>9. CASE Tell(p)
  BY <1>1, <1>2, <1>3, <1>9, ThrownLeaves, GotoIsLonely, AppendedSpares DEF Tell
<1>10. CASE Raise(p)
  BY <1>1, <1>3, <1>10, GotoIsLonely DEF Raise
<1> QED BY <1>5, <1>6, <1>7, <1>8, <1>9, <1>10 DEF FinishAttempt

LEMMA ArrivalIsLonely ==
  ASSUME TellInv, NEW r \in Request, NEW d \in Delivery, TurnAway(r, d) \/ Receive(r, d)
  PROVE  Lonely(r)
<1>1. /\ r \in Proc /\ pc[r] = "idle" /\ UNCHANGED <<traffic, event, audit, faults>>
  BY DEF TurnAway, Receive, Sends, tables, Proc
<1>2. CASE UNCHANGED <<pc, hand>>
  BY <1>1, <1>2 DEF Lonely, Elsewhere
<1>3. CASE Receive(r, d) /\ Screen[d].http # 500
  <2>1. PICK to \in {"store", "refuse"} : Goto(r, "idle", to)
    BY <1>3 DEF Receive
  <2>2. \A q \in Proc \ {r} : hand'[q] = hand[q]
    BY <1>3 DEF Receive, TellInv, IInv, Domains
  <2> QED BY <1>1, <2>1, <2>2, GotoIsLonely
<1> QED BY <1>2, <1>3 DEF TurnAway, Receive

LEMMA HandleIsLonely ==
  ASSUME TellInv, NEW r \in Request,
         \/ Refuse(r) \/ Report(r) \/ StoreThrows(r) \/ ReportConflict(r)
         \/ Ensure(r) \/ Begin(r) \/ Observe(r)
  PROVE  Lonely(r)
<1>1. /\ r \in Proc /\ UNCHANGED <<traffic, event, audit>>
      /\ faults' \in {faults, faults + 1}
  BY SwallowingCounts DEF Refuse, Report, StoreThrows, ReportConflict, Ensure, Begin,
     Observe, tables, Proc
<1>2. CASE Refuse(r)
  BY <1>1, <1>2, GotoIsLonely DEF Refuse
<1>3. CASE Report(r) \/ StoreThrows(r) \/ ReportConflict(r) \/ Observe(r)
  <2>1. Leave(r) /\ pc[r] # "receipt"
    BY <1>1, <1>3, ThrownLeaves DEF Report, StoreThrows, ReportConflict, Observe, Answer
  <2> QED BY <1>1, <2>1, LeaveIsLonely, SMTT(40)
<1>4. CASE Ensure(r)
  <2>1. PICK to \in {"begin", "observe"} : Goto(r, "ensure", to)
    BY <1>4 DEF Ensure
  <2> QED BY <1>1, <1>4, <2>1, GotoIsLonely DEF Ensure
<1>5. CASE Begin(r)
  <2>1. PICK to \in {"announce", "observe"} : Goto(r, "begin", to)
    BY <1>5 DEF Begin
  <2>2. \A q \in Proc \ {r} : hand'[q] = hand[q]
    BY <1>1, <1>5 DEF Begin, Claims, TellInv, IInv, Domains
  <2> QED BY <1>1, <2>1, <2>2, GotoIsLonely
<1> QED BY <1>2, <1>3, <1>4, <1>5

LEMMA ClaimIsLonely ==
  ASSUME TellInv, NEW w \in Worker, Claim(w)
  PROVE  Lonely(w)
<1>1. w \in Proc /\ UNCHANGED <<traffic, event, audit, faults>>
  BY DEF Claim, Proc
<1>2. \A q \in Proc \ {w} : hand'[q] = hand[q]
  BY DEF Claim, Claims, TellInv, IInv, Domains
<1>3. Goto(w, "idle", "announce")
  BY DEF Claim
<1> QED BY <1>1, <1>2, <1>3, GotoIsLonely

LEMMA ThrowIsLonely ==
  ASSUME TellInv, NEW p \in Proc, Throw(p)
  PROVE  Lonely(p)
<1>1. /\ UNCHANGED <<traffic, event, audit>> /\ faults' \in {faults, faults + 1}
      /\ Leave(p)
  BY ThrownLeaves DEF Throw, Fault, tables
<1>2. pc[p] # "receipt"
  BY DEF Throw, AttemptPoints, HoldPoints
<1> QED BY <1>1, <1>2, LeaveIsLonely

-----------------------------------------------------------------------------
(* The store, the receipt and a crash of the API process *)

LEMMA StoreReceipts ==
  ASSUME ReceiptInv, TellInv', NEW r \in Request, Store(r)
  PROVE  ReceiptInv'
<1>0. PICK d, id : d = hand[r].d /\ id = hand[r].id
  OBVIOUS
<1>1. r \in Proc /\ Domains /\ Safe(r) /\ IInv /\ TellInv
  BY DEF ReceiptInv, TellInv, IInv, Proc
<1>2. /\ Goto(r, "store", "receipt") /\ pc[r] = "store"
      /\ event' = [event EXCEPT ![id] = IF @ = NoEvent THEN Event[d] ELSE @]
      /\ hand' = [hand EXCEPT ![r].stored = StoreOutcome(id, Event[d])]
      /\ UNCHANGED <<traffic, audit, faults>>
  BY <1>0 DEF Store, Goto
<1>3. /\ pc'[r] = "receipt" /\ hand'[r].id = id
      /\ hand'[r].stored = StoreOutcome(id, Event[d])
      /\ \A q \in Proc \ {r} : pc'[q] = pc[q] /\ hand'[q] = hand[q]
  BY <1>0, <1>1, <1>2, GotoMoves DEF Domains
<1>4. d \in Delivery /\ id = Id[d] /\ id \in Identity /\ d \in Passed
  BY <1>0, <1>1, <1>2, InTraffic DEF Safe, Screened, Domains, Passed
<1>5. Event[d] # NoEvent
  BY <1>4, NormalizedIsEvent
<1>6. /\ \A i \in Identity \ {id} : event'[i] = event[i]
      /\ event'[id] # NoEvent
      /\ event[id] # NoEvent => event'[id] = event[id]
  BY <1>1, <1>2, <1>4, <1>5 DEF Domains
<1>7. StoreOutcome(id, Event[d]) = "STORED" <=> event[id] = NoEvent
  BY <1>1, <1>4 DEF StoreOutcome, IInv, Present
<1>8. /\ Identity' = Identity /\ Unfitting' = Unfitting
  BY <1>2, SameIdentities DEF Unfitting
<1>9. /\ \A q \in Request \ {r}, i \in Identity : Pending(q, i)' <=> Pending(q, i)
      /\ \A i \in Identity : Pending(r, i)' <=> i = id /\ event[id] = NoEvent
      /\ \A i \in Identity : ~Pending(r, i)
  BY <1>2, <1>3, <1>7 DEF Pending, Proc
<1>10. ASSUME NEW i \in Identity PROVE Once(i)'
  <2>1. Once(i)
    BY DEF ReceiptInv
  <2> QED BY <1>2, <1>6, <1>9, <2>1 DEF Once
<1>11. Missed' \subseteq Missed
  <2>1. ASSUME NEW i \in Missed' PROVE i \in Missed
    <3>1. i \in Identity \ Unfitting /\ audit[i]["WEBHOOK_RECEIVED"] = 0
      BY <1>2, <1>8 DEF Missed
    <3>2. \A q \in Request : ~Pending(q, i)'
      BY DEF Missed
    <3>3. \A q \in Request : ~Pending(q, i)
      BY <1>9, <3>1, <3>2
    <3>4. event[i] # NoEvent
      BY <1>6, <1>9, <3>1, <3>2 DEF Missed
    <3> QED BY <3>1, <3>3, <3>4 DEF Missed
  <2> QED BY <2>1
<1>12. IsFiniteSet(Missed)
  BY <1>1, Finite, FS_Subset DEF Missed, Domains
<1>13. Cardinality(Missed') <= Losses'
  <2>1. /\ faults \in Nat /\ Cardinality(Missed) <= faults * Cardinality(Proc)
        /\ Cardinality(Proc) \in Nat
    BY <1>1, Finite DEF ReceiptInv, Losses, Domains
  <2>2. Cardinality(Missed') <= faults * Cardinality(Proc)
    BY <1>11, <1>12, <2>1, Spared
  <2> QED BY <1>2, <2>2 DEF Losses
<1> QED BY <1>2, <1>8, <1>10, <1>13 DEF ReceiptInv

\* A request that brings what the audit refuses is no loss, and any other needs a
\* fault to lose the receipt.
LEMMA ReceiptReceipts ==
  ASSUME ReceiptInv, TellInv', NEW r \in Request, Receipt(r)
  PROVE  ReceiptInv'
<1>0. PICK id, outcome : id = hand[r].id /\ outcome = hand[r].stored
  OBVIOUS
<1>1. r \in Proc /\ Domains /\ Safe(r) /\ IInv /\ TellInv /\ Telling(r)
  BY DEF ReceiptInv, TellInv, IInv, Proc
<1>2. PICK to \in {"conflict", "ensure"} : Goto(r, "receipt", to)
  BY DEF Receipt
<1>3. PICK lost \in BOOLEAN :
        /\ Swallowing(r, lost)
        /\ audit' = IF lost THEN audit ELSE Appended(id, {ReceiptType(outcome)})
  BY <1>0 DEF Receipt
<1>4. UNCHANGED <<traffic, event, hand>>
  BY DEF Receipt
<1>5. /\ pc[r] = "receipt" /\ pc'[r] \in {"conflict", "ensure"}
      /\ \A q \in Proc \ {r} : pc'[q] = pc[q]
  BY <1>1, <1>2, GotoMoves
<1>6. hand[r].d \in traffic.of /\ id = Id[hand[r].d] /\ id \in Identity
  BY <1>0, <1>1, <1>5, InTraffic DEF Safe, Screened, AfterStore, Domains
<1>7. outcome \in StoreOutcomes
  BY <1>0, <1>1, <1>5 DEF Telling, Received
<1>8. ReceiptType(outcome) = "WEBHOOK_RECEIVED" <=> outcome = "STORED"
  BY <1>7 DEF StoreOutcomes, ReceiptType
<1>9. /\ ReceiptType(outcome) \in AuditTypes /\ "WEBHOOK_RECEIVED" \in AuditTypes
  BY <1>7 DEF StoreOutcomes, ReceiptType, AuditTypes
<1>10. \A i \in Identity :
         audit'[i]["WEBHOOK_RECEIVED"] =
           IF i = id /\ outcome = "STORED" /\ ~lost
           THEN audit[i]["WEBHOOK_RECEIVED"] + 1 ELSE audit[i]["WEBHOOK_RECEIVED"]
  <2>1. CASE lost
    BY <1>3, <2>1
  <2>2. CASE ~lost
    <3>1. {ReceiptType(outcome)} \in SUBSET AuditTypes
      BY <1>9
    <3> QED BY <1>1, <1>3, <1>6, <1>8, <1>9, <2>2, <3>1, AppendedAdds
  <2> QED BY <2>1, <2>2
<1>11. Identity' = Identity /\ Unfitting' = Unfitting
  BY <1>4, SameIdentities DEF Unfitting
<1>12. /\ \A q \in Request \ {r}, i \in Identity : Pending(q, i)' <=> Pending(q, i)
       /\ \A i \in Identity : ~Pending(r, i)'
       /\ \A i \in Identity : Pending(r, i) <=> i = id /\ outcome = "STORED"
  BY <1>0, <1>4, <1>5 DEF Pending, Proc
<1>13. ASSUME NEW i \in Identity PROVE Once(i)'
  <2>1. Once(i)
    BY DEF ReceiptInv
  <2> QED BY <1>4, <1>10, <1>12, <2>1 DEF Once
<1>14. faults' \in {faults, faults + 1} /\ faults \in Nat
  BY <1>3, SwallowingCounts DEF ReceiptInv
<1>15. IsFiniteSet(Missed)
  BY <1>1, Finite, FS_Subset DEF Missed, Domains
<1>16. /\ Cardinality(Missed) <= faults * Cardinality(Proc)
       /\ Cardinality(Proc) \in Nat
  BY <1>1, Finite DEF ReceiptInv, Losses, Domains
<1>17. Missed' \subseteq Missed \cup {id}
  <2>1. ASSUME NEW i \in Missed', i # id PROVE i \in Missed
    BY <1>4, <1>10, <1>11, <1>12, <2>1 DEF Missed
  <2> QED BY <2>1
<1>18. CASE lost /\ ~Unfit(r)
  <2>1. faults' = faults + 1
    BY <1>3, <1>18 DEF Swallowing, Fault
  <2>2. IsFiniteSet({id}) /\ Cardinality({id}) <= Cardinality(Proc)
    BY <1>1, Finite, FS_Singleton DEF Domains
  <2>3. Cardinality(Missed') <= (faults + 1) * Cardinality(Proc)
    BY <1>14, <1>15, <1>16, <1>17, <2>2, Charged
  <2> QED BY <1>11, <1>13, <1>14, <2>1, <2>3 DEF ReceiptInv, Losses
<1>19. CASE ~lost \/ Unfit(r)
  <2>1. id \in Missed' => id \in Missed
    <3>1. CASE Unfit(r)
      <4>1. id \in Unfitting
        BY <1>0, <1>6, <3>1 DEF Unfit, Unfitting
      <4> QED BY <1>11, <4>1 DEF Missed
    <3>2. CASE ~lost /\ outcome = "STORED"
      <4>1. audit[id]["WEBHOOK_RECEIVED"] \in Nat
        BY <1>1, <1>6, <1>9 DEF Tables, TellInv
      <4> QED BY <1>6, <1>10, <3>2, <4>1 DEF Missed
    <3>3. CASE outcome # "STORED"
      BY <1>4, <1>6, <1>10, <1>11, <1>12, <3>3 DEF Missed
    <3> QED BY <1>19, <3>1, <3>2, <3>3
  <2>2. Missed' \subseteq Missed
    BY <1>17, <2>1
  <2>3. Cardinality(Missed') <= faults' * Cardinality(Proc)
    BY <1>14, <1>15, <1>16, <2>2, Spared
  <2> QED BY <1>11, <1>13, <1>14, <2>3 DEF ReceiptInv, Losses
<1> QED BY <1>18, <1>19

LEMMA CrashReceipts ==
  ASSUME ReceiptInv, TellInv', Crash
  PROVE  ReceiptInv'
<1>1. Domains /\ TellInv
  BY DEF ReceiptInv, TellInv, IInv
<1>2. /\ UNCHANGED <<traffic, event, audit>>
      /\ faults' = faults + 1 /\ faults \in Nat
      /\ pc' = [p \in Proc |-> IF p \in Request THEN "idle" ELSE pc[p]]
  BY DEF Crash, tables, Fault, ReceiptInv
<1>3. Identity' = Identity /\ Unfitting' = Unfitting
  BY <1>2, SameIdentities DEF Unfitting
<1>4. \A r \in Request, i \in Identity : ~Pending(r, i)'
  BY <1>2 DEF Pending, Proc
<1>5. \A i \in Identity : Once(i)'
  BY <1>2, <1>4 DEF ReceiptInv, Once
<1> DEFINE T == {i \in Identity : \E r \in Request : Pending(r, i)}
           id == [r \in Request |-> hand[r].id]
<1>6. Missed' \subseteq Missed \cup T
  BY <1>2, <1>3, <1>4 DEF Missed
<1>7. IsFiniteSet(T) /\ Cardinality(T) <= Cardinality(Request)
  <2>1. \A i \in T : \E r \in Request : id[r] = i
    BY DEF Pending
  <2>2. IsFiniteSet(Request)
    BY IngestAssumption
  <2> HIDE DEF T, id
  <2> QED BY <2>1, <2>2, FewOf
<1>8. /\ IsFiniteSet(Missed) /\ Cardinality(Missed) <= faults * Cardinality(Proc)
      /\ Cardinality(Proc) \in Nat
  BY <1>1, Finite, FS_Subset DEF ReceiptInv, Losses, Missed, Domains
<1>9. Cardinality(T) <= Cardinality(Proc)
  <2>1. Cardinality(Request) <= Cardinality(Proc) /\ Cardinality(Request) \in Nat
    BY <1>1, Finite, FS_CardinalityType DEF Domains
  <2>2. Cardinality(T) \in Nat
    BY <1>7, FS_CardinalityType
  <2> QED BY <1>7, <1>8, <2>1, <2>2
<1>10. Cardinality(Missed') <= (faults + 1) * Cardinality(Proc)
  <2> HIDE DEF T
  <2> QED BY <1>2, <1>6, <1>7, <1>8, <1>9, Charged
<1> QED BY <1>2, <1>3, <1>5, <1>10 DEF ReceiptInv, Losses

-----------------------------------------------------------------------------
(* Receipts are on record once *)

LEMMA InitReceipts == Init => ReceiptInv
<1> SUFFICES ASSUME Init PROVE ReceiptInv
  OBVIOUS
<1>1. Missed = {} /\ \A i \in Identity : Once(i)
  BY DEF Init, Missed, Once, Pending, AuditTypes, Proc
<1>2. Cardinality(Missed) = 0
  BY <1>1, FS_EmptySet
<1>3. Losses = 0
  BY Finite DEF Init, Losses
<1> QED BY <1>1, <1>2, <1>3, InitTells DEF Init, ReceiptInv

LEMMA NextReceipts ==
  ASSUME ReceiptInv, [Next]_vars
  PROVE  ReceiptInv'
<1>1. TellInv /\ TellInv'
  BY NextTells DEF ReceiptInv
<1>2. ASSUME NEW p \in Proc, FinishAttempt(p) PROVE ReceiptInv'
  BY <1>1, <1>2, AttemptIsLonely, LonelyKeeps
<1>3. ASSUME NEW r \in Request, Handle(r) PROVE ReceiptInv'
  <2>1. r \in Proc
    BY DEF Proc
  <2> QED BY <1>1, <1>2, <1>3, <2>1, HandleIsLonely, LonelyKeeps, StoreReceipts,
             ReceiptReceipts DEF Handle
<1>4. ASSUME NEW d \in Delivery, Deliver(d) PROVE ReceiptInv'
  BY <1>1, <1>4, ArrivalIsLonely, LonelyKeeps DEF Deliver, Proc
<1>5. ASSUME NEW w \in Worker, Claim(w) \/ FinishAttempt(w) PROVE ReceiptInv'
  BY <1>1, <1>2, <1>5, ClaimIsLonely, LonelyKeeps DEF Proc
<1>6. ASSUME NEW p \in Proc, Throw(p) PROVE ReceiptInv'
  BY <1>1, <1>6, ThrowIsLonely, LonelyKeeps
<1>7. CASE Crash
  BY <1>1, <1>7, CrashReceipts
<1>8. CASE UNCHANGED vars
  <2>1. UNCHANGED <<traffic, event, audit, faults, pc, hand>>
    BY <1>8 DEF vars, tables
  <2> QED BY <1>1, <2>1 DEF ReceiptInv, Once, Missed, Losses, Identity, Unfitting, Pending
<1> QED BY <1>2, <1>3, <1>4, <1>5, <1>6, <1>7, <1>8 DEF Next

\* The receipt of an event is on record once at most, and no more of them are
\* missing than faults can take with them and request ids the audit refuses: the
\* store tells exactly one delivery that it was STORED, and the audit row that
\* follows is attempted once (process-incoming-webhook.ts, recordIngestAudit).
THEOREM ReceiptsAreOnRecord == Spec => []ReceivedOnce
<1>1. ReceiptInv => ReceivedOnce
  <2> SUFFICES ASSUME ReceiptInv PROVE ReceivedOnce
    OBVIOUS
  <2> DEFINE pending(i) == {r \in Request : /\ pc[r] = "receipt"
                                            /\ hand[r].id = i
                                            /\ hand[r].stored = "STORED"}
             missing == {i \in Identity : /\ event[i] # NoEvent
                                          /\ audit[i]["WEBHOOK_RECEIVED"] = 0
                                          /\ pending(i) = {}}
             unfit == {d \in traffic.of : ~Content[d].rid}
  <2>1. ASSUME NEW i \in Identity
        PROVE  audit[i]["WEBHOOK_RECEIVED"] + Cardinality(pending(i)) <= 1
    <3>1. Once(i)
      BY DEF ReceiptInv
    <3>2. CASE pending(i) = {}
      <4>1. Cardinality(pending(i)) = 0
        BY <3>2, FS_EmptySet
      <4> QED BY <3>1, <4>1 DEF Once
    <3>3. ASSUME NEW r \in pending(i)
          PROVE  audit[i]["WEBHOOK_RECEIVED"] + Cardinality(pending(i)) <= 1
      <4>1. pending(i) = {r} /\ audit[i]["WEBHOOK_RECEIVED"] = 0
        BY <3>1, <3>3 DEF Once, Pending
      <4>2. Cardinality(pending(i)) = 1
        BY <4>1, FS_Singleton
      <4> QED BY <4>1, <4>2
    <3> QED BY <3>2, <3>3
  <2>2. IsFiniteSet(Missed) /\ Cardinality(Missed) <= Losses /\ Losses \in Nat
    BY Finite, FS_Subset DEF ReceiptInv, Losses, Missed, TellInv, IInv, Domains
  <2>3. IsFiniteSet(unfit) /\ Cardinality(unfit) \in Nat
    BY Finite, FS_Subset, FS_CardinalityType DEF ReceiptInv, TellInv, IInv, Domains
  <2>4. IsFiniteSet(Unfitting) /\ Cardinality(Unfitting) <= Cardinality(unfit)
    <3>1. \A i \in Unfitting : \E d \in unfit : Id[d] = i
      BY DEF Unfitting
    <3> HIDE DEF unfit
    <3> QED BY <2>3, <3>1, FewOf
  <2>5. missing \subseteq Missed \cup Unfitting
    BY DEF Missed, Pending
  <2>6. Cardinality(missing) <= Losses + Cardinality(unfit)
    <3>1. /\ IsFiniteSet(Missed \cup Unfitting)
          /\ Cardinality(Missed \cup Unfitting)
               = Cardinality(Missed) + Cardinality(Unfitting)
                   - Cardinality(Missed \cap Unfitting)
      BY <2>2, <2>4, FS_Union
    <3>2. IsFiniteSet(Missed \cap Unfitting)
      BY <2>2, FS_Intersection
    <3>3. IsFiniteSet(missing)
          /\ Cardinality(missing) <= Cardinality(Missed \cup Unfitting)
      BY <2>5, <3>1, FS_Subset
    <3>4. /\ Cardinality(Missed) \in Nat /\ Cardinality(Unfitting) \in Nat
          /\ Cardinality(Missed \cap Unfitting) \in Nat
          /\ Cardinality(missing) \in Nat
          /\ Cardinality(Missed \cup Unfitting) \in Nat
      BY <2>2, <2>4, <3>1, <3>2, <3>3, FS_CardinalityType
    <3> HIDE DEF missing, unfit
    <3> QED BY <2>2, <2>3, <2>4, <3>1, <3>3, <3>4
  <2> QED BY <2>1, <2>6 DEF ReceivedOnce
<1>2. ReceiptInv /\ [Next]_vars => ReceiptInv'
  BY NextReceipts
<1> QED BY <1>1, <1>2, InitReceipts, PTL DEF Spec

-----------------------------------------------------------------------------
(* What was given up *)

\* An attempt that gives up has something severe to raise.
LEMMA GivingUpIsSevere ==
  ASSUME NEW cause, cause.by = "attempt",
         cause.code \in {"none", "PERMANENT_CONFLICT", "TEMPORARY_DATABASE_FAILURE"},
         AttemptStatus(cause) = "DEAD_LETTERED"
  PROVE  \E code \in detectException(Facts(cause)) : Severe(code)
<1>1. fact("RETRY_EXHAUSTED") \in Facts(cause) \/ fact("CONFLICTING_EVENT") \in Facts(cause)
  <2>1. factsFromRetryOutcome(cause) \subseteq Facts(cause)
    BY DEF Facts
  <2>2. CASE cause.last
    BY <2>1, <2>2 DEF factsFromRetryOutcome
  <2>3. CASE ~cause.last
    <3>1. cause.code = "PERMANENT_CONFLICT"
      BY <2>3 DEF AttemptStatus, NON_RETRYABLE_CODES
    <3>2. factsFromFailureCode(cause.code) = {fact("CONFLICTING_EVENT")}
      BY <3>1 DEF factsFromFailureCode
    <3> QED BY <2>1, <2>3, <3>2 DEF factsFromRetryOutcome
  <2> QED BY <2>2, <2>3
<1>2. \A f \in Facts(cause) : f.kind \in detectException(Facts(cause))
  BY DEF detectException, expandFacts
<1>3. Severe("RETRY_EXHAUSTED") /\ Severe("CONFLICTING_EVENT")
  BY DEF Severe, severityForExceptionCode
<1>4. fact("RETRY_EXHAUSTED").kind = "RETRY_EXHAUSTED"
      /\ fact("CONFLICTING_EVENT").kind = "CONFLICTING_EVENT"
  BY DEF fact
<1> QED BY <1>1, <1>2, <1>3, <1>4

\* p alone moves.
Moved(p) ==
  traffic' = traffic /\ faults' \in {faults, faults + 1} /\ Elsewhere(p)

LEMMA LostIsFew ==
  ASSUME GraveInv
  PROVE  /\ IsFiniteSet(Lost) /\ faults \in Nat /\ Cardinality(Proc) \in Nat
         /\ Cardinality(Lost) <= faults * Cardinality(Proc)
BY Finite, FS_Subset DEF GraveInv, Lost, Losses, TellInv, IInv, Domains

LEMMA NothingLost ==
  ASSUME GraveInv, faults' \in {faults, faults + 1}, Lost' \subseteq Lost
  PROVE  faults' \in Nat /\ Cardinality(Lost') <= Losses'
<1>1. Cardinality(Lost') <= faults' * Cardinality(Proc)
  BY LostIsFew, Spared
<1> QED BY <1>1, LostIsFew DEF Losses

LEMMA OneLost ==
  ASSUME GraveInv, faults' = faults + 1, NEW i, Lost' \subseteq Lost \cup {i},
         NEW p \in Proc
  PROVE  faults' \in Nat /\ Cardinality(Lost') <= Losses'
<1>1. IsFiniteSet({i}) /\ Cardinality({i}) = 1 /\ Cardinality({p}) = 1
  BY FS_Singleton
<1>2. Cardinality({i}) <= Cardinality(Proc)
  BY <1>1, Finite DEF GraveInv, TellInv, IInv, Domains
<1>3. Cardinality(Lost') <= (faults + 1) * Cardinality(Proc)
  BY <1>1, <1>2, LostIsFew, Charged
<1> QED BY <1>3, LostIsFew DEF Losses

LEMMA MovedGraves ==
  ASSUME GraveInv, TellInv', NEW p \in Proc, Moved(p), Grave(p)',
         faults' \in Nat, Cardinality(Lost') <= Losses'
  PROVE  GraveInv'
<1>1. ASSUME NEW q \in Proc \ {p} PROVE Grave(q)'
  BY DEF GraveInv, Grave, Moved, Elsewhere, Unfit
<1> QED BY <1>1 DEF GraveInv

\* Who is to raise nothing severe loses nothing by moving on.
LEMMA CalmLoses ==
  ASSUME GraveInv, NEW p \in Proc, Moved(p), raised \subseteq raised',
         \A i \in Identity : ~Owing(p, i),
         \A i \in Identity :
           row'[i].status = "DEAD_LETTERED" => row[i].status = "DEAD_LETTERED"
  PROVE  Lost' \subseteq Lost
<1>1. Identity' = Identity
  BY SameIdentities DEF Moved
<1>2. ASSUME NEW q \in Proc, NEW i \in Identity, ~Owing(q, i)' PROVE ~Owing(q, i)
  BY <1>2 DEF Owing, Moved, Elsewhere
<1> QED BY <1>1, <1>2 DEF Lost

\* Points at which nothing has to be said of the cause.
LEMMA CalmGraves ==
  ASSUME GraveInv, TellInv', NEW p \in Proc, Moved(p), raised \subseteq raised',
         pc[p] # "raise", Grave(p)',
         \A i \in Identity :
           row'[i].status = "DEAD_LETTERED" => row[i].status = "DEAD_LETTERED"
  PROVE  GraveInv'
<1>1. \A i \in Identity : ~Owing(p, i)
  BY DEF Owing
<1>2. Lost' \subseteq Lost
  BY <1>1, CalmLoses
<1> QED BY <1>2, NothingLost, MovedGraves DEF Moved

LEMMA LonelyMoves ==
  ASSUME NEW p \in Proc, Lonely(p)
  PROVE  Moved(p)
BY DEF Lonely, Moved

LEMMA IdleIsGrave ==
  ASSUME NEW p \in Proc, pc'[p] \notin {"commit", "settle", "tell", "raise"}
  PROVE  Grave(p)'
BY DEF Grave

\* Before the attempt.
LEMMA ArrivalGraves ==
  ASSUME GraveInv, TellInv', NEW r \in Request, NEW d \in Delivery,
         TurnAway(r, d) \/ Receive(r, d)
  PROVE  GraveInv'
<1>1. r \in Proc /\ Moved(r)
  BY ArrivalIsLonely, LonelyMoves DEF GraveInv, Proc
<1>2. pc[r] = "idle" /\ UNCHANGED <<row, raised>>
  BY DEF TurnAway, Receive, Sends, tables
<1>3. pc'[r] \in {"idle", "store", "refuse"}
  BY <1>1, <1>2 DEF TurnAway, Receive, Goto, GraveInv, TellInv, IInv, Domains
<1>4. Grave(r)'
  BY <1>1, <1>3, IdleIsGrave
<1> QED BY <1>1, <1>2, <1>4, CalmGraves

LEMMA HandleMoves ==
  ASSUME TellInv, NEW r \in Request,
         \/ Refuse(r) \/ Report(r) \/ StoreThrows(r) \/ ReportConflict(r)
         \/ Ensure(r) \/ Begin(r) \/ Observe(r) \/ Store(r) \/ Receipt(r)
  PROVE  Moved(r)
<1>1. r \in Proc /\ Domains
  BY DEF TellInv, IInv, Proc
<1>2. CASE Store(r)
  <2>1. Goto(r, "store", "receipt") /\ UNCHANGED <<traffic, faults>>
    BY <1>2 DEF Store
  <2>2. \A q \in Proc \ {r} : hand'[q] = hand[q]
    BY <1>1, <1>2 DEF Store, Domains
  <2> QED BY <1>1, <2>1, <2>2, GotoMoves DEF Moved, Elsewhere, TellInv
<1>3. CASE Receipt(r)
  <2>1. UNCHANGED <<traffic, hand>> /\ faults' \in {faults, faults + 1}
    BY <1>3, SwallowingCounts DEF Receipt
  <2>2. PICK to \in {"conflict", "ensure"} : Goto(r, "receipt", to)
    BY <1>3 DEF Receipt
  <2> QED BY <1>1, <2>1, <2>2, GotoMoves DEF Moved, Elsewhere, TellInv
<1>4. CASE ~Store(r) /\ ~Receipt(r)
  BY <1>1, <1>4, HandleIsLonely, LonelyMoves
<1> QED BY <1>2, <1>3, <1>4

LEMMA HandleGraves ==
  ASSUME GraveInv, TellInv', NEW r \in Request,
         \/ Refuse(r) \/ Report(r) \/ StoreThrows(r) \/ ReportConflict(r)
         \/ Ensure(r) \/ Begin(r) \/ Observe(r) \/ Store(r) \/ Receipt(r)
  PROVE  GraveInv'
<1>1. r \in Proc /\ TellInv /\ Domains
  BY DEF GraveInv, TellInv, IInv, Proc
<1>2. Moved(r)
  BY <1>1, HandleMoves
<1>3. pc[r] # "raise" /\ raised \subseteq raised'
  BY DEF Refuse, Report, StoreThrows, ReportConflict, Ensure, Begin, Observe, Store,
         Receipt, Goto, Raised, tables
<1>4. pc'[r] \in {"idle", "report", "receipt", "conflict", "ensure", "begin",
                  "observe", "announce"}
  <2>1. CASE Leave(r)
    BY <1>1, <2>1 DEF Leave, Domains
  <2>2. CASE \E from, to \in Points : Goto(r, from, to)
             /\ to \in {"report", "receipt", "conflict", "ensure", "begin", "observe",
                        "announce"}
    BY <1>1, <2>2, SMTT(40) DEF Goto, Domains
  <2>3. Leave(r) \/ \E from, to \in Points : Goto(r, from, to)
             /\ to \in {"report", "receipt", "conflict", "ensure", "begin", "observe",
                        "announce"}
    BY <1>1, ThrownLeaves DEF Refuse, Report, StoreThrows, ReportConflict, Ensure,
       Begin, Observe, Store, Receipt, Answer, Points, AttemptPoints, HoldPoints
  <2> QED BY <2>1, <2>2, <2>3
<1>5. Grave(r)'
  BY <1>1, <1>4, IdleIsGrave, SMTT(40)
<1>6. ASSUME NEW i \in Identity, row'[i].status = "DEAD_LETTERED"
      PROVE  row[i].status = "DEAD_LETTERED"
  <2>1. CASE row' = row
    BY <1>6, <2>1
  <2>2. CASE Ensure(r)
    BY <1>1, <1>6, <2>2 DEF Ensure, Domains
  <2>3. CASE \E id : row' = [row EXCEPT ![id].status = "PROCESSING", ![id].att = @ + 1]
    BY <1>1, <1>6, <2>3 DEF Domains
  <2> QED BY <2>1, <2>2, <2>3 DEF Refuse, Report, StoreThrows, ReportConflict, Begin,
             Claims, Observe, Store, Receipt, tables
<1> QED BY <1>1, <1>2, <1>3, <1>5, <1>6, CalmGraves

LEMMA ClaimGraves ==
  ASSUME GraveInv, TellInv', NEW w \in Worker, Claim(w)
  PROVE  GraveInv'
<1>1. w \in Proc /\ Moved(w) /\ Domains
  BY ClaimIsLonely, LonelyMoves DEF GraveInv, TellInv, IInv, Proc
<1>2. pc[w] = "idle" /\ pc'[w] = "announce" /\ raised' = raised
  BY <1>1 DEF Claim, Goto, Domains
<1>3. ASSUME NEW i \in Identity, row'[i].status = "DEAD_LETTERED"
      PROVE  row[i].status = "DEAD_LETTERED"
  BY <1>1, <1>3 DEF Claim, Claims, Domains
<1>4. Grave(w)'
  BY <1>1, <1>2, IdleIsGrave
<1> QED BY <1>1, <1>2, <1>3, <1>4, CalmGraves

\* A process that lets go anywhere but at its exceptions.
LEMMA ThrownGraves ==
  ASSUME GraveInv, TellInv', NEW p \in Proc, Moved(p), Thrown(p), pc[p] # "raise",
         UNCHANGED <<row, raised>>
  PROVE  GraveInv'
<1>1. pc'[p] = "idle"
  BY ThrownLeaves DEF Leave, GraveInv, TellInv, IInv, Domains
<1>2. Grave(p)'
  BY <1>1, IdleIsGrave
<1> QED BY <1>2, CalmGraves

LEMMA WorkGraves ==
  ASSUME GraveInv, TellInv', NEW p \in Proc, Work(p), Moved(p)
  PROVE  GraveInv'
<1>1. Domains /\ IInv
  BY DEF GraveInv, TellInv, IInv
<1>2. /\ pc[p] = "work" /\ pc'[p] = "commit" /\ UNCHANGED <<row, raised>>
  BY <1>1 DEF Work, Goto, Domains
<1>3. hand[p].id \in Identity /\ event[hand[p].id] # NoEvent
  BY <1>1, <1>2, InHand DEF Working, AttemptPoints, HoldPoints
<1>4. Decision(Meeting(hand[p].id)) \in {"ACCEPTED", "DELAYED", "CONFLICT"}
  BY <1>1, <1>3, MeetingDecides
<1>5. DecisionCode(Meeting(hand[p].id)) \in {"none", "PERMANENT_CONFLICT"}
  BY <1>4 DEF DecisionCode
<1>6. \E code \in {"none", "PERMANENT_CONFLICT", "TEMPORARY_DATABASE_FAILURE"} :
        \E met : Attempted(p, code, met)
  BY <1>5 DEF Work
<1>7. /\ hand'[p].cause.by = "attempt"
      /\ hand'[p].cause.code \in
           {"none", "PERMANENT_CONFLICT", "TEMPORARY_DATABASE_FAILURE"}
  BY <1>1, <1>6 DEF Attempted, Domains
<1>8. Grave(p)'
  BY <1>2, <1>7 DEF Grave
<1> QED BY <1>2, <1>8, CalmGraves

LEMMA CommitGraves ==
  ASSUME GraveInv, TellInv', NEW p \in Proc, Commit(p), Moved(p)
  PROVE  GraveInv'
<1>1. pc[p] = "commit" /\ UNCHANGED <<row, raised>>
  BY DEF Commit
<1>2. CASE Thrown(p)
  BY <1>1, <1>2, ThrownGraves
<1>3. CASE /\ Goto(p, "commit", "settle") /\ hand' = hand
           /\ ~(Drafts(p) # {} /\ Unfit(p))
  <2>1. pc'[p] = "settle"
    BY <1>3 DEF Goto, GraveInv, TellInv, IInv, Domains
  <2>2. AttemptStatus(hand[p].cause) = "DEAD_LETTERED" => ~Unfit(p)
    BY <1>3 DEF Drafts
  <2>3. Grave(p)'
    BY <1>1, <1>3, <2>1, <2>2 DEF Grave, GraveInv, Unfit
  <2> QED BY <1>1, <2>3, CalmGraves
<1> QED BY <1>2, <1>3 DEF Commit

LEMMA SettleGraves ==
  ASSUME GraveInv, TellInv', NEW p \in Proc, Settle(p), Moved(p)
  PROVE  GraveInv'
<1>0. PICK id, outcome : id = hand[p].id /\ outcome = AttemptStatus(hand[p].cause)
  OBVIOUS
<1>1. /\ pc[p] = "settle" /\ UNCHANGED <<traffic, hand, raised, faults>>
      /\ Goto(p, "settle", IF outcome = "RETRY_SCHEDULED" THEN "tell" ELSE "raise")
  BY <1>0 DEF Settle, Goto
<1>2. Domains /\ IInv
  BY DEF GraveInv, TellInv, IInv
<1>3. id \in Identity
  BY <1>0, <1>1, <1>2, InHand DEF Working, AttemptPoints, HoldPoints
<1>4. /\ \A i \in Identity \ {id} : row'[i] = row[i]
      /\ row'[id].status = outcome
  <2>1. row' = [row EXCEPT ![id].status = outcome,
                           ![id].failed = outcome # "SUCCEEDED" \/ @]
    BY <1>0 DEF Settle
  <2> QED BY <1>2, <1>3, <2>1 DEF Domains
<1>5. pc'[p] = IF outcome = "RETRY_SCHEDULED" THEN "tell" ELSE "raise"
  BY <1>1, <1>2 DEF Goto, Domains
<1>6. Grave(p)'
  BY <1>0, <1>1, <1>5 DEF Grave, GraveInv, Unfit
<1>7. outcome = "DEAD_LETTERED" => Owing(p, id)'
  BY <1>0, <1>1, <1>5 DEF Owing
<1>8. Lost' \subseteq Lost
  <2>1. ASSUME NEW i \in Lost' PROVE i \in Lost
    <3>1. /\ i \in Identity /\ row'[i].status = "DEAD_LETTERED"
          /\ \A q \in Proc : ~Owing(q, i)'
          /\ \A x \in raised : x[2][1] = i => ~Severe(x[1])
      BY <1>1, SameIdentities DEF Lost
    <3>2. i # id
      BY <1>4, <1>7, <3>1
    <3>3. row[i].status = "DEAD_LETTERED"
      BY <1>4, <3>1, <3>2
    <3>4. \A q \in Proc : ~Owing(q, i)
      BY <1>1, <3>1 DEF Owing, Moved, Elsewhere
    <3> QED BY <3>1, <3>3, <3>4 DEF Lost
  <2> QED BY <2>1
<1> QED BY <1>1, <1>6, <1>8, NothingLost, MovedGraves

LEMMA TellGraves ==
  ASSUME GraveInv, TellInv', NEW p \in Proc, Tell(p), Moved(p)
  PROVE  GraveInv'
<1>1. pc[p] = "tell" /\ UNCHANGED <<row, raised>>
  BY DEF Tell
<1>2. CASE Thrown(p)
  BY <1>1, <1>2, ThrownGraves
<1>3. CASE Goto(p, "tell", "raise") /\ hand' = hand /\ ~Unfit(p)
  <2>1. pc'[p] = "raise"
    BY <1>3 DEF Goto, GraveInv, TellInv, IInv, Domains
  <2>2. Grave(p)'
    BY <1>1, <1>3, <2>1 DEF Grave, GraveInv, Unfit
  <2> QED BY <1>1, <2>2, CalmGraves
<1> QED BY <1>2, <1>3 DEF Tell

\* Whatever was given up is raised now, unless a fault takes it.
LEMMA RaiseGraves ==
  ASSUME GraveInv, TellInv', NEW p \in Proc, Raise(p), Moved(p)
  PROVE  GraveInv'
<1>0. PICK id : id = hand[p].id
  OBVIOUS
<1>1. Domains /\ IInv
  BY DEF GraveInv, TellInv, IInv
<1>2. pc[p] = "raise" /\ UNCHANGED <<traffic, row>>
  BY DEF Raise
<1>3. PICK lost \in BOOLEAN :
        /\ Swallowing(p, lost)
        /\ raised' = IF lost THEN raised ELSE Raised(hand[p].cause, <<id, event[id].pay>>)
  BY <1>0 DEF Raise
<1>4. raised \subseteq raised' /\ faults' \in {faults, faults + 1}
  BY <1>3, SwallowingCounts DEF Raised
<1>5. pc'[p] \in {"observe", "idle"}
  BY <1>1 DEF Raise, Goto, Leave, Domains
<1>6. Grave(p)'
  BY <1>5, IdleIsGrave
<1>7. id \in Identity
  BY <1>0, <1>1, <1>2, InHand DEF Working, AttemptPoints
<1>8. CASE AttemptStatus(hand[p].cause) # "DEAD_LETTERED"
  <2>1. Lost' \subseteq Lost
    BY <1>2, <1>4, <1>8, CalmLoses DEF Owing
  <2> QED BY <1>4, <1>6, <2>1, NothingLost, MovedGraves
<1>9. CASE AttemptStatus(hand[p].cause) = "DEAD_LETTERED"
  <2>1. Grave(p)
    BY DEF GraveInv
  <2>2. ~Unfit(p)
    BY <1>2, <1>9, <2>1 DEF Grave
  <2>3. PICK code \in detectException(Facts(hand[p].cause)) : Severe(code)
    BY <1>2, <1>9, <2>1, GivingUpIsSevere DEF Grave
  <2>4. ASSUME NEW i \in Lost', i # id PROVE i \in Lost
    <3>1. /\ i \in Identity /\ row[i].status = "DEAD_LETTERED"
          /\ \A q \in Proc : ~Owing(q, i)'
          /\ \A x \in raised' : x[2][1] = i => ~Severe(x[1])
      BY <1>2, SameIdentities DEF Lost
    <3>2. \A q \in Proc : ~Owing(q, i)
      BY <1>0, <2>4, <3>1 DEF Owing, Moved, Elsewhere
    <3> QED BY <1>4, <3>1, <3>2 DEF Lost
  <2>5. CASE lost
    <3>1. faults' = faults + 1
      BY <1>3, <2>2, <2>5 DEF Swallowing, Fault
    <3>2. Lost' \subseteq Lost \cup {id}
      BY <2>4
    <3> QED BY <1>6, <3>1, <3>2, OneLost, MovedGraves
  <2>6. CASE ~lost
    <3> DEFINE x == <<code, <<id, event[id].pay>>>>
    <3>1. x \in raised'
      BY <1>3, <2>6 DEF Raised
    <3>2. x[2][1] = id /\ Severe(x[1])
      BY <2>3
    <3>3. id \notin Lost'
      BY <3>1, <3>2 DEF Lost
    <3>4. Lost' \subseteq Lost
      BY <2>4, <3>3
    <3> QED BY <1>4, <1>6, <3>4, NothingLost, MovedGraves
  <2> QED BY <2>5, <2>6
<1> QED BY <1>8, <1>9

LEMMA ThrowGraves ==
  ASSUME GraveInv, TellInv', NEW p \in Proc, Throw(p)
  PROVE  GraveInv'
<1>1. /\ Moved(p) /\ Thrown(p) /\ UNCHANGED <<traffic, row, raised>>
      /\ faults' = faults + 1
  BY ThrowIsLonely, LonelyMoves DEF Throw, Fault, tables, GraveInv
<1>2. CASE pc[p] # "raise"
  BY <1>1, <1>2, ThrownGraves
<1>3. CASE pc[p] = "raise"
  <2>1. pc'[p] = "idle"
    BY <1>1, ThrownLeaves DEF Leave, GraveInv, TellInv, IInv, Domains
  <2>2. Grave(p)'
    BY <2>1, IdleIsGrave
  <2>3. ASSUME NEW i \in Lost', i # hand[p].id PROVE i \in Lost
    <3>1. /\ i \in Identity /\ row[i].status = "DEAD_LETTERED"
          /\ \A q \in Proc : ~Owing(q, i)'
          /\ \A x \in raised : x[2][1] = i => ~Severe(x[1])
      BY <1>1, SameIdentities DEF Lost
    <3>2. \A q \in Proc : ~Owing(q, i)
      BY <1>1, <2>3, <3>1 DEF Owing, Moved, Elsewhere
    <3> QED BY <3>1, <3>2 DEF Lost
  <2>4. Lost' \subseteq Lost \cup {hand[p].id}
    BY <2>3
  <2> QED BY <1>1, <2>2, <2>4, OneLost, MovedGraves
<1> QED BY <1>2, <1>3

LEMMA CrashGraves ==
  ASSUME GraveInv, TellInv', Crash
  PROVE  GraveInv'
<1>1. /\ UNCHANGED <<traffic, row, raised>> /\ faults' = faults + 1
      /\ pc' = [p \in Proc |-> IF p \in Request THEN "idle" ELSE pc[p]]
      /\ hand' = [p \in Proc |-> IF p \in Request THEN Idle ELSE hand[p]]
  BY DEF Crash, tables, Fault
<1> DEFINE T == {i \in Identity : \E p \in Proc : Owing(p, i)}
           id == [p \in Proc |-> hand[p].id]
<1>2. Lost' \subseteq Lost \cup T
  BY <1>1, SameIdentities DEF Lost
<1>3. IsFiniteSet(Proc)
  BY Finite DEF GraveInv, TellInv, IInv, Domains
<1>4. IsFiniteSet(T) /\ Cardinality(T) <= Cardinality(Proc)
  <2>1. \A i \in T : \E p \in Proc : id[p] = i
    BY DEF Owing
  <2> HIDE DEF T, id
  <2> QED BY <1>3, <2>1, FewOf
<1>5. Cardinality(Lost') <= (faults + 1) * Cardinality(Proc)
  <2> HIDE DEF T
  <2> QED BY <1>2, <1>4, LostIsFew, Charged
<1>6. ASSUME NEW p \in Proc PROVE Grave(p)'
  <2>1. CASE p \in Request
    BY <1>1, <2>1 DEF Grave
  <2>2. CASE p \notin Request
    BY <1>1, <2>2 DEF Grave, GraveInv, Unfit
  <2> QED BY <2>1, <2>2
<1> QED BY <1>1, <1>5, <1>6, LostIsFew DEF GraveInv, Losses

-----------------------------------------------------------------------------
(* What is given up is raised *)

LEMMA InitGraves == Init => GraveInv
<1> SUFFICES ASSUME Init PROVE GraveInv
  OBVIOUS
<1>1. Lost = {} /\ \A p \in Proc : Grave(p)
  BY DEF Init, Lost, Grave
<1>2. Cardinality(Lost) = 0
  BY <1>1, FS_EmptySet
<1>3. Losses = 0
  BY Finite DEF Init, Losses
<1> QED BY <1>1, <1>2, <1>3, InitTells DEF Init, GraveInv

LEMMA NextGraves ==
  ASSUME GraveInv, [Next]_vars
  PROVE  GraveInv'
<1>1. TellInv /\ TellInv'
  BY NextTells DEF GraveInv
<1>2. ASSUME NEW p \in Proc, FinishAttempt(p) PROVE GraveInv'
  <2>1. Moved(p)
    BY <1>1, <1>2, AttemptIsLonely, LonelyMoves
  <2>2. CASE Announce(p)
    <3>1. pc[p] = "announce" /\ UNCHANGED <<row, raised>>
      BY <2>2 DEF Announce
    <3>2. CASE Thrown(p)
      BY <1>1, <2>1, <3>1, <3>2, ThrownGraves
    <3>3. CASE Goto(p, "announce", "work")
      <4>1. pc'[p] = "work"
        BY <3>3 DEF Goto, GraveInv, TellInv, IInv, Domains
      <4>2. Grave(p)'
        BY <4>1, IdleIsGrave
      <4> QED BY <1>1, <2>1, <3>1, <4>2, CalmGraves
    <3> QED BY <2>2, <3>2, <3>3 DEF Announce
  <2> QED BY <1>1, <1>2, <2>1, <2>2, WorkGraves, CommitGraves, SettleGraves,
             TellGraves, RaiseGraves DEF FinishAttempt
<1>3. ASSUME NEW r \in Request, Handle(r) PROVE GraveInv'
  <2>1. r \in Proc
    BY DEF Proc
  <2> QED BY <1>1, <1>2, <1>3, <2>1, HandleGraves DEF Handle
<1>4. ASSUME NEW d \in Delivery, Deliver(d) PROVE GraveInv'
  BY <1>1, <1>4, ArrivalGraves DEF Deliver
<1>5. ASSUME NEW w \in Worker, Claim(w) \/ FinishAttempt(w) PROVE GraveInv'
  BY <1>1, <1>2, <1>5, ClaimGraves DEF Proc
<1>6. ASSUME NEW p \in Proc, Throw(p) PROVE GraveInv'
  BY <1>1, <1>6, ThrowGraves
<1>7. CASE Crash
  BY <1>1, <1>7, CrashGraves
<1>8. CASE UNCHANGED vars
  <2>1. UNCHANGED <<traffic, row, raised, faults, pc, hand>>
    BY <1>8 DEF vars, tables
  <2> QED BY <1>1, <2>1 DEF GraveInv, Grave, Lost, Losses, Identity, Owing, Unfit
<1> QED BY <1>2, <1>3, <1>4, <1>5, <1>6, <1>7, <1>8 DEF Next

\* Whatever was given up is on the operators' list as an ERROR at least, unless a
\* fault took the record: the attempt that dead-letters has a severe exception to
\* raise, writes it after the row, and a request whose id no exception may carry
\* does not get as far as the row (webhook-attempt.ts, recordAttemptExceptions;
\* packages/exceptions, detectException).
THEOREM GivenUpIsRaised == Spec => []DeadLettersAreRaised
<1>1. GraveInv => DeadLettersAreRaised
  <2> SUFFICES ASSUME GraveInv PROVE DeadLettersAreRaised
    OBVIOUS
  <2> DEFINE unseen ==
        {id \in Identity :
           /\ row[id].status = "DEAD_LETTERED"
           /\ \A p \in Proc : ~(pc[p] = "raise" /\ hand[p].id = id)
           /\ \A x \in raised :
                x[2][1] = id =>
                  severityForExceptionCode(x[1]) \notin {"ERROR", "CRITICAL"}}
  <2>1. unseen \subseteq Lost
    BY DEF Lost, Owing, Severe
  <2>2. IsFiniteSet(Lost) /\ Cardinality(Lost) <= Losses /\ Losses \in Nat
    BY LostIsFew DEF GraveInv, Losses
  <2>3. /\ Cardinality(unseen) <= Cardinality(Lost)
        /\ Cardinality(unseen) \in Nat /\ Cardinality(Lost) \in Nat
    BY <2>1, <2>2, FS_Subset, FS_CardinalityType
  <2>4. Cardinality(unseen) <= Losses
    <3> HIDE DEF unseen
    <3> QED BY <2>2, <2>3
  <2> QED BY <2>4 DEF DeadLettersAreRaised
<1>2. GraveInv /\ [Next]_vars => GraveInv'
  BY NextGraves
<1> QED BY <1>1, <1>2, InitGraves, PTL DEF Spec

-----------------------------------------------------------------------------
(* Types *)

\* A free process has nothing in hand, a busy one an event of this traffic.
Neat(p) ==
  /\ pc[p] = "idle" => hand[p] = Idle
  /\ pc[p] # "idle" => hand[p].id \in Identity
  /\ pc[p] \in {"refuse", "report"} => hand[p].cause.by \in {"verifier", "adapter"}

\* Every exception is of a known kind and about a delivery.
Listed(x) ==
  /\ x[1] \in ExceptionCodes
  /\ \E d \in traffic.of : x[2] \in {Correlation(d), Subject(Id[d], d)}

TypeInv ==
  /\ GraveInv /\ CountInv
  /\ \A p \in Proc : Neat(p)
  /\ \A x \in raised : Listed(x)

LEMMA KnownKinds ==
  ASSUME NEW cause, cause.by \in {"verifier", "adapter", "store", "attempt"}
  PROVE  detectException(Facts(cause)) \subseteq ExceptionCodes
<1> DEFINE OfKind(facts) == \A f \in facts : f.kind \in ExceptionCodes
<1>1. {"INVALID_SIGNATURE", "MALFORMED_WEBHOOK", "UNSUPPORTED_EVENT",
       "CONFLICTING_EVENT", "INVALID_STATE_TRANSITION", "PROCESSING_FAILURE",
       "RETRY_EXHAUSTED", "OUT_OF_ORDER_EVENT", "MISSING_EVENT",
       "DUPLICATE_EVENT"} \subseteq ExceptionCodes
  <2> DEFINE E == EXCEPTION_PRECEDENCE
  <2>1. /\ E[1] = "INVALID_SIGNATURE" /\ E[2] = "MALFORMED_WEBHOOK"
        /\ E[3] = "UNSUPPORTED_EVENT" /\ E[4] = "CONFLICTING_EVENT"
        /\ E[5] = "INVALID_STATE_TRANSITION" /\ E[6] = "PROCESSING_FAILURE"
        /\ E[7] = "RETRY_EXHAUSTED" /\ E[8] = "OUT_OF_ORDER_EVENT"
        /\ E[9] = "MISSING_EVENT" /\ E[10] = "DUPLICATE_EVENT"
    BY DEF EXCEPTION_PRECEDENCE
  <2>2. \A i \in 1..10 : E[i] \in ExceptionCodes
    BY DEF ExceptionCodes
  <2> HIDE DEF E
  <2> QED BY <2>1, <2>2
<1>2. \A code : OfKind(factsFromVerificationStatus(code))
  BY <1>1 DEF factsFromVerificationStatus, fact
<1>3. \A code : OfKind(factsFromWebhookErrorCode(code))
  BY <1>1 DEF factsFromWebhookErrorCode, fact
<1>4. \A code : OfKind(factsFromStoreOutcome(code))
  BY <1>1 DEF factsFromStoreOutcome, fact
<1>5. \A code : OfKind(factsFromFailureCode(code))
  BY <1>1, <1>2, <1>3 DEF factsFromFailureCode, fact
<1>6. \A met : OfKind(factsFromReplayDecision(met))
  <2> SUFFICES ASSUME NEW met, NEW f \in factsFromReplayDecision(met)
               PROVE  f.kind \in ExceptionCodes
    OBVIOUS
  <2>1. f.kind \in {"OUT_OF_ORDER_EVENT", "INVALID_STATE_TRANSITION",
                    "CONFLICTING_EVENT"}
    BY DEF factsFromReplayDecision, fact
  <2> QED BY <1>1, <2>1
<1>7. OfKind(factsFromRetryOutcome(cause))
  BY <1>1, <1>5 DEF factsFromRetryOutcome, fact
<1>8. OfKind(Facts(cause))
  <2> HIDE DEF OfKind
  <2>1. CASE cause.by = "verifier"
    BY <1>2, <2>1 DEF Facts
  <2>2. CASE cause.by = "adapter"
    BY <1>3, <2>2 DEF Facts
  <2>3. CASE cause.by = "store"
    BY <1>4, <2>3 DEF Facts
  <2>4. CASE cause.by = "attempt"
    <3>1. Facts(cause) =
            (IF cause.met = NoMeeting THEN {} ELSE factsFromReplayDecision(cause.met))
              \cup factsFromRetryOutcome(cause)
      BY <2>4 DEF Facts
    <3> QED BY <1>6, <1>7, <3>1 DEF OfKind
  <2> QED BY <2>1, <2>2, <2>3, <2>4
<1>9. ASSUME NEW f \in expandFacts(Facts(cause)) PROVE f.kind \in ExceptionCodes
  <2>1. f \in Facts(cause) \/ f.kind = "MISSING_EVENT"
    BY <1>9 DEF expandFacts
  <2> QED BY <1>1, <1>8, <2>1
<1> QED BY <1>9 DEF detectException

LEMMA RaisedIsListed ==
  ASSUME TypeInv, traffic' = traffic, NEW cause, NEW d \in traffic.of,
         NEW subject \in {Correlation(d), Subject(Id[d], d)},
         cause.by \in {"verifier", "adapter", "store", "attempt"},
         raised' \subseteq Raised(cause, subject)
  PROVE  \A x \in raised' : Listed(x)'
<1> SUFFICES ASSUME NEW x \in raised' PROVE Listed(x)'
  OBVIOUS
<1>1. CASE x \in raised
  BY <1>1 DEF TypeInv, Listed, Correlation, Subject
<1>2. CASE x \in detectException(Facts(cause)) \X {subject}
  <2>1. x[1] \in ExceptionCodes /\ x[2] = subject
    BY <1>2, KnownKinds
  <2> QED BY <2>1 DEF Listed, Correlation, Subject
<1> QED BY <1>1, <1>2 DEF Raised

LEMMA NothingRaised ==
  ASSUME TypeInv, traffic' = traffic, raised' = raised
  PROVE  \A x \in raised' : Listed(x)'
BY DEF TypeInv, Listed, Correlation, Subject

LEMMA NeatKeeps ==
  ASSUME TypeInv, GraveInv', CountInv', NEW p \in Proc, Moved(p), Neat(p)',
         \A x \in raised' : Listed(x)'
  PROVE  TypeInv'
<1>1. Identity' = Identity
  BY SameIdentities DEF Moved
<1>2. \A q \in Proc \ {p} : Neat(q)'
  BY <1>1 DEF TypeInv, Neat, Moved, Elsewhere
<1> QED BY <1>2 DEF TypeInv

LEMMA LeaveIsNeat ==
  ASSUME TypeInv, NEW p \in Proc, Leave(p)
  PROVE  Neat(p)'
BY DEF Leave, Neat, TypeInv, CountInv, IInv, Domains

\* The event stays in hand.
LEMMA GotoIsNeat ==
  ASSUME TypeInv, NEW p \in Proc, traffic' = traffic, NEW from, NEW to, Goto(p, from, to),
         from # "idle", to # "idle", hand'[p].id = hand[p].id,
         to \notin {"refuse", "report"}
  PROVE  Neat(p)'
<1>1. pc[p] = from /\ pc'[p] = to
  BY GotoMoves DEF TypeInv, CountInv
<1> QED BY <1>1, SameIdentities DEF Neat, TypeInv

LEMMA ClaimsIsNeat ==
  ASSUME TypeInv, NEW p \in Proc, traffic' = traffic, NEW from,
         Goto(p, from, "announce"), NEW id \in Identity, Claims(p, id)
  PROVE  Neat(p)'
<1>1. pc'[p] = "announce"
  BY GotoMoves DEF TypeInv, CountInv
<1>2. hand'[p].id = id
  BY DEF Claims, TypeInv, CountInv, IInv, Domains
<1> QED BY <1>1, <1>2, SameIdentities DEF Neat

LEMMA ReceiveIsNeat ==
  ASSUME TypeInv, NEW r \in Request, NEW d \in Delivery, Receive(r, d)
  PROVE  Neat(r)'
<1>1. r \in Proc /\ Domains /\ IInv
  BY DEF Proc, TypeInv, CountInv, IInv
<1>2. traffic' = traffic /\ d \in traffic.of /\ pc[r] = "idle"
  BY DEF Receive, Sends
<1>3. CASE UNCHANGED <<pc, hand>>
  BY <1>1, <1>2, <1>3, SameIdentities DEF TypeInv, Neat
<1>4. CASE Screen[d].http # 500
  <2>1. PICK to \in {"store", "refuse"} :
          Goto(r, "idle", to) /\ (to = "refuse" => Screen[d].http # 0)
    BY <1>4 DEF Receive
  <2>2. pc'[r] = to
    BY <1>1, <2>1, GotoMoves
  <2>3. /\ hand'[r].id = Id[d]
        /\ hand'[r].cause.by = Screen[d].by
    <3>1. PICK cause : cause = Happened(Screen[d].by, Screen[d].code)
      OBVIOUS
    <3>2. hand' = [hand EXCEPT ![r] = [Idle EXCEPT !.d = d, !.id = Id[d],
                                                   !.cause = cause]]
      BY <1>4, <3>1 DEF Receive
    <3>3. cause.by = Screen[d].by
      BY <3>1 DEF Happened, NoCause
    <3>4. hand'[r].id = Id[d] /\ hand'[r].cause = cause
      BY <1>1, <3>2 DEF Domains, Idle
    <3> QED BY <3>3, <3>4
  <2>4. Id[d] \in Identity /\ Identity' = Identity /\ d \in Delivery
    BY <1>2, SameIdentities DEF Identity
  <2>5. Screen[d].http # 0 => Screen[d].by \in {"verifier", "adapter"}
    BY <2>4 DEF Screen, screen
  <2> QED BY <2>1, <2>2, <2>3, <2>4, <2>5 DEF Neat
<1> QED BY <1>3, <1>4 DEF Receive

LEMMA HandleIsNeat ==
  ASSUME TypeInv, NEW r \in Request,
         \/ Refuse(r) \/ Report(r) \/ StoreThrows(r) \/ ReportConflict(r)
         \/ Ensure(r) \/ Begin(r) \/ Observe(r) \/ Store(r) \/ Receipt(r)
  PROVE  Neat(r)'
<1>1. r \in Proc /\ Domains /\ IInv /\ traffic' = traffic
  BY DEF Proc, TypeInv, CountInv, IInv, Refuse, Report, StoreThrows, ReportConflict,
         Ensure, Begin, Observe, Store, Receipt
<1>2. CASE Refuse(r)
  <2>1. pc[r] = "refuse" /\ pc'[r] = "report" /\ hand' = hand
    BY <1>1, <1>2, GotoMoves DEF Refuse
  <2> QED BY <1>1, <2>1, SameIdentities DEF TypeInv, Neat
<1>3. CASE Report(r) \/ StoreThrows(r) \/ ReportConflict(r) \/ Observe(r)
  <2>1. Leave(r)
    BY <1>1, <1>3, ThrownLeaves DEF Report, StoreThrows, ReportConflict, Observe, Answer
  <2> QED BY <1>1, <2>1, LeaveIsNeat, SMTT(40)
<1>4. CASE Ensure(r) \/ Store(r) \/ Receipt(r)
  <2>1. hand'[r].id = hand[r].id
    BY <1>1, <1>4 DEF Ensure, Store, Receipt, Domains
  <2>2. \E from \in {"ensure", "store", "receipt"},
           to \in {"begin", "observe", "receipt", "conflict", "ensure"} :
          Goto(r, from, to)
    BY <1>4 DEF Ensure, Store, Receipt
  <2> QED BY <1>1, <2>1, <2>2, GotoIsNeat
<1>5. CASE Begin(r)
  <2>1. CASE Goto(r, "begin", "observe") /\ UNCHANGED hand
    BY <1>1, <2>1, GotoIsNeat
  <2>2. CASE Goto(r, "begin", "announce") /\ Claims(r, hand[r].id)
    <3>1. hand[r].id \in Identity
      BY <1>1, <2>2, InHand DEF Goto, Working
    <3> QED BY <1>1, <2>2, <3>1, ClaimsIsNeat
  <2> QED BY <1>5, <2>1, <2>2 DEF Begin
<1> QED BY <1>2, <1>3, <1>4, <1>5

LEMMA AttemptIsNeat ==
  ASSUME TypeInv, NEW p \in Proc, FinishAttempt(p)
  PROVE  Neat(p)'
<1>1. Domains /\ IInv /\ traffic' = traffic
  BY DEF TypeInv, CountInv, IInv, FinishAttempt, Announce, Work, Commit, Settle, Tell,
         Raise
<1>2. CASE Leave(p)
  BY <1>2, LeaveIsNeat
<1>3. CASE hand'[p].id = hand[p].id /\
           \E from \in AttemptPoints, to \in AttemptPoints \cup {"observe"} :
             Goto(p, from, to)
  BY <1>1, <1>3, GotoIsNeat DEF AttemptPoints, HoldPoints
<1>4. {"announce", "work", "commit", "settle", "tell", "raise"} \subseteq AttemptPoints
  BY DEF AttemptPoints, HoldPoints
<1>5. CASE Announce(p)
  BY <1>2, <1>3, <1>4, <1>5, ThrownLeaves DEF Announce
<1>6. CASE Work(p)
  <2>1. hand'[p].id = hand[p].id
    BY <1>1, <1>6 DEF Work, Attempted, Domains
  <2> QED BY <1>3, <1>4, <1>6, <2>1 DEF Work
<1>7. CASE Commit(p)
  BY <1>2, <1>3, <1>4, <1>7, ThrownLeaves DEF Commit
<1>8. CASE Settle(p)
  BY <1>3, <1>4, <1>8 DEF Settle
<1>9. CASE Tell(p)
  BY <1>2, <1>3, <1>4, <1>9, ThrownLeaves DEF Tell
<1>10. CASE Raise(p)
  BY <1>2, <1>3, <1>4, <1>10 DEF Raise
<1> QED BY <1>5, <1>6, <1>7, <1>8, <1>9, <1>10 DEF FinishAttempt

\* Exceptions before the attempt are about the delivery in hand.
LEMMA HandleLists ==
  ASSUME TypeInv, NEW r \in Request,
         \/ Refuse(r) \/ Report(r) \/ StoreThrows(r) \/ ReportConflict(r)
         \/ Ensure(r) \/ Begin(r) \/ Observe(r) \/ Store(r) \/ Receipt(r)
  PROVE  \A x \in raised' : Listed(x)'
<1>1. r \in Proc /\ Safe(r) /\ traffic' = traffic
  BY DEF Proc, TypeInv, CountInv, IInv, Refuse, Report, StoreThrows, ReportConflict,
         Ensure, Begin, Observe, Store, Receipt
<1>2. CASE raised' = raised
  BY <1>1, <1>2, NothingRaised
<1>3. CASE Report(r)
  <2>1. pc[r] = "report" /\ hand[r].d \in traffic.of
    BY <1>1, <1>3 DEF Report, Safe, Screened
  <2>2. hand[r].cause.by \in {"verifier", "adapter"}
    BY <1>1, <2>1 DEF TypeInv, Neat
  <2>3. raised' \subseteq Raised(hand[r].cause, Correlation(hand[r].d))
    BY <1>3 DEF Report, Raised
  <2> QED BY <1>1, <2>1, <2>2, <2>3, RaisedIsListed
<1>4. CASE ReportConflict(r) \/ Observe(r)
  <2>1. /\ pc[r] \in AfterStore /\ hand[r].d \in traffic.of
        /\ hand[r].id = Id[hand[r].d]
    BY <1>1, <1>4 DEF ReportConflict, Observe, Safe, Screened, AfterStore
  <2>2. \E code : raised' \subseteq
                    Raised(Happened("store", code), Subject(hand[r].id, hand[r].d))
    BY <1>4 DEF ReportConflict, Observe, Raised
  <2>3. \A code : Happened("store", code).by = "store"
    BY DEF Happened, NoCause
  <2> QED BY <1>1, <2>1, <2>2, <2>3, RaisedIsListed
<1> QED BY <1>2, <1>3, <1>4 DEF Refuse, StoreThrows, Ensure, Begin, Store, Receipt, tables

LEMMA AttemptLists ==
  ASSUME TypeInv, NEW p \in Proc, FinishAttempt(p)
  PROVE  \A x \in raised' : Listed(x)'
<1>1. IInv /\ Domains /\ traffic' = traffic
  BY DEF TypeInv, CountInv, IInv, FinishAttempt, Announce, Work, Commit, Settle, Tell,
         Raise
<1>2. CASE raised' = raised
  BY <1>1, <1>2, NothingRaised
<1>3. CASE Raise(p)
  <2>0. PICK id : id = hand[p].id
    OBVIOUS
  <2>1. id \in Identity /\ event[id] # NoEvent /\ pc[p] = "raise"
    BY <1>1, <1>3, <2>0, InHand DEF Raise, Working, AttemptPoints
  <2>2. PICK d \in traffic.of \cap Kept : Id[d] = id /\ event[id] = Event[d]
    BY <1>1, <2>1 DEF IInv, Sourced
  <2>3. event[id].pay = Content[d].pay
    <3>1. d \in Passed
      BY DEF Kept, Passed
    <3>2. event[id] = normalize(Content[d])
      BY <2>2, <3>1, NormalizedIsEvent
    <3>3. normalize(Content[d]).pay = Content[d].pay
      BY DEF normalize
    <3> QED BY <3>2, <3>3
  <2>4. hand[p].cause.by = "attempt"
    BY <2>1 DEF TypeInv, GraveInv, Grave
  <2>5. raised' \subseteq Raised(hand[p].cause, <<id, event[id].pay>>)
    BY <1>3, <2>0 DEF Raise, Raised
  <2>6. <<id, event[id].pay>> = Subject(Id[d], d)
    BY <2>2, <2>3 DEF Subject
  <2> QED BY <1>1, <2>2, <2>4, <2>5, <2>6, RaisedIsListed
<1> QED BY <1>2, <1>3 DEF FinishAttempt, Announce, Work, Commit, Settle, Tell

LEMMA InitTypes == Init => TypeInv
BY InitGraves, InitCounts DEF Init, TypeInv, Neat

LEMMA NextTypes ==
  ASSUME TypeInv, [Next]_vars
  PROVE  TypeInv'
<1>1. TellInv /\ GraveInv' /\ CountInv'
  BY NextGraves, NextCounts DEF TypeInv, GraveInv
<1>2. ASSUME NEW p \in Proc, FinishAttempt(p) PROVE TypeInv'
  BY <1>1, <1>2, AttemptIsLonely, LonelyMoves, AttemptIsNeat, AttemptLists, NeatKeeps
<1>3. ASSUME NEW r \in Request, Handle(r) PROVE TypeInv'
  <2>1. r \in Proc
    BY DEF Proc
  <2> QED BY <1>1, <1>2, <1>3, <2>1, HandleMoves, HandleIsNeat, HandleLists, NeatKeeps
          DEF Handle
<1>4. ASSUME NEW r \in Request, NEW d \in Delivery, TurnAway(r, d) \/ Receive(r, d)
      PROVE  TypeInv'
  <2>1. r \in Proc /\ Moved(r)
    BY <1>1, <1>4, ArrivalIsLonely, LonelyMoves DEF Proc
  <2>2. Neat(r)'
    <3>1. CASE TurnAway(r, d)
      BY <2>1, <3>1, SameIdentities DEF TurnAway, TypeInv, Neat
    <3> QED BY <1>4, <3>1, ReceiveIsNeat
  <2>3. \A x \in raised' : Listed(x)'
    BY <1>4, NothingRaised DEF TurnAway, Receive, tables
  <2> QED BY <1>1, <2>1, <2>2, <2>3, NeatKeeps
<1>5. ASSUME NEW w \in Worker, Claim(w) PROVE TypeInv'
  <2>1. w \in Proc /\ Moved(w)
    BY <1>1, <1>5, ClaimIsLonely, LonelyMoves DEF Proc
  <2>2. Neat(w)'
    BY <1>5, <2>1, ClaimsIsNeat DEF Claim
  <2>3. \A x \in raised' : Listed(x)'
    BY <1>5, NothingRaised DEF Claim
  <2> QED BY <1>1, <2>1, <2>2, <2>3, NeatKeeps
<1>6. ASSUME NEW p \in Proc, Throw(p) PROVE TypeInv'
  <2>1. Moved(p) /\ Leave(p) /\ traffic' = traffic /\ raised' = raised
    BY <1>1, <1>6, ThrowIsLonely, LonelyMoves, ThrownLeaves DEF Throw, tables
  <2> QED BY <1>1, <2>1, LeaveIsNeat, NothingRaised, NeatKeeps
<1>7. CASE Crash
  <2>1. /\ UNCHANGED <<traffic, raised>>
        /\ pc' = [p \in Proc |-> IF p \in Request THEN "idle" ELSE pc[p]]
        /\ hand' = [p \in Proc |-> IF p \in Request THEN Idle ELSE hand[p]]
    BY <1>7 DEF Crash, tables
  <2>2. \A p \in Proc : Neat(p)'
    BY <2>1, SameIdentities DEF TypeInv, Neat
  <2> QED BY <1>1, <2>1, <2>2, NothingRaised DEF TypeInv
<1>8. CASE UNCHANGED vars
  <2>1. UNCHANGED <<traffic, raised, pc, hand>>
    BY <1>8 DEF vars, tables
  <2>2. \A p \in Proc : Neat(p)'
    BY <2>1, SameIdentities DEF TypeInv, Neat
  <2> QED BY <1>1, <2>1, <2>2, NothingRaised DEF TypeInv
<1> QED BY <1>2, <1>3, <1>4, <1>5, <1>6, <1>7, <1>8 DEF Next, Deliver, Proc

\* The tables hold what they may, a process has something in hand exactly while
\* it is busy, the row of an attempt under way is PROCESSING, and nobody else
\* attempts it: the claim (storage, beginAttempt and claimDue) takes only what
\* nobody holds.
THEOREM TypesAreRight == Spec => []TypeOK
<1>1. TypeInv => TypeOK
  <2> SUFFICES ASSUME TypeInv PROVE TypeOK
    OBVIOUS
  <2>1. Tables /\ Alone /\ \A p \in Proc : Knows(p)
    BY DEF TypeInv, GraveInv, TellInv, Telling
  <2>2. \A p \in Proc : Busy(p) <=> hand[p] # Idle
    <3>1. ASSUME NEW i \in Identity PROVE i # << >>
      <4>1. PICK d \in traffic.of : i = Id[d]
        BY DEF Identity
      <4>2. d \in Delivery
        BY InTraffic DEF TypeInv, CountInv, IInv, Domains
      <4>3. i = webhookIdentity(Content[d])
        BY <4>1, <4>2 DEF Id
      <4> QED BY <4>3 DEF webhookIdentity
    <3>2. Idle.id = << >>
      BY DEF Idle
    <3> QED BY <3>1, <3>2 DEF TypeInv, Neat, Busy
  <2>3. metrics \in [RUNTIME_METRIC_NAMES -> Nat]
    BY DEF TypeInv, CountInv
  <2>4. \A x \in raised : /\ x[1] \in ExceptionCodes
                          /\ \E d \in traffic.of :
                               x[2] \in {Correlation(d), Subject(Id[d], d)}
    BY DEF TypeInv, Listed
  <2>5. \A p, q \in Proc :
          Holds(p, hand[p].id) /\ Holds(q, hand[p].id) => p = q
    BY <2>1, HandIsId DEF Alone, Holds, TypeInv, CountInv
  <2>6. \A p \in Proc : pc[p] \in HoldPoints => row[hand[p].id].status = "PROCESSING"
    BY <2>1 DEF Knows
  <2> QED BY <2>1, <2>2, <2>3, <2>4, <2>5, <2>6
          DEF TypeOK, Tables, EventStatuses, RowType, RowStatuses
<1>2. TypeInv /\ [Next]_vars => TypeInv'
  BY NextTypes
<1> QED BY <1>1, <1>2, InitTypes, PTL DEF Spec
=============================================================================
