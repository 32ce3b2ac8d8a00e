-------------------------- MODULE RetryProtocolProofs --------------------------
(***************************************************************************)
(* What holds of the retry protocol for every number of events, payments,  *)
(* deliveries and workers and every retry policy: with any timing, first;  *)
(* then what holds when leases are long enough: an event is in one pair of *)
(* hands, the attempts are within their budget, the dead letters agree     *)
(* with the rows, and the protocol implements EventLifecycle.              *)
(***************************************************************************)
EXTENDS RetryProtocol, TLAPS

\* A row, a claim or a job is of a stored event: nothing works on an event
\* before its webhook_events row is there.
Stored ==
  /\ \A e \in Event : row[e].status # "NONE" => status[e] # "ABSENT"
  /\ \A p \in Proc : \A c \in batch[p] : status[c.ev] # "ABSENT"
  /\ \A p \in Proc : pc[p] \in AtWork \ {"store"} => status[job[p].ev] # "ABSENT"

\* The decision in hand fits the outcome that is about to be written.
Decided ==
  \A p \in Proc :
    pc[p] = "park" => job[p].verdict \in {"CONFLICT", "REJECTED"}

\* An attempt about to report success has seen its event PROCESSED.
Seen ==
  \A p \in Proc : pc[p] = "succeed" => status[job[p].ev] = "PROCESSED"

IInv == TypeOK /\ Stored /\ Decided /\ Seen /\ SucceededMeansApplied

-----------------------------------------------------------------------------
(* Types of what the actions write *)

LEMMA NoJobType == NoJob \in Job
  BY DEF NoJob, Job, Projections

LEMMA CompletedType ==
  ASSUME NEW r \in Row, NEW s \in RetryStatuses, NEW n \in Nat
  PROVE  /\ [r EXCEPT !.status = s, !.next = n, !.lease = 0] \in Row
         /\ [r EXCEPT !.status = s, !.next = n, !.lease = 0].status = s
  BY DEF Row

LEMMA ClaimedType ==
  ASSUME NEW r \in Row, NEW t \in Nat
  PROVE  /\ Claimed(r, t) \in Row
         /\ Claimed(r, t).status = "PROCESSING"
  <1>1. r.att + 1 \in Nat /\ t + Lease \in Nat
    BY ConstantsAssumption DEF Row
  <1>2. "PROCESSING" \in RetryStatuses
    BY DEF RetryStatuses
  <1> QED BY <1>1, <1>2 DEF Claimed, Row

LEMMA DelayType ==
  ASSUME NEW attempt \in Nat
  PROVE  calculateRetryDelay(attempt) \in Nat
  BY ConstantsAssumption DEF calculateRetryDelay

\* persistOutcome moves no event away from PROCESSED.
LEMMA ParkSparesProcessed ==
  ASSUME NEW e \in Event, NEW to \in {"CONFLICT", "REJECTED"}, MayWrite(e, to)
  PROVE  status[e] # "PROCESSED"
  <1>1. CASE to = "CONFLICT" BY <1>1 DEF MayWrite, FROM_STATUS
  <1>2. CASE to = "REJECTED" BY <1>2 DEF MayWrite, FROM_STATUS
  <1> QED BY <1>1, <1>2

LEMMA InitIInv == Init => IInv
  <1> USE ConstantsAssumption
  <1> SUFFICES ASSUME Init PROVE IInv OBVIOUS
  <1>1. NoJob \in Job BY DEF NoJob, Job, Projections
  <1>2. TypeOK
    BY <1>1 DEF Init, TypeOK, Row, HandsFree, AtWork, Statuses, RetryStatuses,
                Projections, Claim
  <1>3. Stored /\ Decided /\ Seen /\ SucceededMeansApplied
    BY DEF Init, Stored, Decided, Seen, SucceededMeansApplied, AtWork
  <1> QED BY <1>2, <1>3 DEF IInv

LEMMA ReceiveStep ==
  ASSUME IInv, NEW r \in Request, Receive(r)
  PROVE  IInv'
  <1> USE ConstantsAssumption DEF IInv, Proc
  <1>1. TypeOK'
    BY DEF TypeOK, Receive, tables, Goto, NoJob, Job, Projections, HandsFree, AtWork
  <1>2. Stored'
    BY DEF TypeOK, Stored, Receive, tables, Goto, NoJob, Job, Projections, HandsFree, AtWork
  <1>3. Decided'
    BY DEF TypeOK, Decided, Receive, tables, Goto, NoJob, Job, Projections, HandsFree, AtWork
  <1>4. Seen'
    BY DEF TypeOK, Seen, Receive, tables, Goto, NoJob, Job, Projections, HandsFree, AtWork
  <1>5. SucceededMeansApplied'
    BY DEF TypeOK, SucceededMeansApplied, Receive, tables, Goto, NoJob, Job, Projections, HandsFree, AtWork
  <1> QED BY <1>1, <1>2, <1>3, <1>4, <1>5

LEMMA StoreStep ==
  ASSUME IInv, NEW r \in Request, Store(r)
  PROVE  IInv'
  <1> USE ConstantsAssumption DEF IInv, Proc
  <1>1. TypeOK'
    BY DEF TypeOK, Store, Goto, Statuses, HandsFree, AtWork
  <1>2. Stored'
    BY DEF TypeOK, Stored, Store, Goto, Statuses, HandsFree, AtWork
  <1>3. Decided'
    BY DEF TypeOK, Decided, Store, Goto, Statuses, HandsFree, AtWork
  <1>4. Seen'
    BY DEF TypeOK, Seen, Store, Goto, Statuses, HandsFree, AtWork
  <1>5. SucceededMeansApplied'
    BY DEF TypeOK, SucceededMeansApplied, Store, Goto, Statuses, HandsFree, AtWork
  <1> QED BY <1>1, <1>2, <1>3, <1>4, <1>5

LEMMA EnsureStep ==
  ASSUME IInv, NEW r \in Request, EnsurePending(r)
  PROVE  IInv'
  <1> USE ConstantsAssumption DEF IInv, Proc
  <1>1. TypeOK'
    BY DEF TypeOK, EnsurePending, Goto, Row, RetryStatuses, HandsFree, AtWork
  <1>2. Stored'
    BY DEF TypeOK, Stored, EnsurePending, Goto, Row, RetryStatuses, HandsFree, AtWork
  <1>3. Decided'
    BY DEF TypeOK, Decided, EnsurePending, Goto, Row, RetryStatuses, HandsFree, AtWork
  <1>4. Seen'
    BY DEF TypeOK, Seen, EnsurePending, Goto, Row, RetryStatuses, HandsFree, AtWork
  <1>5. SucceededMeansApplied'
    BY DEF TypeOK, SucceededMeansApplied, EnsurePending, Goto, Row, RetryStatuses, HandsFree, AtWork
  <1> QED BY <1>1, <1>2, <1>3, <1>4, <1>5

LEMMA CheckStep ==
  ASSUME IInv, NEW r \in Request, CheckPending(r)
  PROVE  IInv'
  <1> USE ConstantsAssumption DEF IInv, Proc
  <1>1. TypeOK'
    BY DEF TypeOK, CheckPending, tables, Goto, HandsFree, AtWork, NoJob, Job, Projections
  <1>2. Stored'
    BY DEF TypeOK, Stored, CheckPending, tables, Goto, HandsFree, AtWork, NoJob, Job, Projections
  <1>3. Decided'
    BY DEF TypeOK, Decided, CheckPending, tables, Goto, HandsFree, AtWork, NoJob, Job, Projections
  <1>4. Seen'
    BY DEF TypeOK, Seen, CheckPending, tables, Goto, HandsFree, AtWork, NoJob, Job, Projections
  <1>5. SucceededMeansApplied'
    BY DEF TypeOK, SucceededMeansApplied, CheckPending, tables, Goto, HandsFree, AtWork, NoJob, Job, Projections
  <1> QED BY <1>1, <1>2, <1>3, <1>4, <1>5

LEMMA BeginStep ==
  ASSUME IInv, NEW r \in Request, BeginAttempt(r)
  PROVE  IInv'
  <1> USE ConstantsAssumption DEF IInv, Proc
  <1>1. TypeOK'
    <2> DEFINE e == job[r].ev
    <2>1. e \in Event /\ row[e] \in Row /\ now[r] \in Nat /\ row[e].att \in Nat
      BY DEF TypeOK, BeginAttempt, Goto, AtWork, Row
    <2>2. row' \in [Event -> Row]
      BY <2>1, ClaimedType DEF TypeOK, BeginAttempt
    <2>3. [job[r] EXCEPT !.att = row[e].att + 1] \in Job
      BY <2>1 DEF TypeOK, Job
    <2>4. job' \in [Proc -> Job]
      BY <2>1, <2>3, NoJobType DEF TypeOK, BeginAttempt
    <2>5. pc' \in [Proc -> HandsFree \cup AtWork]
      BY DEF TypeOK, BeginAttempt, Goto, HandsFree, AtWork
    <2>6. \A p \in Proc : pc'[p] \in AtWork => job'[p].ev \in Event
      BY DEF TypeOK, BeginAttempt, Goto, HandsFree, AtWork, Job
    <2> QED BY <2>2, <2>4, <2>5, <2>6 DEF TypeOK, BeginAttempt
  <1>2. Stored'
    <2>1. status[job[r].ev] # "ABSENT" /\ status' = status
      BY DEF Stored, BeginAttempt, Goto, AtWork
    <2>2. \A e \in Event : row'[e].status # "NONE" =>
                           row[e].status # "NONE" \/ e = job[r].ev
      BY DEF TypeOK, BeginAttempt
    <2>3. \A p \in Proc : pc'[p] \in AtWork \ {"store"} =>
                          /\ pc[p] \in AtWork \ {"store"}
                          /\ job'[p].ev = job[p].ev
      BY DEF TypeOK, BeginAttempt, Goto, AtWork, Job
    <2> QED BY <2>1, <2>2, <2>3 DEF Stored, BeginAttempt
  <1>3. Decided'
    BY DEF TypeOK, Decided, BeginAttempt, Goto, HandsFree, AtWork
  <1>4. Seen'
    BY DEF TypeOK, Seen, BeginAttempt, Goto, HandsFree, AtWork
  <1>5. SucceededMeansApplied'
    BY ClaimedType DEF TypeOK, SucceededMeansApplied, BeginAttempt, Goto, HandsFree, AtWork
  <1> QED BY <1>1, <1>2, <1>3, <1>4, <1>5

LEMMA StartStep ==
  ASSUME IInv, NEW w \in Worker, StartTick(w)
  PROVE  IInv'
  <1> USE ConstantsAssumption DEF IInv, Proc
  <1>1. TypeOK'
    BY DEF TypeOK, StartTick, tables, Goto, HandsFree, AtWork
  <1>2. Stored'
    BY DEF TypeOK, Stored, StartTick, tables, Goto, HandsFree, AtWork
  <1>3. Decided'
    BY DEF TypeOK, Decided, StartTick, tables, Goto, HandsFree, AtWork
  <1>4. Seen'
    BY DEF TypeOK, Seen, StartTick, tables, Goto, HandsFree, AtWork
  <1>5. SucceededMeansApplied'
    BY DEF TypeOK, SucceededMeansApplied, StartTick, tables, Goto, HandsFree, AtWork
  <1> QED BY <1>1, <1>2, <1>3, <1>4, <1>5

LEMMA ClaimStep ==
  ASSUME IInv, NEW w \in Worker, ClaimDue(w)
  PROVE  IInv'
  <1> USE ConstantsAssumption DEF IInv, Proc
  <1>1. TypeOK'
    <2>1. PICK S \in SUBSET Event :
             /\ row' = [e \in Event |-> IF e \in S THEN Claimed(row[e], now[w])
                                                   ELSE row[e]]
             /\ batch' = [batch EXCEPT ![w] =
                            {[ev |-> e, att |-> row[e].att + 1] : e \in S}]
      BY DEF ClaimDue
    <2>2. row' \in [Event -> Row]
      BY <2>1, ClaimedType DEF TypeOK
    <2>3. \A e \in S : [ev |-> e, att |-> row[e].att + 1] \in Claim
      BY DEF TypeOK, Row, Claim
    <2>4. batch' \in [Proc -> SUBSET Claim]
      BY <2>1, <2>3 DEF TypeOK
    <2>5. \A p \in Proc : pc'[p] \in AtWork => job'[p].ev \in Event
      BY DEF TypeOK, ClaimDue, Goto, AtWork
    <2> QED BY <2>2, <2>4, <2>5 DEF TypeOK, ClaimDue, Goto, HandsFree
  <1>2. Stored'
    BY DEF TypeOK, Stored, Due, ClaimDue, Claimable, Goto, HandsFree, AtWork
  <1>3. Decided'
    BY DEF TypeOK, Decided, ClaimDue, Claimable, Goto, HandsFree, AtWork
  <1>4. Seen'
    BY DEF TypeOK, Seen, ClaimDue, Claimable, Goto, HandsFree, AtWork
  <1>5. SucceededMeansApplied'
    <2>1. PICK S \in SUBSET Event :
             row' = [e \in Event |-> IF e \in S THEN Claimed(row[e], now[w])
                                                 ELSE row[e]]
      BY DEF ClaimDue
    <2>2. \A e \in Event : row'[e].status = "SUCCEEDED" => row'[e] = row[e]
      BY <2>1, ClaimedType DEF TypeOK
    <2>3. status' = status
      BY DEF ClaimDue
    <2> QED BY <2>2, <2>3 DEF SucceededMeansApplied
  <1> QED BY <1>1, <1>2, <1>3, <1>4, <1>5

LEMMA TakeStep ==
  ASSUME IInv, NEW w \in Worker, TakeRecord(w)
  PROVE  IInv'
  <1> USE ConstantsAssumption DEF IInv, Proc
  <1>1. TypeOK'
    <2>1. PICK c \in batch[w] :
             /\ batch' = [batch EXCEPT ![w] = @ \ {c}]
             /\ job' = [job EXCEPT ![w] =
                          [NoJob EXCEPT !.ev = c.ev, !.att = c.att]]
      BY DEF TakeRecord
    <2>2. c \in Claim /\ c.ev \in Event /\ c.att \in Nat
      BY <2>1 DEF TypeOK, Claim
    <2>3. [NoJob EXCEPT !.ev = c.ev, !.att = c.att] \in Job
      BY <2>2, NoJobType DEF Job
    <2>4. [NoJob EXCEPT !.ev = c.ev, !.att = c.att].ev = c.ev
      BY DEF NoJob
    <2>5. batch' \in [Proc -> SUBSET Claim] /\ job' \in [Proc -> Job]
      BY <2>1, <2>3 DEF TypeOK
    <2>6. \A p \in Proc : pc'[p] \in AtWork => job'[p].ev \in Event
      BY <2>1, <2>2, <2>4 DEF TypeOK, TakeRecord, Goto
    <2> QED BY <2>5, <2>6 DEF TypeOK, TakeRecord, Goto, tables, HandsFree, AtWork
  <1>2. Stored'
    BY DEF TypeOK, Stored, NoJob, TakeRecord, tables, Goto, HandsFree, AtWork
  <1>3. Decided'
    BY DEF TypeOK, Decided, TakeRecord, tables, Goto, HandsFree, AtWork
  <1>4. Seen'
    BY DEF TypeOK, Seen, TakeRecord, tables, Goto, HandsFree, AtWork
  <1>5. SucceededMeansApplied'
    BY DEF TypeOK, SucceededMeansApplied, TakeRecord, tables, Goto, HandsFree, AtWork
  <1> QED BY <1>1, <1>2, <1>3, <1>4, <1>5

LEMMA EndStep ==
  ASSUME IInv, NEW w \in Worker, EndTick(w)
  PROVE  IInv'
  <1> USE ConstantsAssumption DEF IInv, Proc
  <1>1. TypeOK'
    BY DEF TypeOK, EndTick, tables, Goto, HandsFree, AtWork
  <1>2. Stored'
    BY DEF TypeOK, Stored, EndTick, tables, Goto, HandsFree, AtWork
  <1>3. Decided'
    BY DEF TypeOK, Decided, EndTick, tables, Goto, HandsFree, AtWork
  <1>4. Seen'
    BY DEF TypeOK, Seen, EndTick, tables, Goto, HandsFree, AtWork
  <1>5. SucceededMeansApplied'
    BY DEF TypeOK, SucceededMeansApplied, EndTick, tables, Goto, HandsFree, AtWork
  <1> QED BY <1>1, <1>2, <1>3, <1>4, <1>5

LEMMA LoadStep ==
  ASSUME IInv, NEW p \in Proc, LoadEvent(p)
  PROVE  IInv'
  <1> USE ConstantsAssumption DEF IInv, Proc
  <1>1. TypeOK'
    BY DEF TypeOK, LoadEvent, tables, Goto, HandsFree, AtWork
  <1>2. Stored'
    BY DEF TypeOK, Stored, LoadEvent, tables, Goto, HandsFree, AtWork
  <1>3. Decided'
    BY DEF TypeOK, Decided, LoadEvent, tables, Goto, HandsFree, AtWork
  <1>4. Seen'
    BY DEF TypeOK, Seen, LoadEvent, tables, Goto, HandsFree, AtWork
  <1>5. SucceededMeansApplied'
    BY DEF TypeOK, SucceededMeansApplied, LoadEvent, tables, Goto, HandsFree, AtWork
  <1> QED BY <1>1, <1>2, <1>3, <1>4, <1>5

LEMMA MarkStep ==
  ASSUME IInv, NEW p \in Proc, MarkProcessing(p)
  PROVE  IInv'
  <1> USE ConstantsAssumption DEF IInv, Proc
  <1>1. TypeOK'
    BY DEF TypeOK, MarkProcessing, Goto, Statuses, HandsFree, AtWork
  <1>2. Stored'
    BY DEF TypeOK, Stored, MarkProcessing, Goto, Statuses, HandsFree, AtWork
  <1>3. Decided'
    BY DEF TypeOK, Decided, MarkProcessing, Goto, Statuses, HandsFree, AtWork
  <1>4. Seen'
    BY DEF TypeOK, Seen, MarkProcessing, Goto, Statuses, HandsFree, AtWork
  <1>5. SucceededMeansApplied'
    BY DEF TypeOK, SucceededMeansApplied, MarkProcessing, Goto, Statuses, HandsFree, AtWork
  <1> QED BY <1>1, <1>2, <1>3, <1>4, <1>5

LEMMA RecheckStep ==
  ASSUME IInv, NEW p \in Proc, Recheck(p)
  PROVE  IInv'
  <1> USE ConstantsAssumption DEF IInv, Proc
  <1>1. TypeOK'
    BY DEF TypeOK, Recheck, AfterFailure, tables, Goto, HandsFree, AtWork
  <1>2. Stored'
    BY DEF TypeOK, Stored, Recheck, AfterFailure, tables, Goto, HandsFree, AtWork
  <1>3. Decided'
    BY DEF TypeOK, Decided, Recheck, AfterFailure, tables, Goto, HandsFree, AtWork
  <1>4. Seen'
    BY DEF TypeOK, Seen, Recheck, AfterFailure, tables, Goto, HandsFree, AtWork
  <1>5. SucceededMeansApplied'
    BY SMTT(40) DEF TypeOK, SucceededMeansApplied, Recheck, AfterFailure, tables, Goto, HandsFree, AtWork
  <1> QED BY <1>1, <1>2, <1>3, <1>4, <1>5

LEMMA ReplayStep ==
  ASSUME IInv, NEW p \in Proc, ReplayLog(p)
  PROVE  IInv'
  <1> USE ConstantsAssumption DEF IInv, Proc
  <1>1. TypeOK'
    <2> DEFINE e == job[p].ev
               log == Log(PaymentOf[e])
               v == Verdict[log][e]
               pay == IF v = "ACCEPTED" THEN Snapshot[log] ELSE NoSnapshot
    <2>1. e \in Event /\ status[e] # "ABSENT"
      BY DEF TypeOK, Stored, ReplayLog, Goto, AtWork
    <2>2. log \in SUBSET Event /\ e \in log
      BY <2>1 DEF Log
    <2>3. v \in Decisions
      BY <2>2
    <2>4. pay \in Projections
      BY <2>2 DEF Projections
    <2>5. [job[p] EXCEPT !.verdict = v, !.pay = pay] \in Job
      <3>1. job[p] \in Job
        BY DEF TypeOK
      <3> HIDE DEF v, pay
      <3> QED BY <2>3, <2>4, <3>1 DEF Job
    <2>6. job' = [job EXCEPT ![p] = [job[p] EXCEPT !.verdict = v, !.pay = pay]]
      BY DEF TypeOK, ReplayLog
    <2>7. job' \in [Proc -> Job]
      BY <2>5, <2>6 DEF TypeOK
    <2>8. pc' \in [Proc -> HandsFree \cup AtWork]
      BY SMTT(40) DEF TypeOK, ReplayLog, Goto, AtWork
    <2>9. \A q \in Proc : pc'[q] \in AtWork => job'[q].ev \in Event
      BY SMTT(30), <2>1, <2>6 DEF TypeOK, ReplayLog, Goto, Job
    <2> QED BY <2>7, <2>8, <2>9 DEF TypeOK, ReplayLog, tables
  <1>2. Stored'
    <2>1. \A q \in Proc : job'[q].ev = job[q].ev
      <3>1. PICK v, pay : job' = [job EXCEPT ![p].verdict = v, ![p].pay = pay]
        BY DEF ReplayLog
      <3>2. job \in [Proc -> Job]
        BY DEF TypeOK
      <3> QED BY <3>1, <3>2, SMTT(40) DEF Job
    <2>2. /\ UNCHANGED <<row, status, batch>>
          /\ \A q \in Proc :
               pc'[q] \in AtWork \ {"store"} => pc[q] \in AtWork \ {"store"}
      BY DEF TypeOK, ReplayLog, tables, Goto, AtWork
    <2> QED BY <2>1, <2>2 DEF Stored
  <1>3. Decided'
    <2> DEFINE v == Verdict[Log(PaymentOf[job[p].ev])][job[p].ev]
    <2>1. job'[p].verdict = v
      <3>1. job \in [Proc -> Job]
        BY DEF TypeOK
      <3>2. job' = [job EXCEPT ![p].verdict = v,
                               ![p].pay = IF v = "ACCEPTED"
                                          THEN Snapshot[Log(PaymentOf[job[p].ev])]
                                          ELSE NoSnapshot]
        BY DEF ReplayLog
      <3> HIDE DEF v
      <3> QED BY <3>1, <3>2 DEF Job
    <2>2. pc'[p] = IF v \in {"CONFLICT", "REJECTED"} THEN "park" ELSE "commit"
      BY DEF TypeOK, ReplayLog, Goto
    <2>3. \A q \in Proc \ {p} : pc'[q] = pc[q] /\ job'[q] = job[q]
      BY SMTT(40) DEF TypeOK, ReplayLog, Goto
    <2> QED BY <2>1, <2>2, <2>3 DEF Decided
  <1>4. Seen'
    BY DEF TypeOK, Seen, ReplayLog, tables, Goto
  <1>5. SucceededMeansApplied'
    BY DEF SucceededMeansApplied, ReplayLog, tables
  <1> QED BY <1>1, <1>2, <1>3, <1>4, <1>5

LEMMA ThrowStep ==
  ASSUME IInv, NEW p \in Proc, AttemptThrows(p)
  PROVE  IInv'
  <1> USE ConstantsAssumption DEF IInv, Proc
  <1>1. TypeOK'
    BY DEF TypeOK, AttemptThrows, AfterFailure, tables, Goto, HandsFree, AtWork
  <1>2. Stored'
    BY DEF TypeOK, Stored, AttemptThrows, AfterFailure, tables, Goto, HandsFree, AtWork
  <1>3. Decided'
    BY DEF TypeOK, Decided, AttemptThrows, AfterFailure, tables, Goto, HandsFree, AtWork
  <1>4. Seen'
    BY DEF TypeOK, Seen, AttemptThrows, AfterFailure, tables, Goto, HandsFree, AtWork
  <1>5. SucceededMeansApplied'
    BY DEF TypeOK, SucceededMeansApplied, AttemptThrows, AfterFailure, tables, Goto, HandsFree, AtWork
  <1> QED BY <1>1, <1>2, <1>3, <1>4, <1>5

LEMMA CommitStep ==
  ASSUME IInv, NEW p \in Proc, Commit(p)
  PROVE  IInv'
  <1> USE ConstantsAssumption DEF IInv, Proc
  <1>1. TypeOK'
    <2>1. /\ status' \in [Event -> Statuses \cup {"ABSENT"}]
          /\ changes' \in [Event -> Nat]
      BY DEF TypeOK, Commit, Statuses
    <2>2. payment' \in [Payment -> Projections]
      BY DEF TypeOK, Commit, Job
    <2>3. job' \in [Proc -> Job] /\ batch' \in [Proc -> SUBSET Claim]
      BY NoJobType DEF TypeOK, Commit, Abandon
    <2>4. pc' \in [Proc -> HandsFree \cup AtWork]
      BY DEF TypeOK, Commit, Abandon, HandsFree, AtWork
    <2>5. \A q \in Proc : pc'[q] \in AtWork => job'[q].ev \in Event
      BY DEF TypeOK, Commit, Abandon, HandsFree, AtWork
    <2> QED BY <2>1, <2>2, <2>3, <2>4, <2>5 DEF TypeOK, Commit
  <1>2. Stored'
    <2>1. \A e \in Event : status[e] # "ABSENT" => status'[e] # "ABSENT"
      BY DEF TypeOK, Commit, Abandon
    <2>2. /\ row' = row
          /\ \A q \in Proc : batch'[q] \subseteq batch[q]
          /\ \A q \in Proc :
               pc'[q] \in AtWork \ {"store"} =>
                 pc[q] \in AtWork \ {"store"} /\ job'[q] = job[q]
      BY DEF TypeOK, Commit, Abandon, HandsFree, AtWork
    <2> QED BY <2>1, <2>2 DEF TypeOK, Stored, Claim, AtWork
  <1>3. Decided'
    BY DEF TypeOK, Decided, Commit, Abandon, HandsFree, AtWork
  <1>4. Seen'
    BY DEF TypeOK, Seen, Commit, Abandon, HandsFree, AtWork
  <1>5. SucceededMeansApplied'
    BY DEF TypeOK, SucceededMeansApplied, Commit, Abandon, HandsFree, AtWork
  <1> QED BY <1>1, <1>2, <1>3, <1>4, <1>5

LEMMA ParkStep ==
  ASSUME IInv, NEW p \in Proc, Park(p)
  PROVE  IInv'
  <1> USE ConstantsAssumption DEF IInv, Proc
  <1>1. TypeOK'
    <2>1. job[p].verdict \in {"CONFLICT", "REJECTED"}
      BY DEF Decided, Park
    <2>2. status' \in [Event -> Statuses \cup {"ABSENT"}]
      BY <2>1 DEF TypeOK, Park, Statuses
    <2>3. job' \in [Proc -> Job] /\ batch' \in [Proc -> SUBSET Claim]
      BY NoJobType DEF TypeOK, Park, Abandon
    <2>4. pc' \in [Proc -> HandsFree \cup AtWork]
      BY DEF TypeOK, Park, Abandon, HandsFree, AtWork
    <2>5. \A q \in Proc : pc'[q] \in AtWork => job'[q].ev \in Event
      BY DEF TypeOK, Park, Abandon, HandsFree, AtWork
    <2> QED BY <2>2, <2>3, <2>4, <2>5 DEF TypeOK, Park
  <1>2. Stored'
    <2>1. job[p].verdict # "ABSENT"
      BY DEF Decided, Park
    <2>2. \A e \in Event : status[e] # "ABSENT" => status'[e] # "ABSENT"
      BY <2>1 DEF TypeOK, Park, Abandon
    <2> QED BY <2>2 DEF TypeOK, Stored, Claim, Park, Abandon, HandsFree, AtWork
  <1>3. Decided'
    BY DEF TypeOK, Decided, Park, Abandon, HandsFree, AtWork
  <1>4. Seen'
    <2>1. \A e \in Event : status[e] = "PROCESSED" => status'[e] = "PROCESSED"
      BY ParkSparesProcessed DEF TypeOK, Decided, Park, AtWork
    <2> QED BY <2>1 DEF TypeOK, Seen, Park, Abandon, HandsFree, AtWork
  <1>5. SucceededMeansApplied'
    <2>1. \A e \in Event : status[e] = "PROCESSED" => status'[e] = "PROCESSED"
      BY ParkSparesProcessed DEF TypeOK, Decided, Park, AtWork
    <2> QED BY <2>1 DEF SucceededMeansApplied, Park
  <1> QED BY <1>1, <1>2, <1>3, <1>4, <1>5

LEMMA SucceedStep ==
  ASSUME IInv, NEW p \in Proc, MarkSucceeded(p)
  PROVE  IInv'
  <1> USE ConstantsAssumption DEF IInv, Proc
  <1>1. TypeOK'
    <2>1. job[p].ev \in Event /\ row[job[p].ev] \in Row
      BY SMTT(40) DEF TypeOK, MarkSucceeded, Complete, Goto, AtWork
    <2>3. row' \in [Event -> Row]
      BY <2>1, CompletedType DEF TypeOK, MarkSucceeded, Complete, RetryStatuses, Terminal
    <2>4. job' \in [Proc -> Job]
      BY NoJobType DEF TypeOK, MarkSucceeded, Complete
    <2>5. pc' \in [Proc -> HandsFree \cup AtWork]
      BY DEF TypeOK, MarkSucceeded, Complete, Goto, Rest, HandsFree, AtWork
    <2>6. \A q \in Proc : pc'[q] \in AtWork => job'[q].ev \in Event
      BY DEF TypeOK, MarkSucceeded, Complete, Goto, Rest, HandsFree, AtWork
    <2> QED BY <2>1, <2>3, <2>4, <2>5, <2>6 DEF TypeOK, MarkSucceeded, Complete
  <1>2. Stored'
    BY DEF TypeOK, Stored, MarkSucceeded, Complete, Rest, Goto, HandsFree, AtWork
  <1>3. Decided'
    BY DEF TypeOK, Decided, MarkSucceeded, Complete, Rest, Goto, HandsFree, AtWork
  <1>4. Seen'
    BY DEF TypeOK, Seen, MarkSucceeded, Complete, Rest, Goto, HandsFree, AtWork
  <1>5. SucceededMeansApplied'
    <2> DEFINE e == job[p].ev
    <2>1. e \in Event /\ row[e] \in Row
      BY DEF TypeOK, MarkSucceeded, Complete, Goto, AtWork
    <2>2. row'[e].status = "SUCCEEDED"
      BY <2>1 DEF TypeOK, MarkSucceeded, Complete, Row
    <2>3. \A d \in Event \ {e} : row'[d] = row[d]
      BY DEF TypeOK, MarkSucceeded, Complete
    <2> QED BY <2>2, <2>3 DEF SucceededMeansApplied, Seen, MarkSucceeded, Complete, Goto
  <1> QED BY <1>1, <1>2, <1>3, <1>4, <1>5

LEMMA BackoffStep ==
  ASSUME IInv, NEW p \in Proc, ScheduleRetry(p)
  PROVE  IInv'
  <1> USE ConstantsAssumption DEF IInv, Proc
  <1>1. TypeOK'
    <2>1. job[p].ev \in Event /\ row[job[p].ev] \in Row
      BY DEF TypeOK, ScheduleRetry, Complete, Goto, AtWork
    <2>2. now[p] + calculateRetryDelay(job[p].att) \in Nat
      BY DelayType DEF TypeOK, Job
    <2>3. row' \in [Event -> Row]
      <3> DEFINE ev == job[p].ev
                 next == now[p] + calculateRetryDelay(job[p].att)
      <3>1. row' = [row EXCEPT ![ev] = [@ EXCEPT !.status = "RETRY_SCHEDULED",
                                                 !.next = next, !.lease = 0]]
        BY DEF ScheduleRetry, Complete
      <3> HIDE DEF ev, next
      <3>2. "RETRY_SCHEDULED" \in RetryStatuses
        BY DEF RetryStatuses
      <3>3. ev \in Event /\ row[ev] \in Row /\ next \in Nat
        BY <2>1, <2>2 DEF ev, next
      <3>4. [row[ev] EXCEPT !.status = "RETRY_SCHEDULED", !.next = next,
                            !.lease = 0] \in Row
        BY <3>2, <3>3, CompletedType
      <3> QED BY <3>1, <3>3, <3>4 DEF TypeOK
    <2>4. job' \in [Proc -> Job]
      BY NoJobType DEF TypeOK, ScheduleRetry, Complete
    <2>5. pc' \in [Proc -> HandsFree \cup AtWork]
      BY DEF TypeOK, ScheduleRetry, Complete, Goto, Rest, HandsFree, AtWork
    <2>6. \A q \in Proc : pc'[q] \in AtWork => job'[q].ev \in Event
      BY DEF TypeOK, ScheduleRetry, Complete, Goto, Rest, HandsFree, AtWork
    <2> QED BY <2>1, <2>3, <2>4, <2>5, <2>6 DEF TypeOK, ScheduleRetry, Complete
  <1>2. Stored'
    BY DEF TypeOK, Stored, ScheduleRetry, Complete, Rest, Goto, HandsFree, AtWork
  <1>3. Decided'
    BY DEF TypeOK, Decided, ScheduleRetry, Complete, Rest, Goto, HandsFree, AtWork
  <1>4. Seen'
    BY DEF TypeOK, Seen, ScheduleRetry, Complete, Rest, Goto, HandsFree, AtWork
  <1>5. SucceededMeansApplied'
    <2> DEFINE e == job[p].ev
    <2>1. e \in Event /\ row[e] \in Row
      BY DEF TypeOK, ScheduleRetry, Complete, Goto, AtWork
    <2>2. row'[e].status = "RETRY_SCHEDULED"
      BY <2>1 DEF TypeOK, ScheduleRetry, Complete, Row
    <2>3. \A d \in Event \ {e} : row'[d] = row[d]
      BY DEF TypeOK, ScheduleRetry, Complete
    <2> QED BY <2>2, <2>3 DEF SucceededMeansApplied, Seen, ScheduleRetry, Complete, Goto
  <1> QED BY <1>1, <1>2, <1>3, <1>4, <1>5

LEMMA BuryStep ==
  ASSUME IInv, NEW p \in Proc, DeadLetter(p)
  PROVE  IInv'
  <1> USE ConstantsAssumption DEF IInv, Proc
  <1>1. TypeOK'
    <2>1. job[p].ev \in Event /\ row[job[p].ev] \in Row
      BY DEF TypeOK, DeadLetter, Complete, Goto, AtWork
    <2>3. row' \in [Event -> Row]
      BY <2>1, CompletedType DEF TypeOK, DeadLetter, Complete, RetryStatuses, Terminal
    <2>4. job' \in [Proc -> Job]
      BY NoJobType DEF TypeOK, DeadLetter, Complete
    <2>5. pc' \in [Proc -> HandsFree \cup AtWork]
      BY DEF TypeOK, DeadLetter, Complete, Goto, Rest, HandsFree, AtWork
    <2>6. \A q \in Proc : pc'[q] \in AtWork => job'[q].ev \in Event
      BY DEF TypeOK, DeadLetter, Complete, Goto, Rest, HandsFree, AtWork
    <2> QED BY <2>1, <2>3, <2>4, <2>5, <2>6 DEF TypeOK, DeadLetter, Complete
  <1>2. Stored'
    BY DEF TypeOK, Stored, DeadLetter, Complete, Rest, Goto, HandsFree, AtWork
  <1>3. Decided'
    BY DEF TypeOK, Decided, DeadLetter, Complete, Rest, Goto, HandsFree, AtWork
  <1>4. Seen'
    BY DEF TypeOK, Seen, DeadLetter, Complete, Rest, Goto, HandsFree, AtWork
  <1>5. SucceededMeansApplied'
    <2> DEFINE e == job[p].ev
    <2>1. e \in Event /\ row[e] \in Row
      BY DEF TypeOK, DeadLetter, Complete, Goto, AtWork
    <2>2. row'[e].status = "DEAD_LETTERED"
      BY <2>1 DEF TypeOK, DeadLetter, Complete, Row
    <2>3. \A d \in Event \ {e} : row'[d] = row[d]
      BY DEF TypeOK, DeadLetter, Complete
    <2> QED BY <2>2, <2>3 DEF SucceededMeansApplied, Seen, DeadLetter, Complete, Goto
  <1> QED BY <1>1, <1>2, <1>3, <1>4, <1>5

LEMMA FailStep ==
  ASSUME IInv, NEW p \in Proc, Fail(p)
  PROVE  IInv'
  <1> USE ConstantsAssumption DEF IInv, Proc
  <1>1. TypeOK'
    BY DEF TypeOK, Fail, Abandon, Busy, tables, HandsFree, AtWork, NoJob, Job, Projections
  <1>2. Stored'
    BY DEF TypeOK, Stored, Fail, Abandon, Busy, tables, HandsFree, AtWork, NoJob, Job, Projections
  <1>3. Decided'
    BY DEF TypeOK, Decided, Fail, Abandon, Busy, tables, HandsFree, AtWork, NoJob, Job, Projections
  <1>4. Seen'
    BY DEF TypeOK, Seen, Fail, Abandon, Busy, tables, HandsFree, AtWork, NoJob, Job, Projections
  <1>5. SucceededMeansApplied'
    BY DEF TypeOK, SucceededMeansApplied, Fail, Abandon, Busy, tables, HandsFree, AtWork, NoJob, Job, Projections
  <1> QED BY <1>1, <1>2, <1>3, <1>4, <1>5

-----------------------------------------------------------------------------
LEMMA NextStep ==
  ASSUME IInv, [Next]_vars
  PROVE  IInv'
  <1>1. ASSUME NEW r \in Request, Deliver(r)
        PROVE  IInv'
    BY <1>1, ReceiveStep, StoreStep, EnsureStep, CheckStep, BeginStep
       DEF Deliver
  <1>2. ASSUME NEW w \in Worker, RunTick(w)
        PROVE  IInv'
    BY <1>2, StartStep, ClaimStep, TakeStep, EndStep DEF RunTick
  <1>3. ASSUME NEW p \in Proc, Attempt(p)
        PROVE  IInv'
    BY <1>3, LoadStep, MarkStep, RecheckStep, ReplayStep, ThrowStep,
       CommitStep, ParkStep, SucceedStep, BackoffStep, BuryStep
       DEF Attempt
  <1>4. ASSUME Tick
        PROVE  IInv'
    <2>1. TypeOK'
      BY <1>4 DEF IInv, TypeOK, Tick, tables
    <2> QED
      BY <1>4, <2>1 DEF IInv, Stored, Decided, Seen, SucceededMeansApplied,
                        Tick, tables
  <1>5. ASSUME UNCHANGED vars
        PROVE  IInv'
    BY <1>5 DEF IInv, TypeOK, Stored, Decided, Seen, SucceededMeansApplied, vars
  <1> QED
    BY <1>1, <1>2, <1>3, <1>4, <1>5, FailStep DEF Next

THEOREM Invariance == Spec => []IInv
  <1> QED BY InitIInv, NextStep, PTL DEF Spec

\* The tables and the processes' locals have the types the schema gives them,
\* for every number of events and processes and any timing.
THEOREM TypeCorrect == Spec => []TypeOK
  <1>1. IInv => TypeOK BY DEF IInv
  <1> QED BY <1>1, Invariance, PTL

\* No crash, late completion or overlapping attempt makes a row SUCCEEDED whose
\* event's outcome was not committed.
THEOREM SuccessIsReal == Spec => []SucceededMeansApplied
  <1>1. IInv => SucceededMeansApplied BY DEF IInv
  <1> QED BY <1>1, Invariance, PTL

\* Only Store, MarkProcessing, Commit and Park write a status; none of them
\* moves an event away from PROCESSED.
LEMMA StepKeepsApplied ==
  ASSUME IInv, Next, NEW e \in Event, status[e] = "PROCESSED"
  PROVE  status'[e] = "PROCESSED"
  <1> USE DEF IInv, Proc
  <1>1. ASSUME NEW r \in Request, Deliver(r)
        PROVE  status'[e] = "PROCESSED"
    BY <1>1 DEF TypeOK, Deliver, Receive, Store, EnsurePending, CheckPending,
                BeginAttempt, tables
  <1>2. ASSUME NEW w \in Worker, RunTick(w)
        PROVE  status'[e] = "PROCESSED"
    BY <1>2 DEF RunTick, StartTick, ClaimDue, TakeRecord, EndTick, tables
  <1>3. ASSUME NEW p \in Proc, Attempt(p)
        PROVE  status'[e] = "PROCESSED"
    <2>1. CASE MarkProcessing(p) \/ Commit(p)
      BY <2>1 DEF TypeOK, MarkProcessing, Commit
    <2>2. CASE Park(p)
      <3>1. job[p].ev \in Event /\ job[p].verdict \in {"CONFLICT", "REJECTED"}
        BY <2>2 DEF TypeOK, Decided, Park, AtWork
      <3> QED BY <2>2, <3>1, ParkSparesProcessed DEF TypeOK, Park
    <2>3. CASE \/ LoadEvent(p) \/ Recheck(p) \/ ReplayLog(p) \/ AttemptThrows(p)
               \/ MarkSucceeded(p) \/ ScheduleRetry(p) \/ DeadLetter(p)
      BY <2>3 DEF LoadEvent, Recheck, ReplayLog, AttemptThrows, MarkSucceeded,
                  ScheduleRetry, DeadLetter, Complete, tables
    <2> QED BY <1>3, <2>1, <2>2, <2>3 DEF Attempt
  <1>4. ASSUME NEW p \in Proc, Fail(p)
        PROVE  status'[e] = "PROCESSED"
    BY <1>4 DEF Fail, tables
  <1>5. CASE Tick
    BY <1>5 DEF Tick, tables
  <1> QED BY <1>1, <1>2, <1>3, <1>4, <1>5 DEF Next

\* PROCESSED is final for every event, however many attempts overlap.
THEOREM AppliedStaysApplied == Spec => AppliedIsFinal
  <1>1. IInv /\ [Next]_vars =>
          [\A e \in Event : status[e] = "PROCESSED" => status'[e] = "PROCESSED"]_vars
    BY StepKeepsApplied
  <1> QED BY <1>1, Invariance, PTL DEF Spec, AppliedIsFinal

-----------------------------------------------------------------------------
(* The durable projection *)

\* A transition about to be committed was accepted in a log of stored events,
\* the one its snapshot is the replay of.
Grounded ==
  \A p \in Proc :
    pc[p] = "commit" /\ job[p].verdict = "ACCEPTED" =>
      \E log \in SUBSET Log(PaymentOf[job[p].ev]) :
        /\ job[p].ev \in log
        /\ job[p].pay = Snapshot[log]
        /\ Verdict[log][job[p].ev] = "ACCEPTED"

CInv == IInv /\ Grounded /\ ProjectionHasCause

\* Nothing is unstored, and no transition is unrecorded.
LEMMA TablesGrow ==
  ASSUME IInv, [Next]_vars, NEW e \in Event
  PROVE  /\ status[e] # "ABSENT" => status'[e] # "ABSENT"
         /\ changes'[e] \in Nat /\ changes'[e] >= changes[e]
<1> USE DEF IInv, Proc
<1>1. changes[e] \in Nat
  BY DEF TypeOK
<1>2. ASSUME NEW r \in Request, Deliver(r)
      PROVE  changes' = changes /\ (status[e] # "ABSENT" => status'[e] # "ABSENT")
  BY <1>2 DEF TypeOK, Deliver, Receive, Store, EnsurePending, CheckPending,
              BeginAttempt, tables
<1>3. ASSUME NEW w \in Worker, RunTick(w)
      PROVE  changes' = changes /\ status' = status
  BY <1>3 DEF RunTick, StartTick, ClaimDue, TakeRecord, EndTick, tables
<1>4. ASSUME NEW p \in Proc, Attempt(p)
      PROVE  /\ status[e] # "ABSENT" => status'[e] # "ABSENT"
             /\ changes'[e] \in Nat /\ changes'[e] >= changes[e]
  <2>1. CASE MarkProcessing(p)
    <3>1. /\ status' = [status EXCEPT ![job[p].ev] =
                          IF @ = "RECEIVED" THEN "PROCESSING" ELSE @]
          /\ changes' = changes
      BY <2>1 DEF MarkProcessing
    <3>2. status'[e] = status[e] \/ status'[e] = "PROCESSING"
      BY <3>1 DEF TypeOK
    <3> QED BY <1>1, <3>1, <3>2
  <2>2. CASE Commit(p)
    <3>1. status'[e] = status[e] \/ status'[e] = "PROCESSED"
      BY <2>2 DEF TypeOK, Commit
    <3>2. changes'[e] = changes[e] \/ changes'[e] = changes[e] + 1
      <4>1. \/ changes' = changes
            \/ changes' = [changes EXCEPT ![job[p].ev] = @ + 1]
        <5>1. CASE job[p].verdict = "ACCEPTED"
          BY <2>2, <5>1 DEF Commit
        <5>2. CASE job[p].verdict # "ACCEPTED"
          BY <2>2, <5>2 DEF TypeOK, Commit
        <5> QED BY <5>1, <5>2
      <4> QED BY <4>1 DEF TypeOK
    <3> QED BY <1>1, <3>1, <3>2
  <2>3. CASE Park(p)
    <3>1. job[p].verdict \in {"CONFLICT", "REJECTED"}
      BY <2>3 DEF Decided, Park
    <3> QED BY <1>1, <2>3, <3>1 DEF TypeOK, Park
  <2>4. CASE \/ LoadEvent(p) \/ Recheck(p) \/ ReplayLog(p) \/ AttemptThrows(p)
             \/ MarkSucceeded(p) \/ ScheduleRetry(p) \/ DeadLetter(p)
    <3>1. status' = status /\ changes' = changes
      BY <2>4 DEF LoadEvent, Recheck, ReplayLog, AttemptThrows, MarkSucceeded,
                  ScheduleRetry, DeadLetter, Complete, tables
    <3> QED BY <1>1, <3>1
  <2> QED BY <1>4, <2>1, <2>2, <2>3, <2>4 DEF Attempt
<1>5. ASSUME NEW p \in Proc, Fail(p)
      PROVE  changes' = changes /\ status' = status
  BY <1>5 DEF Fail, tables
<1>6. CASE Tick \/ UNCHANGED vars
  BY <1>1, <1>6 DEF Tick, tables, vars
<1> QED BY <1>1, <1>2, <1>3, <1>4, <1>5, <1>6 DEF Next

LEMMA LogGrows ==
  ASSUME IInv, [Next]_vars, NEW pay
  PROVE  Log(pay) \subseteq Log(pay)'
BY TablesGrow DEF Log

\* Only the replay brings an attempt to its outcome transaction.
LEMMA CommitHasReplay ==
  ASSUME IInv, [Next]_vars, NEW p \in Proc, pc'[p] = "commit"
  PROVE  ReplayLog(p) \/ (pc[p] = "commit" /\ job'[p] = job[p])
<1> USE DEF IInv, TypeOK, Goto
<1>1. ASSUME NEW r \in Request, Deliver(r)
      PROVE  pc[p] = "commit" /\ job'[p] = job[p]
  BY <1>1 DEF Deliver, Receive, Store, EnsurePending, CheckPending, BeginAttempt
<1>2. ASSUME NEW w \in Worker, RunTick(w)
      PROVE  pc[p] = "commit" /\ job'[p] = job[p]
  BY <1>2 DEF RunTick, StartTick, ClaimDue, TakeRecord, EndTick
<1>3. ASSUME NEW q \in Proc, Attempt(q)
      PROVE  ReplayLog(p) \/ (pc[p] = "commit" /\ job'[p] = job[p])
  <2>1. CASE LoadEvent(q) \/ Recheck(q) \/ AttemptThrows(q) \/ MarkProcessing(q)
    BY <2>1 DEF LoadEvent, Recheck, AttemptThrows, MarkProcessing, AfterFailure
  <2>2. CASE ReplayLog(q)
    BY <2>2 DEF ReplayLog
  <2>3. CASE Commit(q) \/ Park(q)
    BY <2>3 DEF Commit, Park, Abandon
  <2>4. CASE MarkSucceeded(q) \/ ScheduleRetry(q) \/ DeadLetter(q)
    BY <2>4 DEF MarkSucceeded, ScheduleRetry, DeadLetter, Complete, Rest
  <2> QED BY <1>3, <2>1, <2>2, <2>3, <2>4 DEF Attempt
<1>4. ASSUME NEW q \in Proc, Fail(q)
      PROVE  pc[p] = "commit" /\ job'[p] = job[p]
  BY <1>4 DEF Fail, Abandon
<1>5. CASE Tick \/ UNCHANGED vars
  BY <1>5 DEF Tick, vars
<1> QED BY <1>1, <1>2, <1>3, <1>4, <1>5 DEF Next

\* Only an outcome transaction writes the projection, and then the event is
\* PROCESSED and its transition recorded with it.
LEMMA ProjectionWrites ==
  ASSUME IInv, [Next]_vars, NEW pay \in Payment
  PROVE  \/ payment'[pay] = payment[pay]
         \/ \E p \in Proc :
              /\ pc[p] = "commit" /\ job[p].verdict = "ACCEPTED"
              /\ PaymentOf[job[p].ev] = pay
              /\ payment'[pay] = job[p].pay
              /\ status'[job[p].ev] = "PROCESSED"
              /\ changes'[job[p].ev] > 0
<1> USE DEF IInv, Proc
<1>1. ASSUME NEW r \in Request, Deliver(r) PROVE payment' = payment
  BY <1>1 DEF Deliver, Receive, Store, EnsurePending, CheckPending, BeginAttempt,
              tables
<1>2. ASSUME NEW w \in Worker, RunTick(w) PROVE payment' = payment
  BY <1>2 DEF RunTick, StartTick, ClaimDue, TakeRecord, EndTick, tables
<1>3. ASSUME NEW p \in Proc, Commit(p)
      PROVE  \/ payment'[pay] = payment[pay]
             \/ /\ pc[p] = "commit" /\ job[p].verdict = "ACCEPTED"
                /\ PaymentOf[job[p].ev] = pay
                /\ payment'[pay] = job[p].pay
                /\ status'[job[p].ev] = "PROCESSED"
                /\ changes'[job[p].ev] > 0
  <2>1. pc[p] = "commit" /\ job[p].ev \in Event
    BY <1>3 DEF Commit, TypeOK, AtWork
  <2>2. CASE job[p].verdict = "ACCEPTED" /\ MayWrite(job[p].ev, "PROCESSED")
    <3>1. /\ payment' = [payment EXCEPT ![PaymentOf[job[p].ev]] = job[p].pay]
          /\ status' = [status EXCEPT ![job[p].ev] = "PROCESSED"]
          /\ changes' = [changes EXCEPT ![job[p].ev] = @ + 1]
      BY <1>3, <2>2 DEF Commit
    <3>2. changes'[job[p].ev] = changes[job[p].ev] + 1 /\ changes[job[p].ev] \in Nat
      BY <2>1, <3>1 DEF TypeOK
    <3>3. status'[job[p].ev] = "PROCESSED" /\ changes'[job[p].ev] > 0
      BY <2>1, <3>1, <3>2 DEF TypeOK
    <3>4. CASE pay = PaymentOf[job[p].ev]
      BY <2>1, <2>2, <3>1, <3>3, <3>4 DEF TypeOK
    <3>5. CASE pay # PaymentOf[job[p].ev]
      BY <3>1, <3>5 DEF TypeOK
    <3> QED BY <3>4, <3>5
  <2>3. CASE job[p].verdict # "ACCEPTED" \/ ~MayWrite(job[p].ev, "PROCESSED")
    BY <1>3, <2>3 DEF Commit, TypeOK
  <2> QED BY <2>2, <2>3
<1>4. ASSUME NEW p \in Proc, Attempt(p), ~Commit(p) PROVE payment' = payment
  BY <1>4 DEF Attempt, LoadEvent, MarkProcessing, Recheck, ReplayLog, AttemptThrows,
              Park, MarkSucceeded, ScheduleRetry, DeadLetter, Complete, tables
<1>5. CASE Tick \/ UNCHANGED vars \/ \E p \in Proc : Fail(p)
  BY <1>5 DEF Tick, Fail, tables, vars
<1> QED BY <1>1, <1>2, <1>3, <1>4, <1>5 DEF Next

LEMMA GroundedStep ==
  ASSUME CInv, [Next]_vars
  PROVE  Grounded'
<1> SUFFICES ASSUME NEW p \in Proc, pc'[p] = "commit", job'[p].verdict = "ACCEPTED"
             PROVE  \E log \in SUBSET Log(PaymentOf[job[p].ev])' :
                      /\ job'[p].ev \in log
                      /\ job'[p].pay = Snapshot[log]
                      /\ Verdict[log][job'[p].ev] = "ACCEPTED"
  BY DEF Grounded
<1>1. CASE pc[p] = "commit" /\ job'[p] = job[p]
  <2>1. PICK log \in SUBSET Log(PaymentOf[job[p].ev]) :
          /\ job[p].ev \in log
          /\ job[p].pay = Snapshot[log]
          /\ Verdict[log][job[p].ev] = "ACCEPTED"
    BY <1>1 DEF CInv, Grounded
  <2>2. PICK pay : pay = PaymentOf[job[p].ev]
    OBVIOUS
  <2>3. log \subseteq Log(pay)' /\ PaymentOf[job'[p].ev] = pay
    BY <1>1, <2>1, <2>2, LogGrows DEF CInv
  <2>4. log \in SUBSET Log(PaymentOf[job[p].ev])'
    BY <2>3 DEF Log
  <2> QED BY <1>1, <2>1, <2>4
<1>2. CASE ReplayLog(p)
  <2>1. PICK e \in Event : e = job[p].ev
    BY <1>2 DEF ReplayLog, Goto, CInv, IInv, TypeOK, AtWork
  <2>2. PICK log \in SUBSET Event : log = Log(PaymentOf[e])
    BY DEF Log
  <2>3. e \in log
    BY <1>2, <2>1, <2>2, SMTT(40) DEF ReplayLog, Goto, CInv, IInv, Stored, AtWork, Log
  <2>4. job' = [job EXCEPT ![p].verdict = Verdict[log][e],
                           ![p].pay = IF Verdict[log][e] = "ACCEPTED"
                                      THEN Snapshot[log] ELSE NoSnapshot]
    BY <1>2, <2>1, <2>2 DEF ReplayLog
  <2>5. /\ job'[p].ev = e /\ job'[p].verdict = Verdict[log][e]
        /\ Verdict[log][e] = "ACCEPTED" => job'[p].pay = Snapshot[log]
    BY <2>1, <2>4, SMTT(40) DEF CInv, IInv, TypeOK, Job
  <2>6. log \in SUBSET Log(PaymentOf[job[p].ev])'
    BY <1>2, <2>2, <2>5 DEF ReplayLog, tables, Log
  <2> QED BY <2>3, <2>5, <2>6
<1> QED BY <1>1, <1>2, CommitHasReplay DEF CInv

LEMMA CauseStep ==
  ASSUME CInv, [Next]_vars
  PROVE  ProjectionHasCause'
<1> SUFFICES ASSUME NEW pay \in Payment, payment'[pay] # NoSnapshot
             PROVE  \E log \in SUBSET Log(pay)' :
                      /\ payment'[pay] = Snapshot[log]
                      /\ \E e \in log : /\ Verdict[log][e] = "ACCEPTED"
                                        /\ status'[e] = "PROCESSED"
                                        /\ changes'[e] > 0
  BY DEF ProjectionHasCause
<1>1. Log(pay) \subseteq Log(pay)' /\ Log(pay) \subseteq Event
  BY LogGrows DEF CInv, Log
<1>2. CASE payment'[pay] = payment[pay]
  <2>1. PICK log \in SUBSET Log(pay) :
          /\ payment[pay] = Snapshot[log]
          /\ \E e \in log : /\ Verdict[log][e] = "ACCEPTED"
                            /\ status[e] = "PROCESSED"
                            /\ changes[e] > 0
    BY <1>2 DEF CInv, ProjectionHasCause
  <2>2. PICK e \in log : /\ Verdict[log][e] = "ACCEPTED"
                         /\ status[e] = "PROCESSED"
                         /\ changes[e] > 0
    BY <2>1
  <2>3. e \in Event /\ changes[e] \in Nat
    BY <1>1 DEF CInv, IInv, TypeOK
  <2>4. status'[e] = "PROCESSED"
    BY <2>2, <2>3, StepKeepsApplied DEF CInv, vars
  <2>5. changes'[e] > 0
    BY <2>2, <2>3, TablesGrow DEF CInv
  <2> QED BY <1>1, <1>2, <2>1, <2>2, <2>4, <2>5
<1>3. ASSUME NEW p \in Proc, pc[p] = "commit", job[p].verdict = "ACCEPTED",
             PaymentOf[job[p].ev] = pay, payment'[pay] = job[p].pay,
             status'[job[p].ev] = "PROCESSED", changes'[job[p].ev] > 0
      PROVE  \E log \in SUBSET Log(pay)' :
               /\ payment'[pay] = Snapshot[log]
               /\ \E e \in log : /\ Verdict[log][e] = "ACCEPTED"
                                 /\ status'[e] = "PROCESSED"
                                 /\ changes'[e] > 0
  <2>1. PICK log \in SUBSET Log(pay) : /\ job[p].ev \in log
                                       /\ job[p].pay = Snapshot[log]
                                       /\ Verdict[log][job[p].ev] = "ACCEPTED"
    BY <1>3 DEF CInv, Grounded
  <2> QED BY <1>1, <1>3, <2>1
<1> QED BY <1>2, <1>3, ProjectionWrites DEF CInv

\* Attempts may overlap and be late, but what the payments table holds is always
\* the replay of some set of stored events of that payment, among them one
\* whose own acceptance is committed with its audit row.
THEOREM ProjectionCaused == Spec => []ProjectionHasCause
<1>1. Init => CInv
  <2> SUFFICES ASSUME Init PROVE CInv
    OBVIOUS
  <2>1. Grounded /\ ProjectionHasCause
    BY DEF Init, Grounded, ProjectionHasCause
  <2> QED BY <2>1, InitIInv DEF CInv
<1>2. CInv /\ [Next]_vars => CInv'
  BY NextStep, GroundedStep, CauseStep DEF CInv
<1>3. CInv => ProjectionHasCause
  BY DEF CInv
<1> QED BY <1>1, <1>2, <1>3, PTL DEF Spec

-----------------------------------------------------------------------------
(* The invariant, when leases are long enough *)

\* An instant was sampled when it was not later than now.
Clocked == \A p \in Proc : now[p] <= clock

\* Only a tick that has made its claim has records left.
InHand ==
  \A p \in Proc :
    batch[p] # {} => p \notin Request /\ (pc[p] = "next" \/ Attempting(p))

\* The row says what the holder of a claim knows of it: its lease is the
\* holder's, and its attempt the one that was claimed.
Backed(p, e, att) ==
  /\ row[e].status = "PROCESSING"
  /\ row[e].lease = now[p] + Lease
  /\ row[e].att = att

Backing ==
  \A p \in Proc :
    /\ \A c \in batch[p] : Backed(p, c.ev, c.att)
    /\ Attempting(p) => Backed(p, job[p].ev, job[p].att)

\* What is being attempted is not in the batch any more.
Apart ==
  \A p \in Proc :
    Attempting(p) => \A c \in batch[p] : c.ev # job[p].ev

\* Nobody else moves the status of an event in hand: what the attempt has read
\* is still so, and no write of it is refused.
OnCourse(p) ==
  LET s == status[job[p].ev]
  IN  /\ pc[p] = "mark" => s = "RECEIVED"
      /\ pc[p] \in {"replay", "commit", "park"} => s = "PROCESSING"
      /\ pc[p] # "recheck"
      /\ pc[p] \in {"backoff", "bury"} => s # "PROCESSED"
      /\ pc[p] = "backoff" => job[p].att < MaxAttempts

Abandoned(e) == row[e].status = "PROCESSING" /\ \A p \in Proc : ~Holds(p, e)

\* How many attempts a row may have behind it and still be tried once more.
Budget ==
  \A e \in Event :
    /\ row[e].status \in {"NONE", "PENDING"} => row[e].att = 0
    /\ row[e].status = "RETRY_SCHEDULED" => row[e].att < MaxAttempts
    /\ Abandoned(e) => row[e].att < MaxAttempts + faults
    /\ row[e].att <= MaxAttempts + faults

Hands == Clocked /\ InHand /\ Backing /\ Apart /\ SingleHolder

Orderly ==
  /\ Hands
  /\ \A p \in Proc : OnCourse(p)
  /\ Budget
  /\ DeadLettersAgree

TInv == IInv /\ Timely /\ Orderly

-----------------------------------------------------------------------------
(* Steps that take no claim and let none go *)

\* Nothing that the claims depend on changes: clocks go on, a process without a
\* claim may sample one, and a row may come to be.
Quiet ==
  /\ clock \in Nat /\ clock' \in Nat /\ clock <= clock'
  /\ faults' = faults /\ dead' = dead /\ batch' = batch
  /\ \A q \in Proc :
       /\ Attempting(q)' <=> Attempting(q)
       /\ Attempting(q) => job'[q].ev = job[q].ev /\ job'[q].att = job[q].att
       /\ now'[q] = now[q] \/ (now'[q] = clock /\ batch[q] = {} /\ ~Attempting(q))
       /\ batch[q] # {} /\ ~Attempting(q) => pc'[q] = pc[q]
  /\ \A e \in Event :
       \/ row'[e] = row[e]
       \/ row[e].status = "NONE" /\ row'[e].status = "PENDING" /\ row'[e].att = 0

\* The claims stay where they are.
LEMMA QuietHolds ==
  ASSUME Quiet, NEW q \in Proc, NEW e \in Event
  PROVE  Holds(q, e)' <=> Holds(q, e)
BY DEF Quiet, Holds

LEMMA HolderBacked ==
  ASSUME Backing, NEW q \in Proc, NEW e \in Event, Holds(q, e)
  PROVE  row[e].status = "PROCESSING" /\ row[e].lease = now[q] + Lease
BY DEF Backing, Backed, Holds

LEMMA QuietKeepsHands ==
  ASSUME TypeOK, Hands, Quiet
  PROVE  Hands'
<1>1. Clocked'
  BY DEF Hands, Clocked, Quiet, TypeOK
<1>2. InHand'
  BY DEF Hands, InHand, Quiet
<1>3. Backing'
  <2>1. ASSUME NEW q \in Proc, NEW e \in Event, NEW att, Backed(q, e, att),
               Attempting(q) \/ batch[q] # {}
        PROVE  row'[e] = row[e] /\ now'[q] = now[q]
    BY <2>1 DEF Quiet, Backed
  <2>2. ASSUME NEW q \in Proc, NEW c \in batch'[q]
        PROVE  row'[c.ev].status = "PROCESSING" /\ row'[c.ev].lease = now'[q] + Lease
               /\ row'[c.ev].att = c.att
    <3>1. c \in batch[q] /\ c.ev \in Event
      BY <2>2 DEF Quiet, TypeOK, Claim
    <3> QED BY <2>1, <3>1 DEF Hands, Backing, Backed
  <2>3. ASSUME NEW q \in Proc, Attempting(q)'
        PROVE  /\ row'[job'[q].ev].status = "PROCESSING"
               /\ row'[job'[q].ev].lease = now'[q] + Lease
               /\ row'[job'[q].ev].att = job'[q].att
    <3>1. Attempting(q) /\ job'[q].ev = job[q].ev /\ job'[q].att = job[q].att
      BY <2>3 DEF Quiet
    <3>2. job[q].ev \in Event
      BY <3>1 DEF TypeOK, Attempting, AtWork
    <3> QED BY <2>1, <3>1, <3>2 DEF Hands, Backing, Backed
  <2> QED BY <2>2, <2>3 DEF Backing, Backed
<1>4. Apart'
  BY DEF Hands, Apart, Quiet
<1>5. SingleHolder'
  BY QuietHolds DEF Hands, SingleHolder
<1> QED BY <1>1, <1>2, <1>3, <1>4, <1>5 DEF Hands

LEMMA QuietKeepsRows ==
  ASSUME TypeOK, Budget, DeadLettersAgree, Quiet
  PROVE  Budget' /\ DeadLettersAgree'
<1>1. ASSUME NEW e \in Event
      PROVE  /\ row'[e].status \in {"NONE", "PENDING"} => row'[e].att = 0
             /\ row'[e].status = "RETRY_SCHEDULED" => row'[e].att < MaxAttempts
             /\ Abandoned(e)' => row'[e].att < MaxAttempts + faults'
             /\ row'[e].att <= MaxAttempts + faults'
  <2>1. CASE row'[e] = row[e]
    <3>1. Abandoned(e)' => Abandoned(e)
      BY <2>1, QuietHolds DEF Abandoned
    <3> QED BY <2>1, <3>1 DEF Budget, Quiet
  <2>2. CASE row'[e].status = "PENDING" /\ row'[e].att = 0
    BY <2>2, ConstantsAssumption DEF Abandoned, Quiet, TypeOK
  <2> QED BY <2>1, <2>2 DEF Quiet
<1>2. DeadLettersAgree'
  BY DEF DeadLettersAgree, Quiet
<1> QED BY <1>1, <1>2 DEF Budget

-----------------------------------------------------------------------------
(* The course of an attempt *)

\* Nobody else's step matters to an attempt, unless it moves the status of an
\* event this one holds.
LEMMA CourseElsewhere ==
  ASSUME IInv, NEW q \in Proc, OnCourse(q), pc'[q] = pc[q], job'[q] = job[q],
         \A e \in Event : Holds(q, e) => status'[e] = status[e]
  PROVE  OnCourse(q)'
<1>1. CASE Attempting(q)
  <2>1. job[q].ev \in Event
    BY <1>1 DEF IInv, TypeOK, Attempting, AtWork
  <2>2. Holds(q, job[q].ev)
    BY <1>1 DEF Holds
  <2> QED BY <2>1, <2>2 DEF OnCourse
<1>2. CASE ~Attempting(q)
  BY <1>2 DEF OnCourse, Attempting
<1> QED BY <1>1, <1>2

\* A step by p within its attempt: it may move the status of its own event, and
\* writes no row.
LEMMA AttemptStep ==
  ASSUME TInv, NEW p \in Proc, Attempting(p), NEW to, Goto(p, pc[p], to),
         to \in {"mark", "replay", "commit", "park", "succeed", "backoff", "bury"},
         UNCHANGED <<clock, row, dead, now, batch, faults>>,
         \A q \in Proc \ {p} : job'[q] = job[q],
         job'[p].ev = job[p].ev, job'[p].att = job[p].att,
         \A e \in Event \ {job[p].ev} : status'[e] = status[e],
         OnCourse(p)'
  PROVE  Orderly'
<1>1. TypeOK /\ Hands /\ Budget /\ DeadLettersAgree
  BY DEF TInv, IInv, Orderly
<1>2. pc'[p] = to /\ \A q \in Proc \ {p} : pc'[q] = pc[q]
  BY <1>1 DEF Goto, TypeOK
<1>3. Quiet
  BY <1>1, <1>2 DEF Quiet, Attempting, TypeOK
<1>4. ASSUME NEW q \in Proc \ {p} PROVE OnCourse(q)'
  <2>1. ASSUME NEW e \in Event, Holds(q, e) PROVE status'[e] = status[e]
    <3>1. ~Holds(p, e)
      BY <1>1, <2>1 DEF Hands, SingleHolder
    <3> QED BY <3>1 DEF Holds
  <2> QED BY <1>2, <2>1, CourseElsewhere DEF TInv, Orderly
<1> QED BY <1>1, <1>3, <1>4, QuietKeepsHands, QuietKeepsRows DEF Orderly

\* A process that is not at an attempt has no course to keep.
LEMMA OffCourse ==
  ASSUME NEW p \in Proc, ~Attempting(p)'
  PROVE  OnCourse(p)'
BY DEF OnCourse, Attempting

\* A step by p outside an attempt, which claims nothing.
LEMMA OutsideStep ==
  ASSUME TInv, NEW p \in Proc, ~Attempting(p), ~Attempting(p)', Quiet,
         \A q \in Proc \ {p} : pc'[q] = pc[q] /\ job'[q] = job[q],
         \A e \in Event : status[e] # "ABSENT" => status'[e] = status[e]
  PROVE  Orderly'
<1>1. TypeOK /\ Hands /\ Budget /\ DeadLettersAgree /\ Stored
  BY DEF TInv, IInv, Orderly
<1>2. ASSUME NEW q \in Proc \ {p} PROVE OnCourse(q)'
  <2>1. ASSUME NEW e \in Event, Holds(q, e) PROVE status[e] # "ABSENT"
    <3>1. row[e].status # "NONE"
      BY <1>1, <2>1, HolderBacked DEF Hands
    <3> QED BY <1>1, <3>1 DEF Stored
  <2> QED BY <2>1, CourseElsewhere DEF TInv, Orderly
<1>3. OnCourse(p)'
  BY OffCourse
<1> QED BY <1>1, <1>2, <1>3, QuietKeepsHands, QuietKeepsRows DEF Orderly

-----------------------------------------------------------------------------
(* The steps of an attempt *)

\* What a process at an attempt has in hand.
LEMMA AtAttempt ==
  ASSUME TInv, NEW p \in Proc, Attempting(p)
  PROVE  /\ job[p].ev \in Event /\ job[p] \in Job /\ OnCourse(p)
         /\ Holds(p, job[p].ev) /\ Backed(p, job[p].ev, job[p].att)
         /\ status[job[p].ev] \in Statuses
<1>1. pc[p] \in AtWork \ {"store"}
  BY DEF Attempting, AtWork
<1>2. job[p].ev \in Event
  BY <1>1 DEF TInv, IInv, TypeOK
<1> QED BY <1>1, <1>2 DEF TInv, IInv, Orderly, TypeOK, Stored, Holds, Hands, Backing

LEMMA LoadOrderly ==
  ASSUME TInv, NEW p \in Proc, LoadEvent(p)
  PROVE  Orderly'
<1>1. Attempting(p) /\ pc[p] = "load"
  BY DEF LoadEvent, Goto, Attempting
<1>2. PICK to \in {"succeed", "bury", "mark", "replay"} : Goto(p, "load", to)
  BY DEF LoadEvent
<1>3. OnCourse(p)'
  BY <1>1, AtAttempt DEF LoadEvent, Goto, OnCourse, TInv, IInv, TypeOK, Statuses,
                         tables
<1> QED BY <1>1, <1>2, <1>3, AttemptStep DEF LoadEvent, tables

LEMMA MarkOrderly ==
  ASSUME TInv, NEW p \in Proc, MarkProcessing(p)
  PROVE  Orderly'
<1>1. Attempting(p) /\ pc[p] = "mark"
  BY DEF MarkProcessing, Goto, Attempting
<1>2. job[p].ev \in Event /\ status[job[p].ev] = "RECEIVED"
  BY <1>1, AtAttempt DEF OnCourse
<1>3. Goto(p, "mark", "replay")
  BY <1>2 DEF MarkProcessing
<1>4. /\ status'[job[p].ev] = "PROCESSING"
      /\ \A e \in Event \ {job[p].ev} : status'[e] = status[e]
  BY <1>2 DEF MarkProcessing, TInv, IInv, TypeOK
<1>5. OnCourse(p)'
  BY <1>3, <1>4 DEF MarkProcessing, Goto, OnCourse, TInv, IInv, TypeOK
<1> QED BY <1>1, <1>3, <1>4, <1>5, AttemptStep DEF MarkProcessing

\* With one holder markProcessing never loses its race.
LEMMA NoRecheck ==
  ASSUME TInv, NEW p \in Proc
  PROVE  ~Recheck(p)
BY DEF TInv, Orderly, OnCourse, Recheck, Goto

LEMMA ReplayOrderly ==
  ASSUME TInv, NEW p \in Proc, ReplayLog(p)
  PROVE  Orderly'
<1>1. Attempting(p) /\ pc[p] = "replay"
  BY DEF ReplayLog, Goto, Attempting
<1>2. PICK to \in {"park", "commit"} : Goto(p, "replay", to)
  BY DEF ReplayLog
<1>3. /\ job'[p].ev = job[p].ev /\ job'[p].att = job[p].att
      /\ \A q \in Proc \ {p} : job'[q] = job[q]
  <2>1. PICK v, pay : job' = [job EXCEPT ![p].verdict = v, ![p].pay = pay]
    BY DEF ReplayLog
  <2> QED BY <2>1, SMTT(40) DEF TInv, IInv, TypeOK, Job
<1>4. status' = status
  BY DEF ReplayLog, tables
<1>5. OnCourse(p)'
  BY <1>1, <1>2, <1>3, <1>4, AtAttempt DEF Goto, OnCourse, TInv, IInv, TypeOK
<1> QED BY <1>1, <1>2, <1>3, <1>4, <1>5, AttemptStep DEF ReplayLog, tables

LEMMA ThrowOrderly ==
  ASSUME TInv, NEW p \in Proc, AttemptThrows(p)
  PROVE  Orderly'
<1>1. Attempting(p) /\ pc[p] \in {"mark", "replay"}
  BY DEF AttemptThrows, Attempting
<1>2. PICK permanent \in BOOLEAN : Goto(p, pc[p], AfterFailure(p, permanent))
  BY DEF AttemptThrows, Goto
<1>3. AfterFailure(p, permanent) \in {"bury", "backoff"}
  BY DEF AfterFailure
<1>4. /\ AfterFailure(p, permanent) = "backoff" => job[p].att < MaxAttempts
  BY AtAttempt, <1>1, ConstantsAssumption DEF AfterFailure, Job
<1>5. UNCHANGED <<clock, tables, now, batch, job, faults>>
  BY DEF AttemptThrows
<1>6. OnCourse(p)'
  BY <1>1, <1>2, <1>3, <1>4, <1>5, AtAttempt
     DEF Goto, OnCourse, TInv, IInv, TypeOK, tables
<1> QED BY <1>1, <1>2, <1>3, <1>5, <1>6, AttemptStep DEF tables

\* The outcome transaction finds the event PROCESSING.
LEMMA CommitWrites ==
  ASSUME TInv, NEW p \in Proc, Commit(p)
  PROVE  /\ Goto(p, "commit", "succeed") /\ Attempting(p)
         /\ job[p].ev \in Event /\ status[job[p].ev] = "PROCESSING"
         /\ status' = [status EXCEPT ![job[p].ev] = "PROCESSED"]
         /\ changes' = [changes EXCEPT ![job[p].ev] =
                          IF job[p].verdict = "ACCEPTED" THEN @ + 1 ELSE @]
         /\ UNCHANGED <<clock, row, dead, now, batch, job, faults>>
<1>1. Attempting(p) /\ pc[p] = "commit"
  BY DEF Commit, Attempting
<1>2. job[p].ev \in Event /\ status[job[p].ev] = "PROCESSING"
  BY <1>1, AtAttempt DEF OnCourse
<1>3. MayWrite(job[p].ev, "PROCESSED")
  BY <1>2 DEF MayWrite, FROM_STATUS
<1> QED BY <1>1, <1>2, <1>3 DEF Commit, Goto

LEMMA CommitOrderly ==
  ASSUME TInv, NEW p \in Proc, Commit(p)
  PROVE  Orderly'
<1>1. OnCourse(p)'
  BY CommitWrites DEF Goto, OnCourse, TInv, IInv, TypeOK
<1>2. \A e \in Event \ {job[p].ev} : status'[e] = status[e]
  BY CommitWrites DEF TInv, IInv, TypeOK
<1>3. Goto(p, pc[p], "succeed")
  BY CommitWrites DEF Goto
<1> QED BY <1>1, <1>2, <1>3, CommitWrites, AttemptStep

LEMMA ParkWrites ==
  ASSUME TInv, NEW p \in Proc, Park(p)
  PROVE  /\ Goto(p, "park", "bury") /\ Attempting(p)
         /\ job[p].ev \in Event /\ status[job[p].ev] = "PROCESSING"
         /\ job[p].verdict \in {"CONFLICT", "REJECTED"}
         /\ status' = [status EXCEPT ![job[p].ev] = job[p].verdict]
         /\ UNCHANGED <<clock, row, dead, now, batch, job, faults, changes>>
<1>1. Attempting(p) /\ pc[p] = "park"
  BY DEF Park, Attempting
<1>2. job[p].ev \in Event /\ status[job[p].ev] = "PROCESSING"
  BY <1>1, AtAttempt DEF OnCourse
<1>3. job[p].verdict \in {"CONFLICT", "REJECTED"}
  BY <1>1 DEF TInv, IInv, Decided
<1>4. MayWrite(job[p].ev, job[p].verdict)
  <2>1. CASE job[p].verdict = "CONFLICT"
    BY <1>2, <2>1 DEF MayWrite, FROM_STATUS
  <2>2. CASE job[p].verdict = "REJECTED"
    BY <1>2, <2>2 DEF MayWrite, FROM_STATUS
  <2> QED BY <1>3, <2>1, <2>2
<1> QED BY <1>1, <1>2, <1>3, <1>4 DEF Park, Goto

LEMMA ParkOrderly ==
  ASSUME TInv, NEW p \in Proc, Park(p)
  PROVE  Orderly'
<1>1. OnCourse(p)'
  BY ParkWrites DEF Goto, OnCourse, TInv, IInv, TypeOK
<1>2. \A e \in Event \ {job[p].ev} : status'[e] = status[e]
  BY ParkWrites DEF TInv, IInv, TypeOK
<1>3. Goto(p, pc[p], "bury")
  BY ParkWrites DEF Goto
<1> QED BY <1>1, <1>2, <1>3, ParkWrites, AttemptStep

-----------------------------------------------------------------------------
(* The steps outside an attempt *)

LEMMA ReceiveOrderly ==
  ASSUME TInv, NEW r \in Request, Receive(r)
  PROVE  Orderly'
<1>1. /\ r \in Proc /\ pc[r] = "idle" /\ pc'[r] = "store"
      /\ \A q \in Proc \ {r} : pc'[q] = pc[q] /\ job'[q] = job[q]
      /\ \A q \in Proc \ {r} : now'[q] = now[q]
      /\ now'[r] = clock
  BY DEF Proc, Receive, Goto, TInv, IInv, TypeOK
<1>2. UNCHANGED <<clock, status, row, dead, batch, faults>>
  BY DEF Receive, tables
<1>3. batch[r] = {}
  BY <1>1 DEF TInv, Orderly, Hands, InHand
<1>4. Quiet
  BY <1>1, <1>2, <1>3 DEF Quiet, Attempting, TInv, IInv, TypeOK
<1> QED BY <1>1, <1>2, <1>4, OutsideStep DEF Attempting

LEMMA StoreOrderly ==
  ASSUME TInv, NEW r \in Request, Store(r)
  PROVE  Orderly'
<1>1. /\ r \in Proc /\ pc[r] = "store" /\ pc'[r] = "ensure"
      /\ \A q \in Proc \ {r} : pc'[q] = pc[q]
      /\ \A e \in Event : status[e] # "ABSENT" => status'[e] = status[e]
  BY DEF Proc, Store, Goto, TInv, IInv, TypeOK
<1>2. UNCHANGED <<clock, row, dead, now, batch, job, faults>>
  BY DEF Store
<1>3. batch[r] = {}
  BY <1>1 DEF TInv, Orderly, Hands, InHand
<1>4. Quiet
  BY <1>1, <1>2, <1>3 DEF Quiet, Attempting, TInv, IInv, TypeOK
<1> QED BY <1>1, <1>2, <1>4, OutsideStep DEF Attempting

LEMMA EnsureOrderly ==
  ASSUME TInv, NEW r \in Request, EnsurePending(r)
  PROVE  Orderly'
<1>1. /\ r \in Proc /\ pc[r] = "ensure" /\ pc'[r] = "check"
      /\ \A q \in Proc \ {r} : pc'[q] = pc[q]
  BY DEF Proc, EnsurePending, Goto, TInv, IInv, TypeOK
<1>2. UNCHANGED <<clock, status, dead, now, batch, job, faults>>
  BY DEF EnsurePending
<1>3. batch[r] = {}
  BY <1>1 DEF TInv, Orderly, Hands, InHand
<1>4. \A e \in Event :
        \/ row'[e] = row[e]
        \/ row[e].status = "NONE" /\ row'[e].status = "PENDING" /\ row'[e].att = 0
  BY DEF EnsurePending, TInv, IInv, TypeOK
<1>5. Quiet
  BY <1>1, <1>2, <1>3, <1>4 DEF Quiet, Attempting, TInv, IInv, TypeOK
<1> QED BY <1>1, <1>2, <1>5, OutsideStep DEF Attempting

LEMMA CheckOrderly ==
  ASSUME TInv, NEW r \in Request, CheckPending(r)
  PROVE  Orderly'
<1>1. /\ r \in Proc /\ pc[r] = "check" /\ pc'[r] \in {"begin", "done"}
      /\ \A q \in Proc \ {r} : pc'[q] = pc[q] /\ job'[q] = job[q]
  BY DEF Proc, CheckPending, Goto, TInv, IInv, TypeOK
<1>2. UNCHANGED <<clock, status, row, dead, now, batch, faults>>
  BY DEF CheckPending, tables
<1>3. batch[r] = {}
  BY <1>1 DEF TInv, Orderly, Hands, InHand
<1>4. Quiet
  BY <1>1, <1>2, <1>3 DEF Quiet, Attempting, TInv, IInv, TypeOK
<1> QED BY <1>1, <1>2, <1>4, OutsideStep DEF Attempting

LEMMA StartOrderly ==
  ASSUME TInv, NEW w \in Worker, StartTick(w)
  PROVE  Orderly'
<1>1. /\ w \in Proc /\ pc[w] = "idle" /\ pc'[w] = "claim"
      /\ \A q \in Proc \ {w} : pc'[q] = pc[q]
      /\ \A q \in Proc \ {w} : now'[q] = now[q]
      /\ now'[w] = clock
  BY DEF Proc, StartTick, Goto, TInv, IInv, TypeOK
<1>2. UNCHANGED <<clock, status, row, dead, batch, job, faults>>
  BY DEF StartTick, tables
<1>3. batch[w] = {}
  BY <1>1 DEF TInv, Orderly, Hands, InHand, Attempting
<1>4. Quiet
  BY <1>1, <1>2, <1>3 DEF Quiet, Attempting, TInv, IInv, TypeOK
<1> QED BY <1>1, <1>2, <1>4, OutsideStep DEF Attempting

LEMMA EndOrderly ==
  ASSUME TInv, NEW w \in Worker, EndTick(w)
  PROVE  Orderly'
<1>1. /\ w \in Proc /\ pc[w] = "next" /\ pc'[w] = "idle" /\ batch[w] = {}
      /\ \A q \in Proc \ {w} : pc'[q] = pc[q]
  BY DEF Proc, EndTick, Goto, TInv, IInv, TypeOK
<1>2. UNCHANGED <<clock, status, row, dead, now, batch, job, faults>>
  BY DEF EndTick, tables
<1>3. Quiet
  BY <1>1, <1>2 DEF Quiet, Attempting, TInv, IInv, TypeOK
<1> QED BY <1>1, <1>2, <1>3, OutsideStep DEF Attempting

LEMMA TickOrderly ==
  ASSUME TInv, Tick
  PROVE  Orderly'
<1>1. /\ clock' = clock + 1
      /\ UNCHANGED <<status, row, dead, pc, now, batch, job, faults>>
  BY DEF Tick, tables
<1>2. Quiet
  BY <1>1 DEF Quiet, Attempting, TInv, IInv, TypeOK
<1>3. \A q \in Proc : OnCourse(q)'
  BY <1>1, CourseElsewhere DEF TInv, Orderly
<1> QED BY <1>2, <1>3, QuietKeepsHands, QuietKeepsRows DEF TInv, IInv, Orderly

-----------------------------------------------------------------------------
(* Claims *)

\* What is due to a process is in nobody's hands: its holder's lease has not run
\* out.
LEMMA DueIsFree ==
  ASSUME TInv, NEW p \in Proc, NEW q \in Proc, NEW e \in Event,
         Due(row[e], now[p])
  PROVE  ~Holds(q, e)
<1> SUFFICES ASSUME Holds(q, e) PROVE FALSE
  OBVIOUS
<1>1. row[e].status = "PROCESSING" /\ row[e].lease = now[q] + Lease
  BY HolderBacked DEF TInv, Orderly, Hands
<1>2. clock < now[q] + Lease
  BY DEF TInv, Timely
<1>3. now[p] <= clock
  BY DEF TInv, Orderly, Hands, Clocked
<1> QED BY <1>1, <1>2, <1>3, ConstantsAssumption DEF Due, TInv, IInv, TypeOK

\* A due row may be tried once more.
LEMMA DueInBudget ==
  ASSUME TInv, NEW p \in Proc, NEW e \in Event, Due(row[e], now[p])
  PROVE  row[e].att + 1 <= MaxAttempts + faults
<1>1. row[e].att \in Nat /\ faults \in Nat /\ MaxAttempts \in Nat \ {0}
  BY ConstantsAssumption DEF TInv, IInv, TypeOK, Row
<1>2. CASE row[e].status = "PENDING"
  BY <1>1, <1>2 DEF TInv, Orderly, Budget
<1>3. CASE row[e].status = "RETRY_SCHEDULED"
  BY <1>1, <1>3 DEF TInv, Orderly, Budget
<1>4. CASE row[e].status = "PROCESSING"
  <2>1. Abandoned(e)
    BY <1>4, DueIsFree DEF Abandoned
  <2> QED BY <1>1, <2>1 DEF TInv, Orderly, Budget
<1> QED BY <1>2, <1>3, <1>4 DEF Due

LEMMA ClaimedRow ==
  ASSUME NEW r \in Row, NEW t \in Nat
  PROVE  /\ Claimed(r, t).status = "PROCESSING"
         /\ Claimed(r, t).lease = t + Lease
         /\ Claimed(r, t).att = r.att + 1
BY DEF Claimed, Row

\* A process with free hands claims the due rows S.
LEMMA ClaimStepOrderly ==
  ASSUME TInv, NEW p \in Proc, ~Attempting(p), batch[p] = {},
         NEW S \in SUBSET Event, \A e \in S : Due(row[e], now[p]),
         row' = [e \in Event |-> IF e \in S THEN Claimed(row[e], now[p])
                                            ELSE row[e]],
         UNCHANGED <<clock, status, dead, now, faults>>,
         \A q \in Proc \ {p} : /\ pc'[q] = pc[q] /\ job'[q] = job[q]
                               /\ batch'[q] = batch[q],
         \A e \in Event : Holds(p, e)' <=> e \in S,
         \A c \in batch'[p] : c.att = row[c.ev].att + 1 /\ c.ev \in S,
         batch'[p] # {} => p \notin Request /\ pc'[p] = "next",
         Attempting(p)' => /\ job'[p].ev \in S /\ batch'[p] = {}
                           /\ job'[p].att = row[job[p].ev].att + 1
                           /\ job'[p].ev = job[p].ev,
         OnCourse(p)'
  PROVE  Orderly'
<1>1. TypeOK /\ Hands /\ Budget /\ DeadLettersAgree
  BY DEF TInv, IInv, Orderly
<1>2. \A e \in S : /\ row'[e].status = "PROCESSING"
                   /\ row'[e].lease = now[p] + Lease
                   /\ row'[e].att = row[e].att + 1
  <2> SUFFICES ASSUME NEW e \in S
               PROVE  /\ row'[e].status = "PROCESSING"
                      /\ row'[e].lease = now[p] + Lease
                      /\ row'[e].att = row[e].att + 1
    OBVIOUS
  <2>1. e \in Event /\ row[e] \in Row /\ now[p] \in Nat
    BY <1>1 DEF TypeOK
  <2>2. row'[e] = Claimed(row[e], now[p])
    BY <2>1
  <2> QED BY <2>1, <2>2, ClaimedRow
<1>3. \A e \in Event \ S : row'[e] = row[e]
  OBVIOUS
<1>4. \A q \in Proc \ {p}, e \in Event : Holds(q, e)' <=> Holds(q, e)
  BY DEF Holds, Attempting
<1>5. \A q \in Proc, e \in S : ~Holds(q, e)
  BY DueIsFree
<1>6. Clocked' /\ InHand' /\ Apart'
  BY <1>1 DEF Hands, Clocked, InHand, Apart, Attempting
<1>7. SingleHolder'
  <2> SUFFICES ASSUME NEW e \in Event, NEW q \in Proc, NEW b \in Proc,
                      Holds(q, e)', Holds(b, e)'
               PROVE  q = b
    BY DEF SingleHolder
  <2>1. CASE e \in S
    BY <1>4, <1>5, <2>1
  <2>2. CASE e \notin S
    BY <1>1, <1>4, <2>2 DEF Hands, SingleHolder
  <2> QED BY <2>1, <2>2
<1>8. Backing'
  <2>1. ASSUME NEW q \in Proc \ {p}, NEW c \in batch'[q]
        PROVE  Backed(q, c.ev, c.att)'
    <3>1. c \in batch[q] /\ c.ev \in Event
      BY <1>1, <2>1 DEF TypeOK, Claim
    <3>2. c.ev \notin S
      BY <1>5, <3>1 DEF Holds
    <3> QED BY <1>1, <1>3, <3>1, <3>2 DEF Hands, Backing, Backed
  <2>2. ASSUME NEW q \in Proc \ {p}, Attempting(q)'
        PROVE  Backed(q, job[q].ev, job[q].att)'
    <3>1. Attempting(q) /\ job[q].ev \in Event /\ job'[q] = job[q]
      BY <1>1, <2>2 DEF TypeOK, Attempting, AtWork
    <3>2. job[q].ev \notin S
      BY <1>5, <3>1 DEF Holds
    <3>3. Backed(q, job[q].ev, job[q].att)
      BY <1>1, <3>1 DEF Hands, Backing
    <3> QED BY <1>3, <3>1, <3>2, <3>3 DEF Backed
  <2>3. \A c \in batch'[p] : Backed(p, c.ev, c.att)'
    BY <1>2 DEF Backed
  <2>4. Attempting(p)' => Backed(p, job[p].ev, job[p].att)'
    BY <1>2 DEF Backed
  <2> QED BY <2>1, <2>2, <2>3, <2>4 DEF Backing
<1>9. Budget'
  <2> SUFFICES ASSUME NEW e \in Event
               PROVE  /\ row'[e].status \in {"NONE", "PENDING"} => row'[e].att = 0
                      /\ row'[e].status = "RETRY_SCHEDULED" => row'[e].att < MaxAttempts
                      /\ Abandoned(e)' => row'[e].att < MaxAttempts + faults
                      /\ row'[e].att <= MaxAttempts + faults
    BY DEF Budget
  <2>1. CASE e \in S
    BY <1>2, <2>1, DueInBudget DEF Abandoned
  <2>2. CASE e \notin S
    <3>1. Abandoned(e)' => Abandoned(e)
      <4>1. ~Holds(p, e)
        BY DEF Holds
      <4> QED BY <1>3, <1>4, <2>2, <4>1 DEF Abandoned
    <3> QED BY <1>1, <1>3, <2>2, <3>1 DEF Budget
  <2> QED BY <2>1, <2>2
<1>10. DeadLettersAgree'
  <2>1. \A e \in S : row[e].status # "DEAD_LETTERED"
    BY DEF Due
  <2> QED BY <1>1, <1>2, <1>3, <2>1, ZenonT(60) DEF DeadLettersAgree
<1>11. \A q \in Proc : OnCourse(q)'
  BY CourseElsewhere DEF TInv, Orderly
<1> QED BY <1>6, <1>7, <1>8, <1>9, <1>10, <1>11 DEF Orderly, Hands

LEMMA BeginOrderly ==
  ASSUME TInv, NEW r \in Request, BeginAttempt(r)
  PROVE  Orderly'
<1> DEFINE e == job[r].ev
<1>1. r \in Proc /\ pc[r] = "begin" /\ ~Attempting(r) /\ batch[r] = {}
      /\ e \in Event
  BY DEF Proc, BeginAttempt, Goto, Attempting, AtWork, TInv, IInv, TypeOK,
         Orderly, Hands, InHand
<1>2. UNCHANGED <<clock, status, dead, now, batch, faults>>
  BY DEF BeginAttempt
<1>3. CASE Due(row[e], now[r])
  <2>1. /\ pc' = [pc EXCEPT ![r] = "load"]
        /\ row' = [row EXCEPT ![e] = Claimed(@, now[r])]
        /\ job' = [job EXCEPT ![r].att = row[e].att + 1]
    BY <1>3 DEF BeginAttempt, Goto
  <2>2. /\ pc'[r] = "load" /\ job'[r].ev = e /\ job'[r].att = row[e].att + 1
        /\ \A q \in Proc \ {r} : pc'[q] = pc[q] /\ job'[q] = job[q]
    BY <1>1, <2>1 DEF TInv, IInv, TypeOK, Job
  <2>3. row' = [d \in Event |-> IF d \in {e} THEN Claimed(row[d], now[r])
                                             ELSE row[d]]
    BY <1>1, <2>1 DEF TInv, IInv, TypeOK
  <2>4. \A d \in Event : Holds(r, d)' <=> d \in {e}
    BY <1>1, <1>2, <2>2 DEF Holds, Attempting
  <2>5. OnCourse(r)'
    BY <2>2 DEF OnCourse
  <2> HIDE DEF e
  <2> QED BY <1>1, <1>2, <1>3, <2>2, <2>3, <2>4, <2>5, ClaimStepOrderly DEF e
<1>4. CASE ~Due(row[e], now[r])
  <2>1. /\ pc' = [pc EXCEPT ![r] = "done"] /\ row' = row
        /\ job' = [job EXCEPT ![r] = NoJob]
    BY <1>4 DEF BeginAttempt, Goto
  <2>2. /\ pc'[r] = "done"
        /\ \A q \in Proc \ {r} : pc'[q] = pc[q] /\ job'[q] = job[q]
    BY <1>1, <2>1 DEF TInv, IInv, TypeOK
  <2>3. Quiet
    BY <1>1, <1>2, <2>1, <2>2 DEF Quiet, Attempting, TInv, IInv, TypeOK
  <2> QED BY <1>1, <1>2, <2>2, <2>3, OutsideStep DEF Attempting
<1> QED BY <1>3, <1>4

LEMMA ClaimOrderly ==
  ASSUME TInv, NEW w \in Worker, ClaimDue(w)
  PROVE  Orderly'
<1>1. /\ w \in Proc /\ w \notin Request /\ pc[w] = "claim" /\ pc'[w] = "next"
      /\ \A q \in Proc \ {w} : pc'[q] = pc[q]
  BY ConstantsAssumption DEF Proc, ClaimDue, Goto, TInv, IInv, TypeOK
<1>2. ~Attempting(w) /\ ~Attempting(w)' /\ batch[w] = {}
  BY <1>1 DEF Attempting, TInv, Orderly, Hands, InHand
<1>3. PICK S \in SUBSET Event :
        /\ Claimable(S, now[w])
        /\ row' = [e \in Event |-> IF e \in S THEN Claimed(row[e], now[w])
                                              ELSE row[e]]
        /\ batch' = [batch EXCEPT ![w] =
                       {[ev |-> e, att |-> row[e].att + 1] : e \in S}]
  BY DEF ClaimDue
<1>4. UNCHANGED <<clock, status, dead, now, job, faults>>
  BY DEF ClaimDue
<1>5. /\ batch'[w] = {[ev |-> e, att |-> row[e].att + 1] : e \in S}
      /\ \A q \in Proc \ {w} : batch'[q] = batch[q]
  BY <1>1, <1>3 DEF TInv, IInv, TypeOK
<1>6. \A c \in batch'[w] : c.att = row[c.ev].att + 1 /\ c.ev \in S
  BY <1>5
<1>7. \A e \in Event : Holds(w, e)' <=> e \in S
  <2>1. ASSUME NEW e \in S PROVE \E c \in batch'[w] : c.ev = e
    <3> DEFINE c == [ev |-> e, att |-> row[e].att + 1]
    <3>1. c \in batch'[w] /\ c.ev = e
      BY <1>5
    <3> HIDE DEF c
    <3> QED BY <3>1
  <2> QED BY <1>2, <1>6, <2>1 DEF Holds
<1>8. \A e \in S : Due(row[e], now[w])
  BY <1>3 DEF Claimable
<1>9. OnCourse(w)'
  BY <1>1, <1>2, OffCourse
<1> QED BY <1>1, <1>2, <1>3, <1>4, <1>5, <1>6, <1>7, <1>8, <1>9, ClaimStepOrderly

\* The two claims of one event are one claim.
LEMMA TakeOrderly ==
  ASSUME TInv, NEW w \in Worker, TakeRecord(w)
  PROVE  Orderly'
<1>1. /\ w \in Proc /\ w \notin Request /\ pc[w] = "next" /\ pc'[w] = "load"
      /\ \A q \in Proc \ {w} : pc'[q] = pc[q]
      /\ TypeOK /\ Hands /\ Budget /\ DeadLettersAgree
  BY ConstantsAssumption
     DEF Proc, TakeRecord, Goto, TInv, IInv, TypeOK, Orderly
<1>2. PICK c \in batch[w] :
        /\ batch' = [batch EXCEPT ![w] = @ \ {c}]
        /\ job' = [job EXCEPT ![w] = [NoJob EXCEPT !.ev = c.ev, !.att = c.att]]
  BY DEF TakeRecord
<1>3. UNCHANGED <<clock, status, row, dead, now, faults>>
  BY DEF TakeRecord, tables
<1>4. /\ batch'[w] = batch[w] \ {c} /\ job'[w].ev = c.ev /\ job'[w].att = c.att
      /\ \A q \in Proc \ {w} : batch'[q] = batch[q] /\ job'[q] = job[q]
      /\ c \in Claim /\ batch[w] \subseteq Claim
  BY <1>1, <1>2 DEF TypeOK, NoJob
<1>5. ~Attempting(w) /\ Attempting(w)'
  BY <1>1 DEF Attempting
<1>6. \A d \in batch'[w] : d.ev # c.ev
  <2> SUFFICES ASSUME NEW d \in batch[w], d.ev = c.ev PROVE d = c
    BY <1>4
  <2>1. Backed(w, d.ev, d.att) /\ Backed(w, c.ev, c.att)
    BY <1>1 DEF Hands, Backing
  <2>2. d.att = c.att
    BY <2>1 DEF Backed
  <2> QED BY <1>4, <2>2 DEF Claim
<1>7. \A q \in Proc, e \in Event : Holds(q, e)' <=> Holds(q, e)
  <2>1. ASSUME NEW e \in Event PROVE Holds(w, e)' <=> Holds(w, e)
    BY <1>4, <1>5 DEF Holds
  <2>2. ASSUME NEW q \in Proc \ {w}, NEW e \in Event
        PROVE  Holds(q, e)' <=> Holds(q, e)
    BY <1>1, <1>4 DEF Holds, Attempting
  <2> QED BY <2>1, <2>2
<1>8. Clocked' /\ SingleHolder'
  BY <1>1, <1>3, <1>7 DEF Hands, Clocked, SingleHolder
<1>9. InHand' /\ Apart'
  BY <1>1, <1>4, <1>5, <1>6 DEF Hands, InHand, Apart, Attempting
<1>10. Backing'
  <2>1. ASSUME NEW q \in Proc, NEW d \in batch'[q] PROVE Backed(q, d.ev, d.att)'
    <3>1. d \in batch[q]
      BY <1>4, <2>1
    <3> QED BY <1>1, <1>3, <3>1 DEF Hands, Backing, Backed
  <2>2. ASSUME NEW q \in Proc \ {w}, Attempting(q)'
        PROVE  Backed(q, job[q].ev, job[q].att)'
    BY <1>1, <1>3, <1>4, <2>2 DEF Hands, Backing, Backed, Attempting
  <2>3. Backed(w, job[w].ev, job[w].att)'
    BY <1>1, <1>3, <1>4 DEF Hands, Backing, Backed
  <2> QED BY <2>1, <2>2, <2>3 DEF Backing
<1>11. Budget' /\ DeadLettersAgree'
  BY <1>1, <1>3, <1>7 DEF Budget, Abandoned, DeadLettersAgree
<1>12. \A q \in Proc \ {w} : OnCourse(q)'
  BY <1>1, <1>3, <1>4, CourseElsewhere DEF TInv, Orderly
<1>13. OnCourse(w)'
  BY <1>1 DEF OnCourse
<1> QED BY <1>8, <1>9, <1>10, <1>11, <1>12, <1>13 DEF Orderly, Hands

-----------------------------------------------------------------------------
(* Claims given back *)

\* An attempt of p ends with the row r of its event, which nobody holds then.
LEMMA ReleaseOrderly ==
  ASSUME TInv, NEW p \in Proc, Attempting(p), NEW r \in Row,
         row' = [row EXCEPT ![job[p].ev] = r],
         r.att = row[job[p].ev].att,
         r.status \in {"SUCCEEDED", "RETRY_SCHEDULED", "DEAD_LETTERED"},
         r.status = "RETRY_SCHEDULED" => job[p].att < MaxAttempts,
         dead' = IF r.status = "DEAD_LETTERED" THEN dead \cup {job[p].ev}
                                               ELSE dead,
         Goto(p, pc[p], Rest(p)), \A q \in Proc \ {p} : job'[q] = job[q],
         UNCHANGED <<clock, status, now, batch, faults>>
  PROVE  Orderly'
<1>1. TypeOK /\ Hands /\ Budget /\ DeadLettersAgree
  BY DEF TInv, IInv, Orderly
<1>2. PICK e \in Event :
        e = job[p].ev /\ Holds(p, e) /\ Backed(p, e, job[p].att)
  BY AtAttempt
<1>3. row'[e] = r /\ \A d \in Event \ {e} : row'[d] = row[d]
  BY <1>1, <1>2 DEF TypeOK
<1>4. /\ pc'[p] = Rest(p) /\ ~Attempting(p)'
      /\ \A q \in Proc \ {p} : pc'[q] = pc[q]
  BY <1>1 DEF Goto, TypeOK, Rest, Attempting
<1>5. \A q \in Proc \ {p}, d \in Event : Holds(q, d)' <=> Holds(q, d)
  BY <1>4 DEF Holds, Attempting
<1>6. \A d \in Event : Holds(p, d)' <=> Holds(p, d) /\ d # e
  BY <1>1, <1>2, <1>4 DEF Holds, Hands, Apart
<1>7. \A q \in Proc : ~Holds(q, e)'
  BY <1>1, <1>2, <1>5, <1>6 DEF Hands, SingleHolder
<1>8. \A q \in Proc, d \in Event : Holds(q, d)' => Holds(q, d)
  BY <1>5, <1>6
<1>9. Clocked' /\ SingleHolder'
  BY <1>1, <1>8 DEF Hands, Clocked, SingleHolder
<1>10. InHand' /\ Apart'
  BY <1>1, <1>4 DEF Hands, InHand, Apart, Rest, Attempting
<1>11. Backing'
  <2>1. ASSUME NEW q \in Proc, NEW c \in batch'[q] PROVE Backed(q, c.ev, c.att)'
    <3>1. c \in batch[q] /\ c.ev \in Event /\ Backed(q, c.ev, c.att)
      BY <1>1, <2>1 DEF TypeOK, Claim, Hands, Backing
    <3>2. c.ev # e
      BY <1>7, <2>1 DEF Holds
    <3> QED BY <1>3, <3>1, <3>2 DEF Backed
  <2>2. ASSUME NEW q \in Proc, Attempting(q)'
        PROVE  Backed(q, job[q].ev, job[q].att)'
    <3>1. q # p /\ job'[q] = job[q] /\ Attempting(q)
      BY <1>4, <2>2 DEF Attempting
    <3>2. job[q].ev \in Event /\ Backed(q, job[q].ev, job[q].att)
      BY <1>1, <3>1 DEF TypeOK, Attempting, AtWork, Hands, Backing
    <3>3. job[q].ev # e
      BY <1>7, <2>2, <3>1, <3>2 DEF Holds
    <3> QED BY <1>3, <3>1, <3>2, <3>3 DEF Backed
  <2> QED BY <2>1, <2>2 DEF Backing
<1>12. Budget'
  <2> SUFFICES ASSUME NEW d \in Event
               PROVE  /\ row'[d].status \in {"NONE", "PENDING"} => row'[d].att = 0
                      /\ row'[d].status = "RETRY_SCHEDULED" => row'[d].att < MaxAttempts
                      /\ Abandoned(d)' => row'[d].att < MaxAttempts + faults
                      /\ row'[d].att <= MaxAttempts + faults
    BY DEF Budget
  <2>1. CASE d = e
    <3>1. row'[d].att = row[d].att /\ row'[d].att = job[p].att
      BY <1>2, <1>3, <2>1 DEF Backed
    <3> QED BY <1>1, <1>3, <2>1, <3>1 DEF Budget, Abandoned
  <2>2. CASE d # e
    <3>1. Abandoned(d)' => Abandoned(d)
      BY <1>3, <1>5, <1>6, <2>2 DEF Abandoned
    <3> QED BY <1>1, <1>3, <2>2, <3>1 DEF Budget
  <2> QED BY <2>1, <2>2
<1>13. DeadLettersAgree'
  BY <1>1, <1>2, <1>3 DEF DeadLettersAgree, Backed
<1>14. \A q \in Proc \ {p} : OnCourse(q)'
  BY <1>4, CourseElsewhere DEF TInv, Orderly
<1>15. OnCourse(p)'
  BY <1>4, OffCourse
<1> QED BY <1>9, <1>10, <1>11, <1>12, <1>13, <1>14, <1>15 DEF Orderly, Hands

\* What a completion makes of its row.
LEMMA CompletedRow ==
  ASSUME NEW r \in Row, NEW s \in RetryStatuses, NEW n \in Nat
  PROVE  /\ [r EXCEPT !.status = s, !.next = n, !.lease = 0] \in Row
         /\ [r EXCEPT !.status = s, !.next = n, !.lease = 0].status = s
         /\ [r EXCEPT !.status = s, !.next = n, !.lease = 0].att = r.att
BY DEF Row

LEMMA CompleteOrderly ==
  ASSUME TInv, NEW p \in Proc, NEW from, NEW s, NEW n \in Nat,
         from \in {"succeed", "backoff", "bury"},
         s \in {"SUCCEEDED", "RETRY_SCHEDULED", "DEAD_LETTERED"},
         s = "RETRY_SCHEDULED" => from = "backoff",
         Complete(p, from, [row[job[p].ev] EXCEPT !.status = s, !.next = n,
                                                  !.lease = 0]),
         dead' = IF s = "DEAD_LETTERED" THEN dead \cup {job[p].ev} ELSE dead
  PROVE  Orderly'
<1> DEFINE r == [row[job[p].ev] EXCEPT !.status = s, !.next = n, !.lease = 0]
<1>1. Attempting(p) /\ pc[p] = from
  BY DEF Complete, Goto, Attempting
<1>2. job[p].ev \in Event /\ row[job[p].ev] \in Row /\ OnCourse(p)
  BY <1>1, AtAttempt DEF TInv, IInv, TypeOK
<1>3. r \in Row /\ r.status = s /\ r.att = row[job[p].ev].att
  <2>1. PICK old \in Row : old = row[job[p].ev]
    BY <1>2
  <2>2. s \in RetryStatuses
    BY DEF RetryStatuses, Terminal
  <2>3. /\ [old EXCEPT !.status = s, !.next = n, !.lease = 0] \in Row
        /\ [old EXCEPT !.status = s, !.next = n, !.lease = 0].status = s
        /\ [old EXCEPT !.status = s, !.next = n, !.lease = 0].att = old.att
    BY <2>2, CompletedRow, ZenonT(60)
  <2> QED BY <2>1, <2>3
<1>4. s = "RETRY_SCHEDULED" => job[p].att < MaxAttempts
  BY <1>1, <1>2 DEF OnCourse
<1>5. /\ row' = [row EXCEPT ![job[p].ev] = r] /\ Goto(p, pc[p], Rest(p))
      /\ job' = [job EXCEPT ![p] = NoJob]
      /\ UNCHANGED <<clock, status, now, batch, faults>>
  BY <1>1 DEF Complete
<1>6. \A q \in Proc \ {p} : job'[q] = job[q]
  BY <1>5 DEF TInv, IInv, TypeOK
<1> HIDE DEF r
<1> QED BY <1>1, <1>3, <1>4, <1>5, <1>6, ReleaseOrderly

LEMMA SucceedOrderly ==
  ASSUME TInv, NEW p \in Proc, MarkSucceeded(p)
  PROVE  Orderly'
BY CompleteOrderly DEF MarkSucceeded

LEMMA BackoffOrderly ==
  ASSUME TInv, NEW p \in Proc, ScheduleRetry(p)
  PROVE  Orderly'
<1> DEFINE n == now[p] + calculateRetryDelay(job[p].att)
<1>1. n \in Nat
  BY DelayType DEF TInv, IInv, TypeOK, Job
<1>2. Complete(p, "backoff", [row[job[p].ev] EXCEPT !.status = "RETRY_SCHEDULED",
                                                    !.next = n, !.lease = 0])
      /\ dead' = dead
  BY DEF ScheduleRetry
<1> HIDE DEF n
<1> QED BY <1>1, <1>2, CompleteOrderly

LEMMA BuryOrderly ==
  ASSUME TInv, NEW p \in Proc, DeadLetter(p)
  PROVE  Orderly'
BY CompleteOrderly DEF DeadLetter

\* A crash gives everything up, and pays for it with the fault it is.
LEMMA FailOrderly ==
  ASSUME TInv, NEW p \in Proc, Fail(p)
  PROVE  Orderly'
<1>1. TypeOK /\ Hands /\ Budget /\ DeadLettersAgree
  BY DEF TInv, IInv, Orderly
<1>2. UNCHANGED <<clock, status, row, dead, now>> /\ faults' = faults + 1
  BY DEF Fail, tables
<1>3. /\ ~Attempting(p)' /\ batch'[p] = {}
      /\ \A q \in Proc \ {p} : /\ pc'[q] = pc[q] /\ job'[q] = job[q]
                               /\ batch'[q] = batch[q]
  BY <1>1 DEF Fail, Abandon, Attempting, TypeOK
<1>4. /\ \A d \in Event : ~Holds(p, d)'
      /\ \A q \in Proc \ {p}, d \in Event : Holds(q, d)' <=> Holds(q, d)
  BY <1>3 DEF Holds, Attempting
<1>5. Clocked' /\ SingleHolder'
  BY <1>1, <1>2, <1>4 DEF Hands, Clocked, SingleHolder
<1>6. InHand' /\ Apart'
  BY <1>1, <1>3 DEF Hands, InHand, Apart, Attempting
<1>7. Backing'
  <2>1. ASSUME NEW q \in Proc, NEW c \in batch'[q] PROVE Backed(q, c.ev, c.att)'
    <3>1. c \in batch[q]
      BY <1>3, <2>1
    <3> QED BY <1>1, <1>2, <3>1 DEF Hands, Backing, Backed
  <2>2. ASSUME NEW q \in Proc, Attempting(q)'
        PROVE  Backed(q, job[q].ev, job[q].att)'
    <3>1. q # p
      BY <1>3, <2>2
    <3> QED BY <1>1, <1>2, <1>3, <2>2, <3>1 DEF Hands, Backing, Backed, Attempting
  <2> QED BY <2>1, <2>2 DEF Backing
<1>8. Budget' /\ DeadLettersAgree'
  <2>1. \A d \in Event : row[d].att \in Nat /\ faults \in Nat /\ MaxAttempts \in Nat
    BY <1>1, ConstantsAssumption DEF TypeOK, Row
  <2> QED BY <1>1, <1>2, <2>1 DEF Budget, Abandoned, DeadLettersAgree
<1>9. \A q \in Proc \ {p} : OnCourse(q)'
  BY <1>2, <1>3, CourseElsewhere DEF TInv, Orderly
<1>10. OnCourse(p)'
  BY <1>3, OffCourse
<1> QED BY <1>5, <1>6, <1>7, <1>8, <1>9, <1>10 DEF Orderly, Hands

-----------------------------------------------------------------------------
(* The invariant holds *)

LEMMA InitTInv ==
  ASSUME Init
  PROVE  TInv
<1>1. IInv
  BY InitIInv
<1>2. /\ \A p \in Proc : ~Attempting(p) /\ batch[p] = {}
      /\ \A p \in Proc, e \in Event : ~Holds(p, e)
  BY DEF Init, Attempting, Holds
<1>3. Timely /\ InHand /\ Backing /\ Apart /\ SingleHolder
  BY <1>2 DEF Timely, InHand, Backing, Apart, SingleHolder
<1>4. Clocked /\ Budget /\ DeadLettersAgree
  BY ConstantsAssumption DEF Init, Clocked, Budget, Abandoned, DeadLettersAgree
<1>5. \A p \in Proc : OnCourse(p)
  BY DEF Init, OnCourse
<1> QED BY <1>1, <1>3, <1>4, <1>5 DEF TInv, Orderly, Hands

LEMMA TimelyStep ==
  ASSUME TInv, [Next /\ Timely']_vars
  PROVE  TInv'
<1>1. IInv'
  BY NextStep DEF TInv
<1>2. CASE Next /\ Timely'
  <2>1. ASSUME NEW r \in Request, Deliver(r) PROVE Orderly'
    BY <2>1, ReceiveOrderly, StoreOrderly, EnsureOrderly, CheckOrderly,
       BeginOrderly DEF Deliver
  <2>2. ASSUME NEW w \in Worker, RunTick(w) PROVE Orderly'
    BY <2>2, StartOrderly, ClaimOrderly, TakeOrderly, EndOrderly DEF RunTick
  <2>3. ASSUME NEW p \in Proc, Attempt(p) PROVE Orderly'
    BY <2>3, LoadOrderly, MarkOrderly, NoRecheck, ReplayOrderly, ThrowOrderly,
       CommitOrderly, ParkOrderly, SucceedOrderly, BackoffOrderly, BuryOrderly
       DEF Attempt
  <2>4. Orderly'
    BY <1>2, <2>1, <2>2, <2>3, FailOrderly, TickOrderly DEF Next
  <2> QED BY <1>1, <1>2, <2>4 DEF TInv
<1>3. CASE UNCHANGED vars
  <2>1. /\ \A p \in Proc, e \in Event : Holds(p, e)' <=> Holds(p, e)
        /\ \A p \in Proc : Attempting(p)' <=> Attempting(p)
    BY <1>3 DEF vars, Holds, Attempting
  <2>2. Timely'
    BY <1>3, <2>1 DEF TInv, Timely, vars
  <2>3. Clocked' /\ InHand' /\ Apart' /\ SingleHolder' /\ DeadLettersAgree'
    BY <1>3, <2>1 DEF TInv, Orderly, Hands, Clocked, InHand, Apart, SingleHolder,
                      DeadLettersAgree, vars, tables
  <2>4. Backing' /\ Budget'
    BY <1>3, <2>1 DEF TInv, Orderly, Hands, Backing, Backed, Budget, Abandoned,
                      vars
  <2>5. \A p \in Proc : OnCourse(p)'
    BY <1>3, CourseElsewhere DEF TInv, Orderly, vars
  <2> QED BY <1>1, <2>2, <2>3, <2>4, <2>5 DEF TInv, Orderly, Hands
<1> QED BY <1>2, <1>3

\* While nobody works on a claim longer than its lease, each claim is in one
\* pair of hands, with the row and the event as their holder believes them.
THEOREM TimelyInvariance == TimelySpec => []TInv
<1> QED BY InitTInv, TimelyStep, PTL DEF TimelySpec

\* Leases that outlast the work they are taken for give every event a single
\* owner, over any number of deliveries and ticks.
THEOREM EventHasOneHolder == TimelySpec => []SingleHolder
<1>1. TInv => SingleHolder
  BY DEF TInv, Orderly, Hands
<1> QED BY <1>1, TimelyInvariance, PTL

\* Every attempt beyond maxAttempts is paid for by a crash or an error that
\* lost a claim.
THEOREM AttemptsAreBudgeted == TimelySpec => []AttemptBudget
<1>1. TInv => AttemptBudget
  BY DEF TInv, Orderly, Budget, AttemptBudget
<1> QED BY <1>1, TimelyInvariance, PTL

\* The dead-letter table holds exactly the events whose row was given up: no
\* late completion takes a row out of DEAD_LETTERED.
THEOREM DeadLettersAreTheRows == TimelySpec => []DeadLettersAgree
<1>1. TInv => DeadLettersAgree
  BY DEF TInv, Orderly
<1> QED BY <1>1, TimelyInvariance, PTL

-----------------------------------------------------------------------------
(* The protocol implements EventLifecycle *)

\* The phase of an event depends on three facts of its tables.
LEMMA PhaseKept ==
  ASSUME \A e \in Event :
           /\ status'[e] = "ABSENT" <=> status[e] = "ABSENT"
           /\ status'[e] = "PROCESSED" <=> status[e] = "PROCESSED"
           /\ row'[e].status = "DEAD_LETTERED" <=> row[e].status = "DEAD_LETTERED"
  PROVE  phase' = phase
BY DEF phase

LEMMA StoreImplements ==
  ASSUME TInv, NEW r \in Request, Store(r)
  PROVE  (\E e \in Event : Lifecycle!Store(e)) \/ UNCHANGED <<phase, changes>>
<1>1. PICK e \in Event : e = job[r].ev
  BY DEF TInv, IInv, TypeOK, Store, Goto, AtWork, Proc
<1>2. row' = row /\ changes' = changes
  BY DEF Store
<1>3. /\ status'[e] = IF status[e] = "ABSENT" THEN "RECEIVED" ELSE status[e]
      /\ \A d \in Event \ {e} : status'[d] = status[d]
  BY <1>1 DEF Store, TInv, IInv, TypeOK
<1>4. CASE status[e] = "ABSENT"
  <2>1. row[e].status = "NONE"
    BY <1>4 DEF TInv, IInv, Stored
  <2>2. phase' = [phase EXCEPT ![e] = "open"]
    BY <1>2, <1>3, <1>4, <2>1 DEF phase
  <2>3. phase[e] = "absent"
    BY <1>4 DEF phase
  <2> QED BY <1>2, <2>2, <2>3 DEF Lifecycle!Store, Lifecycle!Move
<1>5. CASE status[e] # "ABSENT"
  BY <1>2, <1>3, <1>5, PhaseKept
<1> QED BY <1>4, <1>5

LEMMA CommitImplements ==
  ASSUME TInv, NEW p \in Proc, Commit(p)
  PROVE  \E e \in Event : Lifecycle!Apply(e)
<1>1. PICK e \in Event : e = job[p].ev
  BY CommitWrites
<1>2. status[e] = "PROCESSING" /\ row[e].status = "PROCESSING"
  BY <1>1, CommitWrites, AtAttempt DEF Backed
<1>3. /\ row' = row /\ status'[e] = "PROCESSED"
      /\ \A d \in Event \ {e} : status'[d] = status[d]
  BY <1>1, CommitWrites DEF TInv, IInv, TypeOK
<1>4. phase[e] = "open" /\ phase' = [phase EXCEPT ![e] = "applied"]
  BY <1>2, <1>3 DEF phase
<1>5. \E moved \in {0, 1} : changes' = [changes EXCEPT ![e] = @ + moved]
  <2>1. CASE job[p].verdict = "ACCEPTED"
    BY <1>1, <2>1, CommitWrites
  <2>2. CASE job[p].verdict # "ACCEPTED"
    <3>1. changes' = changes
      BY <2>2, CommitWrites DEF TInv, IInv, TypeOK
    <3>2. changes[e] \in Nat /\ changes = [changes EXCEPT ![e] = @ + 0]
      BY DEF TInv, IInv, TypeOK
    <3> QED BY <3>1, <3>2
  <2> QED BY <2>1, <2>2
<1> QED BY <1>4, <1>5 DEF Lifecycle!Apply, Lifecycle!Move

\* What a completion writes, seen from outside.
LEMMA CompletionSeen ==
  ASSUME TInv, NEW p \in Proc, NEW from \in {"succeed", "backoff", "bury"},
         NEW s \in RetryStatuses, NEW n \in Nat,
         Complete(p, from, [row[job[p].ev] EXCEPT !.status = s, !.next = n,
                                                  !.lease = 0])
  PROVE  /\ job[p].ev \in Event /\ status' = status /\ changes' = changes
         /\ row[job[p].ev].status = "PROCESSING"
         /\ row'[job[p].ev].status = s
         /\ \A d \in Event \ {job[p].ev} : row'[d] = row[d]
         /\ status[job[p].ev] # "ABSENT"
         /\ from = "bury" => status[job[p].ev] # "PROCESSED"
<1>1. Attempting(p) /\ pc[p] = from
  BY DEF Complete, Goto, Attempting
<1>2. PICK old \in Row : old = row[job[p].ev]
  BY <1>1, AtAttempt DEF TInv, IInv, TypeOK
<1>3. /\ [old EXCEPT !.status = s, !.next = n, !.lease = 0] \in Row
      /\ [old EXCEPT !.status = s, !.next = n, !.lease = 0].status = s
      /\ [old EXCEPT !.status = s, !.next = n, !.lease = 0].att = old.att
  BY CompletedRow, ZenonT(60)
<1>4. job[p].ev \in Event
  BY <1>1, AtAttempt
<1>5. /\ row'[job[p].ev].status = s
      /\ \A d \in Event \ {job[p].ev} : row'[d] = row[d]
  BY <1>2, <1>3, <1>4 DEF Complete, TInv, IInv, TypeOK
<1> QED BY <1>1, <1>4, <1>5, AtAttempt DEF Complete, Backed, OnCourse, Statuses

\* A row that succeeds or is scheduled again was not a dead letter and is none.
LEMMA SettlingUnseen ==
  ASSUME TInv, NEW p \in Proc, MarkSucceeded(p) \/ ScheduleRetry(p)
  PROVE  UNCHANGED <<phase, changes>>
<1>1. \E s \in {"SUCCEEDED", "RETRY_SCHEDULED"} :
        /\ job[p].ev \in Event /\ status' = status /\ changes' = changes
        /\ row[job[p].ev].status = "PROCESSING"
        /\ row'[job[p].ev].status = s
        /\ \A d \in Event \ {job[p].ev} : row'[d] = row[d]
  <2>1. CASE MarkSucceeded(p)
    BY <2>1, CompletionSeen, ZenonT(60) DEF MarkSucceeded, RetryStatuses, Terminal
  <2>2. CASE ScheduleRetry(p)
    <3> DEFINE n == now[p] + calculateRetryDelay(job[p].att)
    <3>1. n \in Nat /\ "RETRY_SCHEDULED" \in RetryStatuses
      BY DelayType DEF TInv, IInv, TypeOK, Job, RetryStatuses
    <3>2. Complete(p, "backoff", [row[job[p].ev] EXCEPT !.status = "RETRY_SCHEDULED",
                                                        !.next = n, !.lease = 0])
      BY <2>2 DEF ScheduleRetry
    <3> HIDE DEF n
    <3>3. /\ job[p].ev \in Event /\ status' = status /\ changes' = changes
          /\ row[job[p].ev].status = "PROCESSING"
          /\ row'[job[p].ev].status = "RETRY_SCHEDULED"
          /\ \A d \in Event \ {job[p].ev} : row'[d] = row[d]
      BY <3>1, <3>2, CompletionSeen
    <3> QED BY <3>3
  <2> QED BY <2>1, <2>2
<1> QED BY <1>1, PhaseKept

LEMMA BuryImplements ==
  ASSUME TInv, NEW p \in Proc, DeadLetter(p)
  PROVE  \E e \in Event : Lifecycle!Park(e)
<1>1. /\ job[p].ev \in Event /\ status' = status /\ changes' = changes
      /\ row[job[p].ev].status = "PROCESSING"
      /\ row'[job[p].ev].status = "DEAD_LETTERED"
      /\ \A d \in Event \ {job[p].ev} : row'[d] = row[d]
      /\ status[job[p].ev] \notin {"ABSENT", "PROCESSED"}
  BY CompletionSeen DEF DeadLetter, RetryStatuses, Terminal
<1>2. PICK e \in Event : e = job[p].ev
  BY <1>1
<1>3. phase[e] = "open" /\ phase' = [phase EXCEPT ![e] = "parked"]
  BY <1>1, <1>2 DEF phase
<1> QED BY <1>1, <1>3 DEF Lifecycle!Park, Lifecycle!Move

\* A row that is claimed, or comes to be, is not a dead letter before or after.
LEMMA ClaimUnseen ==
  ASSUME TInv,
         \/ \E r \in Request : EnsurePending(r) \/ BeginAttempt(r)
         \/ \E w \in Worker : ClaimDue(w)
  PROVE  UNCHANGED <<phase, changes>>
<1>1. status' = status /\ changes' = changes
  BY DEF EnsurePending, BeginAttempt, ClaimDue
<1>2. \A e \in Event :
        row'[e].status = "DEAD_LETTERED" <=> row[e].status = "DEAD_LETTERED"
  <2>1. ASSUME NEW r \in Request, EnsurePending(r), NEW e \in Event
        PROVE  row'[e].status = "DEAD_LETTERED" <=> row[e].status = "DEAD_LETTERED"
    BY <2>1 DEF EnsurePending, TInv, IInv, TypeOK
  <2>2. ASSUME NEW p \in Proc, NEW e \in Event, Due(row[e], now[p]),
               row'[e] = Claimed(row[e], now[p])
        PROVE  row'[e].status = "DEAD_LETTERED" <=> row[e].status = "DEAD_LETTERED"
    <3>1. row[e] \in Row /\ now[p] \in Nat
      BY DEF TInv, IInv, TypeOK
    <3>2. row'[e].status = "PROCESSING"
      BY <2>2, <3>1, ClaimedRow
    <3> QED BY <2>2, <3>2 DEF Due
  <2>3. ASSUME NEW r \in Request, BeginAttempt(r), NEW e \in Event
        PROVE  \/ row'[e] = row[e]
               \/ Due(row[e], now[r]) /\ row'[e] = Claimed(row[e], now[r])
    BY <2>3 DEF BeginAttempt, TInv, IInv, TypeOK
  <2>4. ASSUME NEW w \in Worker, ClaimDue(w), NEW e \in Event
        PROVE  \/ row'[e] = row[e]
               \/ Due(row[e], now[w]) /\ row'[e] = Claimed(row[e], now[w])
    BY <2>4 DEF ClaimDue, Claimable
  <2> QED BY <2>1, <2>2, <2>3, <2>4 DEF Proc
<1> QED BY <1>1, <1>2, PhaseKept

LEMMA NextImplements ==
  ASSUME TInv, [Next /\ Timely']_vars
  PROVE  [Lifecycle!Next]_<<phase, changes>>
<1>1. ASSUME NEW r \in Request, Deliver(r) PROVE [Lifecycle!Next]_<<phase, changes>>
  <2>1. CASE Store(r)
    BY <2>1, StoreImplements DEF Lifecycle!Next
  <2>2. CASE EnsurePending(r) \/ BeginAttempt(r)
    BY <2>2, ClaimUnseen
  <2>3. CASE Receive(r) \/ CheckPending(r)
    BY <2>3, PhaseKept DEF Receive, CheckPending, tables
  <2> QED BY <1>1, <2>1, <2>2, <2>3 DEF Deliver
<1>2. ASSUME NEW w \in Worker, RunTick(w) PROVE UNCHANGED <<phase, changes>>
  <2>1. CASE ClaimDue(w)
    BY <2>1, ClaimUnseen
  <2>2. CASE StartTick(w) \/ TakeRecord(w) \/ EndTick(w)
    BY <2>2, PhaseKept DEF StartTick, TakeRecord, EndTick, tables
  <2> QED BY <1>2, <2>1, <2>2 DEF RunTick
<1>3. ASSUME NEW p \in Proc, Attempt(p) PROVE [Lifecycle!Next]_<<phase, changes>>
  <2>1. CASE LoadEvent(p) \/ ReplayLog(p) \/ AttemptThrows(p)
    BY <2>1, PhaseKept DEF LoadEvent, ReplayLog, AttemptThrows, tables
  <2>2. CASE MarkProcessing(p)
    <3>1. \A e \in Event :
            \/ status'[e] = status[e]
            \/ status[e] = "RECEIVED" /\ status'[e] = "PROCESSING"
      <4>1. status' = [status EXCEPT ![job[p].ev] =
                         IF @ = "RECEIVED" THEN "PROCESSING" ELSE @]
        BY <2>2 DEF MarkProcessing
      <4>2. status \in [Event -> Statuses \cup {"ABSENT"}]
        BY DEF TInv, IInv, TypeOK
      <4> QED BY <4>1, <4>2
    <3>2. row' = row /\ changes' = changes
      BY <2>2 DEF MarkProcessing
    <3> QED BY <3>1, <3>2, PhaseKept
  <2>3. CASE Park(p)
    <3>1. \A e \in Event :
            \/ status'[e] = status[e]
            \/ status[e] = "PROCESSING" /\ status'[e] \in {"CONFLICT", "REJECTED"}
      BY <2>3, ParkWrites DEF TInv, IInv, TypeOK
    <3>2. row' = row /\ changes' = changes
      BY <2>3, ParkWrites
    <3> QED BY <3>1, <3>2, PhaseKept
  <2>4. CASE Commit(p)
    BY <2>4, CommitImplements DEF Lifecycle!Next
  <2>5. CASE DeadLetter(p)
    BY <2>5, BuryImplements DEF Lifecycle!Next
  <2>6. CASE MarkSucceeded(p) \/ ScheduleRetry(p)
    BY <2>6, SettlingUnseen
  <2> QED BY <1>3, <2>1, <2>2, <2>3, <2>4, <2>5, <2>6, NoRecheck DEF Attempt
<1>4. CASE Tick \/ UNCHANGED vars \/ \E p \in Proc : Fail(p)
  <2>1. status' = status /\ row' = row /\ changes' = changes
    BY <1>4 DEF Tick, vars, Fail, tables
  <2> QED BY <2>1, PhaseKept
<1> QED BY <1>1, <1>2, <1>3, <1>4 DEF Next

LEMMA InitImplements ==
  ASSUME Init
  PROVE  Lifecycle!Init
BY DEF Init, Lifecycle!Init, phase

\* Deliveries, leases, attempts, retries and crashes do not show: an event is
\* stored, then applied with one effect at most or parked, and stays so.
THEOREM LifecycleImplemented == TimelySpec => ImplementsLifecycle
<1> QED BY InitImplements, NextImplements, TimelyInvariance, PTL
        DEF TimelySpec, ImplementsLifecycle, Lifecycle!Spec, Lifecycle!vars

-----------------------------------------------------------------------------
(* What the implementation inherits *)

LEMMA LifecycleStep ==
  ASSUME Lifecycle!TypeOK, Lifecycle!AtMostOneEffect,
         [Lifecycle!Next]_<<phase, changes>>
  PROVE  Lifecycle!TypeOK' /\ Lifecycle!AtMostOneEffect'
<1> USE DEF Lifecycle!TypeOK, Lifecycle!AtMostOneEffect, Lifecycle!Phases
<1>1. CASE UNCHANGED <<phase, changes>>
  BY <1>1
<1>2. ASSUME NEW e \in Event, Lifecycle!Store(e) \/ Lifecycle!Park(e)
      PROVE  Lifecycle!TypeOK' /\ Lifecycle!AtMostOneEffect'
  BY <1>2 DEF Lifecycle!Store, Lifecycle!Park, Lifecycle!Move
<1>3. ASSUME NEW e \in Event, Lifecycle!Apply(e)
      PROVE  Lifecycle!TypeOK' /\ Lifecycle!AtMostOneEffect'
  <2>1. phase[e] = "open" /\ phase' = [phase EXCEPT ![e] = "applied"]
    BY <1>3 DEF Lifecycle!Apply, Lifecycle!Move
  <2>2. changes[e] = 0
    BY <2>1
  <2>3. PICK moved \in {0, 1} : changes' = [changes EXCEPT ![e] = @ + moved]
    BY <1>3 DEF Lifecycle!Apply
  <2>4. changes'[e] \in {0, 1} /\ \A d \in Event \ {e} : changes'[d] = changes[d]
    BY <2>2, <2>3
  <2>5. phase'[e] = "applied" /\ \A d \in Event \ {e} : phase'[d] = phase[d]
    BY <2>1
  <2>6. Lifecycle!TypeOK'
    BY <2>1, <2>2, <2>3
  <2> QED BY <2>4, <2>5, <2>6
<1> QED BY <1>1, <1>2, <1>3 DEF Lifecycle!Next

\* However often an event is delivered, ticked, retried or given up in the
\* middle, it causes one payment transition at most, and none unless it is
\* applied.
THEOREM OneEffectPerEvent == TimelySpec => []Lifecycle!AtMostOneEffect
<1>1. Lifecycle!Init => Lifecycle!TypeOK /\ Lifecycle!AtMostOneEffect
  BY DEF Lifecycle!Init, Lifecycle!TypeOK, Lifecycle!AtMostOneEffect, Lifecycle!Phases
<1>2. Lifecycle!Spec => []Lifecycle!AtMostOneEffect
  BY <1>1, LifecycleStep, PTL DEF Lifecycle!Spec, Lifecycle!vars
<1> QED BY <1>2, LifecycleImplemented, PTL DEF ImplementsLifecycle
=============================================================================
