--------------------------- MODULE ExceptionsProofs ---------------------------
(***************************************************************************)
(* What the exceptions table and its audit rows keep true for any number   *)
(* of recorders, operators and subjects: their types, that no detection is *)
(* audited twice, that a record taken up is never OPEN again, and that the *)
(* audit misses no more than it lost.                                      *)
(***************************************************************************)
EXTENDS Exceptions, FiniteSetTheorems, TLAPS

-----------------------------------------------------------------------------
(* Facts about detection and precedence *)

\* The codes, one by one.
LEMMA CodesAre ==
  ExceptionCodes =
    {"INVALID_SIGNATURE", "MALFORMED_WEBHOOK", "UNSUPPORTED_EVENT",
     "CONFLICTING_EVENT", "INVALID_STATE_TRANSITION", "PROCESSING_FAILURE",
     "RETRY_EXHAUSTED", "OUT_OF_ORDER_EVENT", "MISSING_EVENT",
     "DUPLICATE_EVENT"}
<1>1. 1..10 = {1, 2, 3, 4, 5, 6, 7, 8, 9, 10}
  OBVIOUS
<1> QED BY <1>1 DEF ExceptionCodes, EXCEPTION_PRECEDENCE

\* Every fact that is handed over is of a known kind.
LEMMA FailureKinds ==
  ASSUME NEW code, NEW f \in factsFromFailureCode(code)
  PROVE  f.kind \in ExceptionCodes
BY CodesAre DEF factsFromFailureCode, factsFromVerificationStatus,
   factsFromWebhookErrorCode, fact

LEMMA RetryKinds ==
  ASSUME NEW c, NEW f \in factsFromRetryOutcome(c)
  PROVE  f.kind \in ExceptionCodes
BY CodesAre, FailureKinds DEF factsFromRetryOutcome, fact, AttemptStatus

LEMMA DecisionFactKinds ==
  ASSUME NEW met, NEW f \in factsFromReplayDecision(met)
  PROVE  f.kind \in ExceptionCodes
<1>1. CASE Decision(met) = "DELAYED"
  BY <1>1, CodesAre DEF factsFromReplayDecision
<1>2. CASE Decision(met) = "REJECTED"
  BY <1>2, CodesAre DEF factsFromReplayDecision, fact
<1>3. CASE Decision(met) = "CONFLICT"
  BY <1>3, CodesAre DEF factsFromReplayDecision, fact
<1>4. CASE Decision(met) \notin {"DELAYED", "REJECTED", "CONFLICT"}
  BY <1>4 DEF factsFromReplayDecision
<1> QED BY <1>1, <1>2, <1>3, <1>4

LEMMA FactKinds ==
  ASSUME NEW c, c.by \in {"verifier", "adapter", "store", "attempt"},
         NEW f \in Facts(c)
  PROVE  f.kind \in ExceptionCodes
<1>1. CASE c.by = "verifier"
  BY <1>1, CodesAre DEF Facts, factsFromVerificationStatus, fact
<1>2. CASE c.by = "adapter"
  BY <1>2, CodesAre DEF Facts, factsFromWebhookErrorCode, fact
<1>3. CASE c.by = "store"
  BY <1>3, CodesAre DEF Facts, factsFromStoreOutcome, fact
<1>4. CASE c.by = "attempt"
  <2>1. Facts(c) = (IF c.met = NoMeeting THEN {}
                    ELSE factsFromReplayDecision(c.met))
                     \cup factsFromRetryOutcome(c)
    BY <1>4 DEF Facts
  <2> QED BY <2>1, RetryKinds, DecisionFactKinds
<1> QED BY <1>1, <1>2, <1>3, <1>4

\* Whatever happened to a subject, its drafts carry known codes.
LEMMA DraftsAreCodes ==
  ASSUME NEW s \in Subject, NEW c \in CauseOf[s]
  PROVE  detectException(Facts(c)) \in SUBSET ExceptionCodes
<1>1. c.by \in {"verifier", "adapter", "store", "attempt"}
  BY ExceptionsAssumption
<1>2. \A f \in Facts(c) : f.kind \in ExceptionCodes
  BY <1>1, FactKinds
<1>3. \A f \in expandFacts(Facts(c)) : f.kind \in ExceptionCodes
  <2> SUFFICES ASSUME NEW f \in expandFacts(Facts(c)), f \notin Facts(c)
               PROVE  f.kind \in ExceptionCodes
    BY <1>2
  <2>1. f.kind = "MISSING_EVENT"
    BY DEF expandFacts
  <2> QED BY <2>1, CodesAre
<1> QED BY <1>3 DEF detectException

LEMMA RankIsIndex ==
  ASSUME NEW c \in ExceptionCodes
  PROVE  exceptionPrecedenceRank(c) \in 1..10
<1>1. \E i \in 1..10 : EXCEPTION_PRECEDENCE[i] = c
  BY DEF ExceptionCodes
<1> QED BY <1>1 DEF exceptionPrecedenceRank

LEMMA LeastIndex ==
  ASSUME NEW T, T \subseteq 1..10, T # {}
  PROVE  \E i \in T : \A j \in T : i <= j
<1> SUFFICES ASSUME \A i \in T : \E j \in T : j < i
             PROVE  FALSE
  OBVIOUS
<1>1. \A i \in T : i > 2
  OBVIOUS
<1>2. \A i \in T : i > 4
  BY <1>1
<1>3. \A i \in T : i > 6
  BY <1>2
<1>4. \A i \in T : i > 8
  BY <1>3
<1>5. \A i \in T : i > 10
  BY <1>4
<1>6. PICK i \in T : TRUE
  OBVIOUS
<1> QED BY <1>5, <1>6

\* The draft saved next is one that is left.
LEMMA FirstDraftIsDraft ==
  ASSUME NEW codes \in SUBSET ExceptionCodes, codes # {}
  PROVE  FirstDraft(codes) \in codes
<1> DEFINE T == {exceptionPrecedenceRank(c) : c \in codes}
<1>1. T \subseteq 1..10 /\ T # {}
  BY RankIsIndex
<1>2. PICK i \in T : \A j \in T : i <= j
  BY <1>1, LeastIndex
<1>3. PICK c \in codes : exceptionPrecedenceRank(c) = i
  BY <1>2
<1>4. \A d \in codes : exceptionPrecedenceRank(c) <= exceptionPrecedenceRank(d)
  BY <1>2, <1>3
<1> QED BY <1>3, <1>4 DEF FirstDraft

LEMMA CurrentIsIdentity ==
  ASSUME NEW p \in Recorder, TypeOK, drafts[p] # {}
  PROVE  Current(p) \in Identity
<1>1. drafts[p] \in SUBSET ExceptionCodes /\ subject[p] \in Subject
  BY DEF TypeOK
<1>2. FirstDraft(drafts[p]) \in ExceptionCodes
  BY <1>1, FirstDraftIsDraft
<1> QED BY <1>1, <1>2 DEF Current, Identity

-----------------------------------------------------------------------------
(* Types *)

LEMMA InitTyped == Init => TypeOK
<1> SUFFICES ASSUME Init
             PROVE  TypeOK
  OBVIOUS
<1>1. 0 \in 0..MaxFaults
  BY ExceptionsAssumption
<1> QED BY <1>1, ExceptionsAssumption
        DEF Init, TypeOK, Proc, NoOrder, ExceptionStatuses

\* A move the table of statuses allows never leads to OPEN from another status.
LEMMA ForwardLeavesOpen ==
  ASSUME NEW from \in ExceptionStatuses, NEW to \in ExceptionStatuses,
         canTransitionExceptionStatus(from, to), from # to
  PROVE  to # "OPEN"
BY DEF canTransitionExceptionStatus, FORWARD, ExceptionStatuses

LEMMA RecorderTyped ==
  ASSUME TypeOK, NEW p \in Recorder,
         \/ Detect(p) \/ Create(p) \/ AppendDetected(p)
         \/ Finish(p) \/ Abandon(p)
  PROVE  TypeOK'
<1> USE ExceptionsAssumption
<1>0. p \notin Operator /\ p \in Proc
  BY DEF Proc
<1>1. CASE Detect(p)
  <2> PICK s \in Subject : \E c \in CauseOf[s] :
          /\ subject' = [subject EXCEPT ![p] = s]
          /\ drafts' = [drafts EXCEPT ![p] = detectException(Facts(c))]
    BY <1>1 DEF Detect
  <2>1. PICK c \in CauseOf[s] :
          /\ subject' = [subject EXCEPT ![p] = s]
          /\ drafts' = [drafts EXCEPT ![p] = detectException(Facts(c))]
    OBVIOUS
  <2>2. detectException(Facts(c)) \in SUBSET ExceptionCodes
    BY DraftsAreCodes
  <2>3. /\ pc[p] = "idle"
        /\ pc' = [pc EXCEPT ![p] = "create"]
        /\ UNCHANGED <<tables, order, faults>>
    BY <1>1 DEF Detect, Goto
  <2> QED BY <1>0, <2>1, <2>2, <2>3 DEF TypeOK, tables
<1>2. CASE Create(p)
  <2>1. Current(p) \in Identity
    BY <1>2, CurrentIsIdentity DEF Create
  <2>2. CASE status[Current(p)] = "NONE"
    <3>1. /\ pc[p] = "create"
          /\ drafts[p] # {}
          /\ status' = [status EXCEPT ![Current(p)] = "OPEN"]
          /\ pc' = [pc EXCEPT ![p] = "append"]
          /\ UNCHANGED <<subject, drafts, noted, changed, order, faults>>
      BY <1>2, <2>2 DEF Create, recorders
    <3>2. status' \in [Identity -> ExceptionStatuses \cup {"NONE"}]
      BY <2>1, <3>1 DEF TypeOK, ExceptionStatuses
    <3>3. \A id \in Identity : status[id] # "NONE" => status'[id] # "NONE"
      BY <2>1, <3>1 DEF TypeOK
    <3>4. pc' \in [Proc -> {"idle", "create", "append", "update", "tell"}]
      BY <1>0, <3>1 DEF TypeOK
    <3>5. \A q \in Recorder :
            /\ pc'[q] \in {"idle", "create", "append"}
            /\ pc'[q] = "append" => drafts'[q] # {}
            /\ pc'[q] = "idle" => drafts'[q] = {}
      BY <1>0, <3>1 DEF TypeOK, Proc
    <3>6. \A o \in Operator : pc'[o] = pc[o]
      BY <1>0, <3>1 DEF TypeOK, Proc
    <3> QED BY <3>1, <3>2, <3>3, <3>4, <3>5, <3>6 DEF TypeOK
  <2>3. CASE status[Current(p)] # "NONE"
    BY <1>0, <1>2, <2>1, <2>3 DEF Create, Advance, TypeOK
  <2> QED BY <2>2, <2>3
<1>3. CASE AppendDetected(p)
  <2>1. Current(p) \in Identity
    BY <1>3, CurrentIsIdentity DEF AppendDetected, TypeOK
  <2>2. noted' \in [Identity -> Nat]
    BY <1>3, <2>1 DEF AppendDetected, TypeOK
  <2>3. /\ pc' = [pc EXCEPT ![p] = "create"]
        /\ drafts' = [drafts EXCEPT ![p] = @ \ {Current(p)[1]}]
        /\ UNCHANGED <<status, changed, subject, order, faults>>
    BY <1>3 DEF AppendDetected, Advance
  <2>4. /\ pc' \in [Proc -> {"idle", "create", "append", "update", "tell"}]
        /\ drafts' \in [Recorder -> SUBSET ExceptionCodes]
    BY <1>0, <2>3 DEF TypeOK
  <2>5. \A q \in Recorder :
          /\ pc'[q] \in {"idle", "create", "append"}
          /\ pc'[q] = "append" => drafts'[q] # {}
          /\ pc'[q] = "idle" => drafts'[q] = {}
    BY <1>0, <2>3 DEF TypeOK, Proc
  <2>6. \A o \in Operator : pc'[o] = pc[o]
    BY <1>0, <2>3 DEF TypeOK, Proc
  <2> QED BY <2>2, <2>3, <2>4, <2>5, <2>6 DEF TypeOK
<1>4. CASE Finish(p)
  BY <1>0, <1>4 DEF Finish, Goto, TypeOK, tables
<1>5. CASE Abandon(p)
  BY <1>0, <1>5 DEF Abandon, TypeOK, tables
<1> QED BY <1>1, <1>2, <1>3, <1>4, <1>5

LEMMA OperatorTyped ==
  ASSUME TypeOK, NEW o \in Operator,
         FindCurrent(o) \/ UpdateStatus(o) \/ AppendChanged(o) \/ GiveUp(o)
  PROVE  TypeOK'
<1> USE ExceptionsAssumption
<1>0. o \notin Recorder /\ o \in Proc
  BY DEF Proc
<1>1. CASE FindCurrent(o)
  <2>1. PICK id \in Identity, to \in ExceptionStatuses :
          /\ status[id] # "NONE"
          /\ Goto(o, "idle", IF status[id] = to THEN "tell" ELSE "update")
          /\ order' = [order EXCEPT ![o] = [id |-> id, to |-> to]]
          /\ UNCHANGED <<tables, recorders, faults>>
    BY <1>1 DEF FindCurrent
  <2> QED BY <1>0, <2>1 DEF TypeOK, Goto, tables, recorders
<1>2. CASE UpdateStatus(o)
  BY <1>0, <1>2 DEF UpdateStatus, Goto, TypeOK, recorders, ExceptionStatuses
<1>3. CASE AppendChanged(o)
  BY <1>0, <1>3 DEF AppendChanged, Goto, TypeOK, recorders, NoOrder
<1>4. CASE GiveUp(o)
  BY <1>0, <1>4 DEF GiveUp, TypeOK, tables, recorders, NoOrder
<1> QED BY <1>1, <1>2, <1>3, <1>4

LEMMA NextTyped == TypeOK /\ [Next]_vars => TypeOK'
<1> SUFFICES ASSUME TypeOK, [Next]_vars
             PROVE  TypeOK'
  OBVIOUS
<1>1. CASE UNCHANGED vars
  BY <1>1 DEF vars, TypeOK, Current
<1>2. CASE Next
  BY <1>2, RecorderTyped, OperatorTyped DEF Next
<1> QED BY <1>1, <1>2

\* The table, its audit rows and the locals of recorders and operators keep
\* their types: an operator that acts has a row to act on.
THEOREM TypeCorrect == Spec => []TypeOK
<1>1. Init => TypeOK
  BY InitTyped
<1>2. TypeOK /\ [Next]_vars => TypeOK'
  BY NextTyped
<1> QED BY <1>1, <1>2, PTL DEF Spec

-----------------------------------------------------------------------------
(* No detection is audited twice *)

\* DetectedOnce without cardinalities: who inserted a row is the only recorder
\* about to audit it, and nobody has audited it before.
OneAuditor ==
  /\ \A id \in Identity :
       noted[id] # 0 => noted[id] = 1 /\ status[id] # "NONE"
  /\ \A p \in Recorder :
       pc[p] = "append" => /\ noted[Current(p)] = 0
                           /\ status[Current(p)] # "NONE"
  /\ \A p, q \in Recorder :
       pc[p] = "append" /\ pc[q] = "append" /\ Current(p) = Current(q) => p = q

LEMMA OneAuditorSuffices == TypeOK /\ OneAuditor => DetectedOnce
<1> DEFINE pending(id) == {p \in Recorder : pc[p] = "append" /\ Current(p) = id}
<1> SUFFICES ASSUME TypeOK, OneAuditor, NEW id \in Identity
             PROVE  /\ noted[id] + Cardinality(pending(id)) <= 1
                    /\ noted[id] + Cardinality(pending(id)) = 1
                         => status[id] # "NONE"
  BY DEF DetectedOnce
<1>1. CASE pending(id) = {}
  <2>1. Cardinality(pending(id)) = 0
    BY <1>1, FS_EmptySet
  <2>2. noted[id] \in {0, 1} /\ (noted[id] = 1 => status[id] # "NONE")
    BY DEF OneAuditor
  <2> HIDE DEF pending
  <2> QED BY <2>1, <2>2
<1>2. CASE pending(id) # {}
  <2>1. PICK p \in pending(id) : TRUE
    BY <1>2
  <2>2. pending(id) = {p}
    BY <2>1 DEF OneAuditor
  <2>3. Cardinality(pending(id)) = 1
    BY <2>2, FS_Singleton
  <2>4. noted[id] = 0 /\ status[id] # "NONE"
    BY <2>1 DEF OneAuditor
  <2> HIDE DEF pending
  <2> QED BY <2>3, <2>4
<1> QED BY <1>1, <1>2

LEMMA InitOneAuditor == Init => OneAuditor
BY DEF Init, OneAuditor, Proc

\* What a step does not touch keeps its place.
LEMMA CurrentStays ==
  ASSUME NEW q \in Recorder, drafts'[q] = drafts[q], subject'[q] = subject[q]
  PROVE  Current(q)' = Current(q)
BY DEF Current

LEMMA RecorderOneAuditor ==
  ASSUME TypeOK, OneAuditor, NEW p \in Recorder,
         \/ Detect(p) \/ Create(p) \/ AppendDetected(p)
         \/ Finish(p) \/ Abandon(p)
  PROVE  OneAuditor'
<1>0. p \in Proc /\ Recorder \subseteq Proc
  BY DEF Proc
<1>a. \A q \in Recorder \ {p} :
        pc'[q] = pc[q] /\ drafts'[q] = drafts[q] /\ subject'[q] = subject[q]
  BY <1>0 DEF TypeOK, Detect, Goto, Create, Advance, recorders, AppendDetected,
     Finish, Abandon, tables
<1>b. \A q \in Recorder \ {p} : Current(q)' = Current(q)
  BY <1>a, CurrentStays
<1>c. \A q \in Recorder : pc[q] = "append" => Current(q) \in Identity
  BY CurrentIsIdentity DEF TypeOK
<1>1. CASE pc'[p] # "append" /\ UNCHANGED <<status, noted>>
  BY <1>1, <1>a, <1>b DEF OneAuditor
<1>2. CASE Create(p) /\ status[Current(p)] = "NONE"
  <2>1. Current(p) \in Identity
    BY <1>2, CurrentIsIdentity DEF Create
  <2>2. /\ status' = [status EXCEPT ![Current(p)] = "OPEN"]
        /\ noted' = noted
        /\ UNCHANGED <<subject, drafts>>
    BY <1>2 DEF Create, recorders
  <2>3. Current(p)' = Current(p)
    BY <2>2, CurrentStays
  <2>4. /\ status'[Current(p)] # "NONE"
        /\ \A id \in Identity : status[id] # "NONE" => status'[id] # "NONE"
    BY <2>1, <2>2 DEF TypeOK
  <2>5. noted[Current(p)] = 0
    BY <1>2, <2>1 DEF OneAuditor
  <2>6. \A q \in Recorder : pc[q] = "append" => Current(q) # Current(p)
    BY <1>2 DEF OneAuditor
  <2> HIDE DEF Current
  <2>7. \A q \in Recorder \ {p} :
          pc'[q] = "append" => /\ noted'[Current(q)'] = 0
                               /\ status'[Current(q)'] # "NONE"
                               /\ Current(q)' # Current(p)'
    BY <1>a, <1>b, <1>c, <2>2, <2>3, <2>4, <2>6 DEF OneAuditor
  <2>8. \A id \in Identity :
          noted'[id] # 0 => noted'[id] = 1 /\ status'[id] # "NONE"
    BY <2>2, <2>4 DEF OneAuditor
  <2>9. \A q, r \in Recorder :
          pc'[q] = "append" /\ pc'[r] = "append" /\ Current(q)' = Current(r)'
            => q = r
    BY <1>a, <1>b, <2>7 DEF OneAuditor
  <2>10. \A q \in Recorder :
           pc'[q] = "append" => /\ noted'[Current(q)'] = 0
                                /\ status'[Current(q)'] # "NONE"
    BY <2>2, <2>3, <2>4, <2>5, <2>7
  <2> QED BY <2>8, <2>9, <2>10 DEF OneAuditor
<1>3. CASE AppendDetected(p)
  <2>1. pc[p] = "append" /\ Current(p) \in Identity
    BY <1>3, <1>c DEF AppendDetected
  <2>2. /\ noted' = [noted EXCEPT ![Current(p)] = @ + 1]
        /\ status' = status
        /\ pc'[p] # "append"
    BY <1>0, <1>3 DEF AppendDetected, Advance, TypeOK
  <2>3. /\ noted[Current(p)] = 0
        /\ status[Current(p)] # "NONE"
        /\ \A q \in Recorder \ {p} :
             pc[q] = "append" => Current(q) # Current(p)
    BY <2>1 DEF OneAuditor
  <2>4. /\ noted'[Current(p)] = 1
        /\ \A id \in Identity \ {Current(p)} : noted'[id] = noted[id]
    BY <2>1, <2>2, <2>3 DEF TypeOK
  <2>5. \A id \in Identity :
          noted'[id] # 0 => noted'[id] = 1 /\ status'[id] # "NONE"
    BY <2>2, <2>3, <2>4 DEF OneAuditor
  <2>6. \A q \in Recorder :
          pc'[q] = "append" => /\ noted'[Current(q)'] = 0
                               /\ status'[Current(q)'] # "NONE"
    BY <1>a, <1>b, <1>c, <2>2, <2>3, <2>4 DEF OneAuditor
  <2>7. \A q, r \in Recorder :
          pc'[q] = "append" /\ pc'[r] = "append" /\ Current(q)' = Current(r)'
            => q = r
    BY <1>a, <1>b, <2>2 DEF OneAuditor
  <2> QED BY <2>5, <2>6, <2>7 DEF OneAuditor
<1>4. CASE Create(p) /\ status[Current(p)] # "NONE"
  <2>1. pc'[p] # "append" /\ UNCHANGED <<status, noted>>
    BY <1>0, <1>4 DEF Create, Advance, TypeOK
  <2> QED BY <1>1, <2>1
<1>5. CASE Detect(p)
  <2>1. pc'[p] # "append" /\ UNCHANGED <<status, noted>>
    BY <1>0, <1>5 DEF Detect, Goto, TypeOK, tables
  <2> QED BY <1>1, <2>1
<1>6. CASE Finish(p) \/ Abandon(p)
  <2>1. pc'[p] # "append" /\ UNCHANGED <<status, noted>>
    BY <1>0, <1>6 DEF Finish, Abandon, Goto, TypeOK, tables
  <2> QED BY <1>1, <2>1
<1> QED BY <1>2, <1>3, <1>4, <1>5, <1>6

LEMMA OperatorOneAuditor ==
  ASSUME TypeOK, OneAuditor, NEW o \in Operator,
         FindCurrent(o) \/ UpdateStatus(o) \/ AppendChanged(o) \/ GiveUp(o)
  PROVE  OneAuditor'
<1>0. o \in Proc /\ Recorder \subseteq Proc /\ o \notin Recorder
  BY ExceptionsAssumption DEF Proc
<1>1. \A q \in Recorder :
        pc'[q] = pc[q] /\ drafts'[q] = drafts[q] /\ subject'[q] = subject[q]
  BY <1>0 DEF TypeOK, FindCurrent, UpdateStatus, AppendChanged, GiveUp, Goto,
     recorders
<1>2. \A q \in Recorder : Current(q)' = Current(q)
  BY <1>1, CurrentStays
<1>3. \A q \in Recorder : pc[q] = "append" => Current(q) \in Identity
  BY CurrentIsIdentity DEF TypeOK
<1>4. noted' = noted
  BY DEF FindCurrent, UpdateStatus, AppendChanged, GiveUp, tables
<1>5. \A id \in Identity : status[id] # "NONE" => status'[id] # "NONE"
  <2>1. CASE UpdateStatus(o)
    BY <2>1 DEF UpdateStatus, Goto, TypeOK, ExceptionStatuses
  <2>2. CASE ~UpdateStatus(o)
    BY <2>2 DEF FindCurrent, AppendChanged, GiveUp, tables
  <2> QED BY <2>1, <2>2
<1> QED BY <1>1, <1>2, <1>3, <1>4, <1>5 DEF OneAuditor

\* However many deliveries and attempts detect one condition, one audit row at
\* most tells of it, and none without the row of the exception.
THEOREM AuditedOnce == Spec => []DetectedOnce
<1>1. Init => TypeOK /\ OneAuditor
  BY InitTyped, InitOneAuditor
<1>2. TypeOK /\ OneAuditor /\ [Next]_vars => OneAuditor'
  <2> SUFFICES ASSUME TypeOK, OneAuditor, [Next]_vars
               PROVE  OneAuditor'
    OBVIOUS
  <2>1. CASE UNCHANGED vars
    BY <2>1 DEF vars, OneAuditor, Current
  <2>2. CASE Next
    BY <2>2, RecorderOneAuditor, OperatorOneAuditor DEF Next
  <2> QED BY <2>1, <2>2
<1>3. TypeOK /\ OneAuditor => DetectedOnce
  BY OneAuditorSuffices
<1> QED BY <1>1, <1>2, <1>3, NextTyped, PTL DEF Spec

-----------------------------------------------------------------------------
(* A record taken up is never OPEN again *)

\* An operator writes OPEN nowhere: the row it read was no further than OPEN.
WritesForward == \A o \in Operator : pc[o] = "update" => order[o].to # "OPEN"

LEMMA WritesForwardStep ==
  ASSUME TypeOK, WritesForward, [Next]_vars
  PROVE  WritesForward'
<1>1. CASE UNCHANGED vars
  BY <1>1 DEF vars, WritesForward
<1>2. ASSUME NEW p \in Recorder,
             \/ Detect(p) \/ Create(p) \/ AppendDetected(p)
             \/ Finish(p) \/ Abandon(p)
      PROVE  WritesForward'
  <2>1. p \in Proc /\ Operator \subseteq Proc /\ p \notin Operator
    BY ExceptionsAssumption DEF Proc
  <2>2. order' = order /\ \A o \in Operator : pc'[o] = pc[o]
    BY <1>2, <2>1 DEF TypeOK, Detect, Goto, Create, Advance, AppendDetected,
       Finish, Abandon
  <2> QED BY <2>2 DEF WritesForward
<1>3. ASSUME NEW o \in Operator,
             FindCurrent(o) \/ UpdateStatus(o) \/ AppendChanged(o) \/ GiveUp(o)
      PROVE  WritesForward'
  <2>1. o \in Proc /\ Operator \subseteq Proc
    BY DEF Proc
  <2>2. \A q \in Operator \ {o} : pc'[q] = pc[q] /\ order'[q] = order[q]
    BY <1>3, <2>1 DEF TypeOK, FindCurrent, UpdateStatus, AppendChanged, GiveUp,
       Goto
  <2>3. pc'[o] = "update" => order'[o].to # "OPEN"
    <3>1. CASE FindCurrent(o)
      <4>1. PICK id \in Identity, to \in ExceptionStatuses :
              /\ status[id] # "NONE"
              /\ canTransitionExceptionStatus(status[id], to)
              /\ Goto(o, "idle", IF status[id] = to THEN "tell" ELSE "update")
              /\ order' = [order EXCEPT ![o] = [id |-> id, to |-> to]]
        BY <3>1 DEF FindCurrent
      <4>2. status[id] # to => to # "OPEN"
        BY <4>1, ForwardLeavesOpen DEF TypeOK
      <4> QED BY <2>1, <4>1, <4>2 DEF TypeOK, Goto
    <3>2. CASE ~FindCurrent(o)
      BY <1>3, <2>1, <3>2 DEF TypeOK, UpdateStatus, AppendChanged, GiveUp, Goto
    <3> QED BY <3>1, <3>2
  <2> QED BY <2>2, <2>3 DEF WritesForward
<1> QED BY <1>1, <1>2, <1>3 DEF Next

LEMMA ReopeningImpossible ==
  ASSUME TypeOK, WritesForward, [Next]_vars, NEW id \in Identity,
         status[id] \in {"ACKNOWLEDGED", "RESOLVED"}
  PROVE  status'[id] # "OPEN"
<1>1. CASE UNCHANGED status
  BY <1>1
<1>2. ASSUME NEW p \in Recorder, Create(p), status' # status
      PROVE  status'[id] # "OPEN"
  <2>1. /\ status[Current(p)] = "NONE"
        /\ status' = [status EXCEPT ![Current(p)] = "OPEN"]
    BY <1>2 DEF Create
  <2> QED BY <2>1 DEF TypeOK
<1>3. ASSUME NEW o \in Operator, UpdateStatus(o)
      PROVE  status'[id] # "OPEN"
  BY <1>3 DEF UpdateStatus, Goto, TypeOK, WritesForward
<1>4. CASE Next /\ status' # status
  <2>1. \/ \E p \in Recorder : Create(p)
        \/ \E o \in Operator : UpdateStatus(o)
    BY <1>4 DEF Next, Detect, AppendDetected, Finish, Abandon, FindCurrent,
       AppendChanged, GiveUp, tables
  <2> QED BY <1>2, <1>3, <1>4, <2>1
<1> QED BY <1>1, <1>4 DEF vars

\* Whatever operators race, and however often the condition is detected anew, a
\* record that was acknowledged or resolved is not OPEN again.
THEOREM TakenUpStaysTakenUp == Spec => NeverReopened
<1>1. Init => TypeOK /\ WritesForward
  BY InitTyped DEF Init, WritesForward, Proc
<1>2. TypeOK /\ WritesForward /\ [Next]_vars => WritesForward'
  BY WritesForwardStep
<1>3. TypeOK /\ WritesForward /\ [Next]_vars =>
        [\A id \in Identity :
           status[id] \in {"ACKNOWLEDGED", "RESOLVED"}
             => status'[id] # "OPEN"]_vars
  BY ReopeningImpossible
<1> QED BY <1>1, <1>2, <1>3, NextTyped, PTL DEF Spec, NeverReopened

-----------------------------------------------------------------------------
(* The audit misses no more than it lost *)

\* Somebody is about to append the audit row.
Noting(id) == \E p \in Recorder : pc[p] = "append" /\ Current(p) = id

Telling(id) ==
  \E o \in Operator : pc[o] = "tell" /\ order[o] = [id |-> id, to |-> status[id]]

\* What the audit lacks, and what of it nobody will append any more.
Untold ==
  ({"detected"} \X UntoldDetections) \cup ({"changed"} \X UntoldStatuses)

Lost ==
  ({"detected"} \X {id \in UntoldDetections : ~Noting(id)})
    \cup ({"changed"} \X {id \in UntoldStatuses : ~Telling(id)})

Paid == IsFiniteSet(Lost) /\ Cardinality(Lost) <= faults

LEMMA InitPaid == Init => Paid
<1> SUFFICES ASSUME Init
             PROVE  Paid
  OBVIOUS
<1>1. Lost = {}
  BY DEF Init, Lost, UntoldDetections, UntoldStatuses
<1> QED BY <1>1, FS_EmptySet DEF Init, Paid

\* A step that loses nothing, or one audit row for a fault.
LEMMA OneForOne ==
  ASSUME TypeOK, TypeOK', Paid,
         \/ Lost' \subseteq Lost /\ faults' = faults
         \/ faults' = faults + 1 /\ \E x : Lost' \subseteq Lost \cup {x}
  PROVE  Paid'
<1>1. Cardinality(Lost) \in Nat /\ faults \in Nat
  BY FS_CardinalityType, ExceptionsAssumption DEF Paid, TypeOK
<1>2. CASE Lost' \subseteq Lost /\ faults' = faults
  <2>1. IsFiniteSet(Lost') /\ Cardinality(Lost') <= Cardinality(Lost)
    BY <1>2, FS_Subset DEF Paid
  <2>2. Cardinality(Lost') \in Nat
    BY <2>1, FS_CardinalityType
  <2> QED BY <1>1, <1>2, <2>1, <2>2 DEF Paid
<1>3. ASSUME NEW x, Lost' \subseteq Lost \cup {x}, faults' = faults + 1
      PROVE  Paid'
  <2>1. /\ IsFiniteSet(Lost \cup {x})
        /\ Cardinality(Lost \cup {x}) <= Cardinality(Lost) + 1
    BY <1>1, FS_AddElement DEF Paid
  <2>2. IsFiniteSet(Lost') /\ Cardinality(Lost') <= Cardinality(Lost \cup {x})
    BY <1>3, <2>1, FS_Subset
  <2>3. Cardinality(Lost') \in Nat /\ Cardinality(Lost \cup {x}) \in Nat
    BY <2>1, <2>2, FS_CardinalityType
  <2> QED BY <1>1, <1>3, <2>1, <2>2, <2>3 DEF Paid
<1> QED BY <1>2, <1>3

LEMMA RecorderPaid ==
  ASSUME TypeOK, TypeOK', Paid, NEW p \in Recorder,
         \/ Detect(p) \/ Create(p) \/ AppendDetected(p)
         \/ Finish(p) \/ Abandon(p)
  PROVE  Paid'
<1>0. p \in Proc /\ p \notin Operator /\ Operator \subseteq Proc /\ Recorder \subseteq Proc
  BY ExceptionsAssumption DEF Proc
<1>1. /\ \A o \in Operator : pc'[o] = pc[o]
      /\ order' = order /\ changed' = changed
  BY <1>0 DEF TypeOK, Detect, Goto, Create, Advance, AppendDetected, Finish,
     Abandon, tables
<1>2. ASSUME NEW q \in Recorder, q # p
      PROVE  pc'[q] = pc[q] /\ Current(q)' = Current(q)
  BY <1>0, <1>2 DEF TypeOK, Detect, Goto, Create, Advance, AppendDetected, Finish,
     Abandon, Current, recorders
<1>3. \A id \in UntoldStatuses' :
        /\ id \in UntoldStatuses
        /\ Telling(id) => Telling(id)'
  <2>1. CASE status' = status
    BY <1>1, <2>1 DEF UntoldStatuses, Telling
  <2>2. CASE status' # status
    <3>1. status' = [status EXCEPT ![Current(p)] = "OPEN"]
      BY <2>2 DEF Detect, Create, AppendDetected, Finish, Abandon, tables
    <3>2. \A id \in UntoldStatuses' : status'[id] = status[id]
      BY <3>1 DEF UntoldStatuses, TypeOK
    <3> QED BY <1>1, <3>2 DEF UntoldStatuses, Telling
  <2> QED BY <2>1, <2>2
<1>4. ASSUME ~Abandon(p)
      PROVE  \A id \in UntoldDetections' :
               \/ Noting(id)'
               \/ id \in UntoldDetections /\ ~Noting(id)
  <2> SUFFICES ASSUME NEW id \in UntoldDetections', ~Noting(id)'
               PROVE  id \in UntoldDetections /\ ~Noting(id)
    OBVIOUS
  <2>1. \A q \in Recorder : q # p => ~(pc[q] = "append" /\ Current(q) = id)
    BY <1>2 DEF Noting
  <2>2. CASE AppendDetected(p)
    <3>1. pc[p] = "append" /\ noted' = [noted EXCEPT ![Current(p)] = @ + 1]
          /\ status' = status
      BY <2>2 DEF AppendDetected
    <3>2. Current(p) \in Identity
      BY <3>1, CurrentIsIdentity DEF TypeOK
    <3>3. id # Current(p)
      BY <3>1, <3>2 DEF UntoldDetections, TypeOK
    <3> QED BY <2>1, <3>1, <3>3 DEF UntoldDetections, Noting
  <2>3. CASE ~AppendDetected(p)
    <3>1. pc[p] # "append" /\ noted' = noted
      BY <1>4, <2>3 DEF Detect, Goto, Create, Advance, Finish, tables
    <3>2. ~Noting(id)
      BY <2>1, <3>1 DEF Noting
    <3>3. CASE status' = status
      BY <3>1, <3>2, <3>3 DEF UntoldDetections
    <3>4. CASE status' # status
      <4>1. /\ Create(p) /\ status' = [status EXCEPT ![Current(p)] = "OPEN"]
            /\ pc' = [pc EXCEPT ![p] = "append"] /\ UNCHANGED recorders
        BY <3>4, <2>3, <1>4 DEF Detect, Create, Finish, tables
      <4>2. Current(p)' = Current(p) /\ pc'[p] = "append"
        BY <1>0, <4>1 DEF Current, recorders, TypeOK
      <4>3. id # Current(p)
        BY <4>2 DEF Noting
      <4> QED BY <3>1, <3>2, <4>1, <4>3 DEF UntoldDetections, TypeOK
    <3> QED BY <3>3, <3>4
  <2> QED BY <2>2, <2>3
<1>5. CASE ~Abandon(p)
  <2>1. faults' = faults
    BY <1>5 DEF Detect, Create, AppendDetected, Finish
  <2>2. Lost' \subseteq Lost
    BY <1>3, <1>4, <1>5 DEF Lost
  <2> QED BY <2>1, <2>2, OneForOne
<1>6. CASE Abandon(p)
  <2>1. faults' = faults + 1 /\ UNCHANGED tables
    BY <1>6 DEF Abandon
  <2>2. \A id : Noting(id) /\ id # Current(p) => Noting(id)'
    BY <1>2 DEF Noting
  <2>3. UntoldDetections' = UntoldDetections
    BY <2>1 DEF UntoldDetections, tables
  <2>4. Lost' \subseteq Lost \cup {<<"detected", Current(p)>>}
    BY <1>3, <2>2, <2>3 DEF Lost
  <2> QED BY <2>1, <2>4, OneForOne
<1> QED BY <1>5, <1>6

LEMMA OperatorPaid ==
  ASSUME TypeOK, TypeOK', Paid, NEW o \in Operator,
         FindCurrent(o) \/ UpdateStatus(o) \/ AppendChanged(o) \/ GiveUp(o)
  PROVE  Paid'
<1>0. o \in Proc /\ o \notin Recorder /\ Operator \subseteq Proc /\ Recorder \subseteq Proc
  BY ExceptionsAssumption DEF Proc
<1>1. \A p \in Recorder : pc'[p] = pc[p] /\ Current(p)' = Current(p)
  BY <1>0 DEF TypeOK, FindCurrent, Goto, UpdateStatus, AppendChanged, GiveUp,
     Current, recorders
<1>2. \A q \in Operator \ {o} : pc'[q] = pc[q] /\ order'[q] = order[q]
  BY <1>0 DEF TypeOK, FindCurrent, Goto, UpdateStatus, AppendChanged, GiveUp
<1>3. UntoldDetections' \subseteq UntoldDetections /\ \A id : Noting(id) => Noting(id)'
  <2>1. noted' = noted
    BY DEF FindCurrent, UpdateStatus, AppendChanged, GiveUp, tables
  <2>2. \A id \in Identity : status'[id] # "NONE" => status[id] # "NONE"
    BY DEF TypeOK, FindCurrent, Goto, UpdateStatus, AppendChanged, GiveUp, tables
  <2> QED BY <1>1, <2>1, <2>2 DEF UntoldDetections, Noting
<1>4. ASSUME NEW id \in UntoldStatuses', ~Telling(id)'
      PROVE  \/ id \in UntoldStatuses /\ ~Telling(id)
             \/ GiveUp(o) /\ id = order[o].id
  <2>1. CASE FindCurrent(o)
    <3>1. UNCHANGED tables /\ pc[o] = "idle"
      BY <2>1 DEF FindCurrent, Goto
    <3> QED BY <1>2, <1>4, <3>1 DEF UntoldStatuses, Telling, tables
  <2>2. CASE UpdateStatus(o)
    <3>1. /\ pc[o] = "update" /\ pc'[o] = "tell"
          /\ status' = [status EXCEPT ![order[o].id] = order[o].to]
          /\ UNCHANGED <<changed, order>>
      BY <1>0, <2>2 DEF UpdateStatus, Goto, TypeOK
    <3>2. order[o] = [id |-> order[o].id, to |-> order[o].to] /\ order[o].id \in Identity
      BY <3>1 DEF TypeOK
    <3>3. id # order[o].id
      BY <1>4, <3>1, <3>2 DEF Telling, TypeOK
    <3>4. status'[id] = status[id]
      BY <3>1, <3>3 DEF UntoldStatuses, TypeOK
    <3> QED BY <1>2, <1>4, <3>1, <3>4 DEF UntoldStatuses, Telling
  <2>3. CASE AppendChanged(o)
    <3>1. /\ pc[o] = "tell" /\ UNCHANGED status
          /\ changed' = [changed EXCEPT ![order[o].id] = @ \cup {order[o].to}]
      BY <2>3 DEF AppendChanged, Goto
    <3>2. \A q \in Operator : order[q] = [id |-> id, to |-> status[id]] => q # o
      BY <1>4, <3>1 DEF UntoldStatuses, TypeOK
    <3>3. \A i \in Identity : changed[i] \subseteq changed'[i]
      BY <3>1 DEF TypeOK
    <3> QED BY <1>2, <1>4, <3>1, <3>2, <3>3 DEF UntoldStatuses, Telling
  <2>4. CASE GiveUp(o)
    <3>1. UNCHANGED tables
      BY <2>4 DEF GiveUp
    <3> QED BY <1>2, <1>4, <2>4, <3>1 DEF UntoldStatuses, Telling, tables
  <2> QED BY <2>1, <2>2, <2>3, <2>4
<1>5. CASE ~GiveUp(o)
  <2>1. faults' = faults
    BY <1>5 DEF FindCurrent, UpdateStatus, AppendChanged
  <2>2. Lost' \subseteq Lost
    BY <1>3, <1>4, <1>5 DEF Lost
  <2> QED BY <2>1, <2>2, OneForOne
<1>6. CASE GiveUp(o)
  <2>1. faults' = faults + 1
    BY <1>6 DEF GiveUp
  <2>2. Lost' \subseteq Lost \cup {<<"changed", order[o].id>>}
    BY <1>3, <1>4 DEF Lost
  <2> QED BY <2>1, <2>2, OneForOne
<1> QED BY <1>5, <1>6

LEMMA Tagged ==
  ASSUME NEW tag, NEW A, IsFiniteSet({tag} \X A)
  PROVE  Cardinality(A) = Cardinality({tag} \X A)
<1> DEFINE P == {tag} \X A
           g == [x \in P |-> x[2]]
<1>1. g \in [P -> A]
  OBVIOUS
<1>2. ASSUME NEW x \in P, NEW y \in P, g[x] = g[y]
      PROVE  x = y
  <2>1. x = <<tag, x[2]>> /\ y = <<tag, y[2]>>
    OBVIOUS
  <2>2. x[2] = y[2]
    BY <1>2
  <2> QED BY <2>1, <2>2
<1>3. ASSUME NEW a \in A
      PROVE  \E x \in P : g[x] = a
  <2>1. <<tag, a>> \in P
    OBVIOUS
  <2>2. g[<<tag, a>>] = a
    BY <2>1
  <2> QED BY <2>1, <2>2
<1> HIDE DEF g
<1>4. g \in Bijection(P, A)
  BY <1>1, <1>2, <1>3 DEF Bijection, Injection, Surjection, IsInjective
<1>5. ExistsBijection(P, A) /\ IsFiniteSet(P)
  BY <1>4 DEF ExistsBijection
<1> HIDE DEF P
<1>6. Cardinality(A) = Cardinality(P)
  BY <1>5, FS_Bijection
<1> QED BY <1>6 DEF P

\* What is untold is lost, or its writer is about to append it.
LEMMA PaidSuffices ==
  ASSUME TypeOK, Paid
  PROVE  EvidenceGap
<1> DEFINE W == {p \in Proc : pc[p] \in {"append", "tell"}}
           f == [p \in W |-> IF p \in Recorder THEN <<"detected", Current(p)>>
                                               ELSE <<"changed", order[p].id>>]
           T == {f[p] : p \in W}
           D == {"detected"} \X UntoldDetections
           S == {"changed"} \X UntoldStatuses
<1>1. IsFiniteSet(W)
  BY ExceptionsAssumption, FS_Union, FS_Subset DEF Proc
<1>2. IsFiniteSet(T) /\ Cardinality(T) <= Cardinality(W)
  <2>1. f \in Surjection(W, T)
    BY DEF Surjection
  <2> QED BY <1>1, <2>1, FS_Surjection
<1>3. Untold \subseteq Lost \cup T
  <2>1. ASSUME NEW id, Noting(id)
        PROVE  <<"detected", id>> \in T
    <3>1. PICK p \in Recorder : pc[p] = "append" /\ Current(p) = id
      BY <2>1 DEF Noting
    <3>2. p \in W
      BY <3>1 DEF Proc
    <3>3. f[p] = <<"detected", id>>
      BY <3>1, <3>2
    <3> QED BY <3>2, <3>3
  <2>2. ASSUME NEW id, Telling(id)
        PROVE  <<"changed", id>> \in T
    <3>1. PICK o \in Operator : pc[o] = "tell" /\ order[o].id = id
      BY <2>2 DEF Telling
    <3>2. o \in W /\ o \notin Recorder
      BY <3>1, ExceptionsAssumption DEF Proc
    <3>3. f[o] = <<"changed", id>>
      BY <3>1, <3>2
    <3> QED BY <3>2, <3>3
  <2> HIDE DEF T
  <2> QED BY <2>1, <2>2 DEF Untold, Lost
<1>4. /\ IsFiniteSet(Untold)
      /\ Cardinality(Untold) <= Cardinality(Lost) + Cardinality(T)
      /\ Cardinality(Untold) \in Nat
  <2>1. IsFiniteSet(Lost \cup T)
        /\ Cardinality(Lost \cup T) <= Cardinality(Lost) + Cardinality(T)
    <3>1. /\ IsFiniteSet(Lost \cup T) /\ IsFiniteSet(Lost \cap T)
          /\ Cardinality(Lost \cup T) =
               Cardinality(Lost) + Cardinality(T) - Cardinality(Lost \cap T)
      BY <1>2, FS_Union, FS_Intersection DEF Paid
    <3>2. /\ Cardinality(Lost \cap T) \in Nat
          /\ Cardinality(Lost) \in Nat /\ Cardinality(T) \in Nat
      BY <1>2, <3>1, FS_CardinalityType DEF Paid
    <3> QED BY <3>1, <3>2
  <2>2. IsFiniteSet(Untold) /\ Cardinality(Untold) <= Cardinality(Lost \cup T)
    BY <1>3, <2>1, FS_Subset
  <2>3. /\ Cardinality(Untold) \in Nat /\ Cardinality(Lost \cup T) \in Nat
        /\ Cardinality(Lost) \in Nat /\ Cardinality(T) \in Nat
    BY <1>2, <2>1, <2>2, FS_CardinalityType DEF Paid
  <2> QED BY <2>1, <2>2, <2>3
<1>5. /\ IsFiniteSet(D) /\ IsFiniteSet(S) /\ D \cap S = {}
  BY <1>4, FS_Subset DEF Untold
<1>6. Cardinality(Untold) = Cardinality(D) + Cardinality(S)
  <2>1. Cardinality(D \cup S) = Cardinality(D) + Cardinality(S) - Cardinality(D \cap S)
    BY <1>5, FS_Union
  <2>2. Cardinality(D) \in Nat /\ Cardinality(S) \in Nat /\ Cardinality(D \cap S) = 0
    BY <1>5, FS_CardinalityType, FS_EmptySet
  <2> QED BY <2>1, <2>2 DEF Untold
<1>7. /\ Cardinality(UntoldDetections) = Cardinality(D)
      /\ Cardinality(UntoldStatuses) = Cardinality(S)
  BY <1>5, Tagged
<1>8. Cardinality(Lost) \in Nat /\ Cardinality(T) \in Nat /\ Cardinality(W) \in Nat
      /\ faults \in Nat
  BY <1>1, <1>2, FS_CardinalityType, ExceptionsAssumption DEF Paid, TypeOK
<1>9. Cardinality(UntoldDetections) + Cardinality(UntoldStatuses)
        <= faults + Cardinality(W)
  <2> HIDE DEF W, T, D, S
  <2> QED BY <1>2, <1>4, <1>6, <1>7, <1>8 DEF Paid
<1> QED BY <1>9 DEF EvidenceGap

\* For any number of writers and any interleaving: an audit row is missing only
\* while its writer is about to append it, or for a fault, and each fault costs
\* one at most (packages/exceptions, which saves, audits and goes on statement
\* by statement).
THEOREM GapsAreAccounted == Spec => []EvidenceGap
<1>1. Init => TypeOK /\ Paid
  BY InitTyped, InitPaid
<1>2. TypeOK /\ Paid /\ [Next]_vars => Paid'
  <2> SUFFICES ASSUME TypeOK, Paid, [Next]_vars
               PROVE  Paid'
    OBVIOUS
  <2>1. TypeOK'
    BY NextTyped
  <2>2. CASE UNCHANGED vars
    <3>1. Lost' = Lost /\ faults' = faults
      BY <2>2 DEF vars, Lost, UntoldDetections, UntoldStatuses, Noting, Telling,
         Current
    <3> QED BY <2>1, <3>1, OneForOne
  <2>3. CASE Next
    BY <2>1, <2>3, RecorderPaid, OperatorPaid DEF Next
  <2> QED BY <2>2, <2>3
<1>3. TypeOK /\ Paid => EvidenceGap
  BY PaidSuffices
<1> QED BY <1>1, <1>2, <1>3, NextTyped, PTL DEF Spec
=============================================================================
