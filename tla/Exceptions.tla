------------------------------ MODULE Exceptions ------------------------------
(***************************************************************************)
(* The exceptions table and the audit rows that go with it: requests and   *)
(* attempts record what they detected, operators move a record's status.   *)
(* Neither the recording nor the change of a status is a transaction: a    *)
(* row and its audit row are two statements, and updateStatus reads,       *)
(* decides and writes in two. One action is one statement with the local   *)
(* code up to the next await.                                              *)
(***************************************************************************)
EXTENDS Detection, FiniteSets

CONSTANTS
  Recorder,   \* calls of recordExceptionsSafely that may overlap
  Operator,   \* calls of changeExceptionStatus that may overlap
  Subject,    \* a stored webhook with the payment a delivery names for it,
              \* or the correlation id of a rejected request
  CauseOf,    \* what may have happened to a subject
  MaxFaults   \* bound on statements that throw or are cut off by a crash

ASSUME ExceptionsAssumption ==
  /\ Recorder \cap Operator = {} /\ IsFiniteSet(Recorder) /\ IsFiniteSet(Operator)
  /\ CauseOf \in [Subject -> SUBSET [by   : {"verifier", "adapter", "store",
                                             "attempt"},
                                     code : STRING,
                                     met  : [outcome : STRING, from : STRING,
                                             type : STRING],
                                     last : BOOLEAN]]
  /\ MaxFaults \in Nat

\* exceptionIdentity: within a subject the code tells conditions apart.
Identity == ExceptionCodes \X Subject

ExceptionStatuses == {"OPEN", "ACKNOWLEDGED", "RESOLVED"}

VARIABLES
  status,   \* of the row with this identity, "NONE" where there is none
  noted,    \* number of detection audit rows about this identity
  changed,  \* statuses that EXCEPTION_STATUS_CHANGED rows tell of
  pc,       \* the statement a process is about to make
  subject,  \* of a recorder
  cause,    \* of a recorder, NoCause when it is idle
  drafts,   \* codes a recorder has not saved yet
  order,    \* of an operator: the identity and the status asked for
  faults

tables == <<status, noted, changed>>

recorders == <<subject, cause, drafts>>

vars == <<status, noted, changed, pc, subject, cause, drafts, order, faults>>

Proc == Recorder \cup Operator

NoCause == [by |-> "none", code |-> "none", met |-> NoMeeting, last |-> FALSE]

NoOrder == [id |-> <<>>, to |-> "NONE"]

Init ==
  /\ status = [id \in Identity |-> "NONE"]
  /\ noted = [id \in Identity |-> 0]
  /\ changed = [id \in Identity |-> {}]
  /\ pc = [p \in Proc |-> "idle"]
  /\ subject \in [Recorder -> Subject]
  /\ cause = [p \in Recorder |-> NoCause]
  /\ drafts = [p \in Recorder |-> {}]
  /\ order = [o \in Operator |-> NoOrder]
  /\ faults = 0

Goto(p, from, to) ==
  /\ pc[p] = from
  /\ pc' = [pc EXCEPT ![p] = to]

-----------------------------------------------------------------------------
(* recordExceptionsSafely *)

\* The draft saved next: the first in EXCEPTION_PRECEDENCE.
FirstDraft(codes) ==
  CHOOSE c \in codes :
    \A d \in codes : exceptionPrecedenceRank(c) <= exceptionPrecedenceRank(d)

Current(p) == <<FirstDraft(drafts[p]), subject[p]>>

Detect(p) ==
  /\ Goto(p, "idle", "create")
  /\ \E s \in Subject : \E c \in CauseOf[s] :
       /\ subject' = [subject EXCEPT ![p] = s]
       /\ cause' = [cause EXCEPT ![p] = c]
       /\ drafts' = [drafts EXCEPT ![p] = detectException(Facts(c))]
  /\ UNCHANGED <<tables, order, faults>>

\* The loop goes on with the next draft.
Advance(p) ==
  /\ pc' = [pc EXCEPT ![p] = "create"]
  /\ drafts' = [drafts EXCEPT ![p] = @ \ {Current(p)[1]}]
  /\ UNCHANGED <<subject, cause>>

\* Mutant: a conflicting insert counts as an insert.
CreateAlwaysInserted(p) ==
  /\ Goto(p, "create", "append")
  /\ drafts[p] # {}
  /\ status' = [status EXCEPT ![Current(p)] = IF @ = "NONE" THEN "OPEN" ELSE @]
  /\ UNCHANGED <<noted, changed, recorders, order, faults>>

\* INSERT ... ON CONFLICT DO NOTHING: only who inserted the row audits it. Who
\* did not reads the row, which only the purge of failure lab payments deletes,
\* and goes on.
Create(p) ==
  LET id == Current(p)
  IN  /\ pc[p] = "create"
      /\ drafts[p] # {}
      /\ IF status[id] = "NONE"
         THEN /\ status' = [status EXCEPT ![id] = "OPEN"]
              /\ pc' = [pc EXCEPT ![p] = "append"]
              /\ UNCHANGED recorders
         ELSE Advance(p) /\ UNCHANGED status
      /\ UNCHANGED <<noted, changed, order, faults>>

AppendDetected(p) ==
  /\ pc[p] = "append"
  /\ noted' = [noted EXCEPT ![Current(p)] = @ + 1]
  /\ Advance(p)
  /\ UNCHANGED <<status, changed, order, faults>>

\* Nothing was detected, or everything is saved.
Finish(p) ==
  /\ drafts[p] = {}
  /\ Goto(p, "create", "idle")
  /\ cause' = [cause EXCEPT ![p] = NoCause]
  /\ UNCHANGED <<tables, subject, drafts, order, faults>>

\* What a statement throws is swallowed with the drafts that are left; a crash
\* loses them as well.
Abandon(p) ==
  /\ faults < MaxFaults
  /\ pc[p] \in {"create", "append"}
  /\ faults' = faults + 1
  /\ pc' = [pc EXCEPT ![p] = "idle"]
  /\ cause' = [cause EXCEPT ![p] = NoCause]
  /\ drafts' = [drafts EXCEPT ![p] = {}]
  /\ UNCHANGED <<tables, subject, order>>

-----------------------------------------------------------------------------
(* changeExceptionStatus *)

FORWARD ==
  [OPEN |-> {"ACKNOWLEDGED", "RESOLVED"},
   ACKNOWLEDGED |-> {"RESOLVED"},
   RESOLVED |-> {}]

canTransitionExceptionStatus(from, to) == from = to \/ to \in FORWARD[from]

\* Mutant: a status that is set already is written again.
FindCurrentAnyway(o) ==
  /\ Goto(o, "idle", "update")
  /\ \E id \in Identity, to \in ExceptionStatuses :
       /\ status[id] # "NONE"
       /\ canTransitionExceptionStatus(status[id], to)
       /\ order' = [order EXCEPT ![o] = [id |-> id, to |-> to]]
  /\ UNCHANGED <<tables, recorders, faults>>

\* The row is read and the move judged by what was read. An illegal one throws
\* and changes nothing; one to the status the row has needs no write.
FindCurrent(o) ==
  \E id \in Identity, to \in ExceptionStatuses :
    /\ status[id] # "NONE"
    /\ canTransitionExceptionStatus(status[id], to)
    /\ Goto(o, "idle", IF status[id] = to THEN "tell" ELSE "update")
    /\ order' = [order EXCEPT ![o] = [id |-> id, to |-> to]]
    /\ UNCHANGED <<tables, recorders, faults>>

\* Mutant: the audit row is left out when the row moved on in between.
UpdateStatusQuietly(o) ==
  /\ Goto(o, "update",
          IF status[order[o].id] = "OPEN" THEN "tell" ELSE "idle")
  /\ status' = [status EXCEPT ![order[o].id] = order[o].to]
  /\ UNCHANGED <<noted, changed, recorders, order, faults>>

\* The UPDATE names the row, not the status it had.
UpdateStatus(o) ==
  /\ Goto(o, "update", "tell")
  /\ status' = [status EXCEPT ![order[o].id] = order[o].to]
  /\ UNCHANGED <<noted, changed, recorders, order, faults>>

AppendChanged(o) ==
  /\ Goto(o, "tell", "idle")
  /\ changed' = [changed EXCEPT ![order[o].id] = @ \cup {order[o].to}]
  /\ order' = [order EXCEPT ![o] = NoOrder]
  /\ UNCHANGED <<status, noted, recorders, faults>>

GiveUp(o) ==
  /\ faults < MaxFaults
  /\ pc[o] \in {"update", "tell"}
  /\ faults' = faults + 1
  /\ pc' = [pc EXCEPT ![o] = "idle"]
  /\ order' = [order EXCEPT ![o] = NoOrder]
  /\ UNCHANGED <<tables, recorders>>

-----------------------------------------------------------------------------
Next ==
  \/ \E p \in Recorder :
       \/ Detect(p) \/ Create(p) \/ AppendDetected(p)
       \/ Finish(p) \/ Abandon(p)
  \/ \E o \in Operator :
       FindCurrent(o) \/ UpdateStatus(o) \/ AppendChanged(o) \/ GiveUp(o)

Spec == Init /\ [][Next]_vars

-----------------------------------------------------------------------------
(* Properties *)

\* A recorder between two statements has drafts of its cause; an operator that
\* acts has an order for a row that exists.
TypeOK ==
  /\ status \in [Identity -> ExceptionStatuses \cup {"NONE"}]
  /\ noted \in [Identity -> Nat]
  /\ changed \in [Identity -> SUBSET ExceptionStatuses]
  /\ pc \in [Proc -> {"idle", "create", "append", "update", "tell"}]
  /\ subject \in [Recorder -> Subject]
  /\ drafts \in [Recorder -> SUBSET ExceptionCodes]
  /\ order \in [Operator -> [id : Identity \cup {NoOrder.id},
                             to : ExceptionStatuses \cup {NoOrder.to}]]
  /\ faults \in 0..MaxFaults
  /\ \A p \in Recorder :
       /\ pc[p] \in {"idle", "create", "append"}
       /\ pc[p] = "append" => drafts[p] # {}
       /\ pc[p] = "idle" => drafts[p] = {}
  /\ \A o \in Operator :
       /\ pc[o] \in {"idle", "update", "tell"}
       /\ pc[o] # "idle" => /\ order[o].id \in Identity
                            /\ order[o].to \in ExceptionStatuses
                            /\ status[order[o].id] # "NONE"

\* However many deliveries and attempts detect the same condition, its detection
\* is audited once at most, and never without the row ("When persistence inserts
\* a new exception row, the application appends an audit event",
\* packages/exceptions/README.md).
DetectedOnce ==
  \A id \in Identity :
    LET pending == {p \in Recorder : pc[p] = "append" /\ Current(p) = id}
    IN  /\ noted[id] + Cardinality(pending) <= 1
        /\ noted[id] + Cardinality(pending) = 1 => status[id] # "NONE"

\* Rows whose detection, or whose present status, no audit row tells of.
UntoldDetections == {id \in Identity : status[id] # "NONE" /\ noted[id] = 0}

UntoldStatuses ==
  {id \in Identity : /\ status[id] \notin {"NONE", "OPEN"}
                     /\ status[id] \notin changed[id]}

\* The audit misses no more than it lost: every row or status without its audit
\* row is one whose writer is about to append it, or was cut off. One failure
\* costs one audit row, however far its recorder's list of drafts still went.
EvidenceGap ==
  Cardinality(UntoldDetections) + Cardinality(UntoldStatuses)
    <= faults + Cardinality({p \in Proc : pc[p] \in {"append", "tell"}})

\* A record an operator has taken up is never OPEN again, whatever races there
\* are between operators and repeated detections.
NeverReopened ==
  [][\A id \in Identity :
       status[id] \in {"ACKNOWLEDGED", "RESOLVED"} => status'[id] # "OPEN"]_vars
=============================================================================
