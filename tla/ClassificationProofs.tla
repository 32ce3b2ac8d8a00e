------------------------- MODULE ClassificationProofs -------------------------
(***************************************************************************)
(* What the exceptions package says of a replay, whichever events are      *)
(* replayed: what is not applied raises an exception, and MISSING_EVENT is *)
(* raised exactly where the transition table forces one event to come      *)
(* first. The breadth-first search and the walks of the table are          *)
(* evaluated once; the rest follows from the two.                          *)
(***************************************************************************)
EXTENDS Classification, ReplayLoopProofs

-----------------------------------------------------------------------------
(* The breadth-first search *)

Grown(seen) == seen \cup Successors(seen)

LEMMA FiveRounds ==
  ASSUME NEW from \in RecordStates
  PROVE  Reachable[from] = Grown(Grown(Grown(Grown(Grown({from})))))
<1> DEFINE Round(w, n) == IF n = 0 THEN {from}
                          ELSE w[n - 1] \cup Successors(w[n - 1])
           W == CHOOSE w : w = [n \in 0..5 |-> Round(w, n)]
           G1 == Grown({from})
           G2 == Grown(G1)
           G3 == Grown(G2)
           G4 == Grown(G3)
           G5 == Grown(G4)
           f == [n \in 0..5 |-> IF n = 0 THEN {from} ELSE IF n = 1 THEN G1
                  ELSE IF n = 2 THEN G2 ELSE IF n = 3 THEN G3
                  ELSE IF n = 4 THEN G4 ELSE G5]
<1>1. f = [n \in 0..5 |-> Round(f, n)]
  <2>1. /\ f[0] = {from} /\ f[1] = Grown(f[0]) /\ f[2] = Grown(f[1])
        /\ f[3] = Grown(f[2]) /\ f[4] = Grown(f[3]) /\ f[5] = Grown(f[4])
    OBVIOUS
  <2> HIDE DEF f
  <2>2. ASSUME NEW n \in 0..5 PROVE f[n] = Round(f, n)
    <3>1. n = 0 \/ n = 1 \/ n = 2 \/ n = 3 \/ n = 4 \/ n = 5
      OBVIOUS
    <3>2. n # 0 => f[n] = Grown(f[n - 1])
      <4> HIDE DEF Round
      <4>1. 1 - 1 = 0 /\ 2 - 1 = 1 /\ 3 - 1 = 2 /\ 4 - 1 = 3 /\ 5 - 1 = 4
        OBVIOUS
      <4> QED BY ONLY <2>1, <3>1, <4>1
    <3> QED BY <2>1, <3>2 DEF Grown
  <2> QED BY <2>2 DEF f
<1>2. W = [n \in 0..5 |-> Round(W, n)]
  <2> HIDE DEF f, Round
  <2> QED BY <1>1
<1>3. Reachable[from] = W[5]
  BY DEF Reachable
<1> HIDE DEF W, f
<1>4. \A n \in 0..5 : W[n] = Round(W, n)
  BY <1>2
<1>5. W[0] = {from} /\ W[1] = Grown(W[0]) /\ W[2] = Grown(W[1])
  BY <1>4 DEF Grown
<1>6. W[3] = Grown(W[2]) /\ W[4] = Grown(W[3]) /\ W[5] = Grown(W[4])
  BY <1>4 DEF Grown
<1> QED BY <1>3, <1>5, <1>6

\* The way on from each state.
LEMMA StepsOn ==
  /\ Successors({"NONE"}) = {"CREATED"}
  /\ Successors({"CREATED"}) = {"AUTHORIZED", "FAILED"}
  /\ Successors({"AUTHORIZED"}) = {"CAPTURED", "FAILED"}
  /\ Successors({"CAPTURED"}) = {"REFUNDED"}
  /\ Successors({"FAILED"}) = {}
  /\ Successors({"REFUNDED"}) = {}
  /\ \A S, T : Successors(S \cup T) = Successors(S) \cup Successors(T)
<1>1. \A S, T : Successors(S \cup T) = Successors(S) \cup Successors(T)
  BY DEF Successors
<1>2. \A s, x : x \in Successors({s}) <=>
        \E row \in TransitionTable : row.from = s /\ row.to = x
  BY DEF Successors
<1>3. \A s, x : x \in Successors({s}) <=>
        \/ s = "NONE" /\ x = "CREATED"
        \/ s = "CREATED" /\ x \in {"AUTHORIZED", "FAILED"}
        \/ s = "AUTHORIZED" /\ x \in {"CAPTURED", "FAILED"}
        \/ s = "CAPTURED" /\ x = "REFUNDED"
  BY <1>2 DEF TransitionTable
<1> QED BY <1>1, <1>3

LEMMA ReachableIs ==
  /\ Reachable["NONE"] = RecordStates
  /\ Reachable["CREATED"] =
       {"CREATED", "AUTHORIZED", "CAPTURED", "FAILED", "REFUNDED"}
  /\ Reachable["AUTHORIZED"] = {"AUTHORIZED", "CAPTURED", "FAILED", "REFUNDED"}
  /\ Reachable["CAPTURED"] = {"CAPTURED", "REFUNDED"}
  /\ Reachable["FAILED"] = {"FAILED"}
  /\ Reachable["REFUNDED"] = {"REFUNDED"}
<1> USE StepsOn
<1>1. /\ Grown({"FAILED"}) = {"FAILED"}
      /\ Grown({"REFUNDED"}) = {"REFUNDED"}
  BY DEF Grown
<1>2. /\ Grown({"CAPTURED"}) = {"CAPTURED", "REFUNDED"}
      /\ Grown({"CAPTURED", "REFUNDED"}) = {"CAPTURED", "REFUNDED"}
  <2>1. {"CAPTURED", "REFUNDED"} = {"CAPTURED"} \cup {"REFUNDED"}
    OBVIOUS
  <2> QED BY <2>1 DEF Grown
<1>3. /\ Grown({"AUTHORIZED"}) = {"AUTHORIZED", "CAPTURED", "FAILED"}
      /\ Grown({"AUTHORIZED", "CAPTURED", "FAILED"})
           = {"AUTHORIZED", "CAPTURED", "FAILED", "REFUNDED"}
      /\ Grown({"AUTHORIZED", "CAPTURED", "FAILED", "REFUNDED"})
           = {"AUTHORIZED", "CAPTURED", "FAILED", "REFUNDED"}
  <2>1. {"AUTHORIZED", "CAPTURED", "FAILED"}
          = {"AUTHORIZED"} \cup ({"CAPTURED"} \cup {"FAILED"})
    OBVIOUS
  <2>2. {"AUTHORIZED", "CAPTURED", "FAILED", "REFUNDED"}
          = {"AUTHORIZED", "CAPTURED", "FAILED"} \cup {"REFUNDED"}
    OBVIOUS
  <2>3. Successors({"AUTHORIZED", "CAPTURED", "FAILED"})
          = {"CAPTURED", "FAILED", "REFUNDED"}
    BY <2>1, SMTT(40)
  <2>4. Successors({"AUTHORIZED", "CAPTURED", "FAILED", "REFUNDED"})
          = {"CAPTURED", "FAILED", "REFUNDED"}
    BY <2>2, <2>3
  <2> QED BY <2>3, <2>4 DEF Grown
<1>4. /\ Grown({"CREATED"}) = {"CREATED", "AUTHORIZED", "FAILED"}
      /\ Grown({"CREATED", "AUTHORIZED", "FAILED"})
           = {"CREATED", "AUTHORIZED", "CAPTURED", "FAILED"}
      /\ Grown({"CREATED", "AUTHORIZED", "CAPTURED", "FAILED"})
           = {"CREATED", "AUTHORIZED", "CAPTURED", "FAILED", "REFUNDED"}
      /\ Grown({"CREATED", "AUTHORIZED", "CAPTURED", "FAILED", "REFUNDED"})
           = {"CREATED", "AUTHORIZED", "CAPTURED", "FAILED", "REFUNDED"}
  <2>1. {"CREATED", "AUTHORIZED", "FAILED"}
          = {"CREATED"} \cup ({"AUTHORIZED"} \cup {"FAILED"})
    OBVIOUS
  <2>2. {"CREATED", "AUTHORIZED", "CAPTURED", "FAILED"}
          = {"CREATED", "AUTHORIZED", "FAILED"} \cup {"CAPTURED"}
    OBVIOUS
  <2>3. {"CREATED", "AUTHORIZED", "CAPTURED", "FAILED", "REFUNDED"}
          = {"CREATED", "AUTHORIZED", "CAPTURED", "FAILED"} \cup {"REFUNDED"}
    OBVIOUS
  <2>4. /\ Successors({"AUTHORIZED"} \cup {"FAILED"}) = {"CAPTURED", "FAILED"}
        /\ Successors({"CREATED"} \cup ({"AUTHORIZED"} \cup {"FAILED"}))
             = Successors({"CREATED"}) \cup Successors({"AUTHORIZED"} \cup {"FAILED"})
    OBVIOUS
  <2>7. Successors({"CREATED", "AUTHORIZED", "FAILED"})
          = {"AUTHORIZED", "CAPTURED", "FAILED"}
    BY <2>1, <2>4
  <2>5. Successors({"CREATED", "AUTHORIZED", "CAPTURED", "FAILED"})
          = {"AUTHORIZED", "CAPTURED", "FAILED", "REFUNDED"}
    BY <2>2, <2>7
  <2>6. Successors({"CREATED", "AUTHORIZED", "CAPTURED", "FAILED", "REFUNDED"})
          = {"AUTHORIZED", "CAPTURED", "FAILED", "REFUNDED"}
    BY <2>3, <2>5
  <2> QED BY <2>5, <2>6, <2>7 DEF Grown
<1>5. /\ Grown({"NONE"}) = {"NONE", "CREATED"}
      /\ Grown({"NONE", "CREATED"}) = {"NONE", "CREATED", "AUTHORIZED", "FAILED"}
      /\ Grown({"NONE", "CREATED", "AUTHORIZED", "FAILED"})
           = {"NONE", "CREATED", "AUTHORIZED", "CAPTURED", "FAILED"}
      /\ Grown({"NONE", "CREATED", "AUTHORIZED", "CAPTURED", "FAILED"})
           = RecordStates
      /\ Grown(RecordStates) = RecordStates
  <2>1. /\ {"NONE", "CREATED"} = {"NONE"} \cup {"CREATED"}
        /\ {"NONE", "CREATED", "AUTHORIZED", "FAILED"}
             = {"NONE"} \cup {"CREATED", "AUTHORIZED", "FAILED"}
        /\ {"NONE", "CREATED", "AUTHORIZED", "CAPTURED", "FAILED"}
             = {"NONE"} \cup {"CREATED", "AUTHORIZED", "CAPTURED", "FAILED"}
        /\ RecordStates
             = {"NONE"} \cup {"CREATED", "AUTHORIZED", "CAPTURED", "FAILED", "REFUNDED"}
    BY DEF RecordStates, PaymentStates
  <2>2. \A S, T : Grown(S \cup T) = Grown(S) \cup Grown(T)
    BY DEF Grown
  <2>3. Grown({"NONE"}) = {"NONE", "CREATED"}
    BY DEF Grown
  <2> QED BY ONLY <2>1, <2>2, <2>3, <1>4, SMTT(40)
<1> HIDE StepsOn
<1>6. /\ "NONE" \in RecordStates /\ "CREATED" \in RecordStates
      /\ "AUTHORIZED" \in RecordStates /\ "CAPTURED" \in RecordStates
      /\ "FAILED" \in RecordStates /\ "REFUNDED" \in RecordStates
  BY DEF RecordStates, PaymentStates
<1>7. Reachable["NONE"] = RecordStates
  BY FiveRounds, <1>5, <1>6
<1>8. Reachable["CREATED"] =
        {"CREATED", "AUTHORIZED", "CAPTURED", "FAILED", "REFUNDED"}
  <2>1. Reachable["CREATED"] = Grown(Grown(Grown(Grown(Grown({"CREATED"})))))
    BY FiveRounds, <1>6
  <2> QED BY ONLY <2>1, <1>4
<1>9. Reachable["AUTHORIZED"] = {"AUTHORIZED", "CAPTURED", "FAILED", "REFUNDED"}
  BY FiveRounds, <1>3, <1>6
<1>10. Reachable["CAPTURED"] = {"CAPTURED", "REFUNDED"}
  BY FiveRounds, <1>2, <1>6
<1>11. Reachable["FAILED"] = {"FAILED"} /\ Reachable["REFUNDED"] = {"REFUNDED"}
  BY FiveRounds, <1>1, <1>6, ZenonT(60)
<1> QED BY <1>7, <1>8, <1>9, <1>10, <1>11

\* An event is possible some day if a row for it starts where one can get.
LEMMA PossibleMeans ==
  ASSUME NEW from \in RecordStates, NEW type
  PROVE  isEventuallyPossible(from, type) <=>
           \E row \in TransitionTable :
             row.from \in Reachable[from] /\ row.type = type
<1>1. \A row \in TransitionTable : row.to # "NONE"
  BY DEF TransitionTable
<1>2. \A s : lookupTransition(s, type) # "NONE" <=> Allowed(s, type)
  BY <1>1 DEF lookupTransition, Allowed
<1> QED BY <1>2 DEF isEventuallyPossible, reachableStates, Allowed

LEMMA RowStates ==
  ASSUME NEW row \in TransitionTable
  PROVE  row.from \in RecordStates /\ row.to \in RecordStates
  BY DEF TransitionTable, RecordStates, PaymentStates

\* One can get where one is, and on from where one can get.
LEMMA GettingOn ==
  ASSUME NEW from \in RecordStates
  PROVE  /\ from \in Reachable[from]
         /\ \A row \in TransitionTable :
              row.from \in Reachable[from] => row.to \in Reachable[from]
<1>1. /\ from \in {"NONE", "CREATED", "AUTHORIZED", "CAPTURED", "FAILED", "REFUNDED"}
      /\ \A row \in TransitionTable : row.to \in RecordStates \ {"NONE"}
  BY DEF RecordStates, PaymentStates, TransitionTable
<1>2. CASE from = "NONE"
  BY <1>1, <1>2, ReachableIs
<1>3. CASE from = "CREATED"
  BY <1>1, <1>3, ReachableIs DEF RecordStates, PaymentStates
<1>4. CASE from = "AUTHORIZED"
  BY <1>4, ReachableIs DEF TransitionTable
<1>5. CASE from = "CAPTURED"
  BY <1>5, ReachableIs DEF TransitionTable
<1>6. CASE from = "FAILED" \/ from = "REFUNDED"
  BY <1>6, ReachableIs DEF TransitionTable
<1> QED BY <1>1, <1>2, <1>3, <1>4, <1>5, <1>6

\* Where one can get from the end of a row, one can get from its start.
LEMMA RowLeadsOn ==
  ASSUME NEW row \in TransitionTable
  PROVE  Reachable[row.to] \subseteq Reachable[row.from]
<1>1. \/ row.from = "NONE" /\ row.to = "CREATED"
      \/ row.from = "CREATED" /\ row.to = "AUTHORIZED"
      \/ row.from = "CREATED" /\ row.to = "FAILED"
      \/ row.from = "AUTHORIZED" /\ row.to = "CAPTURED"
      \/ row.from = "AUTHORIZED" /\ row.to = "FAILED"
      \/ row.from = "CAPTURED" /\ row.to = "REFUNDED"
  BY DEF TransitionTable
<1> QED BY <1>1, ReachableIs DEF RecordStates, PaymentStates

-----------------------------------------------------------------------------
(* The walks *)

LEMMA WalkIs ==
  ASSUME NEW n \in 1..5, NEW h \in [1..n -> TransitionTable],
         \A i \in 1..n - 1 : h[i].to = h[i + 1].from
  PROVE  h \in Walks /\ Len(h) = n
<1>1. Len(h) = n
  OBVIOUS
<1>2. h \in UNION {[1..m -> TransitionTable] : m \in 1..5}
  OBVIOUS
<1> QED BY <1>1, <1>2 DEF Walks

\* Every course that leads to a row is one of the walks.
LEMMA WalkThere ==
  ASSUME NEW row \in TransitionTable, NEW last \in TransitionTable,
         last.from \in Reachable[row.to]
  PROVE  \E h \in Walks : h[1] = row /\ h[Len(h)] = last
<1> DEFINE onward == [from |-> "CREATED", type |-> "payment.authorized",
                      to |-> "AUTHORIZED"]
           further == [from |-> "AUTHORIZED", type |-> "payment.captured",
                       to |-> "CAPTURED"]
<1>1. \/ last.from = row.to
      \/ row.to = "CREATED" /\ last.from = "AUTHORIZED"
      \/ row.to = "CREATED" /\ last.from = "CAPTURED"
      \/ row.to = "AUTHORIZED" /\ last.from = "CAPTURED"
  <2>1. row.to \in {"CREATED", "AUTHORIZED", "CAPTURED", "FAILED", "REFUNDED"}
    BY DEF TransitionTable
  <2>2. last.from \in {"NONE", "CREATED", "AUTHORIZED", "CAPTURED"}
    BY DEF TransitionTable
  <2> QED BY <2>1, <2>2, ReachableIs
<1>2. /\ onward \in TransitionTable /\ further \in TransitionTable
      /\ onward.from = "CREATED" /\ onward.to = "AUTHORIZED"
      /\ further.from = "AUTHORIZED" /\ further.to = "CAPTURED"
  BY DEF TransitionTable
<1> HIDE DEF onward, further
<1>3. CASE last.from = row.to
  <2> DEFINE h == <<row, last>>
  <2>1. h \in [1..2 -> TransitionTable] /\ h[1] = row /\ h[2] = last
    OBVIOUS
  <2> HIDE DEF h
  <2>2. \A i \in 1..2 - 1 : h[i].to = h[i + 1].from
    BY <2>1, <1>3
  <2>3. h \in Walks /\ Len(h) = 2
    BY <2>1, <2>2, WalkIs
  <2> QED BY <2>1, <2>3
<1>4. CASE row.to = "CREATED" /\ last.from = "AUTHORIZED"
  <2> DEFINE h == <<row, onward, last>>
  <2>1. /\ h \in [1..3 -> TransitionTable]
        /\ h[1] = row /\ h[2] = onward /\ h[3] = last
    BY <1>2
  <2> HIDE DEF h
  <2>2. \A i \in 1..3 - 1 : h[i].to = h[i + 1].from
    <3>1. \A i \in 1..3 - 1 : i = 1 \/ i = 2
      OBVIOUS
    <3> QED BY <3>1, <2>1, <1>2, <1>4
  <2>3. h \in Walks /\ Len(h) = 3
    BY <2>1, <2>2, WalkIs
  <2> QED BY <2>1, <2>3
<1>5. CASE row.to = "CREATED" /\ last.from = "CAPTURED"
  <2> DEFINE h == <<row, onward, further, last>>
  <2>1. /\ h \in [1..4 -> TransitionTable]
        /\ h[1] = row /\ h[2] = onward /\ h[3] = further /\ h[4] = last
    BY <1>2
  <2> HIDE DEF h
  <2>2. \A i \in 1..4 - 1 : h[i].to = h[i + 1].from
    <3>1. \A i \in 1..4 - 1 : i = 1 \/ i = 2 \/ i = 3
      OBVIOUS
    <3> QED BY <3>1, <2>1, <1>2, <1>5
  <2>3. h \in Walks /\ Len(h) = 4
    BY <2>1, <2>2, WalkIs
  <2> QED BY <2>1, <2>3
<1>6. CASE row.to = "AUTHORIZED" /\ last.from = "CAPTURED"
  <2> DEFINE h == <<row, further, last>>
  <2>1. /\ h \in [1..3 -> TransitionTable]
        /\ h[1] = row /\ h[2] = further /\ h[3] = last
    BY <1>2
  <2> HIDE DEF h
  <2>2. \A i \in 1..3 - 1 : h[i].to = h[i + 1].from
    <3>1. \A i \in 1..3 - 1 : i = 1 \/ i = 2
      OBVIOUS
    <3> QED BY <3>1, <2>1, <1>2, <1>6
  <2>3. h \in Walks /\ Len(h) = 3
    BY <2>1, <2>2, WalkIs
  <2> QED BY <2>1, <2>3
<1> QED BY <1>1, <1>3, <1>4, <1>5, <1>6

\* A walk gets where its first row leads.
LEMMA WalkStays ==
  ASSUME NEW h \in Walks
  PROVE  /\ Len(h) \in 1..5 /\ h[1] \in TransitionTable
         /\ h[Len(h)] \in TransitionTable
         /\ Len(h) # 1 => h[Len(h)].from \in Reachable[h[1].to]
<1>1. PICK n \in 1..5 : h \in [1..n -> TransitionTable]
  BY DEF Walks
<1>2. Len(h) = n /\ \A i \in 1..n - 1 : h[i].to = h[i + 1].from
  BY <1>1 DEF Walks
<1>3. \A i \in 1..n : h[i] \in TransitionTable
  BY <1>1
<1> DEFINE There(i) == i <= n => h[i].from \in Reachable[h[1].to]
<1>4. h[1].to \in RecordStates
  BY <1>3, RowStates
<1>5. There(2)
  BY <1>2, <1>4, GettingOn
<1>6. ASSUME NEW i \in 2..4, There(i) PROVE There(i + 1)
  <2> SUFFICES ASSUME i + 1 <= n PROVE h[i + 1].from \in Reachable[h[1].to]
    OBVIOUS
  <2>1. i \in 1..n - 1 /\ i \in 1..n /\ h[i].from \in Reachable[h[1].to]
    BY <1>6
  <2> QED BY <2>1, <1>2, <1>3, <1>4, GettingOn
<1>7. There(3)
  <2>1. There(2 + 1)
    BY <1>5, <1>6
  <2> QED BY <2>1
<1>8. There(4)
  <2>1. There(3 + 1)
    BY <1>7, <1>6
  <2> QED BY <2>1
<1>9. There(5)
  <2>1. There(4 + 1)
    BY <1>8, <1>6
  <2> QED BY <2>1
<1>10. n = 1 \/ n = 2 \/ n = 3 \/ n = 4 \/ n = 5
  OBVIOUS
<1> QED BY <1>2, <1>3, <1>5, <1>7, <1>8, <1>9, <1>10

\* The first steps towards an event are the rows from which it is reached.
LEMMA FirstStepsAre ==
  ASSUME NEW from \in RecordStates, NEW type \in EventTypes, NEW t
  PROVE  t \in FirstSteps[from][type] <=>
           \E row \in TransitionTable :
             /\ row.from = from /\ row.type = t
             /\ t = type \/ isEventuallyPossible(row.to, type)
<1>1. t \in FirstSteps[from][type] <=>
        \E h \in Walks : h[1].from = from /\ h[Len(h)].type = type /\ h[1].type = t
  BY DEF FirstSteps
<1>2. ASSUME NEW h \in Walks,
             h[1].from = from, h[Len(h)].type = type, h[1].type = t
      PROVE  \E row \in TransitionTable :
               /\ row.from = from /\ row.type = t
               /\ t = type \/ isEventuallyPossible(row.to, type)
  <2>1. /\ h[1] \in TransitionTable /\ h[Len(h)] \in TransitionTable
        /\ Len(h) # 1 => h[Len(h)].from \in Reachable[h[1].to]
    BY WalkStays
  <2>2. Len(h) # 1 => isEventuallyPossible(h[1].to, type)
    BY <1>2, <2>1, RowStates, PossibleMeans
  <2> QED BY <1>2, <2>1, <2>2
<1>3. ASSUME NEW row \in TransitionTable, row.from = from, row.type = t,
             t = type \/ isEventuallyPossible(row.to, type)
      PROVE  \E h \in Walks :
               h[1].from = from /\ h[Len(h)].type = type /\ h[1].type = t
  <2>1. CASE t = type
    <3> DEFINE h == <<row>>
    <3>1. h \in [1..1 -> TransitionTable] /\ h[1] = row
      OBVIOUS
    <3> HIDE DEF h
    <3>2. h \in Walks /\ Len(h) = 1
      BY <3>1, WalkIs
    <3> QED BY <1>3, <2>1, <3>1, <3>2
  <2>2. CASE isEventuallyPossible(row.to, type)
    <3>1. PICK last \in TransitionTable :
            last.from \in Reachable[row.to] /\ last.type = type
      BY <2>2, RowStates, PossibleMeans
    <3>2. PICK h \in Walks : h[1] = row /\ h[Len(h)] = last
      BY <3>1, WalkThere
    <3> QED BY <1>3, <3>1, <3>2
  <2> QED BY <1>3, <2>1, <2>2
<1> QED BY <1>1, <1>2, <1>3

-----------------------------------------------------------------------------
(* What a replay's decision comes to *)

\* Within a scope an event is accepted, or refused in one of two ways.
LEMMA MeetingIs ==
  ASSUME TypeOK, NEW met \in Meetings
  PROVE  /\ met.from \in RecordStates /\ met.type \in EventTypes
         /\ met # NoMeeting
         /\ \/ Decision(met) = "ACCEPTED"
            \/ Decision(met) = "DELAYED"
            \/ Decision(met) = "CONFLICT" /\ met.outcome # "CONFLICT"
<1>1. PICK k \in DOMAIN ordered :
        met = MeetingOf(Reported(verdict, payment)[k], ordered[k].type)
  BY DEF Meetings
<1>2. ordered[k].type \in EventTypes
  BY EventAssumption DEF TypeOK
<1>3. Reported(verdict, payment)[k].from \in RecordStates
  <2>1. verdict[k].from \in RecordStates /\ k \in DOMAIN verdict
    BY DEF TypeOK
  <2> QED BY <2>1 DEF Reported, decisionRecord, TypeOK
<1>4. /\ met.from = Reported(verdict, payment)[k].from
      /\ met.type = ordered[k].type
      /\ met.outcome \in {"ACCEPTED", "INVALID_TRANSITION", "OUT_OF_ORDER"}
  BY <1>1 DEF MeetingOf
<1>5. met # NoMeeting
  BY <1>4 DEF NoMeeting
<1> QED BY <1>2, <1>3, <1>4, <1>5 DEF Decision, classifyAttempt

LEMMA FactsOfReplay ==
  ASSUME NEW met
  PROVE  /\ Decision(met) = "ACCEPTED" => factsFromReplayDecision(met) = {}
         /\ Decision(met) = "DELAYED" =>
              factsFromReplayDecision(met) =
                {[kind |-> "OUT_OF_ORDER_EVENT", from |-> met.from, type |-> met.type]}
         /\ Decision(met) = "CONFLICT" /\ met.outcome # "CONFLICT" =>
              factsFromReplayDecision(met) = {fact("INVALID_STATE_TRANSITION")}
  BY DEF factsFromReplayDecision

LEMMA FactsOfOutcome ==
  ASSUME NEW cause, NEW met, NEW last \in BOOLEAN, NEW code,
         cause = AttemptCause(code, met, last)
  PROVE  /\ code = "none" => factsFromRetryOutcome(cause) = {}
         /\ code = "PERMANENT_CONFLICT" /\ ~last =>
              factsFromRetryOutcome(cause) = {fact("CONFLICTING_EVENT")}
         /\ code \in ThrownCodes /\ ~last =>
              factsFromRetryOutcome(cause) \in
                {{fact("PROCESSING_FAILURE")}, {fact("MALFORMED_WEBHOOK")}}
         /\ code # "none" /\ last =>
              factsFromRetryOutcome(cause) = {fact("RETRY_EXHAUSTED")}
<1>1. /\ cause.code = code /\ cause.last = last
  BY DEF AttemptCause
<1>2. ASSUME code = "none" PROVE factsFromRetryOutcome(cause) = {}
  BY <1>1, <1>2 DEF factsFromRetryOutcome, AttemptStatus
<1>3. CASE code # "none" /\ last
  <2>1. AttemptStatus(cause) = "DEAD_LETTERED"
    BY <1>1, <1>3 DEF AttemptStatus
  <2> QED BY <1>1, <1>3, <2>1 DEF factsFromRetryOutcome
<1>4. CASE code = "PERMANENT_CONFLICT" /\ ~last
  <2>1. AttemptStatus(cause) = "DEAD_LETTERED"
    BY <1>1, <1>4 DEF AttemptStatus, NON_RETRYABLE_CODES
  <2>2. factsFromFailureCode(code) = {fact("CONFLICTING_EVENT")}
    BY <1>4 DEF factsFromFailureCode
  <2> QED BY <1>1, <1>4, <2>1, <2>2 DEF factsFromRetryOutcome, ThrownCodes
<1>5. CASE code \in ThrownCodes /\ ~last
  <2>1. CASE code \in NON_RETRYABLE_CODES
    <3>1. AttemptStatus(cause) = "DEAD_LETTERED"
      BY <1>1, <1>5, <2>1 DEF AttemptStatus, NON_RETRYABLE_CODES
    <3>2. code \in {"INVALID_ROW", "INVALID_CURRENCY"}
      BY <1>5, <2>1 DEF ThrownCodes, NON_RETRYABLE_CODES
    <3>3. factsFromFailureCode(code) \in
            {{fact("PROCESSING_FAILURE")}, {fact("MALFORMED_WEBHOOK")}}
      BY <3>2 DEF factsFromFailureCode, factsFromVerificationStatus,
                  factsFromWebhookErrorCode, SIGNATURE_CODES, MALFORMED_CODES
    <3> QED BY <1>1, <1>5, <3>1, <3>3 DEF factsFromRetryOutcome, ThrownCodes
  <2>2. CASE code \notin NON_RETRYABLE_CODES
    <3>1. AttemptStatus(cause) = "RETRY_SCHEDULED"
      BY <1>1, <1>5, <2>2 DEF AttemptStatus, ThrownCodes
    <3> QED BY <1>5, <3>1 DEF factsFromRetryOutcome, ThrownCodes
  <2> QED BY <2>1, <2>2
<1>6. code = "PERMANENT_CONFLICT" \/ code \in ThrownCodes => code # "none"
  BY DEF ThrownCodes
<1>7. last \/ ~last
  OBVIOUS
<1>8. CASE last
  BY <1>2, <1>3, <1>6, <1>8
<1>9. CASE ~last
  BY <1>2, <1>4, <1>5, <1>6, <1>9
<1> QED BY <1>7, <1>8, <1>9

\* A draft is a fact, or the gap in front of a delay.
LEMMA DetectedIs ==
  ASSUME NEW facts
  PROVE  /\ facts = {} => detectException(facts) = {}
         /\ \A f \in facts : f.kind \in detectException(facts)
         /\ "MISSING_EVENT" \in detectException(facts) <=>
              \E f \in facts :
                \/ f.kind = "MISSING_EVENT"
                \/ /\ f.kind = "OUT_OF_ORDER_EVENT"
                   /\ uniqueMissingPrerequisite(f.from, f.type) # {}
<1> DEFINE gaps(f) == {[kind |-> "MISSING_EVENT", from |-> f.from, type |-> missing] :
                         missing \in uniqueMissingPrerequisite(f.from, f.type)}
           delays == {g \in facts : g.kind = "OUT_OF_ORDER_EVENT"}
<1>1. expandFacts(facts) = facts \cup UNION {gaps(f) : f \in delays}
  BY DEF expandFacts
<1>2. \A g \in UNION {gaps(f) : f \in delays} : g.kind = "MISSING_EVENT"
  OBVIOUS
<1>3. UNION {gaps(f) : f \in delays} # {} <=>
        \E f \in delays : uniqueMissingPrerequisite(f.from, f.type) # {}
  <2>1. \A f : gaps(f) # {} <=> uniqueMissingPrerequisite(f.from, f.type) # {}
    OBVIOUS
  <2> HIDE DEF gaps, delays
  <2> QED BY <2>1
<1> HIDE DEF gaps
<1>4. facts = {} => detectException(facts) = {}
  BY <1>1 DEF detectException
<1>5. \A f \in facts : f.kind \in detectException(facts)
  BY <1>1 DEF detectException
<1>6. "MISSING_EVENT" \in detectException(facts) <=>
        \/ \E f \in facts : f.kind = "MISSING_EVENT"
        \/ UNION {gaps(f) : f \in delays} # {}
  BY <1>1, <1>2 DEF detectException
<1> QED BY <1>3, <1>4, <1>5, <1>6

-----------------------------------------------------------------------------
(* Theorems *)

LEMMA AttemptFacts ==
  ASSUME NEW met, NEW last \in BOOLEAN, NEW code
  PROVE  Facts(AttemptCause(code, met, last)) =
           (IF met = NoMeeting THEN {} ELSE factsFromReplayDecision(met))
             \cup factsFromRetryOutcome(AttemptCause(code, met, last))
<1>1. /\ AttemptCause(code, met, last).by = "attempt"
      /\ AttemptCause(code, met, last).met = met
  BY DEF AttemptCause
<1> QED BY <1>1 DEF Facts

\* Where the next event is forced, the detection names it.
LEMMA GapIsForced ==
  ASSUME NEW from \in RecordStates, NEW type \in EventTypes
  PROVE  uniqueMissingPrerequisite(from, type) # {} <=>
           \E t \in EventTypes \ {type} : FirstSteps[from][type] = {t}
<1> DEFINE onward == {r \in TransitionTable :
                        r.from = from /\ isEventuallyPossible(r.to, type)}
           enabling == {row.type : row \in onward}
           steps == FirstSteps[from][type]
<1>1. \A t : t \in enabling <=>
        \E row \in TransitionTable :
          row.from = from /\ row.type = t /\ isEventuallyPossible(row.to, type)
  OBVIOUS
<1>2. \A t : t \in steps <=>
        \/ t \in enabling
        \/ t = type /\ Allowed(from, type)
  BY <1>1, FirstStepsAre DEF Allowed
<1>3. uniqueMissingPrerequisite(from, type) # {} <=>
        /\ ~Allowed(from, type)
        /\ isEventuallyPossible(from, type)
        /\ Cardinality(enabling) = 1 /\ enabling # {}
  BY DEF uniqueMissingPrerequisite
<1>4. IsFiniteSet(enabling)
  <2>1. IsFiniteSet(EventTypes)
    <3>1. EventTypes = {"payment.created"} \cup {"payment.authorized"}
                         \cup {"payment.captured"} \cup {"payment.failed"}
                         \cup {"refund.created"}
      BY DEF EventTypes
    <3> QED BY <3>1, FS_Singleton, FS_Union
  <2>2. enabling \subseteq EventTypes
    BY DEF TransitionTable, EventTypes
  <2> QED BY <2>1, <2>2, FS_Subset
<1>5. Cardinality(enabling) = 1 <=> \E t : enabling = {t}
  <2> HIDE DEF enabling
  <2> QED BY <1>4, FS_Singleton
<1>6. enabling # {} => isEventuallyPossible(from, type)
  <2> SUFFICES ASSUME NEW row \in TransitionTable, row.from = from,
                      isEventuallyPossible(row.to, type)
               PROVE  isEventuallyPossible(from, type)
    OBVIOUS
  <2>1. PICK last \in TransitionTable :
          last.from \in Reachable[row.to] /\ last.type = type
    BY RowStates, PossibleMeans
  <2>2. last.from \in Reachable[from]
    BY <2>1, RowLeadsOn
  <2> QED BY <2>1, <2>2, PossibleMeans
<1>7. \A t \in enabling : t \in EventTypes /\ Allowed(from, t)
  BY DEF Allowed, TransitionTable, EventTypes
<1> HIDE DEF enabling, onward, steps
<1>8. ASSUME uniqueMissingPrerequisite(from, type) # {}
      PROVE  \E t \in EventTypes \ {type} : steps = {t}
  <2>1. PICK t : enabling = {t}
    BY <1>3, <1>5, <1>8
  <2>2. t \in EventTypes /\ t # type
    BY <1>3, <1>7, <1>8, <2>1
  <2>3. steps = {t}
    BY <1>2, <1>3, <1>8, <2>1
  <2> QED BY <2>2, <2>3
<1>9. ASSUME NEW t \in EventTypes \ {type}, steps = {t}
      PROVE  uniqueMissingPrerequisite(from, type) # {}
  <2>1. ~Allowed(from, type) /\ enabling = {t}
    BY <1>2, <1>9
  <2> QED BY <1>3, <1>5, <1>6, <2>1
<1> QED BY <1>8, <1>9 DEF steps

LEMMA MissingWhenForced ==
  ASSUME TypeOK, NEW met \in Meetings, NEW last \in BOOLEAN
  PROVE  "MISSING_EVENT" \in
             detectException(Facts(AttemptCause(DecisionCode(met), met, last)))
           <=> /\ Decision(met) = "DELAYED"
               /\ \E t \in EventTypes \ {met.type} :
                    FirstSteps[met.from][met.type] = {t}
<1> DEFINE cause == AttemptCause(DecisionCode(met), met, last)
<1>1. Facts(cause) = factsFromReplayDecision(met) \cup factsFromRetryOutcome(cause)
  BY MeetingIs, AttemptFacts
<1>2. CASE Decision(met) = "ACCEPTED"
  <2>1. DecisionCode(met) = "none"
    BY <1>2 DEF DecisionCode
  <2>2. Facts(cause) = {}
    BY <1>1, <1>2, <2>1, FactsOfReplay, FactsOfOutcome
  <2> QED BY <1>2, <2>2, DetectedIs
<1>3. CASE Decision(met) = "DELAYED"
  <2> DEFINE delay == [kind |-> "OUT_OF_ORDER_EVENT", from |-> met.from,
                       type |-> met.type]
  <2>1. DecisionCode(met) = "none"
    BY <1>3 DEF DecisionCode
  <2>2. Facts(cause) = {delay}
    BY <1>1, <1>3, <2>1, FactsOfReplay, FactsOfOutcome
  <2>3. /\ delay.kind = "OUT_OF_ORDER_EVENT"
        /\ delay.from = met.from /\ delay.type = met.type
    OBVIOUS
  <2> HIDE DEF delay
  <2>4. "MISSING_EVENT" \in detectException(Facts(cause)) <=>
          uniqueMissingPrerequisite(met.from, met.type) # {}
    BY <2>2, <2>3, DetectedIs
  <2> QED BY <1>3, <2>4, MeetingIs, GapIsForced, SMTT(40)
<1>4. CASE Decision(met) = "CONFLICT" /\ met.outcome # "CONFLICT"
  <2>1. DecisionCode(met) = "PERMANENT_CONFLICT"
    BY <1>4 DEF DecisionCode
  <2>2. factsFromRetryOutcome(cause) \in
          {{fact("CONFLICTING_EVENT")}, {fact("RETRY_EXHAUSTED")}}
    BY <2>1, FactsOfOutcome
  <2>3. \A f \in Facts(cause) : f.kind \in {"INVALID_STATE_TRANSITION",
          "CONFLICTING_EVENT", "RETRY_EXHAUSTED"}
    BY <1>1, <1>4, <2>2, FactsOfReplay DEF fact
  <2> QED BY <1>4, <2>3, DetectedIs
<1> QED BY <1>2, <1>3, <1>4, MeetingIs

LEMMA UnappliedIsRaised ==
  ASSUME TypeOK, NEW c \in AttemptCauses
  PROVE  LET detected == detectException(Facts(c))
         IN  /\ detected = {} <=> c.code = "none" /\ Decision(c.met) = "ACCEPTED"
             /\ AttemptStatus(c) = "DEAD_LETTERED" =>
                  \E code \in detected :
                    severityForExceptionCode(code) \in {"ERROR", "CRITICAL"}
<1> DEFINE detected == detectException(Facts(c))
           Grave(code) == severityForExceptionCode(code) \in {"ERROR", "CRITICAL"}
<1>1. /\ Grave("INVALID_STATE_TRANSITION") /\ Grave("RETRY_EXHAUSTED")
      /\ Grave("PROCESSING_FAILURE") /\ Grave("MALFORMED_WEBHOOK")
      /\ Grave("CONFLICTING_EVENT")
  BY DEF severityForExceptionCode
<1> HIDE DEF Grave
<1>2. \A f \in Facts(c) : f.kind \in detected
  BY DetectedIs
<1>3. ASSUME NEW met \in Meetings, NEW last \in BOOLEAN,
             c = AttemptCause(DecisionCode(met), met, last)
      PROVE  /\ detected = {} <=> c.code = "none" /\ Decision(c.met) = "ACCEPTED"
             /\ AttemptStatus(c) = "DEAD_LETTERED" => \E code \in detected : Grave(code)
  <2>1. c.code = DecisionCode(met) /\ c.met = met
    BY <1>3 DEF AttemptCause
  <2>2. Facts(c) = factsFromReplayDecision(met) \cup factsFromRetryOutcome(c)
    BY <1>3, MeetingIs, AttemptFacts
  <2>3. CASE Decision(met) = "ACCEPTED"
    <3>1. DecisionCode(met) = "none"
      BY <2>3 DEF DecisionCode
    <3>2. Facts(c) = {}
      BY <1>3, <2>2, <2>3, <3>1, FactsOfReplay, FactsOfOutcome
    <3>3. AttemptStatus(c) # "DEAD_LETTERED"
      BY <2>1, <3>1 DEF AttemptStatus
    <3> QED BY <2>1, <2>3, <3>1, <3>2, <3>3, DetectedIs
  <2>4. CASE Decision(met) = "DELAYED"
    <3>1. DecisionCode(met) = "none"
      BY <2>4 DEF DecisionCode
    <3>2. Facts(c) # {}
      BY <2>2, <2>4, FactsOfReplay
    <3>3. AttemptStatus(c) # "DEAD_LETTERED"
      BY <2>1, <3>1 DEF AttemptStatus
    <3> QED BY <1>2, <2>1, <2>4, <3>2, <3>3
  <2>5. CASE Decision(met) = "CONFLICT" /\ met.outcome # "CONFLICT"
    <3>1. fact("INVALID_STATE_TRANSITION") \in Facts(c)
      BY <2>2, <2>5, FactsOfReplay
    <3>2. "INVALID_STATE_TRANSITION" \in detected
      BY <1>2, <3>1 DEF fact
    <3> QED BY <1>1, <2>1, <2>5, <3>2
  <2> QED BY <1>3, <2>3, <2>4, <2>5, MeetingIs
<1>4. ASSUME NEW code \in ThrownCodes, NEW last \in BOOLEAN,
             c = AttemptCause(code, NoMeeting, last)
      PROVE  /\ detected = {} <=> c.code = "none" /\ Decision(c.met) = "ACCEPTED"
             /\ AttemptStatus(c) = "DEAD_LETTERED" => \E k \in detected : Grave(k)
  <2>1. c.code = code /\ code # "none"
    BY <1>4 DEF AttemptCause, ThrownCodes
  <2>2. Facts(c) = factsFromRetryOutcome(c)
    BY <1>4, AttemptFacts, ZenonT(60)
  <2>3. factsFromRetryOutcome(c) \in
          {{fact("PROCESSING_FAILURE")}, {fact("MALFORMED_WEBHOOK")},
           {fact("RETRY_EXHAUSTED")}}
    <3>1. CASE last
      BY <1>4, <2>1, <3>1, FactsOfOutcome
    <3>2. CASE ~last
      BY <1>4, <3>2, FactsOfOutcome
    <3> QED BY <3>1, <3>2
  <2>4. \E k \in {"PROCESSING_FAILURE", "MALFORMED_WEBHOOK", "RETRY_EXHAUSTED"} :
          k \in detected
    <3>1. /\ fact("PROCESSING_FAILURE").kind = "PROCESSING_FAILURE"
          /\ fact("MALFORMED_WEBHOOK").kind = "MALFORMED_WEBHOOK"
          /\ fact("RETRY_EXHAUSTED").kind = "RETRY_EXHAUSTED"
      BY DEF fact
    <3> HIDE DEF detected
    <3> QED BY <1>2, <2>2, <2>3, <3>1
  <2> QED BY <1>1, <2>1, <2>4
<1>5. \/ \E met \in Meetings, last \in BOOLEAN :
           c = AttemptCause(DecisionCode(met), met, last)
      \/ \E code \in ThrownCodes, last \in BOOLEAN :
           c = AttemptCause(code, NoMeeting, last)
  BY DEF AttemptCauses
<1> QED BY <1>3, <1>4, <1>5 DEF Grave

\* Whatever is replayed, an attempt that leaves its event unapplied raises an
\* exception, an ERROR at least if the event is given up, and one that applies
\* its event raises none.
THEOREM UnappliedIsReported == Spec => []UnappliedRaises
<1>1. TypeOK => UnappliedRaises
  BY UnappliedIsRaised DEF UnappliedRaises
<1> QED BY <1>1, TypeCorrect, PTL

\* Whatever is replayed, MISSING_EVENT is raised exactly for a delayed event
\* before which every walk of the table takes one and the same other event.
THEOREM MissingMeansForced == Spec => []MissingIsForced
<1>1. TypeOK => MissingIsForced
  <2> SUFFICES ASSUME TypeOK, NEW c \in AttemptCauses, c.met # NoMeeting
               PROVE  "MISSING_EVENT" \in detectException(Facts(c)) <=>
                        /\ Decision(c.met) = "DELAYED"
                        /\ \E t \in EventTypes \ {c.met.type} :
                             FirstSteps[c.met.from][c.met.type] = {t}
    BY DEF MissingIsForced
  <2>1. PICK met \in Meetings, last \in BOOLEAN :
          c = AttemptCause(DecisionCode(met), met, last)
    BY DEF AttemptCauses, AttemptCause
  <2>2. c.met = met
    BY <2>1 DEF AttemptCause
  <2> QED BY <2>1, <2>2, MissingWhenForced
<1> QED BY <1>1, TypeCorrect, PTL
=============================================================================
