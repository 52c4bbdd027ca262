------------------------- MODULE BatchEvaluationProofs -------------------------
(***************************************************************************)
(* The results of the default EvaluateBatch, for every batch, every         *)
(* semantic, every answer of the PDP and every write it makes: exactly the  *)
(* deciding prefix, members that do not share maps, failures that deny.     *)
(***************************************************************************)
EXTENDS BatchEvaluation, SequenceTheorems, TLAPS

SeenSet == {Resolved(r)[k] : r \in Batches, k \in Nat}
OutSet == Decisions \cup {FailedMember(k) : k \in Nat}
AnswerSet == [how : {"decided"}, decision : Decisions]
    \cup [how : {"error", "cancelled", "nil", "panic", "abort"}, decision : {None}]

BatchTypes ==
    /\ stage \in {"idle", "loop"} \cup Outcomes
    /\ stage # "idle" => request \in Batches
    /\ stage = "idle" => seen = <<>> /\ answers = <<>> /\ out = <<>> /\ written = {}
    /\ seen \in Seq(SeenSet)
    /\ answers \in Seq(AnswerSet)
    /\ out \in Seq(OutSet)

(* The three sequences grow together while the loop runs, and no further    *)
(* than the members; a call that failed has asked once more.                *)
InStep ==
    /\ Len(seen) = Len(answers)
    /\ Len(out) <= Len(answers)
    /\ Len(answers) <= Len(out) + 1
    /\ stage \in {"loop", "returned"} => Len(out) = Len(answers)
    /\ stage = "loop" => Len(out) < Len(Resolved(request))
    /\ stage # "idle" => Len(answers) <= Len(Resolved(request))

(* Nothing the loop has collected and gone past stops its semantic.         *)
PassedOn == stage = "loop" => \A k \in 1 .. Len(out) : ~Stopped(k)

(* The PDP writes to the members it has seen, through cells of their own.   *)
OwnCells ==
    \A c \in written : \E k \in 1 .. Len(seen), f \in Fields : c = <<"member", k, f>>

SeenAsAsked == \A k \in 1 .. Len(seen) : seen[k] = Resolved(request)[k]

BatchInv ==
    BatchTypes /\ InStep /\ PassedOn /\ ExactPrefix /\ OwnCells /\ SeenAsAsked
        /\ FailuresAreDenies /\ CancellationFailsBatch

(***************************************************************************)
(* Lemmas on the operators.                                                 *)
(***************************************************************************)

(* A batch resolves to at least one member, each a function on Fields.      *)
LEMMA ResolvedMembers ==
    ASSUME NEW r \in Batches
    PROVE  /\ Len(Resolved(r)) \in Nat /\ Len(Resolved(r)) >= 1
           /\ \A k \in 1 .. Len(Resolved(r)) :
                 Resolved(r)[k] = [f \in Fields |-> Resolved(r)[k][f]]
<1>1. CASE r.evaluations = <<>>
  BY <1>1 DEF Resolved
<1>2. CASE r.evaluations # <<>>
  <2> DEFINE n == Len(r.evaluations)
             g(k) == [f \in Fields |-> IF r.evaluations[k][f] # None
                                       THEN r.evaluations[k][f] ELSE r[f]]
             S == {g(k) : k \in 1 .. n}
  <2>1. n \in Nat /\ n >= 1
    <3>1. r.evaluations \in Seq(EvaluationRequests)
      BY BatchAssumption DEF EvaluationsRequests
    <3> QED
      BY <1>2, <3>1, EmptySeq, LenProperties
  <2>2. Resolved(r) = [k \in 1 .. n |-> g(k)]
    BY <1>2 DEF Resolved
  <2>3. Resolved(r) \in [1 .. n -> S]
    BY <2>2
  <2>4. Resolved(r) \in Seq(S)
    BY <2>1, <2>3, SeqDef
  <2>5. Len(Resolved(r)) = n
    <3>1. DOMAIN Resolved(r) = 1 .. n
      BY <2>2
    <3>2. DOMAIN Resolved(r) = 1 .. Len(Resolved(r)) /\ Len(Resolved(r)) \in Nat
      BY <2>4, LenProperties
    <3> QED
      BY <3>1, <3>2, <2>1
  <2>6. ASSUME NEW k \in 1 .. n PROVE Resolved(r)[k] = [f \in Fields |-> Resolved(r)[k][f]]
    <3>1. Resolved(r)[k] = g(k)
      BY <2>2
    <3> QED
      BY <3>1, Zenon
  <2> QED
    BY <2>1, <2>5, <2>6
<1> QED
  BY <1>1, <1>2

(* What appending to one of the sequences does.                             *)
LEMMA Appended ==
    ASSUME NEW S, NEW s \in Seq(S), NEW e \in S
    PROVE  /\ Append(s, e) \in Seq(S)
           /\ Len(s) \in Nat
           /\ Len(Append(s, e)) = Len(s) + 1
           /\ Append(s, e)[Len(s) + 1] = e
           /\ \A k \in 1 .. Len(s) : Append(s, e)[k] = s[k]
  OBVIOUS

(***************************************************************************)
(* A call of the PDP.                                                       *)
(***************************************************************************)

(* The member handed over is that of the request: its cells are not yet in  *)
(* the PDP's hands.                                                         *)
LEMMA HandedAsResolved ==
    ASSUME BatchInv, stage = "loop"
    PROVE  /\ Current \in 1 .. Len(Resolved(request))
           /\ Handed(Current) = Resolved(request)[Current]
<1>1. /\ request \in Batches /\ Len(Resolved(request)) \in Nat
      /\ Len(out) \in Nat /\ Len(out) = Len(seen) /\ Len(out) < Len(Resolved(request))
  BY ResolvedMembers, LenProperties DEF BatchInv, BatchTypes, InStep
<1>2. Current \in 1 .. Len(Resolved(request))
  BY <1>1 DEF Current
<1>3. \A f \in Fields : Cell(Current, f) \notin written
  <2> SUFFICES ASSUME NEW f \in Fields, Cell(Current, f) \in written
               PROVE  FALSE
    OBVIOUS
  <2>1. PICK k \in 1 .. Len(seen), g \in Fields : <<"member", Current, f>> = <<"member", k, g>>
    BY DEF BatchInv, OwnCells, Cell
  <2> QED
    BY <1>1, <2>1 DEF Current
<1>4. Handed(Current) = [f \in Fields |-> Resolved(request)[Current][f]]
  BY <1>3 DEF Handed
<1>5. Resolved(request)[Current] = [f \in Fields |-> Resolved(request)[Current][f]]
  BY <1>1, <1>2, ResolvedMembers
<1> QED
  BY <1>2, <1>4, <1>5

LEMMA Asked ==
    ASSUME BatchInv, NEW how \in {"decided", "error", "cancelled", "nil", "panic", "abort"},
           NEW d \in IF how = "decided" THEN Decisions ELSE {None}, Ask(how, d)
    PROVE  /\ stage = "loop" /\ request' = request /\ written' = written
           /\ seen' \in Seq(SeenSet) /\ answers' \in Seq(AnswerSet)
           /\ Len(out) \in Nat
           /\ Len(seen') = Len(out) + 1 /\ Len(answers') = Len(out) + 1
           /\ Len(answers') <= Len(Resolved(request'))
           /\ SeenAsAsked' /\ OwnCells'
           /\ \A k \in 1 .. Len(out) : answers'[k] = answers[k]
           /\ answers'[Len(out) + 1].how = how /\ answers'[Len(out) + 1].decision = d
<1> DEFINE a == [how |-> how, decision |-> d]
           m == Resolved(request)[Current]
<1>1. /\ stage = "loop" /\ request' = request /\ written' = written
      /\ seen' = Append(seen, m) /\ answers' = Append(answers, a)
  BY HandedAsResolved DEF Ask
<1>2. /\ seen \in Seq(SeenSet) /\ answers \in Seq(AnswerSet) /\ out \in Seq(OutSet)
      /\ Len(out) = Len(answers) /\ Len(seen) = Len(answers) /\ request \in Batches
  BY <1>1 DEF BatchInv, BatchTypes, InStep
<1>3. Len(out) \in Nat
  BY <1>2, LenProperties
<1>4. m \in SeenSet
  BY <1>2, <1>3 DEF SeenSet, Current
<1>5. a \in AnswerSet /\ a.how = how /\ a.decision = d
  BY DEF AnswerSet
<1> HIDE DEF a, m
<1>6. /\ seen' \in Seq(SeenSet) /\ Len(seen') = Len(seen) + 1 /\ seen'[Len(seen) + 1] = m
      /\ \A k \in 1 .. Len(seen) : seen'[k] = seen[k]
  BY <1>1, <1>2, <1>4, Appended
<1>7. /\ answers' \in Seq(AnswerSet) /\ Len(answers') = Len(answers) + 1
      /\ answers'[Len(answers) + 1] = a
      /\ \A k \in 1 .. Len(answers) : answers'[k] = answers[k]
  BY <1>1, <1>2, <1>5, Appended
<1>8. SeenAsAsked'
  <2> SUFFICES ASSUME NEW k \in 1 .. Len(seen')
               PROVE  seen'[k] = Resolved(request)[k]
    BY <1>1 DEF SeenAsAsked
  <2>1. CASE k \in 1 .. Len(seen)
    BY <2>1, <1>6 DEF BatchInv, SeenAsAsked
  <2>2. CASE k = Len(seen) + 1
    BY <2>2, <1>2, <1>6 DEF m, Current
  <2> QED
    BY <2>1, <2>2, <1>2, <1>3, <1>6
<1>9. OwnCells'
  BY <1>1, <1>2, <1>3, <1>6 DEF BatchInv, OwnCells
<1>10. Len(out) + 1 <= Len(Resolved(request'))
  <2>1. Len(out) < Len(Resolved(request)) /\ Len(Resolved(request)) \in Nat
    BY <1>1, <1>2, ResolvedMembers DEF BatchInv, InStep
  <2> QED
    BY <1>1, <1>3, <2>1
<1> QED
  BY <1>1, <1>2, <1>3, <1>5, <1>6, <1>7, <1>8, <1>9, <1>10

(* Collecting a decision: the loop goes on past it, or ends right there.    *)
LEMMA Collected ==
    ASSUME BatchInv, stage = "loop", request' = request, NEW d \in OutSet, Collect(d),
           Len(answers') = Len(out) + 1
    PROVE  /\ stage' \in {"loop", "returned"}
           /\ out' \in Seq(OutSet) /\ Len(out') = Len(out) + 1
           /\ \A k \in 1 .. Len(out) : out'[k] = out[k]
           /\ out'[Len(out) + 1] = d
           /\ stage' = "loop" => Len(out') < Len(Resolved(request'))
           /\ PassedOn' /\ ExactPrefix'
<1> DEFINE Stop == Stops(SemanticOf(request), d.decision)
           n == Len(Resolved(request))
<1>1. /\ out \in Seq(OutSet) /\ request \in Batches /\ Len(out) < n
      /\ \A k \in 1 .. Len(out) : ~Stops(SemanticOf(request), out[k].decision)
  BY DEF BatchInv, BatchTypes, InStep, PassedOn, Stopped
<1>2. n \in Nat
  BY <1>1, ResolvedMembers
<1>3. out' = Append(out, d) /\ stage' = IF Len(out) + 1 = n \/ Stop THEN "returned" ELSE "loop"
  BY DEF Collect, Current
<1> HIDE DEF n
<1>4. /\ Len(out) \in Nat /\ out' \in Seq(OutSet) /\ Len(out') = Len(out) + 1
      /\ out'[Len(out) + 1] = d /\ \A k \in 1 .. Len(out) : out'[k] = out[k]
  BY <1>1, <1>3, Appended
<1>5. \A k \in 1 .. Len(out) : ~Stops(SemanticOf(request'), out'[k].decision)
  BY <1>1, <1>4
<1>6. Stops(SemanticOf(request'), out'[Len(out) + 1].decision) <=> Stop
  BY <1>4
<1> HIDE DEF Stop
<1>7. PassedOn'
  <2> SUFFICES ASSUME stage' = "loop", NEW k \in 1 .. Len(out')
               PROVE  ~Stops(SemanticOf(request'), out'[k].decision)
    BY DEF PassedOn, Stopped
  <2>1. ~Stop
    BY <1>3
  <2> QED
    BY <2>1, <1>4, <1>5, <1>6
<1>8. ExactPrefix'
  <2> SUFFICES ASSUME stage' = "returned"
               PROVE  /\ Len(out') = Len(answers')
                      /\ \A k \in 1 .. Len(out') - 1 : ~Stops(SemanticOf(request'), out'[k].decision)
                      /\ \/ Len(out') = n
                         \/ Stops(SemanticOf(request'), out'[Len(out')].decision)
    BY DEF ExactPrefix, Stopped, n
  <2> QED
    BY <1>3, <1>4, <1>5, <1>6
<1> QED
  BY <1>1, <1>2, <1>3, <1>4, <1>7, <1>8 DEF n

(* An answer that is not the context's end keeps a loop free of them.       *)
LEMMA NotCancelled ==
    ASSUME BatchInv, stage = "loop", Len(out) \in Nat, Len(answers') = Len(out) + 1,
           \A k \in 1 .. Len(out) : answers'[k] = answers[k],
           answers'[Len(out) + 1].how # "cancelled"
    PROVE  CancellationFailsBatch'
<1>1. Len(answers) = Len(out)
  BY DEF BatchInv, InStep
<1>2. \A k \in 1 .. Len(out) : answers[k].how # "cancelled"
  BY <1>1 DEF BatchInv, CancellationFailsBatch
<1> QED
  BY <1>2 DEF CancellationFailsBatch

(***************************************************************************)
(* Every step keeps the invariant.                                          *)
(***************************************************************************)
LEMMA DecidedKeepsInv ==
    ASSUME BatchInv, NEW d \in Decisions, MemberDecided(d)
    PROVE  BatchInv'
<1>1. Ask("decided", d) /\ Collect(d) /\ logged' = logged /\ d \in OutSet
  BY DEF MemberDecided, OutSet
<1>2. /\ stage = "loop" /\ request' = request
      /\ seen' \in Seq(SeenSet) /\ answers' \in Seq(AnswerSet) /\ Len(out) \in Nat
      /\ Len(seen') = Len(out) + 1 /\ Len(answers') = Len(out) + 1
      /\ Len(answers') <= Len(Resolved(request'))
      /\ SeenAsAsked' /\ OwnCells'
      /\ \A k \in 1 .. Len(out) : answers'[k] = answers[k]
      /\ answers'[Len(out) + 1].how = "decided" /\ answers'[Len(out) + 1].decision = d
  BY <1>1, Asked
<1>3. /\ stage' \in {"loop", "returned"}
      /\ out' \in Seq(OutSet) /\ Len(out') = Len(out) + 1
      /\ \A k \in 1 .. Len(out) : out'[k] = out[k]
      /\ out'[Len(out) + 1] = d
      /\ stage' = "loop" => Len(out') < Len(Resolved(request'))
      /\ PassedOn' /\ ExactPrefix'
  BY <1>1, <1>2, Collected
<1>4. BatchTypes' /\ InStep'
  BY <1>2, <1>3 DEF BatchInv, BatchTypes, InStep, Outcomes
<1>5. FailuresAreDenies'
  <2> SUFFICES ASSUME NEW k \in 1 .. Len(out')
               PROVE  IF answers'[k].how = "error"
                      THEN ~out'[k].decision /\ out'[k].error # None /\ out'[k].error.id \in logged'
                      ELSE out'[k] = answers'[k].decision
    BY DEF FailuresAreDenies
  <2>1. CASE k \in 1 .. Len(out)
    BY <1>1, <1>2, <1>3, <2>1 DEF BatchInv, FailuresAreDenies
  <2>2. CASE k = Len(out) + 1
    BY <1>2, <1>3, <2>2
  <2> QED
    BY <2>1, <2>2, <1>2, <1>3
<1>6. CancellationFailsBatch'
  BY <1>2, NotCancelled
<1> QED
  BY <1>2, <1>3, <1>4, <1>5, <1>6 DEF BatchInv

(* What a failed member contributes.                                        *)
LEMMA FailedMemberDenies ==
    ASSUME NEW k \in Nat
    PROVE  /\ FailedMember(k) \in OutSet
           /\ ~FailedMember(k).decision
           /\ FailedMember(k).error # None
           /\ FailedMember(k).error.id = k
<1>1. [id |-> k, detail |-> VerboseErrors] # None
  BY BatchAssumption, NilAssumption DEF MemberErrors
<1> QED
  BY <1>1 DEF OutSet, FailedMember

LEMMA ErredKeepsInv ==
    ASSUME BatchInv, MemberErred
    PROVE  BatchInv'
<1>1. PICK how \in {"error", "cancelled"} : (how = "cancelled" => ctxErr) /\ Ask(how, None)
  BY DEF MemberErred, PdpFails
<1>2. /\ stage = "loop" /\ request' = request
      /\ seen' \in Seq(SeenSet) /\ answers' \in Seq(AnswerSet) /\ Len(out) \in Nat
      /\ Len(seen') = Len(out) + 1 /\ Len(answers') = Len(out) + 1
      /\ Len(answers') <= Len(Resolved(request'))
      /\ SeenAsAsked' /\ OwnCells'
      /\ \A k \in 1 .. Len(out) : answers'[k] = answers[k]
      /\ answers'[Len(out) + 1].how = how
  BY <1>1, Asked
<1>3. CASE ctxErr /\ stage' = "failed" /\ UNCHANGED <<out, logged>>
  <2>1. BatchTypes' /\ InStep'
    BY <1>2, <1>3 DEF BatchInv, BatchTypes, InStep, Outcomes
  <2>2. PassedOn' /\ ExactPrefix'
    BY <1>3 DEF PassedOn, ExactPrefix
  <2>3. FailuresAreDenies'
    BY <1>2, <1>3 DEF BatchInv, FailuresAreDenies
  <2>4. CancellationFailsBatch'
    BY <1>2, <1>3 DEF CancellationFailsBatch
  <2> QED
    BY <1>2, <2>1, <2>2, <2>3, <2>4 DEF BatchInv
<1>4. CASE ~ctxErr /\ Collect(FailedMember(Current)) /\ logged' = logged \cup {Current}
  <2> DEFINE d == FailedMember(Current)
  <2>1. /\ d \in OutSet /\ ~d.decision /\ d.error # None /\ d.error.id \in logged'
        /\ Collect(d)
    <3>1. Current \in Nat
      BY <1>2 DEF Current
    <3> QED
      BY <1>4, <3>1, FailedMemberDenies
  <2> HIDE DEF d
  <2>2. /\ stage' \in {"loop", "returned"}
        /\ out' \in Seq(OutSet) /\ Len(out') = Len(out) + 1
        /\ \A k \in 1 .. Len(out) : out'[k] = out[k]
        /\ out'[Len(out) + 1] = d
        /\ stage' = "loop" => Len(out') < Len(Resolved(request'))
        /\ PassedOn' /\ ExactPrefix'
    BY <1>2, <2>1, Collected
  <2>3. BatchTypes' /\ InStep'
    BY <1>2, <2>2 DEF BatchInv, BatchTypes, InStep, Outcomes
  <2>4. FailuresAreDenies'
    <3> SUFFICES ASSUME NEW k \in 1 .. Len(out')
                 PROVE  IF answers'[k].how = "error"
                        THEN ~out'[k].decision /\ out'[k].error # None /\ out'[k].error.id \in logged'
                        ELSE out'[k] = answers'[k].decision
      BY DEF FailuresAreDenies
    <3>1. CASE k \in 1 .. Len(out)
      BY <1>2, <1>4, <2>2, <3>1 DEF BatchInv, FailuresAreDenies
    <3>2. CASE k = Len(out) + 1
      BY <1>1, <1>2, <1>4, <2>1, <2>2, <3>2
    <3> QED
      BY <3>1, <3>2, <1>2, <2>2
  <2>5. CancellationFailsBatch'
    BY <1>1, <1>2, <1>4, NotCancelled
  <2> QED
    BY <1>2, <2>2, <2>3, <2>4, <2>5 DEF BatchInv
<1> QED
  BY <1>3, <1>4 DEF MemberErred

LEMMA PanickedKeepsInv ==
    ASSUME BatchInv, MemberPanicked
    PROVE  BatchInv'
<1>1. PICK how \in {"nil", "panic", "abort"} : Ask(how, None)
  BY DEF MemberPanicked
<1>2. stage' \in {"panicked", "aborted"} /\ out' = out /\ logged' = logged
  BY DEF MemberPanicked
<1>3. /\ stage = "loop" /\ request' = request
      /\ seen' \in Seq(SeenSet) /\ answers' \in Seq(AnswerSet) /\ Len(out) \in Nat
      /\ Len(seen') = Len(out) + 1 /\ Len(answers') = Len(out) + 1
      /\ Len(answers') <= Len(Resolved(request'))
      /\ SeenAsAsked' /\ OwnCells'
      /\ \A k \in 1 .. Len(out) : answers'[k] = answers[k]
      /\ answers'[Len(out) + 1].how = how
  BY <1>1, Asked
<1>4. BatchTypes' /\ InStep'
  BY <1>2, <1>3 DEF BatchInv, BatchTypes, InStep, Outcomes
<1>5. PassedOn' /\ ExactPrefix'
  BY <1>2 DEF PassedOn, ExactPrefix
<1>6. FailuresAreDenies'
  BY <1>2, <1>3 DEF BatchInv, FailuresAreDenies
<1>7. CancellationFailsBatch'
  BY <1>3, NotCancelled
<1> QED
  BY <1>3, <1>4, <1>5, <1>6, <1>7 DEF BatchInv

LEMMA PdpWritesKeepsInv ==
    ASSUME BatchInv, NEW k \in 1 .. Len(seen), NEW f \in Fields, PdpWrites(k, f)
    PROVE  BatchInv'
<1>1. /\ UNCHANGED <<stage, request, ctxErr, seen, answers, out, logged>>
      /\ written' = written \cup {<<"member", k, f>>} /\ stage = "loop"
  BY DEF PdpWrites, Cell
<1>2. BatchTypes'
  BY <1>1 DEF BatchInv, BatchTypes
<1>3. OwnCells'
  BY <1>1 DEF BatchInv, OwnCells
<1> QED
  BY <1>1, <1>2, <1>3 DEF BatchInv, InStep, PassedOn, ExactPrefix, Stopped, SeenAsAsked,
                          FailuresAreDenies, CancellationFailsBatch

(* A call begins, or is over: nothing is asked, collected or written.       *)
LEMMA EmptyKeepsInv ==
    ASSUME \/ stage' = "idle"
           \/ stage' = "loop" /\ request' \in Batches,
           seen' = <<>>, answers' = <<>>, out' = <<>>, written' = {}
    PROVE  BatchInv'
<1>1. BatchTypes'
  BY DEF BatchTypes, Outcomes
<1>2. InStep'
  BY ResolvedMembers DEF InStep
<1> QED
  BY <1>1, <1>2 DEF BatchInv, PassedOn, ExactPrefix, OwnCells, SeenAsAsked, FailuresAreDenies,
                    CancellationFailsBatch

LEMMA BatchInvHolds == BatchSpec => []BatchInv
<1>1. BatchInit => BatchInv
  BY DEF BatchInit, BatchInv, BatchTypes, InStep, PassedOn, ExactPrefix, OwnCells, SeenAsAsked,
         FailuresAreDenies, CancellationFailsBatch, Outcomes
<1>2. BatchInv /\ [BatchNext]_batchVars => BatchInv'
  <2> SUFFICES ASSUME BatchInv, [BatchNext]_batchVars
               PROVE  BatchInv'
    OBVIOUS
  <2>1. CASE \E r \in Batches : Begin(r)
    <3>1. PICK r \in Batches : Begin(r)
      BY <2>1
    <3>2. seen' = <<>> /\ answers' = <<>> /\ out' = <<>> /\ written' = {}
      BY <3>1 DEF Begin, BatchInv, BatchTypes
    <3>3. stage' = "loop" /\ request' \in Batches
      BY <3>1 DEF Begin
    <3> QED
      BY <3>2, <3>3, EmptyKeepsInv
  <2>2. CASE BatchStep
    BY <2>2, DecidedKeepsInv, ErredKeepsInv, PanickedKeepsInv, PdpWritesKeepsInv DEF BatchStep
  <2>3. CASE Cancel
    BY <2>3 DEF Cancel, BatchInv, BatchTypes, InStep, PassedOn, ExactPrefix, Stopped, OwnCells,
                SeenAsAsked, FailuresAreDenies, CancellationFailsBatch
  <2>4. CASE Return
    BY <2>4, EmptyKeepsInv DEF Return
  <2>5. CASE UNCHANGED batchVars
    BY <2>5 DEF batchVars, BatchInv, BatchTypes, InStep, PassedOn, ExactPrefix, Stopped, OwnCells,
                SeenAsAsked, FailuresAreDenies, CancellationFailsBatch
  <2> QED
    BY <2>1, <2>2, <2>3, <2>4, <2>5 DEF BatchNext
<1> QED
  BY <1>1, <1>2, PTL DEF BatchSpec

(***************************************************************************)
(* Theorems.                                                                *)
(***************************************************************************)

(* Every batch that returns holds exactly the deciding prefix of its        *)
(* members' decisions (server.go:145-176).                                  *)
THEOREM BatchesAreExact == BatchSpec => []ExactPrefix
<1>1. BatchInv => ExactPrefix
  BY DEF BatchInv
<1> QED
  BY <1>1, BatchInvHolds, PTL

(* No write of a PDP reaches a member it is asked about later, or the       *)
(* caller's request (evaluations.go:141-240).                               *)
THEOREM BatchMembersAreIsolated == BatchSpec => []MembersIsolated
<1>1. BatchInv => MembersIsolated
  BY DEF BatchInv, SeenAsAsked, OwnCells, MembersIsolated
<1> QED
  BY <1>1, BatchInvHolds, PTL

(* A member the PDP failed on is a deny with a logged id, and one it did    *)
(* not fail on is what it decided; a batch in which the PDP reported the    *)
(* end of the context has failed.  For whatever number of members, and in   *)
(* whatever order the cancellation, the PDP's answer and the loop's look at *)
(* the context come (server.go:145-166, 217-232).                           *)
THEOREM BatchFailuresDeny == BatchSpec => []FailedMembersDeny
<1>1. BatchInv => FailedMembersDeny
  BY DEF BatchInv, FailedMembersDeny
<1> QED
  BY <1>1, BatchInvHolds, PTL
=============================================================================
