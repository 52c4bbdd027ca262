----------------------- MODULE ApprovalJanitorProofs -----------------------
(***************************************************************************)
(* Proofs about ApprovalJanitor: it is a Store, and once Close has         *)
(* returned the janitor is gone.                                           *)
(***************************************************************************)
EXTENDS ApprovalJanitor, ApprovalStoreProofs

\* Every step of the composition is a step of the Store or leaves it alone.
LEMMA JanitorStepIsStoreStep == [JanitorNext]_allVars => [Next]_vars
  <1> SUFFICES ASSUME JanitorNext PROVE [Next]_vars
    BY DEF allVars, vars
  <1> USE JanitorAssumption
  <1>1. CASE Tick  BY <1>1 DEF Next
  <1>2. CASE Ring  BY <1>2 DEF Ring
  <1>3. CASE Wake  BY <1>3 DEF Wake
  <1>4. CASE JanitorSweep  BY <1>4 DEF JanitorSweep, Next, Step, Operation
  <1>5. CASE JanitorDelivers  BY <1>5 DEF JanitorDelivers, Delivers, Next, Step
  <1>6. CASE Rest  BY <1>6 DEF Rest
  <1>7. CASE Exit  BY <1>7 DEF Exit
  <1>8. ASSUME NEW t \in Clients, ClientStep(t) \/ ClientDeletes(t) \/ Delivers(t)
        PROVE  [Next]_vars
    BY <1>8 DEF ClientStep, ClientDeletes, Delivers, Clients, Next, Step
  <1>9. ASSUME NEW t \in Clients, Close(t) PROVE [Next]_vars
    BY <1>9 DEF Close
  <1>10. ASSUME NEW t \in Threads, HookThatCloses(t) PROVE [Next]_vars
    BY <1>10 DEF HookThatCloses, Next, Step, Operation
  <1>11. ASSUME NEW t \in Threads, Joined(t) \/ Dequeued(t) PROVE [Next]_vars
    BY <1>11 DEF Joined, Dequeued
  <1> QED
    BY <1>1, <1>2, <1>3, <1>4, <1>5, <1>6, <1>7, <1>8, <1>9, <1>10, <1>11 DEF JanitorNext

\* A Store with a janitor is a Store: whatever holds of every behaviour of the
\* Store holds with the background sweeper and Close running too.
THEOREM JanitorImplementsStore == JanitorSpec => Spec
  <1>1. JanitorInit => Init  BY DEF JanitorInit
  <1> QED  BY <1>1, JanitorStepIsStoreStep, PTL DEF JanitorSpec, Spec

\* A step of another goroutine neither takes nor leaves a clone in the
\* janitor's hands.
LEMMA OthersLeaveJanitorAlone ==
  ASSUME TypeOK, NEW t \in Threads, t # Janitor, Step(t)
  PROVE  firing'[Janitor] = firing[Janitor]
  <1> USE JanitorAssumption
  <1> firing \in [Threads -> SUBSET Approval]  BY DEF TypeOK
  <1>1. ASSUME NEW S, firing' = [firing EXCEPT ![t] = S]
        PROVE  firing'[Janitor] = firing[Janitor]
    BY <1>1
  <1>2. ASSUME NEW i, NEW a, Settle(t, i, a) PROVE firing'[Janitor] = firing[Janitor]
    BY <1>1, <1>2 DEF Settle
  <1>3. ASSUME NEW i, Expire(t, i) PROVE firing'[Janitor] = firing[Janitor]
    BY <1>2, <1>3 DEF Expire
  <1>4. ASSUME NEW i, NEW s, NEW by, Decide(t, i, s, by) PROVE firing'[Janitor] = firing[Janitor]
    BY <1>2, <1>3, <1>4 DEF Decide
  <1>5. CASE \E r \in Refs : Mint(t, r)  BY <1>5 DEF Mint
  <1>6. CASE Insert(t) \/ Refuse(t)  BY <1>6 DEF Insert, Refuse
  <1>7. CASE \E i \in Held : Get(t, i)  BY <1>3, <1>7 DEF Get
  <1>8. CASE \E i \in Held, by \in Approvers : Approve(t, i, by)
    BY <1>4, <1>8 DEF Approve
  <1>9. CASE \E i \in Held, by \in Approvers : Deny(t, i, by)
    BY <1>4, <1>9 DEF Deny
  <1>10. CASE \E i \in Held : Cancel(t, i)  BY <1>4, <1>10 DEF Cancel
  <1>11. CASE \E i \in Held : Delete(t, i)  BY <1>11 DEF Delete
  <1>12. CASE Sweep(t)  BY <1>1, <1>12 DEF Sweep
  <1>13. CASE FireResolve(t)  BY <1>13 DEF FireResolve
  <1> QED
    BY <1>5, <1>6, <1>7, <1>8, <1>9, <1>10, <1>11, <1>12, <1>13 DEF Step, Operation

LEMMA JoinedInvariantStep ==
  ASSUME TypeOK, JoinedBeforeReturn, [JanitorNext]_allVars
  PROVE  JoinedBeforeReturn'
  <1> USE JanitorAssumption DEF JoinedBeforeReturn, closeVars
  <1>0. CASE UNCHANGED allVars
    BY <1>0 DEF allVars, vars, janitorVars
  <1>1. CASE Tick /\ UNCHANGED janitorVars  BY <1>1 DEF Tick, janitorVars
  <1>2. CASE Ring  BY <1>2 DEF Ring, vars
  <1>3. CASE Wake  BY <1>3 DEF Wake, vars
  <1>4. CASE JanitorSweep  BY <1>4 DEF JanitorSweep
  <1>5. CASE JanitorDelivers  BY <1>5 DEF JanitorDelivers, Delivers, janitorVars
  <1>6. CASE Rest  BY <1>6 DEF Rest, vars
  <1>7. CASE Exit  BY <1>7 DEF Exit, vars
  <1>8. ASSUME NEW t \in Clients, ClientStep(t) \/ ClientDeletes(t) \/ Delivers(t)
        PROVE  JoinedBeforeReturn'
    <2>1. t # Janitor /\ Step(t)
      BY <1>8 DEF ClientStep, ClientDeletes, Delivers, Clients, Step
    <2>2. firing'[Janitor] = firing[Janitor]  BY <2>1, OthersLeaveJanitorAlone DEF Clients
    <2> QED  BY <1>8, <2>2 DEF ClientStep, ClientDeletes, Delivers, janitorVars
  <1>9. ASSUME NEW t \in Clients, Close(t) PROVE JoinedBeforeReturn'
    BY <1>9 DEF Close, EnterClose, vars
  <1>10. ASSUME NEW t \in Threads, HookThatCloses(t) PROVE JoinedBeforeReturn'
    <2>1. loop' = loop /\ done' = done  BY <1>10 DEF HookThatCloses
    <2>2. returned' \/ once' = "finished" => done'
      BY <1>10, <2>1 DEF HookThatCloses, EnterClose
    <2>3. CASE loop = "deliver"  BY <2>1, <2>2, <2>3
    <2>4. CASE loop # "deliver"
      <3>1. t # Janitor  BY <1>10, <2>4 DEF HookThatCloses, FireResolve
      <3>2. Step(t)  BY <1>10 DEF HookThatCloses, Step
      <3>3. firing'[Janitor] = firing[Janitor]  BY <3>1, <3>2, OthersLeaveJanitorAlone
      <3> QED  BY <2>1, <2>2, <2>4, <3>3
    <2> QED  BY <2>3, <2>4
  <1>11. ASSUME NEW t \in Threads, Joined(t) \/ Dequeued(t) PROVE JoinedBeforeReturn'
    BY <1>11 DEF Joined, Dequeued, vars
  <1> QED
    BY <1>0, <1>1, <1>2, <1>3, <1>4, <1>5, <1>6, <1>7, <1>8, <1>9, <1>10, <1>11
    DEF JanitorNext

\* Once any call of Close has returned the janitor has exited, sweeps no more
\* and owes no hook, for any number of callers of Close, hooks among them.
THEOREM CloseJoinsJanitor == JanitorSpec => []QuietAfterClose
  <1>1. JanitorInit => JoinedBeforeReturn
    BY JanitorAssumption DEF JanitorInit, Init, JoinedBeforeReturn
  <1>2. JanitorSpec => []TypeOK  BY JanitorImplementsStore, TypeCorrect, PTL
  <1>3. TypeOK /\ JoinedBeforeReturn /\ [JanitorNext]_allVars => JoinedBeforeReturn'
    BY JoinedInvariantStep
  <1>4. JoinedBeforeReturn => QuietAfterClose
    BY DEF JoinedBeforeReturn, QuietAfterClose
  <1> QED  BY <1>1, <1>2, <1>3, <1>4, PTL DEF JanitorSpec

\* The loop, the channels and the callers of Close keep their types, whatever
\* calls Close and however often.
THEOREM JanitorWellTyped == JanitorSpec => []JanitorTypeOK
  <1>1. JanitorInit => JanitorTypeOK  BY DEF JanitorInit, JanitorTypeOK
  <1>2. TypeOK /\ JanitorTypeOK /\ [JanitorNext]_allVars => JanitorTypeOK'
    <2> SUFFICES ASSUME TypeOK, JanitorTypeOK, [JanitorNext]_allVars PROVE JanitorTypeOK'
      OBVIOUS
    <2> USE DEF JanitorTypeOK, janitorVars, closeVars
    <2>1. CASE UNCHANGED allVars  BY <2>1 DEF allVars
    <2>2. CASE Tick /\ UNCHANGED janitorVars  BY <2>2
    <2>3. CASE Ring \/ Wake \/ Rest \/ Exit  BY <2>3 DEF Ring, Wake, Rest, Exit
    <2>4. CASE JanitorSweep \/ JanitorDelivers
      BY <2>4 DEF JanitorSweep, JanitorDelivers, Delivers
    <2>5. ASSUME NEW t \in Clients, ClientStep(t) \/ Delivers(t) PROVE JanitorTypeOK'
      BY <2>5 DEF ClientStep, Delivers
    <2>6. ASSUME NEW t \in Threads, Close(t) \/ HookThatCloses(t) PROVE JanitorTypeOK'
      <3>1. EnterClose(t) /\ UNCHANGED <<loop, ticked, done, deleted>>
        BY <2>6 DEF Close, HookThatCloses
      <3> QED  BY <3>1 DEF EnterClose
    <2>7. ASSUME NEW t \in Threads, Joined(t) \/ Dequeued(t) PROVE JanitorTypeOK'
      BY <2>7 DEF Joined, Dequeued
    <2>8. ASSUME NEW t \in Clients, ClientDeletes(t) PROVE JanitorTypeOK'
      <3>1. deleted' \subseteq Ids  BY <2>8 DEF ClientDeletes, TypeOK
      <3> QED  BY <2>8, <3>1 DEF ClientDeletes
    <2> QED
      BY <2>1, <2>2, <2>3, <2>4, <2>5, <2>6, <2>7, <2>8 DEF JanitorNext, Clients
  <1>3. JanitorSpec => []TypeOK  BY JanitorImplementsStore, TypeCorrect, PTL
  <1> QED  BY <1>1, <1>2, <1>3, PTL DEF JanitorSpec
=============================================================================
