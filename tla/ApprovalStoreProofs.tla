------------------------- MODULE ApprovalStoreProofs -------------------------
(***************************************************************************)
(* Theorems about ApprovalStore, for every set of goroutines, objects and  *)
(* ids, every lifetime, cap and clock bound.                               *)
(***************************************************************************)
EXTENDS ApprovalStore, FiniteSetTheorems, TLAPS

-----------------------------------------------------------------------------
(* Lemmas on the operators.                                                *)

\* The wrapped lifetime is still a number of seconds.
LEMMA SecondsType == ASSUME NEW n \in Int PROVE Seconds(n) \in Int
  BY StoreAssumption DEF Seconds

\* Reclaiming records leaves the others as they are.
LEMMA RemovalEffect ==
  ASSUME NEW S, items' = Without(S)
  PROVE  /\ Held' = Held \ S
         /\ \A i \in Held' : items'[i] = items[i]
  BY DEF Without, Restrict, Held

LEMMA RemovalType ==
  ASSUME TypeOK, NEW S, items' = Without(S)
  PROVE  (Held \subseteq Ids /\ items \in [Held -> Record])'
  <1>1. Held \subseteq Ids /\ items \in [Held -> Record]  BY DEF TypeOK
  <1>2. Held' = Held \ S /\ items' \in [Held \ S -> Record]
    BY <1>1 DEF Without, Restrict, Held
  <1> QED  BY <1>1, <1>2

\* The approval of a held record is an Approval.
LEMMA StoredType ==
  ASSUME TypeOK, NEW i \in Held
  PROVE  Stored(i) \in Approval /\ items[i].ref \in Refs
  BY DEF TypeOK, Stored, Record

\* What Create, expireLocked and the decisions write is an approval.
LEMMA FreshType ==
  ASSUME NEW a \in Approval, NEW i \in Ids
  PROVE  /\ Fresh(a, i) \in Approval
         /\ Fresh(a, i).id = i
         /\ Fresh(a, i).status = "pending"
  <1> DEFINE n == IF a.expiresIn <= 0 THEN DefaultExpiresIn ELSE a.expiresIn
  <1>1. n \in Int  BY StoreAssumption DEF Approval
  <1>2. i \in OrNone(Ids) /\ "pending" \in Status
        /\ None \in OrNone(Approvers) /\ None \in OrNone(Nat)
    BY DEF OrNone, Status
  <1>3. Fresh(a, i) = [a EXCEPT !.id = i, !.status = "pending", !.expiresIn = n,
                                !.decidedBy = None, !.decidedAt = None]
    BY DEF Fresh
  <1> HIDE DEF n
  <1> QED  BY <1>1, <1>2, <1>3 DEF Approval

LEMMA LapsedType ==
  ASSUME NEW a \in Approval
  PROVE  /\ Lapsed(a) \in Approval
         /\ Lapsed(a).id = a.id
         /\ Lapsed(a).status = "expired"
  <1> DEFINE zero == 0
  <1>1. zero \in Int /\ "expired" \in Status  BY DEF Status, TerminalStatus
  <1>2. Lapsed(a) = [a EXCEPT !.status = "expired", !.expiresIn = zero]  BY DEF Lapsed
  <1> HIDE DEF zero
  <1> QED  BY <1>1, <1>2 DEF Approval

LEMMA DecidedType ==
  ASSUME NEW a \in Approval, NEW s \in TerminalStatus, NEW by \in OrNone(Approvers),
         NEW at \in Nat
  PROVE  /\ Decided(a, s, by, at) \in Approval
         /\ Decided(a, s, by, at).id = a.id
         /\ Decided(a, s, by, at).status = s
  <1> DEFINE zero == 0
  <1>1. zero \in Int /\ s \in Status /\ at \in OrNone(Nat)  BY DEF Status, OrNone
  <1>2. Decided(a, s, by, at) = [a EXCEPT !.status = s, !.expiresIn = zero,
                                          !.decidedBy = by, !.decidedAt = at]
    BY DEF Decided
  <1> HIDE DEF zero
  <1> QED  BY <1>1, <1>2 DEF Approval

\* Insert adds one record, for an id whose Create call was in flight.
LEMMA InsertEffect ==
  ASSUME NEW t \in Threads, Insert(t)
  PROVE  \E c \in creating[t] :
            /\ Held' = Held \cup {c.id}
            /\ \A i \in Held \ {c.id} : items'[i] = items[i]
            /\ items'[c.id] = Stamp(c)
            /\ DOMAIN born' = DOMAIN born \cup {c.id}
            /\ \A i \in DOMAIN born \ {c.id} : born'[i] = born[i]
            /\ born'[c.id] = BirthOf(c)
            /\ creating' = [creating EXCEPT ![t] = {}]
            /\ UNCHANGED <<heap, now, firing, minted, observed, announced>>
  <1>1. PICK c \in creating[t] : /\ items' = Put(items, c.id, Stamp(c))
                                 /\ born' = Put(born, c.id, BirthOf(c))
    BY DEF Insert
  <1>2. /\ DOMAIN born' = DOMAIN born \cup {c.id}
        /\ \A i \in DOMAIN born \ {c.id} : born'[i] = born[i]
        /\ born'[c.id] = BirthOf(c)
    BY <1>1 DEF Put
  <1>3. /\ Held' = Held \cup {c.id}
        /\ \A i \in Held \ {c.id} : items'[i] = items[i]
        /\ items'[c.id] = Stamp(c)
    BY <1>1 DEF Put, Held
  <1>4. /\ creating' = [creating EXCEPT ![t] = {}]
        /\ UNCHANGED <<heap, now, firing, minted, observed, announced>>
    BY DEF Insert
  <1> QED  BY <1>2, <1>3, <1>4

\* Every call of Get, Approve, Deny and Cancel either writes one terminal
\* approval over a pending one, or only reports the status it finds.
LEMMA SettleOrReport ==
  ASSUME TypeOK, NEW t \in Threads, NEW i \in Held,
         \/ Get(t, i)
         \/ \E by \in Approvers : Approve(t, i, by)
         \/ \E by \in Approvers : Deny(t, i, by)
         \/ Cancel(t, i)
  PROVE  /\ Idle(t)
         /\ \/ /\ Stored(i).status = "pending"
               /\ now' \in Nat
               /\ \E a \in Approval : /\ a.id = Stored(i).id
                                      /\ a.status \in TerminalStatus
                                      /\ Settle(t, i, a)
            \/ /\ Tell(i, Stored(i).status)
               /\ UNCHANGED <<heap, items, now, creating, firing, minted, born, announced>>
  <1> DEFINE Report == /\ Tell(i, Stored(i).status)
                       /\ UNCHANGED <<heap, items, now, creating, firing, minted, born, announced>>
             Settled == /\ Stored(i).status = "pending"
                        /\ now' \in Nat
                        /\ \E a \in Approval : /\ a.id = Stored(i).id
                                               /\ a.status \in TerminalStatus
                                               /\ Settle(t, i, a)
  <1>1. Stored(i) \in Approval /\ now \in Nat  BY StoredType DEF TypeOK
  <1>2. ASSUME Expire(t, i) PROVE Settled
    <2>1. Lapsed(Stored(i)).status \in TerminalStatus
      BY <1>1, LapsedType DEF TerminalStatus
    <2> QED  BY <1>1, <1>2, <2>1, LapsedType DEF Expire, Due
  <1>3. Instants \subseteq Nat  BY <1>1 DEF Instants
  <1>4. CASE Get(t, i)  BY <1>2, <1>4 DEF Get
  <1>5. ASSUME NEW s \in TerminalStatus, NEW by \in OrNone(Approvers), Decide(t, i, s, by)
        PROVE  Idle(t) /\ (Settled \/ Report)
    <2>1. CASE Expire(t, i)  BY <1>2, <1>5, <2>1 DEF Decide
    <2>2. ASSUME Mutable(i), NEW at \in Instants, now' = at,
                 Settle(t, i, Decided(Stored(i), s, by, at))
          PROVE  Settled
      BY <1>1, <1>3, <2>2, DecidedType DEF Mutable
    <2>3. CASE /\ Stored(i).status = "expired"
               /\ Tell(i, "expired")
               /\ UNCHANGED <<heap, items, now, creating, firing, minted, born, announced>>
      BY <1>5, <2>3 DEF Decide
    <2> QED  BY <1>5, <2>1, <2>2, <2>3 DEF Decide
  <1>6. ASSUME NEW by \in Approvers, Approve(t, i, by) \/ Deny(t, i, by)
        PROVE  Idle(t) /\ (Settled \/ Report)
    <2>1. by \in OrNone(Approvers)  BY DEF OrNone
    <2>2. {"approved", "denied"} \subseteq TerminalStatus  BY DEF TerminalStatus
    <2> QED  BY <1>5, <1>6, <2>1, <2>2 DEF Approve, Deny
  <1>7. CASE Cancel(t, i)
    <2>1. Stored(i).decidedBy \in OrNone(Approvers)  BY <1>1 DEF Approval
    <2>2. "canceled" \in TerminalStatus  BY DEF TerminalStatus
    <2> QED  BY <1>5, <1>7, <2>1, <2>2 DEF Cancel
  <1> QED  BY <1>4, <1>6, <1>7

\* A sweep expires some pending records; those and the resolved ones are gone.
LEMMA SweepEffect ==
  ASSUME TypeOK, NEW t \in Threads, Sweep(t)
  PROVE  \E J \in SUBSET Held :
            /\ \A i \in J : Stored(i).status = "pending"
            /\ heap' = [r \in Refs |-> IF r \in Lapsing(J) THEN Lapsed(heap[r]) ELSE heap[r]]
            /\ firing' = [firing EXCEPT ![t] = {Lapsed(heap[r]) : r \in Lapsing(J)}]
            /\ \E S : items' = Without(S) /\ Swept(J) \subseteq S
            /\ now' \in Nat
            /\ UNCHANGED <<creating, minted, history>>
  <1>1. PICK at \in Instants, J \in SUBSET Held :
          /\ MayLapse(J, at)
          /\ now' = at
          /\ heap' = [r \in Refs |-> IF r \in Lapsing(J) THEN Lapsed(heap[r]) ELSE heap[r]]
          /\ \E S \in SUBSET Aliases(J) : items' = Without(Swept(J) \cup S)
          /\ firing' = [firing EXCEPT ![t] = {Lapsed(heap[r]) : r \in Lapsing(J)}]
    BY DEF Sweep
  <1>2. at \in Nat  BY DEF Instants, TypeOK
  <1>3. \A i \in J : Stored(i).status = "pending"  BY <1>1 DEF MayLapse, Due
  <1>4. \E S : items' = Without(S) /\ Swept(J) \subseteq S
    <2>1. PICK S \in SUBSET Aliases(J) : items' = Without(Swept(J) \cup S)  BY <1>1
    <2> QED  BY <2>1
  <1>5. UNCHANGED <<creating, minted, history>>  BY DEF Sweep
  <1> QED  BY <1>1, <1>2, <1>3, <1>4, <1>5

\* Next, with the four calls that SettleOrReport describes taken together.
LEMMA NextCases ==
  ASSUME Next
  PROVE  \/ Tick
         \/ \E t \in Threads, r \in Refs : Mint(t, r)
         \/ \E t \in Threads : Insert(t)
         \/ \E t \in Threads : Refuse(t)
         \/ \E t \in Threads, i \in Held :
               \/ Get(t, i)
               \/ \E by \in Approvers : Approve(t, i, by)
               \/ \E by \in Approvers : Deny(t, i, by)
               \/ Cancel(t, i)
         \/ \E t \in Threads, i \in Held : Delete(t, i)
         \/ \E t \in Threads : Sweep(t)
         \/ \E t \in Threads : FireResolve(t)
  BY DEF Next, Step, Operation

-----------------------------------------------------------------------------
(* Type correctness.                                                       *)

LEMMA TypeInit == Init => TypeOK
  <1> SUFFICES ASSUME Init PROVE TypeOK  OBVIOUS
  <1>1. \A n \in Lifetimes : Blank(n) \in Approval
    <2> SUFFICES ASSUME NEW n \in Lifetimes PROVE Blank(n) \in Approval  OBVIOUS
    <2>1. n \in Int  BY StoreAssumption
    <2>2. /\ None \in OrNone(Ids) /\ None \in OrNone(Approvers) /\ None \in OrNone(Nat)
          /\ "pending" \in Status
      BY DEF OrNone, Status
    <2> QED  BY <2>1, <2>2 DEF Blank, Approval
  <1>2. heap \in [Refs -> Approval]  BY <1>1 DEF Init
  <1>3. announced \in [Ids -> Seq(Approval)]  BY DEF Init
  <1> QED  BY <1>2, <1>3 DEF Init, TypeOK, Held

LEMMA TypeNext == TypeOK /\ [Next]_vars => TypeOK'
  <1> SUFFICES ASSUME TypeOK, [Next]_vars PROVE TypeOK'  OBVIOUS
  <1>1. CASE UNCHANGED vars  BY <1>1 DEF TypeOK, vars, Held
  <1>2. CASE Tick  BY <1>2 DEF Tick, TypeOK, Held, history
  <1>3. ASSUME NEW t \in Threads, NEW r \in Refs, Mint(t, r) PROVE TypeOK'
    <2>1. PICK i \in Ids \ minted :
            /\ minted' = minted \cup {i}
            /\ heap' = [heap EXCEPT ![r] = Fresh(@, i)]
            /\ creating' = [creating EXCEPT ![t] = {[ref |-> r, id |-> i]}]
      BY <1>3 DEF Mint
    <2>2. heap[r] \in Approval  BY DEF TypeOK
    <2>3. heap' \in [Refs -> Approval]  BY <2>1, <2>2, FreshType DEF TypeOK
    <2>4. creating' \in [Threads -> SUBSET Call]  BY <2>1 DEF TypeOK, Call
    <2> QED  BY <1>3, <2>1, <2>3, <2>4 DEF Mint, TypeOK, Held, history
  <1>4. ASSUME NEW t \in Threads, Insert(t) PROVE TypeOK'
    <2>1. PICK c \in creating[t] :
            /\ items' = Put(items, c.id, Stamp(c))
            /\ born' = Put(born, c.id, BirthOf(c))
      BY <1>4 DEF Insert
    <2>2. c \in Call /\ c.id \in Ids /\ c.ref \in Refs  BY DEF TypeOK, Call
    <2>3. Stamp(c) \in Record  BY <2>2 DEF Stamp, Record, TypeOK
    <2>4. BirthOf(c) \in Birth  BY <2>2 DEF BirthOf, Birth, TypeOK, Approval
    <2>5. (Held \subseteq Ids /\ items \in [Held -> Record])'
      <3> DEFINE p == Put(items, c.id, Stamp(c))
      <3>1. DOMAIN items \subseteq Ids /\ items \in [DOMAIN items -> Record]
        BY DEF TypeOK, Held
      <3>2. DOMAIN p = DOMAIN items \cup {c.id} /\ p \in [DOMAIN items \cup {c.id} -> Record]
        BY <2>2, <2>3, <3>1 DEF Put
      <3>3. items' = p  BY <2>1
      <3> HIDE DEF p
      <3>4. DOMAIN items' = DOMAIN items \cup {c.id}  BY <3>2, <3>3
      <3> QED  BY <2>2, <3>1, <3>2, <3>3, <3>4 DEF Held
    <2>6. (DOMAIN born \subseteq Ids /\ born \in [DOMAIN born -> Birth])'
      <3> DEFINE p == Put(born, c.id, BirthOf(c))
      <3>1. DOMAIN born \subseteq Ids /\ born \in [DOMAIN born -> Birth]
        BY DEF TypeOK
      <3>2. DOMAIN p = DOMAIN born \cup {c.id} /\ p \in [DOMAIN born \cup {c.id} -> Birth]
        BY <2>2, <2>4, <3>1 DEF Put
      <3>3. born' = p  BY <2>1
      <3> HIDE DEF p
      <3>4. DOMAIN born' = DOMAIN born \cup {c.id}  BY <3>2, <3>3
      <3> QED  BY <2>2, <3>1, <3>2, <3>3, <3>4
    <2>7. creating' \in [Threads -> SUBSET Call]  BY <1>4 DEF Insert, TypeOK
    <2> QED  BY <1>4, <2>5, <2>6, <2>7 DEF Insert, TypeOK
  <1>5. ASSUME NEW t \in Threads, Refuse(t) PROVE TypeOK'
    BY <1>5 DEF Refuse, TypeOK, Held, history
  <1>6. ASSUME NEW t \in Threads, NEW i \in Held,
               \/ Get(t, i)
               \/ \E by \in Approvers : Approve(t, i, by)
               \/ \E by \in Approvers : Deny(t, i, by)
               \/ Cancel(t, i)
        PROVE  TypeOK'
    <2>1. ASSUME NEW s, Tell(i, s) PROVE observed' \in [Ids -> SUBSET TerminalStatus]
      BY <2>1 DEF Tell, TypeOK
    <2>2. ASSUME now' \in Nat, NEW a \in Approval, Settle(t, i, a) PROVE TypeOK'
      <3>1. heap' \in [Refs -> Approval]  BY <2>2 DEF Settle, TypeOK
      <3>2. firing' \in [Threads -> SUBSET Approval]  BY <2>2 DEF Settle, TypeOK
      <3> QED  BY <2>1, <2>2, <3>1, <3>2 DEF Settle, TypeOK, Held
    <2>3. ASSUME Tell(i, Stored(i).status),
                 UNCHANGED <<heap, items, now, creating, firing, minted, born, announced>>
          PROVE  TypeOK'
      BY <2>1, <2>3 DEF TypeOK, Held
    <2> QED  BY <1>6, <2>2, <2>3, SettleOrReport
  <1>7. ASSUME NEW t \in Threads, NEW i \in Held, Delete(t, i) PROVE TypeOK'
    <2>1. (Held \subseteq Ids /\ items \in [Held -> Record])'
      BY <1>7, RemovalType DEF Delete
    <2> QED  BY <1>7, <2>1 DEF Delete, TypeOK, history
  <1>8. ASSUME NEW t \in Threads, Sweep(t) PROVE TypeOK'
    <2>0. PICK J \in SUBSET Held :
            /\ heap' = [r \in Refs |-> IF r \in Lapsing(J) THEN Lapsed(heap[r]) ELSE heap[r]]
            /\ firing' = [firing EXCEPT ![t] = {Lapsed(heap[r]) : r \in Lapsing(J)}]
            /\ \E S : items' = Without(S)
            /\ now' \in Nat
            /\ UNCHANGED <<creating, minted, history>>
      BY <1>8, SweepEffect
    <2>1. Lapsing(J) \subseteq Refs  BY StoredType DEF Lapsing
    <2>2. heap' \in [Refs -> Approval]  BY <2>0, LapsedType DEF TypeOK
    <2>3. firing' \in [Threads -> SUBSET Approval]
      BY <2>0, <2>1, LapsedType DEF TypeOK
    <2>4. (Held \subseteq Ids /\ items \in [Held -> Record])'
      BY <2>0, RemovalType
    <2> QED  BY <2>0, <2>2, <2>3, <2>4 DEF TypeOK, history
  <1>9. ASSUME NEW t \in Threads, FireResolve(t) PROVE TypeOK'
    <2>1. PICK a \in firing[t] :
            /\ firing' = [firing EXCEPT ![t] = @ \ {a}]
            /\ announced' = IF HookSet
                            THEN [announced EXCEPT ![a.id] = Append(@, a)]
                            ELSE announced
      BY <1>9 DEF FireResolve
    <2>2. a \in Approval  BY DEF TypeOK
    <2>3. firing' \in [Threads -> SUBSET Approval]  BY <2>1 DEF TypeOK
    <2>4. announced' \in [Ids -> Seq(Approval)]
      <3>1. announced \in [Ids -> Seq(Approval)]  BY DEF TypeOK
      <3>2. \A x \in Seq(Approval) : Append(x, a) \in Seq(Approval)  BY <2>2
      <3> QED  BY <2>1, <3>1, <3>2
    <2> QED  BY <1>9, <2>3, <2>4 DEF FireResolve, TypeOK, Held
  <1> QED  BY <1>1, <1>2, <1>3, <1>4, <1>5, <1>6, <1>7, <1>8, <1>9, NextCases

\* Every reachable state is well typed: no call, in whatever order and on
\* whatever goroutine, leaves the Store or a clone ill formed.
THEOREM TypeCorrect == Spec => []TypeOK
  <1> QED  BY TypeInit, TypeNext, PTL DEF Spec

-----------------------------------------------------------------------------
(* The cap.                                                                *)

CapInv == IsFiniteSet(Held) /\ CapRespected

LEMMA CapInit == Init => CapInv
  <1> SUFFICES ASSUME Init PROVE CapInv  OBVIOUS
  <1>1. Held = {}  BY DEF Init, Held
  <1> QED  BY <1>1, FS_EmptySet, StoreAssumption DEF CapInv, CapRespected

LEMMA CapNext == CapInv /\ [Next]_vars => CapInv'
  <1> SUFFICES ASSUME CapInv, [Next]_vars PROVE CapInv'  OBVIOUS
  <1>1. ASSUME Held' \subseteq Held PROVE CapInv'
    <2>1. IsFiniteSet(Held') /\ Cardinality(Held') <= Cardinality(Held)
      BY <1>1, FS_Subset DEF CapInv
    <2>2. Cardinality(Held) \in Nat /\ Cardinality(Held') \in Nat
      BY <2>1, FS_CardinalityType DEF CapInv
    <2> QED  BY <2>1, <2>2, StoreAssumption DEF CapInv, CapRespected, Held
  <1>2. ASSUME NEW t \in Threads, Insert(t) PROVE CapInv'
    <2>1. PICK c \in creating[t] : Held' = Held \cup {c.id}  BY <1>2, InsertEffect
    <2> DEFINE more == Held \cup {c.id}
    <2>2. /\ IsFiniteSet(more)
          /\ Cardinality(more) = IF c.id \in Held THEN Cardinality(Held)
                                                  ELSE Cardinality(Held) + 1
      BY FS_AddElement DEF CapInv
    <2>3. Cardinality(Held) \in Nat  BY FS_CardinalityType DEF CapInv
    <2>4. MaxSize > 0 => Cardinality(Held) < MaxSize
      BY <1>2, <2>3, StoreAssumption DEF Insert, Full
    <2>5. MaxSize > 0 => Cardinality(more) <= MaxSize
      BY <2>2, <2>3, <2>4, StoreAssumption
    <2> HIDE DEF more
    <2>6. IsFiniteSet(Held') /\ (MaxSize > 0 => Cardinality(Held') <= MaxSize)
      BY <2>1, <2>2, <2>5 DEF more
    <2> QED  BY <2>6 DEF CapInv, CapRespected, Held
  <1>3. ASSUME items' = items PROVE CapInv'  BY <1>1, <1>3 DEF Held
  <1>4. ASSUME NEW S, items' = Without(S) PROVE CapInv'
    BY <1>1, <1>4, RemovalEffect
  <1>5. CASE UNCHANGED vars  BY <1>3, <1>5 DEF vars
  <1>6. CASE Tick  BY <1>3, <1>6 DEF Tick
  <1>7. ASSUME NEW t \in Threads, Step(t) PROVE CapInv'
    <2>1. CASE Insert(t)  BY <1>2, <2>1
    <2>2. CASE \E r \in Refs : Mint(t, r)  BY <1>3, <2>2 DEF Mint
    <2>3. CASE Refuse(t) \/ FireResolve(t)  BY <1>3, <2>3 DEF Refuse, FireResolve
    <2>4. CASE \E i \in Held : \/ Get(t, i)
                               \/ \E by \in Approvers : Approve(t, i, by)
                               \/ \E by \in Approvers : Deny(t, i, by)
                               \/ Cancel(t, i)
      BY <1>3, <2>4 DEF Get, Approve, Deny, Cancel, Decide, Expire, Settle
    <2>5. CASE \E i \in Held : Delete(t, i)  BY <1>4, <2>5 DEF Delete
    <2>6. CASE Sweep(t)  BY <1>4, <2>6 DEF Sweep
    <2> QED  BY <1>7, <2>1, <2>2, <2>3, <2>4, <2>5, <2>6 DEF Step, Operation
  <1> QED  BY <1>5, <1>6, <1>7 DEF Next

\* WithMaxSize holds in every interleaving: however many Create calls prepare
\* their record before taking the lock, the map never exceeds the cap.
THEOREM CapNeverExceeded == Spec => []CapRespected
  <1>1. CapInv => CapRespected  BY DEF CapInv
  <1> QED  BY <1>1, CapInit, CapNext, PTL DEF Spec

-----------------------------------------------------------------------------
(* Ownership of the objects, when callers do not re-submit a held one.     *)

LEMMA OwnedInit == Init => Owned
  BY DEF Init, Owned, Held

\* An object in flight is not the object of a held record.
LEMMA InFlightApart ==
  ASSUME Owned, NEW t \in Threads, NEW c \in creating[t], NEW i \in Held
  PROVE  items[i].ref # c.ref
  BY DEF Owned, Stored

\* What a step writes into held objects keeps their ids and spares the others:
\* enough for the invariant when no record and no call comes or goes.
LEMMA OwnedWrite ==
  ASSUME Owned, Held' \subseteq Held,
         \A i \in Held' : items'[i] = items[i],
         \A i \in Held : heap'[items[i].ref].id = heap[items[i].ref].id,
         \A r \in Refs : heap'[r] # heap[r] => \E i \in Held : r = items[i].ref,
         creating \in [Threads -> SUBSET Call],
         UNCHANGED <<creating, minted, born>>
  PROVE  Owned'
  <1>1. \A i \in Held' : Stored(i)'.id = i  BY DEF Owned, Stored
  <1>2. \A t \in Threads : \A c \in creating[t] : heap'[c.ref] = heap[c.ref]
    BY InFlightApart DEF Call
  <1>3. (/\ Held \subseteq DOMAIN born
         /\ DOMAIN born \subseteq minted)'
    BY DEF Owned
  <1>4. (\A t \in Threads : \A c \in creating[t] :
            /\ c.id \in minted \ DOMAIN born
            /\ heap[c.ref].id = c.id
            /\ heap[c.ref].status = "pending")'
    BY <1>2 DEF Owned
  <1>5. (\A t, u \in Threads : \A c \in creating[t], d \in creating[u] :
            c.id = d.id => t = u /\ c = d)'
    BY DEF Owned
  <1> QED  BY <1>1, <1>3, <1>4, <1>5 DEF Owned

LEMMA OwnedNext ==
  ASSUME ~ReuseRequests, TypeOK, Owned, [Next]_vars
  PROVE  Owned'
  <1>0. creating \in [Threads -> SUBSET Call]  BY DEF TypeOK
  <1>1. ASSUME UNCHANGED <<heap, items, creating, minted, born>> PROVE Owned'
    BY <1>1 DEF Owned, Held, Stored
  <1>2. CASE UNCHANGED vars  BY <1>1, <1>2 DEF vars
  <1>3. CASE Tick  BY <1>1, <1>3 DEF Tick, history
  <1>4. ASSUME NEW t \in Threads, NEW r \in Refs, Mint(t, r) PROVE Owned'
    <2>1. PICK i \in Ids \ minted :
            /\ minted' = minted \cup {i}
            /\ heap' = [heap EXCEPT ![r] = Fresh(@, i)]
            /\ creating' = [creating EXCEPT ![t] = {[ref |-> r, id |-> i]}]
      BY <1>4 DEF Mint
    <2>2. UNCHANGED <<items, born>> /\ Free(r) /\ creating[t] = {}
      BY <1>4 DEF Mint, Idle, history
    <2>3. heap'[r].id = i /\ heap'[r].status = "pending"
      BY <2>1, FreshType DEF TypeOK
    <2>4. \A q \in Refs \ {r} : heap'[q] = heap[q]  BY <2>1 DEF TypeOK
    <2>5. (/\ Held \subseteq DOMAIN born
           /\ DOMAIN born \subseteq minted)'
      BY <2>1, <2>2 DEF Owned, Held
    <2>6. (\A j \in Held : Stored(j).id = j)'
      BY <2>2, <2>4, StoredType DEF Owned, Held, Stored, Free
    <2>7. ASSUME NEW u \in Threads, NEW c \in creating'[u]
          PROVE  \/ u = t /\ c = [ref |-> r, id |-> i]
                 \/ u # t /\ c \in creating[u] /\ c.ref # r /\ c.ref \in Refs
      BY <1>0, <2>1, <2>2, <2>7 DEF Free, Call
    <2>8. ASSUME NEW u \in Threads, NEW c \in creating'[u]
          PROVE  /\ c.id \in minted' \ DOMAIN born'
                 /\ heap'[c.ref].id = c.id
                 /\ heap'[c.ref].status = "pending"
      <3>1. i \notin DOMAIN born  BY DEF Owned
      <3> QED  BY <2>1, <2>2, <2>3, <2>4, <2>7, <3>1 DEF Owned
    <2>9. ASSUME NEW u \in Threads, NEW v \in Threads,
                 NEW c \in creating'[u], NEW d \in creating'[v], c.id = d.id
          PROVE  u = v /\ c = d
      BY <2>7, <2>9 DEF Owned
    <2> QED  BY <2>5, <2>6, <2>8, <2>9 DEF Owned
  <1>5. ASSUME NEW t \in Threads, Insert(t) PROVE Owned'
    <2>1. PICK c \in creating[t] :
            /\ Held' = Held \cup {c.id}
            /\ \A i \in Held \ {c.id} : items'[i] = items[i]
            /\ items'[c.id] = Stamp(c)
            /\ DOMAIN born' = DOMAIN born \cup {c.id}
            /\ creating' = [creating EXCEPT ![t] = {}]
            /\ UNCHANGED <<heap, minted>>
      BY <1>5, InsertEffect
    <2>2. c.id \in minted \ DOMAIN born /\ heap[c.ref].id = c.id  BY DEF Owned
    <2>3. (/\ Held \subseteq DOMAIN born
           /\ DOMAIN born \subseteq minted)'
      BY <2>1, <2>2 DEF Owned
    <2>4. (\A i \in Held : Stored(i).id = i)'
      BY <2>1, <2>2 DEF Owned, Stored, Stamp
    <2>5. \A u \in Threads : \A d \in creating'[u] : u # t /\ d \in creating[u]
      BY <1>0, <2>1
    <2> QED  BY <2>1, <2>2, <2>3, <2>4, <2>5 DEF Owned
  <1>6. ASSUME NEW t \in Threads, Refuse(t) PROVE Owned'
    <2>1. \A u \in Threads : creating'[u] \subseteq creating[u]
      BY <1>0, <1>6 DEF Refuse
    <2>2. UNCHANGED <<heap, items, minted, born>>  BY <1>6 DEF Refuse, history
    <2> QED  BY <2>1, <2>2 DEF Owned, Held, Stored
  <1>7. ASSUME NEW t \in Threads, NEW i \in Held,
               \/ Get(t, i)
               \/ \E by \in Approvers : Approve(t, i, by)
               \/ \E by \in Approvers : Deny(t, i, by)
               \/ Cancel(t, i)
        PROVE  Owned'
    <2>1. CASE UNCHANGED <<heap, items, now, creating, firing, minted, born, announced>>
      BY <1>1, <2>1
    <2>2. ASSUME NEW a \in Approval, a.id = Stored(i).id, Settle(t, i, a) PROVE Owned'
      <3>1. /\ heap' = [heap EXCEPT ![items[i].ref] = a]
            /\ UNCHANGED <<items, creating, minted, born>>
        BY <2>2 DEF Settle
      <3>2. \A j \in Held : heap'[items[j].ref].id = heap[items[j].ref].id
        BY <2>2, <3>1, StoredType DEF TypeOK, Stored
      <3>3. \A q \in Refs : heap'[q] # heap[q] => q = items[i].ref
        BY <3>1 DEF TypeOK
      <3> QED  BY <1>0, <3>1, <3>2, <3>3, OwnedWrite DEF Held
    <2> QED  BY <1>7, <2>1, <2>2, SettleOrReport
  <1>8. ASSUME NEW t \in Threads, NEW i \in Held, Delete(t, i) PROVE Owned'
    BY <1>0, <1>8, OwnedWrite, RemovalEffect DEF Delete, history
  <1>9. ASSUME NEW t \in Threads, Sweep(t) PROVE Owned'
    <2>0. PICK J \in SUBSET Held :
            /\ heap' = [r \in Refs |-> IF r \in Lapsing(J) THEN Lapsed(heap[r]) ELSE heap[r]]
            /\ \E S : items' = Without(S)
            /\ UNCHANGED <<creating, minted, history>>
      BY <1>9, SweepEffect
    <2>2. \A j \in Held : heap'[items[j].ref].id = heap[items[j].ref].id
      BY <2>0, StoredType, LapsedType DEF TypeOK
    <2>3. \A q \in Refs : heap'[q] # heap[q] => \E i \in Held : q = items[i].ref
      BY <2>0 DEF TypeOK, Lapsing
    <2>4. UNCHANGED <<creating, minted, born>>  BY <2>0 DEF history
    <2>5. Held' \subseteq Held /\ \A i \in Held' : items'[i] = items[i]
      BY <2>0, RemovalEffect
    <2> QED  BY <1>0, <2>2, <2>3, <2>4, <2>5, OwnedWrite
  <1>10. ASSUME NEW t \in Threads, FireResolve(t) PROVE Owned'
    BY <1>1, <1>10 DEF FireResolve
  <1> QED  BY <1>2, <1>3, <1>4, <1>5, <1>6, <1>7, <1>8, <1>9, <1>10, NextCases

\* A client that was given an id can poll its approval by that id: the objects
\* of the records never get into each other's way.
THEOREM RecordsFoundUnderOwnId ==
  ASSUME ~ReuseRequests PROVE Spec => []FoundUnderOwnId
  <1>1. TypeOK /\ Owned /\ [Next]_vars => Owned'  BY OwnedNext
  <1>2. Owned => FoundUnderOwnId  BY DEF Owned, FoundUnderOwnId
  <1> QED  BY <1>1, <1>2, TypeInit, TypeNext, OwnedInit, PTL DEF Spec

LEMMA KeepsTerminalStep ==
  ASSUME ~ReuseRequests, TypeOK, Owned, [Next]_vars
  PROVE  [KeepsTerminal]_vars
  <1> SUFFICES ASSUME NEW i \in Held, i \in Held', Stored(i).status \in TerminalStatus
               PROVE  Stored(i)' = Stored(i)
    BY DEF KeepsTerminal, Held
  <1>0. "pending" \notin TerminalStatus  BY DEF TerminalStatus
  <1>1. items[i].ref \in Refs  BY StoredType
  <1>2. ASSUME items'[i] = items[i], heap'[items[i].ref] = heap[items[i].ref]
        PROVE  Stored(i)' = Stored(i)
    BY <1>2 DEF Stored
  <1>3. CASE UNCHANGED vars  BY <1>2, <1>3 DEF vars
  <1>4. CASE Tick  BY <1>2, <1>4 DEF Tick
  <1>5. ASSUME NEW t \in Threads, NEW r \in Refs, Mint(t, r) PROVE Stored(i)' = Stored(i)
    <2>1. Free(r) /\ items' = items  BY <1>5 DEF Mint
    <2>2. heap'[items[i].ref] = heap[items[i].ref]
      BY <1>1, <1>5, <2>1 DEF Mint, Free, TypeOK
    <2> QED  BY <1>2, <2>1, <2>2
  <1>6. ASSUME NEW t \in Threads, Insert(t) PROVE Stored(i)' = Stored(i)
    <2>1. PICK c \in creating[t] : /\ \A j \in Held \ {c.id} : items'[j] = items[j]
                                   /\ heap' = heap
      BY <1>6, InsertEffect
    <2>2. c.id # i  BY DEF Owned
    <2> QED  BY <1>2, <2>1, <2>2
  <1>7. ASSUME NEW t \in Threads, Refuse(t) \/ FireResolve(t) PROVE Stored(i)' = Stored(i)
    BY <1>2, <1>7 DEF Refuse, FireResolve
  <1>8. ASSUME NEW t \in Threads, NEW j \in Held,
               \/ Get(t, j)
               \/ \E by \in Approvers : Approve(t, j, by)
               \/ \E by \in Approvers : Deny(t, j, by)
               \/ Cancel(t, j)
        PROVE  Stored(i)' = Stored(i)
    <2>1. CASE UNCHANGED <<heap, items, now, creating, firing, minted, born, announced>>
      BY <1>2, <2>1
    <2>2. ASSUME Stored(j).status = "pending", NEW a, Settle(t, j, a)
          PROVE  Stored(i)' = Stored(i)
      <3>1. items[j].ref # items[i].ref  BY <1>0, <2>2 DEF Stored
      <3> QED  BY <1>1, <1>2, <2>2, <3>1 DEF Settle, TypeOK
    <2> QED  BY <1>8, <2>1, <2>2, SettleOrReport
  <1>9. ASSUME NEW t \in Threads, NEW j \in Held, Delete(t, j) PROVE Stored(i)' = Stored(i)
    BY <1>2, <1>9, RemovalEffect DEF Delete
  <1>10. ASSUME NEW t \in Threads, Sweep(t) PROVE Stored(i)' = Stored(i)
    <2>0. PICK J \in SUBSET Held :
            /\ \A j \in J : Stored(j).status = "pending"
            /\ heap' = [r \in Refs |-> IF r \in Lapsing(J) THEN Lapsed(heap[r]) ELSE heap[r]]
            /\ \E S : items' = Without(S)
      BY <1>10, SweepEffect
    <2>1. items[i].ref \notin Lapsing(J)  BY <1>0, <2>0 DEF Lapsing, Stored
    <2>2. heap'[items[i].ref] = heap[items[i].ref]  BY <1>1, <2>0, <2>1
    <2>3. items'[i] = items[i]  BY <2>0, RemovalEffect
    <2> QED  BY <1>2, <2>2, <2>3
  <1> QED  BY <1>3, <1>4, <1>5, <1>6, <1>7, <1>8, <1>9, <1>10, NextCases

\* Terminal states are immutable in every interleaving of calls, expiry, sweeps
\* and creations, as long as callers do not re-submit an object the Store holds.
THEOREM TerminalIsImmutable ==
  ASSUME ~ReuseRequests PROVE Spec => TerminalImmutable
  <1>1. TypeOK /\ Owned /\ [Next]_vars => Owned'  BY OwnedNext
  <1>2. TypeOK /\ Owned /\ [Next]_vars => [KeepsTerminal]_vars  BY KeepsTerminalStep
  <1> QED  BY <1>1, <1>2, TypeInit, TypeNext, OwnedInit, PTL DEF Spec, TerminalImmutable

-----------------------------------------------------------------------------
(* What leaves the critical sections: one clone, one verdict.              *)

LEMMA NotifiedInit == Init => Notified
  BY DEF Init, Notified

\* Nobody has heard of an approval that is still pending.
LEMMA PendingUnheard ==
  ASSUME TypeOK, Notified, NEW i \in Held, Stored(i).status = "pending"
  PROVE  /\ announced[i] = <<>>
         /\ observed[i] = {}
         /\ \A t \in Threads : \A a \in firing[t] : a.id # i
  <1>1. "pending" \notin TerminalStatus  BY DEF TerminalStatus
  <1>2. i \in Ids  BY DEF TypeOK
  <1>3. observed[i] \subseteq TerminalStatus  BY <1>2 DEF TypeOK
  <1> QED  BY <1>1, <1>2, <1>3 DEF Notified

\* A terminal approval, once held, is the same wherever it is still held.
LEMMA TerminalSame ==
  ASSUME TypeOK, KeepsTerminal, NEW i \in Held, i \in Held',
         Stored(i).status \in TerminalStatus
  PROVE  Stored(i)' = Stored(i)
  BY DEF KeepsTerminal, Held

\* Steps that neither take, deliver nor report anything.
LEMMA NotifiedFrame ==
  ASSUME TypeOK, Notified, KeepsTerminal,
         UNCHANGED <<firing, announced, observed>>,
         DOMAIN born \subseteq DOMAIN born',
         Held' \cap DOMAIN born \subseteq Held
  PROVE  Notified'
  <1>1. ASSUME NEW t \in Threads, NEW a \in firing[t]
        PROVE  /\ a.id \in DOMAIN born'
               /\ a.status \in TerminalStatus
               /\ announced[a.id] = <<>>
               /\ a.id \in Held' => a = Stored(a.id)'
    BY TerminalSame DEF Notified
  <1>2. ASSUME NEW i \in Ids, announced[i] # <<>>
        PROVE  /\ i \in DOMAIN born'
               /\ Len(announced[i]) = 1
               /\ announced[i][1].status \in TerminalStatus
               /\ i \in Held' => announced[i][1] = Stored(i)'
    BY <1>2, TerminalSame DEF Notified
  <1>3. ASSUME NEW i \in Ids, NEW v \in observed[i]
        PROVE  /\ i \in DOMAIN born'
               /\ \A w \in observed[i] : w = v
               /\ i \in Held' => v = Stored(i)'.status
               /\ \A t \in Threads : \A a \in firing[t] : a.id = i => a.status = v
               /\ announced[i] # <<>> => announced[i][1].status = v
    <2>1. v \in TerminalStatus  BY DEF TypeOK
    <2> QED  BY <2>1, TerminalSame DEF Notified
  <1>4. \A t, u \in Threads : \A a \in firing[t], b \in firing[u] :
           a.id = b.id => t = u /\ a = b
    BY DEF Notified
  <1> QED  BY <1>1, <1>2, <1>3, <1>4 DEF Notified

\* Writing a terminal approval over a pending one and taking its clone.
LEMMA NotifiedSettle ==
  ASSUME TypeOK, Owned, Notified, KeepsTerminal,
         NEW t \in Threads, NEW i \in Held, NEW a \in Approval, Idle(t),
         Stored(i).status = "pending", a.id = Stored(i).id,
         a.status \in TerminalStatus, Settle(t, i, a)
  PROVE  Notified'
  <1>1. /\ heap' = [heap EXCEPT ![items[i].ref] = a]
        /\ firing' = [firing EXCEPT ![t] = {a}]
        /\ observed' = [observed EXCEPT ![i] = @ \cup {a.status}]
        /\ UNCHANGED <<items, born, announced>>
    BY DEF Settle, Tell
  <1>2. i \in Ids /\ i \in DOMAIN born /\ a.id = i  BY DEF TypeOK, Owned
  <1>3. /\ announced[i] = <<>>
        /\ observed[i] = {}
        /\ \A u \in Threads : \A b \in firing[u] : b.id # i
    BY PendingUnheard
  <1>4. Held' = Held /\ Stored(i)' = a
    BY <1>1, StoredType DEF Held, Stored, TypeOK
  <1>5. ASSUME NEW u \in Threads, NEW b \in firing'[u]
        PROVE  (u = t /\ b = a) \/ (u # t /\ b \in firing[u] /\ b.id # i)
    <2>1. firing \in [Threads -> SUBSET Approval]  BY DEF TypeOK
    <2>2. CASE u = t  BY <1>1, <1>5, <2>1, <2>2
    <2>3. CASE u # t  BY <1>1, <1>3, <1>5, <2>1, <2>3
    <2> QED  BY <2>2, <2>3
  <1>6. \A j \in Ids \ {i} : observed'[j] = observed[j]  BY <1>1 DEF TypeOK
  <1>7. observed'[i] = {a.status}  BY <1>1, <1>2, <1>3 DEF TypeOK
  <1>8. ASSUME NEW u \in Threads, NEW b \in firing'[u]
        PROVE  /\ b.id \in DOMAIN born'
               /\ b.status \in TerminalStatus
               /\ announced'[b.id] = <<>>
               /\ b.id \in Held' => b = Stored(b.id)'
    BY <1>1, <1>2, <1>3, <1>4, <1>5, TerminalSame DEF Notified
  <1>9. ASSUME NEW u \in Threads, NEW v \in Threads,
               NEW b \in firing'[u], NEW c \in firing'[v], b.id = c.id
        PROVE  u = v /\ b = c
    BY <1>2, <1>5, <1>9 DEF Notified
  <1>10. ASSUME NEW j \in Ids, announced'[j] # <<>>
         PROVE  /\ j \in DOMAIN born'
                /\ Len(announced'[j]) = 1
                /\ announced'[j][1].status \in TerminalStatus
                /\ j \in Held' => announced'[j][1] = Stored(j)'
    BY <1>1, <1>3, <1>4, <1>10, TerminalSame DEF Notified
  <1>11. ASSUME NEW j \in Ids, NEW v \in observed'[j]
         PROVE  /\ j \in DOMAIN born'
                /\ \A w \in observed'[j] : w = v
                /\ j \in Held' => v = Stored(j)'.status
                /\ \A u \in Threads : \A b \in firing'[u] : b.id = j => b.status = v
                /\ announced'[j] # <<>> => announced'[j][1].status = v
    <2>1. CASE j = i  BY <1>1, <1>2, <1>3, <1>4, <1>5, <1>7, <2>1
    <2>2. CASE j # i
      <3>1. v \in observed[j] /\ v \in TerminalStatus  BY <1>6, <2>2 DEF TypeOK
      <3>2. \A u \in Threads : \A b \in firing'[u] : b.id = j => b \in firing[u]
        BY <1>2, <1>5, <2>2
      <3> QED  BY <1>1, <1>4, <1>6, <2>2, <3>1, <3>2, TerminalSame DEF Notified
    <2> QED  BY <2>1, <2>2
  <1> QED  BY <1>8, <1>9, <1>10, <1>11 DEF Notified

\* Reporting the status found.
LEMMA NotifiedReport ==
  ASSUME TypeOK, Owned, Notified, NEW i \in Held, Tell(i, Stored(i).status),
         UNCHANGED <<heap, items, now, creating, firing, minted, born, announced>>
  PROVE  Notified'
  <1>1. i \in Ids /\ i \in DOMAIN born  BY DEF TypeOK, Owned
  <1>2. Held' = Held /\ \A j \in Held : Stored(j)' = Stored(j)  BY DEF Held, Stored
  <1>3. ASSUME NEW j \in Ids, NEW v \in observed'[j]
        PROVE  v \in observed[j] \/ (j = i /\ v = Stored(i).status /\ v \in TerminalStatus)
    BY <1>3 DEF Tell, TypeOK
  <1>4. \A j \in Ids : announced[j] # <<>> /\ j \in Held => announced[j][1] = Stored(j)
    BY DEF Notified
  <1>5. \A t \in Threads : \A a \in firing[t] : a.id \in Held => a = Stored(a.id)
    BY DEF Notified
  <1>6. ASSUME NEW j \in Ids, NEW v \in observed'[j]
        PROVE  /\ j \in DOMAIN born'
               /\ \A w \in observed'[j] : w = v
               /\ j \in Held' => v = Stored(j)'.status
               /\ \A u \in Threads : \A b \in firing'[u] : b.id = j => b.status = v
               /\ announced'[j] # <<>> => announced'[j][1].status = v
    <2>1. CASE j = i
      <3>1. \A w \in observed'[i] : w = Stored(i).status
        BY <1>1, <1>3 DEF Notified
      <3> QED  BY <1>1, <1>2, <1>4, <1>5, <1>6, <2>1, <3>1
    <2>2. CASE j # i  BY <1>2, <1>3, <1>6, <2>2 DEF Notified
    <2> QED  BY <2>1, <2>2
  <1>7. (\A t \in Threads : \A a \in firing[t] :
            /\ a.id \in DOMAIN born
            /\ a.status \in TerminalStatus
            /\ announced[a.id] = <<>>
            /\ a.id \in Held => a = Stored(a.id))'
    BY <1>2 DEF Notified
  <1>8. (\A i_1 \in Ids : announced[i_1] # <<>> =>
            /\ i_1 \in DOMAIN born
            /\ Len(announced[i_1]) = 1
            /\ announced[i_1][1].status \in TerminalStatus
            /\ i_1 \in Held => announced[i_1][1] = Stored(i_1))'
    BY <1>2 DEF Notified
  <1>9. (\A t, u \in Threads : \A a \in firing[t], b \in firing[u] :
            a.id = b.id => t = u /\ a = b)'
    BY DEF Notified
  <1> QED  BY <1>6, <1>7, <1>8, <1>9 DEF Notified

\* A sweep: the clones are those of pending records that it removes.
LEMMA NotifiedSweep ==
  ASSUME TypeOK, Owned, Notified, KeepsTerminal, NEW t \in Threads, Sweep(t)
  PROVE  Notified'
  <1>0. firing \in [Threads -> SUBSET Approval]  BY DEF TypeOK
  <1>a. PICK J \in SUBSET Held :
          /\ \A i \in J : Stored(i).status = "pending"
          /\ firing' = [firing EXCEPT ![t] = {Lapsed(heap[r]) : r \in Lapsing(J)}]
          /\ \E S : items' = Without(S) /\ Swept(J) \subseteq S
          /\ UNCHANGED <<creating, minted, history>>
    BY SweepEffect
  <1>1. /\ firing' = [firing EXCEPT ![t] = {Lapsed(heap[r]) : r \in Lapsing(J)}]
        /\ UNCHANGED <<born, observed, announced>>
    BY <1>a DEF history
  <1>2. Held' \subseteq Held /\ \A i \in Swept(J) : i \notin Held'
    BY <1>a, RemovalEffect
  <1>3. ASSUME NEW r \in Lapsing(J)
        PROVE  \E i \in Held : /\ Lapsed(heap[r]).id = i
                               /\ Lapsed(heap[r]).status = "expired"
                               /\ Stored(i).status = "pending"
                               /\ i \notin Held'
    <2>1. PICK i \in J : items[i].ref = r  BY DEF Lapsing
    <2>2. Stored(i) = heap[r] /\ Stored(i).id = i  BY <2>1 DEF Stored, Owned
    <2>3. i \in Swept(J) /\ Stored(i).status = "pending"  BY <1>a DEF Swept
    <2> QED  BY <1>2, <2>2, <2>3, StoredType, LapsedType
  <1>4. "expired" \in TerminalStatus  BY DEF TerminalStatus
  <1>5. ASSUME NEW u \in Threads, NEW b \in firing'[u]
        PROVE  \/ u # t /\ b \in firing[u]
               \/ /\ u = t
                  /\ b.status = "expired"
                  /\ b.id \in Held /\ b.id \notin Held'
                  /\ Stored(b.id).status = "pending"
                  /\ \E r \in Lapsing(J) : b = Lapsed(heap[r])
    <2>1. CASE u # t  BY <1>0, <1>1, <1>5, <2>1
    <2>2. CASE u = t
      <3>1. b \in {Lapsed(heap[r]) : r \in Lapsing(J)}  BY <1>0, <1>1, <1>5, <2>2
      <3> QED  BY <1>3, <2>2, <3>1
    <2> QED  BY <2>1, <2>2
  <1>6. ASSUME NEW u \in Threads, NEW b \in firing'[u]
        PROVE  /\ b.id \in DOMAIN born'
               /\ b.status \in TerminalStatus
               /\ announced'[b.id] = <<>>
               /\ b.id \in Held' => b = Stored(b.id)'
    <2>1. CASE u # t /\ b \in firing[u]  BY <1>1, <1>2, <2>1, TerminalSame DEF Notified
    <2>2. CASE /\ b.status = "expired"
               /\ b.id \in Held /\ b.id \notin Held'
               /\ Stored(b.id).status = "pending"
      BY <1>1, <1>4, <2>2, PendingUnheard DEF Owned
    <2> QED  BY <1>5, <1>6, <2>1, <2>2
  <1>7. ASSUME NEW u \in Threads, NEW v \in Threads,
               NEW b \in firing'[u], NEW c \in firing'[v], b.id = c.id
        PROVE  u = v /\ b = c
    <2>1. CASE u # t /\ v # t
      BY <1>5, <1>7, <2>1 DEF Notified
    <2>2. CASE u = t /\ v = t
      <3>1. PICK p \in Lapsing(J), q \in Lapsing(J) : b = Lapsed(heap[p]) /\ c = Lapsed(heap[q])
        BY <1>5, <1>7, <2>2
      <3>2. PICK i \in Held, j \in Held : /\ items[i].ref = p /\ items[j].ref = q
        BY DEF Lapsing
      <3>3. heap[p].id = i /\ heap[q].id = j  BY <3>2 DEF Owned, Stored
      <3>4. b.id = i /\ c.id = j  BY <3>1, <3>2, <3>3, StoredType, LapsedType DEF Stored
      <3> QED  BY <1>7, <2>2, <3>1, <3>2, <3>4
    <2>3. CASE (u = t) # (v = t)
      BY <1>5, <1>7, <2>3, PendingUnheard
    <2> QED  BY <2>1, <2>2, <2>3
  <1>8. ASSUME NEW i \in Ids, announced'[i] # <<>>
        PROVE  /\ i \in DOMAIN born'
               /\ Len(announced'[i]) = 1
               /\ announced'[i][1].status \in TerminalStatus
               /\ i \in Held' => announced'[i][1] = Stored(i)'
    BY <1>1, <1>2, <1>8, TerminalSame DEF Notified
  <1>9. ASSUME NEW i \in Ids, NEW v \in observed'[i]
        PROVE  /\ i \in DOMAIN born'
               /\ \A w \in observed'[i] : w = v
               /\ i \in Held' => v = Stored(i)'.status
               /\ \A u \in Threads : \A b \in firing'[u] : b.id = i => b.status = v
               /\ announced'[i] # <<>> => announced'[i][1].status = v
    <2>1. v \in observed[i] /\ v \in TerminalStatus  BY <1>1, <1>9 DEF TypeOK
    <2>2. \A u \in Threads : \A b \in firing'[u] : b.id = i => b \in firing[u]
      BY <1>5, <2>1, PendingUnheard
    <2> QED  BY <1>1, <1>2, <2>1, <2>2, TerminalSame DEF Notified
  <1> QED  BY <1>6, <1>7, <1>8, <1>9 DEF Notified

\* Delivering a clone.
LEMMA NotifiedFire ==
  ASSUME TypeOK, Owned, Notified, NEW t \in Threads, FireResolve(t)
  PROVE  Notified'
  <1>0. firing \in [Threads -> SUBSET Approval] /\ announced \in [Ids -> Seq(Approval)]
    BY DEF TypeOK
  <1>1. PICK a \in firing[t] :
          /\ firing' = [firing EXCEPT ![t] = @ \ {a}]
          /\ announced' = IF HookSet
                          THEN [announced EXCEPT ![a.id] = Append(@, a)]
                          ELSE announced
    BY DEF FireResolve
  <1>2. UNCHANGED <<heap, items, born, observed>>  BY DEF FireResolve
  <1>3. Held' = Held /\ \A j \in Held : Stored(j)' = Stored(j)  BY <1>2 DEF Held, Stored
  <1>4. /\ a.id \in Ids /\ a.id \in DOMAIN born /\ announced[a.id] = <<>>
        /\ a.status \in TerminalStatus /\ a \in Approval
        /\ a.id \in Held => a = Stored(a.id)
    BY <1>0 DEF Notified, TypeOK
  <1>5. ASSUME NEW u \in Threads, NEW b \in firing'[u]
        PROVE  b \in firing[u] /\ b.id # a.id
    <2>1. CASE u = t  BY <1>0, <1>1, <1>5, <2>1 DEF Notified
    <2>2. CASE u # t  BY <1>0, <1>1, <1>5, <2>2 DEF Notified
    <2> QED  BY <2>1, <2>2
  <1>6. \A j \in Ids \ {a.id} : announced'[j] = announced[j]  BY <1>0, <1>1
  <1>7. announced'[a.id] = <<>> \/ announced'[a.id] = <<a>>  BY <1>0, <1>1, <1>4
  <1>8. ASSUME NEW u \in Threads, NEW b \in firing'[u]
        PROVE  /\ b.id \in DOMAIN born'
               /\ b.status \in TerminalStatus
               /\ announced'[b.id] = <<>>
               /\ b.id \in Held' => b = Stored(b.id)'
    <2>1. b.id \in Ids  BY <1>5 DEF Notified, TypeOK
    <2> QED  BY <1>2, <1>3, <1>5, <1>6, <2>1 DEF Notified
  <1>9. ASSUME NEW u \in Threads, NEW v \in Threads,
               NEW b \in firing'[u], NEW c \in firing'[v], b.id = c.id
        PROVE  u = v /\ b = c
    BY <1>5, <1>9 DEF Notified
  <1>10. ASSUME NEW i \in Ids, announced'[i] # <<>>
         PROVE  /\ i \in DOMAIN born'
                /\ Len(announced'[i]) = 1
                /\ announced'[i][1].status \in TerminalStatus
                /\ i \in Held' => announced'[i][1] = Stored(i)'
    <2>1. CASE i = a.id
      <3>1. announced'[i] = <<a>>  BY <1>7, <1>10, <2>1
      <3>2. Len(announced'[i]) = 1 /\ announced'[i][1] = a  BY <3>1
      <3>3. i \in Held' => a = Stored(i)'  BY <1>3, <1>4, <2>1
      <3> QED  BY <1>2, <1>4, <2>1, <3>2, <3>3
    <2>2. CASE i # a.id  BY <1>2, <1>3, <1>6, <1>10, <2>2 DEF Notified
    <2> QED  BY <2>1, <2>2
  <1>11. ASSUME NEW i \in Ids, NEW v \in observed'[i]
         PROVE  /\ i \in DOMAIN born'
                /\ \A w \in observed'[i] : w = v
                /\ i \in Held' => v = Stored(i)'.status
                /\ \A u \in Threads : \A b \in firing'[u] : b.id = i => b.status = v
                /\ announced'[i] # <<>> => announced'[i][1].status = v
    <2>1. v \in observed[i]  BY <1>2, <1>11
    <2>2. announced'[i] # <<>> => announced'[i][1].status = v
      <3>1. CASE i = a.id
        <4>1. a.status = v  BY <2>1, <3>1 DEF Notified
        <4> QED  BY <1>7, <3>1, <4>1
      <3>2. CASE i # a.id  BY <1>6, <2>1, <3>2 DEF Notified
      <3> QED  BY <3>1, <3>2
    <2> QED  BY <1>2, <1>3, <1>5, <2>1, <2>2 DEF Notified
  <1> QED  BY <1>8, <1>9, <1>10, <1>11 DEF Notified

LEMMA NotifiedNext ==
  ASSUME ~ReuseRequests, TypeOK, Owned, Notified, [Next]_vars
  PROVE  Notified'
  <1>1. CASE UNCHANGED vars
    BY <1>1 DEF vars, Notified, Held, Stored
  <1>2. CASE Next
    <2>1. KeepsTerminal
      <3>1. [KeepsTerminal]_vars  BY KeepsTerminalStep
      <3>2. CASE UNCHANGED vars  BY <3>2 DEF KeepsTerminal, vars, Stored
      <3> QED  BY <3>1, <3>2
    <2>2. CASE Tick
      BY <2>1, <2>2, NotifiedFrame DEF Tick, history, Held
    <2>3. ASSUME NEW t \in Threads, NEW r \in Refs, Mint(t, r) PROVE Notified'
      BY <2>1, <2>3, NotifiedFrame DEF Mint, history, Held
    <2>4. ASSUME NEW t \in Threads, Insert(t) PROVE Notified'
      <3>1. PICK c \in creating[t] : /\ Held' = Held \cup {c.id}
                                     /\ DOMAIN born' = DOMAIN born \cup {c.id}
                                     /\ UNCHANGED <<firing, observed, announced>>
        BY <2>4, InsertEffect
      <3>2. c.id \notin DOMAIN born  BY DEF Owned
      <3> QED  BY <2>1, <3>1, <3>2, NotifiedFrame
    <2>5. ASSUME NEW t \in Threads, Refuse(t) PROVE Notified'
      BY <2>1, <2>5, NotifiedFrame DEF Refuse, history, Held
    <2>6. ASSUME NEW t \in Threads, NEW i \in Held,
                 \/ Get(t, i)
                 \/ \E by \in Approvers : Approve(t, i, by)
                 \/ \E by \in Approvers : Deny(t, i, by)
                 \/ Cancel(t, i)
          PROVE  Notified'
      BY <2>1, <2>6, SettleOrReport, NotifiedSettle, NotifiedReport
    <2>7. ASSUME NEW t \in Threads, NEW i \in Held, Delete(t, i) PROVE Notified'
      BY <2>1, <2>7, RemovalEffect, NotifiedFrame DEF Delete, history
    <2>8. ASSUME NEW t \in Threads, Sweep(t) PROVE Notified'
      BY <2>1, <2>8, NotifiedSweep
    <2>9. ASSUME NEW t \in Threads, FireResolve(t) PROVE Notified'
      BY <2>9, NotifiedFire
    <2> QED  BY <1>2, <2>2, <2>3, <2>4, <2>5, <2>6, <2>7, <2>8, <2>9, NextCases
  <1> QED  BY <1>1, <1>2

LEMMA NotifiedInvariant ==
  ASSUME ~ReuseRequests PROVE Spec => [](TypeOK /\ Owned /\ Notified)
  <1>1. TypeOK /\ Owned /\ [Next]_vars => Owned'  BY OwnedNext
  <1>2. TypeOK /\ Owned /\ Notified /\ [Next]_vars => Notified'  BY NotifiedNext
  <1> QED  BY <1>1, <1>2, TypeInit, TypeNext, OwnedInit, NotifiedInit, PTL DEF Spec

\* Pollers, late deciders and the hook all learn one verdict on an approval, the
\* one the Store holds, however many goroutines race for it.
THEOREM OneVerdictForAll ==
  ASSUME ~ReuseRequests PROVE Spec => []OneVerdict
  <1>1. TypeOK /\ Notified => OneVerdict
    <2> SUFFICES ASSUME TypeOK, Notified, NEW i \in Ids
                 PROVE  LET verdicts == observed[i] \cup {a.status : a \in Announcements(i)}
                        IN  /\ \A v, w \in verdicts : v = w
                            /\ i \in Held => /\ Announcements(i) \subseteq {Stored(i)}
                                             /\ verdicts \subseteq {Stored(i).status}
      BY DEF OneVerdict
    <2>1. ASSUME NEW a \in Announcements(i)
          PROVE  \/ announced[i] = <<a>>
                 \/ announced[i] = <<>> /\ \E t \in Threads : a \in firing[t] /\ a.id = i
      <3>1. CASE \E t \in Threads : a \in firing[t] /\ a.id = i
        BY <3>1 DEF Notified
      <3>2. CASE a \in {announced[i][k] : k \in 1..Len(announced[i])}
        <4>1. announced[i] \in Seq(Approval) /\ announced[i] # <<>>  BY <3>2 DEF TypeOK
        <4>2. Len(announced[i]) = 1  BY <4>1 DEF Notified
        <4> QED  BY <3>2, <4>1, <4>2
      <3> QED  BY <3>1, <3>2 DEF Announcements
    <2>2. ASSUME NEW a \in Announcements(i), NEW b \in Announcements(i) PROVE a = b
      BY <2>1 DEF Notified
    <2>3. ASSUME NEW a \in Announcements(i), NEW v \in observed[i] PROVE v = a.status
      BY <2>1 DEF Notified
    <2>4. ASSUME i \in Held, NEW a \in Announcements(i) PROVE a = Stored(i)
      BY <2>1, <2>4 DEF Notified
    <2>5. ASSUME i \in Held, NEW v \in observed[i] PROVE v = Stored(i).status
      BY <2>5 DEF Notified
    <2>6. \A v, w \in observed[i] : v = w  BY DEF Notified
    <2> QED  BY <2>2, <2>3, <2>4, <2>5, <2>6
  <1> QED  BY <1>1, NotifiedInvariant, PTL

\* The hook runs at most once per approval, over all goroutines, and never both
\* for a decision and for an expiry.
THEOREM HookRunsAtMostOnce ==
  ASSUME ~ReuseRequests PROVE Spec => []HookAtMostOnce
  <1>1. TypeOK /\ Notified => HookAtMostOnce
    <2> SUFFICES ASSUME TypeOK, Notified, NEW i \in Ids
                 PROVE  Len(announced[i])
                        + Cardinality({t \in Threads : \E a \in firing[t] : a.id = i}) <= 1
      BY DEF HookAtMostOnce
    <2> DEFINE tellers == {t \in Threads : \E a \in firing[t] : a.id = i}
    <2>1. announced[i] = <<>> \/ Len(announced[i]) = 1  BY DEF Notified
    <2>2. CASE tellers = {}
      <3> HIDE DEF tellers
      <3>1. Cardinality(tellers) = 0  BY <2>2, FS_EmptySet
      <3>2. Len(announced[i]) \in {0, 1}  BY <2>1
      <3>3. 0 + 0 <= 1 /\ 1 + 0 <= 1  OBVIOUS
      <3>4. Len(announced[i]) + Cardinality(tellers) <= 1  BY <3>1, <3>2, <3>3, Zenon
      <3> QED  BY <3>4 DEF tellers
    <2>3. CASE tellers # {}
      <3>1. PICK t : t \in tellers  BY <2>3
      <3>2. \A u \in tellers : u = t
        <4> SUFFICES ASSUME NEW u \in tellers PROVE u = t  OBVIOUS
        <4>1. PICK a \in firing[t], b \in firing[u] : a.id = i /\ b.id = i  BY <3>1
        <4> QED  BY <3>1, <4>1 DEF Notified
      <3>3. tellers = {t}  BY <3>1, <3>2
      <3>4. announced[i] = <<>>  BY <3>1 DEF Notified
      <3> HIDE DEF tellers
      <3>5. Cardinality(tellers) = 1  BY <3>3, FS_Singleton
      <3> QED  BY <3>4, <3>5 DEF tellers
    <2> QED  BY <2>2, <2>3
  <1> QED  BY <1>1, NotifiedInvariant, PTL

-----------------------------------------------------------------------------
(* The Store implements ApprovalLifecycle, when it has a hook: without one a *)
(* record that is gone leaves no trace of its verdict.                       *)

\* A resolved approval that is still held has not escaped the hook.
Accounted ==
    \A i \in Held : Stored(i).status \in TerminalStatus => Announcements(i) # {}

StoreInv == TypeOK /\ Owned /\ Notified /\ Accounted

\* A step that neither resolves nor announces, and adds no resolved record.
LEMMA AccountedFrame ==
  ASSUME Accounted, UNCHANGED <<firing, announced>>,
         \A i \in Held' : Stored(i)'.status \in TerminalStatus =>
                             i \in Held /\ Stored(i)' = Stored(i)
  PROVE  Accounted'
  <1>1. \A i : Announcements(i)' = Announcements(i)  BY DEF Announcements
  <1> QED  BY <1>1 DEF Accounted

\* The clones about an approval, in hand or announced, are one clone.
LEMMA OneAnnouncement ==
  ASSUME TypeOK, Notified, NEW i \in Ids, NEW a \in Announcements(i)
  PROVE  /\ a.status \in TerminalStatus
         /\ i \in DOMAIN born
         /\ i \in Held => a = Stored(i)
         /\ \A b \in Announcements(i) : b = a
  <1>1. ASSUME NEW b \in Announcements(i)
        PROVE  \/ announced[i] # <<>> /\ announced[i][1] = b
               \/ announced[i] = <<>> /\ \E t \in Threads : b \in firing[t] /\ b.id = i
    <2>1. CASE \E t \in Threads : b \in firing[t] /\ b.id = i
      BY <2>1 DEF Notified
    <2>2. CASE b \in {announced[i][k] : k \in 1..Len(announced[i])}
      <3>1. announced[i] \in Seq(Approval) /\ announced[i] # <<>>  BY <2>2 DEF TypeOK
      <3>2. Len(announced[i]) = 1  BY <3>1 DEF Notified
      <3> QED  BY <2>2, <3>1, <3>2
    <2> QED  BY <1>1, <2>1, <2>2 DEF Announcements
  <1>2. \A b \in Announcements(i) : b = a
    BY <1>1 DEF Notified
  <1>3. CASE announced[i] # <<>> /\ announced[i][1] = a
    BY <1>2, <1>3 DEF Notified
  <1>4. CASE \E t \in Threads : a \in firing[t] /\ a.id = i
    BY <1>2, <1>4 DEF Notified
  <1> QED  BY <1>1, <1>3, <1>4

LEMMA PendingUnannounced ==
  ASSUME TypeOK, Notified, NEW i \in Held, Stored(i).status = "pending"
  PROVE  Announcements(i) = {}
  <1>1. i \in Ids  BY DEF TypeOK
  <1>2. "pending" \notin TerminalStatus  BY DEF TerminalStatus
  <1> QED  BY <1>1, <1>2, OneAnnouncement

\* Settle puts its clone in the hands of t and leaves every other approval's.
LEMMA SettleAnnouncements ==
  ASSUME TypeOK, NEW t \in Threads, NEW i \in Held, NEW a \in Approval, Idle(t),
         a.id = i, Settle(t, i, a)
  PROVE  /\ a \in Announcements(i)'
         /\ \A j \in Ids \ {i} : Announcements(j)' = Announcements(j)
  <1>1. firing \in [Threads -> SUBSET Approval] /\ firing[t] = {}  BY DEF TypeOK, Idle
  <1>2. firing' = [firing EXCEPT ![t] = {a}] /\ announced' = announced  BY DEF Settle
  <1>3. \A u \in Threads : firing'[u] = IF u = t THEN {a} ELSE firing[u]  BY <1>1, <1>2
  <1>4. a \in UNION {firing'[u] : u \in Threads}  BY <1>3
  <1>5. ASSUME NEW j \in Ids \ {i}, NEW b
        PROVE  /\ b \in UNION {firing'[u] : u \in Threads} /\ b.id = j
                  <=> b \in UNION {firing[u] : u \in Threads} /\ b.id = j
    BY <1>1, <1>3
  <1>6. \A j \in Ids \ {i} : Announcements(j)' = Announcements(j)
    BY <1>2, <1>5 DEF Announcements
  <1> QED  BY <1>4, <1>6 DEF Announcements

\* No other record shares the object of i.
LEMMA SettleSparesOthers ==
  ASSUME TypeOK, Owned, NEW t, NEW i \in Held, NEW a \in Approval, Settle(t, i, a)
  PROVE  /\ Held' = Held
         /\ \A j \in Held \ {i} : Stored(j)' = Stored(j)
         /\ Stored(i)' = a
         /\ UNCHANGED <<born, announced>>
  <1>1. heap' = [heap EXCEPT ![items[i].ref] = a] /\ UNCHANGED <<items, born, announced>>
    BY DEF Settle
  <1>2. \A j \in Held \ {i} : items[j].ref # items[i].ref  BY DEF Owned, Stored
  <1>3. heap \in [Refs -> Approval]  BY DEF TypeOK
  <1> QED  BY <1>1, <1>2, <1>3, StoredType DEF Held, Stored

LEMMA FireAnnouncements ==
  ASSUME HookSet, TypeOK, Notified, NEW t \in Threads, FireResolve(t)
  PROVE  \E a \in firing[t] :
            /\ a.id \in Ids
            /\ announced[a.id] = <<>>
            /\ announced'[a.id] = <<a>>
            /\ \A i \in Ids \ {a.id} : announced'[i] = announced[i]
            /\ \A i \in Ids : Announcements(i) \subseteq Announcements(i)'
            /\ \A i \in Ids \ {a.id} : Announcements(i)' = Announcements(i)
            /\ UNCHANGED <<heap, items, born>>
  <1>0. firing \in [Threads -> SUBSET Approval] /\ announced \in [Ids -> Seq(Approval)]
    BY DEF TypeOK
  <1>1. PICK a \in firing[t] :
          /\ firing' = [firing EXCEPT ![t] = @ \ {a}]
          /\ announced' = [announced EXCEPT ![a.id] = Append(@, a)]
    BY DEF FireResolve
  <1>2. a.id \in Ids /\ announced[a.id] = <<>> /\ a \in Approval
    <2>1. a.id \in DOMAIN born /\ announced[a.id] = <<>>  BY DEF Notified
    <2> QED  BY <1>0, <2>1 DEF TypeOK
  <1>3. announced'[a.id] = <<a>>  BY <1>0, <1>1, <1>2
  <1>4. \A i \in Ids \ {a.id} : announced'[i] = announced[i]  BY <1>0, <1>1
  <1>5. \A u \in Threads : firing'[u] = IF u = t THEN firing[t] \ {a} ELSE firing[u]
    BY <1>0, <1>1
  <1>6. ASSUME NEW i \in Ids \ {a.id}, NEW b
        PROVE  b \in UNION {firing'[u] : u \in Threads} /\ b.id = i
                  <=> b \in UNION {firing[u] : u \in Threads} /\ b.id = i
    BY <1>5
  <1>7. \A i \in Ids \ {a.id} : Announcements(i)' = Announcements(i)
    BY <1>4, <1>6 DEF Announcements
  <1>8. Announcements(a.id) \subseteq Announcements(a.id)'
    <2>1. a \in Announcements(a.id)  BY DEF Announcements
    <2>2. \A b \in Announcements(a.id) : b = a  BY <1>2, <2>1, OneAnnouncement
    <2>3. Len(announced'[a.id]) = 1 /\ announced'[a.id][1] = a  BY <1>3
    <2>4. a \in {announced'[a.id][k] : k \in 1..Len(announced'[a.id])}  BY <2>3
    <2>5. a \in Announcements(a.id)'  BY <2>4 DEF Announcements
    <2> QED  BY <2>2, <2>5
  <1>9. UNCHANGED <<heap, items, born>>  BY DEF FireResolve
  <1>10. \A i \in Ids : Announcements(i) \subseteq Announcements(i)'  BY <1>7, <1>8
  <1> QED  BY <1>1, <1>2, <1>3, <1>4, <1>7, <1>9, <1>10

\* A sweep: its clones are those of the pending records it lapses, which it also
\* removes; what it leaves is as it was, and pending.
LEMMA SweepLives ==
  ASSUME TypeOK, Owned, Notified, NEW t \in Threads, Sweep(t)
  PROVE  \E J \in SUBSET Held :
            /\ \A i \in J : /\ Stored(i).status = "pending"
                            /\ i \notin Held'
                            /\ Lapsed(Stored(i)) \in Announcements(i)'
            /\ \A i \in Ids \ J : Announcements(i)' = Announcements(i)
            /\ Held' \subseteq Held
            /\ \A i \in Held' : Stored(i).status = "pending" /\ Stored(i)' = Stored(i)
            /\ UNCHANGED <<born, announced>>
  <1>0. firing \in [Threads -> SUBSET Approval] /\ firing[t] = {}
    BY DEF TypeOK, Sweep, Idle
  <1>1. PICK J \in SUBSET Held :
          /\ \A i \in J : Stored(i).status = "pending"
          /\ heap' = [r \in Refs |-> IF r \in Lapsing(J) THEN Lapsed(heap[r]) ELSE heap[r]]
          /\ firing' = [firing EXCEPT ![t] = {Lapsed(heap[r]) : r \in Lapsing(J)}]
          /\ \E S : items' = Without(S) /\ Swept(J) \subseteq S
          /\ UNCHANGED <<creating, minted, history>>
    BY SweepEffect
  <1>2. /\ Held' \subseteq Held
        /\ \A i \in Held' : items'[i] = items[i] /\ i \notin Swept(J)
    BY <1>1, RemovalEffect
  <1>3. UNCHANGED <<born, announced>>  BY <1>1 DEF history
  <1>4. \A u \in Threads : firing'[u] = IF u = t THEN {Lapsed(heap[r]) : r \in Lapsing(J)}
                                         ELSE firing[u]
    BY <1>0, <1>1
  <1>5. ASSUME NEW i \in J
        PROVE  /\ Stored(i).status = "pending"
               /\ i \notin Held'
               /\ Lapsed(Stored(i)) \in Announcements(i)'
    <2>1. i \notin Held'  BY <1>2 DEF Swept
    <2>2. Lapsed(Stored(i)).id = i  BY StoredType, LapsedType DEF Owned
    <2>3. Lapsed(Stored(i)) \in firing'[t]  BY <1>4 DEF Lapsing, Stored
    <2>4. Lapsed(Stored(i)) \in UNION {firing'[u] : u \in Threads}  BY <2>3
    <2> QED  BY <1>1, <2>1, <2>2, <2>4 DEF Announcements
  <1>6. ASSUME NEW r \in Lapsing(J) PROVE Lapsed(heap[r]).id \in J
    <2>1. PICK i \in J : items[i].ref = r  BY DEF Lapsing
    <2>2. Lapsed(Stored(i)).id = i  BY StoredType, LapsedType DEF Owned
    <2> QED  BY <2>1, <2>2 DEF Stored
  <1>7. ASSUME NEW i \in Ids \ J, NEW b
        PROVE  b \in UNION {firing'[u] : u \in Threads} /\ b.id = i
                  <=> b \in UNION {firing[u] : u \in Threads} /\ b.id = i
    <2>1. ASSUME NEW u \in Threads, b.id = i PROVE b \in firing'[u] <=> b \in firing[u]
      <3>1. CASE u = t
        <4>1. b \notin {Lapsed(heap[r]) : r \in Lapsing(J)}  BY <1>6, <2>1
        <4> QED  BY <1>0, <1>4, <3>1, <4>1
      <3>2. CASE u # t  BY <1>4, <3>2
      <3> QED  BY <3>1, <3>2
    <2> QED  BY <2>1
  <1>8. \A i \in Ids \ J : Announcements(i)' = Announcements(i)
    BY <1>3, <1>7 DEF Announcements
  <1>9. ASSUME NEW i \in Held' PROVE Stored(i).status = "pending" /\ Stored(i)' = Stored(i)
    <2>1. i \in Held /\ i \notin J /\ Stored(i).status \notin TerminalStatus
      BY <1>2 DEF Swept
    <2>2. Stored(i) \in Approval /\ items[i].ref \in Refs  BY <2>1, StoredType
    <2>3. items[i].ref \notin Lapsing(J)
      BY <2>1 DEF Lapsing, Owned, Stored
    <2>4. Stored(i)' = Stored(i)  BY <1>1, <1>2, <2>2, <2>3 DEF Stored
    <2> QED  BY <2>1, <2>2, <2>4 DEF Approval, Status
  <1> QED  BY <1>2, <1>3, <1>5, <1>8, <1>9

LEMMA AccountedNext ==
  ASSUME ~ReuseRequests, HookSet, TypeOK, Owned, Notified, Accounted, [Next]_vars
  PROVE  Accounted'
  <1>1. "pending" \notin TerminalStatus  BY DEF TerminalStatus
  <1>2. ASSUME UNCHANGED <<heap, items, firing, announced>> PROVE Accounted'
    BY <1>2, AccountedFrame DEF Held, Stored
  <1>3. CASE UNCHANGED vars  BY <1>2, <1>3 DEF vars
  <1>4. CASE Tick  BY <1>2, <1>4 DEF Tick, history
  <1>5. ASSUME NEW t \in Threads, NEW r \in Refs, Mint(t, r) PROVE Accounted'
    <2>1. UNCHANGED <<items, firing, announced>>  BY <1>5 DEF Mint, history
    <2>2. \A q \in Refs \ {r} : heap'[q] = heap[q]  BY <1>5 DEF Mint, TypeOK
    <2>3. \A i \in Held : items[i].ref # r  BY <1>5 DEF Mint, Free
    <2>4. Held' = Held /\ \A i \in Held : Stored(i)' = Stored(i)
      BY <2>1, <2>2, <2>3, StoredType DEF Held, Stored
    <2> QED  BY <2>1, <2>4, AccountedFrame
  <1>6. ASSUME NEW t \in Threads, Insert(t) PROVE Accounted'
    <2>1. PICK c \in creating[t] :
            /\ Held' = Held \cup {c.id}
            /\ \A i \in Held \ {c.id} : items'[i] = items[i]
            /\ items'[c.id] = Stamp(c)
            /\ UNCHANGED <<heap, firing, announced>>
      BY <1>6, InsertEffect
    <2>2. Stored(c.id)'.status = "pending"  BY <2>1 DEF Owned, Stored, Stamp
    <2>3. \A i \in Held \ {c.id} : Stored(i)' = Stored(i)  BY <2>1 DEF Stored
    <2> QED  BY <1>1, <2>1, <2>2, <2>3, AccountedFrame
  <1>7. ASSUME NEW t \in Threads, Refuse(t) PROVE Accounted'
    BY <1>2, <1>7 DEF Refuse, history
  <1>8. ASSUME NEW t \in Threads, NEW i \in Held,
               \/ Get(t, i)
               \/ \E by \in Approvers : Approve(t, i, by)
               \/ \E by \in Approvers : Deny(t, i, by)
               \/ Cancel(t, i)
        PROVE  Accounted'
    <2>1. CASE UNCHANGED <<heap, items, now, creating, firing, minted, born, announced>>
      BY <1>2, <2>1
    <2>2. ASSUME NEW a \in Approval, a.id = Stored(i).id, Idle(t), Settle(t, i, a)
          PROVE  Accounted'
      <3>1. a.id = i /\ i \in Ids  BY <2>2 DEF Owned, TypeOK
      <3>2. /\ a \in Announcements(i)'
            /\ \A j \in Ids \ {i} : Announcements(j)' = Announcements(j)
        BY <2>2, <3>1, SettleAnnouncements
      <3>3. Held' = Held /\ \A j \in Held \ {i} : Stored(j)' = Stored(j)
        BY <2>2, SettleSparesOthers
      <3> QED  BY <3>2, <3>3 DEF Accounted, TypeOK
    <2> QED  BY <1>8, <2>1, <2>2, SettleOrReport
  <1>9. ASSUME NEW t \in Threads, NEW i \in Held, Delete(t, i) PROVE Accounted'
    <2>1. UNCHANGED <<heap, firing, announced>>  BY <1>9 DEF Delete, history
    <2>2. \A j \in Held' : j \in Held /\ Stored(j)' = Stored(j)
      BY <1>9, <2>1, RemovalEffect DEF Delete, Stored
    <2> QED  BY <2>1, <2>2, AccountedFrame
  <1>10. ASSUME NEW t \in Threads, Sweep(t) PROVE Accounted'
    BY <1>1, <1>10, SweepLives DEF Accounted
  <1>11. ASSUME NEW t \in Threads, FireResolve(t) PROVE Accounted'
    <2>1. /\ \A i \in Ids : Announcements(i) \subseteq Announcements(i)'
          /\ UNCHANGED <<heap, items>>
      BY <1>11, FireAnnouncements
    <2> QED  BY <2>1 DEF Accounted, Held, Stored, TypeOK
  <1> QED
    BY <1>3, <1>4, <1>5, <1>6, <1>7, <1>8, <1>9, <1>10, <1>11, NextCases

\* What the lifecycle shows of an approval, by where its record is.
LifeShape(i) ==
    /\ i \notin DOMAIN born => LifeOf(i) = Lifecycle!Absent
    /\ i \in Held =>
          /\ LifeOf(i) = [status |-> Stored(i).status, held |-> TRUE, told |-> announced[i] # <<>>]
          /\ Stored(i).status = "pending" => LifeOf(i) = Lifecycle!Pending
    /\ i \in DOMAIN born \ Held =>
          /\ \A a \in Announcements(i) :
                LifeOf(i) = [status |-> a.status, held |-> FALSE, told |-> announced[i] # <<>>]
          /\ Announcements(i) = {} =>
                LifeOf(i) = [status |-> "pending", held |-> FALSE, told |-> FALSE]

LifeShaped == \A i \in Ids : LifeShape(i)

LEMMA LifeShapes == StoreInv => LifeShaped
  <1> SUFFICES ASSUME StoreInv, NEW i \in Ids PROVE LifeShape(i)  BY DEF LifeShaped
  <1> USE DEF StoreInv
  <1> DEFINE c == CHOOSE a \in Announcements(i) : TRUE
             s == IF i \notin DOMAIN born THEN "absent"
                  ELSE IF i \in Held THEN Stored(i).status
                  ELSE IF Announcements(i) = {} THEN "pending"
                  ELSE c.status
             h == i \in Held
             o == announced[i] # <<>>
  <1>0. LifeOf(i) = [status |-> s, held |-> h, told |-> o]  BY DEF LifeOf
  <1>1. ASSUME i \notin DOMAIN born PROVE LifeOf(i) = Lifecycle!Absent
    <2>1. s = "absent" /\ h = FALSE  BY <1>1 DEF Owned
    <2>2. o = FALSE  BY <1>1 DEF Notified
    <2> HIDE DEF s, h, o
    <2> QED  BY <1>0, <2>1, <2>2, Zenon DEF Lifecycle!Absent
  <1>2. ASSUME i \in Held
        PROVE  /\ LifeOf(i) = [status |-> Stored(i).status, held |-> TRUE, told |-> o]
               /\ Stored(i).status = "pending" => LifeOf(i) = Lifecycle!Pending
    <2>1. s = Stored(i).status /\ h = TRUE  BY <1>2 DEF Owned
    <2>2. Stored(i).status = "pending" => o = FALSE  BY <1>2, PendingUnheard
    <2> HIDE DEF s, h, o
    <2> QED  BY <1>0, <2>1, <2>2, Zenon DEF Lifecycle!Pending
  <1>3. ASSUME i \in DOMAIN born \ Held, NEW a \in Announcements(i)
        PROVE  LifeOf(i) = [status |-> a.status, held |-> FALSE, told |-> o]
    <2>1. c \in Announcements(i) /\ Announcements(i) # {}  OBVIOUS
    <2> HIDE DEF c
    <2>2. c = a  BY <2>1, OneAnnouncement
    <2>3. s = a.status  BY <1>3, <2>1, <2>2
    <2>4. h = FALSE  BY <1>3
    <2> HIDE DEF s, h, o
    <2> QED  BY <1>0, <2>3, <2>4, Zenon
  <1>4. ASSUME i \in DOMAIN born \ Held, Announcements(i) = {}
        PROVE  LifeOf(i) = [status |-> "pending", held |-> FALSE, told |-> FALSE]
    <2>1. ASSUME announced[i] # <<>> PROVE FALSE
      <3>1. Len(announced[i]) = 1  BY <2>1 DEF Notified
      <3>2. announced[i][1] \in {announced[i][k] : k \in 1..Len(announced[i])}  BY <3>1
      <3> QED  BY <1>4, <3>2 DEF Announcements
    <2>2. s = "pending"  BY <1>4
    <2>3. h = FALSE /\ o = FALSE  BY <1>4, <2>1
    <2> HIDE DEF s, h, o
    <2> QED  BY <1>0, <2>2, <2>3, Zenon
  <1> QED  BY <1>1, <1>2, <1>3, <1>4 DEF LifeShape

LEMMA LifeShapesNext == StoreInv' => LifeShaped'
  BY LifeShapes, PTL

\* The approval is where it was.
LEMMA SameLife ==
  ASSUME LifeShaped, LifeShaped', NEW i \in Ids,
         i \in Held' <=> i \in Held,
         i \in DOMAIN born' <=> i \in DOMAIN born,
         Held \subseteq DOMAIN born,
         i \in Held => Stored(i)' = Stored(i),
         announced'[i] = announced[i],
         Announcements(i)' = Announcements(i)
  PROVE  LifeOf(i)' = LifeOf(i)
  <1>1. LifeShape(i) /\ LifeShape(i)'  BY DEF LifeShaped
  <1>2. CASE i \notin DOMAIN born  BY <1>1, <1>2 DEF LifeShape, Lifecycle!Absent
  <1>3. CASE i \in Held
    <2>1. LifeOf(i) = [status |-> Stored(i).status, held |-> TRUE, told |-> announced[i] # <<>>]
      BY <1>1, <1>3 DEF LifeShape
    <2>2. LifeOf(i)' = [status |-> Stored(i)'.status, held |-> TRUE, told |-> announced'[i] # <<>>]
      BY <1>1, <1>3 DEF LifeShape
    <2> QED  BY <1>3, <2>1, <2>2, Zenon
  <1>4. CASE i \in DOMAIN born \ Held
    <2>1. CASE Announcements(i) = {}  BY <1>1, <1>4, <2>1 DEF LifeShape
    <2>2. ASSUME NEW a \in Announcements(i) PROVE LifeOf(i)' = LifeOf(i)
      <3>1. LifeOf(i) = [status |-> a.status, held |-> FALSE, told |-> announced[i] # <<>>]
        BY <1>1, <1>4 DEF LifeShape
      <3>2. LifeOf(i)' = [status |-> a.status, held |-> FALSE, told |-> announced'[i] # <<>>]
        BY <1>1, <1>4 DEF LifeShape
      <3> QED  BY <3>1, <3>2, Zenon
    <2> QED  BY <2>1, <2>2
  <1> QED  BY <1>2, <1>3, <1>4

LEMMA Unheld ==
  ASSUME NEW s, NEW h, NEW o, NEW f
  PROVE  /\ [[status |-> s, held |-> h, told |-> o] EXCEPT !.held = f] = [status |-> s, held |-> f, told |-> o]
         /\ [status |-> s, held |-> h, told |-> o].held = h
  OBVIOUS

\* The records that disappear, one by one: each is forgotten, and its verdict, if
\* it had one, is in the announcement.
LEMMA ForgottenLife ==
  ASSUME StoreInv, LifeShaped, LifeShaped', NEW i \in Held, i \notin Held',
         i \in DOMAIN born', announced'[i] = announced[i],
         Announcements(i)' = Announcements(i)
  PROVE  Lifecycle!Forget(LifeOf(i), LifeOf(i)')
  <1>0. i \in Ids  BY DEF StoreInv, TypeOK
  <1> DEFINE o == announced[i] # <<>>
             s == Stored(i).status
  <1>1. LifeShape(i) /\ LifeShape(i)'  BY <1>0 DEF LifeShaped
  <1>2. LifeOf(i) = [status |-> s, held |-> TRUE, told |-> o]  BY <1>1 DEF LifeShape
  <1>3. LifeOf(i)' = [status |-> s, held |-> FALSE, told |-> o]
    <2>1. CASE Announcements(i) = {}
      <3>1. s = "pending"
        BY <2>1, StoredType DEF StoreInv, Accounted, Approval, Status
      <3>2. o = FALSE  BY <3>1, PendingUnheard DEF StoreInv
      <3>3. LifeOf(i)' = [status |-> "pending", held |-> FALSE, told |-> FALSE]
        BY <1>1, <2>1 DEF LifeShape
      <3> HIDE DEF s, o
      <3> QED  BY <3>1, <3>2, <3>3, Zenon
    <2>2. ASSUME NEW a \in Announcements(i) PROVE LifeOf(i)' = [status |-> s, held |-> FALSE, told |-> o]
      <3>1. a = Stored(i)  BY <1>0, OneAnnouncement DEF StoreInv
      <3>2. LifeOf(i)' = [status |-> a.status, held |-> FALSE, told |-> announced'[i] # <<>>]
        BY <1>1 DEF LifeShape
      <3> QED  BY <3>1, <3>2, Zenon
    <2> QED  BY <2>1, <2>2
  <1> HIDE DEF s, o
  <1> DEFINE l == [status |-> s, held |-> TRUE, told |-> o]
  <1>4. l.held = TRUE  BY Unheld
  <1>5. [l EXCEPT !.held = FALSE] = [status |-> s, held |-> FALSE, told |-> o]  BY Unheld
  <1> HIDE DEF l
  <1>6. LifeOf(i) = l  BY <1>2 DEF l
  <1> QED  BY <1>3, <1>4, <1>5, <1>6, Zenon DEF Lifecycle!Forget

\* A pending approval is resolved under the lock, and stays where it is.
LEMMA SettledLife ==
  ASSUME StoreInv, StoreInv', LifeShaped, LifeShaped',
         NEW t \in Threads, NEW i \in Held, NEW a \in Approval, Idle(t), a.id = i,
         Stored(i).status = "pending", a.status \in TerminalStatus, Settle(t, i, a),
         NEW j \in Ids
  PROVE  LifeOf(j)' = LifeOf(j) \/ Lifecycle!Resolve(LifeOf(j), LifeOf(j)')
  <1>0. /\ Held' = Held
        /\ \A k \in Held \ {i} : Stored(k)' = Stored(k)
        /\ Stored(i)' = a
        /\ UNCHANGED <<born, announced>>
    BY SettleSparesOthers DEF StoreInv
  <1>1. \A k \in Ids \ {i} : Announcements(k)' = Announcements(k)
    BY SettleAnnouncements DEF StoreInv
  <1>2. CASE j # i
    BY <1>0, <1>1, <1>2, SameLife DEF StoreInv, Owned
  <1>3. CASE j = i
    <2> DEFINE s == a.status
               o == announced[i] # <<>>
    <2>1. LifeShape(i) /\ LifeShape(i)'  BY <1>3 DEF LifeShaped
    <2>2. LifeOf(i) = Lifecycle!Pending  BY <2>1 DEF LifeShape
    <2>3. LifeOf(i)' = [status |-> s, held |-> TRUE, told |-> o]
      BY <1>0, <2>1 DEF LifeShape
    <2>4. o = FALSE  BY PendingUnheard DEF StoreInv
    <2>5. s \in Lifecycle!Terminal  BY DEF Lifecycle!Terminal, TerminalStatus
    <2> DEFINE no == FALSE
               yes == TRUE
               new == "pending"
    <2>6. Lifecycle!Pending = [status |-> new, held |-> yes, told |-> no]
      BY DEF Lifecycle!Pending
    <2>7. LifeOf(i)' = [status |-> s, held |-> yes, told |-> no]
      <3> HIDE DEF s, o
      <3> QED  BY <2>3, <2>4, Zenon
    <2> HIDE DEF s, o, no, yes, new
    <2>8. [[status |-> new, held |-> yes, told |-> no] EXCEPT !.status = s]
          = [status |-> s, held |-> yes, told |-> no]
      OBVIOUS
    <2>9. LifeOf(i)' = [Lifecycle!Pending EXCEPT !.status = s]
      BY <2>6, <2>7, <2>8, Zenon
    <2> QED  BY <1>3, <2>2, <2>5, <2>9, Zenon DEF Lifecycle!Resolve
  <1> QED  BY <1>2, <1>3

\* A sweep lapses, forgets or leaves alone.
LEMMA SweptLife ==
  ASSUME StoreInv, StoreInv', LifeShaped, LifeShaped', NEW t \in Threads, Sweep(t), NEW i \in Ids
  PROVE  \/ LifeOf(i)' = LifeOf(i)
         \/ Lifecycle!Lapse(LifeOf(i), LifeOf(i)')
         \/ Lifecycle!Forget(LifeOf(i), LifeOf(i)')
  <1>1. PICK J \in SUBSET Held :
            /\ \A j \in J : /\ Stored(j).status = "pending"
                            /\ j \notin Held'
                            /\ Lapsed(Stored(j)) \in Announcements(j)'
            /\ \A j \in Ids \ J : Announcements(j)' = Announcements(j)
            /\ Held' \subseteq Held
            /\ \A j \in Held' : Stored(j).status = "pending" /\ Stored(j)' = Stored(j)
            /\ UNCHANGED <<born, announced>>
    BY SweepLives DEF StoreInv
  <1>2. Held \subseteq DOMAIN born  BY DEF StoreInv, Owned
  <1>3. CASE i \in J
    <2> DEFINE o == announced[i] # <<>>
    <2>1. LifeShape(i) /\ LifeShape(i)'  BY DEF LifeShaped
    <2>2. LifeOf(i) = Lifecycle!Pending  BY <1>1, <1>3, <2>1 DEF LifeShape
    <2>3. Lapsed(Stored(i)).status = "expired"  BY <1>3, StoredType, LapsedType DEF StoreInv
    <2>4. LifeOf(i)' = [status |-> Lapsed(Stored(i)).status, held |-> FALSE, told |-> o]
      BY <1>1, <1>2, <1>3, <2>1 DEF LifeShape
    <2>5. o = FALSE  BY <1>1, <1>3, PendingUnheard DEF StoreInv
    <2> DEFINE no == FALSE
               yes == TRUE
               new == "pending"
               old == "expired"
    <2>6. Lifecycle!Pending = [status |-> new, held |-> yes, told |-> no]
      BY DEF Lifecycle!Pending
    <2>7. LifeOf(i)' = [status |-> old, held |-> no, told |-> no]
      <3> HIDE DEF o
      <3> QED  BY <2>3, <2>4, <2>5, Zenon
    <2> HIDE DEF no, yes, new, old
    <2> DEFINE l == [status |-> new, held |-> yes, told |-> no]
               m == [status |-> old, held |-> yes, told |-> no]
    <2>8. [l EXCEPT !.status = old] = m  OBVIOUS
    <2>9. [m EXCEPT !.held = no] = [status |-> old, held |-> no, told |-> no]  OBVIOUS
    <2>10. [l EXCEPT !.status = old, !.held = no] = [[l EXCEPT !.status = old] EXCEPT !.held = no]
      OBVIOUS
    <2> HIDE DEF l, m
    <2>11. LifeOf(i)' = [Lifecycle!Pending EXCEPT !.status = old, !.held = no]
      <3>1. Lifecycle!Pending = l  BY <2>6 DEF l
      <3> QED  BY <3>1, <2>7, <2>8, <2>9, <2>10, Zenon
    <2>12. LifeOf(i)' = [Lifecycle!Pending EXCEPT !.status = "expired", !.held = FALSE]
      BY <2>11 DEF old, no
    <2> QED  BY <2>2, <2>12, Zenon DEF Lifecycle!Lapse
  <1>4. CASE i \in Held \ J /\ i \notin Held'
    BY <1>1, <1>2, <1>4, ForgottenLife
  <1>5. CASE i \notin J /\ (i \in Held => i \in Held')
    BY <1>1, <1>2, <1>5, SameLife
  <1> QED  BY <1>3, <1>4, <1>5

\* The hook makes a resolution known, whether or not the record is still there.
LEMMA AnnouncedLife ==
  ASSUME HookSet, StoreInv, StoreInv', LifeShaped, LifeShaped',
         NEW t \in Threads, FireResolve(t), NEW i \in Ids
  PROVE  LifeOf(i)' = LifeOf(i) \/ Lifecycle!Announce(LifeOf(i), LifeOf(i)')
  <1>1. PICK a \in firing[t] :
            /\ a.id \in Ids
            /\ announced[a.id] = <<>>
            /\ announced'[a.id] = <<a>>
            /\ \A j \in Ids \ {a.id} : announced'[j] = announced[j]
            /\ \A j \in Ids : Announcements(j) \subseteq Announcements(j)'
            /\ \A j \in Ids \ {a.id} : Announcements(j)' = Announcements(j)
            /\ UNCHANGED <<heap, items, born>>
    BY FireAnnouncements DEF StoreInv
  <1>2. Held \subseteq DOMAIN born /\ Held' = Held /\ \A j \in Held : Stored(j)' = Stored(j)
    BY <1>1 DEF StoreInv, Owned, Held, Stored
  <1>3. CASE i # a.id  BY <1>1, <1>2, <1>3, SameLife
  <1>4. CASE i = a.id
    <2> DEFINE s == a.status
               h == i \in Held
               o == announced[i] # <<>>
               p == announced'[i] # <<>>
    <2>1. LifeShape(i) /\ LifeShape(i)'  BY DEF LifeShaped
    <2>2. a \in Announcements(i)  BY <1>4 DEF Announcements
    <2>3. /\ i \in DOMAIN born /\ s \in TerminalStatus
          /\ i \in Held => a = Stored(i)
      BY <2>2, OneAnnouncement DEF StoreInv
    <2>4. o = FALSE /\ p = TRUE  BY <1>1, <1>4
    <2>5. LifeOf(i) = [status |-> s, held |-> h, told |-> o]
      <3>1. CASE i \in Held
        <4>1. LifeOf(i) = [status |-> Stored(i).status, held |-> TRUE, told |-> o]
          BY <2>1, <3>1 DEF LifeShape
        <4>2. h = TRUE /\ Stored(i).status = s  BY <2>3, <3>1
        <4> QED  BY <4>1, <4>2, Zenon
      <3>2. CASE i \notin Held
        <4>1. LifeOf(i) = [status |-> s, held |-> FALSE, told |-> o]
          BY <2>1, <2>2, <2>3, <3>2 DEF LifeShape
        <4>2. h = FALSE  BY <3>2
        <4> QED  BY <4>1, <4>2, Zenon
      <3> QED  BY <3>1, <3>2
    <2>6. LifeOf(i)' = [status |-> s, held |-> h, told |-> p]
      <3>1. CASE i \in Held
        <4>1. LifeOf(i)' = [status |-> Stored(i)'.status, held |-> TRUE, told |-> p]
          BY <1>2, <2>1, <3>1 DEF LifeShape
        <4>2. h = TRUE /\ Stored(i)'.status = s  BY <1>2, <2>3, <3>1
        <4> QED  BY <4>1, <4>2, Zenon
      <3>2. CASE i \notin Held
        <4>1. a \in Announcements(i)' /\ i \in DOMAIN born' \ Held'
          BY <1>1, <1>2, <2>2, <2>3, <3>2
        <4>2. LifeOf(i)' = [status |-> s, held |-> FALSE, told |-> p]
          BY <2>1, <4>1 DEF LifeShape
        <4>3. h = FALSE  BY <3>2
        <4> QED  BY <4>2, <4>3, Zenon
      <3> QED  BY <3>1, <3>2
    <2>7. s \in Lifecycle!Terminal  BY <2>3 DEF Lifecycle!Terminal, TerminalStatus
    <2> HIDE DEF s, h, o, p
    <2> DEFINE l == [status |-> s, held |-> h, told |-> o]
    <2>8. l.status = s /\ l.told = o  OBVIOUS
    <2>9. [l EXCEPT !.told = p] = [status |-> s, held |-> h, told |-> p]  OBVIOUS
    <2> HIDE DEF l
    <2>10. LifeOf(i) = l  BY <2>5 DEF l
    <2>11. LifeOf(i).status \in Lifecycle!Terminal /\ ~LifeOf(i).told
      BY <2>4, <2>7, <2>8, <2>10, Zenon
    <2>12. LifeOf(i)' = [LifeOf(i) EXCEPT !.told = TRUE]
      BY <2>4, <2>6, <2>9, <2>10, Zenon
    <2> QED  BY <2>11, <2>12 DEF Lifecycle!Announce
  <1> QED  BY <1>3, <1>4

LEMMA LifecycleStep ==
  ASSUME ~ReuseRequests, HookSet, StoreInv, StoreInv', [Next]_vars, NEW i \in Ids
  PROVE  LifeOf(i)' = LifeOf(i) \/ Lifecycle!Move(LifeOf(i), LifeOf(i)')
  <1>0. LifeShaped /\ LifeShaped'  BY LifeShapes, LifeShapesNext
  <1>a. Held \subseteq DOMAIN born  BY DEF StoreInv, Owned
  <1>1. ASSUME UNCHANGED <<heap, items, firing, born, announced>> PROVE LifeOf(i)' = LifeOf(i)
    <2>1. Held' = Held /\ Announcements(i)' = Announcements(i) /\ Stored(i)' = Stored(i)
      BY <1>1 DEF Held, Announcements, Stored
    <2> QED  BY <1>0, <1>1, <1>a, <2>1, SameLife
  <1>2. CASE UNCHANGED vars  BY <1>1, <1>2 DEF vars
  <1>3. CASE Tick  BY <1>1, <1>3 DEF Tick, history
  <1>4. ASSUME NEW t \in Threads, NEW r \in Refs, Mint(t, r) PROVE LifeOf(i)' = LifeOf(i)
    <2>1. UNCHANGED <<items, firing, born, announced>>  BY <1>4 DEF Mint, history
    <2>2. \A q \in Refs \ {r} : heap'[q] = heap[q]  BY <1>4 DEF Mint, StoreInv, TypeOK
    <2>3. \A j \in Held : items[j].ref # r  BY <1>4 DEF Mint, Free
    <2>4. Held' = Held /\ \A j \in Held : Stored(j)' = Stored(j)
      BY <2>1, <2>2, <2>3, StoredType DEF Held, Stored, StoreInv
    <2>5. Announcements(i)' = Announcements(i)  BY <2>1 DEF Announcements
    <2> QED  BY <1>0, <1>a, <2>1, <2>4, <2>5, SameLife
  <1>5. ASSUME NEW t \in Threads, Insert(t)
        PROVE  LifeOf(i)' = LifeOf(i) \/ Lifecycle!Create(LifeOf(i), LifeOf(i)')
    <2>1. PICK c \in creating[t] :
            /\ Held' = Held \cup {c.id}
            /\ \A j \in Held \ {c.id} : items'[j] = items[j]
            /\ items'[c.id] = Stamp(c)
            /\ DOMAIN born' = DOMAIN born \cup {c.id}
            /\ UNCHANGED <<heap, firing, announced>>
      BY <1>5, InsertEffect
    <2>2. Announcements(i)' = Announcements(i)  BY <2>1 DEF Announcements
    <2>3. CASE i # c.id
      <3>1. i \in Held => Stored(i)' = Stored(i)  BY <2>1, <2>3 DEF Stored
      <3> QED  BY <1>0, <1>a, <2>1, <2>2, <2>3, <3>1, SameLife
    <2>4. CASE i = c.id
      <3>1. i \notin DOMAIN born  BY <2>4 DEF StoreInv, Owned
      <3>2. Stored(i)'.status = "pending" /\ i \in Held'
        BY <2>1, <2>4 DEF StoreInv, Owned, Stored, Stamp
      <3>3. LifeOf(i) = Lifecycle!Absent /\ LifeOf(i)' = Lifecycle!Pending
        BY <1>0, <3>1, <3>2 DEF LifeShaped, LifeShape
      <3> QED  BY <3>3 DEF Lifecycle!Create
    <2> QED  BY <2>3, <2>4
  <1>6. ASSUME NEW t \in Threads, Refuse(t) PROVE LifeOf(i)' = LifeOf(i)
    BY <1>1, <1>6 DEF Refuse, history
  <1>7. ASSUME NEW t \in Threads, NEW j \in Held,
               \/ Get(t, j)
               \/ \E by \in Approvers : Approve(t, j, by)
               \/ \E by \in Approvers : Deny(t, j, by)
               \/ Cancel(t, j)
        PROVE  LifeOf(i)' = LifeOf(i) \/ Lifecycle!Resolve(LifeOf(i), LifeOf(i)')
    <2>1. CASE UNCHANGED <<heap, items, now, creating, firing, minted, born, announced>>
      BY <1>1, <2>1
    <2>2. ASSUME NEW a \in Approval, a.id = Stored(j).id, Idle(t), Settle(t, j, a),
                 Stored(j).status = "pending", a.status \in TerminalStatus
          PROVE  LifeOf(i)' = LifeOf(i) \/ Lifecycle!Resolve(LifeOf(i), LifeOf(i)')
      <3>1. a.id = j  BY <2>2 DEF StoreInv, Owned
      <3> QED  BY <1>0, <2>2, <3>1, SettledLife
    <2> QED  BY <1>7, <2>1, <2>2, SettleOrReport DEF StoreInv
  <1>8. ASSUME NEW t \in Threads, NEW j \in Held, Delete(t, j)
        PROVE  LifeOf(i)' = LifeOf(i) \/ Lifecycle!Forget(LifeOf(i), LifeOf(i)')
    <2>1. UNCHANGED <<heap, firing, born, announced>>  BY <1>8 DEF Delete, history
    <2>2. Held' = Held \ {j} /\ \A k \in Held' : items'[k] = items[k]
      BY <1>8, RemovalEffect DEF Delete
    <2>3. Announcements(i)' = Announcements(i)  BY <2>1 DEF Announcements
    <2>4. CASE i = j  BY <1>0, <1>a, <2>1, <2>2, <2>3, <2>4, ForgottenLife
    <2>5. CASE i # j
      <3>1. i \in Held => Stored(i)' = Stored(i)  BY <2>1, <2>2, <2>5 DEF Stored
      <3> QED  BY <1>0, <1>a, <2>1, <2>2, <2>3, <2>5, <3>1, SameLife
    <2> QED  BY <2>4, <2>5
  <1>9. ASSUME NEW t \in Threads, Sweep(t)
        PROVE  \/ LifeOf(i)' = LifeOf(i)
               \/ Lifecycle!Lapse(LifeOf(i), LifeOf(i)')
               \/ Lifecycle!Forget(LifeOf(i), LifeOf(i)')
    BY <1>0, <1>9, SweptLife
  <1>10. ASSUME NEW t \in Threads, FireResolve(t)
         PROVE  LifeOf(i)' = LifeOf(i) \/ Lifecycle!Announce(LifeOf(i), LifeOf(i)')
    BY <1>0, <1>10, AnnouncedLife
  <1> QED
    BY <1>2, <1>3, <1>4, <1>5, <1>6, <1>7, <1>8, <1>9, <1>10, NextCases DEF Lifecycle!Move

LEMMA LifeTyped == StoreInv => \A i \in Ids : LifeOf(i) \in Lifecycle!Life
  <1> SUFFICES ASSUME StoreInv, NEW i \in Ids PROVE LifeOf(i) \in Lifecycle!Life  OBVIOUS
  <1> DEFINE S == {"absent", "pending"} \cup Lifecycle!Terminal
  <1>1. ASSUME NEW s \in S, NEW h \in BOOLEAN, NEW o \in BOOLEAN
        PROVE  [status |-> s, held |-> h, told |-> o] \in Lifecycle!Life
    BY DEF Lifecycle!Life
  <1>2. Status \subseteq S /\ TerminalStatus \subseteq S
    BY DEF Status, TerminalStatus, Lifecycle!Terminal
  <1>3. LifeShape(i)  BY LifeShapes DEF LifeShaped
  <1>4. (announced[i] # <<>>) \in BOOLEAN  OBVIOUS
  <1>5. CASE i \notin DOMAIN born  BY <1>1, <1>3, <1>5 DEF LifeShape, Lifecycle!Absent
  <1>6. CASE i \in Held
    <2>1. Stored(i).status \in S  BY <1>2, <1>6, StoredType DEF StoreInv, Approval
    <2> QED  BY <1>1, <1>3, <1>4, <1>6, <2>1 DEF LifeShape
  <1>7. CASE i \in DOMAIN born \ Held
    <2>1. CASE Announcements(i) = {}  BY <1>1, <1>3, <1>7, <2>1 DEF LifeShape
    <2>2. ASSUME NEW a \in Announcements(i) PROVE LifeOf(i) \in Lifecycle!Life
      <3>1. a.status \in S  BY <1>2, OneAnnouncement DEF StoreInv
      <3> QED  BY <1>1, <1>3, <1>4, <1>7, <3>1 DEF LifeShape
    <2> QED  BY <2>1, <2>2
  <1> QED  BY <1>5, <1>6, <1>7

LEMMA LifeTypedNext == StoreInv' => \A i \in Ids : LifeOf(i)' \in Lifecycle!Life
  <1>1. StoreInv' => (\A i \in Ids : LifeOf(i) \in Lifecycle!Life)'  BY LifeTyped, PTL
  <1> QED  BY <1>1

LEMMA StoreInvariant ==
  ASSUME ~ReuseRequests, HookSet PROVE Spec => []StoreInv
  <1>1. Init => Accounted  BY DEF Init, Accounted, Held
  <1>2. TypeOK /\ Owned /\ Notified /\ Accounted /\ [Next]_vars => Accounted'
    BY AccountedNext
  <1> QED  BY <1>1, <1>2, NotifiedInvariant, PTL DEF Spec, StoreInv

\* Seen from outside, the Store is exactly one lifecycle per approval: created
\* pending, resolved once, announced once, and only then or never forgotten.
THEOREM StoreImplementsLifecycle ==
  ASSUME ~ReuseRequests, HookSet PROVE Spec => ImplementsLifecycle
  <1>1. Init => Lifecycle!Init
    <2> SUFFICES ASSUME Init PROVE Lifecycle!Init  OBVIOUS
    <2>1. StoreInv
      BY TypeInit, OwnedInit, NotifiedInit DEF Init, StoreInv, Accounted, Held
    <2>2. \A i \in Ids : LifeOf(i) = Lifecycle!Absent
      BY <2>1, LifeShapes DEF Init, LifeShaped, LifeShape
    <2> QED  BY <2>2 DEF Lifecycle!Init
  <1>2. StoreInv /\ StoreInv' /\ [Next]_vars => [Lifecycle!Next]_([i \in Ids |-> LifeOf(i)])
    <2> SUFFICES ASSUME StoreInv, StoreInv', [Next]_vars
                 PROVE  Lifecycle!Next
      OBVIOUS
    <2>1. \A i \in Ids : LifeOf(i)' = LifeOf(i) \/ Lifecycle!Move(LifeOf(i), LifeOf(i)')
      BY LifecycleStep
    <2>2. \A i \in Ids : LifeOf(i)' \in Lifecycle!Life  BY LifeTypedNext
    <2> QED  BY <2>1, <2>2 DEF Lifecycle!Next
  <1> QED
    BY <1>1, <1>2, StoreInvariant, PTL DEF Spec, ImplementsLifecycle, Lifecycle!Spec

-----------------------------------------------------------------------------
(* The clock: decisions and expiry respect the lifetime an approval was    *)
(* created with, and a sweep drops no pending approval before its time.    *)

\* Lifetimes that a time.Duration can hold.
LifetimesFit == \A n \in Lifetimes \cup {DefaultExpiresIn} : n < MaxDuration

\* What the deadline of a record is computed from is what it was created with:
\* the record's instant, and as long as it is pending its object's lifetime.
Timed ==
    /\ \A r \in Refs : heap[r].expiresIn < MaxDuration
    /\ \A t \in Threads : \A c \in creating[t] : heap[c.ref].expiresIn > 0
    /\ \A i \in Held :
          /\ items[i].createdAt = born[i].at
          /\ Stored(i).status = "pending" =>
                /\ Stored(i).expiresIn = born[i].lifetime
                /\ Stored(i).expiresIn > 0

-----------------------------------------------------------------------------
(* Lemmas.                                                                 *)

\* Create leaves a positive lifetime that fits.
LEMMA FreshLifetime ==
  ASSUME LifetimesFit, NEW a \in Approval, a.expiresIn < MaxDuration, NEW i \in Ids
  PROVE  Fresh(a, i).expiresIn > 0 /\ Fresh(a, i).expiresIn < MaxDuration
  <1> DEFINE n == IF a.expiresIn <= 0 THEN DefaultExpiresIn ELSE a.expiresIn
  <1>1. n > 0 /\ n < MaxDuration  BY StoreAssumption DEF LifetimesFit, Approval
  <1>2. Fresh(a, i) = [a EXCEPT !.id = i, !.status = "pending", !.expiresIn = n,
                                !.decidedBy = None, !.decidedAt = None]
    BY DEF Fresh
  <1> HIDE DEF n
  <1>3. Fresh(a, i).expiresIn = n  BY <1>2 DEF Approval
  <1> QED  BY <1>1, <1>3

\* A resolved approval has no lifetime left.
LEMMA LapsedLifetime ==
  ASSUME NEW a \in Approval
  PROVE  Lapsed(a).expiresIn = 0
  <1> DEFINE zero == 0
  <1>1. Lapsed(a) = [a EXCEPT !.status = "expired", !.expiresIn = zero]  BY DEF Lapsed
  <1> HIDE DEF zero
  <1>2. Lapsed(a).expiresIn = zero  BY <1>1 DEF Approval
  <1> QED  BY <1>2 DEF zero

LEMMA DecidedLifetime ==
  ASSUME NEW a \in Approval, NEW s, NEW by, NEW at
  PROVE  /\ Decided(a, s, by, at).expiresIn = 0
         /\ Decided(a, s, by, at).status = s
         /\ Decided(a, s, by, at).id = a.id
  <1> DEFINE zero == 0
  <1>1. Decided(a, s, by, at) = [a EXCEPT !.status = s, !.expiresIn = zero,
                                          !.decidedBy = by, !.decidedAt = at]
    BY DEF Decided
  <1> HIDE DEF zero
  <1>2. /\ Decided(a, s, by, at).expiresIn = zero
        /\ Decided(a, s, by, at).status = s
        /\ Decided(a, s, by, at).id = a.id
    BY <1>1 DEF Approval
  <1> QED  BY <1>2 DEF zero

\* Get, Approve, Deny and Cancel expire the approval, decide it, or write nothing.
LEMMA CallEffect ==
  ASSUME NEW t \in Threads, NEW i \in Held,
         \/ Get(t, i)
         \/ \E by \in Approvers : Approve(t, i, by)
         \/ \E by \in Approvers : Deny(t, i, by)
         \/ Cancel(t, i)
  PROVE  \/ Expire(t, i)
         \/ \E s \in {"approved", "denied", "canceled"}, at \in Instants : \E by :
               Mutable(i) /\ Settle(t, i, Decided(Stored(i), s, by, at))
         \/ UNCHANGED <<heap, items, now, creating, firing, minted, born, announced>>
  <1> DEFINE Effect ==
         \/ Expire(t, i)
         \/ \E s \in {"approved", "denied", "canceled"}, at \in Instants : \E by :
               Mutable(i) /\ Settle(t, i, Decided(Stored(i), s, by, at))
         \/ UNCHANGED <<heap, items, now, creating, firing, minted, born, announced>>
  <1>1. ASSUME NEW s \in {"approved", "denied", "canceled"}, NEW by, Decide(t, i, s, by)
        PROVE  Effect
    BY <1>1 DEF Decide
  <1>2. CASE Get(t, i)  BY <1>2 DEF Get
  <1>3. CASE \E by \in Approvers : Approve(t, i, by)  BY <1>1, <1>3 DEF Approve
  <1>4. CASE \E by \in Approvers : Deny(t, i, by)  BY <1>1, <1>4 DEF Deny
  <1>5. CASE Cancel(t, i)  BY <1>1, <1>5 DEF Cancel
  <1> QED  BY <1>2, <1>3, <1>4, <1>5

\* A pending record is due from the end of its lifetime on.
LEMMA DueFromEnd ==
  ASSUME TypeOK, Owned, Timed, NEW i \in Held, Stored(i).status = "pending"
  PROVE  /\ End(i) \in Int
         /\ \A at \in Nat : Due(i, at) <=> at >= End(i)
  <1>1. /\ Stored(i) \in Approval /\ items[i].ref \in Refs
        /\ Stored(i).expiresIn \in Int
    BY StoredType DEF Approval
  <1>2. items[i].createdAt \in Nat  BY DEF TypeOK, Record
  <1>3. Stored(i).expiresIn < MaxDuration  BY <1>1 DEF Timed, Stored
  <1>4. Seconds(Stored(i).expiresIn) = Stored(i).expiresIn  BY <1>3 DEF Seconds
  <1>5. Deadline(i) = End(i)  BY <1>4 DEF Deadline, End, Timed
  <1>6. End(i) \in Int  BY <1>1, <1>2 DEF End, Timed
  <1> QED  BY <1>5, <1>6 DEF Due, Timed

-----------------------------------------------------------------------------
(* The invariant.                                                          *)

LEMMA TimedInit == LifetimesFit /\ Init => Timed
  <1> SUFFICES ASSUME LifetimesFit, Init PROVE Timed  OBVIOUS
  <1>1. \A r \in Refs : heap[r].expiresIn \in Lifetimes  BY DEF Init, Blank
  <1> QED  BY <1>1 DEF Init, Timed, LifetimesFit, Held

\* Writing a resolved approval into the object of a held record.
LEMMA TimedSettle ==
  ASSUME TypeOK, Owned, Timed, NEW t, NEW i \in Held, NEW a,
         a.status \in TerminalStatus, a.expiresIn = 0, Settle(t, i, a)
  PROVE  Timed'
  <1>1. /\ heap' = [heap EXCEPT ![items[i].ref] = a]
        /\ UNCHANGED <<items, creating, born>>
    BY DEF Settle
  <1>2. heap \in [Refs -> Approval] /\ creating \in [Threads -> SUBSET Call]
    BY DEF TypeOK
  <1>3. items[i].ref \in Refs  BY StoredType
  <1>4. \A r \in Refs : heap'[r] = IF r = items[i].ref THEN a ELSE heap[r]
    BY <1>1, <1>2
  <1>5. "pending" \notin TerminalStatus  BY DEF TerminalStatus
  <1>6. (\A r \in Refs : heap[r].expiresIn < MaxDuration)'
    BY <1>4, StoreAssumption DEF Timed
  <1>7. (\A u \in Threads : \A c \in creating[u] : heap[c.ref].expiresIn > 0)'
    BY <1>1, <1>2, <1>4, InFlightApart DEF Timed, Call
  <1>8. ASSUME NEW j \in Held'
        PROVE  /\ items'[j].createdAt = born'[j].at
               /\ Stored(j)'.status = "pending" =>
                     /\ Stored(j)'.expiresIn = born'[j].lifetime
                     /\ Stored(j)'.expiresIn > 0
    <2>1. j \in Held /\ items'[j] = items[j] /\ items[j].ref \in Refs
      BY <1>1, <1>8, StoredType DEF Held
    <2>2. CASE items[j].ref = items[i].ref
      BY <1>1, <1>4, <1>5, <2>1, <2>2 DEF Timed, Stored
    <2>3. CASE items[j].ref # items[i].ref
      BY <1>1, <1>4, <2>1, <2>3 DEF Timed, Stored
    <2> QED  BY <2>2, <2>3
  <1> QED  BY <1>6, <1>7, <1>8 DEF Timed

LEMMA TimedNext ==
  ASSUME LifetimesFit, ~ReuseRequests, TypeOK, Owned, Timed, [Next]_vars
  PROVE  Timed'
  <1>0. /\ heap \in [Refs -> Approval]
        /\ creating \in [Threads -> SUBSET Call]
    BY DEF TypeOK
  <1>1. ASSUME UNCHANGED <<heap, items, creating, born>> PROVE Timed'
    BY <1>1 DEF Timed, Held, Stored
  <1>2. ASSUME NEW S, items' = Without(S), UNCHANGED <<heap, creating, born>> PROVE Timed'
    BY <1>2, RemovalEffect DEF Timed, Stored
  <1>3. CASE UNCHANGED vars  BY <1>1, <1>3 DEF vars
  <1>4. CASE Tick  BY <1>1, <1>4 DEF Tick, history
  <1>5. ASSUME NEW t \in Threads, NEW r \in Refs, Mint(t, r) PROVE Timed'
    <2>1. PICK i \in Ids \ minted :
            /\ heap' = [heap EXCEPT ![r] = Fresh(@, i)]
            /\ creating' = [creating EXCEPT ![t] = {[ref |-> r, id |-> i]}]
      BY <1>5 DEF Mint
    <2>2. UNCHANGED <<items, born>> /\ Free(r)  BY <1>5 DEF Mint, history
    <2>3. heap'[r].expiresIn > 0 /\ heap'[r].expiresIn < MaxDuration
      BY <1>0, <2>1, FreshLifetime DEF Timed
    <2>4. \A q \in Refs \ {r} : heap'[q] = heap[q]  BY <1>0, <2>1
    <2>5. (\A q \in Refs : heap[q].expiresIn < MaxDuration)'
      BY <2>3, <2>4 DEF Timed
    <2>6. ASSUME NEW u \in Threads, NEW c \in creating'[u]
          PROVE  c.ref = r \/ (c \in creating[u] /\ c.ref \in Refs \ {r})
      BY <1>0, <2>1, <2>2, <2>6 DEF Free, Call
    <2>7. (\A u \in Threads : \A c \in creating[u] : heap[c.ref].expiresIn > 0)'
      BY <2>3, <2>4, <2>6 DEF Timed
    <2>8. \A j \in Held : Stored(j)' = Stored(j)
      BY <2>2, <2>4, StoredType DEF Free, Stored
    <2> QED  BY <2>2, <2>5, <2>7, <2>8 DEF Timed, Held
  <1>6. ASSUME NEW t \in Threads, Insert(t) PROVE Timed'
    <2>1. PICK c \in creating[t] :
            /\ Held' = Held \cup {c.id}
            /\ \A i \in Held \ {c.id} : items'[i] = items[i]
            /\ items'[c.id] = Stamp(c)
            /\ \A i \in DOMAIN born \ {c.id} : born'[i] = born[i]
            /\ born'[c.id] = BirthOf(c)
            /\ creating' = [creating EXCEPT ![t] = {}]
            /\ heap' = heap
      BY <1>6, InsertEffect
    <2>2. c.id \notin Held /\ Held \subseteq DOMAIN born  BY DEF Owned
    <2>3. (\A u \in Threads : \A d \in creating[u] : heap[d.ref].expiresIn > 0)'
      BY <1>0, <2>1 DEF Timed
    <2>4. /\ items'[c.id].ref = c.ref
          /\ items'[c.id].createdAt = born'[c.id].at
          /\ heap[c.ref].expiresIn = born'[c.id].lifetime
      BY <2>1 DEF Stamp, BirthOf
    <2>5. ASSUME NEW j \in Held'
          PROVE  /\ items'[j].createdAt = born'[j].at
                 /\ Stored(j)'.status = "pending" =>
                       /\ Stored(j)'.expiresIn = born'[j].lifetime
                       /\ Stored(j)'.expiresIn > 0
      <3>1. CASE j = c.id  BY <2>1, <2>4, <3>1 DEF Timed, Stored
      <3>2. CASE j # c.id  BY <2>1, <2>2, <2>5, <3>2 DEF Timed, Stored
      <3> QED  BY <3>1, <3>2
    <2> QED  BY <2>1, <2>3, <2>5 DEF Timed
  <1>7. ASSUME NEW t \in Threads, Refuse(t) PROVE Timed'
    <2>1. \A u \in Threads : creating'[u] \subseteq creating[u]
      BY <1>0, <1>7 DEF Refuse
    <2>2. UNCHANGED <<heap, items, born>>  BY <1>7 DEF Refuse, history
    <2> QED  BY <2>1, <2>2 DEF Timed, Held, Stored
  <1>8. ASSUME NEW t \in Threads, NEW i \in Held,
               \/ Get(t, i)
               \/ \E by \in Approvers : Approve(t, i, by)
               \/ \E by \in Approvers : Deny(t, i, by)
               \/ Cancel(t, i)
        PROVE  Timed'
    <2>1. Stored(i) \in Approval  BY StoredType
    <2>2. CASE UNCHANGED <<heap, items, now, creating, firing, minted, born, announced>>
      BY <1>1, <2>2
    <2>3. CASE Expire(t, i)
      <3>1. Lapsed(Stored(i)).status \in TerminalStatus /\ Lapsed(Stored(i)).expiresIn = 0
        BY <2>1, LapsedType, LapsedLifetime DEF TerminalStatus
      <3> QED  BY <2>3, <3>1, TimedSettle DEF Expire
    <2>4. ASSUME NEW s \in {"approved", "denied", "canceled"}, NEW at, NEW by,
                 Settle(t, i, Decided(Stored(i), s, by, at))
          PROVE  Timed'
      <3>1. s \in TerminalStatus  BY DEF TerminalStatus
      <3> QED  BY <2>1, <2>4, <3>1, DecidedLifetime, TimedSettle
    <2> QED  BY <1>8, <2>2, <2>3, <2>4, CallEffect
  <1>9. ASSUME NEW t \in Threads, NEW i \in Held, Delete(t, i) PROVE Timed'
    BY <1>2, <1>9 DEF Delete, history
  <1>10. ASSUME NEW t \in Threads, Sweep(t) PROVE Timed'
    <2>1. PICK J \in SUBSET Held :
            /\ heap' = [r \in Refs |-> IF r \in Lapsing(J) THEN Lapsed(heap[r]) ELSE heap[r]]
            /\ \E S : items' = Without(S)
            /\ UNCHANGED <<creating, minted, history>>
      BY <1>10, SweepEffect
    <2>2. \A r \in Refs : /\ heap'[r] = IF r \in Lapsing(J) THEN Lapsed(heap[r]) ELSE heap[r]
                          /\ Lapsed(heap[r]).expiresIn = 0
                          /\ Lapsed(heap[r]).status = "expired"
      BY <1>0, <2>1, LapsedLifetime, LapsedType
    <2>3. (\A r \in Refs : heap[r].expiresIn < MaxDuration)'
      BY <2>2, StoreAssumption DEF Timed
    <2>4. (\A u \in Threads : \A c \in creating[u] : heap[c.ref].expiresIn > 0)'
      <3> SUFFICES ASSUME NEW u \in Threads, NEW c \in creating[u]
                   PROVE  heap'[c.ref].expiresIn > 0
        BY <2>1
      <3>1. c.ref \notin Lapsing(J) /\ c.ref \in Refs
        BY <1>0, InFlightApart DEF Lapsing, Call
      <3> QED  BY <2>2, <3>1 DEF Timed
    <2>5. ASSUME NEW j \in Held'
          PROVE  /\ items'[j].createdAt = born'[j].at
                 /\ Stored(j)'.status = "pending" =>
                       /\ Stored(j)'.expiresIn = born'[j].lifetime
                       /\ Stored(j)'.expiresIn > 0
      <3>1. j \in Held /\ items'[j] = items[j] /\ items[j].ref \in Refs /\ born' = born
        BY <2>1, <2>5, RemovalEffect, StoredType DEF history
      <3> QED  BY <2>2, <3>1 DEF Timed, Stored
    <2> QED  BY <2>3, <2>4, <2>5 DEF Timed
  <1>11. ASSUME NEW t \in Threads, FireResolve(t) PROVE Timed'
    BY <1>1, <1>11 DEF FireResolve
  <1> QED
    BY <1>3, <1>4, <1>5, <1>6, <1>7, <1>8, <1>9, <1>10, <1>11, NextCases

-----------------------------------------------------------------------------
(* The steps.                                                              *)

\* A call hands the hook what it is entitled to at that instant.
LEMMA OnTimeCall ==
  ASSUME TypeOK, Owned, Timed, NEW t \in Threads, NEW i \in Held,
         \/ Expire(t, i)
         \/ \E s \in {"approved", "denied", "canceled"}, at \in Instants : \E by :
               Mutable(i) /\ Settle(t, i, Decided(Stored(i), s, by, at))
  PROVE  \E a : /\ firing' = [firing EXCEPT ![t] = {a}]
                /\ a.id = i
                /\ a.status \in {"approved", "denied", "canceled"} => now < End(i)
                /\ a.status = "expired" => now' >= End(i)
  <1>1. Stored(i) \in Approval /\ Stored(i).id = i  BY StoredType DEF Owned
  <1>2. now \in Nat  BY DEF TypeOK
  <1>3. CASE Expire(t, i)
    <2>1. firing' = [firing EXCEPT ![t] = {Lapsed(Stored(i))}] /\ now' = now
      BY <1>3 DEF Expire, Settle
    <2>2. Due(i, now) /\ Stored(i).status = "pending"  BY <1>3 DEF Expire, Due
    <2>3. now >= End(i)  BY <1>2, <2>2, DueFromEnd
    <2>4. Lapsed(Stored(i)).id = i /\ Lapsed(Stored(i)).status = "expired"
      BY <1>1, LapsedType
    <2> QED  BY <2>1, <2>3, <2>4
  <1>4. ASSUME NEW s \in {"approved", "denied", "canceled"}, NEW at, NEW by,
               Mutable(i), Settle(t, i, Decided(Stored(i), s, by, at))
        PROVE  \E a : /\ firing' = [firing EXCEPT ![t] = {a}]
                      /\ a.id = i
                      /\ a.status \in {"approved", "denied", "canceled"} => now < End(i)
                      /\ a.status = "expired" => now' >= End(i)
    <2>1. firing' = [firing EXCEPT ![t] = {Decided(Stored(i), s, by, at)}]
      BY <1>4 DEF Settle
    <2>2. Stored(i).status = "pending" /\ ~Due(i, now)  BY <1>4 DEF Mutable
    <2>3. now < End(i)  BY <1>2, <2>2, DueFromEnd
    <2>4. /\ Decided(Stored(i), s, by, at).id = i
          /\ Decided(Stored(i), s, by, at).status = s
      BY <1>1, DecidedLifetime
    <2> QED  BY <2>1, <2>3, <2>4
  <1> QED  BY <1>3, <1>4

\* A sweep removes, of the pending records, exactly those it expires, each at an
\* instant at which it is due.
LEMMA SweepOnTime ==
  ASSUME TypeOK, Owned, Timed, NEW t \in Threads, Sweep(t)
  PROVE  /\ \E J \in SUBSET Held :
               /\ firing' = [firing EXCEPT ![t] = {Lapsed(heap[r]) : r \in Lapsing(J)}]
               /\ \A i \in J : Stored(i).status = "pending" /\ now' >= End(i)
               /\ \A i \in Held \ Held' : Stored(i).status = "pending" => i \in J
  <1>1. PICK at \in Instants, J \in SUBSET Held :
          /\ MayLapse(J, at)
          /\ now' = at
          /\ \E S \in SUBSET Aliases(J) : items' = Without(Swept(J) \cup S)
          /\ firing' = [firing EXCEPT ![t] = {Lapsed(heap[r]) : r \in Lapsing(J)}]
    BY DEF Sweep
  <1>2. at \in Nat  BY DEF Instants, TypeOK
  <1>3. ASSUME NEW i \in J PROVE Stored(i).status = "pending" /\ now' >= End(i)
    <2>1. Due(i, at) /\ Stored(i).status = "pending"  BY <1>1 DEF MayLapse, Due
    <2> QED  BY <1>1, <1>2, <2>1, DueFromEnd
  <1>4. ASSUME NEW i \in Held \ Held', Stored(i).status = "pending" PROVE i \in J
    <2>1. PICK S \in SUBSET Aliases(J) : items' = Without(Swept(J) \cup S)  BY <1>1
    <2>2. i \in Swept(J) \cup S  BY <2>1, RemovalEffect
    <2>3. ASSUME i \in Aliases(J) PROVE FALSE
      <3>1. PICK j \in J : items[j].ref = items[i].ref  BY <2>3 DEF Aliases, Lapsing
      <3>2. j = i  BY <3>1 DEF Owned, Stored
      <3> QED  BY <2>3, <3>2 DEF Aliases, Swept
    <2>4. "pending" \notin TerminalStatus  BY DEF TerminalStatus
    <2> QED  BY <1>4, <2>2, <2>3, <2>4 DEF Swept
  <1> QED  BY <1>1, <1>3, <1>4

LEMMA OnTimeStep ==
  ASSUME TypeOK, Owned, Timed, [Next]_vars
  PROVE  [\A i \in Held : TakesEffectOnTime(i)]_vars
  <1> SUFFICES ASSUME NEW i \in Held, NEW u \in Threads,
                      NEW a \in firing'[u], a \notin firing[u], a.id = i
               PROVE  /\ a.status \in {"approved", "denied", "canceled"} => now < End(i)
                      /\ a.status = "expired" => now' >= End(i)
    BY DEF TakesEffectOnTime
  <1> DEFINE OnTime == /\ a.status \in {"approved", "denied", "canceled"} => now < End(i)
                       /\ a.status = "expired" => now' >= End(i)
  <1>0. firing \in [Threads -> SUBSET Approval]  BY DEF TypeOK
  <1>1. ASSUME firing' = firing PROVE FALSE  BY <1>1
  <1>2. CASE UNCHANGED vars  BY <1>1, <1>2 DEF vars
  <1>3. CASE Tick  BY <1>1, <1>3 DEF Tick
  <1>4. ASSUME NEW t \in Threads, (\E r \in Refs : Mint(t, r)) \/ Insert(t) \/ Refuse(t)
        PROVE  OnTime
    BY <1>1, <1>4 DEF Mint, Insert, Refuse
  <1>5. ASSUME NEW t \in Threads, NEW j \in Held,
               \/ Get(t, j)
               \/ \E by \in Approvers : Approve(t, j, by)
               \/ \E by \in Approvers : Deny(t, j, by)
               \/ Cancel(t, j)
        PROVE  OnTime
    <2>1. PICK b : /\ firing' = [firing EXCEPT ![t] = {b}]
                   /\ b.id = j
                   /\ b.status \in {"approved", "denied", "canceled"} => now < End(j)
                   /\ b.status = "expired" => now' >= End(j)
      BY <1>1, <1>5, CallEffect, OnTimeCall
    <2>2. a = b  BY <1>0, <2>1
    <2> QED  BY <2>1, <2>2
  <1>6. ASSUME NEW t \in Threads, NEW j \in Held, Delete(t, j) PROVE OnTime
    BY <1>1, <1>6 DEF Delete
  <1>7. ASSUME NEW t \in Threads, Sweep(t) PROVE OnTime
    <2>1. PICK J \in SUBSET Held :
            /\ firing' = [firing EXCEPT ![t] = {Lapsed(heap[r]) : r \in Lapsing(J)}]
            /\ \A j \in J : Stored(j).status = "pending" /\ now' >= End(j)
      BY <1>7, SweepOnTime
    <2>2. a \in {Lapsed(heap[r]) : r \in Lapsing(J)}  BY <1>0, <2>1
    <2>3. PICK j \in J : a = Lapsed(Stored(j))  BY <2>2 DEF Lapsing, Stored
    <2>4. a.id = j /\ a.status = "expired"
      BY <2>3, StoredType, LapsedType DEF Owned
    <2> QED  BY <2>1, <2>4
  <1>8. ASSUME NEW t \in Threads, FireResolve(t) PROVE OnTime
    <2>1. firing'[u] \subseteq firing[u]  BY <1>0, <1>8 DEF FireResolve
    <2> QED  BY <2>1
  <1> QED  BY <1>2, <1>3, <1>4, <1>5, <1>6, <1>7, <1>8, NextCases

LEMMA SweptStep ==
  ASSUME TypeOK, Owned, Timed, NEW t \in Threads, Sweep(t),
         NEW i \in Held \ DOMAIN items', Stored(i).status = "pending"
  PROVE  now' >= End(i) /\ Lapsed(Stored(i)) \in firing'[t]
  <1>1. PICK J \in SUBSET Held :
          /\ firing' = [firing EXCEPT ![t] = {Lapsed(heap[r]) : r \in Lapsing(J)}]
          /\ \A j \in J : Stored(j).status = "pending" /\ now' >= End(j)
          /\ \A j \in Held \ Held' : Stored(j).status = "pending" => j \in J
    BY SweepOnTime
  <1>2. i \in J  BY <1>1 DEF Held
  <1>3. Lapsed(Stored(i)) \in {Lapsed(heap[r]) : r \in Lapsing(J)}
    BY <1>2 DEF Lapsing, Stored
  <1>4. firing'[t] = {Lapsed(heap[r]) : r \in Lapsing(J)}  BY <1>1 DEF TypeOK
  <1> QED  BY <1>1, <1>2, <1>3, <1>4

-----------------------------------------------------------------------------
(* The theorems.                                                           *)

\* Decisions take effect only within the lifetime an approval was created with,
\* and it expires only after that, in every interleaving and however long the
\* critical sections take: for lifetimes that do not overflow, and callers that
\* do not re-submit an object the Store holds.
THEOREM ResolutionsOnTime ==
  ASSUME LifetimesFit, ~ReuseRequests PROVE Spec => ResolvedOnTime
  <1>1. TypeOK /\ Owned /\ [Next]_vars => Owned'  BY OwnedNext
  <1>2. TypeOK /\ Owned /\ Timed /\ [Next]_vars => Timed'  BY TimedNext
  <1>3. Init => Timed  BY TimedInit
  <1>4. TypeOK /\ Owned /\ Timed /\ [Next]_vars => [\A i \in Held : TakesEffectOnTime(i)]_vars
    BY OnTimeStep
  <1> QED
    BY <1>1, <1>2, <1>3, <1>4, TypeInit, TypeNext, OwnedInit, PTL DEF Spec, ResolvedOnTime

\* A sweep drops a pending approval only when its lifetime is over, and never
\* without a clone for the hook.
THEOREM SweepsAreAnnounced ==
  ASSUME LifetimesFit, ~ReuseRequests PROVE Spec => SweptOnlyWhenResolved
  <1> DEFINE Announced == \A t \in Threads : Sweep(t) =>
                 \A i \in Held \ DOMAIN items' :
                     Stored(i).status = "pending" =>
                         now' >= End(i)
                         /\ Lapsed(Stored(i)) \in firing'[t]
  <1>1. TypeOK /\ Owned /\ [Next]_vars => Owned'  BY OwnedNext
  <1>2. TypeOK /\ Owned /\ Timed /\ [Next]_vars => Timed'  BY TimedNext
  <1>3. Init => Timed  BY TimedInit
  <1>4. TypeOK /\ Owned /\ Timed /\ [Next]_vars => [Announced]_vars
    BY SweptStep
  <1> QED
    BY <1>1, <1>2, <1>3, <1>4, TypeInit, TypeNext, OwnedInit, PTL
    DEF Spec, SweptOnlyWhenResolved
=============================================================================
