--------------------------- MODULE ApprovalStore ---------------------------
(***************************************************************************)
(* The in-memory approval Store of src/approval/store.go: a map from       *)
(* opaque ids to records, guarded by one mutex, called by any number of    *)
(* goroutines, with lazy expiry and an OnResolve hook that runs after the  *)
(* mutex is released.                                                      *)
(*                                                                         *)
(* Everything a method does between mu.Lock and mu.Unlock is one action,   *)
(* during which the clock may pass to the next second: a method that reads *)
(* it twice may read two values.                                           *)
(* What a method does outside the lock is an action of its own: Create     *)
(* writes into the caller's object before it locks (Mint), and every hook  *)
(* delivery happens after the unlock (FireResolve).                        *)
(*                                                                         *)
(* The map does not own its approvals: Create stores the pointer it is     *)
(* given.  The objects are therefore cells of a heap, and a record names   *)
(* its cell.                                                               *)
(***************************************************************************)
EXTENDS Integers, Sequences, FiniteSets, Functions

CONSTANTS
    Threads,           \* goroutines that call the Store
    Refs,              \* *Approval objects that callers pass to Create
    Ids,               \* opaque identifiers newID can mint
    Approvers,         \* deciding principals
    Lifetimes,         \* ExpiresIn values a caller sets before Create
    DefaultExpiresIn,  \* lifetime applied when ExpiresIn <= 0
    MaxSize,           \* Store.maxSize; 0 leaves the Store uncapped
    MaxDuration,       \* seconds at which the int64 of a time.Duration wraps
    MaxTime,           \* bound of the modelled clock
    HookSet,           \* whether Store.OnResolve is non-nil
    ReuseRequests,     \* whether callers re-submit an object the Store holds
    None               \* Go's nil / zero value of a field

ASSUME StoreAssumption ==
    /\ Lifetimes \subseteq Int
    /\ DefaultExpiresIn \in Nat \ {0}
    /\ MaxSize \in Nat
    /\ MaxDuration \in Nat \ {0}
    /\ MaxTime \in Nat
    /\ {HookSet, ReuseRequests} \subseteq BOOLEAN
    /\ None \notin Ids /\ None \notin Approvers /\ None \notin Nat

VARIABLES
    heap,       \* the Approval objects, by reference
    items,      \* Store.items: a partial function from ids to records
    now,        \* Store.now()
    creating,   \* per goroutine, the Create call that has not locked yet
    firing,     \* per goroutine, clones taken under the lock, hook not yet run
    minted,     \* every id newID has returned
    born,       \* history: creation instant and lifetime of each stored id
    observed,   \* history: terminal statuses callers were returned for an id
    announced   \* history: clones OnResolve was invoked with, per id

vars == <<heap, items, now, creating, firing, minted, born, observed, announced>>
history == <<born, observed, announced>>

-----------------------------------------------------------------------------
(* Values.                                                                 *)

TerminalStatus == {"approved", "denied", "expired", "canceled"}
Status == TerminalStatus \cup {"pending"}

OrNone(S) == S \cup {None}

\* The fields of Approval that the Store's transitions read or write.  Interval,
\* Grant, ReasonUser and the descriptive fields are payload none depends on.
Approval == [id        : OrNone(Ids),
             status    : Status,
             expiresIn : Int,
             decidedBy : OrNone(Approvers),
             decidedAt : OrNone(Nat)]

Record == [ref : Refs, createdAt : Nat]
Call   == [ref : Refs, id : Ids]
Birth  == [at : Nat, lifetime : Int]

\* Assignment to a key of a map.
Put(f, k, v) == [x \in DOMAIN f \cup {k} |-> IF x = k THEN v ELSE f[x]]

Held == DOMAIN items
Stored(i) == heap[items[i].ref]
Idle(t) == creating[t] = {} /\ firing[t] = {}

\* time.Duration(n) * time.Second in int64 arithmetic, on a clock of whole
\* seconds: a lifetime beyond the largest duration wraps around to negative.
Seconds(n) == IF n < MaxDuration
              THEN n
              ELSE ((n + MaxDuration) % (2 * MaxDuration)) - MaxDuration

Deadline(i) == items[i].createdAt + Seconds(Stored(i).expiresIn)

\* Mutant of Due: now.After(deadline), which keeps the deadline itself alive.
DueAfterDeadline(i, at) ==
    /\ Stored(i).status = "pending"
    /\ Stored(i).expiresIn > 0
    /\ at > Deadline(i)

\* The condition under which expireLocked, reading the clock at instant at,
\* performs the transition.
Due(i, at) ==
    /\ Stored(i).status = "pending"
    /\ Stored(i).expiresIn > 0
    /\ at >= Deadline(i)

\* The instants a critical section that begins now can read from the clock.
Instants == {at \in {now, now + 1} : at <= MaxTime}

Lapsed(a) == [a EXCEPT !.status = "expired", !.expiresIn = 0]

\* Callers keep to this discipline unless ReuseRequests: an object is handed
\* to Create only while neither the Store nor another call has hold of it.
Free(r) ==
    /\ \A i \in Held : items[i].ref # r
    /\ \A t \in Threads : \A c \in creating[t] : c.ref # r

-----------------------------------------------------------------------------
Blank(n) == [id |-> None, status |-> "pending", expiresIn |-> n,
             decidedBy |-> None, decidedAt |-> None]

Init ==
    /\ heap \in [Refs -> {Blank(n) : n \in Lifetimes}]
    /\ items = [i \in {} |-> None]
    /\ now = 0
    /\ creating = [t \in Threads |-> {}]
    /\ firing = [t \in Threads |-> {}]
    /\ minted = {}
    /\ born = [i \in {} |-> None]
    /\ observed = [i \in Ids |-> {}]
    /\ announced = [i \in Ids |-> <<>>]

-----------------------------------------------------------------------------
(* Create.                                                                 *)

\* Mutant of Fresh: an object that already has an id keeps it.
FreshKeepingId(a, i) ==
    [a EXCEPT !.id = IF @ = None THEN i ELSE @, !.status = "pending",
              !.expiresIn = IF @ <= 0 THEN DefaultExpiresIn ELSE @,
              !.decidedBy = None, !.decidedAt = None]

\* What Create writes into the caller's object.
Fresh(a, i) ==
    [a EXCEPT !.id = i,
              !.status = "pending",
              !.expiresIn = IF @ <= 0 THEN DefaultExpiresIn ELSE @,
              !.decidedBy = None,
              !.decidedAt = None]

\* Create up to mu.Lock: mint an id and reset the caller's object.  When newID
\* fails Create returns before it writes anything, which is a stuttering step.
Mint(t, r) ==
    /\ Idle(t)
    /\ ReuseRequests \/ Free(r)
    /\ \E i \in Ids \ minted :
          /\ minted' = minted \cup {i}
          /\ heap' = [heap EXCEPT ![r] = Fresh(@, i)]
          /\ creating' = [creating EXCEPT ![t] = {[ref |-> r, id |-> i]}]
    /\ UNCHANGED <<items, now, firing, history>>

\* Mutant of Full: off by one.
FullBeyondCap == MaxSize > 0 /\ Cardinality(Held) > MaxSize

Full == MaxSize > 0 /\ Cardinality(Held) >= MaxSize

\* Mutant of Stamp: the creation instant is left unset.
StampWithoutInstant(c) == [ref |-> c.ref, createdAt |-> None]

Stamp(c) == [ref |-> c.ref, createdAt |-> now]
BirthOf(c) == [at |-> now, lifetime |-> heap[c.ref].expiresIn]

\* Create under the lock, with room: the record keeps the caller's pointer.
Insert(t) ==
    /\ ~Full
    /\ \E c \in creating[t] :
          /\ items' = Put(items, c.id, Stamp(c))
          /\ born' = Put(born, c.id, BirthOf(c))
    /\ creating' = [creating EXCEPT ![t] = {}]
    /\ UNCHANGED <<heap, now, firing, minted, observed, announced>>

\* Create under the lock, at the cap: ErrStoreFull, nothing is stored.
Refuse(t) ==
    /\ Full
    /\ creating[t] # {}
    /\ creating' = [creating EXCEPT ![t] = {}]
    /\ UNCHANGED <<heap, items, now, firing, minted, history>>

-----------------------------------------------------------------------------
(* Get, Approve, Deny, Cancel: one critical section each.                  *)

\* The caller is returned an approval, or an error, that names status s.
Tell(i, s) ==
    observed' = [observed EXCEPT ![i] = @ \cup ({s} \cap TerminalStatus)]

\* Mutant of Settle: the transition is made on a copy of the stored approval.
SettleACopy(t, i, a) ==
    /\ firing' = [firing EXCEPT ![t] = {a}]
    /\ Tell(i, a.status)
    /\ UNCHANGED <<heap, items, creating, minted, born, announced>>

\* Write a terminal approval through the record's pointer, take the clone the
\* hook will be given, and report the outcome to the caller.
Settle(t, i, a) ==
    /\ heap' = [heap EXCEPT ![items[i].ref] = a]
    /\ firing' = [firing EXCEPT ![t] = {a}]
    /\ Tell(i, a.status)
    /\ UNCHANGED <<items, creating, minted, born, announced>>

\* Mutant of Expire: the clone for the hook is dropped on the error path.
ExpireUnannounced(t, i) ==
    /\ Due(i, now)
    /\ heap' = [heap EXCEPT ![items[i].ref] = Lapsed(@)]
    /\ Tell(i, "expired")
    /\ UNCHANGED <<items, now, creating, firing, minted, born, announced>>

\* expireLocked performing the transition on behalf of Get or of a decision
\* that came too late (ErrExpired).
Expire(t, i) ==
    /\ Due(i, now)
    /\ Settle(t, i, Lapsed(Stored(i)))
    /\ UNCHANGED now

Get(t, i) ==
    /\ Idle(t)
    /\ i \in Held
    /\ \/ Expire(t, i)
       \/ /\ ~Due(i, now)
          /\ Tell(i, Stored(i).status)
          /\ UNCHANGED <<heap, items, now, creating, firing, minted, born, announced>>

\* Mutant of Mutable: a terminal approval may be decided again.
MutableUnlessDue(i) == ~Due(i, now)

\* mutableLocked: the pending approval of i may still be decided.
Mutable(i) == Stored(i).status = "pending" /\ ~Due(i, now)

\* A decision records who took it and when, and the lifetime is over.
Decided(a, s, by, at) == [a EXCEPT !.status = s, !.expiresIn = 0,
                                   !.decidedBy = by, !.decidedAt = at]

\* Approve, Deny and Cancel.  The clock is read twice, by mutableLocked for the
\* deadline and then for DecidedAt.
Decide(t, i, s, by) ==
    /\ Idle(t)
    /\ i \in Held
    /\ \/ Expire(t, i)
       \/ /\ Mutable(i)
          /\ \E at \in Instants : now' = at /\ Settle(t, i, Decided(Stored(i), s, by, at))
       \/ /\ Stored(i).status = "expired"     \* ErrExpired; ErrAlreadyResolved stutters
          /\ Tell(i, "expired")
          /\ UNCHANGED <<heap, items, now, creating, firing, minted, born, announced>>

Approve(t, i, by) == Decide(t, i, "approved", by)

Deny(t, i, by) == Decide(t, i, "denied", by)

\* Cancel leaves DecidedBy as it is.
Cancel(t, i) == Decide(t, i, "canceled", Stored(i).decidedBy)

-----------------------------------------------------------------------------
(* Reclamation.                                                            *)

Without(S) == Restrict(items, Held \ S)

Delete(t, i) ==
    /\ Idle(t)
    /\ i \in Held
    /\ items' = Without({i})
    /\ UNCHANGED <<heap, now, creating, firing, minted, history>>

\* A sweep that expires the records of J removes those and the resolved ones.
Swept(J) == J \cup {i \in Held : Stored(i).status \in TerminalStatus}

\* Mutant of Lapsing: past-expiry records are dropped without being expired.
LapsingNone(J) == {}

\* The cells it expires, and the records that only share such a cell: a record
\* of that kind goes too if the map iteration reaches it afterwards.
Lapsing(J) == {items[i].ref : i \in J}
Aliases(J) == {i \in Held \ Swept(J) : items[i].ref \in Lapsing(J)}

\* The clock is read anew for each record, so what becomes due during the sweep
\* may or may not be part of it.
MayLapse(J, at) == {i \in Held : Due(i, now)} \subseteq J
                   /\ \A i \in J : Due(i, at)

\* Mutant of Sweep: the hook runs for every record removed.
SweepTellingAll(t) ==
    /\ Idle(t)
    /\ \E at \in Instants, J \in SUBSET Held :
          /\ MayLapse(J, at)
          /\ now' = at
          /\ heap' = [r \in Refs |-> IF r \in Lapsing(J) THEN Lapsed(heap[r]) ELSE heap[r]]
          /\ items' = Without(Swept(J))
          /\ firing' = [firing EXCEPT ![t] = {heap'[items[i].ref] : i \in Swept(J)}]
    /\ UNCHANGED <<creating, minted, history>>

\* Sweep holds the lock throughout; its hooks run after the unlock.
Sweep(t) ==
    /\ Idle(t)
    /\ \E at \in Instants, J \in SUBSET Held :
          /\ MayLapse(J, at)
          /\ now' = at
          /\ heap' = [r \in Refs |-> IF r \in Lapsing(J) THEN Lapsed(heap[r]) ELSE heap[r]]
          /\ \E S \in SUBSET Aliases(J) : items' = Without(Swept(J) \cup S)
          /\ firing' = [firing EXCEPT ![t] = {Lapsed(heap[r]) : r \in Lapsing(J)}]
    /\ UNCHANGED <<creating, minted, history>>

-----------------------------------------------------------------------------
\* fireResolve: without the lock, one clone at a time.  A hook that panics is
\* recovered and counts as invoked.  The order within a Sweep is that of the
\* map iteration, which Go leaves open.
FireResolve(t) ==
    /\ \E a \in firing[t] :
          /\ firing' = [firing EXCEPT ![t] = @ \ {a}]
          /\ announced' = IF HookSet
                          THEN [announced EXCEPT ![a.id] = Append(@, a)]
                          ELSE announced
    /\ UNCHANGED <<heap, items, now, creating, minted, born, observed>>

Tick ==
    /\ now < MaxTime
    /\ now' = now + 1
    /\ UNCHANGED <<heap, items, creating, firing, minted, history>>

-----------------------------------------------------------------------------
\* Every method but Delete, the only one that may drop a pending approval.
Operation(t) ==
    \/ \E r \in Refs : Mint(t, r)
    \/ Insert(t)
    \/ Refuse(t)
    \/ \E i \in Held : Get(t, i)
    \/ \E i \in Held, by \in Approvers : Approve(t, i, by)
    \/ \E i \in Held, by \in Approvers : Deny(t, i, by)
    \/ \E i \in Held : Cancel(t, i)
    \/ Sweep(t)

Step(t) == Operation(t) \/ (\E i \in Held : Delete(t, i)) \/ FireResolve(t)

Next == Tick \/ \E t \in Threads : Step(t)

Spec == Init /\ [][Next]_vars

\* A goroutine that has entered Create, or holds clones to deliver, runs on:
\* the mutex is never held across a call out, and hooks return.
Fairness == \A t \in Threads : WF_vars(Insert(t) \/ Refuse(t)) /\ WF_vars(FireResolve(t))

FairSpec == Spec /\ Fairness

-----------------------------------------------------------------------------
(* Properties.                                                             *)

\* Every variable has its type.
TypeOK ==
    /\ heap \in [Refs -> Approval]
    /\ Held \subseteq Ids /\ items \in [Held -> Record]
    /\ now \in Nat
    /\ creating \in [Threads -> SUBSET Call]
    /\ firing \in [Threads -> SUBSET Approval]
    /\ minted \subseteq Ids
    /\ DOMAIN born \subseteq Ids /\ born \in [DOMAIN born -> Birth]
    /\ observed \in [Ids -> SUBSET TerminalStatus]
    /\ announced \in [Ids -> Seq(Approval)]

\* The clones of approval i that the hook was or will be invoked with.
Announcements(i) ==
    {announced[i][k] : k \in 1..Len(announced[i])}
    \cup {a \in UNION {firing[t] : t \in Threads} : a.id = i}

\* Whoever learns that an approval has been resolved - pollers, deciders that
\* came too late, the hook - learns one and the same verdict; and what the hook
\* is told, decider and instant included, is what the Store still holds
\* (store.go, mutableLocked and expireLocked; clones taken under the lock).
OneVerdict ==
    \A i \in Ids :
        LET verdicts == observed[i] \cup {a.status : a \in Announcements(i)}
        IN  /\ \A v, w \in verdicts : v = w
            /\ i \in Held => /\ Announcements(i) \subseteq {Stored(i)}
                             /\ verdicts \subseteq {Stored(i).status}

\* OnResolve is invoked at most once per approval, whichever of Approve, Deny,
\* Cancel, Get and Sweep resolved it, on whichever goroutine (store.go:96).
HookAtMostOnce ==
    \A i \in Ids :
        Len(announced[i])
        + Cardinality({t \in Threads : \E a \in firing[t] : a.id = i}) <= 1

\* The map never holds more records than WithMaxSize allows, although Create
\* prepares its record before it takes the lock (store.go:244).
CapRespected == MaxSize > 0 => Cardinality(Held) <= MaxSize

\* The instant the lifetime an approval was created with is over, counted from
\* its insertion under the lock.
End(i) == born[i].at + born[i].lifetime

\* A decision takes effect only while the lifetime lasts, an approval expires
\* only once it is over, and no instant allows both: whatever happened to the
\* object before, and however long the critical section takes (store.go:247 and
\* 452).  DecidedAt is read after the check and promises less.
TakesEffectOnTime(i) ==
    LET learnt == UNION {firing'[t] \ firing[t] : t \in Threads}
    IN  \A a \in learnt : a.id = i =>
           /\ a.status \in {"approved", "denied", "canceled"} => now < End(i)
           /\ a.status = "expired" => now' >= End(i)

ResolvedOnTime == [][\A i \in Held : TakesEffectOnTime(i)]_vars

\* A record is found under the id its approval carries, so that an approval a
\* client was shown can be polled by it (store.go:229 and 247).
FoundUnderOwnId == \A i \in Held : Stored(i).id = i

KeepsTerminal ==
    \A i \in Held \cap DOMAIN items' :
        Stored(i).status \in TerminalStatus => Stored(i)' = Stored(i)

\* Once terminal, the approval held under an id never changes again: not by a
\* late decision, not by expiry, not by a Create (store.go:50).
TerminalImmutable == [][KeepsTerminal]_vars

\* Reclamation is never silent.  A record that leaves the map without having
\* been resolved was expired by that very step, and the hook will be told; a
\* sweep leaves pending approvals that are not due alone.  Only Delete drops a
\* pending approval unannounced (store.go:368 and 382).
SweptOnlyWhenResolved ==
    [][\A t \in Threads : Sweep(t) =>
          \A i \in Held \ DOMAIN items' :
              Stored(i).status = "pending" =>
                  now' >= End(i)
                  /\ Lapsed(Stored(i)) \in firing'[t]]_vars

-----------------------------------------------------------------------------
(* The inductive invariant of the proofs.                                  *)

\* An id names at most one object: a held record's object carries the id it is
\* held under, an object on its way into the Store carries an id that was never
\* stored, and no two calls in flight share an id.  No object is therefore held
\* twice, nor both held and in flight.
Owned ==
    /\ Held \subseteq DOMAIN born
    /\ DOMAIN born \subseteq minted
    /\ \A i \in Held : Stored(i).id = i
    /\ \A t \in Threads : \A c \in creating[t] :
          /\ c.id \in minted \ DOMAIN born
          /\ heap[c.ref].id = c.id
          /\ heap[c.ref].status = "pending"
    /\ \A t, u \in Threads : \A c \in creating[t], d \in creating[u] :
          c.id = d.id => t = u /\ c = d

\* The life of a resolution outside the critical section.  Its one clone is first
\* in the hands of one goroutine, then announced; it is what the Store still
\* holds, and nobody was told anything else.
Notified ==
    /\ \A t \in Threads : \A a \in firing[t] :
          /\ a.id \in DOMAIN born
          /\ a.status \in TerminalStatus
          /\ announced[a.id] = <<>>
          /\ a.id \in Held => a = Stored(a.id)
    /\ \A t, u \in Threads : \A a \in firing[t], b \in firing[u] :
          a.id = b.id => t = u /\ a = b
    /\ \A i \in Ids : announced[i] # <<>> =>
          /\ i \in DOMAIN born
          /\ Len(announced[i]) = 1
          /\ announced[i][1].status \in TerminalStatus
          /\ i \in Held => announced[i][1] = Stored(i)
    /\ \A i \in Ids : \A v \in observed[i] :
          /\ i \in DOMAIN born
          /\ \A w \in observed[i] : w = v
          /\ i \in Held => v = Stored(i).status
          /\ \A t \in Threads : \A a \in firing[t] : a.id = i => a.status = v
          /\ announced[i] # <<>> => announced[i][1].status = v

-----------------------------------------------------------------------------
(* The abstract specification.                                             *)

\* The Store as seen from outside, one approval at a time.  A record that is no
\* longer held is remembered by its announcement; one deleted while pending has
\* none, and stays pending.
LifeOf(i) ==
    [status |-> IF i \notin DOMAIN born THEN "absent"
                ELSE IF i \in Held THEN Stored(i).status
                ELSE IF Announcements(i) = {} THEN "pending"
                ELSE (CHOOSE a \in Announcements(i) : TRUE).status,
     held   |-> i \in Held,
     told   |-> announced[i] # <<>>]

Lifecycle == INSTANCE ApprovalLifecycle WITH life <- [i \in Ids |-> LifeOf(i)]

\* The Store implements the lifecycle it promises: each approval is created
\* pending, resolved once, announced once, and nothing else ever happens to it.
ImplementsLifecycle == Lifecycle!Spec

\* Every resolution is announced in the end: no path out of a critical section
\* loses the clone it took for the hook, even if the record is then reclaimed.
EveryResolutionAnnounced == Lifecycle!Liveness
=============================================================================
