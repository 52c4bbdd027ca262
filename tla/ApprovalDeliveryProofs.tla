----------------------- MODULE ApprovalDeliveryProofs -----------------------
(***************************************************************************)
(* Proofs about ApprovalDelivery: with a Notifier as its hook and a poll    *)
(* endpoint on top the Store is still the Store, and its guarantee of one   *)
(* hook call is one POST on the wire.                                       *)
(***************************************************************************)
EXTENDS ApprovalDelivery, ApprovalStoreProofs

\* Neither a POST under way nor a poll takes a step the Store does not allow.
LEMMA DeliveryStepIsStoreStep == [DeliveryNext]_deliveredVars => [Next]_vars
  <1> SUFFICES ASSUME DeliveryNext PROVE [Next]_vars
    BY DEF deliveredVars
  <1>1. CASE Tick  BY <1>1 DEF Next
  <1>2. ASSUME NEW t \in Threads, StoreStep(t) PROVE [Next]_vars
    BY <1>2 DEF StoreStep, Step, Next
  <1>3. ASSUME NEW t \in Threads, Notify(t) PROVE [Next]_vars
    BY <1>3 DEF Notify, Step, Next
  <1>4. ASSUME NEW t \in Threads, PostReturns(t) PROVE [Next]_vars
    BY <1>4 DEF PostReturns
  <1>5. ASSUME NEW t \in Threads, NEW i \in Ids, Poll(t, i) PROVE [Next]_vars
    <2>1. CASE Get(t, i)
      <3>1. i \in Held  BY <2>1 DEF Get
      <3> QED  BY <2>1, <3>1 DEF Operation, Step, Next
    <2>2. CASE UNCHANGED vars  BY <2>2
    <2> QED  BY <1>5, <2>1, <2>2 DEF Poll
  <1>6. ASSUME NEW t \in Threads, ReplyArrives(t) \/ ReplyLost(t) PROVE [Next]_vars
    BY <1>6 DEF ReplyArrives, ReplyLost
  <1>7. ASSUME NEW p \in wire, CallbackArrives(p) \/ CallbackLost(p) PROVE [Next]_vars
    BY <1>7 DEF CallbackArrives, CallbackLost
  <1> QED  BY <1>1, <1>2, <1>3, <1>4, <1>5, <1>6, <1>7 DEF DeliveryNext

\* The Store with its Notifier and its poll endpoint is a Store: every safety
\* property of the Store holds whatever the network does.
THEOREM DeliveryImplementsStore == DeliverySpec => Spec
  <1>1. DeliveryInit => Init  BY DEF DeliveryInit
  <1> QED  BY <1>1, DeliveryStepIsStoreStep, PTL DEF DeliverySpec, Spec

-----------------------------------------------------------------------------
(* One POST.                                                               *)

\* A POST is sent by an invocation of the hook and by nothing else, and only past
\* the validator.
PostsFollowHooks ==
    /\ posted \in [Ids -> Nat]
    /\ \A i \in Ids : posted[i] <= Len(announced[i])
    /\ \A t \in Threads : \A p \in posting[t] : validator /\ AllowList(p.to)
    /\ \A p \in wire : validator /\ AllowList(p.to)

DeliveryInv == TypeOK /\ Notified /\ PostsFollowHooks

LEMMA PostsInit == DeliveryInit => PostsFollowHooks
  BY DEF DeliveryInit, Init, PostsFollowHooks

\* Only the hook announces.
LEMMA OperationsAnnounceNothing ==
  ASSUME NEW t, Operation(t) \/ \E i \in Held : Delete(t, i)
  PROVE  announced' = announced
  <1>1. ASSUME NEW i, NEW a, Settle(t, i, a) PROVE announced' = announced
    BY <1>1 DEF Settle
  <1>2. ASSUME NEW i, Expire(t, i) PROVE announced' = announced
    BY <1>1, <1>2 DEF Expire
  <1>3. ASSUME NEW i, NEW s, NEW by, Decide(t, i, s, by) PROVE announced' = announced
    BY <1>1, <1>2, <1>3 DEF Decide
  <1>4. CASE \E r \in Refs : Mint(t, r)  BY <1>4 DEF Mint, history
  <1>5. CASE Insert(t) \/ Refuse(t)  BY <1>5 DEF Insert, Refuse, history
  <1>6. CASE \E i \in Held : Get(t, i)  BY <1>2, <1>6 DEF Get
  <1>7. CASE \E i \in Held, by \in Approvers : Approve(t, i, by)
    BY <1>3, <1>7 DEF Approve
  <1>8. CASE \E i \in Held, by \in Approvers : Deny(t, i, by)
    BY <1>3, <1>8 DEF Deny
  <1>9. CASE \E i \in Held : Cancel(t, i)  BY <1>3, <1>9 DEF Cancel
  <1>10. CASE \E i \in Held : Delete(t, i)  BY <1>10 DEF Delete, history
  <1>11. CASE Sweep(t)  BY <1>11 DEF Sweep, history
  <1> QED
    BY <1>4, <1>5, <1>6, <1>7, <1>8, <1>9, <1>10, <1>11 DEF Operation

\* Whether or not it dispatches, Notify is one invocation of the hook.
LEMMA NotifyPostsOnce ==
  ASSUME TypeOK, Notified, PostsFollowHooks, NEW t \in Threads, Notify(t)
  PROVE  PostsFollowHooks'
  <1> USE DEF PostsFollowHooks
  <1>1. PICK a \in firing[t] :
          /\ FireResolve(t)
          /\ firing'[t] = firing[t] \ {a}
          /\ IF Dispatches(a.id)
             THEN LET post == [to |-> terms[a.id].url, body |-> Body(a, deliveryMode(terms[a.id].delivery))]
                  IN  /\ wire' = wire \cup {post}
                      /\ posting' = [posting EXCEPT ![t] = {post}]
                      /\ posted' = [posted EXCEPT ![a.id] = @ + 1]
             ELSE UNCHANGED <<wire, posting, posted>>
    BY DEF Notify
  <1>2. PICK b \in firing[t] :
          /\ firing' = [firing EXCEPT ![t] = @ \ {b}]
          /\ announced' = [announced EXCEPT ![b.id] = Append(@, b)]
    BY <1>1, DeliveryAssumption DEF FireResolve
  <1>3. a = b
    <2>1. firing'[t] = firing[t] \ {b}  BY <1>2 DEF TypeOK
    <2> QED  BY <1>1, <1>2, <2>1
  <1>4. a.id \in Ids
    <2>1. a.id \in DOMAIN born  BY DEF Notified
    <2> QED  BY <2>1 DEF TypeOK
  <1>5. announced \in [Ids -> Seq(Approval)] /\ a \in Approval  BY DEF TypeOK
  <1>6. announced' = [announced EXCEPT ![a.id] = Append(@, a)]  BY <1>2, <1>3
  <1>7. /\ \A i \in Ids : i # a.id => announced'[i] = announced[i]
        /\ announced'[a.id] = Append(announced[a.id], a)
    BY <1>4, <1>5, <1>6
  <1>8. Len(announced'[a.id]) = Len(announced[a.id]) + 1  BY <1>4, <1>5, <1>7
  <1>9. \A i \in Ids : Len(announced[i]) \in Nat  BY <1>5
  <1>10. CASE ~Dispatches(a.id)
    <2>1. UNCHANGED <<wire, posting, posted, validator>>  BY <1>1, <1>10 DEF Notify
    <2>2. \A i \in Ids : posted'[i] <= Len(announced'[i])
      BY <1>4, <1>7, <1>8, <1>9, <2>1
    <2> QED  BY <2>1, <2>2
  <1>11. CASE Dispatches(a.id)
    <2> DEFINE post == [to |-> terms[a.id].url, body |-> Body(a, deliveryMode(terms[a.id].delivery))]
    <2>1. /\ wire' = wire \cup {post}
          /\ posting' = [posting EXCEPT ![t] = {post}]
          /\ posted' = [posted EXCEPT ![a.id] = @ + 1]
      BY <1>1, <1>11
    <2>2. validator' = validator  BY DEF Notify
    <2>3. validator /\ AllowList(post.to)  BY <1>11 DEF Dispatches
    <2> HIDE DEF post
    <2>4. posted' \in [Ids -> Nat]  BY <2>1, <1>4
    <2>5. \A i \in Ids : posted'[i] <= Len(announced'[i])
      <3> SUFFICES ASSUME NEW i \in Ids PROVE posted'[i] <= Len(announced'[i])  OBVIOUS
      <3>1. CASE i = a.id
        <4>1. posted'[i] = posted[i] + 1  BY <2>1, <3>1
        <4> QED  BY <3>1, <4>1, <1>8, <1>9
      <3>2. CASE i # a.id  BY <2>1, <3>2, <1>7
      <3> QED  BY <3>1, <3>2
    <2>6. \A p \in wire' : validator' /\ AllowList(p.to)  BY <2>1, <2>2, <2>3
    <2>7. \A u \in Threads : \A p \in posting'[u] : validator' /\ AllowList(p.to)
      <3> SUFFICES ASSUME NEW u \in Threads, NEW p \in posting'[u]
                   PROVE  validator' /\ AllowList(p.to)
        OBVIOUS
      <3>1. p \in posting[u] \/ p = post  BY <2>1
      <3> QED  BY <2>2, <2>3, <3>1
    <2> QED  BY <2>4, <2>5, <2>6, <2>7
  <1> QED  BY <1>10, <1>11

LEMMA PostsNext ==
  TypeOK /\ Notified /\ PostsFollowHooks /\ [DeliveryNext]_deliveredVars => PostsFollowHooks'
  <1> SUFFICES ASSUME TypeOK, Notified, PostsFollowHooks, [DeliveryNext]_deliveredVars
               PROVE  PostsFollowHooks'
    OBVIOUS
  <1> USE DEF PostsFollowHooks
  <1>1. ASSUME UNCHANGED <<announced, posted, validator>>,
               \A u \in Threads : posting'[u] \subseteq posting[u],
               wire' \subseteq wire
        PROVE  PostsFollowHooks'
    BY <1>1
  <1>2. CASE Tick /\ UNCHANGED deliveryVars
    BY <1>1, <1>2 DEF Tick, history, deliveryVars
  <1>3. ASSUME NEW t \in Threads, StoreStep(t) PROVE PostsFollowHooks'
    <2>1. announced' = announced  BY <1>3, OperationsAnnounceNothing DEF StoreStep
    <2> QED  BY <1>1, <1>3, <2>1 DEF StoreStep, deliveryVars
  <1>4. ASSUME NEW t \in Threads, Notify(t) PROVE PostsFollowHooks'
    BY <1>4, NotifyPostsOnce
  <1>5. ASSUME NEW t \in Threads, PostReturns(t) PROVE PostsFollowHooks'
    <2>1. \A u \in Threads : posting'[u] \subseteq posting[u]
      BY <1>5 DEF PostReturns
    <2> QED  BY <1>1, <1>5, <2>1 DEF PostReturns, vars
  <1>6. ASSUME NEW t \in Threads, NEW i \in Ids, Poll(t, i) PROVE PostsFollowHooks'
    <2>1. CASE Get(t, i)
      <3>1. i \in Held  BY <2>1 DEF Get
      <3>2. announced' = announced  BY <2>1, <3>1, OperationsAnnounceNothing DEF Operation
      <3> QED  BY <1>1, <1>6, <3>2 DEF Poll
    <2>2. CASE UNCHANGED vars  BY <1>1, <1>6, <2>2 DEF Poll, vars
    <2> QED  BY <1>6, <2>1, <2>2 DEF Poll
  <1>7. ASSUME NEW t \in Threads, ReplyArrives(t) \/ ReplyLost(t) PROVE PostsFollowHooks'
    BY <1>1, <1>7 DEF ReplyArrives, ReplyLost, vars
  <1>8. ASSUME NEW p \in wire, CallbackArrives(p) \/ CallbackLost(p) PROVE PostsFollowHooks'
    BY <1>1, <1>8 DEF CallbackArrives, CallbackLost, vars
  <1>9. CASE UNCHANGED deliveredVars
    BY <1>1, <1>9 DEF deliveredVars, deliveryVars, vars
  <1> QED
    BY <1>2, <1>3, <1>4, <1>5, <1>6, <1>7, <1>8, <1>9 DEF DeliveryNext

LEMMA DeliveryInvariant ==
  ASSUME ~ReuseRequests PROVE DeliverySpec => []DeliveryInv
  <1>1. Spec => [](TypeOK /\ Owned /\ Notified)  BY NotifiedInvariant
  <1>2. DeliverySpec => Spec  BY DeliveryImplementsStore
  <1> QED  BY <1>1, <1>2, PostsInit, PostsNext, PTL DEF DeliverySpec, DeliveryInv

\* At most one POST leaves for an approval, over all goroutines and all ways to
\* resolve it, and none for a URL the validator has not approved.
THEOREM PostsAtMostOnce ==
  ASSUME ~ReuseRequests PROVE DeliverySpec => []AtMostOnePost
  <1>1. DeliveryInv => AtMostOnePost
    <2> SUFFICES ASSUME DeliveryInv PROVE AtMostOnePost  OBVIOUS
    <2> USE DEF DeliveryInv, PostsFollowHooks
    <2>1. ASSUME NEW i \in Ids PROVE posted[i] <= 1
      <3>1. announced[i] = <<>> \/ Len(announced[i]) = 1  BY DEF Notified
      <3>2. Len(announced[i]) = 0 \/ Len(announced[i]) = 1  BY <3>1
      <3>3. posted[i] \in Nat /\ posted[i] <= Len(announced[i])  OBVIOUS
      <3>4. \A n \in Nat : n <= 0 \/ n <= 1 => n <= 1  OBVIOUS
      <3> HIDE DEF DeliveryInv, PostsFollowHooks
      <3>5. posted[i] <= 0 \/ posted[i] <= 1  BY <3>2, <3>3
      <3> QED  BY <3>3, <3>4, <3>5
    <2>2. \A p \in Posts : validator /\ AllowList(p.to)  BY DEF Posts
    <2> QED  BY <2>1, <2>2 DEF AtMostOnePost
  <1> QED  BY <1>1, DeliveryInvariant, PTL

-----------------------------------------------------------------------------
(* One outcome.                                                            *)

\* What the hook was or will be told of an approval is never taken back.
LEMMA AnnouncementsKept ==
  ASSUME HookSet, StoreInv, [Next]_vars, NEW i \in Ids
  PROVE  Announcements(i) \subseteq Announcements(i)'
  <1> USE DEF StoreInv
  <1>1. ASSUME UNCHANGED <<firing, announced>> PROVE Announcements(i)' = Announcements(i)
    BY <1>1 DEF Announcements
  <1>2. CASE UNCHANGED vars  BY <1>1, <1>2 DEF vars
  <1>3. CASE Tick  BY <1>1, <1>3 DEF Tick, history
  <1>4. CASE \E t \in Threads, r \in Refs : Mint(t, r)  BY <1>1, <1>4 DEF Mint, history
  <1>5. CASE \E t \in Threads : Insert(t)  BY <1>1, <1>5 DEF Insert
  <1>6. CASE \E t \in Threads : Refuse(t)  BY <1>1, <1>6 DEF Refuse, history
  <1>7. ASSUME NEW t \in Threads, NEW j \in Held,
               \/ Get(t, j)
               \/ \E by \in Approvers : Approve(t, j, by)
               \/ \E by \in Approvers : Deny(t, j, by)
               \/ Cancel(t, j)
        PROVE  Announcements(i) \subseteq Announcements(i)'
    <2>1. CASE UNCHANGED <<heap, items, now, creating, firing, minted, born, announced>>
      BY <1>1, <2>1
    <2>2. ASSUME NEW a \in Approval, a.id = Stored(j).id, Idle(t), Settle(t, j, a),
                 Stored(j).status = "pending"
          PROVE  Announcements(i) \subseteq Announcements(i)'
      <3>1. a.id = j  BY <2>2 DEF Owned
      <3>2. CASE i # j  BY <2>2, <3>1, <3>2, SettleAnnouncements
      <3>3. CASE i = j  BY <2>2, <3>3, PendingUnannounced
      <3> QED  BY <3>2, <3>3
    <2> QED  BY <1>7, <2>1, <2>2, SettleOrReport
  <1>8. CASE \E t \in Threads, j \in Held : Delete(t, j)  BY <1>1, <1>8 DEF Delete, history
  <1>9. ASSUME NEW t \in Threads, Sweep(t) PROVE Announcements(i) \subseteq Announcements(i)'
    <2>1. PICK J \in SUBSET Held :
            /\ \A j \in J : Stored(j).status = "pending"
            /\ \A j \in Ids \ J : Announcements(j)' = Announcements(j)
      BY <1>9, SweepLives
    <2>2. CASE i \in J  BY <2>1, <2>2, PendingUnannounced
    <2>3. CASE i \notin J  BY <2>1, <2>3
    <2> QED  BY <2>2, <2>3
  <1>10. CASE \E t \in Threads : FireResolve(t)  BY <1>10, FireAnnouncements
  <1> QED
    BY <1>2, <1>3, <1>4, <1>5, <1>6, <1>7, <1>8, <1>9, <1>10, NextCases

\* What the Store can tell a poll is pending or what the hook is told.
HeldIsAnnounced ==
    \A i \in Held : /\ Stored(i) \in Approval
                    /\ Stored(i).status = "pending" \/ Stored(i) \in Announcements(i)

LEMMA HeldAnnounced == StoreInv => HeldIsAnnounced
  <1> SUFFICES ASSUME StoreInv, NEW i \in Held
               PROVE  /\ Stored(i) \in Approval
                      /\ Stored(i).status = "pending" \/ Stored(i) \in Announcements(i)
    BY DEF HeldIsAnnounced
  <1>1. Stored(i) \in Approval /\ i \in Ids  BY StoredType DEF StoreInv, TypeOK
  <1>2. CASE Stored(i).status \in TerminalStatus
    <2>1. PICK a : a \in Announcements(i)  BY <1>2 DEF StoreInv, Accounted
    <2>2. a = Stored(i)  BY <1>1, <2>1, OneAnnouncement DEF StoreInv
    <2> QED  BY <1>1, <2>1, <2>2
  <1>3. CASE Stored(i).status = "pending"  BY <1>1, <1>3
  <1> QED  BY <1>1, <1>2, <1>3 DEF Approval, Status

LEMMA HeldAnnouncedNext == StoreInv' => HeldIsAnnounced'
  BY HeldAnnounced, PTL

AnnouncedNotPending ==
    \A i \in Held : Announcements(i) # {} => Stored(i).status # "pending"

LEMMA AnnouncedNotPendingNext == StoreInv' => AnnouncedNotPending'
  <1>1. StoreInv => AnnouncedNotPending
    BY PendingUnannounced DEF StoreInv, AnnouncedNotPending
  <1> QED  BY <1>1, PTL

\* A message tells nothing, or tells what the hook was told.
Tells(m, i) ==
    \/ m.via = "poll" /\ m.response = NotFound
    \/ m.via = "poll" /\ \E a \in Approval : a.status = "pending" /\ m.response = Response(a)
    \/ \E a \in Announcements(i) : \/ m.via # "ping" /\ m.response = Response(a)
                                   \/ m.via = "ping" /\ m.status = a.status

Truthful ==
    /\ received = [i \in Ids |-> received[i]]
    /\ answering = [t \in Threads |-> answering[t]]
    /\ posting = [t \in Threads |-> posting[t]]
    /\ \A i \in Ids : \A m \in MessagesAbout(i) : Tells(m, i)


LEMMA TruthfulInit == DeliveryInit => Truthful
  <1> SUFFICES ASSUME DeliveryInit PROVE Truthful  OBVIOUS
  <1>1. /\ received = [i \in Ids |-> {}]
        /\ answering = [t \in Threads |-> {}]
        /\ posting = [t \in Threads |-> {}]
        /\ wire = {}
    BY DEF DeliveryInit
  <1>2. \A i \in Ids : MessagesAbout(i) = {}  BY <1>1 DEF MessagesAbout, Posts
  <1> QED  BY <1>1, <1>2 DEF Truthful

\* What was true of a message stays true; only new ones need a look.
LEMMA TruthfulFrame ==
  ASSUME Truthful,
         \A i \in Ids : Announcements(i) \subseteq Announcements(i)',
         received' = [i \in Ids |-> received'[i]],
         answering' = [t \in Threads |-> answering'[t]],
         posting' = [t \in Threads |-> posting'[t]],
         \A i \in Ids : \A m \in MessagesAbout(i)' : m \in MessagesAbout(i) \/ Tells(m, i)'
  PROVE  Truthful'
  <1>1. ASSUME NEW i \in Ids, NEW m, Tells(m, i) PROVE Tells(m, i)'
    BY <1>1 DEF Tells, NotFound, Response
  <1> QED  BY <1>1 DEF Truthful

LEMMA AnnouncedTells ==
  ASSUME NEW i, NEW m, NEW a \in Announcements(i)',
         \/ m.via # "ping" /\ m.response = Response(a)
         \/ m.via = "ping" /\ m.status = a.status
  PROVE  Tells(m, i)'
  BY DEF Tells, Response

LEMMA PendingTells ==
  ASSUME NEW i, NEW m, NEW a \in Approval, a.status = "pending",
         m.via = "poll", m.response = Response(a)
  PROVE  Tells(m, i)'
  <1>1. \E b \in Approval : b.status = "pending" /\ m.response = Response(b)  OBVIOUS
  <1> QED  BY <1>1 DEF Tells, Response

\* The callback about a clone in the hook's hands is about that clone.
LEMMA NotifyTells ==
  ASSUME Truthful, NEW t \in Threads, Notify(t),
         \A i \in Ids : Announcements(i) \subseteq Announcements(i)'
  PROVE  Truthful'
  <1>1. PICK a \in firing[t] :
          IF Dispatches(a.id)
          THEN LET post == [to |-> terms[a.id].url, body |-> Body(a, deliveryMode(terms[a.id].delivery))]
               IN  /\ wire' = wire \cup {post}
                   /\ posting' = [posting EXCEPT ![t] = {post}]
          ELSE UNCHANGED <<wire, posting>>
    BY DEF Notify
  <1>2. UNCHANGED <<answering, received>>  BY DEF Notify
  <1>3. CASE ~Dispatches(a.id)
    <2>1. UNCHANGED <<wire, posting>>  BY <1>1, <1>3
    <2>2. \A i \in Ids : MessagesAbout(i)' = MessagesAbout(i)
      BY <1>2, <2>1 DEF MessagesAbout, Posts
    <2> QED  BY <1>2, <2>1, <2>2, TruthfulFrame DEF Truthful
  <1>4. CASE Dispatches(a.id)
    <2>0. PICK body : body = Body(a, deliveryMode(terms[a.id].delivery))  OBVIOUS
    <2>p. PICK post : post = [to |-> terms[a.id].url, body |-> body]  OBVIOUS
    <2>1. wire' = wire \cup {post} /\ posting' = [posting EXCEPT ![t] = {post}]
      BY <1>1, <1>4, <2>0, <2>p
    <2>2. body.id = a.id /\ post.body = body  BY <2>0, <2>p DEF Body
    <2>3. ASSUME NEW i \in Ids, a.id = i PROVE Tells(body, i)'
      <3>0. a \in firing[t]  OBVIOUS
      <3>1. a \in Announcements(i)'  BY <3>0, <2>3 DEF Announcements
      <3>2. \/ body.via # "ping" /\ body.response = Response(a)
            \/ body.via = "ping" /\ body.status = a.status
        BY <2>0 DEF Body
      <3> QED  BY <3>1, <3>2, AnnouncedTells
    <2>4. posting' = [u \in Threads |-> IF u = t THEN {post} ELSE posting[u]]
      BY <2>1 DEF Truthful
    <2>5. \A p \in Posts' : p \in Posts \/ p = post  BY <2>1, <2>4 DEF Posts
    <2>6. ASSUME NEW i \in Ids, NEW m \in MessagesAbout(i)'
          PROVE  m \in MessagesAbout(i) \/ Tells(m, i)'
      <3>1. CASE m \in received'[i] \cup {n \in UNION {answering'[u] : u \in Threads} : n.id = i}
        <4>1. UNCHANGED <<received, answering>>  BY <1>2
        <4>2. m \in received[i] \cup {n \in UNION {answering[u] : u \in Threads} : n.id = i}
          BY <3>1, <4>1
        <4> QED  BY <4>2 DEF MessagesAbout
      <3>2. CASE \E p \in Posts' : p.body.id = i /\ m = p.body
        <4>1. PICK p \in Posts' : p.body.id = i /\ m = p.body  BY <3>2
        <4>2. CASE p \in Posts  BY <4>1, <4>2 DEF MessagesAbout
        <4>3. CASE p = post  BY <2>2, <2>3, <4>1, <4>3
        <4> QED  BY <2>5, <4>2, <4>3
      <3> QED  BY <3>1, <3>2 DEF MessagesAbout
    <2> QED  BY <1>2, <2>4, <2>6, TruthfulFrame DEF Truthful
  <1> QED  BY <1>3, <1>4

\* A poll is told what the Store holds at that moment.
LEMMA PollTells ==
  ASSUME StoreInv', NEW t \in Threads, NEW i \in Ids, Poll(t, i)
  PROVE  \E m : /\ answering' = [answering EXCEPT ![t] = {m}]
                /\ m.id = i
                /\ Tells(m, i)'
                /\ \/ m.response = NotFound
                   \/ i \in Held /\ items' = items /\ m.response = Response(Stored(i)')
  <1>1. CASE Get(t, i) /\ answering' = [answering EXCEPT ![t] = {Reply(i, Response(heap'[items[i].ref]))}]
    <2>0. PICK a : a = heap'[items[i].ref]  OBVIOUS
    <2>m. PICK m : m = Reply(i, Response(a))  OBVIOUS
    <2>1. i \in Held /\ items' = items  BY <1>1 DEF Get, Expire, Settle
    <2>2. i \in Held' /\ a = Stored(i)'  BY <2>0, <2>1 DEF Held, Stored
    <2>3. m.via = "poll" /\ m.id = i /\ m.response = Response(a)
      BY <2>m DEF Reply
    <2>4. a \in Approval /\ (a.status = "pending" \/ a \in Announcements(i)')
      BY <2>2, HeldAnnouncedNext DEF HeldIsAnnounced
    <2>5. Tells(m, i)'
      <3>1. CASE a.status = "pending"  BY <2>3, <2>4, <3>1, PendingTells
      <3>2. CASE a \in Announcements(i)'  BY <2>3, <3>2, AnnouncedTells
      <3> QED  BY <2>4, <3>1, <3>2
    <2>6. answering' = [answering EXCEPT ![t] = {m}]  BY <1>1, <2>0, <2>m
    <2>7. m.response = Response(Stored(i)')  BY <2>2, <2>3
    <2> QED  BY <2>1, <2>3, <2>5, <2>6, <2>7
  <1>2. CASE answering' = [answering EXCEPT ![t] = {Reply(i, NotFound)}]
    <2>1. /\ Reply(i, NotFound).via = "poll"
          /\ Reply(i, NotFound).id = i
          /\ Reply(i, NotFound).response = NotFound
      BY DEF Reply
    <2>2. Tells(Reply(i, NotFound), i)'  BY <2>1 DEF Tells, NotFound
    <2> QED  BY <1>2, <2>1, <2>2
  <1> QED  BY <1>1, <1>2 DEF Poll

LEMMA TruthfulNext ==
  ASSUME Truthful, StoreInv, StoreInv', [DeliveryNext]_deliveredVars
  PROVE  Truthful'
  <1>0. \A i \in Ids : Announcements(i) \subseteq Announcements(i)'
    BY AnnouncementsKept, DeliveryStepIsStoreStep, DeliveryAssumption
  <1>1. ASSUME UNCHANGED <<answering, received>>,
               \A t \in Threads : posting'[t] \subseteq posting[t],
               posting' = [t \in Threads |-> posting'[t]],
               wire' \subseteq wire
        PROVE  Truthful'
    <2>1. Posts' \subseteq Posts  BY <1>1 DEF Posts
    <2>2. \A i \in Ids : MessagesAbout(i)' \subseteq MessagesAbout(i)
      BY <1>1, <2>1 DEF MessagesAbout
    <2> QED  BY <1>0, <1>1, <2>2, TruthfulFrame DEF Truthful
  <1>2. CASE Tick /\ UNCHANGED deliveryVars
    BY <1>1, <1>2 DEF deliveryVars, Truthful
  <1>3. CASE \E t \in Threads : StoreStep(t)
    BY <1>1, <1>3 DEF StoreStep, deliveryVars, Truthful
  <1>4. CASE \E t \in Threads : Notify(t)  BY <1>0, <1>4, NotifyTells
  <1>5. ASSUME NEW t \in Threads, PostReturns(t) PROVE Truthful'
    <2>1. posting' = [u \in Threads |-> IF u = t THEN {} ELSE posting[u]]
      BY <1>5 DEF PostReturns, Truthful
    <2> QED  BY <1>1, <1>5, <2>1 DEF PostReturns
  <1>6. ASSUME NEW t \in Threads, NEW i \in Ids, Poll(t, i) PROVE Truthful'
    <2>1. PICK m : answering' = [answering EXCEPT ![t] = {m}] /\ m.id = i /\ Tells(m, i)'
      BY <1>6, PollTells
    <2>2. UNCHANGED <<posting, wire, received>>  BY <1>6 DEF Poll
    <2>3. answering' = [u \in Threads |-> IF u = t THEN {m} ELSE answering[u]]
      BY <2>1 DEF Truthful
    <2>4. \A j \in Ids : \A n \in MessagesAbout(j)' : n \in MessagesAbout(j) \/ (n = m /\ j = i)
      BY <2>1, <2>2, <2>3 DEF MessagesAbout, Posts
    <2> QED  BY <1>0, <2>1, <2>2, <2>3, <2>4, TruthfulFrame DEF Truthful
  <1>7. ASSUME NEW t \in Threads, ReplyArrives(t) \/ ReplyLost(t) PROVE Truthful'
    <2>1. answering' = [u \in Threads |-> IF u = t THEN {} ELSE answering[u]]
      BY <1>7 DEF ReplyArrives, ReplyLost, Truthful
    <2>2. UNCHANGED <<posting, wire>>  BY <1>7 DEF ReplyArrives, ReplyLost
    <2>3. \/ received' = received
          \/ \E m \in answering[t] :
                received' = [i \in Ids |-> IF i = m.id THEN received[i] \cup {m} ELSE received[i]]
      BY <1>7 DEF ReplyArrives, ReplyLost, Truthful
    <2>4. \A i \in Ids : MessagesAbout(i)' \subseteq MessagesAbout(i)
      BY <2>1, <2>2, <2>3 DEF MessagesAbout, Posts
    <2>5. received' = [i \in Ids |-> received'[i]]  BY <2>3 DEF Truthful
    <2> QED  BY <1>0, <2>1, <2>2, <2>4, <2>5, TruthfulFrame DEF Truthful
  <1>8. ASSUME NEW p \in wire, CallbackArrives(p) PROVE Truthful'
    <2>1. /\ wire' = wire \ {p}
          /\ received' = [i \in Ids |-> IF i = p.body.id THEN received[i] \cup {p.body} ELSE received[i]]
          /\ UNCHANGED <<posting, answering>>
      BY <1>8 DEF CallbackArrives, Truthful
    <2>2. \A i \in Ids : MessagesAbout(i)' \subseteq MessagesAbout(i)
      BY <2>1 DEF MessagesAbout, Posts
    <2>3. received' = [i \in Ids |-> received'[i]]  BY <2>1
    <2> QED  BY <1>0, <2>1, <2>2, <2>3, TruthfulFrame DEF Truthful
  <1>9. CASE \E p \in wire : CallbackLost(p)
    BY <1>1, <1>9 DEF CallbackLost, Truthful
  <1>10. CASE UNCHANGED deliveredVars
    BY <1>1, <1>10 DEF deliveredVars, deliveryVars, Truthful
  <1> QED
    BY <1>2, <1>3, <1>4, <1>5, <1>6, <1>7, <1>8, <1>9, <1>10 DEF DeliveryNext

LEMMA TruthfulInvariant ==
  ASSUME ~ReuseRequests PROVE DeliverySpec => [](StoreInv /\ Truthful)
  <1>1. Spec => []StoreInv  BY StoreInvariant, DeliveryAssumption
  <1>2. Truthful /\ StoreInv /\ StoreInv' /\ [DeliveryNext]_deliveredVars => Truthful'
    BY TruthfulNext
  <1> QED
    BY <1>1, <1>2, DeliveryImplementsStore, TruthfulInit, PTL DEF DeliverySpec

\* A client is told one outcome, whatever of callbacks and replies is lost,
\* delayed or overtaken, and whichever goroutines resolved and answered.
THEOREM OneOutcomePerClient ==
  ASSUME ~ReuseRequests PROVE DeliverySpec => []ClientsAgree
  <1>1. StoreInv /\ Truthful => ClientsAgree
    <2> SUFFICES ASSUME StoreInv, Truthful, NEW i \in Ids
                 PROVE  /\ \A m, n \in MessagesAbout(i) : \A v \in Verdict(m), w \in Verdict(n) : v = w
                        /\ \A q, r \in Responses(i) :
                              /\ q.decision <=> q.approval # None /\ q.approval.status = "approved"
                              /\ \/ None \in {q.approval, r.approval}
                                 \/ "pending" \in {q.approval.status, r.approval.status}
                                 \/ q.approval = r.approval
      BY DEF ClientsAgree
    <2>1. "pending" \notin TerminalStatus  BY DEF TerminalStatus
    <2>2. Announcements(i) \subseteq Approval  BY DEF Announcements, StoreInv, TypeOK
    <2>3. \A a \in Approval : /\ Response(a).decision <=> a.status = "approved"
                              /\ Response(a).approval = a /\ a # None
      BY DeliveryAssumption DEF Response
    <2>4. NotFound.decision = FALSE /\ NotFound.approval = None  BY DEF NotFound
    <2>5. \A a, b \in Announcements(i) : a = b  BY OneAnnouncement DEF StoreInv
    <2>6. ASSUME NEW m \in MessagesAbout(i), NEW v \in Verdict(m)
          PROVE  \E a \in Announcements(i) : v = a.status
      <3>1. Tells(m, i)  BY DEF Truthful
      <3> QED  BY <2>1, <2>2, <2>3, <2>4, <3>1 DEF Tells, Verdict
    <2>7. ASSUME NEW q \in Responses(i)
          PROVE  \/ q = NotFound
                 \/ \E a \in Approval : a.status = "pending" /\ q = Response(a)
                 \/ \E a \in Announcements(i) : q = Response(a)
      <3>1. PICK m \in MessagesAbout(i) : m.via # "ping" /\ q = m.response
        BY DEF Responses
      <3>2. Tells(m, i)  BY DEF Truthful
      <3> QED  BY <3>1, <3>2 DEF Tells
    <2>8. ASSUME NEW q \in Responses(i)
          PROVE  q.decision <=> q.approval # None /\ q.approval.status = "approved"
      BY <2>2, <2>3, <2>4, <2>7
    <2>9. ASSUME NEW q \in Responses(i), NEW r \in Responses(i)
          PROVE  \/ None \in {q.approval, r.approval}
                 \/ "pending" \in {q.approval.status, r.approval.status}
                 \/ q.approval = r.approval
      BY <2>2, <2>3, <2>4, <2>5, <2>7
    <2> QED  BY <2>5, <2>6, <2>8, <2>9
  <1> QED  BY <1>1, TruthfulInvariant, PTL

\* A client that polls because it was called back is not told "pending": the
\* callback left after the unlock, and the record is terminal since.
THEOREM CallbacksNeverRunAhead ==
  ASSUME ~ReuseRequests PROVE DeliverySpec => CallbackThenPoll
  <1> DEFINE NotAhead ==
               \A t \in Threads : \A m \in answering'[t] \ answering[t] :
                  (\E n \in received[m.id] : n.via # "poll")
                     => m.response.approval = None \/ m.response.approval.status # "pending"
  <1>1. /\ StoreInv /\ Truthful /\ StoreInv' /\ [DeliveryNext]_deliveredVars
        => [NotAhead]_deliveredVars
    <2> SUFFICES ASSUME StoreInv, Truthful, StoreInv', DeliveryNext,
                        NEW t \in Threads, NEW m \in answering'[t] \ answering[t],
                        NEW n \in received[m.id], n.via # "poll"
                 PROVE  m.response.approval = None \/ m.response.approval.status # "pending"
      OBVIOUS
    <2>1. PICK i \in Ids : Poll(t, i)
      BY DEF DeliveryNext, Tick, StoreStep, deliveryVars, Notify, PostReturns, Poll, ReplyArrives,
             ReplyLost, CallbackArrives, CallbackLost, Truthful
    <2>2. PICK k : /\ answering' = [answering EXCEPT ![t] = {k}]
                   /\ k.id = i
                   /\ \/ k.response = NotFound
                      \/ i \in Held /\ items' = items /\ k.response = Response(Stored(i)')
      BY <2>1, PollTells
    <2>3. m = k  BY <2>2 DEF Truthful
    <2>4. CASE k.response = NotFound  BY <2>3, <2>4 DEF NotFound
    <2>5. CASE i \in Held /\ items' = items /\ k.response = Response(Stored(i)')
      <3>1. PICK a : a \in Announcements(i)
        <4>1. n \in MessagesAbout(i)  BY <2>2, <2>3 DEF MessagesAbout
        <4>2. Tells(n, i)  BY <4>1 DEF Truthful
        <4> QED  BY <4>2 DEF Tells
      <3>2. a \in Announcements(i)'
        BY <3>1, AnnouncementsKept, DeliveryStepIsStoreStep, DeliveryAssumption
      <3>3. i \in Held'  BY <2>5 DEF Held
      <3>4. Stored(i)'.status # "pending"
        BY <3>2, <3>3, AnnouncedNotPendingNext DEF AnnouncedNotPending
      <3> QED  BY <2>3, <2>5, <3>4 DEF Response
    <2> QED  BY <2>2, <2>4, <2>5
  <1> QED  BY <1>1, TruthfulInvariant, PTL DEF DeliverySpec, CallbackThenPoll

=============================================================================
