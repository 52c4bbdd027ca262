-------------------------- MODULE ApprovalDelivery --------------------------
(***************************************************************************)
(* How the client of an approval learns its verdict: the Store of          *)
(* ApprovalStore with src/approval/notify.go as its OnResolve hook and     *)
(* src/approval/handler.go as its poll endpoint.                           *)
(*                                                                         *)
(* The hook runs on whichever goroutine resolved the approval, after the   *)
(* unlock, and Notify blocks that goroutine for the duration of one POST;  *)
(* a poll that observes an expiry is answered only after that.  POSTs and  *)
(* replies travel independently: each may be lost, and they may overtake   *)
(* one another.  The client is the rest of the world; it is known only by  *)
(* what it has received.                                                   *)
(***************************************************************************)
EXTENDS ApprovalStore

CONSTANTS
    Hosts,         \* hosts of callback URLs
    AllowedHosts,  \* the allow-list
    Deliveries     \* Approval.Delivery: lists of modes, their order immaterial

ASSUME DeliveryAssumption ==
    /\ AllowedHosts \subseteq Hosts
    /\ Deliveries \subseteq SUBSET {"poll", "ping", "push"}
    /\ HookSet = TRUE
    /\ None \notin Approval

VARIABLES
    validator,   \* whether Notifier.Validate is set; never written
    terms,       \* delivery modes and callback_url of the approval with an id
    posting,     \* per goroutine, the POST it waits for in Notifier.post
    wire,        \* POSTs under way to a callback endpoint
    answering,   \* per goroutine, the poll reply it owes or is writing
    received,    \* per approval, what its client has been told
    posted       \* history: how often a POST was sent for an approval

deliveryVars == <<validator, terms, posting, wire, answering, received, posted>>
deliveredVars == <<vars, deliveryVars>>

-----------------------------------------------------------------------------
(* Messages.                                                               *)

\* Mutant of Response: a permit unless the approval was denied.
ResponseUnlessDenied(a) == [decision |-> a.status \in {"approved", "canceled", "expired"}, approval |-> a]

\* ApprovedResponse permits, every other status is a deny; the approval itself
\* goes along in the context, where FromContext finds it again.
Response(a) == [decision |-> a.status = "approved", approval |-> a]

NotFound == [decision |-> FALSE, approval |-> None]

\* A callback_url that is empty or does not parse is None.
Urls == [scheme : {"https", "http"}, host : Hosts] \cup {None}
Terms == [delivery : Deliveries, url : Urls]

AllowList(u) == u.scheme = "https" /\ u.host \in AllowedHosts

\* push takes precedence over ping, and neither means that nothing is sent.
deliveryMode(delivery) ==
    IF "push" \in delivery THEN "push" ELSE IF "ping" \in delivery THEN "ping" ELSE "poll"

\* The body tells of approval a: all of it, or only its id and status.
Body(a, mode) ==
    IF mode = "push" THEN [via |-> "push", id |-> a.id, status |-> a.status, response |-> Response(a)]
    ELSE [via |-> "ping", id |-> a.id, status |-> a.status]

-----------------------------------------------------------------------------
DeliveryInit ==
    /\ Init
    /\ validator \in BOOLEAN
    /\ terms \in [Ids -> Terms]
    /\ posting = [t \in Threads |-> {}]
    /\ wire = {}
    /\ answering = [t \in Threads |-> {}]
    /\ received = [i \in Ids |-> {}]
    /\ posted = [i \in Ids |-> 0]

\* The goroutine is inside neither Notify nor servePoll.
Unoccupied(t) == posting[t] = {} /\ answering[t] = {}

-----------------------------------------------------------------------------
(* The Notifier.                                                           *)

\* post fails closed: without a validator, or with a callback_url that is empty,
\* malformed or refused, Notify returns an error before any I/O.
Dispatches(i) ==
    /\ deliveryMode(terms[i].delivery) # "poll"
    /\ validator
    /\ terms[i].url # None /\ AllowList(terms[i].url)

\* fireResolve invokes the hook with one clone, on goroutine t.
Notify(t) ==
    /\ posting[t] = {}
    /\ \E a \in firing[t] :
          /\ FireResolve(t)
          /\ firing'[t] = firing[t] \ {a}
          /\ IF Dispatches(a.id)
             THEN LET post == [to |-> terms[a.id].url, body |-> Body(a, deliveryMode(terms[a.id].delivery))]
                  IN  /\ wire' = wire \cup {post}
                      /\ posting' = [posting EXCEPT ![t] = {post}]
                      /\ posted' = [posted EXCEPT ![a.id] = @ + 1]
             ELSE UNCHANGED <<wire, posting, posted>>
    /\ UNCHANGED <<validator, terms, answering, received>>

\* Mutant of PostReturns: no timeout, so that only an answer ends the POST.
PostReturnsWhenAnswered(t) ==
    /\ \E p \in posting[t] : p.body \in received[p.body.id]
    /\ posting' = [posting EXCEPT ![t] = {}]
    /\ UNCHANGED <<vars, validator, terms, wire, answering, received, posted>>

\* Mutant of PostReturns: a POST that seems to have failed is sent again.
PostReturnsRetrying(t) ==
    \E p \in posting[t] :
       /\ \/ posting' = [posting EXCEPT ![t] = {}] /\ UNCHANGED <<wire, posted>>
          \/ /\ posted[p.body.id] < 2
             /\ wire' = wire \cup {p}
             /\ posted' = [posted EXCEPT ![p.body.id] = @ + 1]
             /\ UNCHANGED posting
       /\ UNCHANGED <<vars, validator, terms, answering, received>>

\* client.Do is over: with an answer of the endpoint (a redirect is not followed),
\* with a connection error, or because the context or the client's timeout ended
\* it, which may be before the POST arrives.  Nothing is sent again.
PostReturns(t) ==
    /\ posting[t] # {}
    /\ posting' = [posting EXCEPT ![t] = {}]
    /\ UNCHANGED <<vars, validator, terms, wire, answering, received, posted>>

CallbackArrives(p) ==
    /\ wire' = wire \ {p}
    /\ received' = [received EXCEPT ![p.body.id] = @ \cup {p.body}]
    /\ UNCHANGED <<vars, validator, terms, posting, answering, posted>>

CallbackLost(p) ==
    /\ wire' = wire \ {p}
    /\ UNCHANGED <<vars, validator, terms, posting, answering, received, posted>>

-----------------------------------------------------------------------------
(* The poll endpoint.                                                      *)

Reply(i, r) == [via |-> "poll", id |-> i, response |-> r]

\* Mutant of Poll: Get returns the status it finds, without the lazy expiry.
PollAsIs(t, i) ==
    /\ Unoccupied(t) /\ Idle(t)
    /\ i \in DOMAIN born
    /\ answering' = [answering EXCEPT ![t] =
                       {Reply(i, IF i \in Held THEN Response(Stored(i)) ELSE NotFound)}]
    /\ UNCHANGED <<vars, validator, terms, posting, wire, received, posted>>

\* servePoll, on a goroutine of its own: Get under the lock.  Its caller goes on
\* only after the hooks of an expiry that Get observed (Answered).
Poll(t, i) ==
    /\ Unoccupied(t)
    /\ i \in DOMAIN born            \* the id was shown to the client
    /\ \/ /\ Get(t, i)
          /\ answering' = [answering EXCEPT ![t] = {Reply(i, Response(heap'[items[i].ref]))}]
       \/ /\ Idle(t)
          /\ i \notin Held            \* ErrNotFound
          /\ answering' = [answering EXCEPT ![t] = {Reply(i, NotFound)}]
          /\ UNCHANGED vars
    /\ UNCHANGED <<validator, terms, posting, wire, received, posted>>

\* Get has returned to servePoll, after the hooks it owed.
Answered(t) == answering[t] # {} /\ firing[t] = {} /\ posting[t] = {}

\* writeJSON: the reply reaches the client, or the connection fails.
ReplyArrives(t) ==
    /\ Answered(t)
    /\ \E m \in answering[t] : received' = [received EXCEPT ![m.id] = @ \cup {m}]
    /\ answering' = [answering EXCEPT ![t] = {}]
    /\ UNCHANGED <<vars, validator, terms, posting, wire, posted>>

ReplyLost(t) ==
    /\ Answered(t)
    /\ answering' = [answering EXCEPT ![t] = {}]
    /\ UNCHANGED <<vars, validator, terms, posting, wire, received, posted>>

-----------------------------------------------------------------------------
\* Any other use of the Store.
StoreStep(t) ==
    /\ Unoccupied(t)
    /\ Operation(t) \/ \E i \in Held : Delete(t, i)
    /\ UNCHANGED deliveryVars

DeliveryNext ==
    \/ Tick /\ UNCHANGED deliveryVars
    \/ \E t \in Threads :
          \/ StoreStep(t)
          \/ Notify(t)
          \/ PostReturns(t)
          \/ \E i \in Ids : Poll(t, i)
          \/ ReplyArrives(t)
          \/ ReplyLost(t)
    \/ \E p \in wire : CallbackArrives(p) \/ CallbackLost(p)

DeliverySpec == DeliveryInit /\ [][DeliveryNext]_deliveredVars

Polled(i) == \E t \in Threads : Poll(t, i)

\* A reply to a poll of i arrives.
Fetched(i) == \E t \in Threads : (\E m \in answering[t] : m.id = i) /\ ReplyArrives(t)

\* The client polls until it knows the verdict, and not every reply is lost.
\* Goroutines run on, and every POST ends by its timeout.  Nobody is obliged to
\* deliver a callback.
DeliveryFairness ==
    /\ \A t \in Threads : /\ WF_deliveredVars(Notify(t))
                          /\ WF_deliveredVars(PostReturns(t))
                          /\ WF_deliveredVars(ReplyArrives(t) \/ ReplyLost(t))
    /\ \A i \in Ids : SF_deliveredVars(Polled(i)) /\ SF_deliveredVars(Fetched(i))

FairDeliverySpec == DeliverySpec /\ DeliveryFairness

-----------------------------------------------------------------------------
(* Properties.                                                             *)

Posts == (UNION {posting[t] : t \in Threads}) \cup wire

\* Every message about approval i, in the client's hands or on its way there.
MessagesAbout(i) ==
    received[i] \cup {m \in UNION {answering[t] : t \in Threads} : m.id = i}
                \cup {p.body : p \in {q \in Posts : q.body.id = i}}

\* What a message says of the outcome: nothing while pending or not found.
Verdict(m) ==
    IF m.via = "ping" THEN {m.status}
    ELSE IF m.response.approval = None THEN {}
    ELSE {m.response.approval.status} \cap TerminalStatus

\* The response in a message, for the messages that carry one.
Responses(i) == {m.response : m \in {n \in MessagesAbout(i) : n.via # "ping"}}

\* However replies and callbacks overtake one another, a client is never told two
\* outcomes of one approval: pings, pushed results and polled results name the
\* same status and the same decider, and exactly an approved one says
\* "decision": true (handler.go:91, notify.go:171 and 177).
ClientsAgree ==
    \A i \in Ids :
        /\ \A m, n \in MessagesAbout(i) : \A v \in Verdict(m), w \in Verdict(n) : v = w
        /\ \A q, r \in Responses(i) :
              /\ q.decision <=> q.approval # None /\ q.approval.status = "approved"
              /\ \/ None \in {q.approval, r.approval}
                 \/ "pending" \in {q.approval.status, r.approval.status}
                 \/ q.approval = r.approval

\* "At-most-once, no retry" (notify.go:75), for the endpoint and not only for the
\* hook: over all goroutines and all ways to resolve it, an approval causes at
\* most one POST, whatever the endpoint answers; and none leaves for a URL the
\* validator did not approve.
AtMostOnePost ==
    /\ \A i \in Ids : posted[i] <= 1
    /\ \A p \in Posts : validator /\ AllowList(p.to)

\* A callback never runs ahead of the Store: a client that polls because it has
\* been called back is not told that the approval is pending (notify.go:31).
CallbackThenPoll ==
    [][\A t \in Threads : \A m \in answering'[t] \ answering[t] :
          (\E n \in received[m.id] : n.via # "poll")
             => m.response.approval = None \/ m.response.approval.status # "pending"]_deliveredVars

Knows(i) == \E m \in received[i] : Verdict(m) # {}
Resolved(i) == i \in Held /\ (Stored(i).status # "pending" \/ Due(i, now))

\* A client that polls learns the verdict without any callback, also that of an
\* approval whose lifetime just ran out, unless the record is reclaimed first
\* (notify.go:81-82).
PollingLearns == \A i \in Ids : Resolved(i) ~> Knows(i) \/ i \notin Held

\* The same without the exception: what the Notifier's contract says a client
\* must be able to do.
PollingRecovers == \A i \in Ids : Resolved(i) ~> Knows(i)

\* A poll that observes an expiry, and therefore waits for the callback's POST, is
\* answered in the end, also when the endpoint is dead (store.go:276).
PollsAnswered == \A t \in Threads : answering[t] # {} ~> answering[t] = {}
=============================================================================
