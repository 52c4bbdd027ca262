---------------------------- MODULE BatchEvaluation ----------------------------
(***************************************************************************)
(* server.EvaluateBatch: the default Access Evaluations implementation.     *)
(* One goroutine resolves the members of a batch and asks the PDP about     *)
(* them one at a time.  Meanwhile the request's context may be cancelled,   *)
(* and a PDP may write to the maps of a member it was handed, also after it *)
(* has answered.                                                            *)
(*                                                                         *)
(* A map is known by its cell: <<"request", k, f>> is the map of field f in *)
(* member k of the caller's request (0: the defaults), <<"member", k, f>>   *)
(* that of resolved member k.  "written" holds the cells the PDP wrote to.  *)
(*                                                                         *)
(* Abstractions: the correlation id of a failed member, a random 128 bit    *)
(* string, is the member's number (ids do not collide); nested reference    *)
(* values inside a map, which the code documents as shared, are left out.   *)
(***************************************************************************)
EXTENDS AuthzenCore

CONSTANTS
    Batches,        \* the requests EvaluateBatch may be called with
    Decisions,      \* [decision, context, error]: what a PDP may decide
    VerboseErrors   \* WithBatchVerboseErrors: member errors carry their detail

(* Requests and decisions are of the Go types; a PDP's own decision has no   *)
(* member error.                                                            *)
ASSUME BatchAssumption ==
    /\ Batches \subseteq EvaluationsRequests
    /\ Decisions \subseteq {d \in EvaluationResponses : d.error = None}
    /\ VerboseErrors \in BOOLEAN

VARIABLES
    stage,      \* "idle", "loop", or how the call ended
    request,    \* the caller's request
    written,    \* the map cells a PDP has written to
    ctxErr,     \* ctx.Err() # nil
    seen,       \* what the PDP was asked, member by member
    answers,    \* and what it did: [how, decision], decision None if it failed;
                \* "cancelled" is an error that reports the context's own end
    out,        \* the decisions collected so far
    logged      \* correlation ids logged with the full error

batchVars == <<stage, request, written, ctxErr, seen, answers, out, logged>>

Outcomes == {"returned", "failed", "panicked", "aborted"}

(***************************************************************************)
(* Resolved members and their maps.                                         *)
(***************************************************************************)
MapOf(f, v) == IF v = None THEN None ELSE IF f = "context" THEN v ELSE v.props

WithMap(f, v, m) == IF f = "context" THEN m ELSE [v EXCEPT !.props = m]

(* The cell a member's value comes from: its own, else the default's.       *)
Origin(k, f) ==
    IF request.evaluations = <<>> \/ request.evaluations[k][f] = None
    THEN <<"request", 0, f>> ELSE <<"request", k, f>>

(* Mutant of Cell: the resolved member shares the map it was resolved from. *)
CellShared(k, f) == Origin(k, f)

(* The clone functions give every resolved member maps of its own.          *)
Cell(k, f) == <<"member", k, f>>

(* Member k as the PDP finds it when it is called.                          *)
Handed(k) ==
    [f \in Fields |->
        LET v == Resolved(request)[k][f] IN
        IF MapOf(f, v) # None /\ Cell(k, f) \in written
        THEN WithMap(f, v, "written") ELSE v]

(* Mutant of FailedMember: a member the PDP failed on is let through.       *)
FailedMemberOpen(k) ==
    [decision |-> TRUE, context |-> None, error |-> [id |-> k, detail |-> VerboseErrors]]

(* memberError: a closed decision whose context carries the redacted error. *)
FailedMember(k) ==
    [decision |-> FALSE, context |-> None, error |-> [id |-> k, detail |-> VerboseErrors]]

(***************************************************************************)
(* The call.                                                                *)
(***************************************************************************)
BatchInit ==
    /\ stage = "idle" /\ request = None /\ written = {} /\ ctxErr = FALSE
    /\ seen = <<>> /\ answers = <<>> /\ out = <<>> /\ logged = {}

Begin(r) ==
    /\ stage = "idle" /\ ValidBatch(r)
    /\ stage' = "loop" /\ request' = r
    /\ UNCHANGED <<written, ctxErr, seen, answers, out, logged>>

(* The member the loop is at, and the call to pdp.Evaluate it makes.         *)
Current == Len(out) + 1

Ask(how, d) ==
    /\ stage = "loop"
    /\ seen' = Append(seen, Handed(Current))
    /\ answers' = Append(answers, [how |-> how, decision |-> d])
    /\ UNCHANGED <<request, written, ctxErr>>

(* Mutant of Collect: the short-circuit looks at the decision before this.  *)
CollectLate(d) ==
    /\ out' = Append(out, d)
    /\ stage' = IF Current = Len(Resolved(request))
                   \/ (out # <<>> /\ Stops(SemanticOf(request), out[Len(out)].decision))
                THEN "returned" ELSE stage

(* Append the decision; the semantic decides whether the loop goes on.      *)
Collect(d) ==
    /\ out' = Append(out, d)
    /\ stage' = IF Current = Len(Resolved(request)) \/ Stops(SemanticOf(request), d.decision)
                THEN "returned" ELSE stage

MemberDecided(d) == Ask("decided", d) /\ Collect(d) /\ UNCHANGED logged

(* The PDP returns an error: one of its own, or that of a context that ended *)
(* while it was deciding.                                                   *)
PdpFails ==
    \E how \in {"error", "cancelled"} : (how = "cancelled" => ctxErr) /\ Ask(how, None)

(* Mutant of MemberErred: the error wins over the logging of its detail.    *)
MemberErredUnlogged ==
    /\ PdpFails
    /\ \/ ctxErr /\ stage' = "failed" /\ UNCHANGED <<out, logged>>
       \/ ~ctxErr /\ Collect(FailedMember(Current)) /\ UNCHANGED logged

(* Mutant of MemberErred: the batch is tried again from its first member.   *)
MemberErredRestarts ==
    \/ PdpFails /\ ctxErr /\ stage' = "failed" /\ UNCHANGED <<out, logged>>
    \/ /\ stage = "loop" /\ ~ctxErr
       /\ seen' = <<>> /\ answers' = <<>> /\ out' = <<>>
       /\ UNCHANGED <<stage, request, written, ctxErr, logged>>

(* Mutant of MemberErred: the context is not looked at.                     *)
MemberErredUnchecked ==
    PdpFails /\ Collect(FailedMember(Current)) /\ logged' = logged \cup {Current}

(* An error fails the batch if the context is done, else this member only.  *)
MemberErred ==
    /\ PdpFails
    /\ \/ ctxErr /\ stage' = "failed" /\ UNCHANGED <<out, logged>>
       \/ ~ctxErr /\ Collect(FailedMember(Current)) /\ logged' = logged \cup {Current}

(* A nil response is dereferenced, which panics like a panicking PDP;       *)
(* "abort" is the panic net/http reserves for aborting a handler.           *)
MemberPanicked ==
    \/ Ask("nil", None) /\ stage' = "panicked" /\ UNCHANGED <<out, logged>>
    \/ Ask("panic", None) /\ stage' = "panicked" /\ UNCHANGED <<out, logged>>
    \/ Ask("abort", None) /\ stage' = "aborted" /\ UNCHANGED <<out, logged>>

(* The caller goes away, or its deadline passes.                            *)
Cancel ==
    /\ ~ctxErr /\ ctxErr' = TRUE
    /\ UNCHANGED <<stage, request, written, seen, answers, out, logged>>

(* A PDP writes to a map of a member it was handed.                         *)
PdpWrites(k, f) ==
    /\ stage = "loop" /\ MapOf(f, Resolved(request)[k][f]) # None
    /\ written' = written \cup {Cell(k, f)}
    /\ UNCHANGED <<stage, request, ctxErr, seen, answers, out, logged>>

(* The caller takes the result and forgets the call.                        *)
Return ==
    /\ stage \in Outcomes
    /\ stage' = "idle" /\ request' = None /\ written' = {} /\ ctxErr' = FALSE
    /\ seen' = <<>> /\ answers' = <<>> /\ out' = <<>> /\ logged' = {}

BatchStep ==
    \/ \E d \in Decisions : MemberDecided(d)
    \/ MemberErred
    \/ MemberPanicked
    \/ \E k \in 1 .. Len(seen), f \in Fields : PdpWrites(k, f)

BatchNext ==
    \/ \E r \in Batches : Begin(r)
    \/ BatchStep
    \/ Cancel
    \/ Return

BatchSpec == BatchInit /\ [][BatchNext]_batchVars

(***************************************************************************)
(* Properties.                                                              *)
(***************************************************************************)
Stopped(k) == Stops(SemanticOf(request), out[k].decision)

(* A call that returns has the decisions of its members in request order,   *)
(* none after the first that stops the semantic, and none missing unless    *)
(* one stopped it (server.go:145-176, evaluations.go:17-37).                *)
ExactPrefix ==
    stage = "returned" =>
        /\ Len(out) = Len(answers)
        /\ \A k \in 1 .. Len(out) - 1 : ~Stopped(k)
        /\ Len(out) = Len(Resolved(request)) \/ Stopped(Len(out))

(* Whatever a PDP does to the maps it was handed, each member it is asked   *)
(* about is the member of the request as it was when the call began, and    *)
(* the caller's maps are left as they were (evaluations.go:155-240).        *)
MembersIsolated ==
    /\ \A k \in 1 .. Len(seen) : seen[k] = Resolved(request)[k]
    /\ \A c \in written : c[1] # "request"

(* A member is permitted only if the PDP permitted it, and one the PDP      *)
(* failed on is a deny whose correlation id is in the log.                  *)
FailuresAreDenies ==
    \A k \in 1 .. Len(out) :
        IF answers[k].how = "error"
        THEN ~out[k].decision /\ out[k].error # None /\ out[k].error.id \in logged
        ELSE out[k] = answers[k].decision

(* Once the PDP has answered a member with the end of its context the call  *)
(* has failed, and no member's decision stands for that answer.             *)
CancellationFailsBatch ==
    (\E k \in 1 .. Len(answers) : answers[k].how = "cancelled") =>
        stage = "failed" /\ Len(out) < Len(answers)

(* Failures are told apart.  One that is the member's own is a deny of that *)
(* member, with an id that was logged, and the others are decided all the   *)
(* same; a cancelled context is a failure of the whole request, and never   *)
(* told as a member's deny, however many members had been decided before    *)
(* (server.go:145-166, 217-232).                                            *)
FailedMembersDeny == FailuresAreDenies /\ CancellationFailsBatch
=============================================================================
