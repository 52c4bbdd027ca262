------------------------------ MODULE AccessRequest ------------------------------
(***************************************************************************)
(* The Access Request and Approval profile (package accessrequest): from a  *)
(* deny whose context says it is requestable, through the submission bound  *)
(* to that deny and the task that is polled, to the re-evaluation that      *)
(* carries the approval.                                                    *)
(*                                                                         *)
(* The package gives the types, HintFromContext, DenialFromHint, IsTerminal *)
(* and the Validate methods.  Its users - the enforcement point (PEP) that  *)
(* submits and polls, the PDP that denies and the service that answers - do *)
(* here what the package's documentation tells them to do, and are free     *)
(* where it is silent: what they build need not be valid.  A value of the   *)
(* wrong JSON type is "number" where a string is expected.                  *)
(***************************************************************************)
EXTENDS AuthzenCore

CONSTANTS
    Targets,        \* [resource, action]: what the PEP is denied
    DenyContexts,   \* [access_request, evaluation_id] or None
    Results,        \* completion results, None among them
    TaskStatuses,   \* canonical, empty and implementation-defined statuses
    TaskItems,      \* [resource, action, status, result]: what a service reports of an item
    MaxDenials,     \* how many denials the PEP gathers for one submission
    MaxItems        \* how many items a service reports in one response

ASSUME AccessRequestAssumption ==
    MaxDenials \in Nat \ {0} /\ MaxItems \in Nat /\ None \in Results

VARIABLES
    phase,          \* "deny", "poll", "complete", "refused", "broken", "done"
    denied,         \* the denied evaluations: [target, context]
    submission,     \* what the PEP posted
    response,       \* the last response about its task
    carried         \* the re-evaluations: [entry, approval]

accessVars == <<phase, denied, submission, response, carried>>

(***************************************************************************)
(* The denial.                                                              *)
(***************************************************************************)
Text(v) == IF v = "number" THEN "" ELSE v       \* v, _ := x.(string)

HintFromContext(ctx) ==
    IF ctx = None \/ ctx.access_request = None THEN None
    ELSE [k \in {"expires_at", "binding_token", "template"} |-> Text(ctx.access_request[k])]

DenialFromHint(h, ctx) ==
    [expires_at |-> IF h = None THEN "" ELSE h.expires_at,
     binding_token |-> IF h = None THEN "" ELSE h.binding_token,
     template |-> IF h = None THEN "" ELSE h.template,
     evaluation_id |-> IF ctx = None THEN "" ELSE Text(ctx.evaluation_id)]

ValidHint(h) == h # None /\ h.expires_at # ""

ValidDenial(d) ==
    d # None /\ d.expires_at # "" /\ (d.evaluation_id # "" \/ d.binding_token # "")

(***************************************************************************)
(* The submission: [subject, resource, action, items, denial].  An optional *)
(* callback and client are validated on their own and left out.             *)
(***************************************************************************)
ValidItem(i) ==
    ValidResource(i.resource) /\ ValidAction(i.action) /\ (i.denial # None => ValidDenial(i.denial))

(* Mutant of ValidItems: that there is a top-level denial is enough.        *)
ValidItemsPresent(s) ==
    \A k \in 1 .. Len(s.items) :
        ValidItem(s.items[k]) /\ (s.items[k].denial = None => s.denial # None)

ValidItems(s) ==
    \A k \in 1 .. Len(s.items) :
        ValidItem(s.items[k]) /\ (s.items[k].denial = None => ValidDenial(s.denial))

ValidSubmission(s) ==
    LET single == s.resource # None \/ s.action # None
        bundle == s.items # <<>>
    IN /\ ValidSubject(s.subject)
       /\ single # bundle
       /\ single => ValidResource(s.resource) /\ ValidAction(s.action) /\ ValidDenial(s.denial)
       /\ bundle => ValidItems(s)

(***************************************************************************)
(* The task: [status, id, items, result]; its status endpoint is like its   *)
(* id.  A result is [mode, approval], an approval [id, approved_until].     *)
(***************************************************************************)
IsTerminal(status) ==
    status \in {"approved", "denied", "expired", "cancelled", "failed", "partial"}

ValidApproval(a) == a # None /\ a.id # "" /\ a.approved_until # ""

ValidResult(r) == r # None /\ r.mode # "" /\ (r.mode = "reevaluate" => ValidApproval(r.approval))

(* Mutant of ValidTaskItem: an approved item has a result, of any kind.     *)
ValidTaskItemWithResult(i) ==
    /\ ValidResource(i.resource) /\ ValidAction(i.action) /\ i.status # ""
    /\ i.status = "approved" => i.result # None

ValidTaskItem(i) ==
    /\ ValidResource(i.resource) /\ ValidAction(i.action) /\ i.status # ""
    /\ i.status = "approved" => ValidResult(i.result)

ValidTask(t) ==
    /\ t.id # "" /\ t.status # ""
    /\ \A k \in 1 .. Len(t.items) : ValidTaskItem(t.items[k])

ValidResponse(t) == t # None /\ ValidTask(t) /\ (t.result # None => ValidResult(t.result))

(***************************************************************************)
(* The PEP and the two services.                                            *)
(***************************************************************************)
AccessInit ==
    /\ phase = "deny" /\ denied = <<>> /\ submission = None /\ response = None /\ carried = {}

Deny(t, ctx) ==
    /\ phase = "deny" /\ Len(denied) < MaxDenials
    /\ denied' = Append(denied, [target |-> t, context |-> ctx])
    /\ UNCHANGED <<phase, submission, response, carried>>

(* The binding the PEP echoes for denial k.                                 *)
Echo(k) == DenialFromHint(HintFromContext(denied[k].context), denied[k].context)

Echoes == {None} \cup {Echo(k) : k \in 1 .. Len(denied)}

(* A submission for one denial, for all of them in one bundle, for both at  *)
(* once, or without a target; denials are left out, or stand for others.    *)
Submissions ==
    LET Item(own) ==
            [k \in 1 .. Len(denied) |->
                [resource |-> denied[k].target.resource, action |-> denied[k].target.action,
                 denial |-> IF k \in own THEN Echo(k) ELSE None]]
    IN [subject : {[type |-> "user", id |-> "ann", props |-> None]},
        resource : {None, denied[1].target.resource}, action : {None, denied[1].target.action},
        items : {<<>>} \cup {Item(own) : own \in SUBSET (1 .. Len(denied))}, denial : Echoes]

Submit ==
    /\ phase = "deny" /\ denied # <<>>
    /\ \E s \in Submissions :
        /\ submission' = s
        /\ phase' = IF ValidSubmission(s) THEN "poll" ELSE "refused"
    /\ UNCHANGED <<denied, response, carried>>

(* The responses to a submission, and to each poll of its task.  What the   *)
(* service reports of the items is its own: there may be fewer or more of   *)
(* them than were submitted, for other targets, each with its own result.   *)
Responses ==
    [id : {"", "task"}, status : TaskStatuses, result : Results,
     items : UNION {[1 .. n -> TaskItems] : n \in 0 .. MaxItems}]

(* The PEP polls while the task is not terminal, and gives up on a response *)
(* that is not valid.                                                       *)
Poll ==
    /\ phase = "poll"
    /\ \E t \in Responses :
        /\ response' = t
        /\ phase' = IF ~ValidResponse(t) THEN "broken"
                    ELSE IF IsTerminal(t.status) THEN "complete" ELSE "poll"
    /\ UNCHANGED <<denied, submission, carried>>

(* The entries of the submission the response reports on, a lone target     *)
(* being its only entry: items correspond by position, and neither the      *)
(* Validate methods nor anything else in the package compares their number  *)
(* or their targets with the submission's.                                  *)
Entries ==
    IF submission.items = <<>> THEN {1}
    ELSE (1 .. Len(submission.items)) \cap (1 .. Len(response.items))

Outcome(k) == IF submission.items = <<>> THEN response ELSE response.items[k]

(* "A PEP that receives an unknown status [or result.mode] MUST treat the   *)
(* task as not approved": the outcomes that are enforceable.                *)
Enforceable(o) == o.status = "approved" /\ o.result # None /\ o.result.mode = "reevaluate"

Reevaluate ==
    /\ phase = "complete" /\ phase' = "done"
    /\ carried' = {[entry |-> k, approval |-> Outcome(k).result.approval] :
                    k \in {j \in Entries : Enforceable(Outcome(j))}}
    /\ UNCHANGED <<denied, submission, response>>

(* The PEP starts again.                                                    *)
Restart ==
    /\ phase \in {"refused", "broken", "done"}
    /\ phase' = "deny" /\ denied' = <<>> /\ submission' = None /\ response' = None /\ carried' = {}

AccessNext ==
    \/ \E t \in Targets, ctx \in DenyContexts : Deny(t, ctx)
    \/ Submit
    \/ Poll
    \/ Reevaluate
    \/ Restart

AccessSpec == AccessInit /\ [][AccessNext]_accessVars

(***************************************************************************)
(* Properties.                                                              *)
(***************************************************************************)
Requestable(ctx) ==
    /\ ctx # None /\ ctx.access_request # None
    /\ Text(ctx.access_request.expires_at) # ""
    /\ Text(ctx.evaluation_id) # "" \/ Text(ctx.access_request.binding_token) # ""

(* The denial that covers target k of the submission.                       *)
Covering(k) ==
    IF submission.items = <<>> \/ submission.items[k].denial = None
    THEN submission.denial ELSE submission.items[k].denial

(* A submission that is accepted binds every target it asks for to a deny   *)
(* that said it could be requested, echoed as it was: nothing is requested  *)
(* on the strength of a deny without an access_request object, whatever     *)
(* else its context holds (denial.go:132-227, validate.go:35-125).          *)
AcceptedIsBound ==
    phase \in {"poll", "complete", "done"} =>
        \A k \in 1 .. (IF submission.items = <<>> THEN 1 ELSE Len(submission.items)) :
            \E j \in 1 .. Len(denied) :
                /\ Requestable(denied[j].context)
                /\ Covering(k) = Echo(j)

(* Everything a PEP that accepts valid responses only re-evaluates with can *)
(* be used, and used for that entry: it is an approval with its id and the  *)
(* time it ends, the one reported for that very entry as approved in a      *)
(* response that ended the task, and the entry is a target that was denied  *)
(* as requestable - never the mere status, nor another entry's approval,    *)
(* whatever number of items the service reports (task.go:87-90,             *)
(* validate.go:179-285).                                                    *)
ReevaluationsCarryApprovals ==
    \A c \in carried :
        /\ c.approval # None /\ c.approval.id # "" /\ c.approval.approved_until # ""
        /\ IsTerminal(response.status)
        /\ Outcome(c.entry).status = "approved" /\ c.approval = Outcome(c.entry).result.approval
        /\ \E j \in 1 .. Len(denied) :
              Requestable(denied[j].context) /\ Covering(c.entry) = Echo(j)
=============================================================================
