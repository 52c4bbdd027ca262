--------------------------- MODULE AccessRequestProofs ---------------------------
(***************************************************************************)
(* Proofs about AccessRequest: what the Validate methods of the package let *)
(* through is bound to a requestable deny, and is followed by an approval   *)
(* that can be enforced, for any targets, contexts, results and statuses.   *)
(***************************************************************************)
EXTENDS AccessRequest, TLAPS

(* The PEP acts on a terminal response only after it has validated it.      *)
Validated == phase = "complete" => ValidResponse(response) /\ IsTerminal(response.status)

(* It carries nothing before it acts.                                       *)
NothingCarriedBefore == phase # "done" => carried = {}

AccessInv ==
    /\ denied \in Seq([target : Targets, context : DenyContexts])
    /\ Validated
    /\ NothingCarriedBefore
    /\ AcceptedIsBound
    /\ ReevaluationsCarryApprovals

-----------------------------------------------------------------------------
(* A binding that is valid was taken from a hint: DenialFromHint invents    *)
(* neither an expiry nor an evaluation.                                     *)
LEMMA EchoIsRequestable ==
  ASSUME NEW j, ValidDenial(Echo(j))
  PROVE  Requestable(denied[j].context)
  <1> DEFINE ctx == denied[j].context
             h == HintFromContext(ctx)
  <1>1. Echo(j).expires_at # ""  BY DEF ValidDenial
  <1>2. Echo(j).evaluation_id # "" \/ Echo(j).binding_token # ""  BY DEF ValidDenial
  <1>3. h # None  BY <1>1 DEF Echo, DenialFromHint
  <1>4. ctx # None /\ ctx.access_request # None  BY <1>3 DEF HintFromContext
  <1>5. /\ h.expires_at = Text(ctx.access_request.expires_at)
        /\ h.binding_token = Text(ctx.access_request.binding_token)
    BY <1>4 DEF HintFromContext
  <1>6. /\ Echo(j).expires_at = Text(ctx.access_request.expires_at)
        /\ Echo(j).binding_token = Text(ctx.access_request.binding_token)
        /\ Echo(j).evaluation_id = Text(ctx.evaluation_id)
    BY <1>3, <1>4, <1>5 DEF Echo, DenialFromHint
  <1> QED  BY <1>1, <1>2, <1>4, <1>6 DEF Requestable

LEMMA EchoedDenial ==
  ASSUME NEW d \in Echoes, ValidDenial(d)
  PROVE  \E j \in 1 .. Len(denied) : Requestable(denied[j].context) /\ d = Echo(j)
  <1>1. PICK j \in 1 .. Len(denied) : d = Echo(j)  BY DEF Echoes, ValidDenial
  <1> QED  BY <1>1, EchoIsRequestable

(* Each target of a submission is covered by its own denial or the common   *)
(* one; Validate insists that whichever it is be valid.                     *)
LEMMA SubmissionIsBound ==
  ASSUME AccessInv, Submit PROVE AcceptedIsBound'
  <1>1. PICK s \in Submissions : /\ submission' = s
                                 /\ phase' = IF ValidSubmission(s) THEN "poll" ELSE "refused"
    BY DEF Submit
  <1>2. UNCHANGED denied  BY DEF Submit
  <1> SUFFICES ASSUME ValidSubmission(s),
                      NEW k \in 1 .. (IF s.items = <<>> THEN 1 ELSE Len(s.items))
               PROVE  \E j \in 1 .. Len(denied) : Requestable(denied[j].context) /\ Covering(k)' = Echo(j)
    BY <1>1, <1>2 DEF AcceptedIsBound, Echo
  <1> DEFINE d == IF s.items = <<>> \/ s.items[k].denial = None THEN s.denial ELSE s.items[k].denial
  <1>3. Covering(k)' = d  BY <1>1 DEF Covering
  <1>4. s.denial \in Echoes  BY DEF Submissions
  <1>5. Len(denied) \in Nat  BY DEF AccessInv
  <1>6. ASSUME s.items # <<>> PROVE s.items[k].denial \in Echoes
    <2>1. PICK own \in SUBSET (1 .. Len(denied)) :
            s.items = [i \in 1 .. Len(denied) |->
                         [resource |-> denied[i].target.resource, action |-> denied[i].target.action,
                          denial |-> IF i \in own THEN Echo(i) ELSE None]]
      BY <1>6 DEF Submissions
    <2>2. Len(s.items) = Len(denied)  BY <2>1, <1>5
    <2>3. k \in 1 .. Len(denied)  BY <2>2, <1>6
    <2>4. s.items[k].denial = IF k \in own THEN Echo(k) ELSE None  BY <2>1, <2>3
    <2> QED  BY <2>3, <2>4 DEF Echoes
  <1>7. d \in Echoes  BY <1>4, <1>6
  <1>8. CASE s.items = <<>>
    <2>1. ValidDenial(s.denial)  BY <1>8 DEF ValidSubmission
    <2> QED  BY <1>3, <1>7, <1>8, <2>1, EchoedDenial
  <1>9. CASE s.items # <<>>
    <2>1. ValidItems(s)  BY <1>9 DEF ValidSubmission
    <2>2. /\ ValidItem(s.items[k])
          /\ s.items[k].denial = None => ValidDenial(s.denial)
      BY <1>9, <2>1 DEF ValidItems
    <2>3. ValidDenial(d)  BY <1>9, <2>2 DEF ValidItem
    <2> QED  BY <1>3, <1>7, <2>3, EchoedDenial
  <1> QED  BY <1>8, <1>9

(* What the PEP may enforce of a validated response is an approval with its *)
(* id and its end, whichever entry it is for.                               *)
LEMMA EnforceableApproval ==
  ASSUME ValidResponse(response), NEW k \in Entries, Enforceable(Outcome(k))
  PROVE  ValidApproval(Outcome(k).result.approval)
  <1> DEFINE o == Outcome(k)
  <1>1. o.status = "approved" /\ o.result # None /\ o.result.mode = "reevaluate"
    BY DEF Enforceable
  <1>2. CASE submission.items = <<>>
    <2>1. o = response  BY <1>2 DEF Outcome
    <2>2. ValidResult(o.result)  BY <1>1, <2>1 DEF ValidResponse
    <2> QED  BY <1>1, <2>2 DEF ValidResult
  <1>3. CASE submission.items # <<>>
    <2>1. o = response.items[k] /\ k \in 1 .. Len(response.items)
      BY <1>3 DEF Outcome, Entries
    <2>2. ValidTaskItem(o)  BY <2>1 DEF ValidResponse, ValidTask
    <2>3. ValidResult(o.result)  BY <1>1, <2>2 DEF ValidTaskItem
    <2> QED  BY <1>1, <2>3 DEF ValidResult
  <1> QED  BY <1>2, <1>3

(* An entry is a target of the submission, however many items a response    *)
(* reports, and so is bound to a requestable deny.                          *)
LEMMA EntryIsBound ==
  ASSUME AcceptedIsBound, phase = "complete", NEW k \in Entries
  PROVE  \E j \in 1 .. Len(denied) :
            Requestable(denied[j].context) /\ Covering(k) = Echo(j)
  <1>1. k \in 1 .. (IF submission.items = <<>> THEN 1 ELSE Len(submission.items))
    BY DEF Entries
  <1> QED  BY <1>1 DEF AcceptedIsBound

LEMMA ReevaluationCarriesApprovals ==
  ASSUME AccessInv, Reevaluate PROVE ReevaluationsCarryApprovals'
  <1>1. /\ phase = "complete" /\ UNCHANGED <<denied, submission, response>>
        /\ carried' = {[entry |-> k, approval |-> Outcome(k).result.approval] :
                          k \in {j \in Entries : Enforceable(Outcome(j))}}
    BY DEF Reevaluate
  <1>2. ValidResponse(response) /\ IsTerminal(response.status)
    BY <1>1 DEF AccessInv, Validated
  <1> SUFFICES ASSUME NEW k \in Entries, Enforceable(Outcome(k)),
                      NEW c, c = [entry |-> k, approval |-> Outcome(k).result.approval]
               PROVE  /\ ValidApproval(c.approval)
                      /\ IsTerminal(response.status)
                      /\ Outcome(c.entry).status = "approved"
                      /\ c.approval = Outcome(c.entry).result.approval
                      /\ \E j \in 1 .. Len(denied) :
                            Requestable(denied[j].context) /\ Covering(c.entry) = Echo(j)
    BY <1>1 DEF ReevaluationsCarryApprovals, ValidApproval, Outcome, Covering, Echo
  <1>3. c.entry = k /\ c.approval = Outcome(k).result.approval  OBVIOUS
  <1>4. ValidApproval(c.approval)  BY <1>2, <1>3, EnforceableApproval
  <1>5. \E j \in 1 .. Len(denied) :
          Requestable(denied[j].context) /\ Covering(c.entry) = Echo(j)
    BY <1>1, <1>3, EntryIsBound DEF AccessInv
  <1>6. Outcome(c.entry).status = "approved"  BY <1>3 DEF Enforceable
  <1> QED  BY <1>2, <1>3, <1>4, <1>5, <1>6

LEMMA AccessInvInit == AccessInit => AccessInv
  BY DEF AccessInit, AccessInv, Validated, NothingCarriedBefore, AcceptedIsBound,
         ReevaluationsCarryApprovals

LEMMA AccessInvNext == AccessInv /\ [AccessNext]_accessVars => AccessInv'
  <1> SUFFICES ASSUME AccessInv, [AccessNext]_accessVars PROVE AccessInv'  OBVIOUS
  <1> USE DEF AccessInv
  <1>1. ASSUME UNCHANGED <<denied, submission>>,
               phase' \in {"poll", "complete", "done"} => phase \in {"poll", "complete", "done"}
        PROVE  AcceptedIsBound'
    BY <1>1 DEF AcceptedIsBound, Covering, Echo
  <1>2. ASSUME carried' = {} PROVE ReevaluationsCarryApprovals'
    BY <1>2 DEF ReevaluationsCarryApprovals
  <1>3. ASSUME NEW t \in Targets, NEW ctx \in DenyContexts, Deny(t, ctx) PROVE AccessInv'
    <2>1. [target |-> t, context |-> ctx] \in [target : Targets, context : DenyContexts]  OBVIOUS
    <2>2. denied' \in Seq([target : Targets, context : DenyContexts])  BY <1>3, <2>1 DEF Deny
    <2>3. phase' = "deny" /\ carried' = {}  BY <1>3 DEF Deny, NothingCarriedBefore
    <2> QED  BY <1>2, <2>2, <2>3 DEF Validated, NothingCarriedBefore, AcceptedIsBound
  <1>4. CASE Submit
    <2>1. phase' \in {"poll", "refused"} /\ denied' = denied /\ carried' = {}
      BY <1>4 DEF Submit, NothingCarriedBefore
    <2> QED
      BY <1>2, <1>4, <2>1, SubmissionIsBound DEF Validated, NothingCarriedBefore
  <1>5. CASE Poll
    <2>1. Validated'  BY <1>5 DEF Poll, Validated
    <2>2. AcceptedIsBound'  BY <1>1, <1>5 DEF Poll
    <2>3. phase' # "done" /\ denied' = denied /\ carried' = {}
      BY <1>5 DEF Poll, NothingCarriedBefore
    <2> QED  BY <1>2, <2>1, <2>2, <2>3 DEF NothingCarriedBefore
  <1>6. CASE Reevaluate
    <2>1. AcceptedIsBound'  BY <1>1, <1>6 DEF Reevaluate
    <2>2. phase' = "done" /\ denied' = denied  BY <1>6 DEF Reevaluate
    <2> QED
      BY <1>6, <2>1, <2>2, ReevaluationCarriesApprovals DEF Validated, NothingCarriedBefore
  <1>7. CASE Restart
    <2>1. denied' \in Seq([target : Targets, context : DenyContexts])  BY <1>7 DEF Restart
    <2>2. phase' = "deny" /\ carried' = {}  BY <1>7 DEF Restart
    <2> QED  BY <1>2, <2>1, <2>2 DEF Validated, NothingCarriedBefore, AcceptedIsBound
  <1>8. CASE UNCHANGED accessVars
    <2>1. AcceptedIsBound'  BY <1>1, <1>8 DEF accessVars
    <2>2. ReevaluationsCarryApprovals'
      BY <1>8 DEF accessVars, ReevaluationsCarryApprovals, Outcome, Covering, Echo
    <2> QED  BY <1>8, <2>1, <2>2 DEF accessVars, Validated, NothingCarriedBefore
  <1> QED  BY <1>3, <1>4, <1>5, <1>6, <1>7, <1>8 DEF AccessNext

LEMMA AccessInvariant == AccessSpec => []AccessInv
  BY AccessInvInit, AccessInvNext, PTL DEF AccessSpec

(* Whatever denials a PEP gathers and however it puts its submission        *)
(* together, one that Validate accepts binds every target to a requestable  *)
(* deny, echoed unchanged.                                                  *)
THEOREM AcceptedSubmissionsAreBound == AccessSpec => []AcceptedIsBound
  <1>1. AccessInv => AcceptedIsBound  BY DEF AccessInv
  <1> QED  BY <1>1, AccessInvariant, PTL

(* Whatever a service answers, for however many items, targets and results: *)
(* what a re-evaluation after a validated response carries for an entry is  *)
(* the approval, with its id and its end, that a terminal response reported *)
(* for that entry as approved, and the entry was denied as requestable.     *)
THEOREM OnlyApprovalsAreCarried == AccessSpec => []ReevaluationsCarryApprovals
  <1>1. AccessInv => ReevaluationsCarryApprovals  BY DEF AccessInv
  <1> QED  BY <1>1, AccessInvariant, PTL
=============================================================================
