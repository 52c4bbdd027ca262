----------------------------- MODULE MCAccessRequest -----------------------------
(***************************************************************************)
(* A small instance of AccessRequest.                                       *)
(***************************************************************************)
EXTENDS AccessRequest

MCTargets ==
    {[resource |-> [type |-> "document", id |-> id, props |-> None],
      action |-> [name |-> "read", props |-> None]] : id \in {"plan", ""}}

Hint(expires, token) == [expires_at |-> expires, binding_token |-> token, template |-> ""]

MCDenyContexts ==
    {None}
    \cup [access_request : {None, Hint("later", "")}, evaluation_id : {"eval", "number"}]
    \cup [access_request : {Hint("number", "token"), Hint("later", "token")}, evaluation_id : {""}]

Result(mode, approval) == [mode |-> mode, approval |-> approval]

MCResults ==
    {None, Result("grant", None), Result("reevaluate", [id |-> "a", approved_until |-> ""]),
     Result("reevaluate", [id |-> "a", approved_until |-> "later"])}

Approved(id, until) == Result("reevaluate", [id |-> id, approved_until |-> until])

Reported(resource, status, result) ==
    [resource |-> resource, action |-> [name |-> "read", props |-> None],
     status |-> status, result |-> result]

(* Two approvals, an approval without an end, an approved item without a     *)
(* result or with one of another mode, a result of an item that is not      *)
(* approved, and items for another target and for none.                     *)
MCTaskItems ==
    LET plan == [type |-> "document", id |-> "plan", props |-> None] IN
    {Reported(plan, "approved", Approved("b", "later")), Reported(plan, "approved", Approved("b", "")),
     Reported(plan, "approved", None), Reported(plan, "approved", Result("grant", None)),
     Reported(plan, "queued", Approved("a", "later")),
     Reported([plan EXCEPT !.id = "budget"], "approved", Approved("a", "later")),
     Reported(None, "approved", Approved("a", "later"))}
=============================================================================
