------------------------- MODULE ApprovalLifecycle -------------------------
(***************************************************************************)
(* What the approval package promises of each approval, whoever calls and  *)
(* in whatever order: an approval is created pending, is resolved at most  *)
(* once, is announced at most once and only when resolved, and otherwise   *)
(* can only be forgotten.  The approvals are independent of each other,    *)
(* and one step of the Store may move several of them (a sweep does).      *)
(*                                                                         *)
(* The promise is that of the Store comment (src/approval/store.go:47-50), *)
(* of OnResolve (store.go:96-101) and of Delete and Sweep (368-394).       *)
(***************************************************************************)
CONSTANT Ids

VARIABLE life    \* per id: its status, whether it is retained, whether announced

Terminal == {"approved", "denied", "expired", "canceled"}

Life == [status : {"absent", "pending"} \cup Terminal,
         held   : BOOLEAN,
         told   : BOOLEAN]

Absent  == [status |-> "absent",  held |-> FALSE, told |-> FALSE]
Pending == [status |-> "pending", held |-> TRUE,  told |-> FALSE]

Init == life = [i \in Ids |-> Absent]

\* The moves of one approval.
Create(l, m)   == l = Absent /\ m = Pending
Resolve(l, m)  == l = Pending /\ \E s \in Terminal : m = [l EXCEPT !.status = s]
Lapse(l, m)    == l = Pending /\ m = [l EXCEPT !.status = "expired", !.held = FALSE]
Announce(l, m) == l.status \in Terminal /\ ~l.told /\ m = [l EXCEPT !.told = TRUE]
Forget(l, m)   == l.held /\ m = [l EXCEPT !.held = FALSE]

Move(l, m) == \/ Create(l, m)
              \/ Resolve(l, m)
              \/ Lapse(l, m)
              \/ Announce(l, m)
              \/ Forget(l, m)

Next == /\ life' \in [Ids -> Life]
        /\ \A i \in Ids : life'[i] = life[i] \/ Move(life[i], life'[i])

\* A resolution is announced in the end.
Liveness == \A i \in Ids : life[i].status \in Terminal ~> life[i].told

Spec == Init /\ [][Next]_life

FairSpec == Spec /\ Liveness
=============================================================================
