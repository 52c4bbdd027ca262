-------------------------- MODULE ApprovalJanitor --------------------------
(***************************************************************************)
(* A Store built WithJanitor (src/approval/store.go, startJanitor and      *)
(* Close): the Store of ApprovalStore, one of whose goroutines is the      *)
(* background sweeper, composed with any number of callers of Close.       *)
(*                                                                         *)
(* The janitor's loop selects between the stop channel and its ticker; a   *)
(* tick makes it Sweep, and it delivers the hooks of that Sweep itself,    *)
(* synchronously, before it selects again.  Close runs under a sync.Once:  *)
(* the first caller closes the stop channel and waits for the done         *)
(* channel, the others wait for the first.  The hook is the caller's code  *)
(* and may itself call Close, on whichever goroutine it is invoked.        *)
(***************************************************************************)
EXTENDS ApprovalStore

CONSTANTS
    Janitor,      \* the goroutine startJanitor launches
    ClosesOn      \* the verdicts on which the OnResolve hook may call Close

ASSUME JanitorAssumption == Janitor \in Threads /\ ClosesOn \subseteq TerminalStatus

VARIABLES
    loop,       \* where the janitor goroutine is
    ticked,     \* whether t.C holds a tick (its buffer has room for one)
    stop,       \* whether janitorStop is closed
    done,       \* whether janitorDone is closed
    once,       \* closeOnce
    closing,    \* per goroutine, where it is in Close
    returned,   \* history: whether a call of Close has returned
    deleted     \* history: the ids that clients have deleted

closeVars == <<stop, once, closing, returned>>
janitorVars == <<loop, ticked, done, closeVars, deleted>>
allVars == <<vars, janitorVars>>

Clients == Threads \ {Janitor}

JanitorInit ==
    /\ Init
    /\ loop = "select"
    /\ ticked = FALSE
    /\ stop = FALSE
    /\ done = FALSE
    /\ once = "unused"
    /\ closing = [t \in Threads |-> "no"]
    /\ returned = FALSE
    /\ deleted = {}

-----------------------------------------------------------------------------
(* Close.  (A Store without a janitor has no stop channel: there Close does *)
(* nothing, and there is nothing to check.)                                *)

\* Mutant of EnterClose: a flag in place of the sync.Once.
EnterCloseByFlag(t) ==
    \/ /\ once = "unused"
       /\ once' = "running"
       /\ stop' = TRUE
       /\ closing' = [closing EXCEPT ![t] = "first"]
       /\ UNCHANGED returned
    \/ /\ once # "unused"
       /\ returned' = TRUE
       /\ UNCHANGED <<stop, once, closing>>

\* closeOnce.Do: the first caller closes the stop channel and then waits, one
\* that comes while it waits blocks inside Do, a later one returns at once.
EnterClose(t) ==
    \/ /\ once = "unused"
       /\ once' = "running"
       /\ stop' = TRUE
       /\ closing' = [closing EXCEPT ![t] = "first"]
       /\ UNCHANGED returned
    \/ /\ once = "running"
       /\ closing' = [closing EXCEPT ![t] = "queued"]
       /\ UNCHANGED <<stop, once, returned>>
    \/ /\ once = "finished"
       /\ returned' = TRUE
       /\ UNCHANGED <<stop, once, closing>>

Close(t) ==
    /\ Idle(t)
    /\ closing[t] = "no"
    /\ EnterClose(t)
    /\ UNCHANGED <<vars, loop, ticked, done, deleted>>

\* <-s.janitorDone, and Do returns.
Joined(t) ==
    /\ closing[t] = "first"
    /\ done
    /\ once' = "finished"
    /\ closing' = [closing EXCEPT ![t] = "no"]
    /\ returned' = TRUE
    /\ UNCHANGED <<vars, loop, ticked, done, stop, deleted>>

\* Do returns to a caller that found it running.
Dequeued(t) ==
    /\ closing[t] = "queued"
    /\ once = "finished"
    /\ closing' = [closing EXCEPT ![t] = "no"]
    /\ returned' = TRUE
    /\ UNCHANGED <<vars, loop, ticked, done, stop, once, deleted>>

\* The hook is invoked with one clone on goroutine t, and returns.
Delivers(t) ==
    /\ closing[t] = "no"
    /\ FireResolve(t)
    /\ UNCHANGED janitorVars

\* The hook is invoked with one clone on goroutine t, and calls Close there:
\* nothing else of t runs until that Close has returned.
HookThatCloses(t) ==
    /\ HookSet
    /\ closing[t] = "no"
    /\ \A a \in firing[t] : a.status \in ClosesOn
    /\ FireResolve(t)
    /\ EnterClose(t)
    /\ UNCHANGED <<loop, ticked, done, deleted>>

-----------------------------------------------------------------------------
(* The janitor goroutine.                                                  *)

\* The runtime's ticker: a tick that finds the channel full is dropped.
Ring ==
    /\ loop # "exited"
    /\ ticked' = TRUE
    /\ UNCHANGED <<vars, loop, done, closeVars, deleted>>

\* case <-t.C
Wake ==
    /\ loop = "select"
    /\ ticked
    /\ ticked' = FALSE
    /\ loop' = "sweep"
    /\ UNCHANGED <<vars, done, closeVars, deleted>>

JanitorSweep ==
    /\ loop = "sweep"
    /\ Sweep(Janitor)
    /\ loop' = "deliver"
    /\ UNCHANGED <<ticked, done, closeVars, deleted>>

JanitorDelivers == loop = "deliver" /\ Delivers(Janitor)

\* Mutant of Rest: a timer in place of the ticker's loop; the goroutine is done
\* after one sweep.
RestForGood ==
    /\ loop = "deliver"
    /\ firing[Janitor] = {}
    /\ closing[Janitor] = "no"
    /\ loop' = "exited"
    /\ done' = TRUE
    /\ UNCHANGED <<vars, ticked, closeVars, deleted>>

\* Sweep returns and the loop selects again.
Rest ==
    /\ loop = "deliver"
    /\ firing[Janitor] = {}
    /\ closing[Janitor] = "no"
    /\ loop' = "select"
    /\ UNCHANGED <<vars, ticked, done, closeVars, deleted>>

\* Mutant of Exit: the goroutine returns without closing janitorDone.
ExitSilently ==
    /\ loop = "select"
    /\ stop
    /\ loop' = "exited"
    /\ UNCHANGED <<vars, ticked, done, closeVars, deleted>>

\* Mutant of Exit: janitorDone is set to nil instead of being closed.
ExitDroppingDone ==
    /\ loop = "select"
    /\ stop
    /\ loop' = "exited"
    /\ done' = None
    /\ UNCHANGED <<vars, ticked, closeVars, deleted>>

\* case <-s.janitorStop, and the deferred t.Stop and close(janitorDone).
Exit ==
    /\ loop = "select"
    /\ stop
    /\ loop' = "exited"
    /\ done' = TRUE
    /\ UNCHANGED <<vars, ticked, closeVars, deleted>>

-----------------------------------------------------------------------------
\* A goroutine that is not inside Close goes on using the Store: Close clears
\* nothing and forbids nothing.
ClientStep(t) == closing[t] = "no" /\ Operation(t) /\ UNCHANGED janitorVars

ClientDeletes(t) ==
    /\ closing[t] = "no"
    /\ \E i \in Held : Delete(t, i) /\ deleted' = deleted \cup {i}
    /\ UNCHANGED <<loop, ticked, done, closeVars>>

JanitorNext ==
    \/ Tick /\ UNCHANGED janitorVars
    \/ Ring
    \/ Wake
    \/ JanitorSweep
    \/ JanitorDelivers
    \/ Rest
    \/ Exit
    \/ \E t \in Clients : ClientStep(t) \/ ClientDeletes(t) \/ Delivers(t) \/ Close(t)
    \/ \E t \in Threads : HookThatCloses(t) \/ Joined(t) \/ Dequeued(t)

JanitorSpec == JanitorInit /\ [][JanitorNext]_allVars

\* The scheduler runs every goroutine, the ticker ticks, hooks return, and a
\* select that finds the stop channel ready time and again takes it in the end:
\* Go chooses among the ready cases at random.
JanitorFairness ==
    /\ WF_allVars(Ring) /\ WF_allVars(Wake) /\ WF_allVars(Rest)
    /\ WF_allVars(JanitorSweep) /\ WF_allVars(JanitorDelivers)
    /\ SF_allVars(Exit)
    /\ \A t \in Clients : WF_allVars(Delivers(t))
    /\ \A t \in Threads : WF_allVars(Joined(t)) /\ WF_allVars(Dequeued(t))

FairJanitorSpec == JanitorSpec /\ JanitorFairness

-----------------------------------------------------------------------------
(* Properties.                                                             *)

\* Every variable of the janitor has its type.
JanitorTypeOK ==
    /\ loop \in {"select", "sweep", "deliver", "exited"}
    /\ {ticked, stop, done, returned} \subseteq BOOLEAN
    /\ once \in {"unused", "running", "finished"}
    /\ closing \in [Threads -> {"no", "first", "queued"}]
    /\ deleted \subseteq Ids

\* Close "waits for it to exit" (store.go:182): from the moment any call of
\* Close has returned - the first, one that raced it, or a later one - the
\* janitor neither sweeps nor has a hook still to deliver.
QuietAfterClose == returned => loop = "exited" /\ firing[Janitor] = {}

\* What makes it inductive: hooks of a sweep are pending only in the state that
\* delivers them, the done channel is closed only by the exit, and Do finishes
\* only after it.
JoinedBeforeReturn ==
    /\ loop # "deliver" => firing[Janitor] = {}
    /\ done => loop = "exited"
    /\ returned \/ once = "finished" => done

\* Close returns to every caller, also when a sweep is in progress, when ticks
\* keep coming, and when callers race (store.go:181-183).
CloseReturns == \A t \in Threads : closing[t] # "no" ~> closing[t] = "no"

\* The hook has been told that approval i expired.
ToldExpired(i) == \E k \in 1..Len(announced[i]) : announced[i][k].status = "expired"

\* Expiry is enforced, and the hook told, for approvals nobody polls: of every
\* approval that falls due while the janitor runs the hook is told in the end
\* that it expired, whether a sweep, a poll or a late decision found it first.
\* Reclaiming the record is no way around it: only Close, and a client that
\* deletes the record, excuse the silence (store.go:386-388).
ExpiredUnpolled ==
    \A i \in Ids : (i \in Held /\ Due(i, now)) ~> (stop \/ i \in deleted \/ ToldExpired(i))
=============================================================================
