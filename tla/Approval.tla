------------------------------ MODULE Approval ------------------------------
(***************************************************************************)
(* Human-in-the-loop approvals of agent tool calls:                        *)
(* services/approval_manager.py, the handlers of routers/agent.py that     *)
(* drive it and the reaper that the lifespan of main.py starts.            *)
(*                                                                         *)
(* All of it runs on one asyncio event loop, so a step of this module is   *)
(* the code between two awaits.  Three parties interleave: the stream of   *)
(* POST /agent/chat, which announces a task and then waits for a verdict;  *)
(* the people who decide through POST /agent/approval/{task_id}; and time, *)
(* which ends waits, makes tasks stale and wakes the reaper.               *)
(*                                                                         *)
(* Time is kept as ages that saturate just past the largest value the code *)
(* compares them with, so no bound on the length of a behaviour is needed. *)
(***************************************************************************)
EXTENDS Naturals

CONSTANTS
    TaskId,     \* uuid4().hex[:12]; an id is used once
    Users,      \* logged-in users
    Admins,     \* those whose role is "admin"
    Timeout,    \* TIMEOUT_SECONDS, in ticks
    Reap,       \* REAP_INTERVAL_SECONDS, in ticks
    None        \* Python's None

Stale == Timeout * 2        \* STALE_SECONDS

Decisions == {"approved", "rejected"}
Verdicts  == Decisions \cup {"timed_out", "not_found"}

ASSUME ApprovalAssumption ==
    /\ Timeout \in Nat \ {0}
    /\ Reap \in Nat \ {0}
    /\ Admins \subseteq Users
    /\ None \notin Verdicts
    /\ None \notin Users

VARIABLES
    tasks,      \* the ApprovalTask objects; place says whether _tasks holds one
    stream,     \* how far the chat stream that announced a task has got
    delivered,  \* what wait_for_decision returned to that stream
    acked,      \* the last decision that was answered with {"ok": True}
    sinceReap   \* time since reaper_loop went back to sleep

vars == <<tasks, stream, delivered, acked, sinceReap>>

Stages == {"none", "announced", "waiting", "continued", "refused", "dropped"}

ApprovalTask ==
    [place    : {"unborn", "queued", "removed"},
     owner    : Users \cup {None},
     result   : Decisions \cup {"timed_out", None},
     detached : BOOLEAN,
     wake     : {"absent", "clear", "set"},
     age      : 0 .. Stale + 1,
     waited   : 0 .. Timeout]

TypeOK ==
    /\ tasks     \in [TaskId -> ApprovalTask]
    /\ stream    \in [TaskId -> Stages]
    /\ delivered \in [TaskId -> Verdicts \cup {None}]
    /\ acked     \in [TaskId -> Decisions \cup {None}]
    /\ sinceReap \in 0 .. Reap

-----------------------------------------------------------------------------

(* A task object before create() and right after it.                       *)
TaskAt(place, owner) ==
    [place |-> place, owner |-> owner, result |-> None, detached |-> FALSE,
     wake |-> "absent", age |-> 0, waited |-> 0]

Init ==
    /\ tasks     = [t \in TaskId |-> TaskAt("unborn", None)]
    /\ stream    = [t \in TaskId |-> "none"]
    /\ delivered = [t \in TaskId |-> None]
    /\ acked     = [t \in TaskId |-> None]
    /\ sinceReap = 0

Queued(t) == tasks[t].place = "queued"

(* Mutation: only tasks marked detached are ever evicted.                  *)
StaleDetached(t) == Queued(t) /\ tasks[t].age > Stale /\ tasks[t].detached

(* evict_stale: every task older than STALE_SECONDS leaves the queue, one  *)
(* somebody is waiting on included.                                        *)
StaleTask(t) == Queued(t) /\ tasks[t].age > Stale

Evicted ==
    [t \in TaskId |->
        IF StaleTask(t) THEN [tasks[t] EXCEPT !.place = "removed"] ELSE tasks[t]]

(* create() evicts before it adds the new task.                            *)
Create(t, u) ==
    /\ tasks[t].place = "unborn"
    /\ tasks' = [Evicted EXCEPT ![t] = TaskAt("queued", u)]
    /\ UNCHANGED <<delivered, acked, sinceReap>>

(* POST /agent/chat with the approval trigger, reserved to admins: the     *)
(* task is announced to the client before the stream waits on it.          *)
ChatApproval(t, u) ==
    /\ u \in Admins
    /\ Create(t, u)
    /\ stream' = [stream EXCEPT ![t] = "announced"]

(* POST /agent/test-approval creates a task that no stream waits on.       *)
TestApproval(t, u) ==
    /\ u \in Admins
    /\ Create(t, u)
    /\ UNCHANGED stream

-----------------------------------------------------------------------------
(* wait_for_decision                                                       *)

(* The stream takes the verdict: it goes on to Hermes when the answer is   *)
(* an approval and closes with an error event otherwise.                   *)
Deliver(t, v) ==
    /\ delivered' = [delivered EXCEPT ![t] = v]
    /\ stream' = [stream EXCEPT
                    ![t] = IF v = "approved" THEN "continued" ELSE "refused"]

(* Mutation: the woken waiter leaves its task in the queue.                *)
WakeUnpopped(t) ==
    /\ stream[t] = "waiting"
    /\ tasks[t].wake = "set"
    /\ Deliver(t, tasks[t].result)
    /\ UNCHANGED <<tasks, acked, sinceReap>>

(* Mutation: the expired wait records no result.                           *)
TimeOutSilent(t) ==
    /\ stream[t] = "waiting"
    /\ tasks[t].waited = Timeout
    /\ Deliver(t, "timed_out")
    /\ UNCHANGED <<tasks, acked, sinceReap>>

(* Mutation: the expired wait is reported as a missing task.               *)
TimeOutMislabelled(t) ==
    /\ stream[t] = "waiting"
    /\ tasks[t].waited = Timeout
    /\ tasks' = [tasks EXCEPT ![t].result = "not_found"]
    /\ Deliver(t, "not_found")
    /\ UNCHANGED <<acked, sinceReap>>

(* Mutation: a wait expires only while its task is still in the queue.     *)
TimeOutQueued(t) ==
    /\ stream[t] = "waiting"
    /\ tasks[t].waited = Timeout
    /\ Queued(t)
    /\ tasks' = [tasks EXCEPT ![t].result = "timed_out"]
    /\ Deliver(t, "timed_out")
    /\ UNCHANGED <<acked, sinceReap>>

(* The task was evicted before the stream came to wait on it.              *)
WaitNotFound(t) ==
    /\ stream[t] = "announced"
    /\ ~Queued(t)
    /\ Deliver(t, "not_found")
    /\ UNCHANGED <<tasks, acked, sinceReap>>

(* It was decided before the wait began: take the result, no wait.         *)
WaitDecided(t) ==
    /\ stream[t] = "announced"
    /\ Queued(t)
    /\ tasks[t].result # None
    /\ tasks' = [tasks EXCEPT ![t].place = "removed"]
    /\ Deliver(t, tasks[t].result)
    /\ UNCHANGED <<acked, sinceReap>>

WaitBegin(t) ==
    /\ stream[t] = "announced"
    /\ Queued(t)
    /\ tasks[t].result = None
    /\ tasks' = [tasks EXCEPT ![t] = [@ EXCEPT !.wake = "clear", !.waited = 0]]
    /\ stream' = [stream EXCEPT ![t] = "waiting"]
    /\ UNCHANGED <<delivered, acked, sinceReap>>

(* The event was set and the waiter runs again.                            *)
Wake(t) ==
    /\ stream[t] = "waiting"
    /\ tasks[t].wake = "set"
    /\ tasks' = [tasks EXCEPT ![t].place = "removed"]
    /\ Deliver(t, tasks[t].result)
    /\ UNCHANGED <<acked, sinceReap>>

(* asyncio.wait_for expires.  It also wins over a decision whose wake-up   *)
(* is still pending: the timer cancels the waiter before it runs.  The     *)
(* result is overwritten and the task stays in _tasks.                     *)
TimeOut(t) ==
    /\ stream[t] = "waiting"
    /\ tasks[t].waited = Timeout
    /\ tasks' = [tasks EXCEPT ![t].result = "timed_out"]
    /\ Deliver(t, "timed_out")
    /\ UNCHANGED <<acked, sinceReap>>

(* The client disconnects while its stream waits: CancelledError.          *)
Cancel(t) ==
    /\ stream[t] = "waiting"
    /\ tasks' = [tasks EXCEPT ![t].detached = TRUE]
    /\ stream' = [stream EXCEPT ![t] = "dropped"]
    /\ UNCHANGED <<delivered, acked, sinceReap>>

(* The client disconnects while the announcement is being sent: the        *)
(* generator is closed at its yield and wait_for_decision never runs.      *)
Drop(t) ==
    /\ stream[t] = "announced"
    /\ stream' = [stream EXCEPT ![t] = "dropped"]
    /\ UNCHANGED <<tasks, delivered, acked, sinceReap>>

-----------------------------------------------------------------------------
(* POST /agent/approval/{task_id}.  The 404, 403 and 409 answers change    *)
(* nothing; what is left is the decision that is recorded and acknowledged.*)

MayDecide(t, u) == u \in Admins \/ tasks[t].owner = u

(* decide(): record the answer and set the event, if somebody waits on it. *)
Decided(task, d) ==
    [task EXCEPT !.result = d,
                 !.wake   = IF task.wake = "absent" THEN "absent" ELSE "set"]

(* Mutation: the 409 branch is missing.                                    *)
DecideDetached(t, u, d) ==
    /\ Queued(t)
    /\ MayDecide(t, u)
    /\ tasks' = [tasks EXCEPT ![t] = Decided(tasks[t], d)]
    /\ acked' = [acked EXCEPT ![t] = d]
    /\ UNCHANGED <<stream, delivered, sinceReap>>

Decide(t, u, d) ==
    /\ Queued(t)                    \* else 404
    /\ MayDecide(t, u)              \* else 403
    /\ ~tasks[t].detached           \* else 409
    /\ tasks' = [tasks EXCEPT ![t] = Decided(tasks[t], d)]
    /\ acked' = [acked EXCEPT ![t] = d]
    /\ UNCHANGED <<stream, delivered, sinceReap>>

(* GET /agent/approvals                                                    *)
Pending(t) == Queued(t) /\ tasks[t].result = None /\ ~tasks[t].detached

-----------------------------------------------------------------------------
(* Time, the reaper, and the process itself                                *)

Older(n, limit) == IF n < limit THEN n + 1 ELSE n

Tick ==
    /\ tasks' = [t \in TaskId |->
                    IF tasks[t].place = "unborn" THEN tasks[t]
                    ELSE [tasks[t] EXCEPT !.age    = Older(@, Stale + 1),
                                          !.waited = Older(@, Timeout)]]
    /\ sinceReap' = Older(sinceReap, Reap)
    /\ UNCHANGED <<stream, delivered, acked>>

(* One round of reaper_loop.                                               *)
ReaperPass ==
    /\ sinceReap = Reap
    /\ tasks' = Evicted
    /\ sinceReap' = 0
    /\ UNCHANGED <<stream, delivered, acked>>

(* The process is restarted: the queue lives in memory only, and every     *)
(* open stream breaks.                                                     *)
Restart ==
    /\ tasks' = [t \in TaskId |->
                    IF Queued(t) THEN [tasks[t] EXCEPT !.place = "removed"]
                    ELSE tasks[t]]
    /\ stream' = [t \in TaskId |->
                    IF stream[t] \in {"announced", "waiting"} THEN "dropped"
                    ELSE stream[t]]
    /\ sinceReap' = 0
    /\ UNCHANGED <<delivered, acked>>

WaitStep(t) ==
    \/ WaitNotFound(t) \/ WaitDecided(t) \/ WaitBegin(t)
    \/ Wake(t) \/ TimeOut(t) \/ Cancel(t) \/ Drop(t)

Next ==
    \/ \E t \in TaskId, u \in Users : ChatApproval(t, u) \/ TestApproval(t, u)
    \/ \E t \in TaskId : WaitStep(t)
    \/ \E t \in TaskId, u \in Users, d \in Decisions : Decide(t, u, d)
    \/ Tick
    \/ ReaperPass
    \/ Restart

Spec == Init /\ [][Next]_vars

(* The event loop runs what is due: a woken waiter, an expired timer, the  *)
(* reaper's sleep.  Nothing obliges a person to decide or a client to stay.*)
Fairness ==
    /\ WF_vars(Tick)
    /\ WF_vars(ReaperPass)
    /\ \A t \in TaskId : WF_vars(Wake(t) \/ TimeOut(t))

FairSpec == Spec /\ Fairness

-----------------------------------------------------------------------------
(* Properties                                                              *)

(* What a stream acts on is what the people were told was recorded: a      *)
(* decision handed to the stream is the last one acknowledged, and it      *)
(* stays the last (wait_for_decision removes the task as it takes the      *)
(* result, so a later click gets a 404 and not a second ok).               *)
DeliveredIsLastAcked ==
    \A t \in TaskId : delivered[t] \in Decisions => acked[t] = delivered[t]

(* GET /agent/approvals never offers a task that has already been decided, *)
(* or whose stream has already taken an answer or given up waiting.        *)
PendingIsUnanswered ==
    \A t \in TaskId : Pending(t) =>
        /\ acked[t] = None
        /\ delivered[t] = None

(* Every wait ends, decided or not: a decision nobody makes cannot hold a  *)
(* stream open.                                                            *)
WaitEnds == \A t \in TaskId : stream[t] = "waiting" ~> stream[t] # "waiting"

(* Every task leaves the queue although detached, timed-out and test tasks *)
(* have no waiter to remove them.                                          *)
QueueDrains == \A t \in TaskId : Queued(t) ~> ~Queued(t)

(* The contract of ApprovalContract.tla, with a task that lost its waiter  *)
(* to a disconnect read as abandoned, and one whose wait ended unanswered  *)
(* as lapsed.                                                              *)
OutcomeOf(t) ==
    IF tasks[t].detached THEN "abandoned"
    ELSE IF delivered[t] \in {"timed_out", "not_found"} THEN "lapsed"
    ELSE delivered[t]

Outcome == [t \in TaskId |-> OutcomeOf(t)]

Contract == INSTANCE ApprovalContract WITH answer <- acked, outcome <- Outcome

(* The queue keeps the contract: what is delivered is the last answer, no  *)
(* outcome is revised, and a settled or abandoned approval takes no answer.*)
KeepsContract == Contract!Spec

(* The handler's own account (agent.py, the 409 branch): when nobody waits *)
(* for the answer any more the decision is refused, never acknowledged.    *)
(* Here: after the stream has taken its verdict, no ok is answered.        *)
NoAckAfterVerdict ==
    [][\A t \in TaskId : delivered[t] # None => acked'[t] = acked[t]]_vars
=============================================================================
