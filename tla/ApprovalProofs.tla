--------------------------- MODULE ApprovalProofs ---------------------------
(***************************************************************************)
(* What Approval.tla promises for any set of tasks and users and any       *)
(* timeout: type correctness, the two invariants the runs check, and that  *)
(* the queue keeps the contract of ApprovalContract.tla.                   *)
(***************************************************************************)
EXTENDS Approval, TLAPS

(* Neither invariant is inductive on its own: that a woken stream takes    *)
(* the last acknowledged decision needs to know that the result stored in  *)
(* the task is that decision for as long as the stream has no verdict, and *)
(* that a task whose stream has taken a decision has left the queue.       *)
Fresh(t) ==
    tasks[t].place = "unborn" =>
        /\ stream[t] = "none"
        /\ delivered[t] = None
        /\ acked[t] = None
        /\ tasks[t].result = None
        /\ tasks[t].wake = "absent"
        /\ ~tasks[t].detached

ResultIsAck(t) ==
    \/ tasks[t].result = acked[t]
    \/ tasks[t].result = "timed_out" /\ delivered[t] = "timed_out"

Open(t) ==
    stream[t] \in {"none", "announced", "waiting"} =>
        delivered[t] = None /\ ~tasks[t].detached

Woken(t) ==
    stream[t] = "waiting" /\ tasks[t].wake = "set" => tasks[t].result # None

Verdict(t) ==
    /\ delivered[t] \in Decisions =>
          /\ acked[t] = delivered[t]
          /\ tasks[t].place = "removed"
    /\ delivered[t] = "not_found" => tasks[t].place = "removed"
    /\ delivered[t] = "timed_out" => tasks[t].result # None
    /\ tasks[t].detached => delivered[t] = None /\ stream[t] = "dropped"

TInv(t) == Fresh(t) /\ ResultIsAck(t) /\ Open(t) /\ Woken(t) /\ Verdict(t)

IInv == \A t \in TaskId : TInv(t)

-----------------------------------------------------------------------------

(* The age at which a task is stale is a number.                           *)
LEMMA StaleIsNat == Stale \in Nat /\ Stale + 1 \in Nat
  BY ApprovalAssumption DEF Stale

(* Ages stay within the range of their type.                               *)
LEMMA OlderIsBounded ==
  ASSUME NEW limit \in Nat, NEW n \in 0 .. limit
  PROVE  Older(n, limit) \in 0 .. limit
  BY DEF Older

(* Eviction keeps the type of the tasks.                                   *)
LEMMA EvictedType ==
  ASSUME TypeOK
  PROVE  Evicted \in [TaskId -> ApprovalTask]
  BY DEF TypeOK, Evicted, ApprovalTask

(* A new task is an ApprovalTask.                                          *)
LEMMA TaskAtType ==
  ASSUME NEW place \in {"unborn", "queued", "removed"},
         NEW u \in Users \cup {None}
  PROVE  TaskAt(place, u) \in ApprovalTask
  BY StaleIsNat, ApprovalAssumption DEF TaskAt, ApprovalTask

(* The initial state is well typed.                                        *)
LEMMA InitType == Init => TypeOK
  <1> SUFFICES ASSUME Init PROVE TypeOK
    OBVIOUS
  <1>1. tasks \in [TaskId -> ApprovalTask]
    BY TaskAtType DEF Init
  <1>2. sinceReap \in 0 .. Reap
    BY ApprovalAssumption DEF Init
  <1> QED
    BY <1>1, <1>2 DEF Init, TypeOK, Stages

(* The delivery of a verdict keeps the types.                              *)
LEMMA DeliverType ==
  ASSUME TypeOK, NEW t \in TaskId, NEW v \in Verdicts, Deliver(t, v)
  PROVE  /\ delivered' \in [TaskId -> Verdicts \cup {None}]
         /\ stream' \in [TaskId -> Stages]
  BY DEF TypeOK, Deliver, Stages

(* Every step keeps the types.                                             *)
LEMMA NextType == TypeOK /\ [Next]_vars => TypeOK'
  <1> SUFFICES ASSUME TypeOK, [Next]_vars PROVE TypeOK'
    OBVIOUS
  <1> USE ApprovalAssumption
  <1>1. ASSUME NEW t \in TaskId, NEW u \in Users, ChatApproval(t, u)
        PROVE  TypeOK'
    <2>1. tasks' \in [TaskId -> ApprovalTask]
      BY <1>1, EvictedType, TaskAtType DEF ChatApproval, Create
    <2> QED
      BY <1>1, <2>1 DEF TypeOK, ChatApproval, Create, Stages
  <1>2. ASSUME NEW t \in TaskId, NEW u \in Users, TestApproval(t, u)
        PROVE  TypeOK'
    <2>1. tasks' \in [TaskId -> ApprovalTask]
      BY <1>2, EvictedType, TaskAtType DEF TestApproval, Create
    <2> QED
      BY <1>2, <2>1 DEF TypeOK, TestApproval, Create, Stages
  <1>3. ASSUME NEW t \in TaskId, WaitStep(t) PROVE TypeOK'
    <2>1. CASE WaitNotFound(t)
      BY <2>1, DeliverType DEF TypeOK, WaitNotFound, Verdicts
    <2>2. CASE WaitDecided(t)
      <3>1. tasks[t].result \in Verdicts
        BY <2>2 DEF TypeOK, ApprovalTask, WaitDecided, Verdicts
      <3>2. tasks' \in [TaskId -> ApprovalTask]
        BY <2>2 DEF TypeOK, ApprovalTask, WaitDecided
      <3> QED
        BY <2>2, <3>1, <3>2, DeliverType DEF TypeOK, WaitDecided
    <2>3. CASE WaitBegin(t)
      <3>1. tasks' \in [TaskId -> ApprovalTask]
        <4>1. 0 \in 0 .. Timeout
          OBVIOUS
        <4>2. [tasks[t] EXCEPT !.wake = "clear", !.waited = 0] \in ApprovalTask
          BY <4>1 DEF TypeOK, ApprovalTask
        <4> QED
          BY <2>3, <4>2 DEF TypeOK, WaitBegin
      <3> QED
        BY <2>3, <3>1 DEF TypeOK, WaitBegin, Stages
    <2>4. CASE Wake(t) /\ tasks[t].result # None
      <3>1. tasks[t].result \in Verdicts
        BY <2>4 DEF TypeOK, ApprovalTask, Verdicts
      <3>2. tasks' \in [TaskId -> ApprovalTask]
        BY <2>4 DEF TypeOK, ApprovalTask, Wake
      <3> QED
        BY <2>4, <3>1, <3>2, DeliverType DEF TypeOK, Wake
    <2>5. CASE Wake(t) /\ tasks[t].result = None
      BY <2>5 DEF TypeOK, Wake, Deliver, ApprovalTask, Stages
    <2>6. CASE TimeOut(t)
      <3>1. tasks' \in [TaskId -> ApprovalTask]
        BY <2>6 DEF TypeOK, ApprovalTask, TimeOut
      <3> QED
        BY <2>6, <3>1, DeliverType DEF TypeOK, TimeOut, Verdicts
    <2>7. CASE Cancel(t)
      <3>1. tasks' \in [TaskId -> ApprovalTask]
        <4>1. [tasks[t] EXCEPT !.detached = TRUE] \in ApprovalTask
          BY DEF TypeOK, ApprovalTask
        <4> QED
          BY <2>7, <4>1 DEF TypeOK, Cancel
      <3> QED
        BY <2>7, <3>1 DEF TypeOK, Cancel, Stages
    <2>8. CASE Drop(t)
      BY <2>8 DEF TypeOK, Drop, Stages
    <2> QED
      BY <1>3, <2>1, <2>2, <2>3, <2>4, <2>5, <2>6, <2>7, <2>8 DEF WaitStep
  <1>4. ASSUME NEW t \in TaskId, NEW u \in Users, NEW d \in Decisions, Decide(t, u, d)
        PROVE  TypeOK'
    <2>1. tasks' \in [TaskId -> ApprovalTask]
      <3>1. Decided(tasks[t], d) \in ApprovalTask
        BY DEF TypeOK, ApprovalTask, Decided
      <3> QED
        BY <1>4, <3>1 DEF TypeOK, Decide
    <2> QED
      BY <1>4, <2>1 DEF TypeOK, Decide
  <1>5. CASE Tick
    <2>1. ASSUME NEW t \in TaskId
          PROVE  [tasks[t] EXCEPT !.age    = Older(tasks[t].age, Stale + 1),
                                  !.waited = Older(tasks[t].waited, Timeout)] \in ApprovalTask
      <3>1. /\ Older(tasks[t].age, Stale + 1) \in 0 .. Stale + 1
            /\ Older(tasks[t].waited, Timeout) \in 0 .. Timeout
        BY StaleIsNat, OlderIsBounded DEF TypeOK, ApprovalTask
      <3> QED
        BY <3>1 DEF TypeOK, ApprovalTask
    <2>2. tasks' \in [TaskId -> ApprovalTask]
      BY <1>5, <2>1 DEF Tick, TypeOK
    <2>3. sinceReap' \in 0 .. Reap
      BY <1>5, OlderIsBounded DEF Tick, TypeOK
    <2> QED
      BY <1>5, <2>2, <2>3 DEF Tick, TypeOK
  <1>6. CASE ReaperPass
    BY <1>6, EvictedType DEF TypeOK, ReaperPass
  <1>7. CASE Restart
    BY <1>7 DEF TypeOK, Restart, ApprovalTask, Stages
  <1>8. CASE UNCHANGED vars
    BY <1>8 DEF TypeOK, vars
  <1> QED
    BY <1>1, <1>2, <1>3, <1>4, <1>5, <1>6, <1>7, <1>8 DEF Next

(* Every variable keeps its type, for any tasks, users and timeout.        *)
THEOREM TypeCorrect == Spec => []TypeOK
  BY InitType, NextType, PTL DEF Spec

-----------------------------------------------------------------------------

(* A step that touches task t alone leaves every other task as it was, so  *)
(* its part of the invariant carries over.                                 *)
LEMMA Untouched ==
  ASSUME NEW t \in TaskId, TInv(t),
         tasks'[t] = tasks[t], stream'[t] = stream[t],
         delivered'[t] = delivered[t], acked'[t] = acked[t]
  PROVE  TInv(t)'
  BY DEF TInv, Fresh, ResultIsAck, Open, Woken, Verdict

(* Evicting a task changes nothing but its place.                          *)
LEMMA Demoted ==
  ASSUME TypeOK, NEW t \in TaskId, TInv(t), tasks[t].place # "unborn",
         tasks'[t] = [tasks[t] EXCEPT !.place = "removed"],
         \/ stream'[t] = stream[t]
         \/ stream[t] \in {"announced", "waiting"} /\ stream'[t] = "dropped",
         delivered'[t] = delivered[t], acked'[t] = acked[t]
  PROVE  TInv(t)'
  BY DEF TypeOK, ApprovalTask, TInv, Fresh, ResultIsAck, Open, Woken, Verdict

(* No task exists at the start.                                            *)
LEMMA InitInv == Init => IInv
  <1> SUFFICES ASSUME Init, NEW t \in TaskId PROVE TInv(t)
    BY DEF IInv
  <1> QED
    BY ApprovalAssumption
    DEF Init, TInv, TaskAt, Fresh, ResultIsAck, Open, Woken, Verdict, Verdicts, Decisions

(* A task the eviction passes over or removes keeps the invariant.         *)
LEMMA EvictedInv ==
  ASSUME TypeOK, NEW t \in TaskId, TInv(t), tasks'[t] = Evicted[t],
         stream'[t] = stream[t], delivered'[t] = delivered[t], acked'[t] = acked[t]
  PROVE  TInv(t)'
  <1>1. CASE StaleTask(t)
    BY <1>1, Demoted DEF Evicted, StaleTask, Queued
  <1>2. CASE ~StaleTask(t)
    BY <1>2, Untouched DEF Evicted
  <1> QED
    BY <1>1, <1>2

(* The creation of a task keeps the invariant of every task.               *)
LEMMA CreateInv ==
  ASSUME TypeOK, NEW t \in TaskId, TInv(t), NEW s \in TaskId, TInv(s), NEW u \in Users,
         Create(s, u),
         \/ stream' = [stream EXCEPT ![s] = "announced"]
         \/ UNCHANGED stream
  PROVE  TInv(t)'
  <1>1. CASE t # s
    <2>1. tasks'[t] = Evicted[t] /\ stream'[t] = stream[t]
      BY <1>1 DEF TypeOK, Create, Evicted
    <2> QED
      BY <2>1, EvictedInv DEF Create
  <1>2. CASE t = s
    <2>1. tasks'[t] = TaskAt("queued", u)
      BY <1>2 DEF Create, Evicted
    <2>2. stream'[t] \in {"none", "announced"}
      BY <1>2 DEF TypeOK, TInv, Fresh, Create
    <2>3. acked'[t] = None /\ delivered'[t] = None
      BY <1>2 DEF TInv, Fresh, Create
    <2> QED
      BY <2>1, <2>2, <2>3, ApprovalAssumption
         DEF TInv, TaskAt, Fresh, ResultIsAck, Open, Woken, Verdict, Verdicts, Decisions
  <1> QED
    BY <1>1, <1>2

(* However a wait starts or ends, the invariant holds of its task.         *)
LEMMA WaitInv ==
  ASSUME TypeOK, NEW t \in TaskId, TInv(t), WaitStep(t)
  PROVE  TInv(t)'
  <1> USE ApprovalAssumption
      DEF TInv, Fresh, ResultIsAck, Open, Woken, Verdict, Verdicts, Decisions
  <1>1. CASE WaitNotFound(t)
    BY <1>1 DEF TypeOK, ApprovalTask, WaitNotFound, Deliver, Queued
  <1>2. CASE WaitDecided(t)
    BY <1>2 DEF TypeOK, ApprovalTask, WaitDecided, Deliver, Queued
  <1>3. CASE WaitBegin(t)
    BY <1>3 DEF TypeOK, ApprovalTask, WaitBegin, Queued
  <1>4. CASE Wake(t)
    BY <1>4 DEF TypeOK, ApprovalTask, Wake, Deliver
  <1>5. CASE TimeOut(t)
    BY <1>5 DEF TypeOK, ApprovalTask, TimeOut, Deliver
  <1>6. CASE Cancel(t)
    BY <1>6 DEF TypeOK, ApprovalTask, Cancel
  <1>7. CASE Drop(t)
    BY <1>7 DEF TypeOK, ApprovalTask, Drop
  <1> QED
    BY <1>1, <1>2, <1>3, <1>4, <1>5, <1>6, <1>7 DEF WaitStep

(* A decision keeps the invariant of its task.                             *)
LEMMA DecideInv ==
  ASSUME TypeOK, NEW t \in TaskId, TInv(t), NEW u \in Users, NEW d \in Decisions,
         Decide(t, u, d)
  PROVE  TInv(t)'
  BY ApprovalAssumption
     DEF TypeOK, ApprovalTask, Decide, Decided, Queued,
         TInv, Fresh, ResultIsAck, Open, Woken, Verdict, Verdicts, Decisions

(* The invariant is inductive.                                             *)
LEMMA NextInv == TypeOK /\ IInv /\ [Next]_vars => IInv'
  <1> SUFFICES ASSUME TypeOK, IInv, [Next]_vars, NEW t \in TaskId
               PROVE  TInv(t)'
    BY DEF IInv
  <1>1. ASSUME NEW s \in TaskId, NEW u \in Users, ChatApproval(s, u) \/ TestApproval(s, u)
        PROVE  TInv(t)'
    BY <1>1, CreateInv DEF IInv, ChatApproval, TestApproval
  <1>2. ASSUME NEW s \in TaskId, WaitStep(s) PROVE TInv(t)'
    <2>1. CASE s = t
      BY <1>2, <2>1, WaitInv DEF IInv
    <2>2. CASE s # t
      <3>1. /\ tasks'[t] = tasks[t]
            /\ stream'[t] = stream[t]
            /\ delivered'[t] = delivered[t]
            /\ acked'[t] = acked[t]
        BY <1>2, <2>2 DEF TypeOK, WaitStep, WaitNotFound, WaitDecided, WaitBegin, Wake,
                          TimeOut, Cancel, Drop, Deliver
      <3> QED
        BY <3>1, Untouched DEF IInv
    <2> QED
      BY <2>1, <2>2
  <1>3. ASSUME NEW s \in TaskId, NEW u \in Users, NEW d \in Decisions, Decide(s, u, d)
        PROVE  TInv(t)'
    <2>1. CASE s = t
      BY <1>3, <2>1, DecideInv DEF IInv
    <2>2. CASE s # t
      BY <1>3, <2>2, Untouched DEF TypeOK, IInv, Decide
    <2> QED
      BY <2>1, <2>2
  <1>4. CASE Tick
    <2>1. /\ tasks'[t].place = tasks[t].place
          /\ tasks'[t].result = tasks[t].result
          /\ tasks'[t].detached = tasks[t].detached
          /\ tasks'[t].wake = tasks[t].wake
      BY <1>4 DEF TypeOK, ApprovalTask, Tick
    <2> QED
      BY <1>4, <2>1 DEF IInv, Tick, TInv, Fresh, ResultIsAck, Open, Woken, Verdict
  <1>5. CASE ReaperPass
    BY <1>5, EvictedInv DEF IInv, ReaperPass
  <1>6. CASE Restart
    <2>1. CASE Queued(t)
      BY <1>6, <2>1, Demoted DEF TypeOK, IInv, Restart, Queued
    <2>2. CASE ~Queued(t)
      BY <1>6, <2>2 DEF TypeOK, ApprovalTask, IInv, Restart,
                        TInv, Fresh, ResultIsAck, Open, Woken, Verdict
    <2> QED
      BY <2>1, <2>2
  <1>7. CASE UNCHANGED vars
    BY <1>7, Untouched DEF IInv, vars
  <1> QED
    BY <1>1, <1>2, <1>3, <1>4, <1>5, <1>6, <1>7 DEF Next

(* Types and the invariant hold in every state.                            *)
LEMMA Invariance == Spec => [](TypeOK /\ IInv)
  <1>1. Init => TypeOK /\ IInv
    BY InitType, InitInv
  <1>2. TypeOK /\ IInv /\ [Next]_vars => (TypeOK /\ IInv)'
    BY NextType, NextInv
  <1> QED
    BY <1>1, <1>2, PTL DEF Spec

(* A decision handed to a stream is the last one that was acknowledged.    *)
THEOREM DeliveredCorrect == Spec => []DeliveredIsLastAcked
  <1>1. IInv => DeliveredIsLastAcked
    BY DEF IInv, TInv, Verdict, DeliveredIsLastAcked
  <1> QED
    BY <1>1, Invariance, PTL

(* The pending list offers only tasks without an answer.                   *)
THEOREM PendingCorrect == Spec => []PendingIsUnanswered
  <1>1. TypeOK /\ IInv => PendingIsUnanswered
    BY ApprovalAssumption
       DEF TypeOK, IInv, TInv, ResultIsAck, Verdict, PendingIsUnanswered, Pending, Queued,
           Verdicts, Decisions
  <1> QED
    BY <1>1, Invariance, PTL

-----------------------------------------------------------------------------
(* The contract                                                            *)


(* The initial state is one of the contract.                               *)
LEMMA InitContract == Init => Contract!Init
  <1> SUFFICES ASSUME Init PROVE Contract!Init
    OBVIOUS
  <1>1. ASSUME NEW t \in TaskId PROVE OutcomeOf(t) = None
    BY ApprovalAssumption DEF Init, OutcomeOf, TaskAt, Verdicts, Decisions
  <1> QED
    BY <1>1 DEF Init, Outcome, Contract!Init

(* The outcome of a task changes only with its flag or its verdict.        *)
LEMMA SameOutcomeOf ==
  ASSUME NEW t, tasks'[t].detached <=> tasks[t].detached, delivered'[t] = delivered[t]
  PROVE  OutcomeOf(t)' = OutcomeOf(t)
  BY DEF OutcomeOf

(* A task that keeps its result and its place keeps its outcome.           *)
LEMMA SameOutcome ==
  ASSUME \A t \in TaskId : tasks'[t].detached <=> tasks[t].detached,
         UNCHANGED <<delivered, acked>>
  PROVE  UNCHANGED <<acked, Outcome>>
  <1>1. \A t \in TaskId : OutcomeOf(t)' = OutcomeOf(t)
    BY SameOutcomeOf
  <1> QED
    BY <1>1 DEF Outcome

(* A step that changes the outcome of one task, seen in Outcome.           *)
LEMMA OneOutcome ==
  ASSUME NEW s \in TaskId, NEW v, OutcomeOf(s)' = v,
         \A t \in TaskId \ {s} : OutcomeOf(t)' = OutcomeOf(t)
  PROVE  Outcome' = [Outcome EXCEPT ![s] = v]
  BY DEF Outcome

(* Eviction does not mark a task as detached.                              *)
LEMMA EvictedDetached ==
  ASSUME TypeOK, NEW t \in TaskId
  PROVE  Evicted[t].detached = tasks[t].detached
  BY DEF TypeOK, ApprovalTask, Evicted

(* The steps of a wait are steps of the contract.                          *)
LEMMA WaitContract ==
  ASSUME TypeOK, IInv, NEW s \in TaskId, WaitStep(s)
  PROVE  [Contract!Next]_<<acked, Outcome>>
  <1> USE ApprovalAssumption DEF Verdicts, Decisions
  <1>1. \A t \in TaskId \ {s} : OutcomeOf(t)' = OutcomeOf(t)
    <2>1. \A t \in TaskId \ {s} : tasks'[t] = tasks[t] /\ delivered'[t] = delivered[t]
      BY DEF TypeOK, WaitStep, WaitNotFound, WaitDecided, WaitBegin, Wake,
             TimeOut, Cancel, Drop, Deliver
    <2> QED
      BY <2>1, SameOutcomeOf
  <1>2. acked' = acked
    BY DEF WaitStep, WaitNotFound, WaitDecided, WaitBegin, Wake, TimeOut, Cancel, Drop
  <1>3. stream[s] \in {"announced", "waiting"} /\ TInv(s)
    BY DEF IInv, WaitStep, WaitNotFound, WaitDecided, WaitBegin, Wake, TimeOut, Cancel, Drop
  <1>4. Outcome[s] = None /\ delivered[s] = None /\ ~tasks[s].detached
    BY <1>3 DEF TInv, Open, Outcome, OutcomeOf
  <1>5. CASE WaitNotFound(s) \/ TimeOut(s)
    <2>1. OutcomeOf(s)' = "lapsed"
      BY <1>4, <1>5 DEF TypeOK, ApprovalTask, WaitNotFound, TimeOut, Deliver, OutcomeOf
    <2>2. Contract!Close(s, "lapsed")
      BY <1>1, <1>2, <1>4, <2>1, OneOutcome DEF Contract!Close
    <2> QED
      BY <2>2 DEF Contract!Next
  <1>6. CASE WaitDecided(s) \/ Wake(s)
    <2>1. tasks[s].result = acked[s] /\ acked[s] \in Decisions
      BY <1>3, <1>4, <1>6 DEF TypeOK, TInv, ResultIsAck, Woken, WaitDecided, Wake
    <2>2. OutcomeOf(s)' = acked[s]
      BY <1>4, <1>6, <2>1 DEF TypeOK, ApprovalTask, WaitDecided, Wake, Deliver, OutcomeOf
    <2>3. Contract!Settle(s)
      BY <1>1, <1>2, <1>4, <2>1, <2>2, OneOutcome DEF Contract!Settle, Contract!Answers
    <2> QED
      BY <2>3 DEF Contract!Next
  <1>7. CASE Cancel(s)
    <2>1. OutcomeOf(s)' = "abandoned"
      BY <1>7 DEF TypeOK, ApprovalTask, Cancel, OutcomeOf
    <2>2. Contract!Close(s, "abandoned")
      BY <1>1, <1>2, <1>4, <2>1, OneOutcome DEF Contract!Close
    <2> QED
      BY <2>2 DEF Contract!Next
  <1>8. CASE WaitBegin(s) \/ Drop(s)
    <2>1. OutcomeOf(s)' = OutcomeOf(s)
      <3>1. tasks'[s].detached <=> tasks[s].detached
        <4>1. CASE WaitBegin(s)
          <5>1. tasks'[s] = [tasks[s] EXCEPT !.wake = "clear", !.waited = 0]
            BY <4>1 DEF TypeOK, WaitBegin
          <5> QED
            BY <5>1 DEF TypeOK, ApprovalTask
        <4>2. CASE Drop(s)
          BY <4>2 DEF Drop
        <4> QED
          BY <1>8, <4>1, <4>2
      <3> QED
        BY <1>8, <3>1, SameOutcomeOf DEF WaitBegin, Drop
    <2>2. \A t \in TaskId : OutcomeOf(t)' = OutcomeOf(t)
      BY <1>1, <2>1
    <2> QED
      BY <1>2, <2>2 DEF Outcome
  <1> QED
    BY <1>5, <1>6, <1>7, <1>8 DEF WaitStep

(* Every step is one of the contract or a stutter.                         *)
LEMMA StepContract ==
  TypeOK /\ IInv /\ [Next]_vars => [Contract!Next]_<<acked, Outcome>>
  <1> SUFFICES ASSUME TypeOK, IInv, [Next]_vars
               PROVE  [Contract!Next]_<<acked, Outcome>>
    OBVIOUS
  <1>1. ASSUME NEW s \in TaskId, NEW u \in Users, ChatApproval(s, u) \/ TestApproval(s, u)
        PROVE  UNCHANGED <<acked, Outcome>>
    <2>1. ~tasks[s].detached
      BY <1>1 DEF IInv, TInv, Fresh, ChatApproval, TestApproval, Create
    <2>2. ASSUME NEW t \in TaskId PROVE tasks'[t].detached <=> tasks[t].detached
      <3>1. CASE t = s
        BY <1>1, <2>1, <3>1 DEF ChatApproval, TestApproval, Create, Evicted, TaskAt
      <3>2. CASE t # s
        <4>1. tasks'[t] = Evicted[t]
          BY <1>1, <3>2 DEF ChatApproval, TestApproval, Create, Evicted
        <4> QED
          BY <4>1, EvictedDetached
      <3> QED
        BY <3>1, <3>2
    <2> QED
      BY <1>1, <2>2, SameOutcome DEF ChatApproval, TestApproval, Create
  <1>2. ASSUME NEW s \in TaskId, WaitStep(s)
        PROVE  [Contract!Next]_<<acked, Outcome>>
    BY <1>2, WaitContract
  <1>3. ASSUME NEW s \in TaskId, NEW u \in Users, NEW d \in Decisions, Decide(s, u, d)
        PROVE  Contract!Next
    <2>1. Outcome[s] \in {None, "lapsed"}
      BY <1>3, ApprovalAssumption
         DEF TypeOK, IInv, TInv, Verdict, Decide, Queued, Outcome, OutcomeOf, Verdicts
    <2>2. \A t \in TaskId : tasks'[t].detached <=> tasks[t].detached
      BY <1>3 DEF TypeOK, ApprovalTask, Decide, Decided
    <2>3. Outcome' = Outcome
      <3>1. \A t \in TaskId : OutcomeOf(t)' = OutcomeOf(t)
        BY <1>3, <2>2, SameOutcomeOf DEF Decide
      <3> QED
        BY <3>1 DEF Outcome
    <2>4. Contract!Answer(s, d)
      BY <1>3, <2>1, <2>3 DEF Decide, Contract!Answer
    <2> QED
      BY <2>4 DEF Contract!Next, Contract!Answers, Decisions
  <1>4. CASE Tick \/ ReaperPass \/ Restart \/ UNCHANGED vars
    <2>1. \A t \in TaskId : tasks'[t].detached <=> tasks[t].detached
      <3>1. CASE Tick
        BY <3>1 DEF TypeOK, ApprovalTask, Tick
      <3>2. CASE ReaperPass
        BY <3>2, EvictedDetached DEF ReaperPass
      <3>3. CASE Restart
        BY <3>3 DEF TypeOK, ApprovalTask, Restart
      <3> QED
        BY <1>4, <3>1, <3>2, <3>3 DEF vars
    <2> QED
      BY <1>4, <2>1, SameOutcome DEF Tick, ReaperPass, Restart, vars
  <1> QED
    BY <1>1, <1>2, <1>3, <1>4 DEF Next

(* The queue implements the contract.                                      *)
THEOREM ContractKept == Spec => KeepsContract
  <1>1. Init => Contract!Init
    BY InitContract
  <1>2. TypeOK /\ IInv /\ [Next]_vars => [Contract!Next]_<<acked, Outcome>>
    BY StepContract
  <1> QED
    BY <1>1, <1>2, Invariance, PTL DEF Spec, KeepsContract, Contract!Spec
=============================================================================
