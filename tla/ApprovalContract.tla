-------------------------- MODULE ApprovalContract --------------------------
(***************************************************************************)
(* What the approval queue promises for each task, whatever the order in   *)
(* which people, streams, timers and the reaper get there.                 *)
(*                                                                         *)
(* A task may be answered again until its outcome is known; the outcome is *)
(* the last answer, or none came in time (lapsed), or the stream that asked*)
(* went away (abandoned).  An outcome is never revised.  An approval whose *)
(* answer was used, or whose stream went away while it waited, takes no    *)
(* further answer; a lapsed one still does, until the reaper removes it.   *)
(***************************************************************************)
CONSTANTS TaskId, None

VARIABLES answer, outcome

Answers == {"approved", "rejected"}

Init ==
    /\ answer  = [t \in TaskId |-> None]
    /\ outcome = [t \in TaskId |-> None]

Answer(t, d) ==
    /\ outcome[t] \in {None, "lapsed"}
    /\ answer' = [answer EXCEPT ![t] = d]
    /\ UNCHANGED outcome

Settle(t) ==
    /\ outcome[t] = None
    /\ answer[t] \in Answers
    /\ outcome' = [outcome EXCEPT ![t] = answer[t]]
    /\ UNCHANGED answer

Close(t, how) ==
    /\ outcome[t] = None
    /\ outcome' = [outcome EXCEPT ![t] = how]
    /\ UNCHANGED answer

Next ==
    \E t \in TaskId :
        \/ \E d \in Answers : Answer(t, d)
        \/ Settle(t)
        \/ \E how \in {"lapsed", "abandoned"} : Close(t, how)

Spec == Init /\ [][Next]_<<answer, outcome>>
=============================================================================
