----------------------------- MODULE AgentStream ----------------------------
(***************************************************************************)
(* POST /agent/chat (routers/agent.py): the stream of the Hermes agent is  *)
(* relayed to the browser and its usage logged when it ends, however it    *)
(* ends.  From the cancelled stream alone the server cannot tell a user    *)
(* who pressed stop from a lost connection, so the browser first posts a   *)
(* mark (POST /agent/stop), kept in memory for a while, then aborts.       *)
(***************************************************************************)
EXTENDS Naturals, FiniteSets, Functions

CONSTANTS
  Stream,      \* conversations, each with the id its browser made up
  Account,     \* users
  MarkTTL,     \* _STOP_MARK_TTL
  Horizon      \* bound: clock ticks

(* The lifetime of a mark and the end of time are instants.                *)
StreamAssumption == MarkTTL \in Nat /\ Horizon \in Nat

VARIABLES
  flow,        \* stream -> what the server holds of it
  tab,         \* stream -> what its browser did; history: when it posted the mark that stands
  marks,       \* _stop_marks: stream id -> [at, user]
  tick         \* the clock
streamVars == <<flow, tab, marks, tick>>

NoRow == [ok |-> FALSE, error |-> "none"]

StreamInit == /\ flow \in [Stream -> [pc : {"new"}, user : Account, usage : {FALSE}, row : {NoRow},
                                      suggested : {"no"}]]
              /\ tab = [s \in Stream |-> [at |-> "chat", posted |-> 0]]
              /\ marks = <<>>
              /\ tick = 0

StreamTick == tick < Horizon /\ tick' = tick + 1 /\ UNCHANGED <<flow, tab, marks>>

-----------------------------------------------------------------------------
(* The server.                                                             *)

(* The row that _log_agent_usage writes with a session of its own, unless  *)
(* the database refuses it, which is only noted.                           *)
Log(s, pc, ok, error) ==
  \E row \in {NoRow, [ok |-> ok, error |-> error]} :
    flow' = [flow EXCEPT ![s].pc = pc, ![s].row = row]

(* agent_chat: straight to Hermes, or by the approval card of the self-    *)
(* test, whose refusal ends the stream before Hermes is called.            *)
Chat(s) == /\ flow[s].pc = "new" /\ tab[s].at = "chat"
           /\ \E pc \in {"approval", "open"} : flow' = [flow EXCEPT ![s].pc = pc]
           /\ UNCHANGED <<tab, marks, tick>>

Decided(s) == /\ flow[s].pc = "approval" /\ tab[s].at # "gone"
              /\ \E pc \in {"open", "refused"} : flow' = [flow EXCEPT ![s].pc = pc]
              /\ UNCHANGED <<tab, marks, tick>>

(* One line of Hermes' stream is yielded; the usage chunk comes late.      *)
Relay(s) == /\ flow[s].pc \in {"open", "sending"}
            /\ \E pc \in {"open", "sending"}, usage \in {flow[s].usage, TRUE} :
                 /\ flow' = [flow EXCEPT ![s].pc = pc, ![s].usage = usage]
                 /\ flow' # flow
            /\ UNCHANGED <<tab, marks, tick>>

(* _call_hermes ends: the last line, or a refusal, an answer that is not a *)
(* stream, a lost connection, which it turns into an error event and       *)
(* [DONE]; the wrapper sees an end in either case.                         *)
End(s) == /\ flow[s].pc = "open"
          /\ Log(s, "ended", TRUE, "none")
          /\ UNCHANGED <<tab, marks, tick>>

(* The connection is cut.  While Hermes is awaited the stream is cancelled *)
(* and takes the mark; between two lines its generator is closed.          *)
Cancelled(s) ==
  LET marked == s \in DOMAIN marks /\ marks[s].user = flow[s].user
  IN /\ flow[s].pc = "open" /\ tab[s].at = "gone"
     /\ Log(s, "cut", FALSE, IF marked THEN "user stop" ELSE "disconnected")
     /\ marks' = Restrict(marks, DOMAIN marks \ {s})
     /\ UNCHANGED <<tab, tick>>

Closed(s) == /\ flow[s].pc = "sending" /\ tab[s].at = "gone"
             /\ Log(s, "cut", TRUE, "none")
             /\ UNCHANGED <<tab, marks, tick>>

(* _prune_stop_marks, then the new mark.                                   *)
NoneKept(s) == {}   \* a slip of Kept: the other streams' marks go too
Kept(s) == {r \in DOMAIN marks : marks[r].at + MarkTTL >= tick}

(* POST /agent/stop.                                                       *)
Stop(s) == /\ flow[s].pc \notin {"new", "ended"} /\ tab[s].at = "chat"
           /\ marks' = [r \in Kept(s) \cup {s} |->
                          IF r = s THEN [at |-> tick, user |-> flow[s].user] ELSE marks[r]]
           /\ tab' = [tab EXCEPT ![s] = [at |-> "stopping", posted |-> tick]]
           /\ UNCHANGED <<flow, tick>>

(* The stream id is the browser's word: another user who posts the same    *)
(* one overwrites the mark, and the stream's own no longer stands.         *)
StopOther(s, u) ==
  /\ u # flow[s].user
  /\ marks' = [r \in Kept(s) \cup {s} |->
                 IF r = s THEN [at |-> tick, user |-> u] ELSE marks[r]]
  /\ tab' = [tab EXCEPT ![s].posted = Horizon + 1]
  /\ UNCHANGED <<flow, tick>>

(* POST /agent/suggestions, after a stream that ended: three buttons       *)
(* within _SUGGESTION_TIMEOUT, or none.                                    *)
Suggest(s) == /\ flow[s].pc = "ended" /\ tab[s].at = "chat" /\ flow[s].suggested = "no"
              /\ \E answer \in {"some", "none"} : flow' = [flow EXCEPT ![s].suggested = answer]
              /\ UNCHANGED <<tab, marks, tick>>

-----------------------------------------------------------------------------
(* The browser (AgentView.vue): stopping aborts after the mark was posted; *)
(* the request of the mark may fail; a page closed posts nothing.          *)

Abort(s) == /\ tab[s].at = "stopping"
            /\ tab' = [tab EXCEPT ![s].at = "gone"]
            /\ UNCHANGED <<flow, marks, tick>>

Leave(s) == /\ flow[s].pc \notin {"new", "ended"} /\ tab[s].at = "chat"
            /\ tab' = [tab EXCEPT ![s].at = "gone", ![s].posted = Horizon + 1]
            /\ UNCHANGED <<flow, marks, tick>>

StreamNext == \/ StreamTick
              \/ \E s \in Stream : \/ Chat(s) \/ Decided(s) \/ Relay(s) \/ End(s) \/ Cancelled(s)
                                   \/ Closed(s) \/ Stop(s) \/ Suggest(s) \/ Abort(s) \/ Leave(s)
                                   \/ \E u \in Account : StopOther(s, u)

StreamSpec == StreamInit /\ [][StreamNext]_streamVars
-----------------------------------------------------------------------------
(* Marks are of known streams and users, rows say how a stream ended.      *)
Mark == [at : 0..Horizon, user : Account]
Tab  == [at : {"chat", "stopping", "gone"}, posted : 0..(Horizon + 1)]
Row  == [ok : BOOLEAN, error : {"none", "user stop", "disconnected"}]
Flow == [pc : {"new", "approval", "refused", "open", "sending", "ended", "cut"}, user : Account,
         usage : BOOLEAN, suggested : {"no", "some", "none"}, row : Row]

StreamTypeOK ==
  /\ tick \in 0..Horizon
  /\ DOMAIN marks \subseteq Stream /\ \A s \in DOMAIN marks : marks[s] \in Mark
  /\ tab \in [Stream -> Tab]
  /\ flow \in [Stream -> Flow]

(* The comment on _stop_marks: the mark is there to tell a stop from a lost *)
(* connection.  A stream cancelled while its mark stands and is young is   *)
(* booked as stopped by its user, and one without a mark of its own never  *)
(* is, whatever marks other streams, or other users under the same id,     *)
(* post, take and outlive meanwhile.                                       *)
StopIsBooked ==
  [][\A s \in Stream :
       flow[s].row = NoRow /\ flow'[s].row # NoRow /\ ~flow'[s].row.ok
         => LET stopped == tab[s].posted <= Horizon
            IN /\ stopped /\ tick <= tab[s].posted + MarkTTL => flow'[s].row.error = "user stop"
               /\ ~stopped => flow'[s].row.error = "disconnected"]_streamVars
=============================================================================
