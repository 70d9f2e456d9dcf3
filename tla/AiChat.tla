------------------------------- MODULE AiChat -------------------------------
(***************************************************************************)
(* The product assistant (routers/ai.py): POST /ai/chat stores the user's  *)
(* message, then streams the answer of a model that may call tools.  The   *)
(* stream runs on a database session of its own on the event loop, awaits  *)
(* the model between steps, and is cut off when the browser leaves.  What  *)
(* it leaves in ai_messages is replayed to the model on the next turn.     *)
(*                                                                         *)
(* A message is its role, the calls it makes (assistant) or the call it    *)
(* answers (tool); the text and the tools' results are not told apart,     *)
(* except whether products were found.  Rows flushed and not committed     *)
(* hold SQLite's one writer lock: `lock'.                                  *)
(***************************************************************************)
EXTENDS Naturals, Sequences, FiniteSets, FiniteSetsExt, SequencesExt, Functions

CONSTANTS
  Turn,      \* POST /ai/chat requests
  Window,    \* MAX_CONTEXT, the rows of history that are replayed
  MaxCalls,  \* bound: tool calls in one assistant message
  MaxConv,   \* bound: conversation ids
  Nothing    \* no turn, no call

ChatAssumption ==
    /\ Window \in Nat /\ MaxCalls \in Nat /\ MaxConv \in Nat
    /\ Nothing \notin Turn

VARIABLES
  convs,     \* live conversation id -> [born, log]: ai_conversations, ai_messages
  born,      \* how many conversations were created; distinguishes a reused id
  turn,      \* the requests
  lock       \* the turn whose session holds the writer lock, or Nothing
chatVars == <<convs, born, turn, lock>>

(* Calls recovered from a model's text are numbered anew in each message,  *)
(* so an id says nothing beyond the message it stands in.                  *)
Call == 1..MaxCalls

Message(t, role, calls, call) == [turn |-> t, role |-> role, calls |-> calls, call |-> call]
IsReply(m) == m.role = "assistant" /\ m.calls = {}

IdleTurn == [pc |-> "idle", conv |-> 0, born |-> 0, history |-> <<>>, torn |-> FALSE,
             own |-> <<>>, calls |-> {}, left |-> 0, found |-> FALSE, saved |-> TRUE,
             logged |-> "none"]

ChatInit == /\ convs = <<>> /\ born = 0
            /\ turn = [t \in Turn |-> IdleTurn]
            /\ lock = Nothing

-----------------------------------------------------------------------------
(* get_messages_for_context: the last Window rows, without tool rows that  *)
(* answer nothing, assistants whose calls were left open, and what comes   *)
(* before the first user message.                                          *)

Recent(log) == SubSeq(log, Len(log) - Min({Window, Len(log)}) + 1, Len(log))

KeepOpen(acc) == acc   \* a slip of DropOpen: unanswered calls stay
DropOpen(acc) == IF acc.open = {} THEN acc
                 ELSE [out |-> RemoveAt(acc.out, acc.at), open |-> {}, at |-> 0]

Absorb(acc, m) ==
  IF m.role = "tool"
  THEN IF m.call \in acc.open
       THEN [acc EXCEPT !.open = @ \ {m.call}, !.out = Append(@, m)]
       ELSE acc
  ELSE LET a == DropOpen(acc)
       IN [out |-> Append(a.out, m), open |-> m.calls, at |-> Len(a.out) + 1]

FromFirstUser(s) ==
  LET users == {i \in DOMAIN s : s[i].role = "user"}
  IN IF users = {} THEN <<>> ELSE SubSeq(s, Min(users), Len(s))

Replayed(log) ==
  FromFirstUser(DropOpen(FoldLeft(Absorb, [out |-> <<>>, open |-> {}, at |-> 0],
                                  Recent(log))).out)

-----------------------------------------------------------------------------
(* Saving.  A row written to a conversation that is gone violates its      *)
(* foreign key; while another session holds the writer lock the loop waits *)
(* for it in vain and the statement fails.                                 *)

CanSave(t) == lock \in {Nothing, t} /\ turn[t].conv \in DOMAIN convs
SaveRows(t, more) ==
  /\ convs' = [convs EXCEPT ![turn[t].conv].log = @ \o turn[t].own \o more]
  /\ lock' = Nothing

(* A failed flush leaves a session that accepts nothing before a rollback. *)
Break(t) == /\ ~CanSave(t)
            /\ turn' = [turn EXCEPT ![t].pc = "broken"]
            /\ UNCHANGED <<convs, born, lock>>

Reply(t) == \/ /\ CanSave(t)
               /\ SaveRows(t, <<Message(t, "assistant", {}, Nothing)>>)
               /\ turn' = [turn EXCEPT ![t].pc = "streaming", ![t].own = <<>>]
               /\ UNCHANGED born
            \/ Break(t)

-----------------------------------------------------------------------------
(* POST /ai/chat up to the stream: an own live conversation or a new one,  *)
(* then its history and the user's message.                                *)

FreshId == IF DOMAIN convs = {} THEN 1 ELSE Max(DOMAIN convs) + 1
Conversation(c) ==   \* get_or_create_conversation
  IF c \in DOMAIN convs THEN convs
  ELSE [d \in DOMAIN convs \cup {FreshId} |->
          IF d = FreshId THEN [born |-> born + 1, log |-> <<>>] ELSE convs[d]]

PartlyAnswered(s) ==   \* some calls of an assistant have their rows, others not
  \E i \in DOMAIN s :
    LET answered == {s[j].call : j \in {k \in DOMAIN s : k > i /\ s[k].role = "tool"
                                          /\ s[k].turn = s[i].turn
                                          /\ \A l \in i + 1..k : s[l].role = "tool"}}
    IN answered \cap s[i].calls \notin {{}, s[i].calls}

(* get_or_create_conversation commits a new conversation.                  *)
BeginTurn(t, c) ==
  /\ turn[t].pc = "idle" /\ lock = Nothing
  /\ c \in DOMAIN convs \/ FreshId <= MaxConv
  /\ LET id == IF c \in DOMAIN convs THEN c ELSE FreshId
         now == Conversation(c)
     IN /\ turn' = [turn EXCEPT ![t] = [IdleTurn EXCEPT !.pc = "opened", !.conv = id,
                                                       !.born = now[id].born]]
        /\ convs' = now
        /\ born' = Max({born} \cup {now[d].born : d \in DOMAIN now})
        /\ UNCHANGED lock

Refuse(t) == turn' = [turn EXCEPT ![t] = [IdleTurn EXCEPT !.pc = "refused"]]

(* The history is read and the message stored, unless the conversation was *)
(* deleted meanwhile: its row cannot be refreshed, or the message violates *)
(* its foreign key (500).                                                  *)
Post(t) ==
  /\ turn[t].pc = "opened"
  /\ LET id == turn[t].conv
     IN \/ /\ id \in DOMAIN convs
           /\ turn' = [turn EXCEPT ![t].pc = "extract", ![t].history = Replayed(convs[id].log),
                                   ![t].torn = PartlyAnswered(Recent(convs[id].log))]
           /\ convs' = [convs EXCEPT ![id].log = Append(@, Message(t, "user", {}, Nothing))]
        \/ id \notin DOMAIN convs /\ Refuse(t) /\ UNCHANGED convs
  /\ UNCHANGED <<born, lock>>

(* Every commit of the request fails while a turn holds the lock: the turn *)
(* needs the event loop that this request blocks.                          *)
Refused(t) == /\ turn[t].pc = "idle" /\ lock # Nothing
              /\ Refuse(t)
              /\ UNCHANGED <<convs, born, lock>>

(* The browser leaves before the response asks generate() for anything: a  *)
(* generator that never ran has no finally clause to run.                  *)
NeverStarted(t) == /\ turn[t].pc = "extract"
                   /\ turn' = [turn EXCEPT ![t] = [IdleTurn EXCEPT !.pc = "unstarted"]]
                   /\ UNCHANGED <<convs, born, lock>>

(* run_mock_agent: a keyword search in place of a model.  Its answer is    *)
(* typed out before it is saved, where the model's is saved before.        *)
MockAgent(t) == /\ turn' = [turn EXCEPT ![t].pc = "typing"]
                /\ UNCHANGED <<convs, born, lock>>

MockReply(t) == turn[t].pc = "typing" /\ Reply(t)

(* _get_done_events: the products that were shown are the answer.          *)
ShowProducts(t) == Reply(t)

(* The chat model is given n turns.                                        *)
Ask(t, n) == /\ turn' = [turn EXCEPT ![t].pc = "chat", ![t].left = n]
             /\ UNCHANGED <<convs, born, lock>>

(* run_agent, round 0, which needs a key.  A search with the keywords that *)
(* the model extracted leaves the chat model one turn when it finds        *)
(* nothing; groups of products of which none is live leave it both, and so *)
(* does a failure.                                                         *)
Searched(t) == ShowProducts(t) \/ Ask(t, 1)
Grouped(t) == ShowProducts(t) \/ Ask(t, 2)

Extract(t) == turn[t].pc = "extract" /\ (MockAgent(t) \/ Searched(t) \/ Grouped(t))

(* The chat model calls tools: its message is flushed and takes the lock.  *)
CallTools(t, calls) ==
  \/ /\ CanSave(t)
     /\ lock' = t
     /\ turn' = [turn EXCEPT ![t].pc = "tools", ![t].calls = calls,
                   ![t].own = Append(@, Message(t, "assistant", calls, Nothing))]
     /\ UNCHANGED <<convs, born>>
  \/ Break(t)

(* It answers; it fails, and what was found or the mock agent answers; or  *)
(* it calls tools.                                                         *)
Unreachable(t) == IF turn[t].found THEN ShowProducts(t) ELSE MockAgent(t)

Chat(t) ==
  /\ turn[t].pc = "chat"
  /\ \/ Reply(t) \/ Unreachable(t)
     \/ \E calls \in (SUBSET Call) \ {{}} : CallTools(t, calls)

(* One tool at a time; an event is yielded before each.                    *)
RunTool(t) ==
  /\ turn[t].pc = "tools"
  /\ LET call == Min(turn[t].calls)
         rest == turn[t].calls \ {call}
         left == turn[t].left - 1
     IN \E found \in BOOLEAN :
          turn' = [turn EXCEPT ![t].calls = rest, ![t].found = @ \/ found,
                     ![t].own = Append(@, Message(t, "tool", {}, call)),
                     ![t].left = IF rest = {} THEN left ELSE @,
                     ![t].pc = CASE rest # {} -> "tools"
                                 [] left > 0 -> "chat"
                                 [] OTHER -> "final"]
  /\ UNCHANGED <<convs, born, lock>>

(* After the last turn the model is asked without tools.  If that fails    *)
(* and products were found, the answer is streamed and not saved.          *)
Final(t) ==
  /\ turn[t].pc = "final"
  /\ \/ Reply(t)
     \/ /\ turn[t].found
        /\ turn' = [turn EXCEPT ![t].pc = "streaming", ![t].saved = FALSE]
        /\ UNCHANGED <<convs, born, lock>>

-----------------------------------------------------------------------------
(* The end of generate(): the usage row, which is lost when the session    *)
(* cannot commit it.                                                       *)

Done(t, saved, ok) == turn' = [turn EXCEPT ![t] =
  [IdleTurn EXCEPT !.pc = "done", !.conv = turn[t].conv, !.born = turn[t].born, !.saved = saved,
                   !.logged = IF lock \in {Nothing, t} THEN ok ELSE "none"]]

(* The loop ended: the conversation's time is set, which also commits what *)
(* was flushed; after a commit that fails the usage row fails too.         *)
Finish(t) ==
  /\ turn[t].pc = "streaming"
  /\ Done(t, turn[t].saved, "ok")
  /\ IF CanSave(t) THEN SaveRows(t, <<>>) ELSE UNCHANGED <<convs, lock>>
  /\ UNCHANGED born

(* The finally clause of a stream cut off: the placeholder is added to     *)
(* what the session has flushed, and both are committed.                   *)
NoPlaceholder(t, ok) ==   \* a slip of Placeholder: only the usage is logged
  /\ Done(t, TRUE, ok)
  /\ IF CanSave(t) THEN SaveRows(t, <<>>) ELSE UNCHANGED <<convs, lock>>
Placeholder(t, ok) ==
  IF CanSave(t)
  THEN SaveRows(t, <<Message(t, "assistant", {}, Nothing)>>) /\ Done(t, TRUE, ok)
  ELSE Done(t, FALSE, ok) /\ UNCHANGED <<convs, lock>>

(* The browser leaves: at an await the stream is cancelled, which is logged *)
(* as a failure, like an answer of the model that is malformed; between two *)
(* events the generator is closed, logged as a success.                    *)
Interrupt(t) ==
  /\ \/ turn[t].pc \in {"extract", "chat", "tools", "final"} /\ Placeholder(t, "failed")
     \/ /\ turn[t].pc \in {"extract", "chat", "tools", "final", "typing", "streaming"}
        /\ Placeholder(t, "ok")
  /\ UNCHANGED born

(* The finally clause of a broken session: the placeholder is refused for  *)
(* want of a rollback, the usage row is written after it.                  *)
Close(t) == /\ turn[t].pc = "broken"
            /\ Done(t, FALSE, "failed")
            /\ UNCHANGED <<convs, born, lock>>

(* DELETE /ai/conversations: its messages go with it, in a worker thread   *)
(* that waits for the lock.                                                *)
DeleteConversation(c) ==
  /\ c \in DOMAIN convs /\ lock = Nothing
  /\ convs' = Restrict(convs, DOMAIN convs \ {c})
  /\ UNCHANGED <<born, turn, lock>>

(* The request runs on the event loop without an await up to its stream:   *)
(* of the others, only a worker thread takes a step meanwhile.             *)
OnLoop(t) == \A u \in Turn \ {t} : turn[u].pc # "opened"

ChatNext ==
  \/ \E t \in Turn : /\ OnLoop(t)
                     /\ \/ \E c \in 0..MaxConv : BeginTurn(t, c)
                        \/ Post(t) \/ Refused(t) \/ NeverStarted(t)
                        \/ Extract(t) \/ MockReply(t) \/ Chat(t) \/ RunTool(t)
                        \/ Final(t) \/ Finish(t) \/ Interrupt(t) \/ Close(t)
  \/ \E c \in DOMAIN convs : DeleteConversation(c)

ChatSpec == ChatInit /\ [][ChatNext]_chatVars
-----------------------------------------------------------------------------
TurnStates == {"idle", "opened", "refused", "unstarted", "extract", "typing", "chat", "tools",
               "final", "streaming", "broken", "done"}
ChatRow == [turn : Turn, role : {"user", "assistant", "tool"}, calls : SUBSET Call,
            call : Call \cup {Nothing}]

(* What a turn carries.                                                    *)
ChatTurn == [pc : TurnStates, conv : 0..MaxConv, born : Nat, history : Seq(ChatRow),
             torn : BOOLEAN, own : Seq(ChatRow), calls : SUBSET Call, left : 0..2,
             found : BOOLEAN, saved : BOOLEAN, logged : {"none", "ok", "failed"}]

(* Conversations hold messages of turns; only a turn with flushed rows     *)
(* holds the lock.                                                         *)
ChatTypeOK == /\ born \in Nat /\ lock \in Turn \cup {Nothing}
              /\ convs \in [DOMAIN convs -> [born : 1..born, log : Seq(ChatRow)]]
              /\ DOMAIN convs \subseteq 1..MaxConv
              /\ turn \in [Turn -> ChatTurn]
              /\ \A t \in Turn : (lock = t) <=> (turn[t].own # <<>>)

(* What the model's provider accepts: the history starts with the user, a  *)
(* tool message directly follows the message whose call it answers, and    *)
(* every call has its answer.                                              *)
Valid(h) ==
  LET Answers(i) == {k \in i + 1..Len(h) : \A l \in i + 1..k : h[l].role = "tool"}
  IN /\ h = <<>> \/ Head(h).role = "user"
     /\ \A i \in DOMAIN h :
          /\ h[i].role = "tool" =>
               \E j \in 1..i - 1 : i \in Answers(j) /\ h[i].call \in h[j].calls
          /\ h[i].calls \subseteq {h[k].call : k \in Answers(i)}

(* get_messages_for_context's docstring: "the sequence must stay valid".   *)
(* The history replayed to the model is one its provider accepts.          *)
ReplayIsValid == \A t \in Turn : Valid(turn[t].history)

(* The same wherever no message in the window has only some of its calls   *)
(* answered: cut windows, turns of two browsers in one conversation,       *)
(* deleted conversations and reused ids do not spoil it.                   *)
UntornReplayIsValid == \A t \in Turn : turn[t].torn \/ Valid(turn[t].history)

Replies(t) == {i \in DOMAIN convs[turn[t].conv].log :
                 LET m == convs[turn[t].conv].log[i] IN m.turn = t /\ IsReply(m)}
InOwnConversation(t) == /\ turn[t].conv \in DOMAIN convs
                        /\ convs[turn[t].conv].born = turn[t].born

(* The comment on _INTERRUPTED_REPLY: user and assistant messages stay     *)
(* paired, so a turn that ended has one reply.                             *)
TurnIsPaired == \A t \in Turn : turn[t].pc = "done" /\ InOwnConversation(t)
                                  => Cardinality(Replies(t)) = 1

(* A turn whose stream was started and ended without a database failure,   *)
(* and without the unsaved fallback of the last call, left at least one    *)
(* reply: however the browser cut it off, the next turn does not find two  *)
(* user messages in a row.                                                 *)
CutTurnIsAnswered == \A t \in Turn : turn[t].pc = "done" /\ turn[t].saved /\ InOwnConversation(t)
                                       => Replies(t) # {}
=============================================================================
