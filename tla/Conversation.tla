---------------------------- MODULE Conversation ----------------------------
(***************************************************************************)
(* The messages an application keeps and sends again, longer by the turn.  *)
(* Every part has a number of its own that stands for its content; its     *)
(* kind says how an adapter must treat it.                                 *)
(***************************************************************************)
EXTENDS ResponseRules

CONSTANTS
  MaxMessages,     \* bound on the messages of the conversation
  MaxParts,        \* bound on the parts of all messages
  UserKinds,       \* kinds of the parts of a user or tool message
  AssistantKinds   \* kinds of the parts of an assistant message

ConversationAssumption == MaxMessages \in Nat /\ MaxParts \in Nat

VARIABLE messages

(* What may carry a cache breakpoint.                                      *)
Breakable == UserKinds \union {"text"}

PartCount(ms) == Len(FlattenSeq([i \in DOMAIN ms |-> ms[i].parts]))

Message(kind, parts, answers) == [kind |-> kind, parts |-> parts, answers |-> answers]

NewPart(kind, id, breakpoint) ==
  [kind |-> kind, id |-> id, cache_breakpoint |-> breakpoint, marked |-> FALSE]

PartLists(kinds) ==
  UNION {{[j \in 1..n |-> NewPart(f[j][1], PartCount(messages) + j, f[j][2])] :
            f \in [1..n -> {g \in kinds \X BOOLEAN : g[2] => g[1] \in Breakable}]} :
           n \in 0..(MaxParts - PartCount(messages))}

(* The calls that the last assistant message made, by part.                *)
OpenCalls ==
  LET answered == {i \in DOMAIN messages : messages[i].kind = "assistant"}
  IN IF answered = {} THEN {}
     ELSE {p.id : p \in {q \in ToSet(messages[Max(answered)].parts) : q.kind = "tool_call"}}

Add(message) == Len(messages) < MaxMessages /\ messages' = Append(messages, message)

AddUser == \E parts \in PartLists(UserKinds) : Add(Message("user", parts, 0))
AddAssistant == \E parts \in PartLists(AssistantKinds) : Add(Message("assistant", parts, 0))
AddTool == \E parts \in PartLists(UserKinds), call \in OpenCalls : Add(Message("tool", parts, call))

(* Every part once, in the order of the conversation.                      *)
AllParts == FlattenSeq([i \in DOMAIN messages |-> messages[i].parts])
=============================================================================
