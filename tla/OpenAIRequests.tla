--------------------------- MODULE OpenAIRequests ---------------------------
(***************************************************************************)
(* The same conversation as the Responses adapter and as the Chat          *)
(* Completions adapter send it, turn after turn.                           *)
(***************************************************************************)
EXTENDS Conversation

VARIABLE prompt  \* the bound system prompt: none, a string or its parts

vars == <<messages, prompt>>

NoPrompt == [form |-> "none", parts |-> <<>>]
Prompts ==
  {NoPrompt, [form |-> "string", parts |-> <<FALSE>>]}
    \union [form : {"parts"}, parts : {<<FALSE>>, <<TRUE>>}]

Rejected == <<[role |-> "rejected"]>>

-----------------------------------------------------------------------------
(***************************************************************************)
(* Responses: a list of items, one for each assistant part.                *)
(***************************************************************************)
Content(m) == [j \in DOMAIN m.parts |-> <<m.parts[j].id, m.parts[j].cache_breakpoint>>]

PhaseOfConversation(m, j) ==  (* mutant *)
  IF m = Last(messages) /\ j = FinalTextIndex(m.parts) THEN "final_answer" ELSE "commentary"

PhaseOfLastText(m, j) ==  (* mutant *)
  IF \A k \in (j + 1)..Len(m.parts) : m.parts[k].kind # "text" THEN "final_answer" ELSE "commentary"

Phase(m, j) == IF j = FinalTextIndex(m.parts) THEN "final_answer" ELSE "commentary"

AssistantItem(m, j) ==
  LET part == m.parts[j]
  IN CASE part.kind = "text" -> [role |-> "assistant", phase |-> Phase(m, j), id |-> part.id]
       [] part.kind = "tool_call" -> [role |-> "function_call", id |-> part.id]
       [] OTHER -> [role |-> "replayed", id |-> part.id]

Items(m) ==
  CASE m.kind = "user" -> <<[role |-> "user", content |-> Content(m)]>>
    [] m.kind = "tool" -> <<[role |-> "function_call_output", call |-> m.answers, content |-> Content(m)]>>
    [] m.kind = "assistant" -> [j \in DOMAIN m.parts |-> AssistantItem(m, j)]

SendsAudio(m) == \E j \in DOMAIN m.parts : m.parts[j].kind \in {"wav", "ogg"}

(* A prompt that is a string is an instruction, parts are the first item.  *)
InputPrefix ==
  IF prompt.form = "parts" THEN <<[role |-> "developer", content |-> prompt.parts]>> ELSE <<>>

Input ==
  IF \E i \in DOMAIN messages : SendsAudio(messages[i]) THEN Rejected
  ELSE InputPrefix \o FlattenSeq([i \in DOMAIN messages |-> Items(messages[i])])

-----------------------------------------------------------------------------
(***************************************************************************)
(* Chat Completions: one message each, texts joined, calls beside them.    *)
(***************************************************************************)
Ids(parts) == [j \in DOMAIN parts |-> parts[j].id]

FinalTextOnly(m) ==  (* mutant *)
  [role |-> "assistant", reasoning |-> 0,
   content |-> IF FinalTextIndex(m.parts) = 0 THEN <<>> ELSE <<m.parts[FinalTextIndex(m.parts)].id>>,
   tool_calls |-> Ids(ToolCalls(m.parts))]

(* The raw values of reasoning parts update the same keys; the last stays. *)
AssistantParam(m) ==
  LET reasoning == Parts(m.parts, "reasoning")
  IN [role |-> "assistant",
      reasoning |-> IF reasoning = <<>> THEN 0 ELSE Last(reasoning).id,
      content |-> Ids(Parts(m.parts, "text")),
      tool_calls |-> Ids(ToolCalls(m.parts))]

ChatMessage(m) ==
  CASE m.kind = "user" -> [role |-> "user", content |-> Content(m)]
    [] m.kind = "tool" -> [role |-> "tool", call |-> m.answers, content |-> Content(m)]
    [] m.kind = "assistant" -> AssistantParam(m)

NoChatForm(m) ==
  \E j \in DOMAIN m.parts :
    \/ m.parts[j].kind \in {"ogg", "raw"}
    \/ m.kind = "tool" /\ m.parts[j].kind # "text"

MessagesPrefix ==
  IF prompt.form = "none" THEN <<>> ELSE <<[role |-> "system", content |-> prompt.parts]>>

ChatMessages ==
  IF \E i \in DOMAIN messages : NoChatForm(messages[i]) THEN Rejected
  ELSE MessagesPrefix \o [i \in DOMAIN messages |-> ChatMessage(messages[i])]

-----------------------------------------------------------------------------
TypeOK ==
  /\ prompt \in Prompts
  /\ Len(messages) <= MaxMessages /\ Len(AllParts) <= MaxParts
  /\ \A i \in DOMAIN AllParts : AllParts[i].id = i
  /\ \A i \in DOMAIN Input : Input[i].role = "developer" => Input[i].content # <<>>

Init == messages = <<>> /\ prompt \in Prompts

Full == Len(messages) = MaxMessages /\ UNCHANGED vars

Turn == (AddUser \/ AddAssistant \/ AddTool) /\ UNCHANGED prompt

Next == Turn \/ Full

Spec == Init /\ [][Next]_vars

-----------------------------------------------------------------------------
(* What was sent stays what it was when the conversation grows, in both    *)
(* forms, so that the provider's cache of the prompt holds.                *)
SentPrefixIsStable ==
  [][/\ Input' # Rejected => IsPrefix(Input, Input')
     /\ ChatMessages' # Rejected => IsPrefix(ChatMessages, ChatMessages')]_vars

(* An application may change adapters in a conversation: where both can    *)
(* send it they send the same texts, calls and results in the same order.  *)
AdaptersAgree ==
  Input # Rejected /\ ChatMessages # Rejected =>
    /\ Ids(SelectSeq(Input, LAMBDA x : x.role = "assistant"))
         = FlattenSeq([i \in DOMAIN ChatMessages |->
             IF ChatMessages[i].role = "assistant" THEN [j \in DOMAIN ChatMessages[i].content |->
               ChatMessages[i].content[j]] ELSE <<>>])
    /\ Ids(SelectSeq(Input, LAMBDA x : x.role = "function_call"))
         = FlattenSeq([i \in DOMAIN ChatMessages |->
             IF ChatMessages[i].role = "assistant" THEN ChatMessages[i].tool_calls ELSE <<>>])
    /\ LET results(wire, role) == LET rs == SelectSeq(wire, LAMBDA x : x.role = role)
                                  IN [i \in DOMAIN rs |-> <<rs[i].call, rs[i].content>>]
       IN results(Input, "function_call_output") = results(ChatMessages, "tool")

(* A final answer is the last thing its message says, and is marked in the *)
(* request exactly when the generation took it for the output.             *)
FinalAnswerIsTheOutput ==
  Input # Rejected =>
    \A i \in DOMAIN messages : messages[i].kind = "assistant" =>
      LET final == SelectSeq(Items(messages[i]), LAMBDA x : x.role = "assistant" /\ x.phase = "final_answer")
          plain == ResponseOutcome(Finished(messages[i].parts, "stop", FALSE), TRUE) = "plain_response"
      IN /\ plain <=> Len(final) = 1
         /\ Len(final) <= 1
=============================================================================
