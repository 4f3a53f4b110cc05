-------------------------- MODULE AnthropicRequest --------------------------
(***************************************************************************)
(* How the Messages adapter turns a binding and a conversation into a      *)
(* request: blocks, cache breakpoints within the API's limit, and stored   *)
(* blocks that go back as they came.                                       *)
(***************************************************************************)
EXTENDS Conversation

CONSTANTS
  MaxCacheBreakpoints,  \* _MAX_CACHE_BREAKPOINTS_PER_REQUEST
  MaxSystemParts        \* bound on the system parts and on the tools

RequestAssumption == MaxCacheBreakpoints \in Nat /\ MaxSystemParts \in Nat

VARIABLES
  binding,  \* what was bound
  pc,       \* "unbound", "refused", "editing" or "built"
  request   \* what was last built

vars == <<messages, binding, pc, request>>

NoRequest == [rejected |-> FALSE, messages |-> <<>>]

(* System parts and tools are known by whether they carry a breakpoint; no *)
(* parts means no system prompt, and no tools are no field at all.  Where  *)
(* the automatic breakpoint would go matters only if there is one.         *)
Marks == UNION {[1..n -> BOOLEAN] : n \in 0..MaxSystemParts}
Bindings ==
  {b \in [system : Marks, tools : Marks, automatic : BOOLEAN, top_level : BOOLEAN] :
     b.top_level => b.automatic}

TypeOK ==
  /\ binding \in Bindings
  /\ pc \in {"unbound", "refused", "editing", "built"}
  /\ request.rejected \in BOOLEAN /\ (request.rejected => request.messages = <<>>)
  /\ \A i \in DOMAIN request.messages :
       /\ request.messages[i].role \in {"user", "assistant"}
       /\ \A j \in DOMAIN request.messages[i].blocks :
            request.messages[i].blocks[j].marked \in BOOLEAN
  /\ \A i \in DOMAIN AllParts : AllParts[i].id = i

Init ==
  /\ messages = <<>> /\ binding \in Bindings /\ pc = "unbound" /\ request = NoRequest

-----------------------------------------------------------------------------
(***************************************************************************)
(* The binding.                                                            *)
(***************************************************************************)
MarkLast(marks) == IF marks = <<>> THEN marks ELSE [marks EXCEPT ![Len(marks)] = TRUE]

SystemBlocks == IF binding.automatic THEN MarkLast(binding.system) ELSE binding.system

(* The end of the frozen prefix is the system prompt if there is one.      *)
WireTools ==
  IF binding.automatic /\ binding.system = <<>> THEN MarkLast(binding.tools) ELSE binding.tools

CountOf(marks) == Cardinality({i \in DOMAIN marks : marks[i]})

BindBreakpoints == CountOf(SystemBlocks) + CountOf(WireTools)

UnreservedBudget == MaxCacheBreakpoints - BindBreakpoints  (* mutant *)

MessageBudget == MaxCacheBreakpoints - BindBreakpoints - (IF binding.automatic THEN 1 ELSE 0)

Bind ==
  /\ pc = "unbound"
  /\ pc' = IF MessageBudget < 0 THEN "refused" ELSE "editing"
  /\ UNCHANGED <<messages, binding, request>>

-----------------------------------------------------------------------------
(***************************************************************************)
(* The messages.                                                           *)
(***************************************************************************)
(* A tool result is one block: its breakpoint can only be at its end.      *)
Unsendable(m) ==
  \/ \E i \in DOMAIN m.parts : m.parts[i].kind \in {"audio", "bad_call", "untyped"}
  \/ m.kind = "tool" /\ \E i \in DOMAIN m.parts : i < Len(m.parts) /\ m.parts[i].cache_breakpoint

Sendable == \A i \in DOMAIN messages : ~Unsendable(messages[i])

Block(kind, id, breakpoint, marked) ==
  [kind |-> kind, id |-> id, breakpoint |-> breakpoint, marked |-> marked]

Blocks(m) ==
  IF m.kind = "tool"
  THEN <<Block("tool_result", m.answers, m.parts # <<>> /\ Last(m.parts).cache_breakpoint, FALSE)>>
  ELSE [i \in DOMAIN m.parts |->
          Block(m.parts[i].kind, m.parts[i].id, m.parts[i].cache_breakpoint, m.parts[i].marked)]

SeparateResults(ms) ==  (* mutant *)
  [i \in DOMAIN ms |-> [role |-> IF ms[i].kind = "assistant" THEN "assistant" ELSE "user",
                        results |-> ms[i].kind = "tool", blocks |-> Blocks(ms[i])]]

(* Consecutive tool results share one user message.                        *)
WithMessage(wire, m) ==
  IF m.kind = "tool" /\ wire # <<>> /\ wire[Len(wire)].results
  THEN [wire EXCEPT ![Len(wire)].blocks = @ \o Blocks(m)]
  ELSE Append(wire, [role |-> IF m.kind = "assistant" THEN "assistant" ELSE "user",
                     results |-> m.kind = "tool", blocks |-> Blocks(m)])

(* What is sent of the first messages, by their number.                    *)
WireOfFirst(ms) ==
  LET wire[i \in 0..Len(ms)] == IF i = 0 THEN <<>> ELSE WithMessage(wire[i - 1], ms[i])
  IN wire

Merged(ms) == WireOfFirst(ms)[Len(ms)]

Places(wire) ==
  {p \in (DOMAIN wire) \X (1..(MaxMessages + MaxParts)) : p[2] \in DOMAIN wire[p[1]].blocks}

Before(p, q) == p[1] < q[1] \/ (p[1] = q[1] /\ p[2] < q[2])

Requested(wire) == {p \in Places(wire) : wire[p[1]].blocks[p[2]].breakpoint}

SliceFromZero(wire) ==  (* mutant *)
  {p \in Requested(wire) :
     MessageBudget = 0 \/ Cardinality({q \in Requested(wire) : Before(p, q)}) < MessageBudget}

EarliestBreakpoints(wire) ==  (* mutant *)
  {p \in Requested(wire) : Cardinality({q \in Requested(wire) : Before(q, p)}) < MessageBudget}

(* The latest breakpoints of parts, as many as the limit leaves.           *)
SentBreakpoints(wire) ==
  {p \in Requested(wire) : Cardinality({q \in Requested(wire) : Before(p, q)}) < MessageBudget}

Thinking == {"thinking", "redacted_thinking"}

MarkAnyLastBlock(wire) ==  (* mutant *)
  IF binding.automatic /\ ~binding.top_level /\ wire # <<>> /\ Last(wire).blocks # <<>>
  THEN {<<Len(wire), Len(Last(wire).blocks)>>} ELSE {}

(* The last block of the last message, which may have none.                *)
AutomaticBreakpoint(wire) ==
  IF /\ binding.automatic /\ ~binding.top_level
     /\ wire # <<>> /\ Last(wire).blocks # <<>>
     /\ Last(Last(wire).blocks).kind \notin Thinking
  THEN {<<Len(wire), Len(Last(wire).blocks)>>} ELSE {}

Mark(block, sends) == [block EXCEPT !.marked = @ \/ sends]

Marked(wire) ==
  LET marks == SentBreakpoints(wire) \union AutomaticBreakpoint(wire)
  IN [i \in DOMAIN wire |-> [wire[i] EXCEPT !.blocks = [j \in DOMAIN @ |-> Mark(@[j], <<i, j>> \in marks)]]]

(* A stored block is copied, and is not marked when its copy is.           *)
StoredBlock(part, wire) == part

Rejected == [rejected |-> TRUE, messages |-> <<>>]

Build ==
  /\ pc = "editing"
  /\ pc' = "built"
  /\ IF Sendable
     THEN /\ request' = [rejected |-> FALSE, messages |-> Marked(Merged(messages))]
          /\ messages' = [i \in DOMAIN messages |->
               [messages[i] EXCEPT !.parts =
                  [j \in DOMAIN @ |-> StoredBlock(@[j], request'.messages)]]]
     ELSE request' = Rejected /\ UNCHANGED messages
  /\ UNCHANGED binding

(* The application goes on with a conversation that can be sent.           *)
Continue ==
  /\ pc \in {"editing", "built"}
  /\ Sendable
  /\ pc' = "editing"
  /\ AddUser \/ AddAssistant \/ AddTool
  /\ UNCHANGED <<binding, request>>

Stopped == pc \in {"refused", "built"} /\ UNCHANGED vars

Next == Bind \/ Build \/ Continue \/ Stopped

Spec == Init /\ [][Next]_vars

-----------------------------------------------------------------------------
Sent == pc = "built" /\ ~request.rejected

MarkedPlaces == {p \in Places(request.messages) : request.messages[p[1]].blocks[p[2]].marked}

(* Whatever the binding and however long the conversation, also when it is *)
(* sent turn after turn, no request has more breakpoints than the API      *)
(* allows.                                                                 *)
BreakpointsAreWithinLimit ==
  Sent => BindBreakpoints + Cardinality(MarkedPlaces)
            + (IF binding.automatic /\ binding.top_level THEN 1 ELSE 0) <= MaxCacheBreakpoints

(* A breakpoint that does not fit makes room for later ones only, and only *)
(* when the limit is reached.                                              *)
LatestBreakpointsAreKept ==
  LET requested == Requested(request.messages)
  IN Sent =>
       \A p \in requested \ MarkedPlaces :
         /\ \A q \in requested : Before(q, p) => q \notin MarkedPlaces
         /\ Cardinality(requested \intersect MarkedPlaces) >= MessageBudget

(* Thinking goes back as it came, whatever was sent in between.            *)
ThinkingIsUntouched ==
  /\ Sent => \A p \in MarkedPlaces : request.messages[p[1]].blocks[p[2]].kind \notin Thinking
  /\ \A i \in DOMAIN AllParts : ~AllParts[i].marked

(* The API wants the results of one turn of calls in one user message, and *)
(* every other part where the conversation has it.                         *)
ConversationIsSent ==
  Sent =>
    /\ \A i \in DOMAIN request.messages : i > 1 =>
         ~(request.messages[i].results /\ request.messages[i - 1].results)
    /\ FlattenSeq([i \in DOMAIN request.messages |->
                     [j \in DOMAIN request.messages[i].blocks |-> request.messages[i].blocks[j].id]])
         = FlattenSeq([i \in DOMAIN messages |->
                         IF messages[i].kind = "tool" THEN <<messages[i].answers>>
                         ELSE [j \in DOMAIN messages[i].parts |-> messages[i].parts[j].id]])
=============================================================================
