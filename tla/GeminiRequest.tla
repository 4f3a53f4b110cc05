---------------------------- MODULE GeminiRequest ----------------------------
(***************************************************************************)
(* How the Gemini adapter sends a conversation back.  A signed part is     *)
(* stored twice, as it came and as the text or call that it holds, and     *)
(* must be sent once; a call without an id gets its name for one, which    *)
(* must not be sent; a result must name the function of its call.          *)
(***************************************************************************)
EXTENDS Naturals, SequencesExt

CONSTANTS
  MaxMessages,  \* bound on the messages of the conversation
  MaxSource,    \* bound on the parts of all answers of Gemini
  Names,        \* function names, and texts
  NoId          \* the id of a call that has none

RequestAssumption == MaxMessages \in Nat /\ MaxSource \in Nat /\ NoId \notin Names

VARIABLE messages

vars == messages

(* A part on the wire.  Texts are taken from a small set as well, so that  *)
(* two parts may be equal; the id of a call, when the provider sends one,  *)
(* is a number that no other call has.                                     *)
WirePart(kind, payload, id, signed) ==
  [kind |-> kind, payload |-> payload, id |-> id, signed |-> signed]

WireKinds == {"text", "thought", "call", "search", "function_response"}

Message(kind, source, parts, answers) ==
  [kind |-> kind, source |-> source, parts |-> parts, answers |-> answers]

Init == messages = <<>>

-----------------------------------------------------------------------------
(***************************************************************************)
(* From the wire to a message.                                             *)
(***************************************************************************)
CallId(part) == IF part.id = NoId THEN part.payload ELSE part.id

(* The place of a part is left out of what the adapter compares.           *)
Piece(kind, payload, id, raw) == [kind |-> kind, payload |-> payload, id |-> id, raw |-> raw]

NoRaw == WirePart("none", NoId, NoId, FALSE)

AssistantPieces(part) ==
  (IF part.kind = "thought" \/ part.signed
   THEN <<Piece("reasoning", NoId, NoId, part)>> ELSE <<>>)
    \o CASE part.kind = "call" -> <<Piece("tool_call", part.payload, CallId(part), NoRaw)>>
         [] part.kind = "text" -> <<Piece("text", part.payload, NoId, NoRaw)>>
         [] part.kind = "search" /\ ~part.signed -> <<Piece("raw", NoId, NoId, part)>>
         [] OTHER -> <<>>

AssistantMessageFrom(source) ==
  FlattenSeq([i \in DOMAIN source |-> AssistantPieces(source[i])])

-----------------------------------------------------------------------------
(***************************************************************************)
(* From a message to the wire.                                             *)
(***************************************************************************)
(* Whether the piece repeats what a replayed part already carries.         *)
Matches(piece, part) ==
  \/ /\ piece.kind = "tool_call" /\ part.kind = "call"
     /\ piece.payload = part.payload /\ piece.id = CallId(part)
  \/ piece.kind = "text" /\ part.kind \in {"text", "thought"} /\ piece.payload = part.payload

IdAlways(piece) == WirePart("call", piece.payload, piece.id, FALSE)  (* mutant *)

FunctionCallFrom(piece) ==
  WirePart("call", piece.payload, IF piece.id = piece.payload THEN NoId ELSE piece.id, FALSE)

Restored(piece) ==
  CASE piece.kind = "text" -> WirePart("text", piece.payload, NoId, FALSE)
    [] piece.kind = "tool_call" -> FunctionCallFrom(piece)
    [] OTHER -> piece.raw

PairsNever(pieces, i) == FALSE  (* mutant *)

(* The piece right after a replayed part is its pair, if it matches.       *)
IsPaired(pieces, i) ==
  \E j \in 1..(i - 1) :
    /\ j = i - 1 /\ pieces[j].kind = "reasoning"
    /\ pieces[j].raw.kind \in {"call", "text"}
    /\ Matches(pieces[i], pieces[j].raw)

AssistantWireParts(pieces) ==
  LET places == SetToSortSeq({i \in DOMAIN pieces : ~IsPaired(pieces, i)}, <)
  IN [k \in DOMAIN places |-> Restored(pieces[places[k]])]

(* The names by id of the calls of the earlier assistant messages.         *)
ToolCallNames(before) ==
  {<<p.id, p.payload>> : p \in UNION {{q \in ToSet(before[i].parts) : q.kind = "tool_call"} :
                                        i \in {j \in DOMAIN before : before[j].kind = "assistant"}}}

ResponseId(id, name) == IF id = name THEN NoId ELSE id

ResponseWithId(id, name) == WirePart("function_response", name, id, FALSE)  (* mutant *)

FunctionResponse(id, name) == WirePart("function_response", name, ResponseId(id, name), FALSE)

Unsendable(i) ==
  \/ \E p \in ToSet(messages[i].parts) : p.kind \in {"bad_call", "foreign"}
  \/ /\ messages[i].kind = "tool"
     /\ \A entry \in ToolCallNames(SubSeq(messages, 1, i - 1)) : entry[1] # messages[i].answers

Rejected == <<[role |-> "rejected", parts |-> <<>>]>>

ResponseOf(i) ==
  LET names == ToolCallNames(SubSeq(messages, 1, i - 1))
  IN FunctionResponse(messages[i].answers,
       (CHOOSE entry \in names : entry[1] = messages[i].answers)[2])

FlushEachResponse(contents, i) ==  (* mutant *)
  CASE messages[i].kind = "tool" ->
         Append(contents, [role |-> "user", parts |-> <<ResponseOf(i)>>])
    [] messages[i].kind = "user" ->
         Append(contents, [role |-> "user", parts |-> AssistantWireParts(messages[i].parts)])
    [] OTHER -> Append(contents, [role |-> "model", parts |-> AssistantWireParts(messages[i].parts)])

(* Consecutive results are pending until something else is sent.           *)
AddContent(contents, i) ==
  CASE messages[i].kind = "tool" /\ (\E j \in 1..(i - 1) : j = i - 1 /\ messages[j].kind = "tool") ->
         [contents EXCEPT ![Len(contents)].parts = Append(@, ResponseOf(i))]
    [] messages[i].kind = "tool" ->
         Append(contents, [role |-> "user", parts |-> <<ResponseOf(i)>>])
    [] messages[i].kind = "user" ->
         Append(contents, [role |-> "user", parts |-> AssistantWireParts(messages[i].parts)])
    [] OTHER -> Append(contents, [role |-> "model", parts |-> AssistantWireParts(messages[i].parts)])

Contents ==
  IF \E i \in DOMAIN messages : Unsendable(i) THEN Rejected
  ELSE FoldLeft(AddContent, <<>>, [i \in DOMAIN messages |-> i])

-----------------------------------------------------------------------------
(***************************************************************************)
(* The application and the provider.                                       *)
(***************************************************************************)
TypeOK ==
  /\ Len(messages) <= MaxMessages
  /\ \A i \in DOMAIN Contents :
       /\ Contents[i].role \in {"user", "model", "rejected"}
       /\ \A p \in ToSet(Contents[i].parts) :
            p.kind \in WireKinds /\ (p.id # NoId => p.kind \in {"call", "function_response"})

Add(message) == Len(messages) < MaxMessages /\ messages' = Append(messages, message)

SourceParts(j) ==
  {WirePart(kind, payload, NoId, signed) :
     kind \in {"text", "thought"}, payload \in Names, signed \in BOOLEAN}
  \union {WirePart("call", name, id, signed) :
     name \in Names, id \in {NoId, 10 * Len(messages) + j}, signed \in BOOLEAN}
  \union {WirePart("search", NoId, NoId, signed) : signed \in BOOLEAN}

SourceCount == Len(FlattenSeq([i \in DOMAIN messages |-> messages[i].source]))

(* Gemini answers, and the application keeps the answer.                   *)
Answer ==
  \E n \in 0..(MaxSource - SourceCount) :
    \E source \in {s \in [1..n -> UNION {SourceParts(j) : j \in 1..n}] :
                     \A j \in 1..n : s[j] \in SourceParts(j)} :
      Add(Message("assistant", source, AssistantMessageFrom(source), NoId))

(* An answer of another provider that the application goes on with.        *)
ForeignAnswer ==
  \E kind \in {"text", "bad_call", "foreign"}, name \in Names :
    Add(Message("assistant", <<>>, <<Piece(kind, name, NoId, NoRaw)>>, NoId))

UserTurn == \E name \in Names : Add(Message("user", <<>>, <<Piece("text", name, NoId, NoRaw)>>, NoId))

Calls == {p \in UNION {ToSet(messages[i].parts) : i \in DOMAIN messages} : p.kind = "tool_call"}

Result == \E call \in Calls : Add(Message("tool", <<>>, <<>>, call.id))

(* The application leaves out a part of an answer it has stored.           *)
DropPart ==
  \E i \in DOMAIN messages : \E j \in DOMAIN messages[i].parts :
    /\ messages[i].kind = "assistant"
    /\ messages' = [messages EXCEPT ![i].parts = RemoveAt(@, j)]

Full == Len(messages) = MaxMessages /\ UNCHANGED vars

Next == Answer \/ ForeignAnswer \/ UserTurn \/ Result \/ DropPart \/ Full

Spec == Init /\ [][Next]_vars

-----------------------------------------------------------------------------
(* An answer that the application did not change goes back as the parts    *)
(* that came, signatures and missing ids included.                         *)
ReplayIsExact ==
  \A i \in DOMAIN messages :
    messages[i].kind = "assistant" /\ messages[i].parts = AssistantMessageFrom(messages[i].source) =>
      AssistantWireParts(messages[i].parts) = messages[i].source

(* Whatever the application leaves out of an answer, what it keeps is      *)
(* sent, and nothing is sent more often than it came.                      *)
Occurs(wire, kind, payload, id) ==
  Len(SelectSeq(wire, LAMBDA p : p.kind = kind /\ p.payload = payload /\ p.id = id))

KeptIsSentOnce ==
  \A i \in DOMAIN messages : messages[i].source # <<>> =>
    LET wire == AssistantWireParts(messages[i].parts)
    IN \A p \in ToSet(messages[i].source) :
         /\ Occurs(wire, p.kind, p.payload, p.id) <= Occurs(messages[i].source, p.kind, p.payload, p.id)
         /\ p.kind = "call" => Occurs(wire, "call", p.payload, p.id) >=
              Len(SelectSeq(messages[i].parts,
                LAMBDA q : q.kind = "tool_call" /\ q.payload = p.payload /\ q.id = CallId(p)))

(* A result has the id of the call it answers as the provider sent it, and *)
(* the name of its function, and follows the call.                         *)
ResultsNameTheirCalls ==
  LET parts == FlattenSeq([i \in DOMAIN Contents |-> Contents[i].parts])
  IN \A k \in DOMAIN parts : parts[k].kind = "function_response" =>
       \E j \in 1..(k - 1) :
         parts[j].kind = "call" /\ parts[j].payload = parts[k].payload /\ parts[j].id = parts[k].id

(* The results of one turn are in one content, in their order.             *)
ResultsAreTogether ==
  \A i \in DOMAIN Contents : i > 1 =>
    LET holdsResults(c) == c.parts # <<>> /\ c.parts[1].kind = "function_response"
    IN ~(holdsResults(Contents[i]) /\ holdsResults(Contents[i - 1]))
=============================================================================
