----------------------------- MODULE ResumeFile -----------------------------
(***************************************************************************)
(* The resume file of generate_many_records: calls that load it, replace   *)
(* it by what they reuse, and append a line for each record they generate, *)
(* while the process may die and an append may fail half-way.              *)
(*                                                                         *)
(* A call is described by its binding's fingerprint, its inputs'           *)
(* fingerprints and, unless it identifies inputs by position, their ids.   *)
(* All file operations of the process run one after the other in one       *)
(* thread; they are settled before a cancellation goes on, so each is one  *)
(* step here.                                                              *)
(***************************************************************************)
EXTENDS Integers, Sequences, FiniteSets

CONSTANTS
  Shapes,      \* the calls an application makes: [config, ids, inputs]
  MaxCalls     \* bound: calls, one after the other

Configs == {s.config : s \in Shapes}
Contents == UNION {{s.inputs[i] : i \in DOMAIN s.inputs} : s \in Shapes}
Positions == UNION {DOMAIN s.inputs : s \in Shapes}

(* ids = <<>> stands for input_ids=None.                                   *)
ShapesAreValid ==
  /\ MaxCalls \in Nat
  /\ \A s \in Shapes :
       /\ s.inputs \in Seq(Contents) /\ s.inputs # <<>>
       /\ s.ids # <<>> =>
            /\ DOMAIN s.ids = DOMAIN s.inputs
            /\ \A i, j \in DOMAIN s.ids : s.ids[i] = s.ids[j] => i = j

VARIABLES
  file,        \* what the disk holds
  pc,          \* the stage of the current call; between calls "none"
  shape,       \* the current or most recent call
  reused,      \* reused_record_by_input_index of the call
  item,        \* how far each input of the call is
  made,        \* the record generated for each input
  appends,     \* the inputs whose append is queued in the thread
  stopping,    \* run_many has an error and cancels what it can
  calls,       \* calls begun
  promised,    \* what the file is to hold for the inputs of the call
  appendFailed \* an append of the call, or of one before it, failed

vars == <<file, pc, shape, reused, item, made, appends, stopping, calls, promised, appendFailed>>

callVars == <<shape, reused, item, made, appends, stopping, calls, promised, appendFailed>>

(* A record knows the request it answers; "retry" kinds are the errors     *)
(* that may end differently when sent again.                               *)
Records == [config : Configs, content : Contents, kind : {"final", "retry"}]
NoRecord == [kind |-> "none"]

Lines == [index : Positions, record : Records, valid : {TRUE}]
Malformed == [valid |-> FALSE]

Missing == [exists |-> FALSE]
Files == [exists : {TRUE}, header : Shapes, lines : Seq(Lines \union {Malformed}), torn : BOOLEAN]

Indices == DOMAIN shape.inputs
Stages == {"unstarted", "generating", "appending", "finished", "stopped"}

PartialMaps(S, T) == UNION {[D -> T] : D \in SUBSET S}

TypeOK ==
  /\ file = Missing \/ file \in Files
  /\ pc \in {"none", "preparing", "running"}
  /\ shape \in Shapes
  /\ reused \in PartialMaps(Indices, Records)
  /\ item \in [Indices -> Stages]
  /\ made \in [Indices -> Records \union {NoRecord}]
  /\ \A i \in Indices : item[i] \in {"appending", "finished"} => made[i] # NoRecord
  /\ appends \in Seq(Indices)
  /\ {appends[k] : k \in DOMAIN appends} = {i \in Indices : item[i] = "appending"}
  /\ stopping \in BOOLEAN
  /\ calls \in 0..MaxCalls
  /\ promised \in PartialMaps(Indices, Records)
  /\ appendFailed \in BOOLEAN

-----------------------------------------------------------------------------
(***************************************************************************)
(* What a header says of an input, and which stored input is the same.     *)
(***************************************************************************)
ReusesAll(record) == TRUE  (* mutant *)

Reuses(record) == record.kind # "retry"

Identity(s, i) == IF s.ids = <<>> THEN <<i, s.inputs>> ELSE <<s.ids[i], s.inputs[i]>>

SameIdOnly(stored, current) ==  (* mutant *)
  {p \in (DOMAIN current.inputs) \X (DOMAIN stored.inputs) :
     /\ stored.config = current.config
     /\ stored.ids = <<>> <=> current.ids = <<>>
     /\ stored.ids = <<>> => p[1] = p[2]
     /\ stored.ids # <<>> => current.ids[p[1]] = stored.ids[p[2]]}

(* _stored_input_index_by_input_index, as pairs of current and stored.     *)
StoredIndices(stored, current) ==
  {p \in (DOMAIN current.inputs) \X (DOMAIN stored.inputs) :
     /\ stored.config = current.config
     /\ stored.ids = <<>> <=> current.ids = <<>>
     /\ Identity(current, p[1]) = Identity(stored, p[2])}

HasMalformedLine(f) == \E n \in DOMAIN f.lines : ~f.lines[n].valid

(* The last line for an index holds its record.                            *)
StoredRecord(f, k) ==
  LET at == {n \in DOMAIN f.lines : f.lines[n].valid /\ f.lines[n].index = k}
  IN IF at = {} THEN NoRecord
     ELSE f.lines[CHOOSE n \in at : \A m \in at : m <= n].record

Matches(f, s) == IF f.exists THEN StoredIndices(f.header, s) ELSE {}

LoadFails(f, s) == Matches(f, s) # {} /\ HasMalformedLine(f)

(* _reused_record_by_input_index: bytes after the last newline do not count. *)
ReusedRecords(f, s) ==
  LET usable == {p \in Matches(f, s) :
                   StoredRecord(f, p[2]) # NoRecord /\ Reuses(StoredRecord(f, p[2]))}
  IN [i \in {p[1] : p \in usable} |->
        StoredRecord(f, (CHOOSE p \in usable : p[1] = i)[2])]

LineFor(i, record) == [index |-> i, record |-> record, valid |-> TRUE]

InIndexOrder(D) == CHOOSE s \in [1..Cardinality(D) -> D] :
  \A a, b \in DOMAIN s : a < b => s[a] < s[b]

ReplacementDroppingReused(s, kept) ==  (* mutant *)
  [exists |-> TRUE, torn |-> FALSE, header |-> s, lines |-> <<>>]

ReplacementKeepingTorn(s, kept) ==  (* mutant: the new lines are appended to the old bytes *)
  [exists |-> TRUE, torn |-> file.exists /\ file.torn, header |-> s,
   lines |-> LET order == InIndexOrder(DOMAIN kept)
             IN [n \in DOMAIN order |-> LineFor(order[n], kept[order[n]])]]

(* The file that prepare_resume_file puts in place.                        *)
Replacement(s, kept) ==
  [exists |-> TRUE, torn |-> FALSE, header |-> s,
   lines |-> LET order == InIndexOrder(DOMAIN kept)
             IN [n \in DOMAIN order |-> LineFor(order[n], kept[order[n]])]]

(* A line appended behind torn bytes continues them.                       *)
WithLine(f, i, record) ==
  [f EXCEPT !.lines = Append(@, IF f.torn THEN Malformed ELSE LineFor(i, record)),
            !.torn = FALSE]

-----------------------------------------------------------------------------
FreshItems(s) == [i \in DOMAIN s.inputs |-> "unstarted"]

NothingMade(s) == [i \in DOMAIN s.inputs |-> NoRecord]

Empty == [i \in {} |-> NoRecord]

Init ==
  /\ file = Missing
  /\ pc = "none"
  /\ shape \in Shapes
  /\ reused = Empty
  /\ item = FreshItems(shape)
  /\ made = NothingMade(shape)
  /\ appends = <<>>
  /\ stopping = FALSE
  /\ calls = 0
  /\ promised = Empty
  /\ appendFailed = FALSE

(* The path is claimed: until the call ends no other call of the process   *)
(* gets past its RuntimeError.                                             *)
Call ==
  /\ pc = "none"
  /\ calls < MaxCalls
  /\ pc' = "preparing"
  /\ calls' = calls + 1
  /\ UNCHANGED <<file, shape, reused, item, made, appends, stopping, promised, appendFailed>>

(***************************************************************************)
(* prepare_resume_file for a call of shape s.  The replacement is atomic:  *)
(* an error leaves the old file.  A cancellation is received afterwards.   *)
(***************************************************************************)
Prepare(s) ==
  /\ pc = "preparing"
  /\ ~LoadFails(file, s)
  /\ LET kept == ReusedRecords(file, s)
     IN /\ file' = Replacement(s, kept)
        /\ reused' = kept
        /\ promised' = kept
  /\ shape' = s
  /\ item' = FreshItems(s)
  /\ made' = NothingMade(s)
  /\ appends' = <<>>
  /\ stopping' = FALSE
  /\ pc' \in {"running", "none"}
  /\ appendFailed' = FALSE
  /\ UNCHANGED calls

PrepareFails(s) ==
  /\ pc = "preparing"
  /\ pc' = "none"
  /\ UNCHANGED <<file, callVars>>

(* The batch over the inputs without a reused record, in input order.      *)
Pending == Indices \ DOMAIN reused

StartItem(i) ==
  /\ pc = "running"
  /\ ~stopping
  /\ i \in Pending
  /\ item[i] = "unstarted"
  /\ \A j \in Pending : j < i => item[j] # "unstarted"
  /\ item' = [item EXCEPT ![i] = "generating"]
  /\ UNCHANGED <<file, pc, shape, reused, made, appends, stopping, calls, promised, appendFailed>>

Generated(i) ==
  /\ pc = "running"
  /\ item[i] = "generating"
  /\ \E kind \in {"final", "retry"} :
       made' = [made EXCEPT ![i] =
         [config |-> shape.config, content |-> shape.inputs[i], kind |-> kind]]
  /\ item' = [item EXCEPT ![i] = "appending"]
  /\ appends' = Append(appends, i)
  /\ UNCHANGED <<file, pc, shape, reused, stopping, calls, promised, appendFailed>>

(* A defect ends the item, or run_many cancels it.                         *)
ItemStops(i) ==
  /\ pc = "running"
  /\ item[i] = "generating"
  /\ item' = [item EXCEPT ![i] = "stopped"]
  /\ stopping' = TRUE
  /\ UNCHANGED <<file, pc, shape, reused, made, appends, calls, promised, appendFailed>>

CallerCancels ==
  /\ pc = "running"
  /\ ~stopping
  /\ stopping' = TRUE
  /\ UNCHANGED <<file, pc, shape, reused, item, made, appends, calls, promised, appendFailed>>

(* append_outcome_record, in the order in which the items asked for it.    *)
AppendLine(i) ==
  /\ pc = "running"
  /\ appends # <<>> /\ i = Head(appends)
  /\ file' = WithLine(file, i, made[i])
  /\ item' = [item EXCEPT ![i] = "finished"]
  /\ promised' = [j \in (DOMAIN promised) \union {i} |-> IF j = i THEN made[i] ELSE promised[j]]
  /\ appends' = Tail(appends)
  /\ UNCHANGED <<pc, shape, reused, made, stopping, calls, appendFailed>>

(* The write, the flush or the sync raises: of the line, nothing, a part   *)
(* or all of it is in the file.                                            *)
AppendFails(i) ==
  /\ pc = "running"
  /\ appends # <<>> /\ i = Head(appends)
  /\ file' \in {file, [file EXCEPT !.torn = TRUE], WithLine(file, i, made[i])}
  /\ item' = [item EXCEPT ![i] = "stopped"]
  /\ appends' = Tail(appends)
  /\ stopping' = TRUE
  /\ appendFailed' = TRUE
  /\ UNCHANGED <<pc, shape, reused, made, calls, promised>>

Settled == \A i \in Indices : item[i] \notin {"generating", "appending"}

(* The list that the call returns.                                         *)
Returned == [i \in Indices |-> IF i \in DOMAIN reused THEN reused[i] ELSE made[i]]

Returns ==
  /\ pc = "running"
  /\ ~stopping
  /\ \A i \in Pending : item[i] = "finished"
  /\ pc' = "none"
  /\ UNCHANGED <<file, callVars>>

Raises ==
  /\ pc = "running"
  /\ stopping
  /\ Settled
  /\ pc' = "none"
  /\ UNCHANGED <<file, callVars>>

(* The process dies, perhaps in the middle of the append it is making.     *)
Crash ==
  /\ pc # "none"
  /\ pc' = "none"
  /\ file' \in {file} \union
       (IF appends # <<>> /\ file.exists
        THEN {[file EXCEPT !.torn = TRUE], WithLine(file, Head(appends), made[Head(appends)])}
        ELSE {})
  /\ item' = [i \in Indices |-> IF item[i] = "finished" THEN "finished" ELSE "stopped"]
  /\ appends' = <<>>
  /\ UNCHANGED <<shape, reused, made, stopping, calls, promised, appendFailed>>

Finished == pc = "none" /\ calls = MaxCalls /\ UNCHANGED vars

Next ==
  \/ Call
  \/ \E s \in Shapes : Prepare(s) \/ PrepareFails(s)
  \/ \E i \in Indices : StartItem(i) \/ Generated(i) \/ ItemStops(i)
                          \/ AppendLine(i) \/ AppendFails(i)
  \/ CallerCancels \/ Returns \/ Raises \/ Crash \/ Finished

Spec == Init /\ [][Next]_vars

-----------------------------------------------------------------------------
(* Whatever calls came before, with whatever inputs, ids and binding, and  *)
(* wherever they died, each input of a call gets a record that was made    *)
(* for that input under that binding.                                      *)
RecordsBelongToTheirInputs ==
  \A i \in (DOMAIN reused) \union {j \in Indices : item[j] = "finished"} :
    Returned[i].config = shape.config /\ Returned[i].content = shape.inputs[i]

(* What a call reused or finished is not sent again: a call that came now, *)
(* after a crash or a failed append too, would reuse it for each input     *)
(* that has the same identity, also when input_ids were added, removed or  *)
(* reordered ("Each generated record is then appended and flushed to disk  *)
(* before its item finishes").  The exception is a file with a malformed   *)
(* line, which a call for any of these inputs cannot load; the next two    *)
(* definitions are about it.                                               *)
Unloadable(f) == f.exists /\ HasMalformedLine(f)

FinishedRecordsAreKept ==
  ~Unloadable(file) =>
    \A s \in Shapes : \A i \in DOMAIN promised : \A j \in DOMAIN s.inputs :
      /\ <<j, i>> \in StoredIndices(shape, s)
      /\ Reuses(promised[i])
      => /\ ~LoadFails(file, s)
         /\ j \in DOMAIN ReusedRecords(file, s)
         /\ ReusedRecords(file, s)[j] = promised[i]

(* An error that may end differently when sent again is sent again.        *)
RetriesAreNotReused == \A i \in DOMAIN reused : reused[i].kind # "retry"

(* No process failure makes a file unloadable, in whatever call and after  *)
(* whatever calls: only an append that failed does, in the call that wrote *)
(* the file, when a line queued behind it continued its bytes.             *)
OnlyFailedAppendsSpoilTheFile == Unloadable(file) => appendFailed

(* _reused_record_by_input_index documents that only a process failure     *)
(* leaves bytes after the last newline, so that no line of a file is       *)
(* malformed and a later call can load it.                                 *)
FileStaysLoadable == ~Unloadable(file)
=============================================================================
