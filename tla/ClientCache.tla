----------------------------- MODULE ClientCache -----------------------------
(***************************************************************************)
(* One Bedrock client shared by every embedding model that is given the    *)
(* same cache.  The first caller of prepare() starts the creation as a     *)
(* task; whoever comes while it runs waits for that task.  A caller that   *)
(* is cancelled does not leave before the task has settled, since the      *)
(* thread that runs boto3.client cannot be stopped.                        *)
(*                                                                         *)
(* A task that is resolved and a caller that wakes are separate steps:     *)
(* another caller may run in between.                                      *)
(***************************************************************************)
EXTENDS Integers, Sequences, FiniteSets

CONSTANTS
  Callers,       \* the tasks that call prepare()
  MaxCreations   \* bound: creations started, at least the number of callers

CreationsAssumption == MaxCreations \in Nat

VARIABLES
  pc,            \* where each caller stands in prepare()
  waitsFor,      \* the creation each caller waits for, 0 before it waits
  interrupted,   \* the callers with a cancellation they have not received
  creations,     \* the creation tasks so far, as far as each has come
  creationTask,  \* _creation_task, 0 for None
  client         \* the creation that set _client, 0 while it is None

vars == <<pc, waitsFor, interrupted, creations, creationTask, client>>

Waiting == {"shielded", "settling"}
Ended == {"prepared", "failed", "cancelled"}

TypeOK ==
  /\ pc \in [Callers -> {"idle"} \union Waiting \union Ended]
  /\ waitsFor \in [Callers -> 0..MaxCreations]
  /\ interrupted \subseteq {c \in Callers : pc[c] \in Waiting}
  /\ creations \in Seq({"running", "created", "failed"})
  /\ Len(creations) <= MaxCreations
  /\ creationTask \in 0..Len(creations)
  /\ client \in 0..Len(creations)

Init ==
  /\ pc = [c \in Callers |-> "idle"]
  /\ waitsFor = [c \in Callers |-> 0]
  /\ interrupted = {}
  /\ creations = <<>>
  /\ creationTask = 0
  /\ client = 0

Done(k) == creations[k] # "running"

ForgetAnyTask(c) == creationTask' = 0  (* mutant *)

ForgetNothing(c) == UNCHANGED creationTask  (* mutant *)

(* The finally clause: only the task this caller waited for is forgotten.  *)
Forget(c) ==
  creationTask' = IF creationTask = waitsFor[c] THEN 0 ELSE creationTask

End(c, outcome) ==
  /\ pc' = [pc EXCEPT ![c] = outcome]
  /\ Forget(c)
  /\ interrupted' = interrupted \ {c}
  /\ UNCHANGED <<waitsFor, creations, client>>

ClientIsReady == client # 0

(***************************************************************************)
(* prepare() up to its await.  Awaiting a task that is already done does   *)
(* not suspend, so its failure is this caller's at once.                   *)
(***************************************************************************)
FindsClient(c) ==
  /\ pc[c] = "idle"
  /\ ClientIsReady
  /\ pc' = [pc EXCEPT ![c] = "prepared"]
  /\ UNCHANGED <<waitsFor, interrupted, creations, creationTask, client>>

Creates(c) ==
  /\ pc[c] = "idle"
  /\ ~ClientIsReady
  /\ creationTask = 0
  /\ Len(creations) < MaxCreations
  /\ creations' = Append(creations, "running")
  /\ creationTask' = Len(creations')
  /\ waitsFor' = [waitsFor EXCEPT ![c] = Len(creations')]
  /\ pc' = [pc EXCEPT ![c] = "shielded"]
  /\ UNCHANGED <<interrupted, client>>

Joins(c) ==
  /\ pc[c] = "idle"
  /\ ~ClientIsReady
  /\ creationTask # 0
  /\ waitsFor' = [waitsFor EXCEPT ![c] = creationTask]
  /\ IF Done(creationTask)
     THEN /\ pc' = [pc EXCEPT ![c] = "failed"]
          /\ creationTask' = 0
     ELSE /\ pc' = [pc EXCEPT ![c] = "shielded"]
          /\ UNCHANGED creationTask
  /\ UNCHANGED <<interrupted, creations, client>>

(* The thread returns or raises, and the creation task ends with it.       *)
CreationSucceeds(k) ==
  /\ creations[k] = "running"
  /\ creations' = [creations EXCEPT ![k] = "created"]
  /\ client' = k
  /\ UNCHANGED <<pc, waitsFor, interrupted, creationTask>>

CreationFails(k) ==
  /\ creations[k] = "running"
  /\ creations' = [creations EXCEPT ![k] = "failed"]
  /\ UNCHANGED <<pc, waitsFor, interrupted, creationTask, client>>

(***************************************************************************)
(* await_task_cancellation_safe: a caller is "shielded" in its first await *)
(* and "settling" in those of the loop after a cancellation.               *)
(***************************************************************************)
Cancel(c) ==
  /\ pc[c] \in Waiting
  /\ c \notin interrupted
  /\ interrupted' = interrupted \union {c}
  /\ UNCHANGED <<pc, waitsFor, creations, creationTask, client>>

WakeSettled(c) ==
  /\ pc[c] = "shielded"
  /\ c \notin interrupted
  /\ Done(waitsFor[c])
  /\ End(c, IF creations[waitsFor[c]] = "created" THEN "prepared" ELSE "failed")

LeaveAtOnce(c) ==  (* mutant *)
  /\ c \in interrupted
  /\ End(c, "cancelled")

(* A cancellation, the first or a further one, does not end the wait.      *)
ReceiveCancellation(c) ==
  /\ c \in interrupted
  /\ IF Done(waitsFor[c])
     THEN End(c, "cancelled")
     ELSE /\ pc' = [pc EXCEPT ![c] = "settling"]
          /\ interrupted' = interrupted \ {c}
          /\ UNCHANGED <<waitsFor, creations, creationTask, client>>

SettlesWhenCreated(c) ==  (* mutant *)
  /\ pc[c] = "settling"
  /\ c \notin interrupted
  /\ creations[waitsFor[c]] = "created"
  /\ End(c, "cancelled")

(* The loop swallows a CancelledError only: what the task raises meanwhile *)
(* is raised here, in place of the cancellation.                           *)
SettlesAfterCancellation(c) ==
  /\ pc[c] = "settling"
  /\ c \notin interrupted
  /\ Done(waitsFor[c])
  /\ End(c, IF creations[waitsFor[c]] = "created" THEN "cancelled" ELSE "failed")

Finished == \A c \in Callers : pc[c] \in Ended

Rest == Finished /\ UNCHANGED vars

Wakes(c) == WakeSettled(c) \/ ReceiveCancellation(c) \/ SettlesAfterCancellation(c)

CreationSettles ==
  \E k \in DOMAIN creations : CreationSucceeds(k) \/ CreationFails(k)

Next ==
  \/ \E c \in Callers :
       FindsClient(c) \/ Creates(c) \/ Joins(c) \/ Cancel(c) \/ Wakes(c)
  \/ CreationSettles
  \/ Rest

(* The event loop runs every task that is ready, and a thread returns.     *)
Fairness ==
  /\ WF_vars(CreationSettles)
  /\ \A c \in Callers : WF_vars(WakeSettled(c) \/ SettlesAfterCancellation(c))
  /\ \A c \in Callers : WF_vars(ReceiveCancellation(c))

Spec == Init /\ [][Next]_vars /\ Fairness

-----------------------------------------------------------------------------
(* At no time do two creations run: a caller that wakes late after a       *)
(* failed creation must not make a third one start a rival to the retry    *)
(* (prepare's identity test in its finally clause).                        *)
OneCreationAtATime ==
  Cardinality({k \in DOMAIN creations : creations[k] = "running"}) <= 1

(* Nobody leaves prepare() while the creation it waited for still runs,    *)
(* however often it is cancelled ("A cancelled caller waits for client     *)
(* creation to settle").                                                   *)
NobodyLeavesARunningCreation ==
  \A c \in Callers : pc[c] \in Ended /\ waitsFor[c] # 0 => Done(waitsFor[c])

(* A failed creation is not final: once all who waited for it have left,   *)
(* the cache is ready or open to a new attempt, and never stuck with the   *)
(* failed task.                                                            *)
FailureIsForgotten ==
  creationTask # 0 /\ Done(creationTask) /\ creations[creationTask] = "failed" =>
    \E c \in Callers : pc[c] \in Waiting /\ waitsFor[c] = creationTask

(* A caller that waits leaves, cancelled or not, prepared or failed.       *)
EveryWaiterLeaves == \A c \in Callers : pc[c] \in Waiting ~> pc[c] \in Ended

(* await_task_cancellation_safe documents that it raises the task's error  *)
(* only if the task raised it before the caller was cancelled.             *)
CancelledCallersAreCancelled ==
  [][\A c \in Callers : pc[c] = "settling" => pc'[c] # "failed"]_vars
=============================================================================
