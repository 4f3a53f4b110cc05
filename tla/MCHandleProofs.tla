---------------------------- MODULE MCHandleProofs ----------------------------
(***************************************************************************)
(* Safety of StreamHandle for every max_requests, with an application that *)
(* swallows cancellations or does not; and of Dispatch, as MCHandle runs   *)
(* it, for every number of tool calls.                                     *)
(***************************************************************************)
EXTENDS MCHandle, RequestHistoryProofs, FiniteSetTheorems

-----------------------------------------------------------------------------
(***************************************************************************)
(* The permit.                                                             *)
(***************************************************************************)

(* Whether the permit is out follows from where the task is, how far the   *)
(* stream was read and _state: that is why the handle may release it in    *)
(* many places.  A drained stream has none, whichever await it came from.  *)
PermitInv ==
  /\ pc \in Places
  /\ admission \in BOOLEAN
  /\ permits = IF admission THEN 1 ELSE 0
  /\ pc = "unopened" => ~drained
  /\ pc \in Entering => state = "open" /\ ~drained
  /\ pc \in {"item", "draining"} => state = "open" /\ ~drained
  /\ pc = "assembling" => drained
  /\ pc = "settling" => state = "finished"
  /\ pc \notin Closing => (admission <=> pc = "opening" \/ Reading)

LEMMA PermitInit == Init => PermitInv
BY DEF Init, PermitInv, Places, Entering, Closing, Reading

LEMMA Released ==
  ASSUME admission \in BOOLEAN, permits = IF admission THEN 1 ELSE 0, ExitAdmission
  PROVE  admission' = FALSE /\ permits' = 0
BY DEF ExitAdmission, permitVars

LEMMA PermitStep == PermitInv /\ [Next]_vars => PermitInv'
<1> SUFFICES ASSUME PermitInv, [Next]_vars PROVE PermitInv'
  OBVIOUS
<1> USE DEF PermitInv, Places, Entering, Inside, Closing, Left, Cancelled, Reading, Resumes,
            permitVars, taskVars
<1>1. CASE Enter
  BY <1>1 DEF Enter
<1>2. CASE Admitted
  BY <1>2 DEF Admitted
<1>3. CASE StreamOpens
  BY <1>3 DEF StreamOpens
<1>4. CASE BackoffEnds
  BY <1>4 DEF BackoffEnds
<1>5. CASE EntryCancelled
  <2>1. pc' \in Left
    BY <1>5 DEF EntryCancelled
  <2>2. QED
    BY <1>5, <2>1, Released DEF EntryCancelled
<1>6. CASE CallNext
  BY <1>6 DEF CallNext, MayCall
<1>7. CASE CallFinal
  BY <1>7 DEF CallFinal, MayCall
<1>8. CASE ItemArrives
  BY <1>8 DEF ItemArrives
<1>9. CASE UsageArrives
  BY <1>9 DEF UsageArrives
<1>10. CASE Exhausted
  BY <1>10, Released DEF Exhausted
<1>11. ASSUME NEW failure \in Failures, OpenFails(failure)
       PROVE  PermitInv'
  <2>1. pc' \in {"finished", "admission", "backoff"}
    BY <1>11 DEF OpenFails, FailEntry, RetryOrExhaust
  <2>2. pc' # "finished" => state' = state
    BY <1>11 DEF OpenFails, FailEntry, RetryOrExhaust
  <2>3. drained' = drained
    BY <1>11 DEF OpenFails
  <2>4. admission' = FALSE /\ permits' = 0
    BY <1>11, Released DEF OpenFails
  <2>5. pc = "opening"
    BY <1>11 DEF OpenFails
  <2>6. QED
    BY <2>1, <2>2, <2>3, <2>4, <2>5
<1>12. ASSUME NEW failure \in Failures, NEW led, FailStream(failure, led),
              pc \in {"item", "draining", "assembling"}
       PROVE  PermitInv'
  <2>1. pc' \in {"block", "settling"}
    BY <1>12 DEF FailStream, StoreOutcome
  <2>2. state' = "finished" /\ admission' = FALSE /\ permits' = 0
    BY <1>12, Released DEF FailStream
  <2>3. QED
    BY <2>1, <2>2
<1>13. ASSUME NEW failure \in Failures, IterationFails(failure)
       PROVE  PermitInv'
  BY <1>12, <1>13 DEF IterationFails
<1>14. ASSUME NEW failure \in Failures, AssemblyFails(failure)
       PROVE  PermitInv'
  BY <1>12, <1>14 DEF AssemblyFails
<1>15. CASE FailedStreamCloses
  BY <1>15 DEF FailedStreamCloses
<1>16. ASSUME NEW kind, Assembled(kind)
       PROVE  PermitInv'
  BY <1>16 DEF Assembled, StoreOutcome
<1>17. ASSUME NEW pausesQuota, AssembledFailure(pausesQuota)
       PROVE  PermitInv'
  BY <1>17 DEF AssembledFailure, StoreOutcome
<1>18. CASE CancelReachesBlock
  <2>1. pc' = "block" /\ drained' = drained
    BY <1>18 DEF CancelReachesBlock
  <2>2. CASE pc \in {"item", "draining"}
    BY <1>18, <2>1, <2>2, Released DEF CancelReachesBlock
  <2>3. CASE pc \in {"block", "assembling", "settling"}
    <3>1. UNCHANGED <<state, admission, permits>>
      BY <1>18, <2>3 DEF CancelReachesBlock
    <3>2. QED
      BY <2>1, <2>3, <3>1
  <2>4. QED
    BY <1>18, <2>2, <2>3 DEF CancelReachesBlock
<1>19. CASE Swallow
  BY <1>19 DEF Swallow
<1>20. CASE LeaveBlock
  <2>1. CASE stream
    <3>1. pc' \in Closing /\ UNCHANGED <<admission, permits>>
      BY <1>20, <2>1 DEF LeaveBlock
    <3>2. QED
      BY <3>1
  <2>2. CASE ~stream
    <3>1. pc' \in Left /\ admission' = FALSE /\ permits' = 0
      BY <1>20, <2>2, Released DEF LeaveBlock, CloseEnds
    <3>2. QED
      BY <3>1
  <2>3. QED
    BY <2>1, <2>2
<1>21. CASE ExitCloses
  <2>1. pc' \in Left /\ admission' = FALSE /\ permits' = 0
    BY <1>21, Released DEF ExitCloses, CloseEnds
  <2>2. QED
    BY <2>1
<1>22. CASE ExitCloseCancelled
  <2>1. pc' \in Cancelled /\ admission' = FALSE /\ permits' = 0
    BY <1>22, Released DEF ExitCloseCancelled
  <2>2. QED
    BY <2>1
<1>23. CASE CallerCancels
  BY <1>23 DEF CallerCancels
<1>24. CASE TimeoutExpires
  BY <1>24 DEF TimeoutExpires
<1>25. CASE UNCHANGED vars
  BY <1>25 DEF vars
<1>26. QED
  BY <1>1, <1>2, <1>3, <1>4, <1>5, <1>6, <1>7, <1>8, <1>9, <1>10, <1>11, <1>13, <1>14,
     <1>15, <1>16, <1>17, <1>18, <1>19, <1>20, <1>21, <1>22, <1>23, <1>24, <1>25
     DEF Next, Finished

(* An open stream holds its permit until it was drained, failed or was     *)
(* left; no other state of the handle holds one, and none holds two.       *)
THEOREM PermitIsExact == Spec => []PermitFollowsTheStream
<1>1. PermitInv => PermitFollowsTheStream
  BY DEF PermitInv, PermitFollowsTheStream, Places, Closing, Reading
<1>2. QED
  BY <1>1, PermitInit, PermitStep, PTL DEF Spec

-----------------------------------------------------------------------------
(***************************************************************************)
(* The ending.                                                             *)
(***************************************************************************)

(* What the observer has heard, by where the ending is kept.               *)
Heard(stored, record, error) ==
  IF stored # NoEnding THEN <<stored.kind>>
  ELSE IF record # NoEnding THEN <<record.kind>>
  ELSE IF error # NoEnding THEN <<error.kind>>
  ELSE << >>

(* Once an outcome is stored the scope is closed, so no timeout can bring a *)
(* second ending, and a handle that is still open was drained, so final is *)
(* the only read left; it returns what is stored.                          *)
EndingInv ==
  /\ pc \in Places
  /\ operation \in BOOLEAN
  /\ outcome # NoEnding => pc \in {"block", "closing"} \union Left
  /\ outcome # NoEnding => scope = "closed"
  /\ outcome # NoEnding /\ state = "open" => drained
  /\ outcome # NoEnding => abandoned = NoEnding /\ raised = NoEnding
  /\ abandoned # NoEnding => pc \in Left /\ raised = NoEnding
  /\ raised # NoEnding => pc \in Left
  /\ pc = "settling" => pending # NoEnding
  /\ operation <=> pc \notin {"unopened"} \union Left /\ outcome = NoEnding
  /\ ends = IF operation \/ pc = "unopened" THEN 0 ELSE 1
  /\ observed = Heard(outcome, abandoned, raised)
  /\ pc \in {"finished", "cancelled"} => outcome # NoEnding \/ abandoned # NoEnding \/ raised # NoEnding

LEMMA EndingInit == Init => EndingInv
BY DEF Init, EndingInv, Places, Heard

LEMMA EndingIsSome ==
  ASSUME NEW kind, kind # "none", NEW frozen
  PROVE  Ending(kind, frozen) # NoEnding /\ Ending(kind, frozen).kind = kind
BY DEF Ending, NoEnding

LEMMA FailureEnding ==
  ASSUME NEW failure \in Failures, failure.kind # "defect", NEW led
  PROVE  SettledFailure(failure, led) # NoEnding
<1>1. CASE failure.kind = "transient"
  BY <1>1, EndingIsSome DEF SettledFailure
<1>2. CASE failure.kind # "transient"
  <2>1. TerminalKind(failure.kind) # "none"
    BY <1>2 DEF Failures, AnsweredKinds, TerminalKind
  <2>2. QED
    BY <1>2, <2>1, EndingIsSome DEF SettledFailure
<1>3. QED
  BY <1>1, <1>2

(* Concluding a running operation whose observer has heard nothing.        *)
LEMMA Concludes ==
  ASSUME operation, ends = 0, observed = << >>, NEW kind, EndOperation(<<kind>>)
  PROVE  operation' = FALSE /\ ends' = 1 /\ observed' = <<kind>>
<1>1. << >> \o <<kind>> = <<kind>>
  OBVIOUS
<1>2. QED
  BY <1>1 DEF EndOperation

(* Ending one without a conclusion.                                        *)
LEMMA EndsSilently ==
  ASSUME operation, ends = 0, observed = << >>, EndOperation(<< >>)
  PROVE  operation' = FALSE /\ ends' = 1 /\ observed' = << >>
<1>1. << >> \o << >> = << >>
  OBVIOUS
<1>2. QED
  BY <1>1 DEF EndOperation

(* While the operation runs there is no ending.                            *)
LEMMA Running ==
  ASSUME EndingInv, pc \notin {"unopened"} \union Left, outcome = NoEnding
  PROVE  /\ operation /\ ends = 0 /\ observed = << >>
         /\ abandoned = NoEnding /\ raised = NoEnding
BY DEF EndingInv, Heard

(* A GenerationError that leaves the block.                                *)
LEMMA RaiseEnds ==
  ASSUME EndingInv, pc \notin {"unopened"} \union Left, outcome = NoEnding,
         NEW kind, kind # "none", NEW frozen, Raise(kind, frozen), pc' \in Left
  PROVE  EndingInv'
<1>1. operation' = FALSE /\ ends' = 1 /\ observed' = <<kind>>
  BY Running, Concludes DEF Raise
<1>2. /\ raised' # NoEnding /\ raised'.kind = kind
      /\ outcome' = NoEnding /\ abandoned' = NoEnding
  BY Running, EndingIsSome DEF Raise
<1>3. QED
  BY <1>1, <1>2 DEF EndingInv, Heard, Places, Left, Cancelled

LEMMA AbandonEnds ==
  ASSUME EndingInv, pc \notin {"unopened"} \union Left,
         NEW led, Abandon(led), pc' \in Left,
         outcome # NoEnding => (state' = "open" => drained') /\ scope' = "closed"
  PROVE  EndingInv'
<1>1. CASE outcome = NoEnding
  <2>1. operation' = FALSE /\ ends' = 1 /\ observed' = <<"abandoned_stream">>
    BY <1>1, Running, Concludes DEF Abandon
  <2>2. /\ abandoned' # NoEnding /\ abandoned'.kind = "abandoned_stream"
        /\ outcome' = NoEnding /\ raised' = NoEnding
    BY <1>1, Running, EndingIsSome DEF Abandon
  <2>3. QED
    BY <2>1, <2>2 DEF EndingInv, Heard, Places, Left, Cancelled
<1>2. CASE outcome # NoEnding
  <2>1. UNCHANGED <<outcome, abandoned, raised, operation, ends, observed>>
    BY <1>2 DEF Abandon, EndOperation, EndingInv, endingVars, operationVars
  <2>2. ~operation /\ pc # "unopened" /\ pc' \notin {"unopened", "settling"}
    BY <1>2 DEF EndingInv, Left, Cancelled
  <2>3. QED
    BY <1>2, <2>1, <2>2 DEF EndingInv, Heard, Places, Left, Cancelled
<1>3. QED
  BY <1>1, <1>2

(* An outcome that is stored while the block goes on.                      *)
LEMMA StoreEnds ==
  ASSUME EndingInv, pc \in {"item", "draining", "assembling"},
         NEW kind, kind # "none", NEW frozen, StoreOutcome(kind, frozen),
         state' = "open" => drained'
  PROVE  EndingInv'
<1>1. outcome = NoEnding /\ pc \notin {"unopened"} \union Left
  BY DEF EndingInv, Left, Cancelled
<1>2. operation' = FALSE /\ ends' = 1 /\ observed' = <<kind>>
  BY <1>1, Running, Concludes DEF StoreOutcome
<1>3. /\ outcome' # NoEnding /\ outcome'.kind = kind
      /\ abandoned' = NoEnding /\ raised' = NoEnding
      /\ pc' = "block" /\ scope' = "closed"
  BY <1>1, Running, EndingIsSome DEF StoreOutcome
<1>4. QED
  BY <1>2, <1>3 DEF EndingInv, Heard, Places, Inside, Left, Cancelled

(* A step that leaves the endings and the operation alone.                 *)
LEMMA EndingKept ==
  ASSUME EndingInv, UNCHANGED <<outcome, abandoned, raised, operationVars>>,
         pc \notin {"unopened"} \union Left,
         pc' \in Places \ ({"unopened"} \union Left),
         outcome # NoEnding =>
           /\ pc' \in {"block", "closing"}
           /\ scope' = "closed"
           /\ state' = "open" => drained',
         pc' = "settling" => pending' # NoEnding
  PROVE  EndingInv'
BY DEF EndingInv, Heard, Left, Cancelled, operationVars

LEMMA EndingStep == PermitInv /\ EndingInv /\ [Next]_vars => EndingInv'
<1> SUFFICES ASSUME PermitInv, EndingInv, [Next]_vars PROVE EndingInv'
  OBVIOUS
<1>1. CASE Enter
  <2>1. /\ outcome = NoEnding /\ abandoned = NoEnding /\ raised = NoEnding
        /\ ~operation /\ observed = << >> /\ ends = 0
    BY <1>1 DEF Enter, EndingInv, Heard, Left, Cancelled
  <2>2. CASE pc' = "admission"
    <3>1. /\ outcome' = NoEnding /\ abandoned' = NoEnding /\ raised' = NoEnding
          /\ operation' = TRUE /\ observed' = << >> /\ ends' = 0
      BY <1>1, <2>1, <2>2 DEF Enter, endingVars
    <3>2. QED
      BY <2>2, <3>1 DEF EndingInv, Heard, Places, Entering, Left, Cancelled
  <2>3. CASE pc' = "finished"
    <3>1. /\ outcome' = NoEnding /\ abandoned' = NoEnding
          /\ raised' # NoEnding /\ raised'.kind = "rejected_error"
          /\ operation' = FALSE /\ observed' = <<"rejected_error">> /\ ends' = 1
      BY <1>1, <2>1, <2>3, EndingIsSome DEF Enter, endingVars
    <3>2. QED
      BY <2>3, <3>1 DEF EndingInv, Heard, Places, Left, Cancelled
  <2>4. QED
    BY <1>1, <2>2, <2>3 DEF Enter
<1>2. CASE Admitted \/ StreamOpens \/ BackoffEnds
  BY <1>2, EndingKept DEF Admitted, StreamOpens, BackoffEnds, Resumes, EndingInv, endingVars,
     Places, Entering, Inside, Left, Cancelled
<1>3. CASE CallNext \/ CallFinal \/ ItemArrives
  BY <1>3, EndingKept DEF CallNext, CallFinal, ItemArrives, MayCall, Resumes, EndingInv,
     endingVars, Places, Inside, Left, Cancelled
<1>4. CASE UsageArrives \/ Exhausted
  BY <1>4, EndingKept DEF UsageArrives, Exhausted, Resumes, EndingInv, endingVars,
     Places, Inside, Left, Cancelled
<1>5. CASE EntryCancelled
  <2>1. pc \notin {"unopened"} \union Left /\ outcome = NoEnding /\ pc' \in Left
    BY <1>5 DEF EntryCancelled, EndingInv, Entering, Left, Cancelled
  <2>2. QED
    BY <1>5, <2>1, RaiseEnds, AbandonEnds DEF EntryCancelled
<1>6. ASSUME NEW failure \in Failures, OpenFails(failure)
      PROVE  EndingInv'
  <2>1. pc = "opening" /\ outcome = NoEnding /\ pc \notin {"unopened"} \union Left
    BY <1>6 DEF OpenFails, Resumes, EndingInv, Left, Cancelled
  <2>2. ASSUME NEW kind, kind # "none", NEW frozen, FailEntry(kind, frozen)
        PROVE  EndingInv'
    BY <2>1, <2>2, RaiseEnds DEF FailEntry, Left, Cancelled
  <2>3. CASE failure.kind = "defect"
    BY <1>6, <2>2, <2>3 DEF OpenFails, AnsweredKinds
  <2>4. CASE failure.kind \in AnsweredKinds \union {"unknown_exception"}
    <3>1. TerminalKind(failure.kind) # "none"
      BY <2>4 DEF AnsweredKinds, TerminalKind
    <3>2. FailEntry(TerminalKind(failure.kind),
                    Frozen(SettledTerminally(failure, FALSE, ledger)))
      BY <1>6, <2>4 DEF OpenFails, AnsweredKinds
    <3>3. QED
      BY <2>2, <3>1, <3>2
  <2>5. CASE failure.kind = "transient"
    <3>1. PICK led : RetryOrExhaust(failure, led)
      BY <1>6, <2>5 DEF OpenFails, AnsweredKinds
    <3>2. CASE FailEntry("retries_exhausted_error", Frozen(led))
      BY <2>2, <3>2
    <3>3. CASE /\ pc' \in {"admission", "backoff"}
               /\ UNCHANGED <<state, scope, operationVars, endingVars>>
      BY <2>1, <3>3, EndingKept DEF endingVars, Places, Entering, Left, Cancelled
    <3>4. QED
      BY <3>1, <3>2, <3>3 DEF RetryOrExhaust
  <2>6. QED
    BY <1>6, <2>3, <2>4, <2>5 DEF OpenFails
<1>7. ASSUME NEW failure \in Failures, NEW led, FailStream(failure, led),
             pc \in {"item", "draining", "assembling"}
      PROVE  EndingInv'
  <2>1. CASE failure.kind = "defect"
    BY <1>7, <2>1, StoreEnds DEF FailStream
  <2>2. CASE failure.kind # "defect"
    <3>1. /\ pc' = "settling" /\ pending' = SettledFailure(failure, led)
          /\ UNCHANGED <<outcome, abandoned, raised, operationVars>>
      BY <1>7, <2>2 DEF FailStream
    <3>2. outcome = NoEnding
      BY <1>7 DEF EndingInv, Left, Cancelled
    <3>3. QED
      BY <1>7, <2>2, <3>1, <3>2, FailureEnding, EndingKept DEF Places, Inside, Left, Cancelled
  <2>3. QED
    BY <2>1, <2>2
<1>8. ASSUME NEW failure \in Failures, IterationFails(failure) \/ AssemblyFails(failure)
      PROVE  EndingInv'
  BY <1>7, <1>8 DEF IterationFails, AssemblyFails, Resumes
<1>9. CASE FailedStreamCloses
  <2>1. outcome = NoEnding /\ pc \notin {"unopened"} \union Left /\ pending # NoEnding
        /\ state = "finished"
    BY <1>9 DEF FailedStreamCloses, Resumes, EndingInv, PermitInv, Left, Cancelled
  <2>2. operation' = FALSE /\ ends' = 1 /\ observed' = <<pending.kind>>
    BY <1>9, <2>1, Running, Concludes DEF FailedStreamCloses
  <2>3. /\ outcome' = pending /\ abandoned' = NoEnding /\ raised' = NoEnding
        /\ pc' = "block" /\ scope' = "closed" /\ state' = "finished"
    BY <1>9, <2>1, Running DEF FailedStreamCloses
  <2>4. QED
    BY <2>1, <2>2, <2>3 DEF EndingInv, Heard, Places, Inside, Left, Cancelled
<1>10. ASSUME NEW kind \in Answers \union {"unknown_exception_error"}, Assembled(kind)
       PROVE  EndingInv'
  <2>1. kind # "none" /\ drained'
    BY <1>10 DEF Assembled, Resumes, Answers, PermitInv
  <2>2. QED
    BY <1>10, <2>1, StoreEnds DEF Assembled, Resumes
<1>11. ASSUME NEW pausesQuota \in BOOLEAN, AssembledFailure(pausesQuota)
       PROVE  EndingInv'
  <2>1. drained'
    BY <1>11 DEF AssembledFailure, Resumes, PermitInv
  <2>2. QED
    BY <1>11, <2>1, StoreEnds DEF AssembledFailure, Resumes
<1>12. CASE CancelReachesBlock
  <2>1. /\ pc \in Inside /\ pc' = "block"
        /\ UNCHANGED <<scope, drained, outcome, abandoned, raised, operationVars>>
    BY <1>12 DEF CancelReachesBlock
  <2>2. state' \in {state, "finished"}
    BY <1>12 DEF CancelReachesBlock
  <2>3. QED
    BY <2>1, <2>2, EndingKept DEF EndingInv, Places, Inside, Left, Cancelled
<1>13. CASE Swallow \/ CallerCancels
  BY <1>13, EndingKept DEF Swallow, CallerCancels, Resumes, EndingInv, endingVars,
     Places, Entering, Inside, Closing, Left, Cancelled
<1>14. CASE TimeoutExpires
  <2>1. /\ pc \in Entering \union Inside /\ scope = "open"
        /\ UNCHANGED <<pc, pending, outcome, abandoned, raised, operationVars>>
    BY <1>14 DEF TimeoutExpires, endingVars
  <2>2. outcome = NoEnding
    BY <2>1 DEF EndingInv
  <2>3. QED
    BY <2>1, <2>2, EndingKept DEF EndingInv, Places, Entering, Inside, Left, Cancelled
<1>15. ASSUME NEW timedOut \in BOOLEAN, CloseEnds(timedOut), pc \notin {"unopened"} \union Left,
              timedOut => outcome = NoEnding,
              outcome # NoEnding => (state' = "open" => drained') /\ scope' = "closed"
       PROVE  EndingInv'
  <2>1. CASE timedOut
    BY <1>15, <2>1, RaiseEnds DEF CloseEnds, Left, Cancelled
  <2>2. CASE ~timedOut
    BY <1>15, <2>2, AbandonEnds DEF CloseEnds, Left, Cancelled
  <2>3. QED
    BY <2>1, <2>2
<1>16. CASE LeaveBlock
  <2>1. pc = "block" /\ state' = "finished" /\ scope' = "closed"
    BY <1>16 DEF LeaveBlock, Resumes
  <2>2. TimedOut(unwinding) => outcome = NoEnding
    BY DEF TimedOut, EndingInv
  <2>3. CASE stream
    <3>1. /\ pc' = IF TimedOut(unwinding) THEN "closing_timed_out" ELSE "closing"
          /\ UNCHANGED <<outcome, abandoned, raised, operationVars>>
      BY <1>16, <2>3 DEF LeaveBlock, endingVars
    <3>2. QED
      BY <2>1, <2>2, <3>1, EndingKept DEF Places, Closing, Left, Cancelled
  <2>4. CASE ~stream
    <3>1. CloseEnds(TimedOut(unwinding))
      BY <1>16, <2>4 DEF LeaveBlock
    <3>2. TimedOut(unwinding) \in BOOLEAN
      BY DEF TimedOut
    <3>3. QED
      BY <1>15, <2>1, <2>2, <3>1, <3>2 DEF Left, Cancelled
  <2>5. QED
    BY <2>3, <2>4
<1>17. CASE ExitCloses
  <2>1. /\ pc \in Closing /\ CloseEnds(pc = "closing_timed_out")
        /\ UNCHANGED <<scope, state, drained>>
    BY <1>17 DEF ExitCloses
  <2>2. pc = "closing_timed_out" => outcome = NoEnding
    BY DEF EndingInv, Left, Cancelled
  <2>3. QED
    BY <1>15, <2>1, <2>2 DEF EndingInv, Closing, Left, Cancelled
<1>18. CASE ExitCloseCancelled
  <2>1. /\ pc' = IF pc = "closing" THEN "cancelled" ELSE "cancelled_timed_out"
        /\ pc \in Closing
        /\ UNCHANGED <<scope, state, drained>>
    BY <1>18 DEF ExitCloseCancelled, Closing
  <2>2. CASE pc = "closing"
    BY <1>18, <2>1, <2>2, AbandonEnds DEF ExitCloseCancelled, EndingInv, Left, Cancelled
  <2>3. CASE pc = "closing_timed_out"
    <3>1. outcome = NoEnding /\ pc \notin {"unopened"} \union Left
      BY <2>3 DEF EndingInv, Left, Cancelled
    <3>2. EndOperation(<< >>) /\ UNCHANGED <<outcome, abandoned, raised>>
      BY <1>18, <2>3 DEF ExitCloseCancelled, endingVars
    <3>3. operation' = FALSE /\ ends' = 1 /\ observed' = << >>
      BY <3>1, <3>2, Running, EndsSilently
    <3>4. outcome' = NoEnding /\ abandoned' = NoEnding /\ raised' = NoEnding
      BY <3>1, <3>2, Running
    <3>5. QED
      BY <2>1, <2>3, <3>3, <3>4 DEF EndingInv, Heard, Places, Left, Cancelled
  <2>4. QED
    BY <2>1, <2>2, <2>3 DEF Closing
<1>19. CASE UNCHANGED vars
  BY <1>19 DEF vars, EndingInv, endingVars, operationVars
<1>20. QED
  BY <1>1, <1>2, <1>3, <1>4, <1>5, <1>6, <1>8, <1>9, <1>10, <1>11, <1>12, <1>13, <1>14,
     <1>16, <1>17, <1>18, <1>19 DEF Next, Finished

LEMMA Invariance == Spec => [](PermitInv /\ EndingInv)
<1>1. QED
  BY PermitInit, PermitStep, EndingInit, EndingStep, PTL DEF Spec

(* A handle has at most one ending, and one when it was left, by whichever *)
(* cancellation: only where a caller's cancellation reaches the close of a *)
(* stream that had timed out may there be none.                            *)
THEOREM EndingIsUnique == Spec => []OneEnding
<1>1. EndingInv => OneEnding
  BY DEF EndingInv, OneEnding, Endings, Left, Cancelled
<1>2. QED
  BY <1>1, Invariance, PTL

(* The observer hears that ending and no other, and the operation ends     *)
(* once.                                                                   *)
THEOREM ObserverIsTold == Spec => []ObserverLearnsTheEnding
<1>1. ASSUME EndingInv PROVE ObserverLearnsTheEnding
  <2>1. ASSUME NEW ending, ending # NoEnding, Endings = {ending},
               observed = <<ending.kind>>
        PROVE  (CHOOSE e \in Endings : TRUE) = ending /\ Endings # {}
    BY <2>1
  <2>0. pc \in Left => ends = 1 /\ ~operation
    BY <1>1 DEF EndingInv, Left, Cancelled
  <2>2. CASE outcome # NoEnding
    <3>1. Endings = {outcome} /\ observed = <<outcome.kind>>
      BY <1>1, <2>2 DEF EndingInv, Endings, Heard
    <3>2. QED
      BY <2>0, <2>1, <2>2, <3>1 DEF ObserverLearnsTheEnding
  <2>3. CASE abandoned # NoEnding
    <3>1. Endings = {abandoned} /\ observed = <<abandoned.kind>>
      BY <1>1, <2>3 DEF EndingInv, Endings, Heard
    <3>2. QED
      BY <2>0, <2>1, <2>3, <3>1 DEF ObserverLearnsTheEnding
  <2>4. CASE raised # NoEnding
    <3>1. Endings = {raised} /\ observed = <<raised.kind>>
      BY <1>1, <2>4 DEF EndingInv, Endings, Heard
    <3>2. QED
      BY <2>0, <2>1, <2>4, <3>1 DEF ObserverLearnsTheEnding
  <2>5. CASE outcome = NoEnding /\ abandoned = NoEnding /\ raised = NoEnding
    BY <1>1, <2>0, <2>5 DEF ObserverLearnsTheEnding, EndingInv, Endings, Heard
  <2>6. QED
    BY <2>2, <2>3, <2>4, <2>5
<1>2. QED
  BY <1>1, Invariance, PTL

(* A stored outcome is never replaced, and no request follows it.          *)
THEOREM OutcomeIsStored == Spec => OutcomeIsKept
<1>1. ASSUME EndingInv, [Next]_vars
      PROVE  [outcome # NoEnding => outcome' = outcome /\ sent' = sent]_vars
  <2> SUFFICES ASSUME Next, outcome # NoEnding
               PROVE  outcome' = outcome /\ sent' = sent
    BY <1>1
  <2>1. pc \in {"block", "closing"} \union Left /\ scope = "closed"
    BY <1>1 DEF EndingInv, Left, Cancelled
  <2>2. \A led : Abandon(led) => outcome' = outcome
    BY DEF Abandon, endingVars
  <2>3. CASE LeaveBlock \/ ExitCloses \/ ExitCloseCancelled
    <3>1. \A cancelled : ~TimedOut(cancelled)
      BY <2>1 DEF TimedOut
    <3>2. CASE LeaveBlock
      BY <2>2, <3>1, <3>2 DEF LeaveBlock, CloseEnds, endingVars
    <3>3. CASE ExitCloses
      BY <2>1, <2>2, <3>3 DEF ExitCloses, CloseEnds, Closing, Left, Cancelled
    <3>4. CASE ExitCloseCancelled
      BY <2>1, <2>2, <3>4 DEF ExitCloseCancelled, Closing, Left, Cancelled
    <3>5. QED
      BY <2>3, <3>2, <3>3, <3>4
  <2>4. CASE CallNext \/ CallFinal \/ Swallow \/ CallerCancels
    BY <2>4 DEF CallNext, CallFinal, Swallow, CallerCancels, endingVars
  <2>5. CASE CancelReachesBlock \/ Finished
    BY <2>5 DEF CancelReachesBlock, Finished, vars, endingVars
  <2>6. QED
    BY <2>1, <2>3, <2>4, <2>5
       DEF Next, Enter, Admitted, StreamOpens, BackoffEnds, EntryCancelled, ItemArrives,
           UsageArrives, Exhausted, OpenFails, IterationFails, AssemblyFails,
           FailedStreamCloses, Assembled, AssembledFailure, TimeoutExpires, Resumes, Entering,
           Left, Cancelled
<1>2. QED
  BY <1>1, Invariance, PTL DEF Spec, OutcomeIsKept

-----------------------------------------------------------------------------
(***************************************************************************)
(* The history.                                                            *)
(***************************************************************************)

(* What an ending has to say of n requests.                                *)
Tells(ending, n, reported) ==
  /\ ending.records \in Seq(RequestRecords(Billings))
  /\ Accepted(ending.kind, ending.records)
  /\ Len(ending.records) = n /\ Len(ending.providerData) = n
  /\ \A i \in 1..n : ending.records[i].billing = Usage(i, reported)

(* The ledger has settled every request but the last, whose response is    *)
(* not complete; its usage is noted when the stream is closed.             *)
InFlight ==
  /\ sent >= 1 /\ Settled(ledger, sent - 1, usage, Billings)
  /\ ledger.inFlight /\ ledger.staged = NoBilling
  /\ pc = "opening" => sent \notin usage
  /\ pc \in Inside => stream
  /\ ledger.noted = IF pc \in Closing THEN Usage(sent, usage) ELSE NoBilling

(* The last request was recorded when its stream failed; what becomes of   *)
(* the failure is open, and a cancellation may lose it.                    *)
AllRecorded ==
  /\ state = "finished" /\ ~stream
  /\ AtRest(ledger)
  /\ \A kind \in {"timed_out_error", "abandoned_stream"} :
       Tells(Ending(kind, ledger), sent, usage)

HistoryInv ==
  /\ pc \in Places
  /\ sent \in 0..MaxRequests
  /\ usage \subseteq 1..sent
  /\ ledger \in Ledgers(Billings)
  /\ drained => sent \in usage
  /\ pc = "unopened" => sent = 0
  /\ pc \in {"unopened", "admission", "backoff"} =>
       sent < MaxRequests /\ Settled(ledger, sent, usage, Billings) /\ AtRest(ledger)
  /\ pc \in {"opening", "item", "draining", "assembling"} => InFlight
  /\ pc = "block" /\ outcome = NoEnding => InFlight \/ AllRecorded
  /\ pc \in Closing /\ outcome = NoEnding => InFlight
  /\ pc = "settling" => AllRecorded /\ Tells(pending, sent, usage)
  /\ pc # "settling" => pending = NoEnding
  /\ outcome # NoEnding => Tells(outcome, sent, usage)
  /\ abandoned # NoEnding => Tells(abandoned, sent, usage)
  /\ raised # NoEnding =>
       \/ ~NeverOpened(raised) /\ Tells(raised, sent, usage)
       \/ NeverOpened(raised) /\ sent >= 1 /\ Tells(raised, sent - 1, usage)

ControlInv ==
  /\ state \in {"unopened", "open", "finished"}
  /\ scope \in {"unlimited", "open", "expired", "closed"}
  /\ cancelling \in BOOLEAN /\ callerCancelled \in BOOLEAN /\ unwinding \in BOOLEAN
  /\ stream \in BOOLEAN /\ drained \in BOOLEAN
  /\ pauses \subseteq 1..sent /\ told = pauses

-----------------------------------------------------------------------------
(***************************************************************************)
(* Endings of each shape.                                                  *)
(***************************************************************************)
LEMMA NoBillingIsBilling == NoBilling \in Billings
BY RequestsAssumption DEF NoBilling, Billings

LEMMA EndsWithFailures ==
  ASSUME NEW led, NEW n \in Nat, NEW reported, Settled(led, n, reported, Billings), NEW kind,
         \/ kind \in {"retries_exhausted_error", "retry_unavailable_error"} /\ n > 0
         \/ kind = "rejected_error" /\ n = 0
         \/ kind \in {"timed_out_error", "abandoned_stream", "unknown_exception_error"}
  PROVE  /\ Tells(Ending(kind, led), n, reported)
         /\ NeverOpened(Ending(kind, led)) <=> kind = "unknown_exception_error"
<1>1. /\ Ending(kind, led).kind = kind /\ Ending(kind, led).records = led.records
      /\ Ending(kind, led).providerData = led.providerData
  BY DEF Ending
<1>2. Accepted(kind, led.records)
  BY FailuresShape, AcceptedEndings
<1>3. led.records # << >> => Final(led.records).error
  BY FailuresShape
<1>4. QED
  BY <1>1, <1>2, <1>3 DEF Settled, Ledgers, Tells, NeverOpened

LEMMA EndsWithLast ==
  ASSUME NEW led \in Ledgers(Billings), NEW n \in Nat \ {0}, NEW reported,
         NEW how \in {"settled", "cut_off"}, NEW message \in BOOLEAN,
         EndsIn(led, n, how, message, Usage(n, reported), reported), NEW kind,
         \/ message /\ how = "settled" /\ n \in reported
            /\ kind \in Answers \union {"unknown_exception_error"}
         \/ ~message /\ how = "settled"
            /\ kind \in {"auth_error", "rejected_error", "provider_failed_terminally_error",
                         "timed_out_error", "abandoned_stream", "unknown_exception_error"}
         \/ ~message /\ kind \in {"timed_out_error", "abandoned_stream",
                                  "unknown_exception_error"}
  PROVE  /\ Tells(Ending(kind, led), n, reported)
         /\ ~NeverOpened(Ending(kind, led))
<1>1. /\ Ending(kind, led).kind = kind /\ Ending(kind, led).records = led.records
      /\ Ending(kind, led).providerData = led.providerData
  BY DEF Ending
<1>2. CutOffOnlyLast(led.records)
  BY DEF EndsIn
<1>3. Accepted(kind, led.records)
  <2>1. CASE message
    <3>1. FinishedMessage(led.records)
      BY <2>1 DEF EndsIn, Usage, NoBilling
    <3>2. QED
      BY <1>2, <2>1, <3>1, AcceptedEndings DEF Answers
  <2>2. CASE ~message
    <3>1. AbandonedShape(led.records)
      BY <2>2 DEF EndsIn
    <3>2. how = "settled" => FinalTerminalResponse(led.records)
      BY <2>2 DEF EndsIn
    <3>3. QED
      BY <1>2, <2>2, <3>1, <3>2, AcceptedEndings
  <2>3. QED
    BY <2>1, <2>2
<1>4. \A i \in 1..n : led.records[i].billing = Usage(i, reported)
  <2>1. led.records[n].billing = Usage(n, reported)
    BY DEF EndsIn, Record
  <2>2. \A i \in 1..(n - 1) : led.records[i].billing = Usage(i, reported)
    BY DEF EndsIn
  <2>3. QED
    BY <2>1, <2>2
<1>5. led.records # << >> /\ ~Final(led.records).error
  BY DEF EndsIn
<1>6. Len(led.records) = n /\ Len(led.providerData) = n
  BY DEF EndsIn
<1>7. QED
  BY <1>1, <1>3, <1>4, <1>5, <1>6 DEF Ledgers, Tells, NeverOpened

(* A ledger that has settled every request but the last, with the usage of *)
(* the last known.                                                         *)
Failing(led) ==
  /\ sent \in 1..MaxRequests /\ Settled(led, sent - 1, usage, Billings) /\ led.inFlight
  /\ KnownBilling(led) = Usage(sent, usage)

LEMMA RequestCutOff ==
  ASSUME NEW led, Failing(led), led.staged = NoBilling,
         NEW kind \in {"timed_out_error", "abandoned_stream", "unknown_exception_error"}
  PROVE  /\ FrozenWithCutOff(led) \in Ledgers(Billings)
         /\ Tells(Ending(kind, FrozenWithCutOff(led)), sent, usage)
         /\ ~NeverOpened(Ending(kind, FrozenWithCutOff(led)))
<1> DEFINE new == WithRecord(led, "cut_off", FALSE, FALSE, led.noted)
<1>1. FrozenWithCutOff(led) = new
  BY DEF FrozenWithCutOff, Failing
<1>2. led \in Ledgers(Billings) /\ led.noted \in Billings /\ sent \in Nat \ {0}
  BY RequestsAssumption DEF Failing, Settled, Ledgers
<1>3. Extends(new, led, Record("cut_off", FALSE, FALSE, led.noted), Billings)
  BY <1>2, RecordIsAdded
<1>4. led.noted = Usage(sent, usage)
  BY DEF Failing, KnownBilling
<1> HIDE DEF new
<1>5. EndsIn(new, sent, "cut_off", FALSE, led.noted, usage)
  BY <1>2, <1>3, LastShape DEF Failing, Record
<1>6. new \in Ledgers(Billings)
  BY <1>3 DEF Extends
<1>7. QED
  BY <1>1, <1>2, <1>4, <1>5, <1>6, EndsWithLast

LEMMA RequestSettled ==
  ASSUME NEW led, Failing(led), NEW message \in BOOLEAN, NEW kind,
         \/ message /\ sent \in usage /\ kind \in Answers \union {"unknown_exception_error"}
         \/ ~message /\ kind \in {"auth_error", "rejected_error",
              "provider_failed_terminally_error", "timed_out_error", "abandoned_stream",
              "unknown_exception_error"}
  PROVE  /\ RecordRequest(led, FALSE, message) \in Ledgers(Billings)
         /\ AtRest(RecordRequest(led, FALSE, message))
         /\ Tells(Ending(kind, RecordRequest(led, FALSE, message)), sent, usage)
         /\ ~NeverOpened(Ending(kind, RecordRequest(led, FALSE, message)))
<1> DEFINE new == RecordRequest(led, FALSE, message)
<1>1. led \in Ledgers(Billings) /\ sent \in Nat \ {0}
  BY RequestsAssumption DEF Failing, Settled
<1>2. /\ Extends(new, led, Record("settled", FALSE, message, Usage(sent, usage)), Billings)
      /\ AtRest(new)
  BY <1>1, RequestIsRecorded, NoBillingIsBilling DEF Failing
<1> HIDE DEF new
<1>3. EndsIn(new, sent, "settled", message, Usage(sent, usage), usage)
  BY <1>1, <1>2, LastShape DEF Failing, Record
<1>4. new \in Ledgers(Billings)
  BY <1>2 DEF Extends
<1>5. Tells(Ending(kind, new), sent, usage) /\ ~NeverOpened(Ending(kind, new))
  BY <1>1, <1>3, <1>4, EndsWithLast
<1>6. QED
  BY <1>2, <1>4, <1>5 DEF new

LEMMA RequestFailed ==
  ASSUME NEW led, Failing(led), NEW message \in BOOLEAN
  PROVE  /\ Settled(RecordRequest(led, TRUE, message), sent, usage, Billings)
         /\ AtRest(RecordRequest(led, TRUE, message))
<1> DEFINE new == RecordRequest(led, TRUE, message)
<1>1. led \in Ledgers(Billings) /\ sent \in Nat \ {0}
  BY RequestsAssumption DEF Failing, Settled
<1>2. /\ Extends(new, led, Record("settled", TRUE, message, Usage(sent, usage)), Billings)
      /\ AtRest(new)
  BY <1>1, RequestIsRecorded, NoBillingIsBilling DEF Failing
<1> HIDE DEF new
<1>3. Settled(new, sent, usage, Billings)
  BY <1>1, <1>2, FailureIsAdded DEF Failing
<1>4. QED
  BY <1>2, <1>3 DEF new

LEMMA FrozenFailure ==
  ASSUME NEW led, Failing(led)
  PROVE  /\ FrozenWithCutOff(led) \in Ledgers(Billings)
         /\ Tells(Ending("unknown_exception_error", FrozenWithCutOff(led)), sent, usage)
         /\ ~NeverOpened(Ending("unknown_exception_error", FrozenWithCutOff(led)))
<1>1. CASE led.staged = NoBilling
  BY <1>1, RequestCutOff
<1>2. CASE led.staged # NoBilling
  <2>1. FrozenWithCutOff(led) = RecordRequest(led, FALSE, FALSE)
    BY <1>2 DEF FrozenWithCutOff, Frozen
  <2>2. QED
    BY <2>1, RequestSettled
<1>3. QED
  BY <1>1, <1>2

-----------------------------------------------------------------------------
(***************************************************************************)
(* Steps that end a handle.                                                *)
(***************************************************************************)
LEMMA Leaves ==
  ASSUME HistoryInv, pc # "settling", pc' \in Left,
         UNCHANGED <<pending, sent, usage, drained, outcome>>,
         ledger' \in Ledgers(Billings),
         abandoned' # abandoned => Tells(abandoned', sent, usage),
         raised' # raised =>
           \/ ~NeverOpened(raised') /\ Tells(raised', sent, usage)
           \/ NeverOpened(raised') /\ sent >= 1 /\ Tells(raised', sent - 1, usage)
  PROVE  HistoryInv'
BY DEF HistoryInv, Places, Entering, Inside, Closing, Left, Cancelled

LEMMA Raises ==
  ASSUME HistoryInv, pc # "settling", pc' \in Left, UNCHANGED <<sent, usage, drained>>,
         NEW kind, NEW frozen \in Ledgers(Billings), Raise(kind, frozen),
         \/ ~NeverOpened(Ending(kind, frozen)) /\ Tells(Ending(kind, frozen), sent, usage)
         \/ /\ NeverOpened(Ending(kind, frozen))
            /\ sent >= 1 /\ Tells(Ending(kind, frozen), sent - 1, usage)
  PROVE  HistoryInv'
BY Leaves DEF Raise

LEMMA Abandons ==
  ASSUME HistoryInv, pc # "settling", pc' \in Left, UNCHANGED <<sent, usage, drained>>,
         NEW led \in Ledgers(Billings), Abandon(led),
         outcome = NoEnding =>
           /\ FrozenWithCutOff(led) \in Ledgers(Billings)
           /\ Tells(Ending("abandoned_stream", FrozenWithCutOff(led)), sent, usage)
  PROVE  HistoryInv'
BY Leaves DEF Abandon, endingVars

(* A handle that is left while no outcome is stored.                       *)
LEMMA LeftHistory ==
  ASSUME HistoryInv, NEW kind \in {"timed_out_error", "abandoned_stream"},
         \/ pc \in Entering
         \/ pc \in Closing /\ outcome = NoEnding
         \/ AllRecorded
  PROVE  /\ FrozenWithCutOff(ledger) \in Ledgers(Billings)
         /\ Tells(Ending(kind, FrozenWithCutOff(ledger)), sent, usage)
         /\ ~NeverOpened(Ending(kind, FrozenWithCutOff(ledger)))
<1>1. ledger \in Ledgers(Billings) /\ sent \in Nat
  BY RequestsAssumption DEF HistoryInv
<1>2. ~NeverOpened(Ending(kind, FrozenWithCutOff(ledger)))
  BY DEF NeverOpened, Ending
<1>3. AtRest(ledger) => FrozenWithCutOff(ledger) = ledger
  BY FrozenAtRest DEF AtRest, FrozenWithCutOff
<1>4. CASE AllRecorded
  BY <1>1, <1>2, <1>3, <1>4 DEF AllRecorded
<1>5. CASE pc \in {"admission", "backoff"}
  <2>1. Settled(ledger, sent, usage, Billings) /\ AtRest(ledger)
    BY <1>5 DEF HistoryInv
  <2>2. Tells(Ending(kind, ledger), sent, usage)
    BY <1>1, <2>1, EndsWithFailures
  <2>3. QED
    BY <1>1, <1>2, <1>3, <2>1, <2>2
<1>6. CASE pc = "opening" \/ (pc \in Closing /\ outcome = NoEnding)
  <2>1. InFlight
    BY <1>6 DEF HistoryInv
  <2>2. ledger.noted = Usage(sent, usage)
    BY <1>6, <2>1 DEF InFlight, Usage, Closing
  <2>3. Failing(ledger) /\ ledger.staged = NoBilling
    BY <2>1, <2>2, RequestsAssumption DEF InFlight, Failing, KnownBilling, HistoryInv
  <2>4. QED
    BY <2>3, RequestCutOff
<1>7. QED
  BY <1>4, <1>5, <1>6 DEF Entering

LEMMA Stores ==
  ASSUME HistoryInv, pc # "settling", UNCHANGED <<sent, usage, drained>>,
         NEW kind, kind # "none", NEW frozen \in Ledgers(Billings),
         StoreOutcome(kind, frozen), Tells(Ending(kind, frozen), sent, usage)
  PROVE  HistoryInv'
<1>1. outcome' # NoEnding /\ outcome' = Ending(kind, frozen)
  BY EndingIsSome DEF StoreOutcome
<1>2. QED
  BY <1>1 DEF StoreOutcome, HistoryInv, Places, Entering, Inside, Closing

-----------------------------------------------------------------------------
(***************************************************************************)
(* The request in flight, as its failure or its response finds it.         *)
(***************************************************************************)
LEMMA Noted ==
  ASSUME HistoryInv, InFlight
  PROVE  Failing(NoteBilling(ledger, BillingInFlight))
<1>1. /\ ledger \in Ledgers(Billings) /\ sent \in 1..MaxRequests
      /\ BillingInFlight = Usage(sent, usage)
  BY RequestsAssumption DEF HistoryInv, InFlight, BillingInFlight, Usage
<1>2. Usage(sent, usage) \in Billings
  BY <1>1, NoBillingIsBilling DEF Usage, Billings
<1> DEFINE led == NoteBilling(ledger, BillingInFlight)
<1>3. /\ led.records = ledger.records /\ led.providerData = ledger.providerData
      /\ led.noted = Usage(sent, usage) /\ led.staged = ledger.staged
      /\ led.inFlight = ledger.inFlight /\ led \in Ledgers(Billings)
  BY <1>1, <1>2 DEF NoteBilling, Ledgers
<1> HIDE DEF led
<1>4. Failing(led)
  BY <1>1, <1>3 DEF InFlight, Failing, Settled, KnownBilling
<1>5. QED
  BY <1>4 DEF led

LEMMA Staged ==
  ASSUME HistoryInv, InFlight, sent \in usage
  PROVE  /\ Failing(StageResponse(ledger, sent))
         /\ Failing(NoteBilling(StageResponse(ledger, sent), BillingInFlight))
<1>1. /\ ledger \in Ledgers(Billings) /\ sent \in 1..MaxRequests /\ sent \in Billings
      /\ sent # NoBilling /\ Usage(sent, usage) = sent /\ BillingInFlight = sent
  BY RequestsAssumption
     DEF HistoryInv, InFlight, Billings, NoBilling, Usage, BillingInFlight
<1> DEFINE led == StageResponse(ledger, sent)
<1>2. /\ led.records = ledger.records /\ led.providerData = ledger.providerData
      /\ led.staged = sent /\ led.inFlight = ledger.inFlight /\ led \in Ledgers(Billings)
  BY <1>1 DEF StageResponse, Ledgers
<1> HIDE DEF led
<1>3. Failing(led)
  BY <1>1, <1>2 DEF InFlight, Failing, Settled, KnownBilling
<1> DEFINE noted == NoteBilling(led, BillingInFlight)
<1>4. /\ noted.records = led.records /\ noted.providerData = led.providerData
      /\ noted.staged = led.staged /\ noted.inFlight = led.inFlight
      /\ noted \in Ledgers(Billings)
  BY <1>1, <1>2 DEF NoteBilling, Ledgers
<1> HIDE DEF noted
<1>5. Failing(noted)
  BY <1>1, <1>2, <1>3, <1>4 DEF Failing, Settled, KnownBilling
<1>6. QED
  BY <1>3, <1>5 DEF led, noted

LEMMA TerminalKinds ==
  ASSUME NEW failure, failure.kind \in AnsweredKinds \union {"unknown_exception"}
  PROVE  /\ TerminalKind(failure.kind) \in {"auth_error", "rejected_error",
              "provider_failed_terminally_error", "unknown_exception_error"}
         /\ TerminalKind(failure.kind) = "unknown_exception_error"
              <=> failure.kind = "unknown_exception"
BY DEF TerminalKind, AnsweredKinds

LEMMA OpeningFails ==
  ASSUME HistoryInv, NEW failure \in Failures, OpenFails(failure)
  PROVE  HistoryInv'
<1>1. pc = "opening" /\ UNCHANGED <<sent, usage, drained>>
  BY DEF OpenFails, Resumes
<1>2. InFlight /\ sent >= 1 /\ sent \in Nat /\ sent <= MaxRequests
  BY <1>1, RequestsAssumption DEF HistoryInv, InFlight
<1>3. Failing(ledger) /\ ledger.staged = NoBilling /\ ledger \in Ledgers(Billings)
  BY <1>1, <1>2, RequestsAssumption DEF InFlight, Failing, KnownBilling, Usage, HistoryInv, Closing
<1>4. ASSUME NEW kind, NEW frozen \in Ledgers(Billings), FailEntry(kind, frozen),
             \/ ~NeverOpened(Ending(kind, frozen)) /\ Tells(Ending(kind, frozen), sent, usage)
             \/ /\ NeverOpened(Ending(kind, frozen))
                /\ sent >= 1 /\ Tells(Ending(kind, frozen), sent - 1, usage)
      PROVE  HistoryInv'
  BY <1>1, <1>4, Raises DEF FailEntry, Left, Cancelled
<1>5. CASE failure.kind = "defect" /\ FailEntry("unknown_exception_error", FrozenWithCutOff(ledger))
  BY <1>3, <1>4, <1>5, FrozenFailure
<1>6. CASE /\ failure.kind \in AnsweredKinds
           /\ FailEntry(TerminalKind(failure.kind),
                        Frozen(SettledTerminally(failure, FALSE, ledger)))
  <2> DEFINE new == RecordRequest(ledger, FALSE, FALSE)
  <2>1. TerminalKind(failure.kind) \in {"auth_error", "rejected_error",
          "provider_failed_terminally_error", "unknown_exception_error"}
    BY <1>6, TerminalKinds
  <2>2. /\ new \in Ledgers(Billings) /\ AtRest(new)
        /\ Tells(Ending(TerminalKind(failure.kind), new), sent, usage)
        /\ ~NeverOpened(Ending(TerminalKind(failure.kind), new))
    BY <1>3, <2>1, RequestSettled
  <2>3. Frozen(SettledTerminally(failure, FALSE, ledger)) = new
    BY <1>6, <2>2, FrozenAtRest DEF SettledTerminally, AtRest
  <2>4. QED
    BY <1>4, <1>6, <2>2, <2>3
<1>7. CASE /\ failure.kind = "unknown_exception"
           /\ FailEntry(TerminalKind(failure.kind),
                        Frozen(SettledTerminally(failure, FALSE, ledger)))
  <2>1. Frozen(SettledTerminally(failure, FALSE, ledger)) = ledger
    BY <1>3, <1>7, FrozenAtRest DEF SettledTerminally, AnsweredKinds
  <2>2. TerminalKind(failure.kind) = "unknown_exception_error"
    BY <1>7, TerminalKinds
  <2>3. sent - 1 \in Nat /\ Settled(ledger, sent - 1, usage, Billings)
    BY <1>2 DEF InFlight
  <2>4. /\ NeverOpened(Ending("unknown_exception_error", ledger))
        /\ Tells(Ending("unknown_exception_error", ledger), sent - 1, usage)
    BY <2>3, EndsWithFailures
  <2>5. QED
    BY <1>2, <1>3, <1>4, <1>7, <2>1, <2>2, <2>4
<1>8. CASE failure.kind = "transient" /\ RetryOrExhaust(failure, RecordRequest(ledger, TRUE, FALSE))
  <2> DEFINE new == RecordRequest(ledger, TRUE, FALSE)
  <2>1. Settled(new, sent, usage, Billings) /\ AtRest(new)
    BY <1>3, RequestFailed
  <2> HIDE DEF new
  <2>2. new \in Ledgers(Billings) /\ Len(new.records) = sent /\ Frozen(new) = new
    BY <2>1, FrozenAtRest DEF Settled, AtRest
  <2>3. CASE FailEntry("retries_exhausted_error", Frozen(new))
    <3>1. /\ Tells(Ending("retries_exhausted_error", new), sent, usage)
          /\ ~NeverOpened(Ending("retries_exhausted_error", new))
      BY <1>2, <2>1, EndsWithFailures
    <3>2. QED
      BY <1>4, <2>2, <2>3, <3>1
  <2>4. CASE /\ Len(new.records) < MaxRequests /\ pc' \in {"admission", "backoff"}
             /\ ledger' = new /\ UNCHANGED endingVars
    BY <1>1, <2>1, <2>2, <2>4 DEF HistoryInv, endingVars, Places, Entering, Closing
  <2>5. QED
    BY <1>8, <2>3, <2>4 DEF RetryOrExhaust, new
<1>9. QED
  BY <1>5, <1>6, <1>7, <1>8 DEF OpenFails

(* A failure of the open stream: one that cannot be placed is the outcome  *)
(* at once, any other waits for the stream to be closed.                   *)
LEMMA FailureOfTheStream ==
  ASSUME HistoryInv, pc \in {"item", "draining", "assembling"}, NEW failure \in Failures,
         NEW led, Failing(led), FailStream(failure, led)
  PROVE  HistoryInv'
<1>1. UNCHANGED <<sent, usage, drained>> /\ state' = "finished" /\ sent \in Nat /\ sent >= 1
  BY RequestsAssumption DEF FailStream, Failing
<1>2. CASE failure.kind = "defect" /\ StoreOutcome("unknown_exception_error", FrozenWithCutOff(led))
  BY <1>1, <1>2, FrozenFailure, Stores
<1>3. ASSUME NEW new, AtRest(new), new \in Ledgers(Billings), ledger' = new,
             \A kind \in {"timed_out_error", "abandoned_stream"} :
               Tells(Ending(kind, new), sent, usage),
             pc' = "settling", stream' = FALSE, Tells(pending', sent, usage),
             UNCHANGED <<outcome, abandoned, raised>>
      PROVE  HistoryInv'
  <2>1. AllRecorded'
    BY <1>1, <1>3 DEF AllRecorded
  <2>2. QED
    BY <1>1, <1>3, <2>1 DEF HistoryInv, Places, Entering, Inside, Closing
<1>4. CASE /\ failure.kind # "defect"
           /\ pc' = "settling" /\ stream' = FALSE
           /\ pending' = SettledFailure(failure, led)
           /\ ledger' = RecordRequest(led, failure.kind = "transient", FALSE)
           /\ UNCHANGED <<outcome, abandoned, raised>>
  <2>1. CASE failure.kind = "transient"
    <3> DEFINE new == RecordRequest(led, TRUE, FALSE)
    <3>1. Settled(new, sent, usage, Billings) /\ AtRest(new)
      BY RequestFailed
    <3>2. (failure.kind = "transient") = TRUE
      BY <2>1
    <3>3. ledger' = new
      BY <1>4, <3>2, Zenon
    <3>4. pending' = Ending("retry_unavailable_error", Frozen(new))
      BY <1>4, <2>1 DEF SettledFailure
    <3> HIDE DEF new
    <3>5. pending' = Ending("retry_unavailable_error", new)
      BY <3>1, <3>4, FrozenAtRest DEF AtRest
    <3>6. new \in Ledgers(Billings)
      BY <3>1 DEF Settled
    <3>7. \A kind \in {"timed_out_error", "abandoned_stream"} :
            Tells(Ending(kind, new), sent, usage)
      BY <1>1, <3>1, EndsWithFailures
    <3>8. Tells(pending', sent, usage)
      BY <1>1, <3>1, <3>5, EndsWithFailures
    <3>9. QED
      BY <1>3, <1>4, <3>1, <3>3, <3>6, <3>7, <3>8
  <2>2. CASE failure.kind # "transient"
    <3> DEFINE new == RecordRequest(led, FALSE, FALSE)
               kind == TerminalKind(failure.kind)
    <3>1. kind \in {"auth_error", "rejected_error",
            "provider_failed_terminally_error", "unknown_exception_error"}
      BY <1>4, <2>2, TerminalKinds DEF Failures
    <3>2. (failure.kind = "transient") = FALSE
      BY <2>2
    <3>3. ledger' = new
      BY <1>4, <3>2, Zenon
    <3>4. /\ new \in Ledgers(Billings) /\ AtRest(new)
          /\ Tells(Ending(kind, new), sent, usage)
      BY <3>1, RequestSettled
    <3>5. \A k \in {"timed_out_error", "abandoned_stream"} :
            Tells(Ending(k, new), sent, usage)
      BY RequestSettled
    <3>6. pending' = Ending(kind, Frozen(new))
      BY <1>4, <2>2 DEF SettledFailure, SettledTerminally
    <3> HIDE DEF new, kind
    <3>7. pending' = Ending(kind, new)
      BY <3>4, <3>6, FrozenAtRest DEF AtRest
    <3>8. QED
      BY <1>3, <1>4, <3>3, <3>4, <3>5, <3>7
  <2>3. QED
    BY <2>1, <2>2
<1>5. QED
  BY <1>2, <1>4 DEF FailStream

LEMMA ResponseIsStored ==
  ASSUME HistoryInv, pc = "assembling", sent \in usage, NEW kind, NEW error \in BOOLEAN,
         StoreOutcome(kind, Frozen(ResponseRecorded(error))),
         ~error => kind \in Answers \union {"unknown_exception_error"},
         error => kind = "retry_unavailable_error",
         UNCHANGED <<sent, usage, drained>>
  PROVE  HistoryInv'
<1> DEFINE led == StageResponse(ledger, sent)
           new == RecordRequest(led, error, TRUE)
<1>1. Failing(led) /\ sent \in Nat /\ sent >= 1
  BY Staged, RequestsAssumption DEF HistoryInv, Failing
<1> HIDE DEF led
<1>2. /\ new \in Ledgers(Billings) /\ AtRest(new)
      /\ Tells(Ending(kind, new), sent, usage)
  <2>1. CASE error
    <3> DEFINE failed == RecordRequest(led, TRUE, TRUE)
    <3>1. Settled(failed, sent, usage, Billings) /\ AtRest(failed)
      BY <1>1, RequestFailed
    <3>2. error = TRUE
      BY <2>1
    <3>3. new = failed
      BY <3>2
    <3> HIDE DEF failed, new
    <3>4. Tells(Ending("retry_unavailable_error", failed), sent, usage)
      BY <1>1, <3>1, EndsWithFailures
    <3>5. QED
      BY <2>1, <3>1, <3>3, <3>4 DEF Settled
  <2>2. CASE ~error
    <3>1. error = FALSE
      BY <2>2
    <3>2. /\ RecordRequest(led, FALSE, TRUE) \in Ledgers(Billings)
          /\ AtRest(RecordRequest(led, FALSE, TRUE))
          /\ Tells(Ending(kind, RecordRequest(led, FALSE, TRUE)), sent, usage)
      BY <1>1, <2>2, RequestSettled
    <3>3. QED
      BY <3>1, <3>2
  <2>3. QED
    BY <2>1, <2>2
<1>3. Frozen(ResponseRecorded(error)) = new
  BY <1>2, FrozenAtRest DEF AtRest, ResponseRecorded, led
<1>4. kind # "none"
  BY DEF Answers
<1> HIDE DEF new
<1>5. QED
  BY <1>2, <1>3, <1>4, Stores

(* The exit, when the stream is closed or there is none left to close.     *)
LEMMA ExitHistory ==
  ASSUME HistoryInv, EndingInv, NEW timedOut \in BOOLEAN, CloseEnds(timedOut),
         \/ pc \in Closing
         \/ pc = "block" /\ (outcome = NoEnding => AllRecorded),
         timedOut => outcome = NoEnding,
         UNCHANGED <<sent, usage, drained>>
  PROVE  HistoryInv'
<1>1. pc' \in Left /\ pc # "settling" /\ ledger \in Ledgers(Billings)
  BY DEF CloseEnds, Left, Cancelled, Closing, HistoryInv
<1>2. ASSUME NEW kind \in {"timed_out_error", "abandoned_stream"}, outcome = NoEnding
      PROVE  /\ FrozenWithCutOff(ledger) \in Ledgers(Billings)
             /\ Tells(Ending(kind, FrozenWithCutOff(ledger)), sent, usage)
             /\ ~NeverOpened(Ending(kind, FrozenWithCutOff(ledger)))
  BY <1>2, LeftHistory
<1>3. CASE timedOut /\ Raise("timed_out_error", FrozenWithCutOff(ledger))
  BY <1>1, <1>2, <1>3, Raises
<1>4. CASE Abandon(ledger)
  BY <1>1, <1>2, <1>4, Abandons
<1>5. QED
  BY <1>3, <1>4 DEF CloseEnds

-----------------------------------------------------------------------------
LEMMA HistoryInit == Init => HistoryInv
<1> SUFFICES ASSUME Init PROVE HistoryInv
  OBVIOUS
<1>1. NewLedger \in Ledgers(Billings)
  BY NoBillingIsBilling DEF NewLedger, Ledgers
<1>2. Settled(NewLedger, 0, {}, Billings) /\ AtRest(NewLedger)
  BY <1>1 DEF NewLedger, Settled, AtRest
<1>3. QED
  BY <1>1, <1>2, RequestsAssumption DEF Init, HistoryInv, Places, Closing

LEMMA HistoryStep == PermitInv /\ EndingInv /\ HistoryInv /\ [Next]_vars => HistoryInv'
<1> SUFFICES ASSUME PermitInv, EndingInv, HistoryInv, [Next]_vars PROVE HistoryInv'
  OBVIOUS
<1>0. sent \in Nat /\ (\A i : i \in 1..(sent - 1) => i # sent)
  BY RequestsAssumption DEF HistoryInv
<1>1. CASE Enter
  <2>1. /\ pc = "unopened" /\ UNCHANGED <<ledger, pending, outcome, abandoned, drained, sent, usage>>
        /\ sent = 0 /\ Settled(ledger, sent, usage, Billings) /\ AtRest(ledger)
        /\ ledger \in Ledgers(Billings)
    BY <1>1 DEF Enter, endingVars, HistoryInv
  <2>2. CASE pc' = "admission" /\ raised' = raised
    BY <2>1, <2>2 DEF HistoryInv, Places, Entering, Closing
  <2>3. CASE pc' = "finished" /\ raised' = Ending("rejected_error", Frozen(ledger))
    <3>1. Frozen(ledger) = ledger
      BY <2>1, FrozenAtRest DEF AtRest
    <3>2. /\ Tells(Ending("rejected_error", ledger), sent, usage)
          /\ ~NeverOpened(Ending("rejected_error", ledger))
      BY <1>0, <2>1, EndsWithFailures
    <3>3. QED
      BY <2>1, <2>3, <3>1, <3>2, Leaves DEF Left, Cancelled
  <2>4. QED
    BY <1>1, <2>2, <2>3 DEF Enter, endingVars
<1>2. CASE Admitted
  <2>1. /\ pc = "admission" /\ pc' = "opening" /\ sent' = sent + 1
        /\ ledger' = StartRequest(ledger)
        /\ UNCHANGED <<pending, outcome, abandoned, raised, drained, usage>>
    BY <1>2 DEF Admitted, Resumes, endingVars
  <2>2. /\ Settled(ledger, sent, usage, Billings) /\ AtRest(ledger) /\ sent < MaxRequests
        /\ ledger \in Ledgers(Billings) /\ usage \subseteq 1..sent
    BY <2>1 DEF HistoryInv
  <2>3. outcome = NoEnding /\ abandoned = NoEnding /\ raised = NoEnding /\ ~drained
    BY <2>1 DEF EndingInv, PermitInv, Left, Cancelled, Entering
  <2>4. /\ ledger'.records = ledger.records /\ ledger'.providerData = ledger.providerData
        /\ ledger' \in Ledgers(Billings) /\ ledger'.staged = NoBilling
        /\ ledger'.inFlight /\ ledger'.noted = NoBilling
    BY <2>1, <2>2 DEF StartRequest, Ledgers, AtRest
  <2>5. Settled(ledger', sent' - 1, usage, Billings)
    BY <1>0, <2>1, <2>2, <2>4 DEF Settled
  <2>6. InFlight'
    BY <1>0, <2>1, <2>2, <2>4, <2>5 DEF InFlight, Inside, Closing
  <2>7. QED
    BY <1>0, <2>1, <2>2, <2>3, <2>4, <2>6, RequestsAssumption
       DEF HistoryInv, Places, Entering, Closing
<1>3. CASE BackoffEnds
  BY <1>3 DEF BackoffEnds, Resumes, HistoryInv, endingVars, Places, Entering, Closing
(* The stream goes on, and may report its usage.                           *)
<1>4. ASSUME pc \in {"opening", "block", "item", "draining", "assembling"}, InFlight,
             outcome = NoEnding,
             pc' \in {"block", "item", "draining", "assembling"}, stream',
             UNCHANGED <<ledger, pending, outcome, abandoned, raised, sent>>,
             \/ usage' = usage /\ drained' = drained
             \/ usage' = usage \union {sent} /\ drained' \in {drained, TRUE}
      PROVE  HistoryInv'
  <2>1. Settled(ledger', sent' - 1, usage', Billings)
    BY <1>0, <1>4 DEF InFlight, Settled, Usage
  <2>2. InFlight'
    BY <1>4, <2>1 DEF InFlight, Inside, Closing
  <2>3. usage' \subseteq 1..sent /\ (drained' => sent \in usage')
    <3>1. sent \in 1..sent /\ usage \subseteq 1..sent
      BY <1>0, <1>4 DEF HistoryInv, InFlight
    <3>2. drained => sent \in usage
      BY DEF HistoryInv
    <3>3. usage' \subseteq 1..sent
      BY <1>4, <3>1
    <3>4. drained' => sent \in usage'
      BY <1>4, <3>2
    <3>5. QED
      BY <3>3, <3>4
  <2>4. abandoned = NoEnding /\ raised = NoEnding /\ pending = NoEnding
    BY <1>4 DEF EndingInv, HistoryInv, Left, Cancelled
  <2>5. QED
    BY <1>4, <2>2, <2>3, <2>4 DEF HistoryInv, Places, Inside, Closing
<1>5. ASSUME pc \in {"opening", "item", "draining", "assembling"}
      PROVE  InFlight /\ outcome = NoEnding
  BY <1>5 DEF HistoryInv, EndingInv, Left, Cancelled
<1>6. ASSUME pc \in {"item", "draining", "assembling"}
      PROVE  stream
  BY <1>5, <1>6 DEF InFlight, Inside
<1>7. CASE StreamOpens
  BY <1>4, <1>5, <1>7 DEF StreamOpens, Resumes, endingVars
<1>8. CASE CallNext \/ CallFinal
  <2>1. MayCall /\ outcome = NoEnding
    BY <1>8 DEF CallNext, CallFinal, MayCall, EndingInv
  <2>2. InFlight /\ pc = "block"
    BY <2>1 DEF MayCall, Resumes, HistoryInv, AllRecorded
  <2>3. QED
    BY <1>4, <1>8, <2>1, <2>2 DEF CallNext, CallFinal, endingVars, InFlight, Inside
<1>9. CASE ItemArrives \/ UsageArrives \/ Exhausted
  BY <1>4, <1>5, <1>6, <1>9 DEF ItemArrives, UsageArrives, Exhausted, Resumes, endingVars
<1>10. CASE EntryCancelled
  <2>1. /\ pc \in Entering /\ pc # "settling" /\ pc' \in Left
        /\ UNCHANGED <<sent, usage, drained>> /\ ledger \in Ledgers(Billings)
    BY <1>10 DEF EntryCancelled, Entering, Left, Cancelled, HistoryInv
  <2>2. \A kind \in {"timed_out_error", "abandoned_stream"} :
          /\ FrozenWithCutOff(ledger) \in Ledgers(Billings)
          /\ Tells(Ending(kind, FrozenWithCutOff(ledger)), sent, usage)
          /\ ~NeverOpened(Ending(kind, FrozenWithCutOff(ledger)))
    BY <2>1, LeftHistory
  <2>3. CASE Raise("timed_out_error", FrozenWithCutOff(ledger))
    BY <2>1, <2>2, <2>3, Raises
  <2>4. CASE Abandon(ledger)
    BY <2>1, <2>2, <2>4, Abandons
  <2>5. QED
    BY <1>10, <2>3, <2>4 DEF EntryCancelled
<1>11. ASSUME NEW failure \in Failures, OpenFails(failure)
       PROVE  HistoryInv'
  BY <1>11, OpeningFails
<1>12. ASSUME NEW failure \in Failures, IterationFails(failure)
       PROVE  HistoryInv'
  BY <1>5, <1>12, Noted, FailureOfTheStream DEF IterationFails, Resumes
<1>13. pc = "assembling" => sent \in usage
  BY DEF PermitInv, HistoryInv
<1>14. ASSUME NEW failure \in Failures, AssemblyFails(failure)
       PROVE  HistoryInv'
  BY <1>5, <1>13, <1>14, Noted, Staged, FailureOfTheStream DEF AssemblyFails, Resumes
<1>15. CASE FailedStreamCloses
  <2>1. /\ pc = "settling" /\ pc' = "block" /\ outcome' = pending /\ pending' = NoEnding
        /\ UNCHANGED <<ledger, abandoned, raised, sent, usage, drained>>
        /\ pending # NoEnding
    BY <1>15 DEF FailedStreamCloses, Resumes, EndingInv
  <2>2. QED
    BY <2>1 DEF HistoryInv, Places, Inside, Closing
<1>16. ASSUME NEW kind \in Answers \union {"unknown_exception_error"}, Assembled(kind)
       PROVE  HistoryInv'
  BY <1>13, <1>16, ResponseIsStored DEF Assembled, Resumes
<1>17. ASSUME NEW pausesQuota \in BOOLEAN, AssembledFailure(pausesQuota)
       PROVE  HistoryInv'
  BY <1>13, <1>17, ResponseIsStored DEF AssembledFailure, Resumes
<1>18. CASE CancelReachesBlock
  <2>1. /\ pc \in Inside /\ pc' = "block" /\ pending' = NoEnding
        /\ UNCHANGED <<stream, drained, ledger, outcome, abandoned, raised, sent, usage>>
        /\ state' \in {state, "finished"}
    BY <1>18 DEF CancelReachesBlock
  <2>2. InFlight => InFlight'
    BY <2>1 DEF InFlight, Inside, Closing
  <2>3. AllRecorded => AllRecorded'
    BY <2>1 DEF AllRecorded
  <2>4. outcome = NoEnding => InFlight \/ AllRecorded
    BY <2>1 DEF HistoryInv, Inside
  <2>5. QED
    BY <2>1, <2>2, <2>3, <2>4 DEF HistoryInv, Places, Inside, Closing
<1>19. CASE LeaveBlock
  <2>1. pc = "block" /\ UNCHANGED <<sent, usage, drained>> /\ ledger \in Ledgers(Billings)
    BY <1>19 DEF LeaveBlock, Resumes, HistoryInv
  <2>2. TimedOut(unwinding) => outcome = NoEnding
    BY DEF TimedOut, EndingInv
  <2>3. CASE stream
    <3>1. /\ pc' \in Closing /\ stream' = FALSE
          /\ ledger' = NoteBilling(ledger, BillingInFlight)
          /\ UNCHANGED endingVars
      BY <1>19, <2>3 DEF LeaveBlock, ClosingLedger, Closing
    <3>2. BillingInFlight = Usage(sent, usage) /\ Usage(sent, usage) \in Billings
      BY NoBillingIsBilling, <1>0, RequestsAssumption
         DEF BillingInFlight, Usage, Billings, HistoryInv
    <3>3. /\ ledger'.records = ledger.records /\ ledger'.providerData = ledger.providerData
          /\ ledger' \in Ledgers(Billings) /\ ledger'.staged = ledger.staged
          /\ ledger'.inFlight = ledger.inFlight /\ ledger'.noted = Usage(sent, usage)
      BY <2>1, <3>1, <3>2 DEF NoteBilling, Ledgers
    <3>4. ASSUME outcome = NoEnding PROVE InFlight'
      <4>1. InFlight
        BY <2>1, <2>3, <3>4 DEF HistoryInv, AllRecorded
      <4>2. Settled(ledger', sent - 1, usage, Billings)
        BY <3>3, <4>1 DEF InFlight, Settled
      <4>3. QED
        BY <2>1, <3>1, <3>3, <4>1, <4>2 DEF InFlight, Inside, Closing
    <3>5. QED
      BY <2>1, <3>1, <3>3, <3>4 DEF HistoryInv, endingVars, Places, Closing
  <2>4. CASE ~stream
    <3>1. CloseEnds(TimedOut(unwinding)) /\ TimedOut(unwinding) \in BOOLEAN
      BY <1>19, <2>4 DEF LeaveBlock, TimedOut
    <3>2. outcome = NoEnding => AllRecorded
      BY <2>1, <2>4 DEF HistoryInv, InFlight, Inside
    <3>3. QED
      BY <2>1, <2>2, <3>1, <3>2, ExitHistory
  <2>5. QED
    BY <2>3, <2>4
<1>20. CASE ExitCloses
  <2>1. /\ pc \in Closing /\ CloseEnds(pc = "closing_timed_out")
        /\ UNCHANGED <<sent, usage, drained>>
    BY <1>20 DEF ExitCloses
  <2>2. (pc = "closing_timed_out") \in BOOLEAN
        /\ (pc = "closing_timed_out" => outcome = NoEnding)
    BY DEF EndingInv, Left, Cancelled
  <2>3. QED
    BY <2>1, <2>2, ExitHistory
<1>21. CASE ExitCloseCancelled
  <2>1. /\ pc \in Closing /\ pc # "settling" /\ pc' \in Left
        /\ UNCHANGED <<sent, usage, drained>> /\ ledger \in Ledgers(Billings)
    BY <1>21 DEF ExitCloseCancelled, Closing, Left, Cancelled, HistoryInv
  <2>2. CASE Abandon(ledger)
    BY <2>1, <2>2, LeftHistory, Abandons
  <2>3. CASE UNCHANGED <<ledger, endingVars>>
    BY <2>1, <2>3, Leaves DEF endingVars
  <2>4. QED
    BY <1>21, <2>2, <2>3 DEF ExitCloseCancelled
<1>22. CASE Swallow \/ CallerCancels \/ TimeoutExpires \/ UNCHANGED vars
  <2>1. UNCHANGED <<pc, state, stream, drained, ledger, endingVars, sent, usage>>
    BY <1>22 DEF Swallow, CallerCancels, TimeoutExpires, vars
  <2>2. (InFlight => InFlight') /\ (AllRecorded => AllRecorded')
    BY <2>1 DEF InFlight, AllRecorded
  <2>3. QED
    BY <2>1, <2>2 DEF HistoryInv, endingVars
<1>23. QED
  BY <1>1, <1>2, <1>3, <1>7, <1>8, <1>9, <1>10, <1>11, <1>12, <1>14, <1>15, <1>16, <1>17,
     <1>18, <1>19, <1>20, <1>21, <1>22 DEF Next, Finished

-----------------------------------------------------------------------------
(***************************************************************************)
(* Types, and what the quota is told.                                      *)
(***************************************************************************)
LEMMA ControlInit == Init => ControlInv
BY DEF Init, ControlInv

LEMMA QuotaTold ==
  ASSUME ControlInv, sent \in Nat \ {0}, NEW failure, TellQuota(failure), sent' = sent
  PROVE  pauses' \subseteq 1..sent' /\ told' = pauses'
BY DEF TellQuota, ControlInv

LEMMA ControlStep == HistoryInv /\ ControlInv /\ [Next]_vars => ControlInv'
<1> SUFFICES ASSUME HistoryInv, ControlInv, [Next]_vars PROVE ControlInv'
  OBVIOUS
<1>0. sent \in Nat /\ (pc \in {"opening", "item", "draining", "assembling"} => sent \in Nat \ {0})
  BY RequestsAssumption DEF HistoryInv, InFlight
<1>1. ASSUME UNCHANGED <<sent, quotaVars>>,
             UNCHANGED <<state, scope>> \/ (state' \in {state, "open", "finished"}
                                            /\ scope' \in {scope, "closed", "expired"}),
             cancelling' \in BOOLEAN, callerCancelled' \in BOOLEAN, unwinding' \in BOOLEAN,
             stream' \in BOOLEAN, drained' \in BOOLEAN
      PROVE  ControlInv'
  BY <1>1 DEF ControlInv, quotaVars
<1>2. CASE Enter \/ StreamOpens \/ BackoffEnds \/ CallNext \/ CallFinal \/ ItemArrives
           \/ UsageArrives \/ Exhausted
  BY <1>1, <1>2
     DEF Enter, StreamOpens, BackoffEnds, CallNext, CallFinal, ItemArrives, UsageArrives,
         Exhausted, ControlInv, taskVars
<1>3. CASE EntryCancelled \/ CancelReachesBlock \/ Swallow \/ LeaveBlock \/ ExitCloses
           \/ ExitCloseCancelled \/ CallerCancels \/ TimeoutExpires \/ FailedStreamCloses
           \/ UNCHANGED vars
  BY <1>1, <1>3
     DEF EntryCancelled, CancelReachesBlock, Swallow, LeaveBlock, ExitCloses,
         ExitCloseCancelled, CallerCancels, TimeoutExpires, FailedStreamCloses,
         ControlInv, taskVars, vars
<1>4. CASE Admitted
  BY <1>0, <1>4 DEF Admitted, ControlInv, taskVars, quotaVars
<1>5. ASSUME NEW kind, Assembled(kind)
      PROVE  ControlInv'
  BY <1>1, <1>5 DEF Assembled, StoreOutcome, ControlInv, taskVars
(* A step that fails a request, and tells the quota.                       *)
<1>6. ASSUME NEW failure, TellQuota(failure), sent' = sent,
             pc \in {"opening", "item", "draining", "assembling"},
             state' \in {state, "finished"}, scope' \in {scope, "closed"},
             UNCHANGED <<taskVars, unwinding, drained>>, stream' \in {stream, FALSE}
      PROVE  ControlInv'
  BY <1>0, <1>6, QuotaTold DEF ControlInv, taskVars
<1>7. ASSUME NEW failure \in Failures, OpenFails(failure)
      PROVE  ControlInv'
  <2>1. state' \in {state, "finished"} /\ scope' \in {scope, "closed"}
    BY <1>7 DEF OpenFails, FailEntry, RetryOrExhaust
  <2>2. QED
    BY <1>6, <1>7, <2>1 DEF OpenFails, Resumes
<1>8. ASSUME NEW failure \in Failures, NEW led, FailStream(failure, led),
             pc \in {"item", "draining", "assembling"}
      PROVE  ControlInv'
  BY <1>6, <1>8 DEF FailStream, StoreOutcome
<1>9. ASSUME NEW failure \in Failures, IterationFails(failure) \/ AssemblyFails(failure)
      PROVE  ControlInv'
  BY <1>8, <1>9 DEF IterationFails, AssemblyFails, Resumes
<1>10. ASSUME NEW pausesQuota \in BOOLEAN, AssembledFailure(pausesQuota)
       PROVE  ControlInv'
  BY <1>6, <1>10 DEF AssembledFailure, StoreOutcome, Resumes
<1>11. QED
  BY <1>2, <1>3, <1>4, <1>5, <1>7, <1>9, <1>10 DEF Next, Finished

(* However and wherever a stream call ends, its history is one that its    *)
(* record accepts, it tells every request once with the usage that it      *)
(* reported, and the quota was told of every failure that pauses it.       *)
THEOREM StreamIsAccountedFor == Spec => []RequestsAreAccounted
<1>1. ASSUME PermitInv, EndingInv, HistoryInv, ControlInv
      PROVE  RequestsAreAccounted
  <2>1. TypeOK
    <3>1. NoEnding.records \in Seq(RequestRecords(Billings))
      BY DEF NoEnding
    <3>2. \A ending \in {pending, outcome, abandoned, raised} :
            ending.records \in Seq(RequestRecords(Billings))
      BY <1>1, <3>1 DEF HistoryInv, Tells
    <3>3. permits \in 0..1 /\ ends \in 0..1
      BY <1>1 DEF PermitInv, EndingInv
    <3>4. usage \union pauses \union told \subseteq 1..sent
      BY <1>1 DEF HistoryInv, ControlInv
    <3>5. {cancelling, callerCancelled, unwinding, stream, drained, admission, operation}
            \subseteq BOOLEAN
      BY <1>1 DEF ControlInv, PermitInv, EndingInv
    <3>6. QED
      BY <1>1, <3>2, <3>3, <3>4, <3>5 DEF TypeOK, HistoryInv, ControlInv
  <2>2. ASSUME NEW ending \in Endings
        PROVE  \/ Tells(ending, sent, usage) /\ ~(ending = raised /\ NeverOpened(ending))
               \/ ending = raised /\ NeverOpened(ending) /\ sent >= 1
                  /\ Tells(ending, sent - 1, usage)
    <3>1. ending = raised => outcome = NoEnding /\ abandoned = NoEnding
      BY <1>1, <2>2 DEF EndingInv, Endings
    <3>2. QED
      BY <1>1, <2>2, <3>1 DEF HistoryInv, Endings
  <2>3. sent \in Nat
    BY <1>1, RequestsAssumption DEF HistoryInv
  <2>4. EndingRecordIsAccepted
    BY <2>2 DEF EndingRecordIsAccepted, Tells
  <2>5. EveryRequestIsAccounted
    BY <2>2, <2>3 DEF EveryRequestIsAccounted, Tells
  <2>6. UsageIsRetained
    BY <2>2, <2>3 DEF UsageIsRetained, Tells, Usage
  <2>7. QED
    BY <1>1, <2>1, <2>4, <2>5, <2>6
       DEF RequestsAreAccounted, QuotaHearsEveryFailure, ControlInv
<1>2. QED
  BY <1>1, PermitInit, PermitStep, EndingInit, EndingStep, HistoryInit, HistoryStep,
     ControlInit, ControlStep, PTL DEF Spec

-----------------------------------------------------------------------------
(***************************************************************************)
(* dispatch_many.  The sequences it returns or raises list their calls in  *)
(* order: the place of a call is how many calls of the same kind come up   *)
(* to it, which maps the calls one to one to the places.                   *)
(***************************************************************************)

LEMMA SameSizes == \A S : Tools!Cardinality(S) = Cardinality(S)
BY Zenon DEF Cardinality, Tools!Cardinality

(* The place of a call in a set of calls is how many of them come up to it. *)
LEMMA Places1To ==
  ASSUME NEW calls \in SUBSET (1..ToolCalls),
         NEW place, place = [i \in calls |-> Cardinality({j \in calls : j <= i})]
  PROVE  /\ IsFiniteSet(calls) /\ Cardinality(calls) \in Nat
         /\ place \in [calls -> 1..Cardinality(calls)]
         /\ \A i, j \in calls : i < j => place[i] < place[j]
         /\ \A k \in 1..Cardinality(calls) : \E i \in calls : place[i] = k
<1> DEFINE n == Cardinality(calls)
           upTo(i) == {j \in calls : j <= i}
<1>1. ToolCalls \in Nat /\ calls \subseteq Int
  BY ToolsAssumption DEF Tools!CallsAssumption
<1>2. IsFiniteSet(1..ToolCalls)
  BY ONLY <1>1, FS_Interval, SMT
<1>3. IsFiniteSet(calls) /\ n \in Nat
  BY <1>2, FS_Subset, FS_CardinalityType
<1>4. \A i \in calls : /\ IsFiniteSet(upTo(i)) /\ Cardinality(upTo(i)) <= n
                       /\ Cardinality(upTo(i)) \in Nat /\ Cardinality(upTo(i)) # 0
  <2> SUFFICES ASSUME NEW i \in calls
               PROVE  /\ IsFiniteSet(upTo(i)) /\ Cardinality(upTo(i)) <= n
                      /\ Cardinality(upTo(i)) \in Nat /\ Cardinality(upTo(i)) # 0
    OBVIOUS
  <2>1. upTo(i) \in SUBSET calls /\ i \in upTo(i)
    BY <1>1
  <2> HIDE DEF upTo
  <2>2. IsFiniteSet(upTo(i)) /\ Cardinality(upTo(i)) <= n
    BY <1>3, <2>1, FS_Subset
  <2>3. QED
    BY <2>1, <2>2, FS_CardinalityType, FS_EmptySet
<1>5. place \in [calls -> 1..n]
  BY <1>3, <1>4
<1>6. \A i, j \in calls : i < j => place[i] < place[j]
  <2> SUFFICES ASSUME NEW i \in calls, NEW j \in calls, i < j
               PROVE  Cardinality(upTo(i)) < Cardinality(upTo(j))
    OBVIOUS
  <2>1. upTo(i) \in SUBSET upTo(j) /\ j \in upTo(j) /\ j \notin upTo(i)
    <3>1. \A m \in calls : m \in Int
      BY <1>1
    <3>2. i \in Int /\ j \in Int
      BY <3>1
    <3>3. \A m \in upTo(i) : m \in upTo(j)
      BY <3>1, <3>2
    <3>4. j \in upTo(j)
      BY <3>2
    <3>5. j \notin upTo(i)
      BY <3>2
    <3> HIDE DEF upTo
    <3>6. QED
      BY <3>3, <3>4, <3>5
  <2>2. IsFiniteSet(upTo(j)) /\ Cardinality(upTo(j)) \in Nat /\ Cardinality(upTo(i)) \in Nat
    BY <1>4
  <2> HIDE DEF upTo
  <2>3. /\ Cardinality(upTo(i)) <= Cardinality(upTo(j))
        /\ Cardinality(upTo(j)) = Cardinality(upTo(i)) => upTo(j) = upTo(i)
    BY <2>1, <2>2, FS_Subset
  <2>4. QED
    BY <2>1, <2>2, <2>3
<1>7. place \in Injection(calls, 1..n)
  <2>1. \A i, j \in calls : place[i] = place[j] => i = j
    <3> SUFFICES ASSUME NEW i \in calls, NEW j \in calls, place[i] = place[j] PROVE i = j
      OBVIOUS
    <3>1. place[i] \in Int /\ place[j] \in Int
      BY <1>5
    <3>2. QED
      BY <1>1, <1>6, <3>1
  <2>2. QED
    BY <1>5, <2>1 DEF Injection, IsInjective
<1>8. IsFiniteSet(1..n) /\ Cardinality(1..n) = n
  <2>1. n \in Int /\ 1 \in Int
    BY <1>3
  <2> HIDE DEF n
  <2>2. IsFiniteSet(1..n) /\ Cardinality(1..n) = IF 1 > n THEN 0 ELSE n - 1 + 1
    BY ONLY <2>1, FS_Interval, Zenon
  <2>3. n \in Nat
    BY <1>3 DEF n
  <2>4. QED
    BY <2>2, <2>3
<1>9. place \in Surjection(calls, 1..n)
  BY <1>7, <1>8, FS_Injection
<1>10. \A k \in 1..n : \E i \in calls : place[i] = k
  BY <1>9 DEF Surjection
<1>11. QED
  BY <1>3, <1>5, <1>6, <1>10

(* Among all calls, a call has its own place.                              *)
LEMMA OwnPlaces ==
  ASSUME NEW i \in 1..ToolCalls
  PROVE  Cardinality({j \in 1..ToolCalls : j <= i}) = i
<1>1. i \in Int /\ 1 \in Int /\ i >= 1 /\ ToolCalls \in Nat
  BY ToolsAssumption DEF Tools!CallsAssumption
<1>2. {j \in 1..ToolCalls : j <= i} = 1..i
  BY <1>1
<1>3. Cardinality(1..i) = IF 1 > i THEN 0 ELSE i - 1 + 1
  BY ONLY <1>1, FS_Interval, Zenon
<1>4. Cardinality(1..i) = i
  BY <1>1, <1>3
<1>5. QED
  BY <1>2, <1>4

LEMMA SortedCalls ==
  ASSUME NEW calls \in SUBSET (1..ToolCalls), NEW sorted, sorted = Tools!Sorted(calls)
  PROVE  /\ IsFiniteSet(calls) /\ Cardinality(calls) \in Nat
         /\ sorted \in [1..Cardinality(calls) -> calls]
         /\ Len(sorted) = Cardinality(calls) /\ DOMAIN sorted = 1..Cardinality(calls)
         /\ \A k, m \in 1..Cardinality(calls) : k < m => sorted[k] < sorted[m]
         /\ \A i \in calls : \E k \in 1..Cardinality(calls) : sorted[k] = i
         /\ calls = 1..ToolCalls => sorted = [i \in 1..ToolCalls |-> i]
         /\ sorted \in Seq(1..ToolCalls) /\ (sorted = <<>> <=> calls = {})
<1> DEFINE n == Cardinality(calls)
<1>1. PICK place : place = [i \in calls |-> Cardinality({j \in calls : j <= i})]
  OBVIOUS
<1>2. /\ IsFiniteSet(calls) /\ n \in Nat
      /\ place \in [calls -> 1..n]
      /\ \A i, j \in calls : i < j => place[i] < place[j]
      /\ \A k \in 1..n : \E i \in calls : place[i] = k
  BY <1>1, Places1To
<1>14. ASSUME calls = 1..ToolCalls, NEW i \in calls PROVE place[i] = i
  <2>1. place[i] = Cardinality({j \in 1..ToolCalls : j <= i})
    BY <1>1, <1>14
  <2>2. QED
    BY <1>14, <2>1, OwnPlaces
<1>3. sorted = [k \in 1..n |-> CHOOSE i \in calls : Cardinality({j \in calls : j <= i}) = k]
  BY Zenon DEF Tools!Sorted, Tools!Cardinality, Cardinality
<1>4. \A k \in 1..n : sorted[k] \in calls /\ place[sorted[k]] = k
  <2> SUFFICES ASSUME NEW k \in 1..n PROVE sorted[k] \in calls /\ place[sorted[k]] = k
    OBVIOUS
  <2>1. sorted[k] = CHOOSE i \in calls : Cardinality({j \in calls : j <= i}) = k
    BY <1>3
  <2>2. PICK i \in calls : place[i] = k
    BY <1>2
  <2>3. Cardinality({j \in calls : j <= i}) = k
    BY <1>1, <2>2
  <2>4. sorted[k] \in calls /\ Cardinality({j \in calls : j <= sorted[k]}) = k
    BY <2>1, <2>3, Zenon
  <2>5. QED
    BY <1>1, <2>4
<1>5. DOMAIN sorted = 1..n /\ sorted \in [1..n -> calls]
  BY <1>3, <1>4
<1>6. Len(sorted) = n
  BY <1>2, <1>5
<1>7. \A i \in calls : i \in Int
  BY ToolsAssumption DEF Tools!CallsAssumption
<1>8. \A k, m \in 1..n : k < m => sorted[k] < sorted[m]
  <2> SUFFICES ASSUME NEW k \in 1..n, NEW m \in 1..n, k < m PROVE sorted[k] < sorted[m]
    OBVIOUS
  <2>1. sorted[k] \in calls /\ sorted[m] \in calls /\ place[sorted[k]] = k /\ place[sorted[m]] = m
    BY <1>4
  <2>2. sorted[k] = sorted[m] => k = m
    BY <2>1
  <2>3. sorted[m] < sorted[k] => m < k
    BY <1>2, <2>1
  <2>4. sorted[k] \in Int /\ sorted[m] \in Int
    BY <1>7, <2>1, Zenon
  <2>6. k \in Int /\ m \in Int
    BY <1>2
  <2>5. QED
    BY <2>2, <2>3, <2>4, <2>6
<1>9. \A i \in calls : \E k \in 1..n : sorted[k] = i
  <2> SUFFICES ASSUME NEW i \in calls PROVE \E k \in 1..n : sorted[k] = i
    OBVIOUS
  <2>1. place[i] \in 1..n
    BY <1>2
  <2>2. sorted[place[i]] \in calls /\ place[sorted[place[i]]] = place[i]
    BY <1>4, <2>1
  <2>3. sorted[place[i]] = i
    <3>1. i \in Int /\ sorted[place[i]] \in Int
      BY <1>7, <2>2, Zenon
    <3>4. place[i] \in Int
      BY <1>2, <2>1
    <3>2. ~(i < sorted[place[i]]) /\ ~(sorted[place[i]] < i)
      BY <1>2, <2>2, <3>1, <3>4
    <3>3. QED
      BY <3>1, <3>2
  <2>4. QED
    BY <2>1, <2>3
<1>10. ASSUME calls = 1..ToolCalls PROVE sorted = [i \in 1..ToolCalls |-> i]
  <2>1. \A k \in 1..n : sorted[k] = k
    BY <1>4, <1>10, <1>14
  <2>2. ToolCalls \in Nat
    BY ToolsAssumption DEF Tools!CallsAssumption
  <2>3. Cardinality(1..ToolCalls) = ToolCalls
    BY ONLY <2>2, FS_Interval, SMT
  <2>4. n = ToolCalls
    BY <1>10, <2>3
  <2>5. QED
    BY <1>5, <2>1, <2>4
<1>11. sorted \in Seq(1..ToolCalls)
  <2> HIDE DEF n
  <2>1. n \in Nat /\ sorted \in [1..n -> 1..ToolCalls]
    BY <1>2, <1>5
  <2>2. QED
    BY <2>1, SeqDef
<1>12. sorted = <<>> <=> calls = {}
  BY <1>2, <1>6, <1>11, EmptySeq, FS_EmptySet
<1>13. QED
  BY <1>2, <1>5, <1>6, <1>8, <1>9, <1>10, <1>11, <1>12

(* An outcome in the shape of EveryCallIsAnswered and of TypeOK.           *)
InCallOrder(s) ==
  /\ s \in Seq(1..ToolCalls)
  /\ \A k, m \in DOMAIN s : k < m => s[k] < s[m]

AnswersAll(o, r) ==
  /\ o.kind = "outcomes" => o.completed = [i \in 1..ToolCalls |-> i]
  /\ o.kind = "group" => Len(o.completed) + Len(o.raised) = ToolCalls
  /\ o.kind = "base_exception" =>
       /\ r[o.first] \in Tools!NotExceptions
       /\ \A i \in 1..ToolCalls : r[i] = "exception" =>
            \E k \in DOMAIN o.raised : o.raised[k] = i

WholeOutcome(o) ==
  /\ o.kind \in {"none", "value_error", "outcomes", "group", "base_exception", "cancelled"}
  /\ o.first \in 0..ToolCalls
  /\ InCallOrder(o.completed) /\ InCallOrder(o.raised)

LEMMA OrderedCalls ==
  ASSUME NEW S, NEW calls, calls = {i \in 1..ToolCalls : result[i] \in S},
         NEW sorted, sorted = Tools!InOrder(S)
  PROVE  /\ calls \in SUBSET (1..ToolCalls) /\ sorted = Tools!Sorted(calls)
         /\ InCallOrder(sorted)
<1>1. calls \in SUBSET (1..ToolCalls) /\ sorted = Tools!Sorted(calls)
  BY Zenon DEF Tools!InOrder, Tools!Calls
<1>2. /\ Cardinality(calls) \in Nat /\ DOMAIN sorted = 1..Cardinality(calls)
      /\ \A k, m \in 1..Cardinality(calls) : k < m => sorted[k] < sorted[m]
      /\ sorted \in Seq(1..ToolCalls)
  BY <1>1, SortedCalls, Zenon
<1>3. QED
  BY <1>1, <1>2, Zenon DEF InCallOrder

LEMMA NoCalls == InCallOrder(<<>>)
<1>1. <<>> \in Seq(1..ToolCalls) /\ DOMAIN <<>> = {}
  BY EmptySeq
<1>2. QED
  BY <1>1 DEF InCallOrder

(* When all calls have settled, dispatch_many answers each of them.        *)
LEMMA GatheredIsWhole ==
  ASSUME result \in [1..ToolCalls -> Tools!Results], NEW o, o = Tools!Gathered
  PROVE  WholeOutcome(o) /\ AnswersAll(o, result)
<1> DEFINE C == {i \in 1..ToolCalls : result[i] \in Tools!Completed}
           X == {i \in 1..ToolCalls : result[i] \in {"exception"}}
           B == {i \in 1..ToolCalls : result[i] \in Tools!NotExceptions}
<1>1. PICK completed : completed = Tools!InOrder(Tools!Completed)
  OBVIOUS
<1>2. PICK raisedCalls : raisedCalls = Tools!InOrder({"exception"})
  OBVIOUS
<1>3. PICK base : base = Tools!InOrder(Tools!NotExceptions)
  OBVIOUS
<1>4. /\ C \in SUBSET (1..ToolCalls) /\ completed = Tools!Sorted(C) /\ InCallOrder(completed)
      /\ X \in SUBSET (1..ToolCalls) /\ raisedCalls = Tools!Sorted(X) /\ InCallOrder(raisedCalls)
      /\ B \in SUBSET (1..ToolCalls) /\ base = Tools!Sorted(B)
  BY <1>1, <1>2, <1>3, OrderedCalls
<1>5. /\ C \intersect X = {}
      /\ B = {} => C \union X = 1..ToolCalls
      /\ B = {} /\ X = {} => C = 1..ToolCalls
  BY DEF Tools!Results, Tools!Completed, Tools!NotExceptions, Tools!Outcomes
<1>6. \A i \in B : result[i] \in Tools!NotExceptions
  OBVIOUS
<1>7. \A i \in 1..ToolCalls : result[i] = "exception" => i \in X
  OBVIOUS
<1>8. o = [kind |-> IF base # <<>> THEN "base_exception"
                    ELSE IF raisedCalls # <<>> THEN "group" ELSE "outcomes",
           completed |-> IF raisedCalls # <<>> \/ base = <<>> THEN completed ELSE <<>>,
           raised |-> raisedCalls,
           first |-> IF base # <<>> THEN base[1] ELSE 0]
  BY <1>1, <1>2, <1>3, Zenon DEF Tools!Gathered
<1>9. ToolCalls \in Nat
  BY ToolsAssumption DEF Tools!CallsAssumption
<1> HIDE DEF C, X, B
<1>10. /\ raisedCalls = <<>> <=> X = {}
       /\ base = <<>> <=> B = {}
       /\ Len(completed) = Cardinality(C) /\ Len(raisedCalls) = Cardinality(X)
       /\ IsFiniteSet(C) /\ IsFiniteSet(X)
  BY <1>4, SortedCalls
<1>11. base # <<>> => base[1] \in B
  <2>1. /\ base \in [1..Cardinality(B) -> B] /\ IsFiniteSet(B) /\ Cardinality(B) \in Nat
        /\ base = <<>> <=> B = {}
    BY <1>4, SortedCalls
  <2>2. B # {} => Cardinality(B) # 0
    BY <2>1, FS_EmptySet
  <2>3. QED
    BY <2>1, <2>2
<1>12. CASE base = <<>> /\ raisedCalls = <<>>
  <2>1. C = 1..ToolCalls
    BY <1>5, <1>10, <1>12
  <2>5. completed = [i \in 1..ToolCalls |-> i]
    BY <1>4, <2>1, SortedCalls
  <2>6. /\ o.kind = "outcomes" /\ o.completed = completed /\ o.raised = raisedCalls /\ o.first = 0
    BY <1>8, <1>12
  <2>7. QED
    BY <1>4, <1>9, <2>5, <2>6 DEF WholeOutcome, AnswersAll
<1>13. CASE base = <<>> /\ raisedCalls # <<>>
  <2>1. o.kind = "group" /\ o.completed = completed /\ o.raised = raisedCalls /\ o.first = 0
    BY <1>8, <1>13
  <2>2. C \intersect X = {} /\ C \union X = 1..ToolCalls
    BY <1>5, <1>10, <1>13
  <2>3. Cardinality(1..ToolCalls) = ToolCalls
    BY ONLY <1>9, FS_Interval, SMT
  <2>4. /\ Cardinality(C \union X) = Cardinality(C) + Cardinality(X) - Cardinality(C \intersect X)
    BY <1>10, FS_Union
  <2>5. Cardinality(C) \in Nat /\ Cardinality(X) \in Nat /\ Cardinality({}) = 0
    BY <1>10, FS_CardinalityType, FS_EmptySet
  <2>8. Cardinality(C \union X) = ToolCalls /\ Cardinality(C \intersect X) = 0
    BY <2>2, <2>3, <2>5
  <2>6. Len(completed) + Len(raisedCalls) = ToolCalls
    BY <1>9, <1>10, <2>4, <2>5, <2>8
  <2>7. QED
    BY <1>4, <1>9, <2>1, <2>6 DEF WholeOutcome, AnswersAll
<1>14. CASE base # <<>>
  <2>1. /\ o.kind = "base_exception" /\ o.raised = raisedCalls /\ o.first = base[1]
        /\ o.completed = IF raisedCalls # <<>> \/ base = <<>> THEN completed ELSE <<>>
    BY <1>8, <1>14
  <2>2. o.first \in B /\ o.first \in 0..ToolCalls /\ result[o.first] \in Tools!NotExceptions
    <3>1. o.first \in B
      BY <1>11, <1>14, <2>1
    <3>2. o.first \in 1..ToolCalls
      BY <1>4, <3>1
    <3>3. QED
      BY <1>6, <1>9, <3>1, <3>2
  <2>3. InCallOrder(o.completed) /\ InCallOrder(o.raised)
    BY <1>4, <2>1, NoCalls
  <2>4. \A i \in X : \E k \in DOMAIN raisedCalls : raisedCalls[k] = i
    BY <1>4, SortedCalls
  <2>5. QED
    BY <1>7, <2>1, <2>2, <2>3, <2>4 DEF WholeOutcome, AnswersAll
<1>15. QED
  BY <1>12, <1>13, <1>14

-----------------------------------------------------------------------------
(* What the observer of a call has heard follows from how far its task is. *)
FollowedSoFar(op, t, r) ==
  /\ op.started \in BOOLEAN /\ op.entered \in BOOLEAN
  /\ op.entered => op.started
  /\ t \in {"none", "created"} => ~op.started
  /\ op.exited = (op.entered /\ t = "done")
  /\ op.ended = IF op.started /\ t = "done" THEN 1 ELSE 0
  /\ op.concluded = IF op.started /\ t = "done" /\ r \in Tools!Outcomes \union {"exception"}
                    THEN r ELSE "nothing"

Operations == [started : BOOLEAN, entered : BOOLEAN, exited : BOOLEAN,
               concluded : {"nothing", "exception"} \union Tools!Outcomes, ended : 0..1]

(* The places of dispatch_many and how far its tasks are.                  *)
TasksFollow ==
  /\ dispatching \in {"called", "gathering", "settling", "ended"}
  /\ \A i \in 1..ToolCalls :
       /\ task[i] \in {"none", "created", "running", "done"}
       /\ dispatching = "called" => task[i] = "none"
       /\ dispatching \in {"gathering", "settling"} => task[i] # "none"
       /\ dispatching = "ended" => task[i] \in {"none", "done"}
       /\ task[i] = "done" <=> result[i] # "none"

ToolsInv ==
  /\ call \in [1..ToolCalls -> {"precomputed", "misaddressed", "unknown", "tool"}]
  /\ result \in [1..ToolCalls -> {"none"} \union Tools!Results]
  /\ task \in [1..ToolCalls -> {"none", "created", "running", "done"}]
  /\ asked \subseteq 1..ToolCalls
  /\ followed \in [1..ToolCalls -> Operations]
  /\ dispatchCancelled \in BOOLEAN
  /\ TasksFollow
  /\ \A i \in 1..ToolCalls : FollowedSoFar(followed[i], task[i], result[i])
  /\ dispatching # "ended" => dispatched = Tools!NoOutcome
  /\ WholeOutcome(dispatched) /\ AnswersAll(dispatched, result)

LEMMA ToolsStart == Tools!Init => ToolsInv
<1> SUFFICES ASSUME Tools!Init PROVE ToolsInv
  OBVIOUS
<1>1. WholeOutcome(Tools!NoOutcome) /\ AnswersAll(Tools!NoOutcome, result)
  <2>1. ToolCalls \in Nat
    BY ToolsAssumption DEF Tools!CallsAssumption
  <2>2. QED
    BY <2>1, NoCalls DEF WholeOutcome, AnswersAll, Tools!NoOutcome
<1>2. Tools!NotObserved \in Operations
  BY DEF Tools!NotObserved, Operations
<1>3. QED
  BY <1>1, <1>2 DEF Tools!Init, ToolsInv, TasksFollow, FollowedSoFar, Tools!NotObserved, Tools!Calls

(* A task that ends, and what its observer heard of it.                    *)
LEMMA TaskEnds ==
  ASSUME ToolsInv, NEW i \in 1..ToolCalls, task[i] \in {"created", "running"},
         NEW how \in Tools!Results, NEW op \in Operations, FollowedSoFar(op, "done", how),
         Tools!EndTask(i, how, op),
         UNCHANGED <<call, asked, dispatching, dispatchCancelled, dispatched>>
  PROVE  ToolsInv'
<1>1. /\ task' = [task EXCEPT ![i] = "done"]
      /\ result' = [result EXCEPT ![i] = how]
      /\ followed' = [followed EXCEPT ![i] = op]
  BY DEF Tools!EndTask
<1>2. how # "none"
  BY DEF Tools!Results, Tools!Completed, Tools!NotExceptions, Tools!Outcomes
<1>3. dispatching \in {"gathering", "settling"} /\ dispatched = Tools!NoOutcome
  BY DEF ToolsInv, TasksFollow
<1>4. TasksFollow'
  BY <1>1, <1>2, <1>3 DEF ToolsInv, TasksFollow
<1>5. \A j \in 1..ToolCalls : FollowedSoFar(followed'[j], task'[j], result'[j])
  <2> SUFFICES ASSUME NEW j \in 1..ToolCalls PROVE FollowedSoFar(followed'[j], task'[j], result'[j])
    OBVIOUS
  <2>1. CASE j = i
    BY <1>1, <2>1 DEF ToolsInv
  <2>2. CASE j # i
    <3>1. followed'[j] = followed[j] /\ task'[j] = task[j] /\ result'[j] = result[j]
      BY <1>1, <2>2 DEF ToolsInv
    <3>2. QED
      BY <3>1 DEF ToolsInv
  <2>3. QED
    BY <2>1, <2>2
<1>6. AnswersAll(dispatched, result')
  BY <1>3 DEF AnswersAll, Tools!NoOutcome
<1>7. /\ result' \in [1..ToolCalls -> {"none"} \union Tools!Results]
      /\ task' \in [1..ToolCalls -> {"none", "created", "running", "done"}]
      /\ followed' \in [1..ToolCalls -> Operations]
  BY <1>1 DEF ToolsInv
<1>8. QED
  BY <1>4, <1>5, <1>6, <1>7 DEF ToolsInv

(* Close tells the observer how a call that it follows has ended.          *)
LEMMA ClosedIsHeard ==
  ASSUME NEW op \in Operations, op.entered => op.started, NEW how \in Tools!Results
  PROVE  Tools!Close(op, how) \in Operations /\ FollowedSoFar(Tools!Close(op, how), "done", how)
<1> DEFINE closed == Tools!Close(op, how)
<1>1. /\ closed \in Operations
      /\ closed.started = op.started /\ closed.entered = op.entered
      /\ closed.exited = op.entered
      /\ closed.ended = IF op.started THEN 1 ELSE 0
      /\ closed.concluded = IF op.started /\ how \in Tools!Outcomes \union {"exception"}
                            THEN how ELSE "nothing"
  <2>1. /\ op = [started |-> op.started, entered |-> op.entered, exited |-> op.exited,
                  concluded |-> op.concluded, ended |-> op.ended]
        /\ op.started \in BOOLEAN /\ op.entered \in BOOLEAN
    BY DEF Operations
  <2>2. closed = [started |-> op.started, entered |-> op.entered, exited |-> op.entered,
                  concluded |-> IF op.started /\ how \in Tools!Outcomes \union {"exception"}
                                THEN how ELSE "nothing",
                  ended |-> IF op.started THEN 1 ELSE 0]
    <3> DEFINE heard == IF op.started /\ how \in Tools!Outcomes \union {"exception"}
                        THEN how ELSE "nothing"
               count == IF op.started THEN 1 ELSE 0
    <3>1. closed = [op EXCEPT !.exited = op.entered, !.concluded = heard, !.ended = count]
      BY DEF Tools!Close
    <3> HIDE DEF heard, count, closed
    <3>2. closed = [started |-> op.started, entered |-> op.entered, exited |-> op.entered,
                    concluded |-> heard, ended |-> count]
      BY <3>1 DEF Operations
    <3>3. QED
      BY <3>2 DEF heard, count
  <2>3. QED
    BY <2>1, <2>2 DEF Operations
<1> HIDE DEF closed
<1>2. op.started \in BOOLEAN /\ op.entered \in BOOLEAN
  BY DEF Operations
<1>3. FollowedSoFar(closed, "done", how)
  BY <1>1, <1>2 DEF FollowedSoFar
<1>4. QED
  BY <1>1, <1>3 DEF closed

LEMMA StartOutcomesAreFresh ==
  ASSUME NEW op \in Tools!StartOutcomes
  PROVE  op \in Operations /\ (op.entered => op.started) /\ FollowedSoFar(op, "running", "none")
<1>1. /\ op.started \in BOOLEAN /\ op.entered \in BOOLEAN /\ op.exited = FALSE
      /\ op.concluded = "nothing" /\ op.ended = 0
      /\ op.entered => op.started
  BY DEF Tools!StartOutcomes
<1>2. op = [started |-> op.started, entered |-> op.entered, exited |-> op.exited,
            concluded |-> op.concluded, ended |-> op.ended]
  BY DEF Tools!StartOutcomes
<1>5. op \in Operations
  <2>1. op = [started |-> op.started, entered |-> op.entered, exited |-> FALSE,
              concluded |-> "nothing", ended |-> 0]
    BY <1>1, <1>2, Zenon
  <2>2. FALSE \in BOOLEAN /\ "nothing" \in {"nothing", "exception"} \union Tools!Outcomes /\ 0 \in 0..1
    BY SMT
  <2>3. op.started \in BOOLEAN /\ op.entered \in BOOLEAN
    BY <1>1
  <2>4. \A s \in BOOLEAN, e \in BOOLEAN, x \in BOOLEAN, n \in 0..1,
           c \in {"nothing", "exception"} \union Tools!Outcomes :
          [started |-> s, entered |-> e, exited |-> x, concluded |-> c, ended |-> n] \in Operations
    BY DEF Operations
  <2>5. QED
    BY <2>1, <2>2, <2>3, <2>4, Zenon
<1>3. FollowedSoFar(op, "running", "none")
  BY <1>1 DEF FollowedSoFar
<1>4. QED
  BY <1>1, <1>5, <1>3

LEMMA ToolsStep == ToolsInv /\ [Tools!Next]_toolVars => ToolsInv'
<1> SUFFICES ASSUME ToolsInv, [Tools!Next]_toolVars PROVE ToolsInv'
  OBVIOUS
<1>1. CASE Tools!DispatchMany
  <2>1. \A i \in 1..ToolCalls : task[i] = "none" /\ result[i] = "none"
    BY <1>1 DEF Tools!DispatchMany, ToolsInv, TasksFollow
  <2>2. CASE Tools!End([Tools!NoOutcome EXCEPT !.kind = "value_error"]) /\ UNCHANGED task
    <3>1. WholeOutcome(dispatched') /\ AnswersAll(dispatched', result')
      BY <1>1, <2>2 DEF Tools!DispatchMany, Tools!End, ToolsInv, WholeOutcome, AnswersAll,
                        Tools!NoOutcome
    <3>2. TasksFollow'
      BY <1>1, <2>1, <2>2 DEF Tools!DispatchMany, Tools!End, ToolsInv, TasksFollow
    <3>3. QED
      BY <1>1, <2>2, <3>1, <3>2 DEF Tools!DispatchMany, Tools!End, ToolsInv
  <2>3. CASE /\ task' = [i \in 1..ToolCalls |-> "created"]
             /\ dispatching' = "gathering"
             /\ UNCHANGED dispatched
    <3>1. \A i \in 1..ToolCalls : FollowedSoFar(followed[i], "created", result[i])
      BY <2>1 DEF ToolsInv, FollowedSoFar
    <3>2. TasksFollow'
      BY <1>1, <2>1, <2>3 DEF Tools!DispatchMany, ToolsInv, TasksFollow
    <3>3. QED
      BY <1>1, <2>3, <3>1, <3>2 DEF Tools!DispatchMany, ToolsInv
  <2>4. QED
    BY <1>1, <2>2, <2>3 DEF Tools!DispatchMany, Tools!Calls
<1>2. ASSUME NEW i \in 1..ToolCalls, Tools!TaskStarts(i) PROVE ToolsInv'
  <2>1. /\ task[i] = "created"
        /\ UNCHANGED <<call, asked, dispatching, dispatchCancelled, dispatched>>
    BY <1>2 DEF Tools!TaskStarts
  <2>2. CASE Tools!EndTask(i, "precomputed", Tools!NotObserved)
    <3>1. Tools!NotObserved \in Operations /\ FollowedSoFar(Tools!NotObserved, "done", "precomputed")
      <4>1. Tools!NotObserved \in Operations
        BY DEF Tools!NotObserved, Operations
      <4>2. FollowedSoFar(Tools!NotObserved, "done", "precomputed")
        BY DEF Tools!NotObserved, FollowedSoFar
      <4>3. QED
        BY <4>1, <4>2
    <3>2. "precomputed" \in Tools!Results
      BY DEF Tools!Results, Tools!Completed
    <3>3. QED
      BY <2>1, <2>2, <3>1, <3>2, TaskEnds
  <2>3. ASSUME NEW op \in Tools!StartOutcomes, NEW how \in {"unknown_tool", "invalid_tool_args"},
               Tools!EndTask(i, how, Tools!Close(op, how))
        PROVE  ToolsInv'
    <3>1. how \in Tools!Results
      BY DEF Tools!Results, Tools!Completed, Tools!Outcomes
    <3>2. Tools!Close(op, how) \in Operations /\ FollowedSoFar(Tools!Close(op, how), "done", how)
      BY <3>1, StartOutcomesAreFresh, ClosedIsHeard
    <3>3. QED
      BY <2>1, <2>3, <3>1, <3>2, TaskEnds
  <2>4. ASSUME NEW op \in Tools!StartOutcomes,
               task' = [task EXCEPT ![i] = "running"],
               followed' = [followed EXCEPT ![i] = op], UNCHANGED result
        PROVE  ToolsInv'
    <3>1. dispatching \in {"gathering", "settling"} /\ result[i] = "none"
      BY <2>1 DEF ToolsInv, TasksFollow
    <3>2. op \in Operations /\ FollowedSoFar(op, "running", "none")
      BY StartOutcomesAreFresh
    <3>3. TasksFollow'
      BY <2>1, <2>4, <3>1 DEF ToolsInv, TasksFollow
    <3>4. \A j \in 1..ToolCalls : FollowedSoFar(followed'[j], task'[j], result'[j])
      <4> SUFFICES ASSUME NEW j \in 1..ToolCalls PROVE FollowedSoFar(followed'[j], task'[j], result'[j])
        OBVIOUS
      <4>1. CASE j = i
        BY <2>4, <3>1, <3>2, <4>1 DEF ToolsInv
      <4>2. CASE j # i
        <5>1. followed'[j] = followed[j] /\ task'[j] = task[j]
          BY <2>4, <4>2 DEF ToolsInv
        <5>2. QED
          BY <2>4, <5>1 DEF ToolsInv
      <4>3. QED
        BY <4>1, <4>2
    <3>5. /\ task' \in [1..ToolCalls -> {"none", "created", "running", "done"}]
          /\ followed' \in [1..ToolCalls -> Operations]
      BY <2>4, <3>2 DEF ToolsInv
    <3>6. QED
      BY <2>1, <2>4, <3>3, <3>4, <3>5 DEF ToolsInv
  <2>5. QED
    <3>1. CASE call[i] = "precomputed"
      BY <1>2, <2>2, <3>1 DEF Tools!TaskStarts
    <3>2. CASE call[i] # "precomputed"
      <4>1. PICK op \in Tools!StartOutcomes :
              \/ Tools!EndTask(i, IF call[i] = "unknown" THEN "unknown_tool" ELSE "invalid_tool_args",
                               Tools!Close(op, IF call[i] = "unknown" THEN "unknown_tool"
                                               ELSE "invalid_tool_args"))
              \/ /\ task' = [task EXCEPT ![i] = "running"]
                 /\ followed' = [followed EXCEPT ![i] = op]
                 /\ UNCHANGED result
        BY <1>2, <3>2 DEF Tools!TaskStarts
      <4>2. PICK how \in {"unknown_tool", "invalid_tool_args"} :
              how = IF call[i] = "unknown" THEN "unknown_tool" ELSE "invalid_tool_args"
        OBVIOUS
      <4>3. CASE Tools!EndTask(i, how, Tools!Close(op, how))
        BY <2>3, <4>3
      <4>4. CASE /\ task' = [task EXCEPT ![i] = "running"]
                 /\ followed' = [followed EXCEPT ![i] = op]
                 /\ UNCHANGED result
        BY <2>4, <4>4
      <4>5. QED
        BY <4>1, <4>2, <4>3, <4>4
    <3>3. QED
      BY <3>1, <3>2
<1>3. ASSUME NEW i \in 1..ToolCalls, Tools!TaskNeverStarts(i) PROVE ToolsInv'
  <2>1. /\ task[i] = "created" /\ Tools!EndTask(i, "cancelled", followed[i])
        /\ UNCHANGED <<call, asked, dispatching, dispatchCancelled, dispatched>>
    BY <1>3 DEF Tools!TaskNeverStarts
  <2>2. followed[i] \in Operations /\ FollowedSoFar(followed[i], "created", result[i])
    BY <2>1 DEF ToolsInv
  <2>3. FollowedSoFar(followed[i], "done", "cancelled")
    BY <2>2 DEF FollowedSoFar
  <2>4. "cancelled" \in Tools!Results
    BY DEF Tools!Results, Tools!NotExceptions
  <2>5. QED
    BY <2>1, <2>2, <2>3, <2>4, TaskEnds
<1>4. ASSUME NEW i \in 1..ToolCalls, Tools!FunctionEnds(i) PROVE ToolsInv'
  <2>1. /\ task[i] = "running"
        /\ UNCHANGED <<call, asked, dispatching, dispatchCancelled, dispatched>>
    BY <1>4 DEF Tools!FunctionEnds
  <2>2. PICK how \in {"handled", "exception", "base_exception", "cancelled"} :
          Tools!EndTask(i, how, Tools!Close(followed[i], how))
    BY <1>4 DEF Tools!FunctionEnds
  <2>3. how \in Tools!Results
    BY DEF Tools!Results, Tools!Completed, Tools!NotExceptions, Tools!Outcomes
  <2>4. followed[i] \in Operations /\ (followed[i].entered => followed[i].started)
    BY <2>1 DEF ToolsInv, FollowedSoFar
  <2>5. QED
    BY <2>1, <2>2, <2>3, <2>4, ClosedIsHeard, TaskEnds
<1>5. CASE Tools!CallerCancels
  BY <1>5 DEF Tools!CallerCancels, ToolsInv, TasksFollow, Tools!Calls
<1>6. CASE Tools!GatherReturns
  <2>1. /\ dispatching = "gathering" /\ dispatching' = "ended" /\ dispatched' = Tools!Gathered
        /\ \A i \in 1..ToolCalls : task[i] = "done"
        /\ UNCHANGED <<call, result, task, asked, followed, dispatchCancelled>>
    BY <1>6 DEF Tools!GatherReturns, Tools!End, Tools!AllDone, Tools!Calls
  <2>2. result \in [1..ToolCalls -> Tools!Results]
    BY <2>1 DEF ToolsInv, TasksFollow
  <2>3. WholeOutcome(dispatched') /\ AnswersAll(dispatched', result)
    BY <2>1, <2>2, GatheredIsWhole
  <2>4. TasksFollow'
    BY <2>1 DEF ToolsInv, TasksFollow
  <2>5. QED
    BY <2>1, <2>3, <2>4 DEF ToolsInv
<1>7. CASE Tools!GatherRaises
  <2>1. TasksFollow'
    BY <1>7 DEF Tools!GatherRaises, ToolsInv, TasksFollow
  <2>2. QED
    BY <1>7, <2>1 DEF Tools!GatherRaises, ToolsInv, Tools!Calls
<1>8. CASE Tools!Settled
  <2>1. /\ dispatching = "settling" /\ dispatching' = "ended"
        /\ dispatched' = [Tools!NoOutcome EXCEPT !.kind = "cancelled"]
        /\ \A i \in 1..ToolCalls : task[i] = "done"
        /\ UNCHANGED <<call, result, task, asked, followed, dispatchCancelled>>
    BY <1>8 DEF Tools!Settled, Tools!End, Tools!AllDone, Tools!Calls
  <2>2. WholeOutcome(dispatched') /\ AnswersAll(dispatched', result')
    BY <2>1 DEF ToolsInv, WholeOutcome, AnswersAll, Tools!NoOutcome
  <2>3. TasksFollow'
    BY <2>1 DEF ToolsInv, TasksFollow
  <2>4. QED
    BY <2>1, <2>2, <2>3 DEF ToolsInv
<1>9. CASE UNCHANGED toolVars
  BY <1>9 DEF ToolsInv, TasksFollow, toolVars
<1>10. CASE Tools!Finished
  BY <1>9, <1>10 DEF Tools!Finished, Tools!vars, toolVars
<1>11. QED
  BY <1>1, <1>2, <1>3, <1>4, <1>5, <1>6, <1>7, <1>8, <1>9, <1>10 DEF Tools!Next, Tools!Calls

LEMMA ToolsInvIsWhole == ToolsInv => DispatchIsWhole
<1> SUFFICES ASSUME ToolsInv PROVE DispatchIsWhole
  OBVIOUS
<1>1. Tools!TypeOK
  BY DEF ToolsInv, TasksFollow, Tools!TypeOK, Tools!Calls, WholeOutcome, InCallOrder, Operations
<1>2. Tools!NoFunctionRunsOn
  BY DEF ToolsInv, TasksFollow, Tools!NoFunctionRunsOn, Tools!Calls
<1>3. Tools!EveryCallIsAnswered
  BY DEF ToolsInv, AnswersAll, Tools!EveryCallIsAnswered, Tools!Calls
<1>4. Tools!ObserverIsToldInFull
  <2> SUFFICES ASSUME NEW i \in 1..ToolCalls
               PROVE  /\ followed[i].started => (followed[i].ended = 1 <=> task[i] = "done")
                      /\ followed[i].entered => (followed[i].exited <=> task[i] = "done")
                      /\ followed[i].concluded # "nothing" =>
                           followed[i].started /\ followed[i].concluded = result[i]
                      /\ followed[i].started /\ result[i] \in Tools!Outcomes \union {"exception"} =>
                           followed[i].concluded = result[i]
    BY DEF Tools!ObserverIsToldInFull, Tools!Calls
  <2>1. FollowedSoFar(followed[i], task[i], result[i]) /\ (task[i] = "done" <=> result[i] # "none")
    BY DEF ToolsInv, TasksFollow
  <2>2. "none" \notin Tools!Outcomes \union {"exception"}
    BY DEF Tools!Outcomes
  <2>3. /\ followed[i].started => (followed[i].ended = 1 <=> task[i] = "done")
        /\ followed[i].concluded # "nothing" =>
             followed[i].started /\ followed[i].concluded = result[i]
        /\ followed[i].started /\ result[i] \in Tools!Outcomes \union {"exception"} =>
             followed[i].concluded = result[i]
    BY <2>1, <2>2 DEF FollowedSoFar
  <2>4. followed[i].entered => (followed[i].exited <=> task[i] = "done")
    BY <2>1 DEF FollowedSoFar
  <2>5. QED
    BY <2>3, <2>4
<1>5. QED
  BY <1>1, <1>2, <1>3, <1>4 DEF DispatchIsWhole

(* dispatch_many answers every call with its own result in its own place,  *)
(* in an outcome or in the error that holds the others, and none of its    *)
(* functions runs on; and whatever the observer raised, it has heard of    *)
(* the end of each operation that started: for any number of tool calls.   *)
THEOREM DispatchIsAnswered == FamilySpec => []DispatchIsWhole
<1>1. FamilyInit => ToolsInv
  BY ToolsStart DEF FamilyInit
<1>2. ToolsInv /\ [FamilyNext]_familyVars => ToolsInv'
  BY ToolsStep DEF FamilyNext, familyVars
<1>3. QED
  BY <1>1, <1>2, ToolsInvIsWhole, PTL DEF FamilySpec
=============================================================================
