-------------------------- MODULE LaneOrderProofs --------------------------
(***************************************************************************)
(* The order of a lane's work: which Run owns what Grok does now, for any  *)
(* number of Runs, any messages and any faults.                            *)
(*                                                                         *)
(* The worker runs one Run at a time, but Grok works behind two streams.   *)
(* What a Run knows when it retires is what the reader has read; that Grok *)
(* has then nothing left of it follows from the order of the frames on the *)
(* streams.  The invariants come in layers, each proved with the layers    *)
(* before it: where executeRun stands, what Grok has taken, what it has    *)
(* told, what a prompt owns, what a retired Run left, whose work is under  *)
(* way, and what stands behind a session/cancel.                           *)
(***************************************************************************)
EXTENDS LaneContractProofs

USE DEF BoundRun, Fail

-----------------------------------------------------------------------------
(* Where executeRun stands.                                                *)

\* executeRun owns the pending prompt; its session/prompt is on the wire; the
\* prompt is retiring.
PromptPC == ExecPC \ {"idle", "entered", "returned"}
WrittenPC == {"admission", "started", "interrupting", "await", "owned", "blocked"}
RetiredPC == {"joining", "cleanup", "returned"}

\* One Run is between its start and its return, and the Wrapper names it.
RunHeld ==
  \A r \in Runs :
    /\ exec[r] \notin {"idle", "returned"} => run = r
    /\ exec[r] \in PromptPC <=> pendingPrompt = r
    /\ r \in runDone => exec[r] = "returned"
    /\ \A q \in Runs : q < r /\ exec[r] # "idle" => exec[q] = "returned"

\* What executeRun has made sure of at each of its steps.
PromptHeld ==
  /\ \A r \in Runs :
       /\ exec[r] \in WrittenPC => r \in written
       /\ exec[r] \in {"owned", "blocked"} => Admitted(r)
       /\ exec[r] \in {"fail"} \cup RetiredPC => sender[r] # "submit"
       /\ r \in retiring => exec[r] \in RetiredPC
       /\ exec[r] \in {"joining", "cleanup"} => r \in retiring
       /\ exec[r] = "returned" /\ r \notin retiring => sender[r] = "idle"
  /\ written \subseteq attempted
  /\ nativeFailure => conn = "done"

LaneHeld == RunHeld /\ PromptHeld

\* A step of another goroutine moves executeRun only from its wait.
Woke(r) == exec'[r] = exec[r] \/ (exec[r] = "blocked" /\ exec'[r] = "owned")

\* What the goroutines around executeRun, the SDK and Grok leave to it.
Around ==
  /\ \A r \in Runs :
       /\ Woke(r)
       /\ Admitted(r) => Admitted(r)'
       /\ \/ sender'[r] = sender[r]
          \/ sender[r] \in {"submit", "reply"} /\ sender'[r] \in {"reply", "done"}
       /\ r \in runDone' => r \in runDone \/ exec[r] = "returned"
  /\ UNCHANGED <<pendingPrompt, retiring>>
  /\ run' \in {run, RetiredRun}
  /\ written \subseteq written' /\ attempted \subseteq attempted'
  /\ written' \ written \subseteq attempted'
  /\ conn = "done" => conn' = "done"
  /\ nativeFailure' => nativeFailure \/ conn' = "done"

\* The signal wakes the Run that waits and no other.
LEMMA SignalWakes ==
  ASSUME GoTypeOK, NEW t, UNCHANGED exec \/ Signal(t), NEW r \in Runs
  PROVE  Woke(r)
BY DEF GoTypeOK, Signal, Woken, Woke

\* The goroutine that sends the prompt leaves executeRun's books alone, but for its own
\* progress.
LEMMA SenderAround ==
  ASSUME LaneInv, NEW r \in Runs, SenderStep(r)
  PROVE  Around
<1> USE DEF LaneInv, TypeOK, GoTypeOK, Woke, Admitted, senderOthers, promptVars, course,
        wrapperVars, lane
<1>1. UNCHANGED <<exec, segments, pendingPrompt, retiring, run, nativeFailure, runDone>>
  BY SenderFrame DEF sdkVars
<1>2. /\ written \subseteq written' /\ attempted \subseteq attempted'
      /\ written' \ written \subseteq attempted'
      /\ conn = "done" => conn' = "done"
  BY DEF SenderStep, SubmitPrompt, PromptUnsubmitted, PromptWriteAborted, PromptReplied,
     Write, outside, connVars, owned, deliveryVars, Finish
<1>3. /\ sender[r] \in {"submit", "reply"}
      /\ \E c \in {"reply", "done"} : sender' = [sender EXCEPT ![r] = c]
  BY DEF SenderStep, SubmitPrompt, PromptUnsubmitted, PromptWriteAborted, PromptReplied
<1> QED
  BY <1>1, <1>2, <1>3 DEF Around

\* A delivery at most wakes executeRun, attempts one more request or ends the
\* connection.
LEMMA DeliveryAround ==
  ASSUME LaneInv, NEW m \in Messages, DeliveryStep(m)
  PROVE  Around
<1> USE DEF LaneInv, TypeOK, Admitted, course, DeliveryStep, Deliver, GateCancelled,
        TakeGate, AdmissionFails, RegisterDelivery, SubmitInterject, InterjectUnsubmitted,
        InterjectWriteAborted, InterjectReplied, DeliverySettles, SchedulingLost,
        InterjectAborts, CallerReturns, owned, callerOthers, rpcOthers, wrapperVars, lane
<1>1. UNCHANGED <<segments, pendingPrompt, retiring, sender, runDone>>
  BY DeliveryFrame DEF sdkVars
<1>2. UNCHANGED exec \/ Signal(target[m])
  BY DEF Release
<1>3. /\ written \subseteq written' /\ attempted \subseteq attempted'
      /\ written' \ written \subseteq attempted'
  BY DEF Write, outside, connVars, deliveryVars
<1>4. /\ conn = "done" => conn' = "done"
      /\ nativeFailure' => nativeFailure \/ conn' = "done"
  BY DEF Write, outside, connVars, PendingFailure, Finish
<1>5. run' \in {run, RetiredRun}
  OBVIOUS
<1> QED
  BY <1>1, <1>2, <1>3, <1>4, <1>5, SignalWakes DEF Around

\* An interrupt at most wakes the Run it cancels, or ends the connection.
LEMMA InterruptAround ==
  ASSUME LaneInv, NEW r \in Runs, InterruptStep(r)
  PROVE  Around
<1>1. UNCHANGED exec \/ Signal(r)
  BY DEF InterruptStep, InterruptCallback, CallbackJoinsInterrupt, SendCancel,
     callbackOthers
<1>2. conn = "done" => conn' = "done"
  BY DEF InterruptStep, InterruptCallback, CallbackJoinsInterrupt, SendCancel,
     outside, connVars, Finish
<1> QED
  BY <1>1, <1>2, SignalWakes, InterruptFrame
     DEF Around, LaneInv, TypeOK, Admitted, wrapperVars, lane, deliveryVars, sdkVars

\* The reader at most wakes the Run of the pending prompt, admits it, or ends the
\* connection.
LEMMA ReaderAround ==
  ASSUME LaneInv, ReaderStep
  PROVE  Around
<1> USE DEF LaneInv, TypeOK
<1>1. UNCHANGED exec \/ Signal(pendingPrompt)
  BY DEF ReaderStep, ReceiveReply, ReceiveRunning, ReceiveAck, ReceiveCompleted,
     ReceiveOverflow, ReaderFails, ReaderExits, readerOthers, Release
<1>2. /\ conn = "done" => conn' = "done"
      /\ nativeFailure' => nativeFailure \/ conn' = "done"
  BY DEF ReaderStep, ReceiveReply, ReceiveRunning, ReceiveAck, ReceiveCompleted,
     ReceiveOverflow, ReaderFails, ReaderExits, connVars, owned, wrapperVars,
     PendingFailure, Finish
<1>3. \A r \in Runs : Admitted(r) => Admitted(r)'
  <2>1. \/ UNCHANGED segments
        \/ \E i : segments' = [segments EXCEPT ![pendingPrompt] = Append(@, i)]
    BY DEF ReaderStep, ReceiveReply, ReceiveRunning, ReceiveAck, ReceiveCompleted,
       ReceiveOverflow, ReaderFails, ReaderExits, owned, promptVars, course
  <2> QED
    BY <2>1 DEF PromptTypeOK, Admitted
<1> QED
  BY <1>1, <1>2, <1>3, SignalWakes, ReaderFrame
     DEF Around, lane, sdkVars, others

\* The SDK and Grok do not move executeRun; a Run that is done had returned.
LEMMA OutsideAround ==
  ASSUME LaneInv, SDKStep \/ NativeStep \/ NativeFault \/ NativeExits \/ UNCHANGED vars
  PROVE  Around
<1> USE DEF LaneInv, TypeOK, Around, Woke, Admitted
<1>1. CASE SDKStep
  <2>1. \A r \in Runs : r \in runDone' => r \in runDone \/ exec[r] = "returned"
    BY <1>1 DEF SDKStep, CaptureRun, CancelCaller, InterruptRun, CancelRun, FinishRun,
       Close, outside, sdkVars
  <2> QED
    BY <1>1, <2>1, SDKFrame DEF promptVars, course, deliveryVars, connVars
<1>2. CASE NativeStep \/ NativeFault \/ NativeExits
  BY <1>2, GrokFrame DEF Wrapper, owned, wrapperVars, lane, promptVars, course,
     deliveryVars, connVars, sdkVars, goVars, others
<1>3. CASE UNCHANGED vars
  BY <1>3 DEF vars, outside, owned, wrapperVars, lane, promptVars, course,
     deliveryVars, connVars, sdkVars, goVars, others
<1> QED
  BY <1>1, <1>2, <1>3

\* Every step is one of executeRun or one around it.
LEMMA ExecOrAround ==
  ASSUME LaneInv, [Next]_vars
  PROVE  Around \/ \E r \in Runs : ExecStep(r)
BY SenderAround, DeliveryAround, InterruptAround, ReaderAround, OutsideAround DEF Next

\* The steps around executeRun keep its books.
LEMMA HeldAround ==
  ASSUME LaneInv, LaneHeld, Around
  PROVE  LaneHeld'
<1> USE DEF LaneInv, TypeOK, GoTypeOK, LaneHeld, Around, Woke
<1>1. RunHeld'
  <2>1. \A r \in Runs : /\ exec[r] = "idle" <=> exec'[r] = "idle"
                        /\ exec[r] = "returned" <=> exec'[r] = "returned"
                        /\ exec[r] \in PromptPC <=> exec'[r] \in PromptPC
    BY DEF PromptPC, ExecPC
  <2>2. run # None /\ run \in runDone => exec[run] = "returned"
    BY DEF RunHeld, WrapperTypeOK
  <2>3. None \notin Runs
    BY NativeAssumption DEF Requests
  <2>4. \A r \in Runs : exec[r] \notin {"idle", "returned"} => RetiredRun = r
    BY <2>2, <2>3 DEF RunHeld, RetiredRun
  <2> QED
    BY <2>1, <2>4 DEF RunHeld
<1>2. PromptHeld'
  BY DEF PromptHeld, WrittenPC, RetiredPC, SeedAccounted
<1> QED
  BY <1>1, <1>2

\* The steps of executeRun between the publication of the prompt and its return,
\* as moves of its program counter.
InnerMove(r, pc) ==
  /\ exec[r] \in PromptPC \ {"cleanup"} /\ pc \in PromptPC \ {"starting"}
  /\ exec' = [exec EXCEPT ![r] = pc]
  /\ UNCHANGED <<run, pendingPrompt, sender>>
  /\ pc \in WrittenPC => exec[r] \in WrittenPC \/ r \in written
  /\ pc \in {"owned", "blocked"} => exec[r] \in {"owned", "blocked"} \/ Admitted(r)
  /\ pc = "fail" => sender[r] = "done" \/ exec[r] \in WrittenPC
  /\ IF pc \in {"joining", "cleanup"}
     THEN retiring' = retiring \cup {r}
     ELSE UNCHANGED retiring /\ exec[r] # "joining"
  /\ pc \in {"joining", "cleanup"} => exec[r] \in {"owned", "fail", "joining"}

\* Between the publication of its prompt and its return executeRun makes inner moves
\* only.
LEMMA InnerMoves ==
  ASSUME LaneInv, LaneHeld, NEW r \in Runs, ExecStep(r)
  PROVE  \/ RejectRun(r) \/ EnterRun(r) \/ InterruptedBeforeStart(r)
         \/ StartPrompt(r) \/ ReturnRun(r)
         \/ \E pc \in PromptPC : InnerMove(r, pc)
<1> USE DEF Go, InnerMove, PromptPC, ExecPC, WrittenPC, owned, promptVars, course,
        wrapperVars, lane, execOthers, others
<1>1. CASE PromptStarted(r)
  <2>1. r \in SeededRuns => InnerMove(r, "admission")
    BY <1>1 DEF PromptStarted
  <2>2. r \notin SeededRuns => InnerMove(r, "started")
    BY <1>1 DEF PromptStarted
  <2> QED
    BY <2>1, <2>2
<1>2. CASE PromptNotStarted(r) \/ SeedAdmitted(r) \/ SeedNotAdmitted(r)
  BY <1>2 DEF PromptNotStarted, SeedAdmitted, SeedNotAdmitted
<1>3. CASE CheckInterrupted(r) \/ RunJoinsInterrupt(r)
  BY <1>3 DEF CheckInterrupted, RunJoinsInterrupt
<1>4. CASE AwaitReply(r)
  BY <1>4 DEF AwaitReply
<1>5. CASE CompleteRun(r) \/ RunFailed(r)
  BY <1>5 DEF CompleteRun, RunFailed
<1>6. CASE RunBlocks(r) \/ RunUnblocks(r)
  BY <1>6 DEF RunBlocks, RunUnblocks
<1>7. CASE FailOwned(r)
  BY <1>7 DEF FailOwned
<1>8. CASE FailJoinsInterrupt(r)
  BY <1>8 DEF FailJoinsInterrupt, LaneHeld, PromptHeld
<1> QED
  BY <1>1, <1>2, <1>3, <1>4, <1>5, <1>6, <1>7, <1>8 DEF ExecStep

\* executeRun itself keeps its books: what it waited for holds when it goes on.
LEMMA HeldByExec ==
  ASSUME LaneInv, LaneHeld, NEW r \in Runs, ExecStep(r)
  PROVE  LaneHeld'
<1> USE DEF LaneInv, TypeOK, GoTypeOK, LaneHeld, Go
<1>0. UNCHANGED <<written, attempted, segments, runDone>>
  BY ExecFrame DEF deliveryVars, sdkVars
<1>1. /\ \A q \in Runs : Admitted(q)' = Admitted(q)
      /\ conn = "done" => conn' = "done"
      /\ nativeFailure' => nativeFailure \/ conn' = "done"
  BY <1>0 DEF Admitted, ExecStep, RejectRun, EnterRun, InterruptedBeforeStart, StartPrompt,
     PromptStarted, PromptNotStarted, SeedAdmitted, SeedNotAdmitted,
     CheckInterrupted, RunJoinsInterrupt, AwaitReply, CompleteRun, RunFailed,
     RunBlocks, RunUnblocks, FailOwned, FailJoinsInterrupt, ReturnRun,
     outside, connVars, owned, wrapperVars, PendingFailure, Finish
<1> USE <1>0, <1>1
<1>2. None \notin Runs
  BY NativeAssumption DEF Requests
<1>3. CASE RejectRun(r) \/ InterruptedBeforeStart(r)
  <2>1. /\ exec[r] \in {"idle", "entered"} /\ exec' = [exec EXCEPT ![r] = "returned"]
        /\ UNCHANGED <<pendingPrompt, retiring, sender>> /\ run' \in {run, RetiredRun}
        /\ exec[r] = "idle" => \A q \in Runs : q < r => exec[q] = "returned"
    BY <1>3 DEF RejectRun, InterruptedBeforeStart, CanBegin, promptVars, course, owned,
       wrapperVars, lane
  <2>2. \A q \in Runs : exec[q] \notin {"idle", "returned"} => RetiredRun = q
    BY <1>2 DEF RunHeld, RetiredRun, WrapperTypeOK
  <2>3. RunHeld'
    BY <2>1, <2>2 DEF RunHeld, PromptPC, ExecPC
  <2>4. PromptHeld'
    BY <2>1 DEF PromptHeld, WrittenPC, RetiredPC, SeedAccounted
  <2> QED
    BY <2>3, <2>4
<1>4. CASE EnterRun(r)
  <2>1. /\ exec[r] = "idle" /\ exec' = [exec EXCEPT ![r] = "entered"] /\ run' = r
        /\ UNCHANGED <<pendingPrompt, retiring, sender>>
        /\ \A q \in Runs : q < r => exec[q] = "returned"
    BY <1>4 DEF EnterRun, CanBegin, promptVars, course, execOthers, others
  <2>2. \A q \in Runs : q > r => exec[q] = "idle"
    BY <2>1 DEF RunHeld
  <2>3. \A q \in Runs : q # r => exec[q] \in {"idle", "returned"}
    BY <2>1, <2>2 DEF Runs
  <2>4. RunHeld'
    BY <2>1, <2>3 DEF RunHeld, PromptPC, ExecPC
  <2>5. PromptHeld'
    BY <2>1 DEF PromptHeld, WrittenPC, RetiredPC
  <2> QED
    BY <2>4, <2>5
<1>5. CASE StartPrompt(r)
  <2>1. /\ exec[r] = "entered" /\ exec' = [exec EXCEPT ![r] = "starting"]
        /\ pendingPrompt' = r /\ UNCHANGED <<run, retiring>>
        /\ sender' = [sender EXCEPT ![r] = "submit"]
    BY <1>5 DEF StartPrompt, promptVars, course
  <2>2. \A q \in Runs : q # r => exec[q] \notin PromptPC
    BY <2>1 DEF RunHeld, PromptPC
  <2>3. RunHeld'
    BY <2>1, <2>2 DEF RunHeld, PromptPC, ExecPC
  <2>4. PromptHeld'
    BY <2>1 DEF PromptHeld, WrittenPC, RetiredPC
  <2> QED
    BY <2>3, <2>4
<1>6. CASE ReturnRun(r)
  <2>1. /\ exec[r] = "cleanup" /\ exec' = [exec EXCEPT ![r] = "returned"]
        /\ pendingPrompt = r /\ pendingPrompt' = None
        /\ UNCHANGED <<run, retiring, sender>>
    BY <1>6 DEF ReturnRun, promptVars, course, execOthers, others, RunHeld, PromptPC, ExecPC
  <2>2. RunHeld'
    BY <1>2, <2>1 DEF RunHeld, PromptPC, ExecPC
  <2>3. PromptHeld'
    BY <2>1 DEF PromptHeld, WrittenPC, RetiredPC
  <2> QED
    BY <2>2, <2>3
<1>7. ASSUME NEW pc \in PromptPC, InnerMove(r, pc) PROVE LaneHeld'
  <2>1. RunHeld'
    BY <1>7 DEF InnerMove, RunHeld, PromptPC, ExecPC
  <2>2. PromptHeld'
    BY <1>7 DEF InnerMove, PromptHeld, PromptPC, ExecPC, WrittenPC, RetiredPC,
       SeedAccounted
  <2> QED
    BY <2>1, <2>2
<1> QED
  BY <1>3, <1>4, <1>5, <1>6, <1>7, InnerMoves

\* The books of executeRun are kept by every step.
LEMMA HeldKept == LaneInv /\ LaneHeld /\ [Next]_vars => LaneHeld'
BY HeldAround, HeldByExec, ExecOrAround

\* The books of executeRun hold when the worker starts.
LEMMA HeldInit == Init => LaneHeld
<1> SUFFICES ASSUME Init PROVE LaneHeld
  OBVIOUS
<1> QED
  BY NativeAssumption DEF Init, LaneHeld, RunHeld, PromptHeld, PromptPC, WrittenPC,
     RetiredPC, Requests

-----------------------------------------------------------------------------
(* Interrupts.                                                             *)

\* Only the reader extends a prompt's books: it binds one more native prompt or
\* records a terminal reason, and a reason recorded stays.
LEMMA CourseGrows ==
  ASSUME LaneInv, [Next]_vars
  PROVE  /\ \A r \in Runs :
              \/ segments'[r] = segments[r]
              \/ \E i \in Requests : segments'[r] = Append(segments[r], i)
         /\ \A i \in Requests : reason[i] # "open" => reason'[i] = reason[i]
<1> USE DEF LaneInv, TypeOK, PromptTypeOK, course
<1>1. CASE ReaderStep
  <2>1. CASE ReceiveRunning
    <3>1. Head(fromNative).id \in Requests
      BY <2>1 DEF ReceiveRunning, NextFrame, NativeTypeOK, NativeFrame, Requests
    <3> QED
      BY <2>1, <3>1 DEF ReceiveRunning
  <2>2. CASE ReceiveCompleted
    BY <2>2 DEF ReceiveCompleted
  <2>3. CASE ReceiveReply \/ ReceiveAck \/ ReceiveOverflow \/ ReaderFails \/ ReaderExits
    BY <2>3 DEF ReceiveReply, ReceiveAck, ReceiveOverflow, ReaderFails, ReaderExits,
       owned, promptVars
  <2> QED
    BY <1>1, <2>1, <2>2, <2>3 DEF ReaderStep
<1>2. CASE ~ReaderStep
  <2>1. UNCHANGED <<segments, reason>>
    BY <1>2, ExecFrame, SenderFrame, InterruptFrame, DeliveryFrame, SDKFrame, GrokFrame
       DEF Next, vars, Wrapper, owned, promptVars
  <2> QED
    BY <2>1
<1> QED
  BY <1>1, <1>2

\* What is over for good: closing, a failed integration, a finished connection and
\* a cancelled Run.
LEMMA Latches ==
  ASSUME [Next]_vars
  PROVE  /\ closing => closing'
         /\ nativeFailure => nativeFailure'
         /\ runCancelled \subseteq runCancelled'
         /\ conn = "done" => conn' = "done"
<1> USE DEF outside, owned, wrapperVars, lane, connVars, sdkVars
<1>1. CASE SDKStep
  BY <1>1 DEF SDKStep, CaptureRun, CancelCaller, InterruptRun, CancelRun, FinishRun, Close
<1>2. CASE NativeStep \/ NativeFault \/ NativeExits \/ UNCHANGED vars
  BY <1>2, GrokFrame DEF Wrapper, vars
<1>3. CASE ReaderStep
  BY <1>3 DEF ReaderStep, ReceiveReply, ReceiveRunning, ReceiveAck, ReceiveCompleted,
     ReceiveOverflow, ReaderFails, ReaderExits, PendingFailure, Finish
<1>4. ASSUME NEW r \in Runs, SenderStep(r) \/ InterruptStep(r)
      PROVE  /\ UNCHANGED <<closing, nativeFailure, runCancelled>>
             /\ conn = "done" => conn' = "done"
  BY <1>4 DEF SenderStep, SubmitPrompt, PromptUnsubmitted, PromptWriteAborted,
     PromptReplied, InterruptStep, InterruptCallback, CallbackJoinsInterrupt, SendCancel,
     Write, Finish
<1>5. ASSUME NEW r \in Runs, ExecStep(r)
      PROVE  /\ UNCHANGED <<closing, runCancelled>> /\ (nativeFailure => nativeFailure')
             /\ conn = "done" => conn' = "done"
  BY <1>5, ExecFrame DEF ExecStep, RejectRun, EnterRun, InterruptedBeforeStart, StartPrompt,
     PromptStarted, PromptNotStarted, SeedAdmitted, SeedNotAdmitted,
     CheckInterrupted, RunJoinsInterrupt, AwaitReply, CompleteRun, RunFailed,
     RunBlocks, RunUnblocks, FailOwned, FailJoinsInterrupt, ReturnRun,
     PendingFailure, Finish
<1>6. ASSUME NEW m \in Messages, DeliveryStep(m)
      PROVE  /\ UNCHANGED <<closing, runCancelled>> /\ (nativeFailure => nativeFailure')
             /\ conn = "done" => conn' = "done"
  BY <1>6, DeliveryFrame DEF DeliveryStep, Deliver, GateCancelled, TakeGate,
     AdmissionFails, RegisterDelivery, SubmitInterject, InterjectUnsubmitted,
     InterjectWriteAborted, InterjectReplied, DeliverySettles, SchedulingLost,
     InterjectAborts, CallerReturns, Write, PendingFailure, Finish
<1> QED
  BY <1>1, <1>2, <1>3, <1>4, <1>5, <1>6 DEF Next

\* What makes InterruptNotLost inductive.  Whoever waits for the cancel of a prompt
\* has one to wait for; a callback that returned with nothing to cancel came before
\* executeRun looked itself; and a cancel still to be sent keeps its Run from
\* retiring while the connection is open.
InterruptKept ==
  \A r \in Runs :
    /\ exec[r] = "interrupting" \/ callback[r] = "joining" => interrupt[r] # "none"
    /\ /\ r \in interrupted /\ callback[r] = "returned"
       /\ exec[r] \in {"await", "owned", "blocked"}
       /\ Len(segments[r]) \leq 1 /\ ~LastTerminal(r)
       /\ ~closing /\ ~nativeFailure /\ r \notin runCancelled
       => interrupt[r] # "none"
    /\ interrupt[r] = "pending" /\ conn = "open" => exec[r] \in PromptPC \ RetiredPC

\* A prompt whose only segment has ended stays so while it has no other.
LEMMA TerminalStays ==
  ASSUME LaneInv, [Next]_vars, NEW r \in Runs, Len(segments'[r]) \leq 1, ~LastTerminal(r)'
  PROVE  Len(segments[r]) \leq 1 /\ ~LastTerminal(r)
<1> USE DEF LaneInv, TypeOK, PromptTypeOK, LastTerminal
<1>1. segments[r] \in Seq(Requests)
  OBVIOUS
<1>2. CASE segments'[r] = segments[r]
  <2>1. segments[r] # <<>> => segments[r][Len(segments[r])] \in Requests
    BY <1>1
  <2> QED
    BY <1>2, <2>1, CourseGrows
<1>3. ASSUME NEW i \in Requests, segments'[r] = Append(segments[r], i)
      PROVE  segments[r] = <<>>
  BY <1>1, <1>3
<1> QED
  BY <1>2, <1>3, CourseGrows

\* Where neither an interrupt nor executeRun is at work, its books are kept.
LEMMA InterruptStays ==
  ASSUME LaneInv, InterruptKept, [Next]_vars, UNCHANGED interrupt,
         \A r \in Runs : /\ Woke(r)
                         /\ callback'[r] # "called" =>
                              callback'[r] = callback[r]
                              /\ (r \in interrupted' => r \in interrupted)
  PROVE  InterruptKept'
<1> SUFFICES ASSUME NEW r \in Runs
             PROVE  /\ exec'[r] = "interrupting" \/ callback'[r] = "joining"
                         => interrupt'[r] # "none"
                    /\ /\ r \in interrupted' /\ callback'[r] = "returned"
                       /\ exec'[r] \in {"await", "owned", "blocked"}
                       /\ Len(segments'[r]) \leq 1 /\ ~LastTerminal(r)'
                       /\ ~closing' /\ ~nativeFailure' /\ r \notin runCancelled'
                       => interrupt'[r] # "none"
                    /\ interrupt'[r] = "pending" /\ conn' = "open"
                         => exec'[r] \in PromptPC \ RetiredPC
  BY DEF InterruptKept
<1>1. conn' = "open" => conn = "open"
  BY Latches DEF LaneInv, TypeOK, ConnTypeOK
<1> QED
  BY <1>1, Latches, TerminalStays DEF InterruptKept, Woke, PromptPC, ExecPC, RetiredPC

\* The books of the interrupts are kept by every step.
LEMMA InterruptKeptNext ==
  LaneInv /\ LaneHeld /\ InterruptKept /\ [Next]_vars => InterruptKept'
<1> SUFFICES ASSUME LaneInv, LaneHeld, InterruptKept, [Next]_vars PROVE InterruptKept'
  OBVIOUS
<1> USE DEF LaneInv, TypeOK, GoTypeOK, PromptTypeOK
<1>1. ASSUME NEW r \in Runs, ExecStep(r) PROVE InterruptKept'
  <2>1. UNCHANGED <<callback, interrupted, segments, reason, closing, runCancelled>>
        /\ \A q \in Runs : LastTerminal(q)' = LastTerminal(q)
    BY <1>1, ExecFrame DEF sdkVars, LastTerminal
  <2>2. conn' = "open" => conn = "open"
    BY Latches DEF ConnTypeOK
  <2>3. nativeFailure => nativeFailure'
    BY Latches
  <2> USE DEF InterruptKept, PromptPC, ExecPC, RetiredPC, Go
  <2>4. CASE CheckInterrupted(r)
    <3>1. /\ exec[r] = "started"
          /\ \A q \in Runs : q # r => exec'[q] = exec[q] /\ interrupt'[q] = interrupt[q]
          /\ exec'[r] \in {"await", "interrupting"}
      BY <2>4 DEF CheckInterrupted
    <3>2. r \in attempted /\ r \notin retiring /\ pendingPrompt = r
      BY <3>1 DEF LaneHeld, RunHeld, PromptHeld, WrittenPC
    <3>3. \/ exec'[r] = "await" /\ interrupt'[r] = interrupt[r]
             /\ (r \notin interrupted \/ InterruptIgnored(r) \/ r \in runCancelled)
          \/ exec'[r] = "interrupting" /\ interrupt'[r] # "none"
      BY <2>4 DEF CheckInterrupted
    <3> QED
      BY <2>1, <2>2, <2>3, <3>1, <3>2, <3>3 DEF InterruptIgnored
  <2>5. CASE FailOwned(r)
    <3>1. interrupt[r] = "pending" => conn' = "done"
      BY <2>5 DEF FailOwned, Unsettled, PendingFailure, Finish
    <3>2. exec[r] = "fail" /\ exec' = [exec EXCEPT ![r] = "joining"] /\ UNCHANGED interrupt
      BY <2>5 DEF FailOwned
    <3> QED
      BY <2>1, <2>2, <2>3, <3>1, <3>2
  <2>6. CASE ~CheckInterrupted(r) /\ ~FailOwned(r)
    <3>1. UNCHANGED interrupt
      BY <1>1, <2>6 DEF ExecStep, RejectRun, EnterRun, InterruptedBeforeStart, StartPrompt,
         PromptStarted, PromptNotStarted, SeedAdmitted, SeedNotAdmitted,
         RunJoinsInterrupt, AwaitReply, CompleteRun, RunFailed,
         RunBlocks, RunUnblocks, FailJoinsInterrupt, ReturnRun, owned, promptVars, course
    <3>2. \E pc \in ExecPC :
            /\ exec' = [exec EXCEPT ![r] = pc]
            /\ pc # "interrupting"
            /\ pc \in {"await", "owned", "blocked"} =>
                 exec[r] \in {"interrupting", "await", "owned", "blocked"}
            /\ exec[r] \in PromptPC \ RetiredPC =>
                 pc \in PromptPC \ RetiredPC \/ interrupt[r] # "pending"
      <4>1. CASE RejectRun(r) \/ EnterRun(r) \/ InterruptedBeforeStart(r) \/ StartPrompt(r)
                 \/ ReturnRun(r) \/ FailJoinsInterrupt(r)
        BY <4>1 DEF RejectRun, EnterRun, InterruptedBeforeStart, StartPrompt, ReturnRun,
           CanBegin, FailJoinsInterrupt
      <4>2. CASE PromptStarted(r)
        BY <4>2 DEF PromptStarted
      <4>3. CASE PromptNotStarted(r) \/ SeedAdmitted(r) \/ SeedNotAdmitted(r)
        BY <4>3 DEF PromptNotStarted, SeedAdmitted, SeedNotAdmitted
      <4>4. CASE RunJoinsInterrupt(r) \/ AwaitReply(r)
        BY <4>4 DEF RunJoinsInterrupt, AwaitReply
      <4>5. CASE CompleteRun(r) \/ RunFailed(r)
        BY <4>5 DEF CompleteRun, RunFailed, RunComplete
      <4>6. CASE RunBlocks(r) \/ RunUnblocks(r)
        BY <4>6 DEF RunBlocks, RunUnblocks
      <4> QED
        BY <1>1, <2>6, <4>1, <4>2, <4>3, <4>4, <4>5, <4>6 DEF ExecStep
    <3> QED
      BY <2>1, <2>2, <2>3, <3>1, <3>2
  <2> QED
    BY <2>4, <2>5, <2>6
<1>2. ASSUME NEW r \in Runs, InterruptStep(r) PROVE InterruptKept'
  <2>1. UNCHANGED <<interrupted, segments, reason, closing, nativeFailure, runCancelled>>
        /\ \A q \in Runs : LastTerminal(q)' = LastTerminal(q)
    BY <1>2, InterruptFrame DEF sdkVars, wrapperVars, lane, LastTerminal
  <2>2. conn' = "open" => conn = "open"
    BY Latches DEF ConnTypeOK
  <2>3. \A q \in Runs : Woke(q)
    BY <1>2, InterruptAround DEF Around
  <2> USE <2>1, <2>2, <2>3 DEF InterruptKept, Woke, PromptPC, ExecPC, RetiredPC
  <2>4. CASE InterruptCallback(r)
    <3>1. UNCHANGED <<exec, conn>>
      BY <2>4 DEF InterruptCallback, callbackOthers, outside, connVars
    <3>2. CASE run # r \/ InterruptIgnored(r)
      <4>1. callback' = [callback EXCEPT ![r] = "returned"] /\ UNCHANGED interrupt
        BY <2>4, <3>2 DEF InterruptCallback
      <4>2. exec[r] \in {"await", "owned", "blocked"} =>
              run = r /\ pendingPrompt = r /\ r \in attempted /\ r \notin retiring
        BY DEF LaneHeld, RunHeld, PromptHeld, WrittenPC
      <4> QED
        BY <3>1, <3>2, <4>1, <4>2 DEF InterruptIgnored
    <3>3. CASE run = r /\ ~InterruptIgnored(r)
      <4>1. /\ callback' = [callback EXCEPT ![r] = "joining"]
            /\ interrupt' = [interrupt EXCEPT ![r] = IF @ = "none" THEN "pending" ELSE @]
        BY <2>4, <3>3 DEF InterruptCallback
      <4>2. exec[r] \in PromptPC \ RetiredPC
        BY <3>3 DEF InterruptIgnored, LaneHeld, RunHeld, PromptHeld
      <4> QED
        BY <3>1, <4>1, <4>2
    <3> QED
      BY <3>2, <3>3
  <2>5. CASE CallbackJoinsInterrupt(r)
    BY <2>5 DEF CallbackJoinsInterrupt, owned, promptVars, course
  <2>6. CASE SendCancel(r)
    BY <2>6 DEF SendCancel, execOthers, others
  <2> QED
    BY <1>2, <2>4, <2>5, <2>6 DEF InterruptStep
<1>3. CASE SDKStep
  <2>1. \A r \in Runs : callback'[r] # "called" =>
          callback'[r] = callback[r] /\ (r \in interrupted' => r \in interrupted)
    BY <1>3 DEF SDKStep, CaptureRun, CancelCaller, InterruptRun, CancelRun, FinishRun,
       Close, goVars, others, callerOthers, outside, sdkVars
  <2> QED
    BY <1>3, <2>1, SDKFrame, OutsideAround, InterruptStays DEF Around, promptVars, course
<1>4. ASSUME Around, UNCHANGED <<interrupt, callback, interrupted>> PROVE InterruptKept'
  BY <1>4, InterruptStays DEF Around
<1>5. CASE \E r \in Runs : SenderStep(r)
  BY <1>4, <1>5, SenderAround, SenderFrame DEF senderOthers, promptVars, course, sdkVars
<1>6. CASE \E m \in Messages : DeliveryStep(m)
  BY <1>4, <1>6, DeliveryAround, DeliveryFrame DEF course, sdkVars
<1>7. CASE ReaderStep
  BY <1>4, <1>7, ReaderAround, ReaderFrame DEF sdkVars, others
<1>8. CASE NativeStep \/ NativeFault \/ NativeExits \/ UNCHANGED vars
  BY <1>4, <1>8, OutsideAround, GrokFrame
     DEF Wrapper, vars, outside, owned, promptVars, course, sdkVars, goVars, others
<1> QED
  BY <1>1, <1>2, <1>3, <1>5, <1>6, <1>7, <1>8 DEF Next

\* No interrupt is under way when the worker starts.
LEMMA InterruptInit == Init => InterruptKept
BY DEF Init, InterruptKept

\* An interrupt that came before its prompt could be cancelled is never lost: while
\* the one prompt of its Run goes on, its cancel was sent or is being sent.
THEOREM InterruptSafety == Spec => []InterruptNotLost
<1>1. InterruptKept => InterruptNotLost
  <2> SUFFICES ASSUME InterruptKept, NEW r \in Runs, r \in interrupted,
                      callback[r] = "returned", Interruptible(r), Len(segments[r]) = 1
               PROVE  interrupt[r] # "none"
    BY DEF InterruptNotLost
  <2>1. Len(segments[r]) \leq 1
    OBVIOUS
  <2> QED
    BY <2>1 DEF InterruptKept, Interruptible
<1> QED
  BY LaneInvariant, HeldInit, HeldKept, InterruptInit, InterruptKeptNext, <1>1, PTL DEF Spec

-----------------------------------------------------------------------------
(* What Grok has taken.                                                    *)

\* The steps of the child, and what it works at.
GrokStep == NativeStep \/ NativeFault \/ NativeExits
work == <<running, queued, buffered, enqueued>>

\* The session/prompt of r is on its way to Grok.
Submitting(r) == \E k \in DOMAIN toNative : toNative[k] = Call("prompt", r)

\* Grok has taken what i stands for off the wire; it waits for nothing any more; it
\* does not run now.
Taken(i) == IF i \in Runs THEN i \in written /\ ~Submitting(i) ELSE i \in enqueued
Begun(i) == Taken(i) /\ i \notin queued /\ i \notin buffered
Over(i) == Begun(i) /\ running # i

PromptOnce ==
  \A j \in DOMAIN toNative, k \in DOMAIN toNative :
    toNative[j] = toNative[k] /\ toNative[j].type = "prompt" => j = k

\* Each native prompt is in one place at a time, and only there after it was written.
NativeOrder ==
  /\ PromptOnce
  /\ \A r \in Runs : Submitting(r) => r \in written
  /\ \A i \in queued : Taken(i)
  /\ buffered \subseteq enqueued /\ buffered \cap queued = {}
  /\ running # None => Begun(running)

\* What has begun, and what is over, stays so.
Lasting ==
  \A i \in Requests : (Begun(i) => Begun(i)') /\ (Over(i) => Over(i)')

\* The wire grows only by the three kinds of call.
LEMMA WrapperWrites ==
  ASSUME [Next]_vars
  PROVE  \/ GrokStep
         \/ /\ UNCHANGED work
            /\ \/ UNCHANGED <<toNative, written>>
               \/ \E r \in Runs : SubmitPrompt(r)
               \/ \E m \in Messages : SubmitInterject(m)
               \/ \E r \in Runs :
                    /\ SendCancel(r) /\ conn = "open"
                    /\ toNative' = Append(toNative, Call("cancel", r)) /\ UNCHANGED written
<1> USE DEF work
<1>1. ASSUME NEW r \in Runs, ExecStep(r) PROVE UNCHANGED <<work, toNative, written>>
  BY <1>1, ExecFrame DEF nativeVars
<1>2. ASSUME NEW r \in Runs, SenderStep(r), ~SubmitPrompt(r)
      PROVE  UNCHANGED <<work, toNative, written>>
  BY <1>2, SenderFrame DEF offWire, SenderStep, PromptUnsubmitted, PromptWriteAborted,
     PromptReplied, outside, nativeVars, connVars
<1>3. ASSUME NEW r \in Runs, SenderStep(r) \/ InterruptStep(r) PROVE UNCHANGED work
  BY <1>3, SenderFrame, InterruptFrame DEF offWire
<1>4. ASSUME NEW r \in Runs, InterruptStep(r)
      PROVE  /\ UNCHANGED <<work, written>>
             /\ \/ UNCHANGED toNative
                \/ SendCancel(r) /\ conn = "open"
                   /\ toNative' = Append(toNative, Call("cancel", r))
  BY <1>4, InterruptFrame DEF offWire, InterruptStep, InterruptCallback,
     CallbackJoinsInterrupt, SendCancel, outside, nativeVars
<1>5. ASSUME NEW m \in Messages, DeliveryStep(m) PROVE UNCHANGED work
  BY <1>5, DeliveryFrame DEF offWire
<1>6. ASSUME NEW m \in Messages, DeliveryStep(m), ~SubmitInterject(m)
      PROVE  UNCHANGED <<toNative, written>>
  BY <1>6 DEF DeliveryStep, Deliver, GateCancelled, TakeGate, AdmissionFails,
     RegisterDelivery, InterjectUnsubmitted, InterjectWriteAborted, InterjectReplied,
     DeliverySettles, SchedulingLost, InterjectAborts, CallerReturns,
     outside, nativeVars, connVars
<1>7. CASE ReaderStep
  BY <1>7, ReaderFrame
<1>8. CASE SDKStep \/ UNCHANGED vars
  BY <1>8, SDKFrame DEF nativeVars, connVars, vars, outside
<1> QED
  BY <1>1, <1>2, <1>3, <1>4, <1>5, <1>6, <1>7, <1>8 DEF Next, GrokStep

\* One more frame on the wire is a second session/prompt only if it repeats one.
LEMMA AppendPrompt ==
  ASSUME NativeTypeOK, NEW c \in CallFrame, toNative' = Append(toNative, c)
  PROVE  /\ \A r \in Runs : Submitting(r)' => Submitting(r) \/ c = Call("prompt", r)
         /\ PromptOnce /\ (c.type = "prompt" => \A k \in DOMAIN toNative : toNative[k] # c)
              => PromptOnce'
<1>1. toNative \in Seq(CallFrame)
  BY DEF NativeTypeOK
<1>2. \A k \in DOMAIN toNative' :
        \/ k \in DOMAIN toNative /\ toNative'[k] = toNative[k]
        \/ k = Len(toNative) + 1 /\ toNative'[k] = c
  BY <1>1
<1> QED
  BY <1>2 DEF Submitting, PromptOnce

\* A session/prompt that Grok takes off the wire is not on it any more.
LEMMA TailPrompt ==
  ASSUME NativeTypeOK, toNative # <<>>, toNative' = Tail(toNative), PromptOnce
  PROVE  /\ PromptOnce'
         /\ \A r \in Runs : Submitting(r)' => Submitting(r)
         /\ \A r \in Runs :
              Head(toNative) = Call("prompt", r) => Submitting(r) /\ ~Submitting(r)'
<1>1. toNative \in Seq(CallFrame)
  BY DEF NativeTypeOK
<1>2. /\ \A k \in DOMAIN toNative' :
           k \in Nat /\ k + 1 \in DOMAIN toNative /\ toNative'[k] = toNative[k + 1] /\ k + 1 # 1
      /\ 1 \in DOMAIN toNative /\ toNative[1] = Head(toNative)
  BY <1>1
<1>3. PromptOnce'
  BY <1>2 DEF PromptOnce
<1>4. \A r \in Runs : Submitting(r)' => Submitting(r)
  BY <1>2 DEF Submitting
<1>5. ASSUME NEW r \in Runs, Head(toNative) = Call("prompt", r)
      PROVE  Submitting(r) /\ ~Submitting(r)'
  BY <1>2, <1>5 DEF Submitting, PromptOnce, Call
<1> QED
  BY <1>3, <1>4, <1>5

\* The call Grok reads next is one the wrapper wrote.
LEMMA HeadCall ==
  ASSUME NativeTypeOK, NEW type, NextCall(type)
  PROVE  /\ Head(toNative) = Call(type, Head(toNative).id) /\ toNative # <<>>
         /\ type \in {"prompt", "cancel"} => Head(toNative).id \in Runs
         /\ type = "interject" => Head(toNative).id \in Messages
<1>1. Head(toNative) \in CallFrame /\ toNative # <<>> /\ Head(toNative).type = type
  BY DEF NativeTypeOK, NextCall
<1>2. Head(toNative) = [type |-> type, id |-> Head(toNative).id]
  BY <1>1 DEF CallFrame
<1>3. /\ type \in {"prompt", "cancel"} => Head(toNative).id \in Runs
      /\ type = "interject" => Head(toNative).id \in Messages
  BY <1>1 DEF CallFrame
<1> QED
  BY <1>1, <1>2, <1>3 DEF Call

\* The wrapper puts a prompt on the wire once, and takes nothing off it.
LEMMA NativeOrderWritten ==
  ASSUME LaneInv, LaneHeld, NativeOrder, [Next]_vars, ~GrokStep
  PROVE  NativeOrder' /\ Lasting
<1>0. NativeTypeOK /\ UNCHANGED work
  BY WrapperWrites DEF LaneInv, TypeOK
<1> USE <1>0 DEF work
<1>1. ASSUME \A r \in Runs : Submitting(r)' => Submitting(r), PromptOnce',
             written \subseteq written'
      PROVE  NativeOrder' /\ Lasting
  BY <1>1 DEF NativeOrder, Lasting, Taken, Begun, Over
<1>2. CASE UNCHANGED <<toNative, written>>
  <2>1. PromptOnce' /\ \A r \in Runs : Submitting(r)' => Submitting(r)
    BY <1>2 DEF NativeOrder, PromptOnce, Submitting
  <2> QED
    BY <1>1, <1>2, <2>1
<1>3. ASSUME NEW c \in CallFrame, c.type # "prompt", toNative' = Append(toNative, c),
             written \subseteq written'
      PROVE  NativeOrder' /\ Lasting
  <2>1. \A r \in Runs : Submitting(r)' => Submitting(r)
    BY <1>3, AppendPrompt DEF Call
  <2>2. PromptOnce'
    BY <1>3, AppendPrompt DEF NativeOrder
  <2> QED
    BY <1>1, <1>3, <2>1, <2>2
<1>4. ASSUME NEW r \in Runs, SubmitPrompt(r) PROVE NativeOrder' /\ Lasting
  <2> DEFINE c == Call("prompt", r)
  <2>1. /\ sender[r] = "submit" /\ toNative' = Append(toNative, c)
        /\ written' = written \cup {r}
    BY <1>4 DEF SubmitPrompt, Write
  <2>2. r \notin written
    BY <2>1 DEF LaneInv, SeedAccounted, LaneHeld, PromptHeld
  <2>3. c \in CallFrame /\ c.type = "prompt" /\ \A q \in Runs : c = Call("prompt", q) => q = r
    BY DEF Call, CallFrame
  <2>4. \A k \in DOMAIN toNative : toNative[k] # c
    BY <2>2 DEF NativeOrder, Submitting
  <2> HIDE DEF c
  <2>5. PromptOnce' /\ \A q \in Runs : Submitting(q)' => Submitting(q) \/ q = r
    BY <2>1, <2>3, <2>4, AppendPrompt DEF NativeOrder
  <2>6. ~Taken(r)
    BY <2>2 DEF Taken
  <2>7. r \notin queued /\ running # r
    BY <2>6, NativeAssumption DEF NativeOrder, Begun, Requests
  <2>8. \A i \in Requests : i # r => (Taken(i) => Taken(i)')
    BY <2>1, <2>5 DEF Taken
  <2>9. \A i \in Requests : (Begun(i) => Begun(i)') /\ (Over(i) => Over(i)')
    BY <2>6, <2>8 DEF Begun, Over
  <2>10. running # None => Begun(running)'
    BY <1>0, <2>9 DEF NativeOrder, NativeTypeOK
  <2>11. \A i \in queued : Taken(i)'
    BY <2>7, <2>8 DEF NativeOrder, NativeTypeOK
  <2> QED
    BY <2>1, <2>5, <2>9, <2>10, <2>11 DEF NativeOrder, Lasting
<1>5. ASSUME NEW m \in Messages, SubmitInterject(m) PROVE NativeOrder' /\ Lasting
  BY <1>3, <1>5 DEF SubmitInterject, Write, Call, CallFrame
<1>6. ASSUME NEW r \in Runs, toNative' = Append(toNative, Call("cancel", r)),
             UNCHANGED written
      PROVE  NativeOrder' /\ Lasting
  BY <1>3, <1>6 DEF Call, CallFrame
<1> QED
  BY <1>2, <1>4, <1>5, <1>6, WrapperWrites

\* A call that Grok takes off the wire leaves every prompt in one place.
LEMMA NativeOrderTaken ==
  ASSUME NativeTypeOK, WireInv, NativeOrder, GrokStep, UNCHANGED written,
         toNative # <<>>, toNative' = Tail(toNative)
  PROVE  /\ PromptOnce' /\ \A r \in Runs : Submitting(r)' => r \in written'
         /\ enqueued \subseteq enqueued' => \A i \in Requests : Taken(i) => Taken(i)'
BY TailPrompt DEF NativeOrder, Taken

\* Grok takes a prompt or an interject off the wire once, and runs what waited.
LEMMA NativeOrderGrok ==
  ASSUME LaneInv, WireInv, NativeOrder, GrokStep
  PROVE  NativeOrder' /\ Lasting
<1>0. NativeTypeOK /\ UNCHANGED written
  BY GrokFrame DEF LaneInv, TypeOK, GrokStep, Wrapper, connVars
<1> USE <1>0, NativeAssumption DEF NativeOrder, Lasting, Begun, Over, Requests
<1>1. UNCHANGED <<toNative, enqueued>> =>
        /\ PromptOnce' /\ \A r \in Runs : Submitting(r)' => r \in written'
        /\ \A i \in Requests : Taken(i)' = Taken(i)
  BY DEF PromptOnce, Submitting, Taken
<1>2. CASE TakePrompt
  <2>1. toNative # <<>> /\ toNative' = Tail(toNative) /\ UNCHANGED <<running, buffered, enqueued>>
        /\ NextCall("prompt")
    BY <1>2 DEF TakePrompt, NextCall
  <2>2. PICK r \in Runs : Head(toNative) = Call("prompt", r) /\ queued' = queued \cup {r}
    BY <1>2, <2>1, HeadCall DEF TakePrompt, Call
  <2>3. Submitting(r) /\ ~Submitting(r)' /\ r \in written
    BY <2>1, <2>2, TailPrompt
  <2>4. /\ PromptOnce' /\ \A q \in Runs : Submitting(q)' => q \in written'
        /\ \A i \in Requests : Taken(i) => Taken(i)'
    BY <2>1, NativeOrderTaken
  <2>5. ~Taken(r) /\ Taken(r)' /\ r \notin buffered
    BY <2>3 DEF Taken, NativeTypeOK
  <2>6. \A i \in Requests : Begun(i) => Begun(i)'
    BY <2>1, <2>2, <2>4, <2>5
  <2>7. \A i \in queued' : Taken(i)'
    BY <2>2, <2>4, <2>5 DEF NativeTypeOK
  <2>8. running' # None => Begun(running)'
    BY <2>1, <2>6 DEF NativeTypeOK
  <2> QED
    BY <2>1, <2>2, <2>4, <2>5, <2>6, <2>7, <2>8
<1>3. CASE TakeInterject
  <2>1. toNative # <<>> /\ toNative' = Tail(toNative) /\ UNCHANGED running
        /\ NextCall("interject")
    BY <1>3 DEF TakeInterject, NextCall
  <2>2. PICK m \in Messages :
          /\ Head(toNative) = Call("interject", m) /\ enqueued' = enqueued \cup {m}
          /\ \/ queued' = queued \cup {m} /\ UNCHANGED buffered
             \/ buffered' = buffered \cup {m} /\ UNCHANGED queued
    BY <1>3, <2>1, HeadCall DEF TakeInterject
  <2>3. m \notin enqueued /\ m \notin Runs
    BY <2>1, <2>2, TailWire DEF WireInv, WireAccounted
  <2>4. /\ PromptOnce' /\ \A q \in Runs : Submitting(q)' => q \in written'
        /\ \A i \in Requests : Taken(i) => Taken(i)'
    BY <2>1, <2>2, NativeOrderTaken
  <2>5. ~Taken(m) /\ Taken(m)' /\ m \notin buffered /\ m \notin queued
    BY <2>2, <2>3 DEF Taken
  <2>6. \A i \in Requests : Begun(i) => Begun(i)'
    BY <2>2, <2>4, <2>5
  <2>7. \A i \in queued' : Taken(i)'
    BY <2>2, <2>4, <2>5 DEF NativeTypeOK
  <2>8. running' # None => Begun(running)'
    BY <2>1, <2>6 DEF NativeTypeOK
  <2>9. buffered' \subseteq enqueued' /\ buffered' \cap queued' = {}
    BY <2>2, <2>5
  <2> QED
    BY <2>1, <2>4, <2>6, <2>7, <2>8, <2>9
<1>4. CASE RefuseCall \/ TakeCancel
  <2>1. /\ toNative # <<>> /\ toNative' = Tail(toNative) /\ UNCHANGED <<queued, enqueued>>
        /\ running' \in {running, None} /\ buffered' \subseteq buffered
    BY <1>4 DEF RefuseCall, TakeCancel, NextCall
  <2>2. /\ PromptOnce' /\ \A q \in Runs : Submitting(q)' => q \in written'
        /\ \A i \in Requests : Taken(i) => Taken(i)'
    BY <2>1, NativeOrderTaken
  <2> QED
    BY <2>1, <2>2 DEF NativeTypeOK
<1>5. CASE Drain
  BY <1>1, <1>5 DEF Drain, NativeTypeOK
<1>6. CASE EndRunning
  <2>1. /\ UNCHANGED <<toNative, enqueued>> /\ running' = None
        /\ queued' = queued \cup buffered /\ buffered' = {}
    BY <1>6 DEF EndRunning
  <2>2. \A m \in buffered : Taken(m)
    BY DEF Taken, NativeTypeOK
  <2> QED
    BY <1>1, <2>1, <2>2 DEF NativeTypeOK
<1>7. ASSUME NEW i \in Requests, StartRunning(i) PROVE NativeOrder' /\ Lasting
  <2>1. /\ UNCHANGED <<toNative, enqueued, buffered>> /\ running' = i
        /\ i \in queued /\ queued' = queued \ {i}
    BY <1>7 DEF StartRunning
  <2> QED
    BY <1>1, <2>1 DEF NativeTypeOK
<1>8. ASSUME UNCHANGED <<toNative, work>> PROVE NativeOrder' /\ Lasting
  BY <1>1, <1>8 DEF work, NativeTypeOK
<1> QED
  BY <1>2, <1>3, <1>4, <1>5, <1>6, <1>7, <1>8
     DEF GrokStep, NativeStep, NativeFault, NativeExits, NativeWork, ReplyLate, Overflow,
         Exit, work

\* Each native prompt stays in one place at every step, and what has begun stays so.
LEMMA NativeOrderKept ==
  LaneInv /\ WireInv /\ LaneHeld /\ NativeOrder /\ [Next]_vars => NativeOrder' /\ Lasting
BY NativeOrderWritten, NativeOrderGrok

\* Nothing is written or taken when the worker starts.
LEMMA NativeOrderInit == Init => NativeOrder
BY DEF Init, NativeInit, NativeOrder, PromptOnce, Submitting

-----------------------------------------------------------------------------
(* What Grok has told.                                                     *)

\* The frame at k of the stream ends the native prompt i.
Completes(k, i) == fromNative[k].type = "completed" /\ fromNative[k].id = i

\* What runs, or has an output, is not over before its terminal on the stream.
LiveAt(k) ==
  LET f == fromNative[k] IN
  f.type \in {"running", "chunk"} =>
    /\ reason[f.id] = "open"
    /\ running = f.id \/ \E j \in DOMAIN fromNative : j > k /\ Completes(j, f.id)

\* A terminal comes once, from a native prompt that is over, and last.
EndAt(k) ==
  LET f == fromNative[k] IN
  f.type = "completed" =>
    /\ reason[f.id] = "open" /\ Over(f.id)
    /\ \A j \in DOMAIN fromNative : j > k /\ fromNative[j].id = f.id =>
         fromNative[j].type \notin {"running", "chunk", "completed"}

\* The reply to a session/prompt comes from one that is over or was refused, and
\* behind its announcement.
AnswerAt(k) ==
  LET f == fromNative[k] IN
  f.type = "reply" /\ f.id \in Runs =>
    /\ Over(f.id)
    /\ \A j \in DOMAIN fromNative :
         j > k /\ fromNative[j].id = f.id => fromNative[j].type # "running"

StreamOrder ==
  /\ \A k \in DOMAIN fromNative : LiveAt(k) /\ EndAt(k) /\ AnswerAt(k)
  /\ \A i \in Requests : reason[i] # "open" => Over(i)
  /\ \A r \in Runs : reply[r] \in {"ok", "refused"} =>
       /\ Over(r)
       /\ \A k \in DOMAIN fromNative : fromNative[k].id = r => fromNative[k].type # "running"

\* No request is answered here.
NoAnswer ==
  \A x \in Requests : reply'[x] \in {"ok", "refused"} => reply'[x] = reply[x]

\* Every frame is about a request.
LEMMA FrameId ==
  ASSUME NativeTypeOK, NEW k \in DOMAIN fromNative
  PROVE  fromNative[k].id \in Requests /\ fromNative[k].id # None
<1>1. fromNative[k] \in NativeFrame
  BY DEF NativeTypeOK
<1> QED
  BY <1>1, NativeAssumption DEF NativeFrame, Requests

\* Frames put on the stream stand behind all others, in their order.
LEMMA EmitAt ==
  ASSUME NativeTypeOK, NEW s \in Seq(NativeFrame), Emit(s)
  PROVE  /\ Len(fromNative) \in Nat
         /\ \A k \in DOMAIN fromNative :
              /\ k \in Nat /\ k <= Len(fromNative)
              /\ k \in DOMAIN fromNative' /\ fromNative'[k] = fromNative[k]
         /\ \A k \in DOMAIN fromNative' :
              \/ k \in DOMAIN fromNative
              \/ \E j \in DOMAIN s : k = Len(fromNative) + j /\ fromNative'[k] = s[j]
         /\ \A j \in DOMAIN s : /\ j \in Nat /\ j > 0
                                /\ Len(fromNative) + j \in DOMAIN fromNative'
                                /\ fromNative'[Len(fromNative) + j] = s[j]
<1>1. fromNative \in Seq(NativeFrame)
  BY DEF NativeTypeOK
<1>2. /\ Len(fromNative \o s) = Len(fromNative) + Len(s)
      /\ \A k \in 1 .. Len(fromNative) + Len(s) :
           (fromNative \o s)[k] = IF k <= Len(fromNative) THEN fromNative[k]
                                  ELSE s[k - Len(fromNative)]
      /\ DOMAIN (fromNative \o s) = 1 .. Len(fromNative) + Len(s)
  BY <1>1, ConcatProperties
<1>3. /\ Len(fromNative) \in Nat /\ Len(s) \in Nat
      /\ DOMAIN fromNative = 1 .. Len(fromNative) /\ DOMAIN s = 1 .. Len(s)
  BY <1>1
<1>4. fromNative' = fromNative \o s
  BY DEF Emit
<1> DEFINE L == Len(fromNative)
           N == Len(s)
           old == fromNative
           new == fromNative'
<1>5. /\ L \in Nat /\ N \in Nat /\ DOMAIN old = 1 .. L /\ DOMAIN s = 1 .. N
      /\ DOMAIN new = 1 .. L + N
      /\ \A k \in 1 .. L + N : new[k] = IF k <= L THEN old[k] ELSE s[k - L]
  BY <1>2, <1>3, <1>4
<1> HIDE DEF L, N, old, new
<1>6. /\ \A k \in DOMAIN old : k \in Nat /\ k <= L /\ k \in DOMAIN new /\ new[k] = old[k]
      /\ \A j \in DOMAIN s : j \in Nat /\ j > 0 /\ L + j \in DOMAIN new /\ new[L + j] = s[j]
  BY <1>5
<1>7. ASSUME NEW k \in DOMAIN new, k \notin DOMAIN old
      PROVE  \E j \in DOMAIN s : k = L + j /\ new[k] = s[j]
  <2>1. k \in 1 .. L + N /\ k \notin 1 .. L
    BY <1>5, <1>7
  <2>2. k > L /\ k - L \in 1 .. N /\ k = L + (k - L)
    BY <1>5, <2>1
  <2>3. new[k] = s[k - L]
    BY <1>5, <2>1, <2>2
  <2> QED
    BY <1>5, <2>2, <2>3
<1> QED
  BY <1>5, <1>6, <1>7 DEF L, old, new

\* The reader's head is the first frame, and the others move up by one.
LEMMA TailAt ==
  ASSUME NativeTypeOK, fromNative # <<>>, fromNative' = Tail(fromNative)
  PROVE  /\ \A k \in DOMAIN fromNative : k \in Nat /\ k > 0
         /\ \A k \in DOMAIN fromNative' :
              /\ k \in Nat /\ k > 0
              /\ k + 1 \in DOMAIN fromNative /\ fromNative'[k] = fromNative[k + 1]
         /\ \A k \in DOMAIN fromNative :
              k > 1 => k - 1 \in DOMAIN fromNative' /\ fromNative'[k - 1] = fromNative[k]
         /\ 1 \in DOMAIN fromNative /\ fromNative[1] = Head(fromNative)
<1>1. fromNative \in Seq(NativeFrame)
  BY DEF NativeTypeOK
<1> QED
  BY <1>1

\* Steps that neither put frames on the stream nor take any keep it in order.
LEMMA StreamStill ==
  ASSUME NativeTypeOK, StreamOrder, Lasting, UNCHANGED <<fromNative, reason>>, NoAnswer,
         running' = running \/ running = None
  PROVE  StreamOrder'
<1> USE DEF Requests
<1>1. \A k \in DOMAIN fromNative : fromNative[k].id \in Requests /\ fromNative[k].id # None
  BY FrameId
<1>2. \A k \in DOMAIN fromNative : LiveAt(k)'
  BY <1>1 DEF StreamOrder, LiveAt, Completes
<1>3. \A k \in DOMAIN fromNative : EndAt(k)'
  BY <1>1 DEF StreamOrder, EndAt, Lasting
<1>4. \A k \in DOMAIN fromNative : AnswerAt(k)'
  BY <1>1 DEF StreamOrder, AnswerAt, Lasting
<1> QED
  BY <1>2, <1>3, <1>4 DEF StreamOrder, Lasting, NoAnswer

\* The stream stays in order when the reader takes its first frame and records what it
\* says.
LEMMA StreamRead ==
  ASSUME NativeTypeOK, PromptTypeOK, StreamOrder, Lasting, UNCHANGED running,
         fromNative # <<>>, fromNative' = Tail(fromNative),
         \/ UNCHANGED reason
         \/ /\ Head(fromNative).type = "completed"
            /\ reason' = [reason EXCEPT ![Head(fromNative).id] = Head(fromNative).status],
         \A r \in Runs : reply'[r] \in {"ok", "refused"} =>
           \/ reply'[r] = reply[r]
           \/ Head(fromNative).type = "reply" /\ Head(fromNative).id = r
  PROVE  StreamOrder'
<1>1. \A k \in DOMAIN fromNative : fromNative[k].id \in Requests
  BY FrameId
<1>2. \A k \in DOMAIN fromNative :
        k > 1 /\ fromNative[k].type \in {"running", "chunk", "completed"}
          => reason'[fromNative[k].id] = "open"
  BY <1>1, TailAt DEF StreamOrder, LiveAt, EndAt, PromptTypeOK
<1>3. \A k \in DOMAIN fromNative' : LiveAt(k)'
  <2> SUFFICES ASSUME NEW k \in DOMAIN fromNative' PROVE LiveAt(k)'
    OBVIOUS
  <2>1. k \in Nat /\ k + 1 \in DOMAIN fromNative /\ fromNative'[k] = fromNative[k + 1] /\ k + 1 > 1
    BY TailAt
  <2>2. CASE running = fromNative[k + 1].id
    BY <1>2, <2>1, <2>2 DEF LiveAt
  <2>3. ASSUME NEW j \in DOMAIN fromNative, j > k + 1, Completes(j, fromNative[k + 1].id)
        PROVE  LiveAt(k)'
    <3>1. j - 1 \in DOMAIN fromNative' /\ fromNative'[j - 1] = fromNative[j] /\ j - 1 > k
      BY <2>1, <2>3, TailAt
    <3> QED
      BY <1>2, <2>1, <2>3, <3>1 DEF LiveAt, Completes
  <2> QED
    BY <2>1, <2>2, <2>3 DEF StreamOrder, LiveAt
<1>4. \A k \in DOMAIN fromNative' : EndAt(k)'
  <2> SUFFICES ASSUME NEW k \in DOMAIN fromNative', fromNative'[k].type = "completed"
               PROVE  EndAt(k)'
    BY DEF EndAt
  <2>1. k \in Nat /\ k + 1 \in DOMAIN fromNative /\ fromNative'[k] = fromNative[k + 1] /\ k + 1 > 1
    BY TailAt
  <2>2. \A j \in DOMAIN fromNative' : j > k =>
          j + 1 \in DOMAIN fromNative /\ j + 1 > k + 1 /\ fromNative'[j] = fromNative[j + 1]
    BY <2>1, TailAt
  <2> QED
    BY <1>1, <1>2, <2>1, <2>2 DEF StreamOrder, EndAt, Lasting
<1>5. \A k \in DOMAIN fromNative' : AnswerAt(k)'
  <2> SUFFICES ASSUME NEW k \in DOMAIN fromNative' PROVE AnswerAt(k)'
    OBVIOUS
  <2>1. k \in Nat /\ k + 1 \in DOMAIN fromNative /\ fromNative'[k] = fromNative[k + 1]
    BY TailAt
  <2>2. \A j \in DOMAIN fromNative' : j > k =>
          j + 1 \in DOMAIN fromNative /\ j + 1 > k + 1 /\ fromNative'[j] = fromNative[j + 1]
    BY <2>1, TailAt
  <2> QED
    BY <1>1, <2>1, <2>2 DEF StreamOrder, AnswerAt, Lasting
<1>6. \A i \in Requests : reason'[i] # "open" => Over(i)'
  BY TailAt DEF StreamOrder, EndAt, Lasting, PromptTypeOK
<1>7. ASSUME NEW r \in Runs, reply'[r] \in {"ok", "refused"}
      PROVE  /\ Over(r)'
             /\ \A k \in DOMAIN fromNative' :
                  fromNative'[k].id = r => fromNative'[k].type # "running"
  <2>1. \A k \in DOMAIN fromNative' :
          k + 1 \in DOMAIN fromNative /\ k + 1 > 1 /\ fromNative'[k] = fromNative[k + 1]
    BY TailAt
  <2>2. CASE reply'[r] = reply[r]
    BY <1>7, <2>1, <2>2 DEF StreamOrder, Lasting, Requests
  <2>3. CASE Head(fromNative).type = "reply" /\ Head(fromNative).id = r
    <3>1. AnswerAt(1) /\ fromNative[1] = Head(fromNative)
      BY TailAt DEF StreamOrder
    <3> QED
      BY <2>1, <2>3, <3>1 DEF AnswerAt, Lasting, Requests
  <2> QED
    BY <1>7, <2>2, <2>3
<1> QED
  BY <1>3, <1>4, <1>5, <1>6, <1>7 DEF StreamOrder

\* Grok tells of a native prompt while it runs, ends it with its last frame about
\* it, and answers a session/prompt when it is over.
Tells(s) ==
  /\ \A j \in DOMAIN s : LET f == s[j] IN
       /\ f.type \in {"running", "chunk"} => ~Over(f.id) /\ running' = f.id /\ j = 1
       /\ f.type = "completed" => /\ running = f.id /\ Over(f.id)'
                                  /\ \A i \in DOMAIN s : i > j => s[i].type = "reply"
       /\ f.type = "reply" /\ f.id \in Runs => Over(f.id)'
  /\ \/ running' = running \/ running = None
     \/ running' = None /\ \E j \in DOMAIN s : s[j].type = "completed" /\ s[j].id = running

\* The stream stays in order when Grok puts frames on it that tell what it did.
LEMMA StreamEmitted ==
  ASSUME NativeTypeOK, StreamOrder, Lasting, NEW s \in Seq(NativeFrame), Emit(s), Tells(s),
         UNCHANGED <<reason, reply>>
  PROVE  StreamOrder'
<1> DEFINE L == Len(fromNative)
<1>0. \A j \in DOMAIN s : s[j].id \in Requests
  <2>1. \A j \in DOMAIN s : s[j] \in NativeFrame
    OBVIOUS
  <2> QED
    BY <2>1 DEF NativeFrame, Requests
<1>1. \A k \in DOMAIN fromNative : fromNative[k].id \in Requests /\ fromNative[k].id # None
  BY FrameId
<1>2. /\ L \in Nat
      /\ \A k \in DOMAIN fromNative :
           /\ k \in Nat /\ k <= L
           /\ k \in DOMAIN fromNative' /\ fromNative'[k] = fromNative[k]
      /\ \A k \in DOMAIN fromNative' :
           \/ k \in DOMAIN fromNative
           \/ \E j \in DOMAIN s : k = L + j /\ fromNative'[k] = s[j]
      /\ \A j \in DOMAIN s : /\ j \in Nat /\ j > 0
                             /\ L + j \in DOMAIN fromNative' /\ fromNative'[L + j] = s[j]
  BY EmitAt
<1> HIDE DEF L
<1>3. \A j \in DOMAIN s : s[j].type = "completed" => ~Over(s[j].id) /\ reason[s[j].id] = "open"
  BY <1>0 DEF Tells, Over, StreamOrder
<1>4. \A j \in DOMAIN s : s[j].type \in {"running", "chunk"} => reason[s[j].id] = "open"
  BY <1>0 DEF Tells, StreamOrder
<1>5. ASSUME NEW k \in DOMAIN fromNative PROVE LiveAt(k)' /\ EndAt(k)' /\ AnswerAt(k)'
  <2>1. /\ k \in Nat /\ k <= L /\ k \in DOMAIN fromNative' /\ fromNative'[k] = fromNative[k]
        /\ LiveAt(k) /\ EndAt(k) /\ AnswerAt(k)
    BY <1>2, <1>5 DEF StreamOrder
  <2>2. LiveAt(k)'
    <3>1. ASSUME fromNative[k].type \in {"running", "chunk"}
          PROVE  running' = fromNative[k].id
                 \/ \E j \in DOMAIN fromNative' : j > k /\ fromNative'[j].type = "completed"
                                                 /\ fromNative'[j].id = fromNative[k].id
      <4>1. CASE running = fromNative[k].id /\ running' # running
        <5>1. PICK j \in DOMAIN s : s[j].type = "completed" /\ s[j].id = running
          BY <1>1, <4>1 DEF Tells
        <5>2. L + j \in DOMAIN fromNative' /\ fromNative'[L + j] = s[j] /\ L + j > k
          BY <1>2, <2>1, <5>1
        <5> QED
          BY <4>1, <5>1, <5>2
      <4>2. ASSUME NEW j \in DOMAIN fromNative, j > k, Completes(j, fromNative[k].id)
            PROVE  j \in DOMAIN fromNative' /\ fromNative'[j].type = "completed"
                   /\ fromNative'[j].id = fromNative[k].id
        BY <1>2, <4>2 DEF Completes
      <4> QED
        BY <2>1, <3>1, <4>1, <4>2 DEF LiveAt
    <3> QED
      BY <2>1, <3>1 DEF LiveAt, Completes
  <2>3. EndAt(k)'
    <3> SUFFICES ASSUME fromNative[k].type = "completed",
                        NEW i \in DOMAIN fromNative', i > k, fromNative'[i].id = fromNative[k].id
                 PROVE  fromNative'[i].type \notin {"running", "chunk", "completed"}
      BY <1>1, <2>1 DEF EndAt, Lasting
    <3>1. Over(fromNative[k].id)
      BY <2>1 DEF EndAt
    <3>2. CASE i \in DOMAIN fromNative
      BY <1>2, <2>1, <3>2 DEF EndAt
    <3>3. ASSUME NEW j \in DOMAIN s, fromNative'[i] = s[j]
          PROVE  fromNative'[i].type \notin {"running", "chunk", "completed"}
      BY <1>3, <3>1, <3>3 DEF Tells
    <3> QED
      BY <1>2, <3>2, <3>3
  <2>4. AnswerAt(k)'
    <3> SUFFICES ASSUME fromNative[k].type = "reply", fromNative[k].id \in Runs,
                        NEW i \in DOMAIN fromNative', i > k, fromNative'[i].id = fromNative[k].id
                 PROVE  fromNative'[i].type # "running"
      BY <1>1, <2>1 DEF AnswerAt, Lasting
    <3>1. Over(fromNative[k].id)
      BY <2>1 DEF AnswerAt
    <3>2. CASE i \in DOMAIN fromNative
      BY <1>2, <2>1, <3>2 DEF AnswerAt
    <3>3. ASSUME NEW j \in DOMAIN s, fromNative'[i] = s[j] PROVE fromNative'[i].type # "running"
      BY <3>1, <3>3 DEF Tells
    <3> QED
      BY <1>2, <3>2, <3>3
  <2> QED
    BY <2>2, <2>3, <2>4
<1>6. ASSUME NEW j \in DOMAIN s, NEW n \in DOMAIN fromNative', n = L + j
      PROVE  LiveAt(n)' /\ EndAt(n)' /\ AnswerAt(n)'
  <2>1. fromNative'[n] = s[j]
    BY <1>2, <1>6
  <2>2. \A k \in DOMAIN fromNative' : k > n =>
          \E i \in DOMAIN s : i > j /\ i # 1 /\ fromNative'[k] = s[i]
    <3> SUFFICES ASSUME NEW k \in DOMAIN fromNative', k > n
                 PROVE  \E i \in DOMAIN s : i > j /\ i # 1 /\ fromNative'[k] = s[i]
      OBVIOUS
    <3>1. k \notin DOMAIN fromNative
      BY <1>2, <1>6
    <3>2. PICK i \in DOMAIN s : k = L + i /\ fromNative'[k] = s[i]
      BY <1>2, <3>1
    <3>3. i \in Nat /\ j \in Nat /\ j > 0 /\ L \in Nat
      BY <1>2
    <3>4. i > j /\ i # 1
      BY <1>6, <3>2, <3>3
    <3> QED
      BY <3>2, <3>4
  <2>3. LiveAt(n)'
    BY <1>4, <2>1 DEF LiveAt, Tells
  <2>4. EndAt(n)'
    BY <1>3, <2>1, <2>2 DEF EndAt, Tells
  <2>5. AnswerAt(n)'
    BY <2>1, <2>2 DEF AnswerAt, Tells
  <2> QED
    BY <2>3, <2>4, <2>5
<1>7. ASSUME NEW k \in DOMAIN fromNative' PROVE LiveAt(k)' /\ EndAt(k)' /\ AnswerAt(k)'
  BY <1>2, <1>5, <1>6
<1>8. \A i \in Requests : reason'[i] # "open" => Over(i)'
  BY DEF StreamOrder, Lasting
<1>9. ASSUME NEW r \in Runs, reply'[r] \in {"ok", "refused"}
      PROVE  /\ Over(r)'
             /\ \A k \in DOMAIN fromNative' :
                  fromNative'[k].id = r => fromNative'[k].type # "running"
  <2>1. /\ Over(r) /\ Over(r)'
        /\ \A k \in DOMAIN fromNative : fromNative[k].id = r => fromNative[k].type # "running"
    BY <1>9 DEF StreamOrder, Lasting, Requests
  <2>2. \A j \in DOMAIN s : s[j].id = r => s[j].type # "running"
    BY <2>1 DEF Tells
  <2> QED
    BY <1>2, <2>1, <2>2
<1> QED
  BY <1>7, <1>8, <1>9 DEF StreamOrder

\* A sequence of frames to be emitted is one frame or two: where each stands.
LEMMA Frames ==
  ASSUME NEW f \in NativeFrame, NEW g \in NativeFrame
  PROVE  /\ <<f>> \in Seq(NativeFrame) /\ DOMAIN <<f>> = {1} /\ <<f>>[1] = f
         /\ <<f, g>> \in Seq(NativeFrame) /\ DOMAIN <<f, g>> = {1, 2}
         /\ <<f, g>>[1] = f /\ <<f, g>>[2] = g
OBVIOUS

\* What a Run wrote and Grok has refused is over at once.
LEMMA RefusedOver ==
  ASSUME NativeTypeOK, NativeOrder, NativeOrder', RefuseCall, NEW r \in Runs, UNCHANGED written,
         r = Head(toNative).id
  PROVE  Over(r)'
<1> USE NativeAssumption DEF Requests
<1>1. /\ toNative # <<>> /\ toNative' = Tail(toNative) /\ UNCHANGED <<running, queued, buffered>>
      /\ NextCall("prompt") \/ NextCall("interject")
  BY DEF RefuseCall, NextCall
<1>2. NextCall("prompt") /\ Head(toNative) = Call("prompt", r)
  BY <1>1, HeadCall
<1>3. Submitting(r) /\ ~Submitting(r)'
  BY <1>1, <1>2, TailPrompt DEF NativeOrder
<1>4. r \in written /\ ~Taken(r)
  BY <1>3 DEF NativeOrder, Taken
<1>5. r \notin queued /\ running # r /\ r \notin buffered
  BY <1>4 DEF NativeOrder, Begun, NativeTypeOK
<1> QED
  BY <1>1, <1>3, <1>4, <1>5 DEF Over, Begun, Taken

\* The end of the running prompt tells its terminal, and its reply once.
LEMMA EndTells ==
  ASSUME NativeTypeOK, NativeOrder, Lasting, running # None, running' = None,
         NEW why \in {"end_turn", "cancelled"}, NEW s \in EndFrames(running, why)
  PROVE  s \in Seq(NativeFrame) /\ Tells(s) /\ \A j \in DOMAIN s : s[j].type # "ack"
<1> DEFINE c == Frame("completed", running, why)
           a == Frame("reply", running, "ok")
<1>0. running \in Requests
  BY DEF NativeTypeOK
<1>1. /\ c \in NativeFrame /\ a \in NativeFrame
      /\ c.type = "completed" /\ c.id = running /\ a.type = "reply" /\ a.id = running
  BY <1>0, FrameType DEF Frame
<1>2. s \in {<<c>>, <<c, a>>, <<a, c>>}
  BY DEF EndFrames
<1>3. ASSUME NEW i, i = running PROVE Over(i)'
  <2>1. i \in Requests /\ Begun(i)
    BY <1>0, <1>3 DEF NativeOrder
  <2> QED
    BY <1>3, <2>1 DEF Lasting, Over
<1>4. \A j \in DOMAIN s :
        LET g == s[j] IN
        /\ g.id = running /\ g.type \in {"completed", "reply"}
        /\ g.type = "completed" => \A i \in DOMAIN s : i > j => s[i].type = "reply"
  <2> HIDE DEF c, a
  <2>1. CASE s = <<c>>
    BY <1>1, <2>1
  <2>2. CASE s = <<c, a>>
    BY <1>1, <2>2
  <2>3. CASE s = <<a, c>>
    BY <1>1, <2>3
  <2> QED
    BY <1>2, <2>1, <2>2, <2>3
<1>5. s \in Seq(NativeFrame) /\ \E j \in DOMAIN s : s[j].type = "completed" /\ s[j].id = running
  <2> HIDE DEF c, a
  <2>1. CASE s = <<c>>
    <3>1. 1 \in DOMAIN s /\ s[1] = c
      BY <2>1
    <3> QED
      BY <1>1, <2>1, <3>1
  <2>2. CASE s = <<c, a>>
    <3>1. 1 \in DOMAIN s /\ s[1] = c
      BY <2>2
    <3> QED
      BY <1>1, <2>2, <3>1
  <2>3. CASE s = <<a, c>>
    <3>1. 2 \in DOMAIN s /\ s[2] = c
      BY <2>3
    <3> QED
      BY <1>1, <2>3, <3>1
  <2> QED
    BY <1>2, <2>1, <2>2, <2>3
<1>6. \A j \in DOMAIN s : Over(s[j].id)'
  BY <1>3, <1>4
<1> QED
  BY <1>0, <1>4, <1>5, <1>6 DEF Tells

\* An acknowledgement is told when its interject is taken, and with nothing new to run.
Acks(s) ==
  \A j \in DOMAIN s : s[j].type = "ack" =>
    /\ TakeInterject /\ s[j].id = Head(toNative).id
    /\ \A i \in DOMAIN s : s[i].type # "running"

\* What a step of Grok's puts on the stream.
Told ==
  \/ UNCHANGED fromNative /\ (running' = running \/ running = None)
  \/ \E s \in Seq(NativeFrame) : Emit(s) /\ Tells(s) /\ Acks(s)

\* Each step of Grok's tells what it does.
LEMMA GrokTells ==
  ASSUME LaneInv, NativeOrder, NativeOrder', Lasting, GrokStep
  PROVE  Told
<1>0. /\ NativeTypeOK
      /\ UNCHANGED written
  BY GrokFrame DEF LaneInv, TypeOK, GrokStep, Wrapper, connVars
<1> USE <1>0, NativeAssumption DEF Requests, Frame, Acks
<1>1. CASE TakePrompt \/ Drain \/ Exit
  BY <1>1 DEF TakePrompt, Drain, Exit, Told
<1>2. CASE RefuseCall
  <2>1. PICK x \in Requests : x = Head(toNative).id
    BY <1>2, HeadCall DEF RefuseCall
  <2> DEFINE f == Frame("reply", x, "refused")
  <2>2. f \in NativeFrame /\ f.type = "reply" /\ f.id = x
    BY FrameType
  <2>3. Emit(<<f>>) /\ UNCHANGED running
    BY <1>2, <2>1 DEF RefuseCall
  <2>4. ASSUME NEW r \in Runs, r = x PROVE Over(r)'
    BY <1>2, <2>1, <2>4, RefusedOver
  <2> HIDE DEF f
  <2>5. <<f>> \in Seq(NativeFrame) /\ DOMAIN <<f>> = {1} /\ <<f>>[1] = f
    BY <2>2, Frames
  <2>6. Tells(<<f>>) /\ Acks(<<f>>)
    BY <2>2, <2>3, <2>4, <2>5 DEF Tells
  <2> QED
    BY <2>3, <2>5, <2>6 DEF Told
<1>3. CASE TakeInterject
  <2>1. PICK m \in Messages :
          /\ UNCHANGED running /\ m = Head(toNative).id
          /\ \/ Emit(<<Frame("reply", m, "ok"), Frame("ack", m, "ok")>>)
             \/ Emit(<<Frame("ack", m, "ok")>>)
    BY <1>3, HeadCall DEF TakeInterject
  <2> DEFINE f == Frame("reply", m, "ok")
             g == Frame("ack", m, "ok")
  <2>2. /\ f \in NativeFrame /\ f.type = "reply" /\ f.id \notin Runs
        /\ g \in NativeFrame /\ g.type = "ack" /\ g.id = Head(toNative).id
    BY <2>1, FrameType
  <2>3. Emit(<<f, g>>) \/ Emit(<<g>>)
    BY <2>1
  <2> HIDE DEF f, g
  <2>4. /\ <<f, g>> \in Seq(NativeFrame) /\ Tells(<<f, g>>) /\ Acks(<<f, g>>)
        /\ <<g>> \in Seq(NativeFrame) /\ Tells(<<g>>) /\ Acks(<<g>>)
    BY <1>3, <2>1, <2>2, Frames DEF Tells
  <2> QED
    BY <2>3, <2>4 DEF Told
<1>4. ASSUME NEW m \in Messages, ReplyLate(m) PROVE Told
  <2> DEFINE f == Frame("reply", m, "ok")
  <2>1. f \in NativeFrame /\ f.type = "reply" /\ f.id \notin Runs /\ Emit(<<f>>)
        /\ UNCHANGED running
    BY <1>4, FrameType DEF ReplyLate
  <2> HIDE DEF f
  <2>2. <<f>> \in Seq(NativeFrame) /\ Tells(<<f>>) /\ Acks(<<f>>)
    BY <2>1, Frames DEF Tells
  <2> QED
    BY <2>1, <2>2 DEF Told
<1>5. ASSUME NEW i \in Requests, StartRunning(i) PROVE Told
  <2> DEFINE f == Frame("running", i, "ok")
  <2>1. /\ running = None /\ running' = i /\ ~Over(i)
        /\ Emit(<<f>>) \/ UNCHANGED fromNative
        /\ f \in NativeFrame /\ f.type = "running" /\ f.id = i
    BY <1>5, FrameType DEF StartRunning, Over, Begun
  <2> HIDE DEF f
  <2>2. <<f>> \in Seq(NativeFrame) /\ Tells(<<f>>) /\ Acks(<<f>>)
    BY <2>1, Frames DEF Tells
  <2> QED
    BY <2>1, <2>2 DEF Told
<1>6. ASSUME running # None, running' = None, NEW why \in {"end_turn", "cancelled"},
             \E s \in EndFrames(running, why) : Emit(s)
      PROVE  Told
  BY <1>6, EndTells DEF Told
<1>7. CASE EndRunning
  BY <1>6, <1>7 DEF EndRunning
<1>8. CASE TakeCancel
  BY <1>6, <1>8 DEF TakeCancel, Told
<1>9. CASE Overflow
  <2> DEFINE f == Frame("chunk", running, "ok")
  <2>1. /\ UNCHANGED running /\ Emit(<<f>>)
        /\ f \in NativeFrame /\ f.type = "chunk" /\ f.id = running /\ ~Over(running)
    BY <1>9, FrameType DEF Overflow, Over, NativeTypeOK
  <2> HIDE DEF f
  <2>2. <<f>> \in Seq(NativeFrame) /\ Tells(<<f>>) /\ Acks(<<f>>)
    BY <2>1, Frames DEF Tells
  <2> QED
    BY <2>1, <2>2 DEF Told
<1> QED
  BY <1>1, <1>2, <1>3, <1>4, <1>5, <1>7, <1>8, <1>9
     DEF GrokStep, NativeStep, NativeFault, NativeExits, NativeWork

\* The stream stays in order when Grok steps.
LEMMA StreamGrok ==
  ASSUME LaneInv, NativeOrder, NativeOrder', Lasting, StreamOrder, GrokStep
  PROVE  StreamOrder'
<1>1. NativeTypeOK /\ UNCHANGED <<reason, reply>> /\ NoAnswer
  BY GrokFrame DEF LaneInv, TypeOK, GrokStep, Wrapper, connVars, owned, promptVars, course,
     NoAnswer
<1>2. CASE UNCHANGED fromNative /\ (running' = running \/ running = None)
  BY <1>1, <1>2, StreamStill
<1>3. ASSUME NEW s \in Seq(NativeFrame), Emit(s), Tells(s) PROVE StreamOrder'
  BY <1>1, <1>3, StreamEmitted
<1> QED
  BY <1>2, <1>3, GrokTells DEF Told

\* No step but the reader's has a request answered.
LEMMA NoAnswers ==
  ASSUME LaneInv, [Next]_vars, ~ReaderStep
  PROVE  NoAnswer
<1> USE DEF NoAnswer, LaneInv, TypeOK, ConnTypeOK
<1>1. ASSUME NEW r \in Runs, ExecStep(r) PROVE NoAnswer
  BY <1>1 DEF ExecStep, RejectRun, EnterRun, InterruptedBeforeStart, StartPrompt,
     PromptStarted, PromptNotStarted, SeedAdmitted, SeedNotAdmitted,
     CheckInterrupted, RunJoinsInterrupt, AwaitReply, CompleteRun, RunFailed,
     RunBlocks, RunUnblocks, FailOwned, FailJoinsInterrupt, ReturnRun,
     outside, connVars, PendingFailure, Finish
<1>2. ASSUME NEW r \in Runs, SenderStep(r) PROVE NoAnswer
  BY <1>2 DEF SenderStep, SubmitPrompt, PromptUnsubmitted, PromptWriteAborted,
     PromptReplied, Write, outside, connVars, Finish
<1>3. ASSUME NEW r \in Runs, InterruptStep(r) PROVE NoAnswer
  BY <1>3 DEF InterruptStep, InterruptCallback, CallbackJoinsInterrupt, SendCancel,
     outside, connVars, Finish
<1>4. ASSUME NEW m \in Messages, DeliveryStep(m) PROVE NoAnswer
  BY <1>4 DEF DeliveryStep, Deliver, GateCancelled, TakeGate, AdmissionFails,
     RegisterDelivery, SubmitInterject, InterjectUnsubmitted, InterjectWriteAborted,
     InterjectReplied, DeliverySettles, SchedulingLost, InterjectAborts,
     CallerReturns, Write, outside, connVars, PendingFailure, Finish
<1>5. CASE SDKStep \/ GrokStep \/ UNCHANGED vars
  BY <1>5, SDKFrame, GrokFrame DEF GrokStep, Wrapper, vars, outside, connVars
<1> QED
  BY <1>1, <1>2, <1>3, <1>4, <1>5 DEF Next, GrokStep

\* The reader learns of a native prompt only what the stream says.
LEMMA StreamReader ==
  ASSUME LaneInv, Lasting, StreamOrder, ReaderStep
  PROVE  StreamOrder'
<1> USE DEF LaneInv, TypeOK, ConnTypeOK, PromptTypeOK, Requests
<1>0. UNCHANGED running
  BY ReaderFrame
<1>1. CASE ReceiveReply
  BY <1>0, <1>1, StreamRead DEF ReceiveReply, NextFrame, Consume, owned, promptVars, course
<1>2. CASE ReceiveRunning \/ ReceiveAck \/ ReceiveOverflow
  <2>1. UNCHANGED <<reason, reply>> /\ fromNative # <<>> /\ fromNative' = Tail(fromNative)
    BY <1>2 DEF ReceiveRunning, ReceiveAck, ReceiveOverflow, NextFrame, Consume, course,
       connVars
  <2> QED
    BY <1>0, <2>1, StreamRead
<1>3. CASE ReceiveCompleted
  <2>1. UNCHANGED reply /\ fromNative # <<>> /\ fromNative' = Tail(fromNative)
        /\ \/ UNCHANGED reason
           \/ /\ Head(fromNative).type = "completed"
              /\ reason' = [reason EXCEPT ![Head(fromNative).id] = Head(fromNative).status]
    BY <1>3 DEF ReceiveCompleted, NextFrame, Consume, connVars
  <2> QED
    BY <1>0, <2>1, StreamRead
<1>4. CASE ReaderFails \/ ReaderExits
  <2>1. UNCHANGED <<fromNative, reason, running>> /\ NoAnswer
    BY <1>4 DEF ReaderFails, ReaderExits, nativeVars, owned, promptVars, course,
       PendingFailure, Finish, NoAnswer
  <2> QED
    BY <2>1, StreamStill
<1> QED
  BY <1>1, <1>2, <1>3, <1>4 DEF ReaderStep

\* The stream stays in order at every step.
LEMMA StreamOrderKept ==
  LaneInv /\ NativeOrder /\ NativeOrder' /\ Lasting /\ StreamOrder /\ [Next]_vars => StreamOrder'
<1> SUFFICES ASSUME LaneInv, NativeOrder, NativeOrder', Lasting, StreamOrder, [Next]_vars
             PROVE  StreamOrder'
  OBVIOUS
<1>1. CASE ~ReaderStep /\ ~GrokStep
  <2>1. UNCHANGED <<fromNative, reason, running>>
    BY <1>1, ExecFrame, SenderFrame, InterruptFrame, DeliveryFrame, SDKFrame
       DEF Next, GrokStep, vars, outside, nativeVars, offWire, owned, promptVars, course
  <2> QED
    BY <1>1, <2>1, NoAnswers, StreamStill DEF LaneInv, TypeOK
<1> QED
  BY <1>1, StreamReader, StreamGrok

\* The stream is empty when the worker starts.
LEMMA StreamOrderInit == Init => StreamOrder
<1> SUFFICES ASSUME Init PROVE StreamOrder
  OBVIOUS
<1>1. fromNative = <<>> /\ \A x \in Requests : reason[x] = "open" /\ reply[x] = "none"
  BY DEF Init, NativeInit
<1>2. DOMAIN fromNative = {}
  BY <1>1
<1> QED
  BY <1>1, <1>2 DEF StreamOrder, Requests

-----------------------------------------------------------------------------
(* What a prompt owns.                                                     *)

\* The native prompts bound to Run r: its own session/prompt first, then messages
\* that were delivered to it.
OwnSegments(r) ==
  /\ Admitted(r) => segments[r][1] = r
  /\ \A k \in DOMAIN segments[r] :
       LET i == segments[r][k] IN
       /\ Begun(i)
       /\ i \in Runs => i = r
       /\ i \in Messages => target[i] = r /\ i \in attempted

\* Only an admitted prompt takes a delivery, and only that can fail it.
OwnDelivery(r) ==
  /\ delivery[r] # None => /\ Admitted(r) /\ target[delivery[r]] = r
                           /\ rpc[delivery[r]] # "idle"
  /\ r \in failure => Admitted(r)

Bound == \A r \in Runs : OwnSegments(r) /\ OwnDelivery(r)

\* A segment is a request, and an admitted prompt has one.
LEMMA SegmentId ==
  ASSUME PromptTypeOK, NEW r \in Runs
  PROVE  /\ segments[r] \in Seq(Requests)
         /\ \A k \in DOMAIN segments[r] : segments[r][k] \in Requests
         /\ Admitted(r) <=> 1 \in DOMAIN segments[r]
         /\ \A i : HasSegment(r, i) => Admitted(r)
<1>1. segments[r] \in Seq(Requests)
  BY DEF PromptTypeOK
<1>2. Admitted(r) <=> 1 \in DOMAIN segments[r]
  BY <1>1 DEF Admitted
<1>3. \A k \in DOMAIN segments[r] : segments[r][k] \in Requests
  BY <1>1
<1>4. DOMAIN segments[r] # {} => Admitted(r)
  BY <1>1 DEF Admitted
<1> QED
  BY <1>1, <1>2, <1>3, <1>4 DEF HasSegment

\* A delivery that has not begun is bound by no Run.
LEMMA UnboundYet ==
  ASSUME LaneInv, Bound, NEW m \in Messages, rpc[m] = "idle"
  PROVE  /\ m \notin attempted
         /\ \A r \in Runs : delivery[r] # m /\ ~HasSegment(r, m)
BY NativeAssumption
   DEF LaneInv, RpcAccounted, Bound, OwnSegments, OwnDelivery, HasSegment, Requests

\* Steps that bind no native prompt and register no delivery keep what a prompt owns.
LEMMA BoundStays ==
  ASSUME LaneInv, Bound, Lasting, UNCHANGED segments, attempted \subseteq attempted',
         \A m \in Messages : /\ rpc[m] # "idle" => rpc'[m] # "idle"
                             /\ target'[m] = target[m] \/ rpc[m] = "idle",
         \A r \in Runs : /\ delivery'[r] \in {delivery[r], None}
                         /\ r \in failure' => r \in failure \/ Admitted(r)
  PROVE  Bound'
<1> SUFFICES ASSUME NEW r \in Runs PROVE OwnSegments(r)' /\ OwnDelivery(r)'
  BY DEF Bound
<1>0. PromptTypeOK
  BY DEF LaneInv, TypeOK
<1>1. OwnSegments(r) /\ OwnDelivery(r) /\ Admitted(r)' = Admitted(r)
  BY DEF Bound, Admitted
<1>2. OwnSegments(r)'
  <2>1. ASSUME NEW k \in DOMAIN segments[r], NEW i \in Requests, i = segments[r][k]
        PROVE  /\ Begun(i)'
               /\ i \in Runs => i = r
               /\ i \in Messages => target'[i] = r /\ i \in attempted'
    <3>1. /\ Begun(i) /\ (i \in Runs => i = r)
          /\ i \in Messages => target[i] = r /\ i \in attempted
      BY <1>1, <2>1 DEF OwnSegments
    <3>2. i \in Messages => rpc[i] # "idle"
      BY <3>1 DEF LaneInv, RpcAccounted
    <3> QED
      BY <2>1, <3>1, <3>2 DEF Lasting
  <2>2. \A k \in DOMAIN segments[r] : segments[r][k] \in Requests
    BY <1>0, SegmentId
  <2> QED
    BY <1>1, <2>1, <2>2 DEF OwnSegments
<1>3. OwnDelivery(r)'
  BY <1>0, <1>1 DEF OwnDelivery, PromptTypeOK
<1> QED
  BY <1>2, <1>3

\* A delivery registers with an admitted prompt, and fails no other.
LEMMA BoundDelivery ==
  ASSUME LaneInv, Bound, Lasting, NEW m \in Messages, DeliveryStep(m)
  PROVE  Bound'
<1> USE DEF LaneInv, TypeOK, PromptTypeOK, GoTypeOK
<1>0. UNCHANGED <<segments, target>> /\ \A r \in Runs : Admitted(r)' = Admitted(r)
  BY DeliveryFrame DEF course, sdkVars, Admitted
<1>1. attempted \subseteq attempted' /\ \A n \in Messages : rpc[n] # "idle" => rpc'[n] # "idle"
  BY DEF DeliveryStep, Deliver, GateCancelled, TakeGate, AdmissionFails, RegisterDelivery,
     SubmitInterject, InterjectUnsubmitted, InterjectWriteAborted, InterjectReplied,
     DeliverySettles, SchedulingLost, InterjectAborts, CallerReturns,
     owned, deliveryVars, callerOthers, rpcOthers
<1>2. CASE RegisterDelivery(m) /\ ~UNCHANGED delivery
  <2>1. /\ delivery' = [delivery EXCEPT ![target[m]] = m] /\ rpc' = [rpc EXCEPT ![m] = "submit"]
        /\ Admitted(target[m]) /\ UNCHANGED <<failure, attempted>>
    BY <1>2 DEF RegisterDelivery, deliveryVars
  <2>2. \A r \in Runs : OwnDelivery(r)'
    BY <1>0, <2>1 DEF Bound, OwnDelivery
  <2>3. \A r \in Runs : OwnSegments(r)'
    <3> SUFFICES ASSUME NEW r \in Runs PROVE OwnSegments(r)'
      OBVIOUS
    <3>1. OwnSegments(r) /\ \A k \in DOMAIN segments[r] : segments[r][k] \in Requests
      BY SegmentId DEF Bound
    <3> QED
      BY <1>0, <2>1, <3>1 DEF OwnSegments, Lasting
  <2> QED
    BY <2>2, <2>3 DEF Bound
<1>3. CASE UNCHANGED <<delivery, failure>>
  BY <1>0, <1>1, <1>3, BoundStays
<1>4. CASE InterjectUnsubmitted(m) \/ InterjectReplied(m) \/ SchedulingLost(m)
  <2>1. delivery' = [delivery EXCEPT ![target[m]] = None] \/ UNCHANGED delivery
    BY <1>4 DEF InterjectUnsubmitted, InterjectReplied, SchedulingLost, Release
  <2>2. \/ UNCHANGED failure
        \/ failure' = failure \cup {target[m]} /\ delivery[target[m]] = m /\ rpc[m] # "idle"
    BY <1>4 DEF InterjectUnsubmitted, InterjectReplied, SchedulingLost, RpcAccounted
  <2>3. rpc[m] # "idle" => target[m] \in Runs
    BY DEF CallerBound
  <2>4. \A r \in Runs : r \in failure' => r \in failure \/ Admitted(r)
    BY <2>2, <2>3, NativeAssumption DEF Bound, OwnDelivery, Requests
  <2> QED
    BY <1>0, <1>1, <2>1, <2>4, BoundStays
<1> QED
  BY <1>2, <1>3, <1>4 DEF DeliveryStep, Deliver, GateCancelled, TakeGate,
     AdmissionFails, RegisterDelivery, SubmitInterject, InterjectWriteAborted,
     DeliverySettles, InterjectAborts, CallerReturns, owned, promptVars

\* What Grok has announced has begun.
LEMMA AnnouncedBegun ==
  ASSUME NativeTypeOK, NativeOrder, StreamOrder, NEW k \in DOMAIN fromNative,
         fromNative[k].type \in {"running", "chunk"}
  PROVE  Begun(fromNative[k].id)
<1>1. LiveAt(k) /\ fromNative[k].id # None /\ \A j \in DOMAIN fromNative : EndAt(j)
  BY FrameId DEF StreamOrder
<1>2. ASSUME NEW j \in DOMAIN fromNative, Completes(j, fromNative[k].id)
      PROVE  Begun(fromNative[k].id)
  BY <1>1, <1>2 DEF EndAt, Completes, Over
<1> QED
  BY <1>1, <1>2 DEF LiveAt, NativeOrder
\* The reader binds to the pending prompt what runs: the prompt itself, then the
\* delivery it waits for.
LEMMA BoundReader ==
  ASSUME LaneInv, NativeOrder, StreamOrder, Bound, Lasting, ReaderStep
  PROVE  Bound'
<1> USE NativeAssumption DEF LaneInv, TypeOK, PromptTypeOK
<1> DEFINE t == pendingPrompt
<1>0. /\ UNCHANGED <<target, attempted, rpc>>
      /\ t \in Runs \cup {None}
  BY ReaderFrame DEF sdkVars, WrapperTypeOK
<1>1. ASSUME UNCHANGED segments,
             \/ UNCHANGED delivery
             \/ t \in Runs /\ delivery' = [delivery EXCEPT ![t] = None],
             UNCHANGED failure \/ (failure' = failure \cup {t} /\ Admitted(t))
      PROVE  Bound'
  BY <1>0, <1>1, BoundStays
<1>2. CASE ReceiveRunning /\ ~UNCHANGED segments
  <2>1. /\ fromNative # <<>> /\ Head(fromNative).type = "running" /\ t \in Runs
        /\ UNCHANGED failure
    BY <1>0, <1>2 DEF ReceiveRunning, NextFrame
  <2>2. PICK i \in Requests :
          /\ i = Head(fromNative).id
          /\ segments' = [segments EXCEPT ![t] = Append(@, i)]
          /\ \/ BindsPrompt(t, i) /\ UNCHANGED delivery
             \/ BindsDelivery(t, i) /\ ~BindsPrompt(t, i)
                /\ delivery' = [delivery EXCEPT ![t] = None]
    <3>1. Head(fromNative).id \in Requests
      BY <2>1 DEF NativeTypeOK, NativeFrame, Requests
    <3> QED
      BY <1>2, <3>1 DEF ReceiveRunning, Release, BindsDelivery
  <2>3. Begun(i)
    <3>1. 1 \in DOMAIN fromNative /\ fromNative[1] = Head(fromNative)
      BY <2>1 DEF NativeTypeOK
    <3> QED
      BY <2>1, <2>2, <3>1, AnnouncedBegun
  <2>4. \/ i = t /\ ~Admitted(t)
        \/ i \in Messages /\ delivery[t] = i /\ i \in attempted /\ Admitted(t) /\ target[i] = t
    BY <2>1, <2>2 DEF BindsPrompt, BindsDelivery, Bound, OwnDelivery, Requests
  <2>5. ASSUME NEW r \in Runs, Admitted(r) PROVE Admitted(r)'
    <3>1. segments[r] \in Seq(Requests)
      OBVIOUS
    <3>2. segments'[r] = segments[r] \/ segments'[r] = Append(segments[r], i)
      BY <2>2
    <3> QED
      BY <2>5, <3>1, <3>2 DEF Admitted
  <2>6. \A r \in Runs : OwnDelivery(r)'
    BY <1>0, <2>1, <2>2, <2>5 DEF Bound, OwnDelivery
  <2>7. ASSUME NEW r \in Runs PROVE OwnSegments(r)'
    <3>1. OwnSegments(r) /\ segments[r] \in Seq(Requests)
          /\ \A k \in DOMAIN segments[r] : segments[r][k] \in Requests
      BY SegmentId DEF Bound
    <3>2. CASE r # t
      BY <1>0, <2>2, <3>1, <3>2 DEF OwnSegments, Lasting, Admitted
    <3>3. CASE r = t
      <4>1. segments'[r] = Append(segments[r], i)
        BY <2>1, <2>2, <3>3
      <4>2. /\ \A k \in DOMAIN segments'[r] :
                 \/ k \in DOMAIN segments[r] /\ segments'[r][k] = segments[r][k]
                 \/ segments'[r][k] = i
            /\ segments[r] # <<>> => segments'[r][1] = segments[r][1]
            /\ segments[r] = <<>> => segments'[r][1] = i
        BY <3>1, <4>1
      <4>3. segments'[r][1] = r
        BY <2>4, <3>1, <3>3, <4>2 DEF Admitted, OwnSegments
      <4>4. /\ Begun(i)' /\ (i \in Runs => i = r)
            /\ i \in Messages => target'[i] = r /\ i \in attempted'
        BY <1>0, <2>2, <2>3, <2>4, <3>3 DEF Lasting, Requests
      <4>5. ASSUME NEW k \in DOMAIN segments[r], NEW j \in Requests, j = segments[r][k]
            PROVE  /\ Begun(j)' /\ (j \in Runs => j = r)
                   /\ j \in Messages => target'[j] = r /\ j \in attempted'
        BY <1>0, <3>1, <4>5 DEF OwnSegments, Lasting
      <4>6. ASSUME NEW k \in DOMAIN segments'[r], NEW j, j = segments'[r][k]
            PROVE  /\ Begun(j)' /\ (j \in Runs => j = r)
                   /\ j \in Messages => target'[j] = r /\ j \in attempted'
        <5>1. CASE k \in DOMAIN segments[r] /\ segments'[r][k] = segments[r][k]
          BY <3>1, <4>5, <4>6, <5>1
        <5>2. CASE segments'[r][k] = i
          BY <4>4, <4>6, <5>2
        <5> QED
          BY <4>2, <5>1, <5>2
      <4> QED
        BY <4>3, <4>6 DEF OwnSegments
    <3> QED
      BY <3>2, <3>3
  <2> QED
    BY <2>6, <2>7 DEF Bound
<1>3. CASE ReceiveRunning /\ UNCHANGED segments
  <2>1. \/ UNCHANGED failure
        \/ failure' = failure \cup {t} /\ t \in Runs
           /\ BindsDelivery(t, Head(fromNative).id) /\ Head(fromNative).id \in Requests
    BY <1>0, <1>3 DEF ReceiveRunning, NextFrame, NativeTypeOK, NativeFrame, Requests
  <2>2. UNCHANGED failure \/ (failure' = failure \cup {t} /\ Admitted(t))
    BY <2>1 DEF BindsDelivery, Bound, OwnDelivery
  <2>3. UNCHANGED delivery \/ (t \in Runs /\ delivery' = [delivery EXCEPT ![t] = None])
    BY <1>0, <1>3 DEF ReceiveRunning, Release
  <2> QED
    BY <1>1, <1>3, <2>2, <2>3
<1>4. CASE ReceiveAck
  BY <1>0, <1>1, <1>4 DEF ReceiveAck, Release, course
<1>5. CASE ReceiveOverflow
  BY <1>0, <1>1, <1>5, SegmentId DEF ReceiveOverflow, course
<1>6. CASE ReceiveReply \/ ReceiveCompleted \/ ReaderFails \/ ReaderExits
  BY <1>1, <1>6 DEF ReceiveReply, ReceiveCompleted, ReaderFails, ReaderExits, owned,
     promptVars, course
<1> QED
  BY <1>2, <1>3, <1>4, <1>5, <1>6 DEF ReaderStep

\* Every step keeps what a prompt owns.
LEMMA BoundKept ==
  LaneInv /\ NativeOrder /\ StreamOrder /\ Bound /\ Lasting /\ [Next]_vars => Bound'
<1> SUFFICES ASSUME LaneInv, NativeOrder, StreamOrder, Bound, Lasting, [Next]_vars
             PROVE  Bound'
  OBVIOUS
<1>1. ASSUME UNCHANGED <<segments, delivery, failure, rpc, target>>, attempted \subseteq attempted'
      PROVE  Bound'
  BY <1>1, BoundStays
<1>2. CASE \E r \in Runs : ExecStep(r) \/ SenderStep(r) \/ InterruptStep(r)
  BY <1>1, <1>2, ExecFrame, SenderFrame, InterruptFrame, SenderAround
     DEF Around, sdkVars, deliveryVars, promptVars, course, senderOthers
<1>3. CASE SDKStep
  <2>1. \A m \in Messages : target'[m] = target[m] \/ rpc[m] = "idle"
    <3>1. ASSUME NEW m \in Messages, NEW r \in Runs, caller[m] = "idle",
                 target' = [target EXCEPT ![m] = r]
          PROVE  \A n \in Messages : target'[n] = target[n] \/ rpc[n] = "idle"
      BY <3>1 DEF LaneInv, TypeOK, SDKTypeOK, CallerBound
    <3>2. UNCHANGED target \/ \E m \in Messages : CaptureRun(m)
      BY <1>3 DEF SDKStep, CancelCaller, InterruptRun, CancelRun, FinishRun, Close,
         outside, sdkVars
    <3> QED
      BY <3>1, <3>2 DEF CaptureRun
  <2> QED
    BY <1>3, <2>1, SDKFrame, BoundStays DEF promptVars, course, deliveryVars
<1>4. CASE GrokStep \/ UNCHANGED vars
  BY <1>1, <1>4, GrokFrame DEF GrokStep, Wrapper, vars, outside, owned, sdkVars,
     deliveryVars, promptVars, course, goVars
<1> QED
  BY <1>2, <1>3, <1>4, BoundDelivery, BoundReader DEF Next, GrokStep

\* Nothing is bound when the worker starts.
LEMMA BoundInit == Init => Bound
<1> SUFFICES ASSUME Init PROVE Bound
  OBVIOUS
<1>1. \A r \in Runs : segments[r] = <<>> /\ delivery[r] = None /\ r \notin failure
  BY DEF Init
<1>2. \A r \in Runs : DOMAIN segments[r] = {}
  BY <1>1
<1> QED
  BY <1>1, <1>2 DEF Bound, OwnSegments, OwnDelivery, Admitted

-----------------------------------------------------------------------------
(* What a retired Run leaves.                                              *)

\* Every native prompt that was bound has ended, nothing is registered and nothing
\* failed; and whether the session/prompt ran at all is known.
Left(r) ==
  /\ Accounted(r) /\ r \notin failure
  /\ Admitted(r) \/ r \notin attempted \/ OutcomeKnown(r)

\* A Run that retires without retiring the integration leaves nothing behind.
Settled == \A r \in Runs : exec[r] \in RetiredPC /\ conn = "open" => Left(r)

\* What a retired Run left stays settled under steps that add nothing to what it owns.
LEMMA LeftStays ==
  ASSUME LaneInv, [Next]_vars, NEW r \in Runs, Left(r), segments'[r] = segments[r],
         delivery'[r] \in {delivery[r], None},
         r \in failure' => r \in failure, r \in attempted' => r \in attempted,
         OutcomeKnown(r) => OutcomeKnown(r)'
  PROVE  Left(r)'
<1>1. \A k \in DOMAIN segments[r] : segments[r][k] \in Requests
  BY SegmentId DEF LaneInv, TypeOK
<1> QED
  BY <1>1, CourseGrows DEF Left, Accounted, AllTerminal, Admitted

\* A Run that never started its prompt has none.
LEMMA NeverStarted ==
  ASSUME LaneInv, LaneHeld, Bound, NEW r \in Runs, exec[r] \in {"idle", "entered"}
  PROVE  Left(r)
<1>1. r \notin written /\ r \notin attempted
  BY DEF LaneInv, SeedAccounted, LaneHeld, PromptHeld
<1>2. ~Admitted(r)
  BY <1>1, SegmentId DEF LaneInv, TypeOK, Bound, OwnSegments, Begun, Taken
<1>3. DOMAIN segments[r] = {}
  BY <1>2 DEF Admitted, LaneInv, TypeOK, PromptTypeOK
<1> QED
  BY <1>1, <1>2, <1>3 DEF Left, Accounted, AllTerminal, Bound, OwnDelivery

\* executeRun retires its Run when nothing is left, or fails the integration.
LEMMA SettledByExec ==
  ASSUME LaneInv, LaneHeld, Bound, Settled, NEW q \in Runs, ExecStep(q)
  PROVE  Settled'
<1> USE DEF LaneInv, TypeOK, GoTypeOK, PromptTypeOK, ConnTypeOK, Go, RetiredPC
<1> SUFFICES ASSUME NEW r \in Runs, exec'[r] \in RetiredPC, conn' = "open" PROVE Left(r)'
  BY DEF Settled
<1>0. [Next]_vars
  BY DEF Next
<1>1. UNCHANGED <<segments, reason, delivery, failure, attempted>> /\ conn = "open"
  BY <1>0, ExecFrame, Latches DEF deliveryVars
<1>2. UNCHANGED reply
  BY DEF ExecStep, RejectRun, EnterRun, InterruptedBeforeStart, StartPrompt,
     PromptStarted, PromptNotStarted, SeedAdmitted, SeedNotAdmitted,
     CheckInterrupted, RunJoinsInterrupt, AwaitReply, CompleteRun, RunFailed,
     RunBlocks, RunUnblocks, FailOwned, FailJoinsInterrupt, ReturnRun,
     outside, connVars, PendingFailure, Finish
<1>3. sender'[r] = sender[r]
  BY DEF ExecStep, RejectRun, EnterRun, InterruptedBeforeStart, StartPrompt,
     PromptStarted, PromptNotStarted, SeedAdmitted, SeedNotAdmitted,
     CheckInterrupted, RunJoinsInterrupt, AwaitReply, CompleteRun, RunFailed,
     RunBlocks, RunUnblocks, FailOwned, FailJoinsInterrupt, ReturnRun, execOthers, others
<1>4. Left(r)' <=> Left(r)
  BY <1>1, <1>2, <1>3 DEF Left, Accounted, AllTerminal, Admitted, OutcomeKnown
<1>5. CASE exec[r] \in RetiredPC
  BY <1>1, <1>4, <1>5 DEF Settled
<1>6. CASE exec[r] \in {"idle", "entered"}
  BY <1>4, <1>6, NeverStarted
<1>7. CASE CompleteRun(r)
  BY <1>4, <1>7 DEF CompleteRun, RunComplete, Left, LaneHeld, PromptHeld
<1>8. CASE FailOwned(r)
  <2>1. ~Unsettled(r)
    BY <1>8 DEF FailOwned, PendingFailure, Finish
  <2> QED
    BY <1>4, <2>1 DEF Unsettled, Left
<1>9. exec[r] \in RetiredPC \/ exec[r] \in {"idle", "entered"}
      \/ CompleteRun(r) \/ FailOwned(r)
  <2>1. q # r => exec'[r] = exec[r]
    <3>1. UNCHANGED exec \/ \E pc : exec' = [exec EXCEPT ![q] = pc]
      BY DEF ExecStep, RejectRun, EnterRun, InterruptedBeforeStart, StartPrompt,
         PromptStarted, PromptNotStarted, SeedAdmitted, SeedNotAdmitted,
         CheckInterrupted, RunJoinsInterrupt, AwaitReply, CompleteRun, RunFailed,
         RunBlocks, RunUnblocks, FailOwned, FailJoinsInterrupt, ReturnRun
    <3> QED
      BY <3>1
  <2>2. CASE q = r
    <3>1. CASE RejectRun(r) \/ EnterRun(r) \/ InterruptedBeforeStart(r) \/ StartPrompt(r)
               \/ FailJoinsInterrupt(r) \/ ReturnRun(r)
      BY <3>1 DEF RejectRun, CanBegin, EnterRun, InterruptedBeforeStart, StartPrompt,
         FailJoinsInterrupt, ReturnRun
    <3>2. CASE PromptStarted(r) \/ PromptNotStarted(r) \/ SeedAdmitted(r) \/ SeedNotAdmitted(r)
      BY <3>2 DEF PromptStarted, PromptNotStarted, SeedAdmitted, SeedNotAdmitted
    <3>3. CASE CheckInterrupted(r) \/ RunJoinsInterrupt(r) \/ AwaitReply(r)
      BY <3>3 DEF CheckInterrupted, RunJoinsInterrupt, AwaitReply
    <3>4. CASE RunFailed(r) \/ RunBlocks(r) \/ RunUnblocks(r)
      BY <3>4 DEF RunFailed, RunBlocks, RunUnblocks
    <3> QED
      BY <2>2, <3>1, <3>2, <3>3, <3>4 DEF ExecStep
  <2> QED
    BY <2>1, <2>2
<1> QED
  BY <1>5, <1>6, <1>7, <1>8, <1>9

\* A retired Run is retiring while the Wrapper still names its prompt.
LEMMA RetiringPrompt ==
  ASSUME LaneHeld, NEW r \in Runs, exec[r] \in RetiredPC, pendingPrompt = r
  PROVE  r \in retiring
BY DEF LaneHeld, RunHeld, PromptHeld, PromptPC, RetiredPC

\* The other goroutines of the wrapper leave a retired Run alone.
LEMMA SettledByOthers ==
  ASSUME LaneInv, LaneHeld, Bound, Settled,
         \/ \E q \in Runs : SenderStep(q) \/ InterruptStep(q)
         \/ \E m \in Messages : DeliveryStep(m)
  PROVE  Settled'
<1> USE NativeAssumption DEF LaneInv, TypeOK, ConnTypeOK, PromptTypeOK, GoTypeOK
<1>0. Around /\ [Next]_vars
  BY SenderAround, InterruptAround, DeliveryAround DEF Next
<1> SUFFICES ASSUME NEW r \in Runs, exec'[r] \in RetiredPC, conn' = "open" PROVE Left(r)'
  BY DEF Settled
<1>1. exec[r] \in RetiredPC /\ conn = "open"
  BY <1>0, Latches DEF Around, Woke, RetiredPC
<1>2. Left(r) /\ sender[r] # "submit"
  BY <1>1 DEF Settled, LaneHeld, PromptHeld
<1>3. ASSUME NEW q \in Runs, SenderStep(q) PROVE Left(r)'
  <2>1. UNCHANGED <<segments, delivery, failure>>
    BY <1>3, SenderFrame DEF promptVars, course
  <2>2. /\ r \in attempted' => r \in attempted
        /\ OutcomeKnown(r) => OutcomeKnown(r)'
    BY <1>2, <1>3 DEF SenderStep, SubmitPrompt, PromptUnsubmitted, PromptWriteAborted,
       PromptReplied, Write, Finish, OutcomeKnown, outside, connVars, owned, deliveryVars,
       Requests
  <2> QED
    BY <1>0, <1>2, <2>1, <2>2, LeftStays
<1>4. ASSUME NEW q \in Runs, InterruptStep(q) PROVE Left(r)'
  <2>1. UNCHANGED <<segments, delivery, failure, attempted, sender>>
    BY <1>4, InterruptFrame DEF deliveryVars
  <2>2. UNCHANGED reply
    BY <1>4 DEF InterruptStep, InterruptCallback, CallbackJoinsInterrupt, SendCancel,
       Finish, outside, connVars
  <2> QED
    BY <1>0, <1>2, <2>1, <2>2, LeftStays DEF OutcomeKnown
<1>5. ASSUME NEW m \in Messages, DeliveryStep(m) PROVE Left(r)'
  <2>1. UNCHANGED <<segments, sender>>
    BY <1>5, DeliveryFrame DEF course
  <2>2. m # r
    BY DEF Requests
  <2>3. attempted' \in {attempted, attempted \cup {m}}
    BY <1>5 DEF DeliveryStep, Deliver, GateCancelled, TakeGate, AdmissionFails,
       RegisterDelivery, SubmitInterject, InterjectUnsubmitted, InterjectWriteAborted,
       InterjectReplied, DeliverySettles, SchedulingLost, InterjectAborts, CallerReturns,
       owned, deliveryVars
  <2>4. reply'[r] = reply[r]
    <3>1. CASE SubmitInterject(m)
      BY <2>2, <3>1 DEF SubmitInterject, Write, Requests
    <3>2. CASE InterjectWriteAborted(m) \/ InterjectAborts(m)
      BY <3>2 DEF InterjectWriteAborted, InterjectAborts, PendingFailure, Finish
    <3>3. CASE InterjectReplied(m)
      BY <2>2, <3>3 DEF InterjectReplied, Requests
    <3>4. CASE Deliver(m) \/ GateCancelled(m) \/ TakeGate(m) \/ AdmissionFails(m)
               \/ RegisterDelivery(m) \/ InterjectUnsubmitted(m) \/ DeliverySettles(m)
               \/ SchedulingLost(m) \/ CallerReturns(m)
      BY <3>4 DEF Deliver, GateCancelled, TakeGate, AdmissionFails, RegisterDelivery,
         InterjectUnsubmitted, DeliverySettles, SchedulingLost, CallerReturns,
         outside, connVars
    <3> QED
      BY <1>5, <3>1, <3>2, <3>3, <3>4 DEF DeliveryStep
  <2>5. delivery'[r] \in {delivery[r], None}
    <3>1. CASE RegisterDelivery(m)
      BY <1>1, <3>1, RetiringPrompt DEF RegisterDelivery, PromptRefuses
    <3>2. CASE ~RegisterDelivery(m)
      BY <1>5, <3>2 DEF DeliveryStep, Deliver, GateCancelled, TakeGate, AdmissionFails,
         SubmitInterject, InterjectUnsubmitted, InterjectWriteAborted, InterjectReplied,
         DeliverySettles, SchedulingLost, InterjectAborts, CallerReturns, Release,
         owned, promptVars
    <3> QED
      BY <3>1, <3>2
  <2>6. r \in failure' => r \in failure
    <3>1. \/ UNCHANGED failure
          \/ failure' = failure \cup {target[m]} /\ delivery[target[m]] = m
      <4>1. CASE InterjectReplied(m) \/ SchedulingLost(m)
        BY <4>1 DEF InterjectReplied, SchedulingLost, RpcAccounted
      <4>2. CASE ~InterjectReplied(m) /\ ~SchedulingLost(m)
        BY <1>5, <4>2 DEF DeliveryStep, Deliver, GateCancelled, TakeGate, AdmissionFails,
           RegisterDelivery, SubmitInterject, InterjectUnsubmitted, InterjectWriteAborted,
           DeliverySettles, InterjectAborts, CallerReturns, owned, promptVars
      <4> QED
        BY <4>1, <4>2
    <3> QED
      BY <1>2, <3>1 DEF Left, Accounted, Requests
  <2> QED
    BY <1>0, <1>2, <2>1, <2>2, <2>3, <2>4, <2>5, <2>6, LeftStays DEF OutcomeKnown
<1> QED
  BY <1>3, <1>4, <1>5

\* The reader leaves a retired Run alone: a frame that comes after the Run retired is
\* of nothing it owns any more.
LEMMA SettledByReader ==
  ASSUME LaneInv, LaneHeld, StreamOrder, Bound, Settled, ReaderStep
  PROVE  Settled'
<1> USE NativeAssumption DEF LaneInv, TypeOK, ConnTypeOK, PromptTypeOK, GoTypeOK
<1>0. Around /\ [Next]_vars
  BY ReaderAround DEF Next
<1> SUFFICES ASSUME NEW r \in Runs, exec'[r] \in RetiredPC, conn' = "open" PROVE Left(r)'
  BY DEF Settled
<1>1. exec[r] \in RetiredPC /\ conn = "open"
  BY <1>0, Latches DEF Around, Woke, RetiredPC
<1>2. Left(r)
  BY <1>1 DEF Settled
<1>3. OutcomeKnown(r) => OutcomeKnown(r)'
  BY ReaderFrame DEF ReaderStep, ReceiveReply, ReceiveRunning, ReceiveAck, ReceiveCompleted,
     ReceiveOverflow, ReaderFails, ReaderExits, PendingFailure, Finish, OutcomeKnown,
     others, connVars, Requests
<1>4. r \in attempted' => r \in attempted
  BY ReaderFrame
<1>5. ASSUME segments'[r] = segments[r], delivery'[r] \in {delivery[r], None},
             r \in failure' => r \in failure
      PROVE  Left(r)'
  BY <1>0, <1>2, <1>3, <1>4, <1>5, LeftStays
<1>6. CASE ReceiveRunning
  <2>1. /\ fromNative # <<>> /\ 1 \in DOMAIN fromNative /\ fromNative[1] = Head(fromNative)
        /\ Head(fromNative).type = "running" /\ Head(fromNative).id # None
    <3>1. fromNative # <<>> /\ Head(fromNative).type = "running"
      BY <1>6 DEF ReceiveRunning, NextFrame
    <3>2. 1 \in DOMAIN fromNative /\ fromNative[1] = Head(fromNative)
      BY <3>1 DEF NativeTypeOK
    <3> QED
      BY <3>1, <3>2, FrameId
  <2>2. CASE pendingPrompt = r
    <3>1. ~BindsDelivery(r, Head(fromNative).id)
      BY <1>2, <2>1 DEF Left, Accounted, BindsDelivery
    <3>2. r \in attempted => ~BindsPrompt(r, Head(fromNative).id)
      BY <1>2, <2>1 DEF Left, OutcomeKnown, BindsPrompt, StreamOrder
    <3> QED
      BY <1>5, <1>6, <2>2, <3>1, <3>2 DEF ReceiveRunning
  <2>3. CASE pendingPrompt # r
    <3>1. /\ segments'[r] = segments[r] /\ delivery'[r] \in {delivery[r], None}
          /\ r \in failure' => r \in failure
      BY <1>6, <2>3 DEF ReceiveRunning, Release
    <3> QED
      BY <1>5, <3>1
  <2> QED
    BY <2>2, <2>3
<1>7. CASE ReceiveAck
  BY <1>5, <1>7 DEF ReceiveAck, Release, course
<1>8. CASE ReceiveOverflow
  <2>1. /\ 1 \in DOMAIN fromNative /\ fromNative[1] = Head(fromNative)
        /\ Head(fromNative).type = "chunk"
    <3>1. fromNative # <<>> /\ Head(fromNative).type = "chunk"
      BY <1>8 DEF ReceiveOverflow, NextFrame
    <3> QED
      BY <3>1 DEF NativeTypeOK
  <2>2. reason[Head(fromNative).id] = "open"
    BY <2>1 DEF StreamOrder, LiveAt
  <2>3. ~HasSegment(r, Head(fromNative).id)
    BY <1>2, <2>2 DEF Left, Accounted, AllTerminal, HasSegment
  <2>4. r \in failure' => r \in failure
    BY <1>8, <2>3 DEF ReceiveOverflow
  <2> QED
    BY <1>5, <1>8, <2>4 DEF ReceiveOverflow, course
<1>9. CASE ReceiveReply \/ ReceiveCompleted \/ ReaderFails \/ ReaderExits
  BY <1>5, <1>9 DEF ReceiveReply, ReceiveCompleted, ReaderFails, ReaderExits, owned,
     promptVars, course
<1> QED
  BY <1>6, <1>7, <1>8, <1>9 DEF ReaderStep

\* What a retired Run left stays settled.
LEMMA SettledKept ==
  LaneInv /\ LaneHeld /\ StreamOrder /\ Bound /\ Settled /\ [Next]_vars => Settled'
<1> SUFFICES ASSUME LaneInv, LaneHeld, StreamOrder, Bound, Settled, [Next]_vars PROVE Settled'
  OBVIOUS
<1>1. CASE SDKStep \/ GrokStep \/ UNCHANGED vars
  <2>1. /\ UNCHANGED <<segments, delivery, failure, attempted, sender, exec, conn>>
        /\ UNCHANGED reply
    BY <1>1, SDKFrame, GrokFrame DEF GrokStep, Wrapper, vars, outside, owned, connVars,
       deliveryVars, promptVars, course, goVars, others
  <2> QED
    BY <2>1, LeftStays DEF Settled, OutcomeKnown
<1> QED
  BY <1>1, SettledByExec, SettledByOthers, SettledByReader DEF Next, GrokStep

\* No Run has retired when the worker starts.
LEMMA SettledInit == Init => Settled
BY DEF Init, Settled, RetiredPC

-----------------------------------------------------------------------------
(* Whose work is under way.                                                *)

\* The layers so far, with what a delivery's books say of the wire.
Books == LaneInv /\ WireInv /\ AckedEnqueued /\ AttemptedAccounted
OrderInv == LaneHeld /\ NativeOrder /\ StreamOrder /\ Bound /\ Settled

\* The order of the lane's work holds in every state.
THEOREM OrderInvariant == Spec => [](Books /\ OrderInv)
<1>1. Init => OrderInv
  BY HeldInit, NativeOrderInit, StreamOrderInit, BoundInit, SettledInit DEF OrderInv
<1>2. Books /\ OrderInv /\ [Next]_vars => OrderInv'
  BY HeldKept, NativeOrderKept, StreamOrderKept, BoundKept, SettledKept DEF Books, OrderInv
<1>3. LaneInv /\ WireInv /\ AckedEnqueued /\ AttemptedAccounted => Books
  BY DEF Books
<1> QED
  BY LaneInvariant, WireInvariant, AckedEvidence, AttemptedAccounting, <1>1, <1>2, <1>3, PTL
     DEF Spec

\* While the connection is open, a Run whose prompt was written and is not over, or
\* that waits for a delivery or has failed one, is the one that owns the prompt.
LEMMA OpenRun ==
  ASSUME Books, OrderInv, conn = "open", NEW r \in Runs, r \in written,
         ~Over(r) \/ delivery[r] # None \/ r \in failure
  PROVE  pendingPrompt = r /\ exec[r] \notin RetiredPC
<1> USE DEF Books, OrderInv, LaneInv
<1>1. r \in attempted /\ exec[r] \notin {"idle", "entered"}
  BY DEF LaneHeld, PromptHeld, SeedAccounted
<1>2. exec[r] \notin RetiredPC
  <2> SUFFICES ASSUME exec[r] \in RetiredPC PROVE FALSE
    OBVIOUS
  <2>1. Left(r)
    BY DEF Settled
  <2>2. ~Over(r)
    BY <2>1 DEF Left, Accounted
  <2>3. CASE Admitted(r)
    <3>1. segments[r][1] = r /\ 1 \in DOMAIN segments[r]
      BY <2>3, SegmentId DEF Bound, OwnSegments, TypeOK
    <3> QED
      BY <2>1, <2>2, <3>1 DEF Left, Accounted, AllTerminal, StreamOrder, Requests
  <2>4. CASE OutcomeKnown(r)
    BY <2>2, <2>4 DEF OutcomeKnown, StreamOrder
  <2> QED
    BY <1>1, <2>1, <2>3, <2>4 DEF Left
<1> QED
  BY <1>1, <1>2 DEF LaneHeld, RunHeld, PromptPC, RetiredPC, TypeOK, GoTypeOK

\* An admitted prompt was written and has begun.
LEMMA AdmittedBegun ==
  ASSUME Books, OrderInv, NEW r \in Runs, Admitted(r)
  PROVE  Begun(r) /\ r \in written
BY SegmentId DEF Books, OrderInv, LaneInv, TypeOK, Bound, OwnSegments, Begun, Taken

\* An interject on the wire is of the Run that waits for it, or that failed for it.
LEMMA OpenDelivery ==
  ASSUME Books, OrderInv, NEW m \in Messages, Interjecting(m)
  PROVE  /\ target[m] \in Runs /\ Admitted(target[m]) /\ rpc[m] # "idle"
         /\ delivery[target[m]] = m \/ target[m] \in failure
<1> USE NativeAssumption DEF Books, OrderInv, LaneInv
<1>1. m \in attempted /\ m \notin acked /\ derr[m] # "refused"
  BY DEF WireInv, WireAccounted, AckedEnqueued, RefusedByGrok
<1>2. delivery[target[m]] = m \/ target[m] \in failure
  BY <1>1 DEF AttemptedAccounted
<1>3. target[m] \in Runs /\ rpc[m] # "idle"
  BY <1>1 DEF RpcAccounted, CallerBound
<1> QED
  BY <1>2, <1>3 DEF Bound, OwnDelivery, Requests

\* An interject on the wire finds the prompt of its Run begun and, when a
\* session/prompt runs, running.
Steered ==
  \A m \in Messages : Interjecting(m) =>
    Begun(target[m]) /\ (running \in Runs => running = target[m])

\* While the connection is open, interjects are kept to their Runs by what the Runs
\* left.
LEMMA SteeredOpen ==
  ASSUME Books, OrderInv, conn = "open"
  PROVE  Steered
<1> SUFFICES ASSUME NEW m \in Messages, Interjecting(m)
             PROVE  Begun(target[m]) /\ (running \in Runs => running = target[m])
  BY DEF Steered
<1>1. /\ target[m] \in Runs /\ Admitted(target[m])
      /\ delivery[target[m]] # None \/ target[m] \in failure
  BY OpenDelivery, NativeAssumption DEF Requests
<1>2. Begun(target[m]) /\ pendingPrompt = target[m]
  BY <1>1, AdmittedBegun, OpenRun
<1>3. ASSUME running \in Runs PROVE running = pendingPrompt
  <2>1. running \in written /\ ~Over(running)
    BY <1>3, NativeAssumption DEF OrderInv, NativeOrder, Over, Begun, Taken, Requests
  <2> QED
    BY <1>3, <2>1, OpenRun
<1> QED
  BY <1>2, <1>3

\* Once the connection is done nothing moves on the wire or in Grok any more.
LEMMA Frozen ==
  ASSUME LaneInv, [Next]_vars, conn' = "done"
  PROVE  UNCHANGED <<toNative, written, work>>
<1>1. CASE GrokStep
  <2>1. NativeExits
    BY <1>1, GrokFrame DEF GrokStep, NativeStep, NativeFault, Wrapper, connVars
  <2> QED
    BY <2>1 DEF NativeExits, Exit, Wrapper, connVars, work
<1>2. ASSUME NEW r \in Runs, SubmitPrompt(r) PROVE FALSE
  BY <1>2 DEF SubmitPrompt, Write
<1>3. ASSUME NEW m \in Messages, SubmitInterject(m) PROVE FALSE
  BY <1>3 DEF SubmitInterject, Write
<1>4. ASSUME NEW r \in Runs, SendCancel(r), conn = "open",
             toNative' = Append(toNative, Call("cancel", r))
      PROVE  FALSE
  <2>1. toNative' # toNative
    BY <1>4 DEF LaneInv, TypeOK, NativeTypeOK
  <2> QED
    BY <1>4, <2>1 DEF SendCancel
<1> QED
  BY <1>1, <1>2, <1>3, <1>4, WrapperWrites

\* The Run of a delivery under way stays the one it was bound to.
LEMMA TargetStays ==
  ASSUME LaneInv, [Next]_vars, NEW m \in Messages, rpc[m] # "idle"
  PROVE  target'[m] = target[m]
<1>1. CASE SDKStep
  <2>1. UNCHANGED target \/ \E n \in Messages : CaptureRun(n)
    BY <1>1 DEF SDKStep, CancelCaller, InterruptRun, CancelRun, FinishRun, Close,
       outside, sdkVars
  <2>2. ASSUME NEW n \in Messages, CaptureRun(n) PROVE n # m
    BY <2>2 DEF CaptureRun, LaneInv, CallerBound
  <2> QED
    BY <2>1, <2>2 DEF CaptureRun, LaneInv, TypeOK, SDKTypeOK
<1>2. CASE ~SDKStep
  BY <1>2, ExecFrame, SenderFrame, InterruptFrame, DeliveryFrame, ReaderFrame, GrokFrame
     DEF Next, Wrapper, vars, outside, sdkVars
<1> QED
  BY <1>1, <1>2

\* A call on the wire is one of the wrapper's.
LEMMA WireCall ==
  ASSUME NativeTypeOK, NEW k \in DOMAIN toNative
  PROVE  /\ toNative[k].type \in {"prompt", "interject", "cancel"}
         /\ toNative[k] = Call(toNative[k].type, toNative[k].id)
         /\ toNative[k].type \in {"prompt", "cancel"} => toNative[k].id \in Runs
         /\ toNative[k].type = "interject" => toNative[k].id \in Messages
<1>1. toNative[k] \in CallFrame
  BY DEF NativeTypeOK
<1>2. /\ toNative[k].type \in {"prompt", "interject", "cancel"}
      /\ toNative[k] = [type |-> toNative[k].type, id |-> toNative[k].id]
  BY <1>1 DEF CallFrame
<1>3. /\ toNative[k].type \in {"prompt", "cancel"} => toNative[k].id \in Runs
      /\ toNative[k].type = "interject" => toNative[k].id \in Messages
  BY <1>1 DEF CallFrame
<1> QED
  BY <1>2, <1>3 DEF Call

\* A step after which the connection is done keeps interjects to their Runs.
LEMMA SteeredFrozen ==
  ASSUME Books, OrderInv, Steered, [Next]_vars, conn' # "open", conn' \in {"open", "done"}
  PROVE  Steered'
<1>1. UNCHANGED <<toNative, running>>
  BY Frozen DEF Books, work
<1>2. Lasting
  BY NativeOrderKept DEF Books, OrderInv
<1>3. ASSUME NEW m \in Messages, Interjecting(m)
      PROVE  target'[m] = target[m] /\ target[m] \in Runs
  BY <1>3, OpenDelivery, TargetStays DEF Books
<1>4. ASSUME NEW m \in Messages, Interjecting(m), NEW r \in Runs, r = target[m]
      PROVE  target'[m] = r /\ Begun(r)'
  BY <1>2, <1>3, <1>4 DEF Steered, Lasting, Requests
<1> QED
  BY <1>1, <1>3, <1>4 DEF Steered, Interjecting, Begun, Taken, Submitting

\* The connection's two states, for temporal reasoning.
Open == conn = "open"

\* Interjects are kept to their Runs in every state.
LEMMA SteeredInvariant == Spec => []Steered
<1>1. Init => Steered
  <2>1. Init => DOMAIN toNative = {}
    BY DEF Init, NativeInit
  <2> QED
    BY <2>1 DEF Steered, Interjecting
<1>2. Books /\ OrderInv /\ Open => Steered
  BY SteeredOpen DEF Open
<1>3. Books /\ OrderInv /\ Steered /\ [Next]_vars /\ Books' /\ ~Open' => Steered'
  BY SteeredFrozen DEF Open, Books, LaneInv, TypeOK, ConnTypeOK
<1> QED
  BY OrderInvariant, <1>1, <1>2, <1>3, PTL DEF Spec

\* No interject reaches Grok before the prompt it is bound to has started: the
\* frame is behind the session/prompt and the prompt is not queued.
THEOREM NoEarlyInterjects == Spec => []NoEarlyInterject
<1>1. Books /\ OrderInv /\ Steered => NoEarlyInterject
  <2> SUFFICES ASSUME Books, OrderInv, Steered,
                      NEW k \in DOMAIN toNative, toNative[k].type = "interject"
               PROVE  LET r == target[toNative[k].id] IN
                      /\ r \in written /\ r \notin queued
                      /\ \A j \in DOMAIN toNative : toNative[j] # Call("prompt", r)
    BY DEF NoEarlyInterject
  <2>1. PICK m \in Messages : toNative[k] = Call("interject", m)
    BY WireCall DEF Books, LaneInv, TypeOK
  <2>2. toNative[k].id = m /\ Interjecting(m)
    BY <2>1 DEF Call, Interjecting
  <2>3. Begun(target[m]) /\ target[m] \in Runs
    BY <2>2, OpenDelivery DEF Steered
  <2> QED
    BY <2>2, <2>3 DEF Begun, Taken, Submitting
<1> QED
  BY OrderInvariant, SteeredInvariant, <1>1, PTL

\* A message never steers the prompt of a Run other than the one its callback was
\* bound to: what Grok runs when it takes an interject is that Run's prompt, or a
\* fallback prompt.
THEOREM NoForeignSteering == Spec => []NoForeignSteer
<1>1. Books /\ OrderInv /\ Steered => NoForeignSteer
  <2> SUFFICES ASSUME Books, Steered, NextCall("interject"), running \in Runs
               PROVE  running = target[Head(toNative).id]
    BY DEF NoForeignSteer
  <2>1. NativeTypeOK
    BY DEF Books, LaneInv, TypeOK
  <2>2. PICK m \in Messages : Head(toNative) = Call("interject", m) /\ toNative # <<>>
    BY <2>1, HeadCall
  <2>3. 1 \in DOMAIN toNative /\ toNative[1] = Head(toNative)
    BY <2>1, <2>2 DEF NativeTypeOK
  <2>4. Interjecting(m)
    BY <2>2, <2>3 DEF Interjecting
  <2> QED
    BY <2>2, <2>4 DEF Steered, Call
<1> QED
  BY OrderInvariant, SteeredInvariant, <1>1, PTL

-----------------------------------------------------------------------------
(* What an idle lane leaves to Grok.                                       *)

\* A native prompt bound to some Run whose terminal was not read yet; one Grok runs or
\* is to run; and the place of an acknowledgement on the stream.
OpenSegment(i) == reason[i] = "open" /\ \E r \in Runs : HasSegment(r, i)
AtWork(i) == running = i \/ i \in queued
AckAt(m, k) == fromNative[k].type = "ack" /\ fromNative[k].id = m
EndedBefore(i, k) == \E j \in DOMAIN fromNative : j < k /\ Completes(j, i)

\* An open segment runs, or its terminal is on the stream.
OpenSegments ==
  \A i \in Requests : OpenSegment(i) =>
    running = i \/ \E j \in DOMAIN fromNative : Completes(j, i)

\* A message that became a prompt of its own was acknowledged after everything that is
\* open, or still to be opened, had ended on the stream.
FallbackAck ==
  \A m \in Messages, k \in DOMAIN fromNative : AtWork(m) /\ AckAt(m, k) =>
    /\ \A i \in Requests : OpenSegment(i) => EndedBefore(i, k)
    /\ \A j \in DOMAIN fromNative :
         j < k /\ fromNative[j].type = "running" => EndedBefore(fromNative[j].id, k)

\* Such a message is still registered, bound, or the failure of its Run.
Owned(m) ==
  delivery[target[m]] = m \/ HasSegment(target[m], m) \/ target[m] \in failure
FallbackOwned == \A m \in Messages : AtWork(m) => Owned(m)

\* While the connection is open.
IdleInv == Open => OpenSegments /\ FallbackAck /\ FallbackOwned

\* A connection that is open after a step was open before it.
LEMMA WasOpen ==
  ASSUME LaneInv, [Next]_vars, Open'
  PROVE  Open
BY Latches DEF Open, LaneInv, TypeOK, ConnTypeOK

\* An open segment is one of the Run that owns the prompt.
LEMMA OpenSegmentRun ==
  ASSUME Books, OrderInv, Open, NEW r \in Runs, NEW i, HasSegment(r, i), reason[i] = "open"
  PROVE  pendingPrompt = r /\ exec[r] \notin RetiredPC
<1> USE DEF Books, OrderInv, LaneInv, TypeOK
<1>1. Admitted(r)
  BY SegmentId
<1>2. exec[r] \notin {"idle", "entered"}
  BY <1>1, AdmittedBegun DEF LaneHeld, PromptHeld, SeedAccounted
<1>3. exec[r] \notin RetiredPC
  BY DEF Settled, Left, Accounted, AllTerminal, HasSegment, Open
<1> QED
  BY <1>2, <1>3 DEF LaneHeld, RunHeld, PromptPC, RetiredPC, GoTypeOK

\* Only an announcement opens a segment.
LEMMA OpenSegmentStays ==
  ASSUME LaneInv, [Next]_vars, NEW i \in Requests, OpenSegment(i)'
  PROVE  OpenSegment(i) \/ (ReceiveRunning /\ i = Head(fromNative).id)
<1> USE DEF LaneInv, TypeOK, PromptTypeOK
<1>1. reason[i] = "open"
  BY CourseGrows DEF OpenSegment
<1>2. CASE ReceiveRunning
  <2>1. \/ UNCHANGED segments
        \/ segments' = [segments EXCEPT ![pendingPrompt] = Append(@, Head(fromNative).id)]
    BY <1>2 DEF ReceiveRunning
  <2>2. ASSUME NEW r \in Runs, HasSegment(r, i)', i # Head(fromNative).id
        PROVE  HasSegment(r, i)
    <3>1. segments[r] \in Seq(Requests)
      OBVIOUS
    <3>2. segments'[r] = segments[r] \/ segments'[r] = Append(segments[r], Head(fromNative).id)
      BY <2>1
    <3>3. \A k \in DOMAIN Append(segments[r], Head(fromNative).id) :
            \/ k \in DOMAIN segments[r]
               /\ Append(segments[r], Head(fromNative).id)[k] = segments[r][k]
            \/ Append(segments[r], Head(fromNative).id)[k] = Head(fromNative).id
      BY <3>1
    <3> QED
      BY <2>2, <3>2, <3>3 DEF HasSegment
  <2> QED
    BY <1>1, <1>2, <2>2 DEF OpenSegment
<1>3. CASE ~ReceiveRunning
  <2>1. UNCHANGED segments
    BY <1>3, ExecFrame, SenderFrame, InterruptFrame, DeliveryFrame, SDKFrame, GrokFrame
       DEF Next, Wrapper, vars, owned, promptVars, course, ReaderStep, ReceiveReply,
           ReceiveAck, ReceiveCompleted, ReceiveOverflow, ReaderFails, ReaderExits
  <2> QED
    BY <1>1, <2>1 DEF OpenSegment, HasSegment
<1> QED
  BY <1>2, <1>3

\* What Grok tells stands behind what it told before.
LEMMA StreamGrows ==
  ASSUME LaneInv, NativeOrder, NativeOrder', Lasting, GrokStep
  PROVE  /\ \A k \in DOMAIN fromNative :
              k \in Nat /\ k \in DOMAIN fromNative' /\ fromNative'[k] = fromNative[k]
         /\ \A k \in DOMAIN fromNative' \ DOMAIN fromNative :
              /\ k \in Nat /\ \A j \in DOMAIN fromNative : j < k
              /\ fromNative'[k].type = "ack" =>
                   /\ TakeInterject /\ fromNative'[k].id = Head(toNative).id
                   /\ \A j \in DOMAIN fromNative' \ DOMAIN fromNative :
                        fromNative'[j].type # "running"
         /\ running # None /\ running' # running =>
              \E k \in DOMAIN fromNative' :
                fromNative'[k].type = "completed" /\ fromNative'[k].id = running
<1>0. NativeTypeOK
  BY DEF LaneInv, TypeOK
<1>1. CASE UNCHANGED fromNative /\ (running' = running \/ running = None)
  <2>1. \A k \in DOMAIN fromNative : k \in Nat
    BY <1>0 DEF NativeTypeOK
  <2> QED
    BY <1>1, <2>1
<1>2. ASSUME NEW s \in Seq(NativeFrame), Emit(s), Tells(s), Acks(s)
      PROVE  /\ \A k \in DOMAIN fromNative :
                  k \in Nat /\ k \in DOMAIN fromNative' /\ fromNative'[k] = fromNative[k]
             /\ \A k \in DOMAIN fromNative' \ DOMAIN fromNative :
                  /\ k \in Nat /\ \A j \in DOMAIN fromNative : j < k
                  /\ fromNative'[k].type = "ack" =>
                       /\ TakeInterject /\ fromNative'[k].id = Head(toNative).id
                       /\ \A j \in DOMAIN fromNative' \ DOMAIN fromNative :
                            fromNative'[j].type # "running"
             /\ running # None /\ running' # running =>
                  \E k \in DOMAIN fromNative' :
                    fromNative'[k].type = "completed" /\ fromNative'[k].id = running
  <2> DEFINE L == Len(fromNative)
  <2>1. /\ L \in Nat
        /\ \A k \in DOMAIN fromNative :
             /\ k \in Nat /\ k <= L
             /\ k \in DOMAIN fromNative' /\ fromNative'[k] = fromNative[k]
        /\ \A k \in DOMAIN fromNative' :
             \/ k \in DOMAIN fromNative
             \/ \E j \in DOMAIN s : k = L + j /\ fromNative'[k] = s[j]
        /\ \A j \in DOMAIN s : /\ j \in Nat /\ j > 0
                               /\ L + j \in DOMAIN fromNative' /\ fromNative'[L + j] = s[j]
    BY <1>0, <1>2, EmitAt
  <2> HIDE DEF L
  <2>2. ASSUME NEW k \in DOMAIN fromNative' \ DOMAIN fromNative
        PROVE  k \in Nat /\ \A j \in DOMAIN fromNative : j < k
    <3>1. PICK i \in DOMAIN s : k = L + i
      BY <2>1
    <3>2. i \in Nat /\ i > 0
      BY <2>1
    <3> QED
      BY <2>1, <3>1, <3>2
  <2>3. ASSUME NEW k \in DOMAIN fromNative' \ DOMAIN fromNative
        PROVE  \E j \in DOMAIN s : fromNative'[k] = s[j]
    BY <2>1
  <2>4. ASSUME NEW k \in DOMAIN fromNative' \ DOMAIN fromNative, fromNative'[k].type = "ack"
        PROVE  /\ TakeInterject /\ fromNative'[k].id = Head(toNative).id
               /\ \A j \in DOMAIN fromNative' \ DOMAIN fromNative :
                    fromNative'[j].type # "running"
    BY <1>2, <2>3, <2>4 DEF Acks
  <2>5. running # None /\ running' # running =>
          \E k \in DOMAIN fromNative' :
            fromNative'[k].type = "completed" /\ fromNative'[k].id = running
    BY <1>2, <2>1 DEF Tells
  <2> QED
    BY <2>1, <2>2, <2>4, <2>5
<1> QED
  BY <1>1, <1>2, GrokTells DEF Told

\* What the reader takes off the stream is handled, and by its type.
LEMMA ReaderTakes ==
  ASSUME ReaderStep
  PROVE  /\ UNCHANGED <<running, queued>>
         /\ \/ UNCHANGED <<fromNative, segments, reason, delivery, failure>>
            \/ /\ fromNative # <<>> /\ fromNative' = Tail(fromNative)
               /\ Head(fromNative).type = "completed" => ReceiveCompleted
               /\ ReceiveRunning => Head(fromNative).type = "running"
<1>1. UNCHANGED <<running, queued>>
  BY ReaderFrame
<1>2. CASE ReaderFails \/ ReaderExits
  BY <1>1, <1>2 DEF ReaderFails, ReaderExits, nativeVars, owned, promptVars, course
<1>3. CASE ~ReaderFails /\ ~ReaderExits
  BY <1>1, <1>3 DEF ReaderStep, ReceiveReply, ReceiveRunning, ReceiveAck, ReceiveCompleted,
     ReceiveOverflow, NextFrame, Consume
<1> QED
  BY <1>2, <1>3

\* A terminal that is read ends its open segment.
LEMMA EndRead ==
  ASSUME Books, OrderInv, Open, NEW i \in Requests, ReceiveCompleted,
         Head(fromNative).id = i, OpenSegment(i)
  PROVE  ~OpenSegment(i)'
<1> USE NativeAssumption DEF Books, LaneInv, TypeOK, PromptTypeOK
<1>1. HasSegment(pendingPrompt, i) /\ pendingPrompt \in Runs /\ reason[i] = "open"
  BY OpenSegmentRun DEF OpenSegment
<1>2. reason' = [reason EXCEPT ![i] = Head(fromNative).status]
  BY <1>1, NativeAssumption DEF ReceiveCompleted, Requests
<1>3. Head(fromNative).status # "open"
  <2>1. Head(fromNative) \in NativeFrame
    BY DEF ReceiveCompleted, NextFrame, NativeTypeOK
  <2> QED
    BY <2>1 DEF NativeFrame
<1> QED
  BY <1>2, <1>3 DEF OpenSegment

\* No other step touches the stream, Grok's work or the books of a prompt.
LEMMA StreamRests ==
  ASSUME [Next]_vars, ~ReaderStep
  PROVE  /\ UNCHANGED <<segments, reason>>
         /\ ~GrokStep => UNCHANGED <<fromNative, running, queued>>
BY ExecFrame, SenderFrame, InterruptFrame, DeliveryFrame, SDKFrame, GrokFrame
   DEF Next, GrokStep, Wrapper, vars, outside, nativeVars, offWire, owned, promptVars, course

\* Open segments run or have their terminal on the stream, after every step.
LEMMA OpenSegmentsKept ==
  ASSUME Books, OrderInv, OrderInv', Lasting, Open, OpenSegments, [Next]_vars
  PROVE  OpenSegments'
<1> USE DEF Books, OrderInv, LaneInv, TypeOK
<1> SUFFICES ASSUME NEW i \in Requests, OpenSegment(i)'
             PROVE  running' = i
                    \/ \E j \in DOMAIN fromNative' :
                         fromNative'[j].type = "completed" /\ fromNative'[j].id = i
  BY DEF OpenSegments, Completes
<1>0. i # None
  BY NativeAssumption
<1>1. CASE ~ReaderStep
  <2>1. OpenSegment(i)
    BY <1>1, StreamRests DEF OpenSegment, HasSegment
  <2>2. running = i \/ \E j \in DOMAIN fromNative : Completes(j, i)
    BY <2>1 DEF OpenSegments
  <2>3. CASE GrokStep
    BY <1>0, <2>2, <2>3, StreamGrows DEF Completes
  <2> QED
    BY <1>1, <2>2, <2>3, StreamRests DEF Completes
<1>2. CASE ReaderStep
  <2>1. UNCHANGED running
    BY <1>2, ReaderTakes
  <2>2. CASE UNCHANGED <<fromNative, segments, reason>>
    BY <2>1, <2>2 DEF OpenSegments, OpenSegment, HasSegment, Completes
  <2>3. CASE /\ fromNative # <<>> /\ fromNative' = Tail(fromNative)
             /\ Head(fromNative).type = "completed" => ReceiveCompleted
             /\ ReceiveRunning => Head(fromNative).type = "running"
    <3>1. \/ OpenSegment(i)
          \/ Head(fromNative).type = "running" /\ i = Head(fromNative).id
      BY <2>3, OpenSegmentStays
    <3>2. /\ \A k \in DOMAIN fromNative : k \in Nat /\ k > 0
          /\ \A k \in DOMAIN fromNative :
               k > 1 => k - 1 \in DOMAIN fromNative' /\ fromNative'[k - 1] = fromNative[k]
          /\ 1 \in DOMAIN fromNative /\ fromNative[1] = Head(fromNative)
      BY <2>3, TailAt
    <3>3. running = i \/ \E j \in DOMAIN fromNative : Completes(j, i)
      BY <3>1, <3>2 DEF OpenSegments, StreamOrder, LiveAt
    <3>4. ASSUME NEW j \in DOMAIN fromNative, Completes(j, i) PROVE j > 1
      <4>1. ASSUME j = 1 PROVE FALSE
        <5>1. Head(fromNative).type = "completed" /\ Head(fromNative).id = i
          BY <3>2, <3>4, <4>1 DEF Completes
        <5>2. ReceiveCompleted /\ OpenSegment(i)
          BY <2>3, <3>1, <5>1
        <5> QED
          BY <5>1, <5>2, EndRead
      <4> QED
        BY <3>2, <4>1
    <3> QED
      BY <2>1, <3>2, <3>3, <3>4 DEF Completes
  <2> QED
    BY <1>2, <2>2, <2>3, ReaderTakes
<1> QED
  BY <1>1, <1>2

\* A message becomes Grok's own work when it is taken with nothing running.
LEMMA NewWork ==
  ASSUME "missedDrain" \notin Faults, Books, OrderInv, GrokStep, NEW m \in Messages,
         AtWork(m)', ~AtWork(m)
  PROVE  TakeInterject /\ running = None /\ m = Head(toNative).id /\ Interjecting(m)
<1> USE NativeAssumption DEF Books, OrderInv, LaneInv, TypeOK
<1>1. m \notin Runs /\ m # None
  BY DEF Requests
<1>2. CASE TakePrompt
  BY <1>1, <1>2, HeadCall DEF TakePrompt, AtWork
<1>3. CASE RefuseCall \/ TakeCancel \/ Drain \/ Overflow \/ Exit
           \/ \E n \in Messages : ReplyLate(n)
  <2>1. queued' = queued /\ running' \in {running, None}
    BY <1>3 DEF RefuseCall, TakeCancel, Drain, Overflow, Exit, ReplyLate
  <2> QED
    BY <1>1, <2>1 DEF AtWork
<1>4. CASE EndRunning \/ \E i \in Requests : StartRunning(i)
  BY <1>1, <1>4 DEF EndRunning, StartRunning, AtWork
<1>5. CASE TakeInterject
  <2>1. NextCall("interject") /\ running = None /\ m = Head(toNative).id
    BY <1>5 DEF TakeInterject, AtWork
  <2>2. Head(toNative) = Call("interject", m) /\ toNative # <<>>
    BY <2>1, HeadCall
  <2>3. 1 \in DOMAIN toNative /\ toNative[1] = Head(toNative)
    BY <2>2 DEF NativeTypeOK
  <2> QED
    BY <1>5, <2>1, <2>2, <2>3 DEF Interjecting
<1> QED
  BY <1>2, <1>3, <1>4, <1>5
     DEF GrokStep, NativeStep, NativeFault, NativeExits, NativeWork

\* What Grok works at for a message, it has enqueued.
LEMMA WorkTaken ==
  ASSUME Books, OrderInv, NEW m \in Messages, AtWork(m)
  PROVE  /\ m \in enqueued /\ m \in attempted /\ ~Interjecting(m) /\ ~RefusedByGrok(m)
         /\ rpc[m] \notin {"idle", "submit"} /\ target[m] \in Runs /\ ~Over(m)
<1> USE NativeAssumption DEF Books, OrderInv, LaneInv
<1>1. m \in enqueued /\ ~Over(m)
  BY DEF AtWork, NativeOrder, Over, Begun, Taken, Requests
<1>2. m \in attempted /\ ~Interjecting(m) /\ ~RefusedByGrok(m)
  BY <1>1 DEF WireInv, WireAccounted
<1>3. rpc[m] \notin {"idle", "submit"}
  BY <1>2 DEF RpcAccounted
<1> QED
  BY <1>1, <1>2, <1>3 DEF CallerBound

\* The acknowledgement of a message that is a prompt is put on the stream behind all
\* that was open.
LEMMA FallbackAckGrok ==
  ASSUME "missedDrain" \notin Faults, Books, OrderInv, OrderInv', Lasting, Open, OpenSegments,
         FallbackAck, GrokStep
  PROVE  FallbackAck'
<1> USE DEF Books, OrderInv, LaneInv, TypeOK
<1> SUFFICES ASSUME NEW m \in Messages, NEW k \in DOMAIN fromNative', AtWork(m)',
                    fromNative'[k].type = "ack", fromNative'[k].id = m
             PROVE  /\ \A i \in Requests : OpenSegment(i)' =>
                         \E j \in DOMAIN fromNative' :
                           j < k /\ fromNative'[j].type = "completed" /\ fromNative'[j].id = i
                    /\ \A j \in DOMAIN fromNative' :
                         j < k /\ fromNative'[j].type = "running" =>
                           \E l \in DOMAIN fromNative' :
                             l < k /\ fromNative'[l].type = "completed"
                             /\ fromNative'[l].id = fromNative'[j].id
  BY DEF FallbackAck, AckAt, EndedBefore, Completes
<1>1. \A i \in Requests : OpenSegment(i)' => OpenSegment(i)
  BY GrokFrame DEF GrokStep, Wrapper, owned, promptVars, course, OpenSegment, HasSegment
<1>2. \A j \in DOMAIN fromNative :
        j \in Nat /\ j \in DOMAIN fromNative' /\ fromNative'[j] = fromNative[j]
  BY StreamGrows
<1>3. CASE k \in DOMAIN fromNative
  <2>1. AtWork(m)
    <3>1. m \in enqueued
      BY <1>2, <1>3 DEF AckedEnqueued
    <3>2. ~Interjecting(m)
      BY <3>1 DEF WireInv, WireAccounted
    <3> QED
      BY <3>2, NewWork
  <2>2. AckAt(m, k)
    BY <1>2, <1>3 DEF AckAt
  <2>3. \A j \in DOMAIN fromNative' : j < k => j \in DOMAIN fromNative
    <3>1. ASSUME NEW j \in DOMAIN fromNative' \ DOMAIN fromNative PROVE ~(j < k)
      <4>1. k < j /\ j \in Nat
        BY <1>3, StreamGrows
      <4>2. k \in Nat
        BY <1>2, <1>3
      <4> QED
        BY <4>1, <4>2
    <3> QED
      BY <3>1
  <2> QED
    BY <1>1, <1>2, <1>3, <2>1, <2>2, <2>3 DEF FallbackAck, EndedBefore, Completes
<1>4. CASE k \notin DOMAIN fromNative
  <2>1. /\ TakeInterject /\ m = Head(toNative).id
        /\ \A j \in DOMAIN fromNative' \ DOMAIN fromNative : fromNative'[j].type # "running"
        /\ \A j \in DOMAIN fromNative : j < k
    BY <1>4, StreamGrows
  <2>2. Interjecting(m)
    <3>1. NextCall("interject")
      BY <2>1 DEF TakeInterject
    <3>2. Head(toNative) = Call("interject", m) /\ toNative # <<>>
      BY <2>1, <3>1, HeadCall
    <3>3. 1 \in DOMAIN toNative /\ toNative[1] = Head(toNative)
      BY <3>2 DEF NativeTypeOK
    <3> QED
      BY <3>2, <3>3 DEF Interjecting
  <2>3. running = None
    BY <2>2, WorkTaken, NewWork
  <2>4. ASSUME NEW i \in Requests, OpenSegment(i)'
        PROVE  \E j \in DOMAIN fromNative' :
                 j < k /\ fromNative'[j].type = "completed" /\ fromNative'[j].id = i
    <3>1. PICK j \in DOMAIN fromNative : Completes(j, i)
      BY <1>1, <2>3, <2>4, NativeAssumption DEF OpenSegments
    <3> QED
      BY <1>2, <2>1, <3>1 DEF Completes
  <2>5. ASSUME NEW j \in DOMAIN fromNative', fromNative'[j].type = "running"
        PROVE  \E l \in DOMAIN fromNative' :
                 l < k /\ fromNative'[l].type = "completed"
                 /\ fromNative'[l].id = fromNative'[j].id
    <3>1. j \in DOMAIN fromNative /\ fromNative[j].type = "running"
      BY <1>2, <2>1, <2>5
    <3>2. LiveAt(j) /\ fromNative[j].id # None
      BY <3>1, FrameId DEF StreamOrder
    <3>3. PICK l \in DOMAIN fromNative : Completes(l, fromNative[j].id)
      BY <2>3, <3>1, <3>2 DEF LiveAt
    <3> QED
      BY <1>2, <2>1, <3>1, <3>3 DEF Completes
  <2> QED
    BY <2>4, <2>5
<1> QED
  BY <1>3, <1>4

\* The acknowledgement of a message that is a prompt stays behind what was open while
\* the reader comes nearer.
LEMMA FallbackAckReader ==
  ASSUME Books, OrderInv, Open, FallbackAck, ReaderStep
  PROVE  FallbackAck'
<1> USE DEF Books, OrderInv, LaneInv, TypeOK
<1>0. UNCHANGED <<running, queued>> /\ [Next]_vars
  BY ReaderTakes DEF Next
<1>1. CASE UNCHANGED <<fromNative, segments, reason>>
  BY <1>0, <1>1 DEF FallbackAck, AckAt, EndedBefore, Completes, OpenSegment, HasSegment,
     AtWork
<1>2. CASE /\ fromNative # <<>> /\ fromNative' = Tail(fromNative)
           /\ Head(fromNative).type = "completed" => ReceiveCompleted
           /\ ReceiveRunning => Head(fromNative).type = "running"
  <2> SUFFICES ASSUME NEW m \in Messages, NEW k \in DOMAIN fromNative', AtWork(m),
                      fromNative'[k].type = "ack", fromNative'[k].id = m
               PROVE  /\ \A i \in Requests : OpenSegment(i)' =>
                           \E j \in DOMAIN fromNative' :
                             j < k /\ fromNative'[j].type = "completed" /\ fromNative'[j].id = i
                      /\ \A j \in DOMAIN fromNative' :
                           j < k /\ fromNative'[j].type = "running" =>
                             \E l \in DOMAIN fromNative' :
                               l < k /\ fromNative'[l].type = "completed"
                               /\ fromNative'[l].id = fromNative'[j].id
    BY <1>0 DEF FallbackAck, AckAt, EndedBefore, Completes, AtWork
  <2>1. /\ \A j \in DOMAIN fromNative : j \in Nat /\ j > 0
        /\ \A j \in DOMAIN fromNative' :
             /\ j \in Nat /\ j > 0
             /\ j + 1 \in DOMAIN fromNative /\ fromNative'[j] = fromNative[j + 1]
        /\ \A j \in DOMAIN fromNative :
             j > 1 => j - 1 \in DOMAIN fromNative' /\ fromNative'[j - 1] = fromNative[j]
        /\ 1 \in DOMAIN fromNative /\ fromNative[1] = Head(fromNative)
    BY <1>2, TailAt
  <2>2. k + 1 \in DOMAIN fromNative /\ AckAt(m, k + 1)
    BY <2>1 DEF AckAt
  <2>3. ASSUME NEW i, NEW j \in DOMAIN fromNative, j < k + 1, j > 1, Completes(j, i)
        PROVE  \E l \in DOMAIN fromNative' :
                 l < k /\ fromNative'[l].type = "completed" /\ fromNative'[l].id = i
    <3>1. j - 1 \in DOMAIN fromNative' /\ fromNative'[j - 1] = fromNative[j] /\ j - 1 < k
      BY <2>1, <2>3
    <3> QED
      BY <2>3, <3>1 DEF Completes
  <2>4. ASSUME NEW i \in Requests, OpenSegment(i)'
        PROVE  \E j \in DOMAIN fromNative' :
                 j < k /\ fromNative'[j].type = "completed" /\ fromNative'[j].id = i
    <3>1. \/ OpenSegment(i)
          \/ Head(fromNative).type = "running" /\ i = Head(fromNative).id
      BY <1>0, <1>2, <2>4, OpenSegmentStays
    <3>2. 1 < k + 1
      BY <2>1
    <3>3. EndedBefore(i, k + 1)
      BY <2>1, <2>2, <3>1, <3>2 DEF FallbackAck
    <3>4. PICK j \in DOMAIN fromNative : j < k + 1 /\ Completes(j, i)
      BY <3>3 DEF EndedBefore
    <3>5. ASSUME j = 1 PROVE FALSE
      <4>1. Head(fromNative).type = "completed" /\ Head(fromNative).id = i
        BY <2>1, <3>4, <3>5 DEF Completes
      <4>2. ReceiveCompleted /\ OpenSegment(i)
        BY <1>2, <3>1, <4>1
      <4> QED
        BY <2>4, <4>1, <4>2, EndRead
    <3>6. j > 1
      BY <2>1, <3>5
    <3> QED
      BY <2>3, <3>4, <3>6
  <2>5. ASSUME NEW j \in DOMAIN fromNative', j < k, fromNative'[j].type = "running"
        PROVE  \E l \in DOMAIN fromNative' :
                 l < k /\ fromNative'[l].type = "completed"
                 /\ fromNative'[l].id = fromNative'[j].id
    <3>0. k \in Nat
      BY <2>1
    <3>1. j \in Nat /\ j + 1 \in DOMAIN fromNative /\ fromNative'[j] = fromNative[j + 1]
          /\ j + 1 < k + 1 /\ j + 1 > 1
      BY <2>1, <2>5, <3>0
    <3>2. EndedBefore(fromNative[j + 1].id, k + 1)
      BY <2>2, <2>5, <3>1 DEF FallbackAck
    <3>3. PICK l \in DOMAIN fromNative : l < k + 1 /\ Completes(l, fromNative[j + 1].id)
      BY <3>2 DEF EndedBefore
    <3>4. l # 1
      BY <2>5, <3>1, <3>3 DEF StreamOrder, EndAt, Completes
    <3>5. l > 1
      BY <2>1, <3>4
    <3> QED
      BY <2>3, <3>1, <3>3, <3>5
  <2> QED
    BY <2>4, <2>5
<1> QED
  BY <1>1, <1>2, ReaderTakes

\* A message that Grok works at is settled by nothing but its announcement: its RPC is
\* behind its write, its refusal cannot come and its acknowledgement, read while its
\* prompt is open, is not one of its own work.
LEMMA OwnedDelivery ==
  ASSUME Books, OrderInv, NEW m \in Messages, AtWork(m), delivery[target[m]] = m,
         NEW n \in Messages, DeliveryStep(n)
  PROVE  delivery'[target[m]] = m \/ target[m] \in failure'
<1> USE DEF Books, LaneInv, TypeOK, PromptTypeOK, ConnTypeOK
<1>1. rpc[m] # "submit" /\ target[m] \in Runs /\ ~RefusedByGrok(m)
  BY WorkTaken
<1>2. CASE RegisterDelivery(n)
  <2>1. delivery[target[m]] = None \/ caller[n] # "admission"
    BY <1>1 DEF GateConserved
  <2> QED
    BY <1>2, <2>1, NativeAssumption DEF RegisterDelivery, Requests
<1>0. ASSUME n # m, Release(target[n], n) PROVE delivery'[target[m]] = m
  <2>1. CASE delivery[target[n]] # n
    BY <1>0, <2>1 DEF Release
  <2>2. CASE delivery[target[n]] = n
    <3>1. target[n] # target[m]
      BY <1>0, <2>2
    <3>2. delivery' = [delivery EXCEPT ![target[n]] = None]
      BY <1>0, <2>2 DEF Release
    <3> QED
      BY <1>1, <3>1, <3>2
  <2> QED
    BY <2>1, <2>2
<1>3. CASE InterjectUnsubmitted(n)
  <2>1. n # m
    BY <1>1, <1>3 DEF InterjectUnsubmitted
  <2> QED
    BY <1>0, <1>3, <2>1 DEF InterjectUnsubmitted
<1>4. CASE InterjectReplied(n)
  <2>1. CASE n # m
    <3>1. UNCHANGED delivery \/ Release(target[n], n)
      BY <1>4 DEF InterjectReplied
    <3> QED
      BY <1>0, <2>1, <3>1
  <2>2. CASE n = m
    <3>1. CASE UNCHANGED delivery
      BY <3>1
    <3>2. CASE failure' = failure \cup {target[m]}
      BY <3>2
    <3> QED
      BY <1>1, <1>4, <2>2, <3>1, <3>2 DEF InterjectReplied, RefusedByGrok
  <2> QED
    BY <2>1, <2>2
<1>5. CASE SchedulingLost(n)
  <2>1. failure' = failure \cup {target[n]} /\ Release(target[n], n)
    BY <1>5 DEF SchedulingLost
  <2>2. CASE n = m
    BY <2>1, <2>2
  <2>3. CASE n # m
    BY <1>0, <2>1, <2>3
  <2> QED
    BY <2>2, <2>3
<1>6. CASE UNCHANGED delivery
  BY <1>6
<1> QED
  BY <1>2, <1>3, <1>4, <1>5, <1>6 DEF DeliveryStep, Deliver, GateCancelled, TakeGate,
     AdmissionFails, SubmitInterject, InterjectWriteAborted, DeliverySettles,
     InterjectAborts, CallerReturns, owned, promptVars

\* The reader settles a message that Grok works at only by binding its prompt.
LEMMA OwnedReader ==
  ASSUME Books, OrderInv, FallbackAck, NEW m \in Messages, AtWork(m),
         delivery[target[m]] = m, ReaderStep
  PROVE  delivery'[target[m]] = m \/ HasSegment(target[m], m)'
<1> USE NativeAssumption DEF Books, LaneInv, TypeOK, PromptTypeOK
<1>1. target[m] \in Runs /\ m # None /\ UNCHANGED target
  BY WorkTaken, ReaderFrame DEF Requests, sdkVars
<1>2. PICK t : t = target[m]
  OBVIOUS
<1>3. CASE ReceiveRunning
  <2>1. CASE delivery'[t] = m
    BY <1>1, <1>2, <2>1
  <2>2. CASE delivery'[t] # m
    <3>1. /\ pendingPrompt = t /\ Head(fromNative).id = m
          /\ segments' = [segments EXCEPT ![t] = Append(@, m)]
      BY <1>1, <1>2, <1>3, <2>2 DEF ReceiveRunning, Release, BindsDelivery
    <3>2. segments[t] \in Seq(Requests) /\ segments'[t] = Append(segments[t], m)
      BY <1>1, <1>2, <3>1
    <3>3. /\ Len(segments[t]) + 1 \in DOMAIN segments'[t]
          /\ segments'[t][Len(segments[t]) + 1] = m
      BY <3>2
    <3> QED
      BY <1>1, <1>2, <3>3 DEF HasSegment
  <2> QED
    BY <2>1, <2>2
<1>4. CASE ReceiveAck
  <2>1. CASE delivery'[t] = m
    BY <1>1, <1>2, <2>1
  <2>2. CASE delivery'[t] # m
    <3>1. /\ fromNative # <<>> /\ Head(fromNative).type = "ack" /\ Head(fromNative).id = m
          /\ Admitted(t) /\ ~LastTerminal(t)
      BY <1>1, <1>2, <1>4, <2>2 DEF ReceiveAck, NextFrame, Release
    <3>2. 1 \in DOMAIN fromNative /\ fromNative[1] = Head(fromNative)
          /\ \A j \in DOMAIN fromNative : ~(j < 1)
      BY <3>1 DEF NativeTypeOK
    <3>3. \A i \in Requests : ~OpenSegment(i)
      BY <3>1, <3>2 DEF FallbackAck, AckAt, EndedBefore
    <3>4. /\ segments[t] \in Seq(Requests) /\ segments[t] # <<>>
          /\ Len(segments[t]) \in DOMAIN segments[t]
          /\ segments[t][Len(segments[t])] \in Requests
      BY <1>1, <1>2, <3>1 DEF Admitted
    <3>5. HasSegment(t, segments[t][Len(segments[t])])
      BY <3>4 DEF HasSegment
    <3> QED
      BY <1>1, <1>2, <3>1, <3>3, <3>4, <3>5 DEF LastTerminal, OpenSegment
  <2> QED
    BY <2>1, <2>2
<1>5. CASE ReceiveReply \/ ReceiveCompleted \/ ReceiveOverflow \/ ReaderFails \/ ReaderExits
  BY <1>1, <1>5 DEF ReceiveReply, ReceiveCompleted, ReceiveOverflow, ReaderFails,
     ReaderExits, owned, promptVars, course
<1> QED
  BY <1>3, <1>4, <1>5 DEF ReaderStep

\* A failure of a prompt stays, and nobody else touches a registration.
LEMMA DeliveryRests ==
  ASSUME [Next]_vars
  PROVE  /\ failure \subseteq failure'
         /\ ~ReaderStep /\ (\A n \in Messages : ~DeliveryStep(n)) => UNCHANGED delivery
<1>1. \/ UNCHANGED failure
      \/ ReaderStep
      \/ \E n \in Messages : DeliveryStep(n)
  BY ExecFrame, SenderFrame, InterruptFrame, SDKFrame, GrokFrame
     DEF Next, Wrapper, vars, owned, promptVars
<1>2. CASE ReaderStep
  BY <1>2 DEF ReaderStep, ReceiveReply, ReceiveRunning, ReceiveAck, ReceiveCompleted,
     ReceiveOverflow, ReaderFails, ReaderExits, owned, promptVars
<1>3. ASSUME NEW n \in Messages, DeliveryStep(n) PROVE failure \subseteq failure'
  BY <1>3 DEF DeliveryStep, Deliver, GateCancelled, TakeGate, AdmissionFails,
     RegisterDelivery, SubmitInterject, InterjectUnsubmitted, InterjectWriteAborted,
     InterjectReplied, DeliverySettles, SchedulingLost, InterjectAborts, CallerReturns,
     owned, promptVars
<1>4. ~ReaderStep /\ (\A n \in Messages : ~DeliveryStep(n)) => UNCHANGED delivery
  BY ExecFrame, SenderFrame, InterruptFrame, SDKFrame, GrokFrame
     DEF Next, Wrapper, vars, owned, promptVars
<1> QED
  BY <1>1, <1>2, <1>3, <1>4

\* The lane keeps hold of every message Grok works at.
LEMMA FallbackOwnedKept ==
  ASSUME "missedDrain" \notin Faults, Books, OrderInv, FallbackAck, FallbackOwned,
         [Next]_vars
  PROVE  FallbackOwned'
<1> USE DEF Books, LaneInv, TypeOK
<1> SUFFICES ASSUME NEW m \in Messages, AtWork(m)' PROVE Owned(m)'
  BY DEF FallbackOwned
<1>1. ASSUME Owned(m), rpc[m] # "idle", target[m] \in Runs,
             delivery[target[m]] = m =>
               \/ delivery'[target[m]] = m \/ target[m] \in failure'
               \/ HasSegment(target[m], m)'
      PROVE  Owned(m)'
  <2>1. PICK t \in Runs : t = target[m] /\ t = target'[m]
    BY <1>1, TargetStays
  <2>2. HasSegment(t, m) => HasSegment(t, m)'
    <3>1. segments[t] \in Seq(Requests)
      BY DEF PromptTypeOK
    <3>2. \A i, k \in DOMAIN segments[t] :
            k \in DOMAIN Append(segments[t], i) /\ Append(segments[t], i)[k] = segments[t][k]
      BY <3>1
    <3> QED
      BY <3>2, CourseGrows DEF HasSegment
  <2>3. failure \subseteq failure'
    BY DeliveryRests
  <2> QED
    BY <1>1, <2>1, <2>2, <2>3 DEF Owned, HasSegment
<1>2. CASE AtWork(m)
  <2>1. Owned(m) /\ rpc[m] # "idle" /\ target[m] \in Runs
    BY <1>2, WorkTaken DEF FallbackOwned
  <2> QED
    BY <1>1, <1>2, <2>1, OwnedDelivery, OwnedReader, DeliveryRests
<1>3. CASE ~AtWork(m)
  <2>1. GrokStep
    BY <1>3, StreamRests, ReaderTakes DEF AtWork
  <2>2. Interjecting(m)
    BY <1>3, <2>1, NewWork
  <2>3. UNCHANGED <<delivery, failure, target>>
    BY <2>1, GrokFrame DEF GrokStep, Wrapper, owned, promptVars, sdkVars
  <2> QED
    BY <2>2, <2>3, OpenDelivery DEF Owned
<1> QED
  BY <1>2, <1>3

\* What Grok works at stays owned while the connection is open, if Grok never misses
\* its final drain.
LEMMA IdleInvariant ==
  ASSUME "missedDrain" \notin Faults
  PROVE  Spec => []IdleInv
<1>1. Init => IdleInv
  <2>1. Init => /\ DOMAIN fromNative = {} /\ running = None /\ queued = {}
                /\ \A r \in Runs : DOMAIN segments[r] = {}
    BY DEF Init, NativeInit
  <2> QED
    BY <2>1, NativeAssumption DEF IdleInv, OpenSegments, FallbackAck, FallbackOwned, AtWork,
       OpenSegment, HasSegment, Requests
<1>2. Books /\ OrderInv /\ OrderInv' /\ IdleInv /\ [Next]_vars => IdleInv'
  <2> SUFFICES ASSUME Books, OrderInv, OrderInv', IdleInv, [Next]_vars, Open'
               PROVE  OpenSegments' /\ FallbackAck' /\ FallbackOwned'
    BY DEF IdleInv
  <2>1. Open /\ OpenSegments /\ FallbackAck /\ FallbackOwned
    BY WasOpen DEF IdleInv, Books
  <2>2. Lasting
    BY NativeOrderKept DEF Books, OrderInv
  <2>3. OpenSegments'
    BY <2>1, <2>2, OpenSegmentsKept
  <2>4. FallbackAck'
    <3>1. CASE ReaderStep
      BY <2>1, <3>1, FallbackAckReader
    <3>2. CASE GrokStep
      BY <2>1, <2>2, <3>2, FallbackAckGrok
    <3>3. CASE ~ReaderStep /\ ~GrokStep
      BY <2>1, <3>3, StreamRests DEF FallbackAck, AckAt, EndedBefore, Completes, OpenSegment,
         HasSegment, AtWork
    <3> QED
      BY <3>1, <3>2, <3>3
  <2>5. FallbackOwned'
    BY <2>1, FallbackOwnedKept
  <2> QED
    BY <2>3, <2>4, <2>5
<1> QED
  BY OrderInvariant, <1>1, <1>2, PTL DEF Spec

\* What Grok works at belongs to the Run that owns the prompt.
LEMMA BusyRun ==
  ASSUME Books, OrderInv, FallbackOwned, Open, NEW r \in Runs, NativeBusyFor(r)
  PROVE  pendingPrompt = r /\ exec[r] \notin RetiredPC
<1> USE NativeAssumption DEF Books, OrderInv, LaneInv, TypeOK, Requests, Open
<1>1. ASSUME NEW i \in Runs, AtWork(i) PROVE i \in written /\ ~Over(i)
  BY <1>1 DEF AtWork, NativeOrder, Over, Begun, Taken
<1>2. ASSUME NEW m \in Messages, AtWork(m), target[m] = r
      PROVE  pendingPrompt = r /\ exec[r] \notin RetiredPC
  <2>1. m \in enqueued /\ ~Over(m) /\ Owned(m)
    BY <1>2, WorkTaken DEF FallbackOwned
  <2>2. CASE delivery[r] = m \/ r \in failure
    <3>1. Admitted(r) /\ (delivery[r] # None \/ r \in failure)
      BY <2>2 DEF Bound, OwnDelivery
    <3> QED
      BY <3>1, AdmittedBegun, OpenRun
  <2>3. CASE HasSegment(r, m)
    BY <2>1, <2>3, OpenSegmentRun DEF StreamOrder, PromptTypeOK
  <2> QED
    BY <1>2, <2>1, <2>2, <2>3 DEF Owned
<1>3. ASSUME NEW k \in DOMAIN toNative, toNative[k].type # "cancel",
             toNative[k].id \in WorkOf(r)
      PROVE  pendingPrompt = r /\ exec[r] \notin RetiredPC
  <2>1. \/ toNative[k] = Call("prompt", r)
        \/ \E m \in Messages : toNative[k] = Call("interject", m) /\ target[m] = r
    BY <1>3, WireCall DEF WorkOf
  <2>2. CASE toNative[k] = Call("prompt", r)
    <3>1. r \in written /\ ~Over(r)
      BY <2>2 DEF NativeOrder, Submitting, Over, Begun, Taken
    <3> QED
      BY <3>1, OpenRun
  <2>3. ASSUME NEW m \in Messages, toNative[k] = Call("interject", m), target[m] = r
        PROVE  pendingPrompt = r /\ exec[r] \notin RetiredPC
    <3>1. Admitted(r) /\ (delivery[r] # None \/ r \in failure)
      BY <2>3, OpenDelivery DEF Interjecting
    <3> QED
      BY <3>1, AdmittedBegun, OpenRun
  <2> QED
    BY <2>1, <2>2, <2>3
<1>4. CASE AtWork(r)
  BY <1>1, <1>4, OpenRun
<1> QED
  BY <1>2, <1>3, <1>4 DEF NativeBusyFor, WorkOf, AtWork

\* No idle worker while native work goes on behind it: a Run that returns without
\* retiring the integration has left Grok nothing to do, if Grok's final drain of
\* interjections never misses one.
THEOREM IdleLaneSafety ==
  ASSUME "missedDrain" \notin Faults
  PROVE  Spec => []NoWorkBehindIdleLane
<1>1. Books /\ OrderInv /\ IdleInv => NoWorkBehindIdleLane
  BY BusyRun DEF IdleInv, NoWorkBehindIdleLane, Open, RetiredPC
<1> QED
  BY OrderInvariant, IdleInvariant, <1>1, PTL

-----------------------------------------------------------------------------
(* What stands before a session/cancel.                                    *)

\* Grok works at i, or takes it off the wire before the call at k.
Before(i, k) ==
  \/ AtWork(i)
  \/ \E j \in DOMAIN toNative :
       j < k /\ toNative[j].type # "cancel" /\ toNative[j].id = i

\* All that comes before a cancel is work of the Run it cancels.
CancelOrder ==
  \A k \in DOMAIN toNative : toNative[k].type = "cancel" =>
    \A i \in Requests : Before(i, k) => i \in WorkOf(toNative[k].id)

\* What Grok works at, or finds on the wire, has a Run that stays the same.
LEMMA BeforeRun ==
  ASSUME Books, OrderInv, NEW k, NEW i \in Requests, Before(i, k)
  PROVE  /\ i \in Messages => rpc[i] # "idle" /\ target[i] \in Runs
         /\ \E r \in Runs : i \in WorkOf(r) /\ NativeBusyFor(r)
<1>1. ASSUME NEW m \in Messages, m = i PROVE rpc[m] # "idle" /\ target[m] \in Runs
  <2>1. CASE AtWork(m)
    BY <2>1, WorkTaken
  <2>2. ASSUME NEW j \in DOMAIN toNative, toNative[j].type # "cancel", toNative[j].id = m
        PROVE  rpc[m] # "idle" /\ target[m] \in Runs
    <3>1. m \notin Runs
      BY NativeAssumption DEF Requests
    <3>2. toNative[j] = Call("interject", m)
      BY <2>2, <3>1, WireCall DEF Books, LaneInv, TypeOK
    <3> QED
      BY <3>2, OpenDelivery DEF Interjecting
  <2> QED
    BY <1>1, <2>1, <2>2 DEF Before
<1>2. \A r \in Runs : i \in WorkOf(r) => NativeBusyFor(r)
  BY DEF Before, AtWork, NativeBusyFor
<1>3. \E r \in Runs : i \in WorkOf(r)
  BY <1>1 DEF WorkOf, Requests
<1> QED
  BY <1>1, <1>2, <1>3

\* Grok turns only to what was before every cancel that it has not read yet, if its
\* final drain misses no interjection.
LEMMA BeforeGrok ==
  ASSUME "missedDrain" \notin Faults, NativeTypeOK, GrokStep,
         NEW k \in DOMAIN toNative', NEW i \in Requests, Before(i, k)'
  PROVE  \E l \in DOMAIN toNative : toNative[l] = toNative'[k] /\ Before(i, l)
<1>1. AtWork(i)' =>
        \/ AtWork(i)
        \/ /\ toNative # <<>> /\ toNative' = Tail(toNative)
           /\ Head(toNative).type # "cancel" /\ Head(toNative).id = i
  <2>1. CASE TakePrompt \/ TakeInterject
    BY <2>1 DEF TakePrompt, TakeInterject, NextCall, AtWork
  <2>2. CASE RefuseCall \/ TakeCancel \/ Drain \/ Overflow \/ Exit
             \/ \E m \in Messages : ReplyLate(m)
    BY <2>2, NativeAssumption
       DEF RefuseCall, TakeCancel, Drain, Overflow, Exit, ReplyLate, AtWork
  <2>3. CASE EndRunning
    BY <2>3, NativeAssumption DEF EndRunning, AtWork
  <2>4. ASSUME NEW q \in Requests, StartRunning(q) PROVE AtWork(i)' => AtWork(i)
    BY <2>4 DEF StartRunning, AtWork
  <2> QED
    BY <2>1, <2>2, <2>3, <2>4
       DEF GrokStep, NativeStep, NativeFault, NativeExits, NativeWork
<1>2. UNCHANGED toNative \/ (toNative # <<>> /\ toNative' = Tail(toNative))
  BY DEF GrokStep, NativeStep, NativeFault, NativeExits, NativeWork, TakePrompt,
     RefuseCall, TakeInterject, ReplyLate, StartRunning, Drain, EndRunning, TakeCancel,
     Overflow, Exit, NextCall
<1>3. CASE UNCHANGED toNative
  <2>1. CASE AtWork(i)
    BY <1>3, <2>1 DEF Before
  <2>2. CASE ~AtWork(i) /\ AtWork(i)'
    <3>1. toNative \in Seq(CallFrame) /\ toNative # <<>> /\ toNative = Tail(toNative)
      BY <1>1, <1>3, <2>2 DEF NativeTypeOK
    <3> QED
      BY <3>1
  <2>3. CASE ~AtWork(i)'
    BY <1>3, <2>3 DEF Before
  <2> QED
    BY <2>1, <2>2, <2>3
<1>4. CASE toNative # <<>> /\ toNative' = Tail(toNative)
  <2>1. /\ \A j \in DOMAIN toNative' :
             j \in Nat /\ j > 0 /\ j + 1 \in DOMAIN toNative /\ toNative'[j] = toNative[j + 1]
        /\ 1 \in DOMAIN toNative /\ toNative[1] = Head(toNative)
    BY <1>4 DEF NativeTypeOK
  <2>2. CASE AtWork(i)
    BY <2>1, <2>2 DEF Before
  <2>3. CASE ~AtWork(i) /\ AtWork(i)'
    <3>1. toNative[1].type # "cancel" /\ toNative[1].id = i /\ 1 < k + 1
      BY <1>1, <2>1, <2>3
    <3> QED
      BY <2>1, <3>1 DEF Before
  <2>4. CASE ~AtWork(i)'
    <3>1. PICK j \in DOMAIN toNative' :
            j < k /\ toNative'[j].type # "cancel" /\ toNative'[j].id = i
      BY <2>4 DEF Before
    <3>2. /\ k \in Nat /\ j \in Nat /\ j + 1 \in DOMAIN toNative
          /\ toNative'[j] = toNative[j + 1]
      BY <2>1
    <3>3. j + 1 < k + 1
      BY <3>1, <3>2
    <3>4. Before(i, k + 1)
      BY <3>1, <3>2, <3>3 DEF Before
    <3> QED
      BY <2>1, <3>4
  <2> QED
    BY <2>2, <2>3, <2>4
<1> QED
  BY <1>2, <1>3, <1>4

\* The wrapper writes behind what is on the wire, and a cancel only for the Run whose
\* work all of it is.
LEMMA BeforeWritten ==
  ASSUME Books, OrderInv, InterruptKept, IdleInv, [Next]_vars, ~GrokStep,
         NEW k \in DOMAIN toNative', toNative'[k].type = "cancel",
         NEW i \in Requests, Before(i, k)'
  PROVE  \/ \E l \in DOMAIN toNative : toNative[l] = toNative'[k] /\ Before(i, l)
         \/ /\ i \in WorkOf(toNative'[k].id)
            /\ \E l : Before(i, l)
<1> USE DEF work
<1>0. UNCHANGED <<running, queued>> /\ toNative \in Seq(CallFrame)
  BY WrapperWrites DEF Books, LaneInv, TypeOK, NativeTypeOK
<1>1. CASE UNCHANGED toNative
  BY <1>0, <1>1 DEF Before, AtWork
<1>2. ASSUME NEW c \in CallFrame, toNative' = Append(toNative, c),
             c.type # "cancel" \/ k \in DOMAIN toNative
      PROVE  \E l \in DOMAIN toNative : toNative[l] = toNative'[k] /\ Before(i, l)
  <2>1. k \in DOMAIN toNative /\ toNative'[k] = toNative[k]
    BY <1>0, <1>2
  <2>2. \A j \in DOMAIN toNative' :
          j < k => j \in DOMAIN toNative /\ toNative'[j] = toNative[j]
    BY <1>0, <1>2, <2>1
  <2>3. Before(i, k)
    BY <1>0, <2>2 DEF Before, AtWork
  <2> QED
    BY <2>1, <2>3
<1>3. ASSUME NEW r \in Runs, SendCancel(r), conn = "open",
             toNative' = Append(toNative, Call("cancel", r))
      PROVE  \/ \E l \in DOMAIN toNative : toNative[l] = toNative'[k] /\ Before(i, l)
             \/ /\ i \in WorkOf(toNative'[k].id)
                /\ \E l : Before(i, l)
  <2>1. Call("cancel", r) \in CallFrame
    BY DEF Call, CallFrame
  <2>2. CASE k \in DOMAIN toNative
    BY <1>2, <1>3, <2>1, <2>2
  <2>3. CASE k \notin DOMAIN toNative
    <3>1. toNative'[k] = Call("cancel", r) /\ k = Len(toNative) + 1
      BY <1>0, <1>3, <2>1, <2>3
    <3>2. \A j \in DOMAIN toNative' :
            j < k => j \in DOMAIN toNative /\ toNative'[j] = toNative[j]
      BY <1>0, <1>3, <2>1, <3>1
    <3>3. Before(i, k)
      BY <1>0, <3>2 DEF Before, AtWork
    <3>4. PICK q \in Runs : i \in WorkOf(q) /\ NativeBusyFor(q)
      BY <3>3, BeforeRun
    <3>5. pendingPrompt = q
      BY <1>3, <3>4, BusyRun DEF IdleInv, Open
    <3>6. pendingPrompt = r
      BY <1>3 DEF SendCancel, InterruptKept, OrderInv, LaneHeld, RunHeld
    <3> QED
      BY <3>1, <3>3, <3>4, <3>5, <3>6 DEF Call
  <2> QED
    BY <2>2, <2>3
<1>4. ASSUME NEW r \in Runs, SubmitPrompt(r)
      PROVE  \E l \in DOMAIN toNative : toNative[l] = toNative'[k] /\ Before(i, l)
  <2>1. Call("prompt", r) \in CallFrame /\ Call("prompt", r).type # "cancel"
    BY DEF Call, CallFrame
  <2> QED
    BY <1>2, <1>4, <2>1 DEF SubmitPrompt, Write
<1>5. ASSUME NEW m \in Messages, SubmitInterject(m)
      PROVE  \E l \in DOMAIN toNative : toNative[l] = toNative'[k] /\ Before(i, l)
  <2>1. Call("interject", m) \in CallFrame /\ Call("interject", m).type # "cancel"
    BY DEF Call, CallFrame
  <2> QED
    BY <1>2, <1>5, <2>1 DEF SubmitInterject, Write
<1> QED
  BY <1>1, <1>3, <1>4, <1>5, WrapperWrites

\* All that comes before a cancel stays work of its Run, at every step.
LEMMA CancelOrderKept ==
  ASSUME "missedDrain" \notin Faults, Books, OrderInv, InterruptKept, IdleInv,
         CancelOrder, [Next]_vars
  PROVE  CancelOrder'
<1> SUFFICES ASSUME NEW k \in DOMAIN toNative', toNative'[k].type = "cancel",
                    NEW i \in Requests, Before(i, k)', NEW r, r = toNative'[k].id
             PROVE  i \in WorkOf(r)'
  BY DEF CancelOrder, WorkOf
<1>1. i \in WorkOf(r) /\ \E l : Before(i, l)
  <2>1. ASSUME NEW l \in DOMAIN toNative, toNative[l] = toNative'[k], Before(i, l)
        PROVE  i \in WorkOf(r)
    BY <2>1 DEF CancelOrder
  <2>2. CASE GrokStep
    BY <2>1, <2>2, BeforeGrok DEF Books, LaneInv, TypeOK
  <2>3. CASE ~GrokStep
    BY <2>1, <2>3, BeforeWritten
  <2> QED
    BY <2>2, <2>3
<1>2. i \in Messages => target'[i] = target[i]
  BY <1>1, BeforeRun, TargetStays DEF Books
<1> QED
  BY <1>1, <1>2 DEF WorkOf

\* A Run's session/cancel finds Grok idle or at work for that Run, never at the prompt
\* of a later one, if Grok's final drain of interjections never misses one.
THEOREM CancelSafety ==
  ASSUME "missedDrain" \notin Faults
  PROVE  Spec => []CancelFindsItsRun
<1>1. Init => CancelOrder
  <2>1. Init => DOMAIN toNative = {}
    BY DEF Init, NativeInit
  <2> QED
    BY <2>1 DEF CancelOrder
<1>2. Books /\ OrderInv /\ InterruptKept /\ IdleInv /\ CancelOrder /\ [Next]_vars
        => CancelOrder'
  BY CancelOrderKept
<1>3. Books /\ OrderInv /\ InterruptKept /\ [Next]_vars => InterruptKept'
  BY InterruptKeptNext DEF Books, OrderInv
<1>4. Books /\ CancelOrder => CancelFindsItsRun
  <2> SUFFICES ASSUME Books, CancelOrder, NextCall("cancel"), running # None
               PROVE  running \in WorkOf(Head(toNative).id)
    BY DEF CancelFindsItsRun
  <2>1. NativeTypeOK
    BY DEF Books, LaneInv, TypeOK
  <2>2. 1 \in DOMAIN toNative /\ toNative[1] = Head(toNative) /\ toNative[1].type = "cancel"
    BY <2>1 DEF NativeTypeOK, NextCall
  <2>3. running \in Requests /\ Before(running, 1)
    BY <2>1 DEF NativeTypeOK, Before, AtWork
  <2> QED
    BY <2>2, <2>3 DEF CancelOrder
<1> QED
  BY OrderInvariant, IdleInvariant, InterruptInit, <1>1, <1>2, <1>3, <1>4, PTL DEF Spec
=============================================================================
