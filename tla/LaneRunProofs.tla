--------------------------- MODULE LaneRunProofs ---------------------------
(***************************************************************************)
(* Theorems about LaneRun, for any number of Runs, any set of messages,    *)
(* any seeds and any faults.                                               *)
(*                                                                         *)
(* Next has seven kinds of step.  A frame lemma says of each kind which    *)
(* variables it leaves alone, so a proof about some variables only looks   *)
(* into the kinds, and then into the actions, that write them.             *)
(***************************************************************************)
EXTENDS LaneRun, SequenceTheorems, TLAPS

\* Two names for a value and an assignment; every step may look through them.
USE DEF BoundRun, Fail

-----------------------------------------------------------------------------
(* Frames.                                                                 *)

\* executeRun leaves Grok, the SDK and every delivery alone.
LEMMA ExecFrame ==
  ASSUME NEW r \in Runs, ExecStep(r)
  PROVE  UNCHANGED <<nativeVars, sdkVars, deliveryVars, deliveryGate, closing,
                     segments, reason, delivery, failure, written, caller, rpc,
                     callback, reader>>
<1> USE DEF outside, nativeVars, connVars, sdkVars, owned, wrapperVars, lane,
        promptVars, course, deliveryVars, goVars, execOthers, others
<1> QED
  BY DEF ExecStep, RejectRun, EnterRun, InterruptedBeforeStart, StartPrompt,
         PromptStarted, PromptNotStarted, SeedAdmitted, SeedNotAdmitted,
         CheckInterrupted, RunJoinsInterrupt, AwaitReply, CompleteRun, RunFailed,
         RunBlocks, RunUnblocks, FailOwned, FailJoinsInterrupt, ReturnRun

\* The sender writes its frame and its marks, nothing else.
LEMMA SenderFrame ==
  ASSUME NEW r \in Runs, SenderStep(r)
  PROVE  UNCHANGED <<offWire, sdkVars, wrapperVars, promptVars, senderOthers,
                     acked, derr>>
<1> USE DEF outside, nativeVars, offWire, connVars, sdkVars, owned, wrapperVars, lane,
        promptVars, course, deliveryVars, senderOthers, Write
<1> QED
  BY DEF SenderStep, SubmitPrompt, PromptUnsubmitted, PromptWriteAborted, PromptReplied

\* A delivery leaves the course of the prompt, the SDK and Grok's work alone.
LEMMA DeliveryFrame ==
  ASSUME NEW m \in Messages, DeliveryStep(m)
  PROVE  UNCHANGED <<offWire, sdkVars, pendingPrompt, closing, course, acked,
                     sender, callback, receipt, reader>>
<1> USE DEF outside, nativeVars, offWire, connVars, sdkVars, owned, wrapperVars, lane,
        promptVars, course, deliveryVars, callerOthers, rpcOthers, others, Write
<1> QED
  BY DEF DeliveryStep, Deliver, GateCancelled, TakeGate, AdmissionFails,
         RegisterDelivery, SubmitInterject, InterjectUnsubmitted,
         InterjectWriteAborted, InterjectReplied, DeliverySettles, SchedulingLost,
         InterjectAborts, CallerReturns

\* An interrupt only marks its operation, writes a cancel and wakes the Run.
LEMMA InterruptFrame ==
  ASSUME NEW r \in Runs, InterruptStep(r)
  PROVE  UNCHANGED <<offWire, written, sdkVars, wrapperVars, deliveryVars,
                     segments, reason, delivery, retiring, failure, receipt,
                     sender, caller, rpc, reader>>
<1> USE DEF outside, nativeVars, offWire, connVars, sdkVars, owned, wrapperVars, lane,
        promptVars, course, deliveryVars, callbackOthers, execOthers, others
<1> QED
  BY DEF InterruptStep, InterruptCallback, CallbackJoinsInterrupt, SendCancel

\* The reader consumes frames; it starts nothing and moves only a waiting Run.
LEMMA ReaderFrame ==
  ASSUME ReaderStep
  PROVE  UNCHANGED <<toNative, native, running, queued, buffered, enqueued, owed,
                     sdkVars, lane, retiring, interrupt, attempted, derr, others,
                     rpc, written>>
<1> USE DEF nativeVars, sdkVars, owned, wrapperVars, lane, promptVars, course,
        deliveryVars, connVars, readerOthers, others, Consume
<1>1. CASE ReceiveReply
  BY <1>1 DEF ReceiveReply
<1>2. CASE ReceiveRunning
  BY <1>2 DEF ReceiveRunning
<1>3. CASE ReceiveAck
  BY <1>3 DEF ReceiveAck
<1>4. CASE ReceiveCompleted
  BY <1>4 DEF ReceiveCompleted
<1>5. CASE ReceiveOverflow
  BY <1>5 DEF ReceiveOverflow
<1>6. CASE ReaderExits
  BY <1>6 DEF ReaderExits
<1>7. CASE ReaderFails
  BY <1>7 DEF ReaderFails
<1> QED
  BY <1>1, <1>2, <1>3, <1>4, <1>5, <1>6, <1>7 DEF ReaderStep

\* The SDK starts callbacks and ends contexts; the closing mark is Close's.
LEMMA SDKFrame ==
  ASSUME SDKStep
  PROVE  UNCHANGED <<nativeVars, connVars, run, pendingPrompt, nativeFailure,
                     deliveryGate, promptVars, deliveryVars, exec, receipt,
                     sender, rpc, reader>>
<1> USE DEF outside, connVars, nativeVars, sdkVars, owned, wrapperVars, lane, goVars,
        callerOthers, callbackOthers, others, Step
<1> QED
  BY DEF SDKStep, CaptureRun, CancelCaller, InterruptRun, CancelRun, FinishRun, Close

\* Grok's own steps change nothing of the wrapper.
LEMMA GrokFrame ==
  ASSUME NativeStep \/ NativeFault \/ NativeExits
  PROVE  Wrapper
  BY DEF NativeStep, NativeFault, NativeExits

-----------------------------------------------------------------------------
(* Types.                                                                  *)

\* A variable group keeps its type while nothing of it changes.
LEMMA TypeStutter ==
  /\ NativeTypeOK /\ UNCHANGED nativeVars => NativeTypeOK'
  /\ WrapperTypeOK /\ UNCHANGED wrapperVars => WrapperTypeOK'
  /\ PromptTypeOK /\ UNCHANGED promptVars => PromptTypeOK'
  /\ DeliveryTypeOK /\ UNCHANGED deliveryVars => DeliveryTypeOK'
  /\ GoTypeOK /\ UNCHANGED goVars => GoTypeOK'
  /\ ConnTypeOK /\ UNCHANGED connVars => ConnTypeOK'
  /\ SDKTypeOK /\ UNCHANGED sdkVars => SDKTypeOK'
<1> USE DEF wrapperVars, lane, promptVars, course, goVars, others
<1>1. NativeTypeOK /\ UNCHANGED nativeVars => NativeTypeOK'
  BY DEF NativeTypeOK, nativeVars
<1>2. WrapperTypeOK /\ UNCHANGED wrapperVars => WrapperTypeOK'
  BY DEF WrapperTypeOK
<1>3. PromptTypeOK /\ UNCHANGED promptVars => PromptTypeOK'
  BY DEF PromptTypeOK
<1>4. DeliveryTypeOK /\ UNCHANGED deliveryVars => DeliveryTypeOK'
  BY DEF DeliveryTypeOK, deliveryVars
<1>5. GoTypeOK /\ UNCHANGED goVars => GoTypeOK'
  BY DEF GoTypeOK
<1>6. ConnTypeOK /\ UNCHANGED connVars => ConnTypeOK'
  BY DEF ConnTypeOK, connVars
<1>7. SDKTypeOK /\ UNCHANGED sdkVars => SDKTypeOK'
  BY DEF SDKTypeOK, sdkVars
<1> QED
  BY <1>1, <1>2, <1>3, <1>4, <1>5, <1>6, <1>7

\* finish answers every pending request and no other.
LEMMA FinishType ==
  ASSUME ConnTypeOK, Finish
  PROVE  /\ conn' \in {"open", "done"}
         /\ reply' \in [Requests -> {"none", "pending", "ok", "refused", "lost", "drained"}]
  BY DEF ConnTypeOK, Finish

\* Waking a Run that waits leaves every pc a pc.
LEMMA SignalType ==
  ASSUME GoTypeOK, NEW r, Signal(r)
  PROVE  exec' \in [Runs -> ExecPC]
  BY DEF GoTypeOK, Signal, Woken, ExecPC

\* releaseDelivery gives the token back or does nothing.
LEMMA ReleaseType ==
  ASSUME GoTypeOK, PromptTypeOK, WrapperTypeOK, NEW t, NEW d, Release(t, d)
  PROVE  /\ exec' \in [Runs -> ExecPC]
         /\ delivery' \in [Runs -> Messages \cup {None}]
         /\ deliveryGate' \in BOOLEAN
  BY SignalType DEF Release, PromptTypeOK, WrapperTypeOK, GoTypeOK

\* A step of executeRun keeps every variable in its type.
LEMMA ExecType ==
  ASSUME TypeOK, NEW r \in Runs, ExecStep(r)
  PROVE  TypeOK'
<1> USE DEF TypeOK
<1>1. NativeTypeOK' /\ DeliveryTypeOK' /\ SDKTypeOK'
  BY ExecFrame, TypeStutter
<1> USE ExecFrame DEF outside, owned, ExecStep, RejectRun, EnterRun,
        InterruptedBeforeStart, StartPrompt, PromptStarted, PromptNotStarted,
        SeedAdmitted, SeedNotAdmitted, CheckInterrupted, RunJoinsInterrupt,
        AwaitReply, CompleteRun, RunFailed, RunBlocks, RunUnblocks, FailOwned,
        FailJoinsInterrupt, ReturnRun
<1>2. WrapperTypeOK'
  BY DEF WrapperTypeOK, wrapperVars, lane, RetiredRun, PendingFailure
<1>3. PromptTypeOK'
  BY DEF PromptTypeOK, promptVars, course
<1>4. GoTypeOK'
  <2> USE DEF goVars, execOthers, others
  <2>1. exec' \in [Runs -> ExecPC]
    BY DEF GoTypeOK, ExecPC, Go
  <2>2. receipt' \in [Runs -> {"none", "rejected", "injected", "uncertain"}]
    BY DEF GoTypeOK, SeedRejected, SeedUncertain, Reported
  <2>3. sender' \in [Runs -> {"idle", "submit", "reply", "done"}]
    BY DEF GoTypeOK
  <2> QED
    BY <2>1, <2>2, <2>3 DEF GoTypeOK
<1>5. ConnTypeOK'
  <2>1. Finish \/ UNCHANGED <<conn, reply>>
    BY DEF connVars, PendingFailure
  <2> QED
    BY <2>1, FinishType DEF ConnTypeOK
<1> QED
  BY <1>1, <1>2, <1>3, <1>4, <1>5

\* So does a step of the sender of session/prompt,
LEMMA SenderType ==
  ASSUME TypeOK, NEW r \in Runs, SenderStep(r)
  PROVE  TypeOK'
<1> USE DEF TypeOK
<1>1. WrapperTypeOK' /\ PromptTypeOK' /\ SDKTypeOK'
  BY SenderFrame, TypeStutter
<1> USE SenderFrame DEF outside, owned, SenderStep, SubmitPrompt, PromptUnsubmitted,
        PromptWriteAborted, PromptReplied, Write
<1>2. NativeTypeOK'
  <2>1. toNative' \in Seq(CallFrame)
    BY SMTT(60) DEF NativeTypeOK, nativeVars, Call, CallFrame
  <2> QED
    BY <2>1 DEF NativeTypeOK, nativeVars, offWire
<1>3. DeliveryTypeOK' /\ GoTypeOK'
  BY DEF DeliveryTypeOK, deliveryVars, GoTypeOK, senderOthers, Requests
<1>4. ConnTypeOK'
  BY FinishType DEF ConnTypeOK, connVars, Requests
<1> QED
  BY <1>1, <1>2, <1>3, <1>4

\* a step of an interrupt,
LEMMA InterruptType ==
  ASSUME TypeOK, NEW r \in Runs, InterruptStep(r)
  PROVE  TypeOK'
<1> USE DEF TypeOK
<1>1. WrapperTypeOK' /\ DeliveryTypeOK' /\ SDKTypeOK'
  BY InterruptFrame, TypeStutter
<1> USE InterruptFrame DEF outside, owned, InterruptStep, InterruptCallback,
        CallbackJoinsInterrupt, SendCancel
<1>2. NativeTypeOK'
  <2>1. toNative' \in Seq(CallFrame)
    <3>1. Call("cancel", r) \in CallFrame
      BY DEF Call, CallFrame
    <3>2. UNCHANGED toNative \/ toNative' = Append(toNative, Call("cancel", r))
      BY DEF nativeVars
    <3> QED
      BY <3>1, <3>2 DEF NativeTypeOK
  <2> QED
    BY <2>1 DEF NativeTypeOK, nativeVars, offWire
<1>3. PromptTypeOK'
  BY DEF PromptTypeOK, promptVars, course
<1>4. GoTypeOK'
  <2>1. exec' \in [Runs -> ExecPC]
    BY SignalType DEF GoTypeOK, callbackOthers
  <2> QED
    BY <2>1 DEF GoTypeOK, callbackOthers, execOthers, others
<1>5. ConnTypeOK'
  <2>1. Finish \/ UNCHANGED <<conn, reply>>
    BY DEF connVars
  <2> QED
    BY <2>1, FinishType DEF ConnTypeOK
<1> QED
  BY <1>1, <1>2, <1>3, <1>4, <1>5

\* a step of the SDK around the wrapper,
LEMMA SDKType ==
  ASSUME TypeOK, SDKStep
  PROVE  TypeOK'
<1> USE DEF TypeOK
<1>1. NativeTypeOK' /\ PromptTypeOK' /\ DeliveryTypeOK' /\ ConnTypeOK'
  BY SDKFrame, TypeStutter
<1> USE SDKFrame DEF owned, wrapperVars, lane, goVars, callerOthers, callbackOthers,
        others, Step, SDKStep, CaptureRun, CancelCaller, InterruptRun, CancelRun,
        FinishRun, Close
<1>2. WrapperTypeOK'
  BY DEF WrapperTypeOK
<1>3. GoTypeOK'
  BY DEF GoTypeOK, CallerPC
<1>4. SDKTypeOK'
  BY DEF SDKTypeOK, outside, sdkVars
<1> QED
  BY <1>1, <1>2, <1>3, <1>4

\* a step of a delivery callback or of its RPC, whose prompt CallerBound names,
LEMMA DeliveryType ==
  ASSUME TypeOK, CallerBound, NEW m \in Messages, DeliveryStep(m)
  PROVE  TypeOK'
<1> USE DEF TypeOK
<1>1. SDKTypeOK'
  BY DeliveryFrame, TypeStutter
<1> USE DeliveryFrame DEF outside, owned, DeliveryStep, Deliver, GateCancelled, TakeGate,
        AdmissionFails, RegisterDelivery, SubmitInterject, InterjectUnsubmitted,
        InterjectWriteAborted, InterjectReplied, DeliverySettles, SchedulingLost,
        InterjectAborts, CallerReturns
<1>2. NativeTypeOK'
  <2>1. toNative' \in Seq(CallFrame)
    <3>1. Call("interject", m) \in CallFrame
      BY DEF Call, CallFrame
    <3>2. UNCHANGED toNative \/ toNative' = Append(toNative, Call("interject", m))
      BY DEF nativeVars, Write
    <3> QED
      BY <3>1, <3>2 DEF NativeTypeOK
  <2> QED
    BY <2>1 DEF NativeTypeOK, offWire
<1>3. WrapperTypeOK'
  BY ReleaseType DEF WrapperTypeOK, wrapperVars, lane, RetiredRun, PendingFailure
<1>4. PromptTypeOK'
  <2>1. delivery' \in [Runs -> Messages \cup {None}]
    BY ReleaseType DEF PromptTypeOK, promptVars
  <2>2. failure' \subseteq Runs
    BY DEF PromptTypeOK, promptVars, CallerBound
  <2> QED
    BY <2>1, <2>2 DEF PromptTypeOK, course
<1>5. DeliveryTypeOK'
  BY DEF DeliveryTypeOK, deliveryVars, Requests, Refusals
<1>6. GoTypeOK'
  <2> USE DEF callerOthers, rpcOthers, others
  <2>1. exec' \in [Runs -> ExecPC]
    BY ReleaseType, SignalType DEF GoTypeOK
  <2>2. caller' \in [Messages -> CallerPC \cup Receipts \cup {"none"}]
    BY DEF GoTypeOK, DeliveryTypeOK, Step, CallerOutcome, CallerPC, Receipts, Refusals
  <2>3. rpc' \in [Messages -> {"idle", "submit", "reply", "settle", "abort", "done"}]
    BY DEF GoTypeOK
  <2> QED
    BY <2>1, <2>2, <2>3 DEF GoTypeOK
<1>7. ConnTypeOK'
  BY FinishType DEF ConnTypeOK, connVars, Write, PendingFailure, Requests
<1> QED
  BY <1>1, <1>2, <1>3, <1>4, <1>5, <1>6, <1>7

\* the reader with any frame,
LEMMA ReaderType ==
  ASSUME TypeOK, ReaderStep
  PROVE  TypeOK'
<1> USE DEF TypeOK
<1>1. SDKTypeOK'
  BY ReaderFrame, TypeStutter
<1>2. NativeTypeOK'
  <2>1. UNCHANGED fromNative \/ (fromNative # <<>> /\ fromNative' = Tail(fromNative))
    BY DEF nativeVars, ReaderStep, ReceiveReply, ReceiveRunning, ReceiveAck,
           ReceiveCompleted, ReceiveOverflow, ReaderFails, ReaderExits, NextFrame,
           Consume
  <2>2. fromNative' \in Seq(NativeFrame)
    BY <2>1 DEF NativeTypeOK
  <2> QED
    BY <2>2, ReaderFrame DEF NativeTypeOK
<1>3. WrapperTypeOK' /\ PromptTypeOK' /\ GoTypeOK' /\ ConnTypeOK' /\ DeliveryTypeOK'
  <2>1. CASE ReceiveReply
    <3>1. Head(fromNative) \in NativeFrame /\ Head(fromNative).type = "reply"
      BY <2>1 DEF ReceiveReply, NextFrame, NativeTypeOK
    <3>2. Head(fromNative).status \in {"ok", "refused"}
      BY <3>1 DEF NativeFrame
    <3> QED
      BY <2>1, <3>2, TypeStutter, ReaderFrame DEF ReceiveReply, owned, readerOthers,
         ConnTypeOK, GoTypeOK, Consume, others
  <2>2. CASE ReceiveRunning
    <3>1. Head(fromNative).id \in Requests
      BY <2>2 DEF ReceiveRunning, NextFrame, NativeTypeOK, NativeFrame, Requests
    <3>2. segments' \in [Runs -> Seq(Requests)]
      <4>1. \/ UNCHANGED segments
            \/ \E t \in Runs :
                 segments' = [segments EXCEPT ![t] = Append(segments[t],
                       Head(fromNative).id)]
        BY <2>2 DEF ReceiveRunning, WrapperTypeOK
      <4>2. \A t \in Runs : Append(segments[t], Head(fromNative).id) \in Seq(Requests)
        BY <3>1 DEF PromptTypeOK
      <4> QED
        BY <4>1, <4>2 DEF PromptTypeOK
    <3>3. exec' \in [Runs -> ExecPC] /\ delivery' \in [Runs -> Messages \cup {None}]
          /\ deliveryGate' \in BOOLEAN
      BY <2>2, ReleaseType, SignalType DEF ReceiveRunning, PromptTypeOK, WrapperTypeOK,
            GoTypeOK
    <3>4. failure' \subseteq Runs
      BY <2>2 DEF ReceiveRunning, PromptTypeOK, WrapperTypeOK
    <3>5. reader' \in {"reading", "failing", "exited"}
      BY <2>2 DEF ReceiveRunning, Consume, GoTypeOK
    <3>6. UNCHANGED <<connVars, nativeFailure, reason, deliveryVars>>
      BY <2>2 DEF ReceiveRunning
    <3> QED
      BY <3>2, <3>3, <3>4, <3>5, <3>6, ReaderFrame, TypeStutter
         DEF WrapperTypeOK, PromptTypeOK, GoTypeOK, lane, others
  <2>3. CASE ReceiveAck
    <3>1. Head(fromNative) \in NativeFrame /\ Head(fromNative).type = "ack"
      BY <2>3 DEF ReceiveAck, NextFrame, NativeTypeOK
    <3>2. Head(fromNative).id \in Messages
      BY <3>1 DEF NativeFrame
    <3>3. exec' \in [Runs -> ExecPC] /\ delivery' \in [Runs -> Messages \cup {None}]
          /\ deliveryGate' \in BOOLEAN /\ acked' \subseteq Messages
      BY <2>3, <3>2, ReleaseType DEF ReceiveAck, PromptTypeOK, WrapperTypeOK, GoTypeOK,
            DeliveryTypeOK
    <3>4. /\ reader' \in {"reading", "failing", "exited"}
          /\ UNCHANGED <<connVars, course, nativeFailure, failure>>
      BY <2>3 DEF ReceiveAck, Consume, GoTypeOK
    <3> QED
      BY <3>3, <3>4, ReaderFrame, TypeStutter
         DEF WrapperTypeOK, PromptTypeOK, GoTypeOK, DeliveryTypeOK, lane, course, others
  <2>4. CASE ReceiveCompleted
    <3>1. Head(fromNative) \in NativeFrame /\ Head(fromNative).type = "completed"
      BY <2>4 DEF ReceiveCompleted, NextFrame, NativeTypeOK
    <3>2. Head(fromNative).status \in {"end_turn", "cancelled"}
      BY <3>1 DEF NativeFrame
    <3>3. exec' \in [Runs -> ExecPC]
      BY <2>4, SignalType DEF ReceiveCompleted, GoTypeOK
    <3>4. /\ reason' \in [Requests -> {"open", "end_turn", "cancelled"}]
          /\ reader' \in {"reading", "failing", "exited"}
          /\ UNCHANGED <<connVars, wrapperVars, deliveryVars, segments, delivery, failure>>
      BY <2>4, <3>2 DEF ReceiveCompleted, Consume, GoTypeOK, PromptTypeOK
    <3> QED
      BY <3>3, <3>4, ReaderFrame, TypeStutter DEF PromptTypeOK, GoTypeOK, others
  <2>5. CASE ReceiveOverflow
    <3>1. exec' \in [Runs -> ExecPC]
      BY <2>5, SignalType DEF ReceiveOverflow, GoTypeOK
    <3>2. UNCHANGED <<connVars, nativeFailure>>
      BY <2>5 DEF ReceiveOverflow
    <3>3. failure' \subseteq Runs
      BY <2>5 DEF ReceiveOverflow, PromptTypeOK, WrapperTypeOK
    <3>4. /\ reader' \in {"reading", "failing", "exited"}
          /\ UNCHANGED <<course, deliveryVars, deliveryGate, delivery>>
      BY <2>5 DEF ReceiveOverflow, Consume, GoTypeOK
    <3> QED
      BY <3>1, <3>2, <3>3, <3>4, ReaderFrame, TypeStutter
         DEF WrapperTypeOK, PromptTypeOK, GoTypeOK, lane, course, others
  <2>6. CASE ReaderExits
    <3>1. UNCHANGED <<owned, readerOthers>> /\ reader' = "exited" /\ Finish
      BY <2>6 DEF ReaderExits
    <3> QED
      BY <3>1, ReaderFrame, FinishType, TypeStutter
         DEF owned, readerOthers, GoTypeOK, ConnTypeOK, others
  <2>7. CASE ReaderFails
    <3>1. /\ nativeFailure' = TRUE /\ reader' = "exited" /\ Finish
          /\ UNCHANGED <<lane, deliveryGate, promptVars, deliveryVars, readerOthers>>
      BY <2>7 DEF ReaderFails, PendingFailure
    <3> QED
      BY <3>1, ReaderFrame, FinishType, TypeStutter
         DEF readerOthers, WrapperTypeOK, GoTypeOK, ConnTypeOK, lane, others
  <2> QED
    BY <2>1, <2>2, <2>3, <2>4, <2>5, <2>6, <2>7 DEF ReaderStep
<1> QED
  BY <1>1, <1>2, <1>3

\* One or two more frames leave the stream a stream of frames.
LEMMA EmitType ==
  ASSUME NativeTypeOK, NEW f \in NativeFrame, NEW g \in NativeFrame,
         Emit(<<f>>) \/ Emit(<<f, g>>)
  PROVE  fromNative' \in Seq(NativeFrame)
<1>1. <<f>> \in Seq(NativeFrame) /\ <<f, g>> \in Seq(NativeFrame)
  OBVIOUS
<1> QED
  BY <1>1, ConcatProperties DEF NativeTypeOK, Emit

\* What Grok emits is a frame of the type the reader expects.
LEMMA FrameType ==
  ASSUME NEW x \in Requests
  PROVE  /\ Frame("running", x, "ok") \in NativeFrame
         /\ Frame("chunk", x, "ok") \in NativeFrame
         /\ Frame("reply", x, "ok") \in NativeFrame
         /\ Frame("reply", x, "refused") \in NativeFrame
         /\ Frame("completed", x, "end_turn") \in NativeFrame
         /\ Frame("completed", x, "cancelled") \in NativeFrame
         /\ x \in Messages => Frame("ack", x, "ok") \in NativeFrame
  BY DEF Frame, NativeFrame

\* The frames that end a prompt are two frames at most.
LEMMA EndType ==
  ASSUME NativeTypeOK, NEW x \in Requests, NEW why \in {"end_turn", "cancelled"},
         NEW frames \in EndFrames(x, why), Emit(frames)
  PROVE  fromNative' \in Seq(NativeFrame)
<1> DEFINE f == Frame("completed", x, why)
           g == Frame("reply", x, "ok")
<1>1. f \in NativeFrame /\ g \in NativeFrame
  BY FrameType
<1>2. frames \in {<<f>>, <<f, g>>, <<g, f>>}
  BY DEF EndFrames
<1> HIDE DEF f, g
<1> QED
  BY <1>1, <1>2, EmitType

\* The frame the wrapper wrote first names what its type says.
LEMMA CallType ==
  ASSUME NativeTypeOK, toNative # <<>>
  PROVE  /\ Tail(toNative) \in Seq(CallFrame)
         /\ Head(toNative).id \in Requests
         /\ Head(toNative).type = "interject" => Head(toNative).id \in Messages
<1>1. Head(toNative) \in CallFrame /\ Tail(toNative) \in Seq(CallFrame)
  BY DEF NativeTypeOK
<1> QED
  BY <1>1 DEF CallFrame, Requests

\* Grok's steps only move frames and prompts about.
LEMMA NativeType ==
  ASSUME TypeOK, NativeStep \/ NativeFault \/ NativeExits
  PROVE  TypeOK'
<1>1. /\ WrapperTypeOK' /\ PromptTypeOK' /\ DeliveryTypeOK' /\ GoTypeOK'
      /\ ConnTypeOK' /\ SDKTypeOK'
  BY GrokFrame, TypeStutter DEF TypeOK, Wrapper, owned
<1>2. NativeTypeOK'
  <2>0. NativeTypeOK
    BY DEF TypeOK
  <2> USE <2>0, CallType DEF NativeTypeOK, NextCall
  <2>1. CASE TakePrompt
    BY <2>1 DEF TakePrompt
  <2>2. CASE TakeInterject
    BY <2>2, FrameType, EmitType DEF TakeInterject, Requests
  <2>3. CASE TakeCancel
    BY <2>3, EndType DEF TakeCancel
  <2>4. CASE Drain
    BY <2>4 DEF Drain
  <2>5. CASE EndRunning
    BY <2>5, EndType DEF EndRunning, Requests
  <2>6. ASSUME NEW m \in Messages, ReplyLate(m) PROVE NativeTypeOK'
    BY <2>6, FrameType, EmitType DEF ReplyLate, Requests
  <2>7. ASSUME NEW i \in Requests, StartRunning(i) PROVE NativeTypeOK'
    BY <2>7, FrameType, EmitType DEF StartRunning
  <2>8. CASE RefuseCall
    BY <2>8, FrameType, EmitType DEF RefuseCall
  <2>9. CASE Overflow
    BY <2>9, FrameType, EmitType DEF Overflow
  <2>10. CASE Exit
    BY <2>10 DEF Exit
  <2> QED
    BY <2>1, <2>2, <2>3, <2>4, <2>5, <2>6, <2>7, <2>8, <2>9, <2>10
       DEF NativeStep, NativeFault, NativeExits, NativeWork
<1> QED
  BY <1>1, <1>2 DEF TypeOK

-----------------------------------------------------------------------------
(* The inductive invariant.                                                *)

\* TypeOK, the gate, and the books that make them and the receipts inductive.
LaneInv == TypeOK /\ GateConserved /\ CallerBound /\ RpcAccounted /\ SeedAccounted

\* The invariant holds when the worker starts.
LEMMA LaneInit == Init => LaneInv
<1> SUFFICES ASSUME Init PROVE LaneInv
  OBVIOUS
<1> USE NativeAssumption, LaneAssumption DEF Init, NativeInit
<1>1. NativeTypeOK
  BY DEF NativeTypeOK
<1>2. WrapperTypeOK /\ DeliveryTypeOK /\ SDKTypeOK /\ ConnTypeOK
  BY DEF WrapperTypeOK, DeliveryTypeOK, SDKTypeOK, ConnTypeOK
<1>3. PromptTypeOK
  BY DEF PromptTypeOK
<1>4. GoTypeOK
  BY DEF GoTypeOK, ExecPC, CallerPC
<1>5. GateConserved
  BY DEF GateConserved
<1>6. CallerBound /\ RpcAccounted /\ SeedAccounted
  BY DEF CallerBound, RpcAccounted, SeedAccounted
<1> QED
  BY <1>1, <1>2, <1>3, <1>4, <1>5, <1>6 DEF LaneInv, TypeOK

\* Every step keeps the types,
LEMMA TypeKept == LaneInv /\ [Next]_vars => TypeOK'
<1> SUFFICES ASSUME LaneInv, [Next]_vars PROVE TypeOK'
  OBVIOUS
<1> USE DEF LaneInv
<1>1. CASE Next
  BY <1>1, ExecType, SenderType, InterruptType, DeliveryType, ReaderType, SDKType,
     NativeType DEF Next
<1>2. CASE UNCHANGED vars
  BY <1>2, TypeStutter DEF TypeOK, vars, outside, owned
<1> QED
  BY <1>1, <1>2

\* releaseDelivery moves the token from the registered delivery to the channel.
LEMMA ReleaseGate ==
  ASSUME TypeOK, GateConserved, NEW t \in Runs, NEW d \in Messages, Release(t, d),
         UNCHANGED caller
  PROVE  GateConserved'
<1>1. CASE delivery[t] # d
  BY <1>1 DEF Release, GateConserved
<1>2. CASE delivery[t] = d
  <2>1. d # None
    BY NativeAssumption DEF Requests
  <2>2. \A q \in Runs : q # t => delivery[q] = None
    BY <1>2, <2>1 DEF GateConserved
  <2>3. \A m \in Messages : caller[m] # "admission"
    BY <1>2, <2>1 DEF GateConserved
  <2>4. deliveryGate' /\ \A q \in Runs : delivery'[q] = None
    BY <1>2, <2>2 DEF Release, TypeOK, PromptTypeOK
  <2> QED
    BY <2>3, <2>4 DEF GateConserved
<1> QED
  BY <1>1, <1>2

\* the token of deliveryGate in one place,
LEMMA GateKept == LaneInv /\ [Next]_vars => GateConserved'
<1> SUFFICES ASSUME LaneInv, [Next]_vars PROVE GateConserved'
  OBVIOUS
<1> USE DEF LaneInv
<1>0. UNCHANGED <<deliveryGate, delivery, caller>> => GateConserved'
  BY DEF GateConserved
<1>1. ASSUME NEW r \in Runs, ExecStep(r) \/ SenderStep(r) \/ InterruptStep(r)
      PROVE  GateConserved'
  BY <1>0, <1>1, ExecFrame, SenderFrame, InterruptFrame
     DEF wrapperVars, promptVars, senderOthers
<1>2. ASSUME NEW m \in Messages, DeliveryStep(m) PROVE GateConserved'
  <2> USE DEF TypeOK, GoTypeOK, Step
  <2>1. CASE Deliver(m)
    BY <2>1 DEF Deliver, GateConserved, promptVars
  <2>2. CASE GateCancelled(m) \/ CallerReturns(m)
    <3>1. CallerOutcome(m) # "admission"
      BY DEF CallerOutcome, DeliveryTypeOK, Refusals
    <3>2. PICK c : c # "admission" /\ caller' = [caller EXCEPT ![m] = c]
      BY <2>2, <3>1 DEF GateCancelled, CallerReturns, Step
    <3>3. UNCHANGED <<delivery, deliveryGate>>
      BY <2>2 DEF GateCancelled, CallerReturns, owned, wrapperVars, promptVars
    <3>4. caller[m] # "admission"
      BY <2>2 DEF GateCancelled, CallerReturns
    <3> QED
      BY <3>2, <3>3, <3>4 DEF GateConserved
  <2>3. CASE TakeGate(m)
    <3>1. deliveryGate /\ UNCHANGED delivery
      BY <2>3 DEF TakeGate, promptVars
    <3>2. \A n \in Messages : caller[n] # "admission"
      BY <3>1 DEF GateConserved
    <3>3. \A r \in Runs : delivery[r] = None
      BY <3>1 DEF GateConserved
    <3>4. \/ caller' = [caller EXCEPT ![m] = "notRunning"] /\ deliveryGate'
          \/ caller' = [caller EXCEPT ![m] = "admission"] /\ ~deliveryGate'
      BY <2>3, <3>1 DEF TakeGate
    <3> QED
      BY <3>1, <3>2, <3>3, <3>4 DEF GateConserved
  <2>4. CASE AdmissionFails(m)
    BY <2>4 DEF AdmissionFails, GateConserved, promptVars
  <2>5. CASE RegisterDelivery(m)
    <3>1. target[m] \in Runs
      BY <2>5 DEF RegisterDelivery, CallerBound
    <3>2. caller[m] = "admission"
      BY <2>5 DEF RegisterDelivery
    <3>3. \A n \in Messages : caller[n] = "admission" => n = m
      BY <3>2 DEF GateConserved
    <3>4. ~deliveryGate /\ \A r \in Runs : delivery[r] = None
      BY <3>2 DEF GateConserved
    <3>5. m # None
      BY NativeAssumption DEF Requests
    <3>6. \/ deliveryGate' /\ UNCHANGED delivery
          \/ delivery' = [delivery EXCEPT ![target[m]] = m] /\ UNCHANGED deliveryGate
      BY <2>5 DEF RegisterDelivery
    <3>7. \A n \in Messages : caller'[n] # "admission"
      BY <2>5, <3>3 DEF RegisterDelivery
    <3>8. CASE deliveryGate' /\ UNCHANGED delivery
      BY <3>4, <3>7, <3>8 DEF GateConserved
    <3>9. CASE delivery' = [delivery EXCEPT ![target[m]] = m] /\ UNCHANGED deliveryGate
      <4>1. \A r \in Runs : delivery'[r] = IF r = target[m] THEN m ELSE None
        BY <3>4, <3>9 DEF PromptTypeOK
      <4> QED
        BY <3>1, <3>4, <3>5, <3>7, <3>9, <4>1 DEF GateConserved
    <3> QED
      BY <3>6, <3>8, <3>9
  <2>6. CASE InterjectUnsubmitted(m) \/ InterjectReplied(m) \/ SchedulingLost(m)
    <3>1. target[m] \in Runs
      BY <2>6 DEF InterjectUnsubmitted, InterjectReplied, SchedulingLost, CallerBound
    <3>2. Release(target[m], m) \/ UNCHANGED <<deliveryGate, delivery>>
      BY <2>6 DEF InterjectUnsubmitted, InterjectReplied, SchedulingLost
    <3>3. UNCHANGED caller
      BY <2>6 DEF InterjectUnsubmitted, InterjectReplied, SchedulingLost, others
    <3> QED
      BY <1>0, <3>1, <3>2, <3>3, ReleaseGate
  <2>7. CASE SubmitInterject(m) \/ InterjectWriteAborted(m) \/ DeliverySettles(m)
             \/ InterjectAborts(m)
    BY <1>0, <2>7 DEF SubmitInterject, InterjectWriteAborted, DeliverySettles,
          InterjectAborts,
       owned, wrapperVars, promptVars, rpcOthers, others
  <2> QED
    BY <1>2, <2>1, <2>2, <2>3, <2>4, <2>5, <2>6, <2>7 DEF DeliveryStep
<1>3. CASE ReaderStep
  <2>0. UNCHANGED caller
    BY <1>3, ReaderFrame DEF others
  <2>1. CASE ReceiveRunning \/ ReceiveAck
    <3> DEFINE x == Head(fromNative).id
    <3>1. \/ UNCHANGED <<deliveryGate, delivery>>
          \/ pendingPrompt # None /\ delivery[pendingPrompt] = x /\ Release(pendingPrompt, x)
      BY <2>1 DEF ReceiveRunning, ReceiveAck, BindsDelivery
    <3>2. x \in Requests
      <4>1. Head(fromNative) \in NativeFrame
        BY <2>1 DEF ReceiveRunning, ReceiveAck, NextFrame, TypeOK, NativeTypeOK
      <4> QED
        BY <4>1 DEF NativeFrame, Requests
    <3>3. CASE pendingPrompt # None /\ delivery[pendingPrompt] = x /\ Release(pendingPrompt, x)
      <4>1. pendingPrompt \in Runs /\ x \in Messages
        BY <3>2, <3>3, NativeAssumption DEF TypeOK, WrapperTypeOK, PromptTypeOK
      <4> HIDE DEF x
      <4> QED
        BY <2>0, <3>3, <4>1, ReleaseGate
    <3> QED
      BY <1>0, <2>0, <3>1, <3>3
  <2>2. CASE ReceiveReply \/ ReceiveCompleted \/ ReceiveOverflow
           \/ ReaderFails \/ ReaderExits
    BY <1>0, <2>0, <2>2 DEF ReceiveReply, ReceiveCompleted, ReceiveOverflow,
       ReaderFails, PendingFailure, ReaderExits,
       owned, wrapperVars, promptVars
  <2> QED
    BY <1>3, <2>1, <2>2 DEF ReaderStep
<1>4. CASE SDKStep
  <2>1. UNCHANGED <<deliveryGate, delivery>>
    BY <1>4, SDKFrame DEF promptVars
  <2>2. UNCHANGED caller \/ \E m \in Messages : caller' = [caller EXCEPT ![m] = "captured"] /\ caller[m] = "idle"
    BY <1>4 DEF SDKStep, CaptureRun, CancelCaller, InterruptRun, CancelRun, FinishRun,
          Close,
       goVars, others, callbackOthers, Step
  <2> QED
    BY <2>1, <2>2 DEF GateConserved, TypeOK, GoTypeOK
<1>5. CASE NativeStep \/ NativeFault \/ NativeExits
  BY <1>0, <1>5, GrokFrame DEF Wrapper, owned, wrapperVars, promptVars, goVars, others
<1>6. CASE UNCHANGED vars
  BY <1>0, <1>6 DEF vars, owned, wrapperVars, promptVars, goVars, others
<1> QED
  BY <1>1, <1>2, <1>3, <1>4, <1>5, <1>6 DEF Next

\* Acknowledgements are never taken back.
LEMMA AckedGrows ==
  ASSUME Next
  PROVE  acked \subseteq acked'
<1>1. ASSUME ReaderStep PROVE acked \subseteq acked'
  BY <1>1 DEF ReaderStep, ReceiveReply, ReceiveRunning, ReceiveAck, ReceiveCompleted,
     ReceiveOverflow, ReaderFails, ReaderExits, owned, deliveryVars
<1> QED
  BY <1>1, ExecFrame, SenderFrame, InterruptFrame, DeliveryFrame, SDKFrame, GrokFrame
     DEF Next, deliveryVars, Wrapper, owned

\* the books of the callers,
LEMMA CallerBoundKept == LaneInv /\ [Next]_vars => CallerBound'
<1> SUFFICES ASSUME LaneInv, [Next]_vars PROVE CallerBound'
  OBVIOUS
<1> USE DEF LaneInv
<1>0. UNCHANGED <<caller, rpc, target, derr>> /\ acked \subseteq acked' => CallerBound'
  BY DEF CallerBound
<1>1. ASSUME NEW m \in Messages, DeliveryStep(m) PROVE CallerBound'
  <2>1. UNCHANGED <<target, acked>>
    BY <1>1, DeliveryFrame DEF sdkVars
  <2> USE DEF TypeOK, GoTypeOK, Step
  <2>3. CASE Deliver(m) \/ GateCancelled(m) \/ TakeGate(m) \/ AdmissionFails(m)
    <3>1. /\ caller[m] \in {"captured", "gate", "admission"} /\ UNCHANGED <<rpc, derr>>
          /\ \E c \in {"rejected", "notRunning", "gate", "ctx", "admission"} :
               caller' = [caller EXCEPT ![m] = c]
      BY <2>3 DEF Deliver, GateCancelled, TakeGate, AdmissionFails, callerOthers,
         owned, deliveryVars
    <3> QED
      BY <2>1, <3>1 DEF CallerBound
  <2>4. CASE RegisterDelivery(m)
    BY <2>1, <2>4 DEF RegisterDelivery, CallerBound, deliveryVars
  <2>5. CASE SubmitInterject(m) \/ InterjectUnsubmitted(m) \/ InterjectWriteAborted(m)
             \/ InterjectReplied(m) \/ DeliverySettles(m) \/ SchedulingLost(m)
             \/ InterjectAborts(m)
    <3>1. /\ rpc[m] \in {"submit", "reply", "settle", "abort"} /\ UNCHANGED caller
          /\ \E c \in {"reply", "settle", "abort", "done"} : rpc' = [rpc EXCEPT ![m] = c]
          /\ UNCHANGED derr \/ \E c : derr' = [derr EXCEPT ![m] = c]
      BY <2>5 DEF SubmitInterject, InterjectUnsubmitted, InterjectWriteAborted,
         InterjectReplied, DeliverySettles, SchedulingLost, InterjectAborts, rpcOthers,
               others,
         owned, deliveryVars
    <3>2. caller[m] # "notRunning"
      BY <3>1 DEF CallerBound, RpcAccounted
    <3> QED
      BY <2>1, <3>1, <3>2 DEF CallerBound, DeliveryTypeOK
  <2>6. CASE CallerReturns(m)
    <3>1. UNCHANGED <<rpc, derr>> /\ caller[m] = "await"
      BY <2>6 DEF CallerReturns, CallerOutcome, callerOthers, owned, deliveryVars
    <3>2. /\ m \in acked => caller' = [caller EXCEPT ![m] = "injected"]
          /\ m \notin acked => \/ caller' = [caller EXCEPT ![m] = "ctx"]
                              \/ caller' = [caller EXCEPT ![m] = derr[m]]
      BY <2>6 DEF CallerReturns, CallerOutcome
    <3>3. derr[m] \in Refusals \cup {"none"}
      BY DEF DeliveryTypeOK
    <3>5. \E c \in {"injected"} \cup Refusals \cup {"none"} :
            /\ caller' = [caller EXCEPT ![m] = c]
            /\ c = "injected" => m \in acked
            /\ c = "notRunning" => derr[m] = "notRunning"
      BY <3>2, <3>3 DEF Refusals
    <3> QED
      BY <2>1, <3>1, <3>5 DEF CallerBound, Refusals
  <2> QED
    BY <1>1, <2>3, <2>4, <2>5, <2>6 DEF DeliveryStep
<1>2. CASE ReaderStep
  <2>1. UNCHANGED <<caller, rpc, target, derr>>
    BY <1>2, ReaderFrame DEF others, sdkVars
  <2> QED
    BY <1>0, <1>2, <2>1, AckedGrows DEF Next
<1>3. CASE SDKStep
  <2>1. UNCHANGED <<rpc, acked, derr>>
    BY <1>3, SDKFrame DEF deliveryVars
  <2>2. ASSUME NEW m \in Messages, CaptureRun(m) PROVE CallerBound'
    BY <2>1, <2>2 DEF CaptureRun, CallerBound, TypeOK, GoTypeOK, SDKTypeOK, Step
  <2>3. ASSUME ~ \E m \in Messages : CaptureRun(m) PROVE UNCHANGED <<caller, target>>
    BY <1>3, <2>3 DEF SDKStep, CancelCaller, InterruptRun, CancelRun, FinishRun, Close,
       goVars, others, callbackOthers, outside, sdkVars
  <2> QED
    BY <1>0, <2>1, <2>2, <2>3
<1>4. ASSUME NEW r \in Runs, ExecStep(r) \/ SenderStep(r) \/ InterruptStep(r)
      PROVE  CallerBound'
  BY <1>0, <1>4, ExecFrame, SenderFrame, InterruptFrame
     DEF deliveryVars, sdkVars, senderOthers
<1>5. CASE NativeStep \/ NativeFault \/ NativeExits
  BY <1>0, <1>5, GrokFrame DEF Wrapper, owned, deliveryVars, sdkVars, goVars, others
<1>6. CASE UNCHANGED vars
  BY <1>0, <1>6 DEF vars, outside, owned, deliveryVars, sdkVars, goVars, others
<1> QED
  BY <1>1, <1>2, <1>3, <1>4, <1>5, <1>6 DEF Next

\* No message is a Run: what the sender marks attempted is no message.
LEMMA RpcAccountedKept == LaneInv /\ [Next]_vars => RpcAccounted'
<1> SUFFICES ASSUME LaneInv, [Next]_vars PROVE RpcAccounted'
  OBVIOUS
<1> USE NativeAssumption DEF LaneInv
<1>0. UNCHANGED <<rpc, attempted, acked, delivery, target, derr>> => RpcAccounted'
  BY DEF RpcAccounted
<1>1. ASSUME NEW r \in Runs, SenderStep(r) PROVE RpcAccounted'
  <2>1. UNCHANGED <<rpc, acked, delivery, target, derr>>
    BY <1>1, SenderFrame DEF senderOthers, promptVars, sdkVars
  <2>2. attempted' \subseteq attempted \cup {r}
    BY <1>1 DEF SenderStep, SubmitPrompt, PromptUnsubmitted, PromptWriteAborted,
          PromptReplied,
       owned, deliveryVars
  <2>3. r \notin Messages
    OBVIOUS
  <2> QED
    BY <2>1, <2>2, <2>3 DEF RpcAccounted
<1>2. ASSUME NEW m \in Messages, DeliveryStep(m) PROVE RpcAccounted'
  <2>1. UNCHANGED <<target, acked>>
    BY <1>2, DeliveryFrame DEF sdkVars
  <2> USE <2>1 DEF TypeOK, GoTypeOK, DeliveryTypeOK, PromptTypeOK
  <2>2. CASE Deliver(m) \/ GateCancelled(m) \/ TakeGate(m) \/ AdmissionFails(m) \/ CallerReturns(m)
    BY <1>0, <2>2 DEF Deliver, GateCancelled, TakeGate, AdmissionFails, CallerReturns,
          CallerOutcome, owned,
       promptVars, deliveryVars, callerOthers
  <2>3. CASE RegisterDelivery(m)
    <3>1. /\ caller[m] = "admission" /\ UNCHANGED <<attempted, derr>>
          /\ \/ UNCHANGED <<delivery, rpc>>
             \/ /\ delivery' = [delivery EXCEPT ![target[m]] = m]
                /\ rpc' = [rpc EXCEPT ![m] = "submit"]
      BY <2>3 DEF RegisterDelivery, deliveryVars
    <3>2. rpc[m] = "idle" /\ target[m] \in Runs
      BY <3>1 DEF CallerBound
    <3>3. \A r \in Runs : delivery[r] = None
      BY <3>1 DEF GateConserved
    <3>4. \A n \in Messages : rpc[n] \in {"submit", "reply", "settle"} => n \in acked
      BY <3>3 DEF RpcAccounted, CallerBound, Requests
    <3> QED
      BY <3>1, <3>2, <3>4 DEF RpcAccounted
  <2>4. CASE SubmitInterject(m)
    BY <2>4 DEF SubmitInterject, RpcAccounted, promptVars
  <2>5. CASE InterjectUnsubmitted(m) \/ InterjectReplied(m) \/ SchedulingLost(m)
    <3> DEFINE t == target[m]
    <3>1. t \in Runs
      BY <2>5 DEF InterjectUnsubmitted, InterjectReplied, SchedulingLost, CallerBound
    <3>2. UNCHANGED attempted
      BY <2>5 DEF InterjectUnsubmitted, InterjectReplied, SchedulingLost
    <3>3. \/ /\ rpc[m] = "reply" /\ UNCHANGED <<derr, delivery>>
             /\ rpc' = [rpc EXCEPT ![m] = "settle"]
          \/ /\ rpc[m] = "submit" /\ Release(t, m)
             /\ \E c \in {"lost", "ctx", "notRunning"} : derr' = [derr EXCEPT ![m] = c]
             /\ rpc' = [rpc EXCEPT ![m] = "done"]
          \/ /\ rpc[m] \in {"reply", "settle"} /\ Release(t, m)
             /\ \E c \in {"refused", "uncertain", "unavailable"} : derr' = [derr EXCEPT ![m] = c]
             /\ \E c \in {"done", "abort"} : rpc' = [rpc EXCEPT ![m] = c]
      BY <2>5 DEF InterjectUnsubmitted, InterjectReplied, SchedulingLost
    <3>4. \A n \in Messages : n # m /\ delivery[target[n]] = n
             => delivery'[target[n]] = n \/ target[n] \notin Runs
      BY <3>1, <3>3 DEF Release
    <3> HIDE DEF t
    <3> QED
      BY <3>1, <3>2, <3>3, <3>4 DEF RpcAccounted, CallerBound
  <2>6. CASE InterjectWriteAborted(m)
    BY <2>6 DEF InterjectWriteAborted, RpcAccounted, promptVars
  <2>7. CASE DeliverySettles(m)
    BY <2>7 DEF DeliverySettles, RpcAccounted, owned, promptVars, deliveryVars
  <2>8. CASE InterjectAborts(m)
    BY <2>8 DEF InterjectAborts, RpcAccounted, promptVars, deliveryVars
  <2> QED
    BY <1>2, <2>2, <2>3, <2>4, <2>5, <2>6, <2>7, <2>8 DEF DeliveryStep
<1>3. CASE ReaderStep
  <2>1. UNCHANGED <<rpc, target, derr, attempted>>
    BY <1>3, ReaderFrame DEF others, sdkVars
  <2>2. CASE ReceiveRunning \/ ReceiveAck
    <3> DEFINE x == Head(fromNative).id
    <3>1. \/ UNCHANGED <<acked, delivery>>
          \/ acked' = acked \cup {x} /\ x \in attempted /\ UNCHANGED delivery
          \/ /\ pendingPrompt # None /\ x \in attempted
             /\ acked' \subseteq acked \cup {x} /\ acked \cup {x} \subseteq acked'
             /\ Release(pendingPrompt, x)
      BY <2>2 DEF ReceiveRunning, ReceiveAck, BindsDelivery, deliveryVars
    <3>2. pendingPrompt # None => pendingPrompt \in Runs
      BY DEF TypeOK, WrapperTypeOK
    <3>3. \A n \in Messages : n \notin acked' /\ target[n] \in Runs /\ delivery[target[n]] = n
             => delivery'[target[n]] = n
      BY <3>1, <3>2 DEF Release, TypeOK, PromptTypeOK
    <3>4. \A n \in Messages : n \in acked' => n \in acked \/ n \in attempted
      BY <3>1
    <3>5. acked \subseteq acked'
      BY <3>1
    <3> HIDE DEF x
    <3> QED
      BY <2>1, <3>3, <3>4, <3>5 DEF RpcAccounted, CallerBound
  <2>3. CASE ReceiveReply \/ ReceiveCompleted \/ ReceiveOverflow
           \/ ReaderFails \/ ReaderExits
    BY <1>0, <2>1, <2>3 DEF ReceiveReply, ReceiveCompleted, ReceiveOverflow,
       ReaderFails, PendingFailure, ReaderExits,
       owned, wrapperVars, promptVars, deliveryVars
  <2> QED
    BY <1>3, <2>2, <2>3 DEF ReaderStep
<1>4. CASE SDKStep
  <2>1. UNCHANGED <<rpc, attempted, acked, delivery, derr>>
    BY <1>4, SDKFrame DEF promptVars, deliveryVars
  <2>2. \A n \in Messages : rpc[n] # "idle" => target'[n] = target[n]
    BY <1>4 DEF SDKStep, CaptureRun, CancelCaller, InterruptRun, CancelRun, FinishRun,
          Close,
       outside, sdkVars, TypeOK, SDKTypeOK, CallerBound
  <2> QED
    BY <2>1, <2>2 DEF RpcAccounted
<1>5. ASSUME NEW r \in Runs, ExecStep(r) \/ InterruptStep(r) PROVE RpcAccounted'
  BY <1>0, <1>5, ExecFrame, InterruptFrame DEF deliveryVars, sdkVars
<1>6. CASE NativeStep \/ NativeFault \/ NativeExits
  BY <1>0, <1>6, GrokFrame DEF Wrapper, owned, promptVars, deliveryVars, sdkVars, goVars
<1>7. CASE UNCHANGED vars
  BY <1>0, <1>7 DEF vars, outside, owned, promptVars, deliveryVars, sdkVars, goVars
<1> QED
  BY <1>1, <1>2, <1>3, <1>4, <1>5, <1>6, <1>7 DEF Next

\* and those of the seeds.
LEMMA SeedAccountedKept == LaneInv /\ [Next]_vars => SeedAccounted'
<1> SUFFICES ASSUME LaneInv, [Next]_vars PROVE SeedAccounted'
  OBVIOUS
<1> USE NativeAssumption DEF LaneInv
<1>0. ASSUME UNCHANGED <<sender, receipt>>, attempted' \subseteq attempted \cup Messages,
             NEW r, UNCHANGED exec \/ Signal(r)
      PROVE  SeedAccounted'
  BY <1>0 DEF SeedAccounted, Signal, Woken, TypeOK, GoTypeOK
<1>1. ASSUME NEW r \in Runs, ExecStep(r) PROVE SeedAccounted'
  <2>1. UNCHANGED attempted
    BY <1>1, ExecFrame DEF deliveryVars
  <2> USE <2>1 DEF SeedAccounted, TypeOK, GoTypeOK, Go
  <2>2. CASE RejectRun(r)
    BY <2>2 DEF RejectRun, CanBegin, SeedRejected, Reported
  <2>3. CASE InterruptedBeforeStart(r)
    BY <2>3 DEF InterruptedBeforeStart, SeedRejected, Reported
  <2>4. CASE StartPrompt(r)
    BY <2>4 DEF StartPrompt
  <2>5. CASE PromptNotStarted(r) \/ SeedAdmitted(r) \/ SeedNotAdmitted(r)
    <3>1. /\ exec[r] \in {"starting", "admission"} /\ UNCHANGED sender
          /\ \E c \in {"uncertain", "injected", receipt[r]} : receipt' = [receipt EXCEPT ![r] = c]
          /\ \E c \in {"fail", "started"} : exec' = [exec EXCEPT ![r] = c]
      BY <2>5 DEF PromptNotStarted, SeedAdmitted, SeedNotAdmitted, SeedUncertain, Reported
    <3> QED
      BY <3>1
  <2>6. CASE EnterRun(r)
    BY <2>6 DEF EnterRun, CanBegin, execOthers, others
  <2>7. CASE \/ PromptStarted(r) \/ CheckInterrupted(r) \/ RunJoinsInterrupt(r)
             \/ AwaitReply(r) \/ CompleteRun(r) \/ RunFailed(r) \/ RunBlocks(r)
             \/ RunUnblocks(r) \/ FailOwned(r) \/ FailJoinsInterrupt(r) \/ ReturnRun(r)
    <3>1. /\ UNCHANGED <<sender, receipt>> /\ exec[r] \notin {"idle", "entered", "returned"}
          /\ \E c \in ExecPC \ {"idle", "entered"} : exec' = [exec EXCEPT ![r] = c]
      BY <2>7 DEF PromptStarted, CheckInterrupted, RunJoinsInterrupt, AwaitReply,
            CompleteRun,
         RunFailed, RunBlocks, RunUnblocks, FailOwned, FailJoinsInterrupt, ReturnRun,
         execOthers, others, ExecPC
    <3> QED
      BY <3>1
  <2> QED
    BY <1>1, <2>2, <2>3, <2>4, <2>5, <2>6, <2>7 DEF ExecStep
<1>2. ASSUME NEW r \in Runs, SenderStep(r) PROVE SeedAccounted'
  <2>1. UNCHANGED <<exec, receipt>>
    BY <1>2, SenderFrame DEF senderOthers
  <2>2. /\ sender[r] \in {"submit", "reply"} /\ attempted' \subseteq attempted \cup {r}
        /\ \/ sender' = [sender EXCEPT ![r] = "reply"]
           \/ sender' = [sender EXCEPT ![r] = "done"]
    BY <1>2 DEF SenderStep, SubmitPrompt, PromptUnsubmitted, PromptWriteAborted,
          PromptReplied,
       owned, deliveryVars
  <2> QED
    BY <2>1, <2>2 DEF SeedAccounted, TypeOK, GoTypeOK
<1>3. ASSUME NEW m \in Messages, DeliveryStep(m) PROVE SeedAccounted'
  <2>1. UNCHANGED <<sender, receipt>>
    BY <1>3, DeliveryFrame
  <2>2. attempted' \subseteq attempted \cup {m} /\ (UNCHANGED exec \/ Signal(target[m]))
    BY <1>3 DEF DeliveryStep, Deliver, GateCancelled, TakeGate, AdmissionFails,
        RegisterDelivery, SubmitInterject, InterjectUnsubmitted, InterjectWriteAborted,
        InterjectReplied, DeliverySettles, SchedulingLost, InterjectAborts, CallerReturns,
        owned, deliveryVars, callerOthers, rpcOthers, Release
  <2> QED
    BY <1>0, <2>1, <2>2
<1>4. ASSUME NEW r \in Runs, InterruptStep(r) PROVE SeedAccounted'
  <2>1. UNCHANGED exec \/ Signal(r)
    BY <1>4 DEF InterruptStep, InterruptCallback, CallbackJoinsInterrupt, SendCancel,
       callbackOthers
  <2> QED
    BY <1>0, <1>4, <2>1, InterruptFrame DEF deliveryVars
<1>5. CASE ReaderStep
  <2>1. UNCHANGED exec \/ Signal(pendingPrompt)
    BY <1>5 DEF ReaderStep, ReceiveReply, ReceiveRunning, ReceiveAck, ReceiveCompleted,
       ReceiveOverflow, ReaderFails, ReaderExits, readerOthers, Release
  <2> QED
    BY <1>0, <1>5, <2>1, ReaderFrame DEF others
<1>6. CASE SDKStep
  BY <1>0, <1>6, SDKFrame DEF deliveryVars
<1>7. CASE NativeStep \/ NativeFault \/ NativeExits
  BY <1>0, <1>7, GrokFrame DEF Wrapper, owned, deliveryVars, goVars, others
<1>8. CASE UNCHANGED vars
  BY <1>0, <1>8 DEF vars, owned, deliveryVars, goVars, others
<1> QED
  BY <1>1, <1>2, <1>3, <1>4, <1>5, <1>6, <1>7, <1>8 DEF Next

\* Every reachable state satisfies the invariant: the base of all that follows.
THEOREM LaneInvariant == Spec => []LaneInv
<1>1. LaneInv /\ [Next]_vars => LaneInv'
  BY TypeKept, GateKept, CallerBoundKept, RpcAccountedKept, SeedAccountedKept DEF LaneInv
<1> QED
  BY LaneInit, <1>1, PTL DEF Spec

-----------------------------------------------------------------------------
(* What follows.                                                           *)

\* Every variable keeps its type.
THEOREM TypeCorrect == Spec => []TypeOK
  BY LaneInvariant, PTL DEF LaneInv

\* deliveryGate's token is never lost and never doubled, so releaseDelivery's send
\* under Wrapper.mu cannot block.
THEOREM GateConservation == Spec => []GateConserved
  BY LaneInvariant, PTL DEF LaneInv

\* Whatever is refused as not submitted was never written, nor will be: the
\* daemon may submit it again.
THEOREM RefusalSafety == Spec => []RefusedUnwritten
<1>1. LaneInv => RefusedUnwritten
  BY DEF LaneInv, RefusedUnwritten, CallerBound, RpcAccounted, SeedAccounted
<1> QED
  BY LaneInvariant, <1>1, PTL

-----------------------------------------------------------------------------
(* Accounting of deliveries.                                               *)

\* An attempted interject stays registered, acknowledged, refused or failed.
LEMMA AttemptedKept == LaneInv /\ AttemptedAccounted /\ [Next]_vars => AttemptedAccounted'
<1> SUFFICES ASSUME LaneInv, AttemptedAccounted, [Next]_vars PROVE AttemptedAccounted'
  OBVIOUS
<1> USE NativeAssumption DEF LaneInv
<1>0. UNCHANGED <<attempted, acked, delivery, target, derr,
      failure>> => AttemptedAccounted'
  BY DEF AttemptedAccounted
<1>1. ASSUME NEW r \in Runs, SenderStep(r) PROVE AttemptedAccounted'
  <2>1. UNCHANGED <<acked, delivery, target, derr, failure>>
    BY <1>1, SenderFrame DEF promptVars, sdkVars
  <2>2. attempted' \subseteq attempted \cup {r}
    BY <1>1 DEF SenderStep, SubmitPrompt, PromptUnsubmitted, PromptWriteAborted,
          PromptReplied,
       owned, deliveryVars
  <2> QED
    BY <2>1, <2>2 DEF AttemptedAccounted
<1>2. ASSUME NEW m \in Messages, DeliveryStep(m) PROVE AttemptedAccounted'
  <2>1. UNCHANGED <<target, acked>>
    BY <1>2, DeliveryFrame DEF sdkVars
  <2> USE <2>1 DEF TypeOK, GoTypeOK, DeliveryTypeOK, PromptTypeOK
  <2>2. CASE \/ Deliver(m) \/ GateCancelled(m) \/ TakeGate(m) \/ AdmissionFails(m)
             \/ DeliverySettles(m) \/ InterjectAborts(m) \/ CallerReturns(m)
    BY <1>0, <2>2 DEF Deliver, GateCancelled, TakeGate, AdmissionFails, DeliverySettles,
       InterjectAborts, CallerReturns, CallerOutcome, owned, promptVars, deliveryVars,
             callerOthers
  <2>3. CASE RegisterDelivery(m)
    <3>1. UNCHANGED <<attempted, derr, failure>> /\ caller[m] = "admission"
      BY <2>3 DEF RegisterDelivery, deliveryVars
    <3>2. \A r \in Runs : delivery[r] = None
      BY <3>1 DEF GateConserved
    <3>3. \A n \in Messages \cap attempted :
            n \in acked \/ derr[n] = "refused" \/ target[n] \in failure
      BY <3>2 DEF AttemptedAccounted, RpcAccounted, CallerBound, Requests
    <3> QED
      BY <3>1, <3>3 DEF AttemptedAccounted
  <2>4. CASE SubmitInterject(m)
    BY <2>4 DEF SubmitInterject, AttemptedAccounted, promptVars
  <2>5. CASE InterjectWriteAborted(m)
    BY <2>5 DEF InterjectWriteAborted, AttemptedAccounted, RpcAccounted, promptVars
  <2>6. CASE InterjectUnsubmitted(m) \/ InterjectReplied(m) \/ SchedulingLost(m)
    <3> DEFINE t == target[m]
    <3>1. t \in Runs
      BY <2>6 DEF InterjectUnsubmitted, InterjectReplied, SchedulingLost, CallerBound
    <3>2. UNCHANGED attempted /\ failure \subseteq failure'
      BY <2>6 DEF InterjectUnsubmitted, InterjectReplied, SchedulingLost
    <3>3. \/ UNCHANGED <<derr, delivery>>
          \/ /\ rpc[m] = "submit" /\ Release(t, m)
             /\ \E c : derr' = [derr EXCEPT ![m] = c]
          \/ /\ Release(t, m)
             /\ \E c : derr' = [derr EXCEPT ![m] = c]
             /\ derr' = [derr EXCEPT ![m] = "refused"] \/ t \in failure'
      BY <2>6 DEF InterjectUnsubmitted, InterjectReplied, SchedulingLost
    <3>4. \A n \in Messages : n # m /\ delivery[target[n]] = n
             => delivery'[target[n]] = n \/ target[n] \notin Runs
      BY <3>1, <3>3 DEF Release
    <3>5. \A n \in Messages : n \in attempted => target[n] \in Runs
      BY DEF CallerBound, RpcAccounted
    <3>6. rpc[m] = "submit" => m \notin attempted
      BY DEF RpcAccounted
    <3>7. ASSUME NEW n \in Messages \cap attempted, n # m
          PROVE  \/ delivery'[target[n]] = n \/ n \in acked
                 \/ derr'[n] = "refused" \/ target[n] \in failure'
      <4>1. derr'[n] = derr[n]
        BY <3>3, <3>7
      <4> QED
        BY <3>2, <3>4, <3>5, <3>7, <4>1 DEF AttemptedAccounted
    <3>8. ASSUME m \in attempted
          PROVE  \/ delivery'[t] = m \/ m \in acked
                 \/ derr'[m] = "refused" \/ t \in failure'
      BY <3>2, <3>3, <3>6, <3>8 DEF AttemptedAccounted
    <3> HIDE DEF t
    <3> QED
      BY <3>2, <3>7, <3>8, SMTT(60) DEF AttemptedAccounted, t
  <2> QED
    BY <1>2, <2>2, <2>3, <2>4, <2>5, <2>6 DEF DeliveryStep
<1>3. CASE ReaderStep
  <2>1. UNCHANGED <<target, derr, attempted>>
    BY <1>3, ReaderFrame DEF sdkVars
  <2>2. CASE ReceiveRunning \/ ReceiveAck
    <3> DEFINE x == Head(fromNative).id
    <3>1. failure \subseteq failure' /\ acked \subseteq acked'
      BY <2>2 DEF ReceiveRunning, ReceiveAck, deliveryVars
    <3>2. \/ UNCHANGED delivery
          \/ pendingPrompt # None /\ x \in acked' /\ Release(pendingPrompt, x)
      BY <2>2 DEF ReceiveRunning, ReceiveAck, BindsDelivery, deliveryVars
    <3>3. pendingPrompt # None => pendingPrompt \in Runs
      BY DEF TypeOK, WrapperTypeOK
    <3>4. \A n \in Messages : n \notin acked' /\ target[n] \in Runs /\ delivery[target[n]] = n
             => delivery'[target[n]] = n
      BY <3>2, <3>3 DEF Release, TypeOK, PromptTypeOK
    <3>5. \A n \in Messages : n \in attempted => target[n] \in Runs
      BY DEF CallerBound, RpcAccounted
    <3> HIDE DEF x
    <3> QED
      BY <2>1, <3>1, <3>4, <3>5 DEF AttemptedAccounted
  <2>3. CASE ReceiveReply \/ ReceiveCompleted \/ ReaderFails \/ ReaderExits
    BY <1>0, <2>1, <2>3 DEF ReceiveReply, ReceiveCompleted, ReaderFails, ReaderExits,
       owned, wrapperVars, promptVars, deliveryVars
  <2>4. CASE ReceiveOverflow
    <3>1. UNCHANGED <<acked, delivery>> /\ failure \subseteq failure'
      BY <2>4 DEF ReceiveOverflow, deliveryVars
    <3> QED
      BY <2>1, <3>1 DEF AttemptedAccounted
  <2> QED
    BY <1>3, <2>2, <2>3, <2>4 DEF ReaderStep
<1>4. CASE SDKStep
  <2>1. UNCHANGED <<attempted, acked, delivery, derr, failure>>
    BY <1>4, SDKFrame DEF promptVars, deliveryVars
  <2>2. \A n \in Messages : rpc[n] # "idle" => target'[n] = target[n]
    BY <1>4 DEF SDKStep, CaptureRun, CancelCaller, InterruptRun, CancelRun, FinishRun,
          Close,
       outside, sdkVars, TypeOK, SDKTypeOK, CallerBound
  <2> QED
    BY <2>1, <2>2 DEF AttemptedAccounted, RpcAccounted
<1>5. ASSUME NEW r \in Runs, ExecStep(r) \/ InterruptStep(r) PROVE AttemptedAccounted'
  BY <1>0, <1>5, ExecFrame, InterruptFrame DEF deliveryVars, sdkVars
<1>6. CASE NativeStep \/ NativeFault \/ NativeExits
  BY <1>0, <1>6, GrokFrame DEF Wrapper, owned, promptVars, deliveryVars, sdkVars, goVars
<1>7. CASE UNCHANGED vars
  BY <1>0, <1>7 DEF vars, outside, owned, promptVars, deliveryVars, sdkVars, goVars
<1> QED
  BY <1>1, <1>2, <1>3, <1>4, <1>5, <1>6, <1>7 DEF Next

\* No attempted interject drops out of the accounts of its prompt.
THEOREM AttemptedAccounting == Spec => []AttemptedAccounted
<1>1. Init => AttemptedAccounted
  BY DEF Init, AttemptedAccounted
<1> QED
  BY LaneInvariant, AttemptedKept, <1>1, PTL DEF Spec

\* A delivery callback ends with a receipt or an error, never with neither.
THEOREM ReceiptGiven == Spec => []NoEmptyReceipt
<1>1. Init => NoEmptyReceipt
  BY DEF Init, NoEmptyReceipt
<1>2. LaneInv /\ NoEmptyReceipt /\ [Next]_vars => NoEmptyReceipt'
  <2> SUFFICES ASSUME LaneInv, NoEmptyReceipt, [Next]_vars PROVE NoEmptyReceipt'
    OBVIOUS
  <2>0. UNCHANGED caller => NoEmptyReceipt'
    BY DEF NoEmptyReceipt
  <2> USE DEF LaneInv, TypeOK, GoTypeOK, Step
  <2>1. ASSUME NEW m \in Messages, CallerReturns(m) PROVE NoEmptyReceipt'
    <3>1. /\ caller[m] = "await"
          /\ m \in acked \/ delivery[target[m]] # m \/ m \in callerCancelled
          /\ caller' = [caller EXCEPT ![m] = IF m \in acked THEN "injected"
                                    ELSE IF m \in callerCancelled THEN "ctx" ELSE derr[m]]
      BY <2>1 DEF CallerReturns, CallerOutcome
    <3>2. m \in acked \/ m \in callerCancelled \/ derr[m] # "none"
      BY <3>1 DEF CallerBound, RpcAccounted
    <3> QED
      BY <3>1, <3>2 DEF NoEmptyReceipt
  <2>2. ASSUME NEW m \in Messages, DeliveryStep(m),
        ~CallerReturns(m) PROVE NoEmptyReceipt'
    BY <2>2 DEF NoEmptyReceipt, DeliveryStep, Deliver, GateCancelled, TakeGate,
          AdmissionFails,
        RegisterDelivery, SubmitInterject, InterjectUnsubmitted, InterjectWriteAborted,
        InterjectReplied, DeliverySettles, SchedulingLost, InterjectAborts, rpcOthers,
              others
  <2>3. CASE SDKStep
    BY <2>3 DEF NoEmptyReceipt, SDKStep, CaptureRun, CancelCaller, InterruptRun,
          CancelRun,
       FinishRun, Close, goVars, others, callbackOthers
  <2>4. ASSUME NEW r \in Runs, ExecStep(r) \/ SenderStep(r) \/ InterruptStep(r)
        PROVE  NoEmptyReceipt'
    BY <2>0, <2>4, ExecFrame, SenderFrame, InterruptFrame DEF senderOthers
  <2>5. CASE ReaderStep
    BY <2>0, <2>5, ReaderFrame DEF others
  <2>6. CASE NativeStep \/ NativeFault \/ NativeExits
    BY <2>0, <2>6, GrokFrame DEF Wrapper, goVars, others
  <2>7. CASE UNCHANGED vars
    BY <2>0, <2>7 DEF vars, goVars, others
  <2> QED
    BY <2>1, <2>2, <2>3, <2>4, <2>5, <2>6, <2>7 DEF Next
<1> QED
  BY LaneInvariant, <1>1, <1>2, PTL DEF Spec

-----------------------------------------------------------------------------
(* A receipt is evidence: acknowledgements on the stream.                  *)

\* Reading a frame leaves no acknowledgement that was not there.
LEMMA TailAcks ==
  ASSUME NativeTypeOK, AckedEnqueued, fromNative # <<>>, fromNative' = Tail(fromNative),
         UNCHANGED enqueued, acked' \subseteq enqueued
  PROVE  AckedEnqueued'
<1>1. \A k \in DOMAIN Tail(fromNative) :
        k + 1 \in DOMAIN fromNative /\ Tail(fromNative)[k] = fromNative[k + 1]
  BY DEF NativeTypeOK
<1> QED
  BY <1>1 DEF AckedEnqueued

\* Emitting frames whose acknowledgements are of enqueued messages keeps them so.
LEMMA EmitAcks ==
  ASSUME NativeTypeOK, AckedEnqueued, NEW f \in NativeFrame, NEW g \in NativeFrame,
         Emit(<<f>>) \/ Emit(<<f, g>>), UNCHANGED acked, enqueued \subseteq enqueued',
         f.type = "ack" => f.id \in enqueued', g.type = "ack" => g.id \in enqueued'
  PROVE  AckedEnqueued'
<1> DEFINE s == <<f>>
           t == <<f, g>>
<1>1. s \in Seq(NativeFrame) /\ t \in Seq(NativeFrame) /\ Len(s) = 1 /\ Len(t) = 2
      /\ s[1] = f /\ t[1] = f /\ t[2] = g
  OBVIOUS
<1> HIDE DEF s, t
<1>2. fromNative \in Seq(NativeFrame)
  BY DEF NativeTypeOK
<1>3. CASE Emit(s)
  <2>1. \A k \in DOMAIN fromNative' :
          \/ k \in DOMAIN fromNative /\ fromNative'[k] = fromNative[k]
          \/ fromNative'[k] = f
    BY <1>1, <1>2, <1>3, ConcatProperties DEF Emit
  <2> QED
    BY <2>1 DEF AckedEnqueued
<1>4. CASE Emit(t)
  <2>1. \A k \in DOMAIN fromNative' :
          \/ k \in DOMAIN fromNative /\ fromNative'[k] = fromNative[k]
          \/ fromNative'[k] = f \/ fromNative'[k] = g
    BY <1>1, <1>2, <1>4, ConcatProperties DEF Emit
  <2> QED
    BY <2>1 DEF AckedEnqueued
<1> QED
  BY <1>3, <1>4 DEF s, t

\* Acknowledgements stay those of messages Grok enqueued.
LEMMA AckedKept == TypeOK /\ AckedEnqueued /\ [Next]_vars => AckedEnqueued'
<1> SUFFICES ASSUME TypeOK, AckedEnqueued, [Next]_vars PROVE AckedEnqueued'
  OBVIOUS
<1>0. UNCHANGED <<acked, fromNative, enqueued>> => AckedEnqueued'
  BY DEF AckedEnqueued
<1>1. CASE ReaderStep
  <2>1. UNCHANGED enqueued
    BY <1>1, ReaderFrame
  <2>2. NativeTypeOK
    BY DEF TypeOK
  <2>3. CASE ReaderExits \/ ReaderFails
    BY <1>0, <2>3 DEF ReaderExits, ReaderFails, nativeVars, owned, deliveryVars
  <2>4. CASE ReceiveAck
    <3>1. fromNative # <<>> /\ Head(fromNative).type = "ack" /\ fromNative' = Tail(fromNative)
          /\ acked' \subseteq acked \cup {Head(fromNative).id}
      BY <2>4 DEF ReceiveAck, NextFrame, Consume
    <3>2. Head(fromNative).id \in enqueued
      BY <2>2, <3>1 DEF AckedEnqueued, NativeTypeOK
    <3> QED
      BY <2>1, <2>2, <3>1, <3>2, TailAcks DEF AckedEnqueued
  <2>5. CASE ReceiveReply \/ ReceiveRunning \/ ReceiveCompleted \/ ReceiveOverflow
    <3>1. fromNative # <<>> /\ fromNative' = Tail(fromNative) /\ UNCHANGED acked
      BY <2>5 DEF ReceiveReply, ReceiveRunning, ReceiveCompleted, ReceiveOverflow,
         NextFrame, Consume, owned, deliveryVars
    <3> QED
      BY <2>1, <2>2, <3>1, TailAcks DEF AckedEnqueued
  <2> QED
    BY <1>1, <2>3, <2>4, <2>5 DEF ReaderStep
<1>2. CASE NativeStep \/ NativeFault \/ NativeExits
  <2>1. NativeTypeOK /\ UNCHANGED acked
    BY <1>2, GrokFrame DEF TypeOK, Wrapper, owned, deliveryVars
  <2> USE <2>1, FrameType, CallType DEF Frame, NextCall, Requests
  <2>2. CASE TakePrompt \/ Drain \/ Exit
    BY <1>0, <2>2 DEF TakePrompt, Drain, Exit
  <2>3. CASE TakeInterject
    <3> DEFINE m == Head(toNative).id
               f == Frame("reply", m, "ok")
               g == Frame("ack", m, "ok")
    <3>1. m \in Messages /\ enqueued' = enqueued \cup {m}
      BY <2>3 DEF TakeInterject
    <3>2. Emit(<<f, g>>) \/ Emit(<<g>>)
      BY <2>3 DEF TakeInterject
    <3>3. /\ f \in NativeFrame /\ g \in NativeFrame
          /\ f.type = "reply" /\ g.type = "ack" /\ g.id = m
      BY <3>1
    <3> HIDE DEF f, g, m
    <3> QED
      BY <3>1, <3>2, <3>3, EmitAcks
  <2>4. ASSUME NEW x \in Requests, NEW why \in {"end_turn", "cancelled"},
               NEW frames \in EndFrames(x, why), Emit(frames), UNCHANGED enqueued
        PROVE  AckedEnqueued'
    <3>1. frames \in {<<Frame("completed", x, why)>>,
                     <<Frame("completed", x, why), Frame("reply", x, "ok")>>,
                     <<Frame("reply", x, "ok"), Frame("completed", x, why)>>}
      BY DEF EndFrames
    <3> QED
      BY <2>4, <3>1, EmitAcks
  <2>5. CASE TakeCancel
    BY <1>0, <2>4, <2>5 DEF TakeCancel, NativeTypeOK
  <2>6. CASE EndRunning
    BY <2>4, <2>6 DEF EndRunning, NativeTypeOK
  <2>7. ASSUME NEW m \in Messages, ReplyLate(m) PROVE AckedEnqueued'
    <3> DEFINE f == Frame("reply", m, "ok")
    <3>1. /\ Emit(<<f>>) /\ UNCHANGED enqueued
          /\ f \in NativeFrame /\ f.type = "reply"
      BY <2>7 DEF ReplyLate
    <3> HIDE DEF f
    <3> QED
      BY <3>1, EmitAcks
  <2>8. ASSUME NEW i \in Requests, StartRunning(i) PROVE AckedEnqueued'
    BY <1>0, <2>8, EmitAcks DEF StartRunning
  <2>9. CASE RefuseCall
    BY <2>9, EmitAcks DEF RefuseCall
  <2>10. CASE Overflow
    BY <2>10, EmitAcks DEF Overflow, NativeTypeOK
  <2> QED
    BY <1>2, <2>2, <2>3, <2>5, <2>6, <2>7, <2>8, <2>9, <2>10
       DEF NativeStep, NativeFault, NativeExits, NativeWork
<1>3. ASSUME NEW r \in Runs, ExecStep(r) \/ SenderStep(r) \/ InterruptStep(r)
      PROVE  AckedEnqueued'
  BY <1>0, <1>3, ExecFrame, SenderFrame, InterruptFrame DEF nativeVars, offWire,
        deliveryVars
<1>4. ASSUME NEW m \in Messages, DeliveryStep(m) PROVE AckedEnqueued'
  BY <1>0, <1>4, DeliveryFrame DEF offWire
<1>5. CASE SDKStep
  BY <1>0, <1>5, SDKFrame DEF nativeVars, deliveryVars
<1>6. CASE UNCHANGED vars
  BY <1>0, <1>6 DEF vars, outside, nativeVars, owned, deliveryVars
<1> QED
  BY <1>1, <1>2, <1>3, <1>4, <1>5, <1>6 DEF Next

\* An acknowledgement is of a message that Grok's actor enqueued.
LEMMA AckedEvidence == Spec => []AckedEnqueued
<1>1. Init => AckedEnqueued
  BY DEF Init, NativeInit, AckedEnqueued
<1>2. LaneInv => TypeOK
  BY DEF LaneInv
<1> QED
  BY LaneInvariant, AckedKept, <1>1, <1>2, PTL DEF Spec

\* A delivery reported injected was enqueued by Grok's actor: the callback has no
\* other evidence than the acknowledgement the actor broadcast for that message.
THEOREM InjectionEvidence == Spec => []InjectedEnqueued
<1>1. LaneInv /\ AckedEnqueued => InjectedEnqueued
  BY DEF LaneInv, CallerBound, AckedEnqueued, InjectedEnqueued
<1> QED
  BY LaneInvariant, AckedEvidence, <1>1, PTL

\* The books of callers, RPCs, seeds and acknowledgements always agree.
THEOREM AccountingHolds == Spec => []Accounting
<1>1. LaneInv /\ AckedEnqueued => Accounting
  BY DEF LaneInv, Accounting
<1> QED
  BY LaneInvariant, AckedEvidence, <1>1, PTL
=============================================================================
