------------------------- MODULE LaneContractProofs -------------------------
(***************************************************************************)
(* LaneRun implements DeliveryContract, for any Runs, messages and faults. *)
(*                                                                         *)
(* What the books of LaneRunProofs do not say is what the wire carries: an *)
(* interject is on it once, and a message that was refused, on its way to  *)
(* the wrapper or there, is neither on the wire nor taken by Grok.         *)
(***************************************************************************)
EXTENDS LaneRunProofs

\* The interject of m is on its way to Grok.
Interjecting(m) == \E k \in DOMAIN toNative : toNative[k] = Call("interject", m)

\* Its refusal is on its way to the wrapper.
Refusing(m) == \E k \in DOMAIN fromNative : fromNative[k] = Frame("reply", m, "refused")

\* Grok has refused it.
RefusedByGrok(m) == Refusing(m) \/ reply[m] = "refused" \/ derr[m] = "refused"

WireOnce ==
  \A j \in DOMAIN toNative, k \in DOMAIN toNative :
    toNative[j] = toNative[k] /\ toNative[j].type = "interject" => j = k

WireAccounted ==
  \A m \in Messages :
    /\ Interjecting(m) => m \in attempted /\ m \notin enqueued /\ ~RefusedByGrok(m)
    /\ m \in enqueued => m \in attempted /\ ~RefusedByGrok(m)
    /\ RefusedByGrok(m) => m \in attempted

\* A refusal ends the RPC, and is the only reason for a caller to report one.
RefusalFinal ==
  \A m \in Messages :
    /\ derr[m] = "refused" => rpc[m] = "done"
    /\ caller[m] = "refused" => derr[m] = "refused"

WireInv == WireOnce /\ WireAccounted

-----------------------------------------------------------------------------
(* The two streams.                                                        *)

\* One more frame on the wire.
LEMMA AppendWire ==
  ASSUME NativeTypeOK, NEW c \in CallFrame, toNative' = Append(toNative, c)
  PROVE  /\ \A m \in Messages : Interjecting(m)' => Interjecting(m) \/ c = Call("interject", m)
         /\ WireOnce /\ (c.type = "interject" => \A k \in DOMAIN toNative : toNative[k] # c)
              => WireOnce'
<1>1. toNative \in Seq(CallFrame)
  BY DEF NativeTypeOK
<1>2. \A k \in DOMAIN toNative' :
        \/ k \in DOMAIN toNative /\ toNative'[k] = toNative[k]
        \/ k = Len(toNative) + 1 /\ toNative'[k] = c
  BY <1>1
<1> QED
  BY <1>2 DEF Interjecting, WireOnce

\* Grok reads one.
LEMMA TailWire ==
  ASSUME NativeTypeOK, toNative # <<>>, toNative' = Tail(toNative), WireOnce
  PROVE  /\ WireOnce'
         /\ \A m \in Messages : Interjecting(m)' => Interjecting(m)
         /\ \A m \in Messages :
              Head(toNative) = Call("interject", m) => Interjecting(m) /\ ~Interjecting(m)'
<1>1. toNative \in Seq(CallFrame)
  BY DEF NativeTypeOK
<1>2. /\ \A k \in DOMAIN toNative' :
           k \in Nat /\ k + 1 \in DOMAIN toNative /\ toNative'[k] = toNative[k + 1] /\ k + 1 # 1
      /\ 1 \in DOMAIN toNative /\ toNative[1] = Head(toNative)
  BY <1>1
<1>3. WireOnce'
  BY <1>2 DEF WireOnce
<1>4. \A m \in Messages : Interjecting(m)' => Interjecting(m)
  BY <1>2 DEF Interjecting
<1>5. ASSUME NEW m \in Messages, Head(toNative) = Call("interject", m)
      PROVE  Interjecting(m) /\ ~Interjecting(m)'
  BY <1>2, <1>5 DEF Interjecting, WireOnce, Call
<1> QED
  BY <1>3, <1>4, <1>5

\* The reader takes a frame off the stream.
LEMMA TailRefusals ==
  ASSUME NativeTypeOK, fromNative # <<>>, fromNative' = Tail(fromNative)
  PROVE  \A m \in Messages :
           /\ Refusing(m)' => Refusing(m)
           /\ Head(fromNative) = Frame("reply", m, "refused") => Refusing(m)
<1>1. /\ \A k \in DOMAIN fromNative' :
           k + 1 \in DOMAIN fromNative /\ fromNative'[k] = fromNative[k + 1]
      /\ 1 \in DOMAIN fromNative /\ fromNative[1] = Head(fromNative)
  BY DEF NativeTypeOK
<1> QED
  BY <1>1 DEF Refusing

\* Grok puts one or two more on it.
LEMMA EmitRefusals ==
  ASSUME NativeTypeOK, NEW f \in NativeFrame, NEW g \in NativeFrame,
         Emit(<<f>>) \/ Emit(<<f, g>>)
  PROVE  \A m \in Messages :
           Refusing(m)' => \/ Refusing(m) \/ f = Frame("reply", m, "refused")
                           \/ g = Frame("reply", m, "refused")
<1> DEFINE s == <<f>>
           t == <<f, g>>
<1>1. s \in Seq(NativeFrame) /\ t \in Seq(NativeFrame) /\ Len(s) = 1 /\ Len(t) = 2
      /\ s[1] = f /\ t[1] = f /\ t[2] = g
  OBVIOUS
<1> HIDE DEF s, t
<1>2. fromNative \in Seq(NativeFrame)
  BY DEF NativeTypeOK
<1>3. CASE Emit(s)
  <2>1. \A k \in DOMAIN fromNative' :
          \/ k \in DOMAIN fromNative /\ fromNative'[k] = fromNative[k]
          \/ fromNative'[k] = f
    BY <1>1, <1>2, <1>3, ConcatProperties DEF Emit
  <2> QED
    BY <2>1 DEF Refusing
<1>4. CASE Emit(t)
  <2>1. \A k \in DOMAIN fromNative' :
          \/ k \in DOMAIN fromNative /\ fromNative'[k] = fromNative[k]
          \/ fromNative'[k] = f \/ fromNative'[k] = g
    BY <1>1, <1>2, <1>4, ConcatProperties DEF Emit
  <2> QED
    BY <2>1 DEF Refusing
<1> QED
  BY <1>3, <1>4 DEF s, t

-----------------------------------------------------------------------------
(* The wire is accounted for.                                              *)

\* A step that puts no interject on the wire, has Grok take none and refuses none
\* keeps the accounts.
Quietly ==
  /\ attempted \subseteq attempted' /\ UNCHANGED enqueued
  /\ \A m \in Messages : (Interjecting(m)' => Interjecting(m))
                         /\ (RefusedByGrok(m)' => RefusedByGrok(m))

LEMMA QuietKeeps == WireAccounted /\ Quietly => WireAccounted'
BY DEF WireAccounted, Quietly

\* Nothing on either stream, and no new refusal.
LEMMA StillWire ==
  ASSUME UNCHANGED <<toNative, fromNative, reply, derr>>
  PROVE  /\ WireOnce => WireOnce'
         /\ \A m \in Messages : Interjecting(m)' = Interjecting(m)
         /\ \A m \in Messages : RefusedByGrok(m)' = RefusedByGrok(m)
BY DEF WireOnce, Interjecting, RefusedByGrok, Refusing

\* executeRun and the SDK write nothing; at most they end the connection.
LEMMA RunWire ==
  ASSUME WireInv, NEW r \in Runs, ExecStep(r)
  PROVE  WireInv'
<1>1. UNCHANGED <<nativeVars, attempted, derr>>
  BY ExecFrame DEF deliveryVars
<1>2. \A m \in Messages : reply'[m] = "refused" => reply[m] = "refused"
  BY DEF ExecStep, RejectRun, EnterRun, InterruptedBeforeStart, StartPrompt,
         PromptStarted, PromptNotStarted, SeedAdmitted, SeedNotAdmitted,
         CheckInterrupted, RunJoinsInterrupt, AwaitReply, CompleteRun, RunFailed,
         RunBlocks, RunUnblocks, FailOwned, FailJoinsInterrupt, ReturnRun,
         outside, connVars, PendingFailure, Finish, Requests
<1>3. WireOnce'
  BY <1>1 DEF WireInv, WireOnce, nativeVars
<1>4. Quietly
  BY <1>1, <1>2 DEF Quietly, Interjecting, RefusedByGrok, Refusing, nativeVars
<1> QED
  BY <1>3, <1>4, QuietKeeps DEF WireInv

\* The prompt's sender and the interrupt write frames of other types.
LEMMA PromptWire ==
  ASSUME TypeOK, WireInv, NEW r \in Runs, SenderStep(r) \/ InterruptStep(r)
  PROVE  WireInv'
<1> DEFINE c == Call("prompt", r)
           d == Call("cancel", r)
<1>1. /\ c \in CallFrame /\ c.type = "prompt" /\ d \in CallFrame /\ d.type = "cancel"
      /\ \A m \in Messages : Call("interject", m) # c /\ Call("interject", m) # d
  BY DEF Call, CallFrame
<1>2. /\ UNCHANGED <<fromNative, enqueued, derr>> /\ attempted \subseteq attempted'
      /\ toNative' \in {toNative, Append(toNative, c), Append(toNative, d)}
  BY DEF SenderStep, SubmitPrompt, PromptUnsubmitted, PromptWriteAborted, PromptReplied,
         InterruptStep, InterruptCallback, CallbackJoinsInterrupt, SendCancel, Write,
         outside, nativeVars, owned, deliveryVars, offWire
<1>3. \A m \in Messages : reply'[m] = "refused" => reply[m] = "refused"
  BY NativeAssumption
     DEF SenderStep, SubmitPrompt, PromptUnsubmitted, PromptWriteAborted, PromptReplied,
         InterruptStep, InterruptCallback, CallbackJoinsInterrupt, SendCancel, Write,
         outside, connVars, Finish, TypeOK, ConnTypeOK, Requests
<1>4. \A m \in Messages : RefusedByGrok(m)' => RefusedByGrok(m)
  BY <1>2, <1>3 DEF RefusedByGrok, Refusing
<1>5. NativeTypeOK
  BY DEF TypeOK
<1> HIDE DEF c, d
<1>6. WireOnce' /\ \A m \in Messages : Interjecting(m)' => Interjecting(m)
  <2>1. CASE UNCHANGED toNative
    BY <2>1 DEF WireInv, WireOnce, Interjecting
  <2>2. CASE toNative' = Append(toNative, c)
    BY <1>1, <1>5, <2>2, AppendWire DEF WireInv
  <2>3. CASE toNative' = Append(toNative, d)
    BY <1>1, <1>5, <2>3, AppendWire DEF WireInv
  <2> QED
    BY <1>2, <2>1, <2>2, <2>3
<1> QED
  BY <1>2, <1>4, <1>6, QuietKeeps DEF WireInv, Quietly

\* A delivery writes its interject once, before anything of it is on a stream, and
\* takes a refusal only from the reply.
LEMMA DeliveryWire ==
  ASSUME LaneInv, WireInv, NEW m \in Messages, DeliveryStep(m)
  PROVE  WireInv'
<1> USE DEF LaneInv
<1>1. UNCHANGED <<fromNative, enqueued>>
  BY DeliveryFrame DEF offWire
<1>2. CASE SubmitInterject(m)
  <2> DEFINE c == Call("interject", m)
  <2>1. /\ rpc[m] = "submit" /\ toNative' = Append(toNative, c)
        /\ attempted' = attempted \cup {m} /\ UNCHANGED derr
        /\ reply' = [reply EXCEPT ![m] = "pending"]
    BY <1>2 DEF SubmitInterject, Write
  <2>2. c \in CallFrame /\ \A n \in Messages : Call("interject", n) = c => n = m
    BY DEF Call, CallFrame
  <2>3. m \notin attempted
    BY <2>1 DEF RpcAccounted
  <2>4. m \notin enqueued /\ ~RefusedByGrok(m) /\ ~Interjecting(m)
    BY <2>3 DEF WireInv, WireAccounted
  <2>5. \A k \in DOMAIN toNative : toNative[k] # c
    BY <2>4 DEF Interjecting
  <2> HIDE DEF c
  <2>6. WireOnce' /\ \A n \in Messages : Interjecting(n)' => Interjecting(n) \/ n = m
    BY <2>1, <2>2, <2>5, AppendWire DEF WireInv, TypeOK
  <2>7. \A n \in Messages : RefusedByGrok(n)' => RefusedByGrok(n)
    BY <1>1, <2>1 DEF RefusedByGrok, Refusing, TypeOK, ConnTypeOK, Requests
  <2> QED
    BY <1>1, <2>1, <2>4, <2>6, <2>7 DEF WireInv, WireAccounted
<1>3. CASE ~SubmitInterject(m)
  <2>1. UNCHANGED toNative /\ attempted \subseteq attempted'
    BY <1>3 DEF DeliveryStep, Deliver, GateCancelled, TakeGate, AdmissionFails,
       RegisterDelivery, InterjectUnsubmitted, InterjectWriteAborted, InterjectReplied,
       DeliverySettles, SchedulingLost, InterjectAborts, CallerReturns,
       outside, nativeVars, owned, deliveryVars
  <2>2. \A n \in Messages : reply'[n] = "refused" => reply[n] = "refused"
    BY <1>3 DEF DeliveryStep, Deliver, GateCancelled, TakeGate, AdmissionFails,
       RegisterDelivery, InterjectUnsubmitted, InterjectWriteAborted, InterjectReplied,
       DeliverySettles, SchedulingLost, InterjectAborts, CallerReturns,
       outside, connVars, PendingFailure, Finish, Requests, TypeOK, ConnTypeOK
  <2>3. \A n \in Messages : derr'[n] = "refused" => derr[n] = "refused" \/ reply[n] = "refused"
    BY <1>3 DEF DeliveryStep, Deliver, GateCancelled, TakeGate, AdmissionFails,
       RegisterDelivery, InterjectUnsubmitted, InterjectWriteAborted, InterjectReplied,
       DeliverySettles, SchedulingLost, InterjectAborts, CallerReturns,
       owned, deliveryVars, TypeOK, DeliveryTypeOK
  <2>4. WireOnce'
    BY <2>1 DEF WireInv, WireOnce
  <2>5. Quietly
    BY <1>1, <2>1, <2>2, <2>3 DEF Quietly, Interjecting, RefusedByGrok, Refusing
  <2> QED
    BY <2>4, <2>5, QuietKeeps DEF WireInv
<1> QED
  BY <1>2, <1>3

\* The reader moves a refusal from the stream to the reply.
LEMMA ReaderWire ==
  ASSUME TypeOK, WireInv, ReaderStep
  PROVE  WireInv'
<1>1. UNCHANGED <<toNative, enqueued, attempted, derr>>
  BY ReaderFrame
<1>2. NativeTypeOK
  BY DEF TypeOK
<1>3. \A m \in Messages : RefusedByGrok(m)' => RefusedByGrok(m)
  <2>1. CASE ReceiveReply
    <3> DEFINE x == Head(fromNative).id
               said == Head(fromNative).status
    <3>0. /\ fromNative # <<>> /\ Head(fromNative).type = "reply" /\ fromNative' = Tail(fromNative)
          /\ reply' = [reply EXCEPT ![x] = IF reply[x] = "pending" THEN said ELSE reply[x]]
      BY <2>1 DEF ReceiveReply, NextFrame, Consume
    <3>1. \A m \in Messages : reply'[m] = "refused" =>
            reply[m] = "refused" \/ (x = m /\ said = "refused")
      <4>1. DOMAIN reply = Requests
        BY DEF TypeOK, ConnTypeOK
      <4> HIDE DEF x, said
      <4> QED
        BY <3>0, <4>1 DEF Requests
    <3>2. Head(fromNative) \in NativeFrame
      BY <1>2, <3>0 DEF NativeTypeOK
    <3>3. Head(fromNative) = Frame("reply", Head(fromNative).id, Head(fromNative).status)
      BY <3>0, <3>2 DEF NativeFrame, Frame
    <3> QED
      BY <1>1, <1>2, <3>0, <3>1, <3>3, TailRefusals DEF RefusedByGrok
  <2>2. CASE ReceiveRunning \/ ReceiveAck \/ ReceiveCompleted \/ ReceiveOverflow
    <3>1. fromNative # <<>> /\ fromNative' = Tail(fromNative) /\ UNCHANGED reply
      BY <2>2 DEF ReceiveRunning, ReceiveAck, ReceiveCompleted, ReceiveOverflow,
         NextFrame, Consume, connVars
    <3> QED
      BY <1>1, <1>2, <3>1, TailRefusals DEF RefusedByGrok
  <2>3. CASE ReaderFails \/ ReaderExits
    <3>1. UNCHANGED fromNative /\ \A m \in Messages : reply'[m] = "refused" => reply[m] = "refused"
      BY <2>3 DEF ReaderFails, ReaderExits, PendingFailure, Finish, nativeVars, Requests
    <3> QED
      BY <1>1, <3>1 DEF RefusedByGrok, Refusing
  <2> QED
    BY <2>1, <2>2, <2>3 DEF ReaderStep
<1>4. WireOnce' /\ Quietly
  BY <1>1, <1>3 DEF WireInv, WireOnce, Quietly, Interjecting
<1> QED
  BY <1>4, QuietKeeps DEF WireInv

\* Grok answers or takes an interject when it reads it, once.
LEMMA GrokWire ==
  ASSUME TypeOK, WireInv, NativeStep \/ NativeFault \/ NativeExits
  PROVE  WireInv'
<1>1. NativeTypeOK /\ UNCHANGED <<reply, derr, attempted>>
  BY GrokFrame DEF TypeOK, Wrapper, connVars, owned, deliveryVars
<1> USE <1>1 DEF WireInv
<1>2. ASSUME UNCHANGED <<toNative, enqueued>>,
             \A m \in Messages : Refusing(m)' => Refusing(m)
      PROVE  WireInv'
  <2>1. WireOnce' /\ Quietly
    BY <1>2 DEF WireOnce, Quietly, Interjecting, RefusedByGrok
  <2> QED
    BY <2>1, QuietKeeps
<1>3. ASSUME toNative # <<>>, toNative' = Tail(toNative), UNCHANGED enqueued,
             \A m \in Messages : Refusing(m)' => Refusing(m)
      PROVE  WireInv'
  <2>1. WireOnce' /\ Quietly
    BY <1>3, TailWire DEF Quietly, RefusedByGrok
  <2> QED
    BY <2>1, QuietKeeps
<1>4. ASSUME NEW x \in Requests, NEW why \in {"end_turn", "cancelled"},
             NEW frames \in EndFrames(x, why), Emit(frames)
      PROVE  \A m \in Messages : Refusing(m)' => Refusing(m)
  <2> DEFINE f == Frame("completed", x, why)
             g == Frame("reply", x, "ok")
  <2>1. frames \in {<<f>>, <<f, g>>, <<g, f>>}
    BY DEF EndFrames
  <2>2. /\ f \in NativeFrame /\ g \in NativeFrame
        /\ \A m \in Messages : f # Frame("reply", m, "refused") /\ g # Frame("reply", m, "refused")
    BY FrameType DEF Frame
  <2> HIDE DEF f, g
  <2> QED
    BY <1>4, <2>1, <2>2, EmitRefusals
<1>5. ASSUME NEW x \in Requests, NEW type \in {"running", "chunk", "reply"},
             Emit(<<Frame(type, x, "ok")>>)
      PROVE  \A m \in Messages : Refusing(m)' => Refusing(m)
  <2> DEFINE f == Frame(type, x, "ok")
  <2>1. f \in NativeFrame /\ \A m \in Messages : f # Frame("reply", m, "refused")
    BY FrameType DEF Frame
  <2>2. Emit(<<f>>)
    BY <1>5
  <2> HIDE DEF f
  <2> QED
    BY <2>1, <2>2, EmitRefusals
<1>6. CASE TakeInterject
  <2>1. toNative # <<>> /\ Head(toNative).type = "interject" /\ toNative' = Tail(toNative)
    BY <1>6 DEF TakeInterject, NextCall
  <2>2. PICK x \in Messages : x = Head(toNative).id /\ Head(toNative) = Call("interject", x)
    <3>1. Head(toNative) \in CallFrame
      BY <2>1 DEF NativeTypeOK
    <3> QED
      BY <2>1, <3>1 DEF CallFrame, Call
  <2> DEFINE f == Frame("reply", x, "ok")
             g == Frame("ack", x, "ok")
  <2>3. enqueued' = enqueued \cup {x} /\ (Emit(<<f, g>>) \/ Emit(<<g>>))
    BY <1>6, <2>2 DEF TakeInterject
  <2>4. /\ f \in NativeFrame /\ g \in NativeFrame
        /\ \A m \in Messages : f # Frame("reply", m, "refused") /\ g # Frame("reply", m, "refused")
    BY FrameType DEF Frame, Requests
  <2> HIDE DEF f, g
  <2>5. \A m \in Messages : RefusedByGrok(m)' => RefusedByGrok(m)
    BY <2>3, <2>4, EmitRefusals DEF RefusedByGrok
  <2>6. /\ WireOnce' /\ Interjecting(x) /\ ~Interjecting(x)'
        /\ \A m \in Messages : Interjecting(m)' => Interjecting(m)
    BY <2>1, <2>2, TailWire
  <2> QED
    BY <2>3, <2>5, <2>6 DEF WireAccounted
<1>7. CASE RefuseCall
  <2>1. /\ toNative # <<>> /\ Head(toNative).type \in {"prompt", "interject"}
        /\ toNative' = Tail(toNative) /\ UNCHANGED enqueued
    BY <1>7 DEF RefuseCall, NextCall
  <2>2. PICK x \in Requests : x = Head(toNative).id
                              /\ (x \in Messages => Head(toNative) = Call("interject", x))
    <3>1. Head(toNative) \in CallFrame
      BY <2>1 DEF NativeTypeOK
    <3> QED
      BY <2>1, <3>1, NativeAssumption DEF CallFrame, Call, Requests
  <2> DEFINE f == Frame("reply", x, "refused")
  <2>3. Emit(<<f>>)
    BY <1>7, <2>2 DEF RefuseCall
  <2>4. f \in NativeFrame /\ \A m \in Messages : f = Frame("reply", m, "refused") => m = x
    BY FrameType DEF Frame
  <2> HIDE DEF f
  <2>5. \A m \in Messages : RefusedByGrok(m)' => RefusedByGrok(m) \/ m = x
    BY <2>3, <2>4, EmitRefusals DEF RefusedByGrok
  <2>6. /\ WireOnce' /\ (x \in Messages => Interjecting(x) /\ ~Interjecting(x)')
        /\ \A m \in Messages : Interjecting(m)' => Interjecting(m)
    BY <2>1, <2>2, TailWire
  <2> QED
    BY <2>1, <2>5, <2>6 DEF WireAccounted
<1>8. CASE TakePrompt \/ Drain \/ Exit
  <2>1. UNCHANGED <<fromNative, enqueued>>
    BY <1>8 DEF TakePrompt, Drain, Exit
  <2>2. toNative' = toNative \/ (toNative # <<>> /\ toNative' = Tail(toNative))
    BY <1>8 DEF TakePrompt, Drain, Exit, NextCall
  <2>3. \A m \in Messages : Refusing(m)' => Refusing(m)
    BY <2>1 DEF Refusing
  <2> QED
    BY <1>2, <1>3, <2>1, <2>2, <2>3
<1>9. CASE TakeCancel
  <2>1. toNative # <<>> /\ toNative' = Tail(toNative) /\ UNCHANGED enqueued
    BY <1>9 DEF TakeCancel, NextCall
  <2>2. \A m \in Messages : Refusing(m)' => Refusing(m)
    <3>1. CASE UNCHANGED fromNative
      BY <3>1 DEF Refusing
    <3>2. CASE running # None
      BY <1>4, <1>9, <3>2 DEF TakeCancel, NativeTypeOK
    <3> QED
      BY <1>9, <3>1, <3>2 DEF TakeCancel
  <2> QED
    BY <1>3, <2>1, <2>2
<1>10. CASE EndRunning
  <2>1. \A m \in Messages : Refusing(m)' => Refusing(m)
    BY <1>4, <1>10 DEF EndRunning, NativeTypeOK
  <2> QED
    BY <1>2, <1>10, <2>1 DEF EndRunning
<1>11. ASSUME NEW m \in Messages, ReplyLate(m) PROVE WireInv'
  BY <1>2, <1>5, <1>11 DEF ReplyLate, Requests
<1>12. ASSUME NEW i \in Requests, StartRunning(i) PROVE WireInv'
  <2>1. UNCHANGED fromNative => \A m \in Messages : Refusing(m)' => Refusing(m)
    BY DEF Refusing
  <2> QED
    BY <1>2, <1>5, <1>12, <2>1 DEF StartRunning
<1>13. CASE Overflow
  BY <1>2, <1>5, <1>13 DEF Overflow, NativeTypeOK
<1> QED
  BY <1>6, <1>7, <1>8, <1>9, <1>10, <1>11, <1>12, <1>13
     DEF NativeStep, NativeFault, NativeExits, NativeWork

LEMMA WireKept == LaneInv /\ WireInv /\ [Next]_vars => WireInv'
<1> SUFFICES ASSUME LaneInv, WireInv, [Next]_vars PROVE WireInv'
  OBVIOUS
<1>0. TypeOK
  BY DEF LaneInv
<1>1. ASSUME UNCHANGED <<nativeVars, connVars, deliveryVars>> PROVE WireInv'
  BY <1>1, StillWire, QuietKeeps DEF WireInv, Quietly, nativeVars, connVars, deliveryVars
<1>2. CASE SDKStep
  BY <1>1, <1>2, SDKFrame
<1>3. CASE UNCHANGED vars
  BY <1>1, <1>3 DEF vars, outside, owned
<1> QED
  BY <1>0, <1>2, <1>3, RunWire, PromptWire, DeliveryWire, ReaderWire, GrokWire DEF Next

LEMMA RefusalKept == LaneInv /\ RefusalFinal /\ [Next]_vars => RefusalFinal'
<1> SUFFICES ASSUME LaneInv, RefusalFinal, [Next]_vars PROVE RefusalFinal'
  OBVIOUS
<1>0. UNCHANGED <<derr, rpc, caller>> => RefusalFinal'
  BY DEF RefusalFinal
<1>1. ASSUME NEW m \in Messages, DeliveryStep(m) PROVE RefusalFinal'
  <2> USE <1>1 DEF LaneInv, RefusalFinal, TypeOK, GoTypeOK, DeliveryTypeOK
  <2>1. CASE Deliver(m) \/ GateCancelled(m) \/ TakeGate(m) \/ AdmissionFails(m)
    BY <2>1 DEF Deliver, GateCancelled, TakeGate, AdmissionFails, Step, callerOthers,
       owned, deliveryVars
  <2>2. CASE RegisterDelivery(m)
    <3>1. caller[m] = "admission" /\ rpc[m] = "idle"
      BY <2>2 DEF RegisterDelivery, CallerBound
    <3> QED
      BY <2>2, <3>1 DEF RegisterDelivery, Step, deliveryVars
  <2>3. CASE CallerReturns(m)
    BY <2>3 DEF CallerReturns, CallerOutcome, Step, callerOthers, owned, deliveryVars
  <2>4. CASE SubmitInterject(m) \/ InterjectWriteAborted(m)
    BY <2>4 DEF SubmitInterject, InterjectWriteAborted, rpcOthers, others
  <2>5. CASE InterjectUnsubmitted(m) \/ InterjectReplied(m) \/ SchedulingLost(m)
    BY <2>5 DEF InterjectUnsubmitted, InterjectReplied, SchedulingLost, others
  <2>6. CASE DeliverySettles(m) \/ InterjectAborts(m)
    BY <2>6 DEF DeliverySettles, InterjectAborts, rpcOthers, others, owned, deliveryVars
  <2> QED
    BY <2>1, <2>2, <2>3, <2>4, <2>5, <2>6 DEF DeliveryStep
<1>2. CASE SDKStep
  <2>1. UNCHANGED <<derr, rpc>>
    BY <1>2, SDKFrame DEF deliveryVars
  <2>2. \A m \in Messages : caller'[m] = "refused" => caller[m] = "refused"
    BY <1>2 DEF SDKStep, CaptureRun, CancelCaller, InterruptRun, CancelRun, FinishRun, Close,
       Step, callbackOthers, goVars, others, LaneInv, TypeOK, GoTypeOK
  <2> QED
    BY <2>1, <2>2 DEF RefusalFinal
<1>3. ASSUME NEW r \in Runs, ExecStep(r) \/ SenderStep(r) \/ InterruptStep(r) PROVE RefusalFinal'
  BY <1>0, <1>3, ExecFrame, SenderFrame, InterruptFrame DEF deliveryVars, senderOthers
<1>4. CASE ReaderStep
  BY <1>0, <1>4, ReaderFrame DEF others
<1>5. CASE NativeStep \/ NativeFault \/ NativeExits
  BY <1>0, <1>5, GrokFrame DEF Wrapper, owned, deliveryVars, goVars, others
<1>6. CASE UNCHANGED vars
  BY <1>0, <1>6 DEF vars, owned, deliveryVars, goVars, others
<1> QED
  BY <1>1, <1>2, <1>3, <1>4, <1>5, <1>6 DEF Next

-----------------------------------------------------------------------------
(* Every step is one of the contract's, or none.                           *)

StageOf == [m \in Messages |-> Stage(m)]
AnswerOf == [m \in Messages |-> Answer(m)]

\* Nothing happened to any message, as far as the contract can see.
LEMMA Invisible ==
  ASSUME \A m \in Messages : m \in attempted' <=> m \in attempted, UNCHANGED enqueued,
         \A m \in Messages : Answer(m)' = Answer(m)
  PROVE  UNCHANGED Contract!vars
<1>1. \A m \in Messages : Stage(m)' = Stage(m)
  BY DEF Stage
<1>2. StageOf' = StageOf /\ AnswerOf' = AnswerOf
  BY <1>1 DEF StageOf, AnswerOf
<1> QED
  BY <1>2 DEF Contract!vars, StageOf, AnswerOf

LEMMA SameAnswer == UNCHANGED caller => \A m \in Messages : Answer(m)' = Answer(m)
BY DEF Answer

\* The write of an interject is the attempt.
LEMMA AttemptMaps ==
  ASSUME LaneInv, WireInv, NEW m \in Messages, SubmitInterject(m) \/ InterjectWriteAborted(m)
  PROVE  Contract!Next
<1>1. rpc[m] = "submit" /\ attempted' = attempted \cup {m} /\ UNCHANGED <<enqueued, caller>>
  BY DEF SubmitInterject, InterjectWriteAborted, Write, offWire, nativeVars, rpcOthers, others
<1>2. m \notin attempted /\ caller[m] \notin {"notRunning", "rejected"}
  BY <1>1 DEF LaneInv, CallerBound, RpcAccounted
<1>3. m \notin enqueued
  BY <1>2 DEF WireInv, WireAccounted
<1>4. StageOf[m] = "unsent" /\ StageOf' = [StageOf EXCEPT ![m] = "attempted"]
  BY <1>1, <1>2, <1>3 DEF StageOf, Stage
<1>5. AnswerOf[m] # "unsubmitted" /\ AnswerOf' = AnswerOf
  BY <1>1, <1>2, SameAnswer DEF AnswerOf, Answer, LaneInv, TypeOK, GoTypeOK, CallerPC, Receipts,
     Refusals
<1> QED
  BY <1>4, <1>5 DEF Contract!Next, Contract!Attempt, StageOf, AnswerOf

\* Grok's actor enqueues what was attempted and not refused.
LEMMA EnqueueMaps ==
  ASSUME LaneInv, WireInv, RefusalFinal, TakeInterject, Wrapper
  PROVE  Contract!Next
<1>1. NativeTypeOK /\ UNCHANGED <<attempted, caller>>
  BY DEF LaneInv, TypeOK, Wrapper, owned, deliveryVars, goVars, others
<1>2. toNative # <<>> /\ Head(toNative).type = "interject" /\ toNative' = Tail(toNative)
  BY DEF TakeInterject, NextCall
<1>3. PICK m \in Messages : m = Head(toNative).id /\ Head(toNative) = Call("interject", m)
  <2>1. Head(toNative) \in CallFrame
    BY <1>1, <1>2 DEF NativeTypeOK
  <2> QED
    BY <1>2, <2>1 DEF CallFrame, Call
<1>4. enqueued' = enqueued \cup {m}
  BY <1>3 DEF TakeInterject
<1>5. Interjecting(m)
  BY <1>1, <1>2, <1>3, TailWire DEF WireInv
<1>6. m \in attempted /\ m \notin enqueued /\ derr[m] # "refused"
  BY <1>5 DEF WireInv, WireAccounted, RefusedByGrok
<1>7. StageOf[m] = "attempted" /\ StageOf' = [StageOf EXCEPT ![m] = "enqueued"]
  BY <1>1, <1>4, <1>6 DEF StageOf, Stage
<1>8. AnswerOf' = AnswerOf
  BY <1>1, SameAnswer DEF AnswerOf
<1>9. AnswerOf[m] # "refused"
  BY <1>6 DEF AnswerOf, Answer, RefusalFinal
<1> QED
  BY <1>7, <1>8, <1>9 DEF Contract!Next, Contract!Enqueue, StageOf, AnswerOf

\* A callback that ends says what is true of its message.
LEMMA AnswerMaps ==
  ASSUME LaneInv, LaneInv', AckedEnqueued, WireInv, RefusalFinal', NEW m \in Messages,
         UNCHANGED <<attempted, enqueued, acked>>,
         caller[m] \in CallerPC, NEW pc \in Receipts \cup {"none"},
         caller' = [caller EXCEPT ![m] = pc], pc = "refused" => UNCHANGED derr
  PROVE  Contract!Next
<1> DEFINE a == Answer(m)'
<1>1. caller'[m] = pc /\ \A n \in Messages : n # m => caller'[n] = caller[n]
  BY DEF LaneInv, TypeOK, GoTypeOK
<1>2. /\ a \in {"unsubmitted", "refused", "injected", "unknown"}
      /\ a = "unsubmitted" => pc \in {"notRunning", "rejected"}
      /\ a = "refused" => pc = "refused"
      /\ a = "injected" => pc = "injected"
  BY <1>1 DEF Answer, CallerPC, Receipts, Refusals
<1>3. a = "unsubmitted" => m \notin attempted
  BY <1>1, <1>2 DEF LaneInv, CallerBound, RpcAccounted
<1>4. a = "refused" => derr[m] = "refused"
  BY <1>1, <1>2 DEF RefusalFinal
<1>5. a = "injected" => m \in acked
  BY <1>1, <1>2 DEF LaneInv, CallerBound
<1>6. /\ a = "unsubmitted" => Stage(m) = "unsent"
      /\ a = "refused" => Stage(m) = "attempted"
      /\ a = "injected" => Stage(m) = "enqueued"
  BY <1>3, <1>4, <1>5 DEF WireInv, WireAccounted, RefusedByGrok, AckedEnqueued, Stage
<1>7. Answer(m) = "none"
  BY DEF Answer, CallerPC
<1>8. \A n \in Messages : n # m => Answer(n)' = Answer(n)
  BY <1>1 DEF Answer
<1>10. StageOf' = StageOf
  <2>1. \A n \in Messages : Stage(n)' = Stage(n)
    BY DEF Stage
  <2> QED
    BY <2>1 DEF StageOf
<1> HIDE DEF a
<1>9. AnswerOf' = [AnswerOf EXCEPT ![m] = a]
  BY <1>8 DEF AnswerOf, a
<1> QED
  BY <1>2, <1>6, <1>7, <1>9, <1>10
     DEF Contract!Next, Contract!Answer, Contract!Answers, Contract!Truthful, StageOf, AnswerOf

\* What a delivery does besides attempting: it moves on, or ends.
LEMMA DeliveryMaps ==
  ASSUME LaneInv, LaneInv', AckedEnqueued, WireInv, RefusalFinal, RefusalFinal',
         NEW m \in Messages, DeliveryStep(m)
  PROVE  Contract!Next \/ UNCHANGED Contract!vars
<1>1. UNCHANGED <<enqueued, acked>>
  BY DeliveryFrame DEF offWire
<1>2. CASE SubmitInterject(m) \/ InterjectWriteAborted(m)
  BY <1>2, AttemptMaps
<1>3. CASE \/ InterjectUnsubmitted(m) \/ InterjectReplied(m) \/ DeliverySettles(m)
           \/ SchedulingLost(m) \/ InterjectAborts(m)
  <2>1. UNCHANGED <<attempted, caller>>
    BY <1>3 DEF InterjectUnsubmitted, InterjectReplied, DeliverySettles, SchedulingLost,
       InterjectAborts, owned, deliveryVars, rpcOthers, others
  <2> QED
    BY <1>1, <2>1, Invisible, SameAnswer
<1>4. CASE \/ Deliver(m) \/ GateCancelled(m) \/ TakeGate(m) \/ AdmissionFails(m)
           \/ RegisterDelivery(m) \/ CallerReturns(m)
  <2>1. UNCHANGED <<attempted, derr>> /\ caller[m] \in CallerPC
    BY <1>4 DEF Deliver, GateCancelled, TakeGate, AdmissionFails, RegisterDelivery, CallerReturns,
       owned, deliveryVars, CallerPC
  <2>2. PICK pc \in CallerPC \cup Receipts \cup {"none"} : caller' = [caller EXCEPT ![m] = pc]
    BY <1>4 DEF Deliver, GateCancelled, TakeGate, AdmissionFails, RegisterDelivery, CallerReturns,
       CallerOutcome, Step, CallerPC, Receipts, Refusals, LaneInv, TypeOK, DeliveryTypeOK
  <2>3. CASE pc \in CallerPC
    <3>1. \A n \in Messages : Answer(n)' = Answer(n)
      BY <2>1, <2>2, <2>3 DEF Answer, LaneInv, TypeOK, GoTypeOK, CallerPC
    <3> QED
      BY <1>1, <2>1, <3>1, Invisible
  <2>4. CASE pc \in Receipts \cup {"none"}
    BY <1>1, <2>1, <2>2, <2>4, AnswerMaps
  <2> QED
    BY <2>2, <2>3, <2>4
<1> QED
  BY <1>2, <1>3, <1>4 DEF DeliveryStep

\* Every step of the lane maps to a step of the contract or to none.
LEMMA StepMaps ==
  ASSUME LaneInv, LaneInv', AckedEnqueued, WireInv, RefusalFinal, RefusalFinal', [Next]_vars
  PROVE  [Contract!Next]_(Contract!vars)
<1>1. ASSUME UNCHANGED <<attempted, enqueued, caller>> PROVE UNCHANGED Contract!vars
  BY <1>1, Invisible, SameAnswer
<1>2. ASSUME NEW r \in Runs, ExecStep(r) \/ InterruptStep(r) PROVE UNCHANGED Contract!vars
  BY <1>1, <1>2, ExecFrame, InterruptFrame DEF nativeVars, deliveryVars, offWire
<1>3. ASSUME NEW r \in Runs, SenderStep(r) PROVE UNCHANGED Contract!vars
  <2>1. UNCHANGED <<enqueued, caller>>
    BY <1>3, SenderFrame DEF offWire, senderOthers
  <2>2. attempted' = attempted \/ attempted' = attempted \cup {r}
    BY <1>3 DEF SenderStep, SubmitPrompt, PromptUnsubmitted, PromptWriteAborted, PromptReplied,
       owned, deliveryVars
  <2>3. \A m \in Messages : m \in attempted' <=> m \in attempted
    BY <2>2, NativeAssumption
  <2> QED
    BY <2>1, <2>3, Invisible, SameAnswer
<1>4. CASE ReaderStep
  BY <1>1, <1>4, ReaderFrame DEF others
<1>5. CASE SDKStep
  <2>1. UNCHANGED <<attempted, enqueued>>
    BY <1>5, SDKFrame DEF nativeVars, deliveryVars
  <2>2. \A m \in Messages : Answer(m)' = Answer(m)
    <3>1. \A m \in Messages :
            caller'[m] = caller[m] \/ (caller[m] = "idle" /\ caller'[m] = "captured")
      BY <1>5 DEF SDKStep, CaptureRun, CancelCaller, InterruptRun, CancelRun, FinishRun, Close,
         Step, callbackOthers, goVars, others, LaneInv, TypeOK, GoTypeOK
    <3> QED
      BY <3>1 DEF Answer, CallerPC
  <2> QED
    BY <2>1, <2>2, Invisible
<1>6. CASE NativeStep \/ NativeFault \/ NativeExits
  <2>1. Wrapper /\ UNCHANGED <<attempted, caller>>
    BY <1>6, GrokFrame DEF Wrapper, owned, deliveryVars, goVars, others
  <2>2. UNCHANGED enqueued \/ TakeInterject
    BY <1>6 DEF NativeStep, NativeFault, NativeExits, NativeWork, TakePrompt, TakeCancel, Drain,
       EndRunning, ReplyLate, StartRunning, RefuseCall, Overflow, Exit
  <2> QED
    BY <1>1, <2>1, <2>2, EnqueueMaps
<1>7. CASE UNCHANGED vars
  BY <1>1, <1>7 DEF vars, outside, nativeVars, owned, deliveryVars, goVars, others
<1> QED
  BY <1>2, <1>3, <1>4, <1>5, <1>6, <1>7, DeliveryMaps DEF Next

LEMMA InitMaps == Init => Contract!Init
BY DEF Init, NativeInit, Contract!Init, Stage, Answer, CallerPC

-----------------------------------------------------------------------------
(* The theorems.                                                           *)

\* An interject is on the wire once, and what Grok refused it never takes.
THEOREM WireInvariant == Spec => [](WireInv /\ RefusalFinal)
<1>1. Init => WireInv /\ RefusalFinal
  <2> SUFFICES ASSUME Init PROVE WireInv /\ RefusalFinal
    OBVIOUS
  <2>1. /\ DOMAIN toNative = {} /\ DOMAIN fromNative = {} /\ enqueued = {}
        /\ \A m \in Messages : reply[m] = "none" /\ derr[m] = "none" /\ caller[m] = "idle"
    BY DEF Init, NativeInit, Requests
  <2> QED
    BY <2>1 DEF WireInv, WireOnce, WireAccounted, RefusalFinal, Interjecting, RefusedByGrok,
       Refusing
<1>2. LaneInv /\ WireInv /\ RefusalFinal /\ [Next]_vars => WireInv' /\ RefusalFinal'
  BY WireKept, RefusalKept
<1> QED
  BY LaneInvariant, <1>1, <1>2, PTL DEF Spec

\* The lane keeps the delivery contract: a message is handed over at most once and
\* the one answer about it is true and stays true.
THEOREM KeepsPromise == Spec => DeliveryPromise
<1>1. LaneInv /\ LaneInv' /\ AckedEnqueued /\ WireInv /\ RefusalFinal /\ RefusalFinal' /\ [Next]_vars
        => [Contract!Next]_(Contract!vars)
  BY StepMaps
<1> QED
  BY LaneInvariant, AckedEvidence, WireInvariant, InitMaps, <1>1, PTL
     DEF Spec, DeliveryPromise, Contract!Spec
=============================================================================
