-------------------------- MODULE AcpClientProofs --------------------------
(***************************************************************************)
(* Theorems about one ACP connection, for any number of calls of any kind, *)
(* any capacity, pipes of any room, and any frames from Grok.              *)
(*                                                                         *)
(* A call that waits has an id of its own, its entry in the table of       *)
(* pending replies and no reply, or a reply and no entry; an interject     *)
(* that waits has its admission key or an admission.  Whoever takes the    *)
(* entry or the key - the reader, finish, the call itself - leaves the     *)
(* call something to take.                                                 *)
(***************************************************************************)
EXTENDS AcpClient, FiniteSetTheorems, SequenceTheorems, TLAPS

Given == {q \in Calls : id[q] # 0}
InFlight == {"gate", "holding", "writing", "await"}
Keyed == InFlight \cup {"keyed", "queued", "failed", "leaving"}

\* Ids are given once, in order, to calls that register.
IdCount == next = Cardinality(Given)
IdsGiven ==
  /\ \A q \in Calls :
       /\ pc[q] \in {"idle", "keyed"} \/ q \in Cancels => id[q] = 0
       /\ pc[q] \in InFlight \cup {"declined"} /\ q \notin Cancels => id[q] # 0
       /\ pc[q] \in {"keyed", "queued", "await", "declined"} => q \notin Cancels
       /\ id[q] <= next
  /\ \A p \in Calls, q \in Calls : id[p] = id[q] /\ id[q] # 0 => p = q
  /\ \A i \in Calls : pending[i] # "absent" => i <= next

\* The table of pending replies against the calls that wait.
EntryOrReply ==
  \A q \in Calls :
    /\ pc[q] \in InFlight /\ q \notin Cancels /\ reply[q] = "none" => pending[id[q]] = "caller"
    /\ id[q] # 0 /\ pending[id[q]] = "caller" => reply[q] = "none" /\ pc[q] \in InFlight
    /\ pc[q] \in InFlight /\ q \notin Cancels => pending[id[q]] # "nil"
    /\ id[q] = 0 => reply[q] = "none"

\* The admission keys against the interjects that wait.
KeyOrAdmission ==
  \A q \in Calls :
    /\ q \in admissions => pc[q] \in Keyed /\ admitted[q] = "none"
    /\ q \in Interjects /\ pc[q] \in Keyed =>
         q \in admissions \/ admitted[q] # "none"
    /\ q \notin Interjects \/ pc[q] = "idle" => admitted[q] = "none"
    /\ pc[q] \in {"keyed", "queued"} => q \in Interjects

\* An interject whose request failed knows how, and what Grok refused it was told.
ResultKnown ==
  \A q \in Calls :
    /\ pc[q] \in {"failed", "leaving"} =>
         q \in Interjects /\ result[q] \in Outcomes \ {"ok", "declined"}
    /\ result[q] = "refused" => reply[q] = "refused"

\* A finished connection has nothing registered.
FinishedEmpty == err # "none" => Registered = {} /\ admissions = {}

AcpInv ==
  /\ TypeOK /\ IdCount /\ IdsGiven /\ EntryOrReply /\ KeyOrAdmission /\ FinishedEmpty
  /\ ResultKnown /\ WriteGateConserved

-----------------------------------------------------------------------------
(* The initial states, and the kinds of step.                              *)

LEMMA InvInit == Init => AcpInv
<1> SUFFICES ASSUME Init PROVE AcpInv
  OBVIOUS
<1>1. TypeOK
  BY AcpAssumption DEF Init, TypeOK, ClientTypeOK, CallTypeOK, WireTypeOK, Errors, PCs, Frames,
     NoFrame, Frame, Calls
<1>2. IdCount /\ IdsGiven
  <2>1. Given = {}
    BY DEF Init, Given
  <2> QED
    BY <2>1, FS_EmptySet DEF Init, IdCount, IdsGiven, InFlight
<1> QED
  BY <1>1, <1>2 DEF Init, AcpInv, EntryOrReply, KeyOrAdmission, FinishedEmpty, InFlight, Keyed,
     Registered, ResultKnown, WriteGateConserved, Writers, Outcomes

CallMoves(q) == CallStep(q) \/ Cancel(q) \/ GrokAnswers(q)
OtherMoves ==
  (\E q \in Interjects : GrokAcknowledges(q))
  \/ ReaderStep \/ CloseClient \/ GrokReads \/ GrokAsks \/ GrokWrites

LEMMA Kinds ==
  [Next]_vars <=> (\E q \in Calls : CallMoves(q)) \/ OtherMoves \/ UNCHANGED vars
BY DEF Next, CallMoves, OtherMoves

LEMMA GateKept ==
  ASSUME TypeOK, ResultKnown, WriteGateConserved, [Next]_vars
  PROVE  WriteGateConserved'
<1> USE DEF TypeOK, ClientTypeOK, CallTypeOK, WriteGateConserved, Writers, clientVars, callVars,
   grokVars, Outcomes, PCs
<1>1. ASSUME NEW q \in Calls, CallMoves(q) PROVE WriteGateConserved'
  <2>1. CASE RegisterKey(q)
    BY <2>1 DEF RegisterKey, Go
  <2>2. CASE Register(q)
    BY <2>2 DEF Register, Go, Return
  <2>3. CASE BeginCancel(q)
    BY <2>3 DEF BeginCancel, Go, Return
  <2>4. CASE TakeGate(q)
    BY <2>4 DEF TakeGate, Go
  <2>5. CASE GiveUp(q)
    <3>1. PICK outcome \in {"writeFailed", "declined"} : Unsent(q, outcome)
      BY <2>5 DEF GiveUp
    <3>2. /\ gate' = (gate \/ pc[q] # "gate") /\ reader' = reader
          /\ pc' \in [Calls -> PCs \cup Outcomes]
          /\ pc'[q] \notin {"holding", "writing"} /\ \A p \in Calls \ {q} : pc'[p] = pc[p]
      BY <2>5, <3>1 DEF GiveUp, Unsent, Return, Go
    <3>3. pc[q] \in {"gate", "holding"}
      BY <2>5 DEF GiveUp
    <3>4. CASE pc[q] = "gate"
      BY <3>2, <3>4
    <3>5. CASE pc[q] = "holding"
      <4>1. gate = FALSE /\ reader # "writing"
        BY <3>5
      <4>2. \A p \in Calls : p # q => pc[p] \notin {"holding", "writing"}
        BY <3>5
      <4>3. \A p \in Calls : pc'[p] \notin {"holding", "writing"}
        BY <3>2, <4>2
      <4> QED
        BY <3>2, <3>5, <4>1, <4>3
    <3> QED
      BY <3>3, <3>4, <3>5
  <2>6. CASE StartWrite(q)
    BY <2>6 DEF StartWrite, Go
  <2>7. CASE WriteDone(q)
    BY <2>7 DEF WriteDone, Go
  <2>8. CASE WriteBroken(q)
    BY <2>8, ZenonT(60) DEF WriteBroken, Unsent, Forgotten, Return, Go
  <2>9. CASE WriteCancelled(q)
    BY <2>9 DEF WriteCancelled, Finish
  <2>10. CASE TakeReply(q)
    BY <2>10 DEF TakeReply, NotQueued, Go, Return, IsQueued
  <2>11. CASE CancelWait(q)
    BY <2>11 DEF CancelWait, Return, Go, Drained
  <2>12. CASE TakeAdmission(q)
    BY <2>12 DEF TakeAdmission, Return, Go
  <2>13. CASE Cancel(q)
    BY <2>13 DEF Cancel
  <2>14. CASE GrokAnswers(q)
    BY <2>14 DEF GrokAnswers
  <2>15. CASE PollAdmission(q)
    BY <2>15 DEF PollAdmission, Poll, Go
  <2>16. CASE Leave(q)
    BY <2>16 DEF Leave, Go, ResultKnown
  <2> QED
    BY <1>1, <2>1, <2>2, <2>3, <2>4, <2>5, <2>6, <2>7, <2>8, <2>9, <2>10, <2>11, <2>12, <2>13,
       <2>14, <2>15, <2>16
       DEF CallMoves, CallStep
<1>2. ASSUME NEW q \in Interjects, GrokAcknowledges(q) PROVE WriteGateConserved'
  BY <1>2 DEF GrokAcknowledges
<1>3. CASE ReadResponse
  BY <1>3 DEF ReadResponse, NextFrame, Consume, Finish
<1>4. CASE ReadNotice
  BY <1>4 DEF ReadNotice, NextFrame, Consume
<1>5. CASE ReadOther
  BY <1>5 DEF ReadOther, NextFrame, Consume
<1>6. CASE ReadStray
  BY <1>6 DEF ReadStray, NextFrame, Finish
<1>7. CASE ReplyTakesGate
  BY <1>7 DEF ReplyTakesGate
<1>8. CASE ReplyWritten
  BY <1>8 DEF ReplyWritten
<1>9. CASE ReplyFails
  BY <1>9 DEF ReplyFails, Finish
<1>10. CASE ReaderExits
  BY <1>10 DEF ReaderExits
<1>11. CASE CloseClient
  BY <1>11 DEF CloseClient, Finish
<1>12. CASE GrokReads
  BY <1>12 DEF GrokReads
<1>13. CASE GrokAsks
  BY <1>13 DEF GrokAsks
<1>14. CASE GrokWrites
  BY <1>14 DEF GrokWrites
<1>15. CASE UNCHANGED vars
  BY <1>15 DEF vars
<1> QED
  BY Kinds, <1>1, <1>2, <1>3, <1>4, <1>5, <1>6, <1>7, <1>8, <1>9, <1>10, <1>11, <1>12, <1>13,
     <1>14, <1>15
     DEF OtherMoves, ReaderStep

-----------------------------------------------------------------------------
(* Types.  An id of its own is left for every call that has none.          *)

LEMMA CallsFinite == IsFiniteSet(Calls) /\ Cardinality(Calls) = NCalls
<1>1. 1 \in Int /\ NCalls \in Int /\ 1 <= NCalls
  BY AcpAssumption
<1> QED
  BY <1>1, FS_Interval DEF Calls

LEMMA IdLeft ==
  ASSUME TypeOK, IdCount, NEW q \in Calls, id[q] = 0
  PROVE  next + 1 \in Calls
<1>1. IsFiniteSet(Calls \ {q}) /\ Cardinality(Calls \ {q}) = NCalls - 1
  BY CallsFinite, FS_RemoveElement
<1>2. Given \subseteq Calls \ {q}
  BY DEF Given
<1>3. Cardinality(Given) <= Cardinality(Calls \ {q})
  BY <1>1, <1>2, FS_Subset
<1> QED
  BY <1>1, <1>3, AcpAssumption DEF Calls, TypeOK, ClientTypeOK, IdCount

\* What a response does, whatever its id and answer.
ResponseEffect(i, answer) ==
  /\ UNCHANGED <<next, gate, pc, id, result, cancelled, inbox, grokVars>>
  /\ outbox # <<>> /\ outbox' = Tail(outbox)
  /\ \/ pending[i] = "absent" /\ Finish("unmatched")
     \/ /\ pending[i] # "absent"
        /\ reply' = [q \in Calls |-> IF id[q] = i /\ pending[i] = "caller"
                                     THEN answer ELSE reply[q]]
        /\ pending' = [pending EXCEPT ![i] = "absent"]
        /\ UNCHANGED <<err, admissions, admitted>>
  /\ outbox[1] = Frame(IF answer = "ok" THEN "response" ELSE "refusal", i)
  /\ reader' \in {"reading", "exited"}

LEMMA Answered ==
  ASSUME WireTypeOK, ReadResponse
  PROVE  \E i \in Calls, answer \in {"ok", "refused"} : ResponseEffect(i, answer)
<1>1. outbox \in Seq(Frames) /\ outbox # <<>>
  BY DEF WireTypeOK, ReadResponse, NextFrame
<1>2. PICK f \in Frames : f = Head(outbox)
  BY <1>1
<1>3. PICK answer \in {"ok", "refused"} :
           answer = IF f.type = "response" THEN "ok" ELSE "refused"
  OBVIOUS
<1>4. f.type \in {"response", "refusal"} => f.id \in Calls
  BY DEF Frames, StrayFrames
<1>5. f.type \in {"response", "refusal"}
  BY <1>2 DEF ReadResponse, NextFrame
<1>6. outbox[1] = Frame(IF answer = "ok" THEN "response" ELSE "refusal", f.id)
  <2>1. outbox[1] = f
    BY <1>1, <1>2
  <2>2. f = Frame(f.type, f.id)
    BY DEF Frames, Frame
  <2> QED
    BY <1>3, <1>5, <2>1, <2>2
<1> QED
  BY <1>1, <1>2, <1>3, <1>4, <1>6 DEF ReadResponse, ResponseEffect, Consume, NextFrame

LEMMA ClientTypeKept ==
  ASSUME TypeOK, IdCount, IdsGiven, [Next]_vars
  PROVE  ClientTypeOK'
<1> USE DEF TypeOK, ClientTypeOK, CallTypeOK, IdsGiven, clientVars, callVars, grokVars, Errors,
   StrayFrames
<1>1. ASSUME NEW q \in Calls, CallMoves(q) PROVE ClientTypeOK'
  <2>1. CASE RegisterKey(q)
    BY <2>1 DEF RegisterKey, Go
  <2>2. CASE Register(q)
    <3>1. q \notin Cancels /\ id[q] = 0 /\ next + 1 \in Calls
      BY <2>2, IdLeft DEF Register
    <3> QED
      BY <2>2, <3>1 DEF Register, Go, Return, Calls
  <2>3. CASE BeginCancel(q)
    BY <2>3 DEF BeginCancel, Go, Return
  <2>4. CASE TakeGate(q)
    BY <2>4 DEF TakeGate, Go
  <2>5. CASE GiveUp(q)
    <3>1. gate' \in BOOLEAN
      BY <2>5 DEF GiveUp, Unsent, WriteBroken
    <3> QED
      BY <2>5, <3>1 DEF GiveUp, WriteBroken, Unsent, Forgotten, Return, Go
  <2>6. CASE StartWrite(q)
    BY <2>6 DEF StartWrite, Go
  <2>7. CASE WriteDone(q)
    BY <2>7 DEF WriteDone, Go
  <2>8. CASE WriteBroken(q)
    <3>1. gate' \in BOOLEAN
      BY <2>8 DEF GiveUp, Unsent, WriteBroken
    <3> QED
      BY <2>8, <3>1 DEF GiveUp, WriteBroken, Unsent, Forgotten, Return, Go
  <2>9. CASE WriteCancelled(q)
    BY <2>9 DEF WriteCancelled, Finish
  <2>10. CASE TakeReply(q)
    BY <2>10 DEF TakeReply, NotQueued, Go, Return, IsQueued
  <2>11. CASE CancelWait(q)
    BY <2>11 DEF CancelWait, Return, Go, Drained
  <2>12. CASE TakeAdmission(q)
    BY <2>12 DEF TakeAdmission, Return, Go
  <2>13. CASE Cancel(q)
    BY <2>13 DEF Cancel
  <2>14. CASE GrokAnswers(q)
    BY <2>14 DEF GrokAnswers
  <2>15. CASE PollAdmission(q)
    BY <2>15 DEF PollAdmission, Poll, Go
  <2>16. CASE Leave(q)
    BY <2>16 DEF Leave, Go
  <2> QED
    BY <1>1, <2>1, <2>2, <2>3, <2>4, <2>5, <2>6, <2>7, <2>8, <2>9, <2>10, <2>11, <2>12, <2>13,
       <2>14, <2>15, <2>16
       DEF CallMoves, CallStep
<1>2. ASSUME NEW q \in Interjects, GrokAcknowledges(q) PROVE ClientTypeOK'
  BY <1>2 DEF GrokAcknowledges
<1>3. CASE ReadResponse
  <2>1. PICK i \in Calls, answer \in {"ok", "refused"} : ResponseEffect(i, answer)
    BY <1>3, Answered DEF TypeOK
  <2> QED
    BY <2>1 DEF ResponseEffect, Finish
<1>4. CASE ReadNotice
  BY <1>4 DEF ReadNotice, NextFrame, Consume
<1>5. CASE ReadOther
  BY <1>5 DEF ReadOther, NextFrame, Consume
<1>6. CASE ReadStray
  BY <1>6 DEF ReadStray, NextFrame, Finish
<1>7. CASE ReplyTakesGate
  BY <1>7 DEF ReplyTakesGate
<1>8. CASE ReplyWritten
  BY <1>8 DEF ReplyWritten
<1>9. CASE ReplyFails
  BY <1>9 DEF ReplyFails, Finish
<1>10. CASE ReaderExits
  BY <1>10 DEF ReaderExits
<1>11. CASE CloseClient
  BY <1>11 DEF CloseClient, Finish
<1>12. CASE GrokReads
  BY <1>12 DEF GrokReads
<1>13. CASE GrokAsks
  BY <1>13 DEF GrokAsks
<1>14. CASE GrokWrites
  BY <1>14 DEF GrokWrites
<1>15. CASE UNCHANGED vars
  BY <1>15 DEF vars
<1> QED
  BY Kinds, <1>1, <1>2, <1>3, <1>4, <1>5, <1>6, <1>7, <1>8, <1>9, <1>10, <1>11, <1>12, <1>13,
     <1>14, <1>15
     DEF OtherMoves, ReaderStep

LEMMA CallTypeKept ==
  ASSUME TypeOK, IdCount, IdsGiven, ResultKnown, [Next]_vars
  PROVE  CallTypeOK'
<1> USE DEF TypeOK, ClientTypeOK, CallTypeOK, clientVars, callVars, grokVars, PCs, Outcomes,
   IdsGiven
<1>1. ASSUME NEW q \in Calls, CallMoves(q) PROVE CallTypeOK'
  <2>1. CASE RegisterKey(q)
    BY <2>1 DEF RegisterKey, Go
  <2>2. CASE Register(q)
    <3>1. q \notin Cancels /\ id[q] = 0 /\ next + 1 \in Calls
      BY <2>2, IdLeft DEF Register
    <3> QED
      BY <2>2, <3>1 DEF Register, Go, Return, Calls
  <2>3. CASE BeginCancel(q)
    BY <2>3 DEF BeginCancel, Go, Return
  <2>4. CASE TakeGate(q)
    BY <2>4 DEF TakeGate, Go
  <2>5. CASE GiveUp(q)
    BY <2>5 DEF GiveUp, Unsent, Forgotten, Return, Go
  <2>6. CASE StartWrite(q)
    BY <2>6 DEF StartWrite, Go
  <2>7. CASE WriteDone(q)
    BY <2>7 DEF WriteDone, Go
  <2>8. CASE WriteBroken(q)
    BY <2>8 DEF WriteBroken, Unsent, Forgotten, Return, Go
  <2>9. CASE WriteCancelled(q)
    BY <2>9 DEF WriteCancelled, Finish
  <2>10. CASE TakeReply(q)
    BY <2>10 DEF TakeReply, NotQueued, Go, Return, IsQueued
  <2>11. CASE CancelWait(q)
    BY <2>11 DEF CancelWait, Return, Go, Drained
  <2>12. CASE TakeAdmission(q)
    BY <2>12 DEF TakeAdmission, Return, Go
  <2>13. CASE Cancel(q)
    BY <2>13 DEF Cancel
  <2>14. CASE GrokAnswers(q)
    BY <2>14 DEF GrokAnswers
  <2>15. CASE PollAdmission(q)
    BY <2>15 DEF PollAdmission, Poll, Go
  <2>16. CASE Leave(q)
    BY <2>16 DEF Leave, Go, ResultKnown
  <2> QED
    BY <1>1, <2>1, <2>2, <2>3, <2>4, <2>5, <2>6, <2>7, <2>8, <2>9, <2>10, <2>11, <2>12, <2>13,
       <2>14, <2>15, <2>16
       DEF CallMoves, CallStep
<1>2. ASSUME NEW q \in Interjects, GrokAcknowledges(q) PROVE CallTypeOK'
  BY <1>2 DEF GrokAcknowledges
<1>3. CASE ReadResponse
  <2>1. PICK i \in Calls, answer \in {"ok", "refused"} : ResponseEffect(i, answer)
    BY <1>3, Answered DEF TypeOK
  <2> QED
    BY <2>1 DEF ResponseEffect, Finish
<1>4. CASE ReadNotice
  BY <1>4 DEF ReadNotice, NextFrame, Consume
<1>5. CASE ReadOther
  BY <1>5 DEF ReadOther, NextFrame, Consume
<1>6. CASE ReadStray
  BY <1>6 DEF ReadStray, NextFrame, Finish
<1>7. CASE ReplyTakesGate
  BY <1>7 DEF ReplyTakesGate
<1>8. CASE ReplyWritten
  BY <1>8 DEF ReplyWritten
<1>9. CASE ReplyFails
  BY <1>9 DEF ReplyFails, Finish
<1>10. CASE ReaderExits
  BY <1>10 DEF ReaderExits
<1>11. CASE CloseClient
  BY <1>11 DEF CloseClient, Finish
<1>12. CASE GrokReads
  BY <1>12 DEF GrokReads
<1>13. CASE GrokAsks
  BY <1>13 DEF GrokAsks
<1>14. CASE GrokWrites
  BY <1>14 DEF GrokWrites
<1>15. CASE UNCHANGED vars
  BY <1>15 DEF vars
<1> QED
  BY Kinds, <1>1, <1>2, <1>3, <1>4, <1>5, <1>6, <1>7, <1>8, <1>9, <1>10, <1>11, <1>12, <1>13,
     <1>14, <1>15
     DEF OtherMoves, ReaderStep

LEMMA IdInCalls ==
  ASSUME CallTypeOK, NEW q \in Calls, id[q] # 0
  PROVE  id[q] \in Calls
BY DEF CallTypeOK, Calls

LEMMA FramesOfCalls ==
  /\ \A i \in Calls : /\ Frame("response", i) \in Frames /\ Frame("refusal", i) \in Frames
                      /\ Frame("notice", i) \in Frames /\ Frame("request", i) \in Frames
                      /\ Frame("string", i) \in Frames
  /\ \A type \in StrayFrames : Frame(type, 0) \in Frames
BY AcpAssumption DEF Frame, Frames, Calls

LEMMA WireTypeKept ==
  ASSUME TypeOK, [Next]_vars
  PROVE  WireTypeOK'
<1> USE DEF TypeOK, CallTypeOK, WireTypeOK, clientVars, callVars, grokVars, Frames, Frame, NoFrame
<1>1. ASSUME NEW q \in Calls, CallMoves(q) PROVE WireTypeOK'
  <2>1. CASE RegisterKey(q)
    BY <2>1 DEF RegisterKey, Go
  <2>2. CASE Register(q)
    BY <2>2 DEF Register, Go, Return
  <2>3. CASE BeginCancel(q)
    BY <2>3 DEF BeginCancel, Go, Return
  <2>4. CASE TakeGate(q)
    BY <2>4 DEF TakeGate, Go
  <2>5. CASE GiveUp(q)
    BY <2>5 DEF GiveUp, Unsent, Forgotten, Return, Go
  <2>6. CASE StartWrite(q)
    BY <2>6 DEF StartWrite, Go
  <2>7. CASE WriteDone(q)
    BY <2>7 DEF WriteDone, Go
  <2>8. CASE WriteBroken(q)
    BY <2>8 DEF WriteBroken, Unsent, Forgotten, Return, Go
  <2>9. CASE WriteCancelled(q)
    BY <2>9 DEF WriteCancelled, Finish
  <2>10. CASE TakeReply(q)
    BY <2>10 DEF TakeReply, NotQueued, Go, Return, IsQueued
  <2>11. CASE CancelWait(q)
    BY <2>11 DEF CancelWait, Return, Go, Drained
  <2>12. CASE TakeAdmission(q)
    BY <2>12 DEF TakeAdmission, Return, Go
  <2>13. CASE Cancel(q)
    BY <2>13 DEF Cancel
  <2>14. CASE GrokAnswers(q)
    <3>1. id[q] \in Calls
      <4>1. id[q] # 0
        BY <2>14 DEF GrokAnswers
      <4> QED
        BY <4>1, IdInCalls
    <3>2. hand' = Frame("response", id[q]) \/ hand' = Frame("refusal", id[q])
      BY <2>14 DEF GrokAnswers
    <3>3. hand' \in Frames
      BY <3>1, <3>2, FramesOfCalls
    <3>4. served' \in [Calls -> {"unread", "open", "ok", "refused"}]
      <4>1. CASE served' = [served EXCEPT ![id[q]] = "ok"]
        BY <4>1
      <4>2. CASE served' = [served EXCEPT ![id[q]] = "refused"]
        BY <4>2
      <4> QED
        BY <2>14, <4>1, <4>2 DEF GrokAnswers
    <3> QED
      BY <2>14, <3>3, <3>4 DEF GrokAnswers
  <2>15. CASE PollAdmission(q)
    BY <2>15 DEF PollAdmission, Poll, Go
  <2>16. CASE Leave(q)
    BY <2>16 DEF Leave, Go
  <2> QED
    BY <1>1, <2>1, <2>2, <2>3, <2>4, <2>5, <2>6, <2>7, <2>8, <2>9, <2>10, <2>11, <2>12, <2>13,
       <2>14, <2>15, <2>16
       DEF CallMoves, CallStep
<1>2. ASSUME NEW q \in Interjects, GrokAcknowledges(q) PROVE WireTypeOK'
  BY <1>2, AcpAssumption DEF GrokAcknowledges, Calls
<1>3. CASE ReadResponse
  <2>1. PICK i \in Calls, answer \in {"ok", "refused"} : ResponseEffect(i, answer)
    BY <1>3, Answered DEF TypeOK
  <2> QED
    BY <2>1 DEF ResponseEffect, Finish
<1>4. CASE ReadNotice
  BY <1>4 DEF ReadNotice, NextFrame, Consume
<1>5. CASE ReadOther
  BY <1>5 DEF ReadOther, NextFrame, Consume
<1>6. CASE ReadStray
  BY <1>6 DEF ReadStray, NextFrame, Finish
<1>7. CASE ReplyTakesGate
  BY <1>7 DEF ReplyTakesGate
<1>8. CASE ReplyWritten
  BY <1>8, AcpAssumption DEF ReplyWritten
<1>9. CASE ReplyFails
  BY <1>9 DEF ReplyFails, Finish
<1>10. CASE ReaderExits
  BY <1>10 DEF ReaderExits
<1>11. CASE CloseClient
  BY <1>11 DEF CloseClient, Finish
<1>12. CASE GrokReads
  BY <1>12 DEF GrokReads
<1>13. CASE GrokAsks
  <2>1. NCalls \in Calls /\ Stray \subseteq StrayFrames
    BY AcpAssumption DEF Calls
  <2>2. hand' \in Frames
    BY <1>13, <2>1, FramesOfCalls DEF GrokAsks
  <2>3. reversed' \in 0..MaxReverse
    BY <1>13, AcpAssumption DEF GrokAsks
  <2> QED
    BY <1>13, <2>2, <2>3 DEF GrokAsks
<1>14. CASE GrokWrites
  BY <1>14, AcpAssumption DEF GrokWrites
<1>15. CASE UNCHANGED vars
  BY <1>15 DEF vars
<1> QED
  BY Kinds, <1>1, <1>2, <1>3, <1>4, <1>5, <1>6, <1>7, <1>8, <1>9, <1>10, <1>11, <1>12, <1>13,
     <1>14, <1>15
     DEF OtherMoves, ReaderStep

-----------------------------------------------------------------------------
(* Ids, entries and keys.                                                  *)

LEMMA IdCountKept ==
  ASSUME TypeOK, IdCount, IdsGiven, [Next]_vars
  PROVE  IdCount'
<1> USE DEF IdCount, Given, clientVars, callVars, grokVars
<1>1. ASSUME NEW q \in Calls, CallMoves(q) PROVE IdCount'
  <2>1. CASE RegisterKey(q)
    BY <2>1 DEF RegisterKey, Go
  <2>2. CASE Register(q)
    <3>1. q \notin Cancels /\ id[q] = 0 /\ next + 1 \in Calls
      BY <2>2, IdLeft DEF Register, IdsGiven
    <3>2. CASE UNCHANGED <<id, next>>
      BY <3>2
    <3>3. CASE id' = [id EXCEPT ![q] = next + 1] /\ next' = next + 1
      <4>1. Given' = Given \cup {q} /\ q \notin Given
        <5>1. id \in [Calls -> 0..NCalls] /\ next + 1 # 0
          BY <3>1 DEF TypeOK, CallTypeOK, Calls
        <5>2. id'[q] # 0 /\ \A p \in Calls \ {q} : id'[p] = id[p]
          BY <3>3, <5>1
        <5> QED
          BY <3>1, <5>2
      <4>2. IsFiniteSet(Given)
        BY CallsFinite, FS_Subset
      <4>3. Cardinality(Given') = Cardinality(Given) + 1
        BY <4>1, <4>2, FS_AddElement
      <4> QED
        BY <4>3, <3>3
    <3> QED
      BY <2>2, <3>2, <3>3 DEF Register
  <2>3. CASE BeginCancel(q)
    BY <2>3 DEF BeginCancel, Go, Return
  <2>4. CASE TakeGate(q)
    BY <2>4 DEF TakeGate, Go
  <2>5. CASE GiveUp(q)
    BY <2>5 DEF GiveUp, Unsent, Forgotten, Return, Go
  <2>6. CASE StartWrite(q)
    BY <2>6 DEF StartWrite, Go
  <2>7. CASE WriteDone(q)
    BY <2>7 DEF WriteDone, Go
  <2>8. CASE WriteBroken(q)
    BY <2>8 DEF WriteBroken, Unsent, Forgotten, Return, Go
  <2>9. CASE WriteCancelled(q)
    BY <2>9 DEF WriteCancelled, Finish
  <2>10. CASE TakeReply(q)
    BY <2>10 DEF TakeReply, NotQueued, Go, Return, IsQueued
  <2>11. CASE CancelWait(q)
    BY <2>11 DEF CancelWait, Return, Go, Drained
  <2>12. CASE TakeAdmission(q)
    BY <2>12 DEF TakeAdmission, Return, Go
  <2>13. CASE Cancel(q)
    BY <2>13 DEF Cancel
  <2>14. CASE GrokAnswers(q)
    BY <2>14 DEF GrokAnswers
  <2>15. CASE PollAdmission(q)
    BY <2>15 DEF PollAdmission, Poll, Go
  <2>16. CASE Leave(q)
    BY <2>16 DEF Leave, Go
  <2> QED
    BY <1>1, <2>1, <2>2, <2>3, <2>4, <2>5, <2>6, <2>7, <2>8, <2>9, <2>10, <2>11, <2>12, <2>13,
       <2>14, <2>15, <2>16
       DEF CallMoves, CallStep
<1>2. ASSUME NEW q \in Interjects, GrokAcknowledges(q) PROVE IdCount'
  BY <1>2 DEF GrokAcknowledges
<1>3. CASE ReadResponse
  <2>1. PICK i \in Calls, answer \in {"ok", "refused"} : ResponseEffect(i, answer)
    BY <1>3, Answered DEF TypeOK
  <2> QED
    BY <2>1 DEF ResponseEffect, Finish
<1>4. CASE ReadNotice
  BY <1>4 DEF ReadNotice, NextFrame, Consume
<1>5. CASE ReadOther
  BY <1>5 DEF ReadOther, NextFrame, Consume
<1>6. CASE ReadStray
  BY <1>6 DEF ReadStray, NextFrame, Finish
<1>7. CASE ReplyTakesGate
  BY <1>7 DEF ReplyTakesGate
<1>8. CASE ReplyWritten
  BY <1>8 DEF ReplyWritten
<1>9. CASE ReplyFails
  BY <1>9 DEF ReplyFails, Finish
<1>10. CASE ReaderExits
  BY <1>10 DEF ReaderExits
<1>11. CASE CloseClient
  BY <1>11 DEF CloseClient, Finish
<1>12. CASE GrokReads
  BY <1>12 DEF GrokReads
<1>13. CASE GrokAsks
  BY <1>13 DEF GrokAsks
<1>14. CASE GrokWrites
  BY <1>14 DEF GrokWrites
<1>15. CASE UNCHANGED vars
  BY <1>15 DEF vars
<1> QED
  BY Kinds, <1>1, <1>2, <1>3, <1>4, <1>5, <1>6, <1>7, <1>8, <1>9, <1>10, <1>11, <1>12, <1>13,
     <1>14, <1>15
     DEF OtherMoves, ReaderStep

LEMMA IdsGivenKept ==
  ASSUME TypeOK, IdCount, IdsGiven, EntryOrReply, KeyOrAdmission, ResultKnown, [Next]_vars
  PROVE  IdsGiven'
<1> USE DEF TypeOK, ClientTypeOK, CallTypeOK, IdsGiven, InFlight, PCs, Outcomes, clientVars,
   callVars, grokVars
<1>1. ASSUME NEW q \in Calls, CallMoves(q) PROVE IdsGiven'
  <2>1. CASE RegisterKey(q)
    BY <2>1, AcpAssumption DEF RegisterKey, Go
  <2>2. CASE Register(q)
    <3>1. q \notin Cancels /\ id[q] = 0 /\ next + 1 \in Calls /\ next \in Nat
      BY <2>2, IdLeft DEF Register, Calls
    <3>2. CASE UNCHANGED <<next, id, pending>>
      <4>1. /\ pc'[q] \in (Outcomes \cup {"failed"}) \ {"declined"}
            /\ \A p \in Calls \ {q} : pc'[p] = pc[p]
        BY <2>2, <3>2, <3>1 DEF Register, Return, Go
      <4> QED
        BY <3>1, <3>2, <4>1
    <3>3. CASE /\ next' = next + 1 /\ id' = [id EXCEPT ![q] = next + 1]
               /\ pending' = [pending EXCEPT ![next + 1] = "caller"] /\ Go(q, "gate")
      <4>1. /\ pc'[q] = "gate" /\ id'[q] = next + 1 /\ id'[q] # 0
            /\ \A p \in Calls \ {q} : pc'[p] = pc[p] /\ id'[p] = id[p]
        BY <3>1, <3>3 DEF Go
      <4>2. \A p \in Calls : id[p] \in Nat /\ id[p] <= next /\ id[p] # next + 1
        BY <3>1
      <4>3. \A p \in Calls, r \in Calls : id'[p] = id'[r] /\ id'[p] # 0 => p = r
        BY <4>1, <4>2
      <4>4. \A i \in Calls : pending'[i] # "absent" => i <= next'
        BY <3>1, <3>3 DEF Calls
      <4> QED
        BY <3>1, <3>3, <4>1, <4>2, <4>3, <4>4
    <3> QED
      BY <2>2, <3>1, <3>2, <3>3 DEF Register
  <2>3. CASE BeginCancel(q)
    BY <2>3 DEF BeginCancel, Go, Return
  <2>4. CASE TakeGate(q)
    BY <2>4 DEF TakeGate, Go
  <2>5. CASE GiveUp(q)
    BY <2>5 DEF GiveUp, Unsent, Forgotten, Return, Go
  <2>6. CASE StartWrite(q)
    BY <2>6 DEF StartWrite, Go
  <2>7. CASE WriteDone(q)
    BY <2>7 DEF WriteDone, Go
  <2>8. CASE WriteBroken(q)
    BY <2>8 DEF WriteBroken, Unsent, Forgotten, Return, Go
  <2>9. CASE WriteCancelled(q)
    BY <2>9 DEF WriteCancelled, Finish
  <2>10. CASE TakeReply(q)
    BY <2>10 DEF TakeReply, NotQueued, Go, Return, IsQueued
  <2>11. CASE CancelWait(q)
    BY <2>11 DEF CancelWait, Return, Go, Drained
  <2>12. CASE TakeAdmission(q)
    BY <2>12 DEF TakeAdmission, Return, Go
  <2>13. CASE Cancel(q)
    BY <2>13 DEF Cancel
  <2>14. CASE GrokAnswers(q)
    BY <2>14 DEF GrokAnswers
  <2>15. CASE PollAdmission(q)
    BY <2>15 DEF PollAdmission, Poll, Go
  <2>16. CASE Leave(q)
    BY <2>16 DEF Leave, Go, ResultKnown
  <2> QED
    BY <1>1, <2>1, <2>2, <2>3, <2>4, <2>5, <2>6, <2>7, <2>8, <2>9, <2>10, <2>11, <2>12, <2>13,
       <2>14, <2>15, <2>16
       DEF CallMoves, CallStep
<1>2. ASSUME NEW q \in Interjects, GrokAcknowledges(q) PROVE IdsGiven'
  BY <1>2 DEF GrokAcknowledges
<1>3. CASE ReadResponse
  <2>1. PICK i \in Calls, answer \in {"ok", "refused"} : ResponseEffect(i, answer)
    BY <1>3, Answered DEF TypeOK
  <2> QED
    BY <2>1 DEF ResponseEffect, Finish
<1>4. CASE ReadNotice
  BY <1>4 DEF ReadNotice, NextFrame, Consume
<1>5. CASE ReadOther
  BY <1>5 DEF ReadOther, NextFrame, Consume
<1>6. CASE ReadStray
  BY <1>6 DEF ReadStray, NextFrame, Finish
<1>7. CASE ReplyTakesGate
  BY <1>7 DEF ReplyTakesGate
<1>8. CASE ReplyWritten
  BY <1>8 DEF ReplyWritten
<1>9. CASE ReplyFails
  BY <1>9 DEF ReplyFails, Finish
<1>10. CASE ReaderExits
  BY <1>10 DEF ReaderExits
<1>11. CASE CloseClient
  BY <1>11 DEF CloseClient, Finish
<1>12. CASE GrokReads
  BY <1>12 DEF GrokReads
<1>13. CASE GrokAsks
  BY <1>13 DEF GrokAsks
<1>14. CASE GrokWrites
  BY <1>14 DEF GrokWrites
<1>15. CASE UNCHANGED vars
  BY <1>15 DEF vars
<1> QED
  BY Kinds, <1>1, <1>2, <1>3, <1>4, <1>5, <1>6, <1>7, <1>8, <1>9, <1>10, <1>11, <1>12, <1>13,
     <1>14, <1>15
     DEF OtherMoves, ReaderStep

LEMMA FlightHasId ==
  ASSUME IdsGiven
  PROVE  \A q \in Calls : pc[q] \in InFlight /\ q \notin Cancels => id[q] # 0
BY DEF IdsGiven

\* What finish does to what waits.
LEMMA FinishTells ==
  ASSUME TypeOK, NEW e, Finish(e)
  PROVE  \/ UNCHANGED <<pending, reply, admissions, admitted>>
         \/ /\ \A i \in Calls : pending'[i] = "absent"
            /\ \A q \in Calls : reply'[q] = IF id[q] # 0 /\ pending[id[q]] = "caller"
                                            THEN "lost" ELSE reply[q]
            /\ \A q \in Calls : admitted'[q] = IF q \in admissions THEN "lost" ELSE admitted[q]
            /\ admissions' = {}
BY DEF Finish

LEMMA EntriesAfterFinish ==
  ASSUME TypeOK, IdsGiven, EntryOrReply, NEW e, Finish(e), UNCHANGED <<pc, id>>
  PROVE  EntryOrReply'
<1> USE DEF EntryOrReply
<1>1. \A q \in Calls : id[q] # 0 => id[q] \in Calls
  BY DEF TypeOK, CallTypeOK, Calls
<1>2. CASE UNCHANGED <<pending, reply>>
  BY <1>2
<1>3. ASSUME /\ \A i \in Calls : pending'[i] = "absent"
             /\ \A q \in Calls : reply'[q] = IF id[q] # 0 /\ pending[id[q]] = "caller"
                                             THEN "lost" ELSE reply[q]
      PROVE  EntryOrReply'
  <2> SUFFICES ASSUME NEW q \in Calls
               PROVE  /\ pc[q] \in InFlight /\ q \notin Cancels => reply'[q] # "none"
                      /\ id[q] # 0 => pending'[id[q]] = "absent"
                      /\ pc[q] \in InFlight /\ q \notin Cancels => pending'[id[q]] # "nil"
                      /\ id[q] = 0 => reply'[q] = "none"
    BY DEF InFlight
  <2>1. pc[q] \in InFlight /\ q \notin Cancels => id[q] # 0
    BY FlightHasId
  <2> QED
    BY <1>1, <1>3, <2>1
<1> QED
  BY <1>2, <1>3, FinishTells

LEMMA EntriesAfterUnsent ==
  ASSUME TypeOK, IdsGiven, EntryOrReply, NEW q \in Calls, NEW outcome \in Outcomes,
         Unsent(q, outcome), pc[q] \in InFlight, UNCHANGED <<id, reply>>
  PROVE  EntryOrReply'
<1>1. /\ pc'[q] \notin InFlight
      /\ \A p \in Calls \ {q} : pc'[p] = pc[p]
  BY DEF TypeOK, CallTypeOK, Unsent, Return, Go, Outcomes, InFlight
<1>2. \A i \in Calls : pending'[i] = IF i = id[q] THEN "absent" ELSE pending[i]
  BY DEF Unsent, Forgotten
<1>3. \A p \in Calls : id[p] # 0 => id[p] \in Calls
  BY DEF TypeOK, CallTypeOK, Calls
<1>4. \A p \in Calls : id[p] # 0 /\ p # q => pending'[id[p]] = pending[id[p]]
  BY <1>2, <1>3 DEF IdsGiven
<1>5. id[q] # 0 => pending'[id[q]] = "absent"
  BY <1>2, <1>3
<1>6. \A p \in Calls : pc[p] \in InFlight /\ p \notin Cancels => id[p] # 0
  BY FlightHasId
<1> QED
  BY <1>1, <1>4, <1>5, <1>6 DEF EntryOrReply

LEMMA EntryOrReplyKept ==
  ASSUME TypeOK, IdCount, IdsGiven, EntryOrReply, ResultKnown, [Next]_vars
  PROVE  EntryOrReply'
<1> USE DEF TypeOK, ClientTypeOK, CallTypeOK, IdsGiven, EntryOrReply, InFlight, PCs, Outcomes,
   clientVars, callVars, grokVars
<1>1. ASSUME NEW q \in Calls, CallMoves(q) PROVE EntryOrReply'
  <2>1. CASE RegisterKey(q)
    BY <2>1, AcpAssumption DEF RegisterKey, Go
  <2>2. CASE Register(q)
    <3>1. q \notin Cancels /\ id[q] = 0 /\ next + 1 \in Calls /\ next \in Nat
      BY <2>2, IdLeft DEF Register, Calls
    <3>2. CASE UNCHANGED <<next, id, pending>>
      <4>1. pc'[q] \in Outcomes \cup {"failed"} /\ \A p \in Calls \ {q} : pc'[p] = pc[p]
        BY <2>2, <3>2, <3>1 DEF Register, Return, Go
      <4> QED
        BY <2>2, <3>1, <3>2, <4>1 DEF Register
    <3>3. CASE /\ next' = next + 1 /\ id' = [id EXCEPT ![q] = next + 1]
               /\ pending' = [pending EXCEPT ![next + 1] = "caller"] /\ Go(q, "gate")
      <4>1. /\ pc'[q] = "gate" /\ id'[q] = next + 1 /\ id'[q] # 0
            /\ \A p \in Calls \ {q} : pc'[p] = pc[p] /\ id'[p] = id[p]
        BY <3>1, <3>3 DEF Go
      <4>2. \A p \in Calls : id[p] \in Nat /\ id[p] <= next /\ id[p] # next + 1
        BY <3>1
      <4>3. pending'[next + 1] = "caller"
        BY <3>1, <3>3
      <4>4. \A p \in Calls \ {q} : id[p] # 0 => pending'[id[p]] = pending[id[p]]
        BY <4>2, <3>3
      <4>5. UNCHANGED reply /\ reply[q] = "none"
        BY <2>2, <3>1 DEF Register
      <4>6. \A p \in Calls : pc[p] \in InFlight /\ p \notin Cancels => id[p] # 0
        BY FlightHasId
      <4> QED
        BY <4>1, <4>3, <4>4, <4>5, <4>6
    <3> QED
      BY <2>2, <3>1, <3>2, <3>3 DEF Register
  <2>3. CASE BeginCancel(q)
    BY <2>3 DEF BeginCancel, Go, Return
  <2>4. CASE TakeGate(q)
    BY <2>4 DEF TakeGate, Go
  <2>5. CASE GiveUp(q)
    <3>1. /\ \E outcome \in Outcomes : Unsent(q, outcome)
          /\ pc[q] \in InFlight /\ UNCHANGED <<id, reply>>
      BY <2>5 DEF GiveUp, WriteBroken, Outcomes, InFlight
    <3> QED
      BY <3>1, EntriesAfterUnsent
  <2>6. CASE StartWrite(q)
    BY <2>6 DEF StartWrite, Go
  <2>7. CASE WriteDone(q)
    BY <2>7 DEF WriteDone, Go
  <2>8. CASE WriteBroken(q)
    <3>1. /\ \E outcome \in Outcomes : Unsent(q, outcome)
          /\ pc[q] \in InFlight /\ UNCHANGED <<id, reply>>
      BY <2>8 DEF GiveUp, WriteBroken, Outcomes, InFlight
    <3> QED
      BY <3>1, EntriesAfterUnsent
  <2>9. CASE WriteCancelled(q)
    <3>1. (\E e : Finish(e)) /\ UNCHANGED <<pc, id>>
      BY <2>9 DEF WriteCancelled, ReadStray, ReplyFails, CloseClient
    <3> QED
      BY <3>1, EntriesAfterFinish
  <2>10. CASE TakeReply(q)
    BY <2>10 DEF TakeReply, NotQueued, Go, Return, IsQueued
  <2>11. CASE CancelWait(q)
    <3>1. /\ id[q] \in Calls /\ q \notin Cancels /\ UNCHANGED <<id, reply>>
          /\ pc'[q] \in Outcomes \cup {"failed"} /\ \A p \in Calls \ {q} : pc'[p] = pc[p]
      BY <2>11, FlightHasId DEF CancelWait, Return, Go, Calls
    <3>2. pending'[id[q]] = "nil"
      BY <2>11, <3>1 DEF CancelWait, Drained
    <3>3. \A p \in Calls \ {q} : id[p] # 0 => pending'[id[p]] = pending[id[p]]
      BY <2>11, <3>1 DEF CancelWait, Drained
    <3>4. \A p \in Calls : pc[p] \in InFlight /\ p \notin Cancels => id[p] # 0
      BY FlightHasId
    <3> QED
      BY <3>1, <3>2, <3>3, <3>4
  <2>12. CASE TakeAdmission(q)
    BY <2>12 DEF TakeAdmission, Return, Go
  <2>13. CASE Cancel(q)
    BY <2>13 DEF Cancel
  <2>14. CASE GrokAnswers(q)
    BY <2>14 DEF GrokAnswers
  <2>15. CASE PollAdmission(q)
    BY <2>15 DEF PollAdmission, Poll, Go
  <2>16. CASE Leave(q)
    BY <2>16 DEF Leave, Go, ResultKnown
  <2> QED
    BY <1>1, <2>1, <2>2, <2>3, <2>4, <2>5, <2>6, <2>7, <2>8, <2>9, <2>10, <2>11, <2>12, <2>13,
       <2>14, <2>15, <2>16
       DEF CallMoves, CallStep
<1>2. ASSUME NEW q \in Interjects, GrokAcknowledges(q) PROVE EntryOrReply'
  BY <1>2 DEF GrokAcknowledges
<1>3. CASE ReadResponse
  <2>1. PICK i \in Calls, answer \in {"ok", "refused"} : ResponseEffect(i, answer)
    BY <1>3, Answered DEF TypeOK
  <2>2. CASE Finish("unmatched")
    BY <2>1, <2>2, EntriesAfterFinish DEF ResponseEffect
  <2>3. CASE /\ reply' = [q \in Calls |-> IF id[q] = i /\ pending[i] = "caller"
                                          THEN answer ELSE reply[q]]
             /\ pending' = [pending EXCEPT ![i] = "absent"]
             /\ UNCHANGED <<err, admissions, admitted>>
    <3>1. /\ UNCHANGED <<pc, id>>
          /\ \A q \in Calls : reply'[q] = IF id[q] = i /\ pending[i] = "caller"
                                          THEN answer ELSE reply[q]
          /\ \A k \in Calls : pending'[k] = IF k = i THEN "absent" ELSE pending[k]
      BY <2>1, <2>3 DEF ResponseEffect
    <3>2. \A p \in Calls : id[p] # 0 => id[p] \in Calls
      BY DEF Calls
    <3>3. \A p \in Calls : pc[p] \in InFlight /\ p \notin Cancels => id[p] # 0
      BY FlightHasId
    <3>4. i # 0
      BY DEF Calls
    <3> HIDE DEF InFlight, TypeOK, IdsGiven
    <3> SUFFICES ASSUME NEW p \in Calls
                 PROVE  /\ pc[p] \in InFlight /\ p \notin Cancels /\ reply'[p] = "none" =>
                             pending'[id[p]] = "caller"
                        /\ id[p] # 0 /\ pending'[id[p]] = "caller" =>
                             reply'[p] = "none" /\ pc[p] \in InFlight
                        /\ pc[p] \in InFlight /\ p \notin Cancels => pending'[id[p]] # "nil"
                        /\ id[p] = 0 => reply'[p] = "none"
      BY <3>1
    <3>5. CASE id[p] = 0
      BY <3>1, <3>3, <3>4, <3>5 DEF EntryOrReply
    <3>6. CASE id[p] # 0 /\ id[p] = i
      BY <3>1, <3>2, <3>6
    <3>7. CASE id[p] # 0 /\ id[p] # i
      BY <3>1, <3>2, <3>7
    <3> QED
      BY <3>5, <3>6, <3>7
  <2> QED
    BY <2>1, <2>2, <2>3 DEF ResponseEffect
<1>4. CASE ReadNotice
  BY <1>4 DEF ReadNotice, NextFrame, Consume
<1>5. CASE ReadOther
  BY <1>5 DEF ReadOther, NextFrame, Consume
<1>6. CASE ReadStray
  <2>1. (\E e : Finish(e)) /\ UNCHANGED <<pc, id>>
    BY <1>6 DEF WriteCancelled, ReadStray, ReplyFails, CloseClient
  <2> QED
    BY <2>1, EntriesAfterFinish
<1>7. CASE ReplyTakesGate
  BY <1>7 DEF ReplyTakesGate
<1>8. CASE ReplyWritten
  BY <1>8 DEF ReplyWritten
<1>9. CASE ReplyFails
  <2>1. (\E e : Finish(e)) /\ UNCHANGED <<pc, id>>
    BY <1>9 DEF WriteCancelled, ReadStray, ReplyFails, CloseClient
  <2> QED
    BY <2>1, EntriesAfterFinish
<1>10. CASE ReaderExits
  BY <1>10 DEF ReaderExits
<1>11. CASE CloseClient
  <2>1. (\E e : Finish(e)) /\ UNCHANGED <<pc, id>>
    BY <1>11 DEF WriteCancelled, ReadStray, ReplyFails, CloseClient
  <2> QED
    BY <2>1, EntriesAfterFinish
<1>12. CASE GrokReads
  BY <1>12 DEF GrokReads
<1>13. CASE GrokAsks
  BY <1>13 DEF GrokAsks
<1>14. CASE GrokWrites
  BY <1>14 DEF GrokWrites
<1>15. CASE UNCHANGED vars
  BY <1>15 DEF vars
<1> QED
  BY Kinds, <1>1, <1>2, <1>3, <1>4, <1>5, <1>6, <1>7, <1>8, <1>9, <1>10, <1>11, <1>12, <1>13,
     <1>14, <1>15
     DEF OtherMoves, ReaderStep

LEMMA KeyOrAdmissionKept ==
  ASSUME TypeOK, IdsGiven, EntryOrReply, KeyOrAdmission, ResultKnown, [Next]_vars
  PROVE  KeyOrAdmission'
<1> USE DEF TypeOK, ClientTypeOK, CallTypeOK, IdsGiven, KeyOrAdmission, InFlight, Keyed, PCs,
   Outcomes, clientVars, callVars, grokVars
<1>1. ASSUME NEW q \in Calls, CallMoves(q) PROVE KeyOrAdmission'
  <2>1. CASE RegisterKey(q)
    BY <2>1, AcpAssumption DEF RegisterKey, Go
  <2>2. CASE Register(q)
    BY <2>2 DEF Register, Go, Return
  <2>3. CASE BeginCancel(q)
    BY <2>3, AcpAssumption DEF BeginCancel, Go, Return
  <2>4. CASE TakeGate(q)
    BY <2>4 DEF TakeGate, Go
  <2>5. CASE GiveUp(q)
    BY <2>5 DEF GiveUp, Unsent, Forgotten, Return, Go
  <2>6. CASE StartWrite(q)
    BY <2>6 DEF StartWrite, Go
  <2>7. CASE WriteDone(q)
    BY <2>7, AcpAssumption DEF WriteDone, Go
  <2>8. CASE WriteBroken(q)
    BY <2>8 DEF WriteBroken, Unsent, Forgotten, Return, Go
  <2>9. CASE WriteCancelled(q)
    BY <2>9 DEF WriteCancelled, Finish
  <2>10. CASE TakeReply(q)
    BY <2>10 DEF TakeReply, NotQueued, Go, Return, IsQueued
  <2>11. CASE CancelWait(q)
    BY <2>11 DEF CancelWait, Return, Go, Drained
  <2>12. CASE TakeAdmission(q)
    BY <2>12 DEF TakeAdmission, Return, Go
  <2>13. CASE Cancel(q)
    BY <2>13 DEF Cancel
  <2>14. CASE GrokAnswers(q)
    BY <2>14 DEF GrokAnswers
  <2>15. CASE PollAdmission(q)
    BY <2>15 DEF PollAdmission, Poll, Go
  <2>16. CASE Leave(q)
    BY <2>16 DEF Leave, Go, ResultKnown
  <2> QED
    BY <1>1, <2>1, <2>2, <2>3, <2>4, <2>5, <2>6, <2>7, <2>8, <2>9, <2>10, <2>11, <2>12, <2>13,
       <2>14, <2>15, <2>16
       DEF CallMoves, CallStep
<1>2. ASSUME NEW q \in Interjects, GrokAcknowledges(q) PROVE KeyOrAdmission'
  BY <1>2 DEF GrokAcknowledges
<1>3. CASE ReadResponse
  <2>1. PICK i \in Calls, answer \in {"ok", "refused"} : ResponseEffect(i, answer)
    BY <1>3, Answered DEF TypeOK
  <2> QED
    BY <2>1 DEF ResponseEffect, Finish
<1>4. CASE ReadNotice
  BY <1>4 DEF ReadNotice, NextFrame, Consume
<1>5. CASE ReadOther
  BY <1>5 DEF ReadOther, NextFrame, Consume
<1>6. CASE ReadStray
  BY <1>6 DEF ReadStray, NextFrame, Finish
<1>7. CASE ReplyTakesGate
  BY <1>7 DEF ReplyTakesGate
<1>8. CASE ReplyWritten
  BY <1>8 DEF ReplyWritten
<1>9. CASE ReplyFails
  BY <1>9 DEF ReplyFails, Finish
<1>10. CASE ReaderExits
  BY <1>10 DEF ReaderExits
<1>11. CASE CloseClient
  BY <1>11 DEF CloseClient, Finish
<1>12. CASE GrokReads
  BY <1>12 DEF GrokReads
<1>13. CASE GrokAsks
  BY <1>13 DEF GrokAsks
<1>14. CASE GrokWrites
  BY <1>14 DEF GrokWrites
<1>15. CASE UNCHANGED vars
  BY <1>15 DEF vars
<1> QED
  BY Kinds, <1>1, <1>2, <1>3, <1>4, <1>5, <1>6, <1>7, <1>8, <1>9, <1>10, <1>11, <1>12, <1>13,
     <1>14, <1>15
     DEF OtherMoves, ReaderStep

LEMMA FinishedEmptyKept ==
  ASSUME TypeOK, FinishedEmpty, [Next]_vars
  PROVE  FinishedEmpty'
<1> USE DEF TypeOK, ClientTypeOK, CallTypeOK, FinishedEmpty, Registered, clientVars, callVars,
   grokVars
<1>1. ASSUME NEW q \in Calls, CallMoves(q) PROVE FinishedEmpty'
  <2>1. CASE RegisterKey(q)
    BY <2>1 DEF RegisterKey, Go
  <2>2. CASE Register(q)
    BY <2>2 DEF Register, Go, Return
  <2>3. CASE BeginCancel(q)
    BY <2>3 DEF BeginCancel, Go, Return
  <2>4. CASE TakeGate(q)
    BY <2>4 DEF TakeGate, Go
  <2>5. CASE GiveUp(q)
    BY <2>5 DEF GiveUp, Unsent, Forgotten, Return, Go
  <2>6. CASE StartWrite(q)
    BY <2>6 DEF StartWrite, Go
  <2>7. CASE WriteDone(q)
    BY <2>7 DEF WriteDone, Go
  <2>8. CASE WriteBroken(q)
    BY <2>8 DEF WriteBroken, Unsent, Forgotten, Return, Go
  <2>9. CASE WriteCancelled(q)
    BY <2>9 DEF WriteCancelled, Finish
  <2>10. CASE TakeReply(q)
    BY <2>10 DEF TakeReply, NotQueued, Go, Return, IsQueued
  <2>11. CASE CancelWait(q)
    BY <2>11 DEF CancelWait, Return, Go, Drained
  <2>12. CASE TakeAdmission(q)
    BY <2>12 DEF TakeAdmission, Return, Go
  <2>13. CASE Cancel(q)
    BY <2>13 DEF Cancel
  <2>14. CASE GrokAnswers(q)
    BY <2>14 DEF GrokAnswers
  <2>15. CASE PollAdmission(q)
    BY <2>15 DEF PollAdmission, Poll, Go
  <2>16. CASE Leave(q)
    BY <2>16 DEF Leave, Go
  <2> QED
    BY <1>1, <2>1, <2>2, <2>3, <2>4, <2>5, <2>6, <2>7, <2>8, <2>9, <2>10, <2>11, <2>12, <2>13,
       <2>14, <2>15, <2>16
       DEF CallMoves, CallStep
<1>2. ASSUME NEW q \in Interjects, GrokAcknowledges(q) PROVE FinishedEmpty'
  BY <1>2 DEF GrokAcknowledges
<1>3. CASE ReadResponse
  <2>1. PICK i \in Calls, answer \in {"ok", "refused"} : ResponseEffect(i, answer)
    BY <1>3, Answered DEF TypeOK
  <2> QED
    BY <2>1 DEF ResponseEffect, Finish
<1>4. CASE ReadNotice
  BY <1>4 DEF ReadNotice, NextFrame, Consume
<1>5. CASE ReadOther
  BY <1>5 DEF ReadOther, NextFrame, Consume
<1>6. CASE ReadStray
  BY <1>6 DEF ReadStray, NextFrame, Finish
<1>7. CASE ReplyTakesGate
  BY <1>7 DEF ReplyTakesGate
<1>8. CASE ReplyWritten
  BY <1>8 DEF ReplyWritten
<1>9. CASE ReplyFails
  BY <1>9 DEF ReplyFails, Finish
<1>10. CASE ReaderExits
  BY <1>10 DEF ReaderExits
<1>11. CASE CloseClient
  BY <1>11 DEF CloseClient, Finish
<1>12. CASE GrokReads
  BY <1>12 DEF GrokReads
<1>13. CASE GrokAsks
  BY <1>13 DEF GrokAsks
<1>14. CASE GrokWrites
  BY <1>14 DEF GrokWrites
<1>15. CASE UNCHANGED vars
  BY <1>15 DEF vars
<1> QED
  BY Kinds, <1>1, <1>2, <1>3, <1>4, <1>5, <1>6, <1>7, <1>8, <1>9, <1>10, <1>11, <1>12, <1>13,
     <1>14, <1>15
     DEF OtherMoves, ReaderStep

\* What a failed request came to is kept until the interject returns.
LEMMA ResultKnownKept ==
  ASSUME TypeOK, IdsGiven, EntryOrReply, ResultKnown, [Next]_vars
  PROVE  ResultKnown'
<1> USE DEF TypeOK, ClientTypeOK, CallTypeOK, IdsGiven, EntryOrReply, ResultKnown, InFlight, PCs,
   Outcomes, clientVars, callVars,
   grokVars
<1>1. ASSUME NEW q \in Calls, CallMoves(q) PROVE ResultKnown'
  <2>1. CASE RegisterKey(q)
    BY <2>1 DEF RegisterKey, Go
  <2>2. CASE Register(q)
    BY <2>2 DEF Register, Go, Return
  <2>3. CASE BeginCancel(q)
    BY <2>3 DEF BeginCancel, Go, Return
  <2>4. CASE TakeGate(q)
    BY <2>4 DEF TakeGate, Go
  <2>5. CASE GiveUp(q)
    BY <2>5 DEF GiveUp, Unsent, Forgotten, Return, Go
  <2>6. CASE StartWrite(q)
    BY <2>6 DEF StartWrite, Go
  <2>7. CASE WriteDone(q)
    BY <2>7 DEF WriteDone, Go
  <2>8. CASE WriteBroken(q)
    BY <2>8 DEF WriteBroken, Unsent, Forgotten, Return, Go
  <2>9. CASE WriteCancelled(q)
    BY <2>9 DEF WriteCancelled, Finish
  <2>10. CASE TakeReply(q)
    BY <2>10 DEF TakeReply, NotQueued, Go, Return, IsQueued
  <2>11. CASE CancelWait(q)
    BY <2>11 DEF CancelWait, Return, Go, Drained
  <2>12. CASE TakeAdmission(q)
    BY <2>12 DEF TakeAdmission, Return, Go
  <2>13. CASE Cancel(q)
    BY <2>13 DEF Cancel
  <2>14. CASE GrokAnswers(q)
    BY <2>14 DEF GrokAnswers
  <2>15. CASE PollAdmission(q)
    BY <2>15 DEF PollAdmission, Poll, Go
  <2>16. CASE Leave(q)
    BY <2>16 DEF Leave, Go
  <2> QED
    BY <1>1, <2>1, <2>2, <2>3, <2>4, <2>5, <2>6, <2>7, <2>8, <2>9, <2>10, <2>11, <2>12, <2>13,
       <2>14, <2>15, <2>16
       DEF CallMoves, CallStep
<1>2. ASSUME NEW q \in Interjects, GrokAcknowledges(q) PROVE ResultKnown'
  BY <1>2 DEF GrokAcknowledges
<1>3. CASE ReadResponse
  <2>1. PICK i \in Calls, answer \in {"ok", "refused"} : ResponseEffect(i, answer)
    BY <1>3, Answered DEF TypeOK
  <2> QED
    BY <2>1 DEF ResponseEffect, Finish
<1>4. CASE ReadNotice
  BY <1>4 DEF ReadNotice, NextFrame, Consume
<1>5. CASE ReadOther
  BY <1>5 DEF ReadOther, NextFrame, Consume
<1>6. CASE ReadStray
  BY <1>6 DEF ReadStray, NextFrame, Finish
<1>7. CASE ReplyTakesGate
  BY <1>7 DEF ReplyTakesGate
<1>8. CASE ReplyWritten
  BY <1>8 DEF ReplyWritten
<1>9. CASE ReplyFails
  BY <1>9 DEF ReplyFails, Finish
<1>10. CASE ReaderExits
  BY <1>10 DEF ReaderExits
<1>11. CASE CloseClient
  BY <1>11 DEF CloseClient, Finish
<1>12. CASE GrokReads
  BY <1>12 DEF GrokReads
<1>13. CASE GrokAsks
  BY <1>13 DEF GrokAsks
<1>14. CASE GrokWrites
  BY <1>14 DEF GrokWrites
<1>15. CASE UNCHANGED vars
  BY <1>15 DEF vars
<1> QED
  BY Kinds, <1>1, <1>2, <1>3, <1>4, <1>5, <1>6, <1>7, <1>8, <1>9, <1>10, <1>11, <1>12, <1>13,
     <1>14, <1>15
     DEF OtherMoves, ReaderStep

-----------------------------------------------------------------------------
(* The theorems.                                                           *)

\* AcpInv is an invariant of the connection.
THEOREM AcpInvariant == Spec => []AcpInv
<1>1. Init => AcpInv
  BY InvInit
<1>2. AcpInv /\ [Next]_vars => AcpInv'
  <2> SUFFICES ASSUME AcpInv, [Next]_vars PROVE AcpInv'
    OBVIOUS
  <2>1. /\ TypeOK /\ IdCount /\ IdsGiven /\ EntryOrReply /\ KeyOrAdmission /\ FinishedEmpty
        /\ ResultKnown /\ WriteGateConserved
    BY DEF AcpInv
  <2>2. TypeOK'
    BY <2>1, ClientTypeKept, CallTypeKept, WireTypeKept DEF TypeOK
  <2>3. IdCount' /\ IdsGiven'
    BY <2>1, IdCountKept, IdsGivenKept
  <2>4. EntryOrReply' /\ KeyOrAdmission' /\ FinishedEmpty'
    BY <2>1, EntryOrReplyKept, KeyOrAdmissionKept, FinishedEmptyKept
  <2>5. ResultKnown' /\ WriteGateConserved'
    BY <2>1, ResultKnownKept, GateKept
  <2> QED
    BY <2>2, <2>3, <2>4, <2>5 DEF AcpInv
<1> QED
  BY <1>1, <1>2, PTL DEF Spec

\* Every variable keeps its type.
THEOREM TypeCorrect == Spec => []TypeOK
<1>1. AcpInv => TypeOK
  BY DEF AcpInv
<1> QED
  BY <1>1, AcpInvariant, PTL

\* The write gate's one token is in the channel or with exactly one writer.
THEOREM GateIsConserved == Spec => []WriteGateConserved
<1>1. AcpInv => WriteGateConserved
  BY DEF AcpInv
<1> QED
  BY <1>1, AcpInvariant, PTL

\* Once the connection has an error, whatever still waits has something to take.
THEOREM NobodyIsStranded == Spec => []NobodyStranded
<1>1. AcpInv => NobodyStranded
  <2> SUFFICES ASSUME AcpInv, err # "none" PROVE
        /\ Registered = {} /\ admissions = {}
        /\ \A q \in Calls :
             /\ pc[q] = "await" => reply[q] # "none"
             /\ pc[q] = "queued" => admitted[q] # "none"
    BY DEF NobodyStranded
  <2>1. Registered = {} /\ admissions = {}
    BY DEF AcpInv, FinishedEmpty
  <2>2. ASSUME NEW q \in Calls, pc[q] = "await", reply[q] = "none" PROVE FALSE
    <3>1. q \notin Cancels
      BY <2>2 DEF AcpInv, IdsGiven
    <3>2. id[q] # 0 /\ pending[id[q]] = "caller"
      BY <2>2, <3>1 DEF AcpInv, EntryOrReply, IdsGiven, InFlight
    <3>3. id[q] \in Registered
      BY <3>2 DEF AcpInv, TypeOK, CallTypeOK, Registered, Calls
    <3> QED
      BY <2>1, <3>3
  <2>3. ASSUME NEW q \in Calls, pc[q] = "queued" PROVE admitted[q] # "none"
    BY <2>1, <2>3 DEF AcpInv, KeyOrAdmission, Keyed
  <2> QED
    BY <2>1, <2>2, <2>3
<1> QED
  BY <1>1, AcpInvariant, PTL

=============================================================================
