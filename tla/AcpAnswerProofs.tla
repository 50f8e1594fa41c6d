-------------------------- MODULE AcpAnswerProofs --------------------------
(***************************************************************************)
(* Who is answered on an ACP connection, for any number of calls, pipes    *)
(* of any room and any frames from Grok.                                   *)
(*                                                                         *)
(* A request is written once, under an id of its own, by a call that then  *)
(* waits; Grok answers what it has read, once; the answer finds the entry  *)
(* of the call, or what is left of it for the drain.  So a call returns    *)
(* Grok's answer to that call, a declined call is never seen, and a Grok   *)
(* that keeps to the protocol is never accused of an unmatched response.   *)
(* What has arrived when a call looks is what it returns: a Grok that      *)
(* refuses an interject does not acknowledge it.                           *)
(***************************************************************************)
EXTENDS AcpClientProofs

\* Where a call has written nothing.
Early == {"idle", "keyed", "gate", "holding", "writing", "declined"}
Unwritten(i) == served[i] = "unread" /\ \A k \in DOMAIN inbox : inbox[k] # i

\* What was not written has not reached Grok.
UnwrittenYet ==
  /\ \A q \in Calls : pc[q] \in Early /\ id[q] # 0 => Unwritten(id[q])
  /\ \A i \in Calls : i > next => Unwritten(i)

\* Each request is written once, and read once.
InboxOnce ==
  \A j \in DOMAIN inbox : inbox[j] # 0 =>
    /\ served[inbox[j]] = "unread"
    /\ \A k \in DOMAIN inbox : inbox[k] = inbox[j] => k = j

\* The frames between Grok and the reader.
Flight == {hand} \cup {outbox[k] : k \in DOMAIN outbox}

\* A frame says what Grok did.
Tells(f) ==
  /\ f.type = "response" => served[f.id] = "ok"
  /\ f.type = "refusal" => served[f.id] = "refused"
  /\ f.type = "notice" => f.id \in acks
FramesTell == \A f \in Flight : Tells(f)

\* A reply, an admission, says what Grok did, or that the connection ended.
RepliesTell ==
  \A q \in Calls :
    /\ reply[q] \in {"ok", "refused"} => served[id[q]] = reply[q]
    /\ reply[q] = "lost" => err # "none"
    /\ admitted[q] = "ack" => q \in acks

\* Grok acknowledges no interject it refuses.
RefusedUnacked ==
  \A q \in Calls : id[q] # 0 /\ served[id[q]] = "refused" => q \notin acks

\* Only a call with an id gets an answer.
OutcomeHasId ==
  \A q \in Calls :
    pc[q] = "refused" \/ (pc[q] = "ok" /\ q \notin Interjects \cup Cancels) => id[q] # 0

Replies == {"response", "refusal"}
\* Grok answers a request once.
AnsweredOnce ==
  \A j \in DOMAIN outbox : outbox[j].type \in Replies =>
    /\ hand.type \in Replies => hand.id # outbox[j].id
    /\ \A k \in DOMAIN outbox :
         outbox[k].type \in Replies /\ outbox[k].id = outbox[j].id => k = j

\* An answer on its way, or to come, finds its entry in the table.
Demand(i) ==
  \/ \E f \in Flight : f.type \in Replies /\ f.id = i
  \/ served[i] = "open"
  \/ \E k \in DOMAIN inbox : inbox[k] = i
Expected == err = "none" => \A i \in Calls : Demand(i) => pending[i] # "absent"

\* A Grok that never sends an unmatched response has none in flight.
NoStray == \A f \in Flight : f.type # "unmatched"

AnswerInv ==
  /\ AcpInv /\ UnwrittenYet /\ InboxOnce /\ FramesTell /\ RepliesTell /\ RefusedUnacked
  /\ OutcomeHasId /\ OutcomeOwn

PromiseInv == NoStray /\ AnsweredOnce /\ Expected /\ ConformingNeverUnmatched

-----------------------------------------------------------------------------
(* Sequences and what Grok has done.                                       *)

LEMMA Elements ==
  ASSUME NEW S, NEW s \in Seq(S)
  PROVE  \A k \in DOMAIN s : s[k] \in S
OBVIOUS

LEMMA AfterTail ==
  ASSUME NEW S, NEW s \in Seq(S), s # <<>>
  PROVE  /\ 1 \in DOMAIN s /\ Head(s) = s[1]
         /\ \A k \in DOMAIN Tail(s) : k + 1 \in DOMAIN s /\ k + 1 # 1 /\ Tail(s)[k] = s[k + 1]
OBVIOUS

LEMMA AfterAppend ==
  ASSUME NEW S, NEW s \in Seq(S), NEW e \in S
  PROVE  /\ \A k \in DOMAIN s : k \in DOMAIN Append(s, e) /\ Append(s, e)[k] = s[k]
         /\ \A k \in DOMAIN Append(s, e) :
              k \in DOMAIN s \/ (k = Len(s) + 1 /\ Append(s, e)[k] = e)
         /\ Len(s) + 1 \notin DOMAIN s
OBVIOUS

LEMMA ServedGrows ==
  ASSUME TypeOK, InboxOnce, [Next]_vars
  PROVE  (\A i \in Calls : served[i] \in {"ok", "refused"} =>
            served'[i] = served[i]) /\ acks \subseteq acks'
<1> USE DEF TypeOK, WireTypeOK, clientVars, callVars, grokVars
<1>1. ASSUME NEW q \in Calls, CallMoves(q)
      PROVE (\A i \in Calls : served[i] \in {"ok", "refused"} =>
               served'[i] = served[i]) /\ acks \subseteq acks'
  <2>1. CASE RegisterKey(q)
    BY <2>1 DEF RegisterKey, Go
  <2>2. CASE Register(q)
    BY <2>2 DEF Register, Go, Return
  <2>3. CASE BeginCancel(q)
    BY <2>3 DEF BeginCancel, Go, Return
  <2>4. CASE TakeGate(q)
    BY <2>4 DEF TakeGate, Go
  <2>5. CASE GiveUp(q)
    BY <2>5 DEF GiveUp, Unsent, Forgotten, Return, Go
  <2>6. CASE StartWrite(q)
    BY <2>6 DEF StartWrite, Go
  <2>7. CASE WriteDone(q)
    BY <2>7 DEF WriteDone, Go
  <2>8. CASE WriteBroken(q)
    BY <2>8 DEF WriteBroken, Unsent, Forgotten, Return, Go
  <2>9. CASE WriteCancelled(q)
    BY <2>9 DEF WriteCancelled, Finish
  <2>10. CASE TakeReply(q)
    BY <2>10 DEF TakeReply, NotQueued, Go, Return, IsQueued
  <2>11. CASE CancelWait(q)
    BY <2>11 DEF CancelWait, Return, Go, Drained
  <2>12. CASE TakeAdmission(q)
    BY <2>12 DEF TakeAdmission, Return, Go
  <2>13. CASE Cancel(q)
    BY <2>13 DEF Cancel
  <2>14. CASE GrokAnswers(q)
    <3>1. \A i \in Calls : i # id[q] => served'[i] = served[i]
      BY <2>14 DEF GrokAnswers
    <3>2. served[id[q]] = "open" /\ acks' = acks
      BY <2>14 DEF GrokAnswers
    <3> QED
      BY <3>1, <3>2
  <2>15. CASE PollAdmission(q)
    BY <2>15 DEF PollAdmission, Poll, Go
  <2>16. CASE Leave(q)
    BY <2>16 DEF Leave, Go
  <2> QED
    BY <1>1, <2>1, <2>2, <2>3, <2>4, <2>5, <2>6, <2>7, <2>8, <2>9, <2>10, <2>11, <2>12, <2>13,
       <2>14, <2>15, <2>16
       DEF CallMoves, CallStep
<1>2. ASSUME NEW q \in Interjects, GrokAcknowledges(q)
      PROVE (\A i \in Calls : served[i] \in {"ok", "refused"} =>
               served'[i] = served[i]) /\ acks \subseteq acks'
  BY <1>2 DEF GrokAcknowledges
<1>3. CASE ReadResponse
  <2>1. PICK i \in Calls, answer \in {"ok", "refused"} : ResponseEffect(i, answer)
    BY <1>3, Answered DEF TypeOK
  <2> QED
    BY <2>1 DEF ResponseEffect, Finish
<1>4. CASE ReadNotice
  BY <1>4 DEF ReadNotice, NextFrame, Consume
<1>5. CASE ReadOther
  BY <1>5 DEF ReadOther, NextFrame, Consume
<1>6. CASE ReadStray
  BY <1>6 DEF ReadStray, NextFrame, Finish
<1>7. CASE ReplyTakesGate
  BY <1>7 DEF ReplyTakesGate
<1>8. CASE ReplyWritten
  BY <1>8 DEF ReplyWritten
<1>9. CASE ReplyFails
  BY <1>9 DEF ReplyFails, Finish
<1>10. CASE ReaderExits
  BY <1>10 DEF ReaderExits
<1>11. CASE CloseClient
  BY <1>11 DEF CloseClient, Finish
<1>12. CASE GrokReads
  <2>1. \A i \in Calls : i = Head(inbox) => served[i] = "unread"
    BY <1>12, AfterTail DEF GrokReads, InboxOnce, Calls
  <2> QED
    BY <1>12, <2>1 DEF GrokReads
<1>13. CASE GrokAsks
  BY <1>13 DEF GrokAsks
<1>14. CASE GrokWrites
  BY <1>14 DEF GrokWrites
<1>15. CASE UNCHANGED vars
  BY <1>15 DEF vars
<1> QED
  BY Kinds, <1>1, <1>2, <1>3, <1>4, <1>5, <1>6, <1>7, <1>8, <1>9, <1>10, <1>11, <1>12, <1>13,
     <1>14, <1>15
     DEF OtherMoves, ReaderStep

LEMMA FlightShrinks ==
  ASSUME WireTypeOK, outbox # <<>>, outbox' = Tail(outbox), hand' = hand
  PROVE  Flight' \subseteq Flight
<1>1. \A k \in DOMAIN Tail(outbox) : k + 1 \in DOMAIN outbox /\ Tail(outbox)[k] = outbox[k + 1]
  BY AfterTail DEF WireTypeOK
<1> QED
  BY <1>1 DEF Flight

LEMMA NewFrames ==
  ASSUME TypeOK, [Next]_vars
  PROVE  \A f \in Flight' : f \in Flight \/ f = NoFrame \/ Tells(f)'
<1> USE DEF TypeOK, Flight, clientVars, callVars, grokVars
<1>1. ASSUME NEW q \in Calls, CallMoves(q)
      PROVE \A f \in Flight' : f \in Flight \/ f = NoFrame \/ Tells(f)'
  <2>1. CASE RegisterKey(q)
    BY <2>1 DEF RegisterKey, Go, Flight
  <2>2. CASE Register(q)
    BY <2>2 DEF Register, Go, Return, Flight
  <2>3. CASE BeginCancel(q)
    BY <2>3 DEF BeginCancel, Go, Return, Flight
  <2>4. CASE TakeGate(q)
    BY <2>4 DEF TakeGate, Go, Flight
  <2>5. CASE GiveUp(q)
    BY <2>5 DEF GiveUp, Unsent, Forgotten, Return, Go, Flight
  <2>6. CASE StartWrite(q)
    BY <2>6 DEF StartWrite, Go, Flight
  <2>7. CASE WriteDone(q)
    BY <2>7 DEF WriteDone, Go, Flight
  <2>8. CASE WriteBroken(q)
    BY <2>8 DEF WriteBroken, Unsent, Forgotten, Return, Go, Flight
  <2>9. CASE WriteCancelled(q)
    BY <2>9 DEF WriteCancelled, Finish, Flight
  <2>10. CASE TakeReply(q)
    BY <2>10 DEF TakeReply, NotQueued, Go, Return, IsQueued, Flight
  <2>11. CASE CancelWait(q)
    BY <2>11 DEF CancelWait, Return, Go, Drained, Flight
  <2>12. CASE TakeAdmission(q)
    BY <2>12 DEF TakeAdmission, Return, Go, Flight
  <2>13. CASE Cancel(q)
    BY <2>13 DEF Cancel, Flight
  <2>14. CASE GrokAnswers(q)
    <3>1. id[q] \in Calls
      BY <2>14, IdInCalls DEF GrokAnswers
    <3>2. ASSUME NEW f, f = hand' PROVE Tells(f)'
      BY <2>14, <3>1, <3>2 DEF GrokAnswers, Tells, Frame, WireTypeOK
    <3>3. Flight' \subseteq Flight \cup {hand'}
      BY <2>14 DEF GrokAnswers, Flight
    <3> QED
      BY <3>2, <3>3
  <2>15. CASE PollAdmission(q)
    BY <2>15 DEF PollAdmission, Poll, Go
  <2>16. CASE Leave(q)
    BY <2>16 DEF Leave, Go
  <2> QED
    BY <1>1, <2>1, <2>2, <2>3, <2>4, <2>5, <2>6, <2>7, <2>8, <2>9, <2>10, <2>11, <2>12, <2>13,
       <2>14, <2>15, <2>16
       DEF CallMoves, CallStep
<1>2. ASSUME NEW q \in Interjects, GrokAcknowledges(q)
      PROVE \A f \in Flight' : f \in Flight \/ f = NoFrame \/ Tells(f)'
  BY <1>2 DEF GrokAcknowledges, Flight, Tells, Frame
<1>3. CASE ReadResponse
  <2>1. PICK i \in Calls, answer \in {"ok", "refused"} : ResponseEffect(i, answer)
    BY <1>3, Answered DEF TypeOK
  <2> QED
    BY <2>1, FlightShrinks DEF ResponseEffect, Finish
<1>4. CASE ReadNotice
  <2>1. outbox # <<>> /\ outbox' = Tail(outbox) /\ hand' = hand
    BY <1>4 DEF ReadNotice, NextFrame, Consume
  <2> QED
    BY <2>1, FlightShrinks
<1>5. CASE ReadOther
  <2>1. outbox # <<>> /\ outbox' = Tail(outbox) /\ hand' = hand
    BY <1>5 DEF ReadOther, NextFrame, Consume
  <2> QED
    BY <2>1, FlightShrinks
<1>6. CASE ReadStray
  <2>1. outbox # <<>> /\ outbox' = Tail(outbox) /\ hand' = hand
    BY <1>6 DEF ReadStray, NextFrame, Consume
  <2> QED
    BY <2>1, FlightShrinks
<1>7. CASE ReplyTakesGate
  BY <1>7 DEF ReplyTakesGate, Flight
<1>8. CASE ReplyWritten
  BY <1>8 DEF ReplyWritten, Flight
<1>9. CASE ReplyFails
  BY <1>9 DEF ReplyFails, Finish, Flight
<1>10. CASE ReaderExits
  BY <1>10 DEF ReaderExits, Flight
<1>11. CASE CloseClient
  BY <1>11 DEF CloseClient, Finish, Flight
<1>12. CASE GrokReads
  BY <1>12 DEF GrokReads, Flight
<1>13. CASE GrokAsks
  <2>1. Stray \subseteq StrayFrames
    BY AcpAssumption
  <2> QED
    BY <1>13, <2>1 DEF GrokAsks, Flight, Tells, Frame, StrayFrames
<1>14. CASE GrokWrites
  <2>1. outbox' = Append(outbox, hand) /\ hand' = NoFrame
    BY <1>14 DEF GrokWrites
  <2>2. \A k \in DOMAIN outbox' :
        (k \in DOMAIN outbox /\ outbox'[k] = outbox[k]) \/ outbox'[k] = hand
    BY <2>1, AfterAppend DEF WireTypeOK
  <2> QED
    BY <2>1, <2>2 DEF Flight
<1>15. CASE UNCHANGED vars
  BY <1>15 DEF vars
<1> QED
  BY Kinds, <1>1, <1>2, <1>3, <1>4, <1>5, <1>6, <1>7, <1>8, <1>9, <1>10, <1>11, <1>12, <1>13,
     <1>14, <1>15
     DEF OtherMoves, ReaderStep

LEMMA FramesTellKept ==
  ASSUME TypeOK, TypeOK', InboxOnce, FramesTell, [Next]_vars
  PROVE  FramesTell'
<1>1. ASSUME NEW f \in Flight, f \in Frames, Tells(f) PROVE Tells(f)'
  <2>1. f.type \in {"response", "refusal"} => f.id \in Calls
    BY <1>1 DEF Frames, StrayFrames
  <2> QED
    BY <1>1, <2>1, ServedGrows DEF Tells
<1>2. \A f \in Flight : f \in Frames
  BY DEF TypeOK, WireTypeOK, Flight
<1>3. Tells(NoFrame)'
  BY DEF Tells, NoFrame, Frame
<1> QED
  BY <1>1, <1>2, <1>3, NewFrames DEF FramesTell

-----------------------------------------------------------------------------
(* Requests on their way to Grok.                                          *)

LEMMA InboxIds ==
  ASSUME WireTypeOK
  PROVE  \A k \in DOMAIN inbox : inbox[k] # 0 => inbox[k] \in Calls
<1>1. \A k \in DOMAIN inbox : inbox[k] \in 0..NCalls
  BY Elements DEF WireTypeOK
<1>2. \A i \in 0..NCalls : i # 0 => i \in Calls
  BY AcpAssumption DEF Calls
<1> QED
  BY <1>1, <1>2

LEMMA UnwrittenStays ==
  ASSUME TypeOK, NEW i \in Calls, Unwritten(i), (\A q \in Calls : WriteDone(q) => id[q] # i),
         [Next]_vars
  PROVE  Unwritten(i)'
<1> USE DEF TypeOK, WireTypeOK, Unwritten, clientVars, callVars, grokVars
<1>1. ASSUME NEW q \in Calls, CallMoves(q) PROVE Unwritten(i)'
  <2>1. CASE RegisterKey(q)
    BY <2>1 DEF RegisterKey, Go
  <2>2. CASE Register(q)
    BY <2>2 DEF Register, Go, Return
  <2>3. CASE BeginCancel(q)
    BY <2>3 DEF BeginCancel, Go, Return
  <2>4. CASE TakeGate(q)
    BY <2>4 DEF TakeGate, Go
  <2>5. CASE GiveUp(q)
    BY <2>5 DEF GiveUp, Unsent, Forgotten, Return, Go
  <2>6. CASE StartWrite(q)
    BY <2>6 DEF StartWrite, Go
  <2>7. CASE WriteDone(q)
    <3>1. inbox' = Append(inbox, id[q]) /\ id[q] # i /\ served' = served
      BY <2>7 DEF WriteDone
    <3>2. id[q] \in 0..NCalls
      BY DEF CallTypeOK
    <3> QED
      BY <3>1, <3>2, AfterAppend
  <2>8. CASE WriteBroken(q)
    BY <2>8 DEF WriteBroken, Unsent, Forgotten, Return, Go
  <2>9. CASE WriteCancelled(q)
    BY <2>9 DEF WriteCancelled, Finish
  <2>10. CASE TakeReply(q)
    BY <2>10 DEF TakeReply, NotQueued, Go, Return, IsQueued
  <2>11. CASE CancelWait(q)
    BY <2>11 DEF CancelWait, Return, Go, Drained
  <2>12. CASE TakeAdmission(q)
    BY <2>12 DEF TakeAdmission, Return, Go
  <2>13. CASE Cancel(q)
    BY <2>13 DEF Cancel
  <2>14. CASE GrokAnswers(q)
    <3>1. inbox' = inbox /\ id[q] # i
      BY <2>14 DEF GrokAnswers
    <3>2. served'[i] = served[i]
      BY <2>14, <3>1 DEF GrokAnswers
    <3> QED
      BY <3>1, <3>2
  <2>15. CASE PollAdmission(q)
    BY <2>15 DEF PollAdmission, Poll, Go
  <2>16. CASE Leave(q)
    BY <2>16 DEF Leave, Go
  <2> QED
    BY <1>1, <2>1, <2>2, <2>3, <2>4, <2>5, <2>6, <2>7, <2>8, <2>9, <2>10, <2>11, <2>12, <2>13,
       <2>14, <2>15, <2>16
       DEF CallMoves, CallStep
<1>2. ASSUME NEW q \in Interjects, GrokAcknowledges(q) PROVE Unwritten(i)'
  BY <1>2 DEF GrokAcknowledges
<1>3. CASE ReadResponse
  <2>1. PICK j \in Calls, answer \in {"ok", "refused"} : ResponseEffect(j, answer)
    BY <1>3, Answered DEF TypeOK
  <2> QED
    BY <2>1 DEF ResponseEffect, Finish
<1>4. CASE ReadNotice
  BY <1>4 DEF ReadNotice, NextFrame, Consume
<1>5. CASE ReadOther
  BY <1>5 DEF ReadOther, NextFrame, Consume
<1>6. CASE ReadStray
  BY <1>6 DEF ReadStray, NextFrame, Finish
<1>7. CASE ReplyTakesGate
  BY <1>7 DEF ReplyTakesGate
<1>8. CASE ReplyWritten
  <2>1. inbox' = Append(inbox, 0) /\ served' = served /\ i # 0 /\ 0 \in 0..NCalls
    BY <1>8, AcpAssumption DEF ReplyWritten, Calls
  <2> QED
    BY <2>1, AfterAppend
<1>9. CASE ReplyFails
  BY <1>9 DEF ReplyFails, Finish
<1>10. CASE ReaderExits
  BY <1>10 DEF ReaderExits
<1>11. CASE CloseClient
  BY <1>11 DEF CloseClient, Finish
<1>12. CASE GrokReads
  <2>1. inbox # <<>> /\ inbox' = Tail(inbox)
    BY <1>12 DEF GrokReads
  <2>2. Head(inbox) # i /\ \A k \in DOMAIN inbox' : inbox'[k] # i
    BY <2>1, AfterTail
  <2> QED
    BY <1>12, <2>2 DEF GrokReads
<1>13. CASE GrokAsks
  BY <1>13 DEF GrokAsks
<1>14. CASE GrokWrites
  BY <1>14 DEF GrokWrites
<1>15. CASE UNCHANGED vars
  BY <1>15 DEF vars
<1> QED
  BY Kinds, <1>1, <1>2, <1>3, <1>4, <1>5, <1>6, <1>7, <1>8, <1>9, <1>10, <1>11, <1>12, <1>13,
     <1>14, <1>15
     DEF OtherMoves, ReaderStep

LEMMA EarlyFrom ==
  ASSUME TypeOK, IdCount, IdsGiven, ResultKnown, [Next]_vars
  PROVE  \A p \in Calls : pc'[p] \in Early /\ id'[p] # 0 =>
           (pc[p] \in Early /\ id'[p] = id[p]) \/ id'[p] = next + 1
<1> USE DEF TypeOK, CallTypeOK, Early, clientVars, callVars, grokVars
<1>1. ASSUME NEW q \in Calls, CallMoves(q)
      PROVE \A p \in Calls : pc'[p] \in Early /\ id'[p] # 0 =>
              (pc[p] \in Early /\ id'[p] = id[p]) \/ id'[p] = next + 1
  <2>1. CASE RegisterKey(q)
    BY <2>1 DEF RegisterKey, Go
  <2>2. CASE Register(q)
    <3>1. id[q] = 0 /\ UNCHANGED reply
      BY <2>2 DEF Register, IdsGiven
    <3>2. CASE UNCHANGED id /\ \A p \in Calls \ {q} : pc'[p] = pc[p]
      BY <3>1, <3>2
    <3>3. CASE id' = [id EXCEPT ![q] = next + 1] /\ Go(q, "gate")
      BY <3>3 DEF Go
    <3> QED
      BY <2>2, <3>2, <3>3 DEF Register, Return, Go
  <2>3. CASE BeginCancel(q)
    BY <2>3 DEF BeginCancel, Go, Return
  <2>4. CASE TakeGate(q)
    BY <2>4 DEF TakeGate, Go
  <2>5. CASE GiveUp(q)
    <3>1. pc[q] \in Early /\ UNCHANGED id /\ \A p \in Calls \ {q} : pc'[p] = pc[p]
      BY <2>5 DEF GiveUp, Unsent, Return, Go
    <3> QED
      BY <3>1
  <2>6. CASE StartWrite(q)
    BY <2>6 DEF StartWrite, Go
  <2>7. CASE WriteDone(q)
    BY <2>7 DEF WriteDone, Go
  <2>8. CASE WriteBroken(q)
    BY <2>8 DEF WriteBroken, Unsent, Forgotten, Return, Go
  <2>9. CASE WriteCancelled(q)
    BY <2>9 DEF WriteCancelled, Finish
  <2>10. CASE TakeReply(q)
    BY <2>10 DEF TakeReply, NotQueued, Go, Return, IsQueued
  <2>11. CASE CancelWait(q)
    BY <2>11 DEF CancelWait, Return, Go, Drained
  <2>12. CASE TakeAdmission(q)
    BY <2>12 DEF TakeAdmission, Return, Go
  <2>13. CASE Cancel(q)
    BY <2>13 DEF Cancel
  <2>14. CASE GrokAnswers(q)
    BY <2>14 DEF GrokAnswers
  <2>15. CASE PollAdmission(q)
    BY <2>15 DEF PollAdmission, Poll, Go
  <2>16. CASE Leave(q)
    BY <2>16 DEF Leave, Go, ResultKnown, Outcomes
  <2> QED
    BY <1>1, <2>1, <2>2, <2>3, <2>4, <2>5, <2>6, <2>7, <2>8, <2>9, <2>10, <2>11, <2>12, <2>13,
       <2>14, <2>15, <2>16
       DEF CallMoves, CallStep
<1>2. ASSUME NEW q \in Interjects, GrokAcknowledges(q)
      PROVE \A p \in Calls : pc'[p] \in Early /\ id'[p] # 0 =>
              (pc[p] \in Early /\ id'[p] = id[p]) \/ id'[p] = next + 1
  BY <1>2 DEF GrokAcknowledges
<1>3. CASE ReadResponse
  <2>1. PICK i \in Calls, answer \in {"ok", "refused"} : ResponseEffect(i, answer)
    BY <1>3, Answered DEF TypeOK
  <2> QED
    BY <2>1 DEF ResponseEffect, Finish
<1>4. CASE ReadNotice
  BY <1>4 DEF ReadNotice, NextFrame, Consume
<1>5. CASE ReadOther
  BY <1>5 DEF ReadOther, NextFrame, Consume
<1>6. CASE ReadStray
  BY <1>6 DEF ReadStray, NextFrame, Finish
<1>7. CASE ReplyTakesGate
  BY <1>7 DEF ReplyTakesGate
<1>8. CASE ReplyWritten
  BY <1>8 DEF ReplyWritten
<1>9. CASE ReplyFails
  BY <1>9 DEF ReplyFails, Finish
<1>10. CASE ReaderExits
  BY <1>10 DEF ReaderExits
<1>11. CASE CloseClient
  BY <1>11 DEF CloseClient, Finish
<1>12. CASE GrokReads
  BY <1>12 DEF GrokReads
<1>13. CASE GrokAsks
  BY <1>13 DEF GrokAsks
<1>14. CASE GrokWrites
  BY <1>14 DEF GrokWrites
<1>15. CASE UNCHANGED vars
  BY <1>15 DEF vars
<1> QED
  BY Kinds, <1>1, <1>2, <1>3, <1>4, <1>5, <1>6, <1>7, <1>8, <1>9, <1>10, <1>11, <1>12, <1>13,
     <1>14, <1>15
     DEF OtherMoves, ReaderStep

LEMMA NextGrows ==
  ASSUME TypeOK, IdCount, IdsGiven, [Next]_vars
  PROVE  next <= next'
<1> USE DEF TypeOK, ClientTypeOK, clientVars, callVars, grokVars
<1>1. ASSUME NEW q \in Calls, CallMoves(q) PROVE next <= next'
  <2>1. CASE RegisterKey(q)
    BY <2>1 DEF RegisterKey, Go
  <2>2. CASE Register(q)
    BY <2>2 DEF Register, Go, Return
  <2>3. CASE BeginCancel(q)
    BY <2>3 DEF BeginCancel, Go, Return
  <2>4. CASE TakeGate(q)
    BY <2>4 DEF TakeGate, Go
  <2>5. CASE GiveUp(q)
    BY <2>5 DEF GiveUp, Unsent, Forgotten, Return, Go
  <2>6. CASE StartWrite(q)
    BY <2>6 DEF StartWrite, Go
  <2>7. CASE WriteDone(q)
    BY <2>7 DEF WriteDone, Go
  <2>8. CASE WriteBroken(q)
    BY <2>8 DEF WriteBroken, Unsent, Forgotten, Return, Go
  <2>9. CASE WriteCancelled(q)
    BY <2>9 DEF WriteCancelled, Finish
  <2>10. CASE TakeReply(q)
    BY <2>10 DEF TakeReply, NotQueued, Go, Return, IsQueued
  <2>11. CASE CancelWait(q)
    BY <2>11 DEF CancelWait, Return, Go, Drained
  <2>12. CASE TakeAdmission(q)
    BY <2>12 DEF TakeAdmission, Return, Go
  <2>13. CASE Cancel(q)
    BY <2>13 DEF Cancel
  <2>14. CASE GrokAnswers(q)
    BY <2>14 DEF GrokAnswers
  <2>15. CASE PollAdmission(q)
    BY <2>15 DEF PollAdmission, Poll, Go
  <2>16. CASE Leave(q)
    BY <2>16 DEF Leave, Go
  <2> QED
    BY <1>1, <2>1, <2>2, <2>3, <2>4, <2>5, <2>6, <2>7, <2>8, <2>9, <2>10, <2>11, <2>12, <2>13,
       <2>14, <2>15, <2>16
       DEF CallMoves, CallStep
<1>2. ASSUME NEW q \in Interjects, GrokAcknowledges(q) PROVE next <= next'
  BY <1>2 DEF GrokAcknowledges
<1>3. CASE ReadResponse
  <2>1. PICK i \in Calls, answer \in {"ok", "refused"} : ResponseEffect(i, answer)
    BY <1>3, Answered DEF TypeOK
  <2> QED
    BY <2>1 DEF ResponseEffect, Finish
<1>4. CASE ReadNotice
  BY <1>4 DEF ReadNotice, NextFrame, Consume
<1>5. CASE ReadOther
  BY <1>5 DEF ReadOther, NextFrame, Consume
<1>6. CASE ReadStray
  BY <1>6 DEF ReadStray, NextFrame, Finish
<1>7. CASE ReplyTakesGate
  BY <1>7 DEF ReplyTakesGate
<1>8. CASE ReplyWritten
  BY <1>8 DEF ReplyWritten
<1>9. CASE ReplyFails
  BY <1>9 DEF ReplyFails, Finish
<1>10. CASE ReaderExits
  BY <1>10 DEF ReaderExits
<1>11. CASE CloseClient
  BY <1>11 DEF CloseClient, Finish
<1>12. CASE GrokReads
  BY <1>12 DEF GrokReads
<1>13. CASE GrokAsks
  BY <1>13 DEF GrokAsks
<1>14. CASE GrokWrites
  BY <1>14 DEF GrokWrites
<1>15. CASE UNCHANGED vars
  BY <1>15 DEF vars
<1> QED
  BY Kinds, <1>1, <1>2, <1>3, <1>4, <1>5, <1>6, <1>7, <1>8, <1>9, <1>10, <1>11, <1>12, <1>13,
     <1>14, <1>15
     DEF OtherMoves, ReaderStep

LEMMA UnwrittenYetKept ==
  ASSUME TypeOK, IdCount, IdsGiven, ResultKnown, UnwrittenYet, [Next]_vars, TypeOK', IdsGiven'
  PROVE  UnwrittenYet'
<1>1. ASSUME NEW q \in Calls, WriteDone(q)
      PROVE  id[q] <= next /\ pc[q] = "writing" /\ pc'[q] \notin Early /\ UNCHANGED <<id, next>>
  BY <1>1 DEF WriteDone, Go, Early, TypeOK, CallTypeOK, IdsGiven
<1>2. next \in Nat /\ next <= next'
  BY NextGrows DEF TypeOK, ClientTypeOK
<1>3. ASSUME NEW i \in Calls, i > next' PROVE Unwritten(i)'
  <2>1. Unwritten(i)
    BY <1>2, <1>3 DEF UnwrittenYet, TypeOK, ClientTypeOK, Calls
  <2>2. \A q \in Calls : WriteDone(q) => id[q] # i
    BY <1>1, <1>2, <1>3 DEF TypeOK, ClientTypeOK, CallTypeOK, Calls
  <2> QED
    BY <2>1, <2>2, UnwrittenStays
<1>4. ASSUME NEW i \in Calls, NEW p \in Calls, pc'[p] \in Early, id'[p] = i PROVE Unwritten(i)'
  <2>1. i # 0
    BY DEF Calls
  <2>2. Unwritten(i)
    <3>1. CASE pc[p] \in Early /\ i = id[p]
      BY <2>1, <3>1 DEF UnwrittenYet
    <3>2. CASE i = next + 1
      BY <1>2, <3>2 DEF UnwrittenYet
    <3> QED
      BY <1>4, <2>1, <3>1, <3>2, EarlyFrom
  <2>3. \A q \in Calls : WriteDone(q) => id[q] # i
    <3> SUFFICES ASSUME NEW q \in Calls, WriteDone(q), id[q] = i PROVE FALSE
      OBVIOUS
    <3>1. id'[q] = i
      BY <1>1
    <3>2. p = q
      BY <1>4, <2>1, <3>1 DEF IdsGiven
    <3> QED
      BY <1>1, <1>4, <3>2
  <2> QED
    BY <2>2, <2>3, UnwrittenStays
<1>5. \A p \in Calls : id'[p] # 0 => id'[p] \in Calls
  BY DEF TypeOK, CallTypeOK, Calls
<1> QED
  BY <1>3, <1>4, <1>5 DEF UnwrittenYet, Unwritten

LEMMA InboxOnceKept ==
  ASSUME TypeOK, IdsGiven, UnwrittenYet, InboxOnce, [Next]_vars
  PROVE  InboxOnce'
<1> USE DEF TypeOK, WireTypeOK, InboxOnce, clientVars, callVars, grokVars
<1>1. ASSUME NEW q \in Calls, CallMoves(q) PROVE InboxOnce'
  <2>1. CASE RegisterKey(q)
    BY <2>1 DEF RegisterKey, Go
  <2>2. CASE Register(q)
    BY <2>2 DEF Register, Go, Return
  <2>3. CASE BeginCancel(q)
    BY <2>3 DEF BeginCancel, Go, Return
  <2>4. CASE TakeGate(q)
    BY <2>4 DEF TakeGate, Go
  <2>5. CASE GiveUp(q)
    BY <2>5 DEF GiveUp, Unsent, Forgotten, Return, Go
  <2>6. CASE StartWrite(q)
    BY <2>6 DEF StartWrite, Go
  <2>7. CASE WriteDone(q)
    <3>1. inbox' = Append(inbox, id[q]) /\ served' = served /\ id[q] \in 0..NCalls
      BY <2>7 DEF WriteDone, CallTypeOK
    <3>2. id[q] # 0 => Unwritten(id[q])
      BY <2>7 DEF WriteDone, UnwrittenYet, Early
    <3>3. id[q] # 0 => served[id[q]] = "unread" /\ \A k \in DOMAIN inbox : inbox[k] # id[q]
      BY <3>2 DEF Unwritten
    <3> QED
      BY <3>1, <3>3, AfterAppend
  <2>8. CASE WriteBroken(q)
    BY <2>8 DEF WriteBroken, Unsent, Forgotten, Return, Go
  <2>9. CASE WriteCancelled(q)
    BY <2>9 DEF WriteCancelled, Finish
  <2>10. CASE TakeReply(q)
    BY <2>10 DEF TakeReply, NotQueued, Go, Return, IsQueued
  <2>11. CASE CancelWait(q)
    BY <2>11 DEF CancelWait, Return, Go, Drained
  <2>12. CASE TakeAdmission(q)
    BY <2>12 DEF TakeAdmission, Return, Go
  <2>13. CASE Cancel(q)
    BY <2>13 DEF Cancel
  <2>14. CASE GrokAnswers(q)
    <3>1. inbox' = inbox /\ \A i \in Calls : served[i] = "unread" => served'[i] = "unread"
      BY <2>14 DEF GrokAnswers
    <3> QED
      BY <3>1, InboxIds
  <2>15. CASE PollAdmission(q)
    BY <2>15 DEF PollAdmission, Poll, Go
  <2>16. CASE Leave(q)
    BY <2>16 DEF Leave, Go
  <2> QED
    BY <1>1, <2>1, <2>2, <2>3, <2>4, <2>5, <2>6, <2>7, <2>8, <2>9, <2>10, <2>11, <2>12, <2>13,
       <2>14, <2>15, <2>16
       DEF CallMoves, CallStep
<1>2. ASSUME NEW q \in Interjects, GrokAcknowledges(q) PROVE InboxOnce'
  BY <1>2 DEF GrokAcknowledges
<1>3. CASE ReadResponse
  <2>1. PICK i \in Calls, answer \in {"ok", "refused"} : ResponseEffect(i, answer)
    BY <1>3, Answered DEF TypeOK
  <2> QED
    BY <2>1 DEF ResponseEffect, Finish
<1>4. CASE ReadNotice
  BY <1>4 DEF ReadNotice, NextFrame, Consume
<1>5. CASE ReadOther
  BY <1>5 DEF ReadOther, NextFrame, Consume
<1>6. CASE ReadStray
  BY <1>6 DEF ReadStray, NextFrame, Finish
<1>7. CASE ReplyTakesGate
  BY <1>7 DEF ReplyTakesGate
<1>8. CASE ReplyWritten
  <2>1. inbox' = Append(inbox, 0) /\ served' = served /\ 0 \in 0..NCalls
    BY <1>8, AcpAssumption DEF ReplyWritten
  <2> QED
    BY <2>1, AfterAppend
<1>9. CASE ReplyFails
  BY <1>9 DEF ReplyFails, Finish
<1>10. CASE ReaderExits
  BY <1>10 DEF ReaderExits
<1>11. CASE CloseClient
  BY <1>11 DEF CloseClient, Finish
<1>12. CASE GrokReads
  <2>1. inbox # <<>> /\ inbox' = Tail(inbox)
    BY <1>12 DEF GrokReads
  <2>2. \A k \in DOMAIN inbox' : /\ k + 1 \in DOMAIN inbox /\ inbox'[k] = inbox[k + 1]
                                 /\ inbox'[k] # 0 => inbox'[k] # Head(inbox)
    BY <2>1, AfterTail
  <2>3. \A i \in Calls : i # Head(inbox) => served'[i] = served[i]
    BY <1>12 DEF GrokReads
  <2>4. \A k \in DOMAIN inbox : inbox[k] # 0 => inbox[k] \in Calls
    BY InboxIds
  <2> QED
    BY <2>1, <2>2, <2>3, <2>4, SMTT(60)
<1>13. CASE GrokAsks
  BY <1>13 DEF GrokAsks
<1>14. CASE GrokWrites
  BY <1>14 DEF GrokWrites
<1>15. CASE UNCHANGED vars
  BY <1>15 DEF vars
<1> QED
  BY Kinds, <1>1, <1>2, <1>3, <1>4, <1>5, <1>6, <1>7, <1>8, <1>9, <1>10, <1>11, <1>12, <1>13,
     <1>14, <1>15
     DEF OtherMoves, ReaderStep

-----------------------------------------------------------------------------
(* Replies and outcomes.                                                   *)

\* What finish changes of replies and admissions tells nothing but the loss.
LEMMA RepliesAfterFinish ==
  ASSUME TypeOK, RepliesTell, NEW e \in Errors, Finish(e), UNCHANGED <<pc, id, served, acks>>
  PROVE  RepliesTell'
<1>1. \A q \in Calls : reply'[q] = reply[q] \/ (reply'[q] = "lost" /\ err' # "none")
  BY DEF Finish, Errors
<1>2. \A q \in Calls : admitted'[q] = "ack" => admitted[q] = "ack"
  BY FinishTells
<1>3. err # "none" => err' # "none"
  BY DEF Finish
<1> QED
  BY <1>1, <1>2, <1>3 DEF RepliesTell

LEMMA ReplyHasId ==
  ASSUME EntryOrReply
  PROVE  \A q \in Calls : reply[q] \in {"ok", "refused"} => id[q] # 0
BY DEF EntryOrReply

LEMMA RepliesTellKept ==
  ASSUME TypeOK, IdsGiven, EntryOrReply, InboxOnce, FramesTell, RepliesTell, [Next]_vars
  PROVE  RepliesTell'
<1> USE DEF TypeOK, ClientTypeOK, CallTypeOK, RepliesTell, clientVars, callVars, grokVars
<1>1. ASSUME NEW q \in Calls, CallMoves(q) PROVE RepliesTell'
  <2>1. CASE RegisterKey(q)
    BY <2>1 DEF RegisterKey, Go
  <2>2. CASE Register(q)
    <3>1. UNCHANGED <<reply, admitted, err, served, acks>> /\ reply[q] = "none"
      BY <2>2 DEF Register, EntryOrReply, IdsGiven
    <3>2. \A p \in Calls \ {q} : id'[p] = id[p]
      BY <2>2 DEF Register
    <3> QED
      BY <3>1, <3>2
  <2>3. CASE BeginCancel(q)
    BY <2>3 DEF BeginCancel, Go, Return
  <2>4. CASE TakeGate(q)
    BY <2>4 DEF TakeGate, Go
  <2>5. CASE GiveUp(q)
    BY <2>5 DEF GiveUp, Unsent, Forgotten, Return, Go
  <2>6. CASE StartWrite(q)
    BY <2>6 DEF StartWrite, Go
  <2>7. CASE WriteDone(q)
    BY <2>7 DEF WriteDone, Go
  <2>8. CASE WriteBroken(q)
    BY <2>8 DEF WriteBroken, Unsent, Forgotten, Return, Go
  <2>9. CASE WriteCancelled(q)
    <3>1. (\E e \in Errors : Finish(e)) /\ UNCHANGED <<pc, id, served, acks>>
      BY <2>9 DEF WriteCancelled, ReadStray, NextFrame, ReplyFails, CloseClient, Errors, StrayFrames
    <3> QED
      BY <3>1, RepliesAfterFinish
  <2>10. CASE TakeReply(q)
    BY <2>10 DEF TakeReply, NotQueued, Go, Return, IsQueued
  <2>11. CASE CancelWait(q)
    BY <2>11 DEF CancelWait, Return, Go, Drained
  <2>12. CASE TakeAdmission(q)
    BY <2>12 DEF TakeAdmission, Return, Go
  <2>13. CASE Cancel(q)
    BY <2>13 DEF Cancel
  <2>14. CASE GrokAnswers(q)
    <3>1. UNCHANGED <<reply, admitted, err, id, acks>>
      BY <2>14 DEF GrokAnswers
    <3>2. \A p \in Calls : reply[p] \in {"ok", "refused"} => id[p] \in Calls
      BY ReplyHasId, IdInCalls
    <3> QED
      BY <3>1, <3>2, ServedGrows
  <2>15. CASE PollAdmission(q)
    BY <2>15 DEF PollAdmission, Poll, Go
  <2>16. CASE Leave(q)
    BY <2>16 DEF Leave, Go
  <2> QED
    BY <1>1, <2>1, <2>2, <2>3, <2>4, <2>5, <2>6, <2>7, <2>8, <2>9, <2>10, <2>11, <2>12, <2>13,
       <2>14, <2>15, <2>16
       DEF CallMoves, CallStep
<1>2. ASSUME NEW q \in Interjects, GrokAcknowledges(q) PROVE RepliesTell'
  BY <1>2 DEF GrokAcknowledges
<1>3. CASE ReadResponse
  <2>1. PICK i \in Calls, answer \in {"ok", "refused"} : ResponseEffect(i, answer)
    BY <1>3, Answered
  <2>2. UNCHANGED <<pc, id, served, acks>>
    BY <2>1 DEF ResponseEffect
  <2>3. CASE Finish("unmatched")
    BY <2>2, <2>3, RepliesAfterFinish DEF Errors
  <2>4. CASE /\ reply' = [q \in Calls |-> IF id[q] = i /\ pending[i] = "caller"
                                          THEN answer ELSE reply[q]]
             /\ UNCHANGED <<err, admissions, admitted>>
    <3>1. 1 \in DOMAIN outbox
      BY <2>1 DEF ResponseEffect, WireTypeOK
    <3>2. served[i] = answer
      <4>1. outbox[1] = Frame(IF answer = "ok" THEN "response" ELSE "refusal", i)
        BY <2>1 DEF ResponseEffect
      <4>2. Tells(outbox[1])
        BY <3>1 DEF FramesTell, Flight
      <4> QED
        BY <4>1, <4>2 DEF Tells, Frame
    <3> QED
      BY <2>2, <2>4, <3>2
  <2> QED
    BY <2>1, <2>3, <2>4 DEF ResponseEffect
<1>4. CASE ReadNotice
  <2>1. PICK f \in Flight : f = Head(outbox)
    BY <1>4, AfterTail DEF ReadNotice, NextFrame, Flight, WireTypeOK
  <2>2. f.id \in acks
    BY <1>4, <2>1 DEF ReadNotice, NextFrame, FramesTell, Tells
  <2>3. /\ UNCHANGED <<reply, err, id, served, acks>>
        /\ \A p \in Calls : admitted'[p] # admitted[p] => p = f.id
    BY <1>4, <2>1 DEF ReadNotice
  <2> QED
    BY <2>2, <2>3
<1>5. CASE ReadOther
  BY <1>5 DEF ReadOther, NextFrame, Consume
<1>6. CASE ReadStray
  <2>1. (\E e \in Errors : Finish(e)) /\ UNCHANGED <<pc, id, served, acks>>
    BY <1>6 DEF WriteCancelled, ReadStray, NextFrame, ReplyFails, CloseClient, Errors, StrayFrames
  <2> QED
    BY <2>1, RepliesAfterFinish
<1>7. CASE ReplyTakesGate
  BY <1>7 DEF ReplyTakesGate
<1>8. CASE ReplyWritten
  BY <1>8 DEF ReplyWritten
<1>9. CASE ReplyFails
  <2>1. (\E e \in Errors : Finish(e)) /\ UNCHANGED <<pc, id, served, acks>>
    BY <1>9 DEF WriteCancelled, ReadStray, NextFrame, ReplyFails, CloseClient, Errors, StrayFrames
  <2> QED
    BY <2>1, RepliesAfterFinish
<1>10. CASE ReaderExits
  BY <1>10 DEF ReaderExits
<1>11. CASE CloseClient
  <2>1. (\E e \in Errors : Finish(e)) /\ UNCHANGED <<pc, id, served, acks>>
    BY <1>11 DEF WriteCancelled, ReadStray, NextFrame, ReplyFails, CloseClient, Errors, StrayFrames
  <2> QED
    BY <2>1, RepliesAfterFinish
<1>12. CASE GrokReads
  <2>1. UNCHANGED <<reply, admitted, err, id, acks>>
    BY <1>12 DEF GrokReads
  <2>2. \A p \in Calls : reply[p] \in {"ok", "refused"} => id[p] \in Calls
    BY ReplyHasId, IdInCalls
  <2> QED
    BY <2>1, <2>2, ServedGrows
<1>13. CASE GrokAsks
  BY <1>13 DEF GrokAsks
<1>14. CASE GrokWrites
  BY <1>14 DEF GrokWrites
<1>15. CASE UNCHANGED vars
  BY <1>15 DEF vars
<1> QED
  BY Kinds, <1>1, <1>2, <1>3, <1>4, <1>5, <1>6, <1>7, <1>8, <1>9, <1>10, <1>11, <1>12, <1>13,
     <1>14, <1>15
     DEF OtherMoves, ReaderStep

\* Grok refuses, or acknowledges, once and for good.
LEMMA RefusedUnackedKept ==
  ASSUME TypeOK, IdCount, IdsGiven, UnwrittenYet, RefusedUnacked, [Next]_vars
  PROVE  RefusedUnacked'
<1> USE DEF TypeOK, CallTypeOK, WireTypeOK, RefusedUnacked, clientVars, callVars, grokVars
<1>1. ASSUME NEW q \in Calls, CallMoves(q) PROVE RefusedUnacked'
  <2>1. CASE RegisterKey(q)
    BY <2>1 DEF RegisterKey, Go
  <2>2. CASE Register(q)
    <3>1. id[q] = 0 /\ next + 1 \in Calls /\ UNCHANGED <<served, acks>>
      BY <2>2, IdLeft DEF Register, IdsGiven
    <3>2. CASE id' = id
      BY <3>1, <3>2
    <3>3. CASE id' = [id EXCEPT ![q] = next + 1]
      <4>1. served[next + 1] = "unread"
        BY <3>1 DEF UnwrittenYet, Unwritten, ClientTypeOK
      <4> QED
        BY <3>1, <3>3, <4>1
    <3> QED
      BY <2>2, <3>2, <3>3 DEF Register
  <2>3. CASE BeginCancel(q)
    BY <2>3 DEF BeginCancel, Go, Return
  <2>4. CASE TakeGate(q)
    BY <2>4 DEF TakeGate, Go
  <2>5. CASE GiveUp(q)
    BY <2>5 DEF GiveUp, Unsent, Forgotten, Return, Go
  <2>6. CASE StartWrite(q)
    BY <2>6 DEF StartWrite, Go
  <2>7. CASE WriteDone(q)
    BY <2>7 DEF WriteDone, Go
  <2>8. CASE WriteBroken(q)
    BY <2>8 DEF WriteBroken, Unsent, Forgotten, Return, Go
  <2>9. CASE WriteCancelled(q)
    BY <2>9 DEF WriteCancelled, Finish
  <2>10. CASE TakeReply(q)
    BY <2>10 DEF TakeReply, NotQueued, Go, Return, IsQueued
  <2>11. CASE CancelWait(q)
    BY <2>11 DEF CancelWait, Return, Go, Drained
  <2>12. CASE TakeAdmission(q)
    BY <2>12 DEF TakeAdmission, Return, Go
  <2>13. CASE Cancel(q)
    BY <2>13 DEF Cancel
  <2>14. CASE GrokAnswers(q)
    <3>1. \A p \in Calls \ {q} : id[p] # 0 => id[p] # id[q] /\ id[p] \in Calls
      BY IdInCalls DEF IdsGiven
    <3>2. UNCHANGED <<id, acks>> /\ id[q] # 0 /\ id[q] \in Calls
      BY <2>14, IdInCalls DEF GrokAnswers
    <3>3. \A i \in Calls : i # id[q] => served'[i] = served[i]
      BY <2>14 DEF GrokAnswers
    <3>4. served'[id[q]] = "refused" => q \notin acks
      BY <2>14, <3>2 DEF GrokAnswers
    <3> QED
      BY <3>1, <3>2, <3>3, <3>4
  <2>15. CASE PollAdmission(q)
    BY <2>15 DEF PollAdmission, Poll, Go
  <2>16. CASE Leave(q)
    BY <2>16 DEF Leave, Go
  <2> QED
    BY <1>1, <2>1, <2>2, <2>3, <2>4, <2>5, <2>6, <2>7, <2>8, <2>9, <2>10, <2>11, <2>12, <2>13,
       <2>14, <2>15, <2>16
       DEF CallMoves, CallStep
<1>2. ASSUME NEW q \in Interjects, GrokAcknowledges(q) PROVE RefusedUnacked'
  BY <1>2 DEF GrokAcknowledges
<1>3. CASE ReadResponse
  <2>1. PICK i \in Calls, answer \in {"ok", "refused"} : ResponseEffect(i, answer)
    BY <1>3, Answered DEF TypeOK
  <2> QED
    BY <2>1 DEF ResponseEffect, Finish
<1>4. CASE ReadNotice
  BY <1>4 DEF ReadNotice, NextFrame, Consume
<1>5. CASE ReadOther
  BY <1>5 DEF ReadOther, NextFrame, Consume
<1>6. CASE ReadStray
  BY <1>6 DEF ReadStray, NextFrame, Finish
<1>7. CASE ReplyTakesGate
  BY <1>7 DEF ReplyTakesGate
<1>8. CASE ReplyWritten
  BY <1>8 DEF ReplyWritten
<1>9. CASE ReplyFails
  BY <1>9 DEF ReplyFails, Finish
<1>10. CASE ReaderExits
  BY <1>10 DEF ReaderExits
<1>11. CASE CloseClient
  BY <1>11 DEF CloseClient, Finish
<1>12. CASE GrokReads
  <2>1. UNCHANGED <<id, acks>> /\ \A i \in Calls : served'[i] # served[i] => served'[i] = "open"
    BY <1>12 DEF GrokReads
  <2>2. \A p \in Calls : id[p] # 0 => id[p] \in Calls
    BY IdInCalls
  <2> QED
    BY <2>1, <2>2
<1>13. CASE GrokAsks
  BY <1>13 DEF GrokAsks
<1>14. CASE GrokWrites
  BY <1>14 DEF GrokWrites
<1>15. CASE UNCHANGED vars
  BY <1>15 DEF vars
<1> QED
  BY Kinds, <1>1, <1>2, <1>3, <1>4, <1>5, <1>6, <1>7, <1>8, <1>9, <1>10, <1>11, <1>12, <1>13,
     <1>14, <1>15
     DEF OtherMoves, ReaderStep

LEMMA OutcomeHasIdKept ==
  ASSUME TypeOK, IdsGiven, EntryOrReply, KeyOrAdmission, ResultKnown, OutcomeHasId, [Next]_vars
  PROVE  OutcomeHasId'
<1> USE DEF TypeOK, ClientTypeOK, CallTypeOK, OutcomeHasId, PCs, Outcomes, clientVars, callVars,
   grokVars
<1>1. ASSUME NEW q \in Calls, CallMoves(q) PROVE OutcomeHasId'
  <2>1. CASE RegisterKey(q)
    BY <2>1 DEF RegisterKey, Go, KeyOrAdmission, EntryOrReply, IdsGiven
  <2>2. CASE Register(q)
    BY <2>2 DEF Register, Go, Return, KeyOrAdmission, EntryOrReply, IdsGiven
  <2>3. CASE BeginCancel(q)
    BY <2>3 DEF BeginCancel, Go, Return, KeyOrAdmission, EntryOrReply, IdsGiven
  <2>4. CASE TakeGate(q)
    BY <2>4 DEF TakeGate, Go, KeyOrAdmission, EntryOrReply, IdsGiven
  <2>5. CASE GiveUp(q)
    BY <2>5 DEF GiveUp, Unsent, Forgotten, Return, Go, KeyOrAdmission, EntryOrReply, IdsGiven
  <2>6. CASE StartWrite(q)
    BY <2>6 DEF StartWrite, Go, KeyOrAdmission, EntryOrReply, IdsGiven
  <2>7. CASE WriteDone(q)
    BY <2>7 DEF WriteDone, Go, KeyOrAdmission, EntryOrReply, IdsGiven
  <2>8. CASE WriteBroken(q)
    BY <2>8 DEF WriteBroken, Unsent, Forgotten, Return, Go, KeyOrAdmission, EntryOrReply, IdsGiven
  <2>9. CASE WriteCancelled(q)
    BY <2>9 DEF WriteCancelled, Finish, KeyOrAdmission, EntryOrReply, IdsGiven
  <2>10. CASE TakeReply(q)
    BY <2>10 DEF TakeReply, NotQueued, Go, Return, IsQueued, KeyOrAdmission, EntryOrReply, IdsGiven
  <2>11. CASE CancelWait(q)
    BY <2>11 DEF CancelWait, Return, Go, Drained, KeyOrAdmission, EntryOrReply, IdsGiven
  <2>12. CASE TakeAdmission(q)
    BY <2>12 DEF TakeAdmission, Return, Go, KeyOrAdmission, EntryOrReply, IdsGiven
  <2>13. CASE Cancel(q)
    BY <2>13 DEF Cancel, KeyOrAdmission, EntryOrReply, IdsGiven
  <2>14. CASE GrokAnswers(q)
    BY <2>14 DEF GrokAnswers, KeyOrAdmission, EntryOrReply, IdsGiven
  <2>15. CASE PollAdmission(q)
    BY <2>15 DEF PollAdmission, Poll, Go, KeyOrAdmission, EntryOrReply, IdsGiven, ResultKnown
  <2>16. CASE Leave(q)
    BY <2>16 DEF Leave, Go, KeyOrAdmission, EntryOrReply, IdsGiven, ResultKnown
  <2> QED
    BY <1>1, <2>1, <2>2, <2>3, <2>4, <2>5, <2>6, <2>7, <2>8, <2>9, <2>10, <2>11, <2>12, <2>13,
       <2>14, <2>15, <2>16
       DEF CallMoves, CallStep
<1>2. ASSUME NEW q \in Interjects, GrokAcknowledges(q) PROVE OutcomeHasId'
  BY <1>2 DEF GrokAcknowledges
<1>3. CASE ReadResponse
  <2>1. PICK i \in Calls, answer \in {"ok", "refused"} : ResponseEffect(i, answer)
    BY <1>3, Answered DEF TypeOK
  <2> QED
    BY <2>1 DEF ResponseEffect, Finish
<1>4. CASE ReadNotice
  BY <1>4 DEF ReadNotice, NextFrame, Consume
<1>5. CASE ReadOther
  BY <1>5 DEF ReadOther, NextFrame, Consume
<1>6. CASE ReadStray
  BY <1>6 DEF ReadStray, NextFrame, Finish
<1>7. CASE ReplyTakesGate
  BY <1>7 DEF ReplyTakesGate
<1>8. CASE ReplyWritten
  BY <1>8 DEF ReplyWritten
<1>9. CASE ReplyFails
  BY <1>9 DEF ReplyFails, Finish
<1>10. CASE ReaderExits
  BY <1>10 DEF ReaderExits
<1>11. CASE CloseClient
  BY <1>11 DEF CloseClient, Finish
<1>12. CASE GrokReads
  BY <1>12 DEF GrokReads
<1>13. CASE GrokAsks
  BY <1>13 DEF GrokAsks
<1>14. CASE GrokWrites
  BY <1>14 DEF GrokWrites
<1>15. CASE UNCHANGED vars
  BY <1>15 DEF vars
<1> QED
  BY Kinds, <1>1, <1>2, <1>3, <1>4, <1>5, <1>6, <1>7, <1>8, <1>9, <1>10, <1>11, <1>12, <1>13,
     <1>14, <1>15
     DEF OtherMoves, ReaderStep

LEMMA OutcomeFrom ==
  ASSUME TypeOK, IdsGiven, KeyOrAdmission, ResultKnown, [Next]_vars
  PROVE  \A p \in Calls \ Cancels : pc'[p] \in {"ok", "refused"} =>
           id'[p] = id[p] /\ \/ pc'[p] = pc[p]
                             \/ pc'[p] = "refused" /\ reply[p] = "refused"
                             \/ pc'[p] = "ok" /\ p \in Interjects /\ admitted[p] = "ack"
                             \/ pc'[p] = "ok" /\ p \notin Interjects /\ reply[p] = "ok"
<1> USE DEF TypeOK, CallTypeOK, KeyOrAdmission, PCs, Outcomes, clientVars, callVars, grokVars
<1>1. ASSUME NEW q \in Calls, CallMoves(q)
      PROVE \A p \in Calls \ Cancels : pc'[p] \in {"ok", "refused"} =>
           id'[p] = id[p] /\ \/ pc'[p] = pc[p]
                             \/ pc'[p] = "refused" /\ reply[p] = "refused"
                             \/ pc'[p] = "ok" /\ p \in Interjects /\ admitted[p] = "ack"
                             \/ pc'[p] = "ok" /\ p \notin Interjects /\ reply[p] = "ok"
  <2>1. CASE RegisterKey(q)
    BY <2>1 DEF RegisterKey, Go
  <2>2. CASE Register(q)
    <3>1. \A p \in Calls \ {q} : pc'[p] = pc[p] /\ id'[p] = id[p]
      BY <2>2 DEF Register, Return, Go
    <3>2. pc'[q] \in {"ok", "refused"} => id'[q] = id[q] /\ pc'[q] = "ok" /\ admitted[q] = "ack"
      BY <2>2 DEF Register, Return, Go
    <3> QED
      BY <3>1, <3>2
  <2>3. CASE BeginCancel(q)
    BY <2>3 DEF BeginCancel, Go, Return
  <2>4. CASE TakeGate(q)
    BY <2>4 DEF TakeGate, Go
  <2>5. CASE GiveUp(q)
    BY <2>5 DEF GiveUp, Unsent, Forgotten, Return, Go
  <2>6. CASE StartWrite(q)
    BY <2>6 DEF StartWrite, Go
  <2>7. CASE WriteDone(q)
    BY <2>7 DEF WriteDone, Go
  <2>8. CASE WriteBroken(q)
    BY <2>8 DEF WriteBroken, Unsent, Forgotten, Return, Go
  <2>9. CASE WriteCancelled(q)
    BY <2>9 DEF WriteCancelled, Finish
  <2>10. CASE TakeReply(q)
    BY <2>10 DEF TakeReply, NotQueued, Go, Return, IsQueued
  <2>11. CASE CancelWait(q)
    BY <2>11 DEF CancelWait, Return, Go, Drained
  <2>12. CASE TakeAdmission(q)
    BY <2>12 DEF TakeAdmission, Return, Go
  <2>13. CASE Cancel(q)
    BY <2>13 DEF Cancel
  <2>14. CASE GrokAnswers(q)
    BY <2>14 DEF GrokAnswers
  <2>15. CASE PollAdmission(q)
    BY <2>15 DEF PollAdmission, Poll, Go, ResultKnown
  <2>16. CASE Leave(q)
    BY <2>16 DEF Leave, Go, ResultKnown
  <2> QED
    BY <1>1, <2>1, <2>2, <2>3, <2>4, <2>5, <2>6, <2>7, <2>8, <2>9, <2>10, <2>11, <2>12, <2>13,
       <2>14, <2>15, <2>16
       DEF CallMoves, CallStep
<1>2. ASSUME NEW q \in Interjects, GrokAcknowledges(q)
      PROVE \A p \in Calls \ Cancels : pc'[p] \in {"ok", "refused"} =>
           id'[p] = id[p] /\ \/ pc'[p] = pc[p]
                             \/ pc'[p] = "refused" /\ reply[p] = "refused"
                             \/ pc'[p] = "ok" /\ p \in Interjects /\ admitted[p] = "ack"
                             \/ pc'[p] = "ok" /\ p \notin Interjects /\ reply[p] = "ok"
  BY <1>2 DEF GrokAcknowledges
<1>3. CASE ReadResponse
  <2>1. PICK i \in Calls, answer \in {"ok", "refused"} : ResponseEffect(i, answer)
    BY <1>3, Answered DEF TypeOK
  <2> QED
    BY <2>1 DEF ResponseEffect, Finish
<1>4. CASE ReadNotice
  BY <1>4 DEF ReadNotice, NextFrame, Consume
<1>5. CASE ReadOther
  BY <1>5 DEF ReadOther, NextFrame, Consume
<1>6. CASE ReadStray
  BY <1>6 DEF ReadStray, NextFrame, Finish
<1>7. CASE ReplyTakesGate
  BY <1>7 DEF ReplyTakesGate
<1>8. CASE ReplyWritten
  BY <1>8 DEF ReplyWritten
<1>9. CASE ReplyFails
  BY <1>9 DEF ReplyFails, Finish
<1>10. CASE ReaderExits
  BY <1>10 DEF ReaderExits
<1>11. CASE CloseClient
  BY <1>11 DEF CloseClient, Finish
<1>12. CASE GrokReads
  BY <1>12 DEF GrokReads
<1>13. CASE GrokAsks
  BY <1>13 DEF GrokAsks
<1>14. CASE GrokWrites
  BY <1>14 DEF GrokWrites
<1>15. CASE UNCHANGED vars
  BY <1>15 DEF vars
<1> QED
  BY Kinds, <1>1, <1>2, <1>3, <1>4, <1>5, <1>6, <1>7, <1>8, <1>9, <1>10, <1>11, <1>12, <1>13,
     <1>14, <1>15
     DEF OtherMoves, ReaderStep

LEMMA RefusedFrom ==
  ASSUME TypeOK, IdsGiven, ResultKnown, [Next]_vars
  PROVE  \A p \in Calls : pc'[p] = "refused" =>
           id'[p] = id[p] /\ (pc[p] = "refused" \/ reply[p] = "refused")
<1> USE DEF TypeOK, CallTypeOK, PCs, Outcomes, clientVars, callVars, grokVars
<1>1. ASSUME NEW q \in Calls, CallMoves(q) PROVE \A p \in Calls : pc'[p] = "refused" =>
           id'[p] = id[p] /\ (pc[p] = "refused" \/ reply[p] = "refused")
  <2>1. CASE RegisterKey(q)
    BY <2>1 DEF RegisterKey, Go
  <2>2. CASE Register(q)
    <3>1. \A p \in Calls \ {q} : pc'[p] = pc[p] /\ id'[p] = id[p]
      BY <2>2 DEF Register, Return, Go
    <3>2. pc'[q] # "refused"
      BY <2>2 DEF Register, Return, Go
    <3> QED
      BY <3>1, <3>2
  <2>3. CASE BeginCancel(q)
    BY <2>3 DEF BeginCancel, Go, Return
  <2>4. CASE TakeGate(q)
    BY <2>4 DEF TakeGate, Go
  <2>5. CASE GiveUp(q)
    BY <2>5 DEF GiveUp, Unsent, Forgotten, Return, Go
  <2>6. CASE StartWrite(q)
    BY <2>6 DEF StartWrite, Go
  <2>7. CASE WriteDone(q)
    BY <2>7 DEF WriteDone, Go
  <2>8. CASE WriteBroken(q)
    BY <2>8 DEF WriteBroken, Unsent, Forgotten, Return, Go
  <2>9. CASE WriteCancelled(q)
    BY <2>9 DEF WriteCancelled, Finish
  <2>10. CASE TakeReply(q)
    BY <2>10 DEF TakeReply, NotQueued, Go, Return, IsQueued
  <2>11. CASE CancelWait(q)
    BY <2>11 DEF CancelWait, Return, Go, Drained
  <2>12. CASE TakeAdmission(q)
    BY <2>12 DEF TakeAdmission, Return, Go
  <2>13. CASE Cancel(q)
    BY <2>13 DEF Cancel
  <2>14. CASE GrokAnswers(q)
    BY <2>14 DEF GrokAnswers
  <2>15. CASE PollAdmission(q)
    BY <2>15 DEF PollAdmission, Poll, Go
  <2>16. CASE Leave(q)
    BY <2>16 DEF Leave, Go, ResultKnown
  <2> QED
    BY <1>1, <2>1, <2>2, <2>3, <2>4, <2>5, <2>6, <2>7, <2>8, <2>9, <2>10, <2>11, <2>12, <2>13,
       <2>14, <2>15, <2>16
       DEF CallMoves, CallStep
<1>2. ASSUME NEW q \in Interjects, GrokAcknowledges(q) PROVE \A p \in Calls : pc'[p] = "refused" =>
           id'[p] = id[p] /\ (pc[p] = "refused" \/ reply[p] = "refused")
  BY <1>2 DEF GrokAcknowledges
<1>3. CASE ReadResponse
  <2>1. PICK i \in Calls, answer \in {"ok", "refused"} : ResponseEffect(i, answer)
    BY <1>3, Answered DEF TypeOK
  <2> QED
    BY <2>1 DEF ResponseEffect, Finish
<1>4. CASE ReadNotice
  BY <1>4 DEF ReadNotice, NextFrame, Consume
<1>5. CASE ReadOther
  BY <1>5 DEF ReadOther, NextFrame, Consume
<1>6. CASE ReadStray
  BY <1>6 DEF ReadStray, NextFrame, Finish
<1>7. CASE ReplyTakesGate
  BY <1>7 DEF ReplyTakesGate
<1>8. CASE ReplyWritten
  BY <1>8 DEF ReplyWritten
<1>9. CASE ReplyFails
  BY <1>9 DEF ReplyFails, Finish
<1>10. CASE ReaderExits
  BY <1>10 DEF ReaderExits
<1>11. CASE CloseClient
  BY <1>11 DEF CloseClient, Finish
<1>12. CASE GrokReads
  BY <1>12 DEF GrokReads
<1>13. CASE GrokAsks
  BY <1>13 DEF GrokAsks
<1>14. CASE GrokWrites
  BY <1>14 DEF GrokWrites
<1>15. CASE UNCHANGED vars
  BY <1>15 DEF vars
<1> QED
  BY Kinds, <1>1, <1>2, <1>3, <1>4, <1>5, <1>6, <1>7, <1>8, <1>9, <1>10, <1>11, <1>12, <1>13,
     <1>14, <1>15
     DEF OtherMoves, ReaderStep

LEMMA OutcomeOwnKept ==
  ASSUME TypeOK, IdsGiven, EntryOrReply, KeyOrAdmission, ResultKnown, InboxOnce,
         RepliesTell, OutcomeHasId, OutcomeOwn, [Next]_vars
  PROVE  OutcomeOwn'
<1>1. ASSUME NEW p \in Calls \ Cancels, pc'[p] = "ok", p \in Interjects
      PROVE  p \in acks'
  BY <1>1, OutcomeFrom, ServedGrows DEF RepliesTell, OutcomeOwn
<1>2. ASSUME NEW p \in Calls \ Cancels, pc'[p] = "ok", p \notin Interjects
      PROVE  served'[id'[p]] = "ok"
  <2>1. id'[p] = id[p] /\ (pc[p] = "ok" \/ reply[p] = "ok")
    BY <1>2, OutcomeFrom
  <2>2. id[p] \in Calls /\ served[id[p]] = "ok"
    BY <1>2, <2>1, ReplyHasId, IdInCalls DEF TypeOK, OutcomeHasId, RepliesTell, OutcomeOwn
  <2> QED
    BY <2>1, <2>2, ServedGrows
<1>3. ASSUME NEW p \in Calls, pc'[p] = "refused"
      PROVE  served'[id'[p]] = "refused"
  <2>1. id'[p] = id[p] /\ (pc[p] = "refused" \/ reply[p] = "refused")
    BY <1>3, RefusedFrom
  <2>2. id[p] \in Calls /\ served[id[p]] = "refused"
    BY <1>3, <2>1, ReplyHasId, IdInCalls DEF TypeOK, OutcomeHasId, RepliesTell, OutcomeOwn
  <2> QED
    BY <2>1, <2>2, ServedGrows
<1> QED
  BY <1>1, <1>2, <1>3 DEF OutcomeOwn

\* What a step owes a call whose reply, or acknowledgement, is there.
Claims(q) ==
  /\ pc[q] = "await" /\ reply[q] # "none" /\ pc'[q] # "await" =>
       (pc'[q] = "queued" /\ reply[q] = "ok") \/ result'[q] = reply[q]
  /\ admitted[q] = "ack" /\ pc[q] \in Looking => pc'[q] \in Looking \cup {"ok"}

\* Every step gives a call what it is owed.
LEMMA ClaimKept ==
  ASSUME TypeOK, IdsGiven, EntryOrReply, KeyOrAdmission, RepliesTell, RefusedUnacked,
         [Next]_vars, NEW p \in Calls
  PROVE  Claims(p)
<1> USE DEF TypeOK, CallTypeOK, KeyOrAdmission, Keyed, InFlight, Claims, Looking, PCs, Outcomes,
   clientVars, callVars, grokVars
<1>1. ASSUME NEW q \in Calls, CallMoves(q) PROVE Claims(p)
  <2>1. CASE RegisterKey(q)
    BY <2>1 DEF RegisterKey, Go
  <2>2. CASE Register(q)
    BY <2>2 DEF Register, Go, Return
  <2>3. CASE BeginCancel(q)
    BY <2>3 DEF BeginCancel, Go, Return
  <2>4. CASE TakeGate(q)
    BY <2>4 DEF TakeGate, Go
  <2>5. CASE GiveUp(q)
    BY <2>5 DEF GiveUp, Unsent, Forgotten, Return, Go
  <2>6. CASE StartWrite(q)
    BY <2>6 DEF StartWrite, Go
  <2>7. CASE WriteDone(q)
    BY <2>7 DEF WriteDone, Go
  <2>8. CASE WriteBroken(q)
    BY <2>8 DEF WriteBroken, Unsent, Forgotten, Return, Go
  <2>9. CASE WriteCancelled(q)
    BY <2>9 DEF WriteCancelled, Finish
  <2>10. CASE TakeReply(q)
    <3>1. reply[q] = "refused" => admitted[q] # "ack"
      BY ReplyHasId DEF RepliesTell, RefusedUnacked
    <3>2. CASE p # q
      BY <2>10, <3>2 DEF TakeReply, NotQueued, Go, Return
    <3>3. CASE p = q /\ IsQueued(q)
      BY <2>10, <3>3 DEF TakeReply, NotQueued, Go, Return, IsQueued
    <3>4. CASE p = q /\ ~IsQueued(q)
      BY <2>10, <3>1, <3>4 DEF TakeReply, NotQueued, Go, Return, IsQueued
    <3> QED
      BY <3>2, <3>3, <3>4
  <2>11. CASE CancelWait(q)
    <3>1. q \notin Cancels /\ id[q] # 0 /\ id[q] \in Calls
      BY <2>11, FlightHasId, IdInCalls DEF CancelWait, IdsGiven
    <3>2. pending[id[q]] = "caller"
      BY <2>11, <3>1 DEF CancelWait, EntryOrReply, ClientTypeOK
    <3>3. reply[q] = "none"
      BY <3>1, <3>2 DEF EntryOrReply
    <3> QED
      BY <2>11, <3>3 DEF CancelWait, Return, Go
  <2>12. CASE TakeAdmission(q)
    BY <2>12 DEF TakeAdmission, Return, Go
  <2>13. CASE Cancel(q)
    BY <2>13 DEF Cancel
  <2>14. CASE GrokAnswers(q)
    BY <2>14 DEF GrokAnswers
  <2>15. CASE PollAdmission(q)
    BY <2>15 DEF PollAdmission, Poll, Go
  <2>16. CASE Leave(q)
    BY <2>16 DEF Leave, Go
  <2> QED
    BY <1>1, <2>1, <2>2, <2>3, <2>4, <2>5, <2>6, <2>7, <2>8, <2>9, <2>10, <2>11, <2>12, <2>13,
       <2>14, <2>15, <2>16
       DEF CallMoves, CallStep
<1>2. ASSUME NEW q \in Interjects, GrokAcknowledges(q) PROVE Claims(p)
  BY <1>2 DEF GrokAcknowledges
<1>3. CASE ReadResponse
  <2>1. PICK i \in Calls, answer \in {"ok", "refused"} : ResponseEffect(i, answer)
    BY <1>3, Answered DEF TypeOK
  <2> QED
    BY <2>1 DEF ResponseEffect, Finish
<1>4. CASE ReadNotice
  BY <1>4 DEF ReadNotice, NextFrame, Consume
<1>5. CASE ReadOther
  BY <1>5 DEF ReadOther, NextFrame, Consume
<1>6. CASE ReadStray
  BY <1>6 DEF ReadStray, NextFrame, Finish
<1>7. CASE ReplyTakesGate
  BY <1>7 DEF ReplyTakesGate
<1>8. CASE ReplyWritten
  BY <1>8 DEF ReplyWritten
<1>9. CASE ReplyFails
  BY <1>9 DEF ReplyFails, Finish
<1>10. CASE ReaderExits
  BY <1>10 DEF ReaderExits
<1>11. CASE CloseClient
  BY <1>11 DEF CloseClient, Finish
<1>12. CASE GrokReads
  BY <1>12 DEF GrokReads
<1>13. CASE GrokAsks
  BY <1>13 DEF GrokAsks
<1>14. CASE GrokWrites
  BY <1>14 DEF GrokWrites
<1>15. CASE UNCHANGED vars
  BY <1>15 DEF vars
<1> QED
  BY Kinds, <1>1, <1>2, <1>3, <1>4, <1>5, <1>6, <1>7, <1>8, <1>9, <1>10, <1>11, <1>12, <1>13,
     <1>14, <1>15
     DEF OtherMoves, ReaderStep

-----------------------------------------------------------------------------
(* The theorems on answers.                                                *)

\* AnswerInv is an invariant of the connection.
THEOREM AnswerInvariant == Spec => []AnswerInv
<1>1. Init => AnswerInv
  <2> SUFFICES ASSUME Init PROVE AnswerInv
    OBVIOUS
  <2>1. AcpInv
    BY InvInit
  <2> QED
    BY <2>1 DEF Init, AnswerInv, UnwrittenYet, Unwritten, Early, InboxOnce, FramesTell, Tells,
       Flight,
       NoFrame, Frame, RepliesTell, RefusedUnacked, OutcomeHasId, OutcomeOwn
<1>2. AcpInv /\ AcpInv' /\ AnswerInv /\ [Next]_vars => AnswerInv'
  <2> SUFFICES ASSUME AcpInv, AcpInv', AnswerInv, [Next]_vars PROVE AnswerInv'
    OBVIOUS
  <2>1. /\ TypeOK /\ IdCount /\ IdsGiven /\ EntryOrReply /\ KeyOrAdmission
        /\ ResultKnown /\ UnwrittenYet /\ InboxOnce /\ FramesTell /\ RepliesTell
        /\ RefusedUnacked /\ OutcomeHasId /\ OutcomeOwn
    BY DEF AcpInv, AnswerInv
  <2>2. TypeOK' /\ IdsGiven'
    BY DEF AcpInv
  <2>3. UnwrittenYet' /\ InboxOnce'
    BY <2>1, <2>2, UnwrittenYetKept, InboxOnceKept
  <2>4. FramesTell' /\ RepliesTell' /\ RefusedUnacked'
    BY <2>1, <2>2, FramesTellKept, RepliesTellKept, RefusedUnackedKept
  <2>5. OutcomeHasId' /\ OutcomeOwn'
    BY <2>1, OutcomeHasIdKept, OutcomeOwnKept
  <2> QED
    BY <2>3, <2>4, <2>5 DEF AnswerInv
<1> QED
  BY <1>1, <1>2, AcpInvariant, PTL DEF Spec

\* A call returns what Grok answered to that very call.
THEOREM OutcomesAreOwn == Spec => []OutcomeOwn
<1>1. AnswerInv => OutcomeOwn
  BY DEF AnswerInv
<1> QED
  BY <1>1, AnswerInvariant, PTL

\* A claimed completion wins over cancellation, and an acknowledgement that is there
\* when the call looks over every error.
THEOREM ClaimsWin == Spec => ClaimWins
<1>1. AnswerInv /\ [Next]_vars => [\A q \in Calls : Claims(q)]_vars
  <2> SUFFICES ASSUME AnswerInv, [Next]_vars, NEW q \in Calls PROVE Claims(q)
    OBVIOUS
  <2> QED
    BY ClaimKept DEF AnswerInv, AcpInv
<1>2. ClaimWins <=> [][\A q \in Calls : Claims(q)]_vars
  BY DEF ClaimWins, Claims
<1> QED
  BY <1>1, <1>2, AnswerInvariant, PTL DEF Spec

\* A call its owner declined in the submit callback never reaches Grok.
THEOREM DeclinedIsUnwritten == Spec => []DeclinedUnwritten
<1>1. AnswerInv => DeclinedUnwritten
  <2> SUFFICES ASSUME AnswerInv, NEW q \in Calls, pc[q] = "declined"
               PROVE  served[id[q]] = "unread" /\ \A k \in DOMAIN inbox : inbox[k] # id[q]
    BY DEF DeclinedUnwritten
  <2>1. id[q] # 0
    BY DEF AnswerInv, AcpInv, IdsGiven
  <2> QED
    BY <2>1 DEF AnswerInv, UnwrittenYet, Unwritten, Early
<1> QED
  BY <1>1, AnswerInvariant, PTL

-----------------------------------------------------------------------------
(* A Grok that keeps to the protocol.                                      *)

LEMMA AnsweredOnceKept ==
  ASSUME TypeOK, FramesTell, AnsweredOnce, [Next]_vars
  PROVE  AnsweredOnce'
<1> USE DEF TypeOK, WireTypeOK, AnsweredOnce, clientVars, callVars, grokVars
<1>1. ASSUME NEW q \in Calls, CallMoves(q) PROVE AnsweredOnce'
  <2>1. CASE RegisterKey(q)
    BY <2>1 DEF RegisterKey, Go
  <2>2. CASE Register(q)
    BY <2>2 DEF Register, Go, Return
  <2>3. CASE BeginCancel(q)
    BY <2>3 DEF BeginCancel, Go, Return
  <2>4. CASE TakeGate(q)
    BY <2>4 DEF TakeGate, Go
  <2>5. CASE GiveUp(q)
    BY <2>5 DEF GiveUp, Unsent, Forgotten, Return, Go
  <2>6. CASE StartWrite(q)
    BY <2>6 DEF StartWrite, Go
  <2>7. CASE WriteDone(q)
    BY <2>7 DEF WriteDone, Go
  <2>8. CASE WriteBroken(q)
    BY <2>8 DEF WriteBroken, Unsent, Forgotten, Return, Go
  <2>9. CASE WriteCancelled(q)
    BY <2>9 DEF WriteCancelled, Finish
  <2>10. CASE TakeReply(q)
    BY <2>10 DEF TakeReply, NotQueued, Go, Return, IsQueued
  <2>11. CASE CancelWait(q)
    BY <2>11 DEF CancelWait, Return, Go, Drained
  <2>12. CASE TakeAdmission(q)
    BY <2>12 DEF TakeAdmission, Return, Go
  <2>13. CASE Cancel(q)
    BY <2>13 DEF Cancel
  <2>14. CASE GrokAnswers(q)
    <3>1. /\ outbox' = outbox /\ hand'.id = id[q] /\ served[id[q]] = "open"
      BY <2>14 DEF GrokAnswers, Frame
    <3>2. \A j \in DOMAIN outbox : outbox[j].type \in Replies => outbox[j].id # id[q]
      BY <3>1 DEF FramesTell, Tells, Flight, Replies
    <3> QED
      BY <3>1, <3>2
  <2>15. CASE PollAdmission(q)
    BY <2>15 DEF PollAdmission, Poll, Go
  <2>16. CASE Leave(q)
    BY <2>16 DEF Leave, Go
  <2> QED
    BY <1>1, <2>1, <2>2, <2>3, <2>4, <2>5, <2>6, <2>7, <2>8, <2>9, <2>10, <2>11, <2>12, <2>13,
       <2>14, <2>15, <2>16
       DEF CallMoves, CallStep
<1>2. ASSUME NEW q \in Interjects, GrokAcknowledges(q) PROVE AnsweredOnce'
  BY <1>2 DEF GrokAcknowledges, Replies, Frame
<1>3. CASE ReadResponse
  <2>1. PICK i \in Calls, answer \in {"ok", "refused"} : ResponseEffect(i, answer)
    BY <1>3, Answered DEF TypeOK
  <2> QED
    BY <2>1, AfterTail DEF ResponseEffect, Finish
<1>4. CASE ReadNotice
  <2>1. outbox # <<>> /\ outbox' = Tail(outbox) /\ hand' = hand
    BY <1>4 DEF ReadNotice, NextFrame, Consume
  <2> QED
    BY <2>1, AfterTail
<1>5. CASE ReadOther
  <2>1. outbox # <<>> /\ outbox' = Tail(outbox) /\ hand' = hand
    BY <1>5 DEF ReadOther, NextFrame, Consume
  <2> QED
    BY <2>1, AfterTail
<1>6. CASE ReadStray
  <2>1. outbox # <<>> /\ outbox' = Tail(outbox) /\ hand' = hand
    BY <1>6 DEF ReadStray, NextFrame, Consume
  <2> QED
    BY <2>1, AfterTail
<1>7. CASE ReplyTakesGate
  BY <1>7 DEF ReplyTakesGate
<1>8. CASE ReplyWritten
  BY <1>8 DEF ReplyWritten
<1>9. CASE ReplyFails
  BY <1>9 DEF ReplyFails, Finish
<1>10. CASE ReaderExits
  BY <1>10 DEF ReaderExits
<1>11. CASE CloseClient
  BY <1>11 DEF CloseClient, Finish
<1>12. CASE GrokReads
  BY <1>12 DEF GrokReads
<1>13. CASE GrokAsks
  BY <1>13, AcpAssumption DEF GrokAsks, Replies, Frame, StrayFrames
<1>14. CASE GrokWrites
  <2>1. outbox' = Append(outbox, hand) /\ hand' = NoFrame /\ NoFrame.type \notin Replies
    BY <1>14 DEF GrokWrites, NoFrame, Frame, Replies
  <2> QED
    BY <2>1, AfterAppend
<1>15. CASE UNCHANGED vars
  BY <1>15 DEF vars
<1> QED
  BY Kinds, <1>1, <1>2, <1>3, <1>4, <1>5, <1>6, <1>7, <1>8, <1>9, <1>10, <1>11, <1>12, <1>13,
     <1>14, <1>15
     DEF OtherMoves, ReaderStep

LEMMA NoStrayKept ==
  ASSUME TypeOK, "unmatched" \notin Stray, NoStray, [Next]_vars
  PROVE  NoStray'
<1> USE DEF TypeOK, WireTypeOK, NoStray, clientVars, callVars, grokVars
<1>1. ASSUME NEW q \in Calls, CallMoves(q) PROVE NoStray'
  <2>1. CASE RegisterKey(q)
    BY <2>1 DEF RegisterKey, Go, Flight
  <2>2. CASE Register(q)
    BY <2>2 DEF Register, Go, Return, Flight
  <2>3. CASE BeginCancel(q)
    BY <2>3 DEF BeginCancel, Go, Return, Flight
  <2>4. CASE TakeGate(q)
    BY <2>4 DEF TakeGate, Go, Flight
  <2>5. CASE GiveUp(q)
    BY <2>5 DEF GiveUp, Unsent, Forgotten, Return, Go, Flight
  <2>6. CASE StartWrite(q)
    BY <2>6 DEF StartWrite, Go, Flight
  <2>7. CASE WriteDone(q)
    BY <2>7 DEF WriteDone, Go, Flight
  <2>8. CASE WriteBroken(q)
    BY <2>8 DEF WriteBroken, Unsent, Forgotten, Return, Go, Flight
  <2>9. CASE WriteCancelled(q)
    BY <2>9 DEF WriteCancelled, Finish, Flight
  <2>10. CASE TakeReply(q)
    BY <2>10 DEF TakeReply, NotQueued, Go, Return, IsQueued, Flight
  <2>11. CASE CancelWait(q)
    BY <2>11 DEF CancelWait, Return, Go, Drained, Flight
  <2>12. CASE TakeAdmission(q)
    BY <2>12 DEF TakeAdmission, Return, Go, Flight
  <2>13. CASE Cancel(q)
    BY <2>13 DEF Cancel, Flight
  <2>14. CASE GrokAnswers(q)
    BY <2>14 DEF GrokAnswers, Flight, Frame
  <2>15. CASE PollAdmission(q)
    BY <2>15 DEF PollAdmission, Poll, Go, Flight
  <2>16. CASE Leave(q)
    BY <2>16 DEF Leave, Go, Flight
  <2> QED
    BY <1>1, <2>1, <2>2, <2>3, <2>4, <2>5, <2>6, <2>7, <2>8, <2>9, <2>10, <2>11, <2>12, <2>13,
       <2>14, <2>15, <2>16
       DEF CallMoves, CallStep
<1>2. ASSUME NEW q \in Interjects, GrokAcknowledges(q) PROVE NoStray'
  BY <1>2 DEF GrokAcknowledges, Flight, Frame
<1>3. CASE ReadResponse
  <2>1. PICK i \in Calls, answer \in {"ok", "refused"} : ResponseEffect(i, answer)
    BY <1>3, Answered DEF TypeOK
  <2> QED
    BY <2>1, FlightShrinks DEF ResponseEffect, Finish
<1>4. CASE ReadNotice
  <2>1. outbox # <<>> /\ outbox' = Tail(outbox) /\ hand' = hand
    BY <1>4 DEF ReadNotice, NextFrame, Consume
  <2> QED
    BY <2>1, FlightShrinks
<1>5. CASE ReadOther
  <2>1. outbox # <<>> /\ outbox' = Tail(outbox) /\ hand' = hand
    BY <1>5 DEF ReadOther, NextFrame, Consume
  <2> QED
    BY <2>1, FlightShrinks
<1>6. CASE ReadStray
  <2>1. outbox # <<>> /\ outbox' = Tail(outbox) /\ hand' = hand
    BY <1>6 DEF ReadStray, NextFrame, Consume
  <2> QED
    BY <2>1, FlightShrinks
<1>7. CASE ReplyTakesGate
  BY <1>7 DEF ReplyTakesGate, Flight
<1>8. CASE ReplyWritten
  BY <1>8 DEF ReplyWritten, Flight
<1>9. CASE ReplyFails
  BY <1>9 DEF ReplyFails, Finish, Flight
<1>10. CASE ReaderExits
  BY <1>10 DEF ReaderExits, Flight
<1>11. CASE CloseClient
  BY <1>11 DEF CloseClient, Finish, Flight
<1>12. CASE GrokReads
  BY <1>12 DEF GrokReads, Flight
<1>13. CASE GrokAsks
  BY <1>13 DEF GrokAsks, Flight, Frame
<1>14. CASE GrokWrites
  <2>1. outbox' = Append(outbox, hand) /\ hand' = NoFrame /\ NoFrame.type # "unmatched"
    BY <1>14 DEF GrokWrites, NoFrame, Frame
  <2>2. \A k \in DOMAIN outbox' :
        (k \in DOMAIN outbox /\ outbox'[k] = outbox[k]) \/ outbox'[k] = hand
    BY <2>1, AfterAppend
  <2> QED
    BY <2>1, <2>2 DEF Flight
<1>15. CASE UNCHANGED vars
  BY <1>15 DEF vars, Flight
<1> QED
  BY Kinds, <1>1, <1>2, <1>3, <1>4, <1>5, <1>6, <1>7, <1>8, <1>9, <1>10, <1>11, <1>12, <1>13,
     <1>14, <1>15
     DEF OtherMoves, ReaderStep

LEMMA NewDemand ==
  ASSUME TypeOK, IdsGiven, EntryOrReply, UnwrittenYet, RepliesTell, [Next]_vars
  PROVE  \A i \in Calls : Demand(i)' =>
           Demand(i) \/ (pending[i] # "absent" /\ pending'[i] # "absent")
<1> USE DEF TypeOK, WireTypeOK, clientVars, callVars, grokVars
<1>1. ASSUME NEW q \in Calls, CallMoves(q)
      PROVE \A i \in Calls : Demand(i)' =>
              Demand(i) \/ (pending[i] # "absent" /\ pending'[i] # "absent")
  <2>1. CASE RegisterKey(q)
    BY <2>1 DEF RegisterKey, Go, Demand, Flight
  <2>2. CASE Register(q)
    BY <2>2 DEF Register, Go, Return, Demand, Flight
  <2>3. CASE BeginCancel(q)
    BY <2>3 DEF BeginCancel, Go, Return, Demand, Flight
  <2>4. CASE TakeGate(q)
    BY <2>4 DEF TakeGate, Go, Demand, Flight
  <2>5. CASE GiveUp(q)
    BY <2>5 DEF GiveUp, Unsent, Forgotten, Return, Go, Demand, Flight
  <2>6. CASE StartWrite(q)
    BY <2>6 DEF StartWrite, Go, Demand, Flight
  <2>7. CASE WriteDone(q)
    <3>1. /\ inbox' = Append(inbox, id[q]) /\ UNCHANGED <<outbox, hand, served, pending>>
          /\ pc[q] = "writing" /\ err = "none"
      BY <2>7 DEF WriteDone
    <3>2. id[q] # 0 => pending[id[q]] # "absent"
      <4> SUFFICES ASSUME id[q] # 0 PROVE pending[id[q]] = "caller"
        OBVIOUS
      <4>1. Unwritten(id[q]) /\ q \notin Cancels
        BY <3>1 DEF UnwrittenYet, Early, IdsGiven
      <4>2. reply[q] = "none"
        BY <3>1, <4>1 DEF RepliesTell, Unwritten, CallTypeOK
      <4> QED
        BY <3>1, <4>1, <4>2 DEF EntryOrReply, InFlight
    <3>3. id[q] \in 0..NCalls /\ \A i \in Calls : i # 0
      <4>1. id[q] \in 0..NCalls
        BY DEF CallTypeOK
      <4> QED
        BY <4>1 DEF Calls
    <3>4. \A k \in DOMAIN inbox' :
          (k \in DOMAIN inbox /\ inbox'[k] = inbox[k]) \/ inbox'[k] = id[q]
      BY <3>1, <3>3, AfterAppend
    <3> QED
      BY <3>1, <3>2, <3>3, <3>4 DEF Demand, Flight
  <2>8. CASE WriteBroken(q)
    BY <2>8 DEF WriteBroken, Unsent, Forgotten, Return, Go, Demand, Flight
  <2>9. CASE WriteCancelled(q)
    BY <2>9 DEF WriteCancelled, Finish, Demand, Flight
  <2>10. CASE TakeReply(q)
    BY <2>10 DEF TakeReply, NotQueued, Go, Return, IsQueued, Demand, Flight
  <2>11. CASE CancelWait(q)
    BY <2>11 DEF CancelWait, Return, Go, Drained, Demand, Flight
  <2>12. CASE TakeAdmission(q)
    BY <2>12 DEF TakeAdmission, Return, Go, Demand, Flight
  <2>13. CASE Cancel(q)
    BY <2>13 DEF Cancel, Demand, Flight
  <2>14. CASE GrokAnswers(q)
    <3>1. /\ hand'.id = id[q] /\ served[id[q]] = "open" /\ UNCHANGED <<inbox, outbox>>
      BY <2>14 DEF GrokAnswers, Frame
    <3>2. \A i \in Calls : served'[i] = "open" => served[i] = "open"
      BY <2>14 DEF GrokAnswers
    <3> QED
      BY <3>1, <3>2 DEF Demand, Flight
  <2>15. CASE PollAdmission(q)
    BY <2>15 DEF PollAdmission, Poll, Go, Demand, Flight
  <2>16. CASE Leave(q)
    BY <2>16 DEF Leave, Go, Demand, Flight
  <2> QED
    BY <1>1, <2>1, <2>2, <2>3, <2>4, <2>5, <2>6, <2>7, <2>8, <2>9, <2>10, <2>11, <2>12, <2>13,
       <2>14, <2>15, <2>16
       DEF CallMoves, CallStep
<1>2. ASSUME NEW q \in Interjects, GrokAcknowledges(q)
      PROVE \A i \in Calls : Demand(i)' =>
              Demand(i) \/ (pending[i] # "absent" /\ pending'[i] # "absent")
  BY <1>2 DEF GrokAcknowledges, Demand, Flight, Frame, Replies
<1>3. CASE ReadResponse
  <2>1. PICK i \in Calls, answer \in {"ok", "refused"} : ResponseEffect(i, answer)
    BY <1>3, Answered DEF TypeOK
  <2> QED
    BY <2>1, FlightShrinks DEF ResponseEffect, Finish, Demand
<1>4. CASE ReadNotice
  <2>1. outbox # <<>> /\ outbox' = Tail(outbox) /\ UNCHANGED <<hand, served, inbox>>
    BY <1>4 DEF ReadNotice, NextFrame, Consume
  <2> QED
    BY <2>1, FlightShrinks DEF Demand
<1>5. CASE ReadOther
  <2>1. outbox # <<>> /\ outbox' = Tail(outbox) /\ UNCHANGED <<hand, served, inbox>>
    BY <1>5 DEF ReadOther, NextFrame, Consume
  <2> QED
    BY <2>1, FlightShrinks DEF Demand
<1>6. CASE ReadStray
  <2>1. outbox # <<>> /\ outbox' = Tail(outbox) /\ UNCHANGED <<hand, served, inbox>>
    BY <1>6 DEF ReadStray, NextFrame, Consume
  <2> QED
    BY <2>1, FlightShrinks DEF Demand
<1>7. CASE ReplyTakesGate
  BY <1>7 DEF ReplyTakesGate, Demand, Flight
<1>8. CASE ReplyWritten
  <2>1. inbox' = Append(inbox, 0) /\ UNCHANGED <<outbox, hand, served>> /\ 0 \in 0..NCalls
    BY <1>8, AcpAssumption DEF ReplyWritten
  <2>2. \A k \in DOMAIN inbox' : (k \in DOMAIN inbox /\ inbox'[k] = inbox[k]) \/ inbox'[k] = 0
    BY <2>1, AfterAppend
  <2> QED
    BY <2>1, <2>2 DEF Demand, Flight, Calls
<1>9. CASE ReplyFails
  BY <1>9 DEF ReplyFails, Finish, Demand, Flight
<1>10. CASE ReaderExits
  BY <1>10 DEF ReaderExits, Demand, Flight
<1>11. CASE CloseClient
  BY <1>11 DEF CloseClient, Finish, Demand, Flight
<1>12. CASE GrokReads
  <2>1. inbox # <<>> /\ inbox' = Tail(inbox) /\ UNCHANGED <<outbox, hand>>
    BY <1>12 DEF GrokReads
  <2>2. 1 \in DOMAIN inbox /\ Head(inbox) = inbox[1]
    BY <2>1, AfterTail
  <2>3. \A k \in DOMAIN inbox' : k + 1 \in DOMAIN inbox /\ inbox'[k] = inbox[k + 1]
    BY <2>1, AfterTail
  <2>4. \A i \in Calls : served'[i] = IF i = Head(inbox) THEN "open" ELSE served[i]
    BY <1>12 DEF GrokReads
  <2> QED
    BY <2>1, <2>2, <2>3, <2>4 DEF Demand, Flight
<1>13. CASE GrokAsks
  BY <1>13, AcpAssumption DEF GrokAsks, Demand, Flight, Frame, Replies, StrayFrames
<1>14. CASE GrokWrites
  <2>1. /\ outbox' = Append(outbox, hand) /\ hand' = NoFrame /\ NoFrame.type \notin Replies
        /\ UNCHANGED <<served, inbox>>
    BY <1>14 DEF GrokWrites, NoFrame, Frame, Replies
  <2>2. \A k \in DOMAIN outbox' :
        (k \in DOMAIN outbox /\ outbox'[k] = outbox[k]) \/ outbox'[k] = hand
    BY <2>1, AfterAppend
  <2> QED
    BY <2>1, <2>2 DEF Demand, Flight
<1>15. CASE UNCHANGED vars
  BY <1>15 DEF vars, Demand, Flight
<1> QED
  BY Kinds, <1>1, <1>2, <1>3, <1>4, <1>5, <1>6, <1>7, <1>8, <1>9, <1>10, <1>11, <1>12, <1>13,
     <1>14, <1>15
     DEF OtherMoves, ReaderStep

\* Reading a reply, seen from the entry it takes.
TookEntry(i) ==
  /\ outbox # <<>> /\ outbox' = Tail(outbox) /\ UNCHANGED <<hand, inbox, served>>
  /\ outbox[1].type \in Replies /\ outbox[1].id = i

LEMMA EntryGone ==
  ASSUME TypeOK, UnwrittenYet, [Next]_vars
  PROVE  \A i \in Calls : err' = "none" /\ pending[i] # "absent" /\ pending'[i] = "absent" =>
           Unwritten(i) \/ TookEntry(i)
<1> USE DEF TypeOK, ClientTypeOK, clientVars, callVars, grokVars
<1>1. ASSUME NEW q \in Calls, CallMoves(q)
      PROVE \A i \in Calls : err' = "none" /\ pending[i] # "absent" /\ pending'[i] = "absent" =>
           Unwritten(i) \/ TookEntry(i)
  <2>1. CASE RegisterKey(q)
    BY <2>1 DEF RegisterKey, Go
  <2>2. CASE Register(q)
    BY <2>2 DEF Register, Go, Return
  <2>3. CASE BeginCancel(q)
    BY <2>3 DEF BeginCancel, Go, Return
  <2>4. CASE TakeGate(q)
    BY <2>4 DEF TakeGate, Go
  <2>5. CASE GiveUp(q)
    <3>1. pc[q] \in Early /\ pending' = Forgotten(q)
      BY <2>5 DEF GiveUp, WriteBroken, Unsent, Early
    <3>2. \A i \in Calls : pending'[i] # pending[i] => i = id[q] /\ i # 0
      BY <3>1 DEF Forgotten, Calls
    <3> QED
      BY <3>1, <3>2 DEF UnwrittenYet
  <2>6. CASE StartWrite(q)
    BY <2>6 DEF StartWrite, Go
  <2>7. CASE WriteDone(q)
    BY <2>7 DEF WriteDone, Go
  <2>8. CASE WriteBroken(q)
    <3>1. pc[q] \in Early /\ pending' = Forgotten(q)
      BY <2>8 DEF GiveUp, WriteBroken, Unsent, Early
    <3>2. \A i \in Calls : pending'[i] # pending[i] => i = id[q] /\ i # 0
      BY <3>1 DEF Forgotten, Calls
    <3> QED
      BY <3>1, <3>2 DEF UnwrittenYet
  <2>9. CASE WriteCancelled(q)
    <3>1. (\E e \in Errors : Finish(e))
      BY <2>9 DEF WriteCancelled, ReadStray, NextFrame, ReplyFails, CloseClient, Errors, StrayFrames
    <3> QED
      BY <3>1 DEF Finish, Errors
  <2>10. CASE TakeReply(q)
    BY <2>10 DEF TakeReply, NotQueued, Go, Return, IsQueued
  <2>11. CASE CancelWait(q)
    BY <2>11 DEF CancelWait, Return, Go, Drained
  <2>12. CASE TakeAdmission(q)
    BY <2>12 DEF TakeAdmission, Return, Go
  <2>13. CASE Cancel(q)
    BY <2>13 DEF Cancel
  <2>14. CASE GrokAnswers(q)
    BY <2>14 DEF GrokAnswers
  <2>15. CASE PollAdmission(q)
    BY <2>15 DEF PollAdmission, Poll, Go
  <2>16. CASE Leave(q)
    BY <2>16 DEF Leave, Go
  <2> QED
    BY <1>1, <2>1, <2>2, <2>3, <2>4, <2>5, <2>6, <2>7, <2>8, <2>9, <2>10, <2>11, <2>12, <2>13,
       <2>14, <2>15, <2>16
       DEF CallMoves, CallStep
<1>2. ASSUME NEW q \in Interjects, GrokAcknowledges(q)
      PROVE \A i \in Calls : err' = "none" /\ pending[i] # "absent" /\ pending'[i] = "absent" =>
           Unwritten(i) \/ TookEntry(i)
  BY <1>2 DEF GrokAcknowledges
<1>3. CASE ReadResponse
  <2>1. PICK i \in Calls, answer \in {"ok", "refused"} : ResponseEffect(i, answer)
    BY <1>3, Answered DEF TypeOK
  <2>2. CASE Finish("unmatched")
    BY <2>2 DEF Finish
  <2>3. CASE pending' = [pending EXCEPT ![i] = "absent"]
    <3>1. TookEntry(i)
      BY <2>1 DEF ResponseEffect, TookEntry, Frame, Replies
    <3> QED
      BY <2>3, <3>1
  <2> QED
    BY <2>1, <2>2, <2>3 DEF ResponseEffect
<1>4. CASE ReadNotice
  BY <1>4 DEF ReadNotice, NextFrame, Consume
<1>5. CASE ReadOther
  BY <1>5 DEF ReadOther, NextFrame, Consume
<1>6. CASE ReadStray
  <2>1. (\E e \in Errors : Finish(e))
    BY <1>6 DEF WriteCancelled, ReadStray, NextFrame, ReplyFails, CloseClient, Errors, StrayFrames
  <2> QED
    BY <2>1 DEF Finish, Errors
<1>7. CASE ReplyTakesGate
  BY <1>7 DEF ReplyTakesGate
<1>8. CASE ReplyWritten
  BY <1>8 DEF ReplyWritten
<1>9. CASE ReplyFails
  <2>1. (\E e \in Errors : Finish(e))
    BY <1>9 DEF WriteCancelled, ReadStray, NextFrame, ReplyFails, CloseClient, Errors, StrayFrames
  <2> QED
    BY <2>1 DEF Finish, Errors
<1>10. CASE ReaderExits
  BY <1>10 DEF ReaderExits
<1>11. CASE CloseClient
  <2>1. (\E e \in Errors : Finish(e))
    BY <1>11 DEF WriteCancelled, ReadStray, NextFrame, ReplyFails, CloseClient, Errors, StrayFrames
  <2> QED
    BY <2>1 DEF Finish, Errors
<1>12. CASE GrokReads
  BY <1>12 DEF GrokReads
<1>13. CASE GrokAsks
  BY <1>13 DEF GrokAsks
<1>14. CASE GrokWrites
  BY <1>14 DEF GrokWrites
<1>15. CASE UNCHANGED vars
  BY <1>15 DEF vars
<1> QED
  BY Kinds, <1>1, <1>2, <1>3, <1>4, <1>5, <1>6, <1>7, <1>8, <1>9, <1>10, <1>11, <1>12, <1>13,
     <1>14, <1>15
     DEF OtherMoves, ReaderStep

LEMMA ErrorStays ==
  ASSUME TypeOK, [Next]_vars
  PROVE  (err' = "none" => err = "none")
<1> USE DEF TypeOK, clientVars, callVars, grokVars
<1>1. ASSUME NEW q \in Calls, CallMoves(q) PROVE (err' = "none" => err = "none")
  <2>1. CASE RegisterKey(q)
    BY <2>1 DEF RegisterKey, Go
  <2>2. CASE Register(q)
    BY <2>2 DEF Register, Go, Return
  <2>3. CASE BeginCancel(q)
    BY <2>3 DEF BeginCancel, Go, Return
  <2>4. CASE TakeGate(q)
    BY <2>4 DEF TakeGate, Go
  <2>5. CASE GiveUp(q)
    BY <2>5 DEF GiveUp, Unsent, Forgotten, Return, Go
  <2>6. CASE StartWrite(q)
    BY <2>6 DEF StartWrite, Go
  <2>7. CASE WriteDone(q)
    BY <2>7 DEF WriteDone, Go
  <2>8. CASE WriteBroken(q)
    BY <2>8 DEF WriteBroken, Unsent, Forgotten, Return, Go
  <2>9. CASE WriteCancelled(q)
    BY <2>9 DEF WriteCancelled, Finish
  <2>10. CASE TakeReply(q)
    BY <2>10 DEF TakeReply, NotQueued, Go, Return, IsQueued
  <2>11. CASE CancelWait(q)
    BY <2>11 DEF CancelWait, Return, Go, Drained
  <2>12. CASE TakeAdmission(q)
    BY <2>12 DEF TakeAdmission, Return, Go
  <2>13. CASE Cancel(q)
    BY <2>13 DEF Cancel
  <2>14. CASE GrokAnswers(q)
    BY <2>14 DEF GrokAnswers
  <2>15. CASE PollAdmission(q)
    BY <2>15 DEF PollAdmission, Poll, Go
  <2>16. CASE Leave(q)
    BY <2>16 DEF Leave, Go
  <2> QED
    BY <1>1, <2>1, <2>2, <2>3, <2>4, <2>5, <2>6, <2>7, <2>8, <2>9, <2>10, <2>11, <2>12, <2>13,
       <2>14, <2>15, <2>16
       DEF CallMoves, CallStep
<1>2. ASSUME NEW q \in Interjects, GrokAcknowledges(q) PROVE (err' = "none" => err = "none")
  BY <1>2 DEF GrokAcknowledges
<1>3. CASE ReadResponse
  <2>1. PICK i \in Calls, answer \in {"ok", "refused"} : ResponseEffect(i, answer)
    BY <1>3, Answered DEF TypeOK
  <2> QED
    BY <2>1 DEF ResponseEffect, Finish
<1>4. CASE ReadNotice
  BY <1>4 DEF ReadNotice, NextFrame, Consume
<1>5. CASE ReadOther
  BY <1>5 DEF ReadOther, NextFrame, Consume
<1>6. CASE ReadStray
  BY <1>6 DEF ReadStray, NextFrame, Finish
<1>7. CASE ReplyTakesGate
  BY <1>7 DEF ReplyTakesGate
<1>8. CASE ReplyWritten
  BY <1>8 DEF ReplyWritten
<1>9. CASE ReplyFails
  BY <1>9 DEF ReplyFails, Finish
<1>10. CASE ReaderExits
  BY <1>10 DEF ReaderExits
<1>11. CASE CloseClient
  BY <1>11 DEF CloseClient, Finish
<1>12. CASE GrokReads
  BY <1>12 DEF GrokReads
<1>13. CASE GrokAsks
  BY <1>13 DEF GrokAsks
<1>14. CASE GrokWrites
  BY <1>14 DEF GrokWrites
<1>15. CASE UNCHANGED vars
  BY <1>15 DEF vars
<1> QED
  BY Kinds, <1>1, <1>2, <1>3, <1>4, <1>5, <1>6, <1>7, <1>8, <1>9, <1>10, <1>11, <1>12, <1>13,
     <1>14, <1>15
     DEF OtherMoves, ReaderStep

LEMMA ExpectedKept ==
  ASSUME TypeOK, IdsGiven, EntryOrReply, UnwrittenYet, InboxOnce, FramesTell, RepliesTell,
         AnsweredOnce, Expected, [Next]_vars
  PROVE  Expected'
<1> SUFFICES ASSUME err' = "none", NEW i \in Calls, Demand(i)', pending'[i] = "absent"
             PROVE  FALSE
  BY DEF Expected
<1>1. err = "none"
  BY ErrorStays
<1>2. Demand(i) /\ pending[i] # "absent"
  BY <1>1, NewDemand DEF Expected
<1>3. CASE Unwritten(i)
  <2>1. PICK f \in Flight : f.type \in Replies /\ f.id = i
    BY <1>2, <1>3 DEF Demand, Unwritten
  <2> QED
    BY <1>3, <2>1 DEF Unwritten, FramesTell, Tells, Replies
<1>4. CASE TookEntry(i)
  <2>1. 1 \in DOMAIN outbox /\ outbox[1] \in Flight
    BY <1>4, AfterTail DEF TookEntry, TypeOK, WireTypeOK, Flight
  <2>2. served[i] \in {"ok", "refused"}
    BY <1>4, <2>1 DEF TookEntry, FramesTell, Tells, Replies
  <2>3. i # 0 /\ served' = served /\ inbox' = inbox /\ hand' = hand
    BY <1>4 DEF TookEntry, Calls
  <2>4. \A k \in DOMAIN inbox : inbox[k] # i
    BY <2>2, <2>3 DEF InboxOnce
  <2>5. PICK f \in Flight' : f.type \in Replies /\ f.id = i
    BY <2>2, <2>3, <2>4 DEF Demand
  <2>6. CASE f = hand
    BY <1>4, <2>1, <2>5, <2>6 DEF TookEntry, AnsweredOnce
  <2>7. ASSUME NEW k \in DOMAIN Tail(outbox), f = Tail(outbox)[k] PROVE FALSE
    <3>1. k + 1 \in DOMAIN outbox /\ k + 1 # 1 /\ f = outbox[k + 1]
      BY <1>4, <2>7, AfterTail DEF TookEntry, TypeOK, WireTypeOK
    <3> QED
      BY <1>4, <2>1, <2>5, <3>1 DEF TookEntry, AnsweredOnce
  <2> QED
    BY <1>4, <2>3, <2>5, <2>6, <2>7 DEF Flight, TookEntry
<1> QED
  BY <1>2, <1>3, <1>4, EntryGone

LEMMA ConformingKept ==
  ASSUME TypeOK, NoStray, FramesTell, Expected, ConformingNeverUnmatched, [Next]_vars
  PROVE  ConformingNeverUnmatched'
<1> USE DEF TypeOK, ConformingNeverUnmatched, clientVars, callVars, grokVars
<1>1. ASSUME NEW q \in Calls, CallMoves(q) PROVE ConformingNeverUnmatched'
  <2>1. CASE RegisterKey(q)
    BY <2>1 DEF RegisterKey, Go
  <2>2. CASE Register(q)
    BY <2>2 DEF Register, Go, Return
  <2>3. CASE BeginCancel(q)
    BY <2>3 DEF BeginCancel, Go, Return
  <2>4. CASE TakeGate(q)
    BY <2>4 DEF TakeGate, Go
  <2>5. CASE GiveUp(q)
    BY <2>5 DEF GiveUp, Unsent, Forgotten, Return, Go
  <2>6. CASE StartWrite(q)
    BY <2>6 DEF StartWrite, Go
  <2>7. CASE WriteDone(q)
    BY <2>7 DEF WriteDone, Go
  <2>8. CASE WriteBroken(q)
    BY <2>8 DEF WriteBroken, Unsent, Forgotten, Return, Go
  <2>9. CASE WriteCancelled(q)
    BY <2>9 DEF WriteCancelled, Finish
  <2>10. CASE TakeReply(q)
    BY <2>10 DEF TakeReply, NotQueued, Go, Return, IsQueued
  <2>11. CASE CancelWait(q)
    BY <2>11 DEF CancelWait, Return, Go, Drained
  <2>12. CASE TakeAdmission(q)
    BY <2>12 DEF TakeAdmission, Return, Go
  <2>13. CASE Cancel(q)
    BY <2>13 DEF Cancel
  <2>14. CASE GrokAnswers(q)
    BY <2>14 DEF GrokAnswers
  <2>15. CASE PollAdmission(q)
    BY <2>15 DEF PollAdmission, Poll, Go
  <2>16. CASE Leave(q)
    BY <2>16 DEF Leave, Go
  <2> QED
    BY <1>1, <2>1, <2>2, <2>3, <2>4, <2>5, <2>6, <2>7, <2>8, <2>9, <2>10, <2>11, <2>12, <2>13,
       <2>14, <2>15, <2>16
       DEF CallMoves, CallStep
<1>2. ASSUME NEW q \in Interjects, GrokAcknowledges(q) PROVE ConformingNeverUnmatched'
  BY <1>2 DEF GrokAcknowledges
<1>3. CASE ReadResponse
  <2>1. PICK i \in Calls, answer \in {"ok", "refused"} : ResponseEffect(i, answer)
    BY <1>3, Answered
  <2>2. 1 \in DOMAIN outbox /\ outbox[1].type \in Replies /\ outbox[1].id = i
    BY <2>1, AfterTail DEF ResponseEffect, Frame, Replies, WireTypeOK
  <2>3. err = "none" => pending[i] # "absent"
    BY <2>2 DEF Expected, Demand, Flight
  <2> QED
    BY <2>1, <2>3 DEF ResponseEffect, Finish
<1>4. CASE ReadNotice
  BY <1>4 DEF ReadNotice, NextFrame, Consume
<1>5. CASE ReadOther
  BY <1>5 DEF ReadOther, NextFrame, Consume
<1>6. CASE ReadStray
  <2>1. 1 \in DOMAIN outbox /\ Head(outbox) = outbox[1]
    BY <1>6, AfterTail DEF ReadStray, NextFrame, WireTypeOK
  <2>2. Head(outbox).type # "unmatched"
    BY <2>1 DEF NoStray, Flight
  <2> QED
    BY <1>6, <2>2 DEF ReadStray, Finish
<1>7. CASE ReplyTakesGate
  BY <1>7 DEF ReplyTakesGate
<1>8. CASE ReplyWritten
  BY <1>8 DEF ReplyWritten
<1>9. CASE ReplyFails
  BY <1>9 DEF ReplyFails, Finish
<1>10. CASE ReaderExits
  BY <1>10 DEF ReaderExits
<1>11. CASE CloseClient
  BY <1>11 DEF CloseClient, Finish
<1>12. CASE GrokReads
  BY <1>12 DEF GrokReads
<1>13. CASE GrokAsks
  BY <1>13 DEF GrokAsks
<1>14. CASE GrokWrites
  BY <1>14 DEF GrokWrites
<1>15. CASE UNCHANGED vars
  BY <1>15 DEF vars
<1> QED
  BY Kinds, <1>1, <1>2, <1>3, <1>4, <1>5, <1>6, <1>7, <1>8, <1>9, <1>10, <1>11, <1>12, <1>13,
     <1>14, <1>15
     DEF OtherMoves, ReaderStep

\* Ids of cancelled calls are kept for the drain, so a Grok that answers each
\* request at most once never ends the connection as unmatched.
THEOREM ConformingIsNeverUnmatched ==
  ASSUME "unmatched" \notin Stray
  PROVE  Spec => []ConformingNeverUnmatched
<1>1. Init => PromiseInv
  BY DEF Init, PromiseInv, NoStray, AnsweredOnce, Expected, Demand, Flight, NoFrame, Frame, Replies,
     ConformingNeverUnmatched
<1>2. AnswerInv /\ PromiseInv /\ [Next]_vars => PromiseInv'
  <2> SUFFICES ASSUME AnswerInv, PromiseInv, [Next]_vars PROVE PromiseInv'
    OBVIOUS
  <2>1. /\ TypeOK /\ IdsGiven /\ EntryOrReply /\ UnwrittenYet /\ InboxOnce /\ FramesTell
        /\ RepliesTell /\ NoStray /\ AnsweredOnce /\ Expected /\ ConformingNeverUnmatched
    BY DEF AcpInv, AnswerInv, PromiseInv
  <2>2. NoStray' /\ AnsweredOnce'
    BY <2>1, NoStrayKept, AnsweredOnceKept
  <2>3. Expected' /\ ConformingNeverUnmatched'
    BY <2>1, ExpectedKept, ConformingKept
  <2> QED
    BY <2>2, <2>3 DEF PromiseInv
<1>3. PromiseInv => ConformingNeverUnmatched
  BY DEF PromiseInv
<1> QED
  BY <1>1, <1>2, <1>3, AnswerInvariant, PTL DEF Spec

=============================================================================
