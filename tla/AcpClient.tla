------------------------------ MODULE AcpClient ------------------------------
(***************************************************************************)
(* One ACP connection (wrappers/grok/acp.go): concurrent calls that share  *)
(* a write gate and the table of pending replies, the reader goroutine     *)
(* that also answers Grok's reverse requests, and finish.                  *)
(*                                                                         *)
(* A step is one critical section of acpClient.mu or one channel or pipe   *)
(* operation.  Both pipes are bounded, and Grok is one thread: while a     *)
(* frame it wants to write finds no room it reads nothing.                 *)
(***************************************************************************)
EXTENDS Integers, Sequences, FiniteSets

CONSTANTS NCalls,       \* calls, each made once
          Interjects,   \* the calls made by interject, with an admission key
          Cancels,      \* those made by cancelContext, which wait for no answer
          Primary,      \* acpRole: the primary answers reverse requests
          MaxPending,   \* maxACPPending
          PipeRoom,     \* frames a pipe holds before a write to it blocks
          MaxReverse,   \* reverse requests Grok sends, a bound of the model
          Stray         \* frames a conforming Grok never sends, if it may

Calls == 1..NCalls
StrayFrames == {"malformed", "unmatched"}

ASSUME AcpAssumption ==
  /\ NCalls \in Nat \ {0}
  /\ Interjects \subseteq Calls /\ Cancels \subseteq Calls \ Interjects
  /\ Primary \in BOOLEAN
  /\ MaxPending \in Nat \ {0}
  /\ PipeRoom \in Nat \ {0}
  /\ MaxReverse \in Nat
  /\ Stray \subseteq StrayFrames

VARIABLES
  \* acpClient
  err,          \* c.err; done is closed when it is not "none"
  next,         \* c.next
  pending,      \* c.pending: by id "absent", "nil" (to drain) or the caller's
  admissions,   \* interjects whose key is in c.admissions
  gate,         \* the token is in c.writeGate
  \* calls
  pc,           \* where each call is, in the end what it returned
  id,           \* the request id of a call, 0 before it has one
  result,       \* what its request returned, "none" while it runs
  reply,        \* the reply channel of a call: "none", "ok", "refused", "lost"
  admitted,     \* the admission channel: "none", "ack" or "lost"
  cancelled,    \* calls whose context is cancelled
  \* acpClient.read
  reader,       \* "reading", "gate", "writing" (a reverse reply) or "exited"
  \* pipes and Grok
  inbox,        \* frames on the way to Grok: request ids, 0 if it answers none
  outbox,       \* frames on the way to the reader
  hand,         \* the frame Grok wants to write now
  served,       \* by id: "unread", "open", or how Grok has answered it
  acks,         \* interjects Grok has acknowledged
  reversed      \* reverse requests Grok has sent

clientVars == <<err, next, pending, admissions, gate>>
callVars == <<pc, id, result, reply, admitted, cancelled>>
grokVars == <<hand, served, acks, reversed>>
vars == <<clientVars, callVars, reader, inbox, outbox, grokVars>>

Errors == {"eof", "malformed", "unmatched", "ctx", "timeout", "closed"}
Outcomes == {"ok", "refused", "lost", "ctx", "capacity", "writeFailed", "declined"}
PCs == {"idle", "keyed", "gate", "holding", "writing", "await", "queued", "failed",
        "leaving"}
Frames == [type : {"response", "refusal", "notice", "request"}, id : Calls]
          \cup [type : {"string"} \cup StrayFrames, id : 0..NCalls]
Frame(type, i) == [type |-> type, id |-> i]
NoFrame == Frame("string", 0)

(* The type of every variable.                                             *)
ClientTypeOK ==
  /\ err \in Errors \cup {"none"} /\ next \in 0..NCalls
  /\ pending \in [Calls -> {"absent", "nil", "caller"}]
  /\ admissions \subseteq Interjects /\ gate \in BOOLEAN
CallTypeOK ==
  /\ pc \in [Calls -> PCs \cup Outcomes] /\ id \in [Calls -> 0..NCalls]
  /\ result \in [Calls -> Outcomes \cup {"none"}]
  /\ reply \in [Calls -> {"none", "ok", "refused", "lost"}]
  /\ admitted \in [Calls -> {"none", "ack", "lost"}]
  /\ cancelled \subseteq Calls
WireTypeOK ==
  /\ reader \in {"reading", "gate", "writing", "exited"}
  /\ inbox \in Seq(0..NCalls) /\ outbox \in Seq(Frames) /\ hand \in Frames
  /\ served \in [Calls -> {"unread", "open", "ok", "refused"}]
  /\ acks \subseteq Interjects /\ reversed \in 0..MaxReverse

TypeOK == ClientTypeOK /\ CallTypeOK /\ WireTypeOK

Init ==
  /\ err = "none" /\ next = 0 /\ gate = TRUE /\ admissions = {}
  /\ pending = [i \in Calls |-> "absent"]
  /\ pc = [q \in Calls |-> "idle"] /\ id = [q \in Calls |-> 0]
  /\ result = [q \in Calls |-> "none"]
  /\ reply = [q \in Calls |-> "none"] /\ admitted = [q \in Calls |-> "none"]
  /\ cancelled = {} /\ reader = "reading"
  /\ inbox = <<>> /\ outbox = <<>>
  /\ hand = NoFrame /\ acks = {}
  /\ served = [i \in Calls |-> "unread"]
  /\ reversed = 0

-----------------------------------------------------------------------------
Go(q, where) == pc' = [pc EXCEPT ![q] = where]
Registered == {i \in Calls : pending[i] # "absent"}

\* Mutants, here and below: a definition as a plausible bug would have it.  This
\* finish tells the calls and forgets the interjects.
FinishCalls(e) ==
  IF err # "none" THEN UNCHANGED <<err, pending, reply, admissions, admitted>>
  ELSE /\ err' = e
       /\ reply' = [q \in Calls |-> IF id[q] # 0 /\ pending[id[q]] = "caller"
                                    THEN "lost" ELSE reply[q]]
       /\ pending' = [i \in Calls |-> "absent"]
       /\ UNCHANGED <<admissions, admitted>>

\* finish: the first error wins, and everything that waits is told.
Finish(e) ==
  IF err # "none" THEN UNCHANGED <<err, pending, reply, admissions, admitted>>
  ELSE /\ err' = e
       /\ reply' = [q \in Calls |-> IF id[q] # 0 /\ pending[id[q]] = "caller"
                                    THEN "lost" ELSE reply[q]]
       /\ pending' = [i \in Calls |-> "absent"]
       /\ admitted' = [q \in Calls |-> IF q \in admissions THEN "lost" ELSE admitted[q]]
       /\ admissions' = {}

-----------------------------------------------------------------------------
(* A call: interject around requestSubmitting around sendSubmitting.       *)

\* interject registers its key before the request.
RegisterKey(q) ==
  /\ pc[q] = "idle" /\ q \in Interjects
  /\ IF err # "none" THEN Go(q, "lost") /\ UNCHANGED admissions
     ELSE IF Cardinality(admissions) >= MaxPending
     THEN Go(q, "capacity") /\ UNCHANGED admissions
     ELSE Go(q, "keyed") /\ admissions' = admissions \cup {q}
  /\ UNCHANGED <<err, next, pending, gate, id, result, reply, admitted, cancelled,
                 reader, inbox, outbox, grokVars>>

\* The request of a call returns.  An interject goes on with its error.
Return(q, outcome) ==
  /\ Go(q, IF q \in Interjects THEN "failed" ELSE outcome)
  /\ result' = [result EXCEPT ![q] = outcome]

\* Mutants: the request's own error wins; the raw acknowledgement is returned.
PollNothing(q) == Go(q, "leaving")
PollRaw(q) == Go(q, IF admitted[q] # "none" THEN admitted[q] ELSE "leaving")

\* Before its error it polls the admission channel: an acknowledgement that is
\* there wins (the reader has taken the key, nothing is left to remove).
Poll(q) == Go(q, IF admitted[q] = "ack" THEN "ok" ELSE "leaving")

PollAdmission(q) ==
  /\ pc[q] = "failed" /\ Poll(q)
  /\ UNCHANGED <<clientVars, id, result, reply, admitted, cancelled, reader, inbox,
                 outbox, grokVars>>

\* The deferred removal of the key.  Until it is taken the reader may still
\* acknowledge, to a call that no longer looks.
Leave(q) ==
  /\ pc[q] = "leaving"
  /\ admissions' = admissions \ {q}
  /\ Go(q, result[q])
  /\ UNCHANGED <<err, next, pending, gate, id, result, reply, admitted, cancelled,
                 reader, inbox, outbox, grokVars>>

\* The capacity check and the registration of the id.
Register(q) ==
  /\ q \notin Cancels /\ pc[q] = IF q \in Interjects THEN "keyed" ELSE "idle"
  /\ IF q \in cancelled THEN Return(q, "ctx") /\ UNCHANGED <<next, id, pending>>
     ELSE IF err # "none" THEN Return(q, "lost") /\ UNCHANGED <<next, id, pending>>
     ELSE IF Cardinality(Registered) >= MaxPending
     THEN Return(q, "capacity") /\ UNCHANGED <<next, id, pending>>
     ELSE /\ next' = next + 1
          /\ id' = [id EXCEPT ![q] = next + 1]
          /\ pending' = [pending EXCEPT ![next + 1] = "caller"]
          /\ Go(q, "gate") /\ UNCHANGED result
  /\ UNCHANGED <<err, admissions, gate, reply, admitted, cancelled, reader, inbox,
                 outbox, grokVars>>

\* cancelContext has no id and registers nothing.
BeginCancel(q) ==
  /\ q \in Cancels /\ pc[q] = "idle"
  /\ IF q \in cancelled THEN Return(q, "ctx") ELSE Go(q, "gate") /\ UNCHANGED result
  /\ UNCHANGED <<clientVars, id, reply, admitted, cancelled, reader, inbox, outbox,
                 grokVars>>

\* Mutant: the frame is flushed before the owner's callback is asked.
TakeGateAndWrite(q) ==
  /\ pc[q] = "gate" /\ gate /\ Len(inbox) < PipeRoom
  /\ gate' = FALSE
  /\ inbox' = Append(inbox, id[q])
  /\ Go(q, "holding")
  /\ UNCHANGED <<err, next, pending, admissions, id, result, reply, admitted, cancelled,
                 reader, outbox, grokVars>>

TakeGate(q) ==
  /\ pc[q] = "gate" /\ gate
  /\ gate' = FALSE
  /\ Go(q, "holding")
  /\ UNCHANGED <<err, next, pending, admissions, id, result, reply, admitted, cancelled,
                 reader, inbox, outbox, grokVars>>

Forgotten(q) == [i \in Calls |-> IF i = id[q] THEN "absent" ELSE pending[i]]

\* Mutant: the gate is lost with the call.
UnsentKeepsGate(q, outcome) ==
  /\ pending' = Forgotten(q)
  /\ UNCHANGED gate
  /\ Return(q, outcome)

\* Nothing was written: the id is forgotten, the gate (if held) given back.
Unsent(q, outcome) ==
  /\ pending' = Forgotten(q)
  /\ gate' = (gate \/ pc[q] # "gate")
  /\ Return(q, outcome)

\* Cancelled, or the connection finished, before the write; or, holding the
\* gate, declined by the submit callback of the owner.
GiveUp(q) ==
  /\ \/ pc[q] \in {"gate", "holding"} /\ q \in cancelled /\ Unsent(q, "writeFailed")
     \/ pc[q] \in {"gate", "holding"} /\ err # "none" /\ Unsent(q, "writeFailed")
     \/ pc[q] = "holding" /\ q \notin Interjects \cup Cancels /\ Unsent(q, "declined")
  /\ UNCHANGED <<err, next, admissions, id, reply, admitted, cancelled, reader, inbox,
                 outbox, grokVars>>

StartWrite(q) ==
  /\ pc[q] = "holding" /\ err = "none" /\ q \notin cancelled
  /\ Go(q, "writing")
  /\ UNCHANGED <<clientVars, id, result, reply, admitted, cancelled, reader, inbox,
                 outbox, grokVars>>

WriteDone(q) ==
  /\ pc[q] = "writing" /\ err = "none" /\ Len(inbox) < PipeRoom
  /\ inbox' = Append(inbox, id[q])
  /\ gate' = TRUE
  /\ Go(q, IF q \in Cancels THEN "ok" ELSE "await")
  /\ UNCHANGED <<err, next, pending, admissions, id, result, reply, admitted, cancelled,
                 reader, outbox, grokVars>>

\* finish elsewhere closed the pipe under the write.
WriteBroken(q) ==
  /\ pc[q] = "writing" /\ err # "none"
  /\ Unsent(q, "writeFailed")
  /\ UNCHANGED <<err, next, admissions, id, reply, admitted, cancelled, reader, inbox,
                 outbox, grokVars>>

\* A write the context interrupts may have put part of a frame on the wire: the
\* connection is finished, which makes the write return.
WriteCancelled(q) ==
  /\ pc[q] = "writing" /\ err = "none" /\ q \in cancelled
  /\ Finish("ctx")
  /\ UNCHANGED <<next, gate, pc, id, result, cancelled, reader, inbox, outbox,
                 grokVars>>

IsQueuedNever(q) == FALSE             \* mutant: a queued interject counts as admitted
Undrained(q) == Forgotten(q)          \* mutant: the id is forgotten
\* The reply, or the cancellation, of a call.  An interject is not done with its
\* reply, and one with a status other than queued is refused without a poll.  A
\* cancelled call leaves its id to be drained unless the reader has claimed it:
\* then the reply is taken.
IsQueued(q) == reply[q] = "ok" /\ q \in Interjects
NotQueued(q) ==
  /\ reply[q] = "refused" /\ q \in Interjects
  /\ Go(q, "leaving")
  /\ result' = [result EXCEPT ![q] = "refused"]
TakeReply(q) ==
  /\ pc[q] = "await" /\ reply[q] # "none"
  /\ \/ IsQueued(q) /\ Go(q, "queued") /\ UNCHANGED result
     \/ ~IsQueued(q) /\ Return(q, reply[q])
     \/ NotQueued(q)
  /\ UNCHANGED <<clientVars, id, reply, admitted, cancelled, reader, inbox, outbox,
                 grokVars>>

Drained(q) == [pending EXCEPT ![id[q]] = "nil"]

CancelWait(q) ==
  /\ pc[q] = "await" /\ q \in cancelled
  /\ pending[id[q]] # "absent"
  /\ pending' = Drained(q)
  /\ Return(q, "ctx")
  /\ UNCHANGED <<err, next, admissions, gate, id, reply, admitted, cancelled, reader,
                 inbox, outbox, grokVars>>

\* A queued interject waits for the actor's acknowledgement.
TakeAdmission(q) ==
  /\ pc[q] = "queued"
  /\ \/ /\ admitted[q] # "none" /\ Go(q, IF admitted[q] = "ack" THEN "ok" ELSE "lost")
        /\ UNCHANGED admissions
     \/ /\ q \in cancelled /\ q \in admissions /\ Go(q, "ctx")
        /\ admissions' = admissions \ {q}
  /\ UNCHANGED <<err, next, pending, gate, id, result, reply, admitted, cancelled,
                 reader, inbox, outbox, grokVars>>

CallStep(q) ==
  \/ RegisterKey(q) \/ Register(q) \/ BeginCancel(q) \/ TakeGate(q) \/ GiveUp(q)
  \/ StartWrite(q) \/ WriteDone(q) \/ WriteBroken(q) \/ WriteCancelled(q) \/ TakeReply(q)
  \/ CancelWait(q) \/ PollAdmission(q) \/ Leave(q) \/ TakeAdmission(q)

-----------------------------------------------------------------------------
(* The reader.                                                             *)

NextFrame(types) == reader = "reading" /\ outbox # <<>> /\ Head(outbox).type \in types
Consume(where) ==
  outbox' = Tail(outbox) /\ reader' = IF err # "none" THEN "exited" ELSE where

\* A response goes to the call that waits under its id; an id kept for drain only
\* disappears, and an unknown one is fatal.
ReadResponse ==
  /\ NextFrame({"response", "refusal"})
  /\ LET i == Head(outbox).id
         answer == IF Head(outbox).type = "response" THEN "ok" ELSE "refused"
     IN IF pending[i] = "absent"
        THEN Finish("unmatched") /\ outbox' = Tail(outbox) /\ reader' = "exited"
        ELSE /\ reply' = [q \in Calls |-> IF id[q] = i /\ pending[i] = "caller"
                                          THEN answer ELSE reply[q]]
             /\ pending' = [pending EXCEPT ![i] = "absent"]
             /\ Consume("reading")
             /\ UNCHANGED <<err, admissions, admitted>>
  /\ UNCHANGED <<next, gate, pc, id, result, cancelled, inbox, grokVars>>

\* The actor's acknowledgement reaches the interject that registered its key.
ReadNotice ==
  /\ NextFrame({"notice"})
  /\ LET q == Head(outbox).id IN
     IF q \in admissions
     THEN admitted' = [admitted EXCEPT ![q] = "ack"] /\ admissions' = admissions \ {q}
     ELSE UNCHANGED <<admitted, admissions>>
  /\ Consume("reading")
  /\ UNCHANGED <<err, next, pending, gate, pc, id, result, reply, cancelled, inbox,
                 grokVars>>

\* The primary answers a reverse request before it reads on; an observer leaves
\* it to the prompt owner.  A response with a string id is not ours.
ReadOther ==
  /\ NextFrame({"request", "string"})
  /\ Consume(IF Head(outbox).type = "request" /\ Primary THEN "gate" ELSE "reading")
  /\ UNCHANGED <<clientVars, callVars, inbox, grokVars>>

ReadStray ==
  /\ NextFrame(StrayFrames)
  /\ Finish(Head(outbox).type) /\ outbox' = Tail(outbox) /\ reader' = "exited"
  /\ UNCHANGED <<next, gate, pc, id, result, cancelled, inbox, grokVars>>

\* sendReverseReply: the gate, the write, and the timeout over both.
ReplyTakesGate ==
  /\ reader = "gate" /\ gate /\ err = "none"
  /\ gate' = FALSE /\ reader' = "writing"
  /\ UNCHANGED <<err, next, pending, admissions, callVars, inbox, outbox, grokVars>>

ReplyWritten ==
  /\ reader = "writing" /\ err = "none" /\ Len(inbox) < PipeRoom
  /\ inbox' = Append(inbox, 0)
  /\ gate' = TRUE /\ reader' = "reading"
  /\ UNCHANGED <<err, next, pending, admissions, callVars, outbox, grokVars>>

\* Mutant: the timeout covers the gate and not the write.
ReplyFailsAtGate ==
  /\ reader = "gate"
  /\ Finish("timeout") /\ reader' = "exited"
  /\ UNCHANGED <<next, gate, pc, id, result, cancelled, inbox, outbox, grokVars>>

ReplyFails ==
  /\ reader \in {"gate", "writing"}
  /\ Finish("timeout")
  /\ gate' = (gate \/ reader = "writing") /\ reader' = "exited"
  /\ UNCHANGED <<next, pc, id, result, cancelled, inbox, outbox, grokVars>>

ReaderExits ==
  /\ reader = "reading" /\ err # "none"
  /\ reader' = "exited"
  /\ UNCHANGED <<clientVars, callVars, inbox, outbox, grokVars>>

ReaderStep ==
  \/ ReadResponse \/ ReadNotice \/ ReadOther \/ ReadStray
  \/ ReplyTakesGate \/ ReplyWritten \/ ReplyFails \/ ReaderExits

-----------------------------------------------------------------------------
(* The owner of the connection, and Grok (external).                       *)

Cancel(q) ==
  /\ q \notin cancelled /\ pc[q] \in PCs
  /\ cancelled' = cancelled \cup {q}
  /\ UNCHANGED <<clientVars, pc, id, result, reply, admitted, reader, inbox, outbox,
                 grokVars>>

\* close, or the end of Grok's output.
CloseClient ==
  /\ Finish("closed")
  /\ UNCHANGED <<next, gate, pc, id, result, cancelled, reader, inbox, outbox,
                 grokVars>>

GrokReads ==
  /\ err = "none" /\ hand = NoFrame /\ inbox # <<>>
  /\ inbox' = Tail(inbox)
  /\ served' = [i \in Calls |-> IF i = Head(inbox) THEN "open" ELSE served[i]]
  /\ UNCHANGED <<clientVars, callVars, reader, outbox, hand, acks, reversed>>

\* The next frame Grok wants to write: an answer, the acknowledgement of an
\* interject it does not refuse, a request of its own, or what it never should.
GrokAnswers(q) ==
  /\ err = "none" /\ hand = NoFrame
  /\ id[q] # 0 /\ served[id[q]] = "open"
  /\ \/ hand' = Frame("response", id[q]) /\ served' = [served EXCEPT ![id[q]] = "ok"]
     \/ /\ q \notin acks /\ hand' = Frame("refusal", id[q])
        /\ served' = [served EXCEPT ![id[q]] = "refused"]
  /\ UNCHANGED <<clientVars, callVars, reader, inbox, outbox, acks, reversed>>

GrokAcknowledges(q) ==
  /\ err = "none" /\ hand = NoFrame
  /\ id[q] # 0 /\ served[id[q]] \in {"open", "ok"} /\ q \notin acks
  /\ hand' = Frame("notice", q) /\ acks' = acks \cup {q}
  /\ UNCHANGED <<clientVars, callVars, reader, inbox, outbox, served, reversed>>

GrokAsks ==
  /\ err = "none" /\ hand = NoFrame
  /\ \/ /\ reversed < MaxReverse /\ reversed' = reversed + 1
        /\ \E type \in {"request", "string"} : hand' = Frame(type, NCalls)
     \/ \E type \in Stray : hand' = Frame(type, 0) /\ UNCHANGED reversed
  /\ UNCHANGED <<clientVars, callVars, reader, inbox, outbox, served, acks>>

GrokWrites ==
  /\ err = "none" /\ hand # NoFrame /\ Len(outbox) < PipeRoom
  /\ outbox' = Append(outbox, hand)
  /\ hand' = NoFrame
  /\ UNCHANGED <<clientVars, callVars, reader, inbox, served, acks, reversed>>

-----------------------------------------------------------------------------
Next ==
  \/ \E q \in Calls : CallStep(q) \/ Cancel(q) \/ GrokAnswers(q)
  \/ \E q \in Interjects : GrokAcknowledges(q)
  \/ ReaderStep \/ CloseClient \/ GrokReads \/ GrokAsks \/ GrokWrites

Spec == Init /\ [][Next]_vars

\* Calls and the reader run on, and Grok reads, answers, acknowledges and writes
\* what it can; no context need end and nobody need close the connection.
Fairness ==
  /\ \A q \in Calls : WF_vars(CallStep(q)) /\ WF_vars(GrokAnswers(q))
  /\ \A q \in Interjects : WF_vars(GrokAcknowledges(q))
  /\ WF_vars(ReaderStep) /\ WF_vars(GrokReads) /\ WF_vars(GrokWrites)

FairSpec == Spec /\ Fairness

-----------------------------------------------------------------------------
(* Properties.                                                             *)

\* The write gate's one token is in the channel or with exactly one writer, so
\* frames are never mixed on the pipe and the deferred send never blocks.
Writers == {q \in Calls : pc[q] \in {"holding", "writing"}}
WriteGateConserved ==
  /\ gate <=> Writers = {} /\ reader # "writing"
  /\ reader = "writing" => Writers = {}
  /\ \A p \in Writers, q \in Writers : p = q

\* Ids of cancelled calls are kept until Grok answers them, so a Grok that
\* answers each request at most once never ends the connection as unmatched.
ConformingNeverUnmatched == err # "unmatched"

\* Once the connection has an error nothing stays registered, and every call that
\* still waits has something to take: no wait outlives finish.
NobodyStranded ==
  err # "none" =>
    /\ Registered = {} /\ admissions = {}
    /\ \A q \in Calls :
         /\ pc[q] = "await" => reply[q] # "none"
         /\ pc[q] = "queued" => admitted[q] # "none"

\* Native completion claimed by the reader wins over cancellation.  An interject
\* acknowledged at any time before it looked comes to nothing but success: not to
\* the error of its request, not to its context, not to the end of the connection.
\* One acknowledged after it looked may return its error.
Looking == PCs \ {"leaving"}
ClaimWins ==
  [][\A q \in Calls :
       /\ pc[q] = "await" /\ reply[q] # "none" /\ pc'[q] # "await" =>
            (pc'[q] = "queued" /\ reply[q] = "ok") \/ result'[q] = reply[q]
       /\ admitted[q] = "ack" /\ pc[q] \in Looking => pc'[q] \in Looking \cup {"ok"}]_vars

\* A call returns what Grok answered to that very call: success only for its own
\* response (an interject: its own acknowledgement), refusal only for its own.
OutcomeOwn ==
  \A q \in Calls :
    /\ pc[q] = "ok" /\ q \notin Cancels =>
         IF q \in Interjects THEN q \in acks ELSE served[id[q]] = "ok"
    /\ pc[q] = "refused" => served[id[q]] = "refused"

\* A call its owner declined in the submit callback never reaches Grok.
DeclinedUnwritten ==
  \A q \in Calls :
    pc[q] = "declined" =>
      /\ served[id[q]] = "unread"
      /\ \A k \in DOMAIN inbox : inbox[k] # id[q]

\* A reader that answers a reverse request always gets back to reading, or ends:
\* with both pipes full it is the reply's timeout that breaks the circle.
ReaderResumes == reader \in {"gate", "writing"} ~> reader \in {"reading", "exited"}

\* Every call returns.
CallReturns == \A q \in Calls : pc[q] \in {"keyed", "gate"} ~> pc[q] \in Outcomes
=============================================================================
