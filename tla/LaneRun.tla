------------------------------- MODULE LaneRun -------------------------------
(***************************************************************************)
(* The Run of a managed lane: executeRun and the goroutines that share its *)
(* native prompt - the sender of session/prompt, the delivery callbacks    *)
(* and their interject RPCs, the interrupt callback and the ACP reader     *)
(* (wrappers/grok/grok.go and continuation.go).                            *)
(*                                                                         *)
(* A step is one critical section of Wrapper.mu or one channel operation.  *)
(* A Run has at most one native prompt, so the prompt of Run r is named r; *)
(* the session/prompt is request r and the interject of message m request  *)
(* m.  The ACP connection appears by its contract: a request is pending    *)
(* until its reply, its cancellation or the end of the connection, and a   *)
(* write that passes its submit callback is in order on the wire (the      *)
(* module AcpClient has the write gate and the reader in detail).          *)
(***************************************************************************)
EXTENDS NativeGrok

CONSTANTS SeededRuns,    \* Runs whose input is a peer message, not owner text
          MaxSegments    \* maxACPPending as a bound on owned native segments

ASSUME LaneAssumption ==
  /\ SeededRuns \subseteq Runs
  /\ MaxSegments \in Nat \ {0}

VARIABLES
  \* Wrapper
  run,              \* p.run, or None
  pendingPrompt,    \* p.pendingPrompt, or None
  closing,          \* p.closing
  nativeFailure,    \* p.nativeFailure is set
  deliveryGate,     \* the token is in p.deliveryGate
  \* nativePrompt, by Run
  segments,         \* ids of the owned native prompts, in the order bound
  reason,           \* by native prompt: "open" or its terminal stop reason
  delivery,         \* t.delivery: the registered message, or None
  retiring,         \* prompts with t.retiring
  failure,          \* prompts with t.failure
  interrupt,        \* t.interrupt: "none", "pending" or "done"
  \* nativeDelivery, by message
  attempted,        \* requests whose submit callback let the write happen
  acked,            \* messages with d.acked
  derr,             \* d.err
  \* goroutines
  exec,             \* executeRun, by Run
  receipt,          \* what executeRun reported for its seed
  sender,           \* the goroutine of startPrompt, by Run
  caller,           \* Wrapper.Deliver, by message; in the end what it returned
  rpc,              \* the goroutine of deliverActive, by message
  callback,         \* Wrapper.Interrupt, by Run
  reader,           \* acpClient.read: "reading", "failing" or "exited"
  \* the ACP connection
  conn,             \* "open", or "done" once acpClient.finish has run
  reply,            \* the state of each request's reply
  written,          \* requests whose frame is on the wire
  \* the SDK
  target,           \* the Run a delivery callback was bound to
  interrupted,      \* Runs the SDK was asked to interrupt
  runDone,          \* Runs whose Done channel is closed
  runCancelled,     \* Runs whose context is cancelled
  callerCancelled   \* deliveries whose context is cancelled

lane == <<run, pendingPrompt, closing>>
wrapperVars == <<lane, nativeFailure, deliveryGate>>
course == <<segments, reason, retiring, interrupt>>
promptVars == <<course, delivery, failure>>
deliveryVars == <<attempted, acked, derr>>
owned == <<wrapperVars, promptVars, deliveryVars>>     \* what Wrapper.mu protects
connVars == <<conn, reply, written>>
sdkVars == <<target, interrupted, runDone, runCancelled, callerCancelled>>
outside == <<nativeVars, connVars, sdkVars>>
offWire == <<fromNative, native, running, queued, buffered, enqueued, owed>>

\* The goroutines, and all of them but one.
others == <<sender, callback, caller, receipt>>
goVars == <<exec, others, rpc, reader>>
execOthers == <<others, rpc, reader>>
senderOthers == <<exec, receipt, callback, caller, rpc, reader>>
callerOthers == <<exec, receipt, sender, callback, rpc, reader>>
rpcOthers == <<exec, others, reader>>
callbackOthers == <<exec, receipt, sender, caller, rpc, reader>>
readerOthers == <<exec, others, rpc>>

vars == <<outside, owned, goVars>>

ExecPC == {"idle", "entered", "starting", "admission", "started",
           "interrupting", "await", "owned", "blocked", "fail", "joining",
           "cleanup", "returned"}
CallerPC == {"idle", "captured", "gate", "admission", "await"}
Refusals == {"notRunning", "ctx", "refused", "uncertain", "unavailable", "lost"}
Receipts == Refusals \cup {"injected", "rejected"}

(* The type of every variable, by who holds it.                            *)
WrapperTypeOK ==
  /\ run \in Runs \cup {None} /\ pendingPrompt \in Runs \cup {None}
  /\ closing \in BOOLEAN /\ nativeFailure \in BOOLEAN /\ deliveryGate \in BOOLEAN
PromptTypeOK ==
  /\ segments \in [Runs -> Seq(Requests)]
  /\ reason \in [Requests -> {"open", "end_turn", "cancelled"}]
  /\ delivery \in [Runs -> Messages \cup {None}]
  /\ retiring \subseteq Runs /\ failure \subseteq Runs
  /\ interrupt \in [Runs -> {"none", "pending", "done"}]
DeliveryTypeOK ==
  /\ attempted \subseteq Requests /\ acked \subseteq Messages
  /\ derr \in [Messages -> Refusals \cup {"none"}]
GoTypeOK ==
  /\ exec \in [Runs -> ExecPC]
  /\ receipt \in [Runs -> {"none", "rejected", "injected", "uncertain"}]
  /\ sender \in [Runs -> {"idle", "submit", "reply", "done"}]
  /\ caller \in [Messages -> CallerPC \cup Receipts \cup {"none"}]
  /\ rpc \in [Messages -> {"idle", "submit", "reply", "settle", "abort", "done"}]
  /\ callback \in [Runs -> {"idle", "called", "joining", "returned"}]
  /\ reader \in {"reading", "failing", "exited"}
ConnTypeOK ==
  /\ conn \in {"open", "done"}
  /\ reply \in [Requests -> {"none", "pending", "ok", "refused", "lost", "drained"}]
  /\ written \subseteq Requests
SDKTypeOK ==
  /\ target \in [Messages -> Runs \cup {None}]
  /\ interrupted \subseteq Runs /\ runDone \subseteq Runs
  /\ runCancelled \subseteq Runs /\ callerCancelled \subseteq Messages

TypeOK ==
  /\ NativeTypeOK /\ WrapperTypeOK /\ PromptTypeOK /\ DeliveryTypeOK
  /\ GoTypeOK /\ ConnTypeOK /\ SDKTypeOK

Init ==
  /\ NativeInit
  /\ run = None /\ pendingPrompt = None
  /\ closing = FALSE /\ nativeFailure = FALSE /\ deliveryGate = TRUE
  /\ segments = [r \in Runs |-> <<>>]
  /\ reason = [i \in Requests |-> "open"]
  /\ delivery = [r \in Runs |-> None]
  /\ retiring = {} /\ failure = {}
  /\ interrupt = [r \in Runs |-> "none"]
  /\ attempted = {} /\ acked = {}
  /\ derr = [m \in Messages |-> "none"]
  /\ exec = [r \in Runs |-> "idle"]
  /\ sender = [r \in Runs |-> "idle"]
  /\ caller = [m \in Messages |-> "idle"]
  /\ rpc = [m \in Messages |-> "idle"]
  /\ callback = [r \in Runs |-> "idle"]
  /\ reader = "reading"
  /\ conn = "open"
  /\ reply = [x \in Requests |-> "none"]
  /\ written = {}
  /\ target = [m \in Messages |-> None]
  /\ receipt = [r \in Runs |-> "none"]
  /\ interrupted = {} /\ runDone = {} /\ runCancelled = {} /\ callerCancelled = {}

-----------------------------------------------------------------------------
(* What the critical sections share.                                       *)

AdmittedByWrite(r) == r \in written          \* mutant: no running event needed
Admitted(r) == segments[r] # <<>>
LastTerminal(r) == segments[r] # <<>> /\ reason[segments[r][Len(segments[r])]] # "open"
AllTerminal(r) == \A k \in DOMAIN segments[r] : reason[segments[r][k]] # "open"
HasSegment(r, i) == \E k \in DOMAIN segments[r] : segments[r][k] = i
Accounted(r) == delivery[r] = None /\ AllTerminal(r)

NotWoken(r) == exec                          \* mutant: the signal is lost

\* nativePrompt.signal: executeRun, if it waits on changed, looks again.
Woken(r) == [exec EXCEPT ![r] = IF @ = "blocked" THEN "owned" ELSE @]
Signal(r) == exec' = Woken(r)

\* acpClient.finish: every call that still waits gets the connection's error.
Finish ==
  /\ conn' = "done"
  /\ reply' = [x \in Requests |-> IF reply[x] = "pending" THEN "lost" ELSE reply[x]]

\* t.failure is set; a mutant only reports the error.
FailSilently(t) == UNCHANGED failure
Fail(t) == failure' = failure \cup {t}

\* abortAccounting: the integration is failed for good, its connection closed.
PendingFailure == nativeFailure' = TRUE /\ Finish

\* Mutants, here and below: a definition as a plausible bug would have it.
AdmissionEndsOnLoss(t) == conn = "done"

\* nativePrompt.admission gives up: the prompt ended or the connection is gone.
AdmissionEnds(t) == sender[t] = "done" \/ conn = "done"

\* retireCompletedRunLocked
RetiredRun == IF run \in runDone THEN None ELSE run

\* Mutant: an interject is sent as one more prompt.
WritePrompt(type, x) ==
  /\ toNative' = Append(toNative, Call("prompt", x))
  /\ written' = written \cup {x}
  /\ reply' = [reply EXCEPT ![x] = "pending"]
  /\ UNCHANGED <<offWire, conn>>

\* The frame is on the wire, its request waits for the reply.
Write(type, x) ==
  /\ toNative' = Append(toNative, Call(type, x))
  /\ written' = written \cup {x}
  /\ reply' = [reply EXCEPT ![x] = "pending"]
  /\ UNCHANGED <<offWire, conn>>

\* Mutant: the token stays out.
ReleaseKeepsToken(t, d) ==
  IF delivery[t] # d THEN UNCHANGED <<delivery, deliveryGate, exec>>
  ELSE delivery' = [delivery EXCEPT ![t] = None] /\ Signal(t) /\ UNCHANGED deliveryGate

\* releaseDelivery of d from prompt t, the token included.
Release(t, d) ==
  IF delivery[t] # d THEN UNCHANGED <<delivery, deliveryGate, exec>>
  ELSE /\ delivery' = [delivery EXCEPT ![t] = None]
       /\ deliveryGate' = TRUE
       /\ Signal(t)

-----------------------------------------------------------------------------
(* executeRun                                                              *)

Go(r, pc) == exec' = [exec EXCEPT ![r] = pc]

\* A Run begins when the callback of the one before it has returned, which may
\* be before that Run's Done is closed.
CanBegin(r) == exec[r] = "idle" /\ \A q \in Runs : q < r => exec[q] = "returned"
LaneIdle == RetiredRun = None /\ ~closing /\ ~nativeFailure

\* The reports of a seed: not_submitted, and uncertain once a write was possible.
Reported(r, what) == [receipt EXCEPT ![r] = IF r \in SeededRuns THEN what ELSE @]
SeedRejected(r) == Reported(r, "rejected")
SeedNotSubmitted(r) == Reported(r, "rejected")    \* mutant: a failed start is a rejection
SeedUncertain(r) == Reported(r, "uncertain")

RejectRun(r) ==
  /\ CanBegin(r)
  /\ \/ r \in runCancelled /\ UNCHANGED run
     \/ ~LaneIdle /\ run' = RetiredRun
  /\ receipt' = SeedRejected(r)
  /\ Go(r, "returned")
  /\ UNCHANGED <<outside, promptVars, deliveryVars, pendingPrompt, closing,
                 nativeFailure, deliveryGate, sender, caller, rpc, callback,
                 reader>>

EnterRun(r) ==
  /\ CanBegin(r) /\ r \notin runCancelled
  /\ LaneIdle
  /\ run' = r
  /\ Go(r, "entered")
  /\ UNCHANGED <<outside, promptVars, deliveryVars, execOthers, pendingPrompt,
                 closing, nativeFailure, deliveryGate>>

InterruptedBeforeStart(r) ==
  /\ exec[r] = "entered" /\ r \in interrupted
  /\ receipt' = SeedRejected(r)
  /\ Go(r, "returned")
  /\ UNCHANGED <<outside, owned, sender, caller, rpc, callback, reader>>

\* The owner of the prompt is published before anything is written.
StartPrompt(r) ==
  /\ exec[r] = "entered" /\ r \notin interrupted
  /\ pendingPrompt' = r
  /\ sender' = [sender EXCEPT ![r] = "submit"]
  /\ Go(r, "starting")
  /\ UNCHANGED <<outside, promptVars, deliveryVars, run, closing, nativeFailure,
                 deliveryGate, caller, rpc, callback, reader, receipt>>

PromptStarted(r) ==
  /\ exec[r] = "starting" /\ r \in written
  /\ Go(r, IF r \in SeededRuns THEN "admission" ELSE "started")
  /\ UNCHANGED <<outside, owned, execOthers>>

\* The sender is joined; a seed is reported uncertain.
PromptNotStarted(r) ==
  /\ exec[r] = "starting" /\ r \notin written /\ sender[r] = "done"
  /\ receipt' = SeedUncertain(r)
  /\ Go(r, "fail")
  /\ UNCHANGED <<outside, owned, sender, caller, rpc, callback, reader>>

\* nativePrompt.admission for the seed, then its report, which may itself fail
\* when the bus that cancelled the Run is gone.
SeedAdmitted(r) ==
  /\ exec[r] = "admission" /\ Admitted(r)
  /\ receipt' = [receipt EXCEPT ![r] = "injected"]
  /\ \/ Go(r, "started")
     \/ r \in runCancelled /\ Go(r, "fail")
  /\ UNCHANGED <<outside, owned, sender, caller, rpc, callback, reader>>

SeedNotAdmitted(r) ==
  /\ exec[r] = "admission" /\ ~Admitted(r)
  /\ AdmissionEnds(r) \/ r \in runCancelled
  /\ receipt' = SeedUncertain(r)
  /\ Go(r, "fail")
  /\ UNCHANGED <<outside, owned, sender, caller, rpc, callback, reader>>

\* Mutant: an interrupt of a prompt that was only written is dropped.
InterruptIgnoredUntilAdmitted(r) ==
  \/ ~Admitted(r) \/ r \in retiring \/ pendingPrompt # r
  \/ closing \/ nativeFailure \/ LastTerminal(r)

\* The early return of nativePrompt.Interrupt.
InterruptIgnored(r) ==
  \/ r \notin attempted \/ r \in retiring \/ pendingPrompt # r
  \/ closing \/ nativeFailure \/ LastTerminal(r)

\* An interrupt seen after the start is sent from executeRun itself, or joined.
CheckInterrupted(r) ==
  /\ exec[r] = "started"
  /\ IF r \notin interrupted \/ InterruptIgnored(r)
     THEN Go(r, "await") /\ UNCHANGED interrupt
     ELSE \/ /\ interrupt[r] = "none" /\ r \in runCancelled
             /\ Go(r, "await") /\ UNCHANGED interrupt
          \/ /\ interrupt[r] = "none" /\ r \notin runCancelled
             /\ interrupt' = [interrupt EXCEPT ![r] = "pending"]
             /\ Go(r, "interrupting")
          \/ interrupt[r] # "none" /\ Go(r, "interrupting") /\ UNCHANGED interrupt
  /\ UNCHANGED <<outside, wrapperVars, deliveryVars, execOthers, segments,
                 reason, delivery, retiring, failure>>

RunJoinsInterrupt(r) ==
  /\ exec[r] = "interrupting" /\ interrupt[r] = "done"
  /\ Go(r, "await")
  /\ UNCHANGED <<outside, owned, execOthers>>

\* The head of waitOwned: the reply must name the admitted prompt and come after
\* its terminal.
AwaitReply(r) ==
  /\ exec[r] = "await"
  /\ \/ sender[r] = "done" /\ reply[r] = "ok" /\ Admitted(r)
        /\ reason[segments[r][1]] # "open" /\ Go(r, "owned")
     \/ sender[r] = "done" /\ ~(reply[r] = "ok" /\ Admitted(r)
        /\ reason[segments[r][1]] # "open") /\ Go(r, "fail")
     \/ r \in runCancelled /\ Go(r, "fail")
  /\ UNCHANGED <<outside, owned, execOthers>>

\* Mutants: completion forgets the delivery, or the interrupt.
RunCompleteByTerminals(r) == AllTerminal(r) /\ interrupt[r] # "pending"
RunCompleteInterrupted(r) == Accounted(r)

\* The loop of waitOwned.  It completes, with the prompt retiring, only when
\* nothing registered, bound or being interrupted is left.  (Terminal reasons that
\* disagree and output beyond the limit change what a complete Run reports, and
\* nothing else.)
RunComplete(r) == Accounted(r) /\ interrupt[r] # "pending"

CompleteRun(r) ==
  /\ exec[r] = "owned" /\ r \notin failure
  /\ RunComplete(r)
  /\ retiring' = retiring \cup {r}
  /\ Go(r, "cleanup")
  /\ UNCHANGED <<outside, wrapperVars, deliveryVars, execOthers, segments,
                 reason, delivery, failure, interrupt>>

RunFailed(r) ==
  /\ exec[r] = "owned" /\ r \in failure
  /\ PendingFailure
  /\ Go(r, "fail")
  /\ UNCHANGED <<nativeVars, sdkVars, lane, promptVars, deliveryVars,
                 execOthers, deliveryGate, written>>

RunBlocks(r) ==
  /\ exec[r] = "owned" /\ r \notin failure
  /\ ~RunComplete(r)
  /\ Go(r, "blocked")
  /\ UNCHANGED <<outside, owned, execOthers>>

\* The select of the loop, changed apart (see Signal).  A closed connection ends
\* the Run unless all native work was accounted for.
RunUnblocks(r) ==
  /\ exec[r] = "blocked"
  /\ \/ r \in runCancelled /\ Go(r, "fail")
     \/ conn = "done" /\ Go(r, IF Accounted(r) THEN "owned" ELSE "fail")
  /\ UNCHANGED <<outside, owned, execOthers>>

\* failOwned.  Whatever native may still do for this Run fails the integration.
OutcomeKnown(r) == sender[r] = "done" /\ reply[r] \in {"ok", "refused"}
Unsettled(r) ==
  \/ ~Accounted(r) \/ r \in failure \/ interrupt[r] = "pending"
  \/ ~Admitted(r) /\ r \in attempted /\ ~OutcomeKnown(r)

FailOwned(r) ==
  /\ exec[r] = "fail"
  /\ retiring' = retiring \cup {r}
  /\ IF Unsettled(r) THEN PendingFailure ELSE UNCHANGED <<nativeFailure, conn, reply>>
  /\ Go(r, "joining")
  /\ UNCHANGED <<nativeVars, sdkVars, lane, deliveryVars, execOthers,
                 deliveryGate, segments, reason, delivery, failure, interrupt,
                 written>>

FailJoinsInterrupt(r) ==
  /\ exec[r] = "joining" /\ interrupt[r] # "pending"
  /\ Go(r, "cleanup")
  /\ UNCHANGED <<outside, owned, execOthers>>

ReturnRun(r) ==
  /\ exec[r] = "cleanup"
  /\ pendingPrompt' = IF pendingPrompt = r THEN None ELSE pendingPrompt
  /\ Go(r, "returned")
  /\ UNCHANGED <<outside, promptVars, deliveryVars, execOthers, run, closing,
                 nativeFailure, deliveryGate>>

ExecStep(r) ==
  \/ RejectRun(r) \/ EnterRun(r) \/ InterruptedBeforeStart(r) \/ StartPrompt(r)
  \/ PromptStarted(r) \/ PromptNotStarted(r) \/ SeedAdmitted(r) \/ SeedNotAdmitted(r)
  \/ CheckInterrupted(r) \/ RunJoinsInterrupt(r) \/ AwaitReply(r)
  \/ CompleteRun(r) \/ RunFailed(r) \/ RunBlocks(r) \/ RunUnblocks(r)
  \/ FailOwned(r) \/ FailJoinsInterrupt(r) \/ ReturnRun(r)

-----------------------------------------------------------------------------
(* The goroutine of startPrompt.                                           *)

SubmitPrompt(r) ==
  /\ sender[r] = "submit" /\ conn = "open" /\ r \notin runCancelled
  /\ attempted' = attempted \cup {r}
  /\ Write("prompt", r)
  /\ sender' = [sender EXCEPT ![r] = "reply"]
  /\ UNCHANGED <<sdkVars, wrapperVars, promptVars, senderOthers, acked, derr>>

PromptUnsubmitted(r) ==
  /\ sender[r] = "submit" /\ (conn = "done" \/ r \in runCancelled)
  /\ sender' = [sender EXCEPT ![r] = "done"]
  /\ UNCHANGED <<outside, owned, senderOthers>>

\* The context or the connection ends under the write, after the submit
\* callback: the connection is finished if it was not.
PromptWriteAborted(r) ==
  /\ sender[r] = "submit" /\ (conn = "done" \/ r \in runCancelled)
  /\ attempted' = attempted \cup {r}
  /\ Finish
  /\ sender' = [sender EXCEPT ![r] = "done"]
  /\ UNCHANGED <<nativeVars, sdkVars, wrapperVars, promptVars, senderOthers,
                 acked, derr, written>>

\* A claimed reply wins over a later cancellation; a cancelled request leaves
\* its id behind to be drained.
PromptReplied(r) ==
  /\ sender[r] = "reply"
  /\ \/ reply[r] \in {"ok", "refused", "lost"} /\ UNCHANGED reply
     \/ reply[r] = "pending" /\ r \in runCancelled
        /\ reply' = [reply EXCEPT ![r] = "drained"]
  /\ sender' = [sender EXCEPT ![r] = "done"]
  /\ UNCHANGED <<nativeVars, sdkVars, owned, senderOthers, conn, written>>

SenderStep(r) ==
  SubmitPrompt(r) \/ PromptUnsubmitted(r) \/ PromptWriteAborted(r) \/ PromptReplied(r)

-----------------------------------------------------------------------------
(* Wrapper.Deliver and deliverActive.  The pending prompt is always the one *)
(* of p.run, so the prompt that t names is the one of the Run of the        *)
(* callback.                                                                *)

Step(m, pc) == caller' = [caller EXCEPT ![m] = pc]

\* kit.CurrentRun of the callback's context, and a mutant that follows the lane.
LaneRunNow(m) == IF run = None THEN target[m] ELSE run
BoundRun(m) == target[m]

\* Deliver up to deliverActive.
Deliver(m) ==
  /\ caller[m] = "captured"
  /\ run' = RetiredRun
  /\ IF closing \/ nativeFailure THEN Step(m, "rejected")
     ELSE IF RetiredRun # BoundRun(m) THEN Step(m, "notRunning")
     ELSE Step(m, "gate")
  /\ UNCHANGED <<outside, promptVars, deliveryVars, callerOthers, pendingPrompt,
                 closing, nativeFailure, deliveryGate>>

GateCancelled(m) ==
  /\ caller[m] = "gate" /\ m \in callerCancelled
  /\ Step(m, "ctx")
  /\ UNCHANGED <<outside, owned, callerOthers>>

\* The token is taken and, unless the bound Run still owns a prompt that is not
\* retiring, put back at once.
TakeGate(m) ==
  /\ caller[m] = "gate" /\ deliveryGate
  /\ IF closing \/ nativeFailure \/ run # BoundRun(m) \/ pendingPrompt = None
        \/ pendingPrompt \in retiring
     THEN Step(m, "notRunning") /\ UNCHANGED deliveryGate
     ELSE /\ deliveryGate' = FALSE
          /\ Step(m, "admission")
  /\ UNCHANGED <<outside, lane, promptVars, deliveryVars, callerOthers,
                 nativeFailure>>

AdmissionFails(m) ==
  LET t == BoundRun(m) IN
  /\ caller[m] = "admission" /\ ~Admitted(t)
  /\ m \in callerCancelled \/ AdmissionEnds(t)
  /\ deliveryGate' = TRUE
  /\ Step(m, IF m \in callerCancelled THEN "ctx" ELSE "notRunning")
  /\ UNCHANGED <<outside, lane, promptVars, deliveryVars, callerOthers,
                 nativeFailure>>

\* What registration and, again, submission require of the prompt.
PromptRefuses(t) ==
  \/ pendingPrompt # t \/ closing \/ nativeFailure \/ t \in retiring
  \/ ~Admitted(t) \/ LastTerminal(t)

RegisterDelivery(m) ==
  LET t == BoundRun(m) IN
  /\ caller[m] = "admission" /\ Admitted(t)
  /\ IF PromptRefuses(t) \/ run # t
     THEN /\ deliveryGate' = TRUE
          /\ Step(m, "notRunning")
          /\ UNCHANGED <<delivery, rpc, exec>>
     ELSE /\ delivery' = [delivery EXCEPT ![t] = m]
          /\ Step(m, "await")
          /\ rpc' = [rpc EXCEPT ![m] = "submit"]
          /\ Signal(t)
          /\ UNCHANGED deliveryGate
  /\ UNCHANGED <<outside, lane, course, deliveryVars, nativeFailure, failure,
                 sender, callback, reader, receipt>>

\* The submit callback decides under the mutex that the write follows.
SubmitInterject(m) ==
  LET t == BoundRun(m) IN
  /\ rpc[m] = "submit" /\ conn = "open"
  /\ m \notin callerCancelled /\ t \notin runCancelled
  /\ delivery[t] = m /\ ~PromptRefuses(t)
  /\ attempted' = attempted \cup {m}
  /\ Write("interject", m)
  /\ rpc' = [rpc EXCEPT ![m] = "reply"]
  /\ UNCHANGED <<sdkVars, wrapperVars, promptVars, rpcOthers, acked, derr>>

InterjectUnsubmitted(m) ==
  LET t == BoundRun(m) IN
  /\ rpc[m] = "submit"
  /\ \/ conn = "done" /\ derr' = [derr EXCEPT ![m] = "lost"]
     \/ (m \in callerCancelled \/ t \in runCancelled)
        /\ derr' = [derr EXCEPT ![m] = "ctx"]
     \/ PromptRefuses(t) /\ derr' = [derr EXCEPT ![m] = "notRunning"]
  /\ Release(t, m)
  /\ rpc' = [rpc EXCEPT ![m] = "done"]
  /\ UNCHANGED <<outside, lane, course, others, reader, nativeFailure, failure,
                 attempted, acked>>

\* The same under the write of an interject; the caller's context no longer
\* reaches an RPC that was attempted.
InterjectWriteAborted(m) ==
  LET t == BoundRun(m) IN
  /\ rpc[m] = "submit" /\ (conn = "done" \/ t \in runCancelled)
  /\ m \notin callerCancelled /\ ~PromptRefuses(t)
  /\ attempted' = attempted \cup {m}
  /\ conn' = "done"
  /\ reply' = [x \in Requests |->
                 IF x = m \/ reply[x] = "pending" THEN "lost" ELSE reply[x]]
  /\ rpc' = [rpc EXCEPT ![m] = "reply"]
  /\ UNCHANGED <<nativeVars, sdkVars, wrapperVars, promptVars, rpcOthers, acked,
                 derr, written>>

\* The critical section after the RPC.  A refusal (an error reply or a status
\* other than queued) settles an unacknowledged delivery, a lost reply fails the
\* prompt, and anything else waits for the scheduling classification.
InterjectReplied(m) ==
  LET t == BoundRun(m) IN
  /\ rpc[m] = "reply"
  /\ \/ reply[m] \in {"ok", "refused", "lost"} /\ UNCHANGED reply
     \/ reply[m] = "pending" /\ t \in runCancelled
        /\ reply' = [reply EXCEPT ![m] = "drained"]
  /\ \/ /\ m \notin acked /\ reply[m] = "refused"
        /\ derr' = [derr EXCEPT ![m] = "refused"]
        /\ Release(t, m)
        /\ rpc' = [rpc EXCEPT ![m] = "done"]
        /\ UNCHANGED failure
     \/ /\ m \notin acked /\ reply[m] \in {"lost", "pending"}
        /\ derr' = [derr EXCEPT ![m] = "uncertain"]
        /\ Fail(t)
        /\ Release(t, m)
        /\ rpc' = [rpc EXCEPT ![m] = "abort"]
     \/ /\ m \in acked \/ reply[m] = "ok"
        /\ rpc' = [rpc EXCEPT ![m] = "settle"]
        /\ UNCHANGED <<derr, failure, delivery, deliveryGate, exec>>
  /\ UNCHANGED <<nativeVars, sdkVars, lane, course, others, reader,
                 nativeFailure, attempted, acked, conn, written>>

DeliverySettles(m) ==
  /\ rpc[m] = "settle" /\ delivery[BoundRun(m)] # m
  /\ rpc' = [rpc EXCEPT ![m] = "done"]
  /\ UNCHANGED <<outside, owned, rpcOthers>>

SchedulingLost(m) ==
  LET t == BoundRun(m) IN
  /\ rpc[m] = "settle" /\ delivery[t] = m
  /\ conn = "done" \/ t \in runCancelled
  /\ derr' = [derr EXCEPT ![m] = "unavailable"]
  /\ Fail(t)
  /\ Release(t, m)
  /\ rpc' = [rpc EXCEPT ![m] = "abort"]
  /\ UNCHANGED <<outside, lane, course, others, reader, nativeFailure,
                 attempted, acked>>

\* abortAccounting follows the release, outside the mutex.
InterjectAborts(m) ==
  /\ rpc[m] = "abort"
  /\ PendingFailure
  /\ rpc' = [rpc EXCEPT ![m] = "done"]
  /\ UNCHANGED <<nativeVars, sdkVars, lane, promptVars, deliveryVars, rpcOthers,
                 deliveryGate, written>>

\* Mutants: a caller that leaves has no error, a queued RPC counts as admission, a
\* written one does, and a lost reply counts as a refusal.
CallerOutcomeForgetsCtx(m) == IF m \in acked THEN "injected" ELSE derr[m]
CallerOutcomeTrustsReply(m) ==
  IF m \in acked \/ reply[m] = "ok" THEN "injected"
  ELSE IF m \in callerCancelled THEN "ctx" ELSE derr[m]
CallerOutcomeTrustsWrite(m) ==
  IF m \in attempted THEN "injected" ELSE IF m \in callerCancelled THEN "ctx" ELSE derr[m]

CallerOutcomeLossRefuses(m) ==
  IF m \in acked THEN "injected" ELSE IF m \in callerCancelled THEN "ctx"
  ELSE IF reply[m] = "lost" THEN "refused" ELSE derr[m]

\* The end of deliverActive: admitted, settled or the caller gone.
CallerOutcome(m) ==
  IF m \in acked THEN "injected" ELSE IF m \in callerCancelled THEN "ctx" ELSE derr[m]

CallerReturns(m) ==
  /\ caller[m] = "await"
  /\ m \in acked \/ delivery[BoundRun(m)] # m \/ m \in callerCancelled
  /\ Step(m, CallerOutcome(m))
  /\ UNCHANGED <<outside, owned, callerOthers>>

DeliveryStep(m) ==
  \/ Deliver(m) \/ GateCancelled(m) \/ TakeGate(m) \/ AdmissionFails(m)
  \/ RegisterDelivery(m) \/ SubmitInterject(m) \/ InterjectUnsubmitted(m)
  \/ InterjectWriteAborted(m) \/ InterjectReplied(m) \/ DeliverySettles(m)
  \/ SchedulingLost(m) \/ InterjectAborts(m) \/ CallerReturns(m)

-----------------------------------------------------------------------------
(* Wrapper.Interrupt and the one cancel of a prompt.                       *)

InterruptCallback(r) ==
  /\ callback[r] = "called"
  /\ IF run # r \/ InterruptIgnored(r)
     THEN callback' = [callback EXCEPT ![r] = "returned"] /\ UNCHANGED interrupt
     ELSE /\ callback' = [callback EXCEPT ![r] = "joining"]
          /\ interrupt' = [interrupt EXCEPT ![r] = IF @ = "none" THEN "pending" ELSE @]
  /\ UNCHANGED <<outside, wrapperVars, deliveryVars, callbackOthers, segments,
                 reason, delivery, retiring, failure>>

CallbackJoinsInterrupt(r) ==
  /\ callback[r] = "joining" /\ interrupt[r] = "done"
  /\ callback' = [callback EXCEPT ![r] = "returned"]
  /\ UNCHANGED <<outside, owned, callbackOthers>>

\* cancelContext by the goroutine that opened the operation, and its completion;
\* a write the context interrupts finishes the connection.
SendCancel(r) ==
  /\ interrupt[r] = "pending"
  /\ \/ /\ conn = "open"
        /\ toNative' = Append(toNative, Call("cancel", r))
        /\ UNCHANGED <<conn, reply>>
     \/ (conn = "done" \/ r \in runCancelled) /\ UNCHANGED <<toNative, conn, reply>>
     \/ r \in runCancelled /\ Finish /\ UNCHANGED toNative
  /\ interrupt' = [interrupt EXCEPT ![r] = "done"]
  /\ Signal(r)
  /\ UNCHANGED <<offWire, sdkVars, wrapperVars, deliveryVars, execOthers,
                 segments, reason, delivery, retiring, failure, written>>

InterruptStep(r) ==
  InterruptCallback(r) \/ CallbackJoinsInterrupt(r) \/ SendCancel(r)

-----------------------------------------------------------------------------
(* The reader: one frame, with every handler it reaches.  Once the         *)
(* connection is done the reader handles the frame it has and leaves.  A   *)
(* handler aborts the accounting after it has left the mutex.              *)

NextFrame(type) ==
  reader = "reading" /\ fromNative # <<>> /\ Head(fromNative).type = type

Consume(then) ==
  /\ fromNative' = Tail(fromNative)
  /\ reader' = IF then = "reading" /\ conn = "done" THEN "exited" ELSE then
  /\ UNCHANGED <<toNative, native, running, queued, buffered, enqueued, owed>>

\* A reply ends its request, or only drains the id of a cancelled one.
ReceiveReply ==
  /\ NextFrame("reply")
  /\ LET x == Head(fromNative).id IN
     reply' = [reply EXCEPT ![x] = IF @ = "pending" THEN Head(fromNative).status ELSE @]
  /\ Consume("reading")
  /\ UNCHANGED <<sdkVars, owned, readerOthers, conn, written>>

\* receiveQueue.  A prompt Grok reports as a parent message (marked) is a seed
\* and binds only by the id that was sent.
BindsPrompt(t, i) ==
  LET marked == i \in SeededRuns IN
  ~Admitted(t) /\ (marked => t \in SeededRuns /\ i = t) /\ i = t
BindsDelivery(t, i) ==
  /\ i \notin SeededRuns
  /\ delivery[t] = i /\ i \in attempted /\ i \in acked /\ ~HasSegment(t, i)

ReceiveRunning ==
  /\ NextFrame("running")
  /\ LET t == pendingPrompt
         i == Head(fromNative).id
         known == t # None /\ t \in attempted
         bind == segments' = [segments EXCEPT ![t] = Append(@, i)]
     IN
     \/ /\ known /\ BindsPrompt(t, i)
        /\ bind /\ Signal(t)
        /\ Consume("reading")
        /\ UNCHANGED <<delivery, deliveryGate, failure>>
     \/ /\ known /\ ~BindsPrompt(t, i) /\ BindsDelivery(t, i)
        /\ Len(segments[t]) < MaxSegments
        /\ bind /\ Release(t, i)
        /\ Consume("reading")
        /\ UNCHANGED failure
     \/ /\ known /\ ~BindsPrompt(t, i) /\ BindsDelivery(t, i)
        /\ Len(segments[t]) >= MaxSegments
        /\ Fail(t) /\ Signal(t)
        /\ Consume("failing")
        /\ UNCHANGED <<segments, delivery, deliveryGate>>
     \/ /\ known => ~BindsPrompt(t, i) /\ ~BindsDelivery(t, i)
        /\ Consume("reading")
        /\ UNCHANGED <<segments, delivery, deliveryGate, exec, failure>>
  /\ UNCHANGED <<connVars, sdkVars, lane, deliveryVars, reason, retiring,
                 interrupt, others, rpc, nativeFailure>>

\* receiveLifecycle, the actor's acknowledgement: within a prompt that is open
\* by this stream it also settles the delivery.
ReceiveAck ==
  /\ NextFrame("ack")
  /\ LET t == pendingPrompt
         m == Head(fromNative).id
     IN
     IF t # None /\ m \notin acked /\ m \in attempted /\ delivery[t] = m
     THEN /\ acked' = acked \cup {m}
          /\ IF Admitted(t) /\ ~LastTerminal(t)
             THEN Release(t, m)
             ELSE UNCHANGED <<delivery, deliveryGate, exec>>
     ELSE UNCHANGED <<acked, delivery, deliveryGate, exec>>
  /\ Consume("reading")
  /\ UNCHANGED <<connVars, sdkVars, lane, course, nativeFailure, failure,
                 attempted, derr, others, rpc>>

\* receiveLifecycle, turn_completed of an owned native prompt.
ReceiveCompleted ==
  /\ NextFrame("completed")
  /\ LET t == pendingPrompt
         f == Head(fromNative)
     IN
     IF t # None /\ HasSegment(t, f.id) /\ reason[f.id] = "open"
     THEN reason' = [reason EXCEPT ![f.id] = f.status] /\ Signal(t)
     ELSE UNCHANGED <<reason, exec>>
  /\ Consume("reading")
  /\ UNCHANGED <<connVars, sdkVars, wrapperVars, deliveryVars, segments,
                 delivery, retiring, failure, interrupt, others, rpc>>

\* receive: an owned chunk beyond the retention limit.
ReceiveOverflow ==
  /\ NextFrame("chunk")
  /\ LET t == pendingPrompt IN
     IF t # None /\ HasSegment(t, Head(fromNative).id)
     THEN Fail(t) /\ Signal(t) /\ Consume("failing")
     ELSE Consume("reading") /\ UNCHANGED <<failure, exec>>
  /\ UNCHANGED <<connVars, sdkVars, lane, course, deliveryVars, nativeFailure,
                 deliveryGate, delivery, others, rpc>>

ReaderFails ==
  /\ reader = "failing"
  /\ PendingFailure
  /\ reader' = "exited"
  /\ UNCHANGED <<nativeVars, sdkVars, lane, deliveryGate, promptVars, deliveryVars,
                 readerOthers, written>>

\* The loop leaves after a finish elsewhere, or finishes on EOF itself.
ReaderExits ==
  /\ reader = "reading"
  /\ conn = "done" \/ (native = "exited" /\ fromNative = <<>>)
  /\ reader' = "exited"
  /\ Finish
  /\ UNCHANGED <<nativeVars, sdkVars, owned, readerOthers, written>>

ReaderStep ==
  ReceiveReply \/ ReceiveRunning \/ ReceiveAck \/ ReceiveCompleted \/ ReceiveOverflow
  \/ ReaderFails \/ ReaderExits

-----------------------------------------------------------------------------
(* The SDK and the process around the wrapper.                             *)

\* message.deliver: the SDK binds the callback to the Run it executes now.
CaptureRun(m) ==
  /\ caller[m] = "idle"
  /\ \E r \in Runs :
       /\ exec[r] # "idle" /\ r \notin runDone
       /\ target' = [target EXCEPT ![m] = r]
  /\ Step(m, "captured")
  /\ UNCHANGED <<nativeVars, connVars, owned, callerOthers, interrupted,
                 runDone, runCancelled, callerCancelled>>

CancelCaller(m) ==
  /\ "cancelCaller" \in Faults
  /\ caller[m] \in {"captured", "gate", "admission", "await"} /\ m \notin callerCancelled
  /\ callerCancelled' = callerCancelled \cup {m}
  /\ UNCHANGED <<nativeVars, connVars, owned, goVars, target, interrupted,
                 runDone, runCancelled>>

\* turn.interrupt marks the Run, then calls the wrapper.
InterruptRun(r) ==
  /\ "interrupt" \in Faults
  /\ exec[r] \notin {"idle", "returned"} /\ r \notin interrupted
  /\ interrupted' = interrupted \cup {r}
  /\ callback' = [callback EXCEPT ![r] = "called"]
  /\ UNCHANGED <<nativeVars, connVars, owned, callbackOthers, target, runDone,
                 runCancelled, callerCancelled>>

\* The bus is lost under a Run.
CancelRun(r) ==
  /\ "cancelRun" \in Faults
  /\ exec[r] # "returned" /\ r \notin runCancelled
  /\ runCancelled' = runCancelled \cup {r}
  /\ UNCHANGED <<nativeVars, connVars, owned, goVars, target, interrupted,
                 runDone, callerCancelled>>

\* The callback has returned: Done is closed and the context cancelled.
FinishRun(r) ==
  /\ exec[r] = "returned" /\ r \notin runDone
  /\ runDone' = runDone \cup {r}
  /\ runCancelled' = runCancelled \cup {r}
  /\ UNCHANGED <<nativeVars, connVars, owned, goVars, target, interrupted,
                 callerCancelled>>

Close ==
  /\ "close" \in Faults /\ ~closing
  /\ closing' = TRUE
  /\ UNCHANGED <<outside, promptVars, deliveryVars, goVars, run, pendingPrompt,
                 nativeFailure, deliveryGate>>

\* Grok works while the connection is open; what it writes later is not read.
Wrapper == UNCHANGED <<connVars, sdkVars, owned, goVars>>

NativeStep == conn = "open" /\ native = "alive" /\ NativeWork /\ Wrapper
NativeFault == conn = "open" /\ native = "alive" /\ (RefuseCall \/ Overflow) /\ Wrapper

NativeExits ==
  /\ native = "alive"
  /\ closing \/ conn = "done" \/ "crash" \in Faults
  /\ Exit /\ Wrapper

SDKStep ==
  \/ \E m \in Messages : CaptureRun(m) \/ CancelCaller(m)
  \/ \E r \in Runs : InterruptRun(r) \/ CancelRun(r) \/ FinishRun(r)
  \/ Close

-----------------------------------------------------------------------------
Next ==
  \/ \E r \in Runs : ExecStep(r) \/ SenderStep(r) \/ InterruptStep(r)
  \/ \E m \in Messages : DeliveryStep(m)
  \/ ReaderStep
  \/ SDKStep
  \/ NativeStep \/ NativeFault \/ NativeExits

Spec == Init /\ [][Next]_vars

\* Every goroutine of the wrapper runs on, Grok goes on with what it has, and
\* the SDK closes Done.  Nothing is assumed of faults, callers or interrupts.
Fairness ==
  /\ \A r \in Runs : WF_vars(ExecStep(r)) /\ WF_vars(SenderStep(r))
                       /\ WF_vars(InterruptStep(r)) /\ WF_vars(FinishRun(r))
  /\ \A m \in Messages : WF_vars(DeliveryStep(m))
  /\ WF_vars(ReaderStep)
  /\ WF_vars(NativeStep)

FairSpec == Spec /\ Fairness

-----------------------------------------------------------------------------
(* Safety.                                                                 *)

\* The one token of deliveryGate is in the channel, with a callback that waits
\* for admission, or with a registered delivery, and in one place only: every
\* path of deliverActive gives it back exactly once, so releaseDelivery's send
\* under the mutex never blocks.
GateConserved ==
  /\ deliveryGate <=> /\ \A m \in Messages : caller[m] # "admission"
                      /\ \A r \in Runs : delivery[r] = None
  /\ \A m \in Messages, n \in Messages :
       caller[m] = "admission" /\ caller[n] = "admission" => m = n
  /\ \A r \in Runs, q \in Runs : delivery[r] # None /\ delivery[q] # None => r = q
  /\ \A m \in Messages, r \in Runs : caller[m] = "admission" => delivery[r] = None

\* NotRunning, a rejection and a seed's not_submitted let the daemon submit the
\* same message again, so none of them is ever given for a message whose write
\* was, or can still be, attempted.
RefusedUnwritten ==
  /\ \A m \in Messages :
       caller[m] \in {"notRunning", "rejected"} => m \notin attempted
  /\ \A r \in Runs : receipt[r] = "rejected" => r \notin attempted

\* A delivery that is reported injected was enqueued by the native actor.
InjectedEnqueued ==
  \A m \in Messages : caller[m] = "injected" => m \in enqueued

\* deliverActive returns a receipt or an error, never neither.
NoEmptyReceipt == \A m \in Messages : caller[m] # "none"

\* Once an interject was attempted its message stays accounted for, whatever its
\* caller does: registered, acknowledged, definitely refused, or the failure of
\* its prompt.
AttemptedAccounted ==
  \A m \in Messages \cap attempted :
    \/ delivery[target[m]] = m \/ m \in acked
    \/ derr[m] = "refused" \/ target[m] \in failure

\* What makes the four properties above inductive.  A delivery that has begun is
\* bound to a Run; it has no RPC before it is registered; an RPC that has not
\* been submitted has attempted nothing; one that is unsettled and unacknowledged
\* is still registered, and one that has ended unacknowledged has its error.
CallerBound ==
  \A m \in Messages :
    /\ caller[m] # "idle" \/ rpc[m] # "idle" => target[m] \in Runs
    /\ caller[m] \in {"idle", "captured", "gate", "admission"} => rpc[m] = "idle"
    /\ caller[m] = "await" => rpc[m] # "idle"
    /\ caller[m] = "rejected" => rpc[m] = "idle"
    /\ caller[m] = "notRunning" => rpc[m] = "idle" \/ derr[m] = "notRunning"
    /\ caller[m] = "injected" => m \in acked
RpcAccounted ==
  \A m \in Messages :
    /\ rpc[m] \in {"idle", "submit"} => m \notin attempted /\ m \notin acked
    /\ rpc[m] \in {"submit", "reply", "settle"} /\ m \notin acked => delivery[target[m]] = m
    /\ rpc[m] \in {"abort", "done"} /\ m \notin acked => derr[m] # "none"
    /\ derr[m] = "notRunning" => m \notin attempted /\ rpc[m] = "done"
SeedAccounted ==
  \A r \in Runs :
    /\ exec[r] \in {"idle", "entered"} => sender[r] = "idle"
    /\ sender[r] \in {"idle", "submit"} => r \notin attempted
    /\ receipt[r] = "rejected" => exec[r] = "returned" /\ sender[r] = "idle"

\* An acknowledgement, read or not, is of a message that was enqueued.
AckedEnqueued ==
  /\ acked \subseteq enqueued
  /\ \A k \in DOMAIN fromNative :
       fromNative[k].type = "ack" => fromNative[k].id \in enqueued

\* The strengthening itself: the books of callers, RPCs, seeds and acknowledgements
\* agree, so an unsettled write is never forgotten.
Accounting == CallerBound /\ RpcAccounted /\ SeedAccounted /\ AckedEnqueued

\* No interject reaches Grok before the prompt it is bound to has started.
NoEarlyInterject ==
  \A k \in DOMAIN toNative : toNative[k].type = "interject" =>
    LET r == target[toNative[k].id] IN
    r \in written /\ r \notin queued
    /\ \A j \in DOMAIN toNative : toNative[j] # Call("prompt", r)

\* A message never steers the prompt of a Run other than the one its callback
\* was bound to.
NoForeignSteer ==
  NextCall("interject") /\ running \in Runs => running = target[Head(toNative).id]

\* What Grok does for Run r: its prompt, and the fallback prompts of its messages.
WorkOf(r) == {r} \cup {m \in Messages : target[m] = r}
NativeBusyFor(r) ==
  \/ running \in WorkOf(r) \/ WorkOf(r) \cap queued # {}
  \/ \E k \in DOMAIN toNative : toNative[k].type # "cancel" /\ toNative[k].id \in WorkOf(r)

\* A Run returns only when Grok has nothing left to do for it, or the integration
\* is retired: no idle worker while native work goes on behind it.
NoWorkBehindIdleLane ==
  \A r \in Runs :
    exec[r] = "returned" /\ conn = "open" /\ ~nativeFailure => ~NativeBusyFor(r)

\* The session/cancel of a Run finds Grok idle or at work for that Run, never at
\* the prompt of a later one.
CancelFindsItsRun ==
  NextCall("cancel") => running \in {None} \cup WorkOf(Head(toNative).id)

\* The lane takes a cancel for this Run: nothing else ends it.
Interruptible(r) ==
  /\ exec[r] \in {"await", "owned", "blocked"} /\ Admitted(r) /\ ~LastTerminal(r)
  /\ ~closing /\ ~nativeFailure /\ r \notin runCancelled

\* An interrupt that came before the prompt was attempted, when its callback has
\* nothing to cancel, is sent by executeRun: it is never lost while the submitted
\* prompt runs.
InterruptNotLost ==
  \A r \in Runs :
    r \in interrupted /\ callback[r] = "returned" /\ Interruptible(r)
    /\ Len(segments[r]) = 1 => interrupt[r] # "none"

\* The same of every native prompt the Run owns, its continuations included.
InterruptReachesContinuation ==
  \A r \in Runs :
    r \in interrupted /\ callback[r] = "returned" /\ Interruptible(r)
    => interrupt[r] # "none"

-----------------------------------------------------------------------------
(* What deliveries promise.                                                *)

\* How far a message got, and what its callback said to the daemon.
Stage(m) ==
  IF m \in enqueued THEN "enqueued" ELSE IF m \in attempted THEN "attempted" ELSE "unsent"
Answer(m) ==
  CASE caller[m] \in CallerPC -> "none"
    [] caller[m] \in {"notRunning", "rejected"} -> "unsubmitted"
    [] caller[m] \in {"refused", "injected"} -> caller[m]
    [] OTHER -> "unknown"

Contract == INSTANCE DeliveryContract WITH
  stage <- [m \in Messages |-> Stage(m)], answer <- [m \in Messages |-> Answer(m)]

\* Every step of the lane is one of the contract's or invisible in it: whatever is
\* refused, lost, crashed, closed or left by its caller, a message is handed over at
\* most once and the one answer about it is true and stays true.
DeliveryPromise == Contract!Spec

-----------------------------------------------------------------------------
(* Liveness.                                                               *)

\* A Run that began returns.
RunReturns == \A r \in Runs : exec[r] = "entered" ~> exec[r] = "returned"

\* Every delivery callback returns.
DeliveryReturns ==
  \A m \in Messages : caller[m] = "captured" ~> caller[m] \notin CallerPC
=============================================================================
