# grok-peer: specification, model checking and proofs

`grok-peer` connects a native Grok process to a session bus. It runs in two
roles. As a *lane* it is a worker of the bus: it owns one Grok child, executes
the Runs the daemon gives it as `session/prompt`s, steers a running prompt with
the messages that arrive meanwhile (`_x.ai/interject`) and interrupts it
(`session/cancel`). As an *interactive helper* it is started by Grok beside a
session a person uses: it names that session, publishes its title on the bus and
interjects what the bus delivers. Both talk to Grok over ACP, JSON-RPC frames in
a pair of pipes.

Everything below is about `wrappers/grok/`, where the program's own logic is.
Line numbers of every definition are in `PROJECT.json`, "map".

## Inventory

| Component | Source | State | Operations | Status |
| --- | --- | --- | --- | --- |
| Lane Run and native prompt | `grok.go` (executeRun, startPrompt, Interrupt, receive), `continuation.go` (waitOwned, receiveQueue, receiveLifecycle) | `p.run`, `p.pendingPrompt`, `p.nativeFailure`, `t.segments`, `t.delivery`, `t.interrupt`, `t.retiring`, `t.failure` | run, submit, bind, complete, fail, interrupt | `LaneRun` |
| Lane message delivery | `continuation.go` (deliverActive, releaseDelivery), `grok.go` (Deliver) | `p.deliveryGate`, `nativeDelivery` | capture, gate, admission, register, submit, acknowledge, settle, release | `LaneRun` |
| Native Grok session | not in the repository | prompt queue, interjection buffer, two streams | external | `NativeGrok` |
| ACP connection | `acp.go` | `pending`, `admissions`, `writeGate`, `next`, `err`, `done` | request, interject, cancel, read, reverse reply, finish | `AcpClient` |
| Interactive helper | `peer_owner.go` | `PeerBackend`: `peer`, `observer`, `identity`, `ending`, `admitted`, `slots`, `work`, `deliveryGate` | observe, name, connect, publish, deliver, Shutdown | `PeerOwner` |
| Initial-name claim | `peer_owner.go` (claimInitialName, completeInitialName) | one file of the launch | create, record owner, complete | `PeerOwner` |
| Lane opening and closing | `grok.go` (Open, openSession, commitOpen, Close, closeProcesses, watch) | `opened`, `closing`, `primary`, `child`, `endpoint`, `nativeFailure`, `p.ctx` | Open, its deferred Close, Close and its abort, watch | `LaneLifecycle` |
| Lane helper endpoint | `lane_endpoint.go` | `clients`, `closed`, `ready`, `lossOnce` | serve, serveClient, validateSession, Close, End, waitReady | `LaneLifecycle` |
| Managed configuration | `config_permission*.go`, `permission.go` | `config.toml`, its lock, a temporary file | lock, bind, read, judge, write, compare, rename, unlock | `ConfigUpdate`, without the TOML scanner |
| Interactive launch | `peer.go` | runtime directory, facts, marker | RunInteractive, InteractivePlan, WithManagedLaunch | the end of a launch only, in `PeerOwner` |
| Command entry point | `cmd/grok-peer/main.go` | none of its own | dispatch, runMCP | not modelled |
| SDK and peer-common | external modules, not vendored | Run, peer, connection | external | by their use |
| Packaging, plugin, docs | `scripts/`, `grok/`, `docs/` | none | | not modelled |

How they interact. The SDK calls `Wrapper.executeRun`, `Deliver` and `Interrupt`
from goroutines of its own; each `executeRun` starts a sender goroutine, each
registered delivery an RPC goroutine, and the `acpClient` has one reader that
calls `receive` with every notification. They share the state under
`Wrapper.mu`, one token in the channel `deliveryGate`, the channel `changed`
that `waitOwned` waits on, and the connection. Around them Open, Close, the
endpoint's clients (one goroutine per helper process Grok starts), the goroutine
of a loss and `watch` share the child, the connection and the context `p.ctx`.
Every managed launch runs the config step first. A helper has the goroutine of
`runOwner`, one per delivery, the observer's reader, and `Shutdown` from
anywhere; helpers of one launch meet only in the claim file and in Grok's
roster.

What makes each correct, and what is hard:

* a message is accounted for once: a receipt that lets the daemon submit it
  again is given only when it was not written, "injected" only when Grok's actor
  enqueued it. The RPC reply, the acknowledgement and the running event come in
  several orders, and the caller, the Run, the bus and Grok can all end between;
* a Run owns its native work: it returns when Grok has nothing left to do for
  it, and nothing meant for it (a message, a cancel) reaches the next one;
* an interrupt cancels what runs, wherever it falls;
* every Run, every delivery, every call and `Shutdown` return;
* the connection gives each call its own answer, and neither a full pipe, a full
  table nor a cancelled id strands anybody;
* an open lane belongs to one session, whichever of helper, child, Open and
  Close ends first; what is over leaves no process, connection or client behind;
* the permission rule a launch needs is in force, and nobody else's edit of the
  file is lost to it;
* the launch's name goes to one session, once; a changed title is published; a
  helper that is done does nothing more.

`PROJECT.json`, "hazards", lists at which line each of these can go wrong.

## Modules

    NativeGrok            Grok as the wrapper sees it (external)
      LaneRun             EXTENDS NativeGrok: the lane around one Grok session
        LaneRunProofs     theorems about LaneRun
          LaneContractProofs   LaneRun implements DeliveryContract
            LaneOrderProofs    whose work Grok does: order on both streams
        MCLaneRun         instances for TLC
    DeliveryContract      what a lane promises about a message (abstract)
    LaneLifecycle         opening, losing and closing a lane
      LaneLifecycleProofs, MCLaneLifecycle
    AcpClient             one ACP connection in detail
      AcpClientProofs     types, gate, nobody stranded
        AcpAnswerProofs   which answer reaches which call, and wins
      MCAcpClient
    ConfigUpdate          the config step of managed launches
      ConfigUpdateProofs, MCConfigUpdate
    PeerOwner             helpers of one interactive launch
      PeerOwnerProofs, MCPeerOwner

A step of a model is one critical section of the mutex the code holds there, or
one operation on a channel, a pipe or a file: what another goroutine can see
between two such points is a state of the model.

**NativeGrok.** Two FIFO streams, the prompts waiting, the one running, and the
interjections buffered into it. `TakeInterject` acknowledges at enqueue, into
the running prompt or as a fallback prompt of its own, with the RPC reply before
the acknowledgement or any time after it. `StartRunning` announces a prompt,
`EndFrames` puts `turn_completed` before the reply. What a faulty surroundings
may add is a set `Faults`, chosen per run: a refusal, a crash, an overflow of
output, frames out of order, a missed final drain. A prompt and a message stand
for their own identifiers; text is left out.

**LaneRun.** The variable `exec` is where `executeRun` is, by Run, `sender` its
sender goroutine, `caller` where `Deliver` is, by message (in the end what it
returned), `rpc` the goroutine of `deliverActive`, `callback` that of
`Interrupt`, `reader` that of `acpClient.read`; the other variables are fields
of `Wrapper`, `nativePrompt` and `nativeDelivery` of the same names. `EnterRun`
to `ReturnRun` follow `executeRun` and `waitOwned`; `SubmitPrompt`,
`PromptWriteAborted` and `PromptReplied` the sender; `Deliver` to
`CallerReturns` the delivery; `ReceiveReply`, `ReceiveRunning`, `ReceiveAck`,
`ReceiveCompleted`, `ReceiveOverflow` one frame in the reader with every handler
it reaches. `Release` is `releaseDelivery` and `Signal` is `signal`. `FinishRun`
is the SDK closing Done after the callback returned, so a delivery or the next
Run can come between the two. Of the connection LaneRun keeps the contract: a
request is pending until its reply, its cancellation or the end of the
connection; a write whose submit callback let it through is on the wire in
order, or the connection is finished under it.

**DeliveryContract.** Two variables by message: how far it got (`unsent`,
`attempted`, `enqueued`) and what was answered about it. Three actions:
`Attempt`, `Enqueue` and `Answer`, an answer given once and true when given.
`LaneRun` instantiates it (`Contract`) with `Stage` and `Answer` read from its
own state, and `DeliveryPromise` is the claim that each of its steps is a step
of the contract or a stutter. It is about deliveries; that a seed's receipt is
true is `RefusedUnwritten`.

**LaneLifecycle.** `opener` is where `Open` is, with `openSession`, `commitOpen`
and the deferred Close; `startup` the `context.AfterFunc` on its context;
`closer` where `Close` is, with `closeProcesses` and the abort its context
triggers; `client[h]` the goroutine of `serveClient` for helper process `h`,
with the session it named and the Run it captured in `End`; `loss` and `watcher`
the goroutines of `lossOnce` and of `watch`. `Commit` is `commitOpen`,
`Contradicted` and `Rejected` the two comparisons of identities. The ACP
requests of Open and Close, the config step and Runs appear by their outcome:
`AcpClient`, `ConfigUpdate` and `LaneRun` have them in detail, and `LaneRun`'s
faults crash and close are the steps of this module seen from there. A failure
the pending prompt meets (`pendingFailure`) also goes through `lossOnce`; it is
left to `LaneRun`. `Action` changes no state of the endpoint, and `forwardLane`
copies bytes in the helper's process: neither is an action.

**AcpClient.** Calls register under a fresh id (an interject also under its
admission key), take the write gate, ask the submit callback, write into a pipe
with room for `PipeRoom` frames, and wait for a reply, an admission or their
context; a `session/cancel` (`Cancels`) registers nothing and returns after its
write. An interject whose request failed (`failed`) takes two more steps, with
`result` the error it carries: `Poll` looks whether the acknowledgement is there
already, and `Leave` removes the key. The reader can acknowledge it in between;
then the call returns its error although the message was admitted, which the
lane notices in its own handler of the same frame (`continuation.go:53`). The
reader takes a frame, fills the reply channel of the call whose id it has, and
answers reverse requests through the same gate, with a timeout. Grok is one
thread: while its frame finds no room it reads nothing, so both pipes can be
full at once. `Finish` is `finish`: every entry gets the error, and the tables
are emptied.

**ConfigUpdate.** A document is how it represents permissions, where it has the
rule, whether the scanner can place an edit, and which foreign edits it carries;
a file is an identity and a document. `TakeLock` to `Unlock` follow
`ensureManagedConfig` and `ensureSessionbusPermission` one system call at a
time; `Granted` is what `parsePermissionConfig` makes of the two
representations, `WithRule` what `addSessionbusPermission` does to them. Grok
and its user, who take no lock, `Replace` the file or `Truncate` and `Fill` it.
`Kill` ends a launch at any point; the lock goes with it, its temporary file
stays. `quiet[p]` is history: the points of launch `p` after which nobody else
wrote the file.

**PeerOwner.** `b[h]` is the `PeerBackend` of helper `h`, its `pc` the place in
`runOwner`. `ClaimName` and `RecordOwner` are the two writes of the claim file,
with a kill possible in between; `ReadRoster`, `ApplyName`, `Confirm` and
`Complete` the naming; `Connect` to `Rehello` the peer and its title; `Leave`,
`LeaveBus` and `Join` the deferred functions; `Shutdown` and `ShutdownStops` the
two parts of Shutdown, before and after it leaves the mutex; `ObserverCloses`
the goroutine that closes the observer with its lifetime; `DeliverOwned` to
`InterjectFails` a delivery. Any number of changes announced but not yet read
count as one (`notice`), because each only asks for one more look at the roster.

Definitions marked "mutant" are deliberate bugs, used to see that a property
notices them; no specification uses one.

## Runs

All configurations set `CHECK_DEADLOCK FALSE`: a lane, a connection and a helper
really stop. The liveness properties say that they stop with nobody waiting.

| Run | Question | Properties | States |
| --- | --- | --- | --- |
| `lane_messages` | two messages and leaving callers on one Run | `TypeOK` `GateConserved` `NoEmptyReceipt` `Accounting` `InjectedEnqueued` | 423 851 |
| `lane_runs` | two Runs, the second a seed, a message and interrupts across the boundary | `NoForeignSteer` `CancelFindsItsRun` `NoWorkBehindIdleLane` `NoEarlyInterject` `InterruptNotLost` | 474 774 |
| `lane_bus_loss` | the bus goes away under a seeded Run with a message and an interrupt | `RefusedUnwritten` `AttemptedAccounted` | 1 522 279 |
| `lane_live` | refusals, crash, overflow, close, disordered frames, a full list of segments | `RunReturns` `DeliveryReturns` `DeliveryPromise` | 104 083 |
| `lane_orphan` | a missed final drain | `NoWorkBehindIdleLane`, violated | |
| `lane_interrupt_gap` | an interrupt between two native prompts | `InterruptReachesContinuation`, violated | |
| `lane_lifecycle` | two helpers, perhaps of two sessions, around Open, Close, the child, both contexts and a Run | `OpenLaneBound` `NothingLeft` `LossSettlesWork` `LossEndsLane` `CancelledCallsReturn` | 252 760 |
| `acp_capacity` | a full table, a `session/cancel`, malformed frames, cancelled ids | `ConformingNeverUnmatched` `DeclinedUnwritten` | 1 694 728 |
| `acp_calls` | a call, an interject and a reverse request share the gate | `TypeOK` `WriteGateConserved` `NobodyStranded` `OutcomeOwn` `ClaimWins` `ReaderResumes` `CallReturns` | 407 103 |
| `config_update` | two launches, two foreign edits, failures and kills on one file | `RuleInForce` `StartsAgree` `NothingHeld` `ForeignEditKept` | 1 540 973 |
| `peer_names` | two helpers, two sessions, kills, refusals, a dead actor, a peer replaced | `OnlyOwnerNamed` `NameFinal` | 1 839 096 |
| `peer_owner` | one helper, two deliveries, every way to end | `TypeOK` `OneInterject` `DoneQuiet` `TitlePublished` `ShutdownEnds` | 549 111 |

Bounds and why they are enough for what each run asks:

* *Runs and messages.* What crosses Runs needs two of them (a delivery, a cancel
  or an interrupt that arrives in the next one); what competes for the gate
  needs two messages. Within a Run a message is one delivery, one fallback
  prompt and one receipt, so three segments (`MaxSegments`) hold the prompt and
  both continuations; `lane_live` has `MaxSegments = 1`, so the first
  continuation meets the full list.
* *Faults* are split over the runs. Each run allows those its question is about,
  in any number and at any point; the theorems hold for all of them together.
* *The connection.* Two calls, one of them an interject, and one reverse request
  with pipes of one frame reach every way of waiting for the gate, the pipe and
  each other (`acp_calls`, with room for both calls). `MaxPending = 1` with two
  requests and a `session/cancel` reaches the full table and the slot a
  cancelled id keeps (`acp_capacity`).
* *Opening and closing.* A helper of the lane's session and one of another, or
  two of the same, are what `lossOnce` and the two comparisons of identities
  tell apart; one Run is the current one or the last. Each context ends at most
  once.
* *Configuration.* Two launches meet at the lock, and two edits are one before
  and one after any point, one of them in place. The five documents have each
  representation once, with one that hides a rule behind compact arrays, one
  that cannot be edited and one that cannot be decoded; an absent file is an
  initial state too. `MaxTries = 2` stands for 50, since only the last attempt
  differs from the others.
* *Helpers.* Names need two sessions and two helpers, so that a helper of the
  same session can follow one that was killed and a helper of the other can
  compete (a torn claim included); helpers and sessions are symmetric, and this
  run checks no liveness. Deliveries need one helper and two messages with two
  slots, so that one waits for the gate the other holds (a third, which would
  find the slots full, is beyond the run's time). `MaxEdits = 1` is one change
  of the title by the user, at any point.

Some branches the theorems cover and the runs do not reach: the departure of a
caller and the full list of segments for `AttemptedAccounted` (`lane_bus_loss`
has its callers stay), the full slots of `peer_owner`, the full endpoint of
`lane_lifecycle`.

`TypeOK` of `PeerOwner` also bounds `work` by the capacity of `slots`, so no
path gives a slot back twice; one that forgot it would keep `Join`, and
`ShutdownEnds`, waiting.

### Fairness

* `LaneRun`: weak fairness of every goroutine of the wrapper (the Go scheduler
  runs a goroutine that can run), of the SDK's closing of Done, and of Grok
  going on with the work it has (`NativeStep`) while its process and the
  connection live. Nothing of faults, of callers or of interrupts: a crash, a
  cancel or a close may or may not come.
* `AcpClient`: calls and reader run on, Grok reads, answers, acknowledges and
  writes what it can. No context need end, and nobody need close the connection;
  the timeout of a reverse reply is the reader's own.
* `LaneLifecycle`: the wrapper's goroutines run on, a killed child dies and is
  reaped, the pipe of a reaped child ends, and a Run whose connection is over
  ends (which `lane_live` shows). Neither Grok's answers nor its exit at the end
  of its input are assumed: after a malformed frame the lane ends only if Grok
  leaves or somebody closes it, and the properties say no more.
* `PeerOwner`: a helper, its goroutines and the observer's frames taken
  together, goes on, and so does each delivery, whose context the SDK ends once
  its connection is closed; each is one assumption, weaker than one for every
  goroutine. Nothing of the bus, the user, the launcher, or Grok's answer to an
  interject. That `ShutdownEnds` holds depends on the SDK doing so: `waitReady`
  is ended neither by `ending` nor by the helper's context.

### What the two violated runs show

`lane_orphan`: `receiveLifecycle` (`continuation.go:64`) releases a delivery
acknowledged within an open prompt as attached to that prompt. The design
document on native boundaries records that an interjection the final drain
misses becomes a fallback prompt of its own. No Run owns that prompt then, so
`waitOwned` completes and the lane is idle while Grok works, which the product
document excludes. Without the missed drain the same property holds
(`lane_runs`).

`lane_interrupt_gap`: `Interrupt` (`grok.go:451`) has nothing to cancel between
the terminal of the original prompt and the running event of its continuation,
returns nil, and is not remembered; the delivery amendment says an interrupt
continues to target the lane's current native work. For the original prompt the
property holds (`InterruptNotLost` in `lane_runs`).

## Proofs

The theorems hold for every value of the constants that the named assumptions of
each module allow (there is at least one Run and room for one segment, messages
are not Runs, None is neither, faults are the named ones, and the like): any
Runs, messages, calls, helpers, sessions, launches and edits, all faults
together.

| Module | Theorem | Statement |
| --- | --- | --- |
| `LaneRunProofs` | `LaneInvariant` | `Spec => []LaneInv` |
| | `TypeCorrect`, `GateConservation`, `RefusalSafety`, `AttemptedAccounting` | `TypeOK`, `GateConserved`, `RefusedUnwritten`, `AttemptedAccounted` |
| | `ReceiptGiven`, `InjectionEvidence`, `AccountingHolds` | `NoEmptyReceipt`, `InjectedEnqueued`, `Accounting` |
| `LaneContractProofs` | `WireInvariant`, `KeepsPromise` | `Spec => DeliveryPromise`: the refinement |
| `LaneOrderProofs` | `OrderInvariant` | `Spec => [](Books /\ OrderInv)` |
| | `InterruptSafety`, `NoEarlyInterjects`, `NoForeignSteering` | `InterruptNotLost`, `NoEarlyInterject`, `NoForeignSteer` |
| | `IdleLaneSafety`, `CancelSafety` | `NoWorkBehindIdleLane`, `CancelFindsItsRun` |
| `LaneLifecycleProofs` | `LifecycleInvariant`, `TypeCorrect` | `Spec => []LifecycleInv` |
| | `OpenLaneIsBound`, `NothingIsLeft`, `LossIsSettled` | `OpenLaneBound`, `NothingLeft`, `LossSettlesWork` |
| `ConfigUpdateProofs` | `ConfigInvariant`, `TypeCorrect` | `Spec => []ConfigInv` |
| | `NothingStaysHeld`, `StartsDoAgree`, `RuleStaysInForce`, `EditsAreKept` | `NothingHeld`, `StartsAgree`, `RuleInForce`, `ForeignEditKept` |
| `AcpClientProofs` | `AcpInvariant`, `TypeCorrect` | `Spec => []AcpInv`, `TypeOK` |
| | `GateIsConserved`, `NobodyIsStranded` | `WriteGateConserved`, `NobodyStranded` |
| `AcpAnswerProofs` | `AnswerInvariant`, `ClaimsWin` | `Spec => []AnswerInv`, `ClaimWins` |
| | `OutcomesAreOwn`, `DeclinedIsUnwritten`, `ConformingIsNeverUnmatched` | `OutcomeOwn`, `DeclinedUnwritten`, `ConformingNeverUnmatched` |
| `PeerOwnerProofs` | `PeerInvariant`, `TypeCorrect` | `Spec => []PeerInv`, `TypeOK` |
| | `OnlyTheOwnerIsNamed`, `NameIsFinal`, `OneInterjectAtATime`, `DoneIsQuiet` | `OnlyOwnerNamed`, `NameFinal`, `OneInterject`, `DoneQuiet` |

`ConformingIsNeverUnmatched` is about a Grok that sends no unmatched frame of
its own accord (`"unmatched" \notin Stray`). `IdleLaneSafety` and `CancelSafety`
are about a Grok whose final drain misses no interjection
(`"missedDrain" \notin Faults`, the hypothesis of both): with that fault the
first is what `lane_orphan` refutes, and a cancel can find the prompt of such an
orphan. The proofs of `AcpAnswerProofs`, `ClaimsWin` among them, are about a
Grok that acknowledges no interject it refuses, which is what `NativeGrok` does
too: after a status other than `queued` the code does not look at the
acknowledgement at all (`acp.go:413`). The others allow every fault.

### The arguments

**LaneRun.** None of the four message properties is inductive: that a refused
message was not written depends on what its RPC goroutine may still do. The
strengthening

    LaneInv == TypeOK /\ GateConserved /\ CallerBound /\ RpcAccounted /\ SeedAccounted

says where each party stands to the others: an RPC that has not been submitted
has attempted nothing; one that is unsettled and unacknowledged is still
registered (this is where the gate comes in: nobody else's registration can
replace it); one that ended unacknowledged has its error; a seed is rejected
only while its sender has not begun. `RefusedUnwritten` and `NoEmptyReceipt`
follow from `LaneInv` in one state; `AttemptedAccounted` is proved inductive
relative to it; `InjectedEnqueued` needs `AckedEnqueued`, that an
acknowledgement on the wire is of an enqueued message, which the fault-ridden
Grok preserves too. TLC checks all parts as `Accounting` in `lane_messages`.

Next has seven kinds of step (execute, send, deliver, interrupt, read, SDK,
Grok). A frame lemma per kind says which variables it leaves alone, so that the
proof of a conjunct opens only the kinds that write its variables, one step per
action. The other modules are proved the same way.

**The refinement.** A step of the contract may change one message only, and an
answer once given may not be contradicted later. What `LaneInv` does not say is
what the wire carries: `WireOnce`, an interject is on it once; `WireAccounted`,
a message that Grok refused, or whose refusal is on its way, is neither on the
wire nor enqueued; and `RefusalFinal`, a caller reports a refusal only for one.
With these each kind of step is shown to attempt, enqueue or answer one message,
or to leave `Stage` and `Answer` as they are.

**The order of a lane's work.** A Run retires on what the reader has read, Grok
works on what the wrapper wrote, and between the two are frames nobody has read.
That nothing meant for one Run reaches another therefore needs both streams in
the invariant. `LaneOrderProofs` builds it in layers, each kept by every step
relative to the ones before:

1. `LaneHeld`: one Run is between its start and its return, it is the one that
   owns `pendingPrompt`, and what `executeRun` waited for still holds where it
   stands. `InterruptKept` adds who waits for which cancel, and gives
   `InterruptNotLost`.
2. `NativeOrder`: each native prompt is in one place (on the wire, queued,
   running, or over), and what has begun or is over stays so (`Lasting`).
3. `StreamOrder`: what the unread frames and the replies say is true and in
   order: a prompt whose announcement or output is unread runs or has its
   terminal behind it, and a terminal or a reply is of a prompt that is over.
4. `Bound`: the segments of a prompt are the prompt itself and then deliveries
   of its own that have begun; only an admitted prompt takes or fails one.
5. `Settled`: while the connection is open a retired Run left nothing
   registered, no segment open, and no outcome unknown. This is the layer the
   accounting of `waitOwned` and the failures of `failOwned` are for.

Together (`OrderInv`) they say that on an open connection a prompt that is
written and not over, or that waits for a delivery, is the pending one
(`OpenRun`). So an interject on the wire finds its own prompt begun and running
(`Steered`); once the connection is done nothing moves any more (`Frozen`).

`NoWorkBehindIdleLane` and `CancelFindsItsRun` are also about fallback prompts,
which Grok starts for a message by itself. `IdleInv` says that an open segment
runs or has its terminal on the stream, that the acknowledgement of a fallback
prompt stands behind the terminals of all that was open (so the reader never
takes it for an attached message), and that the lane therefore still has every
message Grok works at: registered, bound, or the failure of its prompt.
`CancelOrder` says that all that stands before a cancel is work of its Run. The
missed final drain breaks the second part, because it makes a fallback prompt of
a message acknowledged earlier.

**LaneLifecycle.** `LifecycleInv` relates how far Open (`OpenProgress`) and
Close (`CloseProgress`) are to the child, the connection and the endpoint; says
that a bound helper names the lane's session once there is one (`HelpersBound`),
that the helper which made the endpoint ready is there until the lane fails or
closes (`ReadyHelper`), and that a helper's loss and its goroutine know the last
Run there will be, because `nativeFailure` is set with the capture
(`LossKnowsRun`).

**ConfigUpdate.** Between bind and unlock the holder of the lock is the only
launch, so what it bound and read still stands unless somebody else wrote
(`ReadStands`), after its last look no edit is in the file that its copy lacks
(`LastLookStands`), and what it carries to the rename is valid and takes the
rule where it is in force (`CarriesRule`).

**AcpClient.** Ids are given once (`IdCount`, `IdsGiven`). A call that waits has
its entry in the table and no reply, or a reply and no entry (`EntryOrReply`),
and an interject likewise its key or an admission (`KeyOrAdmission`): reader,
`finish` and the call itself each leave the call something to take. `AnswerInv`
adds the path of a frame: what was not written has not been read
(`UnwrittenYet`), a request is read once (`InboxOnce`), a frame says what Grok
did (`FramesTell`), and so does what a call holds (`RepliesTell`). For the
conforming Grok, each request is answered once (`AnsweredOnce`) and an answer to
come finds its entry, the caller's or the one kept for the drain (`Expected`).
`ClaimWins` is a property of steps: what a call returns is compared with what
was there when it looked, since an acknowledgement after the look may lose. A
call that stops waiting carries what it found in `result` (`ResultKnown`), and
one that skips the look was refused and is not acknowledged (`RefusedUnacked`).

**PeerOwner.** The slots taken are the deliveries under way, a finite set,
counted (`SlotsCounted`), which with the guard on the capacity gives the bound
in `TypeOK`; a delivery is under way only at a helper that was ready, and a
helper's phase says what its peer and observer may be (`Lifetime`); so when
`Join` finds no work there is no delivery, and none begins because `ending` is
set. One helper at most creates the claim, whoever asked for the name is of the
session that owns it (`ClaimOwned`), one helper runs per session (`OneRuns`),
and past the completion none is before it (`CompletedLast`).

### Only model-checked

All liveness (`RunReturns`, `DeliveryReturns`, `LossEndsLane`,
`CancelledCallsReturn`, `ReaderResumes`, `CallReturns`, `TitlePublished`,
`ShutdownEnds`): fairness and ENABLED are out of the proof system's reach. Every
other property of the passing runs is also a theorem; the two properties of the
violated runs are refuted by them.

## Assumptions and what is left out

* Grok is external. The frames it sends and their order are taken from the tests
  and the recorded native boundary; what the two streams carry is what the
  wrapper reads. A fault that is not in a run's `Faults` does not happen there.
* The SDK binds a delivery to the Run it executes at that moment, begins a Run
  only when the callback of the one before has returned, and marks a Run
  interrupted before it calls `Interrupt`.
* The bus replays nothing to a helper; a hello given while it is offline is the
  one it greets with when it comes back.
* Grok starts a helper of a session only when the one before it has ended. With
  two live helpers of one session the second could rename after the first
  completed the claim (`peer_owner.go:94`); nothing in the repository lets this
  happen, so it is a listed hazard and no claim.
* The SDK calls Close only when Open has returned (a failing Open closes
  itself), and a second Open is refused, so it is no action.
* `watch` does not set `nativeFailure`: a Run that begins after it read the
  current Run (`grok.go:624`) is under way when it shuts the worker down. That
  Run fails at once, because its connection is over. `LossSettlesWork` is
  therefore about a lost helper, whose path does exclude new Runs.
* The TOML scanner of `config_permission.go` is one bit of a document: whether
  it can place the edit. That the edited text decodes to what is expected is
  checked by the code itself before it writes, and is `CanAdd`. Symbolic links,
  modes and ownership are left out. Every start is one launch; its Grok is one
  of the foreign writers.
* Between the last look and the rename, and in the middle of an edit in place,
  an edit can be lost: no file system call closes that gap, and
  `ForeignEditKept` excludes exactly it.
* Text of prompts and results, diagnostics, JSON decoding and frame sizes are
  left out, except that a chunk can pass the retention limit. Terminal reasons
  that disagree change what a complete Run reports and nothing else.

## Not modelled

* `RunInteractive` and `WithManagedLaunch` (`peer.go`): one process that makes a
  directory, starts a child and waits for it, and a poll of the launch's marker.
  They share nothing with a helper but the end of its context, which is
  `LaunchEnds`. `InteractivePlan` and the readers of arguments are pure.
* `cmd/grok-peer/main.go`: dispatch and exit codes. `forwardLane` copies bytes.
* The byte-level scanner of TOML, JSON decoding, sizes of frames and the text of
  results.
* Scripts, plugin, skill and design documents: no state shared with the program.
  The documents are what the two findings compare the code with.

## Plan

1. done: `NativeGrok`, `LaneRun`, `AcpClient`, `PeerOwner`, `LaneLifecycle`,
   `ConfigUpdate` with their runs; `DeliveryContract` and the refinement; proofs
   of every safety property the passing runs check.
2. open: what one ACP connection promises its callers as an abstract
   specification, implemented by `AcpClient` and by the connection `LaneRun`
   keeps, which would prove that `LaneRun` abstracts it soundly.
3. open: the pure part of `InteractivePlan` over bounded inputs, if a property
   worth stating is found.
