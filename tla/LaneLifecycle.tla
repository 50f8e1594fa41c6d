---------------------------- MODULE LaneLifecycle ----------------------------
(***************************************************************************)
(* Opening, losing and closing a managed lane: Open, Close and watch       *)
(* (wrappers/grok/grok.go) around the endpoint that Grok's helper          *)
(* processes connect to (wrappers/grok/lane_endpoint.go).                  *)
(*                                                                         *)
(* A step is one critical section of Wrapper.mu or grokEndpoint.mu, one    *)
(* answer of Grok or the end of one wait.  Open's configuration, ACP       *)
(* requests and Runs appear by their outcome (ConfigUpdate, AcpClient and  *)
(* LaneRun have them in detail).                                           *)
(***************************************************************************)
EXTENDS Integers, FiniteSets

CONSTANTS Helpers,     \* helper processes Grok may start
          Sessions,    \* native session identities a helper may name
          Session,     \* the one Grok gives the lane
          None,        \* no session, no helper
          MaxClients,  \* maxACPPending as the capacity of grokEndpoint.clients
          MaxRuns,     \* Runs of the lane, a bound of the model
          Faults       \* what the surroundings of the wrapper may do

AllFaults == {"refuse", "crash", "malformed", "helper", "cancelOpen", "cancelClose"}

ASSUME LifecycleAssumption ==
  /\ Session \in Sessions /\ None \notin Helpers \cup Sessions
  /\ MaxClients \in Nat \ {0} /\ MaxRuns \in Nat
  /\ Faults \subseteq AllFaults

VARIABLES
  opener,     \* where Open is
  openCtx,    \* the context of the Open call is over
  startup,    \* context.AfterFunc on it: "none", "armed", "fired" or "over"
  laneCtx,    \* p.ctx: "none", "live" or "cancelled"
  opened,     \* p.opened
  sessionID,  \* p.sessionID, or None
  closer,     \* where Close is
  closeCtx,   \* the context of the Close call is over
  closing,    \* p.closing
  failure,    \* p.nativeFailure is set, and nativeFailed closed
  child,      \* p.child: "none", "running", "dying" (killed) or "reaped"
  stdin,      \* the child's input is open
  primary,    \* p.primary: "none", "open", or "done" once finish has run
  endpoint,   \* p.endpoint: "none", "listening" or "closed"
  readyBy,    \* the helper whose Initialized closed e.ready, or None
  client,     \* the connection of each helper: pc, identity, cut, captured run
  run,        \* p.run, 0 if there never was one
  runDone,    \* Runs whose Done channel is closed
  loss,       \* the goroutine of lossOnce: pc and captured run
  watcher,    \* the goroutine of watch: pc and captured run
  shut        \* who has called shutdown: subset of {"loss", "watch"}

openVars == <<opener, openCtx, startup, opened, sessionID>>
closeVars == <<closer, closeCtx, closing>>
nativeVars == <<child, stdin, primary>>
endpointVars == <<endpoint, readyBy, client>>
runVars == <<run, runDone>>
endVars == <<loss, watcher, shut>>
lane == <<openVars, laneCtx, closeVars, failure>>
outside == <<nativeVars, endpointVars, runVars, endVars>>
besideOpen == <<closeVars, failure, outside>>
besideClose == <<openVars, failure, endpointVars, runVars, endVars>>
besideClients == <<lane, nativeVars, endpoint, readyBy, runVars, endVars>>
vars == <<lane, outside>>

Requesting == {"initialize", "session", "rename"}      \* a request of Open waits
Opening == Requesting \cup {"prepare", "start", "ready", "commit", "failing"}
Asked == {"session", "ready", "rename", "commit", "failing", "open"}
Owning == {"bound", "inited"}                          \* clients[c] is not nil, End has not run
Served == Owning \cup {"served", "ended", "leaving"}   \* in clients, counted in calls
Connected == Owning \cup {"served"}                    \* the connection is in use
ClosePC == {"idle", "flagged", "request", "drain", "calls", "done"}

(* The type of every variable, by what it belongs to.                      *)
LaneTypeOK ==
  /\ opener \in Opening \cup {"idle", "open", "failed"} /\ closer \in ClosePC
  /\ startup \in {"none", "armed", "fired", "over"}
  /\ laneCtx \in {"none", "live", "cancelled"} /\ sessionID \in Sessions \cup {None}
  /\ openCtx \in BOOLEAN /\ closeCtx \in BOOLEAN /\ opened \in BOOLEAN
  /\ closing \in BOOLEAN /\ failure \in BOOLEAN
NativeTypeOK ==
  /\ child \in {"none", "running", "dying", "reaped"}
  /\ stdin \in BOOLEAN /\ primary \in {"none", "open", "done"}
EndpointTypeOK ==
  /\ endpoint \in {"none", "listening", "closed"} /\ readyBy \in Helpers \cup {None}
  /\ client \in [Helpers -> [pc : Served \cup {"out", "dialed", "gone"}, id : Sessions \cup {None},
                             cut : BOOLEAN, run : 0..MaxRuns]]
EndTypeOK ==
  /\ run \in 0..MaxRuns /\ runDone \subseteq 1..MaxRuns /\ shut \subseteq {"loss", "watch"}
  /\ loss \in [pc : {"idle", "wait", "done"}, run : 0..MaxRuns]
  /\ watcher \in [pc : {"idle", "wait", "run", "done"}, run : 0..MaxRuns]

TypeOK == LaneTypeOK /\ NativeTypeOK /\ EndpointTypeOK /\ EndTypeOK

Init ==
  /\ opener = "idle" /\ openCtx = FALSE /\ startup = "none" /\ laneCtx = "none"
  /\ opened = FALSE /\ sessionID = None
  /\ closer = "idle" /\ closeCtx = FALSE /\ closing = FALSE /\ failure = FALSE
  /\ child = "none" /\ stdin = FALSE /\ primary = "none"
  /\ endpoint = "none" /\ readyBy = None
  /\ client = [h \in Helpers |-> [pc |-> "out", id |-> None, cut |-> FALSE, run |-> 0]]
  /\ run = 0 /\ runDone = {} /\ shut = {}
  /\ loss = [pc |-> "idle", run |-> 0] /\ watcher = [pc |-> "idle", run |-> 0]

Clients == {h \in Helpers : client[h].pc \in Served}
Ended(r) == r = 0 \/ r \in runDone
MoveClient(h, pc) == client' = [client EXCEPT ![h].pc = pc]

-----------------------------------------------------------------------------
(* Open.                                                                   *)

MoveOpen(from, to) == opener = from /\ opener' = to
openHeld == <<openCtx, startup, opened, sessionID, laneCtx, closeVars, failure, runVars, endVars>>

\* The deferred function of Open on any error: p.cancel, then Close.
OpenFails ==
  /\ opener' = "failing" /\ laneCtx' = "cancelled"
  /\ UNCHANGED <<openCtx, startup, opened>>

Open ==
  /\ ~closing
  /\ MoveOpen("idle", "prepare")
  /\ laneCtx' = "live" /\ startup' = IF openCtx THEN "fired" ELSE "armed"
  /\ UNCHANGED <<openCtx, opened, sessionID, besideOpen>>

OpenEndpoint ==
  /\ MoveOpen("prepare", "start")
  /\ endpoint' = "listening"
  /\ UNCHANGED <<openHeld, nativeVars, readyBy, client>>

StartChild ==
  /\ MoveOpen("start", "initialize")
  /\ child' = "running" /\ stdin' = TRUE /\ primary' = "open"
  /\ UNCHANGED <<openHeld, endpointVars>>

Answering == child = "running" /\ primary = "open"

\* initialize and authenticate, or the rename, are answered.
RequestAnswered ==
  /\ Answering
  /\ MoveOpen("initialize", "session") \/ MoveOpen("rename", "commit")
  /\ UNCHANGED <<openCtx, startup, opened, sessionID, laneCtx, besideOpen>>

\* validateSession, under Wrapper.mu.
Contradicted(s) ==
  \E h \in Helpers : client[h].pc \in Served \ {"served"} /\ client[h].id \notin {s, None}

SessionOpened ==
  /\ opener = "session" /\ Answering
  /\ sessionID' = Session
  /\ IF Contradicted(Session) THEN OpenFails
     ELSE opener' = "ready" /\ UNCHANGED <<openCtx, startup, opened, laneCtx>>
  /\ UNCHANGED besideOpen

\* waitReady: ready is looked at again under Wrapper.mu.
WaitReady ==
  /\ opener = "ready"
  /\ \/ /\ readyBy # None /\ ~failure /\ primary = "open"
        /\ opener' = "rename" /\ UNCHANGED <<openCtx, startup, opened, laneCtx>>
     \/ (failure \/ primary = "done" \/ openCtx) /\ OpenFails
  /\ UNCHANGED <<sessionID, besideOpen>>

\* An error of the preparation, of starting the child, or Grok's error reply.
OpenRefused ==
  /\ "refuse" \in Faults
  /\ opener \in {"prepare", "start"} \/ (opener \in Requesting /\ Answering)
  /\ OpenFails
  /\ UNCHANGED <<sessionID, besideOpen>>

\* A request that waits ends with the connection or with its context.
RequestEnds ==
  /\ opener \in Requesting /\ (primary = "done" \/ openCtx)
  /\ OpenFails
  /\ UNCHANGED <<sessionID, besideOpen>>

Committable == ~openCtx /\ laneCtx = "live" /\ ~failure /\ primary = "open"

\* commitOpen, then the return of Open and the start of watch.  The context may end
\* between its check and stopStartup; its function then waits for Wrapper.mu.
Commit(late) ==
  /\ opener = "commit"
  /\ late => "cancelOpen" \in Faults
  /\ IF Committable
     THEN /\ opener' = "open" /\ opened' = TRUE /\ openCtx' = late
          /\ startup' = IF late THEN "fired" ELSE "over"
          /\ watcher' = [watcher EXCEPT !.pc = "wait"]
          /\ UNCHANGED laneCtx
     ELSE OpenFails /\ UNCHANGED watcher
  /\ UNCHANGED <<sessionID, closeVars, failure, nativeVars, endpointVars, runVars, loss, shut>>

\* The function context.AfterFunc runs when the context of Open ends.
StartupCancel ==
  /\ startup = "fired" /\ startup' = "over"
  /\ laneCtx' = IF opened THEN laneCtx ELSE "cancelled"
  /\ UNCHANGED <<opener, openCtx, opened, sessionID, besideOpen>>

\* Once Open has returned, the end of its context reaches nothing.
CancelOpen ==
  /\ "cancelOpen" \in Faults /\ ~openCtx /\ startup \in {"none", "armed"}
  /\ openCtx' = TRUE /\ startup' = IF startup = "armed" THEN "fired" ELSE startup
  /\ UNCHANGED <<opener, opened, sessionID, laneCtx, besideOpen>>

\* Open returns its error once its own Close has returned.
OpenFailed ==
  /\ closer = "done" /\ MoveOpen("failing", "failed")
  /\ startup' = IF startup = "armed" THEN "over" ELSE startup
  /\ UNCHANGED <<openCtx, opened, sessionID, laneCtx, besideOpen>>

OpenStep ==
  \/ OpenEndpoint \/ StartChild \/ WaitReady \/ RequestEnds \/ StartupCancel \/ OpenFailed
  \/ \E late \in BOOLEAN : Commit(late)

-----------------------------------------------------------------------------
(* Close: called by a failing Open, or by the SDK once Open has returned.  *)

Kill == child' = IF child = "running" THEN "dying" ELSE child

\* Mutant: the child is not killed.
AbortNoKill ==
  /\ stdin' = FALSE /\ primary' = (IF primary = "open" THEN "done" ELSE primary)
  /\ UNCHANGED child

\* abort: primary.close and Kill.
Abort ==
  /\ Kill /\ stdin' = FALSE
  /\ primary' = IF primary = "open" THEN "done" ELSE primary

CloseBegin ==
  /\ closer = "idle" /\ opener \in {"failing", "open"}
  /\ closer' = "flagged" /\ closing' = TRUE
  /\ UNCHANGED <<laneCtx, closeCtx, nativeVars, besideClose>>

\* A Close whose context is over, or of a lane that never opened, does not ask Grok.
CloseDecides ==
  /\ closer = "flagged"
  /\ IF ~opened \/ closeCtx THEN closer' = "drain" /\ Abort
     ELSE closer' = "request" /\ UNCHANGED nativeVars
  /\ UNCHANGED <<laneCtx, closeCtx, closing, besideClose>>

\* session/close is answered, or ends; then the input is closed.
CloseRequested ==
  /\ closer = "request" /\ (Answering \/ primary = "done" \/ closeCtx)
  /\ closer' = "drain" /\ stdin' = FALSE
  /\ UNCHANGED <<laneCtx, closeCtx, closing, child, primary, besideClose>>

\* The reader and the child are joined; endpoint.Close cuts every client.
CloseEndpoint ==
  /\ closer = "drain" /\ primary # "open" /\ child \in {"none", "reaped"}
  /\ closer' = "calls"
  /\ endpoint' = IF endpoint = "none" THEN "none" ELSE "closed"
  /\ client' = [h \in Helpers |-> [client[h] EXCEPT !.cut = client[h].pc \in Connected]]
  /\ UNCHANGED <<openVars, laneCtx, closeCtx, closing, failure, nativeVars, readyBy, runVars,
                 endVars>>

\* calls.Wait is over.
CloseReturns ==
  /\ closer = "calls" /\ Clients = {}
  /\ closer' = "done" /\ laneCtx' = "cancelled"
  /\ UNCHANGED <<closeCtx, closing, nativeVars, besideClose>>

\* The function context.AfterFunc runs when the context of Close ends.
AbortClose ==
  /\ closeCtx /\ closer \in {"request", "drain"}
  /\ primary = "open" \/ child = "running"
  /\ Abort
  /\ UNCHANGED <<laneCtx, closeVars, besideClose>>

\* Open calls Close with a context that has no end.  One that is over before the
\* call counts from the call on.
CancelClose ==
  /\ "cancelClose" \in Faults /\ opener = "open" /\ ~closeCtx
  /\ closer \in {"flagged", "request", "drain"}
  /\ closeCtx' = TRUE
  /\ UNCHANGED <<laneCtx, closer, closing, nativeVars, besideClose>>

\* The SDK may never call Close of an open lane, and Grok never answer it; Open
\* always calls it when it fails.
CloseStep ==
  \/ (opener = "failing" /\ CloseBegin)
  \/ ((primary = "done" \/ closeCtx) /\ CloseRequested)
  \/ CloseDecides \/ CloseEndpoint \/ CloseReturns \/ AbortClose

-----------------------------------------------------------------------------
(* The helper endpoint.                                                    *)

HelperStarts(h) ==
  /\ opener \in Asked /\ child = "running" /\ endpoint = "listening" /\ client[h].pc = "out"
  /\ MoveClient(h, "dialed")
  /\ UNCHANGED besideClients

\* The helper's end of the connection is closed.
HelperDies(h) ==
  /\ "helper" \in Faults \/ child = "reaped"
  /\ client[h].pc \in Connected /\ ~client[h].cut
  /\ client' = [client EXCEPT ![h].cut = TRUE]
  /\ UNCHANGED besideClients

\* Mutant: serve does not look at closed again after Accept.
AcceptClosed(h) ==
  /\ client[h].pc = "dialed"
  /\ MoveClient(h, IF Cardinality(Clients) >= MaxClients THEN "gone" ELSE "served")
  /\ UNCHANGED besideClients

\* serve: a closed or full endpoint closes the connection it has accepted.
Accept(h) ==
  /\ client[h].pc = "dialed"
  /\ MoveClient(h, IF endpoint = "closed" \/ Cardinality(Clients) >= MaxClients
                   THEN "gone" ELSE "served")
  /\ UNCHANGED besideClients

\* Mutant: the identity is not compared with the lane's.
RejectedUnopened(s) == closing \/ endpoint = "closed"

\* serveClient reads the identity, under Wrapper.mu and then grokEndpoint.mu.
Rejected(s) == closing \/ (sessionID # None /\ sessionID # s) \/ endpoint = "closed"

Identify(h, s) ==
  /\ client[h].pc = "served"
  /\ client' = [client EXCEPT ![h].pc = IF Rejected(s) THEN "leaving" ELSE "bound",
                              ![h].id = IF Rejected(s) THEN None ELSE s,
                              ![h].cut = @ /\ ~Rejected(s)]
  /\ UNCHANGED besideClients

\* The connection ends before it named a session.
Unidentified(h) ==
  /\ client[h].pc = "served" /\ client[h].cut
  /\ client' = [client EXCEPT ![h].pc = "leaving", ![h].cut = FALSE]
  /\ UNCHANGED besideClients

\* The acknowledgement is written and the helper initializes MCP.
Initialized(h) ==
  /\ client[h].pc = "bound"
  /\ MoveClient(h, "inited")
  /\ readyBy' = IF readyBy = None THEN h ELSE readyBy
  /\ UNCHANGED <<lane, nativeVars, endpoint, runVars, endVars>>

\* The acknowledgement or the MCP exchange fails: End's critical section.
End(h) ==
  /\ client[h].pc \in Owning /\ client[h].cut
  /\ failure' = (failure \/ ~closing)
  /\ client' = [client EXCEPT ![h].pc = IF closing THEN "leaving" ELSE "ended", ![h].cut = FALSE,
                              ![h].run = IF closing THEN 0 ELSE run]
  /\ UNCHANGED <<openVars, laneCtx, closeVars, nativeVars, endpoint, readyBy, runVars, endVars>>

\* Mutant: the child of a lost helper is left alone.
LoseOnceNoKill(h) ==
  /\ client[h].pc = "ended"
  /\ client' = [client EXCEPT ![h].pc = "leaving", ![h].run = 0]
  /\ IF loss.pc = "idle" THEN loss' = [pc |-> "wait", run |-> client[h].run] ELSE UNCHANGED loss
  /\ UNCHANGED <<lane, nativeVars, endpoint, readyBy, runVars, watcher, shut>>

\* lossOnce.Do in End.
LoseOnce(h) ==
  /\ client[h].pc = "ended"
  /\ client' = [client EXCEPT ![h].pc = "leaving", ![h].run = 0]
  /\ IF loss.pc = "idle"
     THEN loss' = [pc |-> "wait", run |-> client[h].run] /\ Kill /\ stdin' = FALSE
     ELSE UNCHANGED <<loss, child, stdin>>
  /\ UNCHANGED <<lane, primary, endpoint, readyBy, runVars, watcher, shut>>

\* The deferred functions of serveClient.
ClientLeaves(h) ==
  /\ client[h].pc = "leaving"
  /\ MoveClient(h, "gone")
  /\ UNCHANGED besideClients

ClientStep(h) ==
  \/ Accept(h) \/ Unidentified(h) \/ Initialized(h) \/ End(h) \/ LoseOnce(h)
  \/ ClientLeaves(h) \/ \E s \in Sessions : Identify(h, s)

-----------------------------------------------------------------------------
(* The goroutines that end the lane, the child and the Runs.               *)

\* The goroutine of lossOnce: primary.done, then the Done of the captured Run.
LossShutdown ==
  /\ loss.pc = "wait" /\ primary # "open" /\ Ended(loss.run)
  /\ loss' = [loss EXCEPT !.pc = "done"] /\ shut' = shut \cup {"loss"}
  /\ UNCHANGED <<lane, nativeVars, endpointVars, runVars, watcher>>

\* watch's critical section after child.Wait.
WatchExit ==
  /\ watcher.pc = "wait" /\ child = "reaped"
  /\ watcher' = [pc |-> IF closing THEN "done" ELSE "run", run |-> run]
  /\ UNCHANGED <<lane, nativeVars, endpointVars, runVars, loss, shut>>

WatchShutdown ==
  /\ watcher.pc = "run" /\ Ended(watcher.run)
  /\ watcher' = [watcher EXCEPT !.pc = "done"] /\ shut' = shut \cup {"watch"}
  /\ UNCHANGED <<lane, nativeVars, endpointVars, runVars, loss>>

\* A killed child is reaped.
ChildDies ==
  /\ child = "dying" /\ child' = "reaped"
  /\ UNCHANGED <<lane, stdin, primary, endpointVars, runVars, endVars>>

\* Grok exits by itself: at the end of its input, or at any point.
ChildExits ==
  /\ child = "running" /\ (~stdin \/ "crash" \in Faults)
  /\ child' = "reaped"
  /\ UNCHANGED <<lane, stdin, primary, endpointVars, runVars, endVars>>

\* acpClient.finish: the reader has drained the pipe, or refuses a frame.
PrimaryEnds ==
  /\ primary = "open" /\ (child = "reaped" \/ "malformed" \in Faults)
  /\ primary' = "done" /\ stdin' = FALSE
  /\ UNCHANGED <<lane, child, endpointVars, runVars, endVars>>

\* Mutant: executeRun does not look at nativeFailure.
RunBeginsLost ==
  /\ opener = "open" /\ run < MaxRuns /\ Ended(run) /\ ~closing
  /\ run' = run + 1
  /\ UNCHANGED <<lane, nativeVars, endpointVars, runDone, endVars>>

\* executeRun admits a Run of the open lane; the SDK closes Done when it has
\* returned and its terminal is sent.
RunBegins ==
  /\ opener = "open" /\ run < MaxRuns /\ Ended(run) /\ ~closing /\ ~failure
  /\ run' = run + 1
  /\ UNCHANGED <<lane, nativeVars, endpointVars, runDone, endVars>>

RunEnds ==
  /\ ~Ended(run) /\ runDone' = runDone \cup {run}
  /\ UNCHANGED <<lane, nativeVars, endpointVars, run, endVars>>

Next ==
  \/ Open \/ OpenStep \/ RequestAnswered \/ SessionOpened \/ OpenRefused \/ CancelOpen
  \/ CloseBegin \/ CloseRequested \/ CloseStep \/ CancelClose
  \/ \E h \in Helpers : HelperStarts(h) \/ HelperDies(h) \/ ClientStep(h)
  \/ LossShutdown \/ WatchExit \/ WatchShutdown
  \/ ChildDies \/ ChildExits \/ PrimaryEnds \/ RunBegins \/ RunEnds

Spec == Init /\ [][Next]_vars

\* The wrapper's goroutines run on, a killed child dies, the reader reaches the end
\* of a dead child's output, and a Run returns once the connection is over.  Nothing
\* of Grok's answers, of its exit, of contexts or of the SDK calling Close.
Fairness ==
  /\ WF_vars(OpenStep) /\ WF_vars(CloseStep)
  /\ \A h \in Helpers : WF_vars(ClientStep(h))
  /\ WF_vars(LossShutdown) /\ WF_vars(WatchExit) /\ WF_vars(WatchShutdown)
  /\ WF_vars(ChildDies) /\ WF_vars(child = "reaped" /\ PrimaryEnds)
  /\ WF_vars(primary = "done" /\ RunEnds)

FairSpec == Spec /\ Fairness

-----------------------------------------------------------------------------
(* Safety.                                                                 *)

\* An open lane belongs to one session: a helper of that very session got ready,
\* no helper of another one is bound or gets bound, and the end of the Open call's
\* context does not end the lane.
OpenLaneBound ==
  opened =>
    /\ readyBy # None /\ client[readyBy].id = sessionID
    /\ \A h \in Helpers : client[h].pc \in Owning => client[h].id = sessionID
    /\ closer = "idle" => laneCtx = "live"

\* A failed Open and a returned Close leave nothing behind: the child is reaped, the
\* connection and the endpoint are closed and no client is served any more.
NothingLeft ==
  opener = "failed" \/ closer = "done" =>
    /\ child \in {"none", "reaped"} /\ primary # "open"
    /\ endpoint # "listening" /\ Clients = {} /\ laneCtx = "cancelled"

\* When the loss of a helper shuts the worker down, the output Grok wrote is drained,
\* no Run is under way and none begins any more.
LossSettlesWork == "loss" \in shut => primary = "done" /\ Ended(run) /\ failure

-----------------------------------------------------------------------------
(* Liveness.                                                               *)

\* The loss of a helper or of the child ends an open lane: its worker shuts down
\* unless it is being closed.
LossEndsLane == (opened /\ (failure \/ child = "reaped")) ~> (closing \/ shut # {})

\* Open returns once its context is over, a helper is lost or the child is gone, and
\* Close once its context is over, whether Grok answers and exits or not.
CancelledCallsReturn ==
  /\ (opener \in Opening /\ (openCtx \/ failure \/ child = "reaped"))
       ~> opener \in {"open", "failed"}
  /\ (closing /\ closeCtx) ~> closer = "done"
=============================================================================
