------------------------ MODULE LaneLifecycleProofs ------------------------
(***************************************************************************)
(* Theorems about LaneLifecycle, for any helpers, sessions, Runs and       *)
(* faults.                                                                 *)
(***************************************************************************)
EXTENDS LaneLifecycle, TLAPS

-----------------------------------------------------------------------------
(* The inductive invariant: how far Open, Close and the helpers are says   *)
(* what the rest of the lane may look like.                                *)

\* Before Grok runs there is nothing; Close begins only once Open is over or fails.
OpenProgress ==
  /\ opened <=> opener = "open"
  /\ opener \in {"idle", "prepare", "start"} => child = "none" /\ primary = "none"
  /\ opener = "start" => endpoint # "none"
  /\ child # "none" => primary # "none" /\ endpoint # "none"
  /\ opener \in {"idle", "prepare", "start", "initialize", "session"} => sessionID = None
  /\ opener \in {"ready", "rename", "commit", "open"} => sessionID = Session
  /\ opener = "failed" => closer = "done"
  /\ closer # "idle" => closing /\ opener \in {"failing", "failed", "open"}
  /\ closing => closer # "idle"
  /\ opener = "open" /\ closer = "idle" => laneCtx = "live"

\* What Close has done by the point it is at.
CloseProgress ==
  /\ closer \in {"calls", "done"} =>
       child \in {"none", "reaped"} /\ primary # "open" /\ endpoint # "listening"
  /\ closer = "done" => Clients = {} /\ laneCtx = "cancelled"

\* A helper connects to a running child's endpoint, has named a session while it is
\* bound, and of another session only as long as the lane's is unknown.
HelpersBound ==
  \A h \in Helpers :
    /\ client[h].pc # "out" => endpoint # "none" /\ primary # "none"
    /\ client[h].pc \in Owning => client[h].id # None
    /\ client[h].pc \in Owning /\ sessionID # None /\ opener # "failing" /\ opener # "failed"
         => client[h].id = sessionID

\* The helper that made the endpoint ready is still there unless the lane has failed
\* or is closing; an open lane has one of its session.
ReadyHelper ==
  readyBy # None =>
    /\ client[readyBy].pc \notin {"out", "dialed", "served", "bound"}
    /\ client[readyBy].pc = "inited" \/ failure \/ closing
    /\ opener \in {"rename", "commit", "open"} => client[readyBy].id = sessionID

\* A helper that was lost, and the goroutine of its loss, know the last Run there is.
LossKnowsRun ==
  /\ \A h \in Helpers : client[h].pc = "ended" => failure /\ client[h].run = run
  /\ loss.pc # "idle" => failure /\ loss.run = run /\ primary # "none"
  /\ "loss" \in shut => loss.pc = "done" /\ primary = "done" /\ Ended(run)

LifecycleInv ==
  /\ TypeOK /\ OpenProgress /\ CloseProgress /\ HelpersBound /\ ReadyHelper /\ LossKnowsRun
  /\ opener \in {"rename", "commit", "open"} => readyBy # None

-----------------------------------------------------------------------------
(* Frames: the four kinds of step and what each leaves alone.              *)

OpenSteps == Open \/ OpenStep \/ RequestAnswered \/ SessionOpened \/ OpenRefused \/ CancelOpen
CloseSteps == CloseBegin \/ CloseRequested \/ CloseStep \/ CancelClose
HelperSteps(h) == HelperStarts(h) \/ HelperDies(h) \/ ClientStep(h)
EndSteps ==
  \/ LossShutdown \/ WatchExit \/ WatchShutdown \/ ChildDies \/ ChildExits \/ PrimaryEnds
  \/ RunBegins \/ RunEnds

LEMMA Kinds == Next <=> OpenSteps \/ CloseSteps \/ EndSteps \/ \E h \in Helpers : HelperSteps(h)
  BY DEF Next, OpenSteps, CloseSteps, EndSteps, HelperSteps

\* Opening touches neither Close, nor helpers, nor Runs.
LEMMA OpenFrame ==
  ASSUME OpenSteps
  PROVE  UNCHANGED <<closeVars, failure, readyBy, client, runVars, loss, shut>>
<1> USE DEF besideOpen, openHeld, outside, nativeVars, endpointVars, runVars, endVars, closeVars
<1> QED
  BY DEF OpenSteps, Open, OpenStep, RequestAnswered, SessionOpened, OpenRefused, CancelOpen,
         OpenEndpoint, StartChild, WaitReady, RequestEnds, StartupCancel, OpenFailed, Commit

\* Closing cuts clients and ends the child; it moves no helper and no Run.
LEMMA CloseFrame ==
  ASSUME CloseSteps
  PROVE  /\ UNCHANGED <<openVars, failure, readyBy, runVars, endVars>>
         /\ UNCHANGED client \/ client' = [h \in Helpers |-> [client[h] EXCEPT !.cut = client[h].pc \in Connected]]
<1> USE DEF besideClose, endpointVars
<1> QED
  BY DEF CloseSteps, CloseBegin, CloseRequested, CloseStep, CancelClose, CloseDecides,
         CloseEndpoint, CloseReturns, AbortClose

\* A helper's steps move this one helper, and touch neither Open nor Close.
LEMMA HelperFrame ==
  ASSUME NEW h \in Helpers, HelperSteps(h)
  PROVE  /\ UNCHANGED <<openVars, laneCtx, closeVars, primary, endpoint, runVars, watcher, shut>>
         /\ \E c : client' = [client EXCEPT ![h] = c]
<1> USE DEF besideClients, lane, nativeVars, endVars, MoveClient
<1> QED
  BY DEF HelperSteps, HelperStarts, HelperDies, ClientStep, Accept, Unidentified, Initialized,
         End, LoseOnce, ClientLeaves, Identify

-----------------------------------------------------------------------------
(* Types.                                                                  *)

LEMMA TypeInit == Init => TypeOK
<1> USE LifecycleAssumption DEF Init, ClosePC, Opening, Requesting, Served, Owning
<1>1. Init => LaneTypeOK /\ NativeTypeOK
  BY DEF LaneTypeOK, NativeTypeOK
<1>2. Init => EndpointTypeOK
  BY DEF EndpointTypeOK
<1>3. Init => EndTypeOK
  BY DEF EndTypeOK
<1> QED
  BY <1>1, <1>2, <1>3 DEF TypeOK

LEMMA OpenType ==
  ASSUME TypeOK, OpenSteps
  PROVE  TypeOK'
<1> USE LifecycleAssumption DEF OpenFails, MoveOpen, besideOpen, openHeld, outside, nativeVars,
      endpointVars, endVars, runVars, closeVars
<1>1. LaneTypeOK'
  <2> USE DEF TypeOK, LaneTypeOK, Opening, Requesting
  <2>1. CASE Open
    BY <2>1 DEF Open
  <2>2. CASE RequestAnswered
    BY <2>2 DEF RequestAnswered
  <2>3. CASE SessionOpened
    BY <2>3 DEF SessionOpened
  <2>4. CASE OpenRefused
    BY <2>4 DEF OpenRefused
  <2>5. CASE CancelOpen
    BY <2>5 DEF CancelOpen
  <2>6. CASE OpenEndpoint
    BY <2>6 DEF OpenEndpoint
  <2>7. CASE StartChild
    BY <2>7 DEF StartChild
  <2>8. CASE WaitReady
    BY <2>8 DEF WaitReady
  <2>9. CASE RequestEnds
    BY <2>9 DEF RequestEnds
  <2>10. CASE StartupCancel
    BY <2>10 DEF StartupCancel
  <2>11. CASE OpenFailed
    BY <2>11 DEF OpenFailed
  <2>12. ASSUME NEW late \in BOOLEAN, Commit(late) PROVE LaneTypeOK'
    BY <2>12, ZenonT(60) DEF Commit
  <2> QED
    BY <2>1, <2>2, <2>3, <2>4, <2>5, <2>6, <2>7, <2>8, <2>9, <2>10, <2>11, <2>12
       DEF OpenSteps, OpenStep
<1>2. /\ UNCHANGED nativeVars \/ (child' = "running" /\ stdin' = TRUE /\ primary' = "open")
      /\ UNCHANGED endpoint \/ endpoint' = "listening"
      /\ UNCHANGED watcher \/ watcher' = [watcher EXCEPT !.pc = "wait"]
  BY DEF OpenSteps, Open, OpenStep, RequestAnswered, SessionOpened, OpenRefused, CancelOpen,
         OpenEndpoint, StartChild, WaitReady, RequestEnds, StartupCancel, OpenFailed, Commit
<1>3. NativeTypeOK'
  BY <1>2 DEF TypeOK, NativeTypeOK
<1>4. EndpointTypeOK'
  BY <1>2, OpenFrame DEF TypeOK, EndpointTypeOK
<1>5. EndTypeOK'
  BY <1>2, OpenFrame DEF TypeOK, EndTypeOK
<1> QED
  BY <1>1, <1>3, <1>4, <1>5 DEF TypeOK

LEMMA CloseType ==
  ASSUME TypeOK, CloseSteps
  PROVE  TypeOK'
<1> USE DEF besideClose, nativeVars, endpointVars, openVars, runVars, endVars, closeVars
<1>1. /\ closer' \in {closer} \cup ClosePC
      /\ laneCtx' \in {laneCtx, "cancelled"}
      /\ closing' \in {closing, TRUE} /\ closeCtx' \in {closeCtx, TRUE}
      /\ child' \in {child, "dying"} /\ stdin' \in {stdin, FALSE} /\ primary' \in {primary, "done"}
      /\ endpoint' \in {endpoint, "none", "closed"}
  BY DEF CloseSteps, CloseBegin, CloseRequested, CloseStep, CancelClose, CloseDecides,
         CloseEndpoint, CloseReturns, AbortClose, ClosePC, Abort, Kill
<1>2. LaneTypeOK'
  <2>1. UNCHANGED <<opener, openCtx, startup, opened, sessionID, failure>>
    BY CloseFrame
  <2>2. closer' \in ClosePC /\ laneCtx' \in {"none", "live", "cancelled"}
    BY <1>1 DEF TypeOK, LaneTypeOK
  <2>3. closing' \in BOOLEAN /\ closeCtx' \in BOOLEAN
    BY <1>1 DEF TypeOK, LaneTypeOK
  <2> QED
    BY <2>1, <2>2, <2>3 DEF TypeOK, LaneTypeOK
<1>3. NativeTypeOK'
  BY <1>1 DEF TypeOK, NativeTypeOK
<1>4. EndpointTypeOK'
  <2>1. UNCHANGED readyBy /\ endpoint' \in {"none", "listening", "closed"}
    BY <1>1, CloseFrame DEF TypeOK, EndpointTypeOK
  <2>2. CASE UNCHANGED client
    BY <2>1, <2>2 DEF TypeOK, EndpointTypeOK
  <2>3. CASE client' = [h \in Helpers |-> [client[h] EXCEPT !.cut = client[h].pc \in Connected]]
    <3> DEFINE Cut(h) == [client[h] EXCEPT !.cut = client[h].pc \in Connected]
               Record == [pc : Served \cup {"out", "dialed", "gone"}, id : Sessions \cup {None},
                          cut : BOOLEAN, run : 0..MaxRuns]
    <3>1. client \in [Helpers -> Record]
      BY DEF TypeOK, EndpointTypeOK
    <3>2. ASSUME NEW h \in Helpers PROVE Cut(h) \in Record
      <4> DEFINE b == client[h].pc \in Connected
      <4>1. b \in BOOLEAN /\ client[h] \in Record
        BY <3>1, <3>2
      <4> HIDE DEF b
      <4>2. [client[h] EXCEPT !.cut = b] \in Record
        BY <4>1
      <4> QED
        BY <4>2 DEF b
    <3>3. client' = [h \in Helpers |-> Cut(h)]
      BY <2>3
    <3> HIDE DEF Cut, Record
    <3>4. client' \in [Helpers -> Record]
      BY <3>2, <3>3
    <3> QED
      BY <2>1, <3>4 DEF TypeOK, EndpointTypeOK, Record
  <2> QED
    BY <2>2, <2>3, CloseFrame
<1>5. EndTypeOK'
  BY CloseFrame DEF TypeOK, EndTypeOK
<1> QED
  BY <1>2, <1>3, <1>4, <1>5 DEF TypeOK

LEMMA HelperType ==
  ASSUME TypeOK, NEW h \in Helpers, HelperSteps(h)
  PROVE  TypeOK'
<1> USE HelperFrame DEF lane, openVars, closeVars, nativeVars, runVars, endVars, besideClients,
      MoveClient
<1>1. LaneTypeOK' /\ NativeTypeOK' /\ EndTypeOK'
  <2>1. /\ failure' \in {failure, failure \/ ~closing}
        /\ UNCHANGED <<child, stdin>> \/ (Kill /\ stdin' = FALSE)
        /\ UNCHANGED loss \/ loss' = [pc |-> "wait", run |-> client[h].run]
    BY DEF HelperSteps, HelperStarts, HelperDies, ClientStep, Accept, Unidentified, Initialized,
           End, LoseOnce, ClientLeaves, Identify
  <2>2. client[h].run \in 0..MaxRuns
    BY DEF TypeOK, EndpointTypeOK
  <2>3. LaneTypeOK'
    BY <2>1, ZenonT(60) DEF TypeOK, LaneTypeOK
  <2>4. NativeTypeOK'
    BY <2>1 DEF TypeOK, NativeTypeOK, Kill
  <2>5. EndTypeOK'
    <3>1. UNCHANGED <<runVars, watcher, shut>>
      OBVIOUS
    <3>2. loss' \in [pc : {"idle", "wait", "done"}, run : 0..MaxRuns]
      <4> HIDE HelperFrame
      <4> QED
        BY <2>1, <2>2 DEF TypeOK, EndTypeOK
    <3> QED
      BY <3>1, <3>2 DEF TypeOK, EndTypeOK
  <2> QED
    BY <2>3, <2>4, <2>5
<1>2. EndpointTypeOK'
  <2> USE DEF TypeOK, EndpointTypeOK, Served, Owning
  <2>1. CASE HelperStarts(h)
    BY <2>1 DEF HelperStarts
  <2>2. CASE HelperDies(h)
    BY <2>2, ZenonT(60) DEF HelperDies
  <2>3. CASE Accept(h)
    BY <2>3 DEF Accept
  <2>4. CASE Unidentified(h)
    BY <2>4 DEF Unidentified
  <2>5. CASE Initialized(h)
    BY <2>5 DEF Initialized
  <2>6. CASE ClientLeaves(h)
    BY <2>6 DEF ClientLeaves
  <2>7. ASSUME NEW s \in Sessions, Identify(h, s) PROVE EndpointTypeOK'
    BY <2>7 DEF Identify
  <2>8. CASE End(h)
    BY <2>8, LifecycleAssumption DEF End, EndTypeOK
  <2>9. CASE LoseOnce(h)
    BY <2>9, LifecycleAssumption DEF LoseOnce
  <2> QED
    BY <2>1, <2>2, <2>3, <2>4, <2>5, <2>6, <2>7, <2>8, <2>9 DEF HelperSteps, ClientStep
<1> QED
  BY <1>1, <1>2 DEF TypeOK

LEMMA EndType ==
  ASSUME TypeOK, EndSteps
  PROVE  TypeOK'
<1> USE DEF lane, openVars, closeVars, nativeVars, endpointVars, runVars, endVars, TypeOK
<1>1. UNCHANGED <<lane, endpointVars>>
  BY DEF EndSteps, LossShutdown, WatchExit, WatchShutdown, ChildDies, ChildExits, PrimaryEnds,
         RunBegins, RunEnds
<1>2. LaneTypeOK' /\ EndpointTypeOK'
  BY <1>1 DEF LaneTypeOK, EndpointTypeOK
<1>3. NativeTypeOK'
  BY DEF NativeTypeOK, EndSteps, LossShutdown, WatchExit, WatchShutdown, ChildDies, ChildExits,
         PrimaryEnds, RunBegins, RunEnds
<1>4. EndTypeOK'
  <2> USE DEF EndTypeOK
  <2>1. CASE LossShutdown \/ WatchExit \/ WatchShutdown
    BY <2>1 DEF LossShutdown, WatchExit, WatchShutdown
  <2>2. CASE ChildDies \/ ChildExits \/ PrimaryEnds
    BY <2>2 DEF ChildDies, ChildExits, PrimaryEnds
  <2>3. CASE RunBegins \/ RunEnds
    <3>1. CASE RunBegins
      <4>1. run' \in 0..MaxRuns /\ UNCHANGED <<runDone, endVars>>
        BY <3>1, LifecycleAssumption DEF RunBegins
      <4> QED
        BY <4>1
    <3>2. CASE RunEnds
      <4>1. run \in 1..MaxRuns /\ runDone' = runDone \cup {run} /\ UNCHANGED <<run, endVars>>
        BY <3>2, LifecycleAssumption DEF RunEnds, Ended
      <4> QED
        BY <4>1
    <3> QED
      BY <2>3, <3>1, <3>2
  <2> QED
    BY <2>1, <2>2, <2>3 DEF EndSteps
<1> QED
  BY <1>2, <1>3, <1>4

LEMMA TypeKept ==
  ASSUME TypeOK, [Next]_vars
  PROVE  TypeOK'
<1>1. CASE UNCHANGED vars
  BY <1>1 DEF vars, lane, outside, openVars, closeVars, nativeVars, endpointVars, runVars, endVars,
              TypeOK, LaneTypeOK, NativeTypeOK, EndpointTypeOK, EndTypeOK
<1> QED
  BY <1>1, OpenType, CloseType, HelperType, EndType, Kinds

-----------------------------------------------------------------------------
(* The invariant, part by part.                                            *)

LEMMA InvInit == Init => LifecycleInv
<1> USE DEF Init, Clients, Served, Owning
<1>1. Init => OpenProgress /\ CloseProgress
  BY DEF OpenProgress, CloseProgress
<1>2. Init => HelpersBound
  BY DEF HelpersBound
<1>3. Init => ReadyHelper /\ LossKnowsRun
  BY DEF ReadyHelper, LossKnowsRun
<1> QED
  BY <1>1, <1>2, <1>3, TypeInit DEF LifecycleInv

LEMMA OpenProgressKept ==
  ASSUME LifecycleInv, [Next]_vars
  PROVE  OpenProgress'
<1> USE LifecycleAssumption DEF LifecycleInv, OpenProgress
<1>1. CASE OpenSteps
  <2> USE DEF OpenFails, MoveOpen, besideOpen, openHeld, outside, nativeVars, endpointVars,
        closeVars, Requesting, Committable
  <2>1. CASE Open
    BY <2>1, <1>1 DEF Open
  <2>2. CASE RequestAnswered
    BY <2>2, <1>1 DEF RequestAnswered
  <2>3. CASE SessionOpened
    BY <2>3, <1>1 DEF SessionOpened
  <2>4. CASE OpenRefused
    BY <2>4, <1>1 DEF OpenRefused
  <2>5. CASE CancelOpen
    BY <2>5, <1>1 DEF CancelOpen
  <2>6. CASE OpenEndpoint
    BY <2>6, <1>1 DEF OpenEndpoint
  <2>7. CASE StartChild
    BY <2>7, <1>1 DEF StartChild
  <2>8. CASE WaitReady
    BY <2>8, <1>1 DEF WaitReady
  <2>9. CASE RequestEnds
    BY <2>9, <1>1 DEF RequestEnds
  <2>10. CASE StartupCancel
    BY <2>10, <1>1 DEF StartupCancel
  <2>11. CASE OpenFailed
    BY <2>11, <1>1 DEF OpenFailed
  <2>12. ASSUME NEW late \in BOOLEAN, Commit(late) PROVE OpenProgress'
    BY <2>12, <1>1 DEF Commit
  <2> QED
    BY <1>1, <2>1, <2>2, <2>3, <2>4, <2>5, <2>6, <2>7, <2>8, <2>9, <2>10,
       <2>11, <2>12
       DEF OpenSteps, OpenStep
<1>2. CASE CloseSteps
  <2> USE DEF besideClose, openVars, closeVars, nativeVars, endpointVars, Abort, Kill
  <2>1. CASE CloseBegin
    BY <2>1, <1>2 DEF CloseBegin
  <2>2. CASE CancelClose
    BY <2>2, <1>2 DEF CancelClose
  <2>3. CASE CloseRequested
    BY <2>3, <1>2 DEF CloseRequested
  <2>4. CASE CloseDecides
    BY <2>4, <1>2 DEF CloseDecides
  <2>5. CASE CloseEndpoint
    BY <2>5, <1>2 DEF CloseEndpoint
  <2>6. CASE CloseReturns
    BY <2>6, <1>2 DEF CloseReturns
  <2>7. CASE AbortClose
    BY <2>7, <1>2 DEF AbortClose
  <2> QED
    BY <1>2, <2>1, <2>2, <2>3, <2>4, <2>5, <2>6, <2>7
       DEF CloseSteps, CloseStep
<1>3. ASSUME NEW h \in Helpers, HelperSteps(h) PROVE OpenProgress'
  <2>1. UNCHANGED <<openVars, laneCtx, closeVars, primary, endpoint>>
    BY <1>3, HelperFrame
  <2>2. UNCHANGED child \/ (child = "running" /\ child' = "dying")
    BY <1>3 DEF HelperSteps, HelperStarts, HelperDies, ClientStep, Accept, Unidentified,
       Initialized,
           End, LoseOnce, ClientLeaves, Identify, besideClients, nativeVars, Kill
  <2> QED
    BY <2>1, <2>2 DEF openVars, closeVars
<1>4. CASE EndSteps
  <2>1. UNCHANGED <<openVars, laneCtx, closeVars, endpoint>>
    BY <1>4 DEF EndSteps, LossShutdown, WatchExit, WatchShutdown, ChildDies, ChildExits,
       PrimaryEnds,
         RunBegins, RunEnds, lane, endpointVars
  <2>2. /\ UNCHANGED child \/ (child # "none" /\ child' = "reaped")
        /\ UNCHANGED primary \/ (primary = "open" /\ primary' = "done")
    BY <1>4 DEF EndSteps, LossShutdown, WatchExit, WatchShutdown, ChildDies, ChildExits,
       PrimaryEnds,
         RunBegins, RunEnds, nativeVars
  <2> QED
    BY <2>1, <2>2 DEF openVars, closeVars
<1>5. CASE UNCHANGED vars
  BY <1>5 DEF vars, lane, outside, openVars, closeVars, nativeVars, endpointVars
<1> QED
  BY <1>1, <1>2, <1>3, <1>4, <1>5, Kinds

\* Once the child is started Open changes neither it nor the endpoint.
OpenEffects ==
  /\ opener \notin {"prepare", "start"} => UNCHANGED <<nativeVars, endpointVars>>
  /\ opener # "idle" => laneCtx' \in {laneCtx, "cancelled"}

LEMMA OpenEffect ==
  ASSUME OpenSteps
  PROVE  OpenEffects
<1> USE DEF OpenFails, MoveOpen, besideOpen, openHeld, outside, nativeVars, endpointVars, Requesting
<1>1. CASE Open
  BY <1>1 DEF OpenEffects, Open
<1>2. CASE RequestAnswered
  BY <1>2 DEF OpenEffects, RequestAnswered
<1>3. CASE SessionOpened
  BY <1>3 DEF OpenEffects, SessionOpened
<1>4. CASE OpenRefused
  BY <1>4 DEF OpenEffects, OpenRefused
<1>5. CASE CancelOpen
  BY <1>5 DEF OpenEffects, CancelOpen
<1>6. CASE OpenEndpoint
  BY <1>6 DEF OpenEffects, OpenEndpoint
<1>7. CASE StartChild
  BY <1>7 DEF OpenEffects, StartChild
<1>8. CASE WaitReady
  BY <1>8 DEF OpenEffects, WaitReady
<1>9. CASE RequestEnds
  BY <1>9 DEF OpenEffects, RequestEnds
<1>10. CASE StartupCancel
  BY <1>10 DEF OpenEffects, StartupCancel
<1>11. CASE OpenFailed
  BY <1>11 DEF OpenEffects, OpenFailed
<1>12. ASSUME NEW late \in BOOLEAN, Commit(late) PROVE OpenEffects
  BY <1>12 DEF OpenEffects, Commit
<1> QED
  BY <1>1, <1>2, <1>3, <1>4, <1>5, <1>6, <1>7, <1>8, <1>9, <1>10, <1>11,
     <1>12
     DEF OpenSteps, OpenStep

LEMMA CloseProgressKept ==
  ASSUME LifecycleInv, [Next]_vars
  PROVE  CloseProgress'
<1> USE DEF CloseProgress
<1>0. OpenProgress /\ CloseProgress /\ HelpersBound /\ TypeOK
  BY DEF LifecycleInv
<1>1. CASE OpenSteps
  <2>1. UNCHANGED <<closer, Clients>>
    BY <1>1, OpenFrame DEF closeVars, Clients
  <2>2. closer # "idle" => opener \in {"failing", "failed", "open"}
    BY <1>0 DEF OpenProgress
  <2> QED
    BY <1>0, <1>1, <2>1, <2>2, OpenEffect DEF OpenEffects, nativeVars, endpointVars
<1>2. CASE CloseSteps
  <2> USE DEF besideClose, closeVars, nativeVars, endpointVars, Clients, Abort, Kill
  <2>1. CASE CloseBegin
    BY <2>1, <1>0, <1>2 DEF CloseBegin
  <2>2. CASE CancelClose
    BY <2>2, <1>0, <1>2 DEF CancelClose
  <2>3. CASE CloseRequested
    BY <2>3, <1>0, <1>2 DEF CloseRequested
  <2>4. CASE CloseDecides
    BY <2>4, <1>0, <1>2 DEF CloseDecides
  <2>5. CASE CloseEndpoint
    BY <2>5, <1>0, <1>2 DEF CloseEndpoint
  <2>6. CASE CloseReturns
    BY <2>6, <1>0, <1>2 DEF CloseReturns
  <2>7. CASE AbortClose
    BY <2>7, <1>0, <1>2 DEF AbortClose
  <2> QED
    BY <1>0, <1>2, <2>1, <2>2, <2>3, <2>4, <2>5, <2>6, <2>7
       DEF CloseSteps, CloseStep
<1>3. ASSUME NEW h \in Helpers, HelperSteps(h) PROVE CloseProgress'
  <2>1. UNCHANGED <<laneCtx, closer, primary, endpoint>>
    BY <1>3, HelperFrame DEF closeVars
  <2>2. child \in {"none", "reaped"} => UNCHANGED child
    BY <1>3 DEF HelperSteps, HelperStarts, HelperDies, ClientStep, Accept, Unidentified,
       Initialized,
           End, LoseOnce, ClientLeaves, Identify, besideClients, nativeVars, Kill
  <2>3. ASSUME closer = "done" PROVE Clients' = {}
    <3>1. client[h].pc \notin Served /\ endpoint # "listening"
      BY <1>0, <2>3 DEF Clients
    <3>2. Accept(h)
      BY <1>3, <3>1 DEF HelperSteps, HelperStarts, HelperDies, ClientStep, Unidentified,
         Initialized,
           End, LoseOnce, ClientLeaves, Identify, Served, Owning, Connected
    <3>3. client' = [client EXCEPT ![h].pc = "gone"]
      <4>1. client[h].pc = "dialed"
        BY <3>2 DEF Accept
      <4>2. endpoint = "closed"
        BY <1>0, <3>1, <4>1 DEF HelpersBound, TypeOK, EndpointTypeOK
      <4> QED
        BY <3>2, <4>2 DEF Accept, MoveClient
    <3> QED
      BY <1>0, <2>3, <3>3 DEF Clients, Served, Owning, TypeOK, EndpointTypeOK
  <2> QED
    BY <1>0, <2>1, <2>2, <2>3
<1>4. CASE EndSteps
  <2>1. UNCHANGED <<laneCtx, closer, endpoint, client>>
    BY <1>4 DEF EndSteps, LossShutdown, WatchExit, WatchShutdown, ChildDies, ChildExits,
       PrimaryEnds,
         RunBegins, RunEnds, lane, closeVars, endpointVars
  <2>2. child' \in {child, "reaped"} /\ primary' \in {primary, "done"}
    BY <1>4 DEF EndSteps, LossShutdown, WatchExit, WatchShutdown, ChildDies, ChildExits,
       PrimaryEnds,
         RunBegins, RunEnds, nativeVars
  <2> QED
    BY <1>0, <2>1, <2>2 DEF Clients
<1>5. CASE UNCHANGED vars
  BY <1>0, <1>5 DEF vars, lane, outside, closeVars, nativeVars, endpointVars, Clients
<1> QED
  BY <1>1, <1>2, <1>3, <1>4, <1>5, Kinds

\* What opening may change of what the helpers rely on.
OpenBinds ==
  /\ endpoint # "none" => endpoint' # "none"
  /\ primary # "none" => primary' # "none"
  /\ opener \in {"failing", "failed"} => opener' \in {"failing", "failed"}
  /\ \/ sessionID' = sessionID
     \/ sessionID' = Session /\ (Contradicted(Session) => opener' = "failing")

LEMMA OpenBind ==
  ASSUME OpenSteps
  PROVE  OpenBinds
<1> USE DEF OpenBinds, OpenFails, MoveOpen, besideOpen, openHeld, outside, nativeVars, endpointVars,
      Requesting
<1>1. CASE Open
  BY <1>1 DEF Open
<1>2. CASE RequestAnswered
  BY <1>2 DEF RequestAnswered
<1>3. CASE SessionOpened
  BY <1>3 DEF SessionOpened
<1>4. CASE OpenRefused
  BY <1>4 DEF OpenRefused
<1>5. CASE CancelOpen
  BY <1>5 DEF CancelOpen
<1>6. CASE OpenEndpoint
  BY <1>6 DEF OpenEndpoint
<1>7. CASE StartChild
  BY <1>7 DEF StartChild
<1>8. CASE WaitReady
  BY <1>8 DEF WaitReady
<1>9. CASE RequestEnds
  BY <1>9 DEF RequestEnds
<1>10. CASE StartupCancel
  BY <1>10 DEF StartupCancel
<1>11. CASE OpenFailed
  BY <1>11 DEF OpenFailed
<1>12. ASSUME NEW late \in BOOLEAN, Commit(late) PROVE OpenBinds
  BY <1>12 DEF Commit
<1> QED
  BY <1>1, <1>2, <1>3, <1>4, <1>5, <1>6, <1>7, <1>8, <1>9, <1>10, <1>11,
     <1>12
     DEF OpenSteps, OpenStep

\* A helper's step binds it to no session but the lane's.
HelperBinds(h) ==
  /\ client'[h].pc # "out" => endpoint # "none" /\ primary # "none"
  /\ client'[h].pc \in Owning =>
       \/ client[h].pc \in Owning /\ client'[h].id = client[h].id
       \/ client'[h].id # None /\ sessionID \in {None, client'[h].id}

LEMMA HelperBind ==
  ASSUME TypeOK, OpenProgress, HelpersBound, NEW h \in Helpers, HelperSteps(h)
  PROVE  HelperBinds(h)
<1> USE LifecycleAssumption DEF HelperBinds, TypeOK, EndpointTypeOK, OpenProgress, HelpersBound,
   Owning,
      MoveClient
<1>1. CASE HelperStarts(h)
  BY <1>1 DEF HelperStarts
<1>2. CASE HelperDies(h)
  BY <1>2 DEF HelperDies
<1>3. CASE Accept(h)
  BY <1>3 DEF Accept
<1>4. CASE Unidentified(h)
  BY <1>4 DEF Unidentified
<1>5. CASE Initialized(h)
  BY <1>5 DEF Initialized
<1>6. CASE ClientLeaves(h)
  BY <1>6 DEF ClientLeaves
<1>7. CASE End(h)
  BY <1>7 DEF End
<1>8. CASE LoseOnce(h)
  BY <1>8 DEF LoseOnce
<1>9. ASSUME NEW s \in Sessions, Identify(h, s) PROVE HelperBinds(h)
  <2>1. CASE Rejected(s)
    <3>1. client'[h].pc = "leaving"
      BY <1>9, <2>1 DEF Identify
    <3> QED
      BY <1>9, <3>1 DEF Identify
  <2>2. CASE ~Rejected(s)
    <3>1. client'[h].pc = "bound" /\ client'[h].id = s
      BY <1>9, <2>2 DEF Identify
    <3>2. sessionID \in {None, s} /\ s # None
      BY <2>2 DEF Rejected
    <3> QED
      BY <1>9, <3>1, <3>2 DEF Identify
  <2> QED
    BY <2>1, <2>2
<1> QED
  BY <1>1, <1>2, <1>3, <1>4, <1>5, <1>6, <1>7, <1>8, <1>9
     DEF HelperSteps, ClientStep

LEMMA HelpersBoundKept ==
  ASSUME LifecycleInv, [Next]_vars
  PROVE  HelpersBound'
<1>0. OpenProgress /\ HelpersBound /\ TypeOK
  BY DEF LifecycleInv
<1>1. CASE OpenSteps
  <2>1. UNCHANGED client
    BY <1>1, OpenFrame
  <2>2. OpenBinds
    BY <1>1, OpenBind
  <2>3. ASSUME NEW h \in Helpers, client[h].pc \in Owning, sessionID' = Session,
               opener' \notin {"failing", "failed"}, sessionID' # sessionID
        PROVE  client[h].id = Session
    BY <1>0, <2>2, <2>3 DEF OpenBinds, Contradicted, HelpersBound, Served, Owning
  <2> QED
    BY <1>0, <2>1, <2>2, <2>3 DEF HelpersBound, OpenBinds
<1>2. CASE CloseSteps
  <2>1. UNCHANGED <<opener, sessionID>>
    BY <1>2, CloseFrame DEF openVars
  <2>2. /\ endpoint # "none" => endpoint' # "none"
        /\ primary # "none" => primary' # "none"
    BY <1>2 DEF CloseSteps, CloseBegin, CloseRequested, CloseStep, CancelClose, CloseDecides,
         CloseEndpoint, CloseReturns, AbortClose, Abort, besideClose, endpointVars, nativeVars
  <2>3. ASSUME NEW h \in Helpers PROVE client'[h].pc = client[h].pc /\ client'[h].id = client[h].id
    <3>1. CASE UNCHANGED client
      BY <3>1
    <3>2. CASE client' = [g \in Helpers |-> [client[g] EXCEPT !.cut = client[g].pc \in Connected]]
      BY <1>0, <3>2 DEF TypeOK, EndpointTypeOK
    <3> QED
      BY <1>2, <3>1, <3>2, CloseFrame
  <2> QED
    BY <1>0, <2>1, <2>2, <2>3 DEF HelpersBound
<1>3. ASSUME NEW h \in Helpers, HelperSteps(h) PROVE HelpersBound'
  <2>1. UNCHANGED <<opener, sessionID, primary, endpoint>>
    BY <1>3, HelperFrame DEF openVars
  <2>2. \A g \in Helpers : g # h => client'[g] = client[g]
    BY <1>0, <1>3, HelperFrame DEF TypeOK, EndpointTypeOK
  <2>3. HelperBinds(h)
    BY <1>0, <1>3, HelperBind
  <2> QED
    BY <1>0, <2>1, <2>2, <2>3 DEF HelpersBound, HelperBinds
<1>4. CASE EndSteps
  <2>1. UNCHANGED <<opener, sessionID, endpoint, client>>
    BY <1>4 DEF EndSteps, LossShutdown, WatchExit, WatchShutdown, ChildDies, ChildExits,
       PrimaryEnds,
         RunBegins, RunEnds, lane, openVars, endpointVars
  <2>2. primary' \in {primary, "done"}
    BY <1>4 DEF EndSteps, LossShutdown, WatchExit, WatchShutdown, ChildDies, ChildExits,
       PrimaryEnds,
         RunBegins, RunEnds, nativeVars
  <2> QED
    BY <1>0, <2>1, <2>2 DEF HelpersBound
<1>5. CASE UNCHANGED vars
  BY <1>0, <1>5 DEF vars, lane, outside, openVars, nativeVars, endpointVars, HelpersBound
<1> QED
  BY <1>1, <1>2, <1>3, <1>4, <1>5, Kinds

Named == {"rename", "commit", "open"}

\* Open gets past readiness only with a ready helper and no failure.
OpenReadies ==
  opener' \in Named =>
    /\ sessionID' = sessionID
    /\ opener \in Named \/ (opener = "ready" /\ readyBy # None /\ ~failure)

LEMMA OpenReady ==
  ASSUME OpenSteps
  PROVE  OpenReadies
<1> USE DEF OpenReadies, Named, OpenFails, MoveOpen, besideOpen, openHeld, Requesting
<1>1. CASE Open
  BY <1>1 DEF Open
<1>2. CASE RequestAnswered
  BY <1>2 DEF RequestAnswered
<1>3. CASE SessionOpened
  BY <1>3 DEF SessionOpened
<1>4. CASE OpenRefused
  BY <1>4 DEF OpenRefused
<1>5. CASE CancelOpen
  BY <1>5 DEF CancelOpen
<1>6. CASE OpenEndpoint
  BY <1>6 DEF OpenEndpoint
<1>7. CASE StartChild
  BY <1>7 DEF StartChild
<1>8. CASE WaitReady
  BY <1>8 DEF WaitReady
<1>9. CASE RequestEnds
  BY <1>9 DEF RequestEnds
<1>10. CASE StartupCancel
  BY <1>10 DEF StartupCancel
<1>11. CASE OpenFailed
  BY <1>11 DEF OpenFailed
<1>12. ASSUME NEW late \in BOOLEAN, Commit(late) PROVE OpenReadies
  BY <1>12 DEF Commit
<1> QED
  BY <1>1, <1>2, <1>3, <1>4, <1>5, <1>6, <1>7, <1>8, <1>9, <1>10, <1>11,
     <1>12
     DEF OpenSteps, OpenStep

\* A helper that got ready stays so, or its end is the lane's.
HelperReadies(h) ==
  /\ readyBy' = readyBy \/ (readyBy = None /\ readyBy' = h /\ client'[h].pc = "inited")
  /\ failure => failure'
  /\ client[h].pc \notin {"out", "dialed", "served", "bound"} =>
       /\ client'[h].pc \notin {"out", "dialed", "served", "bound"}
       /\ client'[h].id = client[h].id
       /\ client[h].pc = "inited" => client'[h].pc = "inited" \/ failure' \/ closing

LEMMA HelperReady ==
  ASSUME TypeOK, NEW h \in Helpers, HelperSteps(h)
  PROVE  HelperReadies(h)
<1> USE DEF HelperReadies, TypeOK, EndpointTypeOK, Owning, MoveClient, besideClients, lane
<1>1. CASE HelperStarts(h)
  BY <1>1 DEF HelperStarts
<1>2. CASE HelperDies(h)
  BY <1>2 DEF HelperDies
<1>3. CASE Accept(h)
  BY <1>3 DEF Accept
<1>4. CASE Unidentified(h)
  BY <1>4 DEF Unidentified
<1>5. CASE Initialized(h)
  BY <1>5 DEF Initialized
<1>6. CASE ClientLeaves(h)
  BY <1>6 DEF ClientLeaves
<1>7. CASE End(h)
  BY <1>7 DEF End
<1>8. CASE LoseOnce(h)
  BY <1>8 DEF LoseOnce
<1>9. ASSUME NEW s \in Sessions, Identify(h, s) PROVE HelperReadies(h)
  BY <1>9 DEF Identify
<1> QED
  BY <1>1, <1>2, <1>3, <1>4, <1>5, <1>6, <1>7, <1>8, <1>9
     DEF HelperSteps, ClientStep

LEMMA CloseKeepsClients ==
  ASSUME TypeOK, CloseSteps, NEW h \in Helpers
  PROVE  client'[h].pc = client[h].pc /\ client'[h].id = client[h].id /\ client'[h].run = client[h].run
<1>1. CASE UNCHANGED client
  BY <1>1
<1>2. CASE client' = [g \in Helpers |-> [client[g] EXCEPT !.cut = client[g].pc \in Connected]]
  BY <1>2 DEF TypeOK, EndpointTypeOK
<1> QED
  BY <1>1, <1>2, CloseFrame

LEMMA ReadyHelperKept ==
  ASSUME LifecycleInv, [Next]_vars
  PROVE  ReadyHelper' /\ (opener' \in Named => readyBy' # None)
<1>0. /\ OpenProgress /\ HelpersBound /\ TypeOK /\ ReadyHelper
      /\ opener \in Named => readyBy # None
  BY DEF LifecycleInv, Named
<1>1. CASE OpenSteps
  <2>1. UNCHANGED <<client, readyBy, failure, closing>>
    BY <1>1, OpenFrame DEF closeVars
  <2>2. OpenReadies
    BY <1>1, OpenReady
  <2>3. ASSUME opener = "ready", readyBy # None, ~failure PROVE client[readyBy].id = sessionID
    <3>1. ~closing /\ sessionID = Session
      BY <1>0, <2>3 DEF OpenProgress
    <3>2. readyBy \in Helpers /\ client[readyBy].pc = "inited"
      BY <1>0, <2>3, <3>1 DEF ReadyHelper, TypeOK, EndpointTypeOK
    <3> QED
      BY <1>0, <2>3, <3>1, <3>2, LifecycleAssumption DEF HelpersBound, Owning
  <2> QED
    BY <1>0, <2>1, <2>2, <2>3 DEF ReadyHelper, OpenReadies, Named
<1>2. CASE CloseSteps
  <2>1. UNCHANGED <<opener, sessionID, readyBy, failure>>
    BY <1>2, CloseFrame DEF openVars
  <2>2. closing => closing'
    BY <1>2 DEF CloseSteps, CloseBegin, CloseRequested, CloseStep, CancelClose, CloseDecides,
         CloseEndpoint, CloseReturns, AbortClose, closeVars
  <2>3. readyBy # None => readyBy \in Helpers
    BY <1>0 DEF TypeOK, EndpointTypeOK
  <2> QED
    BY <1>0, <1>2, <2>1, <2>2, <2>3, CloseKeepsClients DEF ReadyHelper, Named
<1>3. ASSUME NEW h \in Helpers, HelperSteps(h)
      PROVE  ReadyHelper' /\ (opener' \in Named => readyBy' # None)
  <2>1. UNCHANGED <<opener, sessionID, closing>>
    BY <1>3, HelperFrame DEF openVars, closeVars
  <2>2. \A g \in Helpers : g # h => client'[g] = client[g]
    BY <1>0, <1>3, HelperFrame DEF TypeOK, EndpointTypeOK
  <2>3. HelperReadies(h)
    BY <1>0, <1>3, HelperReady
  <2>4. readyBy # None => readyBy \in Helpers
    BY <1>0 DEF TypeOK, EndpointTypeOK
  <2> QED
    BY <1>0, <2>1, <2>2, <2>3, <2>4 DEF ReadyHelper, HelperReadies, Named
<1>4. CASE EndSteps
  <2>1. UNCHANGED <<opener, sessionID, readyBy, client, failure, closing>>
    BY <1>4 DEF EndSteps, LossShutdown, WatchExit, WatchShutdown, ChildDies, ChildExits,
       PrimaryEnds,
         RunBegins, RunEnds, lane, openVars, closeVars, endpointVars
  <2> QED
    BY <1>0, <2>1 DEF ReadyHelper, Named
<1>5. CASE UNCHANGED vars
  BY <1>0, <1>5 DEF vars, lane, outside, openVars, closeVars, endpointVars, ReadyHelper
<1> QED
  BY <1>1, <1>2, <1>3, <1>4, <1>5, Kinds

\* What a step of a helper does to the accounts of its loss.
HelperLoses(h) ==
  /\ failure => failure'
  /\ client'[h].pc = "ended" =>
       \/ client[h].pc = "ended" /\ client'[h].run = client[h].run
       \/ failure' /\ client'[h].run = run
  /\ \/ UNCHANGED loss
     \/ loss.pc = "idle" /\ client[h].pc = "ended" /\ loss' = [pc |-> "wait", run |-> client[h].run]

LEMMA HelperLoss ==
  ASSUME TypeOK, NEW h \in Helpers, HelperSteps(h)
  PROVE  HelperLoses(h)
<1> USE DEF HelperLoses, TypeOK, EndpointTypeOK, Owning, MoveClient, besideClients, lane, endVars
<1>1. CASE HelperStarts(h)
  BY <1>1 DEF HelperStarts
<1>2. CASE HelperDies(h)
  BY <1>2 DEF HelperDies
<1>3. CASE Accept(h)
  BY <1>3 DEF Accept
<1>4. CASE Unidentified(h)
  BY <1>4 DEF Unidentified
<1>5. CASE Initialized(h)
  BY <1>5 DEF Initialized
<1>6. CASE ClientLeaves(h)
  BY <1>6 DEF ClientLeaves
<1>7. CASE End(h)
  BY <1>7 DEF End
<1>8. CASE LoseOnce(h)
  BY <1>8 DEF LoseOnce
<1>9. ASSUME NEW s \in Sessions, Identify(h, s) PROVE HelperLoses(h)
  BY <1>9 DEF Identify
<1> QED
  BY <1>1, <1>2, <1>3, <1>4, <1>5, <1>6, <1>7, <1>8, <1>9
     DEF HelperSteps, ClientStep

LEMMA LossKnowsRunKept ==
  ASSUME LifecycleInv, [Next]_vars
  PROVE  LossKnowsRun'
<1>0. OpenProgress /\ HelpersBound /\ TypeOK /\ LossKnowsRun
  BY DEF LifecycleInv
<1>1. CASE OpenSteps
  <2>1. UNCHANGED <<client, failure, run, runDone, loss, shut>>
    BY <1>1, OpenFrame DEF runVars
  <2>2. /\ primary # "none" => primary' # "none"
        /\ primary = "done" => primary' = "done"
    BY <1>0, <1>1, OpenBind, OpenEffect DEF OpenBinds, OpenEffects, OpenProgress, nativeVars
  <2> QED
    BY <1>0, <2>1, <2>2 DEF LossKnowsRun, Ended
<1>2. CASE CloseSteps
  <2>1. UNCHANGED <<failure, run, runDone, loss, shut>>
    BY <1>2, CloseFrame DEF runVars, endVars
  <2>2. /\ primary # "none" => primary' # "none"
        /\ primary = "done" => primary' = "done"
    BY <1>2 DEF CloseSteps, CloseBegin, CloseRequested, CloseStep, CancelClose, CloseDecides,
         CloseEndpoint, CloseReturns, AbortClose, Abort, besideClose, nativeVars
  <2> QED
    BY <1>0, <1>2, <2>1, <2>2, CloseKeepsClients DEF LossKnowsRun, Ended
<1>3. ASSUME NEW h \in Helpers, HelperSteps(h) PROVE LossKnowsRun'
  <2>1. UNCHANGED <<primary, run, runDone, shut>>
    BY <1>3, HelperFrame DEF runVars
  <2>2. \A g \in Helpers : g # h => client'[g] = client[g]
    BY <1>0, <1>3, HelperFrame DEF TypeOK, EndpointTypeOK
  <2>3. HelperLoses(h)
    BY <1>0, <1>3, HelperLoss
  <2>4. client[h].pc = "ended" => primary # "none"
    BY <1>0 DEF HelpersBound
  <2> QED
    BY <1>0, <2>1, <2>2, <2>3, <2>4 DEF LossKnowsRun, HelperLoses, Ended
<1>4. CASE EndSteps
  <2> USE DEF LossKnowsRun, Ended, lane, nativeVars, endpointVars, runVars, endVars
  <2>1. CASE LossShutdown
    BY <2>1, <1>0, <1>4 DEF LossShutdown, TypeOK, NativeTypeOK, EndTypeOK
  <2>2. CASE WatchExit
    BY <2>2, <1>0, <1>4 DEF WatchExit
  <2>3. CASE WatchShutdown
    BY <2>3, <1>0, <1>4 DEF WatchShutdown
  <2>4. CASE ChildDies
    BY <2>4, <1>0, <1>4 DEF ChildDies
  <2>5. CASE ChildExits
    BY <2>5, <1>0, <1>4 DEF ChildExits
  <2>6. CASE PrimaryEnds
    BY <2>6, <1>0, <1>4 DEF PrimaryEnds
  <2>7. CASE RunBegins
    BY <2>7, <1>0, <1>4 DEF RunBegins
  <2>8. CASE RunEnds
    BY <2>8, <1>0, <1>4 DEF RunEnds
  <2> QED
    BY <1>0, <1>4, <2>1, <2>2, <2>3, <2>4, <2>5, <2>6, <2>7, <2>8
       DEF EndSteps
<1>5. CASE UNCHANGED vars
  BY <1>0, <1>5 DEF vars, lane, outside, endpointVars, nativeVars, runVars, endVars, LossKnowsRun,
     Ended
<1> QED
  BY <1>1, <1>2, <1>3, <1>4, <1>5, Kinds

-----------------------------------------------------------------------------
(* The theorems.                                                           *)

\* The inductive invariant of the lane's life holds in every reachable state, for any
\* helpers, sessions, Runs and faults.
THEOREM LifecycleInvariant == Spec => []LifecycleInv
<1>1. LifecycleInv /\ [Next]_vars => LifecycleInv'
  BY TypeKept, OpenProgressKept, CloseProgressKept, HelpersBoundKept, ReadyHelperKept,
     LossKnowsRunKept
     DEF LifecycleInv, Named
<1> QED
  BY InvInit, <1>1, PTL DEF Spec

\* Every variable keeps its type.
THEOREM TypeCorrect == Spec => []TypeOK
<1>1. LifecycleInv => TypeOK
  BY DEF LifecycleInv
<1> QED
  BY LifecycleInvariant, <1>1, PTL

\* An open lane belongs to the one session its ready helper named, has no helper of
\* another one, and survives the end of the opening call's context.
THEOREM OpenLaneIsBound == Spec => []OpenLaneBound
<1>1. LifecycleInv => OpenLaneBound
  <2>1. ASSUME LifecycleInv, opened PROVE OpenLaneBound
    <3>1. opener = "open" /\ sessionID = Session /\ (closer = "idle" => laneCtx = "live")
      BY <2>1 DEF LifecycleInv, OpenProgress
    <3>2. readyBy # None /\ client[readyBy].id = sessionID
      BY <2>1, <3>1 DEF LifecycleInv, ReadyHelper
    <3>3. \A h \in Helpers : client[h].pc \in Owning => client[h].id = sessionID
      BY <2>1, <3>1, LifecycleAssumption DEF LifecycleInv, HelpersBound
    <3> QED
      BY <3>1, <3>2, <3>3 DEF OpenLaneBound
  <2> QED
    BY <2>1 DEF OpenLaneBound
<1> QED
  BY LifecycleInvariant, <1>1, PTL

\* A failed Open and a returned Close leave no child, connection, endpoint or client.
THEOREM NothingIsLeft == Spec => []NothingLeft
<1>1. LifecycleInv => NothingLeft
  BY DEF LifecycleInv, OpenProgress, CloseProgress, NothingLeft
<1> QED
  BY LifecycleInvariant, <1>1, PTL

\* The shutdown that follows the loss of a helper finds the output drained and no Run
\* under way, and none begins after it.
THEOREM LossIsSettled == Spec => []LossSettlesWork
<1>1. LifecycleInv => LossSettlesWork
  BY DEF LifecycleInv, LossKnowsRun, LossSettlesWork
<1> QED
  BY LifecycleInvariant, <1>1, PTL
=============================================================================
