-------------------------- MODULE PeerOwnerProofs --------------------------
(***************************************************************************)
(* Theorems about the helpers of one interactive launch, for any number of *)
(* helpers, sessions, messages and slots, and any faults.                  *)
(*                                                                         *)
(* The name: a claim once owned is never owned by another, one helper of a *)
(* session runs at a time, and a helper that got the name requested passes *)
(* the completion before it serves; so whoever completes the claim is the  *)
(* last that asks for the name.  The deliveries: the slots of a helper are *)
(* counted by what is under way at it, and the gate's token is in the      *)
(* channel or with the one interject.                                      *)
(***************************************************************************)
EXTENDS PeerOwner, FiniteSetTheorems, TLAPS

\* The deliveries under way at a helper, and the slots they hold.
AtWork(h) == {m \in Messages : at[m] = h /\ call[m] \in Active}
SlotsCounted == \A h \in Helpers : IsFiniteSet(AtWork(h)) /\ b[h].work = Cardinality(AtWork(h))
Deliveries == \A m \in Messages : call[m] \in Active => at[m] \in Helpers /\ b[at[m]].ready

\* What the phase of a helper says of its peer, its observer and its end.
Before == {"idle", "killed", "claiming", "new"}
Lifetime ==
  \A h \in Helpers :
    /\ b[h].pc \in Before => b[h].peer = "none" /\ b[h].observer = "none"
    /\ b[h].peer = "none" => ~b[h].ready
    /\ b[h].shutdown # "idle" => b[h].ending
    /\ b[h].pc \in {"quit", "join", "done"} => b[h].ending
    /\ b[h].pc = "start" => b[h].observer = "none"
    /\ b[h].pc = "done" => b[h].observer # "up"

\* Who creates the claim, who owns it, and who may ask for the name.
ClaimOwned ==
  /\ \A g \in Helpers, h \in Helpers : b[g].pc = "claiming" /\ b[h].pc = "claiming" => g = h
  /\ \A h \in Helpers :
       /\ b[h].pc = "claiming" => claim = "torn" /\ ~b[h].requested
       /\ b[h].requested => claim = b[h].session /\ b[h].session \in Sessions
       /\ b[h].pc \in {"confirm", "complete"} => b[h].requested
       /\ Running(h) => b[h].session \in Sessions
       /\ b[h].pc = "idle" => ~b[h].requested
OneRuns ==
  \A g \in Helpers, h \in Helpers :
    Running(g) /\ Running(h) /\ b[g].session = b[h].session => g = h

\* Past the completion.
After == {"connect", "await", "serve", "reread", "publish", "rehello", "leave", "quit", "join"}
CompletedLast ==
  completed =>
    /\ claim \in Sessions
    /\ \A h \in Helpers : Running(h) /\ b[h].requested => b[h].pc \in After

\* TypeOK in parts: the backends, and the rest.
BackendsOK == b \in [Helpers -> Backend]
CapacityKept == \A h \in Helpers : b[h].work <= MaxSlots
RestOK ==
  /\ actor \in [Sessions -> {"absent", "live", "gone"}]
  /\ title \in [Sessions -> Titles] /\ edits \in 0..MaxEdits
  /\ renames \in [Sessions -> Nat]
  /\ claim \in {"absent", "torn"} \cup Sessions /\ completed \in BOOLEAN
  /\ call \in [Messages -> Active \cup {"idle", "injected", "rejected", "uncertain"}]
  /\ at \in [Messages -> Helpers \cup {None}] /\ expired \subseteq Messages

LEMMA TypeParts == TypeOK <=> BackendsOK /\ CapacityKept /\ RestOK
BY DEF TypeOK, BackendsOK, CapacityKept, RestOK

DeliveryMoves(m) ==
  \/ DeliveryStep(m) \/ InterjectAnswered(m) \/ Expires(m) \/ CancelCaller(m)
  \/ \E h \in Helpers : DeliverOwned(m, h)

LEMMA Kinds ==
  [Next]_vars <=>
    \/ \E h \in Helpers : OwnerStep(h) \/ HelperStep(h)
    \/ \E s \in Sessions : ActorLoads(s) \/ ActorEnds(s) \/ UserRenames(s)
    \/ \E m \in Messages : DeliveryMoves(m)
    \/ UNCHANGED vars
BY DEF Next, DeliveryMoves

-----------------------------------------------------------------------------
(* Types.                                                                  *)

LEMMA FieldTyped ==
  \A x \in Backend :
    /\ \A v \in PCs : [x EXCEPT !.pc = v] \in Backend
    /\ \A v \in Sessions \cup {None} : [x EXCEPT !.session = v] \in Backend
    /\ \A v \in BOOLEAN : [x EXCEPT !.requested = v] \in Backend
    /\ \A v \in Titles : [x EXCEPT !.row = v] \in Backend
    /\ \A v \in Titles : [x EXCEPT !.identity = v] \in Backend
    /\ \A v \in BOOLEAN : [x EXCEPT !.changed = v] \in Backend
    /\ \A v \in BOOLEAN : [x EXCEPT !.notice = v] \in Backend
    /\ \A v \in BOOLEAN : [x EXCEPT !.ending = v] \in Backend
    /\ \A v \in BOOLEAN : [x EXCEPT !.cancelled = v] \in Backend
    /\ \A v \in BOOLEAN : [x EXCEPT !.admitted = v] \in Backend
    /\ \A v \in {"none", "up", "done"} : [x EXCEPT !.observer = v] \in Backend
    /\ \A v \in {"none", "offline", "online", "closed"} : [x EXCEPT !.peer = v] \in Backend
    /\ \A v \in Titles : [x EXCEPT !.hello = v] \in Backend
    /\ \A v \in BOOLEAN : [x EXCEPT !.ready = v] \in Backend
    /\ \A v \in Nat : [x EXCEPT !.work = v] \in Backend
    /\ \A v \in BOOLEAN : [x EXCEPT !.gate = v] \in Backend
    /\ \A v \in {"idle", "marked", "waiting", "returned"} : [x EXCEPT !.shutdown = v] \in Backend
BY SMTT(60) DEF Backend

LEMMA FieldsIn ==
  \A x \in Backend :
    /\ x.pc \in PCs
    /\ x.session \in Sessions \cup {None}
    /\ x.requested \in BOOLEAN
    /\ x.row \in Titles
    /\ x.identity \in Titles
    /\ x.changed \in BOOLEAN
    /\ x.notice \in BOOLEAN
    /\ x.ending \in BOOLEAN
    /\ x.cancelled \in BOOLEAN
    /\ x.admitted \in BOOLEAN
    /\ x.observer \in {"none", "up", "done"}
    /\ x.peer \in {"none", "offline", "online", "closed"}
    /\ x.hello \in Titles
    /\ x.ready \in BOOLEAN
    /\ x.work \in Nat
    /\ x.gate \in BOOLEAN
    /\ x.shutdown \in {"idle", "marked", "waiting", "returned"}
BY DEF Backend

\* A delivery under way holds a slot.
LEMMA HoldsSlot ==
  ASSUME SlotsCounted, Deliveries, BackendsOK, NEW m \in Messages, call[m] \in Active
  PROVE  /\ at[m] \in Helpers /\ b[at[m]] \in Backend /\ b[at[m]].work # 0
         /\ b[at[m]].work - 1 \in Nat
<1>1. at[m] \in Helpers
  BY DEF Deliveries
<1>2. m \in AtWork(at[m])
  BY DEF AtWork
<1>3. IsFiniteSet(AtWork(at[m])) /\ b[at[m]].work = Cardinality(AtWork(at[m]))
  BY <1>1 DEF SlotsCounted
<1>4. Cardinality(AtWork(at[m])) # 0
  BY <1>2, <1>3, FS_EmptySet
<1>5. b[at[m]] \in Backend
  BY <1>1 DEF BackendsOK
<1> QED
  BY <1>1, <1>3, <1>4, <1>5, FieldsIn

LEMMA ReturnTyped ==
  ASSUME BackendsOK, SlotsCounted, Deliveries, NEW m \in Messages, call[m] \in Active,
         NEW outcome, Return(m, outcome)
  PROVE  BackendsOK'
<1>1. PICK x \in Backend : x = b[at[m]] /\ x.work - 1 \in Nat
  BY HoldsSlot
<1>2. PICK v \in BOOLEAN : v = (x.gate \/ call[m] \in {"holding", "interject"})
  OBVIOUS
<1>3. [x EXCEPT !.work = x.work - 1, !.gate = v] \in Backend
  <2>1. [x EXCEPT !.work = x.work - 1] \in Backend
    BY <1>1, FieldTyped
  <2> QED
    BY <2>1, <1>2, FieldTyped
<1>4. b' = [b EXCEPT ![at[m]] = [x EXCEPT !.work = x.work - 1, !.gate = v]]
  BY <1>1, <1>2 DEF Return
<1> QED
  BY <1>3, <1>4 DEF BackendsOK

LEMMA BackendsTyped ==
  ASSUME RestOK, BackendsOK, SlotsCounted, Deliveries, [Next]_vars
  PROVE  BackendsOK'
<1> USE DEF BackendsOK, nativeVars, claimVars, callVars
<1>1. ASSUME NEW h \in Helpers, OwnerStep(h) \/ HelperStep(h) PROVE BackendsOK'
  <2>1. CASE RecordOwner(h)
    BY <2>1 DEF RecordOwner, Backend, PCs, Lost, Titles
  <2>2. CASE StartObserver(h)
    <3>1. b' = [b EXCEPT ![h].observer = "up", ![h].pc = "leave"]
          \/ b' = [b EXCEPT ![h].observer = "up", ![h].pc = "roster"]
          \/ b' = [b EXCEPT ![h].pc = "leave"]
      BY <2>2 DEF StartObserver, Goto
    <3>2. PICK y \in Backend : y = [b[h] EXCEPT !.observer = "up"]
      BY FieldTyped
    <3>3. /\ [y EXCEPT !.pc = "leave"] \in Backend /\ [y EXCEPT !.pc = "roster"] \in Backend
          /\ [b[h] EXCEPT !.pc = "leave"] \in Backend
      BY FieldTyped DEF PCs
    <3> QED
      BY <3>1, <3>2, <3>3
  <2>3. CASE FirstRoster(h)
    BY <2>3 DEF FirstRoster, Goto, Owner, ReadRoster, Broken, Backend, PCs, Lost, Titles
  <2>4. CASE AwaitActor(h)
    BY <2>4 DEF AwaitActor, Goto, Owner, Broken, Backend, PCs, Lost, Titles
  <2>5. CASE NameSettled(h)
    BY <2>5 DEF NameSettled, Goto, Owner, Backend, PCs, Lost, Titles
  <2>6. CASE ApplyName(h)
    BY <2>6, FieldTyped, FieldsIn DEF ApplyName, Goto, Owner, Announced, Broken, PCs, Lost, Titles
  <2>7. CASE NameFails(h)
    BY <2>7 DEF NameFails, Goto, Owner, Broken, Backend, PCs, Lost, Titles
  <2>8. CASE Confirm(h)
    BY <2>8 DEF Confirm, Goto, Owner, ReadRoster, Broken, Backend, PCs, Lost, Titles
  <2>9. CASE Complete(h)
    BY <2>9 DEF Complete, Goto, Backend, PCs, Lost, Titles
  <2>10. CASE Connect(h)
    BY <2>10 DEF Connect, Goto, Owner, Backend, PCs, Lost, Titles
  <2>11. CASE AwaitReady(h)
    BY <2>11 DEF AwaitReady, Goto, Owner, Broken, Backend, PCs, Lost, Titles
  <2>12. CASE Serve(h)
    BY <2>12 DEF Serve, Goto, Owner, Broken, Backend, PCs, Lost, Titles
  <2>13. CASE Reread(h)
    BY <2>13 DEF Reread, Goto, Owner, ReadRoster, Broken, Backend, PCs, Lost, Titles
  <2>14. CASE Publish(h)
    BY <2>14, FieldTyped, FieldsIn DEF Publish, Goto, Owner, PCs, Lost, Titles
  <2>15. CASE Rehello(h)
    BY <2>15 DEF Rehello, Goto, Owner, Backend, PCs, Lost, Titles
  <2>16. CASE Leave(h)
    BY <2>16 DEF Leave, Goto, Owner, Backend, PCs, Lost, Titles
  <2>17. CASE LeaveBus(h)
    BY <2>17, FieldTyped, FieldsIn DEF LeaveBus, Goto, Owner, Quit, PCs, Lost, Titles
  <2>18. CASE Join(h)
    BY <2>18, FieldTyped, FieldsIn DEF Join, Goto, Owner, Joined, PCs, Lost, Titles
  <2>19. CASE ObserverCloses(h)
    BY <2>19 DEF ObserverCloses, Goto, Owner, Backend, PCs, Lost, Titles
  <2>20. CASE ShutdownStops(h)
    <3>1. PICK peer \in {"none", "offline", "online", "closed"},
               observer \in {"none", "up", "done"}, pc \in PCs :
            /\ peer = IF b[h].peer = "none" THEN b[h].peer ELSE "closed"
            /\ observer = IF b[h].observer = "up" THEN "done" ELSE b[h].observer
            /\ pc = IF b[h].pc = "new" THEN "done" ELSE b[h].pc
      <4>1. b[h].peer \in {"none", "offline", "online", "closed"}
            /\ b[h].observer \in {"none", "up", "done"} /\ b[h].pc \in PCs /\ "done" \in PCs
        BY FieldsIn DEF PCs
      <4> QED
        BY <4>1
    <3>2. PICK x \in Backend : x = [b[h] EXCEPT !.cancelled = TRUE]
      BY FieldTyped
    <3>3. PICK y \in Backend : y = [x EXCEPT !.peer = peer]
      BY FieldTyped
    <3>4. PICK z \in Backend : z = [y EXCEPT !.observer = observer]
      BY FieldTyped
    <3>5. PICK w \in Backend : w = [z EXCEPT !.pc = pc]
      BY FieldTyped
    <3>6. [w EXCEPT !.shutdown = "waiting"] \in Backend
      BY FieldTyped
    <3>7. b[h] \in Backend
      OBVIOUS
    <3>8. [w EXCEPT !.shutdown = "waiting"] =
             [b[h] EXCEPT !.cancelled = TRUE, !.peer = peer, !.observer = observer, !.pc = pc,
                          !.shutdown = "waiting"]
      BY <3>2, <3>3, <3>4, <3>5
    <3>9. [Quit(b[h]) EXCEPT !.observer = IF Quit(b[h]).observer = "up" THEN "done"
                                           ELSE Quit(b[h]).observer,
                              !.pc = IF Quit(b[h]).pc = "new" THEN "done" ELSE Quit(b[h]).pc,
                              !.shutdown = "waiting"]
           = [b[h] EXCEPT !.cancelled = TRUE, !.peer = peer, !.observer = observer, !.pc = pc,
                          !.shutdown = "waiting"]
      BY <3>1, <3>7 DEF Quit, Backend
    <3>10. b' = [b EXCEPT ![h] = [Quit(b[h]) EXCEPT
                                    !.observer = IF Quit(b[h]).observer = "up" THEN "done"
                                                 ELSE Quit(b[h]).observer,
                                    !.pc = IF Quit(b[h]).pc = "new" THEN "done"
                                           ELSE Quit(b[h]).pc,
                                    !.shutdown = "waiting"]]
      BY <2>20 DEF ShutdownStops
    <3> QED
      BY <3>6, <3>8, <3>9, <3>10
  <2>21. CASE ShutdownReturns(h)
    BY <2>21 DEF ShutdownReturns, Goto, Owner, Backend, PCs, Lost, Titles
  <2>22. CASE Initialized(h)
    BY <2>22 DEF Initialized, Goto, Owner, Backend, PCs, Lost, Titles
  <2>23. CASE Shutdown(h)
    BY <2>23 DEF Shutdown, Goto, Owner, Backend, PCs, Lost, Titles
  <2>24. CASE LaunchEnds(h)
    BY <2>24, FieldTyped, FieldsIn DEF LaunchEnds, Goto, Owner, PCs, Lost, Titles
  <2>25. CASE Kill(h)
    BY <2>25 DEF Kill, Fresh, Backend, PCs, Lost, Titles
  <2>26. CASE ObserverEnds(h)
    BY <2>26 DEF ObserverEnds, Goto, Owner, Backend, PCs, Lost, Titles
  <2>27. CASE ReceiveChange(h)
    BY <2>27, FieldTyped, FieldsIn DEF ReceiveChange, Goto, Owner, PCs, Lost, Titles
  <2>28. CASE BusAdmits(h)
    BY <2>28, FieldTyped, FieldsIn DEF BusAdmits, Goto, Owner, PCs, Lost, Titles
  <2>29. CASE BusEnds(h)
    BY <2>29 DEF BusEnds, Goto, Owner, Backend, PCs, Lost, Titles
  <2>30. ASSUME NEW s \in Sessions, ClaimName(h, s) PROVE BackendsOK'
    BY <2>30 DEF ClaimName, CanStart, Granted, Backend, PCs, Lost, Titles
  <2> QED
    BY <1>1, <2>1, <2>2, <2>3, <2>4, <2>5, <2>6, <2>7, <2>8, <2>9, <2>10, <2>11, <2>12, <2>13,
       <2>14, <2>15, <2>16, <2>17, <2>18, <2>19, <2>20, <2>21, <2>22, <2>23, <2>24, <2>25, <2>26,
       <2>27, <2>28, <2>29, <2>30 DEF OwnerStep, HelperStep
<1>2. ASSUME NEW s \in Sessions, ActorLoads(s) \/ ActorEnds(s) \/ UserRenames(s) PROVE BackendsOK'
  <2>1. CASE ActorLoads(s)
    BY <2>1, FieldTyped, FieldsIn DEF ActorLoads, Announced, PCs, Lost, Titles
  <2>2. CASE ActorEnds(s)
    BY <2>2, FieldTyped, FieldsIn DEF ActorEnds, Announced, PCs, Lost, Titles
  <2>3. CASE UserRenames(s)
    BY <2>3, FieldTyped, FieldsIn DEF UserRenames, Announced, PCs, Lost, Titles
  <2> QED
    BY <1>2, <2>1, <2>2, <2>3
<1>3. ASSUME NEW m \in Messages, DeliveryMoves(m) PROVE BackendsOK'
  <2>1. CASE WaitReady(m)
    <3>1. call[m] \in Active
      BY <2>1 DEF WaitReady, Active
    <3>2. CASE \E outcome : Return(m, outcome)
      BY <3>1, <3>2, ReturnTyped
    <3>3. CASE UNCHANGED b \/ b' = [b EXCEPT ![at[m]].gate = FALSE]
      <4>1. [b[at[m]] EXCEPT !.gate = FALSE] \in Backend
        BY <3>1, HoldsSlot, FieldTyped
      <4> QED
        BY <3>3, <4>1
    <3> QED
      BY <2>1, <3>2, <3>3 DEF WaitReady
  <2>2. CASE TakeGate(m)
    <3>1. call[m] \in Active
      BY <2>2 DEF TakeGate, Active
    <3>2. CASE \E outcome : Return(m, outcome)
      BY <3>1, <3>2, ReturnTyped
    <3>3. CASE UNCHANGED b \/ b' = [b EXCEPT ![at[m]].gate = FALSE]
      <4>1. [b[at[m]] EXCEPT !.gate = FALSE] \in Backend
        BY <3>1, HoldsSlot, FieldTyped
      <4> QED
        BY <3>3, <4>1
    <3> QED
      BY <2>2, <3>2, <3>3 DEF TakeGate
  <2>3. CASE Interject(m)
    <3>1. call[m] \in Active
      BY <2>3 DEF Interject, Active
    <3>2. CASE \E outcome : Return(m, outcome)
      BY <3>1, <3>2, ReturnTyped
    <3>3. CASE UNCHANGED b \/ b' = [b EXCEPT ![at[m]].gate = FALSE]
      <4>1. [b[at[m]] EXCEPT !.gate = FALSE] \in Backend
        BY <3>1, HoldsSlot, FieldTyped
      <4> QED
        BY <3>3, <4>1
    <3> QED
      BY <2>3, <3>2, <3>3 DEF Interject
  <2>4. CASE InterjectFails(m)
    <3>1. call[m] \in Active
      BY <2>4 DEF InterjectFails, Active
    <3>2. CASE \E outcome : Return(m, outcome)
      BY <3>1, <3>2, ReturnTyped
    <3>3. CASE UNCHANGED b \/ b' = [b EXCEPT ![at[m]].gate = FALSE]
      <4>1. [b[at[m]] EXCEPT !.gate = FALSE] \in Backend
        BY <3>1, HoldsSlot, FieldTyped
      <4> QED
        BY <3>3, <4>1
    <3> QED
      BY <2>4, <3>2, <3>3 DEF InterjectFails
  <2>5. CASE InterjectAnswered(m)
    <3>1. call[m] \in Active
      BY <2>5 DEF InterjectAnswered, Active
    <3>2. CASE \E outcome : Return(m, outcome)
      BY <3>1, <3>2, ReturnTyped
    <3>3. CASE UNCHANGED b \/ b' = [b EXCEPT ![at[m]].gate = FALSE]
      <4>1. [b[at[m]] EXCEPT !.gate = FALSE] \in Backend
        BY <3>1, HoldsSlot, FieldTyped
      <4> QED
        BY <3>3, <4>1
    <3> QED
      BY <2>5, <3>2, <3>3 DEF InterjectAnswered
  <2>6. CASE Expires(m)
    BY <2>6 DEF Expires, Backend, PCs, Lost, Titles
  <2>7. CASE CancelCaller(m)
    BY <2>7 DEF CancelCaller, Backend, PCs, Lost, Titles
  <2>8. ASSUME NEW h \in Helpers, DeliverOwned(m, h) PROVE BackendsOK'
    BY <2>8 DEF DeliverOwned, Backend, PCs, Lost, Titles
  <2> QED
    BY <1>3, <2>1, <2>2, <2>3, <2>4, <2>5, <2>6, <2>7, <2>8 DEF DeliveryMoves, DeliveryStep
<1>4. CASE UNCHANGED vars
  BY <1>4 DEF vars
<1> QED
  BY <1>1, <1>2, <1>3, <1>4, Kinds

LEMMA RestKept ==
  ASSUME RestOK, BackendsOK, ClaimOwned, [Next]_vars
  PROVE  RestOK'
<1> USE DEF RestOK, nativeVars, claimVars, callVars
<1>1. ASSUME NEW h \in Helpers, OwnerStep(h) \/ HelperStep(h) PROVE RestOK'
  <2>1. CASE RecordOwner(h)
    <3>1. b[h].session \in Sessions
      BY <2>1 DEF RecordOwner, ClaimOwned, Running, Lost
    <3> QED
      BY <2>1, <3>1 DEF RecordOwner
  <2>2. CASE StartObserver(h)
    BY <2>2 DEF StartObserver, Goto, Owner, Broken, Active
  <2>3. CASE FirstRoster(h)
    BY <2>3 DEF FirstRoster, Goto, Owner, ReadRoster, Broken, Active
  <2>4. CASE AwaitActor(h)
    BY <2>4 DEF AwaitActor, Goto, Owner, Broken, Active
  <2>5. CASE NameSettled(h)
    BY <2>5 DEF NameSettled, Goto, Owner, Active
  <2>6. CASE ApplyName(h)
    <3>1. b[h].session \in Sessions
      BY <2>6 DEF ApplyName, ClaimOwned
    <3>2. title' \in [Sessions -> Titles] /\ renames' \in [Sessions -> Nat]
      BY <2>6, <3>1 DEF ApplyName, Titles
    <3> QED
      BY <2>6, <3>2 DEF ApplyName
  <2>7. CASE NameFails(h)
    BY <2>7 DEF NameFails, Goto, Owner, Broken, Active
  <2>8. CASE Confirm(h)
    BY <2>8 DEF Confirm, Goto, Owner, ReadRoster, Broken, Active
  <2>9. CASE Complete(h)
    BY <2>9 DEF Complete, Goto, Active
  <2>10. CASE Connect(h)
    BY <2>10 DEF Connect, Goto, Owner, Active
  <2>11. CASE AwaitReady(h)
    BY <2>11 DEF AwaitReady, Goto, Owner, Broken, Active
  <2>12. CASE Serve(h)
    BY <2>12 DEF Serve, Goto, Owner, Broken, Active
  <2>13. CASE Reread(h)
    BY <2>13 DEF Reread, Goto, Owner, ReadRoster, Broken, Active
  <2>14. CASE Publish(h)
    BY <2>14 DEF Publish, Goto, Owner, Active
  <2>15. CASE Rehello(h)
    BY <2>15 DEF Rehello, Goto, Owner, Active
  <2>16. CASE Leave(h)
    BY <2>16 DEF Leave, Goto, Owner, Active
  <2>17. CASE LeaveBus(h)
    BY <2>17 DEF LeaveBus, Goto, Owner, Quit, Active
  <2>18. CASE Join(h)
    BY <2>18 DEF Join, Goto, Owner, Joined, Active
  <2>19. CASE ObserverCloses(h)
    BY <2>19 DEF ObserverCloses, Goto, Owner, Active
  <2>20. CASE ShutdownStops(h)
    BY <2>20 DEF ShutdownStops, Goto, Owner, Quit, Active
  <2>21. CASE ShutdownReturns(h)
    BY <2>21 DEF ShutdownReturns, Goto, Owner, Active
  <2>22. CASE Initialized(h)
    BY <2>22 DEF Initialized, Goto, Owner, Active
  <2>23. CASE Shutdown(h)
    BY <2>23 DEF Shutdown, Goto, Owner, Active
  <2>24. CASE LaunchEnds(h)
    BY <2>24 DEF LaunchEnds, Goto, Owner, Active
  <2>25. CASE Kill(h)
    BY <2>25 DEF Kill, Fresh, Active
  <2>26. CASE ObserverEnds(h)
    BY <2>26 DEF ObserverEnds, Goto, Owner, Active
  <2>27. CASE ReceiveChange(h)
    BY <2>27 DEF ReceiveChange, Goto, Owner, Active
  <2>28. CASE BusAdmits(h)
    BY <2>28 DEF BusAdmits, Goto, Owner, Active
  <2>29. CASE BusEnds(h)
    BY <2>29 DEF BusEnds, Goto, Owner, Active
  <2>30. ASSUME NEW s \in Sessions, ClaimName(h, s) PROVE RestOK'
    BY <2>30 DEF ClaimName, CanStart, Granted, Active
  <2> QED
    BY <1>1, <2>1, <2>2, <2>3, <2>4, <2>5, <2>6, <2>7, <2>8, <2>9, <2>10, <2>11, <2>12, <2>13,
       <2>14, <2>15, <2>16, <2>17, <2>18, <2>19, <2>20, <2>21, <2>22, <2>23, <2>24, <2>25, <2>26,
       <2>27, <2>28, <2>29, <2>30 DEF OwnerStep, HelperStep
<1>2. ASSUME NEW s \in Sessions, ActorLoads(s) \/ ActorEnds(s) \/ UserRenames(s) PROVE RestOK'
  <2>1. CASE ActorLoads(s)
    BY <2>1 DEF ActorLoads, Announced, Active
  <2>2. CASE ActorEnds(s)
    BY <2>2 DEF ActorEnds, Announced, Active
  <2>3. CASE UserRenames(s)
    <3>1. edits' \in 0..MaxEdits
      BY <2>3, PeerAssumption DEF UserRenames
    <3>2. title' \in [Sessions -> Titles]
      BY <2>3 DEF UserRenames
    <3> QED
      BY <2>3, <3>1, <3>2 DEF UserRenames
  <2> QED
    BY <1>2, <2>1, <2>2, <2>3
<1>3. ASSUME NEW m \in Messages, DeliveryMoves(m) PROVE RestOK'
  <2>1. CASE WaitReady(m)
    BY <2>1 DEF WaitReady, Wait, Return, Settled, Unavailable, Active
  <2>2. CASE TakeGate(m)
    BY <2>2 DEF TakeGate, Wait, Return, Active
  <2>3. CASE Interject(m)
    BY <2>3 DEF Interject, Wait, Return, Active
  <2>4. CASE InterjectFails(m)
    BY <2>4 DEF InterjectFails, Wait, Return, Active
  <2>5. CASE InterjectAnswered(m)
    BY <2>5 DEF InterjectAnswered, Wait, Return, Active
  <2>6. CASE Expires(m)
    BY <2>6 DEF Expires, Active
  <2>7. CASE CancelCaller(m)
    BY <2>7 DEF CancelCaller, Active
  <2>8. ASSUME NEW h \in Helpers, DeliverOwned(m, h) PROVE RestOK'
    BY <2>8 DEF DeliverOwned, Active
  <2> QED
    BY <1>3, <2>1, <2>2, <2>3, <2>4, <2>5, <2>6, <2>7, <2>8 DEF DeliveryMoves, DeliveryStep
<1>4. CASE UNCHANGED vars
  BY <1>4 DEF vars
<1> QED
  BY <1>1, <1>2, <1>3, <1>4, Kinds

-----------------------------------------------------------------------------
(* The claim and the name.                                                 *)

LEMMA ApplyNameConfirms ==
  ASSUME BackendsOK, NEW h \in Helpers, ApplyName(h)
  PROVE  b'[h].pc = "confirm"
<1>1. DOMAIN Announced = Helpers /\ Announced[h] = [b[h] EXCEPT !.notice = @ \/ b[h].observer = "up"]
  BY DEF Announced
<1>2. b[h] \in Backend
  BY DEF BackendsOK
<1>3. "pc" \in DOMAIN Announced[h]
  BY <1>1, <1>2 DEF Backend
<1>4. b' = [Announced EXCEPT ![h].pc = "confirm"]
  BY DEF ApplyName
<1> QED
  BY <1>1, <1>3, <1>4

LEMMA ClaimOwnedKept ==
  ASSUME RestOK, BackendsOK, ClaimOwned, [Next]_vars
  PROVE  ClaimOwned'
<1> USE DEF BackendsOK, RestOK, ClaimOwned, Running, Lost, nativeVars, claimVars, callVars
<1>1. ASSUME NEW h \in Helpers, OwnerStep(h) \/ HelperStep(h) PROVE ClaimOwned'
  <2>1. CASE RecordOwner(h)
    <3>1. b[h].pc = "claiming" /\ claim = "torn" /\ claim \notin Sessions
      BY <2>1, PeerAssumption DEF RecordOwner
    <3>2. \A g \in Helpers : ~b[g].requested /\ (b[g].pc = "claiming" => g = h)
      BY <3>1
    <3>3. /\ b'[h].pc = "new" /\ b'[h].session = b[h].session /\ b[h].session \in Sessions
          /\ b'[h].requested => claim' = b[h].session
          /\ \A g \in Helpers \ {h} : b'[g] = b[g]
      BY <2>1, <3>1, <3>2 DEF RecordOwner, Backend
    <3> QED
      BY <3>1, <3>2, <3>3
  <2>2. CASE StartObserver(h)
    BY <2>2, SMTT(60) DEF StartObserver, Goto, Owner, Broken, Backend
  <2>3. CASE FirstRoster(h)
    BY <2>3, SMTT(60) DEF FirstRoster, Goto, Owner, ReadRoster, Broken, Backend
  <2>4. CASE AwaitActor(h)
    BY <2>4, SMTT(60) DEF AwaitActor, Goto, Owner, Broken, Backend
  <2>5. CASE NameSettled(h)
    BY <2>5 DEF NameSettled, Goto, Owner, Backend
  <2>6. CASE ApplyName(h)
    <3>1. /\ UNCHANGED <<claim, completed>>
          /\ \A g \in Helpers : b'[g].requested = b[g].requested /\ b'[g].session = b[g].session
          /\ \A g \in Helpers \ {h} : b'[g].pc = b[g].pc
      BY <2>6 DEF ApplyName, Goto, Owner, Announced, Broken, Backend
    <3>2. b[h].pc = "name" /\ b[h].requested
      BY <2>6 DEF ApplyName
    <3>3. b'[h].pc = "confirm"
      BY <2>6, ApplyNameConfirms DEF ApplyName
    <3> QED
      BY <2>6, <3>1, <3>2, <3>3
  <2>7. CASE NameFails(h)
    BY <2>7 DEF NameFails, Goto, Owner, Broken, Backend
  <2>8. CASE Confirm(h)
    BY <2>8, SMTT(60) DEF Confirm, Goto, Owner, ReadRoster, Broken, Backend
  <2>9. CASE Complete(h)
    BY <2>9 DEF Complete, Goto, Backend
  <2>10. CASE Connect(h)
    BY <2>10 DEF Connect, Goto, Owner, Backend
  <2>11. CASE AwaitReady(h)
    <3>1. /\ UNCHANGED <<claim, completed>>
          /\ \A g \in Helpers : b'[g].requested = b[g].requested /\ b'[g].session = b[g].session
          /\ \A g \in Helpers \ {h} : b'[g].pc = b[g].pc
      BY <2>11, SMTT(60) DEF AwaitReady, Goto, Owner, Broken, Backend
    <3>2. b'[h].pc \in {"serve", "leave"} /\ b[h].pc = "await"
      BY <2>11 DEF AwaitReady, Goto, Owner, Broken, Backend
    <3> QED
      BY <2>11, <3>1, <3>2
  <2>12. CASE Serve(h)
    BY <2>12, SMTT(60) DEF Serve, Goto, Owner, Broken, Backend
  <2>13. CASE Reread(h)
    BY <2>13 DEF Reread, Goto, Owner, ReadRoster, Broken, Backend
  <2>14. CASE Publish(h)
    BY <2>14 DEF Publish, Goto, Owner, Backend
  <2>15. CASE Rehello(h)
    BY <2>15, SMTT(60) DEF Rehello, Goto, Owner, Backend
  <2>16. CASE Leave(h)
    BY <2>16 DEF Leave, Goto, Owner, Backend
  <2>17. CASE LeaveBus(h)
    BY <2>17 DEF LeaveBus, Goto, Owner, Quit, Backend
  <2>18. CASE Join(h)
    BY <2>18 DEF Join, Goto, Owner, Joined, Backend
  <2>19. CASE ObserverCloses(h)
    BY <2>19 DEF ObserverCloses, Goto, Owner, Backend
  <2>20. CASE ShutdownStops(h)
    BY <2>20 DEF ShutdownStops, Goto, Owner, Quit, Backend
  <2>21. CASE ShutdownReturns(h)
    BY <2>21 DEF ShutdownReturns, Goto, Owner, Backend
  <2>22. CASE Initialized(h)
    BY <2>22 DEF Initialized, Goto, Owner, Backend
  <2>23. CASE Shutdown(h)
    BY <2>23 DEF Shutdown, Goto, Owner, Backend
  <2>24. CASE LaunchEnds(h)
    BY <2>24 DEF LaunchEnds, Goto, Owner, Backend
  <2>25. CASE Kill(h)
    BY <2>25 DEF Kill, Fresh, Backend
  <2>26. CASE ObserverEnds(h)
    BY <2>26 DEF ObserverEnds, Goto, Owner, Backend
  <2>27. CASE ReceiveChange(h)
    BY <2>27 DEF ReceiveChange, Goto, Owner, Backend
  <2>28. CASE BusAdmits(h)
    BY <2>28 DEF BusAdmits, Goto, Owner, Backend
  <2>29. CASE BusEnds(h)
    BY <2>29 DEF BusEnds, Goto, Owner, Backend
  <2>30. ASSUME NEW s \in Sessions, ClaimName(h, s) PROVE ClaimOwned'
    BY <2>30 DEF ClaimName, CanStart, Granted, Backend
  <2> QED
    BY <1>1, <2>1, <2>2, <2>3, <2>4, <2>5, <2>6, <2>7, <2>8, <2>9, <2>10, <2>11, <2>12, <2>13,
       <2>14, <2>15, <2>16, <2>17, <2>18, <2>19, <2>20, <2>21, <2>22, <2>23, <2>24, <2>25, <2>26,
       <2>27, <2>28, <2>29, <2>30 DEF OwnerStep, HelperStep
<1>2. ASSUME NEW s \in Sessions, ActorLoads(s) \/ ActorEnds(s) \/ UserRenames(s) PROVE ClaimOwned'
  <2>1. CASE ActorLoads(s)
    <3>1. /\ UNCHANGED claim /\ UNCHANGED completed
          /\ \A g \in Helpers : b'[g].requested = b[g].requested /\ b'[g].session = b[g].session
                                /\ b'[g].pc = b[g].pc
      BY <2>1 DEF ActorLoads, Announced, Backend
    <3> QED
      BY <3>1
  <2>2. CASE ActorEnds(s)
    <3>1. /\ UNCHANGED claim /\ UNCHANGED completed
          /\ \A g \in Helpers : b'[g].requested = b[g].requested /\ b'[g].session = b[g].session
                                /\ b'[g].pc = b[g].pc
      BY <2>2 DEF ActorEnds, Announced, Backend
    <3> QED
      BY <3>1
  <2>3. CASE UserRenames(s)
    <3>1. /\ UNCHANGED claim /\ UNCHANGED completed
          /\ \A g \in Helpers : b'[g].requested = b[g].requested /\ b'[g].session = b[g].session
                                /\ b'[g].pc = b[g].pc
      BY <2>3 DEF UserRenames, Announced, Backend
    <3> QED
      BY <3>1
  <2> QED
    BY <1>2, <2>1, <2>2, <2>3
<1>3. ASSUME NEW m \in Messages, DeliveryMoves(m) PROVE ClaimOwned'
  <2>1. CASE WaitReady(m)
    <3>1. /\ UNCHANGED claim /\ UNCHANGED completed
          /\ \A g \in Helpers : b'[g].requested = b[g].requested /\ b'[g].session = b[g].session
                                /\ b'[g].pc = b[g].pc
      BY <2>1 DEF WaitReady, Return, Backend
    <3> QED
      BY <3>1
  <2>2. CASE TakeGate(m)
    <3>1. /\ UNCHANGED claim /\ UNCHANGED completed
          /\ \A g \in Helpers : b'[g].requested = b[g].requested /\ b'[g].session = b[g].session
                                /\ b'[g].pc = b[g].pc
      BY <2>2 DEF TakeGate, Wait, Return, Backend
    <3> QED
      BY <3>1
  <2>3. CASE Interject(m)
    <3>1. /\ UNCHANGED claim /\ UNCHANGED completed
          /\ \A g \in Helpers : b'[g].requested = b[g].requested /\ b'[g].session = b[g].session
                                /\ b'[g].pc = b[g].pc
      BY <2>3 DEF Interject, Wait, Return, Backend
    <3> QED
      BY <3>1
  <2>4. CASE InterjectFails(m)
    <3>1. /\ UNCHANGED claim /\ UNCHANGED completed
          /\ \A g \in Helpers : b'[g].requested = b[g].requested /\ b'[g].session = b[g].session
                                /\ b'[g].pc = b[g].pc
      BY <2>4 DEF InterjectFails, Wait, Return, Backend
    <3> QED
      BY <3>1
  <2>5. CASE InterjectAnswered(m)
    <3>1. /\ UNCHANGED claim /\ UNCHANGED completed
          /\ \A g \in Helpers : b'[g].requested = b[g].requested /\ b'[g].session = b[g].session
                                /\ b'[g].pc = b[g].pc
      BY <2>5 DEF InterjectAnswered, Wait, Return, Backend
    <3> QED
      BY <3>1
  <2>6. CASE Expires(m)
    <3>1. /\ UNCHANGED claim /\ UNCHANGED completed
          /\ \A g \in Helpers : b'[g].requested = b[g].requested /\ b'[g].session = b[g].session
                                /\ b'[g].pc = b[g].pc
      BY <2>6 DEF Expires, Backend
    <3> QED
      BY <3>1
  <2>7. CASE CancelCaller(m)
    <3>1. /\ UNCHANGED claim /\ UNCHANGED completed
          /\ \A g \in Helpers : b'[g].requested = b[g].requested /\ b'[g].session = b[g].session
                                /\ b'[g].pc = b[g].pc
      BY <2>7 DEF CancelCaller, Backend
    <3> QED
      BY <3>1
  <2>8. ASSUME NEW h \in Helpers, DeliverOwned(m, h) PROVE ClaimOwned'
    <3>1. /\ UNCHANGED claim /\ UNCHANGED completed
          /\ \A g \in Helpers : b'[g].requested = b[g].requested /\ b'[g].session = b[g].session
                                /\ b'[g].pc = b[g].pc
      BY <2>8 DEF DeliverOwned, Backend
    <3> QED
      BY <3>1
  <2> QED
    BY <1>3, <2>1, <2>2, <2>3, <2>4, <2>5, <2>6, <2>7, <2>8 DEF DeliveryMoves, DeliveryStep
<1>4. CASE UNCHANGED vars
  BY <1>4 DEF vars
<1> QED
  BY <1>1, <1>2, <1>3, <1>4, Kinds

LEMMA OneRunsKept ==
  ASSUME RestOK, BackendsOK, ClaimOwned, OneRuns, [Next]_vars
  PROVE  OneRuns'
<1> USE DEF BackendsOK, OneRuns, Running, Lost, nativeVars, claimVars, callVars
<1>1. ASSUME NEW h \in Helpers, OwnerStep(h) \/ HelperStep(h) PROVE OneRuns'
  <2>1. CASE RecordOwner(h)
    BY <2>1 DEF RecordOwner, Backend
  <2>2. CASE StartObserver(h)
    BY <2>2 DEF StartObserver, Goto, Owner, Broken, Backend
  <2>3. CASE FirstRoster(h)
    BY <2>3 DEF FirstRoster, Goto, Owner, ReadRoster, Broken, Backend
  <2>4. CASE AwaitActor(h)
    BY <2>4 DEF AwaitActor, Goto, Owner, Broken, Backend
  <2>5. CASE NameSettled(h)
    BY <2>5 DEF NameSettled, Goto, Owner, Backend
  <2>6. CASE ApplyName(h)
    <3>1. /\ UNCHANGED <<claim, completed>>
          /\ \A g \in Helpers : b'[g].requested = b[g].requested /\ b'[g].session = b[g].session
          /\ \A g \in Helpers \ {h} : b'[g].pc = b[g].pc
      BY <2>6 DEF ApplyName, Goto, Owner, Announced, Broken, Backend
    <3>2. b'[h].pc = "confirm" /\ b[h].pc = "name" /\ b[h].requested
      BY <2>6 DEF ApplyName, Goto, Owner, Announced, Broken, Backend
    <3> QED
      BY <2>6, <3>1, <3>2
  <2>7. CASE NameFails(h)
    BY <2>7 DEF NameFails, Goto, Owner, Broken, Backend
  <2>8. CASE Confirm(h)
    BY <2>8 DEF Confirm, Goto, Owner, ReadRoster, Broken, Backend
  <2>9. CASE Complete(h)
    BY <2>9 DEF Complete, Goto, Backend
  <2>10. CASE Connect(h)
    BY <2>10 DEF Connect, Goto, Owner, Backend
  <2>11. CASE AwaitReady(h)
    <3>1. /\ UNCHANGED <<claim, completed>>
          /\ \A g \in Helpers : b'[g].requested = b[g].requested /\ b'[g].session = b[g].session
          /\ \A g \in Helpers \ {h} : b'[g].pc = b[g].pc
      BY <2>11 DEF AwaitReady, Goto, Owner, Broken, Backend
    <3>2. b'[h].pc \in {"serve", "leave"} /\ b[h].pc = "await"
      BY <2>11 DEF AwaitReady, Goto, Owner, Broken, Backend
    <3> QED
      BY <2>11, <3>1, <3>2
  <2>12. CASE Serve(h)
    BY <2>12 DEF Serve, Goto, Owner, Broken, Backend
  <2>13. CASE Reread(h)
    BY <2>13 DEF Reread, Goto, Owner, ReadRoster, Broken, Backend
  <2>14. CASE Publish(h)
    BY <2>14 DEF Publish, Goto, Owner, Backend
  <2>15. CASE Rehello(h)
    BY <2>15 DEF Rehello, Goto, Owner, Backend
  <2>16. CASE Leave(h)
    BY <2>16 DEF Leave, Goto, Owner, Backend
  <2>17. CASE LeaveBus(h)
    BY <2>17 DEF LeaveBus, Goto, Owner, Quit, Backend
  <2>18. CASE Join(h)
    BY <2>18 DEF Join, Goto, Owner, Joined, Backend
  <2>19. CASE ObserverCloses(h)
    BY <2>19 DEF ObserverCloses, Goto, Owner, Backend
  <2>20. CASE ShutdownStops(h)
    BY <2>20 DEF ShutdownStops, Goto, Owner, Quit, Backend
  <2>21. CASE ShutdownReturns(h)
    BY <2>21 DEF ShutdownReturns, Goto, Owner, Backend
  <2>22. CASE Initialized(h)
    BY <2>22 DEF Initialized, Goto, Owner, Backend
  <2>23. CASE Shutdown(h)
    BY <2>23 DEF Shutdown, Goto, Owner, Backend
  <2>24. CASE LaunchEnds(h)
    BY <2>24 DEF LaunchEnds, Goto, Owner, Backend
  <2>25. CASE Kill(h)
    BY <2>25 DEF Kill, Fresh, Backend
  <2>26. CASE ObserverEnds(h)
    BY <2>26 DEF ObserverEnds, Goto, Owner, Backend
  <2>27. CASE ReceiveChange(h)
    BY <2>27 DEF ReceiveChange, Goto, Owner, Backend
  <2>28. CASE BusAdmits(h)
    BY <2>28 DEF BusAdmits, Goto, Owner, Backend
  <2>29. CASE BusEnds(h)
    BY <2>29 DEF BusEnds, Goto, Owner, Backend
  <2>30. ASSUME NEW s \in Sessions, ClaimName(h, s) PROVE OneRuns'
    BY <2>30 DEF ClaimName, CanStart, Granted, Backend
  <2> QED
    BY <1>1, <2>1, <2>2, <2>3, <2>4, <2>5, <2>6, <2>7, <2>8, <2>9, <2>10, <2>11, <2>12, <2>13,
       <2>14, <2>15, <2>16, <2>17, <2>18, <2>19, <2>20, <2>21, <2>22, <2>23, <2>24, <2>25, <2>26,
       <2>27, <2>28, <2>29, <2>30 DEF OwnerStep, HelperStep
<1>2. ASSUME NEW s \in Sessions, ActorLoads(s) \/ ActorEnds(s) \/ UserRenames(s) PROVE OneRuns'
  <2>1. CASE ActorLoads(s)
    BY <2>1 DEF ActorLoads, Announced, Backend
  <2>2. CASE ActorEnds(s)
    BY <2>2 DEF ActorEnds, Announced, Backend
  <2>3. CASE UserRenames(s)
    BY <2>3 DEF UserRenames, Announced, Backend
  <2> QED
    BY <1>2, <2>1, <2>2, <2>3
<1>3. ASSUME NEW m \in Messages, DeliveryMoves(m) PROVE OneRuns'
  <2>1. CASE WaitReady(m)
    <3>1. /\ UNCHANGED claim /\ UNCHANGED completed
          /\ \A g \in Helpers : b'[g].requested = b[g].requested /\ b'[g].session = b[g].session
                                /\ b'[g].pc = b[g].pc
      BY <2>1 DEF WaitReady, Return, Backend
    <3> QED
      BY <3>1
  <2>2. CASE TakeGate(m)
    BY <2>2 DEF TakeGate, Wait, Return, Backend
  <2>3. CASE Interject(m)
    BY <2>3 DEF Interject, Wait, Return, Backend
  <2>4. CASE InterjectFails(m)
    BY <2>4 DEF InterjectFails, Wait, Return, Backend
  <2>5. CASE InterjectAnswered(m)
    BY <2>5 DEF InterjectAnswered, Wait, Return, Backend
  <2>6. CASE Expires(m)
    BY <2>6 DEF Expires, Backend
  <2>7. CASE CancelCaller(m)
    BY <2>7 DEF CancelCaller, Backend
  <2>8. ASSUME NEW h \in Helpers, DeliverOwned(m, h) PROVE OneRuns'
    BY <2>8 DEF DeliverOwned, Backend
  <2> QED
    BY <1>3, <2>1, <2>2, <2>3, <2>4, <2>5, <2>6, <2>7, <2>8 DEF DeliveryMoves, DeliveryStep
<1>4. CASE UNCHANGED vars
  BY <1>4 DEF vars
<1> QED
  BY <1>1, <1>2, <1>3, <1>4, Kinds

LEMMA CompletedLastKept ==
  ASSUME RestOK, BackendsOK, ClaimOwned, OneRuns, CompletedLast, [Next]_vars
  PROVE  CompletedLast'
<1> USE DEF BackendsOK, RestOK, CompletedLast, Running, Lost, After, nativeVars, claimVars, callVars
<1>1. ASSUME NEW h \in Helpers, OwnerStep(h) \/ HelperStep(h) PROVE CompletedLast'
  <2>1. CASE RecordOwner(h)
    <3>1. claim \notin Sessions /\ UNCHANGED completed
      BY <2>1, PeerAssumption DEF RecordOwner, ClaimOwned
    <3> QED
      BY <3>1
  <2>2. CASE StartObserver(h)
    BY <2>2 DEF StartObserver, Goto, Owner, Broken, Backend
  <2>3. CASE FirstRoster(h)
    BY <2>3 DEF FirstRoster, Goto, Owner, ReadRoster, Broken, Backend
  <2>4. CASE AwaitActor(h)
    BY <2>4 DEF AwaitActor, Goto, Owner, Broken, Backend
  <2>5. CASE NameSettled(h)
    BY <2>5 DEF NameSettled, Goto, Owner, Backend
  <2>6. CASE ApplyName(h)
    BY <2>6 DEF ApplyName, Goto, Owner, Announced, Broken, Backend
  <2>7. CASE NameFails(h)
    BY <2>7 DEF NameFails, Goto, Owner, Broken, Backend
  <2>8. CASE Confirm(h)
    BY <2>8, SMTT(60) DEF Confirm, Goto, Owner, ReadRoster, Broken, Backend
  <2>9. CASE Complete(h)
    <3>1. b[h].requested /\ claim = b[h].session /\ claim \in Sessions /\ Running(h)
      BY <2>9 DEF Complete, ClaimOwned
    <3>2. \A g \in Helpers : Running(g) /\ b[g].requested => g = h
      BY <3>1 DEF ClaimOwned, OneRuns
    <3>3. /\ UNCHANGED claim /\ b'[h].pc = "connect"
          /\ \A g \in Helpers \ {h} : b'[g] = b[g]
      BY <2>9 DEF Complete, Goto, Backend
    <3> QED
      BY <3>1, <3>2, <3>3
  <2>10. CASE Connect(h)
    BY <2>10 DEF Connect, Goto, Owner, Backend
  <2>11. CASE AwaitReady(h)
    BY <2>11 DEF AwaitReady, Goto, Owner, Broken, Backend
  <2>12. CASE Serve(h)
    BY <2>12 DEF Serve, Goto, Owner, Broken, Backend
  <2>13. CASE Reread(h)
    BY <2>13 DEF Reread, Goto, Owner, ReadRoster, Broken, Backend
  <2>14. CASE Publish(h)
    BY <2>14 DEF Publish, Goto, Owner, Backend
  <2>15. CASE Rehello(h)
    BY <2>15 DEF Rehello, Goto, Owner, Backend
  <2>16. CASE Leave(h)
    BY <2>16 DEF Leave, Goto, Owner, Backend
  <2>17. CASE LeaveBus(h)
    BY <2>17 DEF LeaveBus, Goto, Owner, Quit, Backend
  <2>18. CASE Join(h)
    BY <2>18 DEF Join, Goto, Owner, Joined, Backend
  <2>19. CASE ObserverCloses(h)
    BY <2>19 DEF ObserverCloses, Goto, Owner, Backend
  <2>20. CASE ShutdownStops(h)
    BY <2>20 DEF ShutdownStops, Goto, Owner, Quit, Backend
  <2>21. CASE ShutdownReturns(h)
    BY <2>21 DEF ShutdownReturns, Goto, Owner, Backend
  <2>22. CASE Initialized(h)
    BY <2>22 DEF Initialized, Goto, Owner, Backend
  <2>23. CASE Shutdown(h)
    BY <2>23 DEF Shutdown, Goto, Owner, Backend
  <2>24. CASE LaunchEnds(h)
    BY <2>24 DEF LaunchEnds, Goto, Owner, Backend
  <2>25. CASE Kill(h)
    BY <2>25 DEF Kill, Fresh, Backend
  <2>26. CASE ObserverEnds(h)
    BY <2>26 DEF ObserverEnds, Goto, Owner, Backend
  <2>27. CASE ReceiveChange(h)
    BY <2>27 DEF ReceiveChange, Goto, Owner, Backend
  <2>28. CASE BusAdmits(h)
    BY <2>28 DEF BusAdmits, Goto, Owner, Backend
  <2>29. CASE BusEnds(h)
    BY <2>29 DEF BusEnds, Goto, Owner, Backend
  <2>30. ASSUME NEW s \in Sessions, ClaimName(h, s) PROVE CompletedLast'
    BY <2>30 DEF ClaimName, CanStart, Granted, Backend
  <2> QED
    BY <1>1, <2>1, <2>2, <2>3, <2>4, <2>5, <2>6, <2>7, <2>8, <2>9, <2>10, <2>11, <2>12, <2>13,
       <2>14, <2>15, <2>16, <2>17, <2>18, <2>19, <2>20, <2>21, <2>22, <2>23, <2>24, <2>25, <2>26,
       <2>27, <2>28, <2>29, <2>30 DEF OwnerStep, HelperStep
<1>2. ASSUME NEW s \in Sessions, ActorLoads(s) \/ ActorEnds(s) \/ UserRenames(s)
      PROVE CompletedLast'
  <2>1. CASE ActorLoads(s)
    BY <2>1 DEF ActorLoads, Announced, Backend
  <2>2. CASE ActorEnds(s)
    BY <2>2 DEF ActorEnds, Announced, Backend
  <2>3. CASE UserRenames(s)
    BY <2>3 DEF UserRenames, Announced, Backend
  <2> QED
    BY <1>2, <2>1, <2>2, <2>3
<1>3. ASSUME NEW m \in Messages, DeliveryMoves(m) PROVE CompletedLast'
  <2>1. CASE WaitReady(m)
    <3>1. /\ UNCHANGED claim /\ UNCHANGED completed
          /\ \A g \in Helpers : b'[g].requested = b[g].requested /\ b'[g].session = b[g].session
                                /\ b'[g].pc = b[g].pc
      BY <2>1, SMTT(60) DEF WaitReady, Return, Backend
    <3> QED
      BY <3>1
  <2>2. CASE TakeGate(m)
    BY <2>2, SMTT(60) DEF TakeGate, Wait, Return, Backend
  <2>3. CASE Interject(m)
    BY <2>3 DEF Interject, Wait, Return, Backend
  <2>4. CASE InterjectFails(m)
    BY <2>4 DEF InterjectFails, Wait, Return, Backend
  <2>5. CASE InterjectAnswered(m)
    BY <2>5, SMTT(60) DEF InterjectAnswered, Wait, Return, Backend
  <2>6. CASE Expires(m)
    BY <2>6 DEF Expires, Backend
  <2>7. CASE CancelCaller(m)
    BY <2>7 DEF CancelCaller, Backend
  <2>8. ASSUME NEW h \in Helpers, DeliverOwned(m, h) PROVE CompletedLast'
    BY <2>8 DEF DeliverOwned, Backend
  <2> QED
    BY <1>3, <2>1, <2>2, <2>3, <2>4, <2>5, <2>6, <2>7, <2>8 DEF DeliveryMoves, DeliveryStep
<1>4. CASE UNCHANGED vars
  BY <1>4 DEF vars
<1> QED
  BY <1>1, <1>2, <1>3, <1>4, Kinds

LEMMA NamedOwnerKept ==
  ASSUME RestOK, BackendsOK, ClaimOwned, OnlyOwnerNamed, [Next]_vars
  PROVE  OnlyOwnerNamed'
<1> USE DEF RestOK, OnlyOwnerNamed, nativeVars, claimVars, callVars
<1>1. ASSUME NEW h \in Helpers, OwnerStep(h) \/ HelperStep(h) PROVE OnlyOwnerNamed'
  <2>1. CASE RecordOwner(h)
    <3>1. claim \notin Sessions /\ UNCHANGED renames
      BY <2>1, PeerAssumption DEF RecordOwner, ClaimOwned
    <3> QED
      BY <3>1
  <2>2. CASE StartObserver(h)
    BY <2>2 DEF StartObserver, Goto, Owner, Broken
  <2>3. CASE FirstRoster(h)
    BY <2>3 DEF FirstRoster, Goto, Owner, ReadRoster, Broken
  <2>4. CASE AwaitActor(h)
    BY <2>4 DEF AwaitActor, Goto, Owner, Broken
  <2>5. CASE NameSettled(h)
    BY <2>5 DEF NameSettled, Goto, Owner
  <2>6. CASE ApplyName(h)
    <3>1. claim = b[h].session /\ claim' = claim
      BY <2>6 DEF ApplyName, ClaimOwned
    <3>2. \A s \in Sessions : s # b[h].session => renames'[s] = renames[s]
      BY <2>6 DEF ApplyName
    <3> QED
      BY <3>1, <3>2
  <2>7. CASE NameFails(h)
    BY <2>7 DEF NameFails, Goto, Owner, Broken
  <2>8. CASE Confirm(h)
    BY <2>8 DEF Confirm, Goto, Owner, ReadRoster, Broken
  <2>9. CASE Complete(h)
    BY <2>9 DEF Complete, Goto
  <2>10. CASE Connect(h)
    BY <2>10 DEF Connect, Goto, Owner
  <2>11. CASE AwaitReady(h)
    BY <2>11 DEF AwaitReady, Goto, Owner, Broken
  <2>12. CASE Serve(h)
    BY <2>12 DEF Serve, Goto, Owner, Broken
  <2>13. CASE Reread(h)
    BY <2>13 DEF Reread, Goto, Owner, ReadRoster, Broken
  <2>14. CASE Publish(h)
    BY <2>14 DEF Publish, Goto, Owner
  <2>15. CASE Rehello(h)
    BY <2>15 DEF Rehello, Goto, Owner
  <2>16. CASE Leave(h)
    BY <2>16 DEF Leave, Goto, Owner
  <2>17. CASE LeaveBus(h)
    BY <2>17 DEF LeaveBus, Goto, Owner, Quit
  <2>18. CASE Join(h)
    BY <2>18 DEF Join, Goto, Owner, Joined
  <2>19. CASE ObserverCloses(h)
    BY <2>19 DEF ObserverCloses, Goto, Owner
  <2>20. CASE ShutdownStops(h)
    BY <2>20 DEF ShutdownStops, Goto, Owner, Quit
  <2>21. CASE ShutdownReturns(h)
    BY <2>21 DEF ShutdownReturns, Goto, Owner
  <2>22. CASE Initialized(h)
    BY <2>22 DEF Initialized, Goto, Owner
  <2>23. CASE Shutdown(h)
    BY <2>23 DEF Shutdown, Goto, Owner
  <2>24. CASE LaunchEnds(h)
    BY <2>24 DEF LaunchEnds, Goto, Owner
  <2>25. CASE Kill(h)
    BY <2>25 DEF Kill, Fresh
  <2>26. CASE ObserverEnds(h)
    BY <2>26 DEF ObserverEnds, Goto, Owner
  <2>27. CASE ReceiveChange(h)
    BY <2>27 DEF ReceiveChange, Goto, Owner
  <2>28. CASE BusAdmits(h)
    BY <2>28 DEF BusAdmits, Goto, Owner
  <2>29. CASE BusEnds(h)
    BY <2>29 DEF BusEnds, Goto, Owner
  <2>30. ASSUME NEW s \in Sessions, ClaimName(h, s) PROVE OnlyOwnerNamed'
    BY <2>30, PeerAssumption DEF ClaimName, CanStart, Granted
  <2> QED
    BY <1>1, <2>1, <2>2, <2>3, <2>4, <2>5, <2>6, <2>7, <2>8, <2>9, <2>10, <2>11, <2>12, <2>13,
       <2>14, <2>15, <2>16, <2>17, <2>18, <2>19, <2>20, <2>21, <2>22, <2>23, <2>24, <2>25, <2>26,
       <2>27, <2>28, <2>29, <2>30 DEF OwnerStep, HelperStep
<1>2. ASSUME NEW s \in Sessions, ActorLoads(s) \/ ActorEnds(s) \/ UserRenames(s)
      PROVE OnlyOwnerNamed'
  <2>1. CASE ActorLoads(s)
    BY <2>1 DEF ActorLoads, Announced
  <2>2. CASE ActorEnds(s)
    BY <2>2 DEF ActorEnds, Announced
  <2>3. CASE UserRenames(s)
    BY <2>3 DEF UserRenames, Announced
  <2> QED
    BY <1>2, <2>1, <2>2, <2>3
<1>3. ASSUME NEW m \in Messages, DeliveryMoves(m) PROVE OnlyOwnerNamed'
  <2>1. CASE WaitReady(m)
    BY <2>1 DEF WaitReady, Wait, Return, Settled, Unavailable
  <2>2. CASE TakeGate(m)
    BY <2>2 DEF TakeGate, Wait, Return
  <2>3. CASE Interject(m)
    BY <2>3 DEF Interject, Wait, Return
  <2>4. CASE InterjectFails(m)
    BY <2>4 DEF InterjectFails, Wait, Return
  <2>5. CASE InterjectAnswered(m)
    BY <2>5 DEF InterjectAnswered, Wait, Return
  <2>6. CASE Expires(m)
    BY <2>6 DEF Expires
  <2>7. CASE CancelCaller(m)
    BY <2>7 DEF CancelCaller
  <2>8. ASSUME NEW h \in Helpers, DeliverOwned(m, h) PROVE OnlyOwnerNamed'
    BY <2>8 DEF DeliverOwned
  <2> QED
    BY <1>3, <2>1, <2>2, <2>3, <2>4, <2>5, <2>6, <2>7, <2>8 DEF DeliveryMoves, DeliveryStep
<1>4. CASE UNCHANGED vars
  BY <1>4 DEF vars
<1> QED
  BY <1>1, <1>2, <1>3, <1>4, Kinds

LEMMA NameFinalHolds ==
  ASSUME RestOK, BackendsOK, ClaimOwned, CompletedLast, [Next]_vars
  PROVE  (completed => UNCHANGED renames)
<1> USE DEF RestOK, nativeVars, claimVars, callVars
<1>1. ASSUME NEW h \in Helpers, OwnerStep(h) \/ HelperStep(h) PROVE (completed => UNCHANGED renames)
  <2>1. CASE RecordOwner(h)
    BY <2>1 DEF RecordOwner
  <2>2. CASE StartObserver(h)
    BY <2>2 DEF StartObserver, Goto, Owner, Broken
  <2>3. CASE FirstRoster(h)
    BY <2>3 DEF FirstRoster, Goto, Owner, ReadRoster, Broken
  <2>4. CASE AwaitActor(h)
    BY <2>4 DEF AwaitActor, Goto, Owner, Broken
  <2>5. CASE NameSettled(h)
    BY <2>5 DEF NameSettled, Goto, Owner
  <2>6. CASE ApplyName(h)
    <3>1. Running(h) /\ b[h].requested /\ b[h].pc = "name"
      BY <2>6 DEF ApplyName, Running, Lost
    <3> QED
      BY <3>1 DEF CompletedLast, After
  <2>7. CASE NameFails(h)
    BY <2>7 DEF NameFails, Goto, Owner, Broken
  <2>8. CASE Confirm(h)
    BY <2>8 DEF Confirm, Goto, Owner, ReadRoster, Broken
  <2>9. CASE Complete(h)
    BY <2>9 DEF Complete, Goto
  <2>10. CASE Connect(h)
    BY <2>10 DEF Connect, Goto, Owner
  <2>11. CASE AwaitReady(h)
    BY <2>11 DEF AwaitReady, Goto, Owner, Broken
  <2>12. CASE Serve(h)
    BY <2>12 DEF Serve, Goto, Owner, Broken
  <2>13. CASE Reread(h)
    BY <2>13 DEF Reread, Goto, Owner, ReadRoster, Broken
  <2>14. CASE Publish(h)
    BY <2>14 DEF Publish, Goto, Owner
  <2>15. CASE Rehello(h)
    BY <2>15 DEF Rehello, Goto, Owner
  <2>16. CASE Leave(h)
    BY <2>16 DEF Leave, Goto, Owner
  <2>17. CASE LeaveBus(h)
    BY <2>17 DEF LeaveBus, Goto, Owner, Quit
  <2>18. CASE Join(h)
    BY <2>18 DEF Join, Goto, Owner, Joined
  <2>19. CASE ObserverCloses(h)
    BY <2>19 DEF ObserverCloses, Goto, Owner
  <2>20. CASE ShutdownStops(h)
    BY <2>20 DEF ShutdownStops, Goto, Owner, Quit
  <2>21. CASE ShutdownReturns(h)
    BY <2>21 DEF ShutdownReturns, Goto, Owner
  <2>22. CASE Initialized(h)
    BY <2>22 DEF Initialized, Goto, Owner
  <2>23. CASE Shutdown(h)
    BY <2>23 DEF Shutdown, Goto, Owner
  <2>24. CASE LaunchEnds(h)
    BY <2>24 DEF LaunchEnds, Goto, Owner
  <2>25. CASE Kill(h)
    BY <2>25 DEF Kill, Fresh
  <2>26. CASE ObserverEnds(h)
    BY <2>26 DEF ObserverEnds, Goto, Owner
  <2>27. CASE ReceiveChange(h)
    BY <2>27 DEF ReceiveChange, Goto, Owner
  <2>28. CASE BusAdmits(h)
    BY <2>28 DEF BusAdmits, Goto, Owner
  <2>29. CASE BusEnds(h)
    BY <2>29 DEF BusEnds, Goto, Owner
  <2>30. ASSUME NEW s \in Sessions, ClaimName(h, s) PROVE (completed => UNCHANGED renames)
    BY <2>30 DEF ClaimName, CanStart, Granted
  <2> QED
    BY <1>1, <2>1, <2>2, <2>3, <2>4, <2>5, <2>6, <2>7, <2>8, <2>9, <2>10, <2>11, <2>12, <2>13,
       <2>14, <2>15, <2>16, <2>17, <2>18, <2>19, <2>20, <2>21, <2>22, <2>23, <2>24, <2>25, <2>26,
       <2>27, <2>28, <2>29, <2>30 DEF OwnerStep, HelperStep
<1>2. ASSUME NEW s \in Sessions, ActorLoads(s) \/ ActorEnds(s) \/ UserRenames(s)
      PROVE (completed => UNCHANGED renames)
  <2>1. CASE ActorLoads(s)
    BY <2>1 DEF ActorLoads, Announced
  <2>2. CASE ActorEnds(s)
    BY <2>2 DEF ActorEnds, Announced
  <2>3. CASE UserRenames(s)
    BY <2>3 DEF UserRenames, Announced
  <2> QED
    BY <1>2, <2>1, <2>2, <2>3
<1>3. ASSUME NEW m \in Messages, DeliveryMoves(m) PROVE (completed => UNCHANGED renames)
  <2>1. CASE WaitReady(m)
    BY <2>1 DEF WaitReady, Wait, Return, Settled, Unavailable
  <2>2. CASE TakeGate(m)
    BY <2>2 DEF TakeGate, Wait, Return
  <2>3. CASE Interject(m)
    BY <2>3 DEF Interject, Wait, Return
  <2>4. CASE InterjectFails(m)
    BY <2>4 DEF InterjectFails, Wait, Return
  <2>5. CASE InterjectAnswered(m)
    BY <2>5 DEF InterjectAnswered, Wait, Return
  <2>6. CASE Expires(m)
    BY <2>6 DEF Expires
  <2>7. CASE CancelCaller(m)
    BY <2>7 DEF CancelCaller
  <2>8. ASSUME NEW h \in Helpers, DeliverOwned(m, h) PROVE (completed => UNCHANGED renames)
    BY <2>8 DEF DeliverOwned
  <2> QED
    BY <1>3, <2>1, <2>2, <2>3, <2>4, <2>5, <2>6, <2>7, <2>8 DEF DeliveryMoves, DeliveryStep
<1>4. CASE UNCHANGED vars
  BY <1>4 DEF vars
<1> QED
  BY <1>1, <1>2, <1>3, <1>4, Kinds

-----------------------------------------------------------------------------
(* Lifetimes and deliveries.                                               *)

LEMMA LifetimeKept ==
  ASSUME RestOK, BackendsOK, Lifetime, [Next]_vars
  PROVE  Lifetime'
<1> USE DEF BackendsOK, Lifetime, Before, Lost, nativeVars, claimVars, callVars
<1>1. ASSUME NEW h \in Helpers, OwnerStep(h) \/ HelperStep(h) PROVE Lifetime'
  <2>1. CASE RecordOwner(h)
    BY <2>1 DEF RecordOwner, Backend
  <2>2. CASE StartObserver(h)
    BY <2>2 DEF StartObserver, Goto, Owner, Broken, Backend
  <2>3. CASE FirstRoster(h)
    BY <2>3 DEF FirstRoster, Goto, Owner, ReadRoster, Broken, Backend
  <2>4. CASE AwaitActor(h)
    BY <2>4 DEF AwaitActor, Goto, Owner, Broken, Backend
  <2>5. CASE NameSettled(h)
    BY <2>5 DEF NameSettled, Goto, Owner, Backend
  <2>6. CASE ApplyName(h)
    BY <2>6 DEF ApplyName, Goto, Owner, Announced, Broken, Backend
  <2>7. CASE NameFails(h)
    BY <2>7 DEF NameFails, Goto, Owner, Broken, Backend
  <2>8. CASE Confirm(h)
    BY <2>8 DEF Confirm, Goto, Owner, ReadRoster, Broken, Backend
  <2>9. CASE Complete(h)
    BY <2>9 DEF Complete, Goto, Backend
  <2>10. CASE Connect(h)
    BY <2>10 DEF Connect, Goto, Owner, Backend
  <2>11. CASE AwaitReady(h)
    BY <2>11 DEF AwaitReady, Goto, Owner, Broken, Backend
  <2>12. CASE Serve(h)
    BY <2>12 DEF Serve, Goto, Owner, Broken, Backend
  <2>13. CASE Reread(h)
    BY <2>13 DEF Reread, Goto, Owner, ReadRoster, Broken, Backend
  <2>14. CASE Publish(h)
    BY <2>14 DEF Publish, Goto, Owner, Backend
  <2>15. CASE Rehello(h)
    BY <2>15 DEF Rehello, Goto, Owner, Backend
  <2>16. CASE Leave(h)
    BY <2>16 DEF Leave, Goto, Owner, Backend
  <2>17. CASE LeaveBus(h)
    BY <2>17 DEF LeaveBus, Goto, Owner, Quit, Backend
  <2>18. CASE Join(h)
    BY <2>18 DEF Join, Goto, Owner, Joined, Backend
  <2>19. CASE ObserverCloses(h)
    BY <2>19 DEF ObserverCloses, Goto, Owner, Backend
  <2>20. CASE ShutdownStops(h)
    BY <2>20 DEF ShutdownStops, Goto, Owner, Quit, Backend
  <2>21. CASE ShutdownReturns(h)
    BY <2>21 DEF ShutdownReturns, Goto, Owner, Backend
  <2>22. CASE Initialized(h)
    BY <2>22 DEF Initialized, Goto, Owner, Backend
  <2>23. CASE Shutdown(h)
    BY <2>23 DEF Shutdown, Goto, Owner, Backend
  <2>24. CASE LaunchEnds(h)
    BY <2>24 DEF LaunchEnds, Goto, Owner, Backend
  <2>25. CASE Kill(h)
    BY <2>25 DEF Kill, Fresh, Backend
  <2>26. CASE ObserverEnds(h)
    BY <2>26 DEF ObserverEnds, Goto, Owner, Backend
  <2>27. CASE ReceiveChange(h)
    BY <2>27 DEF ReceiveChange, Goto, Owner, Backend
  <2>28. CASE BusAdmits(h)
    BY <2>28 DEF BusAdmits, Goto, Owner, Backend
  <2>29. CASE BusEnds(h)
    BY <2>29 DEF BusEnds, Goto, Owner, Backend
  <2>30. ASSUME NEW s \in Sessions, ClaimName(h, s) PROVE Lifetime'
    BY <2>30 DEF ClaimName, CanStart, Granted, Backend
  <2> QED
    BY <1>1, <2>1, <2>2, <2>3, <2>4, <2>5, <2>6, <2>7, <2>8, <2>9, <2>10, <2>11, <2>12, <2>13,
       <2>14, <2>15, <2>16, <2>17, <2>18, <2>19, <2>20, <2>21, <2>22, <2>23, <2>24, <2>25, <2>26,
       <2>27, <2>28, <2>29, <2>30 DEF OwnerStep, HelperStep
<1>2. ASSUME NEW s \in Sessions, ActorLoads(s) \/ ActorEnds(s) \/ UserRenames(s) PROVE Lifetime'
  <2>1. CASE ActorLoads(s)
    BY <2>1 DEF ActorLoads, Announced, Backend
  <2>2. CASE ActorEnds(s)
    BY <2>2 DEF ActorEnds, Announced, Backend
  <2>3. CASE UserRenames(s)
    BY <2>3 DEF UserRenames, Announced, Backend
  <2> QED
    BY <1>2, <2>1, <2>2, <2>3
<1>3. ASSUME NEW m \in Messages, DeliveryMoves(m) PROVE Lifetime'
  <2>1. CASE WaitReady(m)
    BY <2>1 DEF WaitReady, Wait, Return, Settled, Unavailable, Backend
  <2>2. CASE TakeGate(m)
    BY <2>2 DEF TakeGate, Wait, Return, Backend
  <2>3. CASE Interject(m)
    BY <2>3 DEF Interject, Wait, Return, Backend
  <2>4. CASE InterjectFails(m)
    BY <2>4, SMTT(60) DEF InterjectFails, Wait, Return, Backend
  <2>5. CASE InterjectAnswered(m)
    BY <2>5 DEF InterjectAnswered, Wait, Return, Backend
  <2>6. CASE Expires(m)
    BY <2>6 DEF Expires, Backend
  <2>7. CASE CancelCaller(m)
    BY <2>7 DEF CancelCaller, Backend
  <2>8. ASSUME NEW h \in Helpers, DeliverOwned(m, h) PROVE Lifetime'
    BY <2>8 DEF DeliverOwned, Backend
  <2> QED
    BY <1>3, <2>1, <2>2, <2>3, <2>4, <2>5, <2>6, <2>7, <2>8 DEF DeliveryMoves, DeliveryStep
<1>4. CASE UNCHANGED vars
  BY <1>4 DEF vars
<1> QED
  BY <1>1, <1>2, <1>3, <1>4, Kinds

\* The steps as deliveries see them: those that leave deliveries alone, the end of a
\* helper, and the ways of a delivery.
Quiet ==
  /\ UNCHANGED <<call, at>>
  /\ \A g \in Helpers : /\ b'[g].work = b[g].work /\ b'[g].gate = b[g].gate
                        /\ b[g].ready => b'[g].ready
Ends(m) == \E outcome : outcome \notin Active /\ call[m] \in Active /\ Return(m, outcome)
Admitted(m) == call[m] = "ready" /\ Wait(m, "gate") /\ UNCHANGED b
TakesGate(m) ==
  /\ call[m] = "gate" /\ b[at[m]].gate
  /\ b' = [b EXCEPT ![at[m]].gate = FALSE] /\ Wait(m, "holding")
Begins(m) == call[m] = "holding" /\ Wait(m, "interject") /\ UNCHANGED b
Delivers ==
  \/ \E h \in Helpers : Kill(h)
  \/ \E m \in Messages : Ends(m) \/ Admitted(m) \/ TakesGate(m) \/ Begins(m)
                         \/ \E h \in Helpers : DeliverOwned(m, h)

LEMMA DeliveryKinds ==
  ASSUME BackendsOK, [Next]_vars
  PROVE  Quiet \/ Delivers
<1> USE DEF BackendsOK, nativeVars, claimVars, callVars
<1>1. ASSUME NEW h \in Helpers, OwnerStep(h) \/ HelperStep(h) PROVE Quiet \/ Delivers
  <2>1. CASE RecordOwner(h)
    <3>1. Quiet
      BY <2>1 DEF Quiet, RecordOwner, Backend
    <3> QED
      BY <3>1
  <2>2. CASE StartObserver(h)
    <3>1. CASE b' = [b EXCEPT ![h].observer = "up", ![h].pc = "leave"]
      BY <2>2, <3>1 DEF Quiet, StartObserver, Owner, Backend
    <3>2. CASE b' = [b EXCEPT ![h].observer = "up", ![h].pc = "roster"]
      BY <2>2, <3>2 DEF Quiet, StartObserver, Owner, Backend
    <3>3. CASE Goto(h, "leave")
      BY <2>2, <3>3 DEF Quiet, StartObserver, Owner, Goto, Backend
    <3> QED
      BY <2>2, <3>1, <3>2, <3>3 DEF StartObserver
  <2>3. CASE FirstRoster(h)
    <3>1. Quiet
      BY <2>3 DEF Quiet, FirstRoster, Goto, Owner, ReadRoster, Broken, Backend
    <3> QED
      BY <3>1
  <2>4. CASE AwaitActor(h)
    <3>1. CASE Goto(h, "leave")
      BY <2>4, <3>1 DEF Quiet, AwaitActor, Owner, Goto, Backend
    <3>2. CASE b' = [b EXCEPT ![h].changed = FALSE, ![h].pc = "roster"]
      BY <2>4, <3>2 DEF Quiet, AwaitActor, Owner, Backend
    <3> QED
      BY <2>4, <3>1, <3>2 DEF AwaitActor
  <2>5. CASE NameSettled(h)
    <3>1. Quiet
      BY <2>5 DEF Quiet, NameSettled, Goto, Owner, Backend
    <3> QED
      BY <3>1
  <2>6. CASE ApplyName(h)
    <3>1. Quiet
      BY <2>6 DEF Quiet, ApplyName, Goto, Owner, Announced, Broken, Backend
    <3> QED
      BY <3>1
  <2>7. CASE NameFails(h)
    <3>1. Quiet
      BY <2>7 DEF Quiet, NameFails, Goto, Owner, Broken, Backend
    <3> QED
      BY <3>1
  <2>8. CASE Confirm(h)
    <3>1. Quiet
      BY <2>8 DEF Quiet, Confirm, Goto, Owner, ReadRoster, Broken, Backend
    <3> QED
      BY <3>1
  <2>9. CASE Complete(h)
    <3>1. Quiet
      BY <2>9 DEF Quiet, Complete, Goto, Backend
    <3> QED
      BY <3>1
  <2>10. CASE Connect(h)
    <3>1. Quiet
      BY <2>10 DEF Quiet, Connect, Goto, Owner, Backend
    <3> QED
      BY <3>1
  <2>11. CASE AwaitReady(h)
    <3>1. Quiet
      BY <2>11 DEF Quiet, AwaitReady, Goto, Owner, Broken, Backend
    <3> QED
      BY <3>1
  <2>12. CASE Serve(h)
    <3>1. Quiet
      BY <2>12 DEF Quiet, Serve, Goto, Owner, Broken, Backend
    <3> QED
      BY <3>1
  <2>13. CASE Reread(h)
    <3>1. Quiet
      BY <2>13 DEF Quiet, Reread, Goto, Owner, ReadRoster, Broken, Backend
    <3> QED
      BY <3>1
  <2>14. CASE Publish(h)
    <3>1. Quiet
      BY <2>14 DEF Quiet, Publish, Goto, Owner, Backend
    <3> QED
      BY <3>1
  <2>15. CASE Rehello(h)
    <3>1. Quiet
      BY <2>15 DEF Quiet, Rehello, Goto, Owner, Backend
    <3> QED
      BY <3>1
  <2>16. CASE Leave(h)
    <3>1. Quiet
      BY <2>16 DEF Quiet, Leave, Goto, Owner, Backend
    <3> QED
      BY <3>1
  <2>17. CASE LeaveBus(h)
    <3>1. Quiet
      BY <2>17 DEF Quiet, LeaveBus, Goto, Owner, Quit, Backend
    <3> QED
      BY <3>1
  <2>18. CASE Join(h)
    <3>1. Quiet
      BY <2>18 DEF Quiet, Join, Goto, Owner, Joined, Backend
    <3> QED
      BY <3>1
  <2>19. CASE ObserverCloses(h)
    <3>1. Quiet
      BY <2>19 DEF Quiet, ObserverCloses, Goto, Owner, Backend
    <3> QED
      BY <3>1
  <2>20. CASE ShutdownStops(h)
    <3>1. Quiet
      BY <2>20 DEF Quiet, ShutdownStops, Goto, Owner, Quit, Backend
    <3> QED
      BY <3>1
  <2>21. CASE ShutdownReturns(h)
    <3>1. Quiet
      BY <2>21 DEF Quiet, ShutdownReturns, Goto, Owner, Backend
    <3> QED
      BY <3>1
  <2>22. CASE Initialized(h)
    <3>1. Quiet
      BY <2>22 DEF Quiet, Initialized, Goto, Owner, Backend
    <3> QED
      BY <3>1
  <2>23. CASE Shutdown(h)
    <3>1. Quiet
      BY <2>23 DEF Quiet, Shutdown, Goto, Owner, Backend
    <3> QED
      BY <3>1
  <2>24. CASE LaunchEnds(h)
    <3>1. Quiet
      BY <2>24 DEF Quiet, LaunchEnds, Goto, Owner, Backend
    <3> QED
      BY <3>1
  <2>25. CASE Kill(h)
    BY <2>25 DEF Delivers
  <2>26. CASE ObserverEnds(h)
    <3>1. Quiet
      BY <2>26 DEF Quiet, ObserverEnds, Goto, Owner, Backend
    <3> QED
      BY <3>1
  <2>27. CASE ReceiveChange(h)
    <3>1. Quiet
      BY <2>27 DEF Quiet, ReceiveChange, Goto, Owner, Backend
    <3> QED
      BY <3>1
  <2>28. CASE BusAdmits(h)
    <3>1. Quiet
      BY <2>28 DEF Quiet, BusAdmits, Goto, Owner, Backend
    <3> QED
      BY <3>1
  <2>29. CASE BusEnds(h)
    <3>1. Quiet
      BY <2>29 DEF Quiet, BusEnds, Goto, Owner, Backend
    <3> QED
      BY <3>1
  <2>30. ASSUME NEW s \in Sessions, ClaimName(h, s) PROVE Quiet \/ Delivers
    <3>1. Quiet
      BY <2>30 DEF Quiet, ClaimName, CanStart, Granted, Backend
    <3> QED
      BY <3>1
  <2> QED
    BY <1>1, <2>1, <2>2, <2>3, <2>4, <2>5, <2>6, <2>7, <2>8, <2>9, <2>10, <2>11, <2>12, <2>13,
       <2>14, <2>15, <2>16, <2>17, <2>18, <2>19, <2>20, <2>21, <2>22, <2>23, <2>24, <2>25, <2>26,
       <2>27, <2>28, <2>29, <2>30 DEF OwnerStep, HelperStep
<1>2. ASSUME NEW s \in Sessions, ActorLoads(s) \/ ActorEnds(s) \/ UserRenames(s)
      PROVE Quiet \/ Delivers
  <2>1. CASE ActorLoads(s)
    <3>1. Quiet
      BY <2>1 DEF Quiet, ActorLoads, Announced, Backend
    <3> QED
      BY <3>1
  <2>2. CASE ActorEnds(s)
    <3>1. Quiet
      BY <2>2 DEF Quiet, ActorEnds, Announced, Backend
    <3> QED
      BY <3>1
  <2>3. CASE UserRenames(s)
    <3>1. Quiet
      BY <2>3 DEF Quiet, UserRenames, Announced, Backend
    <3> QED
      BY <3>1
  <2> QED
    BY <1>2, <2>1, <2>2, <2>3
<1>3. ASSUME NEW m \in Messages, DeliveryMoves(m) PROVE Quiet \/ Delivers
  <2>1. CASE WaitReady(m)
    <3>1. Ends(m) \/ Admitted(m) \/ TakesGate(m) \/ Begins(m)
      BY <2>1 DEF WaitReady, Settled, Unavailable, Ends, Admitted, TakesGate, Begins, Active
    <3> QED
      BY <3>1 DEF Delivers
  <2>2. CASE TakeGate(m)
    <3>1. Ends(m) \/ Admitted(m) \/ TakesGate(m) \/ Begins(m)
      BY <2>2 DEF TakeGate, Ends, Admitted, TakesGate, Begins, Active
    <3> QED
      BY <3>1 DEF Delivers
  <2>3. CASE Interject(m)
    <3>1. Ends(m) \/ Admitted(m) \/ TakesGate(m) \/ Begins(m)
      BY <2>3 DEF Interject, Ends, Admitted, TakesGate, Begins, Active
    <3> QED
      BY <3>1 DEF Delivers
  <2>4. CASE InterjectFails(m)
    <3>1. Ends(m) \/ Admitted(m) \/ TakesGate(m) \/ Begins(m)
      BY <2>4 DEF InterjectFails, Ends, Admitted, TakesGate, Begins, Active
    <3> QED
      BY <3>1 DEF Delivers
  <2>5. CASE InterjectAnswered(m)
    <3>1. Ends(m) \/ Admitted(m) \/ TakesGate(m) \/ Begins(m)
      BY <2>5 DEF InterjectAnswered, Ends, Admitted, TakesGate, Begins, Active
    <3> QED
      BY <3>1 DEF Delivers
  <2>6. CASE Expires(m)
    <3>1. Quiet
      BY <2>6 DEF Quiet, Expires, Backend
    <3> QED
      BY <3>1
  <2>7. CASE CancelCaller(m)
    <3>1. Quiet
      BY <2>7 DEF Quiet, CancelCaller, Backend
    <3> QED
      BY <3>1
  <2>8. ASSUME NEW h \in Helpers, DeliverOwned(m, h) PROVE Quiet \/ Delivers
    BY <2>8 DEF Delivers
  <2> QED
    BY <1>3, <2>1, <2>2, <2>3, <2>4, <2>5, <2>6, <2>7, <2>8 DEF DeliveryMoves, DeliveryStep
<1>4. CASE UNCHANGED vars
  BY <1>4 DEF vars, Quiet
<1> QED
  BY <1>1, <1>2, <1>3, <1>4, Kinds

LEMMA SlotsStay ==
  ASSUME SlotsCounted, UNCHANGED <<call, at>>, \A g \in Helpers : b'[g].work = b[g].work
  PROVE  SlotsCounted'
<1>1. \A g : AtWork(g)' = AtWork(g)
  BY DEF AtWork
<1> QED
  BY <1>1 DEF SlotsCounted

\* The end of a delivery gives its slot back, and takes it from no other.
LEMMA SlotReturned ==
  ASSUME RestOK, BackendsOK, SlotsCounted, Deliveries, NEW m \in Messages, call[m] \in Active,
         NEW outcome, outcome \notin Active, Return(m, outcome)
  PROVE  SlotsCounted'
<1>1. at[m] \in Helpers /\ m \in AtWork(at[m])
  BY DEF Deliveries, AtWork
<1>2. /\ b'[at[m]].work = b[at[m]].work - 1
      /\ \A g \in Helpers : g # at[m] => b'[g].work = b[g].work
  BY <1>1 DEF Return, BackendsOK, Backend
<1>3. at' = at /\ call'[m] = outcome /\ \A n \in Messages \ {m} : call'[n] = call[n]
  BY DEF Return, Wait, RestOK
<1>4. ASSUME NEW g \in Helpers, g # at[m]
      PROVE  IsFiniteSet(AtWork(g))' /\ b'[g].work = Cardinality(AtWork(g))'
  <2>1. AtWork(g)' = AtWork(g)
    BY <1>3, <1>4 DEF AtWork
  <2> QED
    BY <2>1, <1>2, <1>4 DEF SlotsCounted
<1>5. IsFiniteSet(AtWork(at[m])) /\ b[at[m]].work = Cardinality(AtWork(at[m]))
  BY <1>1 DEF SlotsCounted
<1>6. \A g : g = at[m] => AtWork(g)' = AtWork(at[m]) \ {m}
  BY <1>3 DEF AtWork
<1>7. IsFiniteSet(AtWork(at[m]) \ {m}) /\ Cardinality(AtWork(at[m]) \ {m}) = b[at[m]].work - 1
  BY <1>1, <1>5, FS_RemoveElement
<1> QED
  BY <1>1, <1>2, <1>4, <1>6, <1>7 DEF SlotsCounted

LEMMA SlotsCountedKept ==
  ASSUME RestOK, BackendsOK, SlotsCounted, Deliveries, [Next]_vars
  PROVE  SlotsCounted'
<1>1. CASE Quiet
  BY <1>1, SlotsStay DEF Quiet
<1>2. ASSUME NEW h \in Helpers, Kill(h) PROVE SlotsCounted'
  <2>1. b'[h].work = 0 /\ \A g \in Helpers \ {h} : b'[g] = b[g]
    BY <1>2 DEF Kill, Fresh, BackendsOK
  <2>2. /\ \A m \in Messages : call'[m] = IF at[m] = h /\ call[m] \in Active
                                          THEN "uncertain" ELSE call[m]
        /\ at' = at /\ "uncertain" \notin Active
    BY <1>2 DEF Kill, Active
  <2>3. \A g : g # h => AtWork(g)' = AtWork(g)
    BY <2>2 DEF AtWork
  <2>4. AtWork(h)' = {}
    BY <2>2 DEF AtWork
  <2>5. IsFiniteSet({}) /\ Cardinality({}) = 0
    BY FS_EmptySet
  <2> QED
    BY <2>1, <2>3, <2>4, <2>5 DEF SlotsCounted
<1>3. ASSUME NEW m \in Messages, Ends(m) PROVE SlotsCounted'
  BY <1>3, SlotReturned DEF Ends
<1>4. ASSUME NEW m \in Messages, Admitted(m) PROVE SlotsCounted'
  <2>1. \A g \in Helpers : b'[g].work = b[g].work
    BY <1>4 DEF Admitted, BackendsOK, Backend
  <2>2. \A g : AtWork(g)' = AtWork(g)
    BY <1>4 DEF Admitted, Wait, AtWork, RestOK, Active
  <2> QED
    BY <2>1, <2>2 DEF SlotsCounted
<1>5. ASSUME NEW m \in Messages, TakesGate(m) PROVE SlotsCounted'
  <2>1. \A g \in Helpers : b'[g].work = b[g].work
    BY <1>5 DEF TakesGate, BackendsOK, Backend
  <2>2. \A g : AtWork(g)' = AtWork(g)
    BY <1>5 DEF TakesGate, Wait, AtWork, RestOK, Active
  <2> QED
    BY <2>1, <2>2 DEF SlotsCounted
<1>6. ASSUME NEW m \in Messages, Begins(m) PROVE SlotsCounted'
  <2>1. \A g \in Helpers : b'[g].work = b[g].work
    BY <1>6 DEF Begins, BackendsOK, Backend
  <2>2. \A g : AtWork(g)' = AtWork(g)
    BY <1>6 DEF Begins, Wait, AtWork, RestOK, Active
  <2> QED
    BY <2>1, <2>2 DEF SlotsCounted
<1>7. ASSUME NEW m \in Messages, NEW h \in Helpers, DeliverOwned(m, h) PROVE SlotsCounted'
  <2>1. call[m] = "idle" /\ at' = [at EXCEPT ![m] = h] /\ "idle" \notin Active
    BY <1>7 DEF DeliverOwned, Active
  <2>2. PICK where \in {"rejected", "uncertain", "ready"} :
               /\ call' = [call EXCEPT ![m] = where]
               /\ b' = [b EXCEPT ![h].work = IF where = "ready" THEN @ + 1 ELSE @]
    BY <1>7 DEF DeliverOwned, RestOK
  <2>3. /\ \A n \in Messages \ {m} : call'[n] = call[n] /\ at'[n] = at[n]
        /\ call'[m] = where /\ at'[m] = h
    BY <2>1, <2>2 DEF RestOK
  <2>4. \A g : g # h => AtWork(g)' = AtWork(g)
    BY <2>1, <2>3 DEF AtWork
  <2>5. \A g \in Helpers \ {h} : b'[g].work = b[g].work
    BY <2>2 DEF BackendsOK
  <2>6. IsFiniteSet(AtWork(h)) /\ b[h].work = Cardinality(AtWork(h))
    BY DEF SlotsCounted
  <2>7. IsFiniteSet(AtWork(h))' /\ b'[h].work = Cardinality(AtWork(h))'
    <3>1. CASE where # "ready"
      <4>1. AtWork(h)' = AtWork(h)
        BY <2>1, <2>3, <3>1 DEF AtWork, Active
      <4>2. b'[h].work = b[h].work
        BY <2>2, <3>1 DEF BackendsOK, Backend
      <4> QED
        BY <2>6, <4>1, <4>2
    <3>2. CASE where = "ready"
      <4>1. AtWork(h)' = AtWork(h) \cup {m} /\ m \notin AtWork(h)
        BY <2>1, <2>3, <3>2 DEF AtWork, Active
      <4>2. b'[h].work = b[h].work + 1
        BY <2>2, <3>2 DEF BackendsOK, Backend
      <4>3. /\ IsFiniteSet(AtWork(h) \cup {m})
            /\ Cardinality(AtWork(h) \cup {m}) = b[h].work + 1
        BY <2>6, <4>1, FS_AddElement
      <4> QED
        BY <4>1, <4>2, <4>3
    <3> QED
      BY <3>1, <3>2
  <2>8. ASSUME NEW g \in Helpers, g # h
        PROVE  IsFiniteSet(AtWork(g))' /\ b'[g].work = Cardinality(AtWork(g))'
    <3>1. AtWork(g)' = AtWork(g) /\ b'[g].work = b[g].work
      BY <2>4, <2>5, <2>8
    <3> QED
      BY <3>1 DEF SlotsCounted
  <2> QED
    BY <2>7, <2>8 DEF SlotsCounted
<1> QED
  BY DeliveryKinds, <1>1, <1>2, <1>3, <1>4, <1>5, <1>6, <1>7 DEF Delivers

LEMMA DeliveriesKept ==
  ASSUME RestOK, BackendsOK, Deliveries, [Next]_vars
  PROVE  Deliveries'
<1> USE DEF BackendsOK, Backend, RestOK, Deliveries, Active
<1>1. CASE Quiet
  BY <1>1 DEF Quiet
<1>2. ASSUME NEW h \in Helpers, Kill(h) PROVE Deliveries'
  BY <1>2 DEF Kill, Fresh
<1>3. ASSUME NEW m \in Messages, Ends(m) PROVE Deliveries'
  BY <1>3 DEF Ends, Return, Wait
<1>4. ASSUME NEW m \in Messages, Admitted(m) PROVE Deliveries'
  BY <1>4 DEF Admitted, Wait
<1>5. ASSUME NEW m \in Messages, TakesGate(m) PROVE Deliveries'
  BY <1>5 DEF TakesGate, Wait
<1>6. ASSUME NEW m \in Messages, Begins(m) PROVE Deliveries'
  BY <1>6 DEF Begins, Wait
<1>7. ASSUME NEW m \in Messages, NEW h \in Helpers, DeliverOwned(m, h) PROVE Deliveries'
  BY <1>7 DEF DeliverOwned
<1> QED
  BY DeliveryKinds, <1>1, <1>2, <1>3, <1>4, <1>5, <1>6, <1>7 DEF Delivers

LEMMA CapacityHolds ==
  ASSUME RestOK, BackendsOK, SlotsCounted, Deliveries, CapacityKept, [Next]_vars
  PROVE  CapacityKept'
<1> USE DEF BackendsOK, Backend, RestOK, CapacityKept
<1>1. CASE Quiet
  BY <1>1 DEF Quiet
<1>2. ASSUME NEW h \in Helpers, Kill(h) PROVE CapacityKept'
  BY <1>2, PeerAssumption DEF Kill, Fresh
<1>3. ASSUME NEW m \in Messages, Ends(m) PROVE CapacityKept'
  <2>1. at[m] \in Helpers /\ b[at[m]].work \in Nat
    BY <1>3, HoldsSlot DEF Ends
  <2>2. b'[at[m]].work = b[at[m]].work - 1
        /\ \A g \in Helpers : g # at[m] => b'[g].work = b[g].work
    BY <1>3, <2>1 DEF Ends, Return
  <2> QED
    BY <2>1, <2>2, PeerAssumption
<1>4. ASSUME NEW m \in Messages, Admitted(m) PROVE CapacityKept'
  BY <1>4 DEF Admitted, Wait
<1>5. ASSUME NEW m \in Messages, TakesGate(m) PROVE CapacityKept'
  BY <1>5 DEF TakesGate, Wait
<1>6. ASSUME NEW m \in Messages, Begins(m) PROVE CapacityKept'
  BY <1>6 DEF Begins, Wait
<1>7. ASSUME NEW m \in Messages, NEW h \in Helpers, DeliverOwned(m, h) PROVE CapacityKept'
  <2>1. \A g \in Helpers : b[g].work \in Nat
    OBVIOUS
  <2>2. CASE b[h].work >= MaxSlots
    BY <1>7, <2>2 DEF DeliverOwned
  <2>3. CASE ~(b[h].work >= MaxSlots)
    <3>1. b'[h].work \in {b[h].work, b[h].work + 1}
          /\ \A g \in Helpers \ {h} : b'[g].work = b[g].work
      BY <1>7 DEF DeliverOwned
    <3> QED
      BY <2>1, <2>3, <3>1, PeerAssumption
  <2> QED
    BY <2>2, <2>3
<1> QED
  BY DeliveryKinds, <1>1, <1>2, <1>3, <1>4, <1>5, <1>6, <1>7 DEF Delivers

LEMMA OneInterjectKept ==
  ASSUME RestOK, BackendsOK, Deliveries, OneInterject, [Next]_vars
  PROVE  OneInterject'
<1> USE DEF BackendsOK, Backend, RestOK, OneInterject, Gated, Deliveries, Active
<1>1. CASE Quiet
  BY <1>1 DEF Quiet
<1>2. ASSUME NEW h \in Helpers, Kill(h) PROVE OneInterject'
  <2>1. b'[h].gate = TRUE /\ \A g \in Helpers \ {h} : b'[g] = b[g]
    BY <1>2 DEF Kill, Fresh
  <2>2. at' = at /\ \A m \in Messages : call'[m] = IF at[m] = h /\ call[m] \in Active
                                                   THEN "uncertain" ELSE call[m]
    BY <1>2 DEF Kill
  <2>3. \A m \in Messages : at[m] = h => call'[m] \notin {"holding", "interject"}
    BY <2>2
  <2>4. \A m \in Messages : at[m] # h => call'[m] = call[m]
    BY <2>2
  <2> QED
    BY <2>1, <2>2, <2>3, <2>4
<1>3. ASSUME NEW m \in Messages, Ends(m) PROVE OneInterject'
  BY <1>3 DEF Ends, Return, Wait
<1>4. ASSUME NEW m \in Messages, Admitted(m) PROVE OneInterject'
  BY <1>4 DEF Admitted, Wait
<1>5. ASSUME NEW m \in Messages, TakesGate(m) PROVE OneInterject'
  BY <1>5 DEF TakesGate, Wait
<1>6. ASSUME NEW m \in Messages, Begins(m) PROVE OneInterject'
  BY <1>6 DEF Begins, Wait
<1>7. ASSUME NEW m \in Messages, NEW h \in Helpers, DeliverOwned(m, h) PROVE OneInterject'
  BY <1>7 DEF DeliverOwned
<1> QED
  BY DeliveryKinds, <1>1, <1>2, <1>3, <1>4, <1>5, <1>6, <1>7 DEF Delivers

\* A helper that is done has nothing under way.
DoneEmpty == \A h \in Helpers : b[h].pc = "done" => AtWork(h) = {}

LEMMA NotReadyIsEmpty ==
  ASSUME Deliveries, NEW h \in Helpers, ~b[h].ready
  PROVE  AtWork(h) = {}
BY DEF Deliveries, AtWork

LEMMA EmptyStays ==
  ASSUME DoneEmpty, at' = at, \A n \in Messages : call'[n] \in Active => call[n] \in Active,
         \A g \in Helpers : b'[g].pc = "done" => b[g].pc = "done" \/ AtWork(g) = {}
  PROVE  DoneEmpty'
BY DEF DoneEmpty, AtWork

LEMMA DoneEmptyKept ==
  ASSUME RestOK, BackendsOK, SlotsCounted, Deliveries, Lifetime, DoneEmpty, [Next]_vars
  PROVE  DoneEmpty'
<1> USE DEF BackendsOK, nativeVars, claimVars, callVars
<1>1. ASSUME NEW h \in Helpers, OwnerStep(h) \/ HelperStep(h) PROVE DoneEmpty'
  <2>1. CASE RecordOwner(h)
    <3>1. UNCHANGED <<call, at>> /\ \A g \in Helpers : b'[g].pc = "done" => b[g].pc = "done"
      BY <2>1 DEF RecordOwner, Backend
    <3> QED
      BY <3>1, EmptyStays
  <2>2. CASE StartObserver(h)
    <3>1. UNCHANGED <<call, at>> /\ \A g \in Helpers : b'[g].pc = "done" => b[g].pc = "done"
      BY <2>2 DEF StartObserver, Goto, Owner, Broken, Backend
    <3> QED
      BY <3>1, EmptyStays
  <2>3. CASE FirstRoster(h)
    <3>1. UNCHANGED <<call, at>> /\ \A g \in Helpers : b'[g].pc = "done" => b[g].pc = "done"
      BY <2>3 DEF FirstRoster, Goto, Owner, ReadRoster, Broken, Backend
    <3> QED
      BY <3>1, EmptyStays
  <2>4. CASE AwaitActor(h)
    <3>1. UNCHANGED <<call, at>> /\ \A g \in Helpers : b'[g].pc = "done" => b[g].pc = "done"
      BY <2>4 DEF AwaitActor, Goto, Owner, Broken, Backend
    <3> QED
      BY <3>1, EmptyStays
  <2>5. CASE NameSettled(h)
    <3>1. UNCHANGED <<call, at>> /\ \A g \in Helpers : b'[g].pc = "done" => b[g].pc = "done"
      BY <2>5 DEF NameSettled, Goto, Owner, Backend
    <3> QED
      BY <3>1, EmptyStays
  <2>6. CASE ApplyName(h)
    <3>1. UNCHANGED <<call, at>> /\ \A g \in Helpers : b'[g].pc = "done" => b[g].pc = "done"
      BY <2>6 DEF ApplyName, Goto, Owner, Announced, Broken, Backend
    <3> QED
      BY <3>1, EmptyStays
  <2>7. CASE NameFails(h)
    <3>1. UNCHANGED <<call, at>> /\ \A g \in Helpers : b'[g].pc = "done" => b[g].pc = "done"
      BY <2>7 DEF NameFails, Goto, Owner, Broken, Backend
    <3> QED
      BY <3>1, EmptyStays
  <2>8. CASE Confirm(h)
    <3>1. UNCHANGED <<call, at>> /\ \A g \in Helpers : b'[g].pc = "done" => b[g].pc = "done"
      BY <2>8 DEF Confirm, Goto, Owner, ReadRoster, Broken, Backend
    <3> QED
      BY <3>1, EmptyStays
  <2>9. CASE Complete(h)
    <3>1. UNCHANGED <<call, at>> /\ \A g \in Helpers : b'[g].pc = "done" => b[g].pc = "done"
      BY <2>9 DEF Complete, Goto, Backend
    <3> QED
      BY <3>1, EmptyStays
  <2>10. CASE Connect(h)
    <3>1. UNCHANGED <<call, at>> /\ \A g \in Helpers : b'[g].pc = "done" => b[g].pc = "done"
      BY <2>10 DEF Connect, Goto, Owner, Backend
    <3> QED
      BY <3>1, EmptyStays
  <2>11. CASE AwaitReady(h)
    <3>1. UNCHANGED <<call, at>> /\ \A g \in Helpers : b'[g].pc = "done" => b[g].pc = "done"
      BY <2>11 DEF AwaitReady, Goto, Owner, Broken, Backend
    <3> QED
      BY <3>1, EmptyStays
  <2>12. CASE Serve(h)
    <3>1. UNCHANGED <<call, at>> /\ \A g \in Helpers : b'[g].pc = "done" => b[g].pc = "done"
      BY <2>12 DEF Serve, Goto, Owner, Broken, Backend
    <3> QED
      BY <3>1, EmptyStays
  <2>13. CASE Reread(h)
    <3>1. UNCHANGED <<call, at>> /\ \A g \in Helpers : b'[g].pc = "done" => b[g].pc = "done"
      BY <2>13 DEF Reread, Goto, Owner, ReadRoster, Broken, Backend
    <3> QED
      BY <3>1, EmptyStays
  <2>14. CASE Publish(h)
    <3>1. UNCHANGED <<call, at>> /\ \A g \in Helpers : b'[g].pc = "done" => b[g].pc = "done"
      BY <2>14 DEF Publish, Goto, Owner, Backend
    <3> QED
      BY <3>1, EmptyStays
  <2>15. CASE Rehello(h)
    <3>1. UNCHANGED <<call, at>> /\ \A g \in Helpers : b'[g].pc = "done" => b[g].pc = "done"
      BY <2>15 DEF Rehello, Goto, Owner, Backend
    <3> QED
      BY <3>1, EmptyStays
  <2>16. CASE Leave(h)
    <3>1. UNCHANGED <<call, at>> /\ \A g \in Helpers : b'[g].pc = "done" => b[g].pc = "done"
      BY <2>16 DEF Leave, Goto, Owner, Backend
    <3> QED
      BY <3>1, EmptyStays
  <2>17. CASE LeaveBus(h)
    <3>1. UNCHANGED <<call, at>> /\ \A g \in Helpers : b'[g].pc = "done" => b[g].pc = "done"
      BY <2>17 DEF LeaveBus, Goto, Owner, Quit, Backend
    <3> QED
      BY <3>1, EmptyStays
  <2>18. CASE Join(h)
    <3>1. UNCHANGED <<call, at>> /\ \A g \in Helpers : b'[g].pc = "done" =>
                                      g = h \/ b[g].pc = "done"
      BY <2>18 DEF Join, Owner, Backend
    <3>2. AtWork(h) = {}
      BY <2>18, FS_EmptySet DEF Join, Joined, SlotsCounted
    <3> QED
      BY <3>1, <3>2, EmptyStays
  <2>19. CASE ObserverCloses(h)
    <3>1. UNCHANGED <<call, at>> /\ \A g \in Helpers : b'[g].pc = "done" => b[g].pc = "done"
      BY <2>19 DEF ObserverCloses, Goto, Owner, Backend
    <3> QED
      BY <3>1, EmptyStays
  <2>20. CASE ShutdownStops(h)
    <3>1. (UNCHANGED <<call, at>>) /\ \A g \in Helpers : b'[g].pc = "done" =>
                                        (g = h /\ b[g].pc = "new") \/ b[g].pc = "done"
      BY <2>20 DEF ShutdownStops, Owner, Quit, Backend
    <3>2. b[h].pc = "new" => AtWork(h) = {}
      BY NotReadyIsEmpty DEF Lifetime, Before
    <3> QED
      BY <3>1, <3>2, EmptyStays
  <2>21. CASE ShutdownReturns(h)
    <3>1. UNCHANGED <<call, at>> /\ \A g \in Helpers : b'[g].pc = "done" => b[g].pc = "done"
      BY <2>21 DEF ShutdownReturns, Goto, Owner, Backend
    <3> QED
      BY <3>1, EmptyStays
  <2>22. CASE Initialized(h)
    <3>1. UNCHANGED <<call, at>> /\ \A g \in Helpers : b'[g].pc = "done" => b[g].pc = "done"
      BY <2>22 DEF Initialized, Goto, Owner, Backend
    <3> QED
      BY <3>1, EmptyStays
  <2>23. CASE Shutdown(h)
    <3>1. UNCHANGED <<call, at>> /\ \A g \in Helpers : b'[g].pc = "done" => b[g].pc = "done"
      BY <2>23 DEF Shutdown, Goto, Owner, Backend
    <3> QED
      BY <3>1, EmptyStays
  <2>24. CASE LaunchEnds(h)
    <3>1. UNCHANGED <<call, at>> /\ \A g \in Helpers : b'[g].pc = "done" => b[g].pc = "done"
      BY <2>24 DEF LaunchEnds, Goto, Owner, Backend
    <3> QED
      BY <3>1, EmptyStays
  <2>25. CASE Kill(h)
    <3>1. at' = at /\ \A n \in Messages : call'[n] \in Active => call[n] \in Active
      BY <2>25 DEF Kill
    <3>2. \A g \in Helpers : b'[g].pc = "done" => b[g].pc = "done"
      BY <2>25 DEF Kill, Fresh
    <3> QED
      BY <3>1, <3>2, EmptyStays
  <2>26. CASE ObserverEnds(h)
    <3>1. UNCHANGED <<call, at>> /\ \A g \in Helpers : b'[g].pc = "done" => b[g].pc = "done"
      BY <2>26 DEF ObserverEnds, Goto, Owner, Backend
    <3> QED
      BY <3>1, EmptyStays
  <2>27. CASE ReceiveChange(h)
    <3>1. UNCHANGED <<call, at>> /\ \A g \in Helpers : b'[g].pc = "done" => b[g].pc = "done"
      BY <2>27 DEF ReceiveChange, Goto, Owner, Backend
    <3> QED
      BY <3>1, EmptyStays
  <2>28. CASE BusAdmits(h)
    <3>1. UNCHANGED <<call, at>> /\ \A g \in Helpers : b'[g].pc = "done" => b[g].pc = "done"
      BY <2>28 DEF BusAdmits, Goto, Owner, Backend
    <3> QED
      BY <3>1, EmptyStays
  <2>29. CASE BusEnds(h)
    <3>1. UNCHANGED <<call, at>> /\ \A g \in Helpers : b'[g].pc = "done" => b[g].pc = "done"
      BY <2>29 DEF BusEnds, Goto, Owner, Backend
    <3> QED
      BY <3>1, EmptyStays
  <2>30. ASSUME NEW s \in Sessions, ClaimName(h, s) PROVE DoneEmpty'
    <3>1. UNCHANGED <<call, at>> /\ \A g \in Helpers : b'[g].pc = "done" => b[g].pc = "done"
      BY <2>30 DEF ClaimName, CanStart, Granted, Backend
    <3> QED
      BY <3>1, EmptyStays
  <2> QED
    BY <1>1, <2>1, <2>2, <2>3, <2>4, <2>5, <2>6, <2>7, <2>8, <2>9, <2>10, <2>11, <2>12, <2>13,
       <2>14, <2>15, <2>16, <2>17, <2>18, <2>19, <2>20, <2>21, <2>22, <2>23, <2>24, <2>25, <2>26,
       <2>27, <2>28, <2>29, <2>30 DEF OwnerStep, HelperStep
<1>2. ASSUME NEW s \in Sessions, ActorLoads(s) \/ ActorEnds(s) \/ UserRenames(s) PROVE DoneEmpty'
  <2>1. CASE ActorLoads(s)
    <3>1. UNCHANGED <<call, at>> /\ \A g \in Helpers : b'[g].pc = "done" => b[g].pc = "done"
      BY <2>1 DEF ActorLoads, Announced, Backend
    <3> QED
      BY <3>1, EmptyStays
  <2>2. CASE ActorEnds(s)
    <3>1. UNCHANGED <<call, at>> /\ \A g \in Helpers : b'[g].pc = "done" => b[g].pc = "done"
      BY <2>2 DEF ActorEnds, Announced, Backend
    <3> QED
      BY <3>1, EmptyStays
  <2>3. CASE UserRenames(s)
    <3>1. UNCHANGED <<call, at>> /\ \A g \in Helpers : b'[g].pc = "done" => b[g].pc = "done"
      BY <2>3 DEF UserRenames, Announced, Backend
    <3> QED
      BY <3>1, EmptyStays
  <2> QED
    BY <1>2, <2>1, <2>2, <2>3
<1>3. ASSUME NEW m \in Messages, DeliveryMoves(m) PROVE DoneEmpty'
  <2>1. CASE WaitReady(m)
    <3>1. at' = at /\ \A n \in Messages : call'[n] \in Active => call[n] \in Active
      BY <2>1 DEF WaitReady, Wait, Return, Active, RestOK
    <3>2. \A g \in Helpers : b'[g].pc = b[g].pc
      BY <2>1 DEF WaitReady, Return, Wait, Backend
    <3> QED
      BY <3>1, <3>2, EmptyStays
  <2>2. CASE TakeGate(m)
    <3>1. at' = at /\ \A n \in Messages : call'[n] \in Active => call[n] \in Active
      BY <2>2 DEF TakeGate, Wait, Return, Active, RestOK
    <3>2. \A g \in Helpers : b'[g].pc = b[g].pc
      BY <2>2 DEF TakeGate, Return, Wait, Backend
    <3> QED
      BY <3>1, <3>2, EmptyStays
  <2>3. CASE Interject(m)
    <3>1. at' = at /\ \A n \in Messages : call'[n] \in Active => call[n] \in Active
      BY <2>3 DEF Interject, Wait, Return, Active, RestOK
    <3>2. \A g \in Helpers : b'[g].pc = b[g].pc
      BY <2>3 DEF Interject, Return, Wait, Backend
    <3> QED
      BY <3>1, <3>2, EmptyStays
  <2>4. CASE InterjectFails(m)
    <3>1. at' = at /\ \A n \in Messages : call'[n] \in Active => call[n] \in Active
      BY <2>4 DEF InterjectFails, Wait, Return, Active, RestOK
    <3>2. \A g \in Helpers : b'[g].pc = b[g].pc
      BY <2>4 DEF InterjectFails, Return, Wait, Backend
    <3> QED
      BY <3>1, <3>2, EmptyStays
  <2>5. CASE InterjectAnswered(m)
    <3>1. at' = at /\ \A n \in Messages : call'[n] \in Active => call[n] \in Active
      BY <2>5 DEF InterjectAnswered, Wait, Return, Active, RestOK
    <3>2. \A g \in Helpers : b'[g].pc = b[g].pc
      BY <2>5 DEF InterjectAnswered, Return, Wait, Backend
    <3> QED
      BY <3>1, <3>2, EmptyStays
  <2>6. CASE Expires(m)
    <3>1. UNCHANGED <<call, at>> /\ \A g \in Helpers : b'[g].pc = "done" => b[g].pc = "done"
      BY <2>6 DEF Expires, Backend
    <3> QED
      BY <3>1, EmptyStays
  <2>7. CASE CancelCaller(m)
    <3>1. UNCHANGED <<call, at>> /\ \A g \in Helpers : b'[g].pc = "done" => b[g].pc = "done"
      BY <2>7 DEF CancelCaller, Backend
    <3> QED
      BY <3>1, EmptyStays
  <2>8. ASSUME NEW h \in Helpers, DeliverOwned(m, h) PROVE DoneEmpty'
    <3>1. \A g \in Helpers : b'[g].pc = b[g].pc
      BY <2>8 DEF DeliverOwned, Backend
    <3>2. CASE b[h].ending
      <4>1. \A n \in Messages \ {m} : call'[n] = call[n] /\ at'[n] = at[n]
        BY <2>8 DEF DeliverOwned, RestOK
      <4>2. call'[m] \notin Active
        BY <2>8, <3>2 DEF DeliverOwned, RestOK, Active
      <4> QED
        BY <3>1, <4>1, <4>2 DEF DoneEmpty, AtWork
    <3>3. CASE ~b[h].ending
      <4>1. b[h].pc # "done"
        BY <3>3 DEF Lifetime
      <4>2. \A n \in Messages \ {m} : call'[n] = call[n] /\ at'[n] = at[n]
        BY <2>8 DEF DeliverOwned, RestOK
      <4>3. at'[m] = h
        BY <2>8 DEF DeliverOwned, RestOK
      <4> QED
        BY <3>1, <4>1, <4>2, <4>3 DEF DoneEmpty, AtWork
    <3> QED
      BY <3>2, <3>3
  <2> QED
    BY <1>3, <2>1, <2>2, <2>3, <2>4, <2>5, <2>6, <2>7, <2>8 DEF DeliveryMoves, DeliveryStep
<1>4. CASE UNCHANGED vars
  BY <1>4 DEF vars, DoneEmpty, AtWork
<1> QED
  BY <1>1, <1>2, <1>3, <1>4, Kinds

-----------------------------------------------------------------------------
(* The theorems.                                                           *)

PeerInv ==
  /\ BackendsOK /\ RestOK /\ CapacityKept /\ SlotsCounted /\ Deliveries /\ Lifetime
  /\ ClaimOwned /\ OneRuns /\ CompletedLast /\ OnlyOwnerNamed /\ OneInterject /\ DoneEmpty

LEMMA PeerInit == Init => PeerInv
<1> SUFFICES ASSUME Init PROVE PeerInv
  OBVIOUS
<1>1. \A h \in Helpers : b[h] = Fresh
  BY DEF Init
<1>2. BackendsOK
  <2>1. Fresh \in Backend
    BY DEF Fresh, Backend, PCs, Lost, Titles
  <2> QED
    BY <2>1 DEF Init, BackendsOK
<1>3. RestOK
  <2>1. edits \in 0..MaxEdits
    BY PeerAssumption DEF Init
  <2>2. completed \in BOOLEAN
    BY DEF Init
  <2> QED
    BY <2>1, <2>2 DEF Init, RestOK, Titles
<1>4. \A h : AtWork(h) = {}
  BY DEF Init, AtWork, Active
<1>5. CapacityKept /\ SlotsCounted
  <2>1. \A h \in Helpers : b[h].work = 0
    BY <1>1 DEF Fresh
  <2> QED
    BY <1>4, <2>1, FS_EmptySet, PeerAssumption DEF CapacityKept, SlotsCounted
<1>6. Deliveries /\ DoneEmpty /\ OneInterject
  BY <1>1, <1>4 DEF Init, Deliveries, DoneEmpty, OneInterject, Gated, Active, Fresh
<1>7. Lifetime /\ ClaimOwned /\ OneRuns
  BY <1>1 DEF Lifetime, ClaimOwned, OneRuns, Running, Lost, Fresh, Before
<1>8. CompletedLast /\ OnlyOwnerNamed
  BY DEF Init, CompletedLast, OnlyOwnerNamed
<1> QED
  BY <1>2, <1>3, <1>5, <1>6, <1>7, <1>8 DEF PeerInv

\* PeerInv is an invariant of the launch.
THEOREM PeerInvariant == Spec => []PeerInv
<1>1. PeerInv /\ [Next]_vars => PeerInv'
  <2> SUFFICES ASSUME PeerInv, [Next]_vars PROVE PeerInv'
    OBVIOUS
  <2>1. /\ BackendsOK /\ RestOK /\ CapacityKept /\ SlotsCounted /\ Deliveries /\ Lifetime
        /\ ClaimOwned /\ OneRuns /\ CompletedLast /\ OnlyOwnerNamed /\ OneInterject /\ DoneEmpty
    BY DEF PeerInv
  <2>2. BackendsOK' /\ RestOK' /\ CapacityKept'
    BY <2>1, BackendsTyped, RestKept, CapacityHolds
  <2>3. SlotsCounted' /\ Deliveries' /\ Lifetime'
    BY <2>1, SlotsCountedKept, DeliveriesKept, LifetimeKept
  <2>4. ClaimOwned' /\ OneRuns' /\ CompletedLast' /\ OnlyOwnerNamed'
    BY <2>1, ClaimOwnedKept, OneRunsKept, CompletedLastKept, NamedOwnerKept
  <2>5. OneInterject' /\ DoneEmpty'
    BY <2>1, OneInterjectKept, DoneEmptyKept
  <2> QED
    BY <2>2, <2>3, <2>4, <2>5 DEF PeerInv
<1> QED
  BY <1>1, PeerInit, PTL DEF Spec

\* Every variable keeps its type, and no helper has more deliveries than slots.
THEOREM TypeCorrect == Spec => []TypeOK
<1>1. PeerInv => TypeOK
  BY TypeParts DEF PeerInv
<1> QED
  BY <1>1, PeerInvariant, PTL

\* The launch's name goes to one session only, the one the claim records.
THEOREM OnlyTheOwnerIsNamed == Spec => []OnlyOwnerNamed
<1>1. PeerInv => OnlyOwnerNamed
  BY DEF PeerInv
<1> QED
  BY <1>1, PeerInvariant, PTL

\* Once the claim is completed no helper requests the name again.
THEOREM NameIsFinal == Spec => NameFinal
<1>1. PeerInv /\ [Next]_vars => [completed => UNCHANGED renames]_vars
  BY NameFinalHolds DEF PeerInv
<1> QED
  BY <1>1, PeerInvariant, PTL DEF Spec, NameFinal

\* One interject of a helper at a time, and one token of its gate.
THEOREM OneInterjectAtATime == Spec => []OneInterject
<1>1. PeerInv => OneInterject
  BY DEF PeerInv
<1> QED
  BY <1>1, PeerInvariant, PTL

\* When a helper is done nothing of it is under way, and nothing can begin.
THEOREM DoneIsQuiet == Spec => []DoneQuiet
<1>1. PeerInv => DoneQuiet
  BY DEF PeerInv, DoneQuiet, Lifetime, DoneEmpty, AtWork
<1> QED
  BY <1>1, PeerInvariant, PTL

=============================================================================
