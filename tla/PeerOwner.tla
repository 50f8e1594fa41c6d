------------------------------ MODULE PeerOwner ------------------------------
(***************************************************************************)
(* The helpers of one managed interactive launch (wrappers/grok/           *)
(* peer_owner.go): processes Grok starts beside its sessions.  Each owns   *)
(* one PeerBackend, observes its session over ACP, applies the launch's    *)
(* requested name at most once, publishes the native title on the bus and  *)
(* interjects the messages the bus delivers.                               *)
(*                                                                         *)
(* A step is one critical section of PeerBackend.mu, one ACP request or    *)
(* one operation on the claim file.  A request reads or changes Grok at    *)
(* one instant between its call and its reply.                             *)
(***************************************************************************)
EXTENDS Integers, FiniteSets

CONSTANTS Helpers,    \* helper processes, each started at most once
          Sessions,   \* native sessions of the launch
          Messages,   \* messages the bus delivers, each to one helper
          None,       \* no session, no helper
          MaxSlots,   \* maxACPPending, the capacity of slots
          MaxEdits,   \* title changes by the user, a bound of the model
          Faults      \* what the surroundings of a helper may do

AllFaults == {"kill", "refuse", "observer", "actor", "bus",
              "supersede", "launch", "shutdown", "cancelCaller"}
Titles == {"native", "requested", "chosen"}

ASSUME PeerAssumption ==
  /\ None \notin Sessions \cup Helpers
  /\ {"absent", "torn"} \cap Sessions = {}
  /\ MaxSlots \in Nat \ {0} /\ MaxEdits \in Nat
  /\ Faults \subseteq AllFaults

VARIABLES
  actor,      \* by session: "absent", "live" or "gone" in the native roster
  title,      \* its native title
  edits,      \* title changes the user made
  renames,    \* renames a helper got applied, by session
  claim,      \* the claim file: "absent", "torn" (created, no owner) or its owner
  completed,  \* the claim ends with "completed"
  b,          \* the PeerBackend of each helper
  call,       \* where each delivery is, in the end what it returned
  at,         \* the helper a delivery came to, or None
  expired     \* deliveries whose context is over

nativeVars == <<actor, title, edits, renames>>
claimVars == <<claim, completed>>
callVars == <<call, at, expired>>
vars == <<nativeVars, claimVars, b, callVars>>

Lost == {"idle", "killed"}
PCs == Lost \cup {"claiming", "new", "start", "roster", "absent", "name", "confirm",
                  "complete", "connect", "await", "serve", "reread", "publish",
                  "rehello", "leave", "quit", "join", "done"}
Active == {"ready", "gate", "holding", "interject"}
Backend ==
  [pc : PCs, session : Sessions \cup {None}, requested : BOOLEAN,
   row : Titles, identity : Titles, changed : BOOLEAN, notice : BOOLEAN,
   ending : BOOLEAN, cancelled : BOOLEAN, admitted : BOOLEAN,
   observer : {"none", "up", "done"},
   peer : {"none", "offline", "online", "closed"}, hello : Titles, ready : BOOLEAN,
   work : Nat, gate : BOOLEAN, shutdown : {"idle", "marked", "waiting", "returned"}]

(* The type of every variable, and the capacity of slots.                  *)
TypeOK ==
  /\ actor \in [Sessions -> {"absent", "live", "gone"}]
  /\ title \in [Sessions -> Titles] /\ edits \in 0..MaxEdits
  /\ renames \in [Sessions -> Nat]
  /\ claim \in {"absent", "torn"} \cup Sessions /\ completed \in BOOLEAN
  /\ b \in [Helpers -> Backend] /\ \A h \in Helpers : b[h].work <= MaxSlots
  /\ call \in [Messages -> Active \cup {"idle", "injected", "rejected", "uncertain"}]
  /\ at \in [Messages -> Helpers \cup {None}] /\ expired \subseteq Messages

Fresh ==
  [pc |-> "idle", session |-> None, requested |-> FALSE, row |-> "native",
   identity |-> "native", changed |-> FALSE, notice |-> FALSE, ending |-> FALSE,
   cancelled |-> FALSE, admitted |-> FALSE, observer |-> "none", peer |-> "none",
   hello |-> "native", ready |-> FALSE, work |-> 0, gate |-> TRUE, shutdown |-> "idle"]

Init ==
  /\ actor = [s \in Sessions |-> "absent"]
  /\ title = [s \in Sessions |-> "native"]
  /\ edits = 0 /\ renames = [s \in Sessions |-> 0]
  /\ claim = "absent" /\ completed = FALSE
  /\ b = [h \in Helpers |-> Fresh]
  /\ call = [m \in Messages |-> "idle"] /\ at = [m \in Messages |-> None]
  /\ expired = {}

-----------------------------------------------------------------------------
(* NewPeerBackend and the claim on the launch's name.                      *)

Running(h) == b[h].pc \notin Lost \cup {"done"}

\* Grok starts a helper for a session when the one before it has ended.
CanStart(h, s) ==
  b[h].pc = "idle" /\ \A g \in Helpers : b[g].session = s => ~Running(g)

\* Mutants, here and below: a definition as a plausible bug would have it.
GrantedToAnySession(s) == ~completed
GrantedAgain(s) == claim = s

\* A later helper of the owner's session goes on while the claim is not completed.
\* A claim without its owner's line cannot be interpreted.
Granted(s) == claim = s /\ ~completed

\* A claim that cannot be created or read costs the name and nothing else.
ClaimName(h, s) ==
  /\ CanStart(h, s)
  /\ \/ /\ claim = "absent" /\ claim' = "torn"
        /\ b' = [b EXCEPT ![h].session = s, ![h].pc = "claiming"]
     \/ /\ claim # "absent" /\ UNCHANGED claim
        /\ b' = [b EXCEPT ![h].session = s, ![h].pc = "new", ![h].requested = Granted(s)]
     \/ /\ "refuse" \in Faults /\ UNCHANGED claim
        /\ b' = [b EXCEPT ![h].session = s, ![h].pc = "new"]
  /\ UNCHANGED <<nativeVars, completed, callVars>>

\* An error of the write or of the close leaves the name unrequested, with the
\* owner's line in the file or without it.
RecordOwner(h) ==
  /\ b[h].pc = "claiming"
  /\ \/ /\ claim' = b[h].session
        /\ b' = [b EXCEPT ![h].pc = "new", ![h].requested = TRUE]
     \/ /\ "refuse" \in Faults /\ claim' \in {claim, b[h].session}
        /\ b' = [b EXCEPT ![h].pc = "new"]
  /\ UNCHANGED <<nativeVars, completed, callVars>>

-----------------------------------------------------------------------------
(* runOwner.                                                               *)

Goto(h, pc) == b' = [b EXCEPT ![h].pc = pc]
Owner(h) == UNCHANGED <<nativeVars, claimVars, callVars>>

\* The MCP initialize response is out.
Initialized(h) == b[h].pc = "new" /\ Goto(h, "start") /\ Owner(h)

\* Whatever fails a request of runOwner, or ends one of its waits.
Broken(h) == b[h].cancelled \/ b[h].observer # "up"

\* The context may also end while the observer starts.
StartObserver(h) ==
  /\ b[h].pc = "start"
  /\ \/ b' = [b EXCEPT ![h].observer = "up",
                       ![h].pc = IF b[h].ending THEN "leave" ELSE "roster"]
     \/ (b[h].cancelled \/ "observer" \in Faults) /\ Goto(h, "leave")
  /\ Owner(h)

\* The roster row of the session; to have none yet is not an error the first time,
\* a request that fails or a row that cannot be used is.
ReadRoster(h, absent, live) ==
  LET s == b[h].session IN
  \/ (Broken(h) \/ "refuse" \in Faults) /\ Goto(h, "leave")
  \/ /\ ~Broken(h)
     /\ b' = [b EXCEPT ![h].row = IF actor[s] = "live" THEN title[s] ELSE @,
                       ![h].pc = CASE actor[s] = "live" -> live
                                   [] actor[s] = "absent" -> absent
                                   [] actor[s] = "gone" -> "leave"]

FirstRoster(h) == b[h].pc = "roster" /\ ReadRoster(h, "absent", "name") /\ Owner(h)

AwaitActor(h) ==
  /\ b[h].pc = "absent"
  /\ \/ b[h].changed /\ b' = [b EXCEPT ![h].changed = FALSE, ![h].pc = "roster"]
     \/ Broken(h) /\ Goto(h, "leave")
  /\ Owner(h)

\* A change of the roster is announced to every observer (announcements on the way
\* count as one: each only asks for one more look).
Announced ==
  [h \in Helpers |-> [b[h] EXCEPT !.notice = @ \/ b[h].observer = "up"]]

NameSettled(h) ==
  /\ b[h].pc = "name"
  /\ ~b[h].requested \/ b[h].row = "requested"
  /\ Goto(h, IF b[h].requested THEN "complete" ELSE "connect")
  /\ Owner(h)

\* The native rename; its reply can be lost when it is already applied.
ApplyName(h) ==
  LET s == b[h].session IN
  /\ b[h].pc = "name" /\ b[h].requested /\ b[h].row # "requested"
  /\ ~Broken(h) /\ actor[s] = "live"
  /\ title' = [title EXCEPT ![s] = "requested"]
  /\ renames' = [renames EXCEPT ![s] = @ + 1]
  /\ b' = [Announced EXCEPT ![h].pc = "confirm"]
  /\ UNCHANGED <<actor, edits, claimVars, callVars>>

NameFails(h) ==
  /\ b[h].pc = "name" /\ b[h].requested /\ b[h].row # "requested"
  /\ Broken(h) \/ actor[b[h].session] # "live" \/ "refuse" \in Faults
  /\ Goto(h, "leave")
  /\ Owner(h)

Confirm(h) ==
  /\ b[h].pc = "confirm"
  /\ ReadRoster(h, "leave",
       IF title[b[h].session] = "requested" THEN "complete" ELSE "leave")
  /\ Owner(h)

\* completeInitialName, whose failure costs nothing but the completion.
Complete(h) ==
  /\ b[h].pc = "complete"
  /\ \/ completed' = TRUE
     \/ "refuse" \in Faults /\ UNCHANGED completed
  /\ Goto(h, "connect")
  /\ UNCHANGED <<nativeVars, claim, callVars>>

\* The peer and the ending flag are exchanged in one critical section; there may
\* be no peer to be had.
Connect(h) ==
  /\ b[h].pc = "connect"
  /\ \/ b' = [b EXCEPT ![h].identity = b[h].row, ![h].hello = b[h].row,
                       ![h].peer = IF b[h].ending THEN "closed" ELSE "offline",
                       ![h].pc = IF b[h].ending THEN "leave" ELSE "await"]
     \/ "bus" \in Faults /\ b' = [b EXCEPT ![h].identity = b[h].row, ![h].pc = "leave"]
  /\ Owner(h)

AwaitReady(h) ==
  /\ b[h].pc = "await"
  /\ \/ b[h].ready /\ b' = [b EXCEPT ![h].admitted = TRUE, ![h].pc = "serve"]
     \/ (Broken(h) \/ b[h].peer = "closed") /\ Goto(h, "leave")
  /\ Owner(h)

Serve(h) ==
  /\ b[h].pc = "serve"
  /\ \/ b[h].changed /\ b' = [b EXCEPT ![h].changed = FALSE, ![h].pc = "reread"]
     \/ (Broken(h) \/ b[h].peer = "closed") /\ Goto(h, "leave")
  /\ Owner(h)

Reread(h) == b[h].pc = "reread" /\ ReadRoster(h, "leave", "publish") /\ Owner(h)

\* publish: nothing to do for the identity already published.
Publish(h) ==
  /\ b[h].pc = "publish"
  /\ Goto(h, CASE b[h].ending -> "leave"
               [] ~b[h].ending /\ b[h].row = b[h].identity -> "serve"
               [] ~b[h].ending /\ b[h].row # b[h].identity -> "rehello")
  /\ Owner(h)

\* Rehello gives the peer its new hello; a peer that is offline greets with it later.
Rehello(h) ==
  /\ b[h].pc = "rehello"
  /\ \/ (b[h].cancelled \/ b[h].peer = "closed" \/ "bus" \in Faults) /\ Goto(h, "leave")
     \/ /\ ~b[h].cancelled /\ b[h].peer # "closed"
        /\ b' = [b EXCEPT ![h].hello = b[h].row, ![h].pc = "serve",
                          ![h].identity = IF b[h].ending THEN @ ELSE b[h].row]
  /\ Owner(h)

\* The lifetime of a helper ends: its context, then its peer.
Quit(x) == [x EXCEPT !.cancelled = TRUE, !.peer = IF @ = "none" THEN @ ELSE "closed"]

\* run's deferred function: ending is marked, the peer closed, deliveries are joined,
\* and only then the observer is stopped, unless the context has closed it already.
Leave(h) ==
  /\ b[h].pc = "leave"
  /\ b' = [b EXCEPT ![h].ending = TRUE, ![h].pc = "quit"]
  /\ Owner(h)

LeaveBus(h) ==
  /\ b[h].pc = "quit"
  /\ b' = [b EXCEPT ![h] = [Quit(b[h]) EXCEPT !.pc = "join"]]
  /\ Owner(h)

NotJoined(h) == b[h].peer \in {"none", "closed"}    \* mutant: no work.Wait
Joined(h) == b[h].work = 0

Join(h) ==
  /\ b[h].pc = "join" /\ Joined(h)
  /\ b' = [b EXCEPT ![h].pc = "done",
                    ![h].observer = IF @ = "up" THEN "done" ELSE @]
  /\ Owner(h)

\* The observer is closed with the lifetime it was started for.
ObserverCloses(h) ==
  /\ b[h].observer = "up" /\ b[h].cancelled
  /\ b' = [b EXCEPT ![h].observer = "done"]
  /\ Owner(h)

Shutdown(h) ==
  /\ "shutdown" \in Faults
  /\ b[h].pc \notin Lost \cup {"claiming"} /\ b[h].shutdown = "idle"
  /\ b' = [b EXCEPT ![h].ending = TRUE, ![h].shutdown = "marked"]
  /\ Owner(h)

\* Mutant: a helper that never ran is never done.
ShutdownOfRunning(h) ==
  /\ b[h].shutdown = "marked"
  /\ b' = [b EXCEPT ![h] = [Quit(b[h]) EXCEPT
                              !.observer = IF @ = "up" THEN "done" ELSE @,
                              !.shutdown = "waiting"]]
  /\ Owner(h)

\* A helper that never ran is done at once.
ShutdownStops(h) ==
  /\ b[h].shutdown = "marked"
  /\ b' = [b EXCEPT ![h] = [Quit(b[h]) EXCEPT
                              !.observer = IF @ = "up" THEN "done" ELSE @,
                              !.pc = IF @ = "new" THEN "done" ELSE @,
                              !.shutdown = "waiting"]]
  /\ Owner(h)

ShutdownReturns(h) ==
  /\ b[h].shutdown = "waiting" /\ b[h].pc = "done"
  /\ b' = [b EXCEPT ![h].shutdown = "returned"]
  /\ Owner(h)

OwnerStep(h) ==
  \/ RecordOwner(h) \/ StartObserver(h) \/ FirstRoster(h) \/ AwaitActor(h)
  \/ NameSettled(h) \/ ApplyName(h) \/ NameFails(h) \/ Confirm(h) \/ Complete(h)
  \/ Connect(h) \/ AwaitReady(h) \/ Serve(h) \/ Reread(h) \/ Publish(h)
  \/ Rehello(h) \/ Leave(h) \/ LeaveBus(h) \/ Join(h) \/ ObserverCloses(h)
  \/ ShutdownStops(h) \/ ShutdownReturns(h)

-----------------------------------------------------------------------------
(* deliverOwned and deliver.                                               *)

Wait(m, where) == call' = [call EXCEPT ![m] = where] /\ UNCHANGED <<at, expired>>

\* Mutants: the slot is given back twice; the gate by one who never took it.
ReturnSlotTwice(m, outcome) ==
  /\ Wait(m, outcome)
  /\ b' = [b EXCEPT ![at[m]].work = @ - 2,
                    ![at[m]].gate = @ \/ call[m] \in {"holding", "interject"}]
ReturnWithGate(m, outcome) ==
  Wait(m, outcome) /\ b' = [b EXCEPT ![at[m]].work = @ - 1, ![at[m]].gate = TRUE]

\* Every end of an admitted delivery gives back its slot, and the gate if it has it.
Return(m, outcome) ==
  /\ Wait(m, outcome)
  /\ b' = [b EXCEPT ![at[m]].work = @ - 1,
                    ![at[m]].gate = @ \/ call[m] \in {"holding", "interject"}]

\* The callback of a connection that was admitted, which may have gone since.
DeliverOwned(m, h) ==
  /\ call[m] = "idle" /\ b[h].ready
  /\ at' = [at EXCEPT ![m] = h]
  /\ call' = [call EXCEPT ![m] = IF b[h].ending THEN "rejected"
                                 ELSE IF b[h].work >= MaxSlots THEN "uncertain"
                                 ELSE "ready"]
  /\ b' = [b EXCEPT ![h].work = IF call'[m] = "ready" THEN @ + 1 ELSE @]
  /\ UNCHANGED <<nativeVars, claimVars, expired>>

Unavailable(h) == b[h].ending \/ ~b[h].admitted
\* ready or done is closed.
Settled(h) == b[h].admitted \/ b[h].pc = "done"

\* waitReady, which the end of the helper alone does not end.  runOwner's error is
\* set when it has returned.
WaitReady(m) ==
  /\ call[m] = "ready"
  /\ \/ m \in expired /\ Return(m, "uncertain")
     \/ /\ Settled(at[m])
        /\ Unavailable(at[m]) \/ b[at[m]].pc = "leave"
        /\ Return(m, "uncertain")
     \/ Settled(at[m]) /\ ~Unavailable(at[m]) /\ Wait(m, "gate") /\ UNCHANGED b
  /\ UNCHANGED <<nativeVars, claimVars>>

TakeGate(m) ==
  /\ call[m] = "gate"
  /\ \/ (m \in expired \/ b[at[m]].cancelled) /\ Return(m, "uncertain")
     \/ b[at[m]].gate /\ b' = [b EXCEPT ![at[m]].gate = FALSE] /\ Wait(m, "holding")
  /\ UNCHANGED <<nativeVars, claimVars>>

Interject(m) ==
  /\ call[m] = "holding"
  /\ IF b[at[m]].ending THEN Return(m, "rejected") ELSE Wait(m, "interject") /\ UNCHANGED b
  /\ UNCHANGED <<nativeVars, claimVars>>

\* interject by its contract (the module AcpClient has it in detail): Grok answers,
\* or the call ends with its context or with the observer.
InterjectAnswered(m) ==
  LET h == at[m] IN
  /\ call[m] = "interject" /\ b[h].observer = "up"
  /\ \/ actor[b[h].session] = "live" /\ Return(m, "injected")
     \/ (actor[b[h].session] # "live" \/ "refuse" \in Faults) /\ Return(m, "uncertain")
  /\ UNCHANGED <<nativeVars, claimVars>>

InterjectFails(m) ==
  /\ call[m] = "interject"
  /\ m \in expired \/ b[at[m]].observer # "up"
  /\ Return(m, "uncertain")
  /\ UNCHANGED <<nativeVars, claimVars>>

DeliveryStep(m) == WaitReady(m) \/ TakeGate(m) \/ Interject(m) \/ InterjectFails(m)

-----------------------------------------------------------------------------
(* Grok, the bus, the user and the launcher (external).                    *)

\* The observer's notification: one more change to look at is enough.
ReceiveUnbuffered(h) ==                   \* mutant: nobody listens, nothing is kept
  /\ b[h].notice /\ b[h].observer = "up"
  /\ b' = [b EXCEPT ![h].notice = FALSE,
                    ![h].changed = b[h].pc \in {"absent", "serve"}]
  /\ Owner(h)
ReceiveChange(h) ==
  /\ b[h].notice /\ b[h].observer = "up"
  /\ b' = [b EXCEPT ![h].notice = FALSE, ![h].changed = TRUE]
  /\ Owner(h)

ActorLoads(s) ==
  /\ actor[s] = "absent"
  /\ actor' = [actor EXCEPT ![s] = "live"] /\ b' = Announced
  /\ UNCHANGED <<title, edits, renames, claimVars, callVars>>

ActorEnds(s) ==
  /\ "actor" \in Faults /\ actor[s] = "live"
  /\ actor' = [actor EXCEPT ![s] = "gone"] /\ b' = Announced
  /\ UNCHANGED <<title, edits, renames, claimVars, callVars>>

UserRenames(s) ==
  /\ edits < MaxEdits /\ actor[s] = "live"
  /\ edits' = edits + 1
  /\ \E t \in Titles \ {title[s], "requested"} : title' = [title EXCEPT ![s] = t]
  /\ b' = Announced
  /\ UNCHANGED <<actor, renames, claimVars, callVars>>

ObserverEnds(h) ==
  /\ "observer" \in Faults /\ b[h].observer = "up"
  /\ b' = [b EXCEPT ![h].observer = "done"]
  /\ Owner(h)

\* The daemon takes the hello; it can go away, and it can end the peer for good.
BusAdmits(h) ==
  /\ b[h].peer = "offline"
  /\ b' = [b EXCEPT ![h].peer = "online", ![h].ready = TRUE]
  /\ Owner(h)

BusEnds(h) ==
  /\ b[h].peer = "online"
  /\ \E p \in (IF "bus" \in Faults THEN {"offline"} ELSE {})
             \cup (IF "supersede" \in Faults THEN {"closed"} ELSE {}) :
       b' = [b EXCEPT ![h].peer = p]
  /\ Owner(h)

\* The launch ends: the helper's context is over before Shutdown is called.
LaunchEnds(h) ==
  /\ "launch" \in Faults /\ Running(h) /\ ~b[h].cancelled
  /\ b' = [b EXCEPT ![h].cancelled = TRUE]
  /\ Owner(h)

\* A delivery's context ends with the connection it came from.
Expires(m) ==
  /\ call[m] \in Active /\ m \notin expired
  /\ b[at[m]].peer = "closed"
  /\ expired' = expired \cup {m}
  /\ UNCHANGED <<nativeVars, claimVars, b, call, at>>

CancelCaller(m) ==
  /\ "cancelCaller" \in Faults
  /\ call[m] \in Active /\ m \notin expired
  /\ expired' = expired \cup {m}
  /\ UNCHANGED <<nativeVars, claimVars, b, call, at>>

\* A helper is killed; its observer and its peer go with it.
Kill(h) ==
  /\ "kill" \in Faults /\ Running(h)
  /\ b' = [b EXCEPT ![h] = [Fresh EXCEPT !.pc = "killed", !.session = b[h].session]]
  /\ call' = [m \in Messages |-> IF at[m] = h /\ call[m] \in Active
                                 THEN "uncertain" ELSE call[m]]
  /\ UNCHANGED <<nativeVars, claimVars, at, expired>>

HelperStep(h) ==
  \/ \E s \in Sessions : ClaimName(h, s)
  \/ Initialized(h) \/ Shutdown(h) \/ LaunchEnds(h) \/ Kill(h) \/ ObserverEnds(h)
  \/ ReceiveChange(h) \/ BusAdmits(h) \/ BusEnds(h)

Next ==
  \/ \E h \in Helpers : OwnerStep(h) \/ HelperStep(h)
  \/ \E s \in Sessions : ActorLoads(s) \/ ActorEnds(s) \/ UserRenames(s)
  \/ \E m \in Messages :
       \/ DeliveryStep(m) \/ InterjectAnswered(m) \/ Expires(m) \/ CancelCaller(m)
       \/ \E h \in Helpers : DeliverOwned(m, h)

Spec == Init /\ [][Next]_vars

\* The goroutines of a helper run on while the observer's frames arrive, and so does
\* each delivery, whose context the SDK ends once its connection is closed.  Nothing is
\* assumed of the bus, the user, the launcher or Grok's own decisions; an interject
\* that Grok never answers ends with its context or the observer.
Fairness ==
  /\ \A h \in Helpers : WF_vars(OwnerStep(h) \/ ReceiveChange(h))
  /\ \A m \in Messages : WF_vars(DeliveryStep(m) \/ Expires(m))

FairSpec == Spec /\ Fairness

-----------------------------------------------------------------------------
(* Safety.                                                                 *)

\* The launch's name goes to one session only, the one the claim records, however
\* many helpers of however many sessions start, die and start again.
OnlyOwnerNamed == \A s \in Sessions : renames[s] > 0 => claim = s

\* Once the claim is completed no helper requests the name again, so a title the
\* user chooses afterwards stays.
NameFinal == [][completed => UNCHANGED renames]_vars

\* What a helper asks of Grok for the bus is serialized: one interject at a time,
\* and the gate's token is in one place, so the deferred send never blocks.
Gated(h) == {m \in Messages : at[m] = h /\ call[m] \in {"holding", "interject"}}
OneInterject ==
  \A h \in Helpers :
    /\ b[h].gate <=> Gated(h) = {}
    /\ \A m \in Gated(h), n \in Gated(h) : m = n

\* done means done: when it is closed no delivery of the helper is under way, none
\* can begin, and the observer has stopped.
DoneQuiet ==
  \A h \in Helpers : b[h].pc = "done" =>
    /\ b[h].ending /\ b[h].observer # "up"
    /\ \A m \in Messages : at[m] = h => call[m] \notin Active

-----------------------------------------------------------------------------
(* Liveness.                                                               *)

\* A title change is published, or the helper is about to leave: no change is lost
\* however it falls between a roster reply, the admission and a publication.
Stale(h) == b[h].pc = "serve" /\ b[h].hello # title[b[h].session]
TitlePublished == \A h \in Helpers : Stale(h) ~> ~Stale(h)

\* Shutdown returns, whatever runOwner waits for and whatever is being delivered.
ShutdownEnds ==
  \A h \in Helpers : b[h].shutdown = "marked" ~> b[h].shutdown \notin {"marked", "waiting"}
=============================================================================
