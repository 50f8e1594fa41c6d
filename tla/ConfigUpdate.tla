---------------------------- MODULE ConfigUpdate ----------------------------
(***************************************************************************)
(* The config step of every managed launch (wrappers/grok/                 *)
(* config_permission.go): under an advisory lock it puts one permission    *)
(* rule into Grok's config.toml, a file that Grok and its user write too,  *)
(* without the lock, in place or by replacing it.                          *)
(*                                                                         *)
(* A step is one system call on the lock, the file or its directory.  A    *)
(* document is what the step tells apart in a TOML text: how it represents *)
(* permissions, where it has the rule, and which foreign edits it carries. *)
(***************************************************************************)
EXTENDS Integers, FiniteSets

CONSTANTS Starts,      \* launches of a wrapper, each of them once
          Managed,     \* those that are interactive launches (ensureManagedConfig)
          Edits,       \* edits by Grok or its user, each of them once
          Documents,   \* documents before any edit, and what an edit may leave
          None,        \* no start, no edit
          MaxTries,    \* attempts to take the lock, 50 in the code
          Faults       \* what the surroundings may do: "io", "kill"

(* A document decodes or does not; permission is absent, active as compact *)
(* arrays or as rules; allow and rules are missing, lack the rule or have  *)
(* it; an edit of it decodes to what the updater expects or not; the       *)
(* helper is registered and enabled or not.                                *)
Array == {"none", "bare", "own"}
Document ==
  {d \in [valid : BOOLEAN, shape : {"absent", "compact", "structured"}, allow : Array,
          rules : Array, editable : BOOLEAN, registered : BOOLEAN, edits : SUBSET Edits] :
     /\ d.shape # "compact" => d.allow = "none"
     /\ d.shape = "absent" => d.rules = "none"}

Empty ==
  [valid |-> TRUE, shape |-> "absent", allow |-> "none", rules |-> "none",
   editable |-> TRUE, registered |-> FALSE, edits |-> {}]

ASSUME ConfigAssumption ==
  /\ None \notin Starts \cup Edits /\ Managed \subseteq Starts
  /\ Documents \subseteq Document /\ \A d \in Documents : d.edits = {}
  /\ MaxTries \in Nat \ {0} /\ Faults \subseteq {"io", "kill"}

VARIABLES
  file,      \* config.toml: its identity, 0 if it is absent, and its document
  fresh,     \* the last identity given
  writing,   \* an in-place edit that has truncated the file: edit, ino, doc, or None
  edited,    \* edits made
  holder,    \* the start that has the lock, or None
  temps,     \* starts whose temporary file exists
  pc,        \* where each start is
  tries,     \* its attempts to take the lock
  dest,      \* the identity it bound
  original,  \* what it read
  outcome,   \* what it returns, or will
  quiet      \* the points of it after which no foreign write happened

foreign == <<writing, edited>>
startVars == <<tries, dest, original>>
vars == <<file, fresh, foreign, holder, temps, pc, startVars, outcome, quiet>>

Outcomes == {"none", "ok", "refused", "changed", "timeout", "error", "unregistered"}
Locked == {"bind", "read", "create", "prove", "compare", "rename", "sync", "unlock"}

(* The type of every variable.                                             *)
FileTypeOK ==
  /\ fresh \in Nat /\ file \in [ino : 0..fresh, doc : Document]
  /\ writing \in {None} \cup [edit : Edits, ino : 0..fresh, doc : Document]
  /\ edited \subseteq Edits /\ holder \in Starts \cup {None} /\ temps \subseteq Starts

StartTypeOK ==
  /\ pc \in [Starts -> Locked \cup {"idle", "lock", "ended", "killed"}]
  /\ tries \in [Starts -> 0..MaxTries] /\ dest \in [Starts -> 0..fresh]
  /\ original \in [Starts -> Document] /\ outcome \in [Starts -> Outcomes]
  /\ quiet \in [Starts -> SUBSET {"bound", "checked", "settled"}]

TypeOK == FileTypeOK /\ StartTypeOK

Init ==
  /\ \/ file = [ino |-> 0, doc |-> Empty] /\ fresh = 0
     \/ file \in [ino : {1}, doc : Documents] /\ fresh = 1
  /\ writing = None /\ edited = {} /\ holder = None /\ temps = {}
  /\ pc = [p \in Starts |-> "idle"] /\ tries = [p \in Starts |-> 0]
  /\ dest = [p \in Starts |-> 0] /\ original = [p \in Starts |-> Empty]
  /\ outcome = [p \in Starts |-> "none"] /\ quiet = [p \in Starts |-> {}]

Move(p, from, to) == pc[p] = from /\ pc' = [pc EXCEPT ![p] = to]
Reached(p, points) == quiet' = [quiet EXCEPT ![p] = @ \cup points]

-----------------------------------------------------------------------------
(* The document.                                                           *)

\* Mutant: the rule counts wherever it stands.
GrantedAnywhere(d) == d.allow = "own" \/ d.rules = "own"

\* parsePermissionConfig: compact arrays make the rules inactive.
Granted(d) == IF d.shape = "compact" THEN d.allow = "own" ELSE d.rules = "own"

\* addSessionbusPermission.
WithRule(d) ==
  CASE d.shape = "absent" -> [d EXCEPT !.shape = "compact", !.allow = "own"]
    [] d.shape = "compact" -> [d EXCEPT !.allow = "own"]
    [] d.shape = "structured" -> [d EXCEPT !.rules = "own"]

\* The updater locates the edit, and the result decodes to what it expects.
CanAdd(d) == (d.editable \/ d.shape = "absent") /\ Granted(WithRule(d))

-----------------------------------------------------------------------------
(* A start.                                                                *)

Begin(p) ==
  /\ Move(p, "idle", "lock")
  /\ UNCHANGED <<file, fresh, foreign, holder, temps, startVars, outcome, quiet>>

\* Mutant: a shared lock.
TakeLockShared(p) ==
  /\ Move(p, "lock", "bind") /\ holder' = p
  /\ UNCHANGED <<file, fresh, foreign, temps, startVars, outcome, quiet>>

\* acquireGrokConfigLock: one attempt that succeeds.
TakeLock(p) ==
  /\ holder = None
  /\ Move(p, "lock", "bind") /\ holder' = p
  /\ UNCHANGED <<file, fresh, foreign, temps, startVars, outcome, quiet>>

\* One that finds the lock taken: 20 ms later the next one, or the end.
LockBusy(p) ==
  /\ holder # None /\ pc[p] = "lock"
  /\ tries' = [tries EXCEPT ![p] = @ + 1]
  /\ IF tries'[p] < MaxTries THEN UNCHANGED <<pc, outcome>>
     ELSE pc' = [pc EXCEPT ![p] = "ended"] /\ outcome' = [outcome EXCEPT ![p] = "timeout"]
  /\ UNCHANGED <<file, fresh, foreign, holder, temps, dest, original, quiet>>

\* Mutant: the temporary file is removed only when it was renamed.
GiveUpLeaving(p, why) ==
  /\ outcome' = [outcome EXCEPT ![p] = why] /\ pc' = [pc EXCEPT ![p] = "unlock"]
  /\ UNCHANGED temps

\* The start gives up; the deferred functions remove its temporary file, and the
\* lock is released next.
GiveUp(p, why) ==
  /\ outcome' = [outcome EXCEPT ![p] = why] /\ pc' = [pc EXCEPT ![p] = "unlock"]
  /\ temps' = temps \ {p}

\* bindGrokConfigDestination.
Bind(p) ==
  /\ Move(p, "bind", "read")
  /\ dest' = [dest EXCEPT ![p] = file.ino] /\ Reached(p, {"bound"})
  /\ UNCHANGED <<file, fresh, foreign, holder, temps, tries, original, outcome>>

\* readGrokConfig of what was bound: nothing is read for an absent file.
ReadBy(p) == IF dest[p] = 0 THEN Empty ELSE file.doc

\* The read, and what follows from it alone.
Read(p) ==
  /\ pc[p] = "read"
  /\ original' = [original EXCEPT ![p] = ReadBy(p)]
  /\ LET d == ReadBy(p) IN
     \/ ~d.valid /\ GiveUp(p, "refused") /\ UNCHANGED quiet
     \/ d.valid /\ Granted(d) /\ GiveUp(p, "ok") /\ Reached(p, {"settled"})
     \/ d.valid /\ ~Granted(d) /\ ~CanAdd(d) /\ GiveUp(p, "refused") /\ UNCHANGED quiet
     \/ d.valid /\ ~Granted(d) /\ CanAdd(d) /\ Move(p, "read", "create")
        /\ UNCHANGED <<temps, outcome, quiet>>
  /\ UNCHANGED <<file, fresh, foreign, holder, tries, dest>>

\* writeGrokConfigAtomically, up to the closed temporary file.
CreateTemp(p) ==
  /\ Move(p, "create", "prove") /\ temps' = temps \cup {p}
  /\ UNCHANGED <<file, fresh, foreign, holder, startVars, outcome, quiet>>

\* A failure of the file system before the rename.
WriteFails(p) ==
  /\ "io" \in Faults /\ pc[p] \in {"bind", "read", "create", "prove", "compare", "rename"}
  /\ GiveUp(p, "error")
  /\ UNCHANGED <<file, fresh, foreign, holder, startVars, quiet>>

\* proveGrokConfigDestination.  Of an absent file this is the last look.
Prove(p) ==
  /\ pc[p] = "prove"
  /\ IF file.ino = dest[p]
     THEN Move(p, "prove", "compare") /\ UNCHANGED <<temps, outcome>>
          /\ Reached(p, IF dest[p] = 0 THEN {"checked"} ELSE {})
     ELSE GiveUp(p, "changed") /\ UNCHANGED quiet
  /\ UNCHANGED <<file, fresh, foreign, holder, startVars>>

\* Mutant: only the identity is compared.
CompareNothing(p) ==
  /\ Move(p, "compare", "rename") /\ Reached(p, {"checked"})
  /\ UNCHANGED <<file, fresh, foreign, holder, startVars, temps, outcome>>

\* The contents are read again.
Compare(p) ==
  /\ pc[p] = "compare"
  /\ IF ReadBy(p) = original[p]
     THEN Move(p, "compare", "rename") /\ UNCHANGED <<temps, outcome>>
          /\ Reached(p, IF dest[p] = 0 THEN {} ELSE {"checked"})
     ELSE GiveUp(p, "changed") /\ UNCHANGED quiet
  /\ UNCHANGED <<file, fresh, foreign, holder, startVars>>

Rename(p) ==
  /\ Move(p, "rename", "sync")
  /\ file' = [ino |-> fresh + 1, doc |-> WithRule(original[p])] /\ fresh' = fresh + 1
  /\ temps' = temps \ {p} /\ Reached(p, {"settled"})
  /\ UNCHANGED <<foreign, holder, startVars, outcome>>

\* The directory is synced; a failure is an error of the launch.
SyncDirectory(p) ==
  /\ Move(p, "sync", "unlock")
  /\ \/ outcome' = [outcome EXCEPT ![p] = "ok"]
     \/ "io" \in Faults /\ outcome' = [outcome EXCEPT ![p] = "error"]
  /\ UNCHANGED <<file, fresh, foreign, holder, temps, startVars, quiet>>

\* The lock is released; an interactive launch then looks for the registration in
\* what it read.
Unlock(p) ==
  /\ Move(p, "unlock", "ended") /\ holder' = None
  /\ outcome' = [outcome EXCEPT ![p] =
       IF @ = "ok" /\ p \in Managed /\ ~original[p].registered THEN "unregistered" ELSE @]
  /\ UNCHANGED <<file, fresh, foreign, temps, startVars, quiet>>

\* The process ends; the system releases its lock and leaves its temporary file.
Kill(p) ==
  /\ "kill" \in Faults /\ pc[p] \in Locked \cup {"lock"}
  /\ pc' = [pc EXCEPT ![p] = "killed"] /\ holder' = IF holder = p THEN None ELSE holder
  /\ UNCHANGED <<file, fresh, foreign, temps, startVars, outcome, quiet>>

StartStep(p) ==
  \/ TakeLock(p) \/ LockBusy(p) \/ Bind(p) \/ Read(p) \/ CreateTemp(p) \/ Prove(p) \/ Compare(p)
  \/ Rename(p) \/ SyncDirectory(p) \/ Unlock(p)

-----------------------------------------------------------------------------
(* Foreign writers.                                                        *)

Unsettled == quiet' = [p \in Starts |-> {}]
EditOf(e, d) == [d EXCEPT !.edits = file.doc.edits \cup {e}]

\* An edit that replaces the file, or creates it.
Replace(e, d) ==
  /\ writing = None /\ e \notin edited /\ edited' = edited \cup {e}
  /\ file' = [ino |-> fresh + 1, doc |-> EditOf(e, d)] /\ fresh' = fresh + 1
  /\ Unsettled /\ UNCHANGED <<writing, holder, temps, pc, startVars, outcome>>

\* An edit in place truncates the file and then fills it; by then it may have been
\* renamed away.
Truncate(e, d) ==
  /\ writing = None /\ e \notin edited /\ edited' = edited \cup {e} /\ file.ino # 0
  /\ writing' = [edit |-> e, ino |-> file.ino, doc |-> EditOf(e, d)]
  /\ file' = [file EXCEPT !.doc = Empty]
  /\ Unsettled /\ UNCHANGED <<fresh, holder, temps, pc, startVars, outcome>>

Fill ==
  /\ writing # None /\ writing' = None
  /\ IF file.ino = writing.ino THEN file' = [file EXCEPT !.doc = writing.doc] /\ Unsettled
     ELSE UNCHANGED <<file, quiet>>
  /\ UNCHANGED <<fresh, edited, holder, temps, pc, startVars, outcome>>

Next ==
  \/ \E p \in Starts : Begin(p) \/ StartStep(p) \/ WriteFails(p) \/ Kill(p)
  \/ \E e \in Edits, d \in Documents : Replace(e, d) \/ Truncate(e, d)
  \/ Fill

Spec == Init /\ [][Next]_vars

-----------------------------------------------------------------------------
(* Safety.                                                                 *)

\* How Grok evaluates the file: compact arrays, if any, take precedence over rules.
InForce(d) ==
  \/ d.shape = "compact" /\ d.allow = "own"
  \/ d.shape = "structured" /\ d.rules = "own"

\* Once a start has found or written the rule, the rule is in force until somebody
\* else edits the file, whatever other starts do to it.
RuleInForce == \A p \in Starts : "settled" \in quiet[p] => file.doc.valid /\ InForce(file.doc)

\* An update drops no edit of Grok or its user, except one made in the gap between
\* the last look at the file and the rename, or half done in it.
ForeignEditKept ==
  [][\A p \in Starts :
       Rename(p) /\ "checked" \in quiet[p] /\ writing = None
         => file.doc.edits \subseteq file'.doc.edits]_vars

\* Starts that only meet each other never refuse a changed file: that outcome means
\* that somebody else wrote it since the start looked first.
StartsAgree == \A p \in Starts : outcome[p] = "changed" => "bound" \notin quiet[p]

\* A start that is over holds neither the lock, which would make the next one give
\* up after its attempts, nor a temporary file, unless it was killed.
NothingHeld ==
  /\ \A p \in Starts : holder = p <=> pc[p] \in Locked
  /\ \A p \in temps : pc[p] \in {"prove", "compare", "rename", "killed"}
=============================================================================
