-------------------------- MODULE ConfigUpdateProofs --------------------------
(***************************************************************************)
(* Proofs about the config step, for any launches, edits, documents and    *)
(* faults.  The lock makes the start that holds it the only one between    *)
(* bind and unlock, so what it read stays true until somebody else writes; *)
(* and what it renames into place was valid and has the rule where the     *)
(* shape of the document puts it in force.                                 *)
(***************************************************************************)
EXTENDS ConfigUpdate, TLAPS

Carrying == {"create", "prove", "compare", "rename"}

\* An absent file has no contents, and an edit in place has a file to fill.
AbsentIsEmpty ==
  /\ file.ino = 0 => file.doc = Empty
  /\ writing # None => writing.ino # 0

\* Before the lock is given back no outcome says that the file has changed, and no
\* last look has been taken before the destination is proved.
OutcomeAtEnd ==
  /\ \A p \in Starts : pc[p] \in {"idle", "lock", "bind"} => outcome[p] = "none"
  /\ \A p \in Starts : pc[p] \in {"idle", "lock", "bind", "read", "create", "prove"} =>
       "checked" \notin quiet[p]

\* A start that waits for the lock has an attempt left.
TriesLeft == \A p \in Starts : pc[p] \in {"idle", "lock"} => tries[p] < MaxTries

\* What a start carries to the rename is a document it can put the rule into.
CarriesRule ==
  \A p \in Starts : pc[p] \in Carrying => original[p].valid /\ Granted(WithRule(original[p]))

\* What a start has bound and read is what there is, unless somebody wrote it since.
ReadStands ==
  \A p \in Starts : "bound" \in quiet[p] =>
    /\ pc[p] \in Carrying \cup {"read"} => file.ino = dest[p]
    /\ pc[p] \in Carrying => ReadBy(p) = original[p]

\* After the last look every edit in the file is in what will replace it.
LastLookStands ==
  \A p \in Starts : pc[p] \in {"compare", "rename"} /\ "checked" \in quiet[p] =>
    file.doc.edits \subseteq original[p].edits

ConfigInv ==
  /\ TypeOK /\ TriesLeft /\ NothingHeld /\ AbsentIsEmpty /\ OutcomeAtEnd /\ CarriesRule
  /\ ReadStands /\ LastLookStands /\ StartsAgree /\ RuleInForce

-----------------------------------------------------------------------------
(* Documents.                                                              *)

LEMMA EmptyDocument == Empty \in Document /\ Empty.edits = {} /\ ~Granted(Empty)
BY DEF Empty, Document, Array, Granted

LEMMA EditedDocument ==
  ASSUME TypeOK, NEW e \in Edits, NEW d \in Documents
  PROVE  EditOf(e, d) \in Document
BY ConfigAssumption DEF EditOf, Document, TypeOK, FileTypeOK

\* addSessionbusPermission changes the permission only.
LEMMA WithRuleKeeps ==
  ASSUME NEW d \in Document
  PROVE  WithRule(d) \in Document /\ WithRule(d).valid = d.valid /\ WithRule(d).edits = d.edits
<1>1. d.shape \in {"absent", "compact", "structured"}
  BY DEF Document
<1>2. CASE d.shape = "absent"
  BY <1>2 DEF WithRule, Document, Array
<1>3. CASE d.shape = "compact"
  BY <1>3 DEF WithRule, Document, Array
<1>4. CASE d.shape = "structured"
  BY <1>4 DEF WithRule, Document, Array
<1> QED
  BY <1>1, <1>2, <1>3, <1>4

\* Where the updater finds the rule, Grok has it in force.
LEMMA GrantedInForce ==
  ASSUME NEW d \in Document, Granted(d)
  PROVE  InForce(d)
BY DEF Document, Granted, InForce, Array

-----------------------------------------------------------------------------
(* The initial states.                                                     *)

LEMMA InvInit == Init => ConfigInv
<1> SUFFICES ASSUME Init PROVE ConfigInv
  OBVIOUS
<1>1. TypeOK
  BY EmptyDocument, ConfigAssumption DEF Init, TypeOK, FileTypeOK, StartTypeOK, Outcomes
<1>2. AbsentIsEmpty
  BY DEF Init, AbsentIsEmpty
<1> QED
  BY <1>1, <1>2, ConfigAssumption
     DEF Init, ConfigInv, TriesLeft, NothingHeld, OutcomeAtEnd, CarriesRule, Carrying, ReadStands,
         LastLookStands, StartsAgree, RuleInForce, Locked

-----------------------------------------------------------------------------
(* The kinds of step.                                                      *)

StartMoves(p) == Begin(p) \/ StartStep(p) \/ WriteFails(p) \/ Kill(p)
ForeignMoves == (\E e \in Edits, d \in Documents : Replace(e, d) \/ Truncate(e, d)) \/ Fill

LEMMA Kinds ==
  [Next]_vars <=> (\E p \in Starts : StartMoves(p)) \/ ForeignMoves \/ UNCHANGED vars
BY DEF Next, StartMoves, ForeignMoves

LEMMA StartTypeKept ==
  ASSUME TypeOK, TriesLeft, [Next]_vars
  PROVE  StartTypeOK'
<1> USE DEF TypeOK, StartTypeOK, FileTypeOK, startVars, foreign, Outcomes, Locked
<1>1. ASSUME NEW p \in Starts, StartMoves(p) PROVE StartTypeOK'
  <2>1. CASE Begin(p)
    BY <2>1 DEF Begin, Move
  <2>2. CASE TakeLock(p)
    BY <2>2 DEF TakeLock, Move
  <2>3. CASE LockBusy(p)
    BY <2>3, ConfigAssumption DEF LockBusy, TriesLeft
  <2>4. CASE Bind(p)
    BY <2>4 DEF Bind, Move, Reached
  <2>5. CASE Read(p)
    BY <2>5, EmptyDocument DEF Read, Move, GiveUp, Reached, ReadBy
  <2>6. CASE CreateTemp(p)
    BY <2>6 DEF CreateTemp, Move
  <2>7. CASE Prove(p)
    BY <2>7 DEF Prove, Move, GiveUp, Reached
  <2>8. CASE Compare(p)
    BY <2>8 DEF Compare, Move, GiveUp, Reached, ReadBy
  <2>9. CASE Rename(p)
    BY <2>9, WithRuleKeeps DEF Rename, Move, Reached
  <2>10. CASE SyncDirectory(p)
    BY <2>10 DEF SyncDirectory, Move
  <2>11. CASE Unlock(p)
    BY <2>11 DEF Unlock, Move
  <2>12. CASE WriteFails(p)
    BY <2>12 DEF WriteFails, GiveUp
  <2>13. CASE Kill(p)
    BY <2>13 DEF Kill
  <2> QED
    BY <1>1, <2>1, <2>2, <2>3, <2>4, <2>5, <2>6, <2>7, <2>8, <2>9, <2>10, <2>11, <2>12, <2>13
       DEF StartMoves, StartStep
<1>2. ASSUME NEW e \in Edits, NEW d \in Documents, Replace(e, d) PROVE StartTypeOK'
  BY <1>2 DEF Replace, Unsettled
<1>3. ASSUME NEW e \in Edits, NEW d \in Documents, Truncate(e, d) PROVE StartTypeOK'
  BY <1>3 DEF Truncate, Unsettled
<1>4. CASE Fill
  BY <1>4 DEF Fill, Unsettled
<1>5. CASE UNCHANGED vars
  BY <1>5 DEF vars
<1> QED
  BY Kinds, <1>1, <1>2, <1>3, <1>4, <1>5 DEF ForeignMoves

LEMMA TriesLeftKept ==
  ASSUME TypeOK, TriesLeft, [Next]_vars
  PROVE  TriesLeft'
<1> USE DEF TypeOK, StartTypeOK, TriesLeft, startVars, foreign, Locked
<1>1. ASSUME NEW p \in Starts, StartMoves(p) PROVE TriesLeft'
  <2>1. CASE Begin(p)
    BY <2>1 DEF Begin, Move
  <2>2. CASE TakeLock(p)
    BY <2>2 DEF TakeLock, Move
  <2>3. CASE LockBusy(p)
    BY <2>3 DEF LockBusy
  <2>4. CASE Bind(p)
    BY <2>4 DEF Bind, Move, Reached
  <2>5. CASE Read(p)
    BY <2>5 DEF Read, Move, GiveUp, Reached, ReadBy
  <2>6. CASE CreateTemp(p)
    BY <2>6 DEF CreateTemp, Move
  <2>7. CASE Prove(p)
    BY <2>7 DEF Prove, Move, GiveUp, Reached
  <2>8. CASE Compare(p)
    BY <2>8 DEF Compare, Move, GiveUp, Reached, ReadBy
  <2>9. CASE Rename(p)
    BY <2>9 DEF Rename, Move, Reached
  <2>10. CASE SyncDirectory(p)
    BY <2>10 DEF SyncDirectory, Move
  <2>11. CASE Unlock(p)
    BY <2>11 DEF Unlock, Move
  <2>12. CASE WriteFails(p)
    BY <2>12 DEF WriteFails, GiveUp
  <2>13. CASE Kill(p)
    BY <2>13 DEF Kill
  <2> QED
    BY <1>1, <2>1, <2>2, <2>3, <2>4, <2>5, <2>6, <2>7, <2>8, <2>9, <2>10, <2>11, <2>12, <2>13
       DEF StartMoves, StartStep
<1>2. ASSUME NEW e \in Edits, NEW d \in Documents, Replace(e, d) PROVE TriesLeft'
  BY <1>2 DEF Replace, Unsettled
<1>3. ASSUME NEW e \in Edits, NEW d \in Documents, Truncate(e, d) PROVE TriesLeft'
  BY <1>3 DEF Truncate, Unsettled
<1>4. CASE Fill
  BY <1>4 DEF Fill, Unsettled
<1>5. CASE UNCHANGED vars
  BY <1>5 DEF vars
<1> QED
  BY Kinds, <1>1, <1>2, <1>3, <1>4, <1>5 DEF ForeignMoves

LEMMA FileTypeKept ==
  ASSUME TypeOK, [Next]_vars
  PROVE  FileTypeOK'
<1> USE DEF TypeOK, StartTypeOK, FileTypeOK, startVars, foreign, Outcomes, Locked
<1>1. ASSUME NEW p \in Starts, StartMoves(p) PROVE FileTypeOK'
  <2>1. CASE Begin(p)
    BY <2>1 DEF Begin, Move
  <2>2. CASE TakeLock(p)
    BY <2>2 DEF TakeLock, Move
  <2>3. CASE LockBusy(p)
    BY <2>3 DEF LockBusy
  <2>4. CASE Bind(p)
    BY <2>4 DEF Bind, Move, Reached
  <2>5. CASE Read(p)
    BY <2>5, EmptyDocument DEF Read, Move, GiveUp, Reached, ReadBy
  <2>6. CASE CreateTemp(p)
    BY <2>6 DEF CreateTemp, Move
  <2>7. CASE Prove(p)
    BY <2>7 DEF Prove, Move, GiveUp, Reached
  <2>8. CASE Compare(p)
    BY <2>8 DEF Compare, Move, GiveUp, Reached, ReadBy
  <2>9. CASE Rename(p)
    BY <2>9, WithRuleKeeps DEF Rename, Move, Reached
  <2>10. CASE SyncDirectory(p)
    BY <2>10 DEF SyncDirectory, Move
  <2>11. CASE Unlock(p)
    BY <2>11 DEF Unlock, Move
  <2>12. CASE WriteFails(p)
    BY <2>12 DEF WriteFails, GiveUp
  <2>13. CASE Kill(p)
    BY <2>13 DEF Kill
  <2> QED
    BY <1>1, <2>1, <2>2, <2>3, <2>4, <2>5, <2>6, <2>7, <2>8, <2>9, <2>10, <2>11, <2>12, <2>13
       DEF StartMoves, StartStep
<1>2. ASSUME NEW e \in Edits, NEW d \in Documents, Replace(e, d) PROVE FileTypeOK'
  BY <1>2, EditedDocument DEF Replace, Unsettled
<1>3. ASSUME NEW e \in Edits, NEW d \in Documents, Truncate(e, d) PROVE FileTypeOK'
  BY <1>3, EditedDocument, EmptyDocument DEF Truncate, Unsettled
<1>4. CASE Fill
  BY <1>4 DEF Fill, Unsettled
<1>5. CASE UNCHANGED vars
  BY <1>5 DEF vars
<1> QED
  BY Kinds, <1>1, <1>2, <1>3, <1>4, <1>5 DEF ForeignMoves

LEMMA NothingHeldKept ==
  ASSUME TypeOK, NothingHeld, [Next]_vars
  PROVE  NothingHeld'
<1> USE DEF TypeOK, StartTypeOK, FileTypeOK, NothingHeld, startVars, foreign, Locked
<1>1. ASSUME NEW p \in Starts, StartMoves(p) PROVE NothingHeld'
  <2>1. CASE Begin(p)
    BY <2>1, ConfigAssumption DEF Begin, Move
  <2>2. CASE TakeLock(p)
    BY <2>2, ConfigAssumption DEF TakeLock, Move
  <2>3. CASE LockBusy(p)
    BY <2>3, ConfigAssumption DEF LockBusy
  <2>4. CASE Bind(p)
    BY <2>4, ConfigAssumption DEF Bind, Move, Reached
  <2>5. CASE Read(p)
    BY <2>5, ConfigAssumption DEF Read, Move, GiveUp, Reached, ReadBy
  <2>6. CASE CreateTemp(p)
    BY <2>6, ConfigAssumption DEF CreateTemp, Move
  <2>7. CASE Prove(p)
    BY <2>7, ConfigAssumption DEF Prove, Move, GiveUp, Reached
  <2>8. CASE Compare(p)
    BY <2>8, ConfigAssumption DEF Compare, Move, GiveUp, Reached, ReadBy
  <2>9. CASE Rename(p)
    BY <2>9, ConfigAssumption DEF Rename, Move, Reached
  <2>10. CASE SyncDirectory(p)
    BY <2>10, ConfigAssumption DEF SyncDirectory, Move
  <2>11. CASE Unlock(p)
    BY <2>11, ConfigAssumption DEF Unlock, Move
  <2>12. CASE WriteFails(p)
    BY <2>12, ConfigAssumption DEF WriteFails, GiveUp
  <2>13. CASE Kill(p)
    BY <2>13, ConfigAssumption DEF Kill
  <2> QED
    BY <1>1, <2>1, <2>2, <2>3, <2>4, <2>5, <2>6, <2>7, <2>8, <2>9, <2>10, <2>11, <2>12, <2>13
       DEF StartMoves, StartStep
<1>2. ASSUME NEW e \in Edits, NEW d \in Documents, Replace(e, d) PROVE NothingHeld'
  BY <1>2, ConfigAssumption DEF Replace, Unsettled
<1>3. ASSUME NEW e \in Edits, NEW d \in Documents, Truncate(e, d) PROVE NothingHeld'
  BY <1>3, ConfigAssumption DEF Truncate, Unsettled
<1>4. CASE Fill
  BY <1>4, ConfigAssumption DEF Fill, Unsettled
<1>5. CASE UNCHANGED vars
  BY <1>5 DEF vars
<1> QED
  BY Kinds, <1>1, <1>2, <1>3, <1>4, <1>5 DEF ForeignMoves

LEMMA AbsentIsEmptyKept ==
  ASSUME TypeOK, AbsentIsEmpty, [Next]_vars
  PROVE  AbsentIsEmpty'
<1> USE DEF TypeOK, FileTypeOK, AbsentIsEmpty, startVars, foreign
<1>1. ASSUME NEW p \in Starts, StartMoves(p) PROVE AbsentIsEmpty'
  <2>1. CASE Begin(p)
    BY <2>1 DEF Begin, Move
  <2>2. CASE TakeLock(p)
    BY <2>2 DEF TakeLock, Move
  <2>3. CASE LockBusy(p)
    BY <2>3 DEF LockBusy
  <2>4. CASE Bind(p)
    BY <2>4 DEF Bind, Move, Reached
  <2>5. CASE Read(p)
    BY <2>5 DEF Read, Move, GiveUp, Reached, ReadBy
  <2>6. CASE CreateTemp(p)
    BY <2>6 DEF CreateTemp, Move
  <2>7. CASE Prove(p)
    BY <2>7 DEF Prove, Move, GiveUp, Reached
  <2>8. CASE Compare(p)
    BY <2>8 DEF Compare, Move, GiveUp, Reached, ReadBy
  <2>9. CASE Rename(p)
    BY <2>9 DEF Rename, Move, Reached
  <2>10. CASE SyncDirectory(p)
    BY <2>10 DEF SyncDirectory, Move
  <2>11. CASE Unlock(p)
    BY <2>11 DEF Unlock, Move
  <2>12. CASE WriteFails(p)
    BY <2>12 DEF WriteFails, GiveUp
  <2>13. CASE Kill(p)
    BY <2>13 DEF Kill
  <2> QED
    BY <1>1, <2>1, <2>2, <2>3, <2>4, <2>5, <2>6, <2>7, <2>8, <2>9, <2>10, <2>11, <2>12, <2>13
       DEF StartMoves, StartStep
<1>2. ASSUME NEW e \in Edits, NEW d \in Documents, Replace(e, d) PROVE AbsentIsEmpty'
  BY <1>2 DEF Replace, Unsettled
<1>3. ASSUME NEW e \in Edits, NEW d \in Documents, Truncate(e, d) PROVE AbsentIsEmpty'
  BY <1>3, ConfigAssumption DEF Truncate, Unsettled
<1>4. CASE Fill
  BY <1>4 DEF Fill, Unsettled
<1>5. CASE UNCHANGED vars
  BY <1>5 DEF vars
<1> QED
  BY Kinds, <1>1, <1>2, <1>3, <1>4, <1>5 DEF ForeignMoves

LEMMA OutcomeAtEndKept ==
  ASSUME TypeOK, OutcomeAtEnd, [Next]_vars
  PROVE  OutcomeAtEnd'
<1> USE DEF TypeOK, StartTypeOK, OutcomeAtEnd, startVars, foreign, Locked
<1>1. ASSUME NEW p \in Starts, StartMoves(p) PROVE OutcomeAtEnd'
  <2>1. CASE Begin(p)
    BY <2>1 DEF Begin, Move
  <2>2. CASE TakeLock(p)
    BY <2>2 DEF TakeLock, Move
  <2>3. CASE LockBusy(p)
    BY <2>3 DEF LockBusy
  <2>4. CASE Bind(p)
    BY <2>4 DEF Bind, Move, Reached
  <2>5. CASE Read(p)
    BY <2>5 DEF Read, Move, GiveUp, Reached, ReadBy
  <2>6. CASE CreateTemp(p)
    BY <2>6 DEF CreateTemp, Move
  <2>7. CASE Prove(p)
    BY <2>7 DEF Prove, Move, GiveUp, Reached
  <2>8. CASE Compare(p)
    BY <2>8 DEF Compare, Move, GiveUp, Reached, ReadBy
  <2>9. CASE Rename(p)
    BY <2>9 DEF Rename, Move, Reached
  <2>10. CASE SyncDirectory(p)
    BY <2>10 DEF SyncDirectory, Move
  <2>11. CASE Unlock(p)
    BY <2>11 DEF Unlock, Move
  <2>12. CASE WriteFails(p)
    BY <2>12 DEF WriteFails, GiveUp
  <2>13. CASE Kill(p)
    BY <2>13 DEF Kill
  <2> QED
    BY <1>1, <2>1, <2>2, <2>3, <2>4, <2>5, <2>6, <2>7, <2>8, <2>9, <2>10, <2>11, <2>12, <2>13
       DEF StartMoves, StartStep
<1>2. ASSUME NEW e \in Edits, NEW d \in Documents, Replace(e, d) PROVE OutcomeAtEnd'
  BY <1>2 DEF Replace, Unsettled
<1>3. ASSUME NEW e \in Edits, NEW d \in Documents, Truncate(e, d) PROVE OutcomeAtEnd'
  BY <1>3 DEF Truncate, Unsettled
<1>4. CASE Fill
  BY <1>4 DEF Fill, Unsettled
<1>5. CASE UNCHANGED vars
  BY <1>5 DEF vars
<1> QED
  BY Kinds, <1>1, <1>2, <1>3, <1>4, <1>5 DEF ForeignMoves

LEMMA CarriesRuleKept ==
  ASSUME TypeOK, CarriesRule, [Next]_vars
  PROVE  CarriesRule'
<1> USE DEF TypeOK, StartTypeOK, CarriesRule, Carrying, startVars, foreign
<1>1. ASSUME NEW p \in Starts, StartMoves(p) PROVE CarriesRule'
  <2>1. CASE Begin(p)
    BY <2>1 DEF Begin, Move
  <2>2. CASE TakeLock(p)
    BY <2>2 DEF TakeLock, Move
  <2>3. CASE LockBusy(p)
    BY <2>3 DEF LockBusy
  <2>4. CASE Bind(p)
    BY <2>4 DEF Bind, Move, Reached
  <2>5. CASE Read(p)
    BY <2>5 DEF Read, Move, GiveUp, Reached, ReadBy, CanAdd
  <2>6. CASE CreateTemp(p)
    BY <2>6 DEF CreateTemp, Move
  <2>7. CASE Prove(p)
    BY <2>7 DEF Prove, Move, GiveUp, Reached
  <2>8. CASE Compare(p)
    BY <2>8 DEF Compare, Move, GiveUp, Reached, ReadBy
  <2>9. CASE Rename(p)
    BY <2>9 DEF Rename, Move, Reached
  <2>10. CASE SyncDirectory(p)
    BY <2>10 DEF SyncDirectory, Move
  <2>11. CASE Unlock(p)
    BY <2>11 DEF Unlock, Move
  <2>12. CASE WriteFails(p)
    BY <2>12 DEF WriteFails, GiveUp
  <2>13. CASE Kill(p)
    BY <2>13 DEF Kill
  <2> QED
    BY <1>1, <2>1, <2>2, <2>3, <2>4, <2>5, <2>6, <2>7, <2>8, <2>9, <2>10, <2>11, <2>12, <2>13
       DEF StartMoves, StartStep
<1>2. ASSUME NEW e \in Edits, NEW d \in Documents, Replace(e, d) PROVE CarriesRule'
  BY <1>2 DEF Replace, Unsettled
<1>3. ASSUME NEW e \in Edits, NEW d \in Documents, Truncate(e, d) PROVE CarriesRule'
  BY <1>3 DEF Truncate, Unsettled
<1>4. CASE Fill
  BY <1>4 DEF Fill, Unsettled
<1>5. CASE UNCHANGED vars
  BY <1>5 DEF vars
<1> QED
  BY Kinds, <1>1, <1>2, <1>3, <1>4, <1>5 DEF ForeignMoves

LEMMA ReadStandsKept ==
  ASSUME TypeOK, NothingHeld, ReadStands, [Next]_vars
  PROVE  ReadStands'
<1> USE DEF TypeOK, StartTypeOK, FileTypeOK, NothingHeld, Locked, Carrying, startVars, foreign,
            ReadStands, ReadBy
<1>1. ASSUME NEW p \in Starts, StartMoves(p) PROVE ReadStands'
  <2>1. CASE Begin(p)
    BY <2>1 DEF Begin, Move
  <2>2. CASE TakeLock(p)
    BY <2>2 DEF TakeLock, Move
  <2>3. CASE LockBusy(p)
    BY <2>3 DEF LockBusy
  <2>4. CASE Bind(p)
    BY <2>4 DEF Bind, Move, Reached
  <2>5. CASE Read(p)
    BY <2>5 DEF Read, Move, GiveUp, Reached, ReadBy
  <2>6. CASE CreateTemp(p)
    BY <2>6 DEF CreateTemp, Move
  <2>7. CASE Prove(p)
    BY <2>7 DEF Prove, Move, GiveUp, Reached
  <2>8. CASE Compare(p)
    BY <2>8 DEF Compare, Move, GiveUp, Reached, ReadBy
  <2>9. CASE Rename(p)
    BY <2>9 DEF Rename, Move, Reached
  <2>10. CASE SyncDirectory(p)
    BY <2>10 DEF SyncDirectory, Move
  <2>11. CASE Unlock(p)
    BY <2>11 DEF Unlock, Move
  <2>12. CASE WriteFails(p)
    BY <2>12 DEF WriteFails, GiveUp
  <2>13. CASE Kill(p)
    BY <2>13 DEF Kill
  <2> QED
    BY <1>1, <2>1, <2>2, <2>3, <2>4, <2>5, <2>6, <2>7, <2>8, <2>9, <2>10, <2>11, <2>12, <2>13
       DEF StartMoves, StartStep
<1>2. ASSUME NEW e \in Edits, NEW d \in Documents, Replace(e, d) PROVE ReadStands'
  BY <1>2 DEF Replace, Unsettled
<1>3. ASSUME NEW e \in Edits, NEW d \in Documents, Truncate(e, d) PROVE ReadStands'
  BY <1>3 DEF Truncate, Unsettled
<1>4. CASE Fill
  BY <1>4 DEF Fill, Unsettled
<1>5. CASE UNCHANGED vars
  BY <1>5 DEF vars
<1> QED
  BY Kinds, <1>1, <1>2, <1>3, <1>4, <1>5 DEF ForeignMoves

LEMMA LastLookKept ==
  ASSUME TypeOK, NothingHeld, AbsentIsEmpty, OutcomeAtEnd, ReadStands, LastLookStands, [Next]_vars
  PROVE  LastLookStands'
<1> USE DEF TypeOK, StartTypeOK, FileTypeOK, NothingHeld, Locked, Carrying, startVars, foreign,
            LastLookStands
<1>1. ASSUME NEW p \in Starts, StartMoves(p) PROVE LastLookStands'
  <2>1. CASE Begin(p)
    BY <2>1 DEF Begin, Move
  <2>2. CASE TakeLock(p)
    BY <2>2 DEF TakeLock, Move
  <2>3. CASE LockBusy(p)
    BY <2>3 DEF LockBusy
  <2>4. CASE Bind(p)
    BY <2>4 DEF Bind, Move, Reached
  <2>5. CASE Read(p)
    BY <2>5 DEF Read, Move, GiveUp, Reached, ReadBy
  <2>6. CASE CreateTemp(p)
    BY <2>6 DEF CreateTemp, Move, OutcomeAtEnd
  <2>7. CASE Prove(p)
    BY <2>7, EmptyDocument DEF Prove, Move, GiveUp, Reached, AbsentIsEmpty, OutcomeAtEnd
  <2>8. CASE Compare(p)
    BY <2>8 DEF Compare, Move, GiveUp, Reached, ReadBy, ReadStands
  <2>9. CASE Rename(p)
    BY <2>9 DEF Rename, Move, Reached
  <2>10. CASE SyncDirectory(p)
    BY <2>10 DEF SyncDirectory, Move
  <2>11. CASE Unlock(p)
    BY <2>11 DEF Unlock, Move
  <2>12. CASE WriteFails(p)
    BY <2>12 DEF WriteFails, GiveUp
  <2>13. CASE Kill(p)
    BY <2>13 DEF Kill
  <2> QED
    BY <1>1, <2>1, <2>2, <2>3, <2>4, <2>5, <2>6, <2>7, <2>8, <2>9, <2>10, <2>11, <2>12, <2>13
       DEF StartMoves, StartStep
<1>2. ASSUME NEW e \in Edits, NEW d \in Documents, Replace(e, d) PROVE LastLookStands'
  BY <1>2 DEF Replace, Unsettled
<1>3. ASSUME NEW e \in Edits, NEW d \in Documents, Truncate(e, d) PROVE LastLookStands'
  BY <1>3 DEF Truncate, Unsettled
<1>4. CASE Fill
  BY <1>4 DEF Fill, Unsettled
<1>5. CASE UNCHANGED vars
  BY <1>5 DEF vars
<1> QED
  BY Kinds, <1>1, <1>2, <1>3, <1>4, <1>5 DEF ForeignMoves

LEMMA StartsAgreeKept ==
  ASSUME TypeOK, OutcomeAtEnd, ReadStands, StartsAgree, [Next]_vars
  PROVE  StartsAgree'
<1> USE DEF TypeOK, StartTypeOK, FileTypeOK, Carrying, startVars, foreign, StartsAgree
<1>1. ASSUME NEW p \in Starts, StartMoves(p) PROVE StartsAgree'
  <2>1. CASE Begin(p)
    BY <2>1 DEF Begin, Move
  <2>2. CASE TakeLock(p)
    BY <2>2 DEF TakeLock, Move
  <2>3. CASE LockBusy(p)
    BY <2>3 DEF LockBusy
  <2>4. CASE Bind(p)
    BY <2>4 DEF Bind, Move, Reached, OutcomeAtEnd
  <2>5. CASE Read(p)
    BY <2>5 DEF Read, Move, GiveUp, Reached, ReadBy
  <2>6. CASE CreateTemp(p)
    BY <2>6 DEF CreateTemp, Move
  <2>7. CASE Prove(p)
    BY <2>7 DEF Prove, Move, GiveUp, Reached, ReadStands
  <2>8. CASE Compare(p)
    BY <2>8 DEF Compare, Move, GiveUp, Reached, ReadBy, ReadStands
  <2>9. CASE Rename(p)
    BY <2>9 DEF Rename, Move, Reached
  <2>10. CASE SyncDirectory(p)
    BY <2>10 DEF SyncDirectory, Move
  <2>11. CASE Unlock(p)
    BY <2>11 DEF Unlock, Move
  <2>12. CASE WriteFails(p)
    BY <2>12 DEF WriteFails, GiveUp
  <2>13. CASE Kill(p)
    BY <2>13 DEF Kill
  <2> QED
    BY <1>1, <2>1, <2>2, <2>3, <2>4, <2>5, <2>6, <2>7, <2>8, <2>9, <2>10, <2>11, <2>12, <2>13
       DEF StartMoves, StartStep
<1>2. ASSUME NEW e \in Edits, NEW d \in Documents, Replace(e, d) PROVE StartsAgree'
  BY <1>2 DEF Replace, Unsettled
<1>3. ASSUME NEW e \in Edits, NEW d \in Documents, Truncate(e, d) PROVE StartsAgree'
  BY <1>3 DEF Truncate, Unsettled
<1>4. CASE Fill
  BY <1>4 DEF Fill, Unsettled
<1>5. CASE UNCHANGED vars
  BY <1>5 DEF vars
<1> QED
  BY Kinds, <1>1, <1>2, <1>3, <1>4, <1>5 DEF ForeignMoves

LEMMA RuleInForceKept ==
  ASSUME TypeOK, CarriesRule, RuleInForce, [Next]_vars
  PROVE  RuleInForce'
<1> USE DEF TypeOK, StartTypeOK, FileTypeOK, Carrying, startVars, foreign, RuleInForce
<1>1. ASSUME NEW p \in Starts, StartMoves(p) PROVE RuleInForce'
  <2>1. CASE Begin(p)
    BY <2>1 DEF Begin, Move
  <2>2. CASE TakeLock(p)
    BY <2>2 DEF TakeLock, Move
  <2>3. CASE LockBusy(p)
    BY <2>3 DEF LockBusy
  <2>4. CASE Bind(p)
    BY <2>4 DEF Bind, Move, Reached
  <2>5. CASE Read(p)
    BY <2>5, EmptyDocument, GrantedInForce DEF Read, Move, GiveUp, Reached, ReadBy
  <2>6. CASE CreateTemp(p)
    BY <2>6 DEF CreateTemp, Move
  <2>7. CASE Prove(p)
    BY <2>7 DEF Prove, Move, GiveUp, Reached
  <2>8. CASE Compare(p)
    BY <2>8 DEF Compare, Move, GiveUp, Reached, ReadBy
  <2>9. CASE Rename(p)
    BY <2>9, WithRuleKeeps, GrantedInForce DEF Rename, Move, Reached, CarriesRule
  <2>10. CASE SyncDirectory(p)
    BY <2>10 DEF SyncDirectory, Move
  <2>11. CASE Unlock(p)
    BY <2>11 DEF Unlock, Move
  <2>12. CASE WriteFails(p)
    BY <2>12 DEF WriteFails, GiveUp
  <2>13. CASE Kill(p)
    BY <2>13 DEF Kill
  <2> QED
    BY <1>1, <2>1, <2>2, <2>3, <2>4, <2>5, <2>6, <2>7, <2>8, <2>9, <2>10, <2>11, <2>12, <2>13
       DEF StartMoves, StartStep
<1>2. ASSUME NEW e \in Edits, NEW d \in Documents, Replace(e, d) PROVE RuleInForce'
  BY <1>2 DEF Replace, Unsettled
<1>3. ASSUME NEW e \in Edits, NEW d \in Documents, Truncate(e, d) PROVE RuleInForce'
  BY <1>3 DEF Truncate, Unsettled
<1>4. CASE Fill
  BY <1>4 DEF Fill, Unsettled
<1>5. CASE UNCHANGED vars
  BY <1>5 DEF vars
<1> QED
  BY Kinds, <1>1, <1>2, <1>3, <1>4, <1>5 DEF ForeignMoves

LEMMA InvKept == ConfigInv /\ [Next]_vars => ConfigInv'
BY StartTypeKept, TriesLeftKept, FileTypeKept, NothingHeldKept, AbsentIsEmptyKept,
   OutcomeAtEndKept, CarriesRuleKept,
   ReadStandsKept, LastLookKept, StartsAgreeKept, RuleInForceKept DEF ConfigInv, TypeOK

-----------------------------------------------------------------------------
(* The theorems.                                                           *)

\* The inductive invariant of the config step holds in every reachable state.
THEOREM ConfigInvariant == Spec => []ConfigInv
BY InvInit, InvKept, PTL DEF Spec

\* Every variable keeps its type.
THEOREM TypeCorrect == Spec => []TypeOK
<1>1. ConfigInv => TypeOK
  BY DEF ConfigInv
<1> QED
  BY ConfigInvariant, <1>1, PTL

\* A start that is over holds no lock, and no temporary file unless it was killed.
THEOREM NothingStaysHeld == Spec => []NothingHeld
<1>1. ConfigInv => NothingHeld
  BY DEF ConfigInv
<1> QED
  BY ConfigInvariant, <1>1, PTL

\* Starts that only meet each other never refuse a changed file.
THEOREM StartsDoAgree == Spec => []StartsAgree
<1>1. ConfigInv => StartsAgree
  BY DEF ConfigInv
<1> QED
  BY ConfigInvariant, <1>1, PTL

\* The rule a start has found or written stays in force until a foreign edit.
THEOREM RuleStaysInForce == Spec => []RuleInForce
<1>1. ConfigInv => RuleInForce
  BY DEF ConfigInv
<1> QED
  BY ConfigInvariant, <1>1, PTL

\* A rename after a last look that no foreign write followed keeps every edit in the file.
THEOREM EditsAreKept == Spec => ForeignEditKept
<1> DEFINE Kept == \A p \in Starts :
      Rename(p) /\ "checked" \in quiet[p] /\ writing = None
        => file.doc.edits \subseteq file'.doc.edits
<1>1. ConfigInv => Kept
  <2> SUFFICES ASSUME ConfigInv, NEW p \in Starts, Rename(p), "checked" \in quiet[p]
               PROVE  file.doc.edits \subseteq file'.doc.edits
    OBVIOUS
  <2>1. original[p] \in Document /\ file.doc.edits \subseteq original[p].edits
    BY DEF ConfigInv, TypeOK, StartTypeOK, LastLookStands, Rename, Move
  <2>2. file'.doc = WithRule(original[p])
    BY DEF Rename
  <2> QED
    BY <2>1, <2>2, WithRuleKeeps
<1>2. ConfigInv => [Kept]_vars
  BY <1>1
<1> QED
  BY ConfigInvariant, <1>2, PTL DEF ForeignEditKept
=============================================================================
