------------------------- MODULE CommitStagedProofs -------------------------
(***************************************************************************)
(* Proofs about CommitStaged for every set of files and every number of    *)
(* calls, whatever fails and whenever the process dies: type correctness,  *)
(* the all-or-nothing result of a call, that no file is lost before the    *)
(* commit point, and that the five phases implement AtomicCommit.          *)
(***************************************************************************)
EXTENDS CommitStaged, TLAPS

-----------------------------------------------------------------------------
(* How far a call has come in each phase. *)
PhaseInv ==
  /\ pc = "stage" => seen = {} /\ swapped = {} /\ undone = {}
  /\ pc = "backup" => swapped = {} /\ undone = {}
  /\ pc = "swap" => seen = batch /\ undone = {}
  /\ pc = "rollback" => swapped # batch /\ undone \subseteq seen /\ swapped \subseteq seen
  /\ pc = "unstage" => swapped # batch /\ undone = seen /\ swapped \subseteq seen
  /\ pc = "tidy" => seen = batch /\ swapped = batch
  /\ pc \in {"backup", "swap"} => staged = batch
  /\ pc # "idle" => batch # {}

(* The .staged file of a path that is still to be renamed is this call's. *)
StagedInv ==
  pc \in {"stage", "backup", "swap"} => \A f \in staged \ swapped : stg[f] = gen

(* What is on disk for a path, from where the call stands with it. *)
Place(f) ==
  IF f \in seen \cup swapped /\ f \notin undone
  THEN /\ dest[f] = IF f \in swapped THEN gen ELSE Absent
       /\ before[f] = IF f \in existed THEN bak[f] ELSE Absent
  ELSE dest[f] = before[f]

(* What may be there for a path that os.Stat did not see, or that the      *)
(* rollback could not put back.                                            *)
LostPlace(f) ==
  /\ dest[f] \in {before[f], Absent, gen}
  /\ f \in seen /\ f \notin existed \ undone
  /\ f \in swapped \ undone => dest[f] = gen

DiskInv ==
  /\ pc \in {"stage", "backup", "swap", "rollback", "unstage"} =>
       /\ \A f \in File \ Lost : Place(f)
       /\ \A f \in Lost : LostPlace(f)
  /\ pc = "tidy" => dest = [f \in File |-> IF f \in batch THEN gen ELSE before[f]]

IInv == TypeOK /\ PhaseInv /\ StagedInv /\ DiskInv /\ AllOrNothing

(* Where the old copy of a path is while a call that has not renamed       *)
(* everything is running.                                                  *)
OldCopy(f) ==
  /\ f \notin seen => dest[f] = before[f]
  /\ f \in seen \ existed => before[f] = Absent \/ <<"stat", f>> \in unhandled
  /\ f \in existed \ undone => bak[f] = before[f]
  /\ f \in existed \cap undone => before[f] \in {dest[f], bak[f]}

OldCopyInv ==
  /\ TypeOK /\ PhaseInv /\ OldCopySurvives
  /\ pc \notin {"idle", "tidy"} => \A f \in File : OldCopy(f)

-----------------------------------------------------------------------------
(* Every variable keeps its type: the phases never record a file that is   *)
(* not in the batch, whatever fails.                                       *)
LEMMA TypeStep == ASSUME TypeOK, [Next]_vars PROVE TypeOK'
<1> USE CommitAssumption DEF TypeOK, Content, Absent, disk, call, Unhandled
<1>1. ASSUME NEW f \in File, Stage(f) PROVE TypeOK'
    BY <1>1 DEF Stage
<1>2. ASSUME NEW f \in File, StageFails(f) PROVE TypeOK'
    BY <1>2 DEF StageFails
<1>3. ASSUME NEW f \in File, Backup(f) PROVE TypeOK'
    BY <1>3 DEF Backup
<1>4. ASSUME NEW f \in File, NothingToBackUp(f) PROVE TypeOK'
    BY <1>4 DEF NothingToBackUp
<1>5. ASSUME NEW f \in File, BackupFails(f) PROVE TypeOK'
    BY <1>5 DEF BackupFails
<1>6. ASSUME NEW f \in File, Swap(f) PROVE TypeOK'
    BY <1>6 DEF Swap
<1>7. ASSUME NEW f \in File, Rollback(f) PROVE TypeOK'
    BY <1>7 DEF Rollback, Restore
<1>8. ASSUME NEW f \in File, Unstage(f) PROVE TypeOK'
    BY <1>8 DEF Unstage
<1>9. ASSUME NEW f \in File, Tidy(f) PROVE TypeOK'
    BY <1>9 DEF Tidy
<1>10. CASE BeginBackup
    BY <1>10 DEF BeginBackup
<1>11. CASE BeginSwap
    BY <1>11 DEF BeginSwap
<1>12. CASE SwapFails
    BY <1>12 DEF SwapFails
<1>13. CASE BeginTidy
    BY <1>13 DEF BeginTidy
<1>14. CASE BeginUnstage
    BY <1>14 DEF BeginUnstage
<1>15. CASE ReturnError
    BY <1>15 DEF ReturnError
<1>16. CASE ReturnNil
    BY <1>16 DEF ReturnNil
<1>17. CASE Begin
    BY <1>17 DEF Begin
<1>18. CASE Crash
    BY <1>18 DEF Crash
<1>19. CASE UNCHANGED vars
    BY <1>19 DEF vars
<1> QED
  BY <1>1, <1>2, <1>3, <1>4, <1>5, <1>6, <1>7, <1>8, <1>9, <1>10, <1>11, <1>12, <1>13, <1>14, <1>15, <1>16, <1>17, <1>18, <1>19 DEF Next, FileStep, PhaseStep

(* TypeOK holds in every reachable state, whatever fails and whenever the  *)
(* process dies.                                                           *)
THEOREM TypeCorrect == Spec => []TypeOK
<1>1. Init => TypeOK
  BY CommitAssumption DEF Init, TypeOK, Content, Absent
<1>2. TypeOK /\ [Next]_vars => TypeOK'
  BY TypeStep
<1> QED
  BY <1>1, <1>2, PTL DEF Spec

-----------------------------------------------------------------------------
(* The order of the phases, whatever fails. *)
LEMMA PhaseStepInv == ASSUME TypeOK, PhaseInv, [Next]_vars PROVE PhaseInv'
<1> USE DEF TypeOK, PhaseInv, disk, call
<1>1. ASSUME NEW f \in File, Stage(f) PROVE PhaseInv'
  BY <1>1 DEF Stage
<1>2. ASSUME NEW f \in File, StageFails(f) PROVE PhaseInv'
  BY <1>2 DEF StageFails
<1>3. ASSUME NEW f \in File, Backup(f) PROVE PhaseInv'
  BY <1>3 DEF Backup
<1>4. ASSUME NEW f \in File, NothingToBackUp(f) PROVE PhaseInv'
  BY <1>4 DEF NothingToBackUp
<1>5. ASSUME NEW f \in File, BackupFails(f) PROVE PhaseInv'
  BY <1>5 DEF BackupFails
<1>6. ASSUME NEW f \in File, Swap(f) PROVE PhaseInv'
  BY <1>6 DEF Swap
<1>7. ASSUME NEW f \in File, Rollback(f) PROVE PhaseInv'
  BY <1>7 DEF Rollback, Restore
<1>8. ASSUME NEW f \in File, Unstage(f) PROVE PhaseInv'
  BY <1>8 DEF Unstage
<1>9. ASSUME NEW f \in File, Tidy(f) PROVE PhaseInv'
  BY <1>9 DEF Tidy
<1>10. CASE BeginBackup
  BY <1>10 DEF BeginBackup
<1>11. CASE BeginSwap
  BY <1>11 DEF BeginSwap
<1>12. CASE SwapFails
  BY <1>12 DEF SwapFails
<1>13. CASE BeginTidy
  BY <1>13 DEF BeginTidy
<1>14. CASE BeginUnstage
  BY <1>14 DEF BeginUnstage
<1>15. CASE ReturnError
  BY <1>15 DEF ReturnError
<1>16. CASE ReturnNil
  BY <1>16 DEF ReturnNil
<1>17. CASE Begin
  BY <1>17 DEF Begin
<1>18. CASE Crash
  BY <1>18 DEF Crash
<1>19. CASE UNCHANGED vars
  BY <1>19 DEF vars
<1> QED
  BY <1>1, <1>2, <1>3, <1>4, <1>5, <1>6, <1>7, <1>8, <1>9, <1>10, <1>11, <1>12, <1>13, <1>14, <1>15, <1>16, <1>17, <1>18, <1>19 DEF Next, FileStep, PhaseStep

(* IInv is inductive: one step per action, under it the conjuncts. *)
LEMMA StepInv == ASSUME IInv, [Next]_vars PROVE IInv'
<1>a. TypeOK' /\ PhaseInv'
  BY TypeStep, PhaseStepInv DEF IInv
<1> USE CommitAssumption DEF IInv
<1>1. ASSUME NEW f \in File, Stage(f) PROVE IInv'
  <2>1. StagedInv'
    BY <1>a, <1>1 DEF Stage, TypeOK, Content, Absent, disk, call, PhaseInv, StagedInv
  <2>2. DiskInv'
    BY <1>a, <1>1 DEF Stage, TypeOK, Content, Absent, disk, call, PhaseInv, StagedInv, DiskInv, Place, LostPlace, Lost, Unhandled
  <2>3. AllOrNothing'
    BY <1>a, <1>1 DEF Stage, TypeOK, Content, Absent, disk, call, PhaseInv, DiskInv, Place, LostPlace, Lost, Unhandled, AllOrNothing
  <2> QED BY <1>a, <2>1, <2>2, <2>3
<1>2. ASSUME NEW f \in File, StageFails(f) PROVE IInv'
  <2>1. StagedInv'
    BY <1>a, <1>2 DEF StageFails, TypeOK, Content, Absent, disk, call, PhaseInv, StagedInv
  <2>2. DiskInv'
    BY <1>a, <1>2 DEF StageFails, TypeOK, Content, Absent, disk, call, PhaseInv, StagedInv, DiskInv, Place, LostPlace, Lost, Unhandled
  <2>3. AllOrNothing'
    BY <1>a, <1>2 DEF StageFails, TypeOK, Content, Absent, disk, call, PhaseInv, DiskInv, Place, LostPlace, Lost, Unhandled, AllOrNothing
  <2> QED BY <1>a, <2>1, <2>2, <2>3
<1>3. ASSUME NEW f \in File, Backup(f) PROVE IInv'
  <2>1. StagedInv'
    BY <1>a, <1>3 DEF Backup, TypeOK, Content, Absent, disk, call, PhaseInv, StagedInv
  <2>2. DiskInv'
    BY <1>a, <1>3 DEF Backup, TypeOK, Content, Absent, disk, call, PhaseInv, StagedInv, DiskInv, Place, LostPlace, Lost, Unhandled
  <2>3. AllOrNothing'
    BY <1>a, <1>3 DEF Backup, TypeOK, Content, Absent, disk, call, PhaseInv, DiskInv, Place, LostPlace, Lost, Unhandled, AllOrNothing
  <2> QED BY <1>a, <2>1, <2>2, <2>3
<1>4. ASSUME NEW f \in File, NothingToBackUp(f) PROVE IInv'
  <2>1. StagedInv'
    BY <1>a, <1>4 DEF NothingToBackUp, TypeOK, Content, Absent, disk, call, PhaseInv, StagedInv
  <2>2. DiskInv'
    BY <1>a, <1>4 DEF NothingToBackUp, TypeOK, Content, Absent, disk, call, PhaseInv, StagedInv, DiskInv, Place, LostPlace, Lost, Unhandled
  <2>3. AllOrNothing'
    BY <1>a, <1>4 DEF NothingToBackUp, TypeOK, Content, Absent, disk, call, PhaseInv, DiskInv, Place, LostPlace, Lost, Unhandled, AllOrNothing
  <2> QED BY <1>a, <2>1, <2>2, <2>3
<1>5. ASSUME NEW f \in File, BackupFails(f) PROVE IInv'
  <2>1. StagedInv'
    BY <1>a, <1>5 DEF BackupFails, TypeOK, Content, Absent, disk, call, PhaseInv, StagedInv
  <2>2. DiskInv'
    BY <1>a, <1>5 DEF BackupFails, TypeOK, Content, Absent, disk, call, PhaseInv, StagedInv, DiskInv, Place, LostPlace, Lost, Unhandled
  <2>3. AllOrNothing'
    BY <1>a, <1>5 DEF BackupFails, TypeOK, Content, Absent, disk, call, PhaseInv, DiskInv, Place, LostPlace, Lost, Unhandled, AllOrNothing
  <2> QED BY <1>a, <2>1, <2>2, <2>3
<1>6. ASSUME NEW f \in File, Swap(f) PROVE IInv'
  <2>1. StagedInv'
    BY <1>a, <1>6 DEF Swap, TypeOK, Content, Absent, disk, call, PhaseInv, StagedInv
  <2>2. DiskInv'
    BY <1>a, <1>6 DEF Swap, TypeOK, Content, Absent, disk, call, PhaseInv, StagedInv, DiskInv, Place, LostPlace, Lost, Unhandled
  <2>3. AllOrNothing'
    BY <1>a, <1>6 DEF Swap, TypeOK, Content, Absent, disk, call, PhaseInv, DiskInv, Place, LostPlace, Lost, Unhandled, AllOrNothing
  <2> QED BY <1>a, <2>1, <2>2, <2>3
<1>7. ASSUME NEW f \in File, Rollback(f) PROVE IInv'
  <2>1. StagedInv'
    BY <1>a, <1>7 DEF Rollback, Restore, TypeOK, Content, Absent, disk, call, PhaseInv, StagedInv
  <2>2. DiskInv'
    BY <1>a, <1>7 DEF Rollback, Restore, TypeOK, Content, Absent, disk, call, PhaseInv, StagedInv, DiskInv, Place, LostPlace, Lost, Unhandled
  <2>3. AllOrNothing'
    BY <1>a, <1>7 DEF Rollback, Restore, TypeOK, Content, Absent, disk, call, PhaseInv, DiskInv, Place, LostPlace, Lost, Unhandled, AllOrNothing
  <2> QED BY <1>a, <2>1, <2>2, <2>3
<1>8. ASSUME NEW f \in File, Unstage(f) PROVE IInv'
  <2>1. StagedInv'
    BY <1>a, <1>8 DEF Unstage, TypeOK, Content, Absent, disk, call, PhaseInv, StagedInv
  <2>2. DiskInv'
    BY <1>a, <1>8 DEF Unstage, TypeOK, Content, Absent, disk, call, PhaseInv, StagedInv, DiskInv, Place, LostPlace, Lost, Unhandled
  <2>3. AllOrNothing'
    BY <1>a, <1>8 DEF Unstage, TypeOK, Content, Absent, disk, call, PhaseInv, DiskInv, Place, LostPlace, Lost, Unhandled, AllOrNothing
  <2> QED BY <1>a, <2>1, <2>2, <2>3
<1>9. ASSUME NEW f \in File, Tidy(f) PROVE IInv'
  <2>1. StagedInv'
    BY <1>a, <1>9 DEF Tidy, TypeOK, Content, Absent, disk, call, PhaseInv, StagedInv
  <2>2. DiskInv'
    BY <1>a, <1>9 DEF Tidy, TypeOK, Content, Absent, disk, call, PhaseInv, StagedInv, DiskInv, Place, LostPlace, Lost, Unhandled
  <2>3. AllOrNothing'
    BY <1>a, <1>9 DEF Tidy, TypeOK, Content, Absent, disk, call, PhaseInv, DiskInv, Place, LostPlace, Lost, Unhandled, AllOrNothing
  <2> QED BY <1>a, <2>1, <2>2, <2>3
<1>10. CASE BeginBackup
  <2>1. StagedInv'
    BY <1>a, <1>10 DEF BeginBackup, TypeOK, Content, Absent, disk, call, PhaseInv, StagedInv
  <2>2. DiskInv'
    BY <1>a, <1>10 DEF BeginBackup, TypeOK, Content, Absent, disk, call, PhaseInv, StagedInv, DiskInv, Place, LostPlace, Lost, Unhandled
  <2>3. AllOrNothing'
    BY <1>a, <1>10 DEF BeginBackup, TypeOK, Content, Absent, disk, call, PhaseInv, DiskInv, Place, LostPlace, Lost, Unhandled, AllOrNothing
  <2> QED BY <1>a, <2>1, <2>2, <2>3
<1>11. CASE BeginSwap
  <2>1. StagedInv'
    BY <1>a, <1>11 DEF BeginSwap, TypeOK, Content, Absent, disk, call, PhaseInv, StagedInv
  <2>2. DiskInv'
    BY <1>a, <1>11 DEF BeginSwap, TypeOK, Content, Absent, disk, call, PhaseInv, StagedInv, DiskInv, Place, LostPlace, Lost, Unhandled
  <2>3. AllOrNothing'
    BY <1>a, <1>11 DEF BeginSwap, TypeOK, Content, Absent, disk, call, PhaseInv, DiskInv, Place, LostPlace, Lost, Unhandled, AllOrNothing
  <2> QED BY <1>a, <2>1, <2>2, <2>3
<1>12. CASE SwapFails
  <2>1. StagedInv'
    BY <1>a, <1>12 DEF SwapFails, TypeOK, Content, Absent, disk, call, PhaseInv, StagedInv
  <2>2. DiskInv'
    BY <1>a, <1>12 DEF SwapFails, TypeOK, Content, Absent, disk, call, PhaseInv, StagedInv, DiskInv, Place, LostPlace, Lost, Unhandled
  <2>3. AllOrNothing'
    BY <1>a, <1>12 DEF SwapFails, TypeOK, Content, Absent, disk, call, PhaseInv, DiskInv, Place, LostPlace, Lost, Unhandled, AllOrNothing
  <2> QED BY <1>a, <2>1, <2>2, <2>3
<1>13. CASE BeginTidy
  <2>1. StagedInv'
    BY <1>a, <1>13 DEF BeginTidy, TypeOK, Content, Absent, disk, call, PhaseInv, StagedInv
  <2>2. DiskInv'
    BY <1>a, <1>13 DEF BeginTidy, TypeOK, Content, Absent, disk, call, PhaseInv, StagedInv, DiskInv, Place, LostPlace, Lost, Unhandled
  <2>3. AllOrNothing'
    BY <1>a, <1>13 DEF BeginTidy, TypeOK, Content, Absent, disk, call, PhaseInv, DiskInv, Place, LostPlace, Lost, Unhandled, AllOrNothing
  <2> QED BY <1>a, <2>1, <2>2, <2>3
<1>14. CASE BeginUnstage
  <2>1. StagedInv'
    BY <1>a, <1>14 DEF BeginUnstage, TypeOK, Content, Absent, disk, call, PhaseInv, StagedInv
  <2>2. DiskInv'
    BY <1>a, <1>14 DEF BeginUnstage, TypeOK, Content, Absent, disk, call, PhaseInv, StagedInv, DiskInv, Place, LostPlace, Lost, Unhandled
  <2>3. AllOrNothing'
    BY <1>a, <1>14 DEF BeginUnstage, TypeOK, Content, Absent, disk, call, PhaseInv, DiskInv, Place, LostPlace, Lost, Unhandled, AllOrNothing
  <2> QED BY <1>a, <2>1, <2>2, <2>3
<1>15. CASE ReturnError
  <2>1. StagedInv'
    BY <1>a, <1>15 DEF ReturnError, TypeOK, Content, Absent, disk, call, PhaseInv, StagedInv
  <2>2. DiskInv'
    BY <1>a, <1>15 DEF ReturnError, TypeOK, Content, Absent, disk, call, PhaseInv, StagedInv, DiskInv, Place, LostPlace, Lost, Unhandled
  <2>3. AllOrNothing'
    BY <1>a, <1>15 DEF ReturnError, TypeOK, Content, Absent, disk, call, PhaseInv, DiskInv, Place, LostPlace, Lost, Unhandled, AllOrNothing
  <2> QED BY <1>a, <2>1, <2>2, <2>3
<1>16. CASE ReturnNil
  <2>1. StagedInv'
    BY <1>a, <1>16 DEF ReturnNil, TypeOK, Content, Absent, disk, call, PhaseInv, StagedInv
  <2>2. DiskInv'
    BY <1>a, <1>16 DEF ReturnNil, TypeOK, Content, Absent, disk, call, PhaseInv, StagedInv, DiskInv, Place, LostPlace, Lost, Unhandled
  <2>3. AllOrNothing'
    BY <1>a, <1>16 DEF ReturnNil, TypeOK, Content, Absent, disk, call, PhaseInv, DiskInv, Place, LostPlace, Lost, Unhandled, AllOrNothing
  <2> QED BY <1>a, <2>1, <2>2, <2>3
<1>17. CASE Begin
  <2>1. StagedInv'
    BY <1>a, <1>17 DEF Begin, TypeOK, Content, Absent, disk, call, PhaseInv, StagedInv
  <2>2. DiskInv'
    BY <1>a, <1>17 DEF Begin, TypeOK, Content, Absent, disk, call, PhaseInv, StagedInv, DiskInv, Place, LostPlace, Lost, Unhandled
  <2>3. AllOrNothing'
    BY <1>a, <1>17 DEF Begin, TypeOK, Content, Absent, disk, call, PhaseInv, DiskInv, Place, LostPlace, Lost, Unhandled, AllOrNothing
  <2> QED BY <1>a, <2>1, <2>2, <2>3
<1>18. CASE Crash
  <2>1. StagedInv'
    BY <1>a, <1>18 DEF Crash, TypeOK, Content, Absent, disk, call, PhaseInv, StagedInv
  <2>2. DiskInv'
    BY <1>a, <1>18 DEF Crash, TypeOK, Content, Absent, disk, call, PhaseInv, StagedInv, DiskInv, Place, LostPlace, Lost, Unhandled
  <2>3. AllOrNothing'
    BY <1>a, <1>18 DEF Crash, TypeOK, Content, Absent, disk, call, PhaseInv, DiskInv, Place, LostPlace, Lost, Unhandled, AllOrNothing
  <2> QED BY <1>a, <2>1, <2>2, <2>3
<1>19. CASE UNCHANGED vars
  BY <1>a, <1>19 DEF vars, StagedInv, DiskInv, Place, LostPlace, Lost, AllOrNothing
<1> QED
  BY <1>1, <1>2, <1>3, <1>4, <1>5, <1>6, <1>7, <1>8, <1>9, <1>10, <1>11, <1>12, <1>13, <1>14, <1>15, <1>16, <1>17, <1>18, <1>19 DEF Next, FileStep, PhaseStep

(* The invariant holds before the first call.                              *)
LEMMA InitInv == Init => IInv
  BY CommitAssumption DEF Init, IInv, TypeOK, Content, Absent, PhaseInv, StagedInv,
     DiskInv, Place, LostPlace, Lost, AllOrNothing

(* A call that returns has replaced every file of its batch, or, after an  *)
(* error, none whose restoration did not fail itself: for every batch,     *)
(* every order of the files and every interruption of earlier calls.       *)
THEOREM CommitAllOrNothing == Spec => []AllOrNothing
<1>2. IInv /\ [Next]_vars => IInv'
  BY StepInv
<1>3. IInv => AllOrNothing
  BY DEF IInv
<1> QED
  BY InitInv, <1>2, <1>3, PTL DEF Spec

-----------------------------------------------------------------------------
(* No step loses the old copy of a file, the rollback failing included.    *)
LEMMA OldCopyStep ==
  ASSUME OldCopyInv, [Next]_vars PROVE OldCopyInv'
<1>a. TypeOK' /\ PhaseInv'
  BY TypeStep, PhaseStepInv DEF OldCopyInv
<1> USE CommitAssumption DEF OldCopyInv
<1>1. ASSUME NEW f \in File, Stage(f) PROVE OldCopyInv'
  BY <1>a, <1>1 DEF Stage, TypeOK, Content, Absent, disk, call, PhaseInv, OldCopySurvives, OldCopy, Unhandled
<1>2. ASSUME NEW f \in File, StageFails(f) PROVE OldCopyInv'
  BY <1>a, <1>2 DEF StageFails, TypeOK, Content, Absent, disk, call, PhaseInv, OldCopySurvives, OldCopy, Unhandled
<1>3. ASSUME NEW f \in File, Backup(f) PROVE OldCopyInv'
  BY <1>a, <1>3 DEF Backup, TypeOK, Content, Absent, disk, call, PhaseInv, OldCopySurvives, OldCopy, Unhandled
<1>4. ASSUME NEW f \in File, NothingToBackUp(f) PROVE OldCopyInv'
  BY <1>a, <1>4 DEF NothingToBackUp, TypeOK, Content, Absent, disk, call, PhaseInv, OldCopySurvives, OldCopy, Unhandled
<1>5. ASSUME NEW f \in File, BackupFails(f) PROVE OldCopyInv'
  BY <1>a, <1>5 DEF BackupFails, TypeOK, Content, Absent, disk, call, PhaseInv, OldCopySurvives, OldCopy, Unhandled
<1>6. ASSUME NEW f \in File, Swap(f) PROVE OldCopyInv'
  BY <1>a, <1>6 DEF Swap, TypeOK, Content, Absent, disk, call, PhaseInv, OldCopySurvives, OldCopy, Unhandled
<1>7. ASSUME NEW f \in File, Rollback(f) PROVE OldCopyInv'
  BY <1>a, <1>7 DEF Rollback, Restore, TypeOK, Content, Absent, disk, call, PhaseInv, OldCopySurvives, OldCopy, Unhandled
<1>8. ASSUME NEW f \in File, Unstage(f) PROVE OldCopyInv'
  BY <1>a, <1>8 DEF Unstage, TypeOK, Content, Absent, disk, call, PhaseInv, OldCopySurvives, OldCopy, Unhandled
<1>9. ASSUME NEW f \in File, Tidy(f) PROVE OldCopyInv'
  BY <1>a, <1>9 DEF Tidy, TypeOK, Content, Absent, disk, call, PhaseInv, OldCopySurvives, OldCopy, Unhandled
<1>10. CASE BeginBackup
  BY <1>a, <1>10 DEF BeginBackup, TypeOK, Content, Absent, disk, call, PhaseInv, OldCopySurvives, OldCopy, Unhandled
<1>11. CASE BeginSwap
  BY <1>a, <1>11 DEF BeginSwap, TypeOK, Content, Absent, disk, call, PhaseInv, OldCopySurvives, OldCopy, Unhandled
<1>12. CASE SwapFails
  BY <1>a, <1>12 DEF SwapFails, TypeOK, Content, Absent, disk, call, PhaseInv, OldCopySurvives, OldCopy, Unhandled
<1>13. CASE BeginTidy
  BY <1>a, <1>13 DEF BeginTidy, TypeOK, Content, Absent, disk, call, PhaseInv, OldCopySurvives, OldCopy, Unhandled
<1>14. CASE BeginUnstage
  BY <1>a, <1>14 DEF BeginUnstage, TypeOK, Content, Absent, disk, call, PhaseInv, OldCopySurvives, OldCopy, Unhandled
<1>15. CASE ReturnError
  BY <1>a, <1>15 DEF ReturnError, TypeOK, Content, Absent, disk, call, PhaseInv, OldCopySurvives, OldCopy, Unhandled
<1>16. CASE ReturnNil
  BY <1>a, <1>16 DEF ReturnNil, TypeOK, Content, Absent, disk, call, PhaseInv, OldCopySurvives, OldCopy, Unhandled
<1>17. CASE Begin
  BY <1>a, <1>17 DEF Begin, TypeOK, Content, Absent, disk, call, PhaseInv, OldCopySurvives, OldCopy, Unhandled
<1>18. CASE Crash
  BY <1>a, <1>18 DEF Crash, TypeOK, Content, Absent, disk, call, PhaseInv, OldCopySurvives, OldCopy, Unhandled
<1>19. CASE UNCHANGED vars
  BY <1>a, <1>19 DEF vars, TypeOK, Content, Absent, disk, call, PhaseInv, OldCopySurvives, OldCopy, Unhandled
<1> QED
  BY <1>1, <1>2, <1>3, <1>4, <1>5, <1>6, <1>7, <1>8, <1>9, <1>10, <1>11, <1>12, <1>13, <1>14, <1>15, <1>16, <1>17, <1>18, <1>19 DEF Next, FileStep, PhaseStep

(* Whatever fails and whenever the process dies, no file that os.Stat saw  *)
(* is lost before the commit point: the old copy is in place or in its     *)
(* .backup.                                                                *)
THEOREM CommitNeverLosesAFile ==
  Spec => []OldCopySurvives
<1>2. Init => OldCopyInv
  BY CommitAssumption DEF Init, OldCopyInv, TypeOK, Content, Absent, PhaseInv,
     OldCopySurvives, OldCopy, Unhandled
<1>3. OldCopyInv /\ [Next]_vars => OldCopyInv'
  BY OldCopyStep
<1>4. OldCopyInv => OldCopySurvives
  BY DEF OldCopyInv
<1> QED
  BY <1>2, <1>3, <1>4, PTL DEF Spec

-----------------------------------------------------------------------------
(* What a call has left of its own .staged and .backup files, while it     *)
(* runs: the files it is yet to rename, remove or restore, and those whose *)
(* removal or restoration has failed.  Files of earlier calls have lower   *)
(* numbers.                                                                *)
LeftInv ==
  /\ \A f \in File : stg[f] <= gen
  /\ pc # "idle" => gen >= 1
  /\ \A f \in batch : stg[f] = gen =>
       f \in staged \ swapped \/ <<"sync", f>> \in unhandled \/ <<"clean", f>> \in unhandled
  /\ \A f \in existed : bak[f] # Absent =>
       f \notin undone \/ <<"undo", f>> \in unhandled \/ <<"tidy", f>> \in unhandled

LeftIInv == TypeOK /\ PhaseInv /\ LeftInv /\ NothingLeftBehind

(* No step forgets a file that it has put beside another one.              *)
LEMMA LeftStep == ASSUME LeftIInv, [Next]_vars PROVE LeftIInv'
<1>a. TypeOK' /\ PhaseInv'
  BY TypeStep, PhaseStepInv DEF LeftIInv
<1> SUFFICES LeftInv' /\ NothingLeftBehind'
  BY <1>a DEF LeftIInv
<1> USE CommitAssumption
    DEF LeftIInv, TypeOK, Content, Absent, disk, call, PhaseInv, LeftInv, NothingLeftBehind, Unhandled
<1>1. ASSUME NEW f \in File, Stage(f) PROVE LeftInv' /\ NothingLeftBehind'
  BY <1>1 DEF Stage
<1>2. ASSUME NEW f \in File, StageFails(f) PROVE LeftInv' /\ NothingLeftBehind'
  <2>1. CASE UNCHANGED <<stg, unhandled>>
    BY <1>2, <2>1 DEF StageFails
  <2>2. CASE stg' = [stg EXCEPT ![f] = gen] /\ unhandled' = unhandled \cup {<<"sync", f>>}
    BY <1>2, <2>2 DEF StageFails
  <2> QED
    BY <1>2, <2>1, <2>2 DEF StageFails
<1>3. ASSUME NEW f \in File, Backup(f) PROVE LeftInv' /\ NothingLeftBehind'
  BY <1>3 DEF Backup
<1>4. ASSUME NEW f \in File, NothingToBackUp(f) PROVE LeftInv' /\ NothingLeftBehind'
  BY <1>4 DEF NothingToBackUp
<1>5. ASSUME NEW f \in File, BackupFails(f) PROVE LeftInv' /\ NothingLeftBehind'
  BY <1>5 DEF BackupFails
<1>6. ASSUME NEW f \in File, Swap(f) PROVE LeftInv' /\ NothingLeftBehind'
  BY <1>6 DEF Swap
<1>7. ASSUME NEW f \in File, Rollback(f) PROVE LeftInv' /\ NothingLeftBehind'
  BY <1>7 DEF Rollback, Restore
<1>8. ASSUME NEW f \in File, Unstage(f) PROVE LeftInv' /\ NothingLeftBehind'
  <2>1. CASE stg' = [stg EXCEPT ![f] = Absent] /\ UNCHANGED unhandled
    BY <1>8, <2>1 DEF Unstage
  <2>2. CASE UNCHANGED stg /\ unhandled' = unhandled \cup {<<"clean", f>>}
    BY <1>8, <2>2 DEF Unstage
  <2> QED
    BY <1>8, <2>1, <2>2 DEF Unstage
<1>9. ASSUME NEW f \in File, Tidy(f) PROVE LeftInv' /\ NothingLeftBehind'
  BY <1>9 DEF Tidy
<1>10. CASE BeginBackup
  BY <1>10 DEF BeginBackup
<1>11. CASE BeginSwap
  BY <1>11 DEF BeginSwap
<1>12. CASE SwapFails
  BY <1>12 DEF SwapFails
<1>13. CASE BeginTidy
  BY <1>13 DEF BeginTidy
<1>14. CASE BeginUnstage
  BY <1>14 DEF BeginUnstage
<1>15. CASE ReturnError
  BY <1>15 DEF ReturnError
<1>16. CASE ReturnNil
  BY <1>16 DEF ReturnNil
<1>17. CASE Begin
  BY <1>17 DEF Begin
<1>18. CASE Crash
  BY <1>18 DEF Crash
<1>19. CASE UNCHANGED vars
  BY <1>19 DEF vars
<1> QED
  BY <1>1, <1>2, <1>3, <1>4, <1>5, <1>6, <1>7, <1>8, <1>9, <1>10, <1>11, <1>12,
     <1>13, <1>14, <1>15, <1>16, <1>17, <1>18, <1>19 DEF Next, FileStep, PhaseStep

(* A call that has returned, with success or with an error, leaves none of *)
(* its own .staged or .backup files, but for those whose removal,          *)
(* restoration or directory sync failed: whatever else fails, and whatever *)
(* earlier calls that died have left.                                      *)
THEOREM CommitLeavesNothingBehind == Spec => []NothingLeftBehind
<1>1. Init => LeftIInv
  BY CommitAssumption DEF Init, LeftIInv, TypeOK, Content, Absent, PhaseInv, LeftInv,
     NothingLeftBehind
<1>2. LeftIInv /\ [Next]_vars => LeftIInv'
  BY LeftStep
<1>3. LeftIInv => NothingLeftBehind
  BY DEF LeftIInv
<1> QED
  BY <1>1, <1>2, <1>3, PTL DEF Spec

-----------------------------------------------------------------------------
(* Steps that leave the recoverable directory alone are stutters of        *)
(* AtomicCommit; the last rename of phase 4 is its Commit, the return of   *)
(* an error its Abort.                                                     *)
LEMMA RefineStep ==
  ASSUME IInv, IInv', [Next]_vars
  PROVE  [Atomic!Next]_(Atomic!vars)
<1> USE CommitAssumption
    DEF IInv, TypeOK, Content, Absent, disk, call, PhaseInv, DiskInv, Place, LostPlace, Lost, Unhandled,
        Recoverable, Pending, Committed, Outcome, Atomic!Next, Atomic!Begin, Atomic!Lose,
        Atomic!Commit, Atomic!Abort, Atomic!Die, Atomic!vars
<1>1. ASSUME NEW f \in File, Stage(f) PROVE [Atomic!Next]_(Atomic!vars)
  BY <1>1 DEF Stage
<1>2. ASSUME NEW f \in File, StageFails(f) PROVE [Atomic!Next]_(Atomic!vars)
  BY <1>2 DEF StageFails
<1>3. ASSUME NEW f \in File, Backup(f) PROVE [Atomic!Next]_(Atomic!vars)
  BY <1>3 DEF Backup
<1>4. ASSUME NEW f \in File, NothingToBackUp(f) PROVE [Atomic!Next]_(Atomic!vars)
  BY <1>4 DEF NothingToBackUp
<1>5. ASSUME NEW f \in File, BackupFails(f) PROVE [Atomic!Next]_(Atomic!vars)
  BY <1>5 DEF BackupFails
<1>6. ASSUME NEW f \in File, Swap(f) PROVE [Atomic!Next]_(Atomic!vars)
  BY <1>6 DEF Swap, StagedInv
<1>7. ASSUME NEW f \in File, Rollback(f) PROVE [Atomic!Next]_(Atomic!vars)
  BY <1>7 DEF Rollback, Restore
<1>8. ASSUME NEW f \in File, Unstage(f) PROVE [Atomic!Next]_(Atomic!vars)
  BY <1>8 DEF Unstage
<1>9. ASSUME NEW f \in File, Tidy(f) PROVE [Atomic!Next]_(Atomic!vars)
  BY <1>9 DEF Tidy
<1>10. CASE BeginBackup
  BY <1>10 DEF BeginBackup
<1>11. CASE BeginSwap
  BY <1>11 DEF BeginSwap
<1>12. CASE SwapFails
  BY <1>12 DEF SwapFails
<1>13. CASE BeginTidy
  BY <1>13 DEF BeginTidy
<1>14. CASE BeginUnstage
  BY <1>14 DEF BeginUnstage
<1>15. CASE ReturnError
  BY <1>15 DEF ReturnError
<1>16. CASE ReturnNil
  BY <1>16 DEF ReturnNil
<1>17. CASE Begin
  BY <1>17 DEF Begin
<1>18. CASE Crash
  <2>1. CASE Committed
    BY <1>18, <2>1 DEF Crash
  <2>2. CASE ~Committed
    <3>1. Outcome = "running" /\ Outcome' = "crashed"
      BY <1>18, <2>2 DEF Crash
    <3>2. Recoverable' = dest /\ Lost' = Lost
      BY <1>18, <2>2 DEF Crash
    <3>3. \A f \in File \ Lost : Recoverable[f] = before[f]
      BY <1>18, <2>2 DEF Crash
    <3>4. \A f \in Lost : Recoverable[f] = dest[f]
      BY <1>18, <2>2 DEF Crash
    <3>5. \A f \in File : dest[f] \in IF f \in batch THEN {Recoverable[f], 0, gen}
                                                    ELSE {Recoverable[f]}
      BY <1>18, <2>2, <3>3, <3>4 DEF Crash
    <3> QED
      BY <1>18, <3>1, <3>2, <3>5 DEF Crash
  <2> QED
    BY <2>1, <2>2
<1>19. CASE UNCHANGED vars
  BY <1>19 DEF vars
<1> QED
  BY <1>1, <1>2, <1>3, <1>4, <1>5, <1>6, <1>7, <1>8, <1>9, <1>10, <1>11, <1>12,
     <1>13, <1>14, <1>15, <1>16, <1>17, <1>18, <1>19 DEF Next, FileStep, PhaseStep

(* The phases and the rollback implement the one-step commit: a reader who *)
(* could ask for the recoverable directory would never see a mixture.      *)
THEOREM CommitIsAtomic ==
  Spec => RefinesAtomicCommit
<1>2. Init => Atomic!Init
  BY DEF Init, Atomic!Init, Recoverable, Pending, Committed, Outcome, Absent, Lost
<1>3. IInv /\ [Next]_vars => IInv'
  BY StepInv
<1>4. IInv /\ IInv' /\ [Next]_vars => [Atomic!Next]_(Atomic!vars)
  BY RefineStep
<1> QED
  BY InitInv, <1>2, <1>3, <1>4, PTL DEF Spec, RefinesAtomicCommit, Atomic!Spec
=============================================================================
