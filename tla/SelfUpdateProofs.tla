-------------------------- MODULE SelfUpdateProofs --------------------------
(* What SelfUpdate guarantees for every value of its constants, fairness aside. *)
EXTENDS SelfUpdate, TLAPS

\* A step of one maintainer leaves the place and the aim of the others alone.
OthersStay(m) == \A n \in Maintainer \ {m} : pc'[n] = pc[n] /\ goal'[n] = goal[n]

\* The next place and aim of a maintainer that takes a step, action by action.
Leads(m) ==
    /\ pc[m] = "idle" => \/ pc'[m] = "consume" /\ goal'[m] \in {"committed", "recovered"}
                         \/ pc'[m] = "done"
    /\ pc[m] = "consume" => \/ pc'[m] = "done"
                            \/ pc'[m] = "terminate" /\ goal'[m] = "committed"
                            \/ pc'[m] = "check_backup" /\ goal'[m] = "recovered"
    /\ pc[m] \in Applying =>
          \/ pc'[m] \in Applying \cup {"spawn"} /\ goal'[m] = "committed"
          \/ pc'[m] \in {"result", "undo"} /\ goal'[m] = "swap_failed"
          \/ pc'[m] = "done"
    /\ pc[m] \in {"check_backup", "undo", "restore", "journal_undone"} =>
          \/ pc'[m] \in {"undo", "restore", "journal_undone", "result"} /\ goal'[m] = goal[m]
          \/ pc'[m] = "spawn" /\ goal'[m] = goal[m] /\ goal[m] # "swap_failed"
          \/ pc'[m] = "done"
    /\ pc[m] \in {"spawn", "health"} =>
          \/ pc'[m] = "health" /\ goal'[m] = goal[m]
          \/ pc'[m] = "commit" /\ goal'[m] = "committed"
          \/ pc'[m] = "undo" /\ goal'[m] = "rolled_back"
          \/ pc'[m] = "result" /\ goal'[m] # "none"
          \/ pc'[m] = "done"
    /\ pc[m] = "commit" => pc'[m] \in {"result", "done"} /\ goal'[m] = "committed"
    /\ pc[m] \in {"result", "done"} => pc'[m] = "done"

\* A step of one maintainer that leads on is well-typed in its own variables.
Moves(m) ==
    /\ pc' \in [Maintainer -> Step]
    /\ goal' \in [Maintainer -> Status]
    /\ OthersStay(m)
    /\ Leads(m)

LEMMA MovesType ==
    ASSUME TypeOK, NEW m \in Maintainer, Moves(m)
    PROVE  \A n \in Maintainer : GoalAt(n)'
<1>1. GoalAt(m)'
  BY DEF TypeOK, Moves, Leads, GoalAt, Applying, Step
<1>2. ASSUME NEW n \in Maintainer \ {m}
      PROVE  GoalAt(n)'
  BY DEF TypeOK, Moves, OthersStay, GoalAt
<1> QED BY <1>1, <1>2

\* Every step of a maintainer moves it as its command is written.
LEMMA ProceedMoves ==
    ASSUME TypeOK, NEW m \in Maintainer, Start(m) \/ Proceed(m) \/ Crash(m)
    PROVE  Moves(m)
<1> USE DEF Moves, Leads, OthersStay, Goto, Aim, Step, Status, Applying, GoalAt, TypeOK
<1>1. CASE Start(m)
  BY <1>1 DEF Start, Fail
<1>2. CASE Crash(m)
  BY <1>2 DEF Crash, Fail
<1>3. CASE Consume(m)
  BY <1>3 DEF Consume, AfterConsume, Fail
<1>4. CASE Terminate(m)
  BY <1>4 DEF Terminate, Fail
<1>5. CASE Begin(m)
  BY <1>5 DEF Begin, Fail
<1>6. CASE Check(m)
  BY <1>6 DEF Check, SwapFails
<1>7. CASE Copy(m)
  BY <1>7 DEF Copy, SwapFails
<1>8. CASE VerifyTemp(m)
  BY <1>8 DEF VerifyTemp, SwapFails
<1>9. CASE RenameOut(m)
  BY <1>9 DEF RenameOut, SwapFails
<1>10. CASE RenameIn(m)
  BY <1>10 DEF RenameIn, SwapFails
<1>11. CASE VerifyTarget(m)
  BY <1>11 DEF VerifyTarget
<1>12. CASE JournalSwapped(m)
  BY <1>12 DEF JournalSwapped, SwapFails
<1>13. CASE Commit(m)
  BY <1>13 DEF Commit, Fail
<1>14. CASE CheckBackup(m)
  BY <1>14 DEF CheckBackup, Fail
<1>15. CASE Undo(m)
  BY <1>15 DEF Undo, UndoFails, Fail
<1>16. CASE Restore(m)
  BY <1>16 DEF Restore, UndoFails, Fail
<1>17. CASE JournalUndone(m)
  BY <1>17 DEF JournalUndone, UndoFails, Fail
<1>18. CASE Spawn(m)
  BY <1>18 DEF Spawn, Fail
<1>19. CASE Health(m)
  BY <1>19 DEF Health, Lasts, Fail
<1>20. CASE WriteResult(m)
  BY <1>20 DEF WriteResult
<1> QED
  BY <1>1, <1>2, <1>3, <1>4, <1>5, <1>6, <1>7, <1>8, <1>9, <1>10, <1>11, <1>12, <1>13,
     <1>14, <1>15, <1>16, <1>17, <1>18, <1>19, <1>20 DEF Proceed

\* What files, journal, marks, result, processes and history may be.
DataOK ==
    /\ {target, staged, backup, temp} \subseteq Image
    /\ journal \in JournalState
    /\ marks \subseteq Approval
    /\ result \in Status
    /\ first \in {"up", "down"}
    /\ child \in [Maintainer -> Image]
    /\ lasted \subseteq Image
    /\ {trouble, crossed} \subseteq BOOLEAN

\* A step of a maintainer keeps them so.
LEMMA ProceedKeepsData ==
    ASSUME TypeOK, NEW m \in Maintainer, Start(m) \/ Proceed(m) \/ Crash(m)
    PROVE  DataOK'
<1>0. DataOK
  BY DEF TypeOK, DataOK
<1> USE ConstantsAssumption, <1>0 DEF DataOK, Image, JournalState, Status, Journal,
        JournalFails, Trouble, files, disk, procs, history
<1>1. CASE Start(m)
  BY <1>1 DEF Start
<1>2. CASE Crash(m)
  BY <1>2 DEF Crash
<1>3. CASE Consume(m)
  <2>1. marks' \subseteq Approval
    BY <1>3 DEF Consume
  <2>2. {trouble', crossed'} \subseteq BOOLEAN
    BY <1>3 DEF Consume
  <2> QED BY <1>3, <2>1, <2>2 DEF Consume
<1>4. CASE Terminate(m)
  BY <1>4 DEF Terminate
<1>5. CASE Begin(m)
  BY <1>5 DEF Begin
<1>6. CASE Check(m)
  BY <1>6 DEF Check
<1>7. CASE Copy(m)
  BY <1>7 DEF Copy
<1>8. CASE VerifyTemp(m)
  BY <1>8 DEF VerifyTemp
<1>9. CASE RenameOut(m)
  BY <1>9 DEF RenameOut
<1>10. CASE RenameIn(m)
  BY <1>10 DEF RenameIn
<1>11. CASE VerifyTarget(m)
  BY <1>11 DEF VerifyTarget
<1>12. CASE JournalSwapped(m)
  BY <1>12 DEF JournalSwapped
<1>13. CASE Commit(m)
  BY <1>13 DEF Commit
<1>14. CASE CheckBackup(m)
  BY <1>14 DEF CheckBackup
<1>15. CASE Undo(m)
  BY <1>15 DEF Undo, UndoFails
<1>16. CASE Restore(m)
  BY <1>16 DEF Restore, UndoFails
<1>17. CASE JournalUndone(m)
  BY <1>17 DEF JournalUndone, UndoFails
<1>18. CASE Spawn(m)
  BY <1>18 DEF Spawn
<1>19. CASE Health(m)
  BY <1>19 DEF Health, Lasts
<1>20. CASE WriteResult(m)
  BY <1>20 DEF WriteResult, TypeOK, GoalAt
<1> QED
  BY <1>1, <1>2, <1>3, <1>4, <1>5, <1>6, <1>7, <1>8, <1>9, <1>10, <1>11, <1>12, <1>13,
     <1>14, <1>15, <1>16, <1>17, <1>18, <1>19, <1>20 DEF Proceed

\* The steps of the specification that are no step of a maintainer.
Around == FirstExits \/ MutateStaged \/ Rest \/ \E m \in Maintainer : ChildExits(m)

LEMMA TypeStep ==
    ASSUME TypeOK, [Next]_vars
    PROVE  TypeOK'
<1>1. CASE UNCHANGED vars \/ Around
  BY <1>1 DEF Around, FirstExits, MutateStaged, Rest, ChildExits, Trouble, TypeOK,
           GoalAt, Image,
              vars, files, disk, procs, history
<1>2. ASSUME NEW m \in Maintainer, Start(m) \/ Proceed(m) \/ Crash(m)
      PROVE  TypeOK'
  BY <1>2, ProceedMoves, ProceedKeepsData, MovesType DEF Moves, DataOK, TypeOK
<1> QED BY <1>1, <1>2 DEF Next, Around

\* TypeOK: every maintainer is after something at each of its steps.
THEOREM TypeCorrect == Spec => []TypeOK
<1>1. Init => TypeOK
  BY DEF Init, TypeOK, GoalAt, Image, JournalState, Status, Step, Applying
<1>2. TypeOK /\ [Next]_vars => TypeOK'
  BY TypeStep
<1> QED BY <1>1, <1>2, PTL DEF Spec

-----------------------------------------------------------------------------
\* An approval with a maintainer at work on it has its marker, and no other.
SpentInv ==
    /\ TypeOK
    /\ \A m \in Maintainer : Spent(m) => ApprovalOf[m] \in marks
    /\ OneRunPerApproval

LEMMA SpentStep ==
    ASSUME SpentInv, [Next]_vars
    PROVE  SpentInv'
<1> USE ConstantsAssumption DEF SpentInv, OneRunPerApproval, Spent
<1>1. ASSUME NEW m \in Maintainer, Start(m) \/ Proceed(m) \/ Crash(m)
      PROVE  SpentInv'
  <2>0. TypeOK' /\ Moves(m)
    BY <1>1, TypeStep, ProceedMoves DEF Next
  <2>1. CASE Consume(m)
    BY <2>0, <2>1 DEF Consume, AfterConsume, Goto, Fail, Moves, OthersStay
  <2>2. CASE ~Consume(m)
    <3>1. UNCHANGED marks /\ (pc[m] # "consume" \/ Crash(m))
      BY <1>1, <2>2 DEF Proceed, Start, Crash, Terminate, Begin, Check, Copy, VerifyTemp,
             RenameOut, RenameIn, VerifyTarget, JournalSwapped, Commit, CheckBackup, Undo,
             Restore, JournalUndone, Spawn, Health, WriteResult, disk
    <3>2. Spent(m)' => Spent(m)
      BY <2>0, <3>1 DEF Moves, Leads, TypeOK, Step, Crash, Fail, Goto
    <3> QED BY <2>0, <3>1, <3>2 DEF Moves, OthersStay
  <2> QED BY <2>1, <2>2
<1>2. CASE UNCHANGED vars \/ Around
  BY <1>2, TypeStep DEF Around, FirstExits, MutateStaged, Rest, ChildExits, vars, disk
<1> QED BY <1>1, <1>2 DEF Next, Around

\* OneRunPerApproval: the marker lets one maintainer through, whoever fails or dies.
THEOREM OneRun == Spec => []OneRunPerApproval
<1>1. Init => SpentInv
  BY DEF Init, SpentInv, OneRunPerApproval, Spent, TypeOK, GoalAt, Image, JournalState, Status,
         Step, Applying
<1>2. SpentInv /\ [Next]_vars => SpentInv'
  BY SpentStep
<1>3. SpentInv => OneRunPerApproval
  BY DEF SpentInv
<1> QED BY <1>1, <1>2, <1>3, PTL DEF Spec

-----------------------------------------------------------------------------
\* Steps of a maintainer that has stopped the agent, before it moves a file.
PreMove == {"begin", "check", "copy", "verify_temp", "rename_out"}

\* Who has stopped the agent has the files to itself until it has swapped them.
Stopper(m) == pc[m] \in PreMove \cup {"rename_in"}
OneStopper ==
    /\ first = "up" => \A m \in Maintainer : ~Stopper(m)
    /\ \A m, n \in Maintainer : Stopper(m) /\ Stopper(n) => m = n

\* The inductive strengthening of TargetIsWhole: neither is what is staged, the backup,
\* or a copy that has been verified, anything unknown.
WholeInv ==
    /\ TypeOK
    /\ OneStopper
    /\ TargetIsWhole
    /\ backup \in {"none", "old", "new"}
    /\ \A m \in Maintainer : pc[m] \in {"rename_out", "rename_in"} => temp \in {"none", "new"}

LEMMA WholeStep ==
    ASSUME WholeInv, [Next]_vars
    PROVE  WholeInv'
<1> USE DEF WholeInv, TargetIsWhole
<1>1. ASSUME NEW m \in Maintainer, Start(m) \/ Proceed(m) \/ Crash(m)
      PROVE  WholeInv'
  <2> TypeOK' /\ Moves(m)
    BY <1>1, TypeStep, ProceedMoves DEF Next
  <2> USE DEF OneStopper, Stopper, PreMove, Applying, Moves, OthersStay, Leads, Goto,
           Aim, files, procs, disk, history
  <2>1. CASE Start(m)
    BY <2>1 DEF Start, Fail
  <2>2. CASE Crash(m)
    BY <2>2 DEF Crash, Fail, Trouble
  <2>3. CASE Consume(m)
    BY <2>3 DEF Consume, AfterConsume, Fail, Trouble
  <2>4. CASE Terminate(m)
    BY <2>4 DEF Terminate, Fail, Trouble
  <2>5. CASE Begin(m)
    BY <2>5 DEF Begin, Fail, JournalFails, Trouble
  <2>6. CASE Check(m)
    BY <2>6 DEF Check, SwapFails
  <2>7. CASE Copy(m)
    BY <2>7 DEF Copy, SwapFails, Trouble
  <2>8. CASE VerifyTemp(m)
    BY <2>8 DEF VerifyTemp, SwapFails
  <2>9. CASE RenameOut(m)
    BY <2>9 DEF RenameOut, SwapFails, Trouble
  <2>10. CASE RenameIn(m)
    BY <2>10 DEF RenameIn, SwapFails, Trouble
  <2>11. CASE VerifyTarget(m)
    BY <2>11 DEF VerifyTarget, Trouble
  <2>12. CASE JournalSwapped(m)
    BY <2>12 DEF JournalSwapped, SwapFails, JournalFails, Trouble
  <2>13. CASE Commit(m)
    BY <2>13 DEF Commit, Fail, JournalFails, Trouble
  <2>14. CASE CheckBackup(m)
    BY <2>14 DEF CheckBackup, Fail
  <2>15. CASE Undo(m)
    BY <2>15 DEF Undo, UndoFails, Fail, Trouble
  <2>16. CASE Restore(m)
    BY <2>16 DEF Restore, UndoFails, Fail, Trouble
  <2>17. CASE JournalUndone(m)
    BY <2>17 DEF JournalUndone, UndoFails, Fail, Trouble
  <2>18. CASE Spawn(m)
    BY <2>18 DEF Spawn, Fail, Trouble
  <2>19. CASE Health(m)
    BY <2>19 DEF Health, Lasts, Fail, Trouble
  <2>20. CASE WriteResult(m)
    BY <2>20 DEF WriteResult, Trouble
  <2> QED
    BY <1>1, <2>1, <2>2, <2>3, <2>4, <2>5, <2>6, <2>7, <2>8, <2>9, <2>10, <2>11, <2>12,
       <2>13, <2>14, <2>15, <2>16, <2>17, <2>18, <2>19, <2>20 DEF Proceed
<1>2. CASE UNCHANGED vars \/ Around
  BY <1>2, TypeStep DEF Around, FirstExits, MutateStaged, Rest, ChildExits, vars, files, disk,
                        procs, history, OneStopper, Stopper
<1> QED BY <1>1, <1>2 DEF Next, Around

\* TargetIsWhole: no copy that broke off, and no file changed after it was approved, is
\* ever in the agent's place.
THEOREM Whole == Spec => []TargetIsWhole
<1>1. Init => WholeInv
  BY DEF Init, WholeInv, TargetIsWhole, OneStopper, Stopper, PreMove, TypeOK, GoalAt, Image,
         JournalState, Status, Step, Applying
<1>2. WholeInv /\ [Next]_vars => WholeInv'
  BY WholeStep
<1>3. WholeInv => TargetIsWhole
  BY DEF WholeInv
<1> QED BY <1>1, <1>2, <1>3, PTL DEF Spec

-----------------------------------------------------------------------------
\* Until an executable is moved, there is no backup and nobody on the way back.
Untouched ==
    /\ target = "old" /\ backup = "none"
    /\ \A m \in Maintainer : pc[m] \notin Moving

\* Steps at which a maintainer counts on the backup.
NeedsBackup(m) ==
    \/ pc[m] \in {"rename_in", "verify_target", "journal_swapped", "commit", "undo", "restore"}
    \/ pc[m] \in {"spawn", "health"} /\ goal[m] = "committed"

\* The inductive strengthening of OldIsKept.
KeptInv ==
    /\ WholeInv
    /\ first = "up" \/ (\E m \in Maintainer : pc[m] \in PreMove) => Untouched
    /\ crossed \/ \A m, n \in Maintainer : pc[m] \in Moving /\ pc[n] \in Moving => m = n
    /\ crossed \/ \A m \in Maintainer : NeedsBackup(m) => backup = "old"
    /\ OldIsKept

LEMMA KeptStep ==
    ASSUME KeptInv, [Next]_vars
    PROVE  KeptInv'
<1> USE DEF KeptInv, OldIsKept
<1>1. ASSUME NEW m \in Maintainer, Start(m) \/ Proceed(m) \/ Crash(m)
      PROVE  KeptInv'
  <2> WholeInv' /\ Moves(m) /\ TypeOK /\ OneStopper
    BY <1>1, WholeStep, ProceedMoves DEF Next, WholeInv
  <2> USE DEF OneStopper, Stopper, PreMove, Applying, Moves, OthersStay, Leads, Goto,
           Aim, files, procs, disk, history, Untouched, NeedsBackup, Moving, TypeOK, GoalAt
  <2>1. CASE Start(m)
    BY <2>1 DEF Start, Fail
  <2>2. CASE Crash(m)
    BY <2>2 DEF Crash, Fail, Trouble
  <2>3. CASE Consume(m)
    BY <2>3 DEF Consume, AfterConsume, Fail, Trouble
  <2>4. CASE Terminate(m)
    BY <2>4 DEF Terminate, Fail, Trouble
  <2>5. CASE Begin(m)
    BY <2>5 DEF Begin, Fail, JournalFails, Trouble
  <2>6. CASE Check(m)
    BY <2>6 DEF Check, SwapFails
  <2>7. CASE Copy(m)
    BY <2>7 DEF Copy, SwapFails, Trouble
  <2>8. CASE VerifyTemp(m)
    BY <2>8 DEF VerifyTemp, SwapFails
  <2>9. CASE RenameOut(m)
    BY <2>9 DEF RenameOut, SwapFails, Trouble
  <2>10. CASE RenameIn(m)
    BY <2>10 DEF RenameIn, SwapFails, Trouble
  <2>11. CASE VerifyTarget(m)
    BY <2>11 DEF VerifyTarget, Trouble
  <2>12. CASE JournalSwapped(m)
    BY <2>12 DEF JournalSwapped, SwapFails, JournalFails, Trouble
  <2>13. CASE Commit(m)
    BY <2>13 DEF Commit, Fail, JournalFails, Trouble
  <2>14. CASE CheckBackup(m)
    <3>1. CASE backup # "old"
      BY <2>14, <3>1 DEF CheckBackup, Fail
    <3>2. CASE backup = "old"
      <4>1. first # "up" /\ \A n \in Maintainer : pc[n] \notin PreMove
        BY <3>2
      <4>2. pc' = [pc EXCEPT ![m] = "undo"] /\ UNCHANGED <<files, goal, procs>>
        BY <2>14, <3>2 DEF CheckBackup
      <4>3. crossed' \/ (~crossed /\ \A n \in Maintainer \ {m} : pc[n] \notin Moving)
        BY <2>14, <3>2 DEF CheckBackup
      <4> QED BY <3>2, <4>1, <4>2, <4>3
    <3> QED BY <3>1, <3>2
  <2>15. CASE Undo(m)
    BY <2>15 DEF Undo, UndoFails, Fail, Trouble
  <2>16. CASE Restore(m)
    BY <2>16 DEF Restore, UndoFails, Fail, Trouble
  <2>17. CASE JournalUndone(m)
    BY <2>17 DEF JournalUndone, UndoFails, Fail, Trouble
  <2>18. CASE Spawn(m)
    BY <2>18 DEF Spawn, Fail, Trouble
  <2>19. CASE Health(m)
    BY <2>19 DEF Health, Lasts, Fail, Trouble
  <2>20. CASE WriteResult(m)
    BY <2>20 DEF WriteResult, Trouble
  <2> QED
    BY <1>1, <2>1, <2>2, <2>3, <2>4, <2>5, <2>6, <2>7, <2>8, <2>9, <2>10, <2>11, <2>12,
       <2>13, <2>14, <2>15, <2>16, <2>17, <2>18, <2>19, <2>20 DEF Proceed
<1>2. CASE UNCHANGED vars \/ Around
  BY <1>2, WholeStep DEF Around, FirstExits, MutateStaged, Rest, ChildExits, vars, files, disk,
                         procs, history, Untouched, NeedsBackup, Trouble
<1> QED BY <1>1, <1>2 DEF Next, Around

\* OldIsKept: whatever fails and whoever dies, the old executable is in its place or is
\* the backup, as long as no recovery is begun while another maintainer moves files.
THEOREM OldKept == Spec => []OldIsKept
<1>1. Init => KeptInv
  BY DEF Init, KeptInv, OldIsKept, Untouched, NeedsBackup, Moving, WholeInv, TargetIsWhole,
         OneStopper, Stopper, PreMove, TypeOK, GoalAt, Image, JournalState, Status, Step, Applying
<1>2. KeptInv /\ [Next]_vars => KeptInv'
  BY KeptStep
<1>3. KeptInv => OldIsKept
  BY DEF KeptInv
<1> QED BY <1>1, <1>2, <1>3, PTL DEF Spec

-----------------------------------------------------------------------------
\* What has been achieved when a maintainer that has stopped the agent stands at a step.
Achieved(m) ==
    /\ pc[m] \in (Applying \ {"terminate", "begin"}) \cup {"spawn", "health", "commit"} =>
          journal # "broken"
    /\ pc[m] \in {"journal_swapped", "spawn", "health", "commit", "result"} => target = "new"
    /\ pc[m] = "health" => child[m] \in {"none", "new"}
    /\ pc[m] \in {"commit", "result"} => "new" \in lasted
    /\ pc[m] = "result" => journal = "committed" /\ backup = "old"

\* The inductive strengthening of CommittedIsTrue.
CommitInv ==
    /\ KeptInv
    /\ crossed \/ \A m \in Maintainer : goal[m] = "committed" => Achieved(m)

LEMMA CommitStep ==
    ASSUME CommitInv, [Next]_vars
    PROVE  CommitInv'
<1> USE DEF CommitInv, Achieved
<1>1. ASSUME NEW m \in Maintainer, Start(m) \/ Proceed(m) \/ Crash(m)
      PROVE  CommitInv'
  <2> KeptInv' /\ Moves(m) /\ TypeOK /\ OneStopper
    BY <1>1, KeptStep, ProceedMoves DEF Next, KeptInv, WholeInv
  <2> USE DEF OneStopper, Stopper, PreMove, Applying, Moves, OthersStay, Leads, Goto,
           Aim, files, procs, disk, history, Untouched, NeedsBackup, Moving, TypeOK, GoalAt,
           KeptInv
  <2>1. CASE Start(m)
    BY <2>1 DEF Start, Fail
  <2>2. CASE Crash(m)
    BY <2>2 DEF Crash, Fail, Trouble
  <2>3. CASE Consume(m)
    BY <2>3 DEF Consume, AfterConsume, Fail, Trouble
  <2>4. CASE Terminate(m)
    BY <2>4 DEF Terminate, Fail, Trouble
  <2>5. CASE Begin(m)
    BY <2>5 DEF Begin, Fail, Journal, JournalFails, Trouble
  <2>6. CASE Check(m)
    BY <2>6 DEF Check, SwapFails
  <2>7. CASE Copy(m)
    BY <2>7 DEF Copy, SwapFails, Trouble
  <2>8. CASE VerifyTemp(m)
    BY <2>8 DEF VerifyTemp, SwapFails
  <2>9. CASE RenameOut(m)
    BY <2>9 DEF RenameOut, SwapFails, Trouble
  <2>10. CASE RenameIn(m)
    BY <2>10 DEF RenameIn, SwapFails, Trouble
  <2>11. CASE VerifyTarget(m)
    BY <2>11 DEF VerifyTarget, Trouble
  <2>12. CASE JournalSwapped(m)
    BY <2>12 DEF JournalSwapped, SwapFails, Journal, JournalFails, Trouble
  <2>13. CASE Commit(m)
    BY <2>13 DEF Commit, Fail, Journal, JournalFails, Trouble
  <2>14. CASE CheckBackup(m)
    BY <2>14 DEF CheckBackup, Fail
  <2>15. CASE Undo(m)
    BY <2>15 DEF Undo, UndoFails, Fail, Trouble
  <2>16. CASE Restore(m)
    BY <2>16 DEF Restore, UndoFails, Fail, Trouble
  <2>17. CASE JournalUndone(m)
    BY <2>17 DEF JournalUndone, UndoFails, Journal, Fail, Trouble
  <2>18. CASE Spawn(m)
    BY <2>18 DEF Spawn, Fail, Trouble
  <2>19. CASE Health(m)
    BY <2>19 DEF Health, Lasts, Fail, Trouble
  <2>20. CASE WriteResult(m)
    BY <2>20 DEF WriteResult, Trouble
  <2> QED
    BY <1>1, <2>1, <2>2, <2>3, <2>4, <2>5, <2>6, <2>7, <2>8, <2>9, <2>10, <2>11, <2>12,
       <2>13, <2>14, <2>15, <2>16, <2>17, <2>18, <2>19, <2>20 DEF Proceed
<1>2. CASE UNCHANGED vars \/ Around
  BY <1>2, KeptStep DEF Around, FirstExits, MutateStaged, Rest, ChildExits, vars, files,
     disk, procs, history, Trouble, KeptInv, WholeInv, TypeOK
<1> QED BY <1>1, <1>2 DEF Next, Around

\* CommittedIsTrue: what is reported as committed is in place, on record and backed up,
\* and its agent has outlived a health window.
THEOREM CommittedTrue == Spec => CommittedIsTrue
<1>1. Init => CommitInv
  BY DEF Init, CommitInv, Achieved, KeptInv, OldIsKept, Untouched, NeedsBackup, Moving,
         WholeInv, TargetIsWhole, OneStopper, Stopper, PreMove, TypeOK, GoalAt, Image,
         JournalState, Status, Step, Applying
<1>2. CommitInv /\ [Next]_vars => CommitInv'
  BY CommitStep
<1>3. CommitInv /\ [Next]_vars =>
        [result' # result /\ result' = "committed" /\ ~crossed =>
            target = "new" /\ backup = "old" /\ journal = "committed" /\ "new" \in lasted]_vars
  <2>1. ASSUME CommitInv, NEW m \in Maintainer, WriteResult(m), result' = "committed",
               result' # result, ~crossed
        PROVE  target = "new" /\ backup = "old" /\ journal = "committed" /\ "new" \in lasted
    BY <2>1 DEF WriteResult, CommitInv, Achieved, KeptInv, WholeInv, TypeOK
  <2>2. ASSUME NEW m \in Maintainer, Start(m) \/ Proceed(m) \/ Crash(m), ~WriteResult(m)
        PROVE  UNCHANGED result
    BY <2>2 DEF Proceed, Start, Crash, Consume, Terminate, Begin, Check, Copy,
             VerifyTemp, RenameOut, RenameIn, VerifyTarget, JournalSwapped, Commit,
             CheckBackup, Undo, Restore, JournalUndone, Spawn, Health, disk
  <2>3. Around => UNCHANGED result
    BY DEF Around, FirstExits, MutateStaged, Rest, ChildExits, disk, vars
  <2> QED BY <2>1, <2>2, <2>3 DEF Next, Around
<1> QED BY <1>1, <1>2, <1>3, PTL DEF Spec, CommittedIsTrue

-----------------------------------------------------------------------------
\* Files and journal in one of the combinations that go together.
At(t, b, x, states) == target = t /\ backup = b /\ temp = x /\ journal \in states

\* What is there whenever nobody moves files: the old executable, or a committed update.
Settled ==
    \/ At("old", "none", "none", {"none", "rolled_back"})
    \/ At("new", "old", "none", {"committed"})

\* What a maintainer finds at each of its steps as long as nothing fails.
InOrder(m) ==
    /\ pc[m] = "begin" => At("old", "none", "none", {"none"})
    /\ pc[m] \in {"check", "copy"} => At("old", "none", "none", {"validated"})
    /\ pc[m] \in {"verify_temp", "rename_out"} => At("old", "none", "new", {"validated"})
    /\ pc[m] = "rename_in" => At("none", "old", "new", {"validated"})
    /\ pc[m] \in {"verify_target", "journal_swapped"} => At("new", "old", "none", {"validated"})
    /\ pc[m] = "commit" => At("new", "old", "none", {"swapped"})
    /\ pc[m] = "undo" => At("new", "old", "none", {"swapped", "committed"})
    /\ pc[m] = "restore" => At("none", "old", "none", {"swapped", "committed"})
    /\ pc[m] = "journal_undone" => At("old", "none", "none", {"swapped", "committed"})
    /\ pc[m] \in {"spawn", "health"} => IF goal[m] = "committed"
                                        THEN At("new", "old", "none", {"swapped"})
                                        ELSE At("old", "none", "none", {"rolled_back"})
    /\ pc[m] = "result" => Settled

AtWork(m) == pc[m] \in PreMove \cup Moving

Undisturbed ==
    /\ staged = "new"
    /\ first = "up" => At("old", "none", "none", {"none"})
    /\ \A m \in Maintainer : InOrder(m)
    /\ (\A m \in Maintainer : ~AtWork(m)) => Settled

\* The inductive strengthening of QuietIsConsistent.
QuietInv ==
    /\ KeptInv
    /\ trouble \/ crossed \/ Undisturbed

LEMMA WorksAlone ==
    ASSUME KeptInv, ~crossed, NEW m \in Maintainer, AtWork(m)
    PROVE  first # "up" /\ \A n \in Maintainer \ {m} : ~AtWork(n)
BY DEF KeptInv, WholeInv, OneStopper, Stopper, Untouched, AtWork, PreMove, Moving

\* What a step has to keep, if nobody else is at work.
LEMMA StaysUndisturbed ==
    ASSUME KeptInv, KeptInv', ~crossed, ~crossed', Undisturbed,
           NEW m \in Maintainer, OthersStay(m), staged' = staged, first' \in {first, "down"},
           AtWork(m)' => InOrder(m)',
           ~AtWork(m)' => IF AtWork(m) THEN Settled' ELSE UNCHANGED <<target, backup, temp, journal>>
    PROVE  Undisturbed'
<1>1. CASE AtWork(m)'
  <2>1. first' # "up" /\ \A n \in Maintainer \ {m} : ~AtWork(n)'
    BY <1>1 DEF KeptInv, WholeInv, OneStopper, Stopper, Untouched, AtWork, PreMove, Moving
  <2>2. \A n \in Maintainer : InOrder(n)'
    BY <1>1, <2>1 DEF InOrder, AtWork, PreMove, Moving
  <2> QED BY <1>1, <2>1, <2>2 DEF Undisturbed
<1>2. CASE ~AtWork(m)' /\ AtWork(m)
  <2>1. first # "up" /\ \A n \in Maintainer \ {m} : ~AtWork(n)
    BY <1>2, WorksAlone
  <2>2. \A n \in Maintainer : ~AtWork(n)'
    BY <1>2, <2>1 DEF OthersStay, AtWork
  <2>3. \A n \in Maintainer : InOrder(n)'
    BY <2>2 DEF InOrder, AtWork, PreMove, Moving
  <2> QED BY <1>2, <2>1, <2>2, <2>3 DEF Undisturbed
<1>3. CASE ~AtWork(m)' /\ ~AtWork(m)
  <2>1. UNCHANGED <<target, backup, temp, journal>>
    BY <1>3
  <2>2. InOrder(m)'
    BY <1>3 DEF InOrder, AtWork, PreMove, Moving
  <2>3. ASSUME NEW n \in Maintainer \ {m}
        PROVE  InOrder(n)'
    BY <2>1 DEF Undisturbed, OthersStay, InOrder, At, Settled
  <2>4. (\A n \in Maintainer : ~AtWork(n)') => Settled'
    BY <1>3, <2>1 DEF Undisturbed, OthersStay, AtWork, At, Settled
  <2>5. first' = "up" => At("old", "none", "none", {"none"})'
    BY <2>1 DEF Undisturbed, At
  <2> QED BY <2>2, <2>3, <2>4, <2>5 DEF Undisturbed
<1> QED BY <1>1, <1>2, <1>3

\* Trouble is not forgotten.
LEMMA HistoryGrows ==
    ASSUME TypeOK, NEW m \in Maintainer, Start(m) \/ Proceed(m) \/ Crash(m)
    PROVE  (trouble => trouble') /\ (crossed => crossed')
<1> USE DEF Trouble, history
<1>1. ASSUME Start(m) \/ Crash(m) \/ Consume(m) \/ Terminate(m)
      PROVE  (trouble => trouble') /\ (crossed => crossed')
  BY <1>1 DEF Start, Crash, Consume, Terminate
<1>2. ASSUME Begin(m) \/ Check(m) \/ Copy(m) \/ VerifyTemp(m)
      PROVE  (trouble => trouble') /\ (crossed => crossed')
  BY <1>2 DEF Begin, JournalFails, Check, Copy, VerifyTemp
<1>3. ASSUME RenameOut(m) \/ RenameIn(m) \/ VerifyTarget(m) \/ JournalSwapped(m) \/ Commit(m)
      PROVE  (trouble => trouble') /\ (crossed => crossed')
  BY <1>3 DEF RenameOut, RenameIn, VerifyTarget, JournalSwapped, JournalFails, Commit
<1>4. ASSUME Undo(m) \/ Restore(m) \/ JournalUndone(m) \/ Spawn(m) \/ Health(m) \/ WriteResult(m)
      PROVE  (trouble => trouble') /\ (crossed => crossed')
  BY <1>4 DEF Undo, UndoFails, Restore, JournalUndone, Spawn, Health, Lasts, WriteResult
<1>5. ASSUME CheckBackup(m)
      PROVE  (trouble => trouble') /\ (crossed => crossed')
  <2>1. crossed => crossed'
    BY <1>5, Zenon DEF CheckBackup
  <2>2. trouble => trouble'
    BY <1>5 DEF CheckBackup
  <2> QED BY <2>1, <2>2
<1> QED BY <1>1, <1>2, <1>3, <1>4, <1>5 DEF Proceed

\* One step of a maintainer in which nothing fails.
LEMMA QuietMove ==
    ASSUME KeptInv, KeptInv', ~trouble, ~crossed, ~trouble', ~crossed', Undisturbed,
           NEW m \in Maintainer, Start(m) \/ Proceed(m) \/ Crash(m)
    PROVE  Undisturbed'
<1>1. Moves(m) /\ TypeOK
  BY ProceedMoves DEF KeptInv, WholeInv
<1> SUFFICES /\ staged' = staged /\ first' \in {first, "down"}
             /\ AtWork(m)' => InOrder(m)'
             /\ ~AtWork(m)' => IF AtWork(m) THEN Settled'
                               ELSE UNCHANGED <<target, backup, temp, journal>>
  BY <1>1, StaysUndisturbed DEF Moves
<1>2. InOrder(m) /\ staged = "new" /\ ((\A n \in Maintainer : ~AtWork(n)) => Settled)
  BY DEF Undisturbed
<1> USE <1>1, <1>2 DEF InOrder, Settled, At, AtWork, PreMove, Moving, TypeOK, GoalAt, Applying,
        Goto, Aim, Fail, SwapFails, UndoFails, Trouble, Journal, JournalFails, files, disk,
        procs, history
<1>3. CASE Start(m)
  BY <1>3 DEF Start
<1>4. CASE Crash(m)
  BY <1>4 DEF Crash
<1>5. CASE Consume(m)
  BY <1>5 DEF Consume, AfterConsume
<1>6. CASE Terminate(m)
  BY <1>6 DEF Terminate, Undisturbed
<1>7. CASE Begin(m)
  BY <1>7 DEF Begin
<1>8. CASE Check(m)
  BY <1>8 DEF Check
<1>9. CASE Copy(m)
  BY <1>9 DEF Copy
<1>10. CASE VerifyTemp(m)
  BY <1>10 DEF VerifyTemp
<1>11. CASE RenameOut(m)
  BY <1>11 DEF RenameOut
<1>12. CASE RenameIn(m)
  BY <1>12 DEF RenameIn
<1>13. CASE VerifyTarget(m)
  BY <1>13 DEF VerifyTarget
<1>14. CASE JournalSwapped(m)
  BY <1>14 DEF JournalSwapped
<1>15. CASE Commit(m)
  BY <1>15 DEF Commit
<1>16. CASE CheckBackup(m)
  <2>1. CASE backup # "old"
    BY <1>16, <2>1 DEF CheckBackup
  <2>2. CASE backup = "old"
    <3>1. \A n \in Maintainer : ~AtWork(n)
      BY <1>16, <2>2 DEF CheckBackup, KeptInv, Untouched
    <3>2. At("new", "old", "none", {"committed"})
      BY <1>2, <2>2, <3>1
    <3> QED BY <1>16, <2>2, <3>2 DEF CheckBackup
  <2> QED BY <2>1, <2>2
<1>17. CASE Undo(m)
  BY <1>17 DEF Undo
<1>18. CASE Restore(m)
  BY <1>18 DEF Restore
<1>19. CASE JournalUndone(m)
  BY <1>19 DEF JournalUndone
<1>20. CASE Spawn(m)
  BY <1>20 DEF Spawn
<1>21. CASE Health(m)
  BY <1>21 DEF Health, Lasts
<1>22. CASE WriteResult(m)
  BY <1>22 DEF WriteResult
<1> QED
  BY <1>3, <1>4, <1>5, <1>6, <1>7, <1>8, <1>9, <1>10, <1>11, <1>12, <1>13, <1>14, <1>15,
     <1>16, <1>17, <1>18, <1>19, <1>20, <1>21, <1>22 DEF Proceed

LEMMA QuietStep ==
    ASSUME QuietInv, [Next]_vars
    PROVE  QuietInv'
<1>1. KeptInv /\ KeptInv'
  BY KeptStep DEF QuietInv
<1>2. ASSUME NEW m \in Maintainer, Start(m) \/ Proceed(m) \/ Crash(m), ~trouble', ~crossed'
      PROVE  Undisturbed'
  <2>1. (trouble => trouble') /\ (crossed => crossed')
    BY <1>1, <1>2, HistoryGrows DEF KeptInv, WholeInv
  <2> QED BY <1>1, <1>2, <2>1, QuietMove DEF QuietInv
<1>3. ASSUME UNCHANGED vars \/ Around, ~trouble', ~crossed'
      PROVE  Undisturbed'
  BY <1>3 DEF Around, FirstExits, MutateStaged, Rest, ChildExits, vars, files, disk, procs,
              history, Trouble, QuietInv, Undisturbed, InOrder, At, Settled, AtWork
<1> QED BY <1>1, <1>2, <1>3 DEF QuietInv, Next, Around

\* QuietIsConsistent: as long as nothing fails, status finds journal and files in
\* agreement whenever nobody is at work, however many updates and recoveries there were.
THEOREM QuietConsistent == Spec => []QuietIsConsistent
<1>1. Init => QuietInv
  BY DEF Init, QuietInv, Undisturbed, InOrder, At, Settled, AtWork, KeptInv, OldIsKept,
         Untouched, NeedsBackup, Moving, WholeInv, TargetIsWhole, OneStopper, Stopper, PreMove,
         TypeOK, GoalAt, Image, JournalState, Status, Step, Applying
<1>2. QuietInv /\ [Next]_vars => QuietInv'
  BY QuietStep
<1>3. QuietInv => QuietIsConsistent
  <2> SUFFICES ASSUME QuietInv, ~trouble, ~crossed,
                      \A m \in Maintainer : pc[m] \in {"idle", "consume", "done"}
               PROVE  ObservedState # "inconsistent"
    BY DEF QuietIsConsistent
  <2>1. Settled /\ staged = "new"
    BY DEF QuietInv, Undisturbed, AtWork, PreMove, Moving
  <2> QED BY <2>1 DEF Settled, At, ObservedState
<1> QED BY <1>1, <1>2, <1>3, PTL DEF Spec
=============================================================================
