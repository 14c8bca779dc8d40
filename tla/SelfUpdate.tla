----------------------------- MODULE SelfUpdate -----------------------------
(***************************************************************************)
(* The agent's self-update: vor-maintainer, a process of its own, stops    *)
(* the agent, puts another executable in its place with vor-maintenance's  *)
(* MaintenanceTransaction, starts it, watches it for a while, and goes     *)
(* back to the old one when it does not last.  A second command, recover,  *)
(* restores the old executable after an interruption.  Several maintainers *)
(* may be started on one plan; each is one command with one signed         *)
(* approval, and may fail at any system call or die between two.           *)
(*                                                                         *)
(* A file is named by what is in it, as its digest would: "old" and "new"  *)
(* are the two digests the plan expects, "other" is anything else.         *)
(***************************************************************************)
EXTENDS Naturals

CONSTANTS
    Maintainer,     \* processes started on the plan
    Approval,       \* signed approvals for it, by request id
    ApprovalOf,     \* [Maintainer -> Approval]
    ActionOf        \* [Approval -> maintenance.apply or maintenance.recover]

ASSUME ConstantsAssumption ==
    /\ ApprovalOf \in [Maintainer -> Approval]
    /\ ActionOf \in [Approval -> {"apply", "recover"}]

VARIABLES
    \* On disk.
    target, staged, backup, temp,   \* the plan's four files
    journal,    \* state of the last line; "broken" once a line is not whole
    marks,      \* approvals with a consumed marker
    result,     \* status in the result file
    \* Processes.
    first,      \* the agent with the plan's current_pid
    child,      \* what runs in the process a maintainer has started
    pc,         \* where a maintainer stands
    goal,       \* the status it will report if nothing else goes wrong
    \* History.
    lasted,     \* executables that have outlived a health window
    trouble,    \* something failed, died or was changed from outside
    crossed     \* a recovery was begun while another maintainer moved files

files == <<target, staged, backup, temp>>
disk == <<files, journal, marks, result>>
procs == <<first, child>>
history == <<lasted, trouble, crossed>>
vars == <<disk, procs, pc, goal, history>>

Image == {"none", "old", "new", "other"}
JournalState == {"none", "validated", "swapped", "committed", "rolled_back", "broken"}
Status == {"none", "swap_failed", "committed", "rolled_back", "rollback_restart_failed",
           "recovered", "recovery_restart_failed"}
Step == {"idle", "consume", "terminate", "begin", "check", "copy", "verify_temp",
         "rename_out", "rename_in", "verify_target", "journal_swapped", "spawn", "health",
         "commit", "check_backup", "undo", "restore", "journal_undone", "result", "done"}

Init ==
    /\ target = "old" /\ staged = "new" /\ backup = "none" /\ temp = "none"
    /\ journal = "none"
    /\ marks = {}
    /\ result = "none"
    /\ first = "up"
    /\ child = [m \in Maintainer |-> "none"]
    /\ pc = [m \in Maintainer |-> "idle"]
    /\ goal = [m \in Maintainer |-> "none"]
    /\ lasted = {} /\ trouble = FALSE /\ crossed = FALSE

Goto(m, step) == pc' = [pc EXCEPT ![m] = step] /\ UNCHANGED goal

Aim(m, status, step) ==
    /\ goal' = [goal EXCEPT ![m] = status]
    /\ pc' = [pc EXCEPT ![m] = step]

\* The command ends with an error, and with nothing in the result file.
Fail(m) == Goto(m, "done")

SwapFails(m) == Aim(m, "swap_failed", "result")

\* A system call that failed.
Trouble == trouble' = TRUE /\ UNCHANGED <<lasted, crossed>>

-----------------------------------------------------------------------------
(* Before anything is touched.                                             *)

\* validate_plan, verify_authorization and open_expected_process; or, for recover,
\* validate_recovery_plan.
Start(m) ==
    /\ pc[m] = "idle"
    /\ IF ActionOf[ApprovalOf[m]] = "apply"
       THEN IF target = "old" /\ staged = "new" /\ first = "up"
            THEN Aim(m, "committed", "consume") ELSE Fail(m)
       ELSE IF backup = "old" /\ staged # "none"
            THEN Aim(m, "recovered", "consume") ELSE Fail(m)
    /\ UNCHANGED <<disk, procs, history>>

AfterConsume(m) == IF goal[m] = "committed" THEN "terminate" ELSE "check_backup"

\* Mutant of Consume: the marker is written over.
ConsumeAgain(m) ==
    /\ pc[m] = "consume"
    /\ marks' = marks \cup {ApprovalOf[m]}
    /\ Goto(m, AfterConsume(m))
    /\ UNCHANGED <<files, journal, result, procs, history>>

\* The marker is made with create_new, then written.
Consume(m) ==
    /\ pc[m] = "consume"
    /\ \/ /\ ApprovalOf[m] \in marks
          /\ Fail(m)
          /\ UNCHANGED <<marks, history>>
       \/ /\ ApprovalOf[m] \notin marks
          /\ marks' = marks \cup {ApprovalOf[m]}
          /\ \/ Goto(m, AfterConsume(m)) /\ UNCHANGED history
             \/ Fail(m) /\ Trouble
    /\ UNCHANGED <<files, journal, result, procs>>

\* terminate_open_process, on the handle that was checked.
Terminate(m) ==
    /\ pc[m] = "terminate"
    /\ \/ first = "up" /\ first' = "down" /\ Goto(m, "begin") /\ UNCHANGED history
       \/ first' \in {first, "down"} /\ Fail(m) /\ Trouble
    /\ UNCHANGED <<disk, child>>

-----------------------------------------------------------------------------
(* MaintenanceTransaction.                                                 *)

\* append_journal: a whole line, a part of one, or nothing; a new journal without a
\* whole line is no journal either.
Journal(m, state) == journal' = IF journal = "broken" THEN "broken" ELSE state

JournalFails(m) ==
    /\ journal' \in {"broken", IF journal = "none" THEN "broken" ELSE journal}
    /\ Trouble

Begin(m) ==
    /\ pc[m] = "begin"
    /\ \/ /\ target = "old" /\ staged = "new" /\ journal = "none"
          /\ \/ Journal(m, "validated") /\ Goto(m, "check") /\ UNCHANGED history
             \/ JournalFails(m) /\ Fail(m)
       \/ /\ ~(target = "old" /\ staged = "new" /\ journal = "none")
          /\ Fail(m)
          /\ UNCHANGED <<journal, history>>
    /\ UNCHANGED <<files, marks, result, procs>>

\* swap looks at the files again.
Check(m) ==
    /\ pc[m] = "check"
    /\ IF target = "old" /\ staged = "new" /\ backup = "none" /\ temp = "none"
       THEN Goto(m, "copy") ELSE SwapFails(m)
    /\ UNCHANGED <<disk, procs, history>>

\* What is staged by now; a copy that fails is left where it is.
Copy(m) ==
    /\ pc[m] = "copy"
    /\ \/ temp' = staged /\ Goto(m, "verify_temp") /\ UNCHANGED history
       \/ temp' = "other" /\ SwapFails(m) /\ Trouble
    /\ UNCHANGED <<target, staged, backup, journal, marks, result, procs>>

\* Mutant of VerifyTemp: the digest of the copy is taken on trust.
TrustTemp(m) ==
    /\ pc[m] = "verify_temp"
    /\ Goto(m, "rename_out")
    /\ UNCHANGED <<disk, procs, history>>

VerifyTemp(m) ==
    /\ pc[m] = "verify_temp"
    /\ IF temp = "new" THEN Goto(m, "rename_out") ELSE SwapFails(m)
    /\ UNCHANGED <<disk, procs, history>>

RenameOut(m) ==
    /\ pc[m] = "rename_out"
    /\ \/ /\ target # "none"
          /\ target' = "none" /\ backup' = target
          /\ Goto(m, "rename_in")
          /\ UNCHANGED <<temp, history>>
       \/ temp' \in {"none", temp} /\ SwapFails(m) /\ Trouble /\ UNCHANGED <<target, backup>>
    /\ UNCHANGED <<staged, journal, marks, result, procs>>

\* An executable that runs can be renamed, but neither removed nor replaced.
InUse == \E m \in Maintainer : child[m] # "none"

\* When the second rename fails, the first is taken back, if that can be done.
RenameIn(m) ==
    /\ pc[m] = "rename_in"
    /\ \/ /\ temp # "none" /\ ~InUse
          /\ target' = temp /\ temp' = "none"
          /\ Goto(m, "verify_target")
          /\ UNCHANGED <<backup, history>>
       \/ /\ temp' \in {"none", temp}
          /\ \/ backup # "none" /\ ~InUse /\ target' = backup /\ backup' = "none"
             \/ UNCHANGED <<target, backup>>
          /\ SwapFails(m)
          /\ Trouble
    /\ UNCHANGED <<staged, journal, marks, result, procs>>

\* A target that is not what it should be, or cannot be read, is taken back as well.
VerifyTarget(m) ==
    /\ pc[m] = "verify_target"
    /\ \/ target = "new" /\ Goto(m, "journal_swapped") /\ UNCHANGED history
       \/ Aim(m, "swap_failed", "undo") /\ Trouble
    /\ UNCHANGED <<disk, procs>>

\* The files stay swapped when this cannot be recorded.
JournalSwapped(m) ==
    /\ pc[m] = "journal_swapped"
    /\ \/ Journal(m, "swapped") /\ Goto(m, "spawn") /\ UNCHANGED history
       \/ JournalFails(m) /\ SwapFails(m)
    /\ UNCHANGED <<files, marks, result, procs>>

Commit(m) ==
    /\ pc[m] = "commit"
    /\ \/ /\ target = "new"
          /\ \/ Journal(m, "committed") /\ Goto(m, "result") /\ UNCHANGED history
             \/ JournalFails(m) /\ Fail(m)
       \/ target # "new" /\ Fail(m) /\ UNCHANGED <<journal, history>>
    /\ UNCHANGED <<files, marks, result, procs>>

-----------------------------------------------------------------------------
(* Going back: rollback_paths and recover_previous.                        *)

\* Steps between the first move of a file and the report on it.
Moving == {"rename_in", "verify_target", "journal_swapped", "spawn", "health", "commit",
           "undo", "restore", "journal_undone", "result"}

\* recover_previous validates the backup once more.
CheckBackup(m) ==
    /\ pc[m] = "check_backup"
    /\ \/ /\ backup = "old"
          /\ Goto(m, "undo")
          /\ crossed' = (crossed \/ \E n \in Maintainer \ {m} : pc[n] \in Moving)
       \/ backup # "old" /\ Fail(m) /\ UNCHANGED crossed
    /\ UNCHANGED <<disk, procs, lasted, trouble>>

\* swap reports what went wrong; rollback and recover end with the error.
UndoFails(m) ==
    /\ IF goal[m] = "swap_failed" THEN Goto(m, "result") ELSE Fail(m)
    /\ Trouble

\* rollback_paths looks for the backup, recover_previous has done so.
Undo(m) ==
    /\ pc[m] = "undo"
    /\ \/ /\ goal[m] = "recovered" \/ backup # "none"
          /\ target = "none" \/ ~InUse
          /\ target' = "none"
          /\ Goto(m, "restore")
          /\ UNCHANGED history
       \/ UndoFails(m) /\ UNCHANGED target
    /\ UNCHANGED <<staged, backup, temp, journal, marks, result, procs>>

Restore(m) ==
    /\ pc[m] = "restore"
    /\ \/ /\ backup # "none"
          /\ target = "none" \/ ~InUse
          /\ target' = backup /\ backup' = "none" /\ temp' \in {"none", temp}
          /\ IF backup = "old" THEN Goto(m, "journal_undone") /\ UNCHANGED history
                               ELSE UndoFails(m)
       \/ UndoFails(m) /\ UNCHANGED <<target, backup, temp>>
    /\ UNCHANGED <<staged, journal, marks, result, procs>>

\* Mutant of JournalUndone: nothing is recorded.
UndoneUnrecorded(m) ==
    /\ pc[m] = "journal_undone"
    /\ Goto(m, IF goal[m] = "swap_failed" THEN "result" ELSE "spawn")
    /\ UNCHANGED <<disk, procs, history>>

JournalUndone(m) ==
    /\ pc[m] = "journal_undone"
    /\ \/ /\ Journal(m, "rolled_back")
          /\ Goto(m, IF goal[m] = "swap_failed" THEN "result" ELSE "spawn")
          /\ UNCHANGED history
       \/ journal' \in {journal, "broken"} /\ UndoFails(m)
    /\ UNCHANGED <<files, marks, result, procs>>

-----------------------------------------------------------------------------
(* The new agent, or the old one again.                                    *)

\* Mutant of Spawn: an executable that cannot be started ends the command.
SpawnOrFail(m) ==
    /\ pc[m] = "spawn"
    /\ \/ target # "none" /\ child' = [child EXCEPT ![m] = target] /\ Goto(m, "health")
       \/ UNCHANGED child /\ Fail(m)
    /\ UNCHANGED <<disk, first, history>>

\* A new executable that cannot be started is rolled back; an old one is reported, or,
\* by recover, not even that.
Spawn(m) ==
    /\ pc[m] = "spawn"
    /\ \/ /\ target # "none"
          /\ child' = [child EXCEPT ![m] = target]
          /\ Goto(m, "health")
          /\ UNCHANGED history
       \/ /\ UNCHANGED child
          /\ \/ goal[m] = "committed" /\ Aim(m, "rolled_back", "undo") /\ UNCHANGED history
             \/ /\ goal[m] = "rolled_back"
                /\ Aim(m, "rollback_restart_failed", "result")
                /\ Trouble
             \/ goal[m] = "recovered" /\ Fail(m) /\ Trouble
    /\ UNCHANGED <<disk, first>>

\* remains_alive, to its end or to the child's.
Lasts(m) ==
    /\ child[m] # "none"
    /\ lasted' = lasted \cup {child[m]}
    /\ Goto(m, IF goal[m] = "committed" THEN "commit" ELSE "result")
    /\ UNCHANGED <<trouble, crossed>>

\* Mutant of Health: a child that has been started is taken to be alive.
Assume(m) ==
    /\ pc[m] = "health"
    /\ Goto(m, IF goal[m] = "committed" THEN "commit" ELSE "result")
    /\ UNCHANGED <<disk, procs, history>>

Health(m) ==
    /\ pc[m] = "health"
    /\ \/ Lasts(m)
       \/ /\ child[m] = "none"
          /\ \/ goal[m] = "committed" /\ Aim(m, "rolled_back", "undo")
             \/ goal[m] = "rolled_back" /\ Aim(m, "rollback_restart_failed", "result")
             \/ goal[m] = "recovered" /\ Aim(m, "recovery_restart_failed", "result")
          /\ UNCHANGED history
       \/ Fail(m) /\ Trouble
    /\ UNCHANGED <<disk, procs>>

\* write_result removes what is there before it renames.
WriteResult(m) ==
    /\ pc[m] = "result"
    /\ \/ result' = goal[m] /\ UNCHANGED history
       \/ result' \in {"none", result} /\ Trouble
    /\ Goto(m, "done")
    /\ UNCHANGED <<files, journal, marks, procs>>

-----------------------------------------------------------------------------
(* Around the maintainers.                                                 *)

Crash(m) ==
    /\ pc[m] \notin {"idle", "done"}
    /\ Fail(m)
    /\ Trouble
    /\ UNCHANGED <<disk, procs>>

ChildExits(m) ==
    /\ child[m] # "none"
    /\ child' = [child EXCEPT ![m] = "none"]
    /\ UNCHANGED <<disk, first, pc, goal, history>>

FirstExits ==
    /\ first = "up"
    /\ first' = "down"
    /\ Trouble
    /\ UNCHANGED <<disk, child, pc, goal>>

\* Somebody writes to the staged file after it was approved.
MutateStaged ==
    /\ staged = "new"
    /\ staged' = "other"
    /\ Trouble
    /\ UNCHANGED <<target, backup, temp, journal, marks, result, procs, pc, goal>>

\* What a maintainer does once it has been started.
Proceed(m) ==
    \/ Consume(m) \/ Terminate(m) \/ Begin(m) \/ Check(m) \/ Copy(m) \/ VerifyTemp(m)
    \/ RenameOut(m) \/ RenameIn(m) \/ VerifyTarget(m) \/ JournalSwapped(m) \/ Commit(m)
    \/ CheckBackup(m) \/ Undo(m) \/ Restore(m) \/ JournalUndone(m)
    \/ Spawn(m) \/ Health(m) \/ WriteResult(m)

\* All maintainers are done: the bound of the instance.
Rest ==
    /\ \A m \in Maintainer : pc[m] = "done"
    /\ UNCHANGED vars

Next ==
    \/ \E m \in Maintainer : Start(m) \/ Proceed(m) \/ Crash(m) \/ ChildExits(m)
    \/ FirstExits \/ MutateStaged
    \/ Rest

\* A maintainer that is neither killed nor stuck in the system goes on.
Fairness == \A m \in Maintainer : WF_vars(Proceed(m))

Spec == Init /\ [][Next]_vars /\ Fairness

-----------------------------------------------------------------------------
(* Properties.                                                             *)

\* Steps that only apply-update takes, up to the end of its swap.
Applying == {"terminate", "begin", "check", "copy", "verify_temp", "rename_out", "rename_in",
             "verify_target", "journal_swapped"}

\* What a maintainer may be after at each of its steps.
GoalAt(m) ==
    /\ pc[m] = "consume" => goal[m] \in {"committed", "recovered"}
    /\ pc[m] \in Applying \cup {"commit"} => goal[m] = "committed"
    /\ pc[m] = "check_backup" => goal[m] = "recovered"
    /\ pc[m] \in {"undo", "restore", "journal_undone"} =>
           goal[m] \in {"swap_failed", "rolled_back", "recovered"}
    /\ pc[m] \in {"spawn", "health"} => goal[m] \in {"committed", "rolled_back", "recovered"}
    /\ pc[m] = "result" => goal[m] # "none"

\* Type correctness; every step has its aims.
TypeOK ==
    /\ {target, staged, backup, temp} \subseteq Image
    /\ journal \in JournalState
    /\ marks \subseteq Approval
    /\ result \in Status
    /\ first \in {"up", "down"}
    /\ child \in [Maintainer -> Image]
    /\ pc \in [Maintainer -> Step]
    /\ goal \in [Maintainer -> Status]
    /\ lasted \subseteq Image
    /\ {trouble, crossed} \subseteq BOOLEAN
    /\ \A m \in Maintainer : GoalAt(m)

\* What stands in the agent's place is the old executable or the approved new one,
\* whole, or for a moment nothing: neither a copy that broke off nor a file changed
\* after it was approved (M3_ACCEPTANCE: staged mutation is detected before replacement).
TargetIsWhole == target \in {"none", "old", "new"}

\* The old executable is never lost: it is in its place, or it is the backup that
\* recover asks for; whatever fails and whoever dies, unless a recovery was begun while
\* another maintainer was at work on the files.
OldIsKept == crossed \/ target = "old" \/ backup = "old"

\* An approval stops one agent or moves files for one maintainer, however often it is
\* presented (consume_authorization: before any stop or swap).
Spent(m) == pc[m] \notin {"idle", "consume", "done"}
OneRunPerApproval ==
    \A m, n \in Maintainer : Spent(m) /\ Spent(n) /\ ApprovalOf[m] = ApprovalOf[n] => m = n

\* What is reported as committed is in place, is on record, has its backup, and its
\* agent has outlived a health window.
CommittedIsTrue ==
    [][result' # result /\ result' = "committed" /\ ~crossed =>
        target = "new" /\ backup = "old" /\ journal = "committed" /\ "new" \in lasted]_vars

\* inspect_plan.
ObservedState ==
    CASE journal \in {"none", "validated"} /\ target = "old" /\ staged = "new"
            /\ backup = "none" /\ temp = "none" -> "ready or validated"
      [] journal \in {"swapped", "committed"} /\ target = "new" /\ backup = "old" -> journal
      [] journal = "rolled_back" /\ target = "old" /\ backup = "none" /\ temp = "none" -> journal
      [] OTHER -> "inconsistent"

\* As long as nothing fails, status finds journal and files in agreement whenever no
\* maintainer is at work, whatever has been rolled back and recovered.
QuietIsConsistent ==
    ~trouble /\ ~crossed /\ (\A m \in Maintainer : pc[m] \in {"idle", "consume", "done"}) =>
        ObservedState # "inconsistent"

\* An agent that was stopped is followed by a result: a new agent that lasted, or the
\* old one again, unless a system call failed on the way.
OutcomeIsTold ==
    (\E m \in Maintainer : pc[m] = "begin") ~>
        trouble \/ crossed \/ result \in {"committed", "rolled_back", "rollback_restart_failed"}
=============================================================================
