------------------------------ MODULE CommandRun ------------------------------
(***************************************************************************)
(* terminal.exec from its decision to the start of the child: vor-policy's *)
(* terminal_exec_decision and the dispatcher's execute_authorized (no      *)
(* signature needed) or execute_approved.  The decision and the execution  *)
(* each look up the executable; in between other programs may change what  *)
(* the path of the command names, though not the configured executables.   *)
(***************************************************************************)
EXTENDS Naturals, Sequences, SequencesExt, FiniteSets

CONSTANTS
    Files,              \* [name, shell, copy]: name is the stem, shell what forbidden_safe_executable
                        \* refuses by stem or extension, whatever the rules say, copy tells two
                        \* of one name apart
    Configured,         \* safe_executable_paths, in order
    StartDisk,          \* [path -> the file that it names, or None]
    Rules,              \* safe_commands: [name, args]
    Modes,              \* approval_mode
    InlineRules, DefaultRules,  \* decisions that the configuration may give
    Commands,           \* [path (or None), name, args] of the requests
    None,
    MaxCalls,           \* bound: commands
    MaxChanges          \* bound: changes of what a path names

\* What a path names is a file, if anything, and what is configured are paths.
FilesAssumption ==
    /\ StartDisk \in [DOMAIN StartDisk -> Files \cup {None}] /\ None \notin Files
    /\ Configured \in Seq(DOMAIN StartDisk)

\* Arguments, by what is made of them.
ShellControl == {"a;b", "a|b", "a>b"}                   \* contains_shell_control
ForbiddenArguments == {"-c", "/c", "--exec"}            \* forbidden_safe_argument

\* The arguments that start a program given on the command line, for the
\* interpreters of command_is_inline_eval; a final x stands for text glued to one.
Triggers == [python |-> {"-c", "-cx"}, node |-> {"-e", "-ex", "--eval", "--eval=x", "-p", "-px"},
             ruby |-> {"-e", "-ex"}, bash |-> {"-c", "-cx", "--command", "--command=x"},
             powershell |-> {"-c", "/c", "-command", "-enc"}, pwsh |-> {"-c", "/c", "-command", "-enc"},
             cmd |-> {"/c", "/k"}]
Slashed == {"/c", "/cx", "/k", "/r", "/d"}
Dashed == {"-c", "-cx", "-e", "-ex", "-p", "-px", "--eval", "--eval=x", "--command", "--command=x",
           "-command", "-enc", "-file", "-ep", "-v", "--exec"}

\* The subcommands of git that are hardened.
ReadingGit == {"status", "diff", "log", "show", "branch"}

VARIABLES
    disk,           \* what each path names
    config,         \* [mode, inline, default]
    call,           \* the command and the dispatcher's next step
    launched,            \* history: the child that was started last, [command, file, signed, hardened]
                    \* and the file that the decision saw
    calls, changes
vars == <<disk, config, call, launched, calls, changes>>

Idle == [kind |-> "idle"]

-----------------------------------------------------------------------------
(* PolicyEngine::terminal_exec_decision.                                   *)

\* The loop of command_is_inline_eval: what comes after the first argument that is
\* no switch, or after --, is not looked at.
Triggered(name, args) ==
    LET switches == Dashed \cup (IF name \in {"cmd", "powershell", "pwsh"} THEN Slashed ELSE {}) IN
    \E k \in 1..Len(args) :
        args[k] \in Triggers[name] /\ \A j \in 1..k - 1 : args[j] \in switches

\* cmd_is_inline_eval: /c, /k and /r, with the text glued to them or not.
CmdEval(args) ==
    \E k \in 1..Len(args) :
        args[k] \in {"/c", "/cx", "/k", "/r"} /\ \A j \in 1..k - 1 : args[j] \in Slashed

\* powershell_is_inline_eval: a value belongs to the switch before it; of what is
\* left, the first that says so decides.
PowershellEval(args, windows) ==
    LET value == [k \in 1..Len(args) |-> k > 1 /\ args[k - 1] = "-ep"]
        text(k) == args[k] \notin Dashed \cup Slashed \cup {"--"}
        says == {k \in 1..Len(args) : ~value[k] /\
                    (text(k) \/ args[k] \in {"-c", "/c", "-command", "-enc", "-file"})} IN
    /\ says # {}
    /\ LET first == CHOOSE k \in says : \A j \in says : k <= j IN
       IF text(first) THEN windows ELSE args[first] # "-file"

InlineEval(command) ==
    \/ command.name = "wsl" /\ command.args # << >>
    \/ command.name = "cmd" /\ CmdEval(command.args)
    \/ /\ command.name \in {"powershell", "pwsh"}
       /\ PowershellEval(command.args, command.name = "powershell")
    \/ command.name \in DOMAIN Triggers /\ Triggered(command.name, command.args)

\* The configured executables that are there.
Trusted(d) == {i \in DOMAIN Configured : d[Configured[i]] # None}

\* A name is that of the first trusted file that has it.
Named(d, name) ==
    LET named == {i \in Trusted(d) : d[Configured[i]].name = name} IN
    IF named = {} THEN None
    ELSE d[Configured[CHOOSE i \in named : \A j \in named : i <= j]]

\* Mutant of Resolve: what the path names now.
ResolveAsSpelled(d, command) ==
    IF command.path # None THEN d[command.path] ELSE Named(d, command.name)

\* resolve_safe_executable_path: a path has to name a trusted file.
Resolve(d, command) ==
    IF command.path = None THEN Named(d, command.name)
    ELSE IF \E i \in Trusted(d) : d[Configured[i]] = d[command.path] THEN d[command.path]
    ELSE None

\* safe_command_matches
Safe(d, command) ==
    LET file == Resolve(d, command) IN
    /\ file # None /\ ~file.shell
    /\ Range(command.args) \cap (ShellControl \cup ForbiddenArguments) = {}
    /\ \E rule \in Rules : rule.name = file.name /\ rule.args = command.args

\* The rule and its reason.
Decision(command) ==
    IF InlineEval(command) THEN [rule |-> config.inline, reason |-> "terminal_inline_eval"]
    ELSE IF config.mode # "strict" /\ Safe(disk, command)
    THEN [rule |-> "auto", reason |-> "terminal_safe_list"]
    ELSE [rule |-> config.default, reason |-> "terminal_default"]

-----------------------------------------------------------------------------
(* The dispatcher.                                                         *)

Configs == [mode : Modes, inline : InlineRules, default : DefaultRules]

Init ==
    /\ disk = StartDisk
    /\ config \in Configs
    /\ call = Idle /\ launched = {} /\ calls = 0 /\ changes = 0

At(pc) == call.kind = "command" /\ call.pc = pc

\* prepare_approved_at: terminal_safe_list runs as it is, everything else that is
\* not denied is for the owner to sign, if the rule says so.
Authorize(command) ==
    LET decision == Decision(command) IN
    /\ call = Idle /\ calls < MaxCalls /\ calls' = calls + 1
    /\ call' = IF decision.reason = "terminal_safe_list" THEN [kind |-> "command", command |-> command, pc |-> "resolve",
                            decided |-> Resolve(disk, command)]
               ELSE IF decision.rule \in {"approval", "elevated_approval"}
               THEN [kind |-> "command", command |-> command, pc |-> "signed"]
               ELSE Idle
    /\ UNCHANGED <<disk, config, launched, changes>>

\* execute_authorized: the executable is looked up again and that file is run; a
\* git that reads has its arguments and environment hardened, unless its repository
\* is seen to have an alias for the subcommand.
Execute ==
    LET command == call.command
        file == Resolve(disk, command)
        harden == file # None /\ file.name = "git" /\ command.args # << >>
                  /\ command.args[1] \in ReadingGit IN
    /\ At("resolve") /\ call' = Idle
    /\ \/ /\ file # None
          /\ launched' = {[command |-> command, file |-> file, decided |-> call.decided,
                      signed |-> FALSE, hardened |-> harden]}
       \/ (file = None \/ harden) /\ UNCHANGED launched
    /\ UNCHANGED <<disk, config, calls, changes>>

\* execute_approved: what was signed is run as it is spelled; or the owner does not
\* sign, or it does not start.
ExecuteSigned ==
    LET path == call.command.path IN
    /\ At("signed") /\ call' = Idle
    /\ \/ UNCHANGED launched
       \/ /\ path # None /\ disk[path] # None
          /\ launched' = {[command |-> call.command, file |-> disk[path], signed |-> TRUE]}
    /\ UNCHANGED <<disk, config, calls, changes>>

\* Another program changes what a path names that is not configured.
Relink(path, file) ==
    /\ changes < MaxChanges /\ changes' = changes + 1
    /\ path \notin Range(Configured)
    /\ disk' = [disk EXCEPT ![path] = file]
    /\ UNCHANGED <<config, call, launched, calls>>
\* A configured executable is uninstalled, or is back.
Uninstall(path) ==
    /\ changes < MaxChanges /\ changes' = changes + 1
    /\ path \in Range(Configured)
    /\ disk' = [disk EXCEPT ![path] = IF @ = None THEN StartDisk[path] ELSE None]
    /\ UNCHANGED <<config, call, launched, calls>>

Next ==
    \/ \E command \in Commands : Authorize(command)
    \/ Execute \/ ExecuteSigned
    \/ \E path \in DOMAIN StartDisk :
          Uninstall(path) \/ \E file \in Files \cup {None} : Relink(path, file)

Spec == Init /\ [][Next]_vars

-----------------------------------------------------------------------------
(* Properties.                                                             *)

\* What runs without a signature is a configured executable, with the arguments of a
\* rule and none that starts other text as a program, in a mode that allows it; the
\* rule is for the file that the decision saw, which is no shell, and for the stem of
\* the file that runs as well unless the command gave a path: by the time of the second
\* look a path may name another configured executable, and a name another of its stem,
\* even a script (terminal_exec_decision, then execute_authorized).
UnsignedAsRuled ==
    \A x \in launched : ~x.signed =>
        LET args == x.command.args IN
        /\ config.mode # "strict" /\ ~InlineEval(x.command) /\ ~x.decided.shell
        /\ \E i \in DOMAIN Configured : StartDisk[Configured[i]] = x.file
        /\ Range(args) \cap (ShellControl \cup ForbiddenArguments) = {}
        /\ \E rule \in Rules : rule.name = x.decided.name /\ rule.args = args
        /\ x.command.path = None => x.file.name = x.decided.name
        /\ x.file.name = "git" /\ args # << >> => (args[1] \in ReadingGit => x.hardened)
=============================================================================
