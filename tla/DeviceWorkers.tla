----------------------------- MODULE DeviceWorkers -----------------------------
(***************************************************************************)
(* The workers of a device that keep sessions or reach processes, behind   *)
(* the dispatcher's lock: they share its call and nothing else, while what *)
(* they have started goes on by itself.                                    *)
(***************************************************************************)
EXTENDS Naturals

CONSTANTS
    Services,       \* the sets of workers that are in use
    Owners, None,
    MaxSessions, MaxTerminalOutput, Headroom, Overhead, Wanted, Chunks, Codes, StillActive,
    QuietReads, MaxDrain, MaxEmitted,
    Pids, Images, Protected, Own, MaxBirths,
    BrowserIds, Files, MaxPages,
    Names, Argvs, MaxArgc, MaxArgBytes,
    Programs, Configured, StartDisk, Rules, Modes, InlineRules, DefaultRules, Commands, MaxRelinks,
    MaxTerminalCalls, MaxTerminations, MaxCommands, MaxCalls, MaxTerminalFaults, MaxBrowserFaults

VARIABLES
    served,         \* the workers that are in use
    call, calls, failures,
    runs, told, returned, lost, cancelled,
    procs, seen, answers, killed, births,
    roots, sessions, driver, dir, started, pages, views, clicks, receipts, closed,
    disk, config, launched, relinks,
    spawn

terminal == <<runs, told, returned, lost, cancelled>>
process == <<procs, seen, answers, killed, births>>
browser == <<roots, sessions, driver, dir, started, pages, views, clicks, receipts, closed>>
command == <<disk, config, launched, relinks>>
Device == <<served, call, calls, failures, terminal, process, browser, command, spawn>>

TS == INSTANCE TerminalSessions WITH MaxOutput <- MaxTerminalOutput, MaxCalls <- MaxTerminalCalls,
        MaxFaults <- MaxTerminalFaults, faults <- failures, asked <- cancelled
PC == INSTANCE ProcessControl WITH MaxCalls <- MaxTerminations, MaxFaults <- MaxTerminalFaults,
        faults <- failures
BS == INSTANCE BrowserSessions WITH Ids <- BrowserIds, MaxFaults <- MaxBrowserFaults, faults <- failures
CR == INSTANCE CommandRun WITH Files <- Programs, MaxCalls <- MaxCommands,
        MaxChanges <- MaxRelinks, changes <- relinks
CL == INSTANCE CommandLine

ASSUME LimitsFit == TS!LimitsAssumption
ASSUME NobodyIsNone == PC!NoneAssumption /\ BS!NoneAssumption
ASSUME CommandsFit == CR!FilesAssumption
ASSUME LinesFit == CL!ArgvAssumption

DeviceInit ==
    /\ served \in Services
    /\ TS!Init /\ PC!Init /\ BS!Init /\ CR!Init /\ CL!Init
    /\ "commands" \in served \/ config = CHOOSE c \in CR!Configs : TRUE

DeviceNext ==
    /\ UNCHANGED served
    /\ \/ /\ "terminal" \in served
          /\ TS!Next /\ UNCHANGED <<process, browser, command, spawn>>
       \/ /\ "process" \in served
          /\ PC!Next /\ UNCHANGED <<terminal, browser, command, spawn>>
       \/ /\ "browser" \in served
          /\ BS!Next /\ UNCHANGED <<terminal, process, command, spawn>>
       \/ /\ "commands" \in served
          /\ CR!Next /\ UNCHANGED <<failures, terminal, process, browser, spawn>>
       \/ /\ "line" \in served
          /\ CL!Next /\ UNCHANGED <<call, calls, failures, terminal, process, browser, command>>

DeviceSpec == DeviceInit /\ [][DeviceNext]_Device /\ TS!Fairness

\* What the workers promise, beside each other (see their modules).
ResultsAreTrue ==
    /\ TS!ResultsAreKept /\ TS!SlotsAreKnown
    /\ TS!OutcomeIsTrue /\ TS!PollFits
SessionEnds == TS!SessionEnds
OnlyTheApproved == PC!OnlyTheApproved /\ PC!ConfirmedIsGone /\ CR!UnsignedAsRuled
ArgvSurvives == CL!ArgvSurvives
BrowserIsOwned == BS!SeenIsClicked /\ BS!ReceiptIsNew /\ BS!BrowserLeavesNothing
=============================================================================
