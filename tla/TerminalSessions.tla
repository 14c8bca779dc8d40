--------------------------- MODULE TerminalSessions ---------------------------
(***************************************************************************)
(* The terminal sessions of a device (vor-terminal's                       *)
(* TerminalSessionManager and BoundedTerminal), as the dispatcher uses     *)
(* them: terminal.exec starts a thread that runs a child process under a   *)
(* pseudo console, terminal.poll and terminal.cancel look at it later.     *)
(* The dispatcher is behind a lock and serves one call at a time; the      *)
(* threads, the children and the clock go on meanwhile.  The id of a       *)
(* session is random and stands here for the call that started it.         *)
(***************************************************************************)
EXTENDS Naturals, FiniteSets, SequencesExt, FiniteSetsExt

CONSTANTS
    Owners,         \* [organization, actor, device, workspace]
    MaxSessions,    \* DEFAULT_MAX_REMOTE_TERMINAL_SESSIONS
    MaxOutput,      \* max_output_bytes of the dispatcher
    Headroom,       \* what remote_terminal_spec keeps free for the JSON, 16 KiB
    Overhead,       \* what the JSON needs besides the output, less than that
    Wanted,         \* the output limits that are asked for
    Chunks,         \* what a child writes at once
    Codes,          \* the exit codes of children
    StillActive,    \* 259, which Windows gives for a child that is running
    QuietReads,     \* drain_output: empty reads before it stops, 5
    MaxDrain,       \* drain_output: reads, 256
    MaxCalls,       \* bound: calls of the dispatcher
    MaxFaults,      \* bound: calls of the system that fail
    MaxEmitted        \* bound: what a child writes

\* What the limits have to be.
LimitsAssumption ==
    /\ {MaxSessions, MaxOutput, Headroom, Overhead} \cup Wanted \cup Chunks \subseteq Nat
    /\ Overhead + 3 <= Headroom /\ Headroom < MaxOutput

VARIABLES
    call,           \* the dispatcher's call, or Idle
    calls, faults,  \* counters of the bounds
    runs,           \* [id -> a session and its thread]: see Run
    told,           \* the ids whose start was answered
    returned,       \* history: [id, outcome] that polls answered
    lost,           \* history: the sessions whose start or result was not answered
    asked           \* history: the sessions whose cancellation was asked for
vars == <<call, calls, faults, runs, told, returned, lost, asked>>

Idle == [kind |-> "idle"]
Outcomes == {"completed", "cancelled", "timed_out", "output_limit", "failed"}

-----------------------------------------------------------------------------
(* remote_terminal_spec.                                                   *)

\* What is asked for, but not more than a poll can bring in base64.
RoomFor(requested, room) == IF requested < room THEN requested ELSE room
OutputLimit(requested) == RoomFor(requested, ((MaxOutput - Headroom) * 3) \div 4)

\* The answer of a poll: base64 of the output in JSON.
Encoded(n) == 4 * ((n + 2) \div 3) + Overhead

\* A session: registered in the table, its state, its thread's pc and counters,
\* its child, and the output: what the pipe has, what the thread has read.
Run(owner, limit) ==
    [owner |-> owner, limit |-> limit, registered |-> TRUE, state |-> "running",
     pc |-> "begin", cancel |-> FALSE, elapsed |-> FALSE, quiet |-> 0, reads |-> 0,
     child |-> "none", code |-> 0, exit |-> 0, wrote |-> 0, pipe |-> 0, n |-> 0]

Started == DOMAIN runs
Registered == {id \in Started : runs[id].registered}

Init ==
    /\ call = Idle /\ calls = 0 /\ faults = 0
    /\ runs = << >>
    /\ told = {} /\ returned = {} /\ lost = {} /\ asked = {}

history == <<told, returned, lost, asked>>

-----------------------------------------------------------------------------
(* BoundedTerminal::run, the thread of a session.                          *)

\* The thread's outcome becomes the state, in one step under the state's lock,
\* and nothing is left of its loop.
Finish(id, outcome, r) ==
    runs' = [runs EXCEPT ![id] = [r EXCEPT !.state = outcome, !.pc = "end", !.pipe = 0,
                                           !.wrote = 0, !.quiet = 0, !.reads = 0]]
Goto(id, pc) == runs' = [runs EXCEPT ![id].pc = pc]

\* ConPtySession::terminate: a child that has exited is left alone; one that has
\* exited with the code of a running one is not, and cannot be terminated.
Terminate(id, outcome) ==
    LET r == runs[id] IN
    IF r.child = "exited" /\ r.code = StillActive
    THEN Finish(id, "failed", r)
    ELSE Finish(id, outcome, [r EXCEPT !.child = IF @ = "alive" THEN "killed" ELSE @])

Others == <<call, calls, faults, history>>

\* A session that was cancelled before it began does not begin.
Spawn(id) ==
    /\ runs[id].pc = "begin"
    /\ IF runs[id].cancel
       THEN Finish(id, "cancelled", runs[id])
       ELSE runs' = [runs EXCEPT ![id].pc = "loop", ![id].child = "alive"]
    /\ UNCHANGED Others

\* append_output, of all that the pipe has.
Read(id) ==
    LET r == runs[id] IN
    IF r.n + r.pipe > r.limit
    THEN Terminate(id, "output_limit")
    ELSE runs' = [runs EXCEPT ![id].n = @ + r.pipe, ![id].pipe = 0, ![id].pc = "exit"]

\* Mutant of Turn: the clock is not looked at.
TurnForever(id) ==
    LET r == runs[id] IN
    /\ r.pc = "loop"
    /\ IF r.cancel THEN Terminate(id, "cancelled") ELSE Read(id)
    /\ UNCHANGED Others

\* A turn of the loop: cancelled, out of time, or what there is to read.
Turn(id) ==
    LET r == runs[id] IN
    /\ r.pc = "loop"
    /\ IF r.cancel THEN Terminate(id, "cancelled")
       ELSE IF r.elapsed THEN Terminate(id, "timed_out")
       ELSE Read(id)
    /\ UNCHANGED Others

\* exit_code: the loop goes round again while the child seems to be running.
Exit(id) ==
    LET r == runs[id] IN
    /\ r.pc = "exit"
    /\ IF r.child = "exited" /\ r.code # StillActive
       THEN runs' = [runs EXCEPT ![id].pc = "drain", ![id].exit = r.code]
       ELSE Goto(id, "loop")
    /\ UNCHANGED Others

\* drain_output: the last bytes may come after the exit code, so some reads in a
\* row have to be empty; and there is an end to it.
Drain(id) ==
    LET r == runs[id] IN
    /\ r.pc = "drain"
    /\ IF r.pipe = 0
       THEN IF r.quiet + 1 >= QuietReads
            THEN Finish(id, "completed", r)
            ELSE IF r.reads + 1 >= MaxDrain
            THEN Finish(id, "failed", r)
            ELSE runs' = [runs EXCEPT ![id].quiet = @ + 1, ![id].reads = @ + 1]
       ELSE IF r.n + r.pipe > r.limit
            THEN Terminate(id, "output_limit")
            ELSE IF r.reads + 1 >= MaxDrain
            THEN Finish(id, "failed", [r EXCEPT !.n = @ + r.pipe, !.pipe = 0])
            ELSE runs' = [runs EXCEPT ![id].n = @ + r.pipe, ![id].pipe = 0,
                                      ![id].quiet = 0, ![id].reads = @ + 1]
    /\ UNCHANGED Others

\* A system call of the thread fails, or the thread panics: the session has
\* failed, and what becomes of the child is left to its console, which closes.
Breaks(id) ==
    /\ runs[id].pc \notin {"start", "end"} /\ faults < MaxFaults
    /\ faults' = faults + 1
    /\ Finish(id, "failed", runs[id])
    /\ UNCHANGED <<call, calls, history>>

Thread(id) == Spawn(id) \/ Turn(id) \/ Exit(id) \/ Drain(id)

-----------------------------------------------------------------------------
(* The child, and the clock.                                               *)

\* It writes, and what it has started may go on to after it.
ChildWrites(id) ==
    /\ runs[id].child \in {"alive", "exited"} /\ runs[id].pc # "end"
    /\ \E k \in Chunks :
          /\ runs[id].wrote + k <= MaxEmitted
          /\ runs' = [runs EXCEPT ![id].pipe = @ + k, ![id].wrote = @ + k]
    /\ UNCHANGED Others

ChildExits(id) ==
    /\ runs[id].child = "alive" /\ runs[id].pc # "end"
    /\ \E code \in Codes : runs' = [runs EXCEPT ![id].child = "exited", ![id].code = code]
    /\ UNCHANGED Others

\* timeout_ms have gone by since the child was started.
TimeUp(id) ==
    /\ runs[id].pc \notin {"start", "begin", "end"} /\ ~runs[id].elapsed
    /\ runs' = [runs EXCEPT ![id].elapsed = TRUE]
    /\ UNCHANGED Others

-----------------------------------------------------------------------------
(* The dispatcher's calls.                                                 *)

Call(kind, id, owner, pc) ==
    /\ call = Idle /\ calls < MaxCalls
    /\ calls' = calls + 1
    /\ call' = [kind |-> kind, id |-> id, owner |-> owner, pc |-> pc, snapshot |-> "running"]
Return == call' = Idle

\* TerminalSessionManager::start: no slot, or no thread, and the entry is taken
\* out again; or a session and its thread.
Start(owner) ==
    \E wanted \in Wanted :
        /\ IF Cardinality(Registered) >= MaxSessions
           THEN /\ call = Idle /\ calls < MaxCalls /\ calls' = calls + 1
                /\ UNCHANGED <<call, runs, faults>>
           ELSE \/ /\ Call("exec", calls + 1, owner, "record")
                   /\ runs' = [id \in Started \cup {calls'} |->
                                IF id = calls' THEN Run(owner, OutputLimit(wanted)) ELSE runs[id]]
                   /\ UNCHANGED faults
                \/ /\ call = Idle /\ calls < MaxCalls /\ calls' = calls + 1
                   /\ faults < MaxFaults /\ faults' = faults + 1
                   /\ UNCHANGED <<call, runs>>
        /\ UNCHANGED history

\* session(): an id that is not there and one of another owner are errors, which
\* end the call.
Poll(id, owner) ==
    /\ Call("poll", id, owner, "look")
    /\ UNCHANGED <<faults, runs, history>>
Cancel(id, owner) ==
    /\ Call("cancel", id, owner, "look")
    /\ UNCHANGED <<faults, runs, history>>

Owned(id, owner) == id \in Registered /\ runs[id].owner = owner

\* Mutant of PollLooks: whether it has finished is looked up after the snapshot.
PollLooksAgain ==
    /\ call.kind = "poll" /\ call.pc = "look"
    /\ IF ~Owned(call.id, call.owner) THEN Return
       ELSE call' = [call EXCEPT !.snapshot = runs[call.id].state, !.pc = "remove"]
    /\ UNCHANGED <<calls, faults, runs, history>>

\* poll: the state as it is now.
PollLooks ==
    /\ call.kind = "poll" /\ call.pc = "look"
    /\ IF ~Owned(call.id, call.owner) THEN Return
       ELSE LET state == runs[call.id].state IN
            call' = [call EXCEPT !.snapshot = state,
                                 !.pc = IF state = "running" THEN "record" ELSE "remove"]
    /\ UNCHANGED <<calls, faults, runs, history>>

\* remove: a finished session leaves the table before anything is recorded.
RemoveSession ==
    /\ call.kind = "poll" /\ call.pc = "remove"
    /\ call' = [call EXCEPT !.pc = "record"]
    /\ runs' = IF runs[call.id].state = "running" THEN runs
               ELSE [runs EXCEPT ![call.id].registered = FALSE]
    /\ UNCHANGED <<calls, faults, history>>

\* cancel: whether it runs is looked at, and then the flag is set.
CancelLooks ==
    /\ call.kind = "cancel" /\ call.pc = "look"
    /\ IF ~Owned(call.id, call.owner) THEN Return
       ELSE call' = [call EXCEPT !.pc = IF runs[call.id].state = "running" THEN "flag" ELSE "record"]
    /\ UNCHANGED <<calls, faults, runs, history>>
Flag ==
    /\ call.kind = "cancel" /\ call.pc = "flag"
    /\ runs' = [runs EXCEPT ![call.id].cancel = TRUE]
    /\ call' = [call EXCEPT !.pc = "record"]
    /\ asked' = asked \cup {call.id}
    /\ UNCHANGED <<calls, faults, told, returned, lost>>

\* The outcome is appended to the audit log and the call answered; a poll's
\* answer has to fit.
Record ==
    LET ended == call.kind = "poll" /\ call.snapshot # "running"
        fits == ended => Encoded(runs[call.id].n) <= MaxOutput IN
    /\ call.kind \in {"exec", "poll", "cancel"} /\ call.pc = "record"
    /\ Return
    /\ told' = IF call.kind = "exec" THEN told \cup {call.id} ELSE told
    /\ returned' = IF ended /\ fits
                   THEN returned \cup {[id |-> call.id, outcome |-> call.snapshot]}
                   ELSE returned
    /\ lost' = IF ended /\ ~fits THEN lost \cup {call.id} ELSE lost
    /\ UNCHANGED <<calls, faults, runs, asked>>

\* The append fails: the caller is told that, and nothing of the result.
RecordFails ==
    /\ call.kind \in {"exec", "poll", "cancel"} /\ call.pc = "record"
    /\ faults < MaxFaults /\ faults' = faults + 1
    /\ Return
    /\ lost' = IF call.kind = "exec" \/ (call.kind = "poll" /\ call.snapshot # "running")
               THEN lost \cup {call.id} ELSE lost
    /\ UNCHANGED <<calls, runs, told, returned, asked>>

Serve == PollLooks \/ RemoveSession \/ CancelLooks \/ Flag \/ Record \/ RecordFails

Next ==
    \/ \E owner \in Owners : Start(owner)
    \/ \E id \in told, owner \in Owners : Poll(id, owner) \/ Cancel(id, owner)
    \/ Serve
    \/ \E id \in Started :
          Thread(id) \/ Breaks(id) \/ ChildWrites(id) \/ ChildExits(id) \/ TimeUp(id)

\* Threads are scheduled, and time goes by.
Fairness ==
    \A id \in 1..MaxCalls :
        /\ WF_vars(id \in Started /\ Thread(id))
        /\ WF_vars(id \in Started /\ TimeUp(id))

Spec == Init /\ [][Next]_vars /\ Fairness

-----------------------------------------------------------------------------
(* Properties.                                                             *)

Ended(id) == runs[id].state # "running"

\* What a session came to is returned to one poll, whole and as it was, or it is
\* still there to be polled; only a fault of the log can lose it (poll, remove
\* and dispatch_at's record, with the thread finishing in between).
ResultsAreKept ==
    /\ \A id \in Started : ~runs[id].registered =>
          \/ id \in lost
          \/ \E r \in returned : r.id = id /\ r.outcome = runs[id].state
          \/ call.kind = "poll" /\ call.id = id /\ call.pc = "record"
             /\ call.snapshot = runs[id].state
    /\ \A r \in returned : ~runs[r.id].registered /\ r.id \notin lost
    /\ Cardinality(lost) <= faults

\* The outcome is what happened: a session is cancelled because it was asked to
\* be, timed out because its time was up, completed with the code of its child,
\* and in none of these is the child still running (Turn and Exit, against the
\* child, the clock and Flag).
OutcomeIsTrue ==
    \A id \in Started :
        LET r == runs[id] IN
        /\ r.state \in {"completed", "cancelled", "timed_out", "output_limit"} => r.child # "alive"
        /\ r.state = "completed" => r.child = "exited" /\ r.exit = r.code /\ r.code # StillActive
        /\ r.state = "cancelled" => id \in asked
        /\ r.state = "timed_out" => r.elapsed
        /\ r.n <= r.limit

\* A slot is held by a session whose owner knows of it and can poll it, but for
\* those whose start could not be recorded: each of these costs a slot until the
\* process ends, and there is a limit to the slots (start, against Record).
SlotsAreKnown ==
    /\ \A id \in Registered : id \in told \cup lost \/ (call.kind = "exec" /\ call.id = id)
    /\ Cardinality(Registered) <= MaxSessions
    /\ \A id \in Started : ~Ended(id) => id \in Registered

\* The result of a poll fits the dispatcher's limit, whatever limit was asked
\* for: remote_terminal_spec's budget against base64 (Record).
PollFits ==
    \A id \in Started : Encoded(runs[id].n) <= MaxOutput

\* A session ends, though its child writes, hangs, or exits with the code of a
\* running one, whether or not anybody polls it.
SessionEnds ==
    \A id \in 1..MaxCalls : (id \in Started /\ ~Ended(id)) ~> (id \in Started /\ Ended(id))

\* What M2_ACCEPTANCE.md says of polls; a failing append disproves it.
ResultsAreReturned == \A id \in lost : runs[id].registered
=============================================================================
