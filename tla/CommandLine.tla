----------------------------- MODULE CommandLine -----------------------------
(***************************************************************************)
(* The argv of a command on its way to a child on Windows, which has one   *)
(* command line: vor-terminal checks the size of the argv, puts quotes and *)
(* backslashes around what needs them, and the child's C runtime takes the *)
(* line apart again, by rules of its own.                                  *)
(***************************************************************************)
EXTENDS Naturals, SequencesExt

CONSTANTS
    Names,          \* executables: no quote in them, no backslash at their end
    Argvs,          \* the commands that are asked for, as sequences of words
    MaxArgc,        \* max_argc
    MaxArgBytes     \* max_arg_bytes

\* Characters: any that is plain, a space, a backslash and a quote.
Plain == "a"  Space == " "  Slash == "\\"  Quote == "\""

\* Characters are strings of one character; a path has no quote, and a file's no backslash
\* at its end.
ArgvAssumption ==
    /\ Argvs \subseteq Seq(Seq(STRING))
    /\ \A name \in Names \ {<< >>} : Quote \notin Range(name) /\ Last(name) # Slash

VARIABLES
    spawn           \* [argv, line, given], the command that was started last

Slashes(n) == [k \in 1..n |-> Slash]

-----------------------------------------------------------------------------
(* argv_to_windows_command_line.                                           *)

\* Mutant of QuoteNext: backslashes before a quote are not doubled.
QuoteNextSingly(st, ch) ==
    IF ch = Slash THEN [st EXCEPT !.slashes = @ + 1]
    ELSE [out |-> st.out \o Slashes(IF ch = Quote THEN st.slashes + 1 ELSE st.slashes) \o <<ch>>,
          slashes |-> 0]

\* One character of quote_windows_arg: backslashes count twice before a quote.
QuoteNext(st, ch) ==
    IF ch = Slash THEN [st EXCEPT !.slashes = @ + 1]
    ELSE [out |-> st.out \o Slashes(IF ch = Quote THEN 2 * st.slashes + 1 ELSE st.slashes) \o <<ch>>,
          slashes |-> 0]

\* quote_windows_arg
QuoteArg(arg) ==
    LET st == FoldLeft(QuoteNext, [out |-> <<Quote>>, slashes |-> 0], arg) IN
    IF arg # << >> /\ Range(arg) \cap {Space, Quote} = {} THEN arg
    ELSE st.out \o Slashes(2 * st.slashes) \o <<Quote>>

\* join(" ")
JoinNext(line, w) == IF line = << >> THEN w ELSE line \o <<Space>> \o w
Join(words) == FoldLeft(JoinNext, << >>, words)

CommandLineOf(argv) == Join([i \in DOMAIN argv |-> QuoteArg(argv[i])])

\* BoundedTerminal::prepare, as far as it is about the argv.
Bytes(argv) == FoldLeft(LAMBDA n, arg : n + Len(arg), 0, argv)
Accepted(argv) ==
    /\ Len(argv) \in 1..MaxArgc /\ argv[1] # << >>
    /\ Bytes(argv) <= MaxArgBytes

-----------------------------------------------------------------------------
(* The child's start, by the documented rules of the C runtime.            *)

Flush(st) == [st EXCEPT !.word = @ \o Slashes(st.slashes), !.slashes = 0]
EndWord(st) ==
    IF st.open THEN [args |-> Append(st.args, Flush(st).word), word |-> << >>, open |-> FALSE,
                     quoted |-> FALSE, slashes |-> 0]
    ELSE st

\* In the name of the program a backslash is a character like any other.
ReadNext(st, ch) ==
    IF ch = Slash THEN [st EXCEPT !.open = TRUE, !.slashes = @ + 1]
    ELSE IF ch = Quote /\ st.args = << >>
    THEN [Flush(st) EXCEPT !.open = TRUE, !.quoted = ~@]
    ELSE IF ch = Quote
    THEN LET st2 == [st EXCEPT !.open = TRUE, !.slashes = 0, !.word = @ \o Slashes(st.slashes \div 2)] IN
         IF st.slashes % 2 = 1 THEN [st2 EXCEPT !.word = Append(@, Quote)]
         ELSE [st2 EXCEPT !.quoted = ~@]
    ELSE IF ch = Space /\ ~st.quoted THEN EndWord(st)
    ELSE [Flush(st) EXCEPT !.open = TRUE, !.word = Append(@, ch)]

ArgvOf(line) ==
    EndWord(FoldLeft(ReadNext, [args |-> << >>, word |-> << >>, open |-> FALSE, quoted |-> FALSE,
                                slashes |-> 0], line)).args

-----------------------------------------------------------------------------
NoSpawn == [argv |-> << >>, line |-> << >>, given |-> << >>]

Init == spawn = NoSpawn

\* ConPtySession::spawn: CreateProcessW finds the program at the start of the line.
Spawn(argv) ==
    /\ Accepted(argv) /\ argv[1] \in Names
    /\ spawn' = [argv |-> argv, line |-> CommandLineOf(argv), given |-> ArgvOf(CommandLineOf(argv))]

Refuse(argv) == ~Accepted(argv) /\ UNCHANGED spawn

Next == spawn = NoSpawn /\ \E argv \in Argvs : Spawn(argv) \/ Refuse(argv)

-----------------------------------------------------------------------------
\* The child is given the arguments that were decided on, each as one argument and
\* with its quotes, spaces and backslashes (argv_to_windows_command_line): a safe
\* command cannot become another one on the way.
ArgvSurvives == spawn.given = spawn.argv
=============================================================================
