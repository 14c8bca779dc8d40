----------------------------- MODULE FileService -----------------------------
(***************************************************************************)
(* The file worker of a device: which files a request reaches              *)
(* (FileAccess), what an edit makes of a file (TextEdit), and how one of    *)
(* the writes takes its place on disk, call by call (FileWrites), which    *)
(* FileAccess has as one step, its worker_write.                           *)
(***************************************************************************)
EXTENDS FileWrites

CONSTANTS
    Parts,          \* the parts that run
    Nothing,        \* None of PolicyRules
    ShortNames, Ambiguous, SensitiveParts, SensitivePairs, SensitiveFiles,
    AllowedRoots, StartTree, Creations, Policies, Asks, MaxOutput, MaxSize, MaxChanges,
    MaxAskFaults,
    TextFiles, TextEdits

VARIABLES
    part,
    tree, policy, asked, phase, goal, pending, entries, out, size, trail, answer, touched,
    changes,
    edit

access == <<tree, policy, asked, phase, goal, pending, entries, out, size, trail, answer,
            touched, changes>>
write == <<target, temp, backup, journal, work, prepared, jobs, foreign, history>>
Service == <<part, access, write, faults, edit>>

A == INSTANCE FileAccess WITH Requests <- Asks, req <- asked, target <- goal, None <- Nothing,
                              MaxFaults <- MaxAskFaults
T == INSTANCE TextEdit WITH Files <- TextFiles, Edits <- TextEdits
ASSUME EditsAreTexts == T!EditsAssumption

ASSUME ContentsAreContents == ContentsAssumption

\* Files have lengths, and so has what is asked of them.
LengthsAssumption ==
    /\ MaxOutput \in Nat
    /\ \A e \in StartTree \cup Creations : "size" \in DOMAIN e /\ e.size \in Nat
    /\ \A r \in Asks : "action" \in DOMAIN r /\ r.length \in Nat
ASSUME LengthsAreNumbers == LengthsAssumption

\* A path is a sequence of names.  On the disk at first no two entries of a directory
\* have a name in common, and each lies in a directory.
AccessAssumption ==
    /\ Nothing \notin STRING /\ Nothing \notin Seq(STRING)
    /\ StartTree \cup Creations \subseteq A!Entry
    /\ \A d, e \in StartTree :
          d.dir = e.dir => d = e \/ {d.name, d.short} \cap {e.name, e.short} \subseteq {Nothing}
    /\ \A e \in StartTree : e.dir = << >> \/ \E d \in StartTree : A!Path(d) = e.dir /\ d.kind = "dir"
    /\ \A r \in Asks : /\ {"action", "target", "attempt", "depth", "max"} \subseteq DOMAIN r
                        /\ r.target \in Seq(STRING) /\ r.depth \in Nat /\ r.max \in Nat \ {0}
ASSUME AccessIsAccess == AccessAssumption

ServiceInit ==
    /\ part \in Parts
    /\ A!Init /\ Init /\ T!Init
    /\ part # "write" => target = CHOOSE c \in Contents : \E id \in Ids : c = Requests[id].expected
    /\ part # "access" => /\ policy = CHOOSE p \in Policies : TRUE
                          /\ asked = CHOOSE r \in Asks : TRUE

ServiceNext ==
    /\ UNCHANGED part
    /\ \/ part = "access" /\ A!Next /\ UNCHANGED <<write, edit>>
       \/ part = "write" /\ Next /\ UNCHANGED <<access, edit>>
       \/ part = "edit" /\ T!Next /\ UNCHANGED <<access, write, faults>>

ServiceSpec == ServiceInit /\ [][ServiceNext]_Service

\* What the worker promises of access and of edits (see the modules).
ActsAsDecided == A!ActsAsDecided /\ A!NothingProtected
WalkIsComplete == A!WalkIsComplete
AnswerIsRecorded == A!AnswerIsRecorded
EditIsExact == T!EditIsExact
=============================================================================
