------------------------------ MODULE FileAccess ------------------------------
(***************************************************************************)
(* An unsigned request for a file, from the dispatcher's decision to its   *)
(* answer (vor-dispatch's dispatch_at for what reads, prepare_approved_at  *)
(* for writes and edits, with vor-fs's worker), on a disk that other       *)
(* programs add to meanwhile.  The policy decides on the path   *)
(* as it is spelled; the worker resolves it again, later, and acts on what *)
(* it then names.  The paths are Windows paths: on any other system the    *)
(* policy denies every file.  A write is one step here (see FileWrites).   *)
(***************************************************************************)
EXTENDS PolicyRules

CONSTANTS
    AllowedRoots,       \* the worker's roots, canonical
    StartTree,          \* the entries of the disk at first: see Entry
    Creations,          \* the entries that other programs may add
    Policies,           \* [rules, mode, max_bytes, fixed]
    Requests,           \* the requests that come in
    MaxOutput,          \* max_output_bytes
    MaxSize,            \* bound: files do not grow past this
    MaxChanges,         \* bound: changes that other programs make
    MaxFaults           \* bound: calls that fail

\* An entry of a directory: dir is its long path, to the path that a link
\* stands for, links the names the file has.
Entry == [dir : Seq(STRING), name : STRING, short : ShortNames \cup {None},
          kind : {"dir", "file", "link"}, to : Seq(STRING), links : Nat, size : Nat]
Path(e) == Append(e.dir, e.name)
At(t, path) == CHOOSE e \in t : Path(e) = path
Exists(t, path) == path = << >> \/ \E e \in t : Path(e) = path
IsFile(t, path) == \E e \in t : Path(e) = path /\ e.kind = "file"

VARIABLES
    tree,       \* the disk
    policy, req,
    phase,      \* the dispatcher's next step
    target,     \* the canonical path of the worker
    pending,    \* walk_safe: the directories still to be read, with their level
    entries,    \* ... and the entries of the current one still to be visited
    out,        \* the paths of the output, and its size
    size,
    trail,      \* the outcomes on the audit log
    answer,     \* what the caller is told
    touched,    \* history: [path, access] of what was read or written
    changes, faults     \* counters of the bounds
vars == <<tree, policy, req, phase, target, pending, entries, out, size, trail,
          answer, touched, changes, faults>>

Unanswered == [status |-> "none", paths |-> {}, size |-> 0]
Walks == {"filesystem.list", "filesystem.search_files", "filesystem.search_content"}

\* remote_action_allowed and remote_approved_action_allowed, as far as files go:
\* dispatch_proto_at routes the latter to prepare_approved_at.
RemoteActions == Walks \cup {"filesystem.read", "filesystem.info"}
ApprovedActions == {"filesystem.write"}

Init ==
    /\ tree = StartTree
    /\ policy \in Policies /\ req \in Requests
    /\ phase = "authorize"
    /\ target = << >> /\ pending = << >> /\ entries = {} /\ out = {} /\ size = 0
    /\ trail = << >> /\ answer = Unanswered /\ touched = {}
    /\ changes = 0 /\ faults = 0

Answered(status) == /\ phase' = "done"
                    /\ answer' = [Unanswered EXCEPT !.status = status]

Worker == <<target, pending, entries, out, size, touched>>
Outside == <<changes, faults>>

-----------------------------------------------------------------------------
(* ReadOnlyDispatcher::dispatch_at                                         *)

\* authorize_at puts its decision on the log; an action that is not remote, or
\* that needs a signature, has a record of that besides.
Authorize ==
    LET decision == Decide(policy, tree, req)
        remote == req.action \in RemoteActions IN
    /\ phase = "authorize" /\ req.action \notin ApprovedActions
    /\ IF remote /\ decision = "auto"
       THEN /\ phase' = "resolve"
            /\ trail' = <<"auto">>
            /\ UNCHANGED answer
       ELSE IF ~remote
       THEN Answered("remote_scope_denied") /\ trail' = <<decision, "remote_scope_denied">>
       ELSE IF decision = "deny"
       THEN Answered("denied") /\ trail' = <<"deny">>
       ELSE Answered("approval_required") /\ trail' = <<"approval", "remote_approval_required">>
    /\ UNCHANGED <<tree, policy, req, Worker, Outside>>

\* An error of the worker goes on the log as worker_failed, but for a write: its
\* error is passed on with ? before prepare_approved_at comes to a record.
Fail(status) ==
    /\ Answered(status)
    /\ trail' = IF req.action \in ApprovedActions THEN trail ELSE Append(trail, "worker_failed")

\* prepare_approved_at: a write goes through unsigned when the policy says so and
\* the caller asked for that; the rest is answered with a challenge, or not.
Route(decision) ==
    IF decision = "auto" /\ req.attempt
    THEN phase' = "resolve" /\ trail' = Append(trail, decision) /\ UNCHANGED answer
    ELSE IF decision \in {"approval", "elevated_approval"}
    THEN Answered("approval_required")
         /\ trail' = trail \o <<decision, "approval_challenge_issued">>
    ELSE Answered("policy_required")
         /\ trail' = trail \o <<decision, "remote_approval_policy_required">>

Prepare ==
    LET decision == Decide(policy, tree, req) IN
    /\ phase = "authorize" /\ req.action \in ApprovedActions
    /\ IF decision = "deny"
       THEN Answered("denied") /\ trail' = <<decision>>
       ELSE IF req.edit
       THEN phase' = "edit" /\ trail' = <<decision>> /\ UNCHANGED answer
       ELSE Route(decision)
    /\ UNCHANGED <<tree, policy, req, Worker, Outside>>

\* The write that an edit has become is a request of its own to the policy.
PrepareAgain ==
    /\ phase = "edited"
    /\ Route(Decide(policy, tree, req))
    /\ UNCHANGED <<tree, policy, req, Worker, Outside>>

\* Mutant of Answer: the size that was read is not looked at again.
AnswerAnySize ==
    /\ phase = "record"
    /\ trail' = Append(trail, "executed")
    /\ phase' = "done"
    /\ answer' = [status |-> "ok", paths |-> out, size |-> size]
    /\ UNCHANGED <<tree, policy, req, Worker, Outside>>

\* What the worker brought is answered when the log has it, if it fits; nobody
\* asks that of a write's receipt.
Answer ==
    /\ phase = "record"
    /\ IF size > MaxOutput
       THEN /\ Answered("output_too_large")
            /\ trail' = Append(trail, "output_limit_exceeded")
       ELSE /\ trail' = Append(trail, "executed")
            /\ phase' = "done"
            /\ answer' = [status |-> "ok", paths |-> out, size |-> size]
    /\ UNCHANGED <<tree, policy, req, Worker, Outside>>

\* The log cannot be written: the request ends with that error, whatever has
\* been done already.
LogFails ==
    /\ phase \in {"authorize", "edited", "record"}
    /\ faults < MaxFaults /\ faults' = faults + 1
    /\ Answered("audit_error")
    /\ UNCHANGED <<tree, policy, req, trail, Worker, changes>>

-----------------------------------------------------------------------------
(* FsWorker: the path.                                                     *)

\* canonicalize: links are followed.
Canonical(t, parts) ==
    FoldLeft(LAMBDA dir, part :
                IF dir # None /\ \E e \in t : e.dir = dir /\ part \in {e.name, e.short}
                THEN LET e == CHOOSE x \in t : x.dir = dir /\ part \in {x.name, x.short} IN
                     IF e.kind = "link" THEN e.to ELSE Path(e)
                ELSE None,
             << >>, parts)

\* reject_reparse_components: no existing component is a link.
HasLink(t, parts) ==
    \E k \in 1..Len(parts) :
        LET dir == Canonical(t, SubSeq(parts, 1, k - 1)) IN
        dir # None /\ \E e \in t : /\ e.dir = dir /\ parts[k] \in {e.name, e.short}
                                  /\ e.kind = "link"

\* ensure_allowed
Allowed(path) == \E root \in AllowedRoots : Within(path, root)

ManyNames(t, path) == IsFile(t, path) /\ At(t, path).links > 1

\* resolve_exploration_target, for everything that reads: what it refuses.
Unsafe(path) ==
    \/ Range(req.target) \cap Ambiguous # {}
    \/ HasLink(tree, req.target) \/ path = None \/ ~Allowed(path)
    \/ Sensitive(path) \/ ManyNames(tree, path)

\* read_range looks at the length that is asked first, read_limited at the
\* length of the file then.
Resolve ==
    LET path == Canonical(tree, req.target)
        read == req.action = "filesystem.read" IN
    /\ phase = "resolve" /\ req.action # "filesystem.write"
    /\ IF read /\ req.part = "range" /\ req.length > MaxOutput
       THEN Fail("read_limit") /\ UNCHANGED target
       ELSE IF Unsafe(path)
       THEN Fail("unsafe") /\ UNCHANGED target
       ELSE /\ target' = path
            /\ phase' = IF ~read THEN "explore" ELSE IF req.part = "whole" THEN "stat" ELSE "bytes"
            /\ UNCHANGED <<answer, trail>>
    /\ UNCHANGED <<tree, policy, req, pending, entries, out, size, touched, Outside>>

\* resolve_write_target and the checks of write_inner on the path: a file that
\* is not there yet goes by the canonical path of its directory.
ResolveWrite ==
    LET there == Canonical(tree, req.target)
        dir == Canonical(tree, Front(req.target))
        path == IF there # None \/ dir = None THEN there ELSE Append(dir, Last(req.target)) IN
    /\ phase = "resolve" /\ req.action = "filesystem.write"
    /\ IF \/ Range(req.target) \cap Ambiguous # {}
          \/ there # None /\ ~IsFile(tree, there)
          \/ path = None \/ ~Allowed(path)
          \/ Sensitive(path) \/ HasLink(tree, req.target)
       THEN Fail("unsafe") /\ UNCHANGED target
       ELSE /\ target' = path
            /\ phase' = "write"
            /\ UNCHANGED <<answer, trail>>
    /\ UNCHANGED <<tree, policy, req, pending, entries, out, size, touched, Outside>>

-----------------------------------------------------------------------------
(* FsWorker: the operations.                                               *)

Touch(path, access) == touched' = touched \cup {[path |-> path, access |-> access]}

\* read_limited asks for the length first ...
Stat ==
    /\ phase = "stat"
    /\ IF ~IsFile(tree, target)
       THEN Fail("io")
       ELSE IF At(tree, target).size > MaxOutput
       THEN Fail("read_limit")
       ELSE phase' = "bytes" /\ UNCHANGED <<answer, trail>>
    /\ UNCHANGED <<tree, policy, req, Worker, Outside>>

\* ... and then reads what is there: read_range takes as much as was asked,
\* read_lines gives up at the line that goes over the limit.
ReadBytes ==
    LET there == At(tree, target).size
        part == IF req.part = "whole" \/ there < req.length THEN there ELSE req.length IN
    /\ phase = "bytes"
    /\ IF ~IsFile(tree, target)
       THEN Fail("io") /\ UNCHANGED <<out, size, touched>>
       ELSE /\ Touch(target, "read")
            /\ IF req.part = "lines" /\ part > MaxOutput
               THEN Fail("read_limit") /\ UNCHANGED <<out, size>>
               ELSE /\ out' = {target} /\ size' = part
                    /\ phase' = "record" /\ UNCHANGED <<answer, trail>>
    /\ UNCHANGED <<tree, policy, req, target, pending, entries, Outside>>

\* prepare_edit: the file is read for the edits, by the rule of a write, and the
\* request becomes one to write what they make of it.
ReadEdit ==
    LET path == Canonical(tree, req.target) IN
    /\ phase = "edit"
    /\ IF Unsafe(path) \/ ~IsFile(tree, path)
       THEN Fail("unsafe") /\ UNCHANGED <<target, req, touched>>
       ELSE /\ target' = path /\ Touch(path, "edit")
            /\ req' = [req EXCEPT !.size = {1}, !.expected = "digest", !.edit = FALSE]
            /\ phase' = "edited"
            /\ UNCHANGED <<answer, trail>>
    /\ UNCHANGED <<tree, policy, pending, entries, out, size, Outside>>

\* file_info, or the start of a walk; only list_directory insists on a directory,
\* the searches fail when they read it.
Explore ==
    /\ phase = "explore"
    /\ IF req.action = "filesystem.info"
       THEN /\ out' = {target} /\ Touch(target, "info")
            /\ phase' = "record"
            /\ UNCHANGED <<pending, answer, trail>>
       ELSE IF IsFile(tree, target)
       THEN Fail("unsafe") /\ UNCHANGED <<pending, out, touched>>
       ELSE /\ pending' = <<[dir |-> target, level |-> 0]>>
            /\ phase' = "walk"
            /\ UNCHANGED <<out, touched, answer, trail>>
    /\ UNCHANGED <<tree, policy, req, target, entries, size, Outside>>

Current == pending[Len(pending)]

\* Mutant of WalkDirectory: level is compared with > depth.
WalkOneDeeper ==
    /\ phase = "walk" /\ entries = {}
    /\ IF pending = << >>
       THEN phase' = "record" /\ UNCHANGED <<pending, entries>>
       ELSE /\ IF Current.level > req.depth
               THEN entries' = {}
               ELSE entries' = {[e |-> e, level |-> Current.level] :
                                 e \in {x \in tree : x.dir = Current.dir}}
            /\ pending' = Front(pending)
            /\ UNCHANGED phase
    /\ UNCHANGED <<tree, policy, req, target, out, size, trail, answer, touched, Outside>>

\* walk_safe: the next directory is read, unless it is as deep as was asked.
WalkDirectory ==
    /\ phase = "walk" /\ entries = {}
    /\ IF pending = << >>
       THEN phase' = "record" /\ UNCHANGED <<pending, entries>>
       ELSE /\ entries' = IF Current.level >= req.depth
                          THEN {}
                          ELSE {[e |-> e, level |-> Current.level] :
                                   e \in {x \in tree : x.dir = Current.dir}}
            /\ pending' = Front(pending)
            /\ UNCHANGED phase
    /\ UNCHANGED <<tree, policy, req, target, out, size, trail, answer, touched, Outside>>

\* The visitors put an entry on the list, a file whose name matches, or the
\* places in a file whose text does; they stop when they have as many as asked.
Visited(e) ==
    CASE req.action = "filesystem.list" -> {Path(e)}
      [] req.action = "filesystem.search_files" -> IF e.kind = "file" THEN {Path(e)} ELSE {}
      [] req.action = "filesystem.search_content" ->
            IF e.kind = "file" /\ e.size <= req.max_file THEN {Path(e)} ELSE {}

\* An entry: links, sensitive names and files with other names are passed over.
WalkEntry ==
    \E x \in entries :
        LET e == x.e  path == Path(e)
            skip == e.kind = "link" \/ Sensitive(path) \/ ManyNames(tree, path)
            found == IF skip THEN {} ELSE Visited(e)
            full == ~skip /\ Cardinality(out \cup found) >= req.max IN
        /\ phase = "walk"
        /\ IF ~skip /\ ~Allowed(path)
           THEN Fail("outside") /\ UNCHANGED <<out, size, entries, pending, touched>>
           ELSE /\ out' = out \cup found
                /\ size' = Cardinality(out')
                /\ touched' = IF req.action = "filesystem.search_content"
                              THEN touched \cup {[path |-> p, access |-> "search"] : p \in found}
                              ELSE touched
                /\ IF full
                   THEN entries' = {} /\ pending' = << >> /\ phase' = "record"
                   ELSE /\ entries' = entries \ {x}
                        /\ pending' = IF ~skip /\ e.kind = "dir"
                                      THEN Append(pending, [dir |-> path, level |-> x.level + 1])
                                      ELSE pending
                        /\ UNCHANGED phase
                /\ UNCHANGED <<answer, trail>>
        /\ UNCHANGED <<tree, policy, req, target, Outside>>

\* A search has run for five seconds.
SearchTimeout ==
    /\ phase = "walk" /\ entries # {} /\ req.action # "filesystem.list"
    /\ faults < MaxFaults /\ faults' = faults + 1
    /\ Fail("search_timeout")
    /\ UNCHANGED <<tree, policy, req, Worker, changes>>

\* write: the precondition is compared and the target replaced.
Write ==
    LET before == IF Exists(tree, target) THEN {At(tree, target)} ELSE {}
        fits == IF req.expected = "absent" THEN before = {} ELSE before # {} IN
    /\ phase = "write"
    /\ IF ~fits
       THEN Fail("precondition_failed") /\ UNCHANGED <<tree, touched>>
       ELSE /\ tree' = (tree \ before) \cup
                  {[dir |-> Front(target), name |-> Last(target),
                    short |-> None, kind |-> "file", to |-> << >>, links |-> 1, size |-> Max(req.size)]}
            /\ Touch(target, "write")
            /\ phase' = "record"
            /\ UNCHANGED <<answer, trail>>
    /\ UNCHANGED <<policy, req, target, pending, entries, out, size, Outside>>

-----------------------------------------------------------------------------
(* Other programs.                                                         *)

\* A file, a directory or a link is made; Windows gives it a short name that
\* its directory does not have yet.
Create(e) ==
    /\ changes < MaxChanges /\ changes' = changes + 1
    /\ e.dir = << >> \/ \E d \in tree : Path(d) = e.dir /\ d.kind = "dir"
    /\ \A x \in tree : x.dir = e.dir =>
          {x.name, x.short} \cap ({e.name, e.short} \ {None}) = {}
    /\ tree' = tree \cup {e}
    /\ UNCHANGED <<policy, req, phase, trail, answer, Worker, faults>>

\* A file grows.
Grow(e) ==
    /\ changes < MaxChanges /\ changes' = changes + 1
    /\ e.kind = "file" /\ e.size < MaxSize
    /\ tree' = (tree \ {e}) \cup {[e EXCEPT !.size = @ + 1]}
    /\ UNCHANGED <<policy, req, phase, trail, answer, Worker, faults>>

Work ==
    \/ Authorize \/ Prepare \/ PrepareAgain \/ ReadEdit \/ Answer \/ Resolve \/ ResolveWrite \/ Stat \/ ReadBytes
    \/ Explore \/ WalkDirectory \/ WalkEntry \/ Write

Next ==
    \/ Work \/ LogFails \/ SearchTimeout
    \/ \E e \in Creations : Create(e)
    \/ \E e \in tree : Grow(e)

Spec == Init /\ [][Next]_vars

-----------------------------------------------------------------------------
(* Properties.                                                             *)

\* A file that is read, or written, without a signature is one whose own rule
\* says so, by the path it really has: no spelling of a path, no short name
\* that comes to stand for something later and no link takes an unsigned
\* request where the policy would not have let it go (normalize_windows_path
\* decides, resolve_exploration_target and resolve_write_target act later).
\* What an edit reads, and shows in a summary, is a file that a write is not
\* denied; the rule of reading it is not asked.
\* Entries are added meanwhile, none is removed or renamed.
ActsAsDecided ==
    \A t \in touched :
        /\ t.access \in {"read", "write", "info"} =>
              RuleOf(policy.rules, t.path, IF t.access = "write" THEN "write" ELSE "read") = "auto"
        /\ t.access = "write" => policy.mode = "policy" /\ req.attempt /\ ~Sensitive(t.path)
        /\ t.access = "edit" => RuleOf(policy.rules, t.path, "write") # "deny"

\* Nothing that is protected is shown or written, by any operation and at any
\* depth of a walk: it lies in the roots, below what was asked for, no part of
\* it is sensitive, and it is neither a link nor a file that has other names
\* (the checks of walk_safe on the entry it is about to visit).
NothingProtected ==
    \A p \in answer.paths \cup {t.path : t \in touched} :
        /\ Allowed(p) /\ ~Sensitive(p) /\ Within(p, target)
        /\ ~ManyNames(tree, p) /\ \A e \in tree : Path(e) = p => e.kind # "link"

\* What a walk may show of what was there when it began: no part of the way to it,
\* from where the walk began, is passed over.
Eligible ==
    {Path(e) : e \in {x \in StartTree :
        LET p == Path(x) IN
        /\ Within(p, target) /\ p # target
        /\ Len(p) <= Len(target) + req.depth
        /\ ~HasLink(StartTree, p) /\ ~ManyNames(StartTree, p)
        /\ \A k \in Len(target) + 1..Len(p) : ~Sensitive(SubSeq(p, 1, k))
        /\ req.action # "filesystem.list" => x.kind = "file"}}

\* A walk that is answered with fewer entries than were asked for has left
\* nothing out, to the depth that was asked and no further, whatever other
\* programs added as it went; and it never brings more than was asked for.
WalkIsComplete ==
    (answer.status = "ok" /\ req.action \in {"filesystem.list", "filesystem.search_files"}) =>
        /\ Cardinality(answer.paths) <= req.max
        /\ Cardinality(answer.paths) < req.max => Eligible \subseteq answer.paths
        /\ \A p \in answer.paths : Len(p) <= Len(target) + req.depth

\* What the rules of the design say of a search, too: a file whose text is shown
\* has a rule that lets it be read.  It does not hold: walk_safe asks the rule of
\* the directory where the walk begins only.
SearchesAsRuled ==
    \A t \in touched : t.access = "search" => RuleOf(policy.rules, t.path, "read") = "auto"

\* An answer that brings something fits the limit although the file grew after
\* it was measured, and the log tells of it; an effect without an answer is
\* at least announced on the log (dispatch_at and prepare_approved_at append
\* before and after), by the decision that let it happen.
AnswerIsRecorded ==
    /\ answer.status = "ok" => /\ answer.size <= MaxOutput
                               /\ Last(trail) = "executed" /\ "auto" \in Range(Front(trail))
    /\ touched # {} => trail # << >> /\ trail[1] # "deny"
    /\ (\E t \in touched : t.access # "edit") => "auto" \in Range(trail)
=============================================================================
