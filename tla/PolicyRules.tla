----------------------------- MODULE PolicyRules -----------------------------
(***************************************************************************)
(* What vor-policy makes of a request, and vor-path of a path: the rule of *)
(* a file, the conditions of an automatic write, the commands that may run *)
(* unsigned.  A path is a sequence of components below a drive, in lower   *)
(* case; a component is the long name of an entry, the 8.3 name Windows    *)
(* gave it, or one of the ambiguous spellings that are never matched.      *)
(***************************************************************************)
EXTENDS Naturals, FiniteSets, SequencesExt

CONSTANTS
    ShortNames,         \* components that look like an 8.3 name, name~1
    Ambiguous,          \* "..", a trailing dot, a stream, a reserved name, ...
    SensitiveParts,     \* .git, .ssh, startup, .env*, ...
    SensitivePairs,     \* .github\workflows, etc\cron.d, ...
    SensitiveFiles,     \* .bashrc, *.ps1, *.exe, ... as a last component
    None                \* no path, no 8.3 name, no precondition

Decisions == {"auto", "approval", "elevated_approval", "deny"}

\* windows_path_within, at a component boundary.
Within(path, root) == IsPrefix(root, path)

\* sensitive_windows_path
Sensitive(path) ==
    \/ Range(path) \cap SensitiveParts # {}
    \/ \E i \in 1..Len(path) - 1 : <<path[i], path[i + 1]>> \in SensitivePairs
    \/ path # << >> /\ Last(path) \in SensitiveFiles

-----------------------------------------------------------------------------
(* normalize_windows_path.  A tree is a set of entries [dir, name, short]: *)
(* the long path of the directory, the long name, and the 8.3 name or None.*)

\* The long path that components name in the tree, or None: GetLongPathNameW.
LongPath(tree, parts) ==
    FoldLeft(LAMBDA dir, part :
                IF dir # None /\ \E e \in tree : e.dir = dir /\ part \in {e.name, e.short}
                THEN Append(dir, (CHOOSE e \in tree : e.dir = dir /\ part \in {e.name, e.short}).name)
                ELSE None,
             << >>, parts)

\* expand_short_names: the longest prefix that exists in its long form, and
\* the rest as it is spelled.
Expanded(tree, parts) ==
    LET n == CHOOSE k \in 0..Len(parts) :
                 /\ LongPath(tree, SubSeq(parts, 1, k)) # None
                 /\ \A j \in k + 1..Len(parts) : LongPath(tree, SubSeq(parts, 1, j)) = None
    IN LongPath(tree, SubSeq(parts, 1, n)) \o SubSeq(parts, n + 1, Len(parts))

\* Mutant of Normalize: what cannot be expanded is kept.
NormalizeLiterally(tree, parts) ==
    IF Range(parts) \cap Ambiguous # {}
    THEN None
    ELSE Expanded(tree, parts)

\* A component that still looks short may become an alias of anything.
Normalize(tree, parts) ==
    LET long == IF Range(parts) \cap ShortNames = {} THEN parts ELSE Expanded(tree, parts) IN
    IF Range(parts) \cap Ambiguous # {} \/ Range(long) \cap ShortNames # {}
    THEN None
    ELSE long

-----------------------------------------------------------------------------
(* PolicyEngine.                                                           *)

\* The rules whose root is over the path, by the root's length; of two with the
\* same root the later one counts.
NearestRule(rules, path) ==
    LET over == {i \in DOMAIN rules : Within(path, rules[i].path)} IN
    CHOOSE i \in over : \A j \in over :
        \/ Len(rules[j].path) < Len(rules[i].path)
        \/ Len(rules[j].path) = Len(rules[i].path) /\ j <= i

\* filesystem_decision, on a path that has been normalized.
RuleOf(rules, path, access) ==
    IF path = None \/ ~\E i \in DOMAIN rules : Within(path, rules[i].path)
    THEN "deny"
    ELSE LET rule == rules[NearestRule(rules, path)] IN
         IF access = "write" THEN rule.write ELSE rule.read

\* filesystem_write_decision: the rule's word unless it is auto; then what else
\* an unsigned write has to satisfy.  r.size holds the size that it gives, if any.
WriteDecision(policy, tree, r) ==
    LET path == Normalize(tree, r.target)
        base == RuleOf(policy.rules, path, "write") IN
    IF base # "auto" THEN base
    ELSE IF /\ policy.mode = "policy"
            /\ ~r.approval_path
            /\ ~Sensitive(path)
            /\ \E n \in r.size : n <= policy.max_bytes
            /\ r.expected # None
         THEN "auto" ELSE "approval"

\* evaluate
FilesystemReads == {"filesystem.read", "filesystem.list", "filesystem.search_files",
                    "filesystem.search_content", "filesystem.info", "git.status", "git.diff"}
Decide(policy, tree, r) ==
    IF r.action \in FilesystemReads
    THEN RuleOf(policy.rules, Normalize(tree, r.target), "read")
    ELSE IF r.action = "filesystem.write" THEN WriteDecision(policy, tree, r)
    ELSE IF r.action \in {"terminal.poll", "terminal.cancel"} THEN "auto"
    ELSE IF r.action \in DOMAIN policy.fixed THEN policy.fixed[r.action]
    ELSE "deny"
=============================================================================
