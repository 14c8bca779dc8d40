---------------------------- MODULE MCFileService ----------------------------
(* A disk with a project (w), a folder beside it (x), and what may be added. *)
EXTENDS FileService, Sequences

Dir(d, n, s) == [dir |-> d, name |-> n, short |-> s, kind |-> "dir",
                 to |-> << >>, links |-> 1, size |-> 0]
File(d, n, s, k) == [dir |-> d, name |-> n, short |-> s, kind |-> "file",
                     to |-> << >>, links |-> k, size |-> 5]
Link(d, n, p) == [dir |-> d, name |-> n, short |-> Nothing, kind |-> "link",
                  to |-> p, links |-> 1, size |-> 0]

MCShortNames == {"secr~1", "git~1"}
MCAmbiguous == {".."}
MCSensitiveParts == {".git"}
MCSensitivePairs == {<<"etc", "cron.d">>}
MCSensitiveFiles == {"run.ps1", "b.sh"}
MCAllowedRoots == {<<"w">>}

MCStartTree ==
    {Dir(<< >>, "w", Nothing), Dir(<<"w">>, "a", Nothing), File(<<"w", "a">>, "f", Nothing, 1),
     Dir(<<"w">>, ".git", "git~1"), File(<<"w", ".git">>, "f", Nothing, 1),
     File(<<"w">>, "h", Nothing, 2), Link(<<"w">>, "l", <<"x">>),
     Dir(<< >>, "x", Nothing), File(<<"x">>, "f", Nothing, 1), File(<<"w">>, "run.ps1", Nothing, 1),
     Dir(<<"w">>, "b.sh", Nothing), File(<<"w", "b.sh">>, "f", Nothing, 1)}
MCCreations ==
    {Dir(<<"w">>, "secret", "secr~1"), File(<<"w", "secret">>, "f", Nothing, 1),
     Dir(<<"w">>, "etc", Nothing), Dir(<<"w", "etc">>, "cron.d", Nothing),
     Link(<<"w", "a">>, "l", <<"x">>), File(<<"w", "a">>, "g", "secr~1", 2)}

Rule(p, r, w) == [path |-> p, read |-> r, write |-> w]
Fixed == [process_list |-> "auto"]
MCPolicies ==
    {[rules |-> <<Rule(<<"w">>, "auto", "auto"), Rule(<<"w", "secret">>, "deny", "approval")>>,
      mode |-> m, max_bytes |-> 1, fixed |-> Fixed] : m \in {"policy", "strict"}}
    \cup {[rules |-> <<Rule(<<"w", "a">>, "approval", "approval"), Rule(<<"w", "a">>, "auto", "auto"),
                       Rule(<< >>, "auto", "elevated_approval")>>,
           mode |-> "policy", max_bytes |-> 1, fixed |-> Fixed]}

Ask(action, path) ==
    [action |-> action, target |-> path, depth |-> 2, max |-> 9, max_file |-> 5,
     part |-> "whole", length |-> 0, approval_path |-> FALSE, attempt |-> TRUE,
     edit |-> FALSE, size |-> {1}, expected |-> "digest"]
Paths == {<<"w", "a", "f">>, <<"w", "secr~1", "f">>, <<"w", "secret", "f">>, <<"w", "l", "f">>,
          <<"w", "git~1", "f">>, <<"w", "h">>, <<"x", "f">>, <<"w", "..", "x", "f">>,
          <<"w", "etc", "cron.d">>, <<"w", "run.ps1">>}
MCAsks ==
    {Ask("filesystem.read", p) : p \in Paths}
    \cup {[Ask("filesystem.write", p) EXCEPT !.expected = x] : p \in Paths, x \in {"absent", "digest"}}
    \cup {[Ask("filesystem.write", <<"w", "a", "f">>) EXCEPT !.approval_path = TRUE],
          [Ask("filesystem.write", <<"w", "a", "f">>) EXCEPT !.attempt = FALSE],
          [Ask("filesystem.write", <<"w", "a", "f">>) EXCEPT !.expected = Nothing],
          [Ask("filesystem.write", <<"w", "a", "f">>) EXCEPT !.size = {2}]}
    \cup {[Ask("filesystem.write", p) EXCEPT !.edit = TRUE, !.size = {}, !.expected = Nothing,
                                             !.attempt = k] : p \in Paths, k \in BOOLEAN}
    \cup {[Ask("filesystem.read", <<"w", "a", "f">>) EXCEPT !.part = k, !.length = n] :
             k \in {"range", "lines"}, n \in {3, 6, 7}}
    \cup {[Ask("filesystem.list", p) EXCEPT !.depth = d, !.max = m] :
             p \in {<<"w">>, <<"w", "a">>, <<"w", "a", "f">>, <<"x">>}, d \in {1, 2}, m \in {2, 9}}
    \cup {Ask(k, <<"w">>) : k \in {"filesystem.search_files", "filesystem.search_content",
                                   "filesystem.info", "process_list"}}

(* Writes that compete for one file, one of them a prepared edit.          *)
MCContents == {"old", "new", "newer", "edited", "theirs"}
MCForeign == {"theirs", "old"}
Change(x, c) == [expected |-> x, content |-> c]
MCRequests == [over |-> Change("old", "new"), make |-> Change("absent", "newer"),
             edit |-> Change("old", "edited"), back |-> Change("new", "old")]
MCEditOf == [c \in {"old"} |-> "edited"]

(* Short texts in every encoding, and longer ones for the diff.             *)
E == INSTANCE TextEdit WITH Files <- {}, Edits <- {}
Texts(n) == UNION {[1..k -> {"a", E!CR, E!LF}] : k \in 0..n}
Long(n, others) == [k \in 1..n |-> IF k % 2 = 0 THEN E!LF ELSE IF k \in others THEN "b" ELSE "a"]
MCTextFiles ==
    {E!Encode(t, e) : t \in Texts(3) \cup {<<E!EAcute, E!LF, "a", E!LF>>},
                      e \in {"utf-8", "utf-8-bom", "utf-16le", "utf-16be"}}
    \cup {<<"c3", "e9", "a9">>} \cup {<<"e9">> \o t : t \in Texts(2)} \cup {<<"c3", "a", E!CR, E!LF, "e9", E!LF>>}
    \cup {Long(n, m) : n \in {7, 9, 12, 20}, m \in {{1}, {3}, {1, 11}, {5, 9}}}
Ask1(o, n, k) == [old |-> o, new |-> n, expected |-> k]
MCTextEdits ==
    {<<Ask1(o, n, k)>> :
        o \in {<<"a">>, <<E!LF>>, <<E!CR>>, <<"a", E!LF>>, <<E!CR, E!LF, "a">>, <<"a", "a">>, <<"b">>},
        n \in {<< >>, <<"b", E!LF>>, <<E!CR>>, <<E!EAcute, E!CR, E!LF>>, <<E!Cjk, "a">>,
               <<"a", E!LF, "a", E!LF>>},
        k \in 1..2}
    \cup {<<Ask1(<<E!EAcute>>, << >>, 1)>>}
    \cup {<<Ask1(<<"a">>, <<"b", E!LF>>, k), Ask1(o, <<"a">>, 2)>> :
              k \in 1..2, o \in {<<"b">>, <<E!LF>>, <<E!LF, "b">>}}
=============================================================================
