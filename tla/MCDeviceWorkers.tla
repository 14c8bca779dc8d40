---------------------------- MODULE MCDeviceWorkers ----------------------------
EXTENDS DeviceWorkers, Sequences
MCServices == {{"terminal"}, {"process"}, {"browser"}, {"commands"}, {"line"}}
MCImages == {"tool", "agent"}
MCProtected == {"agent"}

File(n, s) == [name |-> n, shell |-> s, copy |-> FALSE]
Git == File("git", FALSE)  Script == File("git", TRUE)  Bash == File("bash", TRUE)
MCPrograms == {Git, [Git EXCEPT !.copy = TRUE], Script, Bash, File("python", FALSE)}
MCConfigured == <<"/git", "/git.cmd", "/bash", "/python">>
MCStartDisk == [p \in {"/git", "/git.cmd", "/bash", "/python", "/link"} |->
    CASE p = "/git.cmd" -> Script [] p = "/bash" -> Bash [] p = "/python" -> File("python", FALSE) [] OTHER -> Git]
MCRules == {[name |-> "git", args |-> <<"status">>], [name |-> "bash", args |-> <<"-v">>],
            [name |-> "git", args |-> <<"-c", "status">>], [name |-> "python", args |-> <<"-v">>]}
Cmd(p, n, a) == [path |-> p, name |-> n, args |-> a]
Args == {<< >>, <<"status">>, <<"-c", "status">>, <<"-v">>, <<"-v", "-cx">>, <<"--", "-c">>,
         <<"a;b">>, <<"/d", "/cx">>, <<"-ep", "t", "-file">>, <<"-enc">>, <<"t">>}
MCCommands ==
    {Cmd(p, "git", a) : p \in {None, "/git", "/link"}, a \in Args}
    \cup {Cmd(p, "bash", a) : p \in {None, "/bash"}, a \in Args}
    \cup {Cmd(p, "python", a) : p \in {None, "/link", "/python"}, a \in Args}
    \cup {Cmd(None, n, a) : n \in {"cmd", "powershell", "pwsh", "wsl"}, a \in Args}
MCNames == {<<"a">>, <<"\\", "a">>, <<"a", " ", "a">>}
Words(n) == UNION {[1..k -> {"a", " ", "\\", "\""}] : k \in 0..n}
MCArgvs == {<< >>, <<<< >>>>}
    \cup {<<n>> \o rest : n \in MCNames, rest \in UNION {[1..k -> Words(3)] : k \in 0..2} \cup [1..3 -> Words(1)]}
=============================================================================
