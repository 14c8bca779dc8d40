---------------------------- MODULE MCRelayService ----------------------------
EXTENDS RelayService
CONSTANTS c1, c2, i1, s1, s2
\* c1 and c2 are a commit and its retry.
MCIdOf == [c \in Call |-> i1]
MCHubs == {{"private"}, {"private", "relay"}}

Ones(n) == [k \in 1..n |-> 1]
MCTexts == {Ones(1), Ones(2), Ones(3)}
MCDigests == {<<0>>, <<1>>}
MCNonces == {<<1>>}
MCBodies == {<< >>, <<1>>, <<2>>, <<0, 2, 1>>}
MCSpellings == {<<1>>, <<0, 1>>, <<1, 0>>, <<1, 1>>}
MCStamps == [seconds : {0, 1}, nanos : {0, 1, 3}]
Cap(n, cs) == [name |-> n, constraints |-> cs]
MCConstraints == {<<1, 2>>, <<2, 1>>}
MCLists ==
    {<< >>} \cup {<<Cap(n, cs)>> : n \in {1, 2}, cs \in MCConstraints \cup {<< >>, <<1>>, <<2, 1, 2>>}}
    \cup {<<Cap(n, cs), Cap(m, <<1>>)>> : n, m \in {1, 2}, cs \in MCConstraints}
    \cup {<<Cap(m, <<1>>), Cap(n, cs)>> : n, m \in {1, 2}, cs \in MCConstraints}
=============================================================================
