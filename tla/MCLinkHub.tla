----------------------------- MODULE MCLinkHub -----------------------------
(* Small instances of LinkHub for TLC. *)
EXTENDS LinkHub

CONSTANTS i1, i2

\* A commit and its retry.
OneId == [c \in Call |-> i1]

\* Two requests.
OwnIds == [c \in Call |-> IF c = 1 THEN i1 ELSE i2]
=============================================================================
