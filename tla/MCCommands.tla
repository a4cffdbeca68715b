------------------------------ MODULE MCCommands ------------------------------
(***************************************************************************)
(* One command id: two submissions of a register, which share a flight,    *)
(* and two of a command whose stored result is sealed, which meet the      *)
(* others and each other only in the database, as submissions to different *)
(* instances do.                                                           *)
(***************************************************************************)
EXTENDS Commands, TLC

CONSTANTS s1, s2, s3, s4, p1, k1, h1, h2

Sent == {s1, s2, s3, s4}
Places == [s \in Sent |-> p1]
Ids == [s \in Sent |-> k1]
Inputs == [s \in Sent |-> IF s \in {s1, s2} THEN h1 ELSE h2]
Alike == {p \in Permutations(Sent) : {p[s1], p[s2]} = {s1, s2}}
=============================================================================
