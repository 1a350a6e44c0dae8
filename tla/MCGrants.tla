-------------------------------- MODULE MCGrants --------------------------------
(***************************************************************************)
(* An instance of Grants for TLC: two grants of one command to a program,  *)
(* in different lists, and one of the same list to another program.        *)
(***************************************************************************)
EXTENDS Grants, TLC

CONSTANTS edit, mount, vim, nano, v1, v2, v3, add1, add2, add3, ask1

\* v1 and v2 have the same length, v3 is longer.
MCSize == [v \in Versions |-> IF v = v3 THEN 2 ELSE 1]

Add(cs, p) == [list |-> cs, program |-> p]
MCAdds == add1 :> Add(<<edit>>, vim) @@ add2 :> Add(<<edit, mount>>, vim) @@ add3 :> Add(<<edit>>, nano)

MCAsks == [c \in Checkers |-> [command |-> edit, program |-> vim]]
===============================================================================
