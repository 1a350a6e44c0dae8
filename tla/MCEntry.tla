-------------------------------- MODULE MCEntry --------------------------------
(***************************************************************************)
(* Instances of Entry for TLC: two lock files l1 and l2, a flag file, and  *)
(* the users root, www and one that no machine knows.                      *)
(***************************************************************************)
EXTENDS Entry

CONSTANTS h1, h2, l1, l2, flag, root, www, mail, ghost, nobody

Lock(p) == [op |-> "lock", path |-> p]
Req(o, p) == [op |-> o, path |-> p]
Max(n) == [op |-> "arglen", len |-> n]
Ch(o, name) == [op |-> o, to |-> name]

Nothing == [p \in Paths |-> "as it is"]
Plain == [op |-> "run", len |-> 2, locks |-> <<>>, user |-> nobody, group |-> nobody,
          expect |-> FALSE, timed |-> FALSE, makes |-> Nothing]
Locking(ls) == [Plain EXCEPT !.locks = ls]
As(u, g) == [Plain EXCEPT !.user = u, !.group = g]
Making(k) == [Plain EXCEPT !.makes[flag] = k]
Expecting(timed, item) == [item EXCEPT !.expect = TRUE, !.timed = timed]

\* The flag file is used under a lock.
FlagMaker == <<Lock(l1), Req("absent", flag), Making("file")>>
FlagUser == <<Lock(l1), Req("absent", flag), Expecting(TRUE, Making("dir")), Req("directory", flag), Making("none")>>

\* Its second command may make it while the first still waits for its lock file.
FlagLater == <<Lock(l2), Req("absent", flag), Expecting(TRUE, Locking(<<l1>>)), Making("file")>>

\* Commands with lock files of their own; the second is run while the first may still be waiting.
LockingRuns == <<Expecting(TRUE, Locking(<<l1>>)), Locking(<<l1>>)>>
TwoLocks == <<Lock(l1), Locking(<<l2>>), Max(1), Plain>>
Backwards == <<Lock(l2), Expecting(FALSE, Locking(<<l1>>))>>
SelfLocking == <<Lock(l1), Expecting(TRUE, Locking(<<l1>>))>>

\* Users and groups that are known, unknown, root, and refused.
Demoted == <<Ch("chgrp", mail), Ch("chuser", www), Lock(l1), As(www, nobody), As(mail, nobody)>>
Regrouped == <<Ch("chgrp", mail), As(nobody, root)>>
Ghosts == <<Ch("chuser", ghost), As(nobody, mail), Ch("chuser", www), Plain, Ch("chuser", mail), Plain>>

First == {FlagMaker, LockingRuns, TwoLocks, SelfLocking}
Second == {FlagUser, FlagLater, LockingRuns, Backwards, Demoted, Regrouped, Ghosts, <<Lock(l1), Req("exists", flag), Ch("chgrp", mail), Plain>>}
MCSetups == {[h \in Sessions |-> IF h = h1 THEN a ELSE b] : a \in First, b \in Second}
===============================================================================
