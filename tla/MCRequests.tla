------------------------------- MODULE MCRequests -------------------------------
(***************************************************************************)
(* An instance of Requests for TLC: entries with every kind of rule, one   *)
(* named after a program with entries of commands before and after it, one *)
(* without rules, and a command nobody configured.                         *)
(***************************************************************************)
EXTENDS Requests

CONSTANTS edit, mount, umount, halt, ping, vi, nano, login, other

Entry(n, rs) == [name |-> n, rules |-> rs]
List(b) == [tag |-> "list", holds |-> b]
AuthBy(t) == [tag |-> "auth", types |-> t]

MCConfig ==
    << Entry(edit,   <<List(TRUE), AuthBy(login), AuthBy(other)>>),
       Entry(mount,  <<AuthBy(other), List(FALSE)>>),
       Entry(umount, <<AuthBy(login), List(FALSE)>>),
       Entry(vi,     <<List(TRUE)>>),
       Entry(ping,   <<>>),
       Entry(halt,   <<List(FALSE)>>),
       Entry(edit,   <<List(FALSE)>>) >>
===============================================================================
