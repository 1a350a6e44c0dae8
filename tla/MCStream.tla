------------------------------- MODULE MCStream -------------------------------
(***************************************************************************)
(* Instances of Stream for TLC: buffers of two and three bytes, and what   *)
(* does and does not fit them.                                             *)
(***************************************************************************)
EXTENDS Stream

W(op, from, upto) == [op |-> op, from |-> from, upto |-> upto]
R(op, n) == [op |-> op, n |-> n]

MCPrograms == {<<W("line", 1, 5)>>, <<W("line", 1, 2), W("send", 3, 5), W("line", 6, 6)>>,
               <<W("relay", 1, 3), W("line", 4, 6)>>, <<W("line", 1, 1), W("line", 2, 4), W("send", 5, 5)>>}
MCReaders == {<<R("line", 0)>>, <<R("bytes", 2)>>, <<R("line", 0), R("copy", 3), R("line", 0)>>, <<R("line", 0), R("copy", 0)>>}

\* From the handler to the client, from the client to the handler, from the handler
\* to a command, and into a file.
Connection(flush, slow, rtimed, quits) == [flush : {flush}, slow : slow, rtimed : rtimed, quits : quits]
MCModes ==
    Connection("always", BOOLEAN, {FALSE}, BOOLEAN) \cup Connection("line", {FALSE}, BOOLEAN, BOOLEAN)
        \cup Connection("line", {TRUE}, {FALSE}, {TRUE}) \cup Connection("full", {FALSE}, {FALSE}, {FALSE})
===============================================================================
