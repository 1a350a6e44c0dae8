-------------------------------- MODULE Grants --------------------------------
(***************************************************************************)
(* The table of grants (appdb.c): runs of the program grant add lines to   *)
(* clients.db, each by reading the whole table, writing clients.db+ and    *)
(* renaming it, and handlers of invoked look in it meanwhile.  Nothing     *)
(* locks the table.  A grant is for a program file as it is when granted:  *)
(* the line holds its size and hash.  No result of writing is looked at:   *)
(* on a full disk the table is replaced by what went into clients.db+.     *)
(*                                                                         *)
(* The table is shorter than a stream buffer, so that it is read by one    *)
(* read(2) and written by one write(2), in STREAMClose.                    *)
(***************************************************************************)
EXTENDS Naturals, Sequences, Functions

CONSTANTS
    Commands,     \* what can be granted
    Programs,     \* paths of programs
    Versions,     \* contents a program file may have
    First,        \* the one that is installed at the start
    Size,         \* [Versions -> Nat]
    Upgradable,   \* programs that may be replaced by another version, once
    Adders,       \* runs of grant
    Adds,         \* [Adders -> [list : Seq(Commands), program : Programs]], their command lines
    Killable,     \* those that may be killed
    Unlucky,      \* those that may find the disk full
    Checkers,     \* checks a handler makes
    Asks,         \* [Checkers -> [command : Commands, program : Programs]]
    Absent        \* no file

ASSUME GrantsAssumption ==
    /\ First \in Versions
    /\ Size \in [Versions -> Nat]
    /\ Adds \in [Adders -> [list : Seq(Commands), program : Programs]]
    /\ Asks \in [Checkers -> [command : Commands, program : Programs]]
    /\ Absent \notin Adders \cup Versions

\* A line that was cut before or within its hash has Absent for it.
\* The users and groups AppDBAdd writes after the hash are read back and compared
\* with nothing: a grant made for some users is one for all, and they are left out.
Line == [list : {Adds[a].list : a \in Adders}, program : Programs, size : Nat, hash : Versions \cup {Absent}]

VARIABLES
    version,      \* [Programs -> Versions], the program files
    db, temp,     \* the inodes of clients.db and clients.db+; the adder that created one names it
    data,         \* [Adders -> Seq(Line)], what the inodes hold
    apc, items,   \* an adder's next step and its list Items
    size, fd,     \* the size it was told by stat, and the inode it writes
    cpc, seen,    \* a check's next step, and the version of its program at the start
    ino, rows,    \* the table it has opened, and the lines still to look at
    verdict,      \* what the last line gave, with the version that was hashed
    overlapped,   \* history: two adders ran at the same time
    lost,         \* history: the adders whose lines a full disk may have taken
    owed          \* history: those that had granted what is asked, by a list of their own, when the check began

adderVars   == <<apc, items, size, fd>>
checkerVars == <<cpc, seen, ino, rows, verdict, owed>>
vars        == <<version, db, temp, data, adderVars, checkerVars, overlapped, lost>>

Init ==
    /\ version = [p \in Programs |-> First]
    /\ db = Absent /\ temp = Absent
    /\ data = [a \in Adders |-> <<>>]
    /\ apc = [a \in Adders |-> "stat"]
    /\ items = [a \in Adders |-> <<>>]
    /\ size = [a \in Adders |-> 0]
    /\ fd = [a \in Adders |-> Absent]
    /\ cpc = [c \in Checkers |-> "stat"]
    /\ seen = [c \in Checkers |-> First]
    /\ ino = [c \in Checkers |-> Absent]
    /\ rows = [c \in Checkers |-> <<>>]
    /\ verdict = [c \in Checkers |-> [granted |-> FALSE, hash |-> First]]
    /\ overlapped = FALSE
    /\ lost = {}
    /\ owed = [c \in Checkers |-> {}]

Running(a) == apc[a] \in {"read", "hash", "open", "write", "rename"}
Step(a, from, to) == apc[a] = from /\ apc' = [apc EXCEPT ![a] = to]

-------------------------------------------------------------------------------
(* AppDBAdd. *)

AddStat(a) ==
    /\ Step(a, "stat", "read")
    /\ size' = [size EXCEPT ![a] = Size[version[Adds[a].program]]]
    /\ overlapped' = (overlapped \/ \E b \in Adders : Running(b))
    /\ UNCHANGED <<version, db, temp, data, items, fd, checkerVars, lost>>

\* SetVar files each line under its first token, grant='...': of lines with the
\* same list the last one stays, in the place of the first.  One sequence is so.
Loaded(lines) ==
    LET Last(i) == \A j \in DOMAIN lines : lines[j].list = lines[i].list => j <= i
        Sooner(m, n) == \E i \in DOMAIN lines :
            /\ lines[i].list = m.list
            /\ \A j \in DOMAIN lines : lines[j].list = n.list => i < j
    IN  {kept \in UNION {[1 .. n -> Range(lines)] : n \in 0 .. Len(lines)} :
            /\ \A k \in DOMAIN kept : \E i \in DOMAIN lines : Last(i) /\ kept[k] = lines[i]
            /\ \A i \in DOMAIN lines : \E k \in DOMAIN kept : kept[k].list = lines[i].list
            /\ \A k \in DOMAIN kept : \A m \in 1 .. k - 1 : Sooner(kept[m], kept[k])}

\* Mutated form: what is in the table already is not read.
AddRead_Nothing(a) ==
    /\ Step(a, "read", "hash")
    /\ items' = [items EXCEPT ![a] = <<>>]
    /\ UNCHANGED <<version, db, temp, data, size, fd, checkerVars, overlapped, lost>>

AddRead(a) ==
    /\ Step(a, "read", "hash")
    /\ \E kept \in Loaded(IF db = Absent THEN <<>> ELSE data[db]) : items' = [items EXCEPT ![a] = kept]
    /\ UNCHANGED <<version, db, temp, data, size, fd, checkerVars, overlapped, lost>>

\* Mutated form: the line is written without the hash.
AddHash_NoHash(a) ==
    /\ Step(a, "hash", "open")
    /\ items' = [items EXCEPT ![a] = Append(@, [list |-> Adds[a].list, program |-> Adds[a].program,
                                               size |-> size[a], hash |-> Absent])]
    /\ UNCHANGED <<version, db, temp, data, size, fd, checkerVars, overlapped, lost>>

\* The new line is filed under the program's path, which no line is.
AddHash(a) ==
    /\ Step(a, "hash", "open")
    /\ LET p == Adds[a].program
       IN  items' = [items EXCEPT ![a] = Append(@, [list |-> Adds[a].list, program |-> p,
                                                    size |-> size[a], hash |-> version[p]])]
    /\ UNCHANGED <<version, db, temp, data, size, fd, checkerVars, overlapped, lost>>

\* Mutated form: the table itself is opened for writing.
AddOpen_InPlace(a) ==
    /\ Step(a, "open", "write")
    /\ LET i == IF db = Absent THEN a ELSE db
       IN  /\ db' = i
           /\ fd' = [fd EXCEPT ![a] = i]
           /\ data' = [data EXCEPT ![i] = <<>>]
    /\ UNCHANGED <<version, temp, items, size, checkerVars, overlapped, lost>>

\* STREAMOpen(clients.db+, "w") creates the file or truncates the one that is there.
AddOpen(a) ==
    /\ Step(a, "open", "write")
    /\ LET i == IF temp = Absent THEN a ELSE temp
       IN  /\ temp' = i
           /\ fd' = [fd EXCEPT ![a] = i]
           /\ data' = [data EXCEPT ![i] = <<>>]
    /\ UNCHANGED <<version, db, items, size, checkerVars, overlapped, lost>>

\* The lines go over whatever another adder has put into the file since; what
\* they leave of it stays behind them.
AddWrite(a) ==
    /\ Step(a, "write", "rename")
    /\ data' = [data EXCEPT ![fd[a]] = items[a] \o SubSeq(@, Len(items[a]) + 1, Len(@))]
    /\ UNCHANGED <<version, db, temp, items, size, fd, checkerVars, overlapped, lost>>

\* The disk is full: there is room for the first n lines, and perhaps a part of
\* the next, but not less than the file holds already.
AddWriteShort(a) ==
    /\ a \in Unlucky
    /\ Step(a, "write", "rename")
    /\ \E n \in Len(data[fd[a]]) .. Len(items[a]) - 1 :
         \E cut \in {<<>>, <<[items[a][n + 1] EXCEPT !.hash = Absent]>>} :
             data' = [data EXCEPT ![fd[a]] = SubSeq(items[a], 1, n) \o cut]
    /\ lost' = lost \cup {b \in Adders : apc[b] = "done"} \cup {a}
    /\ UNCHANGED <<version, db, temp, items, size, fd, checkerVars, overlapped>>

\* No inode is left for clients.db+; it is renamed all the same.
AddOpenFails(a) ==
    /\ a \in Unlucky
    /\ temp = Absent
    /\ Step(a, "open", "rename")
    /\ lost' = lost \cup {a}
    /\ UNCHANGED <<version, db, temp, data, items, size, fd, checkerVars, overlapped>>

\* rename fails if another adder has taken clients.db+ away.
AddRename(a) ==
    /\ Step(a, "rename", "done")
    /\ IF temp = Absent THEN UNCHANGED <<db, temp>> ELSE db' = temp /\ temp' = Absent
    /\ UNCHANGED <<version, data, items, size, fd, checkerVars, overlapped, lost>>

Killed(a) ==
    /\ a \in Killable
    /\ Running(a)
    /\ apc' = [apc EXCEPT ![a] = "killed"]
    /\ UNCHANGED <<version, db, temp, data, items, size, fd, checkerVars, overlapped, lost>>

-------------------------------------------------------------------------------
(* AppDBCheck, in a handler. *)

Rivals(a) == {b \in Adders : Adds[b].list = Adds[a].list}
Entry(a) == items[a][Len(items[a])]

\* The line grants the command to the program if its file is version v, and was
\* of the size of version w before.
Matches(line, ask, v, w) ==
    /\ ask.command \in Range(line.list)
    /\ line.program = ask.program
    /\ line.size = Size[w]
    /\ line.hash = v

CheckStat(c) ==
    /\ cpc[c] = "stat"
    /\ cpc' = [cpc EXCEPT ![c] = "open"]
    /\ LET v == version[Asks[c].program]
       IN  /\ seen' = [seen EXCEPT ![c] = v]
           /\ owed' = [owed EXCEPT ![c] = {a \in Adders : /\ apc[a] = "done" /\ Rivals(a) = {a}
                                                       /\ Matches(Entry(a), Asks[c], v, v)}]
    /\ UNCHANGED <<version, db, temp, data, adderVars, ino, rows, verdict, overlapped, lost>>

CheckOpen(c) ==
    /\ cpc[c] = "open"
    /\ cpc' = [cpc EXCEPT ![c] = "read"]
    /\ ino' = [ino EXCEPT ![c] = db]
    /\ UNCHANGED <<version, db, temp, data, adderVars, seen, rows, verdict, owed, overlapped, lost>>

CheckRead(c) ==
    /\ cpc[c] = "read"
    /\ cpc' = [cpc EXCEPT ![c] = "lines"]
    /\ rows' = [rows EXCEPT ![c] = IF ino[c] = Absent THEN <<>> ELSE data[ino[c]]]
    /\ UNCHANGED <<version, db, temp, data, adderVars, seen, ino, verdict, owed, overlapped, lost>>

\* Mutated form: the program's hash is not compared.
CheckLine_SizeOnly(c) ==
    /\ cpc[c] = "lines"
    /\ rows[c] # <<>>
    /\ LET v == version[Asks[c].program]
           granted == Matches(Head(rows[c]), Asks[c], Head(rows[c]).hash, seen[c])
       IN  /\ cpc' = [cpc EXCEPT ![c] = IF granted THEN "done" ELSE "lines"]
           /\ verdict' = [verdict EXCEPT ![c] = [granted |-> granted, hash |-> v]]
    /\ rows' = [rows EXCEPT ![c] = Tail(@)]
    /\ UNCHANGED <<version, db, temp, data, adderVars, seen, ino, owed, overlapped, lost>>

\* AppDBCheckEntry of the next line, which hashes the program anew.
CheckLine(c) ==
    /\ cpc[c] = "lines"
    /\ rows[c] # <<>>
    /\ LET v == version[Asks[c].program]
           granted == Matches(Head(rows[c]), Asks[c], v, seen[c])
       IN  /\ cpc' = [cpc EXCEPT ![c] = IF granted THEN "done" ELSE "lines"]
           /\ verdict' = [verdict EXCEPT ![c] = [granted |-> granted, hash |-> v]]
    /\ rows' = [rows EXCEPT ![c] = Tail(@)]
    /\ UNCHANGED <<version, db, temp, data, adderVars, seen, ino, owed, overlapped, lost>>

\* A line that ends before its hash, and is the one looked for up to there, has
\* strcmp called with NULL.
CheckCrashes(c) ==
    /\ cpc[c] = "lines"
    /\ rows[c] # <<>>
    /\ Matches(Head(rows[c]), Asks[c], Absent, seen[c])
    /\ cpc' = [cpc EXCEPT ![c] = "crashed"]
    /\ UNCHANGED <<version, db, temp, data, adderVars, seen, ino, rows, verdict, owed, overlapped, lost>>

CheckEnd(c) ==
    /\ cpc[c] = "lines"
    /\ rows[c] = <<>>
    /\ cpc' = [cpc EXCEPT ![c] = "done"]
    /\ UNCHANGED <<version, db, temp, data, adderVars, seen, ino, rows, verdict, owed, overlapped, lost>>

Upgrade(p) ==
    /\ p \in Upgradable
    /\ version[p] = First
    /\ \E v \in Versions \ {First} : version' = [version EXCEPT ![p] = v]
    /\ UNCHANGED <<db, temp, data, adderVars, checkerVars, overlapped, lost>>

Adder(a) == AddStat(a) \/ AddRead(a) \/ AddHash(a) \/ AddOpen(a) \/ AddRename(a)
            \/ AddWrite(a) \/ AddWriteShort(a) \/ AddOpenFails(a)
Checker(c) == CheckStat(c) \/ CheckOpen(c) \/ CheckRead(c) \/ CheckLine(c) \/ CheckCrashes(c) \/ CheckEnd(c)

Next ==
    \/ \E a \in Adders : Adder(a) \/ Killed(a)
    \/ \E c \in Checkers : Checker(c)
    \/ \E p \in Programs : Upgrade(p)

Spec == Init /\ [][Next]_vars

-------------------------------------------------------------------------------

\* One type invariant for the module; an adder's own line has its hash.
TypeOK ==
    /\ version \in [Programs -> Versions]
    /\ db \in Adders \cup {Absent}
    /\ temp \in Adders \cup {Absent}
    /\ data \in [Adders -> Seq(Line)]
    /\ apc \in [Adders -> {"stat", "read", "hash", "open", "write", "rename", "done", "killed"}]
    /\ items \in [Adders -> Seq(Line)]
    /\ \A a \in Adders : apc[a] \in {"open", "write", "rename", "done"} => Entry(a).hash \in Versions
    /\ size \in [Adders -> Nat]
    /\ fd \in [Adders -> Adders \cup {Absent}]
    /\ cpc \in [Checkers -> {"stat", "open", "read", "lines", "done", "crashed"}]
    /\ seen \in [Checkers -> Versions]
    /\ ino \in [Checkers -> Adders \cup {Absent}]
    /\ rows \in [Checkers -> Seq(Line)]
    /\ verdict \in [Checkers -> [granted : BOOLEAN, hash : Versions]]
    /\ overlapped \in BOOLEAN
    /\ lost \subseteq Adders
    /\ owed \in [Checkers -> SUBSET Adders]

\* However adders overlap, die and overwrite each other, a check succeeds only
\* for a command that someone granted to the very program file that asks.
OnlyGranted ==
    \A c \in Checkers : verdict[c].granted =>
        \E a \in Adders : \E line \in Range(items[a]) :
            /\ line.list = Adds[a].list /\ Asks[c].command \in Range(line.list)
            /\ line.program = Adds[a].program /\ line.program = Asks[c].program
            /\ line.hash = verdict[c].hash

\* As long as adders run one at a time, whatever becomes of them, a grant once
\* made stays in the table, unless the same list is granted to another program
\* (see Loaded); then one of them stays.  A full disk takes no more than what was
\* granted before it.
GrantsLast ==
    ~ overlapped => \A a \in Adders : apc[a] = "done" /\ Rivals(a) \cap lost = {} =>
        /\ db # Absent
        /\ \E b \in Rivals(a) : apc[b] = "done" /\ Entry(b) \in Range(data[db])

\* A check made while the table is being replaced, or after an adder was killed,
\* still finds what had been granted before it began, full disks apart.
ChecksFindGrants ==
    ~ overlapped => \A c \in Checkers :
        /\ cpc[c] = "done"
        /\ owed[c] \ lost # {}
        /\ version[Asks[c].program] = seen[c]
        => verdict[c].granted
===============================================================================
