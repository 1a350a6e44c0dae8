--------------------------------- MODULE Entry ---------------------------------
(***************************************************************************)
(* The items of an entry that act on the machine: requirements, lock       *)
(* files, changes of user and group, and commands (RunInvokeCommand and    *)
(* CheckRequirement of server.c; CreateLockFile, SwitchUser, SwitchGroup   *)
(* and ProcessApplyConfig of libUseful-4/Process.c).  Several handlers     *)
(* carry out their entries at the same time, each forking commands that    *)
(* may outlive the item, and the handler too.                              *)
(*                                                                         *)
(* flock(2) locks belong to an open file, which a command inherits from    *)
(* the handler that forks it: nothing here is closed on exec.  A lock is   *)
(* free when no process has the file it was taken on open any more.        *)
(***************************************************************************)
EXTENDS Naturals, Sequences, FiniteSets

CONSTANTS
    Sessions,   \* the handlers
    Paths,      \* flag files and lock files
    Names,      \* what users and groups are called
    Known,      \* those of them that the system knows; root is one
    Root,       \* the user and the group a handler starts as
    Nobody,     \* no user= or group= in a run item
    Setups      \* [Sessions -> Seq(item)], the entries that may run together

Check   == [op : {"absent", "exists", "directory", "lock"}, path : Paths]
ArgLen  == [op : {"arglen"}, len : Nat]
Change  == [op : {"chuser", "chgrp"}, to : Names]
Command == [op : {"run"}, len : Nat, locks : Seq(Paths), user : Names \cup {Nobody},
            group : Names \cup {Nobody}, expect : BOOLEAN, timed : BOOLEAN,
            makes : [Paths -> {"none", "file", "dir", "as it is"}]]

ASSUME EntryAssumption ==
    /\ \A s \in Setups : s \in [Sessions -> Seq(Check \cup ArgLen \cup Change \cup Command)]
    /\ Root \in Known /\ Known \subseteq Names /\ Nobody \notin Names

VARIABLES
    entry,      \* the entries of this behaviour
    kind,       \* [Paths -> "none", "file" or "dir"]
    open,       \* [Paths -> set of processes that have the locked file open]
    pc, at,     \* each handler's next step and item
    uid, gid,   \* its user and group
    maxlen,     \* InvokeMaxArgLen, 0 for no limit
    cmd,        \* the command of each item: its state, locks taken, user and group
    lost        \* history: handlers that went on without a lock they required

handlerVars == <<pc, at, uid, gid, maxlen, lost>>
vars == <<entry, kind, open, handlerVars, cmd>>

\* A handler is process <<h, 0>>, the command of its item i is <<h, i>>.
NoCommand == [st |-> "none", got |-> 0, uid |-> Root, gid |-> Root]
Alive == {"setup", "running", "daemon"}

Init ==
    /\ entry \in Setups
    /\ kind \in [Paths -> {"none", "dir"}]
    /\ open = [p \in Paths |-> {}]
    /\ pc = [h \in Sessions |-> "items"]
    /\ at = [h \in Sessions |-> 1]
    /\ uid = [h \in Sessions |-> Root]
    /\ gid = [h \in Sessions |-> Root]
    /\ maxlen = [h \in Sessions |-> 0]
    /\ cmd = [h \in Sessions |-> [i \in DOMAIN entry[h] |-> NoCommand]]
    /\ lost = {}

Item(h) == entry[h][at[h]]
AtItem(h, op) == pc[h] = "items" /\ at[h] <= Len(entry[h]) /\ Item(h).op = op

NextItem(h) == at' = [at EXCEPT ![h] = @ + 1] /\ pc' = [pc EXCEPT ![h] = "items"]
Goto(h, s) == pc' = [pc EXCEPT ![h] = s] /\ UNCHANGED at

\* An exit closes what the process has open.
Closes(proc) == open' = [p \in Paths |-> open[p] \ {proc}]

\* Lock files are made with mode 0600 in a directory of root's, so that another
\* user cannot open them; nobody can open a directory for writing.
CanOpen(u, p) == u = Root /\ kind[p] # "dir"
Made(p) == kind' = [kind EXCEPT ![p] = "file"]

-------------------------------------------------------------------------------
(* CheckRequirement. *)

Holds(item) ==
    CASE item.op = "absent"    -> kind[item.path] = "none"
      [] item.op = "exists"    -> kind[item.path] # "none"
      [] item.op = "directory" -> kind[item.path] = "dir"

Requirement(h) ==
    /\ AtItem(h, "absent") \/ AtItem(h, "exists") \/ AtItem(h, "directory")
    /\ IF Holds(Item(h)) THEN NextItem(h) ELSE Goto(h, "end")
    /\ UNCHANGED <<entry, kind, open, uid, gid, maxlen, cmd, lost>>

RequireArgLen(h) ==
    /\ AtItem(h, "arglen")
    /\ maxlen' = [maxlen EXCEPT ![h] = Item(h).len]
    /\ NextItem(h)
    /\ UNCHANGED <<entry, kind, open, uid, gid, cmd, lost>>

\* CreateLockFile sets an alarm of one second and opens the file.  That it
\* could not, -1, passes for success.  The alarm is then left set: it may cut short
\* a later read or write, which is a timeout= that is over (DialogOver) or a failed
\* write (RelayBroken), and both may come at any moment as it is.
LockOpens(h) ==
    /\ AtItem(h, "lock")
    /\ IF CanOpen(uid[h], Item(h).path)
         THEN Made(Item(h).path) /\ Goto(h, "flock") /\ UNCHANGED lost
         ELSE NextItem(h) /\ lost' = lost \cup {h} /\ UNCHANGED kind
    /\ UNCHANGED <<entry, open, uid, gid, maxlen, cmd>>

\* The alarm goes off before flock is called: it interrupts nothing, and now
\* nothing limits the wait.
AlarmTooEarly(h) ==
    /\ pc[h] = "flock"
    /\ Goto(h, "unlimited")
    /\ UNCHANGED <<entry, kind, open, uid, gid, maxlen, cmd, lost>>

\* Mutated form: a shared lock.
LockTaken_Shared(h) ==
    /\ pc[h] \in {"flock", "unlimited"}
    /\ open' = [open EXCEPT ![Item(h).path] = @ \cup {<<h, 0>>}]
    /\ NextItem(h)
    /\ UNCHANGED <<entry, kind, uid, gid, maxlen, cmd, lost>>

\* flock(LOCK_EX).
LockTaken(h) ==
    /\ pc[h] \in {"flock", "unlimited"}
    /\ open[Item(h).path] = {}
    /\ open' = [open EXCEPT ![Item(h).path] = {<<h, 0>>}]
    /\ NextItem(h)
    /\ UNCHANGED <<entry, kind, uid, gid, maxlen, cmd, lost>>

\* The alarm interrupts flock, which the requirement does not notice.
LockTimesOut(h) ==
    /\ pc[h] = "flock"
    /\ open[Item(h).path] # {}
    /\ lost' = lost \cup {h}
    /\ NextItem(h)
    /\ UNCHANGED <<entry, kind, open, uid, gid, maxlen, cmd>>

-------------------------------------------------------------------------------
(* SwitchUser and SwitchGroup: a name the system does not know changes nothing, *)
(* and a change the system refuses ends the handler.                            *)

MaySwitch(from, u, to) == u = Root \/ from = to

Exit(h) == Goto(h, "over") /\ Closes(<<h, 0>>)

\* Mutated form: the result of the lookup is not looked at.
ChUser_NoLookup(h) ==
    /\ AtItem(h, "chuser")
    /\ LET u == Item(h).to IN
       \/ MaySwitch(uid[h], uid[h], u) /\ uid' = [uid EXCEPT ![h] = u] /\ NextItem(h) /\ UNCHANGED open
       \/ ~ MaySwitch(uid[h], uid[h], u) /\ Exit(h) /\ UNCHANGED uid
    /\ UNCHANGED <<entry, kind, gid, maxlen, cmd, lost>>

ChUser(h) ==
    /\ AtItem(h, "chuser")
    /\ LET u == Item(h).to IN
       \/ u \notin Known /\ NextItem(h) /\ UNCHANGED <<uid, open>>
       \/ u \in Known /\ MaySwitch(uid[h], uid[h], u)
            /\ uid' = [uid EXCEPT ![h] = u] /\ NextItem(h) /\ UNCHANGED open
       \/ u \in Known /\ ~ MaySwitch(uid[h], uid[h], u) /\ Exit(h) /\ UNCHANGED uid
    /\ UNCHANGED <<entry, kind, gid, maxlen, cmd, lost>>

ChGrp(h) ==
    /\ AtItem(h, "chgrp")
    /\ LET g == Item(h).to IN
       \/ g \notin Known /\ NextItem(h) /\ UNCHANGED <<gid, open>>
       \/ g \in Known /\ MaySwitch(gid[h], uid[h], g)
            /\ gid' = [gid EXCEPT ![h] = g] /\ NextItem(h) /\ UNCHANGED open
       \/ g \in Known /\ ~ MaySwitch(gid[h], uid[h], g) /\ Exit(h) /\ UNCHANGED gid
    /\ UNCHANGED <<entry, kind, uid, maxlen, cmd, lost>>

-------------------------------------------------------------------------------
(* RunCommand. *)

Overlong(h) == maxlen[h] > 0 /\ Item(h).len > maxlen[h]

\* Nothing is run and nobody told.
RunOverlong(h) ==
    /\ AtItem(h, "run") /\ Overlong(h)
    /\ NextItem(h)
    /\ UNCHANGED <<entry, kind, open, uid, gid, maxlen, cmd, lost>>

SpawnFails(h) ==
    /\ AtItem(h, "run") /\ ~ Overlong(h)
    /\ NextItem(h)
    /\ UNCHANGED <<entry, kind, open, uid, gid, maxlen, cmd, lost>>

\* Mutated form: lock files are closed on exec.
Spawn_CloseOnExec(h) ==
    /\ AtItem(h, "run") /\ ~ Overlong(h)
    /\ cmd' = [cmd EXCEPT ![h][at[h]] = [@ EXCEPT !.st = "setup", !.uid = uid[h], !.gid = gid[h]]]
    /\ Goto(h, IF Item(h).expect THEN "dialog" ELSE "relay")
    /\ UNCHANGED <<entry, kind, open, uid, gid, maxlen, lost>>

\* Mutated form: the command is started as whatever user started the daemon.
Spawn_AsRoot(h) ==
    /\ AtItem(h, "run") /\ ~ Overlong(h)
    /\ cmd' = [cmd EXCEPT ![h][at[h]] = [@ EXCEPT !.st = "setup"]]
    /\ open' = [p \in Paths |-> IF <<h, 0>> \in open[p] THEN open[p] \cup {<<h, at[h]>>} ELSE open[p]]
    /\ Goto(h, IF Item(h).expect THEN "dialog" ELSE "relay")
    /\ UNCHANGED <<entry, kind, uid, gid, maxlen, lost>>

\* The command inherits the handler's user, group and open files.
Spawn(h) ==
    /\ AtItem(h, "run") /\ ~ Overlong(h)
    /\ cmd' = [cmd EXCEPT ![h][at[h]] = [@ EXCEPT !.st = "setup", !.uid = uid[h], !.gid = gid[h]]]
    /\ open' = [p \in Paths |-> IF <<h, 0>> \in open[p] THEN open[p] \cup {<<h, at[h]>>} ELSE open[p]]
    /\ Goto(h, IF Item(h).expect THEN "dialog" ELSE "relay")
    /\ UNCHANGED <<entry, kind, uid, gid, maxlen, lost>>

State(h) == cmd[h][at[h]].st
OutputEnds(h) == State(h) \in {"daemon", "gone"}

\* What the command prints decides the dialogue.  After a failure the next item
\* follows, while the command still runs.
DialogDecided(h) ==
    /\ pc[h] = "dialog"
    /\ State(h) = "running"
    /\ Goto(h, "relay") \/ NextItem(h)
    /\ UNCHANGED <<entry, kind, open, uid, gid, maxlen, cmd, lost>>

\* The dialogue is over with the command's output, or timeout= has passed.
DialogOver(h) ==
    /\ pc[h] = "dialog"
    /\ \/ OutputEnds(h) /\ (Goto(h, "relay") \/ NextItem(h))
       \/ Item(h).timed /\ NextItem(h)
    /\ UNCHANGED <<entry, kind, open, uid, gid, maxlen, cmd, lost>>

RelayEnds(h) ==
    /\ pc[h] = "relay"
    /\ OutputEnds(h)
    /\ NextItem(h)
    /\ UNCHANGED <<entry, kind, open, uid, gid, maxlen, cmd, lost>>

\* A write to a client that is gone ends the relay, not the command.
RelayBroken(h) ==
    /\ pc[h] = "relay"
    /\ State(h) = "running"
    /\ NextItem(h)
    /\ UNCHANGED <<entry, kind, open, uid, gid, maxlen, cmd, lost>>

\* The items are done or a requirement failed: STREAMClose and _exit.
End(h) ==
    /\ pc[h] = "end" \/ (pc[h] = "items" /\ at[h] > Len(entry[h]))
    /\ Exit(h)
    /\ UNCHANGED <<entry, kind, uid, gid, maxlen, cmd, lost>>

-------------------------------------------------------------------------------
(* The command: ProcessApplyConfig takes its lock files, then changes group and *)
(* user; it is executed, may close its output and stay, and exits.              *)

Becomes(h, i, st) == cmd' = [cmd EXCEPT ![h][i].st = st]

Wants(h, i) == entry[h][i].locks[cmd[h][i].got + 1]
InSetup(h, i) == cmd[h][i].st = "setup"
HasLocks(h, i) == cmd[h][i].got = Len(entry[h][i].locks)

\* CreateLockFile without an alarm.
CommandLocks(h, i) ==
    /\ InSetup(h, i) /\ ~ HasLocks(h, i)
    /\ CanOpen(cmd[h][i].uid, Wants(h, i))
    /\ open[Wants(h, i)] = {}
    /\ open' = [open EXCEPT ![Wants(h, i)] = {<<h, i>>}]
    /\ Made(Wants(h, i))
    /\ cmd' = [cmd EXCEPT ![h][i].got = @ + 1]
    /\ UNCHANGED <<entry, handlerVars>>

\* Mutated form: it is tried again until it works.
CommandLockFails_Retries(h, i) ==
    /\ InSetup(h, i) /\ ~ HasLocks(h, i)
    /\ ~ CanOpen(cmd[h][i].uid, Wants(h, i))
    /\ UNCHANGED vars

\* A lock file that cannot be opened ends the command.
CommandLockFails(h, i) ==
    /\ InSetup(h, i) /\ ~ HasLocks(h, i)
    /\ ~ CanOpen(cmd[h][i].uid, Wants(h, i))
    /\ Becomes(h, i, "gone") /\ Closes(<<h, i>>)
    /\ UNCHANGED <<entry, kind, handlerVars>>

\* Of user= and group= only a name that gives an id above 0 counts: root's is 0.
Counts(name) == name \in Known \ {Root}
NewUid(h, i) == IF Counts(entry[h][i].user) THEN entry[h][i].user ELSE cmd[h][i].uid
NewGid(h, i) == IF Counts(entry[h][i].group) THEN entry[h][i].group ELSE cmd[h][i].gid
MayRun(h, i) ==
    /\ MaySwitch(cmd[h][i].gid, cmd[h][i].uid, NewGid(h, i))
    /\ MaySwitch(cmd[h][i].uid, cmd[h][i].uid, NewUid(h, i))

CommandRuns(h, i) ==
    /\ InSetup(h, i) /\ HasLocks(h, i)
    /\ MayRun(h, i)
    /\ cmd' = [cmd EXCEPT ![h][i] = [@ EXCEPT !.st = "running", !.uid = NewUid(h, i), !.gid = NewGid(h, i)]]
    /\ UNCHANGED <<entry, kind, open, handlerVars>>

CommandRefused(h, i) ==
    /\ InSetup(h, i) /\ HasLocks(h, i)
    /\ ~ MayRun(h, i)
    /\ Becomes(h, i, "gone") /\ Closes(<<h, i>>)
    /\ UNCHANGED <<entry, kind, handlerVars>>

Runs(h, i) == cmd[h][i].st \in {"running", "daemon"}

\* It makes and removes files.
CommandActs(h, i) ==
    /\ Runs(h, i)
    /\ kind' = [p \in Paths |-> LET k == entry[h][i].makes[p] IN IF k = "as it is" THEN kind[p] ELSE k]
    /\ UNCHANGED <<entry, open, handlerVars, cmd>>

CommandDetaches(h, i) ==
    /\ cmd[h][i].st = "running"
    /\ Becomes(h, i, "daemon")
    /\ UNCHANGED <<entry, kind, open, handlerVars>>

CommandExits(h, i) ==
    /\ Runs(h, i)
    /\ Becomes(h, i, "gone") /\ Closes(<<h, i>>)
    /\ UNCHANGED <<entry, kind, handlerVars>>

-------------------------------------------------------------------------------

HandlerStep(h) ==
    \/ Requirement(h) \/ RequireArgLen(h)
    \/ LockOpens(h) \/ AlarmTooEarly(h) \/ LockTaken(h) \/ LockTimesOut(h)
    \/ ChUser(h) \/ ChGrp(h)
    \/ RunOverlong(h) \/ SpawnFails(h) \/ Spawn(h)
    \/ DialogOver(h) \/ RelayEnds(h) \/ End(h)

SetupStep(h, i) ==
    CommandLocks(h, i) \/ CommandLockFails(h, i) \/ CommandRuns(h, i) \/ CommandRefused(h, i)

Runnable(h) == {i \in DOMAIN entry[h] : entry[h][i].op = "run"}

CommandStep(h) == \E i \in Runnable(h) : SetupStep(h, i) \/ CommandExits(h, i)

Next ==
    \E h \in Sessions :
        \/ HandlerStep(h) \/ DialogDecided(h) \/ RelayBroken(h)
        \/ CommandStep(h)
        \/ \E i \in Runnable(h) : CommandActs(h, i) \/ CommandDetaches(h, i)

Spec == Init /\ [][Next]_vars

\* Handlers are scheduled and so are commands, which come to their end.
FairSpec ==
    Spec /\ \A h \in Sessions : WF_vars(HandlerStep(h)) /\ WF_vars(CommandStep(h))

-------------------------------------------------------------------------------

\* One type invariant for the module.
TypeOK ==
    /\ entry \in Setups
    /\ kind \in [Paths -> {"none", "file", "dir"}]
    /\ open \in [Paths -> SUBSET (Sessions \X Nat)]
    /\ pc \in [Sessions -> {"items", "flock", "unlimited", "dialog", "relay", "end", "over"}]
    /\ at \in [Sessions -> Nat \ {0}]
    /\ uid \in [Sessions -> Known] /\ gid \in [Sessions -> Known]
    /\ maxlen \in [Sessions -> Nat]
    /\ lost \subseteq Sessions
    /\ \A h \in Sessions : \A i \in DOMAIN entry[h] :
         cmd[h][i] \in [st : {"none", "gone"} \cup Alive, got : Nat, uid : Known, gid : Known]

ProcessAlive(proc) ==
    IF proc[2] = 0 THEN pc[proc[1]] # "over" ELSE cmd[proc[1]][proc[2]].st \in Alive

\* A lock file is held by one session at a time, handler and commands together,
\* by live processes only; and a command runs only while it alone holds every
\* LockFile= of its item.
LocksExclude ==
    /\ \A p \in Paths : \A x, y \in open[p] : x[1] = y[1] /\ ProcessAlive(x)
    /\ \A h \in Sessions : \A i \in Runnable(h) : Runs(h, i) =>
         \A k \in DOMAIN entry[h][i].locks : open[entry[h][i].locks[k]] = {<<h, i>>}

\* Where an item's user or group comes from: the last chuser or chgrp before it
\* that names one the system knows.
LastChange(items, i, op) ==
    LET changes == {j \in 1 .. i - 1 : items[j].op = op /\ items[j].to \in Known}
    IN  IF changes = {} THEN Root
        ELSE items[CHOOSE j \in changes : \A k \in changes : k <= j].to

\* A command runs as the user= and group= of its item, when they name a user or
\* group with an id above 0.  A name that is not known, or root's, is passed over:
\* the command then runs as the chuser and chgrp before it say, as one without
\* user= or group= does, whatever refusals, failures and other sessions there are.
\* README.md:99-100 makes no exception for root: user=root after chuser is ignored
\* by ProcessApplyConfig (Process.c:919) all the same.
CredentialsFromItems ==
    \A h \in Sessions : \A i \in Runnable(h) : Runs(h, i) =>
        LET item == entry[h][i] IN
        /\ cmd[h][i].uid = IF item.user \in Known \ {Root} THEN item.user ELSE LastChange(entry[h], i, "chuser")
        /\ cmd[h][i].gid = IF item.group \in Known \ {Root} THEN item.group ELSE LastChange(entry[h], i, "chgrp")

\* Lock l keeps path p: whoever makes or removes p has required l before, and p
\* is no lock file itself.
Respects(items, l, p) ==
    \A i \in DOMAIN items :
        /\ items[i].op = "lock" => items[i].path # p
        /\ items[i].op = "run" =>
             /\ p \notin {items[i].locks[k] : k \in DOMAIN items[i].locks}
             /\ items[i].makes[p] # "as it is" =>
                  \E j \in 1 .. i - 1 : items[j].op = "lock" /\ items[j].path = l

Keeps(l, p) == \A h \in Sessions : Respects(entry[h], l, p)

Starts(h, i) == cmd[h][i].st # "running" /\ cmd'[h][i].st = "running"

\* A command of the session has run, or may have, that makes or removes p.
Changed(h, p) ==
    \E m \in Runnable(h) : cmd[h][m].st \notin {"none", "setup"} /\ entry[h][m].makes[p] # "as it is"

\* What a session required of a path under the lock that keeps it is still so
\* when a command of the session starts, unless a command of the same session has
\* changed it: the check is not stale, even when commands outlive their handlers.
\* Only a session that went on without its lock can spoil that.  (The command
\* that has changed it may be that of a later item, when one still waits for its
\* lock file.)
RequirementsStillHold ==
    [][lost = {} =>
        \A h \in Sessions : \A i \in Runnable(h) : Starts(h, i) =>
            \A k \in 1 .. i - 1 : entry[h][k].op \in {"absent", "exists", "directory"} =>
                LET p == entry[h][k].path IN
                \/ \A j \in 1 .. k : entry[h][j].op = "lock" => ~ Keeps(entry[h][j].path, p)
                \/ Changed(h, p)
                \/ Holds(entry[h][k])]_vars

\* Locks are waited for in one order: there is a rank of lock files such that no
\* session waits, in an item or with a command, for one that does not rank above
\* all it then holds.
Wanted(item) ==
    IF item.op = "lock" THEN <<item.path>> ELSE IF item.op = "run" THEN item.locks ELSE <<>>

WaitsHolding(items, p, q) ==
    \E i \in DOMAIN items : \E m \in DOMAIN Wanted(items[i]) :
        /\ Wanted(items[i])[m] = q
        /\ \/ \E k \in 1 .. m - 1 : Wanted(items[i])[k] = p
           \/ \E j \in 1 .. i - 1 : items[j].op = "lock" /\ items[j].path = p

Ordered ==
    {s \in Setups : \E rank \in [Paths -> 1 .. Cardinality(Paths)] :
        \A h \in Sessions, p, q \in Paths : WaitsHolding(s[h], p, q) => rank[p] < rank[q]}

\* The client's connection ends when the last process that has inherited it does:
\* the handler, and every command it started.  With locks in order it always
\* ends: no failed dialogue, lost alarm, refused change or lock held by another
\* session leaves a client waiting for ever.
Finished(h) ==
    pc[h] = "over" /\ \A i \in Runnable(h) : cmd[h][i].st \notin Alive

ConnectionsEnd == entry \in Ordered => <>(\A h \in Sessions : Finished(h))
===============================================================================
