---------------------------- MODULE Entry_proofs ----------------------------
(***************************************************************************)
(* Safety of the items of entries, for any number of handlers, any         *)
(* entries, and commands that outlive their items as they like: types,     *)
(* the exclusion of lock files, the user and group of each command, and    *)
(* that what was required under a lock is still so when commands start.    *)
(***************************************************************************)
EXTENDS Entry, TLAPS

\* The first item whose command has not been started.
Fresh(h) == IF pc[h] \in {"dialog", "relay"} THEN at[h] + 1 ELSE at[h]

\* What each handler is doing fits the item in hand; commands are those of run
\* items the handler has reached.
ControlInv ==
    /\ DOMAIN cmd = Sessions
    /\ \A h \in Sessions :
        /\ DOMAIN cmd[h] = DOMAIN entry[h]
        /\ pc[h] \in {"flock", "unlimited"} => at[h] \in DOMAIN entry[h] /\ Item(h).op = "lock"
        /\ pc[h] \in {"dialog", "relay"} => at[h] \in DOMAIN entry[h] /\ Item(h).op = "run"
        /\ \A i \in DOMAIN entry[h] : i >= Fresh(h) => cmd[h][i] = NoCommand
        /\ \A i \in DOMAIN entry[h] : cmd[h][i].st # "none" => i \in Runnable(h)

-------------------------------------------------------------------------------

\* What an item of an entry is, from its op.
LEMMA ItemTypes ==
    ASSUME entry \in Setups, NEW h \in Sessions
    PROVE  /\ Len(entry[h]) \in Nat
           /\ DOMAIN entry[h] = 1 .. Len(entry[h])
           /\ \A i \in DOMAIN entry[h] :
                /\ entry[h][i].op \in {"absent", "exists", "directory", "lock"} => entry[h][i].path \in Paths
                /\ entry[h][i].op = "arglen" => entry[h][i].len \in Nat
                /\ entry[h][i].op \in {"chuser", "chgrp"} => entry[h][i].to \in Names
                /\ entry[h][i].op = "run" => entry[h][i] \in Command
<1>1. entry[h] \in Seq(Check \cup ArgLen \cup Change \cup Command)
  BY EntryAssumption
<1>2. Len(entry[h]) \in Nat /\ DOMAIN entry[h] = 1 .. Len(entry[h])
  BY <1>1
<1>3. ASSUME NEW i \in DOMAIN entry[h]
      PROVE  entry[h][i] \in Check \/ entry[h][i] \in ArgLen \/ entry[h][i] \in Change \/ entry[h][i] \in Command
  BY <1>1
<1>4. /\ \A e \in Check : e.op \in {"absent", "exists", "directory", "lock"} /\ e.path \in Paths
      /\ \A e \in ArgLen : e.op = "arglen" /\ e.len \in Nat
      /\ \A e \in Change : e.op \in {"chuser", "chgrp"} /\ e.to \in Names
      /\ \A e \in Command : e.op = "run"
  BY DEF Check, ArgLen, Change, Command
<1> QED BY <1>2, <1>3, <1>4

\* The lock files a command takes.
LEMMA CommandTypes ==
    ASSUME entry \in Setups, NEW h \in Sessions, NEW i \in Runnable(h)
    PROVE  /\ i \in DOMAIN entry[h] /\ i \in Nat \ {0}
           /\ Len(entry[h][i].locks) \in Nat
           /\ DOMAIN entry[h][i].locks = 1 .. Len(entry[h][i].locks)
           /\ \A k \in 1 .. Len(entry[h][i].locks) : entry[h][i].locks[k] \in Paths
           /\ entry[h][i].makes \in [Paths -> {"none", "file", "dir", "as it is"}]
<1>1. i \in DOMAIN entry[h] /\ i \in Nat \ {0} /\ entry[h][i] \in Command
  BY ItemTypes DEF Runnable
<1>2. entry[h][i].locks \in Seq(Paths)
      /\ entry[h][i].makes \in [Paths -> {"none", "file", "dir", "as it is"}]
  BY <1>1 DEF Command
<1>3. \A s \in Seq(Paths) : /\ Len(s) \in Nat /\ DOMAIN s = 1 .. Len(s)
                           /\ \A k \in 1 .. Len(s) : s[k] \in Paths
  OBVIOUS
<1> QED BY <1>1, <1>2, <1>3

-------------------------------------------------------------------------------
(* Types and control. *)

\* What changing the command of one item does to the others.
LEMMA CmdUpdate ==
    ASSUME ControlInv, NEW h \in Sessions, NEW i \in DOMAIN entry[h], NEW e,
           cmd' = [cmd EXCEPT ![h][i] = e], entry' = entry
    PROVE  /\ DOMAIN cmd' = Sessions
           /\ \A g \in Sessions : DOMAIN cmd'[g] = DOMAIN entry'[g]
           /\ \A g \in Sessions : \A j \in DOMAIN entry[g] :
                cmd'[g][j] = IF g = h /\ j = i THEN e ELSE cmd[g][j]
BY DEF ControlInv

\* A command changes into another state of its type.
LEMMA CmdTypes ==
    ASSUME TypeOK, ControlInv, NEW h \in Sessions, NEW i \in DOMAIN entry[h],
           NEW e \in [st : {"none", "gone"} \cup Alive, got : Nat, uid : Known, gid : Known],
           cmd' = [cmd EXCEPT ![h][i] = e], entry' = entry
    PROVE  \A g \in Sessions : \A j \in DOMAIN entry'[g] :
             cmd'[g][j] \in [st : {"none", "gone"} \cup Alive, got : Nat, uid : Known, gid : Known]
BY CmdUpdate DEF TypeOK

\* The handler goes on to the next item.
LEMMA NextItemControl ==
    ASSUME TypeOK, ControlInv, NEW h \in Sessions, NextItem(h), UNCHANGED <<entry, cmd>>
    PROVE  ControlInv'
<1>1. /\ at[h] \in Nat /\ at'[h] = at[h] + 1 /\ pc'[h] = "items"
      /\ \A g \in Sessions \ {h} : at'[g] = at[g] /\ pc'[g] = pc[g]
  BY DEF NextItem, TypeOK
<1>2. Fresh(h)' >= Fresh(h) /\ Fresh(h)' \in Nat /\ Fresh(h) \in Nat
  BY <1>1 DEF Fresh
<1>3. DOMAIN entry[h] \subseteq Nat
  BY ItemTypes DEF TypeOK
<1>4. \A i \in DOMAIN entry[h] : i >= Fresh(h)' => i >= Fresh(h)
  BY <1>2, <1>3
<1>5. \A g \in Sessions \ {h} : Fresh(g)' = Fresh(g)
  BY <1>1 DEF Fresh
<1> QED BY <1>1, <1>4, <1>5 DEF ControlInv, Item, Runnable, NoCommand

\* The handler goes to another statement within its item.
LEMMA GotoControl ==
    ASSUME TypeOK, ControlInv, NEW h \in Sessions, NEW s, Goto(h, s), UNCHANGED <<entry, cmd>>,
           s \in {"flock", "unlimited"} => at[h] \in DOMAIN entry[h] /\ Item(h).op = "lock",
           s \in {"dialog", "relay"} => at[h] \in DOMAIN entry[h] /\ Item(h).op = "run",
           pc[h] \in {"dialog", "relay"} <=> s \in {"dialog", "relay"}
    PROVE  ControlInv'
<1>1. /\ pc'[h] = s /\ at' = at
      /\ \A g \in Sessions \ {h} : pc'[g] = pc[g]
  BY DEF Goto, TypeOK
<1>2. \A g \in Sessions : Fresh(g)' = Fresh(g)
  BY <1>1 DEF Fresh
<1> QED BY <1>1, <1>2 DEF ControlInv, Item, Runnable, NoCommand

LEMMA HandlerTypes ==
    ASSUME TypeOK, ControlInv, NEW h \in Sessions,
           HandlerStep(h) \/ DialogDecided(h) \/ RelayBroken(h)
    PROVE  TypeOK'
<1>1. /\ Len(entry[h]) \in Nat
      /\ DOMAIN entry[h] = 1 .. Len(entry[h])
      /\ at[h] \in Nat \ {0}
  BY ItemTypes DEF TypeOK
<1>2. CASE Spawn(h)
  <2> DEFINE e == [cmd[h][at[h]] EXCEPT !.st = "setup", !.uid = uid[h], !.gid = gid[h]]
  <2>1. at[h] \in DOMAIN entry[h] /\ cmd' = [cmd EXCEPT ![h][at[h]] = e] /\ entry' = entry
    BY <1>1, <1>2 DEF Spawn, AtItem
  <2>2. e \in [st : {"none", "gone"} \cup Alive, got : Nat, uid : Known, gid : Known]
    <3>1. cmd[h][at[h]] \in [st : {"none", "gone"} \cup Alive, got : Nat, uid : Known, gid : Known]
      BY <2>1 DEF TypeOK
    <3>2. uid[h] \in Known /\ gid[h] \in Known
      BY DEF TypeOK
    <3> QED BY <3>1, <3>2 DEF Alive
  <2>3. \A g \in Sessions : \A j \in DOMAIN entry'[g] :
             cmd'[g][j] \in [st : {"none", "gone"} \cup Alive, got : Nat, uid : Known, gid : Known]
    BY <2>1, <2>2, CmdTypes
  <2>4. open' \in [Paths -> SUBSET (Sessions \X Nat)]
    BY <1>2, <1>1 DEF Spawn, TypeOK
  <2> QED BY <1>2, <2>3, <2>4 DEF TypeOK, Spawn, Goto
<1>3. NextItem(h) => /\ at' \in [Sessions -> Nat \ {0}]
                     /\ pc' \in [Sessions -> {"items", "flock", "unlimited", "dialog", "relay", "end", "over"}]
  BY <1>1 DEF NextItem, TypeOK
<1>4. \A s \in {"flock", "unlimited", "relay", "end", "over"} : Goto(h, s) =>
        /\ at' \in [Sessions -> Nat \ {0}]
        /\ pc' \in [Sessions -> {"items", "flock", "unlimited", "dialog", "relay", "end", "over"}]
  BY DEF Goto, TypeOK
<1>5. UNCHANGED <<entry, cmd>> =>
        \A g \in Sessions : \A j \in DOMAIN entry'[g] :
          cmd'[g][j] \in [st : {"none", "gone"} \cup Alive, got : Nat, uid : Known, gid : Known]
  BY DEF TypeOK
<1>6. Exit(h) => open' \in [Paths -> SUBSET (Sessions \X Nat)]
  BY DEF Exit, Closes, TypeOK
<1>7. CASE Requirement(h) \/ RunOverlong(h) \/ SpawnFails(h)
  BY <1>3, <1>4, <1>5, <1>7 DEF Requirement, RunOverlong, SpawnFails, TypeOK
<1>8. CASE RequireArgLen(h)
  <2>1. Item(h).len \in Nat
    BY <1>1, <1>8, ItemTypes DEF RequireArgLen, AtItem, Item, TypeOK
  <2> QED BY <1>3, <1>5, <1>8, <2>1 DEF RequireArgLen, TypeOK
<1>9. CASE LockOpens(h)
  <2>1. kind' \in [Paths -> {"none", "file", "dir"}] /\ lost' \subseteq Sessions
    BY <1>9 DEF LockOpens, Made, TypeOK
  <2> QED BY <1>3, <1>4, <1>5, <1>9, <2>1 DEF LockOpens, TypeOK
<1>10. CASE AlarmTooEarly(h) \/ LockTimesOut(h)
  BY <1>3, <1>4, <1>5, <1>10 DEF AlarmTooEarly, LockTimesOut, TypeOK
<1>11. CASE LockTaken(h)
  <2>1. {<<h, 0>>} \in SUBSET (Sessions \X Nat)
    OBVIOUS
  <2>2. open' \in [Paths -> SUBSET (Sessions \X Nat)]
    BY <1>11, <2>1 DEF LockTaken, TypeOK
  <2> QED BY <1>3, <1>5, <1>11, <2>2 DEF LockTaken, TypeOK
<1>12. CASE ChUser(h) \/ ChGrp(h)
  <2>1. uid' \in [Sessions -> Known] /\ gid' \in [Sessions -> Known]
    BY <1>12 DEF ChUser, ChGrp, TypeOK
  <2>2. (NextItem(h) /\ UNCHANGED open) \/ Exit(h)
    BY <1>12 DEF ChUser, ChGrp
  <2> QED BY <1>3, <1>4, <1>5, <1>6, <1>12, <2>1, <2>2 DEF ChUser, ChGrp, Exit, TypeOK
<1>13. CASE End(h)
  BY <1>4, <1>5, <1>6, <1>13 DEF End, Exit, TypeOK
<1>14. CASE DialogDecided(h) \/ DialogOver(h) \/ RelayEnds(h) \/ RelayBroken(h)
  BY <1>3, <1>4, <1>5, <1>14 DEF DialogDecided, DialogOver, RelayEnds, RelayBroken, TypeOK
<1> QED
  BY <1>2, <1>7, <1>8, <1>9, <1>10, <1>11, <1>12, <1>13, <1>14 DEF HandlerStep

LEMMA HandlerControl ==
    ASSUME TypeOK, ControlInv, NEW h \in Sessions,
           HandlerStep(h) \/ DialogDecided(h) \/ RelayBroken(h)
    PROVE  ControlInv'
<1>1. /\ Len(entry[h]) \in Nat
      /\ DOMAIN entry[h] = 1 .. Len(entry[h])
      /\ at[h] \in Nat \ {0}
  BY ItemTypes DEF TypeOK
<1>2. CASE Spawn(h)
  <2> DEFINE e == [cmd[h][at[h]] EXCEPT !.st = "setup", !.uid = uid[h], !.gid = gid[h]]
  <2>1. /\ at[h] \in DOMAIN entry[h] /\ Item(h).op = "run"
        /\ cmd' = [cmd EXCEPT ![h][at[h]] = e]
        /\ UNCHANGED <<entry, at>> /\ pc[h] = "items"
    BY <1>1, <1>2 DEF Spawn, AtItem, Goto
  <2>2. /\ pc'[h] \in {"dialog", "relay"}
        /\ \A g \in Sessions \ {h} : pc'[g] = pc[g]
    BY <1>2 DEF Spawn, Goto, TypeOK
  <2>3. /\ DOMAIN cmd' = Sessions
        /\ \A g \in Sessions : DOMAIN cmd'[g] = DOMAIN entry'[g]
        /\ \A g \in Sessions : \A j \in DOMAIN entry[g] :
             cmd'[g][j] = IF g = h /\ j = at[h] THEN e ELSE cmd[g][j]
    BY <2>1, CmdUpdate
  <2>4. \A j \in DOMAIN entry[h] : j >= Fresh(h)' => j >= Fresh(h) /\ j # at[h]
    BY <2>1, <2>2, <1>1 DEF Fresh
  <2>5. \A g \in Sessions \ {h} : Fresh(g)' = Fresh(g)
    BY <2>1, <2>2 DEF Fresh
  <2>6. \A g \in Sessions : \A j \in DOMAIN entry'[g] : cmd'[g][j].st # "none" => j \in Runnable(g)'
    BY <2>1, <2>3 DEF ControlInv, Runnable, Item
  <2>7. \A g \in Sessions : \A j \in DOMAIN entry'[g] : j >= Fresh(g)' => cmd'[g][j] = NoCommand
    BY <2>1, <2>3, <2>4, <2>5 DEF ControlInv
  <2>8. \A g \in Sessions :
          /\ pc'[g] \in {"flock", "unlimited"} => at'[g] \in DOMAIN entry'[g] /\ Item(g)'.op = "lock"
          /\ pc'[g] \in {"dialog", "relay"} => at'[g] \in DOMAIN entry'[g] /\ Item(g)'.op = "run"
    BY <2>1, <2>2 DEF ControlInv, Item
  <2> QED BY <2>3, <2>6, <2>7, <2>8 DEF ControlInv, NoCommand
<1>3. NextItem(h) /\ UNCHANGED <<entry, cmd>> => ControlInv'
  BY NextItemControl
<1>4. \A s \in {"end", "over"} : Goto(h, s) /\ pc[h] \notin {"dialog", "relay"} /\ UNCHANGED <<entry, cmd>> => ControlInv'
  BY GotoControl
<1>5. CASE Requirement(h) \/ RequireArgLen(h) \/ RunOverlong(h) \/ SpawnFails(h)
  BY <1>3, <1>4, <1>5 DEF Requirement, RequireArgLen, RunOverlong, SpawnFails, AtItem
<1>6. CASE LockOpens(h)
  BY <1>1, <1>3, <1>6, GotoControl DEF LockOpens, AtItem
<1>7. CASE AlarmTooEarly(h)
  BY <1>7, GotoControl DEF AlarmTooEarly, ControlInv
<1>8. CASE LockTaken(h) \/ LockTimesOut(h)
  BY <1>3, <1>8 DEF LockTaken, LockTimesOut
<1>9. CASE ChUser(h) \/ ChGrp(h) \/ End(h)
  BY <1>3, <1>4, <1>9 DEF ChUser, ChGrp, End, Exit, AtItem
<1>10. CASE DialogDecided(h) \/ DialogOver(h)
  <2>1. (Goto(h, "relay") \/ NextItem(h)) /\ pc[h] = "dialog" /\ UNCHANGED <<entry, cmd>>
    BY <1>10 DEF DialogDecided, DialogOver
  <2> QED BY <1>3, <2>1, GotoControl DEF ControlInv
<1>11. CASE RelayEnds(h) \/ RelayBroken(h)
  BY <1>3, <1>11 DEF RelayEnds, RelayBroken
<1> QED
  BY <1>2, <1>5, <1>6, <1>7, <1>8, <1>9, <1>10, <1>11 DEF HandlerStep

\* What a step of a command does to the command itself.
LEMMA CommandMoves ==
    ASSUME TypeOK, ControlInv, NEW h \in Sessions, NEW i \in Runnable(h),
           SetupStep(h, i) \/ CommandExits(h, i) \/ CommandActs(h, i) \/ CommandDetaches(h, i)
    PROVE  /\ i \in DOMAIN entry[h] /\ cmd[h][i].st # "none" /\ UNCHANGED <<entry, handlerVars>>
           /\ DOMAIN cmd' = Sessions
           /\ \A g \in Sessions : DOMAIN cmd'[g] = DOMAIN entry'[g]
           /\ \E e \in [st : {"gone"} \cup Alive, got : Nat, uid : Known, gid : Known] :
                \A g \in Sessions : \A j \in DOMAIN entry[g] :
                  cmd'[g][j] = IF g = h /\ j = i THEN e ELSE cmd[g][j]
<1>1. i \in DOMAIN entry[h] /\ cmd[h][i].st # "none"
  BY DEF Runnable, SetupStep, CommandLocks, CommandLockFails, CommandRuns, CommandRefused, InSetup,
         CommandExits, CommandActs, CommandDetaches, Runs
<1>2. cmd[h][i] \in [st : {"gone"} \cup Alive, got : Nat, uid : Known, gid : Known]
  BY <1>1 DEF TypeOK
<1>3. NewUid(h, i) \in Known /\ NewGid(h, i) \in Known
  BY <1>2 DEF NewUid, NewGid, Counts
<1>4. CASE CommandActs(h, i)
  BY <1>1, <1>2, <1>4 DEF CommandActs, ControlInv
<1>5. ASSUME NEW e \in [st : {"gone"} \cup Alive, got : Nat, uid : Known, gid : Known],
             cmd' = [cmd EXCEPT ![h][i] = e], UNCHANGED <<entry, handlerVars>>
      PROVE  /\ DOMAIN cmd' = Sessions
             /\ \A g \in Sessions : DOMAIN cmd'[g] = DOMAIN entry'[g]
             /\ \A g \in Sessions : \A j \in DOMAIN entry[g] :
                  cmd'[g][j] = IF g = h /\ j = i THEN e ELSE cmd[g][j]
  BY <1>1, <1>5, CmdUpdate
<1>6. CASE CommandLocks(h, i)
  <2> DEFINE e == [cmd[h][i] EXCEPT !.got = @ + 1]
  <2>1. e \in [st : {"gone"} \cup Alive, got : Nat, uid : Known, gid : Known]
    BY <1>2
  <2>2. cmd' = [cmd EXCEPT ![h][i] = e] /\ UNCHANGED <<entry, handlerVars>>
    BY <1>6 DEF CommandLocks
  <2> QED BY <1>1, <1>5, <2>1, <2>2
<1>7. ASSUME NEW s \in {"gone"} \cup Alive, Becomes(h, i, s), UNCHANGED <<entry, handlerVars>>
      PROVE  \E e \in [st : {"gone"} \cup Alive, got : Nat, uid : Known, gid : Known] :
               cmd' = [cmd EXCEPT ![h][i] = e]
  <2> DEFINE e == [cmd[h][i] EXCEPT !.st = s]
  <2>1. e \in [st : {"gone"} \cup Alive, got : Nat, uid : Known, gid : Known]
    BY <1>2
  <2> QED BY <1>7, <2>1 DEF Becomes
<1>8. CASE CommandLockFails(h, i) \/ CommandRefused(h, i) \/ CommandExits(h, i) \/ CommandDetaches(h, i)
  <2>1. UNCHANGED <<entry, handlerVars>> /\ \E s \in {"gone"} \cup Alive : Becomes(h, i, s)
    BY <1>8 DEF CommandLockFails, CommandRefused, CommandExits, CommandDetaches, Alive
  <2> QED BY <1>1, <1>5, <1>7, <2>1
<1>9. CASE CommandRuns(h, i)
  <2> DEFINE e == [cmd[h][i] EXCEPT !.st = "running", !.uid = NewUid(h, i), !.gid = NewGid(h, i)]
  <2>1. e \in [st : {"gone"} \cup Alive, got : Nat, uid : Known, gid : Known]
    BY <1>2, <1>3 DEF Alive
  <2>2. cmd' = [cmd EXCEPT ![h][i] = e] /\ UNCHANGED <<entry, handlerVars>>
    BY <1>9 DEF CommandRuns
  <2> QED BY <1>1, <1>5, <2>1, <2>2
<1> QED BY <1>4, <1>6, <1>8, <1>9 DEF SetupStep

LEMMA CommandTypesKept ==
    ASSUME TypeOK, ControlInv, NEW h \in Sessions, NEW i \in Runnable(h),
           SetupStep(h, i) \/ CommandExits(h, i) \/ CommandActs(h, i) \/ CommandDetaches(h, i)
    PROVE  TypeOK' /\ ControlInv'
<1>1. i \in DOMAIN entry[h] /\ cmd[h][i].st # "none" /\ UNCHANGED <<entry, handlerVars>>
  BY CommandMoves
<1>2. PICK e \in [st : {"gone"} \cup Alive, got : Nat, uid : Known, gid : Known] :
        \A g \in Sessions : \A j \in DOMAIN entry[g] :
          cmd'[g][j] = IF g = h /\ j = i THEN e ELSE cmd[g][j]
  BY CommandMoves
<1>3. DOMAIN cmd' = Sessions /\ \A g \in Sessions : DOMAIN cmd'[g] = DOMAIN entry'[g]
  BY CommandMoves
<1>4. ~ (i >= Fresh(h))
  BY <1>1 DEF ControlInv, NoCommand
<1>5. \A g \in Sessions : Fresh(g)' = Fresh(g) /\ Item(g)' = Item(g) /\ Runnable(g)' = Runnable(g)
  BY <1>1 DEF Fresh, Item, Runnable, handlerVars
<1>6. \A g \in Sessions : \A j \in DOMAIN entry'[g] : cmd'[g][j].st # "none" => j \in Runnable(g)'
  BY <1>1, <1>2, <1>5 DEF ControlInv
<1>7. \A g \in Sessions : \A j \in DOMAIN entry'[g] : j >= Fresh(g)' => cmd'[g][j] = NoCommand
  BY <1>1, <1>2, <1>4, <1>5 DEF ControlInv
<1>8. ControlInv'
  BY <1>1, <1>3, <1>5, <1>6, <1>7 DEF ControlInv, NoCommand, handlerVars
<1>9. e \in [st : {"none", "gone"} \cup Alive, got : Nat, uid : Known, gid : Known]
  BY <1>2
<1>10. \A g \in Sessions : \A j \in DOMAIN entry'[g] :
         cmd'[g][j] \in [st : {"none", "gone"} \cup Alive, got : Nat, uid : Known, gid : Known]
  BY <1>1, <1>2, <1>9 DEF TypeOK
<1>11. i \in Nat
  BY CommandTypes DEF TypeOK
<1>12. open' \in [Paths -> SUBSET (Sessions \X Nat)]
  <2>1. {<<h, i>>} \in SUBSET (Sessions \X Nat)
    BY <1>11
  <2>2. CommandLocks(h, i) => open' \in [Paths -> SUBSET (Sessions \X Nat)]
    BY <2>1, ZenonT(40) DEF CommandLocks, TypeOK
  <2>3. Closes(<<h, i>>) => open' \in [Paths -> SUBSET (Sessions \X Nat)]
    BY DEF Closes, TypeOK
  <2>4. Closes(<<h, i>>) \/ CommandLocks(h, i) \/ UNCHANGED open
    BY DEF SetupStep, CommandLockFails, CommandRuns, CommandRefused, CommandExits, CommandActs, CommandDetaches
  <2> QED BY <2>2, <2>3, <2>4 DEF TypeOK
<1>13. kind' \in [Paths -> {"none", "file", "dir"}]
  <2>1. CommandLocks(h, i) => kind' \in [Paths -> {"none", "file", "dir"}]
    BY DEF CommandLocks, Made, TypeOK
  <2>2. CommandActs(h, i) => kind' \in [Paths -> {"none", "file", "dir"}]
    <3>1. entry \in Setups
      BY DEF TypeOK
    <3>2. entry[h][i].makes \in [Paths -> {"none", "file", "dir", "as it is"}]
      BY <3>1, CommandTypes
    <3>3. \A p \in Paths : entry[h][i].makes[p] \in {"none", "file", "dir", "as it is"}
      BY <3>2
    <3> QED BY <3>3, ZenonT(40) DEF CommandActs, TypeOK
  <2>3. CommandLocks(h, i) \/ CommandActs(h, i) \/ UNCHANGED kind
    BY DEF SetupStep, CommandLockFails, CommandRuns, CommandRefused, CommandExits, CommandDetaches
  <2> QED BY <2>1, <2>2, <2>3 DEF TypeOK
<1> QED BY <1>1, <1>8, <1>10, <1>12, <1>13 DEF TypeOK, handlerVars

LEMMA InitTypes == Init => TypeOK /\ ControlInv
BY EntryAssumption DEF Init, TypeOK, ControlInv, NoCommand, Alive, Fresh

LEMMA NextTypes == TypeOK /\ ControlInv /\ [Next]_vars => TypeOK' /\ ControlInv'
<1>1. TypeOK /\ ControlInv /\ UNCHANGED vars => TypeOK' /\ ControlInv'
  BY DEF vars, handlerVars, TypeOK, ControlInv, Fresh, Item, Runnable
<1> QED BY <1>1, HandlerTypes, HandlerControl, CommandTypesKept DEF Next, CommandStep

\* RunInvokeCommand and the commands it starts: whatever the entries say, every
\* variable keeps its type.
THEOREM TypeCorrect == Spec => []TypeOK
BY InitTypes, NextTypes, PTL DEF Spec

-------------------------------------------------------------------------------
(* Lock files exclude. *)

\* Who has a lock file open is alive, a process of one session; commands among
\* them are those of items.
HoldersInv ==
    \A p \in Paths : \A x \in open[p] :
        /\ x[2] = 0 \/ x[2] \in DOMAIN entry[x[1]]
        /\ ProcessAlive(x)
        /\ \A y \in open[p] : x[1] = y[1]

\* A command alone holds the lock files it has got, all of them when it runs.
OwnLocksInv ==
    \A h \in Sessions : \A i \in Runnable(h) : cmd[h][i].st \in Alive =>
        /\ cmd[h][i].got <= Len(entry[h][i].locks)
        /\ Runs(h, i) => HasLocks(h, i)
        /\ \A k \in 1 .. cmd[h][i].got : open[entry[h][i].locks[k]] = {<<h, i>>}

LEMMA OwnLockPaths ==
    ASSUME TypeOK, OwnLocksInv, NEW h \in Sessions, NEW i \in Runnable(h), cmd[h][i].st \in Alive
    PROVE  /\ i \in DOMAIN entry[h] /\ i \in Nat \ {0}
           /\ cmd[h][i].got \in Nat /\ Len(entry[h][i].locks) \in Nat
           /\ \A k \in 1 .. cmd[h][i].got :
                open[entry[h][i].locks[k]] = {<<h, i>>} /\ entry[h][i].locks[k] \in Paths
<1>1. entry \in Setups
  BY DEF TypeOK
<1>2. /\ i \in DOMAIN entry[h] /\ i \in Nat \ {0}
      /\ Len(entry[h][i].locks) \in Nat
      /\ \A k \in 1 .. Len(entry[h][i].locks) : entry[h][i].locks[k] \in Paths
  BY <1>1, CommandTypes
<1>3. cmd[h][i].got \in Nat
  BY <1>2 DEF TypeOK
<1>4. /\ cmd[h][i].got <= Len(entry[h][i].locks)
      /\ \A k \in 1 .. cmd[h][i].got : open[entry[h][i].locks[k]] = {<<h, i>>}
  BY DEF OwnLocksInv
<1> QED BY <1>2, <1>3, <1>4, SMTT(40)

\* A process whose life a step does not end stays where it has lock files open.
LEMMA HandlerExitHolders ==
    ASSUME TypeOK, ControlInv, HoldersInv, OwnLocksInv, NEW h \in Sessions,
           Exit(h), UNCHANGED <<entry, cmd>>
    PROVE  HoldersInv' /\ OwnLocksInv'
<1>1. \A p \in Paths : open'[p] = open[p] \ {<<h, 0>>}
  BY DEF Exit, Closes
<1>2. \A g \in Sessions \ {h} : pc'[g] = pc[g]
  BY DEF Exit, Goto, TypeOK
<1>3. ASSUME NEW p \in Paths, NEW x \in open'[p]
      PROVE  /\ x[2] = 0 \/ x[2] \in DOMAIN entry'[x[1]]
             /\ ProcessAlive(x)'
             /\ \A y \in open'[p] : x[1] = y[1]
  <2>1. x \in open[p] /\ x # <<h, 0>> /\ x \in Sessions \X Nat
    BY <1>1 DEF TypeOK
  <2>2. x[2] = 0 => x[1] \in Sessions \ {h}
    BY <2>1
  <2> QED BY <1>1, <1>2, <2>1, <2>2 DEF HoldersInv, ProcessAlive
<1>4. ASSUME NEW g \in Sessions, NEW i \in Runnable(g), cmd[g][i].st \in Alive,
             NEW k \in 1 .. cmd[g][i].got
      PROVE  open'[entry[g][i].locks[k]] = {<<g, i>>}
  <2>1. open[entry[g][i].locks[k]] = {<<g, i>>} /\ entry[g][i].locks[k] \in Paths /\ i # 0
    BY <1>4, OwnLockPaths
  <2> QED BY <1>1, <2>1
<1> QED BY <1>3, <1>4 DEF HoldersInv, OwnLocksInv, Runnable, Runs, HasLocks

\* Steps that open and close nothing and end nobody.
LEMMA QuietHolders ==
    ASSUME TypeOK, HoldersInv, OwnLocksInv, UNCHANGED <<entry, open, cmd>>,
           \A g \in Sessions : pc[g] # "over" => pc'[g] # "over"
    PROVE  HoldersInv' /\ OwnLocksInv'
<1>1. HoldersInv'
  BY DEF HoldersInv, ProcessAlive, TypeOK
<1>2. OwnLocksInv'
  BY DEF OwnLocksInv, Runnable, Runs, HasLocks
<1> QED BY <1>1, <1>2

LEMMA LockTakenHolders ==
    ASSUME TypeOK, ControlInv, HoldersInv, OwnLocksInv, NEW h \in Sessions, LockTaken(h)
    PROVE  HoldersInv' /\ OwnLocksInv'
<1>1. /\ UNCHANGED <<entry, cmd>>
      /\ \A g \in Sessions : pc[g] # "over" => pc'[g] # "over"
      /\ pc'[h] = "items"
  BY DEF LockTaken, NextItem, TypeOK
<1>2. PICK q \in Paths : open[q] = {} /\ open' = [open EXCEPT ![q] = {<<h, 0>>}]
  <2>1. entry \in Setups /\ at[h] \in DOMAIN entry[h] /\ Item(h).op = "lock"
    BY DEF TypeOK, ControlInv, LockTaken
  <2>2. Item(h).path \in Paths
    BY <2>1, ItemTypes DEF Item
  <2> QED BY <2>2 DEF LockTaken
<1>3. \A p \in Paths : open'[p] = IF p = q THEN {<<h, 0>>} ELSE open[p]
  BY <1>2 DEF TypeOK
<1>4. HoldersInv'
  BY <1>1, <1>3 DEF HoldersInv, ProcessAlive, TypeOK
<1>5. ASSUME NEW g \in Sessions, NEW i \in Runnable(g), cmd[g][i].st \in Alive,
             NEW k \in 1 .. cmd[g][i].got
      PROVE  open'[entry[g][i].locks[k]] = {<<g, i>>}
  <2>1. open[entry[g][i].locks[k]] = {<<g, i>>} /\ entry[g][i].locks[k] \in Paths
    BY <1>5, OwnLockPaths
  <2> QED BY <1>2, <1>3, <2>1
<1> QED BY <1>1, <1>4, <1>5 DEF OwnLocksInv, Runnable, Runs, HasLocks

\* A new command inherits what its handler has open, which is no lock file of
\* another command.
LEMMA SpawnHolders ==
    ASSUME TypeOK, ControlInv, HoldersInv, OwnLocksInv, NEW h \in Sessions, Spawn(h)
    PROVE  HoldersInv' /\ OwnLocksInv'
<1>1. /\ at[h] \in DOMAIN entry[h] /\ at[h] \in Nat \ {0} /\ pc[h] = "items"
      /\ cmd' = [cmd EXCEPT ![h][at[h]] = [@ EXCEPT !.st = "setup", !.uid = uid[h], !.gid = gid[h]]]
      /\ \A g \in Sessions : pc[g] # "over" => pc'[g] # "over"
      /\ UNCHANGED entry
  BY ItemTypes DEF Spawn, AtItem, Goto, TypeOK
<1>2. cmd[h][at[h]] = NoCommand
  BY <1>1 DEF ControlInv, Fresh, TypeOK
<1>3. \A g \in Sessions : \A j \in DOMAIN entry[g] :
        /\ g = h /\ j = at[h] => cmd'[g][j].st = "setup" /\ cmd'[g][j].got = 0
        /\ ~ (g = h /\ j = at[h]) => cmd'[g][j] = cmd[g][j]
  <2> DEFINE e == [cmd[h][at[h]] EXCEPT !.st = "setup", !.uid = uid[h], !.gid = gid[h]]
  <2>1. e.st = "setup" /\ e.got = 0
    BY <1>2 DEF NoCommand
  <2>2. \A g \in Sessions : \A j \in DOMAIN entry[g] :
          cmd'[g][j] = IF g = h /\ j = at[h] THEN e ELSE cmd[g][j]
    BY <1>1, CmdUpdate
  <2> QED BY <2>1, <2>2
<1>4. \A p \in Paths : open'[p] = IF <<h, 0>> \in open[p] THEN open[p] \cup {<<h, at[h]>>} ELSE open[p]
  BY DEF Spawn
<1>5. ASSUME NEW p \in Paths, NEW x \in open'[p]
      PROVE  /\ x[2] = 0 \/ x[2] \in DOMAIN entry'[x[1]]
             /\ ProcessAlive(x)'
             /\ \A y \in open'[p] : x[1] = y[1]
  <2>1. CASE x \in open[p]
    <3>1. x \in Sessions \X Nat
      BY <2>1 DEF TypeOK
    <3>2. x[2] = 0 \/ x[2] \in DOMAIN entry[x[1]]
      BY <2>1 DEF HoldersInv
    <3>3. ProcessAlive(x)'
      <4>1. ProcessAlive(x)
        BY <2>1 DEF HoldersInv
      <4> QED BY <1>1, <1>3, <3>1, <3>2, <4>1 DEF ProcessAlive, Alive
    <3>4. ASSUME NEW y \in open'[p] PROVE x[1] = y[1]
      <4>1. CASE y \in open[p]
        BY <2>1, <4>1 DEF HoldersInv
      <4>2. CASE y = <<h, at[h]>> /\ <<h, 0>> \in open[p]
        <5>1. x[1] = <<h, 0>>[1]
          BY <2>1, <4>2 DEF HoldersInv
        <5> QED BY <4>2, <5>1
      <4> QED BY <1>4, <4>1, <4>2
    <3> QED BY <1>1, <3>2, <3>3, <3>4
  <2>2. CASE x \notin open[p]
    <3>1. x = <<h, at[h]>> /\ <<h, 0>> \in open[p]
      BY <1>4, <2>2
    <3>2. ProcessAlive(x)'
      BY <1>1, <1>3, <3>1 DEF ProcessAlive, Alive
    <3>3. ASSUME NEW y \in open'[p] PROVE x[1] = y[1]
      <4>1. y = x \/ <<h, 0>>[1] = y[1]
        <5>1. y \in open[p] \/ y = x
          BY <1>4, <3>1
        <5>2. y \in open[p] => <<h, 0>>[1] = y[1]
          BY <3>1 DEF HoldersInv
        <5> QED BY <5>1, <5>2
      <4> QED BY <3>1, <4>1
    <3> QED BY <1>1, <3>1, <3>2, <3>3
  <2> QED BY <2>1, <2>2
<1>6. HoldersInv'
  BY <1>5 DEF HoldersInv
<1>7. ASSUME NEW g \in Sessions, NEW i \in Runnable(g), cmd[g][i].st \in Alive,
             NEW k \in 1 .. cmd[g][i].got
      PROVE  open'[entry[g][i].locks[k]] = {<<g, i>>}
  <2>1. open[entry[g][i].locks[k]] = {<<g, i>>} /\ entry[g][i].locks[k] \in Paths /\ i # 0
    BY <1>7, OwnLockPaths
  <2> QED BY <1>4, <2>1
<1>8. ASSUME NEW g \in Sessions, NEW i \in Runnable(g), cmd'[g][i].st \in Alive
      PROVE  /\ cmd'[g][i].got <= Len(entry[g][i].locks)
             /\ cmd'[g][i].st \in {"running", "daemon"} => cmd'[g][i].got = Len(entry[g][i].locks)
             /\ \A k \in 1 .. cmd'[g][i].got : open'[entry[g][i].locks[k]] = {<<g, i>>}
  <2>1. i \in DOMAIN entry[g] /\ Len(entry[g][i].locks) \in Nat
    BY CommandTypes DEF TypeOK
  <2>2. CASE g = h /\ i = at[h]
    BY <1>3, <2>1, <2>2
  <2>3. CASE ~ (g = h /\ i = at[h])
    BY <1>3, <1>7, <1>8, <2>1, <2>3 DEF OwnLocksInv, Runs, HasLocks
  <2> QED BY <2>2, <2>3
<1>9. OwnLocksInv'
  BY <1>1, <1>8 DEF OwnLocksInv, Runnable, Runs, HasLocks
<1> QED BY <1>6, <1>9

LEMMA HandlerHolders ==
    ASSUME TypeOK, ControlInv, HoldersInv, OwnLocksInv, NEW h \in Sessions,
           HandlerStep(h) \/ DialogDecided(h) \/ RelayBroken(h)
    PROVE  HoldersInv' /\ OwnLocksInv'
<1>1. NextItem(h) => \A g \in Sessions : pc[g] # "over" => pc'[g] # "over"
  BY DEF NextItem, TypeOK
<1>2. \A s \in {"flock", "unlimited", "relay", "end"} : Goto(h, s) =>
        \A g \in Sessions : pc[g] # "over" => pc'[g] # "over"
  BY DEF Goto, TypeOK
<1>3. CASE Requirement(h) \/ RequireArgLen(h) \/ LockOpens(h) \/ AlarmTooEarly(h) \/ LockTimesOut(h)
  BY <1>1, <1>2, <1>3, QuietHolders DEF Requirement, RequireArgLen, LockOpens, AlarmTooEarly, LockTimesOut
<1>4. CASE ChUser(h) \/ ChGrp(h) \/ End(h)
  BY <1>1, <1>4, QuietHolders, HandlerExitHolders DEF ChUser, ChGrp, End
<1>5. CASE RunOverlong(h) \/ SpawnFails(h) \/ DialogDecided(h) \/ DialogOver(h) \/ RelayEnds(h) \/ RelayBroken(h)
  BY <1>1, <1>2, <1>5, QuietHolders DEF RunOverlong, SpawnFails, DialogDecided, DialogOver, RelayEnds, RelayBroken
<1> QED BY <1>3, <1>4, <1>5, LockTakenHolders, SpawnHolders DEF HandlerStep

-------------------------------------------------------------------------------

\* A command takes its next lock file, which nobody has open.
LEMMA CommandLocksHolders ==
    ASSUME TypeOK, ControlInv, HoldersInv, OwnLocksInv, NEW h \in Sessions, NEW i \in Runnable(h),
           CommandLocks(h, i)
    PROVE  HoldersInv' /\ OwnLocksInv'
<1>1. /\ i \in DOMAIN entry[h] /\ i \in Nat \ {0} /\ cmd[h][i].st = "setup"
      /\ cmd[h][i].got \in Nat /\ Len(entry[h][i].locks) \in Nat
      /\ cmd[h][i].got < Len(entry[h][i].locks)
      /\ UNCHANGED <<entry, pc>>
  BY OwnLockPaths DEF CommandLocks, InSetup, HasLocks, OwnLocksInv, Alive, handlerVars
<1>2. Wants(h, i) \in Paths
  <2>1. entry \in Setups
    BY DEF TypeOK
  <2>2. \A k \in 1 .. Len(entry[h][i].locks) : entry[h][i].locks[k] \in Paths
    BY <2>1, CommandTypes
  <2>3. cmd[h][i].got + 1 \in 1 .. Len(entry[h][i].locks)
    BY <1>1, SMTT(40)
  <2> QED BY <2>2, <2>3 DEF Wants
<1>3. open[Wants(h, i)] = {} /\ \A p \in Paths : open'[p] = IF p = Wants(h, i) THEN {<<h, i>>} ELSE open[p]
  BY <1>2 DEF CommandLocks, TypeOK
<1>4. \A g \in Sessions : \A j \in DOMAIN entry[g] :
        /\ cmd'[g][j].st = cmd[g][j].st
        /\ cmd'[g][j].got = IF g = h /\ j = i THEN cmd[g][j].got + 1 ELSE cmd[g][j].got
  <2> DEFINE e == [cmd[h][i] EXCEPT !.got = @ + 1]
  <2>1. e.st = cmd[h][i].st /\ e.got = cmd[h][i].got + 1
    BY <1>1 DEF TypeOK
  <2>2. cmd' = [cmd EXCEPT ![h][i] = e]
    BY DEF CommandLocks
  <2>3. \A g \in Sessions : \A j \in DOMAIN entry[g] :
          cmd'[g][j] = IF g = h /\ j = i THEN e ELSE cmd[g][j]
    BY <1>1, <2>2, CmdUpdate
  <2> QED BY <2>1, <2>3
<1>5. HoldersInv'
  <2>1. ASSUME NEW p \in Paths, NEW x \in open'[p]
        PROVE  /\ x[2] = 0 \/ x[2] \in DOMAIN entry'[x[1]]
               /\ ProcessAlive(x)'
               /\ \A y \in open'[p] : x[1] = y[1]
    <3>1. CASE p = Wants(h, i)
      BY <1>1, <1>3, <1>4, <3>1 DEF ProcessAlive, Alive
    <3>2. CASE p # Wants(h, i)
      <4>1. x \in open[p] /\ x \in Sessions \X Nat /\ open'[p] = open[p]
        BY <1>3, <3>2 DEF TypeOK
      <4> QED BY <1>1, <1>4, <4>1 DEF HoldersInv, ProcessAlive
    <3> QED BY <3>1, <3>2
  <2> QED BY <2>1 DEF HoldersInv
<1>6. ASSUME NEW g \in Sessions, NEW j \in Runnable(g), cmd'[g][j].st \in Alive
      PROVE  /\ cmd'[g][j].got <= Len(entry[g][j].locks)
             /\ cmd'[g][j].st \in {"running", "daemon"} => cmd'[g][j].got = Len(entry[g][j].locks)
             /\ \A k \in 1 .. cmd'[g][j].got : open'[entry[g][j].locks[k]] = {<<g, j>>}
  <2>1. /\ j \in DOMAIN entry[g] /\ cmd[g][j].st \in Alive /\ cmd[g][j].got \in Nat
        /\ Len(entry[g][j].locks) \in Nat /\ cmd[g][j].got <= Len(entry[g][j].locks)
        /\ cmd[g][j].st \in {"running", "daemon"} => cmd[g][j].got = Len(entry[g][j].locks)
    BY <1>4, <1>6, OwnLockPaths DEF Runnable, OwnLocksInv, Runs, HasLocks
  <2>2. ASSUME NEW k \in 1 .. cmd[g][j].got PROVE open'[entry[g][j].locks[k]] = {<<g, j>>}
    <3>1. open[entry[g][j].locks[k]] = {<<g, j>>} /\ entry[g][j].locks[k] \in Paths
      BY <2>1, OwnLockPaths
    <3> QED BY <1>3, <3>1
  <2>3. CASE g = h /\ j = i
    <3>1. /\ cmd'[h][i].st = "setup" /\ cmd'[h][i].got = cmd[h][i].got + 1
      BY <1>1, <1>4, SMTT(40)
    <3>2. open'[entry[h][i].locks[cmd[h][i].got + 1]] = {<<h, i>>}
      BY <1>2, <1>3 DEF Wants
    <3>3. \A k \in 1 .. cmd'[h][i].got : k \in 1 .. cmd[h][i].got \/ k = cmd[h][i].got + 1
      BY <1>1, <3>1
    <3>4. ASSUME NEW k \in 1 .. cmd'[h][i].got PROVE open'[entry[h][i].locks[k]] = {<<h, i>>}
      <4>1. CASE k \in 1 .. cmd[h][i].got
        BY <2>2, <2>3, <4>1
      <4> QED BY <4>1, <3>2, <3>3
    <3>5. cmd'[h][i].got <= Len(entry[h][i].locks)
      BY <1>1, <3>1
    <3> QED BY <2>3, <3>1, <3>4, <3>5, SMTT(40)
  <2>4. CASE ~ (g = h /\ j = i)
    BY <1>4, <2>1, <2>2, <2>4
  <2> QED BY <2>3, <2>4
<1>7. OwnLocksInv'
  BY <1>1, <1>6 DEF OwnLocksInv, Runnable, Runs, HasLocks
<1> QED BY <1>5, <1>7

\* A command that ends closes what it has open.
LEMMA CommandGoneHolders ==
    ASSUME TypeOK, ControlInv, HoldersInv, OwnLocksInv, NEW h \in Sessions, NEW i \in Runnable(h),
           Becomes(h, i, "gone"), Closes(<<h, i>>), UNCHANGED <<entry, pc>>
    PROVE  HoldersInv' /\ OwnLocksInv'
<1>1. i \in DOMAIN entry[h] /\ i \in Nat \ {0}
  BY CommandTypes DEF TypeOK
<1>2. \A p \in Paths : open'[p] = open[p] \ {<<h, i>>}
  BY DEF Closes
<1>3. \A g \in Sessions : \A j \in DOMAIN entry[g] :
        /\ g = h /\ j = i => cmd'[g][j].st = "gone"
        /\ ~ (g = h /\ j = i) => cmd'[g][j] = cmd[g][j]
  <2> DEFINE e == [cmd[h][i] EXCEPT !.st = "gone"]
  <2>1. e.st = "gone"
    BY <1>1 DEF TypeOK
  <2>2. cmd' = [cmd EXCEPT ![h][i] = e]
    BY DEF Becomes
  <2>3. \A g \in Sessions : \A j \in DOMAIN entry[g] :
          cmd'[g][j] = IF g = h /\ j = i THEN e ELSE cmd[g][j]
    BY <1>1, <2>2, CmdUpdate
  <2> QED BY <2>1, <2>3
<1>4. ASSUME NEW p \in Paths, NEW x \in open'[p]
      PROVE  /\ x[2] = 0 \/ x[2] \in DOMAIN entry'[x[1]]
             /\ ProcessAlive(x)'
             /\ \A y \in open'[p] : x[1] = y[1]
  <2>1. x \in open[p] /\ x # <<h, i>> /\ x \in Sessions \X Nat
    BY <1>2 DEF TypeOK
  <2>2. ~ (x[1] = h /\ x[2] = i)
    BY <2>1
  <2> QED BY <1>2, <1>3, <2>1, <2>2 DEF HoldersInv, ProcessAlive
<1>5. ASSUME NEW g \in Sessions, NEW j \in Runnable(g), cmd'[g][j].st \in Alive
      PROVE  /\ cmd'[g][j] = cmd[g][j] /\ cmd[g][j].st \in Alive
             /\ \A k \in 1 .. cmd[g][j].got : open'[entry[g][j].locks[k]] = {<<g, j>>}
  <2>1. j \in DOMAIN entry[g] /\ ~ (g = h /\ j = i)
    BY <1>3, <1>5 DEF Runnable, Alive
  <2>2. cmd'[g][j] = cmd[g][j] /\ cmd[g][j].st \in Alive
    BY <1>3, <1>5, <2>1
  <2>3. ASSUME NEW k \in 1 .. cmd[g][j].got PROVE open'[entry[g][j].locks[k]] = {<<g, j>>}
    <3>1. open[entry[g][j].locks[k]] = {<<g, j>>} /\ entry[g][j].locks[k] \in Paths
      BY <2>2, OwnLockPaths
    <3> QED BY <1>2, <2>1, <3>1
  <2> QED BY <2>2, <2>3
<1>6. HoldersInv'
  BY <1>4 DEF HoldersInv
<1>7. OwnLocksInv'
  BY <1>5 DEF OwnLocksInv, Runnable, Runs, HasLocks
<1> QED BY <1>6, <1>7

\* A command that goes on keeps its lock files.
LEMMA CommandGoesOnHolders ==
    ASSUME TypeOK, ControlInv, HoldersInv, OwnLocksInv, NEW h \in Sessions, NEW i \in Runnable(h),
           CommandRuns(h, i) \/ CommandDetaches(h, i) \/ CommandActs(h, i)
    PROVE  HoldersInv' /\ OwnLocksInv'
<1>1. i \in DOMAIN entry[h] /\ UNCHANGED <<entry, open, pc>> /\ cmd[h][i].st \in Alive
  BY DEF Runnable, CommandRuns, CommandDetaches, CommandActs, handlerVars, InSetup, Runs, Alive
<1>2. \A g \in Sessions : \A j \in DOMAIN entry[g] :
        /\ cmd'[g][j].got = cmd[g][j].got
        /\ g = h /\ j = i => cmd'[g][j].st \in Alive
        /\ ~ (g = h /\ j = i) => cmd'[g][j].st = cmd[g][j].st
  <2>1. CASE CommandActs(h, i)
    BY <1>1, <2>1 DEF CommandActs
  <2>2. CASE CommandRuns(h, i)
    <3> DEFINE e == [cmd[h][i] EXCEPT !.st = "running", !.uid = NewUid(h, i), !.gid = NewGid(h, i)]
    <3>1. e.st \in Alive /\ e.got = cmd[h][i].got
      BY <1>1 DEF TypeOK, Alive
    <3>2. cmd' = [cmd EXCEPT ![h][i] = e]
      BY <2>2 DEF CommandRuns
    <3>3. \A g \in Sessions : \A j \in DOMAIN entry[g] :
            cmd'[g][j] = IF g = h /\ j = i THEN e ELSE cmd[g][j]
      BY <1>1, <3>2, CmdUpdate
    <3> QED BY <3>1, <3>3, ZenonT(40)
  <2>3. CASE CommandDetaches(h, i)
    <3> DEFINE e == [cmd[h][i] EXCEPT !.st = "daemon"]
    <3>1. e.st \in Alive /\ e.got = cmd[h][i].got
      BY <1>1 DEF TypeOK, Alive
    <3>2. cmd' = [cmd EXCEPT ![h][i] = e]
      BY <2>3 DEF CommandDetaches, Becomes
    <3>3. \A g \in Sessions : \A j \in DOMAIN entry[g] :
            cmd'[g][j] = IF g = h /\ j = i THEN e ELSE cmd[g][j]
      BY <1>1, <3>2, CmdUpdate
    <3> QED BY <3>1, <3>3
  <2> QED BY <2>1, <2>2, <2>3
<1>3. cmd[h][i].got = Len(entry[h][i].locks)
  BY <1>1 DEF CommandRuns, CommandDetaches, CommandActs, HasLocks, OwnLocksInv, Runs
<1>4. HoldersInv'
  <2>1. ASSUME NEW p \in Paths, NEW x \in open[p] PROVE ProcessAlive(x)'
    <3>1. x \in Sessions \X Nat /\ (x[2] = 0 \/ x[2] \in DOMAIN entry[x[1]]) /\ ProcessAlive(x)
      BY DEF TypeOK, HoldersInv
    <3> QED BY <1>1, <1>2, <3>1 DEF ProcessAlive
  <2> QED BY <1>1, <2>1 DEF HoldersInv
<1>5. OwnLocksInv'
  <2>1. ASSUME NEW g \in Sessions, NEW j \in Runnable(g), cmd'[g][j].st \in Alive
        PROVE  /\ cmd'[g][j].got <= Len(entry[g][j].locks)
               /\ cmd'[g][j].st \in {"running", "daemon"} => cmd'[g][j].got = Len(entry[g][j].locks)
               /\ \A k \in 1 .. cmd'[g][j].got : open[entry[g][j].locks[k]] = {<<g, j>>}
    <3>1. j \in DOMAIN entry[g]
      BY DEF Runnable
    <3> QED BY <1>1, <1>2, <1>3, <2>1, <3>1 DEF OwnLocksInv, Runs, HasLocks
  <2> QED BY <1>1, <2>1 DEF OwnLocksInv, Runnable, Runs, HasLocks
<1> QED BY <1>4, <1>5

LEMMA NextHolders ==
    ASSUME TypeOK, ControlInv, HoldersInv, OwnLocksInv, [Next]_vars
    PROVE  HoldersInv' /\ OwnLocksInv'
<1>1. CASE UNCHANGED vars
  BY <1>1, QuietHolders DEF vars, handlerVars
<1>2. ASSUME NEW h \in Sessions, NEW i \in Runnable(h),
             SetupStep(h, i) \/ CommandExits(h, i) \/ CommandActs(h, i) \/ CommandDetaches(h, i)
      PROVE  HoldersInv' /\ OwnLocksInv'
  BY <1>2, CommandLocksHolders, CommandGoneHolders, CommandGoesOnHolders
     DEF SetupStep, CommandLockFails, CommandRefused, CommandExits, handlerVars
<1> QED BY <1>1, <1>2, HandlerHolders DEF Next, CommandStep

LEMMA InitHolders == Init => HoldersInv /\ OwnLocksInv
BY DEF Init, HoldersInv, OwnLocksInv, Runnable, NoCommand, Alive

\* CreateLockFile, require lock and LockFile=: no lock file is ever held by two
\* sessions or by a process that is gone, and no command runs without holding
\* alone what its item says.
THEOREM LockFilesExclude == Spec => []LocksExclude
<1>1. TypeOK /\ HoldersInv /\ OwnLocksInv => LocksExclude
  <2> SUFFICES ASSUME TypeOK, HoldersInv, OwnLocksInv PROVE LocksExclude
    OBVIOUS
  <2>1. ASSUME NEW h \in Sessions, NEW i \in Runnable(h), Runs(h, i), NEW k \in DOMAIN entry[h][i].locks
        PROVE  open[entry[h][i].locks[k]] = {<<h, i>>}
    <3>1. k \in 1 .. cmd[h][i].got
      <4>1. entry \in Setups
        BY DEF TypeOK
      <4>2. DOMAIN entry[h][i].locks = 1 .. Len(entry[h][i].locks)
        BY <4>1, CommandTypes
      <4>3. cmd[h][i].got = Len(entry[h][i].locks)
        BY <2>1 DEF OwnLocksInv, Runs, HasLocks, Alive
      <4> QED BY <4>2, <4>3
    <3> QED BY <2>1, <3>1 DEF OwnLocksInv, Runs, Alive
  <2> QED BY <2>1 DEF LocksExclude, HoldersInv
<1> QED BY <1>1, InitTypes, NextTypes, InitHolders, NextHolders, PTL DEF Spec

-------------------------------------------------------------------------------
(* Users and groups. *)

\* The user and the group of a handler are those of the last change before the
\* item in hand, and a command begins with its handler's.
CredentialsInv ==
    \A h \in Sessions :
        /\ uid[h] = LastChange(entry[h], at[h], "chuser")
        /\ gid[h] = LastChange(entry[h], at[h], "chgrp")
        /\ \A i \in Runnable(h) : InSetup(h, i) =>
             cmd[h][i].uid = LastChange(entry[h], i, "chuser") /\ cmd[h][i].gid = LastChange(entry[h], i, "chgrp")

\* The last change before the next item.
LEMMA LastChangeStep ==
    ASSUME NEW items, NEW i \in Nat \ {0}, NEW op
    PROVE  LastChange(items, i + 1, op) =
             IF items[i].op = op /\ items[i].to \in Known
               THEN items[i].to ELSE LastChange(items, i, op)
<1> DEFINE changes(n) == {j \in 1 .. n - 1 : items[j].op = op /\ items[j].to \in Known}
           last(S) == CHOOSE j \in S : \A k \in S : k <= j
<1>1. \A n : LastChange(items, n, op) = IF changes(n) = {} THEN Root ELSE items[last(changes(n))].to
  BY DEF LastChange
<1>2. \A j : j \in 1 .. (i + 1) - 1 <=> j \in 1 .. i - 1 \/ j = i
  OBVIOUS
<1>3. CASE items[i].op = op /\ items[i].to \in Known
  <2>1. i \in changes(i + 1) /\ \A k \in changes(i + 1) : k \in Nat /\ k <= i
    BY <1>3
  <2>2. last(changes(i + 1)) = i
    <3> HIDE DEF changes
    <3>1. last(changes(i + 1)) \in changes(i + 1) /\ \A k \in changes(i + 1) : k <= last(changes(i + 1))
      BY <2>1
    <3>2. last(changes(i + 1)) \in Nat /\ last(changes(i + 1)) <= i /\ i <= last(changes(i + 1))
      BY <2>1, <3>1
    <3> QED BY <3>2
  <2> HIDE DEF changes, last
  <2> QED BY <1>1, <1>3, <2>1, <2>2
<1>4. CASE ~ (items[i].op = op /\ items[i].to \in Known)
  <2>1. changes(i + 1) = changes(i)
    BY <1>2, <1>4
  <2> HIDE DEF changes, last
  <2> QED BY <1>1, <1>4, <2>1
<1> QED BY <1>3, <1>4

\* The handler goes on to the next item, after a change or without one.
LEMMA NextItemCredentials ==
    ASSUME TypeOK, ControlInv, CredentialsInv, NEW h \in Sessions, NextItem(h), UNCHANGED <<entry, cmd>>,
           uid' = [uid EXCEPT ![h] = IF Item(h).op = "chuser" /\ Item(h).to \in Known THEN Item(h).to ELSE uid[h]],
           gid' = [gid EXCEPT ![h] = IF Item(h).op = "chgrp" /\ Item(h).to \in Known THEN Item(h).to ELSE gid[h]]
    PROVE  CredentialsInv'
<1>1. /\ at[h] \in Nat \ {0} /\ at'[h] = at[h] + 1
      /\ \A g \in Sessions \ {h} : at'[g] = at[g] /\ uid'[g] = uid[g] /\ gid'[g] = gid[g]
  BY DEF NextItem, TypeOK
<1>2. /\ uid'[h] = LastChange(entry[h], at[h] + 1, "chuser")
      /\ gid'[h] = LastChange(entry[h], at[h] + 1, "chgrp")
  BY <1>1, LastChangeStep DEF CredentialsInv, TypeOK, Item
<1> QED BY <1>1, <1>2 DEF CredentialsInv, Runnable, InSetup

LEMMA HandlerCredentials ==
    ASSUME TypeOK, ControlInv, CredentialsInv, NEW h \in Sessions,
           HandlerStep(h) \/ DialogDecided(h) \/ RelayBroken(h)
    PROVE  CredentialsInv'
<1>1. UNCHANGED <<entry, at, uid, gid, cmd>> => CredentialsInv'
  BY DEF CredentialsInv, Runnable, InSetup
<1>2. ASSUME NextItem(h), UNCHANGED <<entry, uid, gid, cmd>>, Item(h).op \notin {"chuser", "chgrp"}
      PROVE  CredentialsInv'
  BY <1>2, NextItemCredentials DEF TypeOK
<1>3. CASE Requirement(h) \/ RequireArgLen(h) \/ LockOpens(h) \/ RunOverlong(h) \/ SpawnFails(h)
  BY <1>1, <1>2, <1>3 DEF Requirement, RequireArgLen, LockOpens, RunOverlong, SpawnFails, AtItem, Goto
<1>4. CASE AlarmTooEarly(h) \/ LockTaken(h) \/ LockTimesOut(h)
  BY <1>1, <1>2, <1>4 DEF AlarmTooEarly, LockTaken, LockTimesOut, ControlInv, Goto
<1>5. CASE ChUser(h)
  <2>1. CASE Item(h).to \in Known /\ uid' = [uid EXCEPT ![h] = Item(h).to] /\ NextItem(h)
    BY <1>5, <2>1, NextItemCredentials DEF ChUser, AtItem, TypeOK
  <2>2. CASE Item(h).to \notin Known /\ uid' = uid /\ NextItem(h)
    BY <1>5, <2>2, NextItemCredentials DEF ChUser, AtItem, TypeOK
  <2> QED BY <1>1, <1>5, <2>1, <2>2 DEF ChUser, Exit, Goto
<1>6. CASE ChGrp(h)
  <2>1. CASE Item(h).to \in Known /\ gid' = [gid EXCEPT ![h] = Item(h).to] /\ NextItem(h)
    BY <1>6, <2>1, NextItemCredentials DEF ChGrp, AtItem, TypeOK
  <2>2. CASE Item(h).to \notin Known /\ gid' = gid /\ NextItem(h)
    BY <1>6, <2>2, NextItemCredentials DEF ChGrp, AtItem, TypeOK
  <2> QED BY <1>1, <1>6, <2>1, <2>2 DEF ChGrp, Exit, Goto
<1>7. CASE Spawn(h)
  <2> DEFINE e == [cmd[h][at[h]] EXCEPT !.st = "setup", !.uid = uid[h], !.gid = gid[h]]
  <2>1. at[h] \in DOMAIN entry[h] /\ UNCHANGED <<entry, at, uid, gid>> /\ cmd' = [cmd EXCEPT ![h][at[h]] = e]
    BY <1>7, ItemTypes DEF Spawn, AtItem, Goto, TypeOK
  <2>2. e.uid = uid[h] /\ e.gid = gid[h]
    BY <2>1 DEF TypeOK
  <2>3. \A g \in Sessions : \A j \in DOMAIN entry[g] :
          cmd'[g][j] = IF g = h /\ j = at[h] THEN e ELSE cmd[g][j]
    BY <2>1, CmdUpdate
  <2> HIDE DEF e
  <2> QED BY <2>1, <2>2, <2>3 DEF CredentialsInv, Runnable, InSetup
<1>8. CASE DialogDecided(h) \/ DialogOver(h) \/ RelayEnds(h) \/ RelayBroken(h) \/ End(h)
  BY <1>1, <1>2, <1>8 DEF DialogDecided, DialogOver, RelayEnds, RelayBroken, End, Exit, ControlInv, Goto
<1> QED BY <1>3, <1>4, <1>5, <1>6, <1>7, <1>8 DEF HandlerStep

\* Setting up, user= and group= are applied to what the handler left.
LEMMA CommandCredentials ==
    ASSUME TypeOK, ControlInv, CredentialsInv, CredentialsFromItems, NEW h \in Sessions, NEW i \in Runnable(h),
           SetupStep(h, i) \/ CommandExits(h, i) \/ CommandActs(h, i) \/ CommandDetaches(h, i)
    PROVE  CredentialsInv' /\ CredentialsFromItems'
<1>1. i \in DOMAIN entry[h] /\ UNCHANGED <<entry, at, uid, gid>>
  BY CommandMoves DEF handlerVars
<1>2. PICK e \in [st : {"gone"} \cup Alive, got : Nat, uid : Known, gid : Known] :
        \A g \in Sessions : \A j \in DOMAIN entry[g] :
          cmd'[g][j] = IF g = h /\ j = i THEN e ELSE cmd[g][j]
  BY CommandMoves
<1>3. cmd'[h][i] = e
  BY <1>1, <1>2
<1>4. DOMAIN cmd = Sessions /\ DOMAIN cmd[h] = DOMAIN entry[h]
      /\ cmd[h][i] \in [st : {"none", "gone"} \cup Alive, got : Nat, uid : Known, gid : Known]
  BY <1>1 DEF ControlInv, TypeOK
<1>5. CASE CommandRuns(h, i)
  <2>1. e.st = "running" /\ e.uid = NewUid(h, i) /\ e.gid = NewGid(h, i)
    BY <1>1, <1>3, <1>4, <1>5 DEF CommandRuns
  <2>2. /\ cmd[h][i].uid = LastChange(entry[h], i, "chuser")
        /\ cmd[h][i].gid = LastChange(entry[h], i, "chgrp")
    BY <1>5 DEF CommandRuns, CredentialsInv
  <2> QED BY <1>1, <1>2, <2>1, <2>2 DEF CredentialsInv, CredentialsFromItems, Runnable, InSetup, Runs, NewUid, NewGid, Counts
<1>6. CASE CommandLocks(h, i)
  <2>1. e.st = "setup" /\ cmd[h][i].st = "setup" /\ e.uid = cmd[h][i].uid /\ e.gid = cmd[h][i].gid
    BY <1>1, <1>3, <1>4, <1>6 DEF CommandLocks, InSetup
  <2> QED BY <1>1, <1>2, <2>1 DEF CredentialsInv, CredentialsFromItems, Runnable, InSetup, Runs
<1>7. CASE CommandDetaches(h, i)
  <2>1. e.st = "daemon" /\ cmd[h][i].st = "running" /\ e.uid = cmd[h][i].uid /\ e.gid = cmd[h][i].gid
    BY <1>1, <1>3, <1>4, <1>7 DEF CommandDetaches, Becomes
  <2> QED BY <1>1, <1>2, <2>1 DEF CredentialsInv, CredentialsFromItems, Runnable, InSetup, Runs
<1>8. CASE CommandActs(h, i)
  <2>1. cmd' = cmd
    BY <1>8 DEF CommandActs
  <2> QED BY <1>1, <2>1 DEF CredentialsInv, CredentialsFromItems, Runnable, InSetup, Runs
<1>9. CASE CommandLockFails(h, i) \/ CommandRefused(h, i) \/ CommandExits(h, i)
  <2>1. e.st = "gone"
    BY <1>1, <1>3, <1>4, <1>9 DEF CommandLockFails, CommandRefused, CommandExits, Becomes
  <2> QED BY <1>1, <1>2, <2>1 DEF CredentialsInv, CredentialsFromItems, Runnable, InSetup, Runs
<1> QED BY <1>5, <1>6, <1>7, <1>8, <1>9 DEF SetupStep

\* Steps of handlers leave running commands as they are.
LEMMA HandlerLeavesRunning ==
    ASSUME TypeOK, ControlInv, CredentialsFromItems, NEW h \in Sessions,
           HandlerStep(h) \/ DialogDecided(h) \/ RelayBroken(h)
    PROVE  CredentialsFromItems'
<1>1. CASE Spawn(h)
  <2> DEFINE e == [cmd[h][at[h]] EXCEPT !.st = "setup", !.uid = uid[h], !.gid = gid[h]]
  <2>1. at[h] \in DOMAIN entry[h] /\ UNCHANGED entry /\ cmd' = [cmd EXCEPT ![h][at[h]] = e]
    BY <1>1, ItemTypes DEF Spawn, AtItem, TypeOK
  <2>2. e.st = "setup"
    BY <2>1 DEF TypeOK
  <2>3. \A g \in Sessions : \A j \in DOMAIN entry[g] :
          cmd'[g][j] = IF g = h /\ j = at[h] THEN e ELSE cmd[g][j]
    BY <2>1, CmdUpdate
  <2> HIDE DEF e
  <2> QED BY <2>1, <2>2, <2>3 DEF CredentialsFromItems, Runnable, Runs
<1>2. CASE ~ Spawn(h)
  <2>1. UNCHANGED <<entry, cmd>>
    BY <1>2 DEF HandlerStep, Requirement, RequireArgLen, LockOpens, AlarmTooEarly, LockTaken, LockTimesOut,
       ChUser, ChGrp, RunOverlong, SpawnFails, DialogDecided, DialogOver, RelayEnds, RelayBroken, End
  <2> QED BY <2>1 DEF CredentialsFromItems, Runnable, Runs
<1> QED BY <1>1, <1>2

LEMMA NextCredentials ==
    ASSUME TypeOK, ControlInv, CredentialsInv, CredentialsFromItems, [Next]_vars
    PROVE  CredentialsInv' /\ CredentialsFromItems'
<1>1. CASE UNCHANGED vars
  BY <1>1 DEF vars, handlerVars, CredentialsInv, CredentialsFromItems, Runnable, InSetup, Runs
<1> QED BY <1>1, HandlerCredentials, HandlerLeavesRunning, CommandCredentials DEF Next, CommandStep

LEMMA InitCredentials == Init => CredentialsInv /\ CredentialsFromItems
<1> SUFFICES ASSUME Init PROVE CredentialsInv /\ CredentialsFromItems
  OBVIOUS
<1>1. \A items, op : LastChange(items, 1, op) = Root
  BY DEF LastChange
<1> QED BY <1>1 DEF Init, CredentialsInv, CredentialsFromItems, Runnable, InSetup, Runs, NoCommand

\* SwitchUser, SwitchGroup and ProcessApplyConfig: a command runs as the user= and
\* group= of its item that have an id above 0, and else, root's included, as the
\* last chuser and chgrp that name a known one, in every order of changes, refusals
\* and failures, and whatever other sessions do.
THEOREM ItemsDecideCredentials == Spec => []CredentialsFromItems
BY InitTypes, NextTypes, InitCredentials, NextCredentials, PTL DEF Spec

-------------------------------------------------------------------------------
(* What was required under a lock is still so. *)

Checks == {"absent", "exists", "directory"}

\* Unless a handler went on without a lock, it has every lock file open that it
\* required, and so have the commands it started after that.
HeldInv ==
    lost = {} => \A h \in Sessions : \A j \in DOMAIN entry[h] : entry[h][j].op = "lock" =>
        /\ pc[h] # "over" /\ j < at[h] => <<h, 0>> \in open[entry[h][j].path]
        /\ \A i \in Runnable(h) : j < i /\ cmd[h][i].st \in Alive => <<h, i>> \in open[entry[h][j].path]

\* Some process of the session relies on its item k.
Past(h, k) ==
    \/ pc[h] # "over" /\ k < at[h]
    \/ \E i \in Runnable(h) : k < i /\ cmd[h][i].st \in Alive

\* A requirement that was checked under the lock that keeps it holds as long as a
\* process of the session relies on it, unless a command of the session has run
\* that changes it.
ChecksInv ==
    lost = {} => \A h \in Sessions : \A j, k \in DOMAIN entry[h] :
        /\ j < k
        /\ entry[h][j].op = "lock"
        /\ entry[h][k].op \in Checks
        /\ Keeps(entry[h][j].path, entry[h][k].path)
        /\ Past(h, k)
        => Changed(h, entry[h][k].path) \/ Holds(entry[h][k])

-------------------------------------------------------------------------------

\* Nobody who has a lock file open loses it but by its end.
LEMMA HandlerHeld ==
    ASSUME TypeOK, ControlInv, HeldInv, NEW h \in Sessions,
           HandlerStep(h) \/ DialogDecided(h) \/ RelayBroken(h)
    PROVE  HeldInv'
<1>1. /\ entry \in Setups /\ DOMAIN entry[h] = 1 .. Len(entry[h])
      /\ Len(entry[h]) \in Nat /\ at[h] \in Nat \ {0}
  BY ItemTypes DEF TypeOK
<1>2. ASSUME NEW g \in Sessions, NEW j \in DOMAIN entry[g], entry[g][j].op = "lock"
      PROVE  entry[g][j].path \in Paths
  BY <1>1, <1>2, ItemTypes
<1>3. ASSUME NextItem(h), UNCHANGED <<entry, open, cmd, lost>>, Item(h).op # "lock"
      PROVE  HeldInv'
  <2>1. \A g \in Sessions : \A j \in DOMAIN entry[g] :
          entry[g][j].op = "lock" /\ pc'[g] # "over" /\ j < at'[g] => pc[g] # "over" /\ j < at[g]
    <3>1. ASSUME pc[h] = "over" PROVE FALSE
      BY <1>3, <3>1 DEF HandlerStep, Requirement, RequireArgLen, LockOpens, AlarmTooEarly, LockTaken, LockTimesOut,
         ChUser, ChGrp, RunOverlong, SpawnFails, Spawn, DialogDecided, DialogOver, RelayEnds, RelayBroken, End, AtItem
    <3>2. at'[h] = at[h] + 1 /\ \A g \in Sessions \ {h} : pc'[g] = pc[g] /\ at'[g] = at[g]
      BY <1>3 DEF NextItem, TypeOK
    <3> QED BY <1>1, <1>3, <3>1, <3>2 DEF Item
  <2> QED BY <1>3, <2>1 DEF HeldInv, Runnable
<1>4. ASSUME NEW s, Goto(h, s), pc[h] # "over", UNCHANGED <<entry, open, cmd, lost>>
      PROVE  HeldInv'
  <2>1. at' = at /\ \A g \in Sessions : pc'[g] # "over" => pc[g] # "over"
    BY <1>4 DEF Goto, TypeOK
  <2> QED BY <1>4, <2>1 DEF HeldInv, Runnable
<1>5. ASSUME Exit(h), UNCHANGED <<entry, cmd, lost>>
      PROVE  HeldInv'
  <2>1. /\ at' = at /\ pc'[h] = "over" /\ \A g \in Sessions \ {h} : pc'[g] = pc[g]
        /\ \A p \in Paths : open'[p] = open[p] \ {<<h, 0>>}
    BY <1>5 DEF Exit, Goto, Closes, TypeOK
  <2>2. \A g \in Sessions : \A i \in Runnable(g) : <<g, i>> # <<h, 0>>
    BY <1>1, CommandTypes
  <2> QED BY <1>2, <1>5, <2>1, <2>2 DEF HeldInv, Runnable
<1>6. lost' # {} => HeldInv'
  BY DEF HeldInv
<1>7. CASE LockTaken(h)
  <2>1. at[h] \in DOMAIN entry[h] /\ Item(h).op = "lock" /\ Item(h).path \in Paths /\ pc[h] # "over"
    BY <1>2, <1>7 DEF LockTaken, ControlInv, Item
  <2>2. /\ \A p \in Paths : open'[p] = IF p = Item(h).path THEN {<<h, 0>>} ELSE open[p]
        /\ open[Item(h).path] = {} /\ UNCHANGED <<entry, cmd, lost>>
        /\ at'[h] = at[h] + 1 /\ \A g \in Sessions \ {h} : pc'[g] = pc[g] /\ at'[g] = at[g]
    BY <1>7, <2>1 DEF LockTaken, NextItem, TypeOK
  <2>3. \A p \in Paths : open[p] \subseteq open'[p]
    BY <2>2
  <2>4. ASSUME NEW g \in Sessions, NEW j \in DOMAIN entry[g], entry[g][j].op = "lock",
               pc'[g] # "over", j < at'[g], lost = {}
        PROVE  <<g, 0>> \in open'[entry[g][j].path]
    <3>1. CASE g = h /\ j = at[h]
      BY <2>1, <2>2, <3>1 DEF Item
    <3>2. CASE ~ (g = h /\ j = at[h])
      <4>1. pc[g] # "over" /\ j < at[g]
        BY <1>1, <2>1, <2>2, <2>4, <3>2
      <4> QED BY <1>2, <2>3, <2>4, <4>1 DEF HeldInv
    <3> QED BY <3>1, <3>2
  <2> QED BY <1>2, <2>2, <2>3, <2>4 DEF HeldInv, Runnable
<1>8. CASE Spawn(h)
  <2> DEFINE e == [cmd[h][at[h]] EXCEPT !.st = "setup", !.uid = uid[h], !.gid = gid[h]]
  <2>1. /\ at[h] \in DOMAIN entry[h] /\ UNCHANGED <<entry, at, lost>> /\ cmd' = [cmd EXCEPT ![h][at[h]] = e]
        /\ pc[h] # "over" /\ \A g \in Sessions : pc'[g] # "over" => pc[g] # "over"
        /\ \A p \in Paths : open'[p] = IF <<h, 0>> \in open[p] THEN open[p] \cup {<<h, at[h]>>} ELSE open[p]
    BY <1>1, <1>8 DEF Spawn, AtItem, Goto, TypeOK
  <2>2. \A g \in Sessions : \A j \in DOMAIN entry[g] :
          cmd'[g][j] = IF g = h /\ j = at[h] THEN e ELSE cmd[g][j]
    BY <2>1, CmdUpdate
  <2>3. \A p \in Paths : open[p] \subseteq open'[p]
    BY <2>1
  <2> HIDE DEF e
  <2>4. ASSUME NEW g \in Sessions, NEW j \in DOMAIN entry[g], entry[g][j].op = "lock", lost = {},
               NEW i \in Runnable(g), j < i, cmd'[g][i].st \in Alive
        PROVE  <<g, i>> \in open'[entry[g][j].path]
    <3>1. CASE g = h /\ i = at[h]
      <4>1. <<h, 0>> \in open[entry[h][j].path]
        BY <2>1, <2>4, <3>1 DEF HeldInv
      <4> QED BY <1>2, <2>1, <2>4, <3>1, <4>1
    <3>2. CASE ~ (g = h /\ i = at[h])
      BY <1>2, <2>2, <2>3, <2>4, <3>2 DEF HeldInv, Runnable
    <3> QED BY <3>1, <3>2
  <2> QED BY <1>2, <2>1, <2>3, <2>4 DEF HeldInv, Runnable
<1>9. CASE Requirement(h) \/ RequireArgLen(h) \/ RunOverlong(h) \/ SpawnFails(h)
  BY <1>3, <1>4, <1>9 DEF Requirement, RequireArgLen, RunOverlong, SpawnFails, AtItem
<1>10. CASE LockOpens(h) \/ AlarmTooEarly(h) \/ LockTimesOut(h)
  BY <1>4, <1>6, <1>10 DEF LockOpens, AlarmTooEarly, LockTimesOut, AtItem
<1>11. CASE ChUser(h) \/ ChGrp(h) \/ End(h)
  BY <1>3, <1>5, <1>11 DEF ChUser, ChGrp, End, AtItem
<1>12. CASE DialogDecided(h) \/ DialogOver(h) \/ RelayEnds(h) \/ RelayBroken(h)
  BY <1>3, <1>4, <1>12 DEF DialogDecided, DialogOver, RelayEnds, RelayBroken, ControlInv
<1> QED BY <1>7, <1>8, <1>9, <1>10, <1>11, <1>12 DEF HandlerStep

LEMMA CommandHeld ==
    ASSUME TypeOK, ControlInv, HeldInv, NEW h \in Sessions, NEW i \in Runnable(h),
           SetupStep(h, i) \/ CommandExits(h, i) \/ CommandActs(h, i) \/ CommandDetaches(h, i)
    PROVE  HeldInv'
<1>1. i \in DOMAIN entry[h] /\ i # 0 /\ UNCHANGED <<entry, pc, at, lost>>
  BY CommandMoves, CommandTypes DEF handlerVars, TypeOK
<1>2. PICK e \in [st : {"gone"} \cup Alive, got : Nat, uid : Known, gid : Known] :
        \A g \in Sessions : \A j \in DOMAIN entry[g] :
          cmd'[g][j] = IF g = h /\ j = i THEN e ELSE cmd[g][j]
  BY CommandMoves
<1>3. cmd'[h][i] = e
  BY <1>1, <1>2
<1>4. cmd[h][i].st \in Alive
  BY DEF SetupStep, CommandLocks, CommandLockFails, CommandRuns, CommandRefused, InSetup,
         CommandExits, CommandActs, CommandDetaches, Runs, Alive
<1>5. ASSUME NEW g \in Sessions, NEW j \in DOMAIN entry[g], entry[g][j].op = "lock"
      PROVE  entry[g][j].path \in Paths
  BY <1>5, ItemTypes DEF TypeOK
<1>6. CASE CommandLocks(h, i) \/ CommandRuns(h, i) \/ CommandActs(h, i) \/ CommandDetaches(h, i)
  <2>1. \A p \in Paths : open[p] \subseteq open'[p]
    BY <1>6 DEF CommandLocks, CommandRuns, CommandActs, CommandDetaches, TypeOK
  <2>2. \A g \in Sessions : \A j \in Runnable(g) : cmd'[g][j].st \in Alive => cmd[g][j].st \in Alive
    BY <1>2, <1>4 DEF Runnable
  <2> QED BY <1>1, <1>5, <2>1, <2>2 DEF HeldInv, Runnable
<1>7. CASE CommandLockFails(h, i) \/ CommandRefused(h, i) \/ CommandExits(h, i)
  <2>1. DOMAIN cmd = Sessions /\ DOMAIN cmd[h] = DOMAIN entry[h]
        /\ cmd[h][i] \in [st : {"none", "gone"} \cup Alive, got : Nat, uid : Known, gid : Known]
    BY <1>1 DEF ControlInv, TypeOK
  <2>2. e.st = "gone"
    BY <1>1, <1>3, <1>7, <2>1 DEF CommandLockFails, CommandRefused, CommandExits, Becomes
  <2>3. \A p \in Paths : open'[p] = open[p] \ {<<h, i>>}
    BY <1>7 DEF CommandLockFails, CommandRefused, CommandExits, Closes
  <2>4. \A g \in Sessions : \A j \in Runnable(g) : cmd'[g][j].st \in Alive =>
          cmd[g][j].st \in Alive /\ <<g, j>> # <<h, i>>
    BY <1>2, <2>2 DEF Runnable, Alive
  <2> QED BY <1>1, <1>5, <2>3, <2>4 DEF HeldInv, Runnable
<1> QED BY <1>6, <1>7 DEF SetupStep

\* What a requirement says of the kind of its path.
LEMMA HoldsSays ==
    ASSUME NEW item, item.op \in Checks
    PROVE  /\ Holds(item) <=> \/ item.op = "absent" /\ kind[item.path] = "none"
                              \/ item.op = "exists" /\ kind[item.path] # "none"
                              \/ item.op = "directory" /\ kind[item.path] = "dir"
           /\ Holds(item)' <=> \/ item.op = "absent" /\ kind'[item.path] = "none"
                               \/ item.op = "exists" /\ kind'[item.path] # "none"
                               \/ item.op = "directory" /\ kind'[item.path] = "dir"
BY DEF Holds, Checks

\* A step spoils no requirement when nobody comes to rely on one that does not
\* hold, and only the session itself changes what it keeps.
LEMMA ChecksStay ==
    ASSUME TypeOK, ChecksInv, UNCHANGED entry, lost' = {} => lost = {},
           \A h \in Sessions : \A k \in DOMAIN entry[h] :
             entry[h][k].op \in Checks /\ Past(h, k)' => Past(h, k) \/ Holds(entry[h][k])',
           \A h \in Sessions : \A p \in Paths : Changed(h, p) => Changed(h, p)',
           \A h \in Sessions : \A j, k \in DOMAIN entry[h] :
             /\ lost = {} /\ j < k /\ entry[h][j].op = "lock" /\ entry[h][k].op \in Checks
             /\ Keeps(entry[h][j].path, entry[h][k].path) /\ Past(h, k)
             => kind'[entry[h][k].path] = kind[entry[h][k].path] \/ Changed(h, entry[h][k].path)'
    PROVE  ChecksInv'
<1>1. \A l, p : Keeps(l, p)' <=> Keeps(l, p)
  BY DEF Keeps
<1>2. SUFFICES ASSUME lost = {}, NEW h \in Sessions, NEW j \in DOMAIN entry[h], NEW k \in DOMAIN entry[h],
                      j < k, entry[h][j].op = "lock", entry[h][k].op \in Checks,
                      Keeps(entry[h][j].path, entry[h][k].path), Past(h, k)'
               PROVE  Changed(h, entry[h][k].path)' \/ Holds(entry[h][k])'
  BY <1>1 DEF ChecksInv, Checks
<1>3. entry[h][k].path \in Paths
  BY <1>2, ItemTypes DEF TypeOK, Checks
<1>4. CASE ~ Past(h, k)
  BY <1>2, <1>4
<1>5. CASE Past(h, k) /\ Changed(h, entry[h][k].path)
  BY <1>3, <1>5
<1>6. CASE Past(h, k) /\ Holds(entry[h][k])
  <2>1. kind'[entry[h][k].path] = kind[entry[h][k].path] \/ Changed(h, entry[h][k].path)'
    BY <1>2, <1>6
  <2> QED BY <1>2, <1>6, <2>1, HoldsSays
<1> QED BY <1>2, <1>4, <1>5, <1>6 DEF ChecksInv

LEMMA HandlerChecks ==
    ASSUME TypeOK, ControlInv, ChecksInv, NEW h \in Sessions,
           HandlerStep(h) \/ DialogDecided(h) \/ RelayBroken(h)
    PROVE  ChecksInv'
<1>1. /\ entry \in Setups /\ DOMAIN entry[h] = 1 .. Len(entry[h])
      /\ Len(entry[h]) \in Nat /\ at[h] \in Nat \ {0}
  BY ItemTypes DEF TypeOK
<1>2. UNCHANGED entry /\ lost \subseteq lost'
  BY DEF HandlerStep, Requirement, RequireArgLen, LockOpens, AlarmTooEarly, LockTaken, LockTimesOut,
     ChUser, ChGrp, RunOverlong, SpawnFails, Spawn, DialogDecided, DialogOver, RelayEnds, RelayBroken, End
<1>3. ASSUME UNCHANGED cmd
      PROVE  /\ \A g \in Sessions : \A p \in Paths : Changed(g, p) => Changed(g, p)'
             /\ \A g \in Sessions : \A k \in DOMAIN entry[g] :
                  Past(g, k)' => Past(g, k) \/ (g = h /\ NextItem(h) /\ k = at[h])
  <2>1. \A g \in Sessions : \A p \in Paths : Changed(g, p) => Changed(g, p)'
    BY <1>2, <1>3 DEF Changed, Runnable
  <2>2. \/ NextItem(h) /\ pc[h] # "over"
        \/ \E s : Goto(h, s) /\ pc[h] # "over"
    BY DEF HandlerStep, Requirement, RequireArgLen, LockOpens, AlarmTooEarly, LockTaken, LockTimesOut,
       ChUser, ChGrp, RunOverlong, SpawnFails, Spawn, DialogDecided, DialogOver, RelayEnds, RelayBroken, End, Exit, AtItem
  <2>3. \A g \in Sessions \ {h} : pc'[g] = pc[g] /\ at'[g] = at[g]
    BY <2>2 DEF NextItem, Goto, TypeOK
  <2>4. pc[h] # "over" /\ (at'[h] = at[h] \/ (NextItem(h) /\ at'[h] = at[h] + 1))
    BY <2>2 DEF NextItem, Goto, TypeOK
  <2>5. ASSUME NEW g \in Sessions, NEW k \in DOMAIN entry[g], Past(g, k)'
        PROVE  Past(g, k) \/ (g = h /\ NextItem(h) /\ k = at[h])
    <3>1. CASE pc'[g] # "over" /\ k < at'[g]
      BY <1>1, <2>3, <2>4, <3>1 DEF Past
    <3>2. CASE \E i \in Runnable(g) : k < i /\ cmd[g][i].st \in Alive
      BY <3>2 DEF Past
    <3> QED BY <1>2, <1>3, <2>5, <3>1, <3>2 DEF Past, Runnable
  <2> QED BY <2>1, <2>5
<1>4. ASSUME UNCHANGED <<cmd, kind>>, NextItem(h) => Item(h).op \notin Checks \/ Holds(Item(h))
      PROVE  ChecksInv'
  <2>1. \A g \in Sessions : \A k \in DOMAIN entry[g] :
          entry[g][k].op \in Checks /\ Past(g, k)' => Past(g, k) \/ Holds(entry[g][k])'
    BY <1>2, <1>3, <1>4, HoldsSays DEF Item
  <2> QED BY <1>2, <1>3, <1>4, <2>1, ChecksStay
<1>5. CASE Requirement(h)
  BY <1>4, <1>5 DEF Requirement, Goto, NextItem, TypeOK
<1>6. CASE RequireArgLen(h) \/ ChUser(h) \/ ChGrp(h) \/ RunOverlong(h) \/ SpawnFails(h)
  BY <1>4, <1>6 DEF RequireArgLen, ChUser, ChGrp, RunOverlong, SpawnFails, AtItem, Checks
<1>7. CASE AlarmTooEarly(h) \/ LockTaken(h) \/ LockTimesOut(h) \/ DialogDecided(h) \/ DialogOver(h)
           \/ RelayEnds(h) \/ RelayBroken(h)
  BY <1>4, <1>7 DEF AlarmTooEarly, LockTaken, LockTimesOut, DialogDecided, DialogOver, RelayEnds, RelayBroken, ControlInv, Checks
<1>8. CASE End(h)
  <2>1. at' = at /\ UNCHANGED <<cmd, kind>>
    BY <1>8 DEF End, Exit, Goto
  <2>2. ~ NextItem(h)
    BY <1>1, <2>1 DEF NextItem, TypeOK
  <2> QED BY <1>4, <2>1, <2>2
<1>9. CASE LockOpens(h)
  <2>1. at[h] \in DOMAIN entry[h] /\ Item(h).op = "lock" /\ UNCHANGED cmd
    BY <1>1, <1>9 DEF LockOpens, AtItem
  <2>2. \A p \in Paths : p # Item(h).path => kind'[p] = kind[p]
    BY <1>9 DEF LockOpens, Made, TypeOK
  <2>3. \A l, p : Keeps(l, p) => p # Item(h).path
    BY <2>1 DEF Keeps, Respects, Item
  <2>4. \A g \in Sessions : \A k \in DOMAIN entry[g] :
          entry[g][k].op \in Checks /\ Past(g, k)' => Past(g, k) \/ Holds(entry[g][k])'
    BY <1>3, <2>1 DEF Item, Checks
  <2>5. \A g \in Sessions : \A j, k \in DOMAIN entry[g] :
          entry[g][k].op \in Checks /\ Keeps(entry[g][j].path, entry[g][k].path)
            => kind'[entry[g][k].path] = kind[entry[g][k].path]
    BY <1>1, <2>2, <2>3, ItemTypes DEF Checks
  <2> QED BY <1>2, <1>3, <2>1, <2>4, <2>5, ChecksStay
<1>10. CASE Spawn(h)
  <2> DEFINE e == [cmd[h][at[h]] EXCEPT !.st = "setup", !.uid = uid[h], !.gid = gid[h]]
  <2>1. /\ at[h] \in DOMAIN entry[h] /\ UNCHANGED <<at, kind>> /\ cmd' = [cmd EXCEPT ![h][at[h]] = e]
        /\ pc[h] = "items" /\ \A g \in Sessions : pc'[g] # "over" => pc[g] # "over"
    BY <1>1, <1>10 DEF Spawn, AtItem, Goto, TypeOK
  <2>2. \A g \in Sessions : \A j \in DOMAIN entry[g] :
          cmd'[g][j] = IF g = h /\ j = at[h] THEN e ELSE cmd[g][j]
    BY <1>2, <2>1, CmdUpdate
  <2>3. cmd[h][at[h]].st = "none"
    BY <1>1, <2>1 DEF ControlInv, Fresh, NoCommand
  <2> HIDE DEF e
  <2>4. \A g \in Sessions : \A p \in Paths : Changed(g, p) => Changed(g, p)'
    BY <1>2, <2>2, <2>3 DEF Changed, Runnable
  <2>5. \A g \in Sessions : \A k \in DOMAIN entry[g] : Past(g, k)' => Past(g, k)
    BY <1>2, <2>1, <2>2 DEF Past, Runnable
  <2>6. ChecksInv'
    BY <1>2, <2>1, <2>4, <2>5, ChecksStay
  <2> QED BY <2>6
<1> QED BY <1>5, <1>6, <1>7, <1>8, <1>9, <1>10 DEF HandlerStep

LEMMA CommandChecks ==
    ASSUME TypeOK, ControlInv, HoldersInv, OwnLocksInv, HeldInv, ChecksInv, NEW h \in Sessions, NEW i \in Runnable(h),
           SetupStep(h, i) \/ CommandExits(h, i) \/ CommandActs(h, i) \/ CommandDetaches(h, i)
    PROVE  ChecksInv'
<1>1. i \in DOMAIN entry[h] /\ entry \in Setups /\ UNCHANGED <<entry, pc, at, lost>>
  BY CommandMoves DEF handlerVars, TypeOK
<1>2. PICK e \in [st : {"gone"} \cup Alive, got : Nat, uid : Known, gid : Known] :
        \A g \in Sessions : \A j \in DOMAIN entry[g] :
          cmd'[g][j] = IF g = h /\ j = i THEN e ELSE cmd[g][j]
  BY CommandMoves
<1>3. cmd[h][i].st \in Alive /\ (cmd[h][i].st # "setup" => e.st # "setup")
  <2>1. DOMAIN cmd = Sessions /\ DOMAIN cmd[h] = DOMAIN entry[h] /\ cmd'[h][i] = e
        /\ cmd[h][i] \in [st : {"none", "gone"} \cup Alive, got : Nat, uid : Known, gid : Known]
    BY <1>1, <1>2 DEF ControlInv, TypeOK
  <2>2. cmd[h][i].st \in Alive
    BY DEF SetupStep, CommandLocks, CommandLockFails, CommandRuns, CommandRefused, InSetup,
         CommandExits, CommandActs, CommandDetaches, Runs, Alive
  <2>3. cmd[h][i].st # "setup" => e.st # "setup"
    <3>1. CASE SetupStep(h, i)
      BY <3>1 DEF SetupStep, CommandLocks, CommandLockFails, CommandRuns, CommandRefused, InSetup
    <3>2. CASE CommandExits(h, i) \/ CommandDetaches(h, i)
      BY <1>1, <2>1, <3>2 DEF CommandExits, CommandDetaches, Becomes
    <3>3. CASE CommandActs(h, i)
      BY <2>1, <3>3 DEF CommandActs
    <3> QED BY <3>1, <3>2, <3>3
  <2> QED BY <2>2, <2>3
<1>4. \A g \in Sessions : \A p \in Paths : Changed(g, p) => Changed(g, p)'
  <2>1. e.st # "none"
    BY <1>2 DEF Alive
  <2> QED BY <1>1, <1>2, <1>3, <2>1, ZenonT(40) DEF Changed, Runnable
<1>5. \A g \in Sessions : \A k \in DOMAIN entry[g] : Past(g, k)' => Past(g, k)
  BY <1>1, <1>2, <1>3 DEF Past, Runnable
<1>6. ASSUME NEW g \in Sessions, NEW j \in DOMAIN entry[g], NEW k \in DOMAIN entry[g],
             lost = {}, j < k, entry[g][j].op = "lock", entry[g][k].op \in Checks,
             Keeps(entry[g][j].path, entry[g][k].path), Past(g, k)
      PROVE  kind'[entry[g][k].path] = kind[entry[g][k].path] \/ Changed(g, entry[g][k].path)'
  <2> DEFINE l == entry[g][j].path
             p == entry[g][k].path
  <2>1. l \in Paths /\ p \in Paths
    BY <1>1, <1>6, ItemTypes DEF Checks
  <2>2. CASE CommandLocks(h, i)
    <3>1. cmd[h][i].got \in Nat /\ Len(entry[h][i].locks) \in Nat
          /\ DOMAIN entry[h][i].locks = 1 .. Len(entry[h][i].locks)
      BY <1>1, CommandTypes DEF TypeOK
    <3>2. cmd[h][i].got + 1 \in DOMAIN entry[h][i].locks
      BY <1>3, <2>2, <3>1, SMTT(40) DEF CommandLocks, HasLocks, OwnLocksInv
    <3>3. p # Wants(h, i)
      <4>1. p \notin {entry[h][i].locks[n] : n \in DOMAIN entry[h][i].locks}
        BY <1>1, <1>6 DEF Keeps, Respects, Runnable
      <4> QED BY <3>2, <4>1 DEF Wants
    <3> QED BY <2>1, <2>2, <3>3 DEF CommandLocks, Made, TypeOK
  <2>3. CASE CommandActs(h, i)
    <3>1. CASE entry[h][i].makes[p] = "as it is"
      BY <2>1, <2>3, <3>1 DEF CommandActs
    <3>2. CASE entry[h][i].makes[p] # "as it is"
      <4>1. PICK m \in 1 .. i - 1 : entry[h][m].op = "lock" /\ entry[h][m].path = l
        BY <1>1, <1>6, <3>2 DEF Keeps, Respects, Runnable
      <4>2. m \in DOMAIN entry[h] /\ m < i
        BY <1>1, <4>1, ItemTypes
      <4>3. <<h, i>> \in open[l]
        BY <1>3, <1>6, <4>1, <4>2 DEF HeldInv
      <4>4. \E x \in open[l] : x[1] = g
        <5>1. CASE pc[g] # "over" /\ k < at[g]
          <6>1. j < at[g]
            BY <1>1, <1>6, <5>1, ItemTypes DEF TypeOK
          <6>2. <<g, 0>> \in open[l]
            BY <1>6, <5>1, <6>1 DEF HeldInv
          <6> QED BY <6>2
        <5>2. ASSUME NEW n \in Runnable(g), k < n, cmd[g][n].st \in Alive
              PROVE  \E x \in open[l] : x[1] = g
          <6>1. j < n
            <7>1. n \in Nat /\ j \in Nat /\ k \in Nat
              BY <1>1, ItemTypes, SMTT(40) DEF Runnable
            <7> QED BY <1>6, <5>2, <7>1
          <6>2. <<g, n>> \in open[l]
            BY <1>6, <5>2, <6>1 DEF HeldInv
          <6> QED BY <6>2
        <5> QED BY <1>6, <5>1, <5>2 DEF Past
      <4>5. g = h
        <5>1. PICK x \in open[l] : x[1] = g
          BY <4>4
        <5>2. x[1] = <<h, i>>[1]
          BY <2>1, <4>3, <5>1 DEF HoldersInv
        <5> QED BY <5>1, <5>2
      <4>6. cmd[h][i].st \notin {"none", "setup"} /\ cmd' = cmd
        BY <2>3 DEF CommandActs, Runs
      <4>7. Changed(h, p)
        BY <3>2, <4>6 DEF Changed
      <4> QED BY <1>1, <1>4, <2>1, <4>5, <4>7
    <3> QED BY <3>1, <3>2
  <2>4. CASE ~ CommandLocks(h, i) /\ ~ CommandActs(h, i)
    BY <2>4 DEF SetupStep, CommandLockFails, CommandRuns, CommandRefused, CommandExits, CommandDetaches
  <2> QED BY <2>2, <2>3, <2>4
<1> QED BY <1>1, <1>4, <1>5, <1>6, ChecksStay

LEMMA NextChecks ==
    ASSUME TypeOK, ControlInv, HoldersInv, OwnLocksInv, HeldInv, ChecksInv, [Next]_vars
    PROVE  HeldInv' /\ ChecksInv'
<1>1. CASE UNCHANGED vars
  <2>1. HeldInv'
    BY <1>1 DEF vars, handlerVars, HeldInv, Runnable
  <2>2. ChecksInv'
    <3>1. \A h \in Sessions : \A k \in DOMAIN entry[h] : Past(h, k)' => Past(h, k)
      BY <1>1 DEF vars, handlerVars, Past, Runnable
    <3>2. \A h \in Sessions : \A p \in Paths : Changed(h, p) => Changed(h, p)'
      BY <1>1 DEF vars, handlerVars, Changed, Runnable
    <3> QED BY <1>1, <3>1, <3>2, ChecksStay DEF vars, handlerVars
  <2> QED BY <2>1, <2>2
<1> QED BY <1>1, HandlerHeld, HandlerChecks, CommandHeld, CommandChecks DEF Next, CommandStep

LEMMA InitChecks == Init => HeldInv /\ ChecksInv
<1> SUFFICES ASSUME Init PROVE HeldInv /\ ChecksInv
  OBVIOUS
<1>1. entry \in Setups /\ \A h \in Sessions : at[h] = 1
  BY DEF Init
<1>2. \A h \in Sessions : \A j \in DOMAIN entry[h] : ~ (j < at[h])
  BY <1>1, ItemTypes
<1>3. \A h \in Sessions : \A i \in Runnable(h) : cmd[h][i].st \notin Alive
  BY DEF Init, Runnable, NoCommand, Alive
<1> QED BY <1>2, <1>3 DEF HeldInv, ChecksInv, Past

\* When a command starts, every requirement its session passed under the lock
\* that keeps it holds, or a command of the session has run that changes it.
LEMMA StartChecks ==
    ASSUME TypeOK, ControlInv, ChecksInv, [Next]_vars, lost = {},
           NEW h \in Sessions, NEW i \in Runnable(h), Starts(h, i),
           NEW k \in 1 .. i - 1, entry[h][k].op \in Checks,
           NEW j \in 1 .. k, entry[h][j].op = "lock", Keeps(entry[h][j].path, entry[h][k].path)
    PROVE  Changed(h, entry[h][k].path) \/ Holds(entry[h][k])
<1>1. /\ i \in DOMAIN entry[h] /\ DOMAIN entry[h] = 1 .. Len(entry[h]) /\ Len(entry[h]) \in Nat
      /\ DOMAIN cmd = Sessions /\ DOMAIN cmd[h] = DOMAIN entry[h]
      /\ cmd[h][i] \in [st : {"none", "gone"} \cup Alive, got : Nat, uid : Known, gid : Known]
  BY ItemTypes DEF TypeOK, Runnable, ControlInv
<1>2. j \in DOMAIN entry[h] /\ k \in DOMAIN entry[h] /\ j < k /\ k < i
  BY <1>1 DEF Checks
<1>3. cmd[h][i].st = "setup"
  <2>1. ASSUME NEW g \in Sessions, NEW n \in Runnable(g),
               SetupStep(g, n) \/ CommandExits(g, n) \/ CommandActs(g, n) \/ CommandDetaches(g, n)
        PROVE  cmd[h][i].st = "setup"
    <3>1. PICK e \in [st : {"gone"} \cup Alive, got : Nat, uid : Known, gid : Known] :
            \A f \in Sessions : \A m \in DOMAIN entry[f] :
              cmd'[f][m] = IF f = g /\ m = n THEN e ELSE cmd[f][m]
      BY <2>1, CommandMoves
    <3>2. g = h /\ n = i /\ cmd'[h][i] = e /\ e.st = "running"
      BY <1>1, <3>1 DEF Starts
    <3>3. CASE CommandRuns(g, n)
      BY <3>2, <3>3 DEF CommandRuns, InSetup
    <3>4. CASE CommandLocks(g, n)
      BY <3>2, <3>4 DEF CommandLocks, InSetup
    <3>5. CASE CommandActs(g, n)
      BY <3>2, <3>5 DEF CommandActs, Starts
    <3>6. CASE CommandLockFails(g, n) \/ CommandRefused(g, n) \/ CommandExits(g, n) \/ CommandDetaches(g, n)
      <4>1. e.st \in {"gone", "daemon"}
        BY <1>1, <3>2, <3>6 DEF CommandLockFails, CommandRefused, CommandExits, CommandDetaches, Becomes
      <4> QED BY <3>2, <4>1
    <3> QED BY <2>1, <3>3, <3>4, <3>5, <3>6 DEF SetupStep
  <2>2. ASSUME NEW g \in Sessions, HandlerStep(g) \/ DialogDecided(g) \/ RelayBroken(g)
        PROVE  FALSE
    <3>1. CASE Spawn(g)
      <4> DEFINE e == [cmd[g][at[g]] EXCEPT !.st = "setup", !.uid = uid[g], !.gid = gid[g]]
      <4>1. at[g] \in DOMAIN entry[g] /\ UNCHANGED entry /\ cmd' = [cmd EXCEPT ![g][at[g]] = e]
        BY <3>1, ItemTypes DEF Spawn, AtItem, TypeOK
      <4>2. e.st = "setup"
        BY <4>1 DEF TypeOK
      <4>3. \A f \in Sessions : \A m \in DOMAIN entry[f] :
              cmd'[f][m] = IF f = g /\ m = at[g] THEN e ELSE cmd[f][m]
        BY <4>1, CmdUpdate
      <4> HIDE DEF e
      <4> QED BY <1>1, <4>2, <4>3 DEF Starts
    <3>2. CASE ~ Spawn(g)
      <4>1. cmd' = cmd
        BY <2>2, <3>2 DEF HandlerStep, Requirement, RequireArgLen, LockOpens, AlarmTooEarly, LockTaken, LockTimesOut,
           ChUser, ChGrp, RunOverlong, SpawnFails, DialogDecided, DialogOver, RelayEnds, RelayBroken, End
      <4> QED BY <4>1 DEF Starts
    <3> QED BY <3>1, <3>2
  <2>3. CASE UNCHANGED vars
    BY <2>3 DEF vars, Starts
  <2> QED BY <2>1, <2>2, <2>3 DEF Next, CommandStep
<1>4. Past(h, k)
  BY <1>2, <1>3 DEF Past, Alive
<1> QED BY <1>2, <1>4 DEF ChecksInv, Checks

\* CheckRequirement and the commands of later items: a check made under a lock is
\* not stale when what was checked is used, though commands outlive handlers.
THEOREM ChecksAreNotStale == Spec => RequirementsStillHold
<1>1. TypeOK /\ ControlInv /\ ChecksInv /\ [Next]_vars =>
        [lost = {} =>
          \A h \in Sessions : \A i \in Runnable(h) : Starts(h, i) =>
            \A k \in 1 .. i - 1 : entry[h][k].op \in {"absent", "exists", "directory"} =>
                LET p == entry[h][k].path IN
                \/ \A j \in 1 .. k : entry[h][j].op = "lock" => ~ Keeps(entry[h][j].path, p)
                \/ Changed(h, p)
                \/ Holds(entry[h][k])]_vars
  BY StartChecks DEF Checks
<1> QED
  BY <1>1, InitTypes, NextTypes, InitHolders, NextHolders, InitChecks, NextChecks, PTL
  DEF Spec, RequirementsStillHold

===============================================================================
