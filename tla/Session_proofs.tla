---------------------------- MODULE Session_proofs ----------------------------
(***************************************************************************)
(* Safety of the sessions for any number of them, any configuration, any   *)
(* clients and any kills: items only after the rules, no booked-in file    *)
(* ever missing, no temporary file left behind.                            *)
(***************************************************************************)
EXTENDS Session, TLAPS

Statements ==
    {"request", "rules", "auth", "items", "close", "done", "killed", "torn",
     "outopen", "outsend"} \cup BookingIn

\* The variables the theorems are about, and the item a handler is inside of.
ControlInv ==
    /\ name \in [Files -> Inodes \cup {Absent}]
    /\ temp \in [Files -> Inodes \cup {Absent}]
    /\ pc \in [Sessions -> Statements]
    /\ at \in [Sessions -> Nat \ {0}]
    /\ authd \in [Sessions -> BOOLEAN]
    /\ \A h \in Sessions : pc[h] \in BookingIn =>
         at[h] <= Len(Items[h]) /\ Items[h][at[h]].op = "bookin"

\* The rules a handler has behind it hold, and it authenticated nobody whose
\* password was refused.
RuleHolds(h, k) ==
    \/ Rules[h][k] = "match"
    \/ Rules[h][k] = "auth" /\ authd[h] /\ h \in AuthOK
RulesInv ==
    \A h \in Sessions :
        /\ authd[h] => h \in AuthOK
        /\ pc[h] = "request" => at[h] = 1
        /\ pc[h] \in {"rules", "auth"} =>
             \A k \in 1 .. Len(Rules[h]) : k < at[h] => RuleHolds(h, k)
        /\ pc[h] = "auth" => at[h] \in 1 .. Len(Rules[h]) /\ Rules[h][at[h]] = "auth"

-------------------------------------------------------------------------------

\* A book-in item names a file, and the inode it may create is an inode.
LEMMA BookinItem ==
    ASSUME NEW h \in Sessions, NEW k \in Nat \ {0}, k <= Len(Items[h]),
           Items[h][k].op = "bookin"
    PROVE  /\ Items[h][k].file \in Files
           /\ Items[h][k] = [op |-> "bookin", file |-> Items[h][k].file]
           /\ <<h, k>> \in Inodes
<1>1. Items[h] \in Seq([op : {"require", "run", "clientrun"}] \cup [op : {"bookout", "bookin"}, file : Files])
  BY SessionAssumption
<1>2. Len(Items[h]) \in Nat /\ k \in 1 .. Len(Items[h])
  BY <1>1
<1>3. Items[h][k] \in [op : {"require", "run", "clientrun"}] \cup [op : {"bookout", "bookin"}, file : Files]
  BY <1>1, <1>2
<1>4. Items[h][k] \in [op : {"bookout", "bookin"}, file : Files]
  BY <1>3
<1>5. Items[h][k].file \in Files /\ Items[h][k] = [op |-> "bookin", file |-> Items[h][k].file]
  BY <1>4, SMTT(40)
<1>6. <<h, k>> \in {h} \X (1 .. Len(Items[h]))
  BY <1>2, SMTT(40)
<1> QED BY <1>5, <1>6 DEF Inodes, NewInodes

\* Steps of clients leave handlers and files alone.
LEMMA ClientFrame ==
    ASSUME NEW h \in Sessions, Client(h) \/ ClientQuit(h)
    PROVE  UNCHANGED <<name, temp, pc, at, authd>>
BY DEF Client, ClientQuit, ClientStart, ClientBookout, ClientCopy, ClientBookin, ClientUpload,
       ClientRunBegins, ClientRunEnds, ClientAuthBegins, ClientAuthEnds, ClientOkay,
       ClientRaw, ClientPrint, ClientEnd, serverVars, fsVars

\* Of a handler's steps only three touch the names of files, all of them
\* inside a book-in; what the others do to the handler's own control.
LEMMA ControlStep ==
    ASSUME ControlInv, NEW h \in Sessions, Handler(h) \/ HandlerKilled(h)
    PROVE  ControlInv'
<1> USE DEF ControlInv, Goto, Advance, Statements, BookingIn, fsVars
<1>1. CASE Request(h)
  BY <1>1 DEF Request
<1>2. CASE RequestFails(h)
  BY <1>2 DEF RequestFails
<1>3. CASE RulePasses(h)
  BY <1>3 DEF RulePasses
<1>4. CASE AskAuth(h)
  BY <1>4 DEF AskAuth
<1>5. CASE AuthLine(h)
  BY <1>5 DEF AuthLine
<1>6. CASE AuthEnds(h)
  <2>1. UNCHANGED <<name, temp, authd>> /\ pc[h] = "auth"
    BY <1>6 DEF AuthEnds
  <2>2. Advance(h, "rules") \/ (Goto(h, "close") /\ UNCHANGED at)
    BY <1>6, Zenon DEF AuthEnds
  <2>3. CASE Advance(h, "rules")
    BY <2>1, <2>3
  <2>4. CASE Goto(h, "close") /\ UNCHANGED at
    BY <2>1, <2>4
  <2> QED BY <2>2, <2>3, <2>4
<1>7. CASE Refuse(h)
  BY <1>7 DEF Refuse
<1>8. CASE Permit(h)
  BY <1>8 DEF Permit
<1>9. CASE Require(h)
  <2>1. CASE Advance(h, "items")
    BY <1>9, <2>1 DEF Require
  <2>2. CASE Goto(h, "close") /\ UNCHANGED at
    BY <1>9, <2>2 DEF Require
  <2> QED BY <1>9, <2>1, <2>2 DEF Require
<1>10. CASE ClientRunLine(h)
  BY <1>10 DEF ClientRunLine
<1>11. CASE Run(h)
  BY <1>11 DEF Run
<1>12. CASE EndOfItems(h)
  BY <1>12 DEF EndOfItems
<1>13. CASE CloseSession(h)
  BY <1>13 DEF CloseSession
<1>14. CASE OutStat(h)
  <2>1. UNCHANGED <<name, temp, authd>> /\ pc[h] = "items"
    BY <1>14 DEF OutStat, AtItem
  <2>2. Advance(h, "items") \/ (Goto(h, "outopen") /\ UNCHANGED at)
    BY <1>14, Zenon DEF OutStat
  <2>3. CASE Advance(h, "items")
    BY <2>1, <2>3
  <2>4. CASE Goto(h, "outopen") /\ UNCHANGED at
    BY <2>1, <2>4
  <2> QED BY <2>2, <2>3, <2>4
<1>15. CASE OutOpen(h)
  BY <1>15 DEF OutOpen
<1>16. CASE OutSend(h)
  <2>1. CASE UNCHANGED <<pc, at>>
    BY <1>16, <2>1 DEF OutSend
  <2>2. CASE Advance(h, "items")
    BY <1>16, <2>2 DEF OutSend
  <2> QED BY <1>16, <2>1, <2>2 DEF OutSend
<1>17. CASE InOpen(h)
  <2>1. at[h] \in Nat \ {0} /\ at[h] <= Len(Items[h]) /\ Items[h][at[h]].op = "bookin"
    BY <1>17 DEF InOpen, AtItem
  <2>2. File(h) \in Files /\ <<h, at[h]>> \in Inodes
    BY <2>1, BookinItem DEF File
  <2>3. temp' \in [Files -> Inodes \cup {Absent}]
    BY <1>17, <2>2 DEF InOpen
  <2> QED BY <1>17, <2>1, <2>3 DEF InOpen
<1>18. CASE InReply(h)
  BY <1>18 DEF InReply
<1>19. CASE InAbort(h)
  <2>1. temp' \in [Files -> Inodes \cup {Absent}]
    BY <1>19 DEF InAbort
  <2> QED BY <1>19, <2>1 DEF InAbort
<1>20. CASE InReceive(h)
  BY <1>20 DEF InReceive
<1>21. CASE InReceiveEnds(h)
  BY <1>21 DEF InReceiveEnds
<1>22. CASE InStat(h)
  BY <1>22 DEF InStat
<1>23. CASE InRename(h)
  <2>1. at[h] \in Nat \ {0} /\ at[h] <= Len(Items[h]) /\ Items[h][at[h]].op = "bookin"
    BY <1>23 DEF InRename
  <2>2. File(h) \in Files
    BY <2>1, BookinItem DEF File
  <2>3. name' \in [Files -> Inodes \cup {Absent}] /\ temp' \in [Files -> Inodes \cup {Absent}]
    BY <1>23, <2>2 DEF InRename
  <2> QED BY <1>23, <2>3 DEF InRename
<1>24. CASE InChmod(h)
  BY <1>24 DEF InChmod
<1>25. CASE InClose(h)
  BY <1>25 DEF InClose
<1>26. CASE HandlerKilled(h)
  BY <1>26 DEF HandlerKilled
<1>27. CASE InOpenFails(h)
  BY <1>27 DEF InOpenFails
<1>28. CASE OutOpenFails(h)
  BY <1>28 DEF OutOpenFails
<1> QED
  BY <1>1, <1>2, <1>3, <1>4, <1>5, <1>6, <1>7, <1>8, <1>9, <1>10, <1>11, <1>12, <1>13,
     <1>14, <1>15, <1>16, <1>17, <1>18, <1>19, <1>20, <1>21, <1>22, <1>23, <1>24, <1>25, <1>26, <1>27, <1>28
     DEF Handler

-------------------------------------------------------------------------------

\* The steps of a handler that leave the names of files alone, and whose
\* handler is, before and after, outside or inside the stretch of a book-in
\* that owns Path+.
Owning == {"inreply", "inrecv", "instat", "inrename", "killed"}
QuietStep(h) ==
    /\ UNCHANGED <<name, temp>>
    /\ \A j \in Sessions \ {h} : pc'[j] = pc[j] /\ at'[j] = at[j]
    /\ pc[h] \in Owning => pc'[h] \in Owning /\ at'[h] = at[h]

LEMMA QuietSteps ==
    ASSUME ControlInv, NEW h \in Sessions, Handler(h) \/ HandlerKilled(h),
           ~ InOpen(h), ~ InAbort(h), ~ InRename(h)
    PROVE  QuietStep(h)
<1> USE DEF ControlInv, Statements, Goto, Advance, Owning, QuietStep, BookingIn, fsVars,
            RuleInHand, AtItem
<1>1. CASE Request(h) \/ RequestFails(h) \/ RulePasses(h) \/ AskAuth(h)
  BY <1>1 DEF Request, RequestFails, RulePasses, AskAuth
<1>2. CASE AuthLine(h) \/ AuthEnds(h) \/ Refuse(h) \/ Permit(h)
  BY <1>2 DEF AuthLine, AuthEnds, Refuse, Permit
<1>3. CASE Require(h) \/ ClientRunLine(h) \/ Run(h) \/ EndOfItems(h) \/ InOpenFails(h) \/ CloseSession(h)
  BY <1>3 DEF Require, ClientRunLine, Run, EndOfItems, InOpenFails, CloseSession
<1>4. CASE OutStat(h) \/ OutOpen(h) \/ OutOpenFails(h) \/ OutSend(h)
  BY <1>4 DEF OutStat, OutOpen, OutOpenFails, OutSend
<1>5. CASE InReply(h) \/ InReceive(h) \/ InReceiveEnds(h)
  BY <1>5 DEF InReply, InReceive, InReceiveEnds
<1>6. CASE InStat(h) \/ InChmod(h) \/ InClose(h)
  BY <1>6 DEF InStat, InChmod, InClose
<1>7. CASE HandlerKilled(h)
  BY <1>7 DEF HandlerKilled, Closed
<1> QED BY <1>1, <1>2, <1>3, <1>4, <1>5, <1>6, <1>7 DEF Handler

\* A session inside that stretch owns the Path+ of its item.
Owns(h, f) ==
    /\ pc[h] \in Owning
    /\ at[h] <= Len(Items[h])
    /\ Items[h][at[h]] = [op |-> "bookin", file |-> f]

LEMMA TempOwnedAlt == TempOwned <=> \A f \in Files : temp[f] # Absent => \E h \in Sessions : Owns(h, f)
BY DEF TempOwned, Owns, Owning

\* No step removes a booked-in file or orphans a temporary one.
LEMMA NamesStep ==
    ASSUME ControlInv, NeverMissing, TempOwned,
           NEW h \in Sessions, Handler(h) \/ HandlerKilled(h)
    PROVE  NeverMissing' /\ TempOwned'
<1>1. CASE InOpen(h)
  <2> DEFINE f == File(h)
  <2>1. at[h] \in Nat \ {0} /\ at[h] <= Len(Items[h]) /\ Items[h][at[h]].op = "bookin"
    BY <1>1 DEF InOpen, AtItem, ControlInv
  <2>2. f \in Files /\ Items[h][at[h]] = [op |-> "bookin", file |-> f]
    BY <2>1, BookinItem DEF File
  <2>3. UNCHANGED <<name, at>> /\ pc' = [pc EXCEPT ![h] = "inreply"] /\ pc[h] = "items"
    BY <1>1 DEF InOpen, Goto, AtItem
  <2>4. \A e \in Files : e # f => temp'[e] = temp[e]
    BY <1>1 DEF InOpen, ControlInv
  <2>5. ASSUME NEW e \in Files, e = f PROVE Owns(h, e)'
    <3>1. pc'[h] = "inreply" /\ at'[h] = at[h]
      BY <2>3 DEF ControlInv
    <3> QED BY <2>1, <2>2, <2>5, <3>1 DEF Owns, Owning
  <2>6. ASSUME NEW e \in Files, e # f, temp'[e] # Absent PROVE \E j \in Sessions : Owns(j, e)'
    <3>1. PICK j \in Sessions : Owns(j, e)
      BY <2>4, <2>6, TempOwnedAlt
    <3>2. j # h
      BY <2>3, <3>1 DEF Owns, Owning
    <3> QED BY <2>3, <3>1, <3>2 DEF Owns, ControlInv
  <2>7. \A e \in Files : temp'[e] # Absent => \E j \in Sessions : Owns(j, e)'
    BY <2>5, <2>6
  <2>8. TempOwned'
    BY <2>7 DEF TempOwned, Owns, Owning
  <2> QED BY <2>3, <2>8 DEF NeverMissing
<1>2. CASE InAbort(h) \/ InRename(h)
  <2> DEFINE f == File(h)
  <2>1. pc[h] \in BookingIn
    BY <1>2 DEF InAbort, InRename, BookingIn
  <2>2. at[h] \in Nat \ {0} /\ at[h] <= Len(Items[h]) /\ Items[h][at[h]].op = "bookin"
    BY <2>1 DEF ControlInv
  <2>3. f \in Files /\ Items[h][at[h]] = [op |-> "bookin", file |-> f]
    BY <2>2, BookinItem DEF File
  <2>4. /\ \A e \in Files : temp'[e] = (IF e = f THEN Absent ELSE temp[e])
        /\ \A e \in Files : name[e] # Absent => name'[e] # Absent
    BY <1>2, <2>3 DEF InAbort, InRename, ControlInv
  <2>5. \A j \in Sessions \ {h} : pc'[j] = pc[j] /\ at'[j] = at[j]
    BY <1>2 DEF InAbort, InRename, Advance, Goto, ControlInv
  <2>6. ASSUME NEW e \in Files, temp'[e] # Absent PROVE \E j \in Sessions : Owns(j, e)'
    <3>1. e # f /\ temp[e] # Absent
      BY <2>4, <2>6
    <3>2. PICK j \in Sessions : Owns(j, e)
      BY <3>1, TempOwnedAlt
    <3>3. j # h
      BY <2>3, <3>1, <3>2 DEF Owns
    <3> QED BY <2>5, <3>2, <3>3 DEF Owns
  <2>7. TempOwned'
    BY <2>6 DEF TempOwned, Owns, Owning
  <2> QED BY <2>4, <2>7 DEF NeverMissing
<1>3. CASE ~ InOpen(h) /\ ~ InAbort(h) /\ ~ InRename(h)
  <2>1. QuietStep(h)
    BY <1>3, QuietSteps
  <2>2. ASSUME NEW e \in Files, temp'[e] # Absent PROVE \E j \in Sessions : Owns(j, e)'
    <3>1. PICK j \in Sessions : Owns(j, e)
      BY <2>1, <2>2, TempOwnedAlt DEF QuietStep
    <3> QED BY <2>1, <3>1 DEF QuietStep, Owns
  <2>3. TempOwned'
    BY <2>2 DEF TempOwned, Owns, Owning
  <2> QED BY <2>1, <2>3 DEF NeverMissing, QuietStep
<1> QED BY <1>1, <1>2, <1>3

-------------------------------------------------------------------------------

\* A step concerns one session.
LEMMA OthersStay ==
    ASSUME ControlInv, NEW h \in Sessions, Handler(h) \/ HandlerKilled(h)
    PROVE  \A j \in Sessions \ {h} : pc'[j] = pc[j] /\ at'[j] = at[j] /\ authd'[j] = authd[j]
<1> USE DEF ControlInv, Goto, Advance
<1>1. CASE Request(h) \/ RequestFails(h) \/ RulePasses(h) \/ AskAuth(h)
  BY <1>1 DEF Request, RequestFails, RulePasses, AskAuth
<1>2. CASE AuthLine(h) \/ AuthEnds(h) \/ Refuse(h) \/ Permit(h)
  BY <1>2 DEF AuthLine, AuthEnds, Refuse, Permit
<1>3. CASE Require(h) \/ ClientRunLine(h) \/ Run(h) \/ EndOfItems(h) \/ InOpenFails(h) \/ CloseSession(h)
  BY <1>3 DEF Require, ClientRunLine, Run, EndOfItems, InOpenFails, CloseSession
<1>4. CASE OutStat(h) \/ OutOpen(h) \/ OutOpenFails(h) \/ OutSend(h)
  BY <1>4 DEF OutStat, OutOpen, OutOpenFails, OutSend
<1>5. CASE InOpen(h) \/ InReply(h) \/ InAbort(h)
  BY <1>5 DEF InOpen, InReply, InAbort
<1>6. CASE InReceive(h) \/ InReceiveEnds(h) \/ InStat(h)
  BY <1>6 DEF InReceive, InReceiveEnds, InStat
<1>7. CASE InRename(h) \/ InChmod(h) \/ InClose(h) \/ HandlerKilled(h)
  BY <1>7 DEF InRename, InChmod, InClose, HandlerKilled
<1> QED BY <1>1, <1>2, <1>3, <1>4, <1>5, <1>6, <1>7 DEF Handler

\* Once a handler is carrying out items it does nothing else until it is over.
Working == BookingIn \cup {"items", "outopen", "outsend"}
Over == {"close", "done", "killed", "torn"}

LEMMA WorkSteps ==
    ASSUME ControlInv, NEW h \in Sessions, Handler(h) \/ HandlerKilled(h),
           ~ Request(h), ~ RulePasses(h), ~ AskAuth(h), ~ AuthLine(h), ~ AuthEnds(h), ~ Permit(h)
    PROVE  /\ authd'[h] = authd[h]
           /\ pc'[h] \in Over \/ (pc[h] \in Working /\ pc'[h] \in Working)
<1> USE DEF ControlInv, Goto, Advance, Working, Over, BookingIn, AtItem
<1>1. CASE RequestFails(h) \/ Refuse(h) \/ EndOfItems(h) \/ InOpenFails(h) \/ CloseSession(h) \/ HandlerKilled(h)
  BY <1>1 DEF RequestFails, Refuse, EndOfItems, InOpenFails, CloseSession, HandlerKilled
<1>2. CASE Require(h) \/ ClientRunLine(h) \/ Run(h)
  BY <1>2 DEF Require, ClientRunLine, Run
<1>3. CASE OutStat(h) \/ OutOpen(h) \/ OutOpenFails(h) \/ OutSend(h)
  BY <1>3 DEF OutStat, OutOpen, OutOpenFails, OutSend
<1>4. CASE InOpen(h) \/ InReply(h) \/ InAbort(h)
  BY <1>4 DEF InOpen, InReply, InAbort
<1>5. CASE InReceive(h) \/ InReceiveEnds(h) \/ InStat(h)
  BY <1>5 DEF InReceive, InReceiveEnds, InStat
<1>6. CASE InRename(h) \/ InChmod(h) \/ InClose(h)
  BY <1>6 DEF InRename, InChmod, InClose
<1> QED BY <1>1, <1>2, <1>3, <1>4, <1>5, <1>6 DEF Handler

\* What the two invariants say of one session.
RulesInvOf(h) ==
    /\ authd[h] => h \in AuthOK
    /\ pc[h] = "request" => at[h] = 1
    /\ pc[h] \in {"rules", "auth"} =>
         \A k \in 1 .. Len(Rules[h]) : k < at[h] => RuleHolds(h, k)
    /\ pc[h] = "auth" => at[h] \in 1 .. Len(Rules[h]) /\ Rules[h][at[h]] = "auth"
Permitted(h) ==
    pc[h] \in Working =>
        \/ h \in Granted
        \/ Rules[h] # <<>> /\ \A k \in 1 .. Len(Rules[h]) : RuleHolds(h, k)

LEMMA BySession ==
    /\ RulesInv <=> \A h \in Sessions : RulesInvOf(h)
    /\ OnlyPermittedRun <=> \A h \in Sessions : Permitted(h)
BY DEF RulesInv, RulesInvOf, OnlyPermittedRun, Permitted, RuleHolds, Working

\* No step of a handler lets it past a rule that does not hold.
LEMMA RulesStepOf ==
    ASSUME ControlInv, NEW h \in Sessions, RulesInvOf(h), Permitted(h),
           Handler(h) \/ HandlerKilled(h)
    PROVE  RulesInvOf(h)' /\ Permitted(h)'
<1> USE DEF RulesInvOf, Permitted
<1>0. /\ Len(Rules[h]) \in Nat /\ at[h] \in Nat \ {0} /\ authd[h] \in BOOLEAN
      /\ Rules[h] \in Seq({"match", "mismatch", "auth"})
  BY SessionAssumption DEF ControlInv
<1>1. CASE Request(h)
  <2>1. /\ pc[h] = "request" /\ at'[h] = 1 /\ authd'[h] = authd[h]
        /\ pc'[h] = IF h \in Granted THEN "items" ELSE "rules"
    BY <1>1 DEF Request, Goto, ControlInv
  <2> QED BY <1>0, <2>1 DEF Working, BookingIn, RuleHolds
<1>2. CASE RulePasses(h)
  <2>1. /\ pc[h] = "rules" /\ pc'[h] = "rules" /\ at'[h] = at[h] + 1 /\ authd'[h] = authd[h]
        /\ RuleHolds(h, at[h])
    BY <1>0, <1>2 DEF RulePasses, RuleInHand, Advance, Goto, ControlInv, RuleHolds
  <2> QED BY <1>0, <2>1 DEF Working, BookingIn, RuleHolds
<1>3. CASE AskAuth(h)
  <2>1. /\ pc[h] = "rules" /\ pc'[h] = "auth" /\ at'[h] = at[h] /\ authd'[h] = authd[h]
        /\ at[h] \in 1 .. Len(Rules[h]) /\ Rules[h][at[h]] = "auth"
    BY <1>0, <1>3 DEF AskAuth, RuleInHand, Goto, ControlInv
  <2> QED BY <1>0, <2>1 DEF Working, BookingIn, RuleHolds
<1>4. CASE AuthLine(h)
  <2>1. /\ pc[h] = "auth" /\ pc'[h] = "auth" /\ at'[h] = at[h]
        /\ authd'[h] = (authd[h] \/ h \in AuthOK)
    BY <1>4 DEF AuthLine, ControlInv
  <2> QED BY <1>0, <2>1 DEF Working, BookingIn, RuleHolds
<1>5. CASE AuthEnds(h)
  <2>1. /\ pc[h] = "auth" /\ authd'[h] = authd[h]
        /\ \/ authd[h] /\ pc'[h] = "rules" /\ at'[h] = at[h] + 1
           \/ pc'[h] = "close" /\ at'[h] = at[h]
    BY <1>5 DEF AuthEnds, Advance, Goto, ControlInv
  <2>2. authd[h] => RuleHolds(h, at[h])
    BY <2>1 DEF RuleHolds
  <2> QED BY <1>0, <2>1, <2>2 DEF Working, BookingIn, RuleHolds
<1>6. CASE Permit(h)
  <2>1. /\ pc[h] = "rules" /\ pc'[h] = "items" /\ at'[h] = 1 /\ authd'[h] = authd[h]
        /\ Rules[h] # <<>> /\ at[h] > Len(Rules[h])
    BY <1>6 DEF Permit, ControlInv
  <2> QED BY <1>0, <2>1 DEF Working, BookingIn, RuleHolds
<1>7. CASE ~ (Request(h) \/ RulePasses(h) \/ AskAuth(h) \/ AuthLine(h) \/ AuthEnds(h) \/ Permit(h))
  BY <1>7, WorkSteps DEF Working, Over, BookingIn, RuleHolds
<1> QED BY <1>1, <1>2, <1>3, <1>4, <1>5, <1>6, <1>7

LEMMA RulesStep ==
    ASSUME ControlInv, RulesInv, OnlyPermittedRun,
           NEW h \in Sessions, Handler(h) \/ HandlerKilled(h)
    PROVE  RulesInv' /\ OnlyPermittedRun'
<1>1. \A j \in Sessions : RulesInvOf(j) /\ Permitted(j)
  BY BySession
<1>2. RulesInvOf(h)' /\ Permitted(h)'
  BY <1>1, RulesStepOf
<1>3. ASSUME NEW j \in Sessions, j # h PROVE RulesInvOf(j)' /\ Permitted(j)'
  <2>1. pc'[j] = pc[j] /\ at'[j] = at[j] /\ authd'[j] = authd[j]
    BY <1>3, OthersStay
  <2> QED BY <1>1, <2>1 DEF RulesInvOf, Permitted, RuleHolds
<1>4. \A j \in Sessions : RulesInvOf(j)' /\ Permitted(j)'
  BY <1>2, <1>3
<1> QED BY <1>4 DEF RulesInv, RulesInvOf, OnlyPermittedRun, Permitted, RuleHolds, Working

-------------------------------------------------------------------------------

IInv == ControlInv /\ NeverMissing /\ TempOwned /\ RulesInv /\ OnlyPermittedRun

LEMMA InitInv == Init => IInv
<1> SUFFICES ASSUME Init PROVE IInv
  OBVIOUS
<1>1. Files \subseteq Inodes
  BY DEF Inodes
<1>2. Files \cap {Absent} = {}
  BY <1>1, AbsentAssumption
<1>3. ControlInv
  BY <1>1 DEF Init, ControlInv, Statements, BookingIn
<1>4. NeverMissing /\ TempOwned
  BY <1>2 DEF Init, NeverMissing, TempOwned
<1>5. RulesInv /\ OnlyPermittedRun
  BY DEF Init, RulesInv, OnlyPermittedRun, BookingIn
<1> QED BY <1>3, <1>4, <1>5 DEF IInv

LEMMA NextInv == IInv /\ [Next]_vars => IInv'
<1> SUFFICES ASSUME IInv, [Next]_vars PROVE IInv'
  OBVIOUS
<1>1. ASSUME NEW h \in Sessions, Handler(h) \/ HandlerKilled(h) PROVE IInv'
  BY <1>1, ControlStep, NamesStep, RulesStep DEF IInv
<1>2. CASE UNCHANGED <<name, temp, pc, at, authd>>
  BY <1>2 DEF IInv, ControlInv, NeverMissing, TempOwned, RulesInv, RuleHolds, OnlyPermittedRun
<1>3. ASSUME NEW h \in Sessions, Client(h) \/ ClientQuit(h) PROVE IInv'
  BY <1>2, <1>3, ClientFrame
<1>4. CASE AllFinished \/ UNCHANGED vars
  BY <1>2, <1>4 DEF AllFinished, vars, fsVars, serverVars
<1> QED BY <1>1, <1>3, <1>4 DEF Next

LEMMA Inductive == Spec => []IInv
BY InitInv, NextInv, PTL DEF Spec

\* BookinFileFromClient replaces files without a moment in which they are not
\* there, for any sessions sharing them, any kills and any clients.
THEOREM FilesNeverMissing == Spec => []NeverMissing
BY Inductive, PTL DEF IInv

\* Every Path+ belongs to a session inside its book-in, so only kills leave
\* one behind, even though sessions truncate, rename and unlink each other's.
THEOREM TempFilesOwned == Spec => []TempOwned
BY Inductive, PTL DEF IInv

\* An item is carried out only under a grant or when every rule of the entry
\* holds, whatever the client sends and whenever reads time out.
THEOREM ItemsArePermitted == Spec => []OnlyPermittedRun
BY Inductive, PTL DEF IInv
-------------------------------------------------------------------------------
(* Types, and the modes of files. *)

Streams == [ino : Inodes \cup {Absent}, pos : Nat, left : Nat, size : Nat,
            mode : {"kept", "private", "garbage"}, buf : Seq(Block)]
Transfers == [file : Files \cup {Absent}, left : Nat]

\* What a handler that sends a file and a client that receives or sends one have in hand.
OpenInv ==
    \A h \in Sessions :
        /\ pc[h] \in {"outopen", "outsend"} =>
             at[h] <= Len(Items[h]) /\ Items[h][at[h]].op = "bookout" /\ name[File(h)] # Absent
        /\ pc[h] = "outsend" => fd[h].ino \in Inodes
        /\ cpc[h] = "copy" => copying[h].file \in Files /\ local[h][copying[h].file] # Absent /\ copying[h].left > 0
        /\ cpc[h] = "upload" => /\ copying[h].file \in Files
                                /\ local[h][copying[h].file] # Absent
                                /\ copying[h].left \in 1 .. Len(local[h][copying[h].file])

TypeInv == TypeOK /\ ControlInv /\ OpenInv

LEMMA BookoutItem ==
    ASSUME NEW h \in Sessions, NEW k \in Nat \ {0}, k <= Len(Items[h]),
           Items[h][k].op = "bookout"
    PROVE  /\ Items[h][k].file \in Files
           /\ Items[h][k] = [op |-> "bookout", file |-> Items[h][k].file]
<1>1. Items[h] \in Seq([op : {"require", "run", "clientrun"}] \cup [op : {"bookout", "bookin"}, file : Files])
  BY SessionAssumption
<1>2. k \in 1 .. Len(Items[h])
  BY <1>1
<1>3. Items[h][k] \in [op : {"require", "run", "clientrun"}] \cup [op : {"bookout", "bookin"}, file : Files]
  BY <1>1, <1>2
<1>4. Items[h][k] \in [op : {"bookout", "bookin"}, file : Files]
  BY <1>3
<1> QED BY <1>4, SMTT(40)

\* write(2) of a block: the content grows at most to the block written.
LEMMA WriteAtTyped ==
    ASSUME NEW content \in Seq(Block), NEW p \in Nat, NEW b \in Block
    PROVE  /\ WriteAt(content, p, b) \in Seq(Block)
           /\ Len(WriteAt(content, p, b)) = IF p < Len(content) THEN Len(content) ELSE p + 1
<1> DEFINE n == IF p < Len(content) THEN Len(content) ELSE p + 1
<1>1. Len(content) \in Nat /\ n \in Nat
  OBVIOUS
<1>2. Hole \in Block
  BY SessionAssumption
<1>3. \A k \in 1 .. n :
         (IF k = p + 1 THEN b ELSE IF k <= Len(content) THEN content[k] ELSE Hole) \in Block
  BY <1>1, <1>2
<1>4. WriteAt(content, p, b) \in [1 .. n -> Block]
  BY <1>3 DEF WriteAt
<1> QED BY <1>1, <1>4

\* What is read as content is a block.
LEMMA AsBlockTyped == \A m \in ToClient \cup ToHandler : AsBlock(m) \in Block
BY SessionAssumption DEF AsBlock, ToClient, ToHandler, Content

LEMMA DataTyped == \A b \in Block : Data(b) \in ToClient /\ Data(b) \in ToHandler
BY DEF Data, ToClient, ToHandler, Content

\* What a step does to one direction of a socket.
LEMMA SendTyped ==
    ASSUME TypeOK, NEW h \in Sessions, NEW msgs \in Seq(ToClient), Send(h, msgs)
    PROVE  s2c' \in [Sessions -> Seq(ToClient)]
BY DEF Send, TypeOK

LEMMA ReceiveTyped ==
    ASSUME TypeOK, NEW h \in Sessions, Receive(h)
    PROVE  /\ c2s' \in [Sessions -> Seq(ToHandler)]
           /\ Head(c2s[h]) \in ToHandler
BY DEF Receive, TypeOK

LEMMA ReplyTyped ==
    ASSUME TypeOK, NEW h \in Sessions, NEW msgs \in Seq(ToHandler),
           NEW next \in {"read", "copy", "upload", "raw", "run", "prompt"}, Reply(h, msgs, next)
    PROVE  /\ c2s' \in [Sessions -> Seq(ToHandler)]
           /\ cpc' \in [Sessions -> {"start", "read", "copy", "upload", "raw", "run", "prompt", "gone"}]
           /\ cpc'[h] \in {next, "gone"}
           /\ \A j \in Sessions \ {h} : cpc'[j] = cpc[j]
<1>1. c2s[h] \o msgs \in Seq(ToHandler)
  BY DEF TypeOK
<1>2. CASE Closed(h)
  BY <1>2 DEF Reply, TypeOK
<1>3. CASE ~ Closed(h)
  <2>1. cpc' = [cpc EXCEPT ![h] = next] /\ c2s' = [c2s EXCEPT ![h] = @ \o msgs]
    BY <1>3 DEF Reply
  <2>2. c2s' \in [Sessions -> Seq(ToHandler)]
    BY <1>1, <2>1 DEF TypeOK
  <2> QED BY <2>1, <2>2 DEF TypeOK
<1> QED BY <1>2, <1>3

\* A stream of a handler is set, or one of its parts.
LEMMA StreamTyped ==
    ASSUME TypeOK, NEW h \in Sessions
    PROVE  /\ fd[h] \in Streams
           /\ NoStream \in Streams
           /\ \A i \in Inodes \cup {Absent} : [fd[h] EXCEPT !.ino = i] \in Streams
           /\ \A n \in Nat : /\ [fd[h] EXCEPT !.pos = n] \in Streams
                             /\ [fd[h] EXCEPT !.left = n] \in Streams
                             /\ [NoStream EXCEPT !.size = n] \in Streams
           /\ \A m, n \in Nat : [fd[h] EXCEPT !.pos = m, !.left = n] \in Streams
           /\ \A i \in Inodes \cup {Absent} : [NoStream EXCEPT !.ino = i] \in Streams
           /\ \A m \in {"kept", "private", "garbage"} : [fd[h] EXCEPT !.mode = m] \in Streams
           /\ \A b \in Block, n \in Nat : [fd[h] EXCEPT !.buf = <<b>>, !.left = n] \in Streams
           /\ \A s \in Streams : [fd EXCEPT ![h] = s] \in [Sessions -> Streams]
<1>1. fd \in [Sessions -> Streams]
  BY DEF TypeOK, Streams
<1>2. fd[h] \in Streams
  BY <1>1
<1>3. <<>> \in Seq(Block)
  OBVIOUS
<1>4. NoStream \in Streams
  BY <1>3 DEF NoStream, Streams
<1>5. ASSUME NEW s \in Streams
      PROVE  /\ \A i \in Inodes \cup {Absent} : [s EXCEPT !.ino = i] \in Streams
             /\ \A n \in Nat : /\ [s EXCEPT !.pos = n] \in Streams
                               /\ [s EXCEPT !.left = n] \in Streams
                               /\ [s EXCEPT !.size = n] \in Streams
             /\ \A m, n \in Nat : [s EXCEPT !.pos = m, !.left = n] \in Streams
             /\ \A m \in {"kept", "private", "garbage"} : [s EXCEPT !.mode = m] \in Streams
             /\ \A b \in Seq(Block), n \in Nat : [s EXCEPT !.buf = b, !.left = n] \in Streams
  BY DEF Streams
<1>6. \A b \in Block : <<b>> \in Seq(Block)
  OBVIOUS
<1>7. \A s \in Streams : [fd EXCEPT ![h] = s] \in [Sessions -> Streams]
  BY <1>1
<1> HIDE DEF Streams, NoStream
<1> QED BY <1>2, <1>4, <1>5, <1>6, <1>7

LEMMA HandlerFrame ==
    ASSUME NEW h \in Sessions, Handler(h) \/ HandlerKilled(h)
    PROVE  UNCHANGED clientVars
<1>1. CASE Request(h) \/ RequestFails(h) \/ RulePasses(h) \/ AskAuth(h) \/ AuthLine(h) \/ AuthEnds(h)
  BY <1>1 DEF Request, RequestFails, RulePasses, AskAuth, AuthLine, AuthEnds
<1>2. CASE Refuse(h) \/ Permit(h) \/ Require(h) \/ ClientRunLine(h) \/ Run(h) \/ EndOfItems(h)
           \/ InOpenFails(h) \/ CloseSession(h)
  BY <1>2 DEF Refuse, Permit, Require, ClientRunLine, Run, EndOfItems, InOpenFails, CloseSession
<1>3. CASE OutStat(h) \/ OutOpen(h) \/ OutOpenFails(h) \/ OutSend(h) \/ InOpen(h) \/ InReply(h) \/ InAbort(h)
  BY <1>3 DEF OutStat, OutOpen, OutOpenFails, OutSend, InOpen, InReply, InAbort
<1>4. CASE InReceive(h) \/ InReceiveEnds(h) \/ InStat(h) \/ InRename(h) \/ InChmod(h) \/ InClose(h) \/ HandlerKilled(h)
  BY <1>4 DEF InReceive, InReceiveEnds, InStat, InRename, InChmod, InClose, HandlerKilled
<1> QED BY <1>1, <1>2, <1>3, <1>4 DEF Handler

\* The steps that read or write content or learn about files.
FileStep(h) ==
    \/ OutStat(h) \/ OutOpen(h) \/ OutOpenFails(h) \/ OutSend(h)
    \/ InOpen(h) \/ InReply(h) \/ InAbort(h) \/ InReceive(h)
    \/ InStat(h) \/ InChmod(h) \/ InClose(h)

LEMMA OtherSteps ==
    ASSUME NEW h \in Sessions, Handler(h) \/ HandlerKilled(h), ~ FileStep(h)
    PROVE  UNCHANGED <<data, mode, fd>>
<1>1. CASE Request(h) \/ RequestFails(h) \/ RulePasses(h) \/ AskAuth(h) \/ AuthLine(h) \/ AuthEnds(h)
  BY <1>1 DEF Request, RequestFails, RulePasses, AskAuth, AuthLine, AuthEnds, fsVars
<1>2. CASE Refuse(h) \/ Permit(h) \/ Require(h) \/ ClientRunLine(h) \/ Run(h) \/ EndOfItems(h)
           \/ InOpenFails(h) \/ CloseSession(h)
  BY <1>2 DEF Refuse, Permit, Require, ClientRunLine, Run, EndOfItems, InOpenFails, CloseSession, fsVars
<1>3. CASE InReceiveEnds(h) \/ InRename(h) \/ HandlerKilled(h)
  BY <1>3 DEF InReceiveEnds, InRename, HandlerKilled, fsVars
<1> QED BY <1>1, <1>2, <1>3 DEF Handler, FileStep

\* Inodes keep blocks and modes, and streams their types.
LEMMA FileTypes ==
    ASSUME TypeInv, NEW h \in Sessions, Handler(h) \/ HandlerKilled(h)
    PROVE  /\ data' \in [Inodes -> Seq(Block)]
           /\ mode' \in [Inodes -> {"kept", "private", "garbage"}]
           /\ fd' \in [Sessions -> Streams]
<1> USE DEF TypeInv
<1>0. /\ data \in [Inodes -> Seq(Block)] /\ mode \in [Inodes -> {"kept", "private", "garbage"}]
      /\ fd \in [Sessions -> Streams] /\ fd[h] \in Streams
      /\ pc[h] \in BookingIn \cup {"outopen", "outsend"} => File(h) \in Files
  <2>1. pc[h] \in BookingIn \cup {"outopen", "outsend"} => File(h) \in Files
    BY BookinItem, BookoutItem DEF ControlInv, OpenInv, File
  <2> QED BY <2>1 DEF TypeOK, Streams
<1>1. CASE OutStat(h)
  <2>1. UNCHANGED <<data, mode>> /\ at[h] <= Len(Items[h]) /\ Items[h][at[h]].op = "bookout"
    BY <1>1 DEF OutStat, AtItem, fsVars
  <2>2. File(h) \in Files
    BY <2>1, BookoutItem DEF File, ControlInv
  <2>3. CASE name[File(h)] = Absent
    BY <1>0, <1>1, <2>1, <2>3 DEF OutStat
  <2>4. CASE name[File(h)] # Absent
    <3>1. Len(data[name[File(h)]]) \in Nat
      BY <1>0, <2>2, <2>4 DEF ControlInv
    <3> QED BY <1>0, <1>1, <2>1, <2>4, <3>1, StreamTyped DEF OutStat
  <2> QED BY <2>3, <2>4
<1>2. CASE OutOpen(h)
  <2>1. name[File(h)] \in Inodes \cup {Absent} /\ fd' = [fd EXCEPT ![h] = [fd[h] EXCEPT !.ino = name[File(h)]]]
    BY <1>0, <1>2 DEF OutOpen, ControlInv
  <2>2. fd' \in [Sessions -> Streams]
    BY <2>1, StreamTyped
  <2>3. UNCHANGED <<data, mode>>
    BY <1>2 DEF OutOpen, fsVars
  <2> QED BY <1>0, <2>2, <2>3
<1>3. CASE OutSend(h)
  <2>1. fd[h].pos + 1 \in Nat
    BY <1>0 DEF Streams
  <2>2. fd' = [fd EXCEPT ![h] = [fd[h] EXCEPT !.pos = fd[h].pos + 1]] \/ fd' = [fd EXCEPT ![h] = NoStream]
    BY <1>0, <1>3 DEF OutSend
  <2>3. fd' \in [Sessions -> Streams]
    <3>1. [fd[h] EXCEPT !.pos = fd[h].pos + 1] \in Streams /\ NoStream \in Streams
      BY <2>1, StreamTyped
    <3> HIDE DEF NoStream, Streams
    <3> QED BY <2>2, <3>1, StreamTyped
  <2>4. UNCHANGED <<data, mode>>
    BY <1>3 DEF OutSend, fsVars
  <2> QED BY <1>0, <2>3, <2>4
<1>4. CASE InOpen(h)
  <2>1. at[h] \in Nat \ {0} /\ at[h] <= Len(Items[h]) /\ Items[h][at[h]].op = "bookin"
    BY <1>4 DEF InOpen, AtItem, ControlInv
  <2> DEFINE i == IF temp[File(h)] = Absent THEN <<h, at[h]>> ELSE temp[File(h)]
  <2>2. i \in Inodes
    BY <2>1, BookinItem DEF File, ControlInv
  <2>3. data' = [data EXCEPT ![i] = <<>>] /\ fd' = [fd EXCEPT ![h] = [NoStream EXCEPT !.ino = i]] /\ mode' = mode
    BY <1>4 DEF InOpen
  <2> HIDE DEF i
  <2>4. fd' \in [Sessions -> Streams]
    BY <2>2, <2>3, StreamTyped
  <2> QED BY <1>0, <2>2, <2>3, <2>4
<1>5. CASE InReply(h)
  <2>1. Head(c2s[h]) \in ToHandler /\ Head(c2s[h]).type = "bookin"
    BY <1>5, ReceiveTyped DEF InReply
  <2>2. Head(c2s[h]).size \in Nat
    BY <2>1 DEF ToHandler, Content
  <2>3. fd' = [fd EXCEPT ![h] = [fd[h] EXCEPT !.left = Head(c2s[h]).size]]
    BY <1>0, <1>5 DEF InReply
  <2>4. fd' \in [Sessions -> Streams]
    BY <2>2, <2>3, StreamTyped
  <2>5. UNCHANGED <<data, mode>>
    BY <1>5 DEF InReply, fsVars
  <2> QED BY <1>0, <2>4, <2>5
<1>6. CASE InAbort(h)
  BY <1>0, <1>6, StreamTyped DEF InAbort
<1>7. CASE InReceive(h)
  <2> DEFINE b == AsBlock(Head(c2s[h]))
  <2>1. b \in Block
    BY <1>7, ReceiveTyped, AsBlockTyped DEF InReceive
  <2>2. fd[h].pos \in Nat /\ fd[h].left \in Nat
    BY <1>0 DEF Streams
  <2>3. CASE fd[h].left > 1
    <3>1. /\ data' = [data EXCEPT ![fd[h].ino] = WriteAt(@, fd[h].pos, b)]
          /\ fd' = [fd EXCEPT ![h] = [fd[h] EXCEPT !.pos = fd[h].pos + 1, !.left = fd[h].left - 1]]
          /\ mode' = mode
      BY <1>0, <1>7, <2>3 DEF InReceive
    <3>2. fd[h].ino \in Inodes => WriteAt(data[fd[h].ino], fd[h].pos, b) \in Seq(Block)
      BY <1>0, <2>1, <2>2, WriteAtTyped
    <3>3. data' \in [Inodes -> Seq(Block)]
      BY <1>0, <3>1, <3>2
    <3>4. fd[h].pos + 1 \in Nat /\ fd[h].left - 1 \in Nat
      BY <2>2, <2>3
    <3>5. fd' \in [Sessions -> Streams]
      BY <3>1, <3>4, StreamTyped
    <3> QED BY <1>0, <3>1, <3>3, <3>5
  <2>4. CASE ~ (fd[h].left > 1)
    <3>1. fd' = [fd EXCEPT ![h] = [fd[h] EXCEPT !.buf = <<b>>, !.left = 0]] /\ UNCHANGED <<data, mode>>
      BY <1>0, <1>7, <2>4 DEF InReceive
    <3> QED BY <1>0, <2>1, <3>1, StreamTyped
  <2> QED BY <2>3, <2>4
<1>8. CASE InStat(h)
  <2> DEFINE m == IF name[File(h)] = Absent THEN "garbage" ELSE mode[name[File(h)]]
  <2>1. File(h) \in Files
    BY <1>0, <1>8 DEF InStat, BookingIn
  <2>2. m \in {"kept", "private", "garbage"}
    BY <1>0, <2>1 DEF ControlInv
  <2>3. fd' = [fd EXCEPT ![h] = [fd[h] EXCEPT !.mode = m]] /\ UNCHANGED <<data, mode>>
    BY <1>0, <1>8 DEF InStat, fsVars
  <2> QED BY <1>0, <2>2, <2>3, StreamTyped
<1>9. CASE InChmod(h)
  <2>1. fd[h].mode \in {"kept", "private", "garbage"}
    BY <1>0 DEF Streams
  <2> QED BY <1>0, <1>9, <2>1 DEF InChmod
<1>10. CASE InClose(h)
  <2>1. fd[h].pos \in Nat /\ fd[h].buf \in Seq(Block)
    BY <1>0 DEF Streams
  <2>2. fd' = [fd EXCEPT ![h] = NoStream] /\ mode' = mode
    BY <1>10 DEF InClose
  <2>3. CASE fd[h].buf = <<>>
    BY <1>0, <1>10, <2>2, <2>3, StreamTyped DEF InClose
  <2>4. CASE fd[h].buf # <<>>
    <3>1. data' = [data EXCEPT ![fd[h].ino] = WriteAt(@, fd[h].pos, Head(fd[h].buf))]
      BY <1>10, <2>4 DEF InClose
    <3>2. Head(fd[h].buf) \in Block
      BY <2>1, <2>4
    <3>3. fd[h].ino \in Inodes => WriteAt(data[fd[h].ino], fd[h].pos, Head(fd[h].buf)) \in Seq(Block)
      BY <1>0, <2>1, <3>2, WriteAtTyped
    <3> QED BY <1>0, <2>2, <3>1, <3>3, StreamTyped
  <2> QED BY <2>3, <2>4
<1>11. CASE ~ FileStep(h)
  BY <1>0, <1>11, OtherSteps
<1>12. CASE OutOpenFails(h)
  BY <1>0, <1>12, StreamTyped DEF OutOpenFails, fsVars
<1> QED BY <1>1, <1>2, <1>3, <1>4, <1>5, <1>6, <1>7, <1>8, <1>9, <1>10, <1>11, <1>12 DEF FileStep

\* What handlers put into sockets is typed.
LEMMA HandlerWires ==
    ASSUME TypeInv, NEW h \in Sessions, Handler(h) \/ HandlerKilled(h)
    PROVE  s2c' \in [Sessions -> Seq(ToClient)] /\ c2s' \in [Sessions -> Seq(ToHandler)]
<1> USE DEF TypeInv
<1>0. s2c \in [Sessions -> Seq(ToClient)] /\ c2s \in [Sessions -> Seq(ToHandler)]
  BY DEF TypeOK
<1>1. \A t \in {"auth", "okay", "fail", "clientrun"} : <<[type |-> t]>> \in Seq(ToClient)
  BY DEF ToClient
<1>2. \A t \in {"bookout", "bookin"}, f \in Files, n \in Nat :
         <<[type |-> t, file |-> f, size |-> n]>> \in Seq(ToClient)
  BY DEF ToClient
<1>3. CASE RequestFails(h) \/ RulePasses(h) \/ Permit(h) \/ Require(h) \/ EndOfItems(h) \/ InOpenFails(h)
           \/ CloseSession(h)
  BY <1>0, <1>3 DEF RequestFails, RulePasses, Permit, Require, EndOfItems, InOpenFails, CloseSession
<1>4. CASE InReceiveEnds(h) \/ InStat(h) \/ InRename(h) \/ InChmod(h) \/ InClose(h) \/ HandlerKilled(h)
           \/ OutStat(h) \/ OutOpenFails(h)
  BY <1>0, <1>4 DEF InReceiveEnds, InStat, InRename, InChmod, InClose, HandlerKilled, OutStat, OutOpenFails
<1>5. CASE Request(h) \/ InReply(h) \/ InReceive(h)
  BY <1>0, <1>5, ReceiveTyped DEF Request, InReply, InReceive
<1>6. CASE InAbort(h)
  BY <1>0, <1>6, ReceiveTyped DEF InAbort
<1>7. CASE AskAuth(h)
  BY <1>0, <1>1, <1>7, SendTyped DEF AskAuth
<1>8. CASE Refuse(h)
  BY <1>0, <1>1, <1>8, SendTyped DEF Refuse
<1>9. CASE ClientRunLine(h)
  BY <1>0, <1>1, <1>9, SendTyped DEF ClientRunLine
<1>10. CASE AuthLine(h)
  <2>1. <<[type |-> IF h \in AuthOK THEN "okay" ELSE "fail"]>> \in Seq(ToClient)
    BY <1>1
  <2> QED BY <1>0, <1>10, <2>1, SendTyped, ReceiveTyped DEF AuthLine
<1>11. CASE AuthEnds(h)
  BY <1>0, <1>1, <1>11, SendTyped DEF AuthEnds
<1>12. CASE Run(h)
  <2>1. Data(Output) \in ToClient /\ [type |-> "okay"] \in ToClient
    BY SessionAssumption, DataTyped DEF ToClient
  <2>2. <<[type |-> "okay"], Data(Output)>> \in Seq(ToClient)
    BY <2>1
  <2> HIDE DEF TypeInv
  <2>3. TypeOK
    BY DEF TypeInv
  <2> QED BY <1>0, <1>1, <1>12, <2>2, <2>3, SendTyped DEF Run
<1>13. CASE OutOpen(h)
  <2>1. File(h) \in Files
    BY <1>13, BookoutItem DEF OutOpen, OpenInv, ControlInv, File
  <2>2. fd[h].size \in Nat
    BY DEF TypeOK
  <2> QED BY <1>0, <1>2, <1>13, <2>1, <2>2, SendTyped DEF OutOpen
<1>14. CASE OutSend(h)
  <2>1. CASE fd[h].pos < Len(data[fd[h].ino]) /\ ~ Gone(h)
    <3>1. fd[h].ino \in Inodes
      BY <1>14 DEF OutSend, OpenInv
    <3>2. data[fd[h].ino] \in Seq(Block) /\ fd[h].pos \in Nat
      BY <3>1 DEF TypeOK
    <3>3. data[fd[h].ino][fd[h].pos + 1] \in Block
      BY <2>1, <3>2
    <3>4. <<Data(data[fd[h].ino][fd[h].pos + 1])>> \in Seq(ToClient)
      BY <3>3, DataTyped
    <3> QED BY <1>0, <1>14, <2>1, <3>4, SendTyped DEF OutSend
  <2>2. CASE ~ (fd[h].pos < Len(data[fd[h].ino]) /\ ~ Gone(h))
    BY <1>0, <1>14, <2>2 DEF OutSend
  <2> QED BY <2>1, <2>2
<1>15. CASE InOpen(h)
  <2>1. File(h) \in Files
    BY <1>15, BookinItem DEF InOpen, AtItem, ControlInv, File
  <2> QED BY <1>0, <1>2, <1>15, <2>1, SendTyped DEF InOpen
<1> QED
  BY <1>3, <1>4, <1>5, <1>6, <1>7, <1>8, <1>9, <1>10, <1>11, <1>12, <1>13, <1>14, <1>15 DEF Handler

\* A file that is there stays there, so that a handler that found it can open it.
LEMMA NamesStay ==
    ASSUME TypeInv, NEW h \in Sessions, Handler(h) \/ HandlerKilled(h)
    PROVE  \A f \in Files : name[f] # Absent => name'[f] # Absent
<1>1. CASE InOpen(h) \/ InAbort(h)
  BY <1>1 DEF InOpen, InAbort
<1>2. CASE InRename(h)
  BY <1>2 DEF InRename, TypeInv, ControlInv
<1>3. CASE ~ InOpen(h) /\ ~ InAbort(h) /\ ~ InRename(h)
  BY <1>3, QuietSteps DEF QuietStep, TypeInv
<1> QED BY <1>1, <1>2, <1>3

LEMMA HandlerOpen ==
    ASSUME TypeInv, NEW h \in Sessions, Handler(h) \/ HandlerKilled(h)
    PROVE  OpenInv'
<1>1. UNCHANGED <<cpc, local, copying>>
  BY HandlerFrame DEF clientVars
<1>2. ASSUME NEW j \in Sessions \ {h}, pc'[j] \in {"outopen", "outsend"}
      PROVE  /\ at'[j] <= Len(Items[j]) /\ Items[j][at'[j]].op = "bookout" /\ name'[File(j)'] # Absent
             /\ pc'[j] = "outsend" => fd'[j].ino \in Inodes
  <2>1. pc'[j] = pc[j] /\ at'[j] = at[j]
    BY OthersStay DEF TypeInv
  <2>2. File(j) \in Files /\ File(j)' = File(j)
    BY <1>2, <2>1, BookoutItem DEF TypeInv, OpenInv, ControlInv, File
  <2>3. fd'[j] = fd[j]
    <3>1. CASE FileStep(h)
      BY <3>1, ZenonT(40) DEF FileStep, OutStat, OutOpen, OutOpenFails, OutSend, InOpen, InReply, InAbort,
         InReceive, InStat, InChmod,
         InClose, TypeInv, TypeOK
    <3> QED BY <3>1, OtherSteps
  <2> QED BY <1>2, <2>1, <2>2, <2>3, NamesStay DEF TypeInv, OpenInv
<1>3. ASSUME pc'[h] \in {"outopen", "outsend"}
      PROVE  /\ at'[h] <= Len(Items[h]) /\ Items[h][at'[h]].op = "bookout" /\ name'[File(h)'] # Absent
             /\ pc'[h] = "outsend" => fd'[h].ino \in Inodes
  <2>1. CASE OutStat(h)
    BY <1>3, <2>1 DEF OutStat, AtItem, Goto, Advance, TypeInv, ControlInv, File, fsVars
  <2>2. CASE OutOpen(h)
    <3>1. at[h] <= Len(Items[h]) /\ Items[h][at[h]].op = "bookout" /\ name[File(h)] # Absent /\ File(h) \in Files
      BY <2>2, BookoutItem DEF OutOpen, TypeInv, OpenInv, ControlInv, File
    <3>2. UNCHANGED <<at, name>> /\ fd'[h].ino = name[File(h)]
      BY <2>2 DEF OutOpen, TypeInv, TypeOK, fsVars
    <3>3. name[File(h)] \in Inodes
      BY <3>1 DEF TypeInv, ControlInv
    <3> QED BY <3>1, <3>2, <3>3 DEF File
  <2>3. CASE OutSend(h)
    <3>1. pc[h] = "outsend" /\ at'[h] = at[h] /\ fd'[h].ino = fd[h].ino /\ name' = name
      BY <1>3, <2>3 DEF OutSend, Advance, Goto, TypeInv, TypeOK, fsVars
    <3> QED BY <3>1 DEF TypeInv, OpenInv, File
  <2>4. CASE InOpen(h) \/ InReply(h) \/ InAbort(h) \/ InReceive(h) \/ InStat(h) \/ InChmod(h) \/ InClose(h)
    BY <1>3, <2>4 DEF InOpen, InReply, InAbort, InReceive, InStat, InChmod, InClose, Goto, Advance, TypeInv, ControlInv
  <2>5. CASE InReceiveEnds(h) \/ InRename(h) \/ HandlerKilled(h) \/ OutOpenFails(h)
    BY <1>3, <2>5 DEF InReceiveEnds, InRename, HandlerKilled, OutOpenFails, Goto, Advance, TypeInv, ControlInv
  <2>6. CASE Request(h) \/ RequestFails(h) \/ RulePasses(h) \/ AskAuth(h) \/ AuthLine(h) \/ AuthEnds(h)
    BY <1>3, <2>6 DEF Request, RequestFails, RulePasses, AskAuth, AuthLine, AuthEnds, Goto, Advance, TypeInv, ControlInv
  <2>7. CASE Refuse(h) \/ Permit(h) \/ Require(h) \/ ClientRunLine(h) \/ Run(h) \/ EndOfItems(h)
             \/ InOpenFails(h) \/ CloseSession(h)
    BY <1>3, <2>7, SMTT(40) DEF Refuse, Permit, Require, ClientRunLine, Run, EndOfItems, InOpenFails,
       CloseSession, Goto, Advance, TypeInv, ControlInv
  <2> QED BY <2>1, <2>2, <2>3, <2>4, <2>5, <2>6, <2>7 DEF Handler
<1> QED BY <1>1, <1>2, <1>3 DEF OpenInv, TypeInv, File

LEMMA ClientFiles ==
    ASSUME NEW h \in Sessions, Client(h) \/ ClientQuit(h)
    PROVE  UNCHANGED <<data, mode, fd>>
BY DEF Client, ClientQuit, ClientStart, ClientBookout, ClientCopy, ClientBookin, ClientUpload,
       ClientRunBegins, ClientRunEnds, ClientAuthBegins, ClientAuthEnds, ClientOkay,
       ClientRaw, ClientPrint, ClientEnd, serverVars, fsVars

\* The first of what is sent to a client, and the rest of it.
LEMMA HeadTyped ==
    ASSUME TypeOK, NEW h \in Sessions, s2c[h] # <<>>
    PROVE  /\ Head(s2c[h]) \in ToClient
           /\ Tail(s2c[h]) \in Seq(ToClient)
           /\ [s2c EXCEPT ![h] = Tail(@)] \in [Sessions -> Seq(ToClient)]
BY DEF TypeOK

\* The step of a client keeps its types, and what it is in the middle of.
LEMMA ClientTypes ==
    ASSUME TypeInv, NEW h \in Sessions, Client(h) \/ ClientQuit(h)
    PROVE  TypeOK' /\ OpenInv'
<1> DEFINE Busy(c, l, k) ==
        /\ c[h] = "copy" => k[h].file \in Files /\ l[h][k[h].file] # Absent /\ k[h].left > 0
        /\ c[h] = "upload" => k[h].file \in Files /\ l[h][k[h].file] # Absent /\ k[h].left \in 1 .. Len(l[h][k[h].file])
<1> DEFINE Typed ==
        /\ s2c' \in [Sessions -> Seq(ToClient)] /\ c2s' \in [Sessions -> Seq(ToHandler)]
        /\ cpc' \in [Sessions -> {"start", "read", "copy", "upload", "raw", "run", "prompt", "gone"}]
        /\ local' \in [Sessions -> [Files -> Seq(Block) \cup {Absent}]]
        /\ copying' \in [Sessions -> Transfers]
        /\ swallowed' \in [Sessions -> SUBSET {"auth", "okay", "fail", "clientrun", "bookout", "bookin", "data"}]
        /\ Busy(cpc', local', copying')
        /\ \A j \in Sessions \ {h} : cpc'[j] = cpc[j] /\ local'[j] = local[j] /\ copying'[j] = copying[j]
<1>0. /\ TypeOK /\ s2c \in [Sessions -> Seq(ToClient)] /\ c2s \in [Sessions -> Seq(ToHandler)]
      /\ cpc \in [Sessions -> {"start", "read", "copy", "upload", "raw", "run", "prompt", "gone"}]
      /\ local \in [Sessions -> [Files -> Seq(Block) \cup {Absent}]]
      /\ copying \in [Sessions -> Transfers]
      /\ swallowed \in [Sessions -> SUBSET {"auth", "okay", "fail", "clientrun", "bookout", "bookin", "data"}]
      /\ Busy(cpc, local, copying)
      /\ Absent \notin Seq(Block)
  BY AbsentAssumption DEF TypeInv, TypeOK, OpenInv, Transfers
<1>9. ASSUME Typed PROVE TypeOK' /\ OpenInv'
  <2>1. UNCHANGED <<name, temp, data, mode, pc, at, authd, fd>>
    BY ClientFrame, ClientFiles
  <2>2. TypeOK'
    BY <1>9, <2>1 DEF TypeInv, TypeOK, Transfers
  <2>3. ASSUME NEW j \in Sessions, j # h
        PROVE  cpc'[j] = cpc[j] /\ local'[j] = local[j] /\ copying'[j] = copying[j]
    BY <1>9, <2>3
  <2>4. \A j \in Sessions : File(j)' = File(j)
    BY <2>1 DEF File
  <2>5. ASSUME NEW j \in Sessions
        PROVE  /\ cpc'[j] = "copy" => copying'[j].file \in Files /\ local'[j][copying'[j].file] # Absent /\ copying'[j].left > 0
               /\ cpc'[j] = "upload" => /\ copying'[j].file \in Files
                                        /\ local'[j][copying'[j].file] # Absent
                                        /\ copying'[j].left \in 1 .. Len(local'[j][copying'[j].file])
    <3>1. CASE j = h
      BY <1>9, <3>1
    <3>2. CASE j # h
      BY <2>3, <3>2 DEF TypeInv, OpenInv
    <3> QED BY <3>1, <3>2
  <2> QED BY <2>1, <2>2, <2>4, <2>5 DEF TypeInv, OpenInv
<1>1. CASE ClientStart(h) \/ ClientAuthEnds(h)
  <2>1. PICK msgs \in Seq(ToHandler) : Reply(h, msgs, "read")
    <3>1. <<[type |-> "invoke"]>> \in Seq(ToHandler) /\ <<[type |-> "auth"]>> \in Seq(ToHandler)
      BY DEF ToHandler
    <3> QED BY <1>1, <3>1 DEF ClientStart, ClientAuthEnds
  <2>2. UNCHANGED <<local, copying, swallowed, s2c>>
    BY <1>1 DEF ClientStart, ClientAuthEnds
  <2>3. /\ c2s' \in [Sessions -> Seq(ToHandler)]
        /\ cpc' \in [Sessions -> {"start", "read", "copy", "upload", "raw", "run", "prompt", "gone"}]
        /\ cpc'[h] \in {"read", "gone"}
        /\ \A j \in Sessions \ {h} : cpc'[j] = cpc[j]
    BY <1>0, <2>1, ReplyTyped
  <2>4. Typed
    BY <1>0, <2>2, <2>3
  <2> QED BY <2>4, <1>9
<1>2. CASE ClientRunBegins(h) \/ ClientAuthBegins(h) \/ ClientOkay(h) \/ ClientPrint(h) \/ ClientRaw(h)
  <2>1. s2c[h] # <<>> /\ s2c' = [s2c EXCEPT ![h] = Tail(@)]
    BY <1>2 DEF ClientRunBegins, ClientAuthBegins, ClientOkay, ClientPrint, ClientRaw, NextLine
  <2>2. s2c' \in [Sessions -> Seq(ToClient)] /\ Head(s2c[h]) \in ToClient
    BY <1>0, <2>1, HeadTyped
  <2>3. Head(s2c[h]).type \in {"auth", "okay", "fail", "clientrun", "bookout", "bookin", "data"}
    BY <2>2 DEF ToClient, Content
  <2>4. UNCHANGED <<local, copying, c2s>>
    BY <1>2 DEF ClientRunBegins, ClientAuthBegins, ClientOkay, ClientPrint, ClientRaw, clientVars
  <2>5. swallowed' \in [Sessions -> SUBSET {"auth", "okay", "fail", "clientrun", "bookout", "bookin", "data"}]
    <3>1. swallowed' = swallowed \/ swallowed' = [swallowed EXCEPT ![h] = @ \cup {Head(s2c[h]).type}]
      BY <1>2 DEF ClientRunBegins, ClientAuthBegins, ClientOkay, ClientPrint, ClientRaw, clientVars
    <3>2. swallowed[h] \cup {Head(s2c[h]).type}
             \in SUBSET {"auth", "okay", "fail", "clientrun", "bookout", "bookin", "data"}
      BY <1>0, <2>3
    <3> HIDE DEF Typed
    <3> QED BY <1>0, <3>1, <3>2
  <2>6. cpc' = cpc \/ \E s \in {"run", "prompt", "raw"} : cpc' = [cpc EXCEPT ![h] = s]
    BY <1>2 DEF ClientRunBegins, ClientAuthBegins, ClientOkay, ClientPrint, ClientRaw, clientVars
  <2>7. Typed
    BY <1>0, <2>2, <2>4, <2>5, <2>6, ZenonT(40)
  <2> QED BY <2>7, <1>9
<1>3. CASE ClientEnd(h) \/ ClientQuit(h)
  <2>1. UNCHANGED <<local, copying, swallowed, c2s>> /\ cpc' = [cpc EXCEPT ![h] = "gone"]
    BY <1>3 DEF ClientEnd, ClientQuit
  <2>2. s2c' \in [Sessions -> Seq(ToClient)]
    <3>1. s2c' = s2c \/ s2c' = [s2c EXCEPT ![h] = <<>>]
      BY <1>3 DEF ClientEnd, ClientQuit
    <3>2. <<>> \in Seq(ToClient)
      OBVIOUS
    <3> QED BY <1>0, <3>1, <3>2, ZenonT(40)
  <2>3. Typed
    BY <1>0, <2>1, <2>2
  <2> QED BY <2>3, <1>9
<1>4. CASE ClientRunEnds(h)
  <2>1. UNCHANGED <<copying, swallowed, s2c, c2s>> /\ cpc' = [cpc EXCEPT ![h] = "read"]
    BY <1>4 DEF ClientRunEnds
  <2>2. \A f \in Files : Edited[h][f] \in Seq(Block)
    BY SessionAssumption
  <2>3. PICK F \in SUBSET Files :
          local' = [local EXCEPT ![h] = [f \in Files |-> IF f \in F THEN Edited[h][f] ELSE local[h][f]]]
    BY <1>0, <1>4 DEF ClientRunEnds
  <2>4. local' \in [Sessions -> [Files -> Seq(Block) \cup {Absent}]]
    BY <1>0, <2>2, <2>3
  <2>5. Typed
    BY <1>0, <2>1, <2>3, <2>4
  <2> QED BY <2>5, <1>9
<1>5. CASE ClientBookout(h)
  <2> DEFINE m == Head(s2c[h])
  <2>1. /\ s2c[h] # <<>> /\ m.type = "bookout" /\ s2c' = [s2c EXCEPT ![h] = Tail(@)] /\ cpc[h] = "read"
        /\ UNCHANGED <<swallowed, c2s>>
    BY <1>5 DEF ClientBookout, NextLine
  <2>2. s2c' \in [Sessions -> Seq(ToClient)] /\ m \in ToClient
    BY <1>0, <2>1, HeadTyped
  <2>3. m.file \in Files /\ m.size \in Nat
    BY <2>1, <2>2 DEF ToClient, Content
  <2>4. CASE h \in ReadOnlyDir
    <3>1. Typed
      BY <1>0, <1>5, <2>1, <2>2, <2>4 DEF ClientBookout
    <3> QED BY <3>1, <1>9
  <2>5. CASE h \notin ReadOnlyDir
    <3>1. /\ local' = [local EXCEPT ![h][m.file] = <<>>]
          /\ copying' = [copying EXCEPT ![h] = [file |-> m.file, left |-> m.size]]
          /\ cpc' = [cpc EXCEPT ![h] = IF m.size > 0 THEN "copy" ELSE "read"]
      BY <1>5, <2>5 DEF ClientBookout
    <3> HIDE DEF m
    <3>2. local' \in [Sessions -> [Files -> Seq(Block) \cup {Absent}]] /\ local'[h][m.file] # Absent
      <4>1. <<>> \in Seq(Block)
        OBVIOUS
      <4> QED BY <1>0, <2>3, <3>1, <4>1
    <3>3. copying' \in [Sessions -> Transfers] /\ copying'[h] = [file |-> m.file, left |-> m.size]
      BY <1>0, <2>3, <3>1 DEF Transfers
    <3>4. Typed
      BY <1>0, <2>1, <2>2, <2>3, <3>1, <3>2, <3>3
    <3> QED BY <3>4, <1>9
  <2> QED BY <2>4, <2>5
<1>6. CASE ClientCopy(h)
  <2> DEFINE g == copying[h].file
  <2>1. /\ s2c[h] # <<>> /\ s2c' = [s2c EXCEPT ![h] = Tail(@)] /\ cpc[h] = "copy"
        /\ UNCHANGED <<swallowed, c2s>>
        /\ local' = [local EXCEPT ![h][g] = Append(@, AsBlock(Head(s2c[h])))]
        /\ copying' = [copying EXCEPT ![h].left = @ - 1]
        /\ cpc' = [cpc EXCEPT ![h] = IF copying[h].left = 1 THEN "read" ELSE "copy"]
    BY <1>6 DEF ClientCopy
  <2>2. s2c' \in [Sessions -> Seq(ToClient)] /\ Head(s2c[h]) \in ToClient
    BY <1>0, <2>1, HeadTyped
  <2>3. AsBlock(Head(s2c[h])) \in Block
    BY <2>2, AsBlockTyped
  <2>4. g \in Files /\ local[h][g] \in Seq(Block) /\ copying[h].left \in Nat \ {0}
    BY <1>0, <2>1 DEF Transfers
  <2>5. Append(local[h][g], AsBlock(Head(s2c[h]))) \in Seq(Block)
    BY <2>3, <2>4
  <2>6. local' \in [Sessions -> [Files -> Seq(Block) \cup {Absent}]] /\ local'[h][g] # Absent
    BY <1>0, <2>1, <2>4, <2>5
  <2>7. copying' \in [Sessions -> Transfers] /\ copying'[h] = [file |-> g, left |-> copying[h].left - 1]
    BY <1>0, <2>1, <2>4 DEF Transfers
  <2> HIDE DEF g
  <2>8. Typed
    BY <1>0, <2>1, <2>2, <2>4, <2>6, <2>7, SMTT(40)
  <2> QED BY <2>8, <1>9
<1>7. CASE ClientBookin(h)
  <2> DEFINE f == Head(s2c[h]).file
             n == Len(local[h][f])
  <2>1. /\ s2c[h] # <<>> /\ Head(s2c[h]).type = "bookin" /\ s2c' = [s2c EXCEPT ![h] = Tail(@)] /\ cpc[h] = "read"
        /\ UNCHANGED <<local, swallowed>>
    BY <1>7 DEF ClientBookin, NextLine
  <2>2. s2c' \in [Sessions -> Seq(ToClient)] /\ Head(s2c[h]) \in ToClient
    BY <1>0, <2>1, HeadTyped
  <2>3. f \in Files
    BY <2>1, <2>2 DEF ToClient, Content
  <2>4. CASE local[h][f] = Absent
    <3>1. UNCHANGED <<cpc, c2s, copying>>
      BY <1>7, <2>4 DEF ClientBookin
    <3>2. Typed
      BY <1>0, <2>1, <2>2, <3>1
    <3> QED BY <3>2, <1>9
  <2>5. CASE local[h][f] # Absent
    <3>1. local[h][f] \in Seq(Block) /\ n \in Nat
      BY <1>0, <2>3, <2>5
    <3>2. <<[type |-> "bookin", file |-> f, size |-> n]>> \in Seq(ToHandler)
      BY <2>3, <3>1 DEF ToHandler
    <3>3. /\ copying' = [copying EXCEPT ![h] = [file |-> f, left |-> n]]
          /\ \E nonzero \in SizeGarbage : Reply(h, <<[type |-> "bookin", file |-> f, size |-> n]>>,
                                                IF nonzero /\ n > 0 THEN "upload" ELSE "read")
      BY <1>7, <2>5 DEF ClientBookin
    <3> HIDE DEF f, n
    <3>4. PICK next \in {"read", "upload"} : /\ Reply(h, <<[type |-> "bookin", file |-> f, size |-> n]>>, next)
                                             /\ next = "upload" => n > 0
      BY <3>3
    <3>5. /\ c2s' \in [Sessions -> Seq(ToHandler)]
          /\ cpc' \in [Sessions -> {"start", "read", "copy", "upload", "raw", "run", "prompt", "gone"}]
          /\ cpc'[h] \in {next, "gone"}
          /\ \A j \in Sessions \ {h} : cpc'[j] = cpc[j]
      <4>1. next \in {"read", "copy", "upload", "raw", "run", "prompt"}
        OBVIOUS
      <4>2. TypeOK
        BY DEF TypeInv
      <4> DEFINE msgs == <<[type |-> "bookin", file |-> f, size |-> n]>>
      <4>3. msgs \in Seq(ToHandler) /\ Reply(h, msgs, next)
        BY <3>2, <3>4
      <4> HIDE DEF msgs
      <4> QED BY <4>1, <4>2, <4>3, ReplyTyped
    <3>6. copying' \in [Sessions -> Transfers] /\ copying'[h] = [file |-> f, left |-> n]
      BY <1>0, <2>3, <3>1, <3>3 DEF Transfers
    <3>7. n = Len(local[h][f])
      BY DEF n
    <3>8. Busy(cpc', local', copying')
      BY <2>1, <2>3, <2>5, <3>1, <3>4, <3>5, <3>6, <3>7
    <3>9. \A j \in Sessions \ {h} : cpc'[j] = cpc[j] /\ local'[j] = local[j] /\ copying'[j] = copying[j]
      BY <1>0, <2>1, <3>3, <3>5
    <3>10. Typed
      BY <1>0, <2>1, <2>2, <3>5, <3>6, <3>8, <3>9
    <3> QED BY <3>10, <1>9
  <2> QED BY <2>4, <2>5
<1>8. CASE ClientUpload(h)
  <2> DEFINE f == copying[h].file
             b == local[h][f][Len(local[h][f]) + 1 - copying[h].left]
  <2>1. /\ cpc[h] = "upload" /\ UNCHANGED <<local, swallowed, s2c>>
        /\ copying' = [copying EXCEPT ![h].left = @ - 1]
        /\ Reply(h, <<Data(b)>>, IF copying[h].left = 1 THEN "read" ELSE "upload")
    BY <1>8 DEF ClientUpload
  <2>2. f \in Files /\ local[h][f] \in Seq(Block) /\ copying[h].left \in 1 .. Len(local[h][f])
    BY <1>0, <2>1
  <2>3. b \in Block
    BY <2>2
  <2>4. <<Data(b)>> \in Seq(ToHandler)
    BY <2>3, DataTyped
  <2>5. copying' \in [Sessions -> Transfers] /\ copying'[h] = [file |-> f, left |-> copying[h].left - 1]
    BY <1>0, <2>1, <2>2 DEF Transfers
  <2> HIDE DEF f, b
  <2>6. PICK next \in {"read", "upload"} : Reply(h, <<Data(b)>>, next) /\ (next = "upload" => copying[h].left # 1)
    BY <2>1
  <2>7. /\ c2s' \in [Sessions -> Seq(ToHandler)]
        /\ cpc' \in [Sessions -> {"start", "read", "copy", "upload", "raw", "run", "prompt", "gone"}]
        /\ cpc'[h] \in {next, "gone"}
        /\ \A j \in Sessions \ {h} : cpc'[j] = cpc[j]
    <3>1. next \in {"read", "copy", "upload", "raw", "run", "prompt"}
      OBVIOUS
    <3>2. TypeOK
      BY DEF TypeInv
    <3> DEFINE msgs == <<Data(b)>>
    <3>3. msgs \in Seq(ToHandler) /\ Reply(h, msgs, next)
      BY <2>4, <2>6
    <3> HIDE DEF msgs
    <3> QED BY <3>1, <3>2, <3>3, ReplyTyped
  <2>8. local[h][f] # Absent
    BY <1>0, <2>2
  <2>9. Typed
    BY <1>0, <2>1, <2>2, <2>5, <2>6, <2>7, <2>8
  <2> QED BY <2>9, <1>9
<1> QED BY <1>1, <1>2, <1>3, <1>4, <1>5, <1>6, <1>7, <1>8 DEF Client

LEMMA InitTypes == Init => TypeInv
<1> SUFFICES ASSUME Init PROVE TypeInv
  OBVIOUS
<1>1. ControlInv
  BY InitInv DEF IInv
<1>2. Files \subseteq Inodes /\ <<>> \in Seq(Block) /\ \A f \in Files : Original[f] \in Seq(Block)
  BY SessionAssumption DEF Inodes
<1>3. data \in [Inodes -> Seq(Block)] /\ mode \in [Inodes -> {"kept", "private", "garbage"}]
  BY <1>2 DEF Init
<1>4. fd \in [Sessions -> Streams]
  BY <1>2 DEF Init, Streams, NoStream
<1>5. s2c \in [Sessions -> Seq(ToClient)] /\ c2s \in [Sessions -> Seq(ToHandler)]
  BY DEF Init
<1>6. /\ cpc \in [Sessions -> {"start", "gone"}]
      /\ local \in [Sessions -> [Files -> {Absent}]]
      /\ copying \in [Sessions -> [file : {Absent}, left : {0}]]
      /\ swallowed \in [Sessions -> {{}}]
      /\ \A h \in Sessions : pc[h] \in {"request", "done"}
  BY DEF Init
<1>7. TypeOK
  BY <1>1, <1>3, <1>4, <1>5, <1>6 DEF TypeOK, ControlInv, Statements, Streams
<1>8. OpenInv
  BY <1>6 DEF OpenInv
<1> QED BY <1>1, <1>7, <1>8 DEF TypeInv

LEMMA NextTypes == TypeInv /\ [Next]_vars => TypeInv'
<1> SUFFICES ASSUME TypeInv, [Next]_vars PROVE TypeInv'
  OBVIOUS
<1>1. ASSUME NEW h \in Sessions, Handler(h) \/ HandlerKilled(h) PROVE TypeInv'
  <2>1. ControlInv' /\ OpenInv'
    BY <1>1, ControlStep, HandlerOpen DEF TypeInv
  <2>2. UNCHANGED <<cpc, local, copying, swallowed>>
    BY <1>1, HandlerFrame DEF clientVars
  <2>3. TypeOK'
    BY <1>1, <2>1, <2>2, FileTypes, HandlerWires DEF TypeInv, TypeOK, ControlInv, Statements, Streams
  <2> QED BY <2>1, <2>3 DEF TypeInv
<1>2. ASSUME NEW h \in Sessions, Client(h) \/ ClientQuit(h) PROVE TypeInv'
  <2>1. ControlInv'
    BY <1>2, ClientFrame DEF TypeInv, ControlInv
  <2> QED BY <1>2, <2>1, ClientTypes DEF TypeInv
<1>3. CASE AllFinished \/ UNCHANGED vars
  <2>1. UNCHANGED <<name, temp, data, mode, pc, at, authd, fd, s2c, c2s, cpc, local, copying, swallowed>>
    BY <1>3 DEF AllFinished, vars, fsVars, serverVars, clientVars
  <2>2. TypeOK'
    BY <2>1 DEF TypeInv, TypeOK
  <2>3. ControlInv'
    BY <2>1 DEF TypeInv, ControlInv
  <2>4. OpenInv'
    BY <2>1 DEF TypeInv, OpenInv, File
  <2> QED BY <2>2, <2>3, <2>4 DEF TypeInv
<1> QED BY <1>1, <1>2, <1>3 DEF Next

\* Files, streams, sockets and copies keep their types.
THEOREM TypeCorrect == Spec => []TypeOK
BY InitTypes, NextTypes, PTL DEF Spec, TypeInv

-------------------------------------------------------------------------------
(* Which inodes are whose. *)

Booking(h, f) == at[h] <= Len(Items[h]) /\ Items[h][at[h]] = [op |-> "bookin", file |-> f]

\* The inodes a file may come to have.
Own(f) == {f} \cup {i \in NewInodes : Items[i[1]][i[2]] = [op |-> "bookin", file |-> f]}

OwnInv ==
    /\ \A f \in Files : name[f] \in Own(f) \cup {Absent} /\ temp[f] \in Own(f) \cup {Absent}
    /\ \A h \in Sessions : pc[h] \in BookingIn => fd[h].ino \in Own(File(h))

LEMMA OwnApart ==
    /\ \A f \in Files : Own(f) \subseteq Inodes
    /\ \A f, g \in Files : f # g => Own(f) \cap Own(g) = {}
BY AbsentAssumption DEF Own, Inodes

\* The new inode of a book-in is its file's.
LEMMA OwnNew ==
    ASSUME ControlInv, NEW h \in Sessions, at[h] <= Len(Items[h]), Items[h][at[h]].op = "bookin"
    PROVE  /\ File(h) \in Files /\ Booking(h, File(h)) /\ BooksIn(h, File(h))
           /\ <<h, at[h]>> \in Own(File(h)) /\ <<h, at[h]>> \in NewInodes
<1>1. at[h] \in Nat \ {0}
  BY DEF ControlInv
<1>2. /\ Items[h][at[h]].file \in Files
      /\ Items[h][at[h]] = [op |-> "bookin", file |-> Items[h][at[h]].file]
      /\ <<h, at[h]>> \in Inodes
  BY <1>1, BookinItem
<1>3. Len(Items[h]) \in Nat
  BY SessionAssumption
<1>4. at[h] \in 1 .. Len(Items[h])
  BY <1>1, <1>3
<1>5. <<h, at[h]>> \in NewInodes
  BY <1>4 DEF NewInodes
<1> QED BY <1>2, <1>4, <1>5 DEF Own, File, Booking, BooksIn

\* Of other handlers a step changes nothing, streams included.
LEMMA StreamsStay ==
    ASSUME TypeInv, NEW h \in Sessions, Handler(h) \/ HandlerKilled(h)
    PROVE  \A j \in Sessions \ {h} : fd'[j] = fd[j]
<1>1. CASE FileStep(h)
  BY <1>1, ZenonT(40) DEF FileStep, OutStat, OutOpen, OutOpenFails, OutSend, InOpen, InReply, InAbort,
     InReceive, InStat, InChmod,
     InClose, TypeInv, TypeOK
<1> QED BY <1>1, OtherSteps

\* Inside a book-in the stream keeps its inode, and the handler its item.
LEMMA StreamOfBookin ==
    ASSUME TypeInv, NEW h \in Sessions, Handler(h) \/ HandlerKilled(h), ~ InOpen(h), pc'[h] \in BookingIn
    PROVE  pc[h] \in BookingIn /\ fd'[h].ino = fd[h].ino /\ at'[h] = at[h]
<1> USE DEF TypeInv, ControlInv, Goto, Advance, BookingIn
<1>1. CASE Request(h) \/ RequestFails(h) \/ RulePasses(h) \/ AskAuth(h) \/ AuthLine(h) \/ AuthEnds(h)
  BY <1>1 DEF Request, RequestFails, RulePasses, AskAuth, AuthLine, AuthEnds, RuleInHand
<1>2. CASE Refuse(h) \/ Permit(h) \/ Require(h) \/ ClientRunLine(h) \/ Run(h) \/ EndOfItems(h)
           \/ InOpenFails(h) \/ CloseSession(h)
  BY <1>2 DEF Refuse, Permit, Require, ClientRunLine, Run, EndOfItems, InOpenFails, CloseSession, AtItem
<1>3. CASE OutStat(h) \/ OutOpen(h) \/ OutOpenFails(h) \/ OutSend(h) \/ InAbort(h) \/ InClose(h) \/ HandlerKilled(h)
  BY <1>3 DEF OutStat, OutOpen, OutOpenFails, OutSend, InAbort, InClose, HandlerKilled, AtItem
<1>4. CASE InReply(h) \/ InStat(h)
  BY <1>4 DEF InReply, InStat, TypeOK
<1>5. CASE InReceive(h)
  BY <1>5 DEF InReceive, TypeOK
<1>6. CASE InReceiveEnds(h) \/ InRename(h) \/ InChmod(h)
  BY <1>6 DEF InReceiveEnds, InRename, InChmod, TypeOK
<1> QED BY <1>1, <1>2, <1>3, <1>4, <1>5, <1>6 DEF Handler

LEMMA OwnStep ==
    ASSUME TypeInv, OwnInv, NEW h \in Sessions, Handler(h) \/ HandlerKilled(h)
    PROVE  OwnInv'
<1>1. CASE InOpen(h)
  <2> DEFINE i == IF temp[File(h)] = Absent THEN <<h, at[h]>> ELSE temp[File(h)]
  <2>1. /\ name' = name /\ temp' = [temp EXCEPT ![File(h)] = i] /\ at' = at
        /\ fd' = [fd EXCEPT ![h] = [NoStream EXCEPT !.ino = i]]
        /\ pc' = [pc EXCEPT ![h] = "inreply"]
        /\ at[h] <= Len(Items[h]) /\ Items[h][at[h]].op = "bookin"
    BY <1>1 DEF InOpen, AtItem, Goto
  <2>2. File(h) \in Files /\ i \in Own(File(h))
    BY <2>1, OwnNew DEF TypeInv, OwnInv
  <2> HIDE DEF i
  <2>3. fd'[h].ino = i
    BY <2>1 DEF TypeInv, TypeOK, NoStream
  <2>4. \A f \in Files : temp'[f] \in Own(f) \cup {Absent}
    BY <2>1, <2>2 DEF TypeInv, ControlInv, OwnInv
  <2>5. \A j \in Sessions : File(j)' = File(j)
    BY <2>1 DEF File
  <2>6. \A j \in Sessions : pc'[j] \in BookingIn => fd'[j].ino \in Own(File(j))
    BY <2>1, <2>2, <2>3 DEF TypeInv, TypeOK, OwnInv
  <2> QED BY <2>1, <2>4, <2>5, <2>6 DEF OwnInv
<1>2. CASE ~ InOpen(h)
  <2>1. \A f \in Files : name'[f] \in Own(f) \cup {Absent} /\ temp'[f] \in Own(f) \cup {Absent}
    <3>1. CASE InAbort(h) \/ InRename(h)
      <4>1. pc[h] \in BookingIn
        BY <3>1 DEF InAbort, InRename, BookingIn
      <4>2. File(h) \in Files
        BY <4>1, OwnNew DEF TypeInv, ControlInv
      <4> QED BY <3>1, <4>2 DEF InAbort, InRename, OwnInv, TypeInv, ControlInv
    <3>2. CASE ~ InAbort(h) /\ ~ InRename(h)
      BY <1>2, <3>2, QuietSteps DEF QuietStep, OwnInv, TypeInv
    <3> QED BY <3>1, <3>2
  <2>2. ASSUME NEW j \in Sessions, pc'[j] \in BookingIn
        PROVE  fd'[j].ino \in Own(File(j)')
    <3>1. pc[j] \in BookingIn /\ fd'[j].ino = fd[j].ino /\ at'[j] = at[j]
      BY <1>2, <2>2, OthersStay, StreamsStay, StreamOfBookin DEF TypeInv
    <3> QED BY <3>1 DEF OwnInv, File
  <2> QED BY <2>1, <2>2 DEF OwnInv, File
<1> QED BY <1>1, <1>2

-------------------------------------------------------------------------------
(* The modes of files. *)

\* A handler that died between rename and close was booking a file in.
TornInv ==
    \A h \in Sessions : pc[h] = "torn" => at[h] <= Len(Items[h]) /\ Items[h][at[h]].op = "bookin"

ModeInv ==
    \A f \in Unshared \ Missing : \A h \in Sessions :
        pc[h] \in {"inrename", "inchmod"} /\ Booking(h, f) => fd[h].mode = "kept"

FilesInv == OwnInv /\ TornInv /\ ModeInv /\ ModeKept

\* Only InChmod sets a mode, and only it and a kill go on after a rename.
LEMMA ModeSteps ==
    ASSUME TypeInv, NEW h \in Sessions, Handler(h) \/ HandlerKilled(h)
    PROVE  /\ ~ InChmod(h) => mode' = mode
           /\ ~ InChmod(h) /\ ~ HandlerKilled(h) => pc[h] \notin {"inchmod", "torn"}
           /\ ~ InStat(h) /\ ~ InRename(h) => pc'[h] \notin {"inrename", "inchmod"}
           /\ HandlerKilled(h) => pc[h] # "torn" /\ (pc[h] = "inchmod" => pc'[h] = "torn")
           /\ pc'[h] = "torn" => pc[h] \in {"inchmod", "inclose"} /\ at'[h] = at[h]
<1> USE DEF TypeInv, ControlInv, Goto, Advance, fsVars
<1>1. CASE Request(h) \/ RequestFails(h) \/ RulePasses(h) \/ AskAuth(h)
  BY <1>1 DEF Request, RequestFails, RulePasses, AskAuth, RuleInHand
<1>2. CASE AuthLine(h) \/ AuthEnds(h) \/ Refuse(h) \/ Permit(h)
  BY <1>2 DEF AuthLine, AuthEnds, Refuse, Permit, RuleInHand
<1>3. CASE Require(h) \/ ClientRunLine(h) \/ Run(h) \/ EndOfItems(h) \/ InOpenFails(h) \/ CloseSession(h)
  BY <1>3 DEF Require, ClientRunLine, Run, EndOfItems, InOpenFails, CloseSession, AtItem
<1>4. CASE OutStat(h) \/ OutOpen(h) \/ OutOpenFails(h) \/ OutSend(h)
  BY <1>4 DEF OutStat, OutOpen, OutOpenFails, OutSend, AtItem
<1>5. CASE InOpen(h) \/ InReply(h) \/ InAbort(h)
  BY <1>5 DEF InOpen, InReply, InAbort, AtItem
<1>6. CASE InReceive(h) \/ InReceiveEnds(h)
  BY <1>6 DEF InReceive, InReceiveEnds
<1>7. CASE InStat(h) \/ InRename(h)
  BY <1>7 DEF InStat, InRename
<1>9. CASE InChmod(h)
  BY <1>9 DEF InChmod, HandlerKilled
<1>10. CASE InClose(h)
  BY <1>10 DEF InClose
<1>8. CASE HandlerKilled(h)
  BY <1>8 DEF HandlerKilled, Closed
<1> QED BY <1>1, <1>2, <1>3, <1>4, <1>5, <1>6, <1>7, <1>8, <1>9, <1>10 DEF Handler

LEMMA TornStep ==
    ASSUME TypeInv, TornInv, NEW h \in Sessions, Handler(h) \/ HandlerKilled(h)
    PROVE  TornInv'
<1> SUFFICES ASSUME NEW j \in Sessions, pc'[j] = "torn"
             PROVE  at'[j] <= Len(Items[j]) /\ Items[j][at'[j]].op = "bookin"
  BY DEF TornInv
<1>1. CASE j # h
  BY <1>1, OthersStay DEF TypeInv, TornInv
<1>2. CASE j = h
  BY <1>2, ModeSteps DEF TypeInv, ControlInv, BookingIn
<1> QED BY <1>1, <1>2

LEMMA ModeStep ==
    ASSUME TypeInv, FilesInv, NeverMissing, NEW h \in Sessions, Handler(h) \/ HandlerKilled(h)
    PROVE  ModeInv' /\ ModeKept'
<1> USE DEF FilesInv
<1>1. \A j \in Sessions \ {h} : pc'[j] = pc[j] /\ at'[j] = at[j] /\ fd'[j] = fd[j]
  BY OthersStay, StreamsStay DEF TypeInv
<1>2. ASSUME NEW f \in Unshared \ Missing, NEW j \in Sessions,
             pc'[j] \in {"inrename", "inchmod"}, Booking(j, f)'
      PROVE  fd'[j].mode = "kept"
  <2>1. CASE j # h
    BY <1>1, <1>2, <2>1 DEF ModeInv, Booking
  <2>2. CASE j = h /\ InRename(h)
    <3>1. pc[h] = "inrename" /\ UNCHANGED <<fd, at>>
      BY <2>2 DEF InRename
    <3> QED BY <1>2, <2>2, <3>1 DEF ModeInv, Booking
  <2>3. CASE j = h /\ InStat(h)
    <3>1. /\ pc[h] = "instat" /\ at' = at
          /\ fd'[h].mode = IF name[File(h)] = Absent THEN "garbage" ELSE mode[name[File(h)]]
      BY <2>3 DEF InStat, TypeInv, TypeOK
    <3>2. Booking(h, f) /\ File(h) = f /\ BooksIn(h, f) /\ f \in Files
      <4>1. Items[h][at[h]] = [op |-> "bookin", file |-> f] /\ at[h] <= Len(Items[h])
        BY <1>2, <2>3, <3>1 DEF Booking
      <4>2. Items[h][at[h]].op = "bookin" /\ File(h) = f
        BY <4>1 DEF File
      <4>3. File(h) \in Files /\ BooksIn(h, File(h))
        BY <4>1, <4>2, OwnNew DEF TypeInv
      <4> QED BY <4>1, <4>2, <4>3 DEF Booking
    <3>3. name[f] # Absent
      BY <1>2, <3>2 DEF NeverMissing
    <3>4. ASSUME NEW k \in Sessions, pc[k] \in {"inchmod", "torn"}, File(k) = f PROVE FALSE
      <4>1. BooksIn(k, f)
        BY <3>4, OwnNew DEF TypeInv, ControlInv, TornInv, BookingIn
      <4>2. k = h
        BY <1>2, <3>2, <4>1 DEF Unshared
      <4> QED BY <3>1, <3>4, <4>2
    <3>5. mode[name[f]] = "kept"
      BY <1>2, <3>4 DEF ModeKept
    <3> QED BY <2>3, <3>1, <3>2, <3>3, <3>5
  <2>4. CASE j = h /\ ~ InRename(h) /\ ~ InStat(h)
    BY <1>2, <2>4, ModeSteps
  <2> QED BY <2>1, <2>2, <2>3, <2>4
<1>3. ASSUME NEW f \in Unshared \ Missing,
             \A j \in Sessions : pc'[j] \in {"inchmod", "torn"} => File(j)' # f
      PROVE  mode'[name'[f]] = "kept"
  <2>0. f \in Files /\ name[f] # Absent
    BY <1>3 DEF Unshared, NeverMissing
  <2>1. ASSUME ~ InChmod(h), \A j \in Sessions : pc[j] \in {"inchmod", "torn"} => File(j) # f, name'[f] = name[f]
        PROVE  mode'[name'[f]] = "kept"
    BY <1>3, <2>1, ModeSteps DEF ModeKept
  <2>2. ASSUME ~ InChmod(h) PROVE \A j \in Sessions : pc[j] \in {"inchmod", "torn"} => File(j) # f
    <3> SUFFICES ASSUME NEW j \in Sessions, pc[j] \in {"inchmod", "torn"}, File(j) = f PROVE FALSE
      OBVIOUS
    <3>1. CASE j # h
      BY <1>1, <1>3, <3>1 DEF File
    <3>2. CASE j = h
      <4>1. HandlerKilled(h) /\ pc'[h] = "torn" /\ at' = at
        BY <2>2, <3>2, ModeSteps DEF HandlerKilled
      <4> QED BY <1>3, <3>2, <4>1 DEF File
    <3> QED BY <3>1, <3>2
  <2>3. CASE InRename(h)
    <3>1. File(h) \in Files /\ pc'[h] = "inchmod" /\ at' = at /\ ~ InChmod(h)
      BY <2>3, OwnNew DEF InRename, InChmod, Goto, TypeInv, ControlInv, BookingIn
    <3>2. File(h) # f
      BY <1>3, <3>1 DEF File
    <3>3. name'[f] = name[f]
      BY <2>0, <2>3, <3>1, <3>2 DEF InRename, TypeInv, ControlInv
    <3> QED BY <2>1, <2>2, <3>1, <3>3
  <2>4. CASE InChmod(h)
    <3>1. /\ pc[h] = "inchmod" /\ UNCHANGED <<at, name>>
          /\ mode' = IF name[File(h)] = Absent THEN mode ELSE [mode EXCEPT ![name[File(h)]] = fd[h].mode]
      BY <2>4 DEF InChmod
    <3>2. File(h) \in Files /\ Booking(h, File(h))
      BY <3>1, OwnNew DEF TypeInv, ControlInv, BookingIn
    <3>3. CASE File(h) = f
      <4>1. fd[h].mode = "kept"
        BY <1>3, <3>1, <3>2, <3>3 DEF ModeInv
      <4>2. name[f] \in Inodes
        BY <2>0 DEF TypeInv, ControlInv
      <4> QED BY <2>0, <3>1, <3>3, <4>1, <4>2 DEF TypeInv, TypeOK
    <3>4. CASE File(h) # f
      <4>1. \A j \in Sessions : pc[j] \in {"inchmod", "torn"} => File(j) # f
        BY <1>1, <1>3, <3>1, <3>4 DEF File
      <4>2. mode[name[f]] = "kept"
        BY <1>3, <4>1 DEF ModeKept
      <4>3. name[File(h)] # name[f]
        BY <2>0, <3>2, <3>4, OwnApart DEF OwnInv
      <4>4. name[f] \in Inodes
        BY <2>0 DEF TypeInv, ControlInv
      <4> QED BY <3>1, <4>2, <4>3, <4>4 DEF TypeInv, TypeOK
    <3> QED BY <3>3, <3>4
  <2>5. CASE ~ InRename(h) /\ ~ InChmod(h)
    <3>1. name'[f] = name[f]
      <4>1. CASE InOpen(h) \/ InAbort(h)
        BY <4>1 DEF InOpen, InAbort
      <4>2. CASE ~ (InOpen(h) \/ InAbort(h))
        BY <2>5, <4>2, QuietSteps DEF QuietStep, TypeInv
      <4> QED BY <4>1, <4>2
    <3> QED BY <2>1, <2>2, <2>5, <3>1
  <2> QED BY <2>3, <2>4, <2>5
<1>4. ModeInv'
  BY <1>2 DEF ModeInv
<1> QED BY <1>3, <1>4 DEF ModeKept

LEMMA InitFiles == Init => FilesInv
<1> SUFFICES ASSUME Init PROVE FilesInv
  OBVIOUS
<1>1. \A h \in Sessions : pc[h] \in {"request", "done"}
  BY DEF Init
<1>2. OwnInv
  BY <1>1 DEF Init, OwnInv, Own, BookingIn
<1>3. \A f \in Unshared \ Missing : name[f] = f /\ mode[f] = "kept"
  BY DEF Init, Unshared, Inodes
<1> QED BY <1>1, <1>2, <1>3 DEF FilesInv, TornInv, ModeInv, ModeKept

LEMMA NextFiles == TypeInv /\ IInv /\ FilesInv /\ [Next]_vars => FilesInv'
<1> SUFFICES ASSUME TypeInv, IInv, FilesInv, [Next]_vars PROVE FilesInv'
  OBVIOUS
<1>1. ASSUME NEW h \in Sessions, Handler(h) \/ HandlerKilled(h) PROVE FilesInv'
  BY <1>1, OwnStep, TornStep, ModeStep DEF FilesInv, IInv
<1>2. CASE UNCHANGED <<name, temp, mode, pc, at, fd>>
  BY <1>2 DEF FilesInv, OwnInv, TornInv, ModeInv, ModeKept, Booking, File
<1>3. ASSUME NEW h \in Sessions, Client(h) \/ ClientQuit(h) PROVE FilesInv'
  BY <1>2, <1>3, ClientFrame, ClientFiles
<1>4. CASE AllFinished \/ UNCHANGED vars
  BY <1>2, <1>4 DEF AllFinished, vars, fsVars, serverVars
<1> QED BY <1>1, <1>3, <1>4 DEF Next

\* What every behaviour keeps, for the proofs that build on it.
LEMMA AlwaysTyped == Spec => [](TypeInv /\ IInv /\ FilesInv)
<1>1. Init => TypeInv /\ IInv /\ FilesInv
  BY InitTypes, InitInv, InitFiles
<1>2. (TypeInv /\ IInv /\ FilesInv) /\ [Next]_vars => (TypeInv /\ IInv /\ FilesInv)'
  BY NextTypes, NextInv, NextFiles
<1> QED BY <1>1, <1>2, PTL DEF Spec

\* BookinFileFromClient: a file that one session books in keeps its permissions,
\* although it is a new file each time, made with mode 0600, and whatever else is
\* killed, interrupted or late.
THEOREM PermissionsKept == Spec => []ModeKept
BY AlwaysTyped, PTL DEF FilesInv
===============================================================================
