-------------------------- MODULE SessionFiles_proofs --------------------------
(***************************************************************************)
(* What becomes of the content of files that are booked out and in, for    *)
(* any number of sessions, any configuration and any kills: the copy a     *)
(* user has is the whole file as it is, and what a session books in is its *)
(* user's copy, whole, provided that the user answers in time and that no  *)
(* other session books the same file in.  At the end: orderly sessions     *)
(* implement BookInOut.                                                    *)
(***************************************************************************)
EXTENDS Session_proofs

\* Users who answer within 30 seconds and do not interrupt their client.
Prompt == Sessions \ (Slow \cup Mortal)

-------------------------------------------------------------------------------
(* The two ends of a connection are in step. *)

\* The client owes no answer and is asked for none.
Idle(h) ==
    /\ c2s[h] = <<>>
    /\ cpc[h] \in {"read", "copy", "raw", "run"}
    /\ \A k \in 1 .. Len(s2c[h]) : s2c[h][k].type \notin {"auth", "bookin"}

\* The last thing sent to it asks for one.
Asked(h, t) ==
    /\ c2s[h] = <<>>
    /\ cpc[h] \in {"read", "copy", "raw", "run"}
    /\ Len(s2c[h]) > 0
    /\ s2c[h][Len(s2c[h])].type = t
    /\ \A k \in 1 .. Len(s2c[h]) - 1 : s2c[h][k].type \notin {"auth", "bookin"}

AskedFor(h) == Asked(h, "bookin") /\ s2c[h][Len(s2c[h])].file = File(h)

Starting(h) ==
    /\ s2c[h] = <<>>
    /\ \/ cpc[h] = "start" /\ c2s[h] = <<>>
       \/ cpc[h] = "read" /\ Len(c2s[h]) = 1

Prompted(h) ==
    /\ s2c[h] = <<>>
    /\ \/ cpc[h] = "prompt" /\ c2s[h] = <<>>
       \/ cpc[h] = "read" /\ Len(c2s[h]) = 1

\* The copy is on its way: n lines and then blocks are in the socket, after those
\* that have been written; nothing at all may follow when the client's Size is 0.
Uploading(h, n) ==
    LET w == local[h][File(h)]
        j == fd[h].pos + Len(c2s[h]) - n
    IN  /\ w # Absent
        /\ s2c[h] = <<>>
        /\ j <= Len(w)
        /\ \/ cpc[h] = "upload" /\ copying[h] = [file |-> File(h), left |-> Len(w) - j]
           \/ cpc[h] = "read" /\ (j = Len(w) \/ j = 0)
        /\ \A k \in 1 .. Len(c2s[h]) - n : c2s[h][n + k] = Data(w[fd[h].pos + k])

Answering(h) ==
    /\ c2s[h] # <<>>
    /\ c2s[h][1] = [type |-> "bookin", file |-> File(h), size |-> Len(local[h][File(h)])]
    /\ Uploading(h, 1)

\* The copy has arrived, its last block in the buffer of the stream.
Received(h) ==
    LET w == local[h][File(h)] IN
    /\ s2c[h] = <<>> /\ c2s[h] = <<>> /\ cpc[h] = "read"
    /\ w # Absent
    /\ fd[h].pos + Len(fd[h].buf) = Len(w)
    /\ fd[h].buf = IF w = <<>> THEN <<>> ELSE <<w[Len(w)]>>

Filing == {"instat", "inrename", "inchmod", "inclose"}

InStep(h) ==
    /\ pc[h] = "request" => Starting(h)
    /\ pc[h] = "auth" => Idle(h) \/ Asked(h, "auth") \/ Prompted(h)
    /\ pc[h] = "inreply" => /\ Idle(h) \/ AskedFor(h) \/ Answering(h)
                            /\ fd[h].pos = 0 /\ fd[h].buf = <<>>
    /\ pc[h] = "inrecv" => /\ Uploading(h, 0)
                           /\ fd[h].left = Len(local[h][File(h)]) - fd[h].pos /\ fd[h].left > 0
                           /\ fd[h].buf = <<>>
    /\ pc[h] \in Filing => Received(h)
    /\ pc[h] \in {"rules", "items", "outopen", "outsend", "close"} => Idle(h)

SyncInv == \A h \in Prompt : ~ Closed(h) => InStep(h)

-------------------------------------------------------------------------------

\* Sockets, clients and copies of other sessions stay as they are.
LEMMA WiresStay ==
    ASSUME TypeInv, NEW h \in Sessions, Handler(h) \/ HandlerKilled(h) \/ Client(h) \/ ClientQuit(h)
    PROVE  \A j \in Sessions \ {h} : s2c'[j] = s2c[j] /\ c2s'[j] = c2s[j]
<1>0. s2c \in [Sessions -> Seq(ToClient)] /\ c2s \in [Sessions -> Seq(ToHandler)]
  BY DEF TypeInv, TypeOK
<1> USE DEF Send, Receive
<1>1. CASE Request(h) \/ RequestFails(h) \/ RulePasses(h) \/ AskAuth(h) \/ AuthLine(h)
  BY <1>0, <1>1 DEF Request, RequestFails, RulePasses, AskAuth, AuthLine
<1>2. CASE AuthEnds(h)
  BY <1>0, <1>2 DEF AuthEnds
<1>3. CASE Refuse(h) \/ Permit(h) \/ Require(h) \/ ClientRunLine(h) \/ EndOfItems(h) \/ InOpenFails(h)
           \/ CloseSession(h)
  BY <1>0, <1>3 DEF Refuse, Permit, Require, ClientRunLine, EndOfItems, InOpenFails, CloseSession
<1>4. CASE Run(h)
  BY <1>0, <1>4 DEF Run
<1>5. CASE OutStat(h) \/ OutOpen(h) \/ OutOpenFails(h)
  BY <1>0, <1>5 DEF OutStat, OutOpen, OutOpenFails
<1>6. CASE OutSend(h)
  BY <1>0, <1>6 DEF OutSend
<1>7. CASE InOpen(h)
  BY <1>0, <1>7 DEF InOpen
<1>8. CASE InReply(h) \/ InAbort(h) \/ InReceive(h) \/ InReceiveEnds(h)
  BY <1>0, <1>8 DEF InReply, InAbort, InReceive, InReceiveEnds
<1>9. CASE InStat(h) \/ InRename(h) \/ InChmod(h) \/ InClose(h) \/ HandlerKilled(h)
  BY <1>0, <1>9, SMTT(40) DEF InStat, InRename, InChmod, InClose, HandlerKilled
<1>10. CASE ClientStart(h) \/ ClientAuthEnds(h) \/ ClientUpload(h)
  BY <1>0, <1>10 DEF ClientStart, ClientAuthEnds, ClientUpload, Reply
<1>11. CASE ClientBookin(h)
  BY <1>0, <1>11 DEF ClientBookin, NextLine, Reply
<1>12. CASE ClientBookout(h) \/ ClientCopy(h) \/ ClientRunBegins(h) \/ ClientRunEnds(h) \/ ClientAuthBegins(h)
  BY <1>0, <1>12 DEF ClientBookout, ClientCopy, ClientRunBegins, ClientRunEnds, ClientAuthBegins, NextLine
<1>13. CASE ClientOkay(h) \/ ClientRaw(h) \/ ClientPrint(h) \/ ClientEnd(h) \/ ClientQuit(h)
  BY <1>0, <1>13 DEF ClientOkay, ClientRaw, ClientPrint, ClientEnd, ClientQuit, NextLine
<1> QED
  BY <1>1, <1>2, <1>3, <1>4, <1>5, <1>6, <1>7, <1>8, <1>9, <1>10, <1>11, <1>12, <1>13 DEF Handler, Client

LEMMA ClientsStay ==
    ASSUME TypeInv, NEW h \in Sessions, Client(h) \/ ClientQuit(h)
    PROVE  \A j \in Sessions \ {h} : cpc'[j] = cpc[j] /\ local'[j] = local[j] /\ copying'[j] = copying[j]
<1>0. /\ cpc \in [Sessions -> {"start", "read", "copy", "upload", "raw", "run", "prompt", "gone"}]
      /\ local \in [Sessions -> [Files -> Seq(Block) \cup {Absent}]]
      /\ copying \in [Sessions -> Transfers]
  BY SMTT(40) DEF TypeInv, TypeOK, Transfers
<1>1. CASE ClientStart(h) \/ ClientAuthEnds(h) \/ ClientUpload(h)
  BY <1>0, <1>1 DEF ClientStart, ClientAuthEnds, ClientUpload, Reply
<1>2. CASE ClientBookin(h)
  BY <1>0, <1>2 DEF ClientBookin, Reply
<1>3. CASE ClientBookout(h)
  BY <1>0, <1>3 DEF ClientBookout
<1>4. CASE ClientCopy(h)
  BY <1>0, <1>4 DEF ClientCopy
<1>5. CASE ClientRunBegins(h) \/ ClientRunEnds(h) \/ ClientAuthBegins(h)
  BY <1>0, <1>5 DEF ClientRunBegins, ClientRunEnds, ClientAuthBegins
<1>6. CASE ClientOkay(h) \/ ClientRaw(h) \/ ClientPrint(h) \/ ClientEnd(h) \/ ClientQuit(h)
  BY <1>0, <1>6 DEF ClientOkay, ClientRaw, ClientPrint, ClientEnd, ClientQuit, clientVars
<1> QED BY <1>1, <1>2, <1>3, <1>4, <1>5, <1>6 DEF Client

\* A step of one session leaves all the others have in hand alone.
SameSession(j) ==
    /\ pc'[j] = pc[j] /\ at'[j] = at[j] /\ fd'[j] = fd[j]
    /\ s2c'[j] = s2c[j] /\ c2s'[j] = c2s[j]
    /\ cpc'[j] = cpc[j] /\ local'[j] = local[j] /\ copying'[j] = copying[j]

LEMMA OneSession ==
    ASSUME TypeInv, NEW h \in Sessions, Handler(h) \/ HandlerKilled(h) \/ Client(h) \/ ClientQuit(h)
    PROVE  \A j \in Sessions \ {h} : SameSession(j)
<1> SUFFICES ASSUME NEW j \in Sessions \ {h} PROVE SameSession(j)
  OBVIOUS
<1>1. s2c'[j] = s2c[j] /\ c2s'[j] = c2s[j]
  BY WiresStay
<1>2. CASE Handler(h) \/ HandlerKilled(h)
  <2>1. ControlInv
    BY DEF TypeInv
  <2>2. pc'[j] = pc[j] /\ at'[j] = at[j]
    BY <1>2, <2>1, OthersStay
  <2>3. fd'[j] = fd[j]
    BY <1>2, StreamsStay
  <2>4. cpc' = cpc /\ local' = local /\ copying' = copying
    BY <1>2, HandlerFrame DEF clientVars
  <2> QED BY <1>1, <2>2, <2>3, <2>4 DEF SameSession
<1>3. CASE Client(h) \/ ClientQuit(h)
  <2>1. cpc'[j] = cpc[j] /\ local'[j] = local[j] /\ copying'[j] = copying[j]
    BY <1>3, ClientsStay
  <2>2. pc' = pc /\ at' = at
    BY <1>3, ClientFrame
  <2>3. fd' = fd
    BY <1>3, ClientFiles
  <2> QED BY <1>1, <2>1, <2>2, <2>3 DEF SameSession
<1> QED
  <2> HIDE DEF SameSession
  <2> QED BY <1>2, <1>3

LEMMA InStepSame == ASSUME NEW j \in Sessions, SameSession(j), InStep(j) PROVE InStep(j)'
<1> USE DEF SameSession
<1>1. File(j)' = File(j)
  BY DEF File
<1>2. Idle(j)' = Idle(j) /\ AskedFor(j)' = AskedFor(j) /\ Starting(j)' = Starting(j) /\ Prompted(j)' = Prompted(j)
  BY <1>1 DEF Idle, Asked, AskedFor, Starting, Prompted
<1>3. Asked(j, "auth")' = Asked(j, "auth") /\ Received(j)' = Received(j)
  BY <1>1 DEF Asked, Received
<1>4. Uploading(j, 0)' = Uploading(j, 0) /\ Uploading(j, 1)' = Uploading(j, 1)
  BY <1>1 DEF Uploading
<1>5. Answering(j)' = Answering(j)
  BY <1>1, <1>4 DEF Answering
<1> QED BY <1>1, <1>2, <1>3, <1>4, <1>5 DEF InStep

-------------------------------------------------------------------------------
(* A user in time answers what was asked, and nothing else. *)

LEMMA Present ==
    ASSUME TypeInv, NEW h \in Prompt, ~ Closed(h), InStep(h)
    PROVE  /\ ~ Gone(h)
           /\ NoAnswer(h) => c2s[h] = <<>> /\ s2c[h] = <<>> /\ cpc[h] \in {"read", "copy", "raw"}
<1>1. pc[h] \in {"request", "rules", "auth", "items", "close", "outopen", "outsend"} \cup BookingIn
  BY DEF Closed, TypeInv, TypeOK, Prompt
<1>2. cpc[h] # "gone"
  BY <1>1 DEF InStep, BookingIn, Filing, Idle, Asked, AskedFor, Starting, Prompted, Uploading, Answering, Received
<1> QED BY <1>2 DEF Gone, NoAnswer, HangUp, TimedOut, ClientWaits, Prompt

\* What a handler that is at no statement of waiting keeps of its client.
LEMMA IdleAfter ==
    ASSUME TypeInv, NEW h \in Sessions, Idle(h), NEW m \in ToClient, Send(h, <<m>>),
           c2s' = c2s, cpc' = cpc
    PROVE  /\ m.type \notin {"auth", "bookin"} => Idle(h)'
           /\ ~ Gone(h) => Asked(h, m.type)' /\ s2c'[h][Len(s2c'[h])] = m
<1>1. s2c[h] \in Seq(ToClient)
  BY DEF TypeInv, TypeOK
<1>2. s2c'[h] = s2c[h] \o <<m>> \/ (Gone(h) /\ s2c'[h] = s2c[h])
  BY DEF Send, TypeInv, TypeOK
<1>3. DEFINE s == s2c[h] \o <<m>>
<1>4. Len(s) = Len(s2c[h]) + 1 /\ s[Len(s)] = m /\ \A k \in 1 .. Len(s2c[h]) : s[k] = s2c[h][k]
  BY <1>1
<1>5. \A k \in 1 .. Len(s) : k \in 1 .. Len(s2c[h]) \/ k = Len(s)
  BY <1>1, <1>4
<1>6. Len(s2c[h]) \in Nat
  BY <1>1
<1>7. CASE s2c'[h] = s
  <2> HIDE DEF s
  <2>1. m.type \notin {"auth", "bookin"} => Idle(h)'
    BY <1>7, <1>4, <1>5 DEF Idle
  <2>2. Asked(h, m.type)' /\ s2c'[h][Len(s2c'[h])] = m
    BY <1>7, <1>4, <1>6 DEF Idle, Asked
  <2> QED BY <2>1, <2>2
<1>8. CASE Gone(h) /\ s2c'[h] = s2c[h]
  BY <1>8 DEF Idle, Gone
<1> QED BY <1>2, <1>7, <1>8

LEMMA LastOne ==
    ASSUME NEW s \in Seq(ToHandler), Len(s) = 1
    PROVE  Tail(s) = <<>>
<1>1. \A t \in Seq(ToHandler) : Len(t) = 0 => t = <<>>
  OBVIOUS
<1>2. Tail(s) \in Seq(ToHandler) /\ Len(Tail(s)) = 0
  OBVIOUS
<1> QED BY <1>1, <1>2

LEMMA SyncHandler ==
    ASSUME TypeInv, NEW h \in Prompt, ~ Closed(h), InStep(h), Handler(h), ~ Closed(h)'
    PROVE  InStep(h)'
<1> h \in Sessions
  BY DEF Prompt
<1>0. /\ cpc' = cpc /\ local' = local /\ copying' = copying
      /\ ~ Gone(h)
      /\ NoAnswer(h) => c2s[h] = <<>> /\ s2c[h] = <<>> /\ cpc[h] \in {"read", "copy", "raw"}
  BY HandlerFrame, Present DEF clientVars
<1>1. /\ pc \in [Sessions -> {"request", "rules", "auth", "items", "close", "done",
                              "killed", "torn", "outopen", "outsend"} \cup BookingIn]
      /\ at \in [Sessions -> Nat \ {0}]
      /\ s2c \in [Sessions -> Seq(ToClient)] /\ c2s \in [Sessions -> Seq(ToHandler)]
      /\ fd \in [Sessions -> Streams] /\ fd' \in [Sessions -> Streams]
      /\ s2c'[h] \in Seq(ToClient) /\ c2s'[h] \in Seq(ToHandler)
  BY HandlerWires, FileTypes DEF TypeInv, TypeOK, Streams
<1>2. \A t \in {"auth", "okay", "fail", "clientrun"} : [type |-> t] \in ToClient
  BY DEF ToClient
<1> DEFINE Easy == pc'[h] \in {"rules", "items", "outopen", "outsend", "close"} /\ Idle(h)'
<1>e. ASSUME Easy PROVE InStep(h)'
  BY <1>e DEF InStep, Filing
<1> USE DEF Goto, Advance
<1> HIDE DEF Easy
<1>3. CASE Request(h)
  <2>1. c2s[h] # <<>> /\ c2s'[h] = Tail(c2s[h]) /\ s2c' = s2c /\ pc'[h] \in {"items", "rules"} /\ Starting(h)
    BY <1>3, <1>1 DEF Request, Receive, InStep
  <2>2. c2s'[h] = <<>> /\ cpc[h] = "read" /\ s2c[h] = <<>>
    <3>1. Len(c2s[h]) = 1 /\ cpc[h] = "read" /\ s2c[h] = <<>>
      BY <2>1 DEF Starting
    <3> QED BY <3>1, <2>1, <1>1, LastOne
  <2>3. Idle(h)'
    BY <2>1, <2>2, <1>0, <1>1 DEF Idle
  <2> QED BY <2>1, <2>3, <1>e DEF Easy
<1>4. CASE RequestFails(h)
  <2>1. c2s[h] = <<>> /\ cpc[h] \in {"read", "copy", "raw"} /\ Starting(h)
    BY <1>4, <1>0 DEF RequestFails, InStep
  <2> QED BY <2>1 DEF Starting
<1>5. CASE RulePasses(h) \/ Permit(h) \/ Require(h) \/ EndOfItems(h) \/ InOpenFails(h) \/ OutStat(h)
           \/ OutOpenFails(h)
  <2>1. /\ s2c' = s2c /\ c2s' = c2s /\ pc[h] \in {"rules", "items", "outopen"}
        /\ pc'[h] \in {"rules", "items", "close", "outopen"}
    BY <1>5, <1>1 DEF RulePasses, Permit, Require, EndOfItems, InOpenFails, OutStat, OutOpenFails,
       RuleInHand, AtItem
  <2>2. Idle(h)'
    BY <2>1, <1>0 DEF InStep, Idle
  <2> QED BY <2>1, <2>2, <1>e DEF Easy
<1>6. CASE AskAuth(h)
  <2>1. pc[h] = "rules" /\ pc'[h] = "auth" /\ Send(h, <<[type |-> "auth"]>>) /\ c2s' = c2s
    BY <1>6, <1>1 DEF AskAuth, RuleInHand
  <2>2. Asked(h, "auth")'
    BY <2>1, <1>0, <1>2, IdleAfter DEF InStep
  <2> QED BY <2>1, <2>2 DEF InStep, Filing
<1>7. CASE AuthLine(h)
  <2>1. /\ pc[h] = "auth" /\ pc'[h] = "auth" /\ c2s[h] # <<>> /\ c2s'[h] = Tail(c2s[h])
        /\ s2c'[h] = s2c[h] \o <<[type |-> IF h \in AuthOK THEN "okay" ELSE "fail"]>>
    BY <1>7, <1>1, <1>0 DEF AuthLine, Receive, Send
  <2>2. Prompted(h)
    BY <2>1 DEF InStep, Idle, Asked
  <2>3. c2s'[h] = <<>> /\ cpc[h] = "read" /\ s2c[h] = <<>>
    <3>1. Len(c2s[h]) = 1 /\ cpc[h] = "read" /\ s2c[h] = <<>>
      BY <2>1, <2>2 DEF Prompted
    <3> QED BY <3>1, <2>1, <1>1, LastOne
  <2>4. Idle(h)'
    BY <2>1, <2>3, <1>0, <1>1 DEF Idle
  <2> QED BY <2>1, <2>4 DEF InStep, Filing
<1>8. CASE AuthEnds(h)
  <2>1. /\ pc[h] = "auth" /\ pc'[h] \in {"rules", "close"} /\ c2s' = c2s
        /\ c2s[h] = <<>> /\ s2c[h] = <<>> /\ cpc[h] \in {"read", "copy", "raw"}
        /\ s2c'[h] = s2c[h] \/ s2c'[h] = s2c[h] \o <<[type |-> "fail"]>>
    BY <1>8, <1>1, <1>0 DEF AuthEnds, Send
  <2>2. Idle(h)'
    BY <2>1, <1>0, <1>1 DEF Idle
  <2> QED BY <2>1, <2>2, <1>e DEF Easy
<1>9. CASE Refuse(h)
  <2>1. pc[h] = "rules" /\ pc'[h] = "close" /\ Send(h, <<[type |-> "fail"]>>) /\ c2s' = c2s
    BY <1>9, <1>1 DEF Refuse, RuleInHand
  <2>2. Idle(h)'
    BY <2>1, <1>0, <1>2, IdleAfter DEF InStep
  <2> QED BY <2>1, <2>2, <1>e DEF Easy
<1>10. CASE ClientRunLine(h)
  <2>1. pc[h] = "items" /\ pc'[h] = "items" /\ Send(h, <<[type |-> "clientrun"]>>) /\ c2s' = c2s
    BY <1>10, <1>1 DEF ClientRunLine, AtItem
  <2>2. Idle(h)'
    BY <2>1, <1>0, <1>2, IdleAfter DEF InStep
  <2> QED BY <2>1, <2>2, <1>e DEF Easy
<1>11. CASE Run(h)
  <2>1. /\ pc[h] = "items" /\ pc'[h] = "items" /\ c2s' = c2s /\ Idle(h)
        /\ s2c' = s2c \/ Send(h, <<[type |-> "fail"]>>) \/ Send(h, <<[type |-> "okay"], Data(Output)>>)
    BY <1>11, <1>1 DEF Run, AtItem, InStep
  <2>2. CASE s2c' = s2c
    BY <2>1, <2>2, <1>0, <1>e DEF Idle, Easy
  <2>3. CASE Send(h, <<[type |-> "fail"]>>)
    BY <2>1, <2>3, <1>0, <1>2, <1>e, IdleAfter DEF Easy
  <2>4. CASE Send(h, <<[type |-> "okay"], Data(Output)>>)
    <3> DEFINE s == s2c[h] \o <<[type |-> "okay"], Data(Output)>>
    <3>1. s2c'[h] = s
      BY <2>4, <1>0, <1>1, SMTT(40) DEF Send
    <3>2. /\ Len(s2c[h]) \in Nat /\ Len(s) = Len(s2c[h]) + 2
          /\ \A k \in 1 .. Len(s2c[h]) : s[k] = s2c[h][k]
          /\ s[Len(s2c[h]) + 1] = [type |-> "okay"] /\ s[Len(s2c[h]) + 2] = Data(Output)
      BY <1>1
    <3> HIDE DEF s
    <3>3. \A k \in 1 .. Len(s) : k \in 1 .. Len(s2c[h]) \/ k = Len(s2c[h]) + 1 \/ k = Len(s2c[h]) + 2
      BY <3>2
    <3>4. \A k \in 1 .. Len(s) : s[k].type \notin {"auth", "bookin"}
      BY <3>2, <3>3, <2>1, SMTT(40) DEF Idle, Data
    <3> QED BY <3>1, <3>4, <2>1, <1>0, <1>e DEF Easy, Idle
  <2> QED BY <2>1, <2>2, <2>3, <2>4
<1>12. CASE CloseSession(h)
  BY <1>12, <1>1 DEF CloseSession, Closed
<1>13. CASE OutOpen(h)
  <2>1. [type |-> "bookout", file |-> File(h), size |-> fd[h].size] \in ToClient
    BY <1>13, <1>1, BookoutItem DEF OutOpen, TypeInv, OpenInv, File, ToClient, Streams
  <2>2. /\ pc[h] = "outopen" /\ pc'[h] = "outsend" /\ c2s' = c2s
        /\ Send(h, <<[type |-> "bookout", file |-> File(h), size |-> fd[h].size]>>)
    BY <1>13, <1>1 DEF OutOpen
  <2>3. Idle(h)'
    BY <2>1, <2>2, <1>0, IdleAfter DEF InStep
  <2> QED BY <2>2, <2>3, <1>e DEF Easy
<1>14. CASE OutSend(h)
  <2>1. pc[h] = "outsend" /\ Idle(h) /\ c2s' = c2s
    BY <1>14 DEF OutSend, InStep
  <2>2. CASE fd[h].pos < Len(data[fd[h].ino])
    <3> DEFINE b == data[fd[h].ino][fd[h].pos + 1]
    <3>1. fd[h].ino \in Inodes /\ fd[h].pos \in Nat /\ data[fd[h].ino] \in Seq(Block)
      BY <2>1, <1>1 DEF TypeInv, OpenInv, TypeOK, Streams
    <3>2. Data(b) \in ToClient /\ Data(b).type = "data"
      BY <3>1, <2>2, DataTyped DEF Data
    <3>3. Send(h, <<Data(b)>>) /\ pc' = pc
      BY <1>14, <2>2, <1>0 DEF OutSend
    <3>4. Idle(h)'
      BY <3>2, <3>3, <2>1, <1>0, IdleAfter
    <3> QED BY <3>3, <3>4, <2>1, <1>e DEF Easy
  <2>3. CASE ~ (fd[h].pos < Len(data[fd[h].ino]))
    BY <1>14, <2>1, <2>3, <1>0, <1>1, <1>e DEF OutSend, Idle, Easy
  <2> QED BY <2>2, <2>3
<1>15. CASE InOpen(h)
  <2> DEFINE m == [type |-> "bookin", file |-> File(h), size |-> 0]
  <2>1. m \in ToClient
    BY <1>15, <1>1, BookinItem DEF InOpen, AtItem, File, ToClient
  <2>2. /\ pc[h] = "items" /\ pc'[h] = "inreply" /\ c2s' = c2s /\ Send(h, <<m>>) /\ Idle(h)
        /\ at' = at
        /\ fd'[h].pos = 0 /\ fd'[h].buf = <<>>
    BY <1>15, <1>1 DEF InOpen, AtItem, NoStream, InStep
  <2>3. Asked(h, m.type)' /\ s2c'[h][Len(s2c'[h])] = m
    <3>1. \A x \in ToClient : Send(h, <<x>>) => Asked(h, x.type)' /\ s2c'[h][Len(s2c'[h])] = x
      BY <2>2, <1>0, IdleAfter
    <3> QED BY <3>1, <2>1, <2>2
  <2>4. AskedFor(h)'
    BY <2>2, <2>3 DEF AskedFor, File
  <2> QED BY <2>2, <2>4 DEF InStep, Filing
<1>16. CASE InReply(h)
  <2> DEFINE w == local[h][File(h)]
  <2>1. /\ pc[h] = "inreply" /\ c2s[h] # <<>> /\ c2s'[h] = Tail(c2s[h]) /\ s2c' = s2c /\ at' = at
        /\ fd' = [fd EXCEPT ![h].left = Head(c2s[h]).size]
        /\ pc'[h] = IF Head(c2s[h]).size > 0 THEN "inrecv" ELSE "instat"
    BY <1>16, <1>1 DEF InReply, Receive
  <2>2. Answering(h) /\ fd[h].pos = 0 /\ fd[h].buf = <<>>
    BY <2>1 DEF InStep, Idle, AskedFor, Asked
  <2>3. Head(c2s[h]).size = Len(w) /\ w # Absent
    BY <2>2, <1>1, SMTT(40) DEF Answering, Uploading
  <2>4. w \in Seq(Block) /\ Len(w) \in Nat
    <3>1. File(h) \in Files
      <4>1. at[h] <= Len(Items[h]) /\ Items[h][at[h]].op = "bookin"
        <5>1. pc[h] \in BookingIn
          BY <2>1 DEF BookingIn
        <5> QED BY <5>1 DEF TypeInv, ControlInv
      <4> QED BY <4>1, OwnNew DEF TypeInv
    <3> QED BY <3>1, <2>3 DEF TypeInv, TypeOK
  <2>5. /\ fd'[h].pos = 0 /\ fd'[h].buf = <<>> /\ fd'[h].left = Len(w)
        /\ File(h)' = File(h)
    BY <2>1, <2>2, <2>3, <1>1 DEF Streams, File
  <2>6. /\ Len(c2s'[h]) = Len(c2s[h]) - 1 /\ Len(c2s[h]) \in Nat \ {0}
        /\ \A k \in 1 .. Len(c2s[h]) - 1 : c2s'[h][k] = c2s[h][1 + k]
    BY <2>1, <1>1
  <2>7. Uploading(h, 0)'
    BY <2>2, <2>4, <2>5, <2>6, <2>1, <1>0 DEF Answering, Uploading
  <2>8. CASE Len(w) > 0
    BY <2>8, <2>1, <2>3, <2>5, <2>7, <1>0 DEF InStep, Filing
  <2>9. CASE Len(w) = 0
    <3>1. w = <<>>
      BY <2>9, <2>4
    <3>2. Len(c2s'[h]) = 0
      BY <2>9, <2>5, <2>7, <1>0, <1>1 DEF Uploading
    <3>3. cpc[h] # "upload"
      BY <3>1, <2>2, <2>4, <2>9 DEF Answering, Uploading, TypeInv, OpenInv
    <3>4. Received(h)'
      BY <3>1, <3>2, <3>3, <2>5, <2>7, <2>9, <1>0, <1>1 DEF Received, Uploading
    <3>5. pc'[h] = "instat"
      BY <2>1, <2>3, <2>9
    <3> QED BY <3>4, <3>5 DEF InStep, Filing
  <2> QED BY <2>4, <2>8, <2>9
<1>17. CASE InAbort(h)
  <2>1. /\ pc[h] = "inreply" /\ pc'[h] = "items" /\ s2c' = s2c
        /\ (c2s[h] # <<>> /\ Head(c2s[h]).type # "bookin") \/ (NoAnswer(h) /\ c2s' = c2s)
    BY <1>17, <1>1 DEF InAbort, Receive
  <2>2. ~ (c2s[h] # <<>> /\ Head(c2s[h]).type # "bookin")
    BY <2>1, <1>1 DEF InStep, Idle, AskedFor, Asked, Answering
  <2>3. Idle(h)'
    BY <2>1, <2>2, <1>0 DEF InStep, Idle
  <2> QED BY <2>1, <2>3, <1>e DEF Easy
<1>18. CASE InReceive(h)
  <2> DEFINE w == local[h][File(h)]
  <2>1. /\ pc[h] = "inrecv" /\ c2s[h] # <<>> /\ c2s'[h] = Tail(c2s[h]) /\ s2c' = s2c /\ at' = at
        /\ File(h)' = File(h)
    BY <1>18, <1>1 DEF InReceive, Receive, File
  <2>2. /\ Uploading(h, 0) /\ fd[h].left = Len(w) - fd[h].pos /\ fd[h].left > 0 /\ fd[h].buf = <<>>
    BY <2>1 DEF InStep
  <2>3. /\ w \in Seq(Block) /\ Len(w) \in Nat /\ w # Absent
        /\ fd[h].pos \in Nat /\ fd[h].left \in Nat
    <3>1. File(h) \in Files
      <4>1. at[h] <= Len(Items[h]) /\ Items[h][at[h]].op = "bookin"
        <5>1. pc[h] \in BookingIn
          BY <2>1 DEF BookingIn
        <5> QED BY <5>1 DEF TypeInv, ControlInv
      <4> QED BY <4>1, OwnNew DEF TypeInv
    <3> QED BY <3>1, <2>2, <1>1, SMTT(40) DEF TypeInv, TypeOK, Uploading, Streams
  <2>4. /\ Len(c2s'[h]) = Len(c2s[h]) - 1 /\ Len(c2s[h]) \in Nat \ {0}
        /\ \A k \in 1 .. Len(c2s[h]) - 1 : c2s'[h][k] = c2s[h][1 + k]
        /\ c2s[h][1] = Data(w[fd[h].pos + 1])
    <3>1. Len(c2s[h]) \in Nat \ {0} /\ Len(c2s'[h]) = Len(c2s[h]) - 1
          /\ \A k \in 1 .. Len(c2s[h]) - 1 : c2s'[h][k] = c2s[h][1 + k]
      BY <2>1, <1>1
    <3>2. 1 \in 1 .. Len(c2s[h]) - 0
      BY <3>1
    <3>3. c2s[h][0 + 1] = Data(w[fd[h].pos + 1])
      BY <3>2, <2>2 DEF Uploading
    <3> QED BY <3>1, <3>3
  <2>5. AsBlock(Head(c2s[h])) = w[fd[h].pos + 1]
    BY <2>4, <2>1, <1>1 DEF AsBlock, Data
  <2>6. CASE fd[h].left > 1
    <3>1. /\ fd'[h].pos = fd[h].pos + 1 /\ fd'[h].left = fd[h].left - 1 /\ fd'[h].buf = <<>>
          /\ pc' = pc
      BY <1>18, <2>6, <2>2, <1>1 DEF InReceive, Streams
    <3>2. \A k \in 1 .. Len(c2s'[h]) : c2s'[h][k] = Data(w[fd'[h].pos + k])
      <4> TAKE k \in 1 .. Len(c2s'[h])
      <4>1. 1 + k \in 1 .. Len(c2s[h]) - 0 /\ c2s'[h][k] = c2s[h][1 + k] /\ 0 + (1 + k) = 1 + k
        BY <2>4
      <4>2. c2s[h][0 + (1 + k)] = Data(w[fd[h].pos + (1 + k)])
        BY <4>1, <2>2 DEF Uploading
      <4>3. fd'[h].pos + k = fd[h].pos + (1 + k)
        <5>1. k \in Nat /\ fd[h].pos \in Nat
          BY <2>3, <2>4
        <5> QED BY <5>1, <3>1
      <4> QED BY <4>1, <4>2, <4>3
    <3>3. w' = w /\ Len(c2s[h]) - 0 = Len(c2s[h]) /\ Len(c2s'[h]) - 0 = Len(c2s'[h])
      BY <2>1, <2>4, <1>0
    <3>4. /\ fd'[h].pos + Len(c2s'[h]) - 0 = fd[h].pos + Len(c2s[h]) - 0
          /\ fd[h].pos + Len(c2s[h]) - 0 # 0
      <4> DEFINE p == fd[h].pos
                 n == Len(c2s[h])
      <4>1. p \in Nat /\ n \in Nat \ {0} /\ fd'[h].pos = p + 1 /\ Len(c2s'[h]) = n - 1
        BY <3>1, <2>3, <2>4
      <4> HIDE DEF p, n
      <4>2. p + 1 + (n - 1) - 0 = p + n - 0 /\ p + n - 0 # 0
        BY <4>1
      <4> QED BY <4>1, <4>2 DEF p, n
    <3>5. \A k \in 1 .. Len(c2s'[h]) - 0 : c2s'[h][0 + k] = Data(w[fd'[h].pos + k])
      BY <3>2, <3>3, <2>4
    <3>6. Uploading(h, 0)'
      BY <3>3, <3>4, <3>5, <2>1, <2>2, <1>0 DEF Uploading
    <3> QED BY <3>1, <3>6, <2>1, <2>2, <2>3, <2>6, <1>0, SMTT(40) DEF InStep, Filing
  <2>7. CASE fd[h].left = 1
    <3>1. /\ fd'[h].pos = fd[h].pos /\ fd'[h].buf = <<w[fd[h].pos + 1]>>
          /\ pc'[h] = "instat"
      BY <1>18, <2>7, <2>5, <1>1, SMTT(40) DEF InReceive, Streams
    <3>u. fd[h].pos + Len(c2s[h]) - 0 <= Len(w)
      BY <2>2 DEF Uploading
    <3>2. Len(w) = fd[h].pos + 1 /\ Len(c2s[h]) = 1
      <4>1. fd[h].pos \in Nat /\ Len(w) \in Nat /\ Len(c2s[h]) \in Nat \ {0} /\ 1 = Len(w) - fd[h].pos
        BY <2>2, <2>3, <2>4, <2>7
      <4>2. \A p, n \in Nat, c \in Nat \ {0} : p + c - 0 <= n /\ 1 = n - p => n = p + 1 /\ c = 1
        OBVIOUS
      <4> QED BY <3>u, <4>1, <4>2
    <3>3. c2s'[h] = <<>>
      BY <3>2, <2>4, <1>1
    <3>4. cpc[h] = "read" /\ s2c[h] = <<>>
      <4>1. CASE cpc[h] = "upload"
        <5>1. copying[h].left = Len(w) - (fd[h].pos + Len(c2s[h]) - 0)
          BY <4>1, <2>2 DEF Uploading
        <5>2. copying[h].left > 0
          BY <4>1, <2>3 DEF TypeInv, OpenInv, TypeOK
        <5> QED BY <5>1, <5>2, <3>2, <2>3
      <4> QED BY <4>1, <2>2 DEF Uploading
    <3>5. Received(h)'
      BY <3>1, <3>2, <3>3, <3>4, <2>1, <2>3, <1>0, SMTT(40) DEF Received
    <3> QED BY <3>1, <3>5 DEF InStep, Filing
  <2> QED BY <2>2, <2>3, <2>6, <2>7
<1>19. CASE InReceiveEnds(h)
  BY <1>19, <1>0 DEF InReceiveEnds, HangUp
<1>20. CASE InStat(h) \/ InRename(h) \/ InChmod(h)
  <2>1. /\ pc[h] \in Filing /\ pc'[h] \in Filing /\ s2c' = s2c /\ c2s' = c2s /\ at' = at
        /\ fd'[h].pos = fd[h].pos /\ fd'[h].buf = fd[h].buf
    BY <1>20, <1>1 DEF InStat, InRename, InChmod, Streams, Filing
  <2>2. Received(h)'
    BY <2>1, <1>0 DEF InStep, Received, File
  <2> QED BY <2>1, <2>2 DEF InStep, Filing
<1>21. CASE InClose(h)
  <2>1. pc[h] = "inclose" /\ pc'[h] = "items" /\ s2c' = s2c /\ c2s' = c2s
    BY <1>21, <1>1 DEF InClose
  <2>2. Idle(h)'
    BY <2>1, <1>0 DEF InStep, Filing, Received, Idle
  <2> QED BY <2>1, <2>2, <1>e DEF Easy
<1> QED
  BY <1>3, <1>4, <1>5, <1>6, <1>7, <1>8, <1>9, <1>10, <1>11, <1>12, <1>13, <1>14, <1>15, <1>16, <1>17,
     <1>18, <1>19, <1>20, <1>21 DEF Handler

\* The client reads one message of those sent to it.
LEMMA Consumes ==
    ASSUME TypeInv, NEW h \in Sessions, s2c[h] # <<>>, s2c'[h] = Tail(s2c[h]), c2s'[h] = c2s[h],
           cpc'[h] \in {"read", "copy", "raw", "run"}, File(h)' = File(h)
    PROVE  /\ Idle(h) => Idle(h)'
           /\ \A t \in {"auth", "bookin"} : Asked(h, t) =>
                IF Len(s2c[h]) = 1 THEN Idle(h)' ELSE Asked(h, t)' /\ Head(s2c[h]).type \notin {"auth", "bookin"}
           /\ AskedFor(h) => IF Len(s2c[h]) = 1 THEN Idle(h)' ELSE AskedFor(h)'
<1> DEFINE n == Len(s2c[h])
<1>1. s2c[h] \in Seq(ToClient) /\ n \in Nat \ {0}
  BY DEF TypeInv, TypeOK
<1>2. Len(s2c'[h]) = n - 1 /\ (\A k \in 1 .. n - 1 : s2c'[h][k] = s2c[h][k + 1]) /\ Head(s2c[h]) = s2c[h][1]
  BY <1>1
<1>3. \A k \in 1 .. n - 1 : k + 1 \in 1 .. n
  BY <1>1
<1>4. \A k \in 1 .. n - 2 : k \in 1 .. n - 1 /\ k + 1 \in 1 .. n - 1
  BY <1>1
<1> HIDE DEF n
<1>5. Idle(h) => Idle(h)'
  BY <1>2, <1>3 DEF Idle, n
<1>6. ASSUME NEW t \in {"auth", "bookin"}, Asked(h, t), n = 1 PROVE Idle(h)'
  BY <1>2, <1>6 DEF Idle, Asked
<1>7. ASSUME NEW t \in {"auth", "bookin"}, Asked(h, t), n # 1
      PROVE  /\ Asked(h, t)' /\ Head(s2c[h]).type \notin {"auth", "bookin"}
             /\ s2c'[h][Len(s2c'[h])] = s2c[h][n]
  <2>1. /\ 1 \in 1 .. n - 1 /\ n - 1 \in 1 .. n - 1 /\ (n - 1) + 1 = n /\ (n - 1) - 1 = n - 2
        /\ n - 1 > 0
    BY <1>1, <1>7
  <2>2. s2c'[h][n - 1] = s2c[h][n]
    BY <2>1, <1>2
  <2>3. \A k \in 1 .. n - 1 : s2c[h][k].type \notin {"auth", "bookin"}
    BY <1>7 DEF Asked, n
  <2>4. \A k \in 1 .. n - 2 : s2c'[h][k].type \notin {"auth", "bookin"}
    BY <2>3, <1>2, <1>4
  <2>5. s2c[h][n].type = t
    BY <1>7 DEF Asked, n
  <2>6. Asked(h, t)'
    BY <2>1, <2>2, <2>4, <2>5, <1>2, <1>7 DEF Asked
  <2> QED BY <2>1, <2>2, <2>3, <2>6, <1>2
<1> QED BY <1>5, <1>6, <1>7 DEF AskedFor, n

LEMMA SyncClient ==
    ASSUME TypeInv, NEW h \in Prompt, ~ Closed(h), InStep(h), Client(h)
    PROVE  InStep(h)'
<1> h \in Sessions
  BY DEF Prompt
<1>0. /\ UNCHANGED <<pc, at, fd>>
      /\ pc[h] \in {"request", "rules", "auth", "items", "close", "outopen", "outsend", "inreply", "inrecv"} \cup Filing
      /\ File(h)' = File(h)
  <2>1. UNCHANGED <<pc, at, fd>>
    BY ClientFrame, ClientFiles
  <2> QED BY <2>1 DEF TypeInv, TypeOK, Closed, BookingIn, Filing, File
<1>1. /\ s2c[h] \in Seq(ToClient) /\ c2s[h] \in Seq(ToHandler)
      /\ s2c \in [Sessions -> Seq(ToClient)] /\ c2s \in [Sessions -> Seq(ToHandler)]
      /\ cpc \in [Sessions -> {"start", "read", "copy", "upload", "raw", "run", "prompt", "gone"}]
      /\ copying \in [Sessions -> Transfers]
      /\ local \in [Sessions -> [Files -> Seq(Block) \cup {Absent}]]
  BY DEF TypeInv, TypeOK, Transfers
<1>2. pc[h] = "inreply" => File(h) \in Files
  <2>1. pc[h] = "inreply" => at[h] <= Len(Items[h]) /\ Items[h][at[h]].op = "bookin"
    BY DEF TypeInv, ControlInv, BookingIn
  <2> QED BY <2>1, OwnNew DEF TypeInv
\* What there is to read is of these three kinds.
<1> DEFINE Reading == /\ pc[h] \notin {"request", "inrecv"} \cup Filing
                      /\ Idle(h) \/ (pc[h] = "auth" /\ Asked(h, "auth")) \/ (pc[h] = "inreply" /\ AskedFor(h))
<1>3. s2c[h] # <<>> \/ cpc[h] \in {"copy", "raw", "run"} => Reading
  BY <1>0 DEF InStep, Starting, Prompted, Answering, Uploading, Received, Asked, AskedFor
<1>4. ASSUME Reading,
             \/ Idle(h)'
             \/ pc[h] = "auth" /\ Asked(h, "auth")'
             \/ pc[h] = "inreply" /\ AskedFor(h)'
      PROVE  InStep(h)'
  BY <1>0, <1>4 DEF InStep, Filing
<1> HIDE DEF Reading
<1>5. ASSUME s2c[h] # <<>>, s2c'[h] = Tail(s2c[h]), c2s'[h] = c2s[h],
             cpc'[h] \in {"read", "copy", "raw", "run"}
      PROVE  InStep(h)'
  BY <1>0, <1>3, <1>4, <1>5, Consumes DEF Reading
<1>6. CASE ClientStart(h)
  <2>1. pc[h] = "request" /\ Starting(h) /\ c2s[h] = <<>>
    BY <1>6, <1>0 DEF ClientStart, InStep, Starting, Prompted, Answering, Uploading, Received, Asked, AskedFor, Idle
  <2>2. cpc'[h] = "read" /\ c2s'[h] = <<>> \o <<[type |-> "invoke"]>> /\ s2c' = s2c
    BY <1>6, <2>1, <1>1 DEF ClientStart, Reply
  <2>3. Starting(h)'
    BY <2>1, <2>2 DEF Starting
  <2> QED BY <2>1, <2>3, <1>0 DEF InStep, Filing
<1>7. CASE ClientBookout(h)
  <2>1. /\ s2c[h] # <<>> /\ s2c'[h] = Tail(s2c[h]) /\ c2s' = c2s
        /\ cpc'[h] \in {"read", "copy"}
    BY <1>7, <1>1 DEF ClientBookout, NextLine
  <2> QED BY <2>1, <1>5
<1>8. CASE ClientCopy(h)
  BY <1>8, <1>1, <1>5 DEF ClientCopy
<1>9. CASE ClientBookin(h)
  <2> DEFINE w == local[h][File(h)]
             m == [type |-> "bookin", file |-> File(h), size |-> Len(w)]
  <2>1. /\ s2c[h] # <<>> /\ s2c'[h] = Tail(s2c[h]) /\ Head(s2c[h]).type = "bookin" /\ cpc[h] = "read"
        /\ local' = local
    BY <1>9, <1>1 DEF ClientBookin, NextLine
  <2>2. Head(s2c[h]) = s2c[h][1] /\ Len(s2c[h]) \in Nat \ {0} /\ 1 \in 1 .. Len(s2c[h])
    BY <2>1, <1>1
  <2>3. Reading
    BY <2>1, <1>3
  <2>4. ~ Idle(h)
    BY <2>1, <2>2 DEF Idle
  <2>5. Len(s2c[h]) = 1 \/ 1 \in 1 .. Len(s2c[h]) - 1
    <3>1. \A n \in Nat \ {0} : n = 1 \/ 1 \in 1 .. n - 1
      OBVIOUS
    <3> QED BY <3>1, <2>2
  <2>6. ~ Asked(h, "auth")
    BY <2>1, <2>2, <2>5 DEF Asked
  <2>7. pc[h] = "inreply" /\ AskedFor(h) /\ Len(s2c[h]) = 1
    BY <2>1, <2>2, <2>3, <2>4, <2>5, <2>6 DEF Reading, AskedFor, Asked
  <2>8. Head(s2c[h]).file = File(h) /\ c2s[h] = <<>>
    BY <2>2, <2>7 DEF AskedFor, Asked
  <2>9. CASE w = Absent
    <3>1. cpc'[h] = "read" /\ c2s'[h] = c2s[h]
      BY <1>9, <2>1, <2>8, <2>9 DEF ClientBookin
    <3> QED BY <3>1, <2>1, <1>5
  <2>10. CASE w # Absent
    <3>1. w \in Seq(Block) /\ Len(w) \in Nat
      BY <2>7, <2>10, <1>1, <1>2
    <3>2. /\ c2s'[h] = <<m>>
          /\ cpc'[h] = "read" \/ cpc'[h] = "upload"
          /\ copying'[h] = [file |-> File(h), left |-> Len(w)]
      <4>1. PICK nonzero \in SizeGarbage :
              Reply(h, <<m>>, IF nonzero /\ Len(w) > 0 THEN "upload" ELSE "read")
        BY <1>9, <2>8, <2>10 DEF ClientBookin
      <4>2. copying' = [copying EXCEPT ![h] = [file |-> File(h), left |-> Len(w)]]
        BY <1>9, <2>8, <2>10 DEF ClientBookin
      <4>3. c2s'[h] = <<>> \o <<m>>
        BY <4>1, <2>8, <1>1 DEF Reply
      <4>4. c2s'[h] = <<m>>
        BY <4>3
      <4> QED BY <4>1, <4>2, <4>4, <1>1 DEF Reply
    <3>3. Len(c2s'[h]) = 1 /\ c2s'[h][1] = m /\ c2s'[h] # <<>>
      BY <3>2
    <3>4. s2c'[h] = <<>>
      <4>1. \A t \in Seq(ToClient) : Len(t) = 0 => t = <<>>
        OBVIOUS
      <4>2. Tail(s2c[h]) \in Seq(ToClient) /\ Len(Tail(s2c[h])) = 0
        BY <2>1, <2>7, <1>1
      <4> QED BY <4>1, <4>2, <2>1
    <3>5. fd[h].pos = 0 /\ fd[h].buf = <<>>
      BY <2>7 DEF InStep
    <3>6. fd[h].pos + Len(c2s'[h]) - 1 = 0 /\ Len(w) - 0 = Len(w) /\ 0 <= Len(w)
      BY <3>1, <3>3, <3>5
    <3>7. (File(h))' = File(h) /\ w' = w
      BY <1>0, <2>1
    <3>8. Uploading(h, 1)'
      <4>1. \A k \in 1 .. Len(c2s'[h]) - 1 : FALSE
        BY <3>3
      <4> QED BY <4>1, <3>2, <3>4, <3>6, <3>7, <2>10, <1>0 DEF Uploading
    <3>9. Answering(h)'
      BY <3>3, <3>7, <3>8 DEF Answering
    <3> QED BY <3>5, <3>9, <2>7, <1>0 DEF InStep, Filing
  <2> QED BY <2>9, <2>10
<1>10. CASE ClientUpload(h)
  <2> DEFINE w == local[h][File(h)]
  <2>1. PICK n \in {0, 1} : /\ Uploading(h, n)
                            /\ (pc[h] = "inreply" /\ Answering(h) /\ n = 1) \/ (pc[h] = "inrecv" /\ n = 0)
    <3>1. cpc[h] = "upload"
      BY <1>10 DEF ClientUpload
    <3>2. pc[h] = "inreply" \/ pc[h] = "inrecv"
      BY <3>1, <1>0 DEF InStep, Starting, Prompted, Received, Asked, Idle, Filing
    <3>3. pc[h] = "inreply" => Answering(h)
      BY <3>1 DEF InStep, AskedFor, Asked, Idle
    <3>4. Answering(h) => Uploading(h, 1)
      BY DEF Answering
    <3>5. pc[h] = "inrecv" => Uploading(h, 0)
      BY DEF InStep
    <3>6. CASE pc[h] = "inreply"
      <4> WITNESS 1 \in {0, 1}
      <4> QED BY <3>3, <3>4, <3>6
    <3>7. CASE pc[h] = "inrecv"
      <4> WITNESS 0 \in {0, 1}
      <4> QED BY <3>5, <3>7
    <3> QED BY <3>2, <3>6, <3>7
  <2> DEFINE j == fd[h].pos + Len(c2s[h]) - n
  <2>2. File(h) \in Files
    <3>1. at[h] <= Len(Items[h]) /\ Items[h][at[h]].op = "bookin"
      BY <2>1 DEF TypeInv, ControlInv, BookingIn
    <3> QED BY <3>1, OwnNew DEF TypeInv
  <2>3. /\ w \in Seq(Block) /\ w # Absent /\ Len(w) \in Nat
        /\ copying[h].file = File(h) /\ copying[h].left = Len(w) - j /\ cpc[h] = "upload"
        /\ s2c[h] = <<>>
    BY <1>10, <2>1, <2>2, <1>1 DEF Uploading, ClientUpload
  <2>4. /\ copying[h].left > 0 /\ copying[h].left \in Nat
    BY <2>3, <1>1 DEF TypeInv, OpenInv, Transfers
  <2>5. fd[h].pos \in Nat /\ Len(c2s[h]) \in Nat /\ n <= Len(c2s[h])
    <3>1. n = 1 => c2s[h] # <<>>
      BY <2>1 DEF Answering
    <3>2. fd[h] \in Streams
      BY StreamTyped, ZenonT(40) DEF TypeInv
    <3> QED BY <3>1, <3>2, <2>1, <1>1 DEF Streams
  <2>6. Len(w) + 1 - copying[h].left = j + 1 /\ j \in Nat /\ j < Len(w)
    <3>1. j \in Nat
      BY <2>1, <2>5
    <3> HIDE DEF j
    <3> QED BY <3>1, <2>3, <2>4
  <2>7. /\ c2s'[h] = c2s[h] \o <<Data(w[j + 1])>>
        /\ cpc'[h] = IF copying[h].left = 1 THEN "read" ELSE "upload"
        /\ copying'[h] = [file |-> File(h), left |-> copying[h].left - 1]
        /\ s2c' = s2c /\ local' = local
    <3>1. Reply(h, <<Data(w[j + 1])>>, IF copying[h].left = 1 THEN "read" ELSE "upload")
      BY <1>10, <2>3, <2>6 DEF ClientUpload
    <3>2. copying' = [copying EXCEPT ![h].left = @ - 1]
      BY <1>10 DEF ClientUpload
    <3>3. copying'[h] = [file |-> File(h), left |-> copying[h].left - 1]
      BY <3>2, <2>3, <1>1 DEF Transfers
    <3> QED BY <3>1, <3>3, <1>10, <1>1 DEF ClientUpload, Reply
  <2>8. /\ Len(c2s'[h]) = Len(c2s[h]) + 1
        /\ \A k \in 1 .. Len(c2s[h]) : c2s'[h][k] = c2s[h][k]
        /\ c2s'[h][Len(c2s[h]) + 1] = Data(w[j + 1])
    <3> DEFINE d == Data(w[j + 1])
    <3>1. d \in ToHandler
      BY <2>3, <2>6, DataTyped
    <3>2. c2s'[h] = c2s[h] \o <<d>>
      BY <2>7
    <3> HIDE DEF d
    <3>3. Len(c2s'[h]) = Len(c2s[h]) + 1 /\ (\A k \in 1 .. Len(c2s[h]) : c2s'[h][k] = c2s[h][k]) /\ c2s'[h][Len(c2s[h]) + 1] = d
      BY <3>1, <3>2, <1>1
    <3> QED BY <3>3 DEF d
  <2>9. \A k \in 1 .. Len(c2s'[h]) - n : c2s'[h][n + k] = Data(w[fd[h].pos + k])
    <3> TAKE k \in 1 .. Len(c2s'[h]) - n
    <3>1. CASE k = Len(c2s[h]) + 1 - n
      <4>1. n + k = Len(c2s[h]) + 1 /\ fd[h].pos + k = j + 1
        BY <3>1, <2>1, <2>5
      <4> QED BY <4>1, <2>8
    <3>2. CASE k # Len(c2s[h]) + 1 - n
      <4>1. k \in 1 .. Len(c2s[h]) - n /\ n + k \in 1 .. Len(c2s[h])
        BY <3>2, <2>1, <2>5, <2>8
      <4>2. c2s[h][n + k] = Data(w[fd[h].pos + k])
        BY <4>1, <2>1 DEF Uploading
      <4> QED BY <4>1, <4>2, <2>8
    <3> QED BY <3>1, <3>2
  <2>10. fd[h].pos + Len(c2s'[h]) - n = j + 1 /\ copying[h].left - 1 = Len(w) - (j + 1) /\ j + 1 <= Len(w)
         /\ (copying[h].left = 1 => j + 1 = Len(w))
    <3>1. fd[h].pos + Len(c2s'[h]) - n = j + 1
      <4>1. Len(c2s'[h]) = Len(c2s[h]) + 1 /\ n \in Nat
        BY <2>1, <2>8
      <4> QED BY <4>1, <2>5
    <3> HIDE DEF j
    <3> QED BY <3>1, <2>3, <2>6
  <2>11. File(h)' = File(h) /\ w' = w /\ n' = n /\ fd' = fd
    BY <2>7, <1>0
  <2>12. Uploading(h, n)'
    <3> HIDE DEF j
    <3>1. cpc'[h] = "upload" \/ (cpc'[h] = "read" /\ j + 1 = Len(w))
      BY <2>7, <2>10
    <3> QED BY <3>1, <2>3, <2>7, <2>9, <2>10, <2>11 DEF Uploading
  <2>13. CASE pc[h] = "inreply" /\ n = 1
    <3>1. Answering(h)
      BY <2>1, <2>13
    <3>2. 1 \in 1 .. Len(c2s[h])
      BY <3>1, <1>1 DEF Answering
    <3>3. c2s'[h] # <<>> /\ c2s'[h][1] = c2s[h][1]
      BY <3>2, <2>8, <2>5
    <3>4. Answering(h)'
      BY <3>1, <3>3, <2>11, <2>12, <2>13 DEF Answering
    <3> QED BY <3>4, <2>13, <1>0 DEF InStep, Filing
  <2>14. CASE pc[h] = "inrecv" /\ n = 0
    <3>1. Uploading(h, 0)'
      BY <2>12, <2>14
    <3>2. fd'[h].left = Len(w) - fd[h].pos /\ fd'[h].left > 0 /\ fd'[h].buf = <<>>
      BY <2>14, <2>11 DEF InStep
    <3> QED BY <3>1, <3>2, <2>11, <2>14, <1>0 DEF InStep, Filing
  <2> QED BY <2>1, <2>13, <2>14
<1>11. CASE ClientRunBegins(h)
  BY <1>11, <1>1, <1>5 DEF ClientRunBegins, NextLine
<1>12. CASE ClientRunEnds(h)
  <2>1. cpc[h] = "run" /\ cpc'[h] = "read" /\ s2c' = s2c /\ c2s' = c2s
    BY <1>12, <1>1 DEF ClientRunEnds
  <2>2. Reading
    BY <2>1, <1>3
  <2> QED BY <2>1, <2>2, <1>0, <1>4 DEF Reading, Idle, Asked, AskedFor
<1>13. CASE ClientAuthBegins(h)
  <2>1. /\ s2c[h] # <<>> /\ s2c'[h] = Tail(s2c[h]) /\ Head(s2c[h]).type = "auth"
        /\ cpc'[h] = "prompt" /\ c2s' = c2s
    BY <1>13, <1>1 DEF ClientAuthBegins, NextLine
  <2>2. Head(s2c[h]) = s2c[h][1] /\ Len(s2c[h]) \in Nat \ {0} /\ 1 \in 1 .. Len(s2c[h])
    BY <2>1, <1>1
  <2>3. Reading
    BY <2>1, <1>3
  <2>4. ~ Idle(h)
    BY <2>1, <2>2 DEF Idle
  <2>5. Len(s2c[h]) = 1 \/ 1 \in 1 .. Len(s2c[h]) - 1
    <3>1. \A n \in Nat \ {0} : n = 1 \/ 1 \in 1 .. n - 1
      OBVIOUS
    <3> QED BY <3>1, <2>2
  <2>6. ~ AskedFor(h)
    BY <2>1, <2>2, <2>5 DEF AskedFor, Asked
  <2>7. pc[h] = "auth" /\ Asked(h, "auth") /\ Len(s2c[h]) = 1
    BY <2>1, <2>2, <2>3, <2>4, <2>5, <2>6 DEF Reading, Asked
  <2>8. s2c'[h] = <<>>
    <3>1. \A t \in Seq(ToClient) : Len(t) = 0 => t = <<>>
      OBVIOUS
    <3>2. Tail(s2c[h]) \in Seq(ToClient) /\ Len(Tail(s2c[h])) = 0
      BY <2>1, <2>7, <1>1
    <3> QED BY <3>1, <3>2, <2>1
  <2>9. Prompted(h)'
    BY <2>1, <2>7, <2>8 DEF Prompted, Asked
  <2> QED BY <2>7, <2>9, <1>0 DEF InStep, Filing
<1>14. CASE ClientAuthEnds(h)
  <2>1. pc[h] = "auth" /\ Prompted(h) /\ c2s[h] = <<>>
    BY <1>14, <1>0 DEF ClientAuthEnds, InStep, Starting, Prompted, Answering, Uploading, Received, Asked, AskedFor, Idle
  <2>2. cpc'[h] = "read" /\ c2s'[h] = <<>> \o <<[type |-> "auth"]>> /\ s2c' = s2c
    BY <1>14, <2>1, <1>1 DEF ClientAuthEnds, Reply
  <2>3. Prompted(h)'
    BY <2>1, <2>2 DEF Prompted
  <2> QED BY <2>1, <2>3, <1>0 DEF InStep, Filing
<1>15. CASE ClientOkay(h)
  BY <1>15, <1>1, <1>5 DEF ClientOkay, NextLine
<1>16. CASE ClientRaw(h)
  BY <1>16, <1>1, <1>5 DEF ClientRaw
<1>17. CASE ClientPrint(h)
  <2>1. /\ s2c[h] # <<>> /\ s2c'[h] = Tail(s2c[h]) /\ c2s' = c2s /\ cpc' = cpc /\ cpc[h] = "read"
    BY <1>17, <1>1 DEF ClientPrint, NextLine, clientVars
  <2> QED BY <2>1, <1>5
<1>18. CASE ClientEnd(h)
  BY <1>18 DEF ClientEnd
<1> QED
  BY <1>6, <1>7, <1>8, <1>9, <1>10, <1>11, <1>12, <1>13, <1>14, <1>15, <1>16, <1>17, <1>18 DEF Client

\* Handlers and the clients of prompt users stay in step.
LEMMA NextSync ==
    ASSUME TypeInv, SyncInv, [Next]_vars
    PROVE  SyncInv'
<1> SUFFICES ASSUME NEW j \in Prompt, ~ Closed(j)' PROVE InStep(j)'
  BY DEF SyncInv, Prompt
<1> j \in Sessions
  BY DEF Prompt
<1>1. ASSUME NEW h \in Sessions, Handler(h) \/ HandlerKilled(h) \/ Client(h) \/ ClientQuit(h), j # h PROVE InStep(j)'
  <2>1. SameSession(j)
    BY <1>1, OneSession
  <2>2. InStep(j)
    BY <2>1 DEF SyncInv, SameSession, Closed
  <2> QED BY <2>1, <2>2, InStepSame
<1>2. CASE Handler(j)
  <2>1. ~ Closed(j)
    BY <1>2 DEF Handler, Request, RequestFails, RulePasses, AskAuth, AuthLine, AuthEnds, Refuse, Permit,
       Require, ClientRunLine, Run, EndOfItems, InOpenFails, CloseSession, OutStat, OutOpen, OutOpenFails,
       OutSend, InOpen, InReply,
       InAbort, InReceive, InReceiveEnds, InStat, InRename, InChmod, InClose, RuleInHand, AtItem, Closed
  <2> QED BY <1>2, <2>1, SyncHandler DEF SyncInv
<1>3. CASE HandlerKilled(j)
  BY <1>3 DEF HandlerKilled, Goto, Closed, TypeInv, TypeOK
<1>4. CASE Client(j)
  <2>1. ~ Closed(j)
    BY <1>4, ClientFrame DEF Closed
  <2> QED BY <1>4, <2>1, SyncClient DEF SyncInv
<1>5. CASE ClientQuit(j)
  BY <1>5 DEF ClientQuit, Prompt
<1>6. CASE UNCHANGED vars
  <2>1. SameSession(j)
    BY <1>6 DEF SameSession, vars, serverVars, clientVars
  <2>2. InStep(j)
    BY <2>1 DEF SyncInv, SameSession, Closed
  <2> QED BY <2>1, <2>2, InStepSame
<1> QED BY <1>1, <1>2, <1>3, <1>4, <1>5, <1>6 DEF Next, AllFinished

LEMMA InitSync == ASSUME Init PROVE SyncInv
<1> SUFFICES ASSUME NEW h \in Prompt, ~ Closed(h) PROVE InStep(h)
  BY DEF SyncInv
<1> h \in Sessions
  BY DEF Prompt
<1>1. s2c[h] = <<>> /\ c2s[h] = <<>> /\ pc[h] = "request" /\ cpc[h] = "start"
  <2>1. PICK there \in Together :
         /\ pc = [x \in Sessions |-> IF x \in there THEN "request" ELSE "done"]
         /\ cpc = [x \in Sessions |-> IF x \in there THEN "start" ELSE "gone"]
    BY DEF Init
  <2>2. pc[h] # "done"
    BY DEF Closed
  <2>3. s2c[h] = <<>> /\ c2s[h] = <<>>
    BY DEF Init
  <2> QED BY <2>1, <2>2, <2>3
<1> QED BY <1>1 DEF InStep, Starting, Filing

-------------------------------------------------------------------------------
(* The names of a file that one session, at most, books in. *)

Sole(h, f) == \A g \in Sessions : BooksIn(g, f) => g = h

Before == {"request", "rules", "auth"}
Replaced == {"inchmod", "inclose", "torn"}

\* Path+ is what the item in hand has open, until it becomes Path; and Path is
\* never what an item still to come will create.
NamesOf(h, f) ==
    /\ temp[f] # Absent => pc[h] \in Owning /\ Booking(h, f) /\ temp[f] = <<h, at[h]>>
    /\ pc[h] \in Owning \ {"killed"} /\ Booking(h, f) => temp[f] = fd[h].ino
    /\ pc[h] \in Replaced /\ Booking(h, f) => name[f] = fd[h].ino
    /\ \A k \in 1 .. Len(Items[h]) : name[f] = <<h, k>> =>
         pc[h] \notin Before /\ (k < at[h] \/ (k = at[h] /\ pc[h] \in Replaced))

NamesInv == \A h \in Sessions, f \in Files : Sole(h, f) => NamesOf(h, f)

\* Where steps that change no name lead.
LEMMA Moves ==
    ASSUME TypeInv, NEW h \in Sessions, Handler(h) \/ HandlerKilled(h),
           ~ InOpen(h), ~ InAbort(h), ~ InRename(h)
    PROVE  /\ pc'[h] \in Owning \ {"killed"} => pc[h] \in Owning \ {"killed"}
           /\ pc'[h] \in Replaced => pc[h] \in Replaced /\ at'[h] = at[h] /\ fd'[h].ino = fd[h].ino
           /\ pc'[h] \in Before => pc[h] \in Before
           /\ pc[h] \notin Before =>
                \/ at'[h] = at[h] /\ (pc[h] \in Replaced => pc'[h] \in Replaced)
                \/ at'[h] = at[h] + 1 /\ (pc[h] \in Replaced => InClose(h))
<1> USE DEF TypeInv, ControlInv, Goto, Advance, Owning, Replaced, Before
<1>1. CASE Request(h) \/ RequestFails(h) \/ RulePasses(h) \/ AskAuth(h) \/ AuthLine(h) \/ AuthEnds(h)
  BY <1>1 DEF Request, RequestFails, RulePasses, AskAuth, AuthLine, AuthEnds, RuleInHand
<1>2. CASE Refuse(h) \/ Permit(h) \/ Require(h) \/ ClientRunLine(h) \/ Run(h)
  BY <1>2 DEF Refuse, Permit, Require, ClientRunLine, Run, AtItem, RuleInHand
<1>3. CASE EndOfItems(h) \/ InOpenFails(h) \/ CloseSession(h)
  BY <1>3 DEF EndOfItems, InOpenFails, CloseSession, AtItem
<1>4. CASE OutStat(h) \/ OutOpen(h) \/ OutOpenFails(h) \/ OutSend(h)
  BY <1>4 DEF OutStat, OutOpen, OutOpenFails, OutSend, AtItem
<1>5. CASE InReply(h) \/ InReceive(h) \/ InReceiveEnds(h)
  BY <1>5 DEF InReply, InReceive, InReceiveEnds
<1>6. CASE InStat(h) \/ InChmod(h)
  BY <1>6 DEF InStat, InChmod
<1>7. CASE InClose(h)
  BY <1>7 DEF InClose
<1>8. CASE HandlerKilled(h)
  BY <1>8 DEF HandlerKilled, Closed
<1> QED BY <1>1, <1>2, <1>3, <1>4, <1>5, <1>6, <1>7, <1>8 DEF Handler

\* The session whose item is in hand is the one that books its file in.
LEMMA Booker ==
    ASSUME TypeInv, NEW h \in Sessions, at[h] <= Len(Items[h]), Items[h][at[h]].op = "bookin",
           NEW f \in Files
    PROVE  /\ File(h) \in Files /\ BooksIn(h, File(h)) /\ Booking(h, File(h))
           /\ Booking(h, f) <=> f = File(h)
<1>1. File(h) \in Files /\ BooksIn(h, File(h)) /\ Booking(h, File(h))
  BY OwnNew DEF TypeInv
<1>2. Booking(h, f) => f = File(h)
  BY DEF Booking, File
<1> QED BY <1>1, <1>2

LEMMA BookingBooks ==
    ASSUME TypeInv, NEW h \in Sessions, NEW f \in Files, Booking(h, f)
    PROVE  BooksIn(h, f)
<1>1. at[h] \in Nat \ {0} /\ Len(Items[h]) \in Nat
  BY SessionAssumption DEF TypeInv, TypeOK
<1> QED BY <1>1 DEF Booking, BooksIn

\* A step of a session leaves the names and the content of files alone that its
\* item in hand does not book in.
LEMMA ForeignStep ==
    ASSUME TypeInv, OwnInv, NEW g \in Sessions, Handler(g) \/ HandlerKilled(g),
           NEW f \in Files, ~ Booking(g, f)
    PROVE  /\ name'[f] = name[f] /\ temp'[f] = temp[f]
           /\ \A i \in Own(f) : data'[i] = data[i]
<1>0. /\ data \in [Inodes -> Seq(Block)] /\ Own(f) \subseteq Inodes
      /\ name \in [Files -> Inodes \cup {Absent}] /\ temp \in [Files -> Inodes \cup {Absent}]
  BY OwnApart DEF TypeInv, TypeOK
<1>1. ASSUME at[g] <= Len(Items[g]), Items[g][at[g]].op = "bookin"
      PROVE  File(g) \in Files /\ File(g) # f /\ Own(File(g)) \cap Own(f) = {}
  BY <1>1, Booker, OwnApart
<1>2. CASE InOpen(g)
  <2> DEFINE i == IF temp[File(g)] = Absent THEN <<g, at[g]>> ELSE temp[File(g)]
  <2>1. /\ at[g] <= Len(Items[g]) /\ Items[g][at[g]].op = "bookin"
        /\ name' = name /\ temp' = [temp EXCEPT ![File(g)] = i] /\ data' = [data EXCEPT ![i] = <<>>]
    BY <1>2 DEF InOpen, AtItem
  <2>2. i \in Own(File(g))
    BY <2>1, <1>1, OwnNew DEF OwnInv, TypeInv
  <2> HIDE DEF i
  <2> QED BY <2>1, <2>2, <1>1, <1>0
<1>3. CASE InAbort(g) \/ InRename(g)
  <2>1. at[g] <= Len(Items[g]) /\ Items[g][at[g]].op = "bookin"
    BY <1>3 DEF InAbort, InRename, TypeInv, ControlInv, BookingIn
  <2> QED BY <2>1, <1>1, <1>0, <1>3 DEF InAbort, InRename
<1>4. CASE InReceive(g) \/ InClose(g)
  <2>1. /\ at[g] <= Len(Items[g]) /\ Items[g][at[g]].op = "bookin"
        /\ fd[g].ino \in Own(File(g))
    BY <1>4 DEF InReceive, InClose, TypeInv, ControlInv, OwnInv, BookingIn
  <2>2. fd[g].ino \notin Own(f)
    BY <2>1, <1>1
  <2>3. CASE InReceive(g)
    BY <2>2, <2>3, <1>0 DEF InReceive
  <2>4. CASE InClose(g)
    BY <2>2, <2>4, <1>0 DEF InClose
  <2> QED BY <1>4, <2>3, <2>4
<1>5. CASE ~ InOpen(g) /\ ~ InAbort(g) /\ ~ InRename(g) /\ ~ InReceive(g) /\ ~ InClose(g)
  <2>1. name' = name /\ temp' = temp
    BY <1>5, QuietSteps DEF QuietStep, TypeInv
  <2>2. data' = data
    <3>1. CASE FileStep(g)
      BY <1>5, <3>1 DEF FileStep, OutStat, OutOpen, OutOpenFails, OutSend, InReply, InStat, InChmod, fsVars
    <3> QED BY <3>1, OtherSteps
  <2> QED BY <2>1, <2>2
<1> QED BY <1>2, <1>3, <1>4, <1>5

LEMMA NamesSameOf ==
    ASSUME NEW h \in Sessions, NEW f \in Files, NamesOf(h, f),
           name'[f] = name[f], temp'[f] = temp[f], pc'[h] = pc[h], at'[h] = at[h], fd'[h] = fd[h]
    PROVE  NamesOf(h, f)'
BY DEF NamesOf, Booking

LEMMA NamesStepOf ==
    ASSUME TypeInv, OwnInv, NEW h \in Sessions, NEW f \in Files, NamesOf(h, f),
           Handler(h) \/ HandlerKilled(h)
    PROVE  NamesOf(h, f)'
<1>0. /\ at[h] \in Nat \ {0} /\ fd[h].ino \in Inodes \cup {Absent} /\ Absent \notin Inodes
      /\ pc \in [Sessions -> Statements] /\ at \in [Sessions -> Nat \ {0}] /\ fd \in [Sessions -> Streams]
      /\ temp \in [Files -> Inodes \cup {Absent}] /\ name \in [Files -> Inodes \cup {Absent}]
  BY AbsentAssumption DEF TypeInv, TypeOK, ControlInv, Streams
<1>1. CASE InOpen(h)
  <2> DEFINE i == IF temp[File(h)] = Absent THEN <<h, at[h]>> ELSE temp[File(h)]
  <2>1. /\ at[h] <= Len(Items[h]) /\ Items[h][at[h]].op = "bookin" /\ at' = at
        /\ name' = name /\ temp' = [temp EXCEPT ![File(h)] = i] /\ pc[h] = "items" /\ pc'[h] = "inreply"
        /\ fd' = [fd EXCEPT ![h] = [NoStream EXCEPT !.ino = i]]
    BY <1>1, <1>0 DEF InOpen, AtItem, Goto
  <2>2. temp[f] = Absent
    BY <2>1 DEF NamesOf, Owning
  <2>3. fd'[h].ino = i
    <3> HIDE DEF i
    <3> QED BY <2>1, <1>0 DEF NoStream
  <2>4. File(h) \in Files /\ (Booking(h, f) <=> f = File(h)) /\ (Booking(h, f)' <=> Booking(h, f))
    BY <2>1, Booker DEF Booking
  <2>5. CASE f = File(h)
    <3>1. temp'[f] = <<h, at[h]>> /\ fd'[h].ino = <<h, at[h]>> /\ Booking(h, f)'
      BY <2>1, <2>2, <2>3, <2>4, <2>5, <1>0
    <3> QED BY <3>1, <2>1, <1>0 DEF NamesOf, Owning, Replaced, Before
  <2>6. CASE f # File(h)
    <3>1. temp'[f] = Absent /\ ~ Booking(h, f)'
      BY <2>1, <2>2, <2>4, <2>6, <1>0
    <3> QED BY <3>1, <2>1, <1>0 DEF NamesOf, Owning, Replaced, Before
  <2> QED BY <2>5, <2>6
<1>2. CASE InAbort(h)
  <2>1. /\ pc[h] = "inreply" /\ pc'[h] = "items" /\ at'[h] = at[h] + 1 /\ name' = name
        /\ temp' = [temp EXCEPT ![File(h)] = Absent]
    BY <1>2, <1>0 DEF InAbort, Advance, Goto
  <2>2. at[h] <= Len(Items[h]) /\ Items[h][at[h]].op = "bookin"
    BY <2>1 DEF TypeInv, ControlInv, BookingIn
  <2>3. temp'[f] = Absent
    BY <2>1, <2>2, <1>0, Booker DEF NamesOf
  <2> QED BY <2>1, <2>3, <1>0 DEF NamesOf, Owning, Replaced, Before
<1>3. CASE InRename(h)
  <2>1. /\ pc[h] = "inrename" /\ pc'[h] = "inchmod" /\ at' = at /\ fd' = fd
    BY <1>3, <1>0 DEF InRename, Goto
  <2>2. at[h] <= Len(Items[h]) /\ Items[h][at[h]].op = "bookin"
    BY <2>1 DEF TypeInv, ControlInv, BookingIn
  <2>3. /\ File(h) \in Files /\ (Booking(h, f) <=> f = File(h))
        /\ (Booking(h, f)' <=> Booking(h, f))
    BY <2>1, <2>2, Booker DEF Booking
  <2>4. CASE f = File(h)
    <3>1. temp[f] = fd[h].ino /\ temp[f] # Absent /\ temp[f] = <<h, at[h]>>
      <4>1. temp[f] = fd[h].ino
        BY <2>1, <2>3, <2>4 DEF NamesOf, Owning
      <4>2. fd[h].ino \in Inodes
        BY <2>1, <2>3, OwnApart DEF OwnInv, BookingIn
      <4> QED BY <4>1, <4>2, <1>0 DEF NamesOf
    <3>2. name'[f] = temp[f] /\ temp'[f] = Absent
      BY <3>1, <2>3, <2>4, <1>3, <1>0 DEF InRename
    <3>3. \A k \in 1 .. Len(Items[h]) : <<h, at[h]>> = <<h, k>> => k = at[h]
      OBVIOUS
    <3> QED BY <3>1, <3>2, <3>3, <2>1, <1>0 DEF NamesOf, Owning, Replaced, Before
  <2>5. CASE f # File(h)
    <3>1. name'[f] = name[f] /\ temp'[f] = temp[f] /\ temp[f] = Absent
      BY <2>3, <2>5, <1>3, <1>0 DEF InRename, NamesOf
    <3> QED BY <3>1, <2>1, <2>3, <2>5, <1>0 DEF NamesOf, Owning, Replaced, Before
  <2> QED BY <2>4, <2>5
<1>4. CASE ~ InOpen(h) /\ ~ InAbort(h) /\ ~ InRename(h)
  <2>1. /\ name' = name /\ temp' = temp
        /\ pc[h] \in Owning => pc'[h] \in Owning /\ at'[h] = at[h]
    BY <1>4, QuietSteps DEF QuietStep, TypeInv
  <2>2. temp'[f] # Absent => pc'[h] \in Owning /\ Booking(h, f)' /\ temp'[f] = <<h, at'[h]>>
    BY <2>1 DEF NamesOf, Booking
  <2>3. ASSUME pc'[h] \in Owning \ {"killed"}, Booking(h, f)' PROVE temp'[f] = fd'[h].ino
    <3>1. pc[h] \in Owning \ {"killed"} /\ pc'[h] \in BookingIn
      BY <1>4, <2>3, Moves DEF Owning, BookingIn
    <3>2. fd'[h].ino = fd[h].ino /\ at'[h] = at[h]
      BY <3>1, <1>4, StreamOfBookin
    <3> QED BY <3>1, <3>2, <2>1, <2>3 DEF NamesOf, Booking
  <2>4. ASSUME pc'[h] \in Replaced, Booking(h, f)' PROVE name'[f] = fd'[h].ino
    BY <1>4, <2>1, <2>4, Moves DEF NamesOf, Booking
  <2>5. ASSUME NEW k \in 1 .. Len(Items[h]), name'[f] = <<h, k>>
        PROVE  pc'[h] \notin Before /\ (k < at'[h] \/ (k = at'[h] /\ pc'[h] \in Replaced))
    <3>1. pc[h] \notin Before /\ (k < at[h] \/ (k = at[h] /\ pc[h] \in Replaced))
      BY <2>1, <2>5 DEF NamesOf
    <3>2. /\ pc'[h] \notin Before
          /\ \/ at'[h] = at[h] /\ (pc[h] \in Replaced => pc'[h] \in Replaced)
             \/ at'[h] = at[h] + 1
      BY <3>1, <1>4, Moves
    <3> QED BY <3>1, <3>2, <1>0
  <2> QED BY <2>2, <2>3, <2>4, <2>5 DEF NamesOf
<1> QED BY <1>1, <1>2, <1>3, <1>4

LEMMA NextNames ==
    ASSUME TypeInv, OwnInv, NamesInv, [Next]_vars
    PROVE  NamesInv'
<1> SUFFICES ASSUME NEW h \in Sessions, NEW f \in Files, Sole(h, f) PROVE NamesOf(h, f)'
  BY DEF NamesInv, Sole
<1>0. NamesOf(h, f)
  BY DEF NamesInv
<1>1. ASSUME NEW g \in Sessions, Handler(g) \/ HandlerKilled(g) PROVE NamesOf(h, f)'
  <2>1. CASE g = h
    BY <1>0, <1>1, <2>1, NamesStepOf
  <2>2. CASE g # h
    <3>1. ~ Booking(g, f)
      BY <2>2, BookingBooks DEF Sole
    <3>2. name'[f] = name[f] /\ temp'[f] = temp[f]
      BY <3>1, <1>1, ForeignStep
    <3>3. SameSession(h)
      BY <2>2, <1>1, OneSession
    <3> QED BY <3>2, <3>3, <1>0, NamesSameOf DEF SameSession
  <2> QED BY <2>1, <2>2
<1>2. CASE UNCHANGED <<name, temp, pc, at, fd>>
  BY <1>2, <1>0, NamesSameOf
<1>3. ASSUME NEW g \in Sessions, Client(g) \/ ClientQuit(g) PROVE NamesOf(h, f)'
  BY <1>2, <1>3, ClientFrame, ClientFiles
<1>4. CASE UNCHANGED vars
  BY <1>2, <1>4 DEF vars, fsVars, serverVars
<1> QED BY <1>1, <1>3, <1>4 DEF Next, AllFinished

LEMMA InitNames == ASSUME Init PROVE NamesInv
<1> SUFFICES ASSUME NEW h \in Sessions, NEW f \in Files PROVE NamesOf(h, f)
  BY DEF NamesInv
<1>1. /\ temp[f] = Absent /\ name[f] \in {f, Absent} /\ pc[h] \in {"request", "done"} /\ at[h] = 1
  BY DEF Init
<1>2. \A k \in 1 .. Len(Items[h]) : f # <<h, k>> /\ Absent # <<h, k>>
  <2>1. \A k \in 1 .. Len(Items[h]) : <<h, k>> \in NewInodes
    BY DEF NewInodes
  <2> QED BY <2>1, AbsentAssumption DEF Inodes
<1> QED BY <1>1, <1>2 DEF NamesOf, Owning, Replaced, Before

-------------------------------------------------------------------------------
(* What has been written of a copy, and when the file is complete. *)

\* A file's content does not change in place.
LEMMA Frozen ==
    ASSUME TypeInv, OwnInv, NEW h \in Sessions, NEW f \in Files, NamesOf(h, f), name[f] # Absent,
           Handler(h) \/ HandlerKilled(h),
           ~ (Booking(h, f) /\ (InRename(h) \/ InClose(h)))
    PROVE  name'[f] = name[f] /\ data'[name[f]] = data[name[f]]
<1>0. name[f] \in Own(f) /\ Own(f) \subseteq Inodes /\ data \in [Inodes -> Seq(Block)]
  BY OwnApart DEF OwnInv, TypeInv, TypeOK
<1>1. CASE ~ Booking(h, f)
  BY <1>0, <1>1, ForeignStep
<1>2. CASE Booking(h, f)
  <2>1. /\ at[h] \in 1 .. Len(Items[h]) /\ Items[h][at[h]].op = "bookin" /\ File(h) = f
    <3>1. at[h] \in Nat \ {0} /\ at[h] <= Len(Items[h]) /\ Len(Items[h]) \in Nat
      BY <1>2, SessionAssumption DEF Booking, TypeInv, TypeOK
    <3> QED BY <3>1, <1>2 DEF Booking, File
  <2>2. pc[h] \notin Replaced => name[f] # <<h, at[h]>>
    <3>1. \A n \in Nat : ~ n < n
      OBVIOUS
    <3>2. at[h] \in Nat
      BY DEF TypeInv, TypeOK
    <3> QED BY <2>1, <3>1, <3>2 DEF NamesOf
  <2>3. CASE InOpen(h)
    <3>1. pc[h] = "items"
      BY <2>3 DEF InOpen, AtItem
    <3>2. temp[f] = Absent
      BY <3>1 DEF NamesOf, Owning
    <3>3. data' = [data EXCEPT ![<<h, at[h]>>] = <<>>] /\ name' = name
      BY <2>1, <2>3, <3>2 DEF InOpen
    <3> QED BY <3>1, <3>3, <2>2, <1>0 DEF Replaced
  <2>4. CASE InReceive(h)
    <3>1. pc[h] = "inrecv" /\ name' = name
      BY <2>4 DEF InReceive
    <3>2. temp[f] = fd[h].ino /\ fd[h].ino \in Inodes
      BY <3>1, <1>2, <2>1, <1>0 DEF NamesOf, Owning, OwnInv, BookingIn
    <3>3. fd[h].ino = <<h, at[h]>>
      BY <3>2, AbsentAssumption DEF NamesOf
    <3>4. fd[h].ino # name[f]
      BY <3>1, <3>3, <2>2 DEF Replaced
    <3> QED BY <3>1, <3>4, <2>4, <1>0 DEF InReceive
  <2>5. CASE InAbort(h)
    BY <2>5 DEF InAbort
  <2>6. CASE ~ InOpen(h) /\ ~ InReceive(h) /\ ~ InAbort(h)
    <3>1. ~ InRename(h) /\ ~ InClose(h)
      BY <1>2
    <3>2. name' = name
      BY <2>6, <3>1, QuietSteps DEF QuietStep, TypeInv
    <3>3. data' = data
      <4>1. CASE FileStep(h)
        BY <2>6, <3>1, <4>1 DEF FileStep, OutStat, OutOpen, OutOpenFails, OutSend, InReply, InStat, InChmod, fsVars
      <4> QED BY <4>1, OtherSteps
    <3> QED BY <3>2, <3>3
  <2> QED BY <2>3, <2>4, <2>5, <2>6
<1> QED BY <1>1, <1>2

\* What is written of the copy is a beginning of it.
WrittenOf(h, f) ==
    Booking(h, f) /\ pc[h] \in BookingIn =>
        LET d == data[fd[h].ino] IN
        /\ Len(d) = fd[h].pos
        /\ pc[h] # "inreply" => \A k \in 1 .. Len(d) : d[k] = local[h][f][k]

WrittenInv == \A h \in Prompt, f \in Files : Sole(h, f) => WrittenOf(h, f)

\* The block that comes next makes the beginning one longer.
LEMMA WriteNext ==
    ASSUME NEW d \in Seq(Block), NEW b \in Block
    PROVE  /\ WriteAt(d, Len(d), b) \in Seq(Block)
           /\ Len(WriteAt(d, Len(d), b)) = Len(d) + 1
           /\ \A k \in 1 .. Len(d) : WriteAt(d, Len(d), b)[k] = d[k]
           /\ WriteAt(d, Len(d), b)[Len(d) + 1] = b
<1> DEFINE n == Len(d)
<1>1. n \in Nat /\ ~ n < n /\ n + 1 \in 1 .. n + 1
  OBVIOUS
<1>2. WriteAt(d, n, b) = [k \in 1 .. n + 1 |-> IF k = n + 1 THEN b ELSE IF k <= n THEN d[k] ELSE Hole]
  BY <1>1 DEF WriteAt
<1>3. WriteAt(d, n, b) \in Seq(Block) /\ Len(WriteAt(d, n, b)) = n + 1
  BY <1>1, WriteAtTyped
<1>4. \A k \in 1 .. n : k \in 1 .. n + 1 /\ k # n + 1 /\ k <= n
  BY <1>1
<1> HIDE DEF n
<1>5. \A k \in 1 .. n : WriteAt(d, n, b)[k] = d[k]
  BY <1>2, <1>4
<1>6. WriteAt(d, n, b)[n + 1] = b
  BY <1>2, <1>1
<1> QED BY <1>3, <1>5, <1>6 DEF n

LEMMA WrittenStepOf ==
    ASSUME TypeInv, OwnInv, NEW h \in Prompt, NEW f \in Files, ~ Closed(h), InStep(h),
           WrittenOf(h, f), Handler(h)
    PROVE  WrittenOf(h, f)'
<1> h \in Sessions
  BY DEF Prompt
<1>0. /\ local' = local /\ pc \in [Sessions -> Statements] /\ at \in [Sessions -> Nat \ {0}]
      /\ fd \in [Sessions -> Streams] /\ data \in [Inodes -> Seq(Block)]
  BY HandlerFrame DEF clientVars, TypeInv, TypeOK, ControlInv, Streams
<1>1. SUFFICES ASSUME Booking(h, f)', pc'[h] \in BookingIn
               PROVE  /\ Len(data'[fd'[h].ino]) = fd'[h].pos
                      /\ pc'[h] # "inreply" =>
                           \A k \in 1 .. Len(data'[fd'[h].ino]) : data'[fd'[h].ino][k] = local[h][f][k]
  BY <1>0 DEF WrittenOf
<1>2. CASE InOpen(h)
  <2> DEFINE i == IF temp[File(h)] = Absent THEN <<h, at[h]>> ELSE temp[File(h)]
  <2>1. /\ at[h] <= Len(Items[h]) /\ Items[h][at[h]].op = "bookin"
        /\ fd' = [fd EXCEPT ![h] = [NoStream EXCEPT !.ino = i]] /\ data' = [data EXCEPT ![i] = <<>>]
        /\ pc'[h] = "inreply"
    BY <1>2, <1>0 DEF InOpen, AtItem, Goto
  <2>2. i \in Inodes
    <3>1. i \in Own(File(h)) /\ File(h) \in Files
      BY <2>1, OwnNew DEF OwnInv, TypeInv
    <3> HIDE DEF i
    <3> QED BY <3>1, OwnApart
  <2> HIDE DEF i
  <2>3. data'[i] = <<>> /\ fd'[h].ino = i /\ fd'[h].pos = 0
    BY <2>1, <2>2, <1>0 DEF NoStream
  <2> QED BY <2>1, <2>3
<1>3. CASE ~ InOpen(h)
  <2>1. pc[h] \in BookingIn /\ fd'[h].ino = fd[h].ino /\ at'[h] = at[h]
    BY <1>1, <1>3, StreamOfBookin
  <2>2. Booking(h, f) /\ File(h) = f
    BY <2>1, <1>1 DEF Booking, File
  <2> DEFINE d == data[fd[h].ino]
             w == local[h][f]
  <2>3. fd[h].ino \in Inodes /\ d \in Seq(Block) /\ Len(d) = fd[h].pos
    <3>1. fd[h].ino \in Inodes
      BY <2>1, <2>2, OwnApart DEF OwnInv
    <3> QED BY <3>1, <2>1, <2>2, <1>0 DEF WrittenOf
  <2>4. CASE InReceive(h) /\ fd[h].left > 1
    <3>1. pc[h] = "inrecv" /\ pc' = pc
      BY <2>4 DEF InReceive
    <3>2. fd'[h].pos = fd[h].pos + 1 /\ data'[fd[h].ino] = WriteAt(d, Len(d), AsBlock(Head(c2s[h])))
      BY <2>3, <2>4, <1>0 DEF InReceive, Streams
    <3>3. AsBlock(Head(c2s[h])) \in Block
      BY <2>4, ReceiveTyped, AsBlockTyped DEF InReceive, TypeInv
    <3>4. AsBlock(Head(c2s[h])) = w[Len(d) + 1]
      <4>1. c2s[h] # <<>> /\ c2s[h] \in Seq(ToHandler)
        BY <2>4 DEF InReceive, Receive, TypeInv, TypeOK
      <4>2. 1 \in 1 .. Len(c2s[h]) - 0 /\ Head(c2s[h]) = c2s[h][0 + 1]
        BY <4>1
      <4>3. c2s[h][0 + 1] = Data(local[h][File(h)][fd[h].pos + 1])
        BY <3>1, <4>2 DEF InStep, Uploading
      <4> QED BY <4>2, <4>3, <2>2, <2>3 DEF AsBlock, Data
    <3>5. \A k \in 1 .. Len(d) + 1 : k \in 1 .. Len(d) \/ k = Len(d) + 1
      BY <2>3
    <3>6. \A k \in 1 .. Len(d) : d[k] = w[k]
      BY <3>1, <2>1, <2>2 DEF WrittenOf
    <3> DEFINE b == AsBlock(Head(c2s[h]))
               e == WriteAt(d, Len(d), b)
    <3>7. Len(e) = Len(d) + 1 /\ (\A k \in 1 .. Len(d) : e[k] = d[k]) /\ e[Len(d) + 1] = b
      <4>1. b \in Block
        BY <3>3
      <4> HIDE DEF d, b
      <4> QED BY <2>3, <4>1, WriteNext
    <3> HIDE DEF e
    <3>8. \A k \in 1 .. Len(e) : e[k] = w[k]
      BY <3>4, <3>5, <3>6, <3>7
    <3>9. data'[fd'[h].ino] = e
      BY <3>2, <2>1 DEF e
    <3> QED BY <3>2, <3>7, <3>8, <3>9, <2>3
  <2>5. CASE ~ (InReceive(h) /\ fd[h].left > 1)
    <3>1. data' = data /\ fd'[h].pos = fd[h].pos
      <4>1. CASE InReceive(h)
        BY <2>5, <4>1, <1>0, ZenonT(40) DEF InReceive, Streams
      <4>2. CASE InReply(h) \/ InStat(h)
        BY <4>2, <1>0 DEF InReply, InStat, Streams, fsVars
      <4>3. CASE InChmod(h)
        BY <4>3 DEF InChmod
      <4>4. CASE InAbort(h) \/ InClose(h) \/ OutStat(h) \/ OutOpen(h) \/ OutOpenFails(h) \/ OutSend(h)
        BY <4>4, <1>0, <1>1 DEF InAbort, InClose, OutStat, OutOpen, OutOpenFails, OutSend, Advance, Goto,
           BookingIn, AtItem, fsVars
      <4>5. CASE ~ FileStep(h)
        BY <4>5, OtherSteps
      <4> QED BY <1>3, <4>1, <4>2, <4>3, <4>4, <4>5 DEF FileStep
    <3>2. CASE pc[h] # "inreply"
      BY <3>1, <3>2, <2>1, <2>2, <2>3 DEF WrittenOf
    <3>3. CASE pc[h] = "inreply"
      <4>1. Len(d) = 0
        BY <3>3, <2>3 DEF InStep
      <4> QED BY <4>1, <3>1, <2>1, <2>3
    <3> QED BY <3>2, <3>3
  <2> QED BY <2>4, <2>5
<1> QED BY <1>2, <1>3

\* A copy does not change while it is sent, nor until the file is closed.
LEMMA CopyStays ==
    ASSUME TypeInv, NEW h \in Prompt, ~ Closed(h), InStep(h), pc[h] \in BookingIn \ {"inreply"},
           Client(h) \/ ClientQuit(h)
    PROVE  local'[h] = local[h]
<1> h \in Sessions
  BY DEF Prompt
<1>1. s2c[h] = <<>> /\ cpc[h] \in {"read", "upload"}
  BY DEF InStep, BookingIn, Filing, Uploading, Received
<1> QED BY <1>1 DEF Client, ClientQuit, ClientStart, ClientBookout, ClientCopy, ClientBookin, ClientUpload,
       ClientRunBegins, ClientRunEnds, ClientAuthBegins, ClientAuthEnds, ClientOkay,
       ClientRaw, ClientPrint, ClientEnd, NextLine, clientVars

LEMMA NextWritten ==
    ASSUME TypeInv, OwnInv, SyncInv, WrittenInv, [Next]_vars
    PROVE  WrittenInv'
<1> SUFFICES ASSUME NEW h \in Prompt, NEW f \in Files, Sole(h, f), pc'[h] \in BookingIn, Booking(h, f)'
             PROVE  WrittenOf(h, f)'
  BY DEF WrittenInv, Sole, WrittenOf, Prompt
<1> h \in Sessions
  BY DEF Prompt
<1>0. WrittenOf(h, f)
  BY DEF WrittenInv
<1>1. ASSUME SameSession(h), data'[fd[h].ino] = data[fd[h].ino] PROVE WrittenOf(h, f)'
  BY <1>0, <1>1 DEF WrittenOf, SameSession, Booking
<1>2. ASSUME NEW g \in Sessions \ {h}, Handler(g) \/ HandlerKilled(g) PROVE WrittenOf(h, f)'
  <2>1. SameSession(h)
    BY <1>2, OneSession
  <2>2. pc[h] \in BookingIn /\ Booking(h, f) /\ File(h) = f
    BY <2>1 DEF SameSession, Booking, File
  <2>3. fd[h].ino \in Own(f)
    BY <2>2 DEF OwnInv
  <2>4. ~ Booking(g, f)
    BY BookingBooks DEF Sole
  <2> QED BY <2>1, <2>3, <2>4, <1>1, <1>2, ForeignStep
<1>3. ASSUME NEW g \in Sessions \ {h}, Client(g) \/ ClientQuit(g) PROVE WrittenOf(h, f)'
  BY <1>1, <1>3, OneSession, ClientFiles
<1>4. CASE Handler(h)
  <2>1. ~ Closed(h)
    BY <1>4 DEF Handler, Request, RequestFails, RulePasses, AskAuth, AuthLine, AuthEnds, Refuse, Permit,
       Require, ClientRunLine, Run, EndOfItems, InOpenFails, CloseSession, OutStat, OutOpen, OutOpenFails,
       OutSend, InOpen, InReply,
       InAbort, InReceive, InReceiveEnds, InStat, InRename, InChmod, InClose, RuleInHand, AtItem, Closed
  <2> QED BY <1>0, <1>4, <2>1, WrittenStepOf DEF SyncInv
<1>5. CASE HandlerKilled(h)
  BY <1>5 DEF HandlerKilled, Goto, BookingIn, TypeInv, TypeOK
<1>6. CASE Client(h) \/ ClientQuit(h)
  <2>1. UNCHANGED <<pc, at, data, fd>>
    BY <1>6, ClientFrame, ClientFiles
  <2>2. ~ Closed(h)
    BY <2>1 DEF Closed, BookingIn
  <2>3. CASE pc[h] = "inreply"
    BY <1>0, <2>1, <2>3 DEF WrittenOf, Booking
  <2>4. CASE pc[h] # "inreply"
    <3>1. local'[h] = local[h]
      BY <1>6, <2>1, <2>2, <2>4, CopyStays DEF SyncInv
    <3> QED BY <3>1, <1>0, <2>1 DEF WrittenOf, Booking
  <2> QED BY <2>3, <2>4
<1>7. CASE UNCHANGED vars
  BY <1>1, <1>7 DEF SameSession, vars, serverVars, clientVars, fsVars
<1> QED BY <1>2, <1>3, <1>4, <1>5, <1>6, <1>7 DEF Next, AllFinished

LEMMA InitWritten == ASSUME Init PROVE WrittenInv
BY DEF Init, WrittenInv, WrittenOf, BookingIn, Prompt

\* Sequences are equal when their blocks are.
LEMMA SameBlocks ==
    ASSUME NEW s \in Seq(Block), NEW t \in Seq(Block), Len(s) = Len(t), \A k \in 1 .. Len(t) : s[k] = t[k]
    PROVE  s = t
OBVIOUS

\* With the stream's last block a file is what the user's copy is.
LEMMA WithTail ==
    ASSUME TypeInv, OwnInv, NEW h \in Prompt, NEW f \in Files, InStep(h), WrittenOf(h, f), Booking(h, f),
           pc[h] \in Filing
    PROVE  /\ fd[h].ino \in Inodes /\ local[h][f] # Absent
           /\ fd[h].buf = <<>> => data[fd[h].ino] = local[h][f]
           /\ fd[h].buf # <<>> => WriteAt(data[fd[h].ino], fd[h].pos, Head(fd[h].buf)) = local[h][f]
<1> h \in Sessions
  BY DEF Prompt
<1> DEFINE d == data[fd[h].ino]
           w == local[h][f]
<1>1. File(h) = f /\ pc[h] \in BookingIn \ {"inreply"}
  BY DEF Filing, BookingIn, Booking, File
<1>2. /\ w # Absent /\ fd[h].pos + Len(fd[h].buf) = Len(w)
      /\ fd[h].buf = IF w = <<>> THEN <<>> ELSE <<w[Len(w)]>>
  BY <1>1 DEF InStep, Received
<1>3. /\ w \in Seq(Block) /\ d \in Seq(Block) /\ fd[h].ino \in Inodes /\ fd[h].pos \in Nat
      /\ data \in [Inodes -> Seq(Block)]
  <2>1. fd[h].ino \in Inodes /\ fd[h] \in Streams
    BY <1>1, StreamTyped, OwnApart DEF OwnInv, TypeInv
  <2> QED BY <2>1, <1>2 DEF TypeInv, TypeOK, Streams
<1>4. Len(d) = fd[h].pos /\ \A k \in 1 .. Len(d) : d[k] = w[k]
  BY <1>1 DEF WrittenOf
<1>5. CASE w = <<>>
  <2>1. fd[h].buf = <<>> /\ Len(d) = 0
    BY <1>2, <1>3, <1>4, <1>5
  <2>2. d = <<>>
    <3>1. \A s \in Seq(Block) : Len(s) = 0 => s = <<>>
      OBVIOUS
    <3> QED BY <3>1, <2>1, <1>3
  <2> QED BY <2>1, <2>2, <1>2, <1>3, <1>5
<1>6. CASE w # <<>>
  <2>1. fd[h].buf = <<w[Len(w)]>> /\ Len(fd[h].buf) = 1 /\ Head(fd[h].buf) = w[Len(w)] /\ fd[h].buf # <<>>
    BY <1>2, <1>6
  <2>2. Len(w) = Len(d) + 1 /\ Len(w) \in 1 .. Len(w) /\ w[Len(w)] \in Block
    BY <2>1, <1>2, <1>3, <1>4, <1>6
  <2> DEFINE e == WriteAt(d, Len(d), w[Len(w)])
  <2>3. WriteAt(data[fd[h].ino], fd[h].pos, Head(fd[h].buf)) = e
    BY <2>1, <1>4
  <2>4. /\ e \in Seq(Block) /\ Len(e) = Len(w) /\ e[Len(w)] = w[Len(w)]
        /\ \A k \in 1 .. Len(d) : e[k] = w[k]
    <3>1. \A b \in Block : LET x == WriteAt(d, Len(d), b) IN
             x \in Seq(Block) /\ Len(x) = Len(d) + 1 /\ x[Len(d) + 1] = b /\ \A k \in 1 .. Len(d) : x[k] = d[k]
      <4> HIDE DEF d
      <4> QED BY <1>3, WriteNext
    <3> HIDE DEF d, w
    <3>2. /\ e \in Seq(Block) /\ Len(e) = Len(d) + 1 /\ e[Len(d) + 1] = w[Len(w)]
          /\ \A k \in 1 .. Len(d) : e[k] = d[k]
      BY <2>2, <3>1
    <3> HIDE DEF e
    <3> QED BY <2>2, <3>2, <1>4
  <2>5. \A k \in 1 .. Len(w) : k \in 1 .. Len(d) \/ k = Len(w)
    BY <2>2, <1>3
  <2> HIDE DEF e, d, w
  <2>6. \A k \in 1 .. Len(w) : e[k] = w[k]
    BY <2>4, <2>5
  <2>7. e = w
    BY <2>4, <2>6, <1>3, SameBlocks
  <2> QED BY <2>1, <2>3, <2>7, <1>2, <1>3 DEF e, d, w
<1> QED BY <1>5, <1>6

LEMMA Completes ==
    ASSUME TypeInv, OwnInv, NEW h \in Prompt, NEW f \in Files, InStep(h), WrittenOf(h, f), Booking(h, f),
           InClose(h)
    PROVE  data'[fd[h].ino] = local[h][f] /\ local[h][f] # Absent
<1>1. pc[h] \in Filing /\ data \in [Inodes -> Seq(Block)]
  BY DEF InClose, Filing, TypeInv, TypeOK
<1>2. /\ fd[h].ino \in Inodes /\ local[h][f] # Absent
      /\ fd[h].buf = <<>> => data[fd[h].ino] = local[h][f]
      /\ fd[h].buf # <<>> => WriteAt(data[fd[h].ino], fd[h].pos, Head(fd[h].buf)) = local[h][f]
  BY <1>1, WithTail
<1> QED BY <1>1, <1>2 DEF InClose

-------------------------------------------------------------------------------
(* Copies are whole files. *)

\* After place p of what is sent, the blocks of v come from the (n + 1)-th on, all
\* of them or as many as the handler has sent.
Follows(s, v, p, n, sending, pos) ==
    /\ \A k \in 1 .. Len(v) - n : p + k <= Len(s) => s[p + k] = Data(v[n + k])
    /\ p + (Len(v) - n) <= Len(s) \/ (sending /\ pos = n + (Len(s) - p))

LEMMA FollowsOn ==
    ASSUME NEW s \in Seq(ToClient), NEW v \in Seq(Block), NEW p \in Nat, NEW n \in Nat, n <= Len(v),
           NEW sending, NEW pos \in Nat, Follows(s, v, p, n, sending, pos)
    PROVE  /\ \A t \in Seq(ToClient) : \A b, q : ~ sending => Follows(s \o t, v, p, n, b, q)
           /\ \A d \in ToClient : sending /\ d = Data(v[pos + 1]) => Follows(Append(s, d), v, p, n, sending, pos + 1)
           /\ pos = Len(v) => \A b, q : Follows(s, v, p, n, b, q)
<1> USE DEF Follows
<1>1. Len(s) \in Nat /\ Len(v) \in Nat
  OBVIOUS
<1>2. ASSUME NEW t \in Seq(ToClient), NEW b, NEW q, ~ sending PROVE Follows(s \o t, v, p, n, b, q)
  <2>1. p + (Len(v) - n) <= Len(s)
    BY <1>2
  <2>2. Len(s \o t) = Len(s) + Len(t) /\ Len(t) \in Nat /\ \A k \in 1 .. Len(s) : (s \o t)[k] = s[k]
    OBVIOUS
  <2>3. \A k \in 1 .. Len(v) - n : p + k \in 1 .. Len(s) /\ p + k <= Len(s)
    BY <2>1, <1>1
  <2> DEFINE u == s \o t
  <2> HIDE DEF u
  <2>4. \A k \in 1 .. Len(v) - n : u[p + k] = Data(v[n + k])
    BY <2>2, <2>3 DEF u
  <2>5. p + (Len(v) - n) <= Len(u)
    BY <2>1, <2>2, <1>1 DEF u
  <2> QED BY <2>4, <2>5 DEF u
<1>3. ASSUME NEW d \in ToClient, sending, d = Data(v[pos + 1]) PROVE Follows(Append(s, d), v, p, n, sending, pos + 1)
  <2> DEFINE u == Append(s, d)
  <2>1. Len(u) = Len(s) + 1 /\ u[Len(s) + 1] = d /\ \A k \in 1 .. Len(s) : u[k] = s[k]
    OBVIOUS
  <2> HIDE DEF u
  <2>2. CASE p + (Len(v) - n) <= Len(s)
    <3>1. \A k \in 1 .. Len(v) - n : p + k \in 1 .. Len(s) /\ p + k <= Len(s)
      BY <2>2, <1>1
    <3>2. \A k \in 1 .. Len(v) - n : u[p + k] = Data(v[n + k])
      BY <2>1, <3>1
    <3>3. p + (Len(v) - n) <= Len(u)
      BY <2>1, <2>2, <1>1
    <3> QED BY <3>2, <3>3 DEF u
  <2>3. CASE pos = n + (Len(s) - p)
    <3>1. ASSUME NEW k \in 1 .. Len(v) - n, p + k <= Len(u) PROVE u[p + k] = Data(v[n + k])
      <4>1. CASE p + k <= Len(s)
        <5>1. p + k \in 1 .. Len(s)
          BY <4>1, <1>1
        <5> QED BY <4>1, <5>1, <2>1
      <4>2. CASE ~ p + k <= Len(s)
        <5>1. p + k = Len(s) + 1 /\ n + k = pos + 1
          BY <4>2, <3>1, <2>1, <2>3, <1>1
        <5> QED BY <5>1, <2>1, <1>3
      <4> QED BY <4>1, <4>2
    <3>2. pos + 1 = n + (Len(u) - p)
      BY <2>1, <2>3, <1>1
    <3> QED BY <3>1, <3>2, <1>3 DEF u
  <2> QED BY <2>2, <2>3
<1>4. ASSUME pos = Len(v), NEW b, NEW q PROVE Follows(s, v, p, n, b, q)
  <2>1. p + (Len(v) - n) <= Len(s)
    BY <1>4, <1>1
  <2> QED BY <2>1
<1> HIDE DEF Follows
<1> QED BY <1>2, <1>3, <1>4

\* The client takes the first message; it may be the next block.
LEMMA FollowsTail ==
    ASSUME NEW s \in Seq(ToClient), s # <<>>, NEW v \in Seq(Block), NEW n \in Nat, n <= Len(v),
           NEW sending, NEW pos \in Nat
    PROVE  /\ \A p \in Nat : Follows(s, v, p + 1, n, sending, pos) => Follows(Tail(s), v, p, n, sending, pos)
           /\ n < Len(v) /\ Follows(s, v, 0, n, sending, pos) =>
                Head(s) = Data(v[n + 1]) /\ Follows(Tail(s), v, 0, n + 1, sending, pos)
<1> USE DEF Follows
<1> DEFINE u == Tail(s)
<1>1. /\ Len(s) \in Nat \ {0} /\ Len(v) \in Nat /\ Len(u) = Len(s) - 1 /\ Head(s) = s[1]
      /\ \A k \in 1 .. Len(s) - 1 : u[k] = s[k + 1]
  OBVIOUS
<1> HIDE DEF u
<1>2. ASSUME NEW p \in Nat, Follows(s, v, p + 1, n, sending, pos) PROVE Follows(u, v, p, n, sending, pos)
  <2>1. ASSUME NEW k \in 1 .. Len(v) - n, p + k <= Len(u) PROVE u[p + k] = Data(v[n + k])
    <3>1. p + k \in 1 .. Len(s) - 1 /\ (p + k) + 1 = (p + 1) + k /\ (p + 1) + k <= Len(s)
      BY <2>1, <1>1
    <3> QED BY <3>1, <1>1, <1>2
  <2>2. p + (Len(v) - n) <= Len(u) \/ (sending /\ pos = n + (Len(u) - p))
    <3>1. (p + 1) + (Len(v) - n) <= Len(s) \/ (sending /\ pos = n + (Len(s) - (p + 1)))
      BY <1>2
    <3>2. (p + 1) + (Len(v) - n) <= Len(s) => p + (Len(v) - n) <= Len(u)
      BY <1>1
    <3>3. Len(s) - (p + 1) = Len(u) - p
      BY <1>1
    <3> QED BY <3>1, <3>2, <3>3
  <2> QED BY <2>1, <2>2
<1>3. ASSUME n < Len(v), Follows(s, v, 0, n, sending, pos)
      PROVE  Head(s) = Data(v[n + 1]) /\ Follows(u, v, 0, n + 1, sending, pos)
  <2>1. Head(s) = Data(v[n + 1])
    <3>1. 1 \in 1 .. Len(v) - n /\ 0 + 1 <= Len(s) /\ 0 + 1 = 1
      BY <1>1, <1>3
    <3>2. s[0 + 1] = Data(v[n + 1])
      BY <3>1, <1>3
    <3> QED BY <3>1, <3>2, <1>1
  <2>2. ASSUME NEW k \in 1 .. Len(v) - (n + 1), 0 + k <= Len(u) PROVE u[0 + k] = Data(v[(n + 1) + k])
    <3>1. /\ k + 1 \in 1 .. Len(v) - n /\ 0 + (k + 1) <= Len(s) /\ 0 + k = k /\ 0 + (k + 1) = k + 1
          /\ k \in 1 .. Len(s) - 1 /\ (n + 1) + k = n + (k + 1)
      BY <2>2, <1>1
    <3>2. s[0 + (k + 1)] = Data(v[n + (k + 1)])
      BY <3>1, <1>3
    <3> QED BY <3>1, <3>2, <1>1
  <2>3. 0 + (Len(v) - (n + 1)) <= Len(u) \/ (sending /\ pos = (n + 1) + (Len(u) - 0))
    <3>1. 0 + (Len(v) - n) <= Len(s) \/ (sending /\ pos = n + (Len(s) - 0))
      BY <1>3
    <3>2. 0 + (Len(v) - n) <= Len(s) => 0 + (Len(v) - (n + 1)) <= Len(u)
      BY <1>1
    <3>3. n + (Len(s) - 0) = (n + 1) + (Len(u) - 0)
      BY <1>1
    <3> QED BY <3>1, <3>2, <3>3
  <2> QED BY <2>1, <2>2, <2>3
<1> HIDE DEF Follows
<1> QED BY <1>2, <1>3 DEF u

Sending(h, f) == pc[h] = "outsend" /\ File(h) = f

\* A header announces the whole file; so many blocks follow it, and what the
\* client has taken of them is in its copy.
CopiesOf(h, f) ==
    LET v == data[name[f]] IN
    /\ pc[h] = "outopen" /\ File(h) = f => fd[h].size = Len(v) /\ fd[h].pos = 0
    /\ Sending(h, f) => fd[h].ino = name[f] /\ fd[h].pos <= Len(v)
    /\ \A p \in 1 .. Len(s2c[h]) : s2c[h][p].type = "bookout" /\ s2c[h][p].file = f =>
         /\ name[f] # Absent
         /\ s2c[h][p].size = Len(v)
         /\ Follows(s2c[h], v, p, 0, Sending(h, f), fd[h].pos)
    /\ cpc[h] = "copy" /\ copying[h].file = f =>
         LET w == local[h][f] IN
         /\ name[f] # Absent
         /\ Len(w) + copying[h].left = Len(v)
         /\ \A k \in 1 .. Len(w) : w[k] = v[k]
         /\ Follows(s2c[h], v, 0, Len(w), Sending(h, f), fd[h].pos)

\* It stays so after a session that ended by itself.
CopiesInv == \A h \in Prompt, f \in Files : Sole(h, f) /\ (Closed(h) => h \notin Killable) => CopiesOf(h, f)

\* Only one statement says bookout, and only one clientrun.
LEMMA Utters ==
    ASSUME TypeInv, NEW h \in Sessions, Handler(h) \/ HandlerKilled(h), ~ OutOpen(h), ~ ClientRunLine(h)
    PROVE  \E t \in Seq(ToClient) :
              s2c'[h] = s2c[h] \o t /\ \A k \in 1 .. Len(t) : t[k].type \notin {"bookout", "clientrun"}
<1>0. s2c \in [Sessions -> Seq(ToClient)] /\ s2c[h] \in Seq(ToClient)
  BY DEF TypeInv, TypeOK
<1> DEFINE Said == \E t \in Seq(ToClient) :
              s2c'[h] = s2c[h] \o t /\ \A k \in 1 .. Len(t) : t[k].type \notin {"bookout", "clientrun"}
<1> SUFFICES Said
  OBVIOUS
<1>1. ASSUME s2c'[h] = s2c[h] PROVE Said
  <2>1. <<>> \in Seq(ToClient) /\ s2c[h] \o <<>> = s2c[h] /\ Len(<<>>) = 0
    BY <1>0
  <2>2. \A k \in 1 .. 0 : FALSE
    OBVIOUS
  <2> WITNESS <<>> \in Seq(ToClient)
  <2> QED BY <2>1, <2>2, <1>1
<1>2. ASSUME NEW t \in Seq(ToClient), Send(h, t), \A k \in 1 .. Len(t) : t[k].type \notin {"bookout", "clientrun"}
      PROVE  Said
  <2>1. CASE Gone(h)
    BY <1>1, <1>2, <2>1 DEF Send
  <2>2. CASE ~ Gone(h)
    BY <1>2, <2>2, <1>0 DEF Send
  <2> QED BY <2>1, <2>2
<1>3. ASSUME NEW m \in ToClient, m.type \notin {"bookout", "clientrun"}, Send(h, <<m>>) PROVE Said
  <2>1. <<m>> \in Seq(ToClient) /\ \A k \in 1 .. Len(<<m>>) : <<m>>[k] = m
    OBVIOUS
  <2>2. \A k \in 1 .. Len(<<m>>) : <<m>>[k].type \notin {"bookout", "clientrun"}
    BY <1>3, <2>1
  <2> QED BY <2>1, <2>2, <1>2, <1>3
<1> HIDE DEF Said
<1>4. \A x \in {"auth", "okay", "fail"} : [type |-> x] \in ToClient
  BY DEF ToClient
<1>5. CASE Request(h) \/ RequestFails(h) \/ RulePasses(h) \/ Permit(h) \/ Require(h) \/ EndOfItems(h)
           \/ InOpenFails(h) \/ CloseSession(h)
  BY <1>1, <1>5 DEF Request, RequestFails, RulePasses, Permit, Require, EndOfItems, InOpenFails, CloseSession
<1>6. CASE AskAuth(h) \/ AuthLine(h) \/ AuthEnds(h) \/ Refuse(h)
  <2>1. s2c' = s2c \/ \E x \in {"auth", "okay", "fail"} : Send(h, <<[type |-> x]>>)
    BY <1>6 DEF AskAuth, AuthLine, AuthEnds, Refuse
  <2> QED BY <2>1, <1>1, <1>3, <1>4
<1>7. CASE Run(h)
  <2>1. CASE s2c' = s2c \/ Send(h, <<[type |-> "fail"]>>)
    BY <2>1, <1>1, <1>3, <1>4
  <2>2. CASE Send(h, <<[type |-> "okay"], Data(Output)>>)
    <3> DEFINE d == Data(Output)
               m == [type |-> "okay"]
    <3>1. d \in ToClient /\ d.type = "data" /\ m \in ToClient /\ m.type = "okay"
      BY SessionAssumption, DataTyped, <1>4 DEF Data
    <3> HIDE DEF d, m
    <3>2. /\ <<m, d>> \in Seq(ToClient) /\ Len(<<m, d>>) = 2 /\ <<m, d>>[1] = m /\ <<m, d>>[2] = d
      BY <3>1
    <3>3. \A k \in 1 .. 2 : k = 1 \/ k = 2
      OBVIOUS
    <3>4. \A k \in 1 .. Len(<<m, d>>) : <<m, d>>[k].type \notin {"bookout", "clientrun"}
      BY <3>1, <3>2, <3>3
    <3> QED BY <2>2, <3>2, <3>4, <1>2 DEF d, m
  <2> QED BY <1>7, <2>1, <2>2 DEF Run
<1>8. CASE InOpen(h)
  <2> DEFINE m == [type |-> "bookin", file |-> File(h), size |-> 0]
  <2>1. m \in ToClient /\ m.type = "bookin" /\ Send(h, <<m>>)
    BY <1>8, OwnNew DEF InOpen, AtItem, ToClient, TypeInv
  <2> HIDE DEF m
  <2> QED BY <2>1, <1>3
<1>9. CASE OutStat(h) \/ OutOpenFails(h) \/ InReply(h) \/ InAbort(h) \/ InReceive(h) \/ InReceiveEnds(h)
  BY <1>1, <1>9 DEF OutStat, OutOpenFails, InReply, InAbort, InReceive, InReceiveEnds
<1>10. CASE InStat(h) \/ InRename(h) \/ InChmod(h) \/ InClose(h) \/ HandlerKilled(h)
  BY <1>1, <1>10 DEF InStat, InRename, InChmod, InClose, HandlerKilled
<1>11. CASE OutSend(h)
  <2>1. CASE s2c' = s2c
    BY <2>1, <1>1
  <2>2. CASE s2c' # s2c
    <3> DEFINE b == data[fd[h].ino][fd[h].pos + 1]
               d == Data(b)
    <3>1. fd[h].pos < Len(data[fd[h].ino]) /\ Send(h, <<d>>) /\ pc[h] = "outsend"
      BY <1>11, <2>2 DEF OutSend
    <3>2. fd[h].ino \in Inodes /\ fd[h].pos \in Nat
      <4>1. fd[h] \in Streams
        BY StreamTyped DEF TypeInv
      <4> QED BY <3>1, <4>1 DEF TypeInv, OpenInv, Streams
    <3>3. data[fd[h].ino] \in Seq(Block)
      BY <3>2 DEF TypeInv, TypeOK
    <3>4. b \in Block
      BY <3>1, <3>2, <3>3
    <3>5. d \in ToClient /\ d.type = "data"
      BY <3>4, DataTyped DEF Data
    <3> HIDE DEF d
    <3> QED BY <3>1, <3>5, <1>3
  <2> QED BY <2>1, <2>2
<1> QED BY <1>5, <1>6, <1>7, <1>8, <1>9, <1>10, <1>11 DEF Handler

\* What a handler says of anything but book-outs.
LEMMA Says ==
    ASSUME TypeInv, NEW h \in Sessions, Handler(h), ~ Gone(h), ~ OutStat(h), ~ OutOpen(h), ~ OutSend(h)
    PROVE  /\ pc[h] # "outsend" /\ pc'[h] \notin {"outopen", "outsend"}
           /\ \E t \in Seq(ToClient) : s2c'[h] = s2c[h] \o t /\ \A k \in 1 .. Len(t) : t[k].type # "bookout"
<1>1. pc[h] # "outsend" /\ pc'[h] \notin {"outopen", "outsend"}
  <2>0. pc \in [Sessions -> Statements]
    BY DEF TypeInv, ControlInv
  <2> USE DEF Goto, Advance, Statements
  <2>1. CASE Request(h) \/ RequestFails(h) \/ RulePasses(h) \/ Permit(h) \/ Require(h) \/ EndOfItems(h)
             \/ InOpenFails(h) \/ CloseSession(h)
    BY <2>0, <2>1 DEF Request, RequestFails, RulePasses, Permit, Require, EndOfItems, InOpenFails,
       CloseSession, RuleInHand, AtItem
  <2>2. CASE AskAuth(h) \/ AuthLine(h) \/ AuthEnds(h) \/ Refuse(h) \/ ClientRunLine(h) \/ Run(h)
    BY <2>0, <2>2 DEF AskAuth, AuthLine, AuthEnds, Refuse, ClientRunLine, Run, RuleInHand, AtItem
  <2>3. CASE InOpen(h) \/ InReply(h) \/ InAbort(h) \/ InReceive(h) \/ InReceiveEnds(h)
    BY <2>0, <2>3 DEF InOpen, InReply, InAbort, InReceive, InReceiveEnds, AtItem
  <2>4. CASE InStat(h) \/ InRename(h) \/ InChmod(h) \/ InClose(h) \/ OutOpenFails(h)
    BY <2>0, <2>4 DEF InStat, InRename, InChmod, InClose, OutOpenFails
  <2> QED BY <2>1, <2>2, <2>3, <2>4 DEF Handler
<1>2. \E t \in Seq(ToClient) : s2c'[h] = s2c[h] \o t /\ \A k \in 1 .. Len(t) : t[k].type # "bookout"
  <2>1. CASE ~ ClientRunLine(h)
    BY <2>1, Utters
  <2>2. CASE ClientRunLine(h)
    <3> DEFINE m == [type |-> "clientrun"]
    <3>1. s2c'[h] = s2c[h] \o <<m>> /\ m \in ToClient /\ m.type = "clientrun"
      BY <2>2 DEF ClientRunLine, Send, TypeInv, TypeOK, ToClient
    <3> HIDE DEF m
    <3>2. <<m>> \in Seq(ToClient) /\ \A k \in 1 .. Len(<<m>>) : <<m>>[k] = m
      BY <3>1
    <3>3. \A k \in 1 .. Len(<<m>>) : <<m>>[k].type # "bookout"
      BY <3>1, <3>2
    <3> QED BY <3>1, <3>2, <3>3
  <2> QED BY <2>1, <2>2
<1> QED BY <1>1, <1>2

LEMMA CopiesHandler ==
    ASSUME TypeInv, OwnInv, NEW h \in Prompt, NEW f \in Files, NamesOf(h, f), CopiesOf(h, f),
           ~ Closed(h), InStep(h), Handler(h)
    PROVE  CopiesOf(h, f)'
<1> h \in Sessions
  BY DEF Prompt
<1> DEFINE v == data[name[f]]
           s == s2c[h]
           w == local[h][f]
<1>0. /\ cpc' = cpc /\ local' = local /\ copying' = copying /\ ~ Gone(h)
      /\ s \in Seq(ToClient) /\ Len(s) \in Nat
      /\ pc \in [Sessions -> Statements] /\ at \in [Sessions -> Nat \ {0}] /\ fd \in [Sessions -> Streams]
      /\ fd[h].pos \in Nat /\ s2c \in [Sessions -> Seq(ToClient)]
  <2>1. cpc' = cpc /\ local' = local /\ copying' = copying /\ ~ Gone(h)
    BY HandlerFrame, Present DEF clientVars
  <2>2. s2c \in [Sessions -> Seq(ToClient)] /\ fd \in [Sessions -> Streams]
    BY DEF TypeInv, TypeOK, Streams
  <2>3. pc \in [Sessions -> Statements] /\ at \in [Sessions -> Nat \ {0}]
    BY DEF TypeInv, ControlInv
  <2>4. fd[h].pos \in Nat
    BY <2>2 DEF Streams
  <2> QED BY <2>1, <2>2, <2>3, <2>4
<1>v. name[f] # Absent => v \in Seq(Block) /\ Len(v) \in Nat
  <2>1. name[f] # Absent => name[f] \in Inodes
    BY OwnApart DEF OwnInv
  <2> QED BY <2>1 DEF TypeInv, TypeOK
  \* Nothing is on its way while a copy is put in place.
<1>1. CASE pc[h] \in Filing
  <2>1. s = <<>> /\ cpc[h] = "read"
    BY <1>1 DEF InStep, Received, Filing
  <2>2. InStat(h) \/ InRename(h) \/ InChmod(h) \/ InClose(h)
    BY <1>1 DEF Filing, Handler, Request, RequestFails, RulePasses, AskAuth, AuthLine, AuthEnds, Refuse,
       Permit, Require, ClientRunLine, Run, EndOfItems, InOpenFails, CloseSession, OutStat, OutOpen,
       OutOpenFails, OutSend, InOpen,
       InReply, InAbort, InReceive, InReceiveEnds, RuleInHand, AtItem
  <2>3. s2c' = s2c /\ pc'[h] \notin {"outopen", "outsend"}
    BY <2>2, <1>0 DEF InStat, InRename, InChmod, InClose, Goto, Advance
  <2> QED BY <2>1, <2>3, <1>0 DEF CopiesOf, Sending
<1>2. CASE pc[h] \notin Filing
  <2>1. ~ InRename(h) /\ ~ InClose(h)
    BY <1>2 DEF InRename, InClose, Filing
  <2>2. name[f] # Absent => name'[f] = name[f] /\ data'[name[f]] = v
    BY <2>1, Frozen
  <2>3. \A p \in 1 .. Len(s) : s[p].type = "bookout" /\ s[p].file = f =>
          name[f] # Absent /\ s[p].size = Len(v) /\ Follows(s, v, p, 0, Sending(h, f), fd[h].pos)
    BY DEF CopiesOf
  <2>4. ASSUME cpc[h] = "copy", copying[h].file = f
        PROVE  /\ name[f] # Absent /\ w \in Seq(Block) /\ Len(w) \in Nat /\ Len(w) + copying[h].left = Len(v)
               /\ Len(w) <= Len(v) /\ (\A k \in 1 .. Len(w) : w[k] = v[k])
               /\ Follows(s, v, 0, Len(w), Sending(h, f), fd[h].pos)
    <3>1. w \in Seq(Block) /\ copying[h].left \in Nat
      BY <2>4 DEF TypeInv, TypeOK, OpenInv
    <3>2. /\ name[f] # Absent /\ Len(w) + copying[h].left = Len(v) /\ (\A k \in 1 .. Len(w) : w[k] = v[k])
          /\ Follows(s, v, 0, Len(w), Sending(h, f), fd[h].pos)
      BY <2>4 DEF CopiesOf
    <3>3. Len(w) \in Nat
      BY <3>1
    <3> QED BY <3>1, <3>2, <3>3, <1>v, SMTT(40)
  \* It suffices that what follows a header or a part of a copy still does.
  <2>5. ASSUME NEW S \in Seq(ToClient), s2c'[h] = S,
               pc'[h] = "outopen" /\ File(h)' = f => name[f] # Absent /\ fd'[h].size = Len(v) /\ fd'[h].pos = 0,
               Sending(h, f)' => name[f] # Absent /\ fd'[h].ino = name[f] /\ fd'[h].pos <= Len(v),
               \A p \in 1 .. Len(S) : S[p].type = "bookout" /\ S[p].file = f =>
                  /\ name[f] # Absent /\ S[p].size = Len(v)
                  /\ Follows(S, v, p, 0, Sending(h, f)', fd'[h].pos),
               cpc[h] = "copy" /\ copying[h].file = f => Follows(S, v, 0, Len(w), Sending(h, f)', fd'[h].pos)
        PROVE  CopiesOf(h, f)'
    BY <2>2, <2>4, <2>5, <1>0 DEF CopiesOf
  <2>6. CASE ~ OutStat(h) /\ ~ OutOpen(h) /\ ~ OutSend(h)
    <3>1. pc[h] # "outsend" /\ pc'[h] \notin {"outopen", "outsend"} /\ ~ Sending(h, f) /\ ~ Sending(h, f)'
      BY <2>6, <1>0, Says DEF Sending
    <3>2. PICK t \in Seq(ToClient) : s2c'[h] = s \o t /\ \A k \in 1 .. Len(t) : t[k].type # "bookout"
      BY <2>6, <1>0, Says
    <3> DEFINE S == s \o t
    <3>3. /\ S \in Seq(ToClient) /\ Len(t) \in Nat /\ Len(S) = Len(s) + Len(t)
          /\ (\A k \in 1 .. Len(s) : S[k] = s[k]) /\ (\A k \in 1 .. Len(t) : S[Len(s) + k] = t[k])
      BY <1>0
    <3>4. ASSUME NEW p \in 1 .. Len(S), S[p].type = "bookout" PROVE p \in 1 .. Len(s) /\ S[p] = s[p]
      <4>1. CASE p \in 1 .. Len(s)
        BY <4>1, <3>3
      <4>2. CASE p \notin 1 .. Len(s)
        <5>1. p - Len(s) \in 1 .. Len(t) /\ Len(s) + (p - Len(s)) = p
          BY <4>2, <3>3, <1>0
        <5>2. S[p] = t[p - Len(s)]
          BY <5>1, <3>3
        <5> QED BY <5>1, <5>2, <3>2, <3>4
      <4> QED BY <4>1, <4>2
    <3>5. ASSUME NEW p \in Nat, NEW n \in Nat, name[f] # Absent, n <= Len(v),
                 Follows(s, v, p, n, Sending(h, f), fd[h].pos)
          PROVE  Follows(S, v, p, n, Sending(h, f)', fd'[h].pos)
      BY <3>1, <3>5, <1>0, <1>v, FollowsOn
    <3> HIDE DEF S, v, s, w
    <3>6. \A p \in 1 .. Len(S) : S[p].type = "bookout" /\ S[p].file = f =>
            name[f] # Absent /\ S[p].size = Len(v) /\ Follows(S, v, p, 0, Sending(h, f)', fd'[h].pos)
      BY <3>4, <3>5, <2>3, <1>v, SMTT(40)
    <3>7. cpc[h] = "copy" /\ copying[h].file = f => Follows(S, v, 0, Len(w), Sending(h, f)', fd'[h].pos)
      BY <3>5, <2>4
    <3>8. s2c'[h] = S
      BY <3>2 DEF S
    <3> QED BY <3>1, <3>3, <3>6, <3>7, <3>8, <2>5
  <2>7. CASE OutStat(h)
    <3>1. /\ pc[h] = "items" /\ s2c'[h] = s /\ pc'[h] # "outsend" /\ ~ Sending(h, f) /\ ~ Sending(h, f)'
      BY <2>7, <1>0 DEF OutStat, AtItem, Goto, Advance, Sending
    <3>2. pc'[h] = "outopen" /\ File(h)' = f => name[f] # Absent /\ fd'[h].size = Len(v) /\ fd'[h].pos = 0
      BY <2>7, <1>0, <3>1 DEF OutStat, AtItem, Goto, Advance, File, NoStream
    <3>3. ASSUME NEW p \in Nat, NEW n \in Nat, name[f] # Absent, n <= Len(v),
                 Follows(s, v, p, n, Sending(h, f), fd[h].pos)
          PROVE  Follows(s, v, p, n, Sending(h, f)', fd'[h].pos)
      BY <3>1, <3>3 DEF Follows
    <3> HIDE DEF v, s, w
    <3>4. \A p \in 1 .. Len(s) : s[p].type = "bookout" /\ s[p].file = f =>
            name[f] # Absent /\ s[p].size = Len(v) /\ Follows(s, v, p, 0, Sending(h, f)', fd'[h].pos)
      BY <3>3, <2>3, <1>v
    <3>5. cpc[h] = "copy" /\ copying[h].file = f => Follows(s, v, 0, Len(w), Sending(h, f)', fd'[h].pos)
      BY <3>3, <2>4
    <3> QED BY <3>1, <3>2, <3>4, <3>5, <1>0, <2>5
  <2>8. CASE OutOpen(h)
    <3> DEFINE m == [type |-> "bookout", file |-> File(h), size |-> fd[h].size]
               S == s \o <<m>>
    <3>1. /\ pc[h] = "outopen" /\ pc'[h] = "outsend" /\ at' = at /\ s2c'[h] = S /\ ~ Sending(h, f)
          /\ fd'[h].ino = name[File(h)] /\ fd'[h].pos = fd[h].pos /\ File(h)' = File(h)
          /\ name[File(h)] # Absent
      BY <2>8, <1>0 DEF OutOpen, Goto, Send, Sending, File, Streams, TypeInv, OpenInv
    <3>2. m \in ToClient
      BY <3>1, <1>0, BookoutItem DEF TypeInv, OpenInv, File, ToClient, Streams
    <3>3. /\ S \in Seq(ToClient) /\ Len(S) = Len(s) + 1 /\ S[Len(s) + 1] = m
          /\ \A k \in 1 .. Len(s) : S[k] = s[k]
      <4> HIDE DEF m
      <4> QED BY <3>2, <1>0
    <3>4. ASSUME NEW p \in Nat, NEW n \in Nat, name[f] # Absent, n <= Len(v),
                 Follows(s, v, p, n, Sending(h, f), fd[h].pos)
          PROVE  Follows(S, v, p, n, Sending(h, f)', fd'[h].pos)
      <4>1. <<m>> \in Seq(ToClient)
        BY <3>2
      <4> HIDE DEF m, v, s
      <4>2. \A t \in Seq(ToClient) : \A b, q : Follows(s \o t, v, p, n, b, q)
        BY <3>1, <3>4, <1>0, <1>v, FollowsOn
      <4> QED BY <4>1, <4>2
    <3>5. f = File(h) => fd[h].size = Len(v) /\ fd[h].pos = 0
      BY <3>1 DEF CopiesOf
    <3>6. Sending(h, f)' => /\ name[f] # Absent /\ fd'[h].ino = name[f] /\ fd'[h].pos = 0 /\ fd'[h].pos <= Len(v)
      BY <3>1, <3>5, <1>v DEF Sending
    <3>7. f = File(h) => Follows(S, v, Len(s) + 1, 0, Sending(h, f)', fd'[h].pos)
      <4> SUFFICES ASSUME f = File(h) PROVE Follows(S, v, Len(s) + 1, 0, Sending(h, f)', fd'[h].pos)
        OBVIOUS
      <4>1. Sending(h, f)' /\ fd'[h].pos = 0
        BY <3>1, <3>5 DEF Sending
      <4>2. Len(S) - (Len(s) + 1) = 0 /\ 0 + 0 = 0
        BY <3>3, <1>0
      <4>3. \A k \in 1 .. Len(v) - 0 : ~ (Len(s) + 1 + k <= Len(S))
        <5>1. Len(v) \in Nat
          BY <3>1, <1>v
        <5> QED BY <5>1, <3>3, <1>0
      <4> HIDE DEF S, s, v
      <4> QED BY <4>1, <4>2, <4>3 DEF Follows
    <3> HIDE DEF S
    <3>8. ASSUME NEW p \in 1 .. Len(S), S[p].type = "bookout", S[p].file = f
          PROVE  name[f] # Absent /\ S[p].size = Len(v) /\ Follows(S, v, p, 0, Sending(h, f)', fd'[h].pos)
      <4>1. CASE p \in 1 .. Len(s)
        <5>1. s[p].type = "bookout" /\ s[p].file = f
          BY <4>1, <3>3, <3>8
        <5>2. name[f] # Absent /\ s[p].size = Len(v) /\ Follows(s, v, p, 0, Sending(h, f), fd[h].pos)
          BY <4>1, <5>1, <2>3
        <5>3. S[p].size = Len(v)
          BY <4>1, <5>2, <3>3
        <5> QED BY <4>1, <5>2, <5>3, <3>4, <1>v
      <4>2. CASE p = Len(s) + 1
        <5>1. m.file = f /\ S[p] = m
          BY <4>2, <3>3, <3>8
        <5>2. f = File(h) /\ S[p].size = fd[h].size
          BY <5>1
        <5> QED BY <4>2, <5>2, <3>1, <3>5, <3>7
      <4> QED BY <4>1, <4>2, <3>3, <1>0
    <3>9. cpc[h] = "copy" /\ copying[h].file = f => Follows(S, v, 0, Len(w), Sending(h, f)', fd'[h].pos)
      BY <3>4, <2>4
    <3>10. pc'[h] # "outopen" /\ s2c'[h] = S /\ S \in Seq(ToClient)
      BY <3>1, <3>3
    <3> HIDE DEF v, s, w
    <3> QED BY <3>6, <3>8, <3>9, <3>10, <2>5
  <2>9. CASE OutSend(h)
    <3>1. pc[h] = "outsend" /\ at[h] <= Len(Items[h]) /\ name[File(h)] # Absent /\ fd[h].ino \in Inodes
      BY <2>9 DEF OutSend, TypeInv, OpenInv
    <3>2. data[fd[h].ino] \in Seq(Block)
      BY <3>1 DEF TypeInv, TypeOK
    <3>3. CASE fd[h].pos < Len(data[fd[h].ino])
      <4> DEFINE d == Data(data[fd[h].ino][fd[h].pos + 1])
                 S == Append(s, d)
      <4>1. d \in ToClient /\ d.type = "data"
        BY <3>2, <3>3, <1>0, DataTyped DEF Data
      <4>2. pc' = pc /\ at' = at /\ fd'[h].pos = fd[h].pos + 1 /\ fd'[h].ino = fd[h].ino /\ s2c'[h] = s \o <<d>>
        BY <2>9, <3>3, <1>0, ZenonT(40) DEF OutSend, Send, Streams
      <4>3. s \o <<d>> = S
        <5> HIDE DEF d
        <5> QED BY <4>1, <1>0
      <4>4. /\ S \in Seq(ToClient) /\ Len(S) = Len(s) + 1 /\ S[Len(s) + 1] = d
            /\ \A k \in 1 .. Len(s) : S[k] = s[k]
        <5> HIDE DEF d
        <5> QED BY <4>1, <1>0
      <4>5. (Sending(h, f)' <=> Sending(h, f)) /\ (Sending(h, f) <=> f = File(h))
        BY <4>2, <3>1 DEF Sending, File
      <4>6. Sending(h, f) => d = Data(v[fd[h].pos + 1]) /\ fd[h].pos < Len(v)
        BY <3>3 DEF CopiesOf
      <4>7. ASSUME NEW p \in Nat, NEW n \in Nat, name[f] # Absent, n <= Len(v),
                   Follows(s, v, p, n, Sending(h, f), fd[h].pos)
            PROVE  Follows(S, v, p, n, Sending(h, f)', fd'[h].pos)
        <5>1. CASE Sending(h, f)
          <6>1. d = Data(v[fd[h].pos + 1])
            BY <5>1, <4>6
          <6> HIDE DEF d, v, s
          <6>2. Follows(S, v, p, n, Sending(h, f), fd[h].pos + 1)
            BY <6>1, <5>1, <4>1, <4>7, <1>0, <1>v, FollowsOn
          <6>3. Sending(h, f)' = Sending(h, f)
            BY <4>5, <5>1 DEF Sending
          <6> QED BY <6>2, <6>3, <4>2
        <5>2. CASE ~ Sending(h, f)
          <6>1. <<d>> \in Seq(ToClient)
            BY <4>1
          <6> HIDE DEF d, v, s
          <6>2. \A t \in Seq(ToClient) : \A b, q : Follows(s \o t, v, p, n, b, q)
            BY <5>2, <4>7, <1>0, <1>v, FollowsOn
          <6> QED BY <6>1, <6>2, <4>3
        <5> QED BY <5>1, <5>2
      <4> HIDE DEF S, d
      <4>8. ASSUME NEW p \in 1 .. Len(S), S[p].type = "bookout" PROVE p \in 1 .. Len(s) /\ S[p] = s[p]
        <5>1. CASE p = Len(s) + 1
          BY <5>1, <4>1, <4>4, <4>8
        <5> QED BY <5>1, <4>4, <1>0
      <4> HIDE DEF v, s, w
      <4>9. \A p \in 1 .. Len(S) : S[p].type = "bookout" /\ S[p].file = f =>
              name[f] # Absent /\ S[p].size = Len(v) /\ Follows(S, v, p, 0, Sending(h, f)', fd'[h].pos)
        BY <4>7, <4>8, <2>3, <1>v
      <4>10. cpc[h] = "copy" /\ copying[h].file = f => Follows(S, v, 0, Len(w), Sending(h, f)', fd'[h].pos)
        BY <4>7, <2>4
      <4>11. pc'[h] # "outopen" /\ s2c'[h] = S
        BY <4>2, <4>3, <3>1
      <4>12. Sending(h, f)' => name[f] # Absent /\ fd'[h].ino = name[f] /\ fd'[h].pos <= Len(v)
        <5>1. Sending(h, f) => fd[h].ino = name[f]
          BY DEF CopiesOf
        <5> QED BY <5>1, <4>2, <4>5, <4>6, <3>1, <1>0, <1>v
      <4> QED BY <4>4, <4>9, <4>10, <4>11, <4>12, <2>5
    <3>4. CASE ~ fd[h].pos < Len(data[fd[h].ino])
      <4>1. pc'[h] = "items" /\ s2c'[h] = s /\ ~ Sending(h, f)'
        BY <2>9, <3>4, <1>0 DEF OutSend, Advance, Goto, Sending
      <4>2. Sending(h, f) => fd[h].pos = Len(v) /\ name[f] # Absent
        <5> SUFFICES ASSUME Sending(h, f) PROVE fd[h].pos = Len(v) /\ name[f] # Absent
          OBVIOUS
        <5>1. fd[h].ino = name[f] /\ fd[h].pos <= Len(v) /\ name[f] # Absent
          BY <3>1 DEF CopiesOf, Sending
        <5> QED BY <5>1, <3>4, <1>0, <1>v
      <4>3. ASSUME NEW p \in Nat, NEW n \in Nat, name[f] # Absent, n <= Len(v),
                   Follows(s, v, p, n, Sending(h, f), fd[h].pos)
            PROVE  Follows(s, v, p, n, Sending(h, f)', fd'[h].pos)
        <5> HIDE DEF v, s
        <5>1. CASE Sending(h, f)
          BY <5>1, <4>2, <4>3, <1>0, <1>v, FollowsOn
        <5>2. CASE ~ Sending(h, f)
          BY <5>2, <4>3 DEF Follows
        <5> QED BY <5>1, <5>2
      <4> HIDE DEF v, s, w
      <4>4. \A p \in 1 .. Len(s) : s[p].type = "bookout" /\ s[p].file = f =>
              name[f] # Absent /\ s[p].size = Len(v) /\ Follows(s, v, p, 0, Sending(h, f)', fd'[h].pos)
        BY <4>3, <2>3, <1>v, SMTT(40)
      <4>5. cpc[h] = "copy" /\ copying[h].file = f => Follows(s, v, 0, Len(w), Sending(h, f)', fd'[h].pos)
        BY <4>3, <2>4
      <4> QED BY <4>1, <4>4, <4>5, <1>0, <2>5
    <3> QED BY <3>3, <3>4
  <2> QED BY <2>6, <2>7, <2>8, <2>9
<1> QED BY <1>1, <1>2

LEMMA CopiesClient ==
    ASSUME TypeInv, OwnInv, NEW h \in Prompt, NEW f \in Files, CopiesOf(h, f), Client(h)
    PROVE  CopiesOf(h, f)'
<1> h \in Sessions
  BY DEF Prompt
<1> DEFINE v == data[name[f]]
           s == s2c[h]
           w == local[h][f]
<1>0. /\ UNCHANGED <<name, data, pc, at, fd>> /\ File(h)' = File(h)
      /\ s \in Seq(ToClient) /\ Len(s) \in Nat /\ fd[h].pos \in Nat
      /\ s2c \in [Sessions -> Seq(ToClient)] /\ copying \in [Sessions -> Transfers]
      /\ cpc \in [Sessions -> {"start", "read", "copy", "upload", "raw", "run", "prompt", "gone"}]
      /\ local \in [Sessions -> [Files -> Seq(Block) \cup {Absent}]]
  <2>1. UNCHANGED <<name, data, pc, at, fd>>
    BY ClientFrame, ClientFiles
  <2> QED BY <2>1 DEF TypeInv, TypeOK, File, Transfers
<1>v. name[f] # Absent => v \in Seq(Block) /\ Len(v) \in Nat
  <2>1. name[f] # Absent => name[f] \in Inodes
    BY OwnApart DEF OwnInv
  <2> QED BY <2>1 DEF TypeInv, TypeOK
<1> DEFINE Headers(S) == \A p \in 1 .. Len(S) : S[p].type = "bookout" /\ S[p].file = f =>
                           /\ name[f] # Absent /\ S[p].size = Len(v)
                           /\ Follows(S, v, p, 0, Sending(h, f), fd[h].pos)
           Part == LET x == local'[h][f] IN
                   /\ name[f] # Absent
                   /\ Len(x) + copying'[h].left = Len(v)
                   /\ \A k \in 1 .. Len(x) : x[k] = v[k]
                   /\ Follows(s2c'[h], v, 0, Len(x), Sending(h, f), fd[h].pos)
<1>1. Headers(s)
  BY DEF CopiesOf
<1>2. s # <<>> => Headers(Tail(s))
  <2> SUFFICES ASSUME s # <<>>, NEW p \in 1 .. Len(Tail(s)), Tail(s)[p].type = "bookout", Tail(s)[p].file = f
               PROVE  /\ name[f] # Absent /\ Tail(s)[p].size = Len(v)
                      /\ Follows(Tail(s), v, p, 0, Sending(h, f), fd[h].pos)
    OBVIOUS
  <2> HIDE DEF s
  <2>1. p \in Nat /\ p + 1 \in 1 .. Len(s) /\ Tail(s)[p] = s[p + 1]
    BY <1>0
  <2>2. name[f] # Absent /\ s[p + 1].size = Len(v) /\ Follows(s, v, p + 1, 0, Sending(h, f), fd[h].pos)
    BY <2>1, <1>1
  <2> HIDE DEF v
  <2> DEFINE b == Sending(h, f)
             n == fd[h].pos
  <2>3. 0 \in Nat /\ 0 <= Len(v) /\ v \in Seq(Block) /\ n \in Nat /\ s \in Seq(ToClient) /\ s # <<>>
    BY <2>2, <1>0, <1>v
  <2>4. Follows(s, v, p + 1, 0, b, n)
    BY <2>2
  <2> HIDE DEF b, n
  <2>5. \A q \in Nat : Follows(s, v, q + 1, 0, b, n) => Follows(Tail(s), v, q, 0, b, n)
    BY <2>3, FollowsTail, Zenon
  <2>6. Follows(Tail(s), v, p, 0, b, n)
    BY <2>1, <2>4, <2>5
  <2> QED BY <2>1, <2>2, <2>6 DEF b, n
<1>3. ASSUME Headers(s2c'[h]), cpc'[h] = "copy" /\ copying'[h].file = f => Part
      PROVE  CopiesOf(h, f)'
  BY <1>0, <1>3 DEF CopiesOf, Sending
<1> HIDE DEF Headers, Part
<1>4. CASE ClientBookout(h)
  <2> DEFINE m == Head(s)
  <2>1. s # <<>> /\ s2c'[h] = Tail(s) /\ m.type = "bookout" /\ cpc[h] = "read"
    BY <1>4, <1>0 DEF ClientBookout, NextLine
  <2>2. cpc'[h] = "copy" /\ copying'[h].file = f => Part
    <3> SUFFICES ASSUME cpc'[h] = "copy", copying'[h].file = f PROVE Part
      OBVIOUS
    <3>1. local' = [local EXCEPT ![h][m.file] = <<>>] /\ copying' = [copying EXCEPT ![h] = [file |-> m.file, left |-> m.size]]
      BY <1>4, <2>1 DEF ClientBookout
    <3>2. m.file = f /\ copying'[h].left = m.size /\ local'[h][f] = <<>>
      BY <3>1, <1>0
    <3>3. m = s[1] /\ 1 \in 1 .. Len(s) /\ 0 \in Nat /\ 0 + 1 = 1
      BY <2>1, <1>0
    <3>4. name[f] # Absent /\ m.size = Len(v) /\ Follows(s, v, 0 + 1, 0, Sending(h, f), fd[h].pos)
      BY <3>2, <3>3, <2>1, <1>1 DEF Headers
    <3>5. Follows(Tail(s), v, 0, 0, Sending(h, f), fd[h].pos)
      <4> DEFINE b == Sending(h, f)
                 n == fd[h].pos
      <4>1. 0 \in Nat /\ 0 <= Len(v) /\ v \in Seq(Block) /\ n \in Nat /\ s \in Seq(ToClient) /\ s # <<>>
        BY <3>4, <2>1, <1>0, <1>v
      <4>2. Follows(s, v, 0 + 1, 0, b, n)
        BY <3>4
      <4> HIDE DEF s, v, b, n
      <4>3. \A q \in Nat : Follows(s, v, q + 1, 0, b, n) => Follows(Tail(s), v, q, 0, b, n)
        BY <4>1, FollowsTail, Zenon
      <4>4. Follows(Tail(s), v, 0, 0, b, n)
        BY <4>1, <4>2, <4>3
      <4> QED BY <4>4 DEF b, n
    <3>6. Len(<<>>) = 0 /\ 0 + Len(v) = Len(v)
      BY <3>4, <1>v
    <3> QED BY <3>2, <3>4, <3>5, <3>6, <2>1 DEF Part
  <2> QED BY <2>1, <2>2, <1>2, <1>3
<1>5. CASE ClientCopy(h)
  <2>1. /\ cpc[h] = "copy" /\ s # <<>> /\ s2c'[h] = Tail(s)
        /\ local' = [local EXCEPT ![h][copying[h].file] = Append(@, AsBlock(Head(s)))]
        /\ copying'[h].file = copying[h].file /\ copying'[h].left = copying[h].left - 1
    BY <1>5, <1>0 DEF ClientCopy, Transfers
  <2>2. copying[h].left > 0 /\ copying[h].left \in Nat
    BY <2>1, <1>0 DEF TypeInv, OpenInv, Transfers
  <2>3. copying[h].file = f => Part
    <3> SUFFICES ASSUME copying[h].file = f PROVE Part
      OBVIOUS
    <3>1. /\ name[f] # Absent /\ Len(w) + copying[h].left = Len(v) /\ (\A k \in 1 .. Len(w) : w[k] = v[k])
          /\ Follows(s, v, 0, Len(w), Sending(h, f), fd[h].pos)
      BY <2>1 DEF CopiesOf
    <3>2. w \in Seq(Block) /\ Len(w) \in Nat
      BY <2>1, <1>0 DEF TypeInv, OpenInv
    <3>3. Len(w) < Len(v) /\ Len(w) <= Len(v) /\ Len(w) + 1 \in 1 .. Len(v)
      <4>1. Len(v) \in Nat /\ Len(w) \in Nat /\ Len(w) + copying[h].left = Len(v)
        BY <3>1, <3>2, <1>v
      <4> HIDE DEF v, w
      <4> QED BY <4>1, <2>2
    <3>4. Head(s) = Data(v[Len(w) + 1]) /\ Follows(Tail(s), v, 0, Len(w) + 1, Sending(h, f), fd[h].pos)
      <4> HIDE DEF s, v, w
      <4> QED BY <3>1, <3>2, <3>3, <2>1, <1>0, <1>v, FollowsTail
    <3>5. AsBlock(Head(s)) = v[Len(w) + 1] /\ v[Len(w) + 1] \in Block
      BY <3>1, <3>3, <3>4, <1>v DEF AsBlock, Data
    <3> DEFINE x == Append(w, v[Len(w) + 1])
    <3>6. local'[h][f] = x
      BY <3>5, <2>1, <1>0
    <3>7. Len(x) = Len(w) + 1 /\ (\A k \in 1 .. Len(w) : x[k] = w[k]) /\ x[Len(w) + 1] = v[Len(w) + 1]
      <4> HIDE DEF v, w
      <4> QED BY <3>2, <3>5
    <3>8. \A k \in 1 .. Len(x) : x[k] = v[k]
      <4>1. \A k \in 1 .. Len(w) + 1 : k \in 1 .. Len(w) \/ k = Len(w) + 1
        BY <3>2
      <4> HIDE DEF x, v, w
      <4> QED BY <4>1, <3>1, <3>7
    <3>9. Len(x) + copying'[h].left = Len(v)
      <4> DEFINE r == copying[h].left
                 q == copying'[h].left
                 n == Len(v)
      <4>1. /\ Len(x) = Len(w) + 1 /\ q = r - 1 /\ Len(w) + r = n
            /\ r \in Nat /\ Len(w) \in Nat /\ n \in Nat
        BY <3>1, <3>2, <3>7, <2>1, <2>2, <1>v, SMTT(40)
      <4> HIDE DEF x, v, w, r, q, n
      <4>2. Len(x) + q = n
        BY <4>1, SMTT(40)
      <4> QED BY <4>2 DEF q, n
    <3> HIDE DEF x
    <3> QED BY <3>1, <3>4, <3>6, <3>7, <3>8, <3>9, <2>1 DEF Part
  <2> QED BY <2>1, <2>3, <1>2, <1>3
<1>6. CASE ClientStart(h) \/ ClientUpload(h) \/ ClientAuthEnds(h) \/ ClientRunEnds(h) \/ ClientEnd(h)
  <2>1. s2c'[h] = s /\ cpc'[h] # "copy"
    BY <1>6, <1>0 DEF ClientStart, ClientUpload, ClientAuthEnds, ClientRunEnds, ClientEnd, Reply
  <2> QED BY <2>1, <1>1, <1>3, SMTT(40)
<1>7. CASE ClientBookin(h)
  <2>1. s # <<>> /\ s2c'[h] = Tail(s) /\ cpc'[h] # "copy"
    BY <1>7, <1>0 DEF ClientBookin, NextLine, Reply
  <2> QED BY <2>1, <1>2, <1>3
<1>8. CASE ClientRunBegins(h) \/ ClientAuthBegins(h) \/ ClientOkay(h) \/ ClientRaw(h) \/ ClientPrint(h)
  <2>1. s # <<>> /\ s2c'[h] = Tail(s) /\ cpc'[h] # "copy"
    BY <1>8, <1>0 DEF ClientRunBegins, ClientAuthBegins, ClientOkay, ClientRaw, ClientPrint, NextLine, clientVars
  <2> QED BY <2>1, <1>2, <1>3
<1> QED BY <1>4, <1>5, <1>6, <1>7, <1>8 DEF Client

LEMMA HandlerOpenOnly ==
    ASSUME NEW h \in Sessions, Handler(h)
    PROVE  ~ Closed(h)
BY DEF Handler, Request, RequestFails, RulePasses, AskAuth, AuthLine, AuthEnds, Refuse, Permit,
       Require, ClientRunLine, Run, EndOfItems, InOpenFails, CloseSession, OutStat, OutOpen, OutOpenFails,
       OutSend, InOpen, InReply,
       InAbort, InReceive, InReceiveEnds, InStat, InRename, InChmod, InClose, RuleInHand, AtItem, Closed

LEMMA NextCopies ==
    ASSUME TypeInv, OwnInv, SyncInv, NamesInv, CopiesInv, [Next]_vars
    PROVE  CopiesInv'
<1> SUFFICES ASSUME NEW h \in Prompt, NEW f \in Files, Sole(h, f), Closed(h)' => h \notin Killable
             PROVE  CopiesOf(h, f)'
  BY DEF CopiesInv, Sole, Prompt
<1> h \in Sessions
  BY DEF Prompt
<1>0. /\ (Closed(h) => h \notin Killable) => CopiesOf(h, f)
      /\ ~ Closed(h) => InStep(h)
      /\ NamesOf(h, f)
  BY DEF CopiesInv, SyncInv, NamesInv
<1>1. ASSUME SameSession(h), name[f] # Absent => name'[f] = name[f] /\ data'[name[f]] = data[name[f]]
      PROVE  CopiesOf(h, f)'
  <2>1. CopiesOf(h, f)
    BY <1>0, <1>1 DEF SameSession, Closed
  <2>2. pc[h] \in {"outopen", "outsend"} /\ File(h) = f => name[f] # Absent
    BY DEF TypeInv, OpenInv
  <2>3. File(h)' = File(h)
    BY <1>1 DEF SameSession, File
  <2>4. CASE name[f] # Absent
    BY <1>1, <2>1, <2>3, <2>4 DEF CopiesOf, SameSession, Sending
  <2>5. CASE name[f] = Absent
    BY <1>1, <2>1, <2>2, <2>3, <2>5 DEF CopiesOf, SameSession, Sending
  <2> QED BY <2>4, <2>5
<1>2. ASSUME NEW g \in Sessions \ {h}, Handler(g) \/ HandlerKilled(g) PROVE CopiesOf(h, f)'
  <2>1. SameSession(h)
    BY <1>2, OneSession
  <2>2. ~ Booking(g, f)
    BY BookingBooks DEF Sole
  <2>3. name'[f] = name[f] /\ (name[f] # Absent => data'[name[f]] = data[name[f]])
    BY <2>2, <1>2, ForeignStep DEF OwnInv
  <2> QED BY <2>1, <2>3, <1>1
<1>3. ASSUME NEW g \in Sessions \ {h}, Client(g) \/ ClientQuit(g) PROVE CopiesOf(h, f)'
  <2>1. UNCHANGED <<name, data>>
    BY <1>3, ClientFrame, ClientFiles
  <2> QED BY <2>1, <1>1, <1>3, OneSession
<1>4. CASE Handler(h)
  BY <1>0, <1>4, HandlerOpenOnly, CopiesHandler
<1>5. CASE HandlerKilled(h)
  BY <1>5 DEF HandlerKilled, Goto, Closed, TypeInv, TypeOK
<1>6. CASE Client(h)
  <2>1. Closed(h) => h \notin Killable
    BY <1>6, ClientFrame DEF Closed
  <2> QED BY <1>0, <1>6, <2>1, CopiesClient
<1>7. CASE ClientQuit(h)
  BY <1>7 DEF ClientQuit, Prompt
<1>8. CASE UNCHANGED vars
  BY <1>1, <1>8 DEF SameSession, vars, serverVars, clientVars, fsVars
<1> QED BY <1>2, <1>3, <1>4, <1>5, <1>6, <1>7, <1>8 DEF Next, AllFinished

LEMMA InitCopies == ASSUME Init PROVE CopiesInv
<1> SUFFICES ASSUME NEW h \in Prompt, NEW f \in Files PROVE CopiesOf(h, f)
  BY DEF CopiesInv
<1> h \in Sessions
  BY DEF Prompt
<1>1. s2c[h] = <<>> /\ pc[h] \in {"request", "done"} /\ cpc[h] \in {"start", "gone"}
  BY DEF Init
<1> QED BY <1>1 DEF CopiesOf, Sending

-------------------------------------------------------------------------------
(* Files hold whole versions. *)

\* Between the rename and the close, or for good when the handler dies there, a
\* file may lack its end.
Replacing(f) == \E h \in Sessions : pc[h] \in Replaced /\ Booking(h, f)

IsWhole(f) == name[f] # Absent /\ ~ Replacing(f) => data[name[f]] \in Versions(f)

\* The user's copy is a version too, but while it is received.
CopyWhole(h, f) ==
    ~ Closed(h) /\ local[h][f] # Absent =>
        local[h][f] \in Versions(f) \/ (cpc[h] = "copy" /\ copying[h].file = f)

\* Even without its end a file has no blocks but those of its versions.
Blocks(f) == UNION {{v[j] : j \in DOMAIN v} : v \in Versions(f)}

IsOwn(f) == name[f] # Absent => \A k \in 1 .. Len(data[name[f]]) : data[name[f]][k] \in Blocks(f)

VersionsOf(f) ==
    /\ IsWhole(f)
    /\ IsOwn(f)
    /\ \A h \in Sessions : BooksIn(h, f) => CopyWhole(h, f)

VersionsInv == \A f \in Steady : VersionsOf(f)

LEMMA VersionBlocks ==
    ASSUME NEW f \in Files, NEW v \in Versions(f)
    PROVE  v \in Seq(Block) /\ \A k \in 1 .. Len(v) : v[k] \in Blocks(f)
<1>1. v \in Seq(Block)
  BY SessionAssumption DEF Versions
<1>2. \A k \in 1 .. Len(v) : k \in DOMAIN v
  BY <1>1
<1> QED BY <1>1, <1>2 DEF Blocks

\* Who books a steady file in is alone, and in time.
LEMMA SteadyBooker ==
    ASSUME NEW f \in Steady, NEW h \in Sessions, BooksIn(h, f)
    PROVE  f \in Files /\ h \in Prompt /\ Sole(h, f)
BY DEF Steady, Unshared, Sole, Prompt

\* Steps that are not of the file's booker leave it as it is.
LEMMA SameVersions ==
    ASSUME NEW f \in Steady, VersionsOf(f),
           name'[f] = name[f], name[f] # Absent => data'[name[f]] = data[name[f]],
           Replacing(f) => Replacing(f)', \A h \in Sessions : BooksIn(h, f) => CopyWhole(h, f)'
    PROVE  VersionsOf(f)'
<1>1. IsWhole(f)'
  BY DEF VersionsOf, IsWhole, Versions
<1>2. IsOwn(f)'
  BY DEF VersionsOf, IsOwn, Blocks, Versions
<1> QED BY <1>1, <1>2 DEF VersionsOf

LEMMA VersionsHandler ==
    ASSUME TypeInv, OwnInv, SyncInv, NamesInv, WrittenInv, NEW f \in Steady, VersionsOf(f),
           NEW g \in Sessions, Handler(g) \/ HandlerKilled(g)
    PROVE  VersionsOf(f)'
<1> f \in Files
  BY DEF Steady, Unshared
<1>1. \A h \in Sessions : BooksIn(h, f) => CopyWhole(h, f)'
  <2> SUFFICES ASSUME NEW h \in Sessions, BooksIn(h, f) PROVE CopyWhole(h, f)'
    OBVIOUS
  <2>1. UNCHANGED <<cpc, local, copying>>
    BY HandlerFrame DEF clientVars
  <2>2. CopyWhole(h, f)
    BY DEF VersionsOf
  <2>3. Closed(h) => Closed(h)'
    <3>1. CASE g = h
      BY <3>1, HandlerOpenOnly DEF HandlerKilled, Closed
    <3>2. CASE g # h
      BY <3>2, OneSession DEF SameSession, Closed
    <3> QED BY <3>1, <3>2
  <2> QED BY <2>1, <2>2, <2>3 DEF CopyWhole, Versions
<1>2. CASE ~ Booking(g, f)
  <2>1. name'[f] = name[f] /\ (name[f] # Absent => data'[name[f]] = data[name[f]])
    BY <1>2, ForeignStep DEF OwnInv
  <2>2. Replacing(f) => Replacing(f)'
    <3> SUFFICES ASSUME NEW h \in Sessions, pc[h] \in Replaced, Booking(h, f) PROVE Replacing(f)'
      BY DEF Replacing
    <3>1. SameSession(h)
      BY <1>2, OneSession
    <3> QED BY <3>1 DEF SameSession, Replacing, Booking
  <2> QED BY <2>1, <2>2, <1>1, SameVersions
<1>3. CASE Booking(g, f)
  <2>1. BooksIn(g, f) /\ g \in Prompt /\ Sole(g, f)
    BY <1>3, BookingBooks, SteadyBooker
  <2>2. NamesOf(g, f) /\ WrittenOf(g, f)
    BY <2>1 DEF NamesInv, WrittenInv
  <2>3. \A h \in Sessions : Booking(h, f) => h = g
    BY <2>1, BookingBooks DEF Sole
  <2>4. ASSUME InRename(g) \/ InClose(g)
        PROVE  /\ InStep(g) /\ fd[g].ino \in Inodes
               /\ local[g][f] \in Versions(f) /\ Len(data[fd[g].ino]) <= Len(local[g][f])
               /\ \A k \in 1 .. Len(data[fd[g].ino]) : data[fd[g].ino][k] = local[g][f][k]
    <3>1. pc[g] \in Filing /\ pc[g] \in BookingIn \ {"inreply"} /\ ~ Closed(g) /\ File(g) = f
      BY <2>4, <1>3 DEF InRename, InClose, Filing, BookingIn, Closed, Booking, File
    <3>2. InStep(g) /\ Received(g)
      BY <2>1, <3>1 DEF SyncInv, InStep
    <3>3. local[g][f] \in Versions(f)
      BY <2>1, <3>1, <3>2 DEF VersionsOf, CopyWhole, Received
    <3>4. fd[g].ino \in Inodes /\ fd[g].pos \in Nat /\ Len(fd[g].buf) \in Nat /\ Len(local[g][f]) \in Nat
      <4>1. fd[g].ino \in Inodes /\ fd[g] \in Streams
        BY <3>1, StreamTyped, OwnApart DEF OwnInv, TypeInv
      <4>2. local[g][f] \in Seq(Block)
        BY <3>3, VersionBlocks
      <4> QED BY <4>1, <4>2 DEF Streams
    <3>5. fd[g].pos + Len(fd[g].buf) = Len(local[g][f]) /\ Len(data[fd[g].ino]) = fd[g].pos
      BY <1>3, <2>2, <3>1, <3>2 DEF Received, WrittenOf
    <3>6. Len(data[fd[g].ino]) <= Len(local[g][f])
      BY <3>4, <3>5
    <3>7. \A k \in 1 .. Len(data[fd[g].ino]) : data[fd[g].ino][k] = local[g][f][k]
      BY <1>3, <2>2, <3>1 DEF WrittenOf
    <3> QED BY <3>2, <3>3, <3>4, <3>6, <3>7
  \* The copy is in place, and its end is still to come.
  <2>5. CASE InRename(g)
    <3>1. pc[g] = "inrename" /\ pc'[g] = "inchmod" /\ at' = at /\ data' = data /\ File(g) = f
      BY <1>3, <2>5 DEF InRename, Goto, TypeInv, ControlInv, Booking, File
    <3>2. Replacing(f)'
      BY <3>1, <1>3 DEF Replacing, Replaced, Booking
    <3>3. name'[f] = fd[g].ino
      <4>1. temp[f] = fd[g].ino /\ temp[f] # Absent
        BY <3>1, <1>3, <2>2, <2>4, <2>5, AbsentAssumption DEF NamesOf, Owning
      <4> QED BY <4>1, <3>1, <2>5 DEF InRename, TypeInv, ControlInv
    <3>4. IsOwn(f)'
      <4> DEFINE d == data[fd[g].ino]
                 w == local[g][f]
      <4>1. Len(d) \in Nat /\ Len(w) \in Nat
        <5>1. d \in Seq(Block) /\ w \in Seq(Block)
          BY <2>4, <2>5, VersionBlocks DEF TypeInv, TypeOK
        <5> QED BY <5>1
      <4>2. \A k \in 1 .. Len(w) : w[k] \in Blocks(f)
        BY <2>4, <2>5, VersionBlocks
      <4>3. Len(d) <= Len(w) /\ \A k \in 1 .. Len(d) : d[k] = w[k]
        BY <2>4, <2>5
      <4> HIDE DEF w
      <4>4. \A k \in 1 .. Len(d) : d[k] \in Blocks(f)
        <5> HIDE DEF d
        <5> QED BY <4>1, <4>2, <4>3
      <4> QED BY <3>1, <3>3, <4>4 DEF IsOwn, Blocks, Versions
    <3> QED BY <1>1, <3>2, <3>4 DEF VersionsOf, IsWhole
  \* The end is written.
  <2>6. CASE InClose(g)
    <3>1. pc[g] = "inclose" /\ name' = name
      BY <2>6 DEF InClose
    <3>2. name'[f] = fd[g].ino
      BY <3>1, <1>3, <2>2 DEF NamesOf, Replaced
    <3>3. data'[fd[g].ino] \in Versions(f)
      BY <1>3, <2>1, <2>2, <2>4, <2>6, Completes
    <3>4. IsWhole(f)'
      BY <3>2, <3>3 DEF IsWhole, Versions
    <3>5. IsOwn(f)'
      <4>1. \A k \in 1 .. Len(data'[fd[g].ino]) : data'[fd[g].ino][k] \in Blocks(f)
        BY <3>3, VersionBlocks
      <4> QED BY <3>2, <4>1 DEF IsOwn, Blocks, Versions
    <3> QED BY <1>1, <3>4, <3>5 DEF VersionsOf
  <2>7. CASE ~ InRename(g) /\ ~ InClose(g)
    <3>1. name'[f] = name[f]
      <4>1. CASE InOpen(g) \/ InAbort(g)
        BY <4>1 DEF InOpen, InAbort
      <4>2. CASE ~ InOpen(g) /\ ~ InAbort(g)
        BY <2>7, <4>2, QuietSteps DEF QuietStep, TypeInv
      <4> QED BY <4>1, <4>2
    <3>2. name[f] # Absent => data'[name[f]] = data[name[f]]
      BY <2>2, <2>7, Frozen
    <3>3. Replacing(f) => Replacing(f)'
      <4> SUFFICES ASSUME pc[g] \in Replaced PROVE Replacing(f)'
        BY <2>3 DEF Replacing
      <4>1. ~ InOpen(g) /\ ~ InAbort(g)
        BY DEF InOpen, InAbort, AtItem, Replaced
      <4>2. at'[g] = at[g] /\ pc'[g] \in Replaced
        BY <4>1, <2>7, Moves DEF Before, Replaced
      <4> QED BY <4>2, <1>3 DEF Replacing, Booking
    <3> QED BY <3>1, <3>2, <3>3, <1>1, SameVersions
  <2> QED BY <2>5, <2>6, <2>7
<1> QED BY <1>2, <1>3

LEMMA EditIsVersion == ASSUME NEW f \in Files, NEW h \in Sessions PROVE Edited[h][f] \in Versions(f)
<1>1. Edited[h][f] \in {Edited[j][f] : j \in Sessions}
  OBVIOUS
<1> QED BY <1>1 DEF Versions

\* The last block makes the copy what the file is.
LEMMA CopyEnds ==
    ASSUME TypeInv, OwnInv, NEW h \in Sessions, NEW f \in Files, CopiesOf(h, f), ClientCopy(h),
           copying[h].file = f, copying[h].left = 1
    PROVE  name[f] # Absent /\ local'[h][f] = data[name[f]]
<1> DEFINE v == data[name[f]]
           w == local[h][f]
           s == s2c[h]
<1>1. /\ cpc[h] = "copy" /\ s # <<>>
      /\ local'[h][f] = Append(w, AsBlock(Head(s)))
  BY DEF ClientCopy, TypeInv, TypeOK
<1>2. /\ name[f] # Absent /\ Len(w) + 1 = Len(v) /\ (\A k \in 1 .. Len(w) : w[k] = v[k])
      /\ Follows(s, v, 0, Len(w), Sending(h, f), fd[h].pos)
  BY <1>1 DEF CopiesOf
<1>3. w \in Seq(Block) /\ v \in Seq(Block) /\ s \in Seq(ToClient)
  <2>1. name[f] \in Inodes
    BY <1>2, OwnApart DEF OwnInv
  <2> QED BY <1>1, <2>1 DEF TypeInv, TypeOK, OpenInv
<1>4. Len(w) \in Nat /\ fd[h].pos \in Nat /\ Len(w) <= Len(v) /\ Len(w) < Len(v) /\ Len(w) + 1 \in 1 .. Len(v)
  <2>1. fd[h] \in Streams
    BY StreamTyped DEF TypeInv
  <2>2. Len(w) \in Nat /\ Len(v) \in Nat
    BY <1>3
  <2> QED BY <1>2, <2>1, <2>2 DEF Streams
<1>5. Head(s) = Data(v[Len(w) + 1])
  <2> DEFINE b == Sending(h, f)
             n == fd[h].pos
             r == Len(w)
  <2>1. /\ s \in Seq(ToClient) /\ s # <<>> /\ v \in Seq(Block) /\ r \in Nat /\ r <= Len(v) /\ r < Len(v)
        /\ n \in Nat /\ Follows(s, v, 0, r, b, n)
    BY <1>1, <1>2, <1>3, <1>4
  <2> HIDE DEF s, v, b, n, r
  <2>2. Head(s) = Data(v[r + 1])
    BY <2>1, FollowsTail, Zenon
  <2> QED BY <2>2 DEF r
<1>6. AsBlock(Head(s)) = v[Len(w) + 1] /\ v[Len(w) + 1] \in Block
  <2>1. v[Len(w) + 1] \in Block
    BY <1>3, <1>4, SMTT(40)
  <2> QED BY <1>5, <2>1 DEF AsBlock, Data
<1> DEFINE x == Append(w, v[Len(w) + 1])
<1>7. local'[h][f] = x
  BY <1>6, <1>1
<1>8. /\ x \in Seq(Block) /\ Len(x) = Len(w) + 1 /\ (\A k \in 1 .. Len(w) : x[k] = w[k])
      /\ x[Len(w) + 1] = v[Len(w) + 1]
  <2> HIDE DEF v, w
  <2> QED BY <1>3, <1>6
<1>9. \A k \in 1 .. Len(v) : k \in 1 .. Len(w) \/ k = Len(w) + 1
  BY <1>2, <1>4
<1> HIDE DEF x, v, w
<1>10. \A k \in 1 .. Len(v) : x[k] = v[k]
  BY <1>2, <1>8, <1>9
<1>11. x = v
  BY <1>2, <1>3, <1>8, <1>10, SameBlocks
<1> QED BY <1>2, <1>7, <1>11 DEF v

\* The client's copy becomes whole with its last block, and then is what its
\* user's program leaves.
LEMMA CopyStep ==
    ASSUME TypeInv, OwnInv, SyncInv, CopiesInv, NEW f \in Steady, VersionsOf(f),
           NEW h \in Sessions, BooksIn(h, f), Client(h) \/ ClientQuit(h)
    PROVE  CopyWhole(h, f)'
<1>0. f \in Files /\ h \in Prompt /\ Sole(h, f) /\ CopyWhole(h, f) /\ UNCHANGED <<name, data, pc, at, fd>>
  BY SteadyBooker, ClientFrame, ClientFiles DEF VersionsOf
<1>1. SUFFICES ASSUME ~ Closed(h), local'[h][f] # Absent, ~ (cpc'[h] = "copy" /\ copying'[h].file = f)
               PROVE  local'[h][f] \in Versions(f)
  BY <1>0 DEF CopyWhole, Closed, Versions
<1>2. Client(h) /\ InStep(h) /\ CopiesOf(h, f)
  BY <1>0, <1>1 DEF ClientQuit, Prompt, SyncInv, CopiesInv
<1>3. /\ local \in [Sessions -> [Files -> Seq(Block) \cup {Absent}]] /\ copying \in [Sessions -> Transfers]
      /\ cpc \in [Sessions -> {"start", "read", "copy", "upload", "raw", "run", "prompt", "gone"}]
      /\ s2c \in [Sessions -> Seq(ToClient)]
  BY DEF TypeInv, TypeOK, Transfers
  \* While lines are under way the file is not being replaced.
<1>4. ASSUME s2c[h] # <<>> \/ cpc[h] = "copy", name[f] # Absent
      PROVE  data[name[f]] \in Versions(f) /\ data[name[f]] \in Seq(Block)
  <2>1. pc[h] \notin Replaced
    BY <1>1, <1>2, <1>4 DEF Replaced, InStep, Filing, Received, Closed
  <2>2. ~ Replacing(f)
    BY <2>1, <1>0, BookingBooks DEF Replacing, Sole
  <2> QED BY <2>2, <1>0, <1>4, VersionBlocks DEF VersionsOf, IsWhole
<1>5. CASE ClientBookout(h)
  <2> DEFINE m == Head(s2c[h])
  <2>1. s2c[h] # <<>> /\ m.type = "bookout" /\ cpc[h] = "read"
    BY <1>5 DEF ClientBookout, NextLine
  <2>2. CASE local'[h][f] = local[h][f]
    BY <2>1, <2>2, <1>0, <1>1 DEF CopyWhole
  <2>3. CASE local'[h][f] # local[h][f]
    <3>1. /\ m.file = f /\ local'[h][f] = <<>>
          /\ copying' = [copying EXCEPT ![h] = [file |-> m.file, left |-> m.size]]
          /\ cpc' = [cpc EXCEPT ![h] = IF m.size > 0 THEN "copy" ELSE "read"]
      BY <1>3, <1>5, <2>3, <1>0 DEF ClientBookout
    <3>2. ~ m.size > 0
      BY <3>1, <1>1, <1>3
    <3>3. m = s2c[h][1] /\ 1 \in 1 .. Len(s2c[h])
      BY <2>1, <1>3
    <3>4. name[f] # Absent /\ m.size = Len(data[name[f]])
      BY <3>1, <3>3, <2>1, <1>2 DEF CopiesOf
    <3>5. data[name[f]] \in Seq(Block) /\ data[name[f]] \in Versions(f)
      BY <3>4, <2>1, <1>4
    <3>6. data[name[f]] = <<>>
      <4>1. \A v \in Seq(Block) : ~ Len(v) > 0 => v = <<>>
        OBVIOUS
      <4> QED BY <4>1, <3>2, <3>4, <3>5
    <3> QED BY <3>1, <3>5, <3>6
  <2> QED BY <2>2, <2>3
<1>6. CASE ClientCopy(h)
  <2>1. /\ cpc[h] = "copy" /\ s2c[h] # <<>>
        /\ local' = [local EXCEPT ![h][copying[h].file] = Append(@, AsBlock(Head(s2c[h])))]
        /\ copying'[h].file = copying[h].file
        /\ cpc'[h] = IF copying[h].left = 1 THEN "read" ELSE "copy"
    BY <1>6, <1>3 DEF ClientCopy, Transfers
  <2>2. CASE copying[h].file # f
    BY <2>1, <2>2, <1>0, <1>1, <1>3 DEF CopyWhole
  <2>3. CASE copying[h].file = f
    <3>1. copying[h].left = 1
      BY <2>1, <2>3, <1>1
    <3>2. name[f] # Absent /\ local'[h][f] = data[name[f]]
      BY <2>3, <3>1, <1>0, <1>2, <1>6, CopyEnds
    <3> QED BY <3>2, <2>1, <1>4
  <2> QED BY <2>2, <2>3
<1>7. CASE ClientRunEnds(h)
  <2>1. cpc[h] = "run" /\ (local'[h][f] = local[h][f] \/ local'[h][f] = Edited[h][f])
    BY <1>0, <1>3, <1>7 DEF ClientRunEnds
  <2>2. Edited[h][f] \in Versions(f)
    BY <1>0, EditIsVersion
  <2>3. CASE local'[h][f] = local[h][f]
    <3>1. local[h][f] # Absent
      BY <2>3, <1>1, SMTT(40)
    <3> QED BY <3>1, <2>1, <2>3, <1>0, <1>1 DEF CopyWhole
  <2> QED BY <2>1, <2>2, <2>3
<1>8. CASE ~ ClientBookout(h) /\ ~ ClientCopy(h) /\ ~ ClientRunEnds(h)
  <2>1. local' = local /\ cpc[h] # "copy"
    BY <1>1, <1>2, <1>8 DEF Client, ClientStart, ClientBookin, ClientUpload, ClientRunBegins, ClientAuthBegins,
       ClientAuthEnds, ClientOkay, ClientRaw, ClientPrint, ClientEnd, NextLine, clientVars
  <2> QED BY <2>1, <1>0, <1>1, SMTT(40) DEF CopyWhole
<1> QED BY <1>5, <1>6, <1>7, <1>8

LEMMA NextVersions ==
    ASSUME TypeInv, OwnInv, SyncInv, NamesInv, WrittenInv, CopiesInv, VersionsInv, [Next]_vars
    PROVE  VersionsInv'
<1> SUFFICES ASSUME NEW f \in Steady PROVE VersionsOf(f)'
  BY DEF VersionsInv, Steady, Unshared
<1>0. VersionsOf(f)
  BY DEF VersionsInv
<1>1. ASSUME NEW g \in Sessions, Handler(g) \/ HandlerKilled(g) PROVE VersionsOf(f)'
  BY <1>0, <1>1, VersionsHandler
<1>2. ASSUME NEW g \in Sessions, Client(g) \/ ClientQuit(g) PROVE VersionsOf(f)'
  <2>1. UNCHANGED <<name, data, pc, at>>
    BY <1>2, ClientFrame, ClientFiles
  <2>2. ASSUME NEW h \in Sessions, BooksIn(h, f) PROVE CopyWhole(h, f)'
    <3>1. CASE h = g
      BY <1>0, <1>2, <2>2, <3>1, CopyStep
    <3>2. CASE h # g
      <4>1. CopyWhole(h, f)
        BY <1>0, <2>2 DEF VersionsOf
      <4>2. SameSession(h)
        BY <1>2, <3>2, OneSession
      <4> QED BY <4>1, <4>2 DEF SameSession, CopyWhole, Closed, Versions
    <3> QED BY <3>1, <3>2
  <2>3. Replacing(f) => Replacing(f)'
    BY <2>1 DEF Replacing, Booking
  <2> QED BY <1>0, <2>1, <2>2, <2>3, SameVersions
<1>3. CASE UNCHANGED vars
  BY <1>0, <1>3 DEF VersionsOf, IsWhole, IsOwn, CopyWhole, Replacing, Booking, Closed, Blocks, Versions,
     vars, fsVars, serverVars, clientVars
<1> QED BY <1>1, <1>2, <1>3 DEF Next, AllFinished

LEMMA InitVersions == ASSUME Init PROVE VersionsInv
<1> SUFFICES ASSUME NEW f \in Steady PROVE VersionsOf(f)
  BY DEF VersionsInv
<1>1. f \in Files
  BY DEF Steady, Unshared
<1>2. /\ name[f] \in {f, Absent} /\ data[f] = Original[f] /\ Original[f] \in Versions(f)
      /\ \A h \in Sessions : local[h][f] = Absent
  BY <1>1 DEF Init, Inodes, Versions
<1>3. \A k \in 1 .. Len(Original[f]) : Original[f][k] \in Blocks(f)
  BY <1>1, <1>2, VersionBlocks
<1> QED BY <1>2, <1>3 DEF VersionsOf, IsWhole, IsOwn, CopyWhole

-------------------------------------------------------------------------------
(* The invariant of whole files, and what follows. *)

WholeInv == SyncInv /\ NamesInv /\ WrittenInv /\ CopiesInv /\ VersionsInv

LEMMA AlwaysInStep == Spec => [](TypeInv /\ IInv /\ FilesInv /\ WholeInv)
<1>1. Init => TypeInv /\ IInv /\ FilesInv /\ WholeInv
  BY InitTypes, InitInv, InitFiles, InitSync, InitNames, InitWritten, InitCopies, InitVersions DEF WholeInv
<1>2. (TypeInv /\ IInv /\ FilesInv /\ WholeInv) /\ [Next]_vars => (TypeInv /\ IInv /\ FilesInv /\ WholeInv)'
  <2> SUFFICES ASSUME TypeInv, IInv, FilesInv, WholeInv, [Next]_vars
               PROVE  (TypeInv /\ IInv /\ FilesInv /\ WholeInv)'
    OBVIOUS
  <2>1. TypeInv' /\ IInv' /\ FilesInv'
    BY NextTypes, NextInv, NextFiles
  <2>2. OwnInv /\ SyncInv /\ NamesInv /\ WrittenInv /\ CopiesInv /\ VersionsInv
    BY DEF FilesInv, WholeInv
  <2>3. SyncInv' /\ NamesInv' /\ WrittenInv' /\ CopiesInv' /\ VersionsInv'
    BY <2>2, NextSync, NextNames, NextWritten, NextCopies, NextVersions
  <2> QED BY <2>1, <2>3 DEF WholeInv
<1> QED BY <1>1, <1>2, PTL DEF Spec

\* BookinFileFromClient, ClientBookoutFile and ClientBookinFile: a file that one
\* session books in, of a user in time, holds the original or an edit of it, whole,
\* but while the handler is between its rename and its close, or died there.
THEOREM FilesAreWhole == Spec => []UnsharedWhole
<1>1. TypeInv /\ WholeInv => UnsharedWhole
  <2> SUFFICES ASSUME TypeInv, WholeInv, NEW f \in Steady, name[f] # Absent,
                      \A h \in Sessions : ~ Writes(h, name[f])
               PROVE  data[name[f]] \in Versions(f)
    BY DEF UnsharedWhole, Whole
  <2>1. ~ Replacing(f)
    <3> SUFFICES ASSUME NEW h \in Sessions, pc[h] \in Replaced, Booking(h, f) PROVE FALSE
      BY DEF Replacing
    <3>1. f \in Files /\ Sole(h, f)
      BY BookingBooks, SteadyBooker DEF Steady, Unshared
    <3>2. name[f] = fd[h].ino
      BY <3>1 DEF WholeInv, NamesInv, NamesOf
    <3> QED BY <3>2 DEF Writes, Replaced, BookingIn
  <2> QED BY <2>1 DEF WholeInv, VersionsInv, VersionsOf, IsWhole
<1> QED BY <1>1, AlwaysInStep, PTL

\* The user's copy of a file is, once it is received, what the file was or what
\* the user's program made of it: never a part, nor a mixture.
CopiesWhole == \A h \in Sessions : \A f \in Steady : BooksIn(h, f) => CopyWhole(h, f)
THEOREM CopiesAreWhole == Spec => []CopiesWhole
<1>1. WholeInv => CopiesWhole
  BY DEF WholeInv, VersionsInv, VersionsOf, CopiesWhole
<1> QED BY <1>1, AlwaysInStep, PTL

\* No content goes astray between files when every file that is booked in is
\* booked in by one session, whose user is in time: the reply to one book-in is
\* never taken for the reply to another.
THEOREM FilesStayApart ==
    ASSUME Files \subseteq Steady, \A f \in Files : Blocks(f) \cap Foreign[f] = {}
    PROVE  Spec => []FilesDoNotMix
<1>1. WholeInv => FilesDoNotMix
  BY DEF WholeInv, VersionsInv, VersionsOf, IsOwn, FilesDoNotMix
<1> QED BY <1>1, AlwaysInStep, PTL

-------------------------------------------------------------------------------
(* An orderly configuration, and the copies it leads to. *)

BooksOut(h, f) == \E k \in 1 .. Len(Items[h]) : Items[h][k] = [op |-> "bookout", file |-> f]

\* Who books a file out or in answers in time, is not killed, and is the only one,
\* if anyone, to book it in; it books it out once, and before the user's program
\* runs if it books it in as well.
Orderly ==
    \A h \in Sessions, f \in Files : BooksIn(h, f) \/ BooksOut(h, f) =>
        /\ h \in Prompt \ Killable
        /\ Sole(h, f)
        /\ \A j \in 1 .. Len(Items[h]) : \A k \in 1 .. j - 1 :
             Items[h][j] = [op |-> "bookout", file |-> f] =>
                /\ Items[h][k] # [op |-> "bookout", file |-> f]
                /\ Items[h][k].op = "clientrun" => ~ BooksIn(h, f)

\* The first n things under way neither make a copy of the file nor start the
\* program that might, and nothing else has.
Untouched(h, f, n) ==
    /\ local[h][f] = Absent
    /\ BooksIn(h, f) => cpc[h] # "run"
    /\ \A p \in 1 .. n : /\ ~ (s2c[h][p].type = "bookout" /\ s2c[h][p].file = f)
                         /\ BooksIn(h, f) => s2c[h][p].type # "clientrun"

\* The book-out of the file is still to come.
Awaits(h, f) ==
    \E j \in 1 .. Len(Items[h]) :
        /\ Items[h][j] = [op |-> "bookout", file |-> f]
        /\ \/ pc[h] \in Before
           \/ j > at[h]
           \/ j = at[h] /\ pc[h] \in {"items", "outopen"}

\* A copy is received where there is none.
FreshOf(h, f) ==
    /\ \A p \in 1 .. Len(s2c[h]) : s2c[h][p].type = "bookout" /\ s2c[h][p].file = f =>
         BooksOut(h, f) /\ Untouched(h, f, p - 1)
    /\ cpc[h] = "copy" /\ copying[h].file = f => BooksOut(h, f)
    /\ Awaits(h, f) => Untouched(h, f, Len(s2c[h]))

FreshInv == \A h \in Sessions, f \in Files : FreshOf(h, f)

LEMMA AwaitsLess ==
    ASSUME TypeInv, NEW h \in Sessions, NEW f \in Files, Handler(h) \/ HandlerKilled(h), Awaits(h, f)'
    PROVE  Awaits(h, f)
<1>1. PICK j \in 1 .. Len(Items[h]) :
         /\ Items[h][j] = [op |-> "bookout", file |-> f]
         /\ \/ pc'[h] \in Before
            \/ j > at'[h]
            \/ j = at'[h] /\ pc'[h] \in {"items", "outopen"}
  BY DEF Awaits
<1>2. CASE pc[h] \in Before
  BY <1>1, <1>2 DEF Awaits
<1>3. CASE pc[h] \notin Before
  <2>1. /\ pc'[h] \notin Before
        /\ at'[h] = at[h] + 1 \/ (at'[h] = at[h] /\ (pc'[h] \in {"items", "outopen"} => pc[h] \in {"items", "outopen"}))
    <3> USE DEF TypeInv, ControlInv, Goto, Advance, Before
    <3>1. CASE Request(h) \/ RequestFails(h) \/ RulePasses(h) \/ AskAuth(h) \/ AuthLine(h) \/ AuthEnds(h)
      BY <1>3, <3>1 DEF Request, RequestFails, RulePasses, AskAuth, AuthLine, AuthEnds, RuleInHand
    <3>2. CASE Refuse(h) \/ Permit(h) \/ Require(h) \/ ClientRunLine(h) \/ Run(h)
      BY <1>3, <3>2 DEF Refuse, Permit, Require, ClientRunLine, Run, AtItem, RuleInHand
    <3>3. CASE EndOfItems(h) \/ InOpenFails(h) \/ CloseSession(h) \/ HandlerKilled(h)
      BY <1>3, <3>3 DEF EndOfItems, InOpenFails, CloseSession, HandlerKilled
    <3>4. CASE OutStat(h) \/ OutOpen(h) \/ OutOpenFails(h) \/ OutSend(h)
      BY <1>3, <3>4 DEF OutStat, OutOpen, OutOpenFails, OutSend, AtItem
    <3>5. CASE InOpen(h) \/ InReply(h) \/ InAbort(h) \/ InReceive(h) \/ InReceiveEnds(h)
      BY <1>3, <3>5 DEF InOpen, InReply, InAbort, InReceive, InReceiveEnds, AtItem
    <3>6. CASE InStat(h) \/ InRename(h) \/ InChmod(h) \/ InClose(h)
      BY <1>3, <3>6 DEF InStat, InRename, InChmod, InClose
    <3> QED BY <3>1, <3>2, <3>3, <3>4, <3>5, <3>6 DEF Handler
  <2>2. at[h] \in Nat
    BY DEF TypeInv, TypeOK
  <2>3. j > at[h] \/ (j = at[h] /\ pc[h] \in {"items", "outopen"})
    BY <1>1, <2>1, <2>2
  <2> QED BY <1>1, <2>3 DEF Awaits
<1> QED BY <1>2, <1>3

LEMMA FreshHandler ==
    ASSUME Orderly, TypeInv, NEW h \in Sessions, NEW f \in Files, FreshOf(h, f), Handler(h) \/ HandlerKilled(h)
    PROVE  FreshOf(h, f)'
<1> DEFINE s == s2c[h]
<1>0. /\ UNCHANGED <<cpc, local, copying>>
      /\ s \in Seq(ToClient) /\ Len(s) \in Nat /\ s2c \in [Sessions -> Seq(ToClient)]
  BY HandlerFrame DEF clientVars, TypeInv, TypeOK
<1>1. Awaits(h, f)' => Awaits(h, f)
  BY AwaitsLess
  \* What it says comes after what was there, and is of interest only in two cases.
<1>2. ASSUME NEW t \in Seq(ToClient), s2c'[h] = s \o t,
             \A k \in 1 .. Len(t) : t[k].type = "bookout" /\ t[k].file = f =>
                BooksOut(h, f) /\ Untouched(h, f, Len(s)) /\ k = 1,
             Awaits(h, f)' => \A k \in 1 .. Len(t) : /\ ~ (t[k].type = "bookout" /\ t[k].file = f)
                                                     /\ BooksIn(h, f) => t[k].type # "clientrun"
      PROVE  FreshOf(h, f)'
  <2> DEFINE S == s \o t
  <2>1. /\ Len(t) \in Nat /\ Len(S) = Len(s) + Len(t)
        /\ (\A k \in 1 .. Len(s) : S[k] = s[k]) /\ (\A k \in 1 .. Len(t) : S[Len(s) + k] = t[k])
    BY <1>0
  <2>2. \A p \in 1 .. Len(S) : p \in 1 .. Len(s) \/ (p - Len(s) \in 1 .. Len(t) /\ Len(s) + (p - Len(s)) = p)
    BY <1>0, <2>1
  <2>3. s2c'[h] = S
    BY <1>2
  <2> HIDE DEF S, s
  <2>4. ASSUME NEW n \in Nat, n <= Len(s), Untouched(h, f, n) PROVE Untouched(h, f, n)'
    <3>1. \A p \in 1 .. n : p \in 1 .. Len(s)
      BY <2>4, <1>0
    <3> QED BY <3>1, <2>1, <2>3, <2>4, <1>0 DEF Untouched, s, BooksIn
  <2>5. ASSUME NEW p \in 1 .. Len(S), S[p].type = "bookout", S[p].file = f
        PROVE  BooksOut(h, f) /\ Untouched(h, f, p - 1)'
    <3>1. CASE p \in 1 .. Len(s)
      <4>1. s[p].type = "bookout" /\ s[p].file = f
        BY <2>1, <2>5, <3>1
      <4>2. BooksOut(h, f) /\ Untouched(h, f, p - 1)
        BY <4>1, <3>1 DEF FreshOf, s
      <4>3. p - 1 \in Nat /\ p - 1 <= Len(s)
        BY <3>1, <1>0
      <4> QED BY <4>2, <4>3, <2>4
    <3>2. CASE p \notin 1 .. Len(s)
      <4> DEFINE k == p - Len(s)
      <4>1. k \in 1 .. Len(t) /\ S[p] = t[k] /\ Len(s) + k = p
        BY <2>1, <2>2, <3>2
      <4>2. BooksOut(h, f) /\ Untouched(h, f, Len(s)) /\ k = 1
        <5> HIDE DEF k
        <5> QED BY <4>1, <2>5, <1>2
      <4>3. p - 1 = Len(s) /\ p - 1 \in Nat /\ p - 1 <= Len(s)
        <5> DEFINE n == Len(s)
        <5>1. n \in Nat /\ n + 1 = p
          BY <4>1, <4>2, <1>0
        <5> HIDE DEF n
        <5>2. p - 1 = n /\ n <= n
          BY <5>1
        <5> QED BY <5>1, <5>2 DEF n
      <4>4. Untouched(h, f, p - 1)
        BY <4>2, <4>3
      <4> QED BY <4>2, <4>3, <4>4, <2>4
    <3> QED BY <3>1, <3>2
  <2>6. Awaits(h, f)' => Untouched(h, f, Len(s2c[h]))'
    <3> SUFFICES ASSUME Awaits(h, f)' PROVE Untouched(h, f, Len(s2c[h]))'
      OBVIOUS
    <3>1. Untouched(h, f, Len(s))
      BY <1>1 DEF FreshOf, s
    <3>2. ASSUME NEW p \in 1 .. Len(S)
          PROVE  ~ (S[p].type = "bookout" /\ S[p].file = f) /\ (BooksIn(h, f) => S[p].type # "clientrun")
      <4>1. CASE p \in 1 .. Len(s)
        BY <4>1, <3>1, <2>1 DEF Untouched, s
      <4>2. CASE p \notin 1 .. Len(s)
        <5> DEFINE k == p - Len(s)
        <5>1. k \in 1 .. Len(t) /\ S[p] = t[k]
          BY <2>1, <2>2, <4>2
        <5> HIDE DEF k
        <5> QED BY <5>1, <1>2
      <4> QED BY <4>1, <4>2
    <3> QED BY <3>1, <3>2, <2>3, <1>0 DEF Untouched, BooksIn
  <2>7. cpc'[h] = "copy" /\ copying'[h].file = f => BooksOut(h, f)
    BY <1>0 DEF FreshOf
  <2> QED BY <2>3, <2>5, <2>6, <2>7 DEF FreshOf, BooksOut
<1>3. CASE ~ OutOpen(h) /\ ~ ClientRunLine(h)
  <2>1. PICK t \in Seq(ToClient) :
          s2c'[h] = s \o t /\ \A k \in 1 .. Len(t) : t[k].type \notin {"bookout", "clientrun"}
    BY <1>3, Utters
  <2> HIDE DEF s
  <2> QED BY <2>1, <1>2
<1>4. ASSUME s2c'[h] = s PROVE FreshOf(h, f)'
  <2>1. <<>> \in Seq(ToClient) /\ s \o <<>> = s /\ \A k \in 1 .. Len(<<>>) : FALSE
    BY <1>0
  <2> HIDE DEF s
  <2> QED BY <2>1, <1>2, <1>4
<1>5. ASSUME NEW m \in ToClient, s2c'[h] = s \o <<m>>,
             m.type = "bookout" /\ m.file = f => BooksOut(h, f) /\ Untouched(h, f, Len(s)) /\ ~ Awaits(h, f)',
             m.type = "clientrun" /\ BooksIn(h, f) => ~ Awaits(h, f)'
      PROVE  FreshOf(h, f)'
  <2>1. <<m>> \in Seq(ToClient) /\ Len(<<m>>) = 1 /\ <<m>>[1] = m /\ \A k \in 1 .. Len(<<m>>) : k = 1
    OBVIOUS
  <2> HIDE DEF s
  <2> QED BY <2>1, <1>2, <1>5
<1>6. CASE OutOpen(h)
  <2> DEFINE m == [type |-> "bookout", file |-> File(h), size |-> fd[h].size]
  <2>1. /\ pc[h] = "outopen" /\ pc'[h] = "outsend" /\ at' = at /\ at[h] <= Len(Items[h])
        /\ Items[h][at[h]].op = "bookout" /\ s2c'[h] \in {s, s \o <<m>>}
    BY <1>6, <1>0 DEF OutOpen, Goto, Send, TypeInv, ControlInv, OpenInv
  <2>2. /\ at[h] \in 1 .. Len(Items[h]) /\ Items[h][at[h]] = [op |-> "bookout", file |-> File(h)]
        /\ m \in ToClient /\ m.type = "bookout" /\ m.file = File(h)
    <3>1. at[h] \in Nat \ {0} /\ Len(Items[h]) \in Nat /\ fd[h].size \in Nat
      <4>1. fd[h] \in Streams
        BY StreamTyped DEF TypeInv
      <4> QED BY <4>1, SessionAssumption DEF TypeInv, TypeOK, Streams
    <3>2. File(h) \in Files /\ Items[h][at[h]] = [op |-> "bookout", file |-> File(h)]
      BY <2>1, <3>1, BookoutItem DEF File
    <3> QED BY <2>1, <3>1, <3>2 DEF ToClient
  <2>3. File(h) = f => BooksOut(h, f) /\ Untouched(h, f, Len(s)) /\ ~ Awaits(h, f)'
    <3> SUFFICES ASSUME File(h) = f PROVE BooksOut(h, f) /\ Untouched(h, f, Len(s)) /\ ~ Awaits(h, f)'
      OBVIOUS
    <3>1. BooksOut(h, f) /\ Awaits(h, f)
      BY <2>1, <2>2 DEF BooksOut, Awaits
    <3>2. ASSUME NEW j \in 1 .. Len(Items[h]), Items[h][j] = [op |-> "bookout", file |-> f], j > at[h]
          PROVE  FALSE
      <4>1. at[h] \in 1 .. j - 1
        BY <2>2, <3>2
      <4> QED BY <2>2, <3>1, <3>2, <4>1 DEF Orderly
    <3>3. ~ Awaits(h, f)'
      BY <2>1, <3>2 DEF Awaits, Before
    <3> QED BY <3>1, <3>3 DEF FreshOf
  <2> HIDE DEF m, s
  <2> QED BY <2>1, <2>2, <2>3, <1>4, <1>5
<1>7. CASE ClientRunLine(h)
  <2> DEFINE m == [type |-> "clientrun"]
  <2>1. /\ pc[h] = "items" /\ at[h] <= Len(Items[h]) /\ Items[h][at[h]].op = "clientrun"
        /\ at'[h] = at[h] + 1 /\ pc'[h] = "items" /\ s2c'[h] \in {s, s \o <<m>>}
    BY <1>7, <1>0 DEF ClientRunLine, AtItem, Advance, Goto, Send, TypeInv, ControlInv
  <2>2. m \in ToClient /\ m.type = "clientrun"
    BY DEF ToClient
  <2>3. BooksIn(h, f) => ~ Awaits(h, f)'
    <3> SUFFICES ASSUME BooksIn(h, f), NEW j \in 1 .. Len(Items[h]),
                        Items[h][j] = [op |-> "bookout", file |-> f], j > at[h]
                 PROVE  FALSE
      <4>1. at[h] \in Nat
        BY DEF TypeInv, TypeOK
      <4>2. \A j \in 1 .. Len(Items[h]) : j > at[h] + 1 \/ j = at[h] + 1 => j > at[h]
        BY <4>1
      <4> QED BY <2>1, <4>2 DEF Awaits, Before
    <3>1. at[h] \in 1 .. j - 1
      BY DEF TypeInv, TypeOK
    <3> QED BY <2>1, <3>1 DEF Orderly
  <2> HIDE DEF m, s
  <2> QED BY <2>1, <2>2, <2>3, <1>4, <1>5
<1> QED BY <1>3, <1>6, <1>7

\* A client takes what is under way from its beginning.
LEMMA FreshClient ==
    ASSUME Orderly, TypeInv, NEW h \in Sessions, NEW f \in Files, FreshOf(h, f), Client(h) \/ ClientQuit(h)
    PROVE  FreshOf(h, f)'
<1> DEFINE s == s2c[h]
<1>0. /\ UNCHANGED <<pc, at>> /\ (Awaits(h, f)' <=> Awaits(h, f))
      /\ s \in Seq(ToClient) /\ Len(s) \in Nat /\ s2c \in [Sessions -> Seq(ToClient)]
      /\ copying \in [Sessions -> Transfers]
      /\ cpc \in [Sessions -> {"start", "read", "copy", "upload", "raw", "run", "prompt", "gone"}]
      /\ local \in [Sessions -> [Files -> Seq(Block) \cup {Absent}]]
  BY ClientFrame DEF TypeInv, TypeOK, Transfers, Awaits
<1>1. s # <<>> => /\ Len(s) \in Nat \ {0} /\ Head(s) = s[1] /\ 1 \in 1 .. Len(s)
                  /\ Len(Tail(s)) = Len(s) - 1
                  /\ \A p \in 1 .. Len(s) - 1 : Tail(s)[p] = s[p + 1] /\ p + 1 \in 1 .. Len(s)
  BY <1>0
<1>2. ASSUME s2c'[h] = s, local'[h][f] = local[h][f], cpc'[h] \notin {"copy", "run"} PROVE FreshOf(h, f)'
  <2>1. ASSUME NEW n, Untouched(h, f, n) PROVE Untouched(h, f, n)'
    BY <1>2, <2>1 DEF Untouched, BooksIn
  <2>2. Awaits(h, f) => Untouched(h, f, Len(s2c[h]))'
    BY <1>2 DEF FreshOf, Untouched, BooksIn
  <2> QED BY <1>0, <1>2, <2>1, <2>2 DEF FreshOf, BooksOut
<1>3. ASSUME s # <<>>, s2c'[h] = Tail(s), local'[h][f] = local[h][f], cpc[h] # "run",
             cpc'[h] = "run" => Head(s).type = "clientrun",
             cpc'[h] = "copy" /\ copying'[h].file = f => BooksOut(h, f)
      PROVE  FreshOf(h, f)'
  <2> DEFINE S == Tail(s)
  <2>1. ASSUME NEW n \in Nat, n + 1 <= Len(s), Untouched(h, f, n + 1) PROVE Untouched(h, f, n)'
    <3>1. \A p \in 1 .. n : p + 1 \in 1 .. n + 1 /\ S[p] = s[p + 1]
      BY <2>1, <1>1, <1>3
    <3>2. 1 \in 1 .. n + 1
      BY <2>1
    <3>3. BooksIn(h, f) => cpc'[h] # "run"
      BY <2>1, <3>2, <1>1, <1>3 DEF Untouched
    <3> HIDE DEF S
    <3>4. \A p \in 1 .. n : /\ ~ (S[p].type = "bookout" /\ S[p].file = f)
                            /\ BooksIn(h, f) => S[p].type # "clientrun"
      BY <2>1, <3>1 DEF Untouched
    <3>5. s2c'[h] = S
      BY <1>3 DEF S
    <3> QED BY <2>1, <3>3, <3>4, <3>5, <1>3 DEF Untouched, BooksIn
  <2>2. ASSUME NEW p \in 1 .. Len(S), S[p].type = "bookout", S[p].file = f
        PROVE  BooksOut(h, f) /\ Untouched(h, f, p - 1)'
    <3>1. p + 1 \in 1 .. Len(s) /\ s[p + 1] = S[p] /\ (p + 1) - 1 = p /\ p - 1 \in Nat /\ (p - 1) + 1 = p /\ p <= Len(s)
      BY <1>1, <1>3
    <3>2. BooksOut(h, f) /\ Untouched(h, f, (p + 1) - 1)
      BY <2>2, <3>1 DEF FreshOf
    <3>3. Untouched(h, f, (p - 1) + 1)
      BY <3>1, <3>2
    <3> QED BY <3>1, <3>2, <3>3, <2>1
  <2>3. Awaits(h, f) => Untouched(h, f, Len(s2c[h]))'
    <3> SUFFICES ASSUME Awaits(h, f) PROVE Untouched(h, f, Len(s2c[h]))'
      OBVIOUS
    <3>1. PICK n \in Nat : n = Len(s) - 1
      <4>1. Len(s) - 1 \in Nat
        BY <1>1, <1>3
      <4> QED BY <4>1
    <3>2. n + 1 = Len(s) /\ n + 1 <= Len(s) /\ Len(S) = n
      BY <1>1, <1>3, <3>1
    <3>3. Untouched(h, f, n + 1)
      BY <3>2 DEF FreshOf
    <3>4. Untouched(h, f, n)'
      BY <3>2, <3>3, <2>1
    <3> QED BY <3>2, <3>4, <1>3 DEF Untouched
  <2>4. s2c'[h] = S
    BY <1>3
  <2> HIDE DEF S
  <2> QED BY <1>0, <1>3, <2>2, <2>3, <2>4 DEF FreshOf, BooksOut
<1>4. CASE ClientStart(h) \/ ClientUpload(h) \/ ClientAuthEnds(h) \/ ClientEnd(h)
  <2>1. s2c'[h] = s /\ local' = local /\ cpc'[h] \notin {"copy", "run"}
    BY <1>0, <1>4 DEF ClientStart, ClientUpload, ClientAuthEnds, ClientEnd, Reply
  <2> HIDE DEF s
  <2> QED BY <2>1, <1>2
<1>5. CASE ClientRunEnds(h)
  <2>1. s2c'[h] = s /\ cpc[h] = "run" /\ cpc'[h] = "read" /\ (~ BooksIn(h, f) => local'[h][f] = local[h][f])
    BY <1>0, <1>5 DEF ClientRunEnds
  <2>2. CASE ~ BooksIn(h, f)
    <3> HIDE DEF s
    <3> QED BY <2>1, <2>2, <1>2
  <2>3. CASE BooksIn(h, f)
    <3>1. \A n : ~ Untouched(h, f, n)
      BY <2>1, <2>3 DEF Untouched
    <3> QED BY <2>1, <3>1, <1>0 DEF FreshOf
  <2> QED BY <2>2, <2>3
<1>6. CASE ClientBookin(h) \/ ClientRunBegins(h) \/ ClientAuthBegins(h) \/ ClientOkay(h) \/ ClientRaw(h) \/ ClientPrint(h)
  <2>1. /\ s # <<>> /\ s2c'[h] = Tail(s) /\ local' = local /\ cpc[h] # "run" /\ cpc'[h] # "copy"
        /\ cpc'[h] = "run" => Head(s).type = "clientrun"
    <3>1. CASE ClientBookin(h)
      BY <1>0, <3>1 DEF ClientBookin, NextLine, Reply
    <3>2. CASE ClientRunBegins(h) \/ ClientAuthBegins(h) \/ ClientOkay(h) \/ ClientRaw(h)
      BY <1>0, <3>2 DEF ClientRunBegins, ClientAuthBegins, ClientOkay, ClientRaw, NextLine
    <3>3. CASE ClientPrint(h)
      BY <1>0, <3>3 DEF ClientPrint, NextLine, clientVars
    <3> QED BY <1>6, <3>1, <3>2, <3>3
  <2> HIDE DEF s
  <2> QED BY <2>1, <1>3
<1>7. CASE ClientBookout(h)
  <2> DEFINE m == Head(s)
  <2>1. /\ s # <<>> /\ s2c'[h] = Tail(s) /\ m.type = "bookout" /\ cpc[h] = "read" /\ m = s[1]
        /\ cpc'[h] \in {"read", "copy"} /\ (m.file # f => local'[h][f] = local[h][f])
        /\ cpc'[h] = "copy" => copying'[h].file = m.file
        /\ m.file \in Files
    <3>1. s # <<>> /\ s2c'[h] = Tail(s) /\ m.type = "bookout" /\ cpc[h] = "read" /\ m = s[1]
      BY <1>0, <1>1, <1>7 DEF ClientBookout, NextLine
    <3>2. m \in ToClient
      BY <3>1, <1>0, <1>1
    <3>3. m.file \in Files
      BY <3>1, <3>2 DEF ToClient, Content
    <3> QED BY <3>1, <3>3, <1>0, <1>7 DEF ClientBookout
  <2>2. CASE m.file # f
    <3> HIDE DEF s, m
    <3> QED BY <2>1, <2>2, <1>3 DEF m
  <2>3. CASE m.file = f
    <3>1. 1 \in 1 .. Len(s) /\ s[1].type = "bookout" /\ s[1].file = f
      BY <2>1, <2>3, <1>1
    <3>2. BooksOut(h, f)
      BY <3>1 DEF FreshOf
    <3>3. \A n \in Nat : n >= 1 => ~ Untouched(h, f, n)
      <4>1. \A n \in Nat : n >= 1 => 1 \in 1 .. n
        OBVIOUS
      <4> QED BY <3>1, <4>1 DEF Untouched
    <3>4. ~ Awaits(h, f)
      BY <2>1, <3>3, <1>1 DEF FreshOf
    <3>5. ASSUME NEW p \in 1 .. Len(Tail(s)), Tail(s)[p].type = "bookout", Tail(s)[p].file = f PROVE FALSE
      <4>1. p + 1 \in 1 .. Len(s) /\ s[p + 1] = Tail(s)[p] /\ (p + 1) - 1 = p /\ p \in Nat /\ p >= 1
        BY <2>1, <1>1
      <4>2. Untouched(h, f, (p + 1) - 1)
        BY <3>5, <4>1 DEF FreshOf
      <4> QED BY <4>1, <4>2, <3>3
    <3> HIDE DEF s, m
    <3> QED BY <2>1, <2>3, <3>2, <3>4, <3>5, <1>0 DEF FreshOf, BooksOut
  <2> QED BY <2>2, <2>3
<1>8. CASE ClientCopy(h)
  <2>1. /\ s # <<>> /\ s2c'[h] = Tail(s) /\ cpc[h] = "copy" /\ cpc'[h] \in {"read", "copy"}
        /\ copying'[h].file = copying[h].file /\ (copying[h].file # f => local'[h][f] = local[h][f])
        /\ local[h][copying[h].file] # Absent
    BY <1>0, <1>8 DEF ClientCopy, TypeInv, OpenInv, Transfers
  <2>2. cpc'[h] = "copy" /\ copying'[h].file = f => BooksOut(h, f)
    BY <2>1 DEF FreshOf
  <2>3. CASE copying[h].file # f
    <3> HIDE DEF s
    <3> QED BY <2>1, <2>2, <2>3, <1>3
  <2>4. CASE copying[h].file = f
    <3>1. \A n : ~ Untouched(h, f, n)
      BY <2>1, <2>4 DEF Untouched
    <3>2. ~ Awaits(h, f)
      BY <3>1 DEF FreshOf
    <3>3. ASSUME NEW p \in 1 .. Len(Tail(s)), Tail(s)[p].type = "bookout", Tail(s)[p].file = f PROVE FALSE
      <4>1. p + 1 \in 1 .. Len(s) /\ s[p + 1] = Tail(s)[p]
        BY <2>1, <1>1
      <4> QED BY <3>1, <3>3, <4>1 DEF FreshOf
    <3> HIDE DEF s
    <3> QED BY <2>1, <2>2, <3>2, <3>3, <1>0 DEF FreshOf, BooksOut
  <2> QED BY <2>3, <2>4
<1>9. CASE ClientQuit(h)
  <2>1. s2c'[h] = <<>> /\ cpc'[h] = "gone" /\ local' = local /\ Len(<<>>) = 0 /\ \A p \in 1 .. 0 : FALSE
    BY <1>0, <1>9 DEF ClientQuit
  <2>2. Awaits(h, f) => Untouched(h, f, Len(s2c[h]))'
    BY <2>1 DEF FreshOf, Untouched
  <2> QED BY <2>1, <2>2, <1>0 DEF FreshOf
<1> QED BY <1>4, <1>5, <1>6, <1>7, <1>8, <1>9 DEF Client

LEMMA NextFresh ==
    ASSUME Orderly, TypeInv, FreshInv, [Next]_vars
    PROVE  FreshInv'
<1> SUFFICES ASSUME NEW h \in Sessions, NEW f \in Files PROVE FreshOf(h, f)'
  BY DEF FreshInv
<1>0. FreshOf(h, f)
  BY DEF FreshInv
<1>1. ASSUME SameSession(h) PROVE FreshOf(h, f)'
  <2>1. Awaits(h, f)' <=> Awaits(h, f)
    BY <1>1 DEF SameSession, Awaits
  <2>2. \A n : Untouched(h, f, n) => Untouched(h, f, n)'
    BY <1>1 DEF SameSession, Untouched, BooksIn
  <2>3. Awaits(h, f) => Untouched(h, f, Len(s2c[h]))'
    BY <1>0, <1>1 DEF FreshOf, SameSession, Untouched, BooksIn
  <2> QED BY <1>0, <1>1, <2>1, <2>2, <2>3 DEF FreshOf, SameSession, BooksOut
<1>2. ASSUME NEW g \in Sessions, Handler(g) \/ HandlerKilled(g) \/ Client(g) \/ ClientQuit(g) PROVE FreshOf(h, f)'
  <2>1. CASE g # h
    BY <1>1, <1>2, <2>1, OneSession
  <2>2. CASE g = h
    BY <1>0, <1>2, <2>2, FreshHandler, FreshClient
  <2> QED BY <2>1, <2>2
<1>3. CASE UNCHANGED vars
  BY <1>1, <1>3 DEF SameSession, vars, serverVars, clientVars
<1> QED BY <1>2, <1>3 DEF Next, AllFinished

LEMMA InitFresh == ASSUME Init PROVE FreshInv
<1> SUFFICES ASSUME NEW h \in Sessions, NEW f \in Files PROVE FreshOf(h, f)
  BY DEF FreshInv
<1>1. s2c[h] = <<>> /\ local[h][f] = Absent /\ cpc[h] \in {"start", "gone"} /\ \A p \in 1 .. Len(<<>>) : FALSE
  BY DEF Init
<1> QED BY <1>1 DEF FreshOf, Untouched

-------------------------------------------------------------------------------
(* The content of a file changes as a whole. *)

\* The copy is in place, and its tail in the buffer of the stream.
Placing(h, f) == Booking(h, f) /\ pc[h] \in {"inchmod", "inclose"}

\* What the file is to a reader of the abstract system: the copy of the user whose
\* book-in is being put in place, and else what it holds.
ShownAs(f) ==
    /\ \A h \in Sessions : Placing(h, f) =>
         name[f] # Absent /\ Effective(f) = local[h][f] /\ local[h][f] # Absent
    /\ (\A h \in Sessions : ~ Placing(h, f)) =>
         Effective(f) = IF name[f] = Absent THEN Absent ELSE data[name[f]]

ShownInv == \A f \in Files : ShownAs(f)

LEMMA InOwnTail ==
    ASSUME TypeInv, OwnInv, NEW f \in Files, name[f] # Absent, NEW h \in Tails(name[f])
    PROVE  h \in Sessions /\ Placing(h, f)
<1>1. h \in Sessions /\ pc[h] \in {"inchmod", "inclose"} /\ fd[h].ino = name[f]
  BY DEF Tails
<1>2. fd[h].ino \in Own(File(h)) /\ name[f] \in Own(f) /\ at[h] <= Len(Items[h]) /\ Items[h][at[h]].op = "bookin"
  BY <1>1 DEF OwnInv, BookingIn, TypeInv, ControlInv
<1>3. File(h) \in Files /\ Booking(h, File(h))
  BY <1>1, <1>2, Booker
<1>4. File(h) = f
  BY <1>1, <1>2, <1>3, OwnApart
<1> QED BY <1>1, <1>3, <1>4 DEF Placing

LEMMA Shows ==
    ASSUME Orderly, TypeInv, OwnInv, SyncInv, NamesInv, WrittenInv
    PROVE  ShownInv
<1> SUFFICES ASSUME NEW f \in Files PROVE ShownAs(f)
  BY DEF ShownInv
<1>1. ASSUME NEW h \in Sessions, Placing(h, f)
      PROVE  name[f] # Absent /\ Effective(f) = local[h][f] /\ local[h][f] # Absent
  <2>1. Booking(h, f) /\ BooksIn(h, f) /\ pc[h] \in {"inchmod", "inclose"}
    BY <1>1, BookingBooks DEF Placing
  <2>2. h \in Prompt /\ Sole(h, f)
    BY <2>1 DEF Orderly
  <2>3. InStep(h) /\ NamesOf(h, f) /\ WrittenOf(h, f)
    BY <2>1, <2>2 DEF SyncInv, NamesInv, WrittenInv, Closed
  <2>4. name[f] = fd[h].ino
    BY <2>1, <2>3 DEF NamesOf, Replaced
  <2>5. /\ fd[h].ino \in Inodes /\ local[h][f] # Absent
        /\ fd[h].buf = <<>> => data[fd[h].ino] = local[h][f]
        /\ fd[h].buf # <<>> => WriteAt(data[fd[h].ino], fd[h].pos, Head(fd[h].buf)) = local[h][f]
    BY <2>1, <2>2, <2>3, WithTail DEF Filing
  <2>6. name[f] # Absent
    BY <2>4, <2>5, AbsentAssumption
  <2>7. \A j \in Tails(name[f]) : j = h
    BY <2>2, <2>6, InOwnTail, BookingBooks DEF Sole, Placing
  <2>8. Tails(name[f]) = IF fd[h].buf = <<>> THEN {} ELSE {h}
    BY <2>1, <2>4, <2>7 DEF Tails
  <2>9. Effective(f) = local[h][f]
    BY <2>4, <2>5, <2>6, <2>8 DEF Effective
  <2> QED BY <2>5, <2>6, <2>9
<1>2. ASSUME \A h \in Sessions : ~ Placing(h, f)
      PROVE  Effective(f) = IF name[f] = Absent THEN Absent ELSE data[name[f]]
  <2>1. name[f] # Absent => Tails(name[f]) = {}
    BY <1>2, InOwnTail
  <2> QED BY <2>1 DEF Effective
<1> QED BY <1>1, <1>2 DEF ShownAs

\* A handler changes the content of a file in one step only, the rename.
LEMMA ContentSteps ==
    ASSUME Orderly, TypeInv, OwnInv, SyncInv, NamesInv, WrittenInv, ShownInv, ShownInv',
           NEW g \in Sessions, Handler(g) \/ HandlerKilled(g), NEW f \in Files
    PROVE  /\ InRename(g) /\ File(g) = f => Effective(f)' = local[g][f] /\ local[g][f] # Absent
           /\ ~ (InRename(g) /\ File(g) = f) => Effective(f)' = Effective(f)
<1>0. local' = local /\ pc \in [Sessions -> Statements] /\ at \in [Sessions -> Nat \ {0}] /\ ShownAs(f) /\ ShownAs(f)'
  BY HandlerFrame DEF clientVars, TypeInv, ControlInv, ShownInv
<1>1. \A h \in Sessions \ {g} : Placing(h, f)' <=> Placing(h, f)
  BY OneSession DEF SameSession, Placing, Booking
<1>2. ASSUME Placing(g, f)' <=> Placing(g, f), ~ InRename(g) \/ File(g) # f,
             (\A h \in Sessions : ~ Placing(h, f)) =>
                name'[f] = name[f] /\ (name[f] # Absent => data'[name[f]] = data[name[f]])
      PROVE  Effective(f)' = Effective(f)
  <2>1. CASE \E h \in Sessions : Placing(h, f)
    <3>1. PICK h \in Sessions : Placing(h, f)
      BY <2>1
    <3>2. Placing(h, f)'
      BY <1>1, <1>2, <3>1
    <3> QED BY <1>0, <3>1, <3>2 DEF ShownAs
  <2>2. CASE \A h \in Sessions : ~ Placing(h, f)
    <3>1. \A h \in Sessions : ~ Placing(h, f)'
      BY <1>1, <1>2, <2>2
    <3> QED BY <1>0, <1>2, <2>2, <3>1 DEF ShownAs
  <2> QED BY <2>1, <2>2
<1>3. CASE ~ Booking(g, f)
  <2>1. name'[f] = name[f] /\ (name[f] # Absent => data'[name[f]] = data[name[f]])
    BY <1>3, ForeignStep DEF OwnInv
  <2>2. ~ Placing(g, f) /\ ~ Placing(g, f)'
    <3> SUFFICES ASSUME Placing(g, f)' PROVE FALSE
      BY <1>3 DEF Placing
    <3>1. pc'[g] \in BookingIn /\ pc'[g] # "inreply"
      BY DEF Placing, BookingIn
    <3>2. ~ InOpen(g)
      BY <3>1, <1>0 DEF InOpen, Goto
    <3>3. at'[g] = at[g]
      BY <3>1, <3>2, StreamOfBookin
    <3> QED BY <3>3, <1>3 DEF Placing, Booking
  <2>3. ~ InRename(g) \/ File(g) # f
    <3> SUFFICES ASSUME InRename(g), File(g) = f PROVE FALSE
      OBVIOUS
    <3>1. at[g] <= Len(Items[g]) /\ Items[g][at[g]].op = "bookin"
      BY DEF InRename, BookingIn, TypeInv, ControlInv
    <3> QED BY <3>1, <1>3, Booker
  <2> QED BY <1>2, <2>1, <2>2, <2>3
<1>4. CASE Booking(g, f)
  <2>1. /\ g \in Prompt \ Killable /\ Sole(g, f) /\ Handler(g) /\ File(g) = f
        /\ \A h \in Sessions : Booking(h, f) => h = g
    <3>1. g \in Prompt \ Killable /\ Sole(g, f)
      BY <1>4, BookingBooks DEF Orderly
    <3> QED BY <3>1, <1>4, BookingBooks DEF Sole, HandlerKilled, Booking, File
  <2>2. NamesOf(g, f) /\ WrittenOf(g, f) /\ (pc[g] \in Filing => InStep(g))
    BY <2>1 DEF NamesInv, WrittenInv, SyncInv, Filing, Closed
  <2>3. CASE InRename(g)
    <3>1. Placing(g, f)'
      BY <1>0, <1>4, <2>3 DEF InRename, Goto, Placing, Booking
    <3> QED BY <1>0, <2>1, <2>3, <3>1 DEF ShownAs
  <2>4. CASE InClose(g)
    <3>1. Placing(g, f) /\ name' = name /\ pc[g] = "inclose" /\ pc'[g] = "items" /\ name[f] = fd[g].ino
      BY <1>0, <1>4, <2>2, <2>4 DEF InClose, Advance, Goto, Placing, NamesOf, Replaced
    <3>2. data'[fd[g].ino] = local[g][f]
      BY <1>4, <2>1, <2>2, <2>4, <3>1, Completes DEF Filing
    <3>3. \A h \in Sessions : ~ Placing(h, f)'
      <4>1. \A h \in Sessions \ {g} : ~ Placing(h, f)
        BY <2>1 DEF Placing
      <4>2. ~ Placing(g, f)'
        BY <3>1 DEF Placing
      <4> QED BY <4>1, <4>2, <1>1
    <3>4. name[f] # Absent /\ Effective(f) = local[g][f]
      BY <1>0, <3>1 DEF ShownAs
    <3>5. Effective(f)' = data'[name[f]]
      BY <1>0, <3>1, <3>3, <3>4 DEF ShownAs
    <3> QED BY <2>4, <3>1, <3>2, <3>4, <3>5 DEF InClose, InRename
  <2>5. CASE InChmod(g)
    <3>1. Placing(g, f) /\ Placing(g, f)' /\ ~ InRename(g)
      BY <1>0, <1>4, <2>5 DEF InChmod, InRename, Goto, Placing, Booking
    <3> QED BY <1>0, <3>1 DEF ShownAs
  <2>6. CASE ~ InRename(g) /\ ~ InClose(g) /\ ~ InChmod(g)
    <3>1. pc[g] \notin {"inchmod", "inclose"}
      BY <2>1, <2>6 DEF Handler, Request, RequestFails, RulePasses, AskAuth, AuthLine, AuthEnds, Refuse, Permit,
         Require, ClientRunLine, Run, EndOfItems, InOpenFails, CloseSession, OutStat, OutOpen, OutOpenFails,
         OutSend, InOpen, InReply,
         InAbort, InReceive, InReceiveEnds, InStat, RuleInHand, AtItem
    <3>2. name' = name /\ pc'[g] \notin {"inchmod", "inclose"}
      <4>1. CASE InOpen(g) \/ InAbort(g)
        BY <4>1, <1>0 DEF InOpen, InAbort, Goto, Advance
      <4>2. CASE ~ InOpen(g) /\ ~ InAbort(g)
        <5>1. name' = name
          BY <2>6, <4>2, QuietSteps DEF QuietStep, TypeInv
        <5>2. pc'[g] \notin {"inchmod", "inclose"}
          BY <2>1, <2>6, <3>1, <4>2, Moves, HandlerOpenOnly DEF Replaced, Closed
        <5> QED BY <5>1, <5>2
      <4> QED BY <4>1, <4>2
    <3>3. name[f] # Absent => data'[name[f]] = data[name[f]]
      BY <2>2, <2>6, Frozen
    <3>4. ~ Placing(g, f) /\ ~ Placing(g, f)'
      BY <3>1, <3>2 DEF Placing
    <3> QED BY <1>2, <2>6, <3>2, <3>3, <3>4
  <2> QED BY <2>3, <2>4, <2>5, <2>6
<1> QED BY <1>3, <1>4

-------------------------------------------------------------------------------
(* The sessions implement BookInOut. *)

\* A copy counts when it is complete.
CopyOf(h, f) == IF cpc[h] = "copy" /\ copying[h].file = f THEN Absent ELSE local[h][f]

SameContent == \A f \in Files : Effective(f)' = Effective(f)
SameCopies == \A h \in Sessions, f \in Files : CopyOf(h, f)' = CopyOf(h, f)

LEMMA IsStutter == ASSUME SameContent, SameCopies PROVE UNCHANGED Abstract!vars
BY DEF SameContent, SameCopies, CopyOf, Abstract!vars

\* What the copies are called in BookInOut.
Copies == [h \in Sessions |-> [f \in Files |-> CopyOf(h, f)]]
Contents == [f \in Files |-> Effective(f)]

LEMMA OneEntry ==
    ASSUME NEW S, NEW T, NEW A, NEW B, NEW h \in S, NEW f \in T, NEW x,
           A = [j \in S |-> [e \in T |-> A[j][e]]], B = [j \in S |-> [e \in T |-> B[j][e]]],
           \A j \in S, e \in T : B[j][e] = IF j = h /\ e = f THEN x ELSE A[j][e]
    PROVE  B = [A EXCEPT ![h][f] = x]
<1> DEFINE row == [A[h] EXCEPT ![f] = x]
           C == [A EXCEPT ![h] = row]
<1>1. A[h] = [e \in T |-> A[h][e]] /\ B[h] = [e \in T |-> B[h][e]]
  OBVIOUS
<1>2. B[h] = row
  BY <1>1
<1>3. \A j \in S : j # h => B[j] = A[j]
  <2> TAKE j \in S
  <2> HAVE j # h
  <2>1. A[j] = [e \in T |-> A[j][e]] /\ B[j] = [e \in T |-> B[j][e]] /\ \A e \in T : B[j][e] = A[j][e]
    OBVIOUS
  <2> QED BY <2>1
<1> HIDE DEF row
<1>4. C = [j \in S |-> IF j = h THEN row ELSE A[j]]
  OBVIOUS
<1>5. B = [j \in S |-> B[j]]
  OBVIOUS
<1>6. \A j \in S : B[j] = IF j = h THEN row ELSE A[j]
  BY <1>2, <1>3
<1>7. B = C
  BY <1>4, <1>5, <1>6
<1> QED BY <1>7 DEF row

LEMMA OneRow ==
    ASSUME NEW S, NEW T, NEW A, NEW B, NEW h \in S, NEW row,
           A = [j \in S |-> [e \in T |-> A[j][e]]], B = [j \in S |-> [e \in T |-> B[j][e]]],
           row = [e \in T |-> B[h][e]],
           \A j \in S, e \in T : j # h => B[j][e] = A[j][e]
    PROVE  B = [A EXCEPT ![h] = row]
<1>1. B[h] = row
  OBVIOUS
<1>2. \A j \in S : j # h => B[j] = A[j]
  <2> TAKE j \in S
  <2> HAVE j # h
  <2>1. A[j] = [e \in T |-> A[j][e]] /\ B[j] = [e \in T |-> B[j][e]] /\ \A e \in T : B[j][e] = A[j][e]
    OBVIOUS
  <2> QED BY <2>1
<1>3. [A EXCEPT ![h] = row] = [j \in S |-> IF j = h THEN row ELSE A[j]]
  OBVIOUS
<1>4. B = [j \in S |-> B[j]]
  OBVIOUS
<1>5. \A j \in S : B[j] = IF j = h THEN row ELSE A[j]
  BY <1>1, <1>2
<1> QED BY <1>3, <1>4, <1>5

LEMMA CopiesRows ==
    /\ Copies = [j \in Sessions |-> [e \in Files |-> Copies[j][e]]]
    /\ Copies' = [j \in Sessions |-> [e \in Files |-> Copies'[j][e]]]
    /\ \A j \in Sessions, e \in Files : Copies[j][e] = CopyOf(j, e) /\ Copies'[j][e] = CopyOf(j, e)'
<1>1. Copies' = [j \in Sessions |-> [e \in Files |-> CopyOf(j, e)']]
  BY DEF Copies
<1>2. /\ \A j \in Sessions : Copies[j] = [e \in Files |-> CopyOf(j, e)]
      /\ \A j \in Sessions : Copies'[j] = [e \in Files |-> CopyOf(j, e)']
  BY <1>1 DEF Copies
<1>3. \A j \in Sessions, e \in Files : Copies[j][e] = CopyOf(j, e) /\ Copies'[j][e] = CopyOf(j, e)'
  BY <1>2
<1>4. \A j \in Sessions : [e \in Files |-> CopyOf(j, e)] = [e \in Files |-> Copies[j][e]]
  BY <1>3
<1>5. \A j \in Sessions : [e \in Files |-> CopyOf(j, e)'] = [e \in Files |-> Copies'[j][e]]
  BY <1>3
<1> QED BY <1>1, <1>3, <1>4, <1>5 DEF Copies

LEMMA InTheirTerms ==
    /\ \A h \in Sessions, f \in Files :
         Abstract!BookOut(h, f) <=>
            /\ Contents[f] # Absent
            /\ Copies' = [Copies EXCEPT ![h][f] = Contents[f]]
            /\ Contents' = Contents
    /\ \A h \in Sessions : \A F \in SUBSET Files :
         Abstract!Edit(h, F) <=>
            /\ Copies' = [Copies EXCEPT ![h] = [f \in Files |-> IF f \in F THEN Edited[h][f] ELSE @[f]]]
            /\ Contents' = Contents
BY DEF Abstract!BookOut, Abstract!Edit, Copies, CopyOf, Contents

LEMMA IsBookOut ==
    ASSUME NEW h \in Sessions, NEW f \in Files, Effective(f) # Absent, SameContent,
           \A j \in Sessions, e \in Files :
              CopyOf(j, e)' = IF j = h /\ e = f THEN Effective(f) ELSE CopyOf(j, e)
    PROVE  Abstract!Next
<1>1. Contents' = Contents /\ Contents[f] = Effective(f)
  BY DEF SameContent, Contents
<1>2. \A j \in Sessions, e \in Files :
         Copies'[j][e] = IF j = h /\ e = f THEN Contents[f] ELSE Copies[j][e]
  BY <1>1, CopiesRows
<1>3. Copies' = [Copies EXCEPT ![h][f] = Contents[f]]
  BY <1>2, CopiesRows, OneEntry
<1>4. Abstract!BookOut(h, f)
  BY <1>1, <1>3, InTheirTerms
<1> QED BY <1>4 DEF Abstract!Next

LEMMA IsBookIn ==
    ASSUME NEW h \in Sessions, NEW f \in Files, CopyOf(h, f) # Absent, SameCopies,
           \A e \in Files : Effective(e)' = IF e = f THEN CopyOf(h, f) ELSE Effective(e)
    PROVE  Abstract!Next
<1>1. Abstract!BookIn(h, f)
  BY DEF SameCopies, CopyOf, Abstract!BookIn
<1> QED BY <1>1 DEF Abstract!Next

LEMMA IsEdit ==
    ASSUME NEW h \in Sessions, NEW F \in SUBSET Files, SameContent,
           \A j \in Sessions, e \in Files :
              CopyOf(j, e)' = IF j = h /\ e \in F THEN Edited[h][e] ELSE CopyOf(j, e)
    PROVE  Abstract!Next
<1> DEFINE row == [e \in Files |-> IF e \in F THEN Edited[h][e] ELSE Copies[h][e]]
<1>1. Contents' = Contents
  BY DEF SameContent, Contents
<1>2. \A j \in Sessions, e \in Files : j # h => Copies'[j][e] = Copies[j][e]
  BY CopiesRows
<1>3. row = [e \in Files |-> Copies'[h][e]]
  BY CopiesRows
<1> HIDE DEF row
<1>4. Copies' = [Copies EXCEPT ![h] = row]
  BY <1>2, <1>3, CopiesRows, OneRow
<1>5. Abstract!Edit(h, F)
  BY <1>1, <1>4, InTheirTerms, CopiesRows DEF row
<1> QED BY <1>5 DEF Abstract!Next

LEMMA HandlerImplements ==
    ASSUME Orderly, TypeInv, OwnInv, SyncInv, NamesInv, WrittenInv, ShownInv, ShownInv',
           NEW g \in Sessions, Handler(g) \/ HandlerKilled(g)
    PROVE  Abstract!Next \/ UNCHANGED Abstract!vars
<1> DEFINE f == File(g)
<1>1. SameCopies
  BY HandlerFrame DEF clientVars, SameCopies, CopyOf
<1>2. CASE InRename(g)
  <2>1. pc[g] = "inrename" /\ f \in Files /\ Booking(g, f)
    <3>1. pc[g] = "inrename" /\ at[g] <= Len(Items[g]) /\ Items[g][at[g]].op = "bookin"
      BY <1>2 DEF InRename, BookingIn, TypeInv, ControlInv
    <3> QED BY <3>1, OwnNew DEF TypeInv
  <2>2. g \in Prompt /\ ~ Closed(g)
    BY <2>1, BookingBooks DEF Orderly, Closed
  <2>3. Received(g)
    BY <2>1, <2>2 DEF SyncInv, InStep, Filing
  <2>4. CopyOf(g, f) = local[g][f]
    BY <2>3 DEF CopyOf, Received
  <2>5. \A e \in Files : Effective(e)' = IF e = f THEN CopyOf(g, f) ELSE Effective(e)
    BY <1>2, <2>4, ContentSteps
  <2>6. CopyOf(g, f) # Absent
    BY <1>2, <2>1, <2>4, ContentSteps
  <2> QED
    <3> HIDE DEF f
    <3> QED BY <1>1, <2>1, <2>5, <2>6, IsBookIn
<1>3. CASE ~ InRename(g)
  <2>1. SameContent
    BY <1>3, ContentSteps DEF SameContent
  <2> QED BY <1>1, <2>1, IsStutter
<1> QED BY <1>2, <1>3

\* While something is under way to a client, a file it books out is not being put
\* in place, and what is under way is that file.
LEMMA WhileSent ==
    ASSUME Orderly, TypeInv, SyncInv, CopiesInv, ShownInv,
           NEW h \in Sessions, NEW f \in Files, BooksOut(h, f), s2c[h] # <<>> \/ cpc[h] = "copy"
    PROVE  CopiesOf(h, f) /\ (name[f] # Absent => Effective(f) = data[name[f]])
<1>1. h \in Prompt \ Killable /\ Sole(h, f)
  BY DEF Orderly
<1>2. CopiesOf(h, f)
  BY <1>1 DEF CopiesInv
<1>3. ASSUME NEW j \in Sessions, Placing(j, f) PROVE FALSE
  <2>1. j = h
    BY <1>1, <1>3, BookingBooks DEF Sole, Placing
  <2>2. pc[h] \in Filing /\ ~ Closed(h)
    BY <1>3, <2>1 DEF Placing, Filing, Closed
  <2>3. Received(h)
    BY <1>1, <2>2 DEF SyncInv, InStep
  <2> QED BY <2>3 DEF Received
<1>4. name[f] # Absent => Effective(f) = data[name[f]]
  BY <1>3 DEF ShownInv, ShownAs
<1> QED BY <1>2, <1>4

LEMMA ClientContent == ASSUME NEW h \in Sessions, Client(h) \/ ClientQuit(h) PROVE SameContent
<1>1. UNCHANGED <<name, data, pc, fd>>
  BY ClientFrame, ClientFiles
<1> QED BY <1>1 DEF SameContent, Effective, Tails

LEMMA ClientImplements ==
    ASSUME Orderly, TypeInv, OwnInv, SyncInv, CopiesInv, FreshInv, ShownInv,
           NEW h \in Sessions, Client(h) \/ ClientQuit(h)
    PROVE  Abstract!Next \/ UNCHANGED Abstract!vars
<1> DEFINE s == s2c[h]
<1>0. /\ cpc \in [Sessions -> {"start", "read", "copy", "upload", "raw", "run", "prompt", "gone"}]
      /\ copying \in [Sessions -> Transfers]
      /\ local \in [Sessions -> [Files -> Seq(Block) \cup {Absent}]]
  BY DEF TypeInv, TypeOK, Transfers
<1>a. SameContent
  BY ClientContent
<1>b. \A j \in Sessions : j # h => \A e \in Files : CopyOf(j, e)' = CopyOf(j, e)
  BY ClientsStay DEF CopyOf
<1>1. ASSUME \A e \in Files : CopyOf(h, e)' = CopyOf(h, e) PROVE UNCHANGED Abstract!vars
  <2>1. SameCopies
    BY <1>b, <1>1 DEF SameCopies
  <2> QED BY <1>a, <2>1, IsStutter
<1>2. ASSUME NEW f \in Files, Effective(f) # Absent, CopyOf(h, f)' = Effective(f),
             \A e \in Files : e # f => CopyOf(h, e)' = CopyOf(h, e)
      PROVE  Abstract!Next
  <2>1. \A j \in Sessions, e \in Files :
           CopyOf(j, e)' = IF j = h /\ e = f THEN Effective(f) ELSE CopyOf(j, e)
    BY <1>b, <1>2
  <2> QED BY <1>a, <1>2, <2>1, IsBookOut
<1>3. CASE ClientBookout(h)
  <2> DEFINE m == Head(s)
  <2>0. /\ s # <<>> /\ m = s[1] /\ 1 \in 1 .. Len(s) /\ m.type = "bookout" /\ m.file \in Files /\ m.size \in Nat
        /\ cpc[h] = "read"
    <3>1. s # <<>> /\ s \in Seq(ToClient) /\ m.type = "bookout" /\ cpc[h] = "read"
      BY <1>3 DEF ClientBookout, NextLine, TypeInv, TypeOK
    <3>2. m = s[1] /\ 1 \in 1 .. Len(s) /\ m \in ToClient
      BY <3>1
    <3>3. m.file \in Files /\ m.size \in Nat
      BY <3>1, <3>2 DEF ToClient, Content
    <3> QED BY <3>1, <3>2, <3>3
  <2>f. PICK f \in Files : f = m.file
    BY <2>0
  <2>1. /\ s # <<>> /\ s[1] = m /\ 1 \in 1 .. Len(s) /\ m.type = "bookout" /\ m.file = f /\ m.size \in Nat
        /\ cpc[h] = "read"
    BY <2>0, <2>f
  <2>2. CASE h \in ReadOnlyDir
    <3>1. cpc' = cpc /\ local' = local /\ copying' = copying
      BY <1>3, <2>2 DEF ClientBookout
    <3> QED BY <3>1, <1>1 DEF CopyOf
  <2>3. CASE h \notin ReadOnlyDir
    <3>1. /\ local' = [local EXCEPT ![h][f] = <<>>]
          /\ copying' = [copying EXCEPT ![h] = [file |-> f, left |-> m.size]]
          /\ cpc' = [cpc EXCEPT ![h] = IF m.size > 0 THEN "copy" ELSE "read"]
      BY <1>3, <2>1, <2>3 DEF ClientBookout
    <3>2. BooksOut(h, f) /\ local[h][f] = Absent
      BY <2>1 DEF FreshInv, FreshOf, Untouched
    <3> HIDE DEF m, s
    <3>3. /\ \A e \in Files : e # f => CopyOf(h, e)' = CopyOf(h, e)
          /\ CopyOf(h, f) = Absent
          /\ CopyOf(h, f)' = IF m.size > 0 THEN Absent ELSE <<>>
      <4>1. /\ \A e \in Files : local'[h][e] = IF e = f THEN <<>> ELSE local[h][e]
            /\ copying'[h].file = f /\ cpc'[h] = IF m.size > 0 THEN "copy" ELSE "read"
        BY <1>0, <2>1, <3>1
      <4> QED BY <2>1, <3>2, <4>1 DEF CopyOf
    <3>4. CASE m.size > 0
      <4>1. \A e \in Files : CopyOf(h, e)' = CopyOf(h, e)
        BY <3>3, <3>4
      <4> QED BY <4>1, <1>1
    <3>5. CASE ~ m.size > 0
      <4>1. CopiesOf(h, f) /\ (name[f] # Absent => Effective(f) = data[name[f]])
        BY <2>1, <3>2, WhileSent DEF s
      <4>2. name[f] # Absent /\ m.size = Len(data[name[f]])
        BY <2>1, <4>1 DEF CopiesOf, s
      <4>3. data[name[f]] \in Seq(Block)
        <5>1. name[f] \in Inodes
          BY <2>1, <4>2, OwnApart DEF OwnInv
        <5> QED BY <5>1 DEF TypeInv, TypeOK
      <4>4. Effective(f) = <<>>
        BY <2>1, <3>5, <4>1, <4>2, <4>3
      <4>5. <<>> # Absent
        BY <4>3, <4>4, <4>1, <4>2, AbsentAssumption
      <4>6. /\ Effective(f) # Absent /\ CopyOf(h, f)' = Effective(f) /\ f \in Files
            /\ \A e \in Files : e # f => CopyOf(h, e)' = CopyOf(h, e)
        BY <2>1, <3>3, <3>5, <4>4, <4>5
      <4>7. Abstract!Next
        BY <4>6, <1>2
      <4> QED BY <4>7
    <3> QED BY <3>4, <3>5
  <2> QED BY <2>2, <2>3
<1>4. CASE ClientCopy(h)
  <2>f. PICK f \in Files : f = copying[h].file
    BY <1>4 DEF ClientCopy, TypeInv, OpenInv
  <2>1. /\ cpc[h] = "copy" /\ copying[h].file = f /\ copying[h].left \in Nat \ {0}
        /\ \A e \in Files : e # f => local'[h][e] = local[h][e]
        /\ copying'[h].file = f /\ cpc'[h] = IF copying[h].left = 1 THEN "read" ELSE "copy"
    BY <1>0, <1>4, <2>f DEF ClientCopy, TypeInv, OpenInv, Transfers
  <2>2. /\ \A e \in Files : e # f => CopyOf(h, e)' = CopyOf(h, e)
        /\ CopyOf(h, f) = Absent
        /\ CopyOf(h, f)' = IF copying[h].left = 1 THEN local'[h][f] ELSE Absent
    BY <2>1 DEF CopyOf
  <2>3. CASE copying[h].left # 1
    <3>1. \A e \in Files : CopyOf(h, e)' = CopyOf(h, e)
      BY <2>2, <2>3
    <3> QED BY <3>1, <1>1
  <2>4. CASE copying[h].left = 1
    <3>1. BooksOut(h, f)
      BY <2>1 DEF FreshInv, FreshOf
    <3>2. CopiesOf(h, f) /\ (name[f] # Absent => Effective(f) = data[name[f]])
      BY <2>1, <3>1, WhileSent
    <3>3. name[f] # Absent /\ local'[h][f] = data[name[f]]
      BY <1>4, <2>1, <2>4, <3>2, CopyEnds
    <3>4. data[name[f]] \in Seq(Block)
      <4>1. name[f] \in Inodes
        BY <2>1, <3>3, OwnApart DEF OwnInv
      <4> QED BY <4>1 DEF TypeInv, TypeOK
    <3>5. Effective(f) # Absent /\ CopyOf(h, f)' = Effective(f)
      BY <2>2, <2>4, <3>2, <3>3, <3>4, AbsentAssumption
    <3>6. f \in Files /\ \A e \in Files : e # f => CopyOf(h, e)' = CopyOf(h, e)
      BY <2>1, <2>2
    <3>7. Abstract!Next
      BY <3>5, <3>6, <1>2
    <3> QED BY <3>7
  <2> QED BY <2>3, <2>4
<1>5. CASE ClientRunEnds(h)
  <2>1. cpc[h] = "run" /\ cpc'[h] = "read"
    BY <1>0, <1>5 DEF ClientRunEnds
  <2>2. PICK F \in SUBSET Files :
           local' = [local EXCEPT ![h] = [f \in Files |-> IF f \in F THEN Edited[h][f] ELSE @[f]]]
    BY <1>5 DEF ClientRunEnds
  <2>3. \A e \in Files : local'[h][e] = IF e \in F THEN Edited[h][e] ELSE local[h][e]
    BY <1>0, <2>2
  <2>4. \A e \in Files : CopyOf(h, e)' = IF e \in F THEN Edited[h][e] ELSE CopyOf(h, e)
    BY <2>1, <2>3 DEF CopyOf
  <2>5. \A j \in Sessions, e \in Files :
           CopyOf(j, e)' = IF j = h /\ e \in F THEN Edited[h][e] ELSE CopyOf(j, e)
    BY <1>b, <2>4
  <2> QED BY <1>a, <2>5, IsEdit
  \* Whatever else a client does, it has no copy in hand before or after.
<1>6. ASSUME local'[h] = local[h], cpc[h] # "copy", cpc'[h] # "copy" PROVE UNCHANGED Abstract!vars
  BY <1>6, <1>1 DEF CopyOf
<1>7. CASE ClientStart(h) \/ ClientUpload(h) \/ ClientAuthEnds(h) \/ ClientBookin(h)
  BY <1>0, <1>6, <1>7 DEF ClientStart, ClientUpload, ClientAuthEnds, ClientBookin, NextLine, Reply
<1>8. CASE ClientRunBegins(h) \/ ClientAuthBegins(h) \/ ClientOkay(h) \/ ClientRaw(h)
  BY <1>0, <1>6, <1>8 DEF ClientRunBegins, ClientAuthBegins, ClientOkay, ClientRaw, NextLine
<1>9. CASE ClientPrint(h)
  BY <1>1, <1>9 DEF ClientPrint, clientVars, CopyOf
<1>10. CASE ClientEnd(h) \/ ClientQuit(h)
  <2>1. cpc'[h] = "gone" /\ local' = local
    BY <1>0, <1>10 DEF ClientEnd, ClientQuit
  <2>2. ASSUME cpc[h] = "copy" PROVE FALSE
    <3> DEFINE f == copying[h].file
    <3>1. f \in Files /\ copying[h].left > 0 /\ copying[h].left \in Nat /\ local[h][f] # Absent
      BY <1>0, <2>2 DEF TypeInv, OpenInv, Transfers
    <3>2. BooksOut(h, f)
      BY <2>2, <3>1 DEF FreshInv, FreshOf
    <3>3. h \in Prompt /\ CopiesOf(h, f)
      BY <2>2, <3>1, <3>2, WhileSent DEF Orderly
    <3>4. s = <<>> /\ Closed(h)
      BY <1>10, <3>3 DEF ClientEnd, ClientQuit, Prompt
    <3>5. /\ Len(local[h][f]) + copying[h].left = Len(data[name[f]])
          /\ Follows(s, data[name[f]], 0, Len(local[h][f]), Sending(h, f), fd[h].pos)
      BY <2>2, <3>3 DEF CopiesOf
    <3>6. 0 + (Len(data[name[f]]) - Len(local[h][f])) <= Len(s)
      BY <3>4, <3>5 DEF Follows, Sending, Closed
    <3>7. Len(local[h][f]) \in Nat
      BY <1>0, <3>1
    <3>8. Len(s) = 0
      BY <3>4
    <3> HIDE DEF s, f
    <3> QED BY <3>1, <3>5, <3>6, <3>7, <3>8
  <2> QED BY <2>1, <2>2, <1>6
<1> QED BY <1>3, <1>4, <1>5, <1>7, <1>8, <1>9, <1>10 DEF Client

LEMMA InitImplements == ASSUME Init PROVE Abstract!Init
<1>1. \A f \in Files : Effective(f) = IF f \in Missing THEN Absent ELSE Original[f]
  <2> SUFFICES ASSUME NEW f \in Files PROVE Effective(f) = IF f \in Missing THEN Absent ELSE Original[f]
    OBVIOUS
  <2>1. name[f] = (IF f \in Missing THEN Absent ELSE f) /\ f # Absent /\ f \in Inodes /\ data[f] = Original[f]
    BY AbsentAssumption DEF Init, Inodes
  <2>2. \A i : Tails(i) = {}
    BY DEF Init, Tails
  <2> QED BY <2>1, <2>2 DEF Effective
<1>2. \A h \in Sessions, f \in Files : CopyOf(h, f) = Absent
  BY DEF Init, CopyOf
<1> QED BY <1>1, <1>2 DEF Abstract!Init, CopyOf

\* The sessions of an orderly configuration carry out what BookInOut promises:
\* BookoutFileToClient and ClientBookoutFile give a user the file as it is, and
\* ClientBookinFile and BookinFileFromClient put the user's copy in its place, each
\* as one step that leaves all other files and copies alone.
THEOREM EditsAreAtomic == ASSUME Orderly PROVE Spec => BookedAtomically
<1> DEFINE All == TypeInv /\ IInv /\ FilesInv /\ WholeInv
<1>1. Init => FreshInv
  BY InitFresh
<1>2. All /\ FreshInv /\ [Next]_vars => FreshInv'
  BY NextFresh
<1>3. All => ShownInv
  BY Shows DEF FilesInv, WholeInv
<1>4. Init => Abstract!Init
  BY InitImplements
<1>5. All /\ FreshInv /\ ShownInv /\ ShownInv' /\ [Next]_vars => [Abstract!Next]_(Abstract!vars)
  <2> SUFFICES ASSUME All, FreshInv, ShownInv, ShownInv', [Next]_vars
               PROVE  Abstract!Next \/ UNCHANGED Abstract!vars
    OBVIOUS
  <2>0. TypeInv /\ OwnInv /\ SyncInv /\ NamesInv /\ WrittenInv /\ CopiesInv
    BY DEF FilesInv, WholeInv
  <2>1. ASSUME NEW h \in Sessions, Handler(h) \/ HandlerKilled(h) PROVE Abstract!Next \/ UNCHANGED Abstract!vars
    BY <2>0, <2>1, HandlerImplements
  <2>2. ASSUME NEW h \in Sessions, Client(h) \/ ClientQuit(h) PROVE Abstract!Next \/ UNCHANGED Abstract!vars
    BY <2>0, <2>2, ClientImplements
  <2>3. CASE UNCHANGED vars
    <3>1. SameContent
      BY <2>3 DEF vars, fsVars, serverVars, SameContent, Effective, Tails
    <3>2. SameCopies
      BY <2>3 DEF vars, clientVars, SameCopies, CopyOf
    <3> QED BY <3>1, <3>2, IsStutter
  <2> QED BY <2>1, <2>2, <2>3 DEF Next, AllFinished
<1>6. Spec => []All
  BY AlwaysInStep
<1> QED BY <1>1, <1>2, <1>3, <1>4, <1>5, <1>6, PTL DEF Spec, BookedAtomically, Abstract!Spec
===============================================================================
