-------------------------------- MODULE Session --------------------------------
(***************************************************************************)
(* Sessions of invoked: for each connection a handler process (server.c,   *)
(* book_inout.c) and its client program (client.c), joined by a unix       *)
(* stream socket, and the files that handlers book out and in, which all   *)
(* sessions share.                                                         *)
(*                                                                         *)
(* A handler reads one request, checks the rules of the entry it names and *)
(* carries out the entry's items in order.  Its reads of the socket give   *)
(* up after 30 seconds (the stream comes from STREAMFromFD); the client's  *)
(* never do (STREAMOpen sets the timeout to the setting STREAM:Timeout,    *)
(* which nothing sets, hence to 0).                                        *)
(*                                                                         *)
(* File content is a sequence of blocks, each at most one stream buffer    *)
(* long: a stream writes a block out when its buffer is full, so the last  *)
(* block of a file stays in the buffer until the stream is closed.         *)
(***************************************************************************)
EXTENDS Naturals, Sequences

CONSTANTS
    Sessions,      \* the connections that there may be, each a handler and a client
    Together,      \* sets of sessions, those that there are at the same time
    Files,         \* the files the configuration books out and in
    Missing,       \* those of them that do not exist at the start
    Original,      \* [Files -> Seq(block)], the content at the start
    Edited,        \* [Sessions -> [Files -> Seq(block)]], what a user's program makes of a copy
    Block,         \* what a stream's buffer may hold
    Hole, Output, Text, \* blocks: unwritten space, a command's output, a protocol line read as content
    Rules,         \* [Sessions -> Seq({"match", "mismatch", "auth"})], the entry's rules as they apply to the peer
    Items,         \* [Sessions -> Seq(item)], the entry's items
    Granted,       \* sessions whose program holds a grant for the entry
    AuthOK,        \* sessions for which AuthPAM reports success
    Slow,          \* sessions whose user may take more than 30 seconds over something
    Mortal,        \* sessions whose client may be interrupted
    Killable,      \* sessions whose handler may be killed
    Unopenable,    \* files that a handler may fail to open
    ReadOnlyDir,   \* sessions whose client cannot create files where it runs
    SizeGarbage,   \* what "Size > 0" may be for the uninitialised Size of ClientBookinFile
    Absent         \* no file, no inode, no copy

ASSUME SessionAssumption ==
    /\ Missing \subseteq Files /\ Unopenable \subseteq Files
    /\ Together \subseteq SUBSET Sessions
    /\ Original \in [Files -> Seq(Block)]
    /\ Edited \in [Sessions -> [Files -> Seq(Block)]]
    /\ {Hole, Output, Text} \subseteq Block
    /\ Rules \in [Sessions -> Seq({"match", "mismatch", "auth"})]
    /\ \A h \in Sessions : Items[h] \in Seq([op : {"require", "run", "clientrun"}] \cup
                                            [op : {"bookout", "bookin"}, file : Files])
    /\ SizeGarbage \subseteq BOOLEAN

\* An inode is named by what created it: it is there from the start under the
\* name of its file, or the k-th item of session h made it.
NewInodes == UNION {{h} \X (1 .. Len(Items[h])) : h \in Sessions}
Inodes == Files \cup NewInodes

ASSUME AbsentAssumption ==
    /\ Files \cap NewInodes = {}
    /\ Absent \notin Inodes \cup Seq(Block)

VARIABLES
    \* the file system
    name,          \* [Files -> inode or Absent], what Path refers to
    temp,          \* [Files -> inode or Absent], what Path+ refers to
    data,          \* [Inodes -> Seq(block)]
    mode,          \* [Inodes -> "kept", "private" (0600) or "garbage"], permissions against those at the start
    \* the handlers
    pc, at,        \* statement, and index of the rule or item in hand
    authd,         \* PEER_AUTHENTICATED
    fd,            \* the open file and what was learned about it
    \* the sockets
    s2c, c2s,      \* to the client, to the handler
    \* the clients
    cpc,           \* what the client is doing
    local,         \* [Files -> Seq(block) or Absent], its copies
    copying,       \* the file being received or sent, and the blocks left of it
    swallowed      \* history: kinds of directive copied to standard output

fsVars     == <<name, temp, data, mode>>
serverVars == <<pc, at, authd, fd>>
clientVars == <<cpc, local, copying, swallowed>>
vars       == <<fsVars, serverVars, s2c, c2s, clientVars>>

\* What the two ends write to each other: directives, and blocks of content.
Content == [type : {"data"}, block : Block]
ToClient == [type : {"auth", "okay", "fail", "clientrun"}] \cup
            [type : {"bookout", "bookin"}, file : Files, size : Nat] \cup Content
ToHandler == [type : {"invoke", "auth"}] \cup [type : {"bookin"}, file : Files, size : Nat] \cup Content

Data(b) == [type |-> "data", block |-> b]
NoStream == [ino |-> Absent, pos |-> 0, left |-> 0, size |-> 0, mode |-> "kept", buf |-> <<>>]

BooksIn(h, f) == \E k \in 1 .. Len(Items[h]) : Items[h][k] = [op |-> "bookin", file |-> f]

BookingIn == {"inreply", "inrecv", "instat", "inrename", "inchmod", "inclose"}

Init ==
    /\ name = [f \in Files |-> IF f \in Missing THEN Absent ELSE f]
    /\ temp = [f \in Files |-> Absent]
    /\ data = [i \in Inodes |-> IF i \in Files THEN Original[i] ELSE <<>>]
    /\ mode = [i \in Inodes |-> IF i \in Files THEN "kept" ELSE "private"]
    /\ \E there \in Together :
         /\ pc = [h \in Sessions |-> IF h \in there THEN "request" ELSE "done"]
         /\ cpc = [h \in Sessions |-> IF h \in there THEN "start" ELSE "gone"]
    /\ at = [h \in Sessions |-> 1]
    /\ authd = [h \in Sessions |-> FALSE]
    /\ fd = [h \in Sessions |-> NoStream]
    /\ s2c = [h \in Sessions |-> <<>>]
    /\ c2s = [h \in Sessions |-> <<>>]
    /\ local = [h \in Sessions |-> [f \in Files |-> Absent]]
    /\ copying = [h \in Sessions |-> [file |-> Absent, left |-> 0]]
    /\ swallowed = [h \in Sessions |-> {}]

-------------------------------------------------------------------------------
(* Sockets, as the handler uses them. *)

Gone(h) == cpc[h] = "gone"
Closed(h) == pc[h] \in {"done", "killed", "torn"}

\* STREAMWriteLine and the like: what is written to a client that is gone is lost.
Send(h, msgs) ==
    s2c' = IF Gone(h) THEN s2c ELSE [s2c EXCEPT ![h] = @ \o msgs]

Receive(h) ==
    /\ c2s[h] # <<>>
    /\ c2s' = [c2s EXCEPT ![h] = Tail(@)]

\* The handler's read reports the end of the connection.
HangUp(h) == c2s[h] = <<>> /\ Gone(h)

\* The client waits for the handler and has nothing more to read.
ClientWaits(h) == cpc[h] \in {"read", "copy", "raw"} /\ s2c[h] = <<>>

\* 30 seconds passed without input: the client has nothing to send, or its user
\* is slow.
TimedOut(h) == c2s[h] = <<>> /\ ~ Gone(h) /\ (h \in Slow \/ ClientWaits(h))

NoAnswer(h) == HangUp(h) \/ TimedOut(h)

Goto(h, s) == pc' = [pc EXCEPT ![h] = s]
Advance(h, s) == Goto(h, s) /\ at' = [at EXCEPT ![h] = @ + 1]

-------------------------------------------------------------------------------
(* The handler: request and permission. *)

Request(h) ==
    /\ pc[h] = "request"
    /\ Receive(h)
    /\ IF h \in Granted THEN Goto(h, "items") ELSE Goto(h, "rules")
    /\ UNCHANGED <<at, authd, fd, fsVars, s2c, clientVars>>

RequestFails(h) ==
    /\ pc[h] = "request"
    /\ NoAnswer(h)
    /\ Goto(h, "close")
    /\ UNCHANGED <<at, authd, fd, fsVars, s2c, c2s, clientVars>>

RuleInHand(h) == pc[h] = "rules" /\ at[h] <= Len(Rules[h])

\* A rule that holds of the peer; an auth rule asks only once.
RulePasses(h) ==
    /\ RuleInHand(h)
    /\ \/ Rules[h][at[h]] = "match"
       \/ Rules[h][at[h]] = "auth" /\ authd[h]
    /\ Advance(h, "rules")
    /\ UNCHANGED <<authd, fd, fsVars, s2c, c2s, clientVars>>

\* CheckAuth asks the client to authenticate and reads its requests.
AskAuth(h) ==
    /\ RuleInHand(h)
    /\ Rules[h][at[h]] = "auth"
    /\ ~ authd[h]
    /\ Send(h, <<[type |-> "auth"]>>)
    /\ Goto(h, "auth")
    /\ UNCHANGED <<at, authd, fd, fsVars, c2s, clientVars>>

\* HandleClientAuth answers every AUTH line; the loop reads on either way.
AuthLine(h) ==
    /\ pc[h] = "auth"
    /\ Receive(h)
    /\ authd' = [authd EXCEPT ![h] = @ \/ h \in AuthOK]
    /\ Send(h, <<[type |-> IF h \in AuthOK THEN "okay" ELSE "fail"]>>)
    /\ UNCHANGED <<pc, at, fd, fsVars, clientVars>>

\* Mutated form: the rule counts as passed whatever the answer was.
AuthEnds_IgnoresResult(h) ==
    /\ pc[h] = "auth"
    /\ NoAnswer(h)
    /\ Advance(h, "rules")
    /\ UNCHANGED <<authd, fd, fsVars, s2c, c2s, clientVars>>

\* Mutated form: a client that has not authenticated is asked again.
AuthEnds_AsksAgain(h) ==
    /\ pc[h] = "auth"
    /\ NoAnswer(h)
    /\ s2c[h] = <<>>
    /\ IF authd[h] THEN Advance(h, "rules") /\ UNCHANGED s2c
                   ELSE Send(h, <<[type |-> "auth"]>>) /\ UNCHANGED <<pc, at>>
    /\ UNCHANGED <<authd, fd, fsVars, c2s, clientVars>>

\* Only silence or the end of the connection ends the loop in CheckAuth.
AuthEnds(h) ==
    /\ pc[h] = "auth"
    /\ NoAnswer(h)
    /\ IF authd[h] THEN Advance(h, "rules") /\ UNCHANGED s2c
                   ELSE Goto(h, "close") /\ UNCHANGED at /\ Send(h, <<[type |-> "fail"]>>)
    /\ UNCHANGED <<authd, fd, fsVars, c2s, clientVars>>

\* A rule that does not hold, or an entry without any: FAIL: Not authorized.
Refuse(h) ==
    /\ \/ RuleInHand(h) /\ Rules[h][at[h]] = "mismatch"
       \/ pc[h] = "rules" /\ Rules[h] = <<>>
    /\ Send(h, <<[type |-> "fail"]>>)
    /\ Goto(h, "close")
    /\ UNCHANGED <<at, authd, fd, fsVars, c2s, clientVars>>

Permit(h) ==
    /\ pc[h] = "rules"
    /\ Rules[h] # <<>>
    /\ at[h] > Len(Rules[h])
    /\ pc' = [pc EXCEPT ![h] = "items"]
    /\ at' = [at EXCEPT ![h] = 1]
    /\ UNCHANGED <<authd, fd, fsVars, s2c, c2s, clientVars>>

-------------------------------------------------------------------------------
(* The handler: RunInvokeCommand, one item after the other. *)

AtItem(h, op) ==
    /\ pc[h] = "items"
    /\ at[h] <= Len(Items[h])
    /\ Items[h][at[h]].op = op

File(h) == Items[h][at[h]].file

\* A failed requirement ends the session without a word to the client.
Require(h) ==
    /\ AtItem(h, "require")
    /\ \/ Advance(h, "items")
       \/ Goto(h, "close") /\ UNCHANGED at
    /\ UNCHANGED <<authd, fd, fsVars, s2c, c2s, clientVars>>

ClientRunLine(h) ==
    /\ AtItem(h, "clientrun")
    /\ Send(h, <<[type |-> "clientrun"]>>)
    /\ Advance(h, "items")
    /\ UNCHANGED <<authd, fd, fsVars, c2s, clientVars>>

\* RunCommand: output after an OKAY line, a FAIL line, or nothing at all when
\* an argument is too long; the next item follows in every case.
Run(h) ==
    /\ AtItem(h, "run")
    /\ \/ Send(h, <<[type |-> "okay"], Data(Output)>>)
       \/ Send(h, <<[type |-> "fail"]>>)
       \/ UNCHANGED s2c
    /\ Advance(h, "items")
    /\ UNCHANGED <<authd, fd, fsVars, c2s, clientVars>>

EndOfItems(h) ==
    /\ pc[h] = "items"
    /\ at[h] > Len(Items[h])
    /\ Goto(h, "close")
    /\ UNCHANGED <<at, authd, fd, fsVars, s2c, c2s, clientVars>>

\* STREAMClose and _exit; both directions of the socket end.
CloseSession(h) ==
    /\ pc[h] = "close"
    /\ Goto(h, "done")
    /\ UNCHANGED <<at, authd, fd, fsVars, s2c, c2s, clientVars>>

-------------------------------------------------------------------------------
(* The handler: BookoutFileToClient. *)

\* stat(Path): a file that is not there is not sent, and nothing else is.
OutStat(h) ==
    /\ AtItem(h, "bookout")
    /\ IF name[File(h)] = Absent
         THEN Advance(h, "items") /\ UNCHANGED fd
         ELSE /\ Goto(h, "outopen")
              /\ fd' = [fd EXCEPT ![h] = [NoStream EXCEPT !.size = Len(data[name[File(h)]])]]
              /\ UNCHANGED at
    /\ UNCHANGED <<authd, fsVars, s2c, c2s, clientVars>>

\* STREAMOpen(Path), then the header with the size stat reported.
OutOpen(h) ==
    /\ pc[h] = "outopen"
    /\ fd' = [fd EXCEPT ![h].ino = name[File(h)]]
    /\ Send(h, <<[type |-> "bookout", file |-> File(h), size |-> fd[h].size]>>)
    /\ Goto(h, "outsend")
    /\ UNCHANGED <<at, authd, fsVars, c2s, clientVars>>

\* The file is there but cannot be opened: no header either, and the next item.
OutOpenFails(h) ==
    /\ pc[h] = "outopen"
    /\ File(h) \in Unopenable
    /\ fd' = [fd EXCEPT ![h] = NoStream]
    /\ Advance(h, "items")
    /\ UNCHANGED <<authd, fsVars, s2c, c2s, clientVars>>

\* STREAMSendFile with no limit: blocks until the end of the file, whatever the
\* header said, or until a write fails.
OutSend(h) ==
    /\ pc[h] = "outsend"
    /\ IF fd[h].pos < Len(data[fd[h].ino]) /\ ~ Gone(h)
         THEN /\ Send(h, <<Data(data[fd[h].ino][fd[h].pos + 1])>>)
              /\ fd' = [fd EXCEPT ![h].pos = @ + 1]
              /\ UNCHANGED <<pc, at>>
         ELSE /\ fd' = [fd EXCEPT ![h] = NoStream]
              /\ Advance(h, "items")
              /\ UNCHANGED s2c
    /\ UNCHANGED <<authd, fsVars, c2s, clientVars>>

-------------------------------------------------------------------------------
(* The handler: BookinFileFromClient. *)

\* Content with block b at offset p, as write(2) leaves it.
WriteAt(content, p, b) ==
    [k \in 1 .. (IF p < Len(content) THEN Len(content) ELSE p + 1) |->
        IF k = p + 1 THEN b ELSE IF k <= Len(content) THEN content[k] ELSE Hole]

\* Mutated form: the file is opened itself, and written in place.
InOpen_InPlace(h) ==
    /\ AtItem(h, "bookin")
    /\ LET f == File(h)
           i == IF name[f] = Absent THEN <<h, at[h]>> ELSE name[f]
       IN  /\ name' = [name EXCEPT ![f] = i]
           /\ data' = [data EXCEPT ![i] = <<>>]
           /\ fd' = [fd EXCEPT ![h] = [NoStream EXCEPT !.ino = i]]
           /\ Send(h, <<[type |-> "bookin", file |-> f, size |-> 0]>>)
    /\ Goto(h, "inreply")
    /\ UNCHANGED <<at, authd, temp, mode, c2s, clientVars>>

\* STREAMOpen(Path+, "w") creates the file with mode 0600 or truncates the one
\* that is there, and the directive goes out.
InOpen(h) ==
    /\ AtItem(h, "bookin")
    /\ LET f == File(h)
           i == IF temp[f] = Absent THEN <<h, at[h]>> ELSE temp[f]
       IN  /\ temp' = [temp EXCEPT ![f] = i]
           /\ data' = [data EXCEPT ![i] = <<>>]
           /\ fd' = [fd EXCEPT ![h] = [NoStream EXCEPT !.ino = i]]
           /\ Send(h, <<[type |-> "bookin", file |-> f, size |-> 0]>>)
    /\ Goto(h, "inreply")
    /\ UNCHANGED <<at, authd, name, mode, c2s, clientVars>>

\* Path+ cannot be opened: the client is not asked, and the next item follows.
InOpenFails(h) ==
    /\ AtItem(h, "bookin")
    /\ File(h) \in Unopenable
    /\ Advance(h, "items")
    /\ UNCHANGED <<authd, fd, fsVars, s2c, c2s, clientVars>>

\* Mutated form: one block less than announced is taken.
InReply_OffByOne(h) ==
    /\ pc[h] = "inreply"
    /\ Receive(h)
    /\ Head(c2s[h]).type = "bookin"
    /\ LET n == IF Head(c2s[h]).size > 0 THEN Head(c2s[h]).size - 1 ELSE 0 IN
         /\ fd' = [fd EXCEPT ![h].left = n]
         /\ Goto(h, IF n > 0 THEN "inrecv" ELSE "instat")
    /\ UNCHANGED <<at, authd, fsVars, s2c, clientVars>>

\* The reply's first token is "bookin": its size counts, its name is not read.
InReply(h) ==
    /\ pc[h] = "inreply"
    /\ Receive(h)
    /\ Head(c2s[h]).type = "bookin"
    /\ fd' = [fd EXCEPT ![h].left = Head(c2s[h]).size]
    /\ Goto(h, IF Head(c2s[h]).size > 0 THEN "inrecv" ELSE "instat")
    /\ UNCHANGED <<at, authd, fsVars, s2c, clientVars>>

\* Mutated form: it is Path that is unlinked.
InAbort_UnlinksTarget(h) ==
    /\ pc[h] = "inreply"
    /\ \/ Receive(h) /\ Head(c2s[h]).type # "bookin"
       \/ NoAnswer(h) /\ UNCHANGED c2s
    /\ name' = [name EXCEPT ![File(h)] = Absent]
    /\ fd' = [fd EXCEPT ![h] = NoStream]
    /\ Advance(h, "items")
    /\ UNCHANGED <<authd, temp, data, mode, s2c, clientVars>>

\* Mutated form: the temporary file is left behind.
InAbort_KeepsTemp(h) ==
    /\ pc[h] = "inreply"
    /\ \/ Receive(h) /\ Head(c2s[h]).type # "bookin"
       \/ NoAnswer(h) /\ UNCHANGED c2s
    /\ fd' = [fd EXCEPT ![h] = NoStream]
    /\ Advance(h, "items")
    /\ UNCHANGED <<authd, fsVars, s2c, clientVars>>

\* Any other line, silence or the end of the connection: unlink(Path+).
InAbort(h) ==
    /\ pc[h] = "inreply"
    /\ \/ Receive(h) /\ Head(c2s[h]).type # "bookin"
       \/ NoAnswer(h) /\ UNCHANGED c2s
    /\ temp' = [temp EXCEPT ![File(h)] = Absent]
    /\ fd' = [fd EXCEPT ![h] = NoStream]
    /\ Advance(h, "items")
    /\ UNCHANGED <<authd, name, data, mode, s2c, clientVars>>

\* What a message is as file content.
AsBlock(m) == IF m.type = "data" THEN m.block ELSE Text

\* STREAMSendFile up to the announced size: full blocks are written, the last
\* one stays in the stream's buffer.  A timeout changes nothing.
InReceive(h) ==
    /\ pc[h] = "inrecv"
    /\ Receive(h)
    /\ LET b == AsBlock(Head(c2s[h])) IN
       IF fd[h].left > 1
         THEN /\ data' = [data EXCEPT ![fd[h].ino] = WriteAt(@, fd[h].pos, b)]
              /\ fd' = [fd EXCEPT ![h].pos = @ + 1, ![h].left = @ - 1]
              /\ UNCHANGED pc
         ELSE /\ fd' = [fd EXCEPT ![h].buf = <<b>>, ![h].left = 0]
              /\ Goto(h, "instat")
              /\ UNCHANGED data
    /\ UNCHANGED <<at, authd, name, temp, mode, s2c, clientVars>>

\* The connection ends early: STREAMSendFile returns, and its result is not
\* looked at.
InReceiveEnds(h) ==
    /\ pc[h] = "inrecv"
    /\ HangUp(h)
    /\ Goto(h, "instat")
    /\ UNCHANGED <<at, authd, fd, fsVars, s2c, c2s, clientVars>>

\* Mutated form: the permissions are taken from Path+.
InStat_OfTemp(h) ==
    /\ pc[h] = "instat"
    /\ fd' = [fd EXCEPT ![h].mode = IF temp[File(h)] = Absent THEN "garbage"
                                    ELSE mode[temp[File(h)]]]
    /\ Goto(h, "inrename")
    /\ UNCHANGED <<at, authd, fsVars, s2c, c2s, clientVars>>

\* stat(Path) for the permissions; if it fails, Stat is whatever it was.
InStat(h) ==
    /\ pc[h] = "instat"
    /\ fd' = [fd EXCEPT ![h].mode = IF name[File(h)] = Absent THEN "garbage"
                                    ELSE mode[name[File(h)]]]
    /\ Goto(h, "inrename")
    /\ UNCHANGED <<at, authd, fsVars, s2c, c2s, clientVars>>

\* rename(Path+, Path), which fails if another session has taken Path+ away.
InRename(h) ==
    /\ pc[h] = "inrename"
    /\ IF temp[File(h)] = Absent THEN UNCHANGED <<name, temp>>
       ELSE /\ name' = [name EXCEPT ![File(h)] = temp[File(h)]]
            /\ temp' = [temp EXCEPT ![File(h)] = Absent]
    /\ Goto(h, "inchmod")
    /\ UNCHANGED <<at, authd, fd, data, mode, s2c, c2s, clientVars>>

\* chmod and chown of whatever Path now is.
InChmod(h) ==
    /\ pc[h] = "inchmod"
    /\ mode' = IF name[File(h)] = Absent THEN mode
               ELSE [mode EXCEPT ![name[File(h)]] = fd[h].mode]
    /\ Goto(h, "inclose")
    /\ UNCHANGED <<at, authd, fd, name, temp, data, s2c, c2s, clientVars>>

\* Mutated form: the stream is closed without its buffer being written.
InClose_NoFlush(h) ==
    /\ pc[h] = "inclose"
    /\ fd' = [fd EXCEPT ![h] = NoStream]
    /\ Advance(h, "items")
    /\ UNCHANGED <<authd, fsVars, s2c, c2s, clientVars>>

\* STREAMClose writes the buffered tail: only now is the file complete.
InClose(h) ==
    /\ pc[h] = "inclose"
    /\ data' = IF fd[h].buf = <<>> THEN data
               ELSE [data EXCEPT ![fd[h].ino] = WriteAt(@, fd[h].pos, Head(fd[h].buf))]
    /\ fd' = [fd EXCEPT ![h] = NoStream]
    /\ Advance(h, "items")
    /\ UNCHANGED <<authd, name, temp, mode, s2c, c2s, clientVars>>

\* The handler is killed where it stands: the kernel closes its files and its
\* socket, and what was still in a stream's buffer is lost.  "torn" remembers
\* that the file was already in place but not complete.
HandlerKilled(h) ==
    /\ h \in Killable
    /\ ~ Closed(h)
    /\ Goto(h, IF pc[h] \in {"inchmod", "inclose"} THEN "torn" ELSE "killed")
    /\ UNCHANGED <<at, authd, fd, fsVars, s2c, c2s, clientVars>>

-------------------------------------------------------------------------------
(* The client. *)

\* What the client writes to a handler that has closed kills it (SIGPIPE).
Reply(h, msgs, next) ==
    IF Closed(h)
      THEN cpc' = [cpc EXCEPT ![h] = "gone"] /\ UNCHANGED c2s
      ELSE cpc' = [cpc EXCEPT ![h] = next] /\ c2s' = [c2s EXCEPT ![h] = @ \o msgs]

ClientStart(h) ==
    /\ cpc[h] = "start"
    /\ Reply(h, <<[type |-> "invoke"]>>, "read")
    /\ UNCHANGED <<local, copying, swallowed, serverVars, fsVars, s2c>>

\* Reads one line (or one block of text that is no directive).
NextLine(h, type) ==
    /\ cpc[h] = "read"
    /\ s2c[h] # <<>>
    /\ Head(s2c[h]).type = type
    /\ s2c' = [s2c EXCEPT ![h] = Tail(@)]

\* ClientBookoutFile: opens its copy, then takes as much as was announced; if
\* it cannot open it, the content stays to be read as lines.
ClientBookout(h) ==
    /\ NextLine(h, "bookout")
    /\ LET m == Head(s2c[h]) IN
       IF h \in ReadOnlyDir THEN UNCHANGED <<cpc, local, copying>>
       ELSE /\ local' = [local EXCEPT ![h][m.file] = <<>>]
            /\ copying' = [copying EXCEPT ![h] = [file |-> m.file, left |-> m.size]]
            /\ cpc' = [cpc EXCEPT ![h] = IF m.size > 0 THEN "copy" ELSE "read"]
    /\ UNCHANGED <<swallowed, serverVars, fsVars, c2s>>

\* Mutated form: one block more than announced is taken.
ClientCopy_OffByOne(h) ==
    /\ cpc[h] = "copy"
    /\ s2c[h] # <<>>
    /\ s2c' = [s2c EXCEPT ![h] = Tail(@)]
    /\ local' = [local EXCEPT ![h][copying[h].file] = Append(@, AsBlock(Head(s2c[h])))]
    /\ copying' = [copying EXCEPT ![h].left = @ - 1]
    /\ cpc' = [cpc EXCEPT ![h] = IF copying[h].left = 0 THEN "read" ELSE "copy"]
    /\ UNCHANGED <<swallowed, serverVars, fsVars, c2s>>

ClientCopy(h) ==
    /\ cpc[h] = "copy"
    /\ s2c[h] # <<>>
    /\ s2c' = [s2c EXCEPT ![h] = Tail(@)]
    /\ local' = [local EXCEPT ![h][copying[h].file] = Append(@, AsBlock(Head(s2c[h])))]
    /\ copying' = [copying EXCEPT ![h].left = @ - 1]
    /\ cpc' = [cpc EXCEPT ![h] = IF copying[h].left = 1 THEN "read" ELSE "copy"]
    /\ UNCHANGED <<swallowed, serverVars, fsVars, c2s>>

\* ClientBookinFile: a header with the size of its copy, and the content if the
\* uninitialised Size happens not to be 0; no answer at all without a copy.
ClientBookin(h) ==
    /\ NextLine(h, "bookin")
    /\ LET f == Head(s2c[h]).file
           n == Len(local[h][f])
       IN  IF local[h][f] = Absent THEN UNCHANGED <<cpc, c2s, copying>>
           ELSE /\ \E nonzero \in SizeGarbage :
                     Reply(h, <<[type |-> "bookin", file |-> f, size |-> n]>>,
                           IF nonzero /\ n > 0 THEN "upload" ELSE "read")
                /\ copying' = [copying EXCEPT ![h] = [file |-> f, left |-> n]]
    /\ UNCHANGED <<local, swallowed, serverVars, fsVars>>

\* STREAMSendFile of the copy, a block at a time.
ClientUpload(h) ==
    /\ cpc[h] = "upload"
    /\ LET content == local[h][copying[h].file] IN
       Reply(h, <<Data(content[Len(content) + 1 - copying[h].left])>>,
             IF copying[h].left = 1 THEN "read" ELSE "upload")
    /\ copying' = [copying EXCEPT ![h].left = @ - 1]
    /\ UNCHANGED <<local, swallowed, serverVars, fsVars, s2c>>

ClientRunBegins(h) ==
    /\ NextLine(h, "clientrun")
    /\ cpc' = [cpc EXCEPT ![h] = "run"]
    /\ UNCHANGED <<local, copying, swallowed, serverVars, fsVars, c2s>>

\* The program the client runs ends, having edited some of the copies or made
\* some of the files that were not booked out.  What other files it makes, the
\* session does not see.
ClientRunEnds(h) ==
    /\ cpc[h] = "run"
    /\ \E F \in SUBSET {f \in Files : BooksIn(h, f) /\ (local[h][f] # Absent \/ h \notin ReadOnlyDir)} :
          local' = [local EXCEPT ![h] = [f \in Files |-> IF f \in F THEN Edited[h][f] ELSE @[f]]]
    /\ cpc' = [cpc EXCEPT ![h] = "read"]
    /\ UNCHANGED <<copying, swallowed, serverVars, fsVars, s2c, c2s>>

ClientAuthBegins(h) ==
    /\ NextLine(h, "auth")
    /\ cpc' = [cpc EXCEPT ![h] = "prompt"]
    /\ UNCHANGED <<local, copying, swallowed, serverVars, fsVars, c2s>>

\* The user has typed the password.
ClientAuthEnds(h) ==
    /\ cpc[h] = "prompt"
    /\ Reply(h, <<[type |-> "auth"]>>, "read")
    /\ UNCHANGED <<local, copying, swallowed, serverVars, fsVars, s2c>>

\* "okay:" of any kind: all that follows is copied to standard output.
ClientOkay(h) ==
    /\ NextLine(h, "okay")
    /\ cpc' = [cpc EXCEPT ![h] = "raw"]
    /\ UNCHANGED <<local, copying, swallowed, serverVars, fsVars, c2s>>

ClientRaw(h) ==
    /\ cpc[h] = "raw"
    /\ s2c[h] # <<>>
    /\ swallowed' = [swallowed EXCEPT ![h] = @ \cup {Head(s2c[h]).type}]
    /\ s2c' = [s2c EXCEPT ![h] = Tail(@)]
    /\ UNCHANGED <<cpc, local, copying, serverVars, fsVars, c2s>>

\* Everything else is printed.
ClientPrint(h) ==
    /\ NextLine(h, "fail") \/ NextLine(h, "data")
    /\ UNCHANGED <<clientVars, serverVars, fsVars, c2s>>

\* End of file ends whatever read it, and the program.
ClientEnd(h) ==
    /\ cpc[h] \in {"read", "copy", "raw"}
    /\ s2c[h] = <<>>
    /\ Closed(h)
    /\ cpc' = [cpc EXCEPT ![h] = "gone"]
    /\ UNCHANGED <<local, copying, swallowed, serverVars, fsVars, s2c, c2s>>

\* The client is interrupted; what it has sent can still be read.
ClientQuit(h) ==
    /\ h \in Mortal
    /\ ~ Gone(h)
    /\ cpc' = [cpc EXCEPT ![h] = "gone"]
    /\ s2c' = [s2c EXCEPT ![h] = <<>>]
    /\ UNCHANGED <<local, copying, swallowed, serverVars, fsVars, c2s>>

-------------------------------------------------------------------------------

Handler(h) ==
    \/ Request(h) \/ RequestFails(h)
    \/ RulePasses(h) \/ AskAuth(h) \/ AuthLine(h) \/ AuthEnds(h) \/ Refuse(h) \/ Permit(h)
    \/ Require(h) \/ ClientRunLine(h) \/ Run(h) \/ EndOfItems(h) \/ CloseSession(h)
    \/ OutStat(h) \/ OutOpen(h) \/ OutOpenFails(h) \/ OutSend(h)
    \/ InOpen(h) \/ InOpenFails(h) \/ InReply(h) \/ InAbort(h) \/ InReceive(h) \/ InReceiveEnds(h)
    \/ InStat(h) \/ InRename(h) \/ InChmod(h) \/ InClose(h)

Client(h) ==
    \/ ClientStart(h) \/ ClientBookout(h) \/ ClientCopy(h) \/ ClientBookin(h) \/ ClientUpload(h)
    \/ ClientRunBegins(h) \/ ClientRunEnds(h) \/ ClientAuthBegins(h) \/ ClientAuthEnds(h)
    \/ ClientOkay(h) \/ ClientRaw(h) \/ ClientPrint(h) \/ ClientEnd(h)

Finished(h) == Closed(h) /\ Gone(h)

\* All sessions are over; a state from which nothing else is possible is a deadlock.
AllFinished == (\A h \in Sessions : Finished(h)) /\ UNCHANGED vars

Next ==
    \/ \E h \in Sessions : Handler(h) \/ Client(h) \/ ClientQuit(h) \/ HandlerKilled(h)
    \/ AllFinished

Spec == Init /\ [][Next]_vars

\* Both processes are scheduled, the 30 seconds of a read pass, and the user's
\* editor and password prompt come to an end.  Nothing obliges anyone to
\* interrupt the client or to kill the handler.
FairSpec == Spec /\ \A h \in Sessions : WF_vars(Handler(h)) /\ WF_vars(Client(h))

-------------------------------------------------------------------------------

\* One type invariant for the module.
TypeOK ==
    /\ name \in [Files -> Inodes \cup {Absent}]
    /\ temp \in [Files -> Inodes \cup {Absent}]
    /\ data \in [Inodes -> Seq(Block)]
    /\ mode \in [Inodes -> {"kept", "private", "garbage"}]
    /\ pc \in [Sessions -> {"request", "rules", "auth", "items", "close", "done",
                            "killed", "torn", "outopen", "outsend"} \cup BookingIn]
    /\ at \in [Sessions -> Nat \ {0}]
    /\ authd \in [Sessions -> BOOLEAN]
    /\ fd \in [Sessions -> [ino : Inodes \cup {Absent}, pos : Nat, left : Nat, size : Nat,
                            mode : {"kept", "private", "garbage"}, buf : Seq(Block)]]
    /\ s2c \in [Sessions -> Seq(ToClient)]
    /\ c2s \in [Sessions -> Seq(ToHandler)]
    /\ cpc \in [Sessions -> {"start", "read", "copy", "upload", "raw", "run", "prompt", "gone"}]
    /\ local \in [Sessions -> [Files -> Seq(Block) \cup {Absent}]]
    /\ copying \in [Sessions -> [file : Files \cup {Absent}, left : Nat]]
    /\ swallowed \in [Sessions -> SUBSET {"auth", "okay", "fail", "clientrun", "bookout", "bookin", "data"}]

\* CheckPermission: items are carried out only for a program with a grant or
\* when there are rules and every one of them holds, an auth rule by a
\* successful authentication in this very session.
OnlyPermittedRun ==
    \A h \in Sessions :
        pc[h] \in BookingIn \cup {"items", "outopen", "outsend"} =>
            \/ h \in Granted
            \/ /\ Rules[h] # <<>>
               /\ \A k \in 1 .. Len(Rules[h]) :
                    \/ Rules[h][k] = "match"
                    \/ Rules[h][k] = "auth" /\ authd[h] /\ h \in AuthOK

\* BookinFileFromClient never removes the file it replaces: whatever sessions
\* interleave, give up or lose their clients, a file that existed exists.
NeverMissing == \A f \in Files \ Missing : name[f] # Absent

\* Every Path+ has a session between its open and its rename or unlink: only a
\* handler killed at that item leaves one behind, although sessions share the
\* name and unlink or rename each other's.
TempOwned ==
    \A f \in Files : temp[f] # Absent =>
        \E h \in Sessions : /\ pc[h] \in {"inreply", "inrecv", "instat", "inrename", "killed"}
                            /\ at[h] <= Len(Items[h])
                            /\ Items[h][at[h]] = [op |-> "bookin", file |-> f]

Versions(f) == {Original[f]} \cup {Edited[h][f] : h \in Sessions}

Writes(h, i) == pc[h] \in BookingIn \cup {"torn"} /\ fd[h].ino = i

\* While no session has it open for writing a file holds the original or one
\* user's edit of it, whole; a killed handler spoils that only when it dies
\* between the rename and the close, where the file is in place without its
\* last block.
Whole(f) ==
    name[f] # Absent /\ (\A h \in Sessions : ~ Writes(h, name[f])) => data[name[f]] \in Versions(f)

WholeVersions == \A f \in Files : Whole(f)

Unshared == {f \in Files : \A g, h \in Sessions : BooksIn(g, f) /\ BooksIn(h, f) => g = h}

\* So it is, whatever else is killed, interrupted or late, for a file that no two
\* sessions book in, when the user who edits it answers in time and does not
\* interrupt the upload.
Steady == {f \in Unshared : \A h \in Slow \cup Mortal : ~ BooksIn(h, f)}

UnsharedWhole == \A f \in Steady : Whole(f)

\* The blocks of all versions of the other files.
Foreign == [f \in Files |->
    UNION {{v[j] : j \in DOMAIN v} : v \in UNION {Versions(g) : g \in Files \ {f}}}]

\* The reply to one bookin is not taken for the reply to another, whose name is not
\* looked at: no file receives another file's content, although a directive may
\* go out for which the client has no copy and sends nothing.
FilesDoNotMix ==
    \A f \in Files : name[f] # Absent =>
        \A k \in 1 .. Len(data[name[f]]) : data[name[f]][k] \notin Foreign[f]

\* A file that no two sessions book in keeps its permissions: the 0600 of Path+
\* shows only between the rename and the chmod, or when the handler is killed there.
ModeKept ==
    \A f \in Unshared \ Missing :
        (\A h \in Sessions : pc[h] \in {"inchmod", "torn"} => File(h) # f) => mode[name[f]] = "kept"

\* Directives are acted on: none is taken for a command's output and copied to
\* the client's standard output.
DirectivesActedOn ==
    \A h \in Sessions :
        swallowed[h] \cap {"bookout", "bookin", "clientrun", "auth"} = {}

\* An edit of a booked-out file that the entry books in again ends up in place, if
\* the handler can open Path+ - as README.md:235 has it - and, in this code, if the
\* user is done before the handler's 30 seconds are over.
EditsComeBack ==
    \A h \in Sessions, f \in Files \ Unopenable :
        BooksIn(h, f) =>
            (local[h][f] = Edited[h][f] ~> name[f] # Absent /\ data[name[f]] = Edited[h][f])

\* Every session ends: the handler's read limit breaks every wait of both ends
\* on each other.
EverySessionEnds == \A h \in Sessions : <>Finished(h)

-------------------------------------------------------------------------------
(* The sessions implement BookInOut: a file's content is what its inode holds *)
(* once the tail still in a handler's buffer is written, and a copy counts    *)
(* when it is complete.                                                       *)

Tails(i) == {h \in Sessions : pc[h] \in {"inchmod", "inclose"} /\ fd[h].ino = i /\ fd[h].buf # <<>>}

Effective(f) ==
    IF name[f] = Absent THEN Absent
    ELSE LET i == name[f] IN
         IF Tails(i) = {} THEN data[i]
         ELSE LET h == CHOOSE h \in Tails(i) : TRUE
              IN  WriteAt(data[i], fd[h].pos, Head(fd[h].buf))

Abstract == INSTANCE BookInOut WITH
    content <- [f \in Files |-> Effective(f)],
    copy <- [h \in Sessions |-> [f \in Files |->
                IF cpc[h] = "copy" /\ copying[h].file = f THEN Absent ELSE local[h][f]]]

\* Every session's steps are book-outs, edits and book-ins of whole files.
BookedAtomically == Abstract!Spec
===============================================================================
