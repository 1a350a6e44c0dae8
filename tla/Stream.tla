-------------------------------- MODULE Stream --------------------------------
(***************************************************************************)
(* One direction of a connection between two STREAMs of libUseful          *)
(* (libUseful-4/Stream.c): the writer's output buffer, what the kernel     *)
(* holds, and the reader's input buffer.  The writer writes lines, copies  *)
(* files and relays a command's output; the reader reads lines, bytes, or  *)
(* copies to a file.  Bytes are numbered in the order they are written.    *)
(***************************************************************************)
EXTENDS Naturals, Sequences

CONSTANTS
    OutSize, InSize,    \* BuffSize of the writer's and of the reader's stream
    Capacity,           \* bytes the kernel holds
    Programs,           \* sequences of write operations
    Readers,            \* sequences of read operations, the last is repeated
    Modes               \* see Mode

Mode == [flush  : {"always", "line", "full"},   \* the writer's flush type
         slow   : BOOLEAN,      \* its Timeout is set, and may pass
         rtimed : BOOLEAN,      \* the same of the reader
         quits  : BOOLEAN]      \* the reader may leave at any time

\* A write operation, with the first and the last of its bytes.
WriteOp == [op : {"line", "send", "relay"}, from : Nat \ {0}, upto : Nat \ {0}]
ReadOp  == [op : {"line", "copy"}, n : Nat] \cup [op : {"bytes"}, n : Nat \ {0}]

Numbered(p) ==
    \A k \in DOMAIN p : /\ p[k].from = IF k = 1 THEN 1 ELSE p[k - 1].upto + 1
                        /\ p[k].from <= p[k].upto

ASSUME StreamAssumption ==
    /\ OutSize \in Nat \ {0} /\ InSize \in Nat \ {0} /\ Capacity \in Nat \ {0}
    /\ Programs \subseteq Seq(WriteOp) /\ \A p \in Programs : Numbered(p)
    /\ Readers \subseteq Seq(ReadOp) \ {<<>>}
    /\ Modes \subseteq Mode

VARIABLES
    mode, prog, reads, term,    \* the instance; term: the bytes that are line ends
    wpc, wi, left,      \* the writer's place, operation, and bytes of it still to come
    ret,                \* what follows STREAMInternalFinalWriteBytes
    next,               \* the number of the byte written next
    obuf,               \* OutputBuff up to OutEnd
    sock,               \* what the kernel holds
    ibuf, start,        \* InputBuff up to InEnd, and InStart
    rpc, ri, acc,       \* the reader's place, operation and what it has read of it
    eof,                \* IsClosed of STREAMReadToTerminator
    last,               \* the result of the last read operation
    got,                \* history: the bytes that read operations have returned
    failed              \* history: a write has failed

instance == <<mode, prog, reads, term>>
writer == <<wpc, wi, left, ret, next, obuf, failed>>
reader == <<ibuf, start, rpc, ri, acc, eof, last, got>>
vars == <<instance, writer, sock, reader>>

Numbers(from, to) == [i \in 1 .. to - from |-> from + i - 1]
Members(s) == {s[i] : i \in DOMAIN s}
Drop(s, n) == SubSeq(s, n + 1, Len(s))
Least(a, b) == IF a < b THEN a ELSE b

OfOp(k) == prog[k].from .. prog[k].upto
Total == IF prog = <<>> THEN 0 ELSE prog[Len(prog)].upto
Bytes == 1 .. Total
Lines == {k \in DOMAIN prog : prog[k].op = "line"}
LineBytes == UNION {OfOp(k) : k \in Lines}

Init ==
    /\ mode \in Modes /\ prog \in Programs /\ reads \in Readers
    /\ \E inner \in SUBSET (Bytes \ LineBytes) : term = inner \cup {prog[k].upto : k \in Lines}
    /\ wpc = "op" /\ wi = 1 /\ left = 0 /\ ret = "none" /\ next = 1
    /\ obuf = <<>> /\ sock = <<>> /\ ibuf = <<>> /\ start = 0
    /\ rpc = "op" /\ ri = 1 /\ acc = <<>> /\ eof = FALSE
    /\ last = [op |-> "none"] /\ got = {} /\ failed = FALSE

-------------------------------------------------------------------------------
(* The writer. *)

Op == prog[wi].op
Full == Len(obuf) >= OutSize
Room == Capacity - Len(sock)

BeginOp ==
    /\ wpc = "op" /\ wi <= Len(prog)
    /\ left' = prog[wi].upto - prog[wi].from + 1
    /\ wpc' = IF Op = "line" THEN "queue" ELSE "send"
    /\ UNCHANGED <<instance, wi, ret, next, obuf, failed, sock, reader>>

\* STREAMInternalFinalWriteBytes is called, and then goes on at r.
FinalWrite(r) == wpc' = "select" /\ ret' = r
NextOp == wpc' = "op" /\ wi' = wi + 1

\* The end of STREAMWriteLine (which flushes), or of a turn in STREAMSendFile.
Queued ==
    CASE Op = "line" /\ mode.flush = "line" /\ obuf' # <<>> -> FinalWrite("flush") /\ UNCHANGED wi
      [] Op = "line" /\ ~ (mode.flush = "line" /\ obuf' # <<>>) -> NextOp /\ UNCHANGED ret
      [] Op = "relay" /\ obuf' # <<>> -> FinalWrite("turn") /\ UNCHANGED wi
      [] Op = "send" \/ (Op = "relay" /\ obuf' = <<>>) -> wpc' = "send" /\ UNCHANGED <<wi, ret>>

\* STREAMInternalQueueBytes: k bytes are copied to the buffer, which is written
\* when it is full, or always.
QueueBytes(k) ==
    /\ obuf' = obuf \o Numbers(next, next + k)
    /\ next' = next + k /\ left' = left - k
    /\ IF obuf' # <<>> /\ (Len(obuf') >= OutSize \/ mode.flush = "always")
         THEN FinalWrite("queue") /\ UNCHANGED wi
         ELSE Queued

WriteLine ==
    /\ wpc = "queue"
    /\ QueueBytes(Least(OutSize - Len(obuf), left))
    /\ UNCHANGED <<instance, failed, sock, reader>>

\* A turn of STREAMSendFile.  How much the file's own buffer has is not modelled.
SendFile ==
    /\ wpc = "send" /\ left > 0 /\ ~ Full
    /\ \E k \in 1 .. Least(OutSize - Len(obuf), left) : QueueBytes(k)
    /\ UNCHANGED <<instance, failed, sock, reader>>

\* There is no room: some is made first.
SendFileRoom ==
    /\ wpc = "send" /\ left > 0 /\ Full
    /\ FinalWrite("turn")
    /\ UNCHANGED <<instance, wi, left, next, obuf, failed, sock, reader>>

\* STREAMFlush and the return of STREAMSendFile.
SendFileEnds ==
    /\ wpc = "send" /\ left = 0
    /\ IF obuf = <<>> THEN NextOp /\ UNCHANGED ret ELSE FinalWrite("flush") /\ UNCHANGED wi
    /\ UNCHANGED <<instance, left, next, obuf, failed, sock, reader>>

\* STREAMShutdown.
Close ==
    /\ wpc = "op" /\ wi > Len(prog)
    /\ IF obuf = <<>> THEN wpc' = "closed" /\ UNCHANGED ret ELSE FinalWrite("close")
    /\ UNCHANGED <<instance, wi, left, next, obuf, failed, sock, reader>>

\* What follows when the buffer has been written.
Return ==
    CASE ret = "queue" /\ Op = "line" /\ left > 0 -> wpc' = "queue" /\ UNCHANGED <<wi, ret>>
      [] ret = "queue" /\ ~ (Op = "line" /\ left > 0) -> Queued
      [] ret = "turn"  -> wpc' = "send" /\ UNCHANGED <<wi, ret>>
      [] ret = "flush" -> NextOp /\ UNCHANGED ret
      [] ret = "close" -> wpc' = "closed" /\ UNCHANGED <<wi, ret>>

\* write(2) blocks until the kernel has taken everything; only select has a limit.
Write ==
    /\ wpc \in {"select", "write"} /\ Room > 0 /\ rpc # "left"
    /\ LET k == Least(Room, Len(obuf)) IN
       /\ sock' = sock \o SubSeq(obuf, 1, k)
       /\ obuf' = Drop(obuf, k)
    /\ IF obuf' = <<>> THEN Return ELSE wpc' = "write" /\ UNCHANGED <<wi, ret>>
    /\ UNCHANGED <<instance, left, next, failed, reader>>

\* Mutated form: the buffer is discarded as if it had been written.
TimedOut_Discards ==
    /\ wpc = "select" /\ mode.slow /\ Room = 0 /\ rpc # "left"
    /\ failed' = TRUE
    /\ obuf' = <<>>
    /\ IF ret = "queue" /\ Op = "line"
         THEN next' = next + left /\ left' = 0
         ELSE UNCHANGED <<next, left>>
    /\ CASE ret = "queue" -> Queued
         [] ret = "turn"  -> wpc' = "send" /\ UNCHANGED <<wi, ret>>
         [] ret = "flush" -> NextOp /\ UNCHANGED ret
         [] ret = "close" -> wpc' = "closed" /\ UNCHANGED <<wi, ret>>
    /\ UNCHANGED <<instance, sock, reader>>

\* The Timeout passes in select.  The buffer is kept, to be written later, but
\* what is left of a line has no room in it and is dropped; nobody is told.
TimedOut ==
    /\ wpc = "select" /\ mode.slow /\ Room = 0 /\ rpc # "left"
    /\ failed' = TRUE
    /\ IF ret = "queue" /\ Op = "line"
         THEN next' = next + left /\ left' = 0
         ELSE UNCHANGED <<next, left>>
    /\ obuf' = IF ret = "close" THEN <<>> ELSE obuf
    /\ CASE ret = "queue" -> Queued
         [] ret = "turn"  -> wpc' = "send" /\ UNCHANGED <<wi, ret>>
         [] ret = "flush" -> NextOp /\ UNCHANGED ret
         [] ret = "close" -> wpc' = "closed" /\ UNCHANGED <<wi, ret>>
    /\ UNCHANGED <<instance, sock, reader>>

\* The reader has left: STREAM_CLOSED ends a line and a copy.
WriteFails ==
    /\ wpc \in {"select", "write"} /\ rpc = "left"
    /\ failed' = TRUE
    /\ IF ret = "close"
         THEN wpc' = "closed" /\ UNCHANGED <<wi, ret, next, left>>
         ELSE NextOp /\ next' = next + left /\ left' = 0 /\ UNCHANGED ret
    /\ UNCHANGED <<instance, obuf, sock, reader>>

-------------------------------------------------------------------------------
(* The reader. *)

Avail == Len(ibuf) - start
Rest == Drop(ibuf, start)
Ended == wpc = "closed" /\ sock = <<>>

\* Mutated form: bytes already taken are not left out when the rest is moved.
Compacted_Keeps ==
    IF Avail = 0 THEN <<>>
    ELSE IF 2 * start > InSize \/ (Len(ibuf) >= InSize /\ start > 0) THEN Drop(ibuf, start - 1)
    ELSE ibuf

\* InputBuff as STREAMReadCharsToBuffer arranges it before it reads.
Compacted ==
    IF Avail = 0 THEN <<>>
    ELSE IF 2 * start > InSize \/ (Len(ibuf) >= InSize /\ start > 0) THEN Rest
    ELSE ibuf
StartAfter == IF Len(Compacted) = Len(ibuf) /\ Avail > 0 THEN start ELSE 0

Arranged == ibuf' = Compacted /\ start' = StartAfter

\* Mutated form: what is in the buffer already is not taken into account.
Fill_WholeBuffer ==
    LET k == Least(InSize, Len(sock)) IN
    /\ sock # <<>> \/ Len(Compacted) >= InSize
    /\ ibuf' = Compacted \o SubSeq(sock, 1, k)
    /\ start' = StartAfter
    /\ sock' = Drop(sock, k)

\* STREAMReadCharsToBuffer returns with bytes, or at once when there is no room.
Fill ==
    LET k == Least(InSize - Len(Compacted), Len(sock)) IN
    /\ sock # <<>> \/ Len(Compacted) >= InSize
    /\ ibuf' = Compacted \o SubSeq(sock, 1, k)
    /\ start' = StartAfter
    /\ sock' = Drop(sock, k)

\* It returns STREAM_CLOSED or STREAM_TIMEOUT.
FillEnded == Ended /\ Len(Compacted) < InSize /\ Arranged /\ UNCHANGED sock
FillTimedOut ==
    mode.rtimed /\ sock = <<>> /\ ~ Ended /\ Len(Compacted) < InSize /\ Arranged /\ UNCHANGED sock

ReadsOp == reads[Least(ri, Len(reads))]

\* Up to n bytes go to the caller (STREAMTransferBytesOut).
Transfer(n) ==
    /\ acc' = acc \o SubSeq(Rest, 1, n)
    /\ start' = start + Least(n, Avail)
    /\ UNCHANGED ibuf

Returns(bytes, why) ==
    /\ last' = [op |-> ReadsOp.op, n |-> ReadsOp.n, bytes |-> bytes, why |-> why]
    /\ got' = got \cup Members(bytes)
    /\ acc' = <<>> /\ eof' = FALSE /\ ri' = Least(ri, Len(reads)) + 1
    /\ rpc' = IF why = "closed" THEN "done" ELSE "op"

BeginRead ==
    /\ rpc = "op"
    /\ rpc' = ReadsOp.op
    /\ UNCHANGED <<instance, writer, sock, ibuf, start, ri, acc, eof, last, got>>

Found == {i \in 1 .. Avail : Rest[i] \in term}
FirstFound == CHOOSE i \in Found : \A j \in Found : i <= j

\* STREAMReadToTerminator: the line end is in the buffer.
LineFound ==
    /\ rpc = "line" /\ Found # {}
    /\ start' = start + FirstFound
    /\ Returns(acc \o SubSeq(Rest, 1, FirstFound), "done")
    /\ UNCHANGED <<instance, writer, sock, ibuf>>

\* It is not, and the buffer is full or no more will come: what there is, is taken.
LinePart ==
    /\ rpc = "line" /\ Found = {} /\ Avail > 0
    /\ eof \/ (start = 0 /\ Len(ibuf) >= InSize)
    /\ Transfer(Avail)
    /\ UNCHANGED <<instance, writer, sock, rpc, ri, eof, last, got>>

LineWants == rpc = "line" /\ Found = {} /\ ~ eof /\ ~ (start = 0 /\ Len(ibuf) >= InSize)

LineFill ==
    /\ LineWants /\ Fill
    /\ UNCHANGED <<instance, writer, rpc, ri, acc, eof, last, got>>

LineEof ==
    /\ LineWants /\ FillEnded
    /\ eof' = TRUE
    /\ UNCHANGED <<instance, writer, rpc, ri, acc, last, got>>

LineTimedOut ==
    /\ LineWants /\ FillTimedOut
    /\ Returns(acc, "timeout")
    /\ UNCHANGED <<instance, writer>>

LineEnds ==
    /\ rpc = "line" /\ eof /\ Avail = 0
    /\ Returns(acc, "closed")
    /\ UNCHANGED <<instance, writer, sock, ibuf, start>>

\* STREAMReadBytes: the first bytes are waited for.
BytesFill ==
    /\ rpc = "bytes" /\ Avail = 0 /\ Fill
    /\ UNCHANGED <<instance, writer, rpc, ri, acc, eof, last, got>>

BytesNone ==
    /\ rpc = "bytes" /\ Avail = 0
    /\ \/ FillEnded /\ Returns(<<>>, "closed")
       \/ FillTimedOut /\ Returns(<<>>, "timeout")
    /\ UNCHANGED <<instance, writer>>

BytesTake ==
    /\ rpc = "bytes" /\ Avail > 0
    /\ LET n == Least(Avail, ReadsOp.n - Len(acc)) IN
       IF n = Avail
         THEN Transfer(n) /\ rpc' = "poll" /\ UNCHANGED <<ri, eof, last, got>>
         ELSE start' = start + n /\ Returns(acc \o SubSeq(Rest, 1, n), "done") /\ UNCHANGED ibuf
    /\ UNCHANGED <<instance, writer, sock>>

\* The buffer is empty: only what has come already is added, if it is wanted.
BytesPoll ==
    /\ rpc = "poll"
    /\ \/ Fill /\ IF Len(acc) < ReadsOp.n
                    THEN rpc' = "bytes" /\ UNCHANGED <<ri, acc, eof, last, got>>
                    ELSE Returns(acc, "done")
       \/ sock = <<>> /\ Returns(acc, "done") /\ (IF Ended THEN Arranged ELSE UNCHANGED <<ibuf, start>>)
            /\ UNCHANGED sock
    /\ UNCHANGED <<instance, writer>>

\* STREAMSendFile from the stream, n bytes or up to the end: what is missing is read first.
Wanted == IF ReadsOp.n = 0 THEN InSize ELSE ReadsOp.n - Len(acc)

CopyFill ==
    /\ rpc = "copy" /\ Avail < Wanted
    /\ Fill \/ FillTimedOut
    /\ rpc' = "copying"
    /\ UNCHANGED <<instance, writer, ri, acc, eof, last, got>>

CopyEof ==
    /\ rpc = "copy" /\ Avail < Wanted /\ FillEnded
    /\ IF Avail = 0 THEN Returns(acc, "closed") ELSE rpc' = "copying" /\ UNCHANGED <<ri, acc, eof, last, got>>
    /\ UNCHANGED <<instance, writer>>

\* Mutated form: the amount asked for is not looked at.
CopyMove_Unlimited ==
    /\ rpc = "copying" \/ (rpc = "copy" /\ Avail >= Wanted)
    /\ \E k \in (IF Avail = 0 THEN {0} ELSE 1 .. Avail) :
         /\ start' = start + k
         /\ IF ReadsOp.n > 0 /\ k >= Wanted
              THEN Returns(acc \o SubSeq(Rest, 1, k), "done")
              ELSE acc' = acc \o SubSeq(Rest, 1, k) /\ rpc' = "copy" /\ UNCHANGED <<ri, eof, last, got>>
    /\ UNCHANGED <<instance, writer, sock, ibuf>>

\* As much as the file's buffer has room for is moved.
CopyMove ==
    /\ rpc = "copying" \/ (rpc = "copy" /\ Avail >= Wanted)
    /\ \E k \in (IF Avail = 0 THEN {0} ELSE 1 .. Least(Avail, Wanted)) :
         /\ start' = start + k
         /\ IF ReadsOp.n > 0 /\ k = Wanted
              THEN Returns(acc \o SubSeq(Rest, 1, k), "done")
              ELSE acc' = acc \o SubSeq(Rest, 1, k) /\ rpc' = "copy" /\ UNCHANGED <<ri, eof, last, got>>
    /\ UNCHANGED <<instance, writer, sock, ibuf>>

ReaderLeaves ==
    /\ mode.quits /\ rpc = "op"
    /\ rpc' = "left"
    /\ UNCHANGED <<instance, writer, sock, ibuf, start, ri, acc, eof, last, got>>

-------------------------------------------------------------------------------

Writes ==
    BeginOp \/ WriteLine \/ SendFile \/ SendFileRoom \/ SendFileEnds \/ Close \/ Write \/ WriteFails

Reads ==
    \/ BeginRead
    \/ LineFound \/ LinePart \/ LineFill \/ LineEof \/ LineTimedOut \/ LineEnds
    \/ BytesFill \/ BytesNone \/ BytesTake \/ BytesPoll
    \/ CopyFill \/ CopyEof \/ CopyMove

Next == Writes \/ TimedOut \/ Reads \/ ReaderLeaves

Spec == Init /\ [][Next]_vars

\* Both processes are scheduled.
FairSpec == Spec /\ WF_vars(Writes) /\ WF_vars(Reads)

-------------------------------------------------------------------------------

\* The buffers are never overrun, nor read beyond what is in them.
TypeOK ==
    /\ mode \in Modes /\ prog \in Programs /\ reads \in Readers /\ term \subseteq Bytes
    /\ wpc \in {"op", "queue", "send", "select", "write", "closed"}
    /\ wi \in 1 .. Len(prog) + 1 /\ left \in Nat /\ next \in 1 .. Total + 1
    /\ ret \in {"none", "queue", "turn", "flush", "close"}
    /\ obuf \in Seq(Bytes) /\ Len(obuf) <= OutSize
    /\ sock \in Seq(Bytes) /\ Len(sock) <= Capacity
    /\ ibuf \in Seq(Bytes) /\ start \in 0 .. Len(ibuf) /\ Len(ibuf) <= InSize
    /\ rpc \in {"op", "line", "bytes", "poll", "copy", "copying", "done", "left"}
    /\ ri \in Nat \ {0} /\ acc \in Seq(Bytes) /\ eof \in BOOLEAN
    /\ last \in [op : {"none"}] \cup [op : {"line", "bytes", "copy"}, n : Nat, bytes : Seq(Bytes),
                                    why : {"done", "timeout", "closed"}]
    /\ got \subseteq Bytes /\ failed \in BOOLEAN

\* What a read operation returns is what it says, however the bytes came in and
\* whatever was in the buffer: a line ends with its first line end, or with the
\* stream; a read that timed out took nothing from the stream, unless the line was
\* longer than the buffer.  In that case Stream.c:1871 has taken its beginning, which
\* is returned, where the comment at Stream.c:1890 has an empty string: the code and
\* its comment disagree, and this says what the code does.  A copy is as long as
\* asked for; and the end of the stream is reported only when everything before it
\* has been read.
ReadsAreExact ==
    last.op # "none" =>
        LET b == last.bytes IN
        /\ \A i \in 1 .. Len(b) - 1 : b[i] < b[i + 1]
        /\ last.op = "line" => \A i \in DOMAIN b : b[i] \in term <=> (last.why = "done" /\ i = Len(b))
        /\ last.op = "line" /\ last.why = "timeout" => Len(b) = 0 \/ Len(b) >= InSize
        /\ last.op = "bytes" /\ last.why = "done" => Len(b) \in 1 .. last.n
        /\ last.op = "copy" /\ last.why = "done" => Len(b) = last.n
        /\ last.why = "closed" => Ended /\ Avail = 0

\* A byte that the program has handed over is on its way or with the reader, unless
\* it belongs to the end of a line one of whose writes has timed out (AllQueued is
\* about that case): what is in the buffer, and what a copy has moved, is never
\* lost before the close, however slow the reader.
Somewhere == got \cup Members(acc) \cup Members(Rest) \cup Members(sock) \cup Members(obuf)

BytesKept ==
    rpc # "left" /\ wpc # "closed" =>
        \A b \in 1 .. next - 1 \ Somewhere :
            /\ failed /\ b \in LineBytes
            /\ \A k \in DOMAIN prog : b \in OfOp(k) => \A c \in OfOp(k) : c > b => c \notin Somewhere

\* What Stream.c:1676 and Stream.h:363 say of STREAMWriteBytes: it "always queues all
\* the bytes you supply".  After a write that failed, STREAMInternalQueueBytes
\* leaves its loop with the rest of them not queued (Stream.c:1639).
AllQueued == rpc # "left" /\ wpc # "closed" => 1 .. next - 1 \subseteq Somewhere

\* The stream implements ByteStream, and comes to its end: with a reader that
\* keeps up, or with a writer that waits for it, everything arrives, and a reader
\* that leaves does not keep the writer.
BS == INSTANCE ByteStream WITH queue <- Rest \o sock \o obuf

Completes ==
    /\ <>(wpc = "closed")
    /\ ~ mode.slow /\ ~ mode.quits => <>(got = Bytes /\ rpc = "done")

IsByteStream == BS!Spec /\ Completes
===============================================================================
