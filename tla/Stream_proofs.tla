---------------------------- MODULE Stream_proofs ----------------------------
(***************************************************************************)
(* A stream between two processes, for buffers of any sizes, any programs  *)
(* of writes and of reads and any flush type: the buffers are never        *)
(* overrun, reads return what they say, no byte is lost but the rest of a  *)
(* line whose write failed, and every step is one of ByteStream.           *)
(***************************************************************************)
EXTENDS Stream, SequenceTheorems, WellFoundedInduction, TLAPS

-------------------------------------------------------------------------------
(* The inductive invariants. *)

\* Inside an operation, and at the close.
Within ==
    \/ wpc \in {"queue", "send"}
    \/ wpc \in {"select", "write"} /\ ret \in {"queue", "turn", "flush"}
Closing == wpc = "closed" \/ (wpc \in {"select", "write"} /\ ret = "close")

\* next and left agree with the operation, and what follows a write fits it.
WriterInv ==
    /\ wpc = "op" \/ Closing \/ Within
    /\ ~ Within => left = 0 /\ next = IF wi <= Len(prog) THEN prog[wi].from ELSE Total + 1
    /\ Closing => wi > Len(prog)
    /\ Within => wi <= Len(prog) /\ prog[wi].from <= next /\ next + left = prog[wi].upto + 1
    /\ wpc = "queue" => Op = "line" /\ left > 0
    /\ wpc = "send" => Op # "line"
    /\ wpc \in {"select", "write"} =>
         obuf # <<>> /\ (ret = "flush" => left = 0) /\ (ret = "turn" => Op # "line")

\* What the reader has read of an operation, at each place of it.
ReaderInv ==
    /\ rpc \in {"op", "left"} => acc = <<>>
    /\ eof => rpc = "line" /\ Ended
    /\ rpc = "line" =>
         /\ ReadsOp.op = "line" /\ Members(acc) \cap term = {}
         /\ eof \/ acc = <<>> \/ Len(acc) >= InSize
    /\ rpc \in {"bytes", "poll"} => ReadsOp.op = "bytes"
    /\ rpc = "bytes" => Len(acc) < ReadsOp.n /\ (Avail = 0 => acc = <<>>)
    /\ rpc = "poll" => Avail = 0 /\ Len(acc) \in 1 .. ReadsOp.n
    /\ rpc \in {"copy", "copying"} =>
         ReadsOp.op = "copy" /\ (ReadsOp.n > 0 => Len(acc) < ReadsOp.n)
    /\ rpc = "done" => acc = <<>>
    /\ last.op # "none" /\ last.why = "closed" => rpc = "done"

\* All that is between the writer and the end of the operation that reads it.
Queue == (Rest \o sock) \o obuf
Flow == acc \o Queue

Sorted(s) == \A i, j \in 1 .. Len(s) : i < j => s[i] < s[j]

\* The bytes are in order, and none is there before it is written.
OrderInv == Sorted(Flow) /\ \A b \in Somewhere : b < next

\* A byte that is nowhere belongs to a line that is over.
DroppedInv ==
    rpc # "left" /\ wpc # "closed" =>
        \A b \in 1 .. next - 1 \ Somewhere :
            \A k \in DOMAIN prog : b \in OfOp(k) => prog[k].upto < next

-------------------------------------------------------------------------------
(* Facts about sequences. *)

LEMMA LeastNatural ==
    ASSUME NEW T, T \subseteq Nat, T # {}
    PROVE  \E x \in T : \A y \in T : x <= y
<1> DEFINE R == OpToRel(<, Nat)
<1>1. \A x, y \in Nat : <<y, x>> \in R <=> y < x
  BY DEF OpToRel
<1>2. IsWellFoundedOn(R, Nat)
  BY NatLessThanWellFounded
<1> HIDE DEF R
<1>3. PICK x \in T : \A y \in T : ~ (<<y, x>> \in R)
  BY <1>2, WFMin
<1>4. ASSUME NEW y \in T PROVE x <= y
  <2>1. x \in Nat /\ y \in Nat /\ ~ (y < x)
    BY <1>1, <1>3
  <2> QED BY <2>1
<1> QED BY <1>4

LEMMA TakeProperties ==
    ASSUME NEW S, NEW s \in Seq(S), NEW n \in 0 .. Len(s)
    PROVE  /\ SubSeq(s, 1, n) \in Seq(S) /\ Len(SubSeq(s, 1, n)) = n
           /\ \A i \in 1 .. n : SubSeq(s, 1, n)[i] = s[i]
<1>1. Len(s) \in Nat /\ \A i \in 1 .. Len(s) : s[i] \in S
  BY LenProperties, ElementOfSeq
<1>2. 1 \in Int /\ n \in Int /\ \A i \in 1 .. n : s[i] \in S
  BY <1>1
<1>3. /\ SubSeq(s, 1, n) \in Seq(S)
      /\ Len(SubSeq(s, 1, n)) = IF 1 <= n THEN n - 1 + 1 ELSE 0
      /\ \A i \in 1 .. n - 1 + 1 : SubSeq(s, 1, n)[i] = s[1 + i - 1]
  BY <1>2, SubSeqProperties
<1> QED BY <1>1, <1>3

LEMMA DropProperties ==
    ASSUME NEW S, NEW s \in Seq(S), NEW n \in 0 .. Len(s)
    PROVE  /\ Drop(s, n) \in Seq(S) /\ Len(Drop(s, n)) = Len(s) - n
           /\ \A i \in 1 .. Len(s) - n : Drop(s, n)[i] = s[n + i]
<1>1. Len(s) \in Nat /\ \A i \in 1 .. Len(s) : s[i] \in S
  BY LenProperties, ElementOfSeq
<1>2. n + 1 \in Int /\ Len(s) \in Int /\ \A i \in n + 1 .. Len(s) : s[i] \in S
  BY <1>1
<1>3. /\ Drop(s, n) \in Seq(S)
      /\ Len(Drop(s, n)) = IF n + 1 <= Len(s) THEN Len(s) - (n + 1) + 1 ELSE 0
      /\ \A i \in 1 .. Len(s) - (n + 1) + 1 : Drop(s, n)[i] = s[n + 1 + i - 1]
  BY <1>2, SubSeqProperties DEF Drop
<1> QED BY <1>1, <1>3

\* What is taken off the front, and what is left, are the sequence.
LEMMA SplitAt ==
    ASSUME NEW S, NEW s \in Seq(S), NEW n \in 0 .. Len(s)
    PROVE  SubSeq(s, 1, n) \o Drop(s, n) = s
<1>1. Len(s) \in Nat
  BY LenProperties
<1>2. 1 \in 1 .. Len(s) + 1 /\ n \in 1 - 1 .. Len(s) /\ Len(s) \in n .. Len(s)
  BY <1>1
<1>3. SubSeq(s, 1, n) \o SubSeq(s, n + 1, Len(s)) = SubSeq(s, 1, Len(s))
  BY <1>2, ConcatAdjacentSubSeq
<1> QED BY <1>3, SubSeqFull DEF Drop

LEMMA Shift ==
    ASSUME NEW S, NEW s \in Seq(S), NEW t \in Seq(S), NEW n \in 0 .. Len(t)
    PROVE  (s \o SubSeq(t, 1, n)) \o Drop(t, n) = s \o t
<1> DEFINE a == SubSeq(t, 1, n)
           b == Drop(t, n)
<1>1. a \in Seq(S) /\ b \in Seq(S)
  BY TakeProperties, DropProperties
<1>2. a \o b = t
  BY SplitAt
<1> HIDE DEF a, b
<1>3. (s \o a) \o b = s \o (a \o b)
  BY <1>1, ConcatAssociative, SMTT(40)
<1>4. (s \o a) \o b = s \o t
  BY <1>2, <1>3
<1> QED BY <1>4 DEF a, b

LEMMA DropConcat ==
    ASSUME NEW S, NEW s \in Seq(S), NEW t \in Seq(S), NEW n \in 0 .. Len(s)
    PROVE  Drop(s \o t, n) = Drop(s, n) \o t
<1> DEFINE st == s \o t
           d == Drop(s, n)
           l == Drop(st, n)
           r == d \o t
<1>1. Len(s) \in Nat /\ Len(t) \in Nat
  BY LenProperties
<1>2. /\ st \in Seq(S) /\ Len(st) = Len(s) + Len(t)
      /\ \A i \in 1 .. Len(s) + Len(t) : st[i] = IF i <= Len(s) THEN s[i] ELSE t[i - Len(s)]
  BY ConcatProperties
<1>3. d \in Seq(S) /\ Len(d) = Len(s) - n /\ \A i \in 1 .. Len(s) - n : d[i] = s[n + i]
  BY DropProperties
<1> HIDE DEF st, d
<1>4. n \in 0 .. Len(st)
  BY <1>1, <1>2
<1>5. l \in Seq(S) /\ Len(l) = Len(st) - n /\ \A i \in 1 .. Len(st) - n : l[i] = st[n + i]
  BY <1>2, <1>4, DropProperties, ZenonT(40)
<1>6. /\ r \in Seq(S) /\ Len(r) = Len(d) + Len(t)
      /\ \A i \in 1 .. Len(d) + Len(t) : r[i] = IF i <= Len(d) THEN d[i] ELSE t[i - Len(d)]
  BY <1>3, ConcatProperties
<1> HIDE DEF l, r
<1>7. Len(l) = Len(r)
  BY <1>1, <1>2, <1>3, <1>5, <1>6
<1>8. ASSUME NEW i \in 1 .. Len(l) PROVE l[i] = r[i]
  <2>1. l[i] = st[n + i] /\ n + i \in 1 .. Len(s) + Len(t) /\ i \in 1 .. Len(d) + Len(t)
    BY <1>1, <1>2, <1>3, <1>5
  <2>2. st[n + i] = IF n + i <= Len(s) THEN s[n + i] ELSE t[n + i - Len(s)]
    BY <2>1, <1>2, SMTT(40)
  <2>3. CASE n + i <= Len(s)
    <3>1. i <= Len(d) /\ i \in 1 .. Len(s) - n
      BY <2>3, <1>1, <1>3
    <3> QED BY <3>1, <2>1, <2>2, <2>3, <1>3, <1>6
  <2>4. CASE ~ (n + i <= Len(s))
    <3>1. ~ (i <= Len(d)) /\ i - Len(d) = n + i - Len(s)
      BY <2>4, <1>1, <1>3
    <3> QED BY <3>1, <2>1, <2>2, <2>4, <1>6
  <2> QED BY <2>3, <2>4
<1>9. l = r
  BY <1>5, <1>6, <1>7, <1>8, SeqEqual
<1> QED BY <1>9 DEF l, r, st, d

LEMMA NumbersProperties ==
    ASSUME NEW m \in Nat, NEW k \in Nat
    PROVE  /\ Numbers(m, m + k) \in Seq(m .. m + k - 1) /\ Len(Numbers(m, m + k)) = k
           /\ \A i \in 1 .. k : Numbers(m, m + k)[i] = m + i - 1
<1> DEFINE f == [i \in 1 .. k |-> m + i - 1]
<1>1. Numbers(m, m + k) = f
  <2>1. 1 .. (m + k) - m = 1 .. k
    OBVIOUS
  <2> QED BY <2>1 DEF Numbers
<1>2. \A i \in 1 .. k : m + i - 1 \in m .. m + k - 1
  OBVIOUS
<1>3. f \in [1 .. k -> m .. m + k - 1]
  BY <1>2
<1>4. f \in Seq(m .. m + k - 1)
  BY <1>3, SeqDef
<1>5. Len(f) = k
  <2> DEFINE l == Len(f)
  <2>1. l \in Nat /\ 1 .. l = 1 .. k
    BY <1>4, LenProperties
  <2> HIDE DEF l
  <2>2. ASSUME l > k PROVE FALSE
    <3>1. l \in 1 .. l /\ l \notin 1 .. k
      BY <2>1, <2>2
    <3> QED BY <3>1, <2>1
  <2>3. ASSUME l < k PROVE FALSE
    <3>1. k \notin 1 .. l /\ k \in 1 .. k
      BY <2>1, <2>3
    <3> QED BY <3>1, <2>1
  <2>4. l = k
    BY <2>1, <2>2, <2>3
  <2> QED BY <2>4 DEF l
<1> QED BY <1>1, <1>4, <1>5

LEMMA MembersProperties ==
    ASSUME NEW S, NEW s \in Seq(S), NEW t \in Seq(S)
    PROVE  /\ Members(s) \subseteq S
           /\ Members(s) = {s[i] : i \in 1 .. Len(s)}
           /\ Members(s \o t) = Members(s) \cup Members(t)
           /\ Members(<<>>) = {}
<1>1. /\ Len(s) \in Nat /\ DOMAIN s = 1 .. Len(s) /\ Len(t) \in Nat /\ DOMAIN t = 1 .. Len(t)
      /\ \A i \in 1 .. Len(s) : s[i] \in S
  BY LenProperties, ElementOfSeq
<1>2. Members(s) = Range(s) /\ Members(t) = Range(t) /\ Members(s \o t) = Range(s \o t)
  BY DEF Members, Range
<1>3. Range(s \o t) = Range(s) \cup Range(t)
  BY RangeConcatenation
<1>4. Members(<<>>) = {}
  BY DEF Members
<1> QED BY <1>1, <1>2, <1>3, <1>4 DEF Members

-------------------------------------------------------------------------------
(* The writer. *)

\* The operations follow each other.
LEMMA Programmed ==
    ASSUME TypeOK \/ Init
    PROVE  /\ Len(prog) \in Nat /\ DOMAIN prog = 1 .. Len(prog) /\ Total \in Nat
           /\ \A k \in 1 .. Len(prog) :
                /\ prog[k].op \in {"line", "send", "relay"}
                /\ prog[k].from \in Nat \ {0} /\ prog[k].upto \in Nat
                /\ prog[k].from <= prog[k].upto /\ prog[k].upto <= Total
                /\ prog[k].upto + 1 = IF k + 1 <= Len(prog) THEN prog[k + 1].from ELSE Total + 1
                /\ \A j \in 1 .. k - 1 : prog[j].upto < prog[k].from
           /\ (IF 1 <= Len(prog) THEN prog[1].from ELSE Total + 1) = 1
<1> DEFINE l == Len(prog)
           from(k) == prog[k].from
           upto(k) == prog[k].upto
<1>1. prog \in Seq(WriteOp) /\ Numbered(prog)
  BY StreamAssumption DEF TypeOK, Init
<1>2. l \in Nat /\ DOMAIN prog = 1 .. l /\ (l = 0 <=> prog = <<>>)
  BY <1>1, LenProperties, EmptySeq
<1>3. \A k \in 1 .. l : prog[k] \in WriteOp
  BY <1>1, ElementOfSeq
<1>4. \A k \in 1 .. l : prog[k].op \in {"line", "send", "relay"} /\ from(k) \in Nat \ {0} /\ upto(k) \in Nat
  BY <1>3 DEF WriteOp
<1>5. \A k \in 1 .. l : from(k) <= upto(k) /\ from(k) = IF k = 1 THEN 1 ELSE upto(k - 1) + 1
  BY <1>1, <1>2 DEF Numbered
<1>6. IF l = 0 THEN Total = 0 ELSE Total = upto(l)
  BY <1>2 DEF Total
<1>7. ASSUME NEW m \in 1 .. l PROVE \A k \in m + 1 .. l : upto(m) < from(k)
  <2> DEFINE T == {k \in m + 1 .. l : ~ (upto(m) < from(k))}
  <2>1. T \subseteq Nat
    BY <1>2
  <2>2. ASSUME T # {} PROVE FALSE
    <3>1. PICK k \in T : \A j \in T : k <= j
      BY <2>1, <2>2, LeastNatural
    <3>2. k \in 2 .. l /\ m < k /\ k - 1 \in 1 .. l /\ k \in 1 .. l
      BY <1>2, <3>1
    <3>3. from(k) = upto(k - 1) + 1 /\ upto(k - 1) \in Nat /\ from(k - 1) <= upto(k - 1)
          /\ from(k - 1) \in Nat /\ upto(m) \in Nat
      BY <3>2, <1>4, <1>5, SMTT(40)
    <3>4. ~ (upto(m) < from(k))
      BY <3>1
    <3> HIDE DEF from, upto
    <3>5. CASE k - 1 = m
      BY <3>3, <3>4, <3>5
    <3>6. CASE k - 1 # m
      <4>1. k - 1 \in m + 1 .. l /\ ~ (k <= k - 1)
        BY <3>2, <3>6
      <4>2. k - 1 \notin T
        BY <4>1, <3>1
      <4>3. upto(m) < from(k - 1)
        BY <4>1, <4>2
      <4> QED BY <4>3, <3>3, <3>4
    <3> QED BY <3>5, <3>6
  <2> QED BY <2>2
<1> HIDE DEF l, from, upto
<1>8. \A k \in 1 .. l : upto(k) <= Total
  <2> SUFFICES ASSUME NEW k \in 1 .. l PROVE upto(k) <= Total
    OBVIOUS
  <2>1. l \in 1 .. l /\ Total = upto(l) /\ from(l) <= upto(l) /\ from(l) \in Nat /\ upto(l) \in Nat /\ upto(k) \in Nat
    BY <1>2, <1>4, <1>5, <1>6
  <2>2. CASE k = l
    BY <2>1, <2>2
  <2>3. CASE k # l
    <3>1. l \in k + 1 .. l
      BY <2>3, <1>2
    <3>2. upto(k) < from(l)
      BY <3>1, <1>7
    <3> QED BY <3>2, <2>1
  <2> QED BY <2>2, <2>3
<1>9. \A k \in 1 .. l : upto(k) + 1 = IF k + 1 <= l THEN from(k + 1) ELSE Total + 1
  <2> SUFFICES ASSUME NEW k \in 1 .. l PROVE upto(k) + 1 = IF k + 1 <= l THEN from(k + 1) ELSE Total + 1
    OBVIOUS
  <2>1. CASE k + 1 <= l
    <3>1. k + 1 \in 1 .. l /\ k + 1 # 1 /\ (k + 1) - 1 = k
      BY <2>1, <1>2
    <3> QED BY <3>1, <2>1, <1>5
  <2>2. CASE ~ (k + 1 <= l)
    <3>1. k = l /\ l # 0
      BY <2>2, <1>2
    <3> QED BY <3>1, <2>2, <1>6
  <2> QED BY <2>1, <2>2
<1>10. \A k \in 1 .. l : \A j \in 1 .. k - 1 : upto(j) < from(k)
  BY <1>2, <1>7
<1>11. (IF 1 <= l THEN from(1) ELSE Total + 1) = 1
  BY <1>2, <1>5, <1>6
<1>12. Total \in Nat
  BY <1>2, <1>4, <1>6
<1> QED BY <1>2, <1>4, <1>5, <1>8, <1>9, <1>10, <1>11, <1>12 DEF l, from, upto

\* A byte belongs to one operation.
LEMMA OneOp ==
    ASSUME TypeOK, NEW j \in DOMAIN prog, NEW k \in DOMAIN prog, NEW b \in OfOp(j), b \in OfOp(k)
    PROVE  j = k
<1>1. j \in 1 .. Len(prog) /\ k \in 1 .. Len(prog) /\ Len(prog) \in Nat
  BY Programmed
<1>2. /\ prog[j].from \in Nat /\ prog[j].upto \in Nat /\ prog[k].from \in Nat /\ prog[k].upto \in Nat
      /\ prog[j].from <= b /\ b <= prog[j].upto /\ prog[k].from <= b /\ b <= prog[k].upto /\ b \in Nat
  BY <1>1, Programmed, SMTT(40) DEF OfOp
<1>3. ASSUME j < k PROVE FALSE
  <2>1. j \in 1 .. k - 1
    BY <1>1, <1>3
  <2>2. prog[j].upto < prog[k].from
    BY <1>1, <2>1, Programmed
  <2> QED BY <1>2, <2>2
<1>4. ASSUME k < j PROVE FALSE
  <2>1. k \in 1 .. j - 1
    BY <1>1, <1>4
  <2>2. prog[k].upto < prog[j].from
    BY <1>1, <2>1, Programmed
  <2> QED BY <1>2, <2>2
<1> QED BY <1>1, <1>3, <1>4

\* What a step of the writer does to the bytes.
Waits == UNCHANGED <<next, obuf, sock, failed>>
Queues ==
    /\ \E k \in 0 .. left :
         k <= OutSize - Len(obuf) /\ next' = next + k /\ obuf' = obuf \o Numbers(next, next + k)
    /\ wi <= Len(prog) /\ prog[wi].from <= next /\ next + left = prog[wi].upto + 1
    /\ UNCHANGED <<sock, failed>>
Moves ==
    /\ \E k \in 1 .. Len(obuf) :
         k <= Room /\ sock' = sock \o SubSeq(obuf, 1, k) /\ obuf' = Drop(obuf, k)
    /\ UNCHANGED <<next, failed>>
Fails ==
    /\ failed' = TRUE /\ UNCHANGED sock
    /\ obuf' = obuf \/ (obuf' = <<>> /\ wpc' = "closed")
    /\ \/ next' = next
       \/ /\ wi <= Len(prog) /\ prog[wi].from <= next /\ next <= next' /\ next' = prog[wi].upto + 1
          /\ rpc = "left" \/ Op = "line"

Sends == Waits \/ Queues \/ Moves \/ Fails

\* The writer's own variables, but the buffer.
WriterTypes ==
    /\ wpc \in {"op", "queue", "send", "select", "write", "closed"}
    /\ wi \in 1 .. Len(prog) + 1 /\ left \in Nat /\ next \in 1 .. Total + 1
    /\ ret \in {"none", "queue", "turn", "flush", "close"} /\ failed \in BOOLEAN

WriterStep == Sends /\ WriterTypes' /\ WriterInv' /\ UNCHANGED <<instance, reader>>

\* Numbers the writer computes with.
LEMMA WriterNumbers ==
    ASSUME TypeOK
    PROVE  /\ OutSize \in Nat \ {0} /\ Len(obuf) \in Nat /\ Len(obuf) <= OutSize
           /\ Capacity \in Nat /\ Len(sock) \in Nat /\ Len(sock) <= Capacity
           /\ Room \in Nat /\ left \in Nat /\ next \in Nat \ {0} /\ wi \in Nat \ {0}
           /\ Len(prog) \in Nat /\ wi <= Len(prog) + 1 /\ Total \in Nat
           /\ obuf = <<>> <=> Len(obuf) = 0
<1>1. obuf \in Seq(Bytes) /\ sock \in Seq(Bytes) /\ Len(obuf) <= OutSize /\ Len(sock) <= Capacity
  BY DEF TypeOK
<1>2. Len(obuf) \in Nat /\ Len(sock) \in Nat /\ (obuf = <<>> <=> Len(obuf) = 0)
  BY <1>1, LenProperties, EmptySeq
<1>3. OutSize \in Nat \ {0} /\ Capacity \in Nat
  BY StreamAssumption
<1>4. Room \in Nat
  BY <1>1, <1>2, <1>3 DEF Room
<1>5. Len(prog) \in Nat /\ Total \in Nat
  BY Programmed
<1>6. left \in Nat /\ next \in 1 .. Total + 1 /\ wi \in 1 .. Len(prog) + 1
  BY DEF TypeOK
<1> QED BY <1>1, <1>2, <1>3, <1>4, <1>5, <1>6

\* Inside an operation the next byte is one of it, or the one after it.
LEMMA NextInOp ==
    ASSUME TypeOK, NEW k \in 1 .. Len(prog), NEW n \in Nat,
           prog[k].from <= n, n <= prog[k].upto + 1
    PROVE  n \in 1 .. Total + 1
<1>1. prog[k].from \in Nat \ {0} /\ prog[k].upto \in Nat /\ prog[k].upto <= Total /\ Total \in Nat
  BY Programmed
<1> QED BY <1>1

\* The next operation, or the close.
LEMMA OpDone ==
    ASSUME TypeOK, wi <= Len(prog), prog' = prog, NextOp, left' = 0, next' = prog[wi].upto + 1,
           ret' \in {"none", "queue", "turn", "flush", "close"}, failed' \in BOOLEAN
    PROVE  WriterInv' /\ WriterTypes'
<1>1. wpc' = "op" /\ wi' = wi + 1
  BY DEF NextOp
<1>2. wi \in Nat \ {0} /\ Len(prog) \in Nat /\ wi \in 1 .. Len(prog)
  BY WriterNumbers
<1>3. /\ prog[wi].upto \in Nat /\ prog[wi].upto <= Total /\ Total \in Nat
      /\ prog[wi].upto + 1 = IF wi + 1 <= Len(prog) THEN prog[wi + 1].from ELSE Total + 1
  BY <1>2, Programmed
<1>4. Total' = Total
  BY DEF Total
<1>5. next' = IF wi' <= Len(prog') THEN prog'[wi'].from ELSE Total' + 1
  BY <1>1, <1>3, <1>4
<1>6. next' \in 1 .. Total' + 1 /\ wi' \in 1 .. Len(prog') + 1
  BY <1>1, <1>2, <1>3, <1>4
<1>7. ~ Within' /\ ~ Closing' /\ wpc' \notin {"queue", "send", "select", "write", "closed"}
  BY <1>1 DEF Within, Closing
<1>8. WriterInv'
  BY <1>1, <1>5, <1>7 DEF WriterInv
<1> QED BY <1>1, <1>6, <1>8 DEF WriterTypes

\* The operation goes on.
LEMMA OpGoesOn ==
    ASSUME TypeOK, wi \in 1 .. Len(prog), prog' = prog, wi' = wi, left' \in Nat, next' \in Nat,
           prog[wi].from <= next', next' + left' = prog[wi].upto + 1, failed' \in BOOLEAN,
           ret' \in {"none", "queue", "turn", "flush", "close"},
           \/ wpc' = "queue" /\ Op = "line" /\ left' > 0
           \/ wpc' = "send" /\ Op # "line"
           \/ wpc' \in {"select", "write"} /\ obuf' # <<>> /\ ret' = "queue"
           \/ wpc' \in {"select", "write"} /\ obuf' # <<>> /\ ret' = "turn" /\ Op # "line"
           \/ wpc' \in {"select", "write"} /\ obuf' # <<>> /\ ret' = "flush" /\ left' = 0
    PROVE  WriterInv' /\ WriterTypes'
<1>1. Len(prog) \in Nat
  BY WriterNumbers
<1>2. prog[wi].upto \in Nat /\ next' <= prog[wi].upto + 1
  BY Programmed
<1>3. next' \in 1 .. Total + 1
  BY <1>2, NextInOp
<1>4. Total' = Total /\ Op' = Op
  BY DEF Total, Op
<1>5. Within' /\ ~ Closing'
  BY DEF Within, Closing
<1>6. wi' <= Len(prog') /\ prog'[wi'].from <= next' /\ next' + left' = prog'[wi'].upto + 1
  BY <1>1
<1>7. /\ wpc' = "queue" => Op' = "line" /\ left' > 0
      /\ wpc' = "send" => Op' # "line"
      /\ wpc' \in {"select", "write"} =>
           obuf' # <<>> /\ (ret' = "flush" => left' = 0) /\ (ret' = "turn" => Op' # "line")
  BY <1>4
<1>8. WriterInv'
  BY <1>5, <1>6, <1>7 DEF WriterInv
<1>9. wpc' \in {"op", "queue", "send", "select", "write", "closed"}
  OBVIOUS
<1> QED BY <1>1, <1>3, <1>4, <1>8, <1>9 DEF WriterTypes

\* What is queued: the operation is over, or goes on.
LEMMA AfterQueued ==
    ASSUME TypeOK, wi \in 1 .. Len(prog), prog' = prog, Queued, left' \in Nat, next' \in Nat,
           prog[wi].from <= next', next' + left' = prog[wi].upto + 1, failed' \in BOOLEAN,
           Op = "line" => left' = 0
    PROVE  WriterInv' /\ WriterTypes'
<1>1. Op \in {"line", "send", "relay"} /\ prog[wi].upto \in Nat
  BY Programmed DEF Op
<1>2. ret \in {"none", "queue", "turn", "flush", "close"}
  BY DEF TypeOK
<1>3. CASE Op = "line" /\ mode.flush = "line" /\ obuf' # <<>>
  <2>1. wpc' = "select" /\ ret' = "flush" /\ wi' = wi /\ left' = 0
    BY <1>3 DEF Queued, FinalWrite
  <2> QED BY <2>1, <1>3, OpGoesOn
<1>4. CASE Op = "line" /\ ~ (mode.flush = "line" /\ obuf' # <<>>)
  <2>1. NextOp /\ ret' = ret /\ left' = 0
    BY <1>4 DEF Queued
  <2>2. next' = prog[wi].upto + 1 /\ wi <= Len(prog)
    BY <2>1, <1>1, WriterNumbers
  <2> QED BY <2>1, <2>2, <1>2, OpDone
<1>5. CASE Op = "relay" /\ obuf' # <<>>
  <2>1. wpc' = "select" /\ ret' = "turn" /\ wi' = wi
    BY <1>5 DEF Queued, FinalWrite
  <2> QED BY <2>1, <1>5, OpGoesOn
<1>6. CASE Op = "send" \/ (Op = "relay" /\ obuf' = <<>>)
  <2>1. wpc' = "send" /\ ret' = ret /\ wi' = wi
    BY <1>6 DEF Queued
  <2> QED BY <2>1, <1>2, <1>6, OpGoesOn
<1> QED BY <1>1, <1>3, <1>4, <1>5, <1>6

LEMMA BeginOpStep ==
    ASSUME TypeOK, WriterInv, BeginOp
    PROVE  WriterStep
<1>1. /\ wpc = "op" /\ wi <= Len(prog) /\ left' = prog[wi].upto - prog[wi].from + 1
      /\ wpc' = IF Op = "line" THEN "queue" ELSE "send"
      /\ UNCHANGED <<instance, wi, ret, next, obuf, failed, sock, reader>>
  BY DEF BeginOp
<1>2. wi \in 1 .. Len(prog)
  BY <1>1, WriterNumbers
<1>3. prog[wi].from \in Nat \ {0} /\ prog[wi].upto \in Nat /\ prog[wi].from <= prog[wi].upto
  BY <1>2, Programmed
<1>4. next = prog[wi].from
  BY <1>1 DEF WriterInv, Within
<1>5. left' \in Nat \ {0} /\ next' \in Nat /\ prog[wi].from <= next' /\ next' + left' = prog[wi].upto + 1
  BY <1>1, <1>3, <1>4, SMTT(40)
<1>6. ret' \in {"none", "queue", "turn", "flush", "close"} /\ failed' \in BOOLEAN /\ prog' = prog
  BY <1>1 DEF TypeOK, instance
<1>7. WriterInv' /\ WriterTypes'
  <2>1. CASE Op = "line"
    <3>1. wpc' = "queue" /\ left' > 0
      BY <2>1, <1>1, <1>5
    <3> QED BY <3>1, <2>1, <1>1, <1>2, <1>5, <1>6, OpGoesOn
  <2>2. CASE Op # "line"
    <3>1. wpc' = "send"
      BY <2>2, <1>1
    <3> QED BY <3>1, <2>2, <1>1, <1>2, <1>5, <1>6, OpGoesOn
  <2> QED BY <2>1, <2>2
<1>8. Waits
  BY <1>1 DEF Waits
<1> QED BY <1>1, <1>7, <1>8 DEF WriterStep, Sends

\* Up to k bytes are queued, fewer only when the buffer is full.
LEMMA QueueBytesStep ==
    ASSUME TypeOK, WriterInv, wpc \in {"queue", "send"}, NEW k \in 0 .. left, k <= OutSize - Len(obuf),
           QueueBytes(k), Op = "line" => k = left \/ k = OutSize - Len(obuf),
           UNCHANGED <<instance, failed, sock, reader>>
    PROVE  WriterStep
<1>1. /\ obuf' = obuf \o Numbers(next, next + k) /\ next' = next + k /\ left' = left - k
      /\ IF obuf' # <<>> /\ (Len(obuf') >= OutSize \/ mode.flush = "always")
           THEN wpc' = "select" /\ ret' = "queue" /\ wi' = wi
           ELSE Queued
  BY DEF QueueBytes, FinalWrite
<1>2. wi <= Len(prog) /\ prog[wi].from <= next /\ next + left = prog[wi].upto + 1
  BY DEF WriterInv, Within
<1>3. wi \in 1 .. Len(prog) /\ left \in Nat /\ next \in Nat \ {0} /\ Len(obuf) \in Nat /\ OutSize \in Nat \ {0}
  BY <1>2, WriterNumbers, SMTT(40)
<1>4. prog[wi].from \in Nat /\ prog[wi].upto \in Nat
  BY <1>3, Programmed
<1>5. left' \in Nat /\ next' \in Nat /\ prog[wi].from <= next' /\ next' + left' = prog[wi].upto + 1
  <2>1. next' = next + k /\ left' = left - k
    BY <1>1
  <2>2. next' \in Nat /\ prog[wi].from <= next'
    BY <2>1, <1>2, <1>3, <1>4, SMTT(40)
  <2>3. left' \in Nat
    BY <2>1, <1>3
  <2>4. (next + k) + (left - k) = next + left
    BY <1>3
  <2> QED BY <2>1, <2>2, <2>3, <2>4, <1>2
<1>6. failed' \in BOOLEAN /\ prog' = prog
  BY DEF TypeOK, instance
<1>7. Len(obuf') = Len(obuf) + k
  <2> DEFINE new == Numbers(next, next + k)
             S == next .. next + k - 1
  <2> HIDE DEF S
  <2>1. new \in Seq(S) /\ Len(new) = k
    <3>1. next \in Nat /\ k \in Nat
      BY <1>3
    <3> QED BY <3>1, NumbersProperties DEF S
  <2>2. obuf \in Seq(Bytes)
    BY DEF TypeOK
  <2>3. obuf \in Seq(Bytes \cup S) /\ new \in Seq(Bytes \cup S)
    BY <2>1, <2>2, SeqMonotonic
  <2> HIDE DEF new
  <2>4. Len(obuf \o new) = Len(obuf) + Len(new)
    BY <2>3, ConcatProperties
  <2> QED BY <2>1, <2>4, <1>1 DEF new
<1>8. WriterInv' /\ WriterTypes'
  <2>1. CASE obuf' # <<>> /\ (Len(obuf') >= OutSize \/ mode.flush = "always")
    <3>1. wpc' = "select" /\ ret' = "queue" /\ wi' = wi
      BY <2>1, <1>1
    <3> QED BY <3>1, <2>1, <1>3, <1>5, <1>6, OpGoesOn
  <2>2. CASE ~ (obuf' # <<>> /\ (Len(obuf') >= OutSize \/ mode.flush = "always"))
    <3>1. Queued
      BY <2>2, <1>1
    <3>2. Op = "line" => left' = 0
      <4>1. SUFFICES ASSUME k = OutSize - Len(obuf) PROVE FALSE
        BY <1>1, <1>3
      <4>2. Len(obuf') = OutSize /\ Len(obuf') # 0
        BY <4>1, <1>3, <1>7
      <4>3. obuf' # <<>>
        BY <4>2, EmptySeq
      <4> QED BY <4>2, <4>3, <2>2, <1>3
    <3> QED BY <3>1, <3>2, <1>3, <1>5, <1>6, AfterQueued
  <2> QED BY <2>1, <2>2
<1>9. Queues
  BY <1>1, <1>2 DEF Queues
<1> QED BY <1>8, <1>9 DEF WriterStep, Sends

LEMMA WriteLineStep ==
    ASSUME TypeOK, WriterInv, WriteLine
    PROVE  WriterStep
<1> DEFINE k == Least(OutSize - Len(obuf), left)
<1>1. wpc = "queue" /\ QueueBytes(k) /\ UNCHANGED <<instance, failed, sock, reader>>
  BY DEF WriteLine
<1>2. Len(obuf) \in Nat /\ OutSize \in Nat /\ Len(obuf) <= OutSize /\ left \in Nat
  BY WriterNumbers
<1>3. k \in 0 .. left /\ k <= OutSize - Len(obuf) /\ (k = left \/ k = OutSize - Len(obuf))
  BY <1>2 DEF Least
<1> HIDE DEF k
<1> QED BY <1>1, <1>3, QueueBytesStep

LEMMA SendFileStep ==
    ASSUME TypeOK, WriterInv, SendFile
    PROVE  WriterStep
<1>1. PICK k \in 1 .. Least(OutSize - Len(obuf), left) :
         wpc = "send" /\ QueueBytes(k) /\ UNCHANGED <<instance, failed, sock, reader>>
  BY DEF SendFile
<1>2. Len(obuf) \in Nat /\ OutSize \in Nat /\ left \in Nat
  BY WriterNumbers
<1>3. k \in 0 .. left /\ k <= OutSize - Len(obuf)
  BY <1>2 DEF Least
<1>4. Op # "line"
  BY <1>1 DEF WriterInv
<1> QED BY <1>1, <1>3, <1>4, QueueBytesStep

LEMMA SendFileRoomStep ==
    ASSUME TypeOK, WriterInv, SendFileRoom
    PROVE  WriterStep
<1>1. /\ wpc = "send" /\ Full /\ wpc' = "select" /\ ret' = "turn"
      /\ UNCHANGED <<instance, wi, left, next, obuf, failed, sock, reader>>
  BY DEF SendFileRoom, FinalWrite
<1>2. wi <= Len(prog) /\ prog[wi].from <= next /\ next + left = prog[wi].upto + 1 /\ Op # "line"
  BY <1>1 DEF WriterInv, Within
<1>3. wi \in 1 .. Len(prog) /\ left \in Nat /\ next \in Nat /\ obuf # <<>>
  BY <1>1, <1>2, WriterNumbers DEF Full
<1>4. failed' \in BOOLEAN /\ prog' = prog
  BY <1>1 DEF TypeOK, instance
<1>5. WriterInv' /\ WriterTypes'
  BY <1>1, <1>2, <1>3, <1>4, OpGoesOn
<1> QED BY <1>1, <1>5 DEF WriterStep, Sends, Waits

LEMMA SendFileEndsStep ==
    ASSUME TypeOK, WriterInv, SendFileEnds
    PROVE  WriterStep
<1>1. /\ wpc = "send" /\ left = 0
      /\ IF obuf = <<>> THEN NextOp /\ ret' = ret ELSE wpc' = "select" /\ ret' = "flush" /\ wi' = wi
      /\ UNCHANGED <<instance, left, next, obuf, failed, sock, reader>>
  BY DEF SendFileEnds, FinalWrite
<1>2. wi <= Len(prog) /\ prog[wi].from <= next /\ next + left = prog[wi].upto + 1 /\ Op # "line"
  BY <1>1 DEF WriterInv, Within
<1>3. wi \in 1 .. Len(prog) /\ next \in Nat
  BY <1>2, WriterNumbers
<1>4. failed' \in BOOLEAN /\ prog' = prog /\ ret \in {"none", "queue", "turn", "flush", "close"}
  BY <1>1 DEF TypeOK, instance
<1>5. WriterInv' /\ WriterTypes'
  <2>1. CASE obuf = <<>>
    <3>1. next' = prog[wi].upto + 1 /\ NextOp /\ ret' = ret /\ left' = 0
      BY <2>1, <1>1, <1>2, <1>3
    <3> QED BY <3>1, <1>2, <1>4, OpDone
  <2>2. CASE obuf # <<>>
    <3>1. wpc' = "select" /\ ret' = "flush" /\ wi' = wi /\ left' = 0 /\ left' \in Nat /\ obuf' # <<>>
      BY <2>2, <1>1
    <3> QED BY <3>1, <1>1, <1>2, <1>3, <1>4, OpGoesOn
  <2> QED BY <2>1, <2>2
<1> QED BY <1>1, <1>5 DEF WriterStep, Sends, Waits

\* The close, and the end.
LEMMA Closes ==
    ASSUME TypeOK, WriterInv, wi > Len(prog), left = 0, next = Total + 1,
           UNCHANGED <<instance, wi, left, next>>, failed' \in BOOLEAN,
           ret' \in {"none", "queue", "turn", "flush", "close"},
           wpc' = "closed" \/ (wpc' \in {"select", "write"} /\ obuf' # <<>> /\ ret' = "close")
    PROVE  WriterInv' /\ WriterTypes'
<1>1. prog' = prog /\ Total' = Total /\ wi' = wi /\ left' = 0 /\ next' = Total + 1
  BY DEF instance, Total
<1>2. Closing' /\ ~ Within'
  BY DEF Closing, Within
<1>3. wi \in Nat /\ wi \in 1 .. Len(prog) + 1 /\ Len(prog) \in Nat /\ Total \in Nat
  BY WriterNumbers
<1>4. WriterInv'
  BY <1>1, <1>2, <1>3 DEF WriterInv
<1>5. wpc' \in {"op", "queue", "send", "select", "write", "closed"}
  OBVIOUS
<1> QED BY <1>1, <1>3, <1>4, <1>5 DEF WriterTypes

LEMMA CloseStep ==
    ASSUME TypeOK, WriterInv, Close
    PROVE  WriterStep
<1>1. /\ wpc = "op" /\ wi > Len(prog)
      /\ IF obuf = <<>> THEN wpc' = "closed" /\ ret' = ret ELSE wpc' = "select" /\ ret' = "close"
      /\ UNCHANGED <<instance, wi, left, next, obuf, failed, sock, reader>>
  BY DEF Close, FinalWrite
<1>2. left = 0 /\ next = Total + 1
  BY <1>1, WriterNumbers DEF WriterInv, Within
<1>3. ret' \in {"none", "queue", "turn", "flush", "close"} /\ failed' \in BOOLEAN
  BY <1>1 DEF TypeOK
<1>4. WriterInv' /\ WriterTypes'
  BY <1>1, <1>2, <1>3, Closes
<1> QED BY <1>1, <1>4 DEF WriterStep, Sends, Waits

\* A write has failed, or has ended: what follows it.
LEMMA ClosingFacts ==
    ASSUME TypeOK, WriterInv, wpc \in {"select", "write"}
    PROVE  \/ /\ ret = "close" /\ wi > Len(prog) /\ left = 0 /\ next = Total + 1
           \/ /\ ret \in {"queue", "turn", "flush"} /\ wi \in 1 .. Len(prog)
              /\ prog[wi].from <= next /\ next + left = prog[wi].upto + 1
              /\ prog[wi].from \in Nat /\ prog[wi].upto \in Nat
              /\ ret = "flush" => left = 0
              /\ ret = "turn" => Op # "line"
<1>1. CASE ret = "close"
  <2>1. ~ Within /\ Closing
    BY <1>1 DEF Within, Closing
  <2>2. left = 0 /\ wi > Len(prog) /\ next = IF wi <= Len(prog) THEN prog[wi].from ELSE Total + 1
    BY <2>1 DEF WriterInv
  <2> QED BY <2>2, <1>1, WriterNumbers
<1>2. CASE ret # "close"
  <2>1. ~ Closing /\ wpc # "op"
    BY <1>2 DEF Closing
  <2>2. Within
    BY <2>1 DEF WriterInv
  <2>3. ret \in {"queue", "turn", "flush"}
    BY <2>2 DEF Within
  <2>4. wi <= Len(prog) /\ prog[wi].from <= next /\ next + left = prog[wi].upto + 1
        /\ (ret = "flush" => left = 0) /\ (ret = "turn" => Op # "line")
    BY <2>2 DEF WriterInv
  <2>5. wi \in 1 .. Len(prog)
    BY <2>4, WriterNumbers
  <2> QED BY <2>3, <2>4, <2>5, Programmed
<1> QED BY <1>1, <1>2

LEMMA WriteStep ==
    ASSUME TypeOK, WriterInv, Write
    PROVE  WriterStep
<1> DEFINE k == Least(Room, Len(obuf))
<1>1. /\ wpc \in {"select", "write"} /\ Room > 0
      /\ sock' = sock \o SubSeq(obuf, 1, k) /\ obuf' = Drop(obuf, k)
      /\ IF obuf' = <<>> THEN Return ELSE wpc' = "write" /\ UNCHANGED <<wi, ret>>
      /\ UNCHANGED <<instance, left, next, failed, reader>>
  BY DEF Write
<1>2. obuf # <<>>
  BY <1>1 DEF WriterInv
<1>3. Room \in Nat /\ Len(obuf) \in Nat \ {0} /\ left \in Nat /\ next \in Nat
  BY <1>2, WriterNumbers
<1>4. k \in 1 .. Len(obuf) /\ k <= Room
  BY <1>1, <1>3 DEF Least
<1> HIDE DEF k
<1>5. failed' \in BOOLEAN /\ prog' = prog /\ ret \in {"none", "queue", "turn", "flush", "close"}
  BY <1>1 DEF TypeOK, instance
<1>6. WriterInv' /\ WriterTypes'
  <2>1. CASE ret = "close"
    <3>1. wi > Len(prog) /\ left = 0 /\ next = Total + 1
      BY <2>1, <1>1, ClosingFacts
    <3>2. ret' = "close" /\ wi' = wi /\ (wpc' = "closed" \/ (wpc' = "write" /\ obuf' # <<>>))
      <4>1. CASE obuf' = <<>>
        BY <4>1, <1>1, <2>1 DEF Return
      <4>2. CASE obuf' # <<>>
        BY <4>2, <1>1, <2>1
      <4> QED BY <4>1, <4>2
    <3> QED BY <3>1, <3>2, <1>1, <1>5, Closes
  <2>2. CASE ret # "close"
    <3>1. /\ ret \in {"queue", "turn", "flush"} /\ wi \in 1 .. Len(prog)
          /\ prog[wi].from <= next /\ next + left = prog[wi].upto + 1
          /\ prog[wi].upto \in Nat
          /\ ret = "flush" => left = 0
          /\ ret = "turn" => Op # "line"
      BY <2>2, <1>1, ClosingFacts
    <3>2. left' = left /\ next' = next
      BY <1>1
    <3>3. CASE obuf' # <<>>
      <4>1. wpc' = "write" /\ wi' = wi /\ ret' = ret
        BY <3>3, <1>1
      <4> QED BY <4>1, <3>1, <3>2, <3>3, <1>3, <1>5, OpGoesOn
    <3>4. CASE obuf' = <<>> /\ ret = "queue" /\ Op = "line" /\ left > 0
      <4>1. wpc' = "queue" /\ wi' = wi /\ ret' = ret
        BY <3>4, <1>1 DEF Return
      <4> QED BY <4>1, <3>1, <3>2, <3>4, <1>3, <1>5, OpGoesOn
    <3>5. CASE obuf' = <<>> /\ ret = "queue" /\ ~ (Op = "line" /\ left > 0)
      <4>1. Queued
        BY <3>5, <1>1 DEF Return
      <4>2. Op = "line" => left' = 0
        BY <3>2, <3>5, <1>3
      <4> QED BY <4>1, <4>2, <3>1, <3>2, <1>3, <1>5, AfterQueued
    <3>6. CASE obuf' = <<>> /\ ret = "turn"
      <4>1. wpc' = "send" /\ wi' = wi /\ ret' = ret /\ Op # "line"
        BY <3>6, <3>1, <1>1 DEF Return
      <4> QED BY <4>1, <3>1, <3>2, <1>3, <1>5, OpGoesOn
    <3>7. CASE obuf' = <<>> /\ ret = "flush"
      <4>1. NextOp /\ ret' = ret /\ left' = 0
        BY <3>7, <3>1, <3>2, <1>1 DEF Return
      <4>2. next' = prog[wi].upto + 1 /\ wi <= Len(prog)
        BY <4>1, <3>1, <3>2, <1>3, WriterNumbers
      <4> QED BY <4>1, <4>2, <1>5, OpDone
    <3> QED BY <3>1, <3>3, <3>4, <3>5, <3>6, <3>7
  <2> QED BY <2>1, <2>2
<1>7. Moves
  BY <1>1, <1>4 DEF Moves
<1> QED BY <1>1, <1>6, <1>7 DEF WriterStep, Sends

\* The rest of a line is left out, and the line is over.
LEMMA TimedOutStep ==
    ASSUME TypeOK, WriterInv, TimedOut
    PROVE  WriterStep
<1>1. /\ wpc = "select" /\ failed' = TRUE
      /\ IF ret = "queue" /\ Op = "line"
           THEN next' = next + left /\ left' = 0
           ELSE next' = next /\ left' = left
      /\ obuf' = IF ret = "close" THEN <<>> ELSE obuf
      /\ UNCHANGED <<instance, sock, reader>>
  BY DEF TimedOut
<1>2. /\ ret = "queue" => Queued
      /\ ret = "turn" => wpc' = "send" /\ wi' = wi /\ ret' = ret
      /\ ret = "flush" => NextOp /\ ret' = ret
      /\ ret = "close" => wpc' = "closed" /\ wi' = wi /\ ret' = ret
  <2>1. ASSUME ret = "queue" PROVE Queued
    BY <2>1 DEF TimedOut
  <2>2. ASSUME ret = "turn" PROVE wpc' = "send" /\ wi' = wi /\ ret' = ret
    BY <2>2 DEF TimedOut
  <2>3. ASSUME ret = "flush" PROVE NextOp /\ ret' = ret
    BY <2>3 DEF TimedOut
  <2>4. ASSUME ret = "close" PROVE wpc' = "closed" /\ wi' = wi /\ ret' = ret
    BY <2>4 DEF TimedOut
  <2> QED BY <2>1, <2>2, <2>3, <2>4
<1>3. failed' \in BOOLEAN /\ prog' = prog /\ ret \in {"none", "queue", "turn", "flush", "close"}
  BY <1>1 DEF TypeOK, instance
<1>4. left \in Nat /\ next \in Nat
  BY WriterNumbers
<1>5. CASE ret = "close"
  <2>1. wi > Len(prog) /\ left = 0 /\ next = Total + 1
    BY <1>1, <1>5, ClosingFacts
  <2>2. wpc' = "closed" /\ wi' = wi /\ ret' = ret /\ next' = next /\ left' = left /\ obuf' = <<>>
    BY <1>1, <1>2, <1>5
  <2>3. WriterInv' /\ WriterTypes'
    BY <2>1, <2>2, <1>1, <1>3, Closes
  <2> QED BY <2>2, <2>3, <1>1 DEF WriterStep, Sends, Fails
<1>6. CASE ret # "close"
  <2>1. /\ ret \in {"queue", "turn", "flush"} /\ wi \in 1 .. Len(prog)
        /\ prog[wi].from <= next /\ next + left = prog[wi].upto + 1
        /\ prog[wi].from \in Nat /\ prog[wi].upto \in Nat
        /\ ret = "flush" => left = 0
        /\ ret = "turn" => Op # "line"
    BY <1>1, <1>6, ClosingFacts
  <2>2. obuf' = obuf /\ obuf # <<>> /\ wi <= Len(prog)
    BY <1>1, <1>6, <2>1, WriterNumbers DEF WriterInv
  <2>3. CASE ret = "queue" /\ Op = "line"
    <3>1. next' = prog[wi].upto + 1 /\ left' = 0 /\ Queued /\ prog[wi].from <= next' /\ next <= next'
      BY <2>1, <2>3, <1>1, <1>2, <1>4
    <3>2. left' \in Nat /\ next' \in Nat /\ next' + left' = prog[wi].upto + 1
      BY <3>1, <2>1
    <3>3. WriterInv' /\ WriterTypes'
      BY <3>1, <3>2, <2>1, <1>3, AfterQueued
    <3> QED BY <3>1, <3>3, <2>1, <2>2, <2>3, <1>1 DEF WriterStep, Sends, Fails
  <2>4. CASE ~ (ret = "queue" /\ Op = "line")
    <3>1. next' = next /\ left' = left
      BY <2>4, <1>1
    <3>2. WriterInv' /\ WriterTypes'
      <4>1. CASE ret = "queue"
        <5>1. Queued /\ Op # "line"
          BY <4>1, <2>4, <1>2
        <5> QED BY <5>1, <3>1, <2>1, <1>3, <1>4, AfterQueued
      <4>2. CASE ret = "turn"
        <5>1. wpc' = "send" /\ wi' = wi /\ ret' = ret /\ Op # "line"
          BY <4>2, <2>1, <1>2
        <5> QED BY <5>1, <3>1, <2>1, <1>3, <1>4, OpGoesOn
      <4>3. CASE ret = "flush"
        <5>1. NextOp /\ ret' = ret /\ left' = 0 /\ next' = prog[wi].upto + 1
          BY <4>3, <3>1, <2>1, <1>2, <1>4
        <5> QED BY <5>1, <2>2, <1>3, OpDone
      <4> QED BY <4>1, <4>2, <4>3, <2>1
    <3> QED BY <3>1, <3>2, <2>2, <1>1 DEF WriterStep, Sends, Fails
  <2> QED BY <2>3, <2>4
<1> QED BY <1>5, <1>6

LEMMA WriteFailsStep ==
    ASSUME TypeOK, WriterInv, WriteFails
    PROVE  WriterStep
<1>1. /\ wpc \in {"select", "write"} /\ rpc = "left" /\ failed' = TRUE
      /\ IF ret = "close"
           THEN wpc' = "closed" /\ UNCHANGED <<wi, ret, next, left>>
           ELSE NextOp /\ next' = next + left /\ left' = 0 /\ ret' = ret
      /\ UNCHANGED <<instance, obuf, sock, reader>>
  BY DEF WriteFails
<1>2. failed' \in BOOLEAN /\ prog' = prog /\ ret \in {"none", "queue", "turn", "flush", "close"}
  BY <1>1 DEF TypeOK, instance
<1>3. CASE ret = "close"
  <2>1. wi > Len(prog) /\ left = 0 /\ next = Total + 1
    BY <1>1, <1>3, ClosingFacts
  <2>2. WriterInv' /\ WriterTypes'
    BY <2>1, <1>1, <1>2, <1>3, Closes
  <2> QED BY <2>2, <1>1, <1>3 DEF WriterStep, Sends, Fails
<1>4. CASE ret # "close"
  <2>1. wi \in 1 .. Len(prog) /\ prog[wi].from <= next /\ next + left = prog[wi].upto + 1
    BY <1>1, <1>4, ClosingFacts
  <2>2. /\ NextOp /\ next' = prog[wi].upto + 1 /\ next <= next' /\ left' = 0 /\ ret' = ret
        /\ wi <= Len(prog)
    BY <2>1, <1>1, <1>4, WriterNumbers
  <2>3. WriterInv' /\ WriterTypes'
    BY <2>2, <1>2, OpDone
  <2> QED BY <2>1, <2>2, <2>3, <1>1 DEF WriterStep, Sends, Fails
<1> QED BY <1>3, <1>4

LEMMA WriterSteps ==
    ASSUME TypeOK, WriterInv, Writes \/ TimedOut
    PROVE  WriterStep
BY BeginOpStep, WriteLineStep, SendFileStep, SendFileRoomStep, SendFileEndsStep, CloseStep,
   WriteStep, WriteFailsStep, TimedOutStep DEF Writes

\* The buffer and the kernel hold what they have room for.
LEMMA SendsTypes ==
    ASSUME TypeOK, Sends, UNCHANGED instance
    PROVE  /\ obuf' \in Seq(Bytes) /\ Len(obuf') <= OutSize
           /\ sock' \in Seq(Bytes) /\ Len(sock') <= Capacity
           /\ Bytes' = Bytes
<1>1. Bytes' = Bytes
  BY DEF instance, Bytes, Total
<1>2. obuf \in Seq(Bytes) /\ sock \in Seq(Bytes) /\ Len(obuf) <= OutSize /\ Len(sock) <= Capacity
  BY DEF TypeOK
<1>3. CASE Waits
  BY <1>1, <1>2, <1>3 DEF Waits
<1>4. CASE Queues
  <2>1. PICK k \in 0 .. left : k <= OutSize - Len(obuf) /\ obuf' = obuf \o Numbers(next, next + k)
    BY <1>4 DEF Queues
  <2>2. /\ wi <= Len(prog) /\ prog[wi].from <= next /\ next + left = prog[wi].upto + 1 /\ sock' = sock
    BY <1>4 DEF Queues
  <2>3. wi \in 1 .. Len(prog) /\ k \in Nat /\ next \in Nat \ {0} /\ left \in Nat /\ OutSize \in Nat /\ Len(obuf) \in Nat
    BY <2>2, WriterNumbers
  <2>4. prog[wi].upto \in Nat /\ prog[wi].upto <= Total /\ Total \in Nat
    BY <2>3, Programmed
  <2> DEFINE new == Numbers(next, next + k)
  <2>5. new \in Seq(next .. next + k - 1) /\ Len(new) = k
    <3>1. next \in Nat
      BY <2>3
    <3> QED BY <3>1, <2>3, NumbersProperties
  <2>6. next .. next + k - 1 \subseteq Bytes
    BY <2>2, <2>3, <2>4 DEF Bytes
  <2> HIDE DEF new
  <2>7. new \in Seq(Bytes)
    BY <2>5, <2>6, SeqMonotonic
  <2>8. obuf \o new \in Seq(Bytes) /\ Len(obuf \o new) = Len(obuf) + Len(new)
    BY <2>7, <1>2, ConcatProperties
  <2>9. obuf' = obuf \o new
    BY <2>1 DEF new
  <2>10. Len(obuf') <= OutSize
    BY <2>1, <2>3, <2>5, <2>8, <2>9
  <2> QED BY <2>2, <2>8, <2>9, <2>10, <1>1, <1>2
<1>5. CASE Moves
  <2>1. PICK k \in 1 .. Len(obuf) : k <= Room /\ sock' = sock \o SubSeq(obuf, 1, k) /\ obuf' = Drop(obuf, k)
    BY <1>5 DEF Moves
  <2>2. Len(obuf) \in Nat /\ Len(sock) \in Nat /\ Capacity \in Nat /\ OutSize \in Nat
    BY WriterNumbers
  <2>3. k \in 0 .. Len(obuf)
    BY <2>2
  <2> DEFINE new == SubSeq(obuf, 1, k)
  <2>4. new \in Seq(Bytes) /\ Len(new) = k /\ obuf' \in Seq(Bytes) /\ Len(obuf') = Len(obuf) - k
    BY <2>1, <2>3, <1>2, TakeProperties, DropProperties
  <2> HIDE DEF new
  <2>5. sock \o new \in Seq(Bytes) /\ Len(sock \o new) = Len(sock) + Len(new)
    BY <2>4, <1>2, ConcatProperties
  <2>6. sock' = sock \o new
    BY <2>1 DEF new
  <2>7. Len(sock') <= Capacity /\ Len(obuf') <= OutSize
    BY <2>1, <2>2, <2>4, <2>5, <2>6, <1>2 DEF Room
  <2> QED BY <2>4, <2>5, <2>6, <2>7, <1>1
<1>6. CASE Fails
  <2>1. sock' = sock /\ (obuf' = obuf \/ obuf' = <<>>)
    BY <1>6 DEF Fails
  <2>2. ASSUME obuf' = <<>> PROVE obuf' \in Seq(Bytes) /\ Len(obuf') <= OutSize
    BY <2>2, WriterNumbers, EmptySeq
  <2>3. ASSUME obuf' = obuf PROVE obuf' \in Seq(Bytes) /\ Len(obuf') <= OutSize
    BY <2>3, <1>2
  <2>4. sock' \in Seq(Bytes) /\ Len(sock') <= Capacity
    BY <2>1, <1>2
  <2> QED BY <2>1, <2>2, <2>3, <2>4, <1>1
<1> QED BY <1>3, <1>4, <1>5, <1>6 DEF Sends

-------------------------------------------------------------------------------
(* The reader. *)

LEMMA DropDrop ==
    ASSUME NEW S, NEW s \in Seq(S), NEW n \in 0 .. Len(s), NEW m \in 0 .. Len(s) - n
    PROVE  Drop(Drop(s, n), m) = Drop(s, n + m)
<1> DEFINE d == Drop(s, n)
           l == Drop(d, m)
           r == Drop(s, n + m)
<1>1. Len(s) \in Nat /\ n + m \in 0 .. Len(s)
  BY LenProperties
<1>2. d \in Seq(S) /\ Len(d) = Len(s) - n /\ \A i \in 1 .. Len(s) - n : d[i] = s[n + i]
  BY DropProperties
<1>3. r \in Seq(S) /\ Len(r) = Len(s) - (n + m) /\ \A i \in 1 .. Len(s) - (n + m) : r[i] = s[n + m + i]
  <2> DEFINE k == n + m
  <2>1. k \in 0 .. Len(s)
    BY <1>1
  <2> HIDE DEF k
  <2>2. /\ Drop(s, k) \in Seq(S) /\ Len(Drop(s, k)) = Len(s) - k
        /\ \A i \in 1 .. Len(s) - k : Drop(s, k)[i] = s[k + i]
    BY <2>1, DropProperties
  <2> QED BY <2>2 DEF k
<1> HIDE DEF d, r
<1>4. m \in 0 .. Len(d)
  BY <1>2
<1>5. l \in Seq(S) /\ Len(l) = Len(d) - m /\ \A i \in 1 .. Len(d) - m : l[i] = d[m + i]
  BY <1>2, <1>4, DropProperties, ZenonT(40)
<1> HIDE DEF l
<1>6. Len(l) = Len(r)
  BY <1>1, <1>2, <1>3, <1>5
<1>7. ASSUME NEW i \in 1 .. Len(l) PROVE l[i] = r[i]
  <2>1. i \in 1 .. Len(d) - m /\ m + i \in 1 .. Len(s) - n /\ i \in 1 .. Len(s) - (n + m) /\ n + (m + i) = n + m + i
    BY <1>1, <1>2, <1>5
  <2> QED BY <2>1, <1>2, <1>3, <1>5
<1>8. l = r
  BY <1>3, <1>5, <1>6, <1>7, SeqEqual
<1> QED BY <1>8 DEF l, r, d

LEMMA NothingDropped ==
    ASSUME NEW S, NEW s \in Seq(S)
    PROVE  Drop(s, 0) = s /\ SubSeq(s, 1, 0) = <<>>
<1>1. SubSeq(s, 1, Len(s)) = s /\ SubSeq(s, 1, 0) = <<>>
  BY SubSeqFull, SubSeqEmpty
<1>2. 0 + 1 = 1
  OBVIOUS
<1> QED BY <1>1, <1>2 DEF Drop

\* Numbers the reader computes with.
LEMMA ReaderNumbers ==
    ASSUME TypeOK
    PROVE  /\ InSize \in Nat \ {0} /\ Len(ibuf) \in Nat /\ Len(ibuf) <= InSize /\ start \in 0 .. Len(ibuf)
           /\ Rest \in Seq(Bytes) /\ Avail = Len(Rest) /\ Avail \in Nat /\ (Avail = 0 => Rest = <<>>)
           /\ sock \in Seq(Bytes) /\ Len(sock) \in Nat /\ (sock = <<>> <=> Len(sock) = 0)
           /\ acc \in Seq(Bytes) /\ Len(acc) \in Nat /\ ibuf \in Seq(Bytes)
           /\ ReadsOp.op \in {"line", "bytes", "copy"} /\ ReadsOp.n \in Nat
           /\ ReadsOp.op = "bytes" => ReadsOp.n > 0
<1>1. /\ ibuf \in Seq(Bytes) /\ start \in 0 .. Len(ibuf) /\ Len(ibuf) <= InSize
      /\ sock \in Seq(Bytes) /\ acc \in Seq(Bytes) /\ reads \in Readers /\ ri \in Nat \ {0}
  BY DEF TypeOK
<1>2. /\ InSize \in Nat \ {0} /\ Len(ibuf) \in Nat /\ Len(sock) \in Nat /\ Len(acc) \in Nat
      /\ (sock = <<>> <=> Len(sock) = 0)
  BY <1>1, StreamAssumption, LenProperties, EmptySeq
<1>3. Rest \in Seq(Bytes) /\ Len(Rest) = Len(ibuf) - start
  BY <1>1, DropProperties DEF Rest
<1>4. Len(Rest) = 0 => Rest = <<>>
  BY <1>3, EmptySeq
<1>5. Avail = Len(Rest) /\ Avail \in Nat
  BY <1>1, <1>2, <1>3 DEF Avail
<1>6. reads \in Seq(ReadOp) /\ reads # <<>>
  BY <1>1, StreamAssumption
<1>7. Len(reads) \in Nat \ {0}
  BY <1>6, EmptySeq
<1>8. Least(ri, Len(reads)) \in 1 .. Len(reads)
  BY <1>1, <1>7 DEF Least
<1>9. ReadsOp \in ReadOp
  BY <1>6, <1>8, ElementOfSeq DEF ReadsOp
<1>10. /\ ReadsOp.op \in {"line", "bytes", "copy"} /\ ReadsOp.n \in Nat
       /\ ReadsOp.op = "bytes" => ReadsOp.n > 0
  BY <1>9 DEF ReadOp
<1> QED BY <1>1, <1>2, <1>3, <1>4, <1>5, <1>10

\* What a step of the reader does to the bytes: n of those in the buffer are
\* taken, or k are read into it.
Taken(n) == acc \o SubSeq(Rest, 1, n)
Shifts(n, k) == Rest' = Drop(Rest, n) \o SubSeq(sock, 1, k) /\ sock' = Drop(sock, k)
Keeps(n) == acc' = Taken(n) /\ UNCHANGED <<got, last>>
Gives(n, w) ==
    /\ acc' = <<>> /\ got' = got \cup Members(Taken(n))
    /\ last' = [op |-> ReadsOp.op, n |-> ReadsOp.n, bytes |-> Taken(n), why |-> w]

\* What the operation promises of bytes that it returns.
Exact(bytes, why) ==
    /\ ReadsOp.op = "line" =>
         /\ \A i \in 1 .. Len(bytes) : bytes[i] \in term <=> (why = "done" /\ i = Len(bytes))
         /\ why = "timeout" => Len(bytes) = 0 \/ Len(bytes) >= InSize
    /\ ReadsOp.op = "bytes" /\ why = "done" => Len(bytes) \in 1 .. ReadsOp.n
    /\ ReadsOp.op = "copy" /\ why = "done" => Len(bytes) = ReadsOp.n
    /\ why = "closed" => Ended' /\ Avail' = 0

BufferTypes == ibuf \in Seq(Bytes) /\ Len(ibuf) <= InSize /\ start \in 0 .. Len(ibuf)

Places ==
    /\ rpc \in {"op", "line", "bytes", "poll", "copy", "copying", "done", "left"}
    /\ ri \in Nat \ {0} /\ eof \in BOOLEAN

ReaderStep ==
    /\ \E n \in 0 .. Len(Rest), k \in 0 .. Len(sock) :
         /\ Shifts(n, k)
         /\ \/ Keeps(n)
            \/ \E w \in {"done", "timeout", "closed"} : Gives(n, w) /\ Exact(Taken(n), w)
    /\ BufferTypes' /\ Places' /\ ReaderInv'
    /\ UNCHANGED <<instance, writer>>

\* Nothing is taken or read.
LEMMA Still ==
    ASSUME TypeOK
    PROVE  /\ 0 \in 0 .. Len(Rest) /\ 0 \in 0 .. Len(sock) /\ Taken(0) = acc
           /\ sock' = sock /\ Rest' = Rest => Shifts(0, 0)
<1>1. Rest \in Seq(Bytes) /\ sock \in Seq(Bytes) /\ acc \in Seq(Bytes) /\ Len(Rest) \in Nat /\ Len(sock) \in Nat
  BY ReaderNumbers
<1>2. Drop(Rest, 0) = Rest /\ SubSeq(Rest, 1, 0) = <<>> /\ Drop(sock, 0) = sock /\ SubSeq(sock, 1, 0) = <<>>
  BY <1>1, NothingDropped
<1>3. Rest \o <<>> = Rest /\ acc \o <<>> = acc
  BY <1>1, ConcatEmptySeq
<1> QED BY <1>1, <1>2, <1>3 DEF Taken, Shifts

\* n bytes of the buffer are taken.
LEMMA Taking ==
    ASSUME TypeOK, NEW n \in 0 .. Avail, start' = start + n, ibuf' = ibuf, sock' = sock, UNCHANGED instance
    PROVE  /\ Shifts(n, 0) /\ n \in 0 .. Len(Rest) /\ 0 \in 0 .. Len(sock)
           /\ BufferTypes' /\ Avail' = Avail - n
           /\ Taken(n) \in Seq(Bytes) /\ Len(Taken(n)) = Len(acc) + n
           /\ \A i \in 1 .. Len(Taken(n)) :
                Taken(n)[i] = IF i <= Len(acc) THEN acc[i] ELSE Rest[i - Len(acc)]
<1>1. /\ ibuf \in Seq(Bytes) /\ Len(ibuf) \in Nat /\ Len(ibuf) <= InSize /\ start \in 0 .. Len(ibuf)
      /\ sock \in Seq(Bytes) /\ Rest \in Seq(Bytes) /\ Avail = Len(Rest) /\ Len(sock) \in Nat
      /\ acc \in Seq(Bytes) /\ Len(acc) \in Nat
  BY ReaderNumbers
<1>2. Avail = Len(ibuf) - start
  BY DEF Avail
<1>3. n \in 0 .. Len(ibuf) - start /\ n \in 0 .. Len(Rest)
  BY <1>1, <1>2
<1>4. Rest' = Drop(Rest, n)
  BY <1>1, <1>3, DropDrop DEF Rest
<1>5. Drop(Rest, n) \in Seq(Bytes)
  BY <1>1, <1>3, DropProperties
<1>6. Drop(sock, 0) = sock /\ SubSeq(sock, 1, 0) = <<>> /\ Drop(Rest, n) \o <<>> = Drop(Rest, n)
  BY <1>1, <1>5, NothingDropped, ConcatEmptySeq
<1>7. Shifts(n, 0)
  BY <1>4, <1>6 DEF Shifts
<1>8. Bytes' = Bytes
  BY DEF instance, Bytes, Total
<1>9. start' \in 0 .. Len(ibuf') /\ Avail' = Avail - n
  BY <1>1, <1>2, <1>3 DEF Avail
<1> DEFINE new == SubSeq(Rest, 1, n)
<1>10. new \in Seq(Bytes) /\ Len(new) = n /\ \A i \in 1 .. n : new[i] = Rest[i]
  BY <1>1, <1>3, TakeProperties
<1> HIDE DEF new
<1>11. /\ acc \o new \in Seq(Bytes) /\ Len(acc \o new) = Len(acc) + n
       /\ \A i \in 1 .. Len(acc) + n : (acc \o new)[i] = IF i <= Len(acc) THEN acc[i] ELSE new[i - Len(acc)]
  BY <1>1, <1>10, ConcatProperties
<1>12. Taken(n) = acc \o new
  BY DEF Taken, new
<1>13. \A i \in 1 .. Len(acc) + n : i > Len(acc) => i - Len(acc) \in 1 .. n
  BY <1>1
<1>14. \A i \in 1 .. Len(Taken(n)) : Taken(n)[i] = IF i <= Len(acc) THEN acc[i] ELSE Rest[i - Len(acc)]
  BY <1>1, <1>10, <1>11, <1>12, <1>13
<1> QED BY <1>1, <1>3, <1>7, <1>8, <1>9, <1>11, <1>12, <1>14, SMTT(40) DEF BufferTypes

\* The buffer, before more is read into it.
LEMMA CompactedFacts ==
    ASSUME TypeOK
    PROVE  /\ Compacted \in Seq(Bytes) /\ Len(Compacted) \in Nat /\ Len(Compacted) <= InSize
           /\ StartAfter \in 0 .. Len(Compacted) /\ Drop(Compacted, StartAfter) = Rest
           /\ Avail = 0 => Len(Compacted) = 0
<1>1. /\ ibuf \in Seq(Bytes) /\ Len(ibuf) \in Nat /\ Len(ibuf) <= InSize /\ start \in 0 .. Len(ibuf)
      /\ InSize \in Nat /\ Rest \in Seq(Bytes) /\ Avail = Len(Rest) /\ Avail \in Nat /\ (Avail = 0 => Rest = <<>>)
  BY ReaderNumbers
<1>2. Avail = Len(ibuf) - start
  BY DEF Avail
<1>3. CASE Avail = 0
  <2>1. Compacted = <<>> /\ StartAfter = 0 /\ Rest = <<>>
    BY <1>1, <1>3 DEF Compacted, StartAfter
  <2>2. <<>> \in Seq(Bytes) /\ Len(<<>>) = 0
    BY EmptySeq
  <2>3. Drop(<<>>, 0) = <<>>
    BY <2>2, NothingDropped
  <2> QED BY <2>1, <2>2, <2>3, <1>1
<1>4. CASE Avail # 0 /\ (2 * start > InSize \/ (Len(ibuf) >= InSize /\ start > 0))
  <2>1. Compacted = Rest
    BY <1>4 DEF Compacted
  <2>2. start > 0
    BY <1>1, <1>4
  <2>3. Len(Rest) # Len(ibuf)
    BY <2>2, <1>1, <1>2
  <2>4. StartAfter = 0
    BY <2>1, <2>3 DEF StartAfter
  <2>5. Drop(Rest, 0) = Rest
    BY <1>1, NothingDropped
  <2>6. Len(Rest) <= InSize /\ 0 \in 0 .. Len(Rest)
    BY <1>1, <1>2
  <2> QED BY <2>1, <2>4, <2>5, <2>6, <1>1, <1>4
<1>5. CASE Avail # 0 /\ ~ (2 * start > InSize \/ (Len(ibuf) >= InSize /\ start > 0))
  <2>1. Compacted = ibuf
    BY <1>5 DEF Compacted
  <2>2. StartAfter = start
    BY <2>1, <1>1, <1>5 DEF StartAfter
  <2> QED BY <2>1, <2>2, <1>1, <1>5 DEF Rest
<1> QED BY <1>3, <1>4, <1>5

\* k bytes are read into it, if there are any and there is room for one.
LEMMA Filling ==
    ASSUME TypeOK, Fill, UNCHANGED instance
    PROVE  \E k \in 0 .. Len(sock) :
             /\ Shifts(0, k) /\ BufferTypes' /\ Avail' = Avail + k
             /\ Avail = 0 => k > 0
<1> DEFINE c == Compacted
           k == Least(InSize - Len(c), Len(sock))
           new == SubSeq(sock, 1, k)
<1>1. /\ sock # <<>> \/ Len(c) >= InSize
      /\ ibuf' = c \o new /\ start' = StartAfter /\ sock' = Drop(sock, k)
  BY DEF Fill
<1>2. /\ c \in Seq(Bytes) /\ Len(c) \in Nat /\ Len(c) <= InSize
      /\ StartAfter \in 0 .. Len(c) /\ Drop(c, StartAfter) = Rest
      /\ Avail = 0 => Len(c) = 0
  BY CompactedFacts
<1>3. /\ sock \in Seq(Bytes) /\ Len(sock) \in Nat /\ InSize \in Nat \ {0} /\ (sock = <<>> <=> Len(sock) = 0)
      /\ Rest \in Seq(Bytes) /\ Avail = Len(Rest) /\ Avail \in Nat
  BY ReaderNumbers
<1> HIDE DEF c
<1>4. /\ k \in 0 .. Len(sock) /\ k <= InSize - Len(c)
      /\ Avail = 0 => k > 0
  BY <1>1, <1>2, <1>3 DEF Least
<1> HIDE DEF k
<1>5. new \in Seq(Bytes) /\ Len(new) = k
  BY <1>3, <1>4, TakeProperties
<1> HIDE DEF new
<1>6. c \o new \in Seq(Bytes) /\ Len(c \o new) = Len(c) + k
  BY <1>2, <1>5, ConcatProperties
<1>7. Rest' = Rest \o new
  <2>1. Drop(c \o new, StartAfter) = Drop(c, StartAfter) \o new
    BY <1>2, <1>5, DropConcat
  <2>2. Rest' = Drop(ibuf', start')
    BY DEF Rest
  <2> QED BY <2>1, <2>2, <1>1, <1>2
<1>8. Shifts(0, k)
  <2>1. Drop(Rest, 0) = Rest
    BY <1>3, NothingDropped
  <2> QED BY <2>1, <1>1, <1>7 DEF Shifts, new
<1>9. Bytes' = Bytes
  BY DEF instance, Bytes, Total
<1>10. ibuf' \in Seq(Bytes) /\ Len(ibuf') = Len(c) + k
  BY <1>1, <1>6
<1>11. Len(ibuf') <= InSize /\ start' \in 0 .. Len(ibuf')
  BY <1>10, <1>1, <1>2, <1>3, <1>4
<1>12. Avail' = Avail + k
  <2>1. Len(Drop(c, StartAfter)) = Len(c) - StartAfter
    BY <1>2, DropProperties
  <2>2. Avail' = Len(ibuf') - start'
    BY DEF Avail
  <2>3. Avail = Len(c) - StartAfter
    BY <2>1, <1>2, <1>3
  <2> QED BY <2>2, <2>3, <1>1, <1>2, <1>4, <1>10
<1>13. BufferTypes'
  BY <1>9, <1>10, <1>11 DEF BufferTypes
<1> QED BY <1>4, <1>8, <1>12, <1>13

\* The buffer is only arranged.
LEMMA Arranging ==
    ASSUME TypeOK, Arranged \/ UNCHANGED <<ibuf, start>>, sock' = sock, UNCHANGED instance
    PROVE  Shifts(0, 0) /\ BufferTypes' /\ Avail' = Avail
<1>1. /\ Compacted \in Seq(Bytes) /\ Len(Compacted) \in Nat /\ Len(Compacted) <= InSize
      /\ StartAfter \in 0 .. Len(Compacted) /\ Drop(Compacted, StartAfter) = Rest
  BY CompactedFacts
<1>2. /\ ibuf \in Seq(Bytes) /\ Len(ibuf) <= InSize /\ start \in 0 .. Len(ibuf) /\ Avail = Len(Rest)
  BY ReaderNumbers
<1>3. Bytes' = Bytes
  BY DEF instance, Bytes, Total
<1>4. CASE Arranged
  <2>1. ibuf' = Compacted /\ start' = StartAfter
    BY <1>4 DEF Arranged
  <2>2. Rest' = Rest
    BY <2>1, <1>1 DEF Rest
  <2>3. Len(Drop(Compacted, StartAfter)) = Len(Compacted) - StartAfter
    BY <1>1, DropProperties
  <2>4. Avail' = Avail
    <3>1. Avail' = Len(ibuf') - start'
      BY DEF Avail
    <3> QED BY <3>1, <2>1, <2>3, <1>1, <1>2
  <2> QED BY <2>1, <2>2, <2>4, <1>1, <1>3, Still DEF BufferTypes
<1>5. CASE UNCHANGED <<ibuf, start>>
  <2>1. Rest' = Rest /\ Avail' = Avail
    BY <1>5 DEF Rest, Avail
  <2> QED BY <2>1, <1>2, <1>3, <1>5, Still DEF BufferTypes
<1> QED BY <1>4, <1>5

\* The operation returns.
LEMMA Returned ==
    ASSUME TypeOK, NEW n \in 0 .. Len(Rest), NEW k \in 0 .. Len(sock), NEW w \in {"done", "timeout", "closed"},
           Returns(Taken(n), w), Exact(Taken(n), w), Shifts(n, k), BufferTypes',
           UNCHANGED <<instance, writer>>
    PROVE  ReaderStep
<1>1. /\ Gives(n, w) /\ eof' = FALSE /\ ri' = Least(ri, Len(reads)) + 1
      /\ rpc' = IF w = "closed" THEN "done" ELSE "op"
  BY DEF Returns, Gives
<1>2. Places'
  <2>1. ri \in Nat \ {0} /\ reads \in Seq(ReadOp)
    BY StreamAssumption DEF TypeOK
  <2>2. Len(reads) \in Nat
    BY <2>1, LenProperties
  <2>3. ri' \in Nat \ {0}
    BY <1>1, <2>1, <2>2 DEF Least
  <2> QED BY <1>1, <2>3 DEF Places
<1>3. acc' = <<>> /\ last'.why = w
  BY <1>1 DEF Gives
<1>4. rpc' \in {"op", "done"} /\ (w = "closed" => rpc' = "done")
  BY <1>1
<1>5. ReaderInv'
  BY <1>1, <1>3, <1>4 DEF ReaderInv
<1> QED BY <1>1, <1>2, <1>5 DEF ReaderStep

\* The operation goes on with what it has taken.
LEMMA Continued ==
    ASSUME TypeOK, ReaderInv, rpc # "done", NEW n \in 0 .. Len(Rest), NEW k \in 0 .. Len(sock),
           Shifts(n, k), Keeps(n), BufferTypes', UNCHANGED <<instance, writer, ri>>, eof' \in BOOLEAN,
           eof' => rpc' = "line" /\ Ended',
           \/ rpc' = "line" /\ ReadsOp.op = "line" /\ Members(acc') \cap term = {}
                /\ (eof' \/ acc' = <<>> \/ Len(acc') >= InSize)
           \/ rpc' = "bytes" /\ ReadsOp.op = "bytes" /\ Len(acc') < ReadsOp.n /\ (Avail' = 0 => acc' = <<>>)
           \/ rpc' = "poll" /\ ReadsOp.op = "bytes" /\ Avail' = 0 /\ Len(acc') \in 1 .. ReadsOp.n
           \/ rpc' \in {"copy", "copying"} /\ ReadsOp.op = "copy"
                /\ (ReadsOp.n > 0 => Len(acc') < ReadsOp.n)
           \/ rpc' = "left" /\ acc' = <<>>
    PROVE  ReaderStep
<1>1. ReadsOp' = ReadsOp /\ term' = term /\ last' = last /\ ri' = ri
  BY DEF ReadsOp, instance, Keeps
<1>2. Places'
  BY <1>1 DEF Places, TypeOK
<1>3. ~ (last.op # "none" /\ last.why = "closed")
  BY DEF ReaderInv
<1>4. rpc' \in {"line", "bytes", "poll", "copy", "copying", "left"}
  OBVIOUS
<1>5. ReaderInv'
  BY <1>1, <1>3, <1>4 DEF ReaderInv
<1> QED BY <1>2, <1>5 DEF ReaderStep

LEMMA BeginReadStep ==
    ASSUME TypeOK, ReaderInv, BeginRead
    PROVE  ReaderStep
<1>1. /\ rpc = "op" /\ rpc' = ReadsOp.op
      /\ UNCHANGED <<instance, writer, sock, ibuf, start, ri, acc, eof, last, got>>
  BY DEF BeginRead
<1>2. acc = <<>> /\ ~ eof
  BY <1>1 DEF ReaderInv
<1>3. Shifts(0, 0) /\ BufferTypes' /\ Keeps(0) /\ 0 \in 0 .. Len(Rest) /\ 0 \in 0 .. Len(sock)
  BY <1>1, Arranging, Still DEF Keeps
<1>4. acc' = <<>> /\ Len(acc') = 0 /\ Members(acc') = {} /\ eof' \in BOOLEAN /\ ~ eof'
  BY <1>1, <1>2, EmptySeq DEF TypeOK, Members
<1>5. ReadsOp.op \in {"line", "bytes", "copy"} /\ ReadsOp.n \in Nat /\ (ReadsOp.op = "bytes" => ReadsOp.n > 0)
  BY ReaderNumbers
<1> QED BY <1>1, <1>3, <1>4, <1>5, Continued

LEMMA ReaderLeavesStep ==
    ASSUME TypeOK, ReaderInv, ReaderLeaves
    PROVE  ReaderStep
<1>1. /\ rpc = "op" /\ rpc' = "left"
      /\ UNCHANGED <<instance, writer, sock, ibuf, start, ri, acc, eof, last, got>>
  BY DEF ReaderLeaves
<1>2. acc = <<>> /\ ~ eof
  BY <1>1 DEF ReaderInv
<1>3. Shifts(0, 0) /\ BufferTypes' /\ Keeps(0) /\ 0 \in 0 .. Len(Rest) /\ 0 \in 0 .. Len(sock)
  BY <1>1, Arranging, Still DEF Keeps
<1>4. acc' = <<>> /\ eof' \in BOOLEAN /\ ~ eof'
  BY <1>1, <1>2 DEF TypeOK
<1> QED BY <1>1, <1>3, <1>4, Continued

\* The first line end in the buffer.
LEMMA FoundFirst ==
    ASSUME TypeOK, Found # {}
    PROVE  /\ FirstFound \in 1 .. Avail /\ Rest[FirstFound] \in term
           /\ \A i \in 1 .. FirstFound - 1 : Rest[i] \notin term
<1>1. Avail \in Nat
  BY ReaderNumbers
<1>2. Found \subseteq Nat /\ Found \subseteq 1 .. Avail
  BY <1>1 DEF Found
<1>3. \E i \in Found : \A j \in Found : i <= j
  BY <1>2, LeastNatural
<1>4. FirstFound \in Found /\ \A j \in Found : FirstFound <= j
  BY <1>3 DEF FirstFound
<1>5. FirstFound \in 1 .. Avail
  BY <1>2, <1>4
<1>6. ASSUME NEW i \in 1 .. FirstFound - 1 PROVE Rest[i] \notin term
  <2>1. i \in 1 .. Avail /\ ~ (FirstFound <= i)
    BY <1>1, <1>5
  <2> QED BY <2>1, <1>4 DEF Found
<1> QED BY <1>4, <1>5, <1>6 DEF Found

LEMMA LineFoundStep ==
    ASSUME TypeOK, ReaderInv, LineFound
    PROVE  ReaderStep
<1> DEFINE f == FirstFound
           b == Taken(f)
<1>1. /\ rpc = "line" /\ Found # {} /\ start' = start + f /\ Returns(b, "done")
      /\ UNCHANGED <<instance, writer, sock, ibuf>>
  BY DEF LineFound, Taken
<1>2. f \in 1 .. Avail /\ Rest[f] \in term /\ \A i \in 1 .. f - 1 : Rest[i] \notin term
  BY <1>1, FoundFirst
<1>3. Avail \in Nat /\ Len(acc) \in Nat /\ acc \in Seq(Bytes)
  BY ReaderNumbers
<1>4. ReadsOp.op = "line" /\ Members(acc) \cap term = {}
  BY <1>1 DEF ReaderInv
<1> HIDE DEF f
<1>5. f \in 0 .. Avail
  BY <1>2
<1>6. /\ Shifts(f, 0) /\ f \in 0 .. Len(Rest) /\ 0 \in 0 .. Len(sock) /\ BufferTypes'
      /\ Len(b) = Len(acc) + f
      /\ \A i \in 1 .. Len(b) : b[i] = IF i <= Len(acc) THEN acc[i] ELSE Rest[i - Len(acc)]
  BY <1>1, <1>5, Taking
<1> HIDE DEF b
<1>7. ASSUME NEW i \in 1 .. Len(b) PROVE b[i] \in term <=> i = Len(b)
  <2>1. CASE i <= Len(acc)
    <3>1. i \in 1 .. Len(acc) /\ i # Len(b) /\ b[i] = acc[i]
      BY <2>1, <1>2, <1>3, <1>6
    <3>2. acc[i] \in Members(acc)
      BY <3>1, <1>3, MembersProperties
    <3> QED BY <3>1, <3>2, <1>4
  <2>2. CASE ~ (i <= Len(acc)) /\ i # Len(b)
    <3>1. i - Len(acc) \in 1 .. f - 1 /\ b[i] = Rest[i - Len(acc)]
      BY <2>2, <1>2, <1>3, <1>6
    <3> QED BY <3>1, <2>2, <1>2
  <2>3. CASE i = Len(b)
    <3>1. i - Len(acc) = f /\ ~ (i <= Len(acc))
      BY <2>3, <1>2, <1>3, <1>6
    <3>2. b[i] = Rest[f]
      BY <3>1, <1>6
    <3> QED BY <3>2, <2>3, <1>2
  <2> QED BY <2>1, <2>2, <2>3
<1>8. Exact(b, "done")
  BY <1>4, <1>7 DEF Exact
<1> QED BY <1>1, <1>6, <1>8, Returned DEF b

LEMMA LinePartStep ==
    ASSUME TypeOK, ReaderInv, LinePart
    PROVE  ReaderStep
<1> DEFINE b == Taken(Avail)
<1>1. /\ rpc = "line" /\ Found = {} /\ Avail > 0 /\ (eof \/ (start = 0 /\ Len(ibuf) >= InSize))
      /\ acc' = b /\ start' = start + Least(Avail, Avail) /\ ibuf' = ibuf
      /\ UNCHANGED <<instance, writer, sock, rpc, ri, eof, last, got>>
  BY DEF LinePart, Transfer, Taken
<1>2. Avail \in Nat /\ Len(acc) \in Nat /\ acc \in Seq(Bytes) /\ Len(ibuf) \in Nat /\ InSize \in Nat
  BY ReaderNumbers
<1>3. /\ ReadsOp.op = "line" /\ Members(acc) \cap term = {} /\ (eof => Ended)
  BY <1>1 DEF ReaderInv
<1>4. start' = start + Avail /\ Avail \in 0 .. Avail
  BY <1>1, <1>2 DEF Least
<1>5. /\ Shifts(Avail, 0) /\ Avail \in 0 .. Len(Rest) /\ 0 \in 0 .. Len(sock) /\ BufferTypes'
      /\ b \in Seq(Bytes) /\ Len(b) = Len(acc) + Avail
      /\ \A i \in 1 .. Len(b) : b[i] = IF i <= Len(acc) THEN acc[i] ELSE Rest[i - Len(acc)]
  BY <1>1, <1>4, Taking
<1>6. Keeps(Avail)
  BY <1>1 DEF Keeps
<1> HIDE DEF b
<1>7. ASSUME NEW i \in 1 .. Len(b) PROVE b[i] \notin term
  <2>1. CASE i <= Len(acc)
    <3>1. i \in 1 .. Len(acc) /\ b[i] = acc[i]
      BY <2>1, <1>5
    <3>2. acc[i] \in Members(acc)
      BY <3>1, <1>2, MembersProperties
    <3> QED BY <3>1, <3>2, <1>3
  <2>2. CASE ~ (i <= Len(acc))
    <3>1. i - Len(acc) \in 1 .. Avail /\ b[i] = Rest[i - Len(acc)]
      BY <2>2, <1>2, <1>5
    <3> QED BY <3>1, <1>1 DEF Found
  <2> QED BY <2>1, <2>2
<1>8. Members(acc') \cap term = {}
  BY <1>1, <1>5, <1>7, MembersProperties
<1>9. eof' \/ Len(acc') >= InSize
  <2>1. CASE eof
    BY <2>1, <1>1
  <2>2. CASE start = 0 /\ Len(ibuf) >= InSize
    BY <2>2, <1>1, <1>2, <1>5 DEF Avail
  <2> QED BY <2>1, <2>2, <1>1
<1>10. rpc' = "line" /\ eof' \in BOOLEAN /\ (eof' => Ended')
  BY <1>1, <1>3 DEF TypeOK, Ended, writer
<1> QED BY <1>1, <1>3, <1>5, <1>6, <1>8, <1>9, <1>10, Continued

LEMMA LineFillStep ==
    ASSUME TypeOK, ReaderInv, LineFill
    PROVE  ReaderStep
<1>1. /\ rpc = "line" /\ ~ eof /\ Fill
      /\ UNCHANGED <<instance, writer, rpc, ri, acc, eof, last, got>>
  BY DEF LineFill, LineWants
<1>2. PICK k \in 0 .. Len(sock) : Shifts(0, k) /\ BufferTypes'
  BY <1>1, Filling
<1>3. Keeps(0) /\ 0 \in 0 .. Len(Rest)
  BY <1>1, Still DEF Keeps
<1>4. /\ ReadsOp.op = "line" /\ Members(acc) \cap term = {} /\ (acc = <<>> \/ Len(acc) >= InSize)
  BY <1>1 DEF ReaderInv
<1>5. ~ eof' /\ eof' \in BOOLEAN /\ rpc' = "line" /\ Members(acc') = Members(acc) /\ acc' = acc
  BY <1>1 DEF TypeOK, Members
<1> QED BY <1>1, <1>2, <1>3, <1>4, <1>5, Continued

LEMMA LineEofStep ==
    ASSUME TypeOK, ReaderInv, LineEof
    PROVE  ReaderStep
<1>1. /\ rpc = "line" /\ Ended /\ Arranged /\ UNCHANGED sock /\ eof' = TRUE
      /\ UNCHANGED <<instance, writer, rpc, ri, acc, last, got>>
  BY DEF LineEof, LineWants, FillEnded
<1>2. Shifts(0, 0) /\ BufferTypes'
  BY <1>1, Arranging
<1>3. Keeps(0) /\ 0 \in 0 .. Len(Rest) /\ 0 \in 0 .. Len(sock)
  BY <1>1, Still DEF Keeps
<1>4. /\ ReadsOp.op = "line" /\ Members(acc) \cap term = {}
  BY <1>1 DEF ReaderInv
<1>5. Ended' /\ Members(acc') = Members(acc) /\ rpc' = "line"
  BY <1>1 DEF Ended, writer, Members
<1> QED BY <1>1, <1>2, <1>3, <1>4, <1>5, Continued

\* A line without an end is returned.
LEMMA LineShort ==
    ASSUME TypeOK, ReadsOp.op = "line", Members(acc) \cap term = {}, NEW w \in {"timeout", "closed"},
           w = "timeout" => Len(acc) = 0 \/ Len(acc) >= InSize,
           w = "closed" => Ended' /\ Avail' = 0
    PROVE  Exact(acc, w)
<1>1. acc \in Seq(Bytes)
  BY ReaderNumbers
<1>2. \A i \in 1 .. Len(acc) : acc[i] \notin term
  BY <1>1, MembersProperties
<1> QED BY <1>2 DEF Exact

LEMMA LineTimedOutStep ==
    ASSUME TypeOK, ReaderInv, LineTimedOut
    PROVE  ReaderStep
<1>1. /\ rpc = "line" /\ ~ eof /\ Arranged /\ UNCHANGED sock /\ Returns(acc, "timeout")
      /\ UNCHANGED <<instance, writer>>
  BY DEF LineTimedOut, LineWants, FillTimedOut
<1>2. Shifts(0, 0) /\ BufferTypes' /\ 0 \in 0 .. Len(Rest) /\ 0 \in 0 .. Len(sock) /\ Taken(0) = acc
  BY <1>1, Arranging, Still
<1>3. /\ ReadsOp.op = "line" /\ Members(acc) \cap term = {} /\ (acc = <<>> \/ Len(acc) >= InSize)
  BY <1>1 DEF ReaderInv
<1>4. Len(acc) = 0 \/ Len(acc) >= InSize
  BY <1>3, EmptySeq
<1>5. Exact(acc, "timeout")
  BY <1>3, <1>4, LineShort
<1> QED BY <1>1, <1>2, <1>5, Returned

LEMMA LineEndsStep ==
    ASSUME TypeOK, ReaderInv, LineEnds
    PROVE  ReaderStep
<1>1. /\ rpc = "line" /\ eof /\ Avail = 0 /\ Returns(acc, "closed")
      /\ UNCHANGED <<instance, writer, sock, ibuf, start>>
  BY DEF LineEnds
<1>2. /\ Shifts(0, 0) /\ BufferTypes' /\ 0 \in 0 .. Len(Rest) /\ 0 \in 0 .. Len(sock) /\ Taken(0) = acc
      /\ Avail' = 0
  BY <1>1, Arranging, Still
<1>3. /\ ReadsOp.op = "line" /\ Members(acc) \cap term = {} /\ Ended
  BY <1>1 DEF ReaderInv
<1>4. Ended'
  BY <1>1, <1>3 DEF Ended, writer
<1>5. Exact(acc, "closed")
  BY <1>2, <1>3, <1>4, LineShort
<1> QED BY <1>1, <1>2, <1>5, Returned

LEMMA BytesFillStep ==
    ASSUME TypeOK, ReaderInv, BytesFill
    PROVE  ReaderStep
<1>1. /\ rpc = "bytes" /\ Avail = 0 /\ Fill
      /\ UNCHANGED <<instance, writer, rpc, ri, acc, eof, last, got>>
  BY DEF BytesFill
<1>2. PICK k \in 0 .. Len(sock) : Shifts(0, k) /\ BufferTypes' /\ Avail' = Avail + k /\ k > 0
  BY <1>1, Filling
<1>3. Keeps(0) /\ 0 \in 0 .. Len(Rest) /\ Len(sock) \in Nat
  BY <1>1, Still, ReaderNumbers DEF Keeps
<1>4. ReadsOp.op = "bytes" /\ Len(acc) < ReadsOp.n /\ ~ eof
  BY <1>1 DEF ReaderInv
<1>5. ~ eof' /\ eof' \in BOOLEAN /\ rpc' = "bytes" /\ Len(acc') < ReadsOp.n
  BY <1>1, <1>4 DEF TypeOK
<1>6. Avail' # 0
  BY <1>1, <1>2, <1>3
<1> QED BY <1>1, <1>2, <1>3, <1>4, <1>5, <1>6, Continued

LEMMA BytesNoneStep ==
    ASSUME TypeOK, ReaderInv, BytesNone
    PROVE  ReaderStep
<1>1. /\ rpc = "bytes" /\ Avail = 0 /\ Arranged /\ UNCHANGED sock
      /\ \/ Ended /\ Returns(<<>>, "closed")
         \/ Returns(<<>>, "timeout")
      /\ UNCHANGED <<instance, writer>>
  BY DEF BytesNone, FillEnded, FillTimedOut
<1>2. ReadsOp.op = "bytes" /\ acc = <<>>
  BY <1>1 DEF ReaderInv
<1>3. /\ Shifts(0, 0) /\ BufferTypes' /\ 0 \in 0 .. Len(Rest) /\ 0 \in 0 .. Len(sock) /\ Taken(0) = <<>>
      /\ Avail' = 0
  BY <1>1, <1>2, Arranging, Still
<1>4. CASE Ended /\ Returns(<<>>, "closed")
  <2>1. Ended'
    BY <1>1, <1>4 DEF Ended, writer
  <2>2. Exact(<<>>, "closed")
    BY <2>1, <1>2, <1>3 DEF Exact
  <2> QED BY <2>2, <1>1, <1>3, <1>4, Returned
<1>5. CASE Returns(<<>>, "timeout")
  <2>1. Exact(<<>>, "timeout")
    BY <1>2 DEF Exact
  <2> QED BY <2>1, <1>1, <1>3, <1>5, Returned
<1> QED BY <1>1, <1>4, <1>5

LEMMA BytesTakeStep ==
    ASSUME TypeOK, ReaderInv, BytesTake
    PROVE  ReaderStep
<1> DEFINE n == Least(Avail, ReadsOp.n - Len(acc))
<1>1. /\ rpc = "bytes" /\ Avail > 0
      /\ IF n = Avail
           THEN /\ acc' = Taken(n) /\ start' = start + Least(n, Avail) /\ ibuf' = ibuf
                /\ rpc' = "poll" /\ UNCHANGED <<ri, eof, last, got>>
           ELSE start' = start + n /\ Returns(Taken(n), "done") /\ ibuf' = ibuf
      /\ UNCHANGED <<instance, writer, sock>>
  BY DEF BytesTake, Transfer, Taken
<1>2. ReadsOp.op = "bytes" /\ Len(acc) < ReadsOp.n /\ ~ eof
  BY <1>1 DEF ReaderInv
<1>3. Avail \in Nat /\ Len(acc) \in Nat /\ ReadsOp.n \in Nat
  BY ReaderNumbers
<1>4. /\ n \in 1 .. Avail /\ n \in 0 .. Avail /\ Least(n, Avail) = n /\ Len(acc) + n <= ReadsOp.n
      /\ n # Avail => Len(acc) + n = ReadsOp.n
  BY <1>1, <1>2, <1>3 DEF Least
<1> HIDE DEF n
<1>5. start' = start + n /\ ibuf' = ibuf /\ sock' = sock /\ UNCHANGED instance
  BY <1>1, <1>4
<1>6. /\ Shifts(n, 0) /\ n \in 0 .. Len(Rest) /\ 0 \in 0 .. Len(sock) /\ BufferTypes'
      /\ Len(Taken(n)) = Len(acc) + n /\ Avail' = Avail - n
  BY <1>4, <1>5, Taking
<1>7. Len(Taken(n)) \in 1 .. ReadsOp.n
  BY <1>3, <1>4, <1>6
<1>8. CASE n = Avail
  <2>1. Keeps(n) /\ rpc' = "poll" /\ ri' = ri /\ eof' = eof /\ Len(acc') \in 1 .. ReadsOp.n
    BY <1>1, <1>7, <1>8 DEF Keeps
  <2>2. Avail' = 0 /\ eof' \in BOOLEAN /\ ~ eof'
    BY <2>1, <1>2, <1>3, <1>6, <1>8 DEF TypeOK
  <2> QED BY <2>1, <2>2, <1>1, <1>2, <1>6, Continued
<1>9. CASE n # Avail
  <2>1. Returns(Taken(n), "done")
    BY <1>1, <1>9
  <2>2. Exact(Taken(n), "done")
    BY <1>2, <1>7 DEF Exact
  <2> QED BY <2>1, <2>2, <1>1, <1>6, Returned
<1> QED BY <1>8, <1>9

LEMMA BytesPollStep ==
    ASSUME TypeOK, ReaderInv, BytesPoll
    PROVE  ReaderStep
<1>1. /\ rpc = "poll" /\ UNCHANGED <<instance, writer>>
      /\ \/ /\ Fill
            /\ IF Len(acc) < ReadsOp.n
                 THEN rpc' = "bytes" /\ UNCHANGED <<ri, acc, eof, last, got>>
                 ELSE Returns(acc, "done")
         \/ /\ Returns(acc, "done") /\ UNCHANGED sock
            /\ Arranged \/ UNCHANGED <<ibuf, start>>
  BY DEF BytesPoll
<1>2. ReadsOp.op = "bytes" /\ Avail = 0 /\ Len(acc) \in 1 .. ReadsOp.n /\ ~ eof
  BY <1>1 DEF ReaderInv
<1>3. Exact(acc, "done")
  BY <1>2 DEF Exact
<1>4. 0 \in 0 .. Len(Rest) /\ 0 \in 0 .. Len(sock) /\ Taken(0) = acc /\ Len(sock) \in Nat
  BY Still, ReaderNumbers
<1>5. CASE Fill
  <2>1. PICK k \in 0 .. Len(sock) : Shifts(0, k) /\ BufferTypes' /\ Avail' = Avail + k /\ k > 0
    BY <1>1, <1>2, <1>5, Filling
  <2>2. CASE Returns(acc, "done")
    BY <2>1, <2>2, <1>1, <1>3, <1>4, Returned
  <2>3. CASE ~ Returns(acc, "done")
    <3>1. Len(acc) < ReadsOp.n /\ rpc' = "bytes" /\ UNCHANGED <<ri, acc, eof, last, got>>
      BY <2>3, <1>1
    <3>2. Keeps(0) /\ Avail' # 0 /\ eof' \in BOOLEAN /\ ~ eof' /\ Len(acc') < ReadsOp.n
      BY <2>1, <3>1, <1>2, <1>4 DEF Keeps, TypeOK
    <3> QED BY <2>1, <3>1, <3>2, <1>1, <1>2, <1>4, Continued
  <2> QED BY <2>2, <2>3
<1>6. CASE Returns(acc, "done") /\ UNCHANGED sock /\ (Arranged \/ UNCHANGED <<ibuf, start>>)
  <2>1. Shifts(0, 0) /\ BufferTypes'
    BY <1>1, <1>6, Arranging
  <2> QED BY <2>1, <1>1, <1>3, <1>4, <1>6, Returned
<1> QED BY <1>1, <1>5, <1>6

LEMMA CopyFillStep ==
    ASSUME TypeOK, ReaderInv, CopyFill
    PROVE  ReaderStep
<1>1. /\ rpc = "copy" /\ (Fill \/ (Arranged /\ UNCHANGED sock)) /\ rpc' = "copying"
      /\ UNCHANGED <<instance, writer, ri, acc, eof, last, got>>
  BY DEF CopyFill, FillTimedOut
<1>2. \E k \in 0 .. Len(sock) : Shifts(0, k) /\ BufferTypes'
  <2>1. CASE Fill
    BY <2>1, <1>1, Filling
  <2>2. CASE Arranged /\ UNCHANGED sock
    BY <2>2, <1>1, Arranging, Still
  <2> QED BY <2>1, <2>2, <1>1
<1>3. PICK k \in 0 .. Len(sock) : Shifts(0, k) /\ BufferTypes'
  BY <1>2
<1>4. Keeps(0) /\ 0 \in 0 .. Len(Rest)
  BY <1>1, Still DEF Keeps
<1>5. ReadsOp.op = "copy" /\ (ReadsOp.n > 0 => Len(acc) < ReadsOp.n) /\ ~ eof
  BY <1>1 DEF ReaderInv
<1>6. ~ eof' /\ eof' \in BOOLEAN /\ acc' = acc
  BY <1>1, <1>5 DEF TypeOK
<1> QED BY <1>1, <1>3, <1>4, <1>5, <1>6, Continued

LEMMA CopyEofStep ==
    ASSUME TypeOK, ReaderInv, CopyEof
    PROVE  ReaderStep
<1>1. /\ rpc = "copy" /\ Ended /\ Arranged /\ UNCHANGED sock
      /\ IF Avail = 0 THEN Returns(acc, "closed") ELSE rpc' = "copying" /\ UNCHANGED <<ri, acc, eof, last, got>>
      /\ UNCHANGED <<instance, writer>>
  BY DEF CopyEof, FillEnded
<1>2. Shifts(0, 0) /\ BufferTypes' /\ Avail' = Avail
  BY <1>1, Arranging
<1>3. 0 \in 0 .. Len(Rest) /\ 0 \in 0 .. Len(sock) /\ Taken(0) = acc
  BY Still
<1>4. ReadsOp.op = "copy" /\ (ReadsOp.n > 0 => Len(acc) < ReadsOp.n) /\ ~ eof
  BY <1>1 DEF ReaderInv
<1>5. CASE Avail = 0
  <2>1. Ended'
    BY <1>1 DEF Ended, writer
  <2>2. Exact(acc, "closed")
    BY <2>1, <1>2, <1>4, <1>5 DEF Exact
  <2> QED BY <2>2, <1>1, <1>2, <1>3, <1>5, Returned
<1>6. CASE Avail # 0
  <2>1. rpc' = "copying" /\ UNCHANGED <<ri, acc, eof, last, got>>
    BY <1>1, <1>6
  <2>2. Keeps(0) /\ ~ eof' /\ eof' \in BOOLEAN /\ acc' = acc
    BY <2>1, <1>3, <1>4 DEF Keeps, TypeOK
  <2> QED BY <2>1, <2>2, <1>1, <1>2, <1>3, <1>4, Continued
<1> QED BY <1>5, <1>6

LEMMA CopyMoveStep ==
    ASSUME TypeOK, ReaderInv, CopyMove
    PROVE  ReaderStep
<1>1. PICK n \in (IF Avail = 0 THEN {0} ELSE 1 .. Least(Avail, Wanted)) :
        /\ rpc \in {"copy", "copying"} /\ start' = start + n
        /\ IF ReadsOp.n > 0 /\ n = Wanted
             THEN Returns(Taken(n), "done")
             ELSE acc' = Taken(n) /\ rpc' = "copy" /\ UNCHANGED <<ri, eof, last, got>>
        /\ UNCHANGED <<instance, writer, sock, ibuf>>
  BY DEF CopyMove, Taken
<1>2. ReadsOp.op = "copy" /\ (ReadsOp.n > 0 => Len(acc) < ReadsOp.n) /\ ~ eof
  BY <1>1 DEF ReaderInv
<1>3. Avail \in Nat /\ Len(acc) \in Nat /\ ReadsOp.n \in Nat /\ InSize \in Nat
  BY ReaderNumbers
<1>4. /\ Wanted \in Nat
      /\ ReadsOp.n > 0 => Wanted = ReadsOp.n - Len(acc) /\ Wanted > 0
  BY <1>2, <1>3 DEF Wanted
<1>5. n \in 0 .. Avail /\ n <= Wanted
  <2>1. CASE Avail = 0
    BY <2>1, <1>1, <1>4
  <2>2. CASE Avail # 0
    BY <2>2, <1>1, <1>3, <1>4 DEF Least
  <2> QED BY <2>1, <2>2
<1>6. /\ Shifts(n, 0) /\ n \in 0 .. Len(Rest) /\ 0 \in 0 .. Len(sock) /\ BufferTypes'
      /\ Len(Taken(n)) = Len(acc) + n
  BY <1>1, <1>5, Taking
<1>7. CASE ReadsOp.n > 0 /\ n = Wanted
  <2>1. Returns(Taken(n), "done")
    BY <1>1, <1>7
  <2>2. Len(Taken(n)) = ReadsOp.n
    BY <1>3, <1>4, <1>6, <1>7
  <2>3. Exact(Taken(n), "done")
    BY <2>2, <1>2 DEF Exact
  <2> QED BY <2>1, <2>3, <1>1, <1>6, Returned
<1>8. CASE ~ (ReadsOp.n > 0 /\ n = Wanted)
  <2>1. acc' = Taken(n) /\ rpc' = "copy" /\ UNCHANGED <<ri, eof, last, got>>
    BY <1>1, <1>8
  <2>2. Keeps(n) /\ ~ eof' /\ eof' \in BOOLEAN
    BY <2>1, <1>2 DEF Keeps, TypeOK
  <2>3. ReadsOp.n > 0 => Len(acc') < ReadsOp.n
    BY <2>1, <1>3, <1>4, <1>5, <1>6, <1>8
  <2> QED BY <2>1, <2>2, <2>3, <1>1, <1>2, <1>6, Continued
<1> QED BY <1>7, <1>8

LEMMA ReaderSteps ==
    ASSUME TypeOK, ReaderInv, Reads \/ ReaderLeaves
    PROVE  ReaderStep
BY BeginReadStep, LineFoundStep, LinePartStep, LineFillStep, LineEofStep, LineTimedOutStep, LineEndsStep,
   BytesFillStep, BytesNoneStep, BytesTakeStep, BytesPollStep, CopyFillStep, CopyEofStep, CopyMoveStep,
   ReaderLeavesStep DEF Reads

\* What is taken and what is read are bytes, and the kernel holds no more.
LEMMA ShiftsTypes ==
    ASSUME TypeOK, NEW n \in 0 .. Len(Rest), NEW k \in 0 .. Len(sock), Shifts(n, k), UNCHANGED instance,
           Keeps(n) \/ \E w \in {"done", "timeout", "closed"} : Gives(n, w)
    PROVE  /\ sock' \in Seq(Bytes) /\ Len(sock') <= Capacity
           /\ acc' \in Seq(Bytes) /\ got' \subseteq Bytes /\ Bytes' = Bytes
           /\ last' \in [op : {"none"}] \cup [op : {"line", "bytes", "copy"}, n : Nat, bytes : Seq(Bytes),
                                             why : {"done", "timeout", "closed"}]
<1>1. Bytes' = Bytes
  BY DEF instance, Bytes, Total
<1>2. /\ Rest \in Seq(Bytes) /\ sock \in Seq(Bytes) /\ acc \in Seq(Bytes) /\ Len(sock) \in Nat
      /\ ReadsOp.op \in {"line", "bytes", "copy"} /\ ReadsOp.n \in Nat
  BY ReaderNumbers
<1>3. Len(sock) <= Capacity /\ Capacity \in Nat
  BY WriterNumbers
<1>4. sock' \in Seq(Bytes) /\ Len(sock') = Len(sock) - k
  BY <1>2, DropProperties DEF Shifts
<1>5. Len(sock') <= Capacity
  BY <1>2, <1>3, <1>4
<1>6. Taken(n) \in Seq(Bytes)
  <2> DEFINE new == SubSeq(Rest, 1, n)
  <2>1. new \in Seq(Bytes)
    BY <1>2, TakeProperties
  <2> HIDE DEF new
  <2>2. acc \o new \in Seq(Bytes)
    BY <2>1, <1>2, ConcatProperties
  <2> QED BY <2>2 DEF Taken, new
<1>7. CASE Keeps(n)
  BY <1>1, <1>4, <1>5, <1>6, <1>7 DEF Keeps, TypeOK
<1>8. ASSUME NEW w \in {"done", "timeout", "closed"}, Gives(n, w)
      PROVE  /\ acc' \in Seq(Bytes) /\ got' \subseteq Bytes
             /\ last' \in [op : {"line", "bytes", "copy"}, n : Nat, bytes : Seq(Bytes),
                           why : {"done", "timeout", "closed"}]
  <2>1. acc' = <<>> /\ got' = got \cup Members(Taken(n))
        /\ last' = [op |-> ReadsOp.op, n |-> ReadsOp.n, bytes |-> Taken(n), why |-> w]
    BY <1>8 DEF Gives
  <2>2. acc' \in Seq(Bytes)
    BY <2>1, EmptySeq
  <2>3. Members(Taken(n)) \subseteq Bytes /\ got \subseteq Bytes
    BY <1>6, MembersProperties DEF TypeOK
  <2> QED BY <2>1, <2>2, <2>3, <1>2, <1>6
<1> QED BY <1>1, <1>4, <1>5, <1>7, <1>8

-------------------------------------------------------------------------------
(* Types, and where the writer and the reader are. *)

Inv == TypeOK /\ WriterInv /\ ReaderInv

LEMMA WriterKeepsInv ==
    ASSUME Inv, Writes \/ TimedOut
    PROVE  Inv' /\ WriterStep
<1>1. TypeOK /\ WriterInv /\ ReaderInv
  BY DEF Inv
<1>2. Sends /\ WriterTypes' /\ WriterInv' /\ UNCHANGED <<instance, reader>> /\ WriterStep
  BY <1>1, WriterSteps DEF WriterStep
<1>3. /\ obuf' \in Seq(Bytes') /\ Len(obuf') <= OutSize
      /\ sock' \in Seq(Bytes') /\ Len(sock') <= Capacity
      /\ Bytes' = Bytes
  BY <1>1, <1>2, SendsTypes DEF instance
<1>4. /\ mode' = mode /\ prog' = prog /\ reads' = reads /\ term' = term
      /\ ibuf' = ibuf /\ start' = start /\ rpc' = rpc /\ ri' = ri /\ acc' = acc /\ eof' = eof
      /\ last' = last /\ got' = got
  BY <1>2 DEF instance, reader
<1>5. TypeOK'
  BY <1>1, <1>2, <1>3, <1>4 DEF TypeOK, WriterTypes
<1>6. ~ eof
  <2>1. wpc # "closed"
    BY DEF Writes, BeginOp, WriteLine, SendFile, SendFileRoom, SendFileEnds, Close, Write, WriteFails, TimedOut
  <2> QED BY <2>1, <1>1 DEF ReaderInv, Ended
<1>7. ReadsOp' = ReadsOp /\ Avail' = Avail /\ Members(acc)' = Members(acc)
  BY <1>4 DEF ReadsOp, Avail, Members
<1>8. ReaderInv'
  BY <1>1, <1>4, <1>6, <1>7 DEF ReaderInv
<1> QED BY <1>2, <1>5, <1>8 DEF Inv

LEMMA ReaderKeepsInv ==
    ASSUME Inv, Reads \/ ReaderLeaves
    PROVE  Inv' /\ ReaderStep
<1>1. TypeOK /\ WriterInv /\ ReaderInv
  BY DEF Inv
<1>2. ReaderStep
  BY <1>1, ReaderSteps
<1>3. BufferTypes' /\ Places' /\ ReaderInv' /\ UNCHANGED <<instance, writer>>
  BY <1>2 DEF ReaderStep
<1>4. PICK n \in 0 .. Len(Rest), k \in 0 .. Len(sock) :
        Shifts(n, k) /\ (Keeps(n) \/ \E w \in {"done", "timeout", "closed"} : Gives(n, w))
  BY <1>2 DEF ReaderStep
<1>5. /\ sock' \in Seq(Bytes) /\ Len(sock') <= Capacity
      /\ acc' \in Seq(Bytes) /\ got' \subseteq Bytes /\ Bytes' = Bytes
      /\ last' \in [op : {"none"}] \cup [op : {"line", "bytes", "copy"}, n : Nat, bytes : Seq(Bytes),
                                        why : {"done", "timeout", "closed"}]
  BY <1>1, <1>3, <1>4, ShiftsTypes
<1>6. /\ mode' = mode /\ prog' = prog /\ reads' = reads /\ term' = term
      /\ wpc' = wpc /\ wi' = wi /\ left' = left /\ ret' = ret /\ next' = next /\ obuf' = obuf /\ failed' = failed
      /\ Total' = Total
  BY <1>3 DEF instance, writer, Total
<1>7. TypeOK'
  BY <1>1, <1>3, <1>5, <1>6 DEF TypeOK, BufferTypes, Places
<1>8. WriterInv'
  BY <1>1, <1>6 DEF WriterInv, Within, Closing, Op
<1> QED BY <1>2, <1>3, <1>7, <1>8 DEF Inv

LEMMA InitInv ==
    ASSUME Init
    PROVE  Inv
<1>1. /\ mode \in Modes /\ prog \in Programs /\ reads \in Readers
      /\ wpc = "op" /\ wi = 1 /\ left = 0 /\ ret = "none" /\ next = 1
      /\ obuf = <<>> /\ sock = <<>> /\ ibuf = <<>> /\ start = 0
      /\ rpc = "op" /\ ri = 1 /\ acc = <<>> /\ eof = FALSE
      /\ last = [op |-> "none"] /\ got = {} /\ failed = FALSE
  BY DEF Init
<1>2. /\ Len(prog) \in Nat /\ DOMAIN prog = 1 .. Len(prog) /\ Total \in Nat
      /\ \A k \in 1 .. Len(prog) :
           prog[k].from \in Nat \ {0} /\ prog[k].upto \in Nat /\ prog[k].from <= prog[k].upto /\ prog[k].upto <= Total
      /\ (IF 1 <= Len(prog) THEN prog[1].from ELSE Total + 1) = 1
  BY Programmed
<1>3. term \subseteq Bytes
  <2>1. PICK inner \in SUBSET (Bytes \ LineBytes) : term = inner \cup {prog[k].upto : k \in Lines}
    BY DEF Init
  <2>2. \A k \in Lines : prog[k].upto \in Bytes
    BY <1>2 DEF Lines, Bytes
  <2> QED BY <2>1, <2>2
<1>4. <<>> \in Seq(Bytes) /\ Len(<<>>) = 0
  BY EmptySeq
<1>5. OutSize \in Nat /\ InSize \in Nat /\ Capacity \in Nat
  BY StreamAssumption
<1>6. wi \in 1 .. Len(prog) + 1 /\ next \in 1 .. Total + 1 /\ left \in Nat /\ ri \in Nat \ {0}
  BY <1>1, <1>2
<1>7. /\ obuf \in Seq(Bytes) /\ Len(obuf) <= OutSize /\ sock \in Seq(Bytes) /\ Len(sock) <= Capacity
      /\ ibuf \in Seq(Bytes) /\ start \in 0 .. Len(ibuf) /\ Len(ibuf) <= InSize /\ acc \in Seq(Bytes)
  BY <1>1, <1>4, <1>5
<1>8. TypeOK
  BY <1>1, <1>3, <1>6, <1>7 DEF TypeOK
<1>9. WriterInv
  BY <1>1, <1>2 DEF WriterInv, Within, Closing
<1>10. ReaderInv
  BY <1>1 DEF ReaderInv
<1> QED BY <1>8, <1>9, <1>10 DEF Inv

LEMMA StutterKeepsInv ==
    ASSUME Inv, UNCHANGED vars
    PROVE  Inv'
<1>1. /\ mode' = mode /\ prog' = prog /\ reads' = reads /\ term' = term
      /\ wpc' = wpc /\ wi' = wi /\ left' = left /\ ret' = ret /\ next' = next /\ obuf' = obuf /\ failed' = failed
      /\ sock' = sock /\ ibuf' = ibuf /\ start' = start /\ rpc' = rpc /\ ri' = ri /\ acc' = acc /\ eof' = eof
      /\ last' = last /\ got' = got
  BY DEF vars, instance, writer, reader
<1>2. Bytes' = Bytes /\ Total' = Total /\ Op' = Op
  BY <1>1 DEF Bytes, Total, Op
<1>3. ReadsOp' = ReadsOp /\ Avail' = Avail /\ Ended' = Ended /\ Members(acc)' = Members(acc)
  BY <1>1 DEF ReadsOp, Avail, Ended, Members
<1>4. TypeOK'
  BY <1>1, <1>2 DEF Inv, TypeOK
<1>5. WriterInv'
  BY <1>1, <1>2 DEF Inv, WriterInv, Within, Closing
<1>6. ReaderInv'
  BY <1>1, <1>3 DEF Inv, ReaderInv
<1> QED BY <1>4, <1>5, <1>6 DEF Inv

LEMMA InvStep ==
    ASSUME Inv, [Next]_vars
    PROVE  Inv'
BY WriterKeepsInv, ReaderKeepsInv, StutterKeepsInv DEF Next

\* The buffers are never overrun, nor read beyond what is in them, whatever is
\* written and read (STREAMInternalQueueBytes, STREAMReadCharsToBuffer,
\* STREAMTransferBytesOut).
THEOREM TypeCorrect == Spec => []TypeOK
<1>1. Init => Inv
  BY InitInv
<1>2. Inv /\ [Next]_vars => Inv'
  BY InvStep
<1>3. Inv => TypeOK
  BY DEF Inv
<1> QED BY <1>1, <1>2, <1>3, PTL DEF Spec

-------------------------------------------------------------------------------
(* The bytes on their way. *)

LEMMA TakeConcat ==
    ASSUME NEW S, NEW s \in Seq(S), NEW t \in Seq(S), NEW n \in 0 .. Len(s)
    PROVE  SubSeq(s \o t, 1, n) = SubSeq(s, 1, n)
<1>1. Len(s) \in Nat
  BY LenProperties
<1>2. CASE n = 0
  <2>1. SubSeq(s, 1, 0) = <<>> /\ SubSeq(s \o t, 1, 0) = <<>>
    BY SubSeqEmpty
  <2> QED BY <2>1, <1>2
<1>3. CASE n # 0
  <2>1. 1 \in 1 .. Len(s) /\ n \in 1 .. Len(s)
    BY <1>1, <1>3
  <2> QED BY <2>1, SubSeqOfConcat1
<1> QED BY <1>2, <1>3

LEMMA FlowTypes ==
    ASSUME TypeOK
    PROVE  /\ Rest \o sock \in Seq(Bytes) /\ Len(Rest \o sock) = Len(Rest) + Len(sock)
           /\ Queue \in Seq(Bytes) /\ Len(Queue) = Len(Rest \o sock) + Len(obuf) /\ Flow \in Seq(Bytes)
           /\ Len(Rest) \in Nat /\ Len(sock) \in Nat /\ Len(obuf) \in Nat
           /\ Somewhere = got \cup Members(Flow) /\ Members(Flow) = Members(acc) \cup Members(Queue)
<1>1. /\ Rest \in Seq(Bytes) /\ sock \in Seq(Bytes) /\ obuf \in Seq(Bytes) /\ acc \in Seq(Bytes)
      /\ Len(Rest) \in Nat /\ Len(sock) \in Nat /\ Len(obuf) \in Nat
  BY ReaderNumbers, WriterNumbers DEF TypeOK
<1>2. Rest \o sock \in Seq(Bytes) /\ Len(Rest \o sock) = Len(Rest) + Len(sock)
      /\ Members(Rest \o sock) = Members(Rest) \cup Members(sock)
  BY <1>1, ConcatProperties, MembersProperties
<1> DEFINE in == Rest \o sock
<1>3. in \in Seq(Bytes)
  BY <1>2
<1> HIDE DEF in
<1>4. /\ in \o obuf \in Seq(Bytes) /\ Len(in \o obuf) = Len(in) + Len(obuf)
      /\ Members(in \o obuf) = Members(in) \cup Members(obuf)
  BY <1>1, <1>3, ConcatProperties, MembersProperties
<1>5. Queue = in \o obuf
  BY DEF Queue, in
<1>6. Queue \in Seq(Bytes) /\ Len(Queue) = Len(in) + Len(obuf) /\ Members(Queue) = Members(in) \cup Members(obuf)
  BY <1>4, <1>5
<1>7. acc \o Queue \in Seq(Bytes) /\ Members(acc \o Queue) = Members(acc) \cup Members(Queue)
  BY <1>1, <1>6, ConcatProperties, MembersProperties
<1> QED BY <1>1, <1>2, <1>6, <1>7 DEF Flow, Somewhere, in

\* Where the bytes are after a step.
LEMMA SomewhereNext ==
    ASSUME TypeOK'
    PROVE  Somewhere' = got' \cup Members(acc') \cup Members(Queue')
<1> DEFINE r == Rest'
           s == sock'
           o == obuf'
           in == r \o s
<1>1. ibuf' \in Seq(Bytes') /\ start' \in 0 .. Len(ibuf') /\ s \in Seq(Bytes') /\ o \in Seq(Bytes')
  BY DEF TypeOK
<1>2. r \in Seq(Bytes')
  BY <1>1, DropProperties DEF Rest
<1> HIDE DEF r, s, o
<1>3. in \in Seq(Bytes') /\ Members(in) = Members(r) \cup Members(s)
  BY <1>1, <1>2, ConcatProperties, MembersProperties
<1> HIDE DEF in
<1>4. Members(in \o o) = Members(in) \cup Members(o)
  BY <1>1, <1>3, MembersProperties
<1>5. Queue' = in \o o
  BY DEF Queue, in, r, s, o
<1>6. Somewhere' = got' \cup Members(acc') \cup Members(r) \cup Members(s) \cup Members(o)
  BY DEF Somewhere, Members, r, s, o
<1> QED BY <1>3, <1>4, <1>5, <1>6

\* The reader takes the first n.
LEMMA ReaderFlow ==
    ASSUME TypeOK, NEW n \in 0 .. Len(Rest), NEW k \in 0 .. Len(sock), Shifts(n, k), obuf' = obuf
    PROVE  /\ Queue' = Drop(Queue, n) /\ n \in 0 .. Len(Queue)
           /\ Taken(n) \in Seq(Bytes) /\ Queue' \in Seq(Bytes) /\ Len(Queue') = Len(Queue) - n
           /\ Flow = Taken(n) \o Queue'
<1> DEFINE in == Rest \o sock
           out == Rest' \o sock'
           rest == Drop(Rest, n)
<1>1. /\ Rest \in Seq(Bytes) /\ sock \in Seq(Bytes) /\ obuf \in Seq(Bytes) /\ acc \in Seq(Bytes)
  BY ReaderNumbers DEF TypeOK
<1>2. /\ in \in Seq(Bytes) /\ Len(in) = Len(Rest) + Len(sock)
      /\ Queue \in Seq(Bytes) /\ Len(Queue) = Len(in) + Len(obuf)
      /\ Len(Rest) \in Nat /\ Len(sock) \in Nat /\ Len(obuf) \in Nat
  BY FlowTypes
<1>3. rest \in Seq(Bytes)
  BY <1>1, DropProperties
<1>4. out = rest \o sock
  <2>1. (rest \o SubSeq(sock, 1, k)) \o Drop(sock, k) = rest \o sock
    BY <1>1, <1>3, Shift
  <2> QED BY <2>1 DEF Shifts
<1>5. rest \o sock = Drop(in, n)
  BY <1>1, DropConcat
<1> HIDE DEF in, out, rest
<1>6. n \in 0 .. Len(in) /\ n \in 0 .. Len(Queue)
  BY <1>2
<1>7. Drop(in \o obuf, n) = Drop(in, n) \o obuf
  BY <1>1, <1>2, <1>6, DropConcat
<1>8. Queue = in \o obuf /\ Queue' = out \o obuf
  BY DEF Queue, in, out
<1>9. Queue' = Drop(Queue, n)
  BY <1>4, <1>5, <1>7, <1>8
<1>10. Queue' \in Seq(Bytes) /\ Len(Queue') = Len(Queue) - n
  BY <1>2, <1>6, <1>9, DropProperties
<1>11. SubSeq(Queue, 1, n) = SubSeq(Rest, 1, n)
  <2>1. SubSeq(in \o obuf, 1, n) = SubSeq(in, 1, n)
    BY <1>1, <1>2, <1>6, TakeConcat
  <2>2. SubSeq(in, 1, n) = SubSeq(Rest, 1, n)
    BY <1>1, TakeConcat DEF in
  <2> QED BY <2>1, <2>2, <1>8
<1> DEFINE new == SubSeq(Queue, 1, n)
           queue == Drop(Queue, n)
<1>12. new \in Seq(Bytes)
  BY <1>2, <1>6, TakeProperties
<1>13. (acc \o new) \o queue = acc \o Queue
  BY <1>1, <1>2, <1>6, Shift
<1>14. Taken(n) = acc \o new
  BY <1>11 DEF Taken
<1> HIDE DEF new, queue
<1>15. acc \o new \in Seq(Bytes)
  BY <1>1, <1>12, ConcatProperties
<1> QED BY <1>6, <1>9, <1>10, <1>13, <1>14, <1>15 DEF Flow, queue

\* The writer adds to them, or at a close leaves some out.
LEMMA WriterFlow ==
    ASSUME TypeOK, Sends, UNCHANGED <<instance, reader>>
    PROVE  /\ Waits \/ Moves => Queue' = Queue
           /\ Queues => \E k \in 0 .. left : next' = next + k /\ Queue' = Queue \o Numbers(next, next + k)
           /\ Fails => \/ Queue' = Queue /\ obuf' = obuf
                       \/ wpc' = "closed" /\ Queue' = Rest \o sock /\ Queue = Queue' \o obuf
<1> DEFINE in == Rest \o sock
<1>1. /\ Rest \in Seq(Bytes) /\ sock \in Seq(Bytes) /\ obuf \in Seq(Bytes) /\ in \in Seq(Bytes)
      /\ Len(obuf) \in Nat
  BY ReaderNumbers, FlowTypes DEF TypeOK
<1>2. Rest' = Rest
  BY DEF reader, Rest
<1>3. Queue = in \o obuf /\ Queue' = (Rest \o sock') \o obuf'
  BY <1>2 DEF Queue
<1>4. ASSUME Waits PROVE Queue' = Queue
  BY <1>3, <1>4 DEF Waits
<1>5. ASSUME Moves PROVE Queue' = Queue
  <2>1. PICK k \in 1 .. Len(obuf) : sock' = sock \o SubSeq(obuf, 1, k) /\ obuf' = Drop(obuf, k)
    BY <1>5 DEF Moves
  <2>2. k \in 0 .. Len(obuf)
    BY <1>1
  <2> DEFINE new == SubSeq(obuf, 1, k)
             after == Drop(obuf, k)
  <2>3. new \in Seq(Bytes)
    BY <1>1, <2>2, TakeProperties
  <2>4. (in \o new) \o after = in \o obuf
    BY <1>1, <2>2, Shift
  <2> HIDE DEF new, after
  <2>5. (Rest \o sock) \o new = Rest \o (sock \o new)
    <3>1. Rest \in Seq(Bytes) /\ sock \in Seq(Bytes) /\ new \in Seq(Bytes)
      BY <1>1, <2>3
    <3> QED BY <3>1, ConcatAssociative, SMTT(30)
  <2> QED BY <2>1, <2>4, <2>5, <1>3 DEF new, after
<1>6. ASSUME Queues
      PROVE  \E k \in 0 .. left : next' = next + k /\ Queue' = Queue \o Numbers(next, next + k)
  <2>1. PICK k \in 0 .. left : next' = next + k /\ obuf' = obuf \o Numbers(next, next + k) /\ sock' = sock
    BY <1>6 DEF Queues
  <2> DEFINE new == Numbers(next, next + k)
             S == Bytes \cup (next .. next + k - 1)
  <2>2. next \in Nat /\ k \in Nat
    BY WriterNumbers
  <2>3. new \in Seq(next .. next + k - 1)
    BY <2>2, NumbersProperties
  <2>4. new \in Seq(S) /\ in \in Seq(S) /\ obuf \in Seq(S)
    BY <2>3, <1>1, SeqMonotonic
  <2> HIDE DEF new, S, in
  <2>5. (in \o obuf) \o new = in \o (obuf \o new)
    BY <2>4, ConcatAssociative, SMTT(30)
  <2>6. Queue' = in \o (obuf \o new)
    BY <2>1, <1>3 DEF new, in
  <2>7. Queue' = Queue \o new
    BY <2>5, <2>6, <1>3
  <2> QED BY <2>1, <2>7 DEF new
<1>7. ASSUME Fails
      PROVE  \/ Queue' = Queue /\ obuf' = obuf
             \/ wpc' = "closed" /\ Queue' = Rest \o sock /\ Queue = Queue' \o obuf
  <2>1. sock' = sock /\ (obuf' = obuf \/ (obuf' = <<>> /\ wpc' = "closed"))
    BY <1>7 DEF Fails
  <2>2. CASE obuf' = obuf
    BY <2>1, <2>2, <1>3
  <2>3. CASE obuf' = <<>> /\ wpc' = "closed"
    <3> HIDE DEF in
    <3>1. in \o <<>> = in
      BY <1>1, ConcatEmptySeq
    <3>2. Queue' = in
      BY <2>1, <2>3, <3>1, <1>3 DEF in
    <3> QED BY <3>2, <2>3, <1>3 DEF in
  <2> QED BY <2>1, <2>2, <2>3
<1> QED BY <1>4, <1>5, <1>6, <1>7

LEMMA SortedParts ==
    ASSUME NEW s \in Seq(Bytes), NEW t \in Seq(Bytes), Sorted(s \o t)
    PROVE  Sorted(s) /\ Sorted(t)
<1> DEFINE st == s \o t
<1>1. Len(s) \in Nat /\ Len(t) \in Nat
  BY LenProperties
<1>2. /\ Len(st) = Len(s) + Len(t)
      /\ \A i \in 1 .. Len(s) + Len(t) : st[i] = IF i <= Len(s) THEN s[i] ELSE t[i - Len(s)]
  BY ConcatProperties
<1>3. Sorted(st)
  OBVIOUS
<1> HIDE DEF st
<1>4. ASSUME NEW i \in 1 .. Len(s), NEW j \in 1 .. Len(s), i < j PROVE s[i] < s[j]
  <2>1. i \in 1 .. Len(st) /\ j \in 1 .. Len(st) /\ st[i] = s[i] /\ st[j] = s[j]
    BY <1>1, <1>2
  <2> QED BY <2>1, <1>3, <1>4 DEF Sorted
<1>5. ASSUME NEW i \in 1 .. Len(t), NEW j \in 1 .. Len(t), i < j PROVE t[i] < t[j]
  <2> DEFINE x == Len(s) + i
             y == Len(s) + j
  <2>1. x \in 1 .. Len(st) /\ y \in 1 .. Len(st) /\ x < y
        /\ ~ (x <= Len(s)) /\ ~ (y <= Len(s)) /\ x - Len(s) = i /\ y - Len(s) = j
    BY <1>1, <1>2, <1>5
  <2> HIDE DEF x, y
  <2>2. st[x] = t[i] /\ st[y] = t[j]
    BY <2>1, <1>2
  <2> QED BY <2>1, <2>2, <1>3 DEF Sorted
<1> QED BY <1>4, <1>5 DEF Sorted

LEMMA SortedExtends ==
    ASSUME NEW s \in Seq(Nat), NEW m \in Nat, NEW k \in Nat, Sorted(s), \A b \in Members(s) : b < m
    PROVE  Sorted(s \o Numbers(m, m + k)) /\ Members(s \o Numbers(m, m + k)) = Members(s) \cup m .. m + k - 1
<1> DEFINE new == Numbers(m, m + k)
           sn == s \o new
<1>1. Len(s) \in Nat /\ \A i \in 1 .. Len(s) : s[i] \in Nat /\ s[i] \in Members(s)
  BY LenProperties, ElementOfSeq, MembersProperties
<1>2. new \in Seq(m .. m + k - 1) /\ Len(new) = k /\ \A i \in 1 .. k : new[i] = m + i - 1
  BY NumbersProperties
<1>3. m .. m + k - 1 \subseteq Nat
  OBVIOUS
<1> HIDE DEF new
<1>4. new \in Seq(Nat)
  BY <1>2, <1>3, SeqMonotonic
<1>5. /\ Len(sn) = Len(s) + k
      /\ \A i \in 1 .. Len(s) + k : sn[i] = IF i <= Len(s) THEN s[i] ELSE new[i - Len(s)]
      /\ Members(sn) = Members(s) \cup Members(new)
  <2>1. /\ Len(sn) = Len(s) + Len(new)
        /\ \A i \in 1 .. Len(s) + Len(new) : sn[i] = IF i <= Len(s) THEN s[i] ELSE new[i - Len(s)]
    BY <1>4, ConcatProperties
  <2>2. Members(sn) = Members(s) \cup Members(new)
    BY <1>4, MembersProperties
  <2> QED BY <2>1, <2>2, <1>2
<1> HIDE DEF sn
<1>6. ASSUME NEW i \in 1 .. Len(sn), NEW j \in 1 .. Len(sn), i < j PROVE sn[i] < sn[j]
  <2>1. CASE j <= Len(s)
    <3>1. i \in 1 .. Len(s) /\ j \in 1 .. Len(s) /\ sn[i] = s[i] /\ sn[j] = s[j]
      BY <2>1, <1>1, <1>5, <1>6
    <3> QED BY <3>1, <1>6 DEF Sorted
  <2>2. CASE ~ (j <= Len(s))
    <3>1. j - Len(s) \in 1 .. k /\ sn[j] = new[j - Len(s)]
      BY <2>2, <1>1, <1>5
    <3>2. sn[j] = m + (j - Len(s)) - 1
      BY <3>1, <1>2
    <3>3. CASE i <= Len(s)
      <4>1. i \in 1 .. Len(s) /\ sn[i] = s[i]
        BY <3>3, <1>1, <1>5
      <4>2. s[i] \in Nat /\ s[i] < m
        BY <4>1, <1>1
      <4> QED BY <4>1, <4>2, <3>1, <3>2, <1>1
    <3>4. CASE ~ (i <= Len(s))
      <4>1. i - Len(s) \in 1 .. k /\ sn[i] = new[i - Len(s)]
        BY <3>4, <1>1, <1>5
      <4>2. sn[i] = m + (i - Len(s)) - 1
        BY <4>1, <1>2
      <4> QED BY <4>1, <4>2, <3>1, <3>2, <1>1, <1>6
    <3> QED BY <3>3, <3>4
  <2> QED BY <2>1, <2>2
<1>7. Members(new) = m .. m + k - 1
  <2> DEFINE S == m .. m + k - 1
  <2>1. new \in Seq(S)
    BY <1>2
  <2> HIDE DEF S
  <2>2. Members(new) = {new[i] : i \in 1 .. Len(new)} /\ Members(new) \subseteq S
    BY <2>1, MembersProperties
  <2>3. ASSUME NEW b \in m .. m + k - 1 PROVE b \in Members(new)
    <3>1. b - m + 1 \in 1 .. k /\ m + (b - m + 1) - 1 = b
      OBVIOUS
    <3>2. new[b - m + 1] = b
      BY <3>1, <1>2
    <3> QED BY <3>1, <3>2, <2>2, <1>2
  <2> QED BY <2>2, <2>3 DEF S
<1> QED BY <1>5, <1>6, <1>7 DEF Sorted, sn, new

-------------------------------------------------------------------------------
(* In order, exact, and kept. *)

FlowInv == OrderInv /\ ReadsAreExact /\ DroppedInv /\ BytesKept

\* What the properties say of the bytes that are nowhere.
LEMMA SameDropped ==
    ASSUME DroppedInv, BytesKept, rpc # "left", wpc # "closed", Somewhere' = Somewhere, UNCHANGED <<next, prog>>,
           failed => failed'
    PROVE  DroppedInv' /\ BytesKept'
<1>1. LineBytes' = LineBytes /\ \A k : OfOp(k)' = OfOp(k)
  BY DEF LineBytes, Lines, OfOp
<1>2. next' = next /\ prog' = prog
  OBVIOUS
<1>3. \A b \in 1 .. next - 1 \ Somewhere :
        /\ failed /\ b \in LineBytes
        /\ \A k \in DOMAIN prog : b \in OfOp(k) =>
             prog[k].upto < next /\ \A c \in OfOp(k) : c > b => c \notin Somewhere
  BY DEF DroppedInv, BytesKept
<1>4. DroppedInv'
  BY <1>1, <1>2, <1>3 DEF DroppedInv
<1>5. BytesKept'
  BY <1>1, <1>2, <1>3 DEF BytesKept
<1> QED BY <1>4, <1>5

LEMMA ReaderKeepsFlow ==
    ASSUME Inv, Inv', FlowInv, Reads \/ ReaderLeaves, ReaderStep
    PROVE  FlowInv'
<1>1. /\ TypeOK /\ ReaderInv /\ TypeOK'
      /\ OrderInv /\ ReadsAreExact /\ DroppedInv /\ BytesKept
  BY DEF Inv, FlowInv
<1>2. PICK n \in 0 .. Len(Rest), k \in 0 .. Len(sock) :
        /\ Shifts(n, k)
        /\ \/ Keeps(n)
           \/ \E w \in {"done", "timeout", "closed"} : Gives(n, w) /\ Exact(Taken(n), w)
  BY DEF ReaderStep
<1>3. /\ next' = next /\ prog' = prog /\ failed' = failed /\ obuf' = obuf /\ term' = term /\ wpc' = wpc
  BY DEF ReaderStep, instance, writer
<1>4. /\ Taken(n) \in Seq(Bytes) /\ Queue' \in Seq(Bytes) /\ Flow = Taken(n) \o Queue'
  BY <1>1, <1>2, <1>3, ReaderFlow
<1>5. Sorted(Taken(n)) /\ Sorted(Queue') /\ Members(Flow) = Members(Taken(n)) \cup Members(Queue')
  BY <1>1, <1>4, SortedParts, MembersProperties DEF OrderInv
<1>6. /\ Somewhere = got \cup Members(Flow)
      /\ Somewhere' = got' \cup Members(acc') \cup Members(Queue')
  <2>1. Somewhere = got \cup Members(Flow)
    BY <1>1, FlowTypes
  <2> QED BY <2>1, <1>1, SomewhereNext
<1>7. /\ Sorted(Flow') /\ Somewhere' = Somewhere
  <2>1. CASE Keeps(n)
    <3>1. Flow' = Flow /\ got' = got /\ Members(acc') = Members(Taken(n))
      BY <2>1, <1>4 DEF Keeps, Flow
    <3> QED BY <3>1, <1>1, <1>5, <1>6 DEF OrderInv
  <2>2. ASSUME NEW w, Gives(n, w) PROVE Sorted(Flow') /\ Somewhere' = Somewhere
    <3>1. acc' = <<>> /\ got' = got \cup Members(Taken(n)) /\ Members(acc') = {}
      BY <2>2 DEF Gives, Members
    <3>2. <<>> \o Queue' = Queue'
      BY <1>4, ConcatEmptySeq
    <3>3. Flow' = Queue'
      BY <3>1, <3>2 DEF Flow
    <3> QED BY <3>1, <3>3, <1>5, <1>6
  <2> QED BY <2>1, <2>2, <1>2
<1>8. OrderInv'
  BY <1>1, <1>3, <1>7 DEF OrderInv, Sorted
<1>9. rpc \notin {"left", "done"}
  BY DEF Reads, ReaderLeaves, BeginRead, LineFound, LinePart, LineFill, LineEof, LineTimedOut, LineEnds, LineWants,
         BytesFill, BytesNone, BytesTake, BytesPoll, CopyFill, CopyEof, CopyMove
<1>10. DroppedInv' /\ BytesKept'
  <2>1. CASE wpc = "closed"
    BY <2>1, <1>3 DEF DroppedInv, BytesKept
  <2>2. CASE wpc # "closed"
    BY <2>2, <1>1, <1>3, <1>7, <1>9, SameDropped
  <2> QED BY <2>1, <2>2
<1>11. ReadsAreExact'
  <2>1. CASE Keeps(n)
    <3>1. last' = last
      BY <2>1, SMTT(40) DEF Keeps
    <3>2. ~ (last.op # "none" /\ last.why = "closed")
      BY <1>1, <1>9, SMTT(40) DEF ReaderInv
    <3> QED BY <3>1, <3>2, <1>1, <1>3, SMTT(40) DEF ReadsAreExact
  <2>2. ASSUME NEW w, Gives(n, w), Exact(Taken(n), w) PROVE ReadsAreExact'
    <3> DEFINE b == Taken(n)
    <3>1. last'.op = ReadsOp.op /\ last'.n = ReadsOp.n /\ last'.bytes = b /\ last'.why = w
      BY <2>2 DEF Gives
    <3>2. Len(b) \in Nat /\ DOMAIN b = 1 .. Len(b) /\ Sorted(b) /\ Exact(b, w)
      BY <2>2, <1>4, <1>5, LenProperties
    <3> HIDE DEF b
    <3>3. \A i \in 1 .. Len(b) - 1 : b[i] < b[i + 1]
      BY <3>2 DEF Sorted
    <3> QED BY <3>1, <3>2, <3>3, <1>3 DEF ReadsAreExact, Exact
  <2> QED BY <2>1, <2>2, <1>2
<1> QED BY <1>8, <1>10, <1>11 DEF FlowInv

\* What is queued is after all that is there, and of the operation.
LEMMA QueuesKeepFlow ==
    ASSUME Inv, Inv', FlowInv, Queues, wpc # "closed", UNCHANGED <<instance, reader>>
    PROVE  OrderInv' /\ DroppedInv' /\ BytesKept'
<1>1. TypeOK /\ TypeOK' /\ OrderInv /\ DroppedInv /\ BytesKept
  BY DEF Inv, FlowInv
<1>2. Sends
  BY DEF Sends
<1>3. PICK k \in 0 .. left : next' = next + k /\ Queue' = Queue \o Numbers(next, next + k)
  BY <1>1, <1>2, WriterFlow
<1>4. next \in Nat /\ k \in Nat
  BY <1>1, WriterNumbers
<1>5. prog' = prog /\ got' = got /\ acc' = acc /\ rpc' = rpc /\ failed' = failed
  BY DEF Queues, instance, reader
<1> DEFINE new == Numbers(next, next + k)
<1>6. /\ Flow \in Seq(Bytes) /\ Queue \in Seq(Bytes) /\ acc \in Seq(Bytes)
      /\ Somewhere = got \cup Members(Flow) /\ Members(Flow) = Members(acc) \cup Members(Queue)
  BY <1>1, FlowTypes DEF TypeOK
<1>7. Bytes \subseteq Nat
  BY DEF Bytes
<1>8. Flow \in Seq(Nat) /\ Queue \in Seq(Nat) /\ acc \in Seq(Nat)
  BY <1>6, <1>7, SeqMonotonic
<1>9. Flow' = Flow \o new
  <2>1. new \in Seq(next .. next + k - 1)
    BY <1>4, NumbersProperties
  <2>2. next .. next + k - 1 \subseteq Nat
    BY <1>4
  <2> HIDE DEF new
  <2>3. new \in Seq(Nat)
    BY <2>1, <2>2, SeqMonotonic
  <2>4. (acc \o Queue) \o new = acc \o (Queue \o new)
    <3>1. acc \in Seq(Nat) /\ Queue \in Seq(Nat) /\ new \in Seq(Nat)
      BY <2>3, <1>8
    <3> QED BY <3>1, ConcatAssociative, SMTT(30)
  <2> QED BY <2>4, <1>3, <1>5 DEF Flow, new
<1>10. Sorted(Flow) /\ \A b \in Somewhere : b < next
  BY <1>1 DEF OrderInv
<1>11. Sorted(Flow') /\ Members(Flow') = Members(Flow) \cup next .. next + k - 1
  BY <1>4, <1>6, <1>8, <1>9, <1>10, SortedExtends, ZenonT(40)
<1>12. Somewhere' = Somewhere \cup next .. next + k - 1
  <2>1. Somewhere' = got \cup Members(acc) \cup Members(Queue')
    BY <1>1, <1>5, SomewhereNext DEF Members
  <2>2. Members(Queue') = Members(Queue) \cup next .. next + k - 1
    <3>1. Sorted(Queue) /\ \A b \in Members(Queue) : b < next
      BY <1>6, <1>10, SortedParts DEF Flow
    <3> QED BY <3>1, <1>3, <1>4, <1>8, SortedExtends, ZenonT(40)
  <2> QED BY <2>1, <2>2, <1>6
<1>13. got \subseteq Nat /\ Members(Flow) \subseteq Nat
  BY <1>1, <1>7, <1>6, MembersProperties DEF TypeOK
<1>14. OrderInv'
  <2>1. ASSUME NEW b \in Somewhere' PROVE b < next'
    <3>1. CASE b \in Somewhere
      <4>1. b < next /\ b \in Nat
        BY <3>1, <1>6, <1>10, <1>13
      <4> QED BY <4>1, <1>3, <1>4
    <3>2. CASE b \in next .. next + k - 1
      BY <3>2, <1>3, <1>4
    <3> QED BY <2>1, <3>1, <3>2, <1>12
  <2> QED BY <2>1, <1>11 DEF OrderInv, Sorted
<1>15. LineBytes' = LineBytes /\ \A j : OfOp(j)' = OfOp(j)
  BY <1>5 DEF LineBytes, Lines, OfOp
<1>16. CASE rpc = "left"
  BY <1>5, <1>14, <1>16 DEF DroppedInv, BytesKept
<1>17. CASE rpc # "left"
  <2>1. ASSUME NEW b \in 1 .. next' - 1 \ Somewhere'
        PROVE  /\ failed' /\ b \in LineBytes
               /\ \A j \in DOMAIN prog : b \in OfOp(j) =>
                    prog[j].upto < next' /\ \A c \in OfOp(j) : c > b => c \notin Somewhere'
    <3>1. b \in 1 .. next - 1 /\ b \notin Somewhere
      BY <2>1, <1>3, <1>4, <1>12
    <3>2. failed /\ b \in LineBytes
      BY <3>1, <1>1, <1>17 DEF BytesKept
    <3>3. ASSUME NEW j \in DOMAIN prog, b \in OfOp(j)
          PROVE  prog[j].upto < next' /\ \A c \in OfOp(j) : c > b => c \notin Somewhere'
      <4>1. prog[j].upto < next /\ \A c \in OfOp(j) : c > b => c \notin Somewhere
        BY <3>1, <3>3, <1>1, <1>17 DEF BytesKept, DroppedInv
      <4>2. prog[j].from \in Nat /\ prog[j].upto \in Nat
        BY <1>1, Programmed
      <4>3. ASSUME NEW c \in OfOp(j), c > b PROVE c \notin Somewhere'
        <5>1. c <= prog[j].upto /\ c \in Nat
          BY <4>2 DEF OfOp
        <5>2. c \notin next .. next + k - 1
          BY <5>1, <4>1, <4>2, <1>4
        <5> QED BY <5>2, <4>1, <4>3, <1>12
      <4> QED BY <4>1, <4>2, <4>3, <1>3, <1>4
    <3> QED BY <3>2, <3>3, <1>5
  <2>2. DroppedInv'
    BY <2>1, <1>5, <1>15 DEF DroppedInv
  <2>3. BytesKept'
    BY <2>1, <1>5, <1>15 DEF BytesKept
  <2> QED BY <2>2, <2>3, <1>14
<1> QED BY <1>16, <1>17

\* What a failed write leaves out is the rest of a line.
LEMMA FailsKeepFlow ==
    ASSUME Inv, Inv', FlowInv, Fails, wpc # "closed", UNCHANGED <<instance, reader>>
    PROVE  OrderInv' /\ DroppedInv' /\ BytesKept'
<1>1. TypeOK /\ TypeOK' /\ OrderInv /\ DroppedInv /\ BytesKept
  BY DEF Inv, FlowInv
<1>2. prog' = prog /\ got' = got /\ acc' = acc /\ rpc' = rpc /\ failed' = TRUE
  BY DEF Fails, instance, reader
<1>3. \/ Queue' = Queue /\ obuf' = obuf
      \/ wpc' = "closed" /\ Queue' = Rest \o sock /\ Queue = Queue' \o obuf
  BY <1>1, WriterFlow DEF Sends
<1>4. /\ next <= next'
      /\ \/ next' = next
         \/ /\ wi <= Len(prog) /\ prog[wi].from <= next /\ next' = prog[wi].upto + 1
            /\ rpc = "left" \/ Op = "line"
  BY <1>1, WriterNumbers DEF Fails
<1>5. /\ Queue \in Seq(Bytes) /\ acc \in Seq(Bytes) /\ obuf \in Seq(Bytes) /\ Rest \o sock \in Seq(Bytes)
      /\ Somewhere = got \cup Members(acc) \cup Members(Queue) /\ Flow \in Seq(Bytes) /\ Somewhere \subseteq Bytes
  <2>1. /\ Queue \in Seq(Bytes) /\ acc \in Seq(Bytes) /\ obuf \in Seq(Bytes) /\ Rest \o sock \in Seq(Bytes)
        /\ Somewhere = got \cup Members(acc) \cup Members(Queue) /\ Flow \in Seq(Bytes) /\ got \subseteq Bytes
    BY <1>1, FlowTypes DEF TypeOK
  <2> QED BY <2>1, MembersProperties
<1>6. Somewhere' = got \cup Members(acc) \cup Members(Queue')
  BY <1>1, <1>2, SomewhereNext DEF Members
<1>7. next \in Nat /\ (wi <= Len(prog) => wi \in 1 .. Len(prog)) /\ Bytes \subseteq Nat
  BY <1>1, WriterNumbers DEF Bytes
<1>8. next' \in Nat
  <2>1. CASE next' = next
    BY <2>1, <1>7
  <2>2. CASE next' # next
    <3>1. wi \in 1 .. Len(prog) /\ next' = prog[wi].upto + 1
      BY <2>2, <1>4, <1>7
    <3>2. prog[wi].upto \in Nat
      BY <3>1, <1>1, Programmed
    <3> QED BY <3>1, <3>2
  <2> QED BY <2>1, <2>2
<1>9. Sorted(Flow) /\ \A b \in Somewhere : b < next
  BY <1>1 DEF OrderInv
<1>10. Sorted(Flow') /\ Members(Queue') \subseteq Members(Queue)
  <2>1. CASE Queue' = Queue /\ obuf' = obuf
    <3>1. Flow' = Flow /\ Members(Queue') = Members(Queue)
      BY <2>1, <1>2 DEF Flow, Members
    <3> QED BY <3>1, <1>9
  <2>2. CASE Queue' = Rest \o sock /\ Queue = Queue' \o obuf
    <3> DEFINE q == Queue'
    <3>1. q \in Seq(Bytes) /\ Queue = q \o obuf
      BY <2>2, <1>5
    <3> HIDE DEF q
    <3>2. Members(Queue) = Members(q) \cup Members(obuf)
      BY <3>1, <1>5, MembersProperties
    <3>3. (acc \o q) \o obuf = acc \o (q \o obuf)
      <4>1. acc \in Seq(Bytes) /\ q \in Seq(Bytes) /\ obuf \in Seq(Bytes)
        BY <3>1, <1>5
      <4> QED BY <4>1, ConcatAssociative, SMTT(30)
    <3>4. acc \o q \in Seq(Bytes) /\ Sorted((acc \o q) \o obuf)
      BY <3>1, <3>3, <1>5, <1>9, ConcatProperties DEF Flow
    <3>5. Sorted(acc \o q)
      BY <3>4, <1>5, SortedParts
    <3>6. Flow' = acc \o q
      BY <1>2 DEF Flow, q
    <3> QED BY <3>2, <3>5, <3>6 DEF q
  <2> QED BY <2>1, <2>2, <1>3
<1>11. OrderInv'
  <2>1. ASSUME NEW b \in Somewhere' PROVE b < next'
    <3>1. b \in Somewhere
      BY <2>1, <1>5, <1>6, <1>10
    <3>2. b < next /\ b \in Nat
      BY <3>1, <1>5, <1>7, <1>9
    <3> QED BY <3>2, <1>4, <1>7, <1>8
  <2> QED BY <2>1, <1>10 DEF OrderInv, Sorted
<1>12. CASE rpc = "left" \/ wpc' = "closed"
  BY <1>2, <1>11, <1>12 DEF DroppedInv, BytesKept
<1>13. CASE rpc # "left" /\ wpc' # "closed"
  <2>1. Somewhere' = Somewhere
    BY <1>3, <1>5, <1>6, <1>13 DEF Members
  <2>2. LineBytes' = LineBytes /\ \A j : OfOp(j)' = OfOp(j)
    BY <1>2 DEF LineBytes, Lines, OfOp
  <2>3. CASE next' = next
    BY <2>1, <2>3, <1>1, <1>2, <1>11, <1>13, SameDropped
  <2>4. CASE next' # next
    <3>1. wi \in 1 .. Len(prog) /\ prog[wi].from <= next /\ next' = prog[wi].upto + 1 /\ Op = "line"
      BY <2>4, <1>4, <1>7, <1>13
    <3>2. prog[wi].from \in Nat \ {0} /\ prog[wi].upto \in Nat /\ DOMAIN prog = 1 .. Len(prog)
      BY <3>1, <1>1, Programmed
    <3>3. ASSUME NEW b \in 1 .. next' - 1 \ Somewhere
          PROVE  /\ b \in LineBytes
                 /\ \A j \in DOMAIN prog : b \in OfOp(j) =>
                      prog[j].upto < next' /\ \A c \in OfOp(j) : c > b => c \notin Somewhere
      <4>1. CASE b < next
        <5>1. b \in 1 .. next - 1 \ Somewhere
          BY <4>1, <3>3, <1>7
        <5>2. b \in LineBytes
          BY <5>1, <1>1, <1>13 DEF BytesKept
        <5>3. ASSUME NEW j \in DOMAIN prog, b \in OfOp(j)
              PROVE  prog[j].upto < next' /\ \A c \in OfOp(j) : c > b => c \notin Somewhere
          <6>1. prog[j].upto < next /\ \A c \in OfOp(j) : c > b => c \notin Somewhere
            BY <5>1, <5>3, <1>1, <1>13 DEF BytesKept, DroppedInv
          <6>2. prog[j].upto \in Nat
            BY <1>1, Programmed
          <6> QED BY <6>1, <6>2, <1>4, <1>7, <1>8
        <5> QED BY <5>2, <5>3
      <4>2. CASE ~ (b < next)
        <5>1. b \in OfOp(wi) /\ b >= next
          BY <4>2, <3>1, <3>2, <3>3, <1>7 DEF OfOp
        <5>2. b \in LineBytes
          BY <5>1, <3>1, <3>2 DEF LineBytes, Lines, Op
        <5>3. ASSUME NEW j \in DOMAIN prog, b \in OfOp(j)
              PROVE  prog[j].upto < next' /\ \A c \in OfOp(j) : c > b => c \notin Somewhere
          <6>1. j = wi
            BY <5>1, <5>3, <3>1, <3>2, <1>1, OneOp
          <6>2. ASSUME NEW c \in OfOp(j), c > b PROVE c \notin Somewhere
            <7>1. c \in Nat /\ c > next
              BY <6>1, <6>2, <5>1, <3>2, <1>7 DEF OfOp
            <7> QED BY <7>1, <1>7, <1>9
          <6> QED BY <6>1, <6>2, <3>1, <3>2
        <5> QED BY <5>2, <5>3
      <4> QED BY <4>1, <4>2
    <3>4. DroppedInv'
      BY <3>3, <2>1, <2>2, <1>2 DEF DroppedInv
    <3>5. BytesKept'
      BY <3>3, <2>1, <2>2, <1>2 DEF BytesKept
    <3> QED BY <3>4, <3>5, <1>11
  <2> QED BY <2>3, <2>4
<1> QED BY <1>12, <1>13

LEMMA WriterKeepsFlow ==
    ASSUME Inv, Inv', FlowInv, Writes \/ TimedOut, WriterStep
    PROVE  FlowInv'
<1>1. /\ TypeOK /\ TypeOK' /\ ReaderInv /\ OrderInv /\ ReadsAreExact /\ DroppedInv /\ BytesKept
  BY DEF Inv, FlowInv
<1>2. Sends /\ UNCHANGED <<instance, reader>>
  BY DEF WriterStep
<1>3. /\ prog' = prog /\ got' = got /\ acc' = acc /\ rpc' = rpc /\ last' = last /\ term' = term
  BY <1>2 DEF instance, reader
<1>4. wpc # "closed"
  BY DEF Writes, BeginOp, WriteLine, SendFile, SendFileRoom, SendFileEnds, Close, Write, WriteFails, TimedOut
<1>5. ReadsAreExact'
  <2>1. ~ (last.op # "none" /\ last.why = "closed")
    BY <1>1, <1>4 DEF ReadsAreExact, Ended
  <2> QED BY <2>1, <1>1, <1>3 DEF ReadsAreExact
<1>6. OrderInv' /\ DroppedInv' /\ BytesKept'
  <2>1. CASE Waits \/ Moves
    <3>1. Queue' = Queue /\ next' = next /\ failed' = failed
      BY <2>1, <1>1, <1>2, WriterFlow DEF Waits, Moves
    <3>2. Flow' = Flow
      BY <3>1, <1>3 DEF Flow
    <3>3. Somewhere' = Somewhere
      <4>1. Somewhere = got \cup Members(acc) \cup Members(Queue)
        BY <1>1, FlowTypes
      <4>2. Somewhere' = got' \cup Members(acc') \cup Members(Queue')
        BY <1>1, SomewhereNext
      <4> QED BY <4>1, <4>2, <3>1, <1>3
    <3>4. OrderInv'
      BY <3>1, <3>2, <3>3, <1>1 DEF OrderInv, Sorted
    <3>5. CASE rpc = "left"
      BY <3>4, <3>5, <1>3 DEF DroppedInv, BytesKept
    <3>6. CASE rpc # "left"
      BY <3>1, <3>3, <3>4, <3>6, <1>1, <1>3, <1>4, SameDropped
    <3> QED BY <3>5, <3>6
  <2>2. CASE Queues
    BY <2>2, <1>2, <1>4, QueuesKeepFlow
  <2>3. CASE Fails
    BY <2>3, <1>2, <1>4, FailsKeepFlow
  <2> QED BY <2>1, <2>2, <2>3, <1>2 DEF Sends
<1> QED BY <1>5, <1>6 DEF FlowInv

LEMMA StutterKeepsFlow ==
    ASSUME FlowInv, UNCHANGED vars
    PROVE  FlowInv'
<1>1. /\ prog' = prog /\ term' = term /\ got' = got /\ acc' = acc /\ rpc' = rpc /\ last' = last /\ wpc' = wpc
      /\ next' = next /\ obuf' = obuf /\ failed' = failed /\ sock' = sock /\ ibuf' = ibuf /\ start' = start
  BY DEF vars, instance, writer, reader
<1>2. Rest' = Rest /\ Avail' = Avail /\ Ended' = Ended
  BY <1>1 DEF Rest, Avail, Ended
<1>3. Flow' = Flow /\ Somewhere' = Somewhere /\ LineBytes' = LineBytes /\ \A k : OfOp(k)' = OfOp(k)
  BY <1>1, <1>2 DEF Flow, Queue, Somewhere, Members, LineBytes, Lines, OfOp
<1>4. OrderInv'
  BY <1>1, <1>3 DEF FlowInv, OrderInv, Sorted
<1>5. ReadsAreExact'
  BY <1>1, <1>2 DEF FlowInv, ReadsAreExact
<1>6. DroppedInv' /\ BytesKept'
  BY <1>1, <1>3 DEF FlowInv, DroppedInv, BytesKept
<1> QED BY <1>4, <1>5, <1>6 DEF FlowInv

LEMMA FlowStep ==
    ASSUME Inv, Inv', FlowInv, [Next]_vars
    PROVE  FlowInv'
BY WriterKeepsInv, WriterKeepsFlow, ReaderKeepsInv, ReaderKeepsFlow, StutterKeepsFlow DEF Next

LEMMA InitFlow ==
    ASSUME Init
    PROVE  FlowInv
<1>1. /\ obuf = <<>> /\ sock = <<>> /\ ibuf = <<>> /\ start = 0 /\ acc = <<>> /\ got = {} /\ next = 1
      /\ last = [op |-> "none"]
  BY DEF Init
<1>2. <<>> \in Seq(Bytes) /\ Len(<<>>) = 0
  BY EmptySeq
<1>3. Rest = <<>>
  BY <1>1, <1>2, NothingDropped DEF Rest
<1>4. <<>> \o <<>> = <<>>
  BY <1>2, ConcatEmptySeq
<1>5. Flow = <<>>
  BY <1>1, <1>3, <1>4 DEF Flow, Queue
<1>6. Members(<<>>) = {}
  BY DEF Members
<1>7. Somewhere = {}
  BY <1>1, <1>3, <1>6 DEF Somewhere
<1>8. OrderInv
  BY <1>2, <1>5, <1>7 DEF OrderInv, Sorted
<1>9. ReadsAreExact
  BY <1>1 DEF ReadsAreExact
<1>10. 1 .. next - 1 = {}
  BY <1>1
<1>11. DroppedInv /\ BytesKept
  BY <1>10 DEF DroppedInv, BytesKept
<1> QED BY <1>8, <1>9, <1>11 DEF FlowInv

LEMMA FlowAlways == Spec => []FlowInv
<1>1. Init => Inv /\ FlowInv
  BY InitInv, InitFlow
<1>2. Inv /\ [Next]_vars => Inv'
  BY InvStep
<1>3. Inv /\ Inv' /\ FlowInv /\ [Next]_vars => FlowInv'
  BY FlowStep
<1> QED BY <1>1, <1>2, <1>3, PTL DEF Spec

\* What a read operation returns is what it says, however the bytes came in
\* (STREAMReadToTerminator, STREAMReadBytes, STREAMSendFile).
THEOREM ReadsExact == Spec => []ReadsAreExact
<1>1. FlowInv => ReadsAreExact
  BY DEF FlowInv
<1> QED BY <1>1, FlowAlways, PTL

\* No byte is lost before the close but the rest of a line whose write failed
\* (STREAMInternalQueueBytes, STREAMInternalFinalWriteBytes).
THEOREM NoByteLost == Spec => []BytesKept
<1>1. FlowInv => BytesKept
  BY DEF FlowInv
<1> QED BY <1>1, FlowAlways, PTL

-------------------------------------------------------------------------------
(* The abstract stream. *)

LEMMA ReaderRefines ==
    ASSUME Inv, ReaderStep
    PROVE  [BS!Next]_BS!vars
<1>1. TypeOK
  BY DEF Inv
<1>2. PICK n \in 0 .. Len(Rest), k \in 0 .. Len(sock) : Shifts(n, k)
  BY DEF ReaderStep
<1>3. next' = next /\ failed' = failed /\ obuf' = obuf
  BY DEF ReaderStep, writer
<1>4. /\ Queue' = Drop(Queue, n) /\ n \in 0 .. Len(Queue) /\ Len(Queue') = Len(Queue) - n
  BY <1>1, <1>2, <1>3, ReaderFlow
<1>5. Queue \in Seq(Bytes) /\ Len(Queue) \in Nat
  BY <1>1, FlowTypes, LenProperties
<1>6. CASE n = 0
  <2>1. Queue' = Queue
    BY <1>4, <1>5, <1>6, NothingDropped
  <2> QED BY <2>1, <1>3 DEF BS!vars, Queue
<1>7. CASE n # 0
  <2>1. Len(Queue') < Len(Queue) /\ Len(Queue) - Len(Queue') + 1 = n + 1
    BY <1>4, <1>5, <1>7
  <2>2. Queue' = SubSeq(Queue, Len(Queue) - Len(Queue') + 1, Len(Queue))
    BY <2>1, <1>4 DEF Drop
  <2>3. BS!Take
    BY <2>1, <2>2, <1>3 DEF BS!Take, Queue
  <2> QED BY <2>3 DEF BS!Next
<1> QED BY <1>6, <1>7

LEMMA WriterRefines ==
    ASSUME Inv, WriterStep
    PROVE  [BS!Next]_BS!vars
<1>1. TypeOK /\ Sends /\ UNCHANGED <<instance, reader>>
  BY DEF Inv, WriterStep
<1>2. /\ Queue \in Seq(Bytes) /\ Len(Queue) \in Nat /\ next \in Nat
  BY <1>1, FlowTypes, LenProperties, WriterNumbers
<1>3. CASE Waits \/ Moves
  <2>1. Queue' = Queue /\ next' = next /\ failed' = failed
    BY <1>1, <1>3, WriterFlow DEF Waits, Moves
  <2> QED BY <2>1 DEF BS!vars, Queue
<1>4. CASE Queues
  <2>1. PICK k \in 0 .. left : next' = next + k /\ Queue' = Queue \o Numbers(next, next + k)
    BY <1>1, <1>4, WriterFlow
  <2>2. left \in Nat /\ failed' = failed
    BY <1>1, <1>4, WriterNumbers DEF Queues
  <2>3. CASE k = 0
    <3>1. next' = next
      BY <2>1, <2>3, <1>2
    <3>2. Numbers(next, next + k) = <<>>
      <4>1. Numbers(next, next + k) \in Seq(next .. next + k - 1) /\ Len(Numbers(next, next + k)) = 0
        BY <2>3, <1>2, NumbersProperties
      <4> QED BY <4>1, EmptySeq
    <3>3. Queue' = Queue
      BY <2>1, <3>2, <1>2, ConcatEmptySeq
    <3> QED BY <3>1, <3>3, <2>2 DEF BS!vars, Queue
  <2>4. CASE k # 0
    <3>1. next' > next
      BY <2>1, <2>2, <2>4, <1>2
    <3>2. Queue' = Queue \o BS!Numbers(next, next')
      BY <2>1 DEF Numbers, BS!Numbers
    <3>3. BS!Put
      BY <3>1, <3>2, <2>2 DEF BS!Put, Queue
    <3> QED BY <3>3 DEF BS!Next
  <2> QED BY <2>3, <2>4
<1>5. CASE Fails
  <2>1. failed' = TRUE /\ next' >= next
    BY <1>1, <1>2, <1>5, WriterNumbers DEF Fails
  <2>2. Len(Queue') <= Len(Queue) /\ Queue' = SubSeq(Queue, 1, Len(Queue'))
    <3>1. CASE Queue' = Queue
      BY <3>1, <1>2, SubSeqFull
    <3>2. CASE Queue' = Rest \o sock /\ Queue = Queue' \o obuf
      <4> DEFINE in == Rest \o sock
      <4>1. in \in Seq(Bytes) /\ obuf \in Seq(Bytes) /\ Len(in) \in Nat /\ Len(obuf) \in Nat
        BY <1>1, FlowTypes, LenProperties DEF TypeOK
      <4>2. Queue' = in /\ Queue = in \o obuf
        BY <3>2
      <4> HIDE DEF in
      <4>3. Len(in \o obuf) = Len(in) + Len(obuf)
        BY <4>1, ConcatProperties
      <4>4. Len(in) \in 0 .. Len(in)
        BY <4>1
      <4>5. SubSeq(in \o obuf, 1, Len(in)) = SubSeq(in, 1, Len(in)) /\ SubSeq(in, 1, Len(in)) = in
        BY <4>1, <4>4, TakeConcat, SubSeqFull
      <4> QED BY <4>1, <4>2, <4>3, <4>5
    <3> QED BY <3>1, <3>2, <1>1, <1>5, WriterFlow
  <2>3. BS!Fail
    BY <2>1, <2>2 DEF BS!Fail, Queue
  <2> QED BY <2>3 DEF BS!Next
<1> QED BY <1>1, <1>3, <1>4, <1>5 DEF Sends

\* The connection is a ByteStream: every step adds bytes in order at one end,
\* takes the first at the other, or fails.
THEOREM ImplementsByteStream == Spec => BS!Spec
<1>1. Init => Inv /\ BS!Init
  <2>1. ASSUME Init PROVE BS!Init
    <3>1. obuf = <<>> /\ sock = <<>> /\ ibuf = <<>> /\ start = 0 /\ next = 1 /\ failed = FALSE
      BY <2>1 DEF Init
    <3>2. <<>> \in Seq(Bytes)
      BY EmptySeq
    <3>3. Rest = <<>> /\ <<>> \o <<>> = <<>>
      BY <3>1, <3>2, NothingDropped, ConcatEmptySeq DEF Rest
    <3> QED BY <3>1, <3>3 DEF BS!Init
  <2> QED BY <2>1, InitInv
<1>2. Inv /\ [Next]_vars => Inv'
  BY InvStep
<1>3. Inv /\ [Next]_vars => [BS!Next]_BS!vars
  <2>1. ASSUME Inv, Writes \/ TimedOut PROVE [BS!Next]_BS!vars
    BY <2>1, WriterKeepsInv, WriterRefines
  <2>2. ASSUME Inv, Reads \/ ReaderLeaves PROVE [BS!Next]_BS!vars
    BY <2>2, ReaderKeepsInv, ReaderRefines
  <2>3. ASSUME UNCHANGED vars PROVE [BS!Next]_BS!vars
    BY <2>3 DEF vars, instance, writer, reader, BS!vars, Rest
  <2> QED BY <2>1, <2>2, <2>3 DEF Next
<1> QED BY <1>1, <1>2, <1>3, PTL DEF Spec, BS!Spec
===============================================================================
