---------------------------- MODULE Grants_proofs ----------------------------
(***************************************************************************)
(* The table of grants for any number of runs of grant and of checks, any  *)
(* grants, upgrades, kills and full disks: types, nothing is granted that  *)
(* nobody granted, and, as long as runs of grant do not overlap, grants    *)
(* last and are found.                                                     *)
(***************************************************************************)
EXTENDS Grants, SequenceTheorems, TLAPS

(* What is in a sequence of lines. *)

LEMMA RangeOf ==
    ASSUME NEW S, NEW s \in Seq(S)
    PROVE  \A e : e \in Range(s) <=> \E i \in 1 .. Len(s) : s[i] = e
BY LenProperties DEF Range

LEMMA RangeAppend ==
    ASSUME NEW S, NEW s \in Seq(S), NEW e \in S
    PROVE  /\ Append(s, e) \in Seq(S) /\ Len(Append(s, e)) = Len(s) + 1
           /\ Append(s, e)[Len(s) + 1] = e
           /\ Range(Append(s, e)) = Range(s) \cup {e}
<1>1. /\ Append(s, e) \in Seq(S) /\ Len(Append(s, e)) = Len(s) + 1 /\ Len(s) \in Nat
      /\ Append(s, e)[Len(s) + 1] = e
      /\ \A i \in 1 .. Len(s) : Append(s, e)[i] = s[i]
  BY AppendProperties, LenProperties
<1>2. \A x : x \in Range(Append(s, e)) <=> \E i \in 1 .. Len(s) + 1 : Append(s, e)[i] = x
  <2> DEFINE t == Append(s, e)
  <2>1. t \in Seq(S) /\ Len(t) = Len(s) + 1
    BY <1>1
  <2>2. \A x : x \in Range(t) <=> \E i \in 1 .. Len(t) : t[i] = x
    <3> HIDE DEF t
    <3> QED BY <2>1, RangeOf
  <2> QED BY <2>1, <2>2
<1>3. \A x : x \in Range(s) <=> \E i \in 1 .. Len(s) : s[i] = x
  BY RangeOf
<1>4. ASSUME NEW x, x \in Range(Append(s, e)) PROVE x \in Range(s) \cup {e}
  <2>1. PICK i \in 1 .. Len(s) + 1 : Append(s, e)[i] = x
    BY <1>2, <1>4
  <2>2. i \in 1 .. Len(s) \/ i = Len(s) + 1
    BY <1>1
  <2> QED BY <1>1, <1>3, <2>1, <2>2
<1>5. ASSUME NEW x, x \in Range(s) \cup {e} PROVE x \in Range(Append(s, e))
  <2>1. Len(s) + 1 \in 1 .. Len(s) + 1 /\ \A i \in 1 .. Len(s) : i \in 1 .. Len(s) + 1
    BY <1>1
  <2>2. CASE x \in Range(s)
    <3>1. PICK i \in 1 .. Len(s) : s[i] = x
      BY <1>3, <2>2
    <3> QED BY <1>1, <1>2, <2>1, <3>1
  <2> QED BY <1>1, <1>2, <1>5, <2>1, <2>2
<1> QED BY <1>1, <1>4, <1>5

LEMMA RangeConcat ==
    ASSUME NEW S, NEW s \in Seq(S), NEW t \in Seq(S)
    PROVE  s \o t \in Seq(S) /\ Range(s \o t) = Range(s) \cup Range(t)
<1>1. /\ s \o t \in Seq(S) /\ Len(s \o t) = Len(s) + Len(t) /\ Len(s) \in Nat /\ Len(t) \in Nat
      /\ \A i \in 1 .. Len(s) + Len(t) : (s \o t)[i] = IF i <= Len(s) THEN s[i] ELSE t[i - Len(s)]
  BY ConcatProperties, LenProperties
<1>2. \A x : /\ x \in Range(s \o t) <=> \E i \in 1 .. Len(s) + Len(t) : (s \o t)[i] = x
             /\ x \in Range(s) <=> \E i \in 1 .. Len(s) : s[i] = x
             /\ x \in Range(t) <=> \E i \in 1 .. Len(t) : t[i] = x
  BY <1>1, RangeOf, ZenonT(40)
<1>3. ASSUME NEW x, x \in Range(s \o t) PROVE x \in Range(s) \cup Range(t)
  <2>1. PICK i \in 1 .. Len(s) + Len(t) : (s \o t)[i] = x
    BY <1>2, <1>3
  <2>2. CASE i <= Len(s)
    <3>1. i \in 1 .. Len(s) /\ s[i] = x
      BY <1>1, <2>1, <2>2
    <3> QED BY <1>2, <3>1
  <2>3. CASE ~ (i <= Len(s))
    <3>1. i - Len(s) \in 1 .. Len(t) /\ t[i - Len(s)] = x
      BY <1>1, <2>1, <2>3
    <3> QED BY <1>2, <3>1
  <2> QED BY <2>2, <2>3
<1>4. ASSUME NEW x, x \in Range(s) PROVE x \in Range(s \o t)
  <2>1. PICK i \in 1 .. Len(s) : s[i] = x
    BY <1>2, <1>4
  <2>2. i \in 1 .. Len(s) + Len(t) /\ (s \o t)[i] = x
    BY <1>1, <2>1
  <2> QED BY <1>2, <2>2
<1>5. ASSUME NEW x, x \in Range(t) PROVE x \in Range(s \o t)
  <2>1. PICK i \in 1 .. Len(t) : t[i] = x
    BY <1>2, <1>5
  <2>2. i + Len(s) \in 1 .. Len(s) + Len(t) /\ (s \o t)[i + Len(s)] = x
    BY <1>1, <2>1
  <2> QED BY <1>2, <2>2
<1> QED BY <1>1, <1>3, <1>4, <1>5

LEMMA RangeShort ==
    ASSUME NEW S, NEW e \in S
    PROVE  <<>> \in Seq(S) /\ Range(<<>>) = {} /\ <<e>> \in Seq(S) /\ Range(<<e>>) = {e}
BY DEF Range

LEMMA RangeSubSeq ==
    ASSUME NEW S, NEW s \in Seq(S), NEW m \in Nat \ {0}, NEW n \in Nat, n <= Len(s)
    PROVE  SubSeq(s, m, n) \in Seq(S) /\ Range(SubSeq(s, m, n)) \subseteq Range(s)
<1>1. Len(s) \in Nat /\ \A i \in 1 .. Len(s) : s[i] \in S
  BY LenProperties, ElementOfSeq
<1>2. /\ SubSeq(s, m, n) \in Seq(S)
      /\ Len(SubSeq(s, m, n)) = IF m <= n THEN n - m + 1 ELSE 0
      /\ \A i \in 1 .. n - m + 1 : SubSeq(s, m, n)[i] = s[m + i - 1]
  <2>1. \A i \in m .. n : s[i] \in S
    BY <1>1
  <2> QED BY <2>1, SubSeqProperties
<1>3. ASSUME NEW x, x \in Range(SubSeq(s, m, n)) PROVE x \in Range(s)
  <2>1. PICK i \in 1 .. Len(SubSeq(s, m, n)) : SubSeq(s, m, n)[i] = x
    BY <1>2, <1>3, RangeOf
  <2>2. i \in 1 .. n - m + 1 /\ m + i - 1 \in 1 .. Len(s)
    BY <1>1, <1>2, <2>1
  <2>3. s[m + i - 1] = x
    BY <1>2, <2>1, <2>2
  <2> QED BY <2>2, <2>3, RangeOf
<1> QED BY <1>2, <1>3

LEMMA RangeTail ==
    ASSUME NEW S, NEW s \in Seq(S), s # <<>>
    PROVE  /\ Tail(s) \in Seq(S) /\ Head(s) \in S
           /\ Range(s) = {Head(s)} \cup Range(Tail(s))
<1>1. /\ Tail(s) \in Seq(S) /\ Head(s) \in S
      /\ Len(Tail(s)) = Len(s) - 1 /\ Len(s) \in Nat \ {0}
      /\ \A i \in 1 .. Len(Tail(s)) : Tail(s)[i] = s[i + 1]
      /\ Head(s) = s[1]
  BY HeadTailProperties, EmptySeq
<1>2. \A x : x \in Range(s) <=> \E i \in 1 .. Len(s) : s[i] = x
  BY RangeOf
<1>t. \A x : x \in Range(Tail(s)) <=> \E i \in 1 .. Len(s) - 1 : Tail(s)[i] = x
  <2> DEFINE t == Tail(s)
  <2>1. t \in Seq(S) /\ Len(t) = Len(s) - 1
    BY <1>1
  <2> HIDE DEF t
  <2>2. \A x : x \in Range(t) <=> \E i \in 1 .. Len(t) : t[i] = x
    BY <2>1, RangeOf
  <2>3. \A x : x \in Range(t) <=> \E i \in 1 .. Len(s) - 1 : t[i] = x
    BY <2>1, <2>2
  <2> QED BY <2>3 DEF t
<1>3. ASSUME NEW x, x \in Range(s) PROVE x = Head(s) \/ x \in Range(Tail(s))
  <2>1. PICK i \in 1 .. Len(s) : s[i] = x
    BY <1>2, <1>3
  <2>2. i = 1 \/ i - 1 \in 1 .. Len(s) - 1
    BY <1>1
  <2>3. CASE i = 1
    BY <2>1, <2>3, <1>1
  <2>4. CASE i - 1 \in 1 .. Len(s) - 1
    <3>1. Tail(s)[i - 1] = s[i]
      BY <2>1, <2>4, <1>1
    <3> QED BY <2>1, <2>4, <3>1, <1>t
  <2> QED BY <2>2, <2>3, <2>4
<1>4. ASSUME NEW x, x = Head(s) \/ x \in Range(Tail(s)) PROVE x \in Range(s)
  <2>1. CASE x \in Range(Tail(s))
    <3>1. PICK i \in 1 .. Len(s) - 1 : Tail(s)[i] = x
      BY <1>t, <2>1
    <3>2. i + 1 \in 1 .. Len(s) /\ s[i + 1] = x
      BY <1>1, <3>1
    <3> QED BY <1>2, <3>2
  <2>2. CASE x = Head(s)
    <3>1. 1 \in 1 .. Len(s)
      BY <1>1
    <3> QED BY <1>1, <1>2, <2>2, <3>1
  <2> QED BY <1>4, <2>1, <2>2
<1> QED BY <1>1, <1>3, <1>4

\* What SetVar leaves of the lines: only lines of the table, and one for each list.
LEMMA LoadedLines ==
    ASSUME NEW S, NEW lines \in Seq(S), NEW kept \in Loaded(lines)
    PROVE  /\ kept \in Seq(S)
           /\ Range(kept) \subseteq Range(lines)
           /\ \A line \in Range(lines) : \E k \in Range(kept) : k.list = line.list
<1>1. PICK n \in 0 .. Len(lines) : kept \in [1 .. n -> Range(lines)]
  <2>1. kept \in UNION {[1 .. n -> Range(lines)] : n \in 0 .. Len(lines)}
    BY ZenonT(20) DEF Loaded
  <2> QED BY <2>1, Zenon
<1>2. Len(lines) \in Nat /\ n \in Nat /\ DOMAIN lines = 1 .. Len(lines)
  BY LenProperties
<1>3. Range(lines) \subseteq S
  BY RangeOf, ElementOfSeq
<1>4. kept \in Seq(S)
  <2>1. kept \in [1 .. n -> S]
    BY <1>1, <1>3
  <2> QED BY <1>2, <2>1, SeqDef
<1>5. Range(kept) \subseteq Range(lines)
  BY <1>1 DEF Range
<1>6. \A i \in DOMAIN lines : \E k \in DOMAIN kept : kept[k].list = lines[i].list
  BY DEF Loaded
<1> QED BY <1>4, <1>5, <1>6 DEF Range

-------------------------------------------------------------------------------
(* The inductive invariants. *)

\* An adder that writes has clients.db+ open.
TypeInv == TypeOK /\ \A a \in Adders : apc[a] = "write" => fd[a] \in Adders

\* A complete line is one that somebody added.
Sound(line) ==
    line.hash \in Versions =>
        \E a \in Adders : line \in Range(items[a]) /\ line.list = Adds[a].list /\ line.program = Adds[a].program

\* All lines are, wherever they are, and the last of an adder's own is its own.
LinesInv ==
    /\ \A a \in Adders : apc[a] \in {"stat", "read"} => items[a] = <<>>
    /\ \A a \in Adders : \A line \in Range(items[a]) \cup Range(data[a]) : Sound(line)
    /\ \A c \in Checkers : \A line \in Range(rows[c]) : Sound(line)
    /\ \A a \in Adders : apc[a] \in {"open", "write", "rename", "done"} =>
         items[a] # <<>> /\ Entry(a).list = Adds[a].list
    /\ OnlyGranted

\* An inode an adder has yet to create is nowhere in use, and clients.db+ is
\* another file than the table and the tables that checks have open.
InodesInv ==
    /\ \A a \in Adders : apc[a] \in {"stat", "read", "hash", "open"} =>
         a # db /\ a # temp /\ \A c \in Checkers : ino[c] # a
    /\ temp # Absent => temp # db /\ \A c \in Checkers : ino[c] # temp

Newest(s) == s[Len(s)]

\* A table does justice to the adders A, if L are those a full disk may have
\* taken: it has a line of each list they granted, and no other complete lines;
\* where a line was cut, one of its list is lost.
Holds(A, its, L, table) ==
    \A a \in A : Rivals(a) \cap L = {} => \E b \in Rivals(a) \cap A : Newest(its[b]) \in Range(table)

Origins(A, its, L, table) ==
    \A line \in Range(table) : IF line.hash = Absent THEN \E b \in L : line.list = Adds[b].list
                                                     ELSE \E b \in A : line = Newest(its[b])

Just(A, its, L, table) == Holds(A, its, L, table) /\ Origins(A, its, L, table)

Done == {a \in Adders : apc[a] = "done"}
Table == IF db = Absent THEN <<>> ELSE data[db]

\* While adders do not overlap, the table does justice to those that are done,
\* and what the one that runs has in hand to that one too.
TableInv ==
    ~ overlapped =>
        /\ \A a, b \in Adders : Running(a) /\ Running(b) => a = b
        /\ Just(Done, items, lost, Table)
        /\ \A r \in Adders :
            /\ apc[r] = "hash" => Just(Done, items, lost, items[r])
            /\ apc[r] \in {"open", "write", "rename"} => Just(Done \cup {r}, items, lost, items[r])
            /\ apc[r] = "write" => fd[r] = temp /\ data[temp] = <<>>
            /\ apc[r] = "rename" => IF temp = Absent THEN r \in lost
                                                     ELSE Just(Done \cup {r}, items, lost, data[temp])

\* What a check is owed is in the table it has open, then in the lines it has
\* not looked at, unless the program was replaced meanwhile.
Replaced(c) == version[Asks[c].program] # seen[c]

Found(c, a) ==
    /\ cpc[c] = "read" => ino[c] # Absent /\ Entry(a) \in Range(data[ino[c]])
    /\ cpc[c] = "lines" => Replaced(c) \/ Entry(a) \in Range(rows[c])
    /\ cpc[c] = "done" => Replaced(c) \/ verdict[c].granted

OwedInv ==
    \A c \in Checkers :
        /\ cpc[c] = "stat" => owed[c] = {}
        /\ cpc[c] # "stat" /\ Replaced(c) => seen[c] = First
        /\ \A a \in owed[c] : /\ apc[a] = "done" /\ Rivals(a) = {a}
                              /\ Matches(Entry(a), Asks[c], seen[c], seen[c])
        /\ ~ overlapped => \A a \in owed[c] \ lost : Found(c, a)

-------------------------------------------------------------------------------
(* Types. *)

\* The line an adder adds, and what becomes of one that is cut.
LEMMA LineTypes ==
    ASSUME TypeOK, NEW a \in Adders
    PROVE  /\ [list |-> Adds[a].list, program |-> Adds[a].program,
               size |-> size[a], hash |-> version[Adds[a].program]] \in Line
           /\ version[Adds[a].program] \in Versions
           /\ \A line \in Line : [line EXCEPT !.hash = Absent] \in Line
<1>1. Adds[a].program \in Programs /\ size[a] \in Nat /\ version \in [Programs -> Versions]
  BY GrantsAssumption DEF TypeOK
<1> QED BY <1>1 DEF Line

LEMMA InitTypes == Init => TypeInv
<1> SUFFICES ASSUME Init PROVE TypeInv
  OBVIOUS
<1>1. <<>> \in Seq(Line)
  BY EmptySeq
<1> QED BY <1>1, GrantsAssumption DEF Init, TypeInv, TypeOK

LEMMA AdderTypes ==
    ASSUME TypeInv, NEW a \in Adders, Adder(a) \/ Killed(a)
    PROVE  TypeInv'
<1> DEFINE steps == {"stat", "read", "hash", "open", "write", "rename", "done", "killed"}
<1>1. TypeOK /\ items[a] \in Seq(Line) /\ Absent \notin Adders
  BY GrantsAssumption DEF TypeInv, TypeOK
<1>2. \A s \in Seq(Line), i \in Adders :
        /\ [items EXCEPT ![i] = s] \in [Adders -> Seq(Line)]
        /\ [data EXCEPT ![i] = s] \in [Adders -> Seq(Line)]
  BY <1>1 DEF TypeOK
<1>3. \A from, to \in steps : Step(a, from, to) =>
        /\ apc' \in [Adders -> steps] /\ apc[a] = from /\ apc'[a] = to
        /\ \A b \in Adders \ {a} : apc'[b] = apc[b]
  BY <1>1 DEF Step, TypeOK
<1>4. CASE AddStat(a)
  <2>1. Size[version[Adds[a].program]] \in Nat
    BY <1>1, GrantsAssumption, LineTypes
  <2> QED BY <1>1, <1>3, <1>4, <2>1 DEF AddStat, TypeInv, TypeOK, Entry, checkerVars
<1>5. CASE AddRead(a)
  <2>1. PICK kept \in Loaded(IF db = Absent THEN <<>> ELSE data[db]) : items' = [items EXCEPT ![a] = kept]
    BY <1>5 DEF AddRead
  <2>2. (IF db = Absent THEN <<>> ELSE data[db]) \in Seq(Line)
    BY <1>1, EmptySeq DEF TypeOK
  <2>3. kept \in Seq(Line)
    BY <2>1, <2>2, LoadedLines
  <2>4. items' \in [Adders -> Seq(Line)] /\ \A b \in Adders \ {a} : items'[b] = items[b]
    BY <1>1, <1>2, <2>1, <2>3 DEF TypeOK
  <2> QED BY <1>1, <1>3, <1>5, <2>4, SMTT(40) DEF AddRead, TypeInv, TypeOK, Entry, checkerVars
<1>6. CASE AddHash(a)
  <2> DEFINE e == [list |-> Adds[a].list, program |-> Adds[a].program,
                   size |-> size[a], hash |-> version[Adds[a].program]]
  <2>1. e \in Line /\ e.hash \in Versions
    BY <1>1, LineTypes
  <2>2. items' = [items EXCEPT ![a] = Append(items[a], e)]
    BY <1>6 DEF AddHash
  <2> HIDE DEF e
  <2>3. /\ Append(items[a], e) \in Seq(Line)
        /\ Append(items[a], e)[Len(Append(items[a], e))] = e
    BY <1>1, <2>1, RangeAppend
  <2>4. /\ items' \in [Adders -> Seq(Line)]
        /\ \A b \in Adders \ {a} : items'[b] = items[b]
        /\ items'[a][Len(items'[a])].hash \in Versions
    BY <1>1, <1>2, <2>1, <2>2, <2>3 DEF TypeOK
  <2> QED BY <1>1, <1>3, <1>6, <2>4 DEF AddHash, TypeInv, TypeOK, Entry, checkerVars
<1>7. CASE AddOpen(a)
  <2>1. <<>> \in Seq(Line)
    BY EmptySeq
  <2>2. PICK i \in Adders : temp' = i /\ fd' = [fd EXCEPT ![a] = i] /\ data' = [data EXCEPT ![i] = <<>>]
    BY <1>1, <1>7 DEF AddOpen, TypeOK
  <2>3. data' \in [Adders -> Seq(Line)] /\ fd' \in [Adders -> Adders \cup {Absent}]
        /\ temp' \in Adders \cup {Absent}
        /\ \A b \in Adders : fd'[b] = IF b = a THEN i ELSE fd[b]
    BY <1>1, <1>2, <2>1, <2>2 DEF TypeOK
  <2> QED BY <1>1, <1>3, <1>7, <2>3, SMTT(40) DEF AddOpen, TypeInv, TypeOK, Entry, checkerVars
<1>8. CASE AddWrite(a)
  <2>1. fd[a] \in Adders /\ data[fd[a]] \in Seq(Line)
    BY <1>8 DEF AddWrite, Step, TypeInv, TypeOK
  <2>2. /\ Len(items[a]) \in Nat /\ Len(data[fd[a]]) \in Nat
        /\ Len(items[a]) + 1 \in Nat \ {0}
    BY <1>1, <2>1, LenProperties
  <2>3. SubSeq(data[fd[a]], Len(items[a]) + 1, Len(data[fd[a]])) \in Seq(Line)
    BY <2>1, <2>2, RangeSubSeq
  <2>4. items[a] \o SubSeq(data[fd[a]], Len(items[a]) + 1, Len(data[fd[a]])) \in Seq(Line)
    BY <1>1, <2>3, RangeConcat
  <2>5. data' \in [Adders -> Seq(Line)]
    BY <1>2, <1>8, <2>1, <2>4 DEF AddWrite
  <2> QED BY <1>1, <1>3, <1>8, <2>5 DEF AddWrite, TypeInv, TypeOK, Entry, checkerVars
<1>9. CASE AddWriteShort(a)
  <2>1. fd[a] \in Adders /\ data[fd[a]] \in Seq(Line)
    BY <1>9 DEF AddWriteShort, Step, TypeInv, TypeOK
  <2>2. PICK n \in Len(data[fd[a]]) .. Len(items[a]) - 1 :
          \E cut \in {<<>>, <<[items[a][n + 1] EXCEPT !.hash = Absent]>>} :
             data' = [data EXCEPT ![fd[a]] = SubSeq(items[a], 1, n) \o cut]
    BY <1>9 DEF AddWriteShort
  <2>3. PICK cut \in {<<>>, <<[items[a][n + 1] EXCEPT !.hash = Absent]>>} :
             data' = [data EXCEPT ![fd[a]] = SubSeq(items[a], 1, n) \o cut]
    BY <2>2
  <2>4. n \in Nat /\ n <= Len(items[a]) /\ n + 1 \in 1 .. Len(items[a])
    BY <1>1, <2>1, LenProperties
  <2>5. SubSeq(items[a], 1, n) \in Seq(Line)
    BY <1>1, <2>4, RangeSubSeq
  <2>6. [items[a][n + 1] EXCEPT !.hash = Absent] \in Line
    <3>1. items[a][n + 1] \in Line
      BY <1>1, <2>4, ElementOfSeq
    <3> QED BY <1>1, <3>1, LineTypes
  <2>7. cut \in Seq(Line)
    <3> DEFINE e == [items[a][n + 1] EXCEPT !.hash = Absent]
    <3>1. e \in Line /\ cut \in {<<>>, <<e>>}
      BY <2>6
    <3> HIDE DEF e
    <3>2. <<e>> \in Seq(Line) /\ <<>> \in Seq(Line)
      BY <3>1
    <3> QED BY <3>1, <3>2
  <2>8. SubSeq(items[a], 1, n) \o cut \in Seq(Line)
    BY <2>5, <2>7, RangeConcat
  <2>9. data' \in [Adders -> Seq(Line)]
    BY <1>2, <2>1, <2>3, <2>8
  <2>10. lost' \subseteq Adders
    BY <1>1, <1>9 DEF AddWriteShort, TypeOK
  <2> QED BY <1>1, <1>3, <1>9, <2>9, <2>10 DEF AddWriteShort, TypeInv, TypeOK, Entry, checkerVars
<1>10. CASE AddOpenFails(a)
  BY <1>1, <1>3, <1>10 DEF AddOpenFails, TypeInv, TypeOK, Entry, checkerVars
<1>11. CASE AddRename(a)
  BY <1>1, <1>3, <1>11 DEF AddRename, TypeInv, TypeOK, Entry, checkerVars
<1>12. CASE Killed(a)
  BY <1>1, <1>12 DEF Killed, TypeInv, TypeOK, Entry, checkerVars
<1> QED BY <1>4, <1>5, <1>6, <1>7, <1>8, <1>9, <1>10, <1>11, <1>12 DEF Adder

LEMMA CheckerTypes ==
    ASSUME TypeInv, NEW c \in Checkers, Checker(c)
    PROVE  TypeInv'
<1>1. TypeOK /\ Asks[c].program \in Programs /\ version[Asks[c].program] \in Versions
  BY GrantsAssumption DEF TypeInv, TypeOK
<1>2. CASE CheckStat(c)
  <2>1. owed' \in [Checkers -> SUBSET Adders] /\ seen' \in [Checkers -> Versions]
    BY <1>1, <1>2 DEF CheckStat, TypeOK
  <2> QED BY <1>1, <1>2, <2>1 DEF CheckStat, TypeInv, TypeOK, Entry, adderVars
<1>3. CASE CheckOpen(c)
  BY <1>1, <1>3 DEF CheckOpen, TypeInv, TypeOK, Entry, adderVars
<1>4. CASE CheckRead(c)
  <2>1. (IF ino[c] = Absent THEN <<>> ELSE data[ino[c]]) \in Seq(Line)
    BY <1>1, EmptySeq DEF TypeOK
  <2>2. rows' \in [Checkers -> Seq(Line)]
    BY <1>1, <1>4, <2>1 DEF CheckRead, TypeOK
  <2> QED BY <1>1, <1>4, <2>2 DEF CheckRead, TypeInv, TypeOK, Entry, adderVars
<1>5. CASE CheckLine(c)
  <2>1. rows[c] \in Seq(Line) /\ rows[c] # <<>>
    BY <1>1, <1>5 DEF CheckLine, TypeOK
  <2>2. Tail(rows[c]) \in Seq(Line)
    BY <2>1, RangeTail
  <2>3. rows' \in [Checkers -> Seq(Line)]
    BY <1>1, <1>5, <2>2 DEF CheckLine, TypeOK
  <2>4. Matches(Head(rows[c]), Asks[c], version[Asks[c].program], seen[c]) \in BOOLEAN
    BY DEF Matches
  <2>5. verdict' \in [Checkers -> [granted : BOOLEAN, hash : Versions]]
    BY <1>1, <1>5, <2>4 DEF CheckLine, TypeOK
  <2>6. cpc' \in [Checkers -> {"stat", "open", "read", "lines", "done", "crashed"}]
    BY <1>1, <1>5 DEF CheckLine, TypeOK
  <2> QED BY <1>1, <1>5, <2>3, <2>5, <2>6 DEF CheckLine, TypeInv, TypeOK, Entry, adderVars
<1>6. CASE CheckCrashes(c) \/ CheckEnd(c)
  BY <1>1, <1>6 DEF CheckCrashes, CheckEnd, TypeInv, TypeOK, Entry, adderVars
<1> QED BY <1>2, <1>3, <1>4, <1>5, <1>6 DEF Checker

LEMMA NextTypes == TypeInv /\ [Next]_vars => TypeInv'
<1> SUFFICES ASSUME TypeInv, [Next]_vars PROVE TypeInv'
  OBVIOUS
<1>1. ASSUME NEW p \in Programs, Upgrade(p) PROVE TypeInv'
  BY <1>1 DEF Upgrade, TypeInv, TypeOK, Entry, adderVars, checkerVars
<1>2. CASE UNCHANGED vars
  BY <1>2 DEF vars, TypeInv, TypeOK, Entry, adderVars, checkerVars
<1> QED BY <1>1, <1>2, AdderTypes, CheckerTypes DEF Next

\* What the files, lists and variables of adders and checks may hold.
THEOREM TypeCorrect == Spec => []TypeOK
<1>1. TypeInv => TypeOK
  BY DEF TypeInv
<1> QED BY <1>1, InitTypes, NextTypes, PTL DEF Spec

-------------------------------------------------------------------------------
(* What the steps of an adder do to its list and to the files. *)

LEMMA ReadStep ==
    ASSUME TypeInv, NEW a \in Adders, AddRead(a)
    PROVE  /\ \A b \in Adders \ {a} : items'[b] = items[b]
           /\ items'[a] \in Loaded(Table) /\ Table \in Seq(Line)
           /\ Range(items'[a]) \subseteq Range(Table)
<1>1. Table \in Seq(Line)
  BY EmptySeq DEF Table, TypeInv, TypeOK
<1>2. PICK kept \in Loaded(Table) : items' = [items EXCEPT ![a] = kept]
  BY DEF AddRead, Table
<1>3. Range(kept) \subseteq Range(Table)
  BY <1>1, <1>2, LoadedLines
<1> QED BY <1>1, <1>2, <1>3 DEF TypeInv, TypeOK

\* The line an adder adds.
Grant(a) == [list |-> Adds[a].list, program |-> Adds[a].program,
             size |-> size[a], hash |-> version[Adds[a].program]]

LEMMA HashStep ==
    ASSUME TypeInv, NEW a \in Adders, AddHash(a)
    PROVE  /\ \A b \in Adders \ {a} : items'[b] = items[b]
           /\ items'[a] \in Seq(Line) \ {<<>>}
           /\ Range(items'[a]) = Range(items[a]) \cup {Grant(a)}
           /\ Newest(items'[a]) = Grant(a)
           /\ Grant(a).hash \in Versions /\ Grant(a).list = Adds[a].list /\ Grant(a).program = Adds[a].program
<1>1. TypeOK /\ items[a] \in Seq(Line)
  BY DEF TypeInv, TypeOK
<1>2. Grant(a) \in Line /\ Grant(a).hash \in Versions /\ Grant(a).list = Adds[a].list
      /\ Grant(a).program = Adds[a].program
  BY <1>1, LineTypes DEF Grant
<1>3. items' = [items EXCEPT ![a] = Append(items[a], Grant(a))]
  BY DEF AddHash, Grant
<1>4. items'[a] = Append(items[a], Grant(a)) /\ \A b \in Adders \ {a} : items'[b] = items[b]
  BY <1>1, <1>3 DEF TypeOK
<1>5. /\ Append(items[a], Grant(a)) \in Seq(Line) /\ Append(items[a], Grant(a)) # <<>>
      /\ Newest(Append(items[a], Grant(a))) = Grant(a)
      /\ Range(Append(items[a], Grant(a))) = Range(items[a]) \cup {Grant(a)}
  BY <1>1, <1>2, RangeAppend, AppendProperties DEF Newest
<1> QED BY <1>2, <1>4, <1>5

LEMMA OpenStep ==
    ASSUME TypeInv, NEW a \in Adders, AddOpen(a)
    PROVE  /\ temp' \in Adders /\ temp' = IF temp = Absent THEN a ELSE temp
           /\ fd'[a] = temp' /\ data'[temp'] = <<>>
           /\ \A b \in Adders \ {a} : fd'[b] = fd[b]
           /\ \A i \in Adders \ {temp'} : data'[i] = data[i]
<1>1. TypeOK
  BY DEF TypeInv
<1>2. temp' = (IF temp = Absent THEN a ELSE temp) /\ temp' \in Adders
  BY <1>1 DEF AddOpen, TypeOK
<1>3. fd' = [fd EXCEPT ![a] = temp'] /\ data' = [data EXCEPT ![temp'] = <<>>]
  BY DEF AddOpen
<1> QED BY <1>1, <1>2, <1>3 DEF TypeOK

LEMMA WriteStep ==
    ASSUME TypeInv, NEW a \in Adders, AddWrite(a)
    PROVE  /\ fd[a] \in Adders
           /\ \A i \in Adders \ {fd[a]} : data'[i] = data[i]
           /\ Range(items[a]) \subseteq Range(data'[fd[a]])
           /\ Range(data'[fd[a]]) \subseteq Range(items[a]) \cup Range(data[fd[a]])
<1>1. TypeOK /\ items[a] \in Seq(Line)
  BY DEF TypeInv, TypeOK
<1>2. fd[a] \in Adders /\ data[fd[a]] \in Seq(Line)
  BY DEF AddWrite, Step, TypeInv, TypeOK
<1> DEFINE left == SubSeq(data[fd[a]], Len(items[a]) + 1, Len(data[fd[a]]))
<1>3. /\ Len(items[a]) \in Nat /\ Len(data[fd[a]]) \in Nat
      /\ Len(items[a]) + 1 \in Nat \ {0}
  BY <1>1, <1>2, LenProperties
<1>4. left \in Seq(Line) /\ Range(left) \subseteq Range(data[fd[a]])
  BY <1>2, <1>3, RangeSubSeq
<1>5. data' = [data EXCEPT ![fd[a]] = items[a] \o left]
  BY DEF AddWrite
<1> HIDE DEF left
<1>6. Range(items[a] \o left) = Range(items[a]) \cup Range(left)
  BY <1>1, <1>4, RangeConcat
<1> QED BY <1>1, <1>2, <1>4, <1>5, <1>6 DEF TypeOK

LEMMA ShortStep ==
    ASSUME TypeInv, NEW a \in Adders, AddWriteShort(a)
    PROVE  /\ fd[a] \in Adders
           /\ \A i \in Adders \ {fd[a]} : data'[i] = data[i]
           /\ \A line \in Range(data'[fd[a]]) :
                line \in Range(items[a]) \/ \E whole \in Range(items[a]) : line = [whole EXCEPT !.hash = Absent]
<1>1. TypeOK /\ items[a] \in Seq(Line)
  BY DEF TypeInv, TypeOK
<1>2. fd[a] \in Adders /\ data[fd[a]] \in Seq(Line)
  BY DEF AddWriteShort, Step, TypeInv, TypeOK
<1>3. PICK n \in Len(data[fd[a]]) .. Len(items[a]) - 1 :
        \E cut \in {<<>>, <<[items[a][n + 1] EXCEPT !.hash = Absent]>>} :
           data' = [data EXCEPT ![fd[a]] = SubSeq(items[a], 1, n) \o cut]
  BY DEF AddWriteShort
<1>4. n \in Nat /\ n <= Len(items[a]) /\ n + 1 \in 1 .. Len(items[a])
  BY <1>1, <1>2, LenProperties
<1> DEFINE whole == items[a][n + 1]
           e == [whole EXCEPT !.hash = Absent]
           kept == SubSeq(items[a], 1, n)
<1>5. kept \in Seq(Line) /\ Range(kept) \subseteq Range(items[a])
  BY <1>1, <1>4, RangeSubSeq
<1>6. whole \in Range(items[a]) /\ whole \in Line
  BY <1>1, <1>4, RangeOf, ElementOfSeq
<1>7. e \in Line
  BY <1>1, <1>6, LineTypes
<1>8. PICK cut \in {<<>>, <<e>>} : data' = [data EXCEPT ![fd[a]] = kept \o cut]
  BY <1>3
<1>9. Range(data'[fd[a]]) \subseteq Range(items[a]) \cup {e}
  <2> HIDE DEF e, kept
  <2>1. <<e>> \in Seq(Line) /\ <<>> \in Seq(Line) /\ Range(<<>>) = {}
    BY <1>7, RangeShort, ZenonT(40)
  <2>2. Range(<<e>>) = {e}
    BY <1>7, RangeShort
  <2>3. cut \in Seq(Line) /\ Range(cut) \subseteq {e}
    BY <1>8, <2>1, <2>2
  <2>4. Range(kept \o cut) = Range(kept) \cup Range(cut)
    BY <1>5, <2>3, RangeConcat
  <2>5. data'[fd[a]] = kept \o cut
    BY <1>1, <1>2, <1>8 DEF TypeOK
  <2> QED BY <1>5, <2>3, <2>4, <2>5
<1>10. \A i \in Adders \ {fd[a]} : data'[i] = data[i]
  <2> HIDE DEF e, kept
  <2> QED BY <1>1, <1>2, <1>8 DEF TypeOK
<1> QED BY <1>2, <1>6, <1>9, <1>10

\* An adder changes its own step and list only, and its list in two steps.
LEMMA AdderStep ==
    ASSUME TypeInv, NEW a \in Adders, Adder(a) \/ Killed(a)
    PROVE  /\ \A b \in Adders \ {a} : apc'[b] = apc[b] /\ items'[b] = items[b]
           /\ AddRead(a) \/ AddHash(a) \/ items' = items
           /\ AddOpen(a) \/ AddWrite(a) \/ AddWriteShort(a) \/ data' = data
           /\ UNCHANGED <<version, checkerVars>>
           /\ apc[a] # "done"
<1>1. \A b \in Adders \ {a} : items'[b] = items[b]
  <2>1. CASE AddRead(a)
    BY <2>1, ReadStep
  <2>2. CASE AddHash(a)
    BY <2>2, HashStep
  <2>3. CASE ~ AddRead(a) /\ ~ AddHash(a)
    BY <2>3 DEF Adder, AddStat, AddOpen, AddWrite, AddWriteShort, AddOpenFails, AddRename, Killed
  <2> QED BY <2>1, <2>2, <2>3
<1>2. \A b \in Adders \ {a} : apc'[b] = apc[b]
  BY DEF Adder, Killed, Step, AddStat, AddRead, AddHash, AddOpen, AddWrite, AddWriteShort, AddOpenFails, AddRename,
         TypeInv, TypeOK
<1> QED BY <1>1, <1>2 DEF Adder, Killed, Running, Step,
           AddStat, AddRead, AddHash, AddOpen, AddWrite, AddWriteShort, AddOpenFails, AddRename, checkerVars

-------------------------------------------------------------------------------
(* Lines come from those that added them. *)

\* Lists only grow, so that a line that came from one does so for good.
LEMMA SoundStays ==
    ASSUME TypeInv, LinesInv, [Next]_vars
    PROVE  \A line : Sound(line) => Sound(line)'
<1>1. ASSUME NEW a \in Adders, Adder(a) \/ Killed(a), NEW b \in Adders
      PROVE  Range(items[b]) \subseteq Range(items'[b])
  <2>1. CASE AddRead(a)
    <3>1. items[a] = <<>>
      BY <2>1 DEF AddRead, Step, LinesInv
    <3>2. Range(items[a]) = {}
      BY <3>1, RangeShort
    <3> QED BY <2>1, <3>2, ReadStep
  <2>2. CASE AddHash(a)
    BY <2>2, HashStep
  <2> QED BY <1>1, <2>1, <2>2, AdderStep
<1>2. (\E c \in Checkers : Checker(c)) \/ (\E p \in Programs : Upgrade(p)) \/ UNCHANGED vars => UNCHANGED items
  BY DEF Checker, CheckStat, CheckOpen, CheckRead, CheckLine, CheckCrashes, CheckEnd, Upgrade, vars, adderVars
<1>3. \A b \in Adders : Range(items[b]) \subseteq Range(items'[b])
  BY <1>1, <1>2 DEF Next
<1> QED BY <1>3 DEF Sound

LEMMA InitLines == Init => LinesInv
<1> SUFFICES ASSUME Init PROVE LinesInv
  OBVIOUS
<1>1. /\ \A a \in Adders : Range(items[a]) = {} /\ Range(data[a]) = {}
      /\ \A c \in Checkers : Range(rows[c]) = {}
  BY RangeShort DEF Init
<1> QED BY <1>1 DEF Init, LinesInv, OnlyGranted

LEMMA AdderLines ==
    ASSUME TypeInv, LinesInv, NEW a \in Adders, Adder(a) \/ Killed(a),
           \A line : Sound(line) => Sound(line)'
    PROVE  LinesInv'
<1>1. \A b \in Adders : apc'[b] \in {"stat", "read"} => items'[b] = <<>>
  <2>1. CASE AddStat(a)
    BY <2>1 DEF AddStat, Step, LinesInv, TypeInv, TypeOK
  <2>2. CASE AddRead(a) \/ AddHash(a)
    BY <2>2, AdderStep, SMTT(40) DEF AddRead, AddHash, Step, LinesInv, TypeInv, TypeOK
  <2>3. CASE AddOpen(a) \/ AddOpenFails(a)
    BY <2>3, AdderStep, SMTT(40) DEF AddOpen, AddOpenFails, Step, LinesInv, TypeInv, TypeOK
  <2>4. CASE AddWrite(a) \/ AddWriteShort(a) \/ AddRename(a)
    BY <2>4, AdderStep DEF AddWrite, AddWriteShort, AddRename, Step, LinesInv, TypeInv, TypeOK
  <2>5. CASE Killed(a)
    BY <2>5 DEF Killed, Step, LinesInv, TypeInv, TypeOK
  <2> QED BY <2>1, <2>2, <2>3, <2>4, <2>5 DEF Adder
<1>2. ASSUME NEW line \in Range(items'[a]) PROVE Sound(line)'
  <2>1. CASE AddRead(a)
    <3>1. line \in Range(Table)
      BY <1>2, <2>1, ReadStep
    <3>2. db \in Adders /\ line \in Range(data[db])
      BY <3>1, RangeShort DEF Table, TypeInv, TypeOK
    <3> QED BY <3>2 DEF LinesInv
  <2>2. CASE AddHash(a)
    <3>1. CASE line \in Range(items[a])
      BY <3>1 DEF LinesInv
    <3>2. CASE line = Grant(a)
      BY <1>2, <2>2, <3>2, HashStep DEF Sound
    <3> QED BY <1>2, <2>2, <3>1, <3>2, HashStep
  <2>3. CASE items' = items
    BY <1>2, <2>3 DEF LinesInv
  <2> QED BY <2>1, <2>2, <2>3, AdderStep
<1>3. ASSUME NEW b \in Adders, NEW line \in Range(data'[b]) PROVE Sound(line)'
  <2>1. CASE AddOpen(a)
    <3>1. b # temp' /\ line \in Range(data[b])
      BY <1>3, <2>1, OpenStep, RangeShort
    <3> QED BY <3>1 DEF LinesInv
  <2>2. CASE AddWrite(a)
    <3>1. line \in Range(data[b]) \/ line \in Range(items[a])
      BY <1>3, <2>2, WriteStep
    <3> QED BY <3>1 DEF LinesInv
  <2>3. CASE AddWriteShort(a)
    <3>1. CASE line \in Range(data[b]) \/ line \in Range(items[a])
      BY <3>1 DEF LinesInv
    <3>2. CASE \E whole \in Range(items[a]) : line = [whole EXCEPT !.hash = Absent]
      <4>1. PICK whole \in Range(items[a]) : line = [whole EXCEPT !.hash = Absent]
        BY <3>2, SMTT(40)
      <4>2. items[a] \in Seq(Line)
        BY DEF TypeInv, TypeOK
      <4>3. whole \in Line
        BY <4>2, RangeOf, ElementOfSeq
      <4>4. line.hash = Absent
        BY <4>1, <4>3 DEF Line
      <4> QED BY <4>4, GrantsAssumption DEF Sound
    <3> QED BY <1>3, <2>3, <3>1, <3>2, ShortStep
  <2>4. CASE data' = data
    BY <1>3, <2>4 DEF LinesInv
  <2> QED BY <2>1, <2>2, <2>3, <2>4, AdderStep
<1>4. ASSUME NEW c \in Checkers, NEW line \in Range(rows'[c]) PROVE Sound(line)'
  BY <1>4, AdderStep DEF LinesInv, checkerVars
<1>5. ASSUME NEW b \in Adders, apc'[b] \in {"open", "write", "rename", "done"}
      PROVE  items'[b] # <<>> /\ Entry(b)'.list = Adds[b].list
  <2>1. CASE b = a /\ AddHash(a)
    <3>1. items'[a] # <<>> /\ Newest(items'[a]).list = Adds[a].list
      BY <2>1, HashStep, SMTT(40)
    <3> QED BY <2>1, <3>1 DEF Entry, Newest
  <2>2. CASE ~ (b = a /\ AddHash(a))
    <3>1. apc[b] \in {"open", "write", "rename", "done"} /\ items'[b] = items[b]
      BY <1>5, <2>2, AdderStep, ZenonT(40) DEF Adder, Killed, Step, TypeInv, TypeOK,
           AddStat, AddRead, AddOpen, AddWrite, AddWriteShort, AddOpenFails, AddRename
    <3> QED BY <3>1, SMTT(40) DEF LinesInv, Entry
  <2> QED BY <2>1, <2>2
<1>6. OnlyGranted'
  <2> SUFFICES ASSUME NEW c \in Checkers, verdict'[c].granted
               PROVE  (\E b \in Adders : \E line \in Range(items[b]) :
                         /\ line.list = Adds[b].list /\ Asks[c].command \in Range(line.list)
                         /\ line.program = Adds[b].program /\ line.program = Asks[c].program
                         /\ line.hash = verdict[c].hash)'
    BY DEF OnlyGranted
  <2>1. verdict' = verdict
    BY AdderStep DEF checkerVars
  <2>2. PICK b \in Adders : \E line \in Range(items[b]) :
          /\ line.list = Adds[b].list /\ Asks[c].command \in Range(line.list)
          /\ line.program = Adds[b].program /\ line.program = Asks[c].program
          /\ line.hash = verdict[c].hash
    BY <2>1 DEF LinesInv, OnlyGranted
  <2>3. PICK line \in Range(items[b]) :
          /\ line.list = Adds[b].list /\ Asks[c].command \in Range(line.list)
          /\ line.program = Adds[b].program /\ line.program = Asks[c].program
          /\ line.hash = verdict[c].hash
    BY <2>2
  <2>4. Sound(line)' /\ verdict[c].hash \in Versions
    BY <2>1, <2>3 DEF LinesInv, TypeInv, TypeOK
  <2> QED BY <2>1, <2>3, <2>4 DEF Sound
<1>7. \A b \in Adders \ {a} : items'[b] = items[b]
  BY AdderStep
<1>8. \A b \in Adders : \A line \in Range(items'[b]) : Sound(line)'
  BY <1>2, <1>7 DEF LinesInv
<1> QED BY <1>1, <1>3, <1>4, <1>5, <1>6, <1>8 DEF LinesInv

LEMMA NextLines == TypeInv /\ LinesInv /\ [Next]_vars => LinesInv'
<1> SUFFICES ASSUME TypeInv, LinesInv, [Next]_vars PROVE LinesInv'
  OBVIOUS
<1>1. \A line : Sound(line) => Sound(line)'
  BY SoundStays
<1>2. ASSUME NEW c \in Checkers, Checker(c) PROVE LinesInv'
  <2>1. UNCHANGED <<apc, items, data>>
    BY <1>2 DEF Checker, CheckStat, CheckOpen, CheckRead, CheckLine, CheckCrashes, CheckEnd, adderVars
  <2>2. ASSUME NEW d \in Checkers, NEW line \in Range(rows'[d]) PROVE Sound(line)'
    <3>1. CASE CheckRead(c)
      <4>1. line \in Range(rows[d]) \/ \E i \in Adders : line \in Range(data[i])
        BY <2>2, <3>1, RangeShort DEF CheckRead, TypeInv, TypeOK
      <4> QED BY <1>1, <4>1 DEF LinesInv
    <3>2. CASE CheckLine(c)
      <4>1. rows[c] \in Seq(Line) /\ rows[c] # <<>>
        BY <3>2 DEF CheckLine, TypeInv, TypeOK
      <4>2. Range(Tail(rows[c])) \subseteq Range(rows[c])
        BY <4>1, RangeTail
      <4>3. line \in Range(rows[d])
        BY <2>2, <3>2, <4>2 DEF CheckLine, TypeInv, TypeOK
      <4> QED BY <1>1, <4>3 DEF LinesInv
    <3>3. CASE rows' = rows
      BY <1>1, <2>2, <3>3 DEF LinesInv
    <3> QED BY <1>2, <3>1, <3>2, <3>3 DEF Checker, CheckStat, CheckOpen, CheckCrashes, CheckEnd
  <2>3. OnlyGranted'
    <3> SUFFICES ASSUME NEW d \in Checkers, verdict'[d].granted
                 PROVE  \E b \in Adders : \E line \in Range(items[b]) :
                         /\ line.list = Adds[b].list /\ Asks[d].command \in Range(line.list)
                         /\ line.program = Adds[b].program /\ line.program = Asks[d].program
                         /\ line.hash = verdict'[d].hash
      BY <2>1 DEF OnlyGranted
    <3>1. CASE verdict'[d] = verdict[d]
      BY <3>1 DEF LinesInv, OnlyGranted
    <3>2. CASE verdict'[d] # verdict[d]
      <4> DEFINE line == Head(rows[c])
                 v == version[Asks[c].program]
      <4>1. CheckLine(c) /\ d = c
        BY <1>2, <3>2 DEF Checker, CheckStat, CheckOpen, CheckRead, CheckLine, CheckCrashes, CheckEnd, TypeInv, TypeOK
      <4>2. Matches(line, Asks[c], v, seen[c]) /\ verdict'[d].hash = v
        BY <4>1 DEF CheckLine, TypeInv, TypeOK
      <4>3. line \in Range(rows[c])
        <5>1. rows[c] \in Seq(Line) /\ rows[c] # <<>>
          BY <4>1 DEF CheckLine, TypeInv, TypeOK
        <5> QED BY <5>1, RangeTail
      <4>4. v \in Versions
        BY GrantsAssumption DEF TypeInv, TypeOK
      <4>5. PICK b \in Adders : line \in Range(items[b]) /\ line.list = Adds[b].list /\ line.program = Adds[b].program
        BY <4>2, <4>3, <4>4 DEF LinesInv, Sound, Matches
      <4> QED BY <4>1, <4>2, <4>5 DEF Matches
    <3> QED BY <3>1, <3>2
  <2> QED BY <1>1, <2>1, <2>2, <2>3 DEF LinesInv, Entry
<1>3. ASSUME NEW p \in Programs, Upgrade(p) PROVE LinesInv'
  BY <1>1, <1>3 DEF Upgrade, LinesInv, OnlyGranted, Entry, adderVars, checkerVars
<1>4. CASE UNCHANGED vars
  BY <1>1, <1>4 DEF vars, LinesInv, OnlyGranted, Entry, adderVars, checkerVars
<1> QED BY <1>1, <1>2, <1>3, <1>4, AdderLines DEF Next

\* However runs of grant overlap, die and overwrite each other, a check succeeds
\* only for a command that one of them granted to the very program that asks.
THEOREM OnlyWhatWasGranted == Spec => []OnlyGranted
<1>1. LinesInv => OnlyGranted
  BY DEF LinesInv
<1> QED BY <1>1, InitTypes, NextTypes, InitLines, NextLines, PTL DEF Spec

-------------------------------------------------------------------------------
(* Inodes. *)

LEMMA InitInodes == Init => InodesInv
BY GrantsAssumption DEF Init, InodesInv

LEMMA NextInodes == TypeInv /\ InodesInv /\ [Next]_vars => InodesInv'
<1> SUFFICES ASSUME TypeInv, InodesInv, [Next]_vars PROVE InodesInv'
  OBVIOUS
<1>1. ASSUME NEW a \in Adders, Adder(a) \/ Killed(a) PROVE InodesInv'
  <2>1. /\ \A b \in Adders : apc'[b] \in {"stat", "read", "hash", "open"} =>
             apc[b] \in {"stat", "read", "hash", "open"}
        /\ UNCHANGED ino
    <3>1. \A b \in Adders \ {a} : apc'[b] = apc[b]
      BY <1>1, AdderStep
    <3>2. UNCHANGED ino
      BY <1>1, AdderStep, SMTT(40) DEF checkerVars
    <3>3. apc'[a] \in {"stat", "read", "hash", "open"} => apc[a] \in {"stat", "read", "hash", "open"}
      <4>1. apc \in [Adders -> {"stat", "read", "hash", "open", "write", "rename", "done", "killed"}]
        BY DEF TypeInv, TypeOK
      <4> QED BY <1>1, <4>1 DEF Adder, Killed, Step, Running,
                AddStat, AddRead, AddHash, AddOpen, AddWrite, AddWriteShort, AddOpenFails, AddRename
    <3> QED BY <3>1, <3>2, <3>3
  <2>2. CASE AddOpen(a)
    <3>1. apc[a] = "open" /\ apc'[a] = "write" /\ db' = db /\ temp' = IF temp = Absent THEN a ELSE temp
      BY <2>2 DEF AddOpen, Step, TypeInv, TypeOK
    <3> QED BY <2>1, <3>1 DEF InodesInv
  <2>3. CASE AddRename(a)
    <3>1. \/ temp = Absent /\ db' = db /\ temp' = temp
          \/ temp # Absent /\ db' = temp /\ temp' = Absent
      <4>1. temp = Absent => db' = db /\ temp' = temp
        BY <2>3 DEF AddRename
      <4>2. temp # Absent => db' = temp /\ temp' = Absent
        BY <2>3 DEF AddRename
      <4> QED BY <4>1, <4>2
    <3> QED BY <2>1, <3>1, GrantsAssumption DEF InodesInv
  <2>4. CASE UNCHANGED <<db, temp>>
    BY <2>1, <2>4 DEF InodesInv
  <2> QED BY <1>1, <2>2, <2>3, <2>4 DEF Adder, Killed,
       AddStat, AddRead, AddHash, AddWrite, AddWriteShort, AddOpenFails
<1>2. ASSUME NEW c \in Checkers, Checker(c) PROVE InodesInv'
  <2>1. UNCHANGED <<apc, db, temp>> /\ \A d \in Checkers : ino'[d] = ino[d] \/ ino'[d] = db
    BY <1>2 DEF Checker, CheckStat, CheckOpen, CheckRead, CheckLine, CheckCrashes, CheckEnd, adderVars, TypeInv, TypeOK
  <2> QED BY <2>1 DEF InodesInv
<1>3. ASSUME NEW p \in Programs, Upgrade(p) PROVE InodesInv'
  BY <1>3 DEF Upgrade, InodesInv, adderVars, checkerVars
<1>4. CASE UNCHANGED vars
  BY <1>4 DEF vars, InodesInv, adderVars, checkerVars
<1> QED BY <1>1, <1>2, <1>3, <1>4 DEF Next

-------------------------------------------------------------------------------
(* Tables that do justice to some adders. *)

\* More lines may be lost, and others' lists may change.
LEMMA JustFrame ==
    ASSUME NEW A, NEW its, NEW its2, NEW L, NEW L2, NEW table,
           \A b \in A : its2[b] = its[b], L \subseteq L2,
           Just(A, its, L, table), A \subseteq Adders
    PROVE  Just(A, its2, L2, table)
<1>1. \A a \in A : Rivals(a) \cap L2 = {} => Rivals(a) \cap L = {}
  OBVIOUS
<1> QED BY <1>1 DEF Just, Holds, Origins

\* It is the lines that count, not their order.
LEMMA JustLines ==
    ASSUME NEW A, NEW its, NEW L, NEW table, NEW table2, Range(table) = Range(table2),
           Just(A, its, L, table)
    PROVE  Just(A, its, L, table2)
BY DEF Just, Holds, Origins

\* Reading a table keeps it just: of the lines of one list, which all but lost
\* adders granted, one stays.
LEMMA JustLoaded ==
    ASSUME NEW A \in SUBSET Adders, NEW its, NEW L, NEW table \in Seq(Line), NEW kept \in Loaded(table),
           \A b \in A : Newest(its[b]).list = Adds[b].list,
           L \subseteq Adders,
           Just(A, its, L, table)
    PROVE  Just(A, its, L, kept)
<1>1. /\ Range(kept) \subseteq Range(table)
      /\ \A line \in Range(table) : \E k \in Range(kept) : k.list = line.list
  BY LoadedLines
<1>2. Origins(A, its, L, kept)
  BY <1>1 DEF Just, Origins
<1>3. ASSUME NEW a \in A, Rivals(a) \cap L = {}
      PROVE  \E b \in Rivals(a) \cap A : Newest(its[b]) \in Range(kept)
  <2>1. PICK b \in Rivals(a) \cap A : Newest(its[b]) \in Range(table)
    BY <1>3 DEF Just, Holds
  <2>2. PICK k \in Range(kept) : k.list = Adds[b].list
    BY <1>1, <2>1
  <2>3. k.list = Adds[a].list
    BY <2>1, <2>2 DEF Rivals
  <2>4. k.hash # Absent
    <3>1. \A x \in L : x \in Adders /\ k.list # Adds[x].list
      BY <1>3, <2>3 DEF Rivals
    <3> QED BY <1>2, <2>2, <3>1 DEF Origins
  <2>5. PICK d \in A : k = Newest(its[d])
    BY <1>2, <2>2, <2>4 DEF Origins
  <2>6. d \in Rivals(a)
    BY <2>3, <2>5 DEF Rivals
  <2> QED BY <2>2, <2>5, <2>6
<1> QED BY <1>2, <1>3 DEF Just, Holds

\* An adder adds its line.
LEMMA JustGrant ==
    ASSUME NEW A \in SUBSET Adders, NEW its, NEW its2, NEW L, NEW r \in Adders \ A, NEW e,
           Just(A, its, L, its[r]),
           \A b \in A : its2[b] = its[b],
           Range(its2[r]) = Range(its[r]) \cup {e}, Newest(its2[r]) = e, e.hash # Absent
    PROVE  Just(A \cup {r}, its2, L, its2[r])
<1>1. Holds(A \cup {r}, its2, L, its2[r])
  <2> SUFFICES ASSUME NEW a \in A \cup {r}, Rivals(a) \cap L = {}
               PROVE  \E b \in Rivals(a) \cap (A \cup {r}) : Newest(its2[b]) \in Range(its2[r])
    BY DEF Holds
  <2>1. CASE a \in A
    BY <2>1 DEF Just, Holds
  <2>2. CASE a = r
    <3>1. r \in Rivals(r)
      BY DEF Rivals
    <3> QED BY <2>2, <3>1
  <2> QED BY <2>1, <2>2
<1>2. Origins(A \cup {r}, its2, L, its2[r])
  BY DEF Just, Origins
<1> QED BY <1>1, <1>2 DEF Just

\* Where all that was granted may be lost, lines may have been cut.
LEMMA JustShort ==
    ASSUME NEW A \in SUBSET Adders, NEW its, NEW L, NEW L2, NEW lines \in Seq(Line), NEW table,
           Just(A, its, L, lines), L \subseteq L2, A \subseteq L2,
           \A b \in A : Newest(its[b]).list = Adds[b].list,
           \A line \in Range(table) :
             line \in Range(lines) \/ \E whole \in Range(lines) : line = [whole EXCEPT !.hash = Absent]
    PROVE  Just(A, its, L2, table)
<1>1. Holds(A, its, L2, table)
  <2>1. ASSUME NEW a \in A PROVE a \in Rivals(a) \cap L2
    BY DEF Rivals
  <2> QED BY <2>1 DEF Holds
<1>2. ASSUME NEW line \in Range(lines) PROVE \E b \in L2 : line.list = Adds[b].list
  BY <1>2 DEF Just, Origins
<1>3. ASSUME NEW line \in Range(table)
      PROVE  IF line.hash = Absent THEN \E b \in L2 : line.list = Adds[b].list ELSE \E b \in A : line = Newest(its[b])
  <2>1. CASE line \in Range(lines)
    BY <1>2, <2>1 DEF Just, Origins
  <2>2. CASE \E whole \in Range(lines) : line = [whole EXCEPT !.hash = Absent]
    <3>1. PICK whole \in Range(lines) : line = [whole EXCEPT !.hash = Absent]
      BY <2>2
    <3>2. whole \in Line
      BY RangeOf, ElementOfSeq
    <3>3. line.hash = Absent /\ line.list = whole.list
      BY <3>1, <3>2 DEF Line
    <3> QED BY <1>2, <3>3
  <2> QED BY <1>3, <2>1, <2>2
<1> QED BY <1>1, <1>3 DEF Just, Origins

\* An adder that a full disk has made lose its line is owed nothing.
LEMMA JustLost ==
    ASSUME NEW A \in SUBSET Adders, NEW its, NEW L, NEW table, NEW r \in Adders \cap L,
           Just(A, its, L, table)
    PROVE  Just(A \cup {r}, its, L, table)
<1>1. r \in Rivals(r) \cap L
  BY DEF Rivals
<1> QED BY <1>1 DEF Just, Holds, Origins

-------------------------------------------------------------------------------
(* The table does justice to those that have granted. *)

LEMMA InitTable == Init => TableInv
<1> SUFFICES ASSUME Init PROVE TableInv
  OBVIOUS
<1>1. Done = {} /\ Table = <<>> /\ Range(Table) = {}
  BY RangeShort DEF Init, Done, Table
<1> QED BY <1>1 DEF Init, TableInv, Running, Just, Holds, Origins

\* A step of the one adder that runs, or starts to: what is left to show.
LEMMA OneAdder ==
    ASSUME TypeInv, TableInv, NEW a \in Adders, Adder(a) \/ Killed(a), ~ overlapped'
    PROVE  /\ ~ overlapped
           /\ \A b \in Adders \ {a} : ~ Running(b) /\ ~ Running(b)'
           /\ Done' = IF AddRename(a) THEN Done \cup {a} ELSE Done
<1>1. ~ overlapped /\ (AddStat(a) => \A b \in Adders : ~ Running(b))
  <2>1. AddStat(a) => ~ overlapped /\ \A b \in Adders : ~ Running(b)
    BY Zenon DEF AddStat
  <2>2. AddStat(a) \/ overlapped' = overlapped
    BY DEF Adder, Killed, AddRead, AddHash, AddOpen, AddWrite, AddWriteShort, AddOpenFails, AddRename
  <2> QED BY <2>1, <2>2
<1>2. AddStat(a) \/ Running(a)
  BY DEF Adder, Killed, Step, Running, AddRead, AddHash, AddOpen, AddWrite, AddWriteShort, AddOpenFails, AddRename
<1>3. \A b \in Adders \ {a} : ~ Running(b) /\ apc'[b] = apc[b]
  BY <1>1, <1>2, AdderStep DEF TableInv
<1>4. apc[a] # "done" /\ (AddRename(a) <=> apc'[a] = "done")
  BY DEF Adder, Killed, Step, Running, TypeInv, TypeOK,
     AddStat, AddRead, AddHash, AddOpen, AddWrite, AddWriteShort, AddOpenFails, AddRename
<1>5. Done' = IF AddRename(a) THEN Done \cup {a} ELSE Done
  BY <1>3, <1>4 DEF Done
<1> QED BY <1>1, <1>3, <1>5 DEF Running

LEMMA AdderTable ==
    ASSUME TypeInv, LinesInv, InodesInv, TableInv, NEW a \in Adders, Adder(a) \/ Killed(a)
    PROVE  TableInv'
<1> SUFFICES ASSUME ~ overlapped' PROVE TableInv'
  BY DEF TableInv
<1>1. /\ ~ overlapped
      /\ \A b \in Adders \ {a} : ~ Running(b)'
      /\ Done' = IF AddRename(a) THEN Done \cup {a} ELSE Done
      /\ Done \subseteq Adders /\ a \notin Done /\ Done \cup {a} \subseteq Adders
  BY OneAdder, AdderStep DEF Done
<1>2. /\ apc \in [Adders -> {"stat", "read", "hash", "open", "write", "rename", "done", "killed"}]
      /\ items[a] \in Seq(Line) /\ lost \subseteq Adders /\ Absent \notin Adders
      /\ db \in Adders \cup {Absent} /\ temp \in Adders \cup {Absent}
  BY GrantsAssumption DEF TypeInv, TypeOK
<1>3. Just(Done, items, lost, Table)
  BY <1>1 DEF TableInv
<1>4. /\ \A b \in Done : Newest(items[b]).list = Adds[b].list
      /\ apc[a] \in {"open", "write", "rename"} => Newest(items[a]).list = Adds[a].list
  BY DEF LinesInv, Entry, Newest, Done
<1>5. SUFFICES /\ Just(Done', items', lost', Table')
               /\ apc'[a] = "hash" => Just(Done', items', lost', items'[a])
               /\ apc'[a] \in {"open", "write", "rename"} => Just(Done' \cup {a}, items', lost', items'[a])
               /\ apc'[a] = "write" => fd'[a] = temp' /\ data'[temp'] = <<>>
               /\ apc'[a] = "rename" => IF temp' = Absent THEN a \in lost'
                                        ELSE Just(Done' \cup {a}, items', lost', data'[temp'])
  <2>1. \A b \in Adders \ {a} : apc'[b] \notin {"hash", "open", "write", "rename"}
    BY <1>1 DEF Running
  <2> QED BY <1>1, <2>1 DEF TableInv
<1>6. CASE AddStat(a)
  <2>1. apc'[a] = "read" /\ Table' = Table /\ UNCHANGED <<items, lost>> /\ Done' = Done
    BY <1>1, <1>2, <1>6 DEF AddStat, Step, Table, AddRename
  <2> QED BY <1>3, <2>1
<1>7. CASE AddRead(a)
  <2>1. apc'[a] = "hash" /\ Table' = Table /\ UNCHANGED lost /\ Done' = Done
    BY <1>1, <1>2, <1>7 DEF AddRead, Step, Table, AddRename
  <2>2. \A b \in Done : items'[b] = items[b]
    BY <1>1, <1>7, ReadStep
  <2>3. Just(Done, items, lost, items'[a])
    BY <1>1, <1>2, <1>3, <1>4, <1>7, ReadStep, JustLoaded
  <2>4. Just(Done, items', lost, Table) /\ Just(Done, items', lost, items'[a])
    BY <1>1, <1>3, <2>2, <2>3, JustFrame
  <2> QED BY <2>1, <2>4
<1>8. CASE AddHash(a)
  <2>1. /\ apc[a] = "hash" /\ apc'[a] = "open"
        /\ Table' = Table /\ UNCHANGED lost /\ Done' = Done
    BY <1>1, <1>2, <1>8 DEF AddHash, Step, Table, AddRename
  <2>2. \A b \in Done : items'[b] = items[b]
    BY <1>1, <1>8, HashStep
  <2>3. Just(Done, items', lost, Table)
    BY <1>1, <1>3, <2>2, JustFrame
  <2>4. Just(Done, items, lost, items[a])
    BY <1>1, <2>1 DEF TableInv
  <2>5. /\ Range(items'[a]) = Range(items[a]) \cup {Grant(a)} /\ Newest(items'[a]) = Grant(a)
        /\ Grant(a).hash # Absent
    BY <1>8, HashStep, GrantsAssumption
  <2>6. Just(Done \cup {a}, items', lost, items'[a])
    BY <1>1, <2>2, <2>4, <2>5, JustGrant
  <2> QED BY <2>1, <2>3, <2>6
<1>9. CASE AddOpen(a)
  <2>1. /\ apc[a] = "open" /\ apc'[a] = "write"
        /\ UNCHANGED <<db, items, lost>> /\ Done' = Done
    BY <1>1, <1>2, <1>9 DEF AddOpen, Step, AddRename
  <2>2. /\ temp' \in Adders /\ temp' = IF temp = Absent THEN a ELSE temp
        /\ fd'[a] = temp' /\ data'[temp'] = <<>>
        /\ \A i \in Adders \ {temp'} : data'[i] = data[i]
    BY <1>9, OpenStep
  <2>3. Table' = Table
    BY <1>2, <2>1, <2>2 DEF Table, InodesInv
  <2>4. Just(Done \cup {a}, items, lost, items[a])
    BY <1>1, <2>1 DEF TableInv
  <2> QED BY <1>3, <2>1, <2>2, <2>3, <2>4
<1>10. CASE AddWrite(a) \/ AddWriteShort(a)
  <2>1. /\ apc[a] = "write" /\ apc'[a] = "rename"
        /\ UNCHANGED <<db, temp, items>> /\ Done' = Done
    BY <1>1, <1>2, <1>10 DEF AddWrite, AddWriteShort, Step, AddRename
  <2>2. fd[a] = temp /\ data[temp] = <<>> /\ Just(Done \cup {a}, items, lost, items[a])
    BY <1>1, <2>1 DEF TableInv
  <2>3. temp \in Adders /\ \A i \in Adders \ {temp} : data'[i] = data[i]
    BY <1>10, <2>2, WriteStep, ShortStep
  <2>4. Table' = Table
    BY <1>2, <2>1, <2>3 DEF Table, InodesInv
  <2>5. CASE AddWrite(a)
    <3>1. lost' = lost
      BY <2>5 DEF AddWrite
    <3>2. Range(data'[temp]) = Range(items[a])
      BY <2>2, <2>5, WriteStep, RangeShort
    <3>3. Just(Done \cup {a}, items, lost, data'[temp])
      BY <2>2, <3>2, JustLines
    <3> QED BY <1>2, <1>3, <2>1, <2>2, <2>3, <2>4, <3>1, <3>3
  <2>6. CASE AddWriteShort(a)
    <3>1. lost' = lost \cup Done \cup {a}
      BY <2>6 DEF AddWriteShort, Done
    <3>2. \A line \in Range(data'[temp]) :
             line \in Range(items[a]) \/ \E whole \in Range(items[a]) : line = [whole EXCEPT !.hash = Absent]
      BY <2>2, <2>6, ShortStep
    <3>3. \A b \in Done \cup {a} : Newest(items[b]).list = Adds[b].list
      BY <1>4, <2>1
    <3>4. Just(Done \cup {a}, items, lost', data'[temp])
      BY <1>1, <1>2, <2>2, <3>1, <3>2, <3>3, JustShort
    <3>5. Just(Done, items, lost', Table) /\ Just(Done \cup {a}, items, lost', items[a])
      BY <1>1, <1>3, <2>2, <3>1, JustFrame
    <3> QED BY <1>2, <2>1, <2>3, <2>4, <3>4, <3>5
  <2> QED BY <1>10, <2>5, <2>6
<1>11. CASE AddOpenFails(a)
  <2>1. /\ apc[a] = "open" /\ apc'[a] = "rename" /\ temp' = Absent
        /\ lost' = lost \cup {a} /\ UNCHANGED items /\ Table' = Table /\ Done' = Done
    BY <1>1, <1>2, <1>11 DEF AddOpenFails, Step, Table, AddRename
  <2>2. Just(Done \cup {a}, items, lost, items[a])
    BY <1>1, <2>1 DEF TableInv
  <2>3. Just(Done, items, lost', Table) /\ Just(Done \cup {a}, items, lost', items[a])
    BY <1>1, <1>3, <2>1, <2>2, JustFrame
  <2> QED BY <2>1, <2>3
<1>12. CASE AddRename(a)
  <2>1. /\ apc[a] = "rename" /\ apc'[a] = "done" /\ UNCHANGED <<items, lost, data>> /\ Done' = Done \cup {a}
        /\ IF temp = Absent THEN db' = db ELSE db' = temp
    BY <1>1, <1>2, <1>12 DEF AddRename, Step
  <2>2. CASE temp = Absent
    <3>1. a \in lost /\ Table' = Table
      BY <1>1, <2>1, <2>2 DEF TableInv, Table
    <3>2. Just(Done \cup {a}, items, lost, Table)
      BY <1>1, <1>3, <3>1, JustLost
    <3> QED BY <2>1, <3>1, <3>2
  <2>3. CASE temp # Absent
    <3>1. Just(Done \cup {a}, items, lost, data[temp]) /\ Table' = data[temp]
      BY <1>1, <2>1, <2>3 DEF TableInv, Table
    <3> QED BY <2>1, <3>1
  <2> QED BY <2>2, <2>3
<1>13. CASE Killed(a)
  <2>1. apc'[a] = "killed" /\ Table' = Table /\ UNCHANGED <<items, lost>> /\ Done' = Done
    <3>1. apc'[a] = "killed" /\ Table' = Table /\ UNCHANGED <<items, lost>>
      BY <1>2, <1>13 DEF Killed, Table
    <3> QED BY <1>1, <1>2, <3>1 DEF AddRename, Step
  <2> QED BY <1>3, <2>1
<1> QED BY <1>6, <1>7, <1>8, <1>9, <1>10, <1>11, <1>12, <1>13 DEF Adder

LEMMA NextTable == TypeInv /\ LinesInv /\ InodesInv /\ TableInv /\ [Next]_vars => TableInv'
<1> SUFFICES ASSUME TypeInv, LinesInv, InodesInv, TableInv, [Next]_vars PROVE TableInv'
  OBVIOUS
<1>1. (\E c \in Checkers : Checker(c)) \/ (\E p \in Programs : Upgrade(p)) \/ UNCHANGED vars =>
        UNCHANGED <<db, temp, data, apc, items, fd, overlapped, lost>>
  BY DEF Checker, CheckStat, CheckOpen, CheckRead, CheckLine, CheckCrashes, CheckEnd, Upgrade, vars, adderVars
<1>2. UNCHANGED <<db, temp, data, apc, items, fd, overlapped, lost>> => TableInv'
  <2> SUFFICES ASSUME UNCHANGED <<db, temp, data, apc, items, fd, overlapped, lost>> PROVE TableInv'
    OBVIOUS
  <2>1. Done' = Done /\ Table' = Table /\ \A a \in Adders : Running(a)' = Running(a)
    BY DEF Done, Table, Running
  <2> QED BY <2>1 DEF TableInv
<1> QED BY <1>1, <1>2, AdderTable DEF Next

LEMMA TableHolds == TableInv => GrantsLast
<1> SUFFICES ASSUME TableInv, ~ overlapped, NEW a \in Adders, apc[a] = "done", Rivals(a) \cap lost = {}
             PROVE  /\ db # Absent
                    /\ \E b \in Rivals(a) : apc[b] = "done" /\ Entry(b) \in Range(data[db])
  BY DEF GrantsLast
<1>1. PICK b \in Rivals(a) \cap Done : Newest(items[b]) \in Range(Table)
  BY DEF TableInv, Just, Holds, Done
<1>2. db # Absent
  BY <1>1, RangeShort DEF Table
<1> QED BY <1>1, <1>2 DEF Table, Done, Entry, Newest

\* Whatever becomes of them, as long as runs of grant do not overlap, what one
\* granted stays in the table, unless the list goes to another program or the
\* disk is full.
THEOREM WhatWasGrantedLasts == Spec => []GrantsLast
<1> QED BY InitTypes, NextTypes, InitLines, NextLines, InitInodes, NextInodes, InitTable, NextTable, TableHolds,
           PTL DEF Spec

-------------------------------------------------------------------------------
(* Checks find what they are owed. *)

LEMMA InitOwed == Init => OwedInv
BY DEF Init, OwedInv, Replaced

LEMMA AdderOwed ==
    ASSUME TypeInv, InodesInv, TableInv, OwedInv, NEW a \in Adders, Adder(a) \/ Killed(a)
    PROVE  OwedInv'
<1>1. /\ UNCHANGED <<version, cpc, seen, ino, rows, verdict, owed>>
      /\ \A b \in Adders \ {a} : apc'[b] = apc[b] /\ items'[b] = items[b]
      /\ apc[a] # "done"
  BY AdderStep DEF checkerVars
<1>2. lost \subseteq lost'
  BY DEF Adder, Killed, AddStat, AddRead, AddHash, AddOpen, AddWrite, AddWriteShort, AddOpenFails, AddRename
<1>3. ASSUME NEW c \in Checkers, NEW b \in owed[c]
      PROVE  b \in Adders \ {a} /\ Entry(b)' = Entry(b) /\ apc'[b] = "done"
  <2>1. b \in Adders /\ apc[b] = "done"
    BY DEF OwedInv, TypeInv, TypeOK
  <2> QED BY <1>1, <2>1 DEF Entry
<1>4. ASSUME NEW c \in Checkers, ino[c] # Absent, ~ overlapped'
      PROVE  data'[ino[c]] = data[ino[c]]
  <2>1. ino[c] \in Adders /\ temp # ino[c]
    BY <1>4 DEF InodesInv, TypeInv, TypeOK
  <2>2. CASE AddOpen(a)
    <3>1. apc[a] = "open"
      BY <2>2 DEF AddOpen, Step
    <3>2. ino[c] # a
      BY <3>1 DEF InodesInv
    <3> QED BY <2>1, <2>2, <3>2, OpenStep
  <2>3. CASE AddWrite(a) \/ AddWriteShort(a)
    <3>1. apc[a] = "write" /\ ~ overlapped
      BY <1>4, <2>3, OneAdder DEF AddWrite, AddWriteShort, Step
    <3>2. fd[a] = temp
      BY <3>1 DEF TableInv
    <3> QED BY <2>1, <2>3, <3>2, WriteStep, ShortStep
  <2> QED BY <2>2, <2>3, AdderStep
<1>5. ASSUME NEW c \in Checkers, ~ overlapped', NEW b \in owed[c] \ lost'
      PROVE  Found(c, b)'
  <2>1. ~ overlapped
    BY <1>5, OneAdder
  <2>2. Found(c, b)
    BY <1>2, <1>5, <2>1 DEF OwedInv
  <2>3. Replaced(c)' = Replaced(c)
    BY <1>1 DEF Replaced
  <2>4. Entry(b)' = Entry(b)
    BY <1>3
  <2> QED BY <1>1, <1>4, <1>5, <2>2, <2>3, <2>4 DEF Found
<1>6. \A c \in Checkers : Replaced(c)' = Replaced(c)
  BY <1>1 DEF Replaced
<1> QED BY <1>1, <1>3, <1>5, <1>6 DEF OwedInv, Matches

LEMMA CheckerOwed ==
    ASSUME TypeInv, TableInv, OwedInv, NEW c \in Checkers, Checker(c)
    PROVE  OwedInv'
<1>1. UNCHANGED <<version, db, data, apc, items, overlapped, lost>>
  BY DEF Checker, CheckStat, CheckOpen, CheckRead, CheckLine, CheckCrashes, CheckEnd, adderVars
<1>2. \A a \in Adders : Entry(a)' = Entry(a)
  BY <1>1 DEF Entry
<1>3. TypeOK /\ version[Asks[c].program] \in Versions
  BY GrantsAssumption DEF TypeInv, TypeOK
<1>4. ASSUME NEW d \in Checkers \ {c}
      PROVE  cpc'[d] = cpc[d] /\ seen'[d] = seen[d] /\ ino'[d] = ino[d] /\ rows'[d] = rows[d]
             /\ verdict'[d] = verdict[d] /\ owed'[d] = owed[d]
  BY <1>3 DEF Checker, CheckStat, CheckOpen, CheckRead, CheckLine, CheckCrashes, CheckEnd, adderVars, TypeOK
<1>5. ASSUME NEW d \in Checkers \ {c}, NEW a \in owed[d]
      PROVE  a \in Adders /\ (Found(d, a) => Found(d, a)')
  <2>1. a \in Adders
    BY <1>3 DEF TypeOK
  <2> QED BY <1>1, <1>2, <1>4, <2>1 DEF Found, Replaced
<1>6. ASSUME NEW d \in Checkers \ {c}
      PROVE  /\ cpc'[d] = "stat" => owed'[d] = {}
             /\ cpc'[d] # "stat" /\ Replaced(d)' => seen'[d] = First
             /\ \A a \in owed'[d] : /\ apc'[a] = "done" /\ Rivals(a) = {a}
                                    /\ Matches(Entry(a)', Asks[d], seen'[d], seen'[d])
             /\ ~ overlapped' => \A a \in owed'[d] \ lost' : Found(d, a)'
  BY <1>1, <1>2, <1>4, <1>5 DEF OwedInv, Replaced
<1>7. SUFFICES
        /\ cpc'[c] = "stat" => owed'[c] = {}
        /\ cpc'[c] # "stat" /\ Replaced(c)' => seen'[c] = First
        /\ \A a \in owed'[c] : /\ apc'[a] = "done" /\ Rivals(a) = {a}
                               /\ Matches(Entry(a)', Asks[c], seen'[c], seen'[c])
        /\ ~ overlapped => \A a \in owed'[c] \ lost : Found(c, a)'
  BY <1>1, <1>6 DEF OwedInv
<1>8. CASE CheckStat(c)
  <2> DEFINE v == version[Asks[c].program]
  <2>1. /\ cpc'[c] = "open" /\ seen'[c] = v
        /\ owed'[c] = {a \in Adders : apc[a] = "done" /\ Rivals(a) = {a} /\ Matches(Entry(a), Asks[c], v, v)}
    BY <1>3, <1>8 DEF CheckStat, TypeOK
  <2>2. ~ Replaced(c)'
    BY <1>1, <2>1 DEF Replaced
  <2> QED BY <1>1, <1>2, <2>1, <2>2 DEF Found
<1>9. ASSUME UNCHANGED <<seen, owed>>, cpc[c] # "stat", cpc'[c] # "stat"
      PROVE  /\ Replaced(c)' = Replaced(c)
             /\ Replaced(c)' => seen'[c] = First
             /\ \A a \in owed'[c] : /\ a \in Adders /\ apc'[a] = "done" /\ Rivals(a) = {a}
                                    /\ Matches(Entry(a)', Asks[c], seen'[c], seen'[c])
             /\ ~ overlapped => \A a \in owed'[c] \ lost : Found(c, a) /\ a \in owed[c] \ lost
  <2>1. owed[c] \subseteq Adders
    BY <1>3 DEF TypeOK
  <2> QED BY <1>1, <1>2, <1>9, <2>1 DEF OwedInv, Replaced
<1>10. CASE CheckOpen(c)
  <2>1. /\ cpc[c] = "open" /\ cpc'[c] = "read" /\ UNCHANGED <<seen, owed>>
        /\ ino'[c] = db
    BY <1>3, <1>10 DEF CheckOpen, TypeOK
  <2>2. ASSUME ~ overlapped, NEW a \in owed[c] \ lost PROVE Found(c, a)'
    <3>1. a \in Adders /\ apc[a] = "done" /\ Rivals(a) = {a}
      BY <1>3 DEF OwedInv, TypeOK
    <3>2. db # Absent /\ Entry(a) \in Range(data[db])
      BY <2>2, <3>1, TableHolds DEF GrantsLast
    <3> QED BY <1>1, <1>2, <2>1, <3>1, <3>2 DEF Found
  <2> QED BY <1>9, <2>1, <2>2
<1>11. CASE CheckRead(c)
  <2>1. /\ cpc[c] = "read" /\ cpc'[c] = "lines" /\ UNCHANGED <<seen, owed>>
        /\ rows'[c] = IF ino[c] = Absent THEN <<>> ELSE data[ino[c]]
    BY <1>3, <1>11 DEF CheckRead, TypeOK
  <2>2. ASSUME ~ overlapped, NEW a \in owed[c] \ lost PROVE Found(c, a)'
    <3>1. a \in Adders /\ Found(c, a)
      BY <1>3, <2>2 DEF OwedInv, TypeOK
    <3> QED BY <1>2, <2>1, <3>1 DEF Found
  <2> QED BY <1>9, <2>1, <2>2
<1>12. CASE CheckLine(c)
  <2> DEFINE v == version[Asks[c].program]
             granted == Matches(Head(rows[c]), Asks[c], v, seen[c])
  <2>1. /\ cpc[c] = "lines" /\ rows[c] # <<>> /\ rows[c] \in Seq(Line) /\ UNCHANGED <<seen, owed>>
        /\ cpc'[c] = IF granted THEN "done" ELSE "lines"
        /\ granted => verdict'[c].granted
        /\ rows'[c] = Tail(rows[c])
    <3>1. verdict'[c] = [granted |-> granted, hash |-> v]
      BY <1>3, <1>12 DEF CheckLine, TypeOK
    <3>2. granted => verdict'[c].granted
      BY <3>1
    <3> QED BY <1>3, <1>12, <3>2 DEF CheckLine, TypeOK
  <2>2. Range(rows[c]) = {Head(rows[c])} \cup Range(Tail(rows[c]))
    BY <2>1, RangeTail
  <2>3. cpc[c] # "stat" /\ cpc'[c] # "stat"
    BY <2>1
  <2>4. ASSUME ~ overlapped, NEW a \in owed[c] \ lost PROVE Found(c, a)'
    <3>1. a \in Adders /\ Found(c, a) /\ Matches(Entry(a), Asks[c], seen[c], seen[c])
      BY <1>3, <2>4 DEF OwedInv, TypeOK
    <3>2. Replaced(c)' = Replaced(c)
      BY <1>9, <2>1, <2>3
    <3>3. CASE granted
      BY <2>1, <3>3 DEF Found
    <3>4. CASE ~ granted
      <4>1. Entry(a) = Head(rows[c]) => Replaced(c)
        BY <3>1, <3>4 DEF Replaced
      <4>2. Replaced(c) \/ Entry(a) \in Range(Tail(rows[c]))
        BY <2>1, <2>2, <3>1, <4>1 DEF Found
      <4> QED BY <1>2, <2>1, <3>1, <3>2, <3>4, <4>2 DEF Found
    <3> QED BY <3>3, <3>4
  <2> QED BY <1>9, <2>1, <2>3, <2>4
<1>13. CASE CheckCrashes(c)
  <2>1. cpc[c] = "lines" /\ cpc'[c] = "crashed" /\ UNCHANGED <<seen, owed>>
    BY <1>3, <1>13 DEF CheckCrashes, TypeOK
  <2> QED BY <1>9, <2>1 DEF Found
<1>14. CASE CheckEnd(c)
  <2>1. cpc[c] = "lines" /\ cpc'[c] = "done" /\ rows[c] = <<>> /\ UNCHANGED <<seen, owed, rows, verdict>>
    BY <1>3, <1>14 DEF CheckEnd, TypeOK
  <2>2. ASSUME ~ overlapped, NEW a \in owed[c] \ lost PROVE Found(c, a)'
    <3>1. Found(c, a)
      BY <2>2 DEF OwedInv
    <3>2. Replaced(c)
      BY <2>1, <3>1, RangeShort DEF Found
    <3>3. Replaced(c)'
      BY <1>9, <2>1, <3>2
    <3> QED BY <2>1, <3>3 DEF Found
  <2> QED BY <1>9, <2>1, <2>2
<1> QED BY <1>8, <1>10, <1>11, <1>12, <1>13, <1>14 DEF Checker

LEMMA NextOwed == TypeInv /\ InodesInv /\ TableInv /\ OwedInv /\ [Next]_vars => OwedInv'
<1> SUFFICES ASSUME TypeInv, InodesInv, TableInv, OwedInv, [Next]_vars PROVE OwedInv'
  OBVIOUS
<1>1. ASSUME NEW p \in Programs, Upgrade(p) PROVE OwedInv'
  <2>1. UNCHANGED <<db, data, apc, items, overlapped, lost, cpc, seen, ino, rows, verdict, owed>>
    BY <1>1 DEF Upgrade, adderVars, checkerVars
  <2>2. ASSUME NEW c \in Checkers, cpc[c] # "stat"
        PROVE  \/ Replaced(c)' = Replaced(c)
               \/ Replaced(c)' /\ seen[c] = First
    <3>1. \/ version'[Asks[c].program] = version[Asks[c].program]
          \/ version[Asks[c].program] = First /\ version'[Asks[c].program] # First
      BY <1>1, GrantsAssumption DEF Upgrade, TypeInv, TypeOK
    <3>2. Replaced(c) => seen[c] = First
      BY <2>2 DEF OwedInv
    <3> QED BY <2>1, <3>1, <3>2 DEF Replaced
  <2>3. ASSUME NEW c \in Checkers, NEW a \in owed[c] PROVE a \in Adders /\ (Found(c, a) => Found(c, a)')
    <3>1. a \in Adders
      BY DEF TypeInv, TypeOK
    <3>2. Entry(a)' = Entry(a)
      BY <2>1 DEF Entry
    <3> QED BY <2>1, <2>2, <3>1, <3>2 DEF Found
  <2> QED BY <2>1, <2>2, <2>3 DEF OwedInv, Entry, Matches
<1>2. CASE UNCHANGED vars
  BY <1>2 DEF vars, adderVars, checkerVars, OwedInv, Found, Replaced, Entry, Matches
<1> QED BY <1>1, <1>2, AdderOwed, CheckerOwed DEF Next

\* As long as runs of grant do not overlap, a check made while the table is being
\* replaced, or after one was killed, finds what had been granted before it began.
THEOREM WhatWasGrantedIsFound == Spec => []ChecksFindGrants
<1>1. OwedInv => ChecksFindGrants
  <2> SUFFICES ASSUME OwedInv, ~ overlapped, NEW c \in Checkers, cpc[c] = "done", owed[c] \ lost # {},
                      version[Asks[c].program] = seen[c]
               PROVE  verdict[c].granted
    BY DEF ChecksFindGrants
  <2>1. PICK a \in owed[c] \ lost : TRUE
    OBVIOUS
  <2> QED BY <2>1 DEF OwedInv, Found, Replaced
<1> QED BY <1>1, InitTypes, NextTypes, InitLines, NextLines, InitInodes, NextInodes, InitTable, NextTable,
           InitOwed, NextOwed, PTL DEF Spec
===============================================================================
