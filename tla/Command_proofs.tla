---------------------------- MODULE Command_proofs ----------------------------
(***************************************************************************)
(* The dialogue with a command, for any scripts, any output and any        *)
(* timeouts: types, replies answer prompts, no prompt with a regular text  *)
(* goes by, and the client is told OKAY only when that was earned.         *)
(***************************************************************************)
EXTENDS Command, FiniteSetTheorems, SequenceTheorems, WellFoundedInduction, TLAPS

-------------------------------------------------------------------------------
(* The inductive invariants. *)

\* The last k characters before position n are the first k of dialog i's text,
\* all of them printed after the required dialogs before it were done.
SofarIn(s, o, d, i, k, n) ==
    /\ k <= n
    /\ \A j \in 1 .. i - 1 : s[j].kind \in {"expect", "end"} => d[j] + k <= n
    /\ \A x \in 1 .. k : o[n - k + x] = s[i].text[x]

Sofar(i, k, n) == SofarIn(script, out, doneAt, i, k, n)

Talking == pc \in {"start", "dialog"}

\* In the dialogue, match counts characters of the text that were just read;
\* what is not tried yet has none.
MatchInv ==
    /\ \A i \in DOMAIN script : doneAt[i] <= taken
    /\ Talking => \A i \in DOMAIN script : ~ IsDone(i) =>
         IF i \in Fed THEN Sofar(i, match[i], taken) ELSE match[i] = 0

\* A dialog was done when its text was there, after the required ones before it.
DoneInv ==
    \A i \in DOMAIN script : IsDone(i) =>
        /\ Sofar(i, Len(Text(i)), doneAt[i])
        /\ \A j \in 1 .. i - 1 : Required(j) => IsDone(j) /\ doneAt[j] < doneAt[i]

\* Of a text that does not repeat its beginning, match counts as much as there
\* is, and it has not gone by.
NoticedInv ==
    Talking => \A i \in Fed : Regular(Text(i)) =>
        /\ \A k \in match[i] + 1 .. Len(Text(i)) : ~ Sofar(i, k, taken)
        /\ \A n \in 1 .. taken : ~ Sofar(i, Len(Text(i)), n)

\* What the handler tells the client, from the moment it is decided.
Earned ==
    /\ \A i \in DOMAIN script : script[i].kind = "fail" => ~ IsDone(i)
    /\ \/ \E i \in DOMAIN script : script[i].kind = "end" /\ IsDone(i)
       \/ cmd = "exited" /\ AllDone

EarnedInv ==
    /\ told = "okay" => pc \in {"relay", "done"}
    /\ UsesExpect /\ (pc = "okay" \/ told = "okay") => Earned
    /\ Talking => \A i \in DOMAIN script : script[i].kind \in {"end", "fail"} => ~ IsDone(i)

-------------------------------------------------------------------------------
(* Facts about numbers and scripts. *)

LEMMA LeastNatural ==
    ASSUME NEW T, T \subseteq Nat, T # {}
    PROVE  \E x \in T : \A y \in T : x <= y
<1> DEFINE R == OpToRel(<, Nat)
<1>1. \A x, y \in Nat : <<y, x>> \in R <=> y < x
  BY DEF OpToRel
<1>2. IsWellFoundedOn(R, Nat)
  BY NatLessThanWellFounded
<1> HIDE DEF R
<1>3. PICK x \in T : \A y \in T : ~ (<<y, x>> \in R)
  BY <1>2, WFMin
<1>4. ASSUME NEW y \in T PROVE x <= y
  <2>1. x \in Nat /\ y \in Nat /\ ~ (y < x)
    BY <1>1, <1>3
  <2> QED BY <2>1
<1> QED BY <1>4

LEMMA DialogTypes ==
    ASSUME TypeOK
    PROVE  /\ Len(script) \in Nat /\ DOMAIN script = 1 .. Len(script)
           /\ Len(out) \in Nat /\ taken \in Nat /\ taken <= Len(out)
           /\ \A x \in 1 .. Len(out) : out[x] \in Chars
           /\ \A i \in DOMAIN script :
                /\ i \in Nat \ {0}
                /\ Text(i) \in Seq(Chars) /\ Len(Text(i)) \in Nat \ {0}
                /\ script[i].kind \in {"expect", "optional", "fail", "end"}
                /\ match[i] \in Nat /\ match[i] < Len(Text(i)) /\ doneAt[i] \in Nat
                /\ \A j \in 1 .. i - 1 : j \in DOMAIN script
<1>1. script \in Seq(Dialog) /\ out \in Seq(Chars)
  BY CommandAssumption DEF TypeOK
<1>2. Len(script) \in Nat /\ DOMAIN script = 1 .. Len(script) /\ Len(out) \in Nat
  BY <1>1, LenProperties
<1>3. \A i \in DOMAIN script : script[i] \in Dialog
  BY <1>1, <1>2, ElementOfSeq
<1>4. \A i \in DOMAIN script : Text(i) \in Seq(Chars) /\ Text(i) # <<>>
                              /\ script[i].kind \in {"expect", "optional", "fail", "end"}
  BY <1>3 DEF Dialog, Text
<1>5. \A i \in DOMAIN script : Len(Text(i)) \in Nat \ {0}
  BY <1>4, EmptySeq
<1>6. \A x \in 1 .. Len(out) : out[x] \in Chars
  BY <1>1, ElementOfSeq
<1>7. taken \in Nat /\ taken <= Len(out)
  BY <1>2 DEF TypeOK
<1>8. \A i \in DOMAIN script : match[i] \in Nat /\ match[i] < Len(Text(i)) /\ doneAt[i] \in Nat
  BY <1>5 DEF TypeOK
<1>9. \A i \in DOMAIN script : i \in Nat \ {0} /\ \A j \in 1 .. i - 1 : j \in DOMAIN script
  BY <1>2
<1> QED BY <1>2, <1>4, <1>5, <1>6, <1>7, <1>8, <1>9

-------------------------------------------------------------------------------
(* One character of the dialogue. *)

Char == out[taken + 1]
Completed == {i \in Tried(Char) : Completes(i, Char)}

\* Unless an end or fail dialog is completed, all that are fed are tried.
LEMMA AllTried ==
    ASSUME TypeOK, \A i \in Completed : script[i].kind \notin {"end", "fail"}
    PROVE  Tried(Char) = Fed
<1> DEFINE T == {i \in Fed : Returns(i, Char)}
<1>1. T \subseteq Nat
  BY DialogTypes DEF Fed
<1>2. CASE T # {}
  <2>1. PICK x \in T : \A y \in T : x <= y
    BY <1>1, <1>2, LeastNatural
  <2>2. ASSUME NEW j \in 1 .. x - 1, Returns(j, Char) PROVE FALSE
    <3>1. j \in T
      BY <2>2 DEF Returns
    <3>2. x <= j /\ x \in Nat
      BY <1>1, <2>1, <3>1
    <3> QED BY <3>2
  <2>3. x \in Tried(Char)
    BY <2>1, <2>2 DEF Tried
  <2> QED BY <2>1, <2>3 DEF Completed, Returns
<1>3. CASE T = {}
  BY <1>3 DEF Tried, Returns
<1> QED BY <1>2, <1>3

LEMMA TakeStep ==
    ASSUME TypeOK, TakeChar
    PROVE  /\ pc = "dialog" /\ taken' = taken + 1 /\ taken + 1 <= Len(out) /\ Char \in Chars
           /\ UNCHANGED <<script, told, cmd, out, client>>
           /\ DOMAIN match' = DOMAIN script /\ DOMAIN doneAt' = DOMAIN script
           /\ \A i \in DOMAIN script :
                /\ doneAt'[i] = IF i \in Completed THEN taken + 1 ELSE doneAt[i]
                /\ match'[i] = IF i \in Completed THEN 0
                               ELSE IF i \in Tried(Char) THEN Matched(i, Char) ELSE match[i]
           /\ Completed \subseteq Tried(Char) /\ Tried(Char) \subseteq Fed /\ Fed \subseteq DOMAIN script
           /\ replies' = IF cmd = "exited" THEN replies ELSE replies + Cardinality(Completed)
           /\ pc' = IF \E i \in Completed : script[i].kind = "end" THEN "okay"
                    ELSE IF \E i \in Completed : script[i].kind = "fail" THEN "failed"
                    ELSE "dialog"
           /\ pc' = "dialog" => Tried(Char) = Fed
<1>1. taken \in Nat /\ Len(out) \in Nat /\ taken < Len(out)
  BY DialogTypes DEF TakeChar, Unread
<1>2. taken' = taken + 1 /\ out[taken'] = Char
  BY DEF TakeChar, Char
<1>3. Char \in Chars
  BY <1>1, DialogTypes DEF Char
<1>4. Completed = {i \in Tried(out[taken']) : Completes(i, out[taken'])}
  BY <1>2 DEF Completed
<1>5. /\ match' = [i \in DOMAIN script |-> IF i \in Completed THEN 0
                               ELSE IF i \in Tried(Char) THEN Matched(i, Char) ELSE match[i]]
      /\ doneAt' = [i \in DOMAIN script |-> IF i \in Completed THEN taken + 1 ELSE doneAt[i]]
      /\ replies' = IF cmd = "exited" THEN replies ELSE replies + Cardinality(Completed)
      /\ pc' = IF \E i \in Completed : script[i].kind = "end" THEN "okay"
                    ELSE IF \E i \in Completed : script[i].kind = "fail" THEN "failed"
                    ELSE "dialog"
  BY <1>2, <1>4 DEF TakeChar
<1>6. pc' = "dialog" => \A i \in Completed : script[i].kind \notin {"end", "fail"}
  BY <1>5
<1> QED BY <1>1, <1>2, <1>3, <1>5, <1>6, AllTried DEF TakeChar, Completed, Tried, Fed

\* Required dialogs before one that is fed are done, and stay as they are.
LEMMA BeforeFed ==
    ASSUME TypeOK, TakeChar, NEW i \in Fed, NEW j \in 1 .. i - 1, Required(j)
    PROVE  IsDone(j) /\ doneAt'[j] = doneAt[j]
<1>1. j \in DOMAIN script /\ IsDone(j)
  BY DialogTypes DEF Fed
<1>2. j \notin Completed
  BY <1>1, TakeStep DEF Fed
<1> QED BY <1>1, <1>2, TakeStep

-------------------------------------------------------------------------------
(* Types. *)

LEMMA InitTypes == Init => TypeOK
<1> SUFFICES ASSUME Init PROVE TypeOK
  OBVIOUS
<1>1. script \in Seq(Dialog)
  BY CommandAssumption DEF Init
<1>2. \A i \in DOMAIN script : Text(i) \in Seq(Chars) \ {<<>>}
  <2>1. \A i \in DOMAIN script : script[i] \in Dialog
    BY <1>1, LenProperties, ElementOfSeq
  <2> QED BY <2>1 DEF Dialog, Text
<1>3. \A i \in DOMAIN script : Len(Text(i)) \in Nat \ {0}
  BY <1>2, EmptySeq
<1>4. out \in Seq(Chars) /\ Len(out) = 0
  BY EmptySeq DEF Init
<1> QED BY <1>3, <1>4 DEF Init, TypeOK

LEMMA TakeTypes == TypeOK /\ TakeChar => TypeOK'
<1> SUFFICES ASSUME TypeOK, TakeChar PROVE TypeOK'
  OBVIOUS
<1>1. ASSUME NEW i \in DOMAIN script
      PROVE  match'[i] \in 0 .. Len(Text(i)) - 1 /\ doneAt'[i] \in Nat
  <2>1. /\ match[i] \in Nat /\ match[i] < Len(Text(i)) /\ Len(Text(i)) \in Nat \ {0}
        /\ doneAt[i] \in Nat /\ taken \in Nat
    BY DialogTypes
  <2>2. i \in Tried(Char) /\ i \notin Completed => Matched(i, Char) # Len(Text(i))
    BY DEF Completed, Completes
  <2>3. Matched(i, Char) \in 0 .. Len(Text(i))
    BY <2>1 DEF Matched
  <2> QED BY <2>1, <2>2, <2>3, TakeStep
<1>2. replies' \in Nat
  <2>1. IsFiniteSet(DOMAIN script)
    <3>1. Len(script) \in Int /\ DOMAIN script = 1 .. Len(script)
      BY DialogTypes
    <3>2. IsFiniteSet(1 .. Len(script))
      BY <3>1, FS_Interval
    <3> QED BY <3>1, <3>2
  <2>2. Cardinality(Completed) \in Nat
    BY <2>1, TakeStep, FS_Subset, FS_CardinalityType
  <2> QED BY <2>2, TakeStep DEF TypeOK
<1>3. taken' \in 0 .. Len(out')
  BY TakeStep, DialogTypes
<1> QED BY <1>1, <1>2, <1>3, TakeStep DEF TypeOK, Text

LEMMA OtherTypes == TypeOK /\ [Next]_vars /\ ~ TakeChar => TypeOK'
<1> SUFFICES ASSUME TypeOK, [Next]_vars, ~ TakeChar PROVE TypeOK'
  OBVIOUS
<1>1. taken \in Nat /\ Len(out) \in Nat /\ taken <= Len(out) /\ out \in Seq(Chars)
  BY DialogTypes DEF TypeOK
<1>2. CASE Prints
  <2>1. PICK c \in Chars : out' = Append(out, c)
    BY <1>2 DEF Prints
  <2>2. out' \in Seq(Chars) /\ Len(out') = Len(out) + 1
    BY <1>1, <2>1, AppendProperties
  <2>3. taken' \in 0 .. Len(out')
    BY <1>1, <1>2, <2>2 DEF Prints
  <2> QED BY <1>2, <2>2, <2>3 DEF Prints, TypeOK, handlerVars, Text
<1>9. CASE PrintsOn
  <2>1. PICK c \in Chars : out' = <<c>>
    BY <1>9 DEF PrintsOn
  <2>2. out' \in Seq(Chars) /\ taken' \in 0 .. Len(out')
    BY <1>9, <2>1 DEF PrintsOn
  <2> QED BY <1>9, <2>2 DEF PrintsOn, TypeOK, handlerVars, Text
<1>3. CASE Relay
  <2>1. taken' \in 0 .. Len(out')
    BY <1>1, <1>3 DEF Relay, Unread
  <2> QED BY <1>3, <2>1 DEF Relay, TypeOK, Text
<1>4. CASE Gets
  <2>1. replies' \in Nat
    BY <1>4 DEF Gets, TypeOK
  <2> QED BY <1>4, <2>1 DEF Gets, TypeOK, handlerVars, Text
<1>5. CASE Overlong \/ Spawn \/ SpawnFails
  BY <1>5 DEF Overlong, Spawn, SpawnFails, TypeOK, Text
<1>6. CASE EndOfOutput \/ Silence \/ Aborts
  BY <1>6 DEF EndOfOutput, Silence, Aborts, TypeOK, Text
<1>7. CASE TellOkay \/ TellFail \/ RelayEnds
  BY <1>7 DEF TellOkay, TellFail, RelayEnds, TypeOK, Text
<1>8. CASE Reads \/ Exits \/ ClientLeaves \/ UNCHANGED vars
  BY <1>8 DEF Reads, Exits, ClientLeaves, vars, TypeOK, handlerVars, Text
<1> QED BY <1>2, <1>3, <1>4, <1>5, <1>6, <1>7, <1>8, <1>9 DEF Next, Handler

\* What the dialogue keeps of its script, of the output and of its replies.
THEOREM TypeCorrect == Spec => []TypeOK
BY InitTypes, TakeTypes, OtherTypes, PTL DEF Spec

-------------------------------------------------------------------------------
(* Matching a text character by character. *)

\* The output may grow; positions and dialogs already there stay matched or not.
LEMMA SofarFrame ==
    ASSUME TypeOK, NEW i \in DOMAIN script, NEW k \in Nat, NEW n \in 0 .. Len(out),
           \A x \in 1 .. Len(out) : out'[x] = out[x],
           \A j \in 1 .. i - 1 : Required(j) => doneAt'[j] = doneAt[j]
    PROVE  SofarIn(script, out', doneAt', i, k, n) <=> Sofar(i, k, n)
<1>1. Len(out) \in Nat /\ n \in Nat /\ n <= Len(out)
  BY DialogTypes
<1>2. k <= n => \A x \in 1 .. k : n - k + x \in 1 .. Len(out)
  BY <1>1
<1>3. k <= n => \A x \in 1 .. k : out'[n - k + x] = out[n - k + x]
  BY <1>2
<1> QED BY <1>3 DEF Sofar, SofarIn, Required

LEMMA SofarNext ==
    ASSUME TypeOK, NEW i \in DOMAIN script, NEW k \in Nat, NEW n \in Nat
    PROVE  Sofar(i, k + 1, n + 1) <=> Sofar(i, k, n) /\ out[n + 1] = Text(i)[k + 1]
<1>1. \A j \in 1 .. i - 1 : doneAt[j] \in Nat
  BY DialogTypes
<1>2. k + 1 <= n + 1 <=> k <= n
  OBVIOUS
<1>3. \A j \in 1 .. i - 1 : doneAt[j] + (k + 1) <= n + 1 <=> doneAt[j] + k <= n
  BY <1>1
<1>4. \A x \in 1 .. k + 1 : (n + 1) - (k + 1) + x = n - k + x
  OBVIOUS
<1>5. (\A x \in 1 .. k + 1 : out[(n + 1) - (k + 1) + x] = Text(i)[x])
        <=> (\A x \in 1 .. k + 1 : out[n - k + x] = Text(i)[x])
  BY <1>4
<1>6. (\A x \in 1 .. k + 1 : out[n - k + x] = Text(i)[x])
        <=> (\A x \in 1 .. k : out[n - k + x] = Text(i)[x]) /\ out[n + 1] = Text(i)[k + 1]
  <2>1. \A x \in 1 .. k + 1 : x \in 1 .. k \/ x = k + 1
    OBVIOUS
  <2>2. k + 1 \in 1 .. k + 1 /\ n - k + (k + 1) = n + 1 /\ \A x \in 1 .. k : x \in 1 .. k + 1
    OBVIOUS
  <2> QED BY <2>1, <2>2
<1> QED BY <1>2, <1>3, <1>5, <1>6 DEF Sofar, SofarIn, Required, Text

LEMMA SofarZero ==
    ASSUME TypeOK, NEW i \in DOMAIN script, NEW n \in Nat
    PROVE  Sofar(i, 0, n) <=> \A j \in 1 .. i - 1 : Required(j) => doneAt[j] <= n
<1>1. \A j \in 1 .. i - 1 : doneAt[j] + 0 = doneAt[j]
  BY DialogTypes
<1> QED BY <1>1 DEF Sofar, SofarIn, Required, Text

\* Nothing has been matched of a dialog right after one it waits for.
LEMMA SofarFresh ==
    ASSUME TypeOK, NEW i \in DOMAIN script, NEW j \in 1 .. i - 1, Required(j),
           NEW n \in Nat, n <= doneAt[j], NEW k \in Nat \ {0}
    PROVE  ~ Sofar(i, k, n)
<1>1. doneAt[j] \in Nat
  BY DialogTypes
<1>2. ~ (doneAt[j] + k <= n)
  BY <1>1
<1> QED BY <1>2 DEF Sofar, SofarIn, Required, Text

LEMMA EndsAtSofar ==
    ASSUME TypeOK, NEW i \in DOMAIN script, NEW n \in 0 .. Len(out)
    PROVE  EndsAt(i, n) <=> Sofar(i, Len(Text(i)), n)
<1> DEFINE t == Text(i)
           L == Len(Text(i))
<1>1. t \in Seq(Chars) /\ L \in Nat \ {0} /\ Len(out) \in Nat /\ n \in Nat /\ n <= Len(out) /\ out \in Seq(Chars)
  BY DialogTypes DEF TypeOK
<1>2. SUFFICES ASSUME L <= n
               PROVE  SubSeq(out, n - L + 1, n) = t <=> \A x \in 1 .. L : out[n - L + x] = t[x]
  BY <1>1 DEF EndsAt, Sofar, SofarIn, Text, Required
<1> DEFINE s == SubSeq(out, n - L + 1, n)
<1>3. s \in Seq(Chars) /\ Len(s) = L /\ \A x \in 1 .. L : s[x] = out[n - L + x]
  <2>1. \A x \in n - L + 1 .. n : out[x] \in Chars
    <3>1. \A x \in n - L + 1 .. n : x \in 1 .. Len(out)
      BY <1>1, <1>2
    <3> QED BY <3>1, DialogTypes
  <2>2. n - L + 1 \in Int /\ n \in Int /\ n - (n - L + 1) + 1 = L /\ n - L + 1 <= n
    BY <1>1, <1>2
  <2>3. /\ s \in Seq(Chars)
        /\ Len(s) = n - (n - L + 1) + 1
        /\ \A x \in 1 .. n - (n - L + 1) + 1 : s[x] = out[(n - L + 1) + x - 1]
    BY <1>1, <2>1, <2>2, SubSeqProperties
  <2>4. \A x \in 1 .. L : (n - L + 1) + x - 1 = n - L + x
    BY <1>1
  <2> QED BY <2>2, <2>3, <2>4
<1> HIDE DEF s, t
<1>4. s = t <=> \A x \in 1 .. L : s[x] = t[x]
  <2>1. Len(t) = L
    BY DEF t
  <2> QED BY <1>1, <1>3, <2>1, SeqEqual
<1> QED BY <1>3, <1>4 DEF s

\* What Matched returns has been read.
LEMMA MatchedSofar ==
    ASSUME TypeOK, NEW i \in DOMAIN script, Sofar(i, match[i], taken)
    PROVE  Sofar(i, Matched(i, Char), taken + 1)
<1>1. match[i] \in Nat /\ taken \in Nat /\ \A j \in 1 .. i - 1 : doneAt[j] \in Nat
  BY DialogTypes
<1>2. \A j \in 1 .. i - 1 : Required(j) => doneAt[j] + match[i] <= taken
  BY DEF Sofar, SofarIn, Required, Text
<1>3. Sofar(i, 0, taken) /\ Sofar(i, 0, taken + 1)
  BY <1>1, <1>2, SofarZero
<1>4. CASE Text(i)[match[i] + 1] = Char
  BY <1>1, <1>4, SofarNext DEF Matched, Char
<1>5. CASE Text(i)[match[i] + 1] # Char /\ Text(i)[1] = Char
  <2>1. Sofar(i, 0 + 1, taken + 1)
    BY <1>1, <1>3, <1>5, SofarNext DEF Char
  <2> QED BY <1>5, <2>1 DEF Matched
<1>6. CASE Text(i)[match[i] + 1] # Char /\ Text(i)[1] # Char
  BY <1>3, <1>6 DEF Matched
<1> QED BY <1>4, <1>5, <1>6

\* Of a regular text no more than that has been.
LEMMA MatchedMost ==
    ASSUME TypeOK, NEW i \in DOMAIN script, Regular(Text(i)), Char \in Chars,
           Sofar(i, match[i], taken),
           \A k \in match[i] + 1 .. Len(Text(i)) : ~ Sofar(i, k, taken)
    PROVE  \A k \in Matched(i, Char) + 1 .. Len(Text(i)) : ~ Sofar(i, k, taken + 1)
<1> DEFINE t == Text(i)
           m == match[i]
<1>1. /\ m \in Nat /\ taken \in Nat /\ t \in Seq(Chars) /\ Len(t) \in Nat \ {0} /\ m < Len(t)
      /\ Matched(i, Char) \in Nat
  <2>1. m \in Nat /\ taken \in Nat /\ t \in Seq(Chars) /\ Len(t) \in Nat \ {0} /\ m < Len(t)
    BY DialogTypes
  <2> QED BY <2>1 DEF Matched
<1> SUFFICES ASSUME NEW k \in Matched(i, Char) + 1 .. Len(t), Sofar(i, k, taken + 1) PROVE FALSE
  OBVIOUS
<1>2. k \in Nat \ {0} /\ k <= Len(t) /\ k > Matched(i, Char) /\ k - 1 \in Nat
  BY <1>1
<1>3. Sofar(i, k - 1, taken) /\ Char = t[k]
  <2>1. PICK p \in Nat : p = k - 1 /\ k = p + 1
    BY <1>2
  <2>2. Sofar(i, p + 1, taken + 1) <=> Sofar(i, p, taken) /\ out[taken + 1] = Text(i)[p + 1]
    BY <1>1, SofarNext
  <2> QED BY <2>1, <2>2 DEF Char
<1>4. k - 1 <= m
  BY <1>1, <1>2, <1>3
<1>5. t[m + 1] # Char /\ k <= m
  <2>1. t[m + 1] = Char => Matched(i, Char) = m + 1
    BY DEF Matched
  <2>2. t[m + 1] # Char
    BY <1>1, <1>2, <1>4, <2>1
  <2>3. k # m + 1
    BY <1>3, <2>2
  <2> QED BY <1>1, <1>2, <1>4, <2>2, <2>3
<1>6. k # 1
  <2>1. t[1] = Char => Matched(i, Char) = 1
    BY <1>5 DEF Matched
  <2> QED BY <1>2, <1>3, <2>1
<1>7. m \in 1 .. Len(t) - 1 /\ Char \in Chars \ {t[m + 1]} /\ k \in 2 .. m
  BY <1>1, <1>2, <1>5, <1>6
<1> DEFINE start == SubSeq(t, 1, m)
           read == Append(start, Char)
<1>8. SubSeq(read, m + 2 - k, m + 1) # SubSeq(t, 1, k)
  BY <1>7 DEF Regular
<1>9. /\ start \in Seq(Chars) /\ Len(start) = m
      /\ \A x \in 1 .. m : start[x] = t[x]
  <2>1. \A x \in 1 .. m : t[x] \in Chars
    BY <1>1, ElementOfSeq
  <2> QED BY <1>1, <2>1, SubSeqProperties
<1>10. /\ read \in Seq(Chars) /\ Len(read) = m + 1
       /\ \A x \in 1 .. m : read[x] = t[x]
       /\ read[m + 1] = Char
  <2> HIDE DEF start
  <2> QED BY <1>1, <1>9, AppendProperties, SMTT(40)
<1> HIDE DEF start, read, t, m
<1> DEFINE u == SubSeq(read, m + 2 - k, m + 1)
           v == SubSeq(t, 1, k)
<1>11. /\ u \in Seq(Chars) /\ Len(u) = k
       /\ \A x \in 1 .. k : u[x] = read[m + 1 - k + x]
  <2>1. \A x \in 1 .. m + 1 : read[x] \in Chars
    BY <1>1, <1>10, ElementOfSeq
  <2>2. /\ m + 2 - k \in Int /\ m + 1 \in Int /\ m + 2 - k <= m + 1
        /\ (m + 1) - (m + 2 - k) + 1 = k
        /\ \A x \in m + 2 - k .. m + 1 : x \in 1 .. m + 1
    BY <1>1, <1>7
  <2>3. /\ u \in Seq(Chars) /\ Len(u) = (m + 1) - (m + 2 - k) + 1
        /\ \A x \in 1 .. (m + 1) - (m + 2 - k) + 1 : u[x] = read[(m + 2 - k) + x - 1]
    BY <1>10, <2>1, <2>2, SubSeqProperties, SMTT(40)
  <2>4. \A x \in 1 .. k : (m + 2 - k) + x - 1 = m + 1 - k + x
    BY <1>1, <1>7
  <2> QED BY <2>2, <2>3, <2>4
<1>12. /\ v \in Seq(Chars) /\ Len(v) = k
       /\ \A x \in 1 .. k : v[x] = t[x]
  <2>1. \A x \in 1 .. k : t[x] \in Chars
    BY <1>1, <1>2, ElementOfSeq
  <2> QED BY <1>1, <1>2, <2>1, SubSeqProperties
<1>13. ASSUME NEW x \in 1 .. k PROVE u[x] = v[x]
  <2>1. CASE x = k
    <3>1. m + 1 - k + x = m + 1
      BY <1>1, <1>2, <2>1
    <3> QED BY <1>3, <1>10, <1>11, <1>12, <2>1, <3>1
  <2>2. CASE x # k
    <3>1. /\ m + 1 - k + x \in 1 .. m /\ x \in 1 .. k - 1
          /\ taken - m + (m + 1 - k + x) = taken - (k - 1) + x
      <4>1. m \in Nat /\ k \in Nat /\ taken \in Nat /\ x \in Nat /\ k <= m /\ 1 <= x /\ x <= k /\ x # k
        BY <1>1, <1>2, <1>7, <2>2
      <4>2. m + 1 - k + x \in 1 .. m /\ x \in 1 .. k - 1
        BY <4>1
      <4>3. taken - m + (m + 1 - k + x) = taken - (k - 1) + x
        BY <4>1
      <4> QED BY <4>2, <4>3
    <3>2. out[taken - m + (m + 1 - k + x)] = t[m + 1 - k + x]
      BY <3>1 DEF Sofar, SofarIn, Text, t, m
    <3>3. out[taken - (k - 1) + x] = t[x]
      BY <1>3, <3>1 DEF Sofar, SofarIn, Text, t
    <3>4. read[m + 1 - k + x] = t[m + 1 - k + x]
      BY <1>10, <3>1
    <3> QED BY <1>11, <1>12, <3>1, <3>2, <3>3, <3>4
  <2> QED BY <2>1, <2>2
<1>14. u = v
  <2> HIDE DEF u, v
  <2> QED BY <1>2, <1>11, <1>12, <1>13, SeqEqual
<1> QED BY <1>8, <1>14

-------------------------------------------------------------------------------
(* The dialogue. *)

DialogueInv == MatchInv /\ DoneInv /\ NoticedInv

LEMMA InitDialogue == Init => DialogueInv
<1> SUFFICES ASSUME Init PROVE DialogueInv
  OBVIOUS
<1>1. TypeOK
  BY InitTypes
<1>2. taken = 0 /\ \A i \in DOMAIN script : match[i] = 0 /\ doneAt[i] = 0
  BY DEF Init
<1>3. ASSUME NEW i \in DOMAIN script
      PROVE  Sofar(i, 0, 0) /\ \A k \in 1 .. Len(Text(i)) : ~ Sofar(i, k, 0)
  <2>1. \A j \in 1 .. i - 1 : doneAt[j] <= 0
    BY <1>1, <1>2, DialogTypes
  <2>2. Len(Text(i)) \in Nat /\ \A k \in 1 .. Len(Text(i)) : ~ (k <= 0)
    BY <1>1, DialogTypes
  <2> QED BY <1>1, <2>1, <2>2, SofarZero DEF Sofar, SofarIn
<1>4. MatchInv
  BY <1>2, <1>3 DEF MatchInv
<1>5. DoneInv
  BY <1>2 DEF DoneInv, IsDone
<1>6. NoticedInv
  BY <1>2, <1>3 DEF NoticedInv, Fed
<1> QED BY <1>4, <1>5, <1>6 DEF DialogueInv

LEMMA TakeDialogue ==
    ASSUME TypeOK, TypeOK', DialogueInv, TakeChar
    PROVE  DialogueInv'
<1> DEFINE Now(i, k, n) == SofarIn(script, out', doneAt', i, k, n)
<1>1. /\ taken \in Nat /\ Len(out) \in Nat /\ taken + 1 <= Len(out) /\ Char \in Chars
      /\ taken' = taken + 1 /\ script' = script /\ out' = out /\ pc = "dialog"
  BY DialogTypes, TakeStep
<1>2. ASSUME NEW i \in DOMAIN script
      PROVE  /\ doneAt'[i] = IF i \in Completed THEN taken + 1 ELSE doneAt[i]
             /\ match'[i] = IF i \in Completed THEN 0
                            ELSE IF i \in Tried(Char) THEN Matched(i, Char) ELSE match[i]
             /\ IsDone(i)' <=> IsDone(i) \/ i \in Completed
             /\ doneAt[i] \in Nat /\ doneAt[i] <= taken
             /\ Len(Text(i)) \in Nat \ {0} /\ match'[i] \in Nat /\ match'[i] < Len(Text(i))
  <2>1. /\ doneAt'[i] = IF i \in Completed THEN taken + 1 ELSE doneAt[i]
        /\ match'[i] = IF i \in Completed THEN 0
                       ELSE IF i \in Tried(Char) THEN Matched(i, Char) ELSE match[i]
    BY TakeStep
  <2>2. Len(Text(i)) \in Nat \ {0} /\ doneAt[i] \in Nat /\ doneAt[i] <= taken
    BY DialogTypes DEF DialogueInv, MatchInv
  <2>3. match'[i] \in 0 .. Len(Text(i)) - 1
    BY <1>1 DEF TypeOK, Text
  <2> QED BY <1>1, <2>1, <2>2, <2>3 DEF IsDone
<1>3. Completed \subseteq Tried(Char) /\ Tried(Char) \subseteq Fed /\ Fed \subseteq DOMAIN script
  BY TakeStep
<1>4. Talking' => Tried(Char) = Fed
  <2>1. pc' # "start"
    BY TakeStep
  <2> QED BY <2>1, TakeStep DEF Talking
<1>5. ASSUME NEW i \in DOMAIN script, NEW k \in Nat, NEW n \in 0 .. taken + 1,
             i \in Fed \/ IsDone(i)
      PROVE  Now(i, k, n) <=> Sofar(i, k, n)
  <2>1. \A j \in 1 .. i - 1 : Required(j) => IsDone(j)
    BY <1>5 DEF Fed, DialogueInv, DoneInv
  <2>2. \A j \in 1 .. i - 1 : j \in DOMAIN script
    BY DialogTypes
  <2>3. \A j \in 1 .. i - 1 : Required(j) => doneAt'[j] = doneAt[j]
    BY <1>2, <1>3, <2>1, <2>2 DEF Fed
  <2>4. n \in 0 .. Len(out) /\ \A x \in 1 .. Len(out) : out'[x] = out[x]
    BY <1>1
  <2> QED BY <1>1, <2>3, <2>4, SofarFrame
<1>6. ASSUME NEW i \in Fed
      PROVE  /\ i \in DOMAIN script /\ Sofar(i, match[i], taken) /\ Sofar(i, Matched(i, Char), taken + 1)
             /\ Matched(i, Char) \in Nat
  <2>1. i \in DOMAIN script /\ ~ IsDone(i) /\ match[i] \in Nat
    BY DialogTypes DEF Fed
  <2>2. Sofar(i, match[i], taken)
    BY <1>1, <2>1 DEF DialogueInv, MatchInv, Talking
  <2> QED BY <2>1, <2>2, MatchedSofar DEF Matched
<1>7. ASSUME NEW i \in DOMAIN script, ~ IsDone(i)', Talking'
      PROVE  IF i \in Fed' THEN Now(i, match'[i], taken + 1) ELSE match'[i] = 0
  <2>1. ~ IsDone(i) /\ i \notin Completed
    BY <1>2, <1>7
  <2>2. CASE i \in Fed
    <3>1. match'[i] = Matched(i, Char)
      BY <1>2, <1>4, <1>7, <2>1, <2>2
    <3>2. i \in Fed'
      <4>1. \A j \in 1 .. i - 1 : Required(j) => IsDone(j) /\ j \in DOMAIN script
        BY <2>2, DialogTypes DEF Fed
      <4> QED BY <1>1, <1>2, <1>7, <4>1 DEF Fed, Required
    <3>3. Now(i, Matched(i, Char), taken + 1)
      <4>1. taken + 1 \in 0 .. taken + 1
        BY <1>1
      <4> QED BY <1>5, <1>6, <2>2, <4>1
    <3> QED BY <3>1, <3>2, <3>3
  <2>3. CASE i \notin Fed
    <3>1. match'[i] = 0
      BY <1>1, <1>2, <1>3, <2>1, <2>3 DEF DialogueInv, MatchInv, Talking
    <3>2. \A j \in 1 .. i - 1 : doneAt'[j] + 0 <= taken + 1
      BY <1>1, <1>2, DialogTypes, SMTT(40)
    <3>3. Now(i, match'[i], taken + 1)
      BY <1>1, <3>1, <3>2 DEF SofarIn
    <3> QED BY <3>1, <3>3
  <2> QED BY <2>2, <2>3
<1>8. MatchInv'
  BY <1>1, <1>2, <1>7 DEF MatchInv, Sofar
<1>9. ASSUME NEW i \in DOMAIN script, IsDone(i)'
      PROVE  /\ Now(i, Len(Text(i)), doneAt'[i])
             /\ \A j \in 1 .. i - 1 : Required(j) => IsDone(j)' /\ doneAt'[j] < doneAt'[i]
  <2>1. \A j \in 1 .. i - 1 : j \in DOMAIN script
    BY DialogTypes
  <2>2. CASE i \in Completed
    <3>1. i \in Fed /\ doneAt'[i] = taken + 1 /\ Matched(i, Char) = Len(Text(i))
      BY <1>2, <1>3, <2>2 DEF Completed, Completes
    <3>2. Now(i, Len(Text(i)), taken + 1)
      <4>1. taken + 1 \in 0 .. taken + 1
        BY <1>1
      <4> QED BY <1>5, <1>6, <3>1, <4>1
    <3>3. ASSUME NEW j \in 1 .. i - 1, Required(j) PROVE IsDone(j)' /\ doneAt'[j] < doneAt'[i]
      <4>1. IsDone(j) /\ doneAt'[j] = doneAt[j]
        BY <3>1, <3>3, BeforeFed
      <4>2. j \in DOMAIN script
        BY <2>1
      <4>3. doneAt[j] \in Nat /\ doneAt[j] <= taken /\ IsDone(j)'
        BY <1>2, <4>1, <4>2
      <4> QED BY <1>1, <3>1, <4>1, <4>3
    <3> QED BY <3>1, <3>2, <3>3
  <2>3. CASE i \notin Completed
    <3>1. IsDone(i) /\ doneAt'[i] = doneAt[i] /\ doneAt[i] \in 0 .. taken + 1 /\ Len(Text(i)) \in Nat
      BY <1>1, <1>2, <1>9, <2>3
    <3>2. Sofar(i, Len(Text(i)), doneAt[i])
      BY <3>1 DEF DialogueInv, DoneInv
    <3>3. ASSUME NEW j \in 1 .. i - 1, Required(j) PROVE IsDone(j)' /\ doneAt'[j] < doneAt'[i]
      <4>1. IsDone(j) /\ doneAt[j] < doneAt[i] /\ j \in DOMAIN script
        BY <2>1, <3>1, <3>3 DEF DialogueInv, DoneInv
      <4>2. j \notin Completed
        BY <1>3, <4>1 DEF Fed
      <4> QED BY <1>2, <3>1, <4>1, <4>2
    <3>4. \A n \in 0 .. taken + 1 : Now(i, Len(Text(i)), n) <=> Sofar(i, Len(Text(i)), n)
      BY <1>5, <3>1
    <3>5. Now(i, Len(Text(i)), doneAt'[i])
      BY <3>1, <3>2, <3>4
    <3> QED BY <3>3, <3>5
  <2> QED BY <2>2, <2>3
<1>10. DoneInv'
  BY <1>1, <1>9 DEF DoneInv, Required, Text, Sofar
<1>11. ASSUME Talking', NEW i \in Fed', Regular(Text(i))'
       PROVE  /\ \A k \in match'[i] + 1 .. Len(Text(i)) : ~ Now(i, k, taken + 1)
              /\ \A n \in 1 .. taken + 1 : ~ Now(i, Len(Text(i)), n)
  <2>1. i \in DOMAIN script /\ ~ IsDone(i)' /\ Regular(Text(i))
    BY <1>1, <1>11 DEF Fed, Text
  <2>2. ~ IsDone(i) /\ i \notin Completed
    BY <1>2, <2>1
  <2>3. CASE i \in Fed
    <3>1. match'[i] = Matched(i, Char)
      BY <1>2, <1>4, <1>11, <2>1, <2>2, <2>3
    <3>2. /\ \A k \in match[i] + 1 .. Len(Text(i)) : ~ Sofar(i, k, taken)
          /\ \A n \in 1 .. taken : ~ Sofar(i, Len(Text(i)), n)
      BY <1>1, <2>1, <2>3 DEF DialogueInv, NoticedInv, Talking
    <3>3. \A k \in Matched(i, Char) + 1 .. Len(Text(i)) : ~ Sofar(i, k, taken + 1)
      BY <1>1, <1>6, <2>1, <2>3, <3>2, MatchedMost
    <3>4. Len(Text(i)) \in Matched(i, Char) + 1 .. Len(Text(i)) /\ Len(Text(i)) \in Nat
          /\ \A k \in Matched(i, Char) + 1 .. Len(Text(i)) : k \in Nat
      BY <1>2, <2>1, <3>1
    <3>5. \A n \in 1 .. taken + 1 : ~ Sofar(i, Len(Text(i)), n)
      <4>1. \A n \in 1 .. taken + 1 : n \in 1 .. taken \/ n = taken + 1
        BY <1>1
      <4> QED BY <3>2, <3>3, <3>4, <4>1
    <3>6. taken + 1 \in 0 .. taken + 1 /\ \A n \in 1 .. taken + 1 : n \in 0 .. taken + 1
      BY <1>1
    <3>7. \A k \in Matched(i, Char) + 1 .. Len(Text(i)) : ~ Now(i, k, taken + 1)
      BY <1>5, <2>1, <2>3, <3>3, <3>4, <3>6
    <3>8. \A n \in 1 .. taken + 1 : ~ Now(i, Len(Text(i)), n)
      BY <1>5, <2>1, <2>3, <3>4, <3>5, <3>6
    <3> QED BY <3>1, <3>7, <3>8
  <2>4. CASE i \notin Fed
    <3>1. PICK j \in 1 .. i - 1 : Required(j) /\ ~ IsDone(j)
      BY <2>1, <2>2, <2>4 DEF Fed
    <3>2. j \in DOMAIN script /\ IsDone(j)'
      BY <1>1, <1>11, <2>1, <3>1, DialogTypes DEF Fed, Required
    <3>3. doneAt'[j] = taken + 1
      BY <1>2, <3>1, <3>2
    <3>4. ASSUME NEW k \in Nat \ {0}, NEW n \in 0 .. taken + 1 PROVE ~ Now(i, k, n)
      <4>1. ~ (doneAt'[j] + k <= n)
        BY <1>1, <3>3
      <4> QED BY <3>1, <4>1 DEF SofarIn, Required
    <3>5. Len(Text(i)) \in Nat \ {0} /\ \A k \in match'[i] + 1 .. Len(Text(i)) : k \in Nat \ {0}
      BY <1>2, <2>1
    <3>6. taken + 1 \in 0 .. taken + 1 /\ \A n \in 1 .. taken + 1 : n \in 0 .. taken + 1
      BY <1>1
    <3>7. \A k \in match'[i] + 1 .. Len(Text(i)) : ~ Now(i, k, taken + 1)
      BY <3>4, <3>5, <3>6
    <3>8. \A n \in 1 .. taken + 1 : ~ Now(i, Len(Text(i)), n)
      BY <3>4, <3>5, <3>6
    <3> QED BY <3>7, <3>8
  <2> QED BY <2>3, <2>4
<1>12. NoticedInv'
  BY <1>1, <1>11 DEF NoticedInv, Text, Sofar
<1> QED BY <1>8, <1>10, <1>12 DEF DialogueInv

\* Steps that leave the dialogue as it is: the output may grow, and be passed on
\* once the dialogue is over.
LEMMA OtherDialogue ==
    ASSUME TypeOK, DialogueInv, UNCHANGED <<script, match, doneAt>>,
           taken' = taken \/ (taken' = taken + 1 /\ ~ Talking'), Talking' => Talking,
           \A x \in 1 .. Len(out) : out'[x] = out[x]
    PROVE  DialogueInv'
<1>1. taken \in Nat /\ Len(out) \in Nat /\ taken <= Len(out)
  BY DialogTypes
<1>2. ASSUME NEW i \in DOMAIN script, NEW k \in Nat, NEW n \in 0 .. Len(out)
      PROVE  SofarIn(script, out', doneAt, i, k, n) <=> Sofar(i, k, n)
  BY SofarFrame
<1>3. ASSUME NEW i \in DOMAIN script
      PROVE  /\ Len(Text(i)) \in Nat \ {0} /\ match[i] \in Nat /\ doneAt[i] \in 0 .. Len(out)
             /\ doneAt[i] <= taken
             /\ \A k \in match[i] + 1 .. Len(Text(i)) : k \in Nat
  <2>1. Len(Text(i)) \in Nat \ {0} /\ match[i] \in Nat /\ doneAt[i] \in Nat /\ doneAt[i] <= taken
    BY DialogTypes DEF DialogueInv, MatchInv
  <2> QED BY <1>1, <2>1
<1>4. Fed' = Fed /\ \A i \in DOMAIN script : IsDone(i)' = IsDone(i)
  BY DEF Fed, IsDone, Required
<1>5. MatchInv'
  <2>1. \A i \in DOMAIN script : doneAt[i] <= taken'
    BY <1>1, <1>3
  <2>2. ASSUME Talking', NEW i \in DOMAIN script, ~ IsDone(i)
        PROVE  IF i \in Fed THEN SofarIn(script, out', doneAt, i, match[i], taken') ELSE match[i] = 0
    <3>1. taken' = taken /\ taken \in 0 .. Len(out)
      BY <1>1, <2>2
    <3>2. IF i \in Fed THEN Sofar(i, match[i], taken) ELSE match[i] = 0
      BY <2>2 DEF DialogueInv, MatchInv
    <3> QED BY <1>2, <1>3, <3>1, <3>2
  <2> QED BY <1>4, <2>1, <2>2 DEF MatchInv, Sofar
<1>6. DoneInv'
  <2>1. ASSUME NEW i \in DOMAIN script, IsDone(i)
        PROVE  /\ SofarIn(script, out', doneAt, i, Len(Text(i)), doneAt[i])
               /\ \A j \in 1 .. i - 1 : Required(j) => IsDone(j) /\ doneAt[j] < doneAt[i] /\ j \in DOMAIN script
    BY <1>2, <1>3, <2>1, DialogTypes DEF DialogueInv, DoneInv
  <2> QED BY <1>4, <2>1 DEF DoneInv, Sofar, Text, Required
<1>7. NoticedInv'
  <2> SUFFICES ASSUME Talking', NEW i \in Fed, Regular(Text(i))
               PROVE  /\ \A k \in match[i] + 1 .. Len(Text(i)) : ~ SofarIn(script, out', doneAt, i, k, taken)
                      /\ \A n \in 1 .. taken : ~ SofarIn(script, out', doneAt, i, Len(Text(i)), n)
    <3>1. Talking' => taken' = taken
      OBVIOUS
    <3> QED BY <1>4, <3>1 DEF NoticedInv, Sofar, Text
  <2>1. i \in DOMAIN script
    BY DEF Fed
  <2>2. /\ \A k \in match[i] + 1 .. Len(Text(i)) : ~ Sofar(i, k, taken)
        /\ \A n \in 1 .. taken : ~ Sofar(i, Len(Text(i)), n)
    BY DEF DialogueInv, NoticedInv
  <2>3. taken \in 0 .. Len(out) /\ \A n \in 1 .. taken : n \in 0 .. Len(out)
    BY <1>1
  <2>4. \A k \in match[i] + 1 .. Len(Text(i)) : ~ SofarIn(script, out', doneAt, i, k, taken)
    BY <1>2, <1>3, <2>1, <2>2, <2>3
  <2>5. \A n \in 1 .. taken : ~ SofarIn(script, out', doneAt, i, Len(Text(i)), n)
    BY <1>2, <1>3, <2>1, <2>2, <2>3
  <2> QED BY <2>4, <2>5
<1> QED BY <1>5, <1>6, <1>7 DEF DialogueInv

\* When nothing has matched, a record begun anew has nothing to match either.
LEMMA NewRecord ==
    ASSUME TypeOK, DialogueInv, PrintsOn
    PROVE  DialogueInv'
<1>1. /\ UNCHANGED <<script, pc, match, doneAt>> /\ taken' = 0
      /\ \A i \in DOMAIN script : match[i] = 0 /\ doneAt[i] = 0
  BY DEF PrintsOn, handlerVars, IsDone
<1>2. ASSUME NEW i \in DOMAIN script
      PROVE  /\ SofarIn(script, out', doneAt, i, 0, 0)
             /\ \A k \in 1 .. Len(Text(i)) : ~ SofarIn(script, out', doneAt, i, k, 0)
  <2>1. \A j \in 1 .. i - 1 : doneAt[j] = 0
    BY <1>1, DialogTypes
  <2> QED BY <2>1 DEF SofarIn
<1>3. MatchInv'
  BY <1>1, <1>2 DEF MatchInv, Sofar, IsDone
<1>4. DoneInv'
  BY <1>1 DEF DoneInv, IsDone
<1>5. NoticedInv'
  BY <1>1, <1>2 DEF NoticedInv, Sofar, Fed, IsDone, Text
<1> QED BY <1>3, <1>4, <1>5 DEF DialogueInv

LEMMA NextDialogue == TypeOK /\ TypeOK' /\ DialogueInv /\ [Next]_vars => DialogueInv'
<1> SUFFICES ASSUME TypeOK, TypeOK', DialogueInv, [Next]_vars PROVE DialogueInv'
  OBVIOUS
<1>1. CASE TakeChar
  BY <1>1, TakeDialogue
<1>2. CASE Prints
  <2>1. PICK c \in Chars : out' = Append(out, c)
    BY <1>2 DEF Prints
  <2>2. out \in Seq(Chars)
    BY DEF TypeOK
  <2>3. \A x \in 1 .. Len(out) : out'[x] = out[x]
    BY <2>1, <2>2, AppendProperties
  <2> QED BY <1>2, <2>3, OtherDialogue DEF Prints, handlerVars, Talking
<1>4. CASE PrintsOn
  BY <1>4, NewRecord
<1>3. CASE ~ TakeChar /\ ~ Prints /\ ~ PrintsOn
  <2>1. UNCHANGED <<script, match, doneAt, out>>
    BY <1>3 DEF Next, Handler, Overlong, Spawn, SpawnFails, EndOfOutput, Silence, Aborts, TellOkay, TellFail,
         Relay, RelayEnds, Reads, Gets, Exits, ClientLeaves, vars, handlerVars
  <2>2. Relay \/ taken' = taken
    BY <1>3 DEF Next, Handler, Overlong, Spawn, SpawnFails, EndOfOutput, Silence, Aborts, TellOkay, TellFail,
         Relay, RelayEnds, Reads, Gets, Exits, ClientLeaves, vars, handlerVars
  <2>3. Relay => taken' = taken + 1 /\ ~ Talking'
    BY DEF Relay, Talking
  <2>4. Talking' => Talking
    BY <1>3 DEF Next, Handler, Overlong, Spawn, SpawnFails, EndOfOutput, Silence, Aborts, TellOkay, TellFail,
         Relay, RelayEnds, Reads, Gets, Exits, ClientLeaves, vars, handlerVars, Talking
  <2> QED BY <2>1, <2>2, <2>3, <2>4, OtherDialogue
<1> QED BY <1>1, <1>2, <1>3, <1>4

LEMMA DialogueSafe ==
    ASSUME TypeOK, DialogueInv
    PROVE  RepliesAnswerPrompts /\ PromptsNoticed
<1>1. taken \in Nat /\ Len(out) \in Nat /\ taken <= Len(out)
  BY DialogTypes
<1>2. RepliesAnswerPrompts
  <2> SUFFICES ASSUME NEW i \in DOMAIN script, IsDone(i)
               PROVE  /\ EndsAt(i, doneAt[i])
                      /\ \A j \in 1 .. i - 1 : Required(j) => IsDone(j) /\ doneAt[j] < doneAt[i]
    BY DEF RepliesAnswerPrompts
  <2>1. doneAt[i] \in 0 .. Len(out)
    BY <1>1, DialogTypes DEF DialogueInv, MatchInv
  <2> QED BY <2>1, EndsAtSofar DEF DialogueInv, DoneInv
<1>3. PromptsNoticed
  <2> SUFFICES ASSUME NEW i \in DOMAIN script, pc = "dialog", i \in Fed, Regular(Text(i)), NEW n \in 1 .. taken
               PROVE  ~ EndsAt(i, n)
    BY DEF PromptsNoticed
  <2>1. n \in 0 .. Len(out)
    BY <1>1
  <2> QED BY <2>1, EndsAtSofar DEF DialogueInv, NoticedInv, Talking
<1> QED BY <1>2, <1>3

\* STREAMExpectDialog: a reply goes only to a prompt that was printed, whole,
\* after those the script expects before it.
THEOREM RepliesAreToPrompts == Spec => []RepliesAnswerPrompts
<1>1. TypeOK /\ [Next]_vars => TypeOK'
  BY TakeTypes, OtherTypes
<1> QED BY <1>1, InitTypes, InitDialogue, NextDialogue, DialogueSafe, PTL DEF Spec

\* ExpectDialogProcess: beginning a match again instead of backing up misses no
\* prompt whose text does not repeat its own beginning.
THEOREM RegularPromptsNoticed == Spec => []PromptsNoticed
<1>1. TypeOK /\ [Next]_vars => TypeOK'
  BY TakeTypes, OtherTypes
<1> QED BY <1>1, InitTypes, InitDialogue, NextDialogue, DialogueSafe, PTL DEF Spec

-------------------------------------------------------------------------------
(* What the client is told. *)

LEMMA InitEarned == Init => EarnedInv
BY DEF Init, EarnedInv, Talking, IsDone

LEMMA NextEarned == TypeOK /\ EarnedInv /\ [Next]_vars => EarnedInv'
<1> SUFFICES ASSUME TypeOK, EarnedInv, [Next]_vars PROVE EarnedInv'
  OBVIOUS
<1>1. CASE TakeChar
  <2>1. /\ pc = "dialog" /\ UNCHANGED <<script, told>> /\ taken \in Nat
        /\ pc' = IF \E i \in Completed : script[i].kind = "end" THEN "okay"
                    ELSE IF \E i \in Completed : script[i].kind = "fail" THEN "failed"
                    ELSE "dialog"
        /\ Completed \subseteq DOMAIN script
    BY <1>1, TakeStep, DialogTypes
  <2>2. told # "okay"
    BY <2>1 DEF EarnedInv
  <2>3. \A i \in DOMAIN script : IsDone(i)' <=> IsDone(i) \/ i \in Completed
    BY <1>1, <2>1, TakeStep DEF IsDone
  <2>4. \A i \in DOMAIN script : script[i].kind \in {"end", "fail"} => ~ IsDone(i)
    BY <2>1 DEF EarnedInv, Talking
  <2>5. CASE pc' = "okay"
    <3>1. PICK e \in Completed : script[e].kind = "end"
      BY <2>1, <2>5
    <3>2. ASSUME NEW f \in Completed, script[f].kind = "fail" PROVE FALSE
      <4>1. Returns(e, Char) /\ Returns(f, Char)
        BY <1>1, <3>1, <3>2, TakeStep DEF Completed, Returns
      <4>2. e \in Nat \ {0} /\ f \in Nat \ {0} /\ e # f
        BY <2>1, <3>1, <3>2, DialogTypes
      <4>3. e \in 1 .. f - 1 \/ f \in 1 .. e - 1
        BY <4>2
      <4> QED BY <4>1, <4>3 DEF Completed, Tried
    <3>3. \A i \in DOMAIN script : script[i].kind = "fail" => ~ IsDone(i)'
      BY <2>3, <2>4, <3>2
    <3>4. e \in DOMAIN script /\ IsDone(e)'
      BY <2>1, <2>3
    <3> QED BY <2>1, <2>2, <2>5, <3>1, <3>3, <3>4 DEF EarnedInv, Earned, Talking
  <2>6. CASE pc' # "okay"
    <3>1. Talking' => \A i \in Completed : script[i].kind \notin {"end", "fail"}
      BY <2>1 DEF Talking
    <3> QED BY <2>1, <2>2, <2>3, <2>4, <2>6, <3>1 DEF EarnedInv
  <2> QED BY <2>5, <2>6
<1>2. CASE EndOfOutput
  BY <1>2 DEF EndOfOutput, OutputEnded, EarnedInv, Earned, Talking, IsDone, AllDone, Required
<1>3. CASE Overlong \/ Spawn \/ SpawnFails
  BY <1>3 DEF Overlong, Spawn, SpawnFails, EarnedInv, Earned, Talking, IsDone, AllDone, Required
<1>4. CASE Silence \/ Aborts \/ TellFail
  BY <1>4 DEF Silence, Aborts, TellFail, EarnedInv, Earned, Talking, IsDone, AllDone, Required
<1>5. CASE TellOkay \/ Relay \/ RelayEnds
  BY <1>5 DEF TellOkay, Relay, RelayEnds, EarnedInv, Earned, Talking, IsDone, AllDone, Required
<1>6. CASE Prints \/ PrintsOn \/ Reads \/ Gets
  BY <1>6 DEF Prints, PrintsOn, Reads, Gets, EarnedInv, Earned, Talking, IsDone, AllDone, Required, handlerVars
<1>7. CASE Exits \/ ClientLeaves \/ UNCHANGED vars
  BY <1>7 DEF Exits, ClientLeaves, vars, EarnedInv, Earned, Talking, IsDone, AllDone, Required, handlerVars
<1> QED BY <1>1, <1>2, <1>3, <1>4, <1>5, <1>6, <1>7 DEF Next, Handler

\* RunCommand and ProcessExpect: OKAY is told only after an end dialog, or when
\* all that was expected had come before the output ended, never after a fail.
THEOREM OkayIsTrue == Spec => []OkayIsEarned
<1>1. TypeOK /\ [Next]_vars => TypeOK'
  BY TakeTypes, OtherTypes
<1>2. EarnedInv => OkayIsEarned
  BY DEF EarnedInv, Earned, OkayIsEarned
<1> QED BY <1>1, <1>2, InitTypes, InitEarned, NextEarned, PTL DEF Spec

===============================================================================
