---------------------------- MODULE Requests_proofs ----------------------------
(***************************************************************************)
(* Only permitted requests are carried out and every request is settled,   *)
(* for every configuration, set of grants and nesting of checks.           *)
(***************************************************************************)
EXTENDS Requests, SequenceTheorems, TLAPS

CheckRecord == [verb : Verbs, cmd : Names, entry : 1 .. Len(Config), rule : Nat \ {0}, n : Nat]
RunRecord == [n : Nat, verb : Verbs, cmd : Names, checked : 1 .. Len(Config),
              entry : 0 .. Len(Config), proved : SUBSET AuthTypes]

\* What the flag PEER_AUTHENTICATED stands for was proved to some service.
ProvedInv == proved \subseteq Passes

\* Every check goes by the first entry named like its command or the program.
FirstInv == \A i \in 1 .. Len(checks) : IsFirst(checks[i].entry, Candidates(checks[i].cmd))

PermissionInv == TypeOK /\ ProvedInv /\ WaitingAtAuth /\ FirstInv /\ OnlyPermitted

-------------------------------------------------------------------------------
(* What a step does to the stack of checks. *)

\* Returning from the innermost check leaves the others as they are.
LEMMA PopStack ==
    ASSUME TypeOK, checks # <<>>
    PROVE  /\ Pop \in Seq(CheckRecord)
           /\ Len(Pop) = Len(checks) - 1
           /\ \A i \in 1 .. Len(Pop) : Pop[i] = checks[i]
           /\ Len(checks) \in Nat \ {0}
           /\ Top \in CheckRecord
<1>1. checks \in Seq(CheckRecord) /\ Len(checks) \in Nat \ {0}
  BY EmptySeq DEF TypeOK, CheckRecord
<1>2. \A i \in 1 .. Len(checks) - 1 : checks[i] \in CheckRecord
  BY <1>1, ElementOfSeq
<1>3. ASSUME NEW L \in Nat, L = Len(checks) - 1
      PROVE  /\ Pop \in Seq(CheckRecord)
             /\ Len(Pop) = L
             /\ \A i \in 1 .. L : Pop[i] = checks[i]
  <2>1. \A i \in 1 .. L : checks[i] \in CheckRecord
    BY <1>2, <1>3
  <2>2. Pop = SubSeq(checks, 1, L)
    BY <1>3 DEF Pop
  <2>3. SubSeq(checks, 1, L) \in Seq(CheckRecord)
    BY <2>1, SubSeqProperties
  <2>4. Len(SubSeq(checks, 1, L)) = IF 1 <= L THEN L - 1 + 1 ELSE 0
    BY <2>1, SubSeqProperties
  <2>5. (IF 1 <= L THEN L - 1 + 1 ELSE 0) = L
    BY <1>3
  <2>6. \A i \in 1 .. L - 1 + 1 : SubSeq(checks, 1, L)[i] = checks[1 + i - 1]
    BY <2>1, SubSeqProperties
  <2>7. \A i \in 1 .. L : i \in 1 .. L - 1 + 1 /\ 1 + i - 1 = i
    BY <1>3
  <2> QED BY <2>2, <2>3, <2>4, <2>5, <2>6, <2>7, Zenon
<1>4. Top \in CheckRecord
  BY <1>1, ElementOfSeq DEF Top
<1>5. Len(checks) - 1 \in Nat
  BY <1>1
<1> QED BY <1>1, <1>3, <1>4, <1>5

\* Going on to the next rule changes nothing else.
LEMMA NextRuleStack ==
    ASSUME TypeOK, checks # <<>>
    PROVE  /\ NextRule \in Seq(CheckRecord)
           /\ Len(NextRule) = Len(checks)
           /\ Len(checks) \in Nat \ {0}
           /\ Top \in CheckRecord
           /\ \A i \in 1 .. Len(checks) : i # Len(checks) => NextRule[i] = checks[i]
           /\ NextRule[Len(checks)].verb = Top.verb
           /\ NextRule[Len(checks)].cmd = Top.cmd
           /\ NextRule[Len(checks)].entry = Top.entry
           /\ NextRule[Len(checks)].rule = Top.rule + 1
           /\ NextRule[Len(checks)].n = Top.n
<1>1. checks \in Seq(CheckRecord) /\ Len(checks) \in Nat \ {0}
  BY EmptySeq DEF TypeOK, CheckRecord
<1>2. Top \in CheckRecord
  BY <1>1, ElementOfSeq DEF Top
<1>3. [Top EXCEPT !.rule = @ + 1] \in CheckRecord
  BY <1>2 DEF CheckRecord
<1>4. NextRule = [checks EXCEPT ![Len(checks)] = [Top EXCEPT !.rule = @ + 1]]
  BY <1>1 DEF NextRule, Top
<1>5. /\ [Top EXCEPT !.rule = @ + 1].verb = Top.verb
      /\ [Top EXCEPT !.rule = @ + 1].cmd = Top.cmd
      /\ [Top EXCEPT !.rule = @ + 1].entry = Top.entry
      /\ [Top EXCEPT !.rule = @ + 1].rule = Top.rule + 1
      /\ [Top EXCEPT !.rule = @ + 1].n = Top.n
  BY <1>2 DEF CheckRecord
<1>6. ASSUME NEW e \in CheckRecord, e = [Top EXCEPT !.rule = @ + 1]
      PROVE  /\ NextRule \in Seq(CheckRecord)
             /\ Len(NextRule) = Len(checks)
             /\ \A i \in 1 .. Len(checks) : NextRule[i] = IF i = Len(checks) THEN e ELSE checks[i]
  <2>1. NextRule = [checks EXCEPT ![Len(checks)] = e]
    BY <1>4, <1>6
  <2>2. Len(checks) \in 1 .. Len(checks)
    BY <1>1
  <2>3. /\ [checks EXCEPT ![Len(checks)] = e] \in Seq(CheckRecord)
        /\ Len([checks EXCEPT ![Len(checks)] = e]) = Len(checks)
        /\ \A i \in 1 .. Len(checks) :
             [checks EXCEPT ![Len(checks)] = e][i] = IF i = Len(checks) THEN e ELSE checks[i]
    BY <1>1, <2>2, ExceptSeq
  <2> QED BY <2>1, <2>3
<1>7. Len(checks) \in 1 .. Len(checks)
  BY <1>1
<1> QED BY <1>1, <1>2, <1>3, <1>5, <1>6, <1>7

\* A new check goes on top, at its first rule.
LEMMA PushStack ==
    ASSUME TypeOK, NEW e \in CheckRecord
    PROVE  /\ Append(checks, e) \in Seq(CheckRecord)
           /\ Len(Append(checks, e)) = Len(checks) + 1
           /\ Len(checks) \in Nat
           /\ \A i \in 1 .. Len(checks) : Append(checks, e)[i] = checks[i]
           /\ Append(checks, e)[Len(checks) + 1] = e
<1>1. checks \in Seq(CheckRecord) /\ Len(checks) \in Nat
  BY LenProperties DEF TypeOK, CheckRecord
<1> QED BY <1>1, AppendProperties

LEMMA RulesType == \A k \in 1 .. Len(Config) : RulesOf(k) \in Seq(Rule) /\ Len(RulesOf(k)) \in Nat
<1>1. \A k \in 1 .. Len(Config) : Config[k] \in [name : Names, rules : Seq(Rule)]
  BY RequestsAssumption, ElementOfSeq
<1> QED BY <1>1, LenProperties DEF RulesOf

-------------------------------------------------------------------------------
(* Waiting checks, one lemma for each way the stack changes. *)

LEMMA ReturnKeepsWaiting ==
    ASSUME TypeOK, WaitingAtAuth, checks # <<>>, Return, proved' = proved
    PROVE  checks' \in Seq(CheckRecord) /\ reading' \in BOOLEAN /\ WaitingAtAuth'
<1>1. checks' = Pop /\ reading' \in BOOLEAN
  BY DEF Return, Listening
<1>2. /\ checks' \in Seq(CheckRecord)
      /\ Len(checks') = Len(checks) - 1
      /\ \A i \in 1 .. Len(checks') : checks'[i] = checks[i]
      /\ Len(checks) \in Nat \ {0}
  BY <1>1, PopStack
<1>3. ASSUME NEW i \in 1 .. Len(checks')
      PROVE  i \in 1 .. Len(checks) /\ i < Len(checks) /\ checks'[i] = checks[i]
  BY <1>2
<1> QED BY <1>1, <1>2, <1>3, SMTT(40) DEF WaitingAtAuth, Holds, Authenticated

LEMMA NextRuleKeepsWaiting ==
    ASSUME TypeOK, WaitingAtAuth, checks # <<>>, checks' = NextRule, reading' = FALSE, proved' = proved,
           Top.rule <= Len(RulesOf(Top.entry)), Holds(RuleInHand)
    PROVE  checks' \in Seq(CheckRecord) /\ WaitingAtAuth'
<1>1. /\ checks' \in Seq(CheckRecord)
      /\ Len(checks') = Len(checks)
      /\ Len(checks) \in Nat \ {0}
      /\ \A i \in 1 .. Len(checks) : i # Len(checks) => checks'[i] = checks[i]
  BY NextRuleStack
<1>2. \A rule : Holds(rule)' = Holds(rule)
  BY DEF Holds, Authenticated
<1>3. ASSUME NEW i \in 1 .. Len(checks), i # Len(checks)
      PROVE  checks'[i] = checks[i] /\ i < Len(checks)
  BY <1>1, <1>3
<1>4. /\ checks'[Len(checks)].entry = Top.entry
      /\ checks'[Len(checks)].rule = Top.rule + 1
      /\ Top \in CheckRecord
  BY NextRuleStack
<1>5. ASSUME NEW k \in 1 .. Len(RulesOf(Top.entry)), k < Top.rule + 1
      PROVE  Holds(RulesOf(Top.entry)[k])
  <2>1. Top.entry \in 1 .. Len(Config) /\ Top.rule \in Nat
    BY <1>4 DEF CheckRecord
  <2>2. k = Top.rule \/ k < Top.rule
    BY <1>5, <2>1, RulesType
  <2>3. Len(checks) \in 1 .. Len(checks)
    BY <1>1
  <2> QED BY <2>2, <2>3 DEF WaitingAtAuth, Top, RuleInHand
<1>6. ASSUME NEW i \in 1 .. Len(checks')
      PROVE  LET rules == RulesOf(checks'[i].entry) IN
             /\ i < Len(checks') => checks'[i].rule <= Len(rules) /\ rules[checks'[i].rule].tag = "auth"
             /\ \A k \in 1 .. Len(rules) : k < checks'[i].rule => Holds(rules[k])
  <2>1. CASE i = Len(checks)
    BY <1>1, <1>4, <1>5, <2>1
  <2>2. CASE i # Len(checks)
    BY <1>1, <1>3, <2>2 DEF WaitingAtAuth
  <2> QED BY <2>1, <2>2
<1> QED BY <1>1, <1>2, <1>6 DEF WaitingAtAuth

LEMMA PushKeepsWaiting ==
    ASSUME TypeOK, WaitingAtAuth, reading, NEW e \in CheckRecord, e.rule = 1,
           checks' = Append(checks, e), reading' = FALSE, proved' = proved
    PROVE  checks' \in Seq(CheckRecord) /\ WaitingAtAuth'
<1>1. /\ checks' \in Seq(CheckRecord)
      /\ Len(checks') = Len(checks) + 1
      /\ Len(checks) \in Nat
      /\ \A i \in 1 .. Len(checks) : checks'[i] = checks[i]
      /\ checks'[Len(checks) + 1] = e
  BY PushStack
<1>2. \A rule : Holds(rule)' = Holds(rule)
  BY DEF Holds, Authenticated
<1>3. ASSUME NEW i \in 1 .. Len(checks')
      PROVE  LET rules == RulesOf(checks'[i].entry) IN
             /\ i < Len(checks') => checks'[i].rule <= Len(rules) /\ rules[checks'[i].rule].tag = "auth"
             /\ \A k \in 1 .. Len(rules) : k < checks'[i].rule => Holds(rules[k])
  <2>1. CASE i = Len(checks) + 1
    <3>1. e.entry \in 1 .. Len(Config)
      BY DEF CheckRecord
    <3> QED BY <1>1, <2>1, <3>1, RulesType
  <2>2. CASE i # Len(checks) + 1
    <3>1. i \in 1 .. Len(checks) /\ checks'[i] = checks[i]
      BY <1>1, <2>2
    <3> QED BY <3>1 DEF WaitingAtAuth
  <2> QED BY <2>1, <2>2
<1> QED BY <1>1, <1>2, <1>3 DEF WaitingAtAuth

\* While the stack stands, one more success only makes more rules hold.
LEMMA StackKeepsWaiting ==
    ASSUME WaitingAtAuth, checks' = checks, proved \subseteq proved', reading' => reading \/ checks = <<>>
    PROVE  WaitingAtAuth'
<1>1. \A rule : Holds(rule) => Holds(rule)'
  BY DEF Holds, Authenticated
<1>2. checks # <<>> => (reading' => reading)
  OBVIOUS
<1>3. checks = <<>> => Len(checks) = 0
  OBVIOUS
<1> QED BY <1>1, <1>2, <1>3 DEF WaitingAtAuth

-------------------------------------------------------------------------------
(* The entries checks go by, one lemma for each way the stack changes. *)

LEMMA SameStackFirst ==
    ASSUME FirstInv, checks' = checks, program' = program
    PROVE  FirstInv'
  BY DEF FirstInv, IsFirst, Candidates

LEMMA ReturnKeepsFirst ==
    ASSUME TypeOK, FirstInv, checks # <<>>, Return, program' = program
    PROVE  FirstInv'
<1>1. /\ Len(checks') = Len(checks) - 1 /\ Len(checks) \in Nat
      /\ \A i \in 1 .. Len(checks') : checks'[i] = checks[i]
  BY PopStack DEF Return
<1>2. \A i \in 1 .. Len(checks') : i \in 1 .. Len(checks) /\ checks'[i] = checks[i]
  BY <1>1
<1> QED BY <1>2 DEF FirstInv, IsFirst, Candidates

LEMMA NextRuleKeepsFirst ==
    ASSUME TypeOK, FirstInv, checks # <<>>, checks' = NextRule, program' = program
    PROVE  FirstInv'
<1>1. /\ Len(checks') = Len(checks) /\ Len(checks) \in Nat \ {0}
      /\ \A i \in 1 .. Len(checks) : i # Len(checks) => checks'[i] = checks[i]
      /\ checks'[Len(checks)].cmd = Top.cmd /\ checks'[Len(checks)].entry = Top.entry
  BY NextRuleStack
<1>2. \A i \in 1 .. Len(checks') : checks'[i].cmd = checks[i].cmd /\ checks'[i].entry = checks[i].entry
  BY <1>1 DEF Top
<1> QED BY <1>1, <1>2 DEF FirstInv, IsFirst, Candidates

LEMMA PushKeepsFirst ==
    ASSUME TypeOK, FirstInv, NEW e \in CheckRecord, checks' = Append(checks, e), program' = program,
           IsFirst(e.entry, Candidates(e.cmd))
    PROVE  FirstInv'
<1>1. /\ Len(checks') = Len(checks) + 1 /\ Len(checks) \in Nat
      /\ \A i \in 1 .. Len(checks) : checks'[i] = checks[i]
      /\ checks'[Len(checks) + 1] = e
  BY PushStack
<1>2. ASSUME NEW i \in 1 .. Len(checks') PROVE i \in 1 .. Len(checks) \/ checks'[i] = e
  BY <1>1
<1> QED BY <1>1, <1>2 DEF FirstInv, IsFirst, Candidates

-------------------------------------------------------------------------------
(* The permission part of the invariant. *)

LEMMA InitPermission == Init => PermissionInv
<1> SUFFICES ASSUME Init PROVE PermissionInv
  OBVIOUS
<1>1. Len(checks) = 0 /\ checks \in Seq(CheckRecord)
  BY EmptySeq DEF Init
<1> QED
  BY <1>1, RequestsAssumption
  DEF Init, PermissionInv, TypeOK, ProvedInv, WaitingAtAuth, FirstInv, OnlyPermitted, CheckRecord

\* An AUTH line is checked against services that may be asked for.
LEMMA AuthTypesKnown ==
    ASSUME TypeOK, WaitingAtAuth, reading, checks # <<>>
    PROVE  RuleInHand \in Rule /\ RuleInHand.tag = "auth" /\ RuleInHand.types \in AuthTypes
           /\ Top.rule <= Len(RulesOf(Top.entry))
<1>1. Top \in CheckRecord /\ Len(checks) \in 1 .. Len(checks)
  BY PopStack
<1>2. /\ Top.rule <= Len(RulesOf(Top.entry))
      /\ RuleInHand.tag = "auth"
  BY <1>1 DEF WaitingAtAuth, Top, RuleInHand
<1>3. RulesOf(Top.entry) \in Seq(Rule) /\ Top.rule \in 1 .. Len(RulesOf(Top.entry))
  BY <1>1, <1>2, RulesType DEF CheckRecord
<1>4. RuleInHand \in Rule
  BY <1>3, ElementOfSeq DEF RuleInHand
<1> QED BY <1>2, <1>4 DEF Rule

\* The entry RunInvoke finds is the one FindPermission went by, or comes after
\* it; in that case the latter is named like the program.
LEMMA FirstNamed ==
    ASSUME NEW c, NEW k, NEW e, IsFirst(k, Candidates(c)), IsFirst(e, Named(c))
    PROVE  e = k \/ (k < e /\ Config[k].name \in program)
<1>1. e \in Candidates(c) /\ k \in 1 .. Len(Config) /\ e \in 1 .. Len(Config)
  BY DEF IsFirst, Named, Candidates
<1>2. k <= e
  BY <1>1 DEF IsFirst
<1>3. CASE Config[k].name = c
  <2>1. e <= k
    BY <1>1, <1>3 DEF IsFirst, Named
  <2> QED BY <1>1, <1>2, <2>1
<1>4. CASE Config[k].name \in program
  BY <1>1, <1>2, <1>4
<1> QED BY <1>3, <1>4 DEF IsFirst, Candidates

\* What a run adds to the history.
LEMMA RunAllowed ==
    ASSUME TypeOK, OnlyPermitted, program' = program,
           NEW n \in Nat, NEW verb \in Verbs, NEW c \in Names, NEW k \in 1 .. Len(Config),
           Run(n, verb, c, k), IsFirst(k, Candidates(c)), c \in Granted \/ RulesHold(k, proved)
    PROVE  OnlyPermitted' /\ ran' \in SUBSET RunRecord /\ dropped' \in SUBSET Nat
<1>1. CASE UNCHANGED ran /\ dropped' = dropped \cup {n}
  BY <1>1 DEF TypeOK, RunRecord, OnlyPermitted
<1>2. ASSUME NEW e \in 0 .. Len(Config), UNCHANGED dropped,
             ran' = ran \cup {[n |-> n, verb |-> verb, cmd |-> c, checked |-> k, entry |-> e, proved |-> proved]},
             verb = "INVOKE" => IsFirst(e, Named(c))
      PROVE  OnlyPermitted' /\ ran' \in SUBSET RunRecord /\ dropped' \in SUBSET Nat
  <2> DEFINE new == [n |-> n, verb |-> verb, cmd |-> c, checked |-> k, entry |-> e, proved |-> proved]
  <2>1. new \in RunRecord /\ ran \in SUBSET RunRecord
    BY DEF TypeOK, RunRecord
  <2>2. new.verb = verb /\ new.cmd = c /\ new.checked = k /\ new.entry = e /\ new.proved = proved
    OBVIOUS
  <2>3. verb = "INVOKE" => e = k \/ (k < e /\ Config[k].name \in program)
    BY <1>2, FirstNamed
  <2>4. ran' = ran \cup {new} /\ dropped' \in SUBSET Nat
    BY <1>2 DEF TypeOK
  <2> HIDE DEF new
  <2>5. OnlyPermitted'
    BY <2>2, <2>3, <2>4 DEF OnlyPermitted
  <2> QED BY <2>1, <2>4, <2>5
<1>3. CASE verb = "EXEC"
  BY <1>2, <1>3, RequestsAssumption, LenProperties DEF Run
<1>4. CASE verb = "INVOKE" /\ Named(c) # {}
  <2>1. PICK e \in Named(c) :
            /\ IsFirst(e, Named(c))
            /\ ran' = ran \cup {[n |-> n, verb |-> verb, cmd |-> c, checked |-> k, entry |-> e, proved |-> proved]}
            /\ UNCHANGED dropped
    BY <1>4 DEF Run
  <2>2. e \in 0 .. Len(Config)
    BY DEF Named
  <2> QED BY <1>2, <2>1, <2>2
<1>5. CASE verb = "INVOKE" /\ Named(c) = {}
  BY <1>1, <1>5 DEF Run
<1> QED BY <1>3, <1>4, <1>5 DEF Verbs

LEMMA RefusedType ==
    ASSUME TypeOK, checks # <<>>, Refuse
    PROVE  refused' \in SUBSET Nat
<1>1. Top.n \in Nat
  BY PopStack DEF CheckRecord
<1> QED BY <1>1 DEF Refuse, TypeOK

LEMMA NextPermission == PermissionInv /\ [Next]_vars => PermissionInv'
<1> SUFFICES ASSUME PermissionInv, [Next]_vars PROVE PermissionInv'
  OBVIOUS
<1> USE DEF PermissionInv
<1>1. /\ checks \in Seq(CheckRecord)
      /\ ran \in SUBSET RunRecord
      /\ (TypeOK' <=> /\ program' \in Programs
                      /\ checks' \in Seq(CheckRecord)
                      /\ reading' \in BOOLEAN
                      /\ proved' \in SUBSET AuthTypes
                      /\ lines' \in 0 .. MaxLines
                      /\ asked' \in Nat /\ refused' \in SUBSET Nat
                      /\ dropped' \in SUBSET Nat /\ ran' \in SUBSET RunRecord)
  BY DEF TypeOK, CheckRecord, RunRecord
<1>2. ReadLine => reading /\ lines' \in 0 .. MaxLines
  BY RequestsAssumption DEF TypeOK, ReadLine
<1>3. Listening(checks) \in BOOLEAN /\ (Listening(checks) => reading \/ checks # <<>>)
  BY DEF Listening
<1>4. UNCHANGED <<program, ran>> => OnlyPermitted'
  BY DEF OnlyPermitted
<1>5. CASE Auth
  <2>1. proved \subseteq proved' /\ proved' \in SUBSET AuthTypes /\ proved' \subseteq Passes
    BY <1>5, <1>2, AuthTypesKnown, RequestsAssumption DEF Auth, TypeOK, ProvedInv
  <2>2. reading' => reading \/ checks = <<>>
    BY <1>5, <1>2 DEF Auth
  <2>3. WaitingAtAuth' /\ FirstInv'
    BY <1>5, <2>1, <2>2, StackKeepsWaiting, SameStackFirst DEF Auth
  <2> QED BY <1>1, <1>2, <1>3, <1>4, <1>5, <2>1, <2>3 DEF Auth, TypeOK, ProvedInv
<1>6. CASE Ignore
  <2>1. WaitingAtAuth' /\ FirstInv'
    BY <1>6, <1>2, StackKeepsWaiting, SameStackFirst DEF Ignore
  <2> QED BY <1>1, <1>2, <1>3, <1>4, <1>6, <2>1 DEF Ignore, TypeOK, ProvedInv
<1>7. ASSUME NEW c \in Names, Unknown(c) PROVE PermissionInv'
  <2>1. WaitingAtAuth' /\ FirstInv'
    BY <1>7, <1>2, StackKeepsWaiting, SameStackFirst DEF Unknown
  <2>2. asked' \in Nat /\ refused' \in SUBSET Nat
    BY <1>7 DEF Unknown, TypeOK
  <2> QED BY <1>1, <1>2, <1>3, <1>4, <1>7, <2>1, <2>2 DEF Unknown, TypeOK, ProvedInv
<1>8. ASSUME NEW verb \in Verbs, NEW c \in Names, ByGrant(verb, c) PROVE PermissionInv'
  <2>1. WaitingAtAuth' /\ FirstInv'
    BY <1>8, <1>2, StackKeepsWaiting, SameStackFirst DEF ByGrant
  <2>2. asked' \in Nat
    BY <1>8 DEF ByGrant, TypeOK
  <2>3. OnlyPermitted' /\ ran' \in SUBSET RunRecord /\ dropped' \in SUBSET Nat
    BY <1>8, <2>2, RunAllowed DEF ByGrant
  <2> QED BY <1>1, <1>2, <1>3, <1>8, <2>1, <2>2, <2>3 DEF ByGrant, TypeOK, ProvedInv
<1>9. ASSUME NEW verb \in Verbs, NEW c \in Names, Check(verb, c) PROVE PermissionInv'
  <2>1. asked' \in Nat
    BY <1>9 DEF Check, TypeOK
  <2>2. PICK k \in 1 .. Len(Config) :
            /\ IsFirst(k, Candidates(c))
            /\ checks' = Append(checks, [verb |-> verb, cmd |-> c, entry |-> k, rule |-> 1, n |-> asked'])
    BY <1>9 DEF Check
  <2>3. [verb |-> verb, cmd |-> c, entry |-> k, rule |-> 1, n |-> asked'] \in CheckRecord
    BY <2>1 DEF CheckRecord
  <2>4. checks' \in Seq(CheckRecord) /\ WaitingAtAuth'
    BY <1>9, <1>2, <2>2, <2>3, PushKeepsWaiting DEF Check
  <2>5. FirstInv'
    BY <1>9, <2>2, <2>3, PushKeepsFirst DEF Check
  <2> QED BY <1>1, <1>2, <1>4, <1>9, <2>1, <2>4, <2>5 DEF Check, TypeOK, ProvedInv
<1>10. CASE NoLine
  <2>1. CASE checks = <<>> /\ reading' = FALSE /\ UNCHANGED <<checks, refused, dropped, ran>>
    <3>1. WaitingAtAuth' /\ FirstInv'
      BY <1>10, <2>1, StackKeepsWaiting, SameStackFirst DEF NoLine
    <3> QED BY <1>1, <1>4, <1>10, <2>1, <3>1 DEF NoLine, TypeOK, ProvedInv
  <2>2. CASE checks # <<>> /\ Authenticated /\ reading' = FALSE /\ checks' = NextRule /\ UNCHANGED <<refused, dropped, ran>>
    <3>1. Holds(RuleInHand)
      BY <1>10, <2>2, AuthTypesKnown DEF NoLine, Holds
    <3>2. checks' \in Seq(CheckRecord) /\ WaitingAtAuth' /\ FirstInv'
      BY <1>10, <2>2, <3>1, AuthTypesKnown, NextRuleKeepsWaiting, NextRuleKeepsFirst DEF NoLine
    <3> QED BY <1>1, <1>4, <1>10, <2>2, <3>2 DEF NoLine, TypeOK, ProvedInv
  <2>3. CASE checks # <<>> /\ Refuse
    <3>1. checks' \in Seq(CheckRecord) /\ reading' \in BOOLEAN /\ WaitingAtAuth' /\ FirstInv'
      BY <1>10, <2>3, ReturnKeepsWaiting, ReturnKeepsFirst DEF NoLine, Refuse
    <3>2. refused' \in SUBSET Nat
      BY <2>3, RefusedType
    <3> QED BY <1>1, <1>4, <1>10, <2>3, <3>1, <3>2 DEF NoLine, Refuse, TypeOK, ProvedInv
  <2> QED BY <1>10, <2>1, <2>2, <2>3 DEF NoLine
<1>11. CASE RulePasses
  <2>1. checks' \in Seq(CheckRecord) /\ WaitingAtAuth' /\ FirstInv'
    BY <1>11, NextRuleKeepsWaiting, NextRuleKeepsFirst DEF RulePasses, AtRule, TypeOK
  <2> QED BY <1>1, <1>4, <1>11, <2>1 DEF RulePasses, TypeOK, ProvedInv
<1>12. CASE RuleFails
  <2>1. checks' \in Seq(CheckRecord) /\ reading' \in BOOLEAN /\ WaitingAtAuth' /\ FirstInv'
    BY <1>12, ReturnKeepsWaiting, ReturnKeepsFirst DEF RuleFails, Refuse, AtRule
  <2>2. refused' \in SUBSET Nat
    BY <1>12, RefusedType DEF RuleFails, AtRule
  <2> QED BY <1>1, <1>4, <1>12, <2>1, <2>2 DEF RuleFails, Refuse, TypeOK, ProvedInv
<1>13. CASE AskAuth
  <2>1. Len(checks) \in Nat
    BY <1>1, LenProperties
  <2>2. Top.rule <= Len(RulesOf(Top.entry)) /\ RulesOf(Top.entry)[Top.rule].tag = "auth"
    BY <1>13 DEF AskAuth, AtRule, RuleInHand
  <2>3. ASSUME NEW i \in 1 .. Len(checks)
        PROVE  i < Len(checks) \/ checks[i] = Top
    BY <2>1 DEF Top
  <2>4. WaitingAtAuth'
    BY <1>13, <2>1, <2>2, <2>3 DEF AskAuth, WaitingAtAuth, Holds, Authenticated
  <2>5. FirstInv'
    BY <1>13, SameStackFirst DEF AskAuth
  <2> QED BY <1>1, <1>4, <1>13, <2>4, <2>5 DEF AskAuth, TypeOK, ProvedInv
<1>14. CASE RulesEnd
  <2>1. CASE RulesOf(Top.entry) = <<>> /\ Refuse
    <3>1. checks' \in Seq(CheckRecord) /\ reading' \in BOOLEAN /\ WaitingAtAuth' /\ FirstInv'
      BY <1>14, <2>1, ReturnKeepsWaiting, ReturnKeepsFirst DEF RulesEnd, Refuse
    <3>2. refused' \in SUBSET Nat
      BY <1>14, <2>1, RefusedType DEF RulesEnd
    <3> QED BY <1>1, <1>4, <1>14, <2>1, <3>1, <3>2 DEF RulesEnd, Refuse, TypeOK, ProvedInv
  <2>2. CASE RulesOf(Top.entry) # <<>> /\ Run(Top.n, Top.verb, Top.cmd, Top.entry) /\ Return /\ UNCHANGED refused
    <3>1. checks' \in Seq(CheckRecord) /\ reading' \in BOOLEAN /\ WaitingAtAuth' /\ FirstInv'
      BY <1>14, <2>2, ReturnKeepsWaiting, ReturnKeepsFirst DEF RulesEnd
    <3>2. Top \in CheckRecord /\ Len(checks) \in 1 .. Len(checks)
      BY <1>14, PopStack DEF RulesEnd
    <3>3. Top.n \in Nat /\ Top.verb \in Verbs /\ Top.cmd \in Names /\ Top.entry \in 1 .. Len(Config) /\ Top.rule \in Nat
      BY <3>2 DEF CheckRecord
    <3>4. ASSUME NEW j \in 1 .. Len(RulesOf(Top.entry))
          PROVE  LET rule == RulesOf(Top.entry)[j]
                 IN  IF rule.tag = "list" THEN rule.holds ELSE proved \cap Passes # {}
      <4>1. j < Top.rule
        BY <1>14, <3>3, RulesType DEF RulesEnd
      <4>2. Holds(RulesOf(Top.entry)[j])
        BY <3>2, <4>1 DEF WaitingAtAuth, Top
      <4>3. Authenticated => proved \cap Passes # {}
        BY DEF Authenticated, ProvedInv
      <4> QED BY <4>2, <4>3, Zenon DEF Holds
    <3>5. RulesHold(Top.entry, proved) /\ IsFirst(Top.entry, Candidates(Top.cmd))
      BY <2>2, <3>2, <3>4 DEF RulesHold, FirstInv, Top
    <3>6. OnlyPermitted' /\ ran' \in SUBSET RunRecord /\ dropped' \in SUBSET Nat
      BY <1>14, <2>2, <3>3, <3>5, RunAllowed DEF RulesEnd
    <3> QED BY <1>1, <1>14, <2>2, <3>1, <3>6 DEF RulesEnd, TypeOK, ProvedInv
  <2> QED BY <1>14, <2>1, <2>2 DEF RulesEnd
<1>15. CASE UNCHANGED vars
  <2>1. WaitingAtAuth' /\ FirstInv'
    BY <1>15, StackKeepsWaiting, SameStackFirst DEF vars
  <2> QED BY <1>1, <1>4, <1>15, <2>1 DEF vars, TypeOK, ProvedInv
<1> QED
  BY <1>5, <1>6, <1>7, <1>8, <1>9, <1>10, <1>11, <1>12, <1>13, <1>14, <1>15 DEF Next, Handler, Done

\* What the stack of checks, the accounts tried and the commands run may hold.
THEOREM TypeCorrect == Spec => []TypeOK
<1>1. PermissionInv => TypeOK
  BY DEF PermissionInv
<1> QED BY <1>1, InitPermission, NextPermission, PTL DEF Spec

\* CheckPermission and CheckAuth: whatever a client asks in the middle of
\* whatever check, what is carried out was let through by a grant or by an entry
\* whose rules all hold, and it is that entry but for one case: it is named like
\* the program and comes before the entry of the command.
THEOREM OnlyPermittedRequests == Spec => []OnlyPermitted
<1>1. PermissionInv => OnlyPermitted
  BY DEF PermissionInv
<1> QED BY <1>1, InitPermission, NextPermission, PTL DEF Spec

\* CheckAuth: a check that waits for an AUTH line waits at an auth rule, with all
\* the rules before it holding.
THEOREM ChecksWaitAtAuth == Spec => []WaitingAtAuth
<1>1. PermissionInv => WaitingAtAuth
  BY DEF PermissionInv
<1> QED BY <1>1, InitPermission, NextPermission, PTL DEF Spec

-------------------------------------------------------------------------------
(* Every request is settled once. *)

SettledInv == TypeOK /\ EveryRequestSettled

\* The numbers of waiting checks, for each way the stack changes.
LEMMA WaitingSame ==
    ASSUME TypeOK, EveryRequestSettled, Len(checks') = Len(checks),
           \A i \in 1 .. Len(checks) : checks'[i].n = checks[i].n
    PROVE  /\ Waiting' = Waiting
           /\ \A i, j \in 1 .. Len(checks') : checks'[i].n = checks'[j].n => i = j
<1>1. \A i, j \in 1 .. Len(checks) : checks[i].n = checks[j].n => i = j
  BY DEF EveryRequestSettled
<1> QED BY <1>1 DEF Waiting

LEMMA WaitingPop ==
    ASSUME TypeOK, EveryRequestSettled, checks # <<>>, checks' = Pop
    PROVE  /\ Top.n \in Waiting
           /\ Waiting' = Waiting \ {Top.n}
           /\ \A i, j \in 1 .. Len(checks') : checks'[i].n = checks'[j].n => i = j
<1>1. /\ Len(checks') = Len(checks) - 1 /\ Len(checks) \in Nat \ {0}
      /\ \A i \in 1 .. Len(checks') : checks'[i] = checks[i]
  BY PopStack
<1>2. \A i, j \in 1 .. Len(checks) : checks[i].n = checks[j].n => i = j
  BY DEF EveryRequestSettled
<1>3. Len(checks) \in 1 .. Len(checks)
  BY <1>1
<1>4. ASSUME NEW i \in 1 .. Len(checks), i # Len(checks)
      PROVE  i \in 1 .. Len(checks') /\ checks[i].n # Top.n
  BY <1>1, <1>2, <1>3, <1>4 DEF Top
<1>5. ASSUME NEW i \in 1 .. Len(checks')
      PROVE  i \in 1 .. Len(checks) /\ i # Len(checks) /\ checks'[i].n = checks[i].n
  BY <1>1
<1>6. Waiting' = {checks'[i].n : i \in 1 .. Len(checks')}
  BY DEF Waiting
<1>7. Waiting' = Waiting \ {Top.n}
  BY <1>3, <1>4, <1>5, <1>6 DEF Waiting, Top
<1>8. Top.n \in Waiting
  BY <1>3 DEF Waiting, Top
<1>9. \A i, j \in 1 .. Len(checks') : checks'[i].n = checks'[j].n => i = j
  BY <1>2, <1>5
<1> QED BY <1>7, <1>8, <1>9

LEMMA WaitingPush ==
    ASSUME TypeOK, EveryRequestSettled, NEW e \in CheckRecord, checks' = Append(checks, e), e.n \notin Waiting
    PROVE  /\ Waiting' = Waiting \cup {e.n}
           /\ \A i, j \in 1 .. Len(checks') : checks'[i].n = checks'[j].n => i = j
<1>1. /\ Len(checks') = Len(checks) + 1 /\ Len(checks) \in Nat
      /\ \A i \in 1 .. Len(checks) : checks'[i] = checks[i]
      /\ checks'[Len(checks) + 1] = e
  BY PushStack
<1>2. ASSUME NEW i \in 1 .. Len(checks')
      PROVE  \/ i \in 1 .. Len(checks) /\ checks'[i].n = checks[i].n /\ checks'[i].n # e.n
             \/ i = Len(checks) + 1 /\ checks'[i].n = e.n
  BY <1>1 DEF Waiting
<1>3. \A i \in 1 .. Len(checks) : i \in 1 .. Len(checks')
  BY <1>1
<1>4. Len(checks) + 1 \in 1 .. Len(checks')
  BY <1>1
<1>5. Waiting' = {checks'[i].n : i \in 1 .. Len(checks')}
  BY DEF Waiting
<1>6. Waiting' = Waiting \cup {e.n}
  BY <1>1, <1>2, <1>3, <1>4, <1>5 DEF Waiting
<1>7. \A i, j \in 1 .. Len(checks') : checks'[i].n = checks'[j].n => i = j
  BY <1>2 DEF EveryRequestSettled
<1> QED BY <1>6, <1>7

\* A request that is let through is carried out or dropped.
LEMMA RunSettles ==
    ASSUME NEW n, NEW verb, NEW c, NEW k, Run(n, verb, c, k), n \notin CarriedOut,
           \A r, q \in ran : r.n = q.n => r = q
    PROVE  /\ \/ CarriedOut' = CarriedOut \cup {n} /\ dropped' = dropped
              \/ CarriedOut' = CarriedOut /\ dropped' = dropped \cup {n}
           /\ \A r, q \in ran' : r.n = q.n => r = q
<1>1. CASE UNCHANGED ran /\ dropped' = dropped \cup {n}
  BY <1>1 DEF CarriedOut
<1>2. ASSUME NEW new, new.n = n, ran' = ran \cup {new}, UNCHANGED dropped
      PROVE  /\ CarriedOut' = CarriedOut \cup {n} /\ dropped' = dropped
             /\ \A r, q \in ran' : r.n = q.n => r = q
  BY <1>2 DEF CarriedOut
<1>3. ASSUME NEW e, UNCHANGED dropped,
             ran' = ran \cup {[n |-> n, verb |-> verb, cmd |-> c, checked |-> k, entry |-> e, proved |-> proved]}
      PROVE  /\ CarriedOut' = CarriedOut \cup {n} /\ dropped' = dropped
             /\ \A r, q \in ran' : r.n = q.n => r = q
  BY <1>2, <1>3
<1>4. \/ UNCHANGED ran /\ dropped' = dropped \cup {n}
      \/ \E e : /\ UNCHANGED dropped
               /\ ran' = ran \cup {[n |-> n, verb |-> verb, cmd |-> c, checked |-> k, entry |-> e, proved |-> proved]}
  BY DEF Run
<1> QED BY <1>1, <1>3, <1>4

\* The check in hand is refused.
LEMMA RefuseSettles ==
    ASSUME SettledInv, checks # <<>>, Refuse, asked' = asked
    PROVE  EveryRequestSettled'
<1>1. /\ Top.n \in Waiting /\ Waiting' = Waiting \ {Top.n}
      /\ \A i, j \in 1 .. Len(checks') : checks'[i].n = checks'[j].n => i = j
  BY WaitingPop DEF SettledInv, Refuse, Return
<1>2. refused' = refused \cup {Top.n} /\ dropped' = dropped /\ ran' = ran /\ CarriedOut' = CarriedOut
  BY DEF Refuse, CarriedOut
<1> QED BY <1>1, <1>2 DEF SettledInv, EveryRequestSettled

\* Steps that leave the stack's numbers, and settle nothing.
LEMMA StackSettles ==
    ASSUME SettledInv, UNCHANGED <<asked, refused, dropped, ran>>, Len(checks') = Len(checks),
           \A i \in 1 .. Len(checks) : checks'[i].n = checks[i].n
    PROVE  EveryRequestSettled'
<1>1. /\ Waiting' = Waiting
      /\ \A i, j \in 1 .. Len(checks') : checks'[i].n = checks'[j].n => i = j
  BY WaitingSame DEF SettledInv
<1>2. CarriedOut' = CarriedOut
  BY DEF CarriedOut
<1> QED BY <1>1, <1>2 DEF SettledInv, EveryRequestSettled

\* The number of a new request is the next one, and nobody else's.
LEMMA NewNumber ==
    ASSUME SettledInv, asked' = asked + 1
    PROVE  /\ asked \in Nat
           /\ 1 .. asked' = (1 .. asked) \cup {asked'}
           /\ asked' \notin refused \cup dropped \cup CarriedOut \cup Waiting
<1>1. asked \in Nat /\ asked' = asked + 1
  BY DEF SettledInv, TypeOK
<1>2. 1 .. asked' = (1 .. asked) \cup {asked'} /\ asked' \notin 1 .. asked
  BY <1>1
<1> QED BY <1>1, <1>2 DEF SettledInv, EveryRequestSettled

LEMMA NextSettled == SettledInv /\ [Next]_vars => EveryRequestSettled'
<1> SUFFICES ASSUME SettledInv, [Next]_vars PROVE EveryRequestSettled'
  OBVIOUS
<1>1. ASSUME NEW verb \in Verbs, NEW c \in Names, ByGrant(verb, c) PROVE EveryRequestSettled'
  <2>1. asked' = asked + 1 /\ checks' = checks /\ refused' = refused
    BY <1>1 DEF ByGrant
  <2>2. PICK k \in 1 .. Len(Config) : Run(asked', verb, c, k)
    BY <1>1 DEF ByGrant
  <2>3. PICK n : n = asked'
    OBVIOUS
  <2>4. /\ \/ CarriedOut' = CarriedOut \cup {n} /\ dropped' = dropped
           \/ CarriedOut' = CarriedOut /\ dropped' = dropped \cup {n}
        /\ \A r, q \in ran' : r.n = q.n => r = q
    BY <2>1, <2>2, <2>3, NewNumber, RunSettles DEF SettledInv, EveryRequestSettled
  <2>5. /\ Waiting' = Waiting
        /\ \A i, j \in 1 .. Len(checks') : checks'[i].n = checks'[j].n => i = j
    BY <2>1, WaitingSame DEF SettledInv
  <2> QED BY <2>1, <2>3, <2>4, <2>5, NewNumber DEF SettledInv, EveryRequestSettled
<1>2. ASSUME NEW verb \in Verbs, NEW c \in Names, Check(verb, c) PROVE EveryRequestSettled'
  <2>1. asked' = asked + 1 /\ UNCHANGED <<refused, dropped, ran>>
    BY <1>2 DEF Check
  <2>2. PICK k \in 1 .. Len(Config) :
            checks' = Append(checks, [verb |-> verb, cmd |-> c, entry |-> k, rule |-> 1, n |-> asked'])
    BY <1>2 DEF Check
  <2>3. PICK e : e = [verb |-> verb, cmd |-> c, entry |-> k, rule |-> 1, n |-> asked']
    OBVIOUS
  <2>4. e \in CheckRecord /\ e.n = asked' /\ checks' = Append(checks, e)
    BY <2>1, <2>2, <2>3, NewNumber DEF CheckRecord
  <2>5. /\ Waiting' = Waiting \cup {asked'}
        /\ \A i, j \in 1 .. Len(checks') : checks'[i].n = checks'[j].n => i = j
    BY <2>1, <2>4, NewNumber, WaitingPush DEF SettledInv
  <2>6. CarriedOut' = CarriedOut
    BY <2>1 DEF CarriedOut
  <2> QED BY <2>1, <2>5, <2>6, NewNumber DEF SettledInv, EveryRequestSettled
<1>3. ASSUME NEW c \in Names, Unknown(c) PROVE EveryRequestSettled'
  <2>1. asked' = asked + 1 /\ refused' = refused \cup {asked'} /\ UNCHANGED <<checks, dropped, ran>>
    BY <1>3 DEF Unknown
  <2>2. /\ Waiting' = Waiting /\ CarriedOut' = CarriedOut
        /\ \A i, j \in 1 .. Len(checks') : checks'[i].n = checks'[j].n => i = j
    BY <2>1, WaitingSame DEF SettledInv, CarriedOut
  <2> QED BY <2>1, <2>2, NewNumber DEF SettledInv, EveryRequestSettled
<1>4. Auth \/ Ignore \/ AskAuth \/ UNCHANGED vars => EveryRequestSettled'
  BY StackSettles DEF Auth, Ignore, AskAuth, vars
<1>5. checks # <<>> /\ checks' = NextRule /\ UNCHANGED <<asked, refused, dropped, ran>> => EveryRequestSettled'
  <2> SUFFICES ASSUME checks # <<>>, checks' = NextRule, UNCHANGED <<asked, refused, dropped, ran>>
               PROVE  EveryRequestSettled'
    OBVIOUS
  <2>1. /\ Len(checks') = Len(checks)
        /\ \A i \in 1 .. Len(checks) : i # Len(checks) => checks'[i] = checks[i]
        /\ checks'[Len(checks)].n = Top.n
    BY NextRuleStack DEF SettledInv
  <2>2. ASSUME NEW i \in 1 .. Len(checks) PROVE checks'[i].n = checks[i].n
    BY <2>1 DEF Top
  <2> QED BY <2>1, <2>2, StackSettles
<1>6. NoLine => EveryRequestSettled'
  BY <1>5, RefuseSettles, StackSettles DEF NoLine
<1>7. RulePasses => EveryRequestSettled'
  BY <1>5 DEF RulePasses, AtRule
<1>8. RuleFails => EveryRequestSettled'
  BY RefuseSettles DEF RuleFails, AtRule
<1>9. RulesEnd => EveryRequestSettled'
  <2> SUFFICES ASSUME RulesEnd, Run(Top.n, Top.verb, Top.cmd, Top.entry), Return, UNCHANGED refused
               PROVE  EveryRequestSettled'
    BY RefuseSettles DEF RulesEnd
  <2>1. asked' = asked /\ refused' = refused /\ checks # <<>> /\ checks' = Pop
    BY DEF RulesEnd, Return
  <2>2. /\ Top.n \in Waiting /\ Waiting' = Waiting \ {Top.n}
        /\ \A i, j \in 1 .. Len(checks') : checks'[i].n = checks'[j].n => i = j
    BY <2>1, WaitingPop DEF SettledInv
  <2>3. Top.n \notin CarriedOut
    BY <2>2 DEF SettledInv, EveryRequestSettled
  <2>4. /\ \/ CarriedOut' = CarriedOut \cup {Top.n} /\ dropped' = dropped
           \/ CarriedOut' = CarriedOut /\ dropped' = dropped \cup {Top.n}
        /\ \A r, q \in ran' : r.n = q.n => r = q
    BY <2>3, RunSettles DEF SettledInv, EveryRequestSettled
  <2> QED BY <2>1, <2>2, <2>4 DEF SettledInv, EveryRequestSettled
<1> QED
  BY <1>1, <1>2, <1>3, <1>4, <1>6, <1>7, <1>8, <1>9 DEF Next, Handler, Done

LEMMA InitSettled == Init => EveryRequestSettled
<1> SUFFICES ASSUME Init PROVE EveryRequestSettled
  OBVIOUS
<1>1. checks = <<>> /\ Len(checks) = 0 /\ 1 .. asked = {}
  BY EmptySeq DEF Init
<1>2. Waiting = {} /\ CarriedOut = {}
  BY <1>1 DEF Init, Waiting, CarriedOut
<1> QED BY <1>1, <1>2 DEF Init, EveryRequestSettled

\* HandleInvoke and HandleExec: every request is refused, carried out or dropped,
\* one of the three and once, however requests nest in the waits of others.
THEOREM RequestsSettled == Spec => []EveryRequestSettled
<1>1. PermissionInv => TypeOK
  BY DEF PermissionInv
<1>2. TypeOK /\ EveryRequestSettled => SettledInv
  BY DEF SettledInv
<1> QED BY <1>1, <1>2, InitPermission, NextPermission, InitSettled, NextSettled, PTL DEF Spec

===============================================================================
