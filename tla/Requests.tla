------------------------------- MODULE Requests -------------------------------
(***************************************************************************)
(* Requests and permissions in a handler of invoked (server.c), for a      *)
(* client that may send any lines.  HandleClientRequest answers one line;  *)
(* an auth rule calls it again in a loop from within CheckPermission, so a *)
(* client asked to authenticate may send further requests instead, each    *)
(* with a permission check of its own inside the one that is waiting.      *)
(* What carrying out an entry's items does is module Session.              *)
(***************************************************************************)
EXTENDS Naturals, Sequences, FiniteSets

CONSTANTS
    Names,        \* what entries, commands and programs are called
    AuthTypes,    \* the arguments of auth rules: lists of PAM services
    Login,        \* the services of an AUTH line no rule asked for
    Config,       \* the configuration, a sequence of entries with name and rules
    Programs,     \* for each program that may connect, its path and the last part of it
    Granted,      \* commands clients.db grants to the peer's program
    Passes,       \* of these, the lists for which AuthPAM may report success
    MaxLines      \* bound: lines the client sends

\* A user, group or program rule holds of the peer or does not.
Rule == [tag : {"list"}, holds : BOOLEAN] \cup [tag : {"auth"}, types : AuthTypes]

Verbs == {"INVOKE", "EXEC"}

ASSUME RequestsAssumption ==
    /\ Config \in Seq([name : Names, rules : Seq(Rule)])
    /\ Programs \subseteq SUBSET Names
    /\ Login \in AuthTypes
    /\ MaxLines \in Nat

VARIABLES
    program,      \* the peer's program
    checks,       \* permission checks in progress, the innermost last
    reading,      \* HandleClientRequest is waiting for a line
    proved,       \* the lists it has reported success for; PEER_AUTHENTICATED is "not empty"
    lines,        \* lines read
    asked,        \* history: INVOKE and EXEC lines read
    refused,      \* history: of those, by number, answered FAIL: Not authorized
    dropped,      \* history: of those, let through with nothing to carry out
    ran           \* history: of those, carried out, with proved at that moment

vars == <<program, checks, reading, proved, lines, asked, refused, dropped, ran>>

Authenticated == proved # {}
Over == checks = <<>> /\ ~ reading

Top == checks[Len(checks)]
Pop == SubSeq(checks, 1, Len(checks) - 1)
NextRule == [checks EXCEPT ![Len(checks)].rule = @ + 1]

\* FindPermission goes by the first entry named like the command, the peer's
\* program or its basename.
Candidates(c) == {k \in 1 .. Len(Config) : Config[k].name \in {c} \cup program}

\* RunInvoke searches once more, by the command only.
Named(c) == {k \in 1 .. Len(Config) : Config[k].name = c}

IsFirst(k, S) == k \in S /\ \A j \in S : k <= j

RulesOf(k) == Config[k].rules
RuleInHand == RulesOf(Top.entry)[Top.rule]

Init ==
    /\ program \in Programs
    /\ checks = <<>>
    /\ reading = TRUE
    /\ proved = {}
    /\ lines = 0
    /\ asked = 0
    /\ refused = {}
    /\ dropped = {}
    /\ ran = {}

-------------------------------------------------------------------------------
(* HandleClientRequest: a line arrives. *)

ReadLine ==
    /\ reading
    /\ lines < MaxLines
    /\ lines' = lines + 1

\* The loop in CheckAuth reads on after every line; the one request of
\* HandleClient is followed by the end.
Listening(stack) == stack # <<>>

\* The check in hand is over, and with it the call of HandleClientRequest.
Return == checks' = Pop /\ reading' = Listening(Pop)

\* What is let through by entry k.  HandleExec runs the line it was given, which
\* no entry describes (0).  HandleInvoke carries out the first entry named like
\* the command; when there is none nothing is run, and nothing answered.
Run(n, verb, c, k) ==
    LET Carry(e) == ran' = ran \cup {[n |-> n, verb |-> verb, cmd |-> c, checked |-> k,
                                      entry |-> e, proved |-> proved]}
    IN  \/ verb = "EXEC" /\ Carry(0) /\ UNCHANGED dropped
        \/ /\ verb = "INVOKE"
           /\ \E e \in Named(c) : IsFirst(e, Named(c)) /\ Carry(e)
           /\ UNCHANGED dropped
        \/ /\ verb = "INVOKE" /\ Named(c) = {}
           /\ dropped' = dropped \cup {n}
           /\ UNCHANGED ran

\* An AUTH line is checked against the services of the rule that asked for it.
Auth ==
    /\ ReadLine
    /\ LET types == IF checks = <<>> THEN Login ELSE RuleInHand.types
       IN  \/ types \in Passes /\ proved' = proved \cup {types}
           \/ UNCHANGED proved
    /\ reading' = Listening(checks)
    /\ UNCHANGED <<program, checks, asked, refused, dropped, ran>>

\* INVOKE or EXEC of a command for which there is no entry to go by.
Unknown(c) ==
    /\ ReadLine
    /\ Candidates(c) = {}
    /\ asked' = asked + 1
    /\ refused' = refused \cup {asked'}
    /\ reading' = Listening(checks)
    /\ UNCHANGED <<program, checks, proved, dropped, ran>>

\* With a grant for the command no rule is looked at.
ByGrant(verb, c) ==
    /\ ReadLine
    /\ c \in Granted
    /\ asked' = asked + 1
    /\ \E k \in 1 .. Len(Config) : IsFirst(k, Candidates(c)) /\ Run(asked', verb, c, k)
    /\ reading' = Listening(checks)
    /\ UNCHANGED <<program, checks, proved, refused>>

\* Mutated form: the rules are counted from 0.
Check_FromZero(verb, c) ==
    /\ ReadLine
    /\ c \notin Granted
    /\ asked' = asked + 1
    /\ \E k \in 1 .. Len(Config) :
         /\ IsFirst(k, Candidates(c))
         /\ checks' = Append(checks, [verb |-> verb, cmd |-> c, entry |-> k,
                                     rule |-> 0, n |-> asked'])
    /\ reading' = FALSE
    /\ UNCHANGED <<program, proved, refused, dropped, ran>>

\* Otherwise the entry's rules have to be checked.
Check(verb, c) ==
    /\ ReadLine
    /\ c \notin Granted
    /\ asked' = asked + 1
    /\ \E k \in 1 .. Len(Config) :
         /\ IsFirst(k, Candidates(c))
         /\ checks' = Append(checks, [verb |-> verb, cmd |-> c, entry |-> k,
                                     rule |-> 1, n |-> asked'])
    /\ reading' = FALSE
    /\ UNCHANGED <<program, proved, refused, dropped, ran>>

\* Anything else on a line is ignored.
Ignore ==
    /\ ReadLine
    /\ reading' = Listening(checks)
    /\ UNCHANGED <<program, checks, proved, asked, refused, dropped, ran>>

\* Mutated form: silence ends the loop as if the client had authenticated.
NoLine_Passes ==
    /\ reading
    /\ reading' = FALSE
    /\ checks' = IF checks = <<>> THEN checks ELSE NextRule
    /\ UNCHANGED <<program, proved, lines, asked, refused, dropped, ran>>

\* Mutated form: a client that has not authenticated is asked again.
NoLine_AsksAgain ==
    /\ reading
    /\ reading' = (checks # <<>> /\ ~ Authenticated)
    /\ checks' = IF checks = <<>> \/ ~ Authenticated THEN checks
                 ELSE NextRule
    /\ UNCHANGED <<program, proved, lines, asked, refused, dropped, ran>>

\* Mutated form: the check in hand is given up without an answer.
Refuse_Silently == Return /\ UNCHANGED <<refused, dropped, ran>>

\* The check in hand fails: FAIL: Not authorized.
Refuse == refused' = refused \cup {Top.n} /\ Return /\ UNCHANGED <<dropped, ran>>

\* An empty line, 30 seconds of silence or the end of the connection: the loop
\* in CheckAuth is over, and the flag decides.
NoLine ==
    /\ reading
    /\ \/ checks = <<>> /\ reading' = FALSE /\ UNCHANGED <<checks, refused, dropped, ran>>
       \/ /\ checks # <<>> /\ Authenticated
          /\ reading' = FALSE
          /\ checks' = NextRule
          /\ UNCHANGED <<refused, dropped, ran>>
       \/ checks # <<>> /\ ~ Authenticated /\ Refuse
    /\ UNCHANGED <<program, proved, lines, asked>>

-------------------------------------------------------------------------------
(* CheckPermission: the rules of the innermost check, one after the other. *)

AtRule == checks # <<>> /\ ~ reading /\ Top.rule <= Len(RulesOf(Top.entry))

Holds(rule) == IF rule.tag = "list" THEN rule.holds ELSE Authenticated

RulePasses ==
    /\ AtRule
    /\ Holds(RuleInHand)
    /\ checks' = NextRule
    /\ UNCHANGED <<program, reading, proved, lines, asked, refused, dropped, ran>>

RuleFails ==
    /\ AtRule
    /\ RuleInHand.tag = "list" /\ ~ RuleInHand.holds
    /\ Refuse
    /\ UNCHANGED <<program, proved, lines, asked>>

\* CheckAuth writes AUTH and starts its loop.
AskAuth ==
    /\ AtRule
    /\ RuleInHand.tag = "auth" /\ ~ Authenticated
    /\ reading' = TRUE
    /\ UNCHANGED <<program, checks, proved, lines, asked, refused, dropped, ran>>

\* Mutated form: an entry without rules is open to everyone.
RulesEnd_Open ==
    /\ checks # <<>> /\ ~ reading
    /\ Top.rule > Len(RulesOf(Top.entry))
    /\ Run(Top.n, Top.verb, Top.cmd, Top.entry) /\ Return /\ UNCHANGED refused
    /\ UNCHANGED <<program, proved, lines, asked>>

\* All rules hold; without any the result is still FALSE.
RulesEnd ==
    /\ checks # <<>> /\ ~ reading
    /\ Top.rule > Len(RulesOf(Top.entry))
    /\ IF RulesOf(Top.entry) = <<>> THEN Refuse
       ELSE Run(Top.n, Top.verb, Top.cmd, Top.entry) /\ Return /\ UNCHANGED refused
    /\ UNCHANGED <<program, proved, lines, asked>>

-------------------------------------------------------------------------------

Done == Over /\ UNCHANGED vars

Handler ==
    \/ Auth \/ Ignore \/ NoLine
    \/ \E c \in Names : Unknown(c)
    \/ \E verb \in Verbs, c \in Names : ByGrant(verb, c) \/ Check(verb, c)
    \/ RulePasses \/ RuleFails \/ AskAuth \/ RulesEnd

Next == Handler \/ Done

Spec == Init /\ [][Next]_vars

\* The handler is scheduled, and no read waits longer than 30 seconds.
FairSpec == Spec /\ WF_vars(Handler)

-------------------------------------------------------------------------------

\* One type invariant for the module.
TypeOK ==
    /\ program \in Programs
    /\ checks \in Seq([verb : Verbs, cmd : Names, entry : 1 .. Len(Config), rule : Nat \ {0}, n : Nat])
    /\ reading \in BOOLEAN
    /\ proved \in SUBSET AuthTypes
    /\ lines \in 0 .. MaxLines
    /\ asked \in Nat
    /\ refused \in SUBSET Nat /\ dropped \in SUBSET Nat
    /\ ran \in SUBSET [n : Nat, verb : Verbs, cmd : Names, checked : 1 .. Len(Config),
                       entry : 0 .. Len(Config), proved : SUBSET AuthTypes]

\* All rules of entry k hold, an auth rule by an AUTH line for which AuthPAM
\* reported success before; no rules do not.  Which services that was for does not
\* matter to CheckAuth, which looks at the flag, although README.md:72 has an auth
\* rule ask for one of its own.
RulesHold(k, successes) ==
    /\ RulesOf(k) # <<>>
    /\ \A j \in 1 .. Len(RulesOf(k)) :
         LET rule == RulesOf(k)[j]
         IN  IF rule.tag = "list" THEN rule.holds ELSE successes \cap Passes # {}

\* Whatever is asked in the middle of whatever check: what is carried out has a
\* grant, or the rules of the entry FindPermission goes by all hold.  That entry
\* is the one RunInvoke carries out, unless it is named like the peer's program
\* and comes before: then the rules of the entry carried out, which README.md:66 has
\* the requestor meet, were not looked at.
OnlyPermitted ==
    \A r \in ran :
        /\ r.cmd \in Granted \/ RulesHold(r.checked, r.proved)
        /\ r.verb = "INVOKE" =>
             \/ r.entry = r.checked
             \/ r.checked < r.entry /\ Config[r.checked].name \in program

Waiting == {checks[i].n : i \in 1 .. Len(checks)}
CarriedOut == {r.n : r \in ran}

\* Every request ends in one of three ways, and only once, also those that come
\* while the check of another one waits for an AUTH line: refused, carried out, or
\* dropped, which is an INVOKE let through by the program's entry for a command
\* with no entry of its own.
EveryRequestSettled ==
    /\ refused \cup dropped \cup CarriedOut \cup Waiting = 1 .. asked
    /\ refused \cap dropped = {} /\ CarriedOut \cap Waiting = {}
    /\ (refused \cup dropped) \cap (CarriedOut \cup Waiting) = {}
    /\ \A r, q \in ran : r.n = q.n => r = q
    /\ \A i, j \in 1 .. Len(checks) : checks[i].n = checks[j].n => i = j

\* A check that waits while others are made inside it waits at an auth rule, for
\* rules that hold up to there: coming back to it skips and repeats nothing.
WaitingAtAuth ==
    \A i \in 1 .. Len(checks) :
        LET rules == RulesOf(checks[i].entry) IN
        /\ (i < Len(checks) \/ reading) =>
              /\ checks[i].rule <= Len(rules)
              /\ rules[checks[i].rule].tag = "auth"
        /\ \A k \in 1 .. Len(rules) : k < checks[i].rule => Holds(rules[k])

\* Nested as they may be, the loops that wait for an AUTH line all end, each with
\* the next 30 seconds of silence.
HandlerEnds == <>Over

===============================================================================
