-------------------------------- MODULE Command --------------------------------
(***************************************************************************)
(* One run item of an entry: RunCommand (server.c) spawns the command,     *)
(* holds the dialogue of its expect script with it (Expect.c) and passes   *)
(* the rest of its output to the client.  Handler and command are          *)
(* processes joined by two pipes; the command may print, read its input,   *)
(* hang or exit as it likes.                                               *)
(***************************************************************************)
EXTENDS Naturals, Sequences, FiniteSets

CONSTANTS
    Chars,        \* what a command prints
    Scripts,      \* scripts an entry may have: sequences of [kind, text]
    UsesExpect,   \* the item names its script with expect=
    Timed,        \* the item has a timeout=
    MaxOutput     \* bound: characters of its output that are kept

Dialog == [kind : {"expect", "optional", "fail", "end"}, text : Seq(Chars) \ {<<>>}]

\* A name that no script has is as good as a script without dialogs.
ASSUME CommandAssumption ==
    /\ Scripts \subseteq Seq(Dialog)
    /\ UsesExpect \in BOOLEAN /\ Timed \in BOOLEAN
    /\ MaxOutput \in Nat

VARIABLES
    script,       \* the script of the item
    pc, told,     \* the handler's next step, and the line it has sent the client
    cmd,          \* the command: "none", "running", "reading" its input, "exited"
    out, taken,   \* what it has printed, and how much of that the handler has read
    replies,      \* lines it has not read yet
    match,        \* for each dialog, how many characters of its text have matched
    doneAt,       \* history: how much had been read when it was done, else 0
    client        \* "there" or "gone"

handlerVars == <<pc, told, match, doneAt>>
vars == <<script, handlerVars, cmd, out, taken, replies, client>>

Init ==
    /\ script \in Scripts
    /\ pc = "start" /\ told = "nothing"
    /\ cmd = "none" /\ out = <<>> /\ taken = 0 /\ replies = 0
    /\ match = [i \in DOMAIN script |-> 0]
    /\ doneAt = [i \in DOMAIN script |-> 0]
    /\ client = "there"

Text(i) == script[i].text
IsDone(i) == doneAt[i] # 0

\* Neither optional nor fail, which ProcessExpect makes optional too.
Required(i) == script[i].kind \in {"expect", "end"}
AllDone == \A i \in DOMAIN script : Required(i) => IsDone(i)

Unread == taken < Len(out)
OutputEnded == cmd = "exited" /\ ~ Unread

-------------------------------------------------------------------------------
(* The handler. *)

\* An argument longer than arglen allows: the client is told nothing.
Overlong ==
    /\ pc = "start"
    /\ pc' = "done"
    /\ UNCHANGED <<script, told, cmd, out, taken, replies, match, doneAt, client>>

Spawn ==
    /\ pc = "start"
    /\ cmd' = "running"
    /\ pc' = IF UsesExpect THEN "dialog" ELSE "okay"
    /\ UNCHANGED <<script, told, out, taken, replies, match, doneAt, client>>

SpawnFails ==
    /\ pc = "start"
    /\ pc' = "done"
    /\ told' = "fail"
    /\ UNCHANGED <<script, cmd, out, taken, replies, match, doneAt, client>>

\* Mutated form: every dialog that is not done is tried.
Fed_All == {i \in DOMAIN script : ~ IsDone(i)}

\* The dialogs a character is tried on: those up to the first required one that
\* is not done.
Fed == {i \in DOMAIN script : ~ IsDone(i) /\ \A j \in 1 .. i - 1 : Required(j) => IsDone(j)}

\* Mutated form: a character that does not match is not tried as the first one.
Matched_NoRestart(i, c) == IF Text(i)[match[i] + 1] = c THEN match[i] + 1 ELSE 0

\* On a mismatch the text is begun again, with this character.
Matched(i, c) ==
    IF Text(i)[match[i] + 1] = c THEN match[i] + 1
    ELSE IF Text(i)[1] = c THEN 1
    ELSE 0

Completes(i, c) == Matched(i, c) = Len(Text(i))

\* A completed end or fail dialog returns at once; dialogs after it are not tried.
Returns(i, c) == i \in Fed /\ Completes(i, c) /\ script[i].kind \in {"end", "fail"}
Tried(c) == {i \in Fed : \A j \in 1 .. i - 1 : ~ Returns(j, c)}

\* Mutated form: the count of matched characters is not cleared.
TakeChar_KeepsMatch ==
    /\ pc = "dialog"
    /\ Unread
    /\ taken' = taken + 1
    /\ LET c == out[taken'] IN
       /\ match' = [i \in DOMAIN script |-> IF i \in Tried(c) THEN Matched(i, c) ELSE match[i]]
       /\ doneAt' = [i \in DOMAIN script |-> IF i \in Tried(c) /\ Completes(i, c) THEN taken' ELSE doneAt[i]]
       /\ UNCHANGED <<pc, replies>>
    /\ UNCHANGED <<script, told, cmd, out, client>>

\* One character through the loop of STREAMExpectDialog.  Every dialog that is
\* completed has its reply written.
TakeChar ==
    /\ pc = "dialog"
    /\ Unread
    /\ taken' = taken + 1
    /\ LET c == out[taken']
           completed == {i \in Tried(c) : Completes(i, c)}
       IN  /\ match' = [i \in DOMAIN script |->
                           IF i \in completed THEN 0 ELSE IF i \in Tried(c) THEN Matched(i, c) ELSE match[i]]
           /\ doneAt' = [i \in DOMAIN script |-> IF i \in completed THEN taken' ELSE doneAt[i]]
           /\ replies' = IF cmd = "exited" THEN replies ELSE replies + Cardinality(completed)
           /\ pc' = IF \E i \in completed : script[i].kind = "end" THEN "okay"
                    ELSE IF \E i \in completed : script[i].kind = "fail" THEN "failed"
                    ELSE "dialog"
    /\ UNCHANGED <<script, told, cmd, out, client>>

\* Mutated form: the end of the output is a success.
EndOfOutput_Okay ==
    /\ pc = "dialog"
    /\ script # <<>>
    /\ OutputEnded
    /\ pc' = "okay"
    /\ UNCHANGED <<script, told, cmd, out, taken, replies, match, doneAt, client>>

EndOfOutput ==
    /\ pc = "dialog"
    /\ script # <<>>
    /\ OutputEnded
    /\ pc' = IF AllDone THEN "okay" ELSE "failed"
    /\ UNCHANGED <<script, told, cmd, out, taken, replies, match, doneAt, client>>

\* Mutated form: a timeout that strikes before anything was read is not counted.
Silence_AfterOutput ==
    /\ pc = "dialog"
    /\ script # <<>>
    /\ Timed /\ taken > 0
    /\ ~ Unread /\ cmd # "exited"
    /\ pc' = "failed"
    /\ UNCHANGED <<script, told, cmd, out, taken, replies, match, doneAt, client>>

\* No character for as long as timeout= says.  Without it the wait is repeated.
Silence ==
    /\ pc = "dialog"
    /\ script # <<>>
    /\ Timed
    /\ ~ Unread /\ cmd # "exited"
    /\ pc' = "failed"
    /\ UNCHANGED <<script, told, cmd, out, taken, replies, match, doneAt, client>>

\* A script without dialogs: at the end of the output, or on the first timeout,
\* ExpectDialogDestroy frees the empty list's one node twice, which aborts the
\* handler; the client is told nothing.
Aborts ==
    /\ pc = "dialog"
    /\ script = <<>>
    /\ OutputEnded \/ (Timed /\ ~ Unread)
    /\ pc' = "done"
    /\ UNCHANGED <<script, told, cmd, out, taken, replies, match, doneAt, client>>

TellOkay ==
    /\ pc = "okay"
    /\ pc' = "relay"
    /\ told' = "okay"
    /\ UNCHANGED <<script, cmd, out, taken, replies, match, doneAt, client>>

TellFail ==
    /\ pc = "failed"
    /\ pc' = "done"
    /\ told' = "fail"
    /\ UNCHANGED <<script, cmd, out, taken, replies, match, doneAt, client>>

\* STREAMSendFile: a character for a client that is gone ends it.
Relay ==
    /\ pc = "relay"
    /\ Unread
    /\ taken' = taken + 1
    /\ pc' = IF client = "gone" THEN "done" ELSE "relay"
    /\ UNCHANGED <<script, told, cmd, out, replies, match, doneAt, client>>

\* Mutated form: only a client that is gone ends it.
RelayEnds_Broken ==
    /\ pc = "relay"
    /\ OutputEnded /\ client = "gone"
    /\ pc' = "done"
    /\ UNCHANGED <<script, told, cmd, out, taken, replies, match, doneAt, client>>

\* Only the end of the output does otherwise: its waits for the command are
\* repeated, whatever timeout= says.
RelayEnds ==
    /\ pc = "relay"
    /\ OutputEnded
    /\ pc' = "done"
    /\ UNCHANGED <<script, told, cmd, out, taken, replies, match, doneAt, client>>

-------------------------------------------------------------------------------
(* The command, and the client. *)

Prints ==
    /\ cmd = "running"
    /\ Len(out) < MaxOutput
    /\ \E c \in Chars : out' = Append(out, c)
    /\ UNCHANGED <<script, handlerVars, cmd, taken, replies, client>>

\* It never need stop printing: as long as nothing has matched, what was read is
\* no longer kept.
PrintsOn ==
    /\ cmd = "running"
    /\ Len(out) = MaxOutput /\ ~ Unread
    /\ \A i \in DOMAIN script : match[i] = 0 /\ ~ IsDone(i)
    /\ \E c \in Chars : out' = <<c>>
    /\ taken' = 0
    /\ UNCHANGED <<script, handlerVars, cmd, replies, client>>

Reads ==
    /\ cmd = "running"
    /\ cmd' = "reading"
    /\ UNCHANGED <<script, handlerVars, out, taken, replies, client>>

\* It gets a reply, or the end of its input once the handler has closed the pipe.
Gets ==
    /\ cmd = "reading"
    /\ replies > 0 \/ pc = "done"
    /\ cmd' = "running"
    /\ replies' = IF replies > 0 THEN replies - 1 ELSE 0
    /\ UNCHANGED <<script, handlerVars, out, taken, client>>

Exits ==
    /\ cmd = "running"
    /\ cmd' = "exited"
    /\ UNCHANGED <<script, handlerVars, out, taken, replies, client>>

ClientLeaves ==
    /\ client = "there"
    /\ client' = "gone"
    /\ UNCHANGED <<script, handlerVars, cmd, out, taken, replies>>

Handler ==
    \/ Overlong \/ Spawn \/ SpawnFails
    \/ TakeChar \/ EndOfOutput \/ Silence \/ Aborts
    \/ TellOkay \/ TellFail \/ Relay \/ RelayEnds

Next == Handler \/ Prints \/ PrintsOn \/ Reads \/ Gets \/ Exits \/ ClientLeaves

\* The handler is scheduled and its timeouts strike; the command owes nothing.
Spec == Init /\ [][Next]_vars
FairSpec == Spec /\ WF_vars(Handler)

-------------------------------------------------------------------------------

\* One type invariant for the module.
TypeOK ==
    /\ script \in Scripts
    /\ pc \in {"start", "dialog", "okay", "failed", "relay", "done"}
    /\ told \in {"nothing", "okay", "fail"}
    /\ cmd \in {"none", "running", "reading", "exited"}
    /\ out \in Seq(Chars)
    /\ taken \in 0 .. Len(out)
    /\ replies \in Nat
    /\ DOMAIN match = DOMAIN script /\ DOMAIN doneAt = DOMAIN script
    /\ \A i \in DOMAIN script : match[i] \in 0 .. Len(Text(i)) - 1 /\ doneAt[i] \in Nat
    /\ client \in {"there", "gone"}

\* The text of dialog i ends at position n of the output, all of it printed after
\* the required dialogs before it were done.
EndsAt(i, n) ==
    /\ Len(Text(i)) <= n
    /\ \A j \in 1 .. i - 1 : Required(j) => doneAt[j] + Len(Text(i)) <= n
    /\ SubSeq(out, n - Len(Text(i)) + 1, n) = Text(i)

\* A reply is only sent to a prompt that was printed, whole, after those that
\* the script expects before it.
RepliesAnswerPrompts ==
    \A i \in DOMAIN script : IsDone(i) =>
        /\ EndsAt(i, doneAt[i])
        /\ \A j \in 1 .. i - 1 : Required(j) => IsDone(j) /\ doneAt[j] < doneAt[i]

\* No proper prefix of two or more characters is found again at the end of what
\* has been read when a character breaks the match off.
Regular(t) ==
    \A m \in 1 .. Len(t) - 1 : \A c \in Chars \ {t[m + 1]} :
        LET read == Append(SubSeq(t, 1, m), c)
        IN  \A b \in 2 .. m : SubSeq(read, m + 2 - b, m + 1) # SubSeq(t, 1, b)

\* The matching, which begins again instead of backing up, misses no prompt whose
\* text does not repeat its own beginning.
PromptsNoticed ==
    \A i \in DOMAIN script :
        pc = "dialog" /\ i \in Fed /\ Regular(Text(i)) =>
            \A n \in 1 .. taken : ~ EndsAt(i, n)

\* The client is told OKAY only after an end dialog, or when everything expected
\* was seen before the output ended, and never after a fail dialog.
OkayIsEarned ==
    told = "okay" /\ UsesExpect =>
        /\ \A i \in DOMAIN script : script[i].kind = "fail" => ~ IsDone(i)
        /\ \/ \E i \in DOMAIN script : script[i].kind = "end" /\ IsDone(i)
           \/ cmd = "exited" /\ AllDone

\* With a timeout silence ends the dialogue: one that lasts is with a command
\* that prints, again and again, something that has still to be looked at.
\* README.md:97 has timeout= stop the waiting; in the code (Expect.c:104) each
\* character begins the time anew, and a command that goes on printing keeps the
\* dialogue for ever.
SilenceEndsDialog == Timed => []<>(pc # "dialog" \/ Unread)

\* When the command ends so does the run item, whatever state it is in.
RunEnds == [](cmd = "exited" => <>(pc = "done"))
===============================================================================
