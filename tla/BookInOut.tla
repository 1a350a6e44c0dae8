------------------------------- MODULE BookInOut -------------------------------
(***************************************************************************)
(* What the book out/in system promises: a session gets a copy of a file   *)
(* as it is, its user edits the copy, and the copy then replaces the file  *)
(* as a whole, in one step.                                                *)
(***************************************************************************)
EXTENDS Sequences

CONSTANTS Sessions, Files, Missing, Original, Edited, Absent

VARIABLES
    content,   \* [Files -> Seq(block) or Absent]
    copy       \* [Sessions -> [Files -> Seq(block) or Absent]]

vars == <<content, copy>>

Init ==
    /\ content = [f \in Files |-> IF f \in Missing THEN Absent ELSE Original[f]]
    /\ copy = [h \in Sessions |-> [f \in Files |-> Absent]]

\* BookoutFileToClient and ClientBookoutFile.
BookOut(h, f) ==
    /\ content[f] # Absent
    /\ copy' = [copy EXCEPT ![h][f] = content[f]]
    /\ UNCHANGED content

\* ClientRun: the user's program may also make files that were not booked out.
Edit(h, F) ==
    /\ copy' = [copy EXCEPT ![h] = [f \in Files |-> IF f \in F THEN Edited[h][f] ELSE @[f]]]
    /\ UNCHANGED content

\* BookinFileFromClient and ClientBookinFile.
BookIn(h, f) ==
    /\ copy[h][f] # Absent
    /\ content' = [content EXCEPT ![f] = copy[h][f]]
    /\ UNCHANGED copy

Next ==
    \E h \in Sessions :
        \/ \E f \in Files : BookOut(h, f) \/ BookIn(h, f)
        \/ \E F \in SUBSET Files : Edit(h, F)

Spec == Init /\ [][Next]_vars
===============================================================================
