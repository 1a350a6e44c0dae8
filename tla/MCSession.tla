------------------------------- MODULE MCSession -------------------------------
(***************************************************************************)
(* Instances of Session for TLC: sessions and files are model values, and  *)
(* the content of a file is one to three blocks that tell the file, the    *)
(* version and the position: edits make hosts and shells longer, crontab   *)
(* and motd shorter.                                                       *)
(***************************************************************************)
EXTENDS Session

CONSTANTS h1, h2, h3, h4, h5, h6, hosts, crontab, shells, fstab, motd

Version(file, who, n) == [k \in 1 .. n |-> <<file, who, k>>]
MCOriginal == [file \in Files |-> Version(file, "original", 2)]
EditedLength(file) == CASE file \in {hosts, shells} -> 3 [] file = fstab -> 2 [] OTHER -> 1
MCEdited == [h \in Sessions |-> [file \in Files |-> Version(file, h, EditedLength(file))]]

MCBlock == {Version(file, who, 3)[k] : file \in Files, who \in Sessions \cup {"original"}, k \in 1 .. 3}
           \cup {Hole, Output, Text}

Plain(o) == [op |-> o]
On(o, file) == [op |-> o, file |-> file]
Edit(file) == <<On("bookout", file), Plain("clientrun"), On("bookin", file)>>

All == {Sessions}

\* h1 and h2 edit a file of their own each, with a requirement before and a
\* command after; h3, h4 and h5 use entries with every kind of rule.
EditOrAuth == {{h1, h2}, {h3, h4, h5}}
EditOrAuthRules == [h \in Sessions |-> CASE h = h3 -> <<"match", "auth">>
                                         [] h = h4 -> <<"auth", "mismatch">>
                                         [] h = h5 -> <<"auth", "match">>
                                         [] OTHER  -> <<"match">>]
EditOrAuthItems == [h \in Sessions |-> CASE h = h1 -> <<Plain("require")>> \o Edit(hosts) \o <<Plain("run")>>
                                         [] h = h2 -> Edit(crontab)
                                         [] OTHER  -> <<Plain("require"), Plain("run")>>]

\* h1 edits two files, and h2 looks at one of them; h3 and h4 edit the same file;
\* h5's entry books three files in, and out those that are there, while h6 edits
\* one of them, without making it shorter.
Editor == <<On("bookout", hosts), On("bookout", crontab), Plain("clientrun"),
            On("bookin", hosts), On("bookin", crontab)>>
Several == <<On("bookout", fstab), On("bookout", shells), Plain("clientrun"),
             On("bookin", shells), On("bookin", fstab), On("bookin", motd)>>
EditOrShare == {{h1, h2}, {h3, h4}, {h5, h6}}
EditOrShareItems == [h \in Sessions |-> CASE h = h1 -> Editor
                                          [] h = h2 -> <<On("bookout", hosts)>>
                                          [] h = h5 -> Several
                                          [] h = h6 -> Edit(fstab)
                                          [] OTHER  -> Edit(shells)]

AllMatch == [h \in Sessions |-> <<"match">>]
AuthRule == [h \in Sessions |-> <<"auth">>]
OneEditor == [h \in Sessions |-> Editor]
SharedFile == [h \in Sessions |-> Edit(hosts)]
===============================================================================
