CONSTANTS
    h1 = h1  h2 = h2  h3 = h3  h4 = h4  h5 = h5  h6 = h6
    hosts = hosts  crontab = crontab  shells = shells  fstab = fstab  motd = motd
    Sessions = {h1, h2, h3, h4, h5, h6}
    Together <- EditOrShare
    Files = {hosts, crontab, shells, fstab, motd}
    Missing = {motd}
    Original <- MCOriginal
    Edited <- MCEdited
    Block <- MCBlock
    Hole = Hole  Output = Output  Text = Text
    Rules <- AllMatch
    Items <- EditOrShareItems
    Granted = {}
    AuthOK = {}
    Slow = {h3, h4, h6}
    Mortal = {h2, h3, h4, h5}
    Killable = {h1, h3, h5}
    Unopenable = {crontab, fstab}
    ReadOnlyDir = {h2}
    SizeGarbage = {TRUE, FALSE}
    Absent = Absent
SPECIFICATION Spec
INVARIANTS
    NeverMissing
    TempOwned
    UnsharedWhole
    FilesDoNotMix
CHECK_DEADLOCK FALSE
