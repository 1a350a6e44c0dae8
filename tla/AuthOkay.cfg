CONSTANTS
    h1 = h1  h2 = h2  h3 = h3  h4 = h4  h5 = h5  h6 = h6
    hosts = hosts  crontab = crontab  shells = shells  fstab = fstab  motd = motd
    Sessions = {h1}
    Together <- All
    Files = {hosts}
    Missing = {}
    Original <- MCOriginal
    Edited <- MCEdited
    Block <- MCBlock
    Hole = Hole  Output = Output  Text = Text
    Rules <- AuthRule
    Items <- SharedFile
    Granted = {}
    AuthOK = {h1}
    Slow = {}
    Mortal = {}
    Killable = {}
    Unopenable = {}
    ReadOnlyDir = {}
    SizeGarbage = {TRUE}
    Absent = Absent
SPECIFICATION Spec
INVARIANTS
    DirectivesActedOn
