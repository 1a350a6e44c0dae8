CONSTANTS
    h1 = h1  h2 = h2  h3 = h3  h4 = h4  h5 = h5  h6 = h6
    hosts = hosts  crontab = crontab  shells = shells  fstab = fstab  motd = motd
    Sessions = {h1, h2, h3, h4, h5}
    Together <- EditOrAuth
    Files = {hosts, crontab}
    Missing = {crontab}
    Original <- MCOriginal
    Edited <- MCEdited
    Block <- MCBlock
    Hole = Hole  Output = Output  Text = Text
    Rules <- EditOrAuthRules
    Items <- EditOrAuthItems
    Granted = {}
    AuthOK = {h3, h4}
    Slow = {h5}
    Mortal = {h3}
    Killable = {}
    Unopenable = {}
    ReadOnlyDir = {}
    SizeGarbage = {TRUE}
    Absent = Absent
SPECIFICATION FairSpec
INVARIANTS
    TypeOK
    ModeKept
    OnlyPermittedRun
PROPERTIES
    EditsComeBack
    BookedAtomically
    EverySessionEnds
