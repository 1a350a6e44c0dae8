CONSTANTS
    h1 = h1  h2 = h2  l1 = l1  l2 = l2  flag = flag
    root = root  www = www  mail = mail  ghost = ghost  nobody = nobody
    Sessions = {h1, h2}
    Paths = {l1, l2, flag}
    Names = {root, www, mail, ghost}
    Known = {root, www, mail}
    Root = root
    Nobody = nobody
    Setups <- MCSetups
SPECIFICATION FairSpec
INVARIANTS
    TypeOK
    LocksExclude
    CredentialsFromItems
PROPERTIES
    RequirementsStillHold
    ConnectionsEnd
CHECK_DEADLOCK FALSE
