CONSTANTS
    edit = edit  mount = mount  umount = umount  halt = halt  ping = ping
    vi = vi  nano = nano  login = login  other = other
    Names = {edit, mount, umount, halt, ping, vi, nano}
    AuthTypes = {login, other}
    Login = login
    Config <- MCConfig
    Programs = {{vi}, {nano}}
    Granted = {umount}
    Passes = {login}
    MaxLines = 4
SPECIFICATION FairSpec
INVARIANTS
    TypeOK
    OnlyPermitted
    EveryRequestSettled
    WaitingAtAuth
PROPERTIES
    HandlerEnds
