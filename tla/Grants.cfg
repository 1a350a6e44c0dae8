CONSTANTS
    edit = edit  mount = mount
    vim = vim  nano = nano
    v1 = v1  v2 = v2  v3 = v3
    add1 = add1  add2 = add2  add3 = add3
    ask1 = ask1
    Absent = Absent
    Commands = {edit, mount}
    Programs = {vim, nano}
    Versions = {v1, v2, v3}
    First = v1
    Size <- MCSize
    Upgradable = {vim}
    Adders = {add1, add2, add3}
    Adds <- MCAdds
    Killable = {add1, add2}
    Unlucky = {add1}
    Checkers = {ask1}
    Asks <- MCAsks
SPECIFICATION Spec
INVARIANTS
    TypeOK
    OnlyGranted
    GrantsLast
    ChecksFindGrants
CHECK_DEADLOCK FALSE
