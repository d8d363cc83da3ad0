SPECIFICATION FairSpec
CONSTANTS
    demo = demo
    other = other
    k1 = k1
    k2 = k2
    None = None
    Unreadable = Unreadable
    University = {u1, u2}
    Name <- MCName
    Demo = demo
    Key <- MCKey
    Config <- MCConfig
    Upload = {r1}
    MaxFaults = 2
INVARIANTS
    TypeOK
    InUseIsOpen
PROPERTIES
    ServesTheDemo
    StartsWhenItCan
    StopEnds
    ComesUpAgain
CHECK_DEADLOCK FALSE
