SPECIFICATION FairSpec
CONSTANTS
    t1 = t1
    t2 = t2
    t3 = t3
    s1 = s1
    s2 = s2
    Threads = {t1, t2, t3}
    Creators = {t1}
    Sids = {s1, s2}
    Nil = Nil
    NoThread = NoThread
    MaxDevices = 3
INVARIANTS TypeOK DevicesDistinct
PROPERTIES ImplementsDeviceMap CallsReturn
