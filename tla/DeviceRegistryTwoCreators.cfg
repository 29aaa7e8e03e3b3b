SPECIFICATION Spec
CONSTANTS
    t1 = t1
    t2 = t2
    s1 = s1
    Threads = {t1, t2}
    Creators = {t1, t2}
    Sids = {s1}
    Nil = Nil
    NoThread = NoThread
    MaxDevices = 2
PROPERTIES ExistingDeviceKept
