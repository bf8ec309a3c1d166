\* An install between the two loads of one scan.
SPECIFICATION Spec
CONSTANTS
    w1 = w1 w2 = w2 s1 = s1 empty = empty old = old mid = mid new = new
    Missing = Missing Torn = Torn Empty = Empty Unversioned = Unversioned None = None
    Writers = {w1}
    Scans = {s1}
    Docs = {empty, old, mid, new}
    Version <- MCVersion
    Base = 100
    Builtin = empty
    Beside <- MCBeside
    MaxWrites = 1
    MaxFaults = 0
INVARIANTS OneFeedPerScan
