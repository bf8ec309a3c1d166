\* Two writers and a scan; two builds or installs, two events.
SPECIFICATION Spec
CONSTANTS
    none = none
    torn = torn
    None <- none
    Torn <- torn
    Buckets = 2
    Tails = 3
    Counts = 3
    Writers = {w1, w2}
    Scans = {s1}
    Corpora <- MCCorpora
    Downloads <- MCDownloads
    Machines <- MCMachines
    Inodes = {i1, i2, i3, i4, i5, i6}
    MaxWrites = 2
    MaxEvents = 2
INVARIANTS
    TypeOK
    OpenedIsWhole
    VerdictIsTrue
    FinishedIsUsed
    OnlySignedInstalled
SYMMETRY Symmetry
