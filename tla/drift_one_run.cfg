\* One run at a time over two components: edits, rule updates and every fault.
SPECIFICATION Spec
CONSTANTS
    r1 = r1 r2 = r2
    clean = clean clean2 = clean2 bad = bad worse = worse shell = shell
    m1 = m1 m2 = m2 d1 = d1 d2 = d2 d3 = d3 d4 = d4 o1 = o1
    node = node skill = skill
    Absent = Absent NoOrigin = NoOrigin NoBaseline = NoBaseline
    Unreadable = Unreadable None = None
    Digest <- MCDigest
    Origin <- MCOrigin
    Marks <- MCMarks
    Root <- MCOneRoot
    Id <- MCIds
    RuleSets <- MCRules
    Runs = {r1}
    NPlaces = 2
    Versions = {clean, shell, worse}
    Cap = 2
    Modes = {"plain", "accept", "prompt"}
    MaxEdits = 2
    MaxFaults = 1
INVARIANTS TypeOK NoSilentAcceptance MatchIsTrue RecordedRugPullIsCritical FalseAlarmHasCause RemovedIsGone
PROPERTIES FirstRunIsFirst
