\* Two runs at once over one component: interleaved scans, saves and prompts.
SPECIFICATION FairSpec
CONSTANTS
    r1 = r1 r2 = r2
    clean = clean clean2 = clean2 bad = bad worse = worse shell = shell
    m1 = m1 m2 = m2 d1 = d1 d2 = d2 d3 = d3 d4 = d4 o1 = o1
    node = node skill = skill
    Absent = Absent NoOrigin = NoOrigin NoBaseline = NoBaseline
    Unreadable = Unreadable None = None
    Digest <- MCDigest
    Origin <- MCOrigin
    Marks <- MCMarks
    Root <- MCOwnRoots
    Id <- MCIds
    RuleSets <- MCNoRules
    Runs = {r1, r2}
    NPlaces = 1
    Versions = {bad}
    Cap = 1
    Modes = {"accept", "prompt"}
    MaxEdits = 2
    MaxFaults = 1
INVARIANTS NoSilentAcceptance
PROPERTIES ImplementsLedger DriftIsReported
