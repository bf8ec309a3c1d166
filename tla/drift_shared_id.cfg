\* Two installs that hold a component of one name, so one ID.
SPECIFICATION Spec
CONSTANTS
    r1 = r1 r2 = r2
    clean = clean clean2 = clean2 bad = bad worse = worse shell = shell
    m1 = m1 m2 = m2 d1 = d1 d2 = d2 d3 = d3 d4 = d4 o1 = o1
    node = node skill = skill
    Absent = Absent NoOrigin = NoOrigin NoBaseline = NoBaseline
    Unreadable = Unreadable None = None
    Digest <- MCDigest
    Origin <- MCOrigin
    Marks <- MCMarks
    Root <- MCOwnRoots
    Id <- MCSameId
    RuleSets <- MCNoRules
    Runs = {r1}
    NPlaces = 2
    Versions = {clean, bad}
    Cap = 1
    Modes = {"plain"}
    MaxEdits = 1
    MaxFaults = 0
INVARIANTS MatchIsTrue
