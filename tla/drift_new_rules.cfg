\* Detection rules installed between the accepted scan and the next one.
SPECIFICATION Spec
CONSTANTS
    r1 = r1 r2 = r2
    clean = clean clean2 = clean2 bad = bad worse = worse shell = shell
    m1 = m1 m2 = m2 d1 = d1 d2 = d2 d3 = d3 d4 = d4 o1 = o1
    node = node skill = skill
    Absent = Absent NoOrigin = NoOrigin NoBaseline = NoBaseline
    Unreadable = Unreadable None = None
    Digest <- MCDigest
    Origin <- MCOrigin
    Marks <- MCMarks
    Root <- MCOwnRoots
    Id <- MCIds
    RuleSets <- MCRules
    Runs = {r1}
    NPlaces = 1
    Versions = {bad}
    Cap = 1
    Modes = {"plain"}
    MaxEdits = 1
    MaxFaults = 0
INVARIANTS CriticalIsModified
