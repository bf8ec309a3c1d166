\* What ci.go says of a hit it could not compare.
SPECIFICATION Spec
CONSTANTS
    none = none
    absent = absent
    unreadable = unreadable
    malformed = malformed
    None <- none
    Absent <- absent
    Unreadable <- unreadable
    Malformed <- malformed
    Places <- MCPlaces
    Id <- MCId
    Name <- MCName
    Under <- MCUnder
    Contents <- MCContents
    Policies <- MCPolicies
    Feeds <- MCFeeds
    Options <- MCOptions
    Start <- MCStart
    MaxInt = 3000
    NumberDigits <- MCNumberDigits
    SuffixDigits <- MCSuffixDigits
    Radix <- MCRadix
    Scale <- MCScale
    MaxDay = 1
    MaxEvents = 1
INVARIANT UnresolvedNeverFails
