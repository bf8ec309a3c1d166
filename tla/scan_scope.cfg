\* As in scan.cfg: five machines, one of them seen in three ways, four disks, three hosts, four sets of flags; MaxFiles 7.
SPECIFICATION Spec
CONSTANTS
    none = none
    None <- none
    Sigs <- MCSigs
    Claimants <- MCClaimants
    Ephemeral = {3}
    MaxParallel = 2
    Networks <- MCNetworks
    Files <- MCFiles
    Keys <- MCKeys
    Disks <- MCDisks
    MaxFiles = 7
    MaxHits = 2
    Hosts <- MCHosts
    Flags <- MCFlags
    RuleFiles <- MCRuleFiles
    HighValue = {"jupyter"}
    VectorStores = {"qdrant"}
    Configs <- MCConfigs
    Firewalls <- MCFirewalls
    Routers <- MCRouters
    MaxMappings = 2
    Weights <- MCWeights
    Supplies <- MCSupplies
    NoRules <- MCNoRules
INVARIANT ScopeIsAlwaysSaid
