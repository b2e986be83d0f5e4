\* Three Services over two hosts: a host may have no, one, two or three claimants.
CONSTANTS
    Services = {s1, s2, s3}
    Specs <- MCSpecs
    Configs <- MCConfigs
    Spellings <- MCSpellings
    Hosts <- MCHosts
    Norm <- MCNorm
    Invalid = Invalid
    None = None
SPECIFICATION TableSpec
SYMMETRY Symmetry
INVARIANTS
    RouterIsCurrent
    StaticRoutesWin
    DiscoveredRouteHasOneClaimant
