SPECIFICATION FairSpec
CONSTANTS
    d1 = d1  d2 = d2  d3 = d3  k1 = k1  p1 = p1  p2 = p2  u1 = u1
    ns1 = ns1  ns2 = ns2  ns3 = ns3  e1 = e1  e2 = e2  e3 = e3
    NoAttack = NoAttack
    Attacks = {p1, u1}
    Interfaces = {e1, e2, e3}
    opts <- MCOpts
    netNs <- MCNetNs
    Hash <- MCHash
    Original <- MCOriginal
    Excessive = {}
    Strict = FALSE
    Faults <- RestoreFails
    MaxFaults = 1
    MaxRestarts = 0
PROPERTIES
    RevertCompletes
