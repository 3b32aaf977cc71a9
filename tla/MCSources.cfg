SPECIFICATION SourceSpec
CONSTANTS
    Width = 4
    Reserved <- MCReserved
    Resolutions <- MCResolutions
    MaxDnsAddresses = 2
    HostSets <- MCHostSets
    Bootstraps <- MCBootstraps
    RdapResponses <- MCRdapResponses
    BgpResponses <- MCBgpResponses
    MaxLookupAddresses = 3
    MaxLookupConcurrency = 2
    MaxBgpOriginAsns = 1
    MaxLookupBytes = 2
    Primary = 0
    Under = {1, 2, 3}
    LogResponses <- MCLogResponses
    MaxCtPages = 3
    MaxCtCandidates = 3
    MaxCtDnsConcurrency = 2
    MaxCtResponseBytes = 2
    NameserverSets = {{}, {"ns1"}, {"ns1", "ns2"}, {"ns1", "ns2", "ns3"}}
    ReverseResponses <- MCReverseResponses
    TargetName = 1
    MaxRelatedDomains = 3
    MaxReverseNsBytes = 2
    SubdomainLists <- MCSubdomainLists
    SelectorLists <- MCSelectorLists
    Bundles <- MCBundles
    SeenHosts <- MCSeenHosts
    SeenProducts = {"openssh 9"}
    MaxSubdomains = 2
    MaxSelectors = 2
    MaxBundleEntries = 5
INVARIANTS SourcesAreBounded CompleteIsWhole EvidenceIsItsOwn NothingIsUndone
PROPERTY SourceEnds
CHECK_DEADLOCK FALSE
