CONSTANTS
    CertHosts <- MCCertHosts
    SlowHeadBytes = 2
    MaxProcs = 2
    Streams = {1, 2}
    Offers <- MCOffers
    Hosts <- MCHosts
    Clocks <- MCClocks
    Requests <- MCRequests
    FewRequests <- MCFewRequests
    SideRequests <- MCSideRequests
SPECIFICATION FairSpec
INVARIANTS ChainsAreHonest TrustIsThisProcess InfoIsHonest RedirectsLand RoundTrips EndsAsAdvertised HandlersLetGo
PROPERTIES CallsEnd
