CONSTANTS
    CertHosts <- MCCertHosts
    SlowHeadBytes = 2
    MaxProcs = 1
    Streams = {1, 2}
    Offers <- MCOffers
    Hosts <- MCHosts
    Clocks <- MCClocks
    Requests <- MCRequests
    FewRequests <- MCFewRequests
    SideRequests <- MCSideRequests
SPECIFICATION Spec
INVARIANTS ResetIsReset
