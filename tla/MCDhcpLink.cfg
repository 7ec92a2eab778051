CONSTANTS
    Mac = {h1, h2, m3}
    Host = {h1, h2}
    Free = Free
    MaxIp = 2
    Wrap = 12
    Granule = 2
    Lease = 3
SPECIFICATION Spec
INVARIANTS
    TypeOK
    GrantsAreKept
    NoNeedlessSilence
    UseIsGranted
PROPERTIES
    HostsGetAddresses
