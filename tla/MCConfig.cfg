CONSTANTS
    INITBUFSIZE = 4
    MINBUFSIZE = 2
    Hosts <- MCHosts
    Services <- MCServices
INIT Init
NEXT Next
INVARIANT ConfigRead
