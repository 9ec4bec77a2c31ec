CONSTANTS
    MaxLen = 8
    HTTP_GET_BODY_LIMIT = 5
    Hosts = {public, local}
    LocalHosts = {local}
SPECIFICATION Spec
INVARIANTS
    NeverPanics
    LongestPrefix
    MarkedWhenCut
