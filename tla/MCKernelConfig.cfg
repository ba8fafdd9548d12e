CONSTANTS
    Requests <- MCRequests
    Hosts <- MCHosts
SPECIFICATION Spec
INVARIANT EqualityFaithful
