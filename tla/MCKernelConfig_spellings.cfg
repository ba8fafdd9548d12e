CONSTANTS
    Requests <- MCRequestsSpellings
    Hosts <- MCHosts
SPECIFICATION Spec
INVARIANT EqualityFaithful
