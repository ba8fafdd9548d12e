CONSTANTS
    Hosts <- MCHosts
    NoQos = NoQos
SPECIFICATION Spec
INVARIANT QosReportFaithful
