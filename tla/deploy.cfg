CONSTANTS
    Node = {"node0", "node1", "node2"}
    Number <- MCNumber
    Ip <- MCIp
    Aliases <- MCAliases
    OptAliases <- MCOptAliases
    ArgRows <- MCArgRows
    K8sRows <- MCK8sRows
    Operators = {"pg-operator"}
    DbType <- MCDbType
    Imaged = {"postgresql", "coroot-server"}
    Available <- MCAvailable
    Sourced = {"postgresql"}
    Patience = 1
    CommandLines <- MCCommandLines
    NextLines <- MCNextLines
SPECIFICATION Spec
INVARIANTS
    RejectedSparesEnvironment
    NodesMatchRequest
    AcceptedOptionsReachTheHost
    ReferencesResolved
    NamesAreFree
    CorootSeesEveryNode
    MonitoredAreLinked
PROPERTIES
    DeployEnds
CHECK_DEADLOCK FALSE
