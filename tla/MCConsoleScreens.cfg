CONSTANTS
    kPairingCodeLength = 2
    kMaximumIpLength = 2
    kMaximumPortLength = 1
    LocalHosts <- MCHosts
    Ports <- MCPorts
    Secrets = {q1, q2}
    NoSecret = NoSecret
    Nothing = Nothing
    Snapshots <- MCSnapshots
    None = None
SPECIFICATION Spec
SYMMETRY MCSymmetry
INVARIANTS
    SecretKeepsItsScan
    EveryControlReachable
    CameraIsWholeOrGone
    SelectionIsInSnapshot
    OutcomeIsOfSelection
