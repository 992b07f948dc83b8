SPECIFICATION Spec
CONSTANTS
    alice = alice
    bob = bob
    carol = carol
    Peers = {alice, bob, carol}
    UserOf <- MCUserOf
    Transfers = {1}
    ChunkCount = 3
    None = None
INVARIANTS
    TypeOK
    OneOffer
    TransferInv
    ResumeIsSafe
    ProgressIsReceivers
    AckIsCounted
PROPERTIES
    ProgressMonotone
    DeliverySpec
