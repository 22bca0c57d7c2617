CONSTANTS
    Options <- MCOptions
    Payloads <- MCPayloads
    Tails <- MCTails
    Partitions <- MCPartitions
    Certs <- MCCerts
    SigLen = 512
    HashTreeLen = 256
    BcmLen = 2048
    TagLen = 31
    Word32 = 2097152
SPECIFICATION Spec
INVARIANTS
    TypeOK
    CodeReachable
    PiecesWhole
    HeadHashFresh
    SizeRecorded
    KeyMaterialKept
CHECK_DEADLOCK FALSE
