CONSTANTS
    Block = 8
    ByteBits = 2
    WordBytes = 2
    Inputs <- MCInputs
    MaxLen = 18
    MaxUpdates = 3
    Word <- MCWord
    Zero = 0
    Xor <- MCXor
    T <- MCT
    TKey <- MCTKey
    FK <- MCFK
    CK <- MCCK
    Rounds = 4
    Keys <- MCKeys
    Ivs <- MCIvs
    Datas <- MCDatas
    PadBlock <- MCPadBlock
SPECIFICATION GmSpec
INVARIANTS
    AbsorbedInOrder
    DigestOfPadded
    Recovered
CHECK_DEADLOCK FALSE
