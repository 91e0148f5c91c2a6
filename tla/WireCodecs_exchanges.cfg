SPECIFICATION Spec
CONSTANTS
    AccessKey <- GameAccessKey
    KeyStream <- GameKeyStream
    Compress <- MCCompress
    IsCompressed <- MCIsCompressed
    Decompress <- MCDecompress
    WriteValue <- Write
    ReadValue <- Read
    TextLengths = 65536
    MaxCollectionItems = 65536
    KnownErrors <- MCKnownErrors
    GamePackets <- MCGamePackets
    Answers <- MCAnswers
    GameConnect <- MCGameConnect
    Challenge = 41414
    Rc4 <- MCRc4
    TicketKey <- MCTicketKey
    NonceSize = 2
    SessionKeySize = 2
    DummyPassword <- Long
    ServerSignature <- ServerBytes
    ClientSignature <- ClientBytes
    ServerSession = 96
    MaxPayloadSize = 12
    MaxExchanges = 2
INVARIANTS PacketsArriveAsSent AnswersArrive TicketHoldersConnect WrongBitsAreRefused
CHECK_DEADLOCK FALSE
