SPECIFICATION Spec
CONSTANTS
    Handshakes = {1, 2}
    Conns = {1, 2}
    Profiles <- MCProfiles
    AllowedShort <- MCAllowed
    Offsets <- MCOffsets
    MaxData = 2
INVARIANTS
    TypeOK
    OnlyAuthenticHello
    AllowedHelloAnswered
    Agreement
    NonceOnce
    EchoIsOwn
    SealedForOneServer
PROPERTIES
    HelloWellFormed
CHECK_DEADLOCK FALSE
