SPECIFICATION Spec
CONSTANTS
    Certs <- MCCerts
    Keys <- MCKeys
    Flavours <- MCFlavours
    Layouts <- MCLayouts
    MaxData = 2
    MaxFaults = 1
    MaxCcs = 1
INVARIANTS
    TypeOK
    KeysAgree
    NonceOnce
    DataInOrder
    FailuresCaused
