SPECIFICATION FairKeysSpec
CONSTANTS
    Keys = {k1, k2, k3}
    MaxChanges = 5
    NoKey = NoKey
INVARIANTS RotationKeepsClients
PROPERTIES RetiredKeysRefused KeysSettle
