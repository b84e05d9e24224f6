SPECIFICATION Spec
CONSTANT PLAYERS = 3
INVARIANTS
    SharesUnmixed
    BlindingCancels
    KeysAgree
    QueuesDrained
PROPERTY Terminates
