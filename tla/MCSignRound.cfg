SPECIFICATION Spec
CONSTANT SPX_D = 4
INVARIANTS
    PresignedAlike
    SignaturesRight
    SignedMessageComplete
    VerifiesUnlessOvertaken
PROPERTIES
    Terminates
    SignsInTurn
