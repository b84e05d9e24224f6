SPECIFICATION Spec
CONSTANTS
    Byte = 16
    SPX_FORS_TREES = 3
    SPX_FORS_HEIGHT = 3
    SPX_N = 1
    SPX_WOTS_LOGW = 2
    SPX_WOTS_LEN2 = 3
    SPX_TREE_HEIGHT = 2
    SPX_D = 4
    Inputs <- MCInputs
INVARIANTS
    MessageHashed
    NodesHashed
    SignatureVerifies
    AllLayersSigned
    SignsNothingElse
    OpensSelectedLeaf
    AddressesDiffer
