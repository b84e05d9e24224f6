SPECIFICATION Spec
CONSTANT SPX_D = 4
INVARIANT FinalShardLast
