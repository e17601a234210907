SPECIFICATION Spec
CONSTANTS
    Runtimes = {r1, r2}
    IdReuse = FALSE
    MaxMutations = 2
    MaxGeneration = 3
    MaxEpoch = 2
SYMMETRY RuntimeSymmetry
INVARIANTS TypeOK   NoResurrection
  
CHECK_DEADLOCK FALSE
