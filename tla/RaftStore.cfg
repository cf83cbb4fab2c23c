SPECIFICATION Spec
CONSTANTS
  Base = 2
  MaxLen = 3
  Values = {1, 2, 3}
  Nil = Nil
  MaxTerm = 3
  MaxIndex = 4
  MaxBatch = 2
  Candidates = {c1, c2}
SYMMETRY CandidateSymmetry
INVARIANTS TypeOK TermsAscend OneVote
PROPERTIES ImplementsLogStore
