\* Samples, damaged samples and all short files over a few alphabets.
SPECIFICATION FairSpec
CONSTANTS
  Files <- FilesToParse
INVARIANTS TypeOK GuardsNeverThrow BlocksEndAtTheirBrace AcceptedIsBalanced
           UndefinedMeansUnbalanced KeepsAccepting
PROPERTY ParseEnds
CHECK_DEADLOCK FALSE
