\* Four members, two scores, three levels: every shape of the list.
CONSTANTS
  Members = {1, 2, 3, 4}
  Scores <- MCScores
  MaxLevel = 3
  Borders <- MCBorders
  Counts <- MCCounts
  Ranks <- MCRanks
  Header = Header
  Nil = Nil

SPECIFICATION Spec

INVARIANTS
  WellFormed
  OperationsExact
  QueriesExact
