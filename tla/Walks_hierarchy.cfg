SPECIFICATION BothSpec
CHECK_DEADLOCK FALSE
CONSTANTS
  w1 = w1
  w2 = w2
  w3 = w3
  w4 = w4
  Start = w1
  Nodes <- FewNodes
  Containers = {w1, w2}
  Graphs <- FewEdges
  Asked <- Questions
  Trees <- Parsed
  MaxUses = 1
  MaxSyntax = 0
  MaxNesting = 1
INVARIANTS SubclassesAppear
