SPECIFICATION FairSpec
CONSTANTS
  Process = {p1, p2}
  Edge <- Edges
  DepSize = 3
  HashNode <- MCHashNode
  HashEdge <- MCHashEdge
INVARIANTS
  OneSlotPerEdge
  OneList
  ReadsGraph
  SavedIsGraph
PROPERTIES
  LoopsEnd
CHECK_DEADLOCK FALSE
