SPECIFICATION FairSpec
CONSTANTS
  Pomes <- MCPomes
  Nodes <- MCNodes
  Graphs <- MCGraphs
  Roots <- MCRoots
  NDigits = 3
  NLetters = 1
INVARIANTS LockRight BuildExact LargestIsUnique
PROPERTY Terminates
