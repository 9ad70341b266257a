SPECIFICATION SlSpec
CONSTANTS
  ObjsPerPage = 2
  ObjsPerWord = 5
  MaxBlocks = 2
  SlFaults = {"arrays", "pages"}
INVARIANT InsideBlock
