SPECIFICATION BodySpec
CONSTANTS
  Size = 4
  MaxCall = 5
  Total = 10
INVARIANTS
  BodyCalls
  ChunkExact
PROPERTIES
  BodyIsStream
  ChunkEnds
