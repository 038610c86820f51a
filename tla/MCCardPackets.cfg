SPECIFICATION Spec
CONSTANTS
  Files <- SomeFiles
  Blocks <- SomeBlocks
INVARIANTS
  CachesAgree
  RebuildsBlock
  AnnotationsHit
CHECK_DEADLOCK FALSE
