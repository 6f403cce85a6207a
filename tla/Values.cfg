SPECIFICATION Spec
CONSTANTS
  n1 = n1
  n2 = n2
  n3 = n3
  c1 = c1
  c2 = c2
  null = null
  Ref <- SomeRefs
  Prim <- Texts
  Null <- null
  Collection <- SomeCollections
  Shape <- SomeShapes
  Class <- SomeClasses
  Lineage <- SomeLineage
  Includes <- SomeIncludes
  Heaps <- SomeHeaps
INVARIANTS
  AgreesWithUnfolding
  MatchIsProved
  PartialMatchIsContained
  EqualValuesMatchPartially
