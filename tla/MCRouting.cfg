SPECIFICATION Spec
CONSTANTS
  Node = {a, b, c}
  Virtual = 1
  Server = {s1, s2, s3}
  Tag = {t}
SYMMETRY Symmetry
INVARIANTS
  RingMatchesMap
  GetReturnsOwner
PROPERTIES
  MovesOnlyItsKeys
  RoutedAsAsked
