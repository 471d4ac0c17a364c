CONSTANTS
  Strings = {s1, s2, s3}
  Nil = Nil
  MaxShared = 1
  Ints = {1, 2, 3}
  Values = {x, y}
  Walkers = {w1}
  Uses = {}
  MinCompact = 0
  MaxArray = 1
SPECIFICATION Spec
INVARIANTS TypeOK LengthIsBorder
PROPERTY IsLuaMap
SYMMETRY Symmetry
CONSTRAINT FewPresent
