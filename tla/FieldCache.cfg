CONSTANTS
  Field = f
  Index = index
  NewIndex = newindex
  Strings = {f, index, newindex}
  Nil = Nil
  MaxShared = 8
  MinCompact = 0
  o = o
  c = c
  d = d
  x = x
  Tables = {o, c, d}
  Fn = Fn
  Values = {x}
  Readers = {r}
  Writers = {w}
  MaxChain = 1
  Uses = {}
  Programs <- MCPrograms
SPECIFICATION Spec
INVARIANTS TypeOK CachedReadExact CompiledReadExact CachedWriteExact FlagsTrue
