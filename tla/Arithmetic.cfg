CONSTANTS
  Width = 5
  Precision = 3
  MaxExponent = 3
  ImmediateWidth = 4
  Programs <- MCPrograms
  Numerals <- MCNumerals
SPECIFICATION Spec
INVARIANTS SpecialisedAgrees CompiledAgrees NumbersExact
