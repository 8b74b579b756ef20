SPECIFICATION Spec
CONSTANTS
  MaxInt64 = 99
  Messages <- MCMessages
  EnumNames <- MCEnumNames
  Rank <- MCRank
  Lower <- MCLower
  Leaves <- MCLeaves
  Operands <- MCOperands
  Styles <- MCStyles
  Stored <- MCStored
  Parents <- MCParents
  MaxConnectives = 2
INVARIANTS
  ParsesAsWritten
  CelKeepsFilter
  MacroRewritesOnce
  OneMeaning
  FilterKeepsScope
