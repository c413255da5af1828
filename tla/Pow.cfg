\* The arithmetic on every pair of words of 8 bits.
CONSTANT Scale = 1
SPECIFICATION Spec
INVARIANTS
  PassesIsTheEquation QuickDropsNothing SolutionsShareABucket SixtyFourBitsAgree
  FillCountFits LimbsAreNumbers LimbsAgree
