SPECIFICATION FairSpec
CONSTANTS
  N = 4
  Keys = {1, 2, 3, 4, 5, 6, 7, 8, 9}
  Values = {v1}
  Ranges = {3}
  Missing = Missing
  MaxPages = 9
INVARIANTS
  TypeOK
  FixesAreBalanced
  PagesFormATree
  BalancedAndFilled
  SeparatorsAreTight
  StoredKeysAreFound
  LeafChainIsOrdered
  ValidateAccepts
  ContainsKeyIsExact
  ExchangesAreFound
PROPERTIES
  AtMostThreeFixed
  CallsReturn
