SPECIFICATION WorkloadSpec
CONSTANTS
  N = 5
  Keys = {1, 2, 3, 4, 5, 6, 7, 8, 9, 10, 11, 12, 13, 14, 15, 16, 17}
  Values = {1, 2, 3, 4, 5, 6, 7, 8, 9, 10, 11, 12, 13, 14, 15, 16, 17}
  Ranges = {100}
  Missing = Missing
  MaxPages = 12
  record_count = 14
  operation_count = 3
  Proportions = {"insert", "get", "update", "scan", "delete"}
INVARIANTS
  WritesAreSaved
  ValidateFindsNoFault
PROPERTY
  ImplementsKVStore
