SPECIFICATION WorkloadSpec
CONSTANTS
  N = 4
  Keys = {1, 2, 3, 4, 5, 6, 7, 8, 9, 10, 11, 12, 13, 14, 15}
  Values = {1, 2, 3, 4, 5, 6, 7, 8, 9, 10, 11, 12, 13, 14, 15}
  Ranges = {100}
  Missing = Missing
  MaxPages = 12
  record_count = 6
  operation_count = 3
  Proportions = {"scan", "delete"}
INVARIANT
  ScanFindsItsKey
