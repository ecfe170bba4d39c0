SPECIFICATION Generation
CONSTANTS
  Principals = {1000}
  Percents = {100000}
  Tenures = {3}
  Dates <- MCDates
INVARIANT StoredRoiIsWhole
