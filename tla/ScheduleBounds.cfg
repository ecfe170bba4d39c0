SPECIFICATION Generation
CONSTANTS
  Principals = {6, 10, 35, 1000}
  Percents = {5000, 10000, 125000}
  Tenures = {1, 2, 3, 7, 12}
  Dates <- MCDates
INVARIANTS
  PrincipalDueOnce
  DueDatesIncrease
