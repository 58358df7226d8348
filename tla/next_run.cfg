SPECIFICATION DSpec
CONSTANTS
  Instants <- MCInstants
  Dates <- MCDates
  RunTimes = {0, 2, 3, 23}
  Monthdays = {0, 1, 28, 31}
  LocalDate <- MCLocalDate
  Aware <- MCAware
  MonthOf <- MCMonthOf
  FirstDay <- MCFirstDay
  Length <- MCLength
  Raises = Raises
  Late = 30
INVARIANT NextIsFirst
PROPERTY OncePerPeriod
CHECK_DEADLOCK FALSE
