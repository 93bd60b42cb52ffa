\* No fault at all: events after the last DAU job of the day, before midnight.
SPECIFICATION FairSpec
CONSTANTS
  Metrics = {"dau"}
  Readers = {r1}
  Workers = {w1}
  MaxVersion = 2
  Faults = {}
PROPERTIES
  DayIsCountedInFull
