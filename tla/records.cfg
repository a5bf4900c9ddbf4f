SPECIFICATION RecordsSpec
CONSTANTS
  Writers = {w1, w2}
  Redacting = {w2}
  MaxEvents = 4
  Runs = {r1, r2}
  Outcomes = {fixed, partly}
  NoCase = NoCase
  MaxCommands = 3
  MaxCrashes = 1
INVARIANTS VerifyBlamesAccidents TamperEvident CasesAreWhole AuditRetellsHistory ListsWhatIsStored
PROPERTIES RecordsStay
SYMMETRY Interchangeable
