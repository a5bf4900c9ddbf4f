SPECIFICATION MemorySpec
CONSTANTS
  None = None
  NoFile = NoFile
  Torn = Torn
  NoCase = NoCase
  Procs = {p1}
  Labels = {"fixed", "not_fixed"}
  Dirs = {d1, d2}
  Targets = {t1}
  NoTarget = NoTarget
  Down = Down
  MaxSaid = 1
  MaxDiagnoses = 2
  MaxElsewhere = 1
  ToolBudget = 2
  MaxStarts = 2
  n1 = n1
  n2 = n2
  v1 = v1
  v2 = v2
  Names = {n1, n2}
  Versions = {v1, v2}
  Platforms = {q1}
  Family <- MCFamily
  Uploads <- MCUploads
  MaxOps = 3
  r1 = r1
  r2 = r2
  r3 = r3
  r4 = r4
  m1 = m1
  m2 = m2
  m3 = m3
  f1 = f1
  f2 = f2
  mce = mce
  dimm = dimm
  page = page
  Labelled = {r1, r2, r3, r4}
  IdentOf <- MCIdentOf
  SubOf <- MCSubOf
  BinOf <- MCBinOf
  KeywordsOf <- MCKeywordsOf
  Idents = {m1, m2, m3}
  Bins = {1, 2}
  Files = {f1, f2}
  FileOf <- MCFileOf
  Table <- MCTable
  MinPerBin = 2
  MinVerified = 3
  Pages <- MCPages
  Sections <- MCSections
  NoPage = NoPage
  Suspects = {s1, s2}
  Gathered <- MCGathered
  Agreements = {100, 900}
  SelfReports = {999}
  e1 = e1
  e2 = e2
  e3 = e3
  Runs = {e1, e2, e3}
  Fractions = {"quarter"}
  HeldOut <- MCHeldOut
  Confidences = {900}
  Tolerance = 50
  MaxEvals = 3
CHECK_DEADLOCK FALSE
INVARIANTS AllTypeOK ChatIsTargetless DigestIsRecorded IndexedIsFound RemovedStaysGone NoUnearnedTrust EvidenceDecides
PROPERTIES NoDrift
SYMMETRY Interchangeable
