SPECIFICATION Spec
CONSTANTS
  Visits = {v1, v2}
  Customers = {c1, c2}
  Known = {c1}
  MaxBefore = 2
  MaxAssets = 4
  MaxTasks = 2
  MaxStack = 7
  MaxReports = 1
  MaxHaste = 1
SYMMETRY Symmetry
INVARIANTS TypeOK ListedIsAttached ReportHasEvidence PatienceSuffices AnalysedAsShown
CHECK_DEADLOCK FALSE
