SPECIFICATION Spec
CONSTANTS
  s1 = s1
  s2 = s2
  Scans = {1, 2}
  Savers <- MCSavers
  MaxRows = 2
  Inis <- MCInis
SYMMETRY Symmetry
INVARIANTS
  OneSaver
  ExportFaithful
  AutoSaveExact
