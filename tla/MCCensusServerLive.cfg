SPECIFICATION FairSpec
CONSTANTS
  f1 = f1
  f2 = f2
  c1 = c1
  None = None
  Files = {f1}
  Configs = {c1}
  Owner <- Single
  Covers <- Lists
  MaxVersion = 1
  Bad = {1}
  MayFail = {c1}
  Messages = {"didOpen", "didChange", "didSave", "didClose"}
PROPERTIES TextsShown ServeReturns
