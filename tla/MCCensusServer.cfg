SPECIFICATION Spec
CONSTANTS
  f1 = f1
  f2 = f2
  c1 = c1
  None = None
  Files = {f1, f2}
  Configs = {c1}
  Owner <- OneOwner
  Covers <- Together
  MaxVersion = 2
  Bad = {1}
  MayFail = {c1}
  Messages = {"didOpen", "didChange", "didSave", "didClose"}
INVARIANTS TypeOK LatestTextShown
PROPERTY SilentAfterReturn
