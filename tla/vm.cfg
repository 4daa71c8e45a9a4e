CONSTANTS
  Code <- Library
  Main = {"loop", "grid", "within", "mapped", "again", "careful"}
  MaxIds = 16
  MaxItems = 2
  Tuples = {t1, t2}
  t1 = t1
  t2 = t2
  LevelWidth = 256
  Nothing = Nothing
  Item = Item
  None = None
SPECIFICATION Spec
INVARIANTS
  TypeOK
  Orderly
  Nested
  Undisturbed
  GeneratorsApart
  CallsAlive
  OwnVariables
PROPERTIES
  IsCalls
  Finishes
