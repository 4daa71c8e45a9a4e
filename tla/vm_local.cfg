CONSTANTS
  Code <- Library
  Main = {"grow"}
  MaxIds = 16
  MaxItems = 2
  Tuples = {t1, t2}
  t1 = t1
  t2 = t2
  LevelWidth = 256
  Nothing = Nothing
  Item = Item
  None = None
SPECIFICATION Spec
INVARIANTS
  OwnVariables
