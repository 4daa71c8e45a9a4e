CONSTANTS
  Code <- Library
  Main = {"asks"}
  MaxIds = 6
  MaxItems = 3
  Tuples = {t1, t2}
  t1 = t1
  t2 = t2
  LevelWidth = 256
  Nothing = Nothing
  Item = Item
  None = None
SPECIFICATION Spec
PROPERTIES
  ReturnLeaves
