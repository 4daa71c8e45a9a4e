CONSTANTS
  Object = {o1, o2}
  Field = {1}
  Slot = {1}
  Null = Null
  Roots = Roots
  Arguments = Arguments
  Variables = Variables
  Destructible = {o1}
  Scripted = {o1}
  MaxHand = 1
SPECIFICATION Spec
PROPERTIES
  FreedUnreferenced
CHECK_DEADLOCK FALSE
