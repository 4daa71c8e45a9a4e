CONSTANTS
  Object = {o1, o2, o3}
  Field = {1}
  Slot = {1, 2}
  Null = Null
  Roots = Roots
  Arguments = Arguments
  Variables = Variables
  Destructible = {o1}
  Scripted = {}
  MaxHand = 2
SPECIFICATION Spec
INVARIANTS
  IInv
  CountsExact
  NoDangling
  HandAlive
  ZeroQueued
PROPERTIES
  FreedUnreferenced
  SweepEnds
