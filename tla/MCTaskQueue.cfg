SPECIFICATION Spec
CONSTANTS
  owner = owner
  thief1 = thief1
  thief2 = thief2
  a = a
  b = b
  Null = Null
  Threads = {owner, thief1, thief2}
  Owner = owner
  Items = {a, b}
  Size = 4
  CursorLimit = 8
INVARIANTS TypeOK CursorOrder NoSlotRace PushAfterNotFull
PROPERTY ImplementsFifo
SYMMETRY Symmetry
