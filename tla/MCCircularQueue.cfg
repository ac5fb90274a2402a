SPECIFICATION Spec
CONSTANTS
  Threads = {t1, t2, t3}
  Items = {x, y}
  NoItem = NoItem
  Capacity = 2
  Modulus = 8
  Seed = 7
SYMMETRY Symmetry
INVARIANT TypeOK
INVARIANT IndexOrder
INVARIANT SlotExclusive
INVARIANT CountCoversAll
PROPERTY ImplementsFifo
