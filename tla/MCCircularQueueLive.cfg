SPECIFICATION FairSpec
CONSTANTS
  Threads = {t1, t2, t3}
  Items = {x}
  NoItem = NoItem
  Capacity = 2
  Modulus = 4
  Seed = 3
PROPERTY ClaimsComplete
PROPERTY SystemProgress
