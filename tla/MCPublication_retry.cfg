SPECIFICATION FairSpec
CONSTANTS
  w1 = w1  w2 = w2  r1 = r1  r2 = r2  r3 = r3
  c1 = c1  c2 = c2  c3 = c3  c4 = c4  c5 = c5
  t1 = t1  t2 = t2  x = x  y = y  s1 = s1  a1 = a1  a2 = a2  d1 = d1  d2 = d2
  Workspaces = {w1}
  Runs = {r1}
  LegacyRuns = {}
  Oids = {c1, c2, c3, c4}
  Texts = {t1, t2}
  Rests = {x}
  Stamps = {s1}
  Assets = {a1}
  Deliveries = {d2}
  TextOf <- OneText
  AssetsOf <- OneDelivery
  Evidence = {"Verified"}
  MaxOrphans = 1
  MaxFaults = 2
  NoRun = NoRun  NoCommit = NoCommit  NoObject = NoObject  NoIntent = NoIntent
  NoDelivery = NoDelivery  NoSpec = NoSpec  RefMissing = RefMissing  Others = Others
INVARIANTS
  EffectsAreAudited
PROPERTIES
  ImplementsContract
  
  
