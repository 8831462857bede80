SPECIFICATION FairSpec
CONSTANTS
  t1 = t1 t2 = t2 root = root child = child grand = grand
  rootMeta = rootMeta childMeta = childMeta grandMeta = grandMeta
  nRoot = nRoot nChild = nChild nGrand = nGrand s1 = s1 s2 = s2 s3 = s3 i1 = i1 i2 = i2
  Nil = Nil
  Thread = {t1, t2}
  Class <- Three
  Meta = {rootMeta, childMeta, grandMeta}
  Chain <- GrowingChain
  MetaOf <- MetaOfThree
  Name = {nRoot, nChild, nGrand}
  NameOf <- NamesOfThree
  Sel = {s1, s2, s3}
  Imp = {i1, i2}
  Capacity = 2
  Loaded = {root, child}
  LoadedSubs <- WiredSubsOfTwo
  LoadedImps <- TwoImps
  Changeable = {child}
  Asked = {grand}
  Implementing = {child}
  RacyLookups = TRUE
  RacyChanges = TRUE
INVARIANT CachesSound
PROPERTY CallsEnd
