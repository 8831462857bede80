SPECIFICATION Spec
CONSTANTS
  t1 = t1 t2 = t2 root = root child = child grand = grand
  rootMeta = rootMeta childMeta = childMeta grandMeta = grandMeta
  nRoot = nRoot nChild = nChild nGrand = nGrand s1 = s1 s2 = s2 s3 = s3 i1 = i1 i2 = i2
  Nil = Nil
  Thread = {t1, t2}
  Class <- Two
  Meta = {rootMeta, childMeta}
  Chain <- LoadedChain
  MetaOf <- MetaOfTwo
  Name = {nRoot, nChild}
  NameOf <- NamesOfTwo
  Sel = {s1}
  Imp = {i1, i2}
  Capacity = 1
  Loaded = {root, child}
  LoadedSubs <- WiredSubs
  LoadedImps <- ChildImps
  Changeable = {child}
  Asked = {root, child, rootMeta, childMeta}
  Implementing = {child}
  RacyLookups = TRUE
  RacyChanges = FALSE
INVARIANT CachesCoherent
