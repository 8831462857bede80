SPECIFICATION Spec
CONSTANTS
  t1 = t1 t2 = t2 root = root child = child grand = grand
  rootMeta = rootMeta childMeta = childMeta grandMeta = grandMeta
  nRoot = nRoot nChild = nChild nGrand = nGrand s1 = s1 s2 = s2 s3 = s3 i1 = i1 i2 = i2
  Nil = Nil
  Thread = {t1, t2}
  Class <- Three
  Meta = {rootMeta, childMeta, grandMeta}
  Chain <- DynamicChain
  MetaOf <- MetaOfThree
  Name = {nRoot, nChild}
  NameOf <- SharedNames
  Sel = {s1}
  Imp = {i1, i2}
  Capacity = 1
  Loaded = {}
  LoadedSubs <- NoSubs
  LoadedImps <- NoImps
  Changeable = {root, child}
  Asked = {root, child, grand, rootMeta, childMeta, grandMeta}
  Implementing = {root, child, rootMeta}
  RacyLookups = FALSE
  RacyChanges = FALSE
SYMMETRY ImpThreadSymmetry
INVARIANTS DInv CachesCoherent
