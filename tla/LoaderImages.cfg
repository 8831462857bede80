SPECIFICATION FairSpec
CONSTANTS
  main = main plugin = plugin root = root child = child grand = grand
  rootMeta = rootMeta childMeta = childMeta grandMeta = grandMeta
  extra = extra extraMeta = extraMeta
  foo = foo bar = bar cFoo = cFoo cBar = cBar pFoo = pFoo
  a1 = a1 a2 = a2 a3 = a3 a4 = a4 a5 = a5 c1 = c1 c2 = c2 t1 = t1 t2 = t2
  Nil = Nil
  Thread = {t1, t2}
  Text = {foo, bar}
  Address = {a1, a2, a3, a4, a5}
  Compiled = {cFoo, cBar, pFoo}
  Literal <- Literals
  TextOf <- Texts
  Created = {c1, c2}
  Image = {main, plugin}
  Class <- Objects
  Meta = {rootMeta, childMeta, grandMeta, extraMeta}
  MetaOf <- Metas
  SuperOf <- Supers
  ImageOf <- Images
  Section <- Sections
  MethodSels <- Methods
  CompiledSize <- Sizes
  ObjectSize = 1
INVARIANTS LInv EqualIffSameName RegisteredIsReady ChainComplete ListsFollowHierarchy
PROPERTIES InternedStays RegistrationEnds LoadedStays LoadEnds
CHECK_DEADLOCK FALSE
