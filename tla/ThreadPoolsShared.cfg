SPECIFICATION PoolsSpec
CONSTANTS
  t1 = t1 t2 = t2 o1 = o1 o2 = o2 o3 = o3 s1 = s1 s2 = s2
  a1 = a1 a2 = a2 k1 = k1 r1 = r1 r2 = r2 r3 = r3
  Nil = Nil Vacant = Vacant
  Thread = {t1, t2}
  Obj = {o1, o2, o3}
  Addr = {a1, a2}
  AddrOf <- TwoAddresses
  Slot = {s1}
  Stripe = {k1}
  StripeOf <- OneStripe
  Ref = {r1, r2, r3}
  HasDealloc = {o1, o3}
  DeallocFrees = FALSE
  DeallocUsesSelf = FALSE
  RacyStores = TRUE
  MaxPools = 1
SYMMETRY Symmetry
INVARIANTS IInv WeakIsListed PoolsInv PooledIsLive PooledOnce
PROPERTY BornWithoutEntry
\* The process may abort, and its threads may end.
CHECK_DEADLOCK FALSE
