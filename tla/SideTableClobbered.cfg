SPECIFICATION Spec
CONSTANTS
  t1 = t1 t2 = t2 o1 = o1 o2 = o2 s1 = s1 s2 = s2
  a1 = a1 a2 = a2 k1 = k1 k2 = k2 r1 = r1 r2 = r2
  Nil = Nil Vacant = Vacant
  Thread = {t1, t2}
  Obj = {o1, o2}
  Addr = {a1, a2}
  AddrOf <- OwnAddress
  Slot = {s1}
  Stripe = {k1, k2}
  StripeOf <- OneSlot
  Ref = {r1, r2}
  HasDealloc = {o1}
  DeallocFrees = TRUE
  DeallocUsesSelf = FALSE
  RacyStores = TRUE
INVARIANT LiveKeepsSlots
