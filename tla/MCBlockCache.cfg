\* Two threads, two slots, three keys, two of which collide.  No symmetry,
\* because of the liveness property.
SPECIFICATION FairSpec
CONSTANTS
    t1 = t1  t2 = t2
    k1 = k1  k2 = k2  k3 = k3
    s1 = s1  s2 = s2
    b1 = b1  b2 = b2  b3 = b3  b4 = b4
    Threads = {t1, t2}
    Keys = {k1, k2, k3}
    Slots = {s1, s2}
    SlotOf <- TwoSlotHash
    Blocks = {b1, b2, b3, b4}
    NoThread = NoThread  NoKey = NoKey  NoBlock = NoBlock
INVARIANTS
    TypeOK
    RefcountExact
    HeapExact
    HeldIsWanted
    CacheCoherent
    AssertsHold
PROPERTIES
    StoreSpec
    LockReleased
