--------------------------- MODULE MemChannelProofs ---------------------------
(***************************************************************************)
(* Proofs about the message channel in shared memory, for any finite set   *)
(* of processes, any messages, any capacity, and any width of the indices  *)
(* that is a multiple of the capacity.                                     *)
(***************************************************************************)
EXTENDS MemChannel, FiniteSetTheorems, TLAPS

(***************************************************************************)
(* Indices that wrap                                                       *)
(***************************************************************************)

\* The remainder of a number between -m and 2m.
LEMMA ModNear ==
    ASSUME NEW m \in Nat, m > 0, NEW a \in (-m)..(2 * m - 1)
    PROVE  a % m = IF a < 0 THEN a + m ELSE IF a < m THEN a ELSE a - m
<1>1. CASE a < 0
  <2>1. a = m * (-1) + (a + m) /\ a + m \in 0..(m - 1)
    BY <1>1
  <2> QED BY <1>1, <2>1
<1>2. CASE a >= 0 /\ a < m
  BY <1>2
<1>3. CASE a >= m
  <2>1. a = m * 1 + (a - m) /\ a - m \in 0..(m - 1)
    BY <1>3
  <2> QED BY <1>3, <2>1
<1> QED BY <1>1, <1>2, <1>3

\* A quotient and a remainder are the only ones.
LEMMA ModUnique ==
    ASSUME NEW m \in Nat, m > 0, NEW q \in Int, NEW r \in 0..(m - 1)
    PROVE  (m * q + r) % m = r
OBVIOUS

\* The remainder is in range.
LEMMA ModRange ==
    ASSUME NEW m \in Nat, m > 0, NEW a \in Int
    PROVE  /\ a % m \in 0..(m - 1) /\ a \div m \in Int
           /\ a = m * (a \div m) + (a % m)
OBVIOUS

\* Two indices at a distance below the capacity are in different slots, on
\* both sides of the wrap too: the capacity divides the number of indices.
LEMMA SlotsDiffer ==
    ASSUME NEW i \in 0..(IdxMod - 1), NEW d \in 1..(Cap - 1)
    PROVE  ((i + d) % IdxMod) % Cap # i % Cap
<1>1. PICK k \in 1..IdxMod : IdxMod = k * Cap
  BY ChannelAssumption
<1> DEFINE q == i \div Cap
           r == i % Cap
           n == r + d
<1>2. q \in Int /\ r \in 0..(Cap - 1) /\ i = Cap * q + r
  BY ModRange, ChannelAssumption
<1>3. (i + d) % IdxMod = i + d \/ (i + d) % IdxMod = i + d - IdxMod
  BY ModNear, ChannelAssumption
<1>4. PICK u \in Int : (i + d) % IdxMod = Cap * u + n
  <2>1. i + d = Cap * q + n
    BY <1>2, ChannelAssumption
  <2>2. i + d - IdxMod = Cap * (q - k) + n
    BY <2>1, <1>1, <1>2, ChannelAssumption
  <2>3. q - k \in Int
    BY <1>2
  <2> QED BY <1>2, <1>3, <2>1, <2>2, <2>3
<1> HIDE DEF q, r
<1>5. CASE n < Cap
  <2>1. (Cap * u + n) % Cap = n
    BY <1>2, <1>5, ModUnique, ChannelAssumption
  <2> QED BY <1>2, <1>4, <2>1, ChannelAssumption DEF r
<1>6. CASE n >= Cap
  <2>1. Cap * u + n = Cap * (u + 1) + (n - Cap)
    BY <1>2, ChannelAssumption
  <2>2. n - Cap \in 0..(Cap - 1) /\ n - Cap # r
    BY <1>2, <1>6, ChannelAssumption
  <2>3. (Cap * (u + 1) + (n - Cap)) % Cap = n - Cap
    BY <2>2, ModUnique, ChannelAssumption
  <2> QED BY <1>4, <2>1, <2>2, <2>3 DEF r
<1> QED BY <1>2, <1>5, <1>6, ChannelAssumption

-----------------------------------------------------------------------------
(***************************************************************************)
(* The count of the slots                                                  *)
(***************************************************************************)

\* 1 when a label is one of some labels.
At(l, L) == IF l \in L THEN 1 ELSE 0

\* One process moves: it leaves the places it was at and enters others.
LEMMA Moves ==
    ASSUME DOMAIN mpc = MCallers, NEW p \in MCallers, NEW l,
           mpc' = [mpc EXCEPT ![p] = l], NEW L
    PROVE  /\ Cardinality(Where(L)) \in Nat
           /\ Cardinality(Where(L)') = Cardinality(Where(L))
                + At(l, L) - At(mpc[p], L)
           /\ mpc[p] \in L => Cardinality(Where(L)) > 0
<1> USE DEF At
<1> DEFINE A == Where(L)
<1>1. IsFiniteSet(A) /\ Cardinality(A) \in Nat
  <2>1. A \subseteq MCallers
    BY DEF Where
  <2> QED BY <2>1, ChannelAssumption, FS_Subset, FS_CardinalityType
<1>2. p \in A <=> mpc[p] \in L
  BY DEF Where
<1>3. CASE (l \in L) <=> (mpc[p] \in L)
  <2>1. Where(L)' = A
    BY <1>3 DEF Where
  <2> QED BY <1>1, <1>2, <1>3, <2>1, FS_EmptySet
<1>4. CASE l \in L /\ mpc[p] \notin L
  <2>1. Where(L)' = A \cup {p}
    BY <1>4 DEF Where
  <2> QED BY <1>1, <1>2, <1>4, <2>1, FS_AddElement
<1>5. CASE l \notin L /\ mpc[p] \in L
  <2>1. Where(L)' = A \ {p}
    BY <1>5 DEF Where
  <2> HIDE DEF A
  <2>2. Cardinality(A \ {p}) = Cardinality(A) - 1 /\ IsFiniteSet(A \ {p})
    BY <1>1, <1>2, <1>5, FS_RemoveElement
  <2>3. Cardinality(A \ {p}) \in Nat
    BY <2>2, FS_CardinalityType
  <2> QED BY <1>1, <1>5, <2>1, <2>2, <2>3 DEF A
<1> QED BY <1>3, <1>4, <1>5

\* The processes that have reserved a slot, that have emptied one, that are
\* promised a message, and that have yet to announce one.
Reserved == Where({"put_lock", "put_copy"})
Emptied == Where({"get_unlock", "get_post"})
Promised == Where({"get_lock", "get_copy"})
Unannounced == Where({"put_unlock", "put_post"})

\* The count of the slots with those names.
LEMMA Accounts ==
    SlotsAccounted <=>
        /\ has_space + Cardinality(Reserved) + Filled + Cardinality(Emptied) = Cap
        /\ has_items + Cardinality(Promised) + Cardinality(Unannounced) = Filled
BY DEF SlotsAccounted, Reserved, Emptied, Promised, Unannounced

\* The number of filled slots, and how the indices change it.
LEMMA FilledMoves ==
    ASSUME iput \in 0..(IdxMod - 1), iget \in 0..(IdxMod - 1)
    PROVE  /\ Filled \in 0..(IdxMod - 1)
           /\ Incr(iput) \in 0..(IdxMod - 1) /\ Incr(iget) \in 0..(IdxMod - 1)
           /\ Filled < IdxMod - 1 => (Incr(iput) - iget) % IdxMod = Filled + 1
           /\ Filled > 0 => (iput - Incr(iget)) % IdxMod = Filled - 1
           /\ (iget + Filled) % IdxMod = iput
<1>1. IdxMod \in Nat /\ IdxMod > 0
  BY ChannelAssumption
<1>2. Filled = IF iput < iget THEN iput - iget + IdxMod ELSE iput - iget
  BY <1>1, ModNear DEF Filled
<1>3. /\ Incr(iput) = IF iput + 1 < IdxMod THEN iput + 1 ELSE 0
      /\ Incr(iget) = IF iget + 1 < IdxMod THEN iget + 1 ELSE 0
  BY <1>1, ModNear DEF Incr
<1>4. Filled < IdxMod - 1 => (Incr(iput) - iget) % IdxMod = Filled + 1
  <2>1. Incr(iput) - iget \in (-IdxMod)..(2 * IdxMod - 1)
    BY <1>1, <1>3
  <2>2. (Incr(iput) - iget) % IdxMod
          = IF Incr(iput) - iget < 0 THEN Incr(iput) - iget + IdxMod
            ELSE IF Incr(iput) - iget < IdxMod THEN Incr(iput) - iget
            ELSE Incr(iput) - iget - IdxMod
    BY <1>1, <2>1, ModNear
  <2> QED BY <1>1, <1>2, <1>3, <2>2
<1>5. Filled > 0 => (iput - Incr(iget)) % IdxMod = Filled - 1
  <2>1. iput - Incr(iget) \in (-IdxMod)..(2 * IdxMod - 1)
    BY <1>1, <1>3
  <2>2. (iput - Incr(iget)) % IdxMod
          = IF iput - Incr(iget) < 0 THEN iput - Incr(iget) + IdxMod
            ELSE IF iput - Incr(iget) < IdxMod THEN iput - Incr(iget)
            ELSE iput - Incr(iget) - IdxMod
    BY <1>1, <2>1, ModNear
  <2> QED BY <1>1, <1>2, <1>3, <2>2
<1>6. (iget + Filled) % IdxMod = iput
  <2>1. iget + Filled = iput \/ iget + Filled = iput + IdxMod
    BY <1>1, <1>2
  <2> QED BY <1>1, <2>1, ModNear
<1> QED BY <1>1, <1>2, <1>3, <1>4, <1>5, <1>6

\* The invariant holds after mc_create.
LEMMA ChannelInvInit == mc_create => ChannelInv
<1> SUFFICES ASSUME mc_create PROVE ChannelInv
  OBVIOUS
<1>1. MTypeOK /\ MMutex
  BY ChannelAssumption DEF mc_create, MTypeOK, MMutex, MInMutex
<1>2. Filled = 0
  BY ChannelAssumption, ModNear DEF mc_create, Filled
<1>3. /\ Reserved = {} /\ Emptied = {} /\ Promised = {} /\ Unannounced = {}
  BY DEF mc_create, Reserved, Emptied, Promised, Unannounced, Where
<1>4. Cardinality({}) = 0
  BY FS_EmptySet
<1>5. SlotsAccounted
  BY <1>2, <1>3, <1>4, Accounts, ChannelAssumption DEF mc_create
<1> QED BY <1>1, <1>5 DEF ChannelInv

\* What the count of the slots says: the ring has room for the process at
\* put_copy and a message for the one at get_copy, and no semaphore overflows.
LEMMA RoomAndMessage ==
    ASSUME ChannelInv
    PROVE  /\ Filled \in 0..Cap
           /\ \A p \in MCallers : /\ mpc[p] = "put_copy" => Filled < Cap
                                  /\ mpc[p] = "get_copy" => Filled > 0
                                  /\ mpc[p] = "put_post" => has_items < Cap
                                  /\ mpc[p] = "get_post" => has_space < Cap
<1>1. /\ MTypeOK /\ Cap \in Nat
      /\ has_space + Cardinality(Reserved) + Filled + Cardinality(Emptied) = Cap
      /\ has_items + Cardinality(Promised) + Cardinality(Unannounced) = Filled
  BY Accounts, ChannelAssumption DEF ChannelInv
<1>2. \A L : /\ Cardinality(Where(L)) \in Nat
             /\ \A p \in MCallers : mpc[p] \in L => Cardinality(Where(L)) > 0
  <2> SUFFICES ASSUME NEW L
               PROVE  /\ Cardinality(Where(L)) \in Nat
                      /\ \A p \in MCallers : mpc[p] \in L => Cardinality(Where(L)) > 0
    OBVIOUS
  <2>1. IsFiniteSet(Where(L)) /\ Cardinality(Where(L)) \in Nat
    <3>1. Where(L) \subseteq MCallers
      BY DEF Where
    <3> QED BY <3>1, ChannelAssumption, FS_Subset, FS_CardinalityType
  <2>2. \A p \in MCallers : mpc[p] \in L => Where(L) # {}
    BY DEF Where
  <2> QED BY <2>1, <2>2, FS_EmptySet
<1>3. /\ Cardinality(Reserved) \in Nat /\ Cardinality(Emptied) \in Nat
      /\ Cardinality(Promised) \in Nat /\ Cardinality(Unannounced) \in Nat
      /\ \A p \in MCallers : /\ mpc[p] = "put_copy" => Cardinality(Reserved) > 0
                             /\ mpc[p] = "get_copy" => Cardinality(Promised) > 0
                             /\ mpc[p] = "put_post" => Cardinality(Unannounced) > 0
                             /\ mpc[p] = "get_post" => Cardinality(Emptied) > 0
  BY <1>2 DEF Reserved, Emptied, Promised, Unannounced
<1>4. Filled \in Nat /\ has_space \in Nat /\ has_items \in Nat
  BY <1>1, FilledMoves DEF MTypeOK
<1> QED BY <1>1, <1>3, <1>4

\* How a step changes the four counts: only its process moves.
LEMMA CountsMove ==
    ASSUME MTypeOK, NEW p \in MCallers, mpc' = [mpc EXCEPT ![p] = mpc'[p]]
    PROVE  /\ Cardinality(Reserved) \in Nat /\ Cardinality(Emptied) \in Nat
           /\ Cardinality(Promised) \in Nat /\ Cardinality(Unannounced) \in Nat
           /\ Cardinality(Reserved') = Cardinality(Reserved)
                + At(mpc'[p], {"put_lock", "put_copy"})
                - At(mpc[p], {"put_lock", "put_copy"})
           /\ Cardinality(Emptied') = Cardinality(Emptied)
                + At(mpc'[p], {"get_unlock", "get_post"})
                - At(mpc[p], {"get_unlock", "get_post"})
           /\ Cardinality(Promised') = Cardinality(Promised)
                + At(mpc'[p], {"get_lock", "get_copy"})
                - At(mpc[p], {"get_lock", "get_copy"})
           /\ Cardinality(Unannounced') = Cardinality(Unannounced)
                + At(mpc'[p], {"put_unlock", "put_post"})
                - At(mpc[p], {"put_unlock", "put_post"})
<1>1. \A L : /\ Cardinality(Where(L)) \in Nat
             /\ Cardinality(Where(L)') = Cardinality(Where(L)) + At(mpc'[p], L) - At(mpc[p], L)
  BY Moves DEF MTypeOK
<1> QED BY <1>1 DEF Reserved, Emptied, Promised, Unannounced

\* The slots, and the messages, that a process at a label accounts for.
SlotOf(l) == IF l \in {"put_lock", "put_copy", "get_unlock", "get_post"} THEN 1 ELSE 0
MessageOf(l) == IF l \in {"get_lock", "get_copy", "put_unlock", "put_post"} THEN 1 ELSE 0

\* What the process gives up goes to the semaphores or to the indices.
Balanced(p) ==
    /\ has_space' \in Int /\ has_items' \in Int /\ Filled' \in Int
    /\ has_space' + SlotOf(mpc'[p]) + Filled' = has_space + SlotOf(mpc[p]) + Filled
    /\ has_items' + MessageOf(mpc'[p]) - Filled' = has_items + MessageOf(mpc[p]) - Filled

\* The slots stay accounted for by a balanced step.
LEMMA AccountsKept ==
    ASSUME ChannelInv, NEW p \in MCallers, mpc' = [mpc EXCEPT ![p] = mpc'[p]],
           Balanced(p)
    PROVE  SlotsAccounted'
<1>1. /\ has_space + Cardinality(Reserved) + Filled + Cardinality(Emptied) = Cap
      /\ has_items + Cardinality(Promised) + Cardinality(Unannounced) = Filled
      /\ has_space \in Int /\ has_items \in Int /\ Filled \in Int /\ Cap \in Int
  BY Accounts, ChannelAssumption, FilledMoves DEF ChannelInv, MTypeOK
<1>2. \A k : /\ At(k, {"put_lock", "put_copy"}) \in Int
             /\ At(k, {"get_unlock", "get_post"}) \in Int
             /\ At(k, {"get_lock", "get_copy"}) \in Int
             /\ At(k, {"put_unlock", "put_post"}) \in Int
             /\ SlotOf(k) = At(k, {"put_lock", "put_copy"}) + At(k, {"get_unlock", "get_post"})
             /\ MessageOf(k) = At(k, {"get_lock", "get_copy"}) + At(k, {"put_unlock", "put_post"})
  BY DEF At, SlotOf, MessageOf
<1>3. /\ has_space' + Cardinality(Reserved') + Filled' + Cardinality(Emptied') = Cap
      /\ has_items' + Cardinality(Promised') + Cardinality(Unannounced') = Filled'
  <2>1. MTypeOK
    BY DEF ChannelInv
  <2> QED BY <1>1, <1>2, <2>1, CountsMove DEF Balanced
<1> QED BY <1>3 DEF SlotsAccounted, Reserved, Emptied, Promised, Unannounced

\* Every step of every process keeps the invariant.
LEMMA ChannelInvStep == ChannelInv /\ [MNext]_mvars => ChannelInv'
<1> SUFFICES ASSUME ChannelInv, [MNext]_mvars PROVE ChannelInv'
  OBVIOUS
<1>1. /\ MTypeOK /\ MMutex /\ Cap \in Nat \ {0} /\ IdxMod \in Nat /\ Cap < IdxMod
      /\ Filled \in Nat /\ Filled' = (iput' - iget') % IdxMod
  BY ChannelAssumption, FilledMoves DEF ChannelInv, MTypeOK, Filled
<1>2. CASE UNCHANGED mvars
  BY <1>2 DEF mvars, ChannelInv, MTypeOK, MMutex, MInMutex, SlotsAccounted, Where, Filled
<1>3. SUFFICES ASSUME NEW p \in MCallers,
                      (\E m \in Messages : mc_put(p, m)) \/ mc_get(p) \/ ChannelStep(p)
               PROVE  MTypeOK' /\ MMutex' /\ SlotsAccounted'
  BY <1>2 DEF MNext, ChannelInv
<1> USE DEF mgoto
<1>own. mpc' = [mpc EXCEPT ![p] = mpc'[p]]
  BY <1>1, <1>3
  DEF MTypeOK, mc_put, mc_get, ChannelStep, put_wait_space, get_wait_items, mc_lock,
      put_copy, get_copy, mc_unlock, put_post_items, get_post_space
<1>int. has_space \in Int /\ has_items \in Int /\ Filled \in Int
  BY <1>1 DEF MTypeOK
<1>4. CASE \E m \in Messages : mc_put(p, m)
  <2>1. MTypeOK' /\ MMutex'
    BY <1>1, <1>4 DEF mc_put, MTypeOK, MMutex, MInMutex
  <2>2. mpc[p] = "out" /\ mpc'[p] = "put_wait"
    BY <1>1, <1>4 DEF MTypeOK, mc_put
  <2>3. UNCHANGED <<has_space, has_items>> /\ Filled' = Filled
    BY <1>4 DEF mc_put, Filled
  <2>4. Balanced(p)
    BY <1>int, <2>1, <2>2, <2>3 DEF Balanced, SlotOf, MessageOf
  <2> QED BY <1>own, <2>4, <2>1, AccountsKept
<1>5. CASE mc_get(p)
  <2>1. MTypeOK' /\ MMutex'
    BY <1>1, <1>5 DEF mc_get, MTypeOK, MMutex, MInMutex
  <2>2. mpc[p] = "out" /\ mpc'[p] = "get_wait"
    BY <1>1, <1>5 DEF MTypeOK, mc_get
  <2>3. UNCHANGED <<has_space, has_items>> /\ Filled' = Filled
    BY <1>5 DEF mc_get, Filled
  <2>4. Balanced(p)
    BY <1>int, <2>1, <2>2, <2>3 DEF Balanced, SlotOf, MessageOf
  <2> QED BY <1>own, <2>4, <2>1, AccountsKept
<1>6. CASE put_wait_space(p)
  <2>1. MTypeOK' /\ MMutex'
    BY <1>1, <1>6 DEF put_wait_space, MTypeOK, MMutex, MInMutex
  <2>2. mpc[p] = "put_wait" /\ mpc'[p] = "put_lock"
    BY <1>1, <1>6 DEF MTypeOK, put_wait_space
  <2>3. has_space' = has_space - 1 /\ has_items' = has_items /\ Filled' = Filled
    BY <1>6 DEF put_wait_space, Filled
  <2>4. Balanced(p)
    BY <1>int, <2>1, <2>2, <2>3 DEF Balanced, SlotOf, MessageOf
  <2> QED BY <1>own, <2>4, <2>1, AccountsKept
<1>7. CASE get_wait_items(p)
  <2>1. MTypeOK' /\ MMutex'
    BY <1>1, <1>7 DEF get_wait_items, MTypeOK, MMutex, MInMutex
  <2>2. mpc[p] = "get_wait" /\ mpc'[p] = "get_lock"
    BY <1>1, <1>7 DEF MTypeOK, get_wait_items
  <2>3. has_items' = has_items - 1 /\ has_space' = has_space /\ Filled' = Filled
    BY <1>7 DEF get_wait_items, Filled
  <2>4. Balanced(p)
    BY <1>int, <2>1, <2>2, <2>3 DEF Balanced, SlotOf, MessageOf
  <2> QED BY <1>own, <2>4, <2>1, AccountsKept
<1>8. CASE mc_lock(p)
  <2>1. \/ mpc[p] = "put_lock" /\ mpc'[p] = "put_copy"
        \/ mpc[p] = "get_lock" /\ mpc'[p] = "get_copy"
    BY <1>1, <1>8 DEF MTypeOK, mc_lock
  <2>2. MTypeOK' /\ MMutex'
    BY <1>1, <1>8, <2>1, ChannelAssumption DEF mc_lock, MTypeOK, MMutex, MInMutex
  <2>3. UNCHANGED <<has_space, has_items>> /\ Filled' = Filled
    BY <1>8 DEF mc_lock, Filled
  <2>4. Balanced(p)
    BY <1>int, <2>1, <2>2, <2>3 DEF Balanced, SlotOf, MessageOf
  <2> QED BY <1>own, <2>4, <2>2, AccountsKept
<1>9. CASE put_copy(p)
  <2>1. Filled < Cap /\ Filled' = Filled + 1 /\ Incr(iput) \in 0..(IdxMod - 1)
    BY <1>1, <1>9, RoomAndMessage, FilledMoves DEF put_copy, MTypeOK
  <2>2. iput % Cap \in 0..(Cap - 1)
    BY <1>1 DEF MTypeOK
  <2>3. MTypeOK' /\ MMutex'
    BY <1>1, <1>9, <2>1, <2>2 DEF put_copy, MTypeOK, MMutex, MInMutex
  <2>4. mpc[p] = "put_copy" /\ mpc'[p] = "put_unlock"
    BY <1>1, <1>9 DEF MTypeOK, put_copy
  <2>5. UNCHANGED <<has_space, has_items>>
    BY <1>9 DEF put_copy
  <2>6. Balanced(p)
    BY <1>int, <2>1, <2>3, <2>4, <2>5 DEF Balanced, SlotOf, MessageOf
  <2> QED BY <1>own, <2>6, <2>3, AccountsKept
<1>10. CASE get_copy(p)
  <2>1. Filled > 0 /\ Filled' = Filled - 1 /\ Incr(iget) \in 0..(IdxMod - 1)
    BY <1>1, <1>10, RoomAndMessage, FilledMoves DEF get_copy, MTypeOK
  <2>2. iget % Cap \in 0..(Cap - 1)
    BY <1>1 DEF MTypeOK
  <2>3. MTypeOK' /\ MMutex'
    BY <1>1, <1>10, <2>1, <2>2 DEF get_copy, MTypeOK, MMutex, MInMutex
  <2>4. mpc[p] = "get_copy" /\ mpc'[p] = "get_unlock"
    BY <1>1, <1>10 DEF MTypeOK, get_copy
  <2>5. UNCHANGED <<has_space, has_items>>
    BY <1>10 DEF get_copy
  <2>6. Balanced(p)
    BY <1>int, <2>1, <2>3, <2>4, <2>5 DEF Balanced, SlotOf, MessageOf
  <2> QED BY <1>own, <2>6, <2>3, AccountsKept
<1>11. CASE mc_unlock(p)
  <2>1. \/ mpc[p] = "put_unlock" /\ mpc'[p] = "put_post"
        \/ mpc[p] = "get_unlock" /\ mpc'[p] = "get_post"
    BY <1>1, <1>11 DEF MTypeOK, mc_unlock
  <2>2. MTypeOK' /\ MMutex'
    BY <1>1, <1>11, <2>1, ChannelAssumption DEF mc_unlock, MTypeOK, MMutex, MInMutex
  <2>3. UNCHANGED <<has_space, has_items>> /\ Filled' = Filled
    BY <1>11 DEF mc_unlock, Filled
  <2>4. Balanced(p)
    BY <1>int, <2>1, <2>2, <2>3 DEF Balanced, SlotOf, MessageOf
  <2> QED BY <1>own, <2>4, <2>2, AccountsKept
<1>12. CASE put_post_items(p)
  <2>1. has_items < Cap
    BY <1>12, RoomAndMessage DEF put_post_items
  <2>2. MTypeOK' /\ MMutex'
    BY <1>1, <1>12, <2>1 DEF put_post_items, MTypeOK, MMutex, MInMutex
  <2>3. mpc[p] = "put_post" /\ mpc'[p] = "out"
    BY <1>1, <1>12 DEF MTypeOK, put_post_items
  <2>4. has_items' = has_items + 1 /\ has_space' = has_space /\ Filled' = Filled
    BY <1>12 DEF put_post_items, Filled
  <2>5. Balanced(p)
    BY <1>int, <2>2, <2>3, <2>4 DEF Balanced, SlotOf, MessageOf
  <2> QED BY <1>own, <2>5, <2>2, AccountsKept
<1>13. CASE get_post_space(p)
  <2>1. has_space < Cap
    BY <1>13, RoomAndMessage DEF get_post_space
  <2>2. MTypeOK' /\ MMutex'
    BY <1>1, <1>13, <2>1 DEF get_post_space, MTypeOK, MMutex, MInMutex
  <2>3. mpc[p] = "get_post" /\ mpc'[p] = "out"
    BY <1>1, <1>13 DEF MTypeOK, get_post_space
  <2>4. has_space' = has_space + 1 /\ has_items' = has_items /\ Filled' = Filled
    BY <1>13 DEF get_post_space, Filled
  <2>5. Balanced(p)
    BY <1>int, <2>2, <2>3, <2>4 DEF Balanced, SlotOf, MessageOf
  <2> QED BY <1>own, <2>5, <2>2, AccountsKept
<1> QED
  BY <1>3, <1>4, <1>5, <1>6, <1>7, <1>8, <1>9, <1>10, <1>11, <1>12, <1>13
  DEF ChannelStep

-----------------------------------------------------------------------------
(***************************************************************************)
(* The channel as a blocking FIFO                                          *)
(***************************************************************************)

\* The slot of the k-th filled one, and its index.
Index(k) == (iget + k - 1) % IdxMod
SlotAt(k) == Index(k) % Cap

\* The contents are a sequence of what the slots hold.
LEMMA ContentsAreItems ==
    ASSUME ChannelInv
    PROVE  /\ Filled \in 0..Cap
           /\ Contents \in Seq(Messages \cup {NoMessage})
           /\ Len(Contents) = Filled
           /\ \A k \in 1..Filled : SlotAt(k) \in 0..(Cap - 1) /\ Contents[k] = items[SlotAt(k)]
<1>1. /\ Filled \in Nat /\ iget \in Nat /\ Cap \in Nat \ {0} /\ IdxMod \in Nat /\ IdxMod > 0
      /\ items \in [0..(Cap - 1) -> Messages \cup {NoMessage}]
      /\ iput \in 0..(IdxMod - 1) /\ iget \in 0..(IdxMod - 1)
  BY ChannelAssumption, FilledMoves DEF ChannelInv, MTypeOK
<1>2. \A k \in 1..Filled : SlotAt(k) \in 0..(Cap - 1)
  <2> SUFFICES ASSUME NEW k \in 1..Filled PROVE SlotAt(k) \in 0..(Cap - 1)
    OBVIOUS
  <2>1. Index(k) \in Int
    BY <1>1, ModRange DEF Index
  <2> QED BY <1>1, <2>1, ModRange DEF SlotAt
<1>3. Contents = [k \in 1..Filled |-> items[SlotAt(k)]]
  BY DEF Contents, SlotAt, Index
<1>4. Contents \in [1..Filled -> Messages \cup {NoMessage}]
  BY <1>1, <1>2, <1>3
<1>5. Contents \in Seq(Messages \cup {NoMessage}) /\ Len(Contents) = Filled
  BY <1>1, <1>4
<1>6. Filled \in 0..Cap
  BY RoomAndMessage
<1> QED BY <1>1, <1>2, <1>3, <1>5, <1>6

\* The copy of mc_put goes behind the filled slots and touches none of them.
LEMMA PutAppends ==
    ASSUME ChannelInv, NEW p \in MCallers, put_copy(p)
    PROVE  Contents' = Append(Contents, mitem[p])
<1>1. /\ Filled \in Nat /\ Cap \in Nat \ {0} /\ IdxMod \in Nat /\ Cap < IdxMod
      /\ iget \in 0..(IdxMod - 1) /\ iput \in 0..(IdxMod - 1)
      /\ Filled < Cap /\ Filled' = Filled + 1 /\ (iget + Filled) % IdxMod = iput
      /\ mitem[p] \in Messages \cup {NoMessage}
  <2>1. /\ Cap \in Nat \ {0} /\ IdxMod \in Nat /\ Cap < IdxMod
        /\ iget \in 0..(IdxMod - 1) /\ iput \in 0..(IdxMod - 1)
        /\ mitem[p] \in Messages \cup {NoMessage}
    BY ChannelAssumption DEF ChannelInv, MTypeOK
  <2>2. Filled < Cap /\ Filled' = (Incr(iput) - iget) % IdxMod
    BY RoomAndMessage DEF put_copy, Filled
  <2> QED BY <2>1, <2>2, FilledMoves
<1>2. Contents' = [k \in 1..(Filled + 1) |-> items'[SlotAt(k)]]
  BY <1>1 DEF put_copy, Contents, SlotAt, Index
<1>3. items' = [items EXCEPT ![iput % Cap] = mitem[p]]
  BY DEF put_copy
<1>4. SlotAt(Filled + 1) = iput % Cap
  BY <1>1 DEF SlotAt, Index
<1>5. ASSUME NEW k \in 1..Filled PROVE SlotAt(k) # iput % Cap
  <2> DEFINE i == Index(k)
             d == Filled - k + 1
  <2>1. i = IF iget + k - 1 < IdxMod THEN iget + k - 1 ELSE iget + k - 1 - IdxMod
    BY <1>1, ModNear DEF Index
  <2>2. i \in 0..(IdxMod - 1) /\ d \in 1..(Cap - 1)
    BY <1>1, <2>1
  <2>3. iput = IF iget + Filled < IdxMod THEN iget + Filled ELSE iget + Filled - IdxMod
    BY <1>1, ModNear
  <2>4. (i + d) % IdxMod = iput
    <3>1. i + d = IF iget + k - 1 < IdxMod THEN iget + Filled ELSE iget + Filled - IdxMod
      BY <1>1, <2>1
    <3>2. iget + Filled - IdxMod >= 0 => (iget + Filled - IdxMod) % IdxMod = iget + Filled - IdxMod
      BY <1>1, ModNear
    <3> QED BY <1>1, <2>3, <3>1, <3>2
  <2> HIDE DEF i, d
  <2>5. i % Cap # iput % Cap
    BY <2>2, <2>4, SlotsDiffer
  <2> QED BY <2>5 DEF SlotAt, i
<1>6. /\ Contents \in Seq(Messages \cup {NoMessage}) /\ Len(Contents) = Filled
      /\ \A k \in 1..Filled : SlotAt(k) \in 0..(Cap - 1) /\ Contents[k] = items[SlotAt(k)]
  BY ContentsAreItems
<1>7. DOMAIN items = 0..(Cap - 1) /\ iput % Cap \in 0..(Cap - 1)
  BY <1>1, ModRange DEF ChannelInv, MTypeOK
<1>8. \A k \in 1..(Filled + 1) :
        items'[SlotAt(k)] = IF k = Filled + 1 THEN mitem[p] ELSE Contents[k]
  BY <1>1, <1>3, <1>4, <1>5, <1>6, <1>7
<1>9. Append(Contents, mitem[p])
        = [k \in 1..(Filled + 1) |-> IF k = Filled + 1 THEN mitem[p] ELSE Contents[k]]
  BY <1>1, <1>6
<1> QED BY <1>2, <1>8, <1>9

\* The copy of mc_get is of the oldest message, and leaves the others in order.
LEMMA GetTakesHead ==
    ASSUME ChannelInv, NEW p \in MCallers, get_copy(p)
    PROVE  /\ Contents # <<>> /\ Contents' = Tail(Contents)
           /\ mitem' = [mitem EXCEPT ![p] = Head(Contents)]
<1>1. /\ Filled \in Nat /\ Cap \in Nat \ {0} /\ IdxMod \in Nat /\ Cap < IdxMod
      /\ iget \in 0..(IdxMod - 1) /\ iput \in 0..(IdxMod - 1)
      /\ Filled > 0 /\ Filled <= Cap /\ Filled' = Filled - 1
  <2>1. /\ Cap \in Nat \ {0} /\ IdxMod \in Nat /\ Cap < IdxMod
        /\ iget \in 0..(IdxMod - 1) /\ iput \in 0..(IdxMod - 1)
    BY ChannelAssumption DEF ChannelInv, MTypeOK
  <2>2. Filled > 0 /\ Filled <= Cap /\ Filled' = (iput - Incr(iget)) % IdxMod
    BY RoomAndMessage DEF get_copy, Filled
  <2> QED BY <2>1, <2>2, FilledMoves
<1>2. Contents' = [k \in 1..(Filled - 1) |-> items[((Incr(iget) + k - 1) % IdxMod) % Cap]]
  BY <1>1 DEF get_copy, Contents
<1>3. ASSUME NEW k \in 1..(Filled - 1)
      PROVE  (Incr(iget) + k - 1) % IdxMod = Index(k + 1)
  <2>1. Incr(iget) = IF iget + 1 < IdxMod THEN iget + 1 ELSE 0
    BY <1>1, ModNear DEF Incr
  <2>2. Index(k + 1) = IF iget + k < IdxMod THEN iget + k ELSE iget + k - IdxMod
    <3>1. iget + (k + 1) - 1 = iget + k
      BY <1>1
    <3> QED BY <1>1, <3>1, ModNear DEF Index
  <2>3. (k - 1) % IdxMod = k - 1
    BY <1>1, ModNear
  <2>4. (iget + k) % IdxMod = IF iget + k < IdxMod THEN iget + k ELSE iget + k - IdxMod
    BY <1>1, ModNear
  <2>5. CASE iget + 1 < IdxMod
    <3>1. Incr(iget) + k - 1 = iget + k
      BY <1>1, <2>1, <2>5
    <3> QED BY <3>1, <2>2, <2>4
  <2>6. CASE ~(iget + 1 < IdxMod)
    <3>1. Incr(iget) + k - 1 = k - 1 /\ iget = IdxMod - 1
      BY <1>1, <2>1, <2>6
    <3> QED BY <1>1, <3>1, <2>2, <2>3
  <2> QED BY <2>5, <2>6
<1>4. /\ Contents \in Seq(Messages \cup {NoMessage}) /\ Len(Contents) = Filled
      /\ \A k \in 1..Filled : Contents[k] = items[SlotAt(k)]
  BY ContentsAreItems
<1>5. \A k \in 1..(Filled - 1) : items[((Incr(iget) + k - 1) % IdxMod) % Cap] = Contents[k + 1]
  BY <1>1, <1>3, <1>4 DEF SlotAt
<1>6. Tail(Contents) = [k \in 1..(Filled - 1) |-> Contents[k + 1]]
  <2>1. Contents # <<>>
    BY <1>1, <1>4
  <2>2. /\ Tail(Contents) \in Seq(Messages \cup {NoMessage})
        /\ Len(Tail(Contents)) = Filled - 1
        /\ \A k \in 1..Len(Tail(Contents)) : Tail(Contents)[k] = Contents[k + 1]
    BY <1>4, <2>1
  <2> DEFINE r == Tail(Contents)
  <2> HIDE DEF r
  <2>3. r \in Seq(Messages \cup {NoMessage}) /\ Len(r) = Filled - 1
    BY <2>2 DEF r
  <2>4. r = [k \in 1..(Filled - 1) |-> r[k]]
    BY <2>3
  <2> QED BY <2>2, <2>4 DEF r
<1>7. Contents' = Tail(Contents)
  BY <1>2, <1>5, <1>6
<1>8. Contents[1] = items[iget % Cap] /\ Contents # <<>> /\ Head(Contents) = Contents[1]
  <2>1. Index(1) = iget
    BY <1>1, ModNear DEF Index
  <2> QED BY <1>1, <1>4, <2>1 DEF SlotAt
<1> QED BY <1>7, <1>8 DEF get_copy

\* Initially the channel is empty and nobody is in a call.
LEMMA ChannelFifoInit == mc_create => Fifo!AInit
<1> SUFFICES ASSUME mc_create PROVE Fifo!AInit
  OBVIOUS
<1> DEFINE call == [p \in MCallers |-> [op |-> ChannelOp(p), item |-> mitem[p]]]
<1>1. ChannelInv
  BY ChannelInvInit
<1>2. Filled = 0
  BY ModNear, ChannelAssumption DEF mc_create, Filled
<1>3. Contents = <<>>
  BY <1>1, <1>2, ContentsAreItems
<1>4. \A p \in MCallers : ChannelOp(p) = "idle" /\ mitem[p] = NoMessage
  BY DEF mc_create, ChannelOp
<1>5. call \in [MCallers -> [op : {"idle"}, item : Messages \cup {NoMessage}]]
  BY <1>4
<1> QED BY <1>3, <1>5 DEF Fifo!AInit

\* A step of a process changes only its own call.
LEMMA OwnCall ==
    ASSUME ChannelInv, NEW p \in MCallers,
           (\E m \in Messages : mc_put(p, m)) \/ mc_get(p) \/ ChannelStep(p)
    PROVE  /\ DOMAIN mpc = MCallers /\ DOMAIN mitem = MCallers
           /\ \A d \in MCallers : d # p => mpc'[d] = mpc[d] /\ mitem'[d] = mitem[d]
BY DEF ChannelInv, MTypeOK, mc_put, mc_get, ChannelStep, put_wait_space,
       get_wait_items, mc_lock, put_copy, get_copy, mc_unlock, put_post_items,
       get_post_space, mgoto

\* Every step of a process is a step of the FIFO or leaves it alone: a put and
\* a get take effect at their copies, under the lock.
LEMMA ChannelFifoStep ==
    ASSUME ChannelInv, [MNext]_mvars
    PROVE  [Fifo!ANext]_Fifo!avars
<1> DEFINE Call(p) == [op |-> ChannelOp(p), item |-> mitem[p]]
           call == [p \in MCallers |-> Call(p)]
<1>1. DOMAIN mpc = MCallers /\ DOMAIN mitem = MCallers
  BY DEF ChannelInv, MTypeOK
<1>2. CASE UNCHANGED mvars
  <2>1. call' = call /\ Contents' = Contents
    BY <1>2 DEF mvars, ChannelOp, Contents, Filled
  <2> QED BY <2>1 DEF Fifo!avars
<1>3. ASSUME NEW p \in MCallers, NEW m \in Messages, mc_put(p, m)
      PROVE  Fifo!BeginPut(p, m)
  <2>1. \A d \in MCallers : d # p => Call(d)' = Call(d)
    BY <1>3, OwnCall DEF ChannelOp
  <2>2. Call(p).op = "idle" /\ Call(p)' = [op |-> "put", item |-> m]
    BY <1>1, <1>3 DEF mc_put, mgoto, ChannelOp
  <2>3. Contents' = Contents
    BY <1>3 DEF mc_put, Contents, Filled
  <2>4. call' = [call EXCEPT ![p] = [op |-> "put", item |-> m]]
    BY <2>1, <2>2
  <2> QED BY <2>2, <2>3, <2>4 DEF Fifo!BeginPut
<1>4. ASSUME NEW p \in MCallers, mc_get(p)
      PROVE  Fifo!BeginGet(p)
  <2>1. \A d \in MCallers : d # p => Call(d)' = Call(d)
    BY <1>4, OwnCall DEF ChannelOp
  <2>2. Call(p).op = "idle" /\ Call(p)' = [Call(p) EXCEPT !.op = "get"]
    BY <1>1, <1>4 DEF mc_get, mgoto, ChannelOp
  <2>3. Contents' = Contents
    BY <1>4 DEF mc_get, Contents, Filled
  <2>4. call' = [call EXCEPT ![p].op = "get"]
    BY <2>1, <2>2
  <2> QED BY <2>2, <2>3, <2>4 DEF Fifo!BeginGet
<1>5. ASSUME NEW p \in MCallers, put_copy(p)
      PROVE  Fifo!Put(p)
  <2>1. \A d \in MCallers : d # p => Call(d)' = Call(d)
    BY <1>5, OwnCall DEF ChannelOp, ChannelStep
  <2>2. Call(p).op = "put" /\ Call(p)' = [Call(p) EXCEPT !.op = "idle"]
    BY <1>1, <1>5 DEF put_copy, mgoto, ChannelOp
  <2>3. Contents' = Append(Contents, Call(p).item)
    BY <1>5, PutAppends
  <2>4. call' = [call EXCEPT ![p].op = "idle"]
    BY <2>1, <2>2
  <2>5. Len(Contents) < Cap
    BY <1>5, RoomAndMessage, ContentsAreItems DEF put_copy
  <2> QED BY <2>2, <2>3, <2>4, <2>5 DEF Fifo!Put
<1>6. ASSUME NEW p \in MCallers, get_copy(p)
      PROVE  Fifo!Get(p)
  <2>1. \A d \in MCallers : d # p => Call(d)' = Call(d)
    BY <1>6, OwnCall DEF ChannelOp, ChannelStep
  <2>2. Contents # <<>> /\ Contents' = Tail(Contents)
        /\ mitem' = [mitem EXCEPT ![p] = Head(Contents)]
    BY <1>6, GetTakesHead
  <2>3. Call(p).op = "get" /\ Call(p)' = [op |-> "idle", item |-> Head(Contents)]
    BY <1>1, <1>6, <2>2 DEF get_copy, mgoto, ChannelOp
  <2>4. call' = [call EXCEPT ![p] = [op |-> "idle", item |-> Head(Contents)]]
    BY <2>1, <2>3
  <2> QED BY <2>2, <2>3, <2>4 DEF Fifo!Get
<1>7. ASSUME NEW p \in MCallers,
             \/ put_wait_space(p) \/ get_wait_items(p) \/ mc_lock(p)
             \/ mc_unlock(p) \/ put_post_items(p) \/ get_post_space(p)
      PROVE  UNCHANGED Fifo!avars
  <2>1. \A d \in MCallers : d # p => Call(d)' = Call(d)
    BY <1>7, OwnCall DEF ChannelOp, ChannelStep
  <2>2. UNCHANGED <<iput, iget, items, mitem>>
    BY <1>7 DEF put_wait_space, get_wait_items, mc_lock, mc_unlock,
                put_post_items, get_post_space
  <2>3. ChannelOp(p)' = ChannelOp(p)
    BY <1>1, <1>7
    DEF put_wait_space, get_wait_items, mc_lock, mc_unlock, put_post_items,
        get_post_space, mgoto, ChannelOp
  <2>4. call' = call /\ Contents' = Contents
    BY <2>1, <2>2, <2>3 DEF Contents, Filled
  <2> QED BY <2>4 DEF Fifo!avars
<1> QED
  BY <1>2, <1>3, <1>4, <1>5, <1>6, <1>7 DEF MNext, ChannelStep, Fifo!ANext

-----------------------------------------------------------------------------

\* In every reachable state one process at a time is inside mc->lock and every
\* slot of the ring is accounted for: the semaphores never admit a process
\* that would overwrite a message or read an empty slot, also across the wrap
\* of the indices.
THEOREM ChannelIsSafe == MSpec => []ChannelInv
BY ChannelInvInit, ChannelInvStep, PTL DEF MSpec

\* memchannel.c implements the blocking FIFO of its capacity: no message is
\* lost, overwritten, duplicated or reordered, also across the wrap of the
\* indices.
THEOREM ChannelImplementsFifo == MSpec => Fifo!ASpec
<1>1. mc_create => ChannelInv /\ Fifo!AInit
  BY ChannelInvInit, ChannelFifoInit
<1>2. ChannelInv /\ [MNext]_mvars => ChannelInv'
  BY ChannelInvStep
<1>3. ChannelInv /\ [MNext]_mvars => [Fifo!ANext]_Fifo!avars
  BY ChannelFifoStep
<1> QED BY <1>1, <1>2, <1>3, PTL DEF MSpec, Fifo!ASpec
=============================================================================
