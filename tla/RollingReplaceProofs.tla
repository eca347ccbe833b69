------------------------- MODULE RollingReplaceProofs -------------------------
(***************************************************************************)
(* What a rolling update keeps for any size of the group and any policy.   *)
(*                                                                         *)
(* The argument: the group is always a range lo..(next - 1) of instances   *)
(* in the order of their creation, and those that have the old definition  *)
(* are a range p..q in it.  A batch cuts off the group below First, and    *)
(* renews the old ones from Start to Stop.  The rest is counting.          *)
(***************************************************************************)
EXTENDS RollingReplace, FiniteSetTheorems, TLAPS

(* The first instance that a template for n instances keeps; the first and *)
(* the last that it renews.                                                *)
First(lo, n) == Greater(lo, next - n)
Start(lo, p, n) == Greater(First(lo, n), p)
Stop(lo, p, q, n, b) ==
  Greater(Start(lo, p, n) - 1,
          Lesser(q, Start(lo, p, n) + b - (n - (next - First(lo, n))) - 1))

(* If instances are replaced, the old ones are the oldest ones.            *)
Shape(lo, p, q) ==
  /\ lo \in Nat /\ p \in Nat /\ q \in Int
  /\ lo <= p /\ p <= next /\ q < next
  /\ group = lo..(next - 1)
  /\ group \ fresh = p..q
  /\ ~inPlace => p = lo

Policy ==
  /\ 0 < batch /\ batch <= capacity /\ least <= capacity
  /\ remainder <= capacity
  /\ effective \in {capacity, Raised(capacity, batch, least)}

(* Before the first batch the group is as it was found. *)
AtFirst(lo, p, q) ==
  /\ remainder = capacity
  /\ effective = Raised(capacity, batch, least)
  /\ next - lo = capacity - broken
  /\ p = lo /\ q = next - 1

(* The temporary capacity goes when the minimum is renewed, or is not      *)
(* needed.                                                                 *)
Extent ==
  effective = capacity =>
    capacity - remainder >= least \/ capacity - batch >= least

(* After a batch the group has the effective capacity, and has as many old *)
(* instances as remain, and at most the temporary ones on top.             *)
AfterBatch(lo, p, q) ==
  /\ next - lo = effective
  /\ q - p + 1 <= Greater(remainder, 0) + (effective - capacity)
  /\ Extent

Looping ==
  pc \in {"loop", "pause"} =>
    /\ changing = {}
    /\ Policy
    /\ \E lo, p, q \in Int :
         Shape(lo, p, q) /\ (AtFirst(lo, p, q) \/ AfterBatch(lo, p, q))

(* The batch under way, and how many old instances it will leave. *)
Planned(lo, p, q) ==
  LET n == effective
      k == First(lo, n)
      x == Start(lo, p, n)
      y == Stop(lo, p, q, n, batch)
  IN /\ changing = (lo..(k - 1)) \cup (x..y)
     /\ create = n - (next - k)
     /\ q - y <= Greater(remainder - batch, 0) + (n - capacity)

Updating ==
  pc = "update" =>
    /\ Policy /\ Extent
    /\ balanced = group \ changing
    /\ \E lo, p, q \in Int : Shape(lo, p, q) /\ Planned(lo, p, q)

Starting ==
  pc = "start" =>
    /\ group = 1..(next - 1) /\ 1 <= next
    /\ fresh = {} /\ balanced = group /\ changing = {}
    /\ batch = 0 /\ least = 0 /\ pause = 0 /\ paused = 0

(* With a batch size that is not negative. *)
Typed == TypeOK /\ batch \in Nat

IInv ==
  /\ Typed /\ IsFiniteSet(balanced)
  /\ Starting /\ Looping /\ Updating
  /\ EnoughInService /\ BatchBounded /\ AllReplaced
-----------------------------------------------------------------------------
(* The size of a range, however it is written. *)
LEMMA RangeSize ==
  ASSUME NEW lo \in Int, NEW hi \in Int
  PROVE  /\ IsFiniteSet(lo..hi)
         /\ Cardinality(lo..hi) = Greater(hi - lo + 1, 0)
BY FS_Interval DEF Greater

(* The youngest n of a range are a range. *)
LEMMA YoungestRange ==
  ASSUME NEW lo \in Int, NEW hi \in Int, NEW n \in Int
  PROVE  Youngest(n, lo..hi) = Greater(lo, hi - n + 1)..hi
<1>1. ASSUME NEW i \in lo..hi
      PROVE  Cardinality({j \in lo..hi : j >= i}) = hi - i + 1
  <2>1. {j \in lo..hi : j >= i} = i..hi
    OBVIOUS
  <2>2. i \in Int /\ Greater(hi - i + 1, 0) = hi - i + 1
    BY DEF Greater
  <2> QED BY <2>1, <2>2, RangeSize
<1>2. Youngest(n, lo..hi) = {i \in lo..hi : hi - i + 1 <= n}
  BY <1>1 DEF Youngest
<1>3. {i \in lo..hi : hi - i + 1 <= n} = Greater(lo, hi - n + 1)..hi
  <2>1. Greater(lo, hi - n + 1) \in Int
    BY DEF Greater
  <2>2. ASSUME NEW i \in Int
        PROVE  i \in lo..hi /\ hi - i + 1 <= n <=> i \in Greater(lo, hi - n + 1)..hi
    BY DEF Greater
  <2>3. lo..hi \subseteq Int /\ Greater(lo, hi - n + 1)..hi \subseteq Int
    BY <2>1
  <2> QED BY <2>2, <2>3
<1> QED BY <1>2, <1>3

(* So are the oldest. *)
LEMMA OldestRange ==
  ASSUME NEW lo \in Int, NEW hi \in Int, NEW n \in Int
  PROVE  Oldest(n, lo..hi) = lo..Lesser(hi, lo + n - 1)
<1>1. ASSUME NEW i \in lo..hi
      PROVE  Cardinality({j \in lo..hi : j <= i}) = i - lo + 1
  <2>1. {j \in lo..hi : j <= i} = lo..i
    OBVIOUS
  <2>2. i \in Int /\ Greater(i - lo + 1, 0) = i - lo + 1
    BY DEF Greater
  <2> QED BY <2>1, <2>2, RangeSize
<1>2. Oldest(n, lo..hi) = {i \in lo..hi : i - lo + 1 <= n}
  BY <1>1 DEF Oldest
<1>3. {i \in lo..hi : i - lo + 1 <= n} = lo..Lesser(hi, lo + n - 1)
  <2>1. Lesser(hi, lo + n - 1) \in Int
    BY DEF Lesser
  <2>2. ASSUME NEW i \in Int
        PROVE  i \in lo..hi /\ i - lo + 1 <= n <=> i \in lo..Lesser(hi, lo + n - 1)
    BY DEF Lesser
  <2>3. lo..hi \subseteq Int /\ lo..Lesser(hi, lo + n - 1) \subseteq Int
    BY <2>1
  <2> QED BY <2>2, <2>3
<1> QED BY <1>2, <1>3

(* What a template for n instances keeps and renews. *)
LEMMA TemplateRanges ==
  ASSUME next \in Nat, NEW lo, NEW p, NEW q, Shape(lo, p, q),
         NEW n \in Nat, NEW b \in Nat
  PROVE  /\ Kept(n) = First(lo, n)..(next - 1)
         /\ Missing(n) = n - (next - First(lo, n))
         /\ Missing(n) \in Nat
         /\ Redefined(n, b) = Start(lo, p, n)..Stop(lo, p, q, n, b)
<1> DEFINE k == First(lo, n)
           x == Start(lo, p, n)
           m == n - (next - k)
<1>0. /\ lo \in Int /\ p \in Int /\ q \in Int /\ group = lo..(next - 1)
      /\ lo <= next /\ lo <= p /\ p <= next /\ group \ fresh = p..q
  BY DEF Shape
<1>1. /\ k \in Int /\ x \in Int /\ m \in Nat /\ lo <= k /\ k <= next
      /\ k <= x /\ p <= x /\ x \in {k, p}
  BY <1>0 DEF First, Start, Greater
<1>2. Kept(n) = k..(next - 1)
  BY <1>0, YoungestRange DEF Kept, First
<1>3. Cardinality(Kept(n)) = next - k
  BY <1>1, <1>2, RangeSize DEF Greater
<1>4. Missing(n) = m
  BY <1>3 DEF Missing
<1>5. Kept(n) \ fresh = x..q
  <2>1. Kept(n) \ fresh = (group \ fresh) \cap (k..(next - 1))
    BY <1>0, <1>1, <1>2
  <2>2. \A i \in p..q : i \in group
    BY <1>0
  <2> QED BY <1>0, <1>1, <2>1, <2>2
<1>6. Redefined(n, b) = x..Lesser(q, x + (b - m) - 1)
  <2>1. b - m \in Int
    BY <1>1
  <2>2. Redefined(n, b) = Oldest(b - m, x..q)
    BY <1>4, <1>5 DEF Redefined
  <2> HIDE DEF x, m
  <2> QED BY <1>0, <1>1, <2>1, <2>2, OldestRange
<1>7. x..Lesser(q, x + (b - m) - 1) = x..Stop(lo, p, q, n, b)
  <2> DEFINE z == Lesser(q, x + (b - m) - 1)
  <2>1. z \in Int /\ z = Lesser(q, x + b - m - 1)
    BY <1>0, <1>1 DEF Lesser
  <2>2. Stop(lo, p, q, n, b) = Greater(x - 1, z)
    BY <2>1 DEF Stop
  <2>3. x..z = x..Greater(x - 1, z)
    <3>1. ASSUME NEW u \in Int, NEW v \in Int
          PROVE  u..v = u..Greater(u - 1, v)
      BY DEF Greater
    <3> HIDE DEF x, z
    <3> QED BY <1>1, <2>1, <3>1
  <2> QED BY <2>2, <2>3
<1> QED BY <1>1, <1>2, <1>4, <1>6, <1>7

(* Where the ranges of a template lie. *)
LEMMA RangesLie ==
  ASSUME next \in Nat, NEW lo, NEW p, NEW q, Shape(lo, p, q),
         NEW n \in Nat, NEW b \in Nat
  PROVE  LET k == First(lo, n)
             x == Start(lo, p, n)
             y == Stop(lo, p, q, n, b)
         IN /\ k \in Nat /\ x \in Nat /\ y \in Int
            /\ lo <= k /\ k <= x /\ p <= x /\ k <= next /\ next - k <= n
            /\ x - 1 <= y /\ y < next
            /\ ~inPlace => x = k
            /\ x = k \/ x = p
            /\ x..y \subseteq p..q
<1>1. /\ lo \in Nat /\ p \in Nat /\ q \in Int
      /\ lo <= p /\ p <= next /\ q < next /\ (~inPlace => p = lo)
  BY DEF Shape
<1> QED BY <1>1 DEF First, Start, Stop, Greater, Lesser

(* The counting: what is left of the old instances after a batch, and, if  *)
(* instances are replaced, how many it takes and how many it leaves.       *)
LEMMA BatchCounts ==
  ASSUME Typed, Policy, NEW lo, NEW p, NEW q, Shape(lo, p, q),
         AtFirst(lo, p, q) \/ AfterBatch(lo, p, q),
         NEW n, n = Capacity
  PROVE  /\ n \in Nat
         /\ n \in {capacity, Raised(capacity, batch, least)}
         /\ n = capacity =>
              capacity - remainder >= least \/ capacity - batch >= least
         /\ LET y == Stop(lo, p, q, n, batch)
            IN /\ q - y <= Greater(remainder - batch, 0) + (n - capacity)
               /\ p = lo => /\ y - lo + 1 <= batch
                            /\ next - 1 - y >= least - broken
<1>1. /\ lo \in Nat /\ p \in Nat /\ q \in Int
      /\ lo <= p /\ p <= next /\ q < next
  BY DEF Shape
<1>2. /\ capacity \in Nat /\ batch \in Nat /\ least \in Nat /\ broken \in Nat
      /\ remainder \in Int /\ effective \in Nat /\ next \in Nat
  BY DEF Typed, TypeOK
<1>3. /\ 0 < batch /\ batch <= capacity /\ least <= capacity
      /\ remainder <= capacity
      /\ effective \in {capacity, Raised(capacity, batch, least)}
  BY DEF Policy
<1>4. n = IF capacity - remainder >= least THEN capacity ELSE effective
  BY DEF Capacity
<1> DEFINE y == Stop(lo, p, q, n, batch)
<1>5. CASE AtFirst(lo, p, q)
  <2>1. /\ remainder = capacity
        /\ effective = Raised(capacity, batch, least)
        /\ next - lo = capacity - broken
        /\ p = lo /\ q = next - 1
    BY <1>5 DEF AtFirst
  <2> QED
    BY <1>1, <1>2, <1>3, <1>4, <2>1
    DEF First, Start, Stop, Greater, Lesser, Raised
<1>6. CASE AfterBatch(lo, p, q)
  <2>1. /\ next - lo = effective
        /\ q - p + 1 <= Greater(remainder, 0) + (effective - capacity)
        /\ effective = capacity =>
             capacity - remainder >= least \/ capacity - batch >= least
    BY <1>6 DEF AfterBatch, Extent
  <2> QED
    BY <1>1, <1>2, <1>3, <1>4, <2>1
    DEF First, Start, Stop, Greater, Lesser, Raised
<1> QED BY <1>5, <1>6

(* What a nested update makes of the group, whatever it gets done. *)
LEMMA AppliedKeepsTypes ==
  ASSUME TypeOK, NEW gone, NEW redone, NEW n \in Nat,
         redone \subseteq group \ gone, redone \cap fresh = {},
         Applied(gone, redone, n)
  PROVE  /\ group' \subseteq Nat /\ fresh' \subseteq group'
         /\ next' \in Nat /\ \A i \in group' : i < next'
         /\ group \ (gone \cup redone) \subseteq group'
         /\ IsFiniteSet(group')
         /\ UNCHANGED <<broken, inPlace>>
<1>1. /\ group \subseteq Nat /\ fresh \subseteq group /\ next \in Nat
      /\ \A i \in group : i < next
  BY DEF TypeOK
<1>2. Cardinality(redone) \in Nat
  <2>1. redone \in SUBSET (0..next)
    BY <1>1
  <2>2. IsFiniteSet(0..next)
    BY <1>1, RangeSize
  <2> QED BY <2>1, <2>2, FS_Subset, FS_CardinalityType
<1>3. PICK c \in Nat : c = n + (IF inPlace THEN 0 ELSE Cardinality(redone))
  BY <1>2
<1> DEFINE made == next..(next + c - 1)
<1>9. made = next..(next + n + (IF inPlace THEN 0 ELSE Cardinality(redone)) - 1)
  <2>1. CASE inPlace
    BY <1>1, <1>3, <2>1
  <2>2. CASE ~inPlace
    BY <1>1, <1>2, <1>3, <2>2
  <2> QED BY <2>1, <2>2
<1>4. /\ group' = (group \ (gone \cup (IF inPlace THEN {} ELSE redone))) \cup made
      /\ fresh' = ((fresh \ gone) \cup (IF inPlace THEN redone ELSE {})) \cup made
      /\ next' = next + Cardinality(made)
      /\ UNCHANGED <<broken, inPlace>>
  BY <1>9 DEF Applied
<1>5. next' = next + c /\ made = next..(next' - 1)
  <2>1. next + c - 1 \in Int /\ Greater(next + c - 1 - next + 1, 0) = c
    BY <1>1, <1>3 DEF Greater
  <2>2. Cardinality(next..(next + c - 1)) = c
    BY <1>1, <2>1, RangeSize
  <2> QED BY <1>1, <1>3, <1>4, <2>2
<1> HIDE DEF made
<1>6. group' \subseteq Nat /\ next' \in Nat /\ \A i \in group' : i < next'
  <2>1. next' \in Nat /\ next <= next'
    BY <1>1, <1>3, <1>5
  <2>2. ASSUME NEW i \in group' PROVE i \in Nat /\ i < next'
    BY <1>1, <1>4, <1>5, <2>1
  <2> QED BY <2>1, <2>2
<1>7. IsFiniteSet(group')
  <2>1. group' \in SUBSET (0..next')
    BY <1>6
  <2>2. IsFiniteSet(0..next')
    BY <1>6, RangeSize
  <2> QED BY <2>1, <2>2, FS_Subset
<1>8. fresh' \subseteq group' /\ group \ (gone \cup redone) \subseteq group'
  BY <1>1, <1>4
<1> QED BY <1>4, <1>6, <1>7, <1>8

(* How a batch changes the group in place, with the numbers spelt out. *)
LEMMA AppliedInPlace ==
  ASSUME NEW gone, NEW redone, NEW m \in Nat, next \in Nat, inPlace,
         Applied(gone, redone, m)
  PROVE  /\ group' = (group \ gone) \cup (next..(next + m - 1))
         /\ fresh' = ((fresh \ gone) \cup redone) \cup (next..(next + m - 1))
         /\ next' = next + m
         /\ inPlace'
<1>1. next + m + 0 - 1 = next + m - 1
  OBVIOUS
<1>2. Cardinality(next..(next + m - 1)) = m
  BY RangeSize DEF Greater
<1> QED BY <1>1, <1>2 DEF Applied

(* A batch that gets through leaves ranges again. *)
LEMMA AppliedRanges ==
  ASSUME next \in Nat, fresh \subseteq group, batch \in Nat,
         NEW lo, NEW p, NEW q, Shape(lo, p, q), NEW n \in Nat
  PROVE  LET k == First(lo, n)
             x == Start(lo, p, n)
             y == Stop(lo, p, q, n, batch)
         IN Applied(lo..(k - 1), x..y, n - (next - k)) =>
              \E l, r \in Int : /\ Shape(l, r, q)'
                               /\ next' - l = n /\ r = y + 1
<1> DEFINE k == First(lo, n)
           x == Start(lo, p, n)
           y == Stop(lo, p, q, n, batch)
           m == n - (next - k)
<1>1. /\ lo \in Nat /\ p \in Nat /\ q \in Int
      /\ lo <= p /\ p <= next /\ q < next
      /\ group = lo..(next - 1) /\ group \ fresh = p..q
  BY DEF Shape
<1>2. /\ k \in Nat /\ x \in Nat /\ y \in Int
      /\ lo <= k /\ k <= x /\ p <= x /\ k <= next
      /\ x - 1 <= y /\ y < next
      /\ x = k \/ x = p
  BY RangesLie
<1>3. m \in Nat
  BY RangesLie
<1>4. fresh = (lo..(next - 1)) \ (p..q)
  BY <1>1
<1> SUFFICES ASSUME Applied(lo..(k - 1), x..y, m)
             PROVE  \E l, r \in Int : /\ Shape(l, r, q)'
                                      /\ next' - l = n /\ r = y + 1
  OBVIOUS
<1>5. m = n - (next - k)
  OBVIOUS
<1> HIDE DEF k, x, y, m
<1>6. CASE inPlace
  <2> DEFINE g == ((lo..(next - 1)) \ (lo..(k - 1))) \cup (next..(next + m - 1))
             f == ((((lo..(next - 1)) \ (p..q)) \ (lo..(k - 1))) \cup (x..y))
                    \cup (next..(next + m - 1))
  <2>a. /\ group' = (group \ (lo..(k - 1))) \cup (next..(next + m - 1))
        /\ fresh' = ((fresh \ (lo..(k - 1))) \cup (x..y)) \cup (next..(next + m - 1))
        /\ next' = next + m
    BY <1>3, <1>6, AppliedInPlace
  <2>i. inPlace'
    BY <1>6 DEF Applied
  <2>1. group' = g /\ fresh' = f /\ next' = next + m
    BY <1>1, <1>4, <2>a
  <2>b. g = k..(next + m - 1) /\ g \ f = (y + 1)..q
    BY <1>1, <1>2, <1>3
  <2> HIDE DEF g, f
  <2>2. group' = k..(next' - 1) /\ group' \ fresh' = (y + 1)..q
    BY <1>3, <2>1, <2>b
  <2>3. next' - k = n
    BY <1>2, <1>5, <2>1
  <2>4. /\ k \in Nat /\ y + 1 \in Nat /\ k <= y + 1 /\ y + 1 <= next' /\ q < next'
    BY <1>1, <1>2, <1>3, <2>1
  <2>s. ASSUME NEW l, NEW r, l = k, r = y + 1 PROVE Shape(l, r, q)'
    BY <1>1, <2>i, <2>s, <2>2, <2>3, <2>4 DEF Shape
  <2> QED BY <1>2, <2>s, <2>3
<1>7. CASE ~inPlace
  <2>1. Cardinality(x..y) = y - x + 1
    BY <1>2, RangeSize DEF Greater
  <2>2. PICK c \in Nat : c = m + Cardinality(x..y)
    BY <1>2, <1>3, <2>1
  <2>3. x = k /\ p = lo
    BY <1>7, RangesLie DEF Shape, x, k
  <2>c. c \in Nat /\ Cardinality(x..y) \in Nat
    BY <1>2, <2>1
  <2>d. next + m + Cardinality(x..y) - 1 = next + c - 1
    BY <1>3, <2>2, <2>c
  <2>e. Cardinality(next..(next + c - 1)) = c
    BY <2>c, RangeSize DEF Greater
  <2> DEFINE g == ((lo..(next - 1)) \ ((lo..(k - 1)) \cup (k..y)))
                    \cup (next..(next + c - 1))
             f == (((lo..(next - 1)) \ (lo..q)) \ (lo..(k - 1)))
                    \cup (next..(next + c - 1))
  <2>a. /\ group' = (group \ ((lo..(k - 1)) \cup (x..y))) \cup (next..(next + c - 1))
        /\ fresh' = (fresh \ (lo..(k - 1))) \cup (next..(next + c - 1))
        /\ next' = next + c
    BY <1>7, <2>d, <2>e DEF Applied
  <2>i. ~inPlace'
    BY <1>7 DEF Applied
  <2>4. group' = g /\ fresh' = f /\ next' = next + c
    BY <1>1, <1>4, <2>3, <2>a
  <2>b. g = (y + 1)..(next + c - 1) /\ g \ f = (y + 1)..q
    BY <1>1, <1>2, <2>2, <2>3
  <2> HIDE DEF g, f
  <2>5. group' = (y + 1)..(next' - 1) /\ group' \ fresh' = (y + 1)..q
    BY <2>c, <2>4, <2>b
  <2>6. next' - (y + 1) = n
    BY <1>2, <1>5, <2>1, <2>2, <2>3, <2>4
  <2>7. /\ y + 1 \in Nat /\ y + 1 <= next' /\ q < next'
    BY <1>1, <1>2, <2>2, <2>4
  <2>s. ASSUME NEW l, NEW r, l = y + 1, r = y + 1 PROVE Shape(l, r, q)'
    BY <1>1, <2>i, <2>s, <2>5, <2>6, <2>7 DEF Shape
  <2> QED BY <1>2, <2>s, <2>6
<1> QED BY <1>6, <1>7
-----------------------------------------------------------------------------
LEMMA InitHolds == Init => IInv
<1> SUFFICES ASSUME Init PROVE IInv
  OBVIOUS
<1>1. PICK c \in Capacities, b \in Capacities, r \in InPlace :
        /\ group = 1..c /\ broken = b
        /\ fresh = {} /\ next = c + 1
        /\ inPlace = r
        /\ capacity = 0 /\ batch = 0 /\ least = 0 /\ pause = 0
        /\ effective = 0 /\ remainder = 0
        /\ paused = 0
        /\ balanced = 1..c
        /\ changing = {} /\ create = 0
        /\ pc = "start"
  BY DEF Init
<1>2. c \in Nat /\ b \in Nat /\ r \in BOOLEAN
  BY <1>1, CapacitiesAssumption, InPlaceAssumption
<1>3. Typed
  BY <1>1, <1>2 DEF Typed, TypeOK
<1>4. IsFiniteSet(balanced) /\ Cardinality(balanced) \in Nat
  BY <1>1, <1>2, RangeSize DEF Greater
<1>5. Starting
  BY <1>1, <1>2 DEF Starting
<1>6. Looping /\ Updating /\ AllReplaced
  BY <1>1 DEF Looping, Updating, AllReplaced
<1>7. MinimumInService
  <2>1. balanced \ changing = balanced /\ least - broken = 0 - b
    BY <1>1
  <2> QED BY <1>2, <1>4, <2>1 DEF MinimumInService
<1>8. Cardinality(changing) = 0 /\ Greater(batch, 0) = 0
  BY <1>1, FS_EmptySet DEF Greater
<1> QED BY <1>3, <1>4, <1>5, <1>6, <1>7, <1>8 DEF IInv, EnoughInService, BatchBounded

(* The parameters are read, and the update begins or is refused. *)
LEMMA PrepareHolds ==
  ASSUME IInv, NEW m \in Services, NEW b \in Nat, NEW r \in PauseTimes,
         Begin(m, b, r) \/ Refuse(m, b, r)
  PROVE  IInv'
<1>1. m \in Nat /\ b \in Nat /\ r \in Nat
  BY ServicesAssumption, PauseTimesAssumption
<1>2. /\ Prepare(m, b, r)
      /\ \/ pc' = "failed" /\ UNCHANGED <<effective, remainder>>
         \/ /\ effective' = Raised(Size, Lesser(b, Size), Lesser(m, Size))
            /\ remainder' = Size
            /\ pc' = "loop"
            /\ Lesser(b, Size) # 0
  BY DEF Begin, Refuse, Accepted
<1>3. /\ pc = "start"
      /\ capacity' = Size
      /\ batch' = Lesser(b, Size)
      /\ least' = Lesser(m, Size)
      /\ pause' = r
      /\ UNCHANGED <<nested, paused, balanced, changing, create>>
  BY <1>2 DEF Prepare
<1>4. /\ Typed /\ IsFiniteSet(balanced)
      /\ group = 1..(next - 1) /\ 1 <= next
      /\ fresh = {} /\ balanced = group /\ changing = {} /\ paused = 0
  BY <1>3 DEF IInv, Starting
<1>5. next \in Nat /\ broken \in Nat /\ effective \in Nat /\ remainder \in Int
  BY <1>4 DEF Typed, TypeOK
<1>6. Cardinality(group) = next - 1
  BY <1>4, <1>5, RangeSize DEF Greater
<1>7. Size \in Nat /\ Size = next - 1 + broken
  BY <1>4, <1>5, <1>6 DEF Size
<1>8. /\ capacity' \in Nat /\ batch' \in Nat /\ least' \in Nat
      /\ batch' <= capacity' /\ least' <= capacity'
      /\ effective' \in Nat /\ remainder' \in Int
  BY <1>1, <1>2, <1>3, <1>5, <1>7 DEF Lesser, Raised, Greater
<1>9. Typed'
  BY <1>1, <1>2, <1>3, <1>4, <1>8 DEF Typed, TypeOK, nested
<1>10. Starting' /\ Updating' /\ AllReplaced'
  BY <1>2 DEF Starting, Updating, AllReplaced
<1>11. Looping'
  <2> SUFFICES ASSUME pc' = "loop" PROVE Looping'
    BY <1>2 DEF Looping
  <2>1. /\ effective' = Raised(capacity', batch', least')
        /\ remainder' = capacity'
        /\ batch' # 0
    BY <1>2, <1>3
  <2>2. Policy'
    BY <1>8, <2>1 DEF Policy
  <2>3. group' = 1..(next' - 1) /\ group' \ fresh' = 1..(next' - 1)
    BY <1>3, <1>4 DEF nested
  <2>4. next' \in Nat /\ 1 <= next' /\ next' - 1 = capacity' - broken'
    BY <1>3, <1>4, <1>5, <1>7 DEF nested
  <2>5. ASSUME NEW q \in Int, q = next' - 1
        PROVE  Shape(1, 1, q)' /\ AtFirst(1, 1, q)'
    <3>1. AtFirst(1, 1, q)'
      BY <2>1, <2>4, <2>5 DEF AtFirst
    <3>2. group' = 1..(next' - 1) /\ group' \ fresh' = 1..q
      BY <2>3, <2>5
    <3>4. ASSUME NEW t \in Nat, q = t - 1 PROVE q < t
      BY <3>4
    <3>5. q < next' /\ 1 <= next'
      BY <2>4, <2>5, <3>4
    <3>3. Shape(1, 1, q)'
      BY <3>2, <3>5 DEF Shape
    <3> QED BY <3>1, <3>3
  <2>6. next' - 1 \in Int /\ 1 \in Int
    BY <2>4
  <2> QED BY <1>3, <1>4, <2>2, <2>5, <2>6 DEF Looping
<1>12. IsFiniteSet(balanced')
  BY <1>3, <1>4
<1>13. Cardinality(balanced' \ changing') >= least' - broken'
  <2>1. balanced' \ changing' = group /\ broken' = broken
    BY <1>3, <1>4 DEF nested
  <2>2. least' <= Size /\ least' \in Nat
    BY <1>1, <1>3, <1>7 DEF Lesser
  <2>3. ASSUME NEW d \in Nat, d <= Size PROVE next - 1 >= d - broken
    BY <1>5, <1>7, <2>3
  <2> QED BY <1>6, <2>1, <2>2, <2>3
<1>14. Cardinality(changing') <= Greater(batch', 0)
  BY <1>3, <1>4, <1>8, FS_EmptySet DEF Greater
<1> QED
  BY <1>9, <1>10, <1>11, <1>12, <1>13, <1>14
  DEF IInv, EnoughInService, MinimumInService, BatchBounded

(* The next batch is planned. *)
LEMMA NextBatchHolds ==
  ASSUME IInv, NextBatch
  PROVE  IInv'
<1>1. /\ pc = "loop"
      /\ effective' = Capacity
      /\ changing' = (group \ Kept(Capacity)) \cup Redefined(Capacity, batch)
      /\ create' = Missing(Capacity)
      /\ balanced' = group \ changing'
      /\ pc' = "update"
      /\ UNCHANGED <<nested, sizes, remainder, paused>>
  BY DEF NextBatch
<1>2. Typed /\ Policy
  BY <1>1 DEF IInv, Looping
<1>3. PICK lo \in Int, p \in Int, q \in Int :
        Shape(lo, p, q) /\ (AtFirst(lo, p, q) \/ AfterBatch(lo, p, q))
  BY <1>1 DEF IInv, Looping
<1>4. /\ next \in Nat /\ batch \in Nat /\ group \subseteq Nat
      /\ inPlace \in BOOLEAN
  BY <1>2 DEF Typed, TypeOK
<1>5. PICK n : n = Capacity
  OBVIOUS
<1>6. /\ n \in Nat
      /\ n \in {capacity, Raised(capacity, batch, least)}
      /\ n = capacity =>
           capacity - remainder >= least \/ capacity - batch >= least
  BY <1>2, <1>3, <1>5, BatchCounts
<1> DEFINE k == First(lo, n)
           x == Start(lo, p, n)
           y == Stop(lo, p, q, n, batch)
<1>7. /\ q - y <= Greater(remainder - batch, 0) + (n - capacity)
      /\ p = lo => y - lo + 1 <= batch /\ next - 1 - y >= least - broken
  BY <1>2, <1>3, <1>5, BatchCounts
<1>8. /\ k \in Nat /\ x \in Nat /\ y \in Int
      /\ lo <= k /\ k <= x /\ k <= next
      /\ x - 1 <= y /\ y < next
      /\ x..y \subseteq p..q
  BY <1>3, <1>4, <1>6, RangesLie
<1>9. /\ Kept(n) = k..(next - 1)
      /\ Missing(n) = n - (next - k) /\ Missing(n) \in Nat
      /\ Redefined(n, batch) = x..y
  BY <1>3, <1>4, <1>6, TemplateRanges
<1>10. /\ lo \in Nat /\ group = lo..(next - 1) /\ group \ fresh = p..q
  BY <1>3 DEF Shape
<1> HIDE DEF k, x, y
<1>11. changing' = (lo..(k - 1)) \cup (x..y)
  <2>1. (lo..(next - 1)) \ (k..(next - 1)) = lo..(k - 1)
    BY <1>4, <1>8, <1>10
  <2> QED BY <1>1, <1>5, <1>9, <1>10, <2>1
<1>12. changing' \subseteq group
  <2>1. lo..(k - 1) \subseteq lo..(next - 1)
    BY <1>4, <1>8, <1>10
  <2>2. x..y \subseteq group
    BY <1>8, <1>10
  <2> QED BY <1>10, <1>11, <2>1, <2>2
<1>13. Typed'
  <2>1. /\ balanced' \subseteq Nat /\ changing' \subseteq group
        /\ create' \in Nat /\ effective' \in Nat /\ pc' = "update"
    BY <1>1, <1>4, <1>5, <1>6, <1>9, <1>12
  <2> QED BY <1>1, <1>2, <2>1 DEF Typed, TypeOK, nested, sizes
<1>14. IsFiniteSet(balanced')
  <2>1. IsFiniteSet(group) /\ balanced' \in SUBSET group
    BY <1>1, <1>4, <1>10, RangeSize
  <2> QED BY <2>1, FS_Subset
<1>15. Updating'
  <2>1. Policy'
    BY <1>1, <1>2, <1>5, <1>6 DEF Policy, sizes
  <2>2. Extent'
    BY <1>1, <1>5, <1>6 DEF Extent, sizes
  <2>3. balanced' = group' \ changing'
    BY <1>1 DEF nested
  <2>4. Shape(lo, p, q)'
    BY <1>1, <1>3 DEF Shape, nested
  <2>5. Planned(lo, p, q)'
    <3>1. /\ effective' = n /\ next' = next /\ batch' = batch
          /\ remainder' = remainder /\ capacity' = capacity
      BY <1>1, <1>5 DEF nested, sizes
    <3>2. /\ k = First(lo, n)' /\ x = Start(lo, p, n)'
          /\ y = Stop(lo, p, q, n, batch)'
      BY <3>1 DEF k, x, y, First, Start, Stop
    <3>3. create' = n - (next - k)
      BY <1>1, <1>5, <1>9
    <3> QED BY <1>7, <1>11, <3>1, <3>2, <3>3 DEF Planned, y, Stop, Start, First
  <2> QED BY <2>1, <2>2, <2>3, <2>4, <2>5 DEF Updating
<1>16. Starting' /\ Looping' /\ AllReplaced'
  BY <1>1 DEF Starting, Looping, AllReplaced
<1>17. ~inPlace => /\ Cardinality(changing') <= batch
                  /\ Cardinality(balanced' \ changing') >= least - broken
  <2> SUFFICES ASSUME ~inPlace
               PROVE  /\ Cardinality(changing') <= batch
                      /\ Cardinality(balanced' \ changing') >= least - broken
    OBVIOUS
  <2>1. p = lo
    BY <1>3 DEF Shape
  <2>2. x = k
    BY <1>3, <1>4, <1>6, RangesLie DEF x, k
  <2>3. (lo..(k - 1)) \cup (x..y) = lo..y
    BY <1>8, <1>10, <2>2
  <2>4. (lo..(next - 1)) \ (lo..y) = (y + 1)..(next - 1)
    BY <1>4, <1>8, <1>10, <2>2
  <2>5. balanced' \ changing' = (y + 1)..(next - 1)
    BY <1>1, <1>10, <1>11, <2>3, <2>4
  <2>6. Cardinality(lo..y) = y - lo + 1
    BY <1>8, <1>10, <2>2, RangeSize DEF Greater
  <2>7. Cardinality((y + 1)..(next - 1)) = next - 1 - y
    BY <1>4, <1>8, RangeSize DEF Greater
  <2>8. y - lo + 1 <= batch /\ next - 1 - y >= least - broken
    BY <1>7, <2>1 DEF y
  <2> QED BY <1>11, <2>3, <2>5, <2>6, <2>7, <2>8
<1>18. EnoughInService' /\ BatchBounded'
  <2>1. Greater(batch, 0) = batch
    BY <1>4 DEF Greater
  <2> QED
    BY <1>1, <1>17, <2>1
    DEF EnoughInService, MinimumInService, BatchBounded, nested, sizes
<1> QED BY <1>13, <1>14, <1>15, <1>16, <1>18 DEF IInv

(* What the batch under way takes, in terms of the ranges. *)
LEMMA UnderWay ==
  ASSUME Typed, NEW lo, NEW p, NEW q, Shape(lo, p, q), Planned(lo, p, q)
  PROVE  LET n == effective
             k == First(lo, n)
             x == Start(lo, p, n)
             y == Stop(lo, p, q, n, batch)
         IN /\ group \ Kept(n) = lo..(k - 1)
            /\ changing \cap Kept(n) = x..y
            /\ (x..y) \cap fresh = {}
            /\ x..y \subseteq group \ (lo..(k - 1))
            /\ create = n - (next - k) /\ create \in Nat
<1> DEFINE n == effective
           k == First(lo, n)
           x == Start(lo, p, n)
           y == Stop(lo, p, q, n, batch)
<1>1. /\ next \in Nat /\ n \in Nat /\ batch \in Nat /\ create \in Nat
  BY DEF Typed, TypeOK
<1>2. /\ lo \in Nat /\ group = lo..(next - 1) /\ group \ fresh = p..q
  BY DEF Shape
<1>3. /\ changing = (lo..(k - 1)) \cup (x..y)
      /\ create = n - (next - k)
  BY DEF Planned
<1>4. /\ k \in Nat /\ x \in Nat /\ y \in Int
      /\ lo <= k /\ k <= x /\ k <= next
      /\ x - 1 <= y /\ y < next
      /\ x..y \subseteq p..q
  BY <1>1, RangesLie
<1>5. Kept(n) = k..(next - 1)
  BY <1>1, TemplateRanges
<1> HIDE DEF n, k, x, y
<1>6. (lo..(next - 1)) \ (k..(next - 1)) = lo..(k - 1)
  BY <1>1, <1>2, <1>4
<1>7. ((lo..(k - 1)) \cup (x..y)) \cap (k..(next - 1)) = x..y
  BY <1>1, <1>2, <1>4
<1>8. (x..y) \cap fresh = {} /\ x..y \subseteq group
  BY <1>2, <1>4
<1>9. (x..y) \cap (lo..(k - 1)) = {}
  BY <1>2, <1>4
<1> QED BY <1>1, <1>2, <1>3, <1>5, <1>6, <1>7, <1>8, <1>9 DEF n, k, x, y

(* A batch gets through. *)
LEMMA BatchDoneHolds ==
  ASSUME IInv, BatchDone
  PROVE  IInv'
<1>1. /\ pc = "update"
      /\ Applied(group \ Kept(effective), changing \cap Kept(effective), create)
      /\ remainder' = remainder - batch
      /\ changing' = {} /\ create' = 0
      /\ UNCHANGED <<sizes, effective>>
  BY DEF BatchDone
<1>2. \/ balanced' = group' /\ paused' = paused + pause /\ pc' = "pause"
      \/ balanced' = balanced /\ paused' = paused /\ pc' = "loop"
  BY DEF BatchDone
<1>3. /\ Typed /\ Policy /\ Extent /\ IsFiniteSet(balanced)
      /\ balanced = group \ changing
      /\ EnoughInService
  BY <1>1 DEF IInv, Updating
<1>4. PICK lo \in Int, p \in Int, q \in Int : Shape(lo, p, q) /\ Planned(lo, p, q)
  BY <1>1 DEF IInv, Updating
<1>5. /\ next \in Nat /\ batch \in Nat /\ effective \in Nat /\ create \in Nat
      /\ capacity \in Nat /\ least \in Nat /\ broken \in Nat
      /\ pause \in Nat /\ paused \in Nat /\ remainder \in Int
      /\ fresh \subseteq group
  BY <1>3 DEF Typed, TypeOK
<1> DEFINE k == First(lo, effective)
           x == Start(lo, p, effective)
           y == Stop(lo, p, q, effective, batch)
<1>6. /\ group \ Kept(effective) = lo..(k - 1)
      /\ changing \cap Kept(effective) = x..y
      /\ (x..y) \cap fresh = {}
      /\ x..y \subseteq group \ (lo..(k - 1))
      /\ create = effective - (next - k)
  BY <1>3, <1>4, UnderWay
<1>7. Applied(lo..(k - 1), x..y, create)
  BY <1>1, <1>6
<1>8. /\ group' \subseteq Nat /\ fresh' \subseteq group'
      /\ next' \in Nat /\ \A i \in group' : i < next'
      /\ IsFiniteSet(group')
      /\ broken' = broken /\ inPlace' = inPlace
  <2> HIDE DEF k, x, y
  <2> QED BY <1>3, <1>5, <1>6, <1>7, AppliedKeepsTypes DEF Typed
<1>9. PICK l \in Int, r \in Int :
        Shape(l, r, q)' /\ next' - l = effective /\ r = y + 1
  BY <1>4, <1>5, <1>6, <1>7, AppliedRanges
<1>10. q - y <= Greater(remainder - batch, 0) + (effective - capacity)
  BY <1>4 DEF Planned
<1>11. y \in Int /\ q \in Int /\ l \in Nat /\ l <= next'
  <2>1. y \in Int
    BY <1>4, <1>5, RangesLie
  <2>2. l \in Nat /\ l <= r /\ r <= next' /\ r \in Nat
    BY <1>9 DEF Shape
  <2> QED BY <1>4, <1>8, <2>1, <2>2
<1> HIDE DEF k, x, y
<1>12. Typed'
  <2>4. paused + pause \in Nat
    BY <1>5
  <2>1. /\ balanced' \subseteq Nat /\ paused' \in Nat /\ pc' \in {"loop", "pause"}
    BY <1>2, <1>3, <1>5, <1>8, <2>4 DEF Typed, TypeOK
  <2>2. remainder' \in Int
    BY <1>1, <1>5
  <2>3. inPlace' \in BOOLEAN /\ broken' \in Nat
    BY <1>3, <1>8 DEF Typed, TypeOK
  <2> QED BY <1>1, <1>3, <1>8, <2>1, <2>2, <2>3 DEF Typed, TypeOK, sizes
<1>13. IsFiniteSet(balanced')
  BY <1>2, <1>3, <1>8
<1>14. Looping'
  <2>1. Policy'
    <3>1. remainder - batch <= capacity
      BY <1>3, <1>5 DEF Policy
    <3> QED BY <1>1, <1>3, <3>1 DEF Policy, sizes
  <2>2. AfterBatch(l, r, q)'
    <3>1. q - r + 1 = q - y
      BY <1>9, <1>11
    <3>2. Extent'
      <4>1. capacity - remainder >= least => capacity - (remainder - batch) >= least
        BY <1>5
      <4> QED BY <1>1, <1>3, <4>1 DEF Extent, sizes
    <3> QED BY <1>1, <1>9, <1>10, <3>1, <3>2 DEF AfterBatch, sizes
  <2> QED BY <1>1, <1>4, <1>9, <2>1, <2>2 DEF Looping
<1>15. Starting' /\ Updating' /\ AllReplaced'
  BY <1>2 DEF Starting, Updating, AllReplaced
<1>16. EnoughInService'
  <2> SUFFICES ASSUME ~inPlace
               PROVE  Cardinality(balanced' \ changing') >= least - broken
    BY <1>1, <1>8 DEF EnoughInService, MinimumInService, sizes
  <2>1. CASE balanced' = balanced
    <3>1. balanced \ changing = balanced' \ changing'
      BY <1>1, <1>3, <2>1
    <3> QED BY <1>3, <3>1 DEF EnoughInService, MinimumInService
  <2>2. CASE balanced' = group'
    <3>1. group' = l..(next' - 1)
      BY <1>9 DEF Shape
    <3>2. Cardinality(group') = effective
      <4>1. ASSUME NEW t \in Nat, l <= t, t - l = effective
            PROVE  Cardinality(l..(t - 1)) = effective
        BY <1>11, <4>1, RangeSize DEF Greater
      <4> QED BY <1>8, <1>9, <1>11, <3>1, <4>1
    <3>3. balanced' \ changing' = group'
      BY <1>1, <2>2
    <3>4. effective >= least - broken
      BY <1>3, <1>5 DEF Policy, Raised, Greater
    <3> QED BY <3>2, <3>3, <3>4
  <2> QED BY <1>2, <2>1, <2>2
<1>17. BatchBounded'
  <2>1. Cardinality(changing') = 0 /\ batch' \in Nat
    BY <1>1, <1>5, FS_EmptySet DEF sizes
  <2> QED BY <2>1 DEF BatchBounded, Greater
<1> QED BY <1>12, <1>13, <1>14, <1>15, <1>16, <1>17 DEF IInv

(* A batch fails on the way. *)
LEMMA BatchFailsHolds ==
  ASSUME IInv, BatchFails
  PROVE  IInv'
<1>1. PICK gone \in SUBSET changing, n \in 0..create :
      \E redone \in SUBSET ((changing \cap Kept(effective)) \ gone) :
        Applied(gone, redone, n) /\ balanced' = group'
  BY DEF BatchFails
<1>2. PICK redone \in SUBSET ((changing \cap Kept(effective)) \ gone) :
        Applied(gone, redone, n) /\ balanced' = group'
  BY <1>1
<1>3. /\ pc = "update" /\ pc' = "failed"
      /\ changing' = {} /\ create' = 0
      /\ UNCHANGED <<sizes, effective, remainder, paused>>
  BY DEF BatchFails
<1>4. /\ Typed /\ balanced = group \ changing /\ EnoughInService
  BY <1>3 DEF IInv, Updating
<1>5. PICK lo \in Int, p \in Int, q \in Int : Shape(lo, p, q) /\ Planned(lo, p, q)
  BY <1>3 DEF IInv, Updating
<1>6. redone \subseteq group \ gone /\ redone \cap fresh = {} /\ gone \subseteq changing
  <2>1. changing \subseteq group
    BY <1>4 DEF Typed, TypeOK
  <2>2. (changing \cap Kept(effective)) \cap fresh = {}
    BY <1>4, <1>5, UnderWay
  <2> QED BY <1>1, <1>2, <2>1, <2>2
<1>7. n \in Nat
  BY <1>1, <1>4 DEF Typed, TypeOK
<1>8. /\ group' \subseteq Nat /\ fresh' \subseteq group'
      /\ next' \in Nat /\ \A i \in group' : i < next'
      /\ group \ (gone \cup redone) \subseteq group'
      /\ IsFiniteSet(group')
      /\ broken' = broken /\ inPlace' = inPlace
  BY <1>2, <1>4, <1>6, <1>7, AppliedKeepsTypes DEF Typed
<1>9. Typed'
  <2>1. inPlace' \in BOOLEAN /\ broken' \in Nat
    BY <1>4, <1>8 DEF Typed, TypeOK
  <2> QED BY <1>2, <1>3, <1>4, <1>8, <2>1 DEF Typed, TypeOK, sizes
<1>10. EnoughInService'
  <2> SUFFICES ASSUME ~inPlace
               PROVE  Cardinality(balanced' \ changing') >= least - broken
    BY <1>3, <1>8 DEF EnoughInService, MinimumInService, sizes
  <2>1. balanced \ changing \in SUBSET (balanced' \ changing')
    BY <1>2, <1>3, <1>4, <1>6, <1>8
  <2>2. IsFiniteSet(balanced' \ changing')
    BY <1>2, <1>8, FS_Subset
  <2>3. /\ Cardinality(balanced \ changing) <= Cardinality(balanced' \ changing')
        /\ Cardinality(balanced \ changing) \in Nat
        /\ Cardinality(balanced' \ changing') \in Nat
    BY <2>1, <2>2, FS_Subset, FS_CardinalityType
  <2>4. Cardinality(balanced \ changing) >= least - broken
    BY <1>4 DEF EnoughInService, MinimumInService
  <2>5. least - broken \in Int
    BY <1>4 DEF Typed, TypeOK
  <2> QED BY <2>3, <2>4, <2>5
<1>11. BatchBounded'
  BY <1>3, <1>4, FS_EmptySet DEF BatchBounded, Greater, Typed, TypeOK, sizes
<1>12. Starting' /\ Looping' /\ Updating' /\ AllReplaced' /\ IsFiniteSet(balanced')
  BY <1>2, <1>3, <1>8 DEF Starting, Looping, Updating, AllReplaced
<1> QED BY <1>9, <1>10, <1>11, <1>12 DEF IInv

(* The loop is left, or a pause ends. *)
LEMMA RestHolds ==
  ASSUME IInv, Resume \/ Killed \/ Finish
  PROVE  IInv'
<1>1. /\ pc \in {"loop", "pause"} /\ pc' \in {"loop", "failed", "done"}
      /\ balanced' \in {balanced, group}
      /\ pc' = "done" => balanced' = group
      /\ UNCHANGED <<nested, sizes, effective, remainder, paused, changing, create>>
  BY DEF Resume, Killed, Finish
<1>2. Typed /\ changing = {} /\ Policy
  BY <1>1 DEF IInv, Looping
<1>3. PICK lo \in Int, p \in Int, q \in Int :
        Shape(lo, p, q) /\ (AtFirst(lo, p, q) \/ AfterBatch(lo, p, q))
  BY <1>1 DEF IInv, Looping
<1>4. /\ next \in Nat /\ capacity \in Nat /\ least \in Nat /\ broken \in Nat
      /\ batch \in Nat /\ fresh \subseteq group
  BY <1>2 DEF Typed, TypeOK
<1>5. /\ lo \in Nat /\ lo <= next /\ group = lo..(next - 1) /\ group \ fresh = p..q
  BY <1>3, <1>4 DEF Shape
<1>6. IsFiniteSet(group) /\ Cardinality(group) = next - lo
  BY <1>4, <1>5, RangeSize DEF Greater
<1>7. Typed'
  BY <1>1, <1>2 DEF Typed, TypeOK, nested, sizes
<1>8. Looping'
  <2>1. Policy'
    BY <1>1, <1>2 DEF Policy, sizes
  <2>2. Shape(lo, p, q)'
    BY <1>1, <1>3 DEF Shape, nested
  <2>3. AtFirst(lo, p, q)' \/ AfterBatch(lo, p, q)'
    BY <1>1, <1>3 DEF AtFirst, AfterBatch, Extent, nested, sizes
  <2> QED BY <1>1, <1>2, <1>3, <2>1, <2>2, <2>3 DEF Looping
<1>9. AllReplaced'
  <2> SUFFICES ASSUME pc' = "done" PROVE fresh = group /\ Cardinality(group) = capacity
    BY <1>1 DEF AllReplaced, nested, sizes
  <2>1. remainder <= 0 /\ effective <= capacity
    BY <1>1 DEF Resume, Killed, Finish
  <2>2. /\ 0 < batch /\ batch <= capacity /\ remainder \in Int /\ effective \in Nat
        /\ effective \in {capacity, Raised(capacity, batch, least)}
    BY <1>2 DEF Policy, Typed, TypeOK
  <2>3. ~AtFirst(lo, p, q)
    BY <1>4, <2>1, <2>2 DEF AtFirst
  <2>4. /\ next - lo = effective
        /\ q - p + 1 <= Greater(remainder, 0) + (effective - capacity)
    BY <1>3, <2>3 DEF AfterBatch
  <2>5. effective = capacity
    BY <1>4, <2>1, <2>2 DEF Raised, Greater
  <2>6. p..q = {}
    BY <1>3, <1>4, <2>1, <2>2, <2>4, <2>5 DEF Greater
  <2> QED BY <1>4, <1>5, <1>6, <2>4, <2>5, <2>6
<1>10. EnoughInService'
  <2> SUFFICES ASSUME ~inPlace PROVE Cardinality(balanced' \ changing') >= least - broken
    BY <1>1 DEF EnoughInService, MinimumInService, nested, sizes
  <2>1. CASE balanced' = balanced
    BY <1>1, <2>1 DEF IInv, EnoughInService, MinimumInService
  <2>2. CASE balanced' = group
    <3>1. balanced' \ changing' = group
      BY <1>1, <1>2, <2>2
    <3>2. capacity \in Nat /\ batch \in Nat /\ 0 < batch /\ least <= capacity
          /\ effective \in {capacity, Raised(capacity, batch, least)}
      BY <1>2, <1>4 DEF Policy
    <3>3. CASE AtFirst(lo, p, q)
      <4>1. next - lo = capacity - broken
        BY <3>3 DEF AtFirst
      <4>2. capacity - broken >= least - broken
        BY <1>4, <3>2
      <4> QED BY <1>6, <3>1, <4>1, <4>2
    <3>4. CASE AfterBatch(lo, p, q)
      <4>1. next - lo = effective
        BY <3>4 DEF AfterBatch
      <4> QED BY <1>4, <1>6, <3>1, <3>2, <4>1 DEF Raised, Greater
    <3> QED BY <1>3, <3>3, <3>4
  <2> QED BY <1>1, <2>1, <2>2
<1>11. BatchBounded'
  BY <1>1, <1>2, <1>4, FS_EmptySet DEF BatchBounded, Greater, sizes
<1>12. Starting' /\ Updating' /\ IsFiniteSet(balanced')
  BY <1>1, <1>6 DEF Starting, Updating, IInv
<1> QED BY <1>7, <1>8, <1>9, <1>10, <1>11, <1>12 DEF IInv

LEMMA GoesOn ==
  ASSUME IInv, [Loop \/ Killed]_vars
  PROVE  IInv'
<1>1. CASE NextBatch
  BY <1>1, NextBatchHolds
<1>2. CASE BatchDone
  BY <1>2, BatchDoneHolds
<1>3. CASE BatchFails
  BY <1>3, BatchFailsHolds
<1>4. CASE Resume \/ Killed \/ Finish
  BY <1>4, RestHolds
<1>5. CASE UNCHANGED vars
  <2>1. UNCHANGED <<group, broken, fresh, next, inPlace, capacity, batch, least,
                    pause, effective, remainder, paused, balanced, changing,
                    create, pc>>
    BY <1>5 DEF vars, nested, sizes
  <2>2. Typed' /\ Starting' /\ IsFiniteSet(balanced')
    BY <2>1 DEF IInv, Typed, TypeOK, Starting
  <2>3. EnoughInService' /\ BatchBounded' /\ AllReplaced'
    BY <2>1 DEF IInv, EnoughInService, BatchBounded, AllReplaced, MinimumInService
  <2>4. Policy' = Policy /\ Extent' = Extent
    BY <2>1 DEF Policy, Extent
  <2>5. ASSUME NEW lo, NEW p, NEW q
        PROVE  /\ Shape(lo, p, q)' = Shape(lo, p, q)
               /\ AtFirst(lo, p, q)' = AtFirst(lo, p, q)
               /\ AfterBatch(lo, p, q)' = AfterBatch(lo, p, q)
               /\ Planned(lo, p, q)' = Planned(lo, p, q)
    BY <2>1 DEF Shape, AtFirst, AfterBatch, Extent, Planned, First, Start, Stop
  <2>6. Looping' /\ Updating'
    BY <2>1, <2>4, <2>5 DEF IInv, Looping, Updating
  <2> QED BY <2>2, <2>3, <2>6 DEF IInv
<1> QED BY <1>1, <1>2, <1>3, <1>4, <1>5 DEF Loop
-----------------------------------------------------------------------------
(* With a negative batch size the group is only filled up with what had    *)
(* failed: nothing is ever removed or renewed, and remainder never falls.  *)
Endless ==
  /\ TypeOK /\ batch < 0 /\ pc # "start"
  /\ IsFiniteSet(group) /\ balanced \subseteq group
  /\ changing = {}
  /\ least <= capacity
  /\ Cardinality(group) <= capacity
  /\ capacity - broken <= Cardinality(balanced)
  /\ pc # "failed" => effective = capacity /\ remainder >= capacity
  /\ pc = "update" => create = capacity - Cardinality(group)
  /\ pc = "done" => capacity = 0

(* A template for as many instances as there are, or more, keeps all. *)
LEMMA AllKept ==
  ASSUME NEW n \in Nat, IsFiniteSet(group), Cardinality(group) <= n
  PROVE  Kept(n) = group
<1>1. ASSUME NEW i \in group
      PROVE  Cardinality({j \in group : j >= i}) <= n
  <2>1. {j \in group : j >= i} \in SUBSET group
    OBVIOUS
  <2>2. /\ Cardinality({j \in group : j >= i}) <= Cardinality(group)
        /\ Cardinality({j \in group : j >= i}) \in Nat
        /\ Cardinality(group) \in Nat
    BY <2>1, FS_Subset, FS_CardinalityType
  <2> QED BY <2>2
<1> QED BY <1>1 DEF Kept, Youngest

(* Less than no instances are none. *)
LEMMA NoneOldest ==
  ASSUME NEW n \in Int, n < 0, NEW S, IsFiniteSet(S)
  PROVE  Oldest(n, S) = {}
<1>1. ASSUME NEW i \in S
      PROVE  ~(Cardinality({j \in S : j <= i}) <= n)
  <2>1. {j \in S : j <= i} \in SUBSET S
    OBVIOUS
  <2>2. Cardinality({j \in S : j <= i}) \in Nat
    BY <2>1, FS_Subset, FS_CardinalityType
  <2> QED BY <2>2
<1> QED BY <1>1 DEF Oldest

(* A batch that only creates. *)
LEMMA AppliedCreates ==
  ASSUME TypeOK, IsFiniteSet(group), NEW m \in Nat, Applied({}, {}, m)
  PROVE  /\ group \subseteq group' /\ IsFiniteSet(group')
         /\ Cardinality(group') = Cardinality(group) + m
         /\ group' \subseteq Nat /\ fresh' \subseteq group'
         /\ next' \in Nat /\ \A i \in group' : i < next'
         /\ UNCHANGED <<broken, inPlace>>
<1>1. /\ group' \subseteq Nat /\ fresh' \subseteq group'
      /\ next' \in Nat /\ \A i \in group' : i < next'
      /\ group \subseteq group' /\ IsFiniteSet(group')
      /\ UNCHANGED <<broken, inPlace>>
  BY AppliedKeepsTypes
<1>2. next \in Nat /\ group \subseteq Nat /\ \A i \in group : i < next
  BY DEF TypeOK
<1> DEFINE made == next..(next + m - 1)
<1>3. group' = group \cup made
  <2>1. Cardinality({}) = 0 /\ next + m + 0 - 1 = next + m - 1
    BY <1>2, FS_EmptySet
  <2> QED BY <2>1 DEF Applied
<1>4. IsFiniteSet(made) /\ Cardinality(made) = m
  BY <1>2, RangeSize DEF Greater
<1>5. group \cap made = {}
  BY <1>2
<1> HIDE DEF made
<1>6. Cardinality(group \cup made) = Cardinality(group) + m
  <2>1. Cardinality(group) \in Nat /\ Cardinality({}) = 0
    BY FS_CardinalityType, FS_EmptySet
  <2>2. Cardinality(group \cup made)
          = Cardinality(group) + Cardinality(made) - Cardinality(group \cap made)
    BY <1>4, FS_Union
  <2>3. Cardinality(group \cap made) = 0
    BY <1>5, <2>1
  <2> QED BY <1>4, <2>1, <2>2, <2>3
<1> QED BY <1>1, <1>3, <1>6

(* An update with a negative batch size begins, or is refused. *)
LEMMA PrepareEndless ==
  ASSUME IInv, NEW m \in Services, NEW b \in Int, b < 0, NEW r \in PauseTimes,
         Begin(m, b, r) \/ Refuse(m, b, r)
  PROVE  Endless'
<1>1. m \in Nat /\ r \in Nat
  BY ServicesAssumption, PauseTimesAssumption
<1>2. /\ Prepare(m, b, r)
      /\ \/ pc' = "failed" /\ UNCHANGED <<effective, remainder>>
         \/ /\ effective' = Raised(Size, Lesser(b, Size), Lesser(m, Size))
            /\ remainder' = Size
            /\ pc' = "loop"
  BY DEF Begin, Refuse
<1>3. /\ pc = "start"
      /\ capacity' = Size
      /\ batch' = Lesser(b, Size)
      /\ least' = Lesser(m, Size)
      /\ pause' = r
      /\ UNCHANGED <<nested, paused, balanced, changing, create>>
  BY <1>2 DEF Prepare
<1>4. /\ TypeOK
      /\ group = 1..(next - 1) /\ 1 <= next
      /\ balanced = group /\ changing = {}
  BY <1>3 DEF IInv, Typed, Starting
<1>5. next \in Nat /\ broken \in Nat /\ effective \in Nat /\ remainder \in Int
  BY <1>4 DEF TypeOK
<1>6. IsFiniteSet(group) /\ Cardinality(group) = next - 1
  BY <1>4, <1>5, RangeSize DEF Greater
<1>7. Size \in Nat /\ Size = next - 1 + broken
  BY <1>4, <1>5, <1>6 DEF Size
<1>8. batch' = b /\ least' \in Nat /\ least' <= Size
  BY <1>1, <1>3, <1>7 DEF Lesser
<1>9. Raised(Size, b, Lesser(m, Size)) = Size
  BY <1>1, <1>7 DEF Raised, Greater, Lesser
<1>10. /\ effective' \in Nat /\ remainder' \in Int
       /\ pc' # "failed" => effective' = Size /\ remainder' = Size
  BY <1>2, <1>3, <1>5, <1>7, <1>8, <1>9
<1>11. TypeOK'
  BY <1>1, <1>2, <1>3, <1>4, <1>7, <1>8, <1>10 DEF TypeOK, nested
<1>12. /\ IsFiniteSet(group') /\ balanced' \subseteq group' /\ changing' = {}
       /\ Cardinality(group') = Size - broken' /\ balanced' = group'
  BY <1>3, <1>4, <1>5, <1>6, <1>7 DEF nested
<1>13. broken' = broken
  BY <1>3 DEF nested
<1> QED
  BY <1>2, <1>3, <1>5, <1>7, <1>8, <1>10, <1>11, <1>12, <1>13 DEF Endless

(* Such an update goes on as it began. *)
LEMMA EndlessStays ==
  ASSUME Endless, [Next]_vars
  PROVE  Endless'
<1>1. /\ TypeOK /\ batch < 0 /\ pc # "start"
      /\ IsFiniteSet(group) /\ balanced \subseteq group /\ changing = {}
      /\ least <= capacity /\ Cardinality(group) <= capacity
      /\ capacity - broken <= Cardinality(balanced)
      /\ pc # "failed" => effective = capacity /\ remainder >= capacity
      /\ pc = "update" => create = capacity - Cardinality(group)
      /\ pc = "done" => capacity = 0
  BY DEF Endless
<1>2. /\ capacity \in Nat /\ batch \in Int /\ least \in Nat /\ broken \in Nat
      /\ effective \in Nat /\ remainder \in Int /\ create \in Nat
      /\ pause \in Nat /\ paused \in Nat /\ group \subseteq Nat
      /\ Cardinality(group) \in Nat /\ Cardinality(balanced) \in Nat
      /\ Cardinality(balanced) <= Cardinality(group)
  BY <1>1, FS_CardinalityType, FS_Subset DEF TypeOK
<1>3. Kept(capacity) = group
  BY <1>1, <1>2, AllKept
<1>4. CASE NextBatch
  <2>1. /\ pc = "loop" /\ pc' = "update"
        /\ effective' = Capacity
        /\ changing' = (group \ Kept(Capacity)) \cup Redefined(Capacity, batch)
        /\ create' = Missing(Capacity)
        /\ balanced' = group \ changing'
        /\ UNCHANGED <<nested, sizes, remainder, paused>>
    BY <1>4 DEF NextBatch
  <2>2. Capacity = capacity
    BY <1>1, <2>1 DEF Capacity
  <2>3. Missing(capacity) = capacity - Cardinality(group)
    BY <1>3 DEF Missing
  <2>4. Redefined(capacity, batch) = {}
    <3>1. IsFiniteSet(group \ fresh)
      BY <1>1, FS_Subset
    <3>2. /\ batch - Missing(capacity) \in Int
          /\ batch - Missing(capacity) < 0
      BY <1>1, <1>2, <2>3
    <3> QED BY <1>3, <3>1, <3>2, NoneOldest DEF Redefined
  <2>5. changing' = {} /\ balanced' = group /\ effective' = capacity
    BY <1>3, <2>1, <2>2, <2>4
  <2>6. create' = capacity - Cardinality(group) /\ create' \in Nat
    BY <1>1, <1>2, <2>1, <2>2, <2>3
  <2>7. TypeOK'
    BY <1>1, <1>2, <2>1, <2>5, <2>6 DEF TypeOK, nested, sizes
  <2>8. capacity - broken <= Cardinality(group)
    BY <1>1, <1>2
  <2> QED
    BY <1>1, <1>2, <2>1, <2>5, <2>6, <2>7, <2>8 DEF Endless, nested, sizes
<1>5. CASE BatchDone \/ BatchFails
  <2>1. PICK n \in 0..create : Applied({}, {}, n) /\ (BatchDone => n = create)
    <3>1. CASE BatchDone
      <4>1. Applied(group \ group, {} \cap group, create)
        BY <1>1, <1>3, <3>1 DEF BatchDone
      <4>2. group \ group = {} /\ {} \cap group = {} /\ create \in 0..create
        BY <1>2
      <4> QED BY <4>1, <4>2
    <3>2. CASE BatchFails /\ ~BatchDone
      <4>1. PICK gone \in SUBSET changing, n \in 0..create :
            \E redone \in SUBSET ((changing \cap Kept(effective)) \ gone) :
              Applied(gone, redone, n)
        BY <3>2 DEF BatchFails
      <4>2. PICK redone \in SUBSET ((changing \cap Kept(effective)) \ gone) :
              Applied(gone, redone, n)
        BY <4>1
      <4>3. gone = {} /\ redone = {}
        BY <1>1, <4>1, <4>2
      <4> QED BY <3>2, <4>1, <4>2, <4>3
    <3> QED BY <1>5, <3>1, <3>2
  <2>2. n \in Nat /\ n <= create
    BY <1>2, <2>1
  <2>3. /\ group \subseteq group' /\ IsFiniteSet(group')
        /\ Cardinality(group') = Cardinality(group) + n
        /\ group' \subseteq Nat /\ fresh' \subseteq group'
        /\ next' \in Nat /\ \A i \in group' : i < next'
        /\ UNCHANGED <<broken, inPlace>>
    BY <1>1, <2>1, <2>2, AppliedCreates
  <2>4. /\ pc = "update" /\ changing' = {} /\ create' = 0
        /\ UNCHANGED <<sizes, effective>>
        /\ balanced' \in {balanced, group'}
        /\ paused' \in {paused, paused + pause}
        /\ \/ pc' = "failed" /\ remainder' = remainder
           \/ pc' \in {"loop", "pause"} /\ remainder' = remainder - batch
    BY <1>5 DEF BatchDone, BatchFails
  <2>5. Cardinality(group') <= capacity
    BY <1>1, <1>2, <2>2, <2>3, <2>4
  <2>6. balanced' \subseteq group' /\ capacity - broken <= Cardinality(balanced')
    <3>1. capacity - broken <= Cardinality(group')
      BY <1>1, <1>2, <2>2, <2>3
    <3> QED BY <1>1, <2>3, <2>4, <3>1
  <2>7. remainder' \in Int /\ (pc' # "failed" => remainder' >= capacity)
    BY <1>1, <1>2, <2>4
  <2>8. TypeOK'
    <3>1. paused' \in Nat
      BY <1>2, <2>4
    <3>2. balanced' \subseteq Nat
      BY <2>3, <2>6
    <3> QED BY <1>1, <2>3, <2>4, <2>7, <3>1, <3>2 DEF TypeOK, sizes
  <2> QED
    BY <1>1, <1>2, <2>3, <2>4, <2>5, <2>6, <2>7, <2>8 DEF Endless, sizes
<1>6. CASE Resume \/ Killed \/ Finish
  <2>1. /\ pc \in {"loop", "pause"} /\ pc' \in {"loop", "failed", "done"}
        /\ balanced' \in {balanced, group}
        /\ pc' = "done" => remainder <= 0
        /\ UNCHANGED <<nested, sizes, effective, remainder, paused, changing, create>>
    BY <1>6 DEF Resume, Killed, Finish
  <2>2. TypeOK'
    BY <1>1, <2>1 DEF TypeOK, nested, sizes
  <2>3. balanced' \subseteq group' /\ capacity - broken <= Cardinality(balanced')
    BY <1>1, <1>2, <2>1 DEF nested
  <2>4. pc' = "done" => capacity = 0
    BY <1>1, <1>2, <2>1
  <2> QED BY <1>1, <2>1, <2>2, <2>3, <2>4 DEF Endless, nested, sizes
<1>7. CASE UNCHANGED vars
  BY <1>1, <1>7 DEF Endless, TypeOK, vars, nested, sizes
<1>8. ASSUME NEW m \in Services, NEW b \in Batches, NEW p \in PauseTimes,
             Begin(m, b, p) \/ Refuse(m, b, p)
      PROVE  FALSE
  BY <1>1, <1>8 DEF Begin, Refuse, Prepare
<1> QED BY <1>4, <1>5, <1>6, <1>7, <1>8 DEF Next, Loop
-----------------------------------------------------------------------------
(* Any update, whatever the sign of its batch size. *)
Inv == IInv \/ Endless

LEMMA StepHolds == Inv /\ [Next]_vars => Inv'
<1>1. ASSUME IInv, NEW m \in Services, NEW b \in Batches, NEW p \in PauseTimes,
             Begin(m, b, p) \/ Refuse(m, b, p)
      PROVE  Inv'
  <2>1. b \in Int
    BY BatchesAssumption
  <2>2. CASE b < 0
    BY <1>1, <2>1, <2>2, PrepareEndless DEF Inv
  <2>3. CASE b \in Nat
    BY <1>1, <2>3, PrepareHolds DEF Inv
  <2> QED BY <2>1, <2>2, <2>3
<1>2. ASSUME IInv, [Loop \/ Killed]_vars
      PROVE  Inv'
  BY <1>2, GoesOn DEF Inv
<1> QED BY <1>1, <1>2, EndlessStays DEF Inv, Next

LEMMA Inductive == Spec => []Inv
<1>1. Init => Inv
  BY InitHolds DEF Inv
<1> QED BY <1>1, StepHolds, PTL DEF Spec

(* What all updates have in common. *)
LEMMA Common == ASSUME Inv PROVE TypeOK /\ EnoughInService /\ BatchBounded /\ AllReplaced
<1>1. CASE IInv
  BY <1>1 DEF IInv, Typed
<1>2. CASE Endless
  <2>1. /\ TypeOK /\ batch < 0 /\ IsFiniteSet(group) /\ changing = {}
        /\ least <= capacity /\ capacity - broken <= Cardinality(balanced)
        /\ balanced \subseteq group /\ Cardinality(group) <= capacity
        /\ pc = "done" => capacity = 0
    BY <1>2 DEF Endless
  <2>2. /\ capacity \in Nat /\ least \in Nat /\ broken \in Nat /\ batch \in Int
        /\ fresh \subseteq group
        /\ Cardinality(balanced) \in Nat /\ Cardinality(group) \in Nat
    BY <2>1, FS_CardinalityType, FS_Subset DEF TypeOK
  <2>3. EnoughInService
    <3>1. balanced \ changing = balanced /\ Cardinality(balanced) >= least - broken
      BY <2>1, <2>2
    <3> QED BY <3>1 DEF EnoughInService, MinimumInService
  <2>4. BatchBounded
    <3>1. Cardinality(changing) = 0 /\ Greater(batch, 0) = 0
      BY <2>1, <2>2, FS_EmptySet DEF Greater
    <3> QED BY <3>1 DEF BatchBounded
  <2>5. AllReplaced
    <3> SUFFICES ASSUME pc = "done" PROVE fresh = group /\ Cardinality(group) = capacity
      BY DEF AllReplaced
    <3>1. capacity = 0 /\ Cardinality(group) = 0
      BY <2>1, <2>2
    <3>2. group = {}
      BY <2>1, <3>1, FS_EmptySet
    <3> QED BY <2>2, <3>1, <3>2
  <2> QED BY <2>1, <2>3, <2>4, <2>5
<1> QED BY <1>1, <1>2 DEF Inv

(* Every variable keeps its type, for groups of any size and any policy:   *)
(* no batch plans for instances that are not there.                        *)
THEOREM GroupTypeCorrect == Spec => []TypeOK
<1>1. Inv => TypeOK
  BY Common
<1> QED BY <1>1, Inductive, PTL

(* The minimum stays in service if instances are replaced (_replace).      *)
THEOREM ServiceKept == Spec => []EnoughInService
<1>1. Inv => EnoughInService
  BY Common
<1> QED BY <1>1, Inductive, PTL

(* No batch takes down more than MaxBatchSize if instances are replaced,   *)
(* and none takes down any if that is negative.                            *)
THEOREM BatchesBounded == Spec => []BatchBounded
<1>1. Inv => BatchBounded
  BY Common
<1> QED BY <1>1, Inductive, PTL

(* A rolling update that is done has renewed every instance and kept the   *)
(* size of the group, also one that updates instances in place.            *)
THEOREM EverythingReplaced == Spec => []AllReplaced
<1>1. Inv => AllReplaced
  BY Common
<1> QED BY <1>1, Inductive, PTL

(* A rolling update of a group that has instances never gets done with a   *)
(* negative batch size, which the schema of UpdatePolicy accepts: what is  *)
(* left (remainder of _replace) is never less than the whole group.        *)
NegativeNever ==
  batch < 0 /\ capacity > 0 /\ pc # "failed" => remainder > 0 /\ pc # "done"

THEOREM NegativeNeverDone == Spec => []NegativeNever
<1>1. ASSUME Inv PROVE NegativeNever
  <2>1. CASE IInv
    BY <2>1 DEF IInv, Typed, NegativeNever
  <2>2. CASE Endless
    <3>1. /\ pc = "done" => capacity = 0
          /\ pc # "failed" => remainder >= capacity
          /\ capacity \in Nat /\ remainder \in Int
      BY <2>2 DEF Endless, TypeOK
    <3> QED BY <3>1 DEF NegativeNever
  <2> QED BY <1>1, <2>1, <2>2 DEF Inv
<1>2. Inv => NegativeNever
  BY <1>1
<1> QED BY <1>2, Inductive, PTL
-----------------------------------------------------------------------------
(* With b instances a batch and m pauses taken before all c are renewed,   *)
(* the check of the pauses against the timeout counted at least m pauses.  *)
LEMMA PausesCounted ==
  ASSUME NEW c \in Nat, NEW b \in Nat \ {0}, NEW m \in Nat, m * b < c
  PROVE  m <= ((c + b - 1) \div b) - 1
<1> DEFINE d == (c + b - 1) \div b
<1>1. d \in Nat /\ c - 1 < b * d
  OBVIOUS
<1> HIDE DEF d
<1>2. ASSUME m >= d PROVE FALSE
  <2>1. m * b >= d * b
    BY <1>1, <1>2
  <2> QED BY <1>1, <2>1
<1> QED BY <1>1, <1>2 DEF d

(* The pauses taken, and the work that remains after them. *)
Pauses(m) ==
  /\ paused = pause * m
  /\ m > 0 => /\ m * batch < capacity /\ batch > 0
              /\ PausesFit(capacity, batch, pause)
  /\ pc \in {"loop", "pause", "update"} =>
       /\ remainder <= capacity - m * batch
       /\ batch > 0 /\ PausesFit(capacity, batch, pause)
  /\ pc = "start" => m = 0

LEMMA PausesHold == Spec => [](batch >= 0 => \E m \in Nat : Pauses(m))
<1>1. Init => (batch >= 0 => \E m \in Nat : Pauses(m))
  <2> SUFFICES ASSUME Init PROVE Pauses(0)
    OBVIOUS
  <2> QED BY DEF Init, Pauses
<1>2. ASSUME Typed, batch' >= 0, [Next]_vars, NEW m \in Nat, Pauses(m)
      PROVE  (\E n \in Nat : Pauses(n))'
  <2>1. /\ batch \in Nat /\ capacity \in Nat /\ pause \in Nat /\ paused \in Nat
        /\ remainder \in Int
    BY <1>2 DEF Typed, TypeOK
  <2>2. ASSUME NEW s \in Services, NEW b \in Batches, NEW p \in PauseTimes,
               Begin(s, b, p) \/ Refuse(s, b, p)
        PROVE  Pauses(0)'
    <3>1. pc = "start" /\ pc' \in {"loop", "failed"} /\ paused' = paused
          /\ pause' = p /\ capacity' = Size /\ batch' = Lesser(b, Size)
      BY <2>2 DEF Begin, Refuse, Prepare
    <3>2. paused = 0
      BY <1>2, <2>1, <3>1 DEF Pauses
    <3>7. Size \in Nat
      <4>1. IsFiniteSet(group)
        <5>1. next \in Nat /\ group \in SUBSET (0..next)
          BY <1>2 DEF Typed, TypeOK
        <5>2. IsFiniteSet(0..next)
          BY <5>1, RangeSize
        <5> QED BY <5>1, <5>2, FS_Subset
      <4> QED BY <1>2, <4>1, FS_CardinalityType DEF Size, Typed, TypeOK
    <3>3. p \in Nat /\ b \in Nat
      <4>1. p \in Nat /\ b \in Int
        BY PauseTimesAssumption, BatchesAssumption
      <4>2. Lesser(b, Size) >= 0
        BY <1>2, <3>1
      <4> QED BY <3>7, <4>1, <4>2 DEF Lesser
    <3>4. CASE Refuse(s, b, p)
      BY <3>1, <3>2, <3>3, <3>4 DEF Refuse, Pauses
    <3>5. CASE Begin(s, b, p)
      <4>1. /\ Lesser(b, Size) # 0 /\ PausesFit(Size, Lesser(b, Size), p)
            /\ remainder' = Size /\ pc' = "loop"
        BY <3>5 DEF Begin, Accepted
      <4>3. Lesser(b, Size) \in Nat /\ Lesser(b, Size) > 0
        BY <3>3, <3>7, <4>1 DEF Lesser
      <4>4. 0 = p * 0 /\ Size - 0 * Lesser(b, Size) = Size /\ Size <= Size
        BY <3>3, <3>7, <4>3
      <4> HIDE DEF PausesFit, Lesser
      <4> QED BY <3>1, <3>2, <4>1, <4>3, <4>4 DEF Pauses
    <3> QED BY <2>2, <3>4, <3>5
  <2>3. CASE NextBatch \/ BatchFails \/ Resume \/ Finish \/ Killed \/ UNCHANGED vars
    <3>1. /\ UNCHANGED <<sizes, paused, remainder>>
          /\ pc' \in {"loop", "pause", "update"} => pc \in {"loop", "pause", "update"}
          /\ pc' = "start" => pc = "start"
      BY <2>3 DEF NextBatch, BatchFails, Resume, Finish, Killed, vars, sizes
    <3>2. Pauses(m)'
      BY <1>2, <3>1 DEF Pauses, sizes
    <3> QED BY <3>2
  <2>4. CASE BatchDone
    <3>1. /\ pc = "update" /\ remainder' = remainder - batch
          /\ \/ remainder' > 0 /\ paused' = paused + pause
             \/ paused' = paused
          /\ pc' \in {"pause", "loop"} /\ UNCHANGED sizes
      BY <2>4 DEF BatchDone
    <3>2. /\ remainder <= capacity - m * batch /\ batch > 0
          /\ PausesFit(capacity, batch, pause)
          /\ paused = pause * m
          /\ m > 0 => m * batch < capacity
      BY <1>2, <3>1 DEF Pauses
    <3>3. (m + 1) * batch = m * batch + batch /\ m * batch \in Nat
      BY <2>1
    <3> HIDE DEF PausesFit
    <3>4. CASE remainder' > 0 /\ paused' = paused + pause
      <4>1. pause * (m + 1) = pause * m + pause
        BY <2>1
      <4>2. remainder - batch <= capacity - (m + 1) * batch
        <5> DEFINE w == m * batch
        <5> HIDE DEF w
        <5> QED BY <2>1, <3>2, <3>3 DEF w
      <4>3. (m + 1) * batch < capacity
        BY <2>1, <3>1, <3>3, <3>4, <4>2
      <4>4. Pauses(m + 1)'
        BY <3>1, <3>2, <3>4, <4>1, <4>2, <4>3 DEF Pauses, sizes
      <4> QED BY <4>4
    <3>5. CASE paused' = paused
      <4>1. remainder - batch <= capacity - m * batch
        BY <2>1, <3>2, <3>3
      <4>2. Pauses(m)'
        BY <3>1, <3>2, <3>5, <4>1 DEF Pauses, sizes
      <4> QED BY <4>2
    <3> QED BY <3>1, <3>4, <3>5
  <2>5. CASE \E s \in Services, b \in Batches, p \in PauseTimes :
               Begin(s, b, p) \/ Refuse(s, b, p)
    <3>1. Pauses(0)'
      BY <2>2, <2>5
    <3> QED BY <3>1
  <2> QED BY <1>2, <2>3, <2>4, <2>5 DEF Next, Loop
<1>3. ASSUME Inv, [Next]_vars, batch >= 0 => \E m \in Nat : Pauses(m),
             batch' >= 0
      PROVE  (\E m \in Nat : Pauses(m))'
  <2>1. CASE Endless
    <3>1. batch' < 0
      BY <1>3, <2>1, EndlessStays DEF Endless
    <3>2. batch' \in Int
      BY <1>3, <2>1, EndlessStays DEF Endless, TypeOK
    <3> QED BY <1>3, <3>1, <3>2
  <2>2. CASE IInv
    <3>1. Typed /\ batch >= 0
      BY <2>2 DEF IInv, Typed
    <3> QED BY <1>2, <1>3, <3>1
  <2> QED BY <1>3, <2>1, <2>2 DEF Inv
<1>4. Inv /\ [Next]_vars /\ (batch >= 0 => \E m \in Nat : Pauses(m))
        => (batch >= 0 => \E m \in Nat : Pauses(m))'
  BY <1>3
<1> QED BY <1>1, <1>4, Inductive, PTL DEF Spec

(* An update that is begun never pauses as long as the timeout: the number *)
(* of pauses it takes is one less than the number of batches, at most.     *)
(* That is so for a batch size that is not negative.                       *)
THEOREM PausesEndInTime == Spec => []PausesInTime
<1>1. ASSUME Typed, NEW m \in Nat, Pauses(m) PROVE PausesInTime
  <2> SUFFICES ASSUME paused > 0 PROVE paused < Timeout
    BY DEF PausesInTime
  <2>1. capacity \in Nat /\ batch \in Nat /\ pause \in Nat /\ Timeout \in Nat
    BY <1>1, TimeoutAssumption DEF Typed, TypeOK
  <2>2. m > 0
    BY <1>1, <2>1 DEF Pauses
  <2>3. /\ m * batch < capacity /\ batch > 0 /\ paused = pause * m
        /\ pause * (((capacity + batch - 1) \div batch) - 1) < Timeout
    <3>1. /\ m * batch < capacity /\ batch > 0 /\ paused = pause * m
          /\ PausesFit(capacity, batch, pause)
      BY <1>1, <2>2 DEF Pauses
    <3> QED BY <3>1 DEF PausesFit, BatchCount
  <2>4. m <= ((capacity + batch - 1) \div batch) - 1
    BY <2>1, <2>3, PausesCounted
  <2> DEFINE d == ((capacity + batch - 1) \div batch) - 1
  <2>5. d \in Nat
    BY <2>1, <2>2, <2>3, <2>4
  <2> HIDE DEF d
  <2>6. pause * m <= pause * d
    BY <2>1, <2>4, <2>5 DEF d
  <2> QED BY <2>1, <2>3, <2>5, <2>6 DEF d
<1>2. ASSUME Inv, batch >= 0 => \E m \in Nat : Pauses(m)
      PROVE  PausesInTime
  <2>1. CASE batch >= 0
    <3>1. Typed
      BY <1>2, <2>1, Common DEF Typed, TypeOK
    <3> QED BY <1>1, <1>2, <2>1, <3>1
  <2>2. CASE ~(batch >= 0)
    BY <2>2 DEF PausesInTime
  <2> QED BY <2>1, <2>2
<1>3. Inv /\ (batch >= 0 => \E m \in Nat : Pauses(m)) => PausesInTime
  BY <1>2
<1> QED BY <1>3, Inductive, PausesHold, PTL

-----------------------------------------------------------------------------
(* What is left of the loop: three steps at most (a batch is begun, it     *)
(* ends, a pause) for each instance to be gone over and for the temporary  *)
(* capacity to go, and those of the batch under way.                       *)
Phase ==
  CASE pc = "loop"   -> 1
    [] pc = "pause"  -> 2
    [] pc = "update" -> IF remainder > 0 THEN 0 ELSE 2

Extra == IF effective > capacity THEN 1 ELSE 0

Left ==
  IF pc \in {"loop", "pause", "update"}
    THEN 3 * (Greater(remainder, 0) + Extra) + Phase
    ELSE 0

(* Every step of the thread brings the end of the loop of _replace nearer, *)
(* also one that only drops the temporary capacity, or that leaves fewer   *)
(* instances than none to go over, if the batch size is not negative.      *)
Nears ==
  [][batch >= 0 /\ (Loop \/ Killed) =>
       Left \in Nat /\ Left' \in Nat /\ Left' < Left]_vars

(* The batch is not empty in the loop, and the minimum no more than the    *)
(* group, so the temporary capacity goes at the latest when the remainder  *)
(* is used up.                                                             *)
LEMMA NearerStep == Typed /\ Typed' /\ IInv /\ (Loop \/ Killed) =>
                      Left \in Nat /\ Left' \in Nat /\ Left' < Left
<1> SUFFICES ASSUME Typed, Typed', IInv, Loop \/ Killed
             PROVE  Left \in Nat /\ Left' \in Nat /\ Left' < Left
  OBVIOUS
<1>1. /\ remainder \in Int /\ remainder' \in Int
      /\ effective \in Nat /\ effective' \in Nat
      /\ capacity \in Nat /\ capacity' \in Nat
      /\ batch \in Nat /\ least \in Nat
  BY DEF Typed, TypeOK
<1>2. pc \in {"loop", "pause", "update"} => 0 < batch /\ least <= capacity
  BY DEF IInv, Looping, Updating, Policy
<1>3. CASE NextBatch
  <2>1. /\ pc = "loop" /\ pc' = "update"
        /\ remainder > 0 \/ effective > capacity
        /\ effective' = Capacity
        /\ remainder' = remainder /\ capacity' = capacity
    BY <1>3 DEF NextBatch, sizes
  <2>2. CASE remainder > 0
    <3>1. Extra' \in {0, 1} /\ Extra \in {0, 1} /\ Extra' <= Extra
      BY <1>1, <2>1 DEF Extra, Capacity
    <3>2. Phase = 1 /\ Phase' = 0
      BY <2>1, <2>2 DEF Phase
    <3>3. Greater(remainder', 0) = Greater(remainder, 0) /\ Greater(remainder, 0) \in Nat
      BY <1>1, <2>1 DEF Greater
    <3> QED BY <2>1, <3>1, <3>2, <3>3 DEF Left
  <2>3. CASE ~(remainder > 0)
    <3>1. effective' = capacity
      BY <1>1, <1>2, <2>1, <2>3 DEF Capacity
    <3>2. Extra = 1 /\ Extra' = 0
      BY <1>1, <2>1, <2>3, <3>1 DEF Extra
    <3>3. Phase = 1 /\ Phase' = 2
      BY <2>1, <2>3 DEF Phase
    <3> QED BY <1>1, <2>1, <2>3, <3>2, <3>3 DEF Left, Greater
  <2> QED BY <2>2, <2>3
<1>4. CASE BatchDone
  <2>1. /\ pc = "update" /\ remainder' = remainder - batch
        /\ pc' = "loop" \/ (pc' = "pause" /\ remainder' > 0)
        /\ effective' = effective /\ capacity' = capacity
    BY <1>4 DEF BatchDone, sizes
  <2>2. Extra' = Extra /\ Extra \in {0, 1}
    BY <2>1 DEF Extra
  <2>3. CASE remainder > 0
    <3>1. Phase = 0 /\ Phase' \in {1, 2}
      BY <2>1, <2>3 DEF Phase
    <3>2. /\ Greater(remainder, 0) \in Nat /\ Greater(remainder', 0) \in Nat
          /\ Greater(remainder', 0) + 1 <= Greater(remainder, 0)
      BY <1>1, <1>2, <2>1, <2>3 DEF Greater
    <3> QED BY <2>1, <2>2, <3>1, <3>2 DEF Left
  <2>4. CASE ~(remainder > 0)
    <3>1. ~(remainder' > 0) /\ pc' = "loop"
      BY <1>1, <2>1, <2>4
    <3>2. Phase = 2 /\ Phase' = 1
      BY <2>1, <2>4, <3>1 DEF Phase
    <3>3. Greater(remainder', 0) = 0 /\ Greater(remainder, 0) = 0
      BY <1>1, <2>4, <3>1 DEF Greater
    <3> QED BY <2>1, <2>2, <3>1, <3>2, <3>3 DEF Left
  <2> QED BY <2>3, <2>4
<1>5. CASE Resume
  <2>1. /\ pc = "pause" /\ pc' = "loop" /\ UNCHANGED <<remainder, effective, capacity>>
    BY <1>5 DEF Resume, sizes
  <2>2. Extra' = Extra /\ Extra \in {0, 1} /\ Phase = 2 /\ Phase' = 1
    BY <2>1 DEF Extra, Phase
  <2> QED BY <1>1, <2>1, <2>2 DEF Left, Greater
<1>6. CASE Finish \/ BatchFails \/ Killed
  <2>1. pc \in {"loop", "update", "pause"} /\ pc' \in {"done", "failed"}
    BY <1>6 DEF Finish, BatchFails, Killed
  <2>2. Left' = 0
    BY <2>1 DEF Left
  <2>3. Extra \in {0, 1} /\ Greater(remainder, 0) \in Nat
    BY <1>1 DEF Extra, Greater
  <2>4. \/ Phase \in {1, 2}
        \/ Phase = 0 /\ Greater(remainder, 0) > 0
    BY <1>1, <2>1 DEF Phase, Greater
  <2> QED BY <2>1, <2>2, <2>3, <2>4 DEF Left
<1> QED BY <1>3, <1>4, <1>5, <1>6 DEF Loop

(* The loop of _replace cannot go on for ever if MaxBatchSize is not       *)
(* negative: the update then has only so many steps to make, whatever the  *)
(* rest of its policy (NegativeNeverDone says what it does if it is).      *)
THEOREM LoopNears == Spec => Nears
<1>1. ASSUME Inv, Inv', [Next]_vars
      PROVE  [batch >= 0 /\ (Loop \/ Killed) =>
                Left \in Nat /\ Left' \in Nat /\ Left' < Left]_vars
  <2> SUFFICES ASSUME batch >= 0, Loop \/ Killed
               PROVE  Left \in Nat /\ Left' \in Nat /\ Left' < Left
    OBVIOUS
  <2>1. batch \in Int /\ batch' = batch /\ pc # "start"
    <3>1. UNCHANGED sizes /\ pc # "start"
      BY DEF Loop, NextBatch, BatchDone, BatchFails, Resume, Finish, Killed
    <3> QED BY <1>1, <3>1, Common DEF TypeOK, sizes
  <2>2. IInv
    BY <1>1, <2>1 DEF Inv, Endless
  <2>3. IInv'
    BY <2>2, GoesOn
  <2>4. Typed /\ Typed'
    BY <2>2, <2>3 DEF IInv
  <2> QED BY <2>2, <2>4, NearerStep
<1>2. Inv /\ Inv' /\ [Next]_vars =>
        [batch >= 0 /\ (Loop \/ Killed) =>
           Left \in Nat /\ Left' \in Nat /\ Left' < Left]_vars
  BY <1>1
<1> QED BY <1>2, Inductive, PTL DEF Spec, Nears
=============================================================================
