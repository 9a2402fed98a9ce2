----------------------------- MODULE IPv4Proofs -----------------------------
(* Lemmas about the CIDR arithmetic, for addresses of any width.           *)
EXTENDS IPv4, WellFoundedInduction, TLAPS

\* Clearing the remainder leaves a multiple.
LEMMA RemainderCleared ==
    ASSUME NEW a \in Nat, NEW m \in Nat \ {0}
    PROVE  (a - (a % m)) % m = 0
<1>1. a = m * (a \div m) + (a % m)
  OBVIOUS
<1>2. PICK q \in Int : q = a \div m
  OBVIOUS
<1>3. a - (a % m) = m * q
  BY <1>1, <1>2
<1>4. ASSUME NEW x \in Int, x = m * q
      PROVE  x % m = 0
  <2>1. x = m * (x \div m) + (x % m) /\ x % m \in 0 .. (m - 1)
    OBVIOUS
  <2>2. PICK e \in Int : e = x \div m
    OBVIOUS
  <2>3. PICK d \in Int : d = q - e
    OBVIOUS
  <2>4. m * d = x % m
    BY <2>1, <2>2, <2>3, <1>4
  <2>5. CASE d >= 1
    <3>1. m * d >= m
      BY <2>5
    <3>2. QED
      BY <3>1, <2>4, <2>1
  <2>6. CASE d <= -1
    <3>1. m * d <= 0 - m
      BY <2>6
    <3>2. QED
      BY <3>1, <2>4, <2>1
  <2>7. CASE d = 0
    BY <2>7, <2>4
  <2>8. QED
    BY <2>5, <2>6, <2>7
<1>5. QED
  BY <1>3, <1>4

\* Masking an address gives an address, and masking it again changes nothing.
LEMMA MaskedAddress ==
    ASSUME NEW a \in Word, NEW len \in PrefixLen
    PROVE  /\ Masked(a, len) \in Word
           /\ Masked(Masked(a, len), len) = Masked(a, len)
<1>1. PICK m \in Nat \ {0} : m = 2^(W - len)
  BY WidthAssumption, PowerAssumption DEF PrefixLen
<1>2. 2^W \in Nat \ {0}
  BY WidthAssumption, PowerAssumption
<1>3. a \in Nat /\ a <= 2^W - 1
  BY <1>2 DEF Word
<1>4. a - (a % m) \in 0 .. a
  BY <1>3
<1>5. (a - (a % m)) % m = 0
  BY <1>3, RemainderCleared
<1>6. QED
  BY <1>1, <1>2, <1>3, <1>4, <1>5 DEF Masked, Word

\* Whatever ParseIPv4Prefix accepts becomes a masked prefix.
LEMMA ParseGivesPrefix ==
    ASSUME NEW a, NEW len, ParseIPv4Prefix(a, len).err = "none"
    PROVE  ParseIPv4Prefix(a, len).prefix \in Prefix
<1>1. len \in PrefixLen /\ a \in Word
  BY DEF ParseIPv4Prefix, Err
<1>2. ParseIPv4Prefix(a, len).prefix = [addr |-> Masked(a, len), len |-> len]
  BY <1>1 DEF ParseIPv4Prefix, Ok
<1>3. QED
  BY <1>1, <1>2, MaskedAddress DEF Prefix

\* Storing a prefix as address and length and parsing it back is lossless.
LEMMA ParseStoredPrefix ==
    ASSUME NEW p \in Prefix
    PROVE  ParseIPv4Prefix(p.addr, p.len) = Ok(p)
BY DEF ParseIPv4Prefix, Prefix, Ok

\* Overlapping (ipv4.go, Prefix.Overlaps) does not depend on the order of the blocks.
LEMMA OverlapsSymmetric ==
    ASSUME NEW p \in Prefix, NEW q \in Prefix, Overlaps(p, q)
    PROVE  Overlaps(q, p)
<1>1. p.len \in Int /\ q.len \in Int
  BY WidthAssumption DEF Prefix, PrefixLen
<1>2. CASE p.len = q.len
  BY <1>2 DEF Overlaps
<1>3. CASE p.len # q.len
  BY <1>1, <1>3 DEF Overlaps
<1>4. QED
  BY <1>2, <1>3

\* A candidate that passes ValidateIPv4Subnet is inside its parent and clear
\* of every sibling.
LEMMA ValidateSound ==
    ASSUME NEW c, NEW parent, NEW siblings,
           ValidateIPv4Subnet(c, parent, siblings) = "none"
    PROVE  /\ \A p \in parent : PrefixContains(p, c)
           /\ \A s \in siblings : ~Overlaps(c, s)
BY DEF ValidateIPv4Subnet

\* A non-empty set of prefixes has one with the lowest address.
LEMMA LowestPrefix ==
    ASSUME NEW S \in SUBSET Prefix, S # {}
    PROVE  \E b \in S : \A c \in S : b.addr <= c.addr
<1> DEFINE T == {b.addr : b \in S}
<1>1. \A b \in S : b.addr \in Nat
  <2>1. 2^W \in Nat \ {0}
    BY WidthAssumption, PowerAssumption
  <2>2. QED
    BY <2>1 DEF Prefix, Word
<1>2. T \subseteq Nat /\ T # {}
  BY <1>1
<1>3. PICK x \in T : \A y \in T : ~(<<y, x>> \in OpToRel(<, Nat))
  <2> HIDE DEF T
  <2>1. IsWellFoundedOn(OpToRel(<, Nat), Nat)
    BY NatLessThanWellFounded
  <2>2. QED
    BY <1>2, <2>1, WFMin
<1>4. \A y \in T : x <= y
  <2> SUFFICES ASSUME NEW y \in T PROVE x <= y
    OBVIOUS
  <2>1. x \in Nat /\ y \in Nat
    BY <1>2
  <2>2. ~(y < x)
    BY <1>3, <2>1 DEF OpToRel
  <2>3. QED
    BY <2>1, <2>2
<1>5. QED
  BY <1>4

\* The block FindFreeIPv4Block returns is a free block of its parent.
LEMMA FindFreeGivesFree ==
    ASSUME NEW parent, NEW len, NEW siblings,
           FindFreeIPv4Block(parent, len, siblings).err = "none"
    PROVE  FindFreeIPv4Block(parent, len, siblings).prefix
             \in FreeBlocks(parent, len, siblings)
<1> DEFINE free == FreeBlocks(parent, len, siblings)
           Lowest(b) == \A c \in free : b.addr <= c.addr
<1>1. /\ free # {}
      /\ FindFreeIPv4Block(parent, len, siblings).prefix
           = (CHOOSE b \in free : Lowest(b))
  BY DEF FindFreeIPv4Block, Err, Ok
<1>2. \E b \in free : Lowest(b)
  BY <1>1, LowestPrefix DEF FreeBlocks
<1>3. (CHOOSE b \in free : Lowest(b)) \in free
  <2> HIDE DEF free, Lowest
  <2>1. QED
    BY <1>2
<1>4. QED
  BY <1>1, <1>3

-----------------------------------------------------------------------------
(* Blocks as sets of addresses.                                            *)

\* Two multiples of m are at least m apart.
LEMMA MultiplesApart ==
    ASSUME NEW m \in Nat \ {0}, NEW i \in Int, NEW j \in Int, m * i < m * j
    PROVE  m * i + m <= m * j
<1>1. PICK d \in Int : d = j - i
  OBVIOUS
<1>2. m * j = m * i + m * d
  BY <1>1
<1>3. d >= 1
  <2>1. CASE d <= 0
    <3>1. m * d <= 0
      BY <2>1
    <3>2. m * i \in Int /\ m * j \in Int /\ m * d \in Int
      OBVIOUS
    <3>3. QED
      BY <1>2, <3>1, <3>2
  <2>2. QED
    BY <1>1, <2>1
<1>4. m * d >= m
  BY <1>3
<1>5. m * i \in Int /\ m * j \in Int /\ m * d \in Int
  OBVIOUS
<1>6. QED
  BY <1>2, <1>4, <1>5

\* Clearing the remainder of a finds the multiple of m that a lies in.
LEMMA RemainderFloor ==
    ASSUME NEW a \in Nat, NEW m \in Nat \ {0}
    PROVE  /\ a - (a % m) \in Nat
           /\ a - (a % m) <= a /\ a < a - (a % m) + m
           /\ \E i \in Int : a - (a % m) = m * i
<1>1. a = m * (a \div m) + (a % m) /\ a % m \in 0 .. (m - 1) /\ a \div m \in Int
  OBVIOUS
<1>2. PICK i \in Int : i = a \div m
  BY <1>1
<1>3. a - (a % m) = m * i
  BY <1>1, <1>2
<1>4. a % m <= a
  OBVIOUS
<1>5. QED
  BY <1>1, <1>3, <1>4

LEMMA FloorUnique ==
    ASSUME NEW a \in Nat, NEW m \in Nat \ {0}, NEW i \in Int, m * i <= a, a < m * i + m
    PROVE  a - (a % m) = m * i
<1>1. PICK j \in Int : a - (a % m) = m * j
  BY RemainderFloor
<1>2. m * j <= a /\ a < m * j + m
  BY <1>1, RemainderFloor
<1>3. ~(m * i < m * j)
  BY <1>2, MultiplesApart
<1>4. ~(m * j < m * i)
  BY <1>2, MultiplesApart
<1>5. m * i \in Int /\ m * j \in Int
  OBVIOUS
<1>6. QED
  BY <1>1, <1>3, <1>4, <1>5

\* A multiple of m is what the remainder says it is.
LEMMA MultipleOf ==
    ASSUME NEW a \in Nat, NEW m \in Nat \ {0}, a % m = 0
    PROVE  \E i \in Int : a = m * i
BY RemainderFloor

\* A masked address is a multiple of the block's size, and the block ends within
\* the address space.
LEMMA PrefixBlock ==
    ASSUME NEW p \in Prefix
    PROVE  /\ BlockSize(p.len) \in Nat \ {0} /\ 2^W \in Nat \ {0}
           /\ p.addr \in Nat /\ p.addr + BlockSize(p.len) <= 2^W
           /\ p.addr % BlockSize(p.len) = 0
           /\ \E i \in Int : p.addr = BlockSize(p.len) * i
<1>1. p.addr \in Word /\ p.len \in PrefixLen /\ Masked(p.addr, p.len) = p.addr
  BY DEF Prefix
<1>2. 2^W \in Nat \ {0} /\ 2^(W - p.len) \in Nat \ {0} /\ 2^(p.len) \in Nat \ {0}
  BY <1>1, WidthAssumption, PowerAssumption DEF PrefixLen
<1>3. PICK m \in Nat \ {0} : m = 2^(W - p.len)
  BY <1>2
<1>4. PICK a \in Nat : a = p.addr /\ a <= 2^W - 1
  BY <1>1, <1>2 DEF Word
<1>5. a % m = 0
  <2>1. a - (a % m) = a
    BY <1>1, <1>3, <1>4 DEF Masked
  <2>2. a % m \in Nat
    OBVIOUS
  <2>3. QED
    BY <2>1, <2>2
<1>6. PICK i \in Int : a = m * i
  BY <1>5, MultipleOf
<1>7. PICK k \in Nat : k = 2^(p.len)
  BY <1>2
<1>8. 2^W = m * k
  <2>1. 2^W = 2^(p.len) * 2^(W - p.len)
    BY <1>1, WidthAssumption, PowersNestAssumption DEF PrefixLen
  <2>2. QED
    BY <1>3, <1>7, <2>1
<1>9. m * i < m * k
  BY <1>2, <1>4, <1>6, <1>8
<1>10. m * i + m <= m * k
  BY <1>9, MultiplesApart
<1>11. QED
  BY <1>2, <1>3, <1>4, <1>5, <1>6, <1>8, <1>10 DEF BlockSize

\* netip.Prefix.Contains: the address is one of the prefix.
LEMMA ContainsMeansMember ==
    ASSUME NEW p \in Prefix, NEW a \in Word
    PROVE  Contains(p, a) <=> a \in Addresses(p)
<1>1. PICK m \in Nat \ {0} : m = BlockSize(p.len)
  BY PrefixBlock
<1>2. PICK i \in Int : p.addr = m * i /\ m * i \in Nat
  BY <1>1, PrefixBlock
<1>3. a \in Nat
  BY PrefixBlock DEF Word
<1>4. a \in Addresses(p) <=> m * i <= a /\ a < m * i + m
  BY <1>1, <1>2, <1>3 DEF Addresses
<1>5. Contains(p, a) <=> a - (a % m) = m * i
  BY <1>1, <1>2 DEF Contains, Masked, BlockSize
<1>6. QED
  BY <1>2, <1>3, <1>4, <1>5, FloorUnique, RemainderFloor

\* The blocks of a longer length nest in the blocks of a shorter one: a prefix
\* whose address lies in a shorter one, or that shares an address with it, lies
\* in it with all its addresses.
LEMMA BlocksNest ==
    ASSUME NEW p \in Prefix, NEW q \in Prefix, p.len <= q.len
    PROVE  /\ q.addr \in Addresses(p) => Addresses(q) \subseteq Addresses(p)
           /\ Addresses(p) \cap Addresses(q) # {} => q.addr \in Addresses(p)
<1> DEFINE k == 2^(q.len - p.len)
<1>1. /\ p.len \in PrefixLen /\ q.len \in PrefixLen
      /\ p.len \in Int /\ q.len \in Int /\ W \in Int
  BY WidthAssumption DEF Prefix, PrefixLen
<1>2. PICK m \in Nat \ {0}, n \in Nat \ {0} : m = BlockSize(p.len) /\ n = BlockSize(q.len)
  BY PrefixBlock
<1>3. k \in Nat /\ m = k * n
  <2>1. /\ W - p.len \in 0 .. W /\ q.len - p.len \in 0 .. (W - p.len)
        /\ (W - p.len) - (q.len - p.len) = W - q.len
        /\ q.len - p.len \in 0 .. W
    BY <1>1 DEF PrefixLen
  <2>2. 2^(W - p.len) = 2^(q.len - p.len) * 2^((W - p.len) - (q.len - p.len))
    BY <2>1, PowersNestAssumption
  <2>3. k \in Nat
    BY <2>1, PowerAssumption
  <2>4. QED
    BY <1>2, <2>1, <2>2, <2>3 DEF BlockSize
<1> HIDE DEF k
<1>4. PICK i \in Int : p.addr = m * i /\ p.addr \in Nat
  BY <1>2, PrefixBlock
<1>5. PICK j \in Int : q.addr = n * j /\ q.addr \in Nat
  BY <1>2, PrefixBlock
<1>6. PICK e \in Int, f \in Int : e = k * i /\ f = k * i + k
  BY <1>3
<1>7. p.addr = n * e /\ p.addr + m = n * f
  <2>1. p.addr = k * n * i
    BY <1>3, <1>4
  <2>2. k * n * i = n * (k * i) /\ k * n * i + k * n = n * (k * i + k)
    BY <1>3
  <2>3. QED
    BY <1>3, <1>6, <2>1, <2>2
<1>8. Addresses(p) = p.addr .. (p.addr + m - 1) /\ Addresses(q) = q.addr .. (q.addr + n - 1)
  BY <1>2 DEF Addresses
<1>9. ASSUME q.addr \in Addresses(p)
      PROVE  Addresses(q) \subseteq Addresses(p)
  <2>1. p.addr <= q.addr /\ n * j < n * f
    BY <1>4, <1>5, <1>7, <1>8, <1>9
  <2>2. q.addr + n <= p.addr + m
    BY <1>5, <1>7, <2>1, MultiplesApart
  <2>3. QED
    BY <1>4, <1>5, <1>8, <2>1, <2>2
<1>10. ASSUME NEW a \in Addresses(p) \cap Addresses(q)
       PROVE  q.addr \in Addresses(p)
  <2>1. /\ p.addr <= a /\ a <= p.addr + m - 1
        /\ q.addr <= a /\ a <= q.addr + n - 1 /\ a \in Int
    BY <1>4, <1>5, <1>8, <1>10
  <2>2. ~(n * j < n * e)
    BY <1>4, <1>5, <1>7, <2>1, MultiplesApart
  <2>3. p.addr <= q.addr
    BY <1>4, <1>5, <1>7, <2>2
  <2>4. QED
    BY <1>4, <1>5, <1>8, <2>1, <2>3
<1>11. QED
  BY <1>9, <1>10

\* netip.Prefix.Overlaps: two prefixes overlap exactly when they have an address
\* in common.
LEMMA OverlapsMeansShared ==
    ASSUME NEW p \in Prefix, NEW q \in Prefix
    PROVE  Overlaps(p, q) <=> Addresses(p) \cap Addresses(q) # {}
<1>1. ASSUME NEW b \in Prefix, NEW c \in Prefix, b.len <= c.len
      PROVE  Overlaps(b, c) <=> Addresses(b) \cap Addresses(c) # {}
  <2>1. b.len \in Int /\ c.len \in Int /\ c.addr \in Word /\ Masked(b.addr, b.len) = b.addr
    BY WidthAssumption DEF Prefix, PrefixLen
  <2>2. Overlaps(b, c) <=> Contains(b, c.addr)
    BY <1>1, <2>1 DEF Overlaps, Contains
  <2>3. Overlaps(b, c) <=> c.addr \in Addresses(b)
    BY <2>1, <2>2, ContainsMeansMember
  <2>4. c.addr \in Addresses(c)
    BY PrefixBlock DEF Addresses
  <2>5. QED
    BY <1>1, <2>3, <2>4, BlocksNest
<1>2. p.len \in Int /\ q.len \in Int
  BY WidthAssumption DEF Prefix, PrefixLen
<1>3. CASE p.len <= q.len
  BY <1>1, <1>3
<1>4. CASE q.len <= p.len
  BY <1>1, <1>4, OverlapsSymmetric
<1>5. QED
  BY <1>2, <1>3, <1>4

\* The CHOOSE of FindFreeIPv4Block is the free block with the lowest address.
LEMMA FindFreeIsLowest ==
    ASSUME NEW parent, NEW len \in PrefixLen, NEW siblings, parent.len <= len,
           parent.len \in Int,
           NEW b \in FreeBlocks(parent, len, siblings),
           \A c \in FreeBlocks(parent, len, siblings) : b.addr <= c.addr
    PROVE  FindFreeIPv4Block(parent, len, siblings) = Ok(b)
<1> DEFINE free == FreeBlocks(parent, len, siblings)
           Lowest(c) == c \in free /\ \A d \in free : c.addr <= d.addr
<1>1. \A c \in free : c.len = len /\ c.addr \in Nat /\ c = [addr |-> c.addr, len |-> c.len]
  BY PrefixBlock DEF FreeBlocks, Prefix
<1>2. ~(len < parent.len)
  BY WidthAssumption DEF PrefixLen
<1>3. FindFreeIPv4Block(parent, len, siblings)
        = Ok(CHOOSE c \in free : \A d \in free : c.addr <= d.addr)
  BY <1>2 DEF FindFreeIPv4Block
<1>4. ASSUME NEW c \in free, \A d \in free : c.addr <= d.addr
      PROVE  c = b
  <2>1. c.addr = b.addr
    BY <1>1, <1>4
  <2>2. QED
    BY <1>1, <2>1
<1> HIDE DEF free
<1>5. (CHOOSE c \in free : \A d \in free : c.addr <= d.addr) = b
  BY <1>4 DEF free
<1>6. QED
  BY <1>3, <1>5

=============================================================================
