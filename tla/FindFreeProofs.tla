--------------------------- MODULE FindFreeProofs ---------------------------
(***************************************************************************)
(* Proofs about the search loop of FindFreeIPv4Block, for addresses of any *)
(* width, every parent, every requested length and every set of siblings.  *)
(* That the search ends is left to TLC; that it goes up is proved.         *)
(***************************************************************************)
EXTENDS FindFree, IPv4Proofs

free == FreeBlocks(parent, prefixLen, siblings)

\* What the steps below use of the types.
LEMMA Typed ==
    ASSUME TypeOK, prefixLen \in PrefixLen
    PROVE  /\ parent \in Prefix /\ parent.len \in Int /\ prefixLen \in Int
           /\ candidate \in Nat /\ candidate < 2^W /\ 2^W \in Nat \ {0}
           /\ Step \in Nat \ {0}
           /\ \E k \in Nat : 2^W = Step * k
<1>1. parent \in Prefix /\ parent.len \in PrefixLen
  BY ParentsAssumption DEF TypeOK, Prefix
<1>2. /\ W - prefixLen \in 0 .. W /\ prefixLen \in 0 .. W /\ W - prefixLen \in Nat
      /\ W \in 0 .. W
  BY WidthAssumption DEF PrefixLen
<1>3. 2^W \in Nat \ {0} /\ Step \in Nat \ {0} /\ 2^prefixLen \in Nat
  BY <1>2, PowerAssumption DEF Step, BlockSize
<1>4. 2^W = 2^prefixLen * Step
  BY <1>2, PowersNestAssumption DEF Step, BlockSize
<1>5. PICK n \in Nat, k \in Nat : n = Step /\ k = 2^prefixLen /\ 2^W = k * n
  BY <1>3, <1>4
<1>6. 2^W = Step * k
  BY <1>5
<1>7. QED
  BY <1>1, <1>2, <1>3, <1>6, WidthAssumption DEF TypeOK, Word, PrefixLen

\* A free block starts at a multiple of the step inside the parent.
LEMMA FreeBlock ==
    ASSUME TypeOK, prefixLen \in PrefixLen, NEW b \in free
    PROVE  /\ b \in Prefix /\ b.len = prefixLen /\ b.addr \in Word /\ b.addr \in Nat
           /\ b.addr \in Addresses(parent)
           /\ \E i \in Int : b.addr = Step * i
           /\ \A s \in siblings : ~Overlaps(b, s)
<1>1. /\ b \in Prefix /\ b.len = prefixLen /\ PrefixContains(parent, b)
      /\ \A s \in siblings : ~Overlaps(b, s)
  BY DEF free, FreeBlocks
<1>2. parent \in Prefix /\ b.addr \in Word /\ b.addr \in Nat
  BY <1>1, Typed, PrefixBlock DEF Prefix
<1>3. b.addr \in Addresses(parent)
  BY <1>1, <1>2, ContainsMeansMember DEF PrefixContains
<1>4. \E i \in Int : b.addr = Step * i
  BY <1>1, PrefixBlock DEF Step
<1>5. QED
  BY <1>1, <1>2, <1>3, <1>4

\* The range that the loop walks ends at the last address of the parent.
LEMMA LastAddress ==
    ASSUME TypeOK, prefixLen \in PrefixLen
    PROVE  /\ lastAddr(parent) = parent.addr + BlockSize(parent.len) - 1
           /\ lastAddr(parent) \in Nat /\ parent.addr \in Nat
           /\ Addresses(parent) = parent.addr .. lastAddr(parent)
<1>1. PICK a \in Nat, m \in Nat \ {0}, w \in Nat \ {0} :
        a = parent.addr /\ m = BlockSize(parent.len) /\ w = 2^W /\ a + m <= w
  BY Typed, PrefixBlock
<1>2. a + m - 1 \in 0 .. (w - 1)
  BY <1>1
<1>3. (a + m - 1) % w = a + m - 1
  BY <1>1, <1>2
<1>4. QED
  BY <1>1, <1>2, <1>3 DEF lastAddr, Addresses

\* In the loop, the block at the candidate.
LEMMA CandidateBlock ==
    ASSUME TypeOK, LoopInv, pc = "loop"
    PROVE  /\ Masked(candidate, prefixLen) = candidate
           /\ Block = [addr |-> candidate, len |-> prefixLen]
           /\ Block \in Prefix
           /\ \E i \in Int : candidate = Step * i
           /\ Contains(parent, candidate) /\ (\A s \in siblings : ~Overlaps(Block, s))
                => Block \in free
<1>1. /\ prefixLen \in PrefixLen /\ parent.len <= prefixLen /\ candidate % Step = 0
      /\ candidate \in Word /\ candidate \in Nat /\ Step \in Nat \ {0}
  BY Typed DEF LoopInv, TypeOK
<1>2. Masked(candidate, prefixLen) = candidate
  <2>1. PICK c \in Nat, m \in Nat \ {0} : c = candidate /\ m = Step
    BY <1>1
  <2>2. c - (c % m) = c
    BY <1>1, <2>1
  <2>3. QED
    BY <2>1, <2>2 DEF Masked, Step, BlockSize
<1>3. Block = [addr |-> candidate, len |-> prefixLen]
  BY <1>2 DEF Block
<1>4. Block \in Prefix
  BY <1>1, <1>2, <1>3 DEF Prefix
<1>5. \E i \in Int : candidate = Step * i
  BY <1>1, MultipleOf
<1>6. ASSUME Contains(parent, candidate), \A s \in siblings : ~Overlaps(Block, s)
      PROVE  Block \in free
  <2>1. Block.addr = candidate /\ Block.len = prefixLen
    BY <1>3
  <2>2. parent.len \in Int /\ prefixLen \in Int
    BY <1>1, Typed
  <2>3. PrefixContains(parent, Block)
    BY <1>1, <1>6, <2>1, <2>2 DEF PrefixContains
  <2>4. QED
    BY <1>4, <1>6, <2>1, <2>3 DEF free, FreeBlocks
<1>7. QED
  BY <1>2, <1>3, <1>4, <1>5, <1>6

\* The next candidate: a multiple of the step, and not beyond a free block that
\* lies after this one.  At the end of the address space it wraps to 0.
LEMMA NextCandidate ==
    ASSUME TypeOK, prefixLen \in PrefixLen, NEW c \in Word, NEW i \in Int, c = Step * i
    PROVE  /\ (c + Step) % 2^W \in Word
           /\ c + Step <= 2^W /\ (c + Step < 2^W => (c + Step) % 2^W = c + Step)
           /\ ((c + Step) % 2^W) % Step = 0
           /\ \A b \in free : c < b.addr => (c + Step) % 2^W <= b.addr
<1>1. PICK m \in Nat \ {0}, w \in Nat \ {0}, k \in Nat :
        m = Step /\ w = 2^W /\ w = m * k
  BY Typed
<1>2. c \in Nat /\ c < w /\ c = m * i
  BY <1>1 DEF Word
<1>3. c + m <= w
  <2>1. m * i < m * k
    BY <1>1, <1>2
  <2>2. m * i + m <= m * k
    BY <2>1, MultiplesApart
  <2>3. QED
    BY <1>1, <1>2, <2>2
<1>4. PICK d \in Nat : d = (c + m) % w
  BY <1>1, <1>2
<1>5. d \in 0 .. (w - 1) /\ (c + m < w => d = c + m) /\ (c + m = w => d = 0)
  BY <1>1, <1>2, <1>3, <1>4
<1>6. d % m = 0
  <2>1. CASE c + m = w
    BY <1>5, <2>1
  <2>2. CASE c + m < w
    <3>1. PICK j \in Int : j = i + 1
      OBVIOUS
    <3>2. d = m * j
      BY <1>2, <1>5, <2>2, <3>1
    <3>3. d - (d % m) = d
      BY <3>2, FloorUnique
    <3>4. d % m \in Nat
      OBVIOUS
    <3>5. QED
      BY <3>3, <3>4
  <2>3. QED
    BY <1>1, <1>2, <1>3, <2>1, <2>2
<1>7. ASSUME NEW b \in free, c < b.addr
      PROVE  d <= b.addr
  <2>1. PICK j \in Int : b.addr = m * j /\ b.addr \in Nat
    BY <1>1, FreeBlock
  <2>2. m * i < m * j
    BY <1>2, <1>7, <2>1
  <2>3. m * i + m <= m * j
    BY <2>2, MultiplesApart
  <2>4. c + m <= b.addr
    BY <1>2, <2>1, <2>3
  <2>5. QED
    BY <1>2, <1>3, <1>5, <2>1, <2>4
<1>8. QED
  BY <1>1, <1>3, <1>4, <1>5, <1>6, <1>7 DEF Word

LEMMA InitInv == Init => FindFreeInv
<1> SUFFICES ASSUME Init PROVE FindFreeInv
  OBVIOUS
<1>1. 0 \in Word
  BY WidthAssumption, PowerAssumption DEF Word
<1>2. siblings \subseteq Prefix
  BY DEF Init, SiblingSets, Blocks
<1>3. QED
  BY <1>1, <1>2 DEF Init, FindFreeInv, TypeOK, LoopInv, LoopMatchesOperator, Err

\* Every return that agrees with the operator keeps the invariant.
LEMMA ReturnKeeps ==
    ASSUME FindFreeInv, NEW r, Return(r), r.prefix \in Prefix \cup {NoPrefix},
           r = FindFreeIPv4Block(parent, prefixLen, siblings)
    PROVE  FindFreeInv'
BY DEF FindFreeInv, TypeOK, LoopInv, LoopMatchesOperator, Return, args

\* The set-up of the loop: the first multiple of the step that is not below the
\* parent's address, or 0 if there is none.
LEMMA EnterKeeps ==
    ASSUME FindFreeInv, Enter
    PROVE  FindFreeInv'
<1> USE DEF FindFreeInv
<1>1. CASE prefixLen \notin PrefixLen
  <2>1. Return(Err("ErrInvalidPrefix"))
    BY <1>1 DEF Enter
  <2>2. QED
    BY <1>1, <2>1, ReturnKeeps DEF FindFreeIPv4Block, Err
<1>2. CASE prefixLen \in PrefixLen /\ prefixLen < parent.len
  <2>1. Return(Err("ErrPrefixTooBroad"))
    BY <1>2 DEF Enter
  <2>2. QED
    BY <1>2, <2>1, ReturnKeeps DEF FindFreeIPv4Block, Err
<1>3. CASE prefixLen \in PrefixLen /\ ~(prefixLen < parent.len)
  <2> DEFINE first == Masked(parent.addr, prefixLen)
  <2>1. /\ candidate' = IF first < parent.addr THEN (first + Step) % 2^W ELSE first
        /\ pc' = "loop" /\ UNCHANGED <<args, result>>
    BY <1>3 DEF Enter
  <2>2. parent.len <= prefixLen /\ parent.addr \in Word /\ parent.addr \in Nat
    BY <1>3, Typed, LastAddress DEF Prefix
  <2>3. first \in Word /\ first \in Nat /\ first <= parent.addr
        /\ \E i \in Int : first = Step * i
    <3>1. PICK m \in Nat \ {0}, a \in Nat : m = Step /\ a = parent.addr
      BY <1>3, <2>2, Typed
    <3>2. first = a - (a % m)
      BY <3>1 DEF Masked, Step, BlockSize
    <3>3. first \in Word
      BY <1>3, <2>2, MaskedAddress
    <3>4. a - (a % m) \in Nat /\ a - (a % m) <= a /\ \E i \in Int : a - (a % m) = m * i
      BY <3>1, RemainderFloor
    <3>5. QED
      BY <3>1, <3>2, <3>3, <3>4
  <2>4. first % Step = 0
    <3>1. PICK m \in Nat \ {0}, a \in Nat : m = Step /\ a = parent.addr
      BY <1>3, <2>2, Typed
    <3>2. first = a - (a % m)
      BY <3>1 DEF Masked, Step, BlockSize
    <3>3. QED
      BY <3>1, <3>2, RemainderCleared
  <2>5. ASSUME NEW b \in free
        PROVE  b.addr \in Nat /\ parent.addr <= b.addr
    BY <1>3, <2>2, FreeBlock, LastAddress
  <2>6. /\ candidate' \in Word /\ candidate' % Step = 0
        /\ \A b \in free : candidate' <= b.addr
    <3> HIDE DEF first
    <3>1. CASE first < parent.addr
      <4>1. \A b \in free : first < b.addr
        BY <2>2, <2>3, <2>5, <3>1
      <4>2. PICK i \in Int : first = Step * i
        BY <2>3
      <4>3. QED
        BY <1>3, <2>1, <2>3, <3>1, <4>1, <4>2, NextCandidate
    <3>2. CASE ~(first < parent.addr)
      BY <2>1, <2>2, <2>3, <2>4, <2>5, <3>2
    <3>3. QED
      BY <3>1, <3>2
  <2>7. TypeOK'
    BY <2>1, <2>6 DEF TypeOK, args
  <2>8. LoopInv'
    BY <1>3, <2>1, <2>2, <2>6 DEF LoopInv, args, free, Step
  <2>9. QED
    BY <2>1, <2>7, <2>8 DEF LoopMatchesOperator
<1>4. QED
  BY <1>1, <1>2, <1>3

\* A block that is outside the parent or taken is no free block, so the lowest
\* free one lies behind it.
\* The block that a pass leaves is not free: every free one lies after it.
LEMMA NotYetFree ==
    ASSUME FindFreeInv, Advance, NEW b \in free
    PROVE  candidate < b.addr
<1> USE DEF FindFreeInv
<1>1. pc = "loop" /\ prefixLen \in PrefixLen /\ candidate \in Nat /\ candidate <= b.addr
  BY Typed DEF Advance, LoopInv, free
<1>2. b \in Prefix /\ b.len = prefixLen /\ b.addr \in Nat
      /\ \A s \in siblings : ~Overlaps(b, s)
  BY <1>1, FreeBlock
<1>3. CASE b.addr = candidate
  <2>1. b = [addr |-> b.addr, len |-> b.len]
    BY <1>2 DEF Prefix
  <2>2. b = Block
    BY <1>1, <1>2, <1>3, <2>1, CandidateBlock
  <2>3. Contains(parent, candidate)
    BY <1>3 DEF free, FreeBlocks, PrefixContains
  <2>4. QED
    BY <1>2, <2>2, <2>3 DEF Advance
<1>4. QED
  BY <1>1, <1>2, <1>3

LEMMA AdvanceKeeps ==
    ASSUME FindFreeInv, Advance
    PROVE  FindFreeInv'
<1> USE DEF FindFreeInv
<1>1. /\ pc = "loop" /\ candidate' = (candidate + Step) % 2^W
      /\ UNCHANGED <<args, pc, result>>
  BY DEF Advance
<1>2. /\ prefixLen \in PrefixLen /\ parent.len <= prefixLen
      /\ candidate \in Word /\ candidate \in Nat
      /\ \A b \in free : candidate <= b.addr
  BY <1>1, Typed DEF LoopInv, TypeOK, free
<1>3. \A b \in free : candidate < b.addr
  BY NotYetFree
<1>4. PICK i \in Int : candidate = Step * i
  BY <1>1, CandidateBlock
<1>5. /\ candidate' \in Word /\ candidate' % Step = 0
      /\ \A b \in free : candidate' <= b.addr
  BY <1>1, <1>2, <1>3, <1>4, NextCandidate
<1>6. TypeOK'
  BY <1>1, <1>5 DEF TypeOK, args
<1>7. LoopInv'
  BY <1>1, <1>2, <1>5 DEF LoopInv, args, free, Step
<1>8. QED
  BY <1>1, <1>6, <1>7 DEF LoopMatchesOperator

\* The block the loop stops at is the lowest free one.
LEMMA FoundKeeps ==
    ASSUME FindFreeInv, Found
    PROVE  FindFreeInv'
<1> USE DEF FindFreeInv
<1>1. /\ pc = "loop" /\ Contains(parent, candidate)
      /\ \A s \in siblings : ~Overlaps(Block, s)
      /\ Return(Ok(Block))
  BY DEF Found
<1>2. Block \in free /\ Block \in Prefix /\ Block.addr = candidate
  BY <1>1, CandidateBlock
<1>3. /\ prefixLen \in PrefixLen /\ parent.len <= prefixLen /\ parent.len \in Int
      /\ \A b \in free : Block.addr <= b.addr
  BY <1>1, <1>2, Typed DEF LoopInv, free
<1>4. Ok(Block) = FindFreeIPv4Block(parent, prefixLen, siblings)
  BY <1>2, <1>3, FindFreeIsLowest DEF free
<1>5. Ok(Block).prefix \in Prefix
  BY <1>2 DEF Ok
<1>6. QED
  BY <1>1, <1>4, <1>5, ReturnKeeps

\* A candidate beyond the parent has passed every free block.
LEMMA ExhaustedKeeps ==
    ASSUME FindFreeInv, Exhausted
    PROVE  FindFreeInv'
<1> USE DEF FindFreeInv
<1>1. pc = "loop" /\ ~(candidate <= lastAddr(parent)) /\ Return(Err("ErrNoFreeBlock"))
  BY DEF Exhausted, InRange
<1>2. /\ prefixLen \in PrefixLen /\ parent.len <= prefixLen
      /\ candidate \in Nat /\ parent.len \in Int /\ prefixLen \in Int
      /\ \A b \in free : candidate <= b.addr
  BY <1>1, Typed DEF LoopInv, free
<1>3. ASSUME NEW b \in free
      PROVE  FALSE
  <2>1. b.addr \in Addresses(parent) /\ b.addr \in Nat
    BY <1>2, FreeBlock
  <2>2. b.addr <= lastAddr(parent) /\ lastAddr(parent) \in Nat
    BY <1>2, <2>1, LastAddress
  <2>3. QED
    BY <1>1, <1>2, <1>3, <2>1, <2>2
<1>4. FindFreeIPv4Block(parent, prefixLen, siblings) = Err("ErrNoFreeBlock")
  BY <1>2, <1>3 DEF free, FindFreeIPv4Block
<1>5. QED
  BY <1>1, <1>4, ReturnKeeps DEF Err

\* The invariant of the loop (ipv4.go:71-121): the types, the progress of the
\* candidate along the blocks and the agreement with the operator hold on every
\* reachable state.
THEOREM FindFreeInductive == Spec => []FindFreeInv
<1>1. Init => FindFreeInv
  BY InitInv
<1>2. FindFreeInv /\ [Next]_vars => FindFreeInv'
  <2> SUFFICES ASSUME FindFreeInv, [Next]_vars
               PROVE  FindFreeInv'
    OBVIOUS
  <2>1. CASE Enter
    BY <2>1, EnterKeeps
  <2>2. CASE Advance
    BY <2>2, AdvanceKeeps
  <2>3. CASE Found
    BY <2>3, FoundKeeps
  <2>4. CASE Exhausted
    BY <2>4, ExhaustedKeeps
  <2>5. CASE UNCHANGED vars
    BY <2>5 DEF vars, FindFreeInv, TypeOK, LoopInv, LoopMatchesOperator, Step
  <2>6. QED
    BY <2>1, <2>2, <2>3, <2>4, <2>5 DEF Next, Returned
<1>3. QED
  BY <1>1, <1>2, PTL DEF Spec

\* The uint32 loop returns what the operator of the subnet service says: the
\* lowest free block, or the error, on valid and invalid lengths alike.
THEOREM LoopIsOperator == Spec => []LoopMatchesOperator
<1>1. FindFreeInv => LoopMatchesOperator
  BY DEF FindFreeInv
<1>2. QED
  BY <1>1, FindFreeInductive, PTL

\* The ranges of FirstFit, stated on addresses alone, are the free blocks.
LEMMA FreeRanges ==
    ASSUME TypeOK, prefixLen \in PrefixLen, parent.len <= prefixLen, NEW a
    PROVE  a \in Free <=> [addr |-> a, len |-> prefixLen] \in free
<1> DEFINE b == [addr |-> a, len |-> prefixLen]
<1>1. /\ parent \in Prefix /\ parent.len \in Int /\ prefixLen \in Int
      /\ siblings \subseteq Prefix
  BY Typed DEF TypeOK
<1>2. b.addr = a /\ b.len = prefixLen /\ Addresses(b) = a .. (a + Step - 1)
  BY DEF Addresses, Step
<1>3. ASSUME b \in Prefix
      PROVE  (Addresses(b) \cap Taken = {}) <=> \A s \in siblings : ~Overlaps(b, s)
  <2>1. \A s \in siblings : Overlaps(b, s) <=> Addresses(b) \cap Addresses(s) # {}
    BY <1>1, <1>3, OverlapsMeansShared
  <2> HIDE DEF b
  <2>2. QED
    BY <2>1 DEF Taken
<1>4. ASSUME a \in Free
      PROVE  b \in free
  <2>1. /\ a \in Addresses(parent) /\ a % Step = 0
        /\ Addresses(b) \cap Taken = {}
    BY <1>2, <1>4 DEF Free, Candidates
  <2>2. a \in Word /\ a \in Nat
    <3>1. PICK c \in Nat, m \in Nat \ {0}, w \in Nat \ {0} :
            c = parent.addr /\ m = BlockSize(parent.len) /\ w = 2^W /\ c + m <= w
      BY <1>1, PrefixBlock
    <3>2. a \in c .. (c + m - 1)
      BY <2>1, <3>1 DEF Addresses
    <3>3. a \in 0 .. (w - 1)
      BY <3>1, <3>2
    <3>4. QED
      BY <3>1, <3>3 DEF Word
  <2>3. Masked(a, prefixLen) = a
    <3>1. PICK m \in Nat \ {0} : m = Step
      BY Typed
    <3>2. a % m = 0
      BY <2>1, <3>1
    <3>3. a - (a % m) = a
      BY <2>2, <3>2
    <3>4. QED
      BY <3>1, <3>3 DEF Masked, Step, BlockSize
  <2>4. b \in Prefix
    BY <1>2, <2>2, <2>3 DEF Prefix
  <2>5. PrefixContains(parent, b)
    BY <1>1, <1>2, <2>1, <2>2, ContainsMeansMember DEF PrefixContains
  <2>6. \A s \in siblings : ~Overlaps(b, s)
    BY <1>3, <2>1, <2>4
  <2>7. QED
    BY <1>2, <2>4, <2>5, <2>6 DEF free, FreeBlocks
<1>5. ASSUME b \in free
      PROVE  a \in Free
  <2>1. /\ b \in Prefix /\ a \in Addresses(parent)
        /\ \A s \in siblings : ~Overlaps(b, s)
    BY <1>2, <1>5, FreeBlock
  <2>2. a % Step = 0
    BY <1>2, <2>1, PrefixBlock DEF Step
  <2>3. Addresses(b) \subseteq Addresses(parent)
    BY <1>1, <1>2, <2>1, BlocksNest
  <2>4. Addresses(b) \cap Taken = {}
    BY <1>3, <2>1
  <2>5. QED
    BY <1>2, <2>1, <2>2, <2>3, <2>4 DEF Free, Candidates
<1>6. QED
  BY <1>4, <1>5

\* A finished search agrees with first fit by addresses.
LEMMA LowestRange ==
    ASSUME FindFreeInv
    PROVE  FirstFit
<1> SUFFICES ASSUME pc = "done", prefixLen \in parent.len .. W
             PROVE  IF Free = {} THEN result.err = "ErrNoFreeBlock"
                    ELSE /\ result.err = "none"
                         /\ result.prefix.len = prefixLen
                         /\ result.prefix.addr \in Free
                         /\ \A a \in Free : result.prefix.addr <= a
  BY DEF FirstFit
<1>1. TypeOK /\ result = FindFreeIPv4Block(parent, prefixLen, siblings)
  BY DEF FindFreeInv, LoopMatchesOperator
<1>2. parent \in Prefix /\ parent.len \in PrefixLen
  BY <1>1, ParentsAssumption DEF TypeOK, Prefix
<1>3. prefixLen \in PrefixLen /\ parent.len <= prefixLen /\ parent.len \in Int
      /\ prefixLen \in Int
  BY <1>2, WidthAssumption DEF PrefixLen
<1>4. \A a : a \in Free <=> [addr |-> a, len |-> prefixLen] \in free
  BY <1>1, <1>3, FreeRanges
<1>5. \A b \in free : b \in Prefix /\ b = [addr |-> b.addr, len |-> prefixLen]
                      /\ b.addr \in Free
  <2>1. \A b \in free : b \in Prefix /\ b.len = prefixLen
    BY <1>1, <1>3, FreeBlock
  <2>2. \A b \in free : b = [addr |-> b.addr, len |-> prefixLen]
    BY <2>1 DEF Prefix
  <2>3. QED
    BY <1>4, <2>1, <2>2
<1>6. CASE free = {}
  <2>1. result = Err("ErrNoFreeBlock")
    BY <1>1, <1>3, <1>6 DEF FindFreeIPv4Block, free
  <2>2. Free = {}
    BY <1>4, <1>6
  <2>3. QED
    BY <2>1, <2>2 DEF Err
<1>7. CASE free # {}
  <2>1. PICK b \in free : \A c \in free : b.addr <= c.addr
    BY <1>5, <1>7, LowestPrefix
  <2>2. result = Ok(b)
    BY <1>1, <1>3, <2>1, FindFreeIsLowest DEF free
  <2>3. result.err = "none" /\ result.prefix = b
    BY <2>2 DEF Ok
  <2>4. result.prefix.len = prefixLen /\ result.prefix.addr \in Free
    BY <1>1, <1>3, <1>5, <2>1, <2>3, FreeBlock
  <2>5. ASSUME NEW a \in Free
        PROVE  b.addr <= a
    <3>1. [addr |-> a, len |-> prefixLen] \in free
      BY <1>4
    <3>2. QED
      BY <2>1, <3>1
  <2>6. QED
    BY <2>3, <2>4, <2>5
<1>8. QED
  BY <1>6, <1>7

\* The search returns the lowest aligned range of the requested size that lies
\* in the parent and shares no address with a child, and "no free block" exactly
\* when there is none, whatever the width of an address.
THEOREM SearchIsFirstFit == Spec => []FirstFit
<1>1. FindFreeInv => FirstFit
  BY LowestRange
<1>2. QED
  BY <1>1, FindFreeInductive, PTL

\* The block of the last pass before the wrap ends the parent as well, blocks
\* being nested or disjoint.
LEMMA LastPass ==
    ASSUME FindFreeInv, Advance, candidate + Step = 2^W
    PROVE  lastAddr(parent) = 2^W - 1
<1> USE DEF FindFreeInv
<1>1. /\ pc = "loop" /\ candidate <= lastAddr(parent)
      /\ prefixLen \in PrefixLen /\ parent.len <= prefixLen
  BY DEF Advance, InRange, LoopInv
<1>2. PICK w \in Nat \ {0}, m \in Nat \ {0}, l \in Nat, a \in Nat, c \in Nat :
        /\ w = 2^W /\ m = Step /\ l = lastAddr(parent) /\ a = parent.addr /\ c = candidate
        /\ Addresses(parent) = a .. l
  BY <1>1, Typed, LastAddress
<1>3. a <= l /\ l <= w - 1
  <2>1. PICK s \in Nat \ {0} : s = BlockSize(parent.len) /\ a + s <= w
    BY <1>1, <1>2, Typed, PrefixBlock
  <2>2. l = a + s - 1
    BY <1>1, <1>2, <2>1, LastAddress
  <2>3. QED
    BY <2>1, <2>2
<1>4. Addresses(Block) = c .. (w - 1)
  <2>1. Addresses(Block) = candidate .. (candidate + Step - 1)
    BY <1>1, CandidateBlock DEF Addresses, Step
  <2>2. c + m - 1 = w - 1
    BY <1>2
  <2>3. QED
    BY <1>2, <2>1, <2>2
<1>5. c <= l /\ c <= w - 1
  BY <1>1, <1>2, <1>3
<1>6. Addresses(parent) \cap Addresses(Block) # {}
  <2>1. a \in Addresses(parent) \cap Addresses(Block) \/ c \in Addresses(parent) \cap Addresses(Block)
    BY <1>2, <1>3, <1>4, <1>5
  <2>2. QED
    BY <2>1
<1>7. Addresses(Block) \subseteq Addresses(parent)
  <2>1. parent \in Prefix /\ Block \in Prefix /\ Block.len = prefixLen
    BY <1>1, Typed, CandidateBlock
  <2>2. QED
    BY <1>1, <1>6, <2>1, BlocksNest
<1>8. w - 1 \in a .. l
  BY <1>2, <1>4, <1>5, <1>7
<1>9. QED
  BY <1>2, <1>3, <1>8

\* A free block would start where the address space has ended.
LEMMA NoneLeft ==
    ASSUME FindFreeInv, Advance, candidate + Step = 2^W
    PROVE  free = {}
<1> USE DEF FindFreeInv
<1> SUFFICES ASSUME NEW b \in free PROVE FALSE
  OBVIOUS
<1>1. pc = "loop" /\ prefixLen \in PrefixLen
  BY DEF Advance, LoopInv
<1>2. PICK w \in Nat \ {0}, m \in Nat \ {0}, i \in Int, j \in Int :
        /\ w = 2^W /\ m = Step /\ candidate = m * i /\ b.addr = m * j /\ candidate \in Nat
        /\ b.addr \in Word
  BY <1>1, Typed, CandidateBlock, FreeBlock
<1>3. m * i < m * j
  BY <1>2, NotYetFree
<1>4. m * i + m <= m * j
  BY <1>2, <1>3, MultiplesApart
<1>5. b.addr \in Nat /\ b.addr < w
  BY <1>2 DEF Word
<1>6. QED
  BY <1>2, <1>4, <1>5

\* One pass goes up, or the counter wraps in a full parent.
LEMMA PassAbove ==
    ASSUME FindFreeInv, Advance
    PROVE  candidate < candidate' \/ SearchWraps(parent, prefixLen, siblings)
<1> USE DEF FindFreeInv
<1>1. /\ pc = "loop" /\ candidate' = (candidate + Step) % 2^W
      /\ prefixLen \in PrefixLen /\ parent.len <= prefixLen
  BY DEF Advance, LoopInv
<1>2. PICK i \in Int : candidate = Step * i
  BY <1>1, CandidateBlock
<1>3. /\ candidate + Step <= 2^W
      /\ candidate + Step < 2^W => candidate' = candidate + Step
  BY <1>1, <1>2, NextCandidate DEF TypeOK
<1>4. candidate \in Nat /\ Step \in Nat \ {0} /\ 2^W \in Nat /\ parent.len \in Int /\ prefixLen \in Int
  BY <1>1, Typed
<1>5. CASE candidate + Step < 2^W
  <2>1. candidate' = candidate + Step
    BY <1>3, <1>5
  <2>2. QED
    BY <1>4, <2>1
<1>6. CASE candidate + Step = 2^W
  <2>1. lastAddr(parent) = 2^W - 1 /\ free = {}
    BY <1>6, LastPass, NoneLeft
  <2>2. prefixLen >= parent.len
    BY <1>1, <1>4
  <2>3. QED
    BY <1>1, <2>1, <2>2 DEF SearchWraps, free
<1>7. QED
  BY <1>3, <1>4, <1>5, <1>6

\* The safety core of termination: outside SearchWraps each pass is above the one
\* before, and there are finitely many addresses (ipv4.go:101).
THEOREM SearchNeverGoesBack == Spec => SearchAdvances
<1>1. FindFreeInv /\ Advance => candidate < candidate' \/ SearchWraps(parent, prefixLen, siblings)
  BY PassAbove
<1>2. FindFreeInv /\ [Next]_vars =>
        [pc = "loop" /\ pc' = "loop" =>
           candidate < candidate' \/ SearchWraps(parent, prefixLen, siblings)]_vars
  BY <1>1 DEF Next, Enter, Found, Exhausted, Returned, Return
<1>3. QED
  BY <1>2, FindFreeInductive, PTL DEF Spec, SearchAdvances
=============================================================================
