-------------------------------- MODULE IPv4 --------------------------------
(***************************************************************************)
(* CIDR arithmetic of internal/iputil/ipv4.go over addresses of W bits     *)
(* (the code has W = 32).  A prefix is the record of a masked network      *)
(* address and a length, the netip.Prefix the code handles.  Every         *)
(* function that returns (prefix, error) returns a Result record here.     *)
(***************************************************************************)
EXTENDS Integers, FiniteSets

CONSTANT W              \* bits of an address

ASSUME WidthAssumption == W \in Nat \ {0}

\* A fact about exponentiation that the provers have no induction to derive.
ASSUME PowerAssumption == \A k \in 0 .. W : 2^k \in Nat \ {0}

\* Another one: a block is a whole number of the blocks of any longer length.
ASSUME PowersNestAssumption == \A j \in 0 .. W : \A k \in 0 .. j : 2^j = 2^k * 2^(j - k)

Word      == 0 .. (2^W - 1)
PrefixLen == 1 .. W

\* The address with its host bits cleared, as netip.Prefix.Masked does.
Masked(a, len) == a - (a % 2^(W - len))

\* The prefixes ParseIPv4Prefix can return: never /0, always masked.
Prefix == {p \in [addr : Word, len : PrefixLen] : Masked(p.addr, p.len) = p.addr}

\* The zero netip.Prefix{} that accompanies an error.
NoPrefix == [addr |-> 0, len |-> 0]

Ok(p)  == [err |-> "none", prefix |-> p]
Err(e) == [err |-> e, prefix |-> NoPrefix]

\* Stands for the address strings netip.ParseAddr refuses or that are not IPv4.
BadAddress == -1

ParseIPv4Prefix(address, prefixLen) ==
    IF prefixLen \notin PrefixLen THEN Err("ErrInvalidPrefix")
    ELSE IF address \notin Word THEN Err("ErrInvalidIPv4Address")
    ELSE Ok([addr |-> Masked(address, prefixLen), len |-> prefixLen])

\* netip.Prefix.Contains(addr)
Contains(p, a) == Masked(a, p.len) = p.addr

PrefixContains(parent, child) ==
    /\ child.len >= parent.len
    /\ Contains(parent, child.addr)

\* netip.Prefix.Overlaps: equal once both are cut to the shorter length.
Overlaps(p, q) ==
    LET len == IF p.len < q.len THEN p.len ELSE q.len
    IN  Masked(p.addr, len) = Masked(q.addr, len)

\* parent is the set of the parent's prefix, empty for the nil pointer that
\* stands for a network parent.
ValidateIPv4Subnet(candidate, parent, siblings) ==
    IF candidate.len \notin PrefixLen THEN "ErrInvalidPrefix"
    ELSE IF \E p \in parent : candidate.len < p.len THEN "ErrPrefixTooBroad"
    ELSE IF \E p \in parent : ~PrefixContains(p, candidate) THEN "ErrOutsideParent"
    ELSE IF \E s \in siblings : Overlaps(candidate, s) THEN "ErrOverlap"
    ELSE "none"

BlockSize(len) == 2^(W - len)

\* The addresses of a prefix, the reference the bit arithmetic is checked with.
Addresses(p) == p.addr .. (p.addr + BlockSize(p.len) - 1)

lastAddr(p) == (p.addr + BlockSize(p.len) - 1) % 2^W

\* The blocks of the given length inside parent that no sibling overlaps.
FreeBlocks(parent, len, siblings) ==
    {b \in Prefix : /\ b.len = len
                    /\ PrefixContains(parent, b)
                    /\ \A s \in siblings : ~Overlaps(b, s)}

\* What FindFreeIPv4Block returns when its search returns: the lowest free
\* block.  Module FindFree has the loop itself and checks it against this.
FindFreeIPv4Block(parent, prefixLen, siblings) ==
    IF prefixLen \notin PrefixLen THEN Err("ErrInvalidPrefix")
    ELSE IF prefixLen < parent.len THEN Err("ErrPrefixTooBroad")
    ELSE LET free == FreeBlocks(parent, prefixLen, siblings)
         IN  IF free = {} THEN Err("ErrNoFreeBlock")
             ELSE Ok(CHOOSE b \in free : \A c \in free : b.addr <= c.addr)

\* The inputs on which the search does not return: the parent is full for this
\* length and ends at the highest address, so the uint32 candidate wraps to 0
\* and stays below the end of the range for ever.
SearchWraps(parent, prefixLen, siblings) ==
    /\ prefixLen \in PrefixLen
    /\ prefixLen >= parent.len
    /\ lastAddr(parent) = 2^W - 1
    /\ FreeBlocks(parent, prefixLen, siblings) = {}
=============================================================================
