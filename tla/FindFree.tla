------------------------------ MODULE FindFree ------------------------------
(***************************************************************************)
(* The search loop of FindFreeIPv4Block and findFreeInRange                *)
(* (internal/iputil/ipv4.go), one iteration per step, in the modular       *)
(* arithmetic of its uint32 counter.  The call's inputs are chosen in the  *)
(* initial state: a parent, a requested length (valid or not) and the      *)
(* prefixes of the parent's children, which are pairwise disjoint blocks   *)
(* inside it because that is all SubnetService.Create ever inserts.        *)
(***************************************************************************)
EXTENDS IPv4

CONSTANT Parents        \* the parent prefixes the run enumerates

ASSUME ParentsAssumption == Parents \subseteq Prefix

VARIABLES
    parent, prefixLen, siblings,   \* the arguments, never changed
    pc,                            \* "call", "loop" or "done"
    candidate,                     \* the uint32 loop variable
    result                         \* the value returned

vars == <<parent, prefixLen, siblings, pc, candidate, result>>
args == <<parent, prefixLen, siblings>>

Blocks(p) == {b \in Prefix : PrefixContains(p, b)}

SiblingSets(p) ==
    {S \in SUBSET Blocks(p) : \A a, b \in S : a # b => ~Overlaps(a, b)}

Step == BlockSize(prefixLen)

Init ==
    /\ parent \in Parents
    /\ prefixLen \in 0 .. (W + 1)
    /\ siblings \in SiblingSets(parent)
    /\ pc = "call"
    /\ candidate = 0
    /\ result = Err("none")

Return(res) ==
    /\ pc' = "done"
    /\ result' = res
    /\ UNCHANGED <<args, candidate>>

\* Mutant: FindFreeIPv4Block without its check against the parent's length,
\* leaving it to the same check in findFreeInRange, which has no error to return.
Enter_lateLengthCheck ==
    /\ pc = "call"
    /\ IF prefixLen \notin PrefixLen THEN Return(Err("ErrInvalidPrefix"))
       ELSE IF prefixLen < parent.len THEN Return(Err("ErrNoFreeBlock"))
       ELSE /\ candidate' = Masked(parent.addr, prefixLen)
            /\ pc' = "loop"
            /\ UNCHANGED <<args, result>>

\* The length checks, then the set-up of the loop.
Enter ==
    /\ pc = "call"
    /\ IF prefixLen \notin PrefixLen THEN Return(Err("ErrInvalidPrefix"))
       ELSE IF prefixLen < parent.len THEN Return(Err("ErrPrefixTooBroad"))
       ELSE LET first == Masked(parent.addr, prefixLen)
            IN  /\ candidate' = IF first < parent.addr
                                THEN (first + Step) % 2^W ELSE first
                /\ pc' = "loop"
                /\ UNCHANGED <<args, result>>

Block == [addr |-> Masked(candidate, prefixLen), len |-> prefixLen]

\* Mutant: a half-open range, the last address is never a candidate.
InRange_halfOpen == candidate < lastAddr(parent)

InRange == candidate <= lastAddr(parent)

\* Mutant: a taken block is retried, the post statement of the loop is skipped.
Advance_retry ==
    /\ pc = "loop"
    /\ InRange
    /\ \/ ~Contains(parent, candidate)
       \/ \E s \in siblings : Overlaps(Block, s)
    /\ UNCHANGED vars

\* The block at candidate is outside the range or taken: candidate += step.
Advance ==
    /\ pc = "loop"
    /\ InRange
    /\ \/ ~Contains(parent, candidate)
       \/ \E s \in siblings : Overlaps(Block, s)
    /\ candidate' = (candidate + Step) % 2^W
    /\ UNCHANGED <<args, pc, result>>

Found ==
    /\ pc = "loop"
    /\ InRange
    /\ Contains(parent, candidate)
    /\ \A s \in siblings : ~Overlaps(Block, s)
    /\ Return(Ok(Block))

Exhausted ==
    /\ pc = "loop"
    /\ ~InRange
    /\ Return(Err("ErrNoFreeBlock"))

\* The call has returned: the behaviour stutters.
Returned == pc = "done" /\ UNCHANGED vars

Next == Enter \/ Advance \/ Found \/ Exhausted \/ Returned

\* A goroutine that can execute its next instruction does.
Spec == Init /\ [][Next]_vars /\ WF_vars(Next)

-----------------------------------------------------------------------------
TypeOK ==
    /\ parent \in Parents
    /\ prefixLen \in 0 .. (W + 1)
    /\ siblings \subseteq Prefix
    /\ pc \in {"call", "loop", "done"}
    /\ candidate \in Word
    /\ result.prefix \in Prefix \cup {NoPrefix}

Taken == UNION {Addresses(s) : s \in siblings}

\* Aligned ranges of the requested size inside the parent, by address sets
\* alone: no masking, no Overlaps.
Candidates ==
    {a \in Addresses(parent) :
        /\ a % Step = 0
        /\ a .. (a + Step - 1) \subseteq Addresses(parent)}

Free == {a \in Candidates : (a .. (a + Step - 1)) \cap Taken = {}}

\* findFreeInRange returns the LOWEST aligned range of the requested size that
\* lies in the parent and shares no address with a child, and reports "no free
\* block" exactly when there is none (ipv4.go:71-121).
FirstFit ==
    (pc = "done" /\ prefixLen \in parent.len .. W) =>
        IF Free = {} THEN result.err = "ErrNoFreeBlock"
        ELSE /\ result.err = "none"
             /\ result.prefix.len = prefixLen
             /\ result.prefix.addr \in Free
             /\ \A a \in Free : result.prefix.addr <= a

\* What the loop returns is what the operator FindFreeIPv4Block, which the
\* service model uses in its place, says, on invalid lengths as well.
LoopMatchesOperator ==
    pc = "done" => result = FindFreeIPv4Block(parent, prefixLen, siblings)

\* The inductive invariant: the loop walks along the blocks of the requested
\* length and has not passed a free one; once it wraps, there was none to pass.
LoopInv ==
    pc = "loop" =>
        /\ prefixLen \in PrefixLen /\ parent.len <= prefixLen
        /\ candidate % Step = 0
        /\ \A b \in FreeBlocks(parent, prefixLen, siblings) : candidate <= b.addr

FindFreeInv == TypeOK /\ LoopInv /\ LoopMatchesOperator

\* The search ends on every input outside SearchWraps, also for the parents
\* that end at the highest address as long as a block is free in them.
EndsUnlessWrapped ==
    ~SearchWraps(parent, prefixLen, siblings) ~> pc = "done"

\* The counter behind it: the candidate of a pass lies above the one before, so
\* that the loop has at most 2^W passes, on every input outside SearchWraps
\* (ipv4.go:101).
SearchAdvances ==
    [][pc = "loop" /\ pc' = "loop" =>
         candidate < candidate' \/ SearchWraps(parent, prefixLen, siblings)]_vars

\* What the documentation says of a full parent: the request is answered with
\* "409 ... no free address", so the search must end on every input.
AlwaysEnds == <>(pc = "done")
=============================================================================
