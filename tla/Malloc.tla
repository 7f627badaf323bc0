------------------------------- MODULE Malloc -------------------------------
(***************************************************************************)
(* The kernel heap of malloc.c: a first-fit allocator over a doubly linked *)
(* list of block headers between two static sentinels, grown with sbrk.    *)
(*                                                                         *)
(* Memory is modelled by the headers only: meta[a] is the header stored at *)
(* address a.  What lies at an address where no header of the list is, is  *)
(* data of nobody or of the user, and is forgotten at the end of a step.   *)
(* The first-fit walk and the growth loop are steps, because their ends    *)
(* depend on the list and on sbrk; the allocator itself runs in thread     *)
(* context only, one call at a time.                                       *)
(***************************************************************************)
EXTENDS Integers

CONSTANTS
    SizeT,      \* sizeof(size_t), the alignment (4)
    MetaSize,   \* sizeof(Meta) (16)
    PageSize,   \* PAGE_SIZE, what a call of sbrk adds to the break (0x1000)
    FirstStep,  \* what the first call adds: 1 on x86, PAGE_SIZE on ARM
    HeapStart,  \* the break before the first allocation
    HeapLimit,  \* the end of the memory that sbrk can hand out
    WordSize,   \* number of values of a size_t (2^32), scaled down
    Sizes,      \* sizes that callers of malloc and realloc ask for
    Counts      \* <<number, size>> pairs that callers of calloc ask for

ASSUME MallocAssumption ==
    /\ SizeT \in Nat \ {0} /\ MetaSize \in Nat \ {0} /\ PageSize \in Nat \ {0}
    /\ FirstStep \in 1 .. PageSize
    /\ HeapStart \in Nat \ {0} /\ HeapLimit \in Nat /\ WordSize \in Nat
    /\ HeapStart < HeapLimit /\ HeapLimit < WordSize
    /\ Sizes \subseteq 0 .. WordSize - 1
    /\ Counts \subseteq Nat \X Nat

VARIABLES
    meta,       \* the headers in memory and the two sentinels
    alloc_end,  \* end of the used heap, 0 before the first growth
    brk,        \* sbrk(0)
    pc,         \* what the running call does; "idle" between calls
    size,       \* its argument, aligned
    block,      \* the header it is at
    old,        \* realloc: the pointer to release, NULL in malloc and calloc
    request,    \* the number of bytes its caller asked for
    halted,     \* memallocp found no free page and halted the machine
    user,       \* history: live allocations, with the bytes asked for
    blocks      \* history: the headers that are in the list

callVars == <<size, block, old, request>>
vars == <<meta, alloc_end, brk, pc, callVars, halted, user, blocks>>

NULL == 0
Addr == HeapStart .. HeapLimit - 1
Head == -1
Tail == WordSize
Node == Addr \cup {Head, Tail}
Word == 0 .. WordSize - 1
Ptr == {NULL} \cup 1 .. HeapLimit

\* 32-bit arithmetic on two words.
Plus(a, b) == IF a + b >= WordSize THEN a + b - WordSize ELSE a + b
Minus(a, b) == IF a >= b THEN a - b ELSE a - b + WordSize

\* Fault: the size is rounded down.
AlignDown(n) == n - (n % SizeT)

\* size rounded up to a multiple of sizeof(size_t).
Align(n) == IF n % SizeT # 0 THEN Plus(n, SizeT - (n % SizeT)) ELSE n

NoMeta == [size |-> 0, free |-> FALSE, prev |-> Head, next |-> Tail]

TypeOK ==
    /\ meta \in [Node -> [size : Word, free : BOOLEAN,
                          prev : Node, next : Node]]
    /\ alloc_end \in {0} \cup HeapStart .. HeapLimit
    /\ brk \in HeapStart .. HeapLimit
    /\ pc \in {"idle", "walk", "grow", "realloc"}
    /\ size \in Word
    /\ block \in Node
    /\ old \in Ptr
    /\ request \in Nat
    /\ halted \in BOOLEAN
    /\ blocks \subseteq Addr
    /\ DOMAIN user \subseteq Ptr
    /\ \A p \in DOMAIN user : user[p] \in Nat

Init ==
    /\ meta = [a \in Node |-> NoMeta]
    /\ alloc_end = 0 /\ brk = HeapStart
    /\ pc = "idle" /\ size = 0 /\ block = Head /\ old = NULL /\ request = 0
    /\ halted = FALSE
    /\ user = [p \in {} |-> 0]
    /\ blocks = {}

-----------------------------------------------------------------------------
(* Updates of the list.                                                    *)

\* The successor of b, a free block, is absorbed by b.
MergeNext(m, b) ==
    LET n == m[b].next
    IN [m EXCEPT ![m[n].next].prev = b,
                 ![b] = [@ EXCEPT !.size = m[b].size + m[n].size + MetaSize,
                                  !.next = m[n].next]]

\* Block b is absorbed by its predecessor, a free block.
MergePrev(m, b) ==
    LET p == m[b].prev
    IN [m EXCEPT ![m[b].next].prev = p,
                 ![p] = [@ EXCEPT !.size = m[p].size + m[b].size + MetaSize,
                                  !.next = m[b].next]]

SetFree(m, b, value) == [m EXCEPT ![b].free = value]

\* Fault: the successor is never merged.
NextIgnored(m, b) == FALSE

PrevFree(m, b) == m[m[b].prev].free
NextFree(m, b) == m[m[b].next].free

\* free(b + MetaSize): the list after it, and the headers still in the list.
Freed(m, b) ==
    LET m1 == SetFree(m, b, TRUE)
        m2 == IF PrevFree(m1, b) THEN MergePrev(m1, b) ELSE m1
        c  == IF PrevFree(m1, b) THEN m1[b].prev ELSE b
    IN IF NextFree(m2, c) THEN MergeNext(m2, c) ELSE m2

FreedBlocks(m, bs, b) ==
    (bs \ (IF PrevFree(m, b) THEN {b} ELSE {}))
        \ (IF NextFree(m, b) THEN {m[b].next} ELSE {})

\* A free block of sufficient size is taken; what is left over becomes a free
\* block when it can hold a header and a word, merged with a free successor.
CanSplit(m, b, n) == m[b].size - n >= SizeT + MetaSize
Rest(b, n) == b + n + MetaSize

\* Fault: the successor keeps its old back link.
SplitOneWay(m, b, n) ==
    LET r == Rest(b, n)
    IN [m EXCEPT ![r] = [size |-> m[b].size - n - MetaSize, free |-> TRUE,
                         prev |-> b, next |-> m[b].next],
                 ![b] = [@ EXCEPT !.size = n, !.next = r]]

Split(m, b, n) ==
    LET r == Rest(b, n)
    IN [m EXCEPT ![r] = [size |-> m[b].size - n - MetaSize, free |-> TRUE,
                         prev |-> b, next |-> m[b].next],
                 ![m[b].next].prev = r,
                 ![b] = [@ EXCEPT !.size = n, !.next = r]]

Taken(m, b, n) ==
    LET m1 == SetFree(m, b, FALSE)
        m2 == Split(m1, b, n)
        r  == Rest(b, n)
    IN IF ~CanSplit(m, b, n) THEN m1
       ELSE IF NextFree(m2, r) THEN MergeNext(m2, r) ELSE m2

TakenBlocks(m, bs, b, n) ==
    IF ~CanSplit(m, b, n) THEN bs
    ELSE (bs \cup {Rest(b, n)})
            \ (IF NextFree(m, b) THEN {m[b].next} ELSE {})

\* The headers of the list bs; other memory is not a header any more.
Forget(m, bs) ==
    [a \in Node |-> IF a \in bs \cup {Head, Tail} THEN m[a] ELSE NoMeta]

\* A new block at the end of the used heap.
Appended(m, b, n) ==
    LET last == m[Tail].prev
    IN [m EXCEPT ![b] = [size |-> n, free |-> FALSE, prev |-> last,
                         next |-> Tail],
                 ![last].next = b,
                 ![Tail].prev = b]

-----------------------------------------------------------------------------
(* The functions of the interface.                                         *)

Idle == pc = "idle" /\ ~halted

\* malloc is entered; n is its argument, asked what its caller wanted.
Enter(n, asked, p) ==
    /\ pc' = "walk" /\ block' = Head
    /\ size' = Align(n) /\ request' = asked /\ old' = p
    /\ UNCHANGED <<meta, alloc_end, brk, halted, user, blocks>>

CallMalloc == Idle /\ \E n \in Sizes : Enter(n, n, NULL)

\* calloc multiplies without looking for overflow; its memset stays inside
\* the block that malloc returned.
CallCalloc ==
    /\ Idle
    /\ \E c \in Counts :
          Enter((c[1] * c[2]) % WordSize, c[1] * c[2], NULL)

CallRealloc ==
    Idle /\ \E n \in Sizes, p \in DOMAIN user : Enter(n, n, p)

CallFree ==
    /\ Idle
    /\ \E p \in DOMAIN user :
         /\ blocks' = FreedBlocks(meta, blocks, p - MetaSize)
         /\ meta' = Forget(Freed(meta, p - MetaSize), blocks')
         /\ user' = [q \in DOMAIN user \ {p} |-> user[q]]
    /\ UNCHANGED <<alloc_end, brk, pc, callVars, halted>>

\* malloc returns block b: to the caller, or to realloc.
GiveTo(u, b) == [q \in DOMAIN u \cup {b + MetaSize} |->
                    IF q = b + MetaSize THEN request ELSE u[q]]

MallocReturns(b) ==
    IF old = NULL
    THEN /\ pc' = "idle" /\ block' = Head /\ size' = 0 /\ request' = 0
         /\ user' = GiveTo(user, b)
         /\ UNCHANGED old
    ELSE /\ pc' = "realloc" /\ block' = b
         /\ UNCHANGED <<size, request, old, user>>

\* One step of the first-fit walk.
Walk ==
    /\ pc = "walk" /\ ~halted
    /\ LET b == meta[block].next
           fits == meta[b].free /\ meta[b].size >= size
       IN \/ /\ b = Tail
             /\ pc' = "grow"
             /\ UNCHANGED <<meta, blocks, callVars, user>>
          \/ /\ b # Tail /\ ~fits
             /\ block' = b
             /\ UNCHANGED <<meta, blocks, pc, size, old, request, user>>
          \/ /\ b # Tail /\ fits
             /\ blocks' = TakenBlocks(meta, blocks, b, size)
             /\ meta' = Forget(Taken(meta, b, size), blocks')
             /\ MallocReturns(b)
    /\ UNCHANGED <<alloc_end, brk, halted>>

\* alloc_end once the first run has initialised it.
End == IF alloc_end = 0 THEN brk ELSE alloc_end

\* sbrk(PAGE_SIZE) moves the break or, out of pages, halts the machine.  On
\* x86 the break is one above the start of the last page allocated.
SbrkStep == IF brk = HeapStart THEN FirstStep ELSE PageSize

NeedsRoom == Minus(brk, End) < Plus(size, MetaSize)

\* Fault: the loop goes on when there is no page left.
GrowForever ==
    /\ pc = "grow" /\ ~halted /\ NeedsRoom
    /\ alloc_end' = End
    /\ brk' = IF brk + SbrkStep <= HeapLimit THEN brk + SbrkStep ELSE brk
    /\ UNCHANGED <<meta, pc, callVars, halted, user, blocks>>

Grow ==
    /\ pc = "grow" /\ ~halted /\ NeedsRoom
    /\ alloc_end' = End
    /\ \/ /\ brk + SbrkStep <= HeapLimit
          /\ brk' = brk + SbrkStep /\ UNCHANGED halted
       \/ /\ brk + SbrkStep > HeapLimit
          /\ halted' = TRUE /\ UNCHANGED brk
    /\ UNCHANGED <<meta, pc, callVars, user, blocks>>

Append ==
    /\ pc = "grow" /\ ~halted /\ ~NeedsRoom
    /\ meta' = Appended(meta, End, size)
    /\ blocks' = blocks \cup {End}
    /\ alloc_end' = Plus(End, Plus(size, MetaSize))
    /\ MallocReturns(End)
    /\ UNCHANGED <<brk, halted>>

ReallocReturns ==
    /\ user' = GiveTo([q \in DOMAIN user \ {old} |-> user[q]], block)
    /\ pc' = "idle" /\ block' = Head /\ size' = 0 /\ request' = 0
    /\ old' = NULL
    /\ UNCHANGED <<alloc_end, brk, halted>>

\* realloc after its malloc: the old block is freed once when the size is 0
\* and once more because the new block is not NULL.
Realloc ==
    /\ pc = "realloc" /\ ~halted
    /\ LET b  == old - MetaSize
           m1 == IF request = 0 THEN Freed(meta, b) ELSE meta
           b1 == IF request = 0 THEN FreedBlocks(meta, blocks, b) ELSE blocks
       IN /\ blocks' = FreedBlocks(m1, b1, b)
          /\ meta' = Forget(Freed(m1, b), blocks')
    /\ ReallocReturns

-----------------------------------------------------------------------------

Call == CallMalloc \/ CallCalloc \/ CallRealloc \/ CallFree
Run == Walk \/ Grow \/ Append \/ Realloc

Next == Call \/ Run

\* A call that was entered goes on: it runs on the only processor and returns
\* from every interrupt.
Spec == Init /\ [][Next]_vars /\ WF_vars(Run)

-----------------------------------------------------------------------------
(* Properties.                                                             *)

BlockEnd(b) == b + MetaSize + meta[b].size

\* A block is free, or a caller holds it, or the running realloc is about to
\* hand it out.
Accounted(b) ==
    \/ meta[b].free
    \/ b + MetaSize \in DOMAIN user
    \/ pc = "realloc" /\ b = block

(***************************************************************************)
(* The list of headers tiles the used heap: the successor of a block       *)
(* starts where the block ends, the last one ends at alloc_end, the links  *)
(* are inverse to each other, no two blocks overlap, and none is lost.     *)
(***************************************************************************)
HeapTiled ==
    /\ TypeOK
    /\ \A b \in blocks : Accounted(b)
    /\ \A b \in blocks :
         /\ meta[b].next = IF BlockEnd(b) = alloc_end THEN Tail
                                                   ELSE BlockEnd(b)
         /\ meta[b].next \in blocks \cup {Tail}
         /\ meta[b].prev \in blocks \cup {Head}
         /\ meta[meta[b].next].prev = b
         /\ meta[meta[b].prev].next = b
    /\ \A b, c \in blocks : b < c => BlockEnd(b) <= c
    /\ blocks # {} => meta[Head].next = HeapStart /\ HeapStart \in blocks

(***************************************************************************)
(* What malloc, calloc and realloc hand out is what was asked for: a live  *)
(* allocation lies inside the heap, and no two of them share a byte.       *)
(***************************************************************************)
AllocationsDisjoint ==
    \A p \in DOMAIN user :
        /\ HeapStart + MetaSize <= p /\ p + user[p] <= brk
        /\ \A q \in DOMAIN user : p < q => p + user[p] + MetaSize <= q

(***************************************************************************)
(* No free block has a free neighbour: free coalesces completely, so       *)
(* releasing everything leaves one block and memory is not lost to         *)
(* fragments nobody can use.                                               *)
(***************************************************************************)
FullyCoalesced ==
    \A b \in blocks : meta[b].free => ~meta[meta[b].next].free

(***************************************************************************)
(* Every call returns or halts the machine: the walk reaches the tail of   *)
(* the list and the growth loop ends.                                      *)
(***************************************************************************)
CallsReturn == (pc # "idle") ~> (pc = "idle" \/ halted)

=============================================================================
