-------------------------------- MODULE Mman --------------------------------
(***************************************************************************)
(* The regioned memory manager, arch/x86/mman.c (arch/arm/rpi/mman.c is    *)
(* the same file), on top of the memory stack of Paging: memory_init       *)
(* starts both.  The regions form a list, taken from a static pool until   *)
(* the kernel heap is known and from malloc afterwards.  Only the forward  *)
(* links are ever followed, so the list is a sequence.  All of it runs in  *)
(* thread context, one call at a time.                                     *)
(***************************************************************************)
EXTENDS Paging, Sequences

CONSTANTS
    AddrSpace,    \* number of addresses (2^32), scaled down
    KernelEnd,    \* the linker's _end
    HeapSize,     \* 0x100000
    Prealloc,     \* length of mman_prealloc (0xFF)
    Types,        \* region types that callers of memsig pass
    Starts,       \* addresses at which callers of memsig have memory
    SigSizes,     \* sizes that callers pass to memsig
    ResizeSizes,  \* sizes that callers pass to memresize
    MaxRegions    \* bound: regions in the list

Heap == 1         \* region type of the kernel heap

HeapBase == (KernelEnd \div PageSize) * PageSize + PageSize

ASSUME MmanAssumption ==
    /\ AddrSpace \in Nat /\ KernelEnd \in Nat \ {0}
    /\ \A a \in PlaceStarts : KernelEnd <= a
    /\ HeapSize \in Nat \ {0} /\ HeapBase + HeapSize <= AddrSpace
    /\ Prealloc \in Nat /\ Prealloc >= 2
    /\ Types \subseteq Nat /\ Starts \subseteq 0 .. AddrSpace - 1
    /\ SigSizes \subseteq 0 .. AddrSpace - 1
    /\ ResizeSizes \subseteq 0 .. AddrSpace - 1
    /\ MaxRegions \in Nat

VARIABLES
    mman_status,       \* 0 not initialised, 1 no heap yet, 2 heap known
    mman_prealloc_ptr, \* regions taken from the static pool
    regions            \* the list that starts at mman_region

regionVars == <<mman_status, mman_prealloc_ptr, regions>>
memVars == <<vars, regionVars>>

Region == [start : 0 .. AddrSpace - 1, size : 0 .. AddrSpace - 1, type : Nat]

RegionTypeOK ==
    /\ mman_status \in {0, 1, 2}
    /\ mman_prealloc_ptr \in 0 .. Prealloc
    /\ regions \in Seq(Region)

MemInit ==
    /\ Init
    /\ mman_status = 0 /\ mman_prealloc_ptr = 0 /\ regions = <<>>

\* 32-bit addition.
Plus(a, b) == (a + b) % AddrSpace

\* Two regions that share no address.
Apart(r, s) ==
    \/ r.start + r.size <= s.start
    \/ s.start + s.size <= r.start

-----------------------------------------------------------------------------

\* memsig appends; in status 1 the node is the next one of the pool, in status
\* 2 it comes from malloc.  The first heap region ends status 1.
SigRegion(status, ptr, list, r) ==
    IF r.size = 0 \/ status = 0
    THEN [status |-> status, ptr |-> ptr, list |-> list]
    ELSE [status |-> IF r.type = Heap /\ status = 1 THEN 2 ELSE status,
          ptr    |-> IF status = 1 THEN ptr + 1 ELSE ptr,
          list   |-> Append(list, r)]

\* memory_init sets the break and calls memman_init, which signals the kernel
\* image and the kernel heap.
MemmanInit ==
    /\ MemoryInit
    /\ LET kernel == [start |-> 0, size |-> KernelEnd, type |-> 0]
           data   == [start |-> HeapBase, size |-> HeapSize, type |-> Heap]
           one    == SigRegion(1, 0, <<>>, kernel)
           two    == SigRegion(one.status, one.ptr, one.list, data)
       IN /\ mman_status' = two.status
          /\ mman_prealloc_ptr' = two.ptr
          /\ regions' = two.list

\* No other call is running.
Free == phase \in {"boot", "up"} /\ ~halted /\ UNCHANGED vars

\* memsig does not compare the new region with the others: its callers know
\* memory that nobody has signalled yet.
Memsig(r) ==
    /\ Free
    /\ Len(regions) < MaxRegions
    /\ r.start + r.size <= AddrSpace
    /\ \A k \in 1 .. Len(regions) : Apart(r, regions[k])
    /\ LET sig == SigRegion(mman_status, mman_prealloc_ptr, regions, r)
       IN /\ mman_status' = sig.status
          /\ mman_prealloc_ptr' = sig.ptr
          /\ regions' = sig.list

\* Fault: the test is off by one.
MemresizeLoose(k, c) ==
    /\ Free
    /\ \A j \in 1 .. Len(regions) \ {k} :
          \/ regions[j].start <= regions[k].start
          \/ regions[j].start + 1 >= Plus(c, regions[k].start)
    /\ regions' = [regions EXCEPT ![k].size = c]
    /\ UNCHANGED <<mman_status, mman_prealloc_ptr>>

\* memresize refuses when another region starts inside the new extent of
\* this one.
Memresize(k, c) ==
    LET end == Plus(c, regions[k].start)
        refused == \E j \in 1 .. Len(regions) \ {k} :
                      /\ regions[j].start > regions[k].start
                      /\ regions[j].start < end
    IN /\ Free /\ ~refused
       /\ regions' = [regions EXCEPT ![k].size = c]
       /\ UNCHANGED <<mman_status, mman_prealloc_ptr>>

\* get_kernel_heap: the first region of type 1, 0 if there is none.
GetKernelHeap ==
    LET heaps == {k \in 1 .. Len(regions) : regions[k].type = Heap}
    IN IF heaps = {} THEN 0 ELSE CHOOSE k \in heaps : \A j \in heaps : k <= j

Regions ==
    \/ \E s \in Starts, c \in SigSizes, t \in Types :
          Memsig([start |-> s, size |-> c, type |-> t])
    \/ \E k \in 1 .. Len(regions), c \in ResizeSizes : Memresize(k, c)

Stack == PagingInit \/ PagingInitMap \/ Sbrk

MemNext == MemmanInit \/ Regions \/ (Stack /\ UNCHANGED regionVars)

MemSpec == MemInit /\ [][MemNext]_memVars

-----------------------------------------------------------------------------
(* Properties.                                                             *)

\* There is a kernel heap for mem_heap_sbrk to use, and it is the region
\* memman_init made; the static pool was left after memman_init's two regions.
HeapKnown ==
    mman_status # 0 => /\ GetKernelHeap = 2
                       /\ regions[2].start = HeapBase
                       /\ mman_status = 2 /\ mman_prealloc_ptr = 2

(***************************************************************************)
(* No two regions share an address: memresize is documented to "safely     *)
(* modify the memory region(to prevent boundery fails)".  However many     *)
(* regions of whatever type are signalled and resized, the kernel heap     *)
(* remains the one that memman_init signalled.                             *)
(***************************************************************************)
RegionsApart ==
    /\ RegionTypeOK /\ HeapKnown
    /\ \A j, k \in 1 .. Len(regions) : j # k => Apart(regions[j], regions[k])

=============================================================================
