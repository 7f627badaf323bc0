---------------------------- MODULE MemoryProofs ----------------------------
(***************************************************************************)
(* What TLAPS proves about the memory stack of x86 (Paging) and about the  *)
(* regions on top of it (Mman), for every page size, table size, place of  *)
(* the kernel and list of signalled regions.                               *)
(***************************************************************************)
EXTENDS Mman, TLAPS

-----------------------------------------------------------------------------
(* The regions.                                                            *)

\* Where a region may start.
RegionStarts == Starts \cup {0, HeapBase}

\* Callers of memresize neither resize across the end of the address space,
\* where the 32-bit sum of memresize wraps, nor to nothing: a region of size 0
\* may share its start with another one, which memresize then does not see.
SaneSizes ==
    /\ 0 \notin ResizeSizes
    /\ \A s \in RegionStarts, c \in ResizeSizes : s + c < AddrSpace

\* Every region has a known start and at least a byte.
RegionsReal ==
    \A k \in 1 .. Len(regions) :
        regions[k].start \in RegionStarts /\ regions[k].size # 0

NoOverlap ==
    \A j, k \in 1 .. Len(regions) : j # k => Apart(regions[j], regions[k])

\* memman_init's two regions stay at the head of the list.
HeapSecond ==
    IF mman_status = 0 THEN mman_prealloc_ptr = 0 /\ regions = <<>>
    ELSE /\ mman_status = 2 /\ mman_prealloc_ptr = 2
         /\ Len(regions) >= 2
         /\ regions[1].type = 0
         /\ regions[2].type = Heap /\ regions[2].start = HeapBase

RegionInv == RegionTypeOK /\ RegionsReal /\ NoOverlap /\ HeapSecond

LEMMA ModSmall ==
    ASSUME NEW x \in Nat, NEW y \in Nat, x < y
    PROVE  (x % y) = x
OBVIOUS

\* The heap begins on the page after the end of the kernel.
LEMMA HeapBehindKernel ==
    /\ HeapBase \in Nat /\ KernelEnd < HeapBase
    /\ HeapBase < AddrSpace /\ HeapSize < AddrSpace
<1>1. PageSize \in Nat /\ PageSize > 0 /\ KernelEnd \in Nat
  BY PagingAssumption, MmanAssumption
<1>2. /\ KernelEnd \div PageSize \in Nat
      /\ KernelEnd < (KernelEnd \div PageSize) * PageSize + PageSize
  BY <1>1
<1>3. (KernelEnd \div PageSize) * PageSize \in Nat
  BY <1>1, <1>2
<1>4. QED
  BY <1>1, <1>2, <1>3, MmanAssumption DEF HeapBase

\* memory_init: the kernel image lies below the kernel heap.
LEMMA RegionsBegin ==
    ASSUME RegionInv, MemmanInit
    PROVE  RegionInv'
<1> DEFINE kernel == [start |-> 0, size |-> KernelEnd, type |-> 0]
           data == [start |-> HeapBase, size |-> HeapSize, type |-> Heap]
<1>1. mman_status' = 2 /\ mman_prealloc_ptr' = 2 /\ regions' = <<kernel, data>>
  <2>1. SigRegion(1, 0, <<>>, kernel)
          = [status |-> 1, ptr |-> 1, list |-> <<kernel>>]
    BY MmanAssumption DEF SigRegion, Heap
  <2>2. SigRegion(1, 1, <<kernel>>, data)
          = [status |-> 2, ptr |-> 2, list |-> <<kernel, data>>]
    BY MmanAssumption DEF SigRegion, Heap
  <2> HIDE DEF kernel, data
  <2>3. QED
    BY <2>1, <2>2 DEF MemmanInit, kernel, data
<1>2. kernel \in Region /\ data \in Region
  BY HeapBehindKernel, MmanAssumption DEF Region, Heap
<1>3. Apart(kernel, data) /\ Apart(data, kernel)
  BY HeapBehindKernel, MmanAssumption DEF Apart
<1>4. Len(<<kernel, data>>) = 2 /\ <<kernel, data>> \in Seq(Region)
      /\ <<kernel, data>>[1] = kernel /\ <<kernel, data>>[2] = data
  BY <1>2
<1>5. kernel.size # 0 /\ data.size # 0 /\ kernel.start = 0
      /\ data.start = HeapBase /\ kernel.type = 0 /\ data.type = Heap
  BY MmanAssumption
<1> HIDE DEF kernel, data
<1>6. RegionTypeOK'
  BY <1>1, <1>4, MmanAssumption DEF RegionTypeOK
<1>7. RegionsReal'
  BY <1>1, <1>4, <1>5 DEF RegionsReal, RegionStarts
<1>8. NoOverlap'
  BY <1>1, <1>3, <1>4 DEF NoOverlap
<1>9. HeapSecond'
  BY <1>1, <1>4, <1>5 DEF HeapSecond
<1>10. QED
  BY <1>6, <1>7, <1>8, <1>9 DEF RegionInv

\* memsig appends a region apart from the others, or does nothing.
LEMMA RegionSignalled ==
    ASSUME RegionInv, NEW s \in Starts, NEW c \in SigSizes, NEW t \in Types,
           Memsig([start |-> s, size |-> c, type |-> t])
    PROVE  RegionInv'
<1> DEFINE r == [start |-> s, size |-> c, type |-> t]
<1>1. r \in Region /\ r.start = s /\ r.size = c
  BY MmanAssumption DEF Region
<1>2. \A k \in 1 .. Len(regions) : Apart(r, regions[k])
  BY DEF Memsig
<1> HIDE DEF r
<1>3. CASE UNCHANGED regionVars
  BY <1>3 DEF RegionInv, RegionTypeOK, RegionsReal, NoOverlap, HeapSecond,
              regionVars
<1>4. CASE mman_status # 0 /\ r.size # 0
  <2>1. mman_status = 2
    BY <1>4 DEF RegionInv, HeapSecond
  <2>2. /\ mman_status' = 2 /\ mman_prealloc_ptr' = mman_prealloc_ptr
        /\ regions' = Append(regions, r)
    BY <1>4, <2>1 DEF Memsig, SigRegion, r
  <2>3. regions \in Seq(Region)
    BY DEF RegionInv, RegionTypeOK
  <2>4. /\ regions' \in Seq(Region)
        /\ Len(regions') = Len(regions) + 1
        /\ \A k \in 1 .. Len(regions) : regions'[k] = regions[k]
        /\ regions'[Len(regions) + 1] = r
    BY <1>1, <2>2, <2>3
  <2>5. RegionTypeOK'
    BY <2>2, <2>4 DEF RegionInv, RegionTypeOK
  <2>6. RegionsReal'
    BY <1>1, <1>4, <2>3, <2>4 DEF RegionInv, RegionsReal, RegionStarts
  <2>7. NoOverlap'
    <3> SUFFICES ASSUME NEW j \in 1 .. Len(regions'),
                        NEW k \in 1 .. Len(regions'), j # k
                 PROVE  Apart(regions'[j], regions'[k])
      BY DEF NoOverlap
    <3>1. Len(regions) \in Nat
      BY <2>3
    <3>2. CASE j \in 1 .. Len(regions) /\ k \in 1 .. Len(regions)
      BY <2>4, <3>2 DEF RegionInv, NoOverlap
    <3>3. CASE j = Len(regions) + 1
      <4>1. k \in 1 .. Len(regions)
        BY <2>4, <3>1, <3>3
      <4>2. QED
        BY <1>2, <2>4, <3>3, <4>1
    <3>4. CASE k = Len(regions) + 1
      <4>1. j \in 1 .. Len(regions)
        BY <2>4, <3>1, <3>4
      <4>2. Apart(r, regions[j])
        BY <1>2, <4>1
      <4>3. QED
        BY <2>4, <3>4, <4>1, <4>2 DEF Apart
    <3>5. QED
      BY <2>4, <3>1, <3>2, <3>3, <3>4
  <2>8. HeapSecond'
    BY <2>1, <2>2, <2>3, <2>4 DEF RegionInv, HeapSecond
  <2>9. QED
    BY <2>5, <2>6, <2>7, <2>8 DEF RegionInv
<1>5. QED
  <2>1. mman_status = 0 \/ r.size = 0 => UNCHANGED regionVars
    BY DEF Memsig, SigRegion, regionVars, r
  <2>2. QED
    BY <1>3, <1>4, <2>1

\* memresize looks only for regions that start behind this one; those before
\* it end where it starts or earlier, because it was not empty.
LEMMA RegionResized ==
    ASSUME SaneSizes, RegionInv,
           NEW k \in 1 .. Len(regions), NEW c \in ResizeSizes, Memresize(k, c)
    PROVE  RegionInv'
<1>1. regions \in Seq(Region) /\ c \in 0 .. AddrSpace - 1 /\ c # 0
      /\ AddrSpace \in Nat
  BY MmanAssumption DEF RegionInv, RegionTypeOK, SaneSizes
<1>2. /\ \A j \in 1 .. Len(regions) : regions[j] \in Region
      /\ \A j \in 1 .. Len(regions) :
            regions[j].start \in Nat /\ regions[j].size \in Nat
      /\ Len(regions) \in Nat
  <2>1. ASSUME NEW r \in Region
        PROVE  r.start \in Nat /\ r.size \in Nat
    BY MmanAssumption DEF Region
  <2>2. QED
    BY <1>1, <2>1
<1>3. /\ regions' = [regions EXCEPT ![k] = [regions[k] EXCEPT !.size = c]]
      /\ mman_status' = mman_status /\ mman_prealloc_ptr' = mman_prealloc_ptr
  BY DEF Memresize
<1>4. [regions[k] EXCEPT !.size = c] \in Region
  BY <1>1, <1>2 DEF Region
<1>5. regions' \in Seq(Region) /\ Len(regions') = Len(regions)
  BY <1>1, <1>3, <1>4
<1>6. /\ regions'[k].start = regions[k].start /\ regions'[k].size = c
      /\ regions'[k].type = regions[k].type
      /\ \A j \in 1 .. Len(regions) : j # k => regions'[j] = regions[j]
  BY <1>1, <1>2, <1>3 DEF Region
<1>7. regions[k].start \in RegionStarts /\ regions[k].size # 0
  BY DEF RegionInv, RegionsReal
<1>8. Plus(c, regions[k].start) = c + regions[k].start
  <2>1. regions[k].start \in Nat /\ regions[k].start + c < AddrSpace
    BY <1>2, <1>7 DEF SaneSizes
  <2>2. QED
    BY <1>1, <2>1, ModSmall DEF Plus
<1>9. ASSUME NEW j \in 1 .. Len(regions), j # k
      PROVE  \/ regions[j].start <= regions[k].start
             \/ regions[j].start >= c + regions[k].start
  BY <1>1, <1>2, <1>8, <1>9 DEF Memresize
<1>10. ASSUME NEW j \in 1 .. Len(regions), j # k
       PROVE  \/ regions[j].start + regions[j].size <= regions[k].start
              \/ regions[k].start + c <= regions[j].start
  <2>1. Apart(regions[j], regions[k])
    BY <1>10 DEF RegionInv, NoOverlap
  <2>2. QED
    <3>1. \/ regions[j].start <= regions[k].start
          \/ regions[j].start >= c + regions[k].start
      BY <1>9, <1>10
    <3>2. /\ regions[j].start \in Nat /\ regions[j].size \in Nat
          /\ regions[k].start \in Nat /\ regions[k].size \in Nat /\ c \in Nat
      BY <1>1, <1>2
    <3>3. QED
      BY <1>7, <2>1, <3>1, <3>2 DEF Apart
<1>11. RegionTypeOK'
  BY <1>3, <1>5 DEF RegionInv, RegionTypeOK
<1>12. RegionsReal'
  BY <1>1, <1>5, <1>6, <1>7 DEF RegionInv, RegionsReal
<1>13. NoOverlap'
  BY <1>5, <1>6, <1>10 DEF RegionInv, NoOverlap, Apart
<1>14. HeapSecond'
  <2>1. CASE mman_status = 0
    BY <2>1, <1>2 DEF RegionInv, HeapSecond
  <2>2. CASE mman_status # 0
    BY <1>2, <1>3, <1>5, <1>6, <2>2 DEF RegionInv, HeapSecond
  <2>3. QED
    BY <2>1, <2>2
<1>15. QED
  BY <1>11, <1>12, <1>13, <1>14 DEF RegionInv

LEMMA RegionStep ==
    ASSUME SaneSizes, RegionInv, [MemNext]_memVars
    PROVE  RegionInv'
<1>1. CASE MemmanInit
  BY <1>1, RegionsBegin
<1>2. CASE Regions
  BY <1>2, RegionSignalled, RegionResized DEF Regions
<1>3. CASE UNCHANGED regionVars
  BY <1>3 DEF RegionInv, RegionTypeOK, RegionsReal, NoOverlap, HeapSecond,
              regionVars
<1>4. QED
  BY <1>1, <1>2, <1>3 DEF MemNext, memVars

\* The two regions of memman_init decide which one get_kernel_heap finds.
LEMMA HeapFound == RegionInv => RegionsApart
<1> SUFFICES ASSUME RegionInv PROVE RegionsApart
  OBVIOUS
<1>1. ASSUME mman_status # 0
      PROVE  GetKernelHeap = 2
  <2> DEFINE heaps == {k \in 1 .. Len(regions) : regions[k].type = Heap}
  <2>1. Len(regions) \in Nat
    BY DEF RegionInv, RegionTypeOK
  <2>2. 2 \in heaps /\ 1 \notin heaps /\ heaps \subseteq Nat /\ 0 \notin heaps
    BY <1>1, <2>1 DEF RegionInv, HeapSecond, Heap
  <2> HIDE DEF heaps
  <2>3. \A j \in heaps : 2 <= j
    BY <2>2
  <2>4. \A k \in heaps : (\A j \in heaps : k <= j) => k = 2
    BY <2>2, <2>3
  <2>5. (CHOOSE k \in heaps : \A j \in heaps : k <= j) = 2
    BY <2>2, <2>3, <2>4
  <2>6. QED
    BY <2>2, <2>5 DEF GetKernelHeap, heaps
<1>2. HeapKnown
  BY <1>1 DEF HeapKnown, RegionInv, HeapSecond
<1>3. QED
  BY <1>2 DEF RegionsApart, RegionInv, NoOverlap

(***************************************************************************)
(* However many regions memsig adds and memresize resizes, no two share an *)
(* address and the kernel heap stays the region that memman_init signalled.*)
(***************************************************************************)
THEOREM RegionsStayApart == SaneSizes => (MemSpec => []RegionsApart)
<1> SUFFICES ASSUME SaneSizes PROVE MemSpec => []RegionsApart
  OBVIOUS
<1>1. MemInit => RegionInv
  BY MmanAssumption DEF MemInit, RegionInv, RegionTypeOK, RegionsReal,
                        NoOverlap, HeapSecond
<1>2. RegionInv /\ [MemNext]_memVars => RegionInv'
  BY RegionStep
<1>3. QED
  BY <1>1, <1>2, HeapFound, PTL DEF MemSpec

-----------------------------------------------------------------------------
(* The page tables and the break.                                          *)

\* sbrk asks for one page at a time.
OnePage == Requests = {1}

\* Where the placement allocator stands when paging_init starts to map, kernel
\* and initrd having ended at a: behind the bitmap and the directory.
Placed(a) == Aligned(a + BitmapSize) + DirSize

\* For some number c of page tables, c tables are enough to map the kernel,
\* the bitmap, the directory and the tables themselves, and all that ends
\* before frame_amount.  Every table costs two pages: its address is moved up
\* a page although it is aligned.
Enough(c) ==
    \A a \in PlaceStarts :
        /\ PageOf(Placed(a)) + 2 * c + 1 <= c * TableSize
        /\ (PageOf(Placed(a)) + 2 * c + 2) * PageSize <= FrameAmount

BootFits == \E c \in Nat : Enough(c)
BootTables == CHOOSE c \in Nat : Enough(c)

\* Exactly the first m pages are mapped, each to the frame of its number.
Mapped(m) ==
    /\ present = 0 .. m - 1 /\ frame = 0 .. m - 1
    /\ entry = [p \in Page |-> IF p < m THEN p ELSE 0]

\* The first k page tables exist, and the m pages mapped need all of them.
Covered(m, k) ==
    /\ m <= k * TableSize
    /\ k # 0 => (k - 1) * TableSize < m
    /\ \A t \in Table : tables[t] # 0 <=> t < k

\* Until paging is on: the loop is at the first page that is not mapped and
\* not far beyond what was placed, of which the tables are a known part.
MapOK(m, k) ==
    /\ i = m * PageSize /\ k <= BootTables
    /\ \A t \in Table : t < k => tables[t] + PageSize <= placement_address
    /\ m * PageSize < placement_address + 2 * PageSize
    /\ \E a \in PlaceStarts :
          placement_address =
              IF k = 0 THEN Placed(a)
              ELSE (PageOf(Placed(a)) + 2 * k) * PageSize

BootOK(m, k) ==
    /\ heap = {} /\ mem_lastpage = 0 /\ pages = 0 /\ n = 0
    /\ phase = "boot" => /\ m = 0 /\ k = 0 /\ i = 0
                         /\ placement_address \in PlaceStarts
    /\ phase = "map" => MapOK(m, k)

\* Once paging is on, the tables are mapped, and so will be the next one, made
\* when the page after the last is: its place is at most that page.
TablesIn(m, k) ==
    /\ \A t \in Table : t < k => PageOf(tables[t]) < m
    /\ \/ placement_address <= (m - 1) * PageSize
       \/ placement_address <= m * PageSize /\ m < k * TableSize

\* The break is at the end of the mapped pages or, after the first sbrk, one
\* byte into the last of them.
Break(m) == {m * PageSize, (m - 1) * PageSize + 1}

UpOK(m, k) ==
    /\ m # 0 /\ TablesIn(m, k) /\ PageSize <= placement_address
    /\ heap \subseteq present
    /\ phase = "mapped" => m * PageSize < FrameAmount /\ pages = 0 /\ n = 0
    /\ phase = "up" => mem_lastpage \in Break(m) /\ pages = 0 /\ n = 0
    /\ phase = "alloc" =>
          /\ pages = 1 /\ i < FrameAmount
          /\ \/ n = 0 /\ i = m * PageSize /\ mem_lastpage \in Break(m)
             \/ /\ n = 1 /\ m # 1 /\ i = (m - 1) * PageSize
                /\ mem_lastpage \in Break(m - 1)

StackAt(m, k) ==
    /\ Mapped(m) /\ Covered(m, k)
    /\ IF phase \in {"boot", "map"} THEN BootOK(m, k) ELSE UpOK(m, k)

StackInv == TypeOK /\ \E m, k \in Nat : StackAt(m, k)

\* Arithmetic of sizes: P is a page or a table.
LEMMA DivFacts ==
    ASSUME NEW P \in Nat \ {0}, NEW x \in Nat
    PROVE  /\ x \div P \in Nat
           /\ (x \div P) * P <= x
           /\ x < (x \div P) * P + P
OBVIOUS

LEMMA MulMono ==
    ASSUME NEW P \in Nat \ {0}, NEW a \in Nat, NEW b \in Nat
    PROVE  /\ a <= b <=> a * P <= b * P
           /\ a * P \in Nat
           /\ (a + 1) * P = a * P + P
           /\ a # 0 => (a - 1) * P = a * P - P
<1>1. a * P \in Nat /\ b * P \in Nat
  OBVIOUS
<1>2. ASSUME a <= b PROVE a * P <= b * P
  <2>1. (b - a) * P >= 0
    BY <1>2
  <2>2. b * P = a * P + (b - a) * P
    BY <1>2
  <2>3. QED
    BY <1>1, <2>1, <2>2
<1>3. ASSUME b < a PROVE b * P < a * P
  <2>1. (a - b) * P > 0
    BY <1>3
  <2>2. a * P = b * P + (a - b) * P
    BY <1>3
  <2>3. QED
    BY <1>1, <2>1, <2>2
<1>4. QED
  BY <1>1, <1>2, <1>3

LEMMA DivBounds ==
    ASSUME NEW P \in Nat \ {0}, NEW x \in Nat, NEW q \in Nat
    PROVE  /\ x < q * P <=> x \div P < q
           /\ x = q * P => x \div P = q
<1> DEFINE d == x \div P
<1>1. d \in Nat /\ d * P <= x /\ x < d * P + P
  BY DivFacts
<1> HIDE DEF d
<1>2. d * P \in Nat /\ q * P \in Nat /\ (d + 1) * P = d * P + P
  BY <1>1, MulMono
<1>3. ASSUME x < q * P PROVE d < q
  <2>1. ~(q * P <= d * P)
    BY <1>1, <1>2, <1>3
  <2>2. QED
    BY <1>1, <2>1, MulMono
<1>4. ASSUME d < q PROVE x < q * P
  <2>1. (d + 1) * P <= q * P
    BY <1>1, <1>4, MulMono
  <2>2. QED
    BY <1>1, <1>2, <2>1
<1>5. ASSUME x = q * P PROVE d = q
  <2>1. d <= q
    BY <1>1, <1>2, <1>5, MulMono
  <2>2. ~((d + 1) * P <= q * P)
    BY <1>1, <1>2, <1>5
  <2>3. ~(d + 1 <= q)
    BY <1>1, <2>2, MulMono
  <2>4. QED
    BY <1>1, <2>1, <2>3
<1>6. QED
  BY <1>3, <1>4, <1>5 DEF d

\* The next place on a page boundary is at most a page away.
LEMMA AlignedUp ==
    ASSUME NEW x \in Nat, PageSize <= x
    PROVE  /\ Aligned(x) = (PageOf(x) + 1) * PageSize
           /\ PageOf(x) \in Nat /\ Aligned(x) \in Nat
           /\ x < Aligned(x) /\ Aligned(x) <= x + PageSize
<1>1. PageSize \in Nat \ {0}
  BY PagingAssumption
<1>2. /\ PageOf(x) \in Nat /\ PageOf(x) * PageSize <= x
      /\ x < PageOf(x) * PageSize + PageSize
  BY <1>1, DivFacts DEF PageOf
<1>3. /\ (PageOf(x) + 1) * PageSize = PageOf(x) * PageSize + PageSize
      /\ PageOf(x) * PageSize \in Nat
  BY <1>1, <1>2, MulMono
<1>4. PageOf(x) # 0
  BY <1>1, <1>2
<1>5. QED
  BY <1>1, <1>2, <1>3, <1>4 DEF Aligned

\* pa_first_frame finds the frame of the first page that is not mapped.
LEMMA FirstFree ==
    ASSUME NEW m \in Nat, m < FrameAmount, NEW r, r.frame = 0 .. m - 1
    PROVE  FirstFrame(r) = m
<1> DEFINE S == Frame \ r.frame
<1>1. m \in S /\ S \subseteq Nat /\ \A g \in S : m <= g
  BY PagingAssumption DEF Frame
<1> HIDE DEF S
<1>2. \A f \in S : (\A g \in S : f <= g) => f = m
  BY <1>1
<1>3. (CHOOSE f \in S : \A g \in S : f <= g) = m
  BY <1>1, <1>2
<1>4. QED
  BY <1>3 DEF FirstFrame, S

\* Mapping the first page that is not mapped: it gets the frame of its number,
\* and a page table first when it is the first page of one.
LEMMA NextPageMapped ==
    ASSUME TypeOK, NEW m \in Nat, NEW k \in Nat, m < FrameAmount,
           Mapped(m), Covered(m, k), PageSize <= placement_address,
           NEW address, PageOf(address) = m, MapPage(address)
    PROVE  /\ Mapped(m + 1)'
           /\ \/ /\ m < k * TableSize /\ Covered(m + 1, k)'
                 /\ UNCHANGED <<tables, placement_address>>
              \/ /\ m = k * TableSize /\ Covered(m + 1, k + 1)'
                 /\ k \in Table
                 /\ tables' = [tables EXCEPT ![k] = Aligned(placement_address)]
                 /\ placement_address' = Aligned(placement_address) + PageSize
<1> DEFINE t == m \div TableSize
           g == GetPage(Mapping, m)
           h == AllocFrame(g, m)
<1>1. /\ PageSize \in Nat \ {0} /\ TableSize \in Nat \ {0}
      /\ FrameAmount \in Nat
      /\ placement_address \in Nat /\ tables \in [Table -> Nat]
      /\ k * TableSize \in Nat
  BY PagingAssumption DEF TypeOK
<1>2. m \in Page /\ m \in Frame /\ t \in Table /\ t \in Nat
  <2>1. m \in Page /\ m \in Frame
    BY <1>1 DEF Page, Frame
  <2>2. QED
    BY <1>1, <2>1, DivFacts DEF Table
<1>3. t < k <=> m < k * TableSize
  BY <1>1, DivBounds
<1>4. m = k * TableSize => t = k
  BY <1>1, DivBounds
<1>5. /\ Mapping.place = placement_address /\ Mapping.tables = tables
      /\ Mapping.entry = entry /\ Mapping.present = present
      /\ Mapping.frame = frame
  BY DEF Mapping
<1>6. Becomes(h)
  BY DEF MapPage
<1>7. g.entry = entry /\ g.present = present /\ g.frame = frame
  BY <1>5 DEF GetPage, Mapping
<1>8. h.tables = g.tables /\ h.place = g.place
  BY DEF AllocFrame, GetPage, Mapping
<1>9. entry[m] = 0
  BY <1>2 DEF Mapped
<1>10. FirstFrame(g) = m
  BY <1>7, FirstFree DEF Mapped
<1>11. /\ h.frame = frame \cup {m} /\ h.present = present \cup {m}
       /\ h.entry = [entry EXCEPT ![m] = m]
  <2> HIDE DEF t
  <2>1. g = [place |-> g.place, tables |-> g.tables, entry |-> entry,
             present |-> present, frame |-> frame]
    BY DEF GetPage, Mapping
  <2> HIDE DEF g
  <2>2. h = [g EXCEPT !.frame = frame \cup {m}, !.present = present \cup {m},
                      !.entry = [entry EXCEPT ![m] = m]]
    BY <1>7, <1>9, <1>10 DEF AllocFrame
  <2> HIDE DEF h
  <2>3. QED
    BY <2>1, <2>2
<1>12. tables[t] # 0 <=> t < k
  BY <1>2 DEF Covered
<1>13. tables[t] # 0 => g.tables = tables /\ g.place = placement_address
  BY <1>5 DEF GetPage
<1>14. tables[t] = 0 =>
         /\ g.tables = [tables EXCEPT ![t] = Aligned(placement_address)]
         /\ g.place = Aligned(placement_address) + PageSize
  BY <1>5 DEF GetPage, Mapping
<1> HIDE DEF g, h, t
<1>15. Mapped(m + 1)'
  <2>1. frame' = 0 .. (m + 1) - 1 /\ present' = 0 .. (m + 1) - 1
    BY <1>6, <1>11 DEF Becomes, Mapped
  <2>2. entry' = [p \in Page |-> IF p < m + 1 THEN p ELSE 0]
    <3>1. entry' = [entry EXCEPT ![m] = m]
      BY <1>6, <1>11 DEF Becomes
    <3>2. entry = [p \in Page |-> IF p < m THEN p ELSE 0]
      BY DEF Mapped
    <3>3. Page \subseteq Nat
      BY <1>1 DEF Page, Frame
    <3>4. \A p \in Page :
             (IF p = m THEN m ELSE entry[p]) = IF p < m + 1 THEN p ELSE 0
      BY <3>2, <3>3
    <3>5. entry' = [p \in Page |-> IF p = m THEN m ELSE entry[p]]
      BY <3>1, <3>2
    <3>6. QED
      BY <3>4, <3>5
  <2>3. QED
    BY <2>1, <2>2 DEF Mapped
<1>16. CASE m < k * TableSize
  <2>1. tables' = tables /\ placement_address' = placement_address
    BY <1>3, <1>6, <1>8, <1>12, <1>13, <1>16 DEF Becomes
  <2>2. m + 1 <= k * TableSize /\ (k # 0 => (k - 1) * TableSize < m + 1)
    BY <1>1, <1>16 DEF Covered
  <2>3. Covered(m + 1, k)'
    BY <2>1, <2>2 DEF Covered
  <2>4. QED
    BY <1>15, <1>16, <2>1, <2>3
<1>17. CASE ~(m < k * TableSize)
  <2>1. m = k * TableSize
    BY <1>1, <1>17 DEF Covered
  <2>2. t = k
    BY <1>4, <2>1
  <2>3. /\ tables' = [tables EXCEPT ![k] = Aligned(placement_address)]
        /\ placement_address' = Aligned(placement_address) + PageSize
    BY <1>6, <1>8, <1>12, <1>14, <2>2 DEF Becomes
  <2>4. (k + 1) * TableSize = k * TableSize + TableSize
    BY <1>1, MulMono
  <2>5. Aligned(placement_address) # 0
    BY <1>1, AlignedUp
  <2>6. Table \subseteq Nat
    BY <1>1, DivFacts DEF Table, Page, Frame
  <2>7. \A u \in Table : tables'[u] # 0 <=> u < k + 1
    <3> SUFFICES ASSUME NEW u \in Table
                 PROVE  tables'[u] # 0 <=> u < k + 1
      OBVIOUS
    <3>1. tables[u] # 0 <=> u < k
      BY DEF Covered
    <3>2. CASE u = k
      BY <1>1, <2>3, <2>5, <3>2
    <3>3. CASE u # k
      BY <1>1, <2>3, <2>6, <3>1, <3>3
    <3>4. QED
      BY <3>2, <3>3
  <2>8. /\ m + 1 <= (k + 1) * TableSize
        /\ k + 1 # 0 => ((k + 1) - 1) * TableSize < m + 1
    <3>1. (k + 1) - 1 = k
      OBVIOUS
    <3>2. QED
      BY <1>1, <2>1, <2>4, <3>1
  <2>9. Covered(m + 1, k + 1)'
    BY <2>7, <2>8 DEF Covered
  <2>10. QED
    BY <1>2, <1>15, <2>1, <2>2, <2>3, <2>9
<1>18. QED
  BY <1>16, <1>17

-----------------------------------------------------------------------------
(* Boot.                                                                   *)

LEMMA TablesNumbered == Table \subseteq Nat
<1>1. TableSize \in Nat \ {0} /\ FrameAmount \in Nat
  BY PagingAssumption
<1>2. QED
  BY <1>1, DivFacts DEF Table, Page, Frame

\* Behind the directory.
LEMMA PlacedBehind ==
    ASSUME NEW a \in PlaceStarts
    PROVE  /\ Placed(a) \in Nat /\ PageSize <= Placed(a)
           /\ PageOf(Placed(a)) \in Nat
           /\ PageOf(Placed(a)) * PageSize <= Placed(a)
           /\ Placed(a) < PageOf(Placed(a)) * PageSize + PageSize
<1>1. /\ PageSize \in Nat \ {0} /\ a \in Nat /\ PageSize <= a
      /\ BitmapSize \in Nat /\ DirSize \in Nat
  BY PagingAssumption
<1>2. a + BitmapSize \in Nat /\ PageSize <= a + BitmapSize
  BY <1>1
<1>3. Aligned(a + BitmapSize) \in Nat /\ a + BitmapSize < Aligned(a + BitmapSize)
  BY <1>2, AlignedUp
<1>4. Placed(a) \in Nat /\ PageSize <= Placed(a)
  BY <1>1, <1>2, <1>3 DEF Placed
<1>5. QED
  BY <1>1, <1>4, DivFacts DEF PageOf

\* What is placed while paging_init maps ends before frame_amount.
LEMMA BootRoom ==
    ASSUME BootFits, NEW m \in Nat, NEW k \in Nat, MapOK(m, k),
           NEW a \in PlaceStarts,
           placement_address = IF k = 0 THEN Placed(a)
                               ELSE (PageOf(Placed(a)) + 2 * k) * PageSize
    PROVE  /\ BootTables \in Nat /\ BootTables # 0
           /\ PageOf(Placed(a)) + 2 * BootTables + 1 <= BootTables * TableSize
           /\ placement_address \in Nat /\ PageSize <= placement_address
           /\ placement_address + 2 * PageSize <= FrameAmount
           /\ m < FrameAmount
<1> DEFINE c == BootTables
           q == PageOf(Placed(a))
<1>1. c \in Nat /\ Enough(c)
  BY DEF BootFits, BootTables
<1>2. q + 2 * c + 1 <= c * TableSize /\ (q + 2 * c + 2) * PageSize <= FrameAmount
  BY <1>1 DEF Enough
<1>3. /\ PageSize \in Nat \ {0} /\ TableSize \in Nat \ {0}
      /\ FrameAmount \in Nat
  BY PagingAssumption
<1>4. /\ q \in Nat /\ Placed(a) \in Nat /\ PageSize <= Placed(a)
      /\ q * PageSize <= Placed(a) /\ Placed(a) < q * PageSize + PageSize
  BY PlacedBehind
<1>5. k <= c
  BY DEF MapOK
<1> HIDE DEF c, q
<1>6. c # 0
  BY <1>1, <1>2, <1>3, <1>4
<1>7. /\ (q + 1) * PageSize = q * PageSize + PageSize
      /\ (q + 2 * c) * PageSize \in Nat /\ q * PageSize \in Nat
      /\ (q + 1) * PageSize <= (q + 2 * c) * PageSize
      /\ (q + 2 * k) * PageSize <= (q + 2 * c) * PageSize
      /\ (q + 2 * k) * PageSize \in Nat
      /\ k # 0 => (q + 1) * PageSize <= (q + 2 * k) * PageSize
  <2>1. /\ q + 1 \in Nat /\ q + 2 * c \in Nat /\ q + 2 * k \in Nat
        /\ q + 1 <= q + 2 * c /\ q + 2 * k <= q + 2 * c
        /\ k # 0 => q + 1 <= q + 2 * k
    BY <1>1, <1>4, <1>5, <1>6
  <2>2. QED
    BY <1>3, <1>4, <2>1, MulMono
<1>8. (q + 2 * c + 2) * PageSize = (q + 2 * c) * PageSize + 2 * PageSize
  BY <1>1, <1>3, <1>4
<1>9. placement_address \in Nat /\ placement_address <= (q + 2 * c) * PageSize
      /\ PageSize <= placement_address
  <2>1. CASE k = 0
    BY <1>3, <1>4, <1>7, <2>1
  <2>2. CASE k # 0
    <3>1. placement_address = (q + 2 * k) * PageSize
      BY <2>2 DEF q
    <3>2. QED
      BY <1>3, <1>7, <2>2, <3>1
  <2>3. QED
    BY <2>1, <2>2
<1>10. placement_address + 2 * PageSize <= FrameAmount
  BY <1>2, <1>3, <1>7, <1>8, <1>9
<1>11. m < FrameAmount
  <2>1. m * PageSize < placement_address + 2 * PageSize
    BY DEF MapOK
  <2>2. m <= m * PageSize /\ m * PageSize \in Nat
    BY <1>3
  <2>3. QED
    BY <1>3, <1>9, <1>10, <2>1, <2>2
<1>12. QED
  BY <1>1, <1>2, <1>6, <1>9, <1>10, <1>11 DEF c, q

LEMMA StackBegins == Init => StackInv
<1> SUFFICES ASSUME Init PROVE StackInv
  OBVIOUS
<1>1. /\ PageSize \in Nat \ {0} /\ TableSize \in Nat \ {0}
      /\ FrameAmount \in Nat \ {0} /\ PlaceStarts \subseteq Nat
  BY PagingAssumption
<1>2. TypeOK
  <2>1. 0 \in Frame /\ entry \in [Page -> Frame]
    BY <1>1 DEF Init, Page, Frame
  <2>2. tables \in [Table -> Nat]
    BY DEF Init
  <2>3. halted \in BOOLEAN
    BY Zenon DEF Init
  <2>4. QED
    BY <1>1, <2>1, <2>2, <2>3 DEF Init, TypeOK
<1>3. Mapped(0)
  <2>1. 0 .. 0 - 1 = {} /\ \A p \in Page : ~(p < 0)
    BY <1>1 DEF Page, Frame
  <2>2. QED
    BY <2>1 DEF Init, Mapped
<1>4. Covered(0, 0)
  BY <1>1, TablesNumbered DEF Init, Covered
<1>5. BootOK(0, 0)
  BY DEF Init, BootOK
<1>6. StackAt(0, 0)
  BY <1>3, <1>4, <1>5 DEF StackAt, Init
<1>7. QED
  BY <1>2, <1>6 DEF StackInv

\* The bitmap and the directory are placed.
LEMMA StackPlaced ==
    ASSUME BootFits, StackInv, PagingInit
    PROVE  StackInv'
<1>1. PICK m \in Nat, k \in Nat : StackAt(m, k)
  BY DEF StackInv
<1>2. phase = "boot" /\ phase' = "map"
  BY DEF PagingInit
<1>3. BootOK(m, k) /\ Mapped(m) /\ Covered(m, k)
  BY <1>1, <1>2 DEF StackAt
<1>4. m = 0 /\ k = 0 /\ i = 0 /\ placement_address \in PlaceStarts
  BY <1>2, <1>3 DEF BootOK
<1>5. placement_address' = Placed(placement_address)
  BY DEF PagingInit, Placed
<1>6. placement_address' \in Nat
  BY <1>4, <1>5, PlacedBehind
<1>7. TypeOK'
  BY <1>2, <1>6 DEF StackInv, TypeOK, PagingInit
<1>8. Mapped(m)' /\ Covered(m, k)'
  BY <1>3 DEF Mapped, Covered, PagingInit
<1>9. BootTables \in Nat
  BY DEF BootTables, BootFits
<1>10. MapOK(m, k)'
  <2>1. i' = m * PageSize /\ k <= BootTables
    BY <1>4, <1>9, PagingAssumption DEF PagingInit
  <2>2. \A t \in Table : ~(t < k)
    BY <1>4, TablesNumbered
  <2>3. m * PageSize < placement_address' + 2 * PageSize
    <3>1. PageSize \in Nat /\ PageSize > 0 /\ m * PageSize = 0
      BY <1>4, PagingAssumption
    <3>2. \A x \in Nat : m * PageSize < x + 2 * PageSize
      BY <3>1
    <3>3. QED
      BY <1>6, <3>2
  <2>4. QED
    BY <1>4, <1>5, <2>1, <2>2, <2>3 DEF MapOK
<1>11. BootOK(m, k)'
  BY <1>2, <1>3, <1>10 DEF BootOK, PagingInit
<1>12. StackAt(m, k)'
  BY <1>2, <1>8, <1>11 DEF StackAt
<1>13. QED
  BY <1>7, <1>12 DEF StackInv

\* The place after a new table, in pages: each costs two.
LEMMA TablePlaced ==
    ASSUME BootFits, NEW m \in Nat, NEW k \in Nat, MapOK(m, k), MapsThis,
           m = k * TableSize,
           NEW a \in PlaceStarts,
           placement_address = IF k = 0 THEN Placed(a)
                               ELSE (PageOf(Placed(a)) + 2 * k) * PageSize
    PROVE  /\ k + 1 <= BootTables
           /\ Aligned(placement_address) + PageSize =
                  (PageOf(Placed(a)) + 2 * (k + 1)) * PageSize
<1> DEFINE q == PageOf(Placed(a))
<1>1. /\ PageSize \in Nat \ {0} /\ TableSize \in Nat \ {0}
      /\ FrameAmount \in Nat
  BY PagingAssumption
<1>2. /\ BootTables \in Nat /\ BootTables # 0
      /\ q + 2 * BootTables + 1 <= BootTables * TableSize
      /\ placement_address \in Nat /\ PageSize <= placement_address
  BY BootRoom
<1>3. q \in Nat
  BY PlacedBehind
<1>4. Aligned(placement_address) = (PageOf(placement_address) + 1) * PageSize
      /\ PageOf(placement_address) \in Nat
  BY <1>2, AlignedUp
<1>5. k = 0 => PageOf(placement_address) = q
  OBVIOUS
<1>6. k # 0 => placement_address = (q + 2 * k) * PageSize
  OBVIOUS
<1> HIDE DEF q
<1>7. PageOf(placement_address) = q + 2 * k
  <2>1. q + 2 * k \in Nat
    BY <1>3
  <2>2. k # 0 => PageOf(placement_address) = q + 2 * k
    BY <1>1, <1>2, <1>6, <2>1, DivBounds DEF PageOf
  <2>3. QED
    BY <1>3, <1>5, <2>2
<1>8. Aligned(placement_address) + PageSize = (q + 2 * (k + 1)) * PageSize
  BY <1>1, <1>3, <1>4, <1>7
<1>9. k + 1 <= BootTables
  <2> SUFFICES ASSUME k = BootTables PROVE FALSE
    BY <1>2 DEF MapOK
  <2>1. placement_address = (q + 2 * k) * PageSize
    BY <1>2, <1>6
  <2>2. m >= q + 2 * k + 1
    BY <1>2
  <2>3. (q + 2 * k + 1) * PageSize <= m * PageSize
    BY <1>1, <1>3, <2>2, MulMono
  <2>4. /\ (q + 2 * k + 1) * PageSize = (q + 2 * k) * PageSize + PageSize
        /\ m * PageSize \in Nat /\ (q + 2 * k) * PageSize \in Nat
    BY <1>1, <1>3, MulMono
  <2>5. m * PageSize < placement_address + PageSize
    BY DEF MapsThis, MapOK
  <2>6. QED
    BY <1>1, <2>1, <2>3, <2>4, <2>5
<1>10. QED
  BY <1>8, <1>9 DEF q

\* One round of paging_init's loop.
LEMMA StackMaps ==
    ASSUME BootFits, StackInv, PagingInitMap, MapsThis
    PROVE  StackInv'
<1>1. PICK m \in Nat, k \in Nat : StackAt(m, k)
  BY DEF StackInv
<1>2. /\ phase = "map" /\ phase' = "map" /\ i' = i + PageSize /\ MapPage(i)
      /\ UNCHANGED <<pages, n, mem_lastpage, halted, heap>>
  BY DEF PagingInitMap
<1>3. BootOK(m, k) /\ MapOK(m, k) /\ Mapped(m) /\ Covered(m, k)
  BY <1>1, <1>2 DEF StackAt, BootOK
<1>4. PICK a \in PlaceStarts :
        placement_address = IF k = 0 THEN Placed(a)
                            ELSE (PageOf(Placed(a)) + 2 * k) * PageSize
  BY <1>3 DEF MapOK
<1>5. /\ placement_address \in Nat /\ PageSize <= placement_address
      /\ m < FrameAmount
  BY <1>3, <1>4, BootRoom
<1>6. /\ PageSize \in Nat \ {0} /\ TableSize \in Nat \ {0}
      /\ FrameAmount \in Nat
  BY PagingAssumption
<1>7. i = m * PageSize /\ i \in Nat /\ i < placement_address + PageSize
  BY <1>3, <1>6 DEF MapOK, MapsThis
<1>8. PageOf(i) = m
  BY <1>6, <1>7, DivBounds DEF PageOf
<1>9. TypeOK
  BY DEF StackInv
<1>10. /\ Mapped(m + 1)'
       /\ \/ /\ m < k * TableSize /\ Covered(m + 1, k)'
             /\ UNCHANGED <<tables, placement_address>>
          \/ /\ m = k * TableSize /\ Covered(m + 1, k + 1)'
             /\ k \in Table
             /\ tables' = [tables EXCEPT ![k] = Aligned(placement_address)]
             /\ placement_address' = Aligned(placement_address) + PageSize
  BY <1>2, <1>3, <1>5, <1>8, <1>9, NextPageMapped
<1>11. i' = (m + 1) * PageSize
  BY <1>2, <1>6, <1>7
<1>12. (m + 1) * PageSize < placement_address + 2 * PageSize
  BY <1>5, <1>6, <1>7
<1>13. ASSUME placement_address' \in Nat, tables' \in [Table -> Nat]
       PROVE  TypeOK'
  <2>1. m + 1 \in Nat /\ m + 1 <= FrameAmount
    BY <1>5, <1>6
  <2>2. /\ entry' \in [Page -> Frame]
        /\ present' \subseteq Page /\ frame' \subseteq Frame
    BY <1>6, <1>10, <2>1 DEF Mapped, Page, Frame
  <2>3. halted' \in BOOLEAN
    BY <1>2, <1>9, Zenon DEF TypeOK
  <2>4. i' \in Nat
    BY <1>2, <1>6, <1>7
  <2>5. QED
    BY <1>2, <1>9, <1>13, <2>2, <2>3, <2>4 DEF TypeOK
<1>14. CASE /\ Covered(m + 1, k)'
            /\ UNCHANGED <<tables, placement_address>>
  <2>1. MapOK(m + 1, k)'
    BY <1>3, <1>11, <1>12, <1>14 DEF MapOK
  <2>2. BootOK(m + 1, k)'
    BY <1>2, <1>3, <2>1 DEF BootOK
  <2>3. StackAt(m + 1, k)'
    BY <1>2, <1>10, <1>14, <2>2 DEF StackAt
  <2>4. TypeOK'
    BY <1>9, <1>13, <1>14 DEF TypeOK
  <2>5. QED
    BY <2>3, <2>4 DEF StackInv
<1>15. CASE /\ m = k * TableSize /\ Covered(m + 1, k + 1)'
            /\ k \in Table
            /\ tables' = [tables EXCEPT ![k] = Aligned(placement_address)]
            /\ placement_address' = Aligned(placement_address) + PageSize
  <2>1. /\ k + 1 <= BootTables
        /\ Aligned(placement_address) + PageSize =
                  (PageOf(Placed(a)) + 2 * (k + 1)) * PageSize
    BY <1>3, <1>4, <1>15, TablePlaced
  <2>2. Aligned(placement_address) \in Nat
        /\ placement_address < Aligned(placement_address)
    BY <1>5, AlignedUp
  <2>3. placement_address' \in Nat /\ placement_address < placement_address'
    <3>1. /\ Aligned(placement_address) + PageSize \in Nat
          /\ placement_address < Aligned(placement_address) + PageSize
      BY <1>5, <1>6, <2>2
    <3>2. QED
      BY <1>15, <3>1
  <2>4. tables \in [Table -> Nat] /\ tables' \in [Table -> Nat]
    BY <1>9, <1>15, <2>2 DEF TypeOK
  <2>5. \A t \in Table : t < k + 1 => tables'[t] + PageSize <= placement_address'
    <3> SUFFICES ASSUME NEW t \in Table, t < k + 1
                 PROVE  tables'[t] + PageSize <= placement_address'
      OBVIOUS
    <3>1. CASE t = k
      <4>1. tables'[t] = Aligned(placement_address)
        BY <1>15, <2>4, <3>1
      <4>2. QED
        BY <1>6, <1>15, <2>2, <4>1
    <3>2. CASE t # k
      <4>1. tables'[t] = tables[t]
        BY <1>15, <2>4, <3>2
      <4>2. t < k
        BY <3>2, TablesNumbered
      <4>3. tables[t] + PageSize <= placement_address
        BY <1>3, <4>2 DEF MapOK
      <4>4. tables[t] \in Nat
        BY <2>4
      <4>5. QED
        BY <1>5, <1>6, <2>3, <4>1, <4>3, <4>4
    <3>3. QED
      BY <3>1, <3>2
  <2>6. (m + 1) * PageSize < placement_address' + 2 * PageSize
    <3> DEFINE w == (m + 1) * PageSize
    <3>1. w \in Nat /\ w < placement_address + 2 * PageSize
      BY <1>6, <1>12
    <3> HIDE DEF w
    <3>2. \A x \in Nat : placement_address < x => w < x + 2 * PageSize
      BY <1>5, <1>6, <3>1
    <3>3. QED
      BY <2>3, <3>2 DEF w
  <2>7. placement_address' =
           IF k + 1 = 0 THEN Placed(a)
           ELSE (PageOf(Placed(a)) + 2 * (k + 1)) * PageSize
    BY <1>15, <2>1
  <2>8. MapOK(m + 1, k + 1)'
    BY <1>11, <2>1, <2>5, <2>6, <2>7 DEF MapOK
  <2>9. BootOK(m + 1, k + 1)'
    BY <1>2, <1>3, <2>8 DEF BootOK
  <2>10. StackAt(m + 1, k + 1)'
    BY <1>2, <1>10, <1>15, <2>9 DEF StackAt
  <2>11. TypeOK'
    BY <1>13, <2>3, <2>4
  <2>12. QED
    BY <2>10, <2>11 DEF StackInv
<1>16. QED
  BY <1>10, <1>14, <1>15

\* The loop ends a page behind what was placed: all tables are mapped.
LEMMA StackMapped ==
    ASSUME BootFits, StackInv, PagingInitMap, ~MapsThis
    PROVE  StackInv'
<1>1. PICK m \in Nat, k \in Nat : StackAt(m, k)
  BY DEF StackInv
<1>2. /\ phase = "map" /\ phase' = "mapped" /\ i' = 0 /\ UNCHANGED mapVars
      /\ UNCHANGED <<pages, n, mem_lastpage, halted, heap>>
  BY DEF PagingInitMap
<1>3. BootOK(m, k) /\ MapOK(m, k) /\ Mapped(m) /\ Covered(m, k)
  BY <1>1, <1>2 DEF StackAt, BootOK
<1>4. PICK a \in PlaceStarts :
        placement_address = IF k = 0 THEN Placed(a)
                            ELSE (PageOf(Placed(a)) + 2 * k) * PageSize
  BY <1>3 DEF MapOK
<1>5. /\ placement_address \in Nat /\ PageSize <= placement_address
      /\ m < FrameAmount /\ placement_address + 2 * PageSize <= FrameAmount
  BY <1>3, <1>4, BootRoom
<1>6. /\ PageSize \in Nat \ {0} /\ TableSize \in Nat \ {0}
      /\ FrameAmount \in Nat
  BY PagingAssumption
<1>7. /\ m * PageSize \in Nat /\ placement_address + PageSize <= m * PageSize
      /\ m * PageSize < placement_address + 2 * PageSize
  BY <1>3, <1>5, <1>6 DEF MapOK, MapsThis
<1>8. m # 0 /\ m * PageSize < FrameAmount
      /\ (m - 1) * PageSize = m * PageSize - PageSize
  BY <1>5, <1>6, <1>7
<1>9. \A t \in Table : t < k => PageOf(tables[t]) < m
  <2> SUFFICES ASSUME NEW t \in Table, t < k PROVE PageOf(tables[t]) < m
    OBVIOUS
  <2>1. tables[t] \in Nat /\ tables[t] + PageSize <= placement_address
    BY <1>3 DEF MapOK, StackInv, TypeOK
  <2>2. tables[t] < m * PageSize
    BY <1>5, <1>6, <1>7, <2>1
  <2>3. QED
    BY <1>6, <2>1, <2>2, DivBounds DEF PageOf
<1>10. TablesIn(m, k)
  BY <1>5, <1>6, <1>7, <1>8, <1>9 DEF TablesIn
<1>11. UpOK(m, k)'
  BY <1>2, <1>3, <1>5, <1>8, <1>10 DEF UpOK, TablesIn, BootOK, mapVars
<1>12. StackAt(m, k)'
  BY <1>2, <1>3, <1>11 DEF StackAt, Mapped, Covered, mapVars
<1>13. TypeOK'
  BY <1>2 DEF StackInv, TypeOK, mapVars
<1>14. QED
  BY <1>12, <1>13 DEF StackInv

\* memory_init puts the break at the end of the mapped pages.
LEMMA StackBreaks ==
    ASSUME StackInv, MemoryInit
    PROVE  StackInv'
<1>1. PICK m \in Nat, k \in Nat : StackAt(m, k)
  BY DEF StackInv
<1>2. /\ phase = "mapped" /\ phase' = "up"
      /\ UNCHANGED <<i, pages, n, mapVars, halted, heap>>
      /\ mem_lastpage' = FirstFrame(Mapping) * PageSize
  BY DEF MemoryInit
<1>3. UpOK(m, k) /\ Mapped(m) /\ Covered(m, k)
  BY <1>1, <1>2 DEF StackAt
<1>4. /\ PageSize \in Nat \ {0} /\ FrameAmount \in Nat
  BY PagingAssumption
<1>5. m * PageSize < FrameAmount /\ m * PageSize \in Nat /\ m <= m * PageSize
  BY <1>2, <1>3, <1>4 DEF UpOK
<1>6. FirstFrame(Mapping) = m
  BY <1>3, <1>4, <1>5, FirstFree DEF Mapped, Mapping
<1>7. mem_lastpage' = m * PageSize
  BY <1>2, <1>6
<1>8. UpOK(m, k)'
  BY <1>2, <1>3, <1>7 DEF UpOK, TablesIn, Break, mapVars
<1>9. StackAt(m, k)'
  BY <1>2, <1>3, <1>8 DEF StackAt, Mapped, Covered, mapVars
<1>10. TypeOK'
  <2>1. mem_lastpage' \in 0 .. FrameAmount
    BY <1>4, <1>5, <1>7
  <2>2. QED
    BY <1>2, <2>1 DEF StackInv, TypeOK, mapVars
<1>11. QED
  BY <1>9, <1>10 DEF StackInv

-----------------------------------------------------------------------------
(* sbrk.                                                                   *)

\* Where the search ends: every address below the end of the mapped pages has
\* a frame that is used, and the first address behind them has none.
LEMMA SearchFinds ==
    ASSUME NEW m \in Nat, m # 0, Mapped(m),
           mem_lastpage \in 0 .. FrameAmount, mem_lastpage \in Break(m),
           NEW found, found = {k \in 0 .. FrameAmount - 1 : Fits(k, 1)},
           found # {}
    PROVE  /\ Position(CHOOSE k \in found : \A l \in found : k <= l)
                  = m * PageSize
           /\ m * PageSize < FrameAmount
<1> DEFINE P == m * PageSize
<1>1. /\ PageSize \in Nat \ {0} /\ FrameAmount \in Nat \ {0}
      /\ mem_lastpage \in Nat /\ mem_lastpage <= FrameAmount
  BY PagingAssumption
<1>2. P \in Nat /\ (m - 1) * PageSize = P - PageSize /\ PageSize <= P
  BY <1>1, MulMono
<1>3. mem_lastpage <= P /\ P <= mem_lastpage + PageSize
  BY <1>1, <1>2 DEF Break
<1>4. ASSUME NEW x \in Nat
      PROVE  PageOf(x) \in Nat /\ (PageOf(x) \in frame <=> x < P)
  <2>1. PageOf(x) \in Nat /\ (x < P <=> PageOf(x) < m)
    BY <1>1, DivFacts, DivBounds DEF PageOf
  <2>2. frame = 0 .. m - 1
    BY DEF Mapped
  <2>3. QED
    BY <2>1, <2>2
<1> HIDE DEF P
<1>5. ASSUME NEW k \in 0 .. FrameAmount - 1
      PROVE  /\ Position(k) \in Nat /\ Position(k) < FrameAmount
             /\ k + mem_lastpage < FrameAmount =>
                    Position(k) = k + mem_lastpage
  <2>1. k + mem_lastpage \in Nat
    BY <1>1
  <2>2. ASSUME NEW x \in Nat PROVE (x % FrameAmount) \in 0 .. FrameAmount - 1
    BY <1>1
  <2>3. Position(k) \in 0 .. FrameAmount - 1
    BY <2>1, <2>2 DEF Position
  <2>4. ASSUME k + mem_lastpage < FrameAmount
        PROVE  Position(k) = k + mem_lastpage
    BY <1>1, <2>1, <2>4, ModSmall DEF Position
  <2>5. QED
    BY <1>1, <2>3, <2>4
<1>6. P < FrameAmount
  <2>1. PICK k \in 0 .. FrameAmount - 1 : Fits(k, 1)
    OBVIOUS
  <2>2. ~(Position(k) < P)
    BY <1>4, <1>5, <2>1 DEF Fits
  <2>3. QED
    BY <1>1, <1>2, <1>5, <2>2
<1> DEFINE z == P - mem_lastpage
<1>7. z \in 0 .. FrameAmount - 1 /\ z + mem_lastpage = P
  BY <1>1, <1>2, <1>3, <1>6
<1>8. Position(z) = P
  BY <1>5, <1>6, <1>7
<1>9. z \in found
  <2>1. Position(z) + 1 <= FrameAmount
    BY <1>1, <1>2, <1>6, <1>8
  <2>2. PageOf(Position(z)) \notin frame
    BY <1>2, <1>4, <1>8
  <2>3. QED
    BY <1>7, <2>1, <2>2 DEF Fits
<1>10. ASSUME NEW l \in found PROVE z <= l
  <2>1. l \in 0 .. FrameAmount - 1 /\ PageOf(Position(l)) \notin frame
    BY DEF Fits
  <2>2. ~(Position(l) < P)
    BY <1>4, <1>5, <2>1
  <2>3. l + mem_lastpage < FrameAmount => P <= l + mem_lastpage
    BY <1>1, <1>2, <1>5, <2>1, <2>2
  <2>4. QED
    BY <1>1, <1>2, <1>6, <2>1, <2>3
<1>11. found \subseteq Nat
  BY <1>1
<1> HIDE DEF z
<1>12. \A k \in found : (\A l \in found : k <= l) => k = z
  BY <1>7, <1>9, <1>10, <1>11
<1>13. (CHOOSE k \in found : \A l \in found : k <= l) = z
  BY <1>9, <1>10, <1>12
<1>14. QED
  BY <1>6, <1>8, <1>13 DEF P

LEMMA StackSearches ==
    ASSUME StackInv, Memallocp(1)
    PROVE  StackInv'
<1>1. PICK m \in Nat, k \in Nat : StackAt(m, k)
  BY DEF StackInv
<1> DEFINE found == {l \in 0 .. FrameAmount - 1 : Fits(l, 1)}
<1>2. /\ phase = "up"
      /\ UNCHANGED <<n, mapVars, mem_lastpage, heap>>
      /\ \/ /\ halted' = TRUE /\ UNCHANGED <<phase, i, pages>>
         \/ /\ found # {}
            /\ i' = Position(CHOOSE l \in found : \A j \in found : l <= j)
            /\ phase' = "alloc" /\ pages' = 1
            /\ UNCHANGED halted
  BY DEF Memallocp
<1>3. UpOK(m, k) /\ Mapped(m) /\ Covered(m, k)
  BY <1>1, <1>2 DEF StackAt
<1>4. m # 0 /\ mem_lastpage \in Break(m) /\ pages = 0 /\ n = 0
  BY <1>2, <1>3 DEF UpOK
<1>5. Mapped(m)' /\ Covered(m, k)'
  BY <1>2, <1>3 DEF Mapped, Covered, mapVars
<1>6. mem_lastpage \in 0 .. FrameAmount
  BY DEF StackInv, TypeOK
<1>7. PageSize \in Nat /\ FrameAmount \in Nat /\ m * PageSize \in Nat
  BY PagingAssumption
<1>8. CASE halted' = TRUE /\ UNCHANGED <<phase, i, pages>>
  <2>1. UpOK(m, k)'
    BY <1>2, <1>3, <1>8 DEF UpOK, TablesIn, mapVars
  <2>2. StackAt(m, k)'
    BY <1>2, <1>5, <1>8, <2>1 DEF StackAt
  <2>3. halted' \in BOOLEAN
    BY <1>8, Zenon
  <2>4. TypeOK'
    BY <1>2, <1>8, <2>3 DEF StackInv, TypeOK, mapVars
  <2>5. QED
    BY <2>2, <2>4 DEF StackInv
<1>9. CASE /\ found # {}
           /\ i' = Position(CHOOSE l \in found : \A j \in found : l <= j)
           /\ phase' = "alloc" /\ pages' = 1
           /\ UNCHANGED halted
  <2>1. i' = m * PageSize /\ m * PageSize < FrameAmount
    <3> HIDE DEF found
    <3>1. found = {l \in 0 .. FrameAmount - 1 : Fits(l, 1)}
      BY DEF found
    <3>2. QED
      BY <1>3, <1>4, <1>6, <1>9, <3>1, SearchFinds
  <2> HIDE DEF found
  <2>2. UpOK(m, k)'
    BY <1>2, <1>3, <1>4, <1>9, <2>1 DEF UpOK, TablesIn, mapVars
  <2>3. StackAt(m, k)'
    BY <1>5, <1>9, <2>2 DEF StackAt
  <2>4. TypeOK'
    BY <1>2, <1>4, <1>7, <1>9, <2>1 DEF StackInv, TypeOK, mapVars
  <2>5. QED
    BY <2>3, <2>4 DEF StackInv
<1>10. QED
  BY <1>2, <1>8, <1>9

\* The page behind the last mapped one is mapped, and what it needs.
LEMMA StackAllocates ==
    ASSUME BootFits, PlaceStarts # {}, StackInv, AllocPage
    PROVE  StackInv'
<1>1. PICK m \in Nat, k \in Nat : StackAt(m, k)
  BY DEF StackInv
<1>2. /\ phase = "alloc" /\ n < pages /\ MapPage(i + n)
      /\ heap' = heap \cup {PageOf(i) + n} /\ n' = n + 1
      /\ UNCHANGED <<phase, i, pages, mem_lastpage, halted>>
  BY DEF AllocPage
<1>3. UpOK(m, k) /\ Mapped(m) /\ Covered(m, k) /\ TypeOK
  BY <1>1, <1>2 DEF StackAt, StackInv
<1>4. /\ pages = 1 /\ n = 0 /\ i = m * PageSize /\ i < FrameAmount /\ m # 0
      /\ mem_lastpage \in Break(m) /\ PageSize <= placement_address
      /\ heap \subseteq present /\ TablesIn(m, k)
  BY <1>2, <1>3 DEF UpOK
<1>5. /\ PageSize \in Nat \ {0} /\ TableSize \in Nat \ {0}
      /\ FrameAmount \in Nat /\ placement_address \in Nat
      /\ tables \in [Table -> Nat]
  BY <1>3, PagingAssumption DEF TypeOK
<1>6. i \in Nat /\ i + n = i /\ PageOf(i) = m /\ m < FrameAmount
  <2>1. m * PageSize \in Nat /\ m <= m * PageSize
    BY <1>5
  <2>2. QED
    BY <1>4, <1>5, <2>1, DivBounds DEF PageOf
<1>7. /\ Mapped(m + 1)'
      /\ \/ /\ m < k * TableSize /\ Covered(m + 1, k)'
            /\ UNCHANGED <<tables, placement_address>>
         \/ /\ m = k * TableSize /\ Covered(m + 1, k + 1)'
            /\ k \in Table
            /\ tables' = [tables EXCEPT ![k] = Aligned(placement_address)]
            /\ placement_address' = Aligned(placement_address) + PageSize
  <2>1. MapPage(i)
    BY <1>2, <1>6
  <2>2. QED
    BY <1>3, <1>4, <1>6, <2>1, NextPageMapped
<1>8. heap' = heap \cup {m} /\ heap' \subseteq present' /\ n' = 1
  <2>1. present = 0 .. m - 1 /\ present' = 0 .. (m + 1) - 1
    BY <1>3, <1>7 DEF Mapped
  <2>2. PageOf(i) + n = m /\ n' = 1
    BY <1>2, <1>4, <1>6
  <2>3. heap' = heap \cup {m}
    BY <1>2, <2>2
  <2>4. m \in present' /\ present \subseteq present'
    BY <2>1
  <2>5. QED
    BY <1>4, <2>2, <2>3, <2>4
<1>9. i' = ((m + 1) - 1) * PageSize /\ mem_lastpage' \in Break((m + 1) - 1)
      /\ m + 1 # 1 /\ m + 1 # 0
  <2>1. (m + 1) - 1 = m
    OBVIOUS
  <2>2. QED
    BY <1>2, <1>4, <2>1
<1>10. ASSUME NEW q \in Nat, TablesIn(m + 1, q)', PageSize <= placement_address'
       PROVE  UpOK(m + 1, q)'
  BY <1>2, <1>4, <1>8, <1>9, <1>10 DEF UpOK
<1>11. ASSUME placement_address' \in Nat, tables' \in [Table -> Nat]
       PROVE  TypeOK'
  <2>1. /\ entry' \in [Page -> Frame]
        /\ present' \subseteq Page /\ frame' \subseteq Frame
    BY <1>5, <1>6, <1>7 DEF Mapped, Page, Frame
  <2>2. halted' \in BOOLEAN
    BY <1>2, <1>3, Zenon DEF TypeOK
  <2>3. QED
    BY <1>2, <1>3, <1>4, <1>8, <1>11, <2>1, <2>2 DEF TypeOK
<1>12. /\ ((m + 1) - 1) * PageSize = m * PageSize
       /\ (m + 1) * PageSize = m * PageSize + PageSize
       /\ (m - 1) * PageSize = m * PageSize - PageSize
       /\ m * PageSize \in Nat
  <2>1. (m + 1) - 1 = m
    OBVIOUS
  <2>2. QED
    BY <1>4, <1>5, <2>1, MulMono
<1>13. CASE m < k * TableSize /\ Covered(m + 1, k)'
            /\ UNCHANGED <<tables, placement_address>>
  <2>1. \A t \in Table : t < k => PageOf(tables'[t]) < m + 1
    <3> SUFFICES ASSUME NEW t \in Table, t < k
                 PROVE  PageOf(tables[t]) < m + 1
      BY <1>13
    <3>1. PageOf(tables[t]) < m /\ PageOf(tables[t]) \in Nat
      BY <1>4, <1>5, DivFacts DEF TablesIn, PageOf
    <3>2. QED
      BY <3>1
  <2>2. placement_address <= m * PageSize
    BY <1>4, <1>5, <1>12 DEF TablesIn
  <2>3. TablesIn(m + 1, k)'
    BY <1>12, <1>13, <2>1, <2>2 DEF TablesIn
  <2>4. StackAt(m + 1, k)'
    BY <1>2, <1>4, <1>7, <1>10, <1>13, <2>3 DEF StackAt
  <2>5. QED
    BY <1>5, <1>11, <1>13, <2>4 DEF StackInv
<1>14. CASE /\ m = k * TableSize /\ Covered(m + 1, k + 1)'
            /\ k \in Table
            /\ tables' = [tables EXCEPT ![k] = Aligned(placement_address)]
            /\ placement_address' = Aligned(placement_address) + PageSize
  <2> DEFINE q == PageOf(placement_address)
  <2>1. /\ Aligned(placement_address) = (q + 1) * PageSize
        /\ q \in Nat /\ Aligned(placement_address) \in Nat
        /\ placement_address < Aligned(placement_address)
    BY <1>4, <1>5, AlignedUp
  <2>2. placement_address <= (m - 1) * PageSize
    <3>1. k * TableSize \in Nat
      BY <1>5
    <3>2. QED
      BY <1>4, <1>14, <3>1 DEF TablesIn
  <2>3. q < m
    <3>1. placement_address < m * PageSize
      BY <1>5, <1>12, <2>2
    <3>2. QED
      BY <1>5, <3>1, DivBounds DEF PageOf
  <2>4. PageOf(Aligned(placement_address)) = q + 1
    BY <1>5, <2>1, DivBounds DEF PageOf
  <2> HIDE DEF q
  <2>5. Aligned(placement_address) <= m * PageSize
    BY <1>5, <2>1, <2>3, MulMono
  <2>6. /\ placement_address' <= (m + 1) * PageSize
        /\ placement_address' \in Nat /\ PageSize <= placement_address'
    BY <1>5, <1>12, <1>14, <2>1, <2>5
  <2>7. m + 1 < (k + 1) * TableSize
    <3>1. TableSize >= 2
      <4>1. PICK c \in Nat : Enough(c)
        BY DEF BootFits
      <4>2. PICK a \in PlaceStarts : TRUE
        OBVIOUS
      <4>3. PageOf(Placed(a)) + 2 * c + 1 <= c * TableSize
        BY <4>1 DEF Enough
      <4>4. PageOf(Placed(a)) \in Nat
        BY PlacedBehind
      <4>5. TableSize # 1
        BY <4>3, <4>4
      <4>6. QED
        BY <1>5, <4>5
    <3>2. (k + 1) * TableSize = k * TableSize + TableSize
          /\ k * TableSize \in Nat
      BY <1>5, MulMono
    <3>3. QED
      BY <1>5, <1>14, <3>1, <3>2
  <2>8. tables' \in [Table -> Nat]
    BY <1>5, <1>14, <2>1
  <2>9. \A t \in Table : t < k + 1 => PageOf(tables'[t]) < m + 1
    <3> SUFFICES ASSUME NEW t \in Table, t < k + 1
                 PROVE  PageOf(tables'[t]) < m + 1
      OBVIOUS
    <3>1. CASE t = k
      <4>1. tables'[t] = Aligned(placement_address)
        BY <1>5, <1>14, <3>1
      <4>2. QED
        BY <2>1, <2>3, <2>4, <4>1
    <3>2. CASE t # k
      <4>1. tables'[t] = tables[t]
        BY <1>5, <1>14, <3>2
      <4>2. t < k
        BY <3>2, TablesNumbered
      <4>3. PageOf(tables[t]) < m /\ PageOf(tables[t]) \in Nat
        BY <1>4, <1>5, <4>2, DivFacts DEF TablesIn, PageOf
      <4>4. QED
        BY <4>1, <4>3
    <3>3. QED
      BY <3>1, <3>2
  <2>10. TablesIn(m + 1, k + 1)'
    BY <2>6, <2>7, <2>9 DEF TablesIn
  <2>11. StackAt(m + 1, k + 1)'
    BY <1>2, <1>4, <1>7, <1>10, <1>14, <2>6, <2>10 DEF StackAt
  <2>12. QED
    BY <1>11, <2>6, <2>8, <2>11 DEF StackInv
<1>15. QED
  BY <1>7, <1>13, <1>14

\* The break moves one byte into the page that was just mapped: by one byte
\* the first time, by a page from then on.
LEMMA StackReturns ==
    ASSUME StackInv, AllocDone
    PROVE  /\ StackInv'
           /\ mem_lastpage' = mem_lastpage +
                  IF mem_lastpage % PageSize = 0 THEN 1 ELSE PageSize
<1>1. PICK m \in Nat, k \in Nat : StackAt(m, k)
  BY DEF StackInv
<1>2. /\ phase = "alloc" /\ n = pages /\ mem_lastpage' = i + pages
      /\ halted' = (i = 0) /\ UNCHANGED <<mapVars, heap>>
      /\ phase' = "up" /\ i' = 0 /\ pages' = 0 /\ n' = 0
  BY DEF AllocDone, CallReturns
<1>3. UpOK(m, k) /\ Mapped(m) /\ Covered(m, k) /\ TypeOK
  BY <1>1, <1>2 DEF StackAt, StackInv
<1>4. /\ pages = 1 /\ i = (m - 1) * PageSize /\ i < FrameAmount
      /\ m # 0 /\ m # 1 /\ mem_lastpage \in Break(m - 1) /\ i \in Nat
  BY <1>2, <1>3 DEF UpOK, TypeOK
<1>5. PageSize \in Nat \ {0} /\ FrameAmount \in Nat
  BY PagingAssumption
<1>6. mem_lastpage' = i + 1 /\ mem_lastpage' \in Break(m)
      /\ mem_lastpage' \in 0 .. FrameAmount
  BY <1>2, <1>4, <1>5 DEF Break
<1>7. UpOK(m, k)'
  BY <1>2, <1>3, <1>6 DEF UpOK, TablesIn, mapVars
<1>8. StackAt(m, k)'
  BY <1>2, <1>3, <1>7 DEF StackAt, Mapped, Covered, mapVars
<1>9. TypeOK'
  <2>1. halted' \in BOOLEAN
    BY <1>2, Zenon
  <2>2. QED
    BY <1>2, <1>3, <1>6, <2>1 DEF TypeOK, mapVars
<1>10. mem_lastpage' = mem_lastpage +
                  IF mem_lastpage % PageSize = 0 THEN 1 ELSE PageSize
  <2> DEFINE q == m - 2
  <2>1. q \in Nat /\ m - 1 = q + 1 /\ (m - 1) - 1 = q
    BY <1>4
  <2>2. i = q * PageSize + PageSize /\ q * PageSize \in Nat
    BY <1>4, <1>5, <2>1, MulMono
  <2>3. mem_lastpage \in {(q + 1) * PageSize, q * PageSize + 1}
    BY <1>4, <2>1 DEF Break
  <2> HIDE DEF q
  <2>4. CASE mem_lastpage = (q + 1) * PageSize
    <3>1. (mem_lastpage % PageSize) = 0
      BY <1>5, <2>1, <2>4
    <3>2. mem_lastpage = i
      BY <1>4, <2>1, <2>4
    <3>3. QED
      BY <1>6, <3>1, <3>2
  <2>5. CASE mem_lastpage = q * PageSize + 1 /\ PageSize = 1
    <3>1. (mem_lastpage % PageSize) = 0
      BY <2>1, <2>5
    <3>2. mem_lastpage = i
      BY <2>1, <2>2, <2>5
    <3>3. QED
      BY <1>6, <3>1, <3>2
  <2>6. CASE mem_lastpage = q * PageSize + 1 /\ PageSize # 1
    <3>1. (mem_lastpage % PageSize) = 1
      <4>1. (mem_lastpage \div PageSize) = q
        BY <1>5, <2>1, <2>6
      <4>2. mem_lastpage = PageSize * (mem_lastpage \div PageSize)
                             + (mem_lastpage % PageSize)
        BY <1>3, <1>5 DEF TypeOK
      <4>3. (mem_lastpage % PageSize) \in 0 .. PageSize - 1
        BY <1>3, <1>5 DEF TypeOK
      <4>4. q * PageSize = PageSize * q
        BY <1>5, <2>1
      <4>5. QED
        BY <2>2, <2>6, <4>1, <4>2, <4>3, <4>4
    <3>2. i + 1 = mem_lastpage + PageSize
      BY <1>5, <2>2, <2>6
    <3>3. QED
      BY <1>6, <3>1, <3>2
  <2>7. QED
    BY <2>3, <2>4, <2>5, <2>6
<1>11. QED
  BY <1>8, <1>9, <1>10 DEF StackInv

-----------------------------------------------------------------------------
(* The invariant and what follows from it.                                 *)

LEMMA StackStep ==
    ASSUME BootFits, OnePage, PlaceStarts # {}, StackInv, [Boot \/ Sbrk]_vars
    PROVE  StackInv'
<1>1. CASE PagingInit
  BY <1>1, StackPlaced
<1>2. CASE PagingInitMap
  BY <1>2, StackMaps, StackMapped
<1>3. CASE MemoryInit
  BY <1>3, StackBreaks
<1>4. ASSUME NEW count \in Requests, Memallocp(count) PROVE StackInv'
  BY <1>4, StackSearches DEF OnePage
<1>5. CASE AllocPage
  BY <1>5, StackAllocates
<1>6. CASE AllocDone
  BY <1>6, StackReturns
<1>7. CASE UNCHANGED vars
  <2>1. PICK m \in Nat, k \in Nat : StackAt(m, k)
    BY DEF StackInv
  <2>2. StackAt(m, k)'
    BY <1>7, <2>1 DEF StackAt, Mapped, Covered, BootOK, MapOK, UpOK, TablesIn,
                      vars, mapVars
  <2>3. TypeOK'
    BY <1>7 DEF StackInv, TypeOK, vars, mapVars
  <2>4. QED
    BY <2>2, <2>3 DEF StackInv
<1>8. QED
  BY <1>1, <1>2, <1>3, <1>4, <1>5, <1>6, <1>7 DEF Boot, Sbrk

LEMMA StackHolds == BootFits /\ OnePage => (Spec => []StackInv)
<1> SUFFICES ASSUME BootFits, OnePage PROVE Spec => []StackInv
  OBVIOUS
<1>1. CASE PlaceStarts = {}
  <2>1. ~Init
    BY <1>1 DEF Init
  <2>2. QED
    BY <2>1, PTL DEF Spec
<1>2. CASE PlaceStarts # {}
  <2>1. StackInv /\ [Boot \/ Sbrk]_vars => StackInv'
    BY <1>2, StackStep
  <2>2. QED
    BY <2>1, StackBegins, PTL DEF Spec
<1>3. QED
  BY <1>1, <1>2

(***************************************************************************)
(* paging_init and sbrk map every page to the frame of its number, and the *)
(* bitmap of page_allocator.c marks exactly the frames that pages have.    *)
(***************************************************************************)
THEOREM PagesIdentityMapped ==
    BootFits /\ OnePage => (Spec => []IdentityMapped)
<1>1. StackInv => IdentityMapped
  <2> SUFFICES ASSUME StackInv PROVE IdentityMapped
    OBVIOUS
  <2>1. PICK m \in Nat : Mapped(m)
    BY DEF StackInv, StackAt
  <2>2. TypeOK
    BY DEF StackInv
  <2>3. QED
    BY <2>1, <2>2 DEF IdentityMapped, Mapped, TypeOK
<1>2. QED
  BY <1>1, StackHolds, PTL

(***************************************************************************)
(* What sbrk handed out is mapped, and so is everything below the break.   *)
(***************************************************************************)
THEOREM HeapStaysMapped == BootFits /\ OnePage => (Spec => []HeapMapped)
<1>1. StackInv => HeapMapped
  <2> SUFFICES ASSUME StackInv, phase = "up"
               PROVE  /\ heap \subseteq present
                      /\ \A p \in 0 .. PageOf(mem_lastpage - 1) : p \in present
    BY DEF HeapMapped
  <2>1. PICK m \in Nat, k \in Nat : StackAt(m, k)
    BY DEF StackInv
  <2>2. Mapped(m) /\ UpOK(m, k)
    BY <2>1 DEF StackAt
  <2>3. m # 0 /\ mem_lastpage \in Break(m) /\ heap \subseteq present
    BY <2>2 DEF UpOK
  <2>4. PageSize \in Nat \ {0}
    BY PagingAssumption
  <2>5. /\ m * PageSize \in Nat /\ PageSize <= m * PageSize
        /\ (m - 1) * PageSize = m * PageSize - PageSize
    BY <2>3, <2>4, MulMono
  <2>6. mem_lastpage - 1 \in Nat /\ mem_lastpage - 1 < m * PageSize
    BY <2>3, <2>4, <2>5 DEF Break
  <2>7. PageOf(mem_lastpage - 1) \in Nat /\ PageOf(mem_lastpage - 1) < m
    BY <2>4, <2>6, DivFacts, DivBounds DEF PageOf
  <2>8. present = 0 .. m - 1
    BY <2>2 DEF Mapped
  <2>9. QED
    BY <2>3, <2>7, <2>8
<1>2. QED
  BY <1>1, StackHolds, PTL

(***************************************************************************)
(* From the moment paging is on, every page table lies in mapped memory,   *)
(* those that paging_get_page makes for sbrk included.                     *)
(***************************************************************************)
THEOREM TablesStayMapped == BootFits /\ OnePage => (Spec => []TablesMapped)
<1>1. StackInv => TablesMapped
  <2> SUFFICES ASSUME StackInv, phase \notin {"boot", "map"},
                      NEW t \in Table, tables[t] # 0
               PROVE  PageOf(tables[t]) \in present
    BY DEF TablesMapped
  <2>1. PICK m \in Nat, k \in Nat : StackAt(m, k)
    BY DEF StackInv
  <2>2. Mapped(m) /\ Covered(m, k) /\ UpOK(m, k)
    BY <2>1 DEF StackAt
  <2>3. t < k
    BY <2>2 DEF Covered
  <2>4. PageOf(tables[t]) < m
    BY <2>2, <2>3 DEF UpOK, TablesIn
  <2>5. PageOf(tables[t]) \in Nat
    <3>1. tables[t] \in Nat /\ PageSize \in Nat \ {0}
      BY PagingAssumption DEF StackInv, TypeOK
    <3>2. QED
      BY <3>1, DivFacts DEF PageOf
  <2>6. QED
    BY <2>2, <2>4, <2>5 DEF Mapped
<1>2. QED
  BY <1>1, StackHolds, PTL

(***************************************************************************)
(* The first sbrk moves the break by a byte, every later one by a page:    *)
(* the heap that malloc grows has no holes.                                *)
(***************************************************************************)
THEOREM BreakContiguous == BootFits /\ OnePage => (Spec => SbrkContiguous)
<1>1. ASSUME StackInv, Boot \/ Sbrk, phase = "alloc", phase' = "up"
      PROVE  mem_lastpage' = mem_lastpage +
                 IF mem_lastpage % PageSize = 0 THEN 1 ELSE PageSize
  <2>1. AllocDone
    BY <1>1 DEF Boot, Sbrk, PagingInit, PagingInitMap, MemoryInit, Memallocp,
                AllocPage
  <2>2. QED
    BY <1>1, <2>1, StackReturns
<1>2. StackInv /\ [Boot \/ Sbrk]_vars =>
        [(phase = "alloc" /\ phase' = "up") =>
            mem_lastpage' = mem_lastpage +
                IF mem_lastpage % PageSize = 0 THEN 1 ELSE PageSize]_vars
  BY <1>1
<1>3. QED
  BY <1>2, StackHolds, PTL DEF Spec, SbrkContiguous

(***************************************************************************)
(* mman.c leaves the memory stack alone: with the regions on top of it, it *)
(* takes the steps it takes without them, and what is proved of it holds.  *)
(***************************************************************************)
THEOREM StackUnderRegions == MemSpec => Spec
<1>1. MemInit => Init
  BY DEF MemInit
<1>2. [MemNext]_memVars => [Boot \/ Sbrk]_vars
  BY DEF MemNext, MemmanInit, Regions, Stack, Boot, Memsig, Memresize, Free,
         memVars
<1>3. QED
  BY <1>1, <1>2, PTL DEF MemSpec, Spec

=============================================================================
