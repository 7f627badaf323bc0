------------------------------- MODULE Paging -------------------------------
(***************************************************************************)
(* The memory stack below malloc on x86: the placement allocator           *)
(* (arch/x86/lib/placement_malloc.c), the page tables (paging.c), the      *)
(* bitmap of frames (page_allocator.c) and the page allocation behind sbrk *)
(* (memory.c).                                                             *)
(*                                                                         *)
(* All of it runs in thread context, one call at a time; the loops of      *)
(* paging_init and memory_mult_alloc_pages take one page a step.  The      *)
(* bitmap is a set of frames, a page table the entries it holds.           *)
(* mem_lastpage and the positions of the search are byte addresses, as in  *)
(* the code.  memory_dealloc_pages, which nothing calls, is left out.      *)
(***************************************************************************)
EXTENDS Integers

CONSTANTS
    PageSize,     \* 0x1000
    TableSize,    \* entries of a page table (1024)
    PlaceStarts,  \* where kernel and initrd may end: placement_address at boot
    BitmapSize,   \* bytes of the bitmap
    DirSize,      \* sizeof(page_directory_t)
    FrameAmount,  \* frame_amount; also what the search takes addresses modulo
    Requests      \* page counts that callers of memallocp pass

ASSUME PagingAssumption ==
    /\ PageSize \in Nat \ {0} /\ TableSize \in Nat \ {0}
    /\ PlaceStarts \subseteq Nat \ 0 .. PageSize - 1
    /\ BitmapSize \in Nat /\ DirSize \in Nat \ {0}
    /\ FrameAmount \in Nat \ {0}
    /\ Requests \subseteq 1 .. 32

VARIABLES
    phase,              \* what runs: "boot", "map" (paging_init's loop),
                        \* "mapped", "up" (no call), "alloc"
    i,                  \* the address the running loop started from, or is at
    pages,              \* the argument of the running call
    n,                  \* the rounds its loop has made
    placement_address,
    tables,             \* table index -> address of the page table; 0: none
    entry,              \* page -> frame its entry holds; 0 also means none
    present,            \* pages whose entry is present
    frame,              \* frames the bitmap marks as used
    mem_lastpage,
    halted,             \* memallocp found no page
    heap                \* history: the pages callers of memallocp believe in

mapVars == <<placement_address, tables, entry, present, frame>>
vars == <<phase, i, pages, n, mapVars, mem_lastpage, halted, heap>>

Frame == 0 .. FrameAmount - 1
Page == Frame
Table == {p \div TableSize : p \in Page}
PageOf(address) == address \div PageSize

TypeOK ==
    /\ phase \in {"boot", "map", "mapped", "up", "alloc"}
    /\ i \in Nat /\ pages \in Nat /\ n \in 0 .. pages
    /\ placement_address \in Nat
    /\ tables \in [Table -> Nat]
    /\ entry \in [Page -> Frame]
    /\ present \subseteq Page /\ frame \subseteq Frame
    /\ mem_lastpage \in 0 .. FrameAmount
    /\ halted \in BOOLEAN
    /\ heap \subseteq Page

Init ==
    /\ phase = "boot" /\ i = 0 /\ pages = 0 /\ n = 0
    /\ placement_address \in PlaceStarts
    /\ tables = [t \in Table |-> 0]
    /\ entry = [p \in Page |-> 0] /\ present = {} /\ frame = {}
    /\ mem_lastpage = 0 /\ halted = FALSE /\ heap = {}

-----------------------------------------------------------------------------
(* The helpers, on a record of the mapping state.                          *)

Mapping == [place |-> placement_address, tables |-> tables, entry |-> entry,
            present |-> present, frame |-> frame]

Becomes(m) ==
    /\ placement_address' = m.place /\ tables' = m.tables /\ entry' = m.entry
    /\ present' = m.present /\ frame' = m.frame

\* placement_kmalloc_ap(sz, 1, ...): the address it returns.  An address that
\* is page aligned already is moved up a page all the same.
Aligned(address) ==
    IF PageOf(address) # 0 THEN (PageOf(address) + 1) * PageSize ELSE address

\* paging_get_page(address, 1, kernel_directory): the table is made if need be.
GetPage(m, p) ==
    LET t == p \div TableSize
    IN IF m.tables[t] # 0 THEN m
       ELSE [m EXCEPT !.tables[t] = Aligned(m.place),
                      !.place = Aligned(m.place) + PageSize]

\* Fault: the search for a frame leaves out frame 0.
SecondFrame(m) ==
    CHOOSE f \in Frame \ (m.frame \cup {0}) :
        \A g \in Frame \ (m.frame \cup {0}) : f <= g

\* pa_first_frame.  There are more frames in the bitmap than pages in the
\* address range of the search, so one is always free.
FirstFrame(m) ==
    CHOOSE f \in Frame \ m.frame : \A g \in Frame \ m.frame : f <= g

\* pa_alloc_frame: a page that has a frame other than 0 keeps it.
AllocFrame(m, p) ==
    IF m.entry[p] # 0 THEN m
    ELSE [m EXCEPT !.frame = @ \cup {FirstFrame(m)},
                   !.present = @ \cup {p},
                   !.entry[p] = FirstFrame(m)]

MapPage(address) ==
    Becomes(AllocFrame(GetPage(Mapping, PageOf(address)), PageOf(address)))

-----------------------------------------------------------------------------
(* Boot.                                                                   *)

\* init_page_allocator and the page directory.
PagingInit ==
    /\ phase = "boot"
    /\ phase' = "map"
    /\ placement_address' = Aligned(placement_address + BitmapSize) + DirSize
    /\ UNCHANGED <<i, pages, n, tables, entry, present, frame, mem_lastpage,
                   halted, heap>>

\* Fault: the loop ends at the directory, not at what was placed after it.
MapsThisShort ==
    i < IF tables[0] = 0 THEN placement_address ELSE tables[0] - PageSize

\* The loop's test follows placement_address, which moves in the loop.
MapsThis == i < placement_address + PageSize

\* paging_init's loop and the switch to the directory.
PagingInitMap ==
    /\ phase = "map"
    /\ \/ /\ MapsThis
          /\ MapPage(i)
          /\ i' = i + PageSize /\ UNCHANGED phase
       \/ /\ ~MapsThis
          /\ phase' = "mapped" /\ i' = 0 /\ UNCHANGED mapVars
    /\ UNCHANGED <<pages, n, mem_lastpage, halted, heap>>

\* Fault: the break is put behind the first free frame.
MemoryInitBehind ==
    /\ phase = "mapped"
    /\ phase' = "up"
    /\ mem_lastpage' = (FirstFrame(Mapping) + 1) * PageSize
    /\ UNCHANGED <<i, pages, n, mapVars, halted, heap>>

MemoryInit ==
    /\ phase = "mapped"
    /\ phase' = "up"
    /\ mem_lastpage' = FirstFrame(Mapping) * PageSize
    /\ UNCHANGED <<i, pages, n, mapVars, halted, heap>>

-----------------------------------------------------------------------------
(* memallocp, called by sbrk, and memory_mult_alloc_pages.                 *)

Position(k) == (k + mem_lastpage) % FrameAmount

\* frame_amount, a quarter of mem_end, is never below mem_pagefree.
\* The macro INDEX_FROM_BIT(pos + j) expands to pos + j / 0x20, so that for up
\* to 32 pages every round of the inner loop tests the frame of pos.
Fits(k, count) ==
    /\ Position(k) + count <= FrameAmount
    /\ PageOf(Position(k)) \notin frame

\* The search takes the first position that fits; without one the machine is
\* halted.
Memallocp(count) ==
    /\ phase = "up" /\ ~halted
    /\ LET found == {k \in 0 .. FrameAmount - 1 : Fits(k, count)}
       IN \/ /\ found = {}
             /\ halted' = TRUE
             /\ UNCHANGED <<phase, i, pages>>
          \/ /\ found # {}
             /\ i' = Position(CHOOSE k \in found : \A l \in found : k <= l)
             /\ phase' = "alloc" /\ pages' = count
             /\ UNCHANGED halted
    /\ UNCHANGED <<n, mapVars, mem_lastpage, heap>>

\* The n-th round maps the page of the byte address block + n.
AllocPage ==
    /\ phase = "alloc" /\ n < pages
    /\ MapPage(i + n)
    /\ heap' = heap \cup {PageOf(i) + n}
    /\ n' = n + 1
    /\ UNCHANGED <<phase, i, pages, mem_lastpage, halted>>

CallReturns == phase' = "up" /\ i' = 0 /\ pages' = 0 /\ n' = 0

\* Fault: the break is set to the end of the last page.
AllocDonePages ==
    /\ phase = "alloc" /\ n = pages
    /\ mem_lastpage' = i + pages * PageSize
    /\ CallReturns
    /\ UNCHANGED <<mapVars, halted, heap>>

\* mem_lastpage = block + pages.  The address 0 is taken for a failure.
AllocDone ==
    /\ phase = "alloc" /\ n = pages
    /\ mem_lastpage' = i + pages
    /\ halted' = (i = 0)
    /\ CallReturns
    /\ UNCHANGED <<mapVars, heap>>

-----------------------------------------------------------------------------
Boot == PagingInit \/ PagingInitMap \/ MemoryInit

Sbrk == (\E count \in Requests : Memallocp(count)) \/ AllocPage \/ AllocDone

Spec == Init /\ [][Boot \/ Sbrk]_vars

-----------------------------------------------------------------------------
(* Properties.                                                             *)

(***************************************************************************)
(* paging_init and sbrk map every page to the frame of the same number,    *)
(* although pa_alloc_frame takes whatever frame is first: the kernel uses  *)
(* the addresses of page tables and buffers as physical and as virtual     *)
(* ones.  And the bitmap marks exactly the frames in use.                  *)
(***************************************************************************)
IdentityMapped ==
    /\ TypeOK
    /\ \A p \in present : entry[p] = p
    /\ frame = present

(***************************************************************************)
(* What sbrk handed out is mapped, and so is all memory below the break,   *)
(* where malloc puts its blocks.                                           *)
(***************************************************************************)
HeapMapped ==
    phase = "up" => /\ heap \subseteq present
                    /\ \A p \in 0 .. PageOf(mem_lastpage - 1) : p \in present

(***************************************************************************)
(* Once paging is on, every page table lies in mapped memory.              *)
(***************************************************************************)
TablesMapped ==
    phase \notin {"boot", "map"} =>
        \A t \in Table : tables[t] # 0 => PageOf(tables[t]) \in present

(***************************************************************************)
(* malloc's view of sbrk(PAGE_SIZE): the first call moves the break by one *)
(* byte, every other call by one page, so that the heap has no holes.      *)
(***************************************************************************)
SbrkContiguous ==
    [][(phase = "alloc" /\ phase' = "up") =>
          mem_lastpage' = mem_lastpage +
              IF mem_lastpage % PageSize = 0 THEN 1 ELSE PageSize]_vars

(***************************************************************************)
(* "Allocates amount bytes": what sbrk handed out is not used for anything *)
(* else, a page table in particular.                                       *)
(***************************************************************************)
TablesApart ==
    \A t \in Table : tables[t] # 0 => PageOf(tables[t]) \notin heap

=============================================================================
