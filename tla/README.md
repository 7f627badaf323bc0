# Beryllium2: TLA+ specifications

Beryllium2 is a small kernel for x86 and ARM, written in C. This directory holds
TLA+ specifications of it: the kernel timers and the watchdog, the heap, the x86
memory stack and its regions, interrupts and the scheduler, the keyboard driver, the
text console, the list and tree library with the device manager on it, the virtual
file system with the file systems below it, and the string, formatting and array
routines. TLC checks them on small instances; TLAPS proves their safety properties for
every instance.

Paths below are relative to `src/kernel/`.

## The system

The kernel is one program on one processor. After boot two kinds of code run:
*thread-level code* (`kmain` and everything it calls) with interrupts on, and
*interrupt handlers*, entered through interrupt gates, which run to their end with
interrupts off. Nothing starts the scheduler, and its switch of threads is commented
out, so all concurrency is between one thread and the handlers. The mutexes of `lib/lock.c` exclude nobody (see below), and no
model treats them as exclusion.

| Part | State | Operations | Talks to |
|---|---|---|---|
| Timers: `timer.c`, `timing.c`, `arch/x86/drivers/pit.c` | `timer_hi`, `timer_low`, `device`, `handlers[0xFF]` | register, deregister, remove; tick: count, scan, call, reschedule; reap | called by the tick interrupt, calls registered handlers |
| Watchdog: `wd.c`, `init/kmain.c` | two counters and their copies, `wd_enabled` | notify, enable, disable, evaluate, panic | a periodic timer; notified by `kmain` |
| Heap: `malloc.c` | list of headers, `alloc_end` | `malloc`, `calloc`, `realloc`, `free` | `sbrk` |
| Memory stack: `arch/x86/{memory,paging,page_allocator}.c`, `lib/placement_malloc.c` | `placement_address`, page tables, frame bitmap, `mem_lastpage` | boot mapping, page allocation, `sbrk` | below the heap |
| Regions: `arch/x86/mman.c` | list of regions, status, static pool | `memman_init`, `memsig`, `memresize`, `get_kernel_heap` | started by `memory_init` |
| Keyboard: `arch/x86/drivers/keyboard.c` | `buffer`, `buffer_i`, modifier flags | IRQ1 handler, `kb_read`, `kb_start`, `kb_stop` | `irq_handler`, `device_start`, `device_stop` |
| Interrupts: `arch/x86/low/{idt,isr,irq}.c`, `arch/x86/x86-early.c` | gates, handlers, the state of the two controllers | boot in order; deliver, call the handler, acknowledge; exceptions | calls the handlers of PIT and keyboard |
| Scheduler: `scheduler.c`, `thread.c` | queue of threads, `tcurrent`, `scheduler_state` | init, add a thread, update | a periodic timer |
| Console: `terminal.c`, `video.c`, `arch/x86/drivers/textmode.c`, `klog.c`, `error.c` | cells of the screen, cursor, attribute | print, scroll, set colours; log, panic, halt | everybody; the watchdog from the tick |
| Strings and formats: `lib/string.c`, `printf.c` | the memory they are given | copy, fill, split, format | everybody |
| Ordered array: `arch/x86/lib/ordered_array.c` | cells, size | insert, remove | nobody yet |
| Lists and trees: `lib/list.c`, `lib/tree.c` | head, tail, length, links; parents, children, count | insert, delete, pop, ...; insert child, remove branch | under the VFS, the device tree, the path canonicalizer |
| Device manager: `device.c` | device tree, status of each device | search by name and by address, insert, remove, `device_start`, `device_stop` | the tree below; drivers |
| VFS: `vfs.c` | tree of mount points, `vfs_root_node` | `vfs_mount`, `kopen`, `create_file_vfs` | mounted file systems |
| File systems: `fs/` | nodes of devices, sysfs and the ramdisk | create, mount, find, list, write | under the VFS |

What is hard in this code:

* the tick scans the timer table between any two stores of a registration, and the
  reaper changes the table in the middle of that scan;
* time: tick counters wrap, and are compared as signed numbers;
* the watchdog depends on the table that the code it watches writes to;
* the heap must survive any order of splits and merges, and the end of memory;
* addresses, page numbers and frame numbers are mixed, and the mapping must be the
  identity although frames are taken first-free;
* the panic of the watchdog is printed by the code, and over the state, that it has
  just interrupted;
* an interrupt that one of two controllers is not told the end of shuts out others;
* the queue of threads is extended under the tick that walks it;
* a key may arrive at any point of `kb_read` and `kb_start`;
* pointer surgery on lists, with trees and counters built on it;
* two different readings of a path (`vfs_mount` and `kopen`) have to agree;
* parsers that read ahead, overlapping copies, the smallest negative number.

`PROJECT.json` lists these hazards line by line, with the properties that cover them,
every component with its status, the lines each definition models, and a mutant for
each property: a plausible bug that makes TLC report a violation.

## Modules

| Module | Models | Uses |
|---|---|---|
| `Timing` | timers | |
| `Watchdog` | `wd.c` and `kmain` | extends `Timing` |
| `Malloc` | the heap | |
| `Paging` | the memory stack | |
| `Mman` | the regions, started together with the stack | extends `Paging` |
| `KeyQueue` | what the keyboard promises: a bounded queue | |
| `Keyboard` | the driver | refines `KeyQueue` |
| `ListSeqs` | what the lists promise: sequences | |
| `LinkedList` | the operations of `list.c`, as operators | refines `ListSeqs` |
| `Tree` | `tree.c` and a list used as stack and queue | extends `LinkedList` |
| `Devices` | the device manager, with `tree_find` | extends `Tree` |
| `Vfs` | mounts, canonical paths, `kopen` | |
| `FileSystems` | `fs/`, mounted in the VFS | extends `Vfs` |
| `Interrupts` | boot, gates, handlers, acknowledgement; the controllers | |
| `Scheduler` | the queue of threads under the timer interrupt | extends `Interrupts` |
| `Console` | `klog` and `panic` down to the text mode driver | |
| `Strings`, `Printf`, `OrderedArray` | the library routines | together in `MCLibrary` |
| `MC*` | small instances for TLC | |
| `TimingProofs` | theorems about `Timing` and `Watchdog` | |
| `MallocProofs` | theorems about `Malloc` | |
| `MemoryProofs` | theorems about `Paging` and `Mman` | |
| `DriverProofs` | theorems about `Keyboard`, `KeyQueue` and `Console` | |
| `SchedulerProofs` | theorems about `Interrupts` and `Scheduler` | |
| `DeviceProofs` | theorems about `LinkedList`, `Tree` and `Devices` | |
| `VfsProofs` | theorems about `Vfs` and `FileSystems` | |
| `LibraryProofs` | theorems about `OrderedArray`, `Printf` and `Strings` | |

An action is one operation where the code runs undisturbed, and one memory access or
loop round where it does not. Definitions named after a fault ("Fault: ..." in the
comment) are the mutants; no specification uses them.

### Timing

`handlers` is the table. A registration is a scan (one slot a step), the computation
of `builder.fire_tick` and then the struct copy `handlers[index] = builder`, which is a
set of single-field stores in any order (`todo`), because nothing orders them in the
code. `timing_deregister_timer` clears three fields in the same way. The fields `name`
and `no` are left out. The tick interrupt (`irq`) counts, then visits one slot a step
(`t_i`); no thread step happens while it runs. A handler that is called may leave the
table alone, disarm its own timer or deregister itself; the reaper clears what it takes
for expired. `fired` is a history variable.

### Watchdog

`kmain` calls `timing_init` and `wd_init` and then loops over `wd_notify`; it may hang
at any time, and it may call `wd_enable` and `wd_disable`. `wd_evaluate` is the effect
of the watchdog's timer. `silent`, `muted`, `heard`, `iterations` and `hungAt` are
history variables.

### Malloc

`meta` maps addresses to headers, with two sentinels. Only headers are modelled, not
the bytes of blocks. One call runs at a time; the first-fit walk and the growth loop
are steps, so that their termination can be asked about. `user` (what callers hold) and
`blocks` (which headers are in the list) are history variables. `SbrkStep` is what
`Paging` shows of `sbrk`: the first call moves the break by one byte on x86, every
other call by a page (property `SbrkContiguous`).

### Paging and Mman

`Paging` goes from boot, with the kernel or the boot module ending at any of
`PlaceStarts`, through `paging_init` to `sbrk`. Positions of the search in
`memory_mult_alloc_pages` and `mem_lastpage` are byte addresses, as in the code, where
they are taken modulo the number of frames. The bitmap is a set and a table the entries
it holds. `Mman` adds the regions. `memory_init` sets the break and calls
`memman_init` in the same step. Callers of `memsig` are assumed to signal memory that
nobody has signalled, since `memsig` itself compares nothing.

### Keyboard

`kb_handler` is an action per class of scancodes. `kb_read` is a test with interrupts
on and a take with interrupts off; the last round of its shift reads the byte behind
the array, which is `PastEnd`. `kb_start` installs the handler and then clears cell by
cell, and `buffer_i` keeps its value. `wiped` is a history variable: a restart has cleared
a cell that counted as filled. Until then the driver implements `KeyQueue`, a plain bounded
queue; from then on it may hang (run `keyboard_restart`), and only `NoUnderflow` is
claimed. Left shift is the only modifier the code tracks; `kb_caps` is never set.

### LinkedList, Tree

The lists are one record with `head`, `tail`, `length`, `next` and `prev`; an operator
per function of `list.c` takes and returns it. A tree node is the value of one list
node, so both are one element. Nodes are not reused after being freed, and only nodes
with a parent are removed.

### Devices

`value` is what a tree node points to, `status` the field of a device. The history
variable `under` records what was inserted below what, for the properties to compare
with. Nothing in the code makes the names of devices differ, and the model does not
assume it: a search by name, and so the search for the parent in an insertion, takes the
first device that has the name. `tree_node_find` is a filter over the nodes in the order of its visit.
The three static devices are inserted in one step each, with nothing in between. A
start function may fail; a stop function fails for the PIT, as `pit_stop` always does,
and leaves it online.
A parent that is not in the tree is an insertion without effect. The call of
`device_manager_start` in `kmain` is commented out; `device_start` works without it, as
it does in the model.

### Vfs

A path is its sequence of pieces between separators, `""` for an empty piece. The mount
tree is a function from paths to what is mounted. Contents of file systems are a
constant. A copy from the null pointer (a `kopen` below a root without file system)
yields `Junk`. Each call leaves its result in `last`.

### FileSystems

A node is what the VFS looks at: its `type` and the operations it has. Each `*_create`
function is a constant of that kind. `InitVfsDevices` makes the four mounts of
`fs/device_man.c` in their order; `MountOther` makes the two that are commented out there. No directory of the kernel sets
the `type` that `finddir_vfs` and `readdir_vfs` test, so that the set of directories the
VFS searches (`KernelDirs`) comes out empty, and the searches of sysfs and of the ramdisk
never run; searches below a mount are exercised by the directories of `MCVfs`. The call of `init_vfs_devices` in `kmain` is commented out; the model has it.

### Interrupts and Scheduler

`Interrupts` starts with `x86_early`: each init is a step, with interrupts off until
`sti`. The controllers are external hardware (fixed priorities, the slave behind line 2,
requests that vanish and come in as line 7 or 15). `irq_handler` is three steps: the
handler, the end of interrupt to the slave, the one to the master. An exception ends in
`halted`, as `fault_handler` does. `Raise` lets a line come again only after all that
waited were taken: handling them takes less time than passes between two requests of
one device. `Scheduler` adds the queue: `scheduler_add_thread` is two steps, its store
to `next` and its store to `scheduler_state`, and the tick may come before, between and
after them. One tick stands for one period of the scheduler's timer.

### Console

`PrintcStep` is `printc`, a store at a time, with the loops of `textmode_scroll` cell by
cell. A thread takes one step at a time; the watchdog, at any moment, runs the same
steps to their end from the handler (`WatchdogPanic`, then one action for each item it
prints). The attribute byte is "default" or "title". Cells behind the last row are
modelled, because the driver can be sent there. The screen is taken to be blank at the
start; x86 does not clear what the boot loader left on it, which scrolls away or is
overwritten like any other text.

### Strings, Printf, OrderedArray

`Strings` works on a memory of bytes: every copying or filling call with every choice of
addresses and length, and the loop of `canonicalize_path` around `strdup` and
`strtok_r`. A step of `Printf` is a round of `do_printf`, in the states of the code;
arguments are chosen when a conversion takes them. The bytes behind the NUL of the
format are part of the model. `OrderedArray` has the cell behind the allocation.

## Runs

| Run | Shows |
|---|---|
| `timing` | `NullCallOnlyInDeregister`: a torn registration never makes the tick call a null pointer; the only window is that of a deregistration. `NoTimerLost`: no timer that may still fire is dropped, by the reaper in particular. `ExpiredSlotFreedInTime`: expired timers do not fill the table. |
| `watchdog` | `HangupsExplained`: hang-ups are periods without a round of `kmain` or with all rounds made while disabled. `PanicInTime`, `HungKmainPanics`: a hung `kmain` is ended by a panic, in bounded time and eventually. |
| `malloc` | `HeapTiled`: the list of headers covers the heap without gaps or overlaps, and every block is in it; `AllocationsDisjoint`, `FullyCoalesced`, and `CallsReturn`: every call returns or stops the machine. |
| `drivers` | of the keyboard, `NoUnderflow`: `buffer_i` stays within the buffer through any restarts, although `kb_start` does not reset it; and, until a restart clears a key that waits, `ImplementsKeyQueue` and `NothingOnlyWhenEmpty`: the driver is a bounded queue, and "no key" is answered only when there is none. Of the console, `PrintcRenders`: undisturbed, each character does to screen and cursor what a reference definition says; `PanicReadable`: when a panic interrupts a print at any store, its lines are still on the screen when the machine halts, and the warning before them in consecutive cells, all but its first character. |
| `keyboard_f2` | violation: a key without a character wedges the buffer. |
| `keyboard_restart` | violation: restarting the driver while a key waits wedges the buffer. |
| `memory` | `IdentityMapped`, `HeapMapped`, `TablesMapped`, `SbrkContiguous`; `RegionsApart`: regions never overlap and the kernel heap stays known. |
| `paging_tables` | violation: a page table made after boot lands in the heap. |
| `devices` | of the lists and the tree, `WellLinked`, `ImplementsSequences`, `NodesCounted`; of the devices, `DevicesFound`: both searches agree with what was inserted and removed, also when two devices share a name. |
| `vfs` | `KopenResolves` against an independent definition of what a path means, and `MountLocal`; with the kernel's file systems, `DevicesReachable`: no mount hides a device. |
| `library` | `CopiesWhole`: copies deliver what the source held, for every overlap `memmove` allows; `TokensAreWords`; `FieldsReadBack`: printed fields have the value, width and sign of their arguments; `ScanEndsAtNul`: which formats are read past their end; `ArraySorted`. |
| `scheduler` | `Acknowledged` and `LinesServed`: no line stays in service, spurious requests included, and every request is taken in the end; `QueueComplete`: no tick finds the queue broken; `EveryThreadScheduled`: round robin. |

The type invariants of the modules are conjuncts of `HeapTiled`, `NoUnderflow`,
`IdentityMapped`, `RegionsApart`, `NodesCounted`, `DevicesFound`, `KopenResolves` and
`HangupsExplained`; the run `timing` has its own, because it is proved.

Deadlock is not checked: every model has states in which the machine is halted or a
bound on time, memory or starts is reached.

### Bounds

* `timing`: three slots (the reaper, and two so that the table can fill and the scan
  can be before, at and behind a slot), eight ticks with a reaper period of three
  (more than two of its runs), one tick between the stores of a registration
  (`MaxStall`). Delays are longer than `MaxStall`: with 5 ms the shortest in the tree, a
  registration is not interrupted that long. The two handlers are symmetric.
* `watchdog`: limits of 2 and 5 instead of 200 and 0x500, 16 ticks: enough for a hung
  `kmain` to reach the limit, after hang-ups that were made good.
* `malloc`: a heap of 17 bytes behind a header of 2 bytes, in which requests of 1 and 6
  bytes (and two calls of `calloc`) give blocks that can and cannot be split; growth
  happens and fails.
* `drivers`: in one setup a keyboard with a buffer of four cells, two keys with and
  without shift, and three starts; in the other a console of 4 by 5 cells, tabs of 2 and
  three calls: enough for every message to wrap and scroll and for the panic to find any
  part of the screen half moved.
* `keyboard_f2`, `keyboard_restart`: the same keyboard, once with a key that has no
  character, once with two starts.
* `memory`: 64 frames of which a page is four bytes, tables of eight entries, six
  places where the kernel may end, among them aligned and unaligned ones; four regions.
* `devices`: four devices, two of them with the same name, of which three can be removed
  and one can be removed and inserted again, and two nodes of the path stack: the first,
  middle, last and only node of a list, and trees of depth four.
* `vfs`: in one setup two names, eight ways to write a path for each of mount and open,
  two file systems; in the other the nodes and mounts of the kernel, ten paths, and one
  byte to the serial port.
* `library`: 12 bytes of memory and dwords of four: a copy has whole dwords and rests.
  Texts of up to five characters hold up to three words; formats of up to five
  characters (after a `%`) combine every flag, width and conversion. Words have 8 bits,
  and the numbers passed include the smallest, the largest and those of both signs next
  to zero. Five cells of the array.
* `scheduler`: lines of both controllers, the timer and the keyboard among them, both
  spurious lines, an exception with and without a handler, three threads.

### Fairness

* `Malloc`: weak fairness of a call that was entered. It runs on the only processor and
  every handler returns.
* `Watchdog`: weak fairness of the tick interrupt (the hardware ticks; a handler
  returns) and of `kmain`'s start-up. Nothing is assumed of `kmain`'s loop.
* `Scheduler`: weak fairness of the processor (boot and handlers, which have no loop that
  waits), of taking an interrupt that is allowed, and of the ticks of the PIT. Nothing is
  assumed of the threads or of other devices.

All other properties are safety properties.

## Proofs

The theorems hold for every value of the constants that satisfies the `ASSUME`s of the
modules, which TLC evaluates on every run, and the hypotheses named in the table.

| Module | Theorem | Statement |
|---|---|---|
| `TimingProofs` | `TypeCorrect` | `Spec => []TypeOK` |
| | `NullCallsExplained` | `Spec => []NullCallOnlyInDeregister` |
| | `TimersKept` | `BoundedTime => (Spec => NoTimerLost)` |
| | `ExpiredSlotsFreed` | `BoundedTime => (Spec => []ExpiredSlotFreedInTime)` |
| | `WatchdogUsesTiming` | `WdSpec => Spec` |
| | `HangupsAreExplained` | `WdSpec => []HangupsExplained` |
| | `HangNoticedInTime` | `BoundedTime /\ RoomForTwo => (WdSpec => []PanicInTime)` |
| `MallocProofs` | `HeapStaysTiled` | `SaneRequests => (Spec => []HeapTiled)` |
| | `AllocationsStayDisjoint` | `SaneRequests => (Spec => []AllocationsDisjoint)` |
| | `FreeBlocksMerged` | `SaneRequests => (Spec => []FullyCoalesced)` |
| `MemoryProofs` | `RegionsStayApart` | `SaneSizes => (MemSpec => []RegionsApart)` |
| | `PagesIdentityMapped` | `BootFits /\ OnePage => (Spec => []IdentityMapped)` |
| | `HeapStaysMapped` | `BootFits /\ OnePage => (Spec => []HeapMapped)` |
| | `TablesStayMapped` | `BootFits /\ OnePage => (Spec => []TablesMapped)` |
| | `BreakContiguous` | `BootFits /\ OnePage => (Spec => SbrkContiguous)` |
| | `StackUnderRegions` | `MemSpec => Spec` |
| `DriverProofs` | `NeverUnderflows` | `Padded => (Spec => []NoUnderflow)` |
| | `NothingMeansEmpty` | `Padded /\ Translated => (Spec => []NothingOnlyWhenEmpty)` |
| | `QueueImplemented` | `Padded /\ Translated => (Spec => ImplementsKeyQueue)` |
| | `PrintcIsTerminal` | `ConSpec => []PrintcRenders` |
| | `PanicStaysReadable` | `PanicFits => (ConSpec => []PanicReadable)` |
| `SchedulerProofs` | `LinesAcknowledged` | `Spec => []Acknowledged` |
| | `QueueStaysComplete` | `Spec => []QueueComplete` |
| `DeviceProofs` | `ManagerUsesTree` | `DevSpec => Spec` |
| | `ListsStayLinked` | `DevSpec => []WellLinked` |
| | `ListsAreSequences` | `DevSpec => ImplementsSequences` |
| | `TreeCountsNodes` | `DevSpec => []NodesCounted` |
| | `SearchFindsDevices` | `DevSpec => []DevicesFound` |
| `VfsProofs` | `KopenResolvesPaths` | `Spec => []KopenResolves` |
| | `MountsAreLocal` | `Spec => MountLocal` |
| | `DevicesStayReachable` | `FsSpec => []DevicesReachable` |
| `LibraryProofs` | `ArrayStaysSorted` | `OaSpec => []ArraySorted` |
| | `ScanStops` | `PfSpec => []ScanEndsAtNul` |
| | `PrintfReadsBack` | `Trimmed => (PfSpec => []FieldsReadBack)` |
| | `CopiesAreWhole` | `StrSpec => CopiesWhole` |
| | `StrtokSplits` | `StrSpec => []TokensAreWords` |

`WatchdogUsesTiming`, `StackUnderRegions` and `ManagerUsesTree` say that a composition
takes only steps of the component below it; through them what is proved of the
component holds of the composition.

### Hypotheses

Each is satisfied by the constants of the passing run that checks the property, and each
excludes calls that the code gets wrong or a machine too small to boot.

* `BoundedTime`: ticks and delays stay below half of the word (2^31 ticks). Beyond, the
  signed comparison of `timing_reaper` drops live timers.
* `RoomForTwo`: the table has two slots; it has 255.
* `SaneRequests`: no size is 0 and no size wraps when it is rounded up and a header is
  added. `realloc(p, 0)` frees twice, and `malloc` does not test for overflow. No call
  in the tree does either.
* `SaneSizes`: `memresize` is not given 0 and no start and size wrap (`mman.c:97`, `111`).
* `OnePage`: `sbrk` asks for one page at a time. For more `memory.c:81` maps only one.
* `BootFits`: for some number of page tables, these suffice to map the kernel, the
  bitmap, the directory and themselves, and all of it ends below `frame_amount`, in the
  units of the search. With the default `mem_end`, `frame_amount` is 63 M and the bitmap
  1.9 MB; one table is enough if kernel and initrd end below 2 MB, and more tables if
  they are larger.
* `Padded`: the byte behind the 255 of `buffer`, which the shift of `kb_read` reads, is
  0, as the padding behind it in the zeroed data is. `Translated`: no key stands for
  character 0; the run `keyboard_f2` shows what happens otherwise.
* `Trimmed`: no string passed for a `%s` begins or ends with a blank. With such a string
  nobody could tell what is printed from its padding; numbers have no such restriction.
* `PanicFits`: the warning of the watchdog and the lines of `panic` and `halt` hold
  printable characters, end with a newline and fit into a row each; the screen has five
  rows and the mask lets `LOG_INFO` through. In the tree they take less than 60 of 80
  columns, the screen has 25 rows and the mask is `LOG_DEBUG`. What a thread prints is
  not restricted.

### Inductive invariants

`ArraySorted` is inductive together with its type. For the others:

* **Timers.** `NullCallOnlyInDeregister` needs `HandlerInv`. `RequestOK`: a registration
  carries a handler, and the tick it will store stays ahead of `timer_hi` by what is
  left of its delay. `ClaimOK`: its slot is free until it stores `fire_tick`. `ArmedOK`:
  an armed slot without a handler is half stored or half cleared. A half-stored slot is
  not due, because its tick is ahead; so a null call can only meet a half-cleared one.
  `NoTimerLost` needs `TimeInv`. `AheadOK`: a timer that is periodic or was not called
  yet is not behind the clock, and strictly ahead once the scan has passed it.
  `StoredOK` carries this through the stores of a registration. The reaper takes only
  what is behind, so it takes nothing that is live. `ExpiredSlotFreedInTime` needs
  `ReaperInv`: either the reaper is still being registered and is alone in the table,
  or it is armed in slot 0, at most one period ahead, and no slot is older than its
  last run.
* **Watchdog.** `HangupsExplained` needs `RunningOK`: while the machine runs, `wd_kmain` has
  not come round to the copy that `wd_evaluate` keeps, so that it is unchanged only if no
  round was counted. `PanicInTime` adds `WatchInv` to the
  invariants of the timers: the reaper has slot 0 and the watchdog slot 1, nobody has
  the others, the watchdog's timer is at most a period ahead (`WdArmed`), and after a
  hang its tick is bounded by the hang-ups counted so far (`HungOK`). This is where the
  theorems about the table pay: the reaper cannot take the watchdog's slot.
* **Heap.** `HeapInv`. `ListOK` says that following `next` from the first sentinel
  meets the blocks in the order of their addresses, each ending where the next begins,
  the last at `End`, and `prev` the way back. `UserOK` and `BusyOK`: live allocations
  and busy blocks correspond. `CallOK`: what the running call holds (a position in the
  list, the block `realloc` copies to) stays valid between its steps. `BreakOK`: the end
  of the list is not above the break. One lemma for each pointer operation (append,
  split, merge) says what it makes of a list that satisfies `ListOK`.
* **Memory stack.** `StackInv`: for some `m` and `k` exactly the first `m` pages are
  mapped, each to its own frame, and exactly the first `k` tables exist, and where the
  placement allocator, the loop and the break stand in relation to them. The frame that
  `pa_first_frame` returns is then the number of the page that asks for it; this is why
  first-free allocation gives the identity. During boot the distance between loop and
  `placement_address` is bounded by the tables still to come, which is where `BootFits`
  enters. `RegionInv`: regions are real, apart, and the second is the kernel heap.
* **Keyboard.** `BufferInv`: behind `buffer_i` all cells are 0 (`RestClear`), so that
  the shift brings in nothing, and between its test and its `cli` `kb_read` finds the
  first cell filled (`TakeReady`). Until a restart clears a counted cell all cells in front
  are filled (`Filled`), which is why a 0 in the first one means that there is none. The
  refinement maps the cells below `buffer_i` to the queue.
* **Interrupts and scheduler.** `BootOK`: what is set up at which step of the boot.
  `ServiceOK`: which lines can be in service at each step of `irq_handler`; at most one
  of each controller, so that the unspecific end of interrupt takes the right one.
  `QueueInv`: thread `t` links to `t + 1` and the last to nothing (`LinkedInOrder`), the queue
  starts with thread 0 and the current thread is in it (`StartedOK`), and turns follow the
  links (`TurnsOK`). The walk through the queue
  is a `CHOOSE` of a sequence, of which it is shown that it exists and is unique.
* **Lists and devices.** `ListInv`: each list holds a sequence, in its pointers, its
  back pointers and its length, and no node is in two of them; children lists hold tree
  nodes, the stack its own elements. `PutKeeps` and `TakeKeeps` say what the pointer
  stores of an insertion and a deletion make of the sequences; every operation of
  `list.c` is one of the two at a place. `WalkAlong` says that the recursive walk of the
  properties yields the sequence.
  `NodesCounted` needs `TreeInv` on top: the nodes not freed are those with a depth, one
  more than that of their parent (`Shape`), the children in a list are exactly the nodes
  with that parent (`KidsOK`), a node not allocated yet has neither (`FreshOK`), and
  `nodes` is their number. A removal takes a branch out, of which it is shown that it is
  closed under children and that the count of the walk over it is its size.
  `DevicesFound` needs `DevInv`: no device is at two nodes, and what the manager inserted
  under what is what the parents of the nodes say (`ValuesOK`); what it has still to
  insert is not in the tree (`PendingOK`).
* **VFS.** `VfsInv`. `TreeOK`: every entry's prefix is an entry, and an entry holds a
  node of a file system or nothing. `RootOK`: `vfs_root_node` is what the root entry
  holds. The loop of `get_mount_point` is shown to know after `k` rounds the deepest mount
  among the first `k` entries (`After`), and the canonical path to be the written one
  with each `..` and the name before it taken out. `FsInv` adds that the devices mounted
  so far are the nodes at their mount points (`DevicesPlaced`).
* **Library.** `ScanInv`: a scan is behind the NUL of its format only if the format
  is unfinished, and after a `-` it knows the character before. `OutInv`: `count` is the length of what was
  put out, and the last field is a `Layout` of blanks, sign, zeros, body and blanks whose
  padding fills the width on one side (`FieldOK`). That its digits read back is a lemma
  on the division loop (`Divides`, `ReadsAs`): the digits taken so far and the quotient
  that is left give the number. `CopyInv`: a copy starts from known memory; the two loops
  of a copy, dwords and rests, are shown to move each byte once and not to read what
  they wrote. `SplitInv`: behind the save pointer the copy holds the rest of the text,
  and the words returned are those of the text before it.
* **Console.** `PrintcInv`: the console at each place of a `printc` is a function of the
  console it began with (`Places`), in the scroll for instance the cells below the index
  are those of a row below and the others are untouched; and the items a call has still
  to do end with the default attribute (`Settles`).
  `PanicReadable` needs `PanicInv` on top. As long as the thread prints, nothing stands
  below the row of the cursor (`ClearBelow`), so that the console the tick interrupts is
  `Struck`: its cursor may be behind the row or the screen, but one character brings it
  back and below it all is clear. From then on the handler prints a fixed sequence of
  items (`Told`), and `Stage` says for each of its prefixes what stands where: the
  warning so far (`Warned`), the line in work (`InLine`), the lines that are done
  (`Shows`) and the warning above them (`Kept`). Cells are named by their distance from
  the row of the cursor (`Above`), which a scroll does not change.

Recursion is within reach although induction is not. A recursive function is shown to
exist and to equal one that is given explicitly by the least argument at which they
would differ (`NatMin`); where there is no explicit one, as for the digits of a number,
the relation between its values at two arguments is proved for the least argument at
which it would fail.

The provers translate an update of two components, `[f EXCEPT ![x] = a, ![y] = b]`, as if
`x` and `y` were different, which would make the obligation inconsistent if they were
not. The modules are written so that no such update can meet the same index twice: where
a header or a node is changed in two fields it is updated once, as a record, and where
two indices are updated the lemmas have them different.

### Only model-checked

* Liveness: `HungKmainPanics`, `CallsReturn`, `LinesServed`, `EveryThreadScheduled`.
  Fairness is out of the prover's reach.

## Where code and documentation disagree

Three runs show a violation; `PROJECT.json` has them under `findings`.

* `keyboard_f2`: a key whose table entry is 0 (F2, for instance) stores the 0 that
  `kb_read` takes for an empty buffer (`keyboard.c:202`). It is never removed, and no
  later key is delivered.
* `keyboard_restart`: `kb_start` clears the buffer and keeps `buffer_i`
  (`keyboard.c:171-181`). If a key waits when the driver is stopped and started, its cell
  is 0 and still counted; later keys go behind it, and `kb_read` reports "no keys pressed"
  (`keyboard.c:205`) from then on, while they wait.
* `paging_tables`: a page table that is made after boot is taken from
  `placement_address` (`paging.c:32`), where the heap is by then.

Reading the code for the models showed more, outside the bounds of the runs:

* `timer.c:7` says `timer_low` is "Set every single overflow of timer_hi"; line 35
  increments it every 1000 ticks.
* `timing.c:114` compares signed numbers: after 2^31 ticks (25 days at 1 kHz) the reaper
  drops live timers. A wrap of the sum in line 144 or 32 to 0 frees a slot in use; it
  takes 2^32 ticks (49 days), which is beyond the time the models let pass.
* `malloc.c:35`, `80` and `124` do not test for overflow: a size near the top of
  `size_t` gets a short block. `stdlib.h:5` calls it "The standard function."
* `realloc(p, 0)` frees `p` (`malloc.c:136`), goes on to copy from it and frees it
  again (`malloc.c:142`): two callers can get the same memory. The model's calls have sizes above 0.
* `wd_disable` (`wd.c:12`) stops the notifications but not the evaluation: a disabled
  watchdog counts hang-ups.
* `mman.c:97` wraps, and `mman.c:111` ignores a region with the same start (after one
  was resized to 0): both let `memresize` overlap regions, against `mman.c:92`.
* `memory.c:81` maps one page for a request of several, against `memory.c:88`;
  `page_allocator.c:104` clears the bit of another frame; `memory_dealloc_pages` uses
  the break as a page number. Nothing calls these with more than one page, or at all.
* The break of `sbrk` may pass the end of the 1 MB region that `memman_init` reserves
  for the kernel heap; nothing resizes the region.
* `lib/lock.c` assigns to its parameter: a null mutex excludes nobody, any other one
  spins for ever, against `mutex.h:10`. All mutexes that code reaches are null.
* `list_merge` (`list.c:171`) does not set the back link of the first node it takes
  over, so that after `tree_remove` (`tree.c:143`) a freed node can stay in a list of
  children; nothing calls `tree_remove`. `list_copy` never ends; `list_remove` accepts
  an index equal to the length; removing the root of a tree goes on with a null parent.
* Directories set `flags`, while `finddir_vfs` and `readdir_vfs` test `type`, so that no
  file system in the tree can be searched. This hides two faults: the loops of sysfs
  (`fs/sysfs.c:47`, `59`) count to seven with six entries, and `kopen` (`vfs.c:481`)
  frees the node `finddir` returned, for the ramdisk an element of `initrd_nodes`, whose
  types are not initialised. No run checks either: the code does not get there.
* `device_manager_insert` (`device.c:117`) looks its parent up by name and puts the device
  under the first one that has it; nothing keeps names apart.
* `kopen` of a root without file system copies from the null pointer (`vfs.c:432`);
  `close_vfs` compares with `vfs_root_node` although callers hold copies;
  `create_file_vfs` opens the path of the file itself as the parent. `vfs_mount` takes
  `//a` for the root and `..` for a name. `write_serial` returns no value, and a read of
  `/dev/zero` delivers nothing.
* A tick between `term_x++` (or `term_y++`) and the test behind it (`terminal.c:52`,
  `56`) makes the handler print its first character behind the row or the screen: the
  first character of the watchdog's warning can be lost. `PanicReadable` says that
  nothing else is.
* Rows that scroll in carry the attribute of the moment, a title's for instance.
  `textmode_clear` clears 24 of the 25 rows; x86 does not call it.
* `printf` reads past the NUL of a format that ends in `%` or in the flag `0`.
* `irq.c:68` says "greater than 40", the test is `>= 40`, which is right.
* A page fault acknowledges the master although no line is in service, which is
  harmless, since the processor then halts.
* `input.c:7` reports a full buffer and stores behind its end.
* `keyboard.c:138` indexes `kbdus` behind its end for every key that is released.

## Not modelled

* The switch of threads and `thread_exit`: the call of `thread_switch` is commented out.
* `input.c`, which nothing feeds and nothing reads; `lib/lock.c`, which keeps no state.
* The graphics terminal, the virtual terminals and the graphics adapter, which x86 does
  not use; the serial port, other ports and system information: input and output only.
* `list_merge`, `tree_remove` and the like, which nothing calls: see above.
* Segment descriptors, boot assembly, module stubs, the start-up code and drivers of ARM
  and SPARC (`rpi/mman.c` is the same file as the one `Mman` models), the assembly
  kernel, and the tools under `util/`.

`PROJECT.json` gives the reason for each.

## Plan

The components the rest of the kernel depends on are modelled, and all safety properties
of the passing runs are proved. What is left is the heap on top of the real `sbrk`:
`SbrkStep` of `Malloc` as a consequence of `BreakContiguous`.
