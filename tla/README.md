# The elfloader of seL4_tools, in TLA+

The elfloader (`src/elfloader-tool`) is what runs between a board's boot loader
and seL4.  It unpacks a kernel and one user image from an archive linked into
it, builds page tables, starts the other cores, turns the MMU on and jumps to
the kernel, on every core.  It has no operating system below it, runs once, and
most of what can go wrong shows as a board that does not come up: orders of
steps of several cores, cache contents nobody wrote back, a state the boot
loader left.  The modules here model those parts.  `PROJECT.json` lists, by
machine-readable entry, the runs, the mutants that show each property can fail,
the source lines behind each definition, the hazards, the findings and the
theorems.

## 1. Inventory

| Part | State it keeps | Operations | Hard because of |
|---|---|---|---|
| 32-bit multicore start (`arch-arm/smp_boot.c`, `32/crt0.S`, `plat/{imx6,imx7,zynq7000}/smp.c`, `scu.c`, `armv7-a/32/mmu*.S`) | `smp_aps_index`, `non_boot_lock`, `core_stack_alloc`, reset-controller registers, the caches | `main`, `smp_boot`, `init_cpus`, `non_boot_core`, `non_boot_main`, cache and MMU routines | all cores run at once, with caches off and no locks but ldrex/strex; wfi |
| 64-bit multicore start (`armv8-a/64/smp.c`, `plat/{tx1,hikey}/smp.c`, `psci*.{c,S}`) | `core_stacks`, the mailbox word in it, `core_up[]`, `non_boot_lock` | `init_cpus`, `psci_cpu_on`, `core_entry_head`, `core_entry`, `is_core_up` | firmware starts cores when it likes, or refuses; one mailbox for all |
| Image loading (`common.c`) | physical memory, `image_info`s | `load_images`, `load_elf`, `unpack_elf_to_paddr` | modular address arithmetic, sparse images, overlap with the loader itself |
| ELF library (`binaries/elf`) | the file in memory | the accessors of both classes, `elf_checkFile`, `elf_getMemoryBounds`, `elf_vtopProgramHeader`, `elf_loadFile` | 64-bit fields on 4-byte boundaries, two layouts behind one interface |
| Boot page tables (`arch-arm/{32,64}/mmu.c`, `arch-riscv/boot.c`) | the tables | `init_boot_vspace`, `init_hyp_boot_vspace`, `map_kernel_window` | index arithmetic at table ends, widths |
| Hashes (`utils/`) | a block buffer and a length | init, update, sum | block boundaries |
| EFI (`binaries/efi`) | firmware services, memory map | `efi_exit_boot_services` | a map that changes under the caller; retries |
| Mode set-up (`plat/{imx6,tk1}/platform_init.c`) | monitor/HYP vectors, mode | switch to monitor, to HYP | each core its own switch |
| exynos5 cluster switch | `cpu1_boot_reg`, power state of two clusters | `platform_init` | two cores on one stack and one UART |
| UART drivers (`plat/*/sys_fputc.c`) | a transmit queue | `__fputc`, `enable_uart` | nineteen status flags of either polarity |
| printf, string functions (`printf.c`, `string.c`) | - | `vxprintf`, `memset`, `memcpy`, comparisons | sign extension, word-wise heads and tails |
| Archive tools (`misc/`) | an archive, mapped | `cpio-strip` | header found backwards from its data |
| CMake, device trees | files | build time | no run-time behaviour |

How the parts interact: everything is called from `main()` on the boot core, in
the order platform set-up, `load_images`, leave HYP, page tables, `smp_boot`
(which calls the platform's `init_cpus` and then releases `non_boot_lock`), MMU,
jump.  A secondary core (AP) enters at the address `init_cpus` gave the hardware
or the firmware, takes a stack, waits for the lock, and runs the last three
steps itself with `kernel_info`, `user_info` and the page tables the boot core
left in memory.  So boot core and APs share: the number or mailbox an AP takes
its stack from, `core_up[]`, the lock, the images and infos, and the tables.

What makes each part correct:

* multicore start: every core has a stack of its own; no AP goes past the lock
  before the boot core is done; what an AP reads is in memory (its caches are
  off) and complete; the kernel sees the right core numbers; every core asked
  for arrives, or none;
* loading: the images lie where they must, complete, zero-filled, apart from one
  another and from the loader; what fails a check stops the loader;
* tables: every address of the loader and of the kernel window is mapped right;
* hashes: the result is that of the padded message however it is cut up;
* EFI: boot services are left before the kernel starts, with the map they left, and
  nothing of the pool is lost on the way;
* mode set-up: the stack survives the banked modes; what has to be given to the
  nonsecure world is given before the switch;
* output: every byte printed comes out, once and in order;
* the libraries: each accessor reads the field of its name, whatever the class and
  the alignment; a copy touches each byte once, through aligned accesses only.

## 2. Modules

| Module | What it is |
|---|---|
| `StartGate` | what a multicore start promises: publish the data, claim a slot each, open the gate, enter |
| `SmpBoot32` | the 32-bit start, from `_start` to the kernel on every core |
| `PsciBoot` | the 64-bit start through PSCI |
| `LoadImages` | `load_images()` |
| `EfiExit` | `efi_exit_boot_services()` against the firmware |
| `ModeSwitch` | `platform_init()` of tk1 and imx6 |
| `Console` | `printf()` on each platform's UART, and exynos5's change of cluster |
| `ElfLib`, `MemOps`, `HashStream`, `Printf`, `BootVspace`, `CpioStrip` | pure functions: the ELF library, `string.c`, `utils/`, `printf.c`, the page tables, `misc/cpio-strip.c` |
| `MCSmpBoot32`, `MCPsciBoot`, `MCLoadImages`, `MCConsole` | the instances TLC checks |
| `MCLib` | the pure functions, called with bounded inputs and compared with references |
| `*_proofs` | theorems; those about the pure functions are in `MCLib_proofs`, and for the ELF library in `ElfLib_proofs`, which extends it |

### SmpBoot32

One `pc` per core; the label is the function the core is in.  The boot core's
actions follow `main()`: `Start`, `Load`, `LeaveHyp`, `InitVspace`,
`DisableDcaches`, `InitCpus`, then the platform's loop (`StopCore` on the Zynq,
`SetCpuJump`, `PowerUp`/`PowerWait` on i.MX7, `EnableCpu`), `SetLock`,
`EnableMmu`, `JumpToKernel`.  An AP's: `LeaveReset` (to the address that is in its
register, or nowhere), `ImxNonBoot`, `Ldrex`, `StrexOk`/`StrexFail`, `SetSp`,
`ApDisableDcaches`, `Spin`, `ApLeaveHyp`, `ApEnableMmu`, `ApJump`.

* *The reservation.*  `Ldrex` reads the index and reserves, `StrexOk` stores if
  the reservation stands and takes all others away, `StrexFail` loses it,
  spuriously too.  It is a global monitor over all cores.
* *The caches.*  `dirty` is what only the boot core's D-cache has, `mem` what a
  core with its caches off reads.  A store goes to one or the other by the
  enable bit *of the mode the core is in* (SCTLR.C, or HSCTLR.C in HYP mode); the
  routines of `mmu.S` and `mmu-hyp.S` test the bit the code tests, which is not
  always that one.  An invalidation drops `dirty`.
* *The wait.*  `non_boot_main()` tests the lock and, if it is not set, does
  `cpu_idle()`, a wfi: label `"wfi"`, left by `WakeUp` only.
* *What the boot loader has started.*  On the Zynq core 1 may be running another
  program (`busy`); it then does not fetch the jump address until `StopCore` has put
  it in reset.  The i.MX cores are taken to be in reset at entry: the code that starts
  them sets enable bits and nothing that would stop a running core.
* The page tables are one datum per mode; what `init_cpus` reads from the SCU or
  L2CTLR is any member of `CoreCounts`.

### PsciBoot

The boot core gives node `i` its stack (`GiveStack`: the mailbox of tx1; on hikey
the context id), calls the firmware (`PsciCpuOn`, which refuses or accepts), and
waits for `core_up[i]` (`WaitUp`).  `PowerOn` is the firmware releasing the core,
some time later.  `CoreEntryHead` reads mailbox or context, `CoreEntry` derives
the logic ID from the stack and reports in.  Cores are called by what the
firmware calls them (`Target`: core and cluster), stacks by node.  The cache of
the boot core is as in SmpBoot32, and in addition may write lines back and drop
clean ones whenever it likes (`Evict`); reading `core_up[]` with the cache on goes
through a line of it (`FetchUp`).

### LoadImages

`load_images()` as a sequential program: one action for each stretch between
loops (`GetKernel`, the checks of `LoadElf`, `Memset`, one `Memcpy` per program
header, `RecordInfo`, `KeepHeaders`, `CheckFirst`, `NextUser`, and `main()`'s
`CheckImages`).  A check that fails goes to `"abort"`.  Memory is a function from
addresses modulo `Word` to who wrote the cell: nobody, the loader, a zeroing,
a header page, byte *k* of segment *i* of image *s*.  Archive and position of the
loader are chosen at the start and do not change.

### EfiExit

The loop "again" of `efi_exit_boot_services()`: `AllocatePool`, `GetMemoryMap`,
`ExitBootServices`, each with every return the firmware may give.  Beside it
`FirmwareEvent`: the firmware's own events change the map, and its key, between any
two calls, and an allocation or a free may lengthen or shorten the map.

### ModeSwitch

The calls `platform_init()` makes are a list that depends on the configuration
(`Builds`); each call is an action on `SCR`, the mode, the banked stack pointers,
and the interrupt controller's groups and priorities.  Guards inside the routines
(`Secure`) are tests of SCR; what a nonsecure core gets for reading SCR is
`Undefined`.

### Console

A core prints a text character by character: `Fputc` waits for the condition its
driver waits for (`ReadyImx6`, ...) and queues the byte, `Behind` is the `'\r'` that
follows a newline.  The UART (`Send`) is external: it has a queue of `depth` bytes,
drops what does not fit, and sends while it is enabled.  On exynos5 the A7 prints a
line, stores the entry in `cpu1_boot_reg`, and the A15 starts and prints the rest.

### The pure functions

* `ElfLib`: a file is the 16-bit units of memory from an address on; a struct is the
  list of its members with their sizes, from which offsets follow, and an accessor
  reads a field of one.  `Read64` reads a 64-bit field in two halves, as the
  accessors of `elf64.h` do; a plain read that is not aligned to its size gives
  `Fault`, as it does on a core whose MMU is off.
* `MemOps`: the accesses a call makes, each with offset and size.
* `HashStream`: length, block buffer and the blocks handed to `processblock()`, for
  both hashes; the block function is not modelled.
* `Printf`: `vxprintf()` as a fold over the format.
* `BootVspace`: the tables as functions from index to entry, for 32-bit ARM in SVC
  and HYP mode, AArch64 at EL1 and EL2, Sv32 and Sv39, and the architecture's
  `Walk` as reference.
* `CpioStrip`: an archive by offsets, over an external libcpio.

### StartGate

The abstract specification both starts implement (property `GateSpec` of each):
`published` is "the images, infos and tables are in memory", a slot is a stack,
`open` is the boot core being past `smp_boot()`, `entered` the cores in the
kernel.  A step of a start is a step of the gate or changes none of these.  In
PsciBoot "in memory" is "written" for an instance entered with its caches on at EL1.

## 3. Runs

| Run | Instance | Shows |
|---|---|---|
| `smp32_imx6` | 3 nodes of a 4-core chip, boot in HYP mode or not, cores in mixed modes, D-cache on or off | types, stacks, numbers, gate, the tables of the mode the cores are in after `leave_hyp`, clean before invalidate, refinement of StartGate, and that every core arrives |
| `smp32_two` | i.MX7 and Zynq with 2 cores, hypervisor kernel, lock word not zeroed | data and tables reach memory before a core uses them, whatever the lock does; no core starts without its address; both arrive, also where the Zynq's core 1 already ran something else |
| `psci` | tx1 with 4 nodes, hikey with 6 on 2 clusters, tx1 configured for more nodes than it has cores | stacks, logic IDs, mailbox, gate, data, refinement, progress |
| `load` | 668 combinations of archive and loader position | placement, contents, headers, hashes |
| `efi` | a first guess of 2 descriptors, a map of at most 6, 5 events | the map is that of the exit, no block is lost, the guessing ends |
| `modes` | all configurations of tk1 and imx6, three states of SCR, 32 and 64 interrupts | stack, mode, interrupts |
| `console` | 19 drivers, queues of 1 and 3 bytes, transmitter on or off on the zynqs, exynos5 from A7 and from A15 | every byte, once, in order, and in the end |
| `lib` | bounded inputs of every pure function | each against its reference |

Bounds, and why they are enough:

* Two APs are the least that race for a number, and three nodes leave a core of the
  chip unused; four on tx1 make the mailbox pass three times; six on hikey reach
  two cores into the second cluster.
* In `load` pages have four cells and the address space twelve pages, and the loader
  lies before, behind and between what the images want, so that each check is met
  both ways; kernels and users include sparse, multi-segment, unaligned,
  segment-less, non-linear and invalid files.
* In `efi` the firmware's descriptors are larger than `sizeof(efi_memory_desc_t)` (6
  against 5), so that one descriptor more of the loader's is less than one of the
  firmware's: the guess is repeated several times before the map has reached
  `MaxDescs`.
* In `console` the texts have newlines first, last and adjacent, and a queue of one
  byte is full after each.
* In `modes` 64 interrupts fill more than one register of either loop.
* In `lib`: 16-bit units have 64 values, files lie at 64 and at 68, so on an 8-byte
  boundary and on a 4-byte boundary only; hash messages have the lengths around
  55, 56, 63, 64, 119 and 120 where padding changes, in two updates, so that the
  second starts at any of these places; tables have 4 to 32 entries a level, with
  kernels linked behind each of them that the style allows; memory operations have all offsets of two words on either side and lengths
  0..19; archives have up to two files with names of 1 to 5 characters, so all
  residues of the alignment, and files of 0, 1 and 6 bytes.

Runs that are meant to find a violation, each about something a comment says:

| Run | Comment | What happens |
|---|---|---|
| `smp32_lost_wakeup` | "Spin until the first CPU has finished initialisation" (`smp_boot.c:33`) | the lock is set between test and wfi; nothing wakes the core |
| `up32_hyp_cached` | "Clean D-Cache if enabled" (`mmu-hyp.S:43`) | `bleq` cleans if disabled; what was cached is invalidated |
| `load_nul` | "make sure the hashes are the same" (`common.c:167`) | `strncmp` stops at a zero byte |
| `riscv_window` | "create any neccessary entries for the kernel" (`boot.c:83`), "For Sv32, 2MiB" (`boot.c:86`) | a root entry of Sv32 covers 4 MiB: the second one points half an entry too low |

With two nodes the entry state of `up32_hyp_cached` loses the data one step
earlier, in `arm_disable_dcaches()`, which asks SCTLR in HYP mode too.

Other places where comment and code differ, or the code relies on its surroundings,
were met without a run of their own:

* `core_up[]` is .bss.  If an earlier run left it raised (`CoreUpImage` containing
  `{1, 2, 3}`), the wait of tx1 ends at once and two cores share a stack: the stack
  "allocated to the core in memory" (`tx1/smp.c:34`) is then another's.
* Caches on at "EL2 or EL1" (`efi_head.S:132`): at EL1 the poll of `core_up[]` may read
  a cached line for ever.  `EntryClean` excludes that entry from liveness and data.
* "or if it goes outside the bounds of memory" (`common.c:49`) is not tested.
* `cpio-strip.c:117` asks for distinct inodes; `"%08x"` writes its NUL over the eighth
  digit, and entries 0 to 4 all get inode 0.

### Fairness

`FairSpec` assumes: a core that can execute its next instruction does in the end
(`WF` on the boot core's and on each AP's steps); hardware and firmware do what
they were asked to (power controller, reset, `PowerOn`); a store-exclusive that is
tried again and again with its reservation standing succeeds some time (`SF` on
`StrexOk`; the architecture promises no more); and, in SmpBoot32, that *some*
interrupt ends a wfi (`WF` on `WakeUp`).  The last is not in the code's hands, which
`smp32_lost_wakeup` is about: its `NoWakeSpec` leaves only that assumption out.
Nothing is assumed of cache evictions.  Console assumes that
each core goes on (`WF` on its steps) and that the UART sends (`WF` on `Send`, which
needs the transmitter enabled); EfiExit that the loader goes on, and of the firmware
only that its map does not grow for ever (`MaxDescs`, `MaxEvents`).

In the starts and in LoadImages an aborted loader loops for ever and a loaded system
has left the model: `Halted` (`Done`) stutters there, so that a deadlock anywhere
else is reported.  EfiExit, ModeSwitch, Console and MCLib end where the modelled
function returns, so their runs do not check for deadlock; that Console and EfiExit
get to their end is a liveness property of each.

### Assumptions about the entry state

Where a property needs one, it is in the instance or, for the theorems, in the
statement: .bss is zero at entry (`LockImage`, `CoreUpImage`; `BssZeroed`); in HYP
mode the D-cache is off (`NoCachedHyp`, 32-bit); with a hypervisor kernel all cores
are entered in one mode (`SameModes`); a tx1 is entered at EL2 or with the D-cache
off (`PsciAssumption`).  `ModeSwitch` starts with `mon_init_done` zero.  imx6 sets it
in `platform_init()`, because .bss of a raw binary may hold anything
(`imx6/platform_init.c:261`); tk1's is .bss too and nothing sets it, so for tk1 this is
an assumption: it is loaded as an ELF file, which is what `application_settings.cmake`
leaves for it.  With a stale one tk1 would skip the switch to monitor mode.

## 4. Proofs

For every value of the constants: any number of nodes and cores, any platform, archive,
firmware and set of entry states the assumptions of the module allow.

| Module | Theorem | States | Assuming |
|---|---|---|---|
| `SmpBoot32_proofs` | `TypeCorrect` | `[]TypeOK` | - |
| | `NoCoreLost` | `[]NoLostCore` | - |
| | `Dense` | `[]DenseNumbers` | - |
| | `StackOwnership` | `[]OwnStack` | - |
| | `Gating` | `[]HeldAtGate` | the lock word is 0 at entry |
| | `DataFirst` | `[]DataBeforeAps` | `NoCachedHyp` |
| | `NothingDropped` | `CleanedBeforeInvalidate` | `NoCachedHyp` |
| | `TablesBuilt` | `[]TablesReady` | `NoCachedHyp`, `SameModes` |
| | `ImplementsGate` | `GateSpec`: refines StartGate | `MaxNodes > 1`, lock word 0, `NoCachedHyp` |
| `PsciBoot_proofs` | `TypeCorrect`, `StackOwnership`, `LogicIds`, `Gating` | `[]TypeOK`, `[]OwnStack`, `[]LogicId`, `[]HeldAtGate` | `BssZeroed` |
| | `MailboxHandshake` | `MailboxRead` | `BssZeroed` |
| | `DataVisible` | `[]DataInMemory` | `BssZeroed` |
| | `ImplementsGate` | `GateSpec` | `BssZeroed` |
| `LoadImages_proofs` | `HeadersFound` | `[]HeadersBehindUser` | - |
| | `MissesLoader`, `RegionsApart` | `[]ImagesMissLoader`, `[]Disjoint` | `[]RegionFits` |
| | `HashesChecked` | `[]HashesSame` | `NoNul` |
| | `MemoryLoaded` | `[]LoadedRight` | `[]RegionFits`, `[]HeadersFit` |
| `EfiExit_proofs` | `MapIsTheLast`, `PoolGivenBack` | `[]MapAtExit`, `[]NothingLeaked` | - |
| `ModeSwitch_proofs` | `StackUnderEveryMode`, `ConfiguredModeReached` | `[]StackKept`, `[]Configured` | - |
| `Console_proofs` | `PrintedInOrder` | `[]OutputInOrder` | - |
| `MCLib_proofs` | `KernelMapped` | the tables of every style but Sv32 map window, loader and vectors | the kernel is `Placed` |
| | `WindowIsMapped` | `[]WindowMapped` | `AskedStyles` without `"sv32"` |
| | `MemcpyRight`, `MemsetRight` | each byte once, none outside, aligned accesses | - |
| | `MemsetFills` | every byte of memset()'s destination is the one asked for | - |
| | `StringsCompared` | `strlen()`, `strcmp()` and `strncmp()` of any strings | both end in a 0 |
| | `MemoryIsRight` | `[]MemRight` | - |
| | `HashesPadded` | `get_hash()` of any message, from any state of the structure | - |
| | `HashIsPadded` | `[]HashPadded` | - |
| | `HeaderFound` | `get_header()` inverts libcpio's step to the data | - |
| | `OnlyMetadata` | of any archive `cpio-strip` leaves all but the headers' metadata | - |
| | `ArchiveIsStripped` | `[]Stripped` | - |
| | `DigitsReadBack` | `write_num()` of any number, in base 10 and 16 | - |
| | `NumberIsPrinted` | `[]PrintedNumber` | an int holds the numbers asked for (`IntVals \div 2 > 40`) |
| `ElfLib_proofs` | `MemberRead` | `elf64_read64()` of any member on a 4-byte boundary | its units are below `Unit` |
| | `FileIsLoaded`, `LoadedAlike` | `elf_loadFile()` of any file, and by physical as by virtual address | no segment wraps; for the second they are apart |
| | `StructsAreElf` | the structs' members lie where the ELF standard puts them | - |
| | `HeadersRead`, `SectionHeadersRead` | any field of any header, as the linker wrote it | 4-byte boundary; for sections of 64-bit files 8-byte |
| | `BoundsRead`, `AllIsRead` | all that is asked of a linked file, with its bounds | `HasRoom`: filesz <= memsz, no segment reaches the end of the range |
| | `AllSectionsRead` | sections by number and by name | flags of 32 bits |
| | `LoadedAsLinked` | loading, translation and bounds agree | the segments share no address |
| | `FilesAreRead`, `SectionsAreRead`, `FilesAreLoaded` | `[]ElfReads`, `[]SectionsRead`, `[]ElfLoads` | - |

`RegionFits` says that no image being unpacked wraps at the end of the address space
and that filesz <= memsz; `common.c` tests neither.  `HeadersFit` says the same of the
bytes the program headers take behind it.  Both are true of every reachable state of
the run `load`.  `NoNul` says that no digest has a
zero byte; `load_nul` is why it is needed.

The invariants of the state machines are not inductive as they stand.  What each proof adds:

*SmpBoot32.*  `IInv` has five parts beside the types:

* `EnabledInv` ties the boot core's label to the cores that are out of reset: in
  the loop exactly 1..i-1 are, with their jump registers set, and
  CONFIG_MAX_NUM_NODES fits the chip.  The type of `enabled` and `i`, and with them
  `NoLostCore`, depend on it.
* `NumberInv` says that the numbers given are 2..`index` with as many holders, and
  that *a reservation that still stands guards the current index*: an AP at its
  strex with the reservation has computed `index` + 1.  That is why a successful
  strex gives a new number.  The count of holders bounds `index` by the number of
  APs out of reset plus one, hence by CONFIG_MAX_NUM_NODES.
* `StackInv` ties the stack pointer to the number; with the bound, `OwnStack` is
  arithmetic.
* `LockInv`: the lock word is in memory or cache only when the boot core is past
  the store, and so is any AP past the loop.
* `CacheInv`: only an enabled D-cache outside HYP mode is dirty, what was written is
  in memory or dirty, and from `smp_boot()` on nothing is dirty.

*SmpBoot32, the gate.*  `TableInv` (the boot core has built the tables of the mode it is in, and
that is HYP only for a hypervisor kernel) and `ModeInv` (so is an AP's) give
`TablesReady`.  For the refinement `ClaimInv` says that a core has a stack from the
very step on that claims one; then each step of the start is one of the gate: the
data's becoming complete is `Publish`, `Start` and `SetSp` are `Claim` (the page is
free because a number has one holder), `SetLock` opens the gate, the jumps enter the
kernel, and everything else stutters.  The slot of a core is its stack pointer
divided by the page size, which is where `StackInv` comes in.

*PsciBoot.*  `LoopInv` places the boot core in its loop (before it everything is off,
behind it every node has had its turn); `MailInv` is the hand-shake: a core that is
out of reset belongs to a node whose turn is over, and has reported, or to the node
waited for, whose stack the mailbox then still holds; `StackInv` says what each
core holds by how far it is; `LockInv` as above.  `DataInv`, with `CleanInv` for the
entries where the boot core's cache is clean when it must be, carries the data and
the exception levels; `PubInv` that the tables come last, so that `published` turns
true in one step.

*LoadImages.*  `TypeInv` makes of the archive what the checks rely on; `HeaderInv`
follows the region recorded for an image to the page behind it; `PlaceInv` says that
the region being written misses the loader and lies behind all those recorded;
`HashInv` that the file in hand is the slot's and its hash has been compared.

*EfiExit.*  `NumbersInv` (types), `PoolInv` (where the block is, by label), `MapInv`
(the key is that of the copy and never ahead of the map's version).

*LoadImages, the contents.*  `LoadInv` has two halves.  While the segments of an image
are copied, `Holds` says of each cell of its region that it is what the segments copied
so far put there, or zero: memset() establishes it for none, and each memcpy() takes it
from *n* to *n* + 1, because the cells it writes are those of segment *n* and no
earlier one.  Once an image is recorded, `Records` says that each of its cells lies in
its region and is as expected, for ever: what is written later lies behind every
recorded region, which is `PlaceInv`.

*ModeSwitch.*  `StackInv` adds SVC mode's own stack pointer, which tk1 returns to as it
left it.  `ModeInv` says of each call of `platform_init()` that is not left to do that
it has had its effect and nothing after it undid it; `Ordered` is what the list of
calls guarantees in every configuration: the interrupts are routed behind the entry to
monitor mode, and the switch to the final mode is the last call.

*Console.*  `OutInv`: `sent \o fifo` is, as a sequence, the part of the text up to the
character at hand, with or without its `'\r'` by the label.  That this is a prefix of
`Output` needs what `FlattenSeq` is for each number of characters, which is shown by
the least counterexample: the set of lengths for which it fails has a least element,
and that one does not fail.

*The page tables.*  `Translate` is a recursive function of the levels; `TwoLevels` and
`ThreeLevels` unfold it into entry after entry, and `TwoLevelWalks`, `ThreeLevelWalks`
say where a walk ends by the kinds of entries met.  `Times`, `Split`, `Unsplit` and
`Nested` are the arithmetic of a page's number: page *r* of block *h* of GiB *g* takes
entries *g* and *h* of its tables (`PageSlots`), and a leaf that holds a multiple of its
span keeps the offset (`LeafFramed`).  Each style then has a lemma that walks one page
of its window and one of the loader (`WalkArm32` to `WalkSv39Blocks`), and one that
covers the window with such pages (`MappedArm32` to `MappedSv39`).  `Placed` says where
a kernel may be: aligned to the span it is mapped by, not in the first one, at EL1 in
TTBR1's half and on a GiB, at EL2 in another PGD entry than the loader, on Sv39 in the
last two GiB.  These are the conditions of the platforms' kernels; without them the
code maps wrong, as the hazards list says.

*Memory, archive.*  Arithmetic: heads, units and tails as disjoint intervals.  The
filler word of memset() is a sum of powers times the byte; `Linear` gives that sum and
its product one recursion, "times the number of byte values, plus what is added", and
then one division takes one place off (`Lower`).  Two strings are told apart by the one
place where they first differ or both end (`StopAt`), from which strcmp(), strncmp() and
the equality of the starts each follow.

*Hashes.*  `Taken` is the invariant of the structure between calls: the blocks
processed are the whole blocks of what came so far, and the buffer holds the rest.  An
update keeps it for the message so far and its own part (`UpdateTaken`), whether it
fills the buffer or not; the loop over whole blocks is a function of their number, which
first has to be shown to exist (`BlockwiseExists`).  Padding one block or two then
completes the message to a multiple of a block (`PadHashes`).  What the block holds
beyond the length is arbitrary throughout: nothing stale is hashed.

*cpio-strip.*  The headers of an archive lie one behind the other, each further on by
a header, a name and a file, all rounded up; so each place holds one header at most
and `get_header()` gets back from the data to it.  The loop's state after *i* members
is then the archive with the first *i* headers rewritten (`PartlyStripped`), and what
a header is rewritten to does not mention its metadata.

*printf.*  That the digits read back as the number goes by the least number for which
they do not: one digit more multiplies by the base and adds the digit.  For
`NumberIsPrinted` each of the formats is then followed through `vxprintf()` character
by character (`State`), the number's digits being one step.

*The ELF library.*  A file is what a linker writes for a list of segments and one of
sections: `Members`, each an offset, a size and a value.  No two of them overlap, within
a struct (`LayoutsApart`) or between two (`StructsApart`), so a 2-byte unit of memory has
one member to come from (`MemberAlone`), and a load, or the two halves of a
`elf64_read64()`, puts the units of a member together to its value (`MemberLoaded`).
The offsets the compiler gives the structs are those of the members (`StructsAreElf`),
so every accessor returns what was written (`FieldRead`).  That takes values that fit
their members (`IsFilled`), which the files asked about have (`ElvesLinked`).  From
there on a file is its headers (`IsRead`, `AreSections`): the bounds are found as least
begin and greatest end (`Least`, `Greatest`), a section of a name as the least number
that has it (`NamedFound`).  `elf_loadFile()` is a fold over the headers; that the memory
after *n* rounds is what the first *n* headers say is shown by the least round after
which it is not (`FileIsLoaded`), and where the segments share no address each byte has
one header to come from (`SegmentIsLoaded`).  A segment's two places are translations of
each other (`Translated`), so both loads hold the same bytes (`LoadedAlike`).  Two
assumptions on the unit are needed: `UnitAssumption` (`Unit > 3`, a class of the file
identification is one unit) and `ElvesAssumption` (`Unit > 54`, the numbers of the files
asked about fit in two units); the real unit is 65536.

Each part of an invariant has a lemma for the initial states and one for a step, with
one proof step per action; the theorems combine them with PTL.

Only model-checked: the liveness properties (`AllReachKernel`, `GuessingEnds`,
`PrintEnds`), which, like everything that needs fairness or ENABLED, are out of the
prover's reach, and `WindowMapped` on Sv32, which does not hold.  Every other property of
a run that passes is stated by a theorem.  The
induction theorems of the library cannot be instantiated here; where a recursive
function had to be followed its induction is by a least counterexample, which is long.

## 5. Not modelled, and limits

* Caches are private to a core (Cortex-A9).  On i.MX7 the APs invalidate an L2 they
  share with the boot core; a shared L2 would need the lines of each level, and the
  architecture leaves open what happens to a line two cores touch.
* The D-cache in tk1's `platform_init()`.  `switch_to_hyp_mode()` flushes it so that
  nothing is left behind a secure tag, `switch_to_ns_svc_mode()` does not; whether there
  is anything to flush is the boot loader's doing.
* The power controller of i.MX7 never answering, and no interrupt ever ending a wfi:
  `AllReachKernel` assumes that both happen (`GpcDone`, `WakeUp`).
* Instruction caches, TLBs and barriers: stores of one core are seen in order.
* tk1's monitor (`monitor.S`), which runs after the loader has gone.
* The block functions of the hashes: 32-bit arithmetic without control, whose only
  reference would be itself.
* The functions that only print (`elf32_printStringTable`, `elf64_showDetails`,
  `elf_showDetails`), `sprintf`, which nobody calls, the byte loops of `string.c` for
  compilers without may_alias.
* The EFI entry (`efi_head.S`), a PE header and a jump; `efi_fputc`, a call of the
  firmware.
* Sv48, which `boot.c:123` selects and no configuration of the repository names.
* On exynos5 the A15 starts on the stack the A7 is still on.  Which of the two wins is
  a matter of the boot ROM's time that nothing in the code bounds; only what the two
  print is modelled.
* tk1 and tx2 have an empty `init_cpus()`: no AP starts.  Platforms with one core have
  register set-up at most.
* Attributes of page-table entries.
* `whence.py`, CMake, device trees: no run-time behaviour.
* LoadImages' instances keep images below the top of the address space, where
  `dest_paddr + image_size` does not wrap; ELF files have filesz <= memsz and at most
  three program headers.  A header page that falls on the loader is not prevented by
  the code, and not by the property.

## 6. Plan

Done: everything of sections 2 to 4.  What a next step could take on, in this order:

1. SmpBoot32 with a shared L2 for i.MX7, lines by level.
2. A composition: LoadImages' result as the data of the starts' `Load` step, and the
   tables of BootVspace as what `InitVspace` writes, so that one property reaches
   from the archive to the kernel's first instruction.
3. Bounds for the hazards without a property: the header page's size
   (`common.c:229`), the wrap of `common.c:195`.
