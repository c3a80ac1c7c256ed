# A TLA+ development of the STH hypervisor

STH is a thin hypervisor for ARMv5-v7 that runs one guest (a paravirtualised
Linux, a FreeRTOS or a small test guest) beside a small trusted service. The
guest runs in user mode in four *virtual guest modes*; the hypervisor alone
runs privileged. This directory holds TLA+ modules translated from its source,
the TLC configurations that check them on small instances, and TLAPS proofs.
`PROJECT.json` says which lines of the source each definition stands for.

    tlasany Slab.tla                                 # parse
    tlc -workers 2 -config MCMachine.cfg MCMachine   # check one run
    tlapm BuddyProofs.tla                            # check the proofs

## 1. Inventory

| component | state | operations | interacts with |
|---|---|---|---|
| guest modes and handlers (`core/hypervisor/handlers.c`, `hypercalls/`) | current mode, interrupted mode, one saved context per mode, RPC partners, domain register | hypercalls, system calls, prefetch and data aborts, interrupts, undefined instructions | exception entry calls it; it reads and writes the guest's kernel stack and calls the page-table code |
| RPC (`hyp_rpc.c`, `guests/trusted`) | `rpc_to` and `rpc_for` of the mode states | RPC, END_RPC | a mode and the trusted service, through the handlers |
| kernel stack frames (`handlers.c`, `hypercall_restore_linux_regs`) | 72 and 80 byte frames in guest memory | push in the handlers, pop in RESTORE_LINUX_REGS | memory shared by the hypervisor and the guest kernel |
| exception entry (`hw/soc/*/soc_interrupt_vector.S`, `hw/cpu/arm/arm_common`) | `context_stack` and its depth | save and restore of a context | calls the handlers |
| page tables (`hyp_mmu.c`, `arm_mmu_pt.c`, `linux_init.c`) | level 1 and level 2 tables in memory shared with the guest, a count of level 2 tables given away | SWITCH_MM, NEW_PGD, FREE_PGD, CREATE_SECTION, SET_PMD, SET_PTE | the guest kernel passes addresses, the MMU reads the tables |
| buddy allocator (`library/mem/src/buddy.c`) | two words per page (free flag, order, links) and a list per order | init, alloc, alloc_at, free | memory regions |
| heap (`library/mem/src/heap.c`) | chunk headers in the managed memory | init, alloc, free | malloc of the library users |
| memory regions (`library/mem/src/mreg.c`) | a list of free megabyte ranges, a list of buddy allocators | init, attach, alloc, alloc_at, free | buddy, heap (for its own bookkeeping), list |
| pools and slabs (`library/util/src/pool.c`, `slab.c`) | a stack of the free objects and the index `const_bottom` | init, alloc, free, cleanup | heap |
| lists, object lists, bit sets (`library/util/src`) | ring of nodes, growing array, words of bits | add, remove, pop, push, find | the allocators |
| guest images (`hw_core_guest.c`, `arm_guest_blob.S`, `utils/guesthelper`) | the table of the packing tool, the packed guests, `guests_db` | sort and pack, move at boot, `get_guest` | the build runs the tool, the start code moves, `guests_init` looks up |
| boot (`init.c`, `arm_pt.S`, `linux_init.c`, `board_mem.c`) | the page tables before the first guest | the initial table, `memory_init`, `guests_init` | uses `arm_mmu_pt.c`; page-table hypercalls go on from what it leaves |
| interrupt controller and timer (`soc_interrupt.c`, `soc_timer.c`) | mask registers, handler table, tick handler | mask, set handler, dispatch | exception entry calls it, it calls `irq_handler` |
| multi-precision integers (`trusted/src/mpi/mpi.c`) | sign and digits of each number; digits above those in use must be zero | add, subtract, multiply, divide, powers, roots, common divisors, inverses, conversions | RSA; `malloc` |
| AES (`trusted/src/aes`) | key schedules, and what a call leaves of a block (`iv`, `b[2]`) | set a key, a block, five modes of operation | file encryption |
| SHA-2 (`aes/sha2.c`) | bytes collected, count, hash | begin, hash, end, for four sizes | RSA signatures |
| RSA (`mpi/mprsa.c`, `rsa.c`) | none of its own | wrap, unwrap, sign, verify | trusted service; numbers, digests, random octets |
| trusted service (`trusted_service.c`, `aescbc.c`, `mem.c`) | static buffers for cipher text, key and contract, a heap | initialise, encrypt a contract, give it back | called by RPC; AES, RSA, random numbers |
| random numbers (`mpi/mwc.c`) | two buffers with a sliding window | seed, draw | padding, keys, vectors |
| cache, TLS and context id hypercalls (`hyp_cache.c`, `hyp_cpu.c`) | hardware registers only | CACHE_OP, SET_TLS_ID, SET_CTX_ID | none |

What makes this code hard to test:

- *Order of exceptions.* Each handler is short, but interrupts, aborts, RPCs
  and context restores follow each other in any order, and four pieces of state
  (`current_guest_mode`, `interrupted_mode`, `rpc_to`, `rpc_for`) in different
  records must agree after all of them.
- *Memory shared with the guest.* Frames are written by one function and read
  by another at hand-written offsets; page tables are written by the
  hypervisor, copied by the guest and walked by the MMU.
- *State that a path forgets.* `interrupted_mode` survives an abort taken in
  interrupt mode; an RPC survives a fault of the service; a page that leaves a
  buddy list keeps the words that say it is free.
- *Address arithmetic.* Table indexes, blocks and chunk headers are computed
  from addresses with shifts and masks, and nothing else says where they are.
- *Stored in place.* Numbers share arguments and results, digests and streams
  are computed in the buffer they came in, and guests are moved through memory
  that other guests still occupy.
- *Cut anywhere.* Streams and messages come in pieces of any length, and each
  function must take up exactly where the last one stopped.
- *Long legal sequences.* The allocators go wrong, if at all, after a series of
  splits and joins whose order no test was written for.

The concurrency is that of one core: the processor enters the hypervisor with
interrupts off, and a handler runs to its end. The interleavings are those of
exceptions with guest code, so one action per handler is the right grain. The
libraries are sequential: one action per call.

What makes each component correct:

- *Modes:* the context slot and the domains are those of the mode that runs; an
  interrupt handler knows where to return; the hypervisor never stops on its
  own bookkeeping; interrupts return.
- *RPC:* the two halves of a call agree; the service runs for a caller only;
  calls are synchronous and return.
- *Frames:* each frame is taken off as it was pushed, and the resumed mode is
  the mode that trapped.
- *Page tables:* what holds a page table is read only and nothing else is; the
  active table is one of those; splitting a section changes no translation.
- *Allocators:* a piece of memory has one owner, none is lost, what is given
  back can be had again in the largest blocks it forms, and the records from
  which this is computed stay true.
- *Boot:* no guest mode reaches the hypervisor or, but for its own, the trusted
  guest; every device is where its address macro says with the rights of the
  board's layout.
- *Guest images:* guests that fit arrive whole, whatever the order in which the
  tool was given them.
- *Lists and containers:* they hold what was put in and not taken out.
- *Trusted guest:* numbers are those of the integers and stay well-formed;
  AES, the compression of SHA-2 and the random numbers take the steps of their
  standards; what was encrypted in pieces is decrypted in any other pieces; a
  digest is one of the whole message; RSA opens what it wrapped; the service's
  key and cipher text belong together.
- *Pools and slabs:* no object is lost, and objects are constructed and
  destructed in turn.

## 2. Modules

| module | models | used by |
|---|---|---|
| `GuestModes` | the handlers and hypercalls that change modes, masks, RPC state and domains | `MCMachine`, `KernelStack`, `GuestModesProofs` |
| `RpcChannel` | what the RPC mechanism promises (abstract) | implemented by `GuestModes` |
| `KernelStack` | the frames on the kernel stack, on top of `GuestModes` | `MCKernelStack`, `KernelStackProofs` |
| `PageTables` | the page tables and the hypercalls on them | `LinuxMm` |
| `LinuxMm` | `PageTables` under the memory management of the Linux port | `MCLinuxMm`, `LinuxMmProofs` |
| `BootMap` | the page tables the hypervisor boots with, with the numbers of two boards | `MCMachine`, `BootProofs` |
| `GuestImages` | the packing tool and the move of the guests at boot | `MCMachine`, `BootProofs` |
| `Lists` | linked lists, link by link | `Containers` |
| `ObjectLists` | the array of objects that grows, and the bit set | `Containers` |
| `Containers` | one user of lists, an object list and a bit set | `MCMachine`, `ContainersProofs` |
| `Slab` | the pool and the slab cache on it | `MCMachine`, `AllocatorProofs` |
| `ObjectCache` | what the slab promises (abstract) | implemented by `Slab` |
| `Allocator` | what an allocator promises (abstract) | implemented by `Heap` and `Mreg` |
| `Heap` | the heap, chunk header by chunk header | `MCMachine`, `AllocatorProofs` |
| `BuddyContext` | a buddy allocator as operators on its context | `Buddy`, `Mreg` |
| `Buddy` | one buddy allocator and its user | `MCMachine`, `BuddyProofs` |
| `Mreg` | memory regions on two levels, over `BuddyContext` | `MCMachine`, `MCMreg` |
| `Mpi` | representation and digit-wise arithmetic of the multi-precision integers | `MpiCalls` |
| `MpiCalls` | the calls on numbers by name, which may share | `MpiNumbers` |
| `MpiNumbers` | roots, powers, common divisors, inverses, conversions | `MCMpi` |
| `AesBlock`, `AesCipher` | tables, key schedules and rounds of AES, and FIPS 197 | `MCTrusted` |
| `SymbolicCipher` | a block cipher of which only equality matters | `AesModes`, `Aescbc` |
| `AesModes` | ECB, CBC, CFB, OFB and CTR of a stream in pieces | `MCTrusted` |
| `Aescbc` | encryption of a file with cipher text stealing | `MCTrusted` |
| `Sha2Compile`, `Sha2` | compression, and collecting and padding, of SHA-2 | `MCTrusted`, and `Sha2` `TrustedServiceProofs` |
| `Mprsa` | RSA with the padding of PKCS #1 | `MCTrusted`, `TrustedServiceProofs` |
| `TrustedService` | the service, its buffers and its heap | `MCTrusted`, `TrustedServiceProofs` |
| `Mwc` | the random numbers | `MCTrusted`, `TrustedServiceProofs` |
| `GuestModesProofs`, `KernelStackProofs`, `LinuxMmProofs`, `AllocatorProofs`, `BuddyProofs`, `TrustedServiceProofs`, `ContainersProofs`, `BootProofs` | theorems | TLAPS |

An `MC` module gives the constants of a run. `MCMachine` (the hypervisor and its
libraries) and `MCTrusted` (the trusted guest) hold several components that
share no state: a variable `part`, chosen once, says which of them takes the
steps. They extend or instantiate the modules that theorems are about, so that a
run checks the very formula that is proved; modules that are extended together
have names of their own for their `Init`, `Next` and `Spec` (`SlabSpec`,
`ServiceSpec`, `ContainersSpec`, ...). In `MCMachine` the properties of an
instance have their own names: `HeapHolds` is that of `Heap` while the heap is
the part that runs.

Operators whose comment says *faulty variant* model a mistake in the code and
belong to no specification: when the operator that follows is replaced by one
of them, TLC reports the property it is meant for.

### GuestModes

State: the fields of `virtual_machine` and `hyp_mode_state` (`hyper.h:14-62`)
that the handlers read or write. `irq_off[m]` is the I bit of the psr of mode
`m`; the rest of a register context does not matter here. `context_stack` is
the table of the exception entry: a handler runs at depth 1, the start of the
guest at depth 0. `domain_ac` is the domain register. `status` records which
endless loop the machine ended in, if any.

Each action is a handler to its end: `GuestInit`, `InterruptSet`, `RestoreRegs`,
`RestoreLinuxRegs`, `EndInterrupt`, `Rpc`, `EndRpc`, `OtherHypercall` and
`UnknownHypercall` are the cases of `swi_handler`; `Syscall`, `Abort`, `Irq` and
`Undef` the other exceptions. A failed check of the code is a disjunct that
ends in `Halt`; `Spin` is the endless loop afterwards, so that no state is a
deadlock.

What the guest does is a parameter: `Software[m]` is the set of traps that code
in mode `m` takes and `Args` whether it passes valid arguments. The safety of
the hypervisor must hold for every `Software`; liveness and the absence of
panics for the software it is written for.

### KernelStack

`kstack` is the list of words between the KERNEL stack pointer and the base of
its stack. A word says of which mode and which register it was saved, and one
bit of its value: is a pc or an sp an address in kernel space, is the I bit of
a psr set. `resumed` records what the last RESTORE_LINUX_REGS put into the
registers of the mode it resumed. The module reuses the actions of `GuestModes`
and adds the frames: 80 bytes for a system call, 72 for an abort. That a task
exists at all is the work of the Linux port (`NewTask`, external), which also
sets the `syscall` argument (`SyscallOnTop`, external).

### PageTables and LinuxMm

`flpt` is the master level 1 table, which is Linux's swapper table too; `slpt`
the level 2 tables that the hypervisor gives away from its own memory,
`l2_index_p` of them so far; `pgd` the level 1 tables that Linux has made for
processes, each a copy that was true when it was made; `ttb` the one the MMU
walks. Virtual addresses are indexes of level 1 entries and physical addresses
are pages, the units the code shifts to. The layout (`PAGE_OFFSET`,
`MODULES_VADDR`, `VMALLOC_END`, ...) is a set of constants with the
order the code relies on as `LayoutAssumption`, so that it can be scaled down.
Each hypercall is one action, with the range checks the code makes and no others;
a failed check is status `"panic"`. A handler that goes on with an entry that is no
level 2 table, or at an address that may be mapped or not, ends in status `"wild"`
when it was called for a page of the guest and in `"astray"` when it was called
for another address, after which nothing is said. `SwitchMm` looks up the rights
of a table where the code does: at the entry `LINUX_VA(page)`, which keeps the
megabyte modulo `LinuxSpan`, so that a table outside the guest's memory passes or
fails by the rights of a page that is somewhere else. Sections are of whole
megabytes: the attributes that CREATE_SECTION takes from the guest, of which SET_PMD
would keep bits 12 to 19 in a split (`hyp_mmu.c:265`), are left out.

`LinuxMm` adds the caller. The port is not in the repository; its side is
external and follows what the hypercalls are documented to be used for: map low
memory at boot, make and free process tables, switch to one, map and unmap
level 2 tables. It allocates tables in pages that hold none (`FreePages`). `Mistakes`
are pages outside its memory that it may pass to every hypercall that takes an
address, and with them come sections that it should not ask for: of memory
that is not its own, over the hypervisor's entries and above them. What it does not do
is map the linear map's entries to other megabytes, or sections of tables at
a second place.

### Slab

The pool is a stack of the free objects, filled lazily: `pool_get_raw` numbers
objects by their place in the memory. `const_bottom` is the one index by which
`slab_alloc` knows that an object has never been constructed. Three variables
are history: `built` counts constructor less destructor calls, `held` is what
the user has, `lowest` is the smallest depth the stack has had. `ObjectCache`
knows only `held` and the set of constructed objects.

### Heap

Memory is counted in the eight bytes that a header takes and to which sizes are
rounded. A unit holds a header or `Data`; joining chunks overwrites the second
header with -1 in both words (`Joined`), which `heap_marker_prev` maps to the
header itself: that is how a second free of the block is recognised. The user
overwrites what it asked for. `freed` are the addresses given back whose header
cannot have been overwritten since, and the user may give them back again.

### BuddyContext and Buddy

The context is a record of the fields of `buddy_ctxt_t`. The words of every
page are kept when they become stale, as in the code: a page taken off a list
stays marked free, and only the head of an allocated part is written. The loops
of the code are recursive functions: `Merged` over the orders, `Freed` over the
pages of a block, `Walk` along a list, which stays at its last page. `Buddy`
drives one context with blocks of every order, anywhere or at an address, after
reserving any pages at both ends.

A word has 27 bits for a page and 5 for an order, and there is room for 27 lists
(`free[27]`). `buddy_init` asks for pages of at least 32 bytes, so that 32-bit
addresses give fewer than 2^27 of them: no index or order is ever cut off, and
the model has numbers. Only pages of 32 bytes in more than 2 GB would need a
28th list; an allocator of the memory regions covers a megabyte at most.

### Mreg

Addresses and sizes are pages modulo `W`, so that unsigned arithmetic wraps as
in the code. The two lists are sequences with `list_add` at the front. An
allocation is one action with everything it does: try, shrink the unused
allocators or expand by a megabyte, try again. A megabyte allocator is given
back only by the shrinking. Attached regions do not overlap; two regions that
share a megabyte each keep a buddy allocator for their part of it, and these
parts never join to a megabyte. `malloc` of the bookkeeping succeeds.

### BootMap

Addresses are page numbers. `layout` is the board's `memory_padr_layout`, entry
by entry; each of `MapRange` (an entry), `MapVectors`, `InitLinuxPage` and
`MapTrusted` is what `memory_init` and `guests_init` do in turn. `Tables` puts what
they build in one record, which `pt_create_coarse` and `pt_create_section` take and
return. Level 2 tables are runs of 256 words of `slpt_va`, handed out by
`next_l2` (`l2_index_p` in the code). `Translate` is the walk of the MMU, and
`BootMapSeparates` says of it, page by page, that no guest reaches the hypervisor
(`Separated`), that the devices are where the layout puts them (`DeviceMapped`)
and that Linux finds its memory (`LinuxFindsMemory`). `init_linux_page` patches
pages 4 to 7 of *the table that was made last*, `SwapperPages`; that this is the
table of Linux' first megabyte is one of the things the property depends on. Where
`flpt` lies in the hypervisor's megabyte is for the linker to say; that it is
aligned to 16 KB is checked by `arm_pt.S:18` and assumed.

### GuestImages

The tool and the boot code are one specification, because neither is right
without the other. Memory is words; each word of an image is its own value, so
that the property sees any mixture. `ForeachGuest` writes the entry before it
compares the limit, and `CopyOne` copies one word downwards from the end, the
first in any case, both as in the assembly. A guest that is moved over the
header of the next ends in `HeaderOverwritten`, of which nothing is said.

### Lists and ObjectLists

`next` and `prev` are the links; nothing else says where an item is, and the
user's view `listed` is history. `list_remove` writes four links of up to three
nodes, of an item that is in a list or not any more. `Push` may find no memory
for a larger array; a bit set begins with anything in its words.

### The trusted guest

`Mpi` has the digits as a sequence with `alloc` of them allocated; the `s_mp_`
functions are operators on one number, the `mp_` functions operators on a file
of numbers by name, so that the same name may be argument and result. They are
recursive or fold over digits, like the loops they are; `MCMpi` makes each call
an action and writes down what the integers say it must leave. It calls
`mp_div_d` and `mp_mod_d` with the numbers for which they promise something
(`OfDigit`), leaves out the power 0 modulo 1, and takes common divisors of 0 only
where their loop ends (`Bezout`). Powers of negative numbers are calls of their own
(`PowersOfMinus`), for which the integers are `SignsAreRight`, which does not
hold, and not `AlgorithmsAreExact`; `StaysWellFormed` excepts the sign of an
inverse modulo 1 (`InverseOfMinus`) for the same reason.

`AesBlock` computes with bytes as sets of bits, from the field arithmetic that
the tables are made of, and `AesCipher` compares each round with the standard.
`AesModes` and `Aescbc` need only that decryption undoes encryption, and use
`SymbolicCipher`: a byte is a set of symbols and exclusive or their symmetric
difference, so two bytes are equal only if they are for every key. `Sha2`
likewise keeps the words of the buffer and treats the compression as appending
a block; `Sha2Compile` has the compression. A buffer is what lies in memory, and
words are turned around when they are used as values, so that a word that is
turned too often or not at all shows. The halves of the count have `CountSpan`
values (2^32 and 2^64 in the code, 32 in the run, so that they run over).

`Mprsa` is over integers; it raises to a power bit by bit, lowest first (`ExptMod`
for `mp_exptmod`), and takes the two keys to be a pair (`RsaAssumption`), which
the keys compiled into the service are (`trusted_service.c:32-42`; numbers below
that modulus come back from both powers). `TrustedService` names what each buffer holds by the
key it was made with; its `Tails` are what may lie on the stack behind the
32 digits of a key that has no end.

## 3. Runs

| run | question | bounds |
|---|---|---|
| `kstack_linux` | under the Linux port: are frames taken off as they were pushed, does the bookkeeping never panic, are RPCs synchronous, do RPCs and interrupts return, is it still `GuestModes` | `MaxWords` = 56: a system call with two nested faults |
| `kstack_task_sp` | does the resumed mode depend on the task's sp (*it does*) | as above, the task's sp anywhere |
| `machine` | what holds of the modes whatever the guest does; does protection follow use, and does splitting keep the linear map, whatever is passed and until the level 2 tables run out; does the boot map separate; do guests arrive; do the containers hold; does one index tell raw from constructed objects; do the headers chain the heap, are free neighbours joined and double frees refused (`HeapHolds`); are stale words of the buddy allocator harmless, are free buddies always merged and pages shared out (`BuddyHolds`); do megabytes move between the levels without being lost or shared (`RegionsHold`, `RegionsAreAllocator`) | modes: all modes, all traps, all argument classes; page tables: four megabytes of four pages, tables of two pages, `MaxTable` = 2, tables in seven pages, three pages outside the memory; boot: two boards with their real layouts, with and without the trusted guest; images: files of 2, 1, 3, 1 and 1 words, seven addresses, at most three guests fit (`MAX_GUESTS` = 4); lists: two lists, three items; an array of two that grows to 5 and 11 for four objects; words of three bits; slab: four objects; a heap of 12 units: up to six blocks; buddies of 1, 4 and 6 pages, every `first_free` and `last_free`; regions: 16 pages in megabytes of four, two adjacent unaligned regions, at most two blocks held |
| `mm_active` | is a page table read only under the table that is active (*it is not*) | the page tables of `machine`, no wrong addresses |
| `mm_foreign` | does the MMU walk tables in the guest's memory only (*it does not*) | the page tables of `machine` |
| `mm_cleared` | is everything below the kernel unmapped after GUEST_INIT (*it is not*) | as above |
| `slab_memory` | do the objects of a pool lie in its memory (*they do not*) | four objects of two words |
| `mreg_attach` | does attaching a region free that region only (*it does not*) | regions of two pages inside a megabyte |
| `trusted` | are numbers those of the integers for every way of sharing; are pieces put together again; are cipher, compression and random numbers those of the standards; does RSA open what it wrapped; do key and cipher text fit | digits of two bits, numbers of up to three digits; blocks of three bytes, streams and files of up to 11 and 10; real AES on six keys and two blocks, real SHA-2 on one block of each size; a modulus of 899 with five octets of base 4; messages of up to 42 bytes in words of two and four; one seed, 21 draws |
| `mpi_room` | has every digit that is stored room (*it has not*) | numbers of up to three digits of two bits |
| `mpi_signs` | are signs right also of powers of negative numbers, and is zero positive (*no*) | as above |
| `rsa_i2osp` | are short numbers filled up with zeros (*they are not*) | as `trusted` |

**Why the bounds are enough.** There is one virtual machine with four modes, as
in the code (`curr_vm` is `vm_0`), so the state space of `GuestModes` is
complete. Frames nest: each is pushed and popped relative to the one below, so
one system call frame under two abort frames meets every pair of neighbours. In
`LinuxMm` one megabyte of the linear map is mapped by pages from the start and
two of the other three can get a table: so a split, a second split, and the
attempt for which no table is left all happen, with process tables made before
and after each of them. `LinuxSpan` is one more than the guest's megabytes and
`Mistakes` has a page whose alias has no level 2 table (16), one that wraps to a
writable page (40) and one that wraps to the swapper table (42), so that
SWITCH_MM goes astray, refuses and accepts; for the range checks of the other
calls 16 is below the hypervisor's entries and 40 and 42 are above. `LastIndex` leaves one entry above
those CREATE_SECTION refuses. The heap reaches chunks with free, taken and no
neighbours on each side and every way of splitting them. Six pages give a buddy
allocator four lists, of which no block fits the last, and a block of four
whose buddy is cut off by the end; orders above do the same again. The regions of `mreg` give one megabyte each, which join to a range,
and a page before the first and one behind the second; so a megabyte is cut
from either end of a range, becomes an allocator and comes back, next to
allocators that stay. Two blocks at once suffice for a parent to be in use by
one block while another is given back.

The boot map is built once from fixed numbers: the two boards are the ones whose
layouts compile and fit, and their every page is looked at. Three guests of
different lengths at seven addresses meet in every order and overlap, partly
or fully, with the places they are packed at; with four the limit is met. Three
items give a list a first, a middle and a last; an item that was removed is
removed again, and put into the other list.

A carry, a borrow and a quotient digit that is estimated too large occur with
three digits of two bits, for all values of them; `Spare` digits that are
allocated and not used show what is left behind. Streams of 11 bytes in blocks
of three meet every position in a block at both ends, the fast paths (a buffer
of two blocks) and the rest. A modulus of 899 with padding of one octet leaves
all the cases of the format, short results included; that the numbers are
computed correctly is the other module's. In 21 draws the window of random
numbers jumps back twice.

No symmetry is used. Deadlock is checked except in `machine`, `trusted` and the
refuted runs of the regions and of the trusted guest, where a full allocator whose user has nothing left to
ask for, a boot that is done, a cipher that is done and a call that never returns
may stop. `kstack_linux` has the handlers of `GuestModes` with the check on.

**Fairness.** `FairSpec` (and `KFairSpec` over it) asks strong fairness of
`EndRpc` and `EndInterrupt` only: `handler_rpc` of the trusted service has no
loop and ends in `finish_rpc` (`trusted_service.c:187-228`), and an interrupt
handler of the port always issues END_INTERRUPT. Strong, since either may be
interrupted by other traps of the same mode any number of times. The other
software owes nothing; it may stop anywhere.

**Findings**, each shown by a run that TLC refutes:

1. `kstack_task_sp`: `hypercall_restore_linux_regs` reads the pc of a system
   call frame two words too low (`hypercalls.c:103`) and finds the saved sp. A
   task whose stack pointer is at or above 0xC0000000 is resumed as kernel code.
2. `mm_active`: NEW_PGD and SET_PMD protect a page table by splitting the
   section in the master table (`hyp_mmu.c:164`, `:265`); a process table that
   copied the section before keeps it writable, and the MMU walks that one.
   The manual says page tables are read only.
3. `mm_foreign`: SWITCH_MM checks an address of which `LINUX_VA` has kept eight
   bits (`hyp_mmu.c:49`), so that the check (`:67`) never refuses; it tests the
   rights of the page with the same number modulo 256 MB and loads the table
   base as it was passed.
4. `mm_cleared`: `clear_linux_mappings` indexes 1 MB entries by address >> 21
   (`linux_init.c:37`) and clears half of the entries it is meant to.
5. `slab_memory`: `pool_init` and `pool_get_raw` add bytes to a `void **`
   (`pool.c:37`, `:74`): the last objects lie behind the memory item.
6. `mreg_attach`: a region that ends before its first megabyte boundary makes
   an unsigned size wrap (`mreg.c:365`), and nearly the whole address space
   becomes free memory.
7. `mpi_room`: `s_mp_mul_d` asks for one more digit only if the top digit's own
   product carries (`mpi.c:3187`); with a carry from below it stores a digit
   behind those allocated (`mpi.c:3202`).
8. `mpi_signs`: `mp_expt` gives a power the sign of the base when the exponent is
   even (`mpi.c:1318`): (-2)^2 is -4. `mp_exptmod_d` multiplies magnitudes, too,
   and `mp_invmod` (`mpi.c:2214`) leaves a zero with a sign modulo 1.
9. `rsa_i2osp`: `mp_i2osp` subtracts the wrong way round (`mprsa.c:34`); a
   result shorter than the modulus is written in front of the buffer.

Observations that no run is devoted to:

- A task can make the two RPC hypercalls (`handlers.c:11-21`), which the manual
  (page 21) rules out and a comment calls temporary. The models let it.
- If the service turned interrupts on while it works for an interrupt handler,
  a second interrupt would overwrite `interrupted_mode` (`handlers.c:251`). The
  service of the repository never does; nothing in the hypervisor stops it.
- The branch of the abort handlers that enables interrupts for faults from user
  space is dead: its test looks at bits that are clear in every guest mode.
- `heap_free` compares with a bound eight times too far (`heap.c:128`).
- A page freed twice is refused by `buddy_free` only if its words still say it
  is free (`buddy.c:336`); merged into the block before it, they do not.
- `mreg_level1_free` joins a range at address 0 with one that ends at the top
  of the address space (`mreg.c:215`); `mreg_level1_allocate_at` uses the null
  pointer that the split returns without memory (`mreg.c:178`).
- Seven guests fit behind the hypervisor, not eight (`arm_guest_blob.S:60`), and
  one word is copied of a guest that has none (`:67`).
- `exception_vector` is a null pointer until GUEST_INIT, and handlers read
  through it (`handlers.c:51`); so does `hypercall_rpc` in a configuration
  without RPC handlers (`hyp_rpc.c:12`).
- Interrupt mode starts on the kernel's stack pointer, so that an abort in it
  would push its frame over the live stack (`handlers.c:257`).
- Clearing an entry that is empty computes an index from the physical address 0
  and writes outside the table (`hyp_mmu.c:252`).
- The memory layouts of `ovp_arm9` and `u8500_ref` use the type `MLT_IO_REG`, which
  does not exist; that of the beaglebone (`board_mem.c:11`) maps more pages in
  one range than the level 2 tables behind it hold.
- `soc_interrupt.c` of u8500 masks with `ICENABLER &= ~bit` (`:35`); the timer of
  omap35xx has a start that is or-ed complemented into its control register.
- `interrupt_set` of omap35xx keeps one handler for all interrupts
  (`soc_interrupt.c:74`).

## 4. Proofs

**`GuestModesProofs`** proves, for every `Software` and `Args`:

- `TypeCorrect`: `TypeOK`.
- `ContextCorrect`, `IsolationCorrect`: the context slot and the domains follow
  the mode. `Protection` is inductive together with what `boot` says about the
  context slot (`BootContext`).
- `RpcPairing`: `RpcPaired` is inductive given the types.
- `ServiceForCaller`: `TrustedRunsForCaller` alone is not inductive, as END_RPC
  would close the channel of a service that is also recorded as interrupted;
  `TrustedNotTwice` excludes that.
- `AbandonedCallStays`: `AbandonedForGood`. A service that lost the processor to a
  fault or a context restore (`handlers.c:195`) leaves its call open for good: no
  step resumes it, because the only steps into its mode are a call, which
  panics while another is open, and an END_INTERRUPT that finds it recorded.
- `ChannelRefinement`: every step is a step of `RpcChannel` or a stutter.
- `InterruptReturnKnown`, assuming `ServiceKeepsIrqOff`, and `RpcIsSynchronous`,
  assuming `ServiceOnlyReplies`. The two assumptions are about `Software` and
  hold of `trusted_service.c:187-228`: RPC starts the service with 0xD0 and
  END_RPC is its only hypercall.

- `NoPanic`, assuming `PortSoftware`: `NoBookkeepingPanic`. `PortSoftware` says
  that only the service replies and does nothing else, and that interrupt mode
  neither faults nor restores a context and is left with END_INTERRUPT, which
  nobody else calls. `Bookkeeping` is the inductive invariant: its new part,
  `InterruptedBelow`, says that a mode is recorded as interrupted exactly while
  the machine works for interrupt mode, be it in the service.

The lemma `StepKinds` classifies every step of `Next` once (it halts, stays,
starts the guest, moves control, interrupts, ends an interrupt, calls or
replies); the invariants are then proved over the kinds.

**`KernelStackProofs`** proves, for a stack of any size and faults nested to any
depth, assuming `LinuxPort` (`PortSoftware`, pointers into the kernel's memory,
and the stacks of tasks in the memory of tasks):

- `StackIsEmptied`, `ResumeCorrect`, `TaskIrqOn`: `StackEmptyInTask`,
  `ResumesWhereTrapped` and `TaskRunsWithIrqOn`.
- `StackRefinesModes`: the machine with its frames is one of `GuestModes`, so
  all theorems about every guest hold for it.

The inductive invariant is `StackShape`: the stack is a row of 18-word kernel
frames above at most one frame of a task, of 18 or 20 words, each register in its
place. From it alone follow all decisions of RESTORE_LINUX_REGS: a kernel frame
does not begin with r4 and has a pc in the kernel, so 18 words go; and the frame of
a task is the last, so what goes is everything. `PushKernelFrame` and
`PopKernelFrame` carry the shape over a push and a pop by moving the frames, word by
word (`MovedKernelFrame`, `MovedFaultFrame`, `MovedCallFrame`), so no induction
over the depth is needed. `NoFrameBelowTask` keeps the stack empty while a task is
interrupted or waits for the service, and `Bookkeeping` says when it is. The third
assumption cannot be dropped: the run `kstack_task_sp` shows what happens without
it.

**`LinuxMmProofs`** proves, for every layout that the two assumptions allow, any
number of level 2 tables and any pairs of entries that do not overlap:

- `TablesAreReadOnly`: `ReadOnlyExactlyTables`.
- `ActiveIsReadOnly`: `ActiveTableProtected`, of the tables in the guest's memory.
  Others can become active as well (finding 3), and nothing is said of these.
- `LinearMapCorrect`: `LinearMapTrue`.
- `OnlyTablesRunOut`: `WildOnlyOutOfTables`, of calls for pages of the guest. A call
  for another address can go astray while tables are left.

All of them hold with `Mistakes`, whatever pages outside the guest's memory it has.

The inductive invariant is `MmInv`. A mistaken call either ends the machine or
leaves all but `ttb` and the entries above the hypervisor as they were (`MistakeStep`,
`SwitchMistaken`, `HighSectionStep`). Its heart is `InUseProtected`: a page is read
only exactly while it holds a table, and a page that is not mapped holds none.
To keep that over a step one has to know which pages leave use with it, so
`TablesApart` and `PtesApart` say that no page is part of two tables, and that only
the kernel's level 2 tables are shared, which no process clears. `MasterMaps`
says that no two megabytes share a level 2 table; from it `AccessChange`
concludes that a handler changes the access to the pages it means and to no
others, as `SpanInMegabyte` keeps an aligned level 1 table in one of them.
`MasterMaps` and `CopiesMap` hold even after a handler has stopped the machine.
The layout needs `VMALLOC_END <= 2 * (PAGE_OFFSET - 1)`: the entries that
GUEST_INIT clears by mistake (finding 4) are then all below the linear map.

**`AllocatorProofs`** proves, for every `ItemCount`:

- `SlabLosesNothing`, `SlabIsLazy`: `NothingLost` and `LazyConstruction` of the run
  `machine`.
- `SlabBuildsOnce`: an object is constructed before it is handed out, once, and
  cleanup destructs exactly the constructed ones.
- `SlabImplementsCache`: every step is a step of `ObjectCache` or a stutter.

None of these is inductive: that objects may come back in any order is
harmless only because the slots at and below `const_bottom` have never been
popped. `StackInv` says so: each such slot still holds the raw object of its
own number, and all other objects are constructed. `IdleInv` says what holds
before and after the cache is in use. `RoomForHeld`, by cardinality, shows that
the silent drop in `pool_free` is never taken for an object the user has.

and for every `HeapSize` and block sizes from 1 up:

- `HeapIsWhole`: `HeapHolds`. The walk over the headers covers the heap and is
  the same backwards, the taken chunks are the user's blocks, of two free
  neighbours none is left unjoined, and a block given back twice is refused.
- `HeapIsAllocator`: every step is one of `Allocator` or a stutter.

`Chunks` is defined by the walk, as the code knows it, so a proof by steps of
the walk would be induction over data. `Chain(m, C)` avoids it: it says of a
set `C` of headers, without a walk, that each but the last has a neighbour in
`C` behind it that points back, that each but the first is such a neighbour, and
that no header of `C` lies inside the chunk of another. `ChunksOfChain` shows once that
the walk of such memory meets exactly `C`: if it missed a header, there would be
a least one, and its neighbour in front would be met. `HeapInv` says that
memory is a chain whose taken chunks are the blocks, with no two free neighbours;
splitting, joining forwards and joining backwards are each a lemma about `Chain`,
and only the joining backwards has to look at the mark of the chunk in front.
What is known of the addresses in `freed` is that a header that lies there still says it
is free, or that two words of -1 do.

**`BuddyProofs`** proves, for any number of pages, of which any range is given,
and any order of calls, `BuddyShares`: `BuddyHolds`, which is `WordsAreTrue`,
`PagesAreShared` and `RoomIsFound`.

What is free is in no variable, but in lists through words of which most are out
of date. The inductive invariant `BuddyInv` therefore says that there *is* a set
`F` of free blocks such that the context is `Good` for it: `F` and the blocks in
use tile the given pages (`Tiles`); the words of every block of `F` say that it is
free and of its order, those of every block in use that it is not, and pages that
were not given never say it is free; no two buddies are in `F` (`NoBuddies`); and
the list of each order is a `Chain` of the blocks of that order. A chain is not
defined by walking it: each page but the last has a next one that points back, and
a *rank* that grows along the links forbids rings; so taking a page out of the
front, the middle or the end is one step and needs no induction
(`RemoveFreeKeeps`, `AddFreeKeeps`).

- `buddy_free` believes what the words of the buddy say, and they may be old.
  `MergeableIsFree` shows that it is right to: a block that begins at the page of
  the buddy and has its order is free or in use, and its words are kept; a block
  of another order has words that say so; and a page inside a block cannot be that
  page, because aligned blocks lie within each other or apart (`Nested`), and the
  one that holds it would hold the block that is freed as well. `HoleAt` is the
  invariant of the loop: all is good but for one block that is in nobody's hands,
  and no smaller merge is left to do.
- `buddy_allocate_subset` marks all pages as single blocks in use and frees those
  it does not need, one by one: `FreeEachKeeps` carries the lemma about one
  `buddy_free` over the loop, and `buddy_init` is the same loop.
- `ListIsWalked` shows that the walk of `buddy_alloc_at` meets all blocks of a
  list within as many steps as there are pages: the number of pages in front,
  by rank, grows with each step.
- `RoomIsFound` follows from `NoBuddies` alone: if a least run of free pages lay in
  no free block, its halves would, and these would be buddies (`HalvesMerged`).

Loops are recursive functions here, so their proofs take the least round at
which what is claimed would fail (`RoundsExist`, `TurnsExist`, `StepsExist` show
that there is a function that satisfies the recursion at all).

**`TrustedServiceProofs`** proves, for every `HeapRoom`, key and length of
message, `KeyAndCipherFit`: `KeyFitsCipher`. `ServiceInv` adds how the service is
before its first call (`Untouched`); from then on the heap only shrinks, so while it
has room for RSA no RSA operation has failed, and the key was replaced whenever
the cipher text was.

It proves as well, for octets, a modulus and a padding of any size, `RsaOpens`:
`FullLengthOpens`. `Wrapped` remembers which text was raised to a power, and that
it is one of its type with a padding without zeros (`EncodePads`,
`EncodeSHAPads`). Opening it takes five facts. The power is below the modulus,
since every bit of the exponent leaves numbers below it (`PowerInRange`), so the
range check of the receiver passes. A number of full length fills its buffer
(`FullLength`); no other does, which is why the property speaks of no other, see
finding 9. Its octets read as the number again (`OctetsRead`), and the
other way round a text is the octets of its number, whose size is that of the
modulus as the first octet is the type and not zero (`ReadOctets`); both relate
what was read of a string to the quotient of the number by a power of the base.
The keys undo each other (`RsaAssumption`). And the first zero behind the least
padding is the separator (`Unwraps`). That the recursive functions exist at all
is `LoopRuns`, again by a least counterexample.

And for words, blocks, counts and pieces of any size, `DigestIsOfWhole`:
`DigestOfWhole`. `Sha2Inv` says what the context holds before the end: the full
blocks of the message so far were compiled (`Collected`) and the rest is at the
start of the buffer, of which nothing else is known; and the two halves of the
count are the quotient and the remainder of the bytes by `CountSpan` (`Counted`).
A turn of the loop keeps `FillStates`, and `FillEnds` shows that the turns are
enough. Three facts are about arithmetic. The lower half is less than what was
just added exactly when it ran over (`CountMoves`); shifted by three bits, with
those carried over that fall out of the lower half, the halves are the length in
bits, which they have room for because messages keep to the standard's bound
(`CountParts`); and the lower half alone tells the place in the block,
since blocks divide its span (`Remainder`). The rest is about bytes: turning the
words around twice puts them back (`ValuesSwapped`), while at the end only the
words that have bytes are turned, and the mask drops what is stale in the last of
them (`MarkedBytes`); the zeros reach from there to the length, in this block
(`PaddedWithin`) or with the length in one of its own, where the last word of this
one is zeroed only when the bit is not in it (`PaddedBehind`).

At last, for every seed and any number of draws, `DrawsMoveUp`: `WindowIsShift`.
`MwcInv` says that all words are words and that the window lies in its buffer.
Wherever it lies, the words behind the new carry and number are the seven that
the comment of `rand_mwc` would have moved (`SlideMoves`); the carry fits because
a word times a weight carries less than the weight (`CarryOfOne`), and the weights
add up to less than 65536 (`WeightsFit`); and the numbers after seeding are words
because each is made of a low word (`GeneratedWords`, by `LoopRuns`).

**`ContainersProofs`** proves, for any finite set of items and objects, any
number of lists, and words and sets of any size, `ContainersKeep`:
`ContainersHold`. `Rings` says of the links alone that every list is a ring, in
both directions, and that every other item is linked to itself or to nothing;
adding and removing change the four links at one place of one ring (`AddToRing`,
`CutRing`, `OneListChanges`), and an item that was removed before is taken out
of a ring of its own (`TakeAgain`). The walk is a recursive function, and
`WalkMeets` shows by a least counterexample that there is only one and that it
meets the items of the ring. The object list always has a place left
(`curr < size`), which is why appending never writes behind the array; that needs
an initial size of at least one. The bit set rests on whole words
(`WholeWords`, `WordOf`): without the rounding up a bit would have no word.

**`BootProofs`** proves, wherever the linker puts the level 1 table and the
vectors in the hypervisor's megabyte, for both boards, with and without the trusted
guest, `BootTablesSeparate`: `BootMapSeparates`. The order of the steps is fixed, so
`BootInv` says of each stage what the tables are: `Before` while the layout is
mapped, `After` when Linux has its memory, `Ready` at the start.

- The numbers of the boards are read once: each entry of a layout keeps
  `EntryRule` (what it maps, it maps away from the hypervisor's megabyte, the
  vectors, Linux and the trusted guest, and within one megabyte), and two device
  entries are `Apart` (`LayoutRules`, `LayoutApart`). After that no lemma looks at a
  number of a layout.
- `CoarseEffect`, `SectionsEffect` and `SwapperEffect` say of every page of the
  address space what a call does to it: the pages of the range lead where they
  should, all others lead where they did. They need what `TablesOk` says: a table
  belongs to one megabyte only, and one not yet handed out has no words, so that
  mapping a range into a new table brings no page of another; and that tables are
  left, of which at most 13 of 33 are used.
- `SwapperEffect` needs that Linux' megabyte has the last table. It has, because
  nothing is mapped there before (`LowOrDevice`), so that `pt_create_coarse` takes
  a new one; were a device in that megabyte, the level 1 table would be shown to
  the guest at four pages of something else.

It proves as well, for any number of guests, images of any length
and any addresses, `ImagesArrive`: `GuestsArrive`. `ImagesInv` says where every
word is during the move: `Unharmed`, for guests that fit or not, that the two
words in front of a guest to come are those the tool wrote, or so overwritten that the
code can tell (`HeaderOverwritten`); `Moved`, for guests that fit, that each
word is still at its old place or already at its new one. A word that is copied
could lie on three others: on one that has moved, but targets do not
overlap; on one of the same guest that has yet to move, but copying goes
downwards and a target is not below its source; or on a guest that is still to
come. That last case is why the tool sorts: `AboveSources` concludes from the
order of the addresses that a guest goes above the targets of all that follow, and so
above their places. The packing is a recursive function; `PackExists` and
`PlacesOfPack` show by a least counterexample that it is the one that lays the
guests out behind each other. An empty guest is left out, as the code copies a
word for it that is none of its: `Fits` asks for none, and so does the invariant.

The assumptions on constants are those of the modules; what they say beyond
types is that items and objects are finitely many, that no object is the null
pointer, that an array begins with a place (`olist.c:12` has 24), and that the
machine has memory for the packed guests and at the addresses asked for, behind
the hypervisor's own data; that the level 1 table is aligned (`arm_pt.S:18`); and
that the keys of RSA are a pair and its texts fit the modulus; that the span of the
count of SHA-2 is one of blocks and of bytes (powers of two in the code), that a
piece is shorter than it (`len` is a 32-bit number), and that messages are within the
bound of the standard, below the span squared in bits; and that seeds are natural
numbers (the code's have 32 bits, and then no number of `mwc.c` overflows 32). TLC
evaluates each of them on the constants of the runs.

Only model-checked:

- the liveness properties and the fairness of `RefinesGuestModes`: the prover
  has no rule for fairness;
- `Mreg`: its two levels run over sequences and bags of regions with nested
  loops; the lemmas about one buddy allocator in `BuddyProofs` are where a proof
  would begin;
- the trusted guest's numbers, cipher, file encryption and the compression of
  SHA-2 (`StaysWellFormed`, `ArithmeticIsExact`, `AlgorithmsAreExact`,
  `DecryptsToPlain`, `CipherIsAes`, `CompilesAsStandard`), which are recursive or
  fold over digits, bytes and rounds; `Mprsa`, `Sha2` and `Mwc` were, until their
  loops became recursive functions.

## 5. Not modelled

- Interrupt controllers and timers: their registers are devices, whose behaviour
  the repository does not say. `Irq` of `GuestModes` starts where the dispatcher
  calls `irq_handler`; what reading these files showed is among the observations.
- The guest's own start and call stubs in assembly, and the exception entry in
  assembly beyond the context slot and the masks.
- SET_PTE, which is a range check and two stores into guest memory; caches, the
  TLB, and the hypercalls that only touch these or an identifier register.
- Aborts inside the hypervisor (an unmapped kernel stack), and what the guest
  keeps on its stacks beside the frames.
- A `malloc` that fails in the memory regions and the numbers, freeing memory
  that is not the allocator's, and the configuration without RPC handlers.
- Of the numbers, the sizes and error strings of their written forms; of the
  trusted guest, `verifyContract`, which nobody calls, and its messages.
- Drivers, consoles and boards (register accesses), board layouts that do not
  compile, the C and test libraries (no state), the heap set-up of the
  hypervisor (wrappers), the minimal guest, templates and simulation support.

## 6. Plan

Done, in this order: modes and RPC, frames, proofs of the modes, page tables,
slab and its proofs, heap, buddy allocator, memory regions; then the trusted guest
(numbers, RSA, AES, SHA-2, file encryption, the service), the boot map, guest
images, lists and containers, and the proofs about the frames, the page tables,
the boot map, RSA, the digests and the random numbers.

Next, to model:

1. `BuddyContext` under a user who frees a page twice, and `Mreg` with a
   `malloc` that fails: both change what a step of the existing modules may do.
2. `TrustedService` inside the RPC of `GuestModes`, in place of the abstract
   service: its calls are long, but interrupts are off while it runs, so what
   would be gained is the composition of its buffers with the caller's.

Next, to prove: `Mreg`, on the lemmas of `BuddyProofs` about one context. A
megabyte allocator is a `Good` context whose blocks in use are those `held` from
it; what is missing is that the two lists and `held` tile the attached regions
(`RegionsHold`), and that their nested loops keep it.
