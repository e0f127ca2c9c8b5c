# A verification project for Carburizer

Carburizer makes Linux drivers survive failures of their hardware.  It has a
static part, an extension of CIL that finds and rewrites code that trusts a
device too much, and a runtime part, kernel modules that the rewritten drivers
are linked with.  This directory holds TLA+ models of the runtime part, the TLC
runs that check them, and theorems that TLAPS checks.

## The system

| Component | Source | State it keeps | Operations | Hard behaviour |
|---|---|---|---|---|
| crmod, recovery | `fi_module/crmod.c` 106-122, 284-547, 587-619 | `timer_semaphore`, `interrupt_handler_called`, `problem_pending`, `unproductive_interrupts`, `crmod_timer_length`; the referenced bits of the drivers' pages | `crmod_check_function`, `ref_bits_set`, `clear_ref_bits`, `call_all_interrupt_handlers`, the counting half of `cr_irq_handler`, `cr_ioctl` | a periodic worker, interrupts on many lines and drivers race on one counter and on hardware bits; evidence is collected in two checks and must not be lost or stale |
| crmod, interrupt table | `crmod.c` 95-104, 372-399, 587-666 | `cr_irq_handlers`, `cr_irq_parameters` | `cr_request_irq`, `cr_free_irq`, the call in `cr_irq_handler`, the loop of the worker | nothing protects the table; shared lines; refused requests; the entry is cleared before the line is freed |
| crmod, life cycle | `crmod.c` 78-93, 135-183, 534-585 | work queue and work, `cr_base_address`, `cr_module_size`, `cr_num_drivers` | `init_module`, `cleanup_module`, `crmod_work_thread`, `cr_force_register`, `cr_pci_register_driver` | a work that queues itself again while it is cancelled, or while the module fails to load; drivers that are registered at once |
| fimod, regions | `fi_module/fimod.c` 144-166, 480-592, 1286-1670 | `fi_iomem_map`, its lock, the stuck-bit masks of every region | `fi_init_iomem`, `fi_clear_iomem`, some fifteen wrappers of mapping and allocation functions, `dma_corruption` | allocation and freeing outside the lock; a lock that one function takes and another releases; address 0, which failed allocations enter and which marks an empty slot |
| fimod, lines | `fimod.c` 186-191, 410-475, 1840-2170 | the mode, the lists of selected and tracked lines, the forced lines with their counts | `fi_verify_line`, `fi_contains_line_force_generic`, `fi_ioctl` | entries written under a lock and read without it; unlocked counters; -1 as a line and as a mark |
| fimod, faults | `fimod.c` 370-475, 593-1205, 2113-2170 | `fi_types`, the stuck-at masks, the list of affected lines | `fi_modify8/16/32` with their helpers, the wrappers of `readb`, `outl`, `ioread16_rep` and so on with the critical sections of `fi_verify_line`, the ioctls | two nested locks, taken in processes and in the interrupts that preempt them, while the administrator draws new masks |
| fimod, interrupts | `fimod.c` 314-338, 1207-1283 | `fi_irq_handlers`, the last random number | `fi_request_irq`, `fi_free_irq`, 0, 1 or 2 calls of the handler for an interrupt | one generator decides the faults of all, on lines whose interrupts overlap; its low bits have short periods; the entry is cleared before the line is freed |
| fimod, USB | `fimod.c` 1672-1834 | a context per submitted URB | `fi_usb_submit_urb`, `fi_usb_completion` | refused submissions leave URBs wrapped, routines submit their URB again, memory runs out |
| fi_control | `fi_module/fi_control.c` | none | parses commands twice, issues ioctls | the code sent must mean what the command says, also when words are missing or meant for the other module |
| Carburizer | `cil/src/ext/drivers.ml`, `security.ml`, `original/carburizer.ml` | a table of tainted expressions, counters | two visitors over the syntax tree that find and rewrite infinite polling, unchecked array and pointer use | the loop it rewrites must terminate whatever the device does |

They interact as follows.  A driver that was compiled with Carburizer registers
its module with crmod, and requests and frees its interrupts through crmod's (or
fimod's) wrappers.  The wrapper counts every interrupt.  crmod's worker looks at
the count and at the referenced bits of the drivers' pages, and calls all
handlers in the table if drivers were active and no interrupt came.  With fimod
instead, the driver's accesses and allocations go through fault-injecting
wrappers, which consult the tables of regions and of lines that the
administrator changes by ioctl from fi_control.  crmod and fimod share no state.

What makes each of them correct:

* recovery: handlers are polled only after two checks between which no interrupt
  was counted on any line (then all of them are, those of healthy devices too);
  a device that stops interrupting is eventually served; a storm is stopped;
  polling stops when nothing happens;
* interrupt table: a driver with a line of its own is called between request and
  free, with its own device, once at a time by the line and by the worker; NULL
  is called, or passed, in known races only;
* life cycle: the checks go on while the module is loaded; unloading terminates;
  every driver in use is scanned; the table is overrun only by more loads than
  it has entries;
* regions: no region twice, no mask freed twice or dangling, and none leaked but
  for regions that are entered twice and for address 0; a wrapper returns
  without the lock; corruption hits DMA memory only;
* lines: panics have known causes; selected lines get faults according to the
  mode; forced faults are bounded and end;
* faults: an access sees masks that belong together; what was corrupted is on
  record; the locks do not deadlock;
* interrupts of fimod: the faults that are switched on happen; NULL is called
  only while the line is being freed or if it is shared;
* USB: every accepted submission comes back to its driver once, with the
  driver's own context, however often the URB was wrapped;
* fi_control: a command line does what its commands mean, or nothing;
* Carburizer: a rewritten loop ends whatever the device does, after the number
  of rounds it promises.

## The modules

| Module | Models | Composes |
|---|---|---|
| `CrPoll` | recovery protocol | |
| `IrqContract` | abstract specification: what a driver may rely on | |
| `IrqTable` | interrupt table and its three users | instantiates `IrqContract` |
| `CrModule` | life cycle and registration | |
| `FiIomem` | table of regions | |
| `FiLines` | selection of lines and forced faults | |
| `FiAccess` | faults on accesses, and the two locks | |
| `FiIrq` | fimod's interrupt wrapper and its random numbers | |
| `UrbContract` | abstract specification: what a USB driver may rely on | |
| `FiUsb` | USB wrappers | instantiates `UrbContract` |
| `FiControl` | fi_control, and what its ioctls do to both modules | |
| `HardenedLoop` | a loop as Carburizer generates it | |
| `CrPollProofs`, `IrqTableProofs`, `FiIomemProofs`, `FiLinesProofs`, `FiAccessProofs`, `FiIrqProofs`, `FiUsbProofs` | theorems | extend their module |
| `CarburizerProofs` | theorems about what a driver gets from Carburizer, and about fi_control | extends `CrModule`, `HardenedLoop` and `FiControl` |
| `MCCrPoll`, `MCIrqTable`, `MCFiIomem`, `MCFiLines`, `MCFiAccess` | constants for TLC | extend their module |

### CrPoll

The steps are the accesses to shared state.  `crmod_check_function` is cut at
every read and write of `interrupt_handler_called` and of a referenced bit:
`StartCheck` (down and the first test), `AskCounter`, `PollHandler` for one line
after the other, `Productive` and `Unproductive`, or `LookCounter`, `ScanPage`,
`Silence` and `Flowing`; then `ZeroThenClear`/`ClearPage`/`FlushTlb`, or
`ClearPage`/`FlushTlb`/`ZeroLast`, in the order of the branch that is taken; and
`FinishCheck`.  The wrapper is cut into the call of the handler (`Interrupt`),
the increment, the test with `disable_irq_nosync`, and the reset.  The
environment uses drivers, makes requests whose interrupt is raised or silent,
evicts TLB entries, and disables and enables lines.  The processor sets a
referenced bit only when it walks the page table, hence `tlb`.  An interrupt may
be spurious, which is how a storm happens.

`heard` is a history variable: was an interrupt counted since the worker armed
or a stuck line was shut down?  Lines and pages are registered throughout; their
coming and going is the subject of `IrqTable` and `CrModule`.  The device's work
is one item per line.

### IrqTable and IrqContract

Every store to the table and every load from it is a step.  The drivers' steps
are those of `cr_request_irq` and `cr_free_irq`; `request_irq` may refuse, and
`free_irq` unlinks the action and waits for the interrupt that is being handled
on the line.  The kernel walks the actions of a line, and each of them is the
wrapper with a `dev_id`.  The worker's loop tests, reads the parameter and reads
the handler again.  A call of NULL stops the machine.

The environment may do all that the code admits: lines are shared (`Line` maps
drivers to lines as it likes), the kernel refuses requests, drivers come and go
while the worker polls, and devices interrupt while their line is freed.  What
can be said of the table in spite of that is said of the drivers in `Own`, which
are those that share their line with nobody.  `raced` is a history variable: was
a driver requesting or freeing the line that the worker is at since it tested
the entry?  `NullCallIsARace` and `RightDevice` say that nothing but two races
harms such a driver: its device interrupts while it is inside `cr_free_irq`, or
the worker is at its entry while it requests or frees the line.  `NoNullCall`,
which the code does not give, is stated and not checked.

`IrqContract` has no table.  A driver is `bound` from its request to the end of
its free, `entered` while the runtime knows its handler, and `running` says
which handlers run, for whom and with which device.  It admits what a driver has
to put up with: a refusal leaves it entered (`Refuse`), a handler that the
worker has called outlives the free (`Unbind` waits for the line only), and the
worker may pass NULL (`CallPolled`).

### CrModule

The kernel's delayed work is a timer, a pending bit, a queue and a thread, as
far as the module uses it.  `init_module` and `cleanup_module` are cut at every
call, and `create_singlethread_workqueue` and `misc_register` may fail.
`cr_force_register` is cut at each of its uses of `cr_num_drivers`, for drivers
that are loaded one by one or at once.  A constant chooses between the two kinds
of kernel that the source distinguishes.

`broken` records how the code has gone wrong for good, after which the model
stops: it uses a queue that it did not get (`UseNullQueue`), the timer overtakes
`init_module` and a check goes down on a semaphore that is not initialised
(`CheckEarly`), a check runs in a module that is gone (`RunWhenGone`), a driver
is entered past the end of the table (`Overrun`), and the panic over a size that
is no multiple of a page (`CheckSize`), which drivers that are registered at
once bring about.  `loads` and `met` are history variables: the loads so far,
and the drivers whose last registration overlapped another one.  `MaxLoads`
bounds the loads.

### FiIomem

A critical section of `fi_iomem_map_lock` is one step; what happens outside it
(allocation and freeing) is in steps of its own.  `lock` is a variable only
because `fi_clear_iomem` can return without releasing it.  Drivers may enter a
region twice, release one that was never entered, and remap as they like, also
in two threads on the same region.  Allocations and mappings may fail and
resources be absent, and the wrappers then enter or clear address 0.  The
allocation of masks may fail as well; the thread then falls over them, with the
lock.  Contents and sizes of masks are left out.

### FiLines

A call goes through `fi_track_line`, the three reads of the mode and the look-up
in `fi_verify_line`, and the unlocked steps of `fi_contains_line_force_generic`,
in which `num_faults++` is a load and a store.  The administrator writes an
entry field by field (`script`) while he holds the lock.  He may change anything
at any time, also while calls are under way.  Values, odds and the three
operations are abstracted: a roll of the dice is a choice.  `UMax` is the
largest unsigned integer, which is also how -1 reads.  A call of
`dma_corruption` is a call on line -1 that goes straight to the entries.  A
panic stops the machine.

There are two history variables.  `met` says of each call what was changed while
it was under way, the selection or the entries.  `forced` counts the faults, not
what the code counts of them: how many an entry has forced since it was written,
up to `Tally`, and `Unknown` if calls were under way when it was written.

### FiAccess

An access goes from the wrapper (`Begin`) through the two critical sections of
`fi_verify_line`, in which the line is tracked and looked up (`VerifyLine`,
`LineVerified`), to its elements (`TestSwitch`, `NextElement`) and through the
helpers of `fi_modify8/16/32` in their order (`Modify`, `Flip`, `TestStuck`,
`LockMap`, `ApplyMasks` or `NoMapping`, `UnlockMap`, `Garbage`, `ForceValue`);
and from each of them, if the value is another, into `fi_add_line_affected`
(`LockLines`, `AddLine`, `Continue`).  Of a value the model knows only whether
it is the one that was given; `FiLines` has the verdict of `fi_verify_line`, its
panics, and the details of a forced value.  Contexts are processes and
interrupts, and `Above` says which interrupts a processor takes during a
context, unless that holds one of the locks, which are taken with interrupts
disabled.  The administrator, on a processor of his own, draws new masks byte by
byte with the lock (`SetStuck`, `ResetByte`) and goes on to set the odds again
without it, because the case falls through (`SetStuckAgain`).  An access lies
inside a region or outside; one that sticks out of the end of a region is left
out.

### FiIrq

The interrupts of one line do not overlap, those of different lines do: each
line has a wrapper of its own, and between any two steps of one the others go
on, as interrupts that preempt it or on other processors.  A line has one
driver, with the steps of `fi_request_irq` and `fi_free_irq`, which may be
refused and may be interrupted; or it is in `Shared`, where drivers fill and
clear the entry at any time.  `NullCallIsARace` says when NULL is called.

All faults share the linear congruential generator.  An interrupt draws two
numbers, one in `fi_irq_handler` and one in `dma_corruption`; new masks take two
numbers per bit, drawn one by one (`ResetMasks`, with `half` between the two);
and `DrawOne` is any other draw.  `Odds` are values of the parameters as the
ioctl stores them.  The word of the run has three bits, with the low bits of the
real constants (`M = 8, A = 5, C = 1`).

`stirred` is a history variable: was a number drawn out of turn?  That is, a
single one, or one by an interrupt while an odd number of other pairs are half
drawn (`HalfDrawn`).  `kinds` is what interrupts have suffered until then.

### FiUsb and UrbContract

`link[u]` is what the URB holds, `saved[k]` what a context `k` keeps of it.
`Wrap` stands for the head of `fi_usb_submit_urb`; the controller accepts or
refuses; `fi_usb_completion` puts back one level, so that an URB that was
wrapped several times unwinds through several calls before the driver's routine
runs.  Drivers do not touch an URB in flight.  A context that nothing refers to
any more is given out again, since the code never frees one and the model would
run out.  The code does not test whether it got one: `WrapNull` stops the
machine, and `UrbContract!Stop` admits that.  `fi_usb_control_msg`,
`fi_usb_interrupt_msg` and `fi_usb_bulk_msg`, which corrupt a buffer before or
after a call, have no state and are left out.

### FiControl

`argv` is the concatenation of commands, possibly cut short; `cmds` keeps what
the user meant.  `main` reads the words once for each module whose device could
be opened and skips a word its module does not know, so that arguments of the
other module's commands are looked at as if they were commands.  `FiMeans` and
`CrMeans` say what a complete command means, `FiEffect` and `CrEffect` what one
after the other does, and `Obeyed` compares.  They follow the usage, with two
exceptions: `-line_mode ignore` means what the code sends, and a number that is
no probability stands for 1.  A crash in the pass for fimod, on a command that
is cut short, keeps all commands from crmod, and `Obeyed` says so.  `FiEffect`,
`CrEffect` and `Words`, which concatenates the commands, are recursive
functions, so that the proofs can use them.  Probabilities are fractions of
`Unit`, and `UMax + 1` is a multiple of it, as the code's arithmetic in double
is exact enough for the odds used.

### HardenedLoop

The generated code: the counter that is set at the start of the function, the
loop, its body, and the test at the end of the body that counts or returns 72.
The device may be ready or not at any moment.  A `continue` in the body jumps to
its start, past the test.  `Entries` and `Skips` bound how often one call of the
function reaches the loop, and how often a body ends in a `continue`; `rounds`
is a history variable.

## The runs

| Run | Shows |
|---|---|
| `CrPollSafety` | in storms on two lines with `CR_DISABLE_IRQ` nested, the counter stays within the limit plus the lines inside the wrapper; handlers are polled only if no interrupt was counted on any line since the check that armed the detector |
| `CrPollRecovery` | once no interrupt is counted any more, work is served by polling; in a system at rest polling stops |
| `IrqTableOwn` | a driver with a line of its own, beside two that share one: NULL is called for it only in the two races, every handler gets its own device, or NULL in the worker's race, and the table implements the contract, whatever is refused, comes and goes |
| `CrModuleOld` | with failures and drivers that are loaded at once, checks go on, a driver in use whose registration overlapped no other is scanned, the table is overrun only by more loads than it has entries, a failed load always leaves work behind, and unloading terminates and is clean if the timer was caught |
| `CrModuleUnload` | (violation) the crash on unload that the TODO describes |
| `FiIomemTable` | two threads on the same regions, with allocations and mappings that fail: no region has two entries, masks have one owner, and they leak only when the region has an entry or the address is 0 |
| `FiLines` | with an administrator who changes anything at any time, and `dma_corruption`: what a panic is due to; the selection is heeded in every call during which it does not change; two callers with the limit t force at most (t + 1)(t + 4) / 2 faults; faults come to an end |
| `FiUsb` | however submissions are refused, run out of memory and URBs are wrapped again, wrapping keeps the contract, every driver finds its context, `fi_usb_completion` does not panic |
| `FiControl` | every command line of two commands, with all modes, whole or cut short, leaves both modules with what its complete commands do, except that a crash in the pass for fimod keeps them from crmod |
| `FiAccess` | masks are seen whole, what is corrupted is recorded, the nested locks do not deadlock |
| `FiIrq` | on two lines whose interrupts overlap, interrupts are dropped or repeated, never both, until a number is drawn out of turn; faults keep happening; NULL is called only while the line is freed, or if it is shared |
| `HardenedLoop` | a hardened loop ends, and fails exactly when the limit that all its rounds share is used up |

The violation run checks one statement that the repository makes about itself,
and TLC's trace is how the code breaks it; `PROJECT.json` quotes the line.

### Divergences

The violation run shows one.  The models contain more places where the code does
not do what it, or its documentation, says.  Each is reached by adding a
property that the module states, or by changing a constant, in the configuration
named, or it is visible in the model.

| Where | The code | What it says | How to see it |
|---|---|---|---|
| `crmod.c` 605 | counts the interrupts of all lines together: a healthy line hides a dead one | "will take over" (613-615) | `RecoveryTakesOver`, as a property of `CrPollRecovery` |
| `crmod.c` 648 | leaves the handler in the table when the kernel refuses the request, and the worker calls it | `request_irq`'s contract | `IrqContract!Refuse` leaves `entered` alone |
| `crmod.c` 622, 660 | has one entry for a line that two drivers share | "Stuck interrupt" and the flag of shared lines, which it passes on | `NoNullCall`, as an invariant of `IrqTableOwn`; `Own` in `RightDevice` |
| `crmod.c` 499 | zeroes the counter, then clears the bits: a request in between is never served if its interrupt is lost | "some request might come in before this function finishes executing, and we'd miss it" (517-520) | `EveryRequestServed` in `CrPollRecovery` |
| `crmod.c` 487 | finds a count without a referenced bit | "how is this possible?" (495) | `Flowing` with `found` false in `CrPollSafety` |
| `crmod.c` 606 | disables the line it runs on, whoever raised the count | "Stuck interrupt, disabling IRQ %d" (607) | `CheckFrequency` of a line that interrupted once |
| `crmod.c` 415 | `disable_irq` is commented out; the worker and an interrupt run one handler at once | "This avoids some race conditions" (410-412) | `"line"` and `"poll"` of a driver together in `IrqContract!running` |
| `crmod.c` 391 | reads the entry again after the test at 388: a driver that comes or goes in between makes it a call of NULL, or of a handler with NULL for its device | | `NoNullCall` in `IrqTableOwn`; `CallPolled` of the contract |
| `crmod.c` 660 | clears the entry before `free_irq`: an interrupt in between calls NULL | | `NoNullCall` in `IrqTableOwn` |
| `crmod.c` 140, 147 | does not test the queue it got, and queues the check before its semaphore is initialised (155) | | `UseNullQueue` and `CheckEarly` |
| `crmod.c` 170 | leaves the check queued when `misc_register` fails and the module is not loaded | | `FailedLoadLeavesWork` says that it always does |
| `crmod.c` 545 | checks once on a kernel newer than 2.6.19 | "No need to reschedule in the new version of the kernel" (545) | `NewKernel = TRUE` in `CrModuleOld`: `PollsForever` |
| `crmod.c` 554, 579 | loads at the same time share an entry, or panic over each other's size | "Return true (!= 0) if any referenced bits are set" (303) | `met` in `LoadedIsScanned` and `RegistrationBreaks` |
| `crmod.c` 579 | counts unloaded and refused drivers, too, and never compares the count with `CR_MAP_SIZE`: after 256 loads the table is overrun | "Number of drivers: %d" (695) | `Overrun`; `RegistrationBreaks` |
| `fimod.c` 1501, 1661 | enters address 0 when an allocation has failed or a resource is absent; the look-up finds it in an empty slot, and the masks leak | | `LeaksExplained` |
| `fimod.c` 1419 | returns with `fi_iomem_map_lock` held when the region is not in the table | "This function frees the lock." (1371) | `LockReleased`, as an invariant of `FiIomemTable` |
| `fimod.c` 503, 2056 | `dma_corruption` passes line -1, which matches a free entry: panic | "does not change value if the specified line is not mentioned" (2050-2051) | `UnmentionedLeftAlone`, as an invariant of `FiLines.cfg` |
| `fimod.c` 2069 | forces `total_faults` + 1 times | "total number" (`fi_control.c` 108) | `CheckLimit` |
| `fimod.c` 2081 | loses counts: a call that stores an old one lets others pass the limit t again, so that two callers force up to (t + 1)(t + 4) / 2 faults; for N callers, enumerating all interleavings of small limits gives C(t + N + 1, N) - 1; and no bound is claimed if an entry is written while calls are under way | the same | `FaultsBounded` |
| `fimod.c` 1226-1232 | from one load of the module to the next, only drops or only repeats interrupts, as the lowest bit of a number alternates and every interrupt draws two, until a number is drawn out of turn | "either drops interrupts or repeats interrupts" (1208-1210), with separate odds for both | `OneKindOfFault` in `FiIrq` |
| `fimod.c` 1275 | clears the entry before `free_irq`: an interrupt in between calls NULL | | `NullCallIsARace` in `FiIrq` |
| `fimod.c` 1690 | writes through the result of `kmalloc` with `GFP_ATOMIC` without testing it | | `WrapNull` in `FiUsb` |
| `fimod.c` 423-441 | `FI_STUCKBITS` sets the odds a second time, after the lock is released | "Fall through.  Only if we specify STUCK_BITS" (426) | `SetStuckAgain` in `FiAccess` |
| `fimod.c` 2056 | reads entries that are half written, and panics | "Lock for these arrays" (191) | `met` in `PanicsExplained` |
| `fi_control.c` 317 | `-line_mode ignore` sends `LINE_SELECTION_EXCLUDE` | "Apply FI to all lines equally" (`fi_mod_control.h` 35) | `SpecifyLineMode`, and `ModeOf` in `Obeyed` |
| `fi_control.c` 334-360 | `-line_force` with one to four words, and `-disable_irq` and `-enable_irq` without one, read past the last argument | "Specify the line, the value to force, and the probability" (329-331) | `NoCrash`, as an invariant of `FiControl`; what it costs crmod is in `Obeyed` |
| `fi_control.c` 134, 156 | calls the other module's words bad | "Bad parameter" | `BadParameter` in `FiControl` |
| `fi_control.c` 173 | says nothing when only one module cannot be opened | "Open fimod failed" (174-175) | `NextPass` in `FiControl` |
| `drivers.ml` 2115, 3056 | resets the counter at the start of the function only: rounds of a loop inside another one add up | "we generate wait for 200 counts" (31-33) | `FailsAfterLimit` counts from the start of the function |
| `drivers.ml` 2157, `cil.ml` 6587-6603 | puts the test at the end of the body, and a `continue` jumps past it | the same | `Continue` in `HardenedLoop`; its bound `Skips` is what makes `LoopEnds` true |
| `drivers.ml` 2136 | returns 72 from the middle of the function, with whatever locks it holds | | not modelled |
| `fimod.c` 503 | writes to an address that was computed under a lock released since | "We are only writing to DMA memory here" (499) | not modelled yet |

### Bounds

* Two lines in `CrPoll`: every race is between two of a kind and the worker, and
  two lines are the least at which the global counter can mislead.
* Three drivers on two lines in `IrqTable`: a driver with a line of its own, and
  two that share one.
* `MaxFreq = 1` for 40 000 000 and `MaxUnproductive = 1` for 10: the code only
  compares with them, and 1 lets both outcomes happen repeatedly.  The proofs
  hold for every value.
* `DefaultLen = 2, HZ = 4` make halving, doubling and both limits happen; the
  liveness runs, which do not depend on it, use 1 and 2.
* `MaxDepth` bounds nested `CR_DISABLE_IRQ` requests of the administrator.
* One page: two handlers on one page is the worse case for the evidence, as one
  driver's activity then stands for the other's.
* `MapSize = 3` and `MaxLoads = 5` in `CrModule`, with two drivers: entries are
  shared and counts lost, the table fills, and is overrun.
* Two threads, two regions and two slots in `FiIomem`: a remapping involves two
  regions, both threads work on the same ones, and the table fills.  Three pairs
  of masks: one more than slots, so that masks can leak, and run out.  Threads
  are alike, and so are masks, which the symmetry set uses.
* Two entries, the lines 1 and -1, the limit 1, `UMax = 3` and `Tally = 6` in
  `FiLines`: both callers exceed the limit, counts are lost, a count that is not
  limited wraps, and the bound of five faults is reached.  The lists are not
  full: the panics due to that are the subject of the theorem only.
* `FiAccess`: a process that writes two elements outside of the region, which
  ends all stuck-at faults, an interrupt that reads within it, a region of two
  bytes, and a list of affected lines with room for one: the least with which
  the list fills, masks could be torn, and two contexts want both locks.
* `FiIrq`: three bits; what the properties rest on, the lowest bit and the full
  period, is the same for every power of two, and the theorems hold for all.
  Two lines, of which one is shared, so that interrupts overlap.
* `FiUsb`: two URBs and three contexts: one URB can be wrapped twice while the
  other is wrapped, and memory can run out.
* `FiControl`: two commands; a command's effect on the next is through the
  position it leaves the reader at.
* `HardenedLoop`: the limit is the real one, 200; three entries and two skips.

### Fairness

* `CrPoll`: the work item is queued again by every run of `crmod_work_thread`
  (543) and the work queue runs it, so weak fairness of the worker; an interrupt
  that is pending on an enabled line is delivered, and the wrapper runs to its
  end.  Nothing is assumed of drivers, devices and the administrator.
* `CrModule`: timer, thread and module loading make progress.  Strong fairness
  of `StopThread`: the work queues itself again after at least a jiffy, so that
  the queue is empty again and again when the thread is asked to stop.  All of
  it only as long as nothing is `broken`.
* `FiUsb`: the host controller gives every URB back, and the completion routines
  that run come to their end, both of which USB drivers rely on.  Nothing is
  assumed of drivers or of submissions, nor after a crash.
* `HardenedLoop`: the processor executes the function.  Nothing is assumed of
  the device.
* The other modules need none: what they promise holds of every step, or is that
  something cannot go on for ever (`FaultsStop` in `FiLines`), or states what
  goes on as its premise (`FaultsHappen` in `FiIrq`: the device interrupts, the
  wrapper runs, and nobody else draws numbers).

`CHECK_DEADLOCK FALSE` is set only in `FiIomemTable` and `FiLines`, where the
system really stops: on a lock that is never released, and on a panic.  Where a
call of NULL or another crash stops the machine (`IrqTable`, `FiIrq`, `FiUsb`),
or the module is gone (`CrModule`), the model stutters in an action that says
so.

## What is proved

`CrPollProofs` proves for every finite set of lines, every set of pages and
every limit:

* `TypeCorrect`: `Spec => []TypeOK`;
* `SilenceBeforePolls`: `Spec => PollOnlyAfterSilence`;
* `StormBounded`: `Spec => []CounterBounded`.

The assumptions are those on the constants in `CrPoll`: the lines are finitely
many, every handler lies on a page, the limits are natural numbers and the
default interval lies between 1 and `HZ`.

None of the three is inductive.  The inductive invariant `IInv` adds to the
types that

* a check that is under way has no problem pending: it found none, or took it
  back (`NoneWhileChecking`); this is what bounds `problem_pending` by 1;
* a problem is pending, or about to become so, only if whatever was counted
  since is still in the counter (`Armed`): this is what makes reading 0 in
  `AskCounter` conclusive, although the counter may have been reset meanwhile;
* a line that is inside the wrapper was enabled when it was entered
  (`EnteredEnabled`), so that disabling it stays within the bound of `depth`.

`CounterBounded` is inductive together with `IInv`: an increment adds a line to
those that are past it, a line leaves them only with a counter within the limit
or after the reset, and the set of lines is finite (`CountedChange`,
`CountedFinite`).

`FiIomemProofs` proves for any threads, regions and masks, and every size of the
table:

* `TypeCorrect`: `Spec => []TypeOK`;
* `TableStaysWellFormed`: `Spec => []MapWellFormed`;
* `MasksHaveOneOwner`: `Spec => []MasksOwned`;
* `LeaksHaveCauses`: `Spec => LeaksExplained`.

The assumptions are that no region starts at 0, which marks an empty slot, that
NULL is neither a thread nor a mask, and that the size of the table is a natural
number.  Threads are free to work on one region at once, and every allocation or
mapping may fail.  The lemmas about `First`, `FindExact` and `FindEmpty` rest on
the well-foundedness of the natural numbers, since the look-ups take the first
slot that matches.

`MapWellFormed` needs `Prepared`: a wrapper that reaches the insertion has a
region, with a type, or address 0; otherwise it could insert half an entry.
Only a thread that has found no masks does that, and panics.  `MasksOwned` is a
statement on the size of a set.  `OneOwner` states it as four pairwise facts,
which steps preserve one by one: no two slots, no two threads, and no slot and
thread have masks in common, and masks that somebody has are allocated.  The
last is what makes a mask that the allocator hands out new to everybody.
`LeaksExplained` needs, in addition, that a thread that takes masks over holds
none yet, which is the last part of `Prepared`.

`IrqTableProofs` proves for any drivers and lines, without any assumption on
what is shared, refused or freed when: `TypeCorrect` (`TypeOK`),
`NullOnlyInRaces` (`NullCallIsARace`), `DeviceIsRight` (`RightDevice`) and
`TableKeepsContract` (`KeepsContract`).  What they promise is promised to the
drivers in `Own`, except that `NullCallIsARace` speaks of the worker on every
line.

The invariant has two layers.  `LineInv` says that entries, actions and
interrupts are those of drivers of the line (`Entered`, `Chains`), that whose
interrupt is being handled has not left `cr_free_irq` (`Handled`), and what the
entry of a driver with its own line holds at each point of the wrappers
(`Entries`): it is there from the first store to the first one of the free, and
stays behind after a refusal.  `Polled` says that, unless somebody `raced` with
the worker, the entry that it has tested stands and the device that it has read
is the right one, and that in any case it is that of the line's driver or NULL.
Both together carry the refinement.

`FiUsbProofs` proves for any URBs and any memory: `TypeCorrect`, `NeverPanics`
(`NoPanic`), `ChainsUnwind` (`Unwinds`), `RoutineHasOwnContext` (`OwnContext`),
and `WrappersKeepContract`, which is `KeepsContract` without its fairness.
Again only the safety part of the contract is within the prover's reach.
`Unwinds` is nearly inductive: contexts and URBs form chains without branches,
each of one URB only.  To it come that only incoming URBs are wrapped
(`WrappedComeIn`), and that a routine does not run for an URB that the
controller is giving back (`GivenNotRunning`).

`FiAccessProofs` proves for any finite set of processes and interrupts that
preempt each other in levels, any lines and any regions: `TypeCorrect`,
`MasksAreWhole` (`WholeMasks`), `CorruptionIsRecorded` (`Recorded`) and
`LocksDoNotDeadlock` (`NoDeadlock`).  The invariant says who holds which lock at
which point (`LocksHeld`, `AdminLocks`), in `fi_verify_line`, too
(`HasLineLock`), that nobody has preempted a context with a lock
(`Unpreempted`), and at which points a changed element may be missing from the
list (`Accounted`).  That there is no cycle of waiting follows by ranking
contexts: who holds the inner lock waits for nobody, who waits for the inner
lock waits only for him, and preemption goes up the levels.

`FiIrqProofs` proves for every even word size, odd multiplier and odd increment,
and any finite number of lines whose interrupts overlap: `TypeCorrect`,
`DroppedOrRepeated` (`OneKindOfFault`) and `NullOnlyInRaces`
(`NullCallIsARace`).  Every draw flips the lowest bit, so that, with `HalfDrawn`
added, it is what it will be when every pair that is half drawn is complete
(`LowBit`).  Pairs leave that alone, and it decides what interrupts suffer
(`BitDecides`).  `Bound` follows the entry of a line with one driver.

`FiLinesProofs` proves for any callers, lines and entries, whatever the
administrator changes meanwhile and whatever `dma_corruption` chooses:

* `TypeCorrect` (`TypeOK`), and `EntriesStayGood`: between two commands no two
  entries have the same line and every entry in use has an operation, although
  calls run beside the ioctls and read entries that are half written;
* `SelectionIsHeeded` (`SelectionHeeded`) and `PanicsHaveCauses`
  (`PanicsExplained`);
* `FaultsAreBounded` (`FaultsBounded`), for two callers, every limit, every
  number of entries and every width of the counter.

The base invariant says what the four writes of `fi_force_line` and the many of
`fi_clear_line_force` have left at each point (`Entering`, `Erasing`) of entries
that have an operation and a line of their own (`Good`); together they are
`ScriptInv`.  `Verdict` says what a call during which nothing is selected has
learned of the mode and the selection, `Matched` that a call during which no
entry is written has matched one of its own line.  That lists are full only of
more lines than they have room for (`Overflow`) is counted by means of the
lines' finiteness (`EntryLeft`, `RoomLeft`).

`FaultsBounded` is far from inductive, since a call stores a count that it read
before the other stored its own.  Each caller is assigned how far the count that
it holds, or else that of the entry, is from the limit (`Worth`).  Pairs of
distances, ordered by the larger one first, have a rank, the number of pairs
that come before them; no step raises it, and every fault that is counted lowers
it (`Ranked`).  At first it is half of (t + 1)(t + 4), which is therefore the
number of faults that two callers can bring about, and for
the limit 1 TLC reaches it.  `Low`
keeps the counts away from the largest unsigned integer, where they would start
anew.

`CarburizerProofs` proves of `CrModule`, for any drivers, tables of any size and
either kind of kernel:

* `CaughtLeavesNothing` (`CaughtIsClean`) and `FailureLeavesWork`
  (`FailedLoadLeavesWork`): `WorkInv` says that the work is in one place at
  most, and on kernels up to 2.6.19 in one from the first time on (`GoesOn`),
  that the queue exists whenever the work does, and what a cancellation that
  found the timer armed has left at each step of the unloading;
* `TypeCorrect` (`TypeOK`), `BreaksOnlyThere` (`RegistrationBreaks`) and
  `InUseIsScanned` (`LoadedIsScanned`), for drivers that are loaded one by one
  or at once: `RegistryInv` says that every count leaves room for the loads that
  have not been counted (`Counted`), what the table holds for a driver that
  registers alone (`Alone`), and that it keeps that, below every count that is
  about to be stored, however others overlap later (`Kept`).

It proves of `HardenedLoop`, for every limit: `LoopTypeCorrect` and
`LoopFailsExactly` (`FailsAfterLimit`), by the invariant that the counter is the
number of rounds since the start of the function (`LoopInv`).

It proves of `FiControl`, for all faults, lines and command lines of any length:

* `ControlTypeCorrect` (`ControlTypeOK`) and `CommandsObeyed` (`Obeyed`), with
  all modes and numbers that are no probabilities;
* `OnlyMissingWordsCrash`: `NoCrash`, if the command line is not cut short
  (`~Truncated`).  That it fails otherwise is one of the divergences.

`Obeyed` speaks of the end of both passes, so the invariant has to say how far
a pass has come.  `Within` locates the current word: it is the first of the
command `k + 1`, or, if the pass does not understand that command, any other
word of it; the words of another command are never mistaken for the start of
one (`Arguments`).  `Position` says that the pass is within some command or past
the end, and `DepthFollows` and `FimodFollows` that the module is then what the
first `k` commands have made of it.  `StepInCommand` shows that a step takes a
whole command, skips a word of a foreign one, or finds that the last command
lacks words; the handlers do what the commands mean by `FiHandles`, `CrHandles`
and `DoesWhatItMeans`, the last of which needs that `fi_convert_probability` is
exact (`ConvertedOdds`).

What the recursive functions are for every command line follows by induction
over its length.  The library's induction theorems take an operator as a
parameter, which the provers cannot instantiate, but a set can stand for it:
`Induction` says that a set that holds 0 and with each number the next holds all
natural numbers, as a least number that it lacks (`WFMin`) would follow one that
it holds.  `Iteration` concludes that a sequence of functions can be applied one
after the other, so that the recursions have solutions (`WordsStep`,
`FiEffectSteps`, `CrEffectSteps`).

Liveness under fairness is out of the prover's reach and stays with TLC:
`SilenceIsPolled`, `PollingDiesDown`, `PollsForever`, `UnloadFinishes`,
`FaultsStop`, `FaultsHappen`, `LoopEnds`, and the fairness in `FiUsb`'s
`KeepsContract`.  A theorem states every safety property that a passing run
checks.  The type invariants of `FiUsb`, `FiIrq` and `HardenedLoop` are proved
and not checked.

## Not modelled

* The CIL extension's analysis, which decides what to harden, and its checks of
  arrays and pointers: they work on the syntax tree of a whole program.
* The arithmetic of the faults on the bits of a value; statistics and
  diagnostics, which are only printed.
* fimod's life cycle, which repeats crmod's pattern.
* `fi_usb_control_msg` and the like.  They corrupt the buffer whether or not
  `FI_CORRUPT_USB` is on, and read `*actual_length` (`fimod.c` 1805, 1825) also
  after a call that has failed.
* An access that sticks out of the end of its region (`fimod.c` 629), and the
  big-endian wrappers, which panic.
* `dma_corruption`'s use of the table of regions.
* `fi_full_cleanup` and `FI_STUCKBITS`, which change the masks of all regions.
* `crmod_option1.c`, an earlier version of crmod.
* CIL itself, third-party code, and the scripts.
* Undefined behaviour: what follows an index out of range (`crmod.c` 635), an
  entry past the end of the table (`crmod.c` 554, where the model stops), or
  masks read past their end (`fimod.c` 629).

## Plan

In this order:

1. (done) the recovery protocol, its safety and liveness, and its theorems;
2. (done) the interrupt table with its contract; the life cycle; the regions;
   the lines;
3. (done) `FiUsb` with `UrbContract`; `FiIrq`; `FiAccess`; `FiControl`;
   `HardenedLoop`;
4. `FiMasks`: what the stuck-bit masks do to a value, as operators checked
   against a definition bit by bit; `fi_find_iomem_map_range` against a
   reference definition;
5. `fi_full_cleanup` and the write of `dma_corruption`, which work on the table
   of regions, as actions of `FiIomem`;
6. `Taint`: the propagation of taint as a fixed point;
7. `CrOption1`, to compare the two versions of the recovery;
8. (done) theorems: those about every safety property that a run checks.
