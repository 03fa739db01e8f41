# tsrkit-pvm: verification project

tsrkit-pvm runs programs of the Polkadot virtual machine (PVM) on three engines:
an interpreter in Python, the same interpreter in Cython, and a recompiler to
x86-64. This directory holds TLA+ models of it, the TLC configurations that check
them on small instances, and proofs that TLAPS checks for every value of the
constants. All paths below are relative to `src/tsrkit_pvm/`.

    tlc  -config MCInterpreter.cfg MCInterpreter     # check a run
    tlapm InterpreterProofs.tla                      # check a proof

## 1. The system

| Component | Source | State | Operations |
|---|---|---|---|
| Guest memory of the interpreter | `interpreter/memory.py` | page dict, two permission bitmaps, hot page, heap break | read, write, alter_accessibility, zero_memory_range, is_accessible, sbrk (`ii_reg.py`), from_pc |
| Guest memory of the Cython engine | `cpvm/cy_memory.pyx` | page dict, two bit sets, heap break; words of 32 bits | the same |
| Guest memory of the recompiler | `recompiler/memory.py` | one mmap with the VM context in front, permission bits, the kernel's protections | the same; reads and writes of the guest are the CPU's |
| Program | `core/program_base.py`, `*/program.py`, `cpvm/cy_program.pyx` | code, opcode mask, jump table, skip cache, basic blocks, cache of compiled blocks; in the recompiler machine code and address maps | decode, skip, branch, djump; assemble, msn_to_pvm_index, pvm_to_msn_index |
| Interpreter | `interpreter/pvm.py`, `inst_map.py` | counter, gas, registers, status | execute: get_block, compile, run a block, charge it |
| CyInterpreter | `cpvm/cy_pvm.pyx`, `cy_block.pyx`, `mapper.pyx` | the same | the same; exits are exceptions |
| Recompiler | `recompiler/pvm.py` | VM context in memory below the guest's, thunks | execute: assemble, store the context, run the code, read the context |
| segwrap | `recompiler/segwrap/segwrap.c` | one jump buffer, one register dump, three handlers and two flags of the process; a seccomp filter and a signal mask of the thread | initialize, run_code, get_program_status, cleanup |
| VM context | `recompiler/vm_context.py` | jump table, registers, gas, heap start | store, from_pointer |
| Instruction tables | `*/tables/`, `common/utils.py`, `cpvm/cy_utils.pyx` | none | one function or piece of machine code per opcode, and the decoding of its operands |
| Codecs | `core/code.py`, `core/program_base.py` | none | decode, encode, y_function |
| Status | `common/status.py`, `cpvm/cy_status.pyx` | the shared members of an enumeration | PAGE_FAULT, HOST |

How they interact. A host decodes a program, builds a memory and calls `execute`
with a counter, gas and registers; it gets a status and all of these back. After a
host call or a page fault it does its part and calls `execute` again with what it
got. Inside, an interpreter's instruction calls the program's `branch` and `djump`
and the memory's `read` and `write`, and leaves by return or by exception. The
recompiled code touches memory directly and leaves by a signal (SIGSEGV a page
fault, SIGILL out of gas or halt, SIGSYS a host call), whose handler jumps back
into `run_code`, or by returning, which is a panic.

What is hard about it:

  - *caches*: the hot page and the block cache are consulted instead of the state
    they were taken from;
  - *gas at three moments*: before each instruction (recompiler), after each block
    (interpreters), or when an instruction leaves the block (Cython);
  - *re-entry*: counters leave `execute` and come back, through two address maps;
  - *partial effects*: an exception or a signal in the middle of a block or of a
    write keeps what was done;
  - *three implementations* that must make the same of a program;
  - *boundaries*: the last instruction, the skip limit of 24, the top of the
    address space, a gas word of 64 bits;
  - *process-wide state* of the signal handling, and threads.

What makes each part correct, in one line: a memory is a flat array of bytes under
permissions; the tables hold distances and targets; an engine charges what it runs,
keeps control on opcodes and returns; and the three engines return the same.

## 2. The modules

```
AddressSpace <- GuestMemory  (what a memory promises)
AddressSpace <- IntMemory, CyMemory  (INSTANCE GuestMemory as refinement)
AddressSpace <- RecMemory    (the mapping, its bits and the kernel)
PvmProgram   <- SkipTables   (the loops that fill the tables)
PvmProgram   <- GuestProgram <- Interpreter, CyInterpreter, Recompiler
Interpreter, SkipTables <- LoadedInterpreter   (the constructor, then execute)
Recompiler,  SkipTables <- LoadedRecompiler
                CyInterpreter <- Engines (INSTANCE of Interpreter and Recompiler)
Words <- IntInstructions, CyInstructions        (results and accesses)
Words <- Encoding <- X86 <- RecInstructions     (machine code)
Encoding <- IntTables, CyTables, RecTables      (operands, jumps, branches)
            IntTables, CyTables, RecTables <- Instructions
Signals      (segwrap and what execute does with it, on several threads)
MC*          the instances TLC checks
*Proofs      lemmas and theorems
```

**Memory.** `GuestMemory` is the abstract specification: cells, permissions and a
break; every call changes them as a flat memory does, and a denied access reports
its own address or the first one it may not touch, and keeps what it stored below the
address it reports and no more.

  - `IntMemory` follows `INT_Memory`: a page's bytearray is an object with an
    identity (`Buffer`), the dict `_pages` and the hot page hold references to it,
    the permission bits are sets of pages. Its actions are the code's paths:
    `ReadHot`/`WriteHot` (no lookup at all), `ReadPage`/`WritePage`,
    `_read_multipage`, `_write_multipage`, `alter_accessibility`,
    `zero_memory_range`, `is_accessible`, `sbrk`.
  - `CyMemory` follows the Cython class: no hot page, a range is checked as a whole
    before a byte of it moves, and every sum of addresses, lengths and page numbers is
    taken modulo the word (`Wrap`). It implements `GuestMemory` too; where the two
    interpreters differ (what `sbrk` answers, the faults of a multi-page write) the
    abstract specification allows both.
  - `RecMemory` follows `REC_Memory`. The guest's bytes start `Shift` bytes into a
    page of the mapping, behind the VM context, so that each kernel page holds the
    end of one guest page and the beginning of the next. Host calls set the
    permission bits and call `mprotect`; guest loads and stores ask the kernel
    alone; a host access the kernel refuses kills the process. `execute`, `exit` and
    `sbrk` are what `execute` and its sbrk loop do to context, break and protection.
    A history variable, `given`, remembers which pages ever had a permission bit: a page
    that never had one is left as the mapping was made, readable and writable, and one
    whose bits were taken away must not be.
    It does not implement `GuestMemory` (pages never given permissions are open, tails
    of pages are protected as their neighbours), so its properties say instead how far
    bits, kernel and contents agree.

**Tables.** `PvmProgram` defines the tables by what they mean (`Skip`,
`Following`); `SkipTables` runs the code's loops, the interpreters' nested forward
scan and the recompiler's backward pass, one step of a loop per action, then the
pass over basic blocks. `LoadedInterpreter` and `LoadedRecompiler` put it in front of the
engine: the program's constructor fills the tables from the mask the program brings, and
`execute` runs when they are full. `TablesServe` says that what the constructor left is
what the engine's own module takes from the mask; the interpreters' half of `SkipTables`,
`ForwardSkips` and `BlocksFollowTerminators`, is proved of every step of the loops and
checked in that form, when they are done. The third constructor,
`CyProgram._precompute_cache`, runs the interpreter's loops and has no composition of its
own.

**Engines.** `GuestProgram` represents the opcodes by nine kinds: one per way of
transferring control, one on registers, one on memory, and a byte that is no
opcode. One register and one memory cell are enough to tell whether an
instruction ran, and the register also drives branches and indirect jumps.

  - `Interpreter`: `phase` is the place in `execute`: `dispatch` (get_block),
    `compile` (the loop of `_compile_block`), `run` (the loop of
    `BlockInfo.execute`), `exited`. `EndBlock` is a return of a block, `Raise` a
    `PvmError`, which leaves counter and gas as they were.
  - `CyInterpreter`: the same without the compiling loop; `Terminate` is a return of
    a block, `PvmExit` the exception every other exit is.
  - `Recompiler`: `pc` is the opcode whose machine code runs. `Running` is the gas
    code in front of it, `Return` what `run_code` does when the program returns,
    `Exit` the way back through `execute`, with the gas adjustment.
  - `Resume`, in each of them, is the host: external to this repository, modelled by
    the interface of `execute`.
  - `Engines` makes one call on each engine with the same arguments, one engine
    after the other, and keeps the results, as `tests/jam_simple/test_jam.py` does. It
    extends `CyInterpreter`, of which it uses the names as they are, and has instances
    of the other two (`INT!...`, `REC!...`) on the same variables. Two predicates on
    programs say what can be compared: `Plain`, that control stays on opcodes, those
    past the skip limit included, and that no jump begins a basic block and leads to
    itself (the Python interpreter falls through there); and `WellFormed`, what a
    compiler emits, which is plain and also gives the machine code no jump into the
    middle of a block and no end without a trap.

**Instructions.** What the opcodes do, all but sbrk (which is a call of the
memories). `Words` has machine words with a byte of `ByteBits` bits. `IntInstructions`
and `CyInstructions` give each method's result, in Python's unbounded integers and in
C's words; what C leaves undefined is the set of what builds produce.
`RecInstructions` gives the sequence of machine instructions each method of
`recompiler/assembler/tables` writes, with the host registers it takes for itself,
and `X86`, which is external to the repository, what the processor makes of them.
`IntTables`, `CyTables` and `RecTables` decode the operands from the bytes of an
instruction and do the tables of jumps, branches, immediates and direct accesses.
`Instructions` takes one instruction of any table, any registers, operands and bytes,
runs it on the three engines (`ThreeReg`, `TwoRegImm`, `TwoReg`, `ShortTable`) and
keeps the three results: registers, access, and where the program goes on. Beside
them it says once what each instruction means, in arithmetic on signed and unsigned
values, and, for each engine, the exact cases in which the code does something else
and what it does there.

**Signals.** `Signals` has one process per thread: `pc` is the place in
`Recompiler.execute`, from `init_sig_handlers` over segwrap's `run_code`, guest
code, handler, `siglongjmp` and `get_program_status` to `cleanup_sig_state`. Guest
code is reduced to its ways out: a fault, an illegal instruction, a host call
with a number that the filter covers or does not, sbrk (after which `execute`
runs it again), and a return. The steps are those between which another thread can
run, since ctypes lets go of the interpreter's lock during each C call. Two
facts are chosen at the start and fixed: whether the callers hold a lock around
`execute` (`locked`), and whether the environment allows seccomp filters. The
kernel is modelled by what the code relies on: a signal with the default action,
or blocked, kills; SIGSYS is blocked in its handler; filters are inherited by
nobody here, stack, and are refused at a limit. The properties about exits are
stated under the lock, because without it they fail: the code has no lock of its
own, and nothing in the repository says that a caller needs one.

Every program value the engines' models take is one decode can produce; a
program's operand bytes are zeros, because nothing but a jump into them reads them
as opcodes.

## 3. The runs

| Run | Expect | Shows |
|---|---|---|
| `int_memory` | pass | permission bits, dict and hot page agree in every order of calls; no write reaches a protected page; every call does what `GuestMemory` allows |
| `cy_memory` | pass | with sums that wrap, every call does what `GuestMemory` allows, at the end of the space too |
| `rec_memory` | pass | the kernel's protection follows the bits, an access the host asked about first is refused at page tails only, guest code changes no read-only or revoked byte but there |
| `rec_memory_break` | violation | the break that `sbrk` moved is forgotten between two calls of `execute` |
| `interpreter` | pass | the constructor's skips are distances, its jump targets start instructions and are those the engine takes; cached blocks are complete and followed in order, work is paid for, a deficit stays within a block, control stays on opcodes, calls return |
| `cy_interpreter` | pass | every instruction is charged once, a deficit that nobody looks at is bounded, control stays on opcodes, calls return |
| `recompiler` | pass | the backward loop computes the same skips but for the last opcode, and the code is assembled with them; control stays on labels, every instruction of both runs is charged, a resumed call re-enters where the last one left, calls return |
| `engines` | pass | of plain programs the interpreters stop at the same instruction with the same registers and memory, and differ in status, gas and counter only as their ways of charging make them; of what a compiler emits, the recompiled code halts and calls the host with the same state, and where it stops otherwise they stop alike |
| `engines_tested` | violation | engines do not end every program with the same status, gas and registers, as the tests that compare them assert |
| `signals` | pass | if calls of `execute` take turns, each exit is reported by its own call, the process survives it, each thread's host calls are trapped even when the kernel takes no more filters, and nothing stays installed; each call ends |
| `instructions` | pass | every instruction but sbrk does on each engine what it means, but in the cases named, in which it does what is named |
| `instructions_docs` | violation | nine comments on instructions, host calls and jumps are not true of the code beside them |

A violation run checks what comments, docstrings and the assertions of tests say of the code,
taken at their word; `PROJECT.json` quotes each, with the line of the code that does
something else, under `findings`. `AsTested` and `AsDocumented` are conjunctions of named
sentences, and no conjunct of either holds: put alone in the place of the conjunction in
the same configuration, each is violated.

  - `AsTested`: `SameStatusCython`, `SameStatusRecompiler`, `SameGas` and
    `SameRegisters` are what `tests/test_debug_mismatch.py` and
    `tests/jam_simple/test_jam.py` assert of two engines, for programs a compiler emits and
    whatever the gas, as those tests raise it step by step.
  - `AsDocumented`: `CompiledRemainder`, `CompiledUpper`, `CompiledModulo`,
    `MachineDivision`, `MachineRemainder`, `MachineUpper` and `MachineSetLess` are
    docstrings and comments beside single instructions; `HostCallRange` is segwrap's comment on
    its filter, and `JumpsToBlocks` the recompiler's on its labels.
  - `HeapBreakKept`: the recompiler's comment on sbrk, across two calls of `execute`.

The passing properties beside them (`InterpretersAgree`, `RecompilerAgrees`,
`CompiledMeans`, `RecompiledMeans`) do not say that these cases are right: they say how
far the departures go, and that there are no others.

**Bounds.**

  - Interpreter memory: three pages of two bytes. A range can be empty, within a page,
    over two pages, and past the end of the space; a page has a first and a last byte;
    with three pages a range can be denied in its middle. Two byte values, of which one
    is the zero of a fresh page. Buffers are interchangeable (symmetry): three are as
    many as pages, so none is reused unless the code reuses it.
  - Cython memory: four pages of two bytes, so that the word wraps at 8, and requests
    short enough that a wrapped range is not one that looks whole: the code's own bound,
    since `read` takes a signed length. The break stays below half the space
    (`HeapLimit`), as a C int must.
  - Recompiler memory: three pages of two bytes with `Shift` 1, so that each kernel page
    is shared; one memory without permissions, as `from_initial` leaves it, and one with
    a read-only page before a writable one, as `from_pc` does. The violation run
    asks for single bytes: one `sbrk` and one `execute` after it is all it needs.
  - Programs: a code of four bytes with every mask, every opcode at every
    position, three jump targets (start, middle, end of the code).
    Four positions hold a loop with a body, two overlapping blocks, an instruction
    with operands longer than the skip limit of 2, and an opcode with nothing after it.
    The recompiler's pass over blocks stops at position 2 (`BlockScanLimit`, 256 in the
    code), so that it misses the block behind an opcode at 2.
  - Programs of `engines`: what a compiler emits in four bytes, with every opcode at
    every position, and codes of at most two opcodes in any layout (`AnyLayout`), whose
    control gets past the skip limit or to the end of the code. The latter are plain and
    not well-formed, and some of them neither.
  - Gas of 2 and 5 (1, 3 and 6 in `engines`): less and more than a longest block,
    and enough for several rounds of a loop.
  - Registers modulo 5, starting at 0 and 3, with the halt address at 4: an `add`
    reaches the halt address, a table index, an odd address and the wrap to 0. The
    word of gas is 16 (64 in `engines`), large enough never to wrap but below zero.
  - Signals: two threads, two calls each, two exits of guest code per call, one
    filter per thread. Two calls let one thread find what its own first call left
    and what the other's left; two exits hold an sbrk and what follows it, and a
    second SIGSYS on one thread; a limit below the number of calls reaches the
    refusal.
  - Instructions: bytes of one bit, so that the program's 64 bits are 0..255, its 32
    bits 0..15, and a product, a shift by the whole width and the smallest integer
    over -1 are all in range. Control bytes keep their eight bits: register numbers,
    lengths and shifts are decoded as in the code. The values are the boundaries of
    each size (0, 1, half less one, half, one more, all ones). The registers are those
    the recompiler treats apart (0, 1, 2, 4: division, products and shifts work in
    their host registers), one it does not, and numbers above 12, in every aliasing
    of two or three. Skips reach from no operand to more than all; jumps reach a block,
    an opcode that begins none, an operand, the end, and the instruction itself.
    Host call numbers above 5 stand for those above 101, those from 3 to 5 for 51 to 101.
    The violation runs of engines and instructions use the instances of the passing ones.

In the engines no counter is capped: gas bounds every run of a program, and a host's
resumptions end because a page is mapped once and host calls are followed by progress.

**Deadlock** is not checked where a run ends for good: `execute` has returned, the
process was killed, or the one instruction has run.

**Fairness.** Liveness (`Returns`) assumes weak fairness of the engine's own step:
`execute` is a loop on the thread that called it, which nothing else can disable, and so
is the constructor in front of it (`LoadSpec`).
The host's step is not fair: a host may drop a program it has been handed back.
In `Signals` each thread's steps inside `execute` are weakly fair, as the
operating system schedules it; the start of a call is not.

## 4. Where the code departs

Every module follows the code where it does something a reader of its comments or of
the other engines would not expect. The properties name these cases, so that they hold
with them and would fail if the code, or the list, were different. The name in
parentheses is the sentence of a comment or test that a violation run shows to be untrue there.

*Tables and interpreters.* The backward pass gives the last opcode of a program no
operands (`recompiler/program.py:88`). The Python interpreter cuts an instruction with
two immediates out of the program before it knows their lengths: of the offset in
80-90 the top byte and sign are lost, of the second immediate in 180 one byte. Its
relative jumps to themselves fall through. A panic or fault in the middle of a block is
not charged there; in Cython it is, but a host call or a fault leaves without asking
whether the gas sufficed (`DeficitBounded` says how far that goes), and so does a program
that halts (`SameStatusCython`).

*Cython instructions and memory.* `mul_upper_s_s` returns the lower half
(`CompiledUpper`), `rem_s_32` divides in 64 bits (`CompiledRemainder`), the
sign of `smod` of the smallest integer is up to the build (`CompiledModulo`), and
50-62 without an immediate read four bytes of the next instruction. `is_accessible` for
no access asks for read permission; a change of permissions past the end of the space
reaches page 0, and one of no pages at address 0 reaches all; `sbrk` answers the old
break where the interpreter and the recompiler answer the new one, though
`recompiler/assembler/tables/ii_reg.py:96` says that rd gets the old one.

*Machine code.* Divisions and remainders whose result or divisor is guest register 1 or
4 lose it (`MachineDivision`), and `rem_s_32` looks for zero in 64 bits and
divides by 32 (`MachineRemainder`); the upper halves of products are dropped or
mixed up for registers 0, 2 and 4 (`MachineUpper`); `mul_32` and
`rot_r_32_imm_alt` do not extend the sign; `set_lt_u` into register 0 does nothing
(`MachineSetLess`).
Addresses are taken modulo 2^64, by the interpreters modulo 2^32; the immediates of
30-33 and of `ecalli` are unsigned; a host call number above 101 is not trapped but
goes on with two registers changed (`HostCallRange`: a comment says 50), and the number 2^32 - 1 is
taken for sbrk. Any opcode may be jumped to, not only a basic block (`JumpsToBlocks`), an indirect jump
goes to the opcode at or before its target, and `load_imm_jump` without a target ends as
out-of-gas. A program that returns is run a second time, and its status, gas and registers tell
(`SameStatusRecompiler`, `SameGas`, `SameRegisters`). The gas of a program that ran
out is adjusted by 2^32 of a 64-bit word (`SameGas`).

*Recompiler memory.* The last bytes of each page are protected as the next page; pages
never given permissions are open to the guest; a host write there, or to page 0 when it is
read-only, kills the process; `zero_memory_range` raises always; the `mprotect` in `store`
has no effect (the address is cut to 32 bits), though the comment above it says that it
allocates access; the break is forgotten between calls
(`HeapBreakKept`).

*Signals.* Handlers, flags, jump buffer and dump are the process's, and every call
installs them and one more filter, where the comment at `recompiler/pvm.py:98` says once
per process: the models show it at work (`HostCallsTrapped` depends on it), and no run states the
comment.

## 5. What is proved

For every length of code, skip limit, register width, gas, number and size of pages:

| Module | Theorems | Argument |
|---|---|---|
| `IntMemoryProofs` | types, distinct buffers, coherence of the hot page, protection of pages, `Implements`: INT_Memory refines `GuestMemory` | The invariant joins the three parts: pages have distinct buffers, a hot page is the dict's buffer of a readable page and its flag is the writable bit. Each step then maps to a `GuestMemory` step over the cells the dict stands for. |
| `CyMemoryProofs` | `Implements`: CyMemory refines `GuestMemory` | The pages a loop visits are computed modulo the word. Inside the space they are the pages of the range; of a range that leaves it, they contain a page that does not exist, so every access is refused; an empty range visits nothing. The rest is per call, as above. |
| `RecMemoryProofs` | types, kernel and bits, approved accesses, read-only and revoked bytes | `KernelFollowsBits` is inductive with the types, the history of `given` pages being part of both, once it is known which kernel pages a change of permissions covers (`KernelRange`: those its guest pages start in). The other two follow from it and from where the bytes of a page lie. |
| `SkipTablesProofs` | skips of both loops, blocks and where they start, and `TablesServe` of `LoadedInterpreter` | The strengthening says that no opcode lies between the position in hand and the cursor, and that the basic-block pass starts on a full cache. A program is run on the tables of its own mask because neither the constructor nor the engine changes the program, and because the loops have no step left when the engine takes its first. |
| `SignalsProofs` | all five invariants of the run, for any number of threads and calls | Under the lock one call is running, it owns jump buffer and dump, blocks nothing outside the handler, and has its handlers and at least one filter; at rest nothing is installed, which is what the next call relies on. |
| `InterpreterProofs` | the six invariants of `Interpreter` | They are not inductive. The block in the making must be straight and end where compilation goes on, the block that runs must be complete, and every place control can get to (`Starts`) must start an instruction. |
| `RecompilerProofs` | the three invariants of `Recompiler` | The last opcode at or before an address exists, or else the first (`EntryAtIs`), and only the last opcode has none behind it; so the counter handed back at a fault or host call leads to the label it came from. `GasPays` keeps the gas word equal to what was given less what was run, until the charge that makes it -1 and is refused. |
| `EngineProofs` | all invariants of `cy_interpreter` and of `engines` | See below. |

Each of these modules extends its component and stands alone; the few facts about
pages or about masks that it needs are its first section.

The first half of `EngineProofs` is about `CyInterpreter`, which `Engines` extends
(theorems `Cy...`: all its invariants). There `_compile_block`
is a recursive function, so that first a solution of its equation is shown to exist
(`SolutionExists`, by the least position down to which there is one), and then, by the
last position for which it would fail, that what it returns is a run of opcodes up to
the first that ends it (`CompiledBlocks`). Every kept block is such a run, so that a
block returns at its last instruction only and its length is the number of
instructions run. A deficit is no larger than the counter, since positions grow by one
at least for each instruction charged: hence `DeficitBounded`.

The second half proves that the engines agree, for programs of any length: the
interpreters on every plain one, whatever the gas (`InterpretersAlike`), and the
recompiler with them on every well-formed one (`RecompilerAlike`). The engines take
steps of different sizes and charge gas at different moments, so that no step of one
corresponds to a step of another. They are compared with a fourth thing instead:

  - *The run.* `Ends`, `Where`, `RegAfter` and `CellAfter` say what one instruction
    does, without gas, blocks or caches. `Came(n, p, reg, cell)` says that n instructions
    from the start lead to position p with that register and cell. A program has one
    run (`OneRun`, by the first place where two would differ), so that two instructions
    of which each ends it are the same one (`SameEnd`). `Paid(n)` says that no block
    that ended before instruction n was beyond the gas; of two runs that have paid for
    what is behind them neither can have stopped, out of gas, where the other went on
    (`SameStop`).
  - *What each engine returns is told by the run.* `IntResult`, `CyResult` and
    `RecResult` are the three accounts: the Python interpreter looks at the gas before
    it looks at how the block ended, and leaves a block that failed unpaid; the compiled
    one charges everything and looks at the gas only where the run goes on; the
    recompiler charges first, and what panics on paid gas is called a second time
    (`Doomed`). Their invariants (`IntInv`, `CyInv` with `CyPhase`, `RecInv`) say that
    the instruction in hand is one the run comes to with the instructions counted so
    far. For the interpreters that rests on blocks being chains of what follows what,
    within a set of positions that control does not leave (`Spots`, which a plain program
    has); for the recompiler on labels being opcodes, and on the code behind the last
    opcode being the trap that follows it in the interpreters. A well-formed program is
    plain (`PlainEmitted`).
  - *The accounts agree* (`InterpretersTold`, `RecompilerTold`), by cases on where each
    one stopped.
  - The invariant of the comparison (`Inv`, theorem `RunTold`) puts the engines one after
    the other: who runs keeps its own invariant, and the results recorded are told.

Quantified as it is over runs, `Inv` is not one TLC can evaluate; TLC checks what
follows from it.

The assumptions are those named in the modules: sizes are positive, inputs are of
their types, nothing else. In particular the proofs about single engines do not assume
that masks or jump tables are sensible; the agreement of the engines is about `Plain`
and `WellFormed` programs, because of others they do make different
things. `GasPays` of the recompiler and its agreement with the interpreters need one
hypothesis more, `GasSigned`: the gas given is below half the word. The code does not look at that; a
larger gas is refused at the first instruction, as if there were none.

Only model-checked: the liveness properties (`Returns` of each engine and what
`Signals` says of calls that end), which need fairness and ENABLED; and the three
properties of `Instructions`. These compare, opcode by opcode, some 220 computations on
each engine with their meaning, where a word is `2^(8 * ByteBits)` and rotations, bit
counts and the logical operations are sums over sets of bits. That such a sum inverts the
decomposition into bits, and that powers of two multiply, are facts by induction over
data; products, quotients and remainders with sign of symbolic words are beyond the
arithmetic of the provers. TLC computes them for every opcode instead, with a byte of
one bit.

## 6. What is not modelled

  - *Codecs* (`core/code.py`, `core/program_base.py`): functions from bytes to the record
    the models start from. Two places are worth a reader's time: `encode_into` writes the
    number of jumps in one byte (in Cython, in as many bits as there are jumps) where
    `decode_from` reads a number of variable length, and the count of bytes read leaves
    the code's length out in Python but not in Cython.
  - *The layout of a standard program's memory* (`from_pc`): zones, stack and
    arguments. The memories start from any pages with permissions and bytes.
  - *VM context*: the offsets of its fields. What it shares with the guest (a page, the
    break, the gas word) is in `RecMemory` and `Recompiler`.
  - *Status objects*: `PAGE_FAULT` and `HOST` write their value into the one member of the
    enumeration. The engines' models return exits by value.
  - *sbrk past 2 GiB* in Cython, where the C int changes sign (`HeapLimit` stops before).
  - *Failing system calls*: malloc, mmap, mprotect and sigaction succeed.
  - *The encoding of x86 instructions* (the library `tsrkit_asm`), packaging, stubs and
    logging.

Hazards that no property covers are listed in `PROJECT.json` with the reason. `RecTables`
and `RecInstructions` rest on one assumption about the library: that it takes
immediates and offsets modulo 2^64.
