# v6llvmc in TLA+

v6llvmc is an LLVM 18 back end, a Clang driver and an lld port for the Intel
8080 of the Vector-06c.  This directory models the parts of it whose
correctness depends on an order of events or on an invariant over many steps,
checks them with TLC and proves the main safety properties with TLAPS.

## Inventory

| Component | State it keeps | Operations | What is hard | What makes it correct |
|---|---|---|---|---|
| Static stack allocation, `V6ClangStaticStackAlloc.cpp` | the interrupt-reachable set (computed once per module), per function: frame objects, `StaticSlots`, the global `__v6clang_ss.F` | interrupt search, evidence search, layout | recursion through shared callees, interrupts, callbacks from other translation units | a function with a static frame never has two live activations; its objects do not overlap |
| The running program: `crt0.s`, `v6clang_interrupt.h`, code laid out by the pass | activations on the stack, interrupt-enable flip-flop, static frames | call, return, interrupt, EI/DI, stores | an interrupt at any instruction | what an activation stored in its frame stays |
| Packed BSS, `lld/ELF/V6ClangPackedSections.cpp` | block list, holes, cursor; across passes the section lists of `.bss.pack` and `outSecOff` | classify, validate, place anchors, windows, fillers, reorder | several address passes, page boundaries, ends of the address space | no overlap, page rules, nothing lost, repeatable |
| Spill forwarding, `V6ClangSpillForwarding.cpp` | per block: which register holds which slot | forget, forward, delete a redundant spill | a register that the later lowering of a spill destroys | every reload reads what was spilled |
| Spill lowering, `V6ClangSpillExpand.cpp`, `V6ClangRegisterInfo.cpp` (eliminateFrameIndex) | the 8080 registers around one pseudo | one expansion per pseudo, register and liveness | liveness decides which registers may be clobbered | slot and register semantics; live registers and flags kept |
| Patched reloads (O61), `V6ClangSpillPatchedReload.cpp` | the immediates of reload instructions as homes of values, remaining BSS slots | choose reloads, rewrite spills, compact the frame | self-modifying code, interrupts, recompaction | each reload reads the last spilled value |
| Alloca promotion, `V6ClangAllocaPromote.cpp` | interrupt set, the globals | search, promote | as static stack allocation, with a weaker search | as static stack allocation |
| Register value forwarding, `V6ClangRegValueForwarding.cpp` | per block: what each register holds | transfer, meet, worklist with a budget | loops, predecessors not computed yet | a write that is erased would have written what is there |
| Frame lowering and call-frame information, `V6ClangFrameLowering.cpp`, `V6ClangCFI.cpp` | SP, `StackSize`, the row of CFA and saved registers | prologue, three tiers of SP adjustment, epilogue, one row per change | sizes known before and after the arguments are saved, interrupts, several epilogues | arguments, locals, result and return address where they belong, and the rows say so |
| SP trick, `V6ClangSPTrickOpt.cpp` | SP borrowed as a data pointer, DI/EI around it | rewrite a copy loop | an interrupt while SP points at data | the copy is right and SP is back |
| Pseudo expansion, `V6ClangInstrInfo.cpp` (expandPostRAPseudo), comparisons of `V6ClangISelLowering.cpp` | one block; constants and liveness looked up around a pseudo | one expansion per pseudo, the folds of constants | the registers a pseudo may clobber, constants that hold on one round of a loop only | the pseudo's meaning; live registers kept; the branch goes where the comparison says |
| Peephole passes over a block (`Peephole`, `ZeroTestOpt`, `LoadImmCombine`, `LoadStoreOpt`, `XchgOpt`, `RedundantFlagElim`) | what each register and the flags are known to hold along a block | rewrite one window of instructions | flags and register liveness, patched immediates, what the pass before left | same memory, live registers and flags |
| Branch optimisation, `V6ClangBranchOpt.cpp` | blocks in layout order, lists of successors | eight sweeps | lists edited by one sweep and read by the next | same calls on every way through; every edge the code takes, out of a block that does not just return, is in the list |
| IR passes, selection patterns, debug values, assembler, driver, runtime headers, scripts | none that outlives a rewrite | tables and text | | |

The passes run in the order of `V6ClangTargetMachine.cpp:158-204`: the IR passes
and AllocaPromote; after register allocation StaticStackAlloc, patched reloads,
spill forwarding, the lowering of frame indices with prologues and epilogues, the
expansion of pseudos; then peephole, LoadImmCombine, LoadStoreOpt, XchgOpt, BranchOpt,
ZeroTestOpt, register value forwarding, RedundantFlagElim, SPTrickOpt and at last the
call-frame information.  They share the `MachineFunction` and, through
`V6ClangMachineFunctionInfo`, the static slots.  The linker script
`v6clang.ld` puts sections named `.bss.v6clang.*` in `.bss.pack`, which the packed
layout orders; `crt0.s` clears `.bss` and calls `main`.

Two kinds of state make this code hard.  What one pass knows (a liveness scan, a
constant, a match of a register with a slot) is used after other code was put in or
taken out; and the program that results runs with interrupts, recursion and
instructions that are overwritten.  So every module that models a pass also runs what
the pass made of a program, beside what it was given: the properties speak of
the program and not of the pass alone.

## Modules

### Static frames

- `CallGraph` - the program as the passes see it: functions, call sites in
  order, attributes, frame objects.  `p.sites[f]` of a declaration is what its
  body in another translation unit does: the pass never reads it, the running
  program does.  `p.reach` is transitive calling; `IsReach` says so.
- `StaticStackAlloc` - the pass.  One action per loop iteration or early return:
  `SeedInterrupts`, `BfsStep`, `BfsDone` are `analyzeInterruptReachability`;
  `PickFunction` and `Dfs*` are the recursion of `hasNoCallbackEvidenceImpl`, its
  C++ stack in `path` and `next`; `CheckEligible` is `isFunctionEligible`;
  `SumObject`, `CreateGlobal`, `AssignSlot`, `FinishFunction` are
  `runOnMachineFunction`.
- `ActivationStack` - the running machine, written from how the code uses it: `Call` and
  `Return` are external, `Interrupt` enters an installed handler.  A byte of a
  static frame remembers which activation stored it last and for which object.
- `StaticFrames` - the two composed: the pass runs to its end, then the program.
- `PrivateFrames` - the abstract specification: the same program on a machine on which
  every activation has a frame of its own.  `StaticFrames` implements it
  (`ImplementsPrivate`): compiling is a stutter, and a call, return or
  store of the compiled program is one of the abstract program.
- `ActivationStackProofs` - lemmas about the stack for any set of functions and any
  layout of their frames; the two users of `ActivationStack` cite them.
- `StaticFramesProofs` - the theorems, `StaticIsPrivate` among them.
- `AllocaPromote` - `V6ClangAllocaPromote`, on the same `CallGraph`: `SearchOne` is its copy of
  the interrupt search, `HasEvidence` and `Eligible` its conditions; `CollectAlloca`, `StartLayout`, `LayOut`,
  `CreateGlobal` and `Replace` are the loops of `promoteAllocas`.  `AllocaFrames` composes it with
  `ActivationStack`; `AllocaFramesProofs` has the theorems.

### Packed BSS

- `PackedSections` - one address-assignment pass after another.  `StartPass` is
  `LinkerScript::assignOffsets` with dot at any start; `AssignNormally`, `GiveUp`,
  `RejectBlocks` are the early returns; `StartLayout`, `PlaceAnchor`,
  `PlaceInBestHole`, `AppendBlock`, `Overflow`, `TooLarge`, `Finish` are
  `assignV6ClangPackedBlockAddresses` and the reordering that follows.
- `PackedSectionsProofs` - the theorems.

### The 8080 and the stack

- `Intel8080` - the instructions as a function from machine to machine; bytes have
  `ByteSize` values, a power of two.  `F` holds carry, zero and sign; the generated code
  never reads parity or the auxiliary carry.
- `FrameIndexElim` - spill lowering.  `Eliminate` is
  `V6ClangRegisterInfo::eliminateFrameIndex` on the next pseudo of a block, with
  the expansions of `V6ClangSpillExpand` it calls: `StaticSpill8` to `StaticReload16` for
  slots in `__v6clang_ss.F`, `DynamicSpill8` to `DynamicReload16` relative to SP.
  `Execute` runs the result one 8080 instruction at a time, `Interrupt` may come
  between any two.  Beside it `a` is what register allocation believes: `Meaning` gives
  each pseudo the operands, kill flags and `Defs` of `V6ClangInstrInfo.td`.
  `DeadAfter` is `isRegDeadAfterMI`, which every expansion relies on.
- `SpillForwarding` - the walk of `processBlock` over a block, one action per branch;
  `Avail` is the code's map.  Afterwards the block is lowered by `FrameIndexElim` and runs.
  `Operands` is what the blocks given may hold: the registers each opcode takes, and
  slots that are the program's own or register allocation's with one width.
  `SpillForwardingProofs` has the theorems about the walk, about the lowering and about both together.
- `PatchedReload` - O61 (`V6ClangSpillPatchedReload`): one action per slot picked
  (`PickSlot`, with the chooser), spill rewritten, reload rewritten, and `Compact`.
  `ids` remembers which instruction of the block as it came (`allocated`) each one stems from.
  `Fetch` reads the immediate of a patched instruction from memory, so the
  block that runs modifies itself.  `PatchedReloadProofs` has its theorem.
- `FrameLowering` - one function from its prototype to its return: `Where` is the
  calling convention, `Prologue` and `Epilogue` are `emitPrologue` and
  `emitEpilogue` with `AdjustSP` for the three tiers, `Trick` is what
  `V6ClangSPTrickOpt` makes of a block copy, `rows` and `cfi` what `V6ClangCFI`
  writes.  Then the function is called, interrupts included, by a caller that
  put the arguments where the convention has them.  `FrameLoweringProofs` has the theorems.

Spill forwarding and patched reloads extend `FrameIndexElim`: each is checked
together with the lowering that follows it, because a pass can be right about
slots and wrong about what the lowering destroys.

### Blocks of code after register allocation

- `PseudoInstr` - what the pseudo instructions compute and what `V6ClangInstrInfo.td`
  says they read, define and destroy.
- `ArithExpansion`, `MemoryExpansion` - `expandPostRAPseudo`, pseudo by pseudo, with the
  folds of constants (`findDefiningLXI`) and the choice of spare registers
  (`Spare`, `SpareSwappedReg`).
- `CompareLowering` - comparisons: `Lower16` and its neighbours turn a condition and its
  operands into what the flags of the 8080 can say.
- `PseudoExpansion` - one block: the comparison that ends it is lowered, each pseudo is
  expanded, and the block runs beside the meaning of what it was made from.
- `PeepholeFolds` - the eighteen rewrites of `V6ClangPeephole`, each at one position;
  `DeadAfter` is its liveness scan, to the end of the block and into the
  live-in lists behind it.
- `Peephole` - the pass: live-ins anew, then one walk of the block per rewrite in the
  pass's order.  `Given` and `Rewritten` run the given block and the one that
  results, side by side.
- `LateFolds` - one step of each walk behind the peephole pass, with what is known:
  `LoadImmStep`, `FoldHLStep`, `ForwardStep`, `FlagStep`, `TryXchg`, `ZeroTestStep`,
  `DeadLxiStep`.
- `LatePasses` - the walks, one action a pass, in the order of `addPreEmitPass`, continuing
  from where `Peephole` ends; branch optimisation, which looks at whole functions, is `BranchOpt`.

### Functions of several blocks

- `FlowProgram` - a function as a flow graph, and a run of it: the abstract
  specification of a pass that forwards register values.
- `RegValueForwarding` - O92: `PickBlock` takes the next block of the worklist and the `Meet` of the
  predecessors computed so far, `TransferInstr` walks the block, `StoreBlock` puts its successors on the
  list if the result changed; `EraseInstr` is the same walk when it erases; then the function runs.
  `SameProgram` is `FlowProgram` of the given function: the compiled function,
  erased instructions and all, implements it.  `RegValueForwardingProofs` has the theorems.
- `BranchOpt` - `V6ClangBranchOpt`: eight sweeps over a function in layout order
  (`FoldReturn`, `ThreadAt`, `RemoveDeadBlocks` and the others), one action a sweep, with the lists
  of successors they edit; the result is run beside the given function.

A definition marked "mutant" is not used: it is a plausible mistake
in the code, next to the definition it would replace, and shows that the property it is
paired with in `PROJECT.json` notices it.

## Runs

| Run | What it shows | Bounds |
|---|---|---|
| `static_frames` | the interrupt set is closed, no function that is laid out can come back to itself, objects have one home and are apart, the pass ends; then, with marked handlers that call only visible functions, no static frame is shared, nothing in it is overwritten, and the program implements the one with private frames | five functions, one of them external; bodies of at most two call sites, each kind of site; three objects, dead and empty ones included; at most five live activations.  Two sites are what a shared callee needs, two functions what mutual recursion needs, five activations main, f, handler, g and one more |
| `packed_bss` | placement, page rules and repeatability for five sections of sizes 1 to 3 and anchors longer than a page; then every early return and both ends of the arithmetic | pages of 4 bytes, memory of 5 pages, two passes, each starting anywhere in a page or one past the end of memory; sizes up to 30, the largest integer 39: one hole split, one skip to the next page and one best-fit choice all happen |
| `alloca_frames` | a frame is promoted as a whole or not at all, locals are apart, and no two activations share them | five functions, four live activations; at most three locals, empty and dynamic ones included; a global of at most 3 bytes, so that one frame fits and another does not |
| `spill_forwarding` | what `Avail` says of a slot is true; the reads of the block are those of the block before the pass, also once it is lowered; every pseudo by itself leaves what is live, every slot and the stack as they have to be, interrupts included | bytes of three bits; every pseudo with every register before every set of live registers; blocks of up to five instructions over two slots, one static; HL, DE, H, A: registers that overlap and ones that do not (690 723 states) |
| `patched_reload` | decisions on a half-rewritten block are sound, stores stay inside the global and the patched immediates, every read is right | up to six instructions over a 16-bit and two 8-bit slots: two sites, a second spill, a call between, slots that survive and slots that vanish all happen (334 874 states) |
| `reg_value` | whatever the pass believes of a register when it erases is true on every path, and the function runs like the given one | three registers, two values; a loop, a loop with two ways through it, a loop in a loop: a block is visited before all of its predecessors, and facts are lost over a back edge (295 944 states) |
| `frame_lowering` | arguments, locals, result, return address and callee-saved BC are right in every prologue and epilogue, the SP trick copies what it should under interrupts, and the call-frame rows agree with the stack at every instruction | ten prototypes that together leave every pair live; frames of 0 to 6 bytes, on both sides of every tier; copies of 0, 5, 6, 7 bytes; bytes of three bits |
| `pseudo_expansion` | every pseudo does what it means and spares what is live; constants are folded only where they hold, but for the cases named under known limits; branches go where the comparison says | bytes of eight bits, because the expansions treat 255, 256 and the sign specially; every operand of every pseudo, eleven 16-bit and seven 8-bit values pairwise for comparisons; seven ends of a predecessor, one or two predecessors in both orders, a pair written 16 and 17 instructions back; a block run at most twice |
| `loop_constant` (violation) | a constant from before a loop is folded on its second round | `DAD16 BC, DE, BC` in a block that is its own successor, one of the blocks that `pseudo_expansion` leaves out |
| `peephole` | after all eighteen rewrites, and again after the late passes, a block leaves the memory, the live registers and flags, and the patched immediates as the given one does | each pattern of each rewrite with one other instruction at every place in it, pairs of patterns, every kind of end, a predecessor; bytes of four bits; windows of two for the limits of eight and sixteen instructions; a block run at most three times (958 620 states) |
| `stale_carry` (violation) | a flag test is erased although it clears the carry | one block: a 16-bit difference shifted right |
| `branch_opt` | a function calls and returns as before, and every edge its code takes, out of a block that does not just return, is in its lists of successors | functions of three to five blocks; every condition; the ends the sweeps look for, one before the other.  No function is given with `Jcc skip; JMP t; skip:` (`Sensible`): that pattern comes up only behind a threaded jump (110 637 states) |

Three or four bits are enough to give each of the seven registers and each byte of the slots a
value of its own, which is what tells a wrong move from a right one; addresses
then have six or eight bits, enough for a global, the patched code and a stack.  The
scan for dead registers of the spill lowering looks at most at the next instruction that
touches a register, so one or two instructions after a pseudo show every
answer it can give.

Deadlock checking is off where the program stops: the linker after its last pass, a
function or a block at its end.

Liveness is claimed only of the compiler pass (`PassTerminates`), under weak
fairness of its whole next-state relation (`FairSpec` of `StaticFrames`: `WF` of
`CompileStep`): it is a sequential program that nothing else holds up.  No fairness is
assumed of the running program, and none of the other passes has a loop that
could fail to end but the worklist of O92, which a budget stops.

## What the violations show

- `loop_constant`.  `findDefiningLXI` passes over the block itself among its predecessors,
  "Reg unchanged in current BB" (`V6ClangInstrInfo.cpp:416-417`), but it looked only at the part before the
  pseudo.  `DAD16 BC, DE, BC` with BC = 2 from the preheader becomes DE copied to HL, INX HL twice
  and HL copied to BC: every round stores DE + 2, where the second one should add what the first left in BC.
- `stale_carry`.  `V6ClangRedundantFlagElim.cpp:279` erases `ORA A` when the zero flag already
  tells whether A is 0; the comment (5-9) says the instruction is then redundant,
  and `design/plan_redundant_flag_elimination.md:294-296` that no code sets the carry and
  uses it later.  The RAR form of a 16-bit shift (`V6ClangInstrInfo.cpp:2549-2580`)
  relies on `ORA A` to clear the carry: after a subtraction, the borrow is
  shifted into bit 15.

## Known limits of the code

While modelling, these were met in the source too.  Each is left out of the
passing runs by name (the operator is given where there is one), so that what those
runs show is the rest.  Line numbers are of the file named.

Static frames (`V6ClangStaticStackAlloc.cpp`):
- The search passes over indirect calls and over functions that are only declared (192-194), so a marked
  handler that calls through a pointer can re-enter a static frame, though the comment
  (119-122) says it cannot; and a handler installed without the
  attribute is not seen at all.  `ClosedInterrupts` assumes neither; the theorems
  assume it too.

Spill slots:
- A 16-bit load from the stack into HL takes A as its temporary (`V6ClangRegisterInfo.cpp:420`) while the pseudo
  declares only HL and FLAGS.
- A killing spill erases the entry of its own slot and leaves other slots
  matched with the same register (`V6ClangSpillForwarding.cpp:164-168`; `Follows`).
- `isRegLiveBefore` answers "no" for HL at the first killed use of H although L has a
  value (`V6ClangSpillPatchedReload.cpp:115-124`).  A spill of DE then exchanges DE and HL with HL marked undef, and
  what was in L counts as dead for the decisions that follow.  `HLWhole` says that a block has no such spill.

Register value forwarding: when the budget (`V6ClangRegValueForwarding.cpp:306`) is used up the states
of that moment are trusted.  A loop of two dozen blocks gets there, more than a run can enumerate.

Frames (`V6ClangFrameLowering.cpp`):
- With a frame pointer (`FPTrouble`): stack-argument offsets and the reload of saved
  arguments do not count the saved BC, an argument in BC is lost, outgoing
  arguments get no room (442), a callee may lose BC.
- The epilogue that needs HL does not keep a 32-bit result (`LosesLong`); in a
  function with a frame pointer, the row of BC is not set again for a second block
  that returns (`ReturnsTwice`).
- The SP trick asks neither for DE live, nor overlap, nor interrupts disabled before
  it (its EI enables them).

Pseudos (`V6ClangInstrInfo.cpp`):
- `StoresItself`: STORE16_P of BC to where BC points (near 2269).
- `LosesStored`: STORE16_G of DE with HL dead leaves DE exchanged (2417-2423).
- `SparesAddress`: LOAD8_P through BC takes B or C as the spare register (2966).
- `SelectsEqual`, `TestsSign8` (1391-1394): the zero flag of CMP16 is that of the high byte; the sign
  flag of XRA A; CMP r is that of -r.  Signed orders look at the sign of a
  difference: operands far apart overflow.
- Constants from before the block (`findDefiningLXI`; the arrivals and blocks below are built so that
  each case is met, and these are the ones left out).  `ChangesConstant`: the loop of `loop_constant`.
  `PassedOver` (438): the search gives up at a predecessor without an LXI ("Predecessor doesn't define
  Reg via LXI") only while none was found before, so a predecessor that leaves the pair alone is
  accepted behind one that loads it, and the constant is folded on both ways in; in the other order
  it is not, and that order is checked.  The comment (410-412) asks for all predecessors, or exactly one.
  `BeyondWindow` (390): when the 16 instructions looked at are used up the pair counts as untouched,
  although the block wrote it further back, and the predecessors' constant is folded; a write that far back
  in a predecessor is one more `PassedOver`.
- Not given to the expansion: a constant added to itself, BUILD_PAIR whose low half is the
  high half of the target, comparisons that are always true (ULT 0, UGE 0).

Peephole (`V6ClangPeephole.cpp`):
- `HalfDead`: a pair counts as dead when one half of it is overwritten (the caveat at 208-210);
  `CallBetweenXchg`: a call between two XCHG (comment at 587); `CarryPastCount`: an INR or DCR
  behind a replaced MVI A,0 keeps the carry and shows the one XRA A made;
  `ArgumentDropped`: a tail jump is built with its target only (178-180, 192-194), its arguments then look
  dead; `FlagsBehindTest`, `AccumulatorTaken`: flags, or A, live behind a zero test.
- A branch to a zero test is taken to have A as the test left it
  (527, against 488-491) although the branch may come from elsewhere.
- The SHLD/LHLD fold accepts any global, and PUSH moves SP under readers of it; the run has only
  private slots.

Late passes:
- `StaleCarry` is the finding above.  `isWritesANoFlags` (`V6ClangRedundantFlagElim.cpp:130-156`) misses CMA, DAA and IN.
- `ZeroLost`: `V6ClangLoadImmCombine` trusts A = 0 after XRA A; CMP r, and the zero-test rewrite
  then erases the XRA A.  `BridgeSeen`: names of registers are compared exactly, so a use
  of the pair hides.  `CountedFlags`: an MVI becomes INR or DCR under live flags.  The value of
  a patched CPI is believed (`V6ClangLoadImmCombine.cpp:291`, against 32-36).
- `LoadLost`: `eliminateDeadLXI` treats an overwritten half as the pair, and drops a patched LXI
  with its label; two patched `LXI H,0` count as equal
  (`V6ClangLoadStoreOpt.cpp:70-86, 237-243`).

Branch optimisation (`V6ClangBranchOpt.cpp`):
- `Sensible`: a conditional jump to the next block; a return folded from it drops the
  edge to a block the code still falls into.
- `Chained`: Jcc T; JMP U where T only jumps to U and U on: threading both loses
  the successor, and a block still jumped to may be erased (142-143).
- `PatchedArm`: a patched MVI or CPI counts as a constant (424, 444-448).

## Proofs

The theorems hold for every value of the constants, under the assumptions the
modules name: `CallGraph`, `AllocaPromote` (how a module of functions looks),
`PackedSections` (a page and a memory, sections listed once), `FlowProgram` and
`RegValueForwarding` (a function as a flow graph, three kinds of instruction), `Intel8080` (a byte has
room for the flags), `FrameLowering` (the copied bytes and the stack are apart and a function has enough
stack; `FPTrouble` and `LosesLong` are excluded by name), `FrameIndexElim` (slots lie in memory; the global does not overlap the stack frame or the
four bytes below it, which expansions and interrupts push to), `SpillForwarding` (instructions
have the operands of their opcode, at most BC is reserved) and `PatchedReload` (a slot is a byte or a word,
nothing reads a register after it is killed, no immediate lies at address 0).  TLC evaluates each of them.

Static frames, `StaticFramesProofs`:

- `TypeCorrect`: `Spec => []TypeOK`.
- `SearchClosed`, `EvidenceIsSound`, `SlotsNeverOverlap`, `ObjectsHaveOneHome`: what the pass
  promises.  The depth-first search is the hard part: the invariant says that a visited
  function that is no longer on the path has all its remaining targets visited
  or safe, and that the functions on the path call each other in order; when
  the path is empty, the visited set is then closed under calls that can come back, and
  the least-fixpoint part of `IsReach` gives that F is not in its own reach.
  `ObjectsHaveOneHome` follows the three loops over the objects: what is summed so
  far, what is assigned so far, and that the second loop stops inside the sum of the first.
- `NotReentered`, `FramesKept`: assume `ClosedInterrupts` of every program.  The
  invariant relates every two activations on the stack: without an interrupt between them the
  later is reachable from the earlier, with one it is reachable from a
  handler.  The first contradicts `EvidenceIsSound`, the second `SearchClosed`.
  Without the assumption TLC refutes both: see the known limits.  The stack part
  is in `ActivationStackProofs`, for any set of functions that are neither in their own reach
  nor in that of a handler, and any layout without overlap.
- `StaticIsPrivate`: `Spec` implements `PrivateFrames`, under the same
  assumption.  The initial states map to initial states; a step of the compiler
  is a stutter; a step of the program is a step of the abstract one, because by
  `FramesKept` the byte that a live activation reads back is its own.

Promoted locals, `AllocaFramesProofs`:

- `MovesAreWhole`, `LocalsStayApart`: the invariant follows the three loops.  `Static` lists, in order
  and once, the static allocas met so far; each offset is the sum of the sizes before it,
  so that the homes tile the global and a local that has no home yet begins where
  the ones before it end; while `Replace` runs, exactly the allocas before `k` have moved.
- `PromotedOnce`, `LocalsKept`: the lemmas of `ActivationStackProofs` on the promoted functions, under
  `ClosedInterrupts`.  The evidence of this pass looks at call sites only, so a function it accepts
  without `norecurse` has no edge that leads back to it.

Packed BSS, `PackedSectionsProofs`:

- `BlocksDisjoint`, `PagesRespected`, `NothingLost`: placement keeps blocks and holes a
  partition of start..cursor.
- `SectionsPreserved`: the lists are a permutation of those given.  The concatenation of the lists is
  a fold; what is needed of it (it has the elements of the lists, each as often) is proved from
  its defining equation by the least length for which it could fail.
- `WritesLegalArena`: the blocks in `InAddressOrder` are all blocks, once, and no later one lies before
  an earlier one; a block is not empty, so with `BlocksDisjoint` the next one starts behind it.
- `PassesConverge`: placement is a run of steps in which nothing is free, from the start
  address and the set of blocks.  `RepeatInv` keeps, for the last pass laid out, that its addresses
  are the end of such a run; two runs from one start agree up to the first step at which
  they could differ, and there is none.  The section list the first pass reordered is the same set, and
  the rank and input order decide, not the place in the list.

Register value forwarding, `RegValueForwardingProofs`:

- `DrainedFactsTrue`, `DrainedSameProgram`: the states of a computed block are a walk of `Transfer`
  over its instructions; unless the block is still to be visited, the first claims no more than its
  computed predecessors agree on at their ends, and every successor is computed or on the worklist.
  When the list is empty every block the program can come to is computed, and a run
  keeps what the states say: `Transfer` is sound for each instruction, `Meet` for each edge.
  `EraseInstr` takes out only writes of what is there already.  The condition that the list was
  drained is the budget: when it ends the search early, the states of that moment
  are used (see the known limits), so without the condition neither holds for every function.
  In the run every function drains its list, and TLC checks both unconditionally.

Spill forwarding, `SpillForwardingProofs`, for blocks of any length over any slots:

- `MemoryIsTrue`: `Spec /\ []KillsForgotten => []AvailSound`.  What the block does so far is `Trace`, a
  recursive function of a position; two blocks that agree up to a position have the same trace
  there (by the least position for which they could differ), so rewriting an
  instruction moves nothing before it.  `WalkInv` adds to `AvailSound` that the
  instructions have proper operands and that a slot of one byte is only remembered
  in a byte register, a slot of two in a pair.  Then one lemma per branch of `processBlock`.
- `WalkKeepsReads`: `Spec /\ []KillsForgotten /\ []KnownReads => []GivenReads`.  The given block and the
  block as rewritten so far read (in `USE`) the same values, in the same order.  Each
  rewriting leaves a state that agrees with the one before it wherever that one has
  a value; what follows is the same in both blocks, and agreeing states read
  the same and go on agreeing.  This is the forwarding half of `ReloadsRight`.
- The conditions.  `KillsForgotten`: where an instruction kills its register, no other slot is
  remembered in it, but for a spill that the next instruction reloads.  The code does not see
  to it: this is the known limit above (`Follows`), and without it neither theorem
  holds.  `KnownReads`: the given block reads no register after it is killed.  TLC
  finds both, and `GivenReads`, invariant on every block the pass walks in run `spill_forwarding`.

Spill lowering, also in `SpillForwardingProofs`, for blocks of any length, any frame and any byte size:

- `SlotsStayRight`, `LiveStaysRight`: `Spec /\ []AIsSpare` implies `[]SlotsKept` and `[]LiveKept`.
  `Good(x, b, k)` relates the 8080 x to the abstract machine b after k instructions: live and reserved
  registers agree, slots agree, SP is back, nothing else is written.  `InstrGood` says that the
  code of every instruction leads from good to good: one lemma for each expansion, for
  each register it may be given and for each answer of the liveness scan, built from
  lemmas on what each 8080 instruction does to registers and memory.
- Interrupts: two machines are the `Same` when they differ at most in the free stack below SP.
  An interrupt leads to the same machine (`InterruptSame`), and an instruction that
  touches only registers, the slots or the stack at SP takes same machines to same
  machines (`ExecSame`).  The invariant `LowerInv` is that the code which is left leads some machine
  that is the same as the present one to a good one (`OnTheWay`); a step takes the first
  instruction off, an interrupt changes nothing.
- `ReloadsStayRight`: `Spec /\ []AIsSpare /\ []KillsForgotten /\ []KnownReads => []ReloadsRight`, the two passes
  together.  `ReadInv` follows what the running block has read along the trace of the rewritten block,
  where every register that is read is live and so agrees; `WalkKeepsReads` takes it
  back to the given block.
- `AIsSpare`: no 16-bit load from the stack into HL while A is live, the known limit on
  `V6ClangRegisterInfo.cpp:420` (`LoadsThroughA`).  Without it `LiveKept` is refuted by that one load.  TLC finds
  `AIsSpare`, as well as the two conditions above, invariant in run `spill_forwarding`.

Patched reloads, `PatchedReloadProofs`, for blocks of any length over any slots:

- `ScanIsSound`: `PatchSpec /\ HLWhole => []ScanSound`, whichever reloads are patched and in whichever order the
  slots are treated.  `Segments(b, id)` relates a half-rewritten block b to the block that came: the
  instructions that stem from one instruction stay together and in order (`InOrder`); one that is not 8080
  code yet is what it was, alone (`Alone`); a segment reads what its instruction reads before it writes
  it (`ReadsStay`), and touches otherwise only what the instruction defines or what is dead after it
  (`OnlyDead`); it writes HL where the instruction does, and kills no more (`WritesStay`, `KillsStay`).
  From this follow `DeadStays`, that what the scan calls dead in b is dead in the block that came, by what
  touches the register first; and `LiveStays`, the same for `isRegLiveBefore` looking back.
- One instruction replaced keeps `Segments` (`RewriteKeeps`) if the code `Stands` for it, up to a set
  of registers that are dead.  `Spill16Stands` to `Reload8Stands` and `SiteStands` are that for each expansion, each
  register and each answer of the scan, from the registers an instruction sequence reads
  first, touches and writes (`Shape`), which join with the sequence (`ShapeJoin`).
- `HLWhole` is a condition on the block that comes, the known limit on `isRegLiveBefore`: without it the
  exchange reads an HL the scan has given up.  The blocks of run `patched_reload` satisfy it.

Frame lowering, `FrameLoweringProofs`, for frames, copies and prototypes of any size, any number
of blocks that return and any byte size:

- `ArgsAreKept`, `ReturnsAreRight`, `LocalsAreKept`, `CopiesAreRight`: `FrameSpec` implies `[]ArgsKept`, `[]ReturnsRight`,
  `[]LocalsKept` and `[]CopyRight`.  The code is annotated with sets of configurations (a machine
  and the interrupt flip-flop): `Annotates(fn, F, s)` says that `F[k]` holds after k instructions of s, that
  an interrupt does not lead out of it (`Stable`), that the next instruction leads to `F[k + 1]` and
  that it finds what the four properties ask of it (`Asked`).  `Hoare(fn, P, s, Q)` is that
  there is such an annotation from P to Q; two of them join (`HoareJoin`), so each piece of code is
  looked at by itself.
- The sets have one form, `Known(s, Q, g, X, h, e)`: SP is s, the registers in Q hold what g says, the bytes at X
  what h says, the flip-flop is e.  Such a set is stable when, with interrupts enabled, the two bytes
  below SP are not in X; that is what DI in the SP trick is needed for, where SP is in the data.
  One lemma per kind of instruction (`PushStep`, `DadStep`, ...), then
  `AdjustDown` and `AdjustUp` for the three tiers, `PrologueRight` for both cases of `emitPrologue`, `TrickRight`
  and `CopyBytesRight` with the number of bytes already copied as the invariant, `ExitRight` for the
  epilogues.
- `SPTrickRight`: the pass replaces just the copy, and leaves an odd last byte to be copied twice.
- The invariant `FInv`: the code is the one of its phase, the function has not begun before the walk of
  `V6ClangCFI` is over, and then some annotation of the running block has the configuration where it is,
  and ends where a block that returns may start.

Only model-checked:

- `WritesInside`, `ReadsRight` of the patched reloads, `CfiRight` of the call-frame rows.  Nothing in these
  modules is beyond the prover; they are not proved yet.
- `RegistersRight`, `MemoryRight`, `BranchRight`, `RegistersKept`, `MemoryKept`, `PatchedKept`, `SameCalls`,
  `SuccessorsKept`: the modules use `Bitwise`, or walk over a block by recursive operators, which
  the prover does not take.
- That the budget of O92 suffices for the functions of the run.
- `PassTerminates`: liveness under fairness is beyond the prover.

## Plan

Done: the static frames with the program that runs on them, as an implementation of private
frames; alloca promotion; the packed layout; register value forwarding: each with its safety properties proved.
Spill forwarding and the lowering of spills, proved for every block; the decisions of O61 on a half-rewritten block, proved
for every block; frames and the SP trick, proved for
every function.
The life of a spill slot from O61 to 8080 code; call-frame information; the expansion of pseudos; the peephole passes over a block; branch optimisation: checked.
Next, most important first:

1. **`WritesInside` for every choice of O61**: the slots that `PickSlot` and `Compact` leave, and
   what is written of them.
2. **Call-frame rows**: `CfiRight` from the annotations of `FrameLoweringProofs`, which give SP at every
   instruction, and the state of the walk beside them.
3. **The pipeline of a spill slot**: `PatchedReload`, then `SpillForwarding`, then `FrameIndexElim` on the
   same block, the abstract block as specification of all three.
4. **Linker and runtime**: relocation arithmetic of `lld/ELF/Arch/V6Clang.cpp` and the assembler's
   fixups, the multiplication and division helpers against `*`, `\div` and `%`, the
   byte-wise patching of the interrupt vector by `v6clang_interrupt.h` against
   an interrupt between the two stores.

## Not modelled, and why

- Several blocks, block frequencies and live-in lists in the spill modules: the liveness at
  the end of a block is an input (`liveOut`, `liveIn`), so what other blocks
  do is represented by every answer they could give.  `Peephole` has the live-ins of the
  blocks behind (`behind`) in the same way.
- What register value forwarding learns from other blocks, inside `LatePasses`: `RegValueForwarding` has it.
- Undef and kill flags of operands in the peephole modules (the spill modules have them), `DBG_VALUE`,
  `.debug_*` symbols and remarks: they carry no value of the program.
- `V6ClangAccumulatorPlanning`: as it stands it changes nothing.
- `eliminateFrameIndex` inside a call sequence (SPAdj) and its fallback for instructions other than
  the nine pseudos.
- Selection patterns and the IR passes: rewrites whose correctness rests on LLVM's own
  analyses, tables rather than behaviour.
- The assembler's parser, the driver, scripts: tables and text.  Relocations and the runtime
  helpers are item 4 of the plan.
- The rest of LLVM, Clang and lld in the repository is theirs, unchanged, and stands here only
  as the meaning of attributes, machine operands and section lists.
