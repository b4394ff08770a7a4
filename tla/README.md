# A verification development for Sela

Sela is a pre-alpha publication toolchain for Linux/ELF programs.  A publisher
runs `sela-build`, which builds the project once per selected target with stock
Clang under capture plugins, works out which compiler inputs really went into
the selected native output, pairs those native compilation units across
targets, imports them into target-neutral IR and joins them into one `.sela`
package.  A device runs `selac`, which recovers the units of its own target from
the package, in native order, and hands them to LLVM.

The claim that makes the toolchain worth having is *exactness*: what `selac`
compiles for target `t` is the set of units that `t`'s own build put into the
selected output, each from its own capture, in the order the native linker used,
with the settings the native build used.  Where exactness cannot be
established, publication must refuse.  The specifications in this directory
follow that claim through the system, from compiler processes racing each other
in a build lane to the bytes a device reads.

Source paths below are relative to the repository; a line of the map in
`PROJECT.json` ties every definition that models code to the lines it stands for.

## 1. Inventory

### 1.1 Components, their state and operations

| Component | Source | State it keeps | Operations |
| --- | --- | --- | --- |
| native capture plugins | `src/publisher/ClangPlugin.cpp`, `src/capture/Snapshot.cpp` | `metadata/<name>` (LLVM snapshot), `metadata/<name>.compile.json` (journal) | reserve a name, write the provisional journal, write the snapshot and bind its digest, check and bind the object's digest |
| observing native linker | `src/publisher/NativeLinkMain.cpp`, `src/cli/Build.cpp` | `metadata/<digest>.link.json`, `metadata/<digest>.native.o` | run stock LLD with a trace, read the witness section of the output, match each traced object with it, save its bytes, write the link journal |
| native selection | `src/cli/Build.cpp` | none (reads the lane) | `selectOutput`, `selectArchive`, `selectRetainedBuild` |
| native build driver | `src/cli/Build.cpp` | the private lane (a copy of the project) | copy, configure, build with two jobs, select |
| cross-target pairing | `src/cli/Build.cpp` | `CapturedBuild` | `combineSelected`: paired, scoped or grouped |
| publication driver | `src/publisher/BuildMain.cpp` | staged objects, link plan | capture every target, publish each unit, link, install |
| producer plugin | `src/publisher/ClangPlugin.cpp` | one module per target | import the captures of a unit, write a relocatable package |
| partition merger | `src/ir/Partitions.cpp` | fragments, units per target | `mergeProfilePartitions`: proved partition or whole-unit fallback |
| publication linker | `src/publisher/LinkMain.cpp` | fragments and plans so far | admit inputs, renumber, order, write |
| artifact layer | `src/artifact/Artifact.cpp` | manifest | create, validate, read a target's plan |
| file reading and installation | `src/support/Support.cpp` | temporary file, artifact path | `read`, `replaceFile` |
| device compiler | `src/consumer/Main.cpp` | private scratch | recover a plan, lower every unit, native link or archive |
| compilation units, domains, conditional CFG and specialization, common merge | `src/ir/CompilationUnits.cpp`, `Domains.cpp`, `Conditional*.cpp`, `CommonMerge.cpp` | none (functions on IR) | merge, specialize |
| ABI classification, overlap layout, byte swap, variadics | `src/ir/*ABI*.cpp`, `Overlap*.cpp`, `ByteSwap.cpp`, `*Variadic.cpp` | none (functions on types and instruction patterns) | classify, lay out, recognize |
| importer, verifier, lowering | `src/ir/Producer.cpp`, `Compiler.cpp`, `NativeLowering.cpp`, ... | none | translate |
| target selection, SDK access | `src/support/Selection.cpp`, `src/targets/Targets.cpp`, `src/support/Sdk.cpp` | none | parse, check |
| provisioning scripts | `sdk/`, `scripts/` | none at run time | download, pin, package |

### 1.2 How they interact

```
 sela-build ──(one private lane per target)──> make/ninja -j2
                                                ├─ clang + CaptureConsumer/Snapshot/Finish ──> metadata/
                                                ├─ sela-native-ld = stock LLD + recorder   ──> metadata/
                                                └─ generators, objcopy, strip, cp, ar
      selectOutput / selectArchive  <── metadata/, outputs, archives
      combineSelected
      clang -fplugin sela mode=profiles   (one object per unit; mergeProfilePartitions)
      sela-ld --sela-input-domain --sela-unit-order --sela-target-links ...
      replaceFile ──> artifact.sela ──read()──> selac: plan of one target ──> LLVM, native link
```

In a lane everything is communicated through files: the compiler reserves a
name, tells the linker about it with a marker section inside the object, the
linker copies the markers into the output and records what it saw, and the
selection puts the three together after the build.  Afterwards the flow is a
sequential pipeline inside `sela-build` that ends with an atomic rename of the
artifact, which other processes may be reading.

### 1.3 Which behaviours are hard

* **Interleaving.** Two jobs of the build run at once.  A recursive make may run
  two recipes for one object; a link may read an object while it is rebuilt; the
  recorder reads every object *after* LLD has read it.
* **Stale evidence.** `strip`/`objcopy` keep the marker and change the code;
  generators rewrite headers while a compiler runs; an output is linked twice;
  something in the lane rewrites a capture.
* **Failure at any point.** Compiler, linker and installers may fail or die
  between any two steps.
* **Index arithmetic in the link plan.** Permutations against their inverses,
  ranks among the units of one target against ranks among all units, renumbered
  fragments, member names per input or per position.
* **Regrouping.** Targets may split the same definitions differently over their
  units, and the recovered units must still be exact.
* **Optional sharing.**  Merging the modules of several targets is an optimization
  that may fail at any point, also after the merged module is complete; what is
  published has to be exact either way.
* **Two programs that never meet.**  Caller and callee of a function with aggregate
  arguments are rewritten separately, possibly from different descriptions of the
  same record, and must agree on every register and every byte.
* **Evidence that outlives its build.**  A kept lane is selected again later; what
  was lost or rewritten since must be noticed, not repaired.
* **Concurrent readers of the artifact.**

`PROJECT.json` lists each such hazard at the line where it bites, with the
properties that would catch it, or the reason no property does.

### 1.4 What makes each part correct

| Part | Property | In words |
| --- | --- | --- |
| build lane | `SelectionFaithful` | a linked output is selected only with the captures of the very objects LLD put into it, in link order |
| | `MembersFaithful`, `MembersFresh` | the same for the members of a static library; and their inputs still are what the compilers consumed |
| | `LinkJournalComplete` | a supported link journal accounts for every object of the output it describes |
| | `JournalImmutable` | a finalized compile journal is never rewritten |
| | `DsosQualified` | a selected output needs only DSOs whose own link was recorded and supported |
| | `EventuallySelected` | a build nobody disturbs is selected in the end |
| kept lane | `RelinkFaithful` | the journal of one link of an output never vouches for the bytes of another |
| | `RetainedFaithful` | whatever was lost or rewritten since the build, a retained output is requalified only with the captures and snapshots of the very objects in it |
| | `RetainedAgrees` | in an untouched lane the build's own selection and the later one give the same answer |
| `sela-ld` | `LinkFaithful` | for every requested target the package holds exactly the units of its inputs, in the requested order |
| | `NeverNarrows` | a package never silently lacks a target, or an input's units for one |
| | `RefusalsJustified` | inputs that were admitted one by one never make an invalid plan |
| publication | `EndToEnd` | `selac` rebuilds exactly the selected native units of its target |
| | `LinkAccepts` | what `sela-build` hands to `sela-ld` always fits together |
| | `LinksFaithful` | every target gets the link settings its own lane observed |
| | `ImplementsExact` | publication, linking, installing and building on a device are steps of the abstract publication, or invisible |
| common graph | `PairingProjects` | a pairing, filtered to one side, is that side's function: blocks, cases and their orders |
| | `RoundTrip` | specializing a merged function gives back each target's native graph |
| | `ArmsAccepted` | functions that differ by private switch arms only, with every block reachable, are always merged |
| merged modules | `LowersBack` | what is published lowers to the module observed on each target, up to names of structs that keep them apart |
| | `CommonProves` | the merge is right by itself: on modules of one inventory it never needs the fallback |
| | `ScopedSuffices` | side by side, whatever was observed can be published; nothing is refused |
| aggregate calls | `ValuesArrive` | every byte of data a body reads is what the caller passed, and every byte of a result is what the caller finds |
| | `CallerKeepsArguments` | what a callee does to its parameters never shows in the caller |
| | `PiecesCover` | the pieces of a value hold all its data, and every access of them is one the code accepts |
| | `NeverTorn` | LLVM gives registers to all pieces of a value or to none, and counts as the classifier does |
| | `ClassifiersAgree` | the classifiers for ordered records and for semantic layouts give one signature |
| installation | `OutputWhole` | the artifact path is absent or names one whole package |
| | `ReadersUndisturbed` | readers get the package they opened; an install never makes a read fail |

## 2. Modules

| Module | Models |
| --- | --- |
| `NativeCapture` | one build lane: compiler runs, linker runs, the project's other tools, selection |
| `NativeCaptureInvariant` | the inductive invariant of the lane, in named layers |
| `NativeCaptureProofs` | its TLAPS proofs |
| `RetainedBuild` | a lane that is kept, changed and selected again (extends `NativeCapture`) |
| `RetainedBuildInvariant`, `RetainedBuildProofs` | its inductive invariant and TLAPS proofs |
| `Artifact` | a package without its encoding: validity, plans, recovery of one target |
| `SelaLink` | `sela-ld` (extends `Artifact`) |
| `SelaLinkInvariant`, `SelaLinkProofs` | its inductive invariant and TLAPS proofs |
| `Partitions` | `mergeProfilePartitions` as operators on sequences of definitions |
| `Publication` | `combineSelected`, publishing, `SelaLink`, installation and `selac`, composed |
| `ExactPublication` | what a publication is to those who do not see how it is made; `Publication` implements it |
| `PublicationInvariant`, `PairingProofs`, `PublicationProofs` | the inductive invariant of publication; the proofs about `combineSelected`, and all the others |
| `SequenceLemmas` | facts about sequences that the proofs about `sela-ld`, publication and the common graph share |
| `ConditionalCFG` | `pairConditionalCFG`: which blocks and switch cases of two functions are the same |
| `CommonGraph` | the common control-flow graph of one function of several targets, and its specialization (extends `ConditionalCFG`) |
| `CommonGraphInvariant`, `CommonGraphProofs` | the inductive invariants of the pairing and of the groups, and their TLAPS proofs |
| `SelaTypes` | types and attributes of the dialect that differ between targets: choices, specialization, verification |
| `OverlapStorage` | unions: the evidence for their members and the choice of their carrier (extends `SelaTypes`) |
| `CommonTypes` | the common merge without control flow: storage identities, types, attributes, instructions, modules (extends `SelaTypes`) |
| `ProfileMerge` | `mergeProfiles`: import, merge, proof, fallback (extends `CommonTypes` and `OverlapStorage`) |
| `StorageLayout` | native types, their layout, and the pieces of an aggregate: bounded loads and stores |
| `NativeABI` | the three classifiers of native signatures (extends `StorageLayout`) |
| `NativeCall` | one call, from classification to return (extends `NativeABI`) |
| `FileInstall` | `read` and `replaceFile`, system call by system call |
| `FileInstallProofs` | its TLAPS proofs |
| `MC*` | small instances for TLC |

`Publication` extends `SelaLink` and `Partitions`: it computes the command line
(`StartLink`) from the pairing and then takes `sela-ld`'s own steps.  `NativeCapture`
and `Publication` meet at `selectOutput`'s result: the former says what a
selected sequence of units is worth, the latter starts from any such sequences.
`RetainedBuild` takes the lane's own steps and adds what comes after them.
`Publication` takes `mergeProfiles` at its contract (the definitions of every
target, or no package); `ProfileMerge` and `CommonGraph` are about that contract:
the former for types, storage, attributes and straight-line code, the latter for
control flow.  `Publication`'s `Install` is one step there and is refined to system calls in
`FileInstall`.

### 2.1 NativeCapture

Every process is a small state machine (`compiler[c].pc`, `linker[l].pc`); every
step is what the process does between two points where other processes can see
the difference.  File contents are abstracted to what digests tell apart: which
compiler run produced the bytes, which input content that run consumed, and
whether another tool edited them.

| Code | Action |
| --- | --- |
| `CaptureConsumer` constructor (`createUniqueFile`) | `Reserve` |
| preprocessor reads inputs | `Preprocess` |
| `CaptureConsumer::HandleTranslationUnit` | `WriteJournal` |
| `Snapshot::run` | `Snapshot` |
| code generation with `-fno-temp-file` | `OpenObject`, `EmitObject` |
| `CaptureFinishConsumer` | `Finish` (guard `Finishable`) |
| `nativeLinkMain`, stock LLD | `StartLink`, `LldRead`, `LldWrite` |
| `recordNativeLink` | `Observe`, `RecordUnit`, `SaveObject`, `RecordLink` |
| `consumedObject` | `ConsumedObject`, `UnitOf` |
| `selectOutput`, `selectArchive` | `SelectOutput` (`Qualified`), `SelectArchive` |
| failure or death of a job | `CompileFails`, `LinkFails` |
| the project's other tools | `Regenerate`, `EditObject`, `CopyObject`, `ArchiveObject`, `DisturbCapture` |

Assumptions about the environment, each a guard of one of these actions:

* two links of the same output do not run at the same time (`StartLink`); two
  *compilers* writing the same object may;
* `objcopy`/`strip` touch an object only after its compiler ended (`EditObject`);
* `cp`/`mv` do not put old bytes onto a compile's output path, or onto an input
  of a link that is running (`CopyObject`).  This is needed: if the bytes LLD
  read were edited, and the unedited original were put back before the recorder
  reads the path, the recorder would see a matching marker and digest;
* only captures of runs that ended are disturbed (`DisturbCapture`);
* SHA-256 has no collisions (`Digest` is injective).

Left out: link-option classification is the constant set `Unqualified`; private
DSOs are checked in one step at the end of recording rather than each at its place
in the trace (the same conjunction unless a DSO is linked again meanwhile, which a
build that depends on it does not do); link probes with a non-regular output; the bytes of
journals while they are being written.

### 2.2 RetainedBuild

| Code | Action |
| --- | --- |
| a build, and its own selection | `Build` (the lane's steps), `Keep` |
| what may happen to the files afterwards | `LoseSnapshot`, `LoseCapture`, `RewriteInput`, `EditSelected`, `RewriteRecord` |
| `selectRetainedBuild`, `selectOutput` with `retained` | `SelectRetainedOutput` (`RetainedQualified`, `RetainedUnit`) |
| `selectArchive` with `retained` | `SelectRetainedArchive` |
| `consumedObject` with `retained` | `ConsumedRetained` |

`Keep` may come while a link is in the middle of writing a snapshot: its process
died with the build.  Such bytes stay in `saving` for ever and are no evidence
(`saved`), so requalification refuses an output that needs them.
`RewriteRecord` is the link journal of a recorder the selection does not trust: it
may name any capture with any saved object, in any order.  The ordinary selection
compares a journal with the digests of the output and of the files it names, and
believes the rest, since its own recorder wrote it; the retained one compares every unit with the output's witness and the immutable
compile journal, and `RetainedFaithful` is why it has to.

The two selections differ in one respect.  The retained one looks at the compilers'
inputs again (`consumedObject` does, for objects as for archive members); the
build's own selection of a linked output did so at link time only.  A header
regenerated after the link is accepted by the one and refused by the other.
`RetainedAgrees` therefore demands acceptance only where the inputs still are what
the compilers read.  Left out: several lanes at once (`selectRetainedBuild` takes one
lane for each target and treats them alike), and paths that leave the lane.

### 2.3 Artifact and SelaLink

A package is a record of kind, targets, fragments (`modules`, each with the
targets it is available to), a plan for each target and link settings for each
target.  `ValidPackage` is `validatePackage` with `readCompilationPlan`.
`SelaLink` has one step for the checks before any input is read
(`CheckArguments`), one per input (`AdmitInput`), and one that orders and writes
(`WritePackage`).  Refusals are named after the code's checks, in the order the
code makes them.  Indices count from 1 here and from 0 in the code.  Options,
response files, byte limits and alias checks are left out.

`LinkInit` is any command line that option parsing lets through (`CommandLine`): a
kind, at least one target, any inputs that decode as packages, valid or not, any
scopes, names and orders.  The proofs are about `LinkSpec`, which starts there; the
run takes `BoundedSpec`, the same from a finite choice of such command lines.

The properties compare with `Joined`/`Expected`, a direct definition of "the
units of the inputs, in command-line order, then permuted" that knows nothing of
fragment indices, renumbering or narrowing.

### 2.4 Partitions, Publication and ExactPublication

`Partitions` defines, for native units with definitions in physical order, the
fragments by ownership (`FragmentOwners`), each unit's fragments in its own order
(`UnitFragments`), the partition proof (`SplitProved`), and the whole-unit
fallback (`ScopedPartition`).  What the LLVM linker and verifier decide about a
split besides (types, globals, inline assembly) is a nondeterministic fallback:
`MergeProfilePartitions` returns the set of possible outcomes.

| Code | Action |
| --- | --- |
| `combineSelected` | `CombineSelected` (`PairedBuild`, `GroupedBuild`, `ScopedBuild`) |
| `SelaAction::emit`, `mode=profiles` | `PublishUnit`, `PublishFails` |
| `build()` from the objects to the link | `StartLink` (`TargetOrder`) |
| `sela-ld` | `LinkStep` (`CheckArguments`, `AdmitInput`, `WritePackage`) |
| read back, validate, `replaceFile` | `Install` |
| `selac` for one target | `Selac` (`Recovered`, `LowerUnit`) |

`PublicationInit` starts from whatever `selectOutput` and `selectArchive` can return
(`Selection`): for every target a sequence of units, empty only for a static library,
with member names for one and only for one.  The nested loops of `combineSelected` and
of the fallback are recursive functions (`PlaceUnits`, `PlaceCaptures`), one value for
each unit placed; `LinkArguments` is the command line handed to `sela-ld`.

`ExactPublication` has three variables: what the native builds selected, the artifact
(the empty set, or the set of one package: for each target its units and settings), and
what each device built.  It has two
actions, `Publish` and `BuildOn(t)`.  `Publication` maps to it by `Denoted`: an
installed package denotes, for each target, the captures its plan recovers and the
settings it holds, read out of the package itself and not out of how it was made.
Everything before `Install` is a stutter, `Install` is `Publish`, `Selac` is
`BuildOn`.  So a package that lacked a unit, held another one's, or changed after
it was installed would take a step the abstract specification does not have.

The strict importer (`mergeProfiles`) and the join of fragments
(`lowerCompilationUnit`) are taken at their contract: importing either preserves
each target's definitions and their order, or fails.  Left out: the refusal of lanes
whose outputs differ in kind and of two lanes with one label, both before anything is
combined, and a `replaceFile` that fails, which leaves the publication where it was
(`FileInstall` has its steps).

### 2.5 ConditionalCFG and CommonGraph

A function is the sequence of its blocks in physical order; a block is its
terminator, its successors, the labels of a switch, and whether it has PHIs.
`ConditionalCFG` is the worklist of `Pairing::run`, one pair of shared blocks
(`MatchShared`) or one block of a private arm (`WalkArm`) a step.  `CommonGraph`
runs it once for each further target and does what `Merger` does with the result.
`CommonInit` starts it with any functions that are `NativeGraph`s, which is what
`Merger::graph` builds and `verifyFunction` accepts:

| Code | Definition |
| --- | --- |
| `pair`, `matchShared`, `matchSwitch` | `Pair`, `MatchShared` (`SharedEdges`, `NewArms`) |
| `qualifyArm` | `WalkArm` (`OwnBlock`) |
| `mergeOrder` | `MergeTurn`, `MergeOrder` |
| the end of `run` | `SharedMatched`, `FinishPairing` |
| `Merger::correspondence` | `NextPeer`, `GroupPeer` (`Mated`, `ArmMembers`, `ArmKey`, `PlaceArms`), `OrderGroups` (`CommonOrder`) |
| `Merger::function`, `operation`, `switchOperation` | `Emit` (`Emittable`, `EmittedBlock`, `CaseDomain`) |
| `specializeConditionalCFG` | `Specializable`, `Specialize` (`KeptCases`, `KeptEdges`) |

`RoundTrip` compares `Specialize(merged, t)` with the native function of `t`, block
for block: every common block remembers which native block it stands for.
`ArmsAccepted` is its counterpart, so that `RoundTrip` does not hold by refusing:
`PrivateArms` says directly which blocks are private arms, and `Less` what is left
without them.  Both functions must reach all of their blocks: where a shared block
hangs on a private arm alone, the other function has it unreachable, and the code
refuses.  The four-block functions of `Nested` have their arms and shared blocks in any
order, with a second switch or without.
A refusal is harmless to exactness, since the producer then keeps the targets
apart.  Left out: instructions, SSA values and types (the graph proof of the code
ignores them too and treats them separately), the size limits of 65536 blocks and
cases and 4096 blocks in an arm, block addresses.  The check that every block of a
peer has a group (`GroupPeer`) never fails in the runs: the pairing already refused.

### 2.6 SelaTypes, OverlapStorage, CommonTypes and ProfileMerge

`SelaTypes` is the vocabulary: a type or attribute is a record whose field `k` says
what it is, a choice holds one value for each of several sets of targets, and a
value that may be refused is a set that is empty if it is.  Storage identities are
numbers; `Anonymous` is the identity of literal structs.

| Code | Definition |
| --- | --- |
| `targetChoice`, `selectAttribute`, `specializeType`, `specializeAttribute` | `TargetChoice`, `SelectAttribute`, `SpecializeType`, `SpecializeAttribute` |
| `verifyTargetDomains` | `CheckAttribute`, `CheckType`, `VerifyDomains` |
| `selectOverlapCarrier`, `discoverNativeOverlaps` | `SelectCarrier`, `Discover` (`Proved`) |
| `Merger::storageIdentity` | `StorageIdentity` (`Collapses`) |
| `Merger::type`, `attribute`, `attributes` | `MergeType`, `MergeAttribute`, `MergeAttributes` |
| `Merger::operation`, and `function`'s loop over a block | `MergeInstruction`, `MergeCode` (`CastTuple`) |
| `mergeCommonModules`, `factorScopedModules` | `MergeModules`, `FactorScoped` (`ScopedAt`) |
| `importModule`, `LLVMImporter::type` | `Import` (`Tags`) |
| `specializeDomains`, the lowering of storage and casts | `SpecializeModule`, `LowerStorage`, `LowerCode` |
| `mergeProfiles` | `Observe`, `Merge`, `Prove` |

The order of the code matters and is kept: a target's modules are observed one by
one, each with its unions recovered or not; the merge threads the storage
correspondence through all definitions, so that a conflict may be met only at the
last of them; the proof lowers the merged module for every target and compares it
with the capture, whose structs it renames by the correspondence; and a failed
proof or merge falls back to the definitions side by side, which have to pass the
very same proof.

The fallback after a *failed proof* is really taken.  `attribute` keeps an
attribute as observed where the targets' shapes differ, local storage identities
included; the shared identities are numbered anew, so the local name may be the
shared one of another struct.  `CommonProves` excludes just these modules
(`Regular`), and says that everywhere else the merge needs no safety net.

Left out: floats, vectors, nesting limits, bit-fields and written alignments in
unions, the reconstruction of aggregate arguments and variadic calls before the
import, and the meaning of instructions: they are compared by name, attributes,
operands and result types, as the code does.

### 2.7 StorageLayout, NativeABI and NativeCall

Types have the sizes and alignments of LLVM's `DataLayout` on the four registered
targets.  `NativeABI` has the code's three independent classifiers:
`ClassifyOrdered` (`NativeAggregateABI.cpp`), `ClassifyLayout`
(`NativeAggregateLayoutABI.cpp`), `ClassifyARM` (`NativeARMABI.cpp`), and the loop over
a signature that hands out registers (`Signature`, `Consume`).  The two x86
classifiers find the pieces, choose between registers, the stack and memory, widen the
first of two pieces and expand a record on i686 each in code of its own, and each has
definitions of its own here: `OrderedValue`, `Widen`, `OrderedI686` on one side,
`LayoutValue`, `Memory`, `LowType`, `LayoutI686` on the other.  `ClassifiersAgree`
compares the outcomes, so it breaks when either side drifts (its second mutant changes
`Memory` alone).  Only the loop over the parameters, written twice in the code, is one
operator here.

| Code | Action |
| --- | --- |
| `classifyNativeABI`, `classifyNativeLayoutABI` | `Classify` |
| `materializeNativeAggregateDefinition`, `materializeNativeAggregateCall` | `Materialize` (checks), `Enter`, `Return` |
| `loadNativeABIPieces`, `storeNativeABIPieces` | `LoadPieces`, `StorePieces` (`ValidAccess`) |
| the callee's body | `ReadArguments`, `Assign`, `FillResult`, in the orders a body may have |

Memory is by byte, and every byte carries what it is a byte of, so that a swapped,
doubled or lost piece is told apart from the right one.  The caller may assign the
result to a variable that is an argument too.  `Backend` is external: it is LLVM's
own assignment of registers to native parameters, which knows nothing of
aggregates.  Records are called; unions, packed records and bit-fields are
classified as semantic layouts (`PiecesCover`), because the lowering classifies
ordered records and reports the rest to the importer.  A variadic signature, and a
result larger than its storage that has more than one piece, are refused as the code
does; no admitted value was refused for its pieces.

### 2.8 FileInstall

An inode holds a sequence of chunks; publishers and consumers run `read` as
open, `fstat`, bounded reads, a probe for more bytes, `fstat` again, and
publishers then run `replaceFile` as inspect, `mkstemp`, copy, `chmod`+rename, with
the removal of the temporary on error.  Every process may crash between any two
steps.  The loss of power is not modelled (the code does not `fsync`, and makes no
such promise), nor an artifact path that is something other than a regular file,
nor a third program that writes the artifact in place.

## 3. Runs

| Run | Instance | Distinct states | Shows |
| --- | --- | --- | --- |
| `NativeCaptureRebuild` | two compiler runs writing one object, one link | 250,142 | `TypeOK`, `SelectionFaithful`, `LinkJournalComplete`, `JournalImmutable` when recipes race |
| `RetainedBuild` | two objects, one output linked twice, one of the links unsupported; the lane then kept, and one change to its files | 2,312,978 | `RelinkFaithful`, `RetainedFaithful`, `RetainedAgrees` |
| `NativeCaptureDso` | a shared library and an executable that needs it | 232,853 | `DsosQualified` |
| `NativeCaptureStatic` | two runs, two object paths, an archive of two members, no link | 432,078 | `MembersFaithful`, `MembersFresh` |
| `NativeCaptureQuiet` | the DSO lane, undisturbed and fair | 518 | `EventuallySelected` |
| `SelaLink` | up to two of seven stock objects (shared, one-target, regrouped, with libraries, of the wrong kind, with a broken plan, with unverifiable IR), any scopes, records and names; and sound objects with any argument of `--sela-unit-order` up to length 3, right or wrong, for either target | 982,484 | `NeverNarrows`, `LinkFaithful`, `RefusalsJustified` |
| `PublicationTwo` | two targets, up to three units each of four roles, executable or static; and every way to split and order three external definitions, with local ones between, over up to three units | 472,623 | `EndToEnd`, `LinkAccepts`, `ImplementsExact` |
| `PublicationThree` | three targets, up to two units each, or one with any of three link settings per target, at tight limits on fragments and files | 398,489 | `EndToEnd`, `LinksFaithful` |
| `CommonGraph` | two targets, each with any of 261 three-block functions, or of 156 two- and four-block ones with switch arms, or of 52 with PHIs and selector widths of 32, 64 and 65 bits; a four-block function, with a second switch or not, and the same one without some of its private arms (3,924 pairs); three targets, a first one without arms and two others with any | 1,062,041 | `PairingProjects`, `RoundTrip`, `ArmsAccepted` |
| `ProfileMerge` | x86-64, i686 and AArch64; two globals with any of 22 storages and initializers (two and three targets), a function with any of 11 bodies (two and three targets), 18 inventories of definitions and flags (two targets) | 47,552 | `LowersBack`, `CommonProves`, `ScopedSuffices` |
| `NativeCall` | all records of up to three scalars of seven kinds, nested records, arrays of up to 17, on four targets, passed and returned; x86_64 with three to six integers and up to eight doubles before them; unions of 13 alternatives, packed records and bit-fields | 99,222 | `ValuesArrive`, `CallerKeepsArguments`, `PiecesCover`, `NeverTorn`, `ClassifiersAgree` |
| `FileInstall` | two publishers, one consumer, packages of one and two chunks, a previous artifact or none | 16,316 | `OutputWhole`, `ReadersUndisturbed` |

Every run finishes in a minute or two.  For every property of every run,
`PROJECT.json` names a mutant: a plausible bug in one mapped definition that
makes the property fail under the very same configuration.

**Why the bounds are enough.**

* Lane: an interference needs two compiler runs (one that leaves old
  evidence, one that overwrites it), one object they share or two they do not,
  and one or two links.  Two input contents are enough to tell a fresh input
  from a stale one; where an instance is about links only, one content is used.
  The proofs of section 5 remove these bounds for all properties but
  `EventuallySelected`; that of `DsosQualified` is for lanes that link no output twice.
* Kept lanes, `sela-ld` and publication: section 5 proves every property of these runs
  for any number of runs, inputs, targets, units, definitions and fragments.  The runs
  remain to show that the cases happen, and that the properties can fail.
* Permutations: three units are needed for a permutation that differs from its
  inverse (`PublicationTwo` and `SelaLink` reach it); two inputs are
  needed for renumbering; three targets for pairing through a representative that
  does not match everyone (`PublicationThree`).
* Partitions: three definitions over two units are needed for two fragments to be
  interleaved in one unit.
* Graphs: a chain of two blocks, two cases in either order and a default before or
  after the arms fit in four blocks; three targets are needed for two of them to
  share an arm the first one lacks.  With two targets the only refusal after
  pairing is a PHI on one side only; with three, contradicting orders and chains
  of different length are met too.
* Kept lanes: two links of one output are the least for one journal to meet the
  other's bytes, two objects for an order.  One change to the files (`MaxTouches`) is
  enough to lose each piece of evidence; `RewriteRecord` may change every unit at once.
  Names are interchangeable (`NameSymmetry`), and `ArchivedLast` leaves out archives
  made while compilers or links still run (`NativeCaptureStatic` has them).
* Modules: two definitions are needed for one identity to be found in two places,
  three targets for a correspondence that conflicts through a third.  Both
  outcomes of the first proof, the refused merge, the recovered and the dropped
  union all occur.
* Calls: two eightbytes exhaust x86_64's classification, and the arguments in front
  leave zero to three integer and zero to two SSE registers; five members are one
  more than a homogeneous aggregate may have; 17 words are more than AAPCS32 splits.
* Limits: `MaxModules` and `MaxFiles` are 510 and 512 in the code; the runs use
  values small enough to be reached (`PublicationThree`, `SelaLink`) or too
  large to matter (the others).
* `MaxMembers` bounds the archive; two members are needed for order and repetition.

**Deadlock** is checked in every run.  Where a system is really over, an explicit
stuttering action says so: `Published`, `Exited`, `Over`, `RetainedDone`, `CallOver`, the
last disjunct of `MCProfileMerge`'s `MCNext`.

## 4. Fairness

Only `QuietSpec` states fairness.  It is about a build that nobody disturbs: no
job fails, no other tool writes, links start when their inputs are ready (the
dependency order make and ninja follow), and selection runs when all jobs are
done.  Each compiler run and each link gets weak fairness: the build tool keeps
starting runnable jobs, and the kernel keeps running them.  `captureBuild` itself
waits for the build tool to return and then selects, which is the fairness of
`QuietSelect`.  Under `Spec`, where jobs may fail and files may be rewritten,
nothing has to be selected and no liveness is claimed.

## 5. Proofs

All theorems are proved by TLAPS for every value of the constants that satisfies
the named assumptions, which TLC evaluates on each run:

* `ConstantsAssumption`, `NoFileAssumption` (lane): the build graph is well formed, and
  the special values are no file contents;
* `MaxTouchesAssumption`, `AnswerAssumption` (kept lane): the bound is a number, and an
  answer that accepts is told from no answer;
* `LimitsAssumption`, `MemberAssumption` (packages): the limits are numbers, and a unit
  outside a library has no member's name;
* `TargetsAssumption` (publication): a sequence of targets without repetition, not empty;
* `InstallAssumption` (installation).

Two theorems have a hypothesis besides.  `SelectedDsosAreQualified` needs
`LinkedOnce`: no output is linked by two links.  `PublicationLinkAccepts` needs that
fragments inspect (`InspectFails = {}`), since one that does not is of course refused.
The other theorems hold whatever `InspectFails` is.

**The lane** (`NativeCaptureProofs`).  `Typing` proves `TypeOK`.  `EvidenceStaysSound`
proves `[]EvidenceSound`, and the others follow from it: `SelectionIsFaithful`,
`MembersAreFaithful`, `MembersAreFresh`, `LinkJournalsComplete`,
`JournalsAreImmutable`.

`SelectionFaithful` is far from inductive: it speaks of the last step only, while
the reason it holds is spread over the history of the lane.  The invariant says
what that history leaves behind, layer by layer:

1. `NamesOwned`: a compiler run that has started owns its name alone;
2. `ObjectsProduced`: bytes at an object path, in the archive, or already read by
   LLD were emitted by some run, and edited at most after that run ended;
3. `JournalsSound`: a journal binds the digests of the module its owner compiled
   and, once final, of the *unedited* object it emitted;
4. `LinkersSound`: LLD read its inputs in order; nobody else links the same output;
   what is at an input's path while the link runs is the bytes read, the same run's
   bytes edited further, or another run's; and while nothing unsupported was met,
   there is a sound unit for each part looked at;
5. `LinkJournalsSound`: a supported journal has a sound unit for every part of the
   output whose digest it carries;
6. `SelectionLast`: nothing runs any more when something is selected.

The heart is the lemma `SameBytes`: the recorder reads an object path *after* LLD
did, so the bytes may be others.  If they carry the marker the output's witness
expects, and `consumedObject` accepts them, they are the bytes LLD linked.  For
they carry the same marker, so the same run emitted both (1, 2); the digest in
the journal is that of the unedited object (3), so the accepted bytes are
unedited; and bytes are only ever edited further (4), so those LLD read were
unedited too.  This is where the assumption on `cp`/`mv` enters.

**Shared libraries** (`NativeCaptureProofs`, its last part).  `SelectedDsosAreQualified` proves
`DsosQualified` from three facts about records: the link that recorded an output has
ended, so that neither the output nor its journal is written again (`RecordsFinal`);
the DSOs a supported record needs have supported records too, of the bytes that are
there (`NeededPrivate`); and what is selected has one (`SelectionRecorded`).  Without
`LinkedOnce` a library may be replaced after its user was recorded, since the DSOs
are looked at when the user is linked.

**The kept lane** (`RetainedBuildProofs`).  `RetainedStaysSound` proves
`[]RetainedSound`, and `RetainedIsFaithful`, `RelinkIsFaithful` and
`RetainedAnswersAgree` follow.  The invariant is in two halves.  While nobody touched
the files (`touched = 0`) everything the lane proved still holds, and a second look would
give the build's own answer (`LaneSound`, `AnswersStand`).  Afterwards only little
survives (`KeptSound`): the compile journals, and what the digest of a supported link
journal says of the objects that were linked (`PartsGenerated`).  That little is
enough.  A digest that matches the output fixes its parts, each of them unedited bytes
of a finished run; the witness names those runs; and a journal of such a run fixes
snapshot and capture, whoever wrote the units of the link journal
(`LooseRecords`).  That both selections agree needs more: no run is bound halfway
(`JournalsBound`), and a supported witness names no journal twice
(`WitnessesUnambiguous`).

**The publication linker** (`SelaLinkProofs`).  `LinkStaysSound` proves `[]LinkSound`,
and `LinkNeverNarrows`, `LinkIsFaithful` and `LinkRefusalsAreJustified` follow.  The
invariant is over the inputs admitted so far: they serve the targets asked of them
(`Served`); fragments and units are renumbered to each other (`Drafted`); each target's
plan is a partition of the fragments active for it (`Partitioned`); and what the draft
recovers is the join of those inputs (`Joining`, with `JoinedTo` the reference `Joined`
for a prefix of the inputs).  `AdmitIs` says what one input adds, `AdmitDrafts`,
`AdmitPartitions` and `AdmitJoins` that it preserves each part; `Ordering` and
`PackageFaithful` that a permutation applied at the end moves units and nothing else.
`RefusalsJustified` is the harder direction: `PackageValid` shows that the draft passes
the final validation whatever was admitted.

**Publication** (`PairingProofs`, `PublicationProofs`).  `PublicationStaysSound` proves
`[]PublicationSound`; `PublicationEndToEnd`, `PublicationLinksFaithful`,
`PublicationLinkAccepts` and `PublicationRefines` follow.  The invariant describes what
each stage leaves behind, relative to the selections:

1. `UnitsCaptured`, `UnitsPaired`: the captured units of a target, read through the
   order that will be passed to `sela-ld`, are its native units.  This is where a
   permutation and its inverse, or a rank among a target's units and one among all of
   them, could be mistaken; `PairedSound`, `GroupedSound` and `ScopedSound` establish it
   for the three results of `combineSelected`, the last by induction over both loops
   (`PlaceUnitsKeep`, `ScopedBuildPlaces`), and `OrderRestores` is what makes the rank right;
2. `ObjectsPublished`: a published object is valid and lowers to the planned unit of every
   target it serves.  `ProvedPartitionSound` shows it of a proved partition
   (each fragment is in one unit, and the definitions of a unit's fragments,
   reordered, are the unit's), `ScopedPartitionSound` of the fallback, and
   `PublishedFaithful` puts the outcomes of the merge together;
3. `Linking`: `sela-ld` runs on `LinkArguments`, which are a command line it accepts
   (`ArgumentsFit`), so that `LinkSound` holds of it and its proofs are used as they are;
4. `LinkAnswers`: the refusals that are left.

What connects 3 with 1 and 2 is an alignment: input by input, the join of the objects is
the planned units of a target (`JoinedIsPlanned`), hence the expected ones are the
native ones (`ExpectedIsNative`).  For the refinement, `DenotedIs` shows that
what an installed package denotes is what the lanes selected, so that `Install` is
`Publish`, `Selac` is `BuildOn`, and every other step leaves the abstract variables alone.

**The common graph** (`CommonGraphProofs`).  `PairingAlwaysProjects` proves
`PairingProjects` of `CommonSpec`: for any number of targets and functions of any size
whose graphs are `NativeGraph`s.  TLC's stock of functions satisfies `CommonInit`, so that the
run checks the same specification.  `PairingProjects` speaks of the finished pairing; what
is known on the way is `PairingSound` (`PairingStaysSound`):

1. `Walking`: no block is in two pairs, a recorded switch has two switches whose labels
   have a common order and whose shared edges lead to pairs, an arm starts at a case;
2. `Sharing` (`MatchShared`): the pairs looked at so far have terminators of one kind, and
   their switches are recorded;
3. `Branching` (`WalkArm`): blocks of one side only are left unconditionally, so that no
   switch is missing, and the blocks an arm has come through are in no pair yet.

At the end, `MergeKeeps` shows of `mergeOrder` that whatever it returns, filtered to one
side, is that side's order.  The argument is an invariant of its loop (`MergedTo`): the result so
far, filtered, is the part of each side that has been passed.  Applied to the
labels it gives the case order, applied to the numbers of the pairs it gives the block
order (`SideProjects`).

`RoundTripHolds` proves `RoundTrip` of the same specification.  The invariant besides
`PairingSound` is `GroupsSound` (`GroupsStaySound`):

1. `Recorded`, `ArmsApart`: a switch of the peer is recorded once, with an arm for each
   case it has alone; the blocks of a finished arm are in no other finished arm, and each
   is in a pair of its own;
2. `Paired`: at the end every block of the first target has its pair, and a label only
   the peer has is once in the merged order of its switch.  1 and 2 make
   `ArmMembers` blocks the peer has alone, each once (`ArmMembersAre`, `MembersOwn`);
3. `Grouping`: a finished target has each of its blocks in exactly one group and its
   entry in the first, a later one is in none.  `PlaceArmsKeep` shows it of the loop that
   puts the arm blocks in groups, with `ArmsGrouped`: one group for each key, in which the
   first target has no block, so that an arm block never meets the mate of another one;
4. `InOrder`: in the final order the blocks of each target are in that target's order.
   `CommonOrderKeeps` shows it of the topological sort: the part placed so far, filtered
   to one of the lists, is a beginning of that list, and when nothing is left over it is
   the list.  `CaseListIs` uses it again for the cases of a switch.

From 3 and 4 follows what emission does: the domain of a common block is the set of the
targets that have a block in its group, so the blocks a target keeps are its own in their
order (`MineIs`); the cases it keeps are its own in their order (`KeptCasesAre`,
`KeptLabelsAre`); and each kept edge leads to the group of the native successor
(`LeadsToOwn`).  `EmittedSpecializable` and `EmittedSpecializes` are the two halves of
`RoundTrip`.  Nothing is assumed of the functions but `NativeGraph`: unreachable blocks,
irreducible loops and several edges between two blocks are included.

**Sequences** (`SequenceLemmas`).  These proofs need induction: on the number of
inputs, on the iterations of a loop, on the length of what `FlattenSeq` joins.  The
library's induction theorems are over operators, but that `<` is
well founded on the numbers is a first-order fact.  From it follow `Least` (a set of
numbers has a least element) and `Numbers` (a set that holds 0 and successors holds all
numbers); an induction is then about the set of the numbers for which a statement
holds.  That a recursive function exists is shown in the same way, by the approximations of
it that are defined on the first numbers (`FlattenFunction`, `PlaceUnitsKeep`, `Iterates`).

**Installation** (`FileInstallProofs`).  `InstallStaysSound` proves `TypeOK` and
`InstallSound`: an inode under construction holds a prefix of its package and is
named by nobody but its publisher; once renamed it is whole and never written
again; so a reader's buffer always is a prefix of what it will read.
`InstallIsAtomic` (`OutputWhole`) and `ReadersStayUndisturbed`
(`ReadersUndisturbed`) follow, for any number of processes and any sizes.

**Only model-checked**: `EventuallySelected` (liveness is outside the prover's reach);
`ArmsAccepted` of the common graph; and everything
about `ProfileMerge` and `NativeCall`.  The modules about types (`SelaTypes`,
`CommonTypes`, `ProfileMerge`, `StorageLayout`, `NativeABI`) define operators by recursion
over types, which is out of the prover's reach: what they compute stays with TLC.
`ArmsAccepted` is about what is *not* refused: a proof would have to follow the
pairing of a function with a smaller copy of itself through every step, and nothing
unsafe depends on it.

## 6. What is not modelled, and why

* *The translation of single LLVM instructions* between LLVM IR and the Sela dialect
  (`Producer.cpp`, `NativeLowering.cpp`, `InstructionContracts.cpp`, `Intrinsics.cpp`): no
  state or concurrency of their own; their correctness is about LLVM semantics.  What
  guards it, the comparison of every lowered module with its capture, is modelled.
* *Reconstruction of aggregate arguments* (`AggregateNormalize.cpp`): it recognizes
  instruction patterns and may fail; the capture is then imported as it is.
* *Encodings* (tar, JSON, bitcode) and byte limits.
* *Command lines of the pinned tools, SDK paths, process plumbing* (`run`, `Scratch`).
* *Provisioning and packaging scripts*: no run-time state.
* *Byte-swap recognition and most variadic recognition*: matching of instruction
  patterns.
* *Source mode of the producer plugin*: it runs Clang once for each target on one
  source file and then takes the same path as `mode=profiles`.
* *The symbol checks of `lowerCompilationUnit`* and *the parsing of the target
  selection* are small sequential checks; the models start from their results.

## 7. Plan

In order of importance; all of it is done.

1. `NativeCapture`: the lane, with proofs.
2. `Artifact`, `SelaLink`: the package and its linker.
3. `Partitions`, `Publication`: from selections to the device.
4. `FileInstall`: installation and reading, with proofs.
5. `ConditionalCFG`, `CommonGraph`: the control flow of several targets in one
   graph, and back.
6. `RetainedBuild`: selection from the evidence of an earlier build.
7. `SelaTypes`, `OverlapStorage`, `CommonTypes`, `ProfileMerge`: the types, attributes
   and values of the common merge, with the proof and the fallback around it.
8. `StorageLayout`, `NativeABI`, `NativeCall`: calls with aggregates.
9. `ExactPublication`, implemented by `Publication`.
10. Proofs: `DsosQualified`; `RetainedFaithful`, `RelinkFaithful` and `RetainedAgrees`;
    `NeverNarrows`, `LinkFaithful` and `RefusalsJustified`; `EndToEnd`, `LinksFaithful`,
    `LinkAccepts` and the refinement of `ExactPublication`.
11. Proof: `PairingProjects`.
12. Proof: `RoundTrip` of the common graph.
