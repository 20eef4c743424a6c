# Verification of promptboot

promptboot is a UEFI application that boots from a USB stick or a virtual
machine, loads a quantised language model from the boot volume into memory,
verifies it, and holds a conversation with the user on the firmware's text
console. It runs without an operating system: the program calls the firmware
for memory, files, keys, timers, the screen and the other processors, and every
one of those calls may fail. A set of host tools and scripts downloads the
model, packs it, builds the boot image and writes it to a disk.

This directory holds TLA+ modules for the parts of the system with interesting
state, TLC configurations that check them on small instances, and TLAPS proofs
for every value of the constants. `PROJECT.json` lists the components, the runs,
the source lines each definition stands for, the mutants each property catches,
the findings, the hazards and the theorems.

    tlc -workers 2 -config MCWorkerJob.cfg MCWorkerJob     # a run
    tlapm WorkerProofs.tla                                 # the proofs; and ReplProofs,
                                                           # ConsoleProofs, TextProofs,
                                                           # SessionProofs, HostProofs,
                                                           # ContainerProofs, FatProofs

## 1. Inventory

### 1.1 The runtime (`src/src`, `src/crates/promptboot-core`)

| Component | State | Operations | Hard part |
|---|---|---|---|
| Worker job (`inference.rs`, `InferenceWorkerJob`) | worker count, backend, rejection, epoch, terminal, hit count, descriptor, completion barrier; the output rows | `run`, `publish`, `protocol_status` | lock-free protocol between one coordinator and n workers; the descriptor is reused for about 170 products per token |
| Multiprocessor adapter (`mp_inference.rs`) | `MpCall`, one `ApRecord` per slot, the adapter's worker count | `prepare`, `dispatch_token`, `ap_entry` | callbacks too many or too few, a second barrier, the firmware's timeout, CPU state to restore |
| Inference engine (`inference.rs`) | KV cache, state, position, reserve, retained prefix, selected token | `prefill`, `prefill_with_prefix`, `append_prefill`, `decode`, `decode_selected`, `reset`, `reset_to_prefix` | calls in any order, faults in the middle of an evaluation, limits off by one |
| Model REPL controller (`model_repl.rs`, core `lib.rs`, `repl_contract.rs`) | committed history, cached length, working tokens, the turn | `accepted_turn`, `generate`, `commit_eos`, `/new`, Ctrl-C | the KV cache is reused between turns; a turn may fail, be interrupted or overflow anywhere |
| Scrollback (`console_history.rs`) | a ring of lines, head, count, column, viewport | `write`, page up and down, viewport, reset | ring full, output while paged up |
| Console output (`main.rs`, `status_bar.rs`) | the program's idea of the firmware screen | output, redraw, status row | scrolls are predicted, the screen is never read back |
| Line editor (`editor.rs`) | buffer, prompt index, discard flag, pending terminator | `process_key` | CR/LF pairs, lines that are too long |
| Model session (`model_target.rs`, `model_contract.rs`) | opened protocols and handles, regions, read progress, cleanup mask | `run`, `execute`, `close_storage`, `cleanup` | any of some thirty firmware calls fails; everything must be given back once |
| Evidence records (`main.rs`) | display flag, `RECORD_FAILED` | `emit_record`, `emit_record_checked` | a lost record must not be followed by another |
| Timer, status row and input loop (`status_bar.rs`, `model_repl.rs`) | timer event, the console's cursor and attribute | `run_input_loop`, `wait_key_first`, `ReplTimer`, `render_status_row` | key and timer ready together; a call fails half-way and the rest must be put back |
| UTF-8 decoder (`repl_contract.rs`) | up to three carried bytes, whether a CR came last | `push`, `finish`, `render_console_text` | sequences and line ends split over tokens |
| Sampler (`inference.rs`) | random state, repetition bitmap | draw | floats |
| Arena (`arena.rs`) | next offset | allocate | overflow of size arithmetic |
| Tokenizer, model container, SHA-256, kernels | tables, buffers | pure | data-heavy |
| Boot and echo REPL (`main.rs`, `console_contract.rs`) | bound sinks | `efi_main` | failing sinks |

Interactions. `efi_main` chooses the mode and calls the model session. The
session loads and verifies the model, builds the engine and calls either one
prefill or the prompt loop. The prompt loop reads keys through the editor, whose
callbacks write to the console and start a turn of the controller; the
controller calls the engine one token at a time and looks at the keyboard
between tokens. The engine evaluates a token serially or through the adapter,
which runs the worker job on all application processors while the boot
processor waits. The only true concurrency is inside one dispatched token;
everything else is one thread that interleaves with a user, with devices and
with a firmware that may refuse.

### 1.2 Host tools and scripts

| Component | State | Operations | Hard part |
|---|---|---|---|
| Asset cache (`assets.rs`) | files under final names, staged downloads with guards | `fetch_all`, `verify_one`, `verify_all` | two fetches at once, with one process number; kills and power failures between verify, sync and rename |
| Packer and inspector (`pack.rs`, `inspect.rs`) | temporary file, packed model, report | `pack::run`, `write_atomic`, comparison of the model with its source | the layout is written and read by separate code |
| Model container (`model.rs`) | the mapped file | `open_authenticated` | every offset comes from the file |
| FAT image builder (`image.rs`) | layout, image, staging directory | `build_fat_image`, `inspect_image`, `with_staged_output` | files that change between layout and copy; what the inspector must refuse |
| Release builder (`release.rs`) | worktree, commit, staging, release directory | `release` with its verifications | edits, commits and a second release during minutes of building |
| USB writer (`write_usb.py`) | two views of a disk, the confirmed target | inspect, confirm, inspect again, `dd`, compare, eject | a path names whatever is plugged in there |
| GGUF reader, QEMU scripts | parsers; a test machine | | byte formats; host I/O |

The tools share files only through the names they publish. Their hard behaviours
are crashes between staging and publication, two processes on one path, and
things outside (the worktree, a disk) that change between a check and its use.

### 1.3 What makes each part correct

- Worker job: no product is used before all its rows were computed from its own
  activation; nobody writes what another processor still reads; status 0 means
  the whole token.
- Adapter: it returns to the engine only after every processor has left, or it
  halts; the boot processor never waits for ever.
- Engine: the retained prefix is what the cache holds; the budget of a reply
  fits behind the position; a faulted engine stays so until it is reset.
- Controller: the model attends to exactly the prompt of this turn; history
  gains a question with a whole reply or nothing; the next line is always read.
- Console: the screen shows the status row and the viewport of the history.
- Editor: one verdict per prompt, one line end per terminator.
- Session: the model is used only if it was read whole and verified; regions are
  disjoint; everything acquired is given back, or reported as not given back.
- Input loop: a pressed key is read although the timer may always be due; however
  the loop ends, the timer, the cursor and the attribute are put back.
- Text: the console gets the text of the reply's bytes, however tokens cut them.
- Asset cache, packer, image and release builder: what is found under a final name
  is whole and verified at every moment, and what is published is not replaced.
- Image and container: what the inspectors accept is what the builders write, and
  what the runtime opens is indexed inside its bounds.
- USB writer: only the disk that was shown and confirmed is erased.

## 2. Modules and how they correspond to the code

`TokenEngine` and `Chat` are abstract specifications; the others are translated
from the source. `PROJECT.json` "map" gives the lines of every definition.

    WorkerJob  <-  MpDispatch  ==implements==>  TokenEngine
    MpDispatch  <-  WorkerProofs
    InferenceEngine  <-  EngineClient
    InferenceEngine  <-  ModelRepl  ==implements==>  Chat
    ModelRepl, EngineClient  <-  ReplProofs
    Console, Editor  <-  LiveInput        Editor  <-  EditorKeys
    Console, TokenText  <-  MCConsole
    LoadSession, InputLoop  <-  MCLoadSession
    LoadSession, InputLoop  <-  SessionProofs        LiveInput  <-  ConsoleProofs
    TokenText  <-  TextProofs
    AssetCache, Publish, Release, FatImage, Container, UsbWriter  <-  MCHostTools
    AssetCache, UsbWriter, Release, Publish  <-  HostProofs
    Container  <-  ContainerProofs                 FatImage, ContainerProofs  <-  FatProofs
    (A <- B: B extends A; each MC... module extends the one it checks)

**WorkerJob** (`InferenceWorkerJob` in `inference.rs`). The variables are the
fields of the struct and, per slot, the locals of `run`. Every atomic access that
another slot can observe is an action (`CasWorkers`, `WriteDescriptor`,
`ReleaseEpoch`, `PollEpoch`, `PollTerminal`, `LoadGeneration`, `Arrive`,
`ResetArrivals`, `BumpGeneration`, ...). The code orders these accesses with
acquire and release; the model has them in program order. The kernels are
abstracted to tags: a computed row holds the number of the job and the number of
the activation it was computed from, so a row computed from the wrong activation
or left over from an older job is a different value. The rows of a slot are
`FirstRow .. EndRow - 1` with the code's truncating division.

**MpDispatch** (`mp_inference.rs`) puts the job into one firmware call. The boot
processor prepares the adapter once, then begins a serial or a parallel token,
waits in `startup_all_aps` and inspects `MpCall`, the records and the job before
it returns to the engine. Each callback takes a slot, sets its mask bit,
establishes its CPU state, meets the others at the entry barrier, checks their
records, enters the job, restores its state and leaves. What goes wrong is
chosen by `Faults`: the protocol is missing, an allocation fails, the start
fails, the timeout fires, the firmware starts too many or too few callbacks, a
processor is not ready, or its state is not restored. `NewJob` resets the job
and the call for the next token.

**InferenceEngine** is the token interface of the engine. A call is an operator
from the engine record to the set of its outcomes, with every check and early
return of the code. One position of the KV cache is the token evaluated there;
an evaluation that fails leaves `Torn` at its position. **EngineClient** calls
the interface in any order with any arguments.

**ModelRepl** is the controller. A step runs it from one point where the outside
world can intervene to the next: `Accept` (a line), `UsePrompt`, `ResetHistory`
or `RejectPrompt` (what `decide_history` says), `BeginGeneration`, then `Poll`,
`Infer`, `Output`, `NextToken` per token, `CommitReply`, `CloseTurn`,
`FinishTurn`, and `NewSession` for `/new`. Ctrl-C is possible at each poll, a
fault of the engine at each evaluation, and with `IoFaults` a failure of every
console, record, key and timer call (`ioFaults`, fixed for a session, so that one
run has sessions with and without failing devices). Text is reduced to what the control
depends on: whether a token completes its UTF-8 sequence, and whether it stops.

**Console** has the scrollback ring, the screen of the firmware (which wraps and
scrolls on its own) and the status row. `Write` is `console_output_utf16` as a
whole: leaving the paged view, storing the units, counting the scrolls ahead,
writing, and repainting the status row. **Editor** is `process_key`, an operator
that returns the editor and the calls on its `Output`; **EditorKeys** records
keys and calls, **LiveInput** plays the calls on the console.

**LoadSession** is `run`, `execute`, `Session::cleanup` and `close_storage`. The
firmware gives out handles and pages, possibly a page twice; reads return any
count up to one more than asked; the file has any of `FileSizes` and is genuine
or not. Every record is a step that may fail and sets the latch after which
`emit_record` writes nothing.

**InputLoop** is `run_input_loop` with `ReplTimer` and the repainting of the
status row, one action per call of the firmware, each of which may be refused.
`MCLoadSession` composes it with the session: the loop runs while the session is in
`repl` and only its end lets `ReplEnds` happen. What a key does to editor and
controller is in the other modules; here it works or fails.

**TokenText** is `Utf8Decoder` and `render_console_text` as `generate` uses them:
tokens of any bytes are fed until the reply ends, is stopped or is refused. `fed` and
`decoded` keep what went into the decoder and what came out. Code
points are computed from the bytes as in the code; the reference definition in
the properties goes the other way, from characters to their encodings. In
`MCConsole` a behaviour moves either the console or the text, since neither sees
the other's state.

**AssetCache** is `fetch_all` for any number of fetchers. `Reserve` creates the
guard of a staging name, then `Curl`, receiving, `verify_one`, the sync, the
rename and the sync of the parent are one action each, with the two clean-ups.
`Kill` leaves what a process has staged; `PowerLoss` also takes renames back
whose directory was not synced. **Publish** does the same for the packed model,
for reports and for image directories; a report is written through an open file,
so files are kept apart from their names. **Release** is the run of the release
builder against a worktree that is edited and committed meanwhile, with the
archive, manifest, image and checksums reduced to the version they are of.

**FatImage** computes the layout, both FATs, the directories and the clusters as
`build_fat_image` does, and `inspect_image` as the code compares them. Between
layout and copy a source file may be rewritten, and the finished image may be
damaged in one place. **Container** lays out the packed model, then one place is
changed, with the digests corrected or not, and the inspector and the runtime
decide. **UsbWriter** has the disks, what is plugged in at each path, and the
writer's steps; `Upset` pulls, plugs, exchanges, mounts or partitions a disk
between any two of them. `MCHostTools` composes the tools: each behaviour runs
one kind of tool, two processes of it where two can meet, because the tools have
no common files; the others keep their first state.

## 3. Runs

All bounds are constants of the cfg files.

| Run | Distinct question | Bounds |
|---|---|---|
| `worker_job` | Is each published product whole, is the descriptor never written while it is read, does a zero status mean a complete token, is the job frozen once the outcome is stored? | 3 slots that agree or disagree on worker count and backend, valid and invalid values, matrices of 1 and 5 rows (slots without rows, not divisible), one body job and the logits |
| `mp_faulty` | Safety of the adapter under every fault, and does the boot processor come back from every dispatch? | 2 workers of 3 processors, none to three of them started |
| `mp_refines` | Without faults: does anything halt the machine, does every dispatch end without the timeout, does the adapter implement `TokenEngine`? | 2 workers, two body jobs |
| `engine_client` | Prefix, budget and holes under arbitrary calls | context 5, prefix limit 2, prompts up to 4 tokens, reserves 0, 1, 2, 6 |
| `model_repl` | Cache, history and `Chat` under faults everywhere; does every turn end and the REPL go on while the devices work? | context 7, reserve 3, three user lines, one of them too long |
| `console` | Does the screen show what the program believes, and is the text that of the bytes? | 3 columns, 2 rows, ring of 4 lines; texts with a line end inside, cut behind its CR, and with its LF first; replies of 5 bytes in tokens of up to 2, from the edges of every byte range of UTF-8 |
| `live_input` | Terminators, verdicts, echo, and what the user sees of the line | every sequence of 7 keys with paging, capacity 2, last index 4, 4 columns |
| `live_wrapped` | (violation) the README's visible cursor (`CursorMarksInput`) | lines that wrap |
| `load_session` | Acquisition, reading, verification, serving, cleanup, status in all three modes; inside the prompt loop, keys, timer and status row | 2 regions, 4 pages, a model of 3 units read 2 at a time, files of 2, 3, 4; 2 keys, any number of ticks |
| `load_repl_release` | (violation) the cleanup mask after the prompt loop | as above, mode `model_repl` |
| `host_tools` | Caching, publication, release, both file formats, the USB writer | two processes per tool, one kill or power failure; one packer whose output has a directory, one with a bare file name; one edit of the worktree; 11 data clusters, files of 0 to 2 clusters; 3 tensors, 6 tokens, 3 merges, one changed place; 4 disks, 2 paths, 2 upsets |
| `release_edited` | (violation) a release rejects local changes | one process, one edit, no accident |

Why the bounds are enough. The worker protocol treats all slots except slot 0
alike and its barrier only counts, so three slots show a first, a middle and a
last arrival; two consecutive jobs show the reuse of descriptor and barrier; the
theorems of section 5 remove the bound. The context of 7 holds the template, a
question and a reply, and a second question that is appended and answered; a
longer first reply makes the second question overflow. The ring of four lines with two rows lets pages overlap, fills, and
wraps. Seven keys hold a full line, the character too many, a terminator pair and
the next prompt. Two regions, a read limit below the model's size and files
shorter, equal and longer reach every branch of the session. Two fetchers, packers
or releasers and one accident reach every pair of "left behind by the one, met by
the other". The proof modules of section 5 remove the bounds for what they prove of
their modules.
The clusters hold files without, with one and with two clusters, directories
between them, and free space behind; the model file needs a whole chain. Three
merges include one that builds on another's result. Five bytes hold the longest
sequence and a beginning behind it. No run uses `SYMMETRY`.

`CHECK_DEADLOCK FALSE` stands where the system may stop: a returned job, a halted
machine, a stopped REPL, an overflow of the prompt index, a finished session, a
tool that has ended, a reply that has ended.

### Fairness

- `MpDispatch!FairSpec`: every processor the firmware has started keeps
  executing while the boot processor waits (they spin or compute and are never
  preempted), and the boot processor continues when the firmware call returns.
  In `mp_refines` no timeout can fire, so the barriers alone end every dispatch.
  In `mp_faulty` it can, and weak fairness of `StartupFails` says that it does when a
  callback never returns: `dispatch_token` passes `DISPATCH_TIMEOUT_US`, without
  which the processors left in a barrier would hold the boot processor. No fairness is assumed for starting another token.
- `ReplSpec`: weak fairness of `TurnStep`, the single thread inside a turn.
  Nothing is assumed of the user: no line needs to be entered, and Ctrl-C never
  needs to be pressed.
- `MCSpec` of `MCLoadSession`: weak fairness of the steps of session and input
  loop: every firmware call returns, and the wait for an event returns once there
  is one (it is not forced to fail). Nothing is assumed of keys and timer, so
  `SessionEnds` is "done or serving prompts", and `KeysAreTaken` holds although the
  timer may be due whenever the loop waits. (`SessionSpec`, without the loop,
  is the same fairness of `Steps`.)

## 4. What the properties say

*Worker job.* `ProductComplete`: when `publish` returns to the forward pass,
every row of the product was computed for this job from this activation.
`TerminalFreezesJob`: after the outcome is stored nothing of the job changes, so
the boot processor reads a stable job. `CoordinatorExclusive`: slot 0 writes the
descriptor and the activation only while no other slot is inside a product.
`ZeroMeansComplete`: a slot returns 0 only after a complete token.

*Adapter.* `ReturnMeansComplete`: the engine continues only if exactly the
counted processors ran, all left, restored their state and finished the job.
`SlotsAgree`: the adapter never lets slots into the job that disagree on worker
count or backend, nor on a backend that one of them lacks. `DispatchSettles`:
every dispatch comes to an end, by the barriers alone without faults, and with
callbacks missing, in excess or not ready at the latest by the timeout. `NeverHalts`;
and `EngineSpec`: the adapter implements `TokenEngine`.

*Engine.* `PrefixBacked`: the retained prefix is what the cache holds in its
first positions. `BudgetFits`: position plus what is left of the reserve never
exceeds the context. `NoHoles`: every position below the current one was
written whole.

*Controller.* `AttendsToPrompt`: when a token is computed, everything in front
of it in the cache is this turn's prompt and reply. `CacheIsCommitted`: between
turns the cache is ready to be appended to, or counted as empty.
`ChecksNeverFire`: the defensive checks of controller and engine never fire. `KeepsRunning` and `TurnEnds`: only a failing device ends the REPL,
and every turn ends. `ChatSpec`: the controller implements `Chat`, in which history changes only by a whole answer, by
`/new`, or by forgetting it for a question that fits only without it.

*Console and editor.* `ScreenShowsHistory` relates the firmware's screen, which
wraps and scrolls by itself, to the ring; `OldLinesStay` says which lines output
may drop. `OneVerdictPerLine` compares the prompt index with a count over the
typed keys, and the verdicts with the prompts. `EchoIsBuffer` computes from the calls
on `Output` the text echoed and not erased since the prompt: it is, character for
character, the buffer and the line accepted. `RowShowsLine` goes on from there to the
screen: while the line is short, the cursor's row holds prompt and buffer and nothing
else, and the cursor stands behind them. `CursorMarksInput` is the part of it that the
repository promises for lines of any length; it is the finding of `live_wrapped`, the
only run in which a line reaches the edge. `TextIsFaithful`: what was decoded,
encoded again, is the bytes of the reply up to the last whole character; what the console got is that text
rendered in one piece, in which every LF follows a CR; and a reply is refused exactly
if no text begins with its bytes.

*Session and input loop.* `HeldIsNamed`: what the firmware has given out is what
the session names (nothing is leaked, nothing given back twice), and the mask in
the final report is true for everything but the prompt region of `model_repl`
(`OkMeansReleased`, without that exception, is the finding). `VerifiedIsWhole`: the
model is used only if the weights hold the file's bytes once each and in order and
were hashed so. `ServedFromMemory`: no two regions share a page, and prompts are
served from held regions with the boot medium closed. `StatusIsTold`,
`SessionEnds`. `InputLeavesClean`: however the loop ends, the first failure is the
one returned, and timer, cursor and attribute are put back unless the call that
does it was refused. `KeysAreTaken`: a pressed key is read or the loop ends.

*Host tools.* `CacheHoldsVerified`: nothing wrong, partial or lost by a power failure
is found under an asset's name; a fetch that reports success stands behind every
asset; staging names are never shared. `PublishedIsWhole`: the packed model and the
report are whole under their names at every moment, a packer's success outlasts kills
and power failures if its output names a directory, and tools that were not killed
leave nothing behind. `ReleaseIsWhole`: a release has all members, which agree with
each other, and is of the commit it names if the worktree was left alone.
`NothingReplaced`: two publishers that both found the name free never replace each
other's directory. `VerdictIsExact`: an accepted image gives a FAT driver the files
and holds nothing else; an undisturbed one is accepted. `InspectedIsPacked` and
`OpenedIsUsable`: the inspector accepts only what the packer writes; what the
runtime opens, with whatever digests, is indexed inside its bounds.
`OnlyConfirmedIsErased`: the disk that `dd` opens is the one shown and confirmed,
unless it is exchanged in the window between the last `lsblk` and `dd`, which the
script leaves open (`late`).

## 5. Proofs

`WorkerProofs` proves of `WorkerSpec`, the job by itself, for every number of slots, every set of arguments,
every set of row counts and every number of jobs:

| Theorem | Says |
|---|---|
| `RowsCovered`, `RowsDisjoint` | the truncated shares of the slots partition the rows of any matrix |
| `Invariance` | `WorkerSpec => []IInv` |
| `TypeCorrectness` | `[]WorkerTypeOK` |
| `Exclusion` | `[]CoordinatorExclusive` |
| `WholeProducts` | `[]ProductComplete` |
| `ZeroStatus` | `[]ZeroMeansComplete` |
| `FrozenJob` | `TerminalFreezesJob` |
| `RowHitsExact` | the hits are the rows whenever `publish` compares them |

The assumptions are the named ones of `WorkerJob`: `SlotCount` and `BodyJobs` are
positive, arguments are naturals, row counts are positive. Nothing is assumed of
the relation between `SlotCount` and the `workers` argument, so the theorems hold
for slots that disagree, too.

None of the properties is inductive: they hold because the barrier opens only
when all slots of the token wait at it. `IInv` says so:

1. `BarrierInv`: outside the two steps that open the barrier, `arrivals` is the
   cardinality of the set of slots that spin at the current generation; a slot
   that opens it is the last one, and all others wait.
2. `PublishInv`: `generation` is the number of completed jobs, and `jobEpoch` is
   it, or one more while a job is published.
3. `FollowInv` and `JoinInv`: a slot inside a job is inside the published one,
   any other has taken part in all completed ones, and no job completes before
   all slots of the token have joined.
4. `DescriptorInv` and `OutputInv`: a busy slot works from the published
   descriptor, the rows of a slot that has computed carry the job's tag, and by
   `RowsCovered` all rows do once the barrier is open.
5. `ArgumentsInv` and `StatusInv`: accepted slots agree on the worker count, and
   a zero status stems from the stored outcome.

`Init => IInv` and one lemma per action (`EnterStep` ... `NewJobStep`) give
`NextInv`; each lemma states the action's effect explicitly, then the parts it
can disturb. The one proof with cardinalities is `ArriveStep`; the one that
needs all other slots at once is `BumpGenerationStep`. `RowHitsExact` adds that
`rowHits` is the sum of the shares of the slots that have added theirs (`HitsInv`):
the shares are intervals side by side, so their sizes add up to the rows.

The module also proves of `Spec`, the adapter with the job inside it, for every number of
processors and slots and every set of faults:

| Theorem | Says |
|---|---|
| `MpInvariance` | `Spec => []MpInv` |
| `AgreementOfSlots` | `[]SlotsAgree` |
| `CompleteReturns` | `ReturnMeansComplete` |
| `EngineRefinement` | `Spec => EngineSpec`: the adapter implements `TokenEngine` |
| `NothingHalts` | `[]NeverHalts`, when `Faults = {}` |

The job's invariant is used as it stands (`IInv` is a part of `MpInv`): a step of a
slot inside a dispatch is a step of `WorkerJob`, and the boot processor's setting up
of a job leads to a state of it. Around it `SlotInv` says that slots are given out
in order, each to one callback, and `CountInv` that the counters are the numbers of
the callbacks that came and left. A barrier that counts to the number of workers
has therefore met all of them: `EntryInv`, the entry barrier opens once per
dispatch, when every slot of it waits there. All flags are written by then, so the
callbacks that pass later read the same flags however late they are, and `BackendInv`
can name the one backend all of them choose. That makes the job's own checks dead,
and the hits add up by `RowHitsExact`. A token the caller accepts was returned by all
started processors (`RecordInv`, `BspInv`), and the refinement maps each dispatch to
evaluating steps of `TokenEngine`, one per product whose barrier opened. For
`NothingHalts` the invariant `CleanInv` says that without faults every check of
`dispatch_token` finds what it expects.

`ReplProofs` proves of the engine, for every context, prefix limit, vocabulary and set
of arguments of the client:

| Theorem | Says |
|---|---|
| `EngineInvariance` | `ClientSpec => []Sound(engine)` |
| `EngineTypes` | `[]EngineTypeOK` |
| `PrefixAlwaysBacked` | `[]PrefixBacked` |
| `BudgetAlwaysFits` | `[]BudgetFits` |
| `NoHolesEver` | `[]NoHoles` |

The assumptions are the ones of `InferenceEngine` and `EngineClient`: the context
is positive, the tokens that can be selected and EOS are in the vocabulary, the
client passes sequences and naturals (token ids may lie outside the vocabulary).

The properties are not inductive one by one. A prefix is taken from the prompt
after `prefill` has succeeded, and whether the cache holds it from position 0 on
depends on where that call began; so `Sound` adds `ResetAligned`: a reset engine
stands behind its retained prefix, or at 0 without one. `NoHoles` needs the
budget, since the position that is written must lie in the cache, and the budget
needs the types. The lemmas speak of the calls as operators on an engine
(`PrefillInnerSound`, `PrefillWithPrefixSound`, `DecodeSound`,
`ResetToPrefixSound`, ...), so that they hold for every caller, `ModelRepl`
included; `EvaluatedEffect` says what an evaluation writes, and
`EvaluatedPublishable` what it must leave for `publish_step`. `NextSound` has one
step per call of the client.

The same module proves of `ReplSteps`, the controller without fairness, for every
context, reserve, template, vocabulary and set of questions:

| Theorem | Says |
|---|---|
| `ReplInvariance` | `ReplSteps => []ReplInv` |
| `AttendsToPromptAlways` | `[]AttendsToPrompt` |
| `CacheAlwaysCommitted` | `[]CacheIsCommitted` |
| `ChecksFireNever` | `[]ChecksNeverFire` |
| `AlwaysKeepsRunning` | `[]KeepsRunning` |
| `ReplImplementsChat` | `ChatSpec` |

The assumptions are the named ones of `InferenceEngine` and `ModelRepl`: the
template's parts are not empty, its prefix is short enough to be retained
(`MAX_TOKENS`), the questions and what the sampler draws are in the vocabulary, the
reserve is positive. (The module also sees the constants of `EngineClient`; no proof
depends on them.)

What the engine must be for the next call is known from much earlier: whether a
prompt can be appended was decided when the last reply was committed. `ReplInv`
has a part for each place the controller can stand in. `Resting`: between turns the
engine was reset, or stands in front of the committed stop token. `Prompted`: a
prompt begins with the retained prefix and with the history (`RenderedBehind`),
whence `StartFound`: `append_start` always finds where to go on. `Starting`, `Drawn`
and `Stored`: before the first token, with a token drawn and with one stored, the
cache holds what was evaluated of prompt and reply, and position and budget are
those of the reply (`Fits`). A call then succeeds or faults, and is never refused
(`EngineComputes`, from the engine's `DecodeSound`, `AppendPrefillSound` and
`PrefillWithPrefixBegins`), which makes the defensive checks dead. `Closing`: a
committed reply has exactly one token that was not evaluated. There is one lemma per
action, `SurvivesStep` for the sessions without failing devices, and `DialogueStep`
for the step simulation: `Dialogue` adds that the reply follows this question's
prompt, within the reserve, without a stop token before its end.

`SessionProofs` proves of `SessionSteps`, the session without
fairness, for any number of regions of any size, any pages the firmware hands out,
any model size, read limit and file:

| Theorem | Says |
|---|---|
| `ModelIsWhole` | `[]VerifiedIsWhole` |
| `StatusAlwaysTold` | `[]StatusIsTold` |
| `NamesWhatItHolds` | `[]HeldIsNamed` |
| `ServesFromMemory` | `[]ServedFromMemory` |

What is known when the model is verified was found by earlier steps: how far the
reads came, that the probe met the end of the file, that the hash matched.
`ReadInv` carries each from its step to the uses of the model. For the status the
invariant is that until `run` returns none is set and no record is a completion, so
that the step that returns decides both.

A handle is named in three places one after the other: in the session, in the
masks of cleanup, in the report. `HeldInv` says of each bit by itself that the
firmware regards it as given out exactly while one of them names it (`StorageInv`,
`RegionInv`), that the masks split what the session held when `execute` returned
into pending, failed, not callable and given back (`SweepInv`), that nothing is
held before it is asked for (`FreshInv`), and that behind the overlap check all
regions are there and apart as far as cleanup's sizes go (`ServedInv`). A failing
call returns through `Return`, which starts the masks from the session; so most
steps are instances of three lemmas: a step that takes nothing (`GoesHeld`), one
that opens a handle (`OpensCore`), and one that gives back (`SweepsOne`).
`PicksPending` is the one fact about `next_cleanup_bit`, and needs the least
number of a set. The region that `Missized` names is left out of `RegionInv`
throughout: the finding of section 6 is that it does not hold there.

The module also proves of the input loop `InputInvariance` (`InputSpec => []LoopInv`)
and `LeavesClean` (`[]InputLeavesClean`), for any number of keys. The loop's invariant
follows the timer and the row through each step with the calls refused so far: several
may be, and only the first is returned.

`ConsoleProofs` proves of what the user types and sees, for any number of keys of any
kind, any capacity of the line, any last prompt index, any size of screen and ring, any
prompt and any texts:

| Theorem | Says |
|---|---|
| `EditorInvariance` | `EditorSpec => []EditorInv` |
| `EchoIsExact` | `[]EchoIsBuffer` |
| `VerdictsInOrder` | `[]OneVerdictPerLine` |
| `ConsoleInvariance`, `ScreenIsHistory` | `ConsoleSpec => []ConsoleInv`, `[]ScreenShowsHistory` |
| `OldLinesKept` | `OldLinesStay`, for texts shorter than the ring has lines |
| `LiveIsEditor` | `LiveSpec => EditorSpec` |
| `LiveScreen` | `LiveSpec => []ScreenShowsHistory` |
| `ShortLinesAreShown`, `CursorIsMarked` | `LiveSpec /\ []ShortLine => [](CursorMarksInput /\ RowShowsLine)` |

The editor's state is one buffer, one index and one remembered line end; its
properties speak of everything typed and everything called. `KeyStep` reduces a key to
one of seven effects (nothing, resume after a rejected line, accept, erase, insert,
reject, stop at the last index). The lemmas `EchoAppend`, `Positions` and
`CountAppend` say what one call or key more does to the sets the properties count, and `EchoStep` what
it does to the text echoed so far (`EchoRun`, which must first be shown to exist);
with them `RunInv` shows that the remembered line end is the last key exactly when it
counted and its partner may follow, and that the index is one more than the line ends
that counted; `VerdictInv`, that the index prompted for last is the editor's, without
a verdict unless the rest of the line is being discarded.

A text is stored in the ring, drawn by the firmware and counted for scrolls by three
functions that go through it unit by unit, each with a cursor of its own. `Agree` says
what holds between two units: the ring is in order (`HistoryOk`, with nothing but blanks
behind the length of a line, which is what makes a line that is taken again empty), the
screen shows its last lines from row 1 on (`Shows`), the three cursors are one, and the
status row has moved only if a scroll was counted. `CharAgrees` and `ControlAgrees` carry
it over one unit, with the wrap in the last column and the last row of the screen as the
cases that differ; `TextStep` over one unit of a text. After a text,
`console_output_utf16` paints the status row again exactly if the count was not zero, so
`ScreenShowsHistory` is back. `ConsoleInv` adds that the viewport stays within the lines
kept (`LastPage`), which paging needs.

Induction over the length of a text is the one step that needs care, because the
library's induction rule takes an operator that the provers cannot instantiate.
`SetInduction` states it for a *set* of numbers instead, which they can; with it, the
function that a recursive definition chooses is shown to exist (`HistoryRunExists` and
its siblings) before anything is said of its values. For this the text functions of
`Console` are recursive functions and no folds.

Assumed are that the screen and its lines are not empty, that the ring has at least as
many lines as the screen (`HISTORY_LINES` is 2048, the rows are those of a text mode),
that BS, CR and LF are no characters, and that inside a text LF comes behind CR only (the
ring starts a new line at LF, the firmware only goes down, so elsewhere they would
part). A text may begin with LF, as `render_console_text` makes it when the token
before ended in CR; `Continues` then asks that the output stands in the first column,
where a CR leaves it. Every UTF-16 unit takes one cell, as ring, scroll count and wrap
of the program have it; a firmware that draws a glyph over two cells is outside the
model.
`OldLinesKept` supposes texts shorter than the ring: a longer one may go round it, and
then the number of lines added cannot be told from the head. `ShortLinesAreShown`
supposes that prompt and line stay short of the edge: behind it the statement is false,
which is the finding `live_wrapped` of section 6. Its `LineInv` says that the newest line
of the ring holds the prompt and the buffer, and that a line being discarded has been
left behind.

`TextProofs` proves of the text of a reply, for any number of tokens of any bytes:

| Theorem | Says |
|---|---|
| `EncodingIs` | what passes the checks of `push` and is long enough is an encoding, and all encodings do |
| `PushParses` | `push` splits carry and token into text and the beginning of a character, or no text begins with them |
| `TextInvariance` | `Bytes = 0 .. 255 => (TextSpec => []TextInv)` |
| `TextAlwaysFaithful` | `Bytes = 0 .. 255 => (TextSpec => []TextIsFaithful)` |

`TextIsFaithful` compares the decoder with definitions that go the other way:
`Encoded` from a point to its bytes, `EncodedUnits` from UTF-16 units to bytes, `Viable`
by cutting a sequence anywhere. `EncodingFits` and `WholeIs` show, digit by digit of six
bits, that encoding and decoding undo each other and that the four special second bytes
are exactly the overlong forms, the surrogates and what is above U+10FFFF, so that the
later check of the point never fires; `Completed`, that what fits and is too short
begins a character. `ViableBehind` is what makes refusals right: no encoding begins
another, so a text can only be cut behind the character it begins with, and a character
in front (or all that was decoded before, `Through`) does not change whether bytes can
begin a text. `ReadsParses` goes with it through the bytes from the last to the first,
as the recursive function in `push` does, after `ReadsExists` has shown that there is
such a function. For the sum over tokens, `Closed` says that the decoded text ends with
no open pair of surrogates, so `EncodedUnits` of two texts in a row is that of each
(`EncodedUnitsConcat`); `RenderConcat` says the same of rendering, with the flag
`previous_was_cr` carried over. `TextInv` holds this together: the decoded bytes and the
carry are what was fed, and the flag is whether the decoded text ends in a CR. The one
hypothesis is that the bytes are those of a `u8`; the runs take eighteen of them, at
the edges of every range.

`HostProofs` proves of the host tools, for any number of processes,
assets, attempts, ordinals, edits, kills, power failures, disks, paths and upsets:

| Theorem | Says |
|---|---|
| `AssetInvariance`, `CacheAlwaysVerified` | `AssetSpec => []AssetInv`, `[]CacheHoldsVerified` |
| `UsbInvariance`, `ConfirmedOnly` | `UsbSpec => []UsbInv`, `OnlyConfirmedIsErased` |
| `ReleaseInvariance`, `PublishedReleaseIsWhole` | `ReleaseSpec => []ReleaseInv`, `[]ReleaseIsWhole` |
| `ReleaseIsNeverReplaced` | `[][ReleaseStays]_releaseVars`, one half of `NothingReplaced` |
| `PublishInvariance`, `FilesArePublishedWhole` | `PublishSpec => []PublishInv`, `[]PublishedIsWhole` |
| `ImageIsNeverReplaced` | `[][ImageStays]_publishVars`, the other half |

A rename in the cache publishes what was verified some steps earlier. The
invariant says why that is still so: a staging name belongs from its guard to the
guard's removal to one fetcher, so nobody else writes the staged file; before the
rename it is "good" and synced; a step of another fetcher never spoils an asset
that is good, so a fetcher at its n-th asset finds the first n - 1 good; ordinals
are bounded by the attempts made. Process numbers may repeat: the guards alone
keep names apart. Assumed are a positive number of attempts and of assets.

For the writer the invariant carries both views of the disk. What `lsblk` said at
the first look names one disk by its serial (the named assumption: a serial names
one disk); the second look is of the same serial, hence of the same disk, and it
stays true until something is upset, which sets `late`. Equality of the views
then gives the partitions that were shown.

A release reads the worktree at several moments: the commit and the state of the
worktree first, the notices and the sources archive later, the code when cargo
compiles it. `BuiltInv` says of each staged file what it was taken from, `CheckedInv`
what the verifications have compared, and `TreeInv` that the worktree is still the
commit as long as nobody edited behind this process's back (`raced`): so the files
agree whoever edited when, and are of the commit they name if nobody did. The name is only
ever written by a rename that needs it free (`OutputInv`).

The packer, the reporters and the imagers publish by a rename of a file or directory
they staged. `PackInv` says of the packed model, and of what a power failure may bring
back instead, that they are synced (a packer with a bare output name vouches for the
first only, and only until the power fails); `AloneInv`, that a reporter which never met
another under its temporary name renames the file it synced itself; `StagingInv` and
the `hurt = 0` parts, that what is staged belongs to a tool still at work, so that
tools that were not killed leave nothing behind.

`ContainerProofs` proves of the packed model, for any vocabulary, types, merges,
template, tensors and alignment, and any one place of the file changed, with the digests
put right afterwards or not:

| Theorem | Says |
|---|---|
| `ContainerInvariance` | `ContainerSpec => []CInv` |
| `InspectedIsExact` | `ContainerSpec => []InspectedIsPacked` |
| `OpenedIsBounded` | `ContainerSpec => []OpenedIsUsable` |

Two programs compute one layout. `PackedPasses` shows that what `pack` writes passes
both validators: `SectionsLaid` and `TensorsLaid` say where the offsets are that running
alignment gives, `FlatIs` that each string is among the bytes from its offset on, and
`TokenIdIs` that the lookup of a merge finds the one token it names. The other way,
`InspectTells`: canonical digests make the sections, the tensor rows and the data the
packed ones, and then the content digest is the packed one, so the header is too. The
runtime hashes no section and no data, so `OpenTells` needs another argument: each tensor
begins where the one before it ends, hence by induction where `pack` put it
(`TensorsTell`, `TensorsRise`); the strings that the offsets cut out are those of the
source, so the offsets rise by their lengths and are the packed ones (`StartsTell`), and
since every byte is in a string (`StartsCover`), so are the bytes; a merge names its
tokens by their strings, which are unique. `CInv` carries, besides the verdicts, that a
changed file still has its parts (`Shaped`), with the lengths and kinds of elements that
the code reads them by.

Assumed of the source is what `tokenizer_sections` refuses otherwise (token strings
unique and not empty, every merge made of tokens and making one), and what is known of
the one source whose digest is accepted: its types are among the four, a merge makes a
regular token, the template begins with a brace, and every tensor fills whole alignment
units, so that no gap lies between tensors.

`FatProofs` proves of the boot image, for any cluster size, data area, size of the
directories and sizes of the files, with one file rewritten between two steps or one
place of the finished image changed:

| Theorem | Says |
|---|---|
| `FatInvariance` | `FatSpec => []FatInv` |
| `VerdictAlwaysExact` | `FatSpec => []VerdictIsExact` |

Builder, inspector and driver each go through the clusters in a way of their own, and the
proof compares them pairwise. From inspector to driver: the entries that
`inspect_image` accepts are `Good` (`BootFilesGood`, `DistributionGood`), a driver that
looks the paths up by name comes to these entries (`LookupIs`, since every directory is
compared with its rows to the last slot), and following a table along a chain that
`file_chain` accepts it meets consecutive clusters (`WalkIs`), so it reads what
`Matches` compared (`AcceptedReads`). What is allocated holds data and the rest is zero
in the table and in the data area (`AcceptedHolds`). From builder to inspector:
`ChainsApart` puts the files in order, with the cluster of `LICENSES` between the fifth
and the sixth, so that `FatTable`'s choice of the chain a cluster is in has one answer
(`TableIs`) and no copy overwrites another (`CopyKeeps`); an undisturbed image is then
`Laid`, and each check passes (`LaidSystem`, `LaidFiles`, `LaidDistribution`,
`LaidRest`). `FatInv` carries `Laid` for as long as nothing is disturbed, that an image
keeps its parts whatever is damaged in it, and that an accepted one passed. The
assumption `FatAssumption` is the geometry: the data area ends before the last
FAT entry, and a directory has at least six entries.

Only model-checked:

- every liveness property (`DispatchSettles`, `TurnEnds`, `SessionEnds`,
  `KeysAreTaken`): fairness and `ENABLED` are outside the prover's reach.

Every invariant that a passing run checks is stated by a theorem; `RowShowsLine` (and
`CursorMarksInput`) under the hypothesis that the line stays short of the edge, without
which they are false.

## 6. Findings

- `live_wrapped`: "A visible cursor marks the live input position" fails once a
  typed line has wrapped and is erased over the wrap: a backspace in column 0
  stays there, on the screen as in the ring.
- `load_repl_release`: `cleanup` frees `REGIONS[5].pages` pages of the prompt
  region, which in `model_repl` was allocated with the larger size of
  `region_spec`, and reports it as released.
  `ensure_nonoverlap` uses the same smaller size, so in `model_repl` it does not
  look at most pages of that region; the properties of `load_session` except
  that region (`Missized`).

- `release_edited`: "A release rejects local changes" holds only at the start:
  `source_identity` asks git once, cargo compiles the worktree minutes later, and no
  verification compares the two, so an edit in between is compiled into a release
  that names the commit and carries its archive.

The README of the repository also says that the program "performs single-core
CPU inference"; since the adapter exists, three or more processors share every
product, which is what `MpDispatch` models.

## 7. Not modelled, and why

Floating-point kernels, the arithmetic of layers and the sampler's floats are
outside TLC and are covered by exact-output tests of the repository. The inline
assembly that saves and restores CPU state is a flag. Texts of records and of
the status row are formatting. Weak memory is not modelled: the atomics of the
job are taken in program order, which their acquire and release orderings and
the read-modify-write operations are there to justify. `hard_breaks` of the
scrollback is read only by the redraw without a status row, in which no mode
pages. `Output` of `ModelRepl` has no refusal of
`write_conout_utf16_checked` (more than 132 units in one token's text, which takes a
token of more than 66 line ends). Not modelled further: the sampler's draws, the arena (one pure function), SHA-256
(bit arithmetic), BPE merging, the pairing of records on display and serial port,
the memory measurement, the GGUF parsers (byte formats), and the QEMU scripts
(they drive a test machine; their hard part is QMP frames that arrive in pieces
against a deadline).

What the models of the host tools leave to the reader:

- `inspect_image` checks neither the FAT entry of the `LICENSES` directory's cluster
  nor the time stamps of the entries of the model and of `LICENSES`; `VerdictIsExact`
  says so.
- `with_staged_output` and `write_atomic` sync no directory, so after a power failure
  what they published may be gone as a whole; the properties only promise that it
  is never partial.
- Two reporters of one path share a temporary name when they overlap (`contested`),
  and then a mixture of both reports may stand under the final name; `PublishedIsWhole`
  speaks of reporters that never overlap, so this hazard has no property.
- `publish` of the packer syncs the directory only if the output names one (`Bare` are
  the packers whose output does not): behind a bare file name, `ok` does not survive a
  power failure. The third part of `PublishedIsWhole` says which success lasts.
- The readers of the container have its header's offsets as constants, the model takes
  those the packer computes; they are the same numbers, so that the two agree in this
  point holds by definition and is not shown.
- `ReleaseIsWhole` and `OnlyConfirmedIsErased` exempt a worktree edited behind git's
  answer (`raced`, shown by `release_edited`) and a disk exchanged behind the last
  `lsblk` (`late`).
- `UsbWriter` assumes that a serial names one disk.

## 8. Order of the work, and what could follow

Modelled in the order of what the user depends on: what the answer is computed
from (concurrent evaluation, cache, history), then what he sees, then how the
machine is left, then the host.

1. `WorkerJob`, `MpDispatch`, `TokenEngine`, `WorkerProofs`.
2. `InferenceEngine`, `EngineClient`, `ModelRepl`, `Chat`, `ReplProofs`.
3. `Console`, `TokenText`, `Editor`, `EditorKeys`, `LiveInput`, `ConsoleProofs`,
   `TextProofs`.
4. `LoadSession`, `InputLoop`, `SessionProofs`.
5. `AssetCache`, `Publish`, `Release`, `FatImage`, `Container`, `UsbWriter`,
   `HostProofs`, `ContainerProofs`, `FatProofs`.

Worth doing next: a model of the QMP session.
