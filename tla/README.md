# TLA+ specifications of `measure`

The repository measures how usable an NPU is to program.  It holds a tool of its
own (Python scripts and one HTML page) and a large corpus of downloaded kernels,
which the tool measures.  Two kinds of state are worth specifying: the concurrent
kernels of the corpus, which exchange data between devices or between the cores of
one, and the tool's page, scoring, files and download, where several sources write
the same data.

Contents: [parts](#the-parts-of-the-system), [hard behaviours](#what-is-hard-here),
[modules](#the-modules), [runs](#the-runs), [fairness](#fairness),
[proofs](#what-is-proved), [findings](#findings), [what is left](#not-modelled-and-plan).

## The parts of the system

| Part | State | Operations | Talks to |
|---|---|---|---|
| `moe_distribute_dispatch` kernel (`ops-transformer/mc2/...`) | per rank: a window of token slots and status words in two halves, per core a word for the half and one per half for the flag; outputs `expandXOut`, `expandIdx`, `sendCounts`, `expertTokenNumsOut` | once per invocation and core: `Init`, `AlltoAllDispatch`, `SetStatus`, `WaitDispatch`, `LocalWindowCopy`, `UpdateTokenNumsOut` | the same kernel on the other ranks by remote writes; cores of a rank by `SyncAll`; `moe_distribute_combine` through its outputs |
| `moe_distribute_combine` kernel | the same windows and state words, taken over where dispatch left them; output `XOut` | once per invocation and core: `Init`, `ExpertAlltoAllDispatchCopyAdd`, `SetStatus`, `WaitDispatch`, `LocalWindowCopy` | the same kernel on the other ranks; dispatch through `expandIdx`, `sendCounts` and the state words |
| `incre_flash_attention` kernel with preloading | per core a ring of loop parameters; per group rings of results in the workspace and four counting flags | `Process`: `CalcParams`, `QueryPreProcessL`, `ComputeMm1`, `ProcessVec1L`, `ComputeMm2`, `ProcessVec2L`, and `FlashDecodeCompute` after a barrier | one cube core with its two vector cores by flags; groups by `SyncAll` and the workspace |
| other CANN kernels, SuperNpuBench | none that outlives a call | numeric kernels | measured as text |
| report page (`report.html`) | `DATA EXTRACT COMPUTED EDITED HW PERF FILES_BY_ARCH`, and copies of most in `localStorage` | start-up chain, forms, extraction by server, local cache, file reader or import, recomputation, reload | server by `fetch`; `measure_lib.js` by calls |
| scoring, twice (`scripts/score.py`, `scripts/measure_lib.js`) | none; inputs are the hardware form, the measurements and the extract | some forty formulas and their averages | command line, server and page |
| kernel download (`scripts/download_cann_ops.py`) | clones, the tree of kernels, the stamp `cann_ops_downloaded.json` | fetch, sparse checkout, copy, stamp | git |
| source extraction (`scripts/extract_source.py`) | none | source text to counts | scoring |
| command line and server (`scripts/measure.py`) | `measure_data.json` and result files, rewritten in place by any number of processes; the server answers each request on a thread | `extract`, `score`, `local`, `serve` with `/api/extract`, `/api/score` | page, files, each other through the files |
| cache discovery (`scripts/local_ops.py`) | none | looks directories up | server |

What makes each correct:

* dispatch: a core reads only counts and tokens of its own invocation; nothing is
  overwritten before it has been read; rows of the output are where the rest of the
  model (the experts' matrix product, combine) will look for them; it never hangs;
* combine: every token gets the results of exactly the experts it was sent to, and
  the two kernels, which share one set of halves and flags, never mistake each
  other's data;
* flash attention: a result is computed of its own query and of all rows of its own
  keys and values, however the cores of a group run apart; no core waits for ever;
* files: what can be read as JSON has lost no notes and no placeholder, whichever
  commands overlap or stop;
* page: a manual score beats a computed one for ever; what is shown survives a
  reload; a late answer does not undo what the user did; start-up ends;
* scoring: both programs report the same score, ties of their two roundings apart,
  between 0 and 10 for a consistent form; a higher cost never raises it, and a field that
  was not filled in never scores;
* download: when a run ends, the stamp tells what is in the tree, whatever runs were
  interrupted before it.

## What is hard here

`PROJECT.json` lists every hazard at its line with the properties that cover it.  The
main ones:

* **Dispatch has no acknowledgement.**  A sender writes into a receiver's memory
  without asking whether the last contents have been read.  Only the alternation of
  two halves, a flag that flips at each *use of a half*, and the fact that nobody can
  finish waiting before everybody has sent, hold the ranks together.  Flags have one
  bit and a half returns every second round, so after four rounds a stale status word
  looks like a fresh one.  Within a rank, a core polls only its slice of the status
  words and relies on a barrier for the others; cores without work take shorter paths
  with barriers of their own.
* **Positions are computed twice**, by the sender and by the receiver, from different
  data in a different order (status words by expert then sender, regions by sender
  then expert, shared experts by rounded divisions).
* **Two kernels share one protocol.**  Combine takes the half and the flag from the words
  dispatch toggles, raises its flags *without* the barrier dispatch has before them, and
  polls other words with another target sum.
* **A pipeline with two loops in flight.**  The cube and the vector cores of a group run
  the same loops, each at its own pace, and pass results through rings of two slots.
  Four flags say when a slot may be read; *that a slot may be written again* is said by no
  flag of its own.  Loops cross from one task to the next inside the pipeline, and
  batches may be empty, so the stages of one moment belong to different tasks.
* **The page's state has many writers**: four ways to extract, three sources of a
  score, fetches that settle in any order, and a reload between any two of them.
* **The formulas are written twice** in languages that disagree on null, the empty
  string and zero.
* **A download may stop anywhere** and be run again for another release.
* **Files are rewritten in place and without locks**: a command reads, computes, empties
  the file and fills it, and another command or a request may come at each point.

## The modules

```
MoeSplit ── MoeRouting ─┬─ MoeDispatch ─┬─ MoeDispatchInv ─────┐
 (slices)    (routes)   │     │         │                      │
                        │     │         └─ MoeCombine ── MoeCombineInv ── MoeKernelProofs
                        │     │               │  (dispatch and combine in turn)
                        │     └── INSTANCE ───┴─ AllToAll
                        ├─ MoeLayout ─┬─ MoeReturn ──┬─ MCMoeReturn   (data of one round trip)
                        │             └─ MoeLayoutInv ┴─ MoeReturnInv ── MoeReturnProofs
                        └─ MoeRoutingProofs (slices and routes; extended by MoeKernelProofs
                                             and MoeReturnProofs)

PreloadPipe ── FlashPreload ─┬─ MCFlashPreload
 (control)      (data)       └─ FlashPreloadProofs

ScoreMath ─ ScoreItems ─┬ ScoreCommand ┐ INSTANCE
                        └ ScoreBrowser ┴ Scoring ─┬─ MCScoring
                                                  └─ ScoringProofs

KernelDownload ─┬─ MCKernelDownload     MeasureStore ─┬─ MCMeasureStore     ReportPage
                └─ KernelDownloadProofs               └─ MeasureStoreProofs   └─ ReportPageProofs
```

### Dispatch

`MoeSplit` is `SplitToCore`: which items of a list a core takes.  `MoeRouting` is who
sends what to whom: the rank of an expert, the experts a core serves, the status word
of a sender and an expert, the core that waits for it, and the region of the window
that goes with it.  Both are shared by two models of the kernel.

`MoeDispatch` is its **control** over many invocations ("rounds").  Each core is a
process whose `pc` names the function it is in:

| pc | action | code |
|---|---|---|
| idle | `Start` | `Init`: take half and flag, leave the other ones for next time |
| send | `SendTokens`, `FinishSend` | `SendToMoeExpert`, `SendToSharedExpert` |
| sync1 | `Sync1` | `SyncAll` of `SetStatus` |
| status | `WriteStatus`, `FinishStatus` | the words, in any order up to the pipe barrier |
| wait | `Poll` | `WaitDispatch` |
| sync2 | `Sync2` | `SyncAll` of `WaitDispatch` |
| counts | `ReadCounts` | `GetCumSum` |
| copy | `CopyBlock`, `FinishCopy` | `LocalWindowCopy` |
| sync3 | `Sync3` | `SyncAll` of `UpdateTokenNumsOut`, ranks of several experts only |
| totals | `Finish` | the last core's sums; the core may be launched again |

Data are abstracted to the round they belong to: `window`, `told` and `sendCounts` hold
round numbers, so "stale" is visible.  Nothing is assumed of kernel launches: each core
begins its next round when it likes, which is weaker than what a device does.  `Poll`
reads its slice in one step.  The code sums flags again and again; a word that has
reached the target keeps it until this rank itself contributes to a later round
(conjunct `Ahead` of the invariant), so a sum read word by word is the target only if
it would be in one step.  Each pair of a sender and an expert has variables of its own;
`WordsApart` proves that their addresses do not meet.

`AllToAll` is what the exchange promises without windows, flags or cores: a rank
contributes to a round only when it has received the one before, and receives one when
all have contributed.  `MoeDispatch` implements it (`ImplementsExchange`), with
`sent` and `got` read off core 0, since the barriers keep cores in step.

`MoeLayout` is the **data** of one invocation: tokens with identities, slots, counts,
rows.  One step is one core's share of one function, because `MoeDispatch` shows that
nobody reads what a function writes before the barrier or the status word behind it.
Offsets are in tokens from the start of the half.  Assumed of the inputs, as the
operator's README has it: every rank has `BS` tokens, the experts of one token differ,
and the number of ranks is a multiple of that of shared experts.

### Combine

`MoeCombine` extends `MoeDispatch`: every core runs the two kernels in turn, even rounds
being dispatch and odd ones combine, over the *same* windows, halves and flags.

| pc | action | code |
|---|---|---|
| idle | `CombineStart` | `Init`, `InitStatusTargetSum`, `SplitCoreCal` |
| send | `SendResults`, `FinishResults` | `ExpertAlltoAllDispatchCopyAdd`, a rank at a time |
| status | `RaiseFlag`, `FinishStatus` | `SetStatus`, with no barrier before it |
| wait | `PollFlags` | `WaitDispatch` |
| sync2 | `CombineSync` | its `SyncAll` |
| copy | `FinishGather` | `LocalWindowCopy` |

Here launches do matter, and `Launched` states what is assumed of them: a core begins a
kernel when all cores of its rank have ended the one before, as kernels of one stream
are launched.  Dispatch alone does not need this (its theorems hold without it); with
combine it is needed, since combine announces a core's results while another core of
the rank may not even have begun.  Without it TLC finds `CountsFresh` violated (that is
the mutant `LaunchedAlone`).  The two together implement the same `AllToAll` as dispatch
alone: `Joined` and `Gathered` are the refinement mapping, and a step in which a rank's
first core begins to announce is one in which the rank joins the round.

`MoeReturn` extends `MoeLayout` with the rest of the trip.  The experts are external: a
result is the pair of a token and the expert whose rows it was among, by
`expertTokenNums` in either of its two forms.  `SendBack` is a core's share of
`ExpertAlltoAllDispatchCopyAdd` (which words of `sendCounts`, which rows, which slots of
which window), `Gather` its share of `WaitDispatch` and `LocalWindowCopy`.  With more
cores than tokens a row is divided into units (`OutShare`, from `RowShare` of
`MoeSplit`); `H` is the units of a row.
What is added up is a set, which is empty before the output is written, so that a
missing or foreign result shows; the arithmetic of the scales is left out.

### Flash attention with preloading

`PreloadPipe` is the **control** of the kernel: one cube core and two vector cores per
group, each with its place in `Process` (`[part, i, j]`: what it does in iteration `i` of
the outer loop at inner loop `j`).

| core, part | action | code |
|---|---|---|
| vector, issue | `Issue` | `CalcParams`, `QueryPreProcessL`; sets `v0c1` if antiquantising |
| cube, mm1 | `Matmul1` | waits `v0c1`, `ComputeMm1`, sets `c1v1` |
| vector, softmax | `Softmax` | waits `c1v1`, `ProcessVec1L`, sets `v1c2` |
| cube, mm2 | `Matmul2` | waits `v1c2`, `ComputeMm2`, sets `c2v2` |
| vector, retire and flush | `Retire` | waits `c2v2`, `ProcessVec2L`, of loops an iteration old and of the last ones |

Flags count: what a cube core sets each of its vector cores waits for, and what it waits
for both must have set.  Each stage writes the slot `loop % Preload` of its ring; an entry
remembers its loop, so that reading a wrong or overwritten slot is visible.  An inner loop
that only finds `IsFinish` true is passed over.

`FlashPreload` is the **data**: `SetLoopTimes` and `CalcParams` as two walks over the
tasks of a group, written from their own code, since the kernel is right only if they
agree; `extraInfo` in every core's ring; the tensors at hand when batches are separate
(`keyGm`, `valueGm`); the softmax and accumulator rings; and, for a task split among
groups, the parts, the barrier and `FlashDecodeCompute`.  A result is an *account*: whose
query, keys and values, and which rows, went into its numerator and its denominator; what
`FlashDecodeCompute` joins keeps the part and the loop that each account is from.

### Page

`ReportPage` has the script's globals, `localStorage`, the start-up chain and the
requests in flight.  A handler runs to its next `await` in one step, as an event loop
runs it.  Data are abstracted to provenance: an extraction is *the answer to that click*
or *the files of that pick*, a set of scores is *what it was computed from*.  `EarlyUser`
says whether the user may act before start-up has ended, which the page allows.  Each of
`Readers` is a click on the browser's extraction, which reads its files one `await` at a
time while others may do the same: `runBrowserExtract` does not ask whether one is at it.

### Scoring

`ScoreMath` has clamps, logarithmic scores and weighted means in fixed point (a `Point` is
10000 while it is computed, 100 as it is reported); `ScoreItems` the fields of each
sub-item; `ScoreCommand` and `ScoreBrowser` the formulas as `score.py` and `measure_lib.js` have them, with each language's
treatment of missing (`None`, `undefined`), blank (`""`) and zero values: Python
raises on a blank, JavaScript reads it as 0.  `Scoring` lets the user edit the inputs and
instantiates both, so that properties may compare the two programs, two values of
an input, and the same input with and without blanks.  `perf` is a partial function, as
`PERF` is in the page: an operator without an object is read as one without fields, and
the first look at its page (`RenderPerf`) or the first number entered gives it one full of
blanks.

`Rounded` is what each program does last, with rules of their own: `round(val, 2)` takes a
half to even, `Math.round(x * 100) / 100` takes it up.  Before that, divisions and
logarithms round down alike in both models, to a hundredth of what is reported.  So the
model tells when a score is next to a tie, and on a tie that is exact in the programs too
(8.125) it rounds as they do; what it cannot tell is on which side of an inexact tie, or of
a threshold of a band, floating point puts a score.  `MirrorAgrees` therefore asks for
equal scores away from ties (`NearTie`, a tenth of a hundredth on either side) and for a
difference of one hundredth at most next to them, which the programs do have (see the
findings).

### Download

`KernelDownload` has the clones, the tree and the stamp.  The content of a file is the
release it is of.  `Stop` may come between any two steps and `Run` starts again with
whatever is on disk, for the same release or another one.

### Files

`MeasureStore` has `measure_data.json` and `--out` under score commands, each a process
(`ReadData`, `OpenOut`, `FillOut`, `OpenData`, `FillData`, and `Stop` between any two),
and requests to `/api/score` (`Post`, `Answer`).  A file is absent, empty, whole or torn;
`write_text` is an open, which empties it, and one write of the whole text from the
beginning (Python passes a text longer than its buffer to the system in one call).  Of
two writers that both opened the file before either filled it, the second leaves the
end of the first's text if that is longer: a complete document and more, which is no
JSON.  A score is what the constant `Computed` says of the command's input, or `None`.
All commands read and merge into the same file; with `--data` naming a file that is not
there, `_read_json` returns `{}` and a merge drops the notes, which `first = NoDocument`
shows only for a store that had none.

## The runs

`tlc -config X.cfg M` in this directory.  All pass but the four marked so.

| run | module | bounds | what it checks |
|---|---|---|---|
| `dispatch_shared` | `MoeDispatch` | 1 shared rank, 1 rank of 2 experts, 2 cores, 5 rounds | `TypeOK`, `CountsFresh`, `TokensIntact`, `TotalsComplete`, `RanksInStep`, `ImplementsExchange` (refinement of `AllToAll` with its fairness), `AllRoundsFinish` |
| `combine_pair` | `MoeCombine` | the same ranks, 6 rounds: three of each kernel | `CountsFresh`, `BlocksIntact`, `PairImplementsExchange`, `AllInvocationsFinish` |
| `round_trip` | `MCMoeReturn` | 2 shared and 2 MoE ranks of 2 experts, 2 cores, 3 tokens, 2 experts per token, nine routings, a row of 2 units | `TypeOK`, `RowsFound`, `RowsGrouped`, `SharedExpertsBalanced`, `ResultsReturn`, `WrittenOnce`, `ReturnedOnce` |
| `flash_preload` | `MCFlashPreload` | 2 groups, 2 loops in flight, 2 rows per loop, parts of 4 rows, 18 inputs | `TypeOK`, `FlagsCount`, `OwnSlots`, `WrittenWhole`, `EveryTaskWritten` |
| `measure_store` | `MCMeasureStore` | 3 commands, 1 request, 3 items, 2 extractions and a missing one | `TypeOK`, `NotesKept`, `WrittenInTurn` |
| `page_answers` | `ReportPage` | 1 slot, 1 request, 2 browser extractions, 2 file lists, 1 edit per form, 1 reload | `TypeOK`, `MemoryFollowsStore`, `ManualScoreWins`, `RecomputedScoresStay`, `LoadSettles` |
| `page_early` (violated) | `ReportPage` | the user acts during start-up | finding 1 |
| `score_mirror` | `MCScoring` | all but six items, 2 operators, 2 tiers, 2 buffers, 3 measurements (2 for 4.b.2) | `TypeOK`, `MirrorAgrees`, `ConsistentInRange`, `CommandIgnoresBlanks`, `CostOnlyHurts` |
| `score_blank_page` (violated) | `MCScoring` | 1 operator | finding 2 |
| `score_zero_rate` (violated) | `MCScoring` | the six rate items | finding 3 |
| `download_reruns` | `MCKernelDownload` | 2 repositories, 3 directories, 2 releases, 3 runs | `TypeOK`, `StampTrue` |
| `download_override` (violated) | `MCKernelDownload` | the same with `--tag` | finding 4 |

Why the bounds are enough for the case to happen:

* Five rounds use each half at least twice and make a flag repeat in the same half,
  which is where a stale word could pass for a fresh one.  Two cores are needed for a
  core that reads words another has polled.  The theorems below cover every other size,
  three ranks and more among them.
* In `dispatch_shared` one rank is a shared expert's and the other has several experts:
  cores divide into the two kinds of sender, and the third barrier is used.
* In `combine_pair` six rounds give each kernel three invocations.  As the two alternate,
  each always has the half it had before, so it meets its own words of last time, whose
  flag has both values in the three; how far apart ranks and cores may be in the two kernels
  is what the run tries.  Launches in another order, where a kernel would meet words the
  other has raised, are not modelled.
* In `round_trip` slices of unequal size occur, an expert may have no tokens, and
  all may go to the first ones; three tokens do not divide by two shared experts, so
  the rounded divisions differ from exact ones, and a shared rank serves two ranks.
  There are more tokens than cores: `OutShare`'s other branch, a row divided among
  cores, is not reached by this instance; theorem `ResultsAllReturn` holds with both.
* In `flash_preload` a group has up to ten loops, three blocks in flight and one more;
  lengths are zero, one, a multiple and a non-multiple of what a loop takes; empty
  batches stand first, last and between; a range begins and ends inside a batch; both
  ways of holding tensors, with and without antiquantisation; a split task has one,
  two or no parts with rows.  The theorems cover other numbers of loops, groups and
  parts, and other lengths.
* In `measure_store` three commands allow a document read before, and written after,
  another's merge, and a third that reads in between; an item that only the newer
  extraction scores tells merges apart.
* Page: one edit of each form distinguishes old from new; a request and two extractions
  by the browser are enough for answers out of order, and for two loops over files that
  change under them; one reload for what is lost and kept.
* Scoring: each field of a banded or clamped formula has numbers on both sides of the
  thresholds, and zero where a form may hold zero; two operators make the averages.
  4.b.2, whose ten inputs make the largest state space, has one number per field and
  operators with sources only: that its parts are there or not is what the programs
  could disagree on.  Histories of 9.a.1 grow, shrink, and lack lines or times.
* Download: the two releases differ in a file of a kernel, a kernel more, and a
  directory less; three runs allow an interrupted one between two releases.

Restrictions of the scoring runs, and why: `score_mirror` leaves out the six items of
`score_zero_rate`, on which the programs do differ.  `MirrorAgrees` speaks of
measurements without blanks, since `score.py` raises on them by design and the page
does not.  `CommandIgnoresBlanks` leaves out 3.a.2, of which `score.py` reads blank
latencies as 0.  `ConsistentInRange` supposes a form in which a counted part is no larger
than its whole, as 4.a.1 and 4.a.2 define them, and a share is no more than 1; the values of
`score_mirror` break both, and on such forms the programs do report scores outside 0..10,
against `score.py:4` (see the findings): `InRange` by itself is false of both.

Deadlock is checked where a system goes on for ever (page) or has a final state of its
own (`MoeReturn`, whose `AllReturned` stutters only when all cores are done).  It is off
where a bound or the end of the work ends the behaviour, or the user may stop: the
number of rounds, loops, edits, commands or runs.  For the kernels `AllRoundsFinish`,
`AllInvocationsFinish` and `EveryTaskWritten` say what is needed instead.

Each property has a mutant in the module it is about, an operator next to the definition
it replaces, under which TLC finds the property violated.

## Fairness

* `MoeDispatch`: weak fairness of each core's steps and of each rank's barriers.  Cores
  are hardware units that run until they are done, and a barrier that all have reached
  opens.  A core that polls takes no step until the flags are there, so fairness asks
  nothing of it.
* `MoeCombine`: the same, of each core's steps in either kernel and of the barriers.
* `FlashPreload`: weak fairness of `FlashNext` as a whole: as long as some core can go
  on, one does.  It is enough, since a kernel has finitely many steps, and it is the
  weakest assumption under which a hang is a fault of the kernel.
* `ReportPage`: weak fairness of `StartUp` only: a browser settles every fetch and runs
  the continuation of every promise.  Nothing is assumed of the user.  `LoadSettles`
  holds with any number of reloads up to the bound.
* None elsewhere: scoring is driven by a user, and a download or a command may always be
  interrupted.

## What is proved

`tlapm` checks every proof.  Those about dispatch and combine hold for every number of
ranks, cores, experts, experts per token and rounds, under `DispatchAssumption` (positive
sizes, fewer shared ranks than ranks, and two cores if there are shared experts); those
about the data of a round trip for every routing and number of tokens besides, under
`LayoutAssumption` (the same, with the number of ranks a multiple of that of shared
experts, the experts of a token different, and memory's `Nothing` no token) and, with
combine, `ReturnAssumption` (a row has units, and `Nothing` is no result); those about
flash attention for every number of groups, loops in flight and loops, under
`PipeAssumption` (positive sizes), and those about its data for every input under
`InputAssumption` besides (a range of tasks is one of tasks there are; a split gives each
task as many groups as it has parts, and no batch is longer than its parts together:
the tilings the kernel accepts); those about the files for any
commands, requests, items and scores under `StoreAssumption`; those about scores for any
operators, tiers, sources, forms and measurements under `ScoringAssumption` (finitely many
operators and tiers, positive weights), `MarkersDiffer` (null, the empty string and an
exception are no numbers) and `FieldAssumption` (a field is given a whole number that is
not negative, as large as one likes, and a history is a list of versions); those about the
page for
any slots, requests, extractions at once, architectures, edits and reloads under `PageAssumption` and
`NullAssumption` (that null is none of the values); those about the download for any
repositories, directories and releases.  Four have a hypothesis on how the program is
used, without which the property is false, as the violated runs show: `StampIsTrue` that
`--tag` is not given (`Overrides = {}`, finding 4), `MemoryIsSaved` and
`RecomputedScoresRemain` that the user waits for start-up (`EarlyUser = FALSE`, finding
1), and `ProgramsAgree` that the item is none of the six rates (finding 3).

| theorem | module | says |
|---|---|---|
| `TypeCorrect` | `MoeKernelProofs` | `Spec => []TypeOK` |
| `DispatchInvariant` | `MoeKernelProofs` | `Spec => []IInv` |
| `CountsAreFresh`, `TokensAreIntact`, `TotalsAreComplete`, `RanksStayInStep` | `MoeKernelProofs` | the four safety properties the runs check |
| `ExchangeIsImplemented` | `MoeKernelProofs` | every step of the kernel is a step of `AllToAll` or a stutter |
| `RegionOfWord`, `WordsApart` | `MoeRoutingProofs` | receiver and sender agree on regions; senders never share a word or a region |
| `RowSharesTile` | `MoeRoutingProofs` | the cores of combine add up every unit of every token, each exactly once |
| `PairInvariant`, `PairTypeCorrect` | `MoeKernelProofs` | `PairSpec => []PairInv`, and `TypeOK` with it |
| `PairCountsFresh`, `PairBlocksIntact` | `MoeKernelProofs` | dispatch and combine in turn: `CountsFresh` and `BlocksIntact` always hold |
| `PairExchangeIsImplemented` | `MoeKernelProofs` | every step of either kernel is a step of `AllToAll` or a stutter |
| `LayoutInvariant`, `LayoutTypes` | `MoeReturnProofs` | `Spec => []IInv` of `MoeLayout`, and `TypeOK` with it |
| `LayoutWrittenOnce` | `MoeReturnProofs` | no slot, word or row of dispatch is overwritten with other contents |
| `LayoutRowsFound`, `LayoutRowsGrouped` | `MoeReturnProofs` | `RowsFound` and `RowsGrouped` always hold |
| `LayoutSharedBalanced` | `MoeReturnProofs` | `SharedExpertsBalanced` always holds |
| `ReturnInvariant`, `ReturnIsLayout` | `MoeReturnProofs` | `ReturnSpec => []ReturnInv`; a round trip is, for the variables of dispatch, a behaviour of `MoeLayout` |
| `ResultsAllReturn`, `ResultsReturnOnce` | `MoeReturnProofs` | `ResultsReturn` and `ReturnedOnce` always hold |
| `PipeInvariant` | `FlashPreloadProofs` | `FlashSpec => []PipeInv` |
| `FlagsAreCounts`, `SlotsAreOwn` | `FlashPreloadProofs` | `FlagsCount` and `OwnSlots` always hold |
| `DataInvariant`, `TypeCorrect` | `FlashPreloadProofs` | `FlashSpec => [](PipeInv /\ DataInv)`, and `TypeOK` with it |
| `ResultsAreWhole` | `FlashPreloadProofs` | `FlashSpec => WrittenWhole` |
| `TypeCorrect`, `ManualScoresWin` | `ReportPageProofs` | `TypeOK` and `ManualScoreWins` hold, whenever the user acts |
| `MemoryIsSaved`, `RecomputedScoresRemain` | `ReportPageProofs` | for a user who waits, `MemoryFollowsStore` and `RecomputedScoresStay` hold |
| `TypeCorrect` | `ScoringProofs` | `Spec => []TypeOK` |
| `ProgramsAgree` | `ScoringProofs` | for all items but the six rates, `MirrorAgrees` always holds |
| `ScoresInRange`, `BlanksIgnored` | `ScoringProofs` | `ConsistentInRange` and `CommandIgnoresBlanks` always hold, on every item |
| `TypeCorrect`, `NotesSurvive` | `MeasureStoreProofs` | `TypeOK` and `NotesKept` always hold |
| `DocumentsAreInTurn` | `MeasureStoreProofs` | `WrittenInTurn` always holds |
| `TypeCorrect`, `ReleaseIsLeft` | `KernelDownloadProofs` | `TypeOK` always holds, and a run that ends leaves exactly its release |
| `StampIsTrue` | `KernelDownloadProofs` | without `--tag`, `StampTrue` always holds |

**The argument for dispatch.**  None of the properties is inductive: that a word is fresh depends on
who may write it, how far that core can have come, and what made it wait.  `IInv`
(module `MoeDispatchInv`) therefore says of every word of memory what it holds *as a
function of the progress of the one core that writes it*: `Windows`, `StatusWords`,
`CountWords` and `Registers` use `Last(h, n)`, the last of the rounds 0..n-1 that used
half h.  `Lockstep` relates the cores of a rank (barriers), `Ahead` the ranks: a rank
reads round k only if every expert's owner has announced it.  From `Ahead` follows that
ranks are at most one round apart; a sender one round ahead is in the *other* half, so
`Last` of its progress is still the round the reader is in.  That flags are never
mistaken is the step of `Poll` (lemmas about `Polled`): a status word in this half is of
this round or of two rounds before, and those two have different flags.

`MoeRoutingProofs` has the lemmas the invariant needs of the split: slices are disjoint
and cover the list, so each word has exactly one writer and one poller.  `RowSharesTile`
is the same of combine's division of rows, where a core may have a part of one row.
`MoeKernelProofs` has a lemma per conjunct of `IInv`, with a step per action.

**The argument for the two kernels in turn.**  `IInv` is of no use here: combine has no
barrier before its flags, so the cores of a rank are not in lockstep when they announce,
and without `Launched` nothing would keep them together.  `PairInv` (`MoeCombineInv`)
starts from what alternation gives: dispatch uses half 0 only, combine half 1.  It has
the same kind of parts as `IInv`, one for each half: what a word holds as a function of
its writer's progress (`TokenWords`, `ResultWords`, `CountFlags`, `ResultFlags`), how far
a reader may be (`TokensAhead`, `ResultsAhead`), and what a core that has polled knows
(`PairPolled`); `Launches`, `ReadTogether` and `SentTogether` relate the cores of a rank.
The central lemma is `Near`: while a core is in a round, no rank reads the next one,
since for that every core would have had to announce it.  A half comes back every *second*
round, so a word is never two rounds old or new (`TokensTold`, `TokensRead`,
`ResultsRead`).  Parts that speak of progress only are proved from `Moves`, what a step of
either kernel does to one core (`OneMoves`), and those that speak of memory action by
action.  For the refinement, `JoinedIs` and `BegunFirst` say that a rank joins a round
with the first of its cores that announces it, and that what has been announced has been
joined.

**The argument for the data of dispatch.**  Every property is about positions that two
ranks compute from different data, so `IInv` (`MoeLayoutInv`) has one idea: what a core
writes, to which address, is a function of the routing alone (`SentFrom`, `Told`,
`PlacesFrom`, `RowsFrom`, `SumsFrom`), although the code reads most of it from memory.  A
memory then holds exactly what the cores that have come past a function were to write
(`WindowsHold` to `SumsHold`), and `Ordered` is what barriers and words give.

A step keeps this if two facts hold of each memory.  Writes to one address are of one
value, whoever makes them (`OneValue`; `MemoryNext` then does the step); and what the step
computes from memory is what the routing says.  For the second, the words a core adds up
have all come, with the counts of `CountFor`, and its windows hold in each region the
tokens of `TokenAt`.  For the first, the rows of every word are where the sums of the
counts put them; that these are disjoint, and no more than there are rows, is about
sums.  Such lemmas are proved by a least number for which they would fail (`Least`),
which is induction without a parameter that is an operator; `Grow` and `AddUpNext` are
what they need of `MapThenSumSet`.  That tokens dealt to shared experts in runs of
rounded length meet no slot twice, and reach each expert equally, is `SharedSums`: the
sums of the counts telescope.  `RowsFound`, `RowsGrouped` and `SharedExpertsBalanced`
follow from `IInv` in the states they speak of, and `WrittenOnce` from `IInv` before and
after a step.

**The argument for the round trip.**  `ReturnInv` (`MoeReturnInv`) continues in the same
way: the result that comes back to a slot is a function of the routing (`BackFrom`), and
a window holds what the cores past `send` were to send there (`BackHolds`).  The code
derives it from the words of `sendCounts` and the rows between them, and the experts
derive whose row it is from `expertTokenNums`; from `IInv` of a rank that is done with
dispatch both are what the routing says (`ExpertOfRow`, `SentBackIs`), whichever of the
two forms `expertTokenNums` has.  All that ever comes back has one value per slot
(`BackApart`), so `OneValue` applies again.  A flag in a rank's status space tells of the
core that serves the rank (`FlagsHold`): once all are up, and the barrier has been passed
for the words that this rank's own cores send, everything has come back (`AllComeBack`),
and the slots that are added up for a token are those of its own choices and its own
shared expert (`SumIs`).  `RowSharesTile` makes the output whole, also when a row
is divided among cores.

Before the proofs TLC checked `IInv` and `ReturnInv` on three ranks, one of them a shared
expert's, with two tokens (32 886 states of the trip), and `ReturnInv` on the instance of
`round_trip` (319 914 states).

**The argument for flash attention.**  `OwnSlots` says that a ring holds the loops between
its last reader and its writer; it is not inductive, because nothing in it keeps the
writer from running ahead.  No flag does so directly either: a cube core asks nobody
before it writes `mm1`.  `PipeInv` adds the type and place of every core and `FlagsAt`, that each flag is the
difference of two counts of loops done.  The place of a core bounds its own counts (a
vector core issues at most `Preload` loops it has not retired, a cube core multiplies at
most `Preload` loops in the first product and not the second: `VectorCounts`,
`CubeCounts`); a flag is never negative, so counts of different cores are in order,
`V2 <= C2 <= V1 <= C1`; together (`Bounds`) no count is more than `Preload` ahead of any
that follows it, and loops less than `Preload` apart have different slots
(`SlotsApart`).  A step adds one to one count (the lemmas `Counts...`), so each action has
one ring to look at.  `C1 <= V0` is claimed only under antiquantisation, where `v0c1`
orders them; nothing else reads what `Issue` writes on another core.

**The argument for its data.**  `WrittenWhole` speaks of a write that comes many steps
after the loops it is made of, through six rings.  `DataInv` therefore fixes what each of
them holds: which task loop k of a group belongs to (`TaskOfLoop`, by how many loops the
tasks before it have), where the walk is (`WalkIn`), what is noted of the loop (`InfoOf`)
and what a stage makes of it (`AccountOf`, `Sums`) are functions of the input, and a ring
keeps them for the loops its readers still need (`Keeps`, `Queried`).  Three facts about
the code carry the step from one loop to the next.  The walk `CalcParams` takes from its
last place, over empty batches and with the heads left of them, is `WalkIn` of the next
loop (`WalkOn`), so that it ends with the loops `SetLoopTimes` has counted.  The batch a
cube core has at hand changes at just the loops marked so (`SameBatch`, `FetchedIs`).
And what a loop goes on from, its own task's sums and query, is at most `Preload` loops
old (`SumsNext`, `QueryKept`), although tasks begin and end inside a block.  The control's
`PipeInv` gives the counts, and `SlotsApart` again that nothing else is overwritten.

For the results, `OutHolds` says that what has been written is of a task whose last loop
is retired, or that one core has combined; each happens once (`RetiresOnce`,
`CombinesOnce`).  The blocks of rows that the loops of a task take are put side by side
(`BlocksAre`), so its sums at the last loop have each row once (`PartWhole`), and the same
lemma, one level up, joins the parts of a split task (`PartsOfTask`, `JoinedWhole`).  That
the parts are all there when they are combined is the barrier (`Barrier`, `PartsHold`),
and parts without rows are beyond `Parts`.  Loops and tasks are counted as the elements of
sets, so that sums over tasks need no recursion; `Least` is the induction.

TLC checked `DataInv` with one, two and three loops in flight before it was proved.

**The argument for the page.**  `ManualScoreWins` needs only that what the user has
entered is saved in the same step (`EditsSaved`).  `MemoryFollowsStore` is not inductive:
while the page loads its globals may differ from storage, and what closes the gap is that
start-up begins from what was saved and fetches only what was not (`StartsFromStore`).
This holds up to the end of the load because no request of the user is under way that
could save meanwhile (`Quiet`): a reload ends them all, and a user who waits makes none.
That is where `EarlyUser = FALSE` is used; everything after the load holds for any order
of answers.

**The argument for the scores.**  What is hard here is not the steps but the formulas,
some forty of them in two languages, so nearly all of `ScoringProofs` is about values.  It
is built from below.  That a weighted mean of scores in 0..10 is in 0..10
(`MeanBound`), or none when no score is given, is about the sums of `MapThenSumSet`, which
are unrolled one element at a time and bounded by a least counterexample; clamps, shares,
logarithms and bands each have a lemma for their range (`ClampRange` to `HalvedRange`,
`BandIs`).  On these rest two or three lemmas for each formula: that the browser's is a number
or none, and in range if it is clamped or the form is consistent (`...Range`, `Sound`), that without blanks the command's is the same, and that with blanks the command's
raises, gives none, or is what it is without them (`...Blanks`).  The lemmas `OpRange`,
`OpBlanks`, `HwRange` and `HwAgrees` collect them over the items; means over operators,
taken either way, then give `ScoreRange`, `ScoreAgrees` and `ScoreBlanks`, about any form
and any measurements of the right types.

The range of the command's scores needs no second pass through the formulas: a score it
gives is the one without blanks, which is the browser's.  Only the rates and 3.a.2, on
which the two differ, are bounded by themselves.  All this is of scores before they are
rounded; `Rounding` then says of the two roundings of one score that they differ by one at
most, only on a tie, and keep what is in range there.  The state machine adds that types are
kept: `TypeOK` alone is not inductive, since setting a field of an object that has no
such field does nothing, and `Inv` says that every object has exactly the fields of the
item.  TLC checked `Inv` on the instance of `score_mirror` (621 843 states).

**The argument for the files.**  `NotesKept` is inductive with the types: what a command
writes is a merge of what it read as JSON, and a merge keeps what it does not compute.
`WrittenInTurn` is not: it says nothing of what a command has *read*, which it will write
later.  `TurnInv` adds that this is the work of other commands (`Ended` without the
reader), all of which have opened the file.  To add the reader at the end of their
sequence is then to merge its input (`OneMoreInTurn`), since the last command of the
longer sequence that scores an item is the reader, if it scores it, and otherwise the one
it was (`LatestOfMore`).  That a sequence has such a last command needs no induction over
its length: `TurnInv` carries it along (`HasLast`), as each sequence grows by one at a
time.

**The argument for the download.**  `DownloadInv` is about the run at hand, with or without
`--tag`: clones it has passed are at its release and have their paths, and a directory it has passed has all
files of that release except those in `copying`, and no other kernel file.  Nothing is
said of the clones and the tree a run finds, which is why earlier runs may have stopped
anywhere.

Only model-checked:

* liveness (`AllRoundsFinish`, `AllInvocationsFinish`, `EveryTaskWritten`, `LoadSettles`,
  and the fairness part of `ImplementsExchange` and `PairImplementsExchange`), which is
  outside what the prover does;
* `CostOnlyHurts`: it compares two scores of each formula, and needs for every formula
  that it falls in every cost it reads.

## Findings

1. `page_early`: recomputing before start-up has ended has its result replaced by the
   repository's score file (`report.html:1349`); storage keeps the user's.
2. `score_blank_page`: opening the benchmark page of an operator fills its measurements
   with `""`, which `measure_lib.js` reads as 0 and scores (`measure_lib.js:306`).
3. `score_zero_rate`: for six items a measured rate of 0 is falsy in `score.py` and
   replaced by the share (`score.py:548`); the page takes them in the other order.
4. `download_override`: with `--tag` the stamp records the release of the map, not the
   one that was fetched (`download_cann_ops.py:139`).
Three more texts disagree with the code, without a run of their own:

* `score.py:4` says "Scores are in [0, 10]."  Nothing checks that a form is consistent and
  not all formulas are clamped: 1 name and 3 violations of 4.a.1 score -20 in both programs
  (`score.py:320`, `measure_lib.js:417`).  `InRange` on the instance of `score_mirror` finds
  it; `ConsistentInRange` says what a form must satisfy for the claim to hold.
* `measure_lib.js:1` says that it mirrors `score.py`.  On a tie the page rounds up
  (`measure_lib.js:609`) and the command line to even (`score.py:751`): 16 names and 3
  violations of 4.a.1 score exactly 8.125, which is 8.13 on the page and 8.12 on the
  command line.  The instance of `score_mirror` has this form; `MirrorAgrees` allows it.
* The comment at `score.py:289` and `measure.md:396` take one point of 3.b.4 for every 10 %
  over the caches, while the formula (`score.py:290`, and `measure.md:400`) takes all ten
  at 10 %.  `ScoreCommand` has the formula.

## Not modelled, and plan

The corpus is some 280 000 lines of kernels, of which three are modelled; the share of
all lines that the specifications stand for is accordingly below one in a hundred, and
most of the rest is of a kind that a state machine says little about.

Not modelled:

* numeric kernels of one core each (most of `ops-math`, `ops-nn`, `SuperNpuBench`): no
  state, no concurrency the source controls, and real numbers;
* `matmul_all_reduce`: its communication is inside a library;
* of dispatch and combine: quantisation, scales, and the all-gather and reduce-scatter
  over a tensor-parallel pair;
* of flash attention: the numbers, left padding of the keys, a group of one query head,
  shared prefixes, masks and position shifts, block tables, quantisation parameters, the
  tiling that the host chooses (inputs of the run are tilings the kernel accepts), and
  the other kernels of the family (`_dd`, `_mla`, prompt attention), which have pipelines
  of their own;
* source extraction and cache discovery: pure functions of files;
* of the server: static files and `/api/extract`; of the commands, options that name
  one file to read and another to merge into;
* of the page: rendering, weights, exports, and failures of `localStorage`; of
  scoring, forms with buffers without names.

Hazards without a property are listed in `PROJECT.json` with the reason: a full
`localStorage`; an old stamp after a run that stopped; that the later of two answers wins
whichever was asked for first (`report.html:1231`), and that an extraction by the browser
mixes in what is picked while it reads (`report.html:1211`), which the model does and no
text of the repository objects to; and two places of the flash attention kernel (left
padding, more than 16 rows of queries) whose relevance depends on a tiling that is not in
the repository.

The order of the plan, most important first; the first six are done, and of the eighth
what it says.

1. `MoeDispatch` with its invariant, refinement and proofs; `MoeRouting` proofs.
2. `ReportPage`.
3. `Scoring` with both programs.
4. `MoeLayout`, `KernelDownload` and its proof.
5. `MoeCombine` (both kernels in turn) and `MoeReturn` (the round trip of the data).
6. `PreloadPipe` and `FlashPreload` with the proofs of flags and rings; `MeasureStore`.
7. The tensor-parallel pair of dispatch and combine; the file matching of
   `measure_lib.js`; the `_mla` pipeline.
8. Proofs: `BlocksIntact` of `MoeCombine` and the refinement of `AllToAll` by the pair,
   the page, `WrittenInTurn` of `MeasureStore`, the download with `--tag`, all of
   `MoeLayout` and `MoeReturn`, the data of `FlashPreload`, and of `Scoring` that the two
   programs agree and that scores are in range (done); left is `CostOnlyHurts`.
