# Verification of the CS:APP labs

TLA+ models, TLC model checking and TLAPS proofs for the programs of this
repository: the tiny shell (`src/shell/tsh.c`); the cache simulator
(`src/cache/csim.c`), the matrix transpose (`trans.c`) and the harness that measures
it (`test-trans.c`, `tracegen.c`, `cachelab.c`, `driver.py`); and the dynamic memory
allocator with its trace driver (`src/malloc/mm.c`, `memlib.c`, `mdriver.c`). The
three labs share no code; each has its own modules.

    cd tla
    tlc -workers 2 -config TshSignals.cfg MCTsh.tla       # one run
    tlapm TshProofs.tla                                   # one proof module

`PROJECT.json` lists the runs with their modules, the source lines every
definition stands for, the hazards, the findings and the theorems.

## 1. The system

### The shell

*State.* The job table: `jobs[MAXJOBS]`, structs of pid, jid, state and command
line, and `nextjid`. The main loop's locals in `eval`, `do_bgfg` and `waitfg`,
which hold a pid or a pointer into the table across signals. The signal mask,
the pending signals and the handlers that are active. The children, which live
in the kernel.

*Operations.* `main` reads a command; `eval` forks a child with SIGCHLD blocked
and enters it with `addjob`; `do_bgfg` continues a job and marks it; `waitfg`
sleeps until the job it holds is no longer FG; `sigint_handler` and
`sigtstp_handler` forward a key to the foreground job's process group;
`sigchld_handler` collects every status with `waitpid(WNOHANG | WUNTRACED)` and
deletes or marks the job; `sigquit_handler` exits.

*Interaction.* Handlers interrupt the main loop and one another wherever their
signal is not masked, and share the table with it. The table is changed by
`addjob` and `deletejob` with all signals blocked; the writes of `do_bgfg`
and the lookups are not protected. Shell and children exchange signals
through the kernel, which merges SIGCHLDs.

*Hard.* A child that ends before it is in the table; a pointer into the table
that outlives the job; a pid read and then used for `kill`; merged SIGCHLDs; a
full table; a wrap of the job IDs.

*Correct when* the table names exactly the live children, no status is lost, at
most one live job is in the foreground and the main loop waits for it, a key
reaches that job and no other, and the prompt comes back.

### The cache simulator

*State.* The options, the geometry `Config`, an array of sets, each with `E`
lines (valid bit, tag) and an array `lru_queue` of line numbers, and the counts
of hits, misses and evictions.

*Operations.* `parse_input`, `build_config`, `allocate_cache`; `simulate` calls
`ref_mem` once for a load or store and twice for a modify; `ref_mem` hits, fills
the first free line (`update`) or evicts `lru_queue[0]` (`evict_lru`), and in
each case moves the line to the end of the queue (`update_lru_queue`).

*Hard.* It is sequential, but the queue is edited in place by an algorithm with
special cases at its last two entries, and an error shows only many references
later as a wrong count.

*Correct when* the counts are those of least-recently-used replacement.

### The transpose and its harness

*State.* The matrices and the globals of `tracegen` (`M`, `N`, the markers), which lie
in the same small cache. Of the harness: `results` of `test-trans`, and four files of
fixed names in the current directory - `.marker`, `trace.tmp`, `trace.f0`,
`.csim_results` - that every program of the lab writes and no program removes.

*Operations.* `transpose_submit` calls a routine for each of three sizes; each copies
element by element, in blocks, with the diagonal last. `tracegen` writes the marker
addresses, runs the routine between two marker stores and validates the result.
`eval_perf` runs it under valgrind, cuts the trace between the markers, runs the reference
simulator on it and reads the misses. `driver.py` does that for three sizes, takes the first
result line of each and computes the points.

*Hard.* Misses depend on the order of all accesses and on where the linker puts the
globals. An alarm ends `test-trans` anywhere, and its children live on and write
the files of the next test; a child may die or hang; the results of `system` are
half looked at (72) or not at all (142).

*Correct when* the routines fill B for the three sizes within the limits, a test
reports its own misses or none, only a validated function counts as correct, and
the driver gets to its end.

### The allocator and its driver

*State.* `memlib`: an array of bytes and a break. `mm`: the heap in that array -
blocks with a header and a footer (size and allocated bit), and an unordered
doubly linked list through the payloads of the free blocks, whose start is the
only variable outside the heap. `mdriver`: the list of payload ranges in use,
and for each id of a trace the block and its payload size.

*Operations.* `mm_init`, `mm_malloc` (first fit, splits, grows the heap by
`CHUNKSIZE` or more), `mm_free` (coalesces with both neighbours), `mm_realloc`
(stays, grows left, right or both ways, or moves), `mm_check`. The driver runs
`eval_mm_valid` on a trace, and if it finds no fault `eval_mm_util` once and
`eval_mm_speed` many times, each after resetting the break, on memory that is
never cleared.

*Hard.* Long sequences of legal requests; blocks cut and joined in the middle of
the list; overlapping moves; memory full of old tags and pointers; the limit of
the heap.

*Correct when* tags, list and ownership agree after every request, the driver
accepts every answer, and a replay is answered like the first pass.

### Not modelled

* `fcyc.c`, `clock.c` and the interval timers of `ftimer.c`: compiled, and not called,
  since `config.h` selects `gettimeofday`. Of `fsecs` and `ftimer_gettod` the number of
  timed runs is modelled and the time is not.
* `read_trace`, the libc evaluation and the report of `mdriver.c`. A trace is
  chosen request by request while it is served, so that the header a file
  would have always agrees with it.
* `parseline` of `tsh.c`: a command arrives parsed.
* The option parsing and the printing of all programs, and `sigsegv_handler` of
  `test-trans.c`, where no code of the student runs.
* `sdriver.pl`, the traces and the binaries `tshref`, `csim-ref`, `test-csim`: test inputs
  and reference programs. The traces guided what the environment may do.

## 2. Modules

| module | models | extends |
|---|---|---|
| `JobTable` | the job list helpers of tsh.c (`addjob`, `deletejob`, `fgpid`, ...) | |
| `JobList` | the table alone, under every legal sequence of calls | `JobTable` |
| `Tsh` | main loop, handlers, kernel and children | `JobTable` |
| `JobControl` | abstract job control: what a shell promises | |
| `TshProperties` | properties of `Tsh`, its refinement mapping and fairness | `Tsh` |
| `Csim` | csim.c | |
| `LRU` | abstract LRU replacement | |
| `CsimProperties` | `Csim` with a history of last uses, properties, mapping | `Csim` |
| `Trans` | trans.c under tracegen.c, one access of the trace per step | `Csim` (instance `Cache`) |
| `TransProperties` | coverage of the matrices, misses, alignment | `Trans` |
| `TestTrans` | test-trans.c, its children and files, driver.py | |
| `TestTransProperties` | whose results are reported; fairness | `TestTrans` |
| `Memlib` | memory, break, filling and copying | |
| `Mm` | mm.c, as operators from heap to heap | `Memlib` |
| `Mdriver` | the driver's loop over traces and its three passes | `Mm` |
| `Allocator` | abstract allocator: what a program relies on | |
| `MdriverProperties` | properties of the allocator under the driver, mapping to `Allocator` | `Mdriver` |
| `MCJobList`, `MCTsh`, `MCCsim`, `MCTrans`, `MCTestTrans` | symmetry sets, command lines, sizes and layouts for TLC | |
| `JobTableProofs`, `JobListProofs`, `TshProofs`, `CsimProofs`, `TransProofs`, `TestTransProofs`, `MmProofs`, `MdriverProofs` | lemmas and theorems | |

### How the shell's actions correspond to the code

`pc` says where the main loop is; `stack` holds the active handlers, innermost
first, and only the innermost runs. An action is a stretch of code between two
places where a handler may come in between and be noticed: `Eval` ends after
fork with SIGCHLD masked, `AddJob` is one step because all signals are blocked,
`BgfgLookup`, `BgfgCont` and `BgfgSet` are the lookup, the `kill` and the write of
`do_bgfg`, which run unprotected, `ForwardRead` and `ForwardKill` the two halves of
the forwarding handlers, `ChldWait` a successful `waitpid` and `ChldStopped` or
`ChldTerminated` what is then done with its status. `ChldWait` collects any child
that has a status, since `waitpid(-1)` promises no order. Every child of the shell is
in `Pids`; a pid becomes free when it is reaped.

The kernel and the children are the environment. `Change` is the only way a child
moves; a child that stops, ends or continues raises SIGCHLD. `Kill` knows that a child
before `setpgid` is in no group of its own name, that one before `execve` has
the shell's handlers, that SIGINT waits at a stopped process, and that SIGCONT
discards a stop that was not collected. Other processes may kill, stop and
continue any child, which is what `mysplit`, `mystop` and `/bin/kill` in the traces do.

A command is any of: run in foreground or background, `fg`, `bg`, `quit`; the
parser and the printing are left out. A pid argument of `fg` and `bg` is turned into
its jid by the code, so a jid stands for both. An argument that names no job is
refused and changes nothing.

### How the simulator's actions correspond to the code

One action per function of `main`, `phase` for the place in it. A reference is one step;
the second reference of a modify is a step of its own. Arrays are functions.
Addresses are naturals, and shifts and masks are `\div` and `%` by powers of
two. Instruction fetches are skipped by the code and are stuttering here. Calls
that may fail (`malloc`, `fopen`) may fail at any time.

### How the actions of the transpose and its harness correspond to the code

`Trans` composes `transpose_submit` with the simulator: `Load` and `Store` are the two
accesses of one assignment, and each is a `ref_mem` of module `Csim` in the geometry that
`main` of `test-trans.c` asks for. The loops are sequences of elements (`For` the rounds of
a loop, `RowButLast` a row whose diagonal element waits), which `transpose_submit`
concatenates; step `n` takes the n-th. Other accesses of the filtered trace are those to the
markers, `func_list`, `N` and `M` (`Before`, `After`); the stack is filtered out by the code.
An element of A is its own number, so that equal values cannot hide a wrong copy.

`TestTrans` has one action per stretch of `eval_perf` between two uses of a file, and
`sigalrm_handler` may come at any of them. The children are the environment: `sh` truncates
`trace.tmp`, `tracegen` opens and writes `.marker`, valgrind writes the trace in two pieces
of which the marker stores are the ends, `csim-ref` reads `trace.f0` and ends in
`printSummary`. Each may be killed, and csim-ref's failure is the same thing, since its
status is ignored. A child whose `test-trans` has ended goes on (an orphan). The histories `disturbed` and `refused` note what `test-trans` cannot see (an orphan
that writes while a test runs, a failing csim-ref, a killed tracegen whose sh has become it) and a `trace.f0` that
could not be opened. Whether a `sh -c`
runs its command in its own process differs between shells; `shExecs` is either. It decides
what `WEXITSTATUS` makes of a death by a signal, and whether an orphan's `sh` keeps the pipe
open on which `driver.py` waits. A trace is kept as whose it is and whether it
is whole; the count of any trace but a whole one is arbitrary (`OtherMisses`).

### How the allocator's operators correspond to the code

A heap is a record: words, break, list start. Addresses count 4-byte words
from the start of the memory. All block sizes of mm.c are multiples of 8 bytes,
so nothing is lost by counting words, and the minimum of 16 bytes is 4 words (two tags
and two pointers: the Makefile builds with `-m32`). `PACK` is kept as a number
with the allocated bit, macros keep their names, and each branch of `mm_realloc` is an
operator. Where the code dies (`memmove` to the NULL of a failed `mm_malloc`)
the result is the pointer `Fault`. A store outside the memory is dropped by `PUT` where the code would be
killed; only the branch of finding 5 makes one, since it takes user data for pointers.

A request of a trace is one step of `Mdriver`: the allocator's call, the check of the
range, the comparison of the old data after a realloc and the fill are
all part of it. The first pass chooses requests freely and records them in
`trace`; the replays take them from there. `pass` tells which of the three
functions is running. `blocks` keeps NULL for an id that is not allocated, where
the code keeps a pointer it no longer uses.

## 3. Runs

Passing runs:

| run | question |
|---|---|
| `JobList` | Do the table's keys stay usable, and does a pid argument of `fg` and `bg` name its job as long as no job took its jid from a wrapped counter? |
| `TshSignals` | Shell with ctrl-c and ctrl-z: do table and children stay in step, is no status lost, does a forwarded key touch only the awaited job, does the shell survive, is abstract job control implemented? |
| `TshLive` | Is every zombie reaped; does the prompt return when the foreground process has ended, or has stopped? |
| `Csim` | Are the counts those of LRU replacement; are the queues permutations ordered by age? |
| `Trans` | Does each routine transpose its matrix, each element once, within the misses the driver allows? |
| `TestTrans` | Does a test report its own misses, does only a validated function count, does the driver finish, whatever hangs, dies or outlives its test? |
| `Mdriver` | Are tags, list and ownership consistent after every request, is the promise of `Allocator` kept, does the driver accept every answer, does a replay repeat it, and does a request fail only when there is no room? |

Runs that refute what a comment of the code says (section 6): `JobListJid`, `TshGhost`,
`TshCtrlC`, `TestTransSignal`, `MdriverGrowBoth`.

### Bounds and why they are enough

* `JobList`: four structs, four pids, job IDs started up to 7. The counter wraps,
  is raised again by a deletion, and passes the wrap a second time. Two histories follow the wrap:
  `wrapped` (set by it, cleared by a deletion) and `recycled` (a job was added while `wrapped`; cleared
  when the table is empty).
* `TshSignals`: two children and two structs; `JidBound` limits how many
  jobs are started. Two children are what every
  property needs: the job waited for and another one, or two that share a SIGCHLD.
  `KeysAtOnce` is one: a second key is not typed before the handler of the first has
  returned, so that the two forwarding handlers do not nest in this run (the proofs
  of section 4 have no such bound). `SurvivesWithRoom` and `EveryChildListed`
  are about a table with room for every child: with less, a child that found no
  struct makes `sigchld_handler` use the NULL of `getjobpid` (`tsh.c:376`).
* `TshLive`: no symmetry (it is unsound for liveness), no keys: the
  children change state by themselves, and forwarding is covered above.
* `Csim`: eight addresses, up to seven references (`MaxRefs` is tested before a
  line, so a modify may add one). The geometries are one set of three lines, two
  sets of two lines with two-byte blocks, and four direct-mapped sets: the queue's
  special cases at one, two and three entries. A larger `s` is refused by `pow2`.
* `Trans`: the driver's three sizes, one with rows and columns exchanged and two
  small ones, all of which `transpose_submit` leaves alone. The layouts put the small globals
  in one cache block, on one set, and apart.
* `TestTrans`: two tests (`LastTest`), with the limits of the first two: an orphan of
  one and the children of the next are all that meet in a file. The misses of whole
  traces are those that run `Trans` finds; others are 0, which is worth full points,
  or 2500. After the last test the children take no more steps.
* `Mdriver`: 44 words let the heap grow once by its chunk of 20; sizes 0, 1, 3 and 12
  give the refused request, a block of minimum size, one that leaves a rest smaller than a block, and one
  that forces growth; three ids give a block with two neighbours. With six requests every
  branch of `mm_realloc`, `coalesce` and `place` is taken, including the failures.
  Traces of up to four requests (`MaxReplayed`) are replayed by both passes, the second
  one twice (`SpeedRuns`; 10 in the code), and followed by a next trace; longer ones are not, since the recorded trace
  would multiply the states.

### Preconditions

* `Csim`: `InputsAssumption` excludes `-E 0` (the code reads the first entry of an
  empty queue) and `-b` of 64 or more (an undefined shift), and all options are given (an omitted
  one is read uninitialised). `MaxRefs` keeps the counts in an int.
* `Trans`: A and B start at a block boundary, as arrays of this size do in practice; a layout where
  they do not is not checked. The two theorems on misses assume it too (`Aligned`), the others do not.
* `Mdriver`: traces allocate ids in order, reallocate and free only what is
  allocated, like those in the repository. Ids are below 128 (a larger byte read
  back through a signed char is taken for lost data, `mdriver.c:626`). Request sizes are small: `size_t`
  does not wrap.
* One branch of `mm_realloc` destroys the heap (finding 5). The history variable
  `grewBoth` marks traces that have taken it: the state properties of `MdriverProperties` are wrapped in `Sound` and
  say nothing of these, which go no further.

### Fairness

`TshLive` and `TestTrans` assume some (`FairSpec`). `TshLive`: strong fairness of the delivery of
SIGCHLD, of the steps of its handler, of the forwarding handlers and of the main loop
in the middle of a command. The shell is one thread, and a step of the main loop is
disabled whenever a handler is on the stack; strong fairness says that signals
do not arrive so fast that the interrupted code never gets to run, which a
scheduler that lets the thread run at all gives. Nothing is assumed of children,
of the user, or of the prompt: they may stop forever. `StopsEnd` in the properties is
needed because `waitpid` may return the stops of another child again and again: from some point on no
stop is left to be collected. Jobs that have been stopped may stay so.
A poll of `waitfg` that finds the job still FG is a stuttering step.

`TestTrans`: weak fairness of `test-trans` with `driver.py`, and of the alarm, which the kernel
delivers. Nothing is assumed of the children: valgrind and csim-ref may hang. `DriverFinishes`
needs `shExecs`, since a `sh` that waits for a hanging child keeps the pipe open and the
driver waiting.

### Mutants

Each property of a passing run is paired in `PROJECT.json` with a mutated definition -
SIGCHLD not blocked around fork, `waitpid` called once instead of in a
loop, the queue's last entry lost, a footer or a list pointer not written - under
which TLC finds the property violated. The mutated operators stand next to
the originals, with a comment that says so.

## 4. Proofs

`TLAPS` proves the theorems below for every value of the constants allowed by
the named assumptions: tables, sets of pids, caches, memories and traces of any size, matrices of every
size that `tracegen` has room for, in any layout, tests with any misses.

| module | theorems |
|---|---|
| `JobListProofs` | `TypeCorrect`, `KeysStayWellFormed`, `NamesHold` |
| `TshProofs` | `TypeCorrect`, `PidsUnique`, `NoJobStale`, `ForegroundAwaited`, `StatusNotLost`, `OthersAreUndisturbed`, `Refinement`, `OneLiveForeground`, `ChildrenListed`, `SurvivesChildren` |
| `TransProofs` | `TypeCorrect`, `ResultsValid`, `ElementsOnce`, `Misses32x32`, `Misses64x64` |
| `TestTransProofs` | `TypeCorrect`, `Validation`, `Points`, `CrashCause` |
| `CsimProofs` | `TypeCorrect`, `QueuesComplete`, `BlocksCachedOnce`, `QueuesSortedByAge`, `MissesAddUp`, `ModifiesHit`, `Refinement` |
| `MmProofs` | `FindFit`, `Coalesce`, `InitGood`, `MallocGood`, `FreeGood`, `ReallocGood`, `AlikeMalloc`, `AlikeFree`, `AlikeRealloc`, `HeapBlocksIs`, `CheckGood` |
| `MdriverProofs` | `Inductive`, `TypeCorrect`, `AllTagsAgree`, `HeapStaysConsistent`, `FreeListLinkedBothWays`, `AllBlocksOwned`, `ReplaysAnswerAlike`, `UtilizationBounded`, `FailuresOnlyWhenFull`, `PromiseKept` |

**Job table.** `JobTableProofs` has one lemma per helper of tsh.c: what the scans return
(they find a struct if there is one, and it has the key) and what `addjob`, `deletejob` and
`setstate` change. Everything else cites these. `NamesHold` rests on an invariant of two parts: unless
`wrapped`, `nextjid` is above every jid in use (`Fresh`); unless `recycled`, no two jobs share one (`Distinct`).
A job added while `Fresh` holds keeps both, and `deletejob`, which recomputes the counter, restores the first.

**Shell.** `Ind` is the inductive invariant; there is one lemma per action. Its
parts, besides types and `Frames` (the handlers on the stack are exactly those
not idle, each once):

* `Forking`: between fork and `addjob`, SIGCHLD is masked, its handler is idle, and the child is
  alive and not listed. This is what makes `PidUnique` and `NoStaleJob`
  inductive: without the mask the child could be reaped first.
* `Holding`: the struct `do_bgfg` or `waitfg` holds is still the job's, or has been
  cleared; it never belongs to another job, because only the main loop adds jobs.
* `Collected`: what `sigchld_handler` holds between `waitpid` and the update.
* `KillTargets`: a forwarding handler holds no pid or the one waited for. From
  it `OthersUndisturbed` follows for every step.

`StatusNotLost` has its own induction on what the kernel may do (`KernelMove`).
`Refinement` maps the table, read pid by pid, to `JobControl`: `AddJob` starts a job, `BgfgSet` resumes
one, `ChldStopped` suspends it and `ChldTerminated` ends it; the late write of `do_bgfg` into a
cleared struct changes no listed pid and is a stutter. `OneLiveForeground` is proved
from `Ind`, not assumed of the abstract module. `ChildrenListed` assumes that `Pids` is finite and
uses the pigeonhole principle: while a child is unlisted a struct is free. `SurvivesChildren`
follows: `sigchld_handler` finds the job of every child that stops, so it never dereferences NULL.

**Simulator.** The history `last` gives each block the time of its last use. `Ind` says that every queue is
a permutation (`Queues`), no block is cached twice (`Distinct`), queues are
ordered by age with free lines first (`Ordered`), a cached block was used (`Known`), and
a used block that is not cached belongs to a full set and is older than all that
are (`Covered`). From the last one: a block hits if and only if fewer than `E` blocks of
its set were used since, which is the definition in `LRU` (lemma `Recency`, by a
counting argument on the positions of the queue), and so `Refinement`.
`SameCardinality` bridges `Cardinality` and the copy of it that instantiating `LRU` makes.

**Transpose.** For any sizes and any layout of the globals. A recursive function joins the rounds of
a loop (`FlattenSeq`); the lemmas up to `Trans32Is`, `Trans64Is` and `Trans61x67Is` say in which turn
each routine visits which element: `Place32(x, y, r, q)` is the turn of visit `q` to row `r` of block `x, y`, and
`Turn` the column, which is the diagonal one last. From these, `Covers`: every element of the
matrix has a turn, there are as many turns as elements, and no turn leaves the matrix.
`ReferenceIs` says what `ref_mem` does in the geometry of `test-trans`: a reference misses unless its
block is in the cache, brings it there, and touches no other set. `Inv` is the inductive invariant: the types;
`Control` (which places of the program go with which size and which count); `Counted` (hits and
misses are the accesses done so far); `Filled` (the elements whose turn has passed are in their
places in B). At the end every turn has passed, hence `ResultsValid` and `ElementsOnce`.

`Misses32x32` and `Misses64x64` assume `Aligned`, and nothing of where the other globals are: these cost at
most one miss each, and what they evict before the routine was of no use. Two blocks of A and B
share a set only if they are 32 blocks apart (`SetsApart`). `Inv32` gives a bound on
the misses at every visit, and says which blocks are in the cache there, so that the next visit
hits them: the row of A in use, and all rows of B that were stored to, but for the one that the row of A evicts
in a block on the diagonal. A block costs 16 misses, or 23 on the diagonal: 16 * 16 + 4 * 7 + 5 = 289.
`Inv64` has the four small blocks in addition. Off the diagonal the third finds the lower half of
A that the second has read, which is why the routine goes down, right and up: 8, 4, 4 and 4 misses. On the
diagonal they cost 11, 8, 11 and 8: 64 * 20 + 8 * 18 + 5 = 1429.

**Harness.** For one to three tests, any misses of their traces and any number of children
alive. `Typed` adds to the types that a child that traces has opened its file, and what the
status of tracegen is when `test-trans` asks. `Credited`: a result says correct only from
`ReadMarker` on, so its status was that of a success, or sh has become its command; `Validation`
follows. `Sound` says, for an undisturbed test, what the files hold at each place of `eval_perf`
(`InTracegen`, `Traced`, `InCsim`: the pieces written so far, the whole trace, its misses). Orphans may
be alive: they change no file without disturbing the test (`ChildFrame`). From it `Reported`: the assertions of
`test-trans` on `.marker`, `trace.tmp` and `.csim_results` would contradict it, so that a test without a line
is one that could not open `trace.f0` for writing, and the line printed is that of the test's own trace. `Points`
and `CrashCause` follow.

**Allocator.** For any `MAX_HEAP` and any `CHUNKSIZE` that fits. `Good(h, B)` says that `h` is consistent
with blocks at `B`: `Tiled` (prologue, epilogue, and between them blocks whose header and footer
agree, each beginning where the one before ends), `Listed` (the free blocks are linked both ways, and are all on
the list) and that no two free blocks are neighbours. That the list meets every member is said without
induction: only the whole set contains its start and, with each block, its successor. The lemmas go up from there: what a store of one
tag or one link changes (`Link` and `Unlink` on lists, `Replaced` on tilings, when one stretch of the
heap gets other blocks), `coalesce` (four cases), `place`, `extend_heap`, and each branch of
`mm_realloc`. Each theorem on a request says what blocks there are afterwards (`Becomes`) and that
every other allocated block keeps its size and its words (`Kept`).

`ReallocGood` leaves out one branch (`SplitsBoth`, finding 5) and proves all others; in these the only bad end is
that of `Faults`, the unchecked NULL of `mm_malloc`, and it needs a full heap.

`find_fit` and the walks of `mm_check` are recursive functions. What they return is proved without the
library's induction theorems. That a function as `find_fit` defines it exists is shown by one (where the set of pointers
reached from a pointer has a fit); then, if no block with the value of the start fits, these blocks
are closed under the successor, hence all, and the value is the NULL behind the last. The
walk over the heap reaches in `n` steps every block up to address `4 + 4 n`: otherwise there would be
a least `n` for which it does not.

`Alike(h, g, B, F)`: two heaps with equal tags and equal list links, whose payloads may differ.
`AlikeMalloc`, `AlikeFree` and `AlikeRealloc` say that the allocator never looks at a payload: it
answers the same in both and leaves them alike. That is why a replay on memory full of the words
of earlier passes repeats the first pass (`ReplaysAnswerAlike`).

**Driver.** `IInv` is the inductive invariant of the three passes. Its parts: `CountersOK` and
`HoldingsOK` (the types, in two halves); `Counted` (the place in the trace and its length); `Consistent` (the heap is,
unless the trace destroyed it); `Owning` (each id in use has an allocated block of its own that is
large enough, and no other block is allocated); `Recording` (in the first pass there is a sequence of heaps, from
`mm_init` to the present one, through which the trace was answered); `Replay` (in the others
the heap is alike the one of that sequence at the same request); `Counting` (the payload total is the number
of words in use, and its maximum is within the heap); `Proceeding` (a replay does not fail). The heaps of the
sequence are quantified, not a variable: no history is added to the model. That the next recorded request is
legal in a replay, and that it is granted, follows from `Replay` only.

`PromiseKept` proves that the driver implements `Allocator`, for payloads with their words: a request
of one id disturbs no payload of another, a realloc keeps the common prefix, and a replay, in
which the driver compares nothing, keeps the promise as well. It needs a second invariant, `Judging`:
in the first pass the range list is that of the blocks in use, and their words are what the driver filled
in, so that its verdict is never a complaint about an answer. `eval_mm_valid` reads the
old data through a signed char, so this holds for ids with a low byte below 128 (`SmallIds`,
the hypothesis of the theorem, `mdriver.c:626`).

### What is only model-checked

* Liveness (`ZombiesReaped`, `PromptReturns`, `StopReleasesPrompt`, `DriverFinishes`): fairness and
  ENABLED are beyond the prover.
* `MissesWithinLimits` for 61x67, whose rows begin anywhere in a block and whose conflicts follow no
  pattern that a bound per block could use: TLC counts them access by access. So it does the exact number of
  misses (1427 to 1429) for 64x64, of which the theorem gives the upper end.
* The five refuted properties, by their counterexamples.

## 5. What the project shows

* The protection of `eval` (SIGCHLD blocked around fork, everything around `addjob`) is
  right: no dead job stays in the table, in any interleaving.
* The two-step forwarding of keys is right, although pid and table may part in between: it
  never hits a process that is not waited for.
* The shell implements job control, as far as live children are concerned,
  whatever signals arrive; what goes wrong is in structs of dead jobs, in
  duplicate job IDs and in the windows named below.
* The simulator's queue is exact LRU for every geometry and every trace.
* The transpose routines are right for the three sizes in every layout, and every element is touched once.
  With aligned arrays 32x32 and 64x64 never miss more than 289 and 1429 times; 61x67 is within the driver's
  limit in the layouts checked. The 1427 misses of `trans.c:64` are exact, or one or two short by layout.
* The harness reports a test's own misses if the test was not disturbed: no orphan of an earlier
  one wrote to a file while it ran, its csim-ref did not fail, and a death of its tracegen was seen by sh.
  Files left behind, the alarm and orphans that do not write make no difference. A disturbed test may report
  anything. It may end the driver without any points, and so may one that cannot open `trace.f0` for writing;
  otherwise none of the four assertions of `test-trans` fails.
* The allocator is right for every memory, chunk size and trace, up to a realloc that splits a
  block grown both ways: nothing leaks or overlaps, data survive, also the payloads that
  the driver does not look at, and what a replay is answered does not depend on what the memory held.

## 6. Findings

1. `JobListJid`: `nextjid` wraps to 1 without a look at the table (`tsh.c:471`), and a deletion may
   have raised it past MAXJOBS before: two jobs share a jid, and `fg PID`, which
   goes through the jid, reaches the other one.
2. `TshGhost`: `do_bgfg` writes FG into a struct that `sigchld_handler` has cleared (`tsh.c:336`). The next
   foreground job makes two FG structs and `fgpid` may return 0.
3. `TshCtrlC`: only the child calls `setpgid` (`tsh.c:185`); a ctrl-c before that, or before `execve`, is lost.
4. `TestTransSignal`: `WEXITSTATUS` without `WIFEXITED` (`test-trans.c:72`): a tracegen that a signal ended,
   as an out-of-bounds transpose would be, passes for validated under a `sh` that runs its
   command in its own process, and a cut trace is measured.
5. `MdriverGrowBoth`: `mm_realloc` into both neighbours with a rest (`mm.c:181-183`) links user data
   into the free list.

Limits that the passing properties state in their hypotheses: with a full table a child that
found no struct stops, and the NULL of `getjobpid` is dereferenced (`SurvivesWithRoom`
has room); `do_bgfg` writes FG after SIGCONT, and if the job has stopped again in between the
handler's ST is overwritten and `waitfg` polls a stopped job (`StopReleasesPrompt` leaves that
window out, and no property covers it); an orphan's writes and a failing csim-ref falsify a result (`PointsAreEarned`
calls the test disturbed); a `sh` that waits defeats the alarm (`DriverFinishes`); a request may fail although
fewer words than `CHUNKSIZE` are left and would do (`FailsOnlyWhenFull`).

## 7. Plan

Order of the work, most important behaviour first; 1 to 9 are done.

1. Shell: `JobTable`, `JobList`, `Tsh`, `JobControl`, their runs.
2. Proofs of the shell: table lemmas, `Ind`, the refinement, survival.
3. Simulator: `Csim`, `LRU`, runs, proofs of all safety properties and of the refinement.
4. Allocator and driver: `Memlib`, `Mm`, `Mdriver`, runs.
5. The transpose on the simulator's cache, and the harness of the cache lab: `Trans`, `TestTrans`.
6. `Allocator`, the abstract specification that `Mdriver` implements.
7. Proofs about `TestTrans`: its types and its three safety properties.
8. Proofs about `Mm` and `Mdriver`: the lists and tilings, every request, replays, and the refinement
   of `Allocator`.
9. Proofs about `Trans`: the result, the accesses, and the misses of 32x32 and 64x64.
10. `read_trace` (operations are stored before their number is compared with the header's,
   `mdriver.c:522`), `parseline`, and the width of `size_t` in `AdjustedSize`, `extend_heap` and `mem_sbrk`.
