# Verification of the Twisted Metal host runtime

TLA+ models of the host code that stands in for the PS3 firmware when the
recompiled game runs, the TLC runs that check them and the theorems TLAPS
proves about them. Paths and lines are those of the repository; `PROJECT.json`
maps every definition to the lines it models.

## 1. The system

The game is PowerPC code lifted to C++; its threads are host threads. Whatever
it asks of the firmware (an *import*) reaches a C++ handler. Most handlers are in
a runtime outside the repository; the repository adds the ones below, a boot
program that starts the threads, and the Python tools that prepare the input.

| Component | Code | State it keeps | Operations | What is hard |
|---|---|---|---|---|
| SPURS job queue | `hle_extra.cpp` 2147-2222 | deque of jobs, count per (queue, tag), two condition variables | push, sync, worker loop | pushers, syncers and workers interleave; both notifies come after the unlock; descriptors are read again at the dispatch |
| thread once | `hle_extra.cpp` 37-65 | one guest word | `sys_ppu_thread_once` | the initialiser runs outside the lock and may call it again |
| tasksets and their poll | `hle_extra.cpp` 91-92, 224-272, 1361-1381, 2036-2042 | list of eight, its length | CreateTaskset2, CreateTask2, tick | no lock between creators and ticker; a full list |
| decoder slot, frame ring | `vdec_mf.cpp` | MFT, ring of eight frames, head, tail | open, close, feed, peek, pop, pending | feeder and taker share the ring with no lock, and both store `tail` |
| cellVdec | `vdec_hle.cpp` 90-447 | four slots | OpenEx, StartSeq, EndSeq, Close, DecodeAu, GetPicItem, GetPicture | guest callbacks in the middle of a call, reuse of slots, frames and access units that drift apart |
| cellAdec | `vdec_hle.cpp` 460-574 | four slots | OpenEx, StartSeq, EndSeq, DecodeAu, GetPcmItem, GetPcm, Close | find-then-claim of a slot, handles that are not indices |
| Edge decompressor wait | `hle_extra.cpp` 1755-1943 | request block in guest memory | the wait | output over input, two waiters, a late SPU, an early return |
| Inflate | `tm_inflate.cpp` | the locals of one call | `tm_inflate`, block, code and symbol decoding | lengths that make no code, a stream cut off, matches that overlap, an output that fills up |
| frame pacing | `boot_main.cpp` 246-413 | next tick, flip pending | the ticker's loop | catching up, a present that blocks, one thread for everything |
| watchdog | `boot_main.cpp` 418-529 | none | thread dump | nothing may lock while a thread is suspended |
| guest memory | `boot_main.cpp` 532-562 | committed pages | fault handler | two threads fault at once; the edge of the space |
| boot | `boot_main.cpp` 564-643 | none | main | order of registration |
| import registration | `ppu_hle_nids.cpp` 1122-2238, `hle_extra.cpp` 112-143, `vdec_hle.cpp` 600-629 | the runtime's two tables | four registrations | the first context handler wins, and the tables overlap |
| match-phase overrides | `hle_extra.cpp` 1002-1085, 1546-1717, 2013-2033 | words in guest memory | wrappers round lifted code, ticks | a fixed protocol with the game, three threads |
| force-state overrides | `hle_extra.cpp` 650-856 | one-shot flags | `tm_force_state` | three shots that fall together |
| other imports, traces, ticks | rest of `hle_extra.cpp` | statics for logging | forward or log | nothing |
| tools | `tools/*.py` | files | decrypt, unpack, patch, seed | one pass over files each |

How they interact. The game pushes jobs and waits for them; the workers run SPU
code, which may also create tasks that only the ticker's poll starts. The movie
player opens one video and several audio decoders, feeds them access units from
its demuxer, is called back and fetches pictures. The ticker wakes every
millisecond: it drains the RSX FIFO, runs the ticks (the poll of the tasksets,
the answers the match overrides give), asks for the vblanks that are due and
presents. The watchdog stops all threads, one at a time, every twenty seconds.
All of it reads and writes guest memory that is committed as it is touched.

What makes each of the modelled components correct:

* job queue: a sync returns only when every job pushed before it on its tags has
  finished; no job is lost, run twice or started out of turn; no wake-up is lost.
* once: one start per word, whatever calls overlap or nest; no call hangs, also
  on memory that faults under it and on threads the watchdog stops.
* tasksets: each one the game made is polled, unless its own creation found the
  list full or overlapped another, and the ready tasks of those polled start.
* ring: the feeder never waits; frames come out in order and whole, or it is
  known precisely when not.
* cellVdec: a stream gets its own pictures, in order, and when the call that
  decoded a unit is over no picture waits that PICOUT was not sent for.
* cellAdec: streams share or lose a slot only where two searches for a free one
  meet or a stream goes on with a handle it closed; silence can be fetched.
* Edge wait: a wait that returns leaves the text where the title looks for it,
  and it returns.
* inflate: each symbol has the code RFC 1951 gives it; whatever the stream, no
  table or output is overrun and no text of a stream cut off is returned.
* pacing: a reference waits for one present and one sleep at most, vblanks are
  not owed for long and arrive.
* watchdog, memory, boot: no round hangs; every guest offset is usable; every
  import finds the handler it should.
* match overrides: the bank list stays a list, every wait whose answer is stood
  in for ends, and a forced transition costs one update.

## 2. Modules

| Module | Models | State and actions against the code |
|---|---|---|
| `JobQueueSpec` | the promise in the comment at 2147-2161 | `outstanding` jobs; `awaited` is what a sync was called for and has not seen finish |
| `JobQueue` | `tm_jq_push_job`, `tm_jq_sync`, `tm_jq_worker` | `s_jq_q`, `s_jq_pending` as in the code. A critical section of `s_jq_mx` is one action, so the mutex itself is no variable; a wait set is the set of threads whose pc is `"wait"`. `Push`/`NotifyOne` and `Finish`/`NotifyDone` are the two sides of an unlock |
| `ThreadOnce` | `sys_ppu_thread_once` | `word` is the guest word; `stack[t]` holds the calls thread t is inside, outermost first; `Win`/`Lose` are the locked part, `InitDone` the return of the guest's initialiser |
| `Registry` | the registration of the imports' handlers | `plainOf` and `ctxOf` are the runtime's two tables; `Serves` its lookup. The 1115 rows of the generated table are two sets |
| `Host` | `main`, `vm_commit_veh`, the crash handlers, `hang_watchdog` and `dump_threads` | extends `ThreadOnce` and `Registry`. `boot` is how far main is; `doing` and `need` a thread in a fault, `holder` the stdio/loader lock and `once_lock`, `suspended` the thread the watchdog has stopped. A once call may fault under `once_lock` (`OnceFaults`) and be stopped there |
| `FramePacing` | `vblank_ticker` | each time is kept as what the clock is past a deadline (`due`, `poolDue`), so no clock runs away; `stage` is the place in a pass. `Drain` catches up with all that was put or stops for good at a command (`stalled`), which is what TM_FIFOWATCH looks for at `hle_extra.cpp` 1673-1676 |
| `Tasksets` | CreateTaskset2, CreateTask2, the poll | `g_tasksets`, `g_ntasksets` as in the code; the two stores of line 235 in either order; `ready` and `running` belong to the runtime. `excused` remembers the tasksets whose creation met a full list or overlapped another append |
| `Ticker` | the ticker as a whole | composes `FramePacing` (as an instance) and `Tasksets`: `tm_memdump_tick` calls the poll in the middle of a pass, when 20 ms are over |
| `FrameQueueSpec` | the ring, to a reader | a queue that may lose its oldest |
| `FrameRing` | one slot of `vdec_mf.cpp` | `head`, `tail`, `ring`, `open` as in the code; the feeder's and the taker's program counters split a call at every access to what both use. After the test `next == tail` the compiler may reuse the `tail` it loaded or load it again: `DropOldest` and `PopStore` allow both. A frame is the number of its access unit; `pts` is the number of the one whose time it was stamped with. `overlap` says whether this title's calls overlap |
| `VideoDecoder` | cellVdec | the slot's fields that calls read; `stage` is the callback a call is in. After AUDONE, `AuDone` looks at the ring (329) and `PicOut` stores the item and sends PICOUT (330-334), as two steps, so that another thread may fetch, close or open between them. `told` remembers the pictures in the ring at the last PICOUT, `raced` the decoders opened between the two steps. A failed malloc after a drop leaves a shorter ring (`Rings`). The ring is a sequence, which `FrameRingProofs!ImplementsQueue` and `VideoDecoderProofs!FeedPushesEach` justify as long as ring calls do not overlap |
| `AudioDecoder` | cellAdec | `in_use`, `cb`, `pcm` are the slot's fields (`seq` is written and never read, and is left out); `FindSlot` and `ClaimSlot` the two halves of OpenEx, which those of other streams may overlap. A stream keeps the handle it was last given and calls with it in any order, after its Close and inside callbacks too. `upset` remembers the slots two searches found or a closed handle closed under its holder, `revived` those StartSeq marked in use with no holder |
| `EdgeWait` | `func_0099790C` | `busy` is REQ_BUSY, `buf` and `out` what lies at REQ_BUF and REQ_DST; a copy is two steps, so that another may see half of it. `awake`, `spu` are the title's SPU task |
| `MatchLoad` | the match and force-state overrides | `head`, `next` are BRB's list; `req`, `ack` the session's words, `seen` what the tick read and has not written back; `armed` the shots of `tm_force_state` |
| `Inflate` | `tm_inflate.cpp` | the stream is not a variable: each bit is any bit, or the end. `at` is the place in the code, `dec` the locals of `huff_decode`, which takes a bit per step; extra bits are read at once (`Reads`). A code is a function from symbols to lengths, as `huff_build` gets it, and the array it makes is `Place`. The alphabets, `LEN_BASE` and the other tables are constants |
| `MCJobQueue`, `MCInflate` | nothing | the values of the runs |
| `JobQueueProofs`, `HostProofs`, `TickerProofs`, `FrameRingProofs`, `VideoDecoderProofs`, `AudioDecoderProofs`, `OverrideProofs` (of `MatchLoad` and `EdgeWait`), `InflateProofs` | nothing | theorems, section 4 |

What composes what:

```
ThreadOnce + Registry -> Host             (EXTENDS; Host implements ThreadOnce)
Tasksets + FramePacing -> Ticker          (EXTENDS and INSTANCE)
FrameRing => FrameQueueSpec               (refinement, calls one at a time)
JobQueue => JobQueueSpec                  (refinement)
FrameQueueSpec stands for the ring inside VideoDecoder
```

Operators commented `mutant:` are not part of any model. Each is the definition
below it with a plausible mistake in it, and is there to show that a property
notices.

## 3. Runs

Each cfg is one question. All numbers are small for the sake of TLC and chosen
so that the case in question occurs; the theorems of section 4 lift the safety
properties to every value.

| Run | Bounds (states) | What it shows |
|---|---|---|
| `JobQueue` | 2 guests, 1 queue, 2 tags, 2 descriptors, 2 workers, 2 pushes (75 000) | two guests and two workers are what every race here needs; raw tags 0 and 2 share the count of tag 0 after the mask, and bit 2 of a sync's mask is of no tag. No lost wake-up, every sync whose tags drain returns, and the queue implements `JobQueueSpec`, its fairness too. More queues and pushes make the temporal properties too dear; counts and order for any number are proved |
| `Host` | 2 threads, 1 word, nesting of 2, 2 calls each, 2 pages and the guard page, 1 access or failure besides the once calls, 8 imports of every kind of overlap (218 000) | boot to end: both threads fault on the page of the word, the watchdog stops either at any step, the system may refuse a page, a thread may die |
| `ThreadOnceDone` | 2 threads, 2 words, nesting of 2 | violated: see findings |
| `FrameRing` | ring of 4, 7 units, MFT with delay 1 and capacity 3, all failures, calls that overlap and calls that do not (2.5 million) | the ring wraps round and is full, refused input and failed pulls occur. With overlap: what is left of order and of the picture being copied. Without: a refinement of `FrameQueueSpec` |
| `FrameRingPts` | no delay at all, failures | violated: see findings |
| `VideoDecoder` | 2 slots, ring of 3, 4 units, MFT with delay 1, 2 openings, closing in the middle of calls, all failures (1.8 million) | slots are reused, a call outlives its decoder, the ring drops, with memory for the next frame and without |
| `AudioDecoder` | 3 streams, 2 slots, 4 openings in all (2.9 million) | slots run out and are reused; searches meet; closed handles are restarted, decoded on and closed again, inside callbacks as outside |
| `AudioDecoderPcm` | same | violated: see findings |
| `Ticker` | 1 creator, 2 tasksets, list of 1, 2 creations; vblank every 2, burst of 2, poll every 2, presents of up to 4 and sleeps of 1, timeout of 6 (864 000) | a present and the sleep after it owe more vblanks than a burst pays; passes without a vblank come between two drains; the window is closed; the drain stalls; both render paths; the second taskset finds the list full |
| `EdgeWait` | 2 threads, 1 request used 3 times, in place or not, good, refused or without its fields; every setting of the two switches (1.1 million) | the second submission is what a late answer of the SPU needs, the second thread what two answers of the host need. The text is where it was asked for, unless two answers met on one source |
| `MatchLoad` | 2 banks, every set of the six switches, 4 calls of the title, patience 3, gap 1 (861 000) | a bank that comes back, two sessions with a tick between them, three shots that fall together |
| `Inflate` | bytes 2, codes up to 3 bits, 2 match lengths (2 to 4 bytes) and 2 distance symbols, output of 3, three codes for code lengths (3.5 million) | the fixed code has, like the real one, a refused symbol, unused distance codes and an all-zero end symbol; the dynamic ones come out complete, incomplete and with too many symbols; the output fills up in each kind of block. The number of blocks is not bounded |

`CHECK_DEADLOCK FALSE` is given where a bound on calls ends the behaviours or the
title may simply stop calling. Where it is not given the check says little: a sync,
a stale handle or the ticker can always take another step. That nobody waits for
ever is what the liveness properties say.

### Fairness

* `JobQueue`: weak fairness of each worker's step and of each handler a guest is
  inside. These are host threads, SPU jobs are assumed to end, and nothing is
  assumed of the title's own steps. A sleeping thread is woken by notifies only:
  the spurious wake-ups the C++ standard allows are not fair.
* `Host`: weak for main and the watchdog, which nobody stops; strong for each
  guest thread inside something, because the watchdog disables its steps again
  and again, for moments. Nothing is assumed of what the title begins (`TitleWork`).
* `Ticker`: the ticker runs on (`for (;;)`), and the title's main thread comes to
  an import, which delivers the vblank. The SPUs, the creators, and the exit of a
  task are not fair.
* `EdgeWait`: a waiting thread is scheduled, and so is the SPU's host thread once
  it has work; a signalled SPU task need not take any, nor the title set its flag.
* `MatchLoad`: the main thread and the ticker run on. The mixing driver, the cull
  jobs and everything the title waits for need not ever answer: that is the reason
  for the overrides.

### What the title is assumed to do

* Job queue: it fills a descriptor only when it owns it and has synced the tags
  it was pushed on, the rule the comment at 2153-2154 quotes from the call site.
* Ring: `close` is called when no feed, peek or pop is under way.
* cellVdec: the two calls that run callbacks are made one at a time on a handle.
  A close on another thread right between the look at the ring and the store of the
  item is modelled and excepted from `OwnItem` (`raced`).
* cellAdec: a stream calls with the handle it was last given, open or closed. It has
  one OpenEx and one DecodeAu or EndSeq under way at a time, and opens again only
  after it closed.
* Tasksets: two threads do not create one taskset at the same time, and it is made
  again only where no task is left.
* Edge: a request is submitted again only when it is not busy and nobody waits for
  it. With `shared` FALSE, one wait per submission.
* Host: only the main thread and the title's threads touch guest memory; a once
  call and a stdio call are not made from inside each other's lock.
* Matches: sessions, loads, frames and bank calls are made one at a time on the
  main thread; PATIENCE is longer than two passes of the ticker.

### Findings

1. `ThreadOnceDone`: the word is 1 before the initialiser has run, so a second
   caller goes on too early. The comment has "1 = done", flipped afterwards.
2. `FrameRingPts`: frames are stamped with the pts of the unit being fed, which
   is another one's when an earlier drain stopped short.
3. `AudioDecoderPcm`: `cellAdecGetPcm` tests the raw handle against the number of
   slots and so refuses every handle `OpenEx` gives out.

Seen on the way, where a property or a theorem holds but for an exception it names,
or says less than a comment does. Each of these
shows as a violation when the exception is taken out:

* `hle_extra.cpp` 234, `excused` in `EveryTasksetPolled` and `ReadyTaskStarts`: "every
  taskset the title creates" (91) is the first eight creations. The ninth is made,
  left out of the poll, and a task an SPU makes in it waits for ever. Two creations
  that overlap may leave one out of a list that has room.
* `boot_main.cpp` 336: the drain is to keep references within a millisecond so that
  the title's wait does not time out (297-301), but the thread that drains also
  presents, which may block longer than the title waits. What holds is
  `RefWaitBounded`; with `RefTimeout` in the place of its bound TLC finds it violated
  as soon as one present and the sleep after it may last that long. The live path
  presents only what was flipped.
* `vdec_hle.cpp` 486, `upset` in `StreamsApart`: "handing every caller slot 0 made them
  share state" (483-484), yet two streams that open at the same moment find the same
  slot before either claims it.
* `hle_extra.cpp` 1879, `Clean` in `TextAtReturn`: with TM_SPU_KICK and TM_EDGE_HLE an
  SPU task that is slower than the polls decompresses in place what the host has
  already written there, one thread and one request being enough. The comments have
  the host fall back when the task does not answer (1782-1783) and "the source
  survives being overwritten" (1847): it does not survive for the task.
* `vdec_hle.cpp` 330, `raced` in `OwnItem`: a decoder closed and opened by another
  thread between 329 and 330 is given an item, and a PICOUT, of a unit of the one
  before.
* `vdec_hle.cpp` 514, `revived` in `SlotsHeld`: StartSeq on a closed handle of cellAdec
  marks its slot in use with nobody to close it. A Close on a closed handle (573)
  frees the slot of whoever has it now.

Not stated in any property:

* The lock of `sys_ppu_thread_once` is not held while an initialiser runs, so it
  does not serialise initialisers as its comment says. Holding it would hang
  nested calls, which is what the mutant `LoseWaits` does.
* The picture item describes the unit last announced. It is that of the picture
  fetched next only if the MFT has no delay and the title takes every picture in
  its PICOUT callback.
* Once the window is closed (`rsx_ok = 0`) nothing drains any more, so
  `RefWaitBounded` says "while the window is open"; nor does it speak of what was put
  behind a command the drain will not step over.
* `boot_main.cpp` 316 resyncs when exactly 240 ticks fired, also when that was all
  that was owed: the phase of the vblank moves by less than a period.
* With TM_PACETRACE set the live engine's flips are never taken (322-336).
* `hle_extra.cpp` 1830 returns past the lifted body whose post-processing the
  comment at 1928-1930 says the caller depends on.
* Probes whose comment says "once a second" (`hle_extra.cpp` 1541) count wakes of
  the ticker, which a blocking present stretches.
* TM_ATTRACT's comment (`hle_extra.cpp` 965-970) says "on the nth world
  construction"; the code (977-983) substitutes at every one from the nth on.

### Mutants

Each property of a passing run has one mutant in `PROJECT.json`: an operator
commented `mutant:` with the signature of a definition, put in its place. TLC
then finds the property violated.

## 4. Proofs

For all values of the constants that satisfy the assumptions of the modules. Each
argument is one inductive invariant, checked as named parts.

| Theorem | Says | By |
|---|---|---|
| `JobQueueProofs!StartsInOrder` | `StartedInOrder` | `Ordered`: ids in flight were given out, so a new push is younger than all there are |
| `CountsExact` | `PendingExact` | `Counted`: the jobs in flight are finitely many; the set `InFlight` is followed through each action (`PushFlight`, `PopFlight`, `FinishFlight`) |
| `DescriptorsStable` | `DescriptorStable` | `Stable`: a job in flight is one whose tag its owner has yet to sync; a sync that returns found no job on its tags in flight (`DrainedIsEmpty`) |
| `SyncsWoken`, `JobsWoken` | no lost wake-up | inductive with the types alone; the second compares the sizes of three sets |
| `Implements` | every step is one of `JobQueueSpec` or a stutter | the invariants above and `SinceGiven` |
| `HostProofs!OnceOnly` | one start per word | `Flipped`: a word whose initialiser was started is not 0 |
| `NoneAbandoned` | `RunsOrEnded` | `Placed`: the same, call by call |
| `RunsOnce` | `HostSpec => Spec` of `ThreadOnce` | every step of the host is a once step or leaves the once state alone |
| `OnceOnHost` | both on the host | the two above |
| `TitleServed` | `OverridesServe` | `Registered`: which tables are filled at each stage of main, in its order; needs `RegistryAssumption`, that nobody overrides a context row of the table |
| `OffsetsValid` | `EveryOffsetValid` | a thread lacks only pages up to the guard page |
| `TickerProofs!CaughtUp` | `TicksCaughtUp` | `Behind`: what may be due at each stage of a pass |
| `ReferenceBounded` | `RefWaitBounded` | `Waited`: between two drains lie one present and one sleep |
| `EveryOnePolled` | `EveryTasksetPolled`: the list leaves a taskset out only if its own creation met a full list or overlapped another | `Listing`: a taskset that was not left out has a place below the count and below every length a creation has loaded (`Placed`), so no append that is under way can take it away; one that is being appended by a creation that overlaps none has the list to itself |
| `RunsTasksets` | `TickerSpec => TasksetSpec` | every step of the ticker is a step of the tasksets or leaves them alone |
| `FrameRingProofs!OneDropIsSafe` | `CopySurvivesOneDrop` | `Spared`: where head and tail are relative to the slot being copied, by the number of drops since |
| `NothingLostUntilFull` | `InOrderUntilFull` | `InStep`: pushed is handed plus what the ring holds, slot by slot |
| `NeverBackwards` | `OrderWithoutRace` | `Flow`: units flow one way, MFT to frame in hand to ring to title; `Sorted`: the ring is in order |
| `ImplementsQueue` | `IsFrameQueue` | `Turns`: only one call is inside the ring; the mapping reads the queue from tail to head |
| `VideoDecoderProofs!PicturesAreOwn` | `OwnPictures` | `Lines`: fetched, ring and MFT are one increasing line of units fed since the opening |
| `ItemIsOwn` | `OwnItem` | `OwnUnits` and `Held`: a slot not in use holds no frame, and no other decoding of a slot begins before the call on it is over, so a call that outlives its decoder meets an empty ring at 329 and stores nothing; one that had looked before stores to a decoder that is `raced` |
| `AllAnnounced` | `NoneUnannounced` | inductive with `Held`; a decoding that fills the ring comes to look at it, and whatever happens between its feed and its PICOUT only takes pictures away (`AnnounceStep`) |
| `FeedPushesEach` | a feed that appends all its frames at once leaves the ring that pushing them one by one leaves, and one whose last push dropped a frame and found no memory that ring without its oldest | `NewestPushes`: the newest `RING - 1` of a sequence and one more are one push |
| `AudioDecoderProofs!Apart`, `NoneLost` | `StreamsApart`, `SlotsHeld` | `HeldInv`: a slot that is not `upset` was found by at most one stream and by none while it is held (`FoundByOne`) |
| `OverrideProofs!AlwaysAcknowledged` | `SessionsStart` | `InTime`: what a tick read may be old, but the next tick reads again; hence two gaps |
| `UpdatesGoOn` | `OneUpdatePerShot` | inductive: a shot is spent with the update it takes |
| `BanksStayChained` | `BanksChained`, for up to `STEPS` banks | the set a walk meets is the least one closed under `next` (`NodesClosed`, `NodesLeast`), so an append adds one node to it and an unload takes one away (`Appended`, `Unlinked`); that the walk ends within its limit is the pigeonhole (`EndsAt`) |
| `TextWhereAsked` | `TextAtReturn` | `Answers`, by what became of a request: a request with a place of its own keeps its source (`ApartDone`); one that is decompressed in place has a whole source until the first answer (`Unanswered`) and nobody else at it after (`AnsweredOnce`) |
| `InflateProofs!InTable` | `SymbolInTable` | `Tried`: `index` counts the symbols of the lengths tried and `code` is never below `first`. No assumption that the lengths make a code |
| `RefusesTruncated` | `TruncatedRefused` | `Sound`: no bad bit is pending wherever a block or a literal is decided |
| `SymbolsAreCanonical` | `CodeIsCanonical` | `Numbered`: in the loop of `huff_decode`, `first` is what the shorter codes weigh (the sum of Kraft's inequality, scaled to the length tried), `index` how many they are, and `code` never has all bits set, so it fits the length tried |
| `CompleteCodesGoOn` | `CompleteCodeDecodes` | the same: when the longest length has been tried and refused, the codes weigh less than they have room for |
| `MatchesRepeat` | `MatchRepeats` | induction over the bytes copied: each is the one a distance before it, which was there or was copied |
| `ReadsOneWay` | no code begins another, for any lengths (`OneReading`) | `CodesApart`: between the codes of two symbols in canonical order lies at least the weight of the first |
| `TypeCorrect` in each, `EdgeTypeCorrect`, `OnceTypeCorrect`, `HostTypeCorrect` | the types | |

Two of these need induction over data: how far a walk has come, what a sum over
symbols is, which byte has been copied. The library's induction theorems take an
operator as a parameter, which the provers here cannot instantiate. The proofs use
the least-number principle instead, as a fact about sets: `LeastNumber` follows from
the well-foundedness of < on the naturals, and `Induction` (in `InflateProofs` also
`SubsetInduction`, over a finite set's subsets) from it. A statement about all
numbers is then one about the set of numbers it holds of. What a recursive function
is at each number is stated once (`WalkIs`, `RunningIs`), by showing that a function
with that equation exists.

Only model-checked is everything temporal under fairness, which TLAPS does not
reason about here: `JobFinishes`, `SyncReturns`, the fairness of `KeepsPromise`,
`RoundsEnd`, `OnceReturns`, `ReadyTaskStarts`, `VblankArrives`, `WaitReturns`,
`BankCallsReturn`, `LoadsEnd`. Every other property of a passing run is the
statement of a theorem above. The type invariants are proved too and no run
repeats them. That these hold for all values includes the bounds
the runs put on calls, pushes and submissions, which are constants like the rest.

## 5. Not modelled

* The lifted code: it is not in the repository. Where an override calls it, the
  model has what the override's comments and later code rely on, as external
  definitions. The same holds for the runtime (import dispatch, the SPURS
  scheduler, the GCM emulation), Media Foundation and the SPU tasks.
* In the match overrides: TM_EF_KICK (1719-1737), TM_ATTRACT (971-986) and the heap
  size override (1968-1995), each of which replaces a word or an argument of the
  title's for a diagnosis. TM_FORCESTATE=list only prints.
  Which guest function TM_FORCEWORLD calls is left out; that it is called in place
  of one update is not.
* Imports that store constants or forward to the runtime, trace wrappers and debug
  ticks: no state of their own but counters for the log.
* Dumps in the ticker's loop, and TM_PACETRACE, which is taken to be off.
* Generated tables (`spu_jobs.c`, the rows of `ppu_hle_nids.cpp` beyond the two sets
  they form), POSIX shims, the colour conversion, ciphers and the tools: sequential
  passes over data with no second actor and nothing that outlives them.
* Two hazards the models leave open on purpose, because nothing in the repository
  says what should hold: `close` of a decoder while another thread copies a picture
  of it, and the frames the MFT still has at `EndSeq`.
