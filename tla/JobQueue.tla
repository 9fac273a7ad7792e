------------------------------ MODULE JobQueue ------------------------------
(***************************************************************************)
(* The host's stand-in for the SPURS job queue (cellSpursJq): guest        *)
(* threads push jobs and sync on tags, a pool of host workers runs them.   *)
(*                                                                         *)
(* s_jq_mx is not a variable: each of its critical sections is one action, *)
(* and everything the code does outside it (notify_one, notify_all, the    *)
(* dispatch of a job, the guest's own writes) is an action of its own.  A  *)
(* condition variable is the set of the threads whose pc is "wait".        *)
(***************************************************************************)
EXTENDS Integers, Sequences, FiniteSets, Functions

CONSTANTS
  Guest,        \* guest (PPU) threads
  Queue,        \* guest addresses of job queues
  Job,          \* guest addresses of job descriptors
  Owner,        \* the guest thread that fills each descriptor
  Image,        \* SPU programs a descriptor can name
  NoImage,      \* a descriptor whose binary or size is zero
  NTags,        \* tags of a queue (16)
  RawTag,       \* values a guest passes as a tag
  Mask,         \* values it passes as a mask of tags, as sets of bit numbers
  Requested,    \* TM_JQ_WORKERS
  MaxWorkers,   \* the SPUs there are (6)
  MaxPushes     \* bound of the model: pushes that reach the queue

ASSUME QueueAssumption ==
  /\ IsFiniteSet(Guest)
  /\ Owner \in [Job -> Guest]
  /\ NoImage \notin Image
  /\ NTags \in Nat \ {0}
  /\ RawTag \subseteq Nat
  /\ Mask \subseteq SUBSET Nat
  /\ Requested \in Int
  /\ MaxWorkers \in Nat
  /\ MaxPushes \in Nat

Tag    == 0 .. NTags - 1
Key    == Queue \X Tag
NW     == IF Requested > MaxWorkers THEN MaxWorkers ELSE Requested
Worker == 0 .. NW - 1

\* The item of a push.  id numbers the pushes; the code has no such number.
Item == [id : Nat, jq : Queue, job : Job, tag : Tag, bin : Image]

KeyOf(it) == <<it.jq, it.tag>>

VARIABLES
  s_jq_q,        \* the one FIFO of all the queues
  s_jq_pending,  \* jobs queued or running, for each queue and tag
  wpc,           \* where each worker is in its loop
  it,            \* the item each worker has, while it has one
  gpc,           \* where each guest thread is in a push or a sync
  arg,           \* the arguments of the guest thread's sync
  mem,           \* what each job descriptor says in guest memory
  unsynced,      \* keys each descriptor was pushed on and its owner has not synced
  pushes         \* pushes so far, the next id

workerVars == <<wpc, it>>
guestVars  == <<gpc, arg, mem, unsynced>>
vars == <<s_jq_q, s_jq_pending, workerVars, guestVars, pushes>>

-----------------------------------------------------------------------------
Busy   == {w \in Worker : wpc[w] \in {"popped", "running"}}
Queued == Range(s_jq_q)
Held   == {it[w] : w \in Busy}

\* Every job pushed and not finished.
InFlight == Queued \cup Held

OnKey(k) == {j \in InFlight : KeyOf(j) = k}

\* The predicate of sync: no masked tag of the queue has a job pending.
KeysOf(q, mask) == {q} \X (mask \cap Tag)
DrainedOfQueued(q, mask) ==  \* mutant: running jobs are not counted
  \A j \in Queued : KeyOf(j) \notin KeysOf(q, mask)
Drained(q, mask) == \A k \in KeysOf(q, mask) : s_jq_pending[k] <= 0

-----------------------------------------------------------------------------
Init ==
  /\ s_jq_q = <<>>
  /\ s_jq_pending = [k \in Key |-> 0]
  /\ wpc = [w \in Worker |-> "unborn"]
  /\ it = [w \in Worker |-> <<>>]
  /\ gpc = [g \in Guest |-> "guest"]
  /\ arg = [g \in Guest |-> <<>>]
  /\ mem = [d \in Job |-> NoImage]
  /\ unsynced = [d \in Job |-> {}]
  /\ pushes = 0

\* The guest fills a descriptor; it does not touch one it has not synced.
Fill(g, d, img) ==
  /\ gpc[g] = "guest"
  /\ Owner[d] = g
  /\ unsynced[d] = {}
  /\ mem' = [mem EXCEPT ![d] = img]
  /\ UNCHANGED <<s_jq_q, s_jq_pending, workerVars, gpc, arg, unsynced, pushes>>

\* call_once: the first push of the process starts the workers.
StartWorkers == wpc' = [w \in Worker |-> IF wpc[w] = "unborn" THEN "test" ELSE wpc[w]]

\* The id has no counterpart in the code: it tells one push from the next.
NewItem(q, d, raw) ==
  [id |-> pushes, jq |-> q, job |-> d, tag |-> raw % NTags, bin |-> mem[d]]

Push(g, q, d, raw) ==
  /\ gpc[g] = "guest"
  /\ Owner[d] = g
  /\ mem[d] \in Image
  /\ pushes < MaxPushes
  /\ StartWorkers
  /\ LET new == NewItem(q, d, raw) IN
       /\ s_jq_pending' = [s_jq_pending EXCEPT ![KeyOf(new)] = @ + 1]
       /\ s_jq_q' = Append(s_jq_q, new)
       /\ unsynced' = [unsynced EXCEPT ![d] = @ \cup {KeyOf(new)}]
  /\ gpc' = [gpc EXCEPT ![g] = "notify"]
  /\ pushes' = pushes + 1
  /\ UNCHANGED <<it, arg, mem>>

\* A descriptor with no binary is dropped; the push still returns CELL_OK.
PushNothing(g, d) ==
  /\ gpc[g] = "guest"
  /\ Owner[d] = g
  /\ mem[d] = NoImage
  /\ StartWorkers
  /\ UNCHANGED <<s_jq_q, s_jq_pending, it, guestVars, pushes>>

NotifyNobody(g) ==  \* mutant: the push wakes no worker
  /\ gpc[g] = "notify"
  /\ gpc' = [gpc EXCEPT ![g] = "guest"]
  /\ UNCHANGED <<s_jq_q, s_jq_pending, workerVars, arg, mem, unsynced, pushes>>

\* notify_one, after the lock was released.
NotifyOne(g) ==
  /\ gpc[g] = "notify"
  /\ IF \E w \in Worker : wpc[w] = "wait"
       THEN \E w \in Worker : wpc[w] = "wait" /\ wpc' = [wpc EXCEPT ![w] = "test"]
       ELSE UNCHANGED wpc
  /\ gpc' = [gpc EXCEPT ![g] = "guest"]
  /\ UNCHANGED <<s_jq_q, s_jq_pending, it, arg, mem, unsynced, pushes>>

BeginSync(g, q, mask) ==
  /\ gpc[g] = "guest"
  /\ gpc' = [gpc EXCEPT ![g] = "test"]
  /\ arg' = [arg EXCEPT ![g] = [jq |-> q, mask |-> mask, since |-> pushes]]
  /\ UNCHANGED <<s_jq_q, s_jq_pending, workerVars, mem, unsynced, pushes>>

\* The owner now takes the descriptors pushed on these keys for its own again.
ReturnFromSync(g) ==
  /\ gpc[g] = "test"
  /\ Drained(arg[g].jq, arg[g].mask)
  /\ gpc' = [gpc EXCEPT ![g] = "guest"]
  /\ unsynced' = [d \in Job |-> IF Owner[d] = g
                                  THEN unsynced[d] \ KeysOf(arg[g].jq, arg[g].mask)
                                  ELSE unsynced[d]]
  /\ arg' = [arg EXCEPT ![g] = <<>>]
  /\ UNCHANGED <<s_jq_q, s_jq_pending, workerVars, mem, pushes>>

SleepInSync(g) ==
  /\ gpc[g] = "test"
  /\ ~Drained(arg[g].jq, arg[g].mask)
  /\ gpc' = [gpc EXCEPT ![g] = "wait"]
  /\ UNCHANGED <<s_jq_q, s_jq_pending, workerVars, arg, mem, unsynced, pushes>>

-----------------------------------------------------------------------------
PopBack(w) ==  \* mutant: the newest job is taken
  /\ wpc[w] = "test"
  /\ s_jq_q # <<>>
  /\ it' = [it EXCEPT ![w] = s_jq_q[Len(s_jq_q)]]
  /\ s_jq_q' = SubSeq(s_jq_q, 1, Len(s_jq_q) - 1)
  /\ wpc' = [wpc EXCEPT ![w] = "popped"]
  /\ UNCHANGED <<s_jq_pending, guestVars, pushes>>

Pop(w) ==
  /\ wpc[w] = "test"
  /\ s_jq_q # <<>>
  /\ it' = [it EXCEPT ![w] = Head(s_jq_q)]
  /\ s_jq_q' = Tail(s_jq_q)
  /\ wpc' = [wpc EXCEPT ![w] = "popped"]
  /\ UNCHANGED <<s_jq_pending, guestVars, pushes>>

Sleep(w) ==
  /\ wpc[w] = "test"
  /\ s_jq_q = <<>>
  /\ wpc' = [wpc EXCEPT ![w] = "wait"]
  /\ UNCHANGED <<s_jq_q, s_jq_pending, it, guestVars, pushes>>

\* spu_workload_dispatch_job: the descriptor is read again, from its address.
Dispatch(w) ==
  /\ wpc[w] = "popped"
  /\ wpc' = [wpc EXCEPT ![w] = "running"]
  /\ UNCHANGED <<s_jq_q, s_jq_pending, it, guestVars, pushes>>

FinishUncounted(w) ==  \* mutant: the count stays up
  /\ wpc[w] = "running"
  /\ wpc' = [wpc EXCEPT ![w] = "finished"]
  /\ it' = [it EXCEPT ![w] = <<>>]
  /\ UNCHANGED <<s_jq_q, s_jq_pending, guestVars, pushes>>

\* The job is over; its count goes down under the lock.
Finish(w) ==
  /\ wpc[w] = "running"
  /\ s_jq_pending' = [s_jq_pending EXCEPT ![KeyOf(it[w])] = @ - 1]
  /\ wpc' = [wpc EXCEPT ![w] = "finished"]
  /\ it' = [it EXCEPT ![w] = <<>>]
  /\ UNCHANGED <<s_jq_q, guestVars, pushes>>

NotifyDoneOne(w) ==  \* mutant: notify_one where all must be woken
  /\ wpc[w] = "finished"
  /\ wpc' = [wpc EXCEPT ![w] = "test"]
  /\ IF \E g \in Guest : gpc[g] = "wait"
       THEN \E g \in Guest : gpc[g] = "wait" /\ gpc' = [gpc EXCEPT ![g] = "test"]
       ELSE UNCHANGED gpc
  /\ UNCHANGED <<s_jq_q, s_jq_pending, it, arg, mem, unsynced, pushes>>

\* notify_all, after the lock was released.
NotifyDone(w) ==
  /\ wpc[w] = "finished"
  /\ wpc' = [wpc EXCEPT ![w] = "test"]
  /\ gpc' = [g \in Guest |-> IF gpc[g] = "wait" THEN "test" ELSE gpc[g]]
  /\ UNCHANGED <<s_jq_q, s_jq_pending, it, arg, mem, unsynced, pushes>>

\* A condition variable may wake a thread nobody notified.
SpuriousWorker(w) ==
  /\ wpc[w] = "wait"
  /\ wpc' = [wpc EXCEPT ![w] = "test"]
  /\ UNCHANGED <<s_jq_q, s_jq_pending, it, guestVars, pushes>>

SpuriousGuest(g) ==
  /\ gpc[g] = "wait"
  /\ gpc' = [gpc EXCEPT ![g] = "test"]
  /\ UNCHANGED <<s_jq_q, s_jq_pending, workerVars, arg, mem, unsynced, pushes>>

-----------------------------------------------------------------------------
WorkerStep(w) == Pop(w) \/ Sleep(w) \/ Dispatch(w) \/ Finish(w) \/ NotifyDone(w)

\* What a guest thread does inside the two imports.
ImportStep(g) == NotifyOne(g) \/ ReturnFromSync(g) \/ SleepInSync(g)

\* What the title does between them.
TitleStep(g) ==
  \/ \E d \in Job, img \in Image \cup {NoImage} : Fill(g, d, img)
  \/ \E q \in Queue, d \in Job, raw \in RawTag : Push(g, q, d, raw)
  \/ \E d \in Job : PushNothing(g, d)
  \/ \E q \in Queue, mask \in Mask : BeginSync(g, q, mask)

Next ==
  \/ \E w \in Worker : WorkerStep(w) \/ SpuriousWorker(w)
  \/ \E g \in Guest : ImportStep(g) \/ TitleStep(g) \/ SpuriousGuest(g)

Spec == Init /\ [][Next]_vars

\* The OS schedules every host thread, jobs end, and a handler that has begun
\* goes on; nothing says the title ever calls, or that a wait ends by itself.
Fairness ==
  /\ \A w \in Worker : WF_vars(WorkerStep(w))
  /\ \A g \in Guest : WF_vars(ImportStep(g))

FairSpec == Spec /\ Fairness

-----------------------------------------------------------------------------
SyncArg == [jq : Queue, mask : Mask, since : Nat]

\* The state of the queue, its workers and its callers has the shape the
\* C++ declarations of hle_extra.cpp give it.
TypeOK ==
  /\ s_jq_q \in Seq(Item)
  /\ s_jq_pending \in [Key -> Int]
  /\ wpc \in [Worker -> {"unborn", "test", "wait", "popped", "running", "finished"}]
  /\ it \in [Worker -> Item \cup {<<>>}]
  /\ \A w \in Busy : it[w] \in Item
  /\ gpc \in [Guest -> {"guest", "notify", "test", "wait"}]
  /\ arg \in [Guest -> SyncArg \cup {<<>>}]
  /\ \A g \in Guest : gpc[g] \in {"test", "wait"} => arg[g] \in SyncArg
  /\ mem \in [Job -> Image \cup {NoImage}]
  /\ unsynced \in [Job -> SUBSET Key]
  /\ pushes \in Nat

\* A count in s_jq_pending is the number of jobs of that queue and tag that are
\* queued or running, as the comment on the map says: a count too low lets a
\* sync return over a running job, one too high makes it wait for ever.
PendingExact == \A k \in Key : s_jq_pending[k] = Cardinality(OnKey(k))

\* Jobs leave the deque in the order they were pushed and no job is in two
\* places: what a worker holds is older than what is queued, the queue is in
\* push order, and no two workers hold the same push.
StartedInOrder ==
  /\ \A i, j \in DOMAIN s_jq_q : i < j => s_jq_q[i].id < s_jq_q[j].id
  /\ \A w \in Busy : \A i \in DOMAIN s_jq_q : it[w].id < s_jq_q[i].id
  /\ \A v, w \in Busy : v # w => it[v].id # it[w].id

\* notify_one is called after the lock is released, and a worker may take a job
\* meant for another; still no worker sleeps on while jobs are queued beyond
\* the wake-ups on their way (notify_one calls to come, workers about to test).
Asleep    == {w \in Worker : wpc[w] = "wait"}
Testing   == {w \in Worker : wpc[w] = "test"}
Notifying == {g \in Guest : gpc[g] = "notify"}
WorkersWoken ==
  Asleep = {} \/ Len(s_jq_q) <= Cardinality(Testing) + Cardinality(Notifying)

\* notify_all comes after the unlock too: a guest that sleeps in a sync whose
\* tags are drained has a worker about to wake it.
SyncersWoken ==
  \A g \in Guest :
    gpc[g] = "wait" /\ Drained(arg[g].jq, arg[g].mask)
      => \E w \in Worker : wpc[w] = "finished"

\* The descriptor of a job is read again when the job is dispatched and while
\* it runs: it still says what it said when it was pushed, if the title syncs
\* a tag before it reuses the descriptor (the rule in the comment on the call site).
DescriptorStable == \A j \in InFlight : mem[j.job] = j.bin

\* A pushed job is run to its end, and a sync returns once no more jobs are
\* pushed (here MaxPushes in all): no wake-up is lost to the window between
\* an unlock and its notify.
JobFinishes == \A n \in 0 .. MaxPushes - 1 :
                 (\E j \in InFlight : j.id = n) ~> (\A j \in InFlight : j.id # n)
SyncReturns == \A g \in Guest : gpc[g] \in {"test", "wait"} ~> gpc[g] = "guest"

\* What DescriptorStable and PendingExact rest on: a job in flight has an id
\* already given out, and its descriptor is one its owner may not fill.
IdsGiven == \A j \in InFlight : j.id < pushes
OwedSync == \A j \in InFlight : KeyOf(j) \in unsynced[j.job]

-----------------------------------------------------------------------------
AwaitedBy(g) == IF gpc[g] \in {"test", "wait"}
                  THEN {j \in InFlight : /\ j.id < arg[g].since
                                         /\ KeyOf(j) \in KeysOf(arg[g].jq, arg[g].mask)}
                  ELSE {}

BoundedItem == [id : 0 .. MaxPushes - 1, jq : Queue, job : Job, tag : Tag, bin : Image]

Promise == INSTANCE JobQueueSpec WITH
  Item <- BoundedItem,
  outstanding <- InFlight,
  syncing <- {g \in Guest : gpc[g] \in {"test", "wait"}},
  awaited <- [g \in Guest |-> AwaitedBy(g)]

\* The FIFO, the counts and the two condition variables implement the promise of
\* the comment: sync waits until every job pushed on the masked tags of that
\* queue has finished, and every pushed job does finish.
KeepsPromise == Promise!Spec
KeepsSafePromise == Promise!Init /\ [][Promise!Next]_(Promise!specVars)
=============================================================================
