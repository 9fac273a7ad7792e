--------------------------- MODULE JobQueueProofs ---------------------------
(***************************************************************************)
(* The invariants of JobQueue for every number of guest threads, workers,  *)
(* queues, tags, descriptors and pushes.                                   *)
(***************************************************************************)
EXTENDS JobQueue, FiniteSetTheorems, SequenceTheorems, TLAPS

USE DEF workerVars, guestVars

\* The tag of a push, raw & 15 in the code, is a tag of the queue.
LEMMA TagInRange == ASSUME NEW raw \in RawTag PROVE raw % NTags \in Tag
  BY QueueAssumption DEF Tag

LEMMA NewItemType ==
  ASSUME TypeOK, NEW q \in Queue, NEW d \in Job, NEW raw \in RawTag, mem[d] \in Image
  PROVE  /\ NewItem(q, d, raw) \in Item
         /\ KeyOf(NewItem(q, d, raw)) \in Key
  BY TagInRange DEF TypeOK, NewItem, Item, KeyOf, Key

LEMMA KeyOfType == ASSUME NEW j \in Item PROVE KeyOf(j) \in Key
  BY DEF Item, KeyOf, Key

\* TypeOK is preserved by every action.
THEOREM TypeCorrect == Spec => []TypeOK
<1>1. Init => TypeOK
  BY DEF Init, TypeOK, Busy
<1>2. TypeOK /\ [Next]_vars => TypeOK'
  <2> SUFFICES ASSUME TypeOK, [Next]_vars PROVE TypeOK'
    OBVIOUS
  <2>1. ASSUME NEW g \in Guest, NEW d \in Job, NEW img \in Image \cup {NoImage}, Fill(g, d, img)
        PROVE  TypeOK'
    BY <2>1 DEF TypeOK, Fill, Busy
  <2>2. ASSUME NEW g \in Guest, NEW q \in Queue, NEW d \in Job, NEW raw \in RawTag,
               Push(g, q, d, raw)
        PROVE  TypeOK'
    <3>1. NewItem(q, d, raw) \in Item /\ KeyOf(NewItem(q, d, raw)) \in Key
      BY <2>2, NewItemType DEF Push
    <3>2. s_jq_q' \in Seq(Item)
      BY <2>2, <3>1, AppendProperties DEF TypeOK, Push
    <3>3. s_jq_pending' \in [Key -> Int] /\ unsynced' \in [Job -> SUBSET Key]
      BY <2>2, <3>1 DEF TypeOK, Push
    <3>4. Busy' = Busy /\ wpc' \in [Worker -> {"unborn", "test", "wait", "popped", "running", "finished"}]
      BY <2>2 DEF TypeOK, Push, StartWorkers, Busy
    <3>5. QED
      BY <2>2, <3>2, <3>3, <3>4 DEF TypeOK, Push
  <2>3. ASSUME NEW g \in Guest, NEW d \in Job, PushNothing(g, d)
        PROVE  TypeOK'
    BY <2>3 DEF TypeOK, PushNothing, StartWorkers, Busy
  <2>4. ASSUME NEW g \in Guest, NEW q \in Queue, NEW mask \in Mask, BeginSync(g, q, mask)
        PROVE  TypeOK'
    BY <2>4 DEF TypeOK, BeginSync, SyncArg, Busy
  <2>5. ASSUME NEW g \in Guest, NotifyOne(g)
        PROVE  TypeOK'
    BY <2>5 DEF TypeOK, NotifyOne, Busy
  <2>6. ASSUME NEW g \in Guest, ReturnFromSync(g)
        PROVE  TypeOK'
    BY <2>6 DEF TypeOK, ReturnFromSync, Busy
  <2>7. ASSUME NEW g \in Guest, SleepInSync(g) \/ SpuriousGuest(g)
        PROVE  TypeOK'
    BY <2>7 DEF TypeOK, SleepInSync, SpuriousGuest, Busy
  <2>8. ASSUME NEW w \in Worker, Pop(w)
        PROVE  TypeOK'
    <3>1. Head(s_jq_q) \in Item /\ Tail(s_jq_q) \in Seq(Item)
      BY <2>8, HeadTailProperties DEF TypeOK, Pop
    <3>2. QED
      BY <2>8, <3>1 DEF TypeOK, Pop, Busy
  <2>9. ASSUME NEW w \in Worker, Sleep(w) \/ Dispatch(w) \/ SpuriousWorker(w)
        PROVE  TypeOK'
    BY <2>9 DEF TypeOK, Sleep, Dispatch, SpuriousWorker, Busy
  <2>10. ASSUME NEW w \in Worker, Finish(w)
        PROVE  TypeOK'
    <3>1. KeyOf(it[w]) \in Key
      BY <2>10, KeyOfType DEF TypeOK, Finish, Busy
    <3>2. QED
      BY <2>10, <3>1 DEF TypeOK, Finish, Busy
  <2>11. ASSUME NEW w \in Worker, NotifyDone(w)
        PROVE  TypeOK'
    BY <2>11 DEF TypeOK, NotifyDone, Busy
  <2>12. CASE UNCHANGED vars
    BY <2>12 DEF TypeOK, vars, Busy
  <2>13. QED
    BY <2>1, <2>2, <2>3, <2>4, <2>5, <2>6, <2>7, <2>8, <2>9, <2>10, <2>11, <2>12
    DEF Next, WorkerStep, ImportStep, TitleStep
<1>3. QED
  BY <1>1, <1>2, PTL DEF Spec

-----------------------------------------------------------------------------
(* What the ends of a deque do to the set of its elements.                 *)

LEMMA RangeSeq ==
  ASSUME NEW S, NEW s \in Seq(S)
  PROVE  Range(s) = {s[i] : i \in 1 .. Len(s)} /\ Range(s) \subseteq S
  BY LenProperties DEF Range

LEMMA RangeAppend ==
  ASSUME NEW S, NEW s \in Seq(S), NEW e \in S
  PROVE  Range(Append(s, e)) = Range(s) \cup {e}
<1> DEFINE t == Append(s, e)
<1>1. /\ t \in Seq(S) /\ Len(t) = Len(s) + 1 /\ Len(s) \in Nat
      /\ \A i \in 1 .. Len(s) : t[i] = s[i]
      /\ t[Len(s) + 1] = e
  BY AppendProperties, LenProperties
<1>2. Range(t) = {t[i] : i \in 1 .. Len(t)} /\ Range(s) = {s[i] : i \in 1 .. Len(s)}
  BY <1>1, RangeSeq
<1> HIDE DEF t
<1>3. ASSUME NEW x \in Range(t) PROVE x \in Range(s) \cup {e}
  <2>1. PICK i \in 1 .. Len(s) + 1 : x = t[i]
    BY <1>1, <1>2
  <2>2. CASE i = Len(s) + 1
    BY <1>1, <2>1, <2>2
  <2>3. CASE i \in 1 .. Len(s)
    BY <1>1, <1>2, <2>1, <2>3
  <2>4. QED
    BY <1>1, <2>2, <2>3
<1>4. ASSUME NEW x \in Range(s) \cup {e} PROVE x \in Range(t)
  <2>1. 1 .. Len(s) \subseteq 1 .. Len(t) /\ Len(s) + 1 \in 1 .. Len(t)
    BY <1>1
  <2>2. CASE x = e
    BY <1>1, <1>2, <2>1, <2>2
  <2>3. CASE x \in Range(s)
    BY <1>1, <1>2, <2>1, <2>3
  <2>4. QED
    BY <2>2, <2>3
<1>5. QED
  BY <1>3, <1>4 DEF t

LEMMA RangeTail ==
  ASSUME NEW S, NEW s \in Seq(S), s # <<>>
  PROVE  Range(s) = Range(Tail(s)) \cup {Head(s)}
<1> DEFINE t == Tail(s)
<1>1. /\ t \in Seq(S) /\ Len(t) = Len(s) - 1 /\ Len(s) \in Nat \ {0}
      /\ \A i \in 1 .. Len(t) : t[i] = s[i + 1]
      /\ Head(s) = s[1]
  BY HeadTailProperties, EmptySeq
<1>2. Range(t) = {t[i] : i \in 1 .. Len(t)} /\ Range(s) = {s[i] : i \in 1 .. Len(s)}
  BY <1>1, RangeSeq
<1> HIDE DEF t
<1>3. ASSUME NEW x \in Range(s) PROVE x \in Range(t) \cup {Head(s)}
  <2>1. PICK i \in 1 .. Len(s) : x = s[i]
    BY <1>2
  <2>2. CASE i = 1
    BY <1>1, <2>1, <2>2
  <2>3. CASE i # 1
    <3>1. i - 1 \in 1 .. Len(t) /\ t[i - 1] = s[(i - 1) + 1]
      BY <1>1, <2>3
    <3>2. QED
      BY <1>2, <2>1, <3>1
  <2>4. QED
    BY <2>2, <2>3
<1>4. ASSUME NEW x \in Range(t) \cup {Head(s)} PROVE x \in Range(s)
  <2>1. \A i \in 1 .. Len(t) : i + 1 \in 1 .. Len(s)
    BY <1>1
  <2>2. CASE x = Head(s)
    BY <1>1, <1>2, <2>2
  <2>3. CASE x \in Range(t)
    BY <1>1, <1>2, <2>1, <2>3
  <2>4. QED
    BY <2>2, <2>3
<1>5. QED
  BY <1>3, <1>4 DEF t

-----------------------------------------------------------------------------
(* What each action does to the set of jobs in flight.                     *)

LEMMA BusyItem == ASSUME TypeOK, NEW w \in Busy PROVE it[w] \in Item /\ it[w] \in InFlight
  BY DEF TypeOK, Busy, InFlight, Held

LEMMA QueuedItem ==
  ASSUME TypeOK
  PROVE  /\ Queued = {s_jq_q[i] : i \in 1 .. Len(s_jq_q)}
         /\ Queued \subseteq Item
         /\ DOMAIN s_jq_q = 1 .. Len(s_jq_q)
         /\ Len(s_jq_q) \in Nat
<1>1. s_jq_q \in Seq(Item)
  BY DEF TypeOK
<1>2. DOMAIN s_jq_q = 1 .. Len(s_jq_q) /\ Len(s_jq_q) \in Nat
  BY <1>1, LenProperties
<1>3. Range(s_jq_q) = {s_jq_q[i] : i \in 1 .. Len(s_jq_q)} /\ Range(s_jq_q) \subseteq Item
  BY <1>1, RangeSeq
<1>4. QED
  BY <1>2, <1>3 DEF Queued

LEMMA FlightItem == ASSUME TypeOK, NEW j \in InFlight PROVE j \in Item /\ KeyOf(j) \in Key
  BY BusyItem, QueuedItem, KeyOfType DEF InFlight, Held

LEMMA PushFlight ==
  ASSUME TypeOK, NEW g \in Guest, NEW q \in Queue, NEW d \in Job, NEW raw \in RawTag,
         Push(g, q, d, raw)
  PROVE  InFlight' = InFlight \cup {NewItem(q, d, raw)}
<1> DEFINE new == NewItem(q, d, raw)
<1>1. new \in Item /\ s_jq_q' = Append(s_jq_q, new)
  BY NewItemType DEF Push
<1>2. Queued' = Queued \cup {new}
  BY <1>1, RangeAppend DEF TypeOK, Queued
<1>3. Held' = Held
  <2>1. Busy' = Busy
    BY DEF TypeOK, Push, StartWorkers, Busy
  <2>2. QED
    BY <2>1 DEF Push, Held
<1>4. QED
  BY <1>2, <1>3 DEF InFlight

LEMMA PopFlight ==
  ASSUME TypeOK, NEW w \in Worker, Pop(w)
  PROVE  /\ InFlight' = InFlight
         /\ Busy' = Busy \cup {w}
         /\ it'[w] = s_jq_q[1]
         /\ \A v \in Busy : v # w /\ it'[v] = it[v]
         /\ Len(s_jq_q) >= 1
         /\ Len(s_jq_q)' = Len(s_jq_q) - 1
         /\ \A i \in 1 .. Len(s_jq_q) - 1 : s_jq_q'[i] = s_jq_q[i + 1]
<1>1. /\ Tail(s_jq_q) \in Seq(Item)
      /\ Len(Tail(s_jq_q)) = Len(s_jq_q) - 1
      /\ \A i \in 1 .. Len(Tail(s_jq_q)) : Tail(s_jq_q)[i] = s_jq_q[i + 1]
      /\ Head(s_jq_q) = s_jq_q[1]
      /\ Len(s_jq_q) \in Nat \ {0}
  BY HeadTailProperties, EmptySeq DEF TypeOK, Pop
<1>2. Busy' = Busy \cup {w} /\ w \notin Busy
  BY DEF TypeOK, Pop, Busy
<1>3. it'[w] = s_jq_q[1] /\ \A v \in Busy : v # w /\ it'[v] = it[v]
  BY <1>1, <1>2 DEF TypeOK, Pop, Busy
<1>4. Held' = Held \cup {s_jq_q[1]}
  BY <1>2, <1>3 DEF Held
<1>5. Queued = {s_jq_q[1]} \cup Queued'
  BY <1>1, RangeTail DEF TypeOK, Pop, Queued
<1>6. QED
  BY <1>1, <1>2, <1>3, <1>4, <1>5 DEF Pop, InFlight

\* Actions that move no job leave the set alone.
LEMMA SameFlight ==
  ASSUME TypeOK, UNCHANGED <<s_jq_q, it>>, Busy' = Busy
  PROVE  InFlight' = InFlight
  BY DEF InFlight, Queued, Held

LEMMA StillFlight ==
  ASSUME TypeOK,
         \/ \E g \in Guest, d \in Job, img \in Image \cup {NoImage} : Fill(g, d, img)
         \/ \E g \in Guest, d \in Job : PushNothing(g, d)
         \/ \E g \in Guest, q \in Queue, mask \in Mask : BeginSync(g, q, mask)
         \/ \E g \in Guest : ImportStep(g) \/ SpuriousGuest(g)
         \/ \E w \in Worker : \/ Sleep(w) \/ Dispatch(w) \/ NotifyDone(w)
                              \/ SpuriousWorker(w)
         \/ UNCHANGED vars
  PROVE  InFlight' = InFlight /\ UNCHANGED <<s_jq_q, it, s_jq_pending, pushes>> /\ Busy' = Busy
<1>1. UNCHANGED <<s_jq_q, it, s_jq_pending, pushes>>
  BY DEF Fill, PushNothing, BeginSync, ImportStep, NotifyOne, ReturnFromSync, SleepInSync,
         SpuriousGuest, Sleep, Dispatch, NotifyDone, SpuriousWorker, vars
<1>2. Busy' = Busy
  BY DEF Fill, PushNothing, StartWorkers, BeginSync, ImportStep, NotifyOne, ReturnFromSync,
         SleepInSync, SpuriousGuest, Sleep, Dispatch, NotifyDone, SpuriousWorker, vars,
         Busy, TypeOK
<1>3. QED
  BY <1>1, <1>2, SameFlight

-----------------------------------------------------------------------------
(* Each push is in one place, and in the order of the pushes.              *)

Ordered == StartedInOrder /\ IdsGiven

LEMMA FinishFlight ==
  ASSUME TypeOK, Ordered, NEW w \in Worker, Finish(w)
  PROVE  /\ w \in Busy /\ it[w] \in InFlight
         /\ Busy' = Busy \ {w}
         /\ \A v \in Busy' : it'[v] = it[v]
         /\ InFlight' = InFlight \ {it[w]}
<1>1. w \in Busy /\ it[w] \in InFlight /\ it[w] \in Item
  BY BusyItem DEF Finish, Busy
<1>2. Busy' = Busy \ {w} /\ \A v \in Busy' : it'[v] = it[v]
  BY DEF TypeOK, Finish, Busy
<1>3. Queued' = Queued
  BY DEF Finish, Queued
<1>4. it[w] \notin Queued
  <2>1. \A i \in 1 .. Len(s_jq_q) : it[w].id < s_jq_q[i].id /\ it[w].id \in Nat
    BY <1>1, QueuedItem DEF Ordered, StartedInOrder, Item
  <2>2. QED
    BY <2>1, QueuedItem
<1>5. \A v \in Busy' : it[v] # it[w]
  BY <1>1, <1>2 DEF Ordered, StartedInOrder
<1>6. QED
  BY <1>1, <1>2, <1>3, <1>4, <1>5 DEF InFlight, Held

LEMMA OrderedStep == TypeOK /\ Ordered /\ [Next]_vars => Ordered'
<1> SUFFICES ASSUME TypeOK, Ordered, [Next]_vars PROVE Ordered'
  OBVIOUS
<1> USE DEF Ordered
<1>1. ASSUME InFlight' = InFlight, UNCHANGED <<s_jq_q, it, pushes>>, Busy' = Busy
      PROVE  Ordered'
  BY <1>1 DEF StartedInOrder, IdsGiven
<1>2. ASSUME NEW g \in Guest, NEW q \in Queue, NEW d \in Job, NEW raw \in RawTag,
             Push(g, q, d, raw)
      PROVE  Ordered'
  <2> DEFINE new == NewItem(q, d, raw)
  <2>1. /\ new \in Item /\ new.id = pushes /\ pushes \in Nat /\ pushes' = pushes + 1
        /\ s_jq_q' = Append(s_jq_q, new) /\ it' = it
    BY <1>2, NewItemType DEF Push, NewItem, TypeOK
  <2>2. InFlight' = InFlight \cup {new}
    BY <1>2, PushFlight
  <2>3. Busy' = Busy
    BY <1>2 DEF TypeOK, Push, StartWorkers, Busy
  <2>4. /\ DOMAIN s_jq_q' = 1 .. Len(s_jq_q) + 1
        /\ \A i \in 1 .. Len(s_jq_q) : s_jq_q'[i] = s_jq_q[i] /\ s_jq_q[i] \in InFlight
        /\ s_jq_q'[Len(s_jq_q) + 1] = new
    <3>1. \A i \in 1 .. Len(s_jq_q) : s_jq_q[i] \in InFlight
      BY QueuedItem DEF InFlight
    <3>2. QED
      BY <2>1, <3>1, AppendProperties, LenProperties DEF TypeOK
  <2> HIDE DEF new
  <2>5. IdsGiven'
    <3>1. \A j \in InFlight : j.id < pushes /\ j.id \in Nat
      BY FlightItem DEF IdsGiven, Item
    <3>2. QED
      BY <2>1, <2>2, <3>1 DEF IdsGiven
  <2>6. \A j \in InFlight : j.id < new.id
    BY <2>1 DEF IdsGiven
  <2>7. \A i, j \in DOMAIN s_jq_q' : i < j => s_jq_q'[i].id < s_jq_q'[j].id
    <3> SUFFICES ASSUME NEW i \in 1 .. Len(s_jq_q) + 1, NEW j \in 1 .. Len(s_jq_q) + 1, i < j
                 PROVE  s_jq_q'[i].id < s_jq_q'[j].id
      BY <2>4
    <3>1. i \in 1 .. Len(s_jq_q)
      BY QueuedItem
    <3>2. CASE j \in 1 .. Len(s_jq_q)
      BY <2>4, <3>1, <3>2, QueuedItem DEF StartedInOrder
    <3>3. CASE j = Len(s_jq_q) + 1
      BY <2>4, <2>6, <3>1, <3>3
    <3>4. QED
      BY <3>2, <3>3, QueuedItem
  <2>8. \A v \in Busy' : \A i \in DOMAIN s_jq_q' : it'[v].id < s_jq_q'[i].id
    <3> SUFFICES ASSUME NEW v \in Busy, NEW i \in 1 .. Len(s_jq_q) + 1
                 PROVE  it[v].id < s_jq_q'[i].id
      BY <2>1, <2>3, <2>4
    <3>1. CASE i \in 1 .. Len(s_jq_q)
      BY <2>4, <3>1, QueuedItem DEF StartedInOrder
    <3>2. CASE i = Len(s_jq_q) + 1
      BY <2>4, <2>6, <3>2, BusyItem
    <3>3. QED
      BY <3>1, <3>2, QueuedItem
  <2>9. QED
    BY <2>1, <2>3, <2>5, <2>7, <2>8 DEF StartedInOrder
<1>3. ASSUME NEW w \in Worker, Pop(w) PROVE Ordered'
  <2>1. /\ InFlight' = InFlight /\ Busy' = Busy \cup {w} /\ it'[w] = s_jq_q[1]
        /\ \A v \in Busy : v # w /\ it'[v] = it[v]
        /\ Len(s_jq_q) >= 1
        /\ \A i \in 1 .. Len(s_jq_q) - 1 : s_jq_q'[i] = s_jq_q[i + 1]
    BY <1>3, PopFlight
  <2>2. DOMAIN s_jq_q' = 1 .. Len(s_jq_q) - 1
    BY <1>3, HeadTailProperties, LenProperties DEF Pop, TypeOK
  <2>3. \A i \in 1 .. Len(s_jq_q) - 1 : i + 1 \in DOMAIN s_jq_q /\ 1 \in DOMAIN s_jq_q
    BY <2>1, QueuedItem
  <2>4. IdsGiven'
    BY <1>3, <2>1 DEF IdsGiven, Pop
  <2>5. \A i, j \in DOMAIN s_jq_q' : i < j => s_jq_q'[i].id < s_jq_q'[j].id
    BY <2>1, <2>2, <2>3, QueuedItem DEF StartedInOrder
  <2>6. \A v \in Busy' : \A i \in DOMAIN s_jq_q' : it'[v].id < s_jq_q'[i].id
    <3>1. ASSUME NEW i \in DOMAIN s_jq_q' PROVE s_jq_q[1].id < s_jq_q'[i].id
      <4>1. s_jq_q'[i] = s_jq_q[i + 1] /\ 1 < i + 1
        BY <2>1, <2>2, QueuedItem
      <4>2. 1 \in DOMAIN s_jq_q /\ i + 1 \in DOMAIN s_jq_q
        BY <2>2, <2>3
      <4>3. QED
        BY <4>1, <4>2 DEF StartedInOrder
    <3>2. \A v \in Busy : \A i \in DOMAIN s_jq_q' : it'[v].id < s_jq_q'[i].id
      BY <2>1, <2>2, <2>3 DEF StartedInOrder
    <3>3. QED
      BY <2>1, <3>1, <3>2
  <2>7. \A v \in Busy : it'[v].id # it'[w].id
    <3>1. \A v \in Busy : it[v].id < s_jq_q[1].id /\ it[v].id \in Nat /\ s_jq_q[1].id \in Nat
      <4>1. 1 \in DOMAIN s_jq_q /\ s_jq_q[1] \in Item
        BY <2>1, QueuedItem
      <4>2. QED
        BY <4>1, BusyItem DEF StartedInOrder, Item
    <3>2. QED
      BY <2>1, <3>1
  <2>8. \A u, v \in Busy' : u # v => it'[u].id # it'[v].id
    BY <2>1, <2>7 DEF StartedInOrder
  <2>9. QED
    BY <2>4, <2>5, <2>6, <2>8 DEF StartedInOrder
<1>4. ASSUME NEW w \in Worker, Finish(w) PROVE Ordered'
  BY <1>4, FinishFlight DEF Finish, StartedInOrder, IdsGiven
<1>5. QED
  BY <1>1, <1>2, <1>3, <1>4, StillFlight DEF Next, WorkerStep, TitleStep

\* Every push starts once and in FIFO order, for any number of workers: no two
\* hold it, and what a worker holds is older than all that is queued.
THEOREM StartsInOrder == Spec => []StartedInOrder
<1>1. Init => Ordered
  BY DEF Init, Ordered, StartedInOrder, IdsGiven, InFlight, Queued, Held, Busy, Range
<1>2. QED
  BY <1>1, TypeCorrect, OrderedStep, PTL DEF Spec, Ordered

-----------------------------------------------------------------------------
(* The counts.                                                             *)

Counted == IsFiniteSet(InFlight) /\ PendingExact

LEMMA FiniteOnKey ==
  ASSUME IsFiniteSet(InFlight), NEW k PROVE IsFiniteSet(OnKey(k)) /\ Cardinality(OnKey(k)) \in Nat
  BY FS_Subset, FS_CardinalityType DEF OnKey

LEMMA CountedStep == TypeOK /\ Ordered /\ Counted /\ [Next]_vars => Counted'
<1> SUFFICES ASSUME TypeOK, Ordered, Counted, [Next]_vars PROVE Counted'
  OBVIOUS
<1> USE DEF Counted
<1>1. ASSUME InFlight' = InFlight, UNCHANGED s_jq_pending PROVE Counted'
  BY <1>1 DEF PendingExact, OnKey
<1>2. ASSUME NEW g \in Guest, NEW q \in Queue, NEW d \in Job, NEW raw \in RawTag,
             Push(g, q, d, raw)
      PROVE  Counted'
  <2> DEFINE new == NewItem(q, d, raw)
  <2>1. /\ InFlight' = InFlight \cup {new} /\ KeyOf(new) \in Key
        /\ s_jq_pending' = [s_jq_pending EXCEPT ![KeyOf(new)] = @ + 1]
    BY <1>2, PushFlight, NewItemType DEF Push
  <2>2. new \notin InFlight
    BY <1>2, FlightItem DEF Ordered, IdsGiven, NewItem, TypeOK, Item
  <2> HIDE DEF new
  <2>3. IsFiniteSet(InFlight')
    BY <2>1, FS_AddElement
  <2>4. ASSUME NEW k \in Key PROVE s_jq_pending'[k] = Cardinality(OnKey(k)')
    <3>1. CASE k = KeyOf(new)
      <4>1. OnKey(k)' = OnKey(k) \cup {new} /\ new \notin OnKey(k)
        BY <2>1, <2>2, <3>1 DEF OnKey
      <4>2. Cardinality(OnKey(k)') = Cardinality(OnKey(k)) + 1
        BY <4>1, FiniteOnKey, FS_AddElement
      <4>3. QED
        BY <2>1, <3>1, <4>2 DEF PendingExact, TypeOK
    <3>2. CASE k # KeyOf(new)
      <4>1. OnKey(k)' = OnKey(k)
        BY <2>1, <3>2 DEF OnKey
      <4>2. QED
        BY <2>1, <3>2, <4>1 DEF PendingExact, TypeOK
    <3>3. QED
      BY <3>1, <3>2
  <2>5. QED
    BY <2>3, <2>4 DEF PendingExact
<1>3. ASSUME NEW w \in Worker, Finish(w) PROVE Counted'
  <2> DEFINE old == it[w]
  <2>1. /\ old \in InFlight /\ InFlight' = InFlight \ {old} /\ KeyOf(old) \in Key
        /\ s_jq_pending' = [s_jq_pending EXCEPT ![KeyOf(old)] = @ - 1]
    BY <1>3, FinishFlight, FlightItem DEF Finish
  <2> HIDE DEF old
  <2>2. IsFiniteSet(InFlight')
    BY <2>1, FS_RemoveElement
  <2>3. ASSUME NEW k \in Key PROVE s_jq_pending'[k] = Cardinality(OnKey(k)')
    <3>1. CASE k = KeyOf(old)
      <4>1. OnKey(k)' = OnKey(k) \ {old} /\ old \in OnKey(k)
        BY <2>1, <3>1 DEF OnKey
      <4>2. Cardinality(OnKey(k)') = Cardinality(OnKey(k)) - 1
        BY <4>1, FiniteOnKey, FS_RemoveElement
      <4>3. QED
        BY <2>1, <3>1, <4>2 DEF PendingExact, TypeOK
    <3>2. CASE k # KeyOf(old)
      <4>1. OnKey(k)' = OnKey(k)
        BY <2>1, <3>2 DEF OnKey
      <4>2. QED
        BY <2>1, <3>2, <4>1 DEF PendingExact, TypeOK
    <3>3. QED
      BY <3>1, <3>2
  <2>4. QED
    BY <2>2, <2>3 DEF PendingExact
<1>4. ASSUME NEW w \in Worker, Pop(w) PROVE Counted'
  BY <1>1, <1>4, PopFlight DEF Pop
<1>5. QED
  BY <1>1, <1>2, <1>3, <1>4, StillFlight DEF Next, WorkerStep, TitleStep

LEMMA EmptyAtInit == Init => InFlight = {}
  BY DEF Init, InFlight, Queued, Held, Busy, Range

LEMMA CountedInit == Init => Counted
<1> SUFFICES ASSUME Init PROVE Counted
  OBVIOUS
<1>1. \A k \in Key : OnKey(k) = {}
  BY EmptyAtInit DEF OnKey
<1>2. QED
  BY <1>1, EmptyAtInit, FS_EmptySet DEF Init, Counted, PendingExact

LEMMA OrderedInit == Init => Ordered
  BY EmptyAtInit DEF Init, Ordered, StartedInOrder, IdsGiven, Busy

\* What the comment on s_jq_pending says, for any number of threads: the count
\* is the number of jobs of that queue and tag queued or running.
THEOREM CountsExact == Spec => []PendingExact
<1>1. Spec => []Ordered
  BY OrderedInit, TypeCorrect, OrderedStep, PTL DEF Spec
<1>2. QED
  BY <1>1, CountedInit, TypeCorrect, CountedStep, PTL DEF Spec, Counted

-----------------------------------------------------------------------------
(* The title's rule and what it buys: a drained tag has no job in flight.  *)

LEMMA DrainedIsEmpty ==
  ASSUME TypeOK, Counted, NEW q \in Queue, NEW mask, Drained(q, mask)
  PROVE  \A j \in InFlight : KeyOf(j) \notin KeysOf(q, mask)
<1>1. ASSUME NEW j \in InFlight, KeyOf(j) \in KeysOf(q, mask) PROVE FALSE
  <2> DEFINE k == KeyOf(j)
  <2>1. k \in Key /\ s_jq_pending[k] <= 0 /\ j \in OnKey(k)
    BY <1>1, FlightItem DEF Drained, OnKey
  <2>2. Cardinality(OnKey(k)) = 0
    BY <2>1, FiniteOnKey DEF Counted, PendingExact
  <2>3. OnKey(k) = {}
    BY <2>2, FiniteOnKey, FS_EmptySet DEF Counted
  <2>4. QED
    BY <2>1, <2>3
<1>2. QED
  BY <1>1

Stable == OwedSync /\ DescriptorStable

LEMMA StableStep == TypeOK /\ Ordered /\ Counted /\ Stable /\ [Next]_vars => Stable'
<1> SUFFICES ASSUME TypeOK, Ordered, Counted, Stable, [Next]_vars PROVE Stable'
  OBVIOUS
<1> USE DEF Stable
<1>1. ASSUME InFlight' \subseteq InFlight, UNCHANGED <<mem, unsynced>> PROVE Stable'
  BY <1>1 DEF OwedSync, DescriptorStable
<1>2. ASSUME NEW g \in Guest, NEW d \in Job, NEW img \in Image \cup {NoImage}, Fill(g, d, img)
      PROVE  Stable'
  <2>1. InFlight' = InFlight
    BY <1>2, StillFlight
  <2>2. \A j \in InFlight : j.job \in Job /\ j.job # d
    BY <1>2, FlightItem DEF Fill, OwedSync, Item
  <2>3. QED
    BY <1>2, <2>1, <2>2 DEF Fill, TypeOK, OwedSync, DescriptorStable
<1>3. ASSUME NEW g \in Guest, NEW q \in Queue, NEW d \in Job, NEW raw \in RawTag,
             Push(g, q, d, raw)
      PROVE  Stable'
  <2> DEFINE new == NewItem(q, d, raw)
  <2>1. InFlight' = InFlight \cup {new} /\ new \in Item
    BY <1>3, PushFlight, NewItemType DEF Push
  <2>2. new.job = d /\ new.bin = mem[d]
    BY DEF NewItem
  <2>3. unsynced' = [unsynced EXCEPT ![d] = @ \cup {KeyOf(new)}] /\ mem' = mem
    BY <1>3 DEF Push
  <2> HIDE DEF new
  <2>4. \A j \in InFlight : KeyOf(j) \in unsynced'[j.job]
    BY <2>3, FlightItem DEF OwedSync, TypeOK, Item
  <2>5. KeyOf(new) \in unsynced'[new.job] /\ mem'[new.job] = new.bin
    BY <2>2, <2>3 DEF TypeOK
  <2>6. QED
    BY <2>1, <2>3, <2>4, <2>5 DEF OwedSync, DescriptorStable
<1>4. ASSUME NEW g \in Guest, ReturnFromSync(g) PROVE Stable'
  <2>1. InFlight' = InFlight
    BY <1>4, StillFlight DEF ImportStep
  <2>2. arg[g] \in SyncArg /\ Drained(arg[g].jq, arg[g].mask)
    BY <1>4 DEF ReturnFromSync, TypeOK
  <2>3. \A j \in InFlight : KeyOf(j) \notin KeysOf(arg[g].jq, arg[g].mask)
    BY <2>2, DrainedIsEmpty DEF SyncArg
  <2>4. \A j \in InFlight : j.job \in Job
    BY FlightItem DEF Item
  <2>5. QED
    BY <1>4, <2>1, <2>3, <2>4 DEF ReturnFromSync, OwedSync, DescriptorStable
<1>5. ASSUME NEW w \in Worker, Pop(w) \/ Finish(w) PROVE Stable'
  BY <1>1, <1>5, PopFlight, FinishFlight DEF Pop, Finish
<1>6. ASSUME NEW g \in Guest, \/ \E d \in Job : PushNothing(g, d)
                              \/ \E q \in Queue, mask \in Mask : BeginSync(g, q, mask)
                              \/ NotifyOne(g) \/ SleepInSync(g) \/ SpuriousGuest(g)
      PROVE  Stable'
  BY <1>1, <1>6, StillFlight
  DEF PushNothing, BeginSync, NotifyOne, SleepInSync, SpuriousGuest, ImportStep
<1>7. ASSUME NEW w \in Worker, Sleep(w) \/ Dispatch(w) \/ NotifyDone(w) \/ SpuriousWorker(w)
      PROVE  Stable'
  BY <1>1, <1>7, StillFlight DEF Sleep, Dispatch, NotifyDone, SpuriousWorker
<1>8. CASE UNCHANGED vars
  BY <1>1, <1>8, StillFlight DEF vars
<1>9. QED
  BY <1>2, <1>3, <1>4, <1>5, <1>6, <1>7, <1>8 DEF Next, WorkerStep, ImportStep, TitleStep

\* A title that syncs a tag before it reuses a descriptor never changes one
\* under a job that is queued or running, whatever the threads' interleaving.
THEOREM DescriptorsStable == Spec => []DescriptorStable
<1>1. Spec => []Ordered
  BY OrderedInit, TypeCorrect, OrderedStep, PTL DEF Spec
<1>2. Spec => []Counted
  BY <1>1, CountedInit, TypeCorrect, CountedStep, PTL DEF Spec
<1>3. Init => Stable
  BY EmptyAtInit DEF Stable, OwedSync, DescriptorStable
<1>4. QED
  BY <1>1, <1>2, <1>3, TypeCorrect, StableStep, PTL DEF Spec, Stable

-----------------------------------------------------------------------------
(* The windows between an unlock and its notify.                           *)

LEMMA SyncersStep == TypeOK /\ SyncersWoken /\ [Next]_vars => SyncersWoken'
<1> SUFFICES ASSUME TypeOK, SyncersWoken, [Next]_vars,
                    NEW g \in Guest, gpc'[g] = "wait", Drained(arg[g].jq, arg[g].mask)'
             PROVE  \E w \in Worker : wpc'[w] = "finished"
  BY DEF SyncersWoken
<1>1. CASE \E w \in Worker : Finish(w)
  BY <1>1 DEF Finish, TypeOK
<1>2. CASE \E w \in Worker : NotifyDone(w)
  BY <1>2 DEF NotifyDone, TypeOK
<1>3. ASSUME NEW h \in Guest, NEW q \in Queue, NEW d \in Job, NEW raw \in RawTag,
             Push(h, q, d, raw)
      PROVE  \E w \in Worker : wpc'[w] = "finished"
  <2>1. KeyOf(NewItem(q, d, raw)) \in Key
    BY <1>3, NewItemType DEF Push
  <2>2. \A k \in Key : s_jq_pending'[k] <= 0 => s_jq_pending[k] <= 0
    BY <1>3, <2>1 DEF Push, TypeOK
  <2>3. gpc[g] = "wait" /\ arg' = arg /\ arg[g] \in SyncArg
    BY <1>3 DEF Push, TypeOK
  <2>4. KeysOf(arg[g].jq, arg[g].mask) \subseteq Key
    BY <2>3 DEF KeysOf, Key, SyncArg
  <2>5. Drained(arg[g].jq, arg[g].mask)
    <3>1. \A k \in KeysOf(arg[g].jq, arg[g].mask) : s_jq_pending'[k] <= 0
      BY <2>3 DEF Drained
    <3>2. QED
      BY <2>2, <2>4, <3>1 DEF Drained
  <2>6. PICK w \in Worker : wpc[w] = "finished"
    BY <2>3, <2>5 DEF SyncersWoken
  <2>7. QED
    BY <1>3, <2>6 DEF Push, StartWorkers
<1>4. ASSUME UNCHANGED <<s_jq_pending>>, gpc[g] = "wait", arg'[g] = arg[g],
             \A w \in Worker : wpc[w] = "finished" => wpc'[w] = "finished"
      PROVE  \E w \in Worker : wpc'[w] = "finished"
  BY <1>4 DEF SyncersWoken, Drained
<1>5. ASSUME NEW h \in Guest, \/ \E d \in Job, img \in Image \cup {NoImage} : Fill(h, d, img)
                              \/ \E d \in Job : PushNothing(h, d)
                              \/ \E q \in Queue, mask \in Mask : BeginSync(h, q, mask)
                              \/ NotifyOne(h) \/ ReturnFromSync(h) \/ SpuriousGuest(h)
      PROVE  \E w \in Worker : wpc'[w] = "finished"
  BY <1>4, <1>5
  DEF TypeOK, Fill, PushNothing, StartWorkers, BeginSync, NotifyOne, ReturnFromSync, SpuriousGuest
<1>6. ASSUME NEW h \in Guest, SleepInSync(h)
      PROVE  \E w \in Worker : wpc'[w] = "finished"
  <2>1. CASE h = g
    BY <1>6, <2>1 DEF SleepInSync, Drained, KeysOf
  <2>2. CASE h # g
    BY <1>4, <1>6, <2>2 DEF SleepInSync, TypeOK
  <2>3. QED
    BY <2>1, <2>2
<1>7. ASSUME NEW w \in Worker, Pop(w) \/ Sleep(w) \/ Dispatch(w) \/ SpuriousWorker(w)
      PROVE  \E v \in Worker : wpc'[v] = "finished"
  BY <1>4, <1>7 DEF TypeOK, Pop, Sleep, Dispatch, SpuriousWorker
<1>8. CASE UNCHANGED vars
  BY <1>4, <1>8 DEF vars
<1>9. QED
  BY <1>1, <1>2, <1>3, <1>5, <1>6, <1>7, <1>8 DEF Next, WorkerStep, ImportStep, TitleStep

\* No guest thread sleeps in a sync whose tags are drained without a worker on
\* its way to wake it, though the workers notify after they release the lock.
THEOREM SyncsWoken == Spec => []SyncersWoken
<1>1. Init => SyncersWoken
  BY DEF Init, SyncersWoken
<1>2. QED
  BY <1>1, TypeCorrect, SyncersStep, PTL DEF Spec

-----------------------------------------------------------------------------
(* Enough workers are awake, or about to be woken, for what is queued.     *)

LEMMA FiniteThreads ==
  ASSUME NEW S \in SUBSET Worker, NEW T \in SUBSET Guest
  PROVE  /\ IsFiniteSet(S) /\ Cardinality(S) \in Nat
         /\ IsFiniteSet(T) /\ Cardinality(T) \in Nat
<1>1. NW - 1 \in Int
  BY QueueAssumption DEF NW
<1>2. IsFiniteSet(Worker)
  BY <1>1, FS_Interval DEF Worker
<1>3. QED
  BY <1>2, QueueAssumption, FS_Subset, FS_CardinalityType

LEMMA WokenStep == TypeOK /\ WorkersWoken /\ [Next]_vars => WorkersWoken'
<1> SUFFICES ASSUME TypeOK, WorkersWoken, [Next]_vars, Asleep' # {}
             PROVE  Len(s_jq_q)' <= Cardinality(Testing') + Cardinality(Notifying')
  BY DEF WorkersWoken
<1> DEFINE Enough == Len(s_jq_q)' <= Cardinality(Testing') + Cardinality(Notifying')
<1>0. /\ IsFiniteSet(Testing) /\ Cardinality(Testing) \in Nat
      /\ IsFiniteSet(Testing') /\ Cardinality(Testing') \in Nat
      /\ IsFiniteSet(Notifying) /\ Cardinality(Notifying) \in Nat
      /\ IsFiniteSet(Notifying') /\ Cardinality(Notifying') \in Nat
      /\ Len(s_jq_q) \in Nat
  BY FiniteThreads, LenProperties DEF Testing, Notifying, TypeOK
\* Awake workers stay awake, callers stay callers and nothing is pushed.
<1>1. ASSUME Asleep' \subseteq Asleep, Testing \subseteq Testing', Notifying \subseteq Notifying',
             UNCHANGED s_jq_q
      PROVE  Enough
  <2>1. Asleep # {}
    BY <1>1
  <2>2. Len(s_jq_q) <= Cardinality(Testing) + Cardinality(Notifying)
    BY <2>1 DEF WorkersWoken
  <2>3. /\ Cardinality(Testing) <= Cardinality(Testing')
        /\ Cardinality(Notifying) <= Cardinality(Notifying')
    BY <1>0, <1>1, FS_Subset
  <2>4. QED
    BY <1>0, <1>1, <2>2, <2>3
<1>2. ASSUME NEW g \in Guest, NEW q \in Queue, NEW d \in Job, NEW raw \in RawTag,
             Push(g, q, d, raw)
      PROVE  Enough
  <2>1. Asleep' \subseteq Asleep /\ Testing \subseteq Testing'
    BY <1>2 DEF Push, StartWorkers, Asleep, Testing, TypeOK
  <2>2. Notifying' = Notifying \cup {g} /\ g \notin Notifying
    BY <1>2 DEF Push, Notifying, TypeOK
  <2>3. Cardinality(Notifying') = Cardinality(Notifying) + 1
    BY <1>0, <2>2, FS_AddElement
  <2>4. Cardinality(Testing) <= Cardinality(Testing')
    BY <1>0, <2>1, FS_Subset
  <2>5. Len(s_jq_q') = Len(s_jq_q) + 1
    BY <1>2, NewItemType, AppendProperties DEF Push, TypeOK
  <2>6. Len(s_jq_q) <= Cardinality(Testing) + Cardinality(Notifying)
    BY <2>1 DEF WorkersWoken
  <2>7. QED
    BY <1>0, <2>3, <2>4, <2>5, <2>6
<1>3. ASSUME NEW g \in Guest, NotifyOne(g) PROVE Enough
  <2>1. Notifying' = Notifying \ {g} /\ g \in Notifying /\ s_jq_q' = s_jq_q
    BY <1>3 DEF NotifyOne, Notifying, TypeOK
  <2>2. Cardinality(Notifying') = Cardinality(Notifying) - 1
    BY <1>0, <2>1, FS_RemoveElement
  <2>3. PICK w \in Worker : wpc[w] = "wait" /\ wpc' = [wpc EXCEPT ![w] = "test"]
    <3>1. Asleep' \subseteq Asleep
      BY <1>3 DEF NotifyOne, Asleep, TypeOK
    <3>2. QED
      BY <1>3, <3>1 DEF NotifyOne, Asleep
  <2>4. Testing' = Testing \cup {w} /\ w \notin Testing /\ Asleep # {}
    BY <2>3 DEF Testing, Asleep, TypeOK
  <2>5. Cardinality(Testing') = Cardinality(Testing) + 1
    BY <1>0, <2>4, FS_AddElement
  <2>6. Len(s_jq_q) <= Cardinality(Testing) + Cardinality(Notifying)
    BY <2>4 DEF WorkersWoken
  <2>7. QED
    BY <1>0, <2>1, <2>2, <2>5, <2>6
<1>4. ASSUME NEW w \in Worker, Pop(w) PROVE Enough
  <2>1. Testing' = Testing \ {w} /\ w \in Testing /\ Asleep' = Asleep /\ Notifying' = Notifying
    BY <1>4 DEF Pop, Testing, Asleep, Notifying, TypeOK
  <2>2. Cardinality(Testing') = Cardinality(Testing) - 1
    BY <1>0, <2>1, FS_RemoveElement
  <2>3. Len(s_jq_q)' = Len(s_jq_q) - 1
    BY <1>4, PopFlight
  <2>4. QED
    BY <1>0, <2>1, <2>2, <2>3 DEF WorkersWoken
<1>5. ASSUME NEW w \in Worker, Sleep(w) PROVE Enough
  <2>1. Len(s_jq_q)' = 0
    BY <1>5, EmptySeq DEF Sleep
  <2>2. QED
    BY <1>0, <2>1
<1>6. ASSUME NEW w \in Worker, Dispatch(w) \/ Finish(w) \/ NotifyDone(w) \/ SpuriousWorker(w)
      PROVE  Enough
  BY <1>1, <1>6
  DEF Dispatch, Finish, NotifyDone, SpuriousWorker, Testing, Asleep, Notifying, TypeOK
<1>7. ASSUME NEW g \in Guest, \/ \E d \in Job, img \in Image \cup {NoImage} : Fill(g, d, img)
                              \/ \E d \in Job : PushNothing(g, d)
                              \/ \E q \in Queue, mask \in Mask : BeginSync(g, q, mask)
                              \/ ReturnFromSync(g) \/ SleepInSync(g) \/ SpuriousGuest(g)
      PROVE  Enough
  BY <1>1, <1>7
  DEF Fill, PushNothing, StartWorkers, BeginSync, ReturnFromSync, SleepInSync, SpuriousGuest,
      Testing, Asleep, Notifying, TypeOK
<1>8. CASE UNCHANGED vars
  BY <1>1, <1>8 DEF vars, Testing, Asleep, Notifying
<1>9. QED
  BY <1>2, <1>3, <1>4, <1>5, <1>6, <1>7, <1>8 DEF Next, WorkerStep, ImportStep, TitleStep

\* No lost wake-up, for any number of workers: while one sleeps, each queued job
\* has a notify to come or a worker about to look at the queue.
THEOREM JobsWoken == Spec => []WorkersWoken
<1>1. Init => WorkersWoken
  BY DEF Init, WorkersWoken, Asleep
<1>2. QED
  BY <1>1, TypeCorrect, WokenStep, PTL DEF Spec

-----------------------------------------------------------------------------
(* The implementation of the promise, without its fairness.                *)

InSync == {g \in Guest : gpc[g] \in {"test", "wait"}}
Awaited == [g \in Guest |-> AwaitedBy(g)]

\* A sync noted how many pushes there had been when it began.
SinceGiven ==
  /\ pushes <= MaxPushes
  /\ \A g \in InSync : arg[g].since <= pushes

LEMMA SinceStep == TypeOK /\ SinceGiven /\ [Next]_vars => SinceGiven'
<1> SUFFICES ASSUME TypeOK, SinceGiven, [Next]_vars PROVE SinceGiven'
  OBVIOUS
<1>1. ASSUME InSync' \subseteq InSync, \A g \in InSync' : arg'[g] = arg[g],
             pushes' \in Nat, pushes <= pushes', pushes' <= MaxPushes
      PROVE  SinceGiven'
  BY <1>1 DEF SinceGiven, InSync, TypeOK, SyncArg
<1>2. ASSUME NEW g \in Guest, \/ \E d \in Job, img \in Image \cup {NoImage} : Fill(g, d, img)
                              \/ \E q \in Queue, d \in Job, raw \in RawTag : Push(g, q, d, raw)
                              \/ \E d \in Job : PushNothing(g, d)
                              \/ ImportStep(g) \/ SpuriousGuest(g)
      PROVE  SinceGiven'
  BY <1>1, <1>2, QueueAssumption
  DEF Fill, Push, PushNothing, ImportStep, NotifyOne, ReturnFromSync, SleepInSync, SpuriousGuest,
      InSync, TypeOK, SinceGiven
<1>3. ASSUME NEW g \in Guest, NEW q \in Queue, NEW mask \in Mask, BeginSync(g, q, mask)
      PROVE  SinceGiven'
  BY <1>3 DEF BeginSync, SinceGiven, InSync, TypeOK, SyncArg
<1>4. ASSUME NEW w \in Worker, WorkerStep(w) \/ SpuriousWorker(w) PROVE SinceGiven'
  BY <1>1, <1>4
  DEF WorkerStep, Pop, Sleep, Dispatch, Finish, NotifyDone, SpuriousWorker, InSync, TypeOK,
      SinceGiven
<1>5. CASE UNCHANGED vars
  BY <1>1, <1>5 DEF vars, InSync, TypeOK, SinceGiven
<1>6. QED
  BY <1>2, <1>3, <1>4, <1>5 DEF Next, TitleStep

LEMMA PromiseInit == Init => Promise!Init
<1> SUFFICES ASSUME Init PROVE Promise!Init
  OBVIOUS
<1>1. InFlight = {} /\ \A g \in Guest : gpc[g] = "guest"
  BY EmptyAtInit DEF Init
<1>2. QED
  BY <1>1 DEF Promise!Init, AwaitedBy

\* Nothing the promise speaks of changes.
LEMMA PromiseStutter ==
  ASSUME InFlight' = InFlight, InSync' = InSync, \A g \in InSync : arg'[g] = arg[g]
  PROVE  UNCHANGED Promise!specVars
<1>1. \A g \in Guest : AwaitedBy(g)' = AwaitedBy(g)
  BY DEF AwaitedBy, InSync
<1>2. QED
  BY <1>1 DEF Promise!specVars, InSync

LEMMA PromiseStep ==
  TypeOK /\ Ordered /\ Counted /\ SinceGiven /\ [Next]_vars
    => [Promise!Next]_(Promise!specVars)
<1> SUFFICES ASSUME TypeOK, Ordered, Counted, SinceGiven, [Next]_vars
             PROVE  Promise!Next \/ UNCHANGED Promise!specVars
  OBVIOUS
<1>1. ASSUME NEW g \in Guest, NEW q \in Queue, NEW d \in Job, NEW raw \in RawTag,
             Push(g, q, d, raw)
      PROVE  Promise!Next
  <2> DEFINE new == NewItem(q, d, raw)
  <2>1. new \in Item /\ new.id = pushes /\ pushes < MaxPushes /\ arg' = arg /\ InSync' = InSync
    BY <1>1, NewItemType DEF Push, NewItem, InSync, TypeOK
  <2>2. new \in BoundedItem
    BY <2>1, QueueAssumption DEF BoundedItem, Item
  <2>3. InFlight' = InFlight \cup {new} /\ new \notin InFlight
    BY <1>1, <2>1, PushFlight, FlightItem DEF Ordered, IdsGiven, Item
  <2> HIDE DEF new
  <2>4. \A g_1 \in Guest : AwaitedBy(g_1)' = AwaitedBy(g_1)
    <3> SUFFICES ASSUME NEW h \in InSync PROVE AwaitedBy(h)' = AwaitedBy(h)
      BY <2>1 DEF AwaitedBy, InSync
    <3>1. ~(new.id < arg[h].since)
      BY <2>1 DEF SinceGiven, InSync, TypeOK, SyncArg
    <3>2. QED
      BY <2>1, <2>3, <3>1 DEF AwaitedBy, InSync
  <2>5. Promise!Push(new)
    BY <2>1, <2>3, <2>4 DEF Promise!Push, InSync
  <2>6. QED
    BY <2>2, <2>5 DEF Promise!Next
<1>2. ASSUME NEW w \in Worker, Finish(w) PROVE Promise!Next
  <2> DEFINE old == it[w]
  <2>1. old \in InFlight /\ InFlight' = InFlight \ {old} /\ old \in Item /\ old.id < pushes
    BY <1>2, FinishFlight, FlightItem DEF Ordered, IdsGiven
  <2>2. old \in BoundedItem
    <3>1. old.id \in 0 .. MaxPushes - 1
      BY <2>1, QueueAssumption DEF SinceGiven, TypeOK, Item
    <3>2. QED
      BY <2>1, <3>1 DEF BoundedItem, Item
  <2>3. arg' = arg /\ gpc' = gpc
    BY <1>2 DEF Finish
  <2> HIDE DEF old
  <2>4. \A h \in Guest : AwaitedBy(h)' = AwaitedBy(h) \ {old}
    BY <2>1, <2>3 DEF AwaitedBy
  <2>5. Promise!Finish(old)
    BY <2>1, <2>3, <2>4 DEF Promise!Finish
  <2>6. QED
    BY <2>2, <2>5 DEF Promise!Next
<1>3. ASSUME NEW g \in Guest, NEW q \in Queue, NEW mask \in Mask, BeginSync(g, q, mask)
      PROVE  Promise!Next
  <2>1. InFlight' = InFlight
    BY <1>3, StillFlight
  <2>2. InSync' = InSync \cup {g} /\ g \notin InSync
    BY <1>3 DEF BeginSync, InSync, TypeOK
  <2>3. arg' = [arg EXCEPT ![g] = [jq |-> q, mask |-> mask, since |-> pushes]]
    BY <1>3 DEF BeginSync
  <2>4. AwaitedBy(g)' = {j \in InFlight : KeyOf(j) \in KeysOf(q, mask)}
    <3>1. gpc'[g] = "test" /\ arg'[g] = [jq |-> q, mask |-> mask, since |-> pushes]
      BY <1>3, <2>3 DEF BeginSync, TypeOK
    <3>2. \A j \in InFlight : j.id < pushes
      BY DEF Ordered, IdsGiven
    <3>3. QED
      BY <2>1, <3>1, <3>2 DEF AwaitedBy
  <2>5. \A h \in Guest : h # g => AwaitedBy(h)' = AwaitedBy(h)
    BY <1>3, <2>1, <2>3 DEF BeginSync, AwaitedBy, TypeOK
  <2>6. KeysOf(q, mask) \in SUBSET Key
    BY DEF KeysOf, Key
  <2>7. Promise!BeginSync(g, KeysOf(q, mask))
    BY <2>1, <2>2, <2>4, <2>5 DEF Promise!BeginSync, InSync
  <2>8. QED
    BY <2>6, <2>7 DEF Promise!Next
<1>4. ASSUME NEW g \in Guest, ReturnFromSync(g) PROVE Promise!Next
  <2>1. InFlight' = InFlight
    BY <1>4, StillFlight DEF ImportStep
  <2>2. arg[g].jq \in Queue /\ Drained(arg[g].jq, arg[g].mask) /\ g \in InSync
    BY <1>4 DEF ReturnFromSync, TypeOK, SyncArg, InSync
  <2>3. AwaitedBy(g) = {}
    BY <2>2, DrainedIsEmpty DEF AwaitedBy
  <2>4. InSync' = InSync \ {g} /\ AwaitedBy(g)' = {}
    BY <1>4 DEF ReturnFromSync, InSync, AwaitedBy, TypeOK
  <2>5. \A h \in Guest : AwaitedBy(h)' = AwaitedBy(h)
    <3>1. ASSUME NEW h \in Guest, h # g PROVE AwaitedBy(h)' = AwaitedBy(h)
      BY <1>4, <2>1, <3>1 DEF ReturnFromSync, AwaitedBy, TypeOK
    <3>2. QED
      BY <2>3, <2>4, <3>1
  <2>6. Promise!EndSync(g)
    BY <2>1, <2>2, <2>3, <2>4, <2>5 DEF Promise!EndSync, InSync
  <2>7. QED
    BY <2>6 DEF Promise!Next
<1>5. ASSUME NEW w \in Worker, Pop(w) PROVE UNCHANGED Promise!specVars
  BY <1>5, PopFlight, PromiseStutter DEF Pop, InSync
<1>6. ASSUME NEW g \in Guest, \/ \E d \in Job, img \in Image \cup {NoImage} : Fill(g, d, img)
                              \/ \E d \in Job : PushNothing(g, d)
                              \/ NotifyOne(g) \/ SleepInSync(g) \/ SpuriousGuest(g)
      PROVE  UNCHANGED Promise!specVars
  BY <1>6, StillFlight, PromiseStutter
  DEF Fill, PushNothing, NotifyOne, SleepInSync, SpuriousGuest, ImportStep, InSync, TypeOK
<1>7. ASSUME NEW w \in Worker, Sleep(w) \/ Dispatch(w) \/ NotifyDone(w) \/ SpuriousWorker(w)
      PROVE  UNCHANGED Promise!specVars
  BY <1>7, StillFlight, PromiseStutter
  DEF Sleep, Dispatch, NotifyDone, SpuriousWorker, InSync, TypeOK
<1>8. CASE UNCHANGED vars
  BY <1>8, StillFlight, PromiseStutter DEF vars, InSync
<1>9. QED
  BY <1>1, <1>2, <1>3, <1>4, <1>5, <1>6, <1>7, <1>8 DEF Next, WorkerStep, ImportStep, TitleStep

\* The deque, the counts and the condition variables implement the promise: a
\* sync never returns while a job pushed before it on its tags is unfinished.
THEOREM Implements == Spec => KeepsSafePromise
<1>1. Spec => []Ordered
  BY OrderedInit, TypeCorrect, OrderedStep, PTL DEF Spec
<1>2. Spec => []Counted
  BY <1>1, CountedInit, TypeCorrect, CountedStep, PTL DEF Spec
<1>3. Init => SinceGiven
  BY QueueAssumption DEF Init, SinceGiven, InSync
<1>4. Spec => []SinceGiven
  BY <1>3, TypeCorrect, SinceStep, PTL DEF Spec
<1>5. QED
  BY <1>1, <1>2, <1>4, PromiseInit, TypeCorrect, PromiseStep, PTL DEF Spec, KeepsSafePromise
=============================================================================
