---------------------------- MODULE TickerProofs ----------------------------
(***************************************************************************)
(* The ticker keeps up, for any times, list and number of tasksets and of  *)
(* threads that create them: the list keeps what it has taken, the vblanks *)
(* owed are bounded and so is the wait for a reference.                    *)
(***************************************************************************)
EXTENDS Ticker, TLAPS

USE TasksetAssumption, PacingAssumption

LEMMA Times ==
  /\ PERIOD \in Nat \ {0} /\ BURST \in Nat \ {0} /\ POOL \in Nat \ {0}
  /\ RefTimeout \in Nat \ {0} /\ MaxStall \in Nat \ {0}
  /\ MaxBlock \in Nat /\ MaxLag \in Nat
OBVIOUS

-----------------------------------------------------------------------------
(* The loop *)

LoopTypeOK ==
  /\ stage \in {"sleep", "drain", "probes", "ticks", "pump", "present"}
  /\ live \in BOOLEAN /\ rsx_ok \in BOOLEAN
  /\ due \in -PERIOD .. MaxBlock + MaxStall /\ poolDue \in -POOL .. MaxLag
  /\ fired \in 0 .. BURST
  /\ fifo \in {"empty", "draws", "flip"} /\ flip \in BOOLEAN /\ tickPending \in BOOLEAN
  /\ stalled \in BOOLEAN
  /\ guest \in {"runs", "ref", "vblank"} /\ refAge \in 0 .. RefTimeout

\* How far behind the loop can be at each of its stages.
Behind ==
  /\ stage \in {"pump", "present"} => due <= 0
  /\ stage = "sleep" => due <= MaxBlock
  /\ stage = "pump" => rsx_ok

LoopInv == LoopTypeOK /\ Behind

LEMMA LoopInit == P!Init => LoopInv
<1> SUFFICES ASSUME P!Init PROVE LoopInv
  OBVIOUS
<1>1. /\ stalled \in BOOLEAN /\ live \in BOOLEAN /\ rsx_ok \in BOOLEAN /\ flip \in BOOLEAN /\ tickPending \in BOOLEAN
      /\ stage = "sleep" /\ fifo = "empty" /\ guest = "runs"
  BY Zenon DEF P!Init
<1>2. due = 0 /\ poolDue = 0 /\ fired = 0 /\ refAge = 0
  BY DEF P!Init
<1>3. QED
  BY <1>1, <1>2, Times DEF LoopInv, LoopTypeOK, Behind

LEMMA LoopTitle == LoopInv /\ (P!TitleStep \/ P!Deliver) => LoopInv'
<1> SUFFICES ASSUME LoopInv, P!TitleStep \/ P!Deliver PROVE LoopInv'
  OBVIOUS
<1>1. ASSUME NEW what \in {"draws", "flip"}, P!Put(what) PROVE LoopInv'
  BY <1>1 DEF P!Put, LoopInv, LoopTypeOK, Behind, P!loopVars, P!guestVars
<1>2. CASE P!WaitForRef \/ P!WaitForVblank
  BY <1>2, Times DEF P!WaitForRef, P!WaitForVblank, LoopInv, LoopTypeOK, Behind, P!loopVars, P!rsxVars
<1>3. CASE P!Deliver
  <2>1. tickPending' \in BOOLEAN /\ guest' = "runs"
    BY <1>3, Zenon DEF P!Deliver
  <2>2. QED
    BY <1>3, <2>1 DEF P!Deliver, LoopInv, LoopTypeOK, Behind, P!loopVars
<1>4. QED
  BY <1>1, <1>2, <1>3 DEF P!TitleStep

\* Drain leaves the FIFO and the title's wait in their types.
LEMMA DrainTypes ==
  ASSUME LoopTypeOK, P!Drain
  PROVE  /\ fifo' \in {"empty", "draws", "flip"} /\ flip' \in BOOLEAN /\ stalled' \in BOOLEAN
         /\ guest' \in {"runs", "ref", "vblank"} /\ refAge' \in 0 .. RefTimeout
<1>1. CASE P!CatchUp
  <2>1. flip' \in BOOLEAN /\ stalled' \in BOOLEAN
    BY <1>1, Zenon DEF LoopTypeOK, P!CatchUp
  <2>2. QED
    BY <1>1, <2>1, Times DEF LoopTypeOK, P!CatchUp, P!guestVars
<1>2. CASE P!Stop
  BY <1>2 DEF LoopTypeOK, P!Stop, P!guestVars
<1>3. CASE UNCHANGED <<fifo, stalled, flip, guest, refAge>>
  BY <1>3 DEF LoopTypeOK
<1>4. QED
  BY <1>1, <1>2, <1>3 DEF P!Drain, P!guestVars

LEMMA ElapseTypes ==
  ASSUME LoopTypeOK, NEW d \in Nat, P!Elapse(d)
  PROVE  due' = due + d /\ poolDue' \in -POOL .. MaxLag /\ refAge' \in 0 .. RefTimeout
BY Times DEF LoopTypeOK, P!Elapse

LEMMA LoopPass == LoopInv /\ (P!LoopStep \/ P!ProbesEnd) => LoopInv'
<1> SUFFICES ASSUME LoopInv, P!LoopStep \/ P!ProbesEnd PROVE LoopInv'
  OBVIOUS
<1> USE Times DEF LoopInv, LoopTypeOK, Behind, P!rsxVars
<1>1. ASSUME NEW d \in 1 .. MaxStall, P!Wake(d) PROVE LoopInv'
  BY <1>1, ElapseTypes DEF P!Wake
<1>2. CASE P!DrainFifo
  BY <1>2, DrainTypes DEF P!DrainFifo
<1>3. CASE P!ProbesEnd
  BY <1>3 DEF P!ProbesEnd, P!guestVars
<1>4. CASE P!RequestTick
  BY <1>4, DrainTypes DEF P!RequestTick, P!MoreTicks
<1>5. CASE P!TicksEnd
  BY <1>5 DEF P!TicksEnd, P!MoreTicks, P!AfterTicks, P!guestVars
<1>6. ASSUME NEW open \in BOOLEAN, P!PumpMessages(open) PROVE LoopInv'
  BY <1>6 DEF P!PumpMessages, P!guestVars
<1>7. ASSUME NEW d \in 0 .. MaxBlock, P!Present(d) PROVE LoopInv'
  <2>1. flip' \in BOOLEAN
    BY <1>7, Zenon DEF P!Present
  <2>2. stage' = "sleep" /\ UNCHANGED <<fired, live, rsx_ok, fifo, stalled, tickPending, guest>>
    BY <1>7 DEF P!Present
  <2>3. UNCHANGED <<due, poolDue, refAge>> \/ P!Elapse(d)
    BY <1>7 DEF P!Present
  <2>4. due \in -PERIOD .. 0
    BY <1>7 DEF P!Present
  <2>5. CASE P!Elapse(d)
    BY <2>1, <2>2, <2>4, <2>5, ElapseTypes
  <2>6. CASE UNCHANGED <<due, poolDue, refAge>>
    BY <2>1, <2>2, <2>4, <2>6
  <2>7. QED
    BY <2>3, <2>5, <2>6
<1>8. QED
  BY <1>1, <1>2, <1>3, <1>4, <1>5, <1>6, <1>7 DEF P!LoopStep

LEMMA LoopSteps == LoopInv /\ [TickerNext]_tickerVars => LoopInv'
<1>1. LoopInv /\ UNCHANGED pacingVars => LoopInv'
  BY DEF LoopInv, LoopTypeOK, Behind, pacingVars
<1>2. QED
  BY <1>1, LoopTitle, LoopPass DEF TickerNext, TickerPass, TitleOfTicker, Poll, EndPoll, tickerVars

LEMMA LoopAlways == TickerSpec => []LoopInv
BY LoopInit, LoopSteps, PTL DEF TickerSpec, TickerInit

\* However long sleeps and presents take, the vblanks owed are bounded, and a
\* pass that comes to the window owes none.
THEOREM CaughtUp == TickerSpec => []TicksCaughtUp
<1>1. LoopInv => TicksCaughtUp
  BY Times DEF LoopInv, LoopTypeOK, Behind, TicksCaughtUp
<1>2. QED
  BY <1>1, LoopAlways, PTL

-----------------------------------------------------------------------------
(* The reference *)

\* While there is a window and no command stops it, each drain ends the wait, and
\* what passes between two drains is one present and one sleep.
Waited ==
  /\ refAge \in 0 .. RefTimeout /\ stage \in {"sleep", "drain", "probes", "ticks", "pump", "present"}
  /\ stage = "pump" => rsx_ok
  /\ rsx_ok /\ ~stalled =>
       /\ guest # "ref" => refAge = 0
       /\ stage \in {"probes", "ticks", "pump", "present"} => refAge = 0
       /\ stage = "sleep" => refAge <= MaxBlock
       /\ refAge <= MaxBlock + MaxStall

LEMMA WaitedPass == LoopInv /\ Waited /\ (P!LoopStep \/ P!ProbesEnd) => Waited'
<1> SUFFICES ASSUME LoopInv, Waited, P!LoopStep \/ P!ProbesEnd PROVE Waited'
  OBVIOUS
<1> USE Times DEF Waited, P!rsxVars, P!guestVars
<1>1. ASSUME NEW d \in 1 .. MaxStall, P!Wake(d) PROVE Waited'
  BY <1>1 DEF P!Wake, P!Elapse
<1>2. CASE P!DrainFifo
  BY <1>2 DEF P!DrainFifo, P!Drain, P!CatchUp, P!Stop
<1>3. CASE P!ProbesEnd
  BY <1>3 DEF P!ProbesEnd
<1>4. CASE P!RequestTick
  BY <1>4 DEF P!RequestTick, P!Drain, P!CatchUp, P!Stop
<1>5. CASE P!TicksEnd
  BY <1>5 DEF P!TicksEnd, P!AfterTicks
<1>6. ASSUME NEW open \in BOOLEAN, P!PumpMessages(open) PROVE Waited'
  BY <1>6 DEF P!PumpMessages
<1>7. ASSUME NEW d \in 0 .. MaxBlock, P!Present(d) PROVE Waited'
  <2>1. stage = "present" /\ stage' = "sleep" /\ UNCHANGED <<rsx_ok, stalled, guest>>
    BY <1>7 DEF P!Present
  <2>2. refAge' = refAge \/ P!Elapse(d)
    BY <1>7 DEF P!Present
  <2>3. QED
    BY <2>1, <2>2 DEF P!Elapse
<1>8. QED
  BY <1>1, <1>2, <1>3, <1>4, <1>5, <1>6, <1>7 DEF P!LoopStep

LEMMA WaitedTitle == Waited /\ (P!TitleStep \/ P!Deliver) => Waited'
BY Times DEF Waited, P!TitleStep, P!Put, P!WaitForRef, P!WaitForVblank, P!Deliver,
   P!loopVars, P!rsxVars, P!guestVars

LEMMA WaitedSteps == LoopInv /\ Waited /\ [TickerNext]_tickerVars => Waited'
<1>1. Waited /\ UNCHANGED pacingVars => Waited'
  BY DEF Waited, pacingVars
<1>2. QED
  BY <1>1, WaitedTitle, WaitedPass DEF TickerNext, TickerPass, TitleOfTicker, Poll, EndPoll,
     tickerVars

\* For any times: while the window is open and the drain not stopped, the wait for
\* a reference is one present and one sleep at most.
THEOREM ReferenceBounded == TickerSpec => []RefWaitBounded
<1>1. P!Init => Waited
  BY Times DEF P!Init, Waited
<1>2. Waited => RefWaitBounded
  BY Times DEF Waited, RefWaitBounded
<1>3. LoopInv /\ Waited /\ [TickerNext]_tickerVars => Waited'
  BY WaitedSteps
<1>4. QED
  BY <1>1, <1>2, <1>3, LoopAlways, PTL DEF TickerSpec, TickerInit

-----------------------------------------------------------------------------
(* The tasksets *)

\* The list and the tasksets keep their types, also when creations overlap and
\* the list is short.
Within ==
  /\ TypeOK
  /\ \A t \in Thread : pc[t] \in {"append", "entry", "count"} => at[t] < LIST
  /\ \A t \in Thread : pc[t] # "idle" => making[t] \in Taskset

LEMMA WithinCreation ==
  ASSUME Within, NEW t \in Thread, Creation(t) \/ \E s \in Taskset : CreateTaskset2(t, s)
  PROVE  Within'
<1> USE DEF Within, TypeOK, Entry, listVars, taskVars, Goes
<1>1. ASSUME NEW s \in Taskset, CreateTaskset2(t, s) PROVE Within'
  <2>1. excused' \subseteq Taskset
    <3>1. \A u \in Thread : Appending(u) => making[u] \in Taskset
      BY DEF Appending
    <3>2. CASE g_ntasksets < LIST
      <4>1. \/ excused' = excused
            \/ excused' = excused \cup {s} \cup {making[u] : u \in {v \in Thread : Appending(v)}}
        BY <1>1, <3>2 DEF CreateTaskset2
      <4>2. QED
        BY <3>1, <4>1
    <3>3. CASE ~(g_ntasksets < LIST)
      BY <1>1, <3>3 DEF CreateTaskset2
    <3>4. QED
      BY <3>2, <3>3
  <2>2. /\ pc[t] = "idle" /\ pc' = [pc EXCEPT ![t] = IF g_ntasksets < LIST THEN "append" ELSE "zero"]
        /\ creates < MaxCreate /\ creates' = creates + 1
        /\ making' = [making EXCEPT ![t] = s] /\ at' = [at EXCEPT ![t] = g_ntasksets]
        /\ UNCHANGED <<listVars, made, flagged, taskVars, tick>>
    BY <1>1 DEF CreateTaskset2
  <2>3. QED
    BY <2>1, <2>2
<1>2. CASE StoreEntry(t)
  BY <1>2 DEF StoreEntry
<1>3. CASE StoreCount(t)
  BY <1>3 DEF StoreCount
<1>4. CASE Zero(t)
  BY <1>4 DEF Zero
<1>5. ASSUME NEW ok \in BOOLEAN, NEW flag \in BOOLEAN, Make(t, ok, flag) PROVE Within'
  <2>1. made' \subseteq made \cup {making[t]} /\ flagged' \subseteq flagged \cup {making[t]}
    BY <1>5 DEF Make
  <2>2. /\ pc[t] = "make" /\ pc' = [pc EXCEPT ![t] = "idle"] /\ making' = [making EXCEPT ![t] = NoTaskset]
        /\ UNCHANGED <<listVars, taskVars, at, creates, tick, excused>>
    BY <1>5 DEF Make
  <2>3. making[t] \in Taskset
    BY <2>2
  <2>4. QED
    BY <2>1, <2>2, <2>3
<1>6. QED
  BY <1>1, <1>2, <1>3, <1>4, <1>5 DEF Creation

LEMMA WithinTask ==
  ASSUME Within, Tick \/ \E s \in Taskset : CreateTask2(s) \/ SpuCreatesTask(s) \/ TaskExits(s)
  PROVE  Within'
<1> USE DEF Within, TypeOK, callVars, listVars, taskVars
<1>1. CASE Tick
  <2>1. tick' \in 0 .. LIST /\ ready' \subseteq Taskset /\ running' \subseteq Taskset
    BY <1>1 DEF Tick, More, Entry
  <2>2. QED
    BY <1>1, <2>1 DEF Tick
<1>2. ASSUME NEW s \in Taskset, CreateTask2(s) \/ SpuCreatesTask(s) \/ TaskExits(s) PROVE Within'
  <2>1. ready' \subseteq Taskset /\ running' \subseteq Taskset
    BY <1>2 DEF CreateTask2, SpuCreatesTask, TaskExits
  <2>2. QED
    BY <1>2, <2>1 DEF CreateTask2, SpuCreatesTask, TaskExits
<1>3. QED
  BY <1>1, <1>2

\* A taskset has its place for good once its append is over: an entry the list's
\* length covers, before the one any thread under way will store.
Placed(s) ==
  \E i \in Entry :
    /\ g_tasksets[i] = s /\ i < g_ntasksets
    /\ \A u \in Thread : Appending(u) => i < at[u]

\* An append that overlaps no other is the only one, and stores behind all places.
Listing ==
  /\ \A t, u \in Thread : Appending(t) /\ Appending(u) /\ making[t] \notin excused => t = u
  /\ \A t \in Thread : Appending(t) /\ making[t] \notin excused =>
       /\ g_ntasksets = IF pc[t] = "entry" THEN at[t] + 1 ELSE at[t]
       /\ pc[t] = "count" => g_tasksets[at[t]] = making[t]
  /\ \A t \in Thread : pc[t] \in {"zero", "make"} /\ making[t] \notin excused => Placed(making[t])
  /\ \A s \in made \ excused : Placed(s)

LEMMA ListingInit == Init => Listing
BY DEF Init, Listing, Appending

\* A creation loads a length past all places; the ones it overlaps are excused.
LEMMA ListingCreate ==
  ASSUME Within, Listing, NEW t \in Thread, NEW s \in Taskset, CreateTaskset2(t, s)
  PROVE  Listing'
<1> USE DEF Within, TypeOK, listVars, taskVars, Goes
<1>1. /\ pc[t] = "idle" /\ UNCHANGED <<g_tasksets, g_ntasksets, made>>
      /\ making' = [making EXCEPT ![t] = s] /\ at' = [at EXCEPT ![t] = g_ntasksets]
      /\ excused \subseteq excused'
  BY DEF CreateTaskset2
<1>2. \A x \in Taskset : Placed(x) => Placed(x)'
  <2>1. SUFFICES ASSUME NEW x \in Taskset, Placed(x) PROVE Placed(x)'
    OBVIOUS
  <2>2. PICK i \in Entry : /\ g_tasksets[i] = x /\ i < g_ntasksets
                           /\ \A u \in Thread : Appending(u) => i < at[u]
    BY <2>1 DEF Placed
  <2>3. \A u \in Thread : u # t => (Appending(u)' <=> Appending(u)) /\ at'[u] = at[u]
    BY <1>1 DEF CreateTaskset2, Appending
  <2>4. at'[t] = g_ntasksets
    BY <1>1
  <2>5. \A u \in Thread : Appending(u)' => i < at'[u]
    BY <2>2, <2>3, <2>4
  <2>6. QED
    BY <1>1, <2>2, <2>5 DEF Placed
<1>3. \A x \in made' \ excused' : Placed(x)'
  BY <1>1, <1>2 DEF Listing
<1>4. \A u \in Thread : u # t => pc'[u] = pc[u] /\ making'[u] = making[u] /\ at'[u] = at[u]
  BY DEF CreateTaskset2
<1>5. making'[t] = s /\ at'[t] = g_ntasksets
  BY <1>1
<1>6. CASE g_ntasksets < LIST
  <2>1. /\ pc'[t] = "append"
        /\ excused' = IF {u \in Thread : Appending(u)} = {} THEN excused
                      ELSE excused \cup {s} \cup {making[u] : u \in {v \in Thread : Appending(v)}}
    BY <1>6 DEF CreateTaskset2
  <2>2. \A u \in Thread : Appending(u) => making[u] \in excused' /\ s \in excused'
    BY <2>1
  <2>3. \A u \in Thread : u # t => (Appending(u)' <=> Appending(u))
    BY <1>4 DEF Appending
  <2>4. \A u \in Thread : u # t /\ Appending(u)' => making'[u] \in excused' /\ making'[t] \in excused'
    BY <1>4, <1>5, <2>2, <2>3
  <2>5. \A u, v \in Thread : Appending(u)' /\ Appending(v)' /\ making'[u] \notin excused' => u = v
    BY <2>4
  <2>6. \A u \in Thread : Appending(u)' /\ making'[u] \notin excused' =>
          u = t
    BY <2>4
  <2>7. \A u \in Thread : pc'[u] \in {"zero", "make"} /\ making'[u] \notin excused' => Placed(making[u])'
    BY <1>1, <1>2, <1>4, <2>1 DEF Listing
  <2>8. QED
    BY <1>1, <1>3, <1>5, <2>1, <2>5, <2>6, <2>7 DEF Listing, Placed
<1>7. CASE ~(g_ntasksets < LIST)
  <2>1. pc'[t] = "zero" /\ making'[t] \in excused'
    BY <1>5, <1>7 DEF CreateTaskset2
  <2>2. \A u \in Thread : Appending(u)' => u # t /\ Appending(u)
    BY <1>4, <2>1 DEF Appending
  <2>3. \A u, v \in Thread : Appending(u)' /\ Appending(v)' /\ making'[u] \notin excused' => u = v
    BY <1>1, <1>4, <2>2 DEF Listing
  <2>4. \A u \in Thread : Appending(u)' /\ making'[u] \notin excused' =>
          /\ g_ntasksets' = IF pc'[u] = "entry" THEN at'[u] + 1 ELSE at'[u]
          /\ pc'[u] = "count" => g_tasksets'[at'[u]] = making'[u]
    BY <1>1, <1>4, <2>2 DEF Listing
  <2>5. \A u \in Thread : pc'[u] \in {"zero", "make"} /\ making'[u] \notin excused' => Placed(making[u])'
    BY <1>1, <1>2, <1>4, <2>1 DEF Listing
  <2>6. QED
    BY <1>3, <2>3, <2>4, <2>5 DEF Listing, Placed
<1>8. QED
  BY <1>6, <1>7

\* A store behind all places moves none, and the last one of an append gives its
\* taskset its place.
LEMMA ListingStore ==
  ASSUME Within, Listing, NEW t \in Thread, StoreEntry(t) \/ StoreCount(t) PROVE Listing'
<1> USE DEF Within, TypeOK, taskVars, Goes
<1>1. /\ Appending(t) /\ at[t] \in Entry /\ at[t] \in Nat /\ making[t] \in Taskset
      /\ UNCHANGED <<made, making, at, excused>>
      /\ \A u \in Thread : u # t => pc'[u] = pc[u]
  BY DEF StoreEntry, StoreCount, Appending, Entry
<1>2. \A u \in Thread : Appending(u)' => Appending(u)
  BY <1>1 DEF StoreEntry, StoreCount, Appending
<1>3. \A i \in Entry : i # at[t] => g_tasksets'[i] = g_tasksets[i]
  BY <1>1 DEF StoreEntry, StoreCount, Entry
<1>4. g_ntasksets' = g_ntasksets \/ g_ntasksets' = at[t] + 1
  BY DEF StoreEntry, StoreCount
<1>5. \A s \in Taskset : Placed(s) => Placed(s)'
  <2>1. SUFFICES ASSUME NEW s \in Taskset, Placed(s) PROVE Placed(s)'
    OBVIOUS
  <2>2. PICK i \in Entry : /\ g_tasksets[i] = s /\ i < g_ntasksets
                           /\ \A u \in Thread : Appending(u) => i < at[u]
    BY <2>1 DEF Placed
  <2>3. i \in Nat /\ i < at[t]
    BY <1>1, <2>2 DEF Entry
  <2>4. i < g_ntasksets' /\ g_tasksets'[i] = s
    BY <1>1, <1>3, <1>4, <2>2, <2>3
  <2>5. \A u \in Thread : Appending(u)' => i < at'[u]
    BY <1>1, <1>2, <2>2
  <2>6. QED
    BY <2>4, <2>5 DEF Placed
<1>6. \A u, v \in Thread : Appending(u)' /\ Appending(v)' /\ making'[u] \notin excused' => u = v
  BY <1>1, <1>2 DEF Listing
<1>7. \A s \in made' \ excused' : Placed(s)'
  BY <1>1, <1>5 DEF Listing
<1>8. \A u \in Thread : u # t /\ Appending(u)' => making[u] \in excused
  BY <1>1, <1>2 DEF Listing
<1>9. making[t] \notin excused => \A u \in Thread : Appending(u)' => u = t
  BY <1>1, <1>2 DEF Listing
<1>10. ASSUME making[t] \notin excused
       PROVE  /\ pc'[t] \in {"entry", "count"} =>
                   /\ g_ntasksets' = IF pc'[t] = "entry" THEN at[t] + 1 ELSE at[t]
                   /\ pc'[t] = "count" => g_tasksets'[at[t]] = making[t]
              /\ pc'[t] = "zero" => g_tasksets'[at[t]] = making[t] /\ g_ntasksets' = at[t] + 1
  <2>1. /\ g_ntasksets = IF pc[t] = "entry" THEN at[t] + 1 ELSE at[t]
        /\ pc[t] = "count" => g_tasksets[at[t]] = making[t]
    BY <1>1, <1>10 DEF Listing
  <2>2. CASE StoreEntry(t)
    BY <1>1, <2>1, <2>2 DEF StoreEntry
  <2>3. CASE StoreCount(t)
    BY <1>1, <2>1, <2>3 DEF StoreCount
  <2>4. QED
    BY <2>2, <2>3
<1>11. pc'[t] \in {"entry", "count", "zero"}
  BY DEF StoreEntry, StoreCount
<1>12. pc'[t] = "zero" /\ making[t] \notin excused => Placed(making[t])'
  <2>1. SUFFICES ASSUME pc'[t] = "zero", making[t] \notin excused PROVE Placed(making[t])'
    OBVIOUS
  <2>2. \A u \in Thread : ~Appending(u)'
    BY <1>9, <2>1 DEF Appending
  <2>3. g_tasksets'[at[t]] = making[t] /\ at[t] < g_ntasksets'
    BY <1>1, <1>10, <2>1
  <2>4. QED
    BY <1>1, <2>2, <2>3 DEF Placed
<1>13. \A u \in Thread : pc'[u] \in {"zero", "make"} /\ making'[u] \notin excused' => Placed(making[u])'
  BY <1>1, <1>5, <1>11, <1>12 DEF Listing
<1>14. \A u \in Thread : Appending(u)' /\ making'[u] \notin excused' =>
         /\ g_ntasksets' = IF pc'[u] = "entry" THEN at'[u] + 1 ELSE at'[u]
         /\ pc'[u] = "count" => g_tasksets'[at'[u]] = making'[u]
  BY <1>1, <1>8, <1>10, <1>11 DEF Appending
<1>15. QED
  BY <1>6, <1>7, <1>13, <1>14 DEF Listing, Placed

LEMMA ListingMake ==
  ASSUME Within, Listing, NEW t \in Thread, Zero(t) \/ \E ok, flag \in BOOLEAN : Make(t, ok, flag)
  PROVE  Listing'
<1> USE DEF Within, TypeOK, taskVars, listVars, Goes
<1>1. /\ pc[t] \in {"zero", "make"} /\ pc'[t] \in {"make", "idle"}
      /\ UNCHANGED <<g_tasksets, g_ntasksets, at, excused>>
      /\ \A u \in Thread : u # t => pc'[u] = pc[u] /\ making'[u] = making[u]
  BY DEF Zero, Make
<1>2. made' \subseteq made \cup {making[t]} /\ (pc'[t] = "make" => making'[t] = making[t])
  BY DEF Zero, Make
<1>3. \A u \in Thread : (Appending(u)' <=> Appending(u)) /\ (Appending(u) => u # t)
  BY <1>1 DEF Appending
<1>4. \A s \in Taskset : Placed(s) => Placed(s)'
  BY <1>1, <1>3 DEF Placed
<1>5. \A s \in made' \ excused' : Placed(s)'
  BY <1>1, <1>2, <1>4 DEF Listing
<1>6. \A u \in Thread : pc'[u] \in {"zero", "make"} /\ making'[u] \notin excused' => Placed(making[u])'
  BY <1>1, <1>2, <1>4 DEF Listing
<1>7. \A u, v \in Thread : Appending(u)' /\ Appending(v)' /\ making'[u] \notin excused' => u = v
  BY <1>1, <1>3 DEF Listing
<1>8. \A u \in Thread : Appending(u)' /\ making'[u] \notin excused' =>
        /\ g_ntasksets' = IF pc'[u] = "entry" THEN at'[u] + 1 ELSE at'[u]
        /\ pc'[u] = "count" => g_tasksets'[at'[u]] = making'[u]
  BY <1>1, <1>3 DEF Listing
<1>9. QED
  BY <1>5, <1>6, <1>7, <1>8 DEF Listing, Placed

LEMMA ListingTask ==
  ASSUME Listing, Tick \/ \E s \in Taskset : CreateTask2(s) \/ SpuCreatesTask(s) \/ TaskExits(s)
  PROVE  Listing'
<1>1. UNCHANGED <<g_tasksets, g_ntasksets, made, pc, making, at, excused>>
  BY DEF Tick, CreateTask2, SpuCreatesTask, TaskExits, listVars, callVars
<1>2. QED
  BY <1>1 DEF Listing, Placed, Appending

LEMMA ListingSteps == Within /\ Listing /\ [TasksetNext]_vars => Listing'
<1>1. Listing /\ UNCHANGED vars => Listing'
  BY DEF Listing, Placed, Appending, vars, listVars, callVars
<1>2. QED
  BY <1>1, ListingCreate, ListingStore, ListingMake, ListingTask
     DEF TasksetNext, TasksetStep, Creation

LEMMA WithinInit == Init => Within
BY DEF Init, Within, TypeOK, Entry

LEMMA WithinSteps == Within /\ [TasksetNext]_vars => Within'
<1>1. Within /\ UNCHANGED vars => Within'
  BY DEF Within, TypeOK, vars, listVars, taskVars, callVars
<1>2. QED
  BY <1>1, WithinCreation, WithinTask DEF TasksetNext, TasksetStep

\* For any number of creating threads, creations and entries, and either order of
\* the two stores, the list loses a taskset at its own creation or never.
THEOREM EveryOnePolled == TasksetSpec => []EveryTasksetPolled
<1>1. Within /\ Listing => EveryTasksetPolled
  BY DEF Within, TypeOK, Listing, Placed, EveryTasksetPolled, Polled
<1>2. QED
  BY <1>1, WithinInit, WithinSteps, ListingInit, ListingSteps, PTL DEF TasksetSpec

\* The ticker's thread runs the list as it is specified by itself, so what holds
\* of the list holds of it there.
THEOREM RunsTasksets == TickerSpec => TasksetSpec
<1>1. [TickerNext]_tickerVars => [TasksetNext]_vars
  BY DEF TickerNext, TickerPass, TitleOfTicker, Poll, EndPoll, TasksetNext, tickerVars
<1>2. QED
  BY <1>1, PTL DEF TickerSpec, TickerInit, TasksetSpec

LEMMA WithinAlways == TasksetSpec => []Within
BY WithinInit, WithinSteps, PTL DEF TasksetSpec

\* The loop, the list and the tasksets keep their types.
THEOREM TypeCorrect == TickerSpec => []TickerTypeOK
<1>1. Within /\ LoopInv => TickerTypeOK
  BY DEF Within, LoopInv, LoopTypeOK, TickerTypeOK
<1>2. QED
  BY <1>1, RunsTasksets, WithinAlways, LoopAlways, PTL
=============================================================================
