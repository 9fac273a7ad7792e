------------------------------ MODULE Tasksets ------------------------------
(***************************************************************************)
(* cellSpursCreateTaskset2 of hle_extra.cpp and the list its poll works    *)
(* from.  The runtime looks for a ready task when a task exits only, so a  *)
(* task an SPU creates would wait for ever: the ticker polls every         *)
(* taskset on the list.  Nothing guards the list; a creation appends to    *)
(* it in a load and two stores, which the build may put in either order,   *)
(* and before the taskset is made.  A list that is full, or appends that   *)
(* overlap, leave tasksets out.  Module Ticker composes this with the      *)
(* thread that polls.                                                      *)
(***************************************************************************)
EXTENDS Naturals

CONSTANTS
  Thread,     \* guest threads that create tasksets
  Taskset,    \* the addresses the title makes tasksets at
  NoTaskset,  \* the null address an unused entry holds
  LIST,       \* entries of g_tasksets (8)
  MayFail,    \* whether the runtime's calls may fail
  MaxCreate   \* bound of the model: creations

ASSUME TasksetAssumption ==
  /\ NoTaskset \notin Taskset
  /\ LIST \in Nat \ {0} /\ MaxCreate \in Nat
  /\ MayFail \in BOOLEAN

Entry == 0 .. LIST - 1

VARIABLES
  g_tasksets, g_ntasksets,
  made,     \* tasksets the runtime made, with the header the SPU side wants
  flagged,  \* of those, the ones with an event flag
  ready,    \* tasksets with a task an SPU created, not started yet
  running,  \* tasksets with a task that runs
  pc,       \* where the thread is
  making,   \* the taskset it creates
  at,       \* the list's length it loaded
  tick,     \* the entry the ticker polls next
  creates,  \* creations so far
  excused   \* history: tasksets created when the list was full, or while another
            \* thread appended

listVars == <<g_tasksets, g_ntasksets>>
callVars == <<pc, making, at, creates>>
taskVars == <<ready, running>>
vars == <<listVars, made, flagged, taskVars, callVars, tick, excused>>

Init ==
  /\ g_tasksets = [i \in Entry |-> NoTaskset] /\ g_ntasksets = 0
  /\ made = {} /\ flagged = {}
  /\ ready = {} /\ running = {}
  /\ pc = [t \in Thread |-> "idle"]
  /\ making = [t \in Thread |-> NoTaskset]
  /\ at = [t \in Thread |-> 0]
  /\ tick = 0
  /\ creates = 0 /\ excused = {}

Goes(t, to) == pc' = [pc EXCEPT ![t] = to]

-----------------------------------------------------------------------------
Appending(t) == pc[t] \in {"append", "entry", "count"}

\* A list that is full leaves the new taskset out.  The title makes a taskset
\* where none is used, or again where an old one was.
CreateTaskset2(t, s) ==
  /\ pc[t] = "idle" /\ creates < MaxCreate
  /\ s \notin ready \cup running
  /\ \A u \in Thread : making[u] # s
  /\ creates' = creates + 1
  /\ making' = [making EXCEPT ![t] = s]
  /\ at' = [at EXCEPT ![t] = g_ntasksets]
  /\ IF g_ntasksets < LIST
       THEN LET others == {u \in Thread : Appending(u)}
            IN  /\ Goes(t, "append")
                /\ excused' = IF others = {} THEN excused
                              ELSE excused \cup {s} \cup {making[u] : u \in others}
       ELSE Goes(t, "zero") /\ excused' = excused \cup {s}
  /\ UNCHANGED <<listVars, made, flagged, taskVars, tick>>

StoreEntry(t) ==
  /\ pc[t] \in {"append", "entry"}
  /\ g_tasksets' = [g_tasksets EXCEPT ![at[t]] = making[t]]
  /\ Goes(t, IF pc[t] = "append" THEN "count" ELSE "zero")
  /\ UNCHANGED <<g_ntasksets, made, flagged, taskVars, making, at, creates, tick, excused>>

StoreCount(t) ==
  /\ pc[t] \in {"append", "count"}
  /\ g_ntasksets' = at[t] + 1
  /\ Goes(t, IF pc[t] = "append" THEN "entry" ELSE "zero")
  /\ UNCHANGED <<g_tasksets, made, flagged, taskVars, making, at, creates, tick, excused>>

\* All 0x2900 bytes are zeroed: a taskset that was there is no more.
Zero(t) ==
  /\ pc[t] = "zero"
  /\ made' = made \ {making[t]} /\ flagged' = flagged \ {making[t]}
  /\ Goes(t, "make")
  /\ UNCHANGED <<listVars, taskVars, making, at, creates, tick, excused>>

\* The v1 call, the size, and an event flag for each id that can be had.
Make(t, ok, flag) ==
  /\ pc[t] = "make"
  /\ MayFail \/ (ok /\ flag)
  /\ IF ok
       THEN /\ made' = made \cup {making[t]}
            /\ flagged' = IF flag THEN flagged \cup {making[t]} ELSE flagged
       ELSE UNCHANGED <<made, flagged>>
  /\ making' = [making EXCEPT ![t] = NoTaskset]
  /\ Goes(t, "idle")
  /\ UNCHANGED <<listVars, taskVars, at, creates, tick, excused>>

-----------------------------------------------------------------------------
\* cellSpursCreateTask2: the runtime starts the task of a taskset it made.
CreateTask2(s) ==
  /\ s \in made /\ \A t \in Thread : making[t] # s
  /\ running' = running \cup {s}
  /\ UNCHANGED <<listVars, made, flagged, ready, callVars, tick, excused>>

\* An SPU task creates another; without an event flag that is refused.
SpuCreatesTask(s) ==
  /\ s \in running /\ s \in flagged
  /\ ready' = ready \cup {s}
  /\ UNCHANGED <<listVars, made, flagged, running, callVars, tick, excused>>

\* A task exits, and the runtime starts one that is ready.
TaskExits(s) ==
  /\ s \in running
  /\ ready' = ready \ {s}
  /\ running' = IF s \in ready THEN running ELSE running \ {s}
  /\ UNCHANGED <<listVars, made, flagged, callVars, tick, excused>>

MoreThanOne == tick + 1 < g_ntasksets  \* mutant: the last entry is not polled
More == tick < g_ntasksets

\* tm_pool_tick, an entry at a time.
Tick ==
  /\ IF More
       THEN LET s == g_tasksets[tick]
            IN  /\ tick' = tick + 1
                /\ ready' = ready \ {s}
                /\ running' = IF s \in ready THEN running \cup {s} ELSE running
       ELSE tick' = 0 /\ UNCHANGED taskVars
  /\ UNCHANGED <<listVars, made, flagged, callVars, excused>>

-----------------------------------------------------------------------------
Creation(t) ==
  \/ StoreEntry(t) \/ StoreCount(t) \/ Zero(t)
  \/ \E ok, flag \in BOOLEAN : Make(t, ok, flag)

\* What the title, the SPUs and the runtime do.
TasksetStep ==
  \/ \E t \in Thread : Creation(t) \/ \E s \in Taskset : CreateTaskset2(t, s)
  \/ \E s \in Taskset : CreateTask2(s) \/ SpuCreatesTask(s) \/ TaskExits(s)

TasksetNext == TasksetStep \/ Tick
TasksetSpec == Init /\ [][TasksetNext]_vars

-----------------------------------------------------------------------------
\* The list, the tasksets and the threads keep their types.
TypeOK ==
  /\ g_tasksets \in [Entry -> Taskset \cup {NoTaskset}]
  /\ g_ntasksets \in 0 .. LIST /\ tick \in 0 .. LIST
  /\ made \subseteq Taskset /\ flagged \subseteq Taskset
  /\ ready \subseteq Taskset /\ running \subseteq Taskset
  /\ pc \in [Thread -> {"idle", "append", "entry", "count", "zero", "make"}]
  /\ making \in [Thread -> Taskset \cup {NoTaskset}]
  /\ at \in [Thread -> 0 .. LIST]
  /\ creates \in 0 .. MaxCreate
  /\ excused \subseteq Taskset

Polled == {g_tasksets[i] : i \in {j \in Entry : j < g_ntasksets}}

\* The list loses a taskset only at that taskset's own creation: if it found the
\* list full or overlapped another append.  No later append, finished or not, in
\* either order of the stores and however many race, takes away an older one.
EveryTasksetPolled == made \subseteq Polled \cup excused

\* A task an SPU creates is started, though the task that made it waits for it
\* and never exits, if its taskset was not left out of the list.
ReadyTaskStarts == \A s \in Taskset : s \in ready ~> s \notin ready \/ s \in excused
=============================================================================
