-------------------------------- MODULE Host --------------------------------
(***************************************************************************)
(* What the guest threads run on, in boot_main.cpp: main, which sets the   *)
(* handlers and the memory up, loads the title and dispatches it; the      *)
(* guest memory, reserved as a whole and committed page by page as         *)
(* accesses fault; the handlers of a thread that crashes, aborts or        *)
(* overflows its stack; and the watchdog, which stops one thread after the *)
(* other to read its stack.  It is composed with the imports' handlers     *)
(* (Registry) and with the once calls of ThreadOnce: their control words   *)
(* lie in that memory, and the thread that makes one may be stopped, or    *)
(* fault, at any point of it.                                              *)
(***************************************************************************)
EXTENDS ThreadOnce, Registry

CONSTANTS
  Main,      \* the thread that boots, then runs the title's entry
  NoThread,  \* no thread
  Top,       \* last 64K page of the guest space; the guard page follows it
  MaxWork    \* bound of the model: accesses, prints and failures of the threads

ASSUME HostAssumption ==
  /\ Main \in Thread /\ NoThread \notin Thread
  /\ Top \in Nat /\ MaxWork \in Nat

VARIABLES
  boot,       \* how far main is
  exit,       \* why the process ended, or "none"
  committed,  \* pages that are backed
  refused,    \* whether the system refused to back one
  doing,      \* what the host does with each thread
  need,       \* pages its access lacks
  holder,     \* the holder of each process-wide lock
  work,       \* accesses, prints and failures so far
  wd, todo, suspended  \* the watchdog, the threads of its snapshot, the one it stopped

memory == <<committed, refused>>
threads == <<doing, need, holder, work>>
watchdog == <<wd, todo, suspended>>
registry == <<plainOf, ctxOf>>
hostVars == <<vars, registry, boot, exit, memory, threads, watchdog>>

Page == 0 .. Top + 1
OncePage == 0     \* the control words are in it, with the title's other data
ImagePage == Top  \* a page ppu_load_elf fills
Lock == {"shared", "once"}  \* the stdio and the loader lock, as one; once_lock
Dying == {"crash", "fail"}
BootStage == {"start", "handlers", "reserved", "loaded", "table", "extra", "crt",
              "registered", "threads", "run"}

HostInit ==
  /\ Init /\ NothingServed
  /\ boot = "start" /\ exit = "none"
  /\ committed = {} /\ refused = FALSE
  /\ doing = [t \in Thread |-> "runs"] /\ need = [t \in Thread |-> {}]
  /\ holder = [l \in Lock |-> NoThread] /\ work = 0
  /\ wd = "off" /\ todo = {} /\ suspended = NoThread

CanRun(t) == exit = "none" /\ suspended # t /\ (boot = "run" \/ t = Main)
Does(t, what) == doing' = [doing EXCEPT ![t] = what]
Free(l) == holder[l] = NoThread
Works(t) ==
  /\ CanRun(t) /\ doing[t] = "runs" /\ work < MaxWork
  /\ work' = work + 1

-----------------------------------------------------------------------------
(* main *)

Boots(from, to) == boot = from /\ CanRun(Main) /\ doing[Main] = "runs" /\ boot' = to

\* The crash filter and the handlers, the one that commits pages the first.
InstallHandlers ==
  /\ Boots("start", "handlers")
  /\ UNCHANGED <<vars, registry, exit, memory, threads, watchdog>>

Reserve ==
  /\ Boots("handlers", "reserved")
  /\ UNCHANGED <<vars, registry, exit, memory, threads, watchdog>>

\* ppu_load_elf writes the segments to guest memory.
LoadElf ==
  /\ Boots("reserved", "loaded") /\ ImagePage \in committed
  /\ UNCHANGED <<vars, registry, exit, memory, threads, watchdog>>

BootFails ==
  /\ boot \in {"handlers", "reserved"} /\ Boots(boot, boot)
  /\ exit' = "failed"
  /\ UNCHANGED <<vars, registry, memory, threads, watchdog>>

RegisterNext(from, to) ==
  /\ Boots(from, to)
  /\ UNCHANGED <<vars, exit, memory, threads, watchdog>>

ExtraLast(from, to) ==  \* mutant: the title's handlers after the CRT's
  \/ from = "table" /\ RegisterCrt
  \/ from = "extra" /\ RegisterExtra
  \/ from = "crt" /\ RegisterFs

\* The title's handlers before the runtime's CRT and file system, which would
\* win the lookup.
Registers(from, to) ==
  \/ from = "table" /\ RegisterExtra
  \/ from = "extra" /\ RegisterCrt
  \/ from = "crt" /\ RegisterFs

\* The lifted functions, the imports and the system calls.
Register ==
  \/ RegisterNext("loaded", "table") /\ RegisterTable
  \/ \E step \in {<<"table", "extra">>, <<"extra", "crt">>, <<"crt", "registered">>} :
       RegisterNext(step[1], step[2]) /\ Registers(step[1], step[2])

\* The ticker is module Ticker's; a watchdog of no period returns at once.
StartThreads ==
  /\ Boots("registered", "threads")
  /\ wd' \in {"off", "sleep"}
  /\ UNCHANGED <<vars, registry, exit, memory, threads, todo, suspended>>

Dispatch ==
  /\ Boots("threads", "run")
  /\ UNCHANGED <<vars, registry, exit, memory, threads, watchdog>>

\* The entry function unwinds, and the process ends with main.
Returns ==
  /\ Boots("run", "run") /\ ~Open(Main)
  /\ exit' = "returned"
  /\ UNCHANGED <<vars, registry, memory, threads, watchdog>>

-----------------------------------------------------------------------------
(* Guest memory *)

\* An access to pages of which one is not backed.
Faults(t, pages) ==
  /\ ~(pages \subseteq committed)
  /\ need' = [need EXCEPT ![t] = pages \ committed]
  /\ Does(t, "fault")

LoadFaults ==
  /\ Boots("reserved", "reserved") /\ Faults(Main, {ImagePage})
  /\ UNCHANGED <<vars, registry, exit, memory, holder, work, watchdog>>

\* The title's own accesses; a wide one at the end of a page needs the next too.
Touch(t, p, wide) ==
  /\ boot = "run" /\ Works(t)
  /\ Faults(t, IF wide THEN {p, p + 1} ELSE {p})
  /\ UNCHANGED <<vars, registry, boot, exit, memory, holder, watchdog>>

InSpace(p) == p \in 0 .. Top  \* mutant: VM_SIZE without the guard page
InArena(p) == p \in 0 .. Top + 1

\* The lowest of the pages that lack is the one the fault names.
First(t) == {p \in need[t] : \A q \in need[t] : p <= q}

CommitCleared(t, p, ok) ==  \* mutant: a page that is there is backed afresh
  /\ CanRun(t) /\ doing[t] = "fault"
  /\ IF InArena(p) /\ ok
       THEN /\ committed' = committed \cup {p} /\ UNCHANGED refused
            /\ need' = [need EXCEPT ![t] = @ \ committed']
            /\ IF need'[t] = {} THEN Does(t, "runs") ELSE UNCHANGED doing
            /\ word' = IF p = OncePage THEN [c \in Ctrl |-> 0] ELSE word
       ELSE /\ refused' = (refused \/ InArena(p))
            /\ Does(t, "crash") /\ UNCHANGED <<word, committed, need>>
  /\ UNCHANGED <<stack, started, ended, calls, registry, boot, exit, holder, work, watchdog>>

\* vm_commit_veh, on the thread that faulted: others may have been faster, and
\* a page they have written to stays as it is.
Commit(t, p, ok) ==
  /\ CanRun(t) /\ doing[t] = "fault"
  /\ IF InArena(p) /\ ok
       THEN /\ committed' = committed \cup {p} /\ UNCHANGED refused
            /\ need' = [need EXCEPT ![t] = @ \ committed']
            /\ IF need'[t] = {} THEN Does(t, "runs") ELSE UNCHANGED doing
       ELSE /\ refused' = (refused \/ InArena(p))
            /\ Does(t, "crash") /\ UNCHANGED <<committed, need>>
  /\ UNCHANGED <<vars, registry, boot, exit, holder, work, watchdog>>

-----------------------------------------------------------------------------
(* The once calls, on this memory *)

\* The first to touch the page does so under once_lock.
OnceFaults(t) ==
  /\ boot = "run" /\ CanRun(t) /\ doing[t] = "runs"
  /\ Open(t) /\ Innermost(t).at = "enter" /\ Innermost(t).ctrl # Null
  /\ Free("once") /\ holder' = [holder EXCEPT !["once"] = t]
  /\ Faults(t, {OncePage})
  /\ UNCHANGED <<vars, registry, boot, exit, memory, work, watchdog>>

OnceEnds(t) ==
  /\ boot = "run" /\ CanRun(t) /\ doing[t] = "runs"
  /\ holder["once"] \in {t, NoThread} /\ holder' = [holder EXCEPT !["once"] = NoThread]
  /\ Open(t) /\ (OncePage \in committed \/ Innermost(t).ctrl = Null)
  /\ Win(t) \/ Lose(t)
  /\ UNCHANGED <<registry, boot, exit, memory, doing, need, work, watchdog>>

TitleOnce(t) ==
  /\ boot = "run" /\ CanRun(t) /\ doing[t] = "runs"
  /\ \E c \in Ctrl \cup {Null}, opd \in BOOLEAN : CallOnce(t, c, opd)
  /\ UNCHANGED <<registry, boot, exit, memory, threads, watchdog>>

InitEnds(t) ==
  /\ boot = "run" /\ CanRun(t) /\ doing[t] = "runs" /\ InitDone(t)
  /\ UNCHANGED <<registry, boot, exit, memory, threads, watchdog>>

-----------------------------------------------------------------------------
(* Locks every thread shares, and the ends of the process *)

Take(t) ==
  /\ Works(t) /\ Free("shared") /\ t # holder["once"]
  /\ holder' = [holder EXCEPT !["shared"] = t] /\ Does(t, "shared")
  /\ UNCHANGED <<vars, registry, boot, exit, memory, need, watchdog>>

Release(t) ==
  /\ CanRun(t) /\ doing[t] = "shared"
  /\ holder' = [holder EXCEPT !["shared"] = NoThread] /\ Does(t, "runs")
  /\ UNCHANGED <<vars, registry, boot, exit, memory, need, work, watchdog>>

\* The recompiled CRT aborts, or the guest recurses for ever.
Fails(t) ==
  /\ boot = "run" /\ Works(t) /\ t # holder["once"]
  /\ Does(t, "fail")
  /\ UNCHANGED <<vars, registry, boot, exit, memory, need, holder, watchdog>>

\* The three handlers print and look modules up, and the process ends.
Report(t) ==
  /\ CanRun(t) /\ doing[t] \in Dying
  /\ Free("shared")
  /\ exit' = "died"
  /\ UNCHANGED <<vars, registry, boot, memory, threads, watchdog>>

-----------------------------------------------------------------------------
(* The watchdog *)

Watches(from, to) == exit = "none" /\ wd = from /\ wd' = to

\* The label is printed, and the snapshot taken.
WdWake ==
  /\ Watches("sleep", "scan") /\ Free("shared")
  /\ todo' = Thread
  /\ UNCHANGED <<vars, registry, boot, exit, memory, threads, suspended>>

\* A thread that cannot be opened any more is passed over; of one that can be,
\* the context may still be refused.
WdOpen(t, how) ==
  /\ Watches("scan", how) /\ t \in todo
  /\ todo' = todo \ {t}
  /\ suspended' = IF how = "scan" THEN NoThread ELSE t
  /\ UNCHANGED <<vars, registry, boot, exit, memory, threads>>

WdResumeAfterPrint ==  \* mutant: it prints while the thread is stopped
  /\ wd \in {"held", "blind"}
  /\ IF wd = "held" THEN Watches("held", "scan") /\ Free("shared")
                    ELSE Watches("blind", "scan")
  /\ suspended' = NoThread
  /\ UNCHANGED <<vars, registry, boot, exit, memory, threads, todo>>

\* The stack is read without a call that could wait, whether its end was found
\* or not; a thread whose context cannot be had has nothing to print.
WdResume ==
  /\ wd \in {"held", "blind"}
  /\ IF wd = "held" THEN Watches("held", "print") ELSE Watches("blind", "scan")
  /\ suspended' = NoThread
  /\ UNCHANGED <<vars, registry, boot, exit, memory, threads, todo>>

WdPrint ==
  /\ Watches("print", "scan") /\ Free("shared")
  /\ UNCHANGED <<vars, registry, boot, exit, memory, threads, todo, suspended>>

WdRoundEnds ==
  /\ Watches("scan", "sleep") /\ todo = {} /\ Free("shared")
  /\ UNCHANGED <<vars, registry, boot, exit, memory, threads, todo, suspended>>

-----------------------------------------------------------------------------
MainStep ==
  \/ InstallHandlers \/ Reserve \/ LoadElf \/ BootFails \/ Register
  \/ StartThreads \/ Dispatch \/ LoadFaults

\* What a thread does once it has begun something.
HostStep(t) ==
  \/ \E p \in First(t), ok \in BOOLEAN : Commit(t, p, ok)
  \/ OnceFaults(t) \/ OnceEnds(t) \/ InitEnds(t) \/ Release(t) \/ Report(t)

TitleWork(t) ==
  \/ TitleOnce(t)
  \/ \E p \in 0 .. Top, wide \in BOOLEAN : Touch(t, p, wide)
  \/ Take(t) \/ Fails(t)

WatchdogStep ==
  \/ WdWake \/ WdResume \/ WdPrint \/ WdRoundEnds
  \/ \E t \in Thread, how \in {"held", "blind", "scan"} : WdOpen(t, how)

HostNext ==
  \/ MainStep \/ Returns \/ WatchdogStep
  \/ \E t \in Thread : HostStep(t) \/ TitleWork(t)

\* The watchdog stops a thread for moments in every period, so a thread that can
\* run again and again does; the watchdog itself nobody stops.
HostFairness ==
  /\ WF_hostVars(MainStep) /\ WF_hostVars(WatchdogStep)
  /\ \A t \in Thread : SF_hostVars(HostStep(t))

HostSpec == HostInit /\ [][HostNext]_hostVars /\ HostFairness

-----------------------------------------------------------------------------
\* Main, the memory, the threads and the watchdog keep their types; a lock is
\* held by one that is inside it, and only the thread being read is stopped.
HostTypeOK ==
  /\ plainOf \in [Import -> Source] /\ ctxOf \in [Import -> Source]
  /\ boot \in BootStage /\ exit \in {"none", "failed", "returned", "died"}
  /\ committed \subseteq Page /\ refused \in BOOLEAN
  /\ doing \in [Thread -> {"runs", "fault", "shared"} \cup Dying]
  /\ need \in [Thread -> SUBSET Page]
  /\ \A t \in Thread : doing[t] = "fault" => need[t] # {}
  /\ holder \in [Lock -> Thread \cup {NoThread}]
  /\ ~Free("shared") => doing[holder["shared"]] = "shared"
  /\ work \in 0 .. MaxWork
  /\ wd \in {"off", "sleep", "scan", "held", "blind", "print"} /\ todo \subseteq Thread
  /\ suspended \in Thread \cup {NoThread} /\ (wd \in {"held", "blind"} <=> suspended # NoThread)

\* The comment at 619: the first to register an import serves it.  Once the title
\* runs, its own handlers serve every import they are meant to, and those of the
\* runtime the rest, though the two overlap and main decides the order.
OverridesServe ==
  boot = "run" => \A i \in Import :
    /\ i \in Extra => Serves(i) = "extra"
    /\ i \in Table \cup TableCtx \cup Crt \cup Fs => Serves(i) # "none"

\* The comment at 536: every guest offset is valid, at the top edge too.  A
\* thread crashes on guest memory only when the system refused a page.
EveryOffsetValid == (\E t \in Thread : doing[t] = "crash") => refused

\* The comment at 452: the watchdog must not wait for a lock a thread it stopped
\* holds.  It comes to the end of every round, whatever the threads hold.
RoundsEnd == wd = "scan" ~> wd = "sleep" \/ exit # "none"

\* Every once call returns, also on a thread the watchdog stops inside it and on
\* one whose first access to the word faults, unless the process ends.
OnceReturns == \A t \in Thread : Open(t) ~> ~Open(t) \/ exit # "none"
=============================================================================
