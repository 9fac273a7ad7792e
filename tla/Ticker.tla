------------------------------- MODULE Ticker -------------------------------
(***************************************************************************)
(* The ticker thread with the probe that matters to the title: its loop    *)
(* (FramePacing) drives the poll of the tasksets (Tasksets), between the   *)
(* drain of the FIFO and the vblanks.  So a task waits for a present that  *)
(* blocks, a vblank for a poll, and everything for the one thread.         *)
(***************************************************************************)
EXTENDS Tasksets, Integers

CONSTANTS PERIOD, BURST, POOL, RefTimeout, MaxBlock, MaxStall, MaxLag

\* A present may block for longer than a burst makes up for.
ASSUME PacingAssumption ==
  /\ {PERIOD, BURST, POOL, MaxStall, RefTimeout} \subseteq Nat \ {0}
  /\ MaxBlock \in Nat /\ MaxLag \in Nat

VARIABLES stage, live, rsx_ok, due, fired, poolDue, fifo, stalled, flip, tickPending, guest, refAge

P == INSTANCE FramePacing

pacingVars ==
  <<stage, live, rsx_ok, due, fired, poolDue, fifo, stalled, flip, tickPending, guest, refAge>>
tickerVars == <<vars, pacingVars>>

TickerInit == Init /\ P!Init

\* tm_memdump_tick calls tm_pool_tick: the poll when it is due, then the rest.
Poll == stage = "probes" /\ poolDue >= 0 /\ More /\ Tick /\ UNCHANGED pacingVars

EndPoll ==
  /\ P!ProbesEnd
  /\ IF poolDue >= 0 THEN ~More /\ Tick ELSE UNCHANGED vars

TickerPass ==
  \/ Poll \/ EndPoll
  \/ P!LoopStep /\ UNCHANGED vars

TitleOfTicker ==
  \/ TasksetStep /\ UNCHANGED pacingVars
  \/ (P!TitleStep \/ P!Deliver) /\ UNCHANGED vars

TickerNext == TickerPass \/ TitleOfTicker

\* The ticker runs on, and the title's main thread comes to an import.
TickerSpec ==
  /\ TickerInit /\ [][TickerNext]_tickerVars
  /\ WF_tickerVars(TickerPass)
  /\ WF_tickerVars(P!Deliver /\ UNCHANGED vars)

-----------------------------------------------------------------------------
\* The loop and the FIFO keep their types, and the list and its tasksets theirs.
TickerTypeOK ==
  /\ TypeOK
  /\ stage \in {"sleep", "drain", "probes", "ticks", "pump", "present"}
  /\ live \in BOOLEAN /\ rsx_ok \in BOOLEAN
  /\ due \in -PERIOD .. MaxBlock + MaxStall /\ poolDue \in -POOL .. MaxLag
  /\ fired \in 0 .. BURST
  /\ fifo \in {"empty", "draws", "flip"} /\ flip \in BOOLEAN /\ tickPending \in BOOLEAN
  /\ stalled \in BOOLEAN
  /\ guest \in {"runs", "ref", "vblank"} /\ refAge \in 0 .. RefTimeout

\* The comment at 297: the drain goes on at every wake, and not at 60 Hz.  While
\* the window is open and no command stops the drain, the title waits for a
\* reference no longer than one present and one sleep take, whatever polls,
\* bursts and passes without a vblank come between.
RefWaitBounded == rsx_ok /\ ~stalled => refAge <= MaxBlock + MaxStall

\* The comment at 289 and the resync: however long sleeps and presents take, the
\* vblanks owed are never more than one pass took, and a pass that reaches the
\* window leaves none, at most one asked for early.
TicksCaughtUp ==
  /\ due <= MaxBlock + MaxStall
  /\ stage \in {"pump", "present"} => due \in -PERIOD .. 0

\* The comment at 159: without a vblank the title waits for ever.  It gets one,
\* with a window or without.
VblankArrives == guest = "vblank" ~> guest = "runs"
=============================================================================
