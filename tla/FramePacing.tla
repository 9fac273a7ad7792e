---------------------------- MODULE FramePacing ----------------------------
(***************************************************************************)
(* vblank_ticker of boot_main.cpp, which stands for the RSX: one thread    *)
(* that wakes every millisecond, drains the title's command FIFO, runs the *)
(* probes, asks for the vblanks that are due (in a bounded burst), pumps   *)
(* the window's messages and presents.  With the live engine it presents a *)
(* flip the drain has consumed; without it it presents at every wake, and  *)
(* that call may block.  The drain may stop for good at a command.  The    *)
(* title's main thread delivers the vblanks.                               *)
(* Times are kept as what the clock is past a deadline, so that no clock   *)
(* runs away.  Module Ticker gives the probes their step.                  *)
(***************************************************************************)
EXTENDS Integers

CONSTANTS
  PERIOD,      \* time between vblanks (16 ms)
  BURST,       \* vblanks one pass may ask for (240)
  POOL,        \* time between polls of the tasksets (20 ms)
  RefTimeout,  \* time the title waits for a reference before it asserts
  MaxBlock,    \* longest time a present blocks
  MaxStall,    \* longest time a sleep takes
  MaxLag       \* bound of the model: how far the poll's time may lie back

VARIABLES
  stage,    \* where the ticker is in its pass
  live,     \* RSX_LIVE_DRAW
  rsx_ok,   \* whether there is a window to draw in
  due,      \* now - next_tick
  fired,    \* vblanks asked for in this pass
  poolDue,  \* the same for the poll of the tasksets
  fifo,     \* what the title put and the drain has not consumed
  stalled,  \* the drain has come to a command it will not step over
  flip,     \* a flip was consumed and not presented
  tickPending,  \* cellGcm_request_tick: a vblank to deliver
  guest,    \* what the title's main thread does
  refAge    \* how long it waits for a reference

loopVars == <<stage, due, fired, poolDue>>
rsxVars == <<live, rsx_ok, fifo, stalled, flip, tickPending>>
guestVars == <<guest, refAge>>
vars == <<loopVars, rsxVars, guestVars>>

\* The backend opens its window or fails to.
Init ==
  /\ stage = "sleep" /\ due = 0 /\ fired = 0 /\ poolDue = 0
  /\ live \in BOOLEAN /\ rsx_ok \in BOOLEAN
  /\ fifo = "empty" /\ stalled = FALSE /\ flip = FALSE /\ tickPending = FALSE
  /\ guest = "runs" /\ refAge = 0

-----------------------------------------------------------------------------
(* The title's main thread *)

\* It puts commands, the flip of a frame last.
Put(what) ==
  /\ guest = "runs"
  /\ fifo' = IF fifo = "flip" THEN fifo ELSE what
  /\ UNCHANGED <<loopVars, live, rsx_ok, stalled, flip, tickPending, guestVars>>

\* _jsGcmFifoFinish: it spins until the RSX has consumed what it put.
WaitForRef ==
  /\ guest = "runs" /\ fifo # "empty"
  /\ guest' = "ref" /\ refAge' = 0
  /\ UNCHANGED <<loopVars, rsxVars>>

WaitForVblank ==
  /\ guest = "runs"
  /\ guest' = "vblank"
  /\ UNCHANGED <<loopVars, rsxVars, refAge>>

\* ppu_gcm_pump at an import: the pending vblank runs the title's handlers.
Deliver ==
  /\ guest # "ref" /\ tickPending
  /\ tickPending' = FALSE /\ guest' = "runs"
  /\ UNCHANGED <<loopVars, live, rsx_ok, fifo, stalled, flip, refAge>>

-----------------------------------------------------------------------------
(* One pass of the ticker *)

Elapse(d) ==
  /\ due' = due + d
  /\ poolDue' = IF poolDue + d > MaxLag THEN MaxLag ELSE poolDue + d
  /\ refAge' = IF guest = "ref" /\ refAge + d <= RefTimeout THEN refAge + d
               ELSE IF guest = "ref" THEN RefTimeout ELSE refAge

\* cellGcm_rsx_process_fifo: get catches up with put, and a reference with it,
\* or stops for good in front of a command.
CatchUp ==
  /\ fifo' = "empty" /\ flip' = (live /\ (flip \/ fifo = "flip"))
  /\ IF guest = "ref" THEN guest' = "runs" /\ refAge' = 0 ELSE UNCHANGED guestVars
  /\ UNCHANGED stalled

Stop ==
  /\ fifo # "empty" /\ stalled' = TRUE
  /\ UNCHANGED <<fifo, flip, guestVars>>

Drain ==
  IF rsx_ok /\ ~stalled
    THEN CatchUp \/ Stop
    ELSE UNCHANGED <<fifo, stalled, flip, guestVars>>

Wake(d) ==
  /\ stage = "sleep" /\ stage' = "drain"
  /\ Elapse(d)
  /\ UNCHANGED <<fired, rsxVars, guest>>

DrainWithTicks ==  \* mutant: drain only when a vblank is due
  /\ stage = "drain" /\ stage' = "probes"
  /\ UNCHANGED <<due, fired, poolDue, rsxVars, guestVars>>

DrainFifo ==
  /\ stage = "drain" /\ stage' = "probes"
  /\ Drain
  /\ UNCHANGED <<due, fired, poolDue, live, rsx_ok, tickPending>>

\* The probes are behind it, the one of the tasksets if its time had come.
ProbesEnd ==
  /\ stage = "probes" /\ stage' = "ticks"
  /\ poolDue' = IF poolDue >= 0 THEN poolDue - POOL ELSE poolDue
  /\ UNCHANGED <<due, fired, rsxVars, guestVars>>

MoreTicks == due >= 0 /\ fired < BURST

RequestTickIfOpen ==  \* mutant: no vblanks without a window
  /\ stage = "ticks" /\ MoreTicks
  /\ tickPending' = (tickPending \/ rsx_ok) /\ Drain
  /\ due' = due - PERIOD /\ fired' = fired + 1
  /\ UNCHANGED <<stage, poolDue, live, rsx_ok>>

RequestTick ==
  /\ stage = "ticks" /\ MoreTicks
  /\ tickPending' = TRUE /\ Drain
  /\ due' = due - PERIOD /\ fired' = fired + 1
  /\ UNCHANGED <<stage, poolDue, live, rsx_ok>>

AfterTicks == IF rsx_ok THEN "pump" ELSE "sleep"

TicksEndInDebt ==  \* mutant: what a pass could not ask for stays due
  /\ stage = "ticks" /\ ~MoreTicks /\ stage' = AfterTicks
  /\ fired' = 0
  /\ UNCHANGED <<due, poolDue, rsxVars, guestVars>>

\* A pass that used its burst up sets the next deadline to now.
TicksEnd ==
  /\ stage = "ticks" /\ ~MoreTicks /\ stage' = AfterTicks
  /\ due' = IF fired >= BURST THEN 0 ELSE due
  /\ fired' = 0
  /\ UNCHANGED <<poolDue, rsxVars, guestVars>>

\* The window's messages: it may be closed, for good.
PumpMessages(open) ==
  /\ stage = "pump" /\ stage' = "present"
  /\ rsx_ok' = open
  /\ UNCHANGED <<due, fired, poolDue, live, fifo, stalled, flip, tickPending, guestVars>>

\* rsx_d3d12_backend_present blocks as long as the window system likes; the
\* live engine presents a flip only when the FIFO is drained to put.
Present(d) ==
  /\ stage = "present" /\ stage' = "sleep"
  /\ IF live /\ ~(flip /\ fifo = "empty")
       THEN UNCHANGED <<due, poolDue, refAge, flip>>
       ELSE Elapse(d) /\ flip' = FALSE
  /\ UNCHANGED <<fired, live, rsx_ok, fifo, stalled, tickPending, guest>>

-----------------------------------------------------------------------------
TitleStep ==
  \/ \E what \in {"draws", "flip"} : Put(what)
  \/ WaitForRef \/ WaitForVblank

LoopStep ==
  \/ \E d \in 1 .. MaxStall : Wake(d)
  \/ DrainFifo \/ RequestTick \/ TicksEnd
  \/ \E open \in BOOLEAN : PumpMessages(open)
  \/ \E d \in 0 .. MaxBlock : Present(d)
=============================================================================
