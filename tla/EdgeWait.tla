------------------------------ MODULE EdgeWait ------------------------------
(***************************************************************************)
(* func_0099790C of hle_extra.cpp: the title's wait for a decompression    *)
(* request.  The lifted wait sleeps on an event flag while the request is  *)
(* busy; the SPU task that would answer is parked.  The override inflates  *)
(* on the host, writes the bytes where the title reads them, clears busy   *)
(* and then runs the lifted body; TM_SPU_KICK wakes the SPU task first and *)
(* gives it a moment.  Most requests are decompressed in place, so the     *)
(* answer destroys its own source, and an answer of the SPU may come late. *)
(***************************************************************************)
EXTENDS Naturals

CONSTANTS
  Thread,     \* guest threads that wait
  Request,    \* the title's request records
  NoRequest,  \* no request
  MaxSubmit   \* bound of the model: submissions

ASSUME EdgeAssumption == NoRequest \notin Request /\ MaxSubmit \in Nat

VARIABLES
  kick, hle,  \* TM_SPU_KICK and TM_EDGE_HLE
  shared,     \* whether the title waits twice, or on two threads, for one request
  inPlace, kind,  \* the request's fields: in place or not, how tm_inflate fares
  busy,       \* REQ_BUSY
  buf,        \* what lies in the request's buffer
  out,        \* what lies at REQ_DST
  flag,       \* the request's bit of the event flag
  pc, request,    \* where a thread is, and the request it waits for
  tmp,        \* what it has in its host buffer
  awake, spu, spuPc, spuTmp,  \* the SPU task
  writers,    \* how many wrote an answer to this submission (2: or more)
  stale,       \* requests submitted while the SPU was at an earlier submission
  submits     \* submissions so far

settings == <<kick, hle, shared>>
fields == <<inPlace, kind>>
memVars == <<busy, buf, out, flag>>
threadVars == <<pc, request, tmp>>
spuVars == <<awake, spu, spuPc, spuTmp>>
ghosts == <<writers, stale>>
edgeVars == <<settings, fields, memVars, threadVars, spuVars, ghosts, submits>>

\* Bytes as the title can tell them apart.
Bytes == {"old", "packed", "part", "text", "garbled"}
Kind == {"good", "refused", "unset"}

EdgeInit ==
  /\ kick \in BOOLEAN /\ hle \in BOOLEAN /\ shared \in BOOLEAN
  /\ inPlace = [r \in Request |-> FALSE] /\ kind = [r \in Request |-> "unset"]
  /\ busy = [r \in Request |-> FALSE] /\ flag = [r \in Request |-> FALSE]
  /\ buf = [r \in Request |-> "old"] /\ out = [r \in Request |-> "old"]
  /\ pc = [t \in Thread |-> "idle"] /\ request = [t \in Thread |-> NoRequest]
  /\ tmp = [t \in Thread |-> "old"]
  /\ awake = FALSE /\ spu = NoRequest /\ spuPc = "read" /\ spuTmp = "old"
  /\ writers = [r \in Request |-> 0] /\ stale = {}
  /\ submits = 0

Goes(t, to) == pc' = [pc EXCEPT ![t] = to]
Waiters(r) == {t \in Thread : pc[t] # "idle" /\ request[t] = r}
Holds(r) == IF inPlace[r] THEN buf[r] ELSE out[r]

\* A store of the bytes at their place; over the same bytes it changes nothing.
WritesIn(r, there, bytes) ==
  IF there THEN buf' = [buf EXCEPT ![r] = bytes] /\ UNCHANGED out
           ELSE out' = [out EXCEPT ![r] = bytes] /\ UNCHANGED buf
Writes(r, bytes) == WritesIn(r, inPlace[r], bytes)
HalfOf(r, bytes) == IF Holds(r) = bytes THEN bytes ELSE "part"

Counted(r) == writers' = [writers EXCEPT ![r] = IF @ = 2 THEN 2 ELSE @ + 1]

-----------------------------------------------------------------------------
(* The title *)

Submit(r, place, k) ==
  /\ submits < MaxSubmit /\ ~busy[r] /\ Waiters(r) = {}
  /\ submits' = submits + 1
  /\ inPlace' = [inPlace EXCEPT ![r] = place] /\ kind' = [kind EXCEPT ![r] = k]
  /\ buf' = [buf EXCEPT ![r] = "packed"] /\ out' = [out EXCEPT ![r] = "old"]
  /\ busy' = [busy EXCEPT ![r] = TRUE]
  /\ writers' = [writers EXCEPT ![r] = 0]
  /\ stale' = IF spu = r THEN stale \cup {r} ELSE stale \ {r}
  /\ UNCHANGED <<settings, flag, threadVars, spuVars>>

Call(t, r) ==
  /\ pc[t] = "idle" /\ buf[r] # "old"
  /\ shared \/ (busy[r] /\ Waiters(r) = {})
  /\ request' = [request EXCEPT ![t] = r]
  /\ Goes(t, IF kick THEN "kick" ELSE "ask")
  /\ UNCHANGED <<settings, fields, memVars, tmp, spuVars, ghosts, submits>>

-----------------------------------------------------------------------------
(* TM_SPU_KICK: signal every taskset, then poll busy for a while *)

Kick(t) ==
  /\ pc[t] = "kick"
  /\ awake' = TRUE
  /\ Goes(t, "poll")
  /\ UNCHANGED <<settings, fields, memVars, request, tmp, spu, spuPc, spuTmp, ghosts, submits>>

\* The polls end with busy clear, which returns at once, or run out.
PollBusy(t) ==
  /\ pc[t] = "poll"
  /\ Goes(t, IF busy[request[t]] THEN "ask" ELSE "done")
  /\ UNCHANGED <<settings, fields, memVars, request, tmp, spuVars, ghosts, submits>>

-----------------------------------------------------------------------------
(* TM_EDGE_HLE: inflate on the host *)

\* The fields are read; a request that lacks one is left to the lifted wait.
BeginInflate(t) ==
  /\ pc[t] = "ask"
  /\ IF hle /\ kind[request[t]] # "unset"
       THEN tmp' = [tmp EXCEPT ![t] = buf[request[t]]] /\ Goes(t, "inflate")
       ELSE UNCHANGED tmp /\ Goes(t, "lifted")
  /\ UNCHANGED <<settings, fields, memVars, request, spuVars, ghosts, submits>>

\* What tm_inflate makes of a source that was, or became, something else.
Inflated(before, after, k) ==
  IF before = "packed" /\ after = "packed"
    THEN IF k = "good" THEN {"text"} ELSE {"none"}
    ELSE {"garbled", "none"}

EndInflate(t) ==
  LET r == request[t] IN
  /\ pc[t] = "inflate"
  /\ \E got \in Inflated(tmp[t], buf[r], kind[r]) :
       IF got = "none"
         THEN UNCHANGED <<tmp, writers>> /\ Goes(t, "lifted")
         ELSE tmp' = [tmp EXCEPT ![t] = got] /\ Counted(r) /\ Goes(t, "copy")
  /\ UNCHANGED <<settings, fields, memVars, request, spuVars, stale, submits>>

BeginCopyToDst(t) ==  \* mutant: the bytes go to REQ_DST, whatever REQ_BUF says
  /\ pc[t] = "copy"
  /\ WritesIn(request[t], FALSE, tmp[t])
  /\ Goes(t, "copied")
  /\ UNCHANGED <<settings, fields, busy, flag, request, tmp, spuVars, ghosts, submits>>

BeginCopy(t) ==
  /\ pc[t] = "copy"
  /\ Writes(request[t], HalfOf(request[t], tmp[t]))
  /\ Goes(t, "copying")
  /\ UNCHANGED <<settings, fields, busy, flag, request, tmp, spuVars, ghosts, submits>>

EndCopy(t) ==
  /\ pc[t] = "copying"
  /\ Writes(request[t], tmp[t])
  /\ Goes(t, "copied")
  /\ UNCHANGED <<settings, fields, busy, flag, request, tmp, spuVars, ghosts, submits>>

ClearNothing(t) ==  \* mutant: the flag the lifted body tests stays set
  /\ pc[t] = "copied"
  /\ Goes(t, "lifted")
  /\ UNCHANGED <<settings, fields, memVars, request, tmp, spuVars, ghosts, submits>>

\* The flag the lifted body tests; the event flag is not set.
ClearBusy(t) ==
  /\ pc[t] = "copied"
  /\ busy' = [busy EXCEPT ![request[t]] = FALSE]
  /\ Goes(t, "lifted")
  /\ UNCHANGED <<settings, fields, buf, out, flag, request, tmp, spuVars, ghosts, submits>>

-----------------------------------------------------------------------------
(* The lifted body: it waits while busy *)

Lifted(t) ==
  /\ pc[t] = "lifted"
  /\ Goes(t, IF busy[request[t]] THEN "asleep" ELSE "done")
  /\ UNCHANGED <<settings, fields, memVars, request, tmp, spuVars, ghosts, submits>>

FlagWaitReturns(t) ==
  /\ pc[t] = "asleep" /\ flag[request[t]]
  /\ flag' = [flag EXCEPT ![request[t]] = FALSE]
  /\ Goes(t, "lifted")
  /\ UNCHANGED <<settings, fields, busy, buf, out, request, tmp, spuVars, ghosts, submits>>

Return(t) ==
  /\ pc[t] = "done"
  /\ Goes(t, "idle")
  /\ request' = [request EXCEPT ![t] = NoRequest]
  /\ UNCHANGED <<settings, fields, memVars, tmp, spuVars, ghosts, submits>>

-----------------------------------------------------------------------------
(* The SPU task: it takes busy requests once it was signalled *)

SpuTake(r) ==
  /\ awake /\ spu = NoRequest /\ busy[r]
  /\ spu' = r /\ spuPc' = "read"
  /\ UNCHANGED <<settings, fields, memVars, threadVars, awake, spuTmp, ghosts, submits>>

SpuParks ==
  /\ awake /\ spu = NoRequest
  /\ awake' = FALSE
  /\ UNCHANGED <<settings, fields, memVars, threadVars, spu, spuPc, spuTmp, ghosts, submits>>

SpuStep(from, to) == spu # NoRequest /\ spuPc = from /\ spuPc' = to

SpuRead ==
  /\ SpuStep("read", "write") /\ Counted(spu)
  /\ spuTmp' = IF buf[spu] = "packed" THEN "text" ELSE "garbled"
  /\ UNCHANGED <<settings, fields, memVars, threadVars, awake, spu, stale, submits>>

SpuBeginWrite ==
  /\ SpuStep("write", "writing") /\ Writes(spu, HalfOf(spu, spuTmp))
  /\ UNCHANGED <<settings, fields, busy, flag, threadVars, awake, spu, spuTmp, ghosts, submits>>

SpuEndWrite ==
  /\ SpuStep("writing", "clear") /\ Writes(spu, spuTmp)
  /\ UNCHANGED <<settings, fields, busy, flag, threadVars, awake, spu, spuTmp, ghosts, submits>>

SpuClears ==
  /\ SpuStep("clear", "set")
  /\ busy' = [busy EXCEPT ![spu] = FALSE]
  /\ UNCHANGED <<settings, fields, buf, out, flag, threadVars, awake, spu, spuTmp, ghosts, submits>>

SpuSets ==
  /\ SpuStep("set", "read")
  /\ flag' = [flag EXCEPT ![spu] = TRUE]
  /\ spu' = NoRequest
  /\ UNCHANGED <<settings, fields, busy, buf, out, threadVars, awake, spuTmp, ghosts, submits>>

SpuAtWork == SpuRead \/ SpuBeginWrite \/ SpuEndWrite \/ SpuClears \/ SpuSets

-----------------------------------------------------------------------------
Waits(t) ==
  \/ Kick(t) \/ PollBusy(t)
  \/ BeginInflate(t) \/ EndInflate(t) \/ BeginCopy(t) \/ EndCopy(t) \/ ClearBusy(t)
  \/ Lifted(t) \/ FlagWaitReturns(t) \/ Return(t)

EdgeNext ==
  \/ \E r \in Request, place \in BOOLEAN, k \in Kind : Submit(r, place, k)
  \/ \E t \in Thread : Waits(t) \/ \E r \in Request : Call(t, r)
  \/ \E r \in Request : SpuTake(r)
  \/ SpuParks \/ SpuAtWork

\* Host threads run on, the one that stands for the SPU too once it has work;
\* a signalled SPU task need not take any.
Fairness == WF_edgeVars(SpuAtWork) /\ \A t \in Thread : WF_edgeVars(Waits(t))

EdgeSpec == EdgeInit /\ [][EdgeNext]_edgeVars /\ Fairness

-----------------------------------------------------------------------------
\* Requests, threads and the SPU keep their types, and only a thread that waits
\* has a request.
EdgeTypeOK ==
  /\ kick \in BOOLEAN /\ hle \in BOOLEAN /\ shared \in BOOLEAN /\ awake \in BOOLEAN
  /\ inPlace \in [Request -> BOOLEAN] /\ kind \in [Request -> Kind]
  /\ busy \in [Request -> BOOLEAN] /\ flag \in [Request -> BOOLEAN]
  /\ buf \in [Request -> Bytes] /\ out \in [Request -> Bytes]
  /\ pc \in [Thread -> {"idle", "kick", "poll", "ask", "inflate", "copy", "copying",
                        "copied", "lifted", "asleep", "done"}]
  /\ request \in [Thread -> Request \cup {NoRequest}]
  /\ \A t \in Thread : request[t] = NoRequest <=> pc[t] = "idle"
  /\ tmp \in [Thread -> Bytes]
  /\ spu \in Request \cup {NoRequest} /\ spuTmp \in Bytes
  /\ spuPc \in {"read", "write", "writing", "clear", "set"}
  /\ writers \in [Request -> 0 .. 2] /\ stale \subseteq Request
  /\ submits \in 0 .. MaxSubmit

\* No two answers met on one source, and none belongs to an earlier submission.
Clean(r) == r \notin stale /\ (writers[r] <= 1 \/ ~inPlace[r])

\* The comment at 1842: the title parses the inflated result out of the place
\* it asked for.  A wait that returns leaves the text there, whether the host or
\* the SPU made it, unless two answers met on one source or one came late.
TextAtReturn == \A t \in Thread : pc[t] = "done" /\ Clean(request[t]) => Holds(request[t]) = "text"

\* The comment at 1781: the title is blocked on the request, and the host
\* answers when the SPU does not.  A request tm_inflate can do does not hang the
\* one thread that waits for it.
WaitReturns ==
  \A t \in Thread :
    pc[t] = "ask" /\ hle /\ ~shared /\ kind[request[t]] = "good" ~> pc[t] = "idle"
=============================================================================
