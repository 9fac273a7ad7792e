----------------------------- MODULE MatchLoad -----------------------------
(***************************************************************************)
(* The overrides of hle_extra.cpp that get the title's main thread into a  *)
(* match.  The lifted code waits there for others that never answer: the   *)
(* driver thread of BRB, its audio library, which hangs mixing with BRB's  *)
(* lock held and acknowledges no session; a byte nobody sets; a counter    *)
(* nobody clears.  Each TM_ switch stands in for one answer, on the main   *)
(* thread, the driver or the ticker.  The transition into the world may be *)
(* forced as well, from inside the user interface's update.                *)
(***************************************************************************)
EXTENDS Naturals, FiniteSets

CONSTANTS
  Bank,      \* sound banks, the nodes of BRB's list
  Nil,       \* the null node
  Switch,    \* the switches that may be on; the others of Switches are off
  STEPS,     \* nodes the guard of the append looks at (100000)
  PATIENCE,  \* polls of brb_StartSession (10 s)
  GAP,       \* of those, the most that fit between two passes of the ticker
  MaxCalls   \* bound of the model: calls of the title

Switches == {"SILENT", "PARK", "SKIP_BANKUNLOAD", "BRB_ACK", "LOADDONE", "POOL_NOWAIT"}

\* The list is no longer than the guard looks, and a present never blocks for
\* as long as a session waits.
ASSUME MatchAssumption ==
  /\ Nil \notin Bank /\ IsFiniteSet(Bank) /\ Switch \subseteq Switches
  /\ STEPS \in Nat /\ Cardinality(Bank) <= STEPS
  /\ PATIENCE \in Nat /\ GAP \in Nat /\ 2 * GAP < PATIENCE
  /\ MaxCalls \in Nat

VARIABLES
  on,                \* the switches that are on
  main, bank,        \* what the main thread is in, and the bank it is about
  head, next, up,    \* BRB's list, and the banks the title takes for registered
  driver, serviced,  \* BRB's driver thread, and whether it ever mixed
  req, ack, seen,    \* the session's request and answer, and what a tick read
  polls, lag,        \* polls of this session, and those since a pass of the ticker
  tick, late,        \* where the ticker is; whether TM_LOADDONE's time has come
  loaded, cull,      \* the load-complete byte; the counter the pool waits for
  armed,             \* forced transitions that are asked for and not yet tried
  machine, built, mgr, forced, \* what they need, and the state that was forced
  skips, calls       \* updates left out; calls of the title so far

brbVars == <<head, next, up, driver, serviced>>
sessionVars == <<req, ack, polls, lag>>
tickVars == <<seen, tick, late>>
waitVars == <<loaded, cull>>
uiVars == <<armed, machine, built, mgr, forced, skips>>
vars == <<on, main, bank, brbVars, sessionVars, tickVars, waitVars, uiVars, calls>>

Shot == {"state", "call", "world"}
On(switch) == switch \in on

\* Bound of the model: a run that forces transitions has BRB's switches off.
Init ==
  /\ on \in SUBSET Switch
  /\ main = "idle" /\ bank = Nil
  /\ head = Nil /\ next = [b \in Bank |-> Nil] /\ up = {}
  /\ driver = "start" /\ serviced = FALSE
  /\ req = 0 /\ ack = 0 /\ polls = 0 /\ lag = 0
  /\ seen = 0 /\ tick = "read" /\ late = FALSE
  /\ loaded = FALSE /\ cull = FALSE
  /\ armed \in SUBSET Shot /\ (armed # {} => on \subseteq {"LOADDONE"})
  /\ machine = FALSE /\ built = FALSE /\ mgr = FALSE /\ forced = FALSE
  /\ skips = 0 /\ calls = 0

Begins(what) ==
  /\ main = "idle" /\ main' = what
  /\ calls < MaxCalls /\ calls' = calls + 1

-----------------------------------------------------------------------------
(* BRB's banks *)

\* The nodes of a list, from its first on; Nil past the last.
Walk(first, links) ==
  LET node[i \in 0 .. STEPS] ==
        IF i = 0 THEN first
        ELSE IF node[i - 1] = Nil THEN Nil ELSE links[node[i - 1]]
  IN node

Nodes(first, links) == {Walk(first, links)[i] : i \in 0 .. STEPS} \ {Nil}
Ends(first, links) == Nil \in {Walk(first, links)[i] : i \in 0 .. STEPS}

ListedLast(b) == next[b] = Nil /\ b \in Nodes(head, next)  \* mutant: looks at the tail only
Listed(b) == b \in Nodes(head, next)

\* func_009BBFB8: a bank that is listed is left alone; the lifted body clears
\* the node's link and walks to the tail, for ever if there is none.
Append ==
  /\ main = "append" /\ driver # "mixing"
  /\ LET links == [next EXCEPT ![bank] = Nil] IN
     IF Listed(bank) THEN main' = "idle" /\ UNCHANGED <<head, next>>
     ELSE IF head = Nil
       THEN main' = "idle" /\ head' = bank /\ next' = links
     ELSE IF Ends(head, links)
       THEN /\ main' = "idle" /\ UNCHANGED head
            /\ \E tail \in Nodes(head, links) :
                 links[tail] = Nil /\ next' = [links EXCEPT ![tail] = bank]
       ELSE main' = "spins" /\ UNCHANGED <<head, next>>
  /\ up' = up \cup {bank} /\ bank' = Nil
  /\ UNCHANGED <<on, driver, serviced, sessionVars, tickVars, waitVars, uiVars, calls>>

RegisterBank(b) ==
  /\ Begins("append") /\ b \notin up
  /\ bank' = b
  /\ UNCHANGED <<on, brbVars, sessionVars, tickVars, waitVars, uiVars>>

\* func_009B2574: without the unload the bank stays listed.
UnloadBank(b) ==
  /\ Begins(IF On("SKIP_BANKUNLOAD") THEN "idle" ELSE "unload") /\ b \in up
  /\ IF On("SKIP_BANKUNLOAD") THEN up' = up \ {b} /\ UNCHANGED bank
                               ELSE bank' = b /\ UNCHANGED up
  /\ UNCHANGED <<on, head, next, driver, serviced, sessionVars, tickVars, waitVars, uiVars>>

BankServiced == serviced  \* mutant: the silent driver's banks are never free
BankFree == On("SILENT") \/ serviced

\* func_009BBE60 is polled; then the node is taken out of the list.
Unlink ==
  /\ main = "unload" /\ BankFree /\ driver # "mixing"
  /\ main' = "idle" /\ up' = up \ {bank} /\ bank' = Nil
  /\ head' = IF head = bank THEN next[bank] ELSE head
  /\ next' = [b \in Bank |-> IF next[b] = bank THEN next[bank] ELSE next[b]]
  /\ UNCHANGED <<on, driver, serviced, sessionVars, tickVars, waitVars, uiVars, calls>>

-----------------------------------------------------------------------------
(* BRB's driver thread *)

\* func_009D7B08: with TM_BRB_PARK it sleeps from here on.
DriverStarts ==
  /\ driver = "start"
  /\ driver' = IF On("PARK") THEN "parked" ELSE "loop"
  /\ UNCHANGED <<on, main, bank, head, next, up, serviced, sessionVars, tickVars, waitVars, uiVars, calls>>

\* func_009CF718: silent it returns; else it mixes, with BRB's lock held.
Callback ==
  /\ driver = "loop" /\ ~On("SILENT")
  /\ driver' = "mixing"
  /\ UNCHANGED <<on, main, bank, head, next, up, serviced, sessionVars, tickVars, waitVars, uiVars, calls>>

\* The SPU jobs it waits for: they may never be done.
MixEnds ==
  /\ driver = "mixing"
  /\ driver' = "loop" /\ serviced' = TRUE
  /\ UNCHANGED <<on, main, bank, head, next, up, sessionVars, tickVars, waitVars, uiVars, calls>>

-----------------------------------------------------------------------------
(* brb_StartSession, and the ticker that answers it *)

StartSession ==
  /\ Begins("session")
  /\ req' = req + 1
  /\ UNCHANGED <<on, bank, brbVars, ack, polls, lag, tickVars, waitVars, uiVars>>

\* The main thread polls as fast as the ticker's passes let it.
Poll ==
  /\ main = "session"
  /\ IF ack = req THEN main' = "idle" /\ polls' = 0 /\ UNCHANGED lag
     ELSE IF polls = PATIENCE THEN main' = "fatal" /\ UNCHANGED <<polls, lag>>
     ELSE lag < GAP /\ polls' = polls + 1 /\ lag' = lag + 1 /\ UNCHANGED main
  /\ UNCHANGED <<on, bank, brbVars, req, ack, tickVars, waitVars, uiVars, calls>>

\* tm_brb_ack_tick, which reads the request and then writes what it read.
AckReads ==
  /\ tick = "read"
  /\ IF On("BRB_ACK") /\ req # ack
       THEN tick' = "write" /\ seen' = req
       ELSE tick' = "load" /\ UNCHANGED seen
  /\ UNCHANGED <<on, main, bank, brbVars, sessionVars, late, waitVars, uiVars, calls>>

AckWritesPast ==  \* mutant: the answer is one ahead of the request
  /\ tick = "write" /\ tick' = "load"
  /\ ack' = seen + 1
  /\ UNCHANGED <<on, main, bank, brbVars, req, polls, lag, seen, late, waitVars, uiVars, calls>>

AckWrites ==
  /\ tick = "write" /\ tick' = "load"
  /\ ack' = seen
  /\ UNCHANGED <<on, main, bank, brbVars, req, polls, lag, seen, late, waitVars, uiVars, calls>>

LoadDoneOnce ==  \* mutant: the byte is set a single time
  /\ tick = "load" /\ tick' = "read" /\ lag' = 0
  /\ late' = TRUE
  /\ loaded' = (loaded \/ (late /\ On("LOADDONE")))
  /\ on' = IF late THEN on \ {"LOADDONE"} ELSE on
  /\ UNCHANGED <<main, bank, brbVars, req, ack, polls, seen, cull, uiVars, calls>>

\* tm_loaddone_tick, from its second pass on: the byte is set in every one.
LoadDone ==
  /\ tick = "load" /\ tick' = "read" /\ lag' = 0
  /\ late' = TRUE
  /\ loaded' = (loaded \/ (late /\ On("LOADDONE")))
  /\ UNCHANGED <<on, main, bank, brbVars, req, ack, polls, seen, cull, uiVars, calls>>

-----------------------------------------------------------------------------
(* The waits of a load and of a frame *)

BeginLoad ==
  /\ Begins("load")
  /\ loaded' = FALSE
  /\ UNCHANGED <<on, bank, brbVars, sessionVars, tickVars, cull, uiVars>>

\* The cinema load clears the byte again.
ClearAgain ==
  /\ main = "load" /\ calls < MaxCalls /\ calls' = calls + 1
  /\ loaded' = FALSE
  /\ UNCHANGED <<on, main, bank, brbVars, sessionVars, tickVars, cull, uiVars>>

LoadEnd ==
  /\ main = "load" /\ loaded
  /\ main' = "idle"
  /\ UNCHANGED <<on, bank, brbVars, sessionVars, tickVars, waitVars, uiVars, calls>>

BeginFrame ==
  /\ Begins("pool")
  /\ cull' = TRUE
  /\ UNCHANGED <<on, bank, brbVars, sessionVars, tickVars, loaded, uiVars>>

\* func_00678CE8: with TM_POOL_NOWAIT it gives up, else the counter must clear.
PoolWaitEnd ==
  /\ main = "pool" /\ (On("POOL_NOWAIT") \/ ~cull)
  /\ main' = "idle"
  /\ UNCHANGED <<on, bank, brbVars, sessionVars, tickVars, waitVars, uiVars, calls>>

CullEnds ==
  /\ main = "pool" /\ cull /\ cull' = FALSE
  /\ UNCHANGED <<on, main, bank, brbVars, sessionVars, tickVars, loaded, uiVars, calls>>

-----------------------------------------------------------------------------
(* The forced transitions, tried in the user interface's update *)

\* The title builds its states, enters one (func_005BA908) and makes the object
\* that loads worlds.  It matters while a shot is armed only.
Enter ==
  /\ main = "idle" /\ armed # {} /\ machine' = TRUE
  /\ UNCHANGED <<on, main, bank, brbVars, sessionVars, tickVars, waitVars, armed, built, mgr, forced, skips, calls>>

Build ==
  /\ main = "idle" /\ armed # {}
  /\ built' = TRUE /\ mgr' \in {mgr, TRUE}
  /\ UNCHANGED <<on, main, bank, brbVars, sessionVars, tickVars, waitVars, armed, machine, forced, skips, calls>>

SpentIfDone(shots) == {s \in shots : s = "world" /\ ~mgr}  \* mutant: only what failed is spent
Spent(shots) == shots

\* tm_force_state: a shot whose time has come is spent whether it hits or not;
\* the first that hits takes the place of the update, and the others wait.
Update(due) ==
  LET state == "state" \in due /\ machine
      hit1 == state /\ built
      now == IF state THEN built ELSE forced
      hit2 == ~hit1 /\ "call" \in due /\ now
      world == ~hit1 /\ ~hit2 /\ "world" \in due
      hit3 == world /\ mgr
      tried == {s \in due : CASE s = "state" -> state [] s = "call" -> hit2 [] OTHER -> world}
  IN  /\ main = "idle" /\ tried # {}
      /\ armed' = armed \ Spent(tried)
      /\ forced' = now
      /\ skips' = IF hit1 \/ hit2 \/ hit3 THEN skips + 1 ELSE skips
      /\ main' = IF hit3 THEN "load" ELSE "idle"
      /\ loaded' = IF hit3 THEN FALSE ELSE loaded
      /\ UNCHANGED <<on, bank, brbVars, sessionVars, tickVars, cull, machine, built, mgr, calls>>

-----------------------------------------------------------------------------
MainGoesOn == Append \/ Unlink \/ Poll \/ LoadEnd \/ PoolWaitEnd
TickStep == AckReads \/ AckWrites \/ LoadDone

Next ==
  \/ \E b \in Bank : RegisterBank(b) \/ UnloadBank(b)
  \/ StartSession \/ BeginLoad \/ ClearAgain \/ BeginFrame
  \/ Enter \/ Build \/ \E due \in SUBSET armed : Update(due)
  \/ MainGoesOn \/ TickStep
  \/ DriverStarts \/ Callback \/ MixEnds \/ CullEnds

\* The main thread and the ticker run on; the jobs the driver and the pool wait
\* for may never be done.
Spec == Init /\ [][Next]_vars /\ WF_vars(MainGoesOn) /\ WF_vars(TickStep)

-----------------------------------------------------------------------------
\* The threads, the list and the switches keep their types.
TypeOK ==
  /\ on \subseteq Switch /\ armed \subseteq Shot
  /\ main \in {"idle", "append", "unload", "spins", "session", "fatal", "load", "pool"}
  /\ bank \in Bank \cup {Nil} /\ head \in Bank \cup {Nil}
  /\ main \in {"append", "unload"} => bank \in Bank
  /\ next \in [Bank -> Bank \cup {Nil}] /\ up \subseteq Bank
  /\ driver \in {"start", "loop", "mixing", "parked"} /\ tick \in {"read", "write", "load"}
  /\ req \in 0 .. MaxCalls /\ ack \in 0 .. req /\ seen \in 0 .. req
  /\ polls \in 0 .. PATIENCE /\ lag \in 0 .. GAP
  /\ calls \in 0 .. MaxCalls /\ req <= calls /\ skips \in Nat
  /\ serviced \in BOOLEAN /\ late \in BOOLEAN /\ loaded \in BOOLEAN /\ cull \in BOOLEAN
  /\ machine \in BOOLEAN /\ built \in BOOLEAN /\ mgr \in BOOLEAN /\ forced \in BOOLEAN

\* The comment at 1017: a node appended twice points at itself and the next
\* append walks for ever.  The list always ends and holds every bank the title
\* registered, also when banks come back that were never unloaded.
BanksChained == main # "spins" /\ Ends(head, next) /\ up \subseteq Nodes(head, next)

\* The comments at 1055 and 1062: no BRB call waits on the lock of a silent
\* driver, nor an unload for a bank that it never services.
BankCallsReturn == On("SILENT") /\ main \in {"append", "unload"} ~> main = "idle"

\* The comment at 1546: with TM_BRB_ACK every session is acknowledged in time,
\* though the ticker may write an answer to the request before.
SessionsStart == On("BRB_ACK") => main # "fatal"

\* The comment at 1713: the byte is cleared again, so one write is not enough.
\* Loads, and with TM_POOL_NOWAIT frames, come to an end though nobody answers.
LoadsEnd ==
  /\ On("LOADDONE") /\ main = "load" ~> main = "idle"
  /\ On("POOL_NOWAIT") /\ main = "pool" ~> main = "idle"

\* The comment at 682: the update is left out for the one frame.  Each shot
\* costs at most one.
OneUpdatePerShot == skips + Cardinality(armed) <= Cardinality(Shot)
=============================================================================
