----------------------------- MODULE HostProofs -----------------------------
(***************************************************************************)
(* sys_ppu_thread_once by itself, for any number of threads, words and     *)
(* nested calls; and the host under the guest threads, for any number of   *)
(* pages and imports too: the once calls behave on it as by themselves,    *)
(* the title's handlers are the ones found, and a thread crashes on guest  *)
(* memory only when the system refuses a page.                             *)
(***************************************************************************)
EXTENDS Host, SequenceTheorems, TLAPS

-----------------------------------------------------------------------------
(* The once calls by themselves *)

LEMMA OpenCall ==
  ASSUME TypeOK, NEW t \in Thread, Open(t)
  PROVE  /\ Innermost(t) \in Call
         /\ Innermost(t).ctrl \in Ctrl \cup {Null}
         /\ Innermost(t).at = "init" => Innermost(t).ctrl \in Ctrl
         /\ Leave(t) \in [Thread -> Seq(Call)]
         /\ Len(stack[t]) \in Nat \ {0}
         /\ Len(stack[t]) \in 1 .. Len(stack[t])
<1>1. stack[t] \in Seq(Call) /\ Len(stack[t]) \in Nat \ {0}
  BY EmptySeq DEF TypeOK, Open
<1>2. Len(stack[t]) \in 1 .. Len(stack[t])
  BY <1>1
<1>3. \A i \in 1 .. Len(stack[t]) : stack[t][i] \in Call
  BY <1>1, ElementOfSeq
<1>4. SubSeq(stack[t], 1, Len(stack[t]) - 1) \in Seq(Call)
  BY <1>1, <1>3, SubSeqProperties
<1>5. QED
  BY <1>1, <1>2, <1>3, <1>4 DEF TypeOK, Innermost, Leave, Call

\* TypeOK is preserved by every step.
THEOREM OnceTypeCorrect == Spec => []TypeOK
<1>1. Init => TypeOK
  BY EmptySeq DEF Init, TypeOK
<1>2. TypeOK /\ [Next]_vars => TypeOK'
  <2> SUFFICES ASSUME TypeOK, [Next]_vars PROVE TypeOK'
    OBVIOUS
  <2>1. ASSUME NEW t \in Thread, NEW c \in Ctrl \cup {Null}, NEW opd \in BOOLEAN,
               CallOnce(t, c, opd)
        PROVE  TypeOK'
    <3>1. [ctrl |-> c, opd |-> opd, at |-> "enter"] \in Call
      BY DEF Call
    <3>2. stack' \in [Thread -> Seq(Call)]
      BY <2>1, <3>1, AppendProperties DEF CallOnce, TypeOK
    <3>3. QED
      BY <2>1, <3>2 DEF CallOnce, TypeOK
  <2>2. ASSUME NEW t \in Thread, Win(t) PROVE TypeOK'
    <3>1. Innermost(t) \in Call /\ Innermost(t).ctrl \in Ctrl
      BY <2>2, OpenCall DEF Win, Unclaimed, Call
    <3>2. stack' \in [Thread -> Seq(Call)]
      <4>1. CASE Innermost(t).opd
        <5> DEFINE n == Len(stack[t])
                   f == [stack[t] EXCEPT ![n].at = "init"]
        <5>1. stack' = [stack EXCEPT ![t] = f]
          BY <2>2, <4>1 DEF Win, Unclaimed, TypeOK
        <5>2. f = [stack[t] EXCEPT ![n] = [stack[t][n] EXCEPT !.at = "init"]]
          OBVIOUS
        <5>3. [stack[t][n] EXCEPT !.at = "init"] \in Call
          BY <2>2, <3>1, <4>1 DEF Innermost, Call, Win, Unclaimed
        <5>4. f \in Seq(Call)
          BY <2>2, <5>2, <5>3, OpenCall, ExceptSeq DEF Win, Unclaimed, TypeOK
        <5>5. QED
          BY <5>1, <5>4 DEF TypeOK
      <4>2. CASE ~Innermost(t).opd
        BY <2>2, <4>2, OpenCall DEF Win, Unclaimed
      <4>3. QED
        BY <4>1, <4>2
    <3>3. started' \in [Ctrl -> Nat]
      <4>1. \/ started' = [started EXCEPT ![Innermost(t).ctrl] = started[Innermost(t).ctrl] + 1]
            \/ started' = started
        BY <2>2, Zenon DEF Win, Unclaimed
      <4>2. started[Innermost(t).ctrl] + 1 \in Nat
        BY <3>1 DEF TypeOK
      <4>3. QED
        BY <4>1, <4>2 DEF TypeOK
    <3>4. word' \in [Ctrl -> {0, 1}] /\ UNCHANGED <<ended, calls>>
      BY <2>2, <3>1 DEF Win, Unclaimed, TypeOK
    <3>5. QED
      BY <3>2, <3>3, <3>4 DEF TypeOK
  <2>3. ASSUME NEW t \in Thread, Lose(t) PROVE TypeOK'
    BY <2>3, OpenCall DEF Lose, TypeOK
  <2>4. ASSUME NEW t \in Thread, InitDone(t) PROVE TypeOK'
    BY <2>4, OpenCall DEF InitDone, TypeOK, Call
  <2>5. QED
    BY <2>1, <2>2, <2>3, <2>4 DEF Next, TypeOK, vars
<1>3. QED
  BY <1>1, <1>2, PTL DEF Spec

\* A word starts at most one initialiser, because it is flipped with the test.
Flipped == \A c \in Ctrl : started[c] <= word[c]

LEMMA FlippedStep == TypeOK /\ Flipped /\ [Next]_vars => Flipped'
<1> SUFFICES ASSUME TypeOK, Flipped, [Next]_vars PROVE Flipped'
  OBVIOUS
<1>1. ASSUME NEW t \in Thread, Win(t) PROVE Flipped'
  <2>1. Innermost(t).ctrl \in Ctrl
    BY <1>1, OpenCall DEF Win, Unclaimed
  <2>2. started[Innermost(t).ctrl] = 0
    BY <1>1, <2>1 DEF Win, Unclaimed, Flipped, TypeOK
  <2>3. QED
    BY <1>1, <2>1, <2>2 DEF Win, Unclaimed, Flipped, TypeOK
<1>2. ASSUME UNCHANGED <<word, started>> PROVE Flipped'
  BY <1>2 DEF Flipped
<1>3. QED
  BY <1>1, <1>2 DEF Next, CallOnce, Lose, InitDone, vars

\* Run the initialiser exactly once: never twice, for any number of threads,
\* words and nested calls.
THEOREM OnceOnly == Spec => []StartedOnce
<1>1. Init => Flipped
  BY DEF Init, Flipped
<1>2. TypeOK /\ Flipped => StartedOnce
  BY DEF TypeOK, Flipped, StartedOnce
<1>3. QED
  BY <1>1, <1>2, OnceTypeCorrect, FlippedStep, PTL DEF Spec

-----------------------------------------------------------------------------
(* An initialiser that was started runs, in one place, or has ended. *)

\* The i-th open call of t is inside the initialiser of c.
At(t, i, c) == i \in Running(t) /\ stack[t][i].ctrl = c

\* RunsOrEnded, call by call.
Placed ==
  /\ \A c \in Ctrl : \A s, t \in Thread : \A i, j \in Nat :
       At(s, i, c) /\ At(t, j, c) => s = t /\ i = j
  /\ \A c \in Ctrl : c \in ended => \A t \in Thread : \A i \in Nat : ~At(t, i, c)
  /\ \A c \in Ctrl : started[c] = 1 => c \in ended \/ \E t \in Thread : \E i \in Nat : At(t, i, c)
  /\ \A c \in Ctrl : started[c] = 0 => c \notin ended /\ \A t \in Thread : \A i \in Nat : ~At(t, i, c)

LEMMA RunningIn ==
  ASSUME TypeOK, NEW t \in Thread
  PROVE  DOMAIN stack[t] = 1 .. Len(stack[t]) /\ Len(stack[t]) \in Nat /\ Running(t) \subseteq Nat
BY LenProperties DEF TypeOK, Running

LEMMA PlacedMeans == TypeOK /\ Placed => RunsOrEnded
<1> SUFFICES ASSUME TypeOK, Placed, NEW c \in Ctrl
             PROVE  /\ \A s, t \in Thread : \A i \in Running(s), j \in Running(t) :
                         stack[s][i].ctrl = c /\ stack[t][j].ctrl = c => s = t /\ i = j
                    /\ started[c] = 1 => (c \in ended) # (\E t \in Thread : Inside(t, c))
                    /\ started[c] = 0 => c \notin ended /\ \A t \in Thread : ~Inside(t, c)
  BY DEF RunsOrEnded
<1>1. \A t \in Thread : Running(t) \subseteq Nat
  BY RunningIn
<1>2. \A t \in Thread : Inside(t, c) <=> \E i \in Nat : At(t, i, c)
  BY <1>1 DEF Inside, At
<1>3. ASSUME NEW s \in Thread, NEW t \in Thread, NEW i \in Running(s), NEW j \in Running(t),
             stack[s][i].ctrl = c, stack[t][j].ctrl = c
      PROVE  s = t /\ i = j
  BY <1>1, <1>3 DEF Placed, At
<1>4. c \in ended => ~ \E t \in Thread : Inside(t, c)
  BY <1>2 DEF Placed
<1>5. started[c] = 1 => c \in ended \/ \E t \in Thread : Inside(t, c)
  BY <1>2 DEF Placed
<1>6. started[c] = 0 => c \notin ended /\ \A t \in Thread : ~Inside(t, c)
  BY <1>2 DEF Placed
<1>7. (started[c] = 1) => ((c \in ended) # (\E t \in Thread : Inside(t, c)))
  BY <1>4, <1>5, Zenon
<1>8. QED
  BY <1>3, <1>6, <1>7

\* The calls at an initialiser after a step: those before it, but for one more
\* when one is won, and one less when an initialiser comes back.
LEMMA AtEntered ==
  ASSUME TypeOK, NEW t \in Thread, NEW c \in Ctrl \cup {Null}, NEW opd \in BOOLEAN,
         CallOnce(t, c, opd), NEW s \in Thread, NEW i \in Nat, NEW d \in Ctrl
  PROVE  At(s, i, d)' <=> At(s, i, d)
<1> DEFINE call == [ctrl |-> c, opd |-> opd, at |-> "enter"]
<1>1. call \in Call
  BY DEF Call
<1>2. stack' = [stack EXCEPT ![t] = Append(stack[t], call)]
  BY DEF CallOnce
<1>3. CASE s # t
  BY <1>2, <1>3 DEF At, Running, TypeOK
<1>4. CASE s = t
  <2>1. stack'[s] = Append(stack[s], call) /\ stack[s] \in Seq(Call)
    BY <1>2, <1>4 DEF TypeOK
  <2>2. /\ Len(stack'[s]) = Len(stack[s]) + 1
        /\ \A j \in 1 .. Len(stack[s]) : stack'[s][j] = stack[s][j]
        /\ stack'[s][Len(stack[s]) + 1] = call
        /\ DOMAIN stack'[s] = 1 .. Len(stack[s]) + 1
        /\ DOMAIN stack[s] = 1 .. Len(stack[s])
        /\ Len(stack[s]) \in Nat
    BY <1>1, <2>1, AppendProperties, LenProperties
  <2>3. call.at # "init"
    OBVIOUS
  <2> HIDE DEF call
  <2>4. QED
    BY <2>2, <2>3 DEF At, Running
<1>5. QED
  BY <1>3, <1>4

LEMMA AtLeft ==
  ASSUME TypeOK, NEW t \in Thread, Open(t), stack' = Leave(t),
         NEW s \in Thread, NEW i \in Nat, NEW d \in Ctrl
  PROVE  At(s, i, d)' <=> At(s, i, d) /\ ~(s = t /\ i = Len(stack[t]))
<1>1. CASE s # t
  BY <1>1 DEF At, Running, TypeOK, Leave
<1>2. CASE s = t
  <2>1. /\ stack[t] \in Seq(Call) /\ Len(stack[t]) \in Nat \ {0}
        /\ \A j \in 1 .. Len(stack[t]) : stack[t][j] \in Call
    BY OpenCall, ElementOfSeq DEF TypeOK
  <2>2. stack'[t] = SubSeq(stack[t], 1, Len(stack[t]) - 1)
    BY DEF Leave, TypeOK
  <2>3. /\ Len(stack'[t]) = Len(stack[t]) - 1
        /\ \A j \in 1 .. Len(stack[t]) - 1 : stack'[t][j] = stack[t][j]
        /\ stack'[t] \in Seq(Call)
    BY <2>1, <2>2, SubSeqProperties
  <2>4. DOMAIN stack'[t] = 1 .. Len(stack[t]) - 1 /\ DOMAIN stack[t] = 1 .. Len(stack[t])
    BY <2>1, <2>3, LenProperties
  <2>5. QED
    BY <1>2, <2>1, <2>3, <2>4 DEF At, Running
<1>3. QED
  BY <1>1, <1>2

LEMMA AtWon ==
  ASSUME TypeOK, NEW t \in Thread, Win(t), Innermost(t).opd,
         NEW s \in Thread, NEW i \in Nat, NEW d \in Ctrl
  PROVE  At(s, i, d)' <=> At(s, i, d) \/ (s = t /\ i = Len(stack[t]) /\ d = Innermost(t).ctrl)
<1> DEFINE n == Len(stack[t])
           f == [stack[t] EXCEPT ![n].at = "init"]
<1>1. stack' = [stack EXCEPT ![t] = f]
  BY DEF Win, Unclaimed, TypeOK
<1>2. CASE s # t
  BY <1>1, <1>2 DEF At, Running, TypeOK
<1>3. CASE s = t
  <2>1. /\ stack[t] \in Seq(Call) /\ n \in 1 .. n /\ n \in Nat
        /\ DOMAIN stack[t] = 1 .. n
        /\ stack[t][n] \in Call
    BY OpenCall, LenProperties, ElementOfSeq DEF Win, TypeOK
  <2>2. stack'[t] = [stack[t] EXCEPT ![n] = [stack[t][n] EXCEPT !.at = "init"]]
    BY <1>1 DEF TypeOK
  <2>3. /\ DOMAIN stack'[t] = 1 .. n
        /\ \A j \in 1 .. n : j # n => stack'[t][j] = stack[t][j]
        /\ stack'[t][n].at = "init" /\ stack'[t][n].ctrl = stack[t][n].ctrl
    BY <2>1, <2>2 DEF Call
  <2>4. stack[t][n].at = "enter"
    BY DEF Win, Innermost
  <2> HIDE DEF n
  <2>5. QED
    BY <1>3, <2>1, <2>3, <2>4 DEF At, Running, Innermost, n
<1>4. QED
  BY <1>2, <1>3

LEMMA PlacedStep == TypeOK /\ Flipped /\ Placed /\ [Next]_vars => Placed'
<1> SUFFICES ASSUME TypeOK, Flipped, Placed, [Next]_vars PROVE Placed'
  OBVIOUS
<1>1. ASSUME UNCHANGED <<started, ended>>,
             \A t \in Thread, i \in Nat, c \in Ctrl : At(t, i, c)' <=> At(t, i, c)
      PROVE  Placed'
  BY <1>1 DEF Placed
<1>2. ASSUME NEW t \in Thread, NEW c \in Ctrl \cup {Null}, NEW opd \in BOOLEAN,
             CallOnce(t, c, opd)
      PROVE  Placed'
  BY <1>1, <1>2, AtEntered DEF CallOnce
<1>3. ASSUME NEW t \in Thread, Lose(t) \/ (Win(t) /\ ~Innermost(t).opd)
      PROVE  Placed'
  <2>1. Open(t) /\ stack' = Leave(t) /\ UNCHANGED <<started, ended>>
    BY <1>3 DEF Lose, Win
  <2>2. \A d \in Ctrl : ~At(t, Len(stack[t]), d)
    BY <1>3 DEF Lose, Win, At, Running, Innermost
  <2>3. QED
    BY <1>1, <2>1, <2>2, AtLeft
<1>4. ASSUME NEW t \in Thread, Win(t), Innermost(t).opd PROVE Placed'
  <2>1. PICK k \in Ctrl, n \in Nat : k = Innermost(t).ctrl /\ n = Len(stack[t])
    BY <1>4, OpenCall DEF Win, Unclaimed
  <2>2. started[k] = 0 /\ started' = [started EXCEPT ![k] = 1] /\ ended' = ended
    BY <1>4, <2>1 DEF Win, Unclaimed, Flipped, TypeOK
  <2>3. \A s \in Thread, i \in Nat, d \in Ctrl :
          At(s, i, d)' <=> At(s, i, d) \/ (s = t /\ i = n /\ d = k)
    BY <1>4, <2>1, AtWon
  <2>4. k \notin ended /\ \A s \in Thread, i \in Nat : ~At(s, i, k)
    BY <2>2 DEF Placed
  <2>5. \A c \in Ctrl : c # k => started'[c] = started[c]
    BY <2>2 DEF TypeOK
  <2>6. started'[k] = 1
    BY <2>2 DEF TypeOK
  <2>7. ASSUME NEW c \in Ctrl
        PROVE  /\ \A s, u \in Thread : \A i, j \in Nat :
                     At(s, i, c)' /\ At(u, j, c)' => s = u /\ i = j
               /\ c \in ended' => \A u \in Thread : \A i \in Nat : ~At(u, i, c)'
               /\ started'[c] = 1 => c \in ended' \/ \E u \in Thread : \E i \in Nat : At(u, i, c)'
               /\ started'[c] = 0 => c \notin ended' /\ \A u \in Thread : \A i \in Nat : ~At(u, i, c)'
    <3>1. CASE c = k
      BY <2>1, <2>2, <2>3, <2>4, <2>6, <3>1
    <3>2. CASE c # k
      BY <2>2, <2>3, <2>5, <3>2 DEF Placed
    <3>3. QED
      BY <3>1, <3>2
  <2>8. QED
    BY <2>7 DEF Placed
<1>5. ASSUME NEW t \in Thread, InitDone(t) PROVE Placed'
  <2>1. PICK k \in Ctrl, n \in Nat : k = Innermost(t).ctrl /\ n = Len(stack[t]) /\ n \in 1 .. n
    BY <1>5, OpenCall DEF InitDone
  <2>2. At(t, n, k)
    BY <1>5, <2>1, RunningIn DEF InitDone, At, Running, Innermost
  <2>3. \A s \in Thread, i \in Nat, d \in Ctrl :
          At(s, i, d)' <=> At(s, i, d) /\ ~(s = t /\ i = n)
    BY <1>5, <2>1, AtLeft DEF InitDone
  <2>4. ended' = ended \cup {k} /\ started' = started
    BY <1>5, <2>1 DEF InitDone
  <2>5. \A d \in Ctrl : At(t, n, d) => d = k
    BY <2>1 DEF At, Innermost
  <2>6. \A s \in Thread, i \in Nat : ~At(s, i, k)'
    BY <2>1, <2>2, <2>3 DEF Placed
  <2>7. \A s \in Thread, i \in Nat, d \in Ctrl : d # k => (At(s, i, d)' <=> At(s, i, d))
    BY <2>3, <2>5
  <2>8. started[k] # 0
    BY <2>1, <2>2 DEF Placed
  <2>9. ASSUME NEW c \in Ctrl
        PROVE  /\ \A s, u \in Thread : \A i, j \in Nat :
                     At(s, i, c)' /\ At(u, j, c)' => s = u /\ i = j
               /\ c \in ended' => \A u \in Thread : \A i \in Nat : ~At(u, i, c)'
               /\ started'[c] = 1 => c \in ended' \/ \E u \in Thread : \E i \in Nat : At(u, i, c)'
               /\ started'[c] = 0 => c \notin ended' /\ \A u \in Thread : \A i \in Nat : ~At(u, i, c)'
    <3>1. CASE c = k
      BY <2>4, <2>6, <2>8, <3>1
    <3>2. CASE c # k
      BY <2>4, <2>7, <3>2 DEF Placed
    <3>3. QED
      BY <3>1, <3>2
  <2>10. QED
    BY <2>9 DEF Placed
<1>6. CASE UNCHANGED vars
  BY <1>6 DEF vars, Placed, At, Running
<1>7. QED
  BY <1>2, <1>3, <1>4, <1>5, <1>6 DEF Next

\* No initialiser is abandoned, ends twice or runs in two places, however many
\* threads ask for it and however deep they nest.
THEOREM NoneAbandoned == Spec => []RunsOrEnded
<1>1. Init => Placed
  BY EmptySeq DEF Init, Placed, At, Running
<1>2. Init => Flipped
  BY DEF Init, Flipped
<1>3. QED
  BY <1>1, <1>2, OnceTypeCorrect, FlippedStep, PlacedStep, PlacedMeans, PTL DEF Spec

-----------------------------------------------------------------------------
(* The once calls on the host *)

USE OnceAssumption, HostAssumption, RegistryAssumption

\* A step of the host is a step of the once calls or leaves them alone.
LEMMA StepOnce == [HostNext]_hostVars => [Next]_vars
<1> SUFFICES ASSUME [HostNext]_hostVars PROVE [Next]_vars
  OBVIOUS
<1>1. CASE MainStep
  BY <1>1 DEF MainStep, InstallHandlers, Reserve, LoadElf, BootFails, Register, RegisterNext,
     StartThreads, Dispatch, LoadFaults
<1>2. CASE Returns
  BY <1>2 DEF Returns
<1>3. CASE WatchdogStep
  BY <1>3 DEF WatchdogStep, WdWake, WdResume, WdPrint, WdRoundEnds, WdOpen
<1>4. ASSUME NEW t \in Thread, HostStep(t) PROVE [Next]_vars
  <2>1. ASSUME NEW p \in First(t), NEW ok \in BOOLEAN, Commit(t, p, ok) PROVE UNCHANGED vars
    BY <2>1 DEF Commit
  <2>2. ASSUME OnceEnds(t) \/ InitEnds(t) PROVE Next
    BY <2>2 DEF OnceEnds, InitEnds, Next
  <2>3. ASSUME OnceFaults(t) \/ Release(t) \/ Report(t) PROVE UNCHANGED vars
    BY <2>3 DEF OnceFaults, Release, Report
  <2>4. QED
    BY <1>4, <2>1, <2>2, <2>3 DEF HostStep
<1>5. ASSUME NEW t \in Thread, TitleWork(t) PROVE [Next]_vars
  <2>1. ASSUME TitleOnce(t) PROVE Next
    BY <2>1 DEF TitleOnce, Next
  <2>2. ASSUME TitleWork(t), ~TitleOnce(t) PROVE UNCHANGED vars
    BY <2>2 DEF TitleWork, Touch, Take, Fails
  <2>3. QED
    BY <1>5, <2>1, <2>2
<1>6. CASE UNCHANGED hostVars
  BY <1>6 DEF hostVars
<1>7. QED
  BY <1>1, <1>2, <1>3, <1>4, <1>5, <1>6 DEF HostNext

\* Threads that fault, are stopped and die make the once calls of ThreadOnce.
THEOREM RunsOnce == HostSpec => Spec
<1>1. HostInit => Init
  BY DEF HostInit
<1>2. QED
  BY <1>1, StepOnce, PTL DEF HostSpec, Spec

\* So an initialiser is started once, and runs in one place or has ended, though
\* the thread inside it is stopped, faults, or the word's page comes late.
THEOREM OnceOnHost == HostSpec => [](StartedOnce /\ RunsOrEnded)
BY RunsOnce, OnceOnly, NoneAbandoned, PTL

-----------------------------------------------------------------------------
(* Types *)

LEMMA Pages == Top + 1 \in Nat /\ Page \subseteq Int /\ OncePage \in Page /\ ImagePage \in Page
BY DEF Page, OncePage, ImagePage

LEMMA HostTypeInit == HostInit => HostTypeOK
<1> SUFFICES ASSUME HostInit PROVE HostTypeOK
  OBVIOUS
<1>1. holder \in [Lock -> Thread \cup {NoThread}] /\ Free("shared")
  BY DEF HostInit, Free, Lock
<1>2. need \in [Thread -> SUBSET Page] /\ doing = [t \in Thread |-> "runs"]
  BY DEF HostInit
<1>3. plainOf \in [Import -> Source] /\ ctxOf \in [Import -> Source]
  BY DEF HostInit, NothingServed, Source
<1>4. doing \in [Thread -> {"runs", "fault", "shared"} \cup Dying]
  BY <1>2 DEF Dying
<1>5. \A t \in Thread : doing[t] # "fault"
  BY <1>2
<1>6. work \in 0 .. MaxWork
  BY DEF HostInit
<1>7. committed \subseteq Page /\ refused \in BOOLEAN
  BY DEF HostInit
<1>8. QED
  BY <1>1, <1>2, <1>3, <1>4, <1>5, <1>6, <1>7 DEF HostInit, HostTypeOK, BootStage

\* What a step leaves of a thread that begins or ends a fault.
LEMMA TypeFault ==
  ASSUME HostTypeOK, NEW t \in Thread, doing[t] # "shared",
         NEW pages \in SUBSET Page, NEW what \in {"runs", "fault", "crash"},
         what = "fault" => pages # {},
         need' = [need EXCEPT ![t] = pages], Does(t, what), holder'["shared"] = holder["shared"]
  PROVE  /\ doing' \in [Thread -> {"runs", "fault", "shared"} \cup Dying]
         /\ need' \in [Thread -> SUBSET Page]
         /\ \A u \in Thread : doing'[u] = "fault" => need'[u] # {}
         /\ ~Free("shared")' => doing'[holder'["shared"]] = "shared"
<1>1. doing' = [doing EXCEPT ![t] = what]
  BY DEF Does
<1>2. doing' \in [Thread -> {"runs", "fault", "shared"} \cup Dying]
  BY <1>1 DEF HostTypeOK, Dying
<1>3. need' \in [Thread -> SUBSET Page]
  BY DEF HostTypeOK
<1>4. \A u \in Thread : doing'[u] = "fault" => need'[u] # {}
  BY <1>1 DEF HostTypeOK
<1>5. holder["shared"] \in Thread \cup {NoThread}
  BY DEF HostTypeOK, Lock
<1>6. ~Free("shared")' => doing'[holder'["shared"]] = "shared"
  BY <1>1, <1>5 DEF HostTypeOK, Free
<1>7. QED
  BY <1>2, <1>3, <1>4, <1>6

\* Main starts the watchdog when all else is set up.
Unwatched == boot \notin {"threads", "run"} => wd = "off"

LEMMA TypeMain == HostTypeOK /\ Unwatched /\ (MainStep \/ Returns) => HostTypeOK'
<1> SUFFICES ASSUME HostTypeOK, Unwatched, MainStep \/ Returns PROVE HostTypeOK'
  OBVIOUS
<1> USE DEF HostTypeOK, memory, threads, watchdog, registry, Boots, BootStage, Free
<1>1. CASE InstallHandlers \/ Reserve \/ LoadElf \/ BootFails \/ Dispatch \/ Returns
  BY <1>1 DEF InstallHandlers, Reserve, LoadElf, BootFails, Dispatch, Returns
<1>2. CASE Register
  <2>1. plainOf' \in [Import -> Source] /\ ctxOf' \in [Import -> Source]
    BY <1>2 DEF Register, Registers, RegisterTable, RegisterExtra, RegisterCrt, RegisterFs,
       Serving, Source
  <2>2. boot' \in BootStage /\ UNCHANGED <<exit, memory, threads, watchdog>>
    BY <1>2 DEF Register, RegisterNext
  <2>3. QED
    BY <2>1, <2>2
<1>3. CASE StartThreads
  BY <1>3 DEF StartThreads, Unwatched
<1>4. CASE LoadFaults
  <2>1. {ImagePage} \ committed \in SUBSET Page /\ {ImagePage} \ committed # {}
    BY <1>4, Pages DEF LoadFaults, Faults
  <2>2. QED
    BY <1>4, <2>1, TypeFault DEF LoadFaults, Faults
<1>5. QED
  BY <1>1, <1>2, <1>3, <1>4 DEF MainStep

LEMMA TypeWatchdog == HostTypeOK /\ WatchdogStep => HostTypeOK'
BY DEF WatchdogStep, HostTypeOK, memory, threads, registry, Watches, Free,
   WdWake, WdResume, WdPrint, WdRoundEnds, WdOpen

LEMMA TypeThread ==
  ASSUME HostTypeOK, NEW t \in Thread, HostStep(t) \/ TitleWork(t) PROVE HostTypeOK'
<1> USE DEF HostTypeOK, memory, threads, watchdog, registry, CanRun, Does
<1>1. ASSUME NEW p \in First(t), NEW ok \in BOOLEAN, Commit(t, p, ok) PROVE HostTypeOK'
  <2>1. p \in Page /\ need[t] \subseteq Page
    BY DEF First
  <2>2. CASE InArena(p) /\ ok
    <3> DEFINE left == need[t] \ committed'
               what == IF left = {} THEN "runs" ELSE "fault"
    <3>1. committed' \in SUBSET Page /\ left \in SUBSET Page
      BY <1>1, <2>1, <2>2 DEF Commit
    <3>2. need' = [need EXCEPT ![t] = left] /\ need'[t] = left
      BY <1>1, <2>2 DEF Commit
    <3>3. doing[t] = "fault" /\ doing' = [doing EXCEPT ![t] = what]
      BY <1>1, <2>2, <3>2 DEF Commit
    <3>4. UNCHANGED <<refused, registry, boot, exit, holder, work, watchdog>>
      BY <1>1, <2>2 DEF Commit
    <3>5. what \in {"runs", "fault", "crash"} /\ (what = "fault" => left # {})
      OBVIOUS
    <3> HIDE DEF left, what
    <3>6. QED
      BY <3>1, <3>2, <3>3, <3>4, <3>5, TypeFault
  <2>3. CASE ~(InArena(p) /\ ok)
    <3>1. refused' \in BOOLEAN /\ need' = [need EXCEPT ![t] = need[t]]
      BY <1>1, <2>3 DEF Commit, InArena
    <3>2. /\ doing[t] = "fault" /\ Does(t, "crash")
          /\ UNCHANGED <<committed, registry, boot, exit, holder, work, watchdog>>
      BY <1>1, <2>3 DEF Commit
    <3>3. QED
      BY <2>1, <3>1, <3>2, TypeFault
  <2>4. QED
    BY <2>2, <2>3
<1>2. ASSUME OnceFaults(t) PROVE HostTypeOK'
  <2>1. {OncePage} \ committed \in SUBSET Page /\ {OncePage} \ committed # {}
    BY <1>2, Pages DEF OnceFaults, Faults
  <2>2. holder'["shared"] = holder["shared"] /\ holder' \in [Lock -> Thread \cup {NoThread}]
    BY <1>2 DEF OnceFaults, Lock
  <2>3. Does(t, "fault") /\ need' = [need EXCEPT ![t] = {OncePage} \ committed] /\ doing[t] = "runs"
    BY <1>2 DEF OnceFaults, Faults
  <2>4. UNCHANGED <<registry, boot, exit, memory, work, watchdog>>
    BY <1>2 DEF OnceFaults
  <2>5. QED
    BY <2>1, <2>2, <2>3, <2>4, TypeFault
<1>3. ASSUME OnceEnds(t) PROVE HostTypeOK'
  BY <1>3 DEF OnceEnds, Free, Lock
<1>4. ASSUME InitEnds(t) \/ TitleOnce(t) PROVE HostTypeOK'
  BY <1>4 DEF InitEnds, TitleOnce, Free
<1>5. ASSUME Take(t) \/ Release(t) PROVE HostTypeOK'
  BY <1>5 DEF Take, Release, Works, Free, Lock
<1>6. ASSUME Fails(t) \/ Report(t) PROVE HostTypeOK'
  <2>1. CASE Fails(t)
    <3>1. doing' = [doing EXCEPT ![t] = "fail"] /\ doing[t] = "runs" /\ "fail" \in Dying
      BY <2>1 DEF Fails, Works, Dying
    <3>2. doing' \in [Thread -> {"runs", "fault", "shared"} \cup Dying]
      BY <3>1
    <3>3. work' \in 0 .. MaxWork
      BY <2>1 DEF Fails, Works
    <3>4. QED
      BY <2>1, <3>1, <3>2, <3>3 DEF Fails, Free, Lock
  <2>2. CASE Report(t)
    BY <2>2 DEF Report, Free
  <2>3. QED
    BY <1>6, <2>1, <2>2
<1>7. ASSUME NEW p \in 0 .. Top, NEW wide \in BOOLEAN, Touch(t, p, wide) PROVE HostTypeOK'
  <2>1. p \in Page /\ p + 1 \in Page
    BY DEF Page
  <2>2. PICK pages \in SUBSET Page : Faults(t, pages)
    BY <1>7, <2>1 DEF Touch
  <2>3. pages \ committed \in SUBSET Page /\ pages \ committed # {}
    BY <2>2 DEF Faults
  <2>4. Does(t, "fault") /\ need' = [need EXCEPT ![t] = pages \ committed] /\ doing[t] = "runs"
    BY <1>7, <2>2 DEF Touch, Works, Faults
  <2>5. work' \in 0 .. MaxWork /\ UNCHANGED <<registry, boot, exit, memory, holder, watchdog>>
    BY <1>7 DEF Touch, Works
  <2>6. QED
    BY <2>3, <2>4, <2>5, TypeFault
<1>8. QED
  BY <1>1, <1>2, <1>3, <1>4, <1>5, <1>6, <1>7 DEF HostStep, TitleWork

LEMMA UnwatchedStep == Unwatched /\ [HostNext]_hostVars => Unwatched'
<1> SUFFICES ASSUME Unwatched, [HostNext]_hostVars PROVE Unwatched'
  OBVIOUS
<1> USE DEF Unwatched, watchdog
<1>1. CASE MainStep \/ Returns
  BY <1>1 DEF MainStep, InstallHandlers, Reserve, LoadElf, BootFails, Register, RegisterNext,
     StartThreads, Dispatch, LoadFaults, Returns, Boots
<1>2. CASE WatchdogStep
  BY <1>2 DEF WatchdogStep, WdWake, WdResume, WdPrint, WdRoundEnds, WdOpen, Watches
<1>3. ASSUME NEW t \in Thread, HostStep(t) \/ TitleWork(t) PROVE Unwatched'
  <2>1. UNCHANGED <<boot, watchdog>>
    BY <1>3 DEF HostStep, TitleWork, Commit, OnceFaults, OnceEnds, InitEnds, Release, Report,
       TitleOnce, Touch, Take, Fails
  <2>2. QED
    BY <2>1
<1>4. CASE UNCHANGED hostVars
  BY <1>4 DEF hostVars
<1>5. QED
  BY <1>1, <1>2, <1>3, <1>4 DEF HostNext

LEMMA TypeStep == HostTypeOK /\ Unwatched /\ [HostNext]_hostVars => HostTypeOK'
<1>1. HostTypeOK /\ UNCHANGED hostVars => HostTypeOK'
  BY DEF HostTypeOK, hostVars, memory, threads, watchdog, registry, Free
<1>2. QED
  BY <1>1, TypeMain, TypeWatchdog, TypeThread DEF HostNext

\* Main, the memory, the threads and the watchdog keep their types, a lock is
\* held by a thread inside it, and only the thread that is read is stopped.
THEOREM HostTypeCorrect == HostSpec => []HostTypeOK
<1>1. HostInit => Unwatched
  BY DEF HostInit, Unwatched
<1>2. QED
  BY <1>1, HostTypeInit, TypeStep, UnwatchedStep, PTL DEF HostSpec

-----------------------------------------------------------------------------
(* The imports *)

\* What is registered by the time main has come so far.
Registered ==
  /\ boot \in {"start", "handlers", "reserved", "loaded"} => \A i \in Import : ctxOf[i] = "none"
  /\ boot = "table" => \A i \in Import : ctxOf[i] # "none" => i \in TableCtx
  /\ boot \notin {"start", "handlers", "reserved", "loaded"} => \A i \in Import :
       /\ i \in TableCtx => ctxOf[i] # "none"
       /\ i \in Table => plainOf[i] # "none"
  /\ boot \in {"extra", "crt", "registered", "threads", "run"} =>
       \A i \in Extra : ctxOf[i] = "extra"
  /\ boot \in {"crt", "registered", "threads", "run"} => \A i \in Crt : ctxOf[i] # "none"
  /\ boot \in {"registered", "threads", "run"} => \A i \in Fs : ctxOf[i] # "none"

LEMMA RegisteredStep == HostTypeOK /\ Registered /\ [HostNext]_hostVars => Registered'
<1> SUFFICES ASSUME HostTypeOK, Registered, [HostNext]_hostVars PROVE Registered'
  OBVIOUS
<1>1. CASE Register
  <2> USE DEF HostTypeOK, Registered, Serving, Boots, RegisterNext
  <2>1. CASE RegisterNext("loaded", "table") /\ RegisterTable
    BY <2>1 DEF RegisterTable
  <2>2. CASE RegisterNext("table", "extra") /\ RegisterExtra
    BY <2>2 DEF RegisterExtra, Extras
  <2>3. CASE RegisterNext("extra", "crt") /\ RegisterCrt
    BY <2>3 DEF RegisterCrt
  <2>4. CASE RegisterNext("crt", "registered") /\ RegisterFs
    BY <2>4 DEF RegisterFs
  <2>5. QED
    BY <1>1, <2>1, <2>2, <2>3, <2>4 DEF Register, Registers
<1>2. CASE MainStep /\ ~Register
  <2>1. UNCHANGED registry
    BY <1>2 DEF MainStep, InstallHandlers, Reserve, LoadElf, BootFails, StartThreads, Dispatch,
       LoadFaults
  <2>2. \/ boot' = boot
        \/ boot \in {"start", "handlers", "reserved"} /\ boot' \in {"handlers", "reserved", "loaded"}
        \/ boot \in {"registered", "threads"} /\ boot' \in {"threads", "run"}
    BY <1>2 DEF MainStep, InstallHandlers, Reserve, LoadElf, BootFails, StartThreads, Dispatch,
       LoadFaults, Boots
  <2>3. QED
    BY <2>1, <2>2 DEF Registered, registry
<1>3. CASE UNCHANGED <<boot, registry>>
  BY <1>3 DEF Registered, registry
<1>4. WatchdogStep => UNCHANGED <<boot, registry>>
  BY DEF WatchdogStep, WdWake, WdResume, WdPrint, WdRoundEnds, WdOpen
<1>5. Returns => UNCHANGED <<boot, registry>>
  BY DEF Returns, Boots
<1>6. ASSUME NEW t \in Thread, HostStep(t) \/ TitleWork(t) PROVE UNCHANGED <<boot, registry>>
  BY <1>6 DEF HostStep, TitleWork, Commit, OnceFaults, OnceEnds, InitEnds, Release, Report,
     TitleOnce, Touch, Take, Fails
<1>7. QED
  BY <1>1, <1>2, <1>3, <1>4, <1>5, <1>6 DEF HostNext, hostVars

\* When the title runs its own handlers serve what they are meant to serve, and
\* every import somebody serves is served, whatever the tables overlap in.
THEOREM TitleServed == HostSpec => []OverridesServe
<1>1. HostInit => Registered
  BY DEF HostInit, NothingServed, Registered
<1>2. HostTypeOK /\ Registered => OverridesServe
  BY DEF HostTypeOK, Registered, OverridesServe, Serves
<1>3. QED
  BY <1>1, <1>2, HostTypeCorrect, RegisteredStep, PTL DEF HostSpec

-----------------------------------------------------------------------------
(* The memory *)

LEMMA RefusedStep ==
  HostTypeOK /\ EveryOffsetValid /\ [HostNext]_hostVars => EveryOffsetValid'
<1> SUFFICES ASSUME HostTypeOK, EveryOffsetValid, [HostNext]_hostVars,
                    NEW t \in Thread, doing'[t] = "crash"
             PROVE  refused'
  BY DEF EveryOffsetValid
<1> USE DEF HostTypeOK, EveryOffsetValid, memory, threads
<1>1. ASSUME NEW u \in Thread, NEW p \in First(u), NEW ok \in BOOLEAN, Commit(u, p, ok)
      PROVE  refused'
  <2>1. p \in 0 .. Top + 1
    BY DEF First, Page
  <2>2. refused => refused'
    BY <1>1 DEF Commit
  <2>3. CASE doing[t] = "crash"
    BY <2>2, <2>3
  <2>4. CASE doing[t] # "crash"
    BY <1>1, <2>1, <2>4 DEF Commit, Does, InArena
  <2>5. QED
    BY <2>3, <2>4
<1>2. ASSUME refused' = refused,
             doing' = doing \/ \E u \in Thread, what \in {"runs", "fault", "shared", "fail"} :
                                Does(u, what)
      PROVE  refused'
  BY <1>2 DEF Does
<1>3. CASE MainStep \/ Returns \/ WatchdogStep
  BY <1>2, <1>3 DEF MainStep, Returns, WatchdogStep, InstallHandlers, Reserve, LoadElf, BootFails,
     Register, RegisterNext, StartThreads, Dispatch, LoadFaults, Faults,
     WdWake, WdResume, WdPrint, WdRoundEnds, WdOpen
<1>4. ASSUME NEW u \in Thread, HostStep(u) \/ TitleWork(u),
             \A p \in First(u), ok \in BOOLEAN : ~Commit(u, p, ok)
      PROVE  refused'
  BY <1>2, <1>4 DEF HostStep, TitleWork, OnceFaults, OnceEnds, InitEnds, Release, Report,
     TitleOnce, Touch, Take, Fails, Faults
<1>5. CASE UNCHANGED hostVars
  BY <1>2, <1>5 DEF hostVars
<1>6. QED
  BY <1>1, <1>3, <1>4, <1>5 DEF HostNext, HostStep

\* A thread crashes on guest memory only when the system refused a page: every
\* offset is valid, an access that begins at the last one too.
THEOREM OffsetsValid == HostSpec => []EveryOffsetValid
<1>1. HostInit => EveryOffsetValid
  BY DEF HostInit, EveryOffsetValid
<1>2. QED
  BY <1>1, HostTypeCorrect, RefusedStep, PTL DEF HostSpec
=============================================================================
