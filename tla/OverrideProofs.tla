-------------------------- MODULE OverrideProofs --------------------------
(***************************************************************************)
(* The two overrides that answer for a part that is not there.             *)
(* MatchLoad: sessions, forced transitions and banks, for any number of    *)
(* banks and any patience of the title that is longer than two passes of   *)
(* the ticker.  EdgeWait: for any number of threads and requests, and any  *)
(* number of submissions.                                                  *)
(***************************************************************************)
EXTENDS MatchLoad, EdgeWait, FiniteSetTheorems, WellFoundedInduction, TLAPS

USE MatchAssumption, EdgeAssumption

LEMMA TypeInit == Init => TypeOK
<1> SUFFICES ASSUME Init PROVE TypeOK
  OBVIOUS
<1>1. next \in [Bank -> Bank \cup {Nil}] /\ 0 \in 0 .. PATIENCE /\ 0 \in 0 .. GAP /\ 0 \in 0 .. MaxCalls
  BY DEF Init
<1>2. /\ on \subseteq Switch /\ armed \subseteq Shot
      /\ serviced \in BOOLEAN /\ late \in BOOLEAN /\ loaded \in BOOLEAN /\ cull \in BOOLEAN
      /\ machine \in BOOLEAN /\ built \in BOOLEAN /\ mgr \in BOOLEAN /\ forced \in BOOLEAN
  BY Zenon DEF Init
<1>3. QED
  BY <1>1, <1>2 DEF Init, TypeOK

\* The flags of a step, apart from its numbers.
Flags ==
  /\ on \subseteq Switch /\ armed \subseteq Shot
  /\ serviced \in BOOLEAN /\ late \in BOOLEAN /\ loaded \in BOOLEAN /\ cull \in BOOLEAN
  /\ machine \in BOOLEAN /\ built \in BOOLEAN /\ mgr \in BOOLEAN /\ forced \in BOOLEAN

LEMMA FlagsStep == TypeOK /\ [Next]_vars => Flags'
<1> SUFFICES ASSUME TypeOK, [Next]_vars PROVE Flags'
  OBVIOUS
<1> USE DEF brbVars, sessionVars, tickVars, waitVars, uiVars
<1>1. Flags
  BY DEF TypeOK, Flags
<1>2. CASE UNCHANGED vars
  BY <1>1, <1>2 DEF vars, Flags
<1>3. ASSUME NEW due \in SUBSET armed, Update(due) PROVE Flags'
  <2>1. armed' \subseteq Shot
    BY <1>1, <1>3 DEF Update, Flags
  <2>2. forced' \in BOOLEAN /\ loaded' \in BOOLEAN
    BY <1>1, <1>3, Zenon DEF Update, Flags
  <2>3. UNCHANGED <<on, serviced, late, cull, machine, built, mgr>>
    BY <1>3 DEF Update
  <2>4. QED
    BY <1>1, <2>1, <2>2, <2>3 DEF Flags
<1>4. CASE LoadDone
  <2>1. loaded' \in BOOLEAN /\ late' \in BOOLEAN
    BY <1>4, Zenon DEF LoadDone
  <2>2. QED
    BY <1>1, <1>4, <2>1 DEF LoadDone, Flags
<1>5. CASE Enter \/ Build
  <2>1. machine' \in BOOLEAN /\ built' \in BOOLEAN /\ mgr' \in BOOLEAN
    BY <1>1, <1>5, Zenon DEF Enter, Build, Flags
  <2>2. UNCHANGED <<on, armed, serviced, late, loaded, cull, forced>>
    BY <1>5 DEF Enter, Build
  <2>3. QED
    BY <1>1, <2>1, <2>2 DEF Flags
<1>6. CASE BeginLoad \/ ClearAgain \/ BeginFrame \/ CullEnds \/ MixEnds
  <2>1. loaded' \in BOOLEAN /\ cull' \in BOOLEAN /\ serviced' \in BOOLEAN
    BY <1>1, <1>6, Zenon DEF BeginLoad, ClearAgain, BeginFrame, CullEnds, MixEnds, Flags
  <2>2. UNCHANGED <<on, armed, late, machine, built, mgr, forced>>
    BY <1>6 DEF BeginLoad, ClearAgain, BeginFrame, CullEnds, MixEnds
  <2>3. QED
    BY <1>1, <2>1, <2>2 DEF Flags
<1>7. ASSUME NEW b \in Bank, RegisterBank(b) \/ UnloadBank(b) PROVE Flags'
  BY <1>1, <1>7 DEF RegisterBank, UnloadBank, Flags
<1>8. CASE StartSession \/ AckReads \/ AckWrites \/ DriverStarts \/ Callback
  BY <1>1, <1>8 DEF StartSession, AckReads, AckWrites, DriverStarts, Callback, Flags
<1>9. CASE MainGoesOn
  BY <1>1, <1>9 DEF MainGoesOn, Append, Unlink, Poll, LoadEnd, PoolWaitEnd, Flags
<1>10. QED
  BY <1>2, <1>3, <1>4, <1>5, <1>6, <1>7, <1>8, <1>9 DEF Next, TickStep

LEMMA TypeStep == TypeOK /\ [Next]_vars => TypeOK'
<1> SUFFICES ASSUME TypeOK, [Next]_vars PROVE TypeOK'
  OBVIOUS
<1> USE DEF brbVars, sessionVars, tickVars, waitVars, uiVars, Begins
<1>1. Flags'
  BY FlagsStep
<1>2. CASE UNCHANGED vars
  BY <1>2 DEF vars, TypeOK
<1>3. ASSUME NEW b \in Bank, RegisterBank(b) PROVE TypeOK'
  BY <1>1, <1>3 DEF RegisterBank, TypeOK, Flags
<1>4. ASSUME NEW b \in Bank, UnloadBank(b) PROVE TypeOK'
  BY <1>1, <1>4 DEF UnloadBank, TypeOK, Flags
<1>5. CASE Append
  <2>1. bank \in Bank /\ [next EXCEPT ![bank] = Nil] \in [Bank -> Bank \cup {Nil}]
    BY <1>5 DEF Append, TypeOK
  <2>2. next' \in [Bank -> Bank \cup {Nil}] /\ head' \in Bank \cup {Nil} /\ main' \in {"idle", "spins"}
    BY <1>5, <2>1 DEF Append, TypeOK
  <2>3. up' \subseteq Bank /\ bank' = Nil
    BY <1>5, <2>1 DEF Append, TypeOK
  <2>4. UNCHANGED <<driver, serviced, req, ack, polls, lag, seen, tick, skips, calls>>
    BY <1>5 DEF Append
  <2>5. QED
    BY <1>1, <2>2, <2>3, <2>4 DEF TypeOK, Flags
<1>6. CASE Unlink
  <2>1. bank \in Bank /\ next[bank] \in Bank \cup {Nil}
    BY <1>6 DEF Unlink, TypeOK
  <2>2. next' \in [Bank -> Bank \cup {Nil}] /\ head' \in Bank \cup {Nil} /\ up' \subseteq Bank
    BY <1>6, <2>1 DEF Unlink, TypeOK
  <2>3. QED
    BY <1>1, <1>6, <2>2 DEF Unlink, TypeOK, Flags
<1>7. CASE DriverStarts \/ Callback \/ MixEnds
  BY <1>1, <1>7 DEF DriverStarts, Callback, MixEnds, TypeOK, Flags
<1>8. CASE StartSession
  BY <1>1, <1>8 DEF StartSession, TypeOK, Flags
<1>9. CASE Poll
  BY <1>1, <1>9 DEF Poll, TypeOK, Flags
<1>10. CASE AckReads \/ AckWrites \/ LoadDone
  BY <1>1, <1>10 DEF AckReads, AckWrites, LoadDone, TypeOK, Flags
<1>11. CASE BeginLoad \/ ClearAgain \/ LoadEnd \/ BeginFrame \/ PoolWaitEnd \/ CullEnds
  BY <1>1, <1>11 DEF BeginLoad, ClearAgain, LoadEnd, BeginFrame, PoolWaitEnd, CullEnds, TypeOK, Flags
<1>12. CASE Enter \/ Build
  BY <1>1, <1>12 DEF Enter, Build, TypeOK, Flags
<1>13. ASSUME NEW due \in SUBSET armed, Update(due) PROVE TypeOK'
  <2>1. main' \in {"idle", "load"} /\ skips' \in Nat
    BY <1>13 DEF Update, TypeOK
  <2>2. UNCHANGED <<bank, brbVars, sessionVars, seen, tick, calls>>
    BY <1>13 DEF Update
  <2>3. QED
    BY <1>1, <2>1, <2>2 DEF TypeOK, Flags
<1>14. QED
  BY <1>2, <1>3, <1>4, <1>5, <1>6, <1>7, <1>8, <1>9, <1>10, <1>11, <1>12, <1>13
     DEF Next, MainGoesOn, TickStep

\* The threads, the list of banks and the switches keep their types.
THEOREM TypeCorrect == Spec => []TypeOK
BY TypeInit, TypeStep, PTL DEF Spec

-----------------------------------------------------------------------------
(* Sessions: what a tick read may be old, but the next tick reads again.   *)

InTime ==
  /\ tick = "write" => ack < seen
  /\ main \notin {"session", "fatal"} => polls = 0
  /\ On("BRB_ACK") =>
       /\ main # "fatal"
       /\ main = "session" /\ ack # req =>
            polls <= IF tick = "read" \/ (tick = "write" /\ seen = req) THEN GAP + lag ELSE lag

LEMMA InTimeInit == Init => InTime
BY DEF Init, InTime

LEMMA InTimeStep == TypeOK /\ InTime /\ [Next]_vars => InTime'
<1> SUFFICES ASSUME TypeOK, InTime, [Next]_vars PROVE InTime'
  OBVIOUS
<1> USE DEF brbVars, sessionVars, tickVars, waitVars, uiVars, Begins, On
<1>1. /\ req \in Nat /\ ack \in 0 .. req /\ seen \in 0 .. req /\ polls \in 0 .. PATIENCE /\ lag \in 0 .. GAP
      /\ tick \in {"read", "write", "load"}
  BY DEF TypeOK
<1>2. CASE UNCHANGED vars
  BY <1>2 DEF vars, InTime
<1>3. ASSUME NEW b \in Bank, RegisterBank(b) \/ UnloadBank(b) PROVE InTime'
  BY <1>3 DEF RegisterBank, UnloadBank, InTime
<1>4. CASE StartSession
  BY <1>1, <1>4 DEF StartSession, InTime
<1>5. CASE Poll
  BY <1>1, <1>5 DEF Poll, InTime
<1>6. CASE AckReads
  BY <1>1, <1>6 DEF AckReads, InTime
<1>7. CASE AckWrites
  BY <1>1, <1>7 DEF AckWrites, InTime
<1>8. CASE LoadDone
  BY <1>1, <1>8 DEF LoadDone, InTime
<1>9. CASE Append \/ Unlink \/ LoadEnd \/ PoolWaitEnd \/ BeginLoad \/ ClearAgain \/ BeginFrame \/ CullEnds
  BY <1>9 DEF Append, Unlink, LoadEnd, PoolWaitEnd, BeginLoad, ClearAgain, BeginFrame, CullEnds, InTime
<1>10. CASE DriverStarts \/ Callback \/ MixEnds \/ Enter \/ Build
  BY <1>10 DEF DriverStarts, Callback, MixEnds, Enter, Build, InTime
<1>11. ASSUME NEW due \in SUBSET armed, Update(due) PROVE InTime'
  <2>1. main = "idle" /\ main' \in {"idle", "load"} /\ UNCHANGED <<on, sessionVars, seen, tick>>
    BY <1>11 DEF Update
  <2>2. QED
    BY <2>1 DEF InTime
<1>12. QED
  BY <1>2, <1>3, <1>4, <1>5, <1>6, <1>7, <1>8, <1>9, <1>10, <1>11 DEF Next, MainGoesOn, TickStep

\* With TM_BRB_ACK no session runs out of patience, if that is more than the
\* polls of two passes: the pass under way may answer the request before, the
\* one after it answers this one.
THEOREM AlwaysAcknowledged == Spec => []SessionsStart
<1>1. InTime => SessionsStart
  BY DEF InTime, SessionsStart
<1>2. QED
  BY <1>1, TypeInit, TypeStep, InTimeInit, InTimeStep, PTL DEF Spec

-----------------------------------------------------------------------------
(* Forced transitions *)

LEMMA ShotsFinite == IsFiniteSet(Shot) /\ \A s \in SUBSET Shot : IsFiniteSet(s) /\ Cardinality(s) \in Nat
<1>1. IsFiniteSet(Shot)
  <2>1. Shot = (({} \cup {"state"}) \cup {"call"}) \cup {"world"}
    BY DEF Shot
  <2>2. QED
    BY <2>1, FS_EmptySet, FS_AddElement
<1>2. QED
  BY <1>1, FS_Subset, FS_CardinalityType

LEMMA ShotsInit == Init => OneUpdatePerShot
<1> SUFFICES ASSUME Init PROVE OneUpdatePerShot
  OBVIOUS
<1>1. armed \in SUBSET Shot /\ skips = 0
  BY DEF Init
<1>2. Cardinality(armed) <= Cardinality(Shot)
  BY <1>1, ShotsFinite, FS_Subset
<1>3. QED
  BY <1>1, <1>2, ShotsFinite DEF OneUpdatePerShot

LEMMA ShotsStep == TypeOK /\ OneUpdatePerShot /\ [Next]_vars => OneUpdatePerShot'
<1> SUFFICES ASSUME TypeOK, OneUpdatePerShot, [Next]_vars PROVE OneUpdatePerShot'
  OBVIOUS
<1> USE DEF brbVars, sessionVars, tickVars, waitVars, uiVars, Begins
<1>1. CASE UNCHANGED <<armed, skips>>
  BY <1>1 DEF OneUpdatePerShot
<1>2. ASSUME NEW due \in SUBSET armed, Update(due) PROVE OneUpdatePerShot'
  <2>1. PICK shots \in SUBSET armed : shots # {} /\ armed' = armed \ shots
    BY <1>2 DEF Update, Spent
  <2>2. PICK s \in shots : TRUE
    BY <2>1
  <2>3. armed \subseteq Shot /\ skips \in Nat /\ skips' \in {skips, skips + 1}
    BY <1>2 DEF Update, TypeOK
  <2>4. Cardinality(armed \ {s}) = Cardinality(armed) - 1 /\ IsFiniteSet(armed \ {s})
    BY <2>2, <2>3, ShotsFinite, FS_RemoveElement
  <2>5. Cardinality(armed') <= Cardinality(armed \ {s})
    BY <2>1, <2>2, <2>4, FS_Subset
  <2>6. Cardinality(armed) \in Nat /\ Cardinality(armed') \in Nat /\ Cardinality(Shot) \in Nat
    BY <2>1, <2>3, ShotsFinite
  <2>7. QED
    BY <2>3, <2>4, <2>5, <2>6 DEF OneUpdatePerShot
<1>3. QED
  BY <1>1, <1>2
     DEF vars, Next, MainGoesOn, TickStep, RegisterBank, UnloadBank, Append, Unlink, DriverStarts, Callback,
         MixEnds, StartSession, Poll, AckReads, AckWrites, LoadDone, BeginLoad, ClearAgain, LoadEnd, BeginFrame,
         PoolWaitEnd, CullEnds, Enter, Build

\* However the shots come due, together or apart, the update is left out at most
\* once for each of them.
THEOREM UpdatesGoOn == Spec => []OneUpdatePerShot
BY TypeInit, TypeStep, ShotsInit, ShotsStep, PTL DEF Spec
-----------------------------------------------------------------------------
(* Induction over numbers, as a fact about sets of them: the library's     *)
(* principle in the form that needs no operator.                           *)

LEMMA LeastNumber ==
  ASSUME NEW T, T \subseteq Nat, T # {}
  PROVE  \E x \in T : \A y \in T : x <= y
<1> DEFINE R == {ss \in Nat \X Nat : ss[1] < ss[2]}
<1>1. IsWellFoundedOn(R, Nat)
  BY NatLessThanWellFounded, Zenon DEF OpToRel
<1>2. PICK x \in T : \A y \in T : ~(<<y, x>> \in R)
  <2> HIDE DEF R
  <2> QED
    BY <1>1, WFMin, Zenon
<1>3. \A y \in T : x <= y
  <2> SUFFICES ASSUME NEW y \in T PROVE x <= y
    OBVIOUS
  <2>1. <<y, x>> \in Nat \X Nat /\ <<y, x>>[1] = y /\ <<y, x>>[2] = x
    OBVIOUS
  <2>2. QED
    BY <1>2, <2>1
<1>4. QED
  BY <1>3

LEMMA Induction ==
  ASSUME NEW T, 0 \in T, \A n \in Nat : n \in T => n + 1 \in T
  PROVE  Nat \subseteq T
<1> SUFFICES ASSUME Nat \ T # {} PROVE FALSE
  OBVIOUS
<1>1. PICK x \in Nat \ T : \A y \in Nat \ T : x <= y
  BY LeastNumber
<1>2. x - 1 \in Nat /\ (x - 1) + 1 = x
  OBVIOUS
<1>3. QED
  BY <1>1, <1>2

-----------------------------------------------------------------------------
(* The walk along BRB's list. Its nodes are the least set that holds the   *)
(* first and the links of each: the guard looks at as many as there are    *)
(* banks, so it misses none.                                               *)

Following(links, node) == IF node = Nil THEN Nil ELSE links[node]

LEMMA WalkIs ==
  ASSUME NEW first, NEW links
  PROVE  Walk(first, links)
           = [i \in 0 .. STEPS |->
                IF i = 0 THEN first ELSE Following(links, Walk(first, links)[i - 1])]
<1> DEFINE P(f, k) == f = [i \in 0 .. k |-> IF i = 0 THEN first
                              ELSE IF f[i - 1] = Nil THEN Nil ELSE links[f[i - 1]]]
           K == {k \in Nat : \E f : P(f, k)}
<1>1. 0 \in K
  <2>1. P([i \in 0 .. 0 |-> first], 0)
    OBVIOUS
  <2>2. QED
    BY <2>1
<1>2. ASSUME NEW k \in Nat, k \in K
      PROVE  k + 1 \in K
  <2>1. PICK f : P(f, k)
    BY <1>2
  <2> DEFINE g == [i \in 0 .. k + 1 |-> IF i <= k THEN f[i] ELSE Following(links, f[k])]
  <2>2. P(g, k + 1)
    <3> SUFFICES ASSUME NEW i \in 0 .. k + 1
                 PROVE  g[i] = IF i = 0 THEN first
                               ELSE IF g[i - 1] = Nil THEN Nil ELSE links[g[i - 1]]
      BY Zenon
    <3>1. CASE i <= k
      <4>1. f[i] = IF i = 0 THEN first ELSE IF f[i - 1] = Nil THEN Nil ELSE links[f[i - 1]]
        <5> DEFINE h == [j \in 0 .. k |-> IF j = 0 THEN first
                              ELSE IF f[j - 1] = Nil THEN Nil ELSE links[f[j - 1]]]
        <5>1. h[i] = IF i = 0 THEN first ELSE IF f[i - 1] = Nil THEN Nil ELSE links[f[i - 1]]
          BY <3>1
        <5>2. f = h
          BY <2>1, Zenon
        <5> HIDE DEF h
        <5>3. QED
          BY <5>1, <5>2, Zenon
      <4>2. g[i] = f[i] /\ (i # 0 => g[i - 1] = f[i - 1])
        BY <3>1
      <4>3. QED
        BY <4>1, <4>2, Zenon
    <3>2. CASE i = k + 1
      BY <3>2 DEF Following
    <3>3. QED
      BY <3>1, <3>2
  <2> HIDE DEF P, g
  <2>3. QED
    BY <2>2
<1>3. \E f : P(f, STEPS)
  <2> HIDE DEF P
  <2>1. Nat \subseteq K
    <3> HIDE DEF K
    <3> QED
      BY <1>1, <1>2, Induction
  <2>2. QED
    BY <2>1
<1>4. QED
  BY <1>3, Zenon DEF Walk, Following

\* The nodes of a walk over BRB's list.
WalkOf(first, links) ==
  /\ first \in Bank \cup {Nil} /\ links \in [Bank -> Bank \cup {Nil}]

LEMMA WalkSteps ==
  ASSUME NEW first, NEW links, WalkOf(first, links)
  PROVE  LET node == Walk(first, links)
         IN  /\ node \in [0 .. STEPS -> Bank \cup {Nil}]
             /\ node[0] = first
             /\ \A i \in Nat : i < STEPS => node[i + 1] = Following(links, node[i])
<1> DEFINE node == Walk(first, links)
           T == {i \in Nat : i <= STEPS => node[i] \in Bank \cup {Nil}}
<1>1. DOMAIN node = 0 .. STEPS /\ node[0] = first
      /\ \A i \in Nat : i < STEPS => node[i + 1] = Following(links, node[i])
  <2> DEFINE w == [i \in 0 .. STEPS |-> IF i = 0 THEN first ELSE Following(links, node[i - 1])]
  <2>1. node = w
    BY WalkIs
  <2>2. DOMAIN w = 0 .. STEPS /\ w[0] = first
    OBVIOUS
  <2>3. ASSUME NEW i \in Nat, i < STEPS PROVE w[i + 1] = Following(links, node[i])
    <3>1. i + 1 \in 0 .. STEPS /\ i + 1 # 0 /\ (i + 1) - 1 = i
      BY <2>3
    <3> HIDE DEF node
    <3>2. w[i + 1] = Following(links, node[(i + 1) - 1])
      BY <3>1
    <3>3. QED
      BY <3>1, <3>2
  <2> HIDE DEF node, w
  <2>4. QED
    BY <2>1, <2>2, <2>3
<1>2. node = [i \in 0 .. STEPS |-> node[i]]
  BY WalkIs
<1> HIDE DEF node
<1>3. Nat \subseteq T
  <2>1. 0 \in T
    BY <1>1 DEF WalkOf
  <2>2. ASSUME NEW i \in Nat, i \in T PROVE i + 1 \in T
    BY <1>1, <2>2 DEF WalkOf, Following
  <2> HIDE DEF T
  <2>3. QED
    BY <2>1, <2>2, Induction
<1>4. \A i \in 0 .. STEPS : node[i] \in Bank \cup {Nil}
  BY <1>3
<1>5. node \in [0 .. STEPS -> Bank \cup {Nil}]
  BY <1>2, <1>4
<1>6. QED
  BY <1>1, <1>5 DEF node

\* A walk that has not come to an end after as many nodes as there are banks
\* has come by one of them twice, so its last node was followed before.
LEMMA WalkFollows ==
  ASSUME NEW first, NEW links, WalkOf(first, links), NEW node \in Nodes(first, links)
  PROVE  \E i \in Nat : /\ i < STEPS
                       /\ Walk(first, links)[i] = node
                       /\ Walk(first, links)[i + 1] = links[node]
<1> DEFINE w == Walk(first, links)
<1>1. /\ w \in [0 .. STEPS -> Bank \cup {Nil}]
      /\ \A i \in Nat : i < STEPS => w[i + 1] = Following(links, w[i])
  BY WalkSteps
<1>2. PICK k \in 0 .. STEPS : w[k] = node /\ node # Nil
  BY DEF Nodes
<1> HIDE DEF w
<1>3. CASE k < STEPS
  BY <1>1, <1>2, <1>3 DEF Following, w
<1>4. CASE k = STEPS
  <2>1. \A i \in 0 .. STEPS : w[i] # Nil
    <3> SUFFICES ASSUME NEW i \in 0 .. STEPS, w[i] = Nil PROVE FALSE
      OBVIOUS
    <3> DEFINE T == {j \in Nat : i + j <= STEPS => w[i + j] = Nil}
    <3>1. 0 \in T
      OBVIOUS
    <3>2. ASSUME NEW j \in Nat, j \in T PROVE j + 1 \in T
      <4> SUFFICES ASSUME i + (j + 1) <= STEPS PROVE w[i + (j + 1)] = Nil
        OBVIOUS
      <4>1. i + j \in Nat /\ i + j < STEPS /\ (i + j) + 1 = i + (j + 1)
        OBVIOUS
      <4>2. w[(i + j) + 1] = Following(links, w[i + j]) /\ w[i + j] = Nil
        BY <1>1, <3>2, <4>1
      <4>3. QED
        BY <4>1, <4>2 DEF Following
    <3>3. STEPS - i \in T
      <4> HIDE DEF T
      <4> QED
        BY <3>1, <3>2, Induction
    <3>4. QED
      BY <1>2, <1>4, <3>3
  <2>2. PICK i, j \in 0 .. STEPS : i # j /\ w[i] = w[j]
    <3>1. w \in [0 .. STEPS -> Bank]
      BY <1>1, <2>1
    <3>2. IsFiniteSet(0 .. STEPS) /\ Cardinality(0 .. STEPS) = STEPS + 1
      BY FS_Interval
    <3>3. Cardinality(Bank) \in Nat
      BY FS_CardinalityType
    <3>4. QED
      BY <3>1, <3>2, <3>3, FS_PigeonHole
  <2>3. ASSUME NEW a \in 0 .. STEPS, NEW b \in 0 .. STEPS, a < b, w[a] = w[b]
        PROVE  \E i1 \in Nat : i1 < STEPS /\ w[i1] = node
    <3> DEFINE T == {n \in Nat : b + n <= STEPS => w[a + n] = w[b + n]}
    <3>1. 0 \in T
      BY <2>3
    <3>2. ASSUME NEW n \in Nat, n \in T PROVE n + 1 \in T
      <4> SUFFICES ASSUME b + (n + 1) <= STEPS PROVE w[a + (n + 1)] = w[b + (n + 1)]
        OBVIOUS
      <4>1. /\ a + n \in Nat /\ a + n < STEPS /\ (a + n) + 1 = a + (n + 1)
            /\ b + n \in Nat /\ b + n < STEPS /\ (b + n) + 1 = b + (n + 1)
        BY <2>3
      <4>2. /\ w[(a + n) + 1] = Following(links, w[a + n])
            /\ w[(b + n) + 1] = Following(links, w[b + n])
            /\ w[a + n] = w[b + n]
        BY <1>1, <3>2, <4>1
      <4>3. QED
        BY <4>1, <4>2
    <3>3. STEPS - b \in T
      <4> HIDE DEF T
      <4> QED
        BY <3>1, <3>2, Induction
    <3>4. a + (STEPS - b) \in Nat /\ a + (STEPS - b) < STEPS /\ b + (STEPS - b) = STEPS
      BY <2>3
    <3>5. w[a + (STEPS - b)] = w[STEPS]
      BY <3>3, <3>4
    <3>6. QED
      BY <1>2, <1>4, <3>4, <3>5
  <2>4. i < j \/ j < i
    BY <2>2
  <2>5. PICK i1 \in Nat : i1 < STEPS /\ w[i1] = node
    BY <2>2, <2>3, <2>4
  <2>6. w[i1 + 1] = links[node]
    BY <1>1, <1>2, <2>5 DEF Following
  <2>7. QED
    BY <2>5, <2>6 DEF w
<1>5. QED
  BY <1>3, <1>4

\* The nodes hold the first and what each links to.
LEMMA NodesClosed ==
  ASSUME NEW first, NEW links, WalkOf(first, links)
  PROVE  /\ Nodes(first, links) \subseteq Bank
         /\ first \in Nodes(first, links) \cup {Nil}
         /\ \A n \in Nodes(first, links) : links[n] \in Nodes(first, links) \cup {Nil}
<1> DEFINE w == Walk(first, links)
<1>1. w \in [0 .. STEPS -> Bank \cup {Nil}] /\ w[0] = first
  BY WalkSteps
<1>2. Nodes(first, links) \subseteq Bank /\ first \in Nodes(first, links) \cup {Nil}
  BY <1>1 DEF Nodes
<1>3. ASSUME NEW n \in Nodes(first, links)
      PROVE  links[n] \in Nodes(first, links) \cup {Nil}
  <2>1. PICK i \in Nat : i < STEPS /\ w[i + 1] = links[n]
    BY WalkFollows
  <2>2. i + 1 \in 0 .. STEPS
    BY <2>1
  <2>3. QED
    BY <2>1, <2>2 DEF Nodes
<1>4. QED
  BY <1>2, <1>3

\* They are in each set that does.
LEMMA NodesLeast ==
  ASSUME NEW first, NEW links, WalkOf(first, links),
         NEW S, first \in S \cup {Nil}, \A n \in S \cap Bank : links[n] \in S \cup {Nil}
  PROVE  Nodes(first, links) \subseteq S
<1> DEFINE w == Walk(first, links)
           T == {i \in Nat : i <= STEPS => w[i] \in S \cup {Nil}}
<1>1. /\ w \in [0 .. STEPS -> Bank \cup {Nil}] /\ w[0] = first
      /\ \A i \in Nat : i < STEPS => w[i + 1] = Following(links, w[i])
  BY WalkSteps
<1> HIDE DEF w
<1>2. 0 \in T
  BY <1>1
<1>3. ASSUME NEW i \in Nat, i \in T PROVE i + 1 \in T
  <2> SUFFICES ASSUME i + 1 <= STEPS PROVE w[i + 1] \in S \cup {Nil}
    OBVIOUS
  <2>1. w[i + 1] = Following(links, w[i]) /\ w[i] \in S \cup {Nil} /\ w[i] \in Bank \cup {Nil}
    BY <1>1, <1>3
  <2>2. QED
    BY <2>1 DEF Following
<1>4. Nat \subseteq T
  <2> HIDE DEF T
  <2> QED
    BY <1>2, <1>3, Induction
<1>5. \A i \in 0 .. STEPS : w[i] \in S \cup {Nil}
  BY <1>4
<1>6. QED
  BY <1>5 DEF Nodes, w

\* The list ends where it is empty or a node of it has no link.
LEMMA EndsAt ==
  ASSUME NEW first, NEW links, WalkOf(first, links)
  PROVE  Ends(first, links) <=> first = Nil \/ \E n \in Nodes(first, links) : links[n] = Nil
<1> DEFINE w == Walk(first, links)
<1>1. /\ w \in [0 .. STEPS -> Bank \cup {Nil}] /\ w[0] = first
      /\ \A i \in Nat : i < STEPS => w[i + 1] = Following(links, w[i])
  BY WalkSteps
<1>2. ASSUME Ends(first, links), first # Nil
      PROVE  \E n \in Nodes(first, links) : links[n] = Nil
  <2> DEFINE T == {i \in 0 .. STEPS : w[i] = Nil}
  <2>1. T \subseteq Nat /\ T # {}
    BY <1>2 DEF Ends
  <2>2. PICK i \in T : \A j \in T : i <= j
    <3> HIDE DEF T
    <3> QED
      BY <2>1, LeastNumber
  <2> HIDE DEF w
  <2>3. i \in 0 .. STEPS /\ i # 0 /\ w[i] = Nil
    BY <1>1, <1>2, <2>2
  <2>4. i - 1 \in 0 .. STEPS /\ i - 1 \notin T /\ (i - 1) + 1 = i /\ i - 1 < STEPS
    BY <2>2, <2>3
  <2>5. w[i - 1] # Nil /\ w[i] = Following(links, w[i - 1])
    BY <1>1, <2>4
  <2>6. w[i - 1] \in Nodes(first, links)
    BY <2>4, <2>5 DEF Nodes, w
  <2>7. QED
    BY <2>3, <2>5, <2>6 DEF Following
<1>3. ASSUME NEW n \in Nodes(first, links), links[n] = Nil
      PROVE  Ends(first, links)
  <2>1. PICK i \in Nat : i < STEPS /\ w[i + 1] = links[n]
    BY WalkFollows
  <2>2. i + 1 \in 0 .. STEPS
    BY <2>1
  <2>3. QED
    BY <1>3, <2>1, <2>2 DEF Ends
<1>4. CASE first = Nil
  BY <1>1, <1>4 DEF Ends
<1>5. QED
  BY <1>2, <1>3, <1>4

-----------------------------------------------------------------------------
(* BRB's banks: the list is followed through an append and an unload.      *)

\* A node past the end is linked to the last: the list is one longer.
LEMMA Appended ==
  ASSUME NEW first \in Bank, NEW old \in [Bank -> Bank \cup {Nil}], NEW b \in Bank,
         b \notin Nodes(first, old),
         NEW tail \in Nodes(first, old), old[tail] = Nil
  PROVE  LET new == [[old EXCEPT ![b] = Nil] EXCEPT ![tail] = b]
         IN  Ends(first, new) /\ Nodes(first, old) \cup {b} \subseteq Nodes(first, new)
<1> DEFINE new == [[old EXCEPT ![b] = Nil] EXCEPT ![tail] = b]
           before == Nodes(first, old)
           after == Nodes(first, new)
<1>1. WalkOf(first, old) /\ WalkOf(first, new) /\ tail # b
  BY DEF WalkOf
<1>2. /\ before \subseteq Bank /\ first \in before \cup {Nil} /\ first # Nil
      /\ \A n \in before : old[n] \in before \cup {Nil}
  BY <1>1, NodesClosed
<1>3. /\ after \subseteq Bank /\ first \in after \cup {Nil}
      /\ \A n \in after : new[n] \in after \cup {Nil}
  <2> HIDE DEF new
  <2>1. WalkOf(first, new)
    BY <1>1
  <2>2. QED
    BY <2>1, NodesClosed
<1>4. new[tail] = b /\ new[b] = Nil /\ \A n \in before : n # tail => new[n] = old[n]
  <2>1. tail \in Bank /\ before \subseteq Bank /\ b \notin before
    BY <1>2
  <2>2. \A n \in Bank : new[n] = IF n = tail THEN b ELSE IF n = b THEN Nil ELSE old[n]
    OBVIOUS
  <2> HIDE DEF new, before
  <2>3. QED
    BY <1>1, <2>1, <2>2
<1> HIDE DEF new, before, after
<1>5. before \subseteq before \cap after
  <2>1. \A n \in (before \cap after) \cap Bank : old[n] \in (before \cap after) \cup {Nil}
    BY <1>2, <1>3, <1>4
  <2>2. first \in (before \cap after) \cup {Nil}
    BY <1>2, <1>3
  <2>3. QED
    BY <1>1, <2>1, <2>2, NodesLeast DEF before
<1>6. tail \in after
  BY <1>5 DEF before
<1>7. b \in after
  BY <1>3, <1>4, <1>6
<1>8. Ends(first, new)
  BY <1>1, <1>4, <1>7, EndsAt DEF after
<1>9. QED
  BY <1>5, <1>7, <1>8 DEF new, before, after

\* A node is taken out: what led to it leads to what it led to.
LEMMA Unlinked ==
  ASSUME NEW first \in Bank \cup {Nil}, NEW old \in [Bank -> Bank \cup {Nil}], NEW b \in Bank,
         Ends(first, old)
  PROVE  LET start == IF first = b THEN old[b] ELSE first
             new == [x \in Bank |-> IF old[x] = b THEN old[b] ELSE old[x]]
         IN  Ends(start, new) /\ Nodes(first, old) \ {b} \subseteq Nodes(start, new)
<1> DEFINE start == IF first = b THEN old[b] ELSE first
           new == [x \in Bank |-> IF old[x] = b THEN old[b] ELSE old[x]]
           before == Nodes(first, old)
           after == Nodes(start, new)
           leads == first = b \/ \E x \in after : old[x] = b
           reached == after \cup {x \in {b} : leads}
<1>1. WalkOf(first, old) /\ WalkOf(start, new)
  BY DEF WalkOf
<1>2. /\ before \subseteq Bank /\ first \in before \cup {Nil}
      /\ \A n \in before : old[n] \in before \cup {Nil}
  BY <1>1, NodesClosed
<1>3. /\ after \subseteq Bank /\ start \in after \cup {Nil}
      /\ \A n \in after : new[n] \in after \cup {Nil}
  <2> HIDE DEF new, start
  <2>1. WalkOf(start, new)
    BY <1>1
  <2>2. QED
    BY <2>1, NodesClosed
<1>4. \A x \in Bank : new[x] = IF old[x] = b THEN old[b] ELSE old[x]
  OBVIOUS
<1>5. start = IF first = b THEN old[b] ELSE first
  OBVIOUS
<1> HIDE DEF start, new, before, after
<1>6. before \subseteq reached
  <2>1. first \in reached \cup {Nil}
    BY <1>3, <1>5
  <2>2. leads => old[b] \in after \cup {Nil}
    BY <1>3, <1>4, <1>5
  <2>3. \A n \in reached \cap Bank : old[n] \in reached \cup {Nil}
    BY <1>3, <1>4, <2>2
  <2> HIDE DEF reached
  <2>4. QED
    BY <1>1, <2>1, <2>3, NodesLeast DEF before
<1>7. Ends(start, new)
  <2>1. CASE first = Nil
    BY <1>1, <1>5, <2>1, EndsAt
  <2>2. ASSUME NEW last \in before, old[last] = Nil, last # b
        PROVE  Ends(start, new)
    <3>1. last \in after /\ new[last] = Nil
      BY <1>2, <1>4, <1>6, <2>2
    <3>2. QED
      BY <1>1, <3>1, EndsAt DEF after
  <2>3. ASSUME b \in before, old[b] = Nil, first # b
        PROVE  Ends(start, new)
    <3>1. PICK x \in before \ {b} : old[x] = b
      <4> SUFFICES ASSUME \A x \in before \ {b} : old[x] # b PROVE FALSE
        OBVIOUS
      <4> DEFINE others == before \ {b}
      <4>1. first \in others \cup {Nil}
        BY <1>2, <2>3
      <4>2. \A n \in others \cap Bank : old[n] \in others \cup {Nil}
        BY <1>2
      <4>3. b \notin others
        OBVIOUS
      <4> HIDE DEF others
      <4>4. before \subseteq others
        BY <1>1, <4>1, <4>2, NodesLeast DEF before
      <4>5. QED
        BY <2>3, <4>3, <4>4
    <3>2. x \in after /\ new[x] = Nil
      BY <1>2, <1>4, <1>6, <2>3, <3>1
    <3>3. QED
      BY <1>1, <3>2, EndsAt DEF after
  <2>4. CASE first = b /\ old[b] = Nil
    BY <1>1, <1>5, <2>4, EndsAt
  <2>5. first = Nil \/ \E n \in before : old[n] = Nil
    BY <1>1, EndsAt DEF before
  <2>6. QED
    BY <2>1, <2>2, <2>3, <2>4, <2>5
<1>8. QED
  BY <1>6, <1>7 DEF start, new, before, after

LEMMA ChainInit == Init => BanksChained
<1> SUFFICES ASSUME Init PROVE BanksChained
  OBVIOUS
<1>1. WalkOf(head, next) /\ head = Nil
  BY DEF Init, WalkOf
<1>2. QED
  BY <1>1, EndsAt DEF Init, BanksChained

LEMMA ChainStep == TypeOK /\ BanksChained /\ [Next]_vars => BanksChained'
<1> SUFFICES ASSUME TypeOK, BanksChained, [Next]_vars PROVE BanksChained'
  OBVIOUS
<1> USE DEF brbVars, sessionVars, tickVars, waitVars, uiVars, Begins
<1>1. /\ head \in Bank \cup {Nil} /\ next \in [Bank -> Bank \cup {Nil}] /\ up \subseteq Bank
      /\ main # "spins" /\ Ends(head, next) /\ up \subseteq Nodes(head, next)
      /\ WalkOf(head, next)
  BY DEF TypeOK, BanksChained, WalkOf
<1>2. CASE UNCHANGED <<head, next>> /\ up' \subseteq up /\ main' # "spins"
  BY <1>1, <1>2 DEF BanksChained
<1>3. CASE Append
  <2>1. bank \in Bank /\ up' = up \cup {bank}
    BY <1>3 DEF Append, TypeOK
  <2>2. CASE Listed(bank)
    <3>1. UNCHANGED <<head, next>> /\ main' = "idle" /\ bank \in Nodes(head, next)
      BY <1>3, <2>2 DEF Append, Listed
    <3>2. QED
      BY <1>1, <2>1, <3>1 DEF BanksChained
  <2>3. CASE ~Listed(bank) /\ head = Nil
    <3>1. head' = bank /\ next' = [next EXCEPT ![bank] = Nil] /\ main' = "idle"
      BY <1>3, <2>3 DEF Append
    <3>2. Nodes(head, next) = {}
      <4> DEFINE none == {n \in Bank : FALSE}
      <4>1. head \in none \cup {Nil} /\ \A n \in none \cap Bank : next[n] \in none \cup {Nil}
        BY <2>3
      <4>2. none = {}
        OBVIOUS
      <4> HIDE DEF none
      <4>3. Nodes(head, next) \subseteq none
        BY <1>1, <4>1, NodesLeast
      <4>4. QED
        BY <4>2, <4>3
    <3>3. WalkOf(head', next') /\ next'[bank] = Nil /\ bank # Nil
      BY <1>1, <2>1, <3>1 DEF WalkOf
    <3>4. bank \in Nodes(head', next')
      BY <3>1, <3>3, NodesClosed
    <3>5. Ends(head', next')
      BY <3>3, <3>4, EndsAt
    <3>6. QED
      BY <1>1, <2>1, <3>1, <3>2, <3>4, <3>5 DEF BanksChained
  <2>4. CASE ~Listed(bank) /\ head # Nil
    <3> DEFINE links == [next EXCEPT ![bank] = Nil]
    <3>1. bank \notin Nodes(head, next) /\ Nodes(head, next) \subseteq Bank
      BY <1>1, <2>4, NodesClosed DEF Listed
    <3>2. Nodes(head, links) = Nodes(head, next) /\ WalkOf(head, links)
      <4>0. WalkOf(head, links) /\ \A n \in Bank : n # bank => links[n] = next[n]
        BY <1>1, <2>1 DEF WalkOf
      <4> HIDE DEF links
      <4>1. Nodes(head, links) \subseteq Nodes(head, next)
        <5>1. /\ head \in Nodes(head, next) \cup {Nil}
              /\ \A n \in Nodes(head, next) : next[n] \in Nodes(head, next) \cup {Nil}
          BY <1>1, NodesClosed
        <5>2. \A n \in Nodes(head, next) \cap Bank : links[n] \in Nodes(head, next) \cup {Nil}
          BY <3>1, <4>0, <5>1
        <5>3. QED
          BY <4>0, <5>1, <5>2, NodesLeast
      <4>2. Nodes(head, next) \subseteq Nodes(head, links)
        <5>1. /\ head \in Nodes(head, links) \cup {Nil}
              /\ \A n \in Nodes(head, links) : links[n] \in Nodes(head, links) \cup {Nil}
          BY <4>0, NodesClosed
        <5>2. \A n \in Nodes(head, links) \cap Bank : next[n] \in Nodes(head, links) \cup {Nil}
          BY <3>1, <4>0, <4>1, <5>1
        <5>3. QED
          BY <1>1, <5>1, <5>2, NodesLeast
      <4>3. QED
        BY <4>0, <4>1, <4>2
    <3>3. Ends(head, links)
      <4>1. PICK n \in Nodes(head, next) : next[n] = Nil
        BY <1>1, <2>4, EndsAt
      <4>2. n \in Nodes(head, links) /\ links[n] = Nil
        BY <1>1, <3>1, <3>2, <4>1
      <4> HIDE DEF links
      <4>3. QED
        BY <3>2, <4>2, EndsAt
    <3>4. /\ main' = "idle" /\ head' = head
          /\ \E tail \in Nodes(head, links) : links[tail] = Nil /\ next' = [links EXCEPT ![tail] = bank]
      BY <1>3, <2>4, <3>3 DEF Append
    <3>5. PICK tail \in Nodes(head, next) : links[tail] = Nil /\ next' = [links EXCEPT ![tail] = bank]
      BY <3>2, <3>4
    <3>6. next[tail] = Nil
      BY <1>1, <3>1, <3>5
    <3>7. Ends(head, next') /\ Nodes(head, next) \cup {bank} \subseteq Nodes(head, next')
      BY <1>1, <2>1, <2>4, <3>1, <3>5, <3>6, Appended
    <3>8. QED
      BY <1>1, <2>1, <3>4, <3>7 DEF BanksChained
  <2>5. QED
    BY <2>2, <2>3, <2>4
<1>4. CASE Unlink
  <2>1. bank \in Bank
    BY <1>4 DEF Unlink, TypeOK
  <2>2. Ends(head', next') /\ Nodes(head, next) \ {bank} \subseteq Nodes(head', next')
    BY <1>1, <1>4, <2>1, Unlinked DEF Unlink
  <2>3. QED
    BY <1>1, <1>4, <2>2 DEF Unlink, BanksChained
<1>5. QED
  BY <1>1, <1>2, <1>3, <1>4
     DEF vars, Next, MainGoesOn, TickStep, RegisterBank, UnloadBank, DriverStarts, Callback,
         MixEnds, StartSession, Poll, AckReads, AckWrites, LoadDone, BeginLoad, ClearAgain, LoadEnd, BeginFrame,
         PoolWaitEnd, CullEnds, Enter, Build, Update

\* For any number of banks, in any order of loads and unloads, with and without
\* the unloads skipped: the list never gets a cycle, no bank that was registered
\* drops out of it, and no append walks for ever.
THEOREM BanksStayChained == Spec => []BanksChained
BY TypeInit, TypeStep, ChainInit, ChainStep, PTL DEF Spec

-----------------------------------------------------------------------------
(* EdgeWait *)

\* An answer that a thread or the SPU has made and not yet announced.
Writing(t, r) == request[t] = r /\ pc[t] \in {"copy", "copying", "copied"}
SpuWriting(r) == spu = r /\ spuPc \in {"write", "writing", "clear"}

\* What is waited for, busy or with the SPU was submitted, and whoever is
\* about to return saw busy clear.
Submitted ==
  /\ \A t \in Thread :
       /\ pc[t] # "idle" => buf[request[t]] # "old"
       /\ pc[t] = "done" => ~busy[request[t]]
  /\ \A r \in Request : busy[r] \/ spu = r => buf[r] # "old"

\* Answers are never the bytes a buffer held before.
Made ==
  /\ \A t \in Thread, r \in Request : Writing(t, r) => tmp[t] \in {"text", "garbled"}
  /\ \A r \in Request : SpuWriting(r) => spuTmp \in {"text", "garbled"}

\* A request with a place of its own for the text keeps its source, and so
\* every answer is the text.
ApartDone(r) ==
  /\ buf[r] = "packed"
  /\ ~busy[r] => out[r] = "text"
  /\ \A t \in Thread : request[t] = r =>
       /\ pc[t] = "inflate" => tmp[t] = "packed"
       /\ pc[t] \in {"copy", "copying"} => tmp[t] = "text"
       /\ pc[t] = "copied" => out[r] = "text"
  /\ spu = r =>
       /\ spuPc \in {"write", "writing"} => spuTmp = "text"
       /\ spuPc = "clear" => out[r] = "text"

\* Until an answer was made the source is whole and busy is set.
Unanswered(r) ==
  /\ buf[r] = "packed" /\ busy[r] /\ ~SpuWriting(r)
  /\ \A t \in Thread :
       /\ ~Writing(t, r)
       /\ request[t] = r /\ pc[t] = "inflate" => tmp[t] = "packed"

\* The first answer is the text. While it is being written busy is set, and
\* once it is there the source is the text.
AnsweredOnce(r) ==
  /\ \A t, u \in Thread : Writing(t, r) /\ Writing(u, r) => t = u
  /\ \A t \in Thread : Writing(t, r) =>
       /\ busy[r] /\ tmp[t] = "text" /\ ~SpuWriting(r)
       /\ pc[t] = "copied" => buf[r] = "text"
  /\ SpuWriting(r) => /\ busy[r] /\ spuTmp = "text"
                      /\ spuPc = "clear" => buf[r] = "text"
  /\ SpuWriting(r) \/ buf[r] = "text" \/ \E t \in Thread : Writing(t, r)

AnswersGood(r) ==
  r \notin stale /\ buf[r] # "old" =>
    /\ ~inPlace[r] => ApartDone(r)
    /\ inPlace[r] /\ writers[r] = 0 => Unanswered(r)
    /\ inPlace[r] /\ writers[r] = 1 => AnsweredOnce(r)

Answers == \A r \in Request : AnswersGood(r)

IEdge == EdgeTypeOK /\ Submitted /\ Made /\ Answers


LEMMA EdgeTypeInit == EdgeInit => EdgeTypeOK
<1> SUFFICES ASSUME EdgeInit PROVE EdgeTypeOK
  OBVIOUS
<1>1. kick \in BOOLEAN /\ hle \in BOOLEAN /\ shared \in BOOLEAN /\ awake \in BOOLEAN
  BY Zenon DEF EdgeInit
<1>2. 0 \in 0 .. MaxSubmit /\ 0 \in 0 .. 2
  OBVIOUS
<1>3. QED
  BY <1>1, <1>2 DEF EdgeInit, EdgeTypeOK, Bytes, Kind

LEMMA EdgeTypeStep == EdgeTypeOK /\ [EdgeNext]_edgeVars => EdgeTypeOK'
<1> SUFFICES ASSUME EdgeTypeOK, [EdgeNext]_edgeVars PROVE EdgeTypeOK'
  OBVIOUS
<1> USE DEF settings, fields, memVars, threadVars, spuVars, ghosts, Goes
<1>1. CASE UNCHANGED edgeVars
  BY <1>1 DEF edgeVars, EdgeTypeOK
<1>2. ASSUME NEW r \in Request, NEW place \in BOOLEAN, NEW k \in Kind, Submit(r, place, k)
      PROVE  EdgeTypeOK'
  BY <1>2 DEF Submit, EdgeTypeOK, Bytes
<1>3. ASSUME NEW t \in Thread, NEW r \in Request, Call(t, r)
      PROVE  EdgeTypeOK'
  BY <1>3 DEF Call, EdgeTypeOK
<1>4. ASSUME NEW t \in Thread, Kick(t) \/ PollBusy(t) \/ ClearBusy(t)
      PROVE  EdgeTypeOK'
  BY <1>4 DEF Kick, PollBusy, ClearBusy, EdgeTypeOK
<1>5. ASSUME NEW t \in Thread, BeginInflate(t)
      PROVE  EdgeTypeOK'
  BY <1>5 DEF BeginInflate, EdgeTypeOK
<1>6. ASSUME NEW t \in Thread, EndInflate(t)
      PROVE  EdgeTypeOK'
  BY <1>6 DEF EndInflate, Inflated, Counted, EdgeTypeOK, Bytes
<1>7. ASSUME NEW t \in Thread, BeginCopy(t) \/ EndCopy(t)
      PROVE  EdgeTypeOK'
  BY <1>7 DEF BeginCopy, EndCopy, Writes, WritesIn, HalfOf, Holds, EdgeTypeOK, Bytes
<1>8. ASSUME NEW t \in Thread, Lifted(t) \/ FlagWaitReturns(t) \/ Return(t)
      PROVE  EdgeTypeOK'
  BY <1>8 DEF Lifted, FlagWaitReturns, Return, EdgeTypeOK
<1>9. ASSUME NEW r \in Request, SpuTake(r)
      PROVE  EdgeTypeOK'
  BY <1>9 DEF SpuTake, EdgeTypeOK
<1>10. CASE SpuParks \/ SpuClears \/ SpuSets
  BY <1>10 DEF SpuParks, SpuClears, SpuSets, SpuStep, EdgeTypeOK
<1>11. CASE SpuRead
  BY <1>11 DEF SpuRead, SpuStep, Counted, EdgeTypeOK, Bytes
<1>12. CASE SpuBeginWrite \/ SpuEndWrite
  BY <1>12 DEF SpuBeginWrite, SpuEndWrite, SpuStep, Writes, WritesIn, HalfOf, Holds, EdgeTypeOK, Bytes
<1>13. QED
  BY <1>1, <1>2, <1>3, <1>4, <1>5, <1>6, <1>7, <1>8, <1>9, <1>10, <1>11, <1>12
     DEF EdgeNext, Waits, SpuAtWork

\* Threads, requests and the SPU keep their types, and a thread has a request
\* exactly while it waits.
THEOREM EdgeTypeCorrect == EdgeSpec => []EdgeTypeOK
BY EdgeTypeInit, EdgeTypeStep, PTL DEF EdgeSpec

-----------------------------------------------------------------------------
LEMMA SubmittedStep == EdgeTypeOK /\ Submitted /\ Made /\ [EdgeNext]_edgeVars => Submitted' /\ Made'
<1> SUFFICES ASSUME EdgeTypeOK, Submitted, Made, [EdgeNext]_edgeVars PROVE Submitted' /\ Made'
  OBVIOUS
<1> USE DEF settings, fields, memVars, threadVars, spuVars, ghosts, Goes, Submitted, Made, Writing, SpuWriting
<1>1. CASE UNCHANGED edgeVars
  BY <1>1 DEF edgeVars
<1>2. ASSUME NEW r \in Request, NEW place \in BOOLEAN, NEW k \in Kind, Submit(r, place, k)
      PROVE  Submitted' /\ Made'
  BY <1>2 DEF Submit, EdgeTypeOK, Waiters
<1>3. ASSUME NEW t \in Thread, NEW r \in Request, Call(t, r)
      PROVE  Submitted' /\ Made'
  BY <1>3 DEF Call, EdgeTypeOK
<1>4. ASSUME NEW t \in Thread, Kick(t) \/ PollBusy(t) \/ ClearBusy(t)
      PROVE  Submitted' /\ Made'
  BY <1>4 DEF Kick, PollBusy, ClearBusy, EdgeTypeOK
<1>5. ASSUME NEW t \in Thread, BeginInflate(t)
      PROVE  Submitted' /\ Made'
  BY <1>5 DEF BeginInflate, EdgeTypeOK
<1>6. ASSUME NEW t \in Thread, EndInflate(t)
      PROVE  Submitted' /\ Made'
  BY <1>6 DEF EndInflate, Inflated, EdgeTypeOK
<1>7. ASSUME NEW t \in Thread, BeginCopy(t) \/ EndCopy(t)
      PROVE  Submitted' /\ Made'
  BY <1>7 DEF BeginCopy, EndCopy, Writes, WritesIn, HalfOf, Holds, EdgeTypeOK
<1>8. ASSUME NEW t \in Thread, Lifted(t) \/ FlagWaitReturns(t) \/ Return(t)
      PROVE  Submitted' /\ Made'
  BY <1>8 DEF Lifted, FlagWaitReturns, Return, EdgeTypeOK
<1>9. ASSUME NEW r \in Request, SpuTake(r)
      PROVE  Submitted' /\ Made'
  BY <1>9 DEF SpuTake, EdgeTypeOK
<1>10. CASE SpuParks \/ SpuClears \/ SpuSets
  BY <1>10 DEF SpuParks, SpuClears, SpuSets, SpuStep, EdgeTypeOK
<1>11. CASE SpuRead
  BY <1>11 DEF SpuRead, SpuStep, EdgeTypeOK
<1>12. CASE SpuBeginWrite \/ SpuEndWrite
  BY <1>12 DEF SpuBeginWrite, SpuEndWrite, SpuStep, Writes, WritesIn, HalfOf, Holds, EdgeTypeOK
<1>13. QED
  BY <1>1, <1>2, <1>3, <1>4, <1>5, <1>6, <1>7, <1>8, <1>9, <1>10, <1>11, <1>12
     DEF EdgeNext, Waits, SpuAtWork

LEMMA AnswersStep == IEdge /\ [EdgeNext]_edgeVars => Answers'
<1> SUFFICES ASSUME EdgeTypeOK, Submitted, Made, Answers, [EdgeNext]_edgeVars,
                    NEW r \in Request
             PROVE  AnswersGood(r)'
  BY DEF IEdge, Answers
<1> USE DEF settings, fields, memVars, threadVars, spuVars, ghosts, Goes
<1>0. AnswersGood(r)
  BY DEF Answers
<1> USE <1>0 DEF AnswersGood, ApartDone, Unanswered, AnsweredOnce, Writing, SpuWriting, EdgeTypeOK
<1>1. CASE UNCHANGED edgeVars
  BY <1>1 DEF edgeVars
<1>2. ASSUME NEW q \in Request, NEW place \in BOOLEAN, NEW k \in Kind, Submit(q, place, k)
      PROVE  AnswersGood(r)'
  BY <1>2 DEF Submit, Waiters
<1>3. ASSUME NEW t \in Thread, NEW q \in Request, Call(t, q)
      PROVE  AnswersGood(r)'
  BY <1>3 DEF Call
<1>4. ASSUME NEW t \in Thread, Kick(t) \/ PollBusy(t)
      PROVE  AnswersGood(r)'
  BY <1>4 DEF Kick, PollBusy
<1>4a. ASSUME NEW t \in Thread, ClearBusy(t)
      PROVE  AnswersGood(r)'
  BY <1>4a DEF ClearBusy
<1>5. ASSUME NEW t \in Thread, BeginInflate(t)
      PROVE  AnswersGood(r)'
  BY <1>5 DEF BeginInflate
<1>6. ASSUME NEW t \in Thread, EndInflate(t)
      PROVE  AnswersGood(r)'
  BY <1>6 DEF EndInflate, Inflated, Counted
<1>7. ASSUME NEW t \in Thread, BeginCopy(t)
      PROVE  AnswersGood(r)'
  BY <1>7 DEF Submitted, BeginCopy, Writes, WritesIn, HalfOf, Holds
<1>7a. ASSUME NEW t \in Thread, EndCopy(t)
      PROVE  AnswersGood(r)'
  BY <1>7a DEF Submitted, EndCopy, Writes, WritesIn
<1>8. ASSUME NEW t \in Thread, Lifted(t) \/ FlagWaitReturns(t) \/ Return(t)
      PROVE  AnswersGood(r)'
  BY <1>8 DEF Lifted, FlagWaitReturns, Return
<1>9. ASSUME NEW q \in Request, SpuTake(q)
      PROVE  AnswersGood(r)'
  BY <1>9 DEF SpuTake
<1>10. CASE SpuParks \/ SpuClears \/ SpuSets
  BY <1>10 DEF SpuParks, SpuClears, SpuSets, SpuStep
<1>11. CASE SpuRead
  BY <1>11 DEF SpuRead, SpuStep, Counted
<1>12. CASE SpuBeginWrite
  BY <1>12 DEF Submitted, SpuBeginWrite, SpuStep, Writes, WritesIn, HalfOf, Holds
<1>12a. CASE SpuEndWrite
  BY <1>12a DEF Submitted, SpuEndWrite, SpuStep, Writes, WritesIn
<1>13. QED
  BY <1>1, <1>2, <1>3, <1>4, <1>4a, <1>5, <1>6, <1>7, <1>7a, <1>8, <1>9, <1>10, <1>11, <1>12, <1>12a
     DEF EdgeNext, Waits, SpuAtWork

LEMMA IEdgeInit == EdgeInit => IEdge
BY EdgeTypeInit DEF EdgeInit, IEdge, Submitted, Made, Answers, AnswersGood, Writing, SpuWriting

\* Whoever makes it, an answer is where the title parses it, for any number of
\* waiting threads and requests: unless two answers met on one source, or the
\* SPU answers a submission that is over.
THEOREM TextWhereAsked == EdgeSpec => []TextAtReturn
<1>1. IEdge /\ [EdgeNext]_edgeVars => IEdge'
  BY EdgeTypeStep, SubmittedStep, AnswersStep DEF IEdge
<1>2. IEdge => TextAtReturn
  <2> SUFFICES ASSUME IEdge, NEW t \in Thread, pc[t] = "done", Clean(request[t])
               PROVE  Holds(request[t]) = "text"
    BY DEF TextAtReturn
  <2>1. request[t] \in Request /\ ~busy[request[t]] /\ buf[request[t]] # "old"
    BY DEF IEdge, EdgeTypeOK, Submitted
  <2>2. AnswersGood(request[t]) /\ writers[request[t]] \in 0 .. 2
    BY <2>1 DEF IEdge, Answers, EdgeTypeOK
  <2>3. QED
    BY <2>1, <2>2 DEF Clean, Holds, AnswersGood, ApartDone, Unanswered, AnsweredOnce, IEdge, EdgeTypeOK, Writing, SpuWriting
<1>3. QED
  BY <1>1, <1>2, IEdgeInit, PTL DEF EdgeSpec

=============================================================================
