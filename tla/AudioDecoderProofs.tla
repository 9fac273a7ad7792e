------------------------- MODULE AudioDecoderProofs -------------------------
(***************************************************************************)
(* For any number of streams and slots, and any order of calls: streams    *)
(* share a slot only after two searches met or a closed handle was closed  *)
(* again, and only a restart of a closed handle loses a slot.              *)
(***************************************************************************)
EXTENDS AudioDecoder, TLAPS

USE AudioAssumption

\* A handle is its slot's number past the base, and 0 is none.
LEMMA Handles ==
  /\ \A k \in Slot : HANDLE_BASE + k \in Handle
  /\ \A h \in Handle : SlotOf(h) \in Slot /\ HANDLE_BASE + SlotOf(h) = h /\ h \in Nat
  /\ NoHandle \notin Handle
  /\ NoSlot \notin Slot
  /\ SlotOf(NoHandle) \notin Slot
  /\ \A k \in Slot : SlotOf(HANDLE_BASE + k) = k
<1>1. \A h \in Handle : \E k \in Slot : h = HANDLE_BASE + k
  BY DEF Handle
<1>2. \A h \in Handle : SlotOf(h) \in Slot /\ HANDLE_BASE + SlotOf(h) = h /\ h \in Nat
  BY <1>1 DEF SlotOf, Slot
<1>3. \A k \in Slot : HANDLE_BASE + k \in Handle
  BY DEF Handle
<1>4. NoHandle \notin Handle
  BY <1>1 DEF Slot, NoHandle
<1>5. NoSlot \notin Slot
  BY DEF NoSlot, Slot
<1>6. \A k \in Slot : SlotOf(HANDLE_BASE + k) = k
  BY <1>3 DEF SlotOf, Slot
<1>7. SlotOf(NoHandle) \notin Slot
  BY <1>4, <1>5 DEF SlotOf
<1>8. QED
  BY <1>2, <1>3, <1>4, <1>5, <1>6, <1>7

\* A stream with a decoder open has its handle, and is not inside OpenEx; while
\* it waits for a callback its call has a slot.
Places ==
  \A t \in Stream :
    /\ open[t] => handle[t] \in Handle /\ found[t] = NoSlot
    /\ stage[t] # "none" => call[t] \in Slot

TypeInv == TypeOK /\ Places

LEMMA TypeStep == TypeInv /\ [Next]_vars => TypeInv'
<1> SUFFICES ASSUME TypeInv, [Next]_vars PROVE TypeInv'
  OBVIOUS
<1> USE Handles DEF TypeInv, TypeOK, Places, slotVars, streamVars, history, Calls
<1>1. ASSUME NEW t \in Stream, FindSlot(t) PROVE TypeInv'
  BY <1>1 DEF FindSlot, Free
<1>2. ASSUME NEW t \in Stream, NEW who \in {t, NoStream}, NEW mem \in BOOLEAN, ClaimSlot(t, who, mem)
      PROVE  TypeInv'
  BY <1>2 DEF ClaimSlot
<1>3. ASSUME NEW t \in Stream, StartSeq(t) PROVE TypeInv'
  BY <1>3 DEF StartSeq
<1>4. ASSUME NEW t \in Stream, EndSeq(t) PROVE TypeInv'
  BY <1>4 DEF EndSeq, Announce
<1>5. ASSUME NEW t \in Stream, DecodeAu(t) PROVE TypeInv'
  BY <1>5 DEF DecodeAu, Announce
<1>6. ASSUME NEW t \in Stream, CallbackReturns(t) PROVE TypeInv'
  BY <1>6 DEF CallbackReturns, Announce
<1>7. ASSUME NEW t \in Stream, Close(t) PROVE TypeInv'
  BY <1>7 DEF Close
<1>8. CASE UNCHANGED vars
  BY <1>8 DEF vars
<1>9. QED
  BY <1>1, <1>2, <1>3, <1>4, <1>5, <1>6, <1>7, <1>8 DEF Next

LEMMA TypeInit == Init => TypeInv
<1> SUFFICES ASSUME Init PROVE TypeInv
  OBVIOUS
<1>1. TypeOK
  BY DEF Init, TypeOK
<1>2. Places
  BY Handles DEF Init, Places
<1>3. QED
  BY <1>1, <1>2 DEF TypeInv

\* The slots and the streams keep their types, whoever opens when.
THEOREM TypeCorrect == Spec => []TypeOK
<1>1. TypeInv => TypeOK
  BY DEF TypeInv
<1>2. QED
  BY <1>1, TypeInit, TypeStep, PTL DEF Spec

-----------------------------------------------------------------------------
\* A slot that is not upset was found by at most one stream, which will be its
\* only holder.
FoundByOne ==
  \A k \in Slot \ upset : \A t, u \in Stream :
    found[t] = k => ~Holds(u, k) /\ (found[u] = k => t = u)

\* What of SlotsHeld speaks of holders, and what of slots.
HoldersServed ==
  \A t \in Stream : \A k \in Slot \ upset :
    Holds(t, k) => in_use[k] /\ cb[k] \in {t, NoStream}
UsedIsHeld == \A k \in Slot : in_use[k] => Held(k) \/ k \in revived

HeldInv == FoundByOne /\ StreamsApart /\ HoldersServed /\ UsedIsHeld

LEMMA HeldInvMeans == HeldInv => StreamsApart /\ SlotsHeld
BY DEF HeldInv, HoldersServed, UsedIsHeld, SlotsHeld

LEMMA HeldInit == Init => HeldInv
BY Handles DEF Init, HeldInv, FoundByOne, StreamsApart, HoldersServed, UsedIsHeld, Holds, Held

\* A search that meets no other and no holder starts the slot afresh.
LEMMA FindKeeps ==
  ASSUME TypeInv, HeldInv, NEW t \in Stream, FindSlot(t)
  PROVE  HeldInv'
<1> USE Handles DEF TypeInv, TypeOK, Places, HeldInv
<1>1. UNCHANGED <<slotVars, open, handle, revived>>
  BY DEF FindSlot
<1>2. \A u \in Stream, k \in Slot : Holds(u, k)' <=> Holds(u, k)
  BY <1>1 DEF Holds
<1>3. CASE Free = {}
  <2>1. UNCHANGED <<found, upset>>
    BY <1>3 DEF FindSlot
  <2>2. QED
    BY <1>1, <1>2, <2>1 DEF FoundByOne, StreamsApart, HoldersServed, UsedIsHeld, slotVars, Held
<1>4. CASE Free # {}
  <2>1. PICK k \in Free :
          /\ found' = [found EXCEPT ![t] = k]
          /\ upset' = IF \E u \in Stream : found[u] = k THEN upset \cup {k}
                      ELSE IF Held(k) THEN upset ELSE upset \ {k}
    BY <1>4 DEF FindSlot
  <2>2. k \in Slot /\ ~in_use[k]
    BY DEF Free
  <2>3. \A j \in Slot : j # k => (j \in upset' <=> j \in upset)
    BY <2>1
  <2>4. k \notin upset' =>
          \A u \in Stream : ~Holds(u, k) /\ found[u] # k
    <3>1. SUFFICES ASSUME k \notin upset', NEW u \in Stream PROVE ~Holds(u, k) /\ found[u] # k
      OBVIOUS
    <3>2. \A v \in Stream : found[v] # k
      BY <2>1, <3>1
    <3>3. Held(k) => k \in upset
      BY <2>2 DEF HoldersServed, Held
    <3>4. ~Held(k)
      BY <2>1, <3>1, <3>2, <3>3
    <3>5. QED
      BY <3>2, <3>4 DEF Held
  <2>5. \A u \in Stream : found'[u] = IF u = t THEN k ELSE found[u]
    BY <2>1
  <2>6. \A j \in Slot : j \notin upset' => j \notin upset \/ j = k
    BY <2>3
  <2>7. FoundByOne'
    BY <1>2, <2>2, <2>4, <2>5, <2>6 DEF FoundByOne
  <2>8. StreamsApart' /\ HoldersServed'
    BY <1>1, <1>2, <2>2, <2>4, <2>6 DEF StreamsApart, HoldersServed, slotVars
  <2>9. UsedIsHeld'
    BY <1>1, <1>2 DEF UsedIsHeld, Held, slotVars
  <2>10. QED
    BY <2>7, <2>8, <2>9
<1>5. QED
  BY <1>3, <1>4

\* The stream that claims a slot becomes its holder, the only one unless the slot
\* is upset.
LEMMA ClaimKeeps ==
  ASSUME TypeInv, HeldInv, NEW t \in Stream, NEW who \in {t, NoStream}, NEW mem \in BOOLEAN,
         ClaimSlot(t, who, mem)
  PROVE  HeldInv'
<1> USE Handles DEF TypeInv, TypeOK, Places, HeldInv
<1> DEFINE k == found[t]
<1>1. k \in Slot /\ ~open[t] /\ upset' = upset /\ revived' = revived \ {k}
  BY DEF ClaimSlot
<1>2. \A u \in Stream : found'[u] = IF u = t THEN NoSlot ELSE found[u]
  BY DEF ClaimSlot
<1>3. \A u \in Stream, j \in Slot : Holds(u, j)' <=> IF u = t THEN j = k ELSE Holds(u, j)
  <2>1. \A u \in Stream : /\ open'[u] = IF u = t THEN TRUE ELSE open[u]
                         /\ handle'[u] = IF u = t THEN HANDLE_BASE + k ELSE handle[u]
    BY DEF ClaimSlot
  <2>2. SlotOf(HANDLE_BASE + k) = k
    BY <1>1
  <2>3. QED
    BY <2>1, <2>2 DEF Holds
<1>4. \A j \in Slot : /\ in_use'[j] = IF j = k THEN TRUE ELSE in_use[j]
                      /\ cb'[j] = IF j = k THEN who ELSE cb[j]
  BY <1>1 DEF ClaimSlot
<1>5. \A j \in Slot : ~Holds(t, j)
  BY <1>1 DEF Holds
<1> HIDE DEF k
<1>6. k \notin upset => \A u \in Stream : ~Holds(u, k) /\ (found[u] = k => u = t)
  BY <1>1 DEF FoundByOne, k
<1>7. FoundByOne'
  BY <1>1, <1>2, <1>3, <1>6 DEF FoundByOne
<1>8. StreamsApart'
  BY <1>1, <1>3, <1>6 DEF StreamsApart
<1>9. HoldersServed'
  <2>1. SUFFICES ASSUME NEW u \in Stream, NEW j \in Slot \ upset, Holds(u, j)'
                 PROVE  in_use'[j] /\ cb'[j] \in {u, NoStream}
    BY <1>1 DEF HoldersServed
  <2>2. CASE j = k
    BY <1>3, <1>4, <1>6, <2>1, <2>2
  <2>3. CASE j # k
    BY <1>3, <1>4, <2>1, <2>3 DEF HoldersServed
  <2>4. QED
    BY <2>2, <2>3
<1>10. UsedIsHeld'
  <2>1. SUFFICES ASSUME NEW j \in Slot, in_use'[j] PROVE Held(j)' \/ j \in revived'
    BY DEF UsedIsHeld
  <2>2. CASE j = k
    BY <1>3, <2>2 DEF Held
  <2>3. CASE j # k
    <3>1. Held(j) \/ j \in revived
      BY <1>4, <2>1, <2>3 DEF UsedIsHeld
    <3>2. Held(j) => Held(j)'
      BY <1>3, <1>5 DEF Held
    <3>3. QED
      BY <1>1, <2>3, <3>1, <3>2
  <2>4. QED
    BY <2>2, <2>3
<1>11. QED
  BY <1>7, <1>8, <1>9, <1>10

\* A restart marks a slot that is held anyway, or one more that is revived.
LEMMA StartKeeps ==
  ASSUME TypeInv, HeldInv, NEW t \in Stream, StartSeq(t)
  PROVE  HeldInv'
<1> USE Handles DEF TypeInv, TypeOK, Places, HeldInv
<1>1. PICK k \in Slot :
        /\ in_use' = [in_use EXCEPT ![k] = TRUE]
        /\ revived' = IF Held(k) THEN revived ELSE revived \cup {k}
        /\ UNCHANGED <<cb, streamVars, upset>>
  BY DEF StartSeq
<1>2. \A u \in Stream, j \in Slot : Holds(u, j)' <=> Holds(u, j)
  BY <1>1 DEF Holds, streamVars
<1>3. \A j \in Slot : in_use'[j] = IF j = k THEN TRUE ELSE in_use[j]
  BY <1>1
<1>4. FoundByOne' /\ StreamsApart'
  BY <1>1, <1>2 DEF FoundByOne, StreamsApart, streamVars
<1>5. HoldersServed'
  BY <1>1, <1>2, <1>3 DEF HoldersServed
<1>6. UsedIsHeld'
  BY <1>1, <1>2, <1>3 DEF UsedIsHeld, Held
<1>7. QED
  BY <1>4, <1>5, <1>6

\* A Close by the holder frees what it alone held; one by another stream upsets
\* the slot of whoever holds it.
LEMMA CloseKeeps ==
  ASSUME TypeInv, HeldInv, NEW t \in Stream, Close(t)
  PROVE  HeldInv'
<1> USE Handles DEF TypeInv, TypeOK, Places, HeldInv
<1>1. PICK k \in Slot :
        /\ k = SlotOf(handle[t])
        /\ in_use' = [in_use EXCEPT ![k] = FALSE]
        /\ open' = [open EXCEPT ![t] = FALSE]
        /\ upset' = IF ~open[t] /\ Held(k) THEN upset \cup {k} ELSE upset
        /\ revived' = revived \ {k}
        /\ UNCHANGED <<cb, handle, found>>
  BY DEF Close, Calls
<1>2. \A u \in Stream, j \in Slot : Holds(u, j)' <=> Holds(u, j) /\ u # t
  BY <1>1 DEF Holds
<1>3. \A j \in Slot : in_use'[j] = IF j = k THEN FALSE ELSE in_use[j]
  BY <1>1
<1>4. \A j \in Slot : j \notin upset' => j \notin upset
  BY <1>1
<1>5. \A j \in Slot : Holds(t, j) => j = k
  BY <1>1 DEF Holds
<1>6. k \notin upset' => \A u \in Stream : u # t => ~Holds(u, k)
  <2>1. SUFFICES ASSUME k \notin upset', NEW u \in Stream, u # t PROVE ~Holds(u, k)
    OBVIOUS
  <2>2. CASE open[t]
    BY <1>1, <1>4, <2>1, <2>2 DEF StreamsApart, Holds
  <2>3. CASE ~open[t]
    BY <1>1, <2>1, <2>3 DEF Held
  <2>4. QED
    BY <2>2, <2>3
<1>7. FoundByOne'
  BY <1>1, <1>2, <1>4 DEF FoundByOne
<1>8. StreamsApart'
  BY <1>2, <1>4 DEF StreamsApart
<1>9. HoldersServed'
  BY <1>1, <1>2, <1>3, <1>4, <1>6 DEF HoldersServed
<1>10. UsedIsHeld'
  <2>1. SUFFICES ASSUME NEW j \in Slot, in_use'[j] PROVE Held(j)' \/ j \in revived'
    BY DEF UsedIsHeld
  <2>2. j # k /\ (Held(j) \/ j \in revived)
    BY <1>3, <2>1 DEF UsedIsHeld
  <2>3. Held(j) => Held(j)'
    BY <1>2, <1>5, <2>2 DEF Held
  <2>4. QED
    BY <1>1, <2>2, <2>3
<1>11. QED
  BY <1>7, <1>8, <1>9, <1>10

LEMMA HeldStep == TypeInv /\ HeldInv /\ [Next]_vars => HeldInv'
<1> SUFFICES ASSUME TypeInv, HeldInv, [Next]_vars PROVE HeldInv'
  OBVIOUS
<1>1. ASSUME UNCHANGED <<slotVars, streamVars, history>> PROVE HeldInv'
  BY <1>1 DEF slotVars, streamVars, history, HeldInv, FoundByOne, StreamsApart, HoldersServed,
              UsedIsHeld, Holds, Held
<1>2. ASSUME NEW t \in Stream, EndSeq(t) \/ DecodeAu(t) \/ CallbackReturns(t) PROVE HeldInv'
  BY <1>1, <1>2 DEF EndSeq, DecodeAu, CallbackReturns
<1>3. CASE UNCHANGED vars
  BY <1>1, <1>3 DEF vars
<1>4. QED
  BY <1>2, <1>3, FindKeeps, ClaimKeeps, StartKeeps, CloseKeeps DEF Next

LEMMA AlwaysHeld == Spec => [](TypeInv /\ HeldInv)
BY TypeInit, TypeStep, HeldInit, HeldStep, PTL DEF Spec

\* For any streams and slots and any order of calls, two streams hold one slot
\* only if two searches for it met or a closed handle was closed under a holder.
THEOREM Apart == Spec => []StreamsApart
BY AlwaysHeld, HeldInvMeans, PTL

\* Likewise a holder keeps its slot in use and its own callback in it, and only a
\* StartSeq on a closed handle leaves a slot in use that nobody holds.
THEOREM NoneLost == Spec => []SlotsHeld
BY AlwaysHeld, HeldInvMeans, PTL
=============================================================================
