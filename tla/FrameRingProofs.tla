-------------------------- MODULE FrameRingProofs ---------------------------
(***************************************************************************)
(* The frame ring for any number of slots, units and delay of the MFT.     *)
(***************************************************************************)
EXTENDS FrameRing, SequenceTheorems, TLAPS

USE RingAssumption

LEMMA Wraps == \A i \in Index : After(i) \in Index /\ i \in Nat
BY DEF After, Index

LEMMA TypeInit == Init => TypeOK
<1> SUFFICES ASSUME Init PROVE TypeOK
  OBVIOUS
<1>1. mft \in Seq(Au) /\ pushed \in Seq(Au) /\ handed \in Seq(0 .. MaxAu)
  BY EmptySeq DEF Init
<1>2. 0 \in Index
  BY DEF Index
<1>3. open \in BOOLEAN /\ overlap \in BOOLEAN /\ torn \in BOOLEAN /\ dropped \in BOOLEAN /\ raced \in BOOLEAN
  BY Zenon DEF Init
<1>4. QED
  BY <1>1, <1>2, <1>3 DEF Init, TypeOK, EmptyRing

LEMMA TypeOpen == TypeOK /\ (Open \/ Close) => TypeOK'
<1> SUFFICES ASSUME TypeOK, Open \/ Close PROVE TypeOK'
  OBVIOUS
<1> USE DEF TypeOK, feedVars, takeVars
<1>1. CASE Open
  <2>1. open' \in BOOLEAN
    BY <1>1, Zenon DEF Open
  <2>2. QED
    BY <1>1, <2>1 DEF Open
<1>2. CASE Close
  <2>1. open' \in BOOLEAN /\ torn' \in BOOLEAN /\ dropped' \in BOOLEAN /\ raced' \in BOOLEAN
    BY <1>2, Zenon DEF Close
  <2>2. mft' \in Seq(Au) /\ pushed' \in Seq(Au) /\ handed' \in Seq(0 .. MaxAu)
    BY <1>2, EmptySeq DEF Close
  <2>3. 0 \in Index /\ ring' \in [Index -> Frame \cup {NoFrame, Half}]
    BY <1>2 DEF Close, EmptyRing, Index
  <2>4. QED
    BY <1>2, <2>1, <2>2, <2>3 DEF Close
<1>3. QED
  BY <1>1, <1>2

LEMMA TypeFeed == TypeOK /\ (Feed \/ FeedFails \/ FeedStep) => TypeOK'
<1> SUFFICES ASSUME TypeOK, Feed \/ FeedFails \/ FeedStep PROVE TypeOK'
  OBVIOUS
<1> USE Wraps DEF TypeOK, feedVars, takeVars
<1>1. CASE Feed
  <2>1. fed' \in Au /\ fed' \in 0 .. MaxAu
    BY <1>1 DEF Feed, Au
  <2>2. Append(mft, fed') \in Seq(Au)
    BY <2>1, AppendProperties
  <2>3. mft' \in Seq(Au) /\ fpc' \in {"drain", "refused"}
    BY <1>1, <2>2 DEF Feed
  <2>4. QED
    BY <1>1, <2>1, <2>3 DEF Feed
<1>2. CASE FeedFails
  <2>1. fed' \in Au /\ fed' \in 0 .. MaxAu
    BY <1>2 DEF FeedFails, Au
  <2>2. QED
    BY <1>2, <2>1 DEF FeedFails
<1>3. CASE DrainEnds
  <2>1. fed \in Au /\ Append(mft, fed) \in Seq(Au)
    BY <1>3, AppendProperties DEF DrainEnds
  <2>2. mft' \in Seq(Au) /\ fpc' \in {"drain", "idle"}
    BY <1>3, <2>1 DEF DrainEnds
  <2>3. QED
    BY <1>3, <2>1, <2>2 DEF DrainEnds
<1>4. CASE Pull \/ Lost
  <2>1. mft \in Seq(Au) /\ mft # <<>> /\ Len(mft) \in Nat
    BY <1>4, LenProperties, EmptySeq DEF Pull, Lost
  <2>2. Head(mft) \in Au /\ Tail(mft) \in Seq(Au)
    BY <2>1, HeadTailProperties
  <2>3. CASE Pull
    <3>1. cur' \in Pulled
      BY <2>2, <2>3 DEF Pull, Pulled
    <3>2. dropped' \in BOOLEAN /\ raced' \in BOOLEAN
      BY <2>3, Zenon DEF Pull
    <3>3. during' \in 0 .. 2 /\ fpc' \in {"full", "write"}
      BY <2>3 DEF Pull
    <3>4. QED
      BY <2>2, <2>3, <3>1, <3>2, <3>3 DEF Pull
  <2>4. CASE Lost
    BY <2>2, <2>4 DEF Lost
  <2>5. QED
    BY <1>4, <2>3, <2>4
<1>5. CASE DropOldest
  BY <1>5 DEF DropOldest
<1>6. CASE BeginWrite
  BY <1>6 DEF BeginWrite
<1>7. CASE NoMemory
  BY <1>7 DEF NoMemory, Pulled
<1>8. CASE Publish
  <2>1. [au |-> cur.au, pts |-> cur.pts] \in Frame /\ cur.au \in Au /\ cur.then \in {"drain", "refused"}
    BY <1>8 DEF Publish, Pulled, Frame
  <2>2. QED
    BY <1>8, <2>1, AppendProperties DEF Publish
<1>9. QED
  BY <1>1, <1>2, <1>3, <1>4, <1>5, <1>6, <1>7, <1>8 DEF FeedStep

LEMMA TypeTake == TypeOK /\ (Peek \/ TakeStep) => TypeOK'
<1> SUFFICES ASSUME TypeOK, Peek \/ TakeStep PROVE TypeOK'
  OBVIOUS
<1> USE Wraps DEF TypeOK, feedVars, takeVars
<1>1. CASE Peek
  <2>1. got' \in Frame \cup {NoFrame, Half} /\ got' # NoFrame
    BY <1>1 DEF Peek
  <2>2. torn' \in BOOLEAN
    BY <1>1, Zenon DEF Peek
  <2>3. QED
    BY <1>1, <2>1, <2>2 DEF Peek
<1>2. CASE Copied
  <2>1. got.au \in 0 .. MaxAu
    BY <1>2 DEF Copied, Frame, Half, Au
  <2>2. (IF torn THEN 0 ELSE got.au) \in 0 .. MaxAu
    BY <2>1
  <2>3. handed' \in Seq(0 .. MaxAu)
    BY <1>2, <2>2, AppendProperties DEF Copied
  <2>4. QED
    BY <1>2, <2>3 DEF Copied
<1>3. CASE PopTest
  <2>1. raced' \in BOOLEAN
    BY <1>3, Zenon DEF PopTest
  <2>2. QED
    BY <1>3, <2>1 DEF PopTest
<1>4. CASE PopStore
  BY <1>4 DEF PopStore
<1>5. QED
  BY <1>1, <1>2, <1>3, <1>4 DEF TakeStep

LEMMA TypeStep == TypeOK /\ [Next]_vars => TypeOK'
<1>1. TypeOK /\ UNCHANGED vars => TypeOK'
  BY DEF TypeOK, vars, feedVars, takeVars
<1>2. QED
  BY <1>1, TypeOpen, TypeFeed, TypeTake DEF Next

\* The ring, the two threads and the histories keep their types, whichever of
\* its steps the calls that overlap take in between each other's.
THEOREM TypeCorrect == Spec => []TypeOK
BY TypeInit, TypeStep, PTL DEF Spec

-----------------------------------------------------------------------------
(* How far a slot is behind the tail, with no remainder in it.             *)

Place(i) == IF tail <= i THEN i - tail ELSE i + RING - tail

LEMMA AfterIs == \A i \in Index : After(i) = IF i = RING - 1 THEN 0 ELSE i + 1
<1> SUFFICES ASSUME NEW i \in Index PROVE After(i) = IF i = RING - 1 THEN 0 ELSE i + 1
  OBVIOUS
<1> USE DEF Index, After
<1>1. ASSUME NEW r \in Nat, r > 0, NEW x \in Nat, x < r PROVE x % r = x
  BY <1>1
<1>2. ASSUME NEW r \in Nat, r > 0 PROVE r % r = 0
  BY <1>2
<1>3. CASE i = RING - 1
  <2>1. i + 1 = RING
    BY <1>3
  <2>2. QED
    BY <1>2, <1>3, <2>1
<1>4. CASE i # RING - 1
  <2>1. i + 1 \in Nat /\ i + 1 < RING
    BY <1>4
  <2>2. QED
    BY <1>1, <1>4, <2>1
<1>5. QED
  BY <1>3, <1>4

LEMMA AfterProperties ==
  /\ \A i \in Index : After(i) \in Index /\ After(i) # i
  /\ \A i, j \in Index : After(i) = After(j) => i = j
BY AfterIs DEF Index

-----------------------------------------------------------------------------
(* A copy and the drops under it.                                          *)

Carrying == fpc \in {"write", "publish"}

Spared ==
  ~raced =>
    /\ fpc = "full" => After(head) = tail /\ tpc # "store"
    /\ Carrying => After(head) # tail
    /\ tpc = "store" => idx = tail /\ head # tail
    /\ tpc = "copy" =>
         /\ during = 0 => tail = idx /\ head # idx /\ fpc # "full"
         /\ during = 1 /\ fpc = "full" => tail = idx
         /\ during = 1 /\ fpc # "full" =>
              /\ tail = After(idx)
              /\ head = idx \/ After(head) = idx
              /\ Carrying => After(head) = idx
         /\ torn => during = 2

LEMMA SparedInit == Init => Spared
BY DEF Init, Spared, Carrying

LEMMA SparedStep == TypeOK /\ Spared /\ [Next]_vars => Spared'
<1> SUFFICES ASSUME TypeOK, Spared, [Next]_vars, ~raced' PROVE Spared'
  BY DEF Spared
<1> USE AfterProperties DEF feedVars, takeVars, Spared, Carrying
<1>1. head \in Index /\ tail \in Index /\ idx \in Index /\ during \in 0 .. 2
  BY DEF TypeOK
<1>2. CASE UNCHANGED vars
  BY <1>2 DEF vars, After
<1>3. CASE Open \/ Close
  BY <1>3 DEF Open, Close, After
<1>4. CASE Feed \/ FeedFails \/ DrainEnds \/ Lost
  BY <1>1, <1>4 DEF Feed, FeedFails, DrainEnds, Lost, After
<1>5. CASE Pull
  <2>1. ~raced /\ (Full => tpc # "store")
    BY <1>5, Zenon DEF Pull
  <2>2. CASE Full
    <3>1. during' = IF during < 2 THEN during + 1 ELSE 2
      BY <1>5, <2>2 DEF Pull
    <3>2. QED
      BY <1>1, <1>5, <2>1, <2>2, <3>1 DEF Pull, Full, After
  <2>3. CASE ~Full
    BY <1>1, <1>5, <2>1, <2>3 DEF Pull, Full, After
  <2>4. QED
    BY <2>2, <2>3
<1>6. CASE DropOldest
  BY <1>1, <1>6 DEF DropOldest, After
<1>7. CASE BeginWrite
  <2>1. ~raced /\ (torn' => torn \/ (tpc = "copy" /\ idx = head))
    BY <1>7, Zenon DEF BeginWrite
  <2>2. tpc = "copy" /\ idx = head => during = 2
    BY <1>1, <1>7, <2>1 DEF BeginWrite
  <2>3. tpc = "copy" /\ torn' => during = 2
    BY <2>1, <2>2
  <2>4. QED
    BY <1>1, <1>7, <2>1, <2>3 DEF BeginWrite, After
<1>8. CASE NoMemory \/ Publish
  <2>1. cur.then \in {"drain", "refused"}
    BY <1>8 DEF NoMemory, Publish, TypeOK, Pulled
  <2>2. QED
    BY <1>1, <1>8, <2>1 DEF NoMemory, Publish, After
<1>9. CASE Peek
  BY <1>1, <1>9 DEF Peek, Empty, After
<1>10. CASE Copied \/ PopTest
  BY <1>1, <1>10 DEF Copied, PopTest, Empty, After
<1>11. CASE PopStore
  BY <1>1, <1>11 DEF PopStore, After
<1>12. QED
  BY <1>2, <1>3, <1>4, <1>5, <1>6, <1>7, <1>8, <1>9, <1>10, <1>11 DEF Next, FeedStep, TakeStep

\* A picture is overwritten under the taker's copy only when the ring was found
\* full twice within it: one drop frees the slot, the next frame goes before it.
THEOREM OneDropIsSafe == Spec => []CopySurvivesOneDrop
<1>1. Spared => CopySurvivesOneDrop
  BY DEF Spared, CopySurvivesOneDrop
<1>2. QED
  BY <1>1, TypeInit, TypeStep, SparedInit, SparedStep, PTL DEF Spec

-----------------------------------------------------------------------------
(* The queue that the ring is as long as it did not fill.                  *)

LEMMA PlaceProperties ==
  TypeOK =>
    /\ Place(tail) = 0
    /\ \A i \in Index : Place(i) \in 0 .. RING - 1 /\ (i # tail => Place(i) > 0)
    /\ \A i, j \in Index : Place(i) = Place(j) => i = j
    /\ \A i \in Index : After(i) # tail => Place(After(i)) = Place(i) + 1
<1> SUFFICES ASSUME TypeOK
             PROVE  /\ Place(tail) = 0
                    /\ \A i \in Index : Place(i) \in 0 .. RING - 1 /\ (i # tail => Place(i) > 0)
                    /\ \A i, j \in Index : Place(i) = Place(j) => i = j
                    /\ \A i \in Index : After(i) # tail => Place(After(i)) = Place(i) + 1
  OBVIOUS
<1>1. tail \in Index
  BY DEF TypeOK
<1>2. QED
  BY <1>1, AfterIs DEF Place, Index

LEMMA PlaceMoves ==
  TypeOK /\ tail' = After(tail) =>
    \A i \in Index : Place(i)' = IF i = tail THEN RING - 1 ELSE Place(i) - 1
<1> SUFFICES ASSUME TypeOK, tail' = After(tail), NEW i \in Index
             PROVE  Place(i)' = IF i = tail THEN RING - 1 ELSE Place(i) - 1
  OBVIOUS
<1>1. tail \in Index /\ tail' = IF tail = RING - 1 THEN 0 ELSE tail + 1
  BY AfterIs DEF TypeOK
<1>2. QED
  BY <1>1 DEF Place, Index

InStep ==
  ~dropped =>
    /\ fpc # "full"
    /\ Carrying => After(head) # tail
    /\ tpc # "idle" => head # tail
    /\ tpc \in {"copy", "store"} => idx = tail
    /\ tpc = "copy" => ~torn /\ got.au = pushed[Len(handed) + 1]
    /\ Left <= Len(handed)
    /\ Len(pushed) + Left = Len(handed) + Place(head)
    /\ \A i \in Index : Place(i) < Place(head) =>
         ring[i] \in Frame /\ ring[i].au = pushed[Len(handed) - Left + Place(i) + 1]
    /\ \A n \in DOMAIN handed : handed[n] = pushed[n]

LEMMA InStepInit == Init => InStep
BY DEF Init, InStep, Carrying, Place, Left, Index

LEMMA InStepStep == TypeOK /\ InStep /\ [Next]_vars => InStep'
<1> SUFFICES ASSUME TypeOK, InStep, [Next]_vars, ~dropped' PROVE InStep'
  BY DEF InStep
<1> USE DEF feedVars, takeVars
<1>1. /\ head \in Index /\ tail \in Index /\ idx \in Index
      /\ pushed \in Seq(Au) /\ handed \in Seq(0 .. MaxAu)
      /\ Len(pushed) \in Nat /\ Len(handed) \in Nat
      /\ DOMAIN handed = 1 .. Len(handed) /\ DOMAIN pushed = 1 .. Len(pushed)
  BY LenProperties DEF TypeOK
<1>1a. ~dropped => /\ Len(pushed) + Left = Len(handed) + Place(head)
                   /\ Place(head) \in Nat /\ Left \in 0 .. 1 /\ Left <= Len(handed)
  BY <1>1, PlaceProperties DEF InStep, Left
<1>2. CASE UNCHANGED vars
  BY <1>2 DEF vars, InStep, Carrying, Place, Left, After
<1>3. CASE Open \/ Close
  <2>1. CASE Open
    BY <2>1 DEF Open, InStep, Carrying, Place, Left, After
  <2>2. CASE Close
    BY <2>2 DEF Close, InStep, Carrying, Place, Left, Index
  <2>3. QED
    BY <1>3, <2>1, <2>2
<1>4. CASE Feed \/ FeedFails \/ DrainEnds \/ Lost \/ DropOldest \/ NoMemory \/ Pull
  <2>1. ~dropped /\ (fpc' # "full")
    BY <1>4 DEF Feed, FeedFails, DrainEnds, Lost, DropOldest, NoMemory, Pull, InStep, TypeOK, Pulled
  <2>2. UNCHANGED <<head, tail, ring, tpc, idx, got, torn, pushed, handed>>
    BY <1>4, <2>1 DEF Feed, FeedFails, DrainEnds, Lost, DropOldest, NoMemory, Pull, InStep
  <2>3. fpc' \in {"write", "publish"} => After(head) # tail
    BY <1>4, <2>1 DEF Feed, FeedFails, DrainEnds, Lost, DropOldest, NoMemory, Pull, InStep, TypeOK, Pulled, Full
  <2>4. QED
    BY <2>1, <2>2, <2>3 DEF InStep, Carrying, Place, Left, After
<1>5. CASE BeginWrite
  <2>1. ~dropped /\ (tpc = "copy" => ~torn')
    BY <1>5, Zenon DEF BeginWrite, InStep
  <2>2. /\ UNCHANGED <<head, tail, tpc, idx, got, pushed, handed>>
        /\ fpc = "write" /\ fpc' = "publish"
        /\ \A i \in Index : i # head => ring'[i] = ring[i]
    BY <1>5 DEF BeginWrite, TypeOK
  <2>3. Left' = Left /\ \A i \in Index : Place(i)' = Place(i)
    BY <2>2 DEF Left, Place
  <2>4. Place(head)' = Place(head)
    BY <2>2 DEF Place
  <2>5. \A i \in Index : Place(i)' < Place(head)' => Place(i) < Place(head) /\ i # head
    BY <1>1, <2>3, <2>4, PlaceProperties
  <2>6. \A i \in Index : Place(i)' < Place(head)' =>
          ring'[i] \in Frame /\ ring'[i].au = pushed'[Len(handed') - Left' + Place(i)' + 1]
    BY <2>1, <2>2, <2>3, <2>5 DEF InStep
  <2>7. Left' <= Len(handed') /\ Len(pushed') + Left' = Len(handed') + Place(head)'
    BY <1>1, <1>1a, <2>1, <2>2, <2>3, <2>4
  <2>8. /\ fpc' # "full" /\ (Carrying' => After(head') # tail')
        /\ tpc' # "idle" => head' # tail'
        /\ tpc' \in {"copy", "store"} => idx' = tail'
        /\ tpc' = "copy" => got'.au = pushed'[Len(handed') + 1]
        /\ \A n \in DOMAIN handed' : handed'[n] = pushed'[n]
    BY <2>1, <2>2 DEF InStep, Carrying
  <2>9. tpc' = "copy" => ~torn'
    <3>1. tpc' = tpc
      BY <2>2
    <3>2. QED
      BY <2>1, <3>1, Zenon
  <2>10. QED
    BY <2>6, <2>7, <2>8, <2>9 DEF InStep, After
<1>6. CASE Publish
  <2> USE <1>6 DEF Publish
  <2>1. ~dropped /\ After(head) # tail /\ fpc' \in {"drain", "refused"} /\ cur.au \in Au
    BY DEF InStep, Carrying, TypeOK, Pulled
  <2>2. head' \in Index /\ Place(head)' = Place(head) + 1 /\ \A i \in Index : Place(i)' = Place(i)
    <3>1. \A i \in Index : Place(i)' = Place(i)
      BY DEF Place
    <3>2. Place(After(head)) = Place(head) + 1 /\ After(head) \in Index
      BY <1>1, <2>1, PlaceProperties, AfterProperties
    <3>3. Place(head)' = Place(After(head))
      BY DEF Place
    <3>4. QED
      BY <3>1, <3>2, <3>3
  <2>3. /\ Len(pushed') = Len(pushed) + 1
        /\ pushed'[Len(pushed) + 1] = cur.au
        /\ \A n \in 1 .. Len(pushed) : pushed'[n] = pushed[n]
    BY <1>1, <2>1, AppendProperties
  <2>4. Left \in 0 .. 1 /\ Left' = Left /\ (Left = 1 => Place(head) > 0)
    BY <1>1, <2>1, PlaceProperties DEF Left, InStep
  <2>5. Len(handed) <= Len(pushed) /\ (tpc = "copy" => Len(handed) < Len(pushed))
    BY <1>1, <2>1, <2>4, PlaceProperties DEF InStep, Left
  <2> DEFINE Base == Len(handed) - Left
  <2>5a. Base + Place(head) = Len(pushed) /\ Base \in Int /\ Place(head) \in Nat /\ Base >= 0
    BY <1>1, <2>1, <2>4, PlaceProperties DEF InStep
  <2>6. ASSUME NEW i \in Index, Place(i) <= Place(head)
        PROVE  ring'[i] \in Frame /\ ring'[i].au = pushed'[Base + Place(i) + 1]
    <3> HIDE DEF Base
    <3>1. Place(i) \in Nat /\ Place(head) \in Nat
      BY <1>1, PlaceProperties
    <3>2. CASE i = head
      <4>1. ring'[head] = [au |-> cur.au, pts |-> cur.pts] /\ [au |-> cur.au, pts |-> cur.pts] \in Frame
        BY <1>1 DEF TypeOK, Pulled, Frame
      <4>2. QED
        BY <2>3, <2>5a, <3>2, <4>1
    <3>3. CASE i # head
      <4>1. Place(i) < Place(head)
        BY <1>1, <2>6, <3>1, <3>3, PlaceProperties
      <4>2. ring'[i] = ring[i] /\ ring[i] \in Frame /\ ring[i].au = pushed[Base + Place(i) + 1]
        BY <2>1, <3>3, <4>1 DEF InStep, TypeOK, Base
      <4>3. Base + Place(i) + 1 \in 1 .. Len(pushed)
        BY <1>1, <2>5a, <3>1, <4>1
      <4>4. QED
        BY <2>3, <4>2, <4>3
    <3>4. QED
      BY <3>2, <3>3
  <2>7. head' # tail' /\ UNCHANGED <<tail, tpc, idx, got, torn, handed>>
    BY <2>1
  <2>8. \A i \in Index : Place(i)' < Place(head)' => Place(i) <= Place(head)
    BY <1>1, <2>2, PlaceProperties
  <2>9. /\ tpc = "copy" => pushed'[Len(handed) + 1] = pushed[Len(handed) + 1]
        /\ \A n \in DOMAIN handed : pushed'[n] = pushed[n]
    BY <1>1, <2>3, <2>5
  <2>10. Len(pushed') + Left' = Len(handed') + Place(head)'
    BY ONLY <1>1, <1>1a, <2>1, <2>2, <2>3, <2>4, <2>7
  <2>11. ASSUME NEW i \in Index, Place(i)' < Place(head)'
         PROVE  ring'[i] \in Frame /\ ring'[i].au = pushed'[Len(handed') - Left' + Place(i)' + 1]
    BY <2>2, <2>4, <2>6, <2>7, <2>8, <2>11
  <2>12. fpc' # "full" /\ ~(Carrying')
    BY <2>1 DEF Carrying
  <2>13. /\ tpc' # "idle" => head' # tail'
         /\ tpc' \in {"copy", "store"} => idx' = tail'
         /\ tpc' = "copy" => got'.au = pushed'[Len(handed') + 1]
         /\ \A n \in DOMAIN handed' : handed'[n] = pushed'[n]
         /\ Left' <= Len(handed')
    BY <2>1, <2>4, <2>7, <2>9 DEF InStep
  <2>14. tpc' = "copy" => ~torn'
    <3>1. tpc = "copy" => ~torn
      BY <2>1, Zenon DEF InStep
    <3>2. tpc' = tpc /\ torn' = torn
      BY <2>7
    <3>3. QED
      BY ONLY <3>1, <3>2, Zenon
  <2>15. QED
    BY <2>10, <2>11, <2>12, <2>13, <2>14 DEF InStep
<1>7. CASE Peek
  BY <1>1, <1>7, PlaceProperties DEF Peek, Empty, InStep, Carrying, Place, Left, After
<1>8. CASE Copied
  <2>1. ~dropped /\ got.au \in 0 .. MaxAu /\ (~torn) /\ got.au = pushed[Len(handed) + 1]
    BY <1>8 DEF Copied, InStep, TypeOK, Frame, Half, Au
  <2>2. handed' = Append(handed, got.au)
    BY <1>8, <2>1 DEF Copied
  <2>3. /\ Len(handed') = Len(handed) + 1
        /\ DOMAIN handed' = 1 .. Len(handed) + 1
        /\ \A n \in 1 .. Len(handed) : handed'[n] = handed[n]
        /\ handed'[Len(handed) + 1] = got.au
    BY <1>1, <2>1, <2>2, AppendProperties
  <2>4. Left = 0 /\ Left' = 1
    BY <1>8 DEF Copied, Left
  <2>5. \A n \in DOMAIN handed' : handed'[n] = pushed[n]
    BY <1>1, <2>1, <2>3 DEF InStep
  <2>6. UNCHANGED <<head, tail, ring, fpc, idx, pushed>> /\ tpc = "copy" /\ tpc' = "pop"
    BY <1>8 DEF Copied
  <2>7. \A i \in Index : Place(i)' = Place(i)
    BY <2>6 DEF Place
  <2>8. Place(head)' = Place(head)
    BY <2>6 DEF Place
  <2>9. ASSUME NEW i \in Index, Place(i)' < Place(head)'
        PROVE  ring'[i] \in Frame /\ ring'[i].au = pushed'[Len(handed') - Left' + Place(i)' + 1]
    <3>1. Place(i) < Place(head) /\ Place(i) \in Nat
      BY <2>7, <2>8, <2>9, PlaceProperties
    <3>2. ring[i] \in Frame /\ ring[i].au = pushed[Len(handed) - 0 + Place(i) + 1]
      BY <2>1, <2>4, <3>1 DEF InStep
    <3>3. Len(handed') - Left' + Place(i)' + 1 = Len(handed) - 0 + Place(i) + 1
      BY <1>1, <2>3, <2>4, <2>7, <3>1
    <3>4. QED
      BY <2>6, <3>2, <3>3
  <2>10. Len(pushed') + Left' = Len(handed') + Place(head)'
    <3>1. Len(pushed') = Len(pushed)
      BY <2>6
    <3>2. /\ Len(handed') = Len(handed) + 1
          /\ Len(pushed) + Left = Len(handed) + Place(head)
          /\ Place(head) \in Nat /\ Len(pushed) \in Nat /\ Len(handed) \in Nat
      BY <1>1, <1>1a, <2>1, <2>3
    <3>3. QED
      BY ONLY <2>4, <2>8, <3>1, <3>2
  <2>11. /\ fpc' # "full" /\ (Carrying' => After(head') # tail')
         /\ head' # tail'
    BY <2>1, <2>6 DEF InStep, Carrying
  <2>12. QED
    BY <1>1, <2>3, <2>4, <2>5, <2>6, <2>9, <2>10, <2>11 DEF InStep, After
<1>9. CASE PopTest
  BY <1>1, <1>9 DEF PopTest, Empty, InStep, Carrying, Place, Left, After
<1>10. CASE PopStore
  <2>1. ~dropped /\ tail' = After(tail) /\ head # tail /\ tpc = "store"
    BY <1>10 DEF PopStore, InStep
  <2>2. UNCHANGED <<head, ring, fpc, handed, pushed>> /\ tpc' = "idle" /\ Left = 1 /\ Left' = 0
    BY <1>10 DEF PopStore, Left
  <2>3. Place(head)' = Place(head) - 1
    BY <1>1, <2>1, <2>2, PlaceMoves DEF Place
  <2>4. After(head) # After(tail)
    BY <1>1, <2>1, AfterProperties
  <2>5. \A i \in Index : Place(i)' < Place(head)' => i # tail /\ Place(i)' = Place(i) - 1 /\ Place(i) < Place(head)
    BY <1>1, <2>1, <2>3, PlaceMoves, PlaceProperties
  <2>6. ASSUME NEW i \in Index, Place(i)' < Place(head)'
        PROVE  ring'[i] \in Frame /\ ring'[i].au = pushed'[Len(handed') - Left' + Place(i)' + 1]
    <3>1. Place(i) < Place(head) /\ Place(i) \in Nat /\ Place(i)' = Place(i) - 1
      BY <2>5, <2>6, PlaceProperties
    <3>2. ring[i] \in Frame /\ ring[i].au = pushed[Len(handed) - 1 + Place(i) + 1]
      BY <2>1, <2>2, <3>1 DEF InStep
    <3>3. Len(handed') - Left' + Place(i)' + 1 = Len(handed) - 1 + Place(i) + 1
      BY <1>1, <2>2, <3>1
    <3>4. QED
      BY <2>2, <3>2, <3>3
  <2>7. Len(pushed') + Left' = Len(handed') + Place(head)'
    <3>1. Len(pushed') = Len(pushed) /\ Len(handed') = Len(handed)
      BY <2>2
    <3>2. QED
      BY <1>1, <1>1a, <2>1, <2>2, <2>3, <3>1
  <2>8. fpc' # "full" /\ (Carrying' => After(head') # tail') /\ \A n \in DOMAIN handed' : handed'[n] = pushed'[n]
    BY <2>1, <2>2, <2>4 DEF InStep, Carrying
  <2>9. QED
    BY <1>1, <1>1a, <2>2, <2>6, <2>7, <2>8 DEF InStep, After
<1>11. QED
  BY <1>2, <1>3, <1>4, <1>5, <1>6, <1>7, <1>8, <1>9, <1>10 DEF Next, FeedStep, TakeStep

\* As long as the ring was never found full, the title was handed the frames
\* pushed, whole, once and in order, with no lock between the two threads.
THEOREM NothingLostUntilFull == Spec => []InOrderUntilFull
<1>1. TypeOK /\ InStep => InOrderUntilFull
  <2> SUFFICES ASSUME TypeOK, InStep, ~dropped
               PROVE  Len(handed) <= Len(pushed) /\ \A n \in DOMAIN handed : handed[n] = pushed[n]
    BY DEF InOrderUntilFull
  <2>1. /\ head \in Index /\ tail \in Index
        /\ Len(pushed) \in Nat /\ Len(handed) \in Nat
    BY LenProperties DEF TypeOK
  <2>2. QED
    BY <2>1, PlaceProperties DEF InStep, Left
<1>2. QED
  BY <1>1, TypeInit, TypeStep, InStepInit, InStepStep, PTL DEF Spec

-----------------------------------------------------------------------------
(* Access units flow one way: whatever is in the ring or was taken from it *)
(* is older than the frame being pushed, and that is older than the MFT's. *)

Out ==
  {handed[n] : n \in DOMAIN handed}
  \cup {ring[i].au : i \in {k \in Index : ring[k] # NoFrame}}
  \cup {f.au : f \in {got} \ {NoFrame}}

Held     == fpc \in {"full", "write", "publish"}
Retrying == fpc = "refused" \/ (Held /\ cur.then = "refused")

Flow ==
  /\ \A a \in Out : a <= fed /\ (Retrying => a < fed) /\ (Held => a < cur.au)
                    /\ \A n \in DOMAIN mft : a < mft[n]
  /\ \A n \in DOMAIN mft : mft[n] <= fed /\ (Retrying => mft[n] < fed)
                           /\ (Held => cur.au < mft[n])
  /\ \A m, n \in DOMAIN mft : m < n => mft[m] < mft[n]
  /\ Held => cur.au <= fed /\ (Retrying => cur.au < fed)

LEMMA OutTypes == TypeOK => Out \subseteq 0 .. MaxAu
<1> SUFFICES ASSUME TypeOK, NEW a \in Out PROVE a \in 0 .. MaxAu
  OBVIOUS
<1>1. CASE a \in {handed[n] : n \in DOMAIN handed}
  BY <1>1, ElementOfSeq, LenProperties DEF TypeOK
<1>2. CASE a \in {ring[i].au : i \in {k \in Index : ring[k] # NoFrame}}
  BY <1>2 DEF TypeOK, Frame, Half, Au
<1>3. CASE a \in {f.au : f \in {got} \ {NoFrame}}
  BY <1>3 DEF TypeOK, Frame, Half, Au
<1>4. QED
  BY <1>1, <1>2, <1>3 DEF Out

\* Only a push brings a unit out.
LEMMA OutStep ==
  TypeOK /\ [Next]_vars => \A a \in Out' : a \in Out \/ a = 0 \/ (Publish /\ a = cur.au)
<1> SUFFICES ASSUME TypeOK, [Next]_vars, NEW a \in Out'
             PROVE  a \in Out \/ a = 0 \/ (Publish /\ a = cur.au)
  OBVIOUS
<1> USE DEF feedVars, takeVars
<1>1. CASE UNCHANGED <<handed, ring, got>>
  BY <1>1 DEF Out
<1>2. CASE Close
  BY <1>2 DEF Close, Out, EmptyRing
<1>3. CASE BeginWrite
  BY <1>3 DEF BeginWrite, Out, TypeOK, Half
<1>4. CASE Publish
  <2>1. CASE a \in {ring'[i].au : i \in {k \in Index : ring'[k] # NoFrame}}
    <3>1. PICK i \in Index : ring'[i] # NoFrame /\ a = ring'[i].au
      BY <2>1
    <3>2. CASE i = head
      BY <1>4, <3>1, <3>2 DEF Publish, TypeOK
    <3>3. CASE i # head
      BY <1>4, <3>1, <3>3 DEF Publish, TypeOK, Out
    <3>4. QED
      BY <3>2, <3>3
  <2>2. CASE a \notin {ring'[i].au : i \in {k \in Index : ring'[k] # NoFrame}}
    BY <1>4, <2>2 DEF Publish, Out
  <2>3. QED
    BY <2>1, <2>2
<1>5. CASE Peek
  BY <1>5 DEF Peek, Out, TypeOK
<1>6. CASE Copied
  <2>1. handed \in Seq(0 .. MaxAu) /\ got # NoFrame /\ got.au \in Out
    BY <1>6 DEF Copied, TypeOK, Out
  <2>2. PICK v : handed' = Append(handed, v) /\ v \in {0, got.au}
    BY <1>6 DEF Copied
  <2>3. v \in 0 .. MaxAu
    BY <2>1, <2>2, OutTypes
  <2>4. \A n \in DOMAIN handed' : handed'[n] = v \/ (n \in DOMAIN handed /\ handed'[n] = handed[n])
    BY <2>1, <2>2, <2>3, AppendProperties, LenProperties
  <2>5. UNCHANGED <<ring, got>>
    BY <1>6 DEF Copied
  <2>6. QED
    BY <2>1, <2>2, <2>4, <2>5 DEF Out
<1>7. QED
  BY <1>1, <1>2, <1>3, <1>4, <1>5, <1>6
     DEF vars, Next, FeedStep, TakeStep, Open, Feed, FeedFails, DrainEnds, Pull, Lost, DropOldest,
         NoMemory, PopTest, PopStore

LEMMA FlowInit == Init => Flow
<1> SUFFICES ASSUME Init PROVE Flow
  OBVIOUS
<1>1. Out = {} /\ DOMAIN mft = {}
  BY DEF Init, Out, EmptyRing
<1>2. QED
  BY <1>1 DEF Init, Flow, Held

LEMMA FlowStep == TypeOK /\ Flow /\ [Next]_vars => Flow'
<1> SUFFICES ASSUME TypeOK, Flow, [Next]_vars PROVE Flow'
  OBVIOUS
<1> USE DEF feedVars, takeVars
<1>1. /\ mft \in Seq(Au) /\ Len(mft) \in Nat /\ DOMAIN mft = 1 .. Len(mft)
      /\ \A n \in DOMAIN mft : mft[n] \in Nat /\ mft[n] > 0
      /\ fed \in Nat /\ (fpc # "idle" => fed > 0)
      /\ Held => cur.then \in {"drain", "refused"} /\ cur.au \in Nat /\ cur.au > 0
      /\ \A a \in Out : a \in Nat
  BY ElementOfSeq, LenProperties, OutTypes DEF TypeOK, Held, Pulled, Au
<1>2. ~Publish => \A a \in Out' : a \in Out \/ a = 0
  BY OutStep
<1>3. CASE UNCHANGED vars \/ Open \/ Peek \/ Copied \/ PopTest \/ PopStore
  <2>1. UNCHANGED <<mft, fed, fpc, cur>> /\ ~Publish
    BY <1>3 DEF vars, Open, Peek, Copied, PopTest, PopStore, Publish
  <2>2. QED
    BY <1>1, <1>2, <2>1 DEF Flow, Held, Retrying
<1>4. CASE Close
  <2>1. Out' = {} /\ DOMAIN mft' = {} /\ fpc' = "idle"
    BY <1>4 DEF Close, Out, EmptyRing
  <2>2. QED
    BY <2>1 DEF Flow, Held
<1>5. CASE Feed \/ FeedFails
  <2>1. fed' = fed + 1 /\ fpc = "idle" /\ ~Publish
    BY <1>5 DEF Feed, FeedFails, Publish
  <2>2. \/ mft' = mft /\ fpc' \in {"idle", "drain", "refused"}
        \/ mft' = Append(mft, fed') /\ fpc' = "drain"
    BY <1>5 DEF Feed, FeedFails
  <2>3. CASE mft' = mft /\ fpc' \in {"idle", "drain", "refused"}
    BY <1>1, <1>2, <2>1, <2>3 DEF Flow, Held, Retrying
  <2>4. CASE mft' = Append(mft, fed') /\ fpc' = "drain"
    <3>1. /\ DOMAIN mft' = 1 .. Len(mft) + 1
          /\ \A n \in 1 .. Len(mft) : mft'[n] = mft[n]
          /\ mft'[Len(mft) + 1] = fed + 1
      BY <1>1, <2>1, <2>4
    <3>2. QED
      BY <1>1, <1>2, <2>1, <2>4, <3>1 DEF Flow, Held, Retrying
  <2>5. QED
    BY <2>2, <2>3, <2>4
<1>6. CASE DrainEnds
  <2>1. fed' = fed /\ fpc \in {"drain", "refused"} /\ fpc' \in {"idle", "drain"} /\ ~Publish
    BY <1>6 DEF DrainEnds, Publish
  <2>2. mft' = mft \/ (mft' = Append(mft, fed) /\ fpc = "refused")
    BY <1>6 DEF DrainEnds
  <2>3. CASE mft' = mft
    BY <1>1, <1>2, <2>1, <2>3 DEF Flow, Held, Retrying
  <2>4. CASE mft' = Append(mft, fed) /\ fpc = "refused"
    <3>1. /\ DOMAIN mft' = 1 .. Len(mft) + 1
          /\ \A n \in 1 .. Len(mft) : mft'[n] = mft[n]
          /\ mft'[Len(mft) + 1] = fed
      BY <1>1, <2>4
    <3>2. QED
      BY <1>1, <1>2, <2>1, <2>4, <3>1 DEF Flow, Held, Retrying
  <2>5. QED
    BY <2>2, <2>3, <2>4
<1>7. CASE Pull \/ Lost
  <2>1. /\ fpc \in {"drain", "refused"} /\ fed' = fed /\ mft' = Tail(mft) /\ mft # <<>> /\ ~Publish
    BY <1>1, <1>7, EmptySeq DEF Pull, Lost, Publish
  <2>2. /\ Len(mft) >= 1 /\ DOMAIN mft' = 1 .. Len(mft) - 1
        /\ \A n \in 1 .. Len(mft) - 1 : mft'[n] = mft[n + 1]
        /\ Head(mft) = mft[1]
    BY <1>1, <2>1, HeadTailProperties, LenProperties
  <2>3. \/ cur' = cur /\ fpc' = fpc
        \/ cur'.au = mft[1] /\ cur'.then = fpc /\ fpc' \in {"full", "write"}
    BY <1>7, <2>2 DEF Pull, Lost
  <2>4. CASE cur' = cur /\ fpc' = fpc
    BY <1>1, <1>2, <2>1, <2>2, <2>4 DEF Flow, Held, Retrying
  <2>5. CASE cur'.au = mft[1] /\ cur'.then = fpc /\ fpc' \in {"full", "write"}
    BY <1>1, <1>2, <2>1, <2>2, <2>5 DEF Flow, Held, Retrying
  <2>6. QED
    BY <2>3, <2>4, <2>5
<1>8. CASE DropOldest \/ BeginWrite \/ NoMemory
  <2>1. UNCHANGED <<mft, fed>> /\ Held /\ fpc \in {"full", "write"} /\ ~Publish
    BY <1>8 DEF DropOldest, BeginWrite, NoMemory, Publish, Held
  <2>2. \/ cur' = cur /\ fpc' \in {"write", "publish"}
        \/ fpc' = cur.then
    BY <1>8 DEF DropOldest, BeginWrite, NoMemory
  <2>3. QED
    BY <1>1, <1>2, <2>1, <2>2 DEF Flow, Held, Retrying
<1>9. CASE Publish
  <2>1. /\ UNCHANGED <<mft, fed>> /\ Held /\ fpc' = cur.then
        /\ \A a \in Out' : a \in Out \/ a = 0 \/ a = cur.au
    BY <1>9, OutStep DEF Publish, Held
  <2>2. QED
    BY <1>1, <1>9, <2>1 DEF Flow, Held, Retrying, Publish
<1>10. QED
  BY <1>3, <1>4, <1>5, <1>6, <1>7, <1>8, <1>9 DEF Next, FeedStep, TakeStep

-----------------------------------------------------------------------------
(* The order of what waits, as long as no drop and pop overlapped.         *)

Kept(i) == i \in Index /\ Place(i) < Place(head)

Sorted ==
  ~raced =>
    /\ \A i \in Index : Kept(i) => ring[i] \in Frame
    /\ \A i, j \in Index : Kept(i) /\ Kept(j) /\ Place(i) < Place(j) => ring[i].au < ring[j].au
    /\ \A i \in Index, n \in DOMAIN handed :
         Kept(i) => handed[n] < ring[i].au \/ (Left = 1 /\ i = tail /\ handed[n] = ring[i].au)
    /\ tpc = "copy" =>
         /\ got \in Frame
         /\ \A n \in DOMAIN handed : handed[n] < got.au
         /\ \A i \in Index : Kept(i) => got.au < ring[i].au \/ (i = tail /\ got.au = ring[i].au)
    /\ \A i, j \in DOMAIN handed : i < j /\ handed[j] # 0 => handed[i] < handed[j]

LEMMA SortedInit == Init => Sorted
BY DEF Init, Sorted, Kept, Place, Index

\* The tail moves on: one frame less, the others in the same order.
LEMMA KeptShifts ==
  TypeOK /\ tail' = After(tail) /\ head' = head /\ head # tail =>
    /\ \A i \in Index : Kept(i)' => Kept(i) /\ i # tail
    /\ \A i, j \in Index : Kept(i)' /\ Kept(j)' /\ Place(i)' < Place(j)' => Place(i) < Place(j)
<1> SUFFICES ASSUME TypeOK, tail' = After(tail), head' = head, head # tail
             PROVE  /\ \A i \in Index : Kept(i)' => Kept(i) /\ i # tail
                    /\ \A i, j \in Index : Kept(i)' /\ Kept(j)' /\ Place(i)' < Place(j)' => Place(i) < Place(j)
  OBVIOUS
<1>1. head \in Index /\ tail \in Index
  BY DEF TypeOK
<1>2. \A i \in Index : Place(i)' = IF i = tail THEN RING - 1 ELSE Place(i) - 1
  BY PlaceMoves
<1>3. Place(head)' = Place(head) - 1
  <2>1. Place(head)' = IF tail' <= head THEN head - tail' ELSE head + RING - tail'
    BY DEF Place
  <2>2. QED
    BY <1>1, <2>1, AfterIs DEF Place, Index
<1>4. \A i \in Index : Place(i) \in 0 .. RING - 1
  BY PlaceProperties
<1>5. QED
  BY <1>1, <1>2, <1>3, <1>4 DEF Kept

LEMMA SortedStep == TypeOK /\ Spared /\ Flow /\ Sorted /\ [Next]_vars => Sorted'
<1> SUFFICES ASSUME TypeOK, Spared, Flow, Sorted, [Next]_vars, ~raced' PROVE Sorted'
  BY DEF Sorted
<1> USE DEF feedVars, takeVars
<1>1. /\ head \in Index /\ tail \in Index /\ idx \in Index
      /\ handed \in Seq(0 .. MaxAu) /\ Len(handed) \in Nat /\ DOMAIN handed = 1 .. Len(handed)
      /\ \A n \in DOMAIN handed : handed[n] \in Nat
      /\ \A i \in Index : ring[i] \in Frame => ring[i].au \in Nat /\ ring[i].au > 0
      /\ got \in Frame => got.au \in Nat /\ got.au > 0
      /\ \A i \in Index : Place(i) \in Nat
  BY LenProperties, ElementOfSeq, PlaceProperties DEF TypeOK, Frame, Au
<1>2. CASE UNCHANGED <<head, tail, ring, tpc, got, handed>> /\ ~raced
  BY <1>2 DEF Sorted, Kept, Place, Left
<1>3. CASE Close
  BY <1>3 DEF Close, Sorted, Kept, Place, Index
<1>4. CASE DropOldest
  <2>1. ~raced /\ tail' = After(tail) /\ UNCHANGED <<head, ring, tpc, got, handed>> /\ head # tail
    BY <1>1, <1>4, AfterProperties DEF DropOldest, Spared
  <2>2. Left' = Left
    BY <2>1 DEF Left
  <2>3. QED
    BY <1>1, <2>1, <2>2, KeptShifts DEF Sorted
<1>5. CASE BeginWrite
  <2>1. ~raced /\ UNCHANGED <<head, tail, tpc, got, handed>> /\ \A i \in Index : i # head => ring'[i] = ring[i]
    BY <1>5 DEF BeginWrite, TypeOK
  <2>2. Left' = Left /\ \A i \in Index : Place(i)' = Place(i) /\ (Kept(i)' => Kept(i) /\ i # head)
    BY <1>1, <2>1 DEF Left, Place, Kept
  <2>3. QED
    BY <1>1, <2>1, <2>2 DEF Sorted
<1>6. CASE Publish
  <2>1. /\ ~raced /\ UNCHANGED <<tail, tpc, got, handed>> /\ head' = After(head) /\ After(head) # tail
        /\ ring' = [ring EXCEPT ![head] = [au |-> cur.au, pts |-> cur.pts]]
        /\ cur \in Pulled
    BY <1>6 DEF Publish, Spared, Carrying, TypeOK
  <2>2. /\ ring'[head] \in Frame /\ ring'[head].au = cur.au
        /\ \A i \in Index : i # head => ring'[i] = ring[i]
    BY <1>1, <2>1 DEF TypeOK, Pulled, Frame
  <2>3. \A i \in Index : Place(i)' = Place(i)
    BY <2>1 DEF Place
  <2>4. Place(head)' = Place(head) + 1
    <3>1. Place(head)' = Place(After(head))
      BY <2>1 DEF Place
    <3>2. QED
      BY <1>1, <2>1, <3>1, PlaceProperties
  <2>5. Left' = Left /\ \A i \in Index : Kept(i)' => Kept(i) \/ i = head
    BY <1>1, <2>1, <2>3, <2>4, PlaceProperties DEF Left, Kept
  <2>6. \A i \in Index : Kept(i) => i # head
    BY <1>1 DEF Kept
  <2>7. \A i \in Index : Kept(i)' => Place(i) <= Place(head)
    BY <1>1, <2>3, <2>4 DEF Kept
  <2>8. /\ \A n \in DOMAIN handed : handed[n] < cur.au
        /\ \A i \in Index : Kept(i) => ring[i].au < cur.au
        /\ tpc = "copy" => got.au < cur.au
    <3>1. \A a \in Out : a < cur.au
      BY <1>6 DEF Flow, Held, Publish
    <3>2. \A i \in Index : Kept(i) => ring[i] # NoFrame
      BY <2>1 DEF Sorted, Frame, NoFrame
    <3>3. tpc = "copy" => got # NoFrame
      BY DEF TypeOK
    <3>4. QED
      BY <3>1, <3>2, <3>3 DEF Out
  <2>9. QED
    BY <1>1, <2>1, <2>2, <2>3, <2>5, <2>6, <2>7, <2>8 DEF Sorted
<1>7. CASE Peek
  <2>1. /\ ~raced /\ UNCHANGED <<head, tail, ring, handed>> /\ tpc = "idle" /\ tpc' = "copy"
        /\ got' = ring[tail] /\ head # tail
    BY <1>7 DEF Peek, Empty
  <2>2. /\ Left = 0 /\ Left' = 0 /\ Kept(tail)
        /\ \A i \in Index : Place(i)' = Place(i) /\ (Kept(i)' <=> Kept(i))
        /\ \A i \in Index : i # tail => Place(tail) < Place(i)
    BY <1>1, <2>1, PlaceProperties DEF Left, Place, Kept
  <2>3. QED
    BY <1>1, <2>1, <2>2 DEF Sorted
<1>8. CASE Copied
  <2>1. /\ ~raced /\ UNCHANGED <<head, tail, ring, got>> /\ tpc = "copy" /\ tpc' = "pop"
        /\ got \in Frame
    BY <1>8 DEF Copied, Sorted
  <2>2. PICK v : handed' = Append(handed, v) /\ v \in {0, got.au}
    BY <1>8 DEF Copied
  <2>3. /\ DOMAIN handed' = 1 .. Len(handed) + 1
        /\ \A n \in 1 .. Len(handed) : handed'[n] = handed[n]
        /\ handed'[Len(handed) + 1] = v
    BY <1>1, <2>2
  <2>4. Left = 0 /\ Left' = 1 /\ \A i \in Index : Place(i)' = Place(i) /\ (Kept(i)' <=> Kept(i))
    BY <2>1 DEF Left, Place, Kept
  <2>5. QED
    BY <1>1, <2>1, <2>2, <2>3, <2>4 DEF Sorted
<1>9. CASE PopTest
  <2>1. /\ UNCHANGED <<head, tail, ring, got, handed>> /\ tpc = "pop" /\ tpc' \in {"idle", "store"}
        /\ tpc' = "idle" => head = tail
    BY <1>9 DEF PopTest, Empty
  <2>2. ~raced
    BY <1>9, Zenon DEF PopTest
  <2>3. \A i \in Index : Place(i)' = Place(i) /\ (Kept(i)' <=> Kept(i)) /\ (Kept(i) => head # tail)
    BY <1>1, <2>1, PlaceProperties DEF Place, Kept
  <2>4. Left = 1 /\ (tpc' # "idle" => Left' = 1)
    BY <2>1 DEF Left
  <2>5. QED
    BY <1>1, <2>1, <2>2, <2>3, <2>4 DEF Sorted
<1>10. CASE PopStore
  <2>1. ~raced /\ tail' = After(tail) /\ UNCHANGED <<head, ring, handed>> /\ head # tail /\ tpc' = "idle"
    BY <1>10 DEF PopStore, Spared
  <2>2. QED
    BY <1>1, <2>1, KeptShifts DEF Sorted
<1>11. CASE Pull
  <2>1. ~raced
    BY <1>11, Zenon DEF Pull
  <2>2. QED
    BY <1>2, <1>11, <2>1 DEF Pull
<1>12. QED
  BY <1>2, <1>3, <1>4, <1>5, <1>6, <1>7, <1>8, <1>9, <1>10, <1>11
     DEF vars, Next, FeedStep, TakeStep, Open, Feed, FeedFails, DrainEnds, Lost, NoMemory

\* Whatever the ring drops, each picture the title gets whole is newer than all
\* it got before, as long as no drop and pop had the tail loaded together.
THEOREM NeverBackwards == Spec => []OrderWithoutRace
<1>1. Sorted => OrderWithoutRace
  BY DEF Sorted, OrderWithoutRace
<1>2. QED
  BY <1>1, TypeInit, TypeStep, SparedInit, SparedStep, FlowInit, FlowStep, SortedInit, SortedStep, PTL DEF Spec

-----------------------------------------------------------------------------
(* Calls that do not overlap: the ring is a queue of the newest frames.    *)

Turns ==
  ~overlap =>
    /\ fpc = "idle" \/ tpc = "idle"
    /\ ~raced
    /\ tpc # "idle" => head # tail
    /\ tpc = "copy" => ~torn /\ idx = tail /\ got = ring[tail]
    /\ Carrying => After(head) # tail

LEMMA TurnsInit == Init => Turns
BY DEF Init, Turns, Carrying

LEMMA TurnsStep == TypeOK /\ Spared /\ Turns /\ [Next]_vars => Turns'
<1> SUFFICES ASSUME TypeOK, Spared, Turns, [Next]_vars, ~overlap' PROVE Turns'
  BY DEF Turns
<1> USE DEF feedVars, takeVars
<1>1. ~overlap /\ ~raced /\ (fpc = "idle" \/ tpc = "idle")
  BY DEF Turns, vars, Next, FeedStep, TakeStep, Open, Close, Feed, FeedFails, DrainEnds, Pull, Lost,
         DropOldest, BeginWrite, NoMemory, Publish, Peek, Copied, PopTest, PopStore
<1>2. CASE UNCHANGED vars \/ Open
  <2>1. UNCHANGED <<fpc, tpc, raced, head, tail, torn, idx, got, ring>>
    BY <1>2 DEF vars, Open
  <2>2. (~raced)' /\ ((tpc = "copy") => ~torn)'
    BY <1>1, <2>1, Zenon DEF Turns
  <2>3. QED
    BY <1>1, <2>1, <2>2 DEF Turns, Carrying, After
<1>3. CASE Close
  BY <1>3 DEF Close, Turns, Carrying
<1>4. CASE Feed \/ FeedFails \/ DrainEnds \/ Pull \/ Lost \/ DropOldest \/ BeginWrite \/ NoMemory \/ Publish
  <2>1. tpc = "idle" /\ tpc' = "idle"
    BY <1>1, <1>4 DEF Feed, FeedFails, DrainEnds, Pull, Lost, DropOldest, BeginWrite, NoMemory, Publish
  <2>2. ~raced'
    BY <1>1, <1>4, <2>1, Zenon
       DEF Feed, FeedFails, DrainEnds, Pull, Lost, DropOldest, BeginWrite, NoMemory, Publish
  <2>3. fpc' \in {"write", "publish"} => After(head') # tail'
    BY <1>1, <1>4, AfterProperties
       DEF Feed, FeedFails, DrainEnds, Pull, Lost, DropOldest, BeginWrite, NoMemory, Publish, Turns, Spared,
           Carrying, TypeOK, Pulled, Full
  <2>4. QED
    BY <2>1, <2>2, <2>3 DEF Turns, Carrying, After
<1>5. CASE Peek
  <2>1. /\ fpc = "idle" /\ fpc' = "idle" /\ UNCHANGED <<raced, head, tail, ring>> /\ head # tail
        /\ idx' = tail /\ got' = ring[tail] /\ torn' = FALSE
    BY <1>1, <1>5 DEF Peek, Empty
  <2>2. QED
    BY <1>1, <2>1 DEF Turns, Carrying
<1>6. CASE Copied \/ PopTest \/ PopStore
  <2>1. /\ fpc = "idle" /\ fpc' = "idle" /\ head' = head /\ tpc' # "copy"
        /\ tpc' # "idle" => head # tail /\ tail' = tail
    BY <1>1, <1>6 DEF Copied, PopTest, PopStore, Turns, Empty
  <2>2. ~raced'
    BY <1>1, <1>6, <2>1, Zenon DEF Copied, PopTest, PopStore
  <2>3. QED
    BY <2>1, <2>2 DEF Turns, Carrying
<1>7. QED
  BY <1>2, <1>3, <1>4, <1>5, <1>6 DEF Next, FeedStep, TakeStep

\* The slot k behind the tail.
At(k) == IF tail + k < RING THEN tail + k ELSE tail + k - RING

LEMMA AtProperties ==
  TypeOK => /\ \A k \in 0 .. RING - 1 : At(k) \in Index /\ Place(At(k)) = k
            /\ \A k \in 0 .. RING - 1 : (tail + k) % RING = At(k)
            /\ Pending = Place(head)
            /\ At(0) = tail /\ At(Place(head)) = head
<1> SUFFICES ASSUME TypeOK
             PROVE  /\ \A k \in 0 .. RING - 1 : At(k) \in Index /\ Place(At(k)) = k
                    /\ \A k \in 0 .. RING - 1 : (tail + k) % RING = At(k)
                    /\ Pending = Place(head)
                    /\ At(0) = tail /\ At(Place(head)) = head
  OBVIOUS
<1>1. tail \in 0 .. RING - 1 /\ head \in 0 .. RING - 1
  BY DEF TypeOK, Index
<1>2. ASSUME NEW r \in Nat, r > 0, NEW x \in Nat, x < r PROVE x % r = x
  BY <1>2
<1>3. ASSUME NEW r \in Nat, r > 0, NEW x \in Nat, x >= r, x < r + r PROVE x % r = x - r
  BY <1>3
<1>4. \A x \in Nat : x < RING + RING => x % RING = IF x < RING THEN x ELSE x - RING
  BY <1>2, <1>3
<1>5. \A k \in 0 .. RING - 1 : (tail + k) % RING = At(k)
  BY <1>1, <1>4 DEF At
<1>6. Pending = Place(head)
  BY <1>1, <1>4 DEF Pending, Place
<1>7. QED
  BY <1>1, <1>5, <1>6 DEF At, Place, Index

\* The queue the ring stands for, slot by slot.
QueueSize == Place(head) - Left
Slot(n) == At(Left + n - 1)

QueueSlots ==
  /\ Queued \in Seq(Au) /\ Len(Queued) = QueueSize /\ DOMAIN Queued = 1 .. QueueSize
  /\ \A n \in 1 .. QueueSize :
       Left + n - 1 \in 0 .. RING - 1 /\ Queued[n] = ring[Slot(n)].au
  /\ Place(head) \in 0 .. RING - 1 /\ Left \in 0 .. 1 /\ QueueSize \in Nat

LEMMA QueuedIs == TypeOK /\ Turns /\ Sorted /\ ~overlap => QueueSlots
<1> SUFFICES ASSUME TypeOK, Turns, Sorted, ~overlap PROVE QueueSlots
  OBVIOUS
<1>1. head \in Index /\ tail \in Index /\ Place(head) \in 0 .. RING - 1 /\ (head # tail => Place(head) > 0)
  BY PlaceProperties DEF TypeOK
<1>2. Left \in 0 .. 1 /\ Left <= Place(head)
  BY <1>1 DEF Left, Turns
<1>3. ASSUME NEW n \in 1 .. Place(head) - Left
      PROVE  /\ Left + n - 1 \in 0 .. RING - 1
             /\ (tail + Left + n - 1) % RING = At(Left + n - 1)
             /\ ring[At(Left + n - 1)].au \in Au
  <2>1. Left + n - 1 \in 0 .. RING - 1 /\ Left + n - 1 < Place(head)
    BY <1>1, <1>2
  <2>2. tail + Left + n - 1 = tail + (Left + n - 1)
    BY <1>1, <1>2 DEF Index
  <2>3. ring[At(Left + n - 1)] \in Frame
    BY <2>1, AtProperties DEF Sorted, Turns, Kept
  <2>4. QED
    BY <2>1, <2>2, <2>3, AtProperties DEF Frame
<1>4. Queued = [n \in 1 .. Place(head) - Left |-> ring[(tail + Left + n - 1) % RING].au]
  BY AtProperties DEF Queued
<1>5. \A n \in 1 .. Place(head) - Left : Queued[n] = ring[At(Left + n - 1)].au /\ Queued[n] \in Au
  BY <1>3, <1>4
<1>6. Queued \in [1 .. Place(head) - Left -> Au] /\ Place(head) - Left \in Nat
  BY <1>1, <1>2, <1>4, <1>5
<1>7. QED
  BY <1>1, <1>2, <1>3, <1>5, <1>6, LenProperties DEF QueueSlots, QueueSize, Slot


\* The slots behind the tail, when it stays and when it moves on.
LEMMA SlotMoves ==
  TypeOK /\ Left \in 0 .. 1 /\ Left' \in 0 .. 1 =>
    \A n \in 1 .. RING - 1 :
      /\ tail' = tail /\ Left' = Left => Slot(n)' = Slot(n)
      /\ tail' = tail /\ Left' = Left + 1 => Slot(n)' = Slot(n + 1)
      /\ tail' = After(tail) /\ Left' = Left /\ n < RING - 1 => Slot(n)' = Slot(n + 1)
      /\ tail' = After(tail) /\ Left' = Left - 1 /\ n < RING - 1 => Slot(n)' = Slot(n)
<1> SUFFICES ASSUME TypeOK, Left \in 0 .. 1, Left' \in 0 .. 1, NEW n \in 1 .. RING - 1
             PROVE  /\ tail' = tail /\ Left' = Left => Slot(n)' = Slot(n)
                    /\ tail' = tail /\ Left' = Left + 1 => Slot(n)' = Slot(n + 1)
                    /\ tail' = After(tail) /\ Left' = Left /\ n < RING - 1 => Slot(n)' = Slot(n + 1)
                    /\ tail' = After(tail) /\ Left' = Left - 1 /\ n < RING - 1 => Slot(n)' = Slot(n)
  OBVIOUS
<1>1. tail \in 0 .. RING - 1 /\ After(tail) = IF tail = RING - 1 THEN 0 ELSE tail + 1
  BY AfterIs DEF TypeOK, Index
<1>2. Slot(n)' = IF tail' + (Left' + n - 1) < RING THEN tail' + (Left' + n - 1) ELSE tail' + (Left' + n - 1) - RING
  BY DEF Slot, At
<1>3. \A m \in Nat : Slot(m) = IF tail + (Left + m - 1) < RING THEN tail + (Left + m - 1) ELSE tail + (Left + m - 1) - RING
  BY DEF Slot, At
<1>4. QED
  BY <1>1, <1>2, <1>3

LEMMA QueueInit == Init /\ TypeOK => Queue!Init
<1> SUFFICES ASSUME Init, TypeOK PROVE Queue!Init
  OBVIOUS
<1>1. Pending = 0 /\ Left = 0
  BY AtProperties DEF Init, Place, Left
<1>2. Queued = [n \in 1 .. 0 |-> ring[(tail + Left + n - 1) % RING].au]
  BY <1>1 DEF Queued
<1>3. QED
  BY <1>2 DEF Queue!Init, Init

LEMMA QueueStep ==
  ASSUME TypeOK, TypeOK', Turns, Turns', Sorted, Sorted', Spared, ~overlap, [Next]_vars
  PROVE  Queue!Next \/ UNCHANGED Queue!specVars
<1> USE DEF feedVars, takeVars
<1>1. ~overlap'
  BY DEF vars, Next, FeedStep, TakeStep, Open, Close, Feed, FeedFails, DrainEnds, Pull, Lost,
         DropOldest, BeginWrite, NoMemory, Publish, Peek, Copied, PopTest, PopStore
<1>2. QueueSlots
  BY QueuedIs
<1>3. QueueSlots'
  <2>1. (TypeOK /\ Turns /\ Sorted /\ ~overlap)' => QueueSlots'
    BY QueuedIs, PTL
  <2>2. QED
    BY <1>1, <2>1
<1>4. head \in Index /\ tail \in Index
  BY DEF TypeOK
<1>5. CASE UNCHANGED <<head, tail, ring, handed>> /\ Left' = Left
  <2>1. Queued' = Queued
    BY <1>5 DEF Queued, Pending
  <2>2. QED
    BY <1>5, <2>1 DEF Queue!specVars
<1>6. CASE Close
  <2>1. head' = 0 /\ tail' = 0 /\ handed' = <<>>
    BY <1>6 DEF Close
  <2>2. QueueSize' = 0
    <3>1. Place(head)' = 0 /\ Left' = 0
      BY <1>6, <2>1 DEF Place, Left, Close
    <3>2. QED
      BY <3>1 DEF QueueSize
  <2>3. Queued' = <<>>
    BY <1>3, <2>2, EmptySeq DEF QueueSlots
  <2>4. QED
    BY <2>1, <2>3 DEF Queue!Next, Queue!Reset
<1>7. CASE DropOldest
  <2>1. /\ tail' = After(tail) /\ After(head) = tail /\ Left = 0 /\ Left' = 0
        /\ UNCHANGED <<head, ring, handed>> /\ head # tail
    BY <1>4, <1>7, AfterProperties DEF DropOldest, Spared, Turns, Left
  <2>2. Place(head) = RING - 1 /\ Place(head)' = RING - 2
    <3>1. Place(head) = RING - 1
      BY <1>4, <2>1, AfterIs DEF Place, Index
    <3>2. Place(head)' = IF After(tail) <= head THEN head - After(tail) ELSE head + RING - After(tail)
      BY <2>1 DEF Place
    <3>3. QED
      BY <1>4, <2>1, <3>1, <3>2, AfterIs DEF Index
  <2>3. QueueSize = RING - 1 /\ QueueSize' = RING - 2
    BY <2>1, <2>2 DEF QueueSize
  <2>4. ASSUME NEW n \in 1 .. RING - 2 PROVE Queued'[n] = Queued[n + 1]
    <3>1. Slot(n)' = Slot(n + 1)
      <4>1. n \in 1 .. RING - 1 /\ n < RING - 1 /\ Left' = Left /\ Left \in 0 .. 1
        BY <2>1
      <4>2. QED
        BY <2>1, <4>1, SlotMoves
    <3>2. Queued'[n] = ring'[Slot(n)'].au
      BY <1>3, <2>3 DEF QueueSlots
    <3>3. Queued[n + 1] = ring[Slot(n + 1)].au
      BY <1>2, <2>3 DEF QueueSlots
    <3>4. QED
      BY <2>1, <3>1, <3>2, <3>3
  <2>5. Queued' = Tail(Queued)
    <3>1. Queued # <<>> /\ Queued \in Seq(Au) /\ Queued' \in Seq(Au) /\ Len(Queued) = RING - 1 /\ Len(Queued') = RING - 2
      BY <1>2, <1>3, <2>3 DEF QueueSlots
    <3>2. QED
      BY <2>4, <3>1, HeadTailProperties, SeqEqual
  <2>6. Len(Queued) = RING - 1
    BY <1>2, <2>3 DEF QueueSlots
  <2>7. QED
    BY <2>1, <2>5, <2>6 DEF Queue!Next, Queue!DropOldest
<1>8. CASE BeginWrite
  <2>1. UNCHANGED <<head, tail, handed>> /\ Left' = Left /\ \A i \in Index : i # head => ring'[i] = ring[i]
    BY <1>8 DEF BeginWrite, TypeOK, Left
  <2>2. Place(head)' = Place(head)
    BY <2>1 DEF Place
  <2>3. QueueSize' = QueueSize
    BY <2>1, <2>2 DEF QueueSize
  <2>4. ASSUME NEW n \in 1 .. QueueSize PROVE Queued'[n] = Queued[n]
    <3>1. Left + n - 1 \in 0 .. RING - 1 /\ Left + n - 1 < Place(head) /\ n \in 1 .. RING - 1
      BY <1>2 DEF QueueSlots, QueueSize
    <3>2. Slot(n) \in Index /\ Slot(n) # head
      BY <3>1, <1>2, AtProperties DEF QueueSlots, Slot
    <3>3. Slot(n)' = Slot(n)
      <4>1. Left \in 0 .. 1 /\ Left' \in 0 .. 1 /\ tail' = tail
        BY <1>2, <2>1 DEF QueueSlots
      <4>2. QED
        BY <2>1, <3>1, <4>1, SlotMoves
    <3>4. QED
      BY <1>2, <1>3, <2>1, <2>3, <3>2, <3>3 DEF QueueSlots
  <2>5. Queued' = Queued
    BY <1>2, <1>3, <2>3, <2>4, SeqEqual DEF QueueSlots
  <2>6. QED
    BY <2>1, <2>5 DEF Queue!specVars
<1>9. CASE Publish
  <2>1. /\ head' = After(head) /\ After(head) # tail /\ UNCHANGED <<tail, handed>>
        /\ Left = 0 /\ Left' = 0 /\ cur.au \in Au
        /\ ring' = [ring EXCEPT ![head] = [au |-> cur.au, pts |-> cur.pts]]
    BY <1>9 DEF Publish, Turns, Carrying, Left, TypeOK, Pulled
  <2>2. ring'[head].au = cur.au /\ \A i \in Index : i # head => ring'[i] = ring[i]
    BY <1>4, <2>1 DEF TypeOK
  <2>3. Place(head)' = Place(head) + 1
    <3>1. Place(head)' = Place(After(head))
      BY <2>1 DEF Place
    <3>2. QED
      BY <1>4, <2>1, <3>1, PlaceProperties
  <2>4. QueueSize = Place(head) /\ QueueSize' = Place(head) + 1 /\ Place(head) + 1 \in 1 .. RING - 1
    BY <1>2, <1>3, <2>1, <2>3 DEF QueueSize, QueueSlots
  <2>5. ASSUME NEW n \in 1 .. Place(head) + 1 PROVE Queued'[n] = IF n = Place(head) + 1 THEN cur.au ELSE Queued[n]
    <3>1. Slot(n)' = Slot(n) /\ n \in 1 .. RING - 1
      <4>1. n \in 1 .. RING - 1 /\ tail' = tail /\ Left' = Left /\ Left \in 0 .. 1
        BY <2>1, <2>4
      <4>2. QED
        BY <2>1, <4>1, SlotMoves
    <3>2. Queued'[n] = ring'[Slot(n)].au
      BY <1>3, <2>4, <3>1 DEF QueueSlots
    <3>3. Slot(n) \in Index /\ (Slot(n) = head <=> n = Place(head) + 1)
      <4>1. Slot(n) = At(n - 1) /\ At(n - 1) \in Index /\ Place(At(n - 1)) = n - 1
        BY <2>1, <3>1, AtProperties DEF Slot
      <4>2. Slot(n) = head => n = Place(head) + 1
        BY <4>1, <3>1
      <4>3. n = Place(head) + 1 => Slot(n) = head
        <5> SUFFICES ASSUME n = Place(head) + 1 PROVE Slot(n) = head
          OBVIOUS
        <5>1. n - 1 = Place(head)
          BY <1>2 DEF QueueSlots
        <5>2. At(n - 1) = At(Place(head)) /\ At(Place(head)) = head
          BY <5>1, AtProperties
        <5>3. QED
          BY <4>1, <5>2
      <4>4. QED
        BY <4>1, <4>2, <4>3
    <3>4. n # Place(head) + 1 => Queued[n] = ring[Slot(n)].au
      BY <1>2, <2>4 DEF QueueSlots
    <3>5. QED
      BY <2>2, <3>2, <3>3, <3>4
  <2>6. /\ Queued \in Seq(Au) /\ Len(Queued) = Place(head)
        /\ Queued' \in Seq(Au) /\ Len(Queued') = Place(head) + 1
    BY <1>2, <1>3, <2>4 DEF QueueSlots
  <2>7. Queued' = Append(Queued, cur.au)
    <3>1. /\ Append(Queued, cur.au) \in Seq(Au) /\ Len(Append(Queued, cur.au)) = Len(Queued) + 1
          /\ \A n \in 1 .. Len(Queued) : Append(Queued, cur.au)[n] = Queued[n]
          /\ Append(Queued, cur.au)[Len(Queued) + 1] = cur.au
      BY <2>1, <2>6, AppendProperties
    <3>2. \A n \in 1 .. Len(Queued') : Queued'[n] = Append(Queued, cur.au)[n]
      BY <2>4, <2>5, <2>6, <3>1
    <3>3. QED
      BY <2>6, <3>1, <3>2, SeqEqual
  <2>8. QED
    BY <2>1, <2>4, <2>6, <2>7 DEF Queue!Next, Queue!Put
<1>10. CASE Copied
  <2>1. /\ UNCHANGED <<head, tail, ring>> /\ Left = 0 /\ Left' = 1 /\ head # tail
        /\ handed' = Append(handed, ring[tail].au)
    BY <1>10 DEF Copied, Turns, Left
  <2>2. Place(head)' = Place(head)
    BY <2>1 DEF Place
  <2>3. /\ QueueSize = Place(head) /\ QueueSize' = Place(head) - 1
        /\ Place(head) \in 1 .. RING - 1
    BY <1>2, <1>4, <2>1, <2>2, PlaceProperties DEF QueueSize, QueueSlots
  <2>4. ASSUME NEW n \in 1 .. Place(head) - 1 PROVE Queued'[n] = Queued[n + 1]
    <3>1. Slot(n)' = Slot(n + 1)
      BY <2>1, <2>3, SlotMoves
    <3>2. Queued'[n] = ring'[Slot(n)'].au
      BY <1>3, <2>3 DEF QueueSlots
    <3>3. Queued[n + 1] = ring[Slot(n + 1)].au
      BY <1>2, <2>3 DEF QueueSlots
    <3>4. QED
      BY <2>1, <3>1, <3>2, <3>3
  <2>5. /\ Queued \in Seq(Au) /\ Len(Queued) = Place(head) /\ Queued # <<>>
        /\ Queued' \in Seq(Au) /\ Len(Queued') = Place(head) - 1
    BY <1>2, <1>3, <2>3 DEF QueueSlots
  <2>6. Queued' = Tail(Queued)
    BY <2>4, <2>5, HeadTailProperties, SeqEqual
  <2>7. Head(Queued) = ring[tail].au
    <3>1. Queued[1] = ring[Slot(1)].au
      BY <1>2, <2>3 DEF QueueSlots
    <3>2. Slot(1) = tail
      BY <2>1, AtProperties DEF Slot
    <3>3. QED
      BY <2>5, <3>1, <3>2
  <2>8. QED
    BY <2>1, <2>5, <2>6, <2>7 DEF Queue!Next, Queue!Take
<1>11. CASE PopStore
  <2>1. /\ tail' = After(tail) /\ UNCHANGED <<head, ring, handed>> /\ head # tail /\ Left = 1 /\ Left' = 0
    BY <1>11 DEF PopStore, Spared, Turns, Left
  <2>2. Place(head)' = Place(head) - 1 /\ Place(head) \in 1 .. RING - 1
    <3>1. Place(head)' = IF After(tail) <= head THEN head - After(tail) ELSE head + RING - After(tail)
      BY <2>1 DEF Place
    <3>2. QED
      BY <1>4, <2>1, <3>1, AfterIs DEF Place, Index
  <2>3. QueueSize' = QueueSize /\ QueueSize = Place(head) - 1
    BY <2>1, <2>2 DEF QueueSize
  <2>4. ASSUME NEW n \in 1 .. QueueSize PROVE Queued'[n] = Queued[n]
    <3>1. Slot(n)' = Slot(n)
      BY <2>1, <2>2, <2>3, SlotMoves
    <3>2. QED
      BY <1>2, <1>3, <2>1, <2>3, <3>1 DEF QueueSlots
  <2>5. Queued' = Queued
    BY <1>2, <1>3, <2>3, <2>4, SeqEqual DEF QueueSlots
  <2>6. QED
    BY <2>1, <2>5 DEF Queue!specVars
<1>12. CASE PopTest
  <2>1. UNCHANGED <<head, tail, ring, handed>> /\ tpc = "pop" /\ tpc' = "store"
    BY <1>12 DEF PopTest, Turns, Empty
  <2>2. QED
    BY <1>5, <2>1 DEF Left
<1>13. CASE Peek
  BY <1>5, <1>13 DEF Peek, Left
<1>14. CASE UNCHANGED vars \/ Open \/ Feed \/ FeedFails \/ DrainEnds \/ Pull \/ Lost \/ NoMemory
  BY <1>5, <1>14 DEF vars, Open, Feed, FeedFails, DrainEnds, Pull, Lost, NoMemory, Left
<1>15. QED
  BY <1>6, <1>7, <1>8, <1>9, <1>10, <1>11, <1>12, <1>13, <1>14 DEF Next, FeedStep, TakeStep

\* With calls that take turns, every step of the ring is a step of the queue
\* of the RING - 1 newest frames: a frame is lost only to a full ring, and it is
\* the oldest; what the title gets is what was put in, in order.
THEOREM ImplementsQueue == Spec => IsFrameQueue
<1>1. Init => (~overlap => Queue!Init)
  BY TypeInit, QueueInit
<1>2. TypeOK /\ TypeOK' /\ Turns /\ Turns' /\ Sorted /\ Sorted' /\ Spared /\ [Next]_vars
        => [~overlap => Queue!Next]_(Queue!specVars)
  BY QueueStep
<1>3. QED
  BY <1>1, <1>2, TypeInit, TypeStep, SparedInit, SparedStep, FlowInit, FlowStep, SortedInit, SortedStep,
     TurnsInit, TurnsStep, PTL DEF Spec, IsFrameQueue
=============================================================================
