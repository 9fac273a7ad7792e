---------------------------- MODULE VideoDecoder ----------------------------
(***************************************************************************)
(* cellVdec of vdec_hle.cpp over the frame ring of vdec_mf.cpp: handles,   *)
(* sequences, the message callback and the pictures the title fetches.     *)
(*                                                                         *)
(* A handle is its slot.  The callback is guest code run in the middle of  *)
(* cellVdecDecodeAu and cellVdecEndSeq: while it runs every other call may *)
(* be made, from inside it or from another thread, except the two that run *)
(* callbacks: the title's stream makes those one at a time.  A call given  *)
(* a handle of no slot, or of a slot not in use, returns an error and      *)
(* changes nothing.  The ring is the queue FrameRing shows it to be when   *)
(* the calls into it do not overlap.  Access units are numbered as they    *)
(* are decoded.                                                            *)
(***************************************************************************)
EXTENDS Naturals, Sequences, SequencesExt

CONSTANTS
  SLOTS,        \* MAX_SLOTS, decoders open at once (4)
  RING,         \* slots of the frame ring (8)
  Delay,        \* access units the MFT keeps before it gives a frame
  MayFail,      \* whether the calls into Media Foundation may fail
  CloseInCall,  \* whether the title closes a decoder during a call on it
  MaxAu,        \* bound of the model: access units
  MaxOpen       \* bound of the model: openings

ASSUME VideoAssumption ==
  /\ SLOTS \in Nat \ {0} /\ RING \in Nat /\ RING >= 2 /\ Delay \in Nat
  /\ {MayFail, CloseInCall} \subseteq BOOLEAN
  /\ MaxAu \in Nat /\ MaxOpen \in Nat

Slot == 0 .. SLOTS - 1
Au   == 1 .. MaxAu
NoAu == 0

VARIABLES
  in_use, seq, cb, scratch, pic,  \* the fields of g_slot the calls read
  mf,        \* vdec_mf.cpp's slot: open, units in the MFT, frames in the ring
  stage,     \* the callback a call on the decoder is in
  auOf,      \* the unit that call decodes
  told,      \* the pictures in the ring when PICOUT was last sent (history)
  raced,     \* it was opened as a call on the last decoder was to store (history)
  item,      \* the unit the decoder's last pic item described
  decoded,   \* units given to DecodeAu so far
  openings,  \* OpenEx calls that succeeded so far
  fed, got   \* units decoded, pictures fetched since the slot was opened (history)

slotVars == <<in_use, seq, cb, scratch, pic>>
callVars == <<stage, auOf, told, raced>>
histVars == <<decoded, openings, fed, got>>
vars == <<slotVars, mf, callVars, item, histVars>>

Closed == [open |-> FALSE, mft |-> <<>>, ring |-> <<>>]

Init ==
  /\ in_use = [h \in Slot |-> FALSE]
  /\ seq = [h \in Slot |-> FALSE]
  /\ cb = [h \in Slot |-> FALSE]
  /\ scratch = [h \in Slot |-> FALSE]
  /\ pic = [h \in Slot |-> NoAu]
  /\ mf = [h \in Slot |-> Closed]
  /\ stage = [h \in Slot |-> "none"]
  /\ auOf = [h \in Slot |-> NoAu]
  /\ told = [h \in Slot |-> {}]
  /\ raced = [h \in Slot |-> FALSE]
  /\ item = [h \in Slot |-> NoAu]
  /\ decoded = 0 /\ openings = 0
  /\ fed = [h \in Slot |-> <<>>]
  /\ got = [h \in Slot |-> <<>>]

-----------------------------------------------------------------------------
(* vdec_mf.cpp, a call at a time.                                          *)

\* tm_vdec_open leaves a slot that is open alone.
Opened(m, ok) == IF m.open \/ ~ok THEN m ELSE [Closed EXCEPT !.open = TRUE]

\* The RING - 1 newest frames stay.
Newest(frames) ==
  IF Len(frames) < RING THEN frames
  ELSE SubSeq(frames, Len(frames) - RING + 2, Len(frames))

\* What the MFT holds once it was given the unit; it may not get it.
Units(m, au) == {Append(m.mft, au)} \cup IF MayFail THEN {m.mft} ELSE {}

\* How many frames a feed pulls: all that are ready, fewer if a pull fails.
FramesGiven(units) ==
  LET ready == IF Len(units) > Delay THEN Len(units) - Delay ELSE 0
  IN  IF MayFail THEN 0 .. ready ELSE {ready}

\* Which of some frames get through: their places, in order.
Picks(len) ==
  {at \in UNION {[1 .. n -> 1 .. len] : n \in 0 .. len} :
     \A i, j \in DOMAIN at : i < j => at[i] < at[j]}

\* A frame that cannot be mapped or converted is not pushed.
Kept(frames) ==
  IF MayFail THEN {[i \in DOMAIN at |-> frames[at[i]]] : at \in Picks(Len(frames))}
  ELSE {frames}

\* The rings that pushing the frames may leave.  A push that finds no memory has
\* dropped the oldest frame of a full ring: that shows if no push follows it.
Rings(frames, lastLost) ==
  {Newest(frames)} \cup
    IF lastLost /\ Len(frames) >= RING - 1 THEN {Tail(Newest(frames))} ELSE {}

\* tm_vdec_feed on a decoder that is open.
FeedUnit(h, au) ==
  \E units \in Units(mf[h], au) : \E n \in FramesGiven(units) :
    \E kept \in Kept(SubSeq(units, 1, n)) :
      LET lastLost == Len(kept) < n /\ (kept = <<>> \/ Last(kept) # units[n])
      IN  \E ring \in Rings(mf[h].ring \o kept, lastLost) :
            mf' = [mf EXCEPT ![h].mft = SubSeq(units, n + 1, Len(units)),
                             ![h].ring = ring]

Pending(h) == IF mf[h].open THEN Len(mf[h].ring) ELSE 0

-----------------------------------------------------------------------------
Free == {h \in Slot : ~in_use[h]}
FirstFree(h) == h \in Free /\ \A g \in Free : h <= g

KeptPic(h) == pic  \* mutant: the slot is not cleared

\* memset of the slot.
FreshPic(h) == [pic EXCEPT ![h] = NoAu]

\* The result of tm_vdec_open is not looked at.
OpenEx(h, hasCb, hasScratch, ok) ==
  /\ openings < MaxOpen
  /\ FirstFree(h)
  /\ MayFail \/ ok
  /\ in_use' = [in_use EXCEPT ![h] = TRUE]
  /\ seq' = [seq EXCEPT ![h] = FALSE]
  /\ cb' = [cb EXCEPT ![h] = hasCb]
  /\ scratch' = [scratch EXCEPT ![h] = hasScratch]
  /\ pic' = FreshPic(h)
  /\ mf' = [mf EXCEPT ![h] = Opened(@, ok)]
  /\ item' = [item EXCEPT ![h] = NoAu]
  /\ openings' = openings + 1
  /\ fed' = [fed EXCEPT ![h] = <<>>]
  /\ got' = [got EXCEPT ![h] = <<>>]
  /\ raced' = [raced EXCEPT ![h] = stage[h] = "announce"]
  /\ UNCHANGED <<stage, auOf, told, decoded>>

StartSeq(h) ==
  /\ in_use[h]
  /\ seq' = [seq EXCEPT ![h] = TRUE]
  /\ UNCHANGED <<in_use, cb, scratch, pic, mf, callVars, item, histVars>>

EndSeq(h) ==
  /\ in_use[h] /\ stage[h] = "none"
  /\ seq' = [seq EXCEPT ![h] = FALSE]
  /\ stage' = [stage EXCEPT ![h] = IF cb[h] THEN "seqdone" ELSE "none"]
  /\ UNCHANGED <<in_use, cb, scratch, pic, mf, auOf, told, raced, item, histVars>>

Close(h) ==
  /\ in_use[h]
  /\ CloseInCall \/ stage[h] = "none"
  /\ mf' = [mf EXCEPT ![h] = IF @.open THEN Closed ELSE @]
  /\ in_use' = [in_use EXCEPT ![h] = FALSE]
  /\ UNCHANGED <<seq, cb, scratch, pic, callVars, item, histVars>>

-----------------------------------------------------------------------------
\* A unit is fed, unless it is empty or the decoder did not open; then AUDONE.
DecodeAu(h, empty) ==
  /\ in_use[h] /\ seq[h] /\ stage[h] = "none"
  /\ decoded < MaxAu
  /\ decoded' = decoded + 1
  /\ auOf' = [auOf EXCEPT ![h] = decoded']
  /\ IF empty \/ ~mf[h].open
       THEN UNCHANGED mf
       ELSE FeedUnit(h, decoded')
  /\ fed' = [fed EXCEPT ![h] = Append(@, decoded')]
  /\ stage' = [stage EXCEPT ![h] = "audone"]
  /\ UNCHANGED <<slotVars, told, raced, item, openings, got>>

AuDoneAlone(h) ==  \* mutant: PICOUT for a picture that waits alone
  /\ stage[h] = "audone"
  /\ stage' = [stage EXCEPT ![h] = IF Pending(h) = 1 THEN "announce" ELSE "none"]
  /\ auOf' = [auOf EXCEPT ![h] = IF Pending(h) = 1 THEN @ ELSE NoAu]
  /\ UNCHANGED <<slotVars, mf, told, raced, item, histVars>>

\* The AUDONE callback is over; PICOUT is to follow if the ring holds a frame.
AuDone(h) ==
  /\ stage[h] = "audone"
  /\ stage' = [stage EXCEPT ![h] = IF Pending(h) > 0 THEN "announce" ELSE "none"]
  /\ auOf' = [auOf EXCEPT ![h] = IF Pending(h) > 0 THEN @ ELSE NoAu]
  /\ UNCHANGED <<slotVars, mf, told, raced, item, histVars>>

\* The slot is stored to, and its callback called, with no look at who has it now.
PicOut(h) ==
  /\ stage[h] = "announce"
  /\ pic' = [pic EXCEPT ![h] = auOf[h]]
  /\ IF cb[h]
       THEN /\ stage' = [stage EXCEPT ![h] = "picout"]
            /\ told' = [told EXCEPT ![h] = ToSet(mf[h].ring)]
       ELSE /\ stage' = [stage EXCEPT ![h] = "none"]
            /\ UNCHANGED told
  /\ auOf' = [auOf EXCEPT ![h] = NoAu]
  /\ UNCHANGED <<in_use, seq, cb, scratch, mf, raced, item, histVars>>

CallbackReturns(h) ==
  /\ stage[h] \in {"picout", "seqdone"}
  /\ stage' = [stage EXCEPT ![h] = "none"]
  /\ UNCHANGED <<slotVars, mf, auOf, told, raced, item, histVars>>

\* The item describes the unit last announced, not the frame at the tail.
GetPicItem(h) ==
  /\ in_use[h]
  /\ Pending(h) > 0 /\ scratch[h]
  /\ item' = [item EXCEPT ![h] = pic[h]]
  /\ UNCHANGED <<slotVars, mf, callVars, histVars>>

PeekPicture(h) ==  \* mutant: the picture stays in the ring
  /\ in_use[h]
  /\ Pending(h) > 0
  /\ got' = [got EXCEPT ![h] = Append(@, Head(mf[h].ring))]
  /\ UNCHANGED <<slotVars, mf, callVars, item, decoded, openings, fed>>

GetPicture(h) ==
  /\ in_use[h]
  /\ Pending(h) > 0
  /\ got' = [got EXCEPT ![h] = Append(@, Head(mf[h].ring))]
  /\ mf' = [mf EXCEPT ![h].ring = Tail(@)]
  /\ UNCHANGED <<slotVars, callVars, item, decoded, openings, fed>>

-----------------------------------------------------------------------------
Next ==
  \E h \in Slot :
    \/ \E hasCb, hasScratch, ok \in BOOLEAN : OpenEx(h, hasCb, hasScratch, ok)
    \/ StartSeq(h) \/ EndSeq(h) \/ Close(h)
    \/ \E empty \in BOOLEAN : DecodeAu(h, empty)
    \/ AuDone(h) \/ PicOut(h) \/ CallbackReturns(h)
    \/ GetPicItem(h) \/ GetPicture(h)

Spec == Init /\ [][Next]_vars

-----------------------------------------------------------------------------
\* The slots, the calls on them and the histories keep their types, and a ring
\* of RING slots never holds as many frames.
TypeOK ==
  /\ {in_use, seq, cb, scratch, raced} \subseteq [Slot -> BOOLEAN]
  /\ {pic, auOf, item} \subseteq [Slot -> Au \cup {NoAu}]
  /\ mf \in [Slot -> [open : BOOLEAN, mft : Seq(Au), ring : Seq(Au)]]
  /\ \A h \in Slot : Len(mf[h].ring) < RING
  /\ stage \in [Slot -> {"none", "audone", "announce", "picout", "seqdone"}]
  /\ told \in [Slot -> SUBSET Au]
  /\ {fed, got} \subseteq [Slot -> Seq(Au)]
  /\ decoded \in 0 .. MaxAu /\ openings \in 0 .. MaxOpen

\* Pictures fetched from a decoder are of units fed to it since it was opened,
\* each at most once and in decode order, though a slot is reused, frames wait
\* in a ring of its own and calls on it may outlive its closing.
OwnPictures ==
  \A h \in Slot :
    /\ ToSet(got[h]) \subseteq ToSet(fed[h])
    /\ \A i, j \in DOMAIN got[h] : i < j => got[h][i] < got[h][j]

\* No picture waits that no PICOUT was sent for since it came: once the call that
\* decoded it is over, a title that is woken by PICOUT alone and then takes every
\* picture there is has been called after the newest, though AUDONE comes between
\* the feed and the look at the ring, and other threads take pictures at any time.
NoneUnannounced ==
  \A h \in Slot :
    in_use[h] /\ cb[h] /\ stage[h] \notin {"audone", "announce"} =>
      ToSet(mf[h].ring) \subseteq told[h]

\* A picture item never describes a unit of a decoder that had the slot before,
\* though DecodeAu stores the unit in the slot after a callback in which the
\* title may have closed the decoder and opened the next.  A decoder opened by
\* another thread right between the look at the ring and the store is excepted.
OwnItem ==
  \A h \in Slot :
    in_use[h] /\ ~raced[h] => item[h] \in ToSet(fed[h]) \cup {NoAu}
=============================================================================
