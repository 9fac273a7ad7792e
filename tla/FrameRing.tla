------------------------------ MODULE FrameRing -----------------------------
(***************************************************************************)
(* One decoder slot of vdec_mf.cpp: access units go into the H.264 MFT,    *)
(* the frames it gives go into a ring, the title takes them out.  There is *)
(* no lock.  The thread in cellVdecDecodeAu (the feeder) and the one in    *)
(* cellVdecGetPicture (the taker) both write tail, so a load and the store *)
(* that depends on it are two steps when the calls overlap.                *)
(*                                                                         *)
(* A frame stands for its pixels: it is the number of the access unit it   *)
(* was decoded from, and pts is the number of the one it is stamped with.  *)
(* Frames have one size: a slot that has memory keeps it.                  *)
(***************************************************************************)
EXTENDS Naturals, Sequences

CONSTANTS
  RING,     \* slots of the ring (8)
  Delay,    \* access units the MFT keeps before it gives a frame
  MftCap,   \* access units the MFT holds before it refuses more
  MayFail,  \* whether malloc and the calls on the MFT may fail
  MaxAu     \* bound of the model: access units fed to one opening

ASSUME RingAssumption ==
  /\ RING \in Nat /\ RING >= 2
  /\ Delay \in Nat /\ MftCap \in Nat /\ Delay < MftCap
  /\ MayFail \in BOOLEAN
  /\ MaxAu \in Nat

Index  == 0 .. RING - 1
Au     == 1 .. MaxAu
Frame  == [au : Au, pts : Au]
NoFrame == <<>>                  \* no memory yet
Pulled == [au : Au, pts : Au, then : {"drain", "refused"}]  \* on its way to the ring
Half    == [au |-> 0, pts |-> 0]  \* being written

After(i) == (i + 1) % RING

VARIABLES
  overlap,   \* whether the title's decode and picture calls overlap, or never do
  open,      \* the slot has a decoder
  mft,       \* access units inside the MFT
  ring,      \* what each slot of the ring holds
  head,      \* next write
  tail,      \* next read
  fed,       \* the access unit being fed, or last fed
  fpc,       \* where the feeder is
  cur,       \* the frame the feeder is pushing
  tpc,       \* where the taker is
  idx,       \* the tail the taker loaded
  got,       \* the frame it saw there
  torn,      \* that slot was written while it copied it
  pushed,    \* access units whose frames were pushed, in order (history)
  handed,    \* access units whose frames were handed out, in order (history)
  dropped,   \* the ring was found full at some time (history)
  during,    \* and since the taker's last peek: none, once, or more (history)
  raced      \* a drop and a pop each had tail loaded, to store it (history)

feedVars == <<mft, fed, fpc, cur, pushed>>
takeVars == <<tpc, idx, got, handed>>
vars == <<overlap, open, ring, head, tail, feedVars, takeVars, torn, dropped, during, raced>>

-----------------------------------------------------------------------------
EmptyRing == [i \in Index |-> NoFrame]

Init ==
  /\ overlap \in BOOLEAN
  /\ open = FALSE
  /\ mft = <<>> /\ fed = 0 /\ fpc = "idle" /\ cur = NoFrame
  /\ ring = EmptyRing /\ head = 0 /\ tail = 0
  /\ tpc = "idle" /\ idx = 0 /\ got = NoFrame /\ torn = FALSE
  /\ pushed = <<>> /\ handed = <<>>
  /\ dropped = FALSE /\ during = 0 /\ raced = FALSE

NeverEmpty == FALSE  \* mutant: an empty ring is not told
Empty == head = tail

NeverFull == FALSE  \* mutant: the oldest frame is not dropped
Full == After(head) = tail

\* memset of the slot, which Close left all zero, and a decoder that was there.
Open ==
  /\ ~open
  /\ open' = TRUE
  /\ UNCHANGED <<overlap, ring, head, tail, feedVars, takeVars, torn, dropped, during, raced>>

\* memset of the slot; the title closes it when none of its calls is under way.
Close ==
  /\ open
  /\ fpc = "idle" /\ tpc = "idle"
  /\ open' = FALSE
  /\ mft' = <<>> /\ fed' = 0
  /\ ring' = EmptyRing /\ head' = 0 /\ tail' = 0
  /\ idx' = 0 /\ got' = NoFrame /\ torn' = FALSE
  /\ pushed' = <<>> /\ handed' = <<>>
  /\ dropped' = FALSE /\ during' = 0 /\ raced' = FALSE
  /\ UNCHANGED <<overlap, fpc, cur, tpc>>

-----------------------------------------------------------------------------
(* The feeder: tm_vdec_feed, drain_output, push_frame.                     *)

Feed ==
  /\ open
  /\ fpc = "idle"
  /\ overlap \/ tpc = "idle"
  /\ fed < MaxAu
  /\ fed' = fed + 1
  /\ IF Len(mft) < MftCap
       THEN mft' = Append(mft, fed') /\ fpc' = "drain"
       ELSE UNCHANGED mft /\ fpc' = "refused"
  /\ UNCHANGED <<overlap, open, ring, head, tail, cur, pushed, takeVars, torn, dropped, during, raced>>

\* No sample could be made, or the MFT refused it for good.
FeedFails ==
  /\ MayFail
  /\ open
  /\ fpc = "idle"
  /\ overlap \/ tpc = "idle"
  /\ fed < MaxAu
  /\ fed' = fed + 1
  /\ fpc' \in {"idle", "drain"}
  /\ UNCHANGED <<overlap, open, ring, head, tail, mft, cur, pushed, takeVars, torn, dropped, during, raced>>

\* drain_output ends: the MFT needs more input, or a call on it failed.
DrainEnds ==
  /\ fpc \in {"drain", "refused"}
  /\ Len(mft) <= Delay \/ MayFail
  /\ IF fpc = "refused"   \* the second ProcessInput, its result not looked at
       THEN /\ \/ Len(mft) < MftCap /\ mft' = Append(mft, fed)
               \/ (Len(mft) >= MftCap \/ MayFail) /\ UNCHANGED mft
            /\ fpc' = "drain"
       ELSE UNCHANGED mft /\ fpc' = "idle"
  /\ UNCHANGED <<overlap, open, ring, head, tail, fed, cur, pushed, takeVars, torn, dropped, during, raced>>

\* ProcessOutput gives the oldest frame, stamped with the pts of this feed;
\* push_frame compares the next head with the tail it loads.
Pull ==
  /\ fpc \in {"drain", "refused"}
  /\ Len(mft) > Delay
  /\ mft' = Tail(mft)
  /\ cur' = [au |-> Head(mft), pts |-> fed, then |-> fpc]
  /\ IF Full
       THEN /\ fpc' = "full"
            /\ dropped' = TRUE
            /\ during' = IF during < 2 THEN during + 1 ELSE 2
            /\ raced' = (raced \/ tpc = "store")
       ELSE fpc' = "write" /\ UNCHANGED <<dropped, during, raced>>
  /\ UNCHANGED <<overlap, open, ring, head, tail, fed, pushed, takeVars, torn>>

\* The frame cannot be mapped or converted: it is gone.
Lost ==
  /\ MayFail
  /\ fpc \in {"drain", "refused"}
  /\ Len(mft) > Delay
  /\ mft' = Tail(mft)
  /\ UNCHANGED <<overlap, open, ring, head, tail, fed, fpc, cur, pushed, takeVars, torn, dropped, during, raced>>

\* Drop the oldest: the build may add to the tail it tested or load it again.
DropOldest ==
  /\ fpc = "full"
  /\ tail' \in {After(After(head)), After(tail)}
  /\ fpc' = "write"
  /\ UNCHANGED <<overlap, open, ring, head, mft, fed, cur, pushed, takeVars, torn, dropped, during, raced>>

\* The first byte is copied into the slot.
BeginWrite ==
  /\ fpc = "write"
  /\ ring' = [ring EXCEPT ![head] = Half]
  /\ torn' = (torn \/ (tpc = "copy" /\ idx = head))
  /\ fpc' = "publish"
  /\ UNCHANGED <<overlap, open, head, tail, mft, fed, cur, pushed, takeVars, dropped, during, raced>>

\* No memory for a slot that had none: the frame is lost; the drop stands.
NoMemory ==
  /\ MayFail
  /\ fpc = "write"
  /\ ring[head] = NoFrame
  /\ fpc' = cur.then
  /\ cur' = NoFrame
  /\ UNCHANGED <<overlap, open, ring, head, tail, mft, fed, pushed, takeVars, torn, dropped, during, raced>>

Publish ==
  /\ fpc = "publish"
  /\ ring' = [ring EXCEPT ![head] = [au |-> cur.au, pts |-> cur.pts]]
  /\ head' = After(head)
  /\ pushed' = Append(pushed, cur.au)
  /\ fpc' = cur.then
  /\ cur' = NoFrame
  /\ UNCHANGED <<overlap, open, tail, mft, fed, takeVars, torn, dropped, during, raced>>

-----------------------------------------------------------------------------
(* The taker: tm_vdec_peek, the copy out, tm_vdec_pop.                     *)

Peek ==
  /\ open
  /\ tpc = "idle"
  /\ overlap \/ fpc = "idle"
  /\ ~Empty
  /\ ring[tail] # NoFrame
  /\ idx' = tail
  /\ got' = ring[tail]
  /\ tpc' = "copy"
  /\ torn' = FALSE
  /\ during' = IF fpc = "full" THEN 1 ELSE 0
  /\ UNCHANGED <<overlap, open, ring, head, tail, feedVars, handed, dropped, raced>>

Copied ==
  /\ tpc = "copy"
  /\ handed' = Append(handed, IF torn THEN 0 ELSE got.au)
  /\ tpc' = "pop"
  /\ UNCHANGED <<overlap, open, ring, head, tail, feedVars, idx, got, torn, dropped, during, raced>>

\* tm_vdec_pop looks at the ring again; it may find it empty by now.
PopTest ==
  /\ tpc = "pop"
  /\ IF Empty
       THEN tpc' = "idle" /\ UNCHANGED <<idx, raced>>
       ELSE tpc' = "store" /\ idx' = tail /\ raced' = (raced \/ fpc = "full")
  /\ UNCHANGED <<overlap, open, ring, head, tail, feedVars, got, handed, torn, dropped, during>>

PopStore ==
  /\ tpc = "store"
  /\ tail' \in {After(idx), After(tail)}
  /\ tpc' = "idle"
  /\ UNCHANGED <<overlap, open, ring, head, feedVars, idx, got, handed, torn, dropped, during, raced>>

-----------------------------------------------------------------------------
FeedStep == DrainEnds \/ Pull \/ Lost \/ DropOldest \/ BeginWrite \/ NoMemory \/ Publish
TakeStep == Copied \/ PopTest \/ PopStore

Next == Open \/ Close \/ Feed \/ FeedFails \/ FeedStep \/ Peek \/ TakeStep

Spec == Init /\ [][Next]_vars

-----------------------------------------------------------------------------
\* The ring, the two threads and the histories keep their types.
TypeOK ==
  /\ open \in BOOLEAN /\ overlap \in BOOLEAN
  /\ mft \in Seq(Au)
  /\ ring \in [Index -> Frame \cup {NoFrame, Half}]
  /\ head \in Index /\ tail \in Index /\ idx \in Index
  /\ fed \in 0 .. MaxAu /\ (fpc # "idle" => fed \in Au)
  /\ fpc \in {"idle", "drain", "refused", "full", "write", "publish"}
  /\ cur \in Pulled \cup {NoFrame}
  /\ fpc \in {"full", "write", "publish"} => cur \in Pulled
  /\ tpc \in {"idle", "copy", "pop", "store"}
  /\ got \in Frame \cup {NoFrame, Half}
  /\ tpc = "copy" => got # NoFrame
  /\ torn \in BOOLEAN /\ dropped \in BOOLEAN /\ raced \in BOOLEAN
  /\ pushed \in Seq(Au) /\ handed \in Seq(0 .. MaxAu)
  /\ during \in 0 .. 2

\* Until the ring first fills, the title gets every frame, whole, once and in
\* decode order, though nothing but the order of the stores protects the ring.
InOrderUntilFull ==
  ~dropped =>
    /\ Len(handed) <= Len(pushed)
    /\ \A i \in DOMAIN handed : handed[i] = pushed[i]

\* Two steps may store tail, and a store of an old one can move it back, to
\* frames handed out before.  As long as no drop and pop overlap, what the title
\* gets whole is newer every time, however many frames the ring drops.
OrderWithoutRace ==
  ~raced =>
    \A i, j \in DOMAIN handed : i < j /\ handed[j] # 0 => handed[i] < handed[j]

\* Dropping the oldest frees the slot under the taker's copy but writes the one
\* before it: a picture is overwritten while it is copied only when the ring is
\* found full twice within the copy, unless a drop and a pop overlapped before.
CopySurvivesOneDrop == tpc = "copy" /\ torn /\ ~raced => during = 2

\* The comment: the ring carries the guest's own pts through with the frame.
Waiting(i) == (i + RING - tail) % RING < (head + RING - tail) % RING
PtsCarried == \A i \in Index : Waiting(i) /\ ring[i] # NoFrame => ring[i].pts = ring[i].au

-----------------------------------------------------------------------------
Pending == (head + RING - tail) % RING

\* A frame has left the queue when it was copied out.
Left == IF tpc \in {"pop", "store"} THEN 1 ELSE 0

Queued == [n \in 1 .. Pending - Left |-> ring[(tail + Left + n - 1) % RING].au]

Queue == INSTANCE FrameQueueSpec WITH
  Frame <- Au, Capacity <- RING - 1, queue <- Queued, taken <- handed

\* With calls that do not overlap the ring is a queue of the RING - 1 newest
\* frames: only the oldest is ever lost, and only to a full ring.
IsFrameQueue ==
  /\ ~overlap => Queue!Init
  /\ [][~overlap => Queue!Next]_(Queue!specVars)
=============================================================================
