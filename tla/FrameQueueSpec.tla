--------------------------- MODULE FrameQueueSpec ---------------------------
(***************************************************************************)
(* What the frame ring of vdec_mf.cpp promises: a queue of the newest      *)
(* decoded frames.  The decoder is never made to wait, the oldest frame is *)
(* dropped when the queue is full, and the title takes the oldest.         *)
(***************************************************************************)
EXTENDS Naturals, Sequences

CONSTANTS Frame, Capacity

VARIABLES queue, taken

specVars == <<queue, taken>>

Init == queue = <<>> /\ taken = <<>>

\* Only a full queue loses a frame it has not handed out, and it is the oldest.
DropOldest ==
  /\ Len(queue) = Capacity
  /\ queue' = Tail(queue)
  /\ UNCHANGED taken

Put(f) ==
  /\ Len(queue) < Capacity
  /\ queue' = Append(queue, f)
  /\ UNCHANGED taken

Take ==
  /\ queue # <<>>
  /\ queue' = Tail(queue)
  /\ taken' = Append(taken, Head(queue))

Reset == queue' = <<>> /\ taken' = <<>>

Next == (\E f \in Frame : Put(f)) \/ DropOldest \/ Take \/ Reset

Spec == Init /\ [][Next]_specVars
=============================================================================
