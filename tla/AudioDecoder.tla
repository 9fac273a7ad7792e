---------------------------- MODULE AudioDecoder ----------------------------
(***************************************************************************)
(* cellAdec of vdec_hle.cpp: the movie's audio streams open a decoder      *)
(* each, feed it and are told there is silence to fetch.  A stream keeps   *)
(* the handle its last OpenEx gave it and may use it in any order, also    *)
(* after it closed it and also inside a callback; OpenEx looks for a free  *)
(* slot and then claims it, in two steps, which may overlap another's.     *)
(***************************************************************************)
EXTENDS Naturals

CONSTANTS
  Stream,       \* the audio streams of the movie
  NoStream,
  SLOTS,        \* MAX_SLOTS (4)
  HANDLE_BASE,  \* ADEC_HANDLE_BASE
  MaxOpen       \* bound of the model: openings by all streams

ASSUME AudioAssumption ==
  /\ NoStream \notin Stream
  /\ SLOTS \in Nat \ {0} /\ HANDLE_BASE \in Nat /\ HANDLE_BASE >= SLOTS
  /\ MaxOpen \in Nat

Slot == 0 .. SLOTS - 1
NoSlot == SLOTS
NoHandle == 0
Handle == {HANDLE_BASE + k : k \in Slot}

\* adec_index: the slot of a handle, if it has one.
SlotOf(h) == IF h \in Handle THEN h - HANDLE_BASE ELSE NoSlot

VARIABLES
  in_use,       \* the slot's flag; seq, which no code reads, is left out
  cb,           \* the stream whose callback the slot calls, if it gave one
  pcm,          \* the slot has a buffer of silence and an item
  open,         \* the stream has a decoder open, by its own account
  handle,       \* the last handle OpenEx gave it
  found,        \* the slot its OpenEx found and has not claimed yet
  stage, call,  \* the callback its EndSeq or DecodeAu waits for, and the slot
  opens,        \* openings so far
  upset,        \* history: slots two OpenEx found at once, or closed by a stream
                \* that did not hold them, while others hold or find them
  revived       \* history: slots StartSeq marked in use while no stream held them

slotVars == <<in_use, cb, pcm>>
streamVars == <<open, handle, found, opens>>
history == <<upset, revived>>
vars == <<slotVars, streamVars, stage, call, history>>

Init ==
  /\ in_use = [k \in Slot |-> FALSE]
  /\ cb = [k \in Slot |-> NoStream]
  /\ pcm = [k \in Slot |-> FALSE]
  /\ open = [t \in Stream |-> FALSE]
  /\ handle = [t \in Stream |-> NoHandle]
  /\ found = [t \in Stream |-> NoSlot]
  /\ stage = [t \in Stream |-> "none"]
  /\ call = [t \in Stream |-> NoSlot]
  /\ opens = 0
  /\ upset = {} /\ revived = {}

Holds(t, k) == open[t] /\ SlotOf(handle[t]) = k
Held(k) == \E t \in Stream : Holds(t, k)

\* A stream that is not inside OpenEx calls with the handle it has, open or not.
Calls(t, k) == found[t] = NoSlot /\ k = SlotOf(handle[t]) /\ k \in Slot

-----------------------------------------------------------------------------
AnySlot == Slot  \* mutant: every caller gets slot 0
Free == {k \in Slot : ~in_use[k]}

FindSlot(t) ==
  /\ ~open[t] /\ found[t] = NoSlot /\ opens < MaxOpen
  /\ opens' = opens + 1
  /\ IF Free = {}
       THEN UNCHANGED <<found, upset>>
       ELSE \E k \in Free :
              /\ \A j \in Free : k <= j
              /\ found' = [found EXCEPT ![t] = k]
              /\ upset' = IF \E u \in Stream : found[u] = k THEN upset \cup {k}
                          ELSE IF Held(k) THEN upset ELSE upset \ {k}
  /\ UNCHANGED <<slotVars, open, handle, stage, call, revived>>

\* memset and the fields; a callback if the title gave one, and silence when it
\* gave memory enough.
ClaimSlot(t, who, mem) ==
  /\ found[t] # NoSlot
  /\ in_use' = [in_use EXCEPT ![found[t]] = TRUE]
  /\ cb' = [cb EXCEPT ![found[t]] = who]
  /\ pcm' = [pcm EXCEPT ![found[t]] = mem]
  /\ open' = [open EXCEPT ![t] = TRUE]
  /\ handle' = [handle EXCEPT ![t] = HANDLE_BASE + found[t]]
  /\ found' = [found EXCEPT ![t] = NoSlot]
  /\ revived' = revived \ {found[t]}
  /\ UNCHANGED <<stage, call, opens, upset>>

\* The slot is marked in use, whatever it was.
StartSeq(t) ==
  \E k \in Slot :
    /\ Calls(t, k)
    /\ in_use' = [in_use EXCEPT ![k] = TRUE]
    /\ revived' = IF Held(k) THEN revived ELSE revived \cup {k}
    /\ UNCHANGED <<cb, pcm, streamVars, stage, call, upset>>

\* adec_cb: the guest runs if the slot has a callback.
Announce(t, k, msg) ==
  IF cb[k] # NoStream
    THEN stage' = [stage EXCEPT ![t] = msg] /\ call' = [call EXCEPT ![t] = k]
    ELSE stage' = [stage EXCEPT ![t] = "none"] /\ call' = [call EXCEPT ![t] = NoSlot]

EndSeq(t) ==
  \E k \in Slot :
    /\ Calls(t, k) /\ stage[t] = "none"
    /\ Announce(t, k, "seqdone")
    /\ UNCHANGED <<slotVars, streamVars, history>>

\* The unit itself is not looked at, nor whether the sequence was started.
DecodeAu(t) ==
  \E k \in Slot :
    /\ Calls(t, k) /\ stage[t] = "none"
    /\ in_use[k]
    /\ Announce(t, k, "audone")
    /\ UNCHANGED <<slotVars, streamVars, history>>

\* The callback returns; after AUDONE, DecodeAu goes on with the slot it looked
\* up before, and asks only whether that has a buffer now.
CallbackReturns(t) ==
  /\ stage[t] # "none" /\ found[t] = NoSlot
  /\ IF stage[t] = "audone" /\ pcm[call[t]]
       THEN Announce(t, call[t], "pcmout")
       ELSE /\ stage' = [stage EXCEPT ![t] = "none"]
            /\ call' = [call EXCEPT ![t] = NoSlot]
  /\ UNCHANGED <<slotVars, streamVars, history>>

\* What the two requests for PCM answer; they change nothing but the memory the
\* title gives them.
GetPcmItem(t) ==
  LET k == SlotOf(handle[t]) IN IF in_use[k] /\ pcm[k] THEN "item" ELSE "empty"

\* The handle itself is taken for the slot.
GetPcm(t) ==
  IF handle[t] >= SLOTS THEN "arg" ELSE IF in_use[handle[t]] THEN "silence" ELSE "arg"

CloseKeepsSlot(t) ==  \* mutant: the slot is not given back
  /\ Calls(t, SlotOf(handle[t])) /\ open[t]
  /\ open' = [open EXCEPT ![t] = FALSE]
  /\ UNCHANGED <<slotVars, handle, found, opens, stage, call, history>>

\* Whoever has the slot now.
Close(t) ==
  \E k \in Slot :
    /\ Calls(t, k)
    /\ in_use' = [in_use EXCEPT ![k] = FALSE]
    /\ open' = [open EXCEPT ![t] = FALSE]
    /\ upset' = IF ~open[t] /\ Held(k) THEN upset \cup {k} ELSE upset
    /\ revived' = revived \ {k}
    /\ UNCHANGED <<cb, pcm, handle, found, opens, stage, call>>

-----------------------------------------------------------------------------
Next ==
  \E t \in Stream :
    \/ FindSlot(t)
    \/ \E who \in {t, NoStream}, mem \in BOOLEAN : ClaimSlot(t, who, mem)
    \/ StartSeq(t) \/ EndSeq(t) \/ DecodeAu(t) \/ CallbackReturns(t)
    \/ Close(t)

Spec == Init /\ [][Next]_vars

-----------------------------------------------------------------------------
\* The slots and the streams keep their types.
TypeOK ==
  /\ in_use \in [Slot -> BOOLEAN] /\ pcm \in [Slot -> BOOLEAN]
  /\ cb \in [Slot -> Stream \cup {NoStream}]
  /\ open \in [Stream -> BOOLEAN]
  /\ handle \in [Stream -> Handle \cup {NoHandle}]
  /\ found \in [Stream -> Slot \cup {NoSlot}]
  /\ stage \in [Stream -> {"none", "audone", "pcmout", "seqdone"}]
  /\ call \in [Stream -> Slot \cup {NoSlot}]
  /\ opens \in 0 .. MaxOpen
  /\ upset \in SUBSET Slot /\ revived \in SUBSET Slot

\* Two streams are given one slot only if their searches for a free one met, or
\* if a third used a handle it had closed to close the slot under its holder:
\* no order of opens, restarts, decodes and closes does it otherwise, with
\* closes and opens inside callbacks and restarts of closed handles among them.
StreamsApart ==
  \A t, u \in Stream : \A k \in Slot \ upset :
    Holds(t, k) /\ Holds(u, k) => t = u

\* Under the same condition the slot of an open decoder stays in use and calls no
\* other stream; and a slot that is in use without a holder was marked so by a
\* StartSeq on a closed handle, so nothing else loses a slot for good.
SlotsHeld ==
  /\ \A t \in Stream : \A k \in Slot \ upset :
       Holds(t, k) => in_use[k] /\ cb[k] \in {t, NoStream}
  /\ \A k \in Slot : in_use[k] => Held(k) \/ k \in revived

\* The comments of GetPcm and OpenEx: a decoder hands back silence every time, so
\* one that answers with an item answers GetPcm with silence.
PcmIsSilence ==
  \A t \in Stream : open[t] /\ GetPcmItem(t) = "item" => GetPcm(t) = "silence"
=============================================================================
