----------------------------- MODULE ThreadOnce -----------------------------
(***************************************************************************)
(* sys_ppu_thread_once: guest threads ask for an initialiser to be run     *)
(* once per control word.  once_lock is held while the word is read and    *)
(* flipped and released before the initialiser runs, so the section under  *)
(* it is one action and the initialiser, which may itself call             *)
(* sys_ppu_thread_once, is as many steps as it likes.                      *)
(***************************************************************************)
EXTENDS Naturals, Sequences

CONSTANTS
  Thread,    \* guest threads
  Ctrl,      \* guest addresses of control words
  Null,      \* a null control address
  MaxDepth,  \* bound of the model: calls one thread has open
  MaxCalls   \* bound of the model: calls one thread makes in all

ASSUME OnceAssumption ==
  /\ Null \notin Ctrl
  /\ MaxDepth \in Nat \ {0}
  /\ MaxCalls \in Nat

VARIABLES
  word,     \* the guest word: 0 not run yet, 1 done
  stack,    \* the calls each thread has open, the innermost last
  started,  \* control words whose initialiser was started, and how often
  ended,    \* control words whose initialiser has returned
  calls     \* calls each thread made

vars == <<word, stack, started, ended, calls>>

\* An open call: its control word, whether it has an initialiser, where it is.
Call == [ctrl : Ctrl \cup {Null}, opd : BOOLEAN, at : {"enter"}]
          \cup [ctrl : Ctrl, opd : {TRUE}, at : {"init"}]

Innermost(t) == stack[t][Len(stack[t])]
Open(t) == stack[t] # <<>>
Leave(t) == [stack EXCEPT ![t] = SubSeq(@, 1, Len(@) - 1)]

Running(t) == {i \in DOMAIN stack[t] : stack[t][i].at = "init"}
Inside(t, c) == \E i \in Running(t) : stack[t][i].ctrl = c

-----------------------------------------------------------------------------
Init ==
  /\ word = [c \in Ctrl |-> 0]
  /\ stack = [t \in Thread |-> <<>>]
  /\ started = [c \in Ctrl |-> 0]
  /\ ended = {}
  /\ calls = [t \in Thread |-> 0]

\* A call from the title's own code, or from an initialiser this thread runs.
CallOnce(t, c, opd) ==
  /\ Len(stack[t]) < MaxDepth
  /\ Open(t) => Innermost(t).at = "init"
  /\ calls[t] < MaxCalls
  /\ calls' = [calls EXCEPT ![t] = @ + 1]
  /\ stack' = [stack EXCEPT ![t] = Append(@, [ctrl |-> c, opd |-> opd, at |-> "enter"])]
  /\ UNCHANGED <<word, started, ended>>

Unclaimed(c) == c # Null /\ word[c] = 0

\* Under once_lock: the word was 0 and is flipped, and the initialiser begins.
Win(t) ==
  /\ Open(t) /\ Innermost(t).at = "enter"
  /\ Unclaimed(Innermost(t).ctrl)
  /\ word' = [word EXCEPT ![Innermost(t).ctrl] = 1]
  /\ IF Innermost(t).opd
       THEN /\ stack' = [stack EXCEPT ![t][Len(stack[t])].at = "init"]
            /\ started' = [started EXCEPT ![Innermost(t).ctrl] = @ + 1]
       ELSE /\ stack' = Leave(t)
            /\ UNCHANGED started
  /\ UNCHANGED <<ended, calls>>

LoseWaits(t) ==  \* mutant: the lock is held while an initialiser runs
  /\ Open(t) /\ Innermost(t).at = "enter"
  /\ ~Unclaimed(Innermost(t).ctrl)
  /\ \A u \in Thread : Running(u) = {}
  /\ stack' = Leave(t)
  /\ UNCHANGED <<word, started, ended, calls>>

\* Under once_lock: a null address, or a word that is no longer 0.
Lose(t) ==
  /\ Open(t) /\ Innermost(t).at = "enter"
  /\ ~Unclaimed(Innermost(t).ctrl)
  /\ stack' = Leave(t)
  /\ UNCHANGED <<word, started, ended, calls>>

\* The initialiser comes back from ppu_guest_call.
InitDone(t) ==
  /\ Open(t) /\ Innermost(t).at = "init"
  /\ ended' = ended \cup {Innermost(t).ctrl}
  /\ stack' = Leave(t)
  /\ UNCHANGED <<word, started, calls>>

Next == \E t \in Thread :
  \/ \E c \in Ctrl \cup {Null}, opd \in BOOLEAN : CallOnce(t, c, opd)
  \/ Win(t) \/ Lose(t) \/ InitDone(t)

Spec == Init /\ [][Next]_vars

\* Host threads are scheduled and initialisers come to an end.
Fairness == \A t \in Thread : WF_vars(Win(t) \/ Lose(t)) /\ WF_vars(InitDone(t))

FairSpec == Spec /\ Fairness

-----------------------------------------------------------------------------
\* The word, the open calls and the histories keep their types.
TypeOK ==
  /\ word \in [Ctrl -> {0, 1}]
  /\ stack \in [Thread -> Seq(Call)]
  /\ started \in [Ctrl -> Nat]
  /\ ended \in SUBSET Ctrl
  /\ calls \in [Thread -> Nat]

\* No initialiser is started twice, whichever threads ask and however deep the
\* initialisers nest, though the lock is not held while one runs.
StartedOnce == \A c \in Ctrl : started[c] <= 1

\* A started initialiser is on the stack of exactly one open call or has ended:
\* none is abandoned, and none ends twice or runs on two threads.
RunsOrEnded ==
  \A c \in Ctrl :
    /\ \A s, t \in Thread : \A i \in Running(s), j \in Running(t) :
         stack[s][i].ctrl = c /\ stack[t][j].ctrl = c => s = t /\ i = j
    /\ started[c] = 1 => (c \in ended) # (\E t \in Thread : Inside(t, c))
    /\ started[c] = 0 => c \notin ended /\ \A t \in Thread : ~Inside(t, c)

\* The comment: the word is 1 when the initialiser is done, flipped after it has
\* run.  So a thread that finds it 1, and is not inside that very initialiser,
\* returns to a title whose initialiser has run.
DoneWhenLost ==
  [][\A t \in Thread : LET c == Innermost(t).ctrl IN
       Lose(t) /\ c # Null /\ ~Inside(t, c) => started[c] = 0 \/ c \in ended]_vars
=============================================================================
