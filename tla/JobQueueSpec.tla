---------------------------- MODULE JobQueueSpec ----------------------------
(***************************************************************************)
(* What a SPURS job queue promises the guest, without any of the machinery *)
(* of hle_extra.cpp: a pushed job is outstanding until it finishes, it     *)
(* does finish, and a sync on a set of tags of a queue does not return     *)
(* while a job pushed on them before the call is outstanding.              *)
(***************************************************************************)
EXTENDS Naturals

CONSTANTS
  Guest,   \* guest threads that call the queue
  Item,    \* the jobs, each push a job of its own
  Key,     \* <<queue, tag>> pairs
  KeyOf(_) \* the pair a job was pushed on

VARIABLES
  outstanding, \* the jobs pushed and not finished
  syncing,     \* the guest threads inside a sync
  awaited      \* what each of them still has to wait for

specVars == <<outstanding, syncing, awaited>>

Init ==
  /\ outstanding = {}
  /\ syncing = {}
  /\ awaited = [g \in Guest |-> {}]

Push(it) ==
  /\ it \notin outstanding
  /\ outstanding' = outstanding \cup {it}
  /\ UNCHANGED <<syncing, awaited>>

Finish(it) ==
  /\ it \in outstanding
  /\ outstanding' = outstanding \ {it}
  /\ awaited' = [g \in Guest |-> awaited[g] \ {it}]
  /\ UNCHANGED syncing

BeginSync(g, keys) ==
  /\ g \notin syncing
  /\ syncing' = syncing \cup {g}
  /\ awaited' = [awaited EXCEPT ![g] = {it \in outstanding : KeyOf(it) \in keys}]
  /\ UNCHANGED outstanding

EndSync(g) ==
  /\ g \in syncing
  /\ awaited[g] = {}
  /\ syncing' = syncing \ {g}
  /\ UNCHANGED <<outstanding, awaited>>

Next ==
  \/ \E it \in Item : Push(it) \/ Finish(it)
  \/ \E g \in Guest : EndSync(g) \/ \E keys \in SUBSET Key : BeginSync(g, keys)

\* Jobs run and end; a sync may be delayed for ever by jobs pushed after it.
Fairness == \A it \in Item : WF_specVars(Finish(it))

Spec == Init /\ [][Next]_specVars /\ Fairness
=============================================================================
