------------------------------- MODULE SlotPool -------------------------------
(***************************************************************************)
(* What the pool of Session actors promises to the turns: a limited number *)
(* of slots, taken directly only when nobody waits, and handed over in the *)
(* order of the requests.  Once it is closed, nothing is handed over.      *)
(***************************************************************************)
EXTENDS Naturals, Sequences, FiniteSets

CONSTANTS Session, Max

VARIABLES
  slots,     \* who holds a slot
  waiting,   \* who waits, first come first
  open

Init == slots = {} /\ waiting = <<>> /\ open = TRUE

Fits(more) == Cardinality(slots \union more) <= Max

Take(s) ==
  /\ s \notin slots /\ Fits({s})
  /\ open => waiting = <<>>
  /\ slots' = slots \union {s}
  /\ UNCHANGED <<waiting, open>>

Wait(s) ==
  /\ s \notin slots /\ \A i \in 1 .. Len(waiting) : waiting[i] # s
  /\ Cardinality(slots) = Max
  /\ waiting' = Append(waiting, s)
  /\ UNCHANGED <<slots, open>>

HandOver(s) ==
  /\ s \in slots /\ open /\ waiting # <<>>
  /\ slots' = (slots \ {s}) \union {Head(waiting)}
  /\ waiting' = Tail(waiting)
  /\ UNCHANGED open

Free(s) ==
  /\ s \in slots
  /\ open => waiting = <<>>
  /\ slots' = slots \ {s}
  /\ UNCHANGED <<waiting, open>>

Cancel(i) ==
  /\ open
  /\ waiting' = SubSeq(waiting, 1, i - 1) \o SubSeq(waiting, i + 1, Len(waiting))
  /\ UNCHANGED <<slots, open>>

Close ==
  /\ open' = FALSE /\ waiting' = <<>>
  /\ UNCHANGED slots

Clear == ~open /\ slots' = {} /\ UNCHANGED <<waiting, open>>

Next ==
  \/ Close \/ Clear
  \/ \E s \in Session : Take(s) \/ Wait(s) \/ HandOver(s) \/ Free(s)
  \/ \E i \in 1 .. Len(waiting) : Cancel(i)

Spec == Init /\ [][Next]_<<slots, waiting, open>>
=============================================================================
