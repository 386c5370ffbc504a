------------------------------ MODULE DurableLog ------------------------------
(***************************************************************************)
(* What a Thread's event store promises its callers: a sequence of facts   *)
(* that only grows, except that a loss of power may take back a suffix     *)
(* nobody has been promised.                                               *)
(***************************************************************************)
EXTENDS Naturals, Sequences

VARIABLES
  facts,     \* the facts, in order
  promised   \* how many of them callers have been told are durable

Init == facts = <<>> /\ promised = 0

Record ==
  /\ Len(facts') = Len(facts) + 1
  /\ SubSeq(facts', 1, Len(facts)) = facts
  /\ UNCHANGED promised

Promise ==
  /\ promised' \in promised .. Len(facts)
  /\ UNCHANGED facts

Lose ==
  /\ \E n \in promised .. Len(facts) : facts' = SubSeq(facts, 1, n)
  /\ UNCHANGED promised

Next == Record \/ Promise \/ Lose

Spec == Init /\ [][Next]_<<facts, promised>>
=============================================================================
