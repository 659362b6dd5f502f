----------------------------- MODULE ReceiptLog -----------------------------
(***************************************************************************)
(* What the receipt feed promises its consumer: events are only appended,  *)
(* the consumer takes them from the front without a gap, and every event   *)
(* is taken in the end.                                                    *)
(***************************************************************************)
EXTENDS Naturals, Sequences

CONSTANT Events

VARIABLES
  log,   \* the events, in receipt order
  taken  \* how many of them, from the front, the consumer has for good

vars == <<log, taken>>

Init == log \in Seq(Events) /\ taken \in 0..Len(log)

Write == (\E e \in Events : log' = Append(log, e)) /\ UNCHANGED taken

Take == (\E n \in (taken + 1)..Len(log) : taken' = n) /\ UNCHANGED log

Next == Write \/ Take

Spec == Init /\ [][Next]_vars /\ WF_vars(Take)
=============================================================================
