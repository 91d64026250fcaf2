----------------------------- MODULE WordStream -----------------------------
(***************************************************************************)
(* What SmartnetParser promises of the words it is given: they wait until  *)
(* three more have come, and are then taken from the front, one to three   *)
(* at a time, by one message.  None is skipped, taken twice or out of      *)
(* order.                                                                  *)
(***************************************************************************)
EXTENDS Integers, Sequences

CONSTANT Words

VARIABLES
  waiting,   \* received and not yet taken
  taken      \* the words of the message that was reported last

streamVars == <<waiting, taken>>

Lookahead == 3

Init ==
  /\ waiting = << >>
  /\ taken = << >>

Receive(w) ==
  /\ Len(waiting) < Lookahead
  /\ waiting' = Append(waiting, w)
  /\ taken' = << >>

Report(w, n) ==
  /\ Len(waiting) = Lookahead
  /\ waiting' = Append(SubSeq(waiting, n + 1, Lookahead), w)
  /\ taken' = SubSeq(waiting, 1, n)

Next ==
  \E w \in Words : \/ Receive(w)
                   \/ \E n \in 1 .. Lookahead : Report(w, n)

Spec == Init /\ [][Next]_streamVars

=============================================================================
