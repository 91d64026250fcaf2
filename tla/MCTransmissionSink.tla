------------------------ MODULE MCTransmissionSink ------------------------
(***************************************************************************)
(* TransmissionSink on a small instance: a Phase 1 call and a Phase 2 call *)
(* of different talkgroups, and a conventional call, use the sink one      *)
(* after the other.                                                        *)
(***************************************************************************)
EXTENDS TransmissionSink

MCTalkgroupOf == [c \in Calls |-> IF c = "phase2" THEN "police" ELSE "fire"]
MCSlotOf == [c \in Calls |-> IF c = "phase2" THEN 1 ELSE -1]

=============================================================================
