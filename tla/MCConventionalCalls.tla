------------------------- MODULE MCConventionalCalls -------------------------
(***************************************************************************)
(* Two conventional channels for TLC: 1 is an analog one, which has one    *)
(* sink and is started at setup, 2 a DMR one, which has two sinks and is   *)
(* started by the first round of the main loop.  Below, a statement of the *)
(* documentation that the code does not meet.                              *)
(***************************************************************************)
EXTENDS ConventionalCalls

MCChannels == {1, 2}
MCSlotsOf == [c \in MCChannels |-> IF c = 2 THEN {0, 1} ELSE {0}]
MCAnalog == {1}

-----------------------------------------------------------------------------
(* A statement of the documentation.                                       *)

\* "The maximum call duration in seconds (decimals allowed), calls above this
\* number will have recordings split into multiple parts." (maxDuration): also
\* what is heard in the second slot of a DMR channel.
EveryLongCallIsSplit ==
  \A c \in Channels, s \in Slots : TooLong(c, s) ~> ~TooLong(c, s)

=============================================================================
