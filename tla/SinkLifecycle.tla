--------------------------- MODULE SinkLifecycle ---------------------------
(***************************************************************************)
(* What a wav sink promises the rest of Trunk Recorder, without files,     *)
(* tags, samples or locks: it is lent to one call at a time, it cuts what  *)
(* it hears into transmissions, and giving it back closes the transmission *)
(* that is open.  TransmissionSink implements this specification, and the  *)
(* CallManager drives one instance of it per recorder.                     *)
(***************************************************************************)
EXTENDS Naturals

CONSTANTS Calls,     \* the Call objects a sink may be lent to
          NoCall     \* the NULL Call pointer

VARIABLES phase,     \* State of the sink
          owner,     \* the Call the sink is lent to
          closed     \* number of transmissions closed since it was lent

sinkVars == <<phase, owner, closed>>

Phases == {"AVAILABLE", "IDLE", "RECORDING", "IGNORE"}

LifecycleTypeOK ==
  /\ phase \in Phases
  /\ owner \in Calls \cup {NoCall}
  /\ closed \in Nat

Init ==
  /\ phase = "AVAILABLE"
  /\ owner = NoCall
  /\ closed = 0

\* The sink is lent to call c; the transmissions of the previous call go.
Lend(c) ==
  /\ phase = "AVAILABLE"
  /\ phase' = "IDLE"
  /\ owner' = c
  /\ closed' = 0

\* The first voice samples of a transmission open it.
Open ==
  /\ phase = "IDLE"
  /\ phase' = "RECORDING"
  /\ UNCHANGED <<owner, closed>>

\* The open transmission ends, at a terminator or because the channel now
\* carries another talkgroup, which is then ignored.
Close ==
  /\ phase = "RECORDING"
  /\ phase' \in {"IDLE", "IGNORE"}
  /\ closed' = closed + 1
  /\ UNCHANGED owner

\* Another talkgroup shows up while nothing is open.
Ignore ==
  /\ phase = "IDLE"
  /\ phase' = "IGNORE"
  /\ UNCHANGED <<owner, closed>>

\* A terminator ends the foreign transmission.
Resume ==
  /\ phase = "IGNORE"
  /\ phase' = "IDLE"
  /\ UNCHANGED <<owner, closed>>

\* The sink is given back; what is open is closed first.
Return ==
  /\ phase # "AVAILABLE"
  /\ phase' = "AVAILABLE"
  /\ owner' = NoCall
  /\ closed' = IF phase = "RECORDING" THEN closed + 1 ELSE closed

Next ==
  \/ \E c \in Calls : Lend(c)
  \/ Open
  \/ Close
  \/ Ignore
  \/ Resume
  \/ Return

Spec == Init /\ [][Next]_sinkVars

=============================================================================
