---------------------------- MODULE MCMonitorLoop ----------------------------
(***************************************************************************)
(* A P25 system for TLC.  It is configured with a control channel at each  *)
(* of two sources, which is where a retune has to change the source, and   *)
(* announces a third, at the second source, and one that no source covers. *)
(***************************************************************************)
EXTENDS MonitorLoop

CONSTANTS west, east, north, far, src1, src2

MCFrequencies == {west, east, north, far}
MCCovers == [r \in {src1, src2} |-> IF r = src1 THEN {west} ELSE {east, north}]
MCFirstSource ==
  [f \in MCFrequencies |->
     IF f = west THEN src1 ELSE IF f = far THEN NoSource ELSE src2]
MCConfigured == [s \in Systems |-> <<west, east>>]
MCBand == [s \in Systems |-> MCFrequencies]

=============================================================================
