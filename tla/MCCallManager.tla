--------------------------- MODULE MCCallManager ---------------------------
(***************************************************************************)
(* CallManager on small instances.                                         *)
(***************************************************************************)
EXTENDS CallManager, TLC

CallSymmetry == Permutations(Calls)

\* One source, at channel f1 or both channels; a second one without range.
MCSourceOf == [r \in Recorders \cup AuxRecorders |-> "rtl"]
MCKindOf == [x \in AuxRecorders |-> x]
MCFirstSource == [f \in Channels |-> IF f = "outside" THEN NoSource ELSE "rtl"]

\* Police needs two recorders to be free, unless it is patched with fire.
MCPriority == [t \in Talkgroups |-> IF t = "police" THEN 2 ELSE 1]
MCPatchedWith == [t \in Talkgroups |-> Talkgroups \ {t}]

\* No talkgroup is preferred at any site, or every one at site "north".
MCNoPreference == [s \in Systems |-> [t \in Talkgroups |-> 0]]
MCPreferNorth == [s \in Systems |-> [t \in Talkgroups |-> 2]]

\* Three sites of one network: "south" by its RFSS and site, "east" and
\* "north" also by the name and number they are configured with.
MCName == [s \in Systems |-> IF s = "south" THEN "" ELSE "net"]
MCNumber == [s \in Systems |-> CASE s = "east" -> 1 [] s = "north" -> 2
                                 [] OTHER -> 0]
MCNoName == [s \in Systems |-> ""]
MCNoNumber == [s \in Systems |-> 0]
MCWacn == [s \in Systems |-> 1]
MCSite == [s \in Systems |-> CASE s = "east" -> 1 [] s = "north" -> 2
                               [] OTHER -> 3]

=============================================================================
