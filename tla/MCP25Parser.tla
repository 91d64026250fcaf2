----------------------------- MODULE MCP25Parser -----------------------------
(***************************************************************************)
(* Two P25 systems for TLC that share the parser.  Both have an identifier *)
(* 1, but on other frequencies and, in the second, with two time slots; the *)
(* first has an identifier 2 as well, whose first carrier is one of those  *)
(* of identifier 1.                                                        *)
(***************************************************************************)
EXTENDS P25Parser

Ch(i, n) == [iden |-> i, number |-> n]

MCPlan ==
  [s \in Systems |-> [i \in Idens |->
     IF s = 1 /\ i = 1 THEN [base |-> 100, step |-> 5, slots |-> 1]
     ELSE IF s = 1 /\ i = 2 THEN [base |-> 105, step |-> 10, slots |-> 2]
     ELSE IF s = 2 /\ i = 1 THEN [base |-> 200, step |-> 10, slots |-> 2]
     ELSE Unused]]

MCUses ==
  [s \in Systems |->
     IF s = 1 THEN {Ch(1, 0), Ch(1, 1), Ch(2, 0), Ch(2, 3)}
     ELSE {Ch(1, 0), Ch(1, 1), Ch(1, 2)}]

=============================================================================
