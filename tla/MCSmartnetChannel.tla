------------------------- MODULE MCSmartnetChannel -------------------------
(***************************************************************************)
(* SmartnetChannel with one system at 800 MHz or one at 400 MHz, and with  *)
(* two systems, which it does not keep apart.                              *)
(***************************************************************************)
EXTENDS SmartnetChannel, TLC

MCPlan ==
  [s \in Systems |->
     IF s = "obt"
     THEN [bandfreq |-> 400, bandplan |-> "400_custom", offset |-> 380,
           base |-> 4890875, high |-> 4985625, spacing |-> 250]
     ELSE [bandfreq |-> 800, bandplan |-> "800_reband", offset |-> 0,
           base |-> 0, high |-> 0, spacing |-> 0]]

W(cmd, grp, full_address) ==
  [cmd |-> cmd, grp |-> grp, full_address |-> full_address]

\* Channel 1b8 is outbound in both bands, and at 800 MHz a rebanded one.
Freq(s) == IF Plan[s].bandfreq = 800 THEN 8510250
                                     ELSE 4890875 + 250 * (\h1b8 - 380)

Sent(words, report) == [words |-> words, report |-> report]

\* Talkgroup 120 with status 10 (encrypted, emergency), radio 77.  A grant has
\* an inbound channel for its first word at 400 MHz.
MessagesOn(s) ==
  LET Nothing == [type |-> "UNKNOWN", system |-> s, talkgroup |-> 0, freq |-> 0,
                  source |-> -1, encrypted |-> FALSE, emergency |-> FALSE,
                  sys_id |-> 0]
      CallOf(type, source) ==
        [Nothing EXCEPT !.type = type, !.talkgroup = \h120, !.source = source,
                        !.freq = Freq(s), !.encrypted = TRUE, !.emergency = TRUE]
      First(grp) == W(IF s = "obt" THEN \h100 ELSE \h308, grp, \h77)
  IN  {Sent(<<W(\h1b8, TRUE, \h12a)>>, CallOf("UPDATE", -1)),
       Sent(<<W(\h1b8, FALSE, \h12a)>>, Nothing),
       Sent(<<First(TRUE), W(\h1b8, TRUE, \h12a)>>, CallOf("GRANT", \h77)),
       Sent(<<W(\h3bf, TRUE, \h77)>>, Nothing),
       Sent(<<First(TRUE), W(\h310, TRUE, \h12a)>>,
            [Nothing EXCEPT !.type = "AFFILIATION", !.talkgroup = \h120,
                            !.source = \h77]),
       Sent(<<First(TRUE), W(\h30b, TRUE, \h2ad0)>>,
            [Nothing EXCEPT !.type = "SYSID", !.sys_id = \h77,
                            !.freq = getfreq(\h2d0, Plan[s])]),
       Sent(<<First(TRUE), W(\h320, TRUE, \h77), W(\h30b, TRUE, \h261b)>>, Nothing)}

MCMessages == [s \in Systems |-> MessagesOn(s)]

MCWords == OnAir

-----------------------------------------------------------------------------
(* A statement of the documentation.                                       *)

\* "Multiple radio systems can be recorded at the same time.": the calls that
\* are reported for a system were assigned by this system.
OwnSystem ==
  taken # << >> /\ message.type \in {"UPDATE", "GRANT"} =>
    \A i \in DOMAIN taken : taken[i].system = message.system

=============================================================================
