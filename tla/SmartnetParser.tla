--------------------------- MODULE SmartnetParser ---------------------------
(***************************************************************************)
(* systems/smartnet_parser.cc: the words (OSWs) of SmartNet control        *)
(* channels become messages.  A message has one to three words, and only   *)
(* the words after the first tell how many: the parser keeps the last      *)
(* words, looks at the oldest of them together with the next two, and      *)
(* skips as many of the following calls as it took words after the first.  *)
(*                                                                         *)
(* The fifth word is kept for the log only and left out.                   *)
(*                                                                         *)
(* There is one parser for all systems; parse_message is given the system  *)
(* whose queue the newest word came from.                                  *)
(*                                                                         *)
(* Frequencies are in units of 100 Hz.  Fields that a message does not set *)
(* (they are uninitialised in the code) and that nothing reads are 0 here, *)
(* and so are those of an UNKNOWN message, which handle_message skips:     *)
(* site, clock, patch and status messages are all UNKNOWN to the code.  A  *)
(* string of fewer than three fields never comes: smartnet_decode formats  *)
(* all of them.                                                            *)
(***************************************************************************)
EXTENDS Integers, Sequences

CONSTANTS
  Systems,   \* the SmartNet systems
  Plan,      \* bandfreq, bandplan and its base, high, spacing and offset
  Words,     \* OSWs: records with at least cmd, grp and full_address
  NoWord     \* an element of the stack that was never written

BandPlans == {"800_standard", "800_splinter", "800_reband", "400_custom"}

\* Of the 760 commands 000 .. 2f7 at most 380 are inbound channels, so that no
\* other command lies in the range of 380 outbound channels after them.
ASSUME ParserAssumption ==
  /\ Plan \in [Systems -> [bandfreq : {800, 400}, bandplan : BandPlans,
                           offset : 0 .. 380, base : Nat, high : Nat,
                           spacing : Nat]]
  /\ \A w \in Words : /\ w.cmd \in 0 .. \h3ff
                      /\ w.grp \in BOOLEAN
                      /\ w.full_address \in Nat /\ w.full_address < 65536
  /\ NoWord \notin Words

VARIABLES
  stack,         \* stack[0] is the newest word
  numStacked,
  numConsumed,   \* calls that are still to be skipped
  message        \* what parse_message returned last

\* @history The words that message was made of; none if the call was skipped.
VARIABLE taken

parserVars == <<stack, numStacked, numConsumed, message, taken>>

-----------------------------------------------------------------------------
(* Commands.                                                               *)

OSW_BACKGROUND_IDLE == \h2f8
OSW_FIRST_NORMAL == \h308
OSW_EXTENDED_FCN == \h30b
OSW_TY2_AFFILIATION == \h310
OSW_SECOND_NORMAL == \h320
OSW_FIRST_ASTRO == \h321
OSW_AMSS_ID == \h360 .. \h39f
OSW_SYS == {\h3bf, \h3c0}
REQUEST_AFFILIATION == \h32a
PATCH == \h340

\* What a message may go on with.
Continuations ==
  {OSW_SECOND_NORMAL, OSW_EXTENDED_FCN, PATCH, OSW_TY2_AFFILIATION}

Channels800 == (0 .. \h2f7) \cup (\h32f .. \h33f) \cup {\h3be} \cup (\h3c1 .. \h3fe)

\* 12.5 kHz below the standard frequencies in the splinter and rebanded parts.
Freq800(cmd, bandplan) ==
  IF cmd <= \h2cf
  THEN IF bandplan = "800_reband" /\ cmd \in \h1b8 .. \h22f
       THEN 8510250 + 250 * (cmd - \h1b8)
       ELSE IF bandplan = "800_splinter" /\ cmd <= \h257
            THEN 8510000 + 250 * cmd
            ELSE 8510125 + 250 * cmd
  ELSE IF cmd <= \h2f7 THEN 8660000 + 250 * (cmd - \h2d0)
  ELSE IF cmd \in \h32f .. \h33f THEN 8670000 + 250 * (cmd - \h32f)
  ELSE IF cmd = \h3be THEN 8689750
  ELSE IF cmd \in \h3c1 .. \h3fe THEN 8674250 + 250 * (cmd - \h3c1)
  ELSE 0

getfreq(cmd, plan) ==
  IF plan.bandfreq = 800 THEN Freq800(cmd, plan.bandplan)
  ELSE IF /\ cmd >= plan.offset
          /\ (cmd - plan.offset) * plan.spacing < plan.high - plan.base
       THEN plan.base + plan.spacing * (cmd - plan.offset)
       ELSE 0

is_chan_outbound(cmd, plan) ==
  IF plan.bandfreq = 800 THEN cmd \in Channels800
                         ELSE cmd >= plan.offset /\ cmd < plan.offset + 380

is_chan_inbound_obt(cmd, plan) == cmd < plan.offset

is_first_normal(cmd, plan) ==
  \/ cmd \in {OSW_FIRST_NORMAL, OSW_FIRST_ASTRO}
  \/ plan.bandfreq = 400 /\ is_chan_inbound_obt(cmd, plan)

-----------------------------------------------------------------------------
(* What the three words a, b and c, a the oldest, say together.            *)

\* Always a message of its own.
IsSingle(a, plan) ==
  \/ is_chan_outbound(a.cmd, plan)
  \/ a.cmd \in {OSW_BACKGROUND_IDLE, REQUEST_AFFILIATION} \cup OSW_AMSS_ID

IsStatus(a, plan) == ~IsSingle(a, plan) /\ a.cmd \in OSW_SYS

IsFirst(a, plan) ==
  /\ ~IsSingle(a, plan)
  /\ ~IsStatus(a, plan)
  /\ is_first_normal(a.cmd, plan)

IsGrant(a, b, plan) == IsFirst(a, plan) /\ is_chan_outbound(b.cmd, plan)

\* Mutants: a status takes the word after it, whatever that is; the third word
\* is taken without a look at it.
IsPairAnyStatus(a, b, plan) ==
  \/ IsStatus(a, plan)
  \/ IsGrant(a, b, plan)
  \/ IsFirst(a, plan) /\ b.cmd \in Continuations
IsTripleUnseen(a, b, c, plan) ==
  /\ IsStatus(a, plan) \/ IsFirst(a, plan)
  /\ b.cmd = OSW_SECOND_NORMAL

\* The second word is taken: also SECOND_NORMAL when the third does not match.
IsPair(a, b, plan) ==
  \/ /\ IsStatus(a, plan)
     /\ b.cmd \in {OSW_SECOND_NORMAL, OSW_EXTENDED_FCN}
  \/ IsGrant(a, b, plan)
  \/ IsFirst(a, plan) /\ b.cmd \in Continuations

IsTriple(a, b, c, plan) ==
  /\ IsStatus(a, plan) \/ (IsFirst(a, plan) /\ ~IsGrant(a, b, plan))
  /\ b.cmd = OSW_SECOND_NORMAL
  /\ c.cmd = OSW_EXTENDED_FCN

\* What is added to numConsumed.
Extra(a, b, c, plan) ==
  IF IsTriple(a, b, c, plan) THEN 2 ELSE IF IsPair(a, b, plan) THEN 1 ELSE 0

status(w) == w.full_address % 16
address(w) == w.full_address - status(w)

\* A TrunkMessage as it is before it is filled in.
Unknown(s) ==
  [type |-> "UNKNOWN", system |-> s, talkgroup |-> 0, freq |-> 0, source |-> -1,
   encrypted |-> FALSE, emergency |-> FALSE, sys_id |-> 0]

\* w names the channel and the talkgroup.
CallMessage(type, w, source, s) ==
  [type |-> type, system |-> s, talkgroup |-> address(w),
   freq |-> getfreq(w.cmd, Plan[s]), source |-> source,
   encrypted |-> status(w) >= 8,
   emergency |-> status(w) \in {2, 4, 5, 10, 12, 13}, sys_id |-> 0]

UnitMessage(type, source, talkgroup, s) ==
  [type |-> type, system |-> s, talkgroup |-> talkgroup, freq |-> 0,
   source |-> source, encrypted |-> FALSE, emergency |-> FALSE, sys_id |-> 0]

SysIdMessage(cmd, sys_id, s) ==
  [type |-> "SYSID", system |-> s, talkgroup |-> 0,
   freq |-> getfreq(cmd, Plan[s]), source |-> -1,
   encrypted |-> FALSE, emergency |-> FALSE, sys_id |-> sys_id]

ExtendedMessage(a, b, s) ==
  LET cmd == b.full_address - \h2800
  IN  IF b.full_address = \h261b
      THEN UnitMessage("REGISTRATION", a.full_address, 0, s)
      ELSE IF b.full_address = \h261c
      THEN UnitMessage("DEREGISTRATION", a.full_address, 0, s)
      ELSE IF cmd \in 0 .. \h2f6 THEN SysIdMessage(cmd, a.full_address, s)
      ELSE Unknown(s)

MessageOf(a, b, s) ==
  IF is_chan_outbound(a.cmd, Plan[s]) /\ a.grp
  THEN CallMessage("UPDATE", a, -1, s)
  ELSE IF IsGrant(a, b, Plan[s]) /\ b.grp
  THEN CallMessage("GRANT", b, a.full_address, s)
  ELSE IF ~IsFirst(a, Plan[s]) \/ IsGrant(a, b, Plan[s]) THEN Unknown(s)
  ELSE IF b.cmd = OSW_EXTENDED_FCN THEN ExtendedMessage(a, b, s)
  ELSE IF b.cmd = OSW_TY2_AFFILIATION
  THEN UnitMessage("AFFILIATION", a.full_address, address(b), s)
  ELSE Unknown(s)

-----------------------------------------------------------------------------

Init ==
  /\ stack = [i \in 0 .. 3 |-> NoWord]
  /\ numStacked = 0
  /\ numConsumed = 3
  /\ message = << >>
  /\ taken = << >>

\* Mutant: the element above those that are in use is not written.
ShiftedShort(w) ==
  [i \in 0 .. 3 |-> IF i = 0 THEN w
                    ELSE IF i < numStacked THEN stack[i - 1] ELSE stack[i]]

Shifted(w) ==
  [i \in 0 .. 3 |-> IF i = 0 THEN w
                    ELSE IF i <= numStacked THEN stack[i - 1] ELSE stack[i]]

\* Mutant: the count runs past the stack.
OneMore(n) == n + 1

Stacked(n) == IF n < 5 THEN n + 1 ELSE n

Skips == numConsumed > 0

parse_message(w, s) ==
  /\ stack' = Shifted(w)
  /\ numStacked' = Stacked(numStacked)
  /\ IF Skips
     THEN /\ numConsumed' = numConsumed - 1
          /\ message' = Unknown(s)
          /\ taken' = << >>
     ELSE LET a == stack'[3]
              b == stack'[2]
              c == stack'[1]
          IN  /\ numConsumed' = Extra(a, b, c, Plan[s])
              /\ message' = MessageOf(a, b, s)
              /\ taken' = SubSeq(<<a, b, c>>, 1, 1 + numConsumed')

Next == \E s \in Systems, w \in Words : parse_message(w, s)

Spec == Init /\ [][Next]_parserVars

-----------------------------------------------------------------------------
(* Properties.                                                             *)

Types == {"UNKNOWN", "UPDATE", "GRANT", "REGISTRATION", "DEREGISTRATION",
          "SYSID", "AFFILIATION"}

TrunkMessages ==
  [type : Types, system : Systems, talkgroup : Nat, freq : Nat,
   source : {-1} \cup Nat, encrypted : BOOLEAN, emergency : BOOLEAN,
   sys_id : Nat]

\* The stack is filled from below and no element that was never written is
\* looked at; at most two calls are skipped once three words are there.
TypeOK ==
  /\ stack \in [0 .. 3 -> Words \cup {NoWord}]
  /\ numStacked \in 0 .. 5
  /\ \A i \in 0 .. 3 : stack[i] # NoWord <=> i < numStacked
  /\ numConsumed \in 0 .. 3
  /\ numStacked < 3 => numConsumed = 3 - numStacked
  /\ numStacked >= 3 => numConsumed <= 2
  /\ message \in TrunkMessages \cup {<< >>}
  /\ taken \in Seq(Words)

\* The words above the part that is skipped.
Waiting ==
  [i \in 1 .. 3 - numConsumed |-> stack[3 - numConsumed - i]]

Stream == INSTANCE WordStream WITH waiting <- Waiting

\* Every word that is received is taken by exactly one message, in the order
\* of reception, whatever the words are and whichever systems they are of.
ImplementsWordStream == Stream!Spec

IsCall(w, plan) == is_chan_outbound(w.cmd, plan) /\ w.grp

\* No call is swallowed or made up: a message takes a word that assigns a
\* channel to a talkgroup exactly if it is an UPDATE or a GRANT for this
\* talkgroup on this channel, as its last word, and the source of a GRANT is
\* the word before it.  This holds for any words, also after losses.
CallsAreReported ==
  taken # << >> =>
    LET last == taken[Len(taken)]
        plan == Plan[message.system]
    IN  /\ \A i \in 1 .. Len(taken) - 1 : ~IsCall(taken[i], plan)
        /\ IsCall(last, plan) <=> message.type \in {"UPDATE", "GRANT"}
        /\ IsCall(last, plan) =>
             /\ message.talkgroup = address(last)
             /\ message.freq = getfreq(last.cmd, plan)
             /\ message.type = "GRANT" <=> Len(taken) = 2
             /\ message.type = "GRANT" => message.source = taken[1].full_address

=============================================================================
