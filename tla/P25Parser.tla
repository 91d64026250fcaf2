------------------------------- MODULE P25Parser -------------------------------
(***************************************************************************)
(* The parser of P25 control channels (p25_parser.cc).  A site names its   *)
(* channels by an identifier and a number; what frequency that is, and     *)
(* whether two calls share it in time slots, it announces from time to     *)
(* time in identifier updates.  The parser keeps these in a table of each  *)
(* system and turns a block, or a multi-block message, into the messages   *)
(* that the main loop handles.  Any block may be lost.                     *)
(*                                                                         *)
(* Blocks that assign or name no channel (registrations, affiliations,     *)
(* patches, site identities) go through as they are and are left out, and  *)
(* so are the fields that are only copied: units, priorities and flags.    *)
(***************************************************************************)
EXTENDS Integers, Sequences

Idens == 0..15
Channels == [iden : Idens, number : 0..4095]

\* 65535: the second channel of an update that has one call only.
NoChannel == [iden |-> 15, number |-> 4095]

CONSTANTS
  Systems,
  Talkgroups,
  Plan,             \* [Systems -> [Idens -> BandPlans \cup {Unused}]]
  Unused,
  Uses              \* [Systems -> SUBSET Channels]: what a site assigns

\* What a site's channels really are: carriers from base on, every step Hz,
\* and the time slots of each.
BandPlans == [base : Nat \ {0}, step : Nat, slots : {1, 2}]

ASSUME PlanAssumption ==
  /\ Unused \notin BandPlans
  /\ Plan \in [Systems -> [Idens -> BandPlans \cup {Unused}]]
  /\ Uses \in [Systems -> SUBSET Channels]
  /\ \A s \in Systems : \A ch \in Uses[s] :
       Plan[s][ch.iden] # Unused /\ ch # NoChannel

\* struct Channel.  A channel that is not in the table has no entry.
Entries == [frequency : Nat, step : Nat, phase2_tdma : BOOLEAN,
            slots_per_carrier : 0..4]

NoEntry == [frequency |-> 0, step |-> 0, phase2_tdma |-> FALSE,
            slots_per_carrier |-> 0]

VARIABLES
  channels,         \* the table of each system
  heard,            \* history: the identifiers each system announced
  report            \* the system and the block that were parsed last, and
                    \* the messages that came of it

vars == <<channels, heard, report>>

CallTypes == {"GRANT", "UPDATE", "UU_V_GRANT", "UU_V_UPDATE"}
Types == CallTypes \cup {"CONTROL_CHANNEL", "STATUS", "UNKNOWN"}

Messages ==
  [type : Types, talkgroup : Talkgroups \cup {0}, freq : Nat,
   phase2_tdma : BOOLEAN, tdma_slot : {-1, 0, 1}]

-----------------------------------------------------------------------------
(* The blocks of a site.                                                   *)

SingleOps == {"GRANT", "UU_V_GRANT", "UU_V_UPDATE"}
PairOps == {"UPDATE", "PATCH_UPDATE"}

\* A grant or a unit-to-unit message, an update of two calls (by talkgroup
\* or by supergroup), an explicit update with the channels to the units and
\* from them, the control channels, the network status, an identifier.
CallBlocks(s) ==
  [op : SingleOps, ch1 : Uses[s], ga1 : Talkgroups]
    \cup [op : {"UPDATE"}, ch1 : Uses[s], ga1 : Talkgroups,
          ch2 : Uses[s] \cup {NoChannel}, ga2 : Talkgroups]
    \cup [op : {"PATCH_UPDATE"}, ch1 : Uses[s], ga1 : Talkgroups,
          ch2 : Uses[s], ga2 : Talkgroups]
    \cup [op : {"EXPLICIT"}, ch1 : Uses[s], ga1 : Talkgroups,
          ch2 : Uses[s] \cup {NoChannel}]

ChannelBlocks(s) ==
  [op : {"SECONDARY", "MBT_STATUS"}, ch1 : Uses[s], ch2 : Uses[s]]
    \cup [op : {"STATUS"}, ch1 : Uses[s]]

\* 0x33 gives a type for the slots, 0x34 and 0x3d have no slots.
ChannelTypes(slots) == IF slots = 1 THEN {0, 1, 2} ELSE {3, 5}

Announcement(s, i, type) ==
  [op |-> "IDEN_TDMA", iden |-> i, channel_type |-> type,
   base |-> Plan[s][i].base, step |-> Plan[s][i].step]

PlainAnnouncement(s, i, op) ==
  [op |-> op, iden |-> i, base |-> Plan[s][i].base, step |-> Plan[s][i].step]

-----------------------------------------------------------------------------
(* The table.                                                              *)

slots_per_carrier == <<1, 1, 1, 2, 4, 2>>

TdmaEntry(b) ==
  [frequency |-> b.base, step |-> b.step,
   phase2_tdma |-> slots_per_carrier[b.channel_type + 1] > 1,
   slots_per_carrier |-> slots_per_carrier[b.channel_type + 1]]

PlainEntry(b) ==
  [frequency |-> b.base, step |-> b.step, phase2_tdma |-> FALSE,
   slots_per_carrier |-> IF b.op = "IDEN_VU" THEN 0 ELSE 1]

\* Mutant: one table for all systems.
AddedForAll(s, iden, entry) ==
  [z \in Systems |-> [channels[z] EXCEPT ![iden] = entry]]

\* The tables after add_channel.
Added(s, iden, entry) == [channels EXCEPT ![s][iden] = entry]

Found(s, ch) == channels[s][ch.iden] # NoEntry

channel_id_to_frequency(ch, s) ==
  LET entry == channels[s][ch.iden] IN
    IF ~Found(s, ch) THEN 0
    ELSE IF entry.phase2_tdma
    THEN entry.frequency + entry.step * (ch.number \div entry.slots_per_carrier)
    ELSE entry.frequency + entry.step * ch.number

get_tdma_slot(ch, s) ==
  IF Found(s, ch) /\ channels[s][ch.iden].phase2_tdma
  THEN ch.number % 2 ELSE -1

-----------------------------------------------------------------------------
(* decode_tsbk and decode_mbt_data.                                        *)

\* A call on ch.
CallMessage(type, s, ch, ga) ==
  LET slot == get_tdma_slot(ch, s) IN
    [type |-> type, talkgroup |-> ga, freq |-> channel_id_to_frequency(ch, s),
     phase2_tdma |-> slot >= 0, tdma_slot |-> IF slot >= 0 THEN slot ELSE 0]

\* The slot is that of the channel from the units.
ExplicitMessage(s, b) ==
  LET message == CallMessage("UPDATE", s, b.ch1, b.ga1) IN
    IF message.phase2_tdma
    THEN [message EXCEPT !.tdma_slot = get_tdma_slot(b.ch2, s)]
    ELSE message

PlainMessage(type, f) ==
  [type |-> type, talkgroup |-> 0, freq |-> f,
   phase2_tdma |-> FALSE, tdma_slot |-> 0]

Unknown == PlainMessage("UNKNOWN", 0)

\* Mutant: both frequencies must be known.
HasSecondKnown(s, b) ==
  /\ channel_id_to_frequency(b.ch1, s) # 0
  /\ channel_id_to_frequency(b.ch2, s) # 0
  /\ channel_id_to_frequency(b.ch1, s) # channel_id_to_frequency(b.ch2, s)

\* An update has a second call when it is on another frequency.
HasSecond(s, b) ==
  /\ channel_id_to_frequency(b.ch1, s) # channel_id_to_frequency(b.ch2, s)
  /\ b.op = "UPDATE" => b.ch2 # NoChannel

UpdateMessages(s, b) ==
  LET first == CallMessage("UPDATE", s, b.ch1, b.ga1) IN
    IF HasSecond(s, b)
    THEN <<first, CallMessage("UPDATE", s, b.ch2, b.ga2)>>
    ELSE <<first>>

\* Both channels of a block are known.
BothKnown(s, b) ==
  /\ channel_id_to_frequency(b.ch1, s) # 0
  /\ channel_id_to_frequency(b.ch2, s) # 0

ChannelMessages(s, b) ==
  IF b.op = "SECONDARY" /\ BothKnown(s, b)
  THEN <<PlainMessage("CONTROL_CHANNEL", channel_id_to_frequency(b.ch1, s)),
         PlainMessage("CONTROL_CHANNEL", channel_id_to_frequency(b.ch2, s))>>
  ELSE IF \/ b.op = "STATUS" /\ channel_id_to_frequency(b.ch1, s) # 0
          \/ b.op = "MBT_STATUS" /\ BothKnown(s, b)
  THEN <<PlainMessage("STATUS", channel_id_to_frequency(b.ch1, s))>>
  ELSE <<Unknown>>

Decoded(s, b) ==
  IF b.op \in SingleOps THEN <<CallMessage(b.op, s, b.ch1, b.ga1)>>
  ELSE IF b.op \in PairOps THEN UpdateMessages(s, b)
  ELSE IF b.op = "EXPLICIT" THEN <<ExplicitMessage(s, b)>>
  ELSE ChannelMessages(s, b)

-----------------------------------------------------------------------------

Init ==
  /\ channels = [s \in Systems |-> [i \in Idens |-> NoEntry]]
  /\ heard = [s \in Systems |-> {}]
  /\ report = <<>>

\* parse_message of an identifier update.
Learn(s, b, entry) ==
  /\ channels' = Added(s, b.iden, entry)
  /\ heard' = [heard EXCEPT ![s] = @ \cup {b.iden}]
  /\ report' = [system |-> s, block |-> b, messages |-> <<Unknown>>]

IdenUpdate(s) ==
  \E i \in Idens :
    /\ Plan[s][i] # Unused
    /\ \/ \E type \in ChannelTypes(Plan[s][i].slots) :
            LET b == Announcement(s, i, type) IN Learn(s, b, TdmaEntry(b))
       \/ /\ Plan[s][i].slots = 1
          /\ \E op \in {"IDEN", "IDEN_VU"} :
               LET b == PlainAnnouncement(s, i, op) IN Learn(s, b, PlainEntry(b))

\* parse_message of any other block.
Decode(s, b) ==
  /\ report' = [system |-> s, block |-> b, messages |-> Decoded(s, b)]
  /\ UNCHANGED <<channels, heard>>

DecodeCall(s) == \E b \in CallBlocks(s) : Decode(s, b)
DecodeChannel(s) == \E b \in ChannelBlocks(s) : Decode(s, b)

Next == \E s \in Systems : IdenUpdate(s) \/ DecodeCall(s) \/ DecodeChannel(s)

Spec == Init /\ [][Next]_vars

-----------------------------------------------------------------------------
(* Properties.                                                             *)

TypeOK ==
  /\ channels \in [Systems -> [Idens -> Entries]]
  /\ heard \in [Systems -> SUBSET Idens]
  /\ report # <<>> =>
       /\ report.system \in Systems
       /\ report.messages \in Seq(Messages)

\* What a site means by a channel.
Carrier(s, ch) ==
  Plan[s][ch.iden].base
    + Plan[s][ch.iden].step * (ch.number \div Plan[s][ch.iden].slots)
IsTdma(s, ch) == Plan[s][ch.iden].slots = 2
Slot(s, ch) == IF IsTdma(s, ch) THEN ch.number % 2 ELSE 0

\* The calls a block assigns, with their channels.
Calls(b) ==
  IF b.op \in PairOps
  THEN {<<b.ch1, b.ga1>>, <<b.ch2, b.ga2>>} \ {<<NoChannel, b.ga2>>}
  ELSE IF b.op \in SingleOps \cup {"EXPLICIT"} THEN {<<b.ch1, b.ga1>>}
  ELSE {}

Named(b) == IF b.op = "SECONDARY" THEN {b.ch1, b.ch2} ELSE {}

\* Every call with a frequency is on the carrier and in the slot that its own
\* site assigned to that talkgroup, whatever was lost and whichever systems
\* share the parser, and no control channel is reported that the site did not
\* name.  Only an explicit update takes its slot from elsewhere.
OwnChannels ==
  report # <<>> =>
    LET s == report.system
        b == report.block
    IN  \A i \in DOMAIN report.messages :
          LET message == report.messages[i] IN
            /\ message.type \in CallTypes /\ message.freq # 0 =>
                 \E call \in Calls(b) :
                   /\ message.talkgroup = call[2]
                   /\ message.freq = Carrier(s, call[1])
                   /\ message.phase2_tdma = IsTdma(s, call[1])
                   /\ b.op # "EXPLICIT" =>
                        message.tdma_slot = Slot(s, call[1])
            /\ message.type = "CONTROL_CHANNEL" =>
                 \E ch \in Named(b) : message.freq = Carrier(s, ch)

\* The messages of the block that was parsed last report a call.
Reported(ch, ga) ==
  \E i \in DOMAIN report.messages :
    /\ report.messages[i].type \in CallTypes
    /\ report.messages[i].talkgroup = ga
    /\ report.messages[i].freq = Carrier(report.system, ch)

\* No call is lost: once the identifier of its channel was heard, every call
\* a block assigns is reported, also when that of the other call was not.
\* The exception is an update of two calls on one carrier, where the code
\* takes the second for a repetition of the first and drops it.
CallsAreReported ==
  report # <<>> =>
    LET s == report.system
        b == report.block
    IN  \A call \in Calls(b) :
          call[1].iden \in heard[s] =>
            \/ Reported(call[1], call[2])
            \/ /\ b.op \in PairOps
               /\ call = <<b.ch2, b.ga2>>
               /\ Carrier(s, b.ch1) = Carrier(s, b.ch2)

=============================================================================
