---------------------------- MODULE P25ParserProofs ----------------------------
(***************************************************************************)
(* What the parser of P25 control channels reports is right for any number *)
(* of systems, channels and talkgroups, and any band plans.                *)
(*                                                                         *)
(* The strengthening is about the tables: an identifier that was heard has *)
(* the carriers and the slots of the plan of its own system, any other has *)
(* no entry.  What is reported then follows block by block.                *)
(***************************************************************************)
EXTENDS P25Parser, TLAPS

Matches(entry, plan) ==
  /\ plan \in BandPlans
  /\ entry.frequency = plan.base
  /\ entry.step = plan.step
  /\ entry.phase2_tdma <=> plan.slots = 2
  /\ plan.slots = 2 => entry.slots_per_carrier = 2

Tables == [Systems -> [Idens -> Entries]]

TableInv ==
  /\ channels \in Tables
  /\ heard \in [Systems -> SUBSET Idens]
  /\ \A s \in Systems : \A i \in Idens :
       IF i \in heard[s] THEN Matches(channels[s][i], Plan[s][i])
       ELSE channels[s][i] = NoEntry

LEMMA ChannelType ==
  ASSUME NEW ch \in Channels
  PROVE  /\ ch.iden \in Idens
         /\ ch.number \in Nat
         /\ ch.number % 2 \in {0, 1}
<1>1. ch.iden \in Idens
  BY DEF Channels
<1>2. ch.number \in 0..4095
  BY DEF Channels
<1>3. ch.number \in Nat
  <2>. DEFINE n == ch.number
  <2>1. n \in 0..4095
    BY <1>2
  <2>. HIDE DEF n
  <2>2. n \in Nat
    BY <2>1
  <2>. QED
    BY <2>2 DEF n
<1>4. \A n \in Nat : n % 2 \in {0, 1}
  OBVIOUS
<1>. QED
  BY <1>1, <1>3, <1>4

\* A product of natural numbers is one.
LEMMA Product ==
  ASSUME NEW a \in Nat, NEW b \in Nat
  PROVE  a * b \in Nat
  OBVIOUS

-----------------------------------------------------------------------------
(* What the table says of a channel.                                       *)

LEMMA EntryIsNotNone ==
  ASSUME TableInv, NEW s \in Systems, NEW ch \in Channels,
         ch.iden \in heard[s]
  PROVE  /\ Plan[s][ch.iden] \in BandPlans
         /\ Matches(channels[s][ch.iden], Plan[s][ch.iden])
         /\ Found(s, ch)
<1>1. ch.iden \in Idens
  BY ChannelType
<1>2. Matches(channels[s][ch.iden], Plan[s][ch.iden])
  BY <1>1 DEF TableInv
<1>3. Plan[s][ch.iden] \in BandPlans /\ channels[s][ch.iden].frequency # 0
  BY <1>2 DEF Matches, BandPlans
<1>4. channels[s][ch.iden] # NoEntry
  BY <1>3 DEF NoEntry
<1>. QED
  BY <1>2, <1>3, <1>4 DEF Found

\* A channel whose identifier was heard has the frequency and the slot that
\* its system gives it.
LEMMA KnownChannel ==
  ASSUME TableInv, NEW s \in Systems, NEW ch \in Channels,
         ch.iden \in heard[s]
  PROVE  /\ channel_id_to_frequency(ch, s) = Carrier(s, ch)
         /\ Carrier(s, ch) \in Nat
         /\ Carrier(s, ch) # 0
         /\ get_tdma_slot(ch, s) = IF IsTdma(s, ch) THEN ch.number % 2 ELSE -1
<1>. DEFINE entry == channels[s][ch.iden]
            plan == Plan[s][ch.iden]
<1>1. plan \in BandPlans /\ Matches(entry, plan) /\ Found(s, ch)
  BY EntryIsNotNone
<1>2. ch.number \in Nat
  BY ChannelType
<1>3. plan.base \in Nat /\ plan.base # 0 /\ plan.step \in Nat
      /\ plan.slots \in {1, 2}
  BY <1>1 DEF BandPlans
<1>4. ch.number \div plan.slots \in Nat
  BY <1>2, <1>3
<1>5. plan.step * (ch.number \div plan.slots) \in Nat
  BY <1>3, <1>4, Product
<1>6. Carrier(s, ch) \in Nat /\ Carrier(s, ch) # 0
  BY <1>3, <1>5 DEF Carrier
<1>7. get_tdma_slot(ch, s) = IF IsTdma(s, ch) THEN ch.number % 2 ELSE -1
  BY <1>1 DEF get_tdma_slot, IsTdma, Matches
<1>8. channel_id_to_frequency(ch, s) = Carrier(s, ch)
  <2>1. CASE plan.slots = 2
    <3>1. entry.phase2_tdma /\ entry.slots_per_carrier = 2
      BY <1>1, <2>1 DEF Matches
    <3>2. channel_id_to_frequency(ch, s)
            = entry.frequency + entry.step * (ch.number \div 2)
      BY <1>1, <3>1 DEF channel_id_to_frequency
    <3>. QED
      BY <1>1, <2>1, <3>2 DEF Carrier, Matches
  <2>2. CASE plan.slots = 1
    <3>1. ~entry.phase2_tdma
      BY <1>1, <2>2 DEF Matches
    <3>2. channel_id_to_frequency(ch, s)
            = entry.frequency + entry.step * ch.number
      BY <1>1, <3>1 DEF channel_id_to_frequency
    <3>3. ch.number \div 1 = ch.number
      BY <1>2
    <3>. QED
      BY <1>1, <2>2, <3>2, <3>3 DEF Carrier, Matches
  <2>. QED
    BY <1>3, <2>1, <2>2
<1>. QED
  BY <1>6, <1>7, <1>8

\* Any other channel has neither.
LEMMA UnknownChannel ==
  ASSUME TableInv, NEW s \in Systems, NEW ch \in Channels,
         ch.iden \notin heard[s]
  PROVE  /\ channel_id_to_frequency(ch, s) = 0
         /\ get_tdma_slot(ch, s) = -1
<1>1. ch.iden \in Idens
  BY ChannelType
<1>2. ~Found(s, ch)
  BY <1>1 DEF TableInv, Found
<1>. QED
  BY <1>2 DEF channel_id_to_frequency, get_tdma_slot

LEMMA FrequencyType ==
  ASSUME TableInv, NEW s \in Systems, NEW ch \in Channels
  PROVE  /\ channel_id_to_frequency(ch, s) \in Nat
         /\ get_tdma_slot(ch, s) \in {-1, 0, 1}
<1>1. CASE ch.iden \in heard[s]
  <2>1. ch.number % 2 \in {0, 1}
    BY ChannelType
  <2>. QED
    BY <1>1, <2>1, KnownChannel
<1>2. CASE ch.iden \notin heard[s]
  BY <1>2, UnknownChannel
<1>. QED
  BY <1>1, <1>2

-----------------------------------------------------------------------------
(* The messages.                                                           *)

\* The message of a call, whatever is known of its channel.
LEMMA CallMessageType ==
  ASSUME TableInv, NEW type \in CallTypes, NEW s \in Systems,
         NEW ch \in Channels, NEW ga \in Talkgroups
  PROVE  CallMessage(type, s, ch, ga) \in Messages
<1>1. channel_id_to_frequency(ch, s) \in Nat
      /\ get_tdma_slot(ch, s) \in {-1, 0, 1}
  BY FrequencyType
<1>2. type \in Types /\ ga \in Talkgroups \cup {0}
  BY DEF Types
<1>3. (get_tdma_slot(ch, s) >= 0) \in BOOLEAN
  OBVIOUS
<1>4. (IF get_tdma_slot(ch, s) >= 0 THEN get_tdma_slot(ch, s) ELSE 0)
        \in {-1, 0, 1}
  BY <1>1
<1>. QED
  BY <1>1, <1>2, <1>3, <1>4 DEF CallMessage, Messages

\* It has the talkgroup of the call and, if it has a frequency, the carrier
\* and the slot of the channel.
LEMMA CallMessageRight ==
  ASSUME TableInv, NEW type, NEW s \in Systems, NEW ch \in Channels, NEW ga
  PROVE  LET message == CallMessage(type, s, ch, ga) IN
           /\ message.type = type
           /\ message.talkgroup = ga
           /\ message.freq = channel_id_to_frequency(ch, s)
           /\ message.freq # 0 =>
                /\ message.freq = Carrier(s, ch)
                /\ message.phase2_tdma = IsTdma(s, ch)
                /\ message.tdma_slot = Slot(s, ch)
<1>. DEFINE message == CallMessage(type, s, ch, ga)
            slot == get_tdma_slot(ch, s)
<1>1. /\ message.type = type
      /\ message.talkgroup = ga
      /\ message.freq = channel_id_to_frequency(ch, s)
      /\ message.phase2_tdma = (slot >= 0)
      /\ message.tdma_slot = IF slot >= 0 THEN slot ELSE 0
  BY DEF CallMessage
<1>2. ASSUME message.freq # 0
      PROVE  /\ message.freq = Carrier(s, ch)
             /\ message.phase2_tdma = IsTdma(s, ch)
             /\ message.tdma_slot = Slot(s, ch)
  <2>1. ch.iden \in heard[s]
    BY <1>1, <1>2, UnknownChannel
  <2>2. /\ channel_id_to_frequency(ch, s) = Carrier(s, ch)
        /\ slot = IF IsTdma(s, ch) THEN ch.number % 2 ELSE -1
    BY <2>1, KnownChannel
  <2>3. ch.number % 2 \in {0, 1}
    BY ChannelType
  <2>4. CASE IsTdma(s, ch)
    <3>1. slot = ch.number % 2 /\ slot >= 0
      BY <2>2, <2>3, <2>4
    <3>2. message.phase2_tdma /\ message.tdma_slot = slot
      BY <1>1, <3>1
    <3>. QED
      BY <1>1, <2>2, <2>4, <3>1, <3>2 DEF Slot
  <2>5. CASE ~IsTdma(s, ch)
    <3>1. ~(slot >= 0)
      BY <2>2, <2>5
    <3>2. ~message.phase2_tdma /\ message.tdma_slot = 0
      BY <1>1, <3>1
    <3>3. message.phase2_tdma \in BOOLEAN /\ IsTdma(s, ch) \in BOOLEAN
      BY <1>1 DEF IsTdma
    <3>. QED
      BY <1>1, <2>2, <2>5, <3>2, <3>3 DEF Slot
  <2>. QED
    BY <2>4, <2>5
<1>. QED
  BY <1>1, <1>2

\* An explicit update differs from that in the slot only.
LEMMA ExplicitMessageRight ==
  ASSUME TableInv, NEW s \in Systems, NEW b,
         b.ch1 \in Channels, b.ch2 \in Channels, b.ga1 \in Talkgroups
  PROVE  LET message == ExplicitMessage(s, b)
             call == CallMessage("UPDATE", s, b.ch1, b.ga1)
         IN  /\ message \in Messages
             /\ message.type = call.type
             /\ message.talkgroup = call.talkgroup
             /\ message.freq = call.freq
             /\ message.phase2_tdma = call.phase2_tdma
<1>. DEFINE message == ExplicitMessage(s, b)
            call == CallMessage("UPDATE", s, b.ch1, b.ga1)
            slot == get_tdma_slot(b.ch2, s)
<1>1. call \in Messages
  BY CallMessageType DEF CallTypes
<1>2. slot \in {-1, 0, 1}
  BY FrequencyType
<1>3. message = IF call.phase2_tdma THEN [call EXCEPT !.tdma_slot = slot]
                ELSE call
  BY DEF ExplicitMessage
<1>. HIDE DEF message, call, slot
<1>4. /\ message \in Messages
      /\ message.type = call.type
      /\ message.talkgroup = call.talkgroup
      /\ message.freq = call.freq
      /\ message.phase2_tdma = call.phase2_tdma
  <2>1. CASE call.phase2_tdma
    <3>1. message = [call EXCEPT !.tdma_slot = slot]
      BY <1>3, <2>1
    <3>. QED
      BY <1>1, <1>2, <3>1 DEF Messages
  <2>2. CASE ~call.phase2_tdma
    BY <1>1, <1>3, <2>2
  <2>. QED
    BY <2>1, <2>2
<1>. QED
  BY <1>4 DEF message, call

LEMMA PlainMessageType ==
  ASSUME NEW type \in Types, NEW f \in Nat
  PROVE  PlainMessage(type, f) \in Messages
  BY DEF PlainMessage, Messages

-----------------------------------------------------------------------------
(* The blocks.                                                             *)

Blocks(s) == CallBlocks(s) \cup ChannelBlocks(s)

LEMMA UsesType ==
  ASSUME NEW s \in Systems
  PROVE  /\ NoChannel \in Channels
         /\ \A ch \in Uses[s] : ch \in Channels /\ ch # NoChannel
<1>1. NoChannel \in Channels
  BY DEF NoChannel, Channels, Idens
<1>. QED
  BY <1>1, PlanAssumption

LEMMA CallBlockType ==
  ASSUME NEW s \in Systems, NEW b \in CallBlocks(s)
  PROVE  /\ b.op \in SingleOps \cup PairOps \cup {"EXPLICIT"}
         /\ b.ch1 \in Channels /\ b.ch1 # NoChannel
         /\ b.ga1 \in Talkgroups
         /\ b.op \in PairOps => b.ch2 \in Channels /\ b.ga2 \in Talkgroups
         /\ b.op = "PATCH_UPDATE" => b.ch2 # NoChannel
         /\ b.op = "EXPLICIT" => b.ch2 \in Channels
<1>1. CASE b \in [op : SingleOps, ch1 : Uses[s], ga1 : Talkgroups]
  BY <1>1, UsesType DEF SingleOps, PairOps
<1>2. CASE b \in [op : {"UPDATE"}, ch1 : Uses[s], ga1 : Talkgroups,
                  ch2 : Uses[s] \cup {NoChannel}, ga2 : Talkgroups]
  BY <1>2, UsesType DEF SingleOps, PairOps
<1>3. CASE b \in [op : {"PATCH_UPDATE"}, ch1 : Uses[s], ga1 : Talkgroups,
                  ch2 : Uses[s], ga2 : Talkgroups]
  BY <1>3, UsesType DEF SingleOps, PairOps
<1>4. CASE b \in [op : {"EXPLICIT"}, ch1 : Uses[s], ga1 : Talkgroups,
                  ch2 : Uses[s] \cup {NoChannel}]
  BY <1>4, UsesType DEF SingleOps, PairOps
<1>. QED
  BY <1>1, <1>2, <1>3, <1>4 DEF CallBlocks

LEMMA ChannelBlockType ==
  ASSUME NEW s \in Systems, NEW b \in ChannelBlocks(s)
  PROVE  /\ b.op \in {"SECONDARY", "MBT_STATUS", "STATUS"}
         /\ b.ch1 \in Channels
         /\ b.op # "STATUS" => b.ch2 \in Channels
<1>1. CASE b \in [op : {"SECONDARY", "MBT_STATUS"}, ch1 : Uses[s], ch2 : Uses[s]]
  BY <1>1, UsesType
<1>2. CASE b \in [op : {"STATUS"}, ch1 : Uses[s]]
  BY <1>2, UsesType
<1>. QED
  BY <1>1, <1>2 DEF ChannelBlocks

\* One message of a block is right: OwnChannels.
Own(s, b, message) ==
  /\ message.type \in CallTypes /\ message.freq # 0 =>
       \E call \in Calls(b) :
         /\ message.talkgroup = call[2]
         /\ message.freq = Carrier(s, call[1])
         /\ message.phase2_tdma = IsTdma(s, call[1])
         /\ b.op # "EXPLICIT" => message.tdma_slot = Slot(s, call[1])
  /\ message.type = "CONTROL_CHANNEL" =>
       \E ch \in Named(b) : message.freq = Carrier(s, ch)

\* The messages report a call: Reported.
ReportedIn(s, messages, ch, ga) ==
  \E i \in DOMAIN messages :
    /\ messages[i].type \in CallTypes
    /\ messages[i].talkgroup = ga
    /\ messages[i].freq = Carrier(s, ch)

\* They report every call they must: CallsAreReported.
AllReported(s, b, messages) ==
  \A call \in Calls(b) :
    call[1].iden \in heard[s] =>
      \/ ReportedIn(s, messages, call[1], call[2])
      \/ /\ b.op \in PairOps
         /\ call = <<b.ch2, b.ga2>>
         /\ Carrier(s, b.ch1) = Carrier(s, b.ch2)

Right(s, b, messages) ==
  /\ messages \in Seq(Messages)
  /\ \A i \in DOMAIN messages : Own(s, b, messages[i])
  /\ AllReported(s, b, messages)

LEMMA OneMessage ==
  ASSUME NEW message, NEW s, NEW b,
         message \in Messages, Own(s, b, message)
  PROVE  /\ <<message>> \in Seq(Messages)
         /\ \A i \in DOMAIN <<message>> : Own(s, b, <<message>>[i])
         /\ DOMAIN <<message>> = {1} /\ <<message>>[1] = message
  OBVIOUS

LEMMA TwoMessages ==
  ASSUME NEW m1, NEW m2, NEW s, NEW b,
         m1 \in Messages, m2 \in Messages, Own(s, b, m1), Own(s, b, m2)
  PROVE  /\ <<m1, m2>> \in Seq(Messages)
         /\ \A i \in DOMAIN <<m1, m2>> : Own(s, b, <<m1, m2>>[i])
         /\ DOMAIN <<m1, m2>> = {1, 2}
         /\ <<m1, m2>>[1] = m1 /\ <<m1, m2>>[2] = m2
<1>1. DOMAIN <<m1, m2>> = {1, 2} /\ <<m1, m2>>[1] = m1 /\ <<m1, m2>>[2] = m2
  OBVIOUS
<1>2. <<m1, m2>> \in Seq(Messages)
  OBVIOUS
<1>. QED
  BY <1>1, <1>2

\* The message of one of the block's calls is right, and reports the call
\* when its identifier was heard.
LEMMA OwnCall ==
  ASSUME TableInv, NEW s \in Systems, NEW b, NEW type \in CallTypes,
         NEW ch \in Channels, NEW ga \in Talkgroups,
         <<ch, ga>> \in Calls(b)
  PROVE  LET message == CallMessage(type, s, ch, ga) IN
           /\ message \in Messages
           /\ Own(s, b, message)
           /\ message.type \in CallTypes /\ message.talkgroup = ga
           /\ ch.iden \in heard[s] => message.freq = Carrier(s, ch)
<1>. DEFINE message == CallMessage(type, s, ch, ga)
<1>1. message \in Messages
  BY CallMessageType
<1>2. /\ message.type = type
      /\ message.talkgroup = ga
      /\ message.freq = channel_id_to_frequency(ch, s)
      /\ message.freq # 0 =>
           /\ message.freq = Carrier(s, ch)
           /\ message.phase2_tdma = IsTdma(s, ch)
           /\ message.tdma_slot = Slot(s, ch)
  BY CallMessageRight
<1>. HIDE DEF message
<1>3. message.type # "CONTROL_CHANNEL"
  BY <1>2 DEF CallTypes
<1>4. <<ch, ga>>[1] = ch /\ <<ch, ga>>[2] = ga
  OBVIOUS
<1>5. Own(s, b, message)
  BY <1>2, <1>3, <1>4 DEF Own
<1>6. ch.iden \in heard[s] => message.freq = Carrier(s, ch)
  BY <1>2, KnownChannel
<1>7. message.type \in CallTypes
  BY <1>2
<1>. QED
  BY <1>1, <1>2, <1>5, <1>6, <1>7 DEF message

-----------------------------------------------------------------------------
(* What comes of each kind of block.                                       *)

LEMMA SingleIsRight ==
  ASSUME TableInv, NEW s \in Systems, NEW b \in CallBlocks(s),
         b.op \in SingleOps
  PROVE  Right(s, b, Decoded(s, b))
<1>. DEFINE message == CallMessage(b.op, s, b.ch1, b.ga1)
<1>1. b.ch1 \in Channels /\ b.ga1 \in Talkgroups /\ b.op \in CallTypes
  BY CallBlockType DEF SingleOps, CallTypes
<1>2. b.op \notin PairOps
  BY DEF SingleOps, PairOps
<1>3. Calls(b) = {<<b.ch1, b.ga1>>}
  BY <1>2 DEF Calls
<1>4. /\ message \in Messages
      /\ Own(s, b, message)
      /\ message.type \in CallTypes /\ message.talkgroup = b.ga1
      /\ b.ch1.iden \in heard[s] => message.freq = Carrier(s, b.ch1)
  <2>1. <<b.ch1, b.ga1>> \in Calls(b)
    BY <1>3
  <2>. QED
    BY <1>1, <2>1, OwnCall
<1>5. Decoded(s, b) = <<message>>
  BY DEF Decoded
<1>. HIDE DEF message
<1>6. /\ <<message>> \in Seq(Messages)
      /\ \A i \in DOMAIN <<message>> : Own(s, b, <<message>>[i])
      /\ DOMAIN <<message>> = {1} /\ <<message>>[1] = message
  BY <1>4, OneMessage
<1>7. ASSUME NEW call \in Calls(b), call[1].iden \in heard[s]
      PROVE  ReportedIn(s, <<message>>, call[1], call[2])
  <2>1. call[1] = b.ch1 /\ call[2] = b.ga1
    BY <1>3
  <2>. QED
    BY <1>4, <1>6, <1>7, <2>1 DEF ReportedIn
<1>. QED
  BY <1>5, <1>6, <1>7 DEF Right, AllReported

LEMMA ExplicitIsRight ==
  ASSUME TableInv, NEW s \in Systems, NEW b \in CallBlocks(s),
         b.op = "EXPLICIT"
  PROVE  Right(s, b, Decoded(s, b))
<1>. DEFINE message == ExplicitMessage(s, b)
            plain == CallMessage("UPDATE", s, b.ch1, b.ga1)
<1>1. b.ch1 \in Channels /\ b.ch2 \in Channels /\ b.ga1 \in Talkgroups
  BY CallBlockType
<1>2. b.op \notin PairOps /\ b.op \notin SingleOps
  BY DEF SingleOps, PairOps
<1>3. Calls(b) = {<<b.ch1, b.ga1>>}
  BY <1>2 DEF Calls
<1>4. "UPDATE" \in CallTypes
  BY DEF CallTypes
<1>5. /\ plain \in Messages
      /\ Own(s, b, plain)
      /\ plain.type \in CallTypes /\ plain.talkgroup = b.ga1
      /\ b.ch1.iden \in heard[s] => plain.freq = Carrier(s, b.ch1)
  <2>1. <<b.ch1, b.ga1>> \in Calls(b)
    BY <1>3
  <2>. QED
    BY <1>1, <1>4, <2>1, OwnCall
<1>6. /\ message \in Messages
      /\ message.type = plain.type
      /\ message.talkgroup = plain.talkgroup
      /\ message.freq = plain.freq
      /\ message.phase2_tdma = plain.phase2_tdma
  BY <1>1, ExplicitMessageRight
<1>7. Decoded(s, b) = <<message>>
  BY <1>2 DEF Decoded
<1>. HIDE DEF message, plain
<1>8. Own(s, b, message)
  BY <1>5, <1>6 DEF Own
<1>9. /\ <<message>> \in Seq(Messages)
      /\ \A i \in DOMAIN <<message>> : Own(s, b, <<message>>[i])
      /\ DOMAIN <<message>> = {1} /\ <<message>>[1] = message
  BY <1>6, <1>8, OneMessage
<1>10. ASSUME NEW call \in Calls(b), call[1].iden \in heard[s]
       PROVE  ReportedIn(s, <<message>>, call[1], call[2])
  <2>1. call[1] = b.ch1 /\ call[2] = b.ga1
    BY <1>3
  <2>. QED
    BY <1>5, <1>6, <1>9, <1>10, <2>1 DEF ReportedIn
<1>. QED
  BY <1>7, <1>9, <1>10 DEF Right, AllReported

LEMMA PairIsRight ==
  ASSUME TableInv, NEW s \in Systems, NEW b \in CallBlocks(s),
         b.op \in PairOps
  PROVE  Right(s, b, Decoded(s, b))
<1>. DEFINE m1 == CallMessage("UPDATE", s, b.ch1, b.ga1)
            m2 == CallMessage("UPDATE", s, b.ch2, b.ga2)
            f1 == channel_id_to_frequency(b.ch1, s)
            f2 == channel_id_to_frequency(b.ch2, s)
<1>1. /\ b.ch1 \in Channels /\ b.ch1 # NoChannel /\ b.ga1 \in Talkgroups
      /\ b.ch2 \in Channels /\ b.ga2 \in Talkgroups
      /\ b.op = "PATCH_UPDATE" => b.ch2 # NoChannel
  BY CallBlockType
<1>2. b.op \notin SingleOps
  BY DEF SingleOps, PairOps
<1>3. Calls(b) = {<<b.ch1, b.ga1>>, <<b.ch2, b.ga2>>} \ {<<NoChannel, b.ga2>>}
  BY DEF Calls
<1>4. "UPDATE" \in CallTypes
  BY DEF CallTypes
<1>5. <<b.ch1, b.ga1>> \in Calls(b)
  BY <1>1, <1>3
<1>6. /\ m1 \in Messages
      /\ Own(s, b, m1)
      /\ m1.type \in CallTypes /\ m1.talkgroup = b.ga1
      /\ b.ch1.iden \in heard[s] => m1.freq = Carrier(s, b.ch1)
  BY <1>1, <1>4, <1>5, OwnCall
<1>7. Decoded(s, b) = IF HasSecond(s, b) THEN <<m1, m2>> ELSE <<m1>>
  BY <1>2 DEF Decoded, UpdateMessages
<1>8. HasSecond(s, b) <=> f1 # f2 /\ (b.op = "UPDATE" => b.ch2 # NoChannel)
  BY DEF HasSecond
<1>9. \A call \in Calls(b) :
        \/ call[1] = b.ch1 /\ call[2] = b.ga1
        \/ /\ call = <<b.ch2, b.ga2>> /\ b.ch2 # NoChannel
           /\ call[1] = b.ch2 /\ call[2] = b.ga2
  BY <1>3
<1>10. CASE HasSecond(s, b)
  <2>1. b.ch2 # NoChannel
    BY <1>1, <1>8, <1>10 DEF PairOps
  <2>2. <<b.ch2, b.ga2>> \in Calls(b)
    BY <1>3, <2>1
  <2>3. /\ m2 \in Messages
        /\ Own(s, b, m2)
        /\ m2.type \in CallTypes /\ m2.talkgroup = b.ga2
        /\ b.ch2.iden \in heard[s] => m2.freq = Carrier(s, b.ch2)
    BY <1>1, <1>4, <2>2, OwnCall
  <2>. HIDE DEF m1, m2
  <2>4. /\ <<m1, m2>> \in Seq(Messages)
        /\ \A i \in DOMAIN <<m1, m2>> : Own(s, b, <<m1, m2>>[i])
        /\ DOMAIN <<m1, m2>> = {1, 2}
        /\ <<m1, m2>>[1] = m1 /\ <<m1, m2>>[2] = m2
    BY <1>6, <2>3, TwoMessages
  <2>5. b.ch1.iden \in heard[s] => ReportedIn(s, <<m1, m2>>, b.ch1, b.ga1)
    BY <1>6, <2>4 DEF ReportedIn
  <2>6. b.ch2.iden \in heard[s] => ReportedIn(s, <<m1, m2>>, b.ch2, b.ga2)
    BY <2>3, <2>4 DEF ReportedIn
  <2>7. AllReported(s, b, <<m1, m2>>)
    BY <1>9, <2>5, <2>6 DEF AllReported
  <2>. QED
    BY <1>7, <1>10, <2>4, <2>7 DEF Right
<1>11. CASE ~HasSecond(s, b)
  <2>. HIDE DEF m1, m2
  <2>1. /\ <<m1>> \in Seq(Messages)
        /\ \A i \in DOMAIN <<m1>> : Own(s, b, <<m1>>[i])
        /\ DOMAIN <<m1>> = {1} /\ <<m1>>[1] = m1
    BY <1>6, OneMessage
  <2>2. b.ch1.iden \in heard[s] => ReportedIn(s, <<m1>>, b.ch1, b.ga1)
    BY <1>6, <2>1 DEF ReportedIn
  <2>3. ASSUME b.ch2 # NoChannel, b.ch2.iden \in heard[s]
        PROVE  Carrier(s, b.ch1) = Carrier(s, b.ch2)
    <3>1. f1 = f2
      BY <1>8, <1>11, <2>3
    <3>2. f2 = Carrier(s, b.ch2) /\ Carrier(s, b.ch2) # 0
      BY <1>1, <2>3, KnownChannel
    <3>3. b.ch1.iden \in heard[s]
      BY <1>1, <3>1, <3>2, UnknownChannel
    <3>4. f1 = Carrier(s, b.ch1)
      BY <1>1, <3>3, KnownChannel
    <3>. QED
      BY <3>1, <3>2, <3>4
  <2>4. AllReported(s, b, <<m1>>)
    BY <1>9, <2>2, <2>3 DEF AllReported
  <2>. QED
    BY <1>7, <1>11, <2>1, <2>4 DEF Right
<1>. QED
  BY <1>10, <1>11

LEMMA ChannelIsRight ==
  ASSUME TableInv, NEW s \in Systems, NEW b \in ChannelBlocks(s)
  PROVE  Right(s, b, Decoded(s, b))
<1>. DEFINE f1 == channel_id_to_frequency(b.ch1, s)
            f2 == channel_id_to_frequency(b.ch2, s)
<1>1. /\ b.op \in {"SECONDARY", "MBT_STATUS", "STATUS"}
      /\ b.ch1 \in Channels
      /\ b.op # "STATUS" => b.ch2 \in Channels
  BY ChannelBlockType
<1>2. b.op \notin SingleOps \cup PairOps \cup {"EXPLICIT"}
  BY <1>1 DEF SingleOps, PairOps
<1>3. Decoded(s, b) = ChannelMessages(s, b) /\ Calls(b) = {}
  BY <1>2 DEF Decoded, Calls
<1>4. f1 \in Nat
  BY <1>1, FrequencyType
<1>5. "UNKNOWN" \in Types /\ "STATUS" \in Types /\ "CONTROL_CHANNEL" \in Types
  BY DEF Types
<1>6. AllReported(s, b, Decoded(s, b))
  BY <1>3 DEF AllReported
<1>7. \A f : \A type \in {"UNKNOWN", "STATUS"} : Own(s, b, PlainMessage(type, f))
  BY DEF Own, PlainMessage, CallTypes
<1>8. CASE b.op = "SECONDARY" /\ BothKnown(s, b)
  <2>. DEFINE m1 == PlainMessage("CONTROL_CHANNEL", f1)
              m2 == PlainMessage("CONTROL_CHANNEL", f2)
  <2>1. Decoded(s, b) = <<m1, m2>>
    BY <1>3, <1>8 DEF ChannelMessages
  <2>2. f1 # 0 /\ f2 # 0 /\ b.ch2 \in Channels
    BY <1>1, <1>8 DEF BothKnown
  <2>3. f1 = Carrier(s, b.ch1) /\ f2 = Carrier(s, b.ch2)
    BY <1>1, <2>2, KnownChannel, UnknownChannel
  <2>4. f2 \in Nat
    BY <2>2, FrequencyType
  <2>5. m1 \in Messages /\ m2 \in Messages
    BY <1>4, <1>5, <2>4, PlainMessageType
  <2>6. Named(b) = {b.ch1, b.ch2}
    BY <1>8 DEF Named
  <2>7. /\ m1.type = "CONTROL_CHANNEL" /\ m1.freq = f1
        /\ m2.type = "CONTROL_CHANNEL" /\ m2.freq = f2
    BY DEF PlainMessage
  <2>. HIDE DEF m1, m2
  <2>8. Own(s, b, m1) /\ Own(s, b, m2)
    BY <2>3, <2>6, <2>7 DEF Own, CallTypes
  <2>. QED
    BY <1>6, <2>1, <2>5, <2>8, TwoMessages DEF Right
<1>9. CASE /\ ~(b.op = "SECONDARY" /\ BothKnown(s, b))
           /\ \/ b.op = "STATUS" /\ f1 # 0
              \/ b.op = "MBT_STATUS" /\ BothKnown(s, b)
  <2>. DEFINE message == PlainMessage("STATUS", f1)
  <2>1. Decoded(s, b) = <<message>>
    BY <1>3, <1>9 DEF ChannelMessages
  <2>2. message \in Messages /\ Own(s, b, message)
    BY <1>4, <1>5, <1>7, PlainMessageType
  <2>. HIDE DEF message
  <2>. QED
    BY <1>6, <2>1, <2>2, OneMessage DEF Right
<1>10. CASE /\ ~(b.op = "SECONDARY" /\ BothKnown(s, b))
            /\ ~(b.op = "STATUS" /\ f1 # 0)
            /\ ~(b.op = "MBT_STATUS" /\ BothKnown(s, b))
  <2>1. Decoded(s, b) = <<Unknown>>
    BY <1>3, <1>10 DEF ChannelMessages
  <2>2. Unknown \in Messages /\ Own(s, b, Unknown)
    BY <1>5, <1>7, PlainMessageType DEF Unknown
  <2>. QED
    BY <1>6, <2>1, <2>2, OneMessage DEF Right
<1>. QED
  BY <1>8, <1>9, <1>10

LEMMA BlockIsRight ==
  ASSUME TableInv, NEW s \in Systems, NEW b \in Blocks(s)
  PROVE  Right(s, b, Decoded(s, b))
<1>1. CASE b \in CallBlocks(s)
  <2>1. b.op \in SingleOps \cup PairOps \cup {"EXPLICIT"}
    BY <1>1, CallBlockType
  <2>. QED
    BY <1>1, <2>1, SingleIsRight, PairIsRight, ExplicitIsRight
<1>2. CASE b \in ChannelBlocks(s)
  BY <1>2, ChannelIsRight
<1>. QED
  BY <1>1, <1>2 DEF Blocks

-----------------------------------------------------------------------------
(* The invariant.                                                          *)

\* After every block the report is right by the table that it was made from.
ReportInv ==
  report # <<>> =>
    /\ report.system \in Systems
    /\ Right(report.system, report.block, report.messages)

Inv == TableInv /\ ReportInv

LEMMA InitEstablishes ==
  ASSUME Init
  PROVE  Inv
<1>1. NoEntry \in Entries
  BY DEF NoEntry, Entries
<1>2. channels \in Tables
  BY <1>1 DEF Init, Tables
<1>3. heard \in [Systems -> SUBSET Idens]
  BY DEF Init
<1>4. \A s \in Systems : \A i \in Idens :
        i \notin heard[s] /\ channels[s][i] = NoEntry
  BY DEF Init
<1>5. TableInv
  BY <1>2, <1>3, <1>4 DEF TableInv
<1>6. ReportInv
  BY DEF Init, ReportInv
<1>. QED
  BY <1>5, <1>6 DEF Inv

\* An identifier update that says what the plan is.
LEMMA LearnPreserves ==
  ASSUME TableInv, NEW s \in Systems, NEW b, NEW entry \in Entries,
         b.iden \in Idens, b.op \in {"IDEN", "IDEN_VU", "IDEN_TDMA"},
         Matches(entry, Plan[s][b.iden]),
         Learn(s, b, entry)
  PROVE  TableInv' /\ ReportInv'
<1>1. channels' = [channels EXCEPT ![s][b.iden] = entry]
      /\ heard' = [heard EXCEPT ![s] = @ \cup {b.iden}]
  BY DEF Learn, Added
<1>2. channels' \in Tables
  BY <1>1 DEF TableInv, Tables
<1>3. heard' \in [Systems -> SUBSET Idens]
  BY <1>1 DEF TableInv
<1>4. ASSUME NEW z \in Systems, NEW i \in Idens
      PROVE  IF i \in heard'[z] THEN Matches(channels'[z][i], Plan[z][i])
             ELSE channels'[z][i] = NoEntry
  <2>1. CASE z = s /\ i = b.iden
    <3>1. channels'[z][i] = entry /\ i \in heard'[z]
      BY <1>1, <2>1 DEF TableInv, Tables
    <3>. QED
      BY <2>1, <3>1
  <2>2. CASE ~(z = s /\ i = b.iden)
    <3>1. channels'[z][i] = channels[z][i]
      BY <1>1, <2>2 DEF TableInv, Tables
    <3>2. i \in heard'[z] <=> i \in heard[z]
      BY <1>1, <2>2 DEF TableInv
    <3>. QED
      BY <3>1, <3>2 DEF TableInv
  <2>. QED
    BY <2>1, <2>2
<1>5. TableInv'
  BY <1>2, <1>3, <1>4 DEF TableInv
<1>6. report' = [system |-> s, block |-> b, messages |-> <<Unknown>>]
  BY DEF Learn
<1>7. "UNKNOWN" \in Types /\ 0 \in Nat
  BY DEF Types
<1>8. Unknown \in Messages
  BY <1>7, PlainMessageType DEF Unknown
<1>9. Own(s, b, Unknown)
  BY DEF Own, Unknown, PlainMessage, CallTypes
<1>10. <<Unknown>> \in Seq(Messages)
       /\ \A i \in DOMAIN <<Unknown>> : Own(s, b, <<Unknown>>[i])
  BY <1>8, <1>9, OneMessage
<1>11. Calls(b) = {}
  BY DEF Calls, SingleOps, PairOps
<1>12. ReportInv'
  BY <1>6, <1>10, <1>11 DEF ReportInv, Right, AllReported, Own
<1>. QED
  BY <1>5, <1>12

LEMMA IdenUpdatePreserves ==
  ASSUME TableInv, NEW s \in Systems, IdenUpdate(s)
  PROVE  TableInv' /\ ReportInv'
<1>1. PICK i \in Idens :
        /\ Plan[s][i] # Unused
        /\ \/ \E type \in ChannelTypes(Plan[s][i].slots) :
                Learn(s, Announcement(s, i, type), TdmaEntry(Announcement(s, i, type)))
           \/ /\ Plan[s][i].slots = 1
              /\ \E op \in {"IDEN", "IDEN_VU"} :
                   Learn(s, PlainAnnouncement(s, i, op),
                         PlainEntry(PlainAnnouncement(s, i, op)))
  BY DEF IdenUpdate
<1>. DEFINE plan == Plan[s][i]
<1>2. plan \in BandPlans
  BY <1>1, PlanAssumption
<1>3. plan.base \in Nat /\ plan.step \in Nat /\ plan.slots \in {1, 2}
  BY <1>2 DEF BandPlans
<1>4. ASSUME NEW type \in ChannelTypes(plan.slots),
             Learn(s, Announcement(s, i, type), TdmaEntry(Announcement(s, i, type)))
      PROVE  TableInv' /\ ReportInv'
  <2>. DEFINE b == Announcement(s, i, type)
              entry == TdmaEntry(b)
              count == slots_per_carrier[type + 1]
  <2>1. /\ b.iden = i /\ b.op = "IDEN_TDMA" /\ b.channel_type = type
        /\ b.base = plan.base /\ b.step = plan.step
    BY DEF Announcement
  <2>2. count = plan.slots
    <3>1. CASE plan.slots = 1
      <4>1. type \in {0, 1, 2}
        BY <3>1 DEF ChannelTypes
      <4>. QED
        BY <3>1, <4>1 DEF slots_per_carrier
    <3>2. CASE plan.slots = 2
      <4>1. type \in {3, 5}
        BY <3>2 DEF ChannelTypes
      <4>. QED
        BY <3>2, <4>1 DEF slots_per_carrier
    <3>. QED
      BY <1>3, <3>1, <3>2
  <2>3. entry = [frequency |-> plan.base, step |-> plan.step,
                 phase2_tdma |-> count > 1, slots_per_carrier |-> count]
    BY <2>1 DEF TdmaEntry
  <2>4. count \in 0..4 /\ (count > 1) \in BOOLEAN
        /\ (count > 1 <=> plan.slots = 2)
    BY <1>3, <2>2
  <2>. HIDE DEF b, entry, count
  <2>5. entry \in Entries
    BY <1>3, <2>3, <2>4 DEF Entries
  <2>6. Matches(entry, plan)
    BY <1>2, <2>2, <2>3, <2>4 DEF Matches
  <2>. QED
    BY <1>4, <2>1, <2>5, <2>6, LearnPreserves DEF b, entry
<1>5. ASSUME plan.slots = 1, NEW op \in {"IDEN", "IDEN_VU"},
             Learn(s, PlainAnnouncement(s, i, op),
                   PlainEntry(PlainAnnouncement(s, i, op)))
      PROVE  TableInv' /\ ReportInv'
  <2>. DEFINE b == PlainAnnouncement(s, i, op)
              entry == PlainEntry(b)
  <2>1. b.iden = i /\ b.op = op /\ b.base = plan.base /\ b.step = plan.step
    BY DEF PlainAnnouncement
  <2>2. entry = [frequency |-> plan.base, step |-> plan.step, phase2_tdma |-> FALSE,
                 slots_per_carrier |-> IF b.op = "IDEN_VU" THEN 0 ELSE 1]
    BY <2>1 DEF PlainEntry
  <2>3. (IF b.op = "IDEN_VU" THEN 0 ELSE 1) \in 0..4
    OBVIOUS
  <2>. HIDE DEF b, entry
  <2>4. entry \in Entries
    BY <1>3, <2>2, <2>3 DEF Entries
  <2>5. Matches(entry, plan)
    BY <1>2, <1>5, <2>2 DEF Matches
  <2>. QED
    BY <1>5, <2>1, <2>4, <2>5, LearnPreserves DEF b, entry
<1>. QED
  BY <1>1, <1>4, <1>5

LEMMA DecodePreserves ==
  ASSUME TableInv, NEW s \in Systems, NEW b \in Blocks(s), Decode(s, b)
  PROVE  TableInv' /\ ReportInv'
<1>1. channels' = channels /\ heard' = heard
  BY DEF Decode
<1>2. TableInv'
  BY <1>1 DEF TableInv
<1>. DEFINE messages == Decoded(s, b)
<1>3. Right(s, b, messages)
  BY BlockIsRight
<1>4. report' = [system |-> s, block |-> b, messages |-> messages]
  BY DEF Decode
<1>. HIDE DEF messages
<1>5. /\ messages \in Seq(Messages)
      /\ \A i \in DOMAIN messages : Own(s, b, messages[i])
      /\ \A call \in Calls(b) :
           call[1].iden \in heard[s] =>
             \/ ReportedIn(s, messages, call[1], call[2])
             \/ /\ b.op \in PairOps
                /\ call = <<b.ch2, b.ga2>>
                /\ Carrier(s, b.ch1) = Carrier(s, b.ch2)
  BY <1>3 DEF Right, AllReported
<1>6. report'.system = s /\ report'.block = b /\ report'.messages = messages
  BY <1>4
<1>7. ReportInv'
  BY <1>1, <1>5, <1>6 DEF ReportInv, Right, AllReported
<1>. QED
  BY <1>2, <1>7

LEMMA NextPreserves ==
  ASSUME Inv, [Next]_vars
  PROVE  Inv'
<1>1. TableInv
  BY DEF Inv
<1>2. CASE UNCHANGED vars
  <2>1. channels' = channels /\ heard' = heard /\ report' = report
    BY <1>2 DEF vars
  <2>2. TableInv'
    BY <1>1, <2>1 DEF TableInv
  <2>3. ReportInv'
    BY <2>1 DEF Inv, ReportInv, Right, AllReported
  <2>. QED
    BY <2>2, <2>3 DEF Inv
<1>3. ASSUME NEW s \in Systems, IdenUpdate(s)
      PROVE  Inv'
  BY <1>1, <1>3, IdenUpdatePreserves DEF Inv
<1>4. ASSUME NEW s \in Systems, DecodeCall(s)
      PROVE  Inv'
  <2>1. PICK b \in CallBlocks(s) : Decode(s, b)
    BY <1>4 DEF DecodeCall
  <2>2. b \in Blocks(s)
    BY DEF Blocks
  <2>. QED
    BY <1>1, <2>1, <2>2, DecodePreserves DEF Inv
<1>5. ASSUME NEW s \in Systems, DecodeChannel(s)
      PROVE  Inv'
  <2>1. PICK b \in ChannelBlocks(s) : Decode(s, b)
    BY <1>5 DEF DecodeChannel
  <2>2. b \in Blocks(s)
    BY DEF Blocks
  <2>. QED
    BY <1>1, <2>1, <2>2, DecodePreserves DEF Inv
<1>. QED
  BY <1>2, <1>3, <1>4, <1>5 DEF Next

\* Every reachable table holds the plan of its own system, and the last
\* report is right by it.
THEOREM Invariance == Spec => []Inv
<1>1. Init => Inv
  BY InitEstablishes
<1>2. Inv /\ [Next]_vars => Inv'
  BY NextPreserves
<1>. QED
  BY <1>1, <1>2, PTL DEF Spec

\* The tables, the history and the messages have their types.
THEOREM TypeCorrect == Spec => []TypeOK
<1>1. Inv => TypeOK
  BY DEF Inv, TableInv, Tables, ReportInv, Right, TypeOK
<1>. QED
  BY <1>1, Invariance, PTL

\* A call is never reported on a frequency, or in a slot, other than those its
\* own site assigned to it, and no control channel that the site did not name:
\* the parser's table is shared by all systems and any block may be lost.
THEOREM ChannelsAreOwn == Spec => []OwnChannels
<1>1. Inv => OwnChannels
  BY DEF Inv, ReportInv, Right, Own, OwnChannels
<1>. QED
  BY <1>1, Invariance, PTL

\* Once the identifier of its channel was heard, a call is reported whenever a
\* block assigns it, except for the second of two calls on one carrier.
THEOREM EveryCallIsReported == Spec => []CallsAreReported
<1>1. Inv => CallsAreReported
  BY DEF Inv, ReportInv, Right, AllReported, ReportedIn, Reported,
         CallsAreReported
<1>. QED
  BY <1>1, Invariance, PTL

=============================================================================
