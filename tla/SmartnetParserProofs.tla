------------------------ MODULE SmartnetParserProofs ------------------------
(***************************************************************************)
(* Proofs about SmartnetParser, for all systems, band plans and words.     *)
(***************************************************************************)
EXTENDS SmartnetParser, SequenceTheorems, TLAPS

(* In the 800 MHz band a command that is_chan_outbound accepts has a       *)
(* frequency in every band plan: getfreq knows the same ranges.            *)
THEOREM ChannelsHaveFrequencies ==
  ASSUME NEW plan, plan.bandfreq = 800, NEW cmd \in 0 .. \h3ff
  PROVE  is_chan_outbound(cmd, plan) <=> getfreq(cmd, plan) # 0
  BY DEF is_chan_outbound, getfreq, Freq800, Channels800

(* No two channels of a band plan share a frequency, although the splinter *)
(* and rebanded parts are shifted against the rest.                        *)
THEOREM FrequenciesAreDistinct ==
  ASSUME NEW plan, plan.bandfreq = 800,
         NEW c \in Channels800, NEW d \in Channels800,
         getfreq(c, plan) = getfreq(d, plan)
  PROVE  c = d
  BY DEF getfreq, Freq800, Channels800

-----------------------------------------------------------------------------
(* Types.                                                                  *)

\* The command field of a word.
Commands == 0 .. \h3ff

LEMMA PlanType ==
  ASSUME NEW s \in Systems
  PROVE  Plan[s] \in [bandfreq : {800, 400}, bandplan : BandPlans,
                      offset : 0 .. 380, base : Nat, high : Nat, spacing : Nat]
  BY ParserAssumption

LEMMA WordFields ==
  ASSUME NEW w \in Words
  PROVE  /\ w.cmd \in 0 .. \h3ff
         /\ w.grp \in BOOLEAN
         /\ w.full_address \in Nat
  BY ParserAssumption

LEMMA FrequencyType ==
  ASSUME NEW s \in Systems, NEW cmd \in Commands
  PROVE  getfreq(cmd, Plan[s]) \in Nat
<1>0. cmd \in 0 .. \h3ff
  BY DEF Commands
<1>1. /\ Plan[s].offset \in Nat
      /\ Plan[s].base \in Nat
      /\ Plan[s].spacing \in Nat
  BY PlanType
<1>2. Freq800(cmd, Plan[s].bandplan) \in Nat
  BY <1>0 DEF Freq800
<1>3. ASSUME cmd >= Plan[s].offset
      PROVE  Plan[s].base + Plan[s].spacing * (cmd - Plan[s].offset) \in Nat
  <2>1. cmd - Plan[s].offset \in Nat
    BY <1>0, <1>1, <1>3
  <2>2. \A i, j \in Nat : i * j \in Nat
    OBVIOUS
  <2>3. Plan[s].spacing * (cmd - Plan[s].offset) \in Nat
    BY <1>1, <2>1, <2>2
  <2> QED
    BY <1>1, <2>3
<1> QED
  BY <1>2, <1>3 DEF getfreq

\* What a step does to the stack.
LEMMA StepTypes ==
  ASSUME TypeOK, NEW s \in Systems, NEW w \in Words, parse_message(w, s)
  PROVE  /\ stack' \in [0 .. 3 -> Words \cup {NoWord}]
         /\ stack'[0] = w
         /\ \A i \in 0 .. 2 : i < numStacked => stack'[i + 1] = stack[i]
         /\ numStacked' = IF numStacked < 5 THEN numStacked + 1 ELSE 5
         /\ \A i \in 0 .. 3 : stack'[i] # NoWord <=> i < numStacked'
<1>1. /\ stack \in [0 .. 3 -> Words \cup {NoWord}]
      /\ numStacked \in 0 .. 5
      /\ \A i \in 0 .. 3 : stack[i] # NoWord <=> i < numStacked
  BY DEF TypeOK
<1>2. stack' = Shifted(w) /\ numStacked' = Stacked(numStacked)
  BY DEF parse_message
<1>3. w # NoWord
  BY ParserAssumption
<1>4. numStacked' = IF numStacked < 5 THEN numStacked + 1 ELSE 5
  BY <1>1, <1>2 DEF Stacked
<1>5. /\ stack'[0] = w
      /\ \A i \in 1 .. 3 : stack'[i] = IF i <= numStacked THEN stack[i - 1]
                                                         ELSE stack[i]
  BY <1>2 DEF Shifted
<1>6. \A i \in 1 .. 3 : i - 1 \in 0 .. 3
  OBVIOUS
<1>7. stack' \in [0 .. 3 -> Words \cup {NoWord}]
  BY <1>1, <1>2, <1>6 DEF Shifted
<1>8. \A i \in 0 .. 3 : stack'[i] # NoWord <=> i < numStacked'
  BY <1>1, <1>3, <1>4, <1>5
<1> QED
  BY <1>1, <1>4, <1>5, <1>7, <1>8

LEMMA AddressTypes ==
  ASSUME NEW w \in Words
  PROVE  status(w) \in 0 .. 15 /\ address(w) \in Nat
<1>1. \A n \in Nat : n % 16 \in 0 .. 15 /\ n - (n % 16) \in Nat
  OBVIOUS
<1> QED
  BY <1>1, WordFields DEF status, address

LEMMA MessageType ==
  ASSUME NEW s \in Systems, NEW a \in Words, NEW b \in Words
  PROVE  /\ Unknown(s) \in TrunkMessages
         /\ MessageOf(a, b, s) \in TrunkMessages
<1>1. Unknown(s) \in TrunkMessages
  BY DEF Unknown, TrunkMessages, Types
<1>2. ASSUME NEW type \in Types, NEW w \in Words, NEW source \in {-1} \cup Nat
      PROVE  CallMessage(type, w, source, s) \in TrunkMessages
  <2>1. getfreq(w.cmd, Plan[s]) \in Nat
    <3>1. w.cmd \in Commands
      BY WordFields DEF Commands
    <3> QED BY <3>1, FrequencyType, Zenon
  <2>2. /\ (status(w) >= 8) \in BOOLEAN
        /\ (status(w) \in {2, 4, 5, 10, 12, 13}) \in BOOLEAN
    BY AddressTypes
  <2> QED
    BY <1>2, <2>1, <2>2, AddressTypes, Zenon DEF CallMessage, TrunkMessages
<1>3. ASSUME NEW type \in Types, NEW source \in Nat, NEW talkgroup \in Nat
      PROVE  UnitMessage(type, source, talkgroup, s) \in TrunkMessages
  BY <1>3 DEF UnitMessage, TrunkMessages
<1>4. ASSUME NEW cmd \in 0 .. \h2f6, NEW sys_id \in Nat
      PROVE  SysIdMessage(cmd, sys_id, s) \in TrunkMessages
  <2>1. cmd \in Commands
    BY <1>4 DEF Commands
  <2>2. getfreq(cmd, Plan[s]) \in Nat
    BY <2>1, FrequencyType, Zenon
  <2>3. "SYSID" \in Types /\ 0 \in Nat /\ FALSE \in BOOLEAN
    BY DEF Types
  <2> QED
    BY <1>4, <2>2, <2>3, Zenon DEF SysIdMessage, TrunkMessages
<1>5. a.full_address \in Nat
  BY WordFields
<1>6. ExtendedMessage(a, b, s) \in TrunkMessages
  <2>1. /\ UnitMessage("REGISTRATION", a.full_address, 0, s) \in TrunkMessages
        /\ UnitMessage("DEREGISTRATION", a.full_address, 0, s) \in TrunkMessages
    BY <1>3, <1>5 DEF Types
  <2>2. \A cmd \in 0 .. \h2f6 :
          SysIdMessage(cmd, a.full_address, s) \in TrunkMessages
    BY <1>4, <1>5, Zenon
  <2> DEFINE cmd == b.full_address - \h2800
  <2>3. CASE b.full_address \in {\h261b, \h261c}
    BY <2>1, <2>3 DEF ExtendedMessage
  <2>4. CASE b.full_address \notin {\h261b, \h261c} /\ cmd \in 0 .. \h2f6
    <3>1. SysIdMessage(cmd, a.full_address, s) \in TrunkMessages
      BY <2>2, <2>4
    <3>2. ExtendedMessage(a, b, s) = SysIdMessage(cmd, a.full_address, s)
      BY <2>4 DEF ExtendedMessage
    <3> QED
      BY <3>1, <3>2
  <2>5. CASE b.full_address \notin {\h261b, \h261c} /\ cmd \notin 0 .. \h2f6
    BY <1>1, <2>5 DEF ExtendedMessage
  <2> QED
    BY <2>3, <2>4, <2>5
<1>7. /\ CallMessage("UPDATE", a, -1, s) \in TrunkMessages
      /\ CallMessage("GRANT", b, a.full_address, s) \in TrunkMessages
  BY <1>2, <1>5 DEF Types
<1>8. UnitMessage("AFFILIATION", a.full_address, address(b), s) \in TrunkMessages
  BY <1>3, <1>5, AddressTypes DEF Types
<1> QED
  BY <1>1, <1>6, <1>7, <1>8 DEF MessageOf

-----------------------------------------------------------------------------
(* The type invariant.                                                     *)

LEMMA ExtraType ==
  ASSUME NEW a, NEW b, NEW c, NEW plan
  PROVE  Extra(a, b, c, plan) \in 0 .. 2
  BY DEF Extra

LEMMA Prefixes ==
  ASSUME NEW a \in Words, NEW b \in Words, NEW c \in Words
  PROVE  /\ SubSeq(<<a, b, c>>, 1, 1) = <<a>>
         /\ SubSeq(<<a, b, c>>, 1, 2) = <<a, b>>
         /\ SubSeq(<<a, b, c>>, 1, 3) = <<a, b, c>>
<1>1. <<a, b, c>> \in Seq(Words) /\ Len(<<a, b, c>>) = 3
  OBVIOUS
<1>2. ASSUME NEW n \in 1 .. 3
      PROVE  /\ SubSeq(<<a, b, c>>, 1, n) \in Seq(Words)
             /\ Len(SubSeq(<<a, b, c>>, 1, n)) = n
             /\ \A i \in 1 .. n : SubSeq(<<a, b, c>>, 1, n)[i] = <<a, b, c>>[i]
  <2>1. \A i \in 1 .. n : <<a, b, c>>[i] \in Words
    OBVIOUS
  <2> QED
    BY <2>1, SubSeqProperties
<1>3. SubSeq(<<a, b, c>>, 1, 1) = <<a>>
  <2> DEFINE t == SubSeq(<<a, b, c>>, 1, 1)
  <2>1. t \in Seq(Words) /\ Len(t) = 1 /\ t[1] = a
    BY <1>2
  <2>2. <<a>> \in Seq(Words) /\ Len(<<a>>) = 1 /\ <<a>>[1] = a
    OBVIOUS
  <2> HIDE DEF t
  <2>3. t = <<a>>
    BY <2>1, <2>2, SeqEqual
  <2> QED
    BY <2>3 DEF t
<1>4. SubSeq(<<a, b, c>>, 1, 2) = <<a, b>>
  <2> DEFINE t == SubSeq(<<a, b, c>>, 1, 2)
  <2>1. t \in Seq(Words) /\ Len(t) = 2 /\ t[1] = a /\ t[2] = b
    BY <1>2
  <2>2. /\ <<a, b>> \in Seq(Words) /\ Len(<<a, b>>) = 2
        /\ <<a, b>>[1] = a /\ <<a, b>>[2] = b
    OBVIOUS
  <2> HIDE DEF t
  <2>3. t = <<a, b>>
    BY <2>1, <2>2, SeqEqual
  <2> QED
    BY <2>3 DEF t
<1>5. SubSeq(<<a, b, c>>, 1, 3) = <<a, b, c>>
  BY <1>1, SubSeqFull
<1> QED
  BY <1>3, <1>4, <1>5

\* A call that is not skipped: the stack was full enough, so that the three
\* words that are looked at are words, and what is taken is a part of them.
LEMMA ParsingStep ==
  ASSUME TypeOK, ~Skips, NEW s \in Systems, NEW w \in Words,
         parse_message(w, s)
  PROVE  /\ numStacked >= 3
         /\ stack[2] \in Words /\ stack[1] \in Words /\ stack[0] \in Words
         /\ stack'[3] = stack[2] /\ stack'[2] = stack[1]
         /\ stack'[1] = stack[0] /\ stack'[0] = w
         /\ numConsumed' = Extra(stack[2], stack[1], stack[0], Plan[s])
         /\ message' = MessageOf(stack[2], stack[1], s)
         /\ numConsumed' = 0 => taken' = <<stack[2]>>
         /\ numConsumed' = 1 => taken' = <<stack[2], stack[1]>>
         /\ numConsumed' = 2 => taken' = <<stack[2], stack[1], stack[0]>>
<1>1. numStacked \in 3 .. 5
  BY DEF TypeOK, Skips
<1>2. stack[2] \in Words /\ stack[1] \in Words /\ stack[0] \in Words
  BY <1>1 DEF TypeOK
<1>3. /\ stack'[3] = stack[2] /\ stack'[2] = stack[1]
      /\ stack'[1] = stack[0] /\ stack'[0] = w
  BY <1>1, StepTypes
<1>4. /\ numConsumed' = Extra(stack[2], stack[1], stack[0], Plan[s])
      /\ message' = MessageOf(stack[2], stack[1], s)
      /\ taken' = SubSeq(<<stack[2], stack[1], stack[0]>>, 1, 1 + numConsumed')
  BY <1>3 DEF parse_message
<1>5. /\ numConsumed' = 0 => taken' = <<stack[2]>>
      /\ numConsumed' = 1 => taken' = <<stack[2], stack[1]>>
      /\ numConsumed' = 2 => taken' = <<stack[2], stack[1], stack[0]>>
  BY <1>2, <1>4, Prefixes
<1> QED
  BY <1>1, <1>2, <1>3, <1>4, <1>5

LEMMA TypeStep ==
  ASSUME TypeOK, NEW s \in Systems, NEW w \in Words, parse_message(w, s)
  PROVE  TypeOK'
<1>1. /\ stack' \in [0 .. 3 -> Words \cup {NoWord}]
      /\ numStacked' \in 0 .. 5
      /\ \A i \in 0 .. 3 : stack'[i] # NoWord <=> i < numStacked'
  BY StepTypes DEF TypeOK
<1>2. CASE Skips
  <2>1. /\ numConsumed' = numConsumed - 1
        /\ message' = Unknown(s)
        /\ taken' = << >>
    BY <1>2 DEF parse_message
  <2>2. /\ numConsumed' \in 0 .. 3
        /\ numStacked' < 3 => numConsumed' = 3 - numStacked'
        /\ numStacked' >= 3 => numConsumed' <= 2
    BY <1>2, <2>1, StepTypes DEF TypeOK, Skips
  <2>3. message' \in TrunkMessages
    BY <2>1, MessageType
  <2>4. taken' \in Seq(Words)
    BY <2>1
  <2> QED
    BY <1>1, <2>2, <2>3, <2>4 DEF TypeOK
<1>3. CASE ~Skips
  <2>1. numConsumed' \in 0 .. 2
    BY <1>3, ParsingStep, ExtraType
  <2>2. numStacked' >= 3
    <3>1. numStacked \in 3 .. 5
      BY <1>3, ParsingStep DEF TypeOK
    <3> QED
      BY <3>1, StepTypes
  <2>3. message' \in TrunkMessages
    BY <1>3, ParsingStep, MessageType
  <2>4. taken' \in Seq(Words)
    <3>1. numConsumed' = 0 \/ numConsumed' = 1 \/ numConsumed' = 2
      BY <2>1
    <3>2. /\ stack[2] \in Words /\ stack[1] \in Words /\ stack[0] \in Words
          /\ numConsumed' = 0 => taken' = <<stack[2]>>
          /\ numConsumed' = 1 => taken' = <<stack[2], stack[1]>>
          /\ numConsumed' = 2 => taken' = <<stack[2], stack[1], stack[0]>>
      BY <1>3, ParsingStep
    <3>3. \A a, b, c \in Words : /\ <<a>> \in Seq(Words)
                                /\ <<a, b>> \in Seq(Words)
                                /\ <<a, b, c>> \in Seq(Words)
      OBVIOUS
    <3>4. /\ <<stack[2]>> \in Seq(Words)
          /\ <<stack[2], stack[1]>> \in Seq(Words)
          /\ <<stack[2], stack[1], stack[0]>> \in Seq(Words)
      BY <3>2, <3>3, Zenon
    <3> QED
      BY <3>1, <3>2, <3>4, Zenon
  <2>5. /\ numConsumed' \in 0 .. 3
        /\ numStacked' < 3 => numConsumed' = 3 - numStacked'
        /\ numStacked' >= 3 => numConsumed' <= 2
    <3>1. ~(numStacked' < 3)
      BY <1>1, <2>2
    <3>2. numConsumed' \in 0 .. 3 /\ numConsumed' <= 2
      BY <2>1
    <3> QED
      BY <3>1, <3>2
  <2> QED
    BY <1>1, <2>3, <2>4, <2>5 DEF TypeOK
<1> QED
  BY <1>2, <1>3

(* The stack grows from below, nothing that was not written is looked at,  *)
(* and after the preload at most two calls are skipped.                    *)
THEOREM TypeCorrect == Spec => []TypeOK
<1>1. Init => TypeOK
  BY DEF Init, TypeOK
<1>2. TypeOK /\ [Next]_parserVars => TypeOK'
  <2> SUFFICES ASSUME TypeOK, [Next]_parserVars PROVE TypeOK'
    OBVIOUS
  <2>1. CASE Next
    BY <2>1, TypeStep DEF Next
  <2>2. CASE UNCHANGED parserVars
    BY <2>2 DEF TypeOK, parserVars
  <2> QED
    BY <2>1, <2>2
<1> QED
  BY <1>1, <1>2, PTL DEF Spec

-----------------------------------------------------------------------------
(* The parser implements WordStream.                                       *)

\* The n newest words of a stack, the oldest first.
Window(st, n) == [i \in 1 .. n |-> st[n - i]]

LEMMA WindowType ==
  ASSUME NEW st, NEW n \in 0 .. 3, \A i \in 0 .. 3 : i < n => st[i] \in Words
  PROVE  /\ Window(st, n) \in Seq(Words)
         /\ Len(Window(st, n)) = n
         /\ \A i \in 1 .. n : Window(st, n)[i] = st[n - i]
<1>1. ASSUME NEW i \in 1 .. n PROVE st[n - i] \in Words
  <2>1. n - i \in 0 .. 3 /\ n - i < n
    OBVIOUS
  <2> QED
    BY <2>1
<1>2. Window(st, n) \in [1 .. n -> Words]
  BY <1>1 DEF Window
<1>3. Window(st, n) \in Seq(Words)
  BY <1>2
<1>4. Len(Window(st, n)) = n
  BY <1>2, LenProperties
<1> QED
  BY <1>3, <1>4 DEF Window

LEMMA WaitingType ==
  ASSUME TypeOK
  PROVE  /\ 3 - numConsumed \in 0 .. 3
         /\ 3 - numConsumed <= numStacked
         /\ \A i \in 0 .. 3 : i < 3 - numConsumed => stack[i] \in Words
<1>1. /\ numStacked \in 0 .. 5
      /\ numConsumed \in 0 .. 3
      /\ numStacked < 3 => numConsumed = 3 - numStacked
  BY DEF TypeOK
<1>2. 3 - numConsumed \in 0 .. 3 /\ 3 - numConsumed <= numStacked
  BY <1>1
<1>3. \A i \in 0 .. 3 : i < numStacked => stack[i] \in Words
  BY DEF TypeOK
<1>4. ASSUME NEW i \in 0 .. 3, i < 3 - numConsumed PROVE stack[i] \in Words
  <2>1. i < numStacked
    BY <1>1, <1>2, <1>4
  <2> QED
    BY <1>3, <2>1
<1> QED
  BY <1>2, <1>4

\* A window of n words that drops d of them and gets w is one of m words.
LEMMA AppendWindow ==
  ASSUME NEW w \in Words,
         NEW n \in 0 .. 3, NEW m \in 0 .. 3, NEW d \in 0 .. 3,
         d <= n, m = n + 1 - d,
         \A i \in 0 .. 3 : i < n => stack[i] \in Words,
         stack'[0] = w,
         \A i \in 0 .. 2 : i < n => stack'[i + 1] = stack[i]
  PROVE  Window(stack', m) = Append(SubSeq(Window(stack, n), d + 1, n), w)
<1> DEFINE rest == SubSeq(Window(stack, n), d + 1, n)
<1>1. /\ Window(stack, n) \in Seq(Words)
      /\ Len(Window(stack, n)) = n
      /\ \A i \in 1 .. n : /\ Window(stack, n)[i] = stack[n - i]
                          /\ Window(stack, n)[i] \in Words
  BY WindowType, ElementOfSeq
<1>2. ASSUME NEW i \in 0 .. 3, i < m
      PROVE  /\ stack'[i] \in Words
             /\ i # 0 => stack'[i] = stack[i - 1]
  <2>1. CASE i = 0
    BY <2>1
  <2>2. CASE i # 0
    <3>1. i - 1 \in 0 .. 2 /\ i - 1 < n /\ i - 1 \in 0 .. 3
      BY <1>2, <2>2
    <3>2. stack'[(i - 1) + 1] = stack[i - 1] /\ stack[i - 1] \in Words
      BY <3>1
    <3>3. (i - 1) + 1 = i
      OBVIOUS
    <3> QED
      BY <3>2, <3>3
  <2> QED
    BY <2>1, <2>2
<1>3. /\ Window(stack', m) \in Seq(Words)
      /\ Len(Window(stack', m)) = m
      /\ \A i \in 1 .. m : Window(stack', m)[i] = stack'[m - i]
  <2>1. \A i \in 0 .. 3 : i < m => stack'[i] \in Words
    BY <1>2
  <2> QED
    BY <2>1, WindowType, Zenon
<1>4. /\ rest \in Seq(Words)
      /\ Len(rest) = n - d
      /\ \A i \in 1 .. n - d : rest[i] = Window(stack, n)[d + i]
  <2>1. \A i \in d + 1 .. n : Window(stack, n)[i] \in Words
    BY <1>1
  <2>2. d + 1 \in Int /\ n \in Int
    OBVIOUS
  <2>3. /\ rest \in Seq(Words)
        /\ Len(rest) = IF d + 1 <= n THEN n - (d + 1) + 1 ELSE 0
        /\ \A i \in 1 .. n - (d + 1) + 1 : rest[i] = Window(stack, n)[d + 1 + i - 1]
    BY <2>1, <2>2, SubSeqProperties
  <2> QED
    BY <2>3
<1> HIDE DEF rest
<1>5. /\ Append(rest, w) \in Seq(Words)
      /\ Len(Append(rest, w)) = m
      /\ \A i \in 1 .. n - d : Append(rest, w)[i] = rest[i]
      /\ Append(rest, w)[m] = w
  BY <1>4
<1>6. ASSUME NEW i \in 1 .. m
      PROVE  Window(stack', m)[i] = Append(rest, w)[i]
  <2>1. CASE i = m
    <3>1. m - i = 0
      BY <2>1
    <3>2. Window(stack', m)[i] = stack'[0]
      BY <1>3, <3>1
    <3> QED
      BY <1>5, <2>1, <3>2
  <2>2. CASE i < m
    <3>1. i \in 1 .. n - d /\ d + i \in 1 .. n
      BY <2>2
    <3>2. Append(rest, w)[i] = stack[n - (d + i)]
      BY <1>1, <1>4, <1>5, <3>1
    <3>3. m - i \in 0 .. 3 /\ m - i < m /\ m - i # 0
      BY <2>2
    <3>4. stack'[m - i] = stack[(m - i) - 1]
      BY <1>2, <3>3
    <3>5. (m - i) - 1 = n - (d + i)
      OBVIOUS
    <3> QED
      BY <1>3, <3>2, <3>4, <3>5
  <2>3. i = m \/ i < m
    OBVIOUS
  <2> QED
    BY <2>1, <2>2, <2>3, Zenon
<1> QED
  BY <1>3, <1>5, <1>6, SeqEqual DEF rest

LEMMA WaitingIsWindow ==
  /\ Waiting = Window(stack, 3 - numConsumed)
  /\ Waiting' = Window(stack', 3 - numConsumed')
  BY DEF Waiting, Window

LEMMA SkipReceives ==
  ASSUME TypeOK, Skips, NEW s \in Systems, NEW w \in Words,
         parse_message(w, s)
  PROVE  Stream!Receive(w)
<1> DEFINE n == 3 - numConsumed
           m == 3 - numConsumed'
<1>1. /\ n \in 0 .. 3
      /\ n <= numStacked
      /\ \A i \in 0 .. 3 : i < n => stack[i] \in Words
  BY WaitingType
<1>2. /\ numConsumed \in 1 .. 3
      /\ numStacked \in 0 .. 5
  BY DEF TypeOK, Skips
<1>3. numConsumed' = numConsumed - 1 /\ taken' = << >>
  BY DEF parse_message
<1>4. stack'[0] = w /\ \A i \in 0 .. 2 : i < n => stack'[i + 1] = stack[i]
  <2>1. stack'[0] = w /\ \A i \in 0 .. 2 : i < numStacked => stack'[i + 1] = stack[i]
    BY StepTypes
  <2>2. \A i \in 0 .. 2 : i < n => i < numStacked
    BY <1>1, <1>2
  <2> QED
    BY <2>1, <2>2
<1>5. n < 3 /\ m = n + 1
  BY <1>2, <1>3
<1>6. Waiting = Window(stack, n) /\ Waiting' = Window(stack', m)
  BY WaitingIsWindow
<1> HIDE DEF n, m
<1>7. m \in 0 .. 3 /\ m = n + 1 - 0 /\ 0 <= n
  BY <1>1, <1>5
<1>8. Waiting' = Append(SubSeq(Waiting, 0 + 1, n), w)
  <2>1. n \in 0 .. 3 /\ 0 \in 0 .. 3
    BY <1>1
  <2>2. Window(stack', m) = Append(SubSeq(Window(stack, n), 0 + 1, n), w)
    BY <1>1, <1>4, <1>7, <2>1, AppendWindow
  <2> QED
    BY <1>6, <2>2, Zenon
<1>9. Waiting \in Seq(Words) /\ Len(Waiting) = n
  BY <1>1, <1>6, WindowType
<1>10. SubSeq(Waiting, 0 + 1, n) = Waiting
  BY <1>9, SubSeqFull
<1> QED
  BY <1>3, <1>5, <1>8, <1>9, <1>10 DEF Stream!Receive, Stream!Lookahead

LEMMA ParsingReports ==
  ASSUME TypeOK, ~Skips, NEW s \in Systems, NEW w \in Words,
         parse_message(w, s)
  PROVE  /\ 1 + numConsumed' \in 1 .. 3
         /\ Stream!Report(w, 1 + numConsumed')
<1> DEFINE m == 3 - numConsumed'
           d == 1 + numConsumed'
<1>1. numConsumed' \in 0 .. 2
  BY ParsingStep, ExtraType
<1>2. numConsumed = 0
  BY DEF TypeOK, Skips
<1>3. \A i \in 0 .. 3 : i < 3 => stack[i] \in Words
  BY <1>2, WaitingType
<1>4. stack'[0] = w /\ \A i \in 0 .. 2 : i < 3 => stack'[i + 1] = stack[i]
  <2>1. /\ stack'[0] = w
        /\ \A i \in 0 .. 2 : i < numStacked => stack'[i + 1] = stack[i]
    BY StepTypes
  <2>2. numStacked \in 3 .. 5
    BY ParsingStep DEF TypeOK
  <2> QED
    BY <2>1, <2>2
<1>5. Waiting = Window(stack, 3) /\ Waiting' = Window(stack', m)
  BY <1>2, WaitingIsWindow
<1>6. Waiting \in Seq(Words) /\ Len(Waiting) = 3
  BY <1>3, <1>5, WindowType
<1>7. Window(stack, 3) = <<stack[2], stack[1], stack[0]>>
  BY DEF Window
<1>8. taken' = SubSeq(Waiting, 1, d)
  BY <1>5, <1>7, ParsingStep DEF parse_message
<1>9. d \in 1 .. 3 /\ m \in 0 .. 3 /\ m = 3 + 1 - d
  <2>1. \A k \in 0 .. 2 : 1 + k \in 1 .. 3 /\ 3 - k \in 0 .. 3 /\ 3 - k = 3 + 1 - (1 + k)
    OBVIOUS
  <2> QED
    BY <1>1, <2>1, Zenon
<1> HIDE DEF d, m
<1>10. Waiting' = Append(SubSeq(Waiting, d + 1, 3), w)
  <2>1. d \in 0 .. 3 /\ d <= 3 /\ 3 \in 0 .. 3
    BY <1>9
  <2> QED
    BY <1>3, <1>4, <1>5, <1>9, <2>1, AppendWindow
<1>11. Stream!Report(w, d)
  BY <1>6, <1>8, <1>10 DEF Stream!Report, Stream!Lookahead
<1> QED
  BY <1>9, <1>11 DEF d

\* ImplementsWordStream: every word that is received is taken by exactly one
\* message and in the order of reception, whatever the words are, whichever
\* systems they are of, and however long the messages they begin.
THEOREM ParserImplementsWordStream == Spec => ImplementsWordStream
<1>1. Init => Stream!Init
  <2> SUFFICES ASSUME Init PROVE Stream!Init
    OBVIOUS
  <2>1. 3 - numConsumed = 0
    BY DEF Init
  <2>2. Waiting \in Seq(Words) /\ Len(Waiting) = 0
    BY <2>1, WaitingIsWindow, WindowType
  <2>3. Waiting = << >>
    BY <2>2, EmptySeq
  <2> QED
    BY <2>3 DEF Init, Stream!Init
<1>2. TypeOK /\ [Next]_parserVars => [Stream!Next]_(Stream!streamVars)
  <2> SUFFICES ASSUME TypeOK, [Next]_parserVars
               PROVE  [Stream!Next]_(Stream!streamVars)
    OBVIOUS
  <2>1. ASSUME NEW s \in Systems, NEW w \in Words, parse_message(w, s)
        PROVE  Stream!Next
    <3>1. CASE Skips
      BY <2>1, <3>1, SkipReceives DEF Stream!Next
    <3>2. CASE ~Skips
      BY <2>1, <3>2, ParsingReports DEF Stream!Next, Stream!Lookahead
    <3> QED
      BY <3>1, <3>2
  <2>2. CASE UNCHANGED parserVars
    BY <2>2 DEF parserVars, Waiting, Stream!streamVars
  <2> QED
    BY <2>1, <2>2 DEF Next
<1>3. Spec => Stream!Spec
  BY <1>1, <1>2, TypeCorrect, PTL DEF Spec, Stream!Spec
<1> QED
  BY <1>3 DEF ImplementsWordStream

-----------------------------------------------------------------------------
(* Calls.                                                                  *)

\* The commands of second and third words are no channels.
LEMMA ControlIsNoChannel ==
  ASSUME NEW s \in Systems,
         NEW cmd \in Continuations
  PROVE  ~is_chan_outbound(cmd, Plan[s])
<1>1. Plan[s].offset \in 0 .. 380
  BY PlanType
<1>2. cmd \in Nat /\ cmd > \h2f7 /\ cmd \notin Channels800
  <2>1. CASE cmd = OSW_SECOND_NORMAL
    BY <2>1 DEF Channels800, OSW_SECOND_NORMAL
  <2>2. CASE cmd = OSW_EXTENDED_FCN
    BY <2>2 DEF Channels800, OSW_EXTENDED_FCN
  <2>3. CASE cmd = PATCH
    BY <2>3 DEF Channels800, PATCH
  <2>4. CASE cmd = OSW_TY2_AFFILIATION
    BY <2>4 DEF Channels800, OSW_TY2_AFFILIATION
  <2> QED
    BY <2>1, <2>2, <2>3, <2>4 DEF Continuations
<1> QED
  BY <1>1, <1>2 DEF is_chan_outbound

\* Which messages are reported as calls, and of which words.
LEMMA MessageKinds ==
  ASSUME NEW s \in Systems, NEW a \in Words, NEW b \in Words
  PROVE  /\ MessageOf(a, b, s).system = s
         /\ IsCall(a, Plan[s]) =>
              MessageOf(a, b, s) = CallMessage("UPDATE", a, -1, s)
         /\ ~IsCall(a, Plan[s]) /\ IsGrant(a, b, Plan[s]) /\ b.grp =>
              MessageOf(a, b, s) = CallMessage("GRANT", b, a.full_address, s)
         /\ ~IsCall(a, Plan[s]) /\ ~(IsGrant(a, b, Plan[s]) /\ b.grp) =>
              MessageOf(a, b, s).type \notin {"UPDATE", "GRANT"}
<1>1. \A type, w, source : CallMessage(type, w, source, s).system = s
  BY DEF CallMessage
<1>2. \A type, source, talkgroup :
        /\ UnitMessage(type, source, talkgroup, s).system = s
        /\ UnitMessage(type, source, talkgroup, s).type = type
  BY DEF UnitMessage
<1>3. Unknown(s).system = s /\ Unknown(s).type = "UNKNOWN"
  BY DEF Unknown
<1>4. \A cmd, sys_id : /\ SysIdMessage(cmd, sys_id, s).system = s
                       /\ SysIdMessage(cmd, sys_id, s).type = "SYSID"
  BY DEF SysIdMessage
<1>5. /\ ExtendedMessage(a, b, s).system = s
      /\ ExtendedMessage(a, b, s).type \notin {"UPDATE", "GRANT"}
  BY <1>2, <1>3, <1>4 DEF ExtendedMessage
<1> QED
  BY <1>1, <1>2, <1>3, <1>5 DEF MessageOf, IsCall

LEMMA CallFields ==
  ASSUME NEW type, NEW w, NEW source, NEW s
  PROVE  LET m == CallMessage(type, w, source, s)
         IN  /\ m.type = type
             /\ m.talkgroup = address(w)
             /\ m.freq = getfreq(w.cmd, Plan[s])
             /\ m.source = source
  BY DEF CallMessage

LEMMA ParsingReportsCalls ==
  ASSUME TypeOK, ~Skips, NEW s \in Systems, NEW w \in Words,
         parse_message(w, s)
  PROVE  CallsAreReported'
<1> DEFINE a == stack[2]
           b == stack[1]
           c == stack[0]
           plan == Plan[s]
<1>1. a \in Words /\ b \in Words /\ c \in Words
  BY ParsingStep
<1>2. /\ message' = MessageOf(a, b, s)
      /\ numConsumed' = Extra(a, b, c, plan)
      /\ numConsumed' = 0 => taken' = <<a>>
      /\ numConsumed' = 1 => taken' = <<a, b>>
      /\ numConsumed' = 2 => taken' = <<a, b, c>>
  BY ParsingStep
<1>3. message'.system = s
  BY <1>1, <1>2, MessageKinds
<1> HIDE DEF a, b, c, plan
<1>4. IsGrant(a, b, plan) => ~IsCall(a, plan)
  BY DEF IsGrant, IsFirst, IsSingle, IsCall
<1>5. CASE IsTriple(a, b, c, plan)
  <2>1. taken' = <<a, b, c>>
    BY <1>2, <1>5 DEF Extra
  <2>2. ~is_chan_outbound(b.cmd, plan) /\ ~is_chan_outbound(c.cmd, plan)
    BY <1>5, ControlIsNoChannel DEF IsTriple, Continuations, plan
  <2>3. ~IsCall(a, plan) /\ ~IsCall(b, plan) /\ ~IsCall(c, plan)
    BY <1>5, <2>2 DEF IsTriple, IsStatus, IsFirst, IsSingle, IsCall
  <2>4. message'.type \notin {"UPDATE", "GRANT"}
    BY <1>1, <1>2, <2>2, <2>3, MessageKinds DEF IsGrant, plan
  <2> QED
    BY <1>3, <2>1, <2>3, <2>4 DEF CallsAreReported, plan
<1>6. CASE ~IsTriple(a, b, c, plan) /\ IsPair(a, b, plan)
  <2>1. taken' = <<a, b>>
    BY <1>2, <1>6 DEF Extra
  <2>2. ~IsCall(a, plan)
    BY <1>6, <1>4 DEF IsPair, IsStatus, IsFirst, IsSingle, IsCall
  <2>3. is_chan_outbound(b.cmd, plan) => IsGrant(a, b, plan)
    BY <1>6, ControlIsNoChannel DEF IsPair, Continuations, plan
  <2>4. CASE IsCall(b, plan)
    <3>1. message' = CallMessage("GRANT", b, a.full_address, s)
      BY <1>1, <1>2, <2>2, <2>3, <2>4, MessageKinds DEF IsCall, plan
    <3> QED
      BY <1>3, <2>1, <2>2, <2>4, <3>1, CallFields DEF CallsAreReported, plan
  <2>5. CASE ~IsCall(b, plan)
    <3>1. message'.type \notin {"UPDATE", "GRANT"}
      BY <1>1, <1>2, <2>2, <2>5, MessageKinds DEF IsCall, IsGrant, plan
    <3> QED
      BY <1>3, <2>1, <2>2, <2>5, <3>1 DEF CallsAreReported, plan
  <2> QED
    BY <2>4, <2>5
<1>7. CASE ~IsTriple(a, b, c, plan) /\ ~IsPair(a, b, plan)
  <2>1. taken' = <<a>>
    BY <1>2, <1>7 DEF Extra
  <2>2. CASE IsCall(a, plan)
    <3>1. message' = CallMessage("UPDATE", a, -1, s)
      BY <1>1, <1>2, <2>2, MessageKinds DEF plan
    <3> QED
      BY <1>3, <2>1, <2>2, <3>1, CallFields DEF CallsAreReported, plan
  <2>3. CASE ~IsCall(a, plan)
    <3>1. message'.type \notin {"UPDATE", "GRANT"}
      BY <1>1, <1>2, <1>7, <2>3, MessageKinds DEF IsPair, plan
    <3> QED
      BY <1>3, <2>1, <2>3, <3>1 DEF CallsAreReported, plan
  <2> QED
    BY <2>2, <2>3
<1> QED
  BY <1>5, <1>6, <1>7

\* CallsAreReported: a word that assigns a channel to a talkgroup is never
\* swallowed as a part of another message, and never reported as anything but
\* this call on this channel, even when words around it were lost.
THEOREM CallsAreNeverSwallowed == Spec => []CallsAreReported
<1>1. Init => CallsAreReported
  BY DEF Init, CallsAreReported
<1>2. TypeOK /\ CallsAreReported /\ [Next]_parserVars => CallsAreReported'
  <2> SUFFICES ASSUME TypeOK, CallsAreReported, [Next]_parserVars
               PROVE  CallsAreReported'
    OBVIOUS
  <2>1. ASSUME NEW s \in Systems, NEW w \in Words, parse_message(w, s)
        PROVE  CallsAreReported'
    <3>1. CASE Skips
      <4>1. taken' = << >>
        BY <2>1, <3>1 DEF parse_message
      <4> QED
        BY <4>1 DEF CallsAreReported
    <3>2. CASE ~Skips
      BY <2>1, <3>2, ParsingReportsCalls
    <3> QED
      BY <3>1, <3>2
  <2>2. CASE UNCHANGED parserVars
    BY <2>2 DEF parserVars, CallsAreReported
  <2> QED
    BY <2>1, <2>2 DEF Next
<1> QED
  BY <1>1, <1>2, TypeCorrect, PTL DEF Spec

=============================================================================
