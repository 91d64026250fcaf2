-------------------------- MODULE SmartnetChannel --------------------------
(***************************************************************************)
(* The parser between what control channels transmit and what the main     *)
(* thread is told.  smartnet_decode.cc puts every word whose CRC is right  *)
(* into the queue of its system and drops the others; monitor_messages in  *)
(* main.cc hands the words of all queues to the one parser.  Words are     *)
(* lost, and reception begins and ends in the middle of messages (at the   *)
(* start, at a retune), so that any part of a message may arrive alone.    *)
(*                                                                         *)
(* A word carries the system that sent it and, if all of its message       *)
(* arrives, this message and the place in it; nothing but the properties   *)
(* looks at these.                                                         *)
(***************************************************************************)
EXTENDS SmartnetParser, Functions

CONSTANTS
  Messages,   \* [Systems -> sets of [words, report]]: what is sent on the
              \* control channel of a system and what it means
  NoMessage,  \* of a word some of whose message is lost
  Setups      \* the sets of systems that are looked at

Tagged(w, s, m, i) ==
  [cmd |-> w.cmd, grp |-> w.grp, full_address |-> w.full_address,
   system |-> s, of |-> m, place |-> i]

\* The places of the words that arrive if not all of n do, in their order.
Thinned(n) ==
  UNION {{f \in [1 .. k -> 1 .. n] : \A i, j \in 1 .. k : i < j => f[i] < f[j]} :
           k \in 0 .. n - 1}

WholeOf(m, s) == [i \in DOMAIN m.words |-> Tagged(m.words[i], s, m, i)]

PartOf(m, s, places) ==
  [j \in DOMAIN places |-> Tagged(m.words[places[j]], s, NoMessage, 0)]

\* What may arrive of m.
Arrivals(m, s) ==
  {WholeOf(m, s)} \cup {PartOf(m, s, places) : places \in Thinned(Len(m.words))}

IsIntact(w) == w.of # NoMessage

OnAir ==
  UNION {UNION {UNION {Range(list) : list \in Arrivals(m, s)} :
           m \in Messages[s]} : s \in Systems}

\* The parser reads m, all of m and nothing else if it is given m alone.
IsReadAlone(m, s) ==
  LET first == m.words[1]
      second == m.words[2]
  IN  \/ /\ Len(m.words) = 1
         /\ ~IsFirst(first, Plan[s])
         /\ m.report = MessageOf(first, first, s)
      \/ /\ Len(m.words) = 2
         /\ IsPair(first, second, Plan[s])
         /\ m.report = MessageOf(first, second, s)
      \/ /\ Len(m.words) = 3
         /\ IsTriple(first, second, m.words[3], Plan[s])
         /\ m.report = MessageOf(first, second, s)

ASSUME ChannelAssumption ==
  /\ Setups \subseteq (SUBSET Systems) \ {{}}
  /\ OnAir \subseteq Words

ASSUME MessageAssumption ==
  \A s \in Systems : \A m \in Messages[s] :
    /\ m # NoMessage
    /\ m.words \in Seq(Range(m.words))
    /\ m.words[1].cmd \notin Continuations
    /\ IsReadAlone(m, s)

VARIABLES
  systems,   \* the systems of the configuration
  air        \* [Systems -> words of one message that are still to arrive]

channelVars == <<systems, air, parserVars>>

ChannelInit ==
  /\ Init
  /\ systems \in Setups
  /\ air = [s \in Systems |-> << >>]

\* m is transmitted on the control channel of s.
Transmit(s, m) ==
  /\ air[s] = << >>
  /\ \E list \in Arrivals(m, s) : air' = [air EXCEPT ![s] = list]
  /\ UNCHANGED <<systems, parserVars>>

\* monitor_messages takes a word from the queue of s.
Receive(s) ==
  /\ air[s] # << >>
  /\ parse_message(Head(air[s]), s)
  /\ air' = [air EXCEPT ![s] = Tail(@)]
  /\ UNCHANGED systems

ChannelNext ==
  \/ \E s \in systems : \E m \in Messages[s] : Transmit(s, m)
  \/ \E s \in systems : Receive(s)

ChannelSpec == ChannelInit /\ [][ChannelNext]_channelVars

-----------------------------------------------------------------------------
(* Properties.                                                             *)

\* The list holds the words of m from place i on.
HoldsAll(list, m, i) ==
  \A j \in DOMAIN m.words :
    /\ i + j - 1 \in DOMAIN list
    /\ list[i + j - 1].of = m
    /\ list[i + j - 1].place = j

\* A message that arrives whole is reported whole and as what it is, whatever
\* was lost around it.  There is one exception: the update of a call after a
\* message of which only the first word has arrived is taken for the second
\* word of a grant, and the source of that message for the source of the call.
MessagesAreReported ==
  \A i \in DOMAIN taken :
    IsIntact(taken[i]) =>
      LET m == taken[i].of
          first == i + 1 - taken[i].place
      IN  /\ HoldsAll(taken, m, first)
          /\ \A j \in DOMAIN taken :
               IsIntact(taken[j]) => j \in first .. first + Len(m.words) - 1
          /\ \/ first = 1 /\ message = m.report
             \/ /\ first = 2
                /\ is_chan_outbound(taken[2].cmd, Plan[message.system])
                /\ message = IF taken[2].grp
                             THEN [m.report EXCEPT !.type = "GRANT",
                                     !.source = taken[1].full_address]
                             ELSE m.report

=============================================================================
