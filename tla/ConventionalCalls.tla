-------------------------- MODULE ConventionalCalls --------------------------
(***************************************************************************)
(* Conventional channels: one Call object and one recorder for each, from  *)
(* the start of the program to its end (setup_convetional_channel and      *)
(* manage_conventional_call in main.cc, call_conventional.cc, conclude_call *)
(* in call_impl.cc, start and stop of the analog, P25 and DMR recorders).  *)
(*                                                                         *)
(* No control channel says when a conversation ends.  The main thread      *)
(* looks at every channel once a second, counts the looks that found the   *)
(* squelch closed, and splits the recording: it stops the recorder, hands  *)
(* the transmissions over and starts the recorder again.  The sinks of a   *)
(* recorder, two for DMR, are GNU Radio threads that go on between any two *)
(* steps of the main thread.                                               *)
(*                                                                         *)
(* Transmissions of a sink are numbered.  It lists those after kept up to  *)
(* closed, and begun counts the files it opened.  Lengths are in seconds.  *)
(***************************************************************************)
EXTENDS Integers

CONSTANTS
  Channels,        \* numbered in the order of the list of calls
  Slots,           \* TDMA slots, 0 among them
  SlotsOf,         \* [Channels -> SUBSET Slots]: {0, 1} for DMR, {0} others
  Analog,          \* the channels of type "conventional"
  Timeout,         \* config.call_timeout, compared with a count of looks
  MaxDuration      \* max_duration of the systems, 0 for no limit

CONSTANTS          \* bounds
  MaxBegun,        \* transmissions of one sink
  MaxLength        \* seconds of sound a sink holds for one call

ASSUME ConventionalAssumption ==
  /\ Channels \subseteq Nat
  /\ Slots \subseteq Nat
  /\ SlotsOf \in [Channels -> SUBSET Slots]
  /\ \A c \in Channels : 0 \in SlotsOf[c]
  /\ Analog \subseteq Channels
  /\ {Timeout, MaxDuration, MaxBegun, MaxLength} \subseteq Nat

VARIABLES
  call,            \* the Call object of each channel
  active,          \* the channels whose recorder is ACTIVE
  sink,            \* the sink of each channel and slot
  unmuted,         \* the channels whose squelch lets sound through
  handed,          \* history: how many transmissions of each channel and
                   \* slot the Call_Concluder got
  main             \* where the main thread is

vars == <<call, active, sink, unmuted, handed, main>>

SinkRecords ==
  [phase : {"AVAILABLE", "IDLE", "RECORDING"},
   prior : Nat,                     \* d_prior_transmission_length
   open : Nat,                      \* length of what is open
   kept : Nat, closed : Nat, begun : Nat]

CallRecords == [state : {"MONITORING", "RECORDING", "DELETED"},
                idle_count : 0..(Timeout + 1)]

\* In a round, channels of left are still to be looked at.  Between "stop"
\* and "start" the sinks of slots are still to be stopped or started.
MainStates ==
  [at : {"loop", "exited"}]
    \cup [at : {"look", "exit"}, left : SUBSET Channels]
    \cup [at : {"decide"}, channel : Channels, left : SUBSET Channels]
    \cup [at : {"stop", "start"}, channel : Channels, slots : SUBSET Slots,
          left : SUBSET Channels, exiting : BOOLEAN]

TypeOK ==
  /\ call \in [Channels -> CallRecords]
  /\ active \subseteq Channels
  /\ sink \in [Channels -> [Slots -> SinkRecords]]
  /\ unmuted \subseteq Channels
  /\ handed \in [Channels -> [Slots -> Nat]]
  /\ main \in MainStates

NewSink == [phase |-> "AVAILABLE", prior |-> 0, open |-> 0,
            kept |-> 0, closed |-> 0, begun |-> 0]

\* Mutant: a sink that is lent again keeps its list.
LentWithList(k) == [k EXCEPT !.phase = "IDLE", !.prior = 0, !.open = 0]

\* start_recording: the list and the length start anew.
Lent(k) ==
  [k EXCEPT !.phase = "IDLE", !.prior = 0, !.open = 0, !.kept = k.closed]

\* dowork: the first samples open a file, more are written to it.
Heard(k) ==
  IF k.phase = "IDLE"
  THEN [k EXCEPT !.phase = "RECORDING", !.open = 1, !.begun = k.begun + 1]
  ELSE [k EXCEPT !.open = k.open + 1]

\* end_transmission: what is open is listed.
Ended(k) ==
  [k EXCEPT !.phase = "IDLE", !.prior = k.prior + k.open, !.open = 0,
            !.closed = k.closed + 1]

\* Mutant: the open transmission is not closed.
StoppedOpen(k) == [k EXCEPT !.phase = "AVAILABLE"]

\* stop_recording.
Stopped(k) ==
  [(IF k.phase = "RECORDING" THEN Ended(k) ELSE k)
     EXCEPT !.phase = "AVAILABLE"]

\* setup_convetional_channel: an analog recorder starts at once, a digital
\* one must wait until the flow graph is unlocked.
Init ==
  /\ call = [c \in Channels |->
               [state |-> IF c \in Analog THEN "RECORDING" ELSE "MONITORING",
                idle_count |-> 0]]
  /\ active = Analog
  /\ sink = [c \in Channels |-> [s \in Slots |->
               IF c \in Analog /\ s \in SlotsOf[c] THEN Lent(NewSink)
               ELSE NewSink]]
  /\ unmuted = {}
  /\ handed = [c \in Channels |-> [s \in Slots |-> 0]]
  /\ main = [at |-> "loop"]

-----------------------------------------------------------------------------
(* The radio and the GNU Radio threads.                                    *)

\* Samples reach the sink of slot s.
Hear(c, s) ==
  /\ s \in SlotsOf[c]
  /\ sink[c][s].phase # "AVAILABLE"
  /\ sink[c][s].prior + sink[c][s].open < MaxLength
  /\ sink[c][s].phase = "IDLE" => sink[c][s].begun < MaxBegun
  /\ sink' = [sink EXCEPT ![c][s] = Heard(@)]
  /\ UNCHANGED <<call, active, unmuted, handed, main>>

\* A terminator.  Another talkgroup's id does not end a transmission here.
EndOfTransmission(c, s) ==
  /\ s \in SlotsOf[c]
  /\ sink[c][s].phase = "RECORDING"
  /\ sink' = [sink EXCEPT ![c][s] = Ended(@)]
  /\ UNCHANGED <<call, active, unmuted, handed, main>>

SquelchOpens(c) ==
  /\ c \notin unmuted
  /\ unmuted' = unmuted \cup {c}
  /\ UNCHANGED <<call, active, sink, handed, main>>

SquelchCloses(c) ==
  /\ c \in unmuted
  /\ unmuted' = unmuted \ {c}
  /\ UNCHANGED <<call, active, sink, handed, main>>

-----------------------------------------------------------------------------
(* The main thread.                                                        *)

\* total_length_in_seconds of a sink.
total_length(k) == k.prior + k.open

\* get_current_length: 0 unless the call is RECORDING.  A DMR recorder
\* answers for slot 0 alone.
get_current_length(c) ==
  IF call[c].state = "RECORDING" THEN total_length(sink[c][0]) ELSE 0

is_squelched(c) == c \in active => c \notin unmuted

\* manage_calls, at most once a second.
Round ==
  /\ main.at = "loop"
  /\ main' = [at |-> "look", left |-> Channels]
  /\ UNCHANGED <<call, active, sink, unmuted, handed>>

RoundDone ==
  /\ main.at = "look"
  /\ main.left = {}
  /\ main' = [at |-> "loop"]
  /\ UNCHANGED <<call, active, sink, unmuted, handed>>

\* The calls are visited in the order of the list.
Looking(c) ==
  /\ main.at = "look"
  /\ c \in main.left
  /\ \A d \in main.left : c <= d

\* Nothing was recorded yet: a digital recorder that has not been started
\* is started now.
LookAtSilent(c) ==
  /\ Looking(c)
  /\ get_current_length(c) = 0
  /\ IF c \in active
     THEN /\ main' = [main EXCEPT !.left = @ \ {c}]
          /\ UNCHANGED <<call, active>>
     ELSE /\ main' = [at |-> "start", channel |-> c, slots |-> SlotsOf[c],
                      left |-> main.left \ {c}, exiting |-> FALSE]
          /\ call' = [call EXCEPT ![c].state = "RECORDING"]
          /\ active' = active \cup {c}
  /\ UNCHANGED <<sink, unmuted, handed>>

\* Mutant: every look counts for itself.
IdleNow(c) == IF is_squelched(c) THEN 1 ELSE 0

\* How many looks in a row have found the squelch closed.
IdleCount(c) == IF is_squelched(c) THEN call[c].idle_count + 1 ELSE 0

LookAtHeard(c) ==
  /\ Looking(c)
  /\ get_current_length(c) > 0
  /\ call' = [call EXCEPT ![c].idle_count = IdleCount(c)]
  /\ main' = [at |-> "decide", channel |-> c, left |-> main.left \ {c}]
  /\ UNCHANGED <<active, sink, unmuted, handed>>

\* Mutant: only one of the limits is looked at.
SplitOnlyIdle(c) == call[c].idle_count > Timeout

SplitIsDue(c) ==
  \/ call[c].idle_count > Timeout
  \/ get_current_length(c) > MaxDuration /\ MaxDuration > 0

\* The call goes on, or conclude_call begins: the recorder is INACTIVE.
Decide(c) ==
  /\ main.at = "decide"
  /\ main.channel = c
  /\ IF SplitIsDue(c)
     THEN /\ main' = [at |-> "stop", channel |-> c, slots |-> SlotsOf[c],
                      left |-> main.left, exiting |-> FALSE]
          /\ active' = active \ {c}
     ELSE /\ main' = [at |-> "look", left |-> main.left]
          /\ UNCHANGED active
  /\ UNCHANGED <<call, sink, unmuted, handed>>

\* recorder->stop(), sink after sink.
StopSink(c, s) ==
  /\ main.at = "stop"
  /\ main.channel = c
  /\ s \in main.slots
  /\ \A z \in main.slots : s <= z
  /\ sink' = [sink EXCEPT ![c][s] = Stopped(@)]
  /\ main' = [main EXCEPT !.slots = @ \ {s}]
  /\ UNCHANGED <<call, active, unmuted, handed>>

\* get_transmission_list: the lists of all sinks go to the concluder.  It
\* gets the number after the last, which is right as long as the list begins
\* where the one before ended.
HandedBy(c, s) == sink[c][s].closed

Deleted(rec) == [rec EXCEPT !.state = "DELETED"]

\* Mutant: the idle count is kept.
RestartedIdle(rec) == [rec EXCEPT !.state = "RECORDING"]

\* restart_call, up to the start of the recorder.
Restarted(rec) == [rec EXCEPT !.state = "RECORDING", !.idle_count = 0]

\* The rest of conclude_call, and the head of restart_call; at the exit the
\* call is deleted instead.
HandOver(c) ==
  /\ main.at = "stop"
  /\ main.channel = c
  /\ main.slots = {}
  /\ handed' = [handed EXCEPT ![c] = [s \in Slots |-> HandedBy(c, s)]]
  /\ call' = [call EXCEPT ![c] = IF main.exiting THEN Deleted(@)
                                 ELSE Restarted(@)]
  /\ IF main.exiting
     THEN /\ main' = [at |-> "exit", left |-> main.left]
          /\ UNCHANGED active
     ELSE /\ main' = [at |-> "start", channel |-> c, slots |-> SlotsOf[c],
                      left |-> main.left, exiting |-> FALSE]
          /\ active' = active \cup {c}
  /\ UNCHANGED <<sink, unmuted>>

\* recorder->start(), sink after sink.
StartSink(c, s) ==
  /\ main.at = "start"
  /\ main.channel = c
  /\ s \in main.slots
  /\ \A z \in main.slots : s <= z
  /\ sink' = [sink EXCEPT ![c][s] = Lent(@)]
  /\ main' = [main EXCEPT !.slots = @ \ {s}]
  /\ UNCHANGED <<call, active, unmuted, handed>>

\* Mutant: a sink is left out of the start.
StartDoneEarly ==
  /\ main.at = "start"
  /\ 0 \notin main.slots
  /\ main' = [at |-> "look", left |-> main.left]
  /\ UNCHANGED <<call, active, sink, unmuted, handed>>

StartDone ==
  /\ main.at = "start"
  /\ main.slots = {}
  /\ main' = [at |-> "look", left |-> main.left]
  /\ UNCHANGED <<call, active, sink, unmuted, handed>>

\* The exit branch of monitor_messages: every call that is RECORDING is
\* concluded, all are deleted.
Exit ==
  /\ main.at = "loop"
  /\ main' = [at |-> "exit", left |-> Channels]
  /\ UNCHANGED <<call, active, sink, unmuted, handed>>

ExitCall(c) ==
  /\ main.at = "exit"
  /\ c \in main.left
  /\ \A d \in main.left : c <= d
  /\ IF call[c].state = "RECORDING"
     THEN /\ main' = [at |-> "stop", channel |-> c, slots |-> SlotsOf[c],
                      left |-> main.left \ {c}, exiting |-> TRUE]
          /\ active' = active \ {c}
          /\ UNCHANGED call
     ELSE /\ main' = [main EXCEPT !.left = @ \ {c}]
          /\ call' = [call EXCEPT ![c] = Deleted(@)]
          /\ UNCHANGED active
  /\ UNCHANGED <<sink, unmuted, handed>>

ExitDone ==
  /\ main.at = "exit"
  /\ main.left = {}
  /\ main' = [at |-> "exited"]
  /\ UNCHANGED <<call, active, sink, unmuted, handed>>

-----------------------------------------------------------------------------

Radio ==
  \E c \in Channels :
    \/ SquelchOpens(c)
    \/ SquelchCloses(c)
    \/ \E s \in Slots : Hear(c, s) \/ EndOfTransmission(c, s)

Manage ==
  \/ Round
  \/ RoundDone
  \/ \E c \in Channels :
       \/ LookAtSilent(c)
       \/ LookAtHeard(c)
       \/ Decide(c)
       \/ HandOver(c)
       \/ \E s \in Slots : StopSink(c, s) \/ StartSink(c, s)
  \/ StartDone
  \/ \E c \in Channels : ExitCall(c)
  \/ ExitDone

Next == Radio \/ Manage \/ Exit

\* The main loop goes on; nothing is promised of the radio.
Spec == Init /\ [][Next]_vars /\ WF_vars(Manage)

-----------------------------------------------------------------------------
(* Properties.                                                             *)

\* The main thread is stopping or starting the recorder of c.
Switching(c) == main.at \in {"stop", "start"} /\ main.channel = c

\* Every transmission a conventional channel ever opened a file for is still
\* open, is in the list of its sink, or was handed to the concluder: each
\* list begins where the last one that was handed over ended, so none is
\* handed over twice, and splitting a call in the middle of a transmission
\* loses nothing.
NothingLost ==
  \A c \in Channels, s \in Slots :
    LET k == sink[c][s] IN
      /\ k.begun = k.closed + (IF k.phase = "RECORDING" THEN 1 ELSE 0)
      /\ \/ handed[c][s] = k.kept
         \/ handed[c][s] = k.closed /\ k.phase = "AVAILABLE"

\* A conventional channel is never left unrecorded: from the time its
\* recorder is started, every one of its sinks is lent and the recorder is
\* ACTIVE whenever the main thread is not just splitting its recording, up
\* to the exit.
AlwaysListening ==
  \A c \in Channels :
    call[c].state = "RECORDING" /\ ~Switching(c) =>
      /\ c \in active
      /\ \A s \in SlotsOf[c] : sink[c][s].phase # "AVAILABLE"

\* The count of idle looks belongs to the sound it follows: it is 0 as long
\* as the call holds no sound, so that the first sound after a split is not
\* cut off by the silence before it.
IdleCountFollowsSound ==
  \A c \in Channels :
    call[c].idle_count > 0 /\ ~Switching(c) =>
      get_current_length(c) > 0 \/ call[c].state = "DELETED"

\* The sink of slot s of channel c as SinkLifecycle sees it: the channel's
\* one call owns it while it is lent, and its list begins after kept.
NoChannel == -1

Lifecycle(c, s) == INSTANCE SinkLifecycle WITH
  phase <- sink[c][s].phase,
  owner <- IF sink[c][s].phase = "AVAILABLE" THEN NoChannel ELSE c,
  closed <- sink[c][s].closed - sink[c][s].kept,
  Calls <- Channels,
  NoCall <- NoChannel

\* Whatever is split and started again, every sink of a conventional channel
\* is used as a wav sink promises: it is given back before it is lent again,
\* what is open then is closed, and its list is empty when it is lent.
SinksKeepLifecycle ==
  [][\A c \in Channels, s \in Slots :
       [Lifecycle(c, s)!Next]_(Lifecycle(c, s)!sinkVars)]_vars

\* Sound that waits in the sink of slot s.
Waiting(c, s) ==
  sink[c][s].phase # "AVAILABLE" /\ total_length(sink[c][s]) > 0

\* When a channel falls silent for good, the sound its first sink holds is
\* handed over.
QuietChannelsAreSplit ==
  \A c \in Channels :
    <>[](c \notin unmuted) => (Waiting(c, 0) ~> ~Waiting(c, 0))

TooLong(c, s) ==
  /\ MaxDuration > 0
  /\ sink[c][s].phase # "AVAILABLE"
  /\ total_length(sink[c][s]) > MaxDuration

\* A recording that grew longer than maxDuration is split, however long the
\* squelch stays open.
LongCallsAreSplit ==
  \A c \in Channels : TooLong(c, 0) ~> ~TooLong(c, 0)

=============================================================================
