----------------------- MODULE ConventionalCallsProofs -----------------------
(***************************************************************************)
(* For every set of conventional channels and slots, and whatever the      *)
(* bounds: no transmission is lost or handed over twice, and no channel is *)
(* left unrecorded.                                                        *)
(***************************************************************************)
EXTENDS ConventionalCalls, TLAPS

\* A sink from which nothing waits to be handed over.
Emptied(c, s) ==
  sink[c][s].phase = "AVAILABLE" /\ handed[c][s] = sink[c][s].closed

\* Where the main thread is, and what it has done by then to the recorder it
\* is stopping or starting.
StopInv ==
  main.at = "stop" =>
    /\ main.slots \subseteq SlotsOf[main.channel]
    /\ call[main.channel].state = "RECORDING"
    /\ \A s \in Slots \ main.slots :
         sink[main.channel][s].phase = "AVAILABLE"

StartInv ==
  main.at = "start" =>
    /\ main.slots \subseteq SlotsOf[main.channel]
    /\ call[main.channel].state = "RECORDING"
    /\ main.channel \in active
    /\ ~main.exiting
    /\ \A s \in main.slots : Emptied(main.channel, s)
    /\ \A s \in SlotsOf[main.channel] \ main.slots :
         sink[main.channel][s].phase # "AVAILABLE"

DecideInv == main.at = "decide" => call[main.channel].state = "RECORDING"

\* Calls are deleted at the exit only.
Exiting ==
  main.at \in {"exit", "exited"} \/ (main.at = "stop" /\ main.exiting)

DeletedAtExit == \A c \in Channels : call[c].state = "DELETED" => Exiting

\* A recorder that was never started holds nothing, nor does a slot the
\* channel does not have.
UnusedInv ==
  \A c \in Channels, s \in Slots :
    call[c].state = "MONITORING" \/ s \notin SlotsOf[c] => Emptied(c, s)

ControlInv == StopInv /\ StartInv /\ DecideInv /\ DeletedAtExit

\* The count of idle looks passes the timeout only where the split that
\* follows is about to be decided or done.
CountPending(c) ==
  /\ main.at = "decide" \/ (main.at = "stop" /\ ~main.exiting)
  /\ main.channel = c

IdleInv ==
  \A c \in Channels :
    /\ call[c].idle_count <= Timeout \/ CountPending(c)
    /\ main.at = "start" /\ main.channel = c => call[c].idle_count = 0

IInv == /\ TypeOK /\ NothingLost /\ AlwaysListening /\ IdleCountFollowsSound
        /\ ControlInv /\ UnusedInv /\ IdleInv

-----------------------------------------------------------------------------

\* What lending, ending and stopping make of a sink.
LEMMA SinkEffects ==
  ASSUME NEW k \in SinkRecords
  PROVE  /\ Lent(k) \in SinkRecords
         /\ Lent(k).phase = "IDLE"
         /\ Lent(k).kept = k.closed
         /\ Lent(k).closed = k.closed
         /\ Lent(k).begun = k.begun
         /\ Ended(k) \in SinkRecords
         /\ Ended(k).phase = "IDLE"
         /\ Ended(k).kept = k.kept
         /\ Ended(k).closed = k.closed + 1
         /\ Ended(k).begun = k.begun
         /\ Stopped(k) \in SinkRecords
         /\ Stopped(k).phase = "AVAILABLE"
         /\ Stopped(k).kept = k.kept
         /\ Stopped(k).closed =
              k.closed + (IF k.phase = "RECORDING" THEN 1 ELSE 0)
         /\ Stopped(k).begun = k.begun
<1>1. /\ Lent(k) \in SinkRecords
      /\ Lent(k).phase = "IDLE"
      /\ Lent(k).kept = k.closed
      /\ Lent(k).closed = k.closed
      /\ Lent(k).begun = k.begun
  BY DEF Lent, SinkRecords
<1>2. /\ Ended(k) \in SinkRecords
      /\ Ended(k).phase = "IDLE"
      /\ Ended(k).kept = k.kept
      /\ Ended(k).closed = k.closed + 1
      /\ Ended(k).begun = k.begun
  <2>1. k.prior + k.open \in Nat /\ k.closed + 1 \in Nat
    BY DEF SinkRecords
  <2>2. Ended(k) \in SinkRecords
    BY <2>1 DEF Ended, SinkRecords
  <2>3. /\ Ended(k).phase = "IDLE"
        /\ Ended(k).kept = k.kept
        /\ Ended(k).closed = k.closed + 1
        /\ Ended(k).begun = k.begun
    BY DEF Ended, SinkRecords
  <2>. QED BY <2>2, <2>3
<1>3. CASE k.phase = "RECORDING"
  <2>1. Stopped(k) = [Ended(k) EXCEPT !.phase = "AVAILABLE"]
    BY <1>3 DEF Stopped
  <2>2. Stopped(k) \in SinkRecords /\ Stopped(k).phase = "AVAILABLE"
    BY <1>2, <2>1 DEF SinkRecords
  <2>3. /\ Stopped(k).kept = k.kept
        /\ Stopped(k).closed = k.closed + 1
        /\ Stopped(k).begun = k.begun
    BY <1>2, <2>1 DEF SinkRecords
  <2>. QED BY <1>1, <1>2, <1>3, <2>2, <2>3
<1>4. CASE k.phase # "RECORDING"
  <2>1. Stopped(k) = [k EXCEPT !.phase = "AVAILABLE"]
    BY <1>4 DEF Stopped
  <2>2. Stopped(k) \in SinkRecords /\ Stopped(k).phase = "AVAILABLE"
    BY <2>1 DEF SinkRecords
  <2>3. /\ Stopped(k).kept = k.kept
        /\ Stopped(k).closed = k.closed
        /\ Stopped(k).begun = k.begun
    BY <2>1 DEF SinkRecords
  <2>4. k.closed + 0 = k.closed
    BY DEF SinkRecords
  <2>. QED BY <1>1, <1>2, <1>4, <2>2, <2>3, <2>4
<1>. QED BY <1>3, <1>4

\* What samples make of a sink.
LEMMA HeardEffect ==
  ASSUME NEW k \in SinkRecords
  PROVE  /\ Heard(k) \in SinkRecords
         /\ Heard(k).kept = k.kept
         /\ Heard(k).closed = k.closed
         /\ k.phase = "IDLE" => /\ Heard(k).begun = k.begun + 1
                                /\ Heard(k).phase = "RECORDING"
         /\ k.phase # "IDLE" => /\ Heard(k).begun = k.begun
                                /\ Heard(k).phase = k.phase
<1>1. CASE k.phase = "IDLE"
  <2>1. Heard(k) = [k EXCEPT !.phase = "RECORDING", !.open = 1,
                             !.begun = k.begun + 1]
    BY <1>1 DEF Heard
  <2>2. /\ Heard(k).kept = k.kept
        /\ Heard(k).closed = k.closed
        /\ Heard(k).begun = k.begun + 1
        /\ Heard(k).phase = "RECORDING"
    BY <2>1 DEF SinkRecords
  <2>3. /\ k.begun + 1 \in Nat
        /\ k.prior \in Nat /\ k.kept \in Nat /\ k.closed \in Nat
    BY DEF SinkRecords
  <2>4. Heard(k) =
          [phase |-> "RECORDING", prior |-> k.prior, open |-> 1,
           kept |-> k.kept, closed |-> k.closed, begun |-> k.begun + 1]
    BY <2>1 DEF SinkRecords
  <2>5. Heard(k) \in SinkRecords
    BY <2>3, <2>4 DEF SinkRecords
  <2>. QED BY <1>1, <2>2, <2>5
<1>2. CASE k.phase # "IDLE"
  <2>1. Heard(k) = [k EXCEPT !.open = k.open + 1]
    BY <1>2 DEF Heard
  <2>2. /\ Heard(k).kept = k.kept
        /\ Heard(k).closed = k.closed
        /\ Heard(k).begun = k.begun
        /\ Heard(k).phase = k.phase
    BY <2>1 DEF SinkRecords
  <2>3. Heard(k) \in SinkRecords
    BY <2>1 DEF SinkRecords
  <2>. QED BY <1>2, <2>2, <2>3
<1>. QED BY <1>1, <1>2

\* A step that changes one sink leaves the others alone.
LEMMA OneSink ==
  ASSUME TypeOK, NEW c \in Channels, NEW s \in Slots, NEW k \in SinkRecords,
         sink' = [sink EXCEPT ![c][s] = k]
  PROVE  /\ sink' \in [Channels -> [Slots -> SinkRecords]]
         /\ sink'[c][s] = k
         /\ \A d \in Channels, z \in Slots :
              <<d, z>> # <<c, s>> => sink'[d][z] = sink[d][z]
BY DEF TypeOK

-----------------------------------------------------------------------------

\* The fields of main at each place.
LEMMA MainFields ==
  ASSUME TypeOK
  PROVE  /\ main.at \in {"look", "exit", "decide", "stop", "start"} =>
              main.left \subseteq Channels
         /\ main.at \in {"decide", "stop", "start"} => main.channel \in Channels
         /\ main.at \in {"stop", "start"} =>
              main.slots \subseteq Slots /\ main.exiting \in BOOLEAN
BY DEF TypeOK, MainStates

\* A step of the main thread leads to one of its states.
LEMMA MainType ==
  ASSUME TypeOK, ConventionalAssumption, [Next]_vars
  PROVE  main' \in MainStates
<1>0. main \in MainStates /\ SlotsOf \in [Channels -> SUBSET Slots]
  BY DEF TypeOK, ConventionalAssumption
<1>1. CASE Radio
  <2>1. main' = main
    BY <1>1 DEF Radio, SquelchOpens, SquelchCloses, Hear, EndOfTransmission
  <2>. QED BY <1>0, <2>1
<1>2. CASE Round \/ RoundDone \/ StartDone \/ Exit \/ ExitDone
  BY <1>0, <1>2, MainFields
     DEF Round, RoundDone, StartDone, Exit, ExitDone, MainStates
<1>3. ASSUME NEW c \in Channels, LookAtSilent(c) PROVE main' \in MainStates
  <2>1. main.left \subseteq Channels /\ main.at = "look"
    BY <1>3, MainFields DEF LookAtSilent, Looking
  <2>2. main = [at |-> "look", left |-> main.left]
    BY <1>0, <2>1 DEF MainStates
  <2>3. [main EXCEPT !.left = @ \ {c}] =
          [at |-> "look", left |-> main.left \ {c}]
    BY <2>2
  <2>4. [at |-> "look", left |-> main.left \ {c}] \in MainStates
    BY <2>1 DEF MainStates
  <2>5. [at |-> "start", channel |-> c, slots |-> SlotsOf[c],
         left |-> main.left \ {c}, exiting |-> FALSE] \in MainStates
    BY <1>0, <2>1 DEF MainStates
  <2>. QED BY <1>3, <2>3, <2>4, <2>5 DEF LookAtSilent
<1>4. ASSUME NEW c \in Channels, LookAtHeard(c) PROVE main' \in MainStates
  <2>1. main.left \subseteq Channels
    BY <1>4, MainFields DEF LookAtHeard, Looking
  <2>. QED BY <1>4, <2>1 DEF LookAtHeard, MainStates
<1>5. ASSUME NEW c \in Channels, Decide(c) PROVE main' \in MainStates
  <2>1. main.left \subseteq Channels
    BY <1>5, MainFields DEF Decide
  <2>2. [at |-> "stop", channel |-> c, slots |-> SlotsOf[c],
         left |-> main.left, exiting |-> FALSE] \in MainStates
    BY <1>0, <2>1 DEF MainStates
  <2>3. [at |-> "look", left |-> main.left] \in MainStates
    BY <2>1 DEF MainStates
  <2>. QED BY <1>5, <2>2, <2>3 DEF Decide
<1>6. ASSUME NEW c \in Channels, NEW s \in Slots, StopSink(c, s) \/ StartSink(c, s)
      PROVE  main' \in MainStates
  <2>1. main.at \in {"stop", "start"}
    BY <1>6 DEF StopSink, StartSink
  <2>2. main \in [at : {"stop", "start"}, channel : Channels,
                  slots : SUBSET Slots, left : SUBSET Channels,
                  exiting : BOOLEAN]
    BY <1>0, <2>1 DEF MainStates
  <2>3. main' = [main EXCEPT !.slots = main.slots \ {s}]
    BY <1>6 DEF StopSink, StartSink
  <2>4. main' \in [at : {"stop", "start"}, channel : Channels,
                   slots : SUBSET Slots, left : SUBSET Channels,
                   exiting : BOOLEAN]
    BY <2>2, <2>3
  <2>. QED BY <2>4 DEF MainStates
<1>7. ASSUME NEW c \in Channels, HandOver(c) PROVE main' \in MainStates
  <2>1. main.left \subseteq Channels
    BY <1>7, MainFields DEF HandOver
  <2>2. [at |-> "start", channel |-> c, slots |-> SlotsOf[c],
         left |-> main.left, exiting |-> FALSE] \in MainStates
    BY <1>0, <2>1 DEF MainStates
  <2>3. [at |-> "exit", left |-> main.left] \in MainStates
    BY <2>1 DEF MainStates
  <2>. QED BY <1>7, <2>2, <2>3 DEF HandOver
<1>8. ASSUME NEW c \in Channels, ExitCall(c) PROVE main' \in MainStates
  <2>1. main.left \subseteq Channels /\ main.at = "exit"
    BY <1>8, MainFields DEF ExitCall
  <2>2. main = [at |-> "exit", left |-> main.left]
    BY <1>0, <2>1 DEF MainStates
  <2>3. [main EXCEPT !.left = @ \ {c}] =
          [at |-> "exit", left |-> main.left \ {c}]
    BY <2>2
  <2>4. [at |-> "exit", left |-> main.left \ {c}] \in MainStates
    BY <2>1 DEF MainStates
  <2>5. [at |-> "stop", channel |-> c, slots |-> SlotsOf[c],
         left |-> main.left \ {c}, exiting |-> TRUE] \in MainStates
    BY <1>0, <2>1 DEF MainStates
  <2>. QED BY <1>8, <2>3, <2>4, <2>5 DEF ExitCall
<1>9. CASE UNCHANGED vars
  BY <1>0, <1>9 DEF vars
<1>. QED
  BY <1>1, <1>2, <1>3, <1>4, <1>5, <1>6, <1>7, <1>8, <1>9 DEF Next, Manage

\* restart_call leaves a call record.
LEMMA RestartedType ==
  ASSUME NEW Counts, 0 \in Counts,
         NEW rec \in [state : {"MONITORING", "RECORDING", "DELETED"},
                      idle_count : Counts]
  PROVE  Restarted(rec) \in [state : {"MONITORING", "RECORDING", "DELETED"},
                             idle_count : Counts]
BY DEF Restarted

\* Type correctness of a step.
LEMMA TypeOKInductive ==
  ASSUME TypeOK, IdleInv, ConventionalAssumption, [Next]_vars
  PROVE  TypeOK'
<1>m. main' \in MainStates
  BY MainType
<1>a. /\ call \in [Channels -> CallRecords]
      /\ active \subseteq Channels
      /\ unmuted \subseteq Channels
      /\ sink \in [Channels -> [Slots -> SinkRecords]]
      /\ handed \in [Channels -> [Slots -> Nat]]
  BY DEF TypeOK
<1>c. ASSUME NEW c \in Channels
      PROVE  /\ Deleted(call[c]) \in CallRecords
             /\ Restarted(call[c]) \in CallRecords
             /\ [call[c] EXCEPT !.state = "RECORDING"] \in CallRecords
             /\ main.at = "look" =>
                  [call[c] EXCEPT !.idle_count = IdleCount(c)] \in CallRecords
  <2>1. call[c] \in [state : {"MONITORING", "RECORDING", "DELETED"},
                     idle_count : 0..(Timeout + 1)]
    BY <1>a DEF CallRecords
  <2>2. ASSUME main.at = "look" PROVE IdleCount(c) \in 0..(Timeout + 1)
    <3>1. call[c].idle_count \in 0..(Timeout + 1) /\ Timeout \in Nat
      BY <2>1 DEF ConventionalAssumption
    <3>2. call[c].idle_count <= Timeout
      BY <2>2 DEF IdleInv, CountPending
    <3>3. call[c].idle_count + 1 \in 0..(Timeout + 1) /\ 0 \in 0..(Timeout + 1)
      BY <3>1, <3>2
    <3>. QED BY <3>3 DEF IdleCount
  <2>3. Deleted(call[c]) \in CallRecords
    BY <2>1 DEF Deleted, CallRecords
  <2>4. Restarted(call[c]) \in CallRecords
    <3>1. Timeout \in Nat
      BY DEF ConventionalAssumption
    <3>2. 0 \in 0..(Timeout + 1)
      BY <3>1
    <3>. QED BY <2>1, <3>2, RestartedType DEF CallRecords
  <2>5. [call[c] EXCEPT !.state = "RECORDING"] \in CallRecords
    BY <2>1 DEF CallRecords
  <2>6. main.at = "look" =>
          [call[c] EXCEPT !.idle_count = IdleCount(c)] \in CallRecords
    BY <2>1, <2>2 DEF CallRecords
  <2>. QED BY <2>3, <2>4, <2>5, <2>6
<1>1. ASSUME NEW c \in Channels, NEW s \in Slots, NEW k \in SinkRecords,
             sink' = [sink EXCEPT ![c][s] = k],
             UNCHANGED <<call, active, unmuted, handed>>
      PROVE  TypeOK'
  BY <1>1, <1>a, <1>m, OneSink DEF TypeOK
<1>2. ASSUME NEW c \in Channels, NEW s \in Slots,
             Hear(c, s) \/ EndOfTransmission(c, s)
      PROVE  TypeOK'
  <2>1. sink[c][s] \in SinkRecords
    BY <1>a
  <2>2. CASE Hear(c, s)
    BY <1>1, <2>1, <2>2, HeardEffect DEF Hear
  <2>3. CASE EndOfTransmission(c, s)
    BY <1>1, <2>1, <2>3, SinkEffects DEF EndOfTransmission
  <2>. QED BY <1>2, <2>2, <2>3
<1>3. ASSUME NEW c \in Channels, SquelchOpens(c) \/ SquelchCloses(c)
      PROVE  TypeOK'
  BY <1>3, <1>a, <1>m DEF SquelchOpens, SquelchCloses, TypeOK
<1>4. CASE Round \/ RoundDone \/ StartDone \/ Exit \/ ExitDone
  BY <1>4, <1>a, <1>m DEF Round, RoundDone, StartDone, Exit, ExitDone, TypeOK
<1>5. ASSUME NEW c \in Channels, LookAtSilent(c) PROVE TypeOK'
  <2>1. call' \in [Channels -> CallRecords] /\ active' \subseteq Channels
    BY <1>5, <1>a, <1>c DEF LookAtSilent
  <2>. QED BY <1>5, <1>a, <1>m, <2>1 DEF LookAtSilent, TypeOK
<1>6. ASSUME NEW c \in Channels, LookAtHeard(c) PROVE TypeOK'
  <2>1. call' \in [Channels -> CallRecords]
    BY <1>6, <1>a, <1>c DEF LookAtHeard, Looking
  <2>. QED BY <1>6, <1>a, <1>m, <2>1 DEF LookAtHeard, TypeOK
<1>7. ASSUME NEW c \in Channels, Decide(c) PROVE TypeOK'
  BY <1>7, <1>a, <1>m DEF Decide, TypeOK
<1>8. ASSUME NEW c \in Channels, NEW s \in Slots, StopSink(c, s) \/ StartSink(c, s)
      PROVE  TypeOK'
  <2>1. sink[c][s] \in SinkRecords
    BY <1>a
  <2>2. CASE StopSink(c, s)
    BY <1>1, <2>1, <2>2, SinkEffects DEF StopSink
  <2>3. CASE StartSink(c, s)
    BY <1>1, <2>1, <2>3, SinkEffects DEF StartSink
  <2>. QED BY <1>8, <2>2, <2>3
<1>9. ASSUME NEW c \in Channels, HandOver(c) PROVE TypeOK'
  <2>1. ASSUME NEW s \in Slots PROVE HandedBy(c, s) \in Nat
    <3>1. sink[c][s] \in SinkRecords
      BY <1>a
    <3>2. sink[c][s].closed \in Nat
      BY <3>1 DEF SinkRecords
    <3>. QED BY <3>2 DEF HandedBy
  <2>2. handed' \in [Channels -> [Slots -> Nat]]
    BY <1>9, <1>a, <2>1 DEF HandOver
  <2>3. call' \in [Channels -> CallRecords] /\ active' \subseteq Channels
    BY <1>9, <1>a, <1>c DEF HandOver
  <2>. QED BY <1>9, <1>a, <1>m, <2>2, <2>3 DEF HandOver, TypeOK
<1>10. ASSUME NEW c \in Channels, ExitCall(c) PROVE TypeOK'
  <2>1. call' \in [Channels -> CallRecords] /\ active' \subseteq Channels
    BY <1>10, <1>a, <1>c DEF ExitCall
  <2>. QED BY <1>10, <1>a, <1>m, <2>1 DEF ExitCall, TypeOK
<1>11. CASE UNCHANGED vars
  BY <1>11, <1>a, <1>m DEF vars, TypeOK
<1>. QED
  BY <1>2, <1>3, <1>4, <1>5, <1>6, <1>7, <1>8, <1>9, <1>10, <1>11
     DEF Next, Radio, Manage

-----------------------------------------------------------------------------

\* What NothingLost says of one sink k of which h transmissions were handed
\* over.
Accounted(k, h) ==
  /\ k.begun = k.closed + (IF k.phase = "RECORDING" THEN 1 ELSE 0)
  /\ \/ h = k.kept
     \/ h = k.closed /\ k.phase = "AVAILABLE"

LEMMA EffectsAccounted ==
  ASSUME NEW k \in SinkRecords, NEW h \in Nat, Accounted(k, h)
  PROVE  /\ k.phase # "AVAILABLE" => Accounted(Heard(k), h)
         /\ k.phase = "RECORDING" => Accounted(Ended(k), h)
         /\ Accounted(Stopped(k), h)
         /\ k.phase = "AVAILABLE" /\ h = k.closed => Accounted(Lent(k), h)
<1>0. /\ k.phase \in {"AVAILABLE", "IDLE", "RECORDING"}
      /\ k.closed \in Nat /\ k.kept \in Nat /\ k.begun \in Nat
  BY DEF SinkRecords
<1>1. k.phase # "AVAILABLE" => Accounted(Heard(k), h)
  BY <1>0, HeardEffect DEF Accounted
<1>2. k.phase = "RECORDING" => Accounted(Ended(k), h)
  BY <1>0, SinkEffects DEF Accounted
<1>3. Accounted(Stopped(k), h)
  BY <1>0, SinkEffects DEF Accounted
<1>4. k.phase = "AVAILABLE" /\ h = k.closed => Accounted(Lent(k), h)
  BY <1>0, SinkEffects DEF Accounted
<1>. QED BY <1>1, <1>2, <1>3, <1>4

\* No transmission is lost or handed over twice by a step.
LEMMA NothingLostInductive ==
  ASSUME IInv, ConventionalAssumption, [Next]_vars
  PROVE  NothingLost'
<1>a. ASSUME NEW d \in Channels, NEW z \in Slots
      PROVE  /\ sink[d][z] \in SinkRecords
             /\ handed[d][z] \in Nat
             /\ Accounted(sink[d][z], handed[d][z])
  BY DEF IInv, TypeOK, NothingLost, Accounted
<1>b. ASSUME \A d \in Channels, z \in Slots : Accounted(sink'[d][z], handed'[d][z])
      PROVE  NothingLost'
  BY <1>b DEF NothingLost, Accounted
<1>1. ASSUME NEW c \in Channels, NEW s \in Slots, NEW k \in SinkRecords,
             sink' = [sink EXCEPT ![c][s] = k], handed' = handed,
             Accounted(k, handed[c][s])
      PROVE  NothingLost'
  <2>0. sink' = [sink EXCEPT ![c][s] = k] /\ TypeOK
    BY <1>1 DEF IInv
  <2>a. sink'[c][s] = k
    BY <2>0 DEF TypeOK
  <2>1. ASSUME NEW d \in Channels, NEW z \in Slots
        PROVE  Accounted(sink'[d][z], handed'[d][z])
    <3>1. CASE d = c /\ z = s
      BY <1>1, <2>a, <3>1
    <3>2. CASE ~(d = c /\ z = s)
      <4>1. sink'[d][z] = sink[d][z]
        BY <2>0, <3>2, OneSink
      <4>. QED BY <1>1, <1>a, <4>1
    <3>. QED BY <3>1, <3>2
  <2>. QED BY <1>b, <2>1
<1>2. ASSUME NEW c \in Channels, NEW s \in Slots, Hear(c, s)
      PROVE  NothingLost'
  <2>1. sink[c][s].phase # "AVAILABLE" /\ handed' = handed
    BY <1>2 DEF Hear
  <2>2. Accounted(Heard(sink[c][s]), handed[c][s])
    BY <1>a, <2>1, EffectsAccounted
  <2>3. Heard(sink[c][s]) \in SinkRecords
    BY <1>a, HeardEffect
  <2>4. sink' = [sink EXCEPT ![c][s] = Heard(sink[c][s])]
    BY <1>2 DEF Hear
  <2>. QED BY <1>1, <2>1, <2>2, <2>3, <2>4
<1>3. ASSUME NEW c \in Channels, NEW s \in Slots, EndOfTransmission(c, s)
      PROVE  NothingLost'
  <2>1. sink[c][s].phase = "RECORDING" /\ handed' = handed
    BY <1>3 DEF EndOfTransmission
  <2>2. Accounted(Ended(sink[c][s]), handed[c][s])
    BY <1>a, <2>1, EffectsAccounted
  <2>3. Ended(sink[c][s]) \in SinkRecords
    BY <1>a, SinkEffects
  <2>4. sink' = [sink EXCEPT ![c][s] = Ended(sink[c][s])]
    BY <1>3 DEF EndOfTransmission
  <2>. QED BY <1>1, <2>1, <2>2, <2>3, <2>4
<1>4. ASSUME NEW c \in Channels, NEW s \in Slots, StopSink(c, s)
      PROVE  NothingLost'
  <2>1. handed' = handed
    BY <1>4 DEF StopSink
  <2>2. Accounted(Stopped(sink[c][s]), handed[c][s])
    BY <1>a, EffectsAccounted
  <2>3. Stopped(sink[c][s]) \in SinkRecords
    BY <1>a, SinkEffects
  <2>4. sink' = [sink EXCEPT ![c][s] = Stopped(sink[c][s])]
    BY <1>4 DEF StopSink
  <2>. QED BY <1>1, <2>1, <2>2, <2>3, <2>4
<1>5. ASSUME NEW c \in Channels, NEW s \in Slots, StartSink(c, s)
      PROVE  NothingLost'
  <2>1. handed' = handed /\ Emptied(c, s)
    BY <1>5 DEF StartSink, IInv, ControlInv, StartInv
  <2>2. Accounted(Lent(sink[c][s]), handed[c][s])
    BY <1>a, <2>1, EffectsAccounted DEF Emptied
  <2>3. Lent(sink[c][s]) \in SinkRecords
    BY <1>a, SinkEffects
  <2>4. sink' = [sink EXCEPT ![c][s] = Lent(sink[c][s])]
    BY <1>5 DEF StartSink
  <2>. QED BY <1>1, <2>1, <2>2, <2>3, <2>4
<1>6. ASSUME NEW c \in Channels, HandOver(c) PROVE NothingLost'
  <2>1. \A s \in Slots : sink[c][s].phase = "AVAILABLE"
    BY <1>6 DEF HandOver, IInv, ControlInv, StopInv
  <2>2. handed' = [handed EXCEPT ![c] = [s \in Slots |-> sink[c][s].closed]]
    BY <1>6 DEF HandOver, HandedBy
  <2>3. ASSUME NEW d \in Channels, NEW z \in Slots
        PROVE  Accounted(sink'[d][z], handed'[d][z])
    <3>1. sink' = sink
      BY <1>6 DEF HandOver
    <3>2. CASE d = c
      <4>1. handed'[d][z] = sink[d][z].closed
        BY <2>2, <3>2 DEF IInv, TypeOK
      <4>. QED BY <1>a, <2>1, <3>1, <3>2, <4>1 DEF Accounted
    <3>3. CASE d # c
      <4>1. handed'[d][z] = handed[d][z]
        BY <2>2, <3>3 DEF IInv, TypeOK
      <4>. QED BY <1>a, <3>1, <4>1
    <3>. QED BY <3>2, <3>3
  <2>. QED BY <1>b, <2>3
<1>7. ASSUME UNCHANGED <<sink, handed>> PROVE NothingLost'
  BY <1>7, <1>a, <1>b
<1>8. ASSUME NEW c \in Channels,
             \/ SquelchOpens(c) \/ SquelchCloses(c) \/ LookAtSilent(c)
             \/ LookAtHeard(c) \/ Decide(c) \/ ExitCall(c)
      PROVE  NothingLost'
  BY <1>7, <1>8 DEF SquelchOpens, SquelchCloses, LookAtSilent, LookAtHeard,
                    Decide, ExitCall
<1>9. CASE Round \/ RoundDone \/ StartDone \/ Exit \/ ExitDone
  BY <1>7, <1>9 DEF Round, RoundDone, StartDone, Exit, ExitDone
<1>10. CASE UNCHANGED vars
  BY <1>7, <1>10 DEF vars
<1>. QED
  BY <1>2, <1>3, <1>4, <1>5, <1>6, <1>8, <1>9, <1>10 DEF Next, Radio, Manage

-----------------------------------------------------------------------------

\* The radio changes lent sinks only, and they stay lent.
LEMMA RadioEffect ==
  ASSUME TypeOK, Radio
  PROVE  /\ UNCHANGED <<call, active, handed, main>>
         /\ \A d \in Channels, z \in Slots :
              /\ sink[d][z].phase = "AVAILABLE" => sink'[d][z] = sink[d][z]
              /\ sink[d][z].phase # "AVAILABLE" =>
                   sink'[d][z].phase # "AVAILABLE"
<1>1. UNCHANGED <<call, active, handed, main>>
  BY DEF Radio, SquelchOpens, SquelchCloses, Hear, EndOfTransmission
<1>a. ASSUME NEW c \in Channels, NEW s \in Slots PROVE sink[c][s] \in SinkRecords
  BY DEF TypeOK
<1>2. ASSUME NEW c \in Channels, NEW s \in Slots, NEW k \in SinkRecords,
             sink' = [sink EXCEPT ![c][s] = k],
             sink[c][s].phase # "AVAILABLE", k.phase # "AVAILABLE",
             NEW d \in Channels, NEW z \in Slots
      PROVE  /\ sink[d][z].phase = "AVAILABLE" => sink'[d][z] = sink[d][z]
             /\ sink[d][z].phase # "AVAILABLE" =>
                  sink'[d][z].phase # "AVAILABLE"
  <2>1. CASE <<d, z>> = <<c, s>>
    <3>1. sink'[c][s] = k
      BY <1>2, OneSink
    <3>2. d = c /\ z = s
      BY <2>1
    <3>. QED BY <1>2, <3>1, <3>2
  <2>2. CASE <<d, z>> # <<c, s>>
    <3>1. sink'[d][z] = sink[d][z]
      BY <1>2, <2>2, OneSink
    <3>. QED BY <3>1
  <2>. QED BY <2>1, <2>2
<1>3. ASSUME NEW c \in Channels, NEW s \in Slots, Hear(c, s),
             NEW d \in Channels, NEW z \in Slots
      PROVE  /\ sink[d][z].phase = "AVAILABLE" => sink'[d][z] = sink[d][z]
             /\ sink[d][z].phase # "AVAILABLE" =>
                  sink'[d][z].phase # "AVAILABLE"
  <2>1. /\ sink[c][s].phase # "AVAILABLE"
        /\ sink' = [sink EXCEPT ![c][s] = Heard(sink[c][s])]
    BY <1>3 DEF Hear
  <2>2. /\ Heard(sink[c][s]) \in SinkRecords
        /\ Heard(sink[c][s]).phase # "AVAILABLE"
    BY <1>a, <2>1, HeardEffect
  <2>. QED BY <1>2, <2>1, <2>2
<1>4. ASSUME NEW c \in Channels, NEW s \in Slots, EndOfTransmission(c, s),
             NEW d \in Channels, NEW z \in Slots
      PROVE  /\ sink[d][z].phase = "AVAILABLE" => sink'[d][z] = sink[d][z]
             /\ sink[d][z].phase # "AVAILABLE" =>
                  sink'[d][z].phase # "AVAILABLE"
  <2>1. /\ sink[c][s].phase # "AVAILABLE"
        /\ sink' = [sink EXCEPT ![c][s] = Ended(sink[c][s])]
    BY <1>4 DEF EndOfTransmission
  <2>2. /\ Ended(sink[c][s]) \in SinkRecords
        /\ Ended(sink[c][s]).phase # "AVAILABLE"
    BY <1>a, SinkEffects
  <2>. QED BY <1>2, <2>1, <2>2
<1>5. ASSUME NEW c \in Channels, SquelchOpens(c) \/ SquelchCloses(c)
      PROVE  sink' = sink
  BY <1>5 DEF SquelchOpens, SquelchCloses
<1>. QED BY <1>1, <1>3, <1>4, <1>5 DEF Radio

\* Stopping or starting a sink moves main on, and changes no other sink.
LEMMA SwitchEffect ==
  ASSUME TypeOK, NEW c \in Channels, NEW s \in Slots,
         StopSink(c, s) \/ StartSink(c, s)
  PROVE  /\ UNCHANGED <<call, active, handed>>
         /\ main.channel = c /\ s \in main.slots
         /\ main'.at = main.at /\ main'.channel = main.channel
         /\ main'.exiting = main.exiting
         /\ main'.slots = main.slots \ {s}
         /\ StopSink(c, s) => main.at = "stop" /\ sink'[c][s].phase = "AVAILABLE"
         /\ StartSink(c, s) => main.at = "start" /\ sink'[c][s].phase = "IDLE"
         /\ \A d \in Channels, z \in Slots :
              <<d, z>> # <<c, s>> => sink'[d][z] = sink[d][z]
<1>1. /\ UNCHANGED <<call, active, handed>>
      /\ main.channel = c /\ s \in main.slots
      /\ main' = [main EXCEPT !.slots = main.slots \ {s}]
      /\ main.at \in {"stop", "start"}
  BY DEF StopSink, StartSink
<1>2. main \in [at : {"stop", "start"}, channel : Channels,
                slots : SUBSET Slots, left : SUBSET Channels,
                exiting : BOOLEAN]
  BY <1>1 DEF TypeOK, MainStates
<1>3. /\ main'.at = main.at /\ main'.channel = main.channel
      /\ main'.exiting = main.exiting
      /\ main'.slots = main.slots \ {s}
  BY <1>1, <1>2
<1>4. sink[c][s] \in SinkRecords
  BY DEF TypeOK
<1>5. CASE StopSink(c, s)
  <2>1. sink' = [sink EXCEPT ![c][s] = Stopped(sink[c][s])]
    BY <1>5 DEF StopSink
  <2>2. /\ Stopped(sink[c][s]) \in SinkRecords
        /\ Stopped(sink[c][s]).phase = "AVAILABLE"
    BY <1>4, SinkEffects
  <2>3. /\ sink'[c][s].phase = "AVAILABLE"
        /\ \A d \in Channels, z \in Slots :
             <<d, z>> # <<c, s>> => sink'[d][z] = sink[d][z]
    <3>1. sink'[c][s] = Stopped(sink[c][s])
      BY <2>1, <2>2, OneSink
    <3>2. \A d \in Channels, z \in Slots :
            <<d, z>> # <<c, s>> => sink'[d][z] = sink[d][z]
      BY <2>1, <2>2, OneSink
    <3>. QED BY <2>2, <3>1, <3>2
  <2>4. main.at = "stop" /\ ~StartSink(c, s)
    BY <1>5 DEF StopSink, StartSink
  <2>. QED BY <1>1, <1>3, <2>3, <2>4
<1>6. CASE StartSink(c, s)
  <2>1. sink' = [sink EXCEPT ![c][s] = Lent(sink[c][s])]
    BY <1>6 DEF StartSink
  <2>2. Lent(sink[c][s]) \in SinkRecords /\ Lent(sink[c][s]).phase = "IDLE"
    BY <1>4, SinkEffects
  <2>3. /\ sink'[c][s].phase = "IDLE"
        /\ \A d \in Channels, z \in Slots :
             <<d, z>> # <<c, s>> => sink'[d][z] = sink[d][z]
    <3>1. sink'[c][s] = Lent(sink[c][s])
      BY <2>1, <2>2, OneSink
    <3>2. \A d \in Channels, z \in Slots :
            <<d, z>> # <<c, s>> => sink'[d][z] = sink[d][z]
      BY <2>1, <2>2, OneSink
    <3>. QED BY <2>2, <3>1, <3>2
  <2>4. main.at = "start" /\ ~StopSink(c, s)
    BY <1>6 DEF StopSink, StartSink
  <2>. QED BY <1>1, <1>3, <2>3, <2>4
<1>. QED BY <1>5, <1>6

\* A step of the main thread that only goes on to the next channel.
LEMMA LeftEffect ==
  ASSUME TypeOK, main.at \in {"look", "exit"}, NEW S,
         main' = [main EXCEPT !.left = S]
  PROVE  main'.at = main.at
<1>1. main \in [at : {"look", "exit"}, left : SUBSET Channels]
  BY DEF TypeOK, MainStates
<1>. QED BY <1>1

\* Where main is, step by step, for the steps that leave the sinks alone.
LEMMA LookEffect ==
  ASSUME TypeOK, NEW c \in Channels, LookAtSilent(c)
  PROVE  /\ main.at = "look"
         /\ UNCHANGED <<sink, handed>>
         /\ \/ main'.at = "look" /\ UNCHANGED <<call, active>>
            \/ /\ c \notin active
               /\ get_current_length(c) = 0
               /\ main'.at = "start" /\ main'.channel = c
               /\ main'.slots = SlotsOf[c] /\ ~main'.exiting
               /\ call' = [call EXCEPT ![c].state = "RECORDING"]
               /\ active' = active \cup {c}
<1>1. main.at = "look"
  BY DEF LookAtSilent, Looking
<1>2. CASE c \in active
  <2>1. main' = [main EXCEPT !.left = main.left \ {c}]
    BY <1>2 DEF LookAtSilent
  <2>2. main'.at = "look"
    BY <1>1, <2>1, LeftEffect
  <2>. QED BY <1>1, <1>2, <2>2 DEF LookAtSilent
<1>3. CASE c \notin active
  BY <1>1, <1>3 DEF LookAtSilent
<1>. QED BY <1>2, <1>3

LEMMA ExitEffect ==
  ASSUME TypeOK, NEW c \in Channels, ExitCall(c)
  PROVE  /\ main.at = "exit"
         /\ UNCHANGED <<sink, handed>>
         /\ \/ /\ main'.at = "exit"
               /\ call' = [call EXCEPT ![c] = Deleted(call[c])]
               /\ active' = active
            \/ /\ call[c].state = "RECORDING"
               /\ main'.at = "stop" /\ main'.channel = c
               /\ main'.slots = SlotsOf[c] /\ main'.exiting
               /\ call' = call
               /\ active' = active \ {c}
<1>1. main.at = "exit"
  BY DEF ExitCall
<1>2. CASE call[c].state # "RECORDING"
  <2>1. main' = [main EXCEPT !.left = main.left \ {c}]
    BY <1>2 DEF ExitCall
  <2>2. main'.at = "exit"
    BY <1>1, <2>1, LeftEffect
  <2>. QED BY <1>1, <1>2, <2>2 DEF ExitCall
<1>3. CASE call[c].state = "RECORDING"
  BY <1>1, <1>3 DEF ExitCall
<1>. QED BY <1>2, <1>3

-----------------------------------------------------------------------------

\* Unused sinks stay empty.
LEMMA UnusedInductive ==
  ASSUME IInv, ConventionalAssumption, [Next]_vars
  PROVE  UnusedInv'
<1>a. TypeOK /\ UnusedInv /\ StopInv /\ StartInv
  BY DEF IInv, ControlInv
<1>b. ASSUME \A d \in Channels :
               call'[d].state = "MONITORING" => call[d].state = "MONITORING",
             UNCHANGED <<sink, handed>>
      PROVE  UnusedInv'
  BY <1>a, <1>b DEF UnusedInv, Emptied
<1>c. ASSUME NEW c \in Channels, NEW rec,
             rec.state = "MONITORING" => call[c].state = "MONITORING",
             call' = [call EXCEPT ![c] = rec],
             UNCHANGED <<sink, handed>>
      PROVE  UnusedInv'
  <2>1. call \in [Channels -> CallRecords]
    BY <1>a DEF TypeOK
  <2>2. \A d \in Channels : call'[d] = IF d = c THEN rec ELSE call[d]
    BY <1>c, <2>1
  <2>. QED BY <1>b, <1>c, <2>2
<1>1. CASE Radio
  BY <1>1, <1>a, RadioEffect DEF UnusedInv, Emptied
<1>2. ASSUME NEW c \in Channels, NEW s \in Slots, StopSink(c, s) \/ StartSink(c, s)
      PROVE  UnusedInv'
  <2>1. main.at \in {"stop", "start"}
    BY <1>2 DEF StopSink, StartSink
  <2>2. call[c].state = "RECORDING" /\ s \in SlotsOf[c]
    BY <1>2, <1>a, <2>1, SwitchEffect DEF StopInv, StartInv
  <2>3. UNCHANGED <<call, handed>>
    BY <1>2, <1>a, SwitchEffect
  <2>4. ASSUME NEW d \in Channels, NEW z \in Slots,
               call'[d].state = "MONITORING" \/ z \notin SlotsOf[d]
        PROVE  Emptied(d, z)'
    <3>1. <<d, z>> # <<c, s>>
      BY <2>2, <2>3, <2>4
    <3>2. sink'[d][z] = sink[d][z]
      BY <1>2, <1>a, <3>1, SwitchEffect
    <3>3. Emptied(d, z)
      BY <1>a, <2>3, <2>4 DEF UnusedInv
    <3>. QED BY <2>3, <3>2, <3>3 DEF Emptied
  <2>. QED BY <2>4 DEF UnusedInv
<1>3. ASSUME NEW c \in Channels, LookAtSilent(c) PROVE UnusedInv'
  <2>1. UNCHANGED <<sink, handed>>
    BY <1>3 DEF LookAtSilent
  <2>2. CASE call' = call
    BY <1>b, <2>1, <2>2
  <2>3. CASE call' = [call EXCEPT ![c].state = "RECORDING"]
    <3>1. call[c] \in CallRecords
      BY <1>a DEF TypeOK
    <3>2. [call[c] EXCEPT !.state = "RECORDING"].state = "RECORDING"
      BY <3>1 DEF CallRecords
    <3>. QED BY <1>c, <2>1, <2>3, <3>2
  <2>. QED BY <1>3, <1>a, <2>2, <2>3, LookEffect
<1>4. ASSUME NEW c \in Channels, LookAtHeard(c) PROVE UnusedInv'
  <2>1. call[c] \in CallRecords
    BY <1>a DEF TypeOK
  <2>2. [call[c] EXCEPT !.idle_count = IdleCount(c)].state = call[c].state
    BY <2>1 DEF CallRecords
  <2>. QED BY <1>4, <1>c, <2>2 DEF LookAtHeard
<1>5. ASSUME NEW c \in Channels, HandOver(c) PROVE UnusedInv'
  <2>1. \A s \in Slots : sink[c][s].phase = "AVAILABLE"
    BY <1>5, <1>a DEF HandOver, StopInv
  <2>2. handed' = [handed EXCEPT ![c] = [s \in Slots |-> sink[c][s].closed]]
    BY <1>5 DEF HandOver, HandedBy
  <2>3. sink' = sink
    BY <1>5 DEF HandOver
  <2>4. /\ \A z \in Slots : handed'[c][z] = sink[c][z].closed
        /\ \A d \in Channels : d # c => handed'[d] = handed[d]
    BY <1>a, <2>2 DEF TypeOK
  <2>5. call[c] \in CallRecords
    BY <1>a DEF TypeOK
  <2>6. /\ Deleted(call[c]).state = "DELETED"
        /\ Restarted(call[c]).state = "RECORDING"
    BY <2>5 DEF Deleted, Restarted, CallRecords
  <2>7. \A d \in Channels : d # c => call'[d] = call[d]
    BY <1>5, <1>a DEF HandOver, TypeOK
  <2>8. \A z \in Slots : Emptied(c, z)'
    BY <2>1, <2>3, <2>4 DEF Emptied
  <2>9. \A d \in Channels, z \in Slots :
          d # c /\ Emptied(d, z) => Emptied(d, z)'
    BY <2>3, <2>4 DEF Emptied
  <2>. QED BY <1>a, <2>7, <2>8, <2>9 DEF UnusedInv
<1>6. ASSUME NEW c \in Channels, ExitCall(c) PROVE UnusedInv'
  <2>1. call[c] \in CallRecords
    BY <1>a DEF TypeOK
  <2>2. Deleted(call[c]).state = "DELETED"
    BY <2>1 DEF Deleted, CallRecords
  <2>3. CASE call' = [call EXCEPT ![c] = Deleted(call[c])]
    BY <1>6, <1>a, <1>c, <2>2, <2>3, ExitEffect
  <2>4. CASE call' = call
    BY <1>6, <1>a, <1>b, <2>4, ExitEffect
  <2>. QED BY <1>6, <1>a, <2>3, <2>4, ExitEffect
<1>7. ASSUME NEW c \in Channels, Decide(c) PROVE UnusedInv'
  BY <1>7, <1>b DEF Decide
<1>8. CASE Round \/ RoundDone \/ StartDone \/ Exit \/ ExitDone
  BY <1>8, <1>b DEF Round, RoundDone, StartDone, Exit, ExitDone
<1>9. CASE UNCHANGED vars
  BY <1>9, <1>b DEF vars
<1>. QED
  BY <1>1, <1>2, <1>3, <1>4, <1>5, <1>6, <1>7, <1>8, <1>9 DEF Next, Manage

\* What AlwaysListening says of one channel.
Listens(c) ==
  call[c].state = "RECORDING" /\ ~Switching(c) =>
    /\ c \in active
    /\ \A s \in SlotsOf[c] : sink[c][s].phase # "AVAILABLE"

\* No step leaves a channel that was started unrecorded.
LEMMA AlwaysListeningInductive ==
  ASSUME IInv, ConventionalAssumption, [Next]_vars
  PROVE  AlwaysListening'
<1>a. TypeOK /\ StopInv /\ StartInv /\ \A d \in Channels : Listens(d)
  BY DEF IInv, ControlInv, AlwaysListening, Listens
<1>s. \A d \in Channels : SlotsOf[d] \subseteq Slots
  BY DEF ConventionalAssumption
<1>b. ASSUME \A d \in Channels : Listens(d)' PROVE AlwaysListening'
  BY <1>b DEF AlwaysListening, Listens
<1>c. ASSUME NEW d \in Channels,
             call'[d].state = "RECORDING" => call[d].state = "RECORDING",
             d \in active => d \in active',
             sink'[d] = sink[d], ~Switching(d)
      PROVE  Listens(d)'
  BY <1>a, <1>c DEF Listens
<1>1. CASE Radio
  <2>1. UNCHANGED <<call, active, main>>
    BY <1>1, <1>a, RadioEffect
  <2>2. \A d \in Channels, z \in Slots :
          sink[d][z].phase # "AVAILABLE" => sink'[d][z].phase # "AVAILABLE"
    BY <1>1, <1>a, RadioEffect
  <2>. QED BY <1>a, <1>b, <1>s, <2>1, <2>2 DEF Listens, Switching
<1>2. ASSUME NEW c \in Channels, NEW s \in Slots, StopSink(c, s) \/ StartSink(c, s)
      PROVE  AlwaysListening'
  <2>1. main.at \in {"stop", "start"} /\ main.channel = c
    BY <1>2 DEF StopSink, StartSink
  <2>2. main'.at \in {"stop", "start"} /\ main'.channel = c
    BY <1>2, <1>a, <2>1, SwitchEffect
  <2>3. UNCHANGED <<call, active>>
    BY <1>2, <1>a, SwitchEffect
  <2>4. ASSUME NEW d \in Channels, d # c PROVE Listens(d)'
    <3>1. \A z \in Slots : sink'[d][z] = sink[d][z]
      BY <1>2, <1>a, <2>4, SwitchEffect
    <3>2. ~Switching(d)
      BY <2>1, <2>4 DEF Switching
    <3>. QED BY <1>a, <1>s, <2>3, <3>1, <3>2 DEF Listens
  <2>5. Listens(c)'
    BY <2>2 DEF Listens, Switching
  <2>. QED BY <1>b, <2>4, <2>5
<1>3. ASSUME NEW c \in Channels, LookAtSilent(c) PROVE AlwaysListening'
  <2>1. main.at = "look" /\ UNCHANGED sink
    BY <1>3, <1>a, LookEffect
  <2>2. \A d \in Channels : ~Switching(d)
    BY <2>1 DEF Switching
  <2>3. CASE UNCHANGED <<call, active>>
    BY <1>b, <1>c, <2>1, <2>2, <2>3
  <2>4. CASE /\ main'.at = "start" /\ main'.channel = c
             /\ call' = [call EXCEPT ![c].state = "RECORDING"]
             /\ active' = active \cup {c}
    <3>1. Listens(c)'
      BY <2>4 DEF Listens, Switching
    <3>2. \A d \in Channels : d # c => call'[d] = call[d]
      BY <1>a, <2>4 DEF TypeOK
    <3>3. ASSUME NEW d \in Channels, d # c PROVE Listens(d)'
      BY <1>c, <2>1, <2>2, <2>4, <3>2, <3>3
    <3>. QED BY <1>b, <3>1, <3>3
  <2>. QED BY <1>3, <1>a, <2>3, <2>4, LookEffect
<1>4. ASSUME NEW c \in Channels, LookAtHeard(c) PROVE AlwaysListening'
  <2>1. UNCHANGED <<active, sink>> /\ main.at = "look"
    BY <1>4 DEF LookAtHeard, Looking
  <2>2. \A d \in Channels : ~Switching(d)
    BY <2>1 DEF Switching
  <2>3. call[c] \in CallRecords /\ call \in [Channels -> CallRecords]
    BY <1>a DEF TypeOK
  <2>4. [call[c] EXCEPT !.idle_count = IdleCount(c)].state = call[c].state
    BY <2>3 DEF CallRecords
  <2>5. call' = [call EXCEPT ![c] = [call[c] EXCEPT !.idle_count = IdleCount(c)]]
    BY <1>4 DEF LookAtHeard
  <2>6. \A d \in Channels : call'[d].state = call[d].state
    BY <2>3, <2>4, <2>5
  <2>. QED BY <1>b, <1>c, <2>1, <2>2, <2>6
<1>5. ASSUME NEW c \in Channels, Decide(c) PROVE AlwaysListening'
  <2>1. UNCHANGED <<call, sink>> /\ main.at = "decide"
    BY <1>5 DEF Decide
  <2>2. \A d \in Channels : ~Switching(d)
    BY <2>1 DEF Switching
  <2>3. \/ active' = active
        \/ /\ main'.at = "stop" /\ main'.channel = c
           /\ active' = active \ {c}
    BY <1>5 DEF Decide
  <2>4. ASSUME NEW d \in Channels PROVE Listens(d)'
    <3>1. CASE Switching(d)'
      BY <3>1 DEF Listens
    <3>2. CASE ~Switching(d)'
      <4>1. d \in active => d \in active'
        BY <2>3, <3>2 DEF Switching
      <4>. QED BY <1>c, <2>1, <2>2, <4>1
    <3>. QED BY <3>1, <3>2
  <2>. QED BY <1>b, <2>4
<1>6. ASSUME NEW c \in Channels, HandOver(c) PROVE AlwaysListening'
  <2>1. main.at = "stop" /\ main.channel = c /\ UNCHANGED sink
    BY <1>6 DEF HandOver
  <2>2. call[c] \in CallRecords
    BY <1>a DEF TypeOK
  <2>3. Deleted(call[c]).state = "DELETED"
    BY <2>2 DEF Deleted, CallRecords
  <2>4. \A d \in Channels : d # c => call'[d] = call[d]
    BY <1>6, <1>a DEF HandOver, TypeOK
  <2>5. active \subseteq active'
    BY <1>6 DEF HandOver
  <2>6. ASSUME NEW d \in Channels, d # c PROVE Listens(d)'
    <3>1. ~Switching(d)
      BY <2>1, <2>6 DEF Switching
    <3>. QED BY <1>c, <2>1, <2>4, <2>5, <2>6, <3>1
  <2>7. Listens(c)'
    <3>1. CASE main.exiting
      <4>1. call' = [call EXCEPT ![c] = Deleted(call[c])]
        BY <1>6, <3>1 DEF HandOver
      <4>2. call'[c].state = "DELETED"
        BY <1>a, <2>3, <4>1 DEF TypeOK
      <4>. QED BY <4>2 DEF Listens
    <3>2. CASE ~main.exiting
      <4>1. main'.at = "start" /\ main'.channel = c
        BY <1>6, <3>2 DEF HandOver
      <4>. QED BY <4>1 DEF Listens, Switching
    <3>. QED BY <3>1, <3>2
  <2>. QED BY <1>b, <2>6, <2>7
<1>7. CASE StartDone
  <2>1. /\ main.at = "start" /\ main.slots = {}
        /\ UNCHANGED <<call, active, sink>>
    BY <1>7 DEF StartDone
  <2>2. ASSUME NEW d \in Channels PROVE Listens(d)'
    <3>1. CASE d = main.channel
      BY <1>a, <2>1, <3>1 DEF StartInv, Listens
    <3>2. CASE d # main.channel
      <4>1. ~Switching(d)
        BY <3>2 DEF Switching
      <4>. QED BY <1>c, <2>1, <4>1
    <3>. QED BY <3>1, <3>2
  <2>. QED BY <1>b, <2>2
<1>8. ASSUME NEW c \in Channels, ExitCall(c) PROVE AlwaysListening'
  <2>1. main.at = "exit" /\ UNCHANGED sink
    BY <1>8, <1>a, ExitEffect
  <2>2. \A d \in Channels : ~Switching(d)
    BY <2>1 DEF Switching
  <2>3. CASE call' = [call EXCEPT ![c] = Deleted(call[c])] /\ active' = active
    <3>1. call[c] \in CallRecords
      BY <1>a DEF TypeOK
    <3>2. Deleted(call[c]).state = "DELETED"
      BY <3>1 DEF Deleted, CallRecords
    <3>3. /\ call'[c] = Deleted(call[c])
          /\ \A d \in Channels : d # c => call'[d] = call[d]
      BY <1>a, <2>3 DEF TypeOK
    <3>4. \A d \in Channels :
            call'[d].state = "RECORDING" => call[d].state = "RECORDING"
      BY <3>2, <3>3
    <3>. QED BY <1>b, <1>c, <2>1, <2>2, <2>3, <3>4
  <2>4. CASE /\ main'.at = "stop" /\ main'.channel = c
             /\ call' = call /\ active' = active \ {c}
    <3>1. Listens(c)'
      BY <2>4 DEF Listens, Switching
    <3>2. ASSUME NEW d \in Channels, d # c PROVE Listens(d)'
      BY <1>c, <2>1, <2>2, <2>4, <3>2
    <3>. QED BY <1>b, <3>1, <3>2
  <2>. QED BY <1>8, <1>a, <2>3, <2>4, ExitEffect
<1>9. CASE Round \/ RoundDone \/ Exit \/ ExitDone
  <2>1. UNCHANGED <<call, active, sink>>
    BY <1>9 DEF Round, RoundDone, Exit, ExitDone
  <2>2. \A d \in Channels : ~Switching(d)
    BY <1>9 DEF Round, RoundDone, Exit, ExitDone, Switching
  <2>. QED BY <1>b, <1>c, <2>1, <2>2
<1>10. CASE UNCHANGED vars
  BY <1>10, <1>a, <1>b DEF vars, Listens, Switching
<1>. QED
  BY <1>1, <1>2, <1>3, <1>4, <1>5, <1>6, <1>7, <1>8, <1>9, <1>10
     DEF Next, Manage

\* Where main is after a step, and what it has done there.
LEMMA ControlInductive ==
  ASSUME IInv, ConventionalAssumption, [Next]_vars
  PROVE  ControlInv'
<1>a. /\ TypeOK /\ StopInv /\ StartInv /\ DecideInv
      /\ DeletedAtExit /\ UnusedInv /\ AlwaysListening
  BY DEF IInv, ControlInv
<1>m. /\ main.at \in {"decide", "stop", "start"} => main.channel \in Channels
      /\ main.at \in {"stop", "start"} => main.slots \subseteq Slots
  BY <1>a, MainFields
<1>s. \A d \in Channels : SlotsOf[d] \subseteq Slots
  BY DEF ConventionalAssumption
<1>b. ASSUME main'.at \in {"loop", "look", "exit", "exited"},
             DeletedAtExit'
      PROVE  ControlInv'
  BY <1>b DEF ControlInv, StopInv, StartInv, DecideInv
<1>d. ASSUME \A d \in Channels :
               call'[d].state = "DELETED" => call[d].state = "DELETED",
             Exiting => Exiting'
      PROVE  DeletedAtExit'
  BY <1>a, <1>d DEF DeletedAtExit
<1>1. CASE Radio
  <2>1. UNCHANGED <<call, active, handed, main>>
    BY <1>1, <1>a, RadioEffect
  <2>2. \A d \in Channels, z \in Slots :
          /\ sink[d][z].phase = "AVAILABLE" => sink'[d][z] = sink[d][z]
          /\ sink[d][z].phase # "AVAILABLE" => sink'[d][z].phase # "AVAILABLE"
    BY <1>1, <1>a, RadioEffect
  <2>3. StopInv'
    BY <1>a, <1>m, <2>1, <2>2 DEF StopInv
  <2>4. StartInv'
    BY <1>a, <1>m, <1>s, <2>1, <2>2 DEF StartInv, Emptied
  <2>5. DecideInv' /\ DeletedAtExit'
    BY <1>a, <2>1 DEF DecideInv, DeletedAtExit, Exiting
  <2>. QED BY <2>3, <2>4, <2>5 DEF ControlInv
<1>2. ASSUME NEW c \in Channels, NEW s \in Slots, StopSink(c, s)
      PROVE  ControlInv'
  <2>1. /\ UNCHANGED <<call, active, handed>>
        /\ main.channel = c /\ main.at = "stop"
        /\ main'.at = "stop" /\ main'.channel = c
        /\ main'.exiting = main.exiting
        /\ main'.slots = main.slots \ {s}
        /\ sink'[c][s].phase = "AVAILABLE"
    BY <1>2, <1>a, SwitchEffect
  <2>2. ASSUME NEW z \in Slots, z # s PROVE sink'[c][z] = sink[c][z]
    <3>1. \A d \in Channels, y \in Slots :
            <<d, y>> # <<c, s>> => sink'[d][y] = sink[d][y]
      BY <1>2, <1>a, SwitchEffect
    <3>. QED BY <2>2, <3>1
  <2>3. StopInv'
    BY <1>a, <2>1, <2>2 DEF StopInv
  <2>4. StartInv' /\ DecideInv'
    BY <2>1 DEF StartInv, DecideInv
  <2>5. DeletedAtExit'
    BY <1>d, <2>1 DEF Exiting
  <2>. QED BY <2>3, <2>4, <2>5 DEF ControlInv
<1>3. ASSUME NEW c \in Channels, NEW s \in Slots, StartSink(c, s)
      PROVE  ControlInv'
  <2>1. /\ UNCHANGED <<call, active, handed>>
        /\ main.channel = c /\ main.at = "start"
        /\ main'.at = "start" /\ main'.channel = c
        /\ main'.exiting = main.exiting
        /\ main'.slots = main.slots \ {s}
        /\ sink'[c][s].phase = "IDLE"
    BY <1>3, <1>a, SwitchEffect
  <2>2. ASSUME NEW z \in Slots, z # s PROVE sink'[c][z] = sink[c][z]
    <3>1. \A d \in Channels, y \in Slots :
            <<d, y>> # <<c, s>> => sink'[d][y] = sink[d][y]
      BY <1>3, <1>a, SwitchEffect
    <3>. QED BY <2>2, <3>1
  <2>3. StartInv'
    <3>1. /\ main.slots \subseteq SlotsOf[c] /\ call[c].state = "RECORDING"
          /\ c \in active /\ ~main.exiting
          /\ \A z \in main.slots : Emptied(c, z)
          /\ \A z \in SlotsOf[c] \ main.slots :
               sink[c][z].phase # "AVAILABLE"
      BY <1>a, <2>1 DEF StartInv
    <3>2. \A z \in main.slots \ {s} : Emptied(c, z)'
      BY <1>s, <2>1, <2>2, <3>1 DEF Emptied
    <3>3. \A z \in SlotsOf[c] \ (main.slots \ {s}) :
            sink'[c][z].phase # "AVAILABLE"
      BY <1>s, <2>1, <2>2, <3>1
    <3>. QED BY <2>1, <3>1, <3>2, <3>3 DEF StartInv
  <2>4. StopInv' /\ DecideInv'
    BY <2>1 DEF StopInv, DecideInv
  <2>5. DeletedAtExit'
    BY <1>d, <2>1 DEF Exiting
  <2>. QED BY <2>3, <2>4, <2>5 DEF ControlInv
<1>4. ASSUME NEW c \in Channels, LookAtSilent(c) PROVE ControlInv'
  <2>1. main.at = "look" /\ UNCHANGED <<sink, handed>> /\ ~Exiting
    BY <1>4, <1>a, LookEffect DEF Exiting
  <2>2. CASE main'.at = "look" /\ UNCHANGED <<call, active>>
    BY <1>b, <1>d, <2>1, <2>2
  <2>3. CASE /\ c \notin active
             /\ main'.at = "start" /\ main'.channel = c
             /\ main'.slots = SlotsOf[c] /\ ~main'.exiting
             /\ call' = [call EXCEPT ![c].state = "RECORDING"]
             /\ active' = active \cup {c}
    <3>1. call[c].state \in {"MONITORING", "RECORDING", "DELETED"}
      BY <1>a DEF TypeOK, CallRecords
    <3>2. call[c].state # "DELETED"
      BY <1>a, <2>1 DEF DeletedAtExit
    <3>3. ~Switching(c)
      BY <2>1 DEF Switching
    <3>4. call[c].state # "RECORDING"
      BY <1>a, <2>3, <3>3 DEF AlwaysListening
    <3>5. \A s \in Slots : Emptied(c, s)
      BY <1>a, <3>1, <3>2, <3>4 DEF UnusedInv
    <3>6. call'[c].state = "RECORDING"
      BY <1>a, <2>3 DEF TypeOK, CallRecords
    <3>7. StartInv'
      BY <1>s, <2>1, <2>3, <3>5, <3>6 DEF StartInv, Emptied
    <3>8. \A d \in Channels : d # c => call'[d] = call[d]
      BY <1>a, <2>3 DEF TypeOK
    <3>9. DeletedAtExit'
      BY <1>d, <2>1, <3>6, <3>8
    <3>. QED BY <2>3, <3>7, <3>9 DEF ControlInv, StopInv, DecideInv
  <2>. QED BY <1>4, <1>a, <2>2, <2>3, LookEffect
<1>5. ASSUME NEW c \in Channels, LookAtHeard(c) PROVE ControlInv'
  <2>1. /\ main.at = "look" /\ main'.at = "decide" /\ main'.channel = c
        /\ get_current_length(c) > 0
        /\ call' = [call EXCEPT ![c] =
                       [call[c] EXCEPT !.idle_count = IdleCount(c)]]
    BY <1>5 DEF LookAtHeard, Looking
  <2>2. call[c].state = "RECORDING"
    BY <2>1 DEF get_current_length
  <2>3. call[c] \in CallRecords /\ call \in [Channels -> CallRecords]
    BY <1>a DEF TypeOK
  <2>4. [call[c] EXCEPT !.idle_count = IdleCount(c)].state = call[c].state
    BY <2>3 DEF CallRecords
  <2>5. \A d \in Channels : call'[d].state = call[d].state
    BY <2>1, <2>3, <2>4
  <2>6. DecideInv'
    BY <2>1, <2>2, <2>5 DEF DecideInv
  <2>7. DeletedAtExit'
    BY <1>d, <2>1, <2>5 DEF Exiting
  <2>. QED BY <2>1, <2>6, <2>7 DEF ControlInv, StopInv, StartInv
<1>6. ASSUME NEW c \in Channels, Decide(c) PROVE ControlInv'
  <2>1. /\ main.at = "decide" /\ main.channel = c
        /\ UNCHANGED <<call, sink, handed>>
    BY <1>6 DEF Decide
  <2>2. DeletedAtExit'
    BY <1>d, <2>1 DEF Exiting
  <2>3. CASE main'.at = "look"
    BY <1>b, <2>2, <2>3
  <2>4. CASE main'.at = "stop" /\ main'.channel = c /\ main'.slots = SlotsOf[c]
    <3>1. call[c].state = "RECORDING"
      BY <1>a, <2>1 DEF DecideInv
    <3>2. \A s \in Slots \ SlotsOf[c] : sink[c][s].phase = "AVAILABLE"
      BY <1>a DEF UnusedInv, Emptied
    <3>3. StopInv'
      BY <2>1, <2>4, <3>1, <3>2 DEF StopInv
    <3>. QED BY <2>2, <2>4, <3>3 DEF ControlInv, StartInv, DecideInv
  <2>. QED BY <1>6, <2>3, <2>4 DEF Decide
<1>7. ASSUME NEW c \in Channels, HandOver(c) PROVE ControlInv'
  <2>1. /\ main.at = "stop" /\ main.channel = c /\ main.slots = {}
        /\ UNCHANGED sink
    BY <1>7 DEF HandOver
  <2>2. \A s \in Slots : sink[c][s].phase = "AVAILABLE"
    BY <1>a, <2>1 DEF StopInv
  <2>3. call[c] \in CallRecords
    BY <1>a DEF TypeOK
  <2>4. \A d \in Channels : d # c => call'[d] = call[d]
    BY <1>7, <1>a DEF HandOver, TypeOK
  <2>5. CASE main.exiting
    <3>1. main'.at = "exit"
      BY <1>7, <2>5 DEF HandOver
    <3>2. DeletedAtExit'
      BY <3>1 DEF DeletedAtExit, Exiting
    <3>. QED BY <1>b, <3>1, <3>2
  <2>6. CASE ~main.exiting
    <3>1. /\ main'.at = "start" /\ main'.channel = c
          /\ main'.slots = SlotsOf[c] /\ ~main'.exiting
          /\ call' = [call EXCEPT ![c] = Restarted(call[c])]
          /\ active' = active \cup {c}
      BY <1>7, <2>6 DEF HandOver
    <3>2. call'[c].state = "RECORDING"
      BY <1>a, <2>3, <3>1 DEF TypeOK, Restarted, CallRecords
    <3>3. handed' = [handed EXCEPT ![c] =
                       [s \in Slots |-> sink[c][s].closed]]
      BY <1>7 DEF HandOver, HandedBy
    <3>4. \A s \in Slots : handed'[c][s] = sink[c][s].closed
      BY <1>a, <3>3 DEF TypeOK
    <3>5. \A s \in Slots : Emptied(c, s)'
      BY <2>1, <2>2, <3>4 DEF Emptied
    <3>6. StartInv'
      BY <1>s, <3>1, <3>2, <3>5 DEF StartInv
    <3>7. DeletedAtExit'
      BY <1>d, <2>1, <2>4, <2>6, <3>2 DEF Exiting
    <3>. QED BY <3>1, <3>6, <3>7 DEF ControlInv, StopInv, DecideInv
  <2>. QED BY <2>5, <2>6
<1>8. ASSUME NEW c \in Channels, ExitCall(c) PROVE ControlInv'
  <2>1. main.at = "exit" /\ UNCHANGED <<sink, handed>>
    BY <1>8, <1>a, ExitEffect
  <2>2. CASE main'.at = "exit"
    <3>1. DeletedAtExit'
      BY <2>2 DEF DeletedAtExit, Exiting
    <3>. QED BY <1>b, <2>2, <3>1
  <2>3. CASE /\ call[c].state = "RECORDING"
             /\ main'.at = "stop" /\ main'.channel = c
             /\ main'.slots = SlotsOf[c] /\ main'.exiting
             /\ call' = call
    <3>1. \A s \in Slots \ SlotsOf[c] : sink[c][s].phase = "AVAILABLE"
      BY <1>a DEF UnusedInv, Emptied
    <3>2. StopInv'
      BY <2>1, <2>3, <3>1 DEF StopInv
    <3>3. DeletedAtExit'
      BY <2>3 DEF DeletedAtExit, Exiting
    <3>. QED BY <2>3, <3>2, <3>3 DEF ControlInv, StartInv, DecideInv
  <2>. QED BY <1>8, <1>a, <2>2, <2>3, ExitEffect
<1>9. CASE Round \/ RoundDone \/ StartDone \/ Exit \/ ExitDone
  <2>1. /\ UNCHANGED call
        /\ main'.at \in {"loop", "look", "exit", "exited"}
        /\ main.at \in {"exit", "exited"} => main'.at \in {"exit", "exited"}
        /\ main.at # "stop"
    BY <1>9 DEF Round, RoundDone, StartDone, Exit, ExitDone
  <2>2. DeletedAtExit'
    BY <1>d, <2>1 DEF Exiting
  <2>. QED BY <1>b, <2>1, <2>2
<1>10. CASE UNCHANGED vars
  BY <1>10, <1>a DEF vars, ControlInv, StopInv, StartInv, DecideInv,
                     DeletedAtExit, Exiting, Emptied
<1>. QED
  BY <1>1, <1>2, <1>3, <1>4, <1>5, <1>6, <1>7, <1>8, <1>9, <1>10
     DEF Next, Manage

-----------------------------------------------------------------------------

\* A transmission that goes on or ends does not make a call shorter.
LEMMA LengthEffect ==
  ASSUME NEW k \in SinkRecords
  PROVE  /\ total_length(Heard(k)) > 0
         /\ total_length(Ended(k)) = total_length(k)
<1>0. k.prior \in Nat /\ k.open \in Nat
  BY DEF SinkRecords
<1>1. total_length(Ended(k)) = total_length(k)
  <2>1. Ended(k).prior = k.prior + k.open /\ Ended(k).open = 0
    BY DEF Ended, SinkRecords
  <2>. QED BY <1>0, <2>1 DEF total_length
<1>2. total_length(Heard(k)) > 0
  <2>1. /\ Heard(k).prior = k.prior
        /\ Heard(k).open = 1 \/ Heard(k).open = k.open + 1
    BY DEF Heard, SinkRecords
  <2>. QED BY <1>0, <2>1 DEF total_length
<1>. QED BY <1>1, <1>2

LEMMA RadioLength ==
  ASSUME TypeOK, Radio, NEW d \in Channels, NEW z \in Slots,
         total_length(sink[d][z]) > 0
  PROVE  total_length(sink'[d][z]) > 0
<1>a. ASSUME NEW c \in Channels, NEW s \in Slots PROVE sink[c][s] \in SinkRecords
  BY DEF TypeOK
<1>1. ASSUME NEW c \in Channels, NEW s \in Slots, NEW k \in SinkRecords,
             sink' = [sink EXCEPT ![c][s] = k],
             total_length(k) > 0 \/ total_length(k) = total_length(sink[c][s])
      PROVE  total_length(sink'[d][z]) > 0
  <2>1. CASE <<d, z>> = <<c, s>>
    <3>1. sink'[c][s] = k
      BY <1>1, OneSink
    <3>2. d = c /\ z = s
      BY <2>1
    <3>. QED BY <1>1, <3>1, <3>2
  <2>2. CASE <<d, z>> # <<c, s>>
    <3>1. sink'[d][z] = sink[d][z]
      BY <1>1, <2>2, OneSink
    <3>. QED BY <3>1
  <2>. QED BY <2>1, <2>2
<1>2. ASSUME NEW c \in Channels, NEW s \in Slots, Hear(c, s)
      PROVE  total_length(sink'[d][z]) > 0
  <2>1. sink' = [sink EXCEPT ![c][s] = Heard(sink[c][s])]
    BY <1>2 DEF Hear
  <2>2. Heard(sink[c][s]) \in SinkRecords
    BY <1>a, HeardEffect
  <2>3. total_length(Heard(sink[c][s])) > 0
    BY <1>a, LengthEffect
  <2>. QED BY <1>1, <2>1, <2>2, <2>3
<1>3. ASSUME NEW c \in Channels, NEW s \in Slots, EndOfTransmission(c, s)
      PROVE  total_length(sink'[d][z]) > 0
  <2>1. sink' = [sink EXCEPT ![c][s] = Ended(sink[c][s])]
    BY <1>3 DEF EndOfTransmission
  <2>2. Ended(sink[c][s]) \in SinkRecords
    BY <1>a, SinkEffects
  <2>3. total_length(Ended(sink[c][s])) = total_length(sink[c][s])
    BY <1>a, LengthEffect
  <2>. QED BY <1>1, <2>1, <2>2, <2>3
<1>4. ASSUME NEW c \in Channels, SquelchOpens(c) \/ SquelchCloses(c)
      PROVE  sink' = sink
  BY <1>4 DEF SquelchOpens, SquelchCloses
<1>. QED BY <1>2, <1>3, <1>4 DEF Radio

\* What IdleInv and IdleCountFollowsSound say of one channel.
Counted(c) ==
  /\ call[c].idle_count <= Timeout \/ CountPending(c)
  /\ main.at = "start" /\ main.channel = c => call[c].idle_count = 0
  /\ call[c].idle_count > 0 /\ ~Switching(c) =>
       get_current_length(c) > 0 \/ call[c].state = "DELETED"

\* The count of idle looks follows the sound and is forgotten with it.
LEMMA IdleInductive ==
  ASSUME IInv, ConventionalAssumption, [Next]_vars
  PROVE  IdleInv' /\ IdleCountFollowsSound'
<1>a. TypeOK /\ DeletedAtExit /\ \A d \in Channels : Counted(d)
  BY DEF IInv, ControlInv, IdleInv, IdleCountFollowsSound, Counted
<1>b. ASSUME \A d \in Channels : Counted(d)'
      PROVE  IdleInv' /\ IdleCountFollowsSound'
  BY <1>b DEF IdleInv, IdleCountFollowsSound, Counted
<1>t. Timeout \in Nat /\ \A d \in Channels : 0 \in SlotsOf[d] /\ 0 \in Slots
  BY DEF ConventionalAssumption
<1>i. ASSUME NEW d \in Channels PROVE call[d] \in CallRecords /\ call[d].idle_count \in Nat
  BY <1>a, <1>t DEF TypeOK, CallRecords
<1>c. ASSUME NEW d \in Channels,
             call'[d] = call[d], sink'[d][0] = sink[d][0],
             Switching(d) => Switching(d)',
             CountPending(d) => CountPending(d)' \/ call[d].idle_count <= Timeout,
             main'.at = "start" /\ main'.channel = d =>
               main.at = "start" /\ main.channel = d
      PROVE  Counted(d)'
  <2>1. get_current_length(d)' = get_current_length(d)
    BY <1>c DEF get_current_length
  <2>. QED BY <1>a, <1>c, <2>1 DEF Counted
<1>1. CASE Radio
  <2>1. UNCHANGED <<call, active, handed, main>>
    BY <1>1, <1>a, RadioEffect
  <2>2. ASSUME NEW d \in Channels, get_current_length(d) > 0
        PROVE  get_current_length(d)' > 0
    <3>1. call[d].state = "RECORDING" /\ total_length(sink[d][0]) > 0
      BY <2>2 DEF get_current_length
    <3>2. total_length(sink'[d][0]) > 0
      BY <1>1, <1>a, <1>t, <3>1, RadioLength
    <3>3. get_current_length(d)' = total_length(sink'[d][0])
      BY <2>1, <3>1 DEF get_current_length, total_length
    <3>. QED BY <3>2, <3>3
  <2>3. ASSUME NEW d \in Channels PROVE Counted(d)'
    BY <1>a, <2>1, <2>2 DEF Counted, Switching, CountPending
  <2>. QED BY <1>b, <2>3
<1>2. ASSUME NEW c \in Channels, NEW s \in Slots, StopSink(c, s) \/ StartSink(c, s)
      PROVE  \A d \in Channels : Counted(d)'
  <2>1. /\ UNCHANGED call
        /\ main.channel = c /\ main'.at = main.at
        /\ main'.channel = main.channel /\ main'.exiting = main.exiting
    BY <1>2, <1>a, SwitchEffect
  <2>2. main.at \in {"stop", "start"}
    BY <1>2 DEF StopSink, StartSink
  <2>3. Counted(c)'
    BY <1>a, <2>1, <2>2 DEF Counted, Switching, CountPending
  <2>4. ASSUME NEW d \in Channels, d # c PROVE Counted(d)'
    <3>1. \A y \in Channels, z \in Slots :
            <<y, z>> # <<c, s>> => sink'[y][z] = sink[y][z]
      BY <1>2, <1>a, SwitchEffect
    <3>2. sink'[d][0] = sink[d][0]
      BY <1>t, <2>4, <3>1
    <3>3. ~Switching(d) /\ ~CountPending(d)
      BY <2>1, <2>4 DEF Switching, CountPending
    <3>. QED BY <1>c, <2>1, <2>4, <3>2, <3>3
  <2>. QED BY <2>3, <2>4
<1>3. ASSUME NEW c \in Channels, LookAtSilent(c)
      PROVE  \A d \in Channels : Counted(d)'
  <2>1. main.at = "look" /\ UNCHANGED sink
    BY <1>3, <1>a, LookEffect
  <2>2. \A d \in Channels : ~Switching(d) /\ ~CountPending(d)
    BY <2>1 DEF Switching, CountPending
  <2>3. CASE main'.at = "look" /\ UNCHANGED call
    BY <1>c, <2>1, <2>2, <2>3
  <2>4. CASE /\ main'.at = "start" /\ main'.channel = c
             /\ get_current_length(c) = 0
             /\ call' = [call EXCEPT ![c].state = "RECORDING"]
    <3>1. call[c].state # "DELETED"
      BY <1>a, <2>1 DEF DeletedAtExit, Exiting
    <3>2. ~(call[c].idle_count > 0)
      BY <1>a, <2>2, <2>4, <3>1 DEF Counted
    <3>3. call[c].idle_count = 0
      BY <1>i, <3>2
    <3>4. /\ call'[c] = [call[c] EXCEPT !.state = "RECORDING"]
          /\ \A d \in Channels : d # c => call'[d] = call[d]
      BY <1>a, <2>4 DEF TypeOK
    <3>5. call'[c].idle_count = 0
      BY <1>i, <3>3, <3>4 DEF CallRecords
    <3>6. Counted(c)'
      BY <1>t, <3>5 DEF Counted
    <3>7. ASSUME NEW d \in Channels, d # c PROVE Counted(d)'
      BY <1>c, <2>1, <2>2, <2>4, <3>4, <3>7
    <3>. QED BY <3>6, <3>7
  <2>. QED BY <1>3, <1>a, <2>3, <2>4, LookEffect
<1>4. ASSUME NEW c \in Channels, LookAtHeard(c)
      PROVE  \A d \in Channels : Counted(d)'
  <2>1. /\ UNCHANGED sink /\ main.at = "look"
        /\ main'.at = "decide" /\ main'.channel = c
        /\ get_current_length(c) > 0
        /\ call' = [call EXCEPT ![c] =
                       [call[c] EXCEPT !.idle_count = IdleCount(c)]]
    BY <1>4 DEF LookAtHeard, Looking
  <2>2. \A d \in Channels : ~Switching(d) /\ ~CountPending(d)
    BY <2>1 DEF Switching, CountPending
  <2>3. /\ call'[c] = [call[c] EXCEPT !.idle_count = IdleCount(c)]
        /\ \A d \in Channels : d # c => call'[d] = call[d]
    BY <1>a, <2>1 DEF TypeOK
  <2>4. call'[c].state = call[c].state
    BY <1>i, <2>3 DEF CallRecords
  <2>5. get_current_length(c)' = get_current_length(c)
    BY <2>1, <2>4 DEF get_current_length
  <2>6. CountPending(c)'
    BY <2>1 DEF CountPending
  <2>7. Counted(c)'
    BY <2>1, <2>5, <2>6 DEF Counted
  <2>8. ASSUME NEW d \in Channels, d # c PROVE Counted(d)'
    BY <1>c, <2>1, <2>2, <2>3, <2>8
  <2>. QED BY <2>7, <2>8
<1>5. ASSUME NEW c \in Channels, Decide(c)
      PROVE  \A d \in Channels : Counted(d)'
  <2>1. main.at = "decide" /\ main.channel = c /\ UNCHANGED <<call, sink>>
    BY <1>5 DEF Decide
  <2>2. \A d \in Channels : ~Switching(d)
    BY <2>1 DEF Switching
  <2>3. CASE SplitIsDue(c)
    <3>1. main'.at = "stop" /\ main'.channel = c /\ ~main'.exiting
      BY <1>5, <2>3 DEF Decide
    <3>2. \A d \in Channels : CountPending(d) => CountPending(d)'
      BY <2>1, <3>1 DEF CountPending
    <3>. QED BY <1>c, <2>1, <2>2, <3>1, <3>2
  <2>4. CASE ~SplitIsDue(c)
    <3>1. main'.at = "look"
      BY <1>5, <2>4 DEF Decide
    <3>2. call[c].idle_count <= Timeout
      BY <1>i, <1>t, <2>4 DEF SplitIsDue
    <3>3. \A d \in Channels : CountPending(d) => d = c
      BY <2>1 DEF CountPending
    <3>. QED BY <1>c, <2>1, <2>2, <3>1, <3>2, <3>3
  <2>. QED BY <2>3, <2>4
<1>6. ASSUME NEW c \in Channels, HandOver(c)
      PROVE  \A d \in Channels : Counted(d)'
  <2>1. main.at = "stop" /\ main.channel = c /\ UNCHANGED sink
    BY <1>6 DEF HandOver
  <2>2. \A d \in Channels : d # c => call'[d] = call[d]
    BY <1>6, <1>a DEF HandOver, TypeOK
  <2>3. main'.at = "start" => main'.channel = c
    BY <1>6 DEF HandOver
  <2>4. ASSUME NEW d \in Channels, d # c PROVE Counted(d)'
    <3>1. ~Switching(d) /\ ~CountPending(d)
      BY <2>1, <2>4 DEF Switching, CountPending
    <3>. QED BY <1>c, <2>1, <2>2, <2>3, <2>4, <3>1
  <2>5. CASE main.exiting
    <3>1. main'.at = "exit" /\ call' = [call EXCEPT ![c] = Deleted(call[c])]
      BY <1>6, <2>5 DEF HandOver
    <3>2. call'[c] = Deleted(call[c])
      BY <1>a, <3>1 DEF TypeOK
    <3>3. /\ call'[c].state = "DELETED"
          /\ call'[c].idle_count = call[c].idle_count
      BY <1>i, <3>2 DEF Deleted, CallRecords
    <3>4. call[c].idle_count <= Timeout
      BY <1>a, <2>1, <2>5 DEF Counted, CountPending
    <3>5. Counted(c)'
      BY <3>1, <3>3, <3>4 DEF Counted
    <3>. QED BY <2>4, <3>5
  <2>6. CASE ~main.exiting
    <3>1. call' = [call EXCEPT ![c] = Restarted(call[c])]
      BY <1>6, <2>6 DEF HandOver
    <3>2. call'[c] = Restarted(call[c])
      BY <1>a, <3>1 DEF TypeOK
    <3>3. call'[c].idle_count = 0
      BY <1>i, <3>2 DEF Restarted, CallRecords
    <3>4. Counted(c)'
      BY <1>t, <3>3 DEF Counted
    <3>. QED BY <2>4, <3>4
  <2>. QED BY <2>5, <2>6
<1>7. CASE StartDone
  <2>1. /\ main.at = "start" /\ main'.at = "look"
        /\ UNCHANGED <<call, sink>>
    BY <1>7 DEF StartDone
  <2>2. ASSUME NEW d \in Channels, main.channel = d PROVE Counted(d)'
    <3>1. call[d].idle_count = 0
      BY <1>a, <2>1, <2>2 DEF Counted
    <3>. QED BY <1>t, <2>1, <3>1 DEF Counted
  <2>3. ASSUME NEW d \in Channels, main.channel # d PROVE Counted(d)'
    <3>1. ~Switching(d) /\ ~CountPending(d)
      BY <2>3 DEF Switching, CountPending
    <3>. QED BY <1>c, <2>1, <3>1
  <2>. QED BY <1>b, <2>2, <2>3
<1>8. ASSUME NEW c \in Channels, ExitCall(c)
      PROVE  \A d \in Channels : Counted(d)'
  <2>1. main.at = "exit" /\ UNCHANGED sink
    BY <1>8, <1>a, ExitEffect
  <2>2. \A d \in Channels : ~Switching(d) /\ ~CountPending(d)
    BY <2>1 DEF Switching, CountPending
  <2>3. CASE main'.at = "exit" /\ call' = [call EXCEPT ![c] = Deleted(call[c])]
    <3>1. /\ call'[c] = Deleted(call[c])
          /\ \A d \in Channels : d # c => call'[d] = call[d]
      BY <1>a, <2>3 DEF TypeOK
    <3>2. /\ call'[c].state = "DELETED"
          /\ call'[c].idle_count = call[c].idle_count
      BY <1>i, <3>1 DEF Deleted, CallRecords
    <3>3. call[c].idle_count <= Timeout
      BY <1>a, <2>2 DEF Counted
    <3>4. Counted(c)'
      BY <2>3, <3>2, <3>3 DEF Counted
    <3>5. ASSUME NEW d \in Channels, d # c PROVE Counted(d)'
      BY <1>c, <2>1, <2>2, <2>3, <3>1, <3>5
    <3>. QED BY <3>4, <3>5
  <2>4. CASE main'.at = "stop" /\ call' = call
    BY <1>c, <2>1, <2>2, <2>4
  <2>. QED BY <1>8, <1>a, <2>3, <2>4, ExitEffect
<1>9. CASE Round \/ RoundDone \/ Exit \/ ExitDone
  <2>1. /\ UNCHANGED <<call, sink>>
        /\ main.at \in {"loop", "look", "exit"}
        /\ main'.at \in {"loop", "look", "exit", "exited"}
    BY <1>9 DEF Round, RoundDone, Exit, ExitDone
  <2>2. \A d \in Channels : ~Switching(d) /\ ~CountPending(d)
    BY <2>1 DEF Switching, CountPending
  <2>3. ASSUME NEW d \in Channels PROVE Counted(d)'
    BY <1>c, <2>1, <2>2
  <2>. QED BY <1>b, <2>3
<1>10. CASE UNCHANGED vars
  <2>1. ASSUME NEW d \in Channels PROVE Counted(d)'
    BY <1>10, <1>c DEF vars, Switching, CountPending
  <2>. QED BY <1>b, <2>1
<1>. QED
  BY <1>b, <1>1, <1>2, <1>3, <1>4, <1>5, <1>6, <1>7, <1>8, <1>9, <1>10
     DEF Next, Manage

-----------------------------------------------------------------------------

\* The invariant holds before the first round.
LEMMA InitInv ==
  ASSUME Init, ConventionalAssumption
  PROVE  IInv
<1>1. NewSink \in SinkRecords /\ Lent(NewSink) \in SinkRecords
  BY DEF NewSink, Lent, SinkRecords
<1>2. /\ NewSink.phase = "AVAILABLE" /\ NewSink.kept = 0
      /\ NewSink.closed = 0 /\ NewSink.begun = 0
      /\ Lent(NewSink).phase = "IDLE" /\ Lent(NewSink).kept = 0
      /\ Lent(NewSink).closed = 0 /\ Lent(NewSink).begun = 0
  BY DEF NewSink, Lent
<1>3. /\ main = [at |-> "loop"] /\ active = Analog
      /\ \A c \in Channels, s \in Slots :
           /\ sink[c][s] = IF c \in Analog /\ s \in SlotsOf[c]
                           THEN Lent(NewSink) ELSE NewSink
           /\ handed[c][s] = 0
      /\ \A c \in Channels :
           call[c].state = IF c \in Analog THEN "RECORDING" ELSE "MONITORING"
  BY DEF Init
<1>4. TypeOK
  <2>1. sink \in [Channels -> [Slots -> SinkRecords]]
    BY <1>1 DEF Init
  <2>2. call \in [Channels -> CallRecords]
    BY DEF Init, CallRecords, ConventionalAssumption
  <2>3. main \in MainStates
    BY <1>3 DEF MainStates
  <2>. QED BY <1>3, <2>1, <2>2, <2>3
           DEF TypeOK, Init, ConventionalAssumption
<1>5. NothingLost
  <2>1. ASSUME NEW c \in Channels, NEW s \in Slots
        PROVE  /\ sink[c][s].phase # "RECORDING"
               /\ sink[c][s].kept = 0 /\ sink[c][s].closed = 0
               /\ sink[c][s].begun = 0 /\ handed[c][s] = 0
    BY <1>2, <1>3
  <2>2. 0 = 0 + 0
    OBVIOUS
  <2>. QED BY <2>1, <2>2 DEF NothingLost
<1>6. AlwaysListening
  BY <1>2, <1>3 DEF AlwaysListening, ConventionalAssumption
<1>7. ControlInv
  BY <1>3 DEF ControlInv, StopInv, StartInv, DecideInv, DeletedAtExit
<1>8. UnusedInv
  BY <1>2, <1>3 DEF UnusedInv, Emptied
<1>9. IdleInv /\ IdleCountFollowsSound
  <2>1. \A c \in Channels : call[c].idle_count = 0
    BY DEF Init
  <2>. QED BY <2>1 DEF IdleInv, IdleCountFollowsSound, ConventionalAssumption
<1>. QED BY <1>4, <1>5, <1>6, <1>7, <1>8, <1>9 DEF IInv

\* What is left of one sink after a step, as its life cycle sees it.
LEMMA SinkStep ==
  ASSUME IInv, ConventionalAssumption, [Next]_vars,
         NEW d \in Channels, NEW z \in Slots
  PROVE  [Lifecycle(d, z)!Next]_(Lifecycle(d, z)!sinkVars)
<1> USE DEF Lifecycle!sinkVars
<1> DEFINE k == sink[d][z]
           Goal == [Lifecycle(d, z)!Next]_(Lifecycle(d, z)!sinkVars)
<1>a. TypeOK /\ NothingLost /\ StartInv
  BY DEF IInv, ControlInv
<1>t. TypeOK
  BY <1>a
<1>k. k \in SinkRecords /\ k.closed \in Nat /\ k.kept \in Nat
  BY <1>a DEF TypeOK, SinkRecords
<1>u. ASSUME UNCHANGED sink PROVE Goal
  BY <1>u
<1>1. ASSUME NEW c \in Channels, NEW s \in Slots, NEW new \in SinkRecords,
             sink' = [sink EXCEPT ![c][s] = new],
             <<c, s>> = <<d, z>> => \/ Lifecycle(d, z)!Next
                                    \/ UNCHANGED (Lifecycle(d, z)!sinkVars)
      PROVE  Goal
  <2>1. CASE <<c, s>> = <<d, z>>
    BY <1>1, <2>1
  <2>2. CASE <<c, s>> # <<d, z>>
    <3>1. sink'[d][z] = sink[d][z]
      BY <1>1, <1>a, <2>2, OneSink
    <3>. QED BY <3>1
  <2>. QED BY <2>1, <2>2
<1>2. ASSUME NEW c \in Channels, NEW s \in Slots, Hear(c, s) PROVE Goal
  <2>1. /\ sink[c][s] \in SinkRecords
        /\ sink' = [sink EXCEPT ![c][s] = Heard(sink[c][s])]
        /\ sink[c][s].phase # "AVAILABLE"
    BY <1>2, <1>a DEF Hear, TypeOK
  <2>2. Heard(sink[c][s]) \in SinkRecords
    BY <2>1, HeardEffect
  <2>3. ASSUME <<c, s>> = <<d, z>>
        PROVE  \/ Lifecycle(d, z)!Next
               \/ UNCHANGED (Lifecycle(d, z)!sinkVars)
    <3>0. c = d /\ s = z
      BY <2>3
    <3>1. sink'[d][z] = Heard(k)
      <4>1. sink'[c][s] = Heard(sink[c][s])
        BY <1>t, <2>1 DEF TypeOK
      <4>. QED BY <3>0, <4>1
    <3>2. sink'[d][z].kept = k.kept /\ sink'[d][z].closed = k.closed
      BY <1>k, <3>1, HeardEffect
    <3>3. CASE k.phase = "IDLE"
      <4>1. sink'[d][z].phase = "RECORDING"
        BY <1>k, <3>1, <3>3, HeardEffect
      <4>. QED BY <3>2, <3>3, <4>1 DEF Lifecycle!Next, Lifecycle!Open
    <3>4. CASE k.phase # "IDLE"
      <4>1. sink'[d][z].phase = k.phase
        BY <1>k, <3>1, <3>4, HeardEffect
      <4>. QED BY <3>2, <4>1
    <3>. QED BY <3>3, <3>4
  <2>. QED BY <1>1, <2>1, <2>2, <2>3
<1>3. ASSUME NEW c \in Channels, NEW s \in Slots, EndOfTransmission(c, s)
      PROVE  Goal
  <2>1. /\ sink[c][s] \in SinkRecords
        /\ sink' = [sink EXCEPT ![c][s] = Ended(sink[c][s])]
        /\ sink[c][s].phase = "RECORDING"
    BY <1>3, <1>a DEF EndOfTransmission, TypeOK
  <2>2. Ended(sink[c][s]) \in SinkRecords
    BY <2>1, SinkEffects
  <2>3. ASSUME <<c, s>> = <<d, z>> PROVE Lifecycle(d, z)!Next
    <3>0. c = d /\ s = z
      BY <2>3
    <3>p. k.phase = "RECORDING"
      BY <2>1, <3>0
    <3>1. sink'[d][z] = Ended(k)
      <4>1. sink'[c][s] = Ended(sink[c][s])
        BY <1>t, <2>1 DEF TypeOK
      <4>. QED BY <3>0, <4>1
    <3>2. /\ sink'[d][z].phase = "IDLE"
          /\ sink'[d][z].kept = k.kept
          /\ sink'[d][z].closed = k.closed + 1
      BY <1>k, <3>1, SinkEffects
    <3>3. sink'[d][z].closed - sink'[d][z].kept = k.closed - k.kept + 1
      BY <1>k, <3>2
    <3>. QED BY <3>p, <3>2, <3>3 DEF Lifecycle!Next, Lifecycle!Close
  <2>. QED BY <1>1, <2>1, <2>2, <2>3
<1>4. ASSUME NEW c \in Channels, NEW s \in Slots, StopSink(c, s) PROVE Goal
  <2>1. /\ sink[c][s] \in SinkRecords
        /\ sink' = [sink EXCEPT ![c][s] = Stopped(sink[c][s])]
    BY <1>4, <1>a DEF StopSink, TypeOK
  <2>2. Stopped(sink[c][s]) \in SinkRecords
    BY <2>1, SinkEffects
  <2>3. ASSUME <<c, s>> = <<d, z>>
        PROVE  \/ Lifecycle(d, z)!Next
               \/ UNCHANGED (Lifecycle(d, z)!sinkVars)
    <3>0. c = d /\ s = z
      BY <2>3
    <3>1. sink'[d][z] = Stopped(k)
      <4>1. sink'[c][s] = Stopped(sink[c][s])
        BY <1>t, <2>1 DEF TypeOK
      <4>. QED BY <3>0, <4>1
    <3>2. /\ sink'[d][z].phase = "AVAILABLE"
          /\ sink'[d][z].kept = k.kept
          /\ sink'[d][z].closed =
               k.closed + (IF k.phase = "RECORDING" THEN 1 ELSE 0)
      BY <1>k, <3>1, SinkEffects
    <3>3. sink'[d][z].closed - sink'[d][z].kept =
            IF k.phase = "RECORDING" THEN k.closed - k.kept + 1
            ELSE k.closed - k.kept
      BY <1>k, <3>2
    <3>4. CASE k.phase # "AVAILABLE"
      BY <3>2, <3>3, <3>4 DEF Lifecycle!Next, Lifecycle!Return
    <3>5. CASE k.phase = "AVAILABLE"
      BY <3>2, <3>3, <3>5
    <3>. QED BY <3>4, <3>5
  <2>. QED BY <1>1, <2>1, <2>2, <2>3
<1>5. ASSUME NEW c \in Channels, NEW s \in Slots, StartSink(c, s) PROVE Goal
  <2>1. /\ sink[c][s] \in SinkRecords
        /\ sink' = [sink EXCEPT ![c][s] = Lent(sink[c][s])]
        /\ sink[c][s].phase = "AVAILABLE"
    BY <1>5, <1>a DEF StartSink, TypeOK, StartInv, Emptied
  <2>2. Lent(sink[c][s]) \in SinkRecords
    BY <2>1, SinkEffects
  <2>3. ASSUME <<c, s>> = <<d, z>> PROVE Lifecycle(d, z)!Next
    <3>0. c = d /\ s = z
      BY <2>3
    <3>p. k.phase = "AVAILABLE"
      BY <2>1, <3>0
    <3>1. sink'[d][z] = Lent(k)
      <4>1. sink'[c][s] = Lent(sink[c][s])
        BY <1>t, <2>1 DEF TypeOK
      <4>. QED BY <3>0, <4>1
    <3>2. /\ sink'[d][z].phase = "IDLE"
          /\ sink'[d][z].kept = k.closed
          /\ sink'[d][z].closed = k.closed
      BY <1>k, <3>1, SinkEffects
    <3>3. sink'[d][z].closed - sink'[d][z].kept = 0
      BY <1>k, <3>2
    <3>. QED BY <3>p, <3>2, <3>3 DEF Lifecycle!Next, Lifecycle!Lend
  <2>. QED BY <1>1, <2>1, <2>2, <2>3
<1>6. ASSUME NEW c \in Channels, SquelchOpens(c) \/ SquelchCloses(c)
      PROVE  UNCHANGED sink
  BY <1>6 DEF SquelchOpens, SquelchCloses
<1>7. ASSUME NEW c \in Channels,
             LookAtSilent(c) \/ LookAtHeard(c) \/ Decide(c) \/ HandOver(c)
               \/ ExitCall(c)
      PROVE  UNCHANGED sink
  BY <1>7 DEF LookAtSilent, LookAtHeard, Decide, HandOver, ExitCall
<1>8. ASSUME Round \/ RoundDone \/ StartDone \/ Exit \/ ExitDone
               \/ UNCHANGED vars
      PROVE  UNCHANGED sink
  BY <1>8 DEF Round, RoundDone, StartDone, Exit, ExitDone, vars
<1> HIDE DEF Goal
<1>9. ASSUME Radio PROVE Goal
  BY <1>9, <1>2, <1>3, <1>6, <1>u DEF Radio
<1>10. ASSUME Manage PROVE Goal
  BY <1>10, <1>4, <1>5, <1>7, <1>8, <1>u DEF Manage
<1>11. Goal
  BY <1>9, <1>10, <1>8, <1>u DEF Next
<1>. QED BY <1>11 DEF Goal

\* Every state of the program satisfies the invariant.
THEOREM Invariance == Spec => []IInv
<1>1. ASSUME IInv, [Next]_vars PROVE IInv'
  BY <1>1, ConventionalAssumption, TypeOKInductive, NothingLostInductive,
     AlwaysListeningInductive, ControlInductive, UnusedInductive,
     IdleInductive DEF IInv
<1>2. Init => IInv
  BY ConventionalAssumption, InitInv
<1>. QED BY <1>1, <1>2, PTL DEF Spec

\* The variables of the conventional channels keep their types.
THEOREM TypeCorrect == Spec => []TypeOK
<1>1. IInv => TypeOK
  BY DEF IInv
<1>. QED BY <1>1, Invariance, PTL

\* A conventional channel's transmissions are all handed over, each once, in
\* the order of the splits: manage_conventional_call and conclude_call cut a
\* recording between any two samples without a loss.
THEOREM EveryTransmissionOnce == Spec => []NothingLost
<1>1. IInv => NothingLost
  BY DEF IInv
<1>. QED BY <1>1, Invariance, PTL

\* A conventional channel that was started is recorded until the exit.
THEOREM NeverUnrecorded == Spec => []AlwaysListening
<1>1. IInv => AlwaysListening
  BY DEF IInv
<1>. QED BY <1>1, Invariance, PTL

\* manage_conventional_call counts idle looks only for a call that holds
\* sound, and restart_call forgets them.
THEOREM IdleAlwaysFollowsSound == Spec => []IdleCountFollowsSound
<1>1. IInv => IdleCountFollowsSound
  BY DEF IInv
<1>. QED BY <1>1, Invariance, PTL

\* Splitting a conventional recording, and the exit, use every sink as it
\* promises to be used: it is never lent twice, never given back with a
\* transmission open, and starts with an empty list.
THEOREM SinksAlwaysKeepLifecycle == Spec => SinksKeepLifecycle
<1>1. IInv /\ [Next]_vars =>
        [\A c \in Channels, s \in Slots :
           [Lifecycle(c, s)!Next]_(Lifecycle(c, s)!sinkVars)]_vars
  BY ConventionalAssumption, SinkStep
<1>. QED BY <1>1, Invariance, PTL DEF Spec, SinksKeepLifecycle

=============================================================================
