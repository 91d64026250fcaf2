------------------------- MODULE CallManagerProofs -------------------------
(***************************************************************************)
(* For every set of calls, recorders, systems, talkgroups and channels and *)
(* for every configuration: a recorder works for one call at a time, every *)
(* transmission is handed over, and every sink keeps its life cycle.       *)
(***************************************************************************)
EXTENDS CallManager, TLAPS

\* A sink has an owner exactly while it is lent.
OwnedIffLent ==
  \A r \in Recorders : sink[r].owner = NoCall <=> sink[r].phase = "AVAILABLE"

\* What the fields of a live call say of each other.
CallsAreCoherent ==
  \A c \in live :
    /\ call[c].state = "RECORDING" => call[c].recorder \in Recorders
    /\ call[c].state = "MONITORING" /\ call[c].handed = NotHanded =>
         call[c].recorder = NoRecorder /\ call[c].aux = {}
    /\ call[c].state = "RECORDING" /\ call[c].handed # NotHanded =>
         main.at = "erase" /\ main.call = c

\* The call the main loop is concluding, and those it still has to visit.
MainIsCoherent ==
  /\ main.at \in {"manage", "exit", "conclude", "erase"} => main.left \subseteq live
  /\ main.at \in {"conclude", "erase"} => main.call \in live \ main.left
  /\ main.at = "conclude" => /\ call[main.call].state = "RECORDING"
                             /\ call[main.call].handed = NotHanded
  /\ main.at = "erase" => call[main.call].handed # NotHanded

\* A call has had as many transmissions opened as its sink has closed, and
\* the one that is open.
OpenedIsCounted ==
  \A r \in Recorders : sink[r].owner # NoCall =>
    call[sink[r].owner].opened = ClosedAtStop(r)

LeaseInv ==
  /\ RecorderIsExclusive
  /\ ActiveIffLent
  /\ OwnedIffLent
  /\ CallsAreCoherent
  /\ MainIsCoherent
  /\ OpenedIsCounted
  /\ NothingLost

-----------------------------------------------------------------------------
(* Types.                                                                  *)

\* A live call is a call record; a slot that is not live is Free.
LEMMA LiveType ==
  ASSUME TypeOK, NEW c \in Calls
  PROVE  /\ c \in live => call[c] \in CallRecords
         /\ c \notin live => call[c] = Free
         /\ c \in live <=> call[c].state # "FREE"
BY DEF TypeOK, live, Free, CallRecords

\* The records a grant makes.
LEMMA NewCallType ==
  ASSUME NEW m \in Message
  PROVE  /\ NewCall(m) \in CallRecords
         /\ \A reason \in Reasons :
              [NewCall(m) EXCEPT !.monitoringState = reason] \in CallRecords
         /\ \A r \in Recorders, joined \in SUBSET AuxRecorders :
              RecordedCall(m, r, joined) \in CallRecords
<1>1. 0 \in Ages /\ "UNSPECIFIED" \in Reasons /\ 0 \in Nat
  BY CallAssumption DEF Ages, Reasons
<1>2. NewCall(m) \in CallRecords
  BY <1>1 DEF NewCall, CallRecords, Message
<1>3. \A reason \in Reasons :
        [NewCall(m) EXCEPT !.monitoringState = reason] \in CallRecords
  BY <1>2 DEF CallRecords
<1>4. \A r \in Recorders, joined \in SUBSET AuxRecorders :
        RecordedCall(m, r, joined) \in CallRecords
  BY <1>2 DEF CallRecords, RecordedCall
<1>. QED BY <1>2, <1>3, <1>4

\* The reason start_recorder gives is one of the monitoring states.
LEMMA RefusalType ==
  ASSUME NEW m, NEW priority
  PROVE  Refusal(m, priority) \in Reasons \cup {""}
BY DEF Refusal, Reasons

\* A debug or SigMF recorder that joins was idle.
LEMMA AuxChoicesType ==
  ASSUME NEW m, NEW joined \in AuxChoices(m)
  PROVE  joined \in SUBSET (AuxRecorders \ aux)
BY DEF AuxChoices

\* Lending and returning a sink, and counting what it has closed.
LEMMA SinkTypes ==
  ASSUME TypeOK, NEW r \in Recorders
  PROVE  /\ sink[r] \in SinkRecords
         /\ ClosedAtStop(r) \in Nat
         /\ ReturnedSink(r) \in SinkRecords
         /\ \A c \in Calls : LentSink(r, c) \in SinkRecords
<1>1. sink[r] \in SinkRecords
  BY DEF TypeOK
<1>2. ClosedAtStop(r) \in Nat
  BY <1>1 DEF SinkRecords, ClosedAtStop
<1>3. ReturnedSink(r) \in SinkRecords
  BY <1>1, <1>2 DEF SinkRecords, ReturnedSink
<1>4. \A c \in Calls : LentSink(r, c) \in SinkRecords
  <2>1. 0 \in Ages /\ sink[r].since_write \in Ages
    BY <1>1, CallAssumption DEF SinkRecords, Ages
  <2>. QED BY <2>1 DEF SinkRecords, LentSink
<1>. QED BY <1>1, <1>2, <1>3, <1>4

\* A concluded call is a call record.
LEMMA ConcludedType ==
  ASSUME TypeOK, NEW c \in live, call[c].recorder \in Recorders
  PROVE  Concluded(call[c]) \in CallRecords
<1>1. call[c] \in CallRecords
  BY LiveType DEF live
<1>2. sink[call[c].recorder].closed \in Nat /\ ClosedAtStop(call[c].recorder) \in Nat
  BY SinkTypes DEF SinkRecords
<1>. QED BY <1>1, <1>2 DEF Concluded, CallRecords


\* Monitoring a new call.
LEMMA MonitorType ==
  ASSUME TypeOK, NEW c \in Calls, NEW m \in Message, NEW reason \in Reasons,
         Monitor(c, m, reason)
  PROVE  call' \in [Calls -> CallRecords \cup {Free}]
BY NewCallType DEF Monitor, TypeOK

\* When start_recorder finds no recorder it may start, it monitors the call.
LEMMA RefusedMonitors ==
  ASSUME NEW c, NEW m, StartRefused(c, m)
  PROVE  \E reason \in Reasons : Monitor(c, m, reason)
<1>1. "UNSPECIFIED" \in Reasons
  BY DEF Reasons
<1>. QED BY <1>1, RefusalType DEF StartRefused

\* Type correctness is preserved, given that what the main loop concludes has
\* a recorder.
LEMMA TypeOKInductive ==
  ASSUME TypeOK, LeaseInv, [Next]_vars
  PROVE  TypeOK'
<1>a. \A age \in Ages : Older(age) \in Ages
  BY CallAssumption DEF Older, Ages
<1>z. 0 \in Ages
  BY CallAssumption DEF Ages
<1>r. ASSUME NEW m \in Message, Refresh(m)
      PROVE  call' \in [Calls -> CallRecords \cup {Free}]
  <2>1. ASSUME NEW c \in Matching(m)
        PROVE  [call[c] EXCEPT !.since_update = 0] \in CallRecords
    <3>1. c \in live /\ call[c] \in CallRecords
      BY LiveType DEF Matching, live
    <3>. QED BY <3>1, <1>z DEF CallRecords
  <2>2. ASSUME NEW c \in Calls PROVE call'[c] \in CallRecords \cup {Free}
    BY <1>r, <2>1 DEF Refresh, TypeOK
  <2>. QED BY <1>r, <2>2 DEF Refresh
<1>s. ASSUME NEW r \in Recorders, NEW c \in Calls, NEW m \in Message,
             NEW joined \in AuxChoices(m)
      PROVE  /\ RecordedCall(m, r, joined) \in CallRecords
             /\ LentSink(r, c) \in SinkRecords
  BY NewCallType, AuxChoicesType, SinkTypes
<1>d. ASSUME NEW c, Decide(c), c \in Calls, main.left \in SUBSET Calls
      PROVE  TypeOK'
  <2>1. main' \in MainStates
    BY <1>d DEF Decide, MainStates
  <2>. QED BY <1>d, <2>1 DEF Decide, TypeOK
<1>m. /\ main.at \in {"manage", "exit", "conclude", "erase"} =>
           main.left \in SUBSET Calls
      /\ main.at \in {"conclude", "erase"} =>
           main.call \in Calls /\ main.exiting \in BOOLEAN
  BY DEF TypeOK, MainStates
<1>k. ASSUME NEW c, Skip(c), main.at \in {"manage", "exit"}
      PROVE  main' \in MainStates
  <2>1. main \in [at : {"manage", "exit"}, left : SUBSET Calls]
    BY <1>k DEF TypeOK, MainStates
  <2>. QED BY <1>k, <2>1 DEF Skip, MainStates
<1>1. ASSUME NEW m \in Message, handle_call_update(m) \/ GrantKnown(m)
      PROVE  TypeOK'
  BY <1>1, <1>r DEF handle_call_update, GrantKnown, TypeOK
<1>2. ASSUME NEW m \in Message, GrantNew(m) PROVE TypeOK'
  <2>1. ASSUME NEW c \in Calls, StartNew(c, m) PROVE TypeOK'
    <3>1. PICK r \in Recorders : \E joined \in AuxChoices(m) :
             /\ call' = [call EXCEPT ![c] = RecordedCall(m, r, joined)]
             /\ aux' = aux \cup joined
             /\ sink' = [sink EXCEPT ![r] = LentSink(r, c)]
             /\ active' = active \cup {r}
      BY <2>1 DEF StartNew
    <3>2. PICK joined \in AuxChoices(m) :
             /\ call' = [call EXCEPT ![c] = RecordedCall(m, r, joined)]
             /\ aux' = aux \cup joined
      BY <3>1
    <3>3. aux' \subseteq AuxRecorders
      BY <3>2, AuxChoicesType DEF TypeOK
    <3>. QED BY <1>2, <1>s, <3>1, <3>2, <3>3 DEF GrantNew, TypeOK
  <2>2. ASSUME NEW c \in Calls, StartRefused(c, m) PROVE TypeOK'
    BY <1>2, <2>2, RefusedMonitors, MonitorType DEF GrantNew, Monitor, TypeOK
  <2>. QED BY <1>2, <2>1, <2>2 DEF GrantNew
<1>3. ASSUME NEW m \in Message, GrantDuplicate(m) PROVE TypeOK'
  <2>1. "DUPLICATE" \in Reasons
    BY DEF Reasons
  <2>. QED BY <1>3, <2>1, MonitorType DEF GrantDuplicate, Monitor, TypeOK
<1>4. ASSUME NEW m \in Message, GrantSuperseding(m) PROVE TypeOK'
  <2>1. ASSUME NEW c \in Calls \ live, NEW o \in Originals(m), Supersede(c, m, o)
        PROVE  TypeOK'
    <3>1. PICK r \in Recorders, joined \in AuxChoices(m) :
             /\ call' = [call EXCEPT
                  ![c] = RecordedCall(m, r, joined),
                  ![o] = [Concluded(call[o]) EXCEPT
                            !.state = "MONITORING",
                            !.monitoringState = "SUPERSEDED"]]
             /\ aux' = (aux \cup joined) \ call[o].aux
             /\ sink' = [sink EXCEPT
                  ![r] = LentSink(r, c),
                  ![call[o].recorder] = ReturnedSink(call[o].recorder)]
             /\ active' = (active \cup {r}) \ {call[o].recorder}
      BY <2>1 DEF Supersede
    <3>2. o \in live /\ call[o].state = "RECORDING"
      BY DEF Originals
    <3>3. call[o].recorder \in Recorders
      BY <3>2 DEF LeaseInv, CallsAreCoherent
    <3>4. Concluded(call[o]) \in CallRecords
      BY <3>2, <3>3, ConcludedType
    <3>5. [Concluded(call[o]) EXCEPT !.state = "MONITORING",
                                     !.monitoringState = "SUPERSEDED"]
            \in CallRecords
      BY <3>4 DEF CallRecords, Reasons
    <3>6. call' \in [Calls -> CallRecords \cup {Free}]
      BY <1>s, <3>1, <3>5 DEF TypeOK
    <3>7. sink' \in [Recorders -> SinkRecords]
      BY <1>s, <3>1, <3>3, SinkTypes DEF TypeOK
    <3>8. aux' \subseteq AuxRecorders /\ active' \subseteq Recorders
      BY <3>1, AuxChoicesType DEF TypeOK
    <3>. QED BY <1>4, <3>6, <3>7, <3>8 DEF GrantSuperseding, TypeOK
  <2>2. ASSUME NEW c \in Calls, StartRefused(c, m) PROVE TypeOK'
    BY <1>4, <2>2, RefusedMonitors, MonitorType
       DEF GrantSuperseding, Monitor, TypeOK
  <2>. QED BY <1>4, <2>1, <2>2 DEF GrantSuperseding
<1>5. ASSUME NEW t \in Systems, NEW kind \in {"STATUS", "SYSID"},
             DecodeIdentity(t, kind)
      PROVE  TypeOK'
  BY <1>5 DEF DecodeIdentity, TypeOK
<1>6. CASE ManageBegin \/ ManageEnd \/ ExitBegin \/ ExitEnd
  <2>0. \/ main' = [at |-> "loop"] \/ main' = [at |-> "exited"]
        \/ main' = [at |-> "manage", left |-> live]
        \/ main' = [at |-> "exit", left |-> live]
    BY <1>6 DEF ManageBegin, ManageEnd, ExitBegin, ExitEnd
  <2>1. main' \in MainStates /\ due' \in BOOLEAN
    <3>1. live \in SUBSET Calls
      BY DEF live
    <3>2. main' \in MainStates
      BY <2>0, <3>1 DEF MainStates
    <3>. QED BY <1>6, <3>2
             DEF ManageBegin, ManageEnd, ExitBegin, ExitEnd, TypeOK
  <2>. QED BY <1>6, <2>1 DEF ManageBegin, ManageEnd, ExitBegin, ExitEnd, TypeOK
<1>7. ASSUME NEW c \in Calls, MonitoringTimeout(c) \/ ExitMonitoring(c)
      PROVE  TypeOK'
  BY <1>7, <1>k DEF MonitoringTimeout, ExitMonitoring, InManage, TypeOK
<1>8. ASSUME NEW c \in Calls, RecordingTimeout(c) \/ ExitRecording(c)
      PROVE  TypeOK'
  BY <1>8, <1>d, <1>m DEF RecordingTimeout, ExitRecording, InManage
<1>9. ASSUME NEW c \in Calls, KeepCall(c) PROVE TypeOK'
  BY <1>9, <1>k DEF KeepCall, InManage, TypeOK
<1>10. CASE ConcludeCall
  <2> DEFINE c == main.call
             r == call[c].recorder
  <2>1. c \in live /\ r \in Recorders
    BY <1>10 DEF ConcludeCall, LeaseInv, MainIsCoherent, CallsAreCoherent
  <2>2. call' \in [Calls -> CallRecords \cup {Free}]
    BY <1>10, <2>1, ConcludedType DEF ConcludeCall, TypeOK
  <2>3. sink' \in [Recorders -> SinkRecords]
    BY <1>10, <2>1, SinkTypes DEF ConcludeCall, TypeOK
  <2>4. main' \in MainStates
    BY <1>10 DEF ConcludeCall, MainStates, TypeOK
  <2>. QED BY <1>10, <2>2, <2>3, <2>4 DEF ConcludeCall, TypeOK
<1>11. CASE EraseCall
  <2>1. main' \in MainStates
    BY <1>11, <1>m DEF EraseCall, MainStates
  <2>. QED BY <1>11, <2>1 DEF EraseCall, TypeOK
<1>12. ASSUME NEW r \in Recorders, SinkWrite(r) PROVE TypeOK'
  <2>1. sink' \in [Recorders -> SinkRecords]
    <3>1. sink[r] \in SinkRecords
      BY SinkTypes
    <3>2. [sink[r] EXCEPT !.phase = "RECORDING", !.since_write = 0] \in SinkRecords
      BY <1>z, <3>1 DEF SinkRecords
    <3>. QED BY <1>12, <3>1, <3>2 DEF SinkWrite, TypeOK, SinkRecords
  <2>2. call' \in [Calls -> CallRecords \cup {Free}]
    <3>1. CASE sink[r].phase = "IDLE"
      <4>1. sink[r].owner \in Calls
        BY <3>1, SinkTypes DEF LeaseInv, OwnedIffLent, SinkRecords
      <4>2. call[sink[r].owner] \in CallRecords
        BY <4>1, LiveType DEF LeaseInv, RecorderIsExclusive
      <4>3. [call[sink[r].owner] EXCEPT !.opened = @ + 1] \in CallRecords
        BY <4>2 DEF CallRecords
      <4>4. call' = [call EXCEPT ![sink[r].owner].opened = @ + 1]
        BY <1>12, <3>1 DEF SinkWrite
      <4>5. ASSUME NEW c \in Calls PROVE call'[c] \in CallRecords \cup {Free}
        <5>1. CASE c = sink[r].owner
          BY <4>3, <4>4, <5>1 DEF TypeOK
        <5>2. CASE c # sink[r].owner
          BY <4>4, <5>2 DEF TypeOK
        <5>. QED BY <5>1, <5>2
      <4>. QED BY <4>4, <4>5 DEF TypeOK
    <3>. QED BY <1>12, <3>1 DEF SinkWrite, TypeOK
  <2>. QED BY <1>12, <2>1, <2>2 DEF SinkWrite, TypeOK
<1>13. ASSUME NEW r \in Recorders, NEW next \in {"IDLE", "IGNORE"},
              SinkEnd(r, next)
       PROVE  TypeOK'
  <2>1. [sink[r] EXCEPT !.phase = next, !.closed = ClosedAtStop(r)] \in SinkRecords
    BY SinkTypes DEF SinkRecords
  <2>. QED BY <1>13, <2>1 DEF SinkEnd, TypeOK
<1>14. CASE Tick
  <2>1. call' \in [Calls -> CallRecords \cup {Free}]
    <3>1. ASSUME NEW c \in live
          PROVE  [call[c] EXCEPT !.since_update = Older(@)] \in CallRecords
      <4>1. call[c] \in CallRecords
        BY LiveType DEF live
      <4>. QED BY <4>1, <1>a DEF CallRecords
    <3>2. ASSUME NEW c \in Calls PROVE call'[c] \in CallRecords \cup {Free}
      BY <1>14, <3>1 DEF Tick, TypeOK
    <3>. QED BY <1>14, <3>2 DEF Tick
  <2>2. sink' \in [Recorders -> SinkRecords]
    <3>1. ASSUME NEW r \in Recorders
          PROVE  [sink[r] EXCEPT !.since_write = Older(@)] \in SinkRecords
      BY <1>a, SinkTypes DEF SinkRecords
    <3>. QED BY <1>14, <3>1 DEF Tick
  <2>. QED BY <1>14, <2>1, <2>2 DEF Tick, TypeOK
<1>15. CASE UNCHANGED vars
  BY <1>15 DEF vars, TypeOK
<1>. QED
  BY <1>1, <1>2, <1>3, <1>4, <1>5, <1>6, <1>7, <1>8, <1>9, <1>10, <1>11,
     <1>12, <1>13, <1>14, <1>15
     DEF Next, Grant, Manage, Exit, Finish, Sink

-----------------------------------------------------------------------------
(* The lease.  A step is first reduced to the fields the invariant reads.  *)

\* What the step leaves of a call and of a sink.
SameCall(c) ==
  /\ call'[c].state = call[c].state
  /\ c \in live =>
       /\ call'[c].recorder = call[c].recorder
       /\ call'[c].aux = call[c].aux
       /\ call'[c].handed = call[c].handed
       /\ call'[c].opened = call[c].opened

SameSink(r) ==
  /\ sink'[r].phase = sink[r].phase
  /\ sink'[r].owner = sink[r].owner
  /\ sink'[r].closed = sink[r].closed

\* A call that is not live is told from a live one by its state.
LEMMA LiveByState ==
  ASSUME TypeOK, TypeOK', NEW c \in Calls
  PROVE  /\ c \in live <=> call[c].state # "FREE"
         /\ c \in live' <=> call'[c].state # "FREE"
         /\ c \in live => call[c].state \in {"MONITORING", "RECORDING"}
         /\ c \in live' => call'[c].state \in {"MONITORING", "RECORDING"}
BY DEF TypeOK, live, Free, CallRecords

\* A step that changes no lease.
LEMMA NothingLeased ==
  ASSUME TypeOK, TypeOK', LeaseInv,
         \A c \in Calls : SameCall(c),
         \A r \in Recorders : SameSink(r),
         active' = active,
         MainIsCoherent',
         main.at = "erase" => main' = main
  PROVE  LeaseInv'
<1>1. live' = live
  BY LiveByState DEF SameCall, live
<1>2. \A r \in Recorders : ClosedAtStop(r)' = ClosedAtStop(r)
  BY DEF SameSink, ClosedAtStop
<1>3. RecorderIsExclusive'
  BY <1>1 DEF LeaseInv, RecorderIsExclusive, Counting, SameCall, SameSink, live
<1>4. ActiveIffLent' /\ OwnedIffLent'
  BY DEF LeaseInv, ActiveIffLent, OwnedIffLent, SameSink
<1>5. CallsAreCoherent' /\ NothingLost'
  BY <1>1 DEF LeaseInv, CallsAreCoherent, NothingLost, SameCall, live
<1>6. OpenedIsCounted'
  <2>1. ASSUME NEW r \in Recorders, sink'[r].owner # NoCall
        PROVE  call'[sink'[r].owner].opened = ClosedAtStop(r)'
    <3>1. sink[r].owner \in Calls /\ sink'[r].owner = sink[r].owner
      BY <2>1, SinkTypes DEF SinkRecords, SameSink
    <3>2. sink[r].owner \in live
      BY <3>1 DEF LeaseInv, RecorderIsExclusive
    <3>. QED BY <1>2, <2>1, <3>1, <3>2 DEF LeaseInv, OpenedIsCounted, SameCall
  <2>. QED BY <2>1 DEF OpenedIsCounted
<1>. QED BY <1>3, <1>4, <1>5, <1>6 DEF LeaseInv

\* A step that adds a monitored call.
LEMMA MonitoredAdded ==
  ASSUME TypeOK, TypeOK', LeaseInv,
         NEW n \in Calls \ live,
         call'[n].state = "MONITORING",
         call'[n].recorder = NoRecorder,
         call'[n].aux = {},
         call'[n].handed = NotHanded,
         \A c \in Calls \ {n} : SameCall(c),
         UNCHANGED <<sink, active, main>>
  PROVE  LeaseInv'
<1>1. live' = live \cup {n}
  BY LiveByState DEF SameCall, live
<1>2. \A r \in Recorders : sink[r].owner # n
  BY DEF LeaseInv, RecorderIsExclusive
<1>3. RecorderIsExclusive'
  BY <1>1, <1>2 DEF LeaseInv, RecorderIsExclusive, Counting, SameCall, live
<1>4. ActiveIffLent' /\ OwnedIffLent'
  BY DEF LeaseInv, ActiveIffLent, OwnedIffLent
<1>5. CallsAreCoherent' /\ NothingLost'
  BY <1>1 DEF LeaseInv, CallsAreCoherent, NothingLost, SameCall, live
<1>6. MainIsCoherent'
  BY <1>1 DEF LeaseInv, MainIsCoherent, SameCall, live
<1>7. OpenedIsCounted'
  <2>1. \A r \in Recorders : ClosedAtStop(r)' = ClosedAtStop(r)
    BY DEF ClosedAtStop
  <2>2. ASSUME NEW r \in Recorders, sink'[r].owner # NoCall
        PROVE  call'[sink'[r].owner].opened = ClosedAtStop(r)'
    <3>1. sink[r].owner \in live \ {n}
      BY <1>2, <2>2, SinkTypes DEF SinkRecords, LeaseInv, RecorderIsExclusive
    <3>. QED BY <2>1, <2>2, <3>1
             DEF LeaseInv, OpenedIsCounted, SameCall, live
  <2>. QED BY <2>2 DEF OpenedIsCounted
<1>. QED BY <1>3, <1>4, <1>5, <1>6, <1>7 DEF LeaseInv

\* A step that deletes a call no sink works for.
LEMMA CallDeleted ==
  ASSUME TypeOK, TypeOK', LeaseInv,
         NEW d \in live,
         call[d].state = "MONITORING" \/ call[d].handed # NotHanded,
         call'[d] = Free,
         \A c \in Calls \ {d} : SameCall(c),
         UNCHANGED <<sink, active>>,
         MainIsCoherent',
         main.at = "erase" => main.call = d
  PROVE  LeaseInv'
<1>0. d \in Calls /\ call'[d].state = "FREE"
  BY DEF live, Free
<1>1. live' = live \ {d}
  <2>1. ASSUME NEW c \in Calls PROVE c \in live' <=> c \in live \ {d}
    BY <1>0, LiveByState DEF SameCall
  <2>. QED BY <2>1 DEF live
<1>2. \A r \in Recorders : sink[r].owner # d
  BY <1>0 DEF LeaseInv, RecorderIsExclusive, Counting
<1>3. RecorderIsExclusive'
  BY <1>1, <1>2 DEF LeaseInv, RecorderIsExclusive, Counting, SameCall, live
<1>4. ActiveIffLent' /\ OwnedIffLent'
  BY DEF LeaseInv, ActiveIffLent, OwnedIffLent
<1>5. CallsAreCoherent' /\ NothingLost'
  BY <1>1 DEF LeaseInv, CallsAreCoherent, NothingLost, SameCall, live
<1>6. OpenedIsCounted'
  <2>1. \A r \in Recorders : ClosedAtStop(r)' = ClosedAtStop(r)
    BY DEF ClosedAtStop
  <2>2. ASSUME NEW r \in Recorders, sink'[r].owner # NoCall
        PROVE  call'[sink'[r].owner].opened = ClosedAtStop(r)'
    <3>1. sink[r].owner \in live \ {d}
      BY <1>2, <2>2, SinkTypes DEF SinkRecords, LeaseInv, RecorderIsExclusive
    <3>. QED BY <2>1, <2>2, <3>1
             DEF LeaseInv, OpenedIsCounted, SameCall, live
  <2>. QED BY <2>2 DEF OpenedIsCounted
<1>. QED BY <1>3, <1>4, <1>5, <1>6 DEF LeaseInv


\* A step that makes call n RECORDING with the AVAILABLE recorder r.
Starts(n, r) ==
  /\ n \in Calls \ live
  /\ r \in Recorders
  /\ sink[r].phase = "AVAILABLE"
  /\ call'[n].state = "RECORDING"
  /\ call'[n].recorder = r
  /\ call'[n].handed = NotHanded
  /\ call'[n].opened = 0
  /\ sink'[r].phase = "IDLE"
  /\ sink'[r].owner = n
  /\ sink'[r].closed = 0

\* A step that takes the recorder from call o and concludes it.
Concludes(o) ==
  /\ o \in live
  /\ call[o].state = "RECORDING"
  /\ call[o].handed = NotHanded
  /\ call'[o].state \in {"RECORDING", "MONITORING"}
  /\ call'[o].recorder = call[o].recorder
  /\ call'[o].opened = call[o].opened
  /\ call'[o].handed = ClosedAtStop(call[o].recorder)
  /\ sink'[call[o].recorder].phase = "AVAILABLE"
  /\ sink'[call[o].recorder].owner = NoCall

\* What an unfinished recording and its recorder say of each other.
LEMMA RecordingOwns ==
  ASSUME TypeOK, LeaseInv, NEW o \in live, call[o].state = "RECORDING",
         call[o].handed = NotHanded
  PROVE  /\ call[o].recorder \in Recorders
         /\ sink[call[o].recorder].owner = o
         /\ sink[call[o].recorder].phase # "AVAILABLE"
         /\ call[o].recorder \in active
         /\ call[o].opened = ClosedAtStop(call[o].recorder)
<1>1. call[o].recorder \in Recorders
  BY DEF LeaseInv, CallsAreCoherent
<1>2. o \in Calls /\ o # NoCall
  BY CallAssumption DEF live
<1>3. sink[call[o].recorder].owner = o
  BY <1>1, <1>2 DEF LeaseInv, RecorderIsExclusive, Counting
<1>. QED BY <1>1, <1>2, <1>3
         DEF LeaseInv, OwnedIffLent, ActiveIffLent, OpenedIsCounted

\* A recorder is started for a new call.
LEMMA CallLent ==
  ASSUME TypeOK, TypeOK', LeaseInv, NEW n, NEW r, Starts(n, r),
         \A c \in Calls \ {n} : SameCall(c),
         \A q \in Recorders \ {r} : SameSink(q),
         active' = active \cup {r},
         UNCHANGED main
  PROVE  LeaseInv'
<1> USE DEF Starts
<1>1. live' = live \cup {n}
  BY LiveByState DEF SameCall, live
<1>2. n # NoCall /\ sink[r].owner = NoCall
  BY CallAssumption DEF LeaseInv, OwnedIffLent
<1>3. \A q \in Recorders : sink[q].owner # n
  BY DEF LeaseInv, RecorderIsExclusive
<1>4. \A c \in live : ~Counting(c, r)
  BY <1>2, CallAssumption DEF LeaseInv, RecorderIsExclusive, live
<1>5. RecorderIsExclusive'
  <2>1. ASSUME NEW q \in Recorders, NEW c \in Calls
        PROVE  sink'[q].owner = c <=> c \in live' /\ Counting(c, q)'
    <3>1. CASE c = n
      BY <1>1, <1>3, <3>1 DEF Counting, SameSink
    <3>2. CASE c # n /\ q = r
      BY <1>1, <1>4, <3>2 DEF Counting, SameCall
    <3>3. CASE c # n /\ q # r
      BY <1>1, <3>3 DEF LeaseInv, RecorderIsExclusive, Counting, SameCall, SameSink
    <3>. QED BY <3>1, <3>2, <3>3
  <2>. QED BY <2>1 DEF RecorderIsExclusive
<1>6. ActiveIffLent' /\ OwnedIffLent'
  BY <1>2 DEF LeaseInv, ActiveIffLent, OwnedIffLent, SameSink
<1>7. CallsAreCoherent' /\ NothingLost'
  BY <1>1 DEF LeaseInv, CallsAreCoherent, NothingLost, SameCall, live
<1>8. MainIsCoherent'
  BY <1>1 DEF LeaseInv, MainIsCoherent, SameCall, live
<1>9. OpenedIsCounted'
  <2>1. ASSUME NEW q \in Recorders, sink'[q].owner # NoCall
        PROVE  call'[sink'[q].owner].opened = ClosedAtStop(q)'
    <3>1. CASE q = r
      BY <3>1 DEF ClosedAtStop
    <3>2. CASE q # r
      <4>1. sink[q].owner \in live \ {n} /\ sink'[q].owner = sink[q].owner
        BY <1>3, <2>1, <3>2, SinkTypes
           DEF SinkRecords, LeaseInv, RecorderIsExclusive, SameSink
      <4>2. ClosedAtStop(q)' = ClosedAtStop(q)
        BY <3>2 DEF ClosedAtStop, SameSink
      <4>. QED BY <2>1, <4>1, <4>2
               DEF LeaseInv, OpenedIsCounted, SameCall, live
    <3>. QED BY <3>1, <3>2
  <2>. QED BY <2>1 DEF OpenedIsCounted
<1>. QED BY <1>5, <1>6, <1>7, <1>8, <1>9 DEF LeaseInv

\* A recording is concluded; the main loop erases it next.
LEMMA CallConcluded ==
  ASSUME TypeOK, TypeOK', LeaseInv, NEW o, Concludes(o),
         call'[o].state = "RECORDING",
         \A c \in Calls \ {o} : SameCall(c),
         \A q \in Recorders \ {call[o].recorder} : SameSink(q),
         active' = active \ {call[o].recorder},
         MainIsCoherent', main'.at = "erase", main'.call = o,
         main.at # "erase"
  PROVE  LeaseInv'
<1> USE DEF Concludes
<1> DEFINE r == call[o].recorder
<1>1. live' = live
  BY LiveByState DEF SameCall, live
<1>2. r \in Recorders /\ sink[r].owner = o /\ call[o].opened = ClosedAtStop(r)
  BY RecordingOwns
<1>3. ClosedAtStop(r) \in Nat /\ ClosedAtStop(r) # NotHanded
  BY <1>2, SinkTypes DEF NotHanded
<1>4. \A q \in Recorders \ {r} : sink[q].owner # o
  BY DEF LeaseInv, RecorderIsExclusive, Counting, live
<1>5. RecorderIsExclusive'
  <2>1. ASSUME NEW q \in Recorders, NEW c \in Calls
        PROVE  sink'[q].owner = c <=> c \in live' /\ Counting(c, q)'
    <3>1. CASE c = o
      BY <1>3, <1>4, <3>1, CallAssumption DEF Counting, SameSink
    <3>2. CASE c # o /\ q = r
      BY <1>1, <1>2, <3>2, CallAssumption
         DEF LeaseInv, RecorderIsExclusive, Counting, SameCall
    <3>3. CASE c # o /\ q # r
      BY <1>1, <3>3 DEF LeaseInv, RecorderIsExclusive, Counting, SameCall, SameSink
    <3>. QED BY <3>1, <3>2, <3>3
  <2>. QED BY <2>1 DEF RecorderIsExclusive
<1>6. ActiveIffLent' /\ OwnedIffLent'
  BY <1>2 DEF LeaseInv, ActiveIffLent, OwnedIffLent, SameSink
<1>7. CallsAreCoherent'
  BY <1>1, <1>2, <1>3 DEF LeaseInv, CallsAreCoherent, SameCall, live
<1>8. NothingLost'
  BY <1>1, <1>2 DEF LeaseInv, NothingLost, SameCall, live
<1>9. OpenedIsCounted'
  <2>1. ASSUME NEW q \in Recorders, sink'[q].owner # NoCall
        PROVE  call'[sink'[q].owner].opened = ClosedAtStop(q)'
    <3>1. q # r
      BY <2>1
    <3>2. sink[q].owner \in live \ {o} /\ sink'[q].owner = sink[q].owner
      BY <1>4, <2>1, <3>1, SinkTypes
         DEF SinkRecords, LeaseInv, RecorderIsExclusive, SameSink
    <3>3. ClosedAtStop(q)' = ClosedAtStop(q)
      BY <3>1 DEF ClosedAtStop, SameSink
    <3>. QED BY <2>1, <3>2, <3>3
             DEF LeaseInv, OpenedIsCounted, SameCall, live
  <2>. QED BY <2>1 DEF OpenedIsCounted
<1>. QED BY <1>5, <1>6, <1>7, <1>8, <1>9 DEF LeaseInv

\* A recording is concluded as another one starts in its place.
LEMMA CallReplaced ==
  ASSUME TypeOK, TypeOK', LeaseInv, NEW o, NEW n, NEW r,
         Concludes(o), Starts(n, r),
         call'[o].state = "MONITORING",
         \A c \in Calls \ {o, n} : SameCall(c),
         \A q \in Recorders \ {r, call[o].recorder} : SameSink(q),
         active' = (active \cup {r}) \ {call[o].recorder},
         UNCHANGED main, main.at = "loop"
  PROVE  LeaseInv'
<1> USE DEF Starts, Concludes
<1> DEFINE p == call[o].recorder
<1>1. live' = live \cup {n}
  BY LiveByState DEF SameCall, live
<1>2. /\ p \in Recorders /\ sink[p].owner = o /\ sink[p].phase # "AVAILABLE"
      /\ call[o].opened = ClosedAtStop(p)
  BY RecordingOwns
<1>3. ClosedAtStop(p) \in Nat /\ ClosedAtStop(p) # NotHanded
  BY <1>2, SinkTypes DEF NotHanded
<1>4. n # NoCall /\ o # NoCall /\ n # o /\ p # r /\ sink[r].owner = NoCall
  BY <1>2, CallAssumption DEF LeaseInv, OwnedIffLent, live
<1>5. \A q \in Recorders : sink[q].owner # n /\ (q # p => sink[q].owner # o)
  BY DEF LeaseInv, RecorderIsExclusive, Counting, live
<1>6. RecorderIsExclusive'
  <2>1. ASSUME NEW q \in Recorders, NEW c \in Calls
        PROVE  sink'[q].owner = c <=> c \in live' /\ Counting(c, q)'
    <3>1. CASE c = n
      BY <1>1, <1>4, <1>5, <3>1 DEF Counting, SameSink
    <3>2. CASE c = o
      BY <1>3, <1>4, <1>5, <3>2 DEF Counting, SameSink
    <3>3. CASE c \notin {n, o} /\ q \in {p, r}
      BY <1>1, <1>2, <1>4, <3>3, CallAssumption
         DEF LeaseInv, RecorderIsExclusive, Counting, SameCall
    <3>4. CASE c \notin {n, o} /\ q \notin {p, r}
      BY <1>1, <3>4 DEF LeaseInv, RecorderIsExclusive, Counting, SameCall, SameSink
    <3>. QED BY <3>1, <3>2, <3>3, <3>4
  <2>. QED BY <2>1 DEF RecorderIsExclusive
<1>7. ActiveIffLent' /\ OwnedIffLent'
  BY <1>2, <1>4 DEF LeaseInv, ActiveIffLent, OwnedIffLent, SameSink
<1>8. CallsAreCoherent'
  BY <1>1, <1>2, <1>3 DEF LeaseInv, CallsAreCoherent, SameCall, live
<1>9. NothingLost'
  BY <1>1, <1>2 DEF LeaseInv, NothingLost, SameCall, live
<1>10. MainIsCoherent'
  BY DEF MainIsCoherent
<1>11. OpenedIsCounted'
  <2>1. ASSUME NEW q \in Recorders, sink'[q].owner # NoCall
        PROVE  call'[sink'[q].owner].opened = ClosedAtStop(q)'
    <3>1. CASE q = r
      BY <3>1 DEF ClosedAtStop
    <3>2. CASE q # r
      <4>1. q # p
        BY <2>1
      <4>2. sink[q].owner \in live \ {n, o} /\ sink'[q].owner = sink[q].owner
        BY <1>5, <2>1, <3>2, <4>1, SinkTypes
           DEF SinkRecords, LeaseInv, RecorderIsExclusive, SameSink
      <4>3. ClosedAtStop(q)' = ClosedAtStop(q)
        BY <3>2, <4>1 DEF ClosedAtStop, SameSink
      <4>. QED BY <2>1, <4>2, <4>3
               DEF LeaseInv, OpenedIsCounted, SameCall, live
    <3>. QED BY <3>1, <3>2
  <2>. QED BY <2>1 DEF OpenedIsCounted
<1>. QED BY <1>6, <1>7, <1>8, <1>9, <1>10, <1>11 DEF LeaseInv


\* A sink that is lent goes on: only its phase, what it has closed and what it
\* has opened for its call change.
LEMMA SinkGoesOn ==
  ASSUME TypeOK, TypeOK', LeaseInv, NEW r \in Recorders,
         sink[r].phase # "AVAILABLE", sink'[r].phase # "AVAILABLE",
         sink'[r].owner = sink[r].owner,
         \A q \in Recorders \ {r} : SameSink(q),
         \A c \in Calls \ {sink[r].owner} : SameCall(c),
         LET o == sink[r].owner
         IN  /\ call'[o].state = call[o].state
             /\ call'[o].recorder = call[o].recorder
             /\ call'[o].aux = call[o].aux
             /\ call'[o].handed = call[o].handed
             /\ call'[o].opened = ClosedAtStop(r)',
         UNCHANGED <<active, main>>
  PROVE  LeaseInv'
<1> DEFINE o == sink[r].owner
<1>1. o \in live /\ o \in Calls /\ call[o].handed = NotHanded /\ o # NoCall
  BY SinkTypes, CallAssumption
     DEF SinkRecords, LeaseInv, RecorderIsExclusive, OwnedIffLent, Counting
<1>2. live' = live
  BY <1>1, LiveByState DEF SameCall, live
<1>3. RecorderIsExclusive'
  <2>1. \A q \in Recorders : sink'[q].owner = sink[q].owner
    BY DEF SameSink
  <2>2. \A q \in Recorders, c \in live : Counting(c, q)' <=> Counting(c, q)
    BY <1>1 DEF Counting, SameCall, live
  <2>. QED BY <1>2, <2>1, <2>2 DEF LeaseInv, RecorderIsExclusive
<1>4. ActiveIffLent' /\ OwnedIffLent'
  BY DEF LeaseInv, ActiveIffLent, OwnedIffLent, SameSink
<1>5. CallsAreCoherent' /\ NothingLost'
  BY <1>1, <1>2 DEF LeaseInv, CallsAreCoherent, NothingLost, SameCall, live
<1>6. MainIsCoherent'
  BY <1>1, <1>2 DEF LeaseInv, MainIsCoherent, SameCall, live
<1>7. OpenedIsCounted'
  <2>1. ASSUME NEW q \in Recorders, sink'[q].owner # NoCall
        PROVE  call'[sink'[q].owner].opened = ClosedAtStop(q)'
    <3>1. CASE q = r
      BY <3>1
    <3>2. CASE q # r
      <4>1. sink[q].owner \in live \ {o} /\ sink'[q].owner = sink[q].owner
        BY <1>1, <2>1, <3>2, SinkTypes
           DEF SinkRecords, LeaseInv, RecorderIsExclusive, Counting, SameSink
      <4>2. ClosedAtStop(q)' = ClosedAtStop(q)
        BY <3>2 DEF ClosedAtStop, SameSink
      <4>. QED BY <2>1, <4>1, <4>2
               DEF LeaseInv, OpenedIsCounted, SameCall, live
    <3>. QED BY <3>1, <3>2
  <2>. QED BY <2>1 DEF OpenedIsCounted
<1>. QED BY <1>3, <1>4, <1>5, <1>6, <1>7 DEF LeaseInv

\* A new call that is only monitored.
LEMMA MonitorKeeps ==
  ASSUME TypeOK, TypeOK', LeaseInv, NEW c \in Calls \ live, NEW m, NEW reason,
         Monitor(c, m, reason), UNCHANGED main
  PROVE  LeaseInv'
<1>1. /\ call'[c].state = "MONITORING" /\ call'[c].recorder = NoRecorder
      /\ call'[c].aux = {} /\ call'[c].handed = NotHanded
  BY DEF Monitor, NewCall, TypeOK
<1>2. \A d \in Calls \ {c} : SameCall(d)
  BY DEF Monitor, SameCall, TypeOK
<1>. QED BY <1>1, <1>2, MonitoredAdded DEF Monitor

\* A step that leaves the calls, the sinks and the recorders alone.
LEMMA OnlyMain ==
  ASSUME TypeOK, TypeOK', LeaseInv, UNCHANGED <<call, sink, active>>,
         MainIsCoherent', main.at = "erase" => main' = main
  PROVE  LeaseInv'
<1>1. (\A c \in Calls : SameCall(c)) /\ (\A r \in Recorders : SameSink(r))
  BY DEF SameCall, SameSink
<1>. QED BY <1>1, NothingLeased

\* MainIsCoherent reads only which calls are live, and their state.
LEMMA MainKept ==
  ASSUME TypeOK, TypeOK', LeaseInv, UNCHANGED main,
         \A c \in Calls : SameCall(c)
  PROVE  MainIsCoherent'
BY LiveByState DEF LeaseInv, MainIsCoherent, SameCall, live

\* The lease is preserved by every step.
LEMMA LeaseInductive ==
  ASSUME TypeOK, TypeOK', LeaseInv, [Next]_vars
  PROVE  LeaseInv'
<1>1. ASSUME NEW m \in Message, handle_call_update(m) \/ GrantKnown(m)
      PROVE  LeaseInv'
  <2>1. \A c \in Calls : SameCall(c)
    BY <1>1, LiveType
       DEF handle_call_update, GrantKnown, Refresh, Matching, SameCall,
           CallRecords
  <2>2. \A r \in Recorders : SameSink(r)
    BY <1>1 DEF handle_call_update, GrantKnown, SameSink
  <2>. QED BY <1>1, <2>1, <2>2, MainKept, NothingLeased
           DEF handle_call_update, GrantKnown
<1>2. ASSUME NEW m \in Message, GrantNew(m) PROVE LeaseInv'
  <2>1. ASSUME NEW c \in Calls \ live, StartNew(c, m) PROVE LeaseInv'
    <3>1. PICK r \in Recorders, joined \in AuxChoices(m) :
             /\ Startable(m, r)
             /\ call' = [call EXCEPT ![c] = RecordedCall(m, r, joined)]
             /\ sink' = [sink EXCEPT ![r] = LentSink(r, c)]
             /\ active' = active \cup {r}
      BY <2>1 DEF StartNew
    <3>2. Starts(c, r)
      <4>1. call'[c] = RecordedCall(m, r, joined) /\ sink'[r] = LentSink(r, c)
        BY <3>1 DEF TypeOK
      <4>2. sink[r].phase = "AVAILABLE"
        BY <3>1 DEF Startable, Available
      <4>. QED BY <4>1, <4>2 DEF Starts, RecordedCall, NewCall, LentSink
    <3>3. \A d \in Calls \ {c} : SameCall(d)
      BY <3>1 DEF SameCall, TypeOK
    <3>4. \A q \in Recorders \ {r} : SameSink(q)
      BY <3>1 DEF SameSink, TypeOK
    <3>. QED BY <1>2, <3>1, <3>2, <3>3, <3>4, CallLent DEF GrantNew
  <2>2. ASSUME NEW c \in Calls \ live, StartRefused(c, m) PROVE LeaseInv'
    BY <1>2, <2>2, RefusedMonitors, MonitorKeeps DEF GrantNew
  <2>. QED BY <1>2, <2>1, <2>2 DEF GrantNew
<1>3. ASSUME NEW m \in Message, GrantDuplicate(m) PROVE LeaseInv'
  BY <1>3, MonitorKeeps DEF GrantDuplicate
<1>4. ASSUME NEW m \in Message, GrantSuperseding(m) PROVE LeaseInv'
  <2>1. ASSUME NEW c \in Calls \ live, NEW o \in Originals(m), Supersede(c, m, o)
        PROVE  LeaseInv'
    <3>1. PICK r \in Recorders, joined \in AuxChoices(m) :
             /\ Startable(m, r)
             /\ call' = [call EXCEPT
                  ![c] = RecordedCall(m, r, joined),
                  ![o] = [Concluded(call[o]) EXCEPT
                            !.state = "MONITORING",
                            !.monitoringState = "SUPERSEDED"]]
             /\ sink' = [sink EXCEPT
                  ![r] = LentSink(r, c),
                  ![call[o].recorder] = ReturnedSink(call[o].recorder)]
             /\ active' = (active \cup {r}) \ {call[o].recorder}
      BY <2>1 DEF Supersede
    <3>2. o \in live /\ call[o].state = "RECORDING" /\ o # c
      BY DEF Originals
    <3>3. call[o].handed = NotHanded /\ UNCHANGED main /\ main.at = "loop"
      BY <1>4, <3>2 DEF GrantSuperseding, InLoop, LeaseInv, CallsAreCoherent
    <3>4. /\ call[o].recorder \in Recorders /\ call[o].recorder \in active
          /\ sink[call[o].recorder].phase # "AVAILABLE"
      BY <3>2, <3>3, RecordingOwns
    <3>5. r # call[o].recorder /\ sink[r].phase = "AVAILABLE"
      BY <3>1, <3>4 DEF Startable, Available
    <3>6. Starts(c, r)
      <4>1. call'[c] = RecordedCall(m, r, joined) /\ sink'[r] = LentSink(r, c)
        BY <3>1, <3>2, <3>5 DEF TypeOK
      <4>. QED BY <3>5, <4>1 DEF Starts, RecordedCall, NewCall, LentSink
    <3>7. Concludes(o) /\ call'[o].state = "MONITORING"
      <4>1. /\ call'[o] = [Concluded(call[o]) EXCEPT
                             !.state = "MONITORING",
                             !.monitoringState = "SUPERSEDED"]
            /\ sink'[call[o].recorder] = ReturnedSink(call[o].recorder)
        BY <3>1, <3>2, <3>4 DEF TypeOK, live
      <4>2. call[o] \in CallRecords /\ sink[call[o].recorder] \in SinkRecords
        BY <3>2, <3>4, LiveType, SinkTypes DEF live
      <4>. QED BY <3>2, <3>3, <3>4, <4>1, <4>2
               DEF Concludes, Concluded, ReturnedSink, CallRecords, SinkRecords
    <3>8. \A d \in Calls \ {c, o} : SameCall(d)
      BY <3>1 DEF SameCall, TypeOK
    <3>9. \A q \in Recorders \ {r, call[o].recorder} : SameSink(q)
      BY <3>1 DEF SameSink, TypeOK
    <3>. QED BY <3>1, <3>3, <3>6, <3>7, <3>8, <3>9, CallReplaced
  <2>2. ASSUME NEW c \in Calls \ live, StartRefused(c, m) PROVE LeaseInv'
    BY <1>4, <2>2, RefusedMonitors, MonitorKeeps DEF GrantSuperseding
  <2>. QED BY <1>4, <2>1, <2>2 DEF GrantSuperseding
<1>5. ASSUME NEW t \in Systems, NEW kind \in {"STATUS", "SYSID"},
             DecodeIdentity(t, kind)
      PROVE  LeaseInv'
  BY <1>5, OnlyMain DEF DecodeIdentity, LeaseInv, MainIsCoherent, live
<1>6. CASE ManageBegin \/ ManageEnd \/ ExitBegin \/ ExitEnd
  <2>1. MainIsCoherent'
    BY <1>6 DEF ManageBegin, ManageEnd, ExitBegin, ExitEnd, MainIsCoherent, live
  <2>. QED BY <1>6, <2>1, OnlyMain
           DEF ManageBegin, ManageEnd, ExitBegin, ExitEnd, InLoop
<1>7. ASSUME NEW c \in Calls, MonitoringTimeout(c) \/ ExitMonitoring(c)
      PROVE  LeaseInv'
  <2>1. /\ main.at \in {"manage", "exit"} /\ c \in main.left
        /\ call[c].state = "MONITORING" /\ Skip(c)
        /\ call' = [call EXCEPT ![c] = Free] /\ UNCHANGED <<sink, active>>
    BY <1>7 DEF MonitoringTimeout, ExitMonitoring, InManage
  <2>2. c \in live /\ call'[c] = Free /\ main.left \subseteq live
    BY <2>1 DEF LeaseInv, MainIsCoherent, TypeOK
  <2>3. \A d \in Calls \ {c} : SameCall(d)
    BY <2>1 DEF SameCall, TypeOK
  <2>4. main'.at = main.at /\ main'.left = main.left \ {c}
    BY <2>1 DEF Skip, TypeOK, MainStates
  <2>5. live' = live \ {c}
    <3>1. call'[c].state = "FREE"
      BY <2>2 DEF Free
    <3>2. ASSUME NEW d \in Calls PROVE d \in live' <=> d \in live \ {c}
      BY <2>3, <3>1, LiveByState DEF SameCall
    <3>. QED BY <3>2 DEF live
  <2>6. MainIsCoherent'
    BY <2>1, <2>2, <2>4, <2>5 DEF MainIsCoherent
  <2>. QED BY <2>1, <2>2, <2>3, <2>6, CallDeleted
<1>8. ASSUME NEW c \in Calls, RecordingTimeout(c) \/ ExitRecording(c)
      PROVE  LeaseInv'
  <2>1. /\ main.at \in {"manage", "exit"} /\ c \in main.left
        /\ call[c].state # "MONITORING" /\ Decide(c)
    BY <1>8 DEF RecordingTimeout, ExitRecording, InManage, RecordingQuiet
  <2>2. c \in live /\ main.left \subseteq live
    BY <2>1 DEF LeaseInv, MainIsCoherent
  <2>3. call[c].state = "RECORDING" /\ call[c].handed = NotHanded
    BY <2>1, <2>2, LiveByState DEF LeaseInv, CallsAreCoherent
  <2>4. MainIsCoherent'
    BY <2>1, <2>2, <2>3 DEF Decide, MainIsCoherent, live
  <2>. QED BY <2>1, <2>4, OnlyMain DEF Decide
<1>9. ASSUME NEW c \in Calls, KeepCall(c) PROVE LeaseInv'
  <2>1. main'.at = main.at /\ main'.left = main.left \ {c} /\ main.at = "manage"
    BY <1>9 DEF KeepCall, InManage, Skip, TypeOK, MainStates
  <2>2. MainIsCoherent'
    BY <1>9, <2>1 DEF KeepCall, LeaseInv, MainIsCoherent, live
  <2>. QED BY <1>9, <2>1, <2>2, OnlyMain DEF KeepCall
<1>10. CASE ConcludeCall
  <2> DEFINE c == main.call
             r == call[c].recorder
  <2>1. /\ c \in live /\ c \in Calls /\ c \notin main.left
        /\ main.left \subseteq live
        /\ call[c].state = "RECORDING" /\ call[c].handed = NotHanded
        /\ main.at = "conclude"
    BY <1>10 DEF ConcludeCall, LeaseInv, MainIsCoherent, live
  <2>2. r \in Recorders /\ r \in active
    BY <2>1, RecordingOwns
  <2>3. /\ call' = [call EXCEPT ![c] = Concluded(@)]
        /\ sink' = [sink EXCEPT ![r] = ReturnedSink(r)]
        /\ active' = active \ {r}
        /\ main' = [main EXCEPT !.at = "erase"]
    BY <1>10, <2>2 DEF ConcludeCall
  <2>4. /\ call'[c] = Concluded(call[c]) /\ sink'[r] = ReturnedSink(r)
        /\ call[c] \in CallRecords /\ sink[r] \in SinkRecords
    BY <2>1, <2>2, <2>3, LiveType, SinkTypes DEF TypeOK
  <2>5. Concludes(c) /\ call'[c].state = "RECORDING"
    BY <2>1, <2>2, <2>4
       DEF Concludes, Concluded, ReturnedSink, CallRecords, SinkRecords
  <2>6. \A d \in Calls \ {c} : SameCall(d)
    BY <2>3 DEF SameCall, TypeOK
  <2>7. \A q \in Recorders \ {r} : SameSink(q)
    BY <2>3 DEF SameSink, TypeOK
  <2>8. main'.at = "erase" /\ main'.call = c /\ main'.left = main.left
    BY <2>1, <2>3 DEF TypeOK, MainStates
  <2>9. live' = live
    BY <2>1, <2>5, <2>6, LiveByState DEF SameCall, live
  <2>10. call'[c].handed # NotHanded
    <3>1. ClosedAtStop(r) \in Nat
      BY <2>2, SinkTypes
    <3>. QED BY <2>5, <3>1 DEF Concludes, NotHanded
  <2>11. MainIsCoherent'
    BY <2>1, <2>8, <2>9, <2>10 DEF MainIsCoherent
  <2>. QED BY <2>1, <2>3, <2>5, <2>6, <2>7, <2>8, <2>11, CallConcluded
<1>11. CASE EraseCall
  <2> DEFINE c == main.call
  <2>1. /\ c \in live /\ c \in Calls /\ c \notin main.left
        /\ main.left \subseteq live /\ call[c].handed # NotHanded
    BY <1>11 DEF EraseCall, LeaseInv, MainIsCoherent, live
  <2>2. /\ call' = [call EXCEPT ![c] = Free] /\ UNCHANGED <<sink, active>>
        /\ main'.at \in {"exit", "manage"} /\ main'.left = main.left
        /\ main.at = "erase"
    BY <1>11 DEF EraseCall
  <2>3. call'[c] = Free /\ \A d \in Calls \ {c} : SameCall(d)
    BY <2>1, <2>2 DEF SameCall, TypeOK
  <2>4. live' = live \ {c}
    BY <2>1, <2>3, LiveByState DEF SameCall, live, Free
  <2>5. MainIsCoherent'
    BY <2>1, <2>2, <2>4 DEF MainIsCoherent
  <2>. QED BY <2>1, <2>2, <2>3, <2>5, CallDeleted
<1>12. ASSUME NEW r \in Recorders, SinkWrite(r) PROVE LeaseInv'
  <2> DEFINE o == sink[r].owner
  <2>1. sink[r].phase \in {"IDLE", "RECORDING"} /\ UNCHANGED <<active, main>>
    BY <1>12 DEF SinkWrite
  <2>2. o \in Calls /\ o \in live /\ call[o].opened = ClosedAtStop(r)
    BY <2>1, SinkTypes, CallAssumption
       DEF SinkRecords, LeaseInv, OwnedIffLent, RecorderIsExclusive,
           OpenedIsCounted
  <2>3. call[o] \in CallRecords /\ sink[r] \in SinkRecords
    BY <2>2, LiveType, SinkTypes
  <2>4. /\ sink'[r].phase = "RECORDING" /\ sink'[r].owner = o
        /\ sink'[r].closed = sink[r].closed
    BY <1>12, <2>3 DEF SinkWrite, TypeOK, SinkRecords
  <2>5. \A q \in Recorders \ {r} : SameSink(q)
    BY <1>12 DEF SinkWrite, SameSink, TypeOK
  <2>6. ClosedAtStop(r)' = sink[r].closed + 1
    BY <2>4 DEF ClosedAtStop
  <2>7. CASE sink[r].phase = "IDLE"
    <3>1. call' = [call EXCEPT ![o].opened = @ + 1]
      BY <1>12, <2>7 DEF SinkWrite
    <3>2. \A c \in Calls \ {o} : SameCall(c)
      BY <3>1 DEF SameCall, TypeOK
    <3>3. call'[o] = [call[o] EXCEPT !.opened = @ + 1]
      BY <2>2, <3>1 DEF TypeOK
    <3>4. call[o].opened = sink[r].closed
      BY <2>2, <2>7 DEF ClosedAtStop
    <3>5. /\ call'[o].state = call[o].state
          /\ call'[o].recorder = call[o].recorder
          /\ call'[o].aux = call[o].aux
          /\ call'[o].handed = call[o].handed
          /\ call'[o].opened = ClosedAtStop(r)'
      BY <2>3, <2>6, <3>3, <3>4 DEF CallRecords
    <3>. QED BY <2>1, <2>4, <2>5, <3>2, <3>5, SinkGoesOn
  <2>8. CASE sink[r].phase = "RECORDING"
    <3>1. call' = call
      BY <1>12, <2>8 DEF SinkWrite
    <3>2. \A c \in Calls : SameCall(c)
      BY <3>1 DEF SameCall
    <3>3. call[o].opened = sink[r].closed + 1
      BY <2>2, <2>8 DEF ClosedAtStop
    <3>. QED BY <2>1, <2>4, <2>5, <2>6, <3>1, <3>2, <3>3, SinkGoesOn
  <2>. QED BY <2>1, <2>7, <2>8
<1>13. ASSUME NEW r \in Recorders, NEW next \in {"IDLE", "IGNORE"},
              SinkEnd(r, next)
       PROVE  LeaseInv'
  <2> DEFINE o == sink[r].owner
  <2>1. sink[r].phase # "AVAILABLE" /\ UNCHANGED <<call, active, main>>
    BY <1>13 DEF SinkEnd
  <2>2. call[o].opened = ClosedAtStop(r)
    BY <2>1 DEF LeaseInv, OwnedIffLent, OpenedIsCounted
  <2>3. sink[r] \in SinkRecords
    BY SinkTypes
  <2>4. /\ sink'[r].phase = next /\ sink'[r].owner = o
        /\ sink'[r].closed = ClosedAtStop(r)
    BY <1>13, <2>3 DEF SinkEnd, TypeOK, SinkRecords
  <2>5. ClosedAtStop(r)' = ClosedAtStop(r)
    BY <2>4 DEF ClosedAtStop
  <2>6. \A q \in Recorders \ {r} : SameSink(q)
    BY <1>13 DEF SinkEnd, SameSink, TypeOK
  <2>7. \A c \in Calls : SameCall(c)
    BY <2>1 DEF SameCall
  <2>. QED BY <2>1, <2>2, <2>4, <2>5, <2>6, <2>7, SinkGoesOn
<1>14. CASE Tick
  <2>1. \A c \in Calls : SameCall(c)
    BY <1>14, LiveType DEF Tick, SameCall, CallRecords
  <2>2. \A r \in Recorders : SameSink(r)
    BY <1>14, SinkTypes DEF Tick, SameSink, SinkRecords
  <2>. QED BY <1>14, <2>1, <2>2, MainKept, NothingLeased DEF Tick
<1>15. CASE UNCHANGED vars
  <2>1. UNCHANGED <<call, sink, active, main>>
    BY <1>15 DEF vars
  <2>2. \A c \in Calls : SameCall(c)
    BY <2>1 DEF SameCall
  <2>. QED BY <2>1, <2>2, MainKept, OnlyMain
<1>. QED
  BY <1>1, <1>2, <1>3, <1>4, <1>5, <1>6, <1>7, <1>8, <1>9, <1>10, <1>11,
     <1>12, <1>13, <1>14, <1>15
     DEF Next, Grant, Manage, Exit, Finish, Sink

-----------------------------------------------------------------------------
(* What a step does to one call, and to one sink.                          *)

\* A step leaves a live call as it was, or it had not been concluded and goes
\* on, or it is deleted, and then it was monitored or had been concluded.
LEMMA CallStep ==
  ASSUME TypeOK, LeaseInv, [Next]_vars, NEW c \in live
  PROVE  \/ SameCall(c)
         \/ call[c].handed = NotHanded /\ call'[c] # Free
         \/ /\ call'[c] = Free
            /\ call[c].state = "MONITORING" \/ call[c].handed # NotHanded
<1> c \in Calls /\ call[c] \in CallRecords
  BY LiveType DEF live
<1> TypeOK'
  BY TypeOKInductive
<1>1. ASSUME NEW m \in Message, handle_call_update(m) \/ GrantKnown(m)
      PROVE  SameCall(c)
  BY <1>1 DEF handle_call_update, GrantKnown, Refresh, SameCall, CallRecords
<1>2. ASSUME NEW m \in Message, GrantNew(m) \/ GrantDuplicate(m)
      PROVE  SameCall(c)
  BY <1>2, RefusedMonitors
     DEF GrantNew, GrantDuplicate, StartNew, Monitor, SameCall, TypeOK
<1>3. ASSUME NEW m \in Message, GrantSuperseding(m)
      PROVE  SameCall(c) \/ (call[c].handed = NotHanded /\ call'[c] # Free)
  <2>1. ASSUME NEW n \in Calls \ live, StartRefused(n, m) PROVE SameCall(c)
    BY <2>1, RefusedMonitors DEF Monitor, SameCall, TypeOK
  <2>2. ASSUME NEW n \in Calls \ live, NEW o \in Originals(m), Supersede(n, m, o)
        PROVE  SameCall(c) \/ (call[c].handed = NotHanded /\ call'[c] # Free)
    <3>1. PICK rec, new :
            /\ rec.state = "MONITORING"
            /\ call' = [call EXCEPT ![n] = new, ![o] = rec]
      <4>1. [Concluded(call[o]) EXCEPT
               !.state = "MONITORING",
               !.monitoringState = "SUPERSEDED"].state = "MONITORING"
        <5>1. o \in live /\ call[o] \in CallRecords
          BY LiveType DEF Originals, live
        <5>. QED BY <5>1 DEF Concluded, CallRecords
      <4>. QED BY <2>2, <4>1 DEF Supersede
    <3>2. CASE c = o
      <4>1. call[c].state = "RECORDING" /\ main.at = "loop"
        BY <1>3, <3>2 DEF Originals, GrantSuperseding, InLoop
      <4>2. call[c].handed = NotHanded
        BY <4>1 DEF LeaseInv, CallsAreCoherent
      <4>. QED BY <3>1, <3>2, <4>2 DEF Free, TypeOK
    <3>3. CASE c # o
      BY <3>1, <3>3 DEF SameCall, TypeOK
    <3>. QED BY <3>2, <3>3
  <2>. QED BY <1>3, <2>1, <2>2 DEF GrantSuperseding
<1>4. ASSUME NEW d \in Calls, MonitoringTimeout(d) \/ ExitMonitoring(d)
      PROVE  \/ SameCall(c)
             \/ call'[c] = Free /\ call[c].state = "MONITORING"
  BY <1>4 DEF MonitoringTimeout, ExitMonitoring, SameCall, TypeOK
<1>5. CASE ConcludeCall
  <2>1. main.call # c => SameCall(c)
    BY <1>5 DEF ConcludeCall, SameCall, TypeOK
  <2>2. main.call = c => call[c].handed = NotHanded /\ call'[c] # Free
    BY <1>5 DEF ConcludeCall, LeaseInv, MainIsCoherent, Concluded, TypeOK,
                CallRecords, Free
  <2>. QED BY <2>1, <2>2
<1>6. CASE EraseCall
  BY <1>6 DEF EraseCall, LeaseInv, MainIsCoherent, SameCall, TypeOK
<1>7. ASSUME NEW r \in Recorders, SinkWrite(r)
      PROVE  SameCall(c) \/ (call[c].handed = NotHanded /\ call'[c] # Free)
  <2>1. CASE sink[r].phase = "IDLE" /\ sink[r].owner = c
    <3>1. call[c].handed = NotHanded
      BY <2>1 DEF LeaseInv, RecorderIsExclusive, Counting
    <3>2. call'[c].state = call[c].state
      BY <1>7, <2>1 DEF SinkWrite, CallRecords, TypeOK
    <3>. QED BY <3>1, <3>2 DEF CallRecords, Free
  <2>2. CASE ~(sink[r].phase = "IDLE" /\ sink[r].owner = c)
    BY <1>7, <2>2 DEF SinkWrite, SameCall, TypeOK
  <2>. QED BY <2>1, <2>2
<1>8. CASE Tick
  BY <1>8 DEF Tick, SameCall, CallRecords
<1>9. ASSUME UNCHANGED call PROVE SameCall(c)
  BY <1>9 DEF SameCall
<1>. QED
  BY <1>1, <1>2, <1>3, <1>4, <1>5, <1>6, <1>7, <1>8, <1>9
     DEF Next, Grant, Manage, Exit, Finish, Sink, vars, DecodeIdentity,
         ManageBegin, RecordingTimeout, KeepCall, ManageEnd, ExitBegin,
         ExitRecording, ExitEnd, SinkEnd, Decide

\* A step of the system is a step of each sink's life cycle, or none.
LEMMA SinkStep ==
  ASSUME TypeOK, LeaseInv, [Next]_vars, NEW r \in Recorders
  PROVE  [Lifecycle(r)!Next]_(Lifecycle(r)!sinkVars)
<1> USE DEF Lifecycle!sinkVars
<1> sink[r] \in SinkRecords
  BY SinkTypes
<1>l. ASSUME NEW c \in Calls, sink[r].phase = "AVAILABLE",
             sink'[r] = LentSink(r, c)
      PROVE  Lifecycle(r)!Next
  BY <1>l DEF Lifecycle!Next, Lifecycle!Lend, LentSink
<1>r. ASSUME sink[r].phase # "AVAILABLE", sink'[r] = ReturnedSink(r)
      PROVE  Lifecycle(r)!Next
  BY <1>r DEF Lifecycle!Next, Lifecycle!Return, ReturnedSink, ClosedAtStop,
              SinkRecords
<1>u. ASSUME SameSink(r) PROVE UNCHANGED (Lifecycle(r)!sinkVars)
  BY <1>u DEF SameSink
<1>1. ASSUME UNCHANGED sink PROVE SameSink(r)
  BY <1>1 DEF SameSink
<1>2. ASSUME NEW m \in Message, GrantNew(m)
      PROVE  [Lifecycle(r)!Next]_(Lifecycle(r)!sinkVars)
  <2>1. ASSUME NEW c \in Calls, StartNew(c, m)
        PROVE  [Lifecycle(r)!Next]_(Lifecycle(r)!sinkVars)
    <3>1. PICK q \in Recorders :
            Startable(m, q) /\ sink' = [sink EXCEPT ![q] = LentSink(q, c)]
      BY <2>1 DEF StartNew
    <3>2. CASE q = r
      <4>1. sink[r].phase = "AVAILABLE"
        BY <3>1, <3>2 DEF Startable, Available
      <4>2. sink'[r] = LentSink(r, c)
        BY <3>1, <3>2 DEF TypeOK
      <4>. QED BY <1>l, <4>1, <4>2
    <3>3. CASE q # r
      BY <1>u, <3>1, <3>3 DEF SameSink, TypeOK
    <3>. QED BY <3>2, <3>3
  <2>2. ASSUME NEW c \in Calls, StartRefused(c, m)
        PROVE  [Lifecycle(r)!Next]_(Lifecycle(r)!sinkVars)
    BY <1>1, <1>u, <2>2, RefusedMonitors DEF Monitor
  <2>. QED BY <1>2, <2>1, <2>2 DEF GrantNew
<1>3. ASSUME NEW m \in Message, GrantDuplicate(m) PROVE UNCHANGED sink
  BY <1>3 DEF GrantDuplicate, Monitor
<1>4. ASSUME NEW m \in Message, GrantSuperseding(m)
      PROVE  [Lifecycle(r)!Next]_(Lifecycle(r)!sinkVars)
  <2>1. ASSUME NEW c \in Calls, NEW o \in Originals(m), Supersede(c, m, o)
        PROVE  [Lifecycle(r)!Next]_(Lifecycle(r)!sinkVars)
    <3>1. PICK q \in Recorders :
            /\ Startable(m, q)
            /\ sink' = [sink EXCEPT
                 ![q] = LentSink(q, c),
                 ![call[o].recorder] = ReturnedSink(call[o].recorder)]
      BY <2>1 DEF Supersede
    <3>2. o \in live /\ call[o].state = "RECORDING" /\ main.at = "loop"
      BY <1>4 DEF Originals, GrantSuperseding, InLoop
    <3>3. call[o].handed = NotHanded
      BY <3>2 DEF LeaseInv, CallsAreCoherent
    <3>4. sink[call[o].recorder].phase # "AVAILABLE"
      BY <3>2, <3>3, RecordingOwns
    <3>5. sink[q].phase = "AVAILABLE"
      BY <3>1 DEF Startable, Available
    <3>6. CASE r = call[o].recorder
      BY <1>r, <3>1, <3>4, <3>6 DEF TypeOK
    <3>7. CASE r = q /\ r # call[o].recorder
      BY <1>l, <3>1, <3>5, <3>7 DEF TypeOK
    <3>8. CASE r # q /\ r # call[o].recorder
      BY <1>u, <3>1, <3>8 DEF SameSink, TypeOK
    <3>. QED BY <3>6, <3>7, <3>8
  <2>2. ASSUME NEW c \in Calls, StartRefused(c, m)
        PROVE  [Lifecycle(r)!Next]_(Lifecycle(r)!sinkVars)
    BY <1>1, <1>u, <2>2, RefusedMonitors DEF Monitor
  <2>. QED BY <1>4, <2>1, <2>2 DEF GrantSuperseding
<1>5. CASE ConcludeCall
  <2> DEFINE c == main.call
  <2>1. /\ c \in live /\ call[c].state = "RECORDING"
        /\ call[c].handed = NotHanded
    BY <1>5 DEF ConcludeCall, LeaseInv, MainIsCoherent
  <2>2. /\ sink[call[c].recorder].phase # "AVAILABLE"
        /\ call[c].recorder \in active
    BY <2>1, RecordingOwns
  <2>3. sink' = [sink EXCEPT ![call[c].recorder] = ReturnedSink(call[c].recorder)]
    BY <1>5, <2>2 DEF ConcludeCall
  <2>4. CASE r = call[c].recorder
    BY <1>r, <2>2, <2>3, <2>4 DEF TypeOK
  <2>5. CASE r # call[c].recorder
    BY <1>u, <2>3, <2>5 DEF SameSink, TypeOK
  <2>. QED BY <2>4, <2>5
<1>6. ASSUME NEW q \in Recorders, SinkWrite(q)
      PROVE  [Lifecycle(r)!Next]_(Lifecycle(r)!sinkVars)
  <2>1. CASE q = r /\ sink[r].phase = "IDLE"
    BY <1>6, <2>1 DEF SinkWrite, TypeOK, SinkRecords, Lifecycle!Next,
                      Lifecycle!Open
  <2>2. CASE q = r /\ sink[r].phase = "RECORDING"
    BY <1>6, <1>u, <2>2 DEF SinkWrite, TypeOK, SinkRecords, SameSink
  <2>3. CASE q # r
    BY <1>6, <1>u, <2>3 DEF SinkWrite, TypeOK, SameSink
  <2>. QED BY <1>6, <2>1, <2>2, <2>3 DEF SinkWrite
<1>7. ASSUME NEW q \in Recorders, NEW next \in {"IDLE", "IGNORE"},
             SinkEnd(q, next)
      PROVE  [Lifecycle(r)!Next]_(Lifecycle(r)!sinkVars)
  <2>1. CASE q = r
    <3>1. /\ sink'[r].phase = next /\ sink'[r].owner = sink[r].owner
          /\ sink'[r].closed = ClosedAtStop(r)
      BY <1>7, <2>1 DEF SinkEnd, TypeOK, SinkRecords
    <3>2. \/ sink[r].phase = "RECORDING"
          \/ sink[r].phase = "IDLE" /\ next = "IGNORE"
          \/ sink[r].phase = "IGNORE" /\ next = "IDLE"
      BY <1>7, <2>1 DEF SinkEnd
    <3>. QED BY <3>1, <3>2
             DEF ClosedAtStop, Lifecycle!Next, Lifecycle!Close,
                 Lifecycle!Ignore, Lifecycle!Resume
  <2>2. CASE q # r
    BY <1>7, <1>u, <2>2 DEF SinkEnd, TypeOK, SameSink
  <2>. QED BY <2>1, <2>2
<1>8. CASE Tick
  BY <1>8, <1>u DEF Tick, SameSink, SinkRecords
<1>. QED
  BY <1>1, <1>2, <1>3, <1>4, <1>5, <1>6, <1>7, <1>8, <1>u
     DEF Next, Grant, Manage, Exit, Finish, Sink, vars, DecodeIdentity,
         ManageBegin, RecordingTimeout, KeepCall, ManageEnd, ExitBegin,
         ExitRecording, ExitEnd, Decide, handle_call_update, GrantKnown,
         MonitoringTimeout, ExitMonitoring, EraseCall


\* How a call that was not there comes to be, if it does.
LEMMA NewCallStep ==
  ASSUME TypeOK, LeaseInv, [Next]_vars, NEW c \in Calls, call[c] = Free
  PROVE  \/ call'[c] = Free
         \/ call'[c].state = "MONITORING"
         \/ \E m \in Message : GrantNew(m) /\ StartNew(c, m)
         \/ \E m \in Message : /\ GrantSuperseding(m)
                               /\ \E o \in Originals(m) : Supersede(c, m, o)
<1> DEFINE Goal == \/ call'[c] = Free
                   \/ call'[c].state = "MONITORING"
                   \/ \E m \in Message : GrantNew(m) /\ StartNew(c, m)
                   \/ \E m \in Message :
                        /\ GrantSuperseding(m)
                        /\ \E o \in Originals(m) : Supersede(c, m, o)
<1> c \notin live /\ call[c].state = "FREE"
  BY DEF live, Free
<1>m. ASSUME NEW d \in Calls, NEW m, NEW reason, Monitor(d, m, reason)
      PROVE  call'[c] = Free \/ call'[c].state = "MONITORING"
  <2>1. [NewCall(m) EXCEPT !.monitoringState = reason].state = "MONITORING"
    BY DEF NewCall
  <2>. QED BY <1>m, <2>1 DEF Monitor, TypeOK
<1>n. ASSUME NEW d \in Calls, NEW m, StartRefused(d, m) PROVE Goal
  BY <1>m, <1>n, RefusedMonitors
<1>1. ASSUME NEW m \in Message, handle_call_update(m) \/ GrantKnown(m)
      PROVE  Goal
  BY <1>1 DEF handle_call_update, GrantKnown, Refresh, Matching
<1>2. ASSUME NEW m \in Message, GrantNew(m) PROVE Goal
  <2>1. ASSUME NEW d \in Calls \ {c}, StartNew(d, m) PROVE call'[c] = Free
    BY <2>1 DEF StartNew, TypeOK
  <2>. QED BY <1>2, <1>n, <2>1 DEF GrantNew
<1>3. ASSUME NEW m \in Message, GrantDuplicate(m) PROVE Goal
  BY <1>3, <1>m DEF GrantDuplicate
<1>4. ASSUME NEW m \in Message, GrantSuperseding(m) PROVE Goal
  <2>1. ASSUME NEW d \in Calls \ {c}, NEW o \in Originals(m), Supersede(d, m, o)
        PROVE  call'[c] = Free
    <3>1. o # c
      BY DEF Originals
    <3>. QED BY <2>1, <3>1 DEF Supersede, TypeOK
  <2>. QED BY <1>4, <1>n, <2>1 DEF GrantSuperseding
<1>5. ASSUME NEW d \in Calls, MonitoringTimeout(d) \/ ExitMonitoring(d)
      PROVE  Goal
  BY <1>5 DEF MonitoringTimeout, ExitMonitoring, TypeOK
<1>6. CASE ConcludeCall
  <2>1. main.call # c
    BY <1>6 DEF ConcludeCall, LeaseInv, MainIsCoherent
  <2>. QED BY <1>6, <2>1 DEF ConcludeCall, TypeOK
<1>7. CASE EraseCall
  BY <1>7 DEF EraseCall, TypeOK
<1>8. ASSUME NEW r \in Recorders, SinkWrite(r) PROVE Goal
  <2>1. sink[r].owner # c
    BY DEF LeaseInv, RecorderIsExclusive
  <2>. QED BY <1>8, <2>1 DEF SinkWrite, TypeOK
<1>9. CASE Tick
  BY <1>9 DEF Tick
<1>10. ASSUME UNCHANGED call PROVE Goal
  BY <1>10
<1>. QED
  BY <1>1, <1>2, <1>3, <1>4, <1>5, <1>6, <1>7, <1>8, <1>9, <1>10
     DEF Next, Grant, Manage, Exit, Finish, Sink, vars, DecodeIdentity,
         ManageBegin, RecordingTimeout, KeepCall, ManageEnd, ExitBegin,
         ExitRecording, ExitEnd, SinkEnd, Decide


\* A recorder started while the talkgroup is recorded at another site takes
\* the place of one there.
LEMMA OneSiteStep ==
  ASSUME TypeOK, LeaseInv, [Next]_vars, NEW c \in Calls, call[c] = Free,
         call'[c] # Free, call'[c].state = "RECORDING",
         Originals(call'[c]) # {}
  PROVE  \E o \in Originals(call'[c]) :
           /\ call'[o].state = "MONITORING"
           /\ call'[o].handed # NotHanded
           /\ sink'[call[o].recorder].owner = NoCall
<1>s. ASSUME NEW m, NEW r, NEW joined,
             call'[c] = RecordedCall(m, r, joined)
      PROVE  Originals(call'[c]) = Originals(m)
  <2>1. call'[c].sys = m.sys /\ call'[c].talkgroup = m.talkgroup
    BY <1>s DEF RecordedCall, NewCall
  <2>. QED BY <2>1 DEF Originals
<1>1. ASSUME NEW m \in Message, GrantNew(m), StartNew(c, m) PROVE FALSE
  <2>1. PICK r \in Recorders, joined \in AuxChoices(m) :
          call' = [call EXCEPT ![c] = RecordedCall(m, r, joined)]
    BY <1>1 DEF StartNew
  <2>2. call'[c] = RecordedCall(m, r, joined)
    BY <2>1 DEF TypeOK
  <2>. QED BY <1>1, <1>s, <2>2 DEF GrantNew
<1>2. ASSUME NEW m \in Message, GrantSuperseding(m), NEW o \in Originals(m),
             Supersede(c, m, o)
      PROVE  /\ o \in Originals(call'[c])
             /\ call'[o].state = "MONITORING"
             /\ call'[o].handed # NotHanded
             /\ sink'[call[o].recorder].owner = NoCall
  <2>1. PICK r \in Recorders, joined \in AuxChoices(m) :
          /\ call' = [call EXCEPT
               ![c] = RecordedCall(m, r, joined),
               ![o] = [Concluded(call[o]) EXCEPT
                         !.state = "MONITORING",
                         !.monitoringState = "SUPERSEDED"]]
          /\ sink' = [sink EXCEPT
               ![r] = LentSink(r, c),
               ![call[o].recorder] = ReturnedSink(call[o].recorder)]
    BY <1>2 DEF Supersede
  <2>2. o \in live /\ o # c /\ call[o].state = "RECORDING"
    BY DEF Originals, live
  <2>3. call[o].recorder \in Recorders /\ call[o] \in CallRecords
    BY <2>2, LiveType DEF LeaseInv, CallsAreCoherent, live
  <2>4. call'[c] = RecordedCall(m, r, joined)
    BY <2>1, <2>2 DEF TypeOK
  <2>5. call'[o] = [Concluded(call[o]) EXCEPT
                      !.state = "MONITORING", !.monitoringState = "SUPERSEDED"]
    BY <2>1, <2>2 DEF TypeOK, live
  <2>6. Concluded(call[o]).handed \in Nat
    <3>1. /\ ClosedAtStop(call[o].recorder) \in Nat
          /\ sink[call[o].recorder].closed \in Nat
      BY <2>3, SinkTypes DEF SinkRecords
    <3>. QED BY <2>3, <3>1 DEF Concluded, CallRecords
  <2>7. call'[o].state = "MONITORING" /\ call'[o].handed # NotHanded
    BY <2>3, <2>5, <2>6 DEF Concluded, CallRecords, NotHanded
  <2>8. sink'[call[o].recorder].owner = NoCall
    BY <2>1, <2>3, SinkTypes DEF TypeOK, ReturnedSink, SinkRecords
  <2>. QED BY <1>s, <2>4, <2>7, <2>8
<1>. QED BY <1>1, <1>2, NewCallStep

\* The debug and SigMF recorders are preserved by every step.
LEMMA AuxInductive ==
  ASSUME TypeOK, LeaseInv, AuxIsExclusive, [Next]_vars
  PROVE  AuxIsExclusive'
<1> TypeOK'
  BY TypeOKInductive
<1>k. ASSUME UNCHANGED aux,
             \A c \in Calls : \/ SameCall(c)
                              \/ /\ c \in live
                                 /\ call[c].state = "MONITORING"
                                      \/ call[c].handed # NotHanded
                                 /\ call'[c] = Free
                              \/ /\ c \notin live
                                 /\ call'[c].aux = {}
      PROVE  AuxIsExclusive'
  <2>1. ASSUME NEW c \in Calls
        PROVE  \A x \in AuxRecorders :
                 c \in live /\ x \in call[c].aux /\ call[c].handed = NotHanded
                 <=> /\ c \in live'
                     /\ x \in call'[c].aux
                     /\ call'[c].handed = NotHanded
    <3>1. CASE SameCall(c)
      BY <3>1, LiveByState DEF SameCall
    <3>2. CASE c \in live /\ call'[c] = Free
                 /\ (call[c].state = "MONITORING" \/ call[c].handed # NotHanded)
      <4>1. c \notin live'
        BY <3>2, LiveByState DEF Free
      <4>. QED BY <3>2, <4>1 DEF LeaseInv, CallsAreCoherent
    <3>3. CASE c \notin live /\ call'[c].aux = {}
      BY <3>3
    <3>. QED BY <1>k, <3>1, <3>2, <3>3
  <2>2. live \subseteq Calls /\ live' \subseteq Calls
    BY DEF live
  <2>. QED BY <1>k, <2>1, <2>2 DEF AuxIsExclusive
<1>n. ASSUME NEW c \in Calls \ live, NEW m, NEW reason, Monitor(c, m, reason)
      PROVE  AuxIsExclusive'
  <2>1. call'[c].aux = {} /\ \A d \in Calls \ {c} : SameCall(d)
    BY <1>n DEF Monitor, NewCall, SameCall, TypeOK
  <2>. QED BY <1>k, <1>n, <2>1 DEF Monitor
\* Call c starts with the recorders joined and the calls of gone end.
<1> DEFINE Joins(c, m, r, joined, gone, dropped) ==
             /\ c \in Calls \ live
             /\ joined \in AuxChoices(m)
             /\ gone \in SUBSET live
             /\ call'[c] = RecordedCall(m, r, joined)
             /\ \A d \in Calls \ (gone \cup {c}) : SameCall(d)
             /\ \A d \in gone : /\ d \in live'
                               /\ call'[d].handed # NotHanded
                               /\ call[d].handed = NotHanded
             /\ \A x : x \in dropped <=> \E d \in gone : x \in call[d].aux
             /\ aux' = (aux \cup joined) \ dropped
<1> HIDE DEF Joins
<1>o. ASSUME NEW c, NEW m, NEW r, NEW joined, NEW gone, NEW dropped,
             Joins(c, m, r, joined, gone, dropped)
      PROVE  AuxIsExclusive'
  <2>a. /\ c \in Calls \ live
        /\ joined \in AuxChoices(m)
        /\ gone \in SUBSET live
        /\ call'[c] = RecordedCall(m, r, joined)
        /\ \A d \in Calls \ (gone \cup {c}) : SameCall(d)
        /\ \A d \in gone : /\ d \in live'
                          /\ call'[d].handed # NotHanded
                          /\ call[d].handed = NotHanded
        /\ \A x : x \in dropped <=> \E d \in gone : x \in call[d].aux
        /\ aux' = (aux \cup joined) \ dropped
    BY <1>o DEF Joins
  <2>1. call'[c].aux = joined /\ call'[c].handed = NotHanded /\ c \in live'
    BY <2>a, LiveByState DEF RecordedCall, NewCall
  <2>2. joined \subseteq AuxRecorders /\ joined \cap aux = {}
    BY <2>a, AuxChoicesType
  <2>3. \A d \in live \ gone : d \in live' /\ SameCall(d) /\ d # c
    BY <2>a, LiveByState DEF SameCall, live
  <2>4. \A d \in live' : d = c \/ d \in live
    BY <2>a, LiveByState DEF SameCall, live
  <2>5. ASSUME NEW d \in live, call[d].handed = NotHanded
        PROVE  call[d].aux \subseteq aux
    BY <2>5, LiveType DEF AuxIsExclusive, CallRecords, live
  <2>6. ASSUME NEW x \in AuxRecorders, x \in aux'
        PROVE  \E d \in live' : x \in call'[d].aux /\ call'[d].handed = NotHanded
    <3>1. CASE x \in joined
      BY <2>1, <3>1
    <3>2. CASE x \in aux
      <4>1. PICK d \in live : x \in call[d].aux /\ call[d].handed = NotHanded
        BY <3>2 DEF AuxIsExclusive
      <4>2. d \notin gone
        BY <2>a, <2>6, <4>1
      <4>. QED BY <2>3, <4>1, <4>2 DEF SameCall
    <3>. QED BY <2>a, <2>6, <3>1, <3>2
  <2>7. ASSUME NEW x \in AuxRecorders, NEW d \in live',
               x \in call'[d].aux, call'[d].handed = NotHanded
        PROVE  /\ x \in aux'
               /\ \A e \in live' : /\ x \in call'[e].aux
                                   /\ call'[e].handed = NotHanded
                                   => e = d
    <3>1. ASSUME NEW e \in live', e # c, x \in call'[e].aux,
                 call'[e].handed = NotHanded
          PROVE  /\ e \in live \ gone /\ x \in call[e].aux
                 /\ call[e].handed = NotHanded /\ x \in aux
      <4>1. e \in live \ gone
        BY <2>a, <2>4, <3>1
      <4>. QED BY <2>3, <2>5, <3>1, <4>1 DEF SameCall
    <3>2. ASSUME NEW e \in gone, x \in call[e].aux
          PROVE  x \in aux /\ \A f \in live : x \in call[f].aux
                     /\ call[f].handed = NotHanded => f = e
      BY <2>a, <2>5, <3>2 DEF AuxIsExclusive
    <3>3. CASE d = c
      <4>1. x \in joined
        BY <2>1, <2>7, <3>3
      <4>. QED BY <2>a, <2>2, <3>1, <3>2, <3>3, <4>1
    <3>4. CASE d # c
      <4>1. d \in live \ gone /\ x \in call[d].aux /\ call[d].handed = NotHanded
            /\ x \in aux
        BY <2>7, <3>1, <3>4
      <4>2. x \notin joined
        BY <2>2, <4>1
      <4>3. \A e \in live' : x \in call'[e].aux /\ call'[e].handed = NotHanded
                             => e = d
        BY <2>1, <3>1, <4>1, <4>2 DEF AuxIsExclusive
      <4>4. x \in aux'
        BY <2>a, <3>2, <4>1
      <4>. QED BY <4>3, <4>4
    <3>. QED BY <3>3, <3>4
  <2>. QED BY <2>6, <2>7 DEF AuxIsExclusive
<1>1. ASSUME NEW m \in Message, handle_call_update(m) \/ GrantKnown(m)
      PROVE  AuxIsExclusive'
  <2>1. \A c \in Calls : SameCall(c)
    BY <1>1, LiveType
       DEF handle_call_update, GrantKnown, Refresh, Matching, SameCall,
           CallRecords
  <2>. QED BY <1>1, <1>k, <2>1 DEF handle_call_update, GrantKnown
<1>2. ASSUME NEW m \in Message, GrantNew(m) PROVE AuxIsExclusive'
  <2>1. ASSUME NEW c \in Calls \ live, StartNew(c, m) PROVE AuxIsExclusive'
    <3>1. PICK r \in Recorders, joined \in AuxChoices(m) :
             /\ call' = [call EXCEPT ![c] = RecordedCall(m, r, joined)]
             /\ aux' = aux \cup joined
      BY <2>1 DEF StartNew
    <3>2. /\ call'[c] = RecordedCall(m, r, joined)
          /\ \A d \in Calls \ {c} : SameCall(d)
      BY <3>1 DEF SameCall, TypeOK
    <3>3. /\ {} \in SUBSET live
          /\ \A d \in Calls \ ({} \cup {c}) : SameCall(d)
          /\ \A x : x \in {} <=> \E d \in {} : x \in call[d].aux
          /\ aux' = (aux \cup joined) \ {}
      BY <3>1, <3>2
    <3>4. Joins(c, m, r, joined, {}, {})
      BY <3>1, <3>2, <3>3 DEF Joins
    <3>. QED BY <1>o, <3>4
  <2>. QED BY <1>2, <1>n, <2>1, RefusedMonitors DEF GrantNew
<1>3. ASSUME NEW m \in Message, GrantDuplicate(m) PROVE AuxIsExclusive'
  BY <1>3, <1>n DEF GrantDuplicate
<1>4. ASSUME NEW m \in Message, GrantSuperseding(m) PROVE AuxIsExclusive'
  <2>1. ASSUME NEW c \in Calls \ live, NEW o \in Originals(m), Supersede(c, m, o)
        PROVE  AuxIsExclusive'
    <3>1. PICK r \in Recorders, joined \in AuxChoices(m) :
            /\ call' = [call EXCEPT
                 ![c] = RecordedCall(m, r, joined),
                 ![o] = [Concluded(call[o]) EXCEPT
                           !.state = "MONITORING",
                           !.monitoringState = "SUPERSEDED"]]
            /\ aux' = (aux \cup joined) \ call[o].aux
      BY <2>1 DEF Supersede
    <3>2. o \in live /\ o \in Calls /\ o # c /\ call[o].state = "RECORDING"
          /\ call[o].recorder \in Recorders /\ call[o] \in CallRecords
      BY LiveType DEF Originals, live, LeaseInv, CallsAreCoherent
    <3>3. call[o].handed = NotHanded
      BY <1>4, <3>2 DEF GrantSuperseding, InLoop, LeaseInv, CallsAreCoherent
    <3>4. call'[c] = RecordedCall(m, r, joined)
      BY <3>1, <3>2 DEF TypeOK
    <3>5. call'[o] = [Concluded(call[o]) EXCEPT
                        !.state = "MONITORING",
                        !.monitoringState = "SUPERSEDED"]
      BY <3>1, <3>2 DEF TypeOK
    <3>6. /\ ClosedAtStop(call[o].recorder) \in Nat
          /\ sink[call[o].recorder].closed \in Nat
      BY <3>2, SinkTypes DEF SinkRecords
    <3>7. call'[o].state = "MONITORING" /\ call'[o].handed # NotHanded
      BY <3>2, <3>5, <3>6 DEF Concluded, CallRecords, NotHanded
    <3>8. o \in live'
      BY <3>2, <3>7, LiveByState
    <3>9. \A d \in Calls \ ({o} \cup {c}) : SameCall(d)
      BY <3>1 DEF SameCall, TypeOK
    <3>10. /\ {o} \in SUBSET live
           /\ \A d \in {o} : /\ d \in live' /\ call'[d].handed # NotHanded
                             /\ call[d].handed = NotHanded
           /\ \A x : x \in call[o].aux <=> \E d \in {o} : x \in call[d].aux
      BY <3>2, <3>3, <3>7, <3>8
    <3>11. Joins(c, m, r, joined, {o}, call[o].aux)
      BY <3>1, <3>4, <3>9, <3>10 DEF Joins
    <3>. QED BY <1>o, <3>11
  <2>. QED BY <1>4, <1>n, <2>1, RefusedMonitors DEF GrantSuperseding
<1>5. ASSUME NEW c \in Calls, MonitoringTimeout(c) \/ ExitMonitoring(c)
      PROVE  AuxIsExclusive'
  <2>1. /\ c \in live /\ call[c].state = "MONITORING" /\ call'[c] = Free
        /\ UNCHANGED aux
    BY <1>5, LiveType
       DEF MonitoringTimeout, ExitMonitoring, TypeOK, Free
  <2>2. \A d \in Calls \ {c} : SameCall(d)
    BY <1>5 DEF MonitoringTimeout, ExitMonitoring, SameCall, TypeOK
  <2>. QED BY <1>k, <2>1, <2>2
<1>6. CASE ConcludeCall
  <2> DEFINE o == main.call
  <2>1. /\ o \in live /\ o \in Calls /\ call[o].state = "RECORDING"
        /\ call[o].handed = NotHanded
    BY <1>6 DEF ConcludeCall, LeaseInv, MainIsCoherent, live
  <2>2. call[o].recorder \in Recorders /\ call[o] \in CallRecords
    BY <2>1, LiveType DEF LeaseInv, CallsAreCoherent
  <2>3. call' = [call EXCEPT ![o] = Concluded(@)] /\ aux' = aux \ call[o].aux
    BY <1>6 DEF ConcludeCall
  <2>4. /\ ClosedAtStop(call[o].recorder) \in Nat
        /\ sink[call[o].recorder].closed \in Nat
    BY <2>2, SinkTypes DEF SinkRecords
  <2>5. call'[o].handed # NotHanded
    <3>1. call'[o] = Concluded(call[o])
      BY <2>1, <2>3 DEF TypeOK
    <3>2. Concluded(call[o]).handed \in Nat
      BY <2>2, <2>4 DEF Concluded, CallRecords
    <3>. QED BY <3>1, <3>2 DEF NotHanded
  <2>6. \A d \in Calls \ {o} : SameCall(d)
    BY <2>3 DEF SameCall, TypeOK
  <2>7. \A d \in live \ {o} : d \in live'
    BY <2>6, LiveByState DEF SameCall, live
  <2>8. \A d \in live' \ {o} : d \in live
    BY <2>6, LiveByState DEF SameCall, live
  <2>9. ASSUME NEW x \in AuxRecorders
        PROVE  /\ x \in aux' => \E d \in live' : /\ x \in call'[d].aux
                                                 /\ call'[d].handed = NotHanded
               /\ \A d, e \in live' :
                    /\ x \in call'[d].aux /\ call'[d].handed = NotHanded =>
                         x \in aux'
                    /\ /\ x \in call'[d].aux \cap call'[e].aux
                       /\ call'[d].handed = NotHanded
                       /\ call'[e].handed = NotHanded
                       => d = e
    <3>1. ASSUME x \in aux'
          PROVE  \E d \in live' : /\ x \in call'[d].aux
                                  /\ call'[d].handed = NotHanded
      <4>1. PICK d \in live : x \in call[d].aux /\ call[d].handed = NotHanded
        BY <2>3, <3>1 DEF AuxIsExclusive
      <4>2. d # o
        BY <2>3, <3>1, <4>1
      <4>. QED BY <2>6, <2>7, <4>1, <4>2 DEF SameCall, live
    <3>2. ASSUME NEW d \in live', x \in call'[d].aux,
                 call'[d].handed = NotHanded
          PROVE  /\ d \in live \ {o} /\ x \in call[d].aux
                 /\ call[d].handed = NotHanded
      BY <2>5, <2>6, <2>8, <3>2 DEF SameCall, live
    <3>3. ASSUME NEW d \in live', x \in call'[d].aux,
                 call'[d].handed = NotHanded
          PROVE  x \in aux'
      BY <2>1, <2>3, <3>2, <3>3 DEF AuxIsExclusive
    <3>. QED BY <3>1, <3>2, <3>3 DEF AuxIsExclusive
  <2>. QED BY <2>9 DEF AuxIsExclusive
<1>7. CASE EraseCall
  <2>1. /\ main.call \in live /\ main.call \in Calls
        /\ call[main.call].handed # NotHanded
    BY <1>7 DEF EraseCall, LeaseInv, MainIsCoherent, live
  <2>2. call'[main.call] = Free /\ UNCHANGED aux
    BY <1>7, <2>1 DEF EraseCall, TypeOK
  <2>3. \A d \in Calls \ {main.call} : SameCall(d)
    BY <1>7 DEF EraseCall, SameCall, TypeOK
  <2>. QED BY <1>k, <2>1, <2>2, <2>3
<1>8. ASSUME NEW r \in Recorders, SinkWrite(r) PROVE AuxIsExclusive'
  <2>1. ASSUME NEW c \in Calls
        PROVE  /\ call'[c].state = call[c].state
               /\ c \in live => /\ call'[c].aux = call[c].aux
                                /\ call'[c].handed = call[c].handed
    BY <1>8, LiveType DEF SinkWrite, TypeOK, CallRecords, Free
  <2>2. live' = live
    BY <2>1, LiveByState DEF live
  <2>3. UNCHANGED aux
    BY <1>8 DEF SinkWrite
  <2>. QED BY <2>1, <2>2, <2>3 DEF AuxIsExclusive, live
<1>9. CASE Tick
  <2>1. \A c \in Calls : SameCall(c)
    BY <1>9, LiveType DEF Tick, SameCall, CallRecords
  <2>. QED BY <1>9, <1>k, <2>1 DEF Tick
<1>10. ASSUME UNCHANGED <<call, aux>> PROVE AuxIsExclusive'
  BY <1>10 DEF AuxIsExclusive, live
<1>. QED
  BY <1>1, <1>2, <1>3, <1>4, <1>5, <1>6, <1>7, <1>8, <1>9, <1>10
     DEF Next, Grant, Manage, Exit, Finish, Sink, vars, DecodeIdentity,
         ManageBegin, RecordingTimeout, KeepCall, ManageEnd, ExitBegin,
         ExitRecording, ExitEnd, SinkEnd, Decide

-----------------------------------------------------------------------------
(* The theorems.                                                           *)

\* Nothing is live, lent or joined at the start.
LEMMA InitEstablishes ==
  ASSUME Init
  PROVE  TypeOK /\ LeaseInv /\ AuxIsExclusive
<1> live = {}
  BY DEF Init, live
<1>1. TypeOK
  <2>1. Timeout + 1 \in Ages
    BY CallAssumption DEF Ages
  <2>2. sink \in [Recorders -> SinkRecords]
    BY <2>1 DEF Init, SinkRecords
  <2>. QED BY <2>2 DEF Init, TypeOK, MainStates
<1>2. \A r \in Recorders : sink[r].owner = NoCall /\ sink[r].phase = "AVAILABLE"
  BY DEF Init
<1>3. LeaseInv
  BY <1>2, CallAssumption
     DEF Init, LeaseInv, RecorderIsExclusive, ActiveIffLent, OwnedIffLent,
         CallsAreCoherent, MainIsCoherent, OpenedIsCounted, NothingLost
<1>4. AuxIsExclusive
  BY DEF Init, AuxIsExclusive
<1>. QED BY <1>1, <1>3, <1>4

\* The inductive invariant holds in every reachable state.
LEMMA Reachable == Spec => [](TypeOK /\ LeaseInv /\ AuxIsExclusive)
<1>1. TypeOK /\ LeaseInv /\ AuxIsExclusive /\ [Next]_vars
        => TypeOK' /\ LeaseInv' /\ AuxIsExclusive'
  BY TypeOKInductive, LeaseInductive, AuxInductive
<1>. QED BY <1>1, InitEstablishes, PTL DEF Spec

\* Calls, sinks, recorders and the main loop keep their types.
THEOREM TypeCorrect == Spec => []TypeOK
BY Reachable, PTL

\* start_recorder never gives one recorder to two calls, and no call is
\* deleted or concluded while a sink still writes for it.
THEOREM RecorderAlwaysExclusive == Spec => []RecorderIsExclusive
<1>1. LeaseInv => RecorderIsExclusive
  BY DEF LeaseInv
<1>. QED BY <1>1, Reachable, PTL

\* The ACTIVE state of a recorder and the state of its sink never part.
THEOREM ActiveAlwaysIffLent == Spec => []ActiveIffLent
<1>1. LeaseInv => ActiveIffLent
  BY DEF LeaseInv
<1>. QED BY <1>1, Reachable, PTL

\* A debug or SigMF recorder is never shared and never left running.
THEOREM AuxAlwaysExclusive == Spec => []AuxIsExclusive
BY Reachable, PTL

\* conclude_call hands over every transmission that was opened for the call.
THEOREM NothingEverLost == Spec => []NothingLost
<1>1. LeaseInv => NothingLost
  BY DEF LeaseInv
<1>. QED BY <1>1, Reachable, PTL

\* conclude_call runs once for a call that was recorded, before its delete.
THEOREM CallsConcludedOnce == Spec => ConcludedOnce
<1> DEFINE Once ==
      \A c \in live :
        /\ call[c].handed # NotHanded =>
             call'[c] = Free \/ /\ call'[c].handed = call[c].handed
                                /\ call'[c].opened = call[c].opened
        /\ call'[c] = Free /\ call[c].recorder # NoRecorder =>
             call[c].handed # NotHanded
<1>1. TypeOK /\ LeaseInv /\ [Next]_vars => Once
  <2> SUFFICES ASSUME TypeOK, LeaseInv, [Next]_vars, NEW c \in live
               PROVE  /\ call[c].handed # NotHanded =>
                           call'[c] = Free \/ /\ call'[c].handed = call[c].handed
                                              /\ call'[c].opened = call[c].opened
                      /\ call'[c] = Free /\ call[c].recorder # NoRecorder =>
                           call[c].handed # NotHanded
    OBVIOUS
  <2>1. SameCall(c) => call'[c] # Free
    <3>1. call[c].state # "FREE"
      BY LiveType DEF live
    <3>. QED BY <3>1 DEF SameCall, Free
  <2>2. call[c].state = "MONITORING" /\ call[c].handed = NotHanded
          => call[c].recorder = NoRecorder
    BY DEF LeaseInv, CallsAreCoherent
  <2>. QED BY <2>1, <2>2, CallStep DEF SameCall
<1>. QED BY <1>1, Reachable, PTL DEF Spec, ConcludedOnce

\* A grant at another site starts a recorder only in place of one that it
\* stops in the same step.
THEOREM OneSiteAlwaysRecords == Spec => OneSiteRecords
<1> DEFINE One ==
      \A c \in Calls :
        LET started == call'[c]
        IN  /\ call[c] = Free
            /\ started # Free
            /\ started.state = "RECORDING"
            /\ Originals(started) # {}
            => \E o \in Originals(started) :
                 /\ call'[o].state = "MONITORING"
                 /\ call'[o].handed # NotHanded
                 /\ sink'[call[o].recorder].owner = NoCall
<1>1. TypeOK /\ LeaseInv /\ [Next]_vars => One
  BY OneSiteStep
<1>. QED BY <1>1, Reachable, PTL DEF Spec, OneSiteRecords

\* Whatever the main thread and the voice channels do, every sink keeps the
\* life cycle that TransmissionSink was shown to implement.
THEOREM SinksAlwaysKeepLifecycle == Spec => SinksKeepLifecycle
<1>1. Init => \A r \in Recorders : Lifecycle(r)!Init
  BY DEF Init, Lifecycle!Init
<1>2. TypeOK /\ LeaseInv /\ [Next]_vars =>
        \A r \in Recorders : [Lifecycle(r)!Next]_(Lifecycle(r)!sinkVars)
  BY SinkStep
<1>. QED BY <1>1, <1>2, Reachable, PTL DEF Spec, SinksKeepLifecycle

=============================================================================
