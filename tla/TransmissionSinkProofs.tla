----------------------- MODULE TransmissionSinkProofs -----------------------
(***************************************************************************)
(* For every set of calls, talkgroups and units, and whatever the bounds:  *)
(* the invariants of TransmissionSink, what its steps never do, and that   *)
(* it implements SinkLifecycle.                                            *)
(***************************************************************************)
EXTENDS TransmissionSink, SequenceTheorems, TLAPS

\* The lock at work: stop_recording cannot take the call away while work
\* holds d_mutex, and a call whose slot is stored is not there yet.
LockInv ==
  /\ work.busy => d_current_call # NoCall /\ work.items > 0
  /\ starting # NoCall => d_current_call = NoCall

\* The open file carries the talkgroup of the call.
OpenFileInv ==
  state = "RECORDING" =>
    /\ current_filename \in Names
    /\ current_filename.talkgroup = TalkgroupOf[d_current_call]

\* Foreign speech that no terminator ended: dowork ignores it, and no flag
\* is pending that could end it.
ForeignInv == foreign = "heard" => state = "IGNORE" /\ ~d_termination_flag

SinkInv ==
  /\ SamplesHaveAFile
  /\ AvailableIsClean
  /\ LockInv
  /\ OpenFileInv
  /\ ListIsOfCall
  /\ ForeignInv

-----------------------------------------------------------------------------

\* A file name made for a call is a name.
LEMMA FilenameType ==
  ASSUME TypeOK, d_current_call \in Calls, NEW start \in Int
  PROVE  /\ create_filename(start) \in Names
         /\ create_filename(start).talkgroup = TalkgroupOf[d_current_call]
BY SinkAssumption DEF create_filename, Names, TypeOK

\* Type correctness of the sink, step by step.
LEMMA TypeOKInductive ==
  ASSUME TypeOK, LockInv, [Next]_vars
  PROVE  TypeOK'
<1> USE SinkAssumption DEF TypeOK, LockInv, flagVars
<1>e. EndOpenTransmission \/ nothing_to_end =>
        /\ d_fp' \in Names \cup {NoFile}
        /\ d_sample_count' \in Nat
        /\ d_prior_length' \in Nat
        /\ curr_src_id' \in UnitIds \cup {-1}
        /\ transmission_list' \in Seq(Transmissions)
  <2>1. [source |-> curr_src_id, start_time |-> d_start_time,
         stop_time |-> d_stop_time, length |-> d_sample_count,
         filename |-> current_filename] \in Transmissions
    BY DEF Transmissions
  <2>2. end_transmission => transmission_list' \in Seq(Transmissions)
    BY <2>1 DEF end_transmission
  <2>3. end_transmission =>
          /\ d_fp' = NoFile /\ d_sample_count' = 0 /\ curr_src_id' = -1
          /\ d_prior_length' \in Nat
    BY DEF end_transmission
  <2>4. nothing_to_end =>
          /\ d_fp' = d_fp /\ d_sample_count' = d_sample_count
          /\ curr_src_id' = curr_src_id /\ d_prior_length' = d_prior_length
          /\ transmission_list' = transmission_list
    BY DEF nothing_to_end
  <2>. QED BY <2>2, <2>3, <2>4 DEF EndOpenTransmission
<1>t. ASSUME NEW key, NextTag(key), TagDone
      PROVE  work' \in Buffers
  <2>1. work.tags \in Seq(Tags) /\ work.tags # <<>>
    BY <1>t DEF NextTag, Buffers
  <2>2. Tail(work.tags) \in Seq(Tags)
    BY <2>1
  <2>. QED BY <1>t, <2>2 DEF TagDone, Buffers
<1>u. Unlocked \in Buffers
  BY DEF Unlocked, Buffers
<1>s. NewStartTime \in Int
  BY DEF NewStartTime
<1>1. ASSUME NEW c \in Calls, StoreSlot(c) PROVE TypeOK'
  BY <1>1 DEF StoreSlot
<1>2. ASSUME NEW c \in Calls, StartRecording(c) PROVE TypeOK'
  BY <1>2 DEF StartRecording, fileVars, nameVars
<1>3. CASE StopRecording
  BY <1>3, <1>e DEF StopRecording, nameVars
<1>4. ASSUME NEW src \in UnitIds, SetSource(src) PROVE TypeOK'
  BY <1>4 DEF SetSource, callVars, fileVars, nameVars
<1>5. ASSUME NEW tags \in TagLists, NEW n \in 1..MaxItems, WorkBegin(tags, n)
      PROVE  TypeOK'
  <2>1. tags \in Seq(Tags)
    BY DEF TagLists
  <2>2. work' \in Buffers
    BY <1>5, <2>1 DEF WorkBegin, Holding, Buffers
  <2>. QED BY <1>5, <2>2 DEF WorkBegin, callVars, fileVars, nameVars
<1>6. CASE GrpIdTag
  <2>1. state' \in {"AVAILABLE", "IDLE", "RECORDING", "IGNORE", "STOPPED"}
    BY <1>6 DEF GrpIdTag
  <2>2. foreign' \in {"none", "heard", "heard_behind_terminator"}
    BY <1>6 DEF GrpIdTag, NoteForeign
  <2>. QED BY <1>6, <1>e, <1>t, <2>1, <2>2
           DEF GrpIdTag, callVars, nameVars
<1>7. CASE SrcIdTag
  <2>1. Head(work.tags) \in Tags
    BY <1>7 DEF SrcIdTag, NextTag, Buffers
  <2>2. Head(work.tags).value \in UnitIds
    BY <1>7, <2>1 DEF SrcIdTag, NextTag, Tags
  <2>. QED BY <1>7, <1>t, <2>2
           DEF SrcIdTag, callVars, fileVars, nameVars
<1>8. CASE TerminateTag
  BY <1>8, <1>t DEF TerminateTag, callVars, fileVars, nameVars
<1>9. CASE DoTerminate
  BY <1>9, <1>e, <1>u DEF DoTerminate, callVars, nameVars
<1>10. CASE DoIgnore
  BY <1>10, <1>u DEF DoIgnore, callVars, fileVars, nameVars
<1>11. ASSUME NEW outcome \in Outcomes, DoOpen(outcome) PROVE TypeOK'
  <2>1. d_current_call \in Calls /\ work.items \in Nat
    BY <1>11 DEF DoOpen, InDoWork, Buffers
  <2>2. create_filename(NewStartTime) \in Names
    BY <1>s, <2>1, FilenameType
  <2>3. current_filename' \in Names /\ d_fp' \in Names \cup {NoFile}
    BY <1>11, <2>2 DEF DoOpen
  <2>4. d_start_time' \in Int /\ d_stop_time' \in Int /\ d_sample_count' \in Nat
    BY <1>11, <1>s, <2>1 DEF DoOpen
  <2>5. state' \in {"IDLE", "RECORDING"}
    BY <1>11 DEF DoOpen
  <2>6. work' \in Buffers
    BY <1>11, <1>u DEF DoOpen
  <2>7. UNCHANGED <<callVars, now, d_slot, d_prior_length, transmission_list,
                    curr_src_id, flagVars>>
    BY <1>11 DEF DoOpen
  <2>. QED BY <2>2, <2>3, <2>4, <2>5, <2>6, <2>7 DEF callVars
<1>12. CASE DoWrite
  BY <1>12, <1>u DEF DoWrite, Buffers, callVars, fileVars, nameVars
<1>13. CASE Tick
  BY <1>13 DEF Tick, callVars, fileVars, nameVars
<1>14. CASE UNCHANGED vars
  BY <1>14 DEF vars
<1>. QED
  BY <1>1, <1>2, <1>3, <1>4, <1>5, <1>6, <1>7, <1>8, <1>9, <1>10, <1>11,
     <1>12, <1>13, <1>14 DEF Next, MainThread, Work


-----------------------------------------------------------------------------

\* What ending the open transmission does, whichever state it is in.
LEMMA EndEffect ==
  ASSUME TypeOK, SinkInv, EndOpenTransmission, d_current_call' = d_current_call
  PROVE  /\ d_sample_count' = 0
         /\ Len(transmission_list') =
              IF state = "RECORDING" THEN Len(transmission_list) + 1
              ELSE Len(transmission_list)
         /\ ListIsOfCall'
<1> USE DEF TypeOK, SinkInv, SamplesHaveAFile, OpenFileInv
<1>1. CASE d_sample_count > 0
  <2>1. state = "RECORDING"
    BY <1>1
  <2>2. d_sample_count' = 0
        /\ transmission_list' =
             Append(transmission_list,
                    [source |-> curr_src_id, start_time |-> d_start_time,
                     stop_time |-> d_stop_time, length |-> d_sample_count,
                     filename |-> current_filename])
    BY <1>1 DEF EndOpenTransmission, end_transmission
  <2>3. Len(transmission_list') = Len(transmission_list) + 1
    BY <2>2
  <2>4. ListIsOfCall'
    BY <2>1, <2>2 DEF ListIsOfCall
  <2>. QED BY <2>1, <2>2, <2>3, <2>4
<1>2. CASE ~(d_sample_count > 0)
  <2>1. d_sample_count' = d_sample_count
        /\ transmission_list' = transmission_list
    BY <1>2 DEF EndOpenTransmission, nothing_to_end
  <2>. QED BY <1>2, <2>1 DEF ListIsOfCall
<1>. QED BY <1>1, <1>2

\* When nothing is ended nothing of the transmissions changes.
LEMMA NothingEffect ==
  ASSUME SinkInv, nothing_to_end, d_current_call' = d_current_call
  PROVE  /\ d_sample_count' = d_sample_count
         /\ d_fp' = d_fp
         /\ transmission_list' = transmission_list
         /\ ListIsOfCall'
BY DEF nothing_to_end, SinkInv, ListIsOfCall

\* The invariant of the sink is inductive.
LEMMA SinkInvInductive ==
  ASSUME TypeOK, SinkInv, [Next]_vars
  PROVE  SinkInv'
<1> USE SinkAssumption
    DEF TypeOK, SinkInv, SamplesHaveAFile, AvailableIsClean, LockInv,
        OpenFileInv, ForeignInv, flagVars
<1>1. ASSUME NEW c \in Calls, StoreSlot(c) PROVE SinkInv'
  BY <1>1 DEF StoreSlot, ListIsOfCall
<1>2. ASSUME NEW c \in Calls, StartRecording(c) PROVE SinkInv'
  BY <1>2 DEF StartRecording, fileVars, nameVars, ListIsOfCall
<1>3. CASE StopRecording
  <2>1. d_sample_count' = 0
    BY <1>3 DEF StopRecording, EndOpenTransmission, end_transmission,
                nothing_to_end
  <2>. QED BY <1>3, <2>1 DEF StopRecording, nameVars, ListIsOfCall
<1>4. ASSUME NEW src \in UnitIds, SetSource(src) PROVE SinkInv'
  BY <1>4 DEF SetSource, callVars, fileVars, nameVars, ListIsOfCall
<1>5. ASSUME NEW tags \in TagLists, NEW n \in 1..MaxItems, WorkBegin(tags, n)
      PROVE  SinkInv'
  BY <1>5 DEF WorkBegin, Holding, callVars, fileVars, nameVars, ListIsOfCall
<1>6. CASE GrpIdTag
  <2>1. /\ callVars' = callVars /\ nameVars' = nameVars
        /\ d_termination_flag' = d_termination_flag
        /\ work.busy /\ work'.busy /\ work'.items = work.items
    BY <1>6 DEF GrpIdTag, NextTag, TagDone, Buffers
  <2>f. foreign' = "heard" =>
          /\ ~d_termination_flag
          /\ Foreign \/ foreign = "heard"
    BY <1>6 DEF GrpIdTag, NoteForeign
  <2>s. state \in {"RECORDING", "IDLE", "IGNORE"}
    BY <2>1
  <2>2. CASE Mismatch
    <3>1. EndOpenTransmission /\ state' = "IGNORE"
      BY <1>6, <2>2 DEF GrpIdTag
    <3>2. d_sample_count' = 0 /\ ListIsOfCall'
      BY <2>1, <3>1, EndEffect DEF callVars
    <3>. QED BY <2>1, <2>2, <2>f, <3>1, <3>2 DEF callVars, nameVars, Mismatch
  <2>3. CASE ~Mismatch
    <3>1. nothing_to_end /\ state' = state
      BY <1>6, <2>3 DEF GrpIdTag
    <3>2. /\ d_sample_count' = d_sample_count /\ d_fp' = d_fp
          /\ ListIsOfCall'
      BY <2>1, <3>1, NothingEffect DEF callVars
    <3>3. foreign' = "heard" => state = "IGNORE"
      BY <2>3, <2>f, <2>s DEF Mismatch
    <3>. QED BY <2>1, <2>f, <3>1, <3>2, <3>3 DEF callVars, nameVars
  <2>. QED BY <2>2, <2>3
<1>7. CASE SrcIdTag
  BY <1>7 DEF SrcIdTag, NextTag, TagDone, Buffers, callVars, fileVars,
              nameVars, ListIsOfCall
<1>8. CASE TerminateTag
  <2>1. d_current_call # NoCall
    BY <1>8 DEF TerminateTag, NextTag
  <2>. QED
    BY <1>8, <2>1 DEF TerminateTag, NextTag, TagDone, Buffers, callVars,
                      fileVars, nameVars, ListIsOfCall
<1>9. CASE DoTerminate
  <2>1. d_current_call # NoCall /\ callVars' = callVars /\ nameVars' = nameVars
        /\ d_termination_flag' = FALSE /\ work' = Unlocked
        /\ foreign' = foreign /\ d_termination_flag
    BY <1>9 DEF DoTerminate, InDoWork
  <2>2. EndOpenTransmission
        /\ state' = IF state = "IGNORE" \/ d_sample_count > 0 THEN "IDLE"
                    ELSE state
    BY <1>9, <2>1 DEF DoTerminate
  <2>3. d_sample_count' = 0 /\ ListIsOfCall'
    BY <2>1, <2>2, EndEffect DEF callVars
  <2>4. state' # "RECORDING" /\ state' # "STOPPED" /\ state' # "AVAILABLE"
    BY <2>1, <2>2
  <2>. QED BY <2>1, <2>3, <2>4 DEF callVars, nameVars, Unlocked
<1>10. CASE DoIgnore
  BY <1>10 DEF DoIgnore, Unlocked, callVars, fileVars, nameVars, ListIsOfCall
<1>11. ASSUME NEW outcome \in Outcomes, DoOpen(outcome) PROVE SinkInv'
  <2>1. /\ d_current_call \in Calls /\ callVars' = callVars
        /\ work.items \in Nat /\ work.items > 0 /\ work' = Unlocked
        /\ state = "IDLE" /\ d_sample_count = 0
        /\ transmission_list' = transmission_list
        /\ flagVars' = flagVars
    BY <1>11 DEF DoOpen, InDoWork, Buffers
  <2>2. /\ create_filename(NewStartTime) \in Names
        /\ create_filename(NewStartTime).talkgroup = TalkgroupOf[d_current_call]
    BY <2>1, FilenameType DEF NewStartTime
  <2>3. CASE outcome = "ok"
    <3>1. /\ state' = "RECORDING" /\ d_sample_count' = work.items
          /\ d_fp' = current_filename'
          /\ current_filename' = create_filename(NewStartTime)
      BY <1>11, <2>3 DEF DoOpen
    <3>. QED BY <2>1, <2>2, <3>1 DEF callVars, Unlocked, ListIsOfCall
  <2>4. CASE outcome # "ok"
    <3>1. state' = "IDLE" /\ d_sample_count' = 0
      BY <1>11, <2>1, <2>4 DEF DoOpen
    <3>. QED BY <2>1, <3>1 DEF callVars, Unlocked, ListIsOfCall
  <2>. QED BY <2>3, <2>4
<1>12. CASE DoWrite
  <2>1. /\ callVars' = callVars /\ fileVars' = fileVars
        /\ transmission_list' = transmission_list
        /\ flagVars' = flagVars
        /\ state = "RECORDING" /\ state' = state /\ work' = Unlocked
        /\ work.items \in Nat /\ d_fp # NoFile
    BY <1>12 DEF DoWrite, Buffers
  <2>2. d_sample_count' = d_sample_count + work.items
    BY <1>12, <2>1 DEF DoWrite
  <2>. QED BY <2>1, <2>2 DEF callVars, fileVars, nameVars, Unlocked, ListIsOfCall
<1>13. CASE Tick
  BY <1>13 DEF Tick, callVars, fileVars, nameVars, ListIsOfCall
<1>14. CASE UNCHANGED vars
  BY <1>14 DEF vars, ListIsOfCall
<1>. QED
  BY <1>1, <1>2, <1>3, <1>4, <1>5, <1>6, <1>7, <1>8, <1>9, <1>10, <1>11,
     <1>12, <1>13, <1>14 DEF Next, MainThread, Work


-----------------------------------------------------------------------------

\* A sink that was just made satisfies everything.
LEMMA InitEstablishes == Init => TypeOK /\ SinkInv
<1> SUFFICES ASSUME Init PROVE TypeOK /\ SinkInv
  OBVIOUS
<1>1. TypeOK
  <2>1. <<>> \in Seq(Transmissions) /\ <<>> \in Seq(Tags)
    BY EmptySeq
  <2>2. Unlocked \in Buffers
    BY <2>1 DEF Unlocked, Buffers
  <2>3. transmission_list \in Seq(Transmissions) /\ work \in Buffers
    BY <2>1, <2>2 DEF Init
  <2>4. /\ d_sample_count \in Nat /\ d_prior_length \in Nat /\ d_slot \in Int
        /\ d_start_time \in Int /\ d_stop_time \in Int /\ now \in Nat
        /\ curr_src_id \in UnitIds \cup {-1}
    BY DEF Init
  <2>5. /\ d_current_call \in Calls \cup {NoCall}
        /\ starting \in Calls \cup {NoCall}
        /\ d_fp \in Names \cup {NoFile}
        /\ current_filename \in Names \cup {NoFile}
        /\ d_termination_flag \in BOOLEAN
        /\ foreign \in {"none", "heard", "heard_behind_terminator"}
    BY DEF Init
  <2>. QED BY <2>3, <2>4, <2>5 DEF Init, TypeOK
<1>2. SinkInv
  BY DEF Init, SinkInv, SamplesHaveAFile, AvailableIsClean, LockInv,
         OpenFileInv, ListIsOfCall, ForeignInv, Unlocked
<1>. QED BY <1>1, <1>2

\* The two invariants hold together in every reachable state.
LEMMA Reachable == Spec => [](TypeOK /\ SinkInv)
<1>1. TypeOK /\ SinkInv /\ [Next]_vars => (TypeOK /\ SinkInv)'
  <2> SUFFICES ASSUME TypeOK, SinkInv, [Next]_vars PROVE TypeOK' /\ SinkInv'
    OBVIOUS
  <2>1. LockInv
    BY DEF SinkInv
  <2>. QED BY <2>1, TypeOKInductive, SinkInvInductive
<1>. QED BY <1>1, InitEstablishes, PTL DEF Spec

\* TypeOK: every variable of the sink keeps its type.
THEOREM TypeCorrect == Spec => []TypeOK
BY Reachable, PTL

\* SamplesHaveAFile: end_transmission and stop_recording may decide from
\* d_sample_count alone whether a file is open.
THEOREM SamplesAlwaysHaveAFile == Spec => []SamplesHaveAFile
<1>1. SinkInv => SamplesHaveAFile
  BY DEF SinkInv
<1>. QED BY <1>1, Reachable, PTL

\* AvailableIsClean: a sink without a call is AVAILABLE and carries nothing
\* over, and dowork never finds that its call went away under the lock.
THEOREM AvailableAlwaysClean == Spec => []AvailableIsClean
<1>1. SinkInv => AvailableIsClean
  BY DEF SinkInv
<1>. QED BY <1>1, Reachable, PTL

\* ListIsOfCall: conclude_call never copies another call's transmissions.
THEOREM ListAlwaysOfCall == Spec => []ListIsOfCall
<1>1. SinkInv => ListIsOfCall
  BY DEF SinkInv
<1>. QED BY <1>1, Reachable, PTL

\* IgnoredUntilTerminator: once another talkgroup was heard, nothing is
\* recorded before a terminator that came after it, or the end of the call;
\* a group id behind a terminator of its own buffer is excepted.
THEOREM IgnoreHolds == Spec => []IgnoredUntilTerminator
<1>1. SinkInv => IgnoredUntilTerminator
  BY DEF SinkInv, ForeignInv, IgnoredUntilTerminator
<1>. QED BY <1>1, Reachable, PTL

\* Every step of the sink is one of SinkLifecycle's or leaves its view alone.
LEMMA StepSimulates ==
  ASSUME TypeOK, SinkInv, [Next]_vars
  PROVE  [Lifecycle!Next]_Lifecycle!sinkVars
<1> USE DEF Lifecycle!Next, Lifecycle!sinkVars
<1>s. ASSUME UNCHANGED <<state, d_current_call, transmission_list>>
      PROVE  UNCHANGED Lifecycle!sinkVars
  BY <1>s
<1>1. ASSUME NEW c \in Calls, StartRecording(c) PROVE Lifecycle!Lend(c)
  BY <1>1 DEF StartRecording, Lifecycle!Lend, SinkInv, AvailableIsClean
<1>2. CASE StopRecording
  <2>1. state # "AVAILABLE" /\ state' = "AVAILABLE" /\ d_current_call' = NoCall
    BY <1>2 DEF StopRecording, SinkInv, AvailableIsClean
  <2>2. Len(transmission_list') = IF state = "RECORDING"
                                  THEN Len(transmission_list) + 1
                                  ELSE Len(transmission_list)
    BY <1>2 DEF StopRecording, EndOpenTransmission, end_transmission,
                nothing_to_end, SinkInv, SamplesHaveAFile, TypeOK
  <2>. QED BY <2>1, <2>2 DEF Lifecycle!Return
<1>3. CASE GrpIdTag
  <2>1. d_current_call' = d_current_call
    BY <1>3 DEF GrpIdTag, callVars
  <2>2. CASE Mismatch
    <3>1. /\ state \in {"RECORDING", "IDLE"} /\ state' = "IGNORE"
          /\ EndOpenTransmission
      BY <1>3, <2>2 DEF GrpIdTag, Mismatch
    <3>2. Len(transmission_list') = IF state = "RECORDING"
                                    THEN Len(transmission_list) + 1
                                    ELSE Len(transmission_list)
      BY <2>1, <3>1, EndEffect
    <3>. QED BY <2>1, <3>1, <3>2 DEF Lifecycle!Close, Lifecycle!Ignore
  <2>3. CASE ~Mismatch
    BY <1>3, <2>1, <2>3, <1>s DEF GrpIdTag, nothing_to_end
  <2>. QED BY <2>2, <2>3
<1>4. CASE DoTerminate
  <2>1. /\ d_current_call # NoCall /\ d_current_call' = d_current_call
        /\ state \in {"IDLE", "RECORDING", "IGNORE"}
    BY <1>4 DEF DoTerminate, InDoWork, callVars, SinkInv, LockInv,
                AvailableIsClean, TypeOK
  <2>2. /\ EndOpenTransmission
        /\ state' = IF state = "IGNORE" \/ d_sample_count > 0 THEN "IDLE"
                    ELSE state
    BY <1>4, <2>1 DEF DoTerminate
  <2>3. state' = "IDLE"
    BY <2>1, <2>2 DEF SinkInv, SamplesHaveAFile
  <2>4. Len(transmission_list') = IF state = "RECORDING"
                                  THEN Len(transmission_list) + 1
                                  ELSE Len(transmission_list)
    BY <2>1, <2>2, EndEffect
  <2>5. CASE state = "IDLE"
    <3>1. transmission_list' = transmission_list
      BY <2>2, <2>5 DEF EndOpenTransmission, nothing_to_end, SinkInv,
                        SamplesHaveAFile
    <3>. QED BY <2>1, <2>3, <2>5, <3>1, <1>s
  <2>. QED BY <2>1, <2>3, <2>4, <2>5 DEF Lifecycle!Close, Lifecycle!Resume
<1>5. ASSUME NEW outcome \in Outcomes, DoOpen(outcome)
      PROVE  [Lifecycle!Next]_Lifecycle!sinkVars
  <2>1. /\ state = "IDLE" /\ state' \in {"IDLE", "RECORDING"}
        /\ d_current_call' = d_current_call
        /\ transmission_list' = transmission_list
    BY <1>5 DEF DoOpen, callVars
  <2>. QED BY <2>1, <1>s DEF Lifecycle!Open
<1>6. CASE UNCHANGED vars
  BY <1>6, <1>s DEF vars
<1>7. ASSUME NEW c \in Calls, StoreSlot(c) PROVE UNCHANGED Lifecycle!sinkVars
  BY <1>7, <1>s DEF StoreSlot
<1>8. CASE Tick \/ SrcIdTag \/ TerminateTag \/ DoIgnore \/ DoWrite
  BY <1>8, <1>s
  DEF Tick, SrcIdTag, TerminateTag, DoIgnore, DoWrite, callVars
<1>9. ASSUME NEW src \in UnitIds, SetSource(src)
      PROVE  UNCHANGED Lifecycle!sinkVars
  BY <1>9, <1>s DEF SetSource, callVars
<1>10. ASSUME NEW tags \in TagLists, NEW n \in 1..MaxItems, WorkBegin(tags, n)
       PROVE  UNCHANGED Lifecycle!sinkVars
  BY <1>10, <1>s DEF WorkBegin, callVars
<1>. QED
  BY <1>1, <1>2, <1>3, <1>4, <1>5, <1>6, <1>7, <1>8, <1>9, <1>10
  DEF Next, MainThread, Work

\* ImplementsLifecycle: the sink with its lock, tags and files does what the
\* recorders and the calls may expect of it.
THEOREM SinkImplementsLifecycle == Spec => ImplementsLifecycle
<1>1. Init => Lifecycle!Init
  BY DEF Init, Lifecycle!Init
<1>. QED
  BY <1>1, StepSimulates, Reachable, PTL
  DEF Spec, ImplementsLifecycle, Lifecycle!Spec

=============================================================================
