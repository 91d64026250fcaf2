-------------------------- MODULE TransmissionSink --------------------------
(***************************************************************************)
(* gr_blocks/transmission_sink.cc: the block at the end of every recorder  *)
(* that writes voice samples to one wav file per transmission.             *)
(*                                                                         *)
(* Two threads use it.  The main thread lends it to a call and takes it    *)
(* back (start_recording, stop_recording, set_source); a GNU Radio         *)
(* scheduler thread hands it buffers of samples with tags (work).  d_mutex *)
(* is held by start_recording, by stop_recording and by the whole of work, *)
(* but the slot is stored before it is taken and set_source never takes    *)
(* it.  work is therefore several steps here, one per tag and one for the  *)
(* samples, so that the unlocked operations can fall between them.         *)
(*                                                                         *)
(* A wav file is its name.  The directory, the short name and the          *)
(* frequency in the name are fixed by the call, so a name is a talkgroup,  *)
(* a start time and a slot.  Spike and error counts are left out.          *)
(***************************************************************************)
EXTENDS Integers, Sequences

CONSTANTS
  Calls,           \* Call objects
  NoCall,          \* NULL
  Talkgroups,
  TalkgroupOf,     \* [Calls -> Talkgroups], get_talkgroup()
  SlotOf,          \* [Calls -> {-1} \cup Nat]: the TDMA slot, -1 for Phase 1
  Conventional,    \* the calls whose is_conventional() is true
  UnitIds,         \* source radio ids
  Outcomes,        \* what opening a file can do: "ok", "open_fails",
                   \* "header_fails"
  NoFile           \* a null d_fp

CONSTANTS          \* bounds
  MaxTime,         \* the clock stops here
  MaxItems,        \* samples in one buffer
  MaxTags,         \* tags in one buffer
  MaxSamples,      \* samples in one transmission
  MaxClosed        \* transmissions of one call

Names == [talkgroup : Talkgroups, time : Int, slot : Int]

ASSUME SinkAssumption ==
  /\ NoCall \notin Calls
  /\ TalkgroupOf \in [Calls -> Talkgroups]
  /\ SlotOf \in [Calls -> {-1} \cup Nat]
  /\ Conventional \subseteq Calls
  /\ UnitIds \subseteq Nat
  /\ Outcomes \subseteq {"ok", "open_fails", "header_fails"}
  /\ NoFile \notin Names
  /\ {MaxTime, MaxItems, MaxTags, MaxSamples, MaxClosed} \subseteq Nat

VARIABLES
  state,               \* AVAILABLE, IDLE, RECORDING, IGNORE (or STOPPED)
  d_current_call,      \* the call the sink is lent to
  d_fp,                \* the open file, by its name
  current_filename,    \* the name last made
  d_sample_count,      \* samples of the open transmission
  d_prior_length,      \* d_prior_transmission_length, in samples
  d_slot,              \* the slot that goes into file names
  d_start_time,
  d_stop_time,
  d_termination_flag,
  curr_src_id,         \* the unit that is talking, -1 for unknown
  transmission_list,   \* the closed transmissions of the call
  now,                 \* time(NULL)
  work,                \* the buffer work is busy with, or Unlocked
  starting,            \* the call whose slot was stored by a start_recording
                       \* that has not taken the lock yet, or NoCall
  foreign              \* history: what is known of another talkgroup on the
                       \* channel since the last terminator; read by the
                       \* properties only

vars == <<state, d_current_call, d_fp, current_filename, d_sample_count,
          d_prior_length, d_slot, d_start_time, d_stop_time,
          d_termination_flag, curr_src_id, transmission_list, now, work,
          starting, foreign>>

nameVars == <<current_filename, d_start_time, d_slot>>
fileVars == <<d_fp, nameVars>>
callVars == <<d_current_call, starting>>
flagVars == <<d_termination_flag, foreign>>

Tags == [key : {"grp_id"}, value : Talkgroups]
          \cup [key : {"src_id"}, value : UnitIds]
          \cup [key : {"terminate"}]

\* d_mutex is free for the main thread exactly when no work call holds it.
Unlocked == [busy |-> FALSE, tags |-> <<>>, items |-> 0]
Holding(tags, items) == [busy |-> TRUE, tags |-> tags, items |-> items]

Transmissions ==
  [source : UnitIds \cup {-1}, start_time : Int, stop_time : Int,
   length : Nat, filename : Names \cup {NoFile}]

Buffers == [busy : BOOLEAN, tags : Seq(Tags), items : Nat]

TypeOK ==
  /\ state \in {"AVAILABLE", "IDLE", "RECORDING", "IGNORE", "STOPPED"}
  /\ d_current_call \in Calls \cup {NoCall}
  /\ d_fp \in Names \cup {NoFile}
  /\ current_filename \in Names \cup {NoFile}
  /\ d_sample_count \in Nat
  /\ d_prior_length \in Nat
  /\ d_slot \in Int
  /\ d_start_time \in Int
  /\ d_stop_time \in Int
  /\ d_termination_flag \in BOOLEAN
  /\ curr_src_id \in UnitIds \cup {-1}
  /\ transmission_list \in Seq(Transmissions)
  /\ now \in Nat
  /\ work \in Buffers
  /\ starting \in Calls \cup {NoCall}
  /\ foreign \in {"none", "heard", "heard_behind_terminator"}

\* The constructor.  The times are not set there: any value does, and -1 is
\* one that the clock never shows.
Init ==
  /\ state = "AVAILABLE"
  /\ d_current_call = NoCall
  /\ d_fp = NoFile
  /\ current_filename = NoFile
  /\ d_sample_count = 0
  /\ d_prior_length = 0
  /\ d_slot = -1
  /\ d_start_time = -1
  /\ d_stop_time = -1
  /\ d_termination_flag = FALSE
  /\ curr_src_id = -1
  /\ transmission_list = <<>>
  /\ now = 0
  /\ work = Unlocked
  /\ starting = NoCall
  /\ foreign = "none"

-----------------------------------------------------------------------------
(* Operations of the main thread.                                          *)

\* Mutants: the name holds the call, or what the last name held.
NameOfTheCall(start) ==
  [talkgroup |-> d_current_call, time |-> start, slot |-> d_slot]
NameOfTheLast(start) ==
  [talkgroup |-> IF current_filename = NoFile THEN TalkgroupOf[d_current_call]
                 ELSE current_filename.talkgroup,
   time |-> start, slot |-> d_slot]

\* create_filename: the name the next file gets.
create_filename(start) ==
  [talkgroup |-> TalkgroupOf[d_current_call], time |-> start, slot |-> d_slot]

\* start_recording(call, slot), before it calls start_recording(call).
StoreSlot(c) ==
  /\ d_current_call = NoCall
  /\ starting = NoCall
  /\ SlotOf[c] # -1
  /\ d_slot' = SlotOf[c]
  /\ starting' = c
  /\ UNCHANGED <<state, d_current_call, d_fp, current_filename,
                 d_sample_count, d_prior_length, d_start_time, d_stop_time,
                 flagVars, curr_src_id, transmission_list, now,
                 work>>

\* start_recording(call).  A Phase 1 call comes straight here.  The recorder
\* only starts on a sink that is AVAILABLE.
StartRecording(c) ==
  /\ ~work.busy
  /\ d_current_call = NoCall
  /\ starting = IF SlotOf[c] = -1 THEN NoCall ELSE c
  /\ d_current_call' = c
  /\ d_prior_length' = 0
  /\ transmission_list' = <<>>
  /\ curr_src_id' \in UnitIds \cup {-1}     \* call->get_current_source_id()
  /\ d_sample_count' = 0
  /\ state' = "IDLE"
  /\ starting' = NoCall
  /\ UNCHANGED <<fileVars, d_stop_time, flagVars, now, work>>

\* The record end_transmission adds for what is open, and how it leaves the
\* counters.  next_src_id is never set, so the unit becomes unknown.
end_transmission ==
  /\ transmission_list' =
       Append(transmission_list,
              [source |-> curr_src_id, start_time |-> d_start_time,
               stop_time |-> d_stop_time, length |-> d_sample_count,
               filename |-> current_filename])
  /\ d_prior_length' = d_prior_length + d_sample_count
  /\ d_fp' = NoFile
  /\ d_sample_count' = 0
  /\ curr_src_id' = -1

nothing_to_end ==
  UNCHANGED <<transmission_list, d_prior_length, d_fp, d_sample_count,
              curr_src_id>>

\* Mutants: the test of the sample count is missing; what is open is left
\* open.
EndAlways == end_transmission
EndNothing == nothing_to_end

\* Every caller of end_transmission tests the sample count first.
EndOpenTransmission ==
  IF d_sample_count > 0 THEN end_transmission ELSE nothing_to_end

StopRecording ==
  /\ ~work.busy
  /\ d_current_call # NoCall
  /\ EndOpenTransmission
  /\ d_current_call' = NoCall
  /\ d_termination_flag' = FALSE
  /\ state' = "AVAILABLE"
  /\ foreign' = "none"
  /\ UNCHANGED <<nameVars, d_stop_time, now, work, starting>>

\* set_source, on behalf of Call::add_source: no lock is taken.
SetSource(src) ==
  /\ d_current_call # NoCall
  /\ curr_src_id = -1
  /\ curr_src_id' = src
  /\ UNCHANGED <<state, callVars, fileVars, d_sample_count, d_prior_length,
                 d_stop_time, flagVars, transmission_list, now, work>>

Tick ==
  /\ now < MaxTime
  /\ now' = now + 1
  /\ UNCHANGED <<state, callVars, fileVars, d_sample_count, d_prior_length,
                 d_stop_time, flagVars, curr_src_id,
                 transmission_list, work>>

-----------------------------------------------------------------------------
(* work: a GNU Radio scheduler thread, holding d_mutex throughout.         *)

\* work is entered with a buffer of n samples and its tags in order of
\* offset.  Without a call, or once stopped, it drops the buffer unread.
WorkBegin(tags, n) ==
  /\ ~work.busy
  /\ d_current_call # NoCall
  /\ state \notin {"STOPPED", "AVAILABLE"}
  /\ \/ d_sample_count + n <= MaxSamples
     \/ \E i \in DOMAIN tags : tags[i].key = "terminate"
  /\ Len(transmission_list) < MaxClosed
  /\ work' = Holding(tags, n)
  /\ UNCHANGED <<state, callVars, fileVars, d_sample_count, d_prior_length,
                 d_stop_time, flagVars, curr_src_id,
                 transmission_list, now>>

NextTag(key) == work.busy /\ work.tags # <<>> /\ Head(work.tags).key = key

\* The tag loop goes on to the next tag.
TagDone == work' = [work EXCEPT !.tags = Tail(@)]

\* grp_id: the channel carries another talkgroup than the call's.
Foreign ==
  /\ Head(work.tags).value # TalkgroupOf[d_current_call]
  /\ d_current_call \notin Conventional

Mismatch == state \in {"RECORDING", "IDLE"} /\ Foreign

\* The history goes by the order of the tags and not by the state: a group
\* id behind a terminator of its own buffer is kept apart.
NoteForeign ==
  foreign' = IF ~Foreign THEN foreign
             ELSE IF d_termination_flag THEN "heard_behind_terminator"
             ELSE "heard"

\* Mutant: the call's own talkgroup ends IGNORE before the terminator.
GrpIdTagResumes ==
  /\ NextTag("grp_id")
  /\ IF Mismatch
     THEN EndOpenTransmission /\ state' = "IGNORE"
     ELSE nothing_to_end /\ state' = IF state = "IGNORE" THEN "IDLE" ELSE state
  /\ NoteForeign
  /\ TagDone
  /\ UNCHANGED <<callVars, nameVars, d_stop_time, d_termination_flag, now>>

GrpIdTag ==
  /\ NextTag("grp_id")
  /\ IF Mismatch
     THEN EndOpenTransmission /\ state' = "IGNORE"
     ELSE nothing_to_end /\ UNCHANGED state
  /\ NoteForeign
  /\ TagDone
  /\ UNCHANGED <<callVars, nameVars, d_stop_time, d_termination_flag, now>>

SrcIdTag ==
  /\ NextTag("src_id")
  /\ curr_src_id' = IF curr_src_id = -1 \/ state = "RECORDING"
                    THEN Head(work.tags).value
                    ELSE curr_src_id
  /\ TagDone
  /\ UNCHANGED <<state, callVars, fileVars, d_sample_count, d_prior_length,
                 d_stop_time, flagVars, transmission_list, now>>

TerminateTag ==
  /\ NextTag("terminate")
  /\ d_termination_flag' = TRUE
  /\ foreign' = "none"
  /\ TagDone
  /\ UNCHANGED <<state, callVars, fileVars, d_sample_count, d_prior_length,
                 d_stop_time, curr_src_id, transmission_list, now>>

\* dowork, entered when the tags are through.
InDoWork == work.busy /\ work.tags = <<>>

\* A terminator came with the buffer: end what is open, drop the samples.
DoTerminate ==
  /\ InDoWork
  /\ d_termination_flag
  /\ state # "STOPPED"
  /\ d_termination_flag' = FALSE
  /\ IF d_current_call = NoCall
     THEN nothing_to_end /\ state' = "STOPPED"
     ELSE /\ EndOpenTransmission
          /\ state' = IF state = "IGNORE" \/ d_sample_count > 0 THEN "IDLE"
                      ELSE state
  /\ work' = Unlocked
  /\ UNCHANGED <<callVars, nameVars, d_stop_time, now, foreign>>

\* The samples of another talkgroup are dropped.
DoIgnore ==
  /\ InDoWork
  /\ state = "STOPPED" \/ (state = "IGNORE" /\ ~d_termination_flag)
  /\ work' = Unlocked
  /\ UNCHANGED <<state, callVars, fileVars, d_sample_count, d_prior_length,
                 d_stop_time, flagVars, curr_src_id,
                 transmission_list, now>>

\* The start time of a new transmission: a second file must not get the name
\* of the one before.
NewStartTime == IF now = d_start_time THEN now + 1 ELSE now

\* A new transmission: open its file and write the samples.  When the header
\* cannot be written d_fp stays set although the sink stays IDLE; the next
\* buffer closes it.
DoOpen(outcome) ==
  /\ InDoWork
  /\ ~d_termination_flag
  /\ state = "IDLE"
  /\ d_start_time' = NewStartTime
  /\ IF outcome = "ok"
     THEN /\ state' = "RECORDING"
          /\ d_sample_count' = work.items
          /\ d_stop_time' = now
     ELSE /\ d_sample_count' = IF outcome = "open_fails" THEN d_sample_count
                               ELSE 0
          /\ UNCHANGED <<state, d_stop_time>>
  /\ current_filename' = create_filename(NewStartTime)
  /\ d_fp' = IF outcome = "open_fails" THEN NoFile ELSE current_filename'
  /\ work' = Unlocked
  /\ UNCHANGED <<callVars, d_slot, d_prior_length, flagVars,
                 curr_src_id, transmission_list, now>>

\* More samples of the open transmission.
DoWrite ==
  /\ InDoWork
  /\ ~d_termination_flag
  /\ state = "RECORDING"
  /\ IF d_fp = NoFile
     THEN UNCHANGED <<d_sample_count, d_stop_time>>
     ELSE /\ d_sample_count' = d_sample_count + work.items
          /\ d_stop_time' = now
  /\ work' = Unlocked
  /\ UNCHANGED <<state, callVars, fileVars, d_prior_length,
                 flagVars, curr_src_id, transmission_list, now>>

-----------------------------------------------------------------------------

TagLists == UNION {[1..n -> Tags] : n \in 0..MaxTags}

MainThread ==
  \/ \E c \in Calls : StoreSlot(c) \/ StartRecording(c)
  \/ StopRecording
  \/ \E src \in UnitIds : SetSource(src)

Work ==
  \/ \E tags \in TagLists, n \in 1..MaxItems : WorkBegin(tags, n)
  \/ GrpIdTag
  \/ SrcIdTag
  \/ TerminateTag
  \/ DoTerminate
  \/ DoIgnore
  \/ \E outcome \in Outcomes : DoOpen(outcome)
  \/ DoWrite

Next == MainThread \/ Work \/ Tick

Spec == Init /\ [][Next]_vars

-----------------------------------------------------------------------------
(* Properties.                                                             *)

\* Samples are counted exactly while a transmission is open, and then its
\* file is open under the name that will be listed.  end_transmission relies
\* on this when it closes the file, and stop_recording when it decides from
\* the sample count alone whether anything is open.
SamplesHaveAFile ==
  /\ d_sample_count > 0 <=> state = "RECORDING"
  /\ d_sample_count > 0 => d_fp = current_filename /\ d_fp # NoFile

\* The sink is AVAILABLE exactly when it has no call, and is then left with
\* nothing a new call could inherit: no samples and no pending terminator.
\* STOPPED, which dowork sets when it finds no call, is never reached.
AvailableIsClean ==
  /\ state # "STOPPED"
  /\ state = "AVAILABLE" <=> d_current_call = NoCall
  /\ state = "AVAILABLE" => d_sample_count = 0 /\ ~d_termination_flag

\* The list a call gets holds its own transmissions only, although the sink
\* keeps the list of the previous call until it is lent again.
ListIsOfCall ==
  d_current_call # NoCall =>
    \A i \in DOMAIN transmission_list :
      transmission_list[i].filename.talkgroup = TalkgroupOf[d_current_call]

\* Once another talkgroup was heard on the channel, dowork drops what it
\* carries (IGNORE) until a terminator that came after that talkgroup, or
\* until the call is taken away.  The one exception: a group id that follows
\* a terminator in its own buffer, because dowork looks at the flag after
\* all tags and takes that older terminator for the end of the foreign
\* speech.
IgnoredUntilTerminator == foreign = "heard" => state = "IGNORE"

\* The same without the exception, as CALL-HANDLING.md has it ("The Recorder
\* will notice the different Talkgroup and stop"): while another talkgroup
\* was heard and has not ended, nothing is recorded.
ForeignIsDropped == foreign # "none" => state # "RECORDING"

\* The sink does what SinkLifecycle promises: its state, its call and the
\* number of transmissions it has listed.
Lifecycle ==
  INSTANCE SinkLifecycle WITH
    phase <- state, owner <- d_current_call, closed <- Len(transmission_list)

ImplementsLifecycle == Lifecycle!Spec

=============================================================================
