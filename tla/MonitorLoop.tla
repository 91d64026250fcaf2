----------------------------- MODULE MonitorLoop -----------------------------
(***************************************************************************)
(* monitor_messages in main.cc: the main loop, which hands the messages of *)
(* the control channels to the systems, checks the message rates every     *)
(* CheckEvery seconds and then drops stale talkgroup patches.              *)
(*                                                                         *)
(* The loop turns about a hundred times a second, so that a check is never *)
(* a second late.  What a receiver decodes in a second is counted when the *)
(* second is over: Rate messages from a control channel that is heard      *)
(* well, fewer from one that fades, none from a frequency that no control  *)
(* channel is on.  How long ago the control channel last spoke of a patch  *)
(* is kept in a history of its own, announced, that knows nothing of the   *)
(* table and its checks.                                                   *)
(***************************************************************************)
EXTENDS ControlChannel, TalkgroupPatches

CONSTANTS
  P25,              \* the systems of type p25, which have patches
  Band,             \* [Systems -> SUBSET Frequencies]: where the control
                    \* channel of a system may be
  Off,              \* no control channel is on the air
  CheckEvery,       \* seconds between two checks, 3 in the code
  Rate              \* messages a second, at least 2

ASSUME LoopAssumption ==
  /\ P25 \subseteq Systems
  /\ Band \in [Systems -> SUBSET Frequencies]
  /\ Off \notin Frequencies
  /\ CheckEvery \in Nat \ {0}
  /\ Rate \in Nat /\ Rate >= 2

VARIABLES
  talkgroup_patches, \* the patches of each system
  on_air,           \* the frequency each system's control channel is on
  clear,            \* the systems whose control channel is heard well
  since_check,      \* seconds since the last check
  announced         \* history: seconds since a talkgroup was last announced
                    \* for a patch, LongAgo if it was cancelled since

vars == <<controlVars, talkgroup_patches, on_air, clear, since_check, announced>>

\* Nothing announced that long ago may still be patched: the history stops
\* counting here.
LongAgo == StaleAge + CheckEvery

Announcements == [Supergroups -> [Talkgroups -> 0..LongAgo]]

TypeOK ==
  /\ ControlTypeOK
  /\ talkgroup_patches \in [Systems -> PatchTables]
  /\ on_air \in [Systems -> Frequencies \cup {Off}]
  /\ clear \subseteq Systems
  /\ since_check \in 0..CheckEvery
  /\ announced \in [Systems -> Announcements]

Init ==
  /\ ControlInit
  /\ talkgroup_patches = [s \in Systems |-> NoPatches]
  /\ on_air = [s \in Systems |-> Off]
  /\ clear = Systems
  /\ since_check = 0
  /\ announced =
       [s \in Systems |-> [sg \in Supergroups |-> [t \in Talkgroups |-> LongAgo]]]

Running == ~exit_flag

\* The receiver of s is on its control channel.
Tuned(s) == control[s].freq = on_air[s]

-----------------------------------------------------------------------------
(* The radio.                                                              *)

\* The system moves its control channel, or takes it off the air.
MoveControlChannel(s, f) ==
  /\ Running
  /\ f # on_air[s]
  /\ on_air' = [on_air EXCEPT ![s] = f]
  /\ UNCHANGED <<controlVars, talkgroup_patches, clear, since_check, announced>>

Fade(s) ==
  /\ Running
  /\ clear' = IF s \in clear THEN clear \ {s} ELSE clear \cup {s}
  /\ UNCHANGED <<controlVars, talkgroup_patches, on_air, since_check, announced>>

\* How many messages of s the loop may count in one second.
Decodes(s) ==
  IF ~Tuned(s) THEN {0} ELSE IF s \in clear THEN {Rate} ELSE 0..Rate

\* What was announced becomes older.
Receding(heard) ==
  [sg \in Supergroups |-> [t \in Talkgroups |->
     IF heard[sg][t] < LongAgo THEN heard[sg][t] + 1 ELSE LongAgo]]

\* A second goes by: message_count grows and the patches get older.
Second ==
  /\ Running
  /\ since_check < CheckEvery
  /\ since_check' = since_check + 1
  /\ \E n \in [Systems -> 0..Rate] :
       /\ \A s \in Systems : n[s] \in Decodes(s)
       /\ control' = [s \in Systems |->
            [control[s] EXCEPT !.message_count = @ + n[s]]]
  /\ talkgroup_patches' = [s \in Systems |-> Aged(talkgroup_patches[s])]
  /\ announced' = [s \in Systems |-> Receding(announced[s])]
  /\ UNCHANGED <<exit_flag, exit_failure, silent, untried, on_air, clear>>

-----------------------------------------------------------------------------
(* handle_message.                                                         *)

\* CONTROL_CHANNEL.
ControlChannelMessage(s, f) ==
  /\ Running
  /\ s \in P25
  /\ Tuned(s)
  /\ control' = [control EXCEPT ![s] = WithChannel(control[s], f)]
  /\ UNCHANGED <<exit_flag, exit_failure, silent, untried, talkgroup_patches,
                 on_air, clear, since_check, announced>>

\* The history of s after a message about members of the patch of sg.
Told(s, sg, members, age) ==
  [announced EXCEPT ![s][sg] =
     [t \in Talkgroups |-> IF t \in members THEN age ELSE announced[s][sg][t]]]

\* PATCH_ADD.
PatchAdd(s, sg, ga) ==
  /\ Running
  /\ s \in P25
  /\ Tuned(s)
  /\ talkgroup_patches' = [talkgroup_patches EXCEPT ![s] =
       update_active_talkgroup_patches(talkgroup_patches[s], sg, ga)]
  /\ announced' = Told(s, sg, ga \cup {sg}, 0)
  /\ UNCHANGED <<controlVars, on_air, clear, since_check>>

\* PATCH_DELETE.
PatchDelete(s, sg, ga) ==
  /\ Running
  /\ s \in P25
  /\ Tuned(s)
  /\ talkgroup_patches' = [talkgroup_patches EXCEPT ![s] =
       delete_talkgroup_patch(talkgroup_patches[s], sg, ga)]
  /\ announced' = Told(s, sg, ga, LongAgo)
  /\ UNCHANGED <<controlVars, on_air, clear, since_check>>

\* check_message_count and clear_stale_talkgroup_patches in one turn of the
\* loop.
Check ==
  /\ Running
  /\ since_check = CheckEvery
  /\ check_message_count(since_check)
  /\ talkgroup_patches' = [s \in Systems |->
       IF s \in P25 THEN clear_stale_talkgroup_patches(talkgroup_patches[s])
       ELSE talkgroup_patches[s]]
  /\ since_check' = 0
  /\ UNCHANGED <<on_air, clear, announced>>

\* A signal ends the program.
Interrupt ==
  /\ Running
  /\ exit_flag' = TRUE
  /\ UNCHANGED <<control, exit_failure, silent, untried, talkgroup_patches,
                 on_air, clear, since_check, announced>>

-----------------------------------------------------------------------------

\* A Motorola message adds up to three talkgroups to a supergroup, a Harris
\* message adds or deletes one.  Nothing keeps a message from naming the
\* supergroup itself.
Patchable == SUBSET Talkgroups \ {{}}

Radio ==
  \E s \in Systems :
    Fade(s) \/ \E f \in Band[s] \cup {Off} : MoveControlChannel(s, f)

Messages ==
  \E s \in Systems :
    \/ \E f \in Band[s] : ControlChannelMessage(s, f)
    \/ \E sg \in Supergroups :
         \/ \E ga \in Patchable : PatchAdd(s, sg, ga)
         \/ \E t \in Talkgroups : PatchDelete(s, sg, {t})

Next == Radio \/ Messages \/ Second \/ Check \/ Interrupt

\* Time goes by and the loop turns; nothing is promised of the radio.
Spec == Init /\ [][Next]_vars /\ WF_vars(Second) /\ WF_vars(Check)

-----------------------------------------------------------------------------
(* Properties.                                                             *)

\* The receiver is always on a frequency of the list, at a source that
\* covers it, and on the channel the list says unless no source covers
\* that one.
ReceiverFollowsList ==
  \A s \in Systems :
    LET k == control[s] IN
      /\ k.current \in DOMAIN k.channels
      /\ k.freq \in Listed(k) \cap Covers[k.source]
      /\ FirstSource[k.channels[k.current]] # NoSource =>
           k.freq = k.channels[k.current]

\* It was this system that ended the program.
GaveUp(s) == exit_failure /\ silent[s] > RetuneLimit

\* The program gives up only when a system was below the rate in more checks
\* in a row than the limit, and has by then listened to every channel it had
\* when that began, if the limit allows for them all.
GivesUpLast ==
  exit_failure =>
    \E s \in Systems :
      /\ RetuneLimit > 0
      /\ GaveUp(s)
      /\ Len(control[s].channels) <= RetuneLimit + 1 => untried[s] = {}

\* Neither sooner nor later than the control channel says: what was announced
\* less than StaleAge seconds ago and not cancelled since is in its patch, and
\* what is in it was not cancelled, nor announced more than StaleAge seconds
\* before the last check.
PatchesAreAsAnnounced ==
  \A s \in P25, sg \in Supergroups, t \in Talkgroups :
    /\ announced[s][sg][t] < StaleAge => Patched(talkgroup_patches[s], sg, t)
    /\ Patched(talkgroup_patches[s], sg, t) =>
         announced[s][sg][t] < StaleAge + since_check

\* A patch never loses its supergroup before a member, unless a message
\* cancels the supergroup by name: a grant for the supergroup finds the
\* members for as long as they find it.
SupergroupOutlives ==
  \A s \in P25, sg \in Supergroups, t \in Talkgroups :
    Patched(talkgroup_patches[s], sg, t) =>
      \/ Patched(talkgroup_patches[s], sg, sg)
      \/ announced[s][sg][sg] = LongAgo

\* controlRetuneLimit "should be at least equal to the number of channels
\* defined in order for all to be attempted": with such a limit the program
\* does not give up a system whose control channel stays, heard well, on a
\* frequency of its list that a source covers.  The receiver gets there.
Findable(s, f) ==
  /\ on_air[s] = f
  /\ s \in clear
  /\ f \in Listed(control[s])
  /\ FirstSource[f] # NoSource

AllAreAttempted(s) ==
  /\ control[s].retune_attempts = 0
  /\ RetuneLimit = 0 \/ Len(control[s].channels) <= RetuneLimit

FindsControlChannel ==
  \A s \in Systems : \A f \in Band[s] :
    []((AllAreAttempted(s) /\ []Findable(s, f)) =>
         <>(control[s].freq = f \/ (exit_flag /\ ~GaveUp(s))))

=============================================================================
