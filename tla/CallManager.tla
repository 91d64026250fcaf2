---------------------------- MODULE CallManager ----------------------------
(***************************************************************************)
(* Trunked calls: main.cc (handle_call_grant, handle_call_update,          *)
(* start_recorder, manage_calls and the exit branch of monitor_messages)   *)
(* with call_impl.cc, the recorder pools of source.cc and the start and    *)
(* stop of the recorders.                                                  *)
(*                                                                         *)
(* The main thread handles one control channel message or one call of      *)
(* manage_calls per step.  The sink of every recorder is a GNU Radio       *)
(* thread of its own: it opens and closes transmissions between any two    *)
(* steps of the main thread, as SinkLifecycle allows.  Within a message    *)
(* the main thread asks a sink only whether it is AVAILABLE, which only    *)
(* the main thread changes, so that a message is one step.                 *)
(*                                                                         *)
(* A channel stands for a frequency with its TDMA slot.  Times are ages in *)
(* seconds, which stop counting once they are past the call timeout.       *)
(***************************************************************************)
EXTENDS Integers, FiniteSets

CONSTANTS
  Calls, NoCall,         \* Call objects, and NULL
  Recorders, NoRecorder, \* the trunking recorders, and NULL
  Analog,                \* those of them that are analog
  AuxRecorders,          \* debug and SigMF recorders
  Sources, NoSource,
  SourceOf,              \* [Recorders \cup AuxRecorders -> Sources]
  KindOf,                \* [AuxRecorders -> {"debug", "sigmf"}]
  Channels,
  Phase2,                \* the channels that are a slot of a TDMA carrier
  FirstSource            \* [Channels -> Sources \cup {NoSource}]: the first
                         \* source whose range holds the frequency

CONSTANTS
  Systems, Talkgroups,
  Known,                 \* the talkgroups of the talkgroup file
  AnalogMode,            \* talkgroups for analog recorders
  EncryptedMode,         \* talkgroups of mode E, TE or DE
  RecordUnknown,         \* systems with recordUnknown
  Priority,              \* [Talkgroups -> Int]
  PatchedWith            \* [Talkgroups -> SUBSET Talkgroups]: those a patch
                         \* may be tying it to when a grant arrives

CONSTANTS
  P25,                   \* systems of type p25; SmartNet has no STATUS, SYSID
  MultiSite,             \* systems with multiSite
  SystemName,            \* [Systems -> ...] multiSiteSystemName, "" if unset
  SystemNumber,          \* [Systems -> Nat] multiSiteSystemNumber, 0 if unset
  Wacn, Nac, Site,       \* [Systems -> Nat \ {0}]: what a system broadcasts
  PreferredNAC           \* [Systems -> [Talkgroups -> Nat]], 0 if unset

CONSTANTS
  Timeout,               \* config.call_timeout, in seconds
  MaxClosed              \* bound: transmissions of a call

ASSUME CallAssumption ==
  /\ NoCall \notin Calls
  /\ NoRecorder \notin Recorders
  /\ Analog \subseteq Recorders
  /\ IsFiniteSet(Recorders)
  /\ FirstSource \in [Channels -> Sources \cup {NoSource}]
  /\ NoSource \notin Sources
  /\ SourceOf \in [Recorders \cup AuxRecorders -> Sources]
  /\ KindOf \in [AuxRecorders -> {"debug", "sigmf"}]
  /\ Priority \in [Talkgroups -> Int]
  /\ PatchedWith \in [Talkgroups -> SUBSET Talkgroups]
  /\ Timeout \in Nat
  /\ MaxClosed \in Nat

VARIABLES
  call,        \* the live Call objects: a record, or Free
  sink,        \* the sink of each recorder and the age of its last write
  active,      \* the recorders that are ACTIVE
  aux,         \* the debug and SigMF recorders that are ACTIVE
  decoded,     \* the STATUS and SYSID messages decoded so far
  main,        \* what the main loop is doing
  due          \* a second has passed since manage_calls last ran

vars == <<call, sink, active, aux, decoded, main, due>>

Ages == 0..(Timeout + 1)

\* Mutant: ages do not stop counting.
OlderForEver(age) == age + 1

Older(age) == IF age > Timeout THEN age ELSE age + 1

Free == [state |-> "FREE"]
NotHanded == -1

Reasons == {"UNSPECIFIED", "UNKNOWN_TG", "IGNORED_TG", "NO_SOURCE",
            "NO_RECORDER", "ENCRYPTED", "DUPLICATE", "SUPERSEDED"}

CallRecords ==
  [state : {"MONITORING", "RECORDING"},
   monitoringState : Reasons,
   sys : Systems, talkgroup : Talkgroups, channel : Channels,
   recorder : Recorders \cup {NoRecorder},
   aux : SUBSET AuxRecorders,
   since_update : Ages,
   opened : Nat,              \* history: transmissions its sink opened
   handed : Nat \cup {NotHanded}]   \* history: transmissions it concluded with

SinkRecords ==
  [phase : {"AVAILABLE", "IDLE", "RECORDING", "IGNORE"},
   owner : Calls \cup {NoCall},
   closed : Nat,
   since_write : Ages]

MainStates ==
  [at : {"loop", "exited"}]
    \cup [at : {"manage", "exit"}, left : SUBSET Calls]
    \cup [at : {"conclude", "erase"}, call : Calls, left : SUBSET Calls,
          exiting : BOOLEAN]

TypeOK ==
  /\ call \in [Calls -> CallRecords \cup {Free}]
  /\ sink \in [Recorders -> SinkRecords]
  /\ active \subseteq Recorders
  /\ aux \subseteq AuxRecorders
  /\ decoded \in [Systems -> SUBSET {"STATUS", "SYSID"}]
  /\ main \in MainStates
  /\ due \in BOOLEAN

live == {c \in Calls : call[c] # Free}
InLoop == main.at = "loop"

Init ==
  /\ call = [c \in Calls |-> Free]
  /\ sink = [r \in Recorders |-> [phase |-> "AVAILABLE", owner |-> NoCall,
                                  closed |-> 0, since_write |-> Timeout + 1]]
  /\ active = {}
  /\ aux = {}
  /\ decoded = [s \in Systems |-> {}]
  /\ main = [at |-> "loop"]
  /\ due = FALSE

-----------------------------------------------------------------------------
(* Recorders.                                                              *)

\* Mutant: the list of the call before is kept.
LentWithList(r, c) ==
  [phase |-> "IDLE", owner |-> c, closed |-> sink[r].closed, since_write |-> 0]

\* recorder->start(call): the sink is lent.  The sink's last write time
\* starts anew, but an analog recorder reads the stop time of the
\* transmission before, which start_recording leaves alone.
LentSink(r, c) ==
  [phase |-> "IDLE", owner |-> c, closed |-> 0,
   since_write |-> IF r \in Analog THEN sink[r].since_write ELSE 0]

\* Mutant: what is open when the recorder is stopped is dropped.
ClosedBeforeStop(r) == sink[r].closed

\* recorder->stop(): stop_recording closes what is open.
ClosedAtStop(r) ==
  IF sink[r].phase = "RECORDING" THEN sink[r].closed + 1 ELSE sink[r].closed

\* Mutants: stop forgets the call pointer, or the state.
ReturnedWithCall(r) ==
  [sink[r] EXCEPT !.phase = "AVAILABLE", !.closed = ClosedAtStop(r)]
ReturnedIdle(r) ==
  [sink[r] EXCEPT !.phase = "IDLE", !.owner = NoCall,
                  !.closed = ClosedAtStop(r)]

ReturnedSink(r) ==
  [sink[r] EXCEPT !.phase = "AVAILABLE", !.owner = NoCall,
                  !.closed = ClosedAtStop(r)]

\* Mutant: the call is not concluded.
NotConcluded(rec) == rec

\* conclude_call: stop the recorder, take its transmissions, stop the debug
\* and SigMF recorders, hand the call to the Call_Concluder.  stop() of a
\* recorder that is not ACTIVE only logs.
Concluded(rec) ==
  [rec EXCEPT !.handed =
     IF rec.recorder \in active THEN ClosedAtStop(rec.recorder)
     ELSE sink[rec.recorder].closed]

-----------------------------------------------------------------------------
(* start_recorder.                                                         *)

Message == [sys : Systems, talkgroup : Talkgroups, channel : Channels,
            encrypted : BOOLEAN]

\* The recorders of the right kind at the source that covers the channel
\* whose sink is AVAILABLE.
Available(m) ==
  {r \in Recorders : /\ SourceOf[r] = FirstSource[m.channel]
                     /\ r \in Analog <=> m.talkgroup \in AnalogMode
                     /\ sink[r].phase = "AVAILABLE"}

\* The priority of the talkgroup, or that of a more important one it is
\* patched with.
EffectivePriorities(t) ==
  {Priority[t]} \cup
    {Priority[u] : u \in {v \in PatchedWith[t] \cap Known :
                            Priority[v] < Priority[t]}}

\* Why a call is only monitored, in the order of the tests; "" when there
\* is a recorder to start.
Refusal(m, priority) ==
  CASE m.talkgroup \notin Known /\ m.sys \notin RecordUnknown -> "UNKNOWN_TG"
    [] m.encrypted \/ m.talkgroup \in EncryptedMode -> "ENCRYPTED"
    [] FirstSource[m.channel] = NoSource -> "NO_SOURCE"
    [] m.talkgroup \in Known /\ priority = -1 -> "IGNORED_TG"
    [] m.talkgroup \in Known /\ priority > Cardinality(Available(m)) ->
         "NO_RECORDER"
    [] Available(m) = {} -> "UNSPECIFIED"
    [] OTHER -> ""

\* p25_recorder_impl::start refuses when the recorder is ACTIVE, and a
\* Phase 2 call when the system is FSK4 or has no XOR mask yet; an analog
\* recorder always starts.
MayRefuse(r, m) == r \notin Analog /\ (r \in active \/ m.channel \in Phase2)
MustRefuse(r) == r \notin Analog /\ r \in active

\* Mutant: a debug recorder need not be idle to join in.
AuxNotIdle(m) ==
  {{x \in AuxRecorders : SourceOf[x] = FirstSource[m.channel]}}

\* At most one idle debug and one idle SigMF recorder of the source join in.
AuxChoices(m) ==
  LET idle(kind) == {x \in AuxRecorders \ aux :
                       /\ KindOf[x] = kind
                       /\ SourceOf[x] = FirstSource[m.channel]}
  IN  {joined \in SUBSET (idle("debug") \cup idle("sigmf")) :
         \A kind \in {"debug", "sigmf"} :
           Cardinality(joined \cap idle(kind)) =
             IF idle(kind) = {} THEN 0 ELSE 1}

NewCall(m) ==
  [state |-> "MONITORING", monitoringState |-> "UNSPECIFIED",
   sys |-> m.sys, talkgroup |-> m.talkgroup, channel |-> m.channel,
   recorder |-> NoRecorder, aux |-> {}, since_update |-> 0,
   opened |-> 0, handed |-> NotHanded]

\* The new call c is only monitored.
Monitor(c, m, reason) ==
  /\ call' = [call EXCEPT ![c] = [NewCall(m) EXCEPT !.monitoringState = reason]]
  /\ UNCHANGED <<sink, active, aux>>

StartRefused(c, m) ==
  \/ \E p \in EffectivePriorities(m.talkgroup) :
       Refusal(m, p) # "" /\ Monitor(c, m, Refusal(m, p))
  \/ \E p \in EffectivePriorities(m.talkgroup), r \in Available(m) :
       Refusal(m, p) = "" /\ MayRefuse(r, m) /\ Monitor(c, m, "UNSPECIFIED")

\* What the start of recorder r for c requires, and the record c then has.
Startable(m, r) ==
  /\ r \in Available(m)
  /\ ~MustRefuse(r)
  /\ \E p \in EffectivePriorities(m.talkgroup) : Refusal(m, p) = ""

RecordedCall(m, r, joined) ==
  [NewCall(m) EXCEPT !.state = "RECORDING", !.recorder = r, !.aux = joined]

StartNew(c, m) ==
  \E r \in Recorders :
    /\ Startable(m, r)
    /\ \E joined \in AuxChoices(m) :
         /\ call' = [call EXCEPT ![c] = RecordedCall(m, r, joined)]
         /\ aux' = aux \cup joined
    /\ sink' = [sink EXCEPT ![r] = LentSink(r, c)]
    /\ active' = active \cup {r}

-----------------------------------------------------------------------------
(* Multiple sites of one system.                                           *)

\* What a system has decoded of its identity; all of it is 0 at the start.
wacn(s) == IF "STATUS" \in decoded[s] THEN Wacn[s] ELSE 0
nac(s)  == IF "STATUS" \in decoded[s] THEN Nac[s] ELSE 0
rfss_site(s) == IF "SYSID" \in decoded[s] THEN Site[s] ELSE 0

SameSystemName(s, t) == SystemName[s] # "" /\ SystemName[s] = SystemName[t]

\* A call the recorder is busy with on system o carries what a grant for the
\* same talkgroup on system s announces.
SameTraffic(o, s) ==
  /\ o # s
  /\ {o, s} \subseteq MultiSite
  /\ wacn(o) = wacn(s)
  /\ \/ SystemName[o] = "" /\ rfss_site(o) # rfss_site(s)
     \/ SameSystemName(o, s)

\* The preferred NAC of the talkgroup names s and does not name o.
Prefers(t, s, o) ==
  IF SystemName[o] = "" /\ rfss_site(o) # rfss_site(s)
  THEN \/ PreferredNAC[o][t] # nac(o) /\ PreferredNAC[s][t] = nac(s)
       \/ PreferredNAC[o][t] # rfss_site(o) /\ PreferredNAC[s][t] = rfss_site(s)
  ELSE /\ SystemNumber[o] # 0
       /\ SystemNumber[s] # 0
       /\ PreferredNAC[o][t] # SystemNumber[o]
       /\ PreferredNAC[s][t] = SystemNumber[s]

\* The calls handle_call_grant takes for the original of a duplicate grant.
Originals(m) ==
  {c \in live : /\ call[c].state = "RECORDING"
                /\ call[c].talkgroup = m.talkgroup
                /\ SameTraffic(call[c].sys, m.sys)}

Superseding(m) ==
  \E c \in Originals(m) : Prefers(m.talkgroup, m.sys, call[c].sys)

-----------------------------------------------------------------------------
(* The control channel.                                                    *)

\* The calls that m is about.
Matching(m) ==
  {c \in live : /\ call[c].sys = m.sys
                /\ call[c].talkgroup = m.talkgroup
                /\ call[c].channel = m.channel}

\* call->update: last_update is now.
Refresh(m) ==
  call' = [c \in Calls |-> IF c \in Matching(m)
                           THEN [call[c] EXCEPT !.since_update = 0]
                           ELSE call[c]]

\* UPDATE and UU_V_UPDATE.
handle_call_update(m) ==
  /\ InLoop
  /\ Matching(m) # {}
  /\ Refresh(m)
  /\ UNCHANGED <<sink, active, aux, decoded, main, due>>

\* GRANT and UU_V_GRANT, and UPDATE with newCallFromUpdate: four cases.
GrantKnown(m) ==
  /\ InLoop
  /\ Matching(m) # {}
  /\ Refresh(m)
  /\ UNCHANGED <<sink, active, aux, decoded, main, due>>

GrantNew(m) ==
  /\ InLoop
  /\ Matching(m) = {}
  /\ Originals(m) = {}
  /\ \E c \in Calls \ live : StartNew(c, m) \/ StartRefused(c, m)
  /\ UNCHANGED <<decoded, main, due>>

GrantDuplicate(m) ==
  /\ InLoop
  /\ Matching(m) = {}
  /\ Originals(m) # {}
  /\ ~Superseding(m)
  /\ \E c \in Calls \ live : Monitor(c, m, "DUPLICATE")
  /\ UNCHANGED <<decoded, main, due>>

\* The new call c takes over from the original o: its recorder is started
\* first, and only then is o concluded.
Supersede(c, m, o) ==
  \E r \in Recorders :
    /\ Startable(m, r)
    /\ \E joined \in AuxChoices(m) :
         /\ call' = [call EXCEPT
              ![c] = RecordedCall(m, r, joined),
              ![o] = [Concluded(call[o]) EXCEPT
                        !.state = "MONITORING",
                        !.monitoringState = "SUPERSEDED"]]
         /\ aux' = (aux \cup joined) \ call[o].aux
    /\ sink' = [sink EXCEPT ![r] = LentSink(r, c),
                            ![call[o].recorder] = ReturnedSink(call[o].recorder)]
    /\ active' = (active \cup {r}) \ {call[o].recorder}

\* original_call is the last of the originals in the calls vector.  The order
\* of the vector is not kept: it is any of them.
GrantSuperseding(m) ==
  /\ InLoop
  /\ Matching(m) = {}
  /\ Superseding(m)
  /\ \E c \in Calls \ live :
       \/ \E o \in Originals(m) : Supersede(c, m, o)
       \/ StartRefused(c, m)
  /\ UNCHANGED <<decoded, main, due>>

\* update_status and update_sysid keep the first identity they get.  It
\* matters to systems with multiSite only.
DecodeIdentity(s, kind) ==
  /\ InLoop
  /\ s \in P25 \cap MultiSite
  /\ decoded' = [decoded EXCEPT ![s] = @ \cup {kind}]
  /\ UNCHANGED <<call, sink, active, aux, main, due>>

-----------------------------------------------------------------------------
(* manage_calls, once a second.                                            *)

\* manage_calls visits every call; the vector's order is not kept.
InManage(c) == main.at = "manage" /\ c \in main.left
Skip(c) == main' = [main EXCEPT !.left = @ \ {c}]

\* Mutant: the call is erased right away.
DecideToErase(c) ==
  /\ main' = [at |-> "erase", call |-> c, left |-> main.left \ {c},
              exiting |-> main.at = "exit"]
  /\ UNCHANGED <<call, sink, active, aux, decoded, due>>

\* It has decided to conclude c.
Decide(c) ==
  /\ main' = [at |-> "conclude", call |-> c, left |-> main.left \ {c},
              exiting |-> main.at = "exit"]
  /\ UNCHANGED <<call, sink, active, aux, decoded, due>>

\* conclude_call for a call that is RECORDING; the caller erases it next.
ConcludeCall ==
  /\ main.at = "conclude"
  /\ LET c == main.call
         r == call[c].recorder
     IN  /\ call' = [call EXCEPT ![c] = Concluded(@)]
         /\ sink' = IF r \in active
                    THEN [sink EXCEPT ![r] = ReturnedSink(r)]
                    ELSE sink
         /\ active' = active \ {r}
         /\ aux' = aux \ call[c].aux
  /\ main' = [main EXCEPT !.at = "erase"]
  /\ UNCHANGED <<decoded, due>>

\* calls.erase and delete.
EraseCall ==
  /\ main.at = "erase"
  /\ call' = [call EXCEPT ![main.call] = Free]
  /\ main' = [at |-> IF main.exiting THEN "exit" ELSE "manage",
              left |-> main.left]
  /\ UNCHANGED <<sink, active, aux, decoded, due>>

ManageBegin ==
  /\ InLoop
  /\ due
  /\ due' = FALSE
  /\ main' = [at |-> "manage", left |-> live]
  /\ UNCHANGED <<call, sink, active, aux, decoded>>

ManageEnd ==
  /\ main.at = "manage"
  /\ main.left = {}
  /\ main' = [at |-> "loop"]
  /\ UNCHANGED <<call, sink, active, aux, decoded, due>>

\* A monitored call the control channel no longer mentions is deleted.
MonitoringTimeout(c) ==
  /\ InManage(c)
  /\ call[c].state = "MONITORING"
  /\ call[c].since_update > Timeout
  /\ call' = [call EXCEPT ![c] = Free]
  /\ Skip(c)
  /\ UNCHANGED <<sink, active, aux, decoded, due>>

\* Mutant: only a recorder that is IDLE is quiet.
IdleAndQuiet(c) ==
  /\ call[c].state = "RECORDING"
  /\ call[c].since_update > Timeout
  /\ sink[call[c].recorder].since_write > Timeout
  /\ sink[call[c].recorder].phase = "IDLE"

\* A recorded call that neither the control channel nor the recorder has
\* heard of for the timeout is concluded and deleted.
RecordingQuiet(c) ==
  /\ call[c].state = "RECORDING"
  /\ call[c].since_update > Timeout
  /\ sink[call[c].recorder].since_write > Timeout

RecordingTimeout(c) ==
  /\ InManage(c)
  /\ RecordingQuiet(c)
  /\ Decide(c)

KeepCall(c) ==
  /\ InManage(c)
  /\ ~RecordingQuiet(c)
  /\ ~(call[c].state = "MONITORING" /\ call[c].since_update > Timeout)
  /\ Skip(c)
  /\ UNCHANGED <<call, sink, active, aux, decoded, due>>

-----------------------------------------------------------------------------
(* Exit: every call is concluded and deleted.                              *)

ExitBegin ==
  /\ InLoop
  /\ main' = [at |-> "exit", left |-> live]
  /\ UNCHANGED <<call, sink, active, aux, decoded, due>>

ExitRecording(c) ==
  /\ main.at = "exit"
  /\ c \in main.left
  /\ call[c].state # "MONITORING"
  /\ Decide(c)

ExitMonitoring(c) ==
  /\ main.at = "exit"
  /\ c \in main.left
  /\ call[c].state = "MONITORING"
  /\ call' = [call EXCEPT ![c] = Free]
  /\ Skip(c)
  /\ UNCHANGED <<sink, active, aux, decoded, due>>

ExitEnd ==
  /\ main.at = "exit"
  /\ main.left = {}
  /\ main' = [at |-> "exited"]
  /\ UNCHANGED <<call, sink, active, aux, decoded, due>>

-----------------------------------------------------------------------------
(* The sinks, and the clock.                                               *)

\* Samples reach the sink of r: they open a transmission or add to it.
SinkWrite(r) ==
  /\ \/ sink[r].phase = "RECORDING"
     \/ sink[r].phase = "IDLE" /\ sink[r].closed < MaxClosed
  /\ sink' = [sink EXCEPT ![r].phase = "RECORDING", ![r].since_write = 0]
  /\ call' = IF sink[r].phase = "IDLE"
             THEN [call EXCEPT ![sink[r].owner].opened = @ + 1]
             ELSE call
  /\ UNCHANGED <<active, aux, decoded, main, due>>

\* A terminator, or the group id of another talkgroup.
SinkEnd(r, next) ==
  /\ \/ sink[r].phase = "RECORDING"
     \/ sink[r].phase = "IDLE" /\ next = "IGNORE"
     \/ sink[r].phase = "IGNORE" /\ next = "IDLE"
  /\ sink' = [sink EXCEPT ![r].phase = next, ![r].closed = ClosedAtStop(r)]
  /\ UNCHANGED <<call, active, aux, decoded, main, due>>

\* One second.
Tick ==
  /\ call' = [c \in Calls |->
                IF c \in live
                THEN [call[c] EXCEPT !.since_update = Older(@)]
                ELSE call[c]]
  /\ sink' = [r \in Recorders |-> [sink[r] EXCEPT !.since_write = Older(@)]]
  /\ due' = TRUE
  /\ UNCHANGED <<active, aux, decoded, main>>

-----------------------------------------------------------------------------

Grant(m) == \/ GrantKnown(m)
            \/ GrantNew(m)
            \/ GrantDuplicate(m)
            \/ GrantSuperseding(m)

Manage == \/ ManageBegin
          \/ \E c \in Calls : \/ MonitoringTimeout(c)
                              \/ RecordingTimeout(c)
                              \/ KeepCall(c)
          \/ ManageEnd

Finish == ConcludeCall \/ EraseCall

Exit == \/ \E c \in Calls : ExitRecording(c) \/ ExitMonitoring(c)
        \/ ExitEnd

Sink == \E r \in Recorders :
          SinkWrite(r) \/ \E next \in {"IDLE", "IGNORE"} : SinkEnd(r, next)

Next ==
  \/ \E m \in Message : Grant(m) \/ handle_call_update(m)
  \/ \E s \in Systems, kind \in {"STATUS", "SYSID"} : DecodeIdentity(s, kind)
  \/ Manage
  \/ ExitBegin
  \/ Exit
  \/ Finish
  \/ Sink
  \/ Tick

Spec == Init /\ [][Next]_vars

\* The main loop keeps going and the clock keeps ticking.  monitor_messages
\* drains the message queues before it manages the calls: a control channel
\* is slow enough for the drain to end.  Nobody has to exit, and samples need
\* not come.
LiveSpec == Spec /\ WF_vars(Manage \/ Exit \/ Finish) /\ WF_vars(Tick)

-----------------------------------------------------------------------------
(* Properties.                                                             *)

\* The call a recorder's sink is lent to is the one that still counts on it:
\* a live call that is RECORDING with this recorder and has not been
\* concluded.  No other call is, so two calls never share a recorder and no
\* sink writes for a call that was deleted.
Counting(c, r) ==
  /\ call[c].state = "RECORDING"
  /\ call[c].recorder = r
  /\ call[c].handed = NotHanded

RecorderIsExclusive ==
  \A r \in Recorders : \A c \in Calls :
    sink[r].owner = c <=> c \in live /\ Counting(c, r)

\* A recorder is ACTIVE exactly while its sink is lent: start never refuses a
\* recorder that was found AVAILABLE, and stop always gives the sink back.
ActiveIffLent ==
  \A r \in Recorders : r \in active <=> sink[r].phase # "AVAILABLE"

\* A debug or SigMF recorder that is ACTIVE records along with exactly one
\* call that is not concluded, and every one that such a call has is ACTIVE.
AuxIsExclusive ==
  \A x \in AuxRecorders :
    /\ x \in aux => \E c \in live : x \in call[c].aux /\ call[c].handed = NotHanded
    /\ \A c, d \in live :
         /\ x \in call[c].aux /\ call[c].handed = NotHanded => x \in aux
         /\ /\ x \in call[c].aux \cap call[d].aux
            /\ call[c].handed = NotHanded
            /\ call[d].handed = NotHanded
            => c = d

\* Every transmission the sink opened for a call, the one that was open when
\* the call was concluded included, is in the list the call is concluded with.
NothingLost ==
  \A c \in live : call[c].handed # NotHanded => call[c].handed = call[c].opened

\* A call that ever had a recorder is concluded once, before it is deleted,
\* and no more samples are recorded for it afterwards.
ConcludedOnce ==
  [][\A c \in live :
       /\ call[c].handed # NotHanded =>
            call'[c] = Free \/ /\ call'[c].handed = call[c].handed
                               /\ call'[c].opened = call[c].opened
       /\ call'[c] = Free /\ call[c].recorder # NoRecorder =>
            call[c].handed # NotHanded]_vars

\* When a talkgroup is being recorded at one site, a grant at another site
\* only starts a recorder if the recording at a site it supersedes is
\* concluded in the same step.
OneSiteRecords ==
  [][\A c \in Calls :
       LET started == call'[c]
       IN  /\ call[c] = Free
           /\ started # Free
           /\ started.state = "RECORDING"
           /\ Originals(started) # {}
           => \E o \in Originals(started) :
                /\ call'[o].state = "MONITORING"
                /\ call'[o].handed # NotHanded
                /\ sink'[call[o].recorder].owner = NoCall]_vars

\* Every sink does what SinkLifecycle promises, whichever calls and threads
\* drive it.
Lifecycle(r) ==
  INSTANCE SinkLifecycle WITH phase <- sink[r].phase, owner <- sink[r].owner,
                              closed <- sink[r].closed

SinksKeepLifecycle ==
  /\ \A r \in Recorders : Lifecycle(r)!Init
  /\ [][\A r \in Recorders :
          [Lifecycle(r)!Next]_(Lifecycle(r)!sinkVars)]_vars

\* The control channel or a voice channel was heard of.
Heard ==
  \/ \E c \in Calls : /\ call'[c] # Free
                      /\ \/ call[c] = Free
                         \/ call'[c].since_update < call[c].since_update
  \/ \E r \in Recorders : sink'[r].since_write < sink[r].since_write

\* When everything falls silent, every call ends and every recorder comes
\* back: no order of timeouts and sink states leaves one behind.
QuietChannelsAreReleased ==
  <>[][~Heard]_vars =>
    <>[](live = {} /\ active = {} /\ aux = {}
         /\ \A r \in Recorders : sink[r].phase = "AVAILABLE")

=============================================================================
