--------------------------- MODULE CallConcluder ---------------------------
(***************************************************************************)
(* call_concluder/call_concluder.cc: what happens to the recording of a    *)
(* call when the call is over, with plugman_call_end and stop_plugins of   *)
(* plugin_manager.cc and the end of main.                                  *)
(*                                                                         *)
(* The main thread concludes calls, collects the futures of the workers    *)
(* and restarts those that are to be retried.  A worker is a thread of its *)
(* own (std::async): it combines the transmissions into one file, converts *)
(* it, hands the call to one plugin after the other and then removes or    *)
(* archives the transmission files.                                        *)
(*                                                                         *)
(* A file is its name: temp and capture are the transmission files in the  *)
(* temporary and in the capture directory, audio the combined files.  The  *)
(* JSON file and the converted file are left out (no branch depends on     *)
(* them: create_call_json never returns less than 0), and so is the upload *)
(* script, whose result is not used.  A Call_Data_t is copied by value; of *)
(* its fields only the retry counter, the retry time and the status change *)
(* after create_call_data, so that a worker carries just these.            *)
(***************************************************************************)
EXTENDS Integers, Sequences, FiniteSetsExt

CONSTANTS
  Calls,
  Names,               \* names of transmission files
  Recordings,          \* the transmission lists a call can be concluded with
  PluginCount,         \* plugins are 1..PluginCount, in the order of loading
  Broken,              \* the plugins whose start() failed
  Results,             \* what a plugin's call_end returns, 0 for success
  audio_archive, transmission_archive, compress_wav,
  min_tx_duration, min_duration,
  Jitter,              \* what rand() % 10 adds to a backoff, in seconds
  ExitSignal           \* whether SIGINT may arrive

MAX_RETRY == 2

Plugins == 1..PluginCount
Transmissions == [name : Names, length : Nat]

ASSUME ConcluderAssumption ==
  /\ Recordings \subseteq Seq(Transmissions)
  /\ PluginCount \in Nat
  /\ Broken \subseteq Plugins
  /\ Results \subseteq Int
  /\ Jitter \subseteq Nat
  /\ {audio_archive, transmission_archive, compress_wav, ExitSignal}
       \subseteq BOOLEAN

VARIABLES
  main,                \* where the main thread is
  recorded,            \* the transmissions each call was concluded with
  call_data_workers,   \* the futures, by what their worker is doing
  retry_call_list,
  plugin,              \* the state of each plugin
  temp, capture, audio,
  now,                 \* time(0), in seconds
  fate,                \* history: what became of a call
  tries,               \* history: how often a worker was started for it
  accepted             \* history: the plugins that took it

files == <<temp, capture, audio>>
jobs == <<call_data_workers, retry_call_list>>
history == <<fate, tries, accepted>>
vars == <<main, recorded, jobs, plugin, files, now, history>>

Fates == {"recording", "trying", "discarded", "delivered", "failed", "dropped"}

Workers ==
  [call : Calls, retry_attempt : Nat, at : {"convert", "plugins"},
   next : Nat \ {0}, error : Int]
    \cup [call : Calls, retry_attempt : Nat, at : {"ready"},
          status : {"SUCCESS", "RETRY", "FAILED", "EXCEPTION"}]

Retries == [call : Calls, retry_attempt : Nat, process_call_time : Int]

MainStates == [at : {"loop", "exit", "gone", "terminated"}]
                \cup [at : {"stopping"}, next : Nat \ {0}]

TypeOK ==
  /\ main \in MainStates
  /\ recorded \in [Calls -> Seq(Transmissions)]
  /\ call_data_workers \subseteq Workers
  /\ retry_call_list \subseteq Retries
  /\ plugin \in [Plugins -> {"RUNNING", "FAILED", "STOPPED"}]
  /\ temp \in [Calls -> SUBSET Names]
  /\ capture \in [Calls -> SUBSET Names]
  /\ audio \subseteq Calls
  /\ now \in Int
  /\ fate \in [Calls -> Fates]
  /\ tries \in [Calls -> Nat]
  /\ accepted \in [Calls -> SUBSET Plugins]

\* start_plugins has run.
Init ==
  /\ main = [at |-> "loop"]
  /\ recorded = [c \in Calls |-> <<>>]
  /\ call_data_workers = {}
  /\ retry_call_list = {}
  /\ plugin = [p \in Plugins |-> IF p \in Broken THEN "FAILED" ELSE "RUNNING"]
  /\ temp = [c \in Calls |-> {}]
  /\ capture = [c \in Calls |-> {}]
  /\ audio = {}
  /\ now = 0
  /\ fate = [c \in Calls |-> "recording"]
  /\ tries = [c \in Calls |-> 0]
  /\ accepted = [c \in Calls |-> {}]

-----------------------------------------------------------------------------
(* The transmissions of a call.                                            *)

\* The positions in the list that create_call_data keeps.
Kept(list) == {i \in DOMAIN list : list[i].length >= min_tx_duration}
NamesAt(list, positions) == {list[i].name : i \in positions}
Listed(list) == NamesAt(list, Kept(list))

\* The files it leaves: short transmissions are removed, but left where they
\* are when transmissions are archived.
LeftByCreate(list) ==
  NamesAt(list, DOMAIN list)
    \ (IF transmission_archive THEN {} ELSE NamesAt(list, DOMAIN list \ Kept(list)))

call_length(list) == MapThenSumSet(LAMBDA i : list[i].length, Kept(list))

\* Mutant: the test of audioArchive is inverted.
ArchivesInverted == ~audio_archive /\ transmission_archive

\* remove_call_files copies each transmission file that exists into the
\* capture directory.  copy_file throws when the target exists, as it does
\* when the list names a file twice; the files are then not removed.
Archives == audio_archive /\ transmission_archive

RepeatedBy(list, present, k) ==
  \E i, j \in Kept(list) : /\ i < j
                           /\ j <= k
                           /\ list[i].name = list[j].name
                           /\ list[i].name \in present

CopyThrows(list, present) ==
  Archives /\ \E k \in Kept(list) : RepeatedBy(list, present, k)

CopiedFiles(list, present) ==
  IF Archives
  THEN present \cap
         NamesAt(list, {k \in Kept(list) : ~RepeatedBy(list, present, k)})
  ELSE {}

\* What is left of the present files afterwards.
FilesAfter(list, present) ==
  IF CopyThrows(list, present) THEN present ELSE present \ Listed(list)

\* remove_call_files on call c with these transmissions.
remove_call_files(c, list, present) ==
  /\ temp' = [temp EXCEPT ![c] = FilesAfter(list, present)]
  /\ capture' = [capture EXCEPT ![c] = @ \cup CopiedFiles(list, present)]
  /\ audio' = IF audio_archive THEN audio ELSE audio \ {c}

-----------------------------------------------------------------------------
(* The main thread.                                                        *)

FirstTry(c) ==
  [call |-> c, retry_attempt |-> 0, at |-> "convert", next |-> 1, error |-> 0]

\* Mutant: a repetition starts over.
RetryFromStart(r) ==
  [call |-> r.call, retry_attempt |-> r.retry_attempt, at |-> "convert",
   next |-> 1, error |-> 0]

Retry(r) ==
  [call |-> r.call, retry_attempt |-> r.retry_attempt, at |-> "plugins",
   next |-> 1, error |-> 0]

InLoop == main.at = "loop"
Running == main.at \in {"loop", "exit"}

Superseded(c, list) ==
  /\ InLoop
  /\ fate' = [fate EXCEPT ![c] = "discarded"]
  /\ remove_call_files(c, list, LeftByCreate(list))
  /\ main' = IF CopyThrows(list, LeftByCreate(list))
             THEN [at |-> "terminated"] ELSE main
  /\ UNCHANGED <<call_data_workers, tries>>

NoTransmissions(c, list) ==
  /\ Kept(list) = {}
  /\ fate' = [fate EXCEPT ![c] = "discarded"]
  /\ temp' = [temp EXCEPT ![c] = LeftByCreate(list)]
  /\ UNCHANGED <<main, capture, audio, call_data_workers, tries>>

TooShort(c, list) ==
  /\ Kept(list) # {}
  /\ call_length(list) <= min_duration
  /\ fate' = [fate EXCEPT ![c] = "discarded"]
  /\ remove_call_files(c, list, LeftByCreate(list))
  /\ main' = IF CopyThrows(list, LeftByCreate(list))
             THEN [at |-> "terminated"] ELSE main
  /\ UNCHANGED <<call_data_workers, tries>>

StartWorker(c, list) ==
  /\ Kept(list) # {}
  /\ call_length(list) > min_duration
  /\ fate' = [fate EXCEPT ![c] = "trying"]
  /\ tries' = [tries EXCEPT ![c] = 1]
  /\ temp' = [temp EXCEPT ![c] = LeftByCreate(list)]
  /\ call_data_workers' = call_data_workers \cup {FirstTry(c)}
  /\ UNCHANGED <<main, capture, audio>>

\* A call ends with the files of its transmissions in the temporary directory.
conclude_call(c, list) ==
  /\ Running
  /\ fate[c] = "recording"
  /\ recorded' = [recorded EXCEPT ![c] = list]
  /\ \/ Superseded(c, list)
     \/ NoTransmissions(c, list)
     \/ TooShort(c, list)
     \/ StartWorker(c, list)
  /\ UNCHANGED <<retry_call_list, plugin, now, accepted>>

\* 2 ^ retry_attempt * 60 is 2 XOR (retry_attempt * 60).
Backoff(retry_attempt) ==
  LET seconds == 60 * retry_attempt
  IN  IF seconds % 4 < 2 THEN seconds + 2 ELSE seconds - 2

Ready == {w \in call_data_workers : w.at = "ready"}

\* Mutant: the counter is tested before it is incremented.
GivesUpLate(w) == w.retry_attempt > MAX_RETRY

GivesUp(w) == w.retry_attempt + 1 > MAX_RETRY
Retried(ready) == {w \in ready : w.status = "RETRY" /\ ~GivesUp(w)}

NextRetry(w, jitter) ==
  [call |-> w.call, retry_attempt |-> w.retry_attempt + 1,
   process_call_time |-> now + Backoff(w.retry_attempt + 1) + jitter]

FateOf(w) ==
  CASE w.status = "SUCCESS" -> "delivered"
    [] w.status = "FAILED" -> "failed"
    [] w.status = "RETRY" /\ GivesUp(w) -> "dropped"
    [] OTHER -> "trying"

\* Mutant: what is restarted stays on the list.
RestartAndKeep(list) ==
  LET due == {r \in list : r.process_call_time <= now}
  IN  /\ retry_call_list' = list
      /\ call_data_workers' = (call_data_workers \ Ready)
                                \cup {Retry(r) : r \in due}
      /\ tries' = [c \in Calls |-> IF \E r \in due : r.call = c
                                   THEN tries[c] + 1 ELSE tries[c]]

\* Restart those on the list whose time has come.
RestartDue(list) ==
  LET due == {r \in list : r.process_call_time <= now}
  IN  /\ retry_call_list' = list \ due
      /\ call_data_workers' = (call_data_workers \ Ready)
                                \cup {Retry(r) : r \in due}
      /\ tries' = [c \in Calls |-> IF \E r \in due : r.call = c
                                   THEN tries[c] + 1 ELSE tries[c]]

\* The pass over the futures takes those whose worker has ended.  A worker
\* that ends during the pass, behind the iterator, is taken by the next one.
manage_call_data_workers ==
  /\ InLoop
  /\ \A w \in Ready : w.status # "EXCEPTION"
  /\ \/ Ready # {}
     \/ \E r \in retry_call_list : r.process_call_time <= now
  /\ \E jitter \in [Retried(Ready) -> Jitter] :
       RestartDue(retry_call_list
                    \cup {NextRetry(w, jitter[w]) : w \in Retried(Ready)})
  /\ fate' = [c \in Calls |->
                IF \E w \in Ready : w.call = c
                THEN FateOf(CHOOSE w \in Ready : w.call = c)
                ELSE fate[c]]
  /\ UNCHANGED <<main, recorded, plugin, files, now, accepted>>

\* it->get() throws the worker's exception; nothing catches it.
TerminatedByException ==
  /\ InLoop
  /\ \E w \in Ready : w.status = "EXCEPTION"
  /\ main' = [at |-> "terminated"]
  /\ UNCHANGED <<recorded, jobs, plugin, files, now, history>>

\* Time passes until a retry is due.
Wait ==
  /\ InLoop
  /\ \E r \in retry_call_list : /\ r.process_call_time > now
                                /\ now' = r.process_call_time
  /\ UNCHANGED <<main, recorded, jobs, plugin, files, history>>

-----------------------------------------------------------------------------
(* upload_call_worker.                                                     *)

\* The process is there, and the future's worker becomes w2.
Proceed(w, w2) ==
  /\ main.at \notin {"gone", "terminated"}
  /\ call_data_workers' = (call_data_workers \ {w}) \cup {w2}

Ended(w, status) ==
  [call |-> w.call, retry_attempt |-> w.retry_attempt, at |-> "ready",
   status |-> status]

\* The result of combine_wav is not looked at.  Where there is no combined
\* file there is nothing to convert.
ConvertMedia(w, combined, converted) ==
  /\ w.at = "convert"
  /\ converted => combined
  /\ audio' = IF combined THEN audio \cup {w.call} ELSE audio
  /\ Proceed(w, IF compress_wav /\ ~converted THEN Ended(w, "FAILED")
                ELSE [w EXCEPT !.at = "plugins"])
  /\ UNCHANGED <<main, recorded, retry_call_list, plugin, temp, capture, now,
                 history>>

\* plugman_call_end: one plugin after the other, if it is running.
CallEnd(w, result) ==
  /\ w.at = "plugins"
  /\ w.next <= PluginCount
  /\ plugin[w.next] = "RUNNING"
  /\ Proceed(w, [w EXCEPT !.next = @ + 1, !.error = @ + result])
  /\ accepted' = IF result = 0
                 THEN [accepted EXCEPT ![w.call] = @ \cup {w.next}]
                 ELSE accepted
  /\ UNCHANGED <<main, recorded, retry_call_list, plugin, files, now, fate,
                 tries>>

SkipPlugin(w) ==
  /\ w.at = "plugins"
  /\ w.next <= PluginCount
  /\ plugin[w.next] # "RUNNING"
  /\ Proceed(w, [w EXCEPT !.next = @ + 1])
  /\ UNCHANGED <<main, recorded, retry_call_list, plugin, files, now, history>>

\* Mutants: the last plugin is not waited for; the end of the list is missed.
PluginsAlmostDone(w) == w.at = "plugins" /\ w.next >= PluginCount
PluginsDoneAtLast(w) == w.at = "plugins" /\ w.next = PluginCount

PluginsDone(w) == w.at = "plugins" /\ w.next > PluginCount

WorkerSucceeds(w) ==
  LET list == recorded[w.call]
      present == temp[w.call]
  IN  /\ PluginsDone(w)
      /\ w.error = 0
      /\ remove_call_files(w.call, list, present)
      /\ Proceed(w, Ended(w, IF CopyThrows(list, present) THEN "EXCEPTION"
                             ELSE "SUCCESS"))
      /\ UNCHANGED <<main, recorded, retry_call_list, plugin, now, history>>

WorkerRetries(w) ==
  /\ PluginsDone(w)
  /\ w.error # 0
  /\ Proceed(w, Ended(w, "RETRY"))
  /\ UNCHANGED <<main, recorded, retry_call_list, plugin, files, now, history>>

-----------------------------------------------------------------------------
(* Exit.  monitor_messages concludes the calls, sleeps for five seconds    *)
(* and returns; main stops the plugins; the futures' destructors wait for  *)
(* the workers that still run.                                             *)

Exit ==
  /\ ExitSignal
  /\ InLoop
  /\ main' = [at |-> "exit"]
  /\ UNCHANGED <<recorded, jobs, plugin, files, now, history>>

ExitSlept ==
  /\ main.at = "exit"
  /\ main' = [at |-> "stopping", next |-> 1]
  /\ UNCHANGED <<recorded, jobs, plugin, files, now, history>>

\* One turn of the loop of stop_plugins.
StopPlugin(stopped) ==
  /\ main.at = "stopping"
  /\ main.next <= PluginCount
  /\ plugin' = [plugin EXCEPT ![main.next] =
                  IF @ = "RUNNING" /\ ~stopped THEN "FAILED" ELSE "STOPPED"]
  /\ main' = [main EXCEPT !.next = @ + 1]
  /\ UNCHANGED <<recorded, jobs, files, now, history>>

Gone ==
  /\ main.at = "stopping"
  /\ main.next > PluginCount
  /\ call_data_workers = Ready
  /\ main' = [at |-> "gone"]
  /\ UNCHANGED <<recorded, jobs, plugin, files, now, history>>

-----------------------------------------------------------------------------

Work(w) ==
  \/ \E combined, converted \in BOOLEAN : ConvertMedia(w, combined, converted)
  \/ \E result \in Results : CallEnd(w, result)
  \/ SkipPlugin(w)
  \/ WorkerSucceeds(w)
  \/ WorkerRetries(w)

Next ==
  \/ \E c \in Calls, list \in Recordings : conclude_call(c, list)
  \/ manage_call_data_workers
  \/ TerminatedByException
  \/ Wait
  \/ \E w \in call_data_workers : Work(w)
  \/ Exit
  \/ ExitSlept
  \/ \E stopped \in BOOLEAN : StopPlugin(stopped)
  \/ Gone

Spec == Init /\ [][Next]_vars

\* monitor_messages calls manage_call_data_workers every second, time passes
\* and the threads of the workers run.  That a command or an upload returns at
\* all is assumed of sox, fdkaac and the plugins.
LiveSpec ==
  /\ Spec
  /\ WF_vars(manage_call_data_workers \/ TerminatedByException)
  /\ WF_vars(Wait)
  /\ \A c \in Calls :
       WF_vars(\E w \in call_data_workers : w.call = c /\ Work(w))

-----------------------------------------------------------------------------
(* Properties.                                                             *)

\* No call is ever with two workers, or with a worker and on the retry list,
\* and none gets lost between them: a call that is being tried is in exactly
\* one of the two places, and a call that is done is in neither.
OneJobPerCall ==
  /\ \A v, w \in call_data_workers : v.call = w.call => v = w
  /\ \A q, r \in retry_call_list : q.call = r.call => q = r
  /\ \A w \in call_data_workers, r \in retry_call_list : w.call # r.call
  /\ \A c \in Calls :
       fate[c] = "trying" <=> \/ \E w \in call_data_workers : w.call = c
                              \/ \E r \in retry_call_list : r.call = c

\* A worker is started for a call at most once and MAX_RETRY times more, and
\* a call is dropped only after all of these.
TriesAreBounded ==
  \A c \in Calls : /\ tries[c] <= MAX_RETRY + 1
                   /\ fate[c] = "dropped" => tries[c] = MAX_RETRY + 1

\* As long as no plugin is being stopped, the transmission files of a call
\* that is being tried are removed only when every plugin that was started
\* has taken the call: a plugin that failed keeps them for the next try.
RemovalFollowsUpload ==
  [][\A c \in Calls :
       /\ fate[c] = "trying"
       /\ main.at # "stopping"
       /\ ~(temp[c] \subseteq temp'[c])
       => Plugins \ Broken \subseteq accepted[c]]_vars

\* When the transmission files of a call that was tried are gone, its audio
\* is not: with audioArchive the combined file is there, and with
\* transmissionArchive the copies of the transmissions.  This holds with
\* compressWav, which turns a call that could not be combined into a failed
\* one, and where no short transmission shares the file of a longer one.
ArchiveKeepsAudio ==
  \A c \in Calls :
    /\ audio_archive
    /\ tries[c] > 0
    /\ ~(Listed(recorded[c]) \subseteq temp[c])
    => /\ c \in audio
       /\ transmission_archive => Listed(recorded[c]) \subseteq capture[c]

\* How far a call has got as CallDelivery sees it: what its worker does, or
\* its result says, before that is looked at.
StageOf(w) ==
  CASE w.at = "convert" -> "combining"
    [] w.at = "plugins" -> "offered"
    [] w.at = "ready" /\ w.status = "RETRY" -> "refused"
    [] w.at = "ready" /\ w.status = "FAILED" -> "unusable"
    [] OTHER -> "taken"

HasWorker(c) == \E w \in call_data_workers : w.call = c
WorkerOf(c) == CHOOSE w \in call_data_workers : w.call = c

StageOfCall(c) ==
  IF HasWorker(c) THEN StageOf(WorkerOf(c))
  ELSE IF \E r \in retry_call_list : r.call = c THEN "waiting"
  ELSE fate[c]

AskedOf(w) == IF w.at = "ready" THEN 0 ELSE w.next - 1

Delivery(c) ==
  INSTANCE CallDelivery WITH
    stage <- StageOfCall(c), tries <- tries[c],
    asked <- IF HasWorker(c) THEN AskedOf(WorkerOf(c)) ELSE 0,
    MaxRetry <- MAX_RETRY

\* Whatever the threads of other calls do, every call is delivered as
\* CallDelivery promises: a plugin that refuses does not keep it from the
\* next one, a repetition asks all plugins again but combines nothing again
\* and is not begun at once, no try is lost or counted twice, and a call that
\* is settled never comes back.
ImplementsDelivery ==
  /\ \A c \in Calls : Delivery(c)!Init
  /\ [][\A c \in Calls :
          [Delivery(c)!Next]_(Delivery(c)!deliveryVars)]_vars

\* A worker's result never waits for ever and no call is retried for ever:
\* unless the program ends, every call that is being tried is settled.
EveryCallIsSettled ==
  \A c \in Calls : fate[c] = "trying" ~> fate[c] # "trying" \/ ~InLoop

=============================================================================
