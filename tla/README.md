# Trunk Recorder in TLA+

A verification project for Trunk Recorder: TLA+ modules translated from the code
in `src/trunk-recorder`, TLC configurations that check them on small instances,
and proofs, checked by TLAPS, that the main properties hold for every instance.
`PROJECT.json` maps every definition to the lines it models and lists the runs,
the mutants, the hazards and the findings. All paths below are relative to
`src/`.

1. [Inventory](#1-inventory)
2. [Modules and their correspondence to the code](#2-modules-and-their-correspondence-to-the-code)
3. [Runs](#3-runs)
4. [Proofs](#4-proofs)
5. [What the code does not do](#5-what-the-code-does-not-do)
6. [What is not modelled](#6-what-is-not-modelled)
7. [Plan](#7-plan)

## 1. Inventory

### How the system works

Trunk Recorder listens to the control channel of a radio system and to the
voice channels it announces. Three kinds of threads do the work:

- the **main thread**: `monitor_messages` (`main.cc:858`) drains the message
  queues of the control channels, handles each message, once a second manages
  the calls and the workers of the concluder, and every three seconds checks the
  decode rates;
- the **GNU Radio scheduler threads**: they run the flow graph, at whose ends
  the transmission sinks write voice samples into wav files;
- the **concluder's workers**: one `std::async` thread per finished call, which
  runs `sox` and `fdkaac`, uploads and tidies up.

Nothing is persisted apart from the audio files: after a crash there is nothing
to recover.

### Components

| Component | State | Operations | Talks to |
|---|---|---|---|
| Transmission sink (`gr_blocks/transmission_sink.cc`) | its state, current call, open file, sample count, list of closed transmissions, pending terminator, unit id | main thread: `start_recording`, `stop_recording`, `set_source`; scheduler: `work` | lent to a call by a recorder; the call copies its list |
| Call manager (`main.cc`, `call_impl.cc`, `source.cc`) | the vector of calls, each call's state, recorder and last update; the pools of recorders | `handle_call_grant`, `handle_call_update`, `start_recorder`, `manage_calls`, `conclude_call`, exit | starts and stops recorders; hands finished calls to the concluder |
| Call concluder (`call_concluder.cc`) | futures, retry list, the files | `conclude_call`, `manage_call_data_workers`, `upload_call_worker`, `remove_call_files` | calls the plugins from its workers |
| Plugin manager (`plugin_manager.cc`) | the state of each plugin | initialise, start, stop, one callback per event | called by all of the above, from three kinds of threads |
| Recorders (`recorders/*.cc`) | ACTIVE or INACTIVE, the call, the decoder in use | `start`, `stop`, `since_last_write` | own one or two transmission sinks |
| Conventional calls (`main.cc:282`, `call_conventional.cc`) | an idle count per channel | `manage_conventional_call`, `restart_call` | keep one recorder for ever |
| Control channel supervision (`main.cc:754-856`) | the list of control channels, retune attempts, message counts | `check_message_count`, `retune_system` | may end the program |
| Talkgroup patches (`system_impl.cc:534-634`) | talkgroups and times per patch | update, delete, expire | raise the priority of a grant |
| System identity (`system_impl.cc:124-157`) | WACN, NAC, RFSS, site | `update_status`, `update_sysid` | Multi-Site, XOR mask of Phase 2 |
| SmartNet parser (`smartnet_parser.cc`) | a sliding stack of words, a count of words to skip | `parse_message` | one parser for the queues of all systems |
| P25 parser (`p25_parser.cc`) | a table of channel identifiers per system | `parse_message` | one parser for all P25 systems; its messages become grants, control channels and patches |
| Configuration, CSV files, demodulators, decoders, uploaders | | | |

### What is hard, and what makes each component correct

**Transmission sink.** The main thread and a scheduler thread share it under a
mutex that two of its operations do not take. The terminator, the group id and
the unit id of a transmission arrive as tags that are handled before the samples
they belong to. Opening a file may fail. It is correct when samples are counted
only while a file is open, a foreign talkgroup is ignored until its own terminator
(with one exception: 5.4), the list holds all transmissions of its call and no
others, and giving the sink back leaves nothing behind for the next call.

**Call manager.** The state that says a recorder is free lives in its sink, the
state that lets it start lives in the recorder, and both change together only if
every path treats them alike: timeouts, refused starts, a superseding grant of
another site, the exit. The sinks go on recording between any two steps. It is
correct when two calls never share a recorder, none is lost to the pool, every
transmission that was opened reaches the concluder, once, and silence ends every
call.

**Call concluder.** Calls move between futures, worker threads and the retry
list; plugins and tools fail; the exit stops the plugins while workers run;
files are removed at the end. It is correct when every call is at one place at a
time, is tried a bounded number of times and is settled, and when audio is
removed only after it was delivered and is kept where the configuration says so.

**Conventional calls.** Nothing announces these: one call object and one recorder
serve a channel for ever, and the main thread cuts the stream into recordings by
looking at it once a second. Splitting stops and starts the sinks one after the
other while samples arrive. It is correct when every transmission goes into exactly
one recording, the channel is never left without a started recorder, the count of
idle looks belongs to the sound it follows, and quiet or long recordings are split.

**Control channel supervision.** A check every three seconds, a list of control
channels that grows while it is walked, receivers that belong to sources, a count of
attempts and a limit that ends the program. It is correct when list, receiver and
source agree, when the program gives up only for a system that was silent in more
checks in a row than the limit and after every channel was tried, and when a
control channel that can be heard is found.

**Talkgroup patches.** Announcements, cancellations and the expiry come in any
order. A patch is correct when it holds what was announced lately and not
cancelled, nothing older than the age limit and one round of checks, and no
member without its supergroup unless that was cancelled by name.

**SmartNet parser.** A message has one to three words, of which any may be lost on
the air, and only the later words tell how long it is. It is correct when every
word is read once and in order, when no call is swallowed by a message before it
or made up from parts of others, and when it finds back to whole messages after a
loss, each for the system that sent it.

**P25 parser.** A call names its channel by an identifier that is explained in
blocks of its own, and all systems go through one parser. It is correct when a call
is reported on the carrier and in the slot its own site means, or without a
frequency, whatever was lost, and when no call whose identifier was heard is dropped.

The complete list of hazards, each at its line and with the properties that would
catch it, is in `PROJECT.json`.

## 2. Modules and their correspondence to the code

```
the air
  |  SmartnetChannel                                                  SmartnetChannelProofs
  |     --> SmartnetParser --implements--> WordStream                 SmartnetParserProofs
  |  P25Parser                                                        P25ParserProofs
  v
control channels that are announced, patches, grants
  |                     |
  |                     v
  |  MonitorLoop = ControlChannel + TalkgroupPatches                  MonitorLoopProofs
  v
CallManager ---- one SinkLifecycle per recorder                       CallManagerProofs
ConventionalCalls -- one SinkLifecycle per slot                       ConventionalCallsProofs
  |                     SinkLifecycle <--implements-- TransmissionSink TransmissionSinkProofs
  v
a call with its list of transmissions
  |
  v
CallConcluder --implements, for every call--> CallDelivery            CallConcluderProofs
```

Each of the modules `MC...` gives the constants of one of these for TLC.

### SinkLifecycle and TransmissionSink

`SinkLifecycle` is what a sink promises: it is lent to a call, opens and closes
transmissions, may ignore the channel for a while, and is given back.
`TransmissionSink` is `transmission_sink.cc` line by line. Its variables carry the
names of the fields.

The mutex is `work.busy`. `start_recording`, `stop_recording` and the whole of
`work` hold it; `work` is split into `WorkBegin`, one step per tag and a step of
`dowork`, so that the two operations that do not take the mutex can fall in
between: the slot that `start_recording(call, slot)` stores first (`StoreSlot`)
and `set_source` (`SetSource`). A tag is a record, a wav file is its name, and a
name is a talkgroup, a start time and a slot: what else is in a name is fixed for
a call. A file may fail to open, or to take its header (`Outcomes`).

`foreign` is a history variable that goes by the order of the tags alone: the group id
of another talkgroup was heard since the last terminator, and whether a terminator
of the same buffer came before it. `dowork` sees the flag only, and not that order:
that is finding 5.4 and the exception that `IgnoredUntilTerminator` names.

| Action | Code |
|---|---|
| `StoreSlot`, `StartRecording` | `start_recording`, 107-148 |
| `StopRecording` | `stop_recording`, 262-276 |
| `SetSource` | `set_source`, 205-223 |
| `WorkBegin` | entry of `work`, 297-340; a sink without a call drops the buffer, which changes nothing |
| `GrpIdTag`, `SrcIdTag`, `TerminateTag` | the tag loop, 341-413 |
| `DoTerminate`, `DoIgnore`, `DoOpen`, `DoWrite` | the branches of `dowork`, 447-555 |

### CallManager

A message of the control channel, or one call of `manage_calls`, is one step of
the main thread. That is sound because within a message the main thread looks at
a sink only to see whether it is AVAILABLE, and only the main thread changes
that. Concluding a call is three steps (`RecordingTimeout` decides,
`ConcludeCall` concludes, `EraseCall` deletes), and the sinks run in between:
`SinkWrite` and `SinkEnd` are the transitions of `SinkLifecycle`, which the
property `SinksKeepLifecycle` checks.

A channel is a frequency with its TDMA slot. The priorities, the modes of the
talkgroups, the coverage of the sources, the patches and the identities of the
sites are constants, so that every test of `start_recorder` and of the Multi-Site
comparison in `handle_call_grant` is there. Times are ages: seconds since the
last update or write, which stop counting beyond the timeout because the code
compares them with nothing else. `opened` and `handed` are history variables:
the transmissions the sink opened for a call, and the number the call was
concluded with.

The order of the `calls` vector is not kept. `manage_calls` may visit the calls
in any order, and the original of a duplicate grant, the last one in the vector,
may be any of the candidates: the model allows more than the code does.

### CallConcluder and CallDelivery

The main thread's part is `conclude_call` (with `create_call_data`),
`manage_call_data_workers` and the end of `main`. A worker is a record in
`call_data_workers`, its future: it converts, walks through the plugins one by
one (`CallEnd`, `SkipPlugin`), and ends as `ready` with a status or an exception.
A file is its name, in the temporary directory, in the capture directory or as
the combined file. Time jumps from one due retry to the next.

Assumptions that are not visible in the module: the pass over the futures is one
step (a worker that ends behind the iterator is collected by the next pass), and
`fdkaac` fails when its input is missing. A worker reads the state of a plugin
while `stop_plugins` writes it, without a lock: the model lets the two fall in
any order.

The lists of transmissions a call can be concluded with (`Recordings`) are those
`TransmissionSink` can produce. A list may name a file twice (section 5), and so
does one element of `MCRecordings`.

`CallDelivery` is what all this amounts to for one call, without threads, lists and
files: it is combined once, offered to every plugin in turn, and offered again
after a pause for as long as it is refused and tries are left. The refinement mapping
(`StageOfCall`) looks for the call where the code keeps it: in its worker, whose
position or result tells the stage, otherwise in the retry list, otherwise in `fate`.
A worker that ended with an exception counts as taken, because the exception ends the
program and the call is not tried again. A call that waits cannot be offered again by the
pass of `manage_call_data_workers` that put it on the list.

| Action of `CallDelivery` | Step of `CallConcluder` |
|---|---|
| `Discard`, `Begin` | `conclude_call` without a worker, and with one |
| `Combine` | `ConvertMedia` of the worker |
| `Ask` | `CallEnd`, `SkipPlugin` |
| `Close` | `WorkerSucceeds`, `WorkerRetries` |
| `Postpone`, `Settle`, `Repeat` | `manage_call_data_workers`: a result is collected, a retry is due |

### SmartnetParser, WordStream and SmartnetChannel

`SmartnetParser` is `parse_message` with all it decides: the two bands, the three
800 MHz plans, single words, status messages and the messages that begin with a
first word. The fields of a message that `handle_message` skips are left out, and
so is the fifth word of the stack, which only the log shows. `taken` is a history
variable: the words a message was made of.

| Definition | Code (`smartnet_parser.cc`) |
|---|---|
| `getfreq`, `is_chan_outbound`, `is_chan_inbound_obt`, `is_first_normal` | 12-102 |
| `Shifted`, `Stacked` | the fall-through `switch`, 152-181 |
| `Skips` | `numConsumed`, 183-191 |
| `IsSingle`, `IsStatus`, `IsFirst`, `IsPair`, `IsTriple` | the order of the tests, 228-477 |
| `MessageOf` | the message each of them returns |

`WordStream` is what it promises: words wait until three more have come and are then
taken from the front, one to three at a time. The refinement mapping reads the
waiting words off the stack: those above the part that is still to be skipped.

`SmartnetChannel` puts it between the air and `monitor_messages`. Each system
sends messages of its own; any subset of the words of a message arrives, in order
(`Arrivals`, `Thinned`: `smartnet_decode.cc` drops words with a wrong CRC). A word
carries the message it belongs to if all of that arrives, for the properties only.
What a message is, is said by `MessageAssumption`, which TLC evaluates for the messages
of the runs: the parser that is given the words of the message alone reads exactly
these, and the first of them is no second or third word of any message. `MessagesAreReported` states how far the
parser resynchronises: a message that arrives whole is reported as what it is,
whatever was lost around it. The property itself names the one exception, an
update after a lone first word, which is reported as a grant with a foreign source.

### ConventionalCalls

`manage_conventional_call` is `Looking` and what follows it: `LookAtSilent` (nothing
was recorded yet, and a digital recorder is started by the first round),
`LookAtHeard` (the idle count), `Decide`, and then the split. `conclude_call` and
`restart_call` are steps of their own for every sink they touch (`StopSink`,
`HandOver`, `StartSink`, `StartDone`), because the sinks are GNU Radio threads that
go on between them. The exit walks through the same steps with `exiting` set.

| Action | Code |
|---|---|
| `Init` | `setup_convetional_channel`: analog recorders start at once |
| `Round`, `RoundDone` | `manage_calls`, once a second |
| `LookAtSilent`, `LookAtHeard`, `Decide` | `manage_conventional_call`, `main.cc:282-325` |
| `StopSink`, `HandOver` | `conclude_call` and `stop` of the recorder |
| `StartSink`, `StartDone` | `restart_call` and `start` of the recorder |
| `Exit`, `ExitCall`, `ExitDone` | the exit branch of `monitor_messages` |
| `Hear`, `EndOfTransmission`, `SquelchOpens`, `SquelchCloses` | the sinks and the squelch |

The squelch is only sampled at the looks, so that sound between two looks does not
reset the count: the model has that, since the squelch may change at any time.
Transmissions are numbered and `handed` is a history variable. `SinksKeepLifecycle`
maps a slot to a sink of `SinkLifecycle`: it is recording or waiting as its state
says, lent to the call that will get its list, and has closed as many transmissions as
that list is long. Only the steps are compared and not the initial states, because an
analog recorder is started, and its sink lent, when the channel is set up. One difference of
order has no effect on it: the code reads the length of the call before it stops
the recorder, the model does not keep that length.

### ControlChannel, TalkgroupPatches and MonitorLoop

`ControlChannel` is `check_message_count`, `retune_system` and the list of control
channels; `TalkgroupPatches` the three operations on the patches as operators on a
table; `MonitorLoop` the loop that calls both, with the radio that moves its control
channel, fades, announces channels and patches. Times are ages here too.
`check_message_count` returns at the first system that exceeds the limit, which
leaves the systems behind it with their counts (`Reached`). The module keeps that.

`silent`, `untried` and `announced` are history variables: how many checks in a row
were below the rate, what was not tried since, and how long ago the control channel
announced a talkgroup of a patch. The last one follows the messages and the clock only:
it knows of no checks, and stops counting at `LongAgo`, when any check must have been.
A cancellation may name any talkgroup, also the supergroup itself.

The loop is assumed to turn at least once a second, so that a check is not late; it
turns about a hundred times a second. Messages of the frequency before that are
still in the queue after a retune are left out. `P25Parser!OwnChannels` is what
allows the model to take announced control channels from `Band`, the channels of the
system itself.

### P25Parser

The tables of all systems, the identifier updates (with time slots, without, and the
VHF/UHF form) and every block that names a channel. `Plan` is what the sites really
use and `Uses` the channels they assign; `heard` is a history variable. A channel
is an identifier and a number; the frequency comes from the table, and is 0 when
the identifier was not heard. Three things the code does are worth knowing, and the
properties name them as exceptions:

- an update of two calls is told from one that repeats a call by its frequencies: the
  second of two calls in the slots of one carrier is dropped (`p25_parser.cc:400`, and
  448 for the update of a patch, which does not test for the channel 65535 either);
- an explicit update takes the frequency from the channel to the units and the slot
  from that of the units, which is -1 when that one is not known;
- a number of slots is looked up for a type of four bits in a list of six; only the
  types in that list are modelled, and carriers of four slots, whose slots the code
  counts modulo 2, are not assigned by the sites of the model.

## 3. Runs

All runs end within five minutes on two workers. Every property of a passing run has
a mutant: a bug in a definition that the property finds. The type invariants of
`CallConcluder`, `ConventionalCalls` and `P25Parser` are proved (section 4) and take
no part in the runs.

| Run | Instance | What it shows |
|---|---|---|
| `sink` | 3 calls (Phase 1, Phase 2, conventional), 2 talkgroups, buffers with up to 2 tags, 2 samples and 2 closed transmissions per call, 2 seconds; 168,000 states | the safety of the sink and that it implements `SinkLifecycle` |
| `sink_order` | the same | violated: see 5.4 |
| `calls` | 2 calls, a digital and an analog recorder, a debug and a SigMF recorder, 3 talkgroups that are patched, a Phase 2 channel and one that no source covers, timeout of one second; 793,000 states | recorders are exclusive and never leak, nothing is lost, calls are concluded once, and everything is released once the channels are silent |
| `calls_sites` | 3 calls, 3 recorders, 3 sites, one identified by RFSS and site and two by name and number; 1.85 million states | three recorders are not shared, and a second recording only begins when it supersedes one |
| `conclude` | 2 calls, 3 plugins of which one did not start, lists with short, long and repeated transmissions, exit at any time; 1.09 million states | one job per call, bounded tries, removal after upload, archives, that it implements `CallDelivery`, and that every call is settled |
| `conclude_exit` | 1 call | violated: see 5.2 |
| `smartnet` | an 800 MHz rebanded and a 400 MHz system, one at a time; seven kinds of messages, every loss; 845,000 states | words are taken once, whole messages are reported, no call is swallowed or made up |
| `smartnet_shared` | two 800 MHz systems | violated: see 5.3 |
| `conventional` | an analog and a DMR channel; 317,000 states | no transmission is lost or recorded twice, no channel is left, quiet and long recordings are split, the sinks keep to `SinkLifecycle` |
| `conventional_dmr` | the same | violated: see 5.1 |
| `supervision` | a P25 system with two configured and two announced control channels, two sources, a limit of 3, a supergroup with a member; 391,000 states | receiver and list agree, the program gives up last, a control channel that can be heard is found, patches come and go as announced |
| `p25` | two systems that give an identifier different meanings, one with carriers that two identifiers share; 4,700 states | calls are on the channels of their own site, none is lost |

### Bounds and why they are enough

- *Sink.* Two closed transmissions per call (`MaxClosed`) are one that stays in
  the list while another is closed. Two tags per buffer (`MaxTags`) give every ordered
  pair of tags. Two seconds (`MaxTime`) give transmissions within one second and
  in different ones. `MaxSamples` counts samples of an open transmission; only
  zero, and more than zero, differ.
- *Calls.* Liveness excludes symmetry, so that `calls` has two calls: for the digital
  recorder one that records and one that is refused or takes over when it comes back,
  and any of them may get the analog recorder or keep neither. One transmission (`MaxClosed`)
  suffices to lose one. A timeout of one second tells the two comparisons of ages apart,
  with both outcomes. In `calls_sites` three calls with a recorder each give an original
  that is another call than the one whose site was compared; there is no sound in it
  (`MaxClosed` of 0), as it asks who records and not what. What more calls and recorders
  could do is left to the proofs, which have any number of them. The sum of what the runs
  instantiate fires every action.
- *Concluder.* Calls only meet in the lists of futures and retries, so two are
  enough. Two working plugins are the least of which one fails and one does not; one
  value of the jitter is enough: retries are due in either order because the calls
  end in either order. `MAX_RETRY` is that of the code.
- *SmartNet.* Seven messages are one of every kind that the tests distinguish:
  group and individual update, grant, status, affiliation, system id, and a
  message of three words. The parser keeps four words, so that no word meets more
  than the last two messages before it; the state space is finite without any bound.
- *Conventional.* Channels only share the main thread, so that two, one of each
  kind, are enough. `MaxBegun` of two transmissions gives one before and one after
  a split; `MaxLength` of two seconds passes a `MaxDuration` of one; a `Timeout` of one
  needs two idle looks in a row.
- *Supervision.* A limit of 3 allows for three of the four channels, so that the list
  can be within the limit and beyond it. Every covered/uncovered, same/other
  source case of a retune is there. A rate of 2 messages a second is the threshold
  itself. `CheckEvery` of 2 and `StaleAge` of 3 are unequal and not multiples, like 3
  and 10 of the code. A supergroup and one more talkgroup are the two that differ. TLC
  has one system; the order of several is left to the proof.
- *P25.* The parser keeps nothing but its tables, so that one block after any
  history of identifier updates is every case.
- *Symmetry* (`Permutations(Calls)`) is used by `calls_sites`, which checks safety only;
  no property singles out a call.
- *Deadlock* is checked for the sink and the calls. It is switched off for the
  concluder, the conventional channels and the main loop, which really come to a
  stop: all calls settled, or the program gone. It is checked for the parsers.

### Fairness

- `CallManager!LiveSpec`: the main loop goes on (weak fairness of its steps
  together) and time passes. `monitor_messages` reads the queues without waiting
  and sleeps 10 ms a turn; that it gets to `manage_calls` at all assumes that
  messages come in more slowly than they are handled, which a control channel of
  a hundred words per second does not strain. Nothing is assumed of the radio: no
  sample, terminator or message need ever come, and nobody need exit.
- `CallConcluder!LiveSpec`: `manage_call_data_workers` is called every second,
  time passes, and each worker's thread runs. That `sox`, `fdkaac` and the
  plugins return is assumed: a hanging upload keeps its thread for ever.
- `ConventionalCalls!Spec`: the main thread goes on (`WF` of `Manage`). Samples,
  terminators and the squelch are free, and nobody need exit.
- `MonitorLoop!Spec`: seconds pass and the loop gets to its check. Nothing is assumed
  of the radio; `FindsControlChannel` speaks of a channel that stays on the air and is
  heard well from some time on, as long as the program is not ended otherwise.
- The parsers and the sink are checked for safety only.
- Three findings are violations of safety; the other, `conventional_dmr`, is temporal
  and is found under the fairness just named: the main thread keeps looking at the
  channel and never splits it.

## 4. Proofs

TLAPS checks every proof from the definitions on; no step is left out. The
constants are restricted only by the named assumptions of the modules
(`SinkAssumption`, `CallAssumption`, `ConcluderAssumption`, `ParserAssumption`,
`ConventionalAssumption`, `ControlAssumption`, `PatchAssumption`, `LoopAssumption`,
`PlanAssumption`, `ChannelAssumption`, `MessageAssumption`), which say what kinds of
values they are and, for the last one, what a SmartNet message is. Where a theorem needs
more of the constants, its statement says so and the table repeats it.

| Module | Proved of `Spec`, for all constants |
|---|---|
| `TransmissionSinkProofs` | `TypeOK`, `SamplesHaveAFile`, `AvailableIsClean`, `ListIsOfCall`, `IgnoredUntilTerminator`, and that it implements `SinkLifecycle` |
| `CallManagerProofs` | `TypeOK`, `RecorderIsExclusive`, `ActiveIffLent`, `AuxIsExclusive`, `NothingLost`, `ConcludedOnce`, `OneSiteRecords`, `SinksKeepLifecycle` |
| `CallConcluderProofs` | `TypeOK`, `OneJobPerCall`, `TriesAreBounded`, `TransmissionsAreArchived`, and that it implements `CallDelivery`; `RemovalFollowsUpload` if no plugin returns a negative number; `ArchiveKeepsAudio` with `compressWav`, if no transmission that is too short shares the file of one that is kept |
| `SmartnetParserProofs` | `TypeOK`, `CallsAreReported`, that it implements `WordStream`, and that a band plan at 800 MHz gives every channel a frequency of its own |
| `SmartnetChannelProofs` | `MessagesAreReported`, and that the words still to be read always hold whole messages whole (`MessagesAreNeverCut`), if each parser serves one system |
| `ConventionalCallsProofs` | `SinksKeepLifecycle`, `TypeOK`, `NothingLost`, `AlwaysListening`, `IdleCountFollowsSound` |
| `MonitorLoopProofs` | `TypeOK`, `ReceiverFollowsList`, `GivesUpLast`, `PatchesAreAsAnnounced`, `SupergroupOutlives` |
| `P25ParserProofs` | `TypeOK`, `OwnChannels`, `CallsAreReported` |

*Sink.* The inductive invariant `SinkInv` adds three things to the properties:
a busy `work` always has a call (`LockInv`), because the mutex keeps
`stop_recording` out; a RECORDING sink has its file open under the name that
it is listed with (`OpenFileInv`); and while foreign speech without a terminator is
ignored no terminator is pending that could end it (`ForeignInv`). Neither the state nor the sample count alone
determines the other without these. The refinement maps `phase` to `state`,
`owner` to `d_current_call` and `closed` to the length of the list; tags that only
change fields below that level are stutters.

*Calls.* `LeaseInv` ties a call to its recorder from both sides: the call counts
on the recorder exactly when the sink names it as owner, `active` agrees with the
sink, and `opened` equals the closed transmissions plus the open one for as long as
the call is not concluded. The last part is what carries `NothingLost` over the
steps of the sink. The proof goes along the ways in which a call can change
(added, deleted, lent, concluded, replaced), one lemma each, rather than along the
actions that use them. The main thread's position matters as well: the call that
is to be erased was concluded before.

*Concluder.* `JobInv` adds to `OneJobPerCall` that the counter carried by a worker
or a retry entry equals the history of tries minus one; the bound follows because
`GivesUp` tests it. `UploadInv` says of a worker without an error that every
running plugin it has passed took the call. It needs results that are not
negative, since otherwise a sum of 0 proves nothing (section 5, below the findings). It
also needs that no plugin is being stopped: finding 5.2.

`ArchiveInv` says that a call that will be tried again has what the next try needs: the
files of its transmissions, and the combined file once it was converted. So only the
worker that removes files can miss them afterwards, and it copies before it removes.
Two conditions are needed, and the statement carries both. Without `compressWav` the
failure to combine is not noticed; and `create_call_data` removes the file of a
transmission that is too short, which a longer one may have been written to as well
(`Unshared`; both in section 5). With `transmissionArchive` nothing is removed there,
so that `TransmissionsAreArchived` holds without a condition.

The refinement of `CallDelivery` rests on `JobInv`, for the call has one worker at most,
and on `TurnInv`: a worker is at the first plugin while it converts, and never passes
the end of the list by more than one. A step of one worker is shown to leave the stage of
every other call as it is (`DeliveryUntouched`). `manage_call_data_workers` collects
results and restarts retries in one pass, which is one step of `CallDelivery` for each
call and not two, since the pause before a retry is positive (`RetriesWait`).

*SmartNet.* `TypeOK` is inductive because it ties `numConsumed` to the number of
words there are: fewer than three, and exactly the missing ones are skipped. The
waiting words are a window on the stack; `AppendWindow` shows that shifting the
stack and skipping, or taking, is appending to that window after dropping words
from its front, which is the step of `WordStream`. `CallsAreReported` rests on the
ranges of the commands: the command of a second or third word is never a channel
in any band plan with an offset of at most 380, the number of inbound channels
that `smartnet_parser.h` allots.

*SmartNet messages.* The invariant (`Orderly`) is about the words that wait in the stack
followed by those on the air: a word whose message has arrived whole has all the others
around it, in their places. `OneMessageUncut` shows that whatever the parser takes from
the front of such a list, what is left is orderly again, by the kind of the first word:
a message that is whole is read as `MessageAssumption` says (`WholeFirst`), and a remnant
never takes the first word of another message for a second or third one
(`PartFirst`), with the exception the property names (`UpdateToGrant`). The theorems
need one system to a parser (`OneSystem`): with two the property is false, which is
finding 5.3.

*Conventional calls.* The properties are not inductive: while a recorder is being
stopped or started they say little. `StopInv` and `StartInv` say which sinks are
already done, and that those still to be started have handed everything over
(`Emptied`); without the latter, `Lent`, which forgets the list, could lose it.
`DeletedAtExit` is needed because `Restarted` would otherwise bring a deleted call
back, `UnusedInv` because a channel has fewer sinks than there are slots. `IdleInv`
bounds the count: it passes the timeout only while the split is pending.
`SinksKeepLifecycle` follows from `Emptied` again: a sink that is lent anew starts with
the empty list that `SinkLifecycle` promises, because the one before was handed over.

*Main loop.* `ControlInv` adds to `ReceiverFollowsList` that the attempts are within
the limit until the program ends. `GivesUpLast` needs an argument about the order of
the list (`RetriesInv`): a channel that was not tried is still ahead in the list, no
further than the attempts that are left (`Tracked`, `ToCome`); each retune brings it
one nearer, and a channel that is announced is appended behind it. When the
limit is passed nothing is ahead. `PatchInv` ties the table to the history, which is
kept apart from it: what is patched has the age of its announcement and is past the last
check by less than `StaleAge`, what is not patched was announced too long ago
(`Agrees`); and unless it was cancelled, a supergroup was announced no longer ago than a
member, since every announcement refreshes both, so that the member goes first.

*P25 parser.* `TableInv`: an identifier that was heard has the base, the step and the
slots of its own system's plan, any other has no entry. The reports follow from it
block by block (`ReportInv`), since a report depends on the tables only.

*Only model-checked.* The liveness properties: `QuietChannelsAreReleased`,
`EveryCallIsSettled`, `QuietChannelsAreSplit`, `LongCallsAreSplit` and
`FindsControlChannel` (TLAPS has no rules here for fairness and ENABLED). Every safety
property of a passing run is proved. Some theorems are listed without a run because
they state what no run checks: that the frequencies of a band plan are distinct,
`MessagesAreNeverCut`, `TransmissionsAlwaysArchived`, and the type invariants of
`P25Parser`, `ConventionalCalls` and `CallConcluder`.

## 5. What the code does not do

Each of these is a run that TLC finds violated; `PROJECT.json` quotes the
statement.

1. **`conventional_dmr`.** A DMR recorder answers for the length of slot 0 alone
   (`dmr_recorder_impl.cc:331`). A channel that is used in slot 1 only is never split,
   neither when it is quiet nor at `maxDuration`.
2. **`conclude_exit`.** At the exit the plugins are stopped while a worker is
   busy. It passes over the stopped plugins, counts no error and removes a
   recording that was uploaded nowhere (`main.cc:1172`).
3. **`smartnet_shared`.** All SmartNet systems share one parser and its stack. A
   word that was received from one system is reported for the system whose word
   came three words later, with the band plan of that one (`main.cc:905`).
4. **`sink_order`.** A buffer holds a terminator and behind it the group id of another
   talkgroup. All tags are handled before `dowork` looks at the flag, which takes the
   older terminator for the end of the foreign speech and goes from IGNORE back to IDLE
   (`transmission_sink.cc:468`): the next buffer of that speech is recorded, unless it
   brings another group id.

Seven more things were met while the models were written. The models contain them
and no property claims otherwise, but no run is spent on them:

- Two transmissions of a call can be written to the same file: a start time that
  was moved one second ahead is compared with the clock of the next transmission
  only (`transmission_sink.cc:502`).
- Without preferred sites the first site to receive a grant should keep the call. A
  system whose site is not decoded yet has the identity 0, which equals the
  preference "none", and takes the call over (`main.cc:512`).
- The results of the plugins are added; -1 and 1 cancel (`plugin_manager.cc:180`).
- The failure of `combine_wav` is ignored: without compression the transmissions are
  removed although there is no combined file to keep (`call_concluder.cc:208`).
- When a file of a list is already in the capture directory, `copy_file` throws. Nothing
  is removed then, but nothing catches the exception either and the program ends
  (`call_concluder.cc:159`). `EveryCallIsSettled` allows for the end of the program.
- A cancellation that names the supergroup of a patch takes it out and leaves the members,
  which a grant for the supergroup then finds no more (`system_impl.cc:589`).
  `SupergroupOutlives` names the case.
- Where a transmission that is too short is written to the same file as one that is
  long enough, as in the first of these, its removal takes the audio of the other
  along (`call_concluder.cc:343`).

## 6. What is not modelled

- *Samples and signals*: demodulation, squelch, AGC, spike and error counts, the
  signalling decoders, and the vendored libraries.
- *Data that decides nothing*: the JSON file, tags and display names, the log,
  the status output, the upload script, whose result is not used.
- *Start-up*: the configuration and the CSV files are read once, in one thread;
  their results are the constants.
- *Uploads*: a plugin is the result its `call_end` returns.
- *Data races* on `curr_src_id` and on the state of a plugin are interleavings of
  atomic reads and writes; both are words that the supported processors read and
  write whole.
- *P25 blocks without a channel*: their fields are copied into messages. What the main
  loop does with a patch message is in `MonitorLoop`, with a registration nothing.
  Reserved channel types, carriers of four slots and sites that change the meaning of
  an identifier while the program runs are left out.
- *Inside a P25 recorder*: two decoders, of which one is switched on, and the time
  slot that is set on it. To the calls it is a recorder that starts, stops and owns a
  sink; the switching itself happens in signal processing blocks.
- *Plugin callbacks* other than `call_end`: they change no state of the program.
- *Queues of messages* after a retune (see `MonitorLoop`).

## 7. Plan

Done, in the order of importance: the way of the audio from the sink through the
call to the archive, the parsers that the grants come from, and the loop that keeps
the control channels and the patches.

1. `TransmissionSink` with `SinkLifecycle`, and its proofs.
2. `CallManager` on top of `SinkLifecycle`, and its proofs.
3. `CallConcluder` with `CallDelivery`, and its proofs.
4. `SmartnetParser` with `WordStream` and `SmartnetChannel`, and the proofs of both.
5. `ConventionalCalls`, and its proofs.
6. `ControlChannel` and `TalkgroupPatches` in `MonitorLoop`, and its proofs.
7. `P25Parser`, and its proofs.

Left:

8. `P25Recorder`: the two decoders, modulation and slots, below the `Recorders` of
   `CallManager`.
9. `PluginManager`: initialisation and start of the plugins, with callbacks from three
   kinds of threads.
