---------------------------- MODULE ControlChannel ----------------------------
(***************************************************************************)
(* The supervision of the control channels (check_message_count and        *)
(* retune_system in main.cc, the list of control channels in               *)
(* system_impl.cc).  Every few seconds the main loop compares what each    *)
(* trunked system has decoded with two messages a second.  A system that   *)
(* is below is moved to the next control channel of its list, and when it  *)
(* was below for more checks in a row than controlRetuneLimit the program  *)
(* exits.                                                                  *)
(***************************************************************************)
EXTENDS Integers, Sequences

CONSTANTS
  Systems,          \* the trunked systems, numbered in their order
  Frequencies,
  Sources, NoSource,
  Covers,           \* [Sources -> SUBSET Frequencies]
  FirstSource,      \* [Frequencies -> Sources \cup {NoSource}]: the first
                    \* source that covers a frequency
  Configured,       \* [Systems -> Seq(Frequencies)]: control_channels
  RetuneLimit       \* config.control_retune_limit, 0 for none

ASSUME ControlAssumption ==
  /\ Systems \subseteq Nat
  /\ NoSource \notin Sources
  /\ Covers \in [Sources -> SUBSET Frequencies]
  /\ FirstSource \in [Frequencies -> Sources \cup {NoSource}]
  /\ \A f \in Frequencies :
       IF FirstSource[f] = NoSource THEN \A r \in Sources : f \notin Covers[r]
       ELSE f \in Covers[FirstSource[f]]
  /\ Configured \in [Systems -> Seq(Frequencies)]
  /\ \A s \in Systems :          \* setup_systems ends the program otherwise
       Configured[s] # <<>> /\ FirstSource[Configured[s][1]] # NoSource
  /\ RetuneLimit \in Nat

VARIABLES
  control,          \* the control channel of each system
  exit_flag,        \* the main loop ends at its next turn
  exit_failure,     \* exit_code is EXIT_FAILURE
  silent,           \* history: the checks in a row that were below the rate
  untried           \* history: what was listed before that, is covered by a
                    \* source, and was not listened to since

controlVars == <<control, exit_flag, exit_failure, silent, untried>>

ControlRecords ==
  [channels : Seq(Frequencies),    \* control_channels
   current : Nat,                  \* current_control_channel, from 1
   source : Sources,
   freq : Frequencies,             \* what the receiver is tuned to
   retune_attempts : 0..(RetuneLimit + 1),
   message_count : Nat]

ControlTypeOK ==
  /\ control \in [Systems -> ControlRecords]
  /\ exit_flag \in BOOLEAN
  /\ exit_failure \in BOOLEAN
  /\ silent \in [Systems -> Nat]
  /\ untried \in [Systems -> SUBSET Frequencies]

Listed(k) == {k.channels[i] : i \in DOMAIN k.channels}
Tunable(k) == {f \in Listed(k) : FirstSource[f] # NoSource}

\* setup_systems.
ControlInit ==
  /\ control = [s \in Systems |->
       [channels |-> Configured[s], current |-> 1,
        source |-> FirstSource[Configured[s][1]],
        freq |-> Configured[s][1],
        retune_attempts |-> 0, message_count |-> 0]]
  /\ exit_flag = FALSE
  /\ exit_failure = FALSE
  /\ silent = [s \in Systems |-> 0]
  /\ untried = [s \in Systems |-> Tunable(control[s]) \ {Configured[s][1]}]

\* add_control_channel.
WithChannel(k, f) ==
  IF f \in Listed(k) THEN k
  ELSE [k EXCEPT !.channels = Append(k.channels, f)]

\* Mutant: the last channel is skipped.
NextButLast(k) == IF k.current + 1 >= Len(k.channels) THEN 1 ELSE k.current + 1

\* get_next_control_channel.
Following(k) == IF k.current >= Len(k.channels) THEN 1 ELSE k.current + 1

\* Mutant: the receiver gets the frequency, but stays at its source.
RetunedHere(k) ==
  LET f == k.channels[Following(k)]
  IN  [k EXCEPT !.current = Following(k), !.freq = f]

\* retune_system: the source stays if it covers the next channel, else the
\* first that does.  When none does the receiver stays where it is.
Retuned(k) ==
  LET f == k.channels[Following(k)] IN
    IF f \in Covers[k.source] THEN
      [k EXCEPT !.current = Following(k), !.freq = f]
    ELSE IF FirstSource[f] # NoSource THEN
      [k EXCEPT !.current = Following(k), !.freq = f, !.source = FirstSource[f]]
    ELSE [k EXCEPT !.current = Following(k)]

\* msgs_decoded_per_second < 2, with the division rounded down.
BelowRate(k, seconds) == k.message_count < 2 * seconds

\* Mutant: the limit is compared before the attempt is counted.
ExceedsLate(k, seconds) ==
  BelowRate(k, seconds) /\ RetuneLimit > 0 /\ k.retune_attempts > RetuneLimit

Exceeds(k, seconds) ==
  /\ BelowRate(k, seconds)
  /\ RetuneLimit > 0
  /\ k.retune_attempts + 1 > RetuneLimit

\* The loop over the systems returns at the first that exceeds the limit.
CheckEnds(seconds) == \E s \in Systems : Exceeds(control[s], seconds)
Reached(s, seconds) ==
  \A z \in Systems : z < s => ~Exceeds(control[z], seconds)

\* Mutant: a good check does not forgive the ones before.
NeverForgiven(k, seconds) ==
  IF BelowRate(k, seconds) /\ RetuneLimit > 0 THEN k.retune_attempts + 1
  ELSE k.retune_attempts

\* retune_attempts after a check.
Attempts(k, seconds) ==
  IF ~BelowRate(k, seconds) THEN 0
  ELSE IF RetuneLimit > 0 THEN k.retune_attempts + 1 ELSE k.retune_attempts

\* What the check makes of one system.
Checked(k, seconds) ==
  LET tuned == IF BelowRate(k, seconds) /\ Len(k.channels) > 1
               THEN Retuned(k) ELSE k
  IN  [tuned EXCEPT !.retune_attempts = Attempts(k, seconds),
                    !.message_count = 0]

\* check_message_count.
check_message_count(seconds) ==
  /\ control' = [s \in Systems |->
       IF ~Reached(s, seconds) THEN control[s]
       ELSE IF Exceeds(control[s], seconds)
       THEN [control[s] EXCEPT !.retune_attempts = @ + 1]
       ELSE Checked(control[s], seconds)]
  /\ exit_flag' = (exit_flag \/ CheckEnds(seconds))
  /\ exit_failure' = (exit_failure \/ CheckEnds(seconds))
  /\ silent' = [s \in Systems |->
       IF ~BelowRate(control[s], seconds) THEN 0
       ELSE IF silent[s] > RetuneLimit THEN silent[s] ELSE silent[s] + 1]
  /\ untried' = [s \in Systems |->
       IF BelowRate(control[s], seconds) THEN untried[s] \ {control'[s].freq}
       ELSE Tunable(control'[s]) \ {control'[s].freq}]

=============================================================================
