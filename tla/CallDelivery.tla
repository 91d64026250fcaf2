---------------------------- MODULE CallDelivery ----------------------------
(***************************************************************************)
(* What the call concluder promises of one call, without threads, files,   *)
(* futures, lists or clocks: the recording is combined once; then it is    *)
(* offered to the plugins, one after the other, a bounded number of times  *)
(* with a pause before each repetition; and a call that is settled is left *)
(* alone.  CallConcluder implements this specification for every call.     *)
(***************************************************************************)
EXTENDS Naturals

CONSTANTS PluginCount,   \* the plugins an offer goes through
          MaxRetry       \* how often an offer is repeated

VARIABLES stage,         \* how far the call has got
          tries,         \* how often it was offered
          asked          \* how many plugins the present offer has passed

deliveryVars == <<stage, tries, asked>>

Init ==
  /\ stage = "recording"
  /\ tries = 0
  /\ asked = 0

\* The recording is too short or belongs to a superseded call.
Discard ==
  /\ stage = "recording"
  /\ stage' = "discarded"
  /\ UNCHANGED <<tries, asked>>

Begin ==
  /\ stage = "recording"
  /\ stage' = "combining"
  /\ tries' = 1
  /\ UNCHANGED asked

\* The transmissions become one file, or cannot be converted.
Combine ==
  /\ stage = "combining"
  /\ stage' \in {"offered", "unusable"}
  /\ UNCHANGED <<tries, asked>>

\* The next plugin takes the call, refuses it or does not run.
Ask ==
  /\ stage = "offered"
  /\ asked < PluginCount
  /\ asked' = asked + 1
  /\ UNCHANGED <<stage, tries>>

\* The offer ends when every plugin was asked, not when one refuses.
Close ==
  /\ stage = "offered"
  /\ asked = PluginCount
  /\ stage' \in {"taken", "refused"}
  /\ asked' = 0
  /\ UNCHANGED tries

Postpone ==
  /\ stage = "refused"
  /\ tries <= MaxRetry
  /\ stage' = "waiting"
  /\ UNCHANGED <<tries, asked>>

\* The call is offered again, to all plugins, but not combined again.
Repeat ==
  /\ stage = "waiting"
  /\ stage' = "offered"
  /\ tries' = tries + 1
  /\ UNCHANGED asked

\* The call is settled: taken, not convertible, or refused for the last time.
Settle ==
  /\ \/ stage = "taken" /\ stage' = "delivered"
     \/ stage = "unusable" /\ stage' = "failed"
     \/ stage = "refused" /\ tries = MaxRetry + 1 /\ stage' = "dropped"
  /\ UNCHANGED <<tries, asked>>

Next == Discard \/ Begin \/ Combine \/ Ask \/ Close \/ Postpone \/ Repeat \/ Settle

Spec == Init /\ [][Next]_deliveryVars

=============================================================================
