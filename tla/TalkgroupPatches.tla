--------------------------- MODULE TalkgroupPatches ---------------------------
(***************************************************************************)
(* The talkgroup patches of a P25 system (system_impl.cc): which           *)
(* talkgroups a supergroup currently ties together.  The control channel   *)
(* repeats a patch as long as it is in force and may cancel it; the main   *)
(* loop drops the talkgroups that were not repeated.                       *)
(*                                                                         *)
(* A table talkgroup_patches maps a supergroup to the talkgroups of the    *)
(* patch and the time each was last announced.  The times are kept as ages *)
(* here, and a talkgroup that is not there has age Absent.  The operators  *)
(* give the table an operation leaves behind.                              *)
(***************************************************************************)
EXTENDS Integers

CONSTANTS
  Talkgroups,       \* without 0, which stands for no talkgroup in a message
  Supergroups,      \* the talkgroups that patches are made with
  StaleAge          \* seconds until a talkgroup is stale, 10 in the code

ASSUME PatchAssumption ==
  /\ Supergroups \subseteq Talkgroups
  /\ StaleAge \in Nat \ {0}

Absent == -1
Ages == Nat \cup {Absent}
PatchTables == [Supergroups -> [Talkgroups -> Ages]]

NoPatches == [sg \in Supergroups |-> [t \in Talkgroups |-> Absent]]

\* t is part of the patch of sg.
Patched(table, sg, t) == table[sg][t] # Absent

\* A table in which every age was changed by Change.
Altered(table, Change(_)) ==
  [sg \in Supergroups |-> [t \in Talkgroups |-> Change(table[sg][t])]]

\* A table with the talkgroups of members in the patch of sg set to age.
WithAge(table, sg, members, age) ==
  [table EXCEPT ![sg] =
     [t \in Talkgroups |-> IF t \in members THEN age ELSE table[sg][t]]]

\* Mutant: the members are refreshed but not the supergroup.
UpdateMembers(table, sg, ga) == WithAge(table, sg, ga \ {sg}, 0)

\* ga are the talkgroups of the message that are not 0.
update_active_talkgroup_patches(table, sg, ga) ==
  WithAge(table, sg, ga \cup {sg}, 0)

\* The supergroup stays until it is stale.
delete_talkgroup_patch(table, sg, ga) == WithAge(table, sg, ga, Absent)

\* Mutant: stale only after StaleAge.
KeepLonger(age) == IF age > StaleAge THEN Absent ELSE age

KeepFresh(age) == IF age >= StaleAge THEN Absent ELSE age

clear_stale_talkgroup_patches(table) == Altered(table, KeepFresh)

\* One second later.
Older(age) == IF age = Absent THEN Absent ELSE age + 1
Aged(table) == Altered(table, Older)

=============================================================================
