-------------------------- MODULE MonitorLoopProofs --------------------------
(***************************************************************************)
(* For any trunked systems, sources and lists of control channels, and any *)
(* limits and ages: the receivers follow the lists, and the patches are    *)
(* what was announced.                                                     *)
(***************************************************************************)
EXTENDS MonitorLoop, SequenceTheorems, TLAPS

\* What ReceiverFollowsList says of one system.
Follows(k) ==
  /\ k.current \in DOMAIN k.channels
  /\ k.freq \in Listed(k)
  /\ k.freq \in Covers[k.source]
  /\ FirstSource[k.channels[k.current]] # NoSource =>
       k.freq = k.channels[k.current]

\* Only the attempt that ends the program passes the limit.
AttemptsInv ==
  ~exit_flag => \A s \in Systems : control[s].retune_attempts <= RetuneLimit

ControlInv == AttemptsInv /\ ReceiverFollowsList

Assumptions == ControlAssumption /\ PatchAssumption /\ LoopAssumption

\* A talkgroup of a table and its history: what is patched was announced when
\* the table says and is past the last check by less than StaleAge, and what
\* is not patched was announced too long ago.
Agrees(age, old, since) ==
  IF age = Absent THEN old >= StaleAge
  ELSE age = old /\ old < StaleAge + since

\* What the invariants say of the patches of one system: table and history
\* agree, and unless it was cancelled the supergroup was announced with every
\* member.
Kept(table, heard, since) ==
  \A sg \in Supergroups, t \in Talkgroups :
    /\ Agrees(table[sg][t], heard[sg][t], since)
    /\ table[sg][t] # Absent =>
         \/ heard[sg][sg] = LongAgo
         \/ table[sg][sg] # Absent /\ heard[sg][sg] <= heard[sg][t]

PatchInv ==
  \A s \in P25 : Kept(talkgroup_patches[s], announced[s], since_check)

IInv == TypeOK /\ ControlInv /\ PatchInv

-----------------------------------------------------------------------------
(* The control channels.                                                   *)

\* The fields of a control record.
LEMMA Fields ==
  ASSUME NEW k \in ControlRecords
  PROVE  /\ k.channels \in Seq(Frequencies)
         /\ k.current \in Nat /\ k.source \in Sources
         /\ k.freq \in Frequencies
         /\ k.retune_attempts \in 0..(RetuneLimit + 1)
         /\ k.message_count \in Nat
BY DEF ControlRecords

\* A record is changed field by field.
LEMMA Updates ==
  ASSUME NEW k \in ControlRecords
  PROVE  /\ \A n \in Nat : 
              LET r == [k EXCEPT !.message_count = n] IN
                /\ r \in ControlRecords
                /\ r.channels = k.channels /\ r.current = k.current
                /\ r.source = k.source /\ r.freq = k.freq
                /\ r.retune_attempts = k.retune_attempts
         /\ \A n \in 0..(RetuneLimit + 1) :
              LET r == [k EXCEPT !.retune_attempts = n] IN
                /\ r \in ControlRecords
                /\ r.channels = k.channels /\ r.current = k.current
                /\ r.source = k.source /\ r.freq = k.freq
                /\ r.retune_attempts = n
BY DEF ControlRecords

LEMMA FollowsUpdate ==
  ASSUME NEW k, NEW r, Follows(k),
         r.channels = k.channels, r.current = k.current,
         r.source = k.source, r.freq = k.freq
  PROVE  Follows(r)
BY DEF Follows, Listed

\* get_next_control_channel stays within the list.
LEMMA FollowingInList ==
  ASSUME NEW k \in ControlRecords, k.current \in DOMAIN k.channels
  PROVE  /\ Following(k) \in DOMAIN k.channels
         /\ Following(k) \in Nat
         /\ k.channels[Following(k)] \in Frequencies
<1>1. k.channels \in Seq(Frequencies) /\ k.current \in Nat
  BY Fields
<1>2. Len(k.channels) \in Nat /\ DOMAIN k.channels = 1..Len(k.channels)
  BY <1>1
<1>3. Following(k) \in 1..Len(k.channels)
  BY <1>1, <1>2 DEF Following
<1>. QED BY <1>1, <1>2, <1>3

\* retune_system leaves a receiver that follows the list.
LEMMA RetunedFollows ==
  ASSUME ControlAssumption, NEW k \in ControlRecords, Follows(k)
  PROVE  /\ Retuned(k) \in ControlRecords
         /\ Follows(Retuned(k))
         /\ Retuned(k).retune_attempts = k.retune_attempts
<1> DEFINE f == k.channels[Following(k)]
           n == Following(k)
<1>1. n \in DOMAIN k.channels /\ n \in Nat /\ f \in Frequencies /\ f \in Listed(k)
  BY FollowingInList DEF Follows, Listed
<1>2. k.freq \in Listed(k) /\ k.freq \in Covers[k.source]
  BY DEF Follows
<1>3. CASE f \in Covers[k.source]
  <2>1. Retuned(k) = [k EXCEPT !.current = n, !.freq = f]
    BY <1>3 DEF Retuned
  <2>2. Retuned(k) =
          [channels |-> k.channels, current |-> n, source |-> k.source,
           freq |-> f, retune_attempts |-> k.retune_attempts,
           message_count |-> k.message_count]
    BY <2>1 DEF ControlRecords
  <2> HIDE DEF n, f
  <2>3. Retuned(k) \in ControlRecords
    BY <1>1, <2>2, Fields DEF ControlRecords
  <2>4. /\ Retuned(k).channels = k.channels /\ Retuned(k).current = n
        /\ Retuned(k).source = k.source /\ Retuned(k).freq = f
        /\ Retuned(k).retune_attempts = k.retune_attempts
    BY <2>2
  <2>5. k.channels[n] = f
    BY DEF n, f
  <2>. QED BY <1>1, <1>3, <2>3, <2>4, <2>5 DEF Follows, Listed
<1>4. CASE f \notin Covers[k.source] /\ FirstSource[f] # NoSource
  <2>1. Retuned(k) = [k EXCEPT !.current = n, !.freq = f,
                              !.source = FirstSource[f]]
    BY <1>4 DEF Retuned
  <2>2. Retuned(k) =
          [channels |-> k.channels, current |-> n, source |-> FirstSource[f],
           freq |-> f, retune_attempts |-> k.retune_attempts,
           message_count |-> k.message_count]
    BY <2>1 DEF ControlRecords
  <2> HIDE DEF n, f
  <2>3. FirstSource[f] \in Sources /\ f \in Covers[FirstSource[f]]
    BY <1>1, <1>4 DEF ControlAssumption
  <2>4. Retuned(k) \in ControlRecords
    BY <1>1, <2>2, <2>3, Fields DEF ControlRecords
  <2>5. /\ Retuned(k).channels = k.channels /\ Retuned(k).current = n
        /\ Retuned(k).source = FirstSource[f] /\ Retuned(k).freq = f
        /\ Retuned(k).retune_attempts = k.retune_attempts
    BY <2>2
  <2>6. k.channels[n] = f
    BY DEF n, f
  <2>. QED BY <1>1, <2>3, <2>4, <2>5, <2>6 DEF Follows, Listed
<1>5. CASE f \notin Covers[k.source] /\ FirstSource[f] = NoSource
  <2>1. Retuned(k) = [k EXCEPT !.current = n]
    BY <1>5 DEF Retuned
  <2>2. Retuned(k) =
          [channels |-> k.channels, current |-> n, source |-> k.source,
           freq |-> k.freq, retune_attempts |-> k.retune_attempts,
           message_count |-> k.message_count]
    BY <2>1 DEF ControlRecords
  <2>3. k.channels[n] = f
    OBVIOUS
  <2> HIDE DEF n, f
  <2>4. Retuned(k) \in ControlRecords
    BY <1>1, <2>2, Fields DEF ControlRecords
  <2>5. /\ Retuned(k).channels = k.channels /\ Retuned(k).current = n
        /\ Retuned(k).source = k.source /\ Retuned(k).freq = k.freq
        /\ Retuned(k).retune_attempts = k.retune_attempts
    BY <2>2
  <2>. QED BY <1>1, <1>2, <1>5, <2>3, <2>4, <2>5 DEF Follows, Listed
<1>. QED BY <1>3, <1>4, <1>5

\* A check without an exit.
LEMMA CheckedFollows ==
  ASSUME ControlAssumption, NEW k \in ControlRecords, Follows(k),
         k.retune_attempts <= RetuneLimit, NEW seconds \in Nat,
         ~Exceeds(k, seconds)
  PROVE  /\ Checked(k, seconds) \in ControlRecords
         /\ Follows(Checked(k, seconds))
         /\ Checked(k, seconds).retune_attempts <= RetuneLimit
<1> DEFINE tuned == IF BelowRate(k, seconds) /\ Len(k.channels) > 1
                    THEN Retuned(k) ELSE k
           n == Attempts(k, seconds)
<1>1. RetuneLimit \in Nat /\ k.retune_attempts \in 0..(RetuneLimit + 1)
  BY Fields DEF ControlAssumption
<1>2. n \in 0..(RetuneLimit + 1) /\ n <= RetuneLimit
  BY <1>1 DEF Attempts, Exceeds
<1>3. tuned \in ControlRecords /\ Follows(tuned)
  BY RetunedFollows
<1>4. Checked(k, seconds) =
        [tuned EXCEPT !.retune_attempts = n, !.message_count = 0]
  BY DEF Checked
<1> HIDE DEF tuned, n
<1>5. Checked(k, seconds) =
        [channels |-> tuned.channels, current |-> tuned.current,
         source |-> tuned.source, freq |-> tuned.freq,
         retune_attempts |-> n, message_count |-> 0]
  BY <1>3, <1>4 DEF ControlRecords
<1>6. Checked(k, seconds) \in ControlRecords
  BY <1>2, <1>3, <1>5, Fields DEF ControlRecords
<1>7. /\ Checked(k, seconds).channels = tuned.channels
      /\ Checked(k, seconds).current = tuned.current
      /\ Checked(k, seconds).source = tuned.source
      /\ Checked(k, seconds).freq = tuned.freq
      /\ Checked(k, seconds).retune_attempts = n
  BY <1>5
<1>8. Follows(Checked(k, seconds))
  BY <1>3, <1>7, FollowsUpdate
<1>. QED BY <1>2, <1>6, <1>7, <1>8

\* add_control_channel appends behind what is there.
LEMMA WithChannelFollows ==
  ASSUME NEW k \in ControlRecords, Follows(k), NEW f \in Frequencies
  PROVE  /\ WithChannel(k, f) \in ControlRecords
         /\ Follows(WithChannel(k, f))
         /\ WithChannel(k, f).retune_attempts = k.retune_attempts
<1>1. CASE f \in Listed(k)
  BY <1>1 DEF WithChannel
<1>2. CASE f \notin Listed(k)
  <2> DEFINE l == Append(k.channels, f)
  <2>1. k.channels \in Seq(Frequencies)
    BY Fields
  <2>2. /\ l \in Seq(Frequencies)
        /\ DOMAIN k.channels \subseteq DOMAIN l
        /\ \A i \in DOMAIN k.channels : l[i] = k.channels[i]
    BY <2>1
  <2>3. WithChannel(k, f) = [k EXCEPT !.channels = l]
    BY <1>2 DEF WithChannel
  <2> HIDE DEF l
  <2>4. WithChannel(k, f) =
          [channels |-> l, current |-> k.current, source |-> k.source,
           freq |-> k.freq, retune_attempts |-> k.retune_attempts,
           message_count |-> k.message_count]
    BY <2>3 DEF ControlRecords
  <2>5. WithChannel(k, f) \in ControlRecords
    BY <2>2, <2>4, Fields DEF ControlRecords
  <2>6. /\ WithChannel(k, f).channels = l
        /\ WithChannel(k, f).current = k.current
        /\ WithChannel(k, f).source = k.source
        /\ WithChannel(k, f).freq = k.freq
        /\ WithChannel(k, f).retune_attempts = k.retune_attempts
    BY <2>4
  <2>7. Listed(k) \subseteq Listed(WithChannel(k, f))
    BY <2>2, <2>6 DEF Listed
  <2>8. Follows(WithChannel(k, f))
    BY <2>2, <2>6, <2>7 DEF Follows
  <2>. QED BY <2>5, <2>6, <2>8
<1>. QED BY <1>1, <1>2

-----------------------------------------------------------------------------
(* The patches.                                                            *)

LEMMA AgeType ==
  ASSUME NEW age \in Ages
  PROVE  Older(age) \in Ages /\ KeepFresh(age) \in Ages
BY DEF Ages, Absent, Older, KeepFresh

\* A second later, and after the stale talkgroups are gone.
LEMMA AlteredTables ==
  ASSUME NEW table \in PatchTables
  PROVE  /\ Aged(table) \in PatchTables
         /\ clear_stale_talkgroup_patches(table) \in PatchTables
         /\ \A sg \in Supergroups, t \in Talkgroups :
              /\ Aged(table)[sg][t] = Older(table[sg][t])
              /\ clear_stale_talkgroup_patches(table)[sg][t] =
                   KeepFresh(table[sg][t])
<1>1. \A sg \in Supergroups, t \in Talkgroups : table[sg][t] \in Ages
  BY DEF PatchTables
<1>2. Aged(table) = [sg \in Supergroups |->
                       [t \in Talkgroups |-> Older(table[sg][t])]]
  BY DEF Aged, Altered
<1>3. clear_stale_talkgroup_patches(table) =
        [sg \in Supergroups |-> [t \in Talkgroups |-> KeepFresh(table[sg][t])]]
  BY DEF clear_stale_talkgroup_patches, Altered
<1>4. Aged(table) \in PatchTables
  BY <1>1, <1>2, AgeType DEF PatchTables
<1>5. clear_stale_talkgroup_patches(table) \in PatchTables
  BY <1>1, <1>3, AgeType DEF PatchTables
<1>. QED BY <1>2, <1>3, <1>4, <1>5

\* An announcement or a cancellation.
LEMMA WithAgeTables ==
  ASSUME NEW table \in PatchTables, NEW sg \in Supergroups,
         NEW members \in SUBSET Talkgroups, NEW age \in Ages
  PROVE  /\ WithAge(table, sg, members, age) \in PatchTables
         /\ \A z \in Supergroups, t \in Talkgroups :
              WithAge(table, sg, members, age)[z][t] =
                IF z = sg /\ t \in members THEN age ELSE table[z][t]
<1>1. \A z \in Supergroups : table[z] \in [Talkgroups -> Ages]
  BY DEF PatchTables
<1> DEFINE row == [t \in Talkgroups |-> IF t \in members THEN age ELSE table[sg][t]]
<1>2. row \in [Talkgroups -> Ages]
  BY <1>1
<1>3. WithAge(table, sg, members, age) = [table EXCEPT ![sg] = row]
  BY DEF WithAge
<1> HIDE DEF row
<1>4. WithAge(table, sg, members, age) \in PatchTables
  BY <1>2, <1>3 DEF PatchTables
<1>5. ASSUME NEW z \in Supergroups
      PROVE  WithAge(table, sg, members, age)[z] =
               IF z = sg THEN row ELSE table[z]
  BY <1>3 DEF PatchTables
<1>6. \A t \in Talkgroups :
        row[t] = IF t \in members THEN age ELSE table[sg][t]
  BY DEF row
<1>. QED BY <1>4, <1>5, <1>6

\* The bounds of the ages and of the history.
LEMMA AgeBounds ==
  ASSUME Assumptions
  PROVE  /\ StaleAge \in Nat /\ StaleAge > 0 /\ CheckEvery \in Nat
         /\ LongAgo \in Nat /\ LongAgo = StaleAge + CheckEvery
         /\ Supergroups \subseteq Talkgroups
BY DEF Assumptions, PatchAssumption, LoopAssumption, LongAgo

\* The history a second later, and after an announcement or a cancellation.
LEMMA HeardLater ==
  ASSUME Assumptions, NEW heard \in Announcements
  PROVE  /\ Receding(heard) \in Announcements
         /\ \A sg \in Supergroups, t \in Talkgroups :
              Receding(heard)[sg][t] =
                IF heard[sg][t] < LongAgo THEN heard[sg][t] + 1 ELSE LongAgo
<1>1. \A sg \in Supergroups, t \in Talkgroups : heard[sg][t] \in 0..LongAgo
  BY DEF Announcements
<1>2. ASSUME NEW n \in 0..LongAgo
      PROVE  (IF n < LongAgo THEN n + 1 ELSE LongAgo) \in 0..LongAgo
  BY AgeBounds
<1>. QED BY <1>1, <1>2 DEF Receding, Announcements

LEMMA HeardNow ==
  ASSUME NEW history, NEW s, NEW sg \in Supergroups,
         NEW members \in SUBSET Talkgroups, NEW age \in 0..LongAgo,
         history[s] \in Announcements
  PROVE  LET heard == [history[s] EXCEPT ![sg] =
                         [t \in Talkgroups |-> IF t \in members THEN age
                                               ELSE history[s][sg][t]]] IN
           /\ heard \in Announcements
           /\ \A z \in Supergroups, t \in Talkgroups :
                heard[z][t] = IF z = sg /\ t \in members THEN age
                              ELSE history[s][z][t]
<1>1. \A z \in Supergroups : history[s][z] \in [Talkgroups -> 0..LongAgo]
  BY DEF Announcements
<1> DEFINE row == [t \in Talkgroups |-> IF t \in members THEN age
                                        ELSE history[s][sg][t]]
           heard == [history[s] EXCEPT ![sg] = row]
<1>2. row \in [Talkgroups -> 0..LongAgo]
  BY <1>1
<1>3. \A t \in Talkgroups :
        row[t] = IF t \in members THEN age ELSE history[s][sg][t]
  OBVIOUS
<1> HIDE DEF row
<1>4. heard \in Announcements
  BY <1>2 DEF Announcements
<1>5. ASSUME NEW z \in Supergroups
      PROVE  heard[z] = IF z = sg THEN row ELSE history[s][z]
  BY DEF Announcements
<1> HIDE DEF heard
<1>6. \A z \in Supergroups, t \in Talkgroups :
        heard[z][t] = IF z = sg /\ t \in members THEN age ELSE history[s][z][t]
  BY <1>3, <1>5
<1>. QED BY <1>4, <1>6 DEF heard, row

\* Time, announcements and cancellations keep what Kept says, and a check
\* renews it.
LEMMA AgedKept ==
  ASSUME Assumptions, NEW table \in PatchTables, NEW heard \in Announcements,
         NEW since \in Nat, since < CheckEvery, Kept(table, heard, since)
  PROVE  Kept(Aged(table), Receding(heard), since + 1)
<1> DEFINE older == Aged(table)
           later == Receding(heard)
<1>1. ASSUME NEW sg \in Supergroups, NEW t \in Talkgroups
      PROVE  /\ table[sg][t] \in Ages /\ heard[sg][t] \in 0..LongAgo
             /\ older[sg][t] = Older(table[sg][t])
             /\ later[sg][t] = IF heard[sg][t] < LongAgo THEN heard[sg][t] + 1
                               ELSE LongAgo
  BY AlteredTables, HeardLater DEF PatchTables, Announcements
<1> HIDE DEF older, later
<1>2. ASSUME NEW sg \in Supergroups, NEW t \in Talkgroups
      PROVE  /\ Agrees(older[sg][t], later[sg][t], since + 1)
             /\ older[sg][t] # Absent =>
                  \/ later[sg][sg] = LongAgo
                  \/ older[sg][sg] # Absent /\ later[sg][sg] <= later[sg][t]
  <2> DEFINE a == table[sg][t]
             b == table[sg][sg]
             h == heard[sg][t]
             g == heard[sg][sg]
  <2>1. sg \in Talkgroups
    BY AgeBounds
  <2>2. /\ a \in Ages /\ b \in Ages /\ h \in 0..LongAgo /\ g \in 0..LongAgo
        /\ older[sg][t] = Older(a) /\ older[sg][sg] = Older(b)
        /\ later[sg][t] = IF h < LongAgo THEN h + 1 ELSE LongAgo
        /\ later[sg][sg] = IF g < LongAgo THEN g + 1 ELSE LongAgo
    BY <1>1, <2>1
  <2>3. /\ Agrees(a, h, since)
        /\ a # Absent => g = LongAgo \/ (b # Absent /\ g <= h)
    BY DEF Kept
  <2> HIDE DEF a, b, h, g
  <2>. QED BY <2>2, <2>3, AgeBounds DEF Agrees, Older, Ages, Absent
<1>. QED BY <1>2 DEF Kept, older, later

LEMMA ClearedKept ==
  ASSUME Assumptions, NEW table \in PatchTables, NEW heard \in Announcements,
         NEW since \in Nat, Kept(table, heard, since)
  PROVE  Kept(clear_stale_talkgroup_patches(table), heard, 0)
<1> DEFINE cleared == clear_stale_talkgroup_patches(table)
<1>1. ASSUME NEW sg \in Supergroups, NEW t \in Talkgroups
      PROVE  /\ table[sg][t] \in Ages /\ heard[sg][t] \in 0..LongAgo
             /\ cleared[sg][t] = KeepFresh(table[sg][t])
  BY AlteredTables DEF PatchTables, Announcements
<1> HIDE DEF cleared
<1>2. ASSUME NEW sg \in Supergroups, NEW t \in Talkgroups
      PROVE  /\ Agrees(cleared[sg][t], heard[sg][t], 0)
             /\ cleared[sg][t] # Absent =>
                  \/ heard[sg][sg] = LongAgo
                  \/ cleared[sg][sg] # Absent /\ heard[sg][sg] <= heard[sg][t]
  <2> DEFINE a == table[sg][t]
             b == table[sg][sg]
             h == heard[sg][t]
             g == heard[sg][sg]
  <2>1. sg \in Talkgroups
    BY AgeBounds
  <2>2. /\ a \in Ages /\ b \in Ages /\ h \in 0..LongAgo /\ g \in 0..LongAgo
        /\ cleared[sg][t] = KeepFresh(a) /\ cleared[sg][sg] = KeepFresh(b)
    BY <1>1, <2>1
  <2>3. /\ Agrees(a, h, since) /\ Agrees(b, g, since)
        /\ a # Absent => g = LongAgo \/ (b # Absent /\ g <= h)
    BY <2>1 DEF Kept
  <2> HIDE DEF a, b, h, g
  <2>4. StaleAge \in Nat /\ StaleAge > 0
    BY AgeBounds
  <2>5. CASE a = Absent
    BY <2>2, <2>3, <2>4, <2>5 DEF Agrees, KeepFresh, Absent, h, g
  <2>6. CASE a # Absent /\ a >= StaleAge
    BY <2>2, <2>3, <2>4, <2>6 DEF Agrees, KeepFresh, h, g
  <2>7. CASE a # Absent /\ ~(a >= StaleAge)
    <3>1. cleared[sg][t] = a /\ a = h /\ h < StaleAge
      BY <2>2, <2>3, <2>4, <2>7 DEF Agrees, KeepFresh, Ages, Absent
    <3>2. g = LongAgo \/ (b = g /\ g <= h /\ b # Absent)
      BY <2>3, <2>7 DEF Agrees
    <3>3. g = LongAgo \/ (cleared[sg][sg] = b /\ b # Absent /\ g <= h)
      BY <2>2, <2>4, <3>1, <3>2 DEF KeepFresh
    <3>. QED BY <2>7, <3>1, <3>3, <2>4 DEF Agrees, h, g
  <2>. QED BY <2>5, <2>6, <2>7
<1>. QED BY <1>2 DEF Kept, cleared

\* told is the history heard after a message about members of the patch of sg.
Tells(told, heard, sg, members, old) ==
  \A z \in Supergroups, t \in Talkgroups :
    told[z][t] = IF z = sg /\ t \in members THEN old ELSE heard[z][t]

\* The new table and the new history give the members of a message the same
\* age, with the supergroup among them, or cancel them.
LEMMA ToldKept ==
  ASSUME Assumptions, NEW table \in PatchTables, NEW heard \in Announcements,
         NEW since \in Nat, Kept(table, heard, since), NEW sg \in Supergroups,
         NEW members \in SUBSET Talkgroups, NEW age, NEW old,
         \/ age = 0 /\ old = 0 /\ sg \in members
         \/ age = Absent /\ old = LongAgo,
         NEW told, Tells(told, heard, sg, members, old)
  PROVE  Kept(WithAge(table, sg, members, age), told, since)
<1> DEFINE new == WithAge(table, sg, members, age)
<1>0. age \in Ages
  BY DEF Ages, Absent
<1>1. ASSUME NEW z \in Supergroups, NEW t \in Talkgroups
      PROVE  /\ table[z][t] \in Ages /\ heard[z][t] \in 0..LongAgo
             /\ new[z][t] = IF z = sg /\ t \in members THEN age ELSE table[z][t]
  <2>1. table[z][t] \in Ages /\ heard[z][t] \in 0..LongAgo
    BY DEF PatchTables, Announcements
  <2>2. new[z][t] = IF z = sg /\ t \in members THEN age ELSE table[z][t]
    BY <1>0, WithAgeTables
  <2>. QED BY <2>1, <2>2
<1> HIDE DEF new
<1>2. ASSUME NEW z \in Supergroups, NEW t \in Talkgroups
      PROVE  /\ Agrees(new[z][t], told[z][t], since)
             /\ new[z][t] # Absent =>
                  \/ told[z][z] = LongAgo
                  \/ new[z][z] # Absent /\ told[z][z] <= told[z][t]
  <2> DEFINE a == table[z][t]
             b == table[z][z]
             h == heard[z][t]
             g == heard[z][z]
  <2>1. z \in Talkgroups
    BY AgeBounds
  <2>2. /\ a \in Ages /\ b \in Ages /\ h \in 0..LongAgo /\ g \in 0..LongAgo
        /\ new[z][t] = IF z = sg /\ t \in members THEN age ELSE a
        /\ told[z][t] = IF z = sg /\ t \in members THEN old ELSE h
        /\ new[z][z] = IF z = sg /\ z \in members THEN age ELSE b
        /\ told[z][z] = IF z = sg /\ z \in members THEN old ELSE g
    BY <1>1, <2>1 DEF Tells
  <2>3. /\ Agrees(a, h, since)
        /\ a # Absent => g = LongAgo \/ (b # Absent /\ g <= h)
    BY DEF Kept
  <2> HIDE DEF a, b, h, g
  <2>4. CASE age = 0 /\ old = 0 /\ sg \in members
    BY <2>2, <2>3, <2>4, AgeBounds DEF Agrees, Ages, Absent
  <2>5. CASE age = Absent /\ old = LongAgo
    BY <2>2, <2>3, <2>5, AgeBounds DEF Agrees, Ages, Absent
  <2>. QED BY <2>4, <2>5
<1>. QED BY <1>2 DEF Kept, new

-----------------------------------------------------------------------------
(* The steps.                                                              *)

LEMMA AllAssumptions == Assumptions
BY ControlAssumption, PatchAssumption, LoopAssumption DEF Assumptions

\* A step that leaves the patches alone.
LEMMA SamePatches ==
  ASSUME PatchInv, UNCHANGED <<talkgroup_patches, since_check, announced>>
  PROVE  PatchInv'
BY DEF PatchInv, Kept

\* A step that leaves the control channels alone.
LEMMA SameControl ==
  ASSUME ControlInv, UNCHANGED <<control, exit_flag>>
  PROVE  ControlInv'
BY DEF ControlInv, AttemptsInv, ReceiverFollowsList, Listed

\* ReceiverFollowsList, system by system.
LEMMA FollowsAll ==
  ReceiverFollowsList <=> \A s \in Systems : Follows(control[s])
BY DEF ReceiverFollowsList, Follows

LEMMA RadioStep ==
  ASSUME IInv, Assumptions, NEW s \in Systems,
         Fade(s) \/ \E f \in Band[s] \cup {Off} : MoveControlChannel(s, f)
  PROVE  IInv'
<1>1. UNCHANGED <<controlVars, talkgroup_patches, since_check, announced>>
  BY DEF Fade, MoveControlChannel
<1>2. clear' \subseteq Systems
  BY DEF IInv, TypeOK, Fade, MoveControlChannel
<1>3. on_air' \in [Systems -> Frequencies \cup {Off}]
  <2>1. on_air \in [Systems -> Frequencies \cup {Off}]
    BY DEF IInv, TypeOK
  <2>2. Band[s] \subseteq Frequencies
    BY DEF Assumptions, LoopAssumption
  <2>. QED BY <2>1, <2>2 DEF Fade, MoveControlChannel
<1>4. TypeOK'
  BY <1>1, <1>2, <1>3 DEF IInv, TypeOK, ControlTypeOK, controlVars
<1>5. ControlInv' /\ PatchInv'
  BY <1>1, SameControl, SamePatches DEF IInv, controlVars
<1>. QED BY <1>4, <1>5 DEF IInv

LEMMA SecondStep ==
  ASSUME IInv, Assumptions, Second
  PROVE  IInv'
<1>a. /\ TypeOK /\ ControlInv /\ PatchInv
      /\ UNCHANGED <<exit_flag, exit_failure, silent, untried, on_air, clear>>
  BY DEF IInv, Second
<1>1. PICK n \in [Systems -> 0..Rate] :
        control' = [s \in Systems |->
          [control[s] EXCEPT !.message_count = control[s].message_count + n[s]]]
  BY DEF Second
<1>2. ASSUME NEW s \in Systems
      PROVE  /\ control'[s] \in ControlRecords
             /\ control'[s].retune_attempts = control[s].retune_attempts
             /\ Follows(control'[s])
  <2>1. control[s] \in ControlRecords /\ Follows(control[s])
    BY <1>a, FollowsAll DEF TypeOK, ControlTypeOK, ControlInv
  <2> DEFINE m == control[s].message_count + n[s]
  <2>2. m \in Nat
    <3>1. control[s].message_count \in Nat
      BY <2>1, Fields
    <3>2. n[s] \in 0..Rate /\ Rate \in Nat
      BY DEF Assumptions, LoopAssumption
    <3>3. n[s] \in Nat
      BY <3>2
    <3>. QED BY <3>1, <3>3
  <2>3. control'[s] = [control[s] EXCEPT !.message_count = m]
    BY <1>1
  <2> HIDE DEF m
  <2>4. /\ control'[s] \in ControlRecords
        /\ control'[s].channels = control[s].channels
        /\ control'[s].current = control[s].current
        /\ control'[s].source = control[s].source
        /\ control'[s].freq = control[s].freq
        /\ control'[s].retune_attempts = control[s].retune_attempts
    BY <2>1, <2>2, <2>3, Updates
  <2>. QED BY <2>1, <2>4, FollowsUpdate
<1>3. control' = [s \in Systems |-> control'[s]]
  BY <1>1
<1>4. control' \in [Systems -> ControlRecords]
  BY <1>2, <1>3
<1>5. ControlInv'
  <2>1. ReceiverFollowsList'
    BY <1>2 DEF ReceiverFollowsList, Follows
  <2>2. AttemptsInv'
    BY <1>2, <1>a DEF AttemptsInv, ControlInv
  <2>. QED BY <2>1, <2>2 DEF ControlInv
<1>6. since_check' = since_check + 1 /\ since_check \in Nat
      /\ since_check < CheckEvery /\ since_check' \in 0..CheckEvery
  <2>1. /\ since_check \in 0..CheckEvery /\ CheckEvery \in Nat
        /\ since_check < CheckEvery /\ since_check' = since_check + 1
    BY <1>a DEF Second, TypeOK, Assumptions, LoopAssumption
  <2>. QED BY <2>1
<1>7. /\ talkgroup_patches' = [s \in Systems |-> Aged(talkgroup_patches[s])]
      /\ announced' = [s \in Systems |-> Receding(announced[s])]
      /\ \A s \in Systems : /\ talkgroup_patches[s] \in PatchTables
                            /\ announced[s] \in Announcements
  BY <1>a DEF Second, TypeOK
<1>8. /\ talkgroup_patches' \in [Systems -> PatchTables]
      /\ announced' \in [Systems -> Announcements]
  BY <1>7, AlteredTables, HeardLater
<1>9. PatchInv'
  <2>1. ASSUME NEW s \in P25
        PROVE  Kept(talkgroup_patches'[s], announced'[s], since_check')
    <3>1. s \in Systems
      BY DEF Assumptions, LoopAssumption
    <3>2. Kept(talkgroup_patches[s], announced[s], since_check)
      BY <1>a DEF PatchInv
    <3>3. Kept(Aged(talkgroup_patches[s]), Receding(announced[s]), since_check + 1)
      BY <1>6, <1>7, <3>1, <3>2, AgedKept
    <3>. QED BY <1>6, <1>7, <3>1, <3>3
  <2>. QED BY <2>1 DEF PatchInv, Kept
<1>10. TypeOK'
  BY <1>a, <1>4, <1>6, <1>8 DEF TypeOK, ControlTypeOK
<1>. QED BY <1>5, <1>9, <1>10 DEF IInv

LEMMA ControlChannelStep ==
  ASSUME IInv, Assumptions, NEW s \in Systems, NEW f \in Band[s],
         ControlChannelMessage(s, f)
  PROVE  IInv'
<1>a. /\ TypeOK /\ ControlInv /\ PatchInv
      /\ UNCHANGED <<exit_flag, exit_failure, silent, untried, on_air, clear,
                     talkgroup_patches, since_check, announced>>
      /\ control' = [control EXCEPT ![s] = WithChannel(control[s], f)]
  BY DEF IInv, ControlChannelMessage
<1>1. /\ control[s] \in ControlRecords /\ Follows(control[s])
      /\ f \in Frequencies
  BY <1>a, FollowsAll
     DEF TypeOK, ControlTypeOK, ControlInv, Assumptions, LoopAssumption
<1>2. /\ WithChannel(control[s], f) \in ControlRecords
      /\ Follows(WithChannel(control[s], f))
      /\ WithChannel(control[s], f).retune_attempts = control[s].retune_attempts
  BY <1>1, WithChannelFollows
<1>3. /\ control' \in [Systems -> ControlRecords]
      /\ \A z \in Systems :
           /\ Follows(control'[z])
           /\ control'[z].retune_attempts = control[z].retune_attempts
  BY <1>a, <1>2, FollowsAll DEF TypeOK, ControlTypeOK, ControlInv
<1>4. ReceiverFollowsList'
  BY <1>3 DEF ReceiverFollowsList, Follows
<1>5. ControlInv'
  BY <1>a, <1>3, <1>4 DEF ControlInv, AttemptsInv
<1>6. TypeOK'
  BY <1>a, <1>3 DEF TypeOK, ControlTypeOK
<1>. QED BY <1>a, <1>5, <1>6, SamePatches DEF IInv

\* PATCH_ADD and PATCH_DELETE tell the table and the history of the same
\* talkgroups.
LEMMA PatchStep ==
  ASSUME IInv, Assumptions, NEW s \in Systems, NEW sg \in Supergroups,
         (\E ga \in Patchable : PatchAdd(s, sg, ga))
           \/ \E t \in Talkgroups : PatchDelete(s, sg, {t})
  PROVE  IInv'
<1>a. /\ TypeOK /\ ControlInv /\ PatchInv
      /\ UNCHANGED <<controlVars, on_air, clear, since_check>>
      /\ talkgroup_patches[s] \in PatchTables /\ announced[s] \in Announcements
      /\ since_check \in Nat /\ s \in P25
      /\ Kept(talkgroup_patches[s], announced[s], since_check)
  <2>1. TypeOK /\ ControlInv /\ PatchInv
    BY DEF IInv
  <2>2. s \in P25 /\ UNCHANGED <<controlVars, on_air, clear, since_check>>
    BY DEF PatchAdd, PatchDelete
  <2>3. talkgroup_patches[s] \in PatchTables /\ announced[s] \in Announcements
    BY <2>1 DEF TypeOK
  <2>4. since_check \in Nat
    BY <2>1, AgeBounds DEF TypeOK
  <2>. QED BY <2>1, <2>2, <2>3, <2>4 DEF PatchInv
<1>1. ASSUME NEW members \in SUBSET Talkgroups, NEW age, NEW old,
             \/ age = 0 /\ old = 0 /\ sg \in members
             \/ age = Absent /\ old = LongAgo,
             talkgroup_patches' = [talkgroup_patches EXCEPT ![s] =
               WithAge(talkgroup_patches[s], sg, members, age)],
             announced' = Told(s, sg, members, old)
      PROVE  IInv'
  <2> DEFINE table == WithAge(talkgroup_patches[s], sg, members, age)
             heard == [announced[s] EXCEPT ![sg] =
                         [t \in Talkgroups |-> IF t \in members THEN old
                                               ELSE announced[s][sg][t]]]
  <2>1. age \in Ages /\ old \in 0..LongAgo
    BY <1>1, AgeBounds DEF Ages, Absent
  <2>2. table \in PatchTables
    BY <1>a, <2>1, WithAgeTables
  <2>3. /\ heard \in Announcements
        /\ Tells(heard, announced[s], sg, members, old)
    BY <1>a, <2>1, HeardNow DEF Tells
  <2>4. announced' = [announced EXCEPT ![s] = heard]
    BY <1>1 DEF Told
  <2> HIDE DEF heard
  <2>5. Kept(table, heard, since_check)
    <3> HIDE DEF table
    <3>1. CASE age = 0 /\ old = 0 /\ sg \in members
      BY <1>a, <2>3, <3>1, ToldKept DEF table
    <3>2. CASE age = Absent /\ old = LongAgo
      BY <1>a, <2>3, <3>2, ToldKept DEF table
    <3>. QED BY <1>1, <3>1, <3>2
  <2>6. talkgroup_patches' = [talkgroup_patches EXCEPT ![s] = table]
    BY <1>1
  <2> HIDE DEF table
  <2>7. TypeOK'
    BY <1>a, <2>2, <2>3, <2>4, <2>6 DEF TypeOK, ControlTypeOK, controlVars
  <2>8. ControlInv'
    BY <1>a, SameControl DEF controlVars
  <2>9. ASSUME NEW z \in P25
        PROVE  Kept(talkgroup_patches'[z], announced'[z], since_check')
    <3>1. z \in Systems /\ Kept(talkgroup_patches[z], announced[z], since_check)
      BY <1>a DEF PatchInv, Assumptions, LoopAssumption
    <3>2. /\ talkgroup_patches'[z] = IF z = s THEN table ELSE talkgroup_patches[z]
          /\ announced'[z] = IF z = s THEN heard ELSE announced[z]
      BY <1>a, <2>4, <2>6, <3>1 DEF TypeOK
    <3>. QED BY <1>a, <2>5, <3>1, <3>2
  <2>. QED BY <2>7, <2>8, <2>9 DEF IInv, PatchInv, Kept
<1>2. ASSUME NEW ga \in Patchable, PatchAdd(s, sg, ga) PROVE IInv'
  <2>1. ga \cup {sg} \in SUBSET Talkgroups
    BY AgeBounds DEF Patchable
  <2>. QED BY <1>1, <1>2, <2>1 DEF PatchAdd, update_active_talkgroup_patches
<1>3. ASSUME NEW t \in Talkgroups, PatchDelete(s, sg, {t}) PROVE IInv'
  BY <1>1, <1>3 DEF PatchDelete, delete_talkgroup_patch
<1>. QED BY <1>2, <1>3

\* check_message_count and clear_stale_talkgroup_patches.
LEMMA CheckStep ==
  ASSUME IInv, Assumptions, Check
  PROVE  IInv'
<1>a. /\ TypeOK /\ ControlInv /\ PatchInv /\ ~exit_flag
      /\ UNCHANGED <<on_air, clear>> /\ since_check' = 0
      /\ check_message_count(since_check)
  BY DEF IInv, Check, Running
<1> DEFINE t == since_check
<1>t. t \in Nat /\ RetuneLimit \in Nat
  BY <1>a DEF TypeOK, Assumptions, LoopAssumption, ControlAssumption
<1>1. /\ control' = [s \in Systems |->
           IF ~Reached(s, t) THEN control[s]
           ELSE IF Exceeds(control[s], t)
           THEN [control[s] EXCEPT !.retune_attempts =
                                     control[s].retune_attempts + 1]
           ELSE Checked(control[s], t)]
      /\ exit_flag' = (exit_flag \/ CheckEnds(t))
      /\ exit_failure' = (exit_failure \/ CheckEnds(t))
      /\ silent' = [s \in Systems |->
           IF ~BelowRate(control[s], t) THEN 0
           ELSE IF silent[s] > RetuneLimit THEN silent[s] ELSE silent[s] + 1]
      /\ untried' = [s \in Systems |->
           IF BelowRate(control[s], t)
           THEN untried[s] \ {control'[s].freq}
           ELSE Tunable(control'[s]) \ {control'[s].freq}]
  BY <1>a DEF check_message_count
<1> HIDE DEF t
<1>2. ASSUME NEW s \in Systems
      PROVE  /\ control'[s] \in ControlRecords
             /\ Follows(control'[s])
             /\ ~CheckEnds(t) => control'[s].retune_attempts <= RetuneLimit
  <2>1. /\ control[s] \in ControlRecords /\ Follows(control[s])
        /\ control[s].retune_attempts <= RetuneLimit
    BY <1>a, FollowsAll DEF TypeOK, ControlTypeOK, ControlInv, AttemptsInv
  <2>2. CASE ~Reached(s, t)
    <3>1. control'[s] = control[s]
      BY <1>1, <2>2
    <3>. QED BY <2>1, <3>1
  <2>3. CASE Reached(s, t) /\ Exceeds(control[s], t)
    <3> DEFINE n == control[s].retune_attempts + 1
    <3>1. control'[s] = [control[s] EXCEPT !.retune_attempts = n]
      BY <1>1, <2>3
    <3>2. n \in 0..(RetuneLimit + 1)
      BY <1>t, <2>1, Fields
    <3> HIDE DEF n
    <3>3. /\ control'[s] \in ControlRecords
          /\ control'[s].channels = control[s].channels
          /\ control'[s].current = control[s].current
          /\ control'[s].source = control[s].source
          /\ control'[s].freq = control[s].freq
      BY <2>1, <3>1, <3>2, Updates
    <3>4. Follows(control'[s])
      BY <2>1, <3>3, FollowsUpdate
    <3>5. CheckEnds(t)
      BY <2>3 DEF CheckEnds
    <3>. QED BY <3>3, <3>4, <3>5
  <2>4. CASE Reached(s, t) /\ ~Exceeds(control[s], t)
    <3>1. control'[s] = Checked(control[s], t)
      BY <1>1, <2>4
    <3>2. /\ Checked(control[s], t) \in ControlRecords
          /\ Follows(Checked(control[s], t))
          /\ Checked(control[s], t).retune_attempts <= RetuneLimit
      BY <1>t, <2>1, <2>4, CheckedFollows DEF Assumptions
    <3>. QED BY <3>1, <3>2
  <2>. QED BY <2>2, <2>3, <2>4
<1>3. control' \in [Systems -> ControlRecords]
  <2>1. control' = [s \in Systems |-> control'[s]]
    BY <1>1
  <2>. QED BY <1>2, <2>1
<1>4. ControlInv'
  <2>1. ReceiverFollowsList'
    BY <1>2 DEF ReceiverFollowsList, Follows
  <2>2. ~exit_flag' => ~CheckEnds(t)
    BY <1>1, Zenon
  <2>3. AttemptsInv'
    BY <1>2, <2>2 DEF AttemptsInv
  <2>. QED BY <2>1, <2>3 DEF ControlInv
<1>5. silent' \in [Systems -> Nat]
  <2>1. ASSUME NEW s \in Systems PROVE silent'[s] \in Nat
    <3>1. silent[s] \in Nat
      BY <1>a DEF TypeOK, ControlTypeOK
    <3>2. silent'[s] = 0 \/ silent'[s] = silent[s] \/ silent'[s] = silent[s] + 1
      BY <1>1
    <3>. QED BY <3>1, <3>2
  <2>2. silent' = [s \in Systems |-> silent'[s]]
    BY <1>1
  <2>. QED BY <2>1, <2>2
<1>6. untried' \in [Systems -> SUBSET Frequencies]
  <2>1. ASSUME NEW s \in Systems PROVE untried'[s] \subseteq Frequencies
    <3>1. untried[s] \subseteq Frequencies
      BY <1>a DEF TypeOK, ControlTypeOK
    <3>2. Listed(control'[s]) \subseteq Frequencies
      <4>1. control'[s].channels \in Seq(Frequencies)
        BY <1>2, Fields
      <4>2. \A i \in DOMAIN control'[s].channels :
              control'[s].channels[i] \in Frequencies
        BY <4>1
      <4>. QED BY <4>2 DEF Listed
    <3>3. untried'[s] \subseteq untried[s] \cup Listed(control'[s])
      BY <1>1 DEF Tunable
    <3>. QED BY <3>1, <3>2, <3>3
  <2>2. untried' = [s \in Systems |-> untried'[s]]
    BY <1>1
  <2>. QED BY <2>1, <2>2
<1>7. ASSUME NEW s \in Systems
      PROVE  talkgroup_patches[s] \in PatchTables /\ announced[s] \in Announcements
  BY <1>a DEF TypeOK
<1>8. /\ talkgroup_patches' = [s \in Systems |->
            IF s \in P25 THEN clear_stale_talkgroup_patches(talkgroup_patches[s])
            ELSE talkgroup_patches[s]]
      /\ announced' = announced
  BY DEF Check
<1>9. talkgroup_patches' \in [Systems -> PatchTables]
  <2>1. ASSUME NEW s \in Systems PROVE talkgroup_patches'[s] \in PatchTables
    BY <1>7, <1>8, AlteredTables
  <2>2. talkgroup_patches' = [s \in Systems |-> talkgroup_patches'[s]]
    BY <1>8
  <2>. QED BY <2>1, <2>2
<1>10. PatchInv'
  <2>1. ASSUME NEW s \in P25
        PROVE  Kept(talkgroup_patches'[s], announced'[s], 0)
    <3>1. s \in Systems
      BY DEF Assumptions, LoopAssumption
    <3>2. Kept(talkgroup_patches[s], announced[s], t)
      BY <1>a DEF PatchInv, t
    <3>3. Kept(clear_stale_talkgroup_patches(talkgroup_patches[s]),
               announced[s], 0)
      BY <1>7, <1>t, <3>1, <3>2, ClearedKept
    <3>. QED BY <1>8, <3>1, <3>3
  <2>. QED BY <1>a, <2>1 DEF PatchInv, Kept
<1>11. TypeOK'
  <2>1. exit_flag' \in BOOLEAN /\ exit_failure' \in BOOLEAN
    BY <1>1, <1>a DEF TypeOK, ControlTypeOK
  <2>2. since_check' \in 0..CheckEvery
    BY <1>a DEF Assumptions, LoopAssumption
  <2>. QED BY <1>3, <1>5, <1>6, <1>8, <1>9, <1>a, <2>1, <2>2
           DEF TypeOK, ControlTypeOK
<1>. QED BY <1>4, <1>10, <1>11 DEF IInv

LEMMA InterruptStep ==
  ASSUME IInv, Interrupt
  PROVE  IInv'
<1>1. /\ UNCHANGED <<control, exit_failure, silent, untried, talkgroup_patches,
                     on_air, clear, since_check, announced>>
      /\ exit_flag' = TRUE
  BY DEF Interrupt
<1>2. TypeOK'
  BY <1>1 DEF IInv, TypeOK, ControlTypeOK
<1>3. ReceiverFollowsList'
  BY <1>1 DEF IInv, ControlInv, ReceiverFollowsList, Listed
<1>4. AttemptsInv'
  BY <1>1 DEF AttemptsInv
<1>5. PatchInv'
  BY <1>1, SamePatches DEF IInv
<1>. QED BY <1>2, <1>3, <1>4, <1>5 DEF IInv, ControlInv

LEMMA InitInv ==
  ASSUME Init, Assumptions
  PROVE  IInv
<1> DEFINE first(s) ==
             [channels |-> Configured[s], current |-> 1,
              source |-> FirstSource[Configured[s][1]],
              freq |-> Configured[s][1],
              retune_attempts |-> 0, message_count |-> 0]
<1>1. /\ control = [s \in Systems |-> first(s)]
      /\ exit_flag = FALSE /\ exit_failure = FALSE
      /\ silent = [s \in Systems |-> 0]
      /\ untried = [s \in Systems |-> Tunable(control[s]) \ {Configured[s][1]}]
  BY DEF Init, ControlInit
<1>2. ASSUME NEW s \in Systems
      PROVE  /\ Configured[s] \in Seq(Frequencies)
             /\ 1 \in DOMAIN Configured[s]
             /\ Configured[s][1] \in Frequencies
             /\ FirstSource[Configured[s][1]] \in Sources
             /\ Configured[s][1] \in Covers[FirstSource[Configured[s][1]]]
             /\ \A i \in DOMAIN Configured[s] : Configured[s][i] \in Frequencies
  <2>1. /\ Configured[s] \in Seq(Frequencies) /\ Configured[s] # <<>>
        /\ FirstSource[Configured[s][1]] # NoSource
    BY DEF Assumptions, ControlAssumption
  <2>2. 1 \in DOMAIN Configured[s] /\ Configured[s][1] \in Frequencies
    BY <2>1
  <2>3. \A i \in DOMAIN Configured[s] : Configured[s][i] \in Frequencies
    BY <2>1
  <2>. QED BY <2>1, <2>2, <2>3 DEF Assumptions, ControlAssumption
<1>3. RetuneLimit \in Nat
  BY DEF Assumptions, ControlAssumption
<1>4. ASSUME NEW s \in Systems
      PROVE  /\ control[s] \in ControlRecords
             /\ Follows(control[s])
             /\ control[s].retune_attempts = 0
             /\ Tunable(control[s]) \subseteq Frequencies
  <2>1. control[s] = first(s)
    BY <1>1
  <2>2. first(s) \in ControlRecords
    BY <1>2, <1>3 DEF ControlRecords
  <2>3. Follows(first(s))
    BY <1>2 DEF Follows, Listed
  <2>4. Tunable(first(s)) \subseteq Frequencies
    BY <1>2 DEF Tunable, Listed
  <2>5. first(s).retune_attempts = 0
    OBVIOUS
  <2> HIDE DEF first
  <2>. QED BY <2>1, <2>2, <2>3, <2>4, <2>5
<1> HIDE DEF first
<1>5. ControlInv
  BY <1>3, <1>4 DEF ControlInv, AttemptsInv, ReceiverFollowsList, Follows
<1>6. ControlTypeOK
  <2>1. control \in [Systems -> ControlRecords]
    BY <1>1, <1>4
  <2>2. untried \in [Systems -> SUBSET Frequencies]
    BY <1>1, <1>4
  <2>. QED BY <1>1, <2>1, <2>2 DEF ControlTypeOK
<1> DEFINE silence == [sg \in Supergroups |-> [t \in Talkgroups |-> LongAgo]]
<1>7. /\ NoPatches \in PatchTables /\ silence \in Announcements
      /\ Kept(NoPatches, silence, 0)
  <2>1. NoPatches \in PatchTables
    BY DEF NoPatches, PatchTables, Ages
  <2>2. silence \in Announcements
    BY AgeBounds DEF Announcements
  <2>3. Kept(NoPatches, silence, 0)
    BY AgeBounds DEF NoPatches, Kept, Agrees
  <2>. QED BY <2>1, <2>2, <2>3
<1>8. /\ talkgroup_patches = [s \in Systems |-> NoPatches]
      /\ announced = [s \in Systems |-> silence]
      /\ on_air = [s \in Systems |-> Off] /\ clear = Systems
      /\ since_check = 0
  BY DEF Init
<1> HIDE DEF silence
<1>9. PatchInv
  BY <1>7, <1>8 DEF PatchInv, Assumptions, LoopAssumption
<1>10. TypeOK
  BY <1>6, <1>7, <1>8 DEF TypeOK, Assumptions, LoopAssumption
<1>. QED BY <1>5, <1>9, <1>10 DEF IInv

-----------------------------------------------------------------------------
(* Every channel is attempted.  The channels that were not listened to     *)
(* since the system fell silent are among those the next retunes lead to:  *)
(* in a list of n, after a attempts, within n - 1 - a steps.               *)

\* How many retunes lead to the i-th channel.
Ahead(k, i) ==
  IF i > k.current THEN i - k.current ELSE Len(k.channels) - k.current + i

ToCome(k) ==
  {f \in Frequencies : \E i \in DOMAIN k.channels :
     f = k.channels[i] /\ Ahead(k, i) <= Len(k.channels) - 1 - k.retune_attempts}

Tracked(s) ==
  /\ silent[s] = control[s].retune_attempts
  /\ untried[s] \subseteq ToCome(control[s])
  /\ \A f \in untried[s] : FirstSource[f] # NoSource

RetriesInv ==
  /\ RetuneLimit > 0 /\ ~exit_flag => \A s \in Systems : Tracked(s)
  /\ exit_failure => exit_flag /\ GivesUpLast

LEMMA SameToCome ==
  ASSUME NEW k, NEW r, r.channels = k.channels, r.current = k.current,
         r.retune_attempts = k.retune_attempts
  PROVE  ToCome(r) = ToCome(k)
BY DEF ToCome, Ahead

\* The numbers the lemmas reckon with.
LEMMA ListNumbers ==
  ASSUME NEW k \in ControlRecords, Follows(k)
  PROVE  /\ k.channels \in Seq(Frequencies)
         /\ Len(k.channels) \in Nat
         /\ DOMAIN k.channels = 1..Len(k.channels)
         /\ k.current \in 1..Len(k.channels)
         /\ RetuneLimit \in Nat => k.retune_attempts \in Nat
         /\ \A i \in DOMAIN k.channels : k.channels[i] \in Frequencies
<1>1. k.channels \in Seq(Frequencies) /\ k.current \in DOMAIN k.channels
  BY Fields DEF Follows
<1>2. Len(k.channels) \in Nat /\ DOMAIN k.channels = 1..Len(k.channels)
  BY <1>1
<1>3. RetuneLimit \in Nat => k.retune_attempts \in Nat
  BY Fields
<1>4. \A i \in DOMAIN k.channels : k.channels[i] \in Frequencies
  BY <1>1
<1>. QED BY <1>1, <1>2, <1>3, <1>4

\* A channel that is added comes last, and everything still comes in time.
LEMMA AddedToCome ==
  ASSUME RetuneLimit \in Nat, NEW k \in ControlRecords, Follows(k),
         NEW f \in Frequencies
  PROVE  ToCome(k) \subseteq ToCome(WithChannel(k, f))
<1>1. CASE f \in Listed(k)
  BY <1>1 DEF WithChannel
<1>2. CASE f \notin Listed(k)
  <2> DEFINE l == Append(k.channels, f)
             r == WithChannel(k, f)
  <2>1. r = [k EXCEPT !.channels = l]
    BY <1>2 DEF WithChannel
  <2>2. /\ Len(l) = Len(k.channels) + 1
        /\ DOMAIN k.channels \subseteq DOMAIN l
        /\ \A i \in DOMAIN k.channels : l[i] = k.channels[i]
    BY ListNumbers
  <2>3. /\ r.channels = l /\ r.current = k.current
        /\ r.retune_attempts = k.retune_attempts
    BY <2>1 DEF ControlRecords
  <2> HIDE DEF l, r
  <2>4. ASSUME NEW g \in ToCome(k) PROVE g \in ToCome(r)
    <3>1. PICK i \in DOMAIN k.channels :
            /\ g = k.channels[i]
            /\ Ahead(k, i) <= Len(k.channels) - 1 - k.retune_attempts
      BY <2>4 DEF ToCome
    <3>2. Ahead(r, i) <= Ahead(k, i) + 1
      BY <2>2, <2>3, ListNumbers DEF Ahead
    <3>3. Ahead(k, i) \in Int /\ Ahead(r, i) \in Int
      BY <2>2, <2>3, ListNumbers DEF Ahead
    <3>4. Ahead(r, i) <= Len(r.channels) - 1 - r.retune_attempts
      BY <2>2, <2>3, <3>1, <3>2, <3>3, ListNumbers
    <3>. QED BY <2>2, <2>3, <2>4, <3>1, <3>4 DEF ToCome
  <2>. QED BY <2>4 DEF r
<1>. QED BY <1>1, <1>2

\* A retune goes one step ahead.
LEMMA RetunedToCome ==
  ASSUME ControlAssumption, NEW k \in ControlRecords, Follows(k),
         NEW g \in ToCome(k), FirstSource[g] # NoSource,
         NEW r \in ControlRecords, Follows(r), r.channels = k.channels,
         r.current = Following(k), r.retune_attempts = k.retune_attempts + 1,
         g # r.freq
  PROVE  g \in ToCome(r)
<1>1. PICK i \in DOMAIN k.channels :
        /\ g = k.channels[i]
        /\ Ahead(k, i) <= Len(k.channels) - 1 - k.retune_attempts
  BY DEF ToCome
<1>2. r.freq = r.channels[r.current] \/ FirstSource[r.channels[r.current]] = NoSource
  BY DEF Follows
<1>3. i # r.current
  BY <1>1, <1>2
<1>4. RetuneLimit \in Nat
  BY DEF ControlAssumption
<1>5. Ahead(r, i) = Ahead(k, i) - 1
  <2>1. /\ Len(k.channels) \in Nat /\ i \in 1..Len(k.channels)
        /\ k.current \in 1..Len(k.channels)
    BY ListNumbers
  <2>2. CASE k.current >= Len(k.channels)
    <3>1. k.current = Len(k.channels) /\ r.current = 1
      BY <2>1, <2>2 DEF Following
    <3>. QED BY <1>3, <2>1, <3>1 DEF Ahead
  <2>3. CASE ~(k.current >= Len(k.channels))
    <3>1. r.current = k.current + 1
      BY <2>3 DEF Following
    <3>. QED BY <1>3, <2>1, <2>3, <3>1 DEF Ahead
  <2>. QED BY <2>2, <2>3
<1>6. Ahead(k, i) \in Int
  BY ListNumbers DEF Ahead
<1>7. Ahead(r, i) <= Len(r.channels) - 1 - r.retune_attempts
  BY <1>1, <1>4, <1>5, <1>6, ListNumbers
<1>. QED BY <1>1, <1>7 DEF ToCome

\* After a good check, or at the start, everything else is still to come.
LEMMA AllToCome ==
  ASSUME NEW k \in ControlRecords, Follows(k), k.retune_attempts = 0
  PROVE  Tunable(k) \ {k.freq} \subseteq ToCome(k)
<1>1. ASSUME NEW g \in Tunable(k), g # k.freq PROVE g \in ToCome(k)
  <2>1. PICK i \in DOMAIN k.channels : g = k.channels[i]
    BY <1>1 DEF Tunable, Listed
  <2>2. FirstSource[g] # NoSource
    BY <1>1 DEF Tunable
  <2>3. i # k.current
    BY <1>1, <2>1, <2>2 DEF Follows
  <2>4. /\ Len(k.channels) \in Nat /\ i \in 1..Len(k.channels)
        /\ k.current \in 1..Len(k.channels) /\ g \in Frequencies
    BY <2>1, ListNumbers
  <2>5. Ahead(k, i) <= Len(k.channels) - 1 - 0
    BY <2>3, <2>4 DEF Ahead
  <2>. QED BY <2>1, <2>4, <2>5 DEF ToCome
<1>. QED BY <1>1

\* A list of one channel has nothing to come, nor has one after as many
\* attempts as it has other channels.
LEMMA NothingToCome ==
  ASSUME RetuneLimit \in Nat, NEW k \in ControlRecords, Follows(k),
         Len(k.channels) - 1 <= k.retune_attempts
  PROVE  ToCome(k) = {}
<1>1. ASSUME NEW i \in DOMAIN k.channels
      PROVE  Ahead(k, i) > Len(k.channels) - 1 - k.retune_attempts
  BY ListNumbers DEF Ahead
<1>2. ASSUME NEW i \in DOMAIN k.channels
      PROVE  ~(Ahead(k, i) <= Len(k.channels) - 1 - k.retune_attempts)
  <2>1. Ahead(k, i) \in Int /\ Len(k.channels) - 1 - k.retune_attempts \in Int
    BY ListNumbers DEF Ahead
  <2>. QED BY <1>1, <2>1
<1>. QED BY <1>2 DEF ToCome

\* What a check without an exit leaves of one system.
LEMMA CheckedToCome ==
  ASSUME ControlAssumption, RetuneLimit > 0, NEW k \in ControlRecords,
         Follows(k), NEW t \in Nat, ~Exceeds(k, t),
         k.retune_attempts <= RetuneLimit
  PROVE  LET r == Checked(k, t) IN
         /\ BelowRate(k, t) =>
              /\ r.retune_attempts = k.retune_attempts + 1
              /\ \A g \in ToCome(k) :
                   FirstSource[g] # NoSource /\ g # r.freq => g \in ToCome(r)
         /\ ~BelowRate(k, t) =>
              /\ r.retune_attempts = 0
              /\ Tunable(r) \ {r.freq} \subseteq ToCome(r)
<1> DEFINE r == Checked(k, t)
           tuned == IF BelowRate(k, t) /\ Len(k.channels) > 1
                    THEN Retuned(k) ELSE k
<1>1. r \in ControlRecords /\ Follows(r)
  BY CheckedFollows
<1>2. tuned \in ControlRecords
  BY RetunedFollows
<1>3. r = [tuned EXCEPT !.retune_attempts = Attempts(k, t), !.message_count = 0]
  BY DEF Checked
<1>4. /\ tuned.channels = k.channels
      /\ BelowRate(k, t) /\ Len(k.channels) > 1 => tuned.current = Following(k)
  BY DEF Retuned, ControlRecords
<1> HIDE DEF tuned
<1>5. /\ r.channels = tuned.channels /\ r.current = tuned.current
      /\ r.retune_attempts = Attempts(k, t)
  BY <1>2, <1>3 DEF ControlRecords
<1>6. CASE BelowRate(k, t)
  <2>1. r.retune_attempts = k.retune_attempts + 1
    BY <1>5, <1>6 DEF Attempts
  <2>2. ASSUME NEW g \in ToCome(k), FirstSource[g] # NoSource, g # r.freq
        PROVE  g \in ToCome(r)
    <3>1. CASE Len(k.channels) > 1
      <4>1. r.channels = k.channels /\ r.current = Following(k)
        BY <1>4, <1>5, <1>6, <3>1
      <4> HIDE DEF r
      <4>. QED BY <1>1, <2>1, <2>2, <4>1, RetunedToCome
    <3>2. CASE ~(Len(k.channels) > 1)
      <4>1. RetuneLimit \in Nat
        BY DEF ControlAssumption
      <4>2. Len(k.channels) - 1 <= k.retune_attempts
        BY <3>2, <4>1, ListNumbers
      <4>3. ToCome(k) = {}
        BY <4>1, <4>2, NothingToCome
      <4>. QED BY <2>2, <4>3
    <3>. QED BY <3>1, <3>2
  <2>. QED BY <1>6, <2>1, <2>2
<1>7. CASE ~BelowRate(k, t)
  <2>1. r.retune_attempts = 0
    BY <1>5, <1>7 DEF Attempts
  <2> HIDE DEF r
  <2>2. Tunable(r) \ {r.freq} \subseteq ToCome(r)
    BY <1>1, <2>1, AllToCome
  <2>. QED BY <1>7, <2>1, <2>2 DEF r
<1>. QED BY <1>6, <1>7

\* What is tracked is tracked by every step, up to the exit.
LEMMA TrackedByCheck ==
  ASSUME IInv, Assumptions, RetuneLimit > 0, \A s \in Systems : Tracked(s),
         Check
  PROVE  /\ ~exit_flag' => \A s \in Systems : Tracked(s)'
         /\ exit_failure' => exit_failure \/ GivesUpLast'
<1> DEFINE t == since_check
<1>a. /\ TypeOK /\ ControlInv /\ ~exit_flag /\ t \in Nat
      /\ check_message_count(t)
  BY DEF IInv, Check, Running, TypeOK, Assumptions, LoopAssumption
<1>1. /\ control' = [s \in Systems |->
           IF ~Reached(s, t) THEN control[s]
           ELSE IF Exceeds(control[s], t)
           THEN [control[s] EXCEPT !.retune_attempts =
                                     control[s].retune_attempts + 1]
           ELSE Checked(control[s], t)]
      /\ exit_flag' = (exit_flag \/ CheckEnds(t))
      /\ exit_failure' = (exit_failure \/ CheckEnds(t))
      /\ silent' = [s \in Systems |->
           IF ~BelowRate(control[s], t) THEN 0
           ELSE IF silent[s] > RetuneLimit THEN silent[s] ELSE silent[s] + 1]
      /\ untried' = [s \in Systems |->
           IF BelowRate(control[s], t)
           THEN untried[s] \ {control'[s].freq}
           ELSE Tunable(control'[s]) \ {control'[s].freq}]
  BY <1>a DEF check_message_count
<1> HIDE DEF t
<1>2. ASSUME NEW s \in Systems
      PROVE  /\ control[s] \in ControlRecords /\ Follows(control[s])
             /\ control[s].retune_attempts <= RetuneLimit
             /\ control[s].retune_attempts \in Nat
             /\ silent[s] = control[s].retune_attempts
             /\ untried[s] \subseteq ToCome(control[s])
             /\ \A f \in untried[s] : FirstSource[f] # NoSource
             /\ RetuneLimit \in Nat
  <2>1. control[s] \in ControlRecords /\ Follows(control[s])
    BY <1>a, FollowsAll DEF TypeOK, ControlTypeOK, ControlInv
  <2>2. control[s].retune_attempts <= RetuneLimit
    BY <1>a DEF ControlInv, AttemptsInv
  <2>3. RetuneLimit \in Nat
    BY DEF Assumptions, ControlAssumption
  <2>4. control[s].retune_attempts \in Nat
    BY <2>1, <2>3, ListNumbers
  <2>. QED BY <2>1, <2>2, <2>3, <2>4 DEF Tracked
<1>3. ASSUME ~CheckEnds(t), NEW s \in Systems PROVE Tracked(s)'
  <2>1. ~Exceeds(control[s], t) /\ Reached(s, t)
    BY <1>3 DEF CheckEnds, Reached
  <2>2. control'[s] = Checked(control[s], t)
    BY <1>1, <2>1
  <2>3. CASE BelowRate(control[s], t)
    <3>1. /\ control'[s].retune_attempts = control[s].retune_attempts + 1
          /\ \A g \in ToCome(control[s]) :
               FirstSource[g] # NoSource /\ g # control'[s].freq =>
                 g \in ToCome(control'[s])
      BY <1>a, <1>2, <2>1, <2>2, <2>3, CheckedToCome DEF Assumptions
    <3>2. untried'[s] = untried[s] \ {control'[s].freq}
      BY <1>1, <2>3
    <3>3. untried'[s] \subseteq ToCome(control'[s])
      BY <1>2, <3>1, <3>2
    <3>4. silent'[s] = silent[s] + 1
      <4>1. ~(silent[s] > RetuneLimit)
        BY <1>2
      <4>. QED BY <1>1, <2>1, <2>3, <4>1
    <3>5. \A f \in untried'[s] : FirstSource[f] # NoSource
      BY <1>2, <3>2
    <3>. QED BY <1>2, <3>1, <3>3, <3>4, <3>5 DEF Tracked
  <2>4. CASE ~BelowRate(control[s], t)
    <3>1. /\ control'[s].retune_attempts = 0
          /\ Tunable(control'[s]) \ {control'[s].freq} \subseteq ToCome(control'[s])
      BY <1>a, <1>2, <2>1, <2>2, <2>4, CheckedToCome DEF Assumptions
    <3>2. untried'[s] = Tunable(control'[s]) \ {control'[s].freq}
      BY <1>1, <2>4
    <3>3. silent'[s] = 0
      BY <1>1, <2>1, <2>4
    <3>4. \A f \in untried'[s] : FirstSource[f] # NoSource
      BY <3>2 DEF Tunable
    <3>. QED BY <3>1, <3>2, <3>3, <3>4 DEF Tracked
  <2>. QED BY <2>3, <2>4
<1>4. ASSUME CheckEnds(t) PROVE GivesUpLast'
  <2>1. PICK s \in Systems : Exceeds(control[s], t)
    BY <1>4 DEF CheckEnds
  <2>2. /\ BelowRate(control[s], t)
        /\ control[s].retune_attempts = RetuneLimit
    BY <1>2, <2>1 DEF Exceeds
  <2>3. \/ control'[s] = [control[s] EXCEPT !.retune_attempts =
                                              control[s].retune_attempts + 1]
        \/ control'[s] = control[s]
    BY <1>1, <2>1
  <2>4. control'[s].channels = control[s].channels
    BY <1>2, <2>3 DEF ControlRecords
  <2>5. silent'[s] = RetuneLimit + 1
    BY <1>1, <1>2, <2>1, <2>2
  <2>6. untried'[s] \subseteq untried[s]
    BY <1>1, <2>2
  <2>7. Len(control[s].channels) <= RetuneLimit + 1 => untried[s] = {}
    <3>1. ASSUME Len(control[s].channels) <= RetuneLimit + 1
          PROVE  Len(control[s].channels) - 1 <= control[s].retune_attempts
      BY <1>2, <2>2, <3>1, ListNumbers
    <3>2. ASSUME Len(control[s].channels) <= RetuneLimit + 1
          PROVE  ToCome(control[s]) = {}
      BY <1>2, <3>1, <3>2, NothingToCome
    <3>. QED BY <1>2, <3>2
  <2>8. GaveUp(s)' /\ RetuneLimit > 0
    <3>1. exit_failure'
      BY <1>1, <1>4, Zenon
    <3>2. silent'[s] > RetuneLimit
      BY <1>2, <2>5
    <3>. QED BY <3>1, <3>2 DEF GaveUp
  <2>. QED BY <2>4, <2>6, <2>7, <2>8 DEF GivesUpLast
<1>5. /\ ~exit_flag' => ~CheckEnds(t)
      /\ exit_failure' => exit_failure \/ CheckEnds(t)
  BY <1>1, Zenon
<1>6. ASSUME ~exit_flag', NEW s \in Systems PROVE Tracked(s)'
  BY <1>3, <1>5, <1>6
<1>7. ASSUME exit_failure' PROVE exit_failure \/ GivesUpLast'
  BY <1>4, <1>5, <1>7, Zenon
<1>. QED BY <1>6, <1>7

\* Steps that leave the receivers and the histories alone.
LEMMA SameRetries ==
  ASSUME RetriesInv,
         UNCHANGED <<control, exit_failure, silent, untried>>,
         exit_flag => exit_flag'
  PROVE  RetriesInv'
<1>1. ASSUME RetuneLimit > 0, ~exit_flag', NEW s \in Systems PROVE Tracked(s)'
  <2>1. Tracked(s)
    BY <1>1, Zenon DEF RetriesInv
  <2>2. /\ silent'[s] = silent[s] /\ control'[s] = control[s]
        /\ untried'[s] = untried[s]
    OBVIOUS
  <2>. QED BY <2>1, <2>2 DEF Tracked
<1>2. GivesUpLast => GivesUpLast'
  BY DEF GivesUpLast, GaveUp
<1>3. exit_failure' => exit_flag' /\ GivesUpLast'
  BY <1>2, Zenon DEF RetriesInv
<1>. QED BY <1>1, <1>3 DEF RetriesInv

\* Steps before the exit that leave everything to come.
LEMMA KeptRetries ==
  ASSUME RetriesInv, ~exit_flag,
         UNCHANGED <<exit_flag, exit_failure, silent, untried>>,
         \A s \in Systems :
           /\ control'[s].retune_attempts = control[s].retune_attempts
           /\ ToCome(control[s]) \subseteq ToCome(control'[s])
  PROVE  RetriesInv'
<1>1. ASSUME RetuneLimit > 0, NEW s \in Systems PROVE Tracked(s)'
  <2>1. Tracked(s)
    BY <1>1, Zenon DEF RetriesInv
  <2>2. silent'[s] = silent[s] /\ untried'[s] = untried[s]
    OBVIOUS
  <2>. QED BY <2>1, <2>2 DEF Tracked
<1>2. ~exit_failure'
  BY Zenon DEF RetriesInv
<1>. QED BY <1>1, <1>2 DEF RetriesInv

LEMMA RetriesStep ==
  ASSUME IInv, Assumptions, RetriesInv, [Next]_vars
  PROVE  RetriesInv'
<1>1. CASE Radio
  <2>1. UNCHANGED controlVars
    BY <1>1 DEF Radio, Fade, MoveControlChannel
  <2>. QED BY <2>1, SameRetries DEF controlVars
<1>2. CASE Second
  <2>1. PICK n \in [Systems -> 0..Rate] :
          control' = [s \in Systems |->
            [control[s] EXCEPT !.message_count = control[s].message_count + n[s]]]
    BY <1>2 DEF Second
  <2>2. ~exit_flag /\ UNCHANGED <<exit_flag, exit_failure, silent, untried>>
    BY <1>2, Zenon DEF Second, Running
  <2>3. ASSUME NEW s \in Systems
        PROVE  /\ control'[s].retune_attempts = control[s].retune_attempts
               /\ control'[s].channels = control[s].channels
               /\ control'[s].current = control[s].current
    <3>1. control[s] \in ControlRecords
      BY DEF IInv, TypeOK, ControlTypeOK
    <3>. QED BY <2>1, <3>1 DEF ControlRecords
  <2>4. ASSUME NEW s \in Systems
        PROVE  ToCome(control[s]) \subseteq ToCome(control'[s])
    BY <2>3, SameToCome
  <2>. QED BY <2>2, <2>3, <2>4, KeptRetries
<1>3. CASE Messages
  <2>1. ASSUME NEW s \in Systems, NEW f \in Band[s], ControlChannelMessage(s, f)
        PROVE  RetriesInv'
    <3>1. /\ control' = [control EXCEPT ![s] = WithChannel(control[s], f)]
          /\ UNCHANGED <<exit_flag, exit_failure, silent, untried>>
      BY <2>1, Zenon DEF ControlChannelMessage
    <3>2. ~exit_flag
      BY <2>1, Zenon DEF ControlChannelMessage, Running
    <3>3. control \in [Systems -> ControlRecords] /\ f \in Frequencies
      BY DEF IInv, TypeOK, ControlTypeOK, Assumptions, LoopAssumption
    <3>4. ASSUME NEW z \in Systems
          PROVE  /\ control'[z].retune_attempts = control[z].retune_attempts
                 /\ ToCome(control[z]) \subseteq ToCome(control'[z])
      <4>1. CASE z = s
        <5>1. control'[s] = WithChannel(control[s], f)
          BY <3>1, <3>3
        <5>2. Follows(control[s]) /\ control[s] \in ControlRecords
          BY <3>3, FollowsAll DEF IInv, ControlInv
        <5>3. ToCome(control[s]) \subseteq ToCome(WithChannel(control[s], f))
          BY <3>3, <5>2, AddedToCome DEF Assumptions, ControlAssumption
        <5>4. WithChannel(control[s], f).retune_attempts
                = control[s].retune_attempts
          BY <5>2 DEF WithChannel, ControlRecords
        <5>. QED BY <4>1, <5>1, <5>3, <5>4
      <4>2. CASE z # s
        BY <3>1, <3>3, <4>2
      <4>. QED BY <4>1, <4>2
    <3>. QED BY <3>1, <3>2, <3>4, KeptRetries
  <2>2. ASSUME NEW s \in Systems, NEW sg \in Supergroups, NEW ga,
               PatchAdd(s, sg, ga) \/ PatchDelete(s, sg, ga)
        PROVE  RetriesInv'
    <3>1. UNCHANGED controlVars
      BY <2>2 DEF PatchAdd, PatchDelete
    <3>. QED BY <3>1, SameRetries DEF controlVars
  <2>. QED BY <1>3, <2>1, <2>2 DEF Messages
<1>4. CASE Check
  <2>1. ~exit_flag
    BY <1>4, Zenon DEF Check, Running
  <2>2. ~exit_failure
    BY <2>1, Zenon DEF RetriesInv
  <2>3. ASSUME RetuneLimit > 0, ~exit_flag' PROVE \A s \in Systems : Tracked(s)'
    <3>1. \A s \in Systems : Tracked(s)
      BY <2>1, <2>3, Zenon DEF RetriesInv
    <3>. QED BY <1>4, <2>3, <3>1, TrackedByCheck
  <2>4. ASSUME exit_failure' PROVE exit_flag' /\ GivesUpLast'
    <3>1. CheckEnds(since_check)
      BY <1>4, <2>2, <2>4, Zenon DEF Check, check_message_count
    <3>2. exit_flag'
      BY <1>4, <3>1, Zenon DEF Check, check_message_count
    <3>3. RetuneLimit > 0
      BY <3>1 DEF CheckEnds, Exceeds
    <3>4. \A s \in Systems : Tracked(s)
      BY <2>1, <3>3, Zenon DEF RetriesInv
    <3>5. exit_failure \/ GivesUpLast'
      BY <1>4, <2>4, <3>3, <3>4, TrackedByCheck
    <3>. QED BY <2>2, <3>2, <3>5, Zenon
  <2>. QED BY <2>3, <2>4 DEF RetriesInv
<1>5. CASE Interrupt
  <2>1. /\ exit_flag' /\ UNCHANGED <<control, exit_failure, silent, untried>>
    BY <1>5 DEF Interrupt
  <2>. QED BY <2>1, SameRetries
<1>6. CASE UNCHANGED vars
  <2>1. UNCHANGED controlVars
    BY <1>6 DEF vars
  <2>. QED BY <2>1, SameRetries DEF controlVars
<1>. QED BY <1>1, <1>2, <1>3, <1>4, <1>5, <1>6 DEF Next

LEMMA InitRetries ==
  ASSUME Assumptions, Init, IInv
  PROVE  RetriesInv
<1>1. ~exit_failure
  BY DEF Init, ControlInit
<1>2. ASSUME NEW s \in Systems PROVE Tracked(s)
  <2>1. /\ control[s].retune_attempts = 0
        /\ control[s].freq = Configured[s][1]
        /\ silent[s] = 0
        /\ untried[s] = Tunable(control[s]) \ {Configured[s][1]}
    BY DEF Init, ControlInit
  <2>2. control[s] \in ControlRecords /\ Follows(control[s])
    BY FollowsAll DEF IInv, ControlInv, TypeOK, ControlTypeOK
  <2>3. untried[s] \subseteq ToCome(control[s])
    BY <2>1, <2>2, AllToCome
  <2>4. \A f \in untried[s] : FirstSource[f] # NoSource
    BY <2>1 DEF Tunable
  <2>. QED BY <2>1, <2>3, <2>4 DEF Tracked
<1>. QED BY <1>1, <1>2 DEF RetriesInv

-----------------------------------------------------------------------------

\* Every state of the main loop satisfies the invariant.
THEOREM Invariance == Spec => []IInv
<1>1. Init => IInv
  BY InitInv, AllAssumptions
<1>2. ASSUME IInv, [Next]_vars PROVE IInv'
  <2>1. CASE Radio
    BY <1>2, <2>1, RadioStep, AllAssumptions DEF Radio
  <2>2. CASE Messages
    BY <1>2, <2>2, ControlChannelStep, PatchStep, AllAssumptions DEF Messages
  <2>3. CASE Second
    BY <1>2, <2>3, SecondStep, AllAssumptions
  <2>4. CASE Check
    BY <1>2, <2>4, CheckStep, AllAssumptions
  <2>5. CASE Interrupt
    BY <1>2, <2>5, InterruptStep
  <2>6. CASE UNCHANGED vars
    <3>1. UNCHANGED <<control, exit_flag, exit_failure, silent, untried, on_air,
                      clear, talkgroup_patches, since_check, announced>>
      BY <2>6 DEF vars, controlVars
    <3>2. TypeOK'
      BY <1>2, <3>1 DEF IInv, TypeOK, ControlTypeOK
    <3>. QED BY <1>2, <3>1, <3>2, SameControl, SamePatches DEF IInv
  <2>. QED BY <1>2, <2>1, <2>2, <2>3, <2>4, <2>5, <2>6 DEF Next
<1>. QED BY <1>1, <1>2, PTL DEF Spec

\* The variables of the main loop keep their types, and no system is tried
\* more often than the limit and once more.
THEOREM TypeCorrect == Spec => []TypeOK
<1>1. IInv => TypeOK
  BY DEF IInv
<1>. QED BY <1>1, Invariance, PTL

\* retune_system never leaves a receiver at a source that does not cover its
\* frequency, nor the list and the receiver in disagreement, whatever is
\* added to the list.
THEOREM ReceiverAlwaysFollowsList == Spec => []ReceiverFollowsList
<1>1. IInv => ReceiverFollowsList
  BY DEF IInv, ControlInv
<1>. QED BY <1>1, Invariance, PTL

\* PatchesAreAsAnnounced: update_active_talkgroup_patches and
\* clear_stale_talkgroup_patches keep what was announced until it is stale,
\* and drop it in the check after that or when it is cancelled.
THEOREM PatchesAlwaysAsAnnounced == Spec => []PatchesAreAsAnnounced
<1>1. ASSUME IInv PROVE PatchesAreAsAnnounced
  <2>1. ASSUME NEW s \in P25, NEW sg \in Supergroups, NEW t \in Talkgroups
        PROVE  Agrees(talkgroup_patches[s][sg][t], announced[s][sg][t],
                      since_check)
    BY <1>1 DEF IInv, PatchInv, Kept
  <2>2. ASSUME NEW s \in P25, NEW sg \in Supergroups, NEW t \in Talkgroups
        PROVE  announced[s][sg][t] \in 0..LongAgo
    BY <1>1, AllAssumptions
       DEF IInv, TypeOK, Announcements, Assumptions, LoopAssumption
  <2>3. StaleAge \in Nat /\ LongAgo \in Nat
    BY AllAssumptions, AgeBounds
  <2>. QED BY <2>1, <2>2, <2>3 DEF PatchesAreAsAnnounced, Patched, Agrees
<1>. QED BY <1>1, Invariance, PTL

\* SupergroupOutlives: a patch never loses its supergroup before a member,
\* unless a message cancels the supergroup by name.
THEOREM SupergroupAlwaysOutlives == Spec => []SupergroupOutlives
<1>1. IInv => SupergroupOutlives
  BY DEF IInv, PatchInv, Kept, SupergroupOutlives, Patched
<1>. QED BY <1>1, Invariance, PTL

\* The program gives up only after the limit, and after every channel had its
\* turn if the limit allows for that.
THEOREM GivesUpAtLast == Spec => []GivesUpLast
<1>1. Init => RetriesInv
  BY InitInv, InitRetries, AllAssumptions
<1>2. IInv /\ RetriesInv /\ [Next]_vars => RetriesInv'
  BY RetriesStep, AllAssumptions
<1>3. RetriesInv => GivesUpLast
  BY DEF RetriesInv, GivesUpLast
<1>. QED BY <1>1, <1>2, <1>3, Invariance, PTL DEF Spec

=============================================================================
