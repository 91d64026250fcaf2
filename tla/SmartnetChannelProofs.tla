----------------------- MODULE SmartnetChannelProofs -----------------------
(***************************************************************************)
(* Proofs about SmartnetChannel, for all messages that the parser reads as *)
(* what they are when it is given them alone.                              *)
(***************************************************************************)
EXTENDS SmartnetChannel, SmartnetParserProofs

-----------------------------------------------------------------------------
(* Messages and their words.                                               *)

LEMMA MessageFacts ==
  ASSUME NEW s \in Systems, NEW m \in Messages[s]
  PROVE  /\ m # NoMessage
         /\ m.words \in Seq(Range(m.words))
         /\ Len(m.words) \in 1 .. 3
         /\ DOMAIN m.words = 1 .. Len(m.words)
         /\ m.words[1].cmd \notin Continuations
         /\ IsReadAlone(m, s)
<1>1. /\ m # NoMessage
      /\ m.words \in Seq(Range(m.words))
      /\ m.words[1].cmd \notin Continuations
      /\ IsReadAlone(m, s)
  BY MessageAssumption
<1>2. Len(m.words) \in 1 .. 3
  BY <1>1 DEF IsReadAlone
<1>3. DOMAIN m.words = 1 .. Len(m.words)
  BY <1>1, LenProperties
<1> QED BY <1>1, <1>2, <1>3

LEMMA TaggedFields ==
  ASSUME NEW w, NEW s, NEW m, NEW i
  PROVE  /\ Tagged(w, s, m, i).cmd = w.cmd
         /\ Tagged(w, s, m, i).grp = w.grp
         /\ Tagged(w, s, m, i).full_address = w.full_address
         /\ Tagged(w, s, m, i).of = m
         /\ Tagged(w, s, m, i).place = i
  BY DEF Tagged

\* The list holds m after its first words.
Holds(list, m, before, s) ==
  \A j \in DOMAIN m.words : list[before + j] = Tagged(m.words[j], s, m, j)

\* No part of a message that has arrived whole stands without the rest of it.
Orderly(list, s) ==
  \A i \in DOMAIN list : IsIntact(list[i]) =>
    LET m == list[i].of
        before == i - list[i].place
    IN  /\ m \in Messages[s]
        /\ list[i].place \in DOMAIN m.words
        /\ before >= 0
        /\ before + Len(m.words) <= Len(list)
        /\ Holds(list, m, before, s)

\* The same for one word, with the sorts of what it speaks of.
LEMMA OrderlyWord ==
  ASSUME NEW s \in Systems, NEW list \in Seq(Words), Orderly(list, s),
         NEW i \in 1 .. Len(list), IsIntact(list[i])
  PROVE  /\ list[i].of \in Messages[s]
         /\ list[i].place \in 1 .. Len(list[i].of.words)
         /\ Len(list[i].of.words) \in 1 .. 3
         /\ i - list[i].place \in Nat
         /\ i - list[i].place + Len(list[i].of.words) <= Len(list)
         /\ \A j \in 1 .. Len(list[i].of.words) :
              list[i - list[i].place + j] =
                Tagged(list[i].of.words[j], s, list[i].of, j)
<1>1. i \in DOMAIN list
  BY LenProperties
<1>2. /\ list[i].of \in Messages[s]
      /\ list[i].place \in DOMAIN list[i].of.words
      /\ i - list[i].place >= 0
      /\ i - list[i].place + Len(list[i].of.words) <= Len(list)
      /\ Holds(list, list[i].of, i - list[i].place, s)
  BY <1>1 DEF Orderly
<1> DEFINE m == list[i].of
           p == list[i].place
<1>3. /\ Len(m.words) \in 1 .. 3
      /\ DOMAIN m.words = 1 .. Len(m.words)
  BY <1>2, MessageFacts
<1>4. \A j \in 1 .. Len(m.words) : list[i - p + j] = Tagged(m.words[j], s, m, j)
  BY <1>2, <1>3 DEF Holds
<1>5. p \in 1 .. Len(m.words)
  BY <1>2, <1>3
<1>6. i - p \in Nat
  <2>1. i - p >= 0
    BY <1>2
  <2> HIDE DEF p
  <2> QED BY <1>3, <1>5, <2>1
<1> QED BY <1>2, <1>3, <1>4, <1>5, <1>6

LEMMA ArrivalsOrderly ==
  ASSUME NEW s \in Systems, NEW m \in Messages[s], NEW list \in Arrivals(m, s)
  PROVE  list \in Seq(Words) /\ Orderly(list, s)
<1>1. \A i \in DOMAIN list : list[i] \in Words
  <2>1. Range(list) \subseteq OnAir
    BY DEF OnAir
  <2> QED BY <2>1, ChannelAssumption DEF Range
<1>2. /\ m # NoMessage
      /\ Len(m.words) \in 1 .. 3
      /\ DOMAIN m.words = 1 .. Len(m.words)
  BY MessageFacts
<1>3. CASE list = WholeOf(m, s)
  <2>1. /\ DOMAIN list = 1 .. Len(m.words)
        /\ \A i \in 1 .. Len(m.words) : list[i] = Tagged(m.words[i], s, m, i)
    BY <1>2, <1>3 DEF WholeOf
  <2>2. list \in [1 .. Len(m.words) -> Words]
    BY <1>1, <1>3, <2>1 DEF WholeOf
  <2>3. list \in Seq(Words) /\ Len(list) = Len(m.words)
    BY <1>2, <2>2
  <2>4. ASSUME NEW i \in DOMAIN list
        PROVE  /\ list[i].of = m
               /\ list[i].place = i
    BY <2>1, TaggedFields
  <2>5. ASSUME NEW i \in DOMAIN list
        PROVE  Holds(list, m, i - i, s)
    <3>1. \A j \in 1 .. Len(m.words) : (i - i) + j = j
      BY <1>2, <2>1
    <3> QED BY <1>2, <2>1, <3>1 DEF Holds
  <2>6. ASSUME NEW i \in DOMAIN list
        PROVE  i - i >= 0 /\ i - i + Len(m.words) <= Len(list)
    BY <1>2, <2>1, <2>3
  <2> QED BY <1>2, <2>1, <2>3, <2>4, <2>5, <2>6 DEF Orderly
<1>4. CASE list # WholeOf(m, s)
  <2>1. PICK places \in Thinned(Len(m.words)) : list = PartOf(m, s, places)
    BY <1>4 DEF Arrivals
  <2>2. PICK k \in 0 .. Len(m.words) - 1 :
          places \in [1 .. k -> 1 .. Len(m.words)]
    BY <2>1 DEF Thinned
  <2>3. DOMAIN list = 1 .. k
    BY <2>1, <2>2 DEF PartOf
  <2>4. list \in [1 .. k -> Words]
    BY <1>1, <2>1, <2>2, <2>3 DEF PartOf
  <2>5. list \in Seq(Words)
    <3>1. k \in Nat
      BY <1>2, <2>2
    <3> QED BY <2>4, <3>1
  <2>6. ASSUME NEW i \in DOMAIN list
        PROVE  ~IsIntact(list[i])
    <3>1. list[i] = Tagged(m.words[places[i]], s, NoMessage, 0)
      BY <2>1, <2>2, <2>3 DEF PartOf
    <3> QED BY <3>1, TaggedFields DEF IsIntact
  <2> QED BY <2>5, <2>6 DEF Orderly
<1> QED BY <1>3, <1>4

-----------------------------------------------------------------------------
(* Lists of words that are put together and taken apart.                   *)

LEMMA ConcatOrderly ==
  ASSUME NEW s \in Systems,
         NEW list \in Seq(Words), Orderly(list, s),
         NEW more \in Seq(Words), Orderly(more, s)
  PROVE  Orderly(list \o more, s)
<1> DEFINE both == list \o more
           n == Len(list)
           r == Len(more)
<1>1. /\ both \in Seq(Words)
      /\ Len(both) = n + r
      /\ \A i \in 1 .. n + r :
           both[i] = IF i <= n THEN list[i] ELSE more[i - n]
  BY ConcatProperties
<1>2. n \in Nat /\ r \in Nat /\ DOMAIN both = 1 .. n + r
  BY <1>1, LenProperties
<1> SUFFICES ASSUME NEW i \in 1 .. n + r, IsIntact(both[i])
             PROVE  /\ both[i].of \in Messages[s]
                    /\ both[i].place \in DOMAIN both[i].of.words
                    /\ i - both[i].place >= 0
                    /\ i - both[i].place + Len(both[i].of.words) <= n + r
                    /\ Holds(both, both[i].of, i - both[i].place, s)
  BY <1>1, <1>2 DEF Orderly
<1> HIDE DEF both, n, r
<1>3. CASE i <= n
  <2> DEFINE w == list[i]
             m == w.of
             p == w.place
             l == Len(m.words)
  <2>1. i \in 1 .. n /\ both[i] = w
    BY <1>1, <1>2, <1>3
  <2>2. /\ m \in Messages[s]
        /\ p \in 1 .. l
        /\ l \in 1 .. 3
        /\ i - p \in Nat
        /\ i - p + l <= n
        /\ \A j \in 1 .. l : list[i - p + j] = Tagged(m.words[j], s, m, j)
    BY <2>1, OrderlyWord DEF n, l
  <2>3. DOMAIN m.words = 1 .. l
    BY <2>2, MessageFacts DEF l
  <2> HIDE DEF w, m, p, l
  <2>4. ASSUME NEW j \in 1 .. l
        PROVE  both[i - p + j] = Tagged(m.words[j], s, m, j)
    <3>1. /\ n \in Nat /\ r \in Nat /\ p \in 1 .. l /\ l \in 1 .. 3
          /\ i - p \in Nat /\ i - p + l <= n
      BY <1>2, <2>2
    <3>2. i - p + j \in 1 .. n + r /\ i - p + j <= n
      BY <3>1
    <3> QED BY <1>1, <2>2, <3>2
  <2>5. i - p >= 0 /\ i - p + l <= n + r
    BY <1>2, <2>2
  <2> QED BY <2>1, <2>2, <2>3, <2>4, <2>5 DEF w, m, p, l, Holds
<1>4. CASE ~(i <= n)
  <2> DEFINE k == i - n
             w == more[k]
             m == w.of
             p == w.place
             l == Len(m.words)
  <2>1. k \in 1 .. r /\ both[i] = w /\ i = n + k
    BY <1>1, <1>2, <1>4
  <2> HIDE DEF k
  <2>2. /\ m \in Messages[s]
        /\ p \in 1 .. l
        /\ l \in 1 .. 3
        /\ k - p \in Nat
        /\ k - p + l <= r
        /\ \A j \in 1 .. l : more[k - p + j] = Tagged(m.words[j], s, m, j)
    BY <2>1, OrderlyWord DEF r
  <2>3. DOMAIN m.words = 1 .. l
    BY <2>2, MessageFacts DEF l
  <2> HIDE DEF w, m, p, l
  <2>4. /\ n \in Nat /\ r \in Nat /\ l \in Nat /\ p \in Nat
        /\ k \in 1 .. r /\ i = n + k
        /\ k - p \in Nat /\ k - p + l <= r
    BY <1>2, <2>1, <2>2
  <2>5. ASSUME NEW j \in 1 .. l
        PROVE  both[i - p + j] = Tagged(m.words[j], s, m, j)
    <3> DEFINE x == i - p + j
               y == k - p + j
    <3>1. x \in 1 .. n + r /\ ~(x <= n) /\ x - n = y
      BY <2>4
    <3>2. more[y] = Tagged(m.words[j], s, m, j)
      BY <2>2
    <3> HIDE DEF x, y
    <3>3. both[x] = more[x - n]
      BY <1>1, <3>1
    <3>4. both[x] = Tagged(m.words[j], s, m, j)
      BY <3>1, <3>2, <3>3
    <3> QED BY <3>4 DEF x
  <2>6. i - p >= 0 /\ i - p + l <= n + r
    BY <2>4
  <2> QED BY <2>1, <2>2, <2>3, <2>5, <2>6 DEF w, m, p, l, Holds
<1> QED BY <1>3, <1>4

\* No message that has arrived whole is cut by taking the first d words.
Uncut(list, d) ==
  \A i \in 1 .. Len(list) :
    IsIntact(list[i]) /\ i > d => i - list[i].place >= d

LEMMA MovedPlaces ==
  ASSUME NEW i \in Nat, NEW d \in Nat, NEW p \in Nat, NEW l \in Nat,
         NEW r \in Nat, (i + d) - p >= d, (i + d) - p + l <= r + d
  PROVE  /\ i - p >= 0 /\ i - p + l <= r
         /\ \A j \in 1 .. l : /\ i - p + j \in 1 .. r
                              /\ (i - p + j) + d = (i + d) - p + j
  OBVIOUS

LEMMA RestOrderly ==
  ASSUME NEW s \in Systems,
         NEW list \in Seq(Words), Orderly(list, s),
         NEW d \in 0 .. Len(list), Uncut(list, d),
         NEW rest \in Seq(Words), Len(rest) = Len(list) - d,
         \A i \in 1 .. Len(rest) : rest[i] = list[i + d]
  PROVE  Orderly(rest, s)
<1>1. Len(list) \in Nat /\ Len(rest) \in Nat /\ DOMAIN rest = 1 .. Len(rest)
  BY LenProperties
<1> SUFFICES ASSUME NEW i \in 1 .. Len(rest), IsIntact(rest[i])
             PROVE  /\ rest[i].of \in Messages[s]
                    /\ rest[i].place \in DOMAIN rest[i].of.words
                    /\ i - rest[i].place >= 0
                    /\ i - rest[i].place + Len(rest[i].of.words) <= Len(rest)
                    /\ Holds(rest, rest[i].of, i - rest[i].place, s)
  BY <1>1 DEF Orderly
<1> DEFINE k == i + d
           w == list[k]
           m == w.of
           p == w.place
           l == Len(m.words)
           n == Len(list)
           r == Len(rest)
<1>2. k \in 1 .. n /\ rest[i] = w /\ k = i + d /\ k > d
  BY <1>1
<1> HIDE DEF k
<1>3. /\ m \in Messages[s]
      /\ p \in 1 .. l
      /\ l \in 1 .. 3
      /\ k - p \in Nat
      /\ k - p + l <= n
      /\ \A j \in 1 .. l : list[k - p + j] = Tagged(m.words[j], s, m, j)
  BY <1>2, OrderlyWord
<1>4. DOMAIN m.words = 1 .. l
  BY <1>3, MessageFacts DEF l
<1>5. k - p >= d
  BY <1>2 DEF Uncut
<1>6. /\ n \in Nat /\ r \in Nat /\ d \in 0 .. n /\ r = n - d
      /\ i \in 1 .. r
  BY <1>1
<1> HIDE DEF w, m, p, l, n, r
<1>7. /\ i \in Nat /\ d \in Nat /\ p \in Nat /\ l \in Nat /\ r \in Nat
      /\ (i + d) - p >= d
      /\ (i + d) - p + l <= r + d
  BY <1>2, <1>3, <1>5, <1>6
<1>8. ASSUME NEW j \in 1 .. l
      PROVE  rest[i - p + j] = Tagged(m.words[j], s, m, j)
  <2>1. i - p + j \in 1 .. r /\ (i - p + j) + d = k - p + j
    BY <1>2, <1>7, MovedPlaces
  <2>2. rest[i - p + j] = list[(i - p + j) + d]
    BY <2>1 DEF r
  <2> QED BY <1>3, <2>1, <2>2
<1>9. i - p >= 0 /\ i - p + l <= r
  BY <1>7, MovedPlaces
<1> QED BY <1>2, <1>3, <1>4, <1>8, <1>9 DEF w, m, p, l, n, r, Holds

\* Taking d words from what waits and moving up the next word is taking d
\* words from all that is to come.
LEMMA MovedUp ==
  ASSUME NEW list \in Seq(Words), NEW more \in Seq(Words), more # << >>,
         NEW d \in 0 .. Len(list)
  PROVE  LET all == list \o more
             rest == Append(SubSeq(list, d + 1, Len(list)), Head(more)) \o Tail(more)
         IN  /\ rest \in Seq(Words)
             /\ Len(rest) = Len(all) - d
             /\ \A i \in 1 .. Len(rest) : rest[i] = all[i + d]
<1> DEFINE all == list \o more
           n == Len(list)
           last == SubSeq(list, d + 1, n)
           moved == Append(last, Head(more))
           rest == moved \o Tail(more)
<1>1. n \in Nat /\ Len(more) \in Nat
  BY LenProperties
<1>2. /\ Len(all) = n + Len(more)
      /\ \A i \in 1 .. n + Len(more) :
           all[i] = IF i <= n THEN list[i] ELSE more[i - n]
  BY ConcatProperties
<1>3. /\ Head(more) \in Words /\ Head(more) = more[1]
      /\ Tail(more) \in Seq(Words)
      /\ Len(Tail(more)) = Len(more) - 1
      /\ \A i \in 1 .. Len(Tail(more)) : Tail(more)[i] = more[i + 1]
  BY HeadTailProperties
<1>4. /\ last \in Seq(Words)
      /\ Len(last) = n - d
      /\ \A i \in 1 .. n - d : last[i] = list[d + i]
  <2>1. \A i \in d + 1 .. n : list[i] \in Words
    BY <1>1, ElementOfSeq
  <2>2. /\ SubSeq(list, d + 1, n) \in Seq(Words)
        /\ Len(SubSeq(list, d + 1, n)) =
             IF d + 1 <= n THEN n - (d + 1) + 1 ELSE 0
        /\ \A i \in 1 .. n - (d + 1) + 1 :
             SubSeq(list, d + 1, n)[i] = list[d + 1 + i - 1]
    <3>1. d + 1 \in Int /\ n \in Int
      BY <1>1
    <3> QED BY <2>1, <3>1, SubSeqProperties
  <2> HIDE DEF n
  <2>3. \A i \in 1 .. n - d : i \in 1 .. n - (d + 1) + 1 /\ d + 1 + i - 1 = d + i
    BY <1>1
  <2> QED BY <1>1, <2>2, <2>3 DEF n
<1> HIDE DEF n, last
<1>5. /\ moved \in Seq(Words)
      /\ Len(moved) = n - d + 1
      /\ \A i \in 1 .. n - d : moved[i] = list[d + i]
      /\ moved[n - d + 1] = more[1]
  BY <1>3, <1>4, AppendProperties
<1> HIDE DEF moved
<1>6. /\ rest \in Seq(Words)
      /\ Len(rest) = Len(moved) + Len(Tail(more))
      /\ \A i \in 1 .. Len(moved) + Len(Tail(more)) :
           rest[i] = IF i <= Len(moved) THEN moved[i] ELSE Tail(more)[i - Len(moved)]
  BY <1>3, <1>5, ConcatProperties
<1> HIDE DEF rest, all
<1>7. d <= n /\ d \in Nat
  BY <1>1 DEF n
<1>8. Len(rest) = Len(all) - d
  BY <1>1, <1>2, <1>3, <1>5, <1>6, <1>7
<1>9. ASSUME NEW i \in 1 .. Len(rest)
      PROVE  rest[i] = all[i + d]
  <2>0. i \in 1 .. n + Len(more) - d
    BY <1>1, <1>2, <1>7, <1>8
  <2>1. CASE i <= n - d
    <3>1. rest[i] = list[d + i]
      BY <1>1, <1>5, <1>6, <1>7, <2>0, <2>1
    <3>2. i + d \in 1 .. n + Len(more) /\ i + d <= n
      BY <1>1, <1>7, <2>0, <2>1
    <3> QED BY <1>2, <3>1, <3>2
  <2>2. CASE i = n - d + 1
    <3>1. rest[i] = more[1]
      BY <1>1, <1>5, <1>6, <1>7, <2>0, <2>2
    <3> DEFINE x == i + d
    <3>2. x \in 1 .. n + Len(more) /\ ~(x <= n) /\ x - n = 1
      BY <1>1, <1>7, <2>0, <2>2
    <3> HIDE DEF x
    <3>3. all[x] = more[x - n]
      BY <1>2, <3>2
    <3> QED BY <3>1, <3>2, <3>3 DEF x
  <2>3. CASE i > n - d + 1
    <3> DEFINE x == i + d
               y == i - Len(moved)
    <3>1. /\ i \in 1 .. Len(moved) + Len(Tail(more)) /\ ~(i <= Len(moved))
          /\ y \in 1 .. Len(Tail(more))
          /\ y + 1 = x - n
      BY <1>1, <1>3, <1>5, <1>7, <2>0, <2>3
    <3>2. rest[i] = Tail(more)[y]
      BY <1>6, <3>1
    <3>3. x \in 1 .. n + Len(more) /\ ~(x <= n)
      BY <1>1, <1>7, <2>0, <2>3
    <3> HIDE DEF x, y
    <3>4. Tail(more)[y] = more[y + 1]
      BY <1>3, <3>1
    <3>5. all[x] = more[x - n]
      BY <1>2, <3>3
    <3>6. rest[i] = all[x]
      BY <3>1, <3>2, <3>4, <3>5
    <3> QED BY <3>6 DEF x
  <2> QED BY <1>1, <1>7, <2>0, <2>1, <2>2, <2>3
<1> QED BY <1>6, <1>8, <1>9 DEF rest, all, moved, last, n

-----------------------------------------------------------------------------
(* What the parser makes of the words at the front.                        *)

\* The parser looks at three fields only.
Alike(a, b) ==
  a.cmd = b.cmd /\ a.grp = b.grp /\ a.full_address = b.full_address

LEMMA TaggedAlike ==
  ASSUME NEW w, NEW s, NEW m, NEW i
  PROVE  Alike(Tagged(w, s, m, i), w)
  BY TaggedFields DEF Alike

LEMMA AlikeKinds ==
  ASSUME NEW plan,
         NEW a, NEW b, NEW c, NEW u, NEW v, NEW w,
         Alike(a, u), Alike(b, v)
  PROVE  /\ IsSingle(a, plan) <=> IsSingle(u, plan)
         /\ IsStatus(a, plan) <=> IsStatus(u, plan)
         /\ IsFirst(a, plan) <=> IsFirst(u, plan)
         /\ IsGrant(a, b, plan) <=> IsGrant(u, v, plan)
         /\ IsPair(a, b, plan) <=> IsPair(u, v, plan)
         /\ Alike(c, w) => (IsTriple(a, b, c, plan) <=> IsTriple(u, v, w, plan))
<1>1. IsSingle(a, plan) <=> IsSingle(u, plan)
  BY DEF Alike, IsSingle
<1>2. IsStatus(a, plan) <=> IsStatus(u, plan)
  BY <1>1 DEF Alike, IsStatus
<1>3. IsFirst(a, plan) <=> IsFirst(u, plan)
  BY <1>1, <1>2 DEF Alike, IsFirst
<1>4. IsGrant(a, b, plan) <=> IsGrant(u, v, plan)
  BY <1>3 DEF Alike, IsGrant
<1>5. IsPair(a, b, plan) <=> IsPair(u, v, plan)
  BY <1>2, <1>3, <1>4 DEF Alike, IsPair
<1>6. Alike(c, w) => (IsTriple(a, b, c, plan) <=> IsTriple(u, v, w, plan))
  BY <1>2, <1>3, <1>4 DEF Alike, IsTriple
<1> QED BY <1>1, <1>2, <1>3, <1>4, <1>5, <1>6

LEMMA AlikeMessages ==
  ASSUME NEW s, NEW a, NEW b, NEW u, NEW v, Alike(a, u), Alike(b, v)
  PROVE  MessageOf(a, b, s) = MessageOf(u, v, s)
<1>1. /\ IsFirst(a, Plan[s]) <=> IsFirst(u, Plan[s])
      /\ IsGrant(a, b, Plan[s]) <=> IsGrant(u, v, Plan[s])
  BY AlikeKinds
<1>2. /\ CallMessage("UPDATE", a, -1, s) = CallMessage("UPDATE", u, -1, s)
      /\ CallMessage("GRANT", b, a.full_address, s)
           = CallMessage("GRANT", v, u.full_address, s)
  BY DEF Alike, CallMessage, status, address
<1>3. ExtendedMessage(a, b, s) = ExtendedMessage(u, v, s)
  BY DEF Alike, ExtendedMessage
<1>4. UnitMessage("AFFILIATION", a.full_address, address(b), s)
        = UnitMessage("AFFILIATION", u.full_address, address(v), s)
  BY DEF Alike, address, status
<1> QED BY <1>1, <1>2, <1>3, <1>4 DEF MessageOf, Alike

\* A message of one word does not depend on the word after it.
LEMMA SingleMessage ==
  ASSUME NEW s, NEW a, NEW b, NEW c, ~IsFirst(a, Plan[s])
  PROVE  MessageOf(a, b, s) = MessageOf(a, c, s)
  BY DEF MessageOf, IsGrant

\* What takes a second and a third word.
LEMMA ExtraMeans ==
  ASSUME NEW a, NEW b, NEW c, NEW plan
  PROVE  /\ Extra(a, b, c, plan) \in 0 .. 2
         /\ Extra(a, b, c, plan) # 0 =>
              \/ b.cmd \in Continuations
              \/ IsGrant(a, b, plan)
         /\ Extra(a, b, c, plan) = 2 =>
              b.cmd \in Continuations /\ c.cmd \in Continuations
         /\ IsPair(a, b, plan) => Extra(a, b, c, plan) # 0
         /\ IsTriple(a, b, c, plan) => Extra(a, b, c, plan) = 2
  BY DEF Extra, IsPair, IsTriple, Continuations

\* The first word of a message does not continue another one.
LEMMA Beginning ==
  ASSUME NEW s \in Systems, NEW list \in Seq(Words), Orderly(list, s),
         NEW i \in 1 .. Len(list), IsIntact(list[i]), list[i].place = 1
  PROVE  /\ list[i].cmd \notin Continuations
         /\ Alike(list[i], list[i].of.words[1])
<1> DEFINE m == list[i].of
           l == Len(m.words)
<1>1. /\ m \in Messages[s]
      /\ 1 \in 1 .. l
      /\ \A j \in 1 .. l : list[i - 1 + j] = Tagged(m.words[j], s, m, j)
  BY OrderlyWord
<1>2. /\ list[i].of \in Messages[s]
      /\ 1 \in 1 .. Len(list[i].of.words)
      /\ list[i - 1 + 1] = Tagged(list[i].of.words[1], s, list[i].of, 1)
  <2> HIDE DEF m, l
  <2>1. list[i - 1 + 1] = Tagged(m.words[1], s, m, 1)
    BY <1>1
  <2> QED BY <1>1, <2>1 DEF m, l
<1>3. i - 1 + 1 = i
  BY LenProperties
<1>4. Alike(list[i], list[i].of.words[1])
  <2> DEFINE w == list[i].of.words[1]
  <2>1. list[i] = Tagged(w, s, list[i].of, 1)
    BY <1>2, <1>3
  <2>2. Alike(Tagged(w, s, list[i].of, 1), w)
    BY TaggedAlike
  <2> QED BY <2>1, <2>2
<1>5. list[i].of.words[1].cmd \notin Continuations
  BY <1>2, MessageFacts
<1> QED BY <1>4, <1>5 DEF Alike

\* Before any other word stands the word before it.
LEMMA Predecessor ==
  ASSUME NEW s \in Systems, NEW list \in Seq(Words), Orderly(list, s),
         NEW i \in 2 .. Len(list), IsIntact(list[i]), list[i].place # 1
  PROVE  /\ IsIntact(list[i - 1])
         /\ list[i - 1].of = list[i].of
         /\ list[i - 1].place = list[i].place - 1
<1> DEFINE m == list[i].of
           p == list[i].place
           j == p - 1
<1>1. i \in 1 .. Len(list)
  BY LenProperties
<1>2. /\ m \in Messages[s]
      /\ p \in 1 .. Len(m.words)
      /\ Len(m.words) \in 1 .. 3
      /\ \A k \in 1 .. Len(m.words) : list[i - p + k] = Tagged(m.words[k], s, m, k)
  BY <1>1, OrderlyWord
<1>3. m # NoMessage
  BY <1>2, MessageFacts
<1>4. j \in 1 .. Len(m.words) /\ i - p + j = i - 1
  <2> DEFINE l == Len(m.words)
  <2>1. p # 1 /\ i \in Int /\ p \in 1 .. l /\ l \in 1 .. 3
    BY <1>2, LenProperties
  <2> HIDE DEF p, l
  <2>2. j \in 1 .. l /\ i - p + j = i - 1
    BY <2>1
  <2> QED BY <2>2 DEF l
<1>5. list[i - 1] = Tagged(m.words[j], s, m, j)
  <2> HIDE DEF m, p, j
  <2> QED BY <1>2, <1>4
<1>6. list[i - 1].of = m /\ list[i - 1].place = j
  BY <1>5, TaggedFields
<1> QED BY <1>3, <1>6 DEF IsIntact

\* Of the first d words the intact ones are one message and all of it, and the
\* parser reads this message, or, one word late, makes a grant of it.
OneMessage(list, d, s) ==
  \/ \A i \in 1 .. d : ~IsIntact(list[i])
  \/ \E m \in Messages[s], before \in {0, 1} :
       /\ before + Len(m.words) <= d
       /\ \A j \in 1 .. Len(m.words) : list[before + j] = Tagged(m.words[j], s, m, j)
       /\ \A i \in 1 .. d :
            IsIntact(list[i]) => i \in before + 1 .. before + Len(m.words)
       /\ \/ before = 0 /\ MessageOf(list[1], list[2], s) = m.report
          \/ /\ before = 1
             /\ d = 2
             /\ is_chan_outbound(list[2].cmd, Plan[s])
             /\ MessageOf(list[1], list[2], s) =
                  IF list[2].grp
                  THEN [m.report EXCEPT !.type = "GRANT",
                          !.source = list[1].full_address]
                  ELSE m.report

LEMMA WholeFirst ==
  ASSUME NEW s \in Systems, NEW list \in Seq(Words), Orderly(list, s),
         Len(list) >= 3, IsIntact(list[1])
  PROVE  OneMessage(list, 1 + Extra(list[1], list[2], list[3], Plan[s]), s)
<1> DEFINE a == list[1]
           b == list[2]
           c == list[3]
           m == a.of
           l == Len(m.words)
           x == Extra(a, b, c, Plan[s])
<1>1. Len(list) \in Nat
  BY LenProperties
<1>2. 1 \in 1 .. Len(list) /\ 2 \in 2 .. Len(list) /\ 3 \in 2 .. Len(list)
  BY <1>1
<1>3. /\ m \in Messages[s]
      /\ a.place \in 1 .. l
      /\ l \in 1 .. 3
      /\ 1 - a.place \in Nat
      /\ \A j \in 1 .. l : list[1 - a.place + j] = Tagged(m.words[j], s, m, j)
  BY <1>2, OrderlyWord
<1>4. a.place = 1
  <2> DEFINE p == a.place
  <2>1. p \in 1 .. l /\ l \in 1 .. 3 /\ 1 - p \in Nat
    BY <1>3
  <2> HIDE DEF p, l
  <2>2. p = 1
    BY <2>1
  <2> QED BY <2>2 DEF p
<1>5. \A j \in 1 .. l : list[0 + j] = Tagged(m.words[j], s, m, j)
  BY <1>3, <1>4
<1>6. m # NoMessage /\ IsReadAlone(m, s)
  BY <1>3, MessageFacts
<1>7. Alike(a, m.words[1])
  BY <1>2, <1>4, Beginning
<1>8. x \in 0 .. 2
  BY ExtraMeans
\* The second and third words belong to the first, or are parts.
<1>9. IsIntact(b) /\ b.cmd \in Continuations => b.of = m /\ b.place = 2
  <2> SUFFICES ASSUME IsIntact(b), b.cmd \in Continuations
               PROVE  b.of = m /\ b.place = 2
    OBVIOUS
  <2>1. 2 \in 1 .. Len(list)
    BY <1>1
  <2>2. b.place # 1
    BY <2>1, Beginning
  <2>3. /\ list[2 - 1].of = b.of
        /\ list[2 - 1].place = b.place - 1
    BY <1>2, <2>2, Predecessor
  <2>4. b.of = m /\ b.place - 1 = 1
    <3>1. list[2 - 1] = a
      OBVIOUS
    <3> QED BY <1>4, <2>3, <3>1
  <2>5. b.place \in 1 .. Len(b.of.words) /\ Len(b.of.words) \in 1 .. 3
    BY <2>1, OrderlyWord
  <2> DEFINE p == b.place
             k == Len(b.of.words)
  <2> HIDE DEF p, k
  <2>6. p = 2
    BY <2>4, <2>5 DEF p, k
  <2> QED BY <2>4, <2>6 DEF p
<1>10. IsIntact(c) /\ c.cmd \in Continuations =>
         IsIntact(b) /\ c.of = b.of /\ c.place - 1 = b.place
  <2> SUFFICES ASSUME IsIntact(c), c.cmd \in Continuations
               PROVE  IsIntact(b) /\ c.of = b.of /\ c.place - 1 = b.place
    OBVIOUS
  <2>1. 3 \in 1 .. Len(list)
    BY <1>1
  <2>2. c.place # 1
    BY <2>1, Beginning
  <2>3. /\ IsIntact(list[3 - 1])
        /\ list[3 - 1].of = c.of
        /\ list[3 - 1].place = c.place - 1
    BY <1>2, <2>2, Predecessor
  <2> QED BY <2>3
\* It is enough that as many words are taken as the message has.
<1>11. ASSUME l <= 1 + x,
              2 <= 1 + x /\ IsIntact(b) => 2 <= l,
              3 <= 1 + x /\ IsIntact(c) => 3 <= l,
              MessageOf(a, b, s) = m.report
       PROVE  OneMessage(list, 1 + x, s)
  <2> HIDE DEF x, l
  <2>1. ASSUME NEW i \in 1 .. 1 + x, IsIntact(list[i])
        PROVE  i \in 0 + 1 .. 0 + l
    <3>1. i = 1 \/ i = 2 \/ i = 3
      BY <1>8
    <3>2. i <= l
      BY <1>3, <1>8, <1>11, <2>1, <3>1
    <3> QED BY <1>3, <3>1, <3>2
  <2>2. 0 + l <= 1 + x
    BY <1>3, <1>8, <1>11
  <2> QED BY <1>3, <1>5, <1>11, <2>1, <2>2 DEF OneMessage, l
<1>12. CASE l = 1
  <2>1. ~IsFirst(m.words[1], Plan[s])
    BY <1>6, <1>12 DEF IsReadAlone
  <2>2. ~IsFirst(a, Plan[s])
    BY <1>7, <2>1, AlikeKinds
  <2>3. MessageOf(a, b, s) = m.report
    <3>1. m.report = MessageOf(m.words[1], m.words[1], s)
      BY <1>6, <1>12 DEF IsReadAlone
    <3>2. MessageOf(a, a, s) = MessageOf(m.words[1], m.words[1], s)
      BY <1>7, AlikeMessages
    <3> QED BY <2>2, <3>1, <3>2, SingleMessage
  <2>4. ~(IsIntact(b) /\ b.cmd \in Continuations)
    <3>1. IsIntact(b) => b.place \in 1 .. Len(b.of.words)
      <4>1. 2 \in 1 .. Len(list)
        BY <1>1
      <4> QED BY <4>1, OrderlyWord
    <3> SUFFICES ASSUME IsIntact(b), b.cmd \in Continuations PROVE FALSE
      OBVIOUS
    <3>2. b.of = m /\ b.place = 2
      BY <1>9
    <3>3. 2 \in 1 .. 1
      BY <1>12, <3>1, <3>2
    <3> QED BY <3>3
  <2>5. x # 0 => b.cmd \in Continuations
    BY <2>2, ExtraMeans DEF IsGrant
  <2>6. x = 2 => c.cmd \in Continuations /\ b.cmd \in Continuations
    BY ExtraMeans
  <2> HIDE DEF x
  <2>7. ~(2 <= 1 + x /\ IsIntact(b))
    BY <1>8, <2>4, <2>5
  <2>8. ~(3 <= 1 + x /\ IsIntact(c))
    BY <1>8, <1>10, <2>4, <2>6
  <2>9. l <= 1 + x
    BY <1>8, <1>12
  <2> QED BY <1>11, <2>3, <2>7, <2>8, <2>9 DEF x
<1>13. CASE l = 2
  <2>1. /\ IsPair(m.words[1], m.words[2], Plan[s])
        /\ m.report = MessageOf(m.words[1], m.words[2], s)
    BY <1>6, <1>13 DEF IsReadAlone
  <2>2. Alike(b, m.words[2]) /\ b.of = m /\ b.place = 2
    <3>1. b = Tagged(m.words[2], s, m, 2)
      BY <1>5, <1>13
    <3> QED BY <3>1, TaggedAlike, TaggedFields
  <2>3. IsPair(a, b, Plan[s])
    BY <1>7, <2>1, <2>2, AlikeKinds
  <2>4. MessageOf(a, b, s) = m.report
    BY <1>7, <2>1, <2>2, AlikeMessages
  <2>5. x # 0
    BY <2>3, ExtraMeans
  <2>6. x = 2 => c.cmd \in Continuations
    BY ExtraMeans
  <2>7. ~(IsIntact(c) /\ c.cmd \in Continuations)
    <3> SUFFICES ASSUME IsIntact(c), c.cmd \in Continuations PROVE FALSE
      OBVIOUS
    <3>1. 3 \in 1 .. Len(list)
      BY <1>1
    <3>2. c.of = m /\ c.place - 1 = 2 /\ c.place \in 1 .. Len(c.of.words)
      BY <1>10, <2>2, <3>1, OrderlyWord
    <3>3. c.place \in 1 .. 2
      BY <1>13, <3>2
    <3> QED BY <3>2, <3>3
  <2> HIDE DEF x
  <2>8. ~(3 <= 1 + x /\ IsIntact(c))
    BY <1>8, <2>6, <2>7
  <2>9. l <= 1 + x /\ 2 <= l
    BY <1>8, <1>13, <2>5
  <2> QED BY <1>11, <2>4, <2>8, <2>9 DEF x
<1>14. CASE l = 3
  <2>1. /\ IsTriple(m.words[1], m.words[2], m.words[3], Plan[s])
        /\ m.report = MessageOf(m.words[1], m.words[2], s)
    BY <1>6, <1>14 DEF IsReadAlone
  <2>2. Alike(b, m.words[2]) /\ Alike(c, m.words[3])
    <3>1. b = Tagged(m.words[2], s, m, 2) /\ c = Tagged(m.words[3], s, m, 3)
      BY <1>5, <1>14
    <3> QED BY <3>1, TaggedAlike
  <2>3. IsTriple(a, b, c, Plan[s])
    BY <1>7, <2>1, <2>2, AlikeKinds
  <2>4. MessageOf(a, b, s) = m.report
    BY <1>7, <2>1, <2>2, AlikeMessages
  <2>5. x = 2
    BY <2>3, ExtraMeans
  <2> HIDE DEF x
  <2>6. l <= 1 + x /\ 2 <= l /\ 3 <= l
    BY <1>14, <2>5
  <2> QED BY <1>11, <2>4, <2>6 DEF x
<1> HIDE DEF l
<1>15. l = 1 \/ l = 2 \/ l = 3
  BY <1>3
<1> QED BY <1>12, <1>13, <1>14, <1>15

LEMMA UpdateToGrant ==
  ASSUME NEW s, NEW w, NEW source
  PROVE  [CallMessage("UPDATE", w, -1, s) EXCEPT !.type = "GRANT",
            !.source = source]
           = CallMessage("GRANT", w, source, s)
<1>1. [CallMessage("UPDATE", w, -1, s) EXCEPT !.type = "GRANT"]
        = CallMessage("GRANT", w, -1, s)
  BY DEF CallMessage
<1>2. [CallMessage("GRANT", w, -1, s) EXCEPT !.source = source]
        = CallMessage("GRANT", w, source, s)
  BY DEF CallMessage
<1> QED BY <1>1, <1>2, Zenon

\* A part of a message takes no word of a whole one, except that it makes the
\* update of a call into a grant.
LEMMA PartFirst ==
  ASSUME NEW s \in Systems, NEW list \in Seq(Words), Orderly(list, s),
         Len(list) >= 3, ~IsIntact(list[1])
  PROVE  OneMessage(list, 1 + Extra(list[1], list[2], list[3], Plan[s]), s)
<1> DEFINE a == list[1]
           b == list[2]
           c == list[3]
           x == Extra(a, b, c, Plan[s])
<1>1. Len(list) \in Nat
  BY LenProperties
<1>2. /\ 2 \in 1 .. Len(list) /\ 2 \in 2 .. Len(list)
      /\ 3 \in 1 .. Len(list) /\ 3 \in 2 .. Len(list)
  BY <1>1
<1>3. x \in 0 .. 2
  BY ExtraMeans
<1>4. IsIntact(b) => b.place = 1
  <2>1. list[2 - 1] = a
    OBVIOUS
  <2> QED BY <1>2, <2>1, Predecessor
<1>5. IsIntact(b) => b.cmd \notin Continuations
  BY <1>2, <1>4, Beginning
<1>6. IsIntact(c) /\ c.cmd \in Continuations => IsIntact(b)
  <2>1. list[3 - 1] = b
    OBVIOUS
  <2>2. IsIntact(c) /\ c.place = 1 => c.cmd \notin Continuations
    BY <1>2, Beginning
  <2> QED BY <1>2, <2>1, <2>2, Predecessor
<1>7. ASSUME 2 <= 1 + x => ~IsIntact(b),
             3 <= 1 + x => ~IsIntact(c)
      PROVE  OneMessage(list, 1 + x, s)
  <2> HIDE DEF x
  <2>1. ASSUME NEW i \in 1 .. 1 + x
        PROVE  ~IsIntact(list[i])
    <3>1. i = 1 \/ i = 2 \/ i = 3
      BY <1>3
    <3> QED BY <1>3, <1>7, <2>1, <3>1
  <2> QED BY <2>1 DEF OneMessage
<1>8. CASE x = 0
  <2> HIDE DEF x
  <2> QED BY <1>7, <1>8 DEF x
<1>9. CASE x # 0 /\ ~IsIntact(b)
  <2>1. x = 2 => c.cmd \in Continuations
    BY ExtraMeans
  <2> HIDE DEF x
  <2>2. 3 <= 1 + x => ~IsIntact(c)
    BY <1>3, <1>6, <1>9, <2>1
  <2> QED BY <1>7, <1>9, <2>2 DEF x
<1>10. CASE x # 0 /\ IsIntact(b)
  <2> DEFINE m == b.of
             w == m.words[1]
             l == Len(m.words)
  <2>1. IsGrant(a, b, Plan[s])
    BY <1>5, <1>10, ExtraMeans
  <2>2. IsFirst(a, Plan[s]) /\ is_chan_outbound(b.cmd, Plan[s])
    BY <2>1 DEF IsGrant
  <2>3. x = 1
    <3>1. x # 2
      BY <1>5, <1>10, ExtraMeans
    <3> HIDE DEF x
    <3> QED BY <1>3, <1>10, <3>1
  <2>4. /\ m \in Messages[s]
        /\ \A j \in 1 .. l : list[2 - 1 + j] = Tagged(m.words[j], s, m, j)
    BY <1>2, <1>4, <1>10, OrderlyWord
  <2>5. Alike(b, w)
    BY <1>2, <1>4, <1>10, Beginning
  <2>6. ~IsFirst(w, Plan[s]) /\ ~IsStatus(w, Plan[s])
    <3>1. ~IsFirst(b, Plan[s]) /\ ~IsStatus(b, Plan[s])
      BY <2>2 DEF IsFirst, IsStatus, IsSingle
    <3> QED BY <2>5, <3>1, AlikeKinds
  <2>7. IsReadAlone(m, s)
    BY <2>4, MessageFacts
  <2>8. l = 1 /\ m.report = MessageOf(w, w, s)
    BY <2>6, <2>7 DEF IsReadAlone, IsPair, IsTriple, IsGrant
  <2>9. m.report = MessageOf(b, b, s)
    BY <2>5, <2>8, AlikeMessages
  <2>10. ~is_chan_outbound(a.cmd, Plan[s])
    BY <2>2 DEF IsFirst, IsSingle
  <2>11. MessageOf(a, b, s) = IF b.grp
                              THEN [m.report EXCEPT !.type = "GRANT",
                                      !.source = a.full_address]
                              ELSE m.report
    <3>1. CASE b.grp
      <4>1. m.report = CallMessage("UPDATE", b, -1, s)
        BY <2>2, <2>9, <3>1 DEF MessageOf
      <4>2. MessageOf(a, b, s) = CallMessage("GRANT", b, a.full_address, s)
        BY <2>1, <2>10, <3>1 DEF MessageOf
      <4>4. [m.report EXCEPT !.type = "GRANT", !.source = a.full_address]
              = [CallMessage("UPDATE", b, -1, s) EXCEPT
                   !.type = "GRANT", !.source = a.full_address]
        BY <4>1, Zenon
      <4>5. MessageOf(a, b, s)
              = [m.report EXCEPT !.type = "GRANT", !.source = a.full_address]
        BY <4>2, <4>4, UpdateToGrant, Zenon
      <4> QED BY <3>1, <4>5, Zenon
    <3>2. CASE ~b.grp
      <4>1. ~IsFirst(b, Plan[s])
        BY <2>2 DEF IsFirst, IsSingle
      <4>2. m.report = Unknown(s)
        BY <2>9, <3>2, <4>1 DEF MessageOf, IsGrant
      <4>3. MessageOf(a, b, s) = Unknown(s)
        BY <2>1, <2>10, <3>2 DEF MessageOf
      <4> QED BY <3>2, <4>2, <4>3
    <3> QED BY <3>1, <3>2
  <2>12. \A j \in 1 .. l : list[1 + j] = Tagged(m.words[j], s, m, j)
    BY <2>4, <2>8
  <2>13. ASSUME NEW i \in 1 .. 2, IsIntact(list[i])
         PROVE  i \in 1 + 1 .. 1 + l
    BY <2>8, <2>13
  <2> HIDE DEF x, l
  <2>14. 1 + l <= 1 + x /\ 1 + x = 2
    BY <2>3, <2>8
  <2>15. OneMessage(list, 2, s)
    <3>1. /\ 1 + Len(m.words) <= 2
          /\ \A j \in 1 .. Len(m.words) :
               list[1 + j] = Tagged(m.words[j], s, m, j)
          /\ \A i \in 1 .. 2 :
               IsIntact(list[i]) => i \in 1 + 1 .. 1 + Len(m.words)
      BY <2>8, <2>12, <2>13 DEF l
    <3>2. \E r \in Messages[s], before \in {0, 1} :
            /\ before + Len(r.words) <= 2
            /\ \A j \in 1 .. Len(r.words) :
                 list[before + j] = Tagged(r.words[j], s, r, j)
            /\ \A i \in 1 .. 2 :
                 IsIntact(list[i]) => i \in before + 1 .. before + Len(r.words)
            /\ before = 1
            /\ MessageOf(list[1], list[2], s) =
                 IF list[2].grp
                 THEN [r.report EXCEPT !.type = "GRANT",
                         !.source = list[1].full_address]
                 ELSE r.report
      <4>1. m \in Messages[s] /\ 1 \in {0, 1}
        BY <2>4
      <4> QED BY <2>11, <3>1, <4>1, Zenon
    <3> QED BY <2>2, <3>2 DEF OneMessage
  <2> QED BY <2>14, <2>15 DEF x
<1> QED BY <1>8, <1>9, <1>10

\* What is left is in order, and what is taken is one message.
LEMMA OneMessageUncut ==
  ASSUME NEW s \in Systems, NEW list \in Seq(Words), Orderly(list, s),
         NEW d \in 1 .. Len(list), OneMessage(list, d, s)
  PROVE  Uncut(list, d)
<1> SUFFICES ASSUME NEW i \in 1 .. Len(list), IsIntact(list[i]), i > d,
                    ~(i - list[i].place >= d)
             PROVE  FALSE
  BY DEF Uncut
<1> DEFINE n == Len(list)
           u == list[i]
           p == u.place
           l == Len(u.of.words)
           j == d - (i - p)
<1>1. /\ u.of \in Messages[s]
      /\ p \in 1 .. l
      /\ l \in 1 .. 3
      /\ i - p \in Nat
      /\ \A k \in 1 .. l : list[i - p + k] = Tagged(u.of.words[k], s, u.of, k)
  BY OrderlyWord
<1>2. n \in Nat
  BY LenProperties
<1>3. u.of # NoMessage
  BY <1>1, MessageFacts
<1>4. j \in 1 .. l /\ i - p + j = d /\ j < p
  <2>1. i > d /\ ~(i - p >= d) /\ d \in 1 .. n /\ i \in 1 .. n
    OBVIOUS
  <2> HIDE DEF p, l, n
  <2> QED BY <1>1, <1>2, <2>1
<1>5. list[d] = Tagged(u.of.words[j], s, u.of, j)
  <2> HIDE DEF p, l, j, u
  <2> QED BY <1>1, <1>4
<1>6. list[d].of = u.of /\ list[d].place = j /\ IsIntact(list[d])
  BY <1>3, <1>5, TaggedFields DEF IsIntact
<1>7. d \in 1 .. d
  BY <1>2
<1>8. PICK m \in Messages[s], before \in {0, 1} :
        /\ before + Len(m.words) <= d
        /\ \A k \in 1 .. Len(m.words) :
             list[before + k] = Tagged(m.words[k], s, m, k)
        /\ \A k \in 1 .. d :
             IsIntact(list[k]) => k \in before + 1 .. before + Len(m.words)
  BY <1>6, <1>7 DEF OneMessage
<1>9. Len(m.words) \in 1 .. 3
  BY MessageFacts
<1> DEFINE q == Len(m.words)
<1>10. d \in before + 1 .. before + q
  BY <1>6, <1>7, <1>8
<1>11. d = before + q
  <2>1. q \in 1 .. 3 /\ before \in {0, 1} /\ before + q <= d
    BY <1>8, <1>9
  <2>2. d \in Int
    BY <1>2
  <2> HIDE DEF q
  <2> QED BY <1>10, <2>1, <2>2
<1>12. list[d] = Tagged(m.words[q], s, m, q)
  <2>1. q \in 1 .. q
    <3>1. \A k \in 1 .. 3 : k \in 1 .. k
      OBVIOUS
    <3> QED BY <1>9, <3>1
  <2>2. list[before + q] = Tagged(m.words[q], s, m, q)
    BY <1>8, <2>1
  <2> QED BY <1>11, <2>2
<1>13. u.of = m /\ j = q
  BY <1>6, <1>12, TaggedFields
<1>14. l = q
  BY <1>13
<1> HIDE DEF p, l, j, q
<1> QED BY <1>1, <1>4, <1>13, <1>14

-----------------------------------------------------------------------------
(* The invariant.                                                          *)

\* The words of s that no message has taken.
Pending(s) == Waiting \o air[s]

OneSystem == \A setup \in Setups : \E s \in Systems : setup = {s}

AirType ==
  /\ air \in [Systems -> Seq(Words)]
  /\ systems \in Setups

ChannelInv ==
  /\ TypeOK
  /\ AirType
  /\ \A s \in systems : Orderly(Pending(s), s)
  /\ MessagesAreReported

LEMMA WaitingSeq ==
  ASSUME TypeOK
  PROVE  Waiting \in Seq(Words) /\ Len(Waiting) = 3 - numConsumed
  BY WaitingIsWindow, WaitingType, WindowType

\* What a call of parse_message does to the words that are to come.
LEMMA ReceiveStep ==
  ASSUME TypeOK, AirType, NEW s \in Systems, Receive(s)
  PROVE  /\ Pending(s)' \in Seq(Words)
         /\ Skips => /\ taken' = << >>
                     /\ Len(Pending(s)') = Len(Pending(s)) - 0
                     /\ \A i \in 1 .. Len(Pending(s)') :
                          Pending(s)'[i] = Pending(s)[i + 0]
         /\ ~Skips => LET d == 1 + numConsumed'
                      IN  /\ d \in 1 .. 3
                          /\ Len(Waiting) = 3
                          /\ taken' = SubSeq(Waiting, 1, d)
                          /\ Len(Pending(s)') = Len(Pending(s)) - d
                          /\ \A i \in 1 .. Len(Pending(s)') :
                               Pending(s)'[i] = Pending(s)[i + d]
<1> DEFINE more == air[s]
<1>1. /\ Waiting \in Seq(Words)
      /\ Len(Waiting) = 3 - numConsumed
      /\ Len(Waiting) \in 0 .. 3
  BY WaitingSeq, WaitingType
<1>2. more \in Seq(Words) /\ more # << >>
  BY DEF AirType, Receive
<1>3. /\ parse_message(Head(more), s)
      /\ air' = [air EXCEPT ![s] = Tail(more)]
  BY DEF Receive
<1>4. Head(more) \in Words
  BY <1>2, HeadTailProperties
<1>5. Pending(s)' = Waiting' \o Tail(more)
  BY <1>3 DEF Pending, AirType
<1>6. Pending(s) = Waiting \o more
  BY DEF Pending
<1> HIDE DEF more
<1>7. CASE Skips
  <2>1. Waiting' = Append(Waiting, Head(more)) /\ taken' = << >>
    BY <1>3, <1>4, <1>7, SkipReceives DEF Stream!Receive
  <2>2. SubSeq(Waiting, 0 + 1, Len(Waiting)) = Waiting
    BY <1>1, SubSeqFull
  <2>3. 0 \in 0 .. Len(Waiting)
    BY <1>1
  <2>4. /\ Pending(s)' \in Seq(Words)
        /\ Len(Pending(s)') = Len(Pending(s)) - 0
        /\ \A i \in 1 .. Len(Pending(s)') : Pending(s)'[i] = Pending(s)[i + 0]
    BY <1>1, <1>2, <1>5, <1>6, <2>1, <2>2, <2>3, MovedUp
  <2> QED BY <1>7, <2>1, <2>4
<1>8. CASE ~Skips
  <2> DEFINE d == 1 + numConsumed'
  <2>1. d \in 1 .. 3 /\ Stream!Report(Head(more), d)
    BY <1>3, <1>4, <1>8, ParsingReports
  <2> HIDE DEF d
  <2>2. /\ Len(Waiting) = 3
        /\ Waiting' = Append(SubSeq(Waiting, d + 1, Len(Waiting)), Head(more))
        /\ taken' = SubSeq(Waiting, 1, d)
    BY <2>1 DEF Stream!Report, Stream!Lookahead
  <2>3. d \in 0 .. Len(Waiting)
    BY <2>1, <2>2
  <2>4. /\ Pending(s)' \in Seq(Words)
        /\ Len(Pending(s)') = Len(Pending(s)) - d
        /\ \A i \in 1 .. Len(Pending(s)') : Pending(s)'[i] = Pending(s)[i + d]
    <3> DEFINE rest == Append(SubSeq(Waiting, d + 1, Len(Waiting)), Head(more))
                         \o Tail(more)
               all == Waiting \o more
    <3>1. /\ rest \in Seq(Words)
          /\ Len(rest) = Len(all) - d
          /\ \A i \in 1 .. Len(rest) : rest[i] = all[i + d]
      BY <1>1, <1>2, <2>3, MovedUp
    <3>2. Pending(s)' = rest /\ Pending(s) = all
      BY <1>5, <1>6, <2>2
    <3> HIDE DEF rest, all
    <3> QED BY <3>1, <3>2
  <2> QED BY <1>8, <2>1, <2>2, <2>4 DEF d
<1> QED BY <1>7, <1>8

\* MessagesAreReported of any words and any message.
Reports(list, msg) ==
  \A i \in DOMAIN list :
    IsIntact(list[i]) =>
      LET m == list[i].of
          first == i + 1 - list[i].place
      IN  /\ HoldsAll(list, m, first)
          /\ \A j \in DOMAIN list :
               IsIntact(list[j]) => j \in first .. first + Len(m.words) - 1
          /\ \/ first = 1 /\ msg = m.report
             \/ /\ first = 2
                /\ is_chan_outbound(list[2].cmd, Plan[msg.system])
                /\ msg = IF list[2].grp
                         THEN [m.report EXCEPT !.type = "GRANT",
                                 !.source = list[1].full_address]
                         ELSE m.report

LEMMA ReportsMeans ==
  /\ MessagesAreReported <=> Reports(taken, message)
  /\ MessagesAreReported' <=> Reports(taken', message')
  BY DEF MessagesAreReported, Reports, HoldsAll

LEMMA MessageSystem ==
  ASSUME NEW s, NEW a, NEW b
  PROVE  MessageOf(a, b, s).system = s
<1>1. \A type, w, source : CallMessage(type, w, source, s).system = s
  BY DEF CallMessage
<1>2. \A type, source, group : UnitMessage(type, source, group, s).system = s
  BY DEF UnitMessage
<1>3. \A cmd, id : SysIdMessage(cmd, id, s).system = s
  BY DEF SysIdMessage
<1>4. Unknown(s).system = s
  BY DEF Unknown
<1>5. ExtendedMessage(a, b, s).system = s
  BY <1>2, <1>3, <1>4 DEF ExtendedMessage
<1> QED BY <1>1, <1>2, <1>4, <1>5 DEF MessageOf

LEMMA OneMessageReported ==
  ASSUME NEW s \in Systems, NEW list \in Seq(Words), Orderly(list, s),
         NEW d \in 1 .. 3, d <= Len(list), OneMessage(list, d, s),
         NEW msg, msg = MessageOf(list[1], list[2], s),
         NEW some, DOMAIN some = 1 .. d, \A i \in 1 .. d : some[i] = list[i]
  PROVE  Reports(some, msg)
<1>1. msg.system = s
  BY MessageSystem
<1> SUFFICES ASSUME NEW i \in 1 .. d, IsIntact(some[i])
             PROVE  LET m == some[i].of
                        first == i + 1 - some[i].place
                    IN  /\ HoldsAll(some, m, first)
                        /\ \A j \in DOMAIN some :
                             IsIntact(some[j]) =>
                               j \in first .. first + Len(m.words) - 1
                        /\ \/ first = 1 /\ msg = m.report
                           \/ /\ first = 2
                              /\ is_chan_outbound(some[2].cmd, Plan[msg.system])
                              /\ msg = IF some[2].grp
                                           THEN [m.report EXCEPT !.type = "GRANT",
                                                   !.source = some[1].full_address]
                                           ELSE m.report
  BY DEF Reports
<1>2. PICK m \in Messages[s], before \in {0, 1} :
        /\ before + Len(m.words) <= d
        /\ \A j \in 1 .. Len(m.words) :
             list[before + j] = Tagged(m.words[j], s, m, j)
        /\ \A j \in 1 .. d :
             IsIntact(list[j]) => j \in before + 1 .. before + Len(m.words)
        /\ \/ before = 0 /\ MessageOf(list[1], list[2], s) = m.report
           \/ /\ before = 1
              /\ d = 2
              /\ is_chan_outbound(list[2].cmd, Plan[s])
              /\ MessageOf(list[1], list[2], s) =
                   IF list[2].grp
                   THEN [m.report EXCEPT !.type = "GRANT",
                           !.source = list[1].full_address]
                   ELSE m.report
  BY DEF OneMessage
<1> DEFINE l == Len(m.words)
           first == before + 1
<1>3. l \in 1 .. 3 /\ DOMAIN m.words = 1 .. l
  BY MessageFacts
<1>4. ASSUME NEW k \in 1 .. l
      PROVE  /\ before + k \in 1 .. d
             /\ some[before + k].of = m
             /\ some[before + k].place = k
  <2>1. before + k \in 1 .. d
    <3>1. before + l <= d
      BY <1>2
    <3> HIDE DEF l
    <3> QED BY <1>3, <3>1
  <2>2. some[before + k] = Tagged(m.words[k], s, m, k)
    BY <1>2, <2>1
  <2> QED BY <2>1, <2>2, TaggedFields
<1>5. i \in before + 1 .. before + l
  BY <1>2
<1>6. some[i].of = m /\ some[i].place = i - before
  <2> DEFINE k == i - before
  <2>1. k \in 1 .. l /\ before + k = i
    <3> HIDE DEF l
    <3> QED BY <1>3, <1>5
  <2> HIDE DEF k, l
  <2>2. some[before + k].of = m /\ some[before + k].place = k
    BY <1>4, <2>1
  <2> QED BY <2>1, <2>2 DEF k
<1>7. i + 1 - some[i].place = first
  <2>1. i + 1 - (i - before) = before + 1
    OBVIOUS
  <2> QED BY <1>6, <2>1
<1>8. HoldsAll(some, m, first)
  <2> SUFFICES ASSUME NEW k \in 1 .. l
               PROVE  /\ first + k - 1 \in DOMAIN some
                      /\ some[first + k - 1].of = m
                      /\ some[first + k - 1].place = k
    BY <1>3 DEF HoldsAll
  <2>1. first + k - 1 = before + k
    BY <1>3
  <2> QED BY <1>4, <2>1
<1>9. ASSUME NEW j \in DOMAIN some, IsIntact(some[j])
      PROVE  j \in first .. first + l - 1
  <2>1. j \in before + 1 .. before + l
    BY <1>2, <1>9
  <2> HIDE DEF l
  <2> QED BY <1>3, <2>1
<1>10. \/ first = 1 /\ msg = m.report
       \/ /\ first = 2
          /\ is_chan_outbound(some[2].cmd, Plan[msg.system])
          /\ msg = IF some[2].grp
                       THEN [m.report EXCEPT !.type = "GRANT",
                               !.source = some[1].full_address]
                       ELSE m.report
  <2>1. CASE before = 0 /\ MessageOf(list[1], list[2], s) = m.report
    BY <2>1
  <2>2. CASE ~(before = 0 /\ MessageOf(list[1], list[2], s) = m.report)
    <3>1. /\ before = 1
          /\ d = 2
          /\ is_chan_outbound(list[2].cmd, Plan[s])
          /\ MessageOf(list[1], list[2], s) =
               IF list[2].grp
               THEN [m.report EXCEPT !.type = "GRANT",
                       !.source = list[1].full_address]
               ELSE m.report
      BY <1>2, <2>2
    <3>2. some[1] = list[1] /\ some[2] = list[2] /\ first = 2
      BY <3>1
    <3> HIDE DEF first
    <3> QED BY <1>1, <3>1, <3>2, Zenon
  <2> QED BY <2>1, <2>2
<1> HIDE DEF first, l
<1> QED BY <1>6, <1>7, <1>8, <1>9, <1>10 DEF l

LEMMA ParserUntouched ==
  ASSUME TypeOK, MessagesAreReported, UNCHANGED parserVars
  PROVE  TypeOK' /\ MessagesAreReported' /\ Waiting' = Waiting
<1>1. /\ stack' = stack /\ numStacked' = numStacked
      /\ numConsumed' = numConsumed
      /\ message' = message /\ taken' = taken
  BY DEF parserVars
<1>2. TypeOK'
  BY <1>1 DEF TypeOK
<1>3. MessagesAreReported'
  BY <1>1, ReportsMeans
<1>4. Waiting' = Waiting
  BY <1>1, Zenon DEF Waiting
<1> QED BY <1>2, <1>3, <1>4

LEMMA TransmitStep ==
  ASSUME ChannelInv, NEW s \in Systems, systems = {s}, NEW m \in Messages[s],
         Transmit(s, m)
  PROVE  ChannelInv'
<1>1. PICK list \in Arrivals(m, s) : air' = [air EXCEPT ![s] = list]
  BY DEF Transmit
<1>2. UNCHANGED <<systems, parserVars>> /\ air[s] = << >>
  BY DEF Transmit
<1>3. list \in Seq(Words) /\ Orderly(list, s)
  BY ArrivalsOrderly
<1>4. TypeOK' /\ MessagesAreReported' /\ Waiting' = Waiting
  BY <1>2, ParserUntouched DEF ChannelInv
<1>5. AirType'
  BY <1>1, <1>2, <1>3 DEF ChannelInv, AirType
<1>6. Orderly(Pending(s), s)'
  <2>1. Waiting \in Seq(Words)
    BY WaitingSeq DEF ChannelInv
  <2>2. Pending(s) = Waiting
    BY <1>2, <2>1, ConcatEmptySeq DEF Pending
  <2>3. Orderly(Waiting, s)
    BY <2>2 DEF ChannelInv
  <2>4. Pending(s)' = Waiting \o list
    BY <1>1, <1>4 DEF Pending, ChannelInv, AirType
  <2>5. Orderly(Waiting \o list, s)
    BY <1>3, <2>1, <2>3, ConcatOrderly
  <2> QED BY <2>4, <2>5
<1> QED BY <1>2, <1>4, <1>5, <1>6 DEF ChannelInv

LEMMA ReceiveKeepsOrder ==
  ASSUME ChannelInv, NEW s \in Systems, systems = {s}, Receive(s)
  PROVE  ChannelInv'
<1> DEFINE w == Head(air[s])
           list == Pending(s)
<1>1. /\ parse_message(w, s)
      /\ air' = [air EXCEPT ![s] = Tail(air[s])]
      /\ air[s] # << >>
      /\ systems' = systems
  BY DEF Receive
<1>2. air[s] \in Seq(Words) /\ TypeOK /\ AirType
  BY DEF ChannelInv, AirType
<1>3. w \in Words /\ Tail(air[s]) \in Seq(Words)
  BY <1>1, <1>2, HeadTailProperties
<1>4. TypeOK'
  BY <1>1, <1>2, <1>3, TypeStep
<1>5. AirType'
  BY <1>1, <1>3 DEF ChannelInv, AirType
<1>6. /\ Waiting \in Seq(Words)
      /\ list \in Seq(Words)
      /\ Len(list) = Len(Waiting) + Len(air[s])
      /\ \A i \in 1 .. Len(Waiting) + Len(air[s]) :
           list[i] = IF i <= Len(Waiting) THEN Waiting[i] ELSE air[s][i - Len(Waiting)]
  BY <1>2, WaitingSeq, ConcatProperties DEF Pending
<1>7. Orderly(list, s)
  BY DEF ChannelInv
<1>8. Len(air[s]) \in Nat /\ Len(Waiting) \in Nat /\ Len(list) \in Nat
  BY <1>2, <1>6, LenProperties
<1>9. Pending(s)' \in Seq(Words)
  BY <1>2, ReceiveStep
<1>10. CASE Skips
  <2>1. /\ taken' = << >>
        /\ Len(Pending(s)') = Len(list) - 0
        /\ \A i \in 1 .. Len(Pending(s)') : Pending(s)'[i] = list[i + 0]
    BY <1>2, <1>10, ReceiveStep
  <2>2. Uncut(list, 0)
    <3> SUFFICES ASSUME NEW i \in 1 .. Len(list), IsIntact(list[i])
                 PROVE  i - list[i].place >= 0
      BY DEF Uncut
    <3>1. i - list[i].place \in Nat
      BY <1>6, <1>7, OrderlyWord
    <3> QED BY <3>1
  <2>3. 0 \in 0 .. Len(list)
    BY <1>8
  <2> HIDE DEF list
  <2>4. Orderly(Pending(s)', s)
    BY <1>6, <1>7, <1>9, <2>1, <2>2, <2>3, RestOrderly
  <2>5. MessagesAreReported'
    BY <2>1 DEF MessagesAreReported
  <2>6. Orderly(Pending(s), s)'
    BY <2>4 DEF Orderly, Holds
  <2> QED BY <1>1, <1>4, <1>5, <2>5, <2>6 DEF ChannelInv
<1>11. CASE ~Skips
  <2> DEFINE d == 1 + numConsumed'
  <2>1. /\ d \in 1 .. 3
        /\ Len(Waiting) = 3
        /\ taken' = SubSeq(Waiting, 1, d)
        /\ Len(Pending(s)') = Len(list) - d
        /\ \A i \in 1 .. Len(Pending(s)') : Pending(s)'[i] = list[i + d]
    BY <1>2, <1>11, ReceiveStep
  <2>2. /\ list[1] = stack[2]
        /\ list[2] = stack[1]
        /\ list[3] = stack[0]
    <3>1. /\ Waiting[1] = stack[2]
          /\ Waiting[2] = stack[1]
          /\ Waiting[3] = stack[0]
      <4>1. 3 - numConsumed = 3
        BY <1>11 DEF Skips, ChannelInv, TypeOK
      <4>2. Waiting = Window(stack, 3)
        BY <4>1, WaitingIsWindow
      <4>3. Window(stack, 3) = <<stack[2], stack[1], stack[0]>>
        BY DEF Window
      <4> QED BY <4>2, <4>3
    <3>2. \A i \in 1 .. 3 : list[i] = Waiting[i]
      <4> HIDE DEF list
      <4>1. /\ Len(Waiting) = 3
            /\ \A i \in 1 .. 3 : i \in 1 .. Len(Waiting) + Len(air[s])
        BY <1>8, <2>1
      <4> QED BY <1>6, <4>1
    <3> HIDE DEF list
    <3> QED BY <3>1, <3>2
  <2>3. /\ d = 1 + Extra(list[1], list[2], list[3], Plan[s])
        /\ message' = MessageOf(list[1], list[2], s)
    BY <1>1, <1>2, <1>3, <1>11, <2>2, ParsingStep
  <2>4. Len(list) >= 3 /\ d <= Len(list) /\ d \in 1 .. Len(list) /\ d \in 0 .. Len(list)
    <3> DEFINE n == Len(list)
               k == Len(air[s])
    <3>1. n = 3 + k /\ k \in Nat /\ d \in 1 .. 3
      BY <1>6, <1>8, <2>1
    <3> HIDE DEF d, k, n
    <3>2. n >= 3 /\ d <= n /\ d \in 1 .. n /\ d \in 0 .. n
      BY <3>1
    <3> QED BY <3>2 DEF n
  <2>5. OneMessage(list, d, s)
    <3> HIDE DEF d, list
    <3>1. CASE IsIntact(list[1])
      BY <1>6, <1>7, <2>3, <2>4, <3>1, WholeFirst
    <3>2. CASE ~IsIntact(list[1])
      BY <1>6, <1>7, <2>3, <2>4, <3>2, PartFirst
    <3> QED BY <3>1, <3>2
  <2>6. Orderly(Pending(s)', s)
    <3> HIDE DEF d, list
    <3>1. Uncut(list, d)
      BY <1>6, <1>7, <2>4, <2>5, OneMessageUncut
    <3> QED BY <1>6, <1>7, <1>9, <2>1, <2>4, <3>1, RestOrderly
  <2>7. DOMAIN taken' = 1 .. d /\ \A i \in 1 .. d : taken'[i] = list[i]
    <3> HIDE DEF d, list
    <3>1. \A i \in 1 .. d : i \in 1 .. Len(Waiting)
      BY <1>8, <2>1
    <3>2. \A i \in 1 .. d : Waiting[i] \in Words
      BY <1>6, <3>1, ElementOfSeq
    <3>3. /\ taken' \in Seq(Words)
          /\ Len(taken') = d
          /\ \A i \in 1 .. d : taken'[i] = Waiting[i]
      <4>1. /\ SubSeq(Waiting, 1, d) \in Seq(Words)
            /\ Len(SubSeq(Waiting, 1, d)) = IF 1 <= d THEN d - 1 + 1 ELSE 0
            /\ \A i \in 1 .. d - 1 + 1 : SubSeq(Waiting, 1, d)[i] = Waiting[1 + i - 1]
        <5>1. 1 \in Int /\ d \in Int
          BY <2>1
        <5> QED BY <3>2, <5>1, SubSeqProperties
      <4>2. \A i \in 1 .. d : i \in 1 .. d - 1 + 1 /\ 1 + i - 1 = i
        BY <2>1
      <4>3. (IF 1 <= d THEN d - 1 + 1 ELSE 0) = d
        BY <2>1
      <4> QED BY <2>1, <4>1, <4>2, <4>3
    <3>4. DOMAIN taken' = 1 .. d
      BY <3>3, LenProperties
    <3>5. \A i \in 1 .. d : list[i] = Waiting[i]
      BY <1>6, <1>8, <3>1
    <3> QED BY <3>3, <3>4, <3>5
  <2>8. MessagesAreReported'
    <3> HIDE DEF d, list
    <3>1. Reports(taken', message')
      BY <1>6, <1>7, <2>1, <2>3, <2>4, <2>5, <2>7, OneMessageReported
    <3> QED BY <3>1, ReportsMeans
  <2>9. Orderly(Pending(s), s)'
    BY <2>6 DEF Orderly, Holds
  <2> QED BY <1>1, <1>4, <1>5, <2>8, <2>9 DEF ChannelInv
<1> QED BY <1>10, <1>11

-----------------------------------------------------------------------------
(* The theorems.                                                           *)

LEMMA ChannelInvInductive ==
  ASSUME OneSystem
  PROVE  /\ ChannelInit => ChannelInv
         /\ ChannelInv /\ [ChannelNext]_channelVars => ChannelInv'
<1>1. ASSUME ChannelInit PROVE ChannelInv
  <2>1. TypeOK
    BY <1>1 DEF ChannelInit, Init, TypeOK
  <2>2. /\ systems \in Setups
        /\ air = [s \in Systems |-> << >>]
        /\ taken = << >>
        /\ numConsumed = 3
    BY <1>1 DEF ChannelInit, Init
  <2>3. AirType
    BY <2>2 DEF AirType
  <2>4. Waiting = << >>
    <3>1. Waiting \in Seq(Words) /\ Len(Waiting) = 0
      BY <2>1, <2>2, WaitingSeq
    <3> QED BY <3>1, EmptySeq
  <2>5. ASSUME NEW s \in systems PROVE Orderly(Pending(s), s)
    <3>1. s \in Systems
      BY <2>2, ChannelAssumption
    <3>2. Pending(s) = << >>
      <4>1. << >> \in Seq(Words)
        OBVIOUS
      <4> QED BY <2>2, <2>4, <3>1, <4>1, ConcatEmptySeq DEF Pending
    <3> QED BY <3>2 DEF Orderly
  <2>6. MessagesAreReported
    BY <2>2 DEF MessagesAreReported
  <2> QED BY <2>1, <2>3, <2>5, <2>6 DEF ChannelInv
<1>2. ASSUME ChannelInv, [ChannelNext]_channelVars PROVE ChannelInv'
  <2>1. PICK s \in Systems : systems = {s}
    BY <1>2 DEF OneSystem, ChannelInv, AirType
  <2>2. ASSUME NEW m \in Messages[s], Transmit(s, m) PROVE ChannelInv'
    BY <1>2, <2>1, <2>2, TransmitStep
  <2>3. CASE Receive(s)
    BY <1>2, <2>1, <2>3, ReceiveKeepsOrder
  <2>4. CASE UNCHANGED channelVars
    <3>1. /\ UNCHANGED <<systems, air>>
          /\ UNCHANGED <<stack, numStacked, numConsumed, message, taken>>
      BY <2>4 DEF channelVars, parserVars
    <3>2. TypeOK' /\ MessagesAreReported' /\ Waiting' = Waiting
      BY <1>2, <2>4, ParserUntouched DEF ChannelInv, channelVars
    <3>3. AirType' /\ \A t : Pending(t)' = Pending(t)
      BY <1>2, <3>1, <3>2 DEF ChannelInv, AirType, Pending
    <3>4. ASSUME NEW t \in systems' PROVE Orderly(Pending(t), t)'
      <4>1. Orderly(Pending(t), t)
        BY <1>2, <3>1 DEF ChannelInv
      <4>2. Pending(t)' = Pending(t)
        BY <3>3
      <4> QED BY <4>1, <4>2 DEF Orderly, Holds
    <3> QED BY <3>2, <3>3, <3>4 DEF ChannelInv
  <2> QED BY <1>2, <2>1, <2>2, <2>3, <2>4 DEF ChannelNext
<1> QED BY <1>1, <1>2

(* The words that wait and those that are still to arrive always hold each *)
(* message that has arrived whole from its first to its last word: the     *)
(* parser never cuts one, whatever was lost before and between them.       *)
THEOREM MessagesAreNeverCut ==
  ASSUME OneSystem
  PROVE  ChannelSpec => [](\A s \in systems : Orderly(Pending(s), s))
<1>1. ChannelInv => \A s \in systems : Orderly(Pending(s), s)
  BY DEF ChannelInv
<1>2. ChannelInit => ChannelInv
  BY ChannelInvInductive
<1>3. ChannelInv /\ [ChannelNext]_channelVars => ChannelInv'
  BY ChannelInvInductive
<1> QED BY <1>1, <1>2, <1>3, PTL DEF ChannelSpec

(* MessagesAreReported: with one system, a message that arrives whole is   *)
(* reported whole and as what it is, except for the update that a lone     *)
(* first word turns into a grant.  This is so for any set of messages of   *)
(* one to three words that the parser reads when it is given them alone.   *)
THEOREM WholeMessagesAreReported ==
  ASSUME OneSystem
  PROVE  ChannelSpec => []MessagesAreReported
<1>1. ChannelInv => MessagesAreReported
  BY DEF ChannelInv
<1>2. ChannelInit => ChannelInv
  BY ChannelInvInductive
<1>3. ChannelInv /\ [ChannelNext]_channelVars => ChannelInv'
  BY ChannelInvInductive
<1> QED BY <1>1, <1>2, <1>3, PTL DEF ChannelSpec

=============================================================================
