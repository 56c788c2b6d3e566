-------------------------- MODULE ClipboardProofs --------------------------
(***************************************************************************)
(* Proofs about the clipboard's way through a device, for any texts, any   *)
(* number of copies, of texts of the peer and of exits of wl-paste, any    *)
(* ttl and any size of the suppressor.                                     *)
(*                                                                         *)
(* The bounds on what is sent are kept by an account for each text: every  *)
(* report of it that is sent or still on its way (in a callback, the event *)
(* channel, the poller or a write that will be reported) is paid for by a  *)
(* copy of the user, an exit of wl-paste, an entry of the suppressor or    *)
(* one that was lost: pushed out, or expired while something was under     *)
(* way.  An entry pays for the report of its write.                        *)
(***************************************************************************)
EXTENDS ClipboardDevice, FiniteSetTheorems, SequenceTheorems, TLAPS

\* How many members of a sequence are in V.
Where(s, V) == {k \in 1..Len(s) : s[k] \in V}
Count(s, V) == Cardinality(Where(s, V))

Entry == [text : Texts, age : 0..(TTL - 1)]
Of(t) == {x \in Entry : x.text = t}

\* The types: the device's own variables, what is counted of each text, the two queues.
DeviceType ==
    /\ platform \in {"poll", "watch"} /\ owner \in {"user", "peer", "nobody"}
    /\ board \in Texts \cup {None} /\ inbox \in Texts \cup {None} /\ view \in Texts \cup {None}
    /\ unseen \in BOOLEAN /\ watching \in BOOLEAN /\ poller \in {"idle", "read"}
    /\ writer = Idle \/ writer \in [text : Texts, at : {"write", "set"}]

TallyType ==
    /\ copiers \in [Texts -> Nat] /\ callbacks \in [Texts -> Nat] /\ lost \in [Texts -> Nat]
    /\ copied \in [Texts -> Nat] /\ received \in [Texts -> Nat]
    /\ written \in [Texts -> Nat] /\ sent \in [Texts -> Nat]
    /\ exits \in Nat

QueueType ==
    /\ events \in Seq(Texts)
    /\ entries \in Seq(Entry) /\ Len(entries) <= MaxEntries

ClipboardType == DeviceType /\ TallyType /\ QueueType

\* What a platform does not use.
Unused ==
    /\ platform = "poll" =>
         ~watching /\ \A t \in Texts : copiers[t] = 0 /\ callbacks[t] = 0
    /\ platform = "watch" => ~unseen /\ poller = "idle" /\ writer.at # "set"

Writing(t) == IF writer.text = t THEN 1 ELSE 0

\* The report a wl-paste that is not running will make when it is started again.
Restart == IF watching THEN 0 ELSE 1

WatchAccount ==
    platform = "watch" => \A t \in Texts :
        /\ sent[t] + Restart <= copied[t] + exits + lost[t]
        /\ sent[t] + Restart + callbacks[t] + Count(events, {t}) + copiers[t] + Writing(t)
             <= copied[t] + exits + lost[t] + Count(entries, Of(t))

\* The reports the poller will make of the text on the clipboard.
ToRead(t) ==
    IF board = t THEN (IF unseen THEN 1 ELSE 0) + (IF poller = "read" THEN 1 ELSE 0) ELSE 0

PollAccount ==
    platform = "poll" => \A t \in Texts :
        /\ sent[t] <= 2 * copied[t] + written[t] + lost[t]
        /\ sent[t] + ToRead(t) + Count(events, {t}) + Writing(t)
             <= 2 * copied[t] + written[t] + lost[t] + Count(entries, Of(t))

\* A text that never came from the peer is nowhere on the peer's side of the device.
FromThePeer ==
    /\ inbox # None => received[inbox] > 0
    /\ writer # Idle => received[writer.text] > 0
    /\ \A t \in Texts : copiers[t] > 0 => received[t] > 0
    /\ \A k \in 1..Len(entries) : received[entries[k].text] > 0

\* Where such a text is between the user's copy and the peer.
OwnCopyUnderWay ==
    owner = "user" =>
        /\ board \in Texts
        /\ received[board] = 0 =>
             /\ platform = "poll" =>
                  \/ inbox # None \/ writer # Idle \/ unseen \/ poller = "read"
                  \/ events # <<>> /\ events[Len(events)] = board
                  \/ events = <<>> /\ view = board
             /\ platform = "watch" =>
                  \/ ~watching \/ sent[board] > 0 \/ callbacks[board] > 0
                  \/ \E k \in 1..Len(events) : events[k] = board

\* The entries are in the order they were added in: what expires is at the front.
InOrder(s) == \A i, j \in 1..Len(s) : i <= j => s[j].age <= s[i].age

ClipboardInv ==
    /\ ClipboardType /\ Unused /\ InOrder(entries)
    /\ WatchAccount /\ PollAccount /\ FromThePeer /\ OwnCopyUnderWay

-----------------------------------------------------------------------------
\* Least and greatest members, which take the well-foundedness of the natural numbers.
LEMMA LeastExists ==
    ASSUME NEW T, T \subseteq Nat, T # {}
    PROVE  \E x \in T : \A y \in T : x <= y
  <1>1. PICK x \in T : \A y \in T : ~(<<y, x>> \in OpToRel(<, Nat))
    BY NatLessThanWellFounded, WFMin
  <1>2. \A y \in T : y < x => <<y, x>> \in OpToRel(<, Nat)
    BY DEF OpToRel
  <1>3. \A y \in T : ~(y < x)
    BY <1>1, <1>2
  <1> QED
    BY <1>3

LEMMA MinIsLeast ==
    ASSUME NEW T, T \subseteq Nat, T # {}
    PROVE  Min(T) \in T /\ \A y \in T : Min(T) <= y
  BY LeastExists DEF Min

LEMMA MaxIsGreatest ==
    ASSUME NEW n \in Nat, NEW T, T \subseteq 1..n, T # {}
    PROVE  Max(T) \in T /\ \A y \in T : y <= Max(T)
  <1> DEFINE D == {n - k : k \in T}
  <1>1. D \subseteq Nat /\ D # {}
    <2>1. \A k \in T : n - k \in Nat
      OBVIOUS
    <2> QED
      BY <2>1
  <1>2. PICK d \in D : \A e \in D : d <= e
    BY <1>1, LeastExists
  <1>3. PICK m \in T : d = n - m
    BY <1>2
  <1>4. \A k \in T : k <= m
    <2> SUFFICES ASSUME NEW k \in T PROVE k <= m
      OBVIOUS
    <2>1. n - k \in D
      OBVIOUS
    <2>2. n - m <= n - k
      BY <1>2, <1>3, <2>1
    <2> QED
      BY <2>2
  <1> QED
    BY <1>4 DEF Max

-----------------------------------------------------------------------------
\* Counting the members of a sequence.
LEMMA CountType ==
    ASSUME NEW S, NEW s \in Seq(S), NEW V
    PROVE  IsFiniteSet(Where(s, V)) /\ Count(s, V) \in Nat
  <1>1. Len(s) \in Nat /\ Where(s, V) \subseteq 1..Len(s)
    BY LenProperties DEF Where
  <1>2. IsFiniteSet(1..Len(s))
    BY <1>1, FS_Interval
  <1>3. IsFiniteSet(Where(s, V))
    BY <1>1, <1>2, FS_Subset
  <1> QED
    BY <1>3, FS_CardinalityType DEF Count

LEMMA CountEmpty ==
    ASSUME NEW V
    PROVE  Count(<<>>, V) = 0
  <1>1. Where(<<>>, V) = {}
    BY DEF Where
  <1> QED
    BY <1>1, FS_EmptySet DEF Count

LEMMA CountPositive ==
    ASSUME NEW S, NEW s \in Seq(S), NEW V, NEW k \in 1..Len(s), s[k] \in V
    PROVE  Count(s, V) > 0
  <1>1. k \in Where(s, V)
    BY DEF Where
  <1>2. Cardinality(Where(s, V)) # 0
    BY <1>1, CountType, FS_EmptySet
  <1> QED
    BY <1>2, CountType DEF Count

\* One more at the end (Append).
LEMMA CountAppend ==
    ASSUME NEW S, NEW s \in Seq(S), NEW e \in S, NEW V
    PROVE  Count(Append(s, e), V) = Count(s, V) + (IF e \in V THEN 1 ELSE 0)
  <1> DEFINE r == Append(s, e)
             n == Len(s)
  <1>1. /\ n \in Nat /\ Len(r) = n + 1 /\ r[n + 1] = e
        /\ \A i \in 1..n : r[i] = s[i]
    BY AppendProperties, LenProperties
  <1> HIDE DEF r
  <1>2. /\ IsFiniteSet(Where(s, V)) /\ Count(s, V) \in Nat /\ n + 1 \notin Where(s, V)
    BY <1>1, CountType DEF Where
  <1>3. CASE e \in V
    <2>1. Where(r, V) = Where(s, V) \cup {n + 1}
      BY <1>1, <1>3 DEF Where
    <2>2. Cardinality(Where(s, V) \cup {n + 1}) = Cardinality(Where(s, V)) + 1
      BY <1>2, FS_AddElement
    <2> QED
      BY <1>3, <2>1, <2>2 DEF Count, r
  <1>4. CASE e \notin V
    <2>1. Where(r, V) = Where(s, V)
      BY <1>1, <1>4 DEF Where
    <2> QED
      BY <1>2, <1>4, <2>1 DEF Count, r
  <1> QED
    BY <1>3, <1>4

\* r is s without its member k.
Without(s, k, r) ==
    /\ Len(r) = Len(s) - 1
    /\ \A i \in 1..Len(r) : r[i] = IF i < k THEN s[i] ELSE s[i + 1]

LEMMA CountWithout ==
    ASSUME NEW S, NEW s \in Seq(S), NEW k \in 1..Len(s), NEW r \in Seq(S), Without(s, k, r),
           NEW V
    PROVE  Count(r, V) = Count(s, V) - (IF s[k] \in V THEN 1 ELSE 0)
  <1> DEFINE n == Len(s)
             from == [i \in Where(r, V) |-> IF i < k THEN i ELSE i + 1]
             W == Where(s, V) \ {k}
  <1>1. /\ n \in Nat /\ Len(r) = n - 1
        /\ \A i \in 1..(n - 1) : r[i] = IF i < k THEN s[i] ELSE s[i + 1]
    BY LenProperties DEF Without
  <1>2. \A i \in Where(r, V) : i \in 1..(n - 1) /\ from[i] \in W
    BY <1>1 DEF Where
  <1>3. \A i, j \in Where(r, V) : from[i] = from[j] => i = j
    BY <1>2
  <1>4. \A m \in W : \E i \in Where(r, V) : from[i] = m
    <2> SUFFICES ASSUME NEW m \in W PROVE \E i \in Where(r, V) : from[i] = m
      OBVIOUS
    <2>1. m \in 1..n /\ m # k /\ s[m] \in V
      BY DEF Where
    <2>2. CASE m < k
      <3>1. m \in Where(r, V)
        BY <1>1, <2>1, <2>2 DEF Where
      <3> QED
        BY <2>2, <3>1
    <2>3. CASE m > k
      <3>1. m - 1 \in 1..(n - 1) /\ ~(m - 1 < k) /\ m - 1 + 1 = m
        BY <1>1, <2>1, <2>3
      <3>2. r[m - 1] = s[m]
        BY <1>1, <3>1
      <3>3. m - 1 \in Where(r, V)
        BY <1>1, <2>1, <3>1, <3>2 DEF Where
      <3> QED
        BY <3>1, <3>3
    <2> QED
      BY <2>1, <2>2, <2>3
  <1>5. from \in Bijection(Where(r, V), W)
    <2>1. from \in [Where(r, V) -> W]
      BY <1>2
    <2> HIDE DEF from
    <2> QED
      BY <1>3, <1>4, <2>1 DEF Bijection, Injection, Surjection, IsInjective
  <1>6. IsFiniteSet(Where(r, V)) /\ IsFiniteSet(Where(s, V)) /\ Count(s, V) \in Nat
    BY CountType
  <1>7. Cardinality(W) = Count(r, V)
    BY <1>5, <1>6, FS_Bijection DEF ExistsBijection, Count
  <1>8. Cardinality(W) = IF k \in Where(s, V) THEN Count(s, V) - 1 ELSE Count(s, V)
    BY <1>6, FS_RemoveElement DEF Count
  <1>9. k \in Where(s, V) <=> s[k] \in V
    BY DEF Where
  <1> QED
    BY <1>6, <1>7, <1>8, <1>9

LEMMA TailWithout ==
    ASSUME NEW S, NEW s \in Seq(S), s # <<>>
    PROVE  Tail(s) \in Seq(S) /\ 1 \in 1..Len(s) /\ Without(s, 1, Tail(s)) /\ Head(s) = s[1]
  BY HeadTailProperties, LenProperties, EmptySeq DEF Without

LEMMA RemoveAtWithout ==
    ASSUME NEW S, NEW s \in Seq(S), NEW k \in 1..Len(s)
    PROVE  RemoveAt(s, k) \in Seq(S) /\ Without(s, k, RemoveAt(s, k))
  <1> DEFINE a == SubSeq(s, 1, k - 1)
             b == SubSeq(s, k + 1, Len(s))
  <1>1. Len(s) \in Nat /\ \A i \in 1..Len(s) : s[i] \in S
    BY LenProperties, ElementOfSeq
  <1>2. a \in Seq(S) /\ Len(a) = k - 1 /\ \A i \in 1..(k - 1) : a[i] = s[i]
    BY <1>1, SubSeqProperties
  <1>3. b \in Seq(S) /\ Len(b) = Len(s) - k /\ \A i \in 1..(Len(s) - k) : b[i] = s[k + i]
    BY <1>1, SubSeqProperties
  <1> HIDE DEF a, b
  <1>4. /\ a \o b \in Seq(S) /\ Len(a \o b) = Len(s) - 1
        /\ \A i \in 1..(Len(s) - 1) : (a \o b)[i] = IF i <= k - 1 THEN a[i] ELSE b[i - (k - 1)]
    BY <1>1, <1>2, <1>3, ConcatProperties
  <1>5. \A i \in 1..(Len(s) - 1) : (a \o b)[i] = IF i < k THEN s[i] ELSE s[i + 1]
    <2> SUFFICES ASSUME NEW i \in 1..(Len(s) - 1)
                 PROVE  (a \o b)[i] = IF i < k THEN s[i] ELSE s[i + 1]
      OBVIOUS
    <2>1. CASE i < k
      BY <1>1, <1>2, <1>4, <2>1
    <2>2. CASE ~(i < k)
      <3>1. i - (k - 1) \in 1..(Len(s) - k) /\ k + (i - (k - 1)) = i + 1
        BY <1>1, <2>2
      <3>2. b[i - (k - 1)] = s[i + 1]
        BY <1>3, <3>1
      <3> QED
        BY <1>1, <1>4, <2>2, <3>2
    <2> QED
      BY <2>1, <2>2
  <1>6. RemoveAt(s, k) = a \o b
    BY DEF RemoveAt, a, b
  <1> QED
    BY <1>4, <1>5, <1>6 DEF Without

-----------------------------------------------------------------------------
\* The suppressor.
LEMMA LimitsType == TTL \in Nat /\ TTL > 0 /\ MaxEntries \in Nat /\ MaxEntries > 0
                    /\ None \notin Texts
  BY DeviceAssumption DEF DeviceAssumption

LEMMA EntriesFinite ==
    ASSUME NEW s \in Seq(Entry)
    PROVE  /\ Len(s) \in Nat /\ DOMAIN s = 1..Len(s)
           /\ \A k \in 1..Len(s) : /\ s[k] \in Entry /\ s[k].text \in Texts
                                   /\ s[k].age \in Nat /\ s[k].age < TTL
  <1>1. Len(s) \in Nat /\ DOMAIN s = 1..Len(s) /\ \A k \in 1..Len(s) : s[k] \in Entry
    BY LenProperties, ElementOfSeq
  <1>2. \A x \in Entry : x.text \in Texts /\ x.age \in Nat /\ x.age < TTL
    BY LimitsType DEF Entry
  <1> QED
    BY <1>1, <1>2

LEMMA InOrderWithout ==
    ASSUME NEW s \in Seq(Entry), InOrder(s), NEW k \in 1..Len(s), NEW r \in Seq(Entry),
           Without(s, k, r)
    PROVE  InOrder(r)
  <1>1. Len(s) \in Nat /\ Len(r) = Len(s) - 1
    BY EntriesFinite DEF Without
  <1> SUFFICES ASSUME NEW i \in 1..Len(r), NEW j \in 1..Len(r), i <= j
               PROVE  r[j].age <= r[i].age
    BY DEF InOrder
  <1> DEFINE from(x) == IF x < k THEN x ELSE x + 1
  <1>2. from(i) \in 1..Len(s) /\ from(j) \in 1..Len(s) /\ from(i) <= from(j)
    BY <1>1
  <1>3. r[i] = s[from(i)] /\ r[j] = s[from(j)]
    BY DEF Without
  <1> HIDE DEF from
  <1> QED
    BY <1>2, <1>3 DEF InOrder

\* Members of r are members of s.
OnlyOf(r, s) == \A i \in 1..Len(r) : \E k \in 1..Len(s) : r[i] = s[k]

LEMMA OnlyOfWithout ==
    ASSUME NEW s \in Seq(Entry), NEW k \in 1..Len(s), NEW r \in Seq(Entry), Without(s, k, r)
    PROVE  OnlyOf(r, s)
  <1>1. Len(s) \in Nat /\ Len(r) = Len(s) - 1
    BY EntriesFinite DEF Without
  <1>2. \A i \in 1..Len(r) : IF i < k THEN i \in 1..Len(s) ELSE i + 1 \in 1..Len(s)
    BY <1>1
  <1> QED
    BY <1>2 DEF OnlyOf, Without

\* Consume takes out one entry of the text, if there is any, and no other.
LEMMA ConsumedOne ==
    ASSUME NEW s \in Seq(Entry), InOrder(s), NEW t \in Texts
    PROVE  /\ Consumed(s, t) \in Seq(Entry) /\ InOrder(Consumed(s, t))
           /\ Len(Consumed(s, t)) <= Len(s) /\ OnlyOf(Consumed(s, t), s)
           /\ \A u \in Texts : Count(Consumed(s, t), Of(u)) =
                Count(s, Of(u)) - (IF Suppressed(s, t) /\ u = t THEN 1 ELSE 0)
           /\ Suppressed(s, t) <=> Count(s, Of(t)) > 0
  <1>1. Len(s) \in Nat /\ DOMAIN s = 1..Len(s)
    BY EntriesFinite
  <1>2. \A k \in 1..Len(s), u \in Texts : s[k] \in Of(u) <=> s[k].text = u
    BY EntriesFinite DEF Of
  <1>3. CASE Suppressed(s, t)
    <2> DEFINE I == {k \in 1..Len(s) : s[k].text = t}
               k == Min(I)
    <2>1. I # {} /\ I \subseteq Nat
      BY <1>1, <1>3 DEF Suppressed
    <2>2. k \in I
      BY <2>1, MinIsLeast
    <2>3. Consumed(s, t) = RemoveAt(s, k)
      BY <2>1 DEF Consumed, RemoveFirstMatch, SelectInSeq
    <2> HIDE DEF k
    <2>4. k \in 1..Len(s) /\ s[k].text = t
      BY <2>2
    <2>5. Consumed(s, t) \in Seq(Entry) /\ Without(s, k, Consumed(s, t))
      BY <2>3, <2>4, RemoveAtWithout
    <2>6. InOrder(Consumed(s, t)) /\ OnlyOf(Consumed(s, t), s)
      BY <2>4, <2>5, InOrderWithout, OnlyOfWithout
    <2>7. Len(Consumed(s, t)) <= Len(s)
      BY <1>1, <2>5 DEF Without
    <2>8. \A u \in Texts : Count(Consumed(s, t), Of(u)) =
            Count(s, Of(u)) - (IF s[k] \in Of(u) THEN 1 ELSE 0)
      BY <2>4, <2>5, CountWithout
    <2>9. \A u \in Texts : s[k] \in Of(u) <=> u = t
      BY <1>2, <2>4
    <2>10. Count(s, Of(t)) > 0
      BY <1>2, <2>4, CountPositive
    <2> QED
      BY <1>3, <2>5, <2>6, <2>7, <2>8, <2>9, <2>10
  <1>4. CASE ~Suppressed(s, t)
    <2>1. \A k \in 1..Len(s) : s[k].text # t
      BY <1>1, <1>4 DEF Suppressed
    <2>2. Consumed(s, t) = s
      BY <2>1 DEF Consumed, RemoveFirstMatch
    <2>3. Where(s, Of(t)) = {}
      BY <1>2, <2>1 DEF Where
    <2>4. Count(s, Of(t)) = 0
      BY <2>3, FS_EmptySet DEF Count
    <2>5. \A u \in Texts : Count(s, Of(u)) \in Nat
      BY CountType
    <2>6. OnlyOf(s, s)
      BY DEF OnlyOf
    <2>7. \A u \in Texts : Count(Consumed(s, t), Of(u)) =
            Count(s, Of(u)) - (IF Suppressed(s, t) /\ u = t THEN 1 ELSE 0)
      BY <1>4, <2>2, <2>5
    <2> QED
      BY <1>1, <1>4, <2>2, <2>4, <2>6, <2>7
  <1> QED
    BY <1>3, <1>4

\* A new entry is the youngest and the last.
LEMMA AppendEntry ==
    ASSUME NEW s \in Seq(Entry), InOrder(s), NEW t \in Texts
    PROVE  LET r == Append(s, [text |-> t, age |-> 0])
           IN  /\ r \in Seq(Entry) /\ InOrder(r) /\ Len(r) = Len(s) + 1
               /\ \A i \in 1..Len(r) : r[i].text = t \/ \E k \in 1..Len(s) : r[i] = s[k]
               /\ \A u \in Texts : Count(r, Of(u)) = Count(s, Of(u)) + (IF u = t THEN 1 ELSE 0)
  <1> DEFINE e == [text |-> t, age |-> 0]
             r == Append(s, e)
  <1>1. e \in Entry /\ e.text = t /\ e.age = 0
    BY LimitsType DEF Entry
  <1>2. \A u \in Texts : e \in Of(u) <=> u = t
    BY <1>1 DEF Of
  <1> HIDE DEF e
  <1>3. /\ r \in Seq(Entry) /\ Len(r) = Len(s) + 1 /\ r[Len(s) + 1] = e /\ Len(s) \in Nat
        /\ \A i \in 1..Len(s) : r[i] = s[i]
    BY <1>1, AppendProperties, LenProperties
  <1>4. \A u \in Texts : Count(r, Of(u)) = Count(s, Of(u)) + (IF u = t THEN 1 ELSE 0)
    BY <1>1, <1>2, CountAppend
  <1> HIDE DEF r
  <1>5. InOrder(r)
    <2> SUFFICES ASSUME NEW i \in 1..Len(r), NEW j \in 1..Len(r), i <= j
                 PROVE  r[j].age <= r[i].age
      BY DEF InOrder
    <2>1. CASE j = Len(s) + 1
      <3>1. r[j].age = 0 /\ r[i].age \in Nat
        BY <1>1, <1>3, <2>1, EntriesFinite
      <3> QED
        BY <3>1
    <2>2. CASE j # Len(s) + 1
      <3>1. i \in 1..Len(s) /\ j \in 1..Len(s)
        BY <1>3, <2>2
      <3> QED
        BY <1>3, <3>1 DEF InOrder
    <2> QED
      BY <2>1, <2>2
  <1>6. \A i \in 1..Len(r) : r[i].text = t \/ \E k \in 1..Len(s) : r[i] = s[k]
    BY <1>1, <1>3
  <1> QED
    BY <1>3, <1>4, <1>5, <1>6 DEF r, e

\* Add pushes out the first entry of a full list, and no other.
LEMMA AddedOne ==
    ASSUME NEW s \in Seq(Entry), InOrder(s), Len(s) <= MaxEntries, NEW t \in Texts
    PROVE  /\ Added(s, t) \in Seq(Entry) /\ InOrder(Added(s, t)) /\ Len(Added(s, t)) <= MaxEntries
           /\ \A i \in 1..Len(Added(s, t)) :
                Added(s, t)[i].text = t \/ \E k \in 1..Len(s) : Added(s, t)[i] = s[k]
           /\ Full(s) => Head(s).text \in Texts
           /\ \A u \in Texts : Count(Added(s, t), Of(u)) =
                Count(s, Of(u)) + (IF u = t THEN 1 ELSE 0)
                - (IF Full(s) /\ Head(s).text = u THEN 1 ELSE 0)
  <1>1. Len(s) \in Nat /\ MaxEntries \in Nat /\ MaxEntries > 0
    BY EntriesFinite, LimitsType
  <1>2. \A u \in Texts : Count(s, Of(u)) \in Nat
    BY CountType
  <1>3. CASE Full(s)
    <2> DEFINE r == Tail(s)
    <2>1. Len(s) = MaxEntries /\ s # <<>>
      BY <1>1, <1>3, EmptySeq DEF Full
    <2>2. r \in Seq(Entry) /\ 1 \in 1..Len(s) /\ Without(s, 1, r) /\ Head(s) = s[1]
      BY <2>1, TailWithout
    <2>3. SubSeq(s, Len(s) - MaxEntries + 2, Len(s)) = r
      <3>1. Len(s) - MaxEntries + 2 = 2
        BY <1>1, <2>1
      <3> QED
        BY <2>1, <3>1, TailIsSubSeq
    <2>4. Added(s, t) = Append(r, [text |-> t, age |-> 0])
      BY <1>3, <2>3 DEF Added
    <2> HIDE DEF r
    <2>5. InOrder(r) /\ OnlyOf(r, s) /\ Len(r) = Len(s) - 1
      BY <2>2, InOrderWithout, OnlyOfWithout DEF Without
    <2>6. \A u \in Texts : Count(r, Of(u)) = Count(s, Of(u)) - (IF s[1] \in Of(u) THEN 1 ELSE 0)
      BY <2>2, CountWithout
    <2>7. Head(s) \in Entry /\ Head(s).text \in Texts
          /\ \A u \in Texts : s[1] \in Of(u) <=> Head(s).text = u
      BY <2>2, EntriesFinite DEF Of
    <2>8. /\ Added(s, t) \in Seq(Entry) /\ InOrder(Added(s, t))
          /\ Len(Added(s, t)) = Len(r) + 1
          /\ \A i \in 1..Len(Added(s, t)) :
               Added(s, t)[i].text = t \/ \E k \in 1..Len(r) : Added(s, t)[i] = r[k]
          /\ \A u \in Texts :
               Count(Added(s, t), Of(u)) = Count(r, Of(u)) + (IF u = t THEN 1 ELSE 0)
      BY <2>2, <2>4, <2>5, AppendEntry
    <2>9. Len(Added(s, t)) <= MaxEntries
      BY <1>1, <2>1, <2>5, <2>8
    <2>10. \A u \in Texts : Count(Added(s, t), Of(u)) =
             Count(s, Of(u)) + (IF u = t THEN 1 ELSE 0)
             - (IF Full(s) /\ Head(s).text = u THEN 1 ELSE 0)
      BY <1>2, <1>3, <2>6, <2>7, <2>8
    <2> QED
      BY <2>5, <2>7, <2>8, <2>9, <2>10 DEF OnlyOf
  <1>4. CASE ~Full(s)
    <2>1. Added(s, t) = Append(s, [text |-> t, age |-> 0])
      BY <1>4 DEF Added
    <2>2. Len(s) + 1 <= MaxEntries
      BY <1>1, <1>4 DEF Full
    <2>3. \A u \in Texts :
            Count(Added(s, t), Of(u)) = Count(s, Of(u)) + (IF u = t THEN 1 ELSE 0)
      BY <2>1, AppendEntry
    <2>4. \A u \in Texts : Count(Added(s, t), Of(u)) =
            Count(s, Of(u)) + (IF u = t THEN 1 ELSE 0)
            - (IF Full(s) /\ Head(s).text = u THEN 1 ELSE 0)
      BY <1>2, <1>4, <2>3
    <2> QED
      BY <1>4, <2>1, <2>2, <2>4, AppendEntry
  <1> QED
    BY <1>3, <1>4

\* What prune may find: entries of any age.
Aged == [text : Texts, age : Nat]

LEMMA SequenceOf ==
    ASSUME NEW S, NEW n \in Nat, NEW f \in [1..n -> S]
    PROVE  f \in Seq(S)
  BY SeqDef

\* r is what is left of s when its first m entries are cut off.
CutAt(s, m, r) == Len(r) = Len(s) - m /\ \A i \in 1..Len(r) : r[i] = s[m + i]

LEMMA CutEntries ==
    ASSUME NEW s \in Seq(Aged), InOrder(s), NEW m \in 0..Len(s), NEW r \in Seq(Aged),
           CutAt(s, m, r), \A k \in 1..Len(s) : s[k].age < TTL <=> k > m
    PROVE  /\ r \in Seq(Entry) /\ InOrder(r) /\ Len(r) <= Len(s)
           /\ \A i \in 1..Len(r) : \E k \in 1..Len(s) : r[i] = s[k]
  <1> DEFINE l == Len(r)
  <1>1. Len(s) \in Nat /\ l \in Nat /\ l = Len(s) - m /\ r \in [1..l -> Aged]
    BY LenProperties DEF CutAt
  <1>2. \A i \in 1..l : m + i \in 1..Len(s) /\ m + i > m /\ r[i] = s[m + i] /\ r[i] \in Aged
    BY <1>1 DEF CutAt
  <1>3. \A x \in Aged : x.age < TTL => x \in Entry
    BY LimitsType DEF Aged, Entry
  <1>4. \A i \in 1..l : r[i] \in Entry
    BY <1>2, <1>3
  <1>5. r \in [1..l -> Entry]
    BY <1>1, <1>4
  <1>6. r \in Seq(Entry)
    BY <1>1, <1>5, SequenceOf
  <1>7. InOrder(r)
    <2> SUFFICES ASSUME NEW i \in 1..l, NEW j \in 1..l, i <= j PROVE r[j].age <= r[i].age
      BY DEF InOrder
    <2>1. m + i <= m + j
      BY <1>1
    <2> QED
      BY <1>2, <2>1 DEF InOrder
  <1>8. l <= Len(s)
    BY <1>1
  <1>9. \A i \in 1..l : \E k \in 1..Len(s) : r[i] = s[k]
    BY <1>2
  <1> QED
    BY <1>6, <1>7, <1>8, <1>9

LEMMA IntervalSize ==
    ASSUME NEW a \in Nat, NEW b \in Nat, a <= b
    PROVE  Cardinality((a + 1)..b) = b - a
  <1>1. Cardinality((a + 1)..b) = IF a + 1 > b THEN 0 ELSE b - (a + 1) + 1
    BY FS_Interval
  <1> QED
    BY <1>1

\* prune keeps a suffix if what has expired is at the front.
LEMMA FreshCuts ==
    ASSUME NEW s \in Seq(Aged), NEW m \in 0..Len(s),
           \A k \in 1..Len(s) : s[k].age < TTL <=> k > m
    PROVE  Fresh(s) \in Seq(Aged) /\ CutAt(s, m, Fresh(s))
  <1> DEFINE n == Len(s)
             Up(k) == {j \in Live(s) : j <= k}
             Nth(i) == CHOOSE k \in Live(s) : Cardinality(Up(k)) = i
             l == n - m
  <1>1. n \in Nat /\ m \in Nat /\ m <= n /\ DOMAIN s = 1..n
    BY LenProperties
  <1>2. Live(s) = (m + 1)..n
    BY <1>1 DEF Live
  <1>3. l \in Nat /\ Cardinality(Live(s)) = l
    <2>1. Cardinality((m + 1)..n) = l
      BY <1>1, IntervalSize
    <2>2. l \in Nat
      BY <1>1
    <2> QED
      BY <1>2, <2>1, <2>2
  <1>4. \A k \in Live(s) : Cardinality(Up(k)) = k - m
    <2> SUFFICES ASSUME NEW k \in Live(s) PROVE Cardinality(Up(k)) = k - m
      OBVIOUS
    <2>1. k \in Nat /\ m + 1 <= k /\ k <= n
      BY <1>1, <1>2
    <2>2. Up(k) = (m + 1)..k
      BY <1>1, <1>2, <2>1
    <2>3. Cardinality((m + 1)..k) = k - m
      BY <1>1, <2>1, IntervalSize
    <2> QED
      BY <2>2, <2>3
  <1> HIDE DEF Up
  <1>5. ASSUME NEW i \in 1..l PROVE m + i \in 1..n /\ Nth(i) = m + i
    <2>1. m + i \in Live(s) /\ m + i \in 1..n /\ (m + i) - m = i
      BY <1>1, <1>2
    <2>2. Cardinality(Up(m + i)) = i
      BY <1>4, <2>1
    <2>3. Nth(i) \in Live(s) /\ Cardinality(Up(Nth(i))) = i
      BY <2>1, <2>2
    <2>4. Nth(i) - m = i /\ Nth(i) \in Nat
      BY <1>1, <1>2, <1>4, <2>3
    <2> QED
      BY <1>1, <2>1, <2>4
  <1>6. Fresh(s) = [i \in 1..l |-> s[Nth(i)]]
    BY <1>3 DEF Fresh, Up
  <1> HIDE DEF Nth
  <1>7. DOMAIN Fresh(s) = 1..l /\ \A i \in 1..l : Fresh(s)[i] = s[m + i]
    BY <1>5, <1>6
  <1>8. \A i \in 1..l : Fresh(s)[i] \in Aged
    BY <1>5, <1>7, ElementOfSeq
  <1>9. Fresh(s) \in Seq(Aged)
    <2>1. Fresh(s) \in [1..l -> Aged]
      BY <1>6, <1>7, <1>8
    <2> QED
      BY <1>3, <2>1, SequenceOf
  <1>10. Len(Fresh(s)) = l
    <2>1. Len(Fresh(s)) \in Nat /\ DOMAIN Fresh(s) = 1..Len(Fresh(s))
      BY <1>9, LenProperties
    <2> QED
      BY <1>3, <1>7, <2>1
  <1> QED
    BY <1>7, <1>9, <1>10 DEF CutAt

\* prune finds nothing to drop in entries that are younger than the ttl.
LEMMA FreshAll ==
    ASSUME NEW s \in Seq(Entry)
    PROVE  Fresh(s) = s
  <1>1. /\ Len(s) \in Nat /\ DOMAIN s = 1..Len(s)
        /\ \A k \in 1..Len(s) : s[k] \in Entry /\ s[k].age < TTL
    BY EntriesFinite
  <1>2. Entry \subseteq Aged
    BY LimitsType DEF Entry, Aged
  <1>3. s \in Seq(Aged)
    <2>1. s \in [1..Len(s) -> Aged]
      BY <1>1, <1>2, LenProperties
    <2> QED
      BY <1>1, <2>1, SequenceOf
  <1>4. 0 \in 0..Len(s) /\ \A k \in 1..Len(s) : s[k].age < TTL <=> k > 0
    BY <1>1
  <1>5. Fresh(s) \in Seq(Aged) /\ CutAt(s, 0, Fresh(s))
    BY <1>3, <1>4, FreshCuts
  <1>6. Len(Fresh(s)) = Len(s) /\ \A i \in 1..Len(s) : Fresh(s)[i] = s[i]
    BY <1>1, <1>5 DEF CutAt
  <1> QED
    BY <1>3, <1>5, <1>6, SeqEqual

\* As the entries are in order, those that are ttl old are the first ones.
LEMMA OldOnesFirst ==
    ASSUME NEW s \in Seq(Aged), InOrder(s)
    PROVE  \E m \in 0..Len(s) : \A k \in 1..Len(s) : s[k].age < TTL <=> k > m
  <1> DEFINE n == Len(s)
             E == {k \in 1..n : ~(s[k].age < TTL)}
  <1>1. n \in Nat /\ \A k \in 1..n : s[k].age \in Nat
    <2>1. \A x \in Aged : x.age \in Nat
      BY DEF Aged
    <2> QED
      BY <2>1, LenProperties, ElementOfSeq
  <1>2. CASE E = {}
    <2>1. 0 \in 0..n /\ \A k \in 1..n : s[k].age < TTL <=> k > 0
      BY <1>1, <1>2
    <2> QED
      BY <2>1
  <1>3. CASE E # {}
    <2> DEFINE m == Max(E)
    <2>1. E \subseteq 1..n
      OBVIOUS
    <2>2. m \in E /\ \A k \in E : k <= m
      BY <1>1, <1>3, <2>1, MaxIsGreatest
    <2> HIDE DEF m
    <2>3. m \in 1..n /\ m \in 0..n /\ ~(s[m].age < TTL)
      BY <1>1, <2>2
    <2>4. ASSUME NEW k \in 1..n PROVE s[k].age < TTL <=> k > m
      <3>1. CASE k > m
        BY <2>2, <2>3, <3>1
      <3>2. CASE k <= m
        <4>1. s[m].age <= s[k].age
          BY <2>3, <3>2 DEF InOrder
        <4>2. ~(s[k].age < TTL)
          BY <1>1, <2>3, <4>1, LimitsType
        <4> QED
          BY <2>3, <3>2, <4>2
      <3> QED
        BY <2>3, <3>1, <3>2
    <2> QED
      BY <2>3, <2>4
  <1> QED
    BY <1>2, <1>3

\* What prune drops and what it keeps of a text are together all there was of it.
AllOf(s, t) == {k \in 1..Len(s) : s[k].text = t}

LEMMA CutCount ==
    ASSUME NEW s \in Seq(Aged), NEW m \in 0..Len(s), NEW r \in Seq(Entry), CutAt(s, m, r),
           \A k \in 1..Len(s) : s[k].age < TTL <=> k > m, NEW t
    PROVE  /\ Cardinality(Expired(s, t)) \in Nat
           /\ Cardinality(AllOf(s, t)) <= Count(r, Of(t)) + Cardinality(Expired(s, t))
  <1> DEFINE n == Len(s)
             X == Expired(s, t)
             K == AllOf(s, t) \ X
             W == Where(r, Of(t))
             place == [k \in K |-> k - m]
  <1>1. n \in Nat /\ m \in Nat /\ m <= n /\ DOMAIN s = 1..n /\ Len(r) = n - m
        /\ \A i \in 1..(n - m) : r[i] = s[m + i] /\ r[i] \in Entry
    BY LenProperties, ElementOfSeq DEF CutAt
  <1>2. X = {k \in 1..n : k <= m /\ s[k].text = t}
    BY <1>1 DEF Expired, Live
  <1>3. \A k \in K : k \in 1..n /\ k > m /\ s[k].text = t
    BY <1>1, <1>2 DEF AllOf
  <1>4. \A k \in K : k - m \in 1..(n - m) /\ m + (k - m) = k
    BY <1>1, <1>3
  <1>5. \A k \in K : k - m \in W
    <2> SUFFICES ASSUME NEW k \in K PROVE k - m \in W
      OBVIOUS
    <2>1. r[k - m] = s[k] /\ r[k - m] \in Entry
      BY <1>1, <1>4
    <2> QED
      BY <1>1, <1>3, <1>4, <2>1 DEF Where, Of
  <1>6. X \subseteq 1..n /\ IsFiniteSet(1..n)
    BY <1>1, <1>2, FS_Interval
  <1>7. IsFiniteSet(X) /\ IsFiniteSet(W) /\ Cardinality(X) \in Nat /\ Count(r, Of(t)) \in Nat
    BY <1>6, FS_Subset, FS_CardinalityType, CountType
  <1>8. place \in Injection(K, W)
    <2>1. place \in [K -> W]
      BY <1>5
    <2>2. \A k, l \in K : place[k] = place[l] => k = l
      BY <1>1, <1>3
    <2> HIDE DEF place, K, W
    <2> QED
      BY <2>1, <2>2 DEF Injection, IsInjective
  <1>9. IsFiniteSet(K) /\ Cardinality(K) <= Cardinality(W)
    BY <1>7, <1>8, FS_Injection
  <1>10. AllOf(s, t) = K \cup X /\ K \cap X = {}
    BY <1>1, <1>2 DEF AllOf
  <1>11. Cardinality(AllOf(s, t)) = Cardinality(K) + Cardinality(X) - Cardinality({})
    BY <1>7, <1>9, <1>10, FS_Union
  <1>12. Cardinality({}) = 0 /\ Cardinality(K) \in Nat
    BY <1>9, FS_EmptySet, FS_CardinalityType
  <1> QED
    BY <1>7, <1>9, <1>11, <1>12 DEF Count

\* prune drops what is ttl old, and the rest stays in order.
LEMMA PrunedEntries ==
    ASSUME NEW s \in Seq(Aged), InOrder(s)
    PROVE  /\ Fresh(s) \in Seq(Entry) /\ InOrder(Fresh(s)) /\ Len(Fresh(s)) <= Len(s)
           /\ \A i \in 1..Len(Fresh(s)) : \E k \in 1..Len(s) : Fresh(s)[i] = s[k]
           /\ \A t : /\ Cardinality(Expired(s, t)) \in Nat
                     /\ Cardinality(AllOf(s, t))
                          <= Count(Fresh(s), Of(t)) + Cardinality(Expired(s, t))
  <1>1. PICK m \in 0..Len(s) : \A k \in 1..Len(s) : s[k].age < TTL <=> k > m
    BY OldOnesFirst
  <1>2. Fresh(s) \in Seq(Aged) /\ CutAt(s, m, Fresh(s))
    BY <1>1, FreshCuts
  <1>3. /\ Fresh(s) \in Seq(Entry) /\ InOrder(Fresh(s)) /\ Len(Fresh(s)) <= Len(s)
        /\ \A i \in 1..Len(Fresh(s)) : \E k \in 1..Len(s) : Fresh(s)[i] = s[k]
    BY <1>1, <1>2, CutEntries
  <1> QED
    BY <1>1, <1>2, <1>3, CutCount

\* A tick makes every entry older, which leaves them in order.
LEMMA OlderEntries ==
    ASSUME NEW s \in Seq(Entry), InOrder(s)
    PROVE  /\ Older(s) \in Seq(Aged) /\ Len(Older(s)) = Len(s) /\ InOrder(Older(s))
           /\ \A k \in 1..Len(s) : /\ Older(s)[k].text = s[k].text
                                   /\ Older(s)[k].age = s[k].age + 1
  <1> DEFINE n == Len(s)
  <1>1. /\ n \in Nat /\ DOMAIN s = 1..n
        /\ \A k \in 1..n : s[k] \in Entry /\ s[k].age \in Nat /\ s[k].text \in Texts
    BY EntriesFinite
  <1>2. \A x \in Entry : [x EXCEPT !.age = @ + 1] = [text |-> x.text, age |-> x.age + 1]
    BY DEF Entry
  <1>3. DOMAIN Older(s) = 1..n
        /\ \A k \in 1..n : Older(s)[k] = [text |-> s[k].text, age |-> s[k].age + 1]
    BY <1>1, <1>2 DEF Older
  <1>4. ASSUME NEW k \in 1..n PROVE Older(s)[k] \in Aged
    <2>1. s[k].text \in Texts /\ s[k].age + 1 \in Nat
      BY <1>1
    <2>2. [text |-> s[k].text, age |-> s[k].age + 1] \in Aged
      BY <2>1 DEF Aged
    <2> QED
      BY <1>3, <2>2
  <1>5. Older(s) = [k \in 1..n |-> Older(s)[k]]
    BY <1>1 DEF Older
  <1>6. Older(s) \in [1..n -> Aged]
    BY <1>4, <1>5
  <1>7. Older(s) \in Seq(Aged)
    BY <1>1, <1>6, SequenceOf
  <1>8. Len(Older(s)) = n
    <2>1. Len(Older(s)) \in Nat /\ DOMAIN Older(s) = 1..Len(Older(s))
      BY <1>7, LenProperties
    <2> QED
      BY <1>1, <1>3, <2>1
  <1>9. \A k \in 1..n : Older(s)[k].text = s[k].text /\ Older(s)[k].age = s[k].age + 1
    BY <1>3
  <1>10. InOrder(Older(s))
    <2> SUFFICES ASSUME NEW i \in 1..n, NEW j \in 1..n, i <= j
                 PROVE  Older(s)[j].age <= Older(s)[i].age
      BY <1>8 DEF InOrder
    <2>1. s[j].age <= s[i].age
      BY DEF InOrder
    <2> QED
      BY <1>1, <1>9, <2>1
  <1> QED
    BY <1>7, <1>8, <1>9, <1>10

LEMMA TickedEntries ==
    ASSUME NEW s \in Seq(Entry), InOrder(s)
    PROVE  /\ Fresh(Older(s)) \in Seq(Entry) /\ InOrder(Fresh(Older(s)))
           /\ Len(Fresh(Older(s))) <= Len(s)
           /\ \A i \in 1..Len(Fresh(Older(s))) :
                \E k \in 1..Len(s) : Fresh(Older(s))[i].text = s[k].text
           /\ \A t : /\ Cardinality(Expired(Older(s), t)) \in Nat
                     /\ Count(s, Of(t))
                          <= Count(Fresh(Older(s)), Of(t)) + Cardinality(Expired(Older(s), t))
  <1>1. /\ Older(s) \in Seq(Aged) /\ Len(Older(s)) = Len(s) /\ InOrder(Older(s))
        /\ \A k \in 1..Len(s) : Older(s)[k].text = s[k].text
    BY OlderEntries
  <1>2. /\ Fresh(Older(s)) \in Seq(Entry) /\ InOrder(Fresh(Older(s)))
        /\ Len(Fresh(Older(s))) <= Len(Older(s))
        /\ \A i \in 1..Len(Fresh(Older(s))) :
             \E k \in 1..Len(Older(s)) : Fresh(Older(s))[i] = Older(s)[k]
        /\ \A t : /\ Cardinality(Expired(Older(s), t)) \in Nat
                  /\ Cardinality(AllOf(Older(s), t))
                       <= Count(Fresh(Older(s)), Of(t)) + Cardinality(Expired(Older(s), t))
    BY <1>1, PrunedEntries
  <1> HIDE DEF Aged
  <1>3. ASSUME NEW t PROVE AllOf(Older(s), t) = Where(s, Of(t))
    BY <1>1, EntriesFinite DEF AllOf, Where, Of
  <1>4. \A t : Cardinality(AllOf(Older(s), t)) = Count(s, Of(t))
    BY <1>3 DEF Count
  <1> QED
    BY <1>1, <1>2, <1>4

-----------------------------------------------------------------------------
\* The actions.
LEMMA Typed ==
    ASSUME ClipboardType
    PROVE  /\ copiers \in [Texts -> Nat] /\ callbacks \in [Texts -> Nat]
           /\ copied \in [Texts -> Nat] /\ received \in [Texts -> Nat]
           /\ written \in [Texts -> Nat] /\ sent \in [Texts -> Nat] /\ lost \in [Texts -> Nat]
           /\ board \in Texts \cup {None} /\ inbox \in Texts \cup {None}
           /\ view \in Texts \cup {None} /\ exits \in Nat
           /\ \A t \in Texts : /\ Count(events, {t}) \in Nat /\ Count(entries, Of(t)) \in Nat
                               /\ Writing(t) \in {0, 1} /\ ToRead(t) \in {0, 1, 2}
           /\ Restart \in {0, 1}
  <1>1. \A t \in Texts : Count(events, {t}) \in Nat /\ Count(entries, Of(t)) \in Nat
    BY CountType DEF ClipboardType, QueueType
  <1>2. \A t \in Texts : Writing(t) \in {0, 1} /\ ToRead(t) \in {0, 1, 2}
    BY DEF Writing, ToRead
  <1> QED
    BY <1>1, <1>2 DEF ClipboardType, DeviceType, TallyType, Restart

LEMMA Numbers ==
    ASSUME ClipboardType, NEW t \in Texts
    PROVE  /\ sent[t] \in Nat /\ copied[t] \in Nat /\ written[t] \in Nat /\ lost[t] \in Nat
           /\ received[t] \in Nat /\ callbacks[t] \in Nat /\ copiers[t] \in Nat
           /\ exits \in Nat /\ Restart \in Nat /\ ToRead(t) \in Nat /\ Writing(t) \in Nat
           /\ Count(events, {t}) \in Nat /\ Count(entries, Of(t)) \in Nat
  <1>1. /\ sent[t] \in Nat /\ copied[t] \in Nat /\ written[t] \in Nat /\ lost[t] \in Nat
        /\ received[t] \in Nat /\ callbacks[t] \in Nat /\ copiers[t] \in Nat /\ exits \in Nat
    BY DEF ClipboardType, TallyType
  <1>2. Restart \in Nat /\ ToRead(t) \in Nat /\ Writing(t) \in Nat
    BY DEF Restart, ToRead, Writing
  <1>3. Count(events, {t}) \in Nat /\ Count(entries, Of(t)) \in Nat
    BY CountType DEF ClipboardType, QueueType
  <1> QED
    BY <1>1, <1>2, <1>3

LEMMA InitClipboard == Init => ClipboardInv
  <1> SUFFICES ASSUME Init PROVE ClipboardInv
    OBVIOUS
  <1>1. /\ copied = [t \in Texts |-> 0] /\ received = copied /\ written = copied /\ sent = copied
        /\ copiers = copied /\ callbacks = copied /\ lost = copied
        /\ events = <<>> /\ entries = <<>> /\ writer = Idle
    BY DEF Init
  <1>2. copied \in [Texts -> Nat] /\ \A t \in Texts : copied[t] = 0
    BY <1>1
  <1>11. /\ platform = "poll" => ~watching
         /\ platform = "watch" => watching /\ Restart = 0
    BY Zenon DEF Init, Restart
  <1>3. ClipboardType
    <2>1. platform \in {"poll", "watch"}
      BY DeviceAssumption DEF Init, DeviceAssumption
    <2>2. events \in Seq(Texts) /\ entries \in Seq(Entry) /\ Len(entries) <= MaxEntries
      BY <1>1, LimitsType
    <2> QED
      BY <1>1, <1>2, <2>1, <2>2 DEF Init, ClipboardType, DeviceType, TallyType, QueueType
  <1>4. Unused
    BY <1>1, <1>2, <1>11 DEF Init, Unused, Idle
  <1>5. InOrder(entries)
    BY <1>1 DEF InOrder
  <1>6. \A t \in Texts : Count(events, {t}) = 0 /\ Count(entries, Of(t)) = 0 /\ Writing(t) = 0
    BY <1>1, CountEmpty, LimitsType DEF Writing, Idle
  <1>7. WatchAccount
    BY <1>1, <1>2, <1>6, <1>11 DEF WatchAccount, Init
  <1>8. PollAccount
    BY <1>1, <1>2, <1>6 DEF PollAccount, Init, ToRead
  <1>9. FromThePeer
    BY <1>1, <1>2 DEF FromThePeer, Init
  <1>10. OwnCopyUnderWay
    BY DEF OwnCopyUnderWay, Init
  <1> QED
    BY <1>3, <1>4, <1>5, <1>7, <1>8, <1>9, <1>10 DEF ClipboardInv

LEMMA CopyClipboard ==
    ASSUME ClipboardInv, NEW t \in Texts, Copy(t)
    PROVE  ClipboardInv'
  <1> USE DEF ClipboardInv, adapter, watcher, counts, suppressor
  <1>1. /\ board' = t /\ unseen' = (unseen \/ platform = "poll") /\ owner' = "user"
        /\ callbacks' = IF watching THEN [callbacks EXCEPT ![t] = @ + 1] ELSE callbacks
        /\ copied' = [copied EXCEPT ![t] = @ + 1]
        /\ UNCHANGED <<platform, copiers, poller, watching, exits, events, entries, lost, inbox,
                       writer, written, sent, received, view>>
    BY DEF Copy, Change
  <1>2. ClipboardType'
    <2>1. callbacks' \in [Texts -> Nat] /\ copied' \in [Texts -> Nat]
      BY <1>1, Typed
    <2>2. unseen' \in BOOLEAN
      BY <1>1
    <2> QED
      BY <1>1, <2>1, <2>2 DEF ClipboardType, DeviceType, TallyType, QueueType
  <1>3. Unused'
    BY <1>1, Typed DEF Unused, ClipboardType, DeviceType
  <1>4. \A u \in Texts : copied'[u] = copied[u] + (IF u = t THEN 1 ELSE 0)
    BY <1>1, Typed
  <1>5. WatchAccount'
    <2> SUFFICES ASSUME platform = "watch", NEW u \in Texts
                 PROVE  /\ sent[u] + Restart <= copied'[u] + exits + lost[u]
                        /\ sent[u] + Restart + callbacks'[u] + Count(events, {u}) + copiers[u]
                             + Writing(u) <= copied'[u] + exits + lost[u] + Count(entries, Of(u))
      BY <1>1 DEF WatchAccount, Restart, Writing
    <2>1. callbacks'[u] <= callbacks[u] + (IF u = t THEN 1 ELSE 0) /\ callbacks'[u] \in Nat
      BY <1>1, Typed
    <2> QED
      BY <1>4, <2>1, Typed DEF WatchAccount
  <1>6. PollAccount'
    <2> SUFFICES ASSUME platform = "poll", NEW u \in Texts
                 PROVE  /\ sent[u] <= 2 * copied'[u] + written[u] + lost[u]
                        /\ sent[u] + ToRead(u)' + Count(events, {u}) + Writing(u)
                             <= 2 * copied'[u] + written[u] + lost[u] + Count(entries, Of(u))
      BY <1>1 DEF PollAccount, Writing
    <2>1. ToRead(u)' <= ToRead(u) + (IF u = t THEN 2 ELSE 0) /\ ToRead(u)' \in Nat
      BY <1>1 DEF ToRead
    <2> QED
      BY <1>4, <2>1, Typed DEF PollAccount
  <1>7. FromThePeer'
    BY <1>1 DEF FromThePeer
  <1>8. OwnCopyUnderWay'
    <2>1. watching => callbacks'[t] > 0
      BY <1>1, Typed
    <2> QED
      BY <1>1, <2>1 DEF OwnCopyUnderWay
  <1> QED
    BY <1>1, <1>2, <1>3, <1>5, <1>6, <1>7, <1>8

LEMMA ReceiveClipboard ==
    ASSUME ClipboardInv, NEW t \in Texts, Receive(t)
    PROVE  ClipboardInv'
  <1> USE DEF ClipboardInv, adapter, watcher, counts, suppressor
  <1>1. /\ inbox' = t /\ view' = t
        /\ UNCHANGED <<platform, board, unseen, poller, copiers, callbacks, watching, exits, events,
                       entries, lost, writer, copied, written, sent, owner>>
    BY DEF Receive
  <1>2. received' \in [Texts -> Nat] /\ inbox' # None
        /\ \A u \in Texts : /\ received[u] \in Nat
                            /\ received'[u] = received[u] + (IF u = t THEN 1 ELSE 0)
    BY Typed, LimitsType DEF Receive
  <1>3. ClipboardType'
    <2>1. DeviceType'
      BY <1>1, <1>2 DEF ClipboardType, DeviceType
    <2>2. TallyType'
      BY <1>1, <1>2 DEF ClipboardType, TallyType
    <2>3. QueueType'
      BY <1>1, <1>2 DEF ClipboardType, QueueType
    <2> QED
      BY <2>1, <2>2, <2>3 DEF ClipboardType
  <1>4. Unused' /\ WatchAccount' /\ PollAccount' /\ InOrder(entries)'
    BY <1>1 DEF Unused, WatchAccount, PollAccount, Restart, Writing, ToRead
  <1>5. FromThePeer'
    <2>1. writer # Idle => writer.text \in Texts
      BY DEF ClipboardType, DeviceType
    <2>2. \A k \in 1..Len(entries) : entries[k].text \in Texts
      BY EntriesFinite DEF ClipboardType, QueueType
    <2>3. \A u \in Texts : received[u] > 0 => received'[u] > 0
      BY <1>2
    <2>4. received'[t] > 0
      BY <1>2
    <2> QED
      BY <1>1, <2>1, <2>2, <2>3, <2>4 DEF FromThePeer
  <1>6. OwnCopyUnderWay'
    <2>1. \A u \in Texts : received'[u] = 0 => received[u] = 0
      BY <1>2
    <2> QED
      BY <1>1, <1>2, <2>1 DEF OwnCopyUnderWay
  <1> QED
    BY <1>3, <1>4, <1>5, <1>6

LEMMA WriterAddsClipboard ==
    ASSUME ClipboardInv, WriterAdds
    PROVE  ClipboardInv'
  <1> USE DEF ClipboardInv, adapter, watcher, counts, suppressor
  <1> DEFINE s == entries
             t == inbox
             head == Head(entries).text
  <1>1. s \in Seq(Entry) /\ InOrder(s) /\ Len(s) <= MaxEntries /\ Fresh(s) = s
    BY FreshAll DEF ClipboardType, QueueType
  <1>2. /\ writer = Idle /\ inbox # None
        /\ entries' = Added(s, inbox)
        /\ writer' = [text |-> inbox, at |-> "write"] /\ inbox' = None
        /\ UNCHANGED <<platform, board, unseen, poller, copiers, callbacks, watching, exits, events,
                       received, copied, written, sent, owner, view>>
    BY <1>1 DEF WriterAdds
  <1>3. t \in Texts /\ received[t] > 0
    BY <1>2, Typed DEF FromThePeer
  <1>4. /\ entries' \in Seq(Entry) /\ InOrder(entries') /\ Len(entries') <= MaxEntries
        /\ \A i \in 1..Len(entries') :
             entries'[i].text = t \/ \E k \in 1..Len(s) : entries'[i] = s[k]
        /\ Full(s) => head \in Texts
        /\ \A u \in Texts : Count(entries', Of(u)) =
             Count(s, Of(u)) + (IF u = t THEN 1 ELSE 0) - (IF Full(s) /\ head = u THEN 1 ELSE 0)
    BY <1>1, <1>2, <1>3, AddedOne
  <1>5. /\ lost' \in [Texts -> Nat]
        /\ \A u \in Texts : lost'[u] = lost[u] + (IF Full(s) /\ head = u THEN 1 ELSE 0)
    <2>1. lost' = IF Full(s) THEN [lost EXCEPT ![head] = @ + 1] ELSE lost
      BY <1>1 DEF WriterAdds
    <2>2. lost \in [Texts -> Nat]
      BY Typed
    <2> HIDE DEF head, ClipboardInv
    <2>3. CASE Full(s)
      <3>1. head \in Texts
        BY <1>4, <2>3
      <3>2. lost' = [lost EXCEPT ![head] = @ + 1]
        BY <2>1, <2>3
      <3> QED
        BY <2>2, <2>3, <3>1, <3>2
    <2>4. CASE ~Full(s)
      <3>1. lost' = lost
        BY <2>1, <2>4
      <3> QED
        BY <2>2, <2>4, <3>1
    <2> QED
      BY <2>3, <2>4
  <1>6. \A u \in Texts : Writing(u) = 0 /\ Writing(u)' = IF u = t THEN 1 ELSE 0
    BY <1>2, LimitsType DEF Writing, Idle
  <1>7. writer' \in [text : Texts, at : {"write", "set"}] /\ writer' # Idle /\ writer'.at = "write"
        /\ writer'.text = t
    BY <1>2, <1>3 DEF Idle
  <1> HIDE DEF head
  <1>8. ClipboardType'
    <2>1. DeviceType'
      BY <1>2, <1>4, <1>5, <1>7 DEF ClipboardType, DeviceType
    <2>2. TallyType'
      BY <1>2, <1>4, <1>5, <1>7 DEF ClipboardType, TallyType
    <2>3. QueueType'
      BY <1>2, <1>4, <1>5, <1>7 DEF ClipboardType, QueueType
    <2> QED
      BY <2>1, <2>2, <2>3 DEF ClipboardType
  <1>9. Unused'
    BY <1>2, <1>7 DEF Unused
  <1>14. ASSUME NEW u \in Texts
         PROVE  /\ Count(entries', Of(u)) + lost'[u] = Count(s, Of(u)) + lost[u] + Writing(u)'
                /\ lost'[u] >= lost[u] /\ lost'[u] \in Nat /\ Count(entries', Of(u)) \in Nat
    <2>1. Count(entries', Of(u)) \in Nat /\ Count(s, Of(u)) \in Nat /\ lost[u] \in Nat
      BY <1>4, CountType, Typed
    <2>2. Count(entries', Of(u)) =
            Count(s, Of(u)) + Writing(u)' - (IF Full(s) /\ head = u THEN 1 ELSE 0)
      BY <1>4, <1>6
    <2>3. lost'[u] = lost[u] + (IF Full(s) /\ head = u THEN 1 ELSE 0)
      BY <1>5
    <2>4. Writing(u)' \in Nat
      BY <1>6
    <2> QED
      BY <2>1, <2>2, <2>3, <2>4
  <1>10. WatchAccount'
    <2> SUFFICES ASSUME platform = "watch", NEW u \in Texts
                 PROVE  /\ sent[u] + Restart <= copied[u] + exits + lost'[u]
                        /\ sent[u] + Restart + callbacks[u] + Count(events, {u}) + copiers[u]
                             + Writing(u)' <= copied[u] + exits + lost'[u] + Count(entries', Of(u))
      BY <1>2 DEF WatchAccount, Restart
    <2>1. /\ sent[u] + Restart <= copied[u] + exits + lost[u]
          /\ sent[u] + Restart + callbacks[u] + Count(events, {u}) + copiers[u]
               <= copied[u] + exits + lost[u] + Count(s, Of(u))
      BY <1>6, Typed DEF WatchAccount
    <2> QED
      BY <1>6, <1>14, <2>1, Typed
  <1>11. PollAccount'
    <2> SUFFICES ASSUME platform = "poll", NEW u \in Texts
                 PROVE  /\ sent[u] <= 2 * copied[u] + written[u] + lost'[u]
                        /\ sent[u] + ToRead(u) + Count(events, {u}) + Writing(u)'
                             <= 2 * copied[u] + written[u] + lost'[u] + Count(entries', Of(u))
      BY <1>2 DEF PollAccount, ToRead
    <2>1. /\ sent[u] <= 2 * copied[u] + written[u] + lost[u]
          /\ sent[u] + ToRead(u) + Count(events, {u})
               <= 2 * copied[u] + written[u] + lost[u] + Count(s, Of(u))
      BY <1>6, Typed DEF PollAccount
    <2> QED
      BY <1>6, <1>14, <2>1, Typed
  <1>12. FromThePeer'
    BY <1>2, <1>3, <1>4, <1>7 DEF FromThePeer
  <1>13. OwnCopyUnderWay'
    BY <1>2, <1>7 DEF OwnCopyUnderWay
  <1> QED
    BY <1>4, <1>8, <1>9, <1>10, <1>11, <1>12, <1>13

LEMMA WriterFeedsClipboard ==
    ASSUME ClipboardInv, WriterFeeds
    PROVE  ClipboardInv'
  <1> USE DEF ClipboardInv, adapter, watcher, counts, suppressor
  <1> DEFINE t == writer.text
  <1>1. /\ platform = "watch" /\ writer.at = "write" /\ writer' = Idle
        /\ UNCHANGED <<platform, board, unseen, poller, callbacks, watching, exits, events,
                       entries, lost, inbox, received, copied, sent, owner, view>>
    BY DEF WriterFeeds
  <1>2. t \in Texts /\ writer # Idle /\ writer'.at = "idle" /\ writer'.text = None
    <2>1. Idle.at = "idle" /\ Idle.text = None
      BY DEF Idle
    <2>2. writer # Idle
      BY <1>1, <2>1
    <2>3. writer.text \in Texts
      BY <2>2 DEF ClipboardType, DeviceType
    <2> QED
      BY <1>1, <2>1, <2>2, <2>3
  <1>3. /\ copiers' \in [Texts -> Nat] /\ written' \in [Texts -> Nat]
        /\ \A u \in Texts : copiers'[u] = copiers[u] + (IF u = t THEN 1 ELSE 0)
    BY <1>2, Typed DEF WriterFeeds
  <1> HIDE DEF t
  <1>4. \A u \in Texts : Writing(u)' = 0 /\ Writing(u) = IF u = t THEN 1 ELSE 0
    BY <1>1, <1>2, LimitsType DEF Writing, Idle, t
  <1>5. ClipboardType'
    <2>1. DeviceType'
      BY <1>1, <1>3 DEF ClipboardType, DeviceType
    <2>2. TallyType'
      BY <1>1, <1>3 DEF ClipboardType, TallyType
    <2>3. QueueType'
      BY <1>1, <1>3 DEF ClipboardType, QueueType
    <2> QED
      BY <2>1, <2>2, <2>3 DEF ClipboardType
  <1>6. Unused'
    BY <1>1, <1>2 DEF Unused
  <1>7. WatchAccount'
    <2> SUFFICES ASSUME NEW u \in Texts
                 PROVE  /\ sent[u] + Restart <= copied[u] + exits + lost[u]
                        /\ sent[u] + Restart + callbacks[u] + Count(events, {u}) + copiers'[u]
                             + Writing(u)' <= copied[u] + exits + lost[u] + Count(entries, Of(u))
      BY <1>1 DEF WatchAccount, Restart
    <2> QED
      BY <1>1, <1>3, <1>4, Typed DEF WatchAccount
  <1>8. PollAccount'
    BY <1>1 DEF PollAccount
  <1>9. FromThePeer'
    <2>1. received[t] > 0
      BY <1>2 DEF FromThePeer, t
    <2>2. \A u \in Texts : copiers'[u] > 0 => u = t \/ copiers[u] > 0
      BY <1>3, Typed
    <2> QED
      BY <1>1, <2>1, <2>2 DEF FromThePeer
  <1>10. OwnCopyUnderWay'
    BY <1>1 DEF OwnCopyUnderWay
  <1> QED
    BY <1>1, <1>5, <1>6, <1>7, <1>8, <1>9, <1>10

LEMMA CopierOwnsClipboard ==
    ASSUME ClipboardInv, NEW t \in Texts, CopierOwns(t)
    PROVE  ClipboardInv'
  <1> USE DEF ClipboardInv, adapter, watcher, counts, suppressor
  <1>1. /\ copiers[t] > 0 /\ owner' = "peer"
        /\ board' = t /\ unseen' = (unseen \/ platform = "poll")
        /\ UNCHANGED <<platform, poller, watching, exits, events, entries, lost, inbox, writer,
                       received, copied, written, sent, view>>
    BY DEF CopierOwns, Change
  <1>2. platform = "watch"
    BY <1>1, Typed DEF Unused, ClipboardType, DeviceType
  <1>3. /\ copiers' \in [Texts -> Nat]
        /\ \A u \in Texts : copiers'[u] = copiers[u] - (IF u = t THEN 1 ELSE 0)
    <2>1. copiers[t] - 1 \in Nat
      BY <1>1, Typed
    <2> QED
      BY <2>1, Typed DEF CopierOwns
  <1>4. /\ callbacks' \in [Texts -> Nat]
        /\ \A u \in Texts : callbacks'[u] <= callbacks[u] + (IF u = t THEN 1 ELSE 0)
    BY Typed DEF CopierOwns, Change
  <1>5. ClipboardType'
    <2>1. unseen' \in BOOLEAN
      BY <1>1
    <2> QED
      BY <1>1, <1>3, <1>4, <2>1 DEF ClipboardType, DeviceType, TallyType, QueueType
  <1>6. Unused'
    BY <1>1, <1>2 DEF Unused
  <1>7. WatchAccount'
    <2> SUFFICES ASSUME NEW u \in Texts
                 PROVE  /\ sent[u] + Restart <= copied[u] + exits + lost[u]
                        /\ sent[u] + Restart + callbacks'[u] + Count(events, {u}) + copiers'[u]
                             + Writing(u) <= copied[u] + exits + lost[u] + Count(entries, Of(u))
      BY <1>1 DEF WatchAccount, Restart, Writing
    <2>1. callbacks'[u] \in Nat /\ copiers'[u] \in Nat
      BY <1>3, <1>4
    <2> QED
      BY <1>2, <1>3, <1>4, <2>1, Typed DEF WatchAccount
  <1>8. PollAccount'
    BY <1>1, <1>2 DEF PollAccount
  <1>9. FromThePeer'
    <2>1. \A u \in Texts : copiers'[u] > 0 => copiers[u] > 0
      BY <1>3, Typed
    <2> QED
      BY <1>1, <2>1 DEF FromThePeer
  <1>10. OwnCopyUnderWay'
    BY <1>1 DEF OwnCopyUnderWay
  <1> QED
    BY <1>1, <1>5, <1>6, <1>7, <1>8, <1>9, <1>10

LEMMA WriterClearsClipboard ==
    ASSUME ClipboardInv, WriterClears
    PROVE  ClipboardInv'
  <1> USE DEF ClipboardInv, adapter, watcher, counts, suppressor
  <1>1. /\ platform = "poll" /\ writer.at = "write" /\ board' = None /\ owner' = "peer"
        /\ writer' = [writer EXCEPT !.at = "set"]
        /\ UNCHANGED <<platform, copiers, poller, watching, exits, events, entries, lost, inbox,
                       received, copied, written, sent, view>>
    BY DEF WriterClears, Change
  <1>2. callbacks' = callbacks /\ unseen' \in BOOLEAN
    BY <1>1 DEF WriterClears, Change, Unused
  <1>3. writer \in [text : Texts, at : {"write", "set"}] /\ writer # Idle
    <2>1. Idle.at = "idle"
      BY DEF Idle
    <2> QED
      BY <1>1, <2>1 DEF ClipboardType, DeviceType
  <1>4. writer' \in [text : Texts, at : {"write", "set"}] /\ writer'.text = writer.text
    BY <1>1, <1>3
  <1>5. ClipboardType'
    <2>1. DeviceType'
      BY <1>1, <1>2, <1>4 DEF ClipboardType, DeviceType
    <2>2. TallyType'
      BY <1>1, <1>2, <1>4 DEF ClipboardType, TallyType
    <2>3. QueueType'
      BY <1>1, <1>2, <1>4 DEF ClipboardType, QueueType
    <2> QED
      BY <2>1, <2>2, <2>3 DEF ClipboardType
  <1>6. Unused' /\ WatchAccount'
    BY <1>1, <1>2 DEF Unused, WatchAccount
  <1>7. PollAccount'
    <2> SUFFICES ASSUME NEW u \in Texts
                 PROVE  /\ sent[u] <= 2 * copied[u] + written[u] + lost[u]
                        /\ sent[u] + ToRead(u)' + Count(events, {u}) + Writing(u)
                             <= 2 * copied[u] + written[u] + lost[u] + Count(entries, Of(u))
      BY <1>1, <1>4 DEF PollAccount, Writing
    <2>1. ToRead(u)' = 0
      BY <1>1, LimitsType DEF ToRead
    <2> QED
      BY <1>1, <2>1, Typed DEF PollAccount
  <1>8. FromThePeer'
    BY <1>1, <1>3, <1>4 DEF FromThePeer
  <1>9. OwnCopyUnderWay'
    BY <1>1 DEF OwnCopyUnderWay
  <1> QED
    BY <1>1, <1>5, <1>6, <1>7, <1>8, <1>9

LEMMA WriterSetsClipboard ==
    ASSUME ClipboardInv, WriterSets
    PROVE  ClipboardInv'
  <1> USE DEF ClipboardInv, adapter, watcher, counts, suppressor
  <1> DEFINE t == writer.text
  <1>1. /\ writer.at = "set" /\ board = None /\ board' = t /\ owner' = "peer" /\ writer' = Idle
        /\ UNCHANGED <<platform, copiers, callbacks, unseen, poller, watching, exits, events, entries,
                       lost, inbox, received, copied, sent, view>>
    BY DEF WriterSets
  <1>2. Idle.at = "idle" /\ Idle.text = None
    BY DEF Idle
  <1>3. platform = "poll"
    BY <1>1 DEF Unused, ClipboardType, DeviceType
  <1>4. t \in Texts
    BY <1>1, <1>2 DEF ClipboardType, DeviceType
  <1>5. /\ written' \in [Texts -> Nat]
        /\ \A u \in Texts : written'[u] = written[u] + (IF u = t THEN 1 ELSE 0)
    BY <1>4, Typed DEF WriterSets
  <1>6. \A u \in Texts : /\ Writing(u)' = 0 /\ Writing(u) = IF u = t THEN 1 ELSE 0
                         /\ ToRead(u) = 0
    BY <1>1, <1>2, LimitsType DEF Writing, ToRead
  <1>7. ClipboardType'
    <2>1. DeviceType'
      BY <1>1, <1>4, <1>5 DEF ClipboardType, DeviceType
    <2>2. TallyType'
      BY <1>1, <1>4, <1>5 DEF ClipboardType, TallyType
    <2>3. QueueType'
      BY <1>1, <1>4, <1>5 DEF ClipboardType, QueueType
    <2> QED
      BY <2>1, <2>2, <2>3 DEF ClipboardType
  <1>8. Unused' /\ WatchAccount'
    BY <1>1, <1>3 DEF Unused, WatchAccount
  <1>9. PollAccount'
    <2> SUFFICES ASSUME NEW u \in Texts
                 PROVE  /\ sent[u] <= 2 * copied[u] + written'[u] + lost[u]
                        /\ sent[u] + ToRead(u)' + Count(events, {u}) + Writing(u)'
                             <= 2 * copied[u] + written'[u] + lost[u] + Count(entries, Of(u))
      BY <1>1 DEF PollAccount
    <2>1. ToRead(u)' <= (IF u = t THEN 2 ELSE 0) /\ ToRead(u)' \in Nat
      BY <1>1 DEF ToRead
    <2> QED
      BY <1>3, <1>5, <1>6, <2>1, Typed DEF PollAccount
  <1>10. FromThePeer'
    BY <1>1 DEF FromThePeer
  <1>11. OwnCopyUnderWay'
    BY <1>1 DEF OwnCopyUnderWay
  <1> QED
    BY <1>1, <1>7, <1>8, <1>9, <1>10, <1>11

LEMMA WriterFailsClipboard ==
    ASSUME ClipboardInv, WriterFails
    PROVE  ClipboardInv'
  <1> USE DEF ClipboardInv, adapter, watcher, counts, suppressor
  <1> DEFINE t == writer.text
  <1>1. /\ entries \in Seq(Entry) /\ InOrder(entries) /\ Len(entries) <= MaxEntries
        /\ Fresh(entries) = entries
    BY FreshAll DEF ClipboardType, QueueType
  <1>2. /\ writer.at \in {"write", "set"} /\ owner' = "nobody" /\ writer' = Idle
        /\ entries' = Consumed(entries, t)
        /\ UNCHANGED <<platform, board, copiers, callbacks, unseen, poller, watching, exits, events,
                       lost, inbox, received, copied, written, sent, view>>
    BY <1>1 DEF WriterFails
  <1>3. Idle.at = "idle" /\ Idle.text = None
    BY DEF Idle
  <1>4. t \in Texts
    BY <1>2, <1>3 DEF ClipboardType, DeviceType
  <1>5. /\ entries' \in Seq(Entry) /\ InOrder(entries') /\ Len(entries') <= Len(entries)
        /\ OnlyOf(entries', entries)
        /\ \A u \in Texts : Count(entries', Of(u)) =
             Count(entries, Of(u)) - (IF Suppressed(entries, t) /\ u = t THEN 1 ELSE 0)
    BY <1>1, <1>2, <1>4, ConsumedOne
  <1>6. Len(entries') <= MaxEntries
    BY <1>1, <1>5, LenProperties, LimitsType
  <1>7. \A u \in Texts : Writing(u)' = 0 /\ Writing(u) = IF u = t THEN 1 ELSE 0
    BY <1>2, <1>3, LimitsType DEF Writing
  <1>8. ASSUME NEW u \in Texts
        PROVE  /\ Count(entries', Of(u)) \in Nat
               /\ Count(entries, Of(u)) <= Count(entries', Of(u)) + Writing(u)
    BY <1>1, <1>5, <1>7, CountType
  <1>9. ClipboardType'
    <2>1. DeviceType'
      BY <1>2, <1>5, <1>6 DEF ClipboardType, DeviceType
    <2>2. TallyType'
      BY <1>2, <1>5, <1>6 DEF ClipboardType, TallyType
    <2>3. QueueType'
      BY <1>2, <1>5, <1>6 DEF ClipboardType, QueueType
    <2> QED
      BY <2>1, <2>2, <2>3 DEF ClipboardType
  <1>10. Unused'
    BY <1>2, <1>3 DEF Unused
  <1>11. WatchAccount'
    <2> SUFFICES ASSUME platform = "watch", NEW u \in Texts
                 PROVE  /\ sent[u] + Restart <= copied[u] + exits + lost[u]
                        /\ sent[u] + Restart + callbacks[u] + Count(events, {u}) + copiers[u]
                             + 0 <= copied[u] + exits + lost[u] + Count(entries', Of(u))
      BY <1>2, <1>7 DEF WatchAccount, Restart
    <2> QED
      BY <1>8, Typed DEF WatchAccount
  <1>12. PollAccount'
    <2> SUFFICES ASSUME platform = "poll", NEW u \in Texts
                 PROVE  /\ sent[u] <= 2 * copied[u] + written[u] + lost[u]
                        /\ sent[u] + ToRead(u) + Count(events, {u}) + 0
                             <= 2 * copied[u] + written[u] + lost[u] + Count(entries', Of(u))
      BY <1>2, <1>7 DEF PollAccount, ToRead
    <2>1. /\ sent[u] <= 2 * copied[u] + written[u] + lost[u]
          /\ sent[u] + ToRead(u) + Count(events, {u}) + Writing(u)
               <= 2 * copied[u] + written[u] + lost[u] + Count(entries, Of(u))
      BY DEF PollAccount
    <2>2. /\ sent[u] \in Nat /\ copied[u] \in Nat /\ written[u] \in Nat /\ lost[u] \in Nat
          /\ ToRead(u) \in Nat /\ Count(events, {u}) \in Nat /\ Writing(u) \in Nat
          /\ Count(entries, Of(u)) \in Nat
      BY Typed
    <2> HIDE DEF ClipboardInv
    <2> QED
      BY <1>8, <2>1, <2>2
  <1>13. FromThePeer'
    BY <1>2, <1>5 DEF FromThePeer, OnlyOf
  <1>14. OwnCopyUnderWay'
    BY <1>2 DEF OwnCopyUnderWay
  <1> QED
    BY <1>5, <1>9, <1>10, <1>11, <1>12, <1>13, <1>14

LEMMA PollCountClipboard ==
    ASSUME ClipboardInv, PollCount
    PROVE  ClipboardInv'
  <1> USE DEF ClipboardInv, adapter, watcher, counts, suppressor
  <1>1. /\ platform = "poll" /\ poller = "idle" /\ unseen /\ ~unseen' /\ poller' = "read"
        /\ unseen' \in BOOLEAN
        /\ UNCHANGED <<platform, board, copiers, callbacks, watching, exits, events, entries, lost,
                       inbox, writer, received, copied, written, sent, owner, view>>
    BY DEF PollCount
  <1>2. ClipboardType'
    <2>1. DeviceType'
      BY <1>1 DEF ClipboardType, DeviceType
    <2>2. TallyType'
      BY <1>1 DEF ClipboardType, TallyType
    <2>3. QueueType'
      BY <1>1 DEF ClipboardType, QueueType
    <2> QED
      BY <2>1, <2>2, <2>3 DEF ClipboardType
  <1>3. Unused' /\ WatchAccount' /\ FromThePeer'
    BY <1>1 DEF Unused, WatchAccount, FromThePeer
  <1>4. \A u \in Texts : ToRead(u)' = ToRead(u)
    BY <1>1 DEF ToRead
  <1>5. PollAccount'
    BY <1>1, <1>4 DEF PollAccount, Writing
  <1>6. OwnCopyUnderWay'
    BY <1>1 DEF OwnCopyUnderWay
  <1> QED
    BY <1>1, <1>2, <1>3, <1>5, <1>6

LEMMA PollReadClipboard ==
    ASSUME ClipboardInv, PollRead
    PROVE  ClipboardInv'
  <1> USE DEF ClipboardInv, adapter, watcher, counts, suppressor
  <1>1. /\ poller = "read" /\ poller' = "idle"
        /\ events' = IF board = None THEN events ELSE Append(events, board)
        /\ UNCHANGED <<platform, board, unseen, copiers, callbacks, watching, exits, entries, lost,
                       inbox, writer, received, copied, written, sent, owner, view>>
    BY DEF PollRead, Emitted
  <1>2. platform = "poll"
    BY <1>1 DEF Unused, ClipboardType, DeviceType
  <1>3. events \in Seq(Texts) /\ board \in Texts \cup {None}
    BY DEF ClipboardType, DeviceType, QueueType
  <1>4. events' \in Seq(Texts)
    BY <1>1, <1>3
  <1>5. \A u \in Texts :
          /\ Count(events', {u}) = Count(events, {u}) + (IF u = board THEN 1 ELSE 0)
          /\ ToRead(u) = ToRead(u)' + (IF u = board THEN 1 ELSE 0)
          /\ ToRead(u)' \in Nat
    <2> SUFFICES ASSUME NEW u \in Texts
                 PROVE  /\ Count(events', {u}) = Count(events, {u}) + (IF u = board THEN 1 ELSE 0)
                        /\ ToRead(u) = ToRead(u)' + (IF u = board THEN 1 ELSE 0)
                        /\ ToRead(u)' \in Nat
      OBVIOUS
    <2>1. Count(events, {u}) \in Nat
      BY Typed
    <2>2. CASE board = None
      BY <1>1, <2>1, <2>2, LimitsType DEF ToRead
    <2>3. CASE board # None
      <3>1. board \in Texts /\ events' = Append(events, board)
        BY <1>1, <1>3, <2>3
      <3>2. Count(Append(events, board), {u}) = Count(events, {u}) + (IF u = board THEN 1 ELSE 0)
        BY <1>3, <3>1, CountAppend
      <3>3. ToRead(u) = ToRead(u)' + (IF u = board THEN 1 ELSE 0) /\ ToRead(u)' \in Nat
        BY <1>1 DEF ToRead
      <3> QED
        BY <3>1, <3>2, <3>3
    <2> QED
      BY <2>2, <2>3
  <1>6. ClipboardType'
    <2>1. DeviceType'
      BY <1>1, <1>4 DEF ClipboardType, DeviceType
    <2>2. TallyType'
      BY <1>1, <1>4 DEF ClipboardType, TallyType
    <2>3. QueueType'
      BY <1>1, <1>4 DEF ClipboardType, QueueType
    <2> QED
      BY <2>1, <2>2, <2>3 DEF ClipboardType
  <1>7. Unused' /\ WatchAccount' /\ FromThePeer'
    BY <1>1, <1>2 DEF Unused, WatchAccount, FromThePeer
  <1>8. PollAccount'
    <2> SUFFICES ASSUME NEW u \in Texts
                 PROVE  /\ sent[u] <= 2 * copied[u] + written[u] + lost[u]
                        /\ sent[u] + ToRead(u)' + Count(events', {u}) + Writing(u)
                             <= 2 * copied[u] + written[u] + lost[u] + Count(entries, Of(u))
      BY <1>1 DEF PollAccount, Writing
    <2>0. /\ sent[u] \in Nat /\ Count(events, {u}) \in Nat /\ ToRead(u) \in {0, 1, 2}
          /\ ToRead(u)' \in Nat
      BY <1>5, Typed
    <2>1. ToRead(u)' + Count(events', {u}) = ToRead(u) + Count(events, {u})
      BY <1>5, <2>0
    <2>2. /\ sent[u] <= 2 * copied[u] + written[u] + lost[u]
          /\ sent[u] + ToRead(u) + Count(events, {u}) + Writing(u)
               <= 2 * copied[u] + written[u] + lost[u] + Count(entries, Of(u))
      BY <1>2 DEF PollAccount
    <2>3. /\ sent[u] \in Nat /\ ToRead(u) \in Nat /\ ToRead(u)' \in Nat
          /\ Count(events, {u}) \in Nat /\ Count(events', {u}) \in Nat
      BY <1>4, <2>0, CountType
    <2> HIDE DEF ClipboardInv
    <2> QED
      BY <2>1, <2>2, <2>3
  <1>9. OwnCopyUnderWay'
    <2> SUFFICES ASSUME board \in Texts PROVE events' # <<>> /\ events'[Len(events')] = board
      BY <1>1, <1>2 DEF OwnCopyUnderWay
    <2>1. events' = Append(events, board)
      BY <1>1, LimitsType
    <2>2. Len(events') = Len(events) + 1 /\ events'[Len(events) + 1] = board /\ events' # <<>>
      BY <1>3, <2>1, AppendProperties
    <2> QED
      BY <2>2
  <1> QED
    BY <1>1, <1>6, <1>7, <1>8, <1>9

LEMMA CallbackClipboard ==
    ASSUME ClipboardInv, NEW t \in Texts, Callback(t)
    PROVE  ClipboardInv'
  <1> USE DEF ClipboardInv, adapter, watcher, counts, suppressor
  <1>1. /\ callbacks[t] > 0 /\ events' = Append(events, t)
        /\ UNCHANGED <<platform, board, unseen, poller, copiers, watching, exits, entries, lost,
                       inbox, writer, received, copied, written, sent, owner, view>>
    BY DEF Callback, Emitted
  <1>2. platform = "watch"
    BY <1>1, Typed DEF Unused, ClipboardType, DeviceType
  <1>3. /\ callbacks' \in [Texts -> Nat]
        /\ \A u \in Texts : callbacks'[u] = callbacks[u] - (IF u = t THEN 1 ELSE 0)
    <2>1. callbacks \in [Texts -> Nat]
      BY Typed
    <2> HIDE DEF ClipboardInv
    <2>2. callbacks[t] - 1 \in Nat
      BY <1>1, <2>1
    <2> QED
      BY <2>1, <2>2 DEF Callback
  <1>4. /\ events \in Seq(Texts) /\ events' \in Seq(Texts) /\ Len(events) \in Nat
        /\ Len(events') = Len(events) + 1 /\ events'[Len(events) + 1] = t
        /\ \A k \in 1..Len(events) : events'[k] = events[k]
    BY <1>1, AppendProperties, LenProperties DEF ClipboardType, QueueType
  <1>5. \A u \in Texts : Count(events', {u}) = Count(events, {u}) + (IF u = t THEN 1 ELSE 0)
    <2>1. \A u \in Texts :
            Count(Append(events, t), {u}) = Count(events, {u}) + (IF t \in {u} THEN 1 ELSE 0)
      BY <1>4, CountAppend
    <2> QED
      BY <1>1, <2>1
  <1>6. ClipboardType'
    <2>1. DeviceType'
      BY <1>1, <1>3, <1>4 DEF ClipboardType, DeviceType
    <2>2. TallyType'
      BY <1>1, <1>3, <1>4 DEF ClipboardType, TallyType
    <2>3. QueueType'
      BY <1>1, <1>3, <1>4 DEF ClipboardType, QueueType
    <2> QED
      BY <2>1, <2>2, <2>3 DEF ClipboardType
  <1>7. Unused' /\ PollAccount' /\ FromThePeer'
    BY <1>1, <1>2 DEF Unused, PollAccount, FromThePeer
  <1>8. WatchAccount'
    <2> SUFFICES ASSUME NEW u \in Texts
                 PROVE  /\ sent[u] + Restart <= copied[u] + exits + lost[u]
                        /\ sent[u] + Restart + callbacks'[u] + Count(events', {u}) + copiers[u]
                             + Writing(u) <= copied[u] + exits + lost[u] + Count(entries, Of(u))
      BY <1>1 DEF WatchAccount, Restart, Writing
    <2> QED
      BY <1>2, <1>3, <1>5, Typed DEF WatchAccount
  <1>9. OwnCopyUnderWay'
    <2> SUFFICES ASSUME board \in Texts,
                        callbacks[board] > 0 \/ \E k \in 1..Len(events) : events[k] = board
                 PROVE  callbacks'[board] > 0 \/ \E k \in 1..Len(events') : events'[k] = board
      BY <1>1, <1>2 DEF OwnCopyUnderWay
    <2>1. 1..Len(events) \subseteq 1..Len(events') /\ Len(events) + 1 \in 1..Len(events')
      BY <1>4
    <2>2. CASE \E k \in 1..Len(events) : events[k] = board
      BY <1>4, <2>1, <2>2
    <2>3. CASE callbacks[board] > 0 /\ board # t
      BY <1>3, <2>3, Typed
    <2>4. CASE board = t
      BY <1>4, <2>1, <2>4
    <2> QED
      BY <2>2, <2>3, <2>4
  <1> QED
    BY <1>1, <1>6, <1>7, <1>8, <1>9

LEMMA WatcherExitsClipboard ==
    ASSUME ClipboardInv, WatcherExits
    PROVE  ClipboardInv'
  <1> USE DEF ClipboardInv, adapter, watcher, counts, suppressor
  <1>1. /\ watching /\ ~watching' /\ watching' \in BOOLEAN /\ exits' = exits + 1 /\ exits' \in Nat
        /\ UNCHANGED <<platform, board, unseen, poller, copiers, callbacks, events, entries, lost,
                       inbox, writer, received, copied, written, sent, owner, view>>
    <2>1. exits \in Nat
      BY Typed
    <2> HIDE DEF ClipboardInv
    <2>2. watching /\ exits' = exits + 1 /\ watching' = FALSE
      BY DEF WatcherExits
    <2>3. exits' \in Nat
      BY <2>1, <2>2
    <2>4. UNCHANGED <<platform, board, unseen, poller, copiers, callbacks, events, entries, lost,
                      inbox, writer, received, copied, written, sent, owner, view>>
      BY DEF WatcherExits
    <2> QED
      BY <2>2, <2>3, <2>4
  <1>2. platform = "watch" /\ Restart = 0 /\ Restart' = 1
    BY <1>1 DEF Unused, ClipboardType, DeviceType, Restart
  <1>3. ClipboardType'
    <2>1. DeviceType'
      BY <1>1 DEF ClipboardType, DeviceType
    <2>2. TallyType'
      BY <1>1 DEF ClipboardType, TallyType
    <2>3. QueueType'
      BY <1>1 DEF ClipboardType, QueueType
    <2> QED
      BY <2>1, <2>2, <2>3 DEF ClipboardType
  <1>4. Unused' /\ PollAccount' /\ FromThePeer' /\ OwnCopyUnderWay'
    BY <1>1, <1>2 DEF Unused, PollAccount, FromThePeer, OwnCopyUnderWay
  <1>5. WatchAccount'
    <2> SUFFICES ASSUME NEW u \in Texts
                 PROVE  /\ sent[u] + 1 <= copied[u] + (exits + 1) + lost[u]
                        /\ sent[u] + 1 + callbacks[u] + Count(events, {u}) + copiers[u]
                             + Writing(u) <= copied[u] + (exits + 1) + lost[u] + Count(entries, Of(u))
      BY <1>1, <1>2 DEF WatchAccount, Writing
    <2>1. /\ sent[u] + 0 <= copied[u] + exits + lost[u]
          /\ sent[u] + 0 + callbacks[u] + Count(events, {u}) + copiers[u]
               + Writing(u) <= copied[u] + exits + lost[u] + Count(entries, Of(u))
      BY <1>2 DEF WatchAccount
    <2> QED
      BY <2>1, Typed
  <1> QED
    BY <1>1, <1>3, <1>4, <1>5

LEMMA WatcherStartsClipboard ==
    ASSUME ClipboardInv, WatcherStarts
    PROVE  ClipboardInv'
  <1> USE DEF ClipboardInv, adapter, watcher, counts, suppressor
  <1>1. /\ platform = "watch" /\ ~watching /\ watching' /\ watching' \in BOOLEAN
        /\ UNCHANGED <<platform, board, unseen, poller, copiers, exits, events, entries, lost,
                       inbox, writer, received, copied, written, sent, owner, view>>
    BY DEF WatcherStarts
  <1>2. Restart = 1 /\ Restart' = 0
    BY <1>1 DEF Restart
  <1>3. /\ callbacks' \in [Texts -> Nat]
        /\ \A u \in Texts : callbacks'[u] = callbacks[u] + (IF u = board THEN 1 ELSE 0)
    <2>1. callbacks \in [Texts -> Nat] /\ board \in Texts \cup {None}
      BY Typed
    <2> HIDE DEF ClipboardInv
    <2>2. CASE board = None
      <3>1. callbacks' = callbacks
        BY <2>2 DEF WatcherStarts
      <3> QED
        BY <2>1, <2>2, <3>1, LimitsType
    <2>3. CASE board # None
      <3>1. callbacks' = [callbacks EXCEPT ![board] = @ + 1] /\ board \in Texts
        BY <2>1, <2>3 DEF WatcherStarts
      <3> QED
        BY <2>1, <3>1
    <2> QED
      BY <2>2, <2>3
  <1>4. ClipboardType'
    <2>1. DeviceType'
      BY <1>1, <1>3 DEF ClipboardType, DeviceType
    <2>2. TallyType'
      BY <1>1, <1>3 DEF ClipboardType, TallyType
    <2>3. QueueType'
      BY <1>1, <1>3 DEF ClipboardType, QueueType
    <2> QED
      BY <2>1, <2>2, <2>3 DEF ClipboardType
  <1>5. Unused' /\ PollAccount' /\ FromThePeer'
    BY <1>1 DEF Unused, PollAccount, FromThePeer
  <1>6. WatchAccount'
    <2> SUFFICES ASSUME NEW u \in Texts
                 PROVE  /\ sent[u] + 0 <= copied[u] + exits + lost[u]
                        /\ sent[u] + 0 + callbacks'[u] + Count(events, {u}) + copiers[u]
                             + Writing(u) <= copied[u] + exits + lost[u] + Count(entries, Of(u))
      BY <1>1, <1>2 DEF WatchAccount, Writing
    <2>1. /\ sent[u] + 1 <= copied[u] + exits + lost[u]
          /\ sent[u] + 1 + callbacks[u] + Count(events, {u}) + copiers[u]
               + Writing(u) <= copied[u] + exits + lost[u] + Count(entries, Of(u))
      BY <1>1, <1>2 DEF WatchAccount
    <2> QED
      BY <1>3, <2>1, Typed
  <1>7. OwnCopyUnderWay'
    <2>1. board \in Texts => callbacks'[board] > 0
      BY <1>3, Typed
    <2> QED
      BY <1>1, <2>1 DEF OwnCopyUnderWay
  <1> QED
    BY <1>1, <1>4, <1>5, <1>6, <1>7

LEMMA LocalLoopClipboard ==
    ASSUME ClipboardInv, LocalLoop
    PROVE  ClipboardInv'
  <1> USE DEF ClipboardInv, adapter, watcher, counts, suppressor
  <1> DEFINE t == Head(events)
             rest == Tail(events)
  <1>1. /\ entries \in Seq(Entry) /\ InOrder(entries) /\ Len(entries) <= MaxEntries
        /\ Fresh(entries) = entries
    BY FreshAll DEF ClipboardType, QueueType
  <1>2. /\ events # <<>> /\ events' = rest
        /\ UNCHANGED <<platform, board, unseen, poller, copiers, callbacks, watching, exits, lost,
                       inbox, writer, received, copied, written, owner>>
        /\ \/ /\ Suppressed(entries, t) /\ entries' = Consumed(entries, t)
              /\ sent' = sent /\ view' = view
           \/ /\ ~Suppressed(entries, t) /\ entries' = entries
              /\ sent' = [sent EXCEPT ![t] = @ + 1] /\ view' = t
    BY <1>1 DEF LocalLoop
  <1>3. events \in Seq(Texts)
    BY DEF ClipboardType, QueueType
  <1>4. /\ t \in Texts /\ rest \in Seq(Texts) /\ 1 \in 1..Len(events) /\ t = events[1]
        /\ Without(events, 1, rest) /\ Len(events) \in Nat /\ Len(rest) = Len(events) - 1
        /\ \A i \in 1..Len(rest) : rest[i] = events[i + 1]
    BY <1>2, <1>3, TailWithout, LenProperties, ElementOfSeq DEF Without
  <1> HIDE DEF t, rest
  <1>5. \A u \in Texts : Count(rest, {u}) = Count(events, {u}) - (IF u = t THEN 1 ELSE 0)
    <2>1. \A u \in Texts :
            Count(rest, {u}) = Count(events, {u}) - (IF events[1] \in {u} THEN 1 ELSE 0)
      BY <1>3, <1>4, CountWithout
    <2> QED
      BY <1>4, <2>1
  <1>6. \A u \in Texts : Count(rest, {u}) \in Nat
    BY <1>4, CountType
  <1>7. CASE Suppressed(entries, t)
    <2>1. entries' = Consumed(entries, t) /\ sent' = sent /\ view' = view
      BY <1>2, <1>7
    <2>2. /\ entries' \in Seq(Entry) /\ InOrder(entries') /\ Len(entries') <= Len(entries)
          /\ OnlyOf(entries', entries)
          /\ \A u \in Texts : Count(entries', Of(u)) = Count(entries, Of(u)) - (IF u = t THEN 1 ELSE 0)
      BY <1>1, <1>4, <1>7, <2>1, ConsumedOne
    <2>3. Len(entries') <= MaxEntries
      BY <1>1, <2>2, LenProperties, LimitsType
    <2>5. \A u \in Texts : Count(entries', Of(u)) \in Nat
      BY <2>2, CountType
    <2>4. ASSUME NEW u \in Texts
          PROVE  Count(entries', Of(u)) + Count(events, {u}) = Count(entries, Of(u)) + Count(rest, {u})
      <3>1. Count(entries, Of(u)) \in Nat /\ Count(events, {u}) \in Nat
        BY Numbers
      <3> QED
        BY <1>5, <2>2, <3>1
    <2>6. ClipboardType'
      <3>1. DeviceType'
        BY <1>2, <1>4, <2>1, <2>2, <2>3 DEF ClipboardType, DeviceType
      <3>2. TallyType'
        BY <1>2, <1>4, <2>1, <2>2, <2>3 DEF ClipboardType, TallyType
      <3>3. QueueType'
        BY <1>2, <1>4, <2>1, <2>2, <2>3 DEF ClipboardType, QueueType
      <3> QED
        BY <3>1, <3>2, <3>3 DEF ClipboardType
    <2>7. Unused'
      BY <1>2 DEF Unused
    <2>8. WatchAccount'
      <3> SUFFICES ASSUME platform = "watch", NEW u \in Texts
                   PROVE  /\ sent[u] + Restart <= copied[u] + exits + lost[u]
                          /\ sent[u] + Restart + callbacks[u] + Count(rest, {u}) + copiers[u]
                               + Writing(u) <= copied[u] + exits + lost[u] + Count(entries', Of(u))
        BY <1>2, <2>1 DEF WatchAccount, Restart, Writing
      <3>1. /\ sent[u] + Restart <= copied[u] + exits + lost[u]
            /\ sent[u] + Restart + callbacks[u] + Count(events, {u}) + copiers[u]
                 + Writing(u) <= copied[u] + exits + lost[u] + Count(entries, Of(u))
        BY DEF WatchAccount
      <3>2. Count(rest, {u}) \in Nat /\ Count(entries', Of(u)) \in Nat
        BY <1>6, <2>5
      <3> QED
        BY <2>4, <3>1, <3>2, Numbers
    <2>9. PollAccount'
      <3> SUFFICES ASSUME platform = "poll", NEW u \in Texts
                   PROVE  /\ sent[u] <= 2 * copied[u] + written[u] + lost[u]
                          /\ sent[u] + ToRead(u) + Count(rest, {u}) + Writing(u)
                               <= 2 * copied[u] + written[u] + lost[u] + Count(entries', Of(u))
        BY <1>2, <2>1 DEF PollAccount, ToRead, Writing
      <3>1. /\ sent[u] <= 2 * copied[u] + written[u] + lost[u]
            /\ sent[u] + ToRead(u) + Count(events, {u}) + Writing(u)
                 <= 2 * copied[u] + written[u] + lost[u] + Count(entries, Of(u))
        BY DEF PollAccount
      <3>2. Count(rest, {u}) \in Nat /\ Count(entries', Of(u)) \in Nat
        BY <1>6, <2>5
      <3> QED
        BY <2>4, <3>1, <3>2, Numbers
    <2>10. FromThePeer'
      BY <1>2, <2>2 DEF FromThePeer, OnlyOf
    <2>11. received[t] > 0
      BY <1>1, <1>7, EntriesFinite DEF Suppressed, FromThePeer
    <2>12. OwnCopyUnderWay'
      <3> SUFFICES ASSUME board \in Texts, received[board] = 0, owner = "user"
                   PROVE  /\ platform = "poll" =>
                               \/ inbox # None \/ writer # Idle \/ unseen \/ poller = "read"
                               \/ rest # <<>> /\ rest[Len(rest)] = board
                               \/ rest = <<>> /\ view = board
                          /\ platform = "watch" =>
                               \/ ~watching \/ sent[board] > 0 \/ callbacks[board] > 0
                               \/ \E k \in 1..Len(rest) : rest[k] = board
        BY <1>2, <2>1 DEF OwnCopyUnderWay
      <3>1. board # t
        BY <2>11
      <3>2. ASSUME NEW k \in 1..Len(events), events[k] = board
            PROVE  k - 1 \in 1..Len(rest) /\ rest[k - 1] = board
        <4>1. k # 1
          BY <1>4, <3>1, <3>2
        <4>2. k - 1 \in 1..Len(rest) /\ (k - 1) + 1 = k
          BY <1>4, <4>1
        <4> QED
          BY <1>4, <3>2, <4>2
      <3>3. ASSUME events[Len(events)] = board
            PROVE  rest # <<>> /\ rest[Len(rest)] = board
        <4>1. Len(events) \in 1..Len(events) /\ Len(events) - 1 = Len(rest)
          BY <1>4
        <4>2. Len(rest) \in 1..Len(rest) /\ rest[Len(rest)] = board
          BY <3>2, <3>3, <4>1
        <4> QED
          BY <4>2
      <3> QED
        BY <1>2, <3>2, <3>3 DEF OwnCopyUnderWay
    <2> QED
      BY <2>2, <2>6, <2>7, <2>8, <2>9, <2>10, <2>12
  <1>8. CASE ~Suppressed(entries, t)
    <2>1. entries' = entries /\ view' = t /\ sent' = [sent EXCEPT ![t] = @ + 1]
      BY <1>2, <1>8
    <2>2. Count(entries, Of(t)) = 0
      <3>1. Count(entries, Of(t)) \in Nat
        BY <1>4, Numbers
      <3>2. ~(Count(entries, Of(t)) > 0)
        BY <1>1, <1>4, <1>8, ConsumedOne
      <3> QED
        BY <3>1, <3>2
    <2>3. sent' \in [Texts -> Nat] /\ \A u \in Texts : sent'[u] = sent[u] + (IF u = t THEN 1 ELSE 0)
      <3>1. sent \in [Texts -> Nat]
        BY Typed
      <3> HIDE DEF ClipboardInv
      <3> QED
        BY <1>4, <2>1, <3>1
    <2>4. ASSUME NEW u \in Texts
          PROVE  sent'[u] + Count(rest, {u}) = sent[u] + Count(events, {u})
      <3>1. sent[u] \in Nat /\ Count(events, {u}) \in Nat
        BY Numbers
      <3>2. /\ sent'[u] = sent[u] + (IF u = t THEN 1 ELSE 0)
            /\ Count(rest, {u}) = Count(events, {u}) - (IF u = t THEN 1 ELSE 0)
        BY <1>5, <2>3
      <3> QED
        BY <3>1, <3>2
    <2>6. ClipboardType'
      <3>1. view' \in Texts \cup {None} /\ entries' = entries
        BY <1>4, <2>1
      <3>2. DeviceType'
        BY <1>2, <3>1 DEF ClipboardType, DeviceType
      <3>3. TallyType'
        BY <1>2, <2>3 DEF ClipboardType, TallyType
      <3>4. QueueType'
        BY <1>2, <1>4, <3>1 DEF ClipboardType, QueueType
      <3> QED
        BY <3>2, <3>3, <3>4 DEF ClipboardType
    <2>7. Unused' /\ FromThePeer'
      <3>1. entries' = entries
        BY <2>1
      <3> QED
        BY <1>2, <3>1 DEF Unused, FromThePeer
    <2>8. WatchAccount'
      <3> SUFFICES ASSUME platform = "watch", NEW u \in Texts
                   PROVE  /\ sent'[u] + Restart <= copied[u] + exits + lost[u]
                          /\ sent'[u] + Restart + callbacks[u] + Count(rest, {u}) + copiers[u]
                               + Writing(u) <= copied[u] + exits + lost[u] + Count(entries, Of(u))
        BY <1>2, <2>1 DEF WatchAccount, Restart, Writing
      <3>1. /\ sent[u] + Restart <= copied[u] + exits + lost[u]
            /\ sent[u] + Restart + callbacks[u] + Count(events, {u}) + copiers[u]
                 + Writing(u) <= copied[u] + exits + lost[u] + Count(entries, Of(u))
        BY DEF WatchAccount
      <3>2. sent'[u] \in Nat /\ Count(rest, {u}) \in Nat
        BY <1>6, <2>3
      <3>3. sent'[u] + Restart + callbacks[u] + Count(rest, {u}) + copiers[u]
              + Writing(u) <= copied[u] + exits + lost[u] + Count(entries, Of(u))
        <4>1. sent'[u] + Count(rest, {u}) = sent[u] + Count(events, {u})
          BY <2>4
        <4>2. /\ sent[u] \in Nat /\ copied[u] \in Nat /\ exits \in Nat /\ lost[u] \in Nat
              /\ Restart \in Nat /\ callbacks[u] \in Nat /\ copiers[u] \in Nat
              /\ Writing(u) \in Nat
              /\ Count(events, {u}) \in Nat /\ Count(entries, Of(u)) \in Nat
          BY Numbers
        <4> HIDE DEF ClipboardInv
        <4> QED
          BY <3>1, <3>2, <4>1, <4>2
      <3>4. CASE u = t
        <4>1. Count(entries, Of(u)) = 0
          BY <2>2, <3>4
        <4> QED
          BY <3>2, <3>3, <4>1, Numbers
      <3>5. CASE u # t
        <4>1. sent[u] \in Nat
          BY Numbers
        <4>2. sent'[u] = sent[u]
          BY <2>3, <3>5, <4>1
        <4> QED
          BY <3>1, <3>3, <4>2
      <3> QED
        BY <3>4, <3>5
    <2>9. PollAccount'
      <3> SUFFICES ASSUME platform = "poll", NEW u \in Texts
                   PROVE  /\ sent'[u] <= 2 * copied[u] + written[u] + lost[u]
                          /\ sent'[u] + ToRead(u) + Count(rest, {u}) + Writing(u)
                               <= 2 * copied[u] + written[u] + lost[u] + Count(entries, Of(u))
        BY <1>2, <2>1 DEF PollAccount, ToRead, Writing
      <3>1. /\ sent[u] <= 2 * copied[u] + written[u] + lost[u]
            /\ sent[u] + ToRead(u) + Count(events, {u}) + Writing(u)
                 <= 2 * copied[u] + written[u] + lost[u] + Count(entries, Of(u))
        BY DEF PollAccount
      <3>2. sent'[u] \in Nat /\ Count(rest, {u}) \in Nat
        BY <1>6, <2>3
      <3>3. sent'[u] + ToRead(u) + Count(rest, {u}) + Writing(u)
              <= 2 * copied[u] + written[u] + lost[u] + Count(entries, Of(u))
        <4>1. sent'[u] + Count(rest, {u}) = sent[u] + Count(events, {u})
          BY <2>4
        <4> QED
          BY <3>1, <3>2, <4>1, Numbers
      <3>4. CASE u = t
        <4>1. Count(entries, Of(u)) = 0
          BY <2>2, <3>4
        <4> QED
          BY <3>2, <3>3, <4>1, Numbers
      <3>5. CASE u # t
        <4>1. sent[u] \in Nat
          BY Numbers
        <4>2. sent'[u] = sent[u]
          BY <2>3, <3>5, <4>1
        <4> QED
          BY <3>1, <3>3, <4>2
      <3> QED
        BY <3>4, <3>5
    <2>12. OwnCopyUnderWay'
      <3> SUFFICES ASSUME board \in Texts, received[board] = 0, owner = "user"
                   PROVE  /\ platform = "poll" =>
                               \/ inbox # None \/ writer # Idle \/ unseen \/ poller = "read"
                               \/ rest # <<>> /\ rest[Len(rest)] = board
                               \/ rest = <<>> /\ t = board
                          /\ platform = "watch" =>
                               \/ ~watching \/ sent'[board] > 0 \/ callbacks[board] > 0
                               \/ \E k \in 1..Len(rest) : rest[k] = board
        BY <1>2, <2>1 DEF OwnCopyUnderWay
      <3>1. board = t => sent'[board] > 0
        BY <2>3, Typed
      <3>2. sent[board] > 0 => sent'[board] > 0
        BY <2>3, Typed
      <3>3. ASSUME NEW k \in 1..Len(events), events[k] = board
            PROVE  board = t \/ (k - 1 \in 1..Len(rest) /\ rest[k - 1] = board)
        <4>1. CASE k = 1
          BY <1>4, <3>3, <4>1
        <4>2. CASE k # 1
          <5>1. k - 1 \in 1..Len(rest) /\ (k - 1) + 1 = k
            BY <1>4, <4>2
          <5> QED
            BY <1>4, <3>3, <5>1
        <4> QED
          BY <4>1, <4>2
      <3>4. ASSUME events[Len(events)] = board
            PROVE  \/ rest # <<>> /\ rest[Len(rest)] = board
                   \/ rest = <<>> /\ t = board
        <4>1. CASE rest = <<>>
          <5>1. Len(events) = 1
            BY <1>4, <4>1
          <5> QED
            BY <1>4, <3>4, <4>1, <5>1
        <4>2. CASE rest # <<>>
          <5>1. Len(rest) \in 1..Len(rest) /\ Len(rest) + 1 = Len(events)
            BY <1>4, <4>2, EmptySeq
          <5> QED
            BY <1>4, <3>4, <4>2, <5>1
        <4> QED
          BY <4>1, <4>2
      <3> QED
        BY <1>2, <3>1, <3>2, <3>3, <3>4 DEF OwnCopyUnderWay
    <2> QED
      BY <1>1, <2>1, <2>6, <2>7, <2>8, <2>9, <2>12
  <1> QED
    BY <1>7, <1>8

LEMMA TickClipboard ==
    ASSUME ClipboardInv, Tick
    PROVE  ClipboardInv'
  <1> USE DEF ClipboardInv, adapter, watcher, counts, suppressor
  <1> DEFINE gone(u) == IF Quiet THEN 0 ELSE Cardinality(Expired(Older(entries), u))
  <1>1. /\ entries' = Fresh(Older(entries))
        /\ UNCHANGED <<platform, board, unseen, poller, copiers, callbacks, watching, exits, events,
                       inbox, writer, received, copied, written, sent, owner, view>>
    BY DEF Tick
  <1>2. entries \in Seq(Entry) /\ InOrder(entries) /\ Len(entries) <= MaxEntries
    BY DEF ClipboardType, QueueType
  <1>3. /\ entries' \in Seq(Entry) /\ InOrder(entries') /\ Len(entries') <= Len(entries)
        /\ \A i \in 1..Len(entries') : \E k \in 1..Len(entries) : entries'[i].text = entries[k].text
        /\ \A u : /\ Cardinality(Expired(Older(entries), u)) \in Nat
                  /\ Count(entries, Of(u))
                       <= Count(entries', Of(u)) + Cardinality(Expired(Older(entries), u))
    BY <1>1, <1>2, TickedEntries
  <1>4. Len(entries') <= MaxEntries
    BY <1>2, <1>3, LenProperties, LimitsType
  <1>5. \A u \in Texts : /\ gone(u) \in Nat /\ Count(entries', Of(u)) \in Nat
                         /\ Quiet \/ Count(entries, Of(u)) <= Count(entries', Of(u)) + gone(u)
    BY <1>3, CountType
  <1>6. lost' \in [Texts -> Nat] /\ \A u \in Texts : lost'[u] = lost[u] + gone(u)
    <2>1. lost \in [Texts -> Nat]
      BY Typed
    <2> HIDE DEF ClipboardInv
    <2>2. CASE Quiet
      <3>1. lost' = lost
        BY <2>2 DEF Tick
      <3> QED
        BY <2>1, <2>2, <3>1
    <2>3. CASE ~Quiet
      <3>1. lost' = [u \in Texts |-> lost[u] + gone(u)]
        BY <2>3 DEF Tick
      <3> HIDE DEF gone
      <3> QED
        BY <1>5, <2>1, <3>1
    <2> QED
      BY <2>2, <2>3
  <1> HIDE DEF gone
  <1>7. ClipboardType'
    <2>1. DeviceType'
      BY <1>1, <1>3, <1>4, <1>6 DEF ClipboardType, DeviceType
    <2>2. TallyType'
      BY <1>1, <1>3, <1>4, <1>6 DEF ClipboardType, TallyType
    <2>3. QueueType'
      BY <1>1, <1>3, <1>4, <1>6 DEF ClipboardType, QueueType
    <2> QED
      BY <2>1, <2>2, <2>3 DEF ClipboardType
  <1>8. Unused' /\ OwnCopyUnderWay'
    BY <1>1 DEF Unused, OwnCopyUnderWay
  <1>9. Quiet => \A u \in Texts : /\ callbacks[u] = 0 /\ copiers[u] = 0 /\ Count(events, {u}) = 0
                                  /\ Writing(u) = 0 /\ ToRead(u) = 0
    BY CountEmpty, LimitsType DEF Quiet, Writing, ToRead, Idle
  <1>10. WatchAccount'
    <2> SUFFICES ASSUME platform = "watch", NEW u \in Texts
                 PROVE  /\ sent[u] + Restart <= copied[u] + exits + lost'[u]
                        /\ sent[u] + Restart + callbacks[u] + Count(events, {u}) + copiers[u]
                             + Writing(u) <= copied[u] + exits + lost'[u] + Count(entries', Of(u))
      BY <1>1 DEF WatchAccount, Restart, Writing
    <2>1. /\ sent[u] + Restart <= copied[u] + exits + lost[u]
          /\ sent[u] + Restart + callbacks[u] + Count(events, {u}) + copiers[u] + Writing(u)
               <= copied[u] + exits + lost[u] + Count(entries, Of(u))
      BY DEF WatchAccount
    <2>2. /\ sent[u] \in Nat /\ copied[u] \in Nat /\ exits \in Nat /\ lost[u] \in Nat
          /\ Restart \in Nat /\ callbacks[u] \in Nat /\ Count(events, {u}) \in Nat
          /\ copiers[u] \in Nat /\ Writing(u) \in Nat /\ Count(entries, Of(u)) \in Nat
      BY Numbers
    <2> HIDE DEF ClipboardInv
    <2>3. CASE Quiet
      BY <1>5, <1>6, <1>9, <2>1, <2>2, <2>3
    <2>4. CASE ~Quiet
      BY <1>5, <1>6, <2>1, <2>2, <2>4
    <2> QED
      BY <2>3, <2>4
  <1>11. PollAccount'
    <2> SUFFICES ASSUME platform = "poll", NEW u \in Texts
                 PROVE  /\ sent[u] <= 2 * copied[u] + written[u] + lost'[u]
                        /\ sent[u] + ToRead(u) + Count(events, {u}) + Writing(u)
                             <= 2 * copied[u] + written[u] + lost'[u] + Count(entries', Of(u))
      BY <1>1 DEF PollAccount, ToRead, Writing
    <2>1. /\ sent[u] <= 2 * copied[u] + written[u] + lost[u]
          /\ sent[u] + ToRead(u) + Count(events, {u}) + Writing(u)
               <= 2 * copied[u] + written[u] + lost[u] + Count(entries, Of(u))
      BY DEF PollAccount
    <2>2. /\ sent[u] \in Nat /\ copied[u] \in Nat /\ written[u] \in Nat /\ lost[u] \in Nat
          /\ ToRead(u) \in Nat /\ Count(events, {u}) \in Nat /\ Writing(u) \in Nat
          /\ Count(entries, Of(u)) \in Nat
      BY Numbers
    <2> HIDE DEF ClipboardInv
    <2>3. CASE Quiet
      BY <1>5, <1>6, <1>9, <2>1, <2>2, <2>3
    <2>4. CASE ~Quiet
      BY <1>5, <1>6, <2>1, <2>2, <2>4
    <2> QED
      BY <2>3, <2>4
  <1>12. FromThePeer'
    BY <1>1, <1>3 DEF FromThePeer
  <1> QED
    BY <1>3, <1>7, <1>8, <1>10, <1>11, <1>12

LEMMA NextClipboard == ClipboardInv /\ [Next]_vars => ClipboardInv'
  <1> SUFFICES ASSUME ClipboardInv, [Next]_vars PROVE ClipboardInv'
    OBVIOUS
  <1>1. CASE \E t \in Texts : Copy(t) \/ Receive(t)
    BY <1>1, CopyClipboard, ReceiveClipboard
  <1>2. CASE WriterAdds
    BY <1>2, WriterAddsClipboard
  <1>3. CASE WriterFeeds
    BY <1>3, WriterFeedsClipboard
  <1>4. CASE WriterClears
    BY <1>4, WriterClearsClipboard
  <1>5. CASE WriterSets
    BY <1>5, WriterSetsClipboard
  <1>6. CASE WriterFails
    BY <1>6, WriterFailsClipboard
  <1>7. CASE \E t \in Texts : CopierOwns(t) \/ Callback(t)
    BY <1>7, CopierOwnsClipboard, CallbackClipboard
  <1>8. CASE PollCount
    BY <1>8, PollCountClipboard
  <1>9. CASE PollRead
    BY <1>9, PollReadClipboard
  <1>10. CASE WatcherExits
    BY <1>10, WatcherExitsClipboard
  <1>11. CASE WatcherStarts
    BY <1>11, WatcherStartsClipboard
  <1>12. CASE LocalLoop
    BY <1>12, LocalLoopClipboard
  <1>13. CASE Tick
    BY <1>13, TickClipboard
  <1>14. CASE UNCHANGED vars
    <2>1. UNCHANGED <<platform, board, unseen, poller, copiers, callbacks, watching, exits, events,
                      entries, lost, inbox, writer, copied, received, written, sent, owner, view>>
      BY <1>14 DEF vars, adapter, watcher, counts, suppressor
    <2>2. ClipboardType'
      <3>1. DeviceType'
        BY <2>1 DEF ClipboardInv, ClipboardType, DeviceType
      <3>2. TallyType'
        BY <2>1 DEF ClipboardInv, ClipboardType, TallyType
      <3>3. QueueType'
        BY <2>1 DEF ClipboardInv, ClipboardType, QueueType
      <3> QED
        BY <3>1, <3>2, <3>3 DEF ClipboardType
    <2>6. Unused' /\ InOrder(entries')
      BY <2>1 DEF ClipboardInv, Unused
    <2>3. WatchAccount'
      BY <2>1 DEF ClipboardInv, WatchAccount, Restart, Writing
    <2>4. PollAccount'
      BY <2>1 DEF ClipboardInv, PollAccount, ToRead, Writing
    <2>5. FromThePeer' /\ OwnCopyUnderWay'
      BY <2>1 DEF ClipboardInv, FromThePeer, OwnCopyUnderWay
    <2> QED
      BY <2>2, <2>3, <2>4, <2>5, <2>6 DEF ClipboardInv
  <1> QED
    BY <1>1, <1>2, <1>3, <1>4, <1>5, <1>6, <1>7, <1>8, <1>9, <1>10, <1>11, <1>12, <1>13, <1>14
       DEF Next

-----------------------------------------------------------------------------
(* The account of every text balances in every state, and a text the user  *)
(* copied that never came from the peer is somewhere between the clipboard *)
(* and the peer.                                                           *)
THEOREM ClipboardInvariant == Spec => []ClipboardInv
  BY InitClipboard, NextClipboard, PTL DEF Spec

(* On Linux a text is sent no more often than it was copied, but for the   *)
(* restarts of wl-paste and the entries that the full suppressor pushed    *)
(* out or that expired too early (Add before Write, Consume on failure,    *)
(* localLoop).                                                             *)
THEOREM OneSendPerCopyHolds == Spec => []OneSendPerCopy
  <1>1. ClipboardInv => OneSendPerCopy
    <2> SUFFICES ASSUME ClipboardInv, platform = "watch", NEW t \in Texts
                 PROVE  sent[t] <= copied[t] + exits + lost[t]
      BY DEF OneSendPerCopy
    <2>1. sent[t] + Restart <= copied[t] + exits + lost[t]
      BY DEF ClipboardInv, WatchAccount
    <2>2. sent[t] \in Nat /\ Restart \in Nat /\ copied[t] \in Nat /\ exits \in Nat /\ lost[t] \in Nat
      BY Numbers DEF ClipboardInv
    <2> QED
      BY <2>1, <2>2
  <1> QED
    BY <1>1, ClipboardInvariant, PTL

(* On macOS a text goes back to the peer at most once for each write of it *)
(* and each entry of it that was pushed out or expired too early, besides  *)
(* the two reports of each copy of the user (poll, Consume, localLoop).    *)
THEOREM EchoBoundedHolds == Spec => []EchoBounded
  <1>1. ClipboardInv => EchoBounded
    BY DEF ClipboardInv, PollAccount, EchoBounded
  <1> QED
    BY <1>1, ClipboardInvariant, PTL

(* A text of the user's own reaches the peer when everything is handled    *)
(* (the adapters' Start and watchLoop, localLoop).                         *)
THEOREM OwnCopyDeliveredHolds == Spec => []OwnCopyDelivered
  <1>1. ClipboardInv => OwnCopyDelivered
    <2> SUFFICES ASSUME ClipboardInv, Quiet, owner = "user", received[board] = 0
                 PROVE  /\ platform = "poll" => view = board
                        /\ watching => sent[board] > 0
      BY DEF OwnCopyDelivered
    <2>1. board \in Texts /\ OwnCopyUnderWay /\ ClipboardType /\ Unused
      BY DEF ClipboardInv, OwnCopyUnderWay
    <2>2. /\ inbox = None /\ writer = Idle /\ ~unseen /\ poller = "idle" /\ events = <<>>
          /\ callbacks[board] = 0
      BY <2>1 DEF Quiet
    <2>3. ~\E k \in 1..Len(events) : events[k] = board
      BY <2>2
    <2>4. watching => platform = "watch"
      BY <2>1 DEF Unused, ClipboardType, DeviceType
    <2> QED
      BY <2>1, <2>2, <2>3, <2>4 DEF OwnCopyUnderWay
  <1> QED
    BY <1>1, ClipboardInvariant, PTL
=============================================================================
