---------------------------- MODULE FramesProofs ----------------------------
(***************************************************************************)
(* Proofs about Frames, for every limit on texts and frames that lets a    *)
(* permitted text through, every size of the sockets' buffers and any      *)
(* number of messages.                                                     *)
(*                                                                         *)
(* The argument is about one direction of a connection: what was sent (s), *)
(* the jobs of the sender's goroutines (j), whether its connection is torn *)
(* (t), the bytes under way (w), the bytes of the frame being read (p) and *)
(* what was read (g).  The bytes under way follow each other (Next1), the  *)
(* first is the one the reader waits for, and the last is followed by the  *)
(* one that the goroutine in send will write.                              *)
(*                                                                         *)
(* The last section is about the queue in front of a connection and the    *)
(* one behind all of them (LatestValue).                                   *)
(***************************************************************************)
EXTENDS Frames, LatestValue, TLAPS

Jobs == [id : Nat, next : Nat]
Bytes == [id : Nat, at : Nat]

LongestMessage == Overhead + Expand * MaxText

\* Lengths are numbers, and none is over the limit.
LEMMA MessageLengths ==
    /\ Limit \in Nat
    /\ \A m \in Messages : m.len \in Nat /\ m.len <= Limit
  <1>1. Expand * MaxText \in Nat
    BY FrameAssumption DEF FrameAssumption
  <1>2. LongestMessage \in Nat /\ Limit \in Nat /\ Limit >= LongestMessage
        /\ LongestMessage >= Overhead /\ Overhead \in Nat
    BY <1>1, FrameAssumption DEF FrameAssumption, Limit, LongestMessage
  <1>3. Messages = [kind : {"clipboard"}, len : (Overhead + 1)..LongestMessage]
                   \cup [kind : {"ping", "pong"}, len : {Overhead}]
    BY DEF Messages, LongestMessage
  <1> QED
    BY <1>2, <1>3

\* The byte that follows b in the frames of s.
Next1(s, b) ==
    IF b.at = s[b.id].len THEN [id |-> b.id + 1, at |-> 0] ELSE [id |-> b.id, at |-> b.at + 1]

\* The byte a reader waits for.
ReadAt(p, g) == [id |-> Len(g) + 1, at |-> Len(p)]

\* The bytes under way reach up to this one.
Joined(s, w, p, g, b) == IF w = <<>> THEN b = ReadAt(p, g) ELSE b = Next1(s, w[Len(w)])

DirType(s, j, w, p, g) ==
    /\ s \in Seq(Messages) /\ g \in Seq(Messages)
    /\ j \in [Goroutines -> Jobs]
    /\ w \in Seq(Bytes) /\ p \in Seq(Bytes)

\* One goroutine at most is in send, and it writes the message sent last.
Writers(s, j) ==
    /\ \A x \in Goroutines : j[x] # NoJob =>
         /\ Len(s) > 0 /\ j[x].id = Len(s)
         /\ j[x].next <= s[Len(s)].len
    /\ \A x, y \in Goroutines : j[x] # NoJob /\ j[y] # NoJob => x = y

UnderWay(s, w, p, g) ==
    /\ \A k \in 1..Len(w) : w[k].id \in 1..Len(s) /\ w[k].at <= s[w[k].id].len
    /\ \A k \in 1..(Len(w) - 1) : w[k + 1] = Next1(s, w[k])
    /\ w # <<>> => w[1] = ReadAt(p, g)

Joins(s, j, w, p, g) ==
    /\ \A x \in Goroutines : j[x] # NoJob =>
         Joined(s, w, p, g, [id |-> j[x].id, at |-> j[x].next])
    /\ (\A x \in Goroutines : j[x] = NoJob) =>
         Joined(s, w, p, g, [id |-> Len(s) + 1, at |-> 0])

PartRead(s, p, g) ==
    p # <<>> => /\ Len(g) < Len(s)
                /\ Len(p) <= s[Len(g) + 1].len
                /\ \A k \in 1..Len(p) : p[k] = [id |-> Len(g) + 1, at |-> k - 1]

Dir(s, j, t, w, p, g) ==
    /\ DirType(s, j, w, p, g)
    /\ Writers(s, j)
    /\ UnderWay(s, w, p, g)
    /\ ~t => Joins(s, j, w, p, g)
    /\ PartRead(s, p, g)

Direction(e) == Dir(sent[e], job[e], torn[e], stream[e], part[Other(e)], got[Other(e)])

-----------------------------------------------------------------------------
\* send takes the lock and begins a frame (Begin).
LEMMA DirBegin ==
    ASSUME NEW s, NEW j, NEW w, NEW p, NEW g, Dir(s, j, FALSE, w, p, g),
           \A y \in Goroutines : j[y] = NoJob,
           NEW x \in Goroutines, NEW m \in Messages
    PROVE  Dir(Append(s, m), [j EXCEPT ![x] = [id |-> Len(s) + 1, next |-> 0]], FALSE, w, p, g)
  <1> DEFINE z == Append(s, m)
             i == [j EXCEPT ![x] = [id |-> Len(s) + 1, next |-> 0]]
  <1>1. DirType(s, j, w, p, g) /\ Len(s) \in Nat /\ Len(g) \in Nat /\ Len(w) \in Nat /\ Len(p) \in Nat
    BY DEF Dir, DirType
  <1>2. /\ z \in Seq(Messages) /\ Len(z) = Len(s) + 1 /\ z[Len(s) + 1] = m
        /\ \A k \in 1..Len(s) : z[k] = s[k]
    BY <1>1 DEF DirType
  <1>3. /\ i \in [Goroutines -> Jobs] /\ i[x] = [id |-> Len(s) + 1, next |-> 0]
        /\ \A y \in Goroutines : y # x => i[y] = NoJob
    BY <1>1 DEF DirType, Jobs
  <1>4. i[x] # NoJob
    BY <1>1, <1>3 DEF NoJob
  <1>5. m.len \in Nat
    BY MessageLengths
  <1> HIDE DEF z, i
  <1>6. DirType(z, i, w, p, g)
    BY <1>1, <1>2, <1>3 DEF DirType
  <1>7. Writers(z, i)
    BY <1>1, <1>2, <1>3, <1>5 DEF Writers
  <1>8. \A k \in 1..Len(w) : Next1(z, w[k]) = Next1(s, w[k])
    BY <1>2 DEF Dir, UnderWay, Next1
  <1>9. UnderWay(z, w, p, g)
    <2>1. \A k \in 1..Len(w) : w[k].id \in 1..Len(z) /\ w[k].at <= z[w[k].id].len
      BY <1>1, <1>2 DEF Dir, UnderWay
    <2>2. \A k \in 1..(Len(w) - 1) : w[k + 1] = Next1(z, w[k])
      BY <1>1, <1>8 DEF Dir, UnderWay
    <2> QED
      BY <2>1, <2>2 DEF Dir, UnderWay
  <1>10. Joined(z, w, p, g, [id |-> Len(s) + 1, at |-> 0])
    <2>1. Joined(s, w, p, g, [id |-> Len(s) + 1, at |-> 0])
      BY DEF Dir, Joins
    <2>2. w # <<>> => Len(w) \in 1..Len(w)
      BY <1>1 DEF DirType
    <2> QED
      BY <2>1, <2>2, <1>8 DEF Joined
  <1>11. Joins(z, i, w, p, g)
    BY <1>3, <1>4, <1>10 DEF Joins
  <1>12. PartRead(z, p, g)
    <2>1. PartRead(s, p, g)
      BY DEF Dir
    <2>2. Len(g) < Len(s) => Len(g) + 1 \in 1..Len(s) /\ Len(g) < Len(z)
      BY <1>1, <1>2
    <2> QED
      BY <1>2, <2>1, <2>2 DEF PartRead
  <1> QED
    BY <1>6, <1>7, <1>9, <1>11, <1>12 DEF Dir, z, i

\* writeAll hands over a byte (WriteByte).
LEMMA DirWrite ==
    ASSUME NEW s, NEW j, NEW w, NEW p, NEW g, Dir(s, j, FALSE, w, p, g),
           NEW x \in Goroutines, j[x] # NoJob,
           NEW h \in Jobs, h = IF j[x].next = s[j[x].id].len THEN NoJob
                               ELSE [id |-> j[x].id, next |-> j[x].next + 1]
    PROVE  Dir(s, [j EXCEPT ![x] = h], FALSE,
               Append(w, [id |-> j[x].id, at |-> j[x].next]), p, g)
  <1> DEFINE b == [id |-> j[x].id, at |-> j[x].next]
             v == Append(w, b)
             i == [j EXCEPT ![x] = h]
  <1>1. DirType(s, j, w, p, g) /\ Len(s) \in Nat /\ Len(g) \in Nat /\ Len(w) \in Nat /\ Len(p) \in Nat
    BY DEF Dir, DirType
  <1>2. /\ b \in Bytes /\ b.id = Len(s) /\ b.id \in 1..Len(s) /\ b.at <= s[b.id].len
        /\ b.id = j[x].id /\ b.at = j[x].next
    BY <1>1 DEF Dir, DirType, Writers, Jobs, Bytes
  <1>3. Joined(s, w, p, g, b)
    BY DEF Dir, Joins
  <1>4. \A y \in Goroutines : y # x => j[y] = NoJob
    BY DEF Dir, Writers
  <1>5. i \in [Goroutines -> Jobs] /\ i[x] = h /\ \A y \in Goroutines : y # x => i[y] = NoJob
    BY <1>1, <1>4 DEF DirType
  <1>l. s[b.id].len \in Nat
    BY <1>1, <1>2, MessageLengths DEF DirType
  <1> HIDE DEF b
  <1>6. /\ v \in Seq(Bytes) /\ Len(v) = Len(w) + 1 /\ v[Len(w) + 1] = b /\ v # <<>>
        /\ \A k \in 1..Len(w) : v[k] = w[k]
    <2>1. w \in Seq(Bytes) /\ b \in Bytes
      BY <1>1, <1>2 DEF DirType
    <2>2. v \in Seq(Bytes) /\ Len(v) = Len(w) + 1
      BY <2>1
    <2>3. v[Len(w) + 1] = b /\ \A k \in 1..Len(w) : v[k] = w[k]
      BY <2>1
    <2>4. v # <<>>
      BY <1>1, <2>2
    <2> QED
      BY <2>2, <2>3, <2>4
  <1> HIDE DEF v, i
  <1>7. DirType(s, i, v, p, g)
    BY <1>1, <1>5, <1>6 DEF DirType
  <1>8. h # NoJob => h.id = Len(s) /\ h.next <= s[Len(s)].len /\ h.next = b.at + 1 /\ b.at # s[b.id].len
    BY <1>1, <1>2, <1>l DEF Bytes
  <1>9. Writers(s, i)
    BY <1>1, <1>2, <1>5, <1>8 DEF Writers
  <1>10. UnderWay(s, v, p, g)
    <2>0. UnderWay(s, w, p, g)
      BY DEF Dir
    <2>1. ASSUME NEW k \in 1..Len(v) PROVE v[k].id \in 1..Len(s) /\ v[k].at <= s[v[k].id].len
      <3>1. CASE k = Len(w) + 1
        BY <1>2, <1>6, <3>1
      <3>2. CASE k # Len(w) + 1
        <4>1. k \in 1..Len(w)
          BY <1>1, <1>6, <3>2
        <4> QED
          BY <1>6, <2>0, <4>1 DEF UnderWay
      <3> QED
        BY <3>1, <3>2
    <2>2. ASSUME NEW k \in 1..(Len(v) - 1) PROVE v[k + 1] = Next1(s, v[k])
      <3>1. CASE k = Len(w)
        BY <1>1, <1>3, <1>6, <3>1 DEF Joined
      <3>2. CASE k # Len(w)
        <4>1. k \in 1..(Len(w) - 1) /\ k \in 1..Len(w) /\ k + 1 \in 1..Len(w)
          BY <1>1, <1>6, <3>2
        <4>2. v[k] = w[k] /\ v[k + 1] = w[k + 1]
          BY <1>6, <4>1
        <4> QED
          BY <2>0, <4>1, <4>2 DEF UnderWay
      <3> QED
        BY <3>1, <3>2
    <2>3. v[1] = ReadAt(p, g)
      <3>1. CASE w = <<>>
        BY <1>3, <1>6, <3>1 DEF Joined
      <3>2. CASE w # <<>>
        <4>1. 1 \in 1..Len(w)
          BY <1>1, <3>2 DEF DirType
        <4> QED
          BY <1>6, <3>2, <4>1 DEF Dir, UnderWay
      <3> QED
        BY <3>1, <3>2
    <2> QED
      BY <2>1, <2>2, <2>3 DEF UnderWay
  <1>11. Joins(s, i, v, p, g)
    <2>1. v[Len(v)] = b
      BY <1>6
    <2>2. h # NoJob => [id |-> h.id, at |-> h.next] = Next1(s, b)
      BY <1>2, <1>8 DEF Next1
    <2>3. h = NoJob => [id |-> Len(s) + 1, at |-> 0] = Next1(s, b)
      <3>1. h = NoJob => j[x].next = s[j[x].id].len
        BY <1>1, <1>2 DEF NoJob
      <3> QED
        BY <3>1, <1>2 DEF Next1
    <2> QED
      BY <1>5, <1>6, <2>1, <2>2, <2>3 DEF Joins, Joined
  <1>12. PartRead(s, p, g)
    BY DEF Dir
  <1> QED
    BY <1>7, <1>9, <1>10, <1>11, <1>12 DEF Dir, v, i, b

\* A write fails (WriteFails, or Begin on a connection that is torn).
LEMMA DirTears ==
    ASSUME NEW s, NEW j, NEW t, NEW w, NEW p, NEW g, Dir(s, j, t, w, p, g),
           NEW x \in Goroutines
    PROVE  /\ Dir(s, j, TRUE, w, p, g)
           /\ Dir(s, [j EXCEPT ![x] = NoJob], TRUE, w, p, g)
  <1> DEFINE i == [j EXCEPT ![x] = NoJob]
  <1>1. i \in [Goroutines -> Jobs] /\ i[x] = NoJob /\ \A y \in Goroutines : y # x => i[y] = j[y]
    BY DEF Dir, DirType, Jobs, NoJob
  <1> HIDE DEF i
  <1>2. DirType(s, i, w, p, g) /\ Writers(s, i)
    BY <1>1 DEF Dir, DirType, Writers
  <1> QED
    BY <1>2 DEF Dir, i
-----------------------------------------------------------------------------
\* The bytes of the frame being read, and the next byte from the connection.
Grown(p, w) == Append(p, Head(w))

\* What a reader finds when it takes the next byte.
LEMMA DirHead ==
    ASSUME NEW s, NEW j, NEW t, NEW w, NEW p, NEW g, Dir(s, j, t, w, p, g), w # <<>>
    PROVE  /\ Grown(p, w) \in Seq(Bytes) /\ Len(Grown(p, w)) = Len(p) + 1
           /\ Len(g) + 1 \in 1..Len(s)
           /\ Len(p) <= s[Len(g) + 1].len /\ s[Len(g) + 1].len \in Nat
           /\ \A k \in 1..Len(Grown(p, w)) : Grown(p, w)[k] = [id |-> Len(g) + 1, at |-> k - 1]
           /\ Grown(p, w)[1].id = Len(g) + 1
  <1> DEFINE q == Grown(p, w)
  <1>1. DirType(s, j, w, p, g) /\ Len(s) \in Nat /\ Len(g) \in Nat /\ Len(w) \in Nat /\ Len(p) \in Nat
    BY DEF Dir, DirType
  <1>2. 1 \in 1..Len(w) /\ Head(w) = w[1] /\ w[1] \in Bytes
    BY <1>1 DEF DirType
  <1>3. w[1] = [id |-> Len(g) + 1, at |-> Len(p)]
    BY DEF Dir, UnderWay, ReadAt
  <1>4. w[1].id \in 1..Len(s) /\ w[1].at <= s[w[1].id].len
    BY <1>2 DEF Dir, UnderWay
  <1>5. Len(g) + 1 \in 1..Len(s) /\ Len(p) <= s[Len(g) + 1].len
    BY <1>3, <1>4
  <1>6. s[Len(g) + 1] \in Messages
    BY <1>1, <1>5 DEF DirType
  <1>7. /\ q \in Seq(Bytes) /\ Len(q) = Len(p) + 1 /\ q[Len(p) + 1] = w[1]
        /\ \A k \in 1..Len(p) : q[k] = p[k]
    BY <1>1, <1>2 DEF DirType, Grown
  <1> HIDE DEF q
  <1>8. ASSUME NEW k \in 1..Len(q) PROVE q[k] = [id |-> Len(g) + 1, at |-> k - 1]
    <2>1. CASE k = Len(p) + 1
      BY <1>1, <1>3, <1>7, <2>1
    <2>2. CASE k # Len(p) + 1
      <3>1. k \in 1..Len(p) /\ p # <<>>
        BY <1>1, <1>7, <2>2
      <3> QED
        BY <1>7, <3>1 DEF Dir, PartRead
    <2> QED
      BY <2>1, <2>2
  <1>9. 1 \in 1..Len(q)
    BY <1>1, <1>7
  <1>10. s[Len(g) + 1].len \in Nat
    BY <1>6, MessageLengths
  <1>11. q[1].id = Len(g) + 1
    <2>1. q[1] = [id |-> Len(g) + 1, at |-> 1 - 1]
      BY <1>8, <1>9
    <2> QED
      BY <2>1
  <1> QED
    BY <1>5, <1>7, <1>8, <1>10, <1>11 DEF q

\* The bytes that are left, when the first was read and the reader waits for the next.
LEMMA DirTail ==
    ASSUME NEW s, NEW j, NEW t, NEW w, NEW p, NEW g, Dir(s, j, t, w, p, g), w # <<>>,
           NEW q \in Seq(Bytes), NEW f \in Seq(Messages),
           ReadAt(q, f) = Next1(s, w[1])
    PROVE  /\ Tail(w) \in Seq(Bytes)
           /\ UnderWay(s, Tail(w), q, f)
           /\ ~t => Joins(s, j, Tail(w), q, f)
  <1> DEFINE v == Tail(w)
  <1>1. DirType(s, j, w, p, g) /\ Len(s) \in Nat /\ Len(w) \in Nat /\ Len(w) > 0
    BY DEF Dir, DirType
  <1>2. v \in Seq(Bytes) /\ Len(v) = Len(w) - 1 /\ \A k \in 1..Len(v) : v[k] = w[k + 1]
    <2>1. w \in Seq(Bytes) /\ w # <<>>
      BY <1>1 DEF DirType
    <2>2. v \in Seq(Bytes) /\ Len(v) = Len(w) - 1
      BY <2>1
    <2>3. \A k \in 1..(Len(w) - 1) : v[k] = w[k + 1]
      BY <2>1
    <2> QED
      BY <2>2, <2>3
  <1> HIDE DEF v
  <1>3. UnderWay(s, v, q, f)
    <2>1. \A k \in 1..Len(v) : v[k].id \in 1..Len(s) /\ v[k].at <= s[v[k].id].len
      <3>1. \A k \in 1..Len(v) : k + 1 \in 1..Len(w)
        BY <1>1, <1>2
      <3>2. \A k \in 1..Len(w) : w[k].id \in 1..Len(s) /\ w[k].at <= s[w[k].id].len
        BY DEF Dir, UnderWay
      <3> QED
        BY <1>2, <3>1, <3>2
    <2>2. ASSUME NEW k \in 1..(Len(v) - 1) PROVE v[k + 1] = Next1(s, v[k])
      <3>1. k + 1 \in 1..(Len(w) - 1) /\ k \in 1..Len(v) /\ k + 1 \in 1..Len(v)
        BY <1>1, <1>2
      <3>2. w[(k + 1) + 1] = Next1(s, w[k + 1])
        BY <3>1 DEF Dir, UnderWay
      <3>3. v[k] = w[k + 1] /\ v[k + 1] = w[(k + 1) + 1]
        BY <1>2, <3>1
      <3> QED
        BY <3>2, <3>3
    <2>3. v # <<>> => v[1] = ReadAt(q, f)
      <3> SUFFICES ASSUME v # <<>> PROVE v[1] = ReadAt(q, f)
        OBVIOUS
      <3>1. 1 \in 1..Len(v) /\ 1 \in 1..(Len(w) - 1)
        BY <1>1, <1>2
      <3>2. w[1 + 1] = Next1(s, w[1]) /\ v[1] = w[1 + 1]
        BY <1>2, <3>1 DEF Dir, UnderWay
      <3> QED
        BY <3>2
    <2> QED
      BY <2>1, <2>2, <2>3 DEF UnderWay
  <1>4. ASSUME NEW b, Joined(s, w, p, g, b) PROVE Joined(s, v, q, f, b)
    <2>1. b = Next1(s, w[Len(w)])
      BY <1>4 DEF Joined
    <2>2. CASE v = <<>>
      <3>1. Len(w) = 1
        BY <1>1, <1>2, <2>2
      <3> QED
        BY <2>1, <2>2, <3>1 DEF Joined
    <2>3. CASE v # <<>>
      <3>1. Len(v) \in 1..Len(v) /\ Len(v) + 1 = Len(w)
        BY <1>1, <1>2, <2>3
      <3>2. v[Len(v)] = w[Len(w)]
        BY <1>2, <3>1
      <3> QED
        BY <2>1, <2>3, <3>2 DEF Joined
    <2> QED
      BY <2>2, <2>3
  <1>5. ~t => Joins(s, j, v, q, f)
    BY <1>4 DEF Dir, Joins
  <1> QED
    BY <1>2, <1>3, <1>5 DEF v

\* A byte in the middle of a frame stays with the reader.
LEMMA DirReadPart ==
    ASSUME NEW s, NEW j, NEW t, NEW w, NEW p, NEW g, Dir(s, j, t, w, p, g), w # <<>>,
           Len(Grown(p, w)) # 1 + s[Grown(p, w)[1].id].len
    PROVE  Dir(s, j, t, Tail(w), Grown(p, w), g)
  <1> DEFINE q == Grown(p, w)
  <1>t. Len(p) \in Nat /\ Len(g) \in Nat /\ Len(s) \in Nat
    BY DEF Dir, DirType
  <1>1. /\ q \in Seq(Bytes) /\ Len(q) = Len(p) + 1 /\ Len(p) \in Nat /\ Len(g) \in Nat
        /\ Len(g) + 1 \in 1..Len(s) /\ Len(s) \in Nat
        /\ Len(p) <= s[Len(g) + 1].len /\ s[Len(g) + 1].len \in Nat
        /\ \A k \in 1..Len(q) : q[k] = [id |-> Len(g) + 1, at |-> k - 1]
        /\ q[1].id = Len(g) + 1
    BY <1>t, DirHead
  <1>2. Len(p) # s[Len(g) + 1].len
    BY <1>1
  <1> HIDE DEF q
  <1>3. w[1] = [id |-> Len(g) + 1, at |-> Len(p)]
    BY DEF Dir, UnderWay, ReadAt
  <1>4. ReadAt(q, g) = Next1(s, w[1])
    BY <1>1, <1>2, <1>3 DEF ReadAt, Next1
  <1>5. /\ Tail(w) \in Seq(Bytes) /\ UnderWay(s, Tail(w), q, g)
        /\ ~t => Joins(s, j, Tail(w), q, g)
    BY <1>1, <1>4, DirTail DEF Dir, DirType
  <1>6. PartRead(s, q, g)
    BY <1>1, <1>2 DEF PartRead
  <1> QED
    BY <1>1, <1>5, <1>6 DEF Dir, DirType, q

\* The last byte of a frame completes the message that comes next.
LEMMA DirReadLast ==
    ASSUME NEW s, NEW j, NEW t, NEW w, NEW p, NEW g, Dir(s, j, t, w, p, g), w # <<>>,
           Len(Grown(p, w)) = 1 + s[Grown(p, w)[1].id].len
    PROVE  Dir(s, j, t, Tail(w), <<>>, Append(g, s[Grown(p, w)[1].id]))
  <1> DEFINE q == Grown(p, w)
             f == Append(g, s[q[1].id])
             z == <<>>
  <1>t. Len(p) \in Nat /\ Len(g) \in Nat /\ Len(s) \in Nat
    BY DEF Dir, DirType
  <1>1. /\ q \in Seq(Bytes) /\ Len(q) = Len(p) + 1 /\ Len(p) \in Nat /\ Len(g) \in Nat
        /\ Len(g) + 1 \in 1..Len(s) /\ Len(s) \in Nat
        /\ Len(p) <= s[Len(g) + 1].len /\ s[Len(g) + 1].len \in Nat
        /\ q[1].id = Len(g) + 1
    BY <1>t, DirHead
  <1>2. Len(p) = s[Len(g) + 1].len
    BY <1>1
  <1>3. w[1] = [id |-> Len(g) + 1, at |-> Len(p)]
    BY DEF Dir, UnderWay, ReadAt
  <1>4. f \in Seq(Messages) /\ Len(f) = Len(g) + 1
    BY <1>1 DEF Dir, DirType
  <1>5. z \in Seq(Bytes) /\ Len(z) = 0
    OBVIOUS
  <1> HIDE DEF f, q, z
  <1>6. ReadAt(z, f) = Next1(s, w[1])
    BY <1>2, <1>3, <1>4, <1>5 DEF ReadAt, Next1
  <1>7. /\ Tail(w) \in Seq(Bytes) /\ UnderWay(s, Tail(w), z, f)
        /\ ~t => Joins(s, j, Tail(w), z, f)
    BY <1>4, <1>5, <1>6, DirTail DEF Dir, DirType
  <1> QED
    BY <1>4, <1>5, <1>7 DEF Dir, DirType, PartRead, f, q, z

-----------------------------------------------------------------------------
(***************************************************************************)
(* The whole connection: two directions, each of which every action keeps  *)
(* right and moves by a step of its channel, or not at all.                *)
(***************************************************************************)
Shape ==
    /\ sent \in [Ends -> Seq(Messages)] /\ got \in [Ends -> Seq(Messages)]
    /\ job \in [Ends -> [Goroutines -> Jobs]]
    /\ stream \in [Ends -> Seq(Bytes)] /\ part \in [Ends -> Seq(Bytes)]
    /\ torn \in [Ends -> BOOLEAN]
    /\ cause \in [Ends -> {"none", "error"}]

FramesInv == Shape /\ \A d \in Ends : Direction(d)

Same(d) ==
    UNCHANGED <<sent[d], job[d], torn[d], stream[d], part[Other(d)], got[Other(d)]>>

ChannelStep(d) ==
    \/ sent'[d] = sent[d] /\ got'[Other(d)] = got[Other(d)]
    \/ /\ \E m \in Messages : sent'[d] = Append(sent[d], m)
       /\ got'[Other(d)] = got[Other(d)]
    \/ /\ sent'[d] = sent[d]
       /\ Len(got[Other(d)]) < Len(sent[d])
       /\ got'[Other(d)] = Append(got[Other(d)], sent[d][Len(got[Other(d)]) + 1])

Good(d) == Direction(d)' /\ ChannelStep(d)

LEMMA Opposite ==
    \A d \in Ends : Other(d) \in Ends /\ Other(d) # d /\ Other(Other(d)) = d
  BY FrameAssumption DEF FrameAssumption, Ends, Other

LEMMA SameGood ==
    ASSUME NEW d \in Ends, Direction(d), Same(d)
    PROVE  Good(d)
  BY DEF Same, Direction, Good, ChannelStep

\* A new frame, or the error of a connection whose writes failed before; never of size.
LEMMA BeginGood ==
    ASSUME FramesInv, NEW e \in Ends, NEW x \in Goroutines, NEW m \in Messages,
           Begin(e, x, m), NEW d \in Ends
    PROVE  Shape' /\ Good(d)
  <1> USE DEF FramesInv
  <1>1. m.len <= Limit /\ m.len \in Nat /\ Limit \in Nat
    BY MessageLengths
  <1>2. \/ /\ ~torn[e]
           /\ sent' = [sent EXCEPT ![e] = Append(@, m)]
           /\ job' = [job EXCEPT ![e][x] = [id |-> Len(sent[e]) + 1, next |-> 0]]
           /\ UNCHANGED <<torn, open, reader, cause>>
        \/ /\ torn[e] /\ SendFails(e, x, "error")
           /\ UNCHANGED <<sent, job>>
    BY <1>1 DEF Begin
  <1>3. UNCHANGED <<stream, part, got>> /\ \A y \in Goroutines : job[e][y] = NoJob
    BY DEF Begin, LockFree
  <1>4. Len(sent[e]) + 1 \in Nat
    BY DEF Shape
  <1>5. Shape'
    <2>1. sent' \in [Ends -> Seq(Messages)]
      <3>1. Append(sent[e], m) \in Seq(Messages)
        BY DEF Shape
      <3>2. sent' = sent \/ sent' = [sent EXCEPT ![e] = Append(sent[e], m)]
        BY <1>2
      <3> QED
        BY <3>1, <3>2 DEF Shape
    <2>2. job' \in [Ends -> [Goroutines -> Jobs]]
      <3> DEFINE h == [id |-> Len(sent[e]) + 1, next |-> 0]
      <3>1. h \in Jobs
        BY <1>4 DEF Jobs
      <3>2. job' = job \/ job' = [job EXCEPT ![e][x] = h]
        BY <1>2
      <3> HIDE DEF h
      <3>3. CASE job' = job
        BY <3>3 DEF Shape
      <3>4. CASE job' = [job EXCEPT ![e][x] = h]
        BY <3>1, <3>4 DEF Shape
      <3> QED
        BY <3>2, <3>3, <3>4
    <2>3. torn' \in [Ends -> BOOLEAN] /\ cause' \in [Ends -> {"none", "error"}]
      BY <1>2 DEF Shape, SendFails
    <2> QED
      BY <1>3, <2>1, <2>2, <2>3 DEF Shape
  <1>6. CASE d # e
    <2>1. Same(d)
      BY <1>2, <1>3, <1>6 DEF Same, Shape, SendFails
    <2> QED
      BY <1>5, <2>1, SameGood
  <1>7. CASE d = e /\ ~torn[e]
    <2>1. /\ sent'[e] = Append(sent[e], m)
          /\ job'[e] = [job[e] EXCEPT ![x] = [id |-> Len(sent[e]) + 1, next |-> 0]]
          /\ torn[e] = FALSE /\ torn'[e] = FALSE
      BY <1>2, <1>7 DEF Shape
    <2>2. Dir(sent[e], job[e], FALSE, stream[e], part[Other(e)], got[Other(e)])
      BY <2>1 DEF Direction
    <2>3. Dir(Append(sent[e], m), [job[e] EXCEPT ![x] = [id |-> Len(sent[e]) + 1, next |-> 0]],
              FALSE, stream[e], part[Other(e)], got[Other(e)])
      BY <1>3, <2>2, DirBegin
    <2>4. Direction(e)'
      BY <1>3, <2>1, <2>3 DEF Direction
    <2> QED
      BY <1>3, <1>5, <1>7, <2>1, <2>4 DEF Good, ChannelStep
  <1>8. CASE d = e /\ torn[e]
    <2>1. torn'[e] = TRUE /\ sent' = sent /\ job' = job
      BY <1>2, <1>8 DEF Shape, SendFails
    <2>2. Direction(e)'
      BY <1>3, <2>1, DirTears DEF Direction
    <2> QED
      BY <1>3, <1>5, <1>8, <2>1, <2>2 DEF Good, ChannelStep
  <1> QED
    BY <1>6, <1>7, <1>8

LEMMA WriteByteGood ==
    ASSUME FramesInv, NEW e \in Ends, NEW x \in Goroutines, WriteByte(e, x), NEW d \in Ends
    PROVE  Shape' /\ Good(d)
  <1> USE DEF FramesInv
  <1> DEFINE b == [id |-> job[e][x].id, at |-> job[e][x].next]
             last == job[e][x].next = sent[e][job[e][x].id].len
             h == IF last THEN NoJob ELSE [id |-> job[e][x].id, next |-> job[e][x].next + 1]
  <1>1. job[e][x] \in Jobs /\ job[e][x] # NoJob /\ torn[e] = FALSE
    BY DEF WriteByte, Shape
  <1>2. job' = [job EXCEPT ![e][x] = h]
    BY DEF WriteByte
  <1>3. stream' = [stream EXCEPT ![e] = Append(@, b)] /\ UNCHANGED <<sent, torn, part, got, cause>>
    BY DEF WriteByte
  <1>4. h \in Jobs /\ b \in Bytes
    BY <1>1 DEF Jobs, NoJob, Bytes
  <1> HIDE DEF b
  <1>5. Shape'
    <2> HIDE DEF h
    <2> QED
      BY <1>2, <1>3, <1>4 DEF Shape
  <1>6. CASE d # e
    <2>1. Same(d)
      BY <1>2, <1>3, <1>6 DEF Same, Shape
    <2> QED
      BY <1>5, <2>1, SameGood
  <1>7. CASE d = e
    <2>1. job'[e] = [job[e] EXCEPT ![x] = h] /\ stream'[e] = Append(stream[e], b)
      BY <1>2, <1>3 DEF Shape
    <2>2. Dir(sent[e], job[e], FALSE, stream[e], part[Other(e)], got[Other(e)])
      BY <1>1 DEF Direction
    <2>3. Dir(sent[e], [job[e] EXCEPT ![x] = h], FALSE, Append(stream[e], b),
              part[Other(e)], got[Other(e)])
      BY <1>1, <1>4, <2>2, DirWrite DEF b
    <2>4. Direction(e)'
      BY <1>1, <1>3, <2>1, <2>3 DEF Direction
    <2> QED
      BY <1>3, <1>5, <1>7, <2>4 DEF Good, ChannelStep
  <1> QED
    BY <1>6, <1>7

LEMMA WriteFailsGood ==
    ASSUME FramesInv, NEW e \in Ends, NEW x \in Goroutines, WriteFails(e, x), NEW d \in Ends
    PROVE  Shape' /\ Good(d)
  <1> USE DEF FramesInv
  <1>1. /\ job' = [job EXCEPT ![e][x] = NoJob] /\ torn' = [torn EXCEPT ![e] = TRUE]
        /\ SendFails(e, x, "error") /\ UNCHANGED <<sent, stream, part, got>>
    BY DEF WriteFails, SendFails
  <1>2. Shape'
    BY <1>1 DEF Shape, SendFails, Jobs, NoJob
  <1>3. CASE d # e
    <2>1. Same(d)
      BY <1>1, <1>3 DEF Same, Shape
    <2> QED
      BY <1>2, <2>1, SameGood
  <1>4. CASE d = e
    <2>1. job'[e] = [job[e] EXCEPT ![x] = NoJob] /\ torn'[e] = TRUE
      BY <1>1 DEF Shape
    <2>2. Dir(sent[e], job[e], torn[e], stream[e], part[Other(e)], got[Other(e)])
      BY DEF Direction
    <2>3. Dir(sent[e], [job[e] EXCEPT ![x] = NoJob], TRUE, stream[e], part[Other(e)], got[Other(e)])
      BY <2>2, DirTears
    <2>4. Direction(e)'
      BY <1>1, <2>1, <2>3 DEF Direction
    <2> QED
      BY <1>1, <1>2, <1>4, <2>4 DEF Good, ChannelStep
  <1> QED
    BY <1>3, <1>4

\* The next byte is one the reader can use: it is never out of step with the frames.
LEMMA ReadByteGood ==
    ASSUME FramesInv, NEW e \in Ends, ReadByte(e), NEW d \in Ends
    PROVE  Shape' /\ Good(d)
  <1> USE DEF FramesInv
  <1> DEFINE o == Other(e)
             q == Grown(part[e], stream[o])
             n == q[1].id
  <1>1. o \in Ends /\ Other(o) = e /\ o # e
    BY Opposite
  <1>2. Dir(sent[o], job[o], torn[o], stream[o], part[e], got[e]) /\ stream[o] # <<>>
    BY <1>1 DEF Direction, ReadByte
  <1>3. /\ q \in Seq(Bytes) /\ Len(q) = Len(part[e]) + 1
        /\ Len(got[e]) + 1 \in 1..Len(sent[o])
        /\ Len(part[e]) <= sent[o][Len(got[e]) + 1].len
        /\ \A k \in 1..Len(q) : q[k] = [id |-> Len(got[e]) + 1, at |-> k - 1]
        /\ n = Len(got[e]) + 1
    <2> HIDE DEF FramesInv
    <2> QED
      BY <1>2, DirHead
  <1>4. Len(part[e]) \in Nat /\ Len(got[e]) \in Nat /\ Len(sent[o]) \in Nat
    BY <1>1 DEF Shape
  <1>5. sent[o][n] \in Messages /\ sent[o][n].len <= Limit /\ sent[o][n].len \in Nat /\ Limit \in Nat
    <2>1. sent[o][n] \in Messages
      BY <1>1, <1>3 DEF Shape
    <2> QED
      BY <2>1, MessageLengths
  <1>6. Decodes(q)
    <2>1. DOMAIN q = 1..Len(q)
      BY <1>3
    <2> QED
      BY <1>3, <2>1 DEF Decodes
  <1>7. /\ stream' = [stream EXCEPT ![o] = Tail(@)]
        /\ UNCHANGED <<sent, job, torn>>
        /\ \/ /\ ~Complete(q, e)
              /\ part' = [part EXCEPT ![e] = q]
              /\ UNCHANGED <<got, cause>>
           \/ /\ Complete(q, e)
              /\ part' = [part EXCEPT ![e] = <<>>]
              /\ got' = [got EXCEPT ![e] = Append(@, sent[o][n])]
              /\ UNCHANGED cause
    <2>1. ~(Length(q, e) > Limit)
      BY <1>5 DEF Length
    <2>2. \/ /\ ~Complete(q, e)
             /\ part' = [part EXCEPT ![e] = q] /\ UNCHANGED <<got, cause>>
          \/ /\ Complete(q, e)
             /\ part' = [part EXCEPT ![e] = <<>>]
             /\ got' = [got EXCEPT ![e] = Append(@, sent[o][n])] /\ UNCHANGED cause
          \/ Length(q, e) > Limit \/ ~Decodes(q)
      BY DEF ReadByte, Grown
    <2>3. stream' = [stream EXCEPT ![o] = Tail(@)] /\ UNCHANGED <<sent, job, torn>>
      BY DEF ReadByte
    <2> QED
      BY <1>6, <2>1, <2>2, <2>3
  <1>8. Complete(q, e) <=> Len(q) = 1 + sent[o][n].len
    BY DEF Complete, Length
  <1> HIDE DEF q, n
  <1>9. Shape'
    <2>1. Tail(stream[o]) \in Seq(Bytes)
      BY <1>1, <1>2 DEF Shape
    <2>2. Append(got[e], sent[o][n]) \in Seq(Messages)
      BY <1>5 DEF Shape
    <2>3. stream' \in [Ends -> Seq(Bytes)]
      BY <1>7, <2>1 DEF Shape
    <2>4. part' \in [Ends -> Seq(Bytes)]
      <3> DEFINE z == <<>>
      <3>1. part' = [part EXCEPT ![e] = q] \/ part' = [part EXCEPT ![e] = z]
        BY <1>7
      <3>2. z \in Seq(Bytes)
        OBVIOUS
      <3> HIDE DEF z
      <3> QED
        BY <1>3, <3>1, <3>2 DEF Shape
    <2>5. got' \in [Ends -> Seq(Messages)] /\ cause' \in [Ends -> {"none", "error"}]
      BY <1>7, <2>2 DEF Shape
    <2> QED
      BY <1>7, <2>3, <2>4, <2>5 DEF Shape
  <1>10. CASE d # o
    <2>1. Other(d) # e /\ Other(d) \in Ends
      BY <1>1, <1>10, Opposite
    <2>2. Same(d)
      BY <1>1, <1>7, <1>10, <2>1 DEF Same, Shape
    <2> QED
      BY <1>9, <2>2, SameGood
  <1>11. CASE d = o /\ ~Complete(q, e)
    <2>1. part'[e] = q /\ stream'[o] = Tail(stream[o]) /\ got' = got
      BY <1>1, <1>7, <1>11 DEF Shape
    <2>2. Dir(sent[o], job[o], torn[o], Tail(stream[o]), q, got[e])
      BY <1>2, <1>8, <1>11, DirReadPart DEF q, n
    <2>3. Direction(o)'
      BY <1>1, <1>7, <2>1, <2>2 DEF Direction
    <2> QED
      BY <1>7, <1>9, <1>11, <2>1, <2>3 DEF Good, ChannelStep
  <1>12. CASE d = o /\ Complete(q, e)
    <2>1. /\ part'[e] = <<>> /\ stream'[o] = Tail(stream[o])
          /\ got'[e] = Append(got[e], sent[o][n])
      BY <1>1, <1>7, <1>12 DEF Shape
    <2>2. Dir(sent[o], job[o], torn[o], Tail(stream[o]), <<>>, Append(got[e], sent[o][n]))
      BY <1>2, <1>8, <1>12, DirReadLast DEF q, n
    <2>3. Direction(o)'
      BY <1>1, <1>7, <2>1, <2>2 DEF Direction
    <2>4. Len(got[e]) < Len(sent[o])
      BY <1>3, <1>4
    <2> QED
      BY <1>1, <1>3, <1>7, <1>9, <1>12, <2>1, <2>3, <2>4 DEF Good, ChannelStep
  <1> QED
    BY <1>10, <1>11, <1>12

\* Errors of the network touch no byte.
LEMMA OtherStepsGood ==
    ASSUME FramesInv, NEW d \in Ends,
           \/ \E e \in Ends : ReadFails(e) \/ ReadLoopReturns(e)
           \/ Cut \/ UNCHANGED vars
    PROVE  Shape' /\ Good(d)
  <1>1. Same(d)
    BY DEF ReadFails, ReadLoopReturns, Cut, vars, Same
  <1>2. Shape'
    BY DEF FramesInv, Shape, ReadFails, ReadLoopReturns, Cut, vars
  <1> QED
    BY <1>1, <1>2, SameGood DEF FramesInv

LEMMA NextGood ==
    ASSUME FramesInv, [Next]_vars, NEW d \in Ends
    PROVE  Shape' /\ Good(d)
  BY BeginGood, WriteByteGood, WriteFailsGood, ReadByteGood, OtherStepsGood
  DEF Next, Begins, Sends

LEMMA InitFrames == Init => FramesInv
  <1> SUFFICES ASSUME Init PROVE FramesInv
    OBVIOUS
  <1>1. Shape
    BY DEF Init, Shape, Jobs, NoJob
  <1>2. ASSUME NEW d \in Ends PROVE Direction(d)
    <2>1. /\ sent[d] = <<>> /\ stream[d] = <<>> /\ part[Other(d)] = <<>> /\ got[Other(d)] = <<>>
          /\ job[d] = [x \in Goroutines |-> NoJob]
      BY Opposite DEF Init
    <2>2. Dir(<<>>, job[d], torn[d], <<>>, <<>>, <<>>)
      BY <2>1 DEF Dir, DirType, Writers, UnderWay, Joins, Joined, ReadAt, PartRead, Jobs, NoJob
    <2> QED
      BY <2>1, <2>2 DEF Direction
  <1> QED
    BY <1>1, <1>2 DEF FramesInv

(* The inductive invariant of a connection: in both directions the bytes   *)
(* under way are the frames sent and not yet read, without a gap, up to    *)
(* the byte that the goroutine in send writes next.                        *)
THEOREM FramesInvariant == Spec => []FramesInv
  <1>1. Init => FramesInv
    BY InitFrames
  <1>2. FramesInv /\ [Next]_vars => FramesInv'
    BY NextGood, Opposite DEF FramesInv, Good, Ends
  <1> QED
    BY <1>1, <1>2, PTL DEF Spec

(* For every pair of limits that fits, no permitted text breaks a          *)
(* connection, and no reader ever finds a frame it cannot use (Write,      *)
(* Read, send's lock).                                                     *)
THEOREM OnlyNetworkErrorsHolds == Spec => []OnlyNetworkErrors
  <1>1. FramesInv => OnlyNetworkErrors
    BY DEF FramesInv, Shape, OnlyNetworkErrors
  <1> QED
    BY <1>1, FramesInvariant, PTL

(* Three goroutines at each end, writing byte by byte into a connection    *)
(* that may break at any point, implement a channel of whole messages in   *)
(* either direction.                                                       *)
THEOREM RefinesChannel == Spec => ImplementsChannel
  <1> USE DEF Ends
  <1>1. Other(A) = B /\ Other(B) = A
    BY FrameAssumption DEF FrameAssumption, Other
  <1>2. Init => FromA!Init /\ FromB!Init
    BY DEF Init, FromA!Init, FromB!Init
  <1>3. FramesInv /\ [Next]_vars => [FromA!Next]_<<sent[A], got[B]>>
    <2> SUFFICES ASSUME FramesInv, [Next]_vars PROVE [FromA!Next]_<<sent[A], got[B]>>
      OBVIOUS
    <2>1. ChannelStep(A)
      BY NextGood DEF Good
    <2> QED
      BY <1>1, <2>1 DEF ChannelStep, FromA!Next, FromA!Send, FromA!Deliver
  <1>4. FramesInv /\ [Next]_vars => [FromB!Next]_<<sent[B], got[A]>>
    <2> SUFFICES ASSUME FramesInv, [Next]_vars PROVE [FromB!Next]_<<sent[B], got[A]>>
      OBVIOUS
    <2>1. ChannelStep(B)
      BY NextGood DEF Good
    <2> QED
      BY <1>1, <2>1 DEF ChannelStep, FromB!Next, FromB!Send, FromB!Deliver
  <1> QED
    BY <1>2, <1>3, <1>4, FramesInvariant, PTL DEF Spec, ImplementsChannel, FromA!Spec, FromB!Spec
-----------------------------------------------------------------------------
(* Proofs about the queue whose messages writeLoop puts into frames, and   *)
(* the one of the texts read from them (LatestValue), for every number of  *)
(* producers and of values: pc.out has one, localLoop, and clipWrites one  *)
(* per connection.                                                         *)
USE DEF None

QueueType ==
    /\ slot \in Nat /\ newest \in Nat /\ taken \in Nat
    /\ pc \in [Producers -> {"idle", "drain", "put"}]
    /\ val \in [Producers -> Nat]
    /\ returned \in SUBSET Nat /\ stale \in SUBSET returned /\ None \in returned
    /\ slot <= newest /\ \A v \in returned : v <= newest
    /\ \A p \in Producers : val[p] <= newest

(* The value of a call under way is nowhere else: not returned, not in the *)
(* channel, and no other call has it.                                      *)
InFlight ==
    \A p \in Producers :
        pc[p] # "idle" =>
            /\ val[p] \notin returned
            /\ val[p] # slot
            /\ \A q \in Producers : pc[q] # "idle" /\ val[q] = val[p] => q = p

(* A value in the channel is its producer's last one, unless that producer *)
(* has begun its next call and will drain it.                              *)
SlotOwned == slot # None => \E q \in Producers : val[q] = slot \/ pc[q] = "drain"

(* At rest, the value in the channel, or else the one taken last, is not   *)
(* stale.                                                                  *)
QueueAtRest ==
    ~closed /\ (\A p \in Producers : pc[p] = "idle") =>
        /\ slot # None => slot \notin stale
        /\ slot = None => taken \notin stale

QueueInv == QueueType /\ InFlight /\ SlotOwned /\ QueueAtRest

(* The queue starts empty.                                                 *)
LEMMA QueueStarts == QueueInit => QueueInv
  <1>. SUFFICES ASSUME QueueInit PROVE QueueInv
    OBVIOUS
  <1>1. QueueType /\ InFlight /\ SlotOwned
    BY DEF QueueInit, QueueType, InFlight, SlotOwned
  <1>2. stale = {}
    BY DEF QueueInit
  <1>. QED
    BY <1>1, <1>2 DEF QueueInv, QueueAtRest

(* What a call does when it begins, for each of its three outcomes.        *)
LEMMA EnqueueStep ==
    ASSUME QueueInv, NEW p \in Producers, Enqueue(p)
    PROVE  QueueInv'
  <1>. USE DEF QueueInv
  <1>0. /\ pc[p] = "idle" /\ newest' = newest + 1
        /\ stale' = stale \cup returned /\ taken' = taken /\ closed' = closed
    BY DEF Enqueue
  <1>1. CASE /\ closed
             /\ returned' = returned \cup {newest + 1}
             /\ UNCHANGED <<slot, pc, val>>
    <2>1. QueueType' /\ InFlight' /\ SlotOwned'
      BY <1>0, <1>1 DEF QueueType, InFlight, SlotOwned
    <2>2. closed'
      BY <1>0, <1>1
    <2>. QED
      BY <2>1, <2>2 DEF QueueAtRest
  <1>2. CASE /\ slot = None /\ slot' = newest + 1
             /\ val' = [val EXCEPT ![p] = newest + 1]
             /\ returned' = returned \cup {newest + 1}
             /\ UNCHANGED pc
    <2>1. QueueType' /\ InFlight' /\ SlotOwned'
      BY <1>0, <1>2 DEF QueueType, InFlight, SlotOwned
    <2>2. slot' # None /\ slot' \notin stale'
      BY <1>0, <1>2 DEF QueueType
    <2>. QED
      BY <2>1, <2>2 DEF QueueAtRest
  <1>3. CASE /\ slot # None
             /\ pc' = [pc EXCEPT ![p] = "drain"]
             /\ val' = [val EXCEPT ![p] = newest + 1]
             /\ UNCHANGED <<slot, returned>>
    <2>1. QueueType' /\ InFlight' /\ SlotOwned'
      BY <1>0, <1>3 DEF QueueType, InFlight, SlotOwned
    <2>2. pc'[p] # "idle"
      BY <1>3 DEF QueueType
    <2>. QED
      BY <2>1, <2>2 DEF QueueAtRest
  <1>. QED
    BY <1>1, <1>2, <1>3 DEF Enqueue

(* Every other select of a producer, and the receive that makes room.      *)
LEMMA ProducerStep ==
    ASSUME QueueInv, NEW p \in Producers, Drain(p) \/ Put(p) \/ GiveUp(p)
    PROVE  QueueInv'
  <1>. USE DEF QueueInv
  <1>1. CASE Drain(p)
    <2>1. QueueType' /\ InFlight' /\ SlotOwned'
      BY <1>1 DEF QueueType, InFlight, SlotOwned, Drain, MakeRoom
    <2>2. pc'[p] # "idle"
      BY <1>1 DEF QueueType, Drain, MakeRoom
    <2>. QED
      BY <2>1, <2>2 DEF QueueAtRest
  <1>2. CASE Put(p)
    <2>0. /\ pc[p] = "put" /\ pc' = [pc EXCEPT ![p] = "idle"]
          /\ returned' = returned \cup {val[p]}
          /\ slot' = val[p]
          /\ UNCHANGED <<val, newest, taken, stale>>
      BY <1>2 DEF Put, Return
    <2>1. QueueType' /\ InFlight' /\ SlotOwned'
      <3>1. QueueType'
        BY <2>0 DEF QueueType
      <3>2. \A q \in Producers : pc'[q] # "idle" => q # p /\ pc[q] # "idle"
        BY <2>0 DEF QueueType
      <3>3. InFlight'
        BY <2>0, <3>2 DEF QueueType, InFlight
      <3>4. SlotOwned'
        BY <2>0 DEF QueueType, SlotOwned
      <3>. QED
        BY <3>1, <3>3, <3>4
    <2>2. slot' # None /\ slot' \notin stale'
      BY <1>2 DEF QueueType, InFlight, Put, Return
    <2>. QED
      BY <2>1, <2>2 DEF QueueAtRest
  <1>3. CASE GiveUp(p)
    <2>0. /\ pc[p] = "put" /\ pc' = [pc EXCEPT ![p] = "idle"]
          /\ returned' = returned \cup {val[p]}
          /\ UNCHANGED <<slot, val, newest, taken, stale>>
      BY <1>3 DEF GiveUp, Return
    <2>1. QueueType' /\ InFlight' /\ SlotOwned'
      <3>1. QueueType'
        BY <2>0 DEF QueueType
      <3>2. \A q \in Producers : pc'[q] # "idle" => q # p /\ pc[q] # "idle"
        BY <2>0 DEF QueueType
      <3>3. InFlight'
        BY <2>0, <3>2 DEF QueueType, InFlight
      <3>4. SlotOwned'
        BY <2>0 DEF QueueType, SlotOwned
      <3>. QED
        BY <3>1, <3>3, <3>4
    <2>2. closed'
      BY <1>3 DEF GiveUp, ConsumerGone, Return
    <2>. QED
      BY <2>1, <2>2 DEF QueueAtRest
  <1>. QED
    BY <1>1, <1>2, <1>3

(* Every select of enqueuePeer and enqueueClipboard, every receive of      *)
(* their consumers and the closing of done keep the invariant.             *)
LEMMA QueueStep == QueueInv /\ [QueueNext]_queueVars => QueueInv'
  <1>. SUFFICES ASSUME QueueInv, [QueueNext]_queueVars PROVE QueueInv'
    OBVIOUS
  <1>. USE DEF QueueInv
  <1>1. CASE \E p \in Producers : Enqueue(p) \/ Drain(p) \/ Put(p) \/ GiveUp(p)
    BY <1>1, EnqueueStep, ProducerStep
  <1>2. CASE Take
    <2>1. QueueType' /\ InFlight' /\ SlotOwned'
      BY <1>2 DEF QueueType, InFlight, SlotOwned, Take
    <2>. QED
      BY <1>2, <2>1 DEF QueueAtRest, Take
  <1>3. CASE Close
    <2>1. QueueType' /\ InFlight' /\ SlotOwned'
      BY <1>3 DEF QueueType, InFlight, SlotOwned, Close
    <2>. QED
      BY <1>3, <2>1 DEF QueueAtRest, Close
  <1>4. CASE UNCHANGED queueVars
    BY <1>4 DEF queueVars, QueueType, InFlight, SlotOwned, QueueAtRest
  <1>. QED
    BY <1>1, <1>2, <1>3, <1>4 DEF QueueNext

(* The invariant always holds.                                             *)
THEOREM QueueInvariant == QueueSpec => []QueueInv
  BY QueueStarts, QueueStep, PTL DEF QueueSpec

(* Coalescing drops or overtakes a value only in favour of one whose call  *)
(* overlapped with its own or began later; with one producer the newest    *)
(* value always wins.                                                      *)
THEOREM LastWinsHolds == QueueSpec => []LastWins
  <1>1. QueueInv => LastWins
    BY DEF QueueInv, QueueAtRest, LastWins
  <1>. QED
    BY <1>1, QueueInvariant, PTL

(* A producer that has made room waits for other producers only; localLoop *)
(* has none beside it on pc.out, so it never waits for a peer.             *)
THEOREM WaitsOnlyForOthersHolds == QueueSpec => []WaitsOnlyForOthers
  <1>1. QueueInv => WaitsOnlyForOthers
    BY DEF QueueInv, QueueType, InFlight, SlotOwned, WaitsOnlyForOthers
  <1>. QED
    BY <1>1, QueueInvariant, PTL

(* The queue of a peer, which only localLoop fills: a producer at its last *)
(* select finds room.                                                      *)
THEOREM LoneProducerNeverWaits ==
    ASSUME NEW q, Producers = {q}
    PROVE  QueueSpec => [](pc[q] = "put" => slot = None)
  <1>1. WaitsOnlyForOthers => (pc[q] = "put" => slot = None)
    BY DEF WaitsOnlyForOthers
  <1>. QED
    BY <1>1, WaitsOnlyForOthersHolds, PTL
=============================================================================
