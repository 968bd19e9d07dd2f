-------------------------- MODULE EngineLoopProofs --------------------------
(***************************************************************************)
(* Theorems about EngineLoop, for rings of every size, every number of     *)
(* prices and events, and a subscriber of any speed.                       *)
(***************************************************************************)
EXTENDS EngineLoop, SequenceTheorems, NaturalsInduction, WellFoundedInduction,
        TLAPS

AnEvent == Delta \cup {Other}

\* Where the events that are about a cell are, and the last of them.
AboutIn(events, c) == {k \in DOMAIN events : c \in About(events[k])}
IsLast(k, S) == k \in S /\ \A j \in S : j <= k

LEMMA FollowsIs ==
  ASSUME NEW events, NEW c, NEW d
  PROVE  Follows(events, c, d) =
           IF AboutIn(events, c) = {} THEN d
           ELSE events[CHOOSE k \in AboutIn(events, c) :
                         \A j \in AboutIn(events, c) : j <= k].depth
  <1> QED BY Zenon DEF Follows, AboutIn

LEMMA LastExists ==
  ASSUME NEW n \in Nat, NEW S, S \subseteq 1 .. n, S # {}
  PROVE  \E k \in S : IsLast(k, S)
  <1> DEFINE T == {n - k : k \in S}
  <1>1. T \subseteq Nat /\ T # {}
    <2>1. \A k \in S : n - k \in Nat
      OBVIOUS
    <2> QED BY <2>1
  <1>2. PICK t \in T : \A u \in T : ~(<<u, t>> \in OpToRel(<, Nat))
    BY <1>1, NatLessThanWellFounded, WFMin, Zenon
  <1>3. \A u \in T : ~(u < t)
    BY <1>1, <1>2, Zenon DEF OpToRel
  <1>4. PICK k \in S : t = n - k
    OBVIOUS
  <1>5. ASSUME NEW j \in S PROVE j <= k
    <2>1. ~(n - j < n - k)
      BY <1>3, <1>4
    <2> QED BY <2>1
  <1> QED BY <1>5 DEF IsLast

\* What is last is followed.
LEMMA FollowsLast ==
  ASSUME NEW events, DOMAIN events \subseteq Int, NEW c, NEW d,
         NEW k, IsLast(k, AboutIn(events, c))
  PROVE  Follows(events, c, d) = events[k].depth
  <1> DEFINE S == AboutIn(events, c)
             l == CHOOSE i \in S : \A j \in S : j <= i
  <1>1. S \subseteq Int
    BY DEF AboutIn
  <1> HIDE DEF S
  <1>2. k \in S /\ l \in S /\ IsLast(l, S)
    BY DEF S, IsLast
  <1>3. l = k
    <2>1. l <= k /\ k <= l
      BY <1>2 DEF IsLast, S
    <2> HIDE DEF l
    <2> QED BY <1>1, <1>2, <2>1
  <1> QED BY <1>2, <1>3, FollowsIs DEF S

\* Events one after the other.
LEMMA FollowsConcat ==
  ASSUME NEW E, NEW s \in Seq(E), NEW t \in Seq(E), NEW c, NEW d
  PROVE  Follows(s \o t, c, d) = Follows(t, c, Follows(s, c, d))
  <1> DEFINE n == Len(s)
             l == Len(t)
             st == s \o t
             A == AboutIn(s, c)
             B == AboutIn(t, c)
             C == AboutIn(st, c)
  <1>1. /\ n \in Nat /\ l \in Nat /\ DOMAIN s = 1 .. n /\ DOMAIN t = 1 .. l
        /\ DOMAIN st = 1 .. n + l
        /\ \A k \in 1 .. n : st[k] = s[k]
        /\ \A k \in 1 .. l : st[n + k] = t[k]
    OBVIOUS
  <1> HIDE DEF st, n, l
  <1>2. A \subseteq 1 .. n /\ B \subseteq 1 .. l /\ C \subseteq 1 .. n + l
    BY <1>1 DEF AboutIn
  <1>3. /\ \A k \in 1 .. n : k \in C <=> k \in A
        /\ \A k \in 1 .. l : n + k \in C <=> k \in B
    BY <1>1 DEF AboutIn
  <1>4. \A j \in C : j \in A \/ \E k \in B : j = n + k
    <2> SUFFICES ASSUME NEW j \in C, j \notin A PROVE \E k \in B : j = n + k
      OBVIOUS
    <2>1. j \in 1 .. n + l /\ ~(j <= n)
      BY <1>1, <1>2, <1>3
    <2>2. j - n \in 1 .. l /\ j = n + (j - n)
      BY <1>1, <2>1
    <2> QED BY <1>3, <2>2
  <1> HIDE DEF A, B, C
  <1>5. CASE B # {}
    <2>1. PICK k \in B : IsLast(k, B)
      BY <1>1, <1>2, <1>5, LastExists
    <2>2. IsLast(n + k, C)
      <3>1. n + k \in C /\ k \in 1 .. l
        BY <1>2, <1>3
      <3>2. ASSUME NEW j \in C PROVE j <= n + k
        <4>1. CASE j \in A
          BY <1>1, <1>2, <3>1, <4>1
        <4>2. CASE \E i \in B : j = n + i
          BY <1>1, <1>2, <2>1, <3>1, <4>2 DEF IsLast
        <4> QED BY <1>4, <4>1, <4>2
      <3> QED BY <3>1, <3>2 DEF IsLast
    <2>3. Follows(st, c, d) = st[n + k].depth
      BY <1>1, <2>2, FollowsLast DEF C
    <2>4. Follows(t, c, Follows(s, c, d)) = t[k].depth
      BY <1>1, <2>1, FollowsLast DEF B
    <2> QED BY <1>1, <1>2, <2>3, <2>4 DEF st
  <1>6. CASE B = {}
    <2>1. Follows(t, c, Follows(s, c, d)) = Follows(s, c, d)
      BY <1>6, FollowsIs DEF B
    <2>2. C = A
      <3>1. \A j \in C : j \in A
        BY <1>4, <1>6
      <3> QED BY <1>2, <1>3, <3>1
    <2>3. CASE A = {}
      BY <2>1, <2>2, <2>3, FollowsIs DEF A, C, st
    <2>4. CASE A # {}
      <3>1. PICK k \in A : IsLast(k, A)
        BY <1>1, <1>2, <2>4, LastExists
      <3>2. Follows(s, c, d) = s[k].depth
        BY <1>1, <3>1, FollowsLast DEF A
      <3>3. Follows(st, c, d) = st[k].depth
        BY <1>1, <2>2, <3>1, FollowsLast, SMTT(30) DEF C
      <3> QED BY <1>1, <1>2, <2>1, <3>2, <3>3 DEF st
    <2> QED BY <2>3, <2>4
  <1> QED BY <1>5, <1>6

LEMMA FollowsNone ==
  ASSUME NEW c, NEW d
  PROVE  Follows(<<>>, c, d) = d
  BY DEF Follows

LEMMA FollowsOne ==
  ASSUME NEW e, NEW c, NEW d
  PROVE  Follows(<<e>>, c, d) = IF c \in About(e) THEN e.depth ELSE d
  <1> DEFINE s == <<e>>
  <1>1. DOMAIN s = {1} /\ s[1] = e
    OBVIOUS
  <1> HIDE DEF s
  <1>2. CASE c \in About(e)
    <2>1. IsLast(1, AboutIn(s, c)) /\ DOMAIN s \subseteq Int
      BY <1>1, <1>2 DEF IsLast, AboutIn
    <2>2. Follows(s, c, d) = s[1].depth
      BY <2>1, FollowsLast
    <2> QED BY <1>1, <1>2, <2>2 DEF s
  <1>3. CASE c \notin About(e)
    <2>1. AboutIn(s, c) = {}
      BY <1>1, <1>3 DEF AboutIn
    <2>2. Follows(s, c, d) = d
      BY <2>1, FollowsIs
    <2> QED BY <1>3, <2>2 DEF s
  <1> QED BY <1>2, <1>3

\* Whatever the reader held, once an event about the cell has been read.
LEMMA FollowsForgets ==
  ASSUME NEW E, NEW e \in E, NEW t \in Seq(E), NEW c, c \in About(e),
         NEW x, NEW y
  PROVE  Follows(<<e>> \o t, c, x) = Follows(<<e>> \o t, c, y)
  <1> DEFINE s == <<e>>
  <1>1. s \in Seq(E)
    OBVIOUS
  <1>2. Follows(s, c, x) = Follows(s, c, y)
    BY FollowsOne
  <1> HIDE DEF s
  <1>3. /\ Follows(s \o t, c, x) = Follows(t, c, Follows(s, c, x))
        /\ Follows(s \o t, c, y) = Follows(t, c, Follows(s, c, y))
    BY <1>1, FollowsConcat
  <1>4. Follows(s \o t, c, x) = Follows(s \o t, c, y)
    BY <1>2, <1>3
  <1> QED BY <1>4 DEF s

-----------------------------------------------------------------------------
(* What the engine has yet to push.                                         *)

Unsent(events, k) == SubSeq(events, k + 1, Len(events))

LEMMA UnsentAll ==
  ASSUME NEW E, NEW s \in Seq(E)
  PROVE  Unsent(s, 0) = s /\ Unsent(s, Len(s)) = <<>>
  BY DEF Unsent

LEMMA UnsentNext ==
  ASSUME NEW E, NEW s \in Seq(E), NEW k \in 0 .. Len(s), k # Len(s)
  PROVE  /\ s[k + 1] \in E
         /\ Unsent(s, k + 1) \in Seq(E)
         /\ Unsent(s, k) = <<s[k + 1]>> \o Unsent(s, k + 1)
  <1>1. k + 1 \in 1 .. Len(s) /\ Len(s) \in k + 1 .. Len(s)
    OBVIOUS
  <1>2. Unsent(s, k) = <<s[k + 1]>> \o SubSeq(s, k + 1 + 1, Len(s))
    BY <1>1, SubSeqRecursiveFirst, Zenon DEF Unsent
  <1>3. Unsent(s, k + 1) \in Seq(E)
    BY SMTT(30) DEF Unsent
  <1> QED BY <1>1, <1>2, <1>3 DEF Unsent

LEMMA UnsentCut ==
  ASSUME NEW E, NEW s \in Seq(E), NEW k \in 0 .. Len(s)
  PROVE  \E r \in Seq(E) : s = r \o Unsent(s, k) /\ Unsent(s, k) \in Seq(E)
  <1>1. 1 \in 1 .. Len(s) + 1 /\ k \in 1 - 1 .. Len(s) /\ Len(s) \in k .. Len(s)
    OBVIOUS
  <1>2. SubSeq(s, 1, k) \o Unsent(s, k) = SubSeq(s, 1, Len(s))
    BY <1>1, ConcatAdjacentSubSeq, Zenon DEF Unsent
  <1>3. SubSeq(s, 1, Len(s)) = s
    BY SubSeqFull, Zenon
  <1>4. SubSeq(s, 1, k) \in Seq(E) /\ Unsent(s, k) \in Seq(E)
    BY DEF Unsent
  <1> QED BY <1>2, <1>3, <1>4

-----------------------------------------------------------------------------
(* The inductive invariant.  A delta that is received, or dropped after     *)
(* another of its cell was, says the book's depth only because the last     *)
(* delta of the buffer about a cell always does.                            *)

BufferExact == \A c \in Cells : Follows(event_buffer, c, depth[c]) = depth[c]

IInv ==
  /\ TypeOK
  /\ busy => sent = 0
  /\ BufferExact
  /\ ViewFollowsBook

LEMMA ApplyFollows ==
  ASSUME NEW d \in [Cells -> Depths], NEW t \in Seq(AnEvent)
  PROVE  /\ Apply(d, t) \in [Cells -> Depths]
         /\ \A c \in Cells : Apply(d, t)[c] = Follows(t, c, d[c])
  <1>1. \A c \in Cells : Apply(d, t)[c] = Follows(t, c, d[c])
    BY DEF Apply
  <1>2. ASSUME NEW c \in Cells PROVE Follows(t, c, d[c]) \in Depths
    <2>1. CASE AboutIn(t, c) = {}
      BY <2>1, FollowsIs
    <2>2. CASE AboutIn(t, c) # {}
      <3>1. AboutIn(t, c) \subseteq 1 .. Len(t) /\ Len(t) \in Nat
            /\ DOMAIN t \subseteq Int
        BY DEF AboutIn
      <3>2. PICK k \in AboutIn(t, c) : IsLast(k, AboutIn(t, c))
        BY <2>2, <3>1, LastExists
      <3>3. Follows(t, c, d[c]) = t[k].depth
        BY <3>1, <3>2, FollowsLast
      <3>4. t[k] \in AnEvent /\ c \in About(t[k])
        BY <3>1, <3>2 DEF AboutIn
      <3>5. t[k] \in Delta
        BY <3>4, LoopAssumption DEF About, AnEvent, Other
      <3> QED BY <3>3, <3>5 DEF Delta
    <2> QED BY <2>1, <2>2
  <1>3. Apply(d, t) \in [Cells -> Depths]
    BY <1>2 DEF Apply
  <1> QED BY <1>1, <1>3

\* The events on their way, with the buffer's part named.
LEMMA PendingIs ==
  Pending = output \o Unsent(event_buffer, sent)
  BY DEF Pending, Unsent

LEMMA InitIInv == Init => IInv
  <1> SUFFICES ASSUME Init PROVE IInv
    OBVIOUS
  <1>1. TypeOK
    <2>1. depth \in [Cells -> Depths] /\ view \in [Cells -> Depths]
      BY LoopAssumption DEF Init
    <2>2. event_buffer \in Seq(AnEvent) /\ Len(event_buffer) = 0
      BY DEF Init
    <2>3. output \in Seq(AnEvent) /\ Len(output) = 0
      BY DEF Init
    <2>4. input \in 0 .. InputSize /\ sent \in 0 .. 0 /\ 0 <= OutputSize
      BY LoopAssumption DEF Init
    <2>5. busy \in BOOLEAN /\ stale \subseteq Cells
      BY DEF Init
    <2> QED BY <2>1, <2>2, <2>3, <2>4, <2>5 DEF TypeOK, AnEvent
  <1>2. Pending = <<>> /\ event_buffer = <<>> /\ view = depth
    BY DEF Init, Pending
  <1> QED BY <1>1, <1>2, FollowsNone DEF Init, IInv, BufferExact, ViewFollowsBook

LEMMA PopCommandIInv == IInv /\ PopCommand => IInv'
  <1> SUFFICES ASSUME IInv, PopCommand PROVE IInv'
    OBVIOUS
  <1>1. TypeOK'
    <2>1. input' \in 0 .. InputSize
      BY LoopAssumption DEF IInv, TypeOK, PopCommand
    <2>2. event_buffer' \in Seq(AnEvent) /\ sent' \in 0 .. Len(event_buffer')
      BY DEF PopCommand
    <2> QED BY <2>1, <2>2 DEF IInv, TypeOK, PopCommand, AnEvent
  <1>2. sent' = 0 /\ event_buffer' = <<>>
    BY DEF PopCommand
  <1>3. BufferExact'
    BY <1>2, FollowsNone DEF BufferExact
  <1>4. Pending' = Pending
    <2>1. Pending = output \o <<>>
      BY PendingIs, UnsentAll DEF IInv, TypeOK, PopCommand, Published
    <2>2. Pending' = output \o <<>>
      <3>1. SubSeq(<<>>, 0 + 1, Len(<<>>)) = <<>>
        OBVIOUS
      <3>2. output' = output
        BY DEF PopCommand
      <3> QED BY <1>2, <3>1, <3>2, Zenon DEF Pending
    <2> QED BY <2>1, <2>2
  <1>5. ViewFollowsBook'
    BY <1>4 DEF IInv, ViewFollowsBook, PopCommand
  <1> QED BY <1>1, <1>2, <1>3, <1>5 DEF IInv

LEMMA EmitEventsIInv ==
  ASSUME NEW new \in Seq(AnEvent)
  PROVE  IInv /\ EmitEvents(new) => IInv'
  <1> SUFFICES ASSUME IInv, EmitEvents(new) PROVE IInv'
    OBVIOUS
  <1> DEFINE s == event_buffer
             d == Apply(depth, new)
  <1>1. /\ busy /\ sent = 0 /\ s \in Seq(AnEvent) /\ output \in Seq(AnEvent)
        /\ depth \in [Cells -> Depths]
    BY DEF IInv, TypeOK, EmitEvents, AnEvent
  <1>2. /\ event_buffer' = s \o new
        /\ depth' = d
        /\ UNCHANGED <<input, busy, sent, output, view, stale>>
    BY DEF EmitEvents
  <1>3. /\ d \in [Cells -> Depths]
        /\ \A c \in Cells : d[c] = Follows(new, c, depth[c])
    BY <1>1, ApplyFollows
  <1>4. s \o new \in Seq(AnEvent) /\ Len(s \o new) = Len(s) + Len(new)
    BY <1>1
  <1> HIDE DEF s, d
  <1>5. TypeOK'
    <2>1. sent' \in 0 .. Len(event_buffer')
      BY <1>1, <1>2, <1>4
    <2> QED BY <1>2, <1>3, <1>4, <2>1 DEF IInv, TypeOK, AnEvent
  <1>6. BufferExact'
    <2> SUFFICES ASSUME NEW c \in Cells PROVE Follows(s \o new, c, d[c]) = d[c]
      BY <1>2 DEF BufferExact
    <2>1. Follows(s \o new, c, d[c]) = Follows(new, c, Follows(s, c, d[c]))
      BY <1>1, FollowsConcat
    <2>2. CASE AboutIn(new, c) # {}
      <3>1. Follows(new, c, Follows(s, c, d[c])) = Follows(new, c, depth[c])
        BY <2>2, FollowsIs
      <3> QED BY <1>3, <2>1, <3>1
    <2>3. CASE AboutIn(new, c) = {}
      <3>1. d[c] = depth[c]
        BY <1>3, <2>3, FollowsIs
      <3>2. Follows(s, c, depth[c]) = depth[c]
        BY DEF IInv, BufferExact, s
      <3> QED BY <1>3, <2>1, <3>1, <3>2
    <2> QED BY <2>2, <2>3
  <1>7. ViewFollowsBook'
    <2>1. Pending = output \o s
      BY <1>1, PendingIs, UnsentAll DEF s
    <2>2. Pending' = output \o (s \o new)
      <3>1. Unsent(s \o new, 0) = s \o new
        BY <1>4, UnsentAll
      <3> QED BY <1>1, <1>2, <3>1 DEF Pending, Unsent
    <2>3. Pending \in Seq(AnEvent) /\ Pending' = Pending \o new
      BY <1>1, <2>1, <2>2, ConcatAssociative, SMTT(30)
    <2> SUFFICES ASSUME NEW c \in Cells \ stale
                 PROVE  Follows(Pending \o new, c, view[c]) = d[c]
      BY <1>2, <2>3 DEF ViewFollowsBook
    <2>4. Follows(Pending \o new, c, view[c])
            = Follows(new, c, Follows(Pending, c, view[c]))
      BY <1>1, <2>3, FollowsConcat
    <2>5. Follows(Pending, c, view[c]) = depth[c]
      BY DEF IInv, ViewFollowsBook
    <2> QED BY <1>3, <2>4, <2>5
  <1> QED BY <1>1, <1>2, <1>5, <1>6, <1>7 DEF IInv

LEMMA PublishEventIInv == IInv /\ PublishEvent => IInv'
  <1> SUFFICES ASSUME IInv, PublishEvent PROVE IInv'
    OBVIOUS
  <1> DEFINE s == event_buffer
             e == s[sent + 1]
             one == <<e>>
             rest == Unsent(s, sent + 1)
             fits == Len(output) < OutputSize
  <1>1. /\ s \in Seq(AnEvent) /\ output \in Seq(AnEvent) /\ sent \in 0 .. Len(s)
        /\ sent # Len(s) /\ ~busy /\ Len(output) <= OutputSize
    BY DEF IInv, TypeOK, PublishEvent, Published, AnEvent
  <1>2. /\ e \in AnEvent /\ rest \in Seq(AnEvent)
        /\ Unsent(s, sent) = one \o rest
    BY <1>1, UnsentNext
  <1>3. /\ output' = IF fits THEN Append(output, e) ELSE output
        /\ stale' = IF fits THEN stale \ About(e) ELSE stale \cup About(e)
        /\ sent' = sent + 1
        /\ UNCHANGED <<input, busy, depth, event_buffer, view>>
    BY DEF PublishEvent
  <1>4. one \in Seq(AnEvent) /\ Append(output, e) = output \o one
    BY <1>1, <1>2, AppendIsConcat
  <1>5. TypeOK'
    <2>1. sent' \in 0 .. Len(event_buffer')
      BY <1>1, <1>3
    <2>2. output' \in Seq(AnEvent) /\ Len(output') <= OutputSize
      BY <1>1, <1>2, <1>3, LoopAssumption
    <2>3. stale' \subseteq Cells
      BY <1>3 DEF IInv, TypeOK, About
    <2> QED BY <1>3, <2>1, <2>2, <2>3 DEF IInv, TypeOK, AnEvent
  <1>6. BufferExact'
    BY <1>3 DEF IInv, BufferExact
  <1>7. Pending = output \o (one \o rest) /\ Pending' = output' \o rest
    BY <1>2, <1>3, PendingIs DEF Pending, Unsent
  <1> HIDE DEF s, e, one, rest
  <1>8. ViewFollowsBook'
    <2> SUFFICES ASSUME NEW c \in Cells, c \notin stale'
                 PROVE  Follows(output' \o rest, c, view[c]) = depth[c]
      BY <1>3, <1>7 DEF ViewFollowsBook
    <2> DEFINE x == Follows(output, c, view[c])
               later == one \o rest
    <2>0. later \in Seq(AnEvent)
      BY <1>2, <1>4
    <2> HIDE DEF x
    <2>1. Follows(output \o later, c, view[c]) = Follows(later, c, x)
      <3> HIDE DEF later
      <3> QED BY <1>1, <2>0, FollowsConcat DEF x
    <2>2. Follows(later, c, x) = Follows(rest, c, Follows(one, c, x))
      BY <1>2, <1>4, FollowsConcat
    <2>3. CASE fits
      <3>1. output' \o rest = output \o later
        BY <1>1, <1>2, <1>3, <1>4, <2>3, ConcatAssociative, SMTT(30)
      <3>2. CASE c \notin stale
        BY <1>7, <3>1, <3>2 DEF IInv, ViewFollowsBook
      <3>3. CASE c \in stale
        <4>1. c \in About(e)
          BY <1>3, <2>3, <3>3
        <4>2. PICK r \in Seq(AnEvent) : s = r \o later
          <5>1. \E r \in Seq(AnEvent) : s = r \o Unsent(s, sent)
            BY <1>1, UnsentCut, ZenonT(40)
          <5> QED BY <1>2, <5>1
        <4>3. Follows(s, c, depth[c]) = Follows(later, c, Follows(r, c, depth[c]))
          <5> HIDE DEF later
          <5>1. Follows(r \o later, c, depth[c])
                  = Follows(later, c, Follows(r, c, depth[c]))
            BY <2>0, FollowsConcat
          <5> QED BY <4>2, <5>1
        <4>4. Follows(s, c, depth[c]) = depth[c]
          BY DEF IInv, BufferExact, s
        <4>5. Follows(later, c, Follows(r, c, depth[c])) = Follows(later, c, x)
          BY <1>2, <4>1, FollowsForgets DEF one
        <4> QED BY <2>1, <3>1, <4>3, <4>4, <4>5
      <3> QED BY <3>2, <3>3
    <2>4. CASE ~fits
      <3>1. c \notin stale /\ c \notin About(e) /\ output' = output
        BY <1>3, <2>4
      <3>2. Follows(one, c, x) = x
        BY <3>1, FollowsOne DEF one
      <3>3. Follows(output \o rest, c, view[c]) = Follows(rest, c, x)
        BY <1>1, <1>2, FollowsConcat DEF x
      <3>4. Follows(output \o later, c, view[c]) = depth[c]
        BY <1>7, <3>1 DEF IInv, ViewFollowsBook
      <3> QED BY <2>1, <2>2, <3>1, <3>2, <3>3, <3>4
    <2> QED BY <2>3, <2>4
  <1> QED BY <1>1, <1>3, <1>5, <1>6, <1>8 DEF IInv

LEMMA ReceiveEventIInv == IInv /\ ReceiveEvent => IInv'
  <1> SUFFICES ASSUME IInv, ReceiveEvent PROVE IInv'
    OBVIOUS
  <1> DEFINE e == Head(output)
             one == <<e>>
             rest == Tail(output)
             unsent == Unsent(event_buffer, sent)
             v == Apply(view, one)
  <1>1. /\ output \in Seq(AnEvent) /\ output # <<>> /\ Len(output) <= OutputSize
        /\ event_buffer \in Seq(AnEvent) /\ sent \in 0 .. Len(event_buffer)
        /\ view \in [Cells -> Depths]
    BY DEF IInv, TypeOK, ReceiveEvent, AnEvent
  <1>2. /\ e \in AnEvent /\ rest \in Seq(AnEvent) /\ Len(rest) = Len(output) - 1
        /\ one \in Seq(AnEvent) /\ output = one \o rest
    BY <1>1, HeadTailProperties
  <1>3. unsent \in Seq(AnEvent)
    BY <1>1 DEF Unsent
  <1>4. /\ view' = v /\ output' = rest
        /\ UNCHANGED <<input, busy, depth, event_buffer, sent, stale>>
    BY DEF ReceiveEvent
  <1>5. /\ v \in [Cells -> Depths]
        /\ \A c \in Cells : v[c] = Follows(one, c, view[c])
    BY <1>1, <1>2, ApplyFollows
  <1>6. Pending = output \o unsent /\ Pending' = rest \o unsent
    BY <1>4, PendingIs DEF Pending, Unsent
  <1> HIDE DEF e, one, rest, unsent, v
  <1>7. TypeOK'
    <2>1. Len(output') <= OutputSize
      BY <1>1, <1>2, <1>4, LoopAssumption
    <2> QED BY <1>2, <1>4, <1>5, <2>1 DEF IInv, TypeOK, AnEvent
  <1>8. BufferExact'
    BY <1>4 DEF IInv, BufferExact
  <1>9. ViewFollowsBook'
    <2> SUFFICES ASSUME NEW c \in Cells \ stale
                 PROVE  Follows(rest \o unsent, c, v[c]) = depth[c]
      BY <1>4, <1>6 DEF ViewFollowsBook
    <2>1. Pending = one \o (rest \o unsent)
      BY <1>2, <1>3, <1>6, ConcatAssociative
    <2>2. Follows(one \o (rest \o unsent), c, view[c])
            = Follows(rest \o unsent, c, Follows(one, c, view[c]))
      <3> DEFINE later == rest \o unsent
      <3>1. later \in Seq(AnEvent)
        BY <1>2, <1>3
      <3> HIDE DEF later
      <3>2. Follows(one \o later, c, view[c])
              = Follows(later, c, Follows(one, c, view[c]))
        BY <1>2, <3>1, FollowsConcat
      <3> QED BY <3>2 DEF later
    <2>3. Follows(Pending, c, view[c]) = depth[c]
      BY DEF IInv, ViewFollowsBook
    <2> QED BY <1>5, <2>1, <2>2, <2>3
  <1> QED BY <1>4, <1>7, <1>8, <1>9 DEF IInv

\* The client's push and the end of a command leave events and depths alone.
LEMMA OtherStepsIInv ==
  IInv /\ (SendCommand \/ CommandDone \/ UNCHANGED vars) => IInv'
  <1> SUFFICES ASSUME IInv, SendCommand \/ CommandDone \/ UNCHANGED vars
               PROVE  IInv'
    OBVIOUS
  <1>1. UNCHANGED <<depth, event_buffer, sent, output, view, stale>>
    BY DEF SendCommand, CommandDone, vars
  <1>2. input' \in 0 .. InputSize /\ busy' \in BOOLEAN /\ (busy' => busy)
    <2>1. CASE SendCommand
      BY <2>1, LoopAssumption DEF IInv, TypeOK, SendCommand
    <2>2. CASE CommandDone
      BY <2>2 DEF IInv, TypeOK, CommandDone
    <2>3. CASE UNCHANGED vars
      BY <2>3 DEF IInv, TypeOK, vars
    <2> QED BY <2>1, <2>2, <2>3
  <1>3. TypeOK'
    BY <1>1, <1>2 DEF IInv, TypeOK
  <1> QED BY <1>1, <1>2, <1>3 DEF IInv, BufferExact, ViewFollowsBook, Pending

LEMMA NextIInv == IInv /\ [Next]_vars => IInv'
  <1> SUFFICES ASSUME IInv, [Next]_vars PROVE IInv'
    OBVIOUS
  <1>1. CASE PopCommand
    BY <1>1, PopCommandIInv
  <1>2. CASE \E events \in Bursts : EmitEvents(events)
    <2>1. Bursts \subseteq Seq(AnEvent)
      BY DEF Bursts, AnEvent
    <2> QED BY <1>2, <2>1, EmitEventsIInv
  <1>3. CASE PublishEvent
    BY <1>3, PublishEventIInv
  <1>4. CASE ReceiveEvent
    BY <1>4, ReceiveEventIInv
  <1>5. CASE SendCommand \/ CommandDone \/ UNCHANGED vars
    BY <1>5, OtherStepsIInv
  <1> QED BY <1>1, <1>2, <1>3, <1>4, <1>5 DEF Next, EngineStep

LEMMA IInvInvariant == Spec => []IInv
  BY InitIInv, NextIInv, PTL DEF Spec

\* The cursor of run (engine.rs) stays in the event buffer, and the rings in
\* their bounds, whatever their capacities and however client, engine and
\* subscriber take turns.
THEOREM LoopTypes == Spec => []TypeOK
  <1>1. IInv => TypeOK
    BY DEF IInv
  <1> QED BY <1>1, IInvInvariant, PTL

\* The push of run (engine.rs) drops what the output ring does not hold; for
\* every size of the ring, a subscriber who reads what did get in has the exact
\* depth of every price whose latest delta was not dropped.
THEOREM LoopViewFollowsBook == Spec => []ViewFollowsBook
  <1>1. IInv => ViewFollowsBook
    BY DEF IInv
  <1> QED BY <1>1, IInvInvariant, PTL
=============================================================================
