--------------------------- MODULE GeneratorProofs ----------------------------
(***************************************************************************)
(* That what get_requests returns is in the order the engine relies on, and *)
(* in step with the distribution asked for, for any number of requests and   *)
(* any collisions of their times.                                            *)
(***************************************************************************)
EXTENDS RequestGenerator, FiniteSetTheorems, SequenceTheorems, TLAPS

\* a holds the elements of s from place m to place n.
IsPart(S, a, s, m, n) ==
    /\ a \in Seq(S)
    /\ Len(a) = n - m + 1
    /\ \A i \in 1..(n - m + 1) : a[i] = s[m + i - 1]

\* t holds the m elements of a and after them the n of b.
IsJoin(S, t, a, m, b, n) ==
    /\ t \in Seq(S)
    /\ Len(t) = m + n
    /\ \A i \in 1..(m + n) : t[i] = IF i <= m THEN a[i] ELSE b[i - m]

\* A part of a sequence may begin after its last element, and is empty then.
LEMMA PartOf ==
    ASSUME NEW S, NEW s \in Seq(S), NEW m \in Nat \ {0}, NEW n \in Nat, m <= n + 1, n <= Len(s)
    PROVE  IsPart(S, SubSeq(s, m, n), s, m, n)
<1>1. \A i \in m..n : s[i] \in S
    OBVIOUS
<1>2. m \in Int /\ n \in Int
    OBVIOUS
<1> PICK a : a = SubSeq(s, m, n)
    OBVIOUS
<1>3. /\ a \in Seq(S) /\ Len(a) = IF m <= n THEN n - m + 1 ELSE 0
      /\ \A i \in 1..(n - m + 1) : a[i] = s[m + i - 1]
    BY <1>1, <1>2, SubSeqProperties
<1>4. Len(a) = n - m + 1
    <2> PICK k : k = Len(a) /\ k = IF m <= n THEN n - m + 1 ELSE 0
        BY <1>3
    <2>1. k = n - m + 1
        OBVIOUS
    <2> QED
        BY <2>1
<1>5. IsPart(S, a, s, m, n)
    BY <1>3, <1>4 DEF IsPart
<1> QED
    BY <1>5

\* Two sequences, one after the other.
LEMMA Joined ==
    ASSUME NEW S, NEW a \in Seq(S), NEW b \in Seq(S)
    PROVE  IsJoin(S, a \o b, a, Len(a), b, Len(b))
<1>1. /\ a \o b \in Seq(S)
      /\ Len(a \o b) = Len(a) + Len(b)
      /\ \A i \in 1..(Len(a) + Len(b)) : (a \o b)[i] = IF i <= Len(a) THEN a[i] ELSE b[i - Len(a)]
    BY ConcatProperties
<1> QED
    BY <1>1, Zenon DEF IsJoin

\* What an insertion makes of a sequence: e at place p, what was there moved up by one.
IsInserted(S, t, s, p, e) ==
    /\ t \in Seq(S)
    /\ Len(t) = Len(s) + 1
    /\ \A i \in 1..(Len(s) + 1) : t[i] = IF i < p THEN s[i] ELSE IF i = p THEN e ELSE s[i - 1]

\* That is what InsertAt does.
LEMMA Inserted ==
    ASSUME NEW S, NEW s \in Seq(S), NEW p \in 1..(Len(s) + 1), NEW e \in S
    PROVE  IsInserted(S, InsertAt(s, p, e), s, p, e)
<1>1. PICK n \in Nat : n = Len(s)
    OBVIOUS
<1>2. PICK q \in Nat : q = p - 1 /\ p \in Nat \ {0} /\ p <= n + 1 /\ q <= n
    BY <1>1
<1>3. PICK a : a = SubSeq(s, 1, q) /\ IsPart(S, a, s, 1, q)
    <2>1. 1 \in Nat \ {0} /\ 1 <= q + 1 /\ q <= Len(s)
        BY <1>1, <1>2
    <2> QED
        BY <2>1, PartOf
<1>4. PICK z : z = SubSeq(s, p, n) /\ IsPart(S, z, s, p, n)
    <2>1. n <= Len(s)
        BY <1>1
    <2> QED
        BY <1>2, <2>1, PartOf
<1>5. PICK one : one = <<e>> /\ one \in Seq(S) /\ Len(one) = 1 /\ one[1] = e
    <2>1. <<e>> \in Seq(S) /\ Len(<<e>>) = 1 /\ <<e>>[1] = e
        OBVIOUS
    <2> QED
        BY <2>1, Zenon
<1>6. PICK m : m = a \o one /\ IsJoin(S, m, a, Len(a), one, Len(one))
    <2>1. a \in Seq(S)
        BY <1>3 DEF IsPart
    <2> QED
        BY <1>5, <2>1, Joined
<1>7. PICK t : t = m \o z /\ IsJoin(S, t, m, Len(m), z, Len(z))
    <2>1. z \in Seq(S)
        BY <1>4 DEF IsPart
    <2>2. m \in Seq(S)
        BY <1>6 DEF IsJoin
    <2> QED
        BY <2>1, <2>2, Joined
<1>8. t = InsertAt(s, p, e)
    BY <1>1, <1>2, <1>3, <1>4, <1>5, <1>6, <1>7 DEF InsertAt
<1>9. /\ Len(a) = q /\ Len(z) = n - q /\ Len(m) = q + 1 /\ Len(t) = n + 1
    <2>1. Len(a) = q - 1 + 1 /\ Len(z) = n - p + 1
        BY <1>3, <1>4, Zenon DEF IsPart
    <2>2. Len(a) = q /\ Len(z) = n - q
        BY <1>2, <2>1
    <2>3. Len(m) = Len(a) + Len(one)
        BY <1>6 DEF IsJoin
    <2>4. Len(t) = Len(m) + Len(z)
        BY <1>7 DEF IsJoin
    <2>5. Len(m) = q + 1
        BY <1>5, <2>2, <2>3
    <2>6. Len(t) = n + 1
        BY <2>2, <2>4, <2>5
    <2> QED
        BY <2>2, <2>5, <2>6
<1>10. ASSUME NEW i \in 1..(n + 1)
       PROVE  t[i] = IF i < p THEN s[i] ELSE IF i = p THEN e ELSE s[i - 1]
    <2>1. t[i] = IF i <= q + 1 THEN m[i] ELSE z[i - (q + 1)]
        <3>1. \A j \in 1..(Len(m) + Len(z)) : t[j] = IF j <= Len(m) THEN m[j] ELSE z[j - Len(m)]
            BY <1>7 DEF IsJoin
        <3>2. Len(m) + Len(z) = n + 1 /\ Len(m) = q + 1
            BY <1>9
        <3> QED
            BY <3>1, <3>2
    <2>2. \A j \in 1..(q + 1) : m[j] = IF j <= q THEN a[j] ELSE one[j - q]
        <3>1. \A j \in 1..(Len(a) + Len(one)) : m[j] = IF j <= Len(a) THEN a[j] ELSE one[j - Len(a)]
            BY <1>6 DEF IsJoin
        <3> QED
            BY <1>5, <1>9, <3>1
    <2>3. CASE i < p
        <3>1. i \in 1..(q - 1 + 1) /\ i \in 1..(q + 1) /\ i <= q /\ 1 + i - 1 = i
            BY <1>2, <2>3
        <3>2. a[i] = s[1 + i - 1]
            BY <1>3, <3>1 DEF IsPart
        <3> QED
            BY <2>1, <2>2, <2>3, <3>1, <3>2
    <2>4. CASE i = p
        <3>1. i \in 1..(q + 1) /\ ~(i <= q) /\ i - q = 1 /\ i <= q + 1
            BY <1>2, <2>4
        <3> QED
            BY <1>5, <2>1, <2>2, <2>4, <3>1
    <2>5. CASE i > p
        <3>1. i - (q + 1) \in 1..(n - p + 1) /\ p + (i - (q + 1)) - 1 = i - 1 /\ ~(i <= q + 1)
            BY <1>2, <2>5
        <3>2. z[i - (q + 1)] = s[i - 1]
            BY <1>4, <3>1 DEF IsPart
        <3> QED
            BY <2>1, <2>5, <3>1, <3>2
    <2> QED
        BY <2>3, <2>4, <2>5
<1>11. t \in Seq(S)
    BY <1>7 DEF IsJoin
<1>12. IsInserted(S, t, s, p, e)
    BY <1>1, <1>9, <1>10, <1>11 DEF IsInserted
<1> QED
    BY <1>8, <1>12

-----------------------------------------------------------------------------
Event == [req_id : Nat \ {0}, request_type : {"arrival", "release"}]

\* The events ev of n requests are in the order of EngineOrder, and the time of every
\* arrival is at or before the place at.
Ordered(ev, at, n) ==
    /\ \A i \in DOMAIN ev : ev[i].req_id <= n
    /\ \A i \in DOMAIN ev : ev[i].request_type = "arrival" => 2 * i <= at
    /\ \A i, j \in DOMAIN ev :
          ev[i].request_type = "arrival" /\ ev[j].request_type = "arrival" =>
             (i < j <=> ev[i].req_id < ev[j].req_id)
    /\ \A i, j \in DOMAIN ev :
          ev[i].request_type = "arrival" /\ ev[j].request_type = "release"
             /\ ev[i].req_id = ev[j].req_id => i < j

\* new is ev with the arrival a inserted at p and the release z after it at q.
BothIn(ev, p, q, a, z, new) ==
    \E mid : IsInserted(Event, mid, ev, p, a) /\ IsInserted(Event, new, mid, q, z)

\* Every event of new is one of the two, or one of ev that moved up by as many of them
\* as lie before it.
InPlace(ev, p, q, a, z, new) ==
    /\ new \in Seq(Event) /\ DOMAIN new = 1..(Len(ev) + 2) /\ Len(new) = Len(ev) + 2
    /\ new[p] = a /\ new[q] = z
    /\ \A i \in 1..(Len(ev) + 2) :
          /\ i < p => i \in DOMAIN ev /\ new[i] = ev[i]
          /\ p < i /\ i < q => i - 1 \in DOMAIN ev /\ new[i] = ev[i - 1]
          /\ q < i => i - 2 \in DOMAIN ev /\ new[i] = ev[i - 2]

\* So it is after both insertions.
LEMMA BothInPlace ==
    ASSUME NEW ev \in Seq(Event), NEW a, NEW z, NEW new, NEW p \in Nat \ {0}, NEW q \in Nat \ {0},
           p <= Len(ev) + 1, p < q, q <= Len(ev) + 2, BothIn(ev, p, q, a, z, new)
    PROVE  InPlace(ev, p, q, a, z, new)
<1>1. PICK mid : IsInserted(Event, mid, ev, p, a) /\ IsInserted(Event, new, mid, q, z)
    BY DEF BothIn
<1>2. PICK n \in Nat : n = Len(ev) /\ DOMAIN ev = 1..n
    OBVIOUS
<1>3. /\ mid \in Seq(Event) /\ Len(mid) = n + 1
      /\ \A i \in 1..(n + 1) : mid[i] = IF i < p THEN ev[i] ELSE IF i = p THEN a ELSE ev[i - 1]
    BY <1>1, <1>2 DEF IsInserted
<1>4. /\ new \in Seq(Event) /\ Len(new) = n + 2
      /\ \A i \in 1..(n + 2) : new[i] = IF i < q THEN mid[i] ELSE IF i = q THEN z ELSE mid[i - 1]
    <2>1. Len(mid) + 1 = n + 2
        BY <1>3
    <2> QED
        BY <1>1, <2>1 DEF IsInserted
<1>5. DOMAIN new = 1..(n + 2)
    BY <1>4
<1>6. ASSUME NEW i \in 1..(n + 2), i < p
      PROVE  i \in 1..n /\ new[i] = ev[i]
    <2>1. i \in 1..n /\ i \in 1..(n + 1) /\ i < q
        BY <1>2, <1>6
    <2> QED
        BY <1>3, <1>4, <1>6, <2>1
<1>7. ASSUME NEW i \in 1..(n + 2), p < i, i < q
      PROVE  i - 1 \in 1..n /\ new[i] = ev[i - 1]
    <2>1. i - 1 \in 1..n /\ i \in 1..(n + 1) /\ ~(i < p) /\ i # p
        BY <1>2, <1>7
    <2> QED
        BY <1>3, <1>4, <1>7, <2>1
<1>8. ASSUME NEW i \in 1..(n + 2), q < i
      PROVE  i - 2 \in 1..n /\ new[i] = ev[i - 2]
    <2>1. i - 2 \in 1..n /\ i - 1 \in 1..(n + 1) /\ ~(i < q) /\ i # q /\ ~(i - 1 < p) /\ i - 1 # p
             /\ (i - 1) - 1 = i - 2
        BY <1>2, <1>8
    <2>2. new[i] = mid[i - 1]
        BY <1>4, <2>1
    <2>3. mid[i - 1] = ev[(i - 1) - 1]
        BY <1>3, <2>1
    <2> QED
        BY <2>1, <2>2, <2>3
<1>9. new[p] = a
    <2>1. p \in 1..(n + 1) /\ p \in 1..(n + 2) /\ ~(p < p)
        BY <1>2
    <2> QED
        BY <1>3, <1>4, <2>1
<1>10. new[q] = z
    <2>1. q \in 1..(n + 2) /\ ~(q < q)
        BY <1>2
    <2> QED
        BY <1>4, <2>1
<1> QED
    BY <1>2, <1>4, <1>5, <1>6, <1>7, <1>8, <1>9, <1>10 DEF InPlace

\* An arrival that goes in after the others, with its release later still, keeps the order.
LEMMA RecordOrdered ==
    ASSUME NEW ev \in Seq(Event), NEW at \in Nat, NEW n \in Nat, Ordered(ev, at, n),
           NEW p \in Nat \ {0}, NEW q \in Nat \ {0},
           p <= Len(ev) + 1, p < q, q <= Len(ev) + 2, at < 2 * p,
           NEW a \in Event, NEW z \in Event, NEW new, BothIn(ev, p, q, a, z, new),
           a.req_id = n + 1, a.request_type = "arrival", z.req_id = n + 1, z.request_type = "release"
    PROVE  Ordered(new, 2 * p, n + 1)
<1>1. /\ DOMAIN new = 1..(Len(ev) + 2) /\ Len(ev) \in Nat
      /\ new[p] = a /\ new[q] = z
      /\ \A i \in 1..(Len(ev) + 2) :
            /\ i < p => i \in DOMAIN ev /\ new[i] = ev[i]
            /\ p < i /\ i < q => i - 1 \in DOMAIN ev /\ new[i] = ev[i - 1]
            /\ q < i => i - 2 \in DOMAIN ev /\ new[i] = ev[i - 2]
    <2>1. InPlace(ev, p, q, a, z, new)
        BY BothInPlace
    <2> QED
        BY <2>1 DEF InPlace
<1>2. \A k \in DOMAIN ev : k \in Nat /\ ev[k].req_id \in Nat /\ ev[k].req_id <= n
                             /\ (ev[k].request_type = "arrival" => 2 * k <= at)
    <2>1. ASSUME NEW k \in DOMAIN ev
          PROVE  k \in Nat /\ ev[k].req_id \in Nat
        <3>1. k \in Nat /\ ev[k] \in Event
            OBVIOUS
        <3> QED
            BY <3>1 DEF Event
    <2> QED
        BY <2>1 DEF Ordered
<1>3. ASSUME NEW i \in DOMAIN new
      PROVE  \/ i = p
             \/ i = q
             \/ \E k \in DOMAIN ev : k <= i /\ new[i] = ev[k] /\ (k < p => i = k)
    <2>1. i \in 1..(Len(ev) + 2)
        BY <1>1
    <2>2. CASE i < p
        BY <1>1, <2>1, <2>2
    <2>3. CASE p < i /\ i < q
        <3>1. i - 1 \in DOMAIN ev /\ new[i] = ev[i - 1]
            BY <1>1, <2>1, <2>3
        <3>2. i - 1 <= i /\ ~(i - 1 < p)
            BY <2>1, <2>3
        <3> QED
            BY <3>1, <3>2
    <2>4. CASE q < i
        <3>1. i - 2 \in DOMAIN ev /\ new[i] = ev[i - 2]
            BY <1>1, <2>1, <2>4
        <3>2. i - 2 <= i /\ ~(i - 2 < p)
            BY <2>1, <2>4
        <3> QED
            BY <3>1, <3>2
    <2> QED
        BY <2>1, <2>2, <2>3, <2>4
<1>4. ASSUME NEW i \in DOMAIN new, new[i].request_type = "arrival"
      PROVE  i \in Nat /\ (i = p \/ (i < p /\ i \in DOMAIN ev /\ new[i] = ev[i]))
    <2>1. i # q /\ i \in Nat
        BY <1>1, <1>4
    <2>2. ASSUME NEW k \in DOMAIN ev, k <= i, new[i] = ev[k], k < p => i = k
          PROVE  i < p /\ i \in DOMAIN ev /\ new[i] = ev[i]
        <3>1. k \in Nat /\ 2 * k <= at
            BY <1>2, <1>4, <2>2
        <3>2. k < p
            BY <3>1
        <3> QED
            BY <2>2, <3>2
    <2> QED
        BY <1>3, <2>1, <2>2
<1>5. \A i \in DOMAIN new : new[i].req_id <= n + 1
    BY <1>1, <1>2, <1>3
<1>6. \A i \in DOMAIN new : new[i].request_type = "arrival" => 2 * i <= 2 * p
    BY <1>4
<1>7. ASSUME NEW i \in DOMAIN new, NEW j \in DOMAIN new,
             new[i].request_type = "arrival", new[j].request_type = "arrival"
      PROVE  i < j <=> new[i].req_id < new[j].req_id
    <2>1. i \in Nat /\ j \in Nat
        BY <1>4, <1>7
    <2>2. CASE i = p /\ j = p
        BY <1>1, <2>2
    <2>3. CASE i = p /\ j < p /\ j \in DOMAIN ev /\ new[j] = ev[j]
        <3>1. ev[j].req_id \in Nat /\ ev[j].req_id <= n
            BY <1>2, <2>3
        <3> QED
            BY <1>1, <2>1, <2>3, <3>1
    <2>4. CASE j = p /\ i < p /\ i \in DOMAIN ev /\ new[i] = ev[i]
        <3>1. ev[i].req_id \in Nat /\ ev[i].req_id <= n
            BY <1>2, <2>4
        <3> QED
            BY <1>1, <2>1, <2>4, <3>1
    <2>5. CASE i \in DOMAIN ev /\ new[i] = ev[i] /\ j \in DOMAIN ev /\ new[j] = ev[j]
        BY <1>7, <2>5 DEF Ordered
    <2> QED
        BY <1>4, <1>7, <2>2, <2>3, <2>4, <2>5
<1>8. ASSUME NEW i \in DOMAIN new, NEW j \in DOMAIN new,
             new[i].request_type = "arrival", new[j].request_type = "release",
             new[i].req_id = new[j].req_id
      PROVE  i < j
    <2>1. i \in Nat /\ j \in Nat /\ j # p
        BY <1>1, <1>4, <1>8
    <2>2. CASE i = p
        <3>1. CASE j = q
            BY <2>2, <3>1
        <3>2. ASSUME NEW k \in DOMAIN ev, new[j] = ev[k]
              PROVE  FALSE
            <4>1. ev[k].req_id \in Nat /\ ev[k].req_id <= n
                BY <1>2
            <4> QED
                BY <1>1, <1>8, <2>2, <3>2, <4>1
        <3> QED
            BY <1>3, <2>1, <3>1, <3>2
    <2>3. CASE i < p /\ i \in DOMAIN ev /\ new[i] = ev[i]
        <3>1. CASE j = q
            BY <2>1, <2>3, <3>1
        <3>2. ASSUME NEW k \in DOMAIN ev, new[j] = ev[k], k <= j
              PROVE  i < j
            <4>1. k \in Nat /\ i < k
                BY <1>2, <1>8, <2>3, <3>2 DEF Ordered
            <4> QED
                BY <2>1, <3>2, <4>1
        <3> QED
            BY <1>3, <2>1, <3>1, <3>2
    <2> QED
        BY <1>4, <1>8, <2>2, <2>3
<1> QED
    BY <1>5, <1>6, <1>7, <1>8 DEF Ordered

-----------------------------------------------------------------------------
Draw == [time : Nat, depart : Nat, source : Nodes \union {0}, dest : Nodes \union {0},
         bandwidth : Bandwidth \union {0}]

Request == [source : Nodes \union {0}, destination : Nodes \union {0}, bandwidth : Bandwidth \union {0}]

Drawn == pc \in {"endpoints", "bandwidth", "record"}

\* The events are ordered, and the time that is drawn next is not before the latest
\* arrival, nor the departure before it.
OrderInv ==
    /\ events \in Seq(Event)
    /\ requests \in Seq(Request)
    /\ Len(events) = 2 * Len(requests)
    /\ now \in Nat
    /\ draw \in Draw
    /\ Ordered(events, now, Len(requests))
    /\ Drawn => draw.time \in After(now) /\ draw.depart \in After(draw.time)

\* It holds before the first draw.
LEMMA OrderInvInit == Init => OrderInv
<1> SUFFICES ASSUME Init
             PROVE  OrderInv
    OBVIOUS
<1>1. events = <<>> /\ requests = <<>> /\ now = 0 /\ draw = NoDraw /\ pc = "start"
    BY DEF Init
<1>2. draw \in Draw
    BY <1>1 DEF NoDraw, Draw
<1>3. Ordered(events, now, Len(requests))
    BY <1>1 DEF Ordered
<1> QED
    BY <1>1, <1>2, <1>3 DEF OrderInv, Drawn

\* What a recorded request does to the events.
LEMMA RecordInserts ==
    ASSUME OrderInv, Record
    PROVE  \E p, q \in Nat \ {0} :
              /\ p <= Len(events) + 1 /\ p < q /\ q <= Len(events) + 2 /\ now < 2 * p
              /\ now' = 2 * p
              /\ BothIn(events, p, q, [req_id |-> request_id, request_type |-> "arrival"],
                        [req_id |-> request_id, request_type |-> "release"], events')
<1>1. PICK n \in Nat : n = Len(events)
    BY DEF OrderInv
<1>2. PICK t \in Nat, d \in Nat : t = draw.time /\ d = draw.depart
    BY DEF OrderInv, Draw
<1>3. /\ now \in Nat /\ t <= 2 * n + 1 /\ t >= now /\ d <= 2 * n + 1 /\ d >= t
      /\ t % 2 = 1 /\ d % 2 = 1
    <2>1. Drawn /\ Fresh(t) /\ Fresh(d)
        BY <1>2 DEF Record, Drawn
    <2>2. t \in After(now) /\ d \in After(t) /\ now \in Nat
        BY <1>2, <2>1 DEF OrderInv
    <2> QED
        BY <1>1, <2>1, <2>2 DEF After, Fresh
<1>4. PICK p \in Nat \ {0}, q \in Nat \ {0} : p = (t + 1) \div 2 /\ q = (d + 1) \div 2 + 1
    BY <1>3
<1>5. 2 * p = t + 1 /\ 2 * (q - 1) = d + 1
    BY <1>3, <1>4
<1>6. p <= n + 1 /\ p < q /\ q <= n + 2 /\ now < 2 * p
    BY <1>3, <1>5
<1> DEFINE a == [req_id |-> request_id, request_type |-> "arrival"]
           z == [req_id |-> request_id, request_type |-> "release"]
<1>7. a \in Event /\ z \in Event
    BY DEF OrderInv, Event, request_id
<1> HIDE DEF a, z
<1>8. PICK mid : mid = InsertAt(events, p, a) /\ IsInserted(Event, mid, events, p, a)
    BY <1>1, <1>6, <1>7, Inserted DEF OrderInv
<1>9. mid \in Seq(Event) /\ q \in 1..(Len(mid) + 1)
    BY <1>1, <1>6, <1>8 DEF IsInserted
<1>10. IsInserted(Event, InsertAt(mid, q, z), mid, q, z)
    BY <1>7, <1>9, Inserted
<1>11. events' = InsertAt(mid, q, z) /\ now' = 2 * p
    BY <1>2, <1>4, <1>8 DEF Record, a, z
<1>12. BothIn(events, p, q, a, z, events')
    BY <1>8, <1>10, <1>11 DEF BothIn
<1> QED
    BY <1>1, <1>6, <1>11, <1>12 DEF a, z

\* A recorded request keeps the order.
LEMMA RecordKeepsOrder ==
    ASSUME OrderInv, Record
    PROVE  OrderInv'
<1> DEFINE a == [req_id |-> request_id, request_type |-> "arrival"]
           z == [req_id |-> request_id, request_type |-> "release"]
<1>1. PICK n \in Nat : n = Len(requests) /\ request_id = n + 1
    BY DEF OrderInv, request_id
<1>2. a \in Event /\ z \in Event /\ a.req_id = n + 1 /\ z.req_id = n + 1
         /\ a.request_type = "arrival" /\ z.request_type = "release"
    BY <1>1 DEF Event
<1> HIDE DEF a, z
<1> PICK p \in Nat \ {0}, q \in Nat \ {0} :
              /\ p <= Len(events) + 1 /\ p < q /\ q <= Len(events) + 2 /\ now < 2 * p
              /\ now' = 2 * p
              /\ BothIn(events, p, q, a, z, events')
    BY RecordInserts DEF a, z
<1>3. events' \in Seq(Event) /\ Len(events') = Len(events) + 2
    <2>1. InPlace(events, p, q, a, z, events')
        BY BothInPlace DEF OrderInv
    <2> QED
        BY <2>1 DEF InPlace
<1>4. Ordered(events', 2 * p, n + 1)
    BY <1>1, <1>2, RecordOrdered DEF OrderInv
<1>5. /\ draw' = NoDraw /\ pc' = "times"
      /\ requests' = Append(requests, [source |-> draw.source, destination |-> draw.dest,
                                       bandwidth |-> draw.bandwidth])
    BY DEF Record
<1>6. requests' \in Seq(Request) /\ Len(requests') = n + 1
    <2>1. [source |-> draw.source, destination |-> draw.dest, bandwidth |-> draw.bandwidth] \in Request
        BY DEF OrderInv, Draw, Request
    <2> QED
        BY <1>1, <1>5, <2>1 DEF OrderInv
<1>7. draw' \in Draw /\ ~Drawn'
    BY <1>5 DEF NoDraw, Draw, Drawn
<1>8. Len(events') = 2 * Len(requests')
    BY <1>1, <1>3, <1>6 DEF OrderInv
<1>9. now' = 2 * p /\ now' \in Nat
    OBVIOUS
<1> QED
    BY <1>3, <1>4, <1>6, <1>7, <1>8, <1>9 DEF OrderInv

\* Every step keeps the order.
LEMMA OrderInvStep == OrderInv /\ [Next]_vars => OrderInv'
<1> SUFFICES ASSUME OrderInv, [Next]_vars
             PROVE  OrderInv'
    OBVIOUS
<1>1. CASE UNCHANGED vars \/ Ended
    BY <1>1 DEF OrderInv, Ended, vars, Drawn, After
<1>2. CASE Start \/ Return
    BY <1>2 DEF OrderInv, Start, Return, Drawn, After
<1>3. CASE DrawTimes
    <2>0. PICK t \in After(now) : \E d \in After(t) : draw' = [NoDraw EXCEPT !.time = t, !.depart = d]
        BY <1>3 DEF DrawTimes
    <2>1. PICK d \in After(t) : draw' = [NoDraw EXCEPT !.time = t, !.depart = d]
        BY <2>0
    <2>2. UNCHANGED <<events, now, requests>>
        BY <1>3 DEF DrawTimes
    <2>3. t \in Nat /\ d \in Nat
        BY DEF After, OrderInv
    <2>4. draw' = [time |-> t, depart |-> d, source |-> 0, dest |-> 0, bandwidth |-> 0]
        BY <2>1 DEF NoDraw
    <2>5. draw' \in Draw /\ draw'.time = t /\ draw'.depart = d
        BY <2>3, <2>4 DEF Draw
    <2> QED
        BY <2>2, <2>5 DEF OrderInv, Drawn, After
<1>4. CASE DrawEndpoints
    <2>1. PICK s \in Nodes, d \in Nodes : draw' = [draw EXCEPT !.source = s, !.dest = d]
        BY <1>4 DEF DrawEndpoints
    <2>2. draw' \in Draw /\ draw'.time = draw.time /\ draw'.depart = draw.depart
        BY <2>1 DEF OrderInv, Draw
    <2> QED
        BY <1>4, <2>2 DEF OrderInv, DrawEndpoints, Drawn, After
<1>5. ASSUME NEW b \in Bandwidth, DrawBandwidth(b)
      PROVE  OrderInv'
    <2>1. draw' = [draw EXCEPT !.bandwidth = b]
        BY <1>5 DEF DrawBandwidth
    <2>2. draw' \in Draw /\ draw'.time = draw.time /\ draw'.depart = draw.depart
        BY <2>1 DEF OrderInv, Draw
    <2> QED
        BY <1>5, <2>2 DEF OrderInv, DrawBandwidth, Drawn, After
<1>6. ASSUME NEW b \in Bandwidth, RejectBandwidth(b)
      PROVE  OrderInv'
    BY <1>6 DEF OrderInv, RejectBandwidth, vars, Drawn, After
<1>7. CASE Record
    BY <1>7, RecordKeepsOrder
<1>8. CASE Collide
    <2>1. now' = draw.time /\ draw' = NoDraw /\ pc' = "times" /\ UNCHANGED <<events, requests>>
        BY <1>8 DEF Collide
    <2>2. draw.time \in After(now) /\ draw.time \in Nat
        BY <1>8 DEF OrderInv, Drawn, Draw, Collide
    <2>3. now \in Nat /\ draw.time >= now
        BY <2>2 DEF After, OrderInv
    <2>4. Ordered(events, draw.time, Len(requests))
        BY <2>2, <2>3 DEF OrderInv, Ordered
    <2>5. draw' \in Draw /\ ~Drawn'
        BY <2>1 DEF NoDraw, Draw, Drawn
    <2> QED
        BY <2>1, <2>2, <2>4, <2>5 DEF OrderInv
<1> QED
    BY <1>1, <1>2, <1>3, <1>4, <1>5, <1>6, <1>7, <1>8 DEF Next

\* Whatever times are drawn, and however often they collide with earlier ones, get_requests
\* leaves arrivals in the order of their ids, and every release after its arrival.
THEOREM GeneratorEngineOrder == Spec => []EngineOrder
<1>1. OrderInv => EngineOrder
    <2> SUFFICES ASSUME OrderInv, NEW i \in DOMAIN events, NEW j \in DOMAIN events
                 PROVE  /\ events[i].request_type = "arrival" /\ events[j].request_type = "arrival"
                              => (i < j <=> events[i].req_id < events[j].req_id)
                        /\ events[i].request_type = "arrival"
                              /\ events[j] = [events[i] EXCEPT !.request_type = "release"] => i < j
        BY DEF EngineOrder
    <2>1. events[i] \in Event
        BY DEF OrderInv
    <2>2. ASSUME events[j] = [events[i] EXCEPT !.request_type = "release"]
          PROVE  events[j].req_id = events[i].req_id /\ events[j].request_type = "release"
        BY <2>1, <2>2 DEF Event
    <2> QED
        BY <2>2 DEF OrderInv, Ordered
<1> QED
    BY <1>1, OrderInvInit, OrderInvStep, PTL DEF Spec

-----------------------------------------------------------------------------
Places(ev, v) == {i \in DOMAIN ev : ev[i] = v}

\* v is in ev once; v is not in ev.
Once(ev, v)  == \E k : Places(ev, v) = {k}
Never(ev, v) == \A i \in DOMAIN ev : ev[i] # v

\* The places of two insertions of events, the second after the first.
Apart(ev, p, q) == p <= Len(ev) + 1 /\ p < q /\ q <= Len(ev) + 2

\* An event that is there once is there once after an insertion of two others.
LEMMA OnceKept ==
    ASSUME NEW ev \in Seq(Event), NEW a, NEW z, NEW new, NEW p \in Nat \ {0}, NEW q \in Nat \ {0},
           Apart(ev, p, q), BothIn(ev, p, q, a, z, new), NEW v, v # a, v # z, Once(ev, v)
    PROVE  Once(new, v)
<1>0. p <= Len(ev) + 1 /\ p < q /\ q <= Len(ev) + 2
    BY DEF Apart
<1> PICK k : Places(ev, v) = {k}
    BY DEF Once
<1>1. PICK n \in Nat : n = Len(ev) /\ DOMAIN ev = 1..n /\ p <= n + 1 /\ p < q /\ q <= n + 2
    BY <1>0
<1>2. /\ DOMAIN new = 1..(n + 2)
      /\ new[p] = a /\ new[q] = z
      /\ \A i \in 1..(n + 2) :
            /\ i < p => i \in DOMAIN ev /\ new[i] = ev[i]
            /\ p < i /\ i < q => i - 1 \in DOMAIN ev /\ new[i] = ev[i - 1]
            /\ q < i => i - 2 \in DOMAIN ev /\ new[i] = ev[i - 2]
    <2>1. InPlace(ev, p, q, a, z, new)
        BY <1>0, BothInPlace
    <2> QED
        BY <1>1, <2>1 DEF InPlace
<1>3. k \in 1..n /\ ev[k] = v /\ \A i \in 1..n : ev[i] = v => i = k
    <2>1. k \in Places(ev, v) /\ \A i \in Places(ev, v) : i = k
        OBVIOUS
    <2> QED
        BY <1>1, <2>1 DEF Places
<1>4. PICK m \in 1..(n + 2) :
          \/ k < p /\ m = k
          \/ p <= k /\ k + 1 < q /\ m = k + 1
          \/ q <= k + 1 /\ p <= k /\ m = k + 2
    BY <1>1, <1>3
<1>5. new[m] = v
    <2>1. CASE k < p /\ m = k
        BY <1>2, <1>3, <2>1
    <2>2. CASE p <= k /\ k + 1 < q /\ m = k + 1
        <3>1. p < m /\ m < q /\ m - 1 = k
            BY <1>3, <2>2
        <3> QED
            BY <1>2, <1>3, <3>1
    <2>3. CASE q <= k + 1 /\ p <= k /\ m = k + 2
        <3>1. q < m /\ m - 2 = k
            BY <1>3, <2>3
        <3> QED
            BY <1>2, <1>3, <3>1
    <2> QED
        BY <1>4, <2>1, <2>2, <2>3
<1>6. ASSUME NEW i \in 1..(n + 2), new[i] = v
      PROVE  i = m
    <2>1. i # p /\ i # q
        BY <1>2, <1>6
    <2>5. i < p \/ (p < i /\ i < q) \/ q < i
        BY <2>1
    <2>2. CASE i < p
        <3>1. i = k
            BY <1>1, <1>2, <1>3, <1>6, <2>2
        <3> QED
            BY <1>4, <2>2, <3>1
    <2>3. CASE p < i /\ i < q
        <3>1. i - 1 = k
            BY <1>1, <1>2, <1>3, <1>6, <2>3
        <3> QED
            BY <1>4, <2>3, <3>1
    <2>4. CASE q < i
        <3>1. i - 2 = k
            BY <1>1, <1>2, <1>3, <1>6, <2>4
        <3>2. i = k + 2 /\ ~(k < p) /\ ~(k + 1 < q)
            BY <1>1, <1>3, <2>4, <3>1
        <3> QED
            BY <1>4, <3>2
    <2> QED
        BY <2>2, <2>3, <2>4, <2>5
<1>7. \A i : i \in Places(new, v) <=> i \in 1..(n + 2) /\ new[i] = v
    BY <1>2 DEF Places
<1>8. \A i : i \in Places(new, v) <=> i = m
    BY <1>5, <1>6, <1>7
<1>9. Places(new, v) = {m}
    BY <1>8
<1> QED
    BY <1>9 DEF Once

\* Two different events that were not there are there once after their insertion.
LEMMA OnceMore ==
    ASSUME NEW ev \in Seq(Event), NEW a, NEW z, NEW new, NEW p \in Nat \ {0}, NEW q \in Nat \ {0},
           Apart(ev, p, q), BothIn(ev, p, q, a, z, new), a # z, Never(ev, a), Never(ev, z)
    PROVE  Once(new, a) /\ Once(new, z)
<1>0. p <= Len(ev) + 1 /\ p < q /\ q <= Len(ev) + 2
    BY DEF Apart
<1>1. PICK n \in Nat : n = Len(ev) /\ DOMAIN ev = 1..n /\ p <= n + 1 /\ p < q /\ q <= n + 2
    BY <1>0
<1>2. /\ DOMAIN new = 1..(n + 2)
      /\ new[p] = a /\ new[q] = z
      /\ \A i \in 1..(n + 2) :
            /\ i < p => i \in DOMAIN ev /\ new[i] = ev[i]
            /\ p < i /\ i < q => i - 1 \in DOMAIN ev /\ new[i] = ev[i - 1]
            /\ q < i => i - 2 \in DOMAIN ev /\ new[i] = ev[i - 2]
    <2>1. InPlace(ev, p, q, a, z, new)
        BY <1>0, BothInPlace
    <2> QED
        BY <1>1, <2>1 DEF InPlace
<1>3. p \in 1..(n + 2) /\ q \in 1..(n + 2)
    BY <1>1
<1>4. ASSUME NEW i \in 1..(n + 2), i # p, i # q
      PROVE  new[i] # a /\ new[i] # z
    <2>1. i < p \/ (p < i /\ i < q) \/ q < i
        BY <1>4
    <2> QED
        BY <1>2, <2>1 DEF Never
<1>5. \A i : (i \in Places(new, a) <=> i = p) /\ (i \in Places(new, z) <=> i = q)
    BY <1>2, <1>3, <1>4 DEF Places
<1>6. Places(new, a) = {p} /\ Places(new, z) = {q}
    BY <1>5
<1> QED
    BY <1>6 DEF Once

\* The indices of the requests for a bandwidth.
AskedAt(rs, b) == {i \in DOMAIN rs : rs[i].bandwidth = b}

\* One more request is one more for its bandwidth and none for any other.
LEMMA OneMoreAsked ==
    ASSUME NEW rs \in Seq(Request), NEW r \in Request, NEW b
    PROVE  /\ Cardinality(AskedAt(rs, b)) \in Nat
           /\ Cardinality(AskedAt(Append(rs, r), b)) =
                 Cardinality(AskedAt(rs, b)) + (IF r.bandwidth = b THEN 1 ELSE 0)
<1>1. PICK n \in Nat : n = Len(rs) /\ DOMAIN rs = 1..n
    OBVIOUS
<1>2. /\ DOMAIN Append(rs, r) = 1..(n + 1) /\ Append(rs, r)[n + 1] = r
      /\ \A i \in 1..n : Append(rs, r)[i] = rs[i]
    BY <1>1
<1>3. AskedAt(rs, b) \in SUBSET (1..n) /\ n + 1 \notin AskedAt(rs, b)
    BY <1>1 DEF AskedAt
<1>4. IsFiniteSet(AskedAt(rs, b))
    BY <1>3, FS_Interval, FS_Subset
<1>5. Cardinality(AskedAt(rs, b)) \in Nat
    BY <1>4, FS_CardinalityType
<1>6. CASE r.bandwidth = b
    <2>1. AskedAt(Append(rs, r), b) = AskedAt(rs, b) \union {n + 1}
        BY <1>1, <1>2, <1>6 DEF AskedAt
    <2> QED
        BY <1>3, <1>4, <1>5, <1>6, <2>1, FS_AddElement
<1>7. CASE r.bandwidth # b
    <2>1. AskedAt(Append(rs, r), b) = AskedAt(rs, b)
        BY <1>1, <1>2, <1>7 DEF AskedAt
    <2> QED
        BY <1>5, <1>7, <2>1
<1> QED
    BY <1>5, <1>6, <1>7

EventOf(id, ty) == [req_id |-> id, request_type |-> ty]

\* The bandwidth that a round has taken from the counts and not recorded yet.
Pending(b) == IF pc = "record" /\ draw.bandwidth = b THEN 1 ELSE 0

\* The counts, the requests and the events are in step.
StepInv ==
    /\ OrderInv
    /\ distribution \in [Bandwidth -> 0..100]
    /\ bw_counts \in [Bandwidth -> Int]
    /\ pc = "record" => draw.bandwidth \in Bandwidth
    /\ pc = "start" => requests = <<>>
    /\ pc # "start" => \A b \in Bandwidth :
          Cardinality(AskedAt(requests, b)) + bw_counts[b] + Pending(b) = Count(b)
    /\ \A id \in DOMAIN requests, ty \in {"arrival", "release"} :
          Once(events, EventOf(id, ty))

\* A count is an integer, and how many were asked for a natural.
LEMMA CountsAreNumbers ==
    ASSUME OrderInv, distribution \in [Bandwidth -> 0..100], NEW b \in Bandwidth
    PROVE  Count(b) \in Int /\ Cardinality(AskedAt(requests, b)) \in Nat
<1>1. Count(b) \in Int
    BY GeneratorAssumption DEF Count, GeneratorAssumption
<1>2. PICK r \in Request : r = [source |-> 0, destination |-> 0, bandwidth |-> 0]
    BY DEF Request
<1> QED
    BY <1>1, <1>2, OneMoreAsked DEF OrderInv

\* A recorded request keeps counts and events in step.
LEMMA RecordKeepsStep ==
    ASSUME StepInv, Record
    PROVE  StepInv'
<1>0. OrderInv /\ OrderInv'
    BY RecordKeepsOrder DEF StepInv
<1>1. PICK n \in Nat : n = Len(requests) /\ request_id = n + 1 /\ DOMAIN requests = 1..n
    BY <1>0 DEF OrderInv, request_id
<1> PICK r : r = [source |-> draw.source, destination |-> draw.dest, bandwidth |-> draw.bandwidth]
    OBVIOUS
<1>2. r \in Request /\ r.bandwidth = draw.bandwidth
    BY <1>0 DEF OrderInv, Draw, Request
<1>3. /\ requests' = Append(requests, r) /\ pc' = "times" /\ pc = "record"
      /\ UNCHANGED <<distribution, bw_counts>>
    BY DEF Record
<1>4. ASSUME NEW b \in Bandwidth
      PROVE  Cardinality(AskedAt(requests', b)) + bw_counts'[b] + Pending(b)' = Count(b)'
    <2>1. Cardinality(AskedAt(requests', b)) = Cardinality(AskedAt(requests, b)) + Pending(b)
        BY <1>0, <1>2, <1>3, OneMoreAsked DEF Pending, OrderInv
    <2>2. Pending(b)' = 0 /\ Pending(b) \in {0, 1} /\ Count(b)' = Count(b) /\ bw_counts' = bw_counts
        BY <1>3 DEF Pending, Count
    <2>3. Cardinality(AskedAt(requests, b)) \in Nat /\ bw_counts[b] \in Int
        BY <1>0, CountsAreNumbers DEF StepInv
    <2>4. Cardinality(AskedAt(requests, b)) + bw_counts[b] + Pending(b) = Count(b)
        BY <1>3 DEF StepInv
    <2> QED
        BY <2>1, <2>2, <2>3, <2>4
<1> DEFINE a == EventOf(n + 1, "arrival")
           z == EventOf(n + 1, "release")
<1>5. PICK p \in Nat \ {0}, q \in Nat \ {0} :
              /\ p <= Len(events) + 1 /\ p < q /\ q <= Len(events) + 2
              /\ BothIn(events, p, q, a, z, events')
    BY <1>0, <1>1, RecordInserts DEF EventOf
<1>6. events \in Seq(Event) /\ \A i \in DOMAIN events : events[i].req_id <= n
    BY <1>0, <1>1 DEF OrderInv, Ordered
<1>7. a # z /\ \A i \in DOMAIN events : events[i] # a /\ events[i] # z
    <2>1. a.req_id = n + 1 /\ z.req_id = n + 1 /\ a.request_type = "arrival" /\ z.request_type = "release"
        BY DEF EventOf
    <2> QED
        BY <1>6, <2>1
<1> HIDE DEF a, z
<1> PICK ev, new : ev = events /\ new = events'
    OBVIOUS
<1>11. BothIn(ev, p, q, a, z, new) /\ Apart(ev, p, q)
    BY <1>5 DEF Apart
<1>12. ev \in Seq(Event) /\ a # z /\ Never(ev, a) /\ Never(ev, z)
    BY <1>6, <1>7 DEF Never
<1>8. ASSUME NEW id \in 1..(n + 1), NEW ty \in {"arrival", "release"}
      PROVE  Once(events', EventOf(id, ty))
    <2>1. CASE id = n + 1
        <3>1. Once(new, a) /\ Once(new, z)
            BY <1>11, <1>12, OnceMore
        <3> QED
            BY <2>1, <3>1 DEF a, z
    <2>2. CASE id # n + 1
        <3> PICK v : v = EventOf(id, ty)
            OBVIOUS
        <3>1. v # a /\ v # z
            <4>1. v.req_id = id /\ a.req_id = n + 1 /\ z.req_id = n + 1
                BY DEF EventOf, a, z
            <4> QED
                BY <2>2, <4>1
        <3>2. id \in DOMAIN requests
            BY <1>1, <2>2
        <3>3. Once(ev, v)
            BY <3>2 DEF StepInv
        <3>4. Once(new, v)
            BY <1>11, <1>12, <3>1, <3>3, OnceKept
        <3> QED
            BY <3>4
    <2> QED
        BY <2>1, <2>2
<1>9. DOMAIN requests' = 1..(n + 1)
    BY <1>0, <1>1, <1>2, <1>3 DEF OrderInv
<1>10. distribution' \in [Bandwidth -> 0..100] /\ bw_counts' \in [Bandwidth -> Int]
    BY <1>3 DEF StepInv
<1> QED
    BY <1>0, <1>3, <1>4, <1>8, <1>9, <1>10 DEF StepInv

\* So does every other step.
LEMMA StepInvStep == StepInv /\ [Next]_vars => StepInv'
<1> SUFFICES ASSUME StepInv, [Next]_vars
             PROVE  StepInv'
    OBVIOUS
<1>0. OrderInv /\ OrderInv'
    BY OrderInvStep DEF StepInv
<1>1. ASSUME UNCHANGED <<distribution, events, requests>>,
             bw_counts' \in [Bandwidth -> Int],
             pc' = "record" => draw'.bandwidth \in Bandwidth,
             pc' # "start",
             \A b \in Bandwidth : pc = "start" => bw_counts'[b] = Count(b) /\ Pending(b)' = 0,
             \A b \in Bandwidth : pc # "start" => bw_counts'[b] + Pending(b)' = bw_counts[b] + Pending(b)
      PROVE  StepInv'
    <2>1. ASSUME NEW b \in Bandwidth
          PROVE  Cardinality(AskedAt(requests', b)) + bw_counts'[b] + Pending(b)' = Count(b)'
        <3>1. Count(b)' = Count(b) /\ requests' = requests
            BY <1>1 DEF Count
        <3>2. /\ Cardinality(AskedAt(requests, b)) \in Nat /\ Count(b) \in Int
              /\ bw_counts[b] \in Int /\ bw_counts'[b] \in Int
            BY <1>0, <1>1, CountsAreNumbers DEF StepInv
        <3>3. Pending(b) \in Int /\ Pending(b)' \in Int
            BY DEF Pending
        <3>4. CASE pc = "start"
            <4>1. AskedAt(requests, b) = {}
                BY <3>4 DEF StepInv, AskedAt
            <4>2. Cardinality(AskedAt(requests, b)) = 0
                BY <4>1, FS_EmptySet
            <4> QED
                BY <1>1, <3>1, <3>2, <3>4, <4>2
        <3>5. CASE pc # "start"
            <4>1. Cardinality(AskedAt(requests, b)) + bw_counts[b] + Pending(b) = Count(b)
                BY <3>5 DEF StepInv
            <4>2. bw_counts'[b] + Pending(b)' = bw_counts[b] + Pending(b)
                BY <1>1, <3>5
            <4> QED
                BY <3>1, <3>2, <3>3, <4>1, <4>2
        <3> QED
            BY <3>4, <3>5
    <2> QED
        BY <1>0, <1>1, <2>1 DEF StepInv
<1>2. CASE UNCHANGED vars
    BY <1>0, <1>2 DEF StepInv, vars, Count, Pending
<1>3. CASE Ended
    BY <1>0, <1>3 DEF StepInv, Ended, vars, Count, Pending
<1>4. CASE Start
    <2>1. /\ UNCHANGED <<distribution, events, requests>> /\ pc = "start" /\ pc' \in {"times", "ValueError"}
          /\ bw_counts' = [b \in Bandwidth |-> Count(b)]
        BY <1>4 DEF Start
    <2>2. \A b \in Bandwidth : Count(b) \in Int
        BY <1>0, CountsAreNumbers DEF StepInv
    <2>3. bw_counts' \in [Bandwidth -> Int] /\ \A b \in Bandwidth : bw_counts'[b] = Count(b) /\ Pending(b)' = 0
        BY <2>1, <2>2 DEF Pending
    <2> QED
        BY <1>1, <2>1, <2>3
<1>5. CASE DrawTimes \/ DrawEndpoints \/ Return
    <2>1. UNCHANGED <<distribution, events, requests, bw_counts>> /\ pc \in {"times", "endpoints"}
             /\ pc' \in {"endpoints", "bandwidth", "returned"}
        BY <1>5 DEF DrawTimes, DrawEndpoints, Return
    <2>2. \A b \in Bandwidth : Pending(b) = 0 /\ Pending(b)' = 0
        BY <2>1 DEF Pending
    <2> QED
        BY <1>1, <2>1, <2>2 DEF StepInv
<1>6. ASSUME NEW c \in Bandwidth, DrawBandwidth(c)
      PROVE  StepInv'
    <2>1. /\ UNCHANGED <<distribution, events, requests>> /\ pc = "bandwidth" /\ pc' = "record"
          /\ bw_counts' = [bw_counts EXCEPT ![c] = @ - 1] /\ draw' = [draw EXCEPT !.bandwidth = c]
        BY <1>6 DEF DrawBandwidth
    <2>2. draw'.bandwidth = c
        BY <1>0, <2>1 DEF OrderInv, Draw
    <2>3. bw_counts' \in [Bandwidth -> Int]
        BY <2>1 DEF StepInv
    <2>4. \A b \in Bandwidth : bw_counts'[b] + Pending(b)' = bw_counts[b] + Pending(b)
        BY <2>1, <2>2 DEF StepInv, Pending
    <2> QED
        BY <1>1, <2>1, <2>2, <2>3, <2>4
<1>7. ASSUME NEW c \in Bandwidth, RejectBandwidth(c)
      PROVE  StepInv'
    BY <1>0, <1>7 DEF StepInv, RejectBandwidth, vars, Count, Pending
<1>8. CASE Record
    BY <1>8, RecordKeepsStep
<1>9. CASE Collide
    <2>1. /\ UNCHANGED <<distribution, events, requests>> /\ pc = "record" /\ pc' = "times"
          /\ bw_counts' = [bw_counts EXCEPT ![draw.bandwidth] = @ + 1] /\ draw.bandwidth \in Bandwidth
        BY <1>9 DEF Collide, GivenBack, StepInv
    <2>2. bw_counts' \in [Bandwidth -> Int]
        BY <2>1 DEF StepInv
    <2>3. \A b \in Bandwidth : bw_counts'[b] + Pending(b)' = bw_counts[b] + Pending(b)
        BY <2>1 DEF StepInv, Pending
    <2> QED
        BY <1>1, <2>1, <2>2, <2>3
<1> QED
    BY <1>2, <1>3, <1>4, <1>5, <1>6, <1>7, <1>8, <1>9 DEF Next

\* However many collisions there are, every bandwidth has been used as often as its count
\* has gone down, and every id so far has one arrival and one release (get_requests).
THEOREM GeneratorInStep == Spec => []InStep
<1>1. Init => StepInv
    <2> SUFFICES ASSUME Init
                 PROVE  StepInv
        OBVIOUS
    <2>1. requests = <<>> /\ pc = "start" /\ distribution \in [Bandwidth -> 0..100]
             /\ bw_counts = [b \in Bandwidth |-> 0]
        BY GeneratorAssumption DEF Init, GeneratorAssumption
    <2> QED
        BY <2>1, OrderInvInit DEF StepInv
<1>2. StepInv => InStep
    <2> SUFFICES ASSUME StepInv, pc # "start"
                 PROVE  /\ \A b \in Bandwidth :
                              Asked(b) + bw_counts[b] + (IF pc = "record" /\ draw.bandwidth = b THEN 1 ELSE 0)
                                = Count(b)
                        /\ Len(events) = 2 * Len(requests)
                        /\ \A id \in DOMAIN requests :
                              Cardinality(EventsOf(id, "arrival")) = 1 /\ Cardinality(EventsOf(id, "release")) = 1
        BY DEF InStep
    <2>1. \A b \in Bandwidth : Asked(b) = Cardinality(AskedAt(requests, b))
        BY DEF Asked, AskedAt
    <2>2. ASSUME NEW id \in DOMAIN requests, NEW ty \in {"arrival", "release"}
          PROVE  Cardinality(EventsOf(id, ty)) = 1
        <3>1. EventsOf(id, ty) = Places(events, EventOf(id, ty))
            BY DEF EventsOf, Places, EventOf
        <3>2. PICK k : EventsOf(id, ty) = {k}
            BY <3>1 DEF StepInv, Once
        <3> QED
            BY <3>2, FS_Singleton
    <2> QED
        BY <2>1, <2>2 DEF StepInv, OrderInv, Pending
<1> QED
    BY <1>1, <1>2, StepInvStep, PTL DEF Spec
=============================================================================
