------------------------------ MODULE PollProofs ------------------------------
(***************************************************************************)
(* The events of poll_oneoff, for every list of subscriptions, every state *)
(* of the descriptors and every course of time.                            *)
(***************************************************************************)
EXTENDS Poll, Induction

\* The host's clock at time t, as subscription s reads it.
Clocked(s, t) == IF s.abstime THEN t + offset ELSE t

\* A clock subscription whose deadline the host can tell at any time.
Counts(k) == input[k].type = "CLOCK" /\ (input[k].abstime => offset >= 0)

\* Before and after the choice of the clock subscription.
Choosing == pc \in {"start", "clocks"}
Waiting == pc \in {"poll", "wait"}

\* The delay chosen so far is that of a clock subscription, less than a
\* millisecond short at the most, and no longer than any other's.
Chosen ==
  LET s == input[timeout.sub]
      delay == timeout.delay * NsPerMs
  IN  /\ timeout # NoTimeout => timeout.sub \in 1..(next - 1) /\ s.type = "CLOCK"
      /\ Choosing /\ timeout # NoTimeout =>
           /\ s.timeout < Clocked(s, now) + delay + NsPerMs
           /\ Deadline(s) < delay + NsPerMs + now
      /\ Choosing => \A k \in 1..(next - 1) :
           Counts(k) => timeout # NoTimeout /\ delay <= Deadline(input[k])
      /\ Waiting /\ timeout # NoTimeout =>
           s.timeout < Clocked(s, polled) + delay + NsPerMs \/ timeout.delay = CIntMax
      /\ Waiting => \A k \in 1..Len(input) :
           Counts(k) => timeout # NoTimeout /\ Deadline(s) < Deadline(input[k]) + NsPerMs + polled

\* Where the call is, and how long poll(2) waits at least.
Progress ==
  /\ pc # "done" => events = <<>> /\ nevents = 0 /\ ret = "ESUCCESS"
  /\ Waiting => next = Len(input) + 1 /\ polled <= now
  /\ pc = "wait" /\ due # NoDue =>
       timeout # NoTimeout /\ due >= polled + timeout.delay * NsPerMs

\* The inductive invariant.
IInv ==
  /\ TypeOK /\ Progress /\ Chosen
  /\ EventsSound /\ NotEarly /\ EarliestFirst /\ ReadyPrefix

----------------------------------------------------------------------------
(* What filter_map and collect make of a list *)

LEMMA InOrderDef ==
  ASSUME NEW S, NEW n \in Nat
  PROVE  \E f : /\ InOrder(S, n) = f[n] /\ f[0] = <<>>
                /\ \A k \in 1..n : f[k] = IF k \in S THEN Append(f[k - 1], k) ELSE f[k - 1]
<1> DEFINE F == [k \in 1..n |-> [x \in Seq(Nat) |-> IF k \in S THEN Append(x, k) ELSE x]]
           Upto(f, m) ==
             f = [k \in 0..m |-> IF k = 0 THEN <<>>
                                 ELSE IF k \in S THEN Append(f[k - 1], k) ELSE f[k - 1]]
<1>1. <<>> \in Seq(Nat) /\ Steps(F, n, Seq(Nat))
  BY DEF Steps
<1>2. PICK g : g \in [0..n -> Seq(Nat)] /\ Unfolds(g, <<>>, n, F)
  <2> HIDE DEF F
  <2> QED
    BY <1>1, RecursiveFunction
<1>3. Upto(g, n)
  <2>1. ASSUME NEW k \in 1..n
        PROVE  g[k] = IF k \in S THEN Append(g[k - 1], k) ELSE g[k - 1]
    <3>1. k - 1 \in 0..n
      OBVIOUS
    <3>2. g[k - 1] \in Seq(Nat)
      BY <1>2, <3>1
    <3>3. g[k] = F[k][g[k - 1]]
      <4> HIDE DEF F
      <4> QED
        BY <1>2 DEF Unfolds
    <3> QED
      BY <3>2, <3>3
  <2>2. g[0] = <<>> /\ g = [k \in 0..n |-> g[k]]
    BY <1>2 DEF Unfolds
  <2>3. \A k \in 0..n : k = 0 \/ k \in 1..n
    OBVIOUS
  <2>4. \A k \in 0..n : g[k] = IF k = 0 THEN <<>>
                               ELSE IF k \in S THEN Append(g[k - 1], k) ELSE g[k - 1]
    BY <2>1, <2>2, <2>3
  <2> QED
    BY <2>2, <2>4
<1>4. InOrder(S, n) = (CHOOSE f : Upto(f, n))[n]
  BY DEF InOrder
<1> DEFINE f == CHOOSE h : Upto(h, n)
<1>5. Upto(f, n)
  <2> HIDE DEF Upto
  <2> QED
    BY <1>3, Zenon
<1> HIDE DEF f
<1>6. f[0] = <<>> /\ \A k \in 1..n : f[k] = IF k \in S THEN Append(f[k - 1], k) ELSE f[k - 1]
  <2>1. \A k \in 0..n : f[k] = IF k = 0 THEN <<>>
                               ELSE IF k \in S THEN Append(f[k - 1], k) ELSE f[k - 1]
    BY <1>5
  <2>2. 0 \in 0..n /\ \A k \in 1..n : k \in 0..n /\ k # 0
    OBVIOUS
  <2> QED
    BY <2>1, <2>2
<1> QED
  BY <1>4, <1>6 DEF f

\* A sequence that lists the numbers of S among 1..n, in order.
Ordered(s, S, n) ==
  /\ s \in Seq(Nat) /\ Len(s) <= n
  /\ \A i \in 1..Len(s) : s[i] \in S /\ s[i] \in 1..n
  /\ \A i, j \in 1..Len(s) : i < j => s[i] < s[j]
  /\ \A k \in S : k \in 1..n => \E i \in 1..Len(s) : s[i] = k

LEMMA InOrderIs ==
  ASSUME NEW S, NEW n \in Nat
  PROVE  Ordered(InOrder(S, n), S, n)
<1>1. PICK f : /\ InOrder(S, n) = f[n] /\ f[0] = <<>>
               /\ \A k \in 1..n : f[k] = IF k \in S THEN Append(f[k - 1], k) ELSE f[k - 1]
  BY InOrderDef
<1> DEFINE T == {k \in Nat : Ordered(f[k], S, k)}
<1>2. 0 \in T
  <2>1. <<>> \in Seq(Nat) /\ Len(<<>>) = 0
    OBVIOUS
  <2>2. Ordered(<<>>, S, 0)
    BY <2>1 DEF Ordered
  <2> QED
    BY <2>2, <1>1
<1>3. ASSUME NEW k \in 0..n, k \in T, k < n
      PROVE  k + 1 \in T
  <2> DEFINE s == f[k]
             t == f[k + 1]
  <2>1. /\ k \in Nat /\ k + 1 \in 1..n /\ (k + 1) - 1 = k
        /\ Ordered(s, S, k)
    BY <1>3
  <2>2. t = IF k + 1 \in S THEN Append(s, k + 1) ELSE s
    BY <2>1, <1>1
  <2> HIDE DEF s, t
  <2>3. /\ s \in Seq(Nat) /\ Len(s) \in Nat /\ Len(s) <= k
        /\ \A i \in 1..Len(s) : s[i] \in S /\ s[i] \in 1..k
        /\ \A i, j \in 1..Len(s) : i < j => s[i] < s[j]
        /\ \A m \in S : m \in 1..k => \E i \in 1..Len(s) : s[i] = m
    BY <2>1 DEF Ordered
  <2>4. CASE k + 1 \in S
    <3>1. /\ t \in Seq(Nat) /\ Len(t) = Len(s) + 1 /\ t[Len(s) + 1] = k + 1
          /\ \A i \in 1..Len(s) : t[i] = s[i]
      BY <2>1, <2>2, <2>3, <2>4
    <3>2. \A i \in 1..Len(t) : i = Len(s) + 1 \/ i \in 1..Len(s)
      BY <2>3, <3>1
    <3>3. \A i \in 1..Len(t) : t[i] \in S /\ t[i] \in 1..(k + 1)
      <4>1. ASSUME NEW i \in 1..Len(s)
            PROVE  t[i] \in S /\ t[i] \in 1..(k + 1)
        BY <2>1, <2>3, <3>1, SMTT(30)
      <4> QED
        BY <4>1, <3>1, <3>2, <2>1, <2>4
    <3>4. ASSUME NEW i \in 1..Len(t), NEW j \in 1..Len(t), i < j
          PROVE  t[i] < t[j]
      <4>1. i \in 1..Len(s)
        BY <3>1, <3>4, <2>3
      <4>2. CASE j \in 1..Len(s)
        BY <4>1, <4>2, <3>1, <3>4, <2>3
      <4>3. CASE j = Len(s) + 1
        <5>1. t[i] = s[i] /\ s[i] \in 1..k /\ t[j] = k + 1
          BY <4>1, <4>3, <3>1, <2>3
        <5> QED
          BY <5>1, <2>1
      <4> QED
        BY <4>2, <4>3, <3>2
    <3>5. ASSUME NEW m \in S, m \in 1..(k + 1)
          PROVE  \E i \in 1..Len(t) : t[i] = m
      <4>1. CASE m = k + 1
        BY <4>1, <3>1, <2>3
      <4>2. CASE m \in 1..k
        <5>1. PICK i \in 1..Len(s) : s[i] = m
          BY <4>2, <2>3
        <5>2. i \in 1..Len(t) /\ t[i] = m
          BY <5>1, <3>1, <2>3
        <5> QED
          BY <5>2
      <4> QED
        BY <4>1, <4>2, <3>5, <2>1
    <3>6. Len(t) <= k + 1
      BY <3>1, <2>3, <2>1
    <3>7. Ordered(t, S, k + 1)
      BY <3>1, <3>3, <3>4, <3>5, <3>6 DEF Ordered
    <3> QED
      BY <3>7, <2>1 DEF t
  <2>5. CASE k + 1 \notin S
    <3>1. t = s /\ Len(s) <= k + 1 /\ \A m \in 1..k : m \in 1..(k + 1)
      BY <2>1, <2>2, <2>3, <2>5
    <3>2. \A m \in S : m \in 1..(k + 1) => m \in 1..k
      BY <2>5, <2>1
    <3>3. Ordered(t, S, k + 1)
      BY <3>1, <3>2, <2>3 DEF Ordered
    <3> QED
      BY <3>3, <2>1 DEF t
  <2> QED
    BY <2>4, <2>5
<1>4. 0..n \subseteq T
  <2> HIDE DEF T
  <2> QED
    BY <1>2, <1>3, InductiveUpTo
<1> QED
  BY <1>1, <1>4
----------------------------------------------------------------------------
(* The descriptors and their events *)

LEMMA InputIs ==
  ASSUME input \in Inputs
  PROVE  /\ input \in Seq(Subscription) /\ Len(input) \in Nat
         /\ \A k \in 1..Len(input) : input[k] \in Subscription
<1>1. input \in Seq(Subscription)
  BY PollAssumption
<1>2. ASSUME NEW S, NEW s \in Seq(S)
      PROVE  Len(s) \in Nat /\ \A k \in 1..Len(s) : s[k] \in S
  OBVIOUS
<1> QED
  BY <1>1, <1>2, Zenon

LEMMA FdEventsIs ==
  ASSUME input \in Inputs
  PROVE  /\ Ordered(fd_events, FdSubs, Len(input))
         /\ Len(fd_events) \in Nat /\ Len(fd_events) <= Len(input)
         /\ \A j \in 1..Len(fd_events) : fd_events[j] \in FdSubs
<1>1. Len(input) \in Nat
  BY InputIs
<1>2. Ordered(fd_events, FdSubs, Len(input))
  BY <1>1, InOrderIs DEF fd_events
<1> QED
  BY <1>2 DEF Ordered

\* What poll(2) returns: the number of descriptors with an event.
LEMMA ReadyIs ==
  ASSUME input \in Inputs, NEW found
  PROVE  /\ ready(found) \in Nat /\ ready(found) <= Len(fd_events)
         /\ ready(found) = 0 => \A k \in FdSubs : revents(found, k) = {}
         /\ \A p \in 1..Len(fd_events) :
              (\A j \in 1..p : revents(found, fd_events[j]) # {}) => p <= ready(found)
<1> DEFINE n == Len(fd_events)
           R == {j \in 1..n : revents(found, fd_events[j]) # {}}
<1>1. n \in Nat
  BY FdEventsIs
<1>2. ready(found) = Cardinality(R)
  BY DEF ready
<1>3. ASSUME NEW p \in Nat
      PROVE  IsFiniteSet(1..p) /\ Cardinality(1..p) = p
  <2>1. IF 1 > p THEN Cardinality(1..p) = 0 ELSE Cardinality(1..p) = p - 1 + 1
    BY FS_Interval
  <2>2. IsFiniteSet(1..p)
    BY FS_Interval
  <2> QED
    BY <2>1, <2>2
<1>4. IsFiniteSet(R) /\ Cardinality(R) <= n
  <2>1. R \subseteq 1..n
    OBVIOUS
  <2>2. IsFiniteSet(1..n) /\ Cardinality(1..n) = n
    BY <1>1, <1>3
  <2> HIDE DEF R
  <2>3. IsFiniteSet(R) /\ Cardinality(R) <= Cardinality(1..n)
    BY <2>1, <2>2, FS_Subset
  <2> QED
    BY <2>2, <2>3
<1>5. Cardinality(R) \in Nat
  <2> HIDE DEF R
  <2> QED
    BY <1>4, FS_CardinalityType
<1>6. ASSUME Cardinality(R) = 0, NEW k \in FdSubs
      PROVE  revents(found, k) = {}
  <2>1. R = {}
    <3> HIDE DEF R
    <3> QED
      BY <1>4, <1>6, FS_EmptySet
  <2>2. PICK j \in 1..n : fd_events[j] = k
    BY FdEventsIs DEF Ordered, FdSubs
  <2> QED
    BY <2>1, <2>2
<1>7. ASSUME NEW p \in 1..n, \A j \in 1..p : revents(found, fd_events[j]) # {}
      PROVE  p <= Cardinality(R)
  <2>1. p \in Nat /\ 1..p \subseteq R
    BY <1>1, <1>7
  <2>2. Cardinality(1..p) <= Cardinality(R)
    <3> HIDE DEF R
    <3> QED
      BY <2>1, <1>4, FS_Subset
  <2> QED
    BY <2>1, <2>2, <1>3
<1> HIDE DEF R
<1> QED
  BY <1>2, <1>4, <1>5, <1>6, <1>7

\* The events of descriptors: one for each of the first `ready` that has any.
FdReport(s, found) ==
  /\ s \in Seq(Event) /\ Len(s) \in Nat /\ Len(s) <= Len(input)
  /\ \A i \in 1..Len(s) : s[i].sub \in FdSubs /\ revents(found, s[i].sub) # {}
                          /\ s[i] = EventOf(found, s[i].sub)
  /\ \A i, j \in 1..Len(s) : i # j => s[i].sub # s[j].sub
  /\ \A p \in 1..ready(found) :
       revents(found, fd_events[p]) # {} => \E i \in 1..Len(s) : s[i].sub = fd_events[p]

LEMMA FdEventIs ==
  ASSUME input \in Inputs, NEW found
  PROVE  FdReport(poll_oneoff_handle_fd_event(found), found)
<1> DEFINE n == ready(found)
           S == {j \in 1..n : revents(found, fd_events[j]) # {}}
           reported == InOrder(S, n)
           s == poll_oneoff_handle_fd_event(found)
<1>1. /\ Len(input) \in Nat /\ Len(fd_events) \in Nat /\ Len(fd_events) <= Len(input)
      /\ n \in Nat /\ n <= Len(fd_events)
      /\ \A j \in 1..Len(fd_events) : fd_events[j] \in FdSubs
      /\ \A i, j \in 1..Len(fd_events) : i < j => fd_events[i] < fd_events[j]
      /\ \A j \in 1..Len(fd_events) : fd_events[j] \in Nat \ {0}
  BY InputIs, FdEventsIs, ReadyIs DEF Ordered, FdSubs
<1>2. Ordered(reported, S, n)
  <2> HIDE DEF S, n
  <2> QED
    BY <1>1, InOrderIs
<1>3. s = [i \in 1..Len(reported) |-> EventOf(found, fd_events[reported[i]])]
  BY DEF poll_oneoff_handle_fd_event
<1> HIDE DEF reported, s
<1>4. /\ Len(reported) \in Nat /\ Len(reported) <= n
      /\ \A i \in 1..Len(reported) : /\ reported[i] \in 1..Len(fd_events)
                                     /\ revents(found, fd_events[reported[i]]) # {}
      /\ \A i, j \in 1..Len(reported) : i < j => reported[i] < reported[j]
      /\ \A p \in 1..n : revents(found, fd_events[p]) # {} =>
           \E i \in 1..Len(reported) : reported[i] = p
  <2>1. /\ Len(reported) <= n /\ Len(reported) \in Nat
        /\ \A i \in 1..Len(reported) : reported[i] \in S /\ reported[i] \in 1..n
        /\ \A i, j \in 1..Len(reported) : i < j => reported[i] < reported[j]
        /\ \A p \in S : p \in 1..n => \E i \in 1..Len(reported) : reported[i] = p
    <3> HIDE DEF n, S
    <3> QED
      BY <1>2 DEF Ordered
  <2>2. /\ \A p \in S : revents(found, fd_events[p]) # {}
        /\ \A p \in 1..n : revents(found, fd_events[p]) # {} => p \in S
    OBVIOUS
  <2>3. 1..n \subseteq 1..Len(fd_events)
    <3> HIDE DEF n
    <3> QED
      BY <1>1
  <2> HIDE DEF n, S
  <2> QED
    BY <2>1, <2>2, <2>3
<1>5. \A k : EventOf(found, k).sub = k
  BY DEF EventOf
<1>6. \A k \in Nat \ {0} : EventOf(found, k) \in Event
  BY DEF EventOf, Event
<1>7. ASSUME NEW i \in 1..Len(reported)
      PROVE  /\ s[i] \in Event /\ s[i].sub \in FdSubs
             /\ s[i].sub = fd_events[reported[i]] /\ s[i] = EventOf(found, s[i].sub)
  BY <1>1, <1>3, <1>4, <1>5, <1>6
<1>8. s \in Seq(Event) /\ Len(s) = Len(reported)
  BY <1>3, <1>4, <1>7
<1>9. Len(s) <= Len(input)
  BY <1>1, <1>4, <1>8
<1>10. ASSUME NEW i \in 1..Len(s), NEW j \in 1..Len(s), i # j
       PROVE  s[i].sub # s[j].sub
  <2>1. ASSUME NEW a \in 1..Len(reported), NEW b \in 1..Len(reported), a < b
        PROVE  fd_events[reported[a]] < fd_events[reported[b]]
    BY <2>1, <1>1, <1>4
  <2>2. /\ s[i].sub = fd_events[reported[i]] /\ fd_events[reported[i]] \in Nat
        /\ s[j].sub = fd_events[reported[j]] /\ fd_events[reported[j]] \in Nat
    BY <1>1, <1>4, <1>7, <1>8
  <2>3. i < j \/ j < i
    BY <1>10, <1>8, <1>4
  <2> QED
    BY <2>1, <2>2, <2>3, <1>8
<1>11. ASSUME NEW p \in 1..n, revents(found, fd_events[p]) # {}
       PROVE  \E i \in 1..Len(s) : s[i].sub = fd_events[p]
  <2>1. PICK i \in 1..Len(reported) : reported[i] = p
    BY <1>4, <1>11
  <2>2. s[i].sub = fd_events[p]
    BY <2>1, <1>7
  <2> QED
    BY <2>1, <2>2, <1>8
<1>12. ASSUME NEW i \in 1..Len(s)
       PROVE  /\ s[i].sub \in FdSubs /\ revents(found, s[i].sub) # {}
              /\ s[i] = EventOf(found, s[i].sub)
  <2>1. i \in 1..Len(reported)
    BY <1>8
  <2>2. s[i].sub = fd_events[reported[i]] /\ revents(found, fd_events[reported[i]]) # {}
    BY <2>1, <1>4, <1>7
  <2> QED
    BY <2>1, <2>2, <1>7
<1>13. Len(s) \in Nat
  BY <1>4, <1>8
<1> QED
  BY <1>8, <1>9, <1>10, <1>11, <1>12, <1>13 DEF FdReport, s
----------------------------------------------------------------------------
(* The choice of the clock subscription *)

\* The delay of a clock subscription, rounded down to milliseconds.
LEMMA DelayIs ==
  ASSUME now \in Nat, offset \in Offsets, NEW s \in Clock,
         NEW q, q = wasi_clock_to_relative_ns_delay(s) \div NsPerMs
  PROVE  /\ q \in Nat
         /\ s.timeout < Clocked(s, now) + q * NsPerMs + NsPerMs
         /\ Deadline(s) < q * NsPerMs + NsPerMs + now
         /\ q * NsPerMs <= Deadline(s)
<1> DEFINE d == wasi_clock_to_relative_ns_delay(s)
           clocked == Clocked(s, now)
           deadline == Deadline(s)
           t == s.timeout
<1>1. /\ offset \in Int /\ t \in Nat /\ s.abstime \in BOOLEAN
      /\ NsPerMs \in Nat \ {0}
  BY PollAssumption DEF Clock
<1>2. /\ d \in Nat /\ clocked \in Int /\ deadline \in Nat
      /\ t <= clocked + d /\ deadline <= d + now /\ d <= deadline
  <2>1. CASE s.abstime
    BY <1>1, <2>1 DEF wasi_clock_to_relative_ns_delay, Clocked, Deadline
  <2>2. CASE ~s.abstime
    BY <1>1, <2>2 DEF wasi_clock_to_relative_ns_delay, Clocked, Deadline
  <2> QED
    BY <2>1, <2>2
<1> HIDE DEF d, clocked, deadline, t
<1>3. q \in Nat /\ q * NsPerMs \in Nat /\ q * NsPerMs <= d /\ d < q * NsPerMs + NsPerMs
  <2>1. ASSUME NEW x \in Nat, NEW m \in Nat \ {0}
        PROVE  /\ x \div m \in Nat /\ (x \div m) * m \in Nat
               /\ (x \div m) * m <= x /\ x < (x \div m) * m + m
    OBVIOUS
  <2> QED
    BY <2>1, <1>1, <1>2 DEF d
<1>4. t < clocked + q * NsPerMs + NsPerMs
  <2> DEFINE y == q * NsPerMs
  <2>1. y \in Nat /\ d < y + NsPerMs
    BY <1>3
  <2> HIDE DEF y
  <2>2. t < clocked + y + NsPerMs
    BY <2>1, <1>1, <1>2 DEF t
  <2> QED
    BY <2>2 DEF y
<1>5. deadline < q * NsPerMs + NsPerMs + now /\ q * NsPerMs <= deadline
  <2> DEFINE y == q * NsPerMs
  <2>1. y \in Nat /\ y <= d /\ d < y + NsPerMs
    BY <1>3
  <2> HIDE DEF y
  <2>2. deadline < y + NsPerMs + now /\ y <= deadline
    BY <2>1, <1>1, <1>2
  <2> QED
    BY <2>2 DEF y
<1> QED
  BY <1>3, <1>4, <1>5 DEF t, clocked, deadline

\* A call with no event written has nothing to say.
LEMMA NoEvents ==
  ASSUME events' = <<>>, pc' = "done" => nevents' = 0
  PROVE  EventsSound' /\ NotEarly' /\ EarliestFirst'
<1>1. Len(events') = 0
  BY SMT
<1>2. Events' = {} /\ TimedOut' = {}
  BY <1>1 DEF Events, TimedOut
<1>3. EventsSound'
  BY <1>1, <1>2 DEF EventsSound
<1>4. NotEarly' /\ EarliestFirst'
  BY <1>2 DEF NotEarly, EarliestFirst
<1> QED
  BY <1>3, <1>4

\* What the steps before the return have in common.
LEMMA NotOver ==
  ASSUME IInv, pc # "done", pc' # "done", UNCHANGED <<events, nevents, ret>>
  PROVE  EventsSound' /\ NotEarly' /\ EarliestFirst' /\ ReadyPrefix'
<1>1. events' = <<>>
  BY DEF IInv, Progress
<1>2. EventsSound' /\ NotEarly' /\ EarliestFirst'
  BY <1>1, NoEvents
<1>3. ReadyPrefix'
  BY DEF ReadyPrefix
<1> QED
  BY <1>2, <1>3

LEMMA StartInv ==
  ASSUME IInv, Start
  PROVE  IInv'
<1>1. TypeOK'
  BY DEF IInv, Start, time, TypeOK
<1>2. Progress'
  BY DEF IInv, Start, Progress, Waiting
<1>3. Chosen'
  BY DEF IInv, Start, time, Chosen, Choosing, Waiting, Clocked, Counts, Deadline
<1>4. CASE pc' = "clocks"
  <2>1. EventsSound' /\ NotEarly' /\ EarliestFirst' /\ ReadyPrefix'
    BY <1>4, NotOver DEF Start
  <2> QED
    BY <2>1, <1>1, <1>2, <1>3 DEF IInv
<1>5. CASE pc' = "done" /\ ret' = "EFAULT"
  <2>1. events' = <<>> /\ nevents' = 0
    BY DEF IInv, Progress, Start
  <2>2. EventsSound' /\ NotEarly' /\ EarliestFirst'
    BY <2>1, NoEvents
  <2>3. ReadyPrefix'
    BY <1>5 DEF ReadyPrefix
  <2> QED
    BY <2>2, <2>3, <1>1, <1>2, <1>3 DEF IInv
<1> QED
  BY <1>4, <1>5 DEF Start

LEMMA MinByKeyInv ==
  ASSUME IInv, min_by_key
  PROVE  IInv'
<1> DEFINE s == input[next]
           q == wasi_clock_to_relative_ns_delay(s) \div NsPerMs
           x == q * NsPerMs
           y == timeout.delay * NsPerMs
           t == input[timeout.sub]
<1>1. /\ pc = "clocks" /\ next <= Len(input) /\ pc' = pc /\ next' = next + 1
      /\ input' = input /\ now' = now /\ offset' = offset /\ UNCHANGED <<events, nevents, ret>>
      /\ timeout' = IF HasDelay(s) THEN Earliest(timeout, next) ELSE timeout
      /\ UNCHANGED <<signals, polled, due, seen>>
  BY DEF min_by_key, time
<1>2. /\ TypeOK /\ now \in Nat /\ offset \in Offsets /\ offset \in Int
      /\ Len(input) \in Nat /\ next \in 1..Len(input)
      /\ NsPerMs \in Nat \ {0}
  BY <1>1, InputIs, PollAssumption DEF IInv, TypeOK
<1>3. s \in Subscription
  BY <1>2, InputIs DEF TypeOK
<1>4. /\ timeout # NoTimeout => timeout.sub \in 1..(next - 1) /\ t.type = "CLOCK"
      /\ timeout # NoTimeout =>
           t.timeout < Clocked(t, now) + y + NsPerMs /\ Deadline(t) < y + NsPerMs + now
      /\ \A k \in 1..(next - 1) : Counts(k) => timeout # NoTimeout /\ y <= Deadline(input[k])
  BY <1>1 DEF IInv, Chosen, Choosing
<1>5. ASSUME HasDelay(s)
      PROVE  /\ q \in Nat /\ s.type = "CLOCK" /\ s \in Clock
             /\ s.timeout < Clocked(s, now) + x + NsPerMs
             /\ Deadline(s) < x + NsPerMs + now
             /\ x <= Deadline(s) /\ x \in Nat /\ Deadline(s) \in Int
  <2>1. s.type = "CLOCK"
    BY <1>5 DEF HasDelay
  <2>2. s \in Clock
    BY <2>1, <1>3 DEF Subscription, FdReadwrite, Clock
  <2> HIDE DEF s
  <2>3. q \in Nat /\ s.timeout < Clocked(s, now) + x + NsPerMs
        /\ Deadline(s) < x + NsPerMs + now /\ x <= Deadline(s)
    BY <2>2, <1>2, DelayIs
  <2>4. x \in Nat
    <3> HIDE DEF q
    <3> QED
      BY <2>3, <1>2
  <2>5. Deadline(s) \in Int
    BY <2>2, <1>2 DEF Deadline, Clock
  <2> QED
    BY <2>1, <2>2, <2>3, <2>4, <2>5
<1>6. timeout \in [sub : 0..Len(input), delay : Nat]
  BY <1>2 DEF TypeOK
<1>7. \A k \in 1..(next' - 1) : k = next \/ k \in 1..(next - 1)
  BY <1>1, <1>2
<1>8. /\ Clocked(t, now)' = Clocked(input'[timeout'.sub], now)
      /\ \A u : Deadline(u)' = Deadline(u) /\ Clocked(u, now)' = Clocked(u, now)
      /\ \A k : Counts(k)' = Counts(k)
  BY <1>1 DEF Clocked, Deadline, Counts
<1> HIDE DEF s, q
<1>9. timeout' \in [sub : 0..Len(input), delay : Nat]
  <2>1. CASE HasDelay(s)
    <3>1. [sub |-> next, delay |-> q] \in [sub : 0..Len(input), delay : Nat]
      BY <2>1, <1>2, <1>5
    <3>2. timeout' = timeout \/ timeout' = [sub |-> next, delay |-> q]
      BY <2>1, <1>1 DEF Earliest, q, s
    <3> QED
      BY <3>1, <3>2, <1>6
  <2>2. CASE ~HasDelay(s)
    BY <2>2, <1>1, <1>6
  <2> QED
    BY <2>1, <2>2
<1>10. TypeOK'
  BY <1>1, <1>2, <1>9 DEF TypeOK
<1>11. Progress'
  BY <1>1 DEF IInv, Progress, Waiting
<1>12. Choosing' /\ ~Waiting'
  BY <1>1 DEF Choosing, Waiting
<1>13. Counts(next) => HasDelay(s)
  BY <1>2, <1>3 DEF Counts, HasDelay, s, Subscription, Clock, FdReadwrite
<1>14. CASE timeout' = timeout
  <2>1. Counts(next) => timeout # NoTimeout /\ y <= Deadline(s)
    <3> SUFFICES ASSUME HasDelay(s)
                 PROVE  timeout # NoTimeout /\ y <= Deadline(s)
      BY <1>13
    <3>1. timeout' = IF timeout = NoTimeout \/ q < timeout.delay
                     THEN [sub |-> next, delay |-> q] ELSE timeout
      BY <1>1 DEF Earliest, q, s
    <3>2. next # 0 /\ [sub |-> next, delay |-> q] # NoTimeout
      BY <1>2 DEF NoTimeout
    <3>3. timeout # NoTimeout
      BY <3>1, <3>2, <1>14
    <3>4. ~(q < timeout.delay)
      <4>1. ASSUME q < timeout.delay
            PROVE  FALSE
        <5>1. timeout'.delay = q
          BY <3>1, <4>1
        <5> QED
          BY <5>1, <4>1, <1>14, <1>5, <1>6
      <4> QED
        BY <4>1
    <3>5. timeout.delay \in Nat /\ timeout.delay <= q
      BY <3>4, <1>5, <1>6
    <3>6. y <= x /\ y \in Nat
      <4>1. ASSUME NEW a \in Nat, NEW b \in Nat, NEW m \in Nat, a <= b
            PROVE  a * m <= b * m /\ a * m \in Nat
        BY <4>1
      <4> QED
        BY <4>1, <3>5, <1>2, <1>5
    <3> HIDE DEF x, y
    <3> QED
      BY <3>3, <3>6, <1>5
  <2>2. \A k \in 1..(next' - 1) : Counts(k) => timeout # NoTimeout /\ y <= Deadline(input[k])
    BY <2>1, <1>4, <1>7 DEF s
  <2>3. timeout # NoTimeout => timeout.sub \in 1..(next' - 1)
    BY <1>1, <1>2, <1>4
  <2> HIDE DEF y
  <2>4. Chosen'
    BY <2>2, <2>3, <1>1, <1>4, <1>8, <1>12, <1>14 DEF Chosen, y
  <2>5. EventsSound' /\ NotEarly' /\ EarliestFirst' /\ ReadyPrefix'
    BY <1>1, NotOver
  <2> QED
    BY <2>4, <2>5, <1>10, <1>11 DEF IInv
<1>15. CASE timeout' # timeout
  <2>1. /\ HasDelay(s) /\ timeout' = [sub |-> next, delay |-> q]
        /\ timeout = NoTimeout \/ q < timeout.delay
    BY <1>1, <1>15 DEF Earliest, q, s
  <2>2. timeout'.sub = next /\ timeout'.delay = q /\ timeout' # NoTimeout
    BY <2>1, <1>2 DEF NoTimeout
  <2>3. timeout # NoTimeout => x <= y /\ y \in Nat
    <3>1. ASSUME NEW a \in Nat, NEW b \in Nat, NEW m \in Nat, a < b
          PROVE  a * m <= b * m /\ b * m \in Nat
      BY <3>1
    <3> QED
      BY <3>1, <2>1, <1>2, <1>5, <1>6
  <2>4. ASSUME NEW k \in 1..(next - 1), Counts(k)
        PROVE  x <= Deadline(input[k])
    <3>1. y <= Deadline(input[k]) /\ timeout # NoTimeout
      BY <2>4, <1>4
    <3>2. Deadline(input[k]) \in Int
      <4>1. k \in 1..Len(input)
        BY <1>2
      <4>2. input[k] \in Clock
        BY <4>1, <2>4, <1>2, InputIs DEF TypeOK, Counts, Subscription, FdReadwrite
      <4> QED
        BY <4>2, <1>2 DEF Deadline, Clock
    <3> HIDE DEF x, y
    <3> QED
      BY <3>1, <3>2, <2>1, <2>3, <1>5
  <2>5. \A k \in 1..(next' - 1) : Counts(k) => x <= Deadline(input[k])
    BY <2>1, <2>4, <1>5, <1>7 DEF s
  <2>6. timeout'.sub \in 1..(next' - 1)
    BY <2>2, <1>1, <1>2
  <2>7. timeout'.delay * NsPerMs = x /\ input'[timeout'.sub] = s
    BY <2>2, <1>1 DEF s
  <2> HIDE DEF x, y
  <2>8. Chosen'
    BY <2>1, <2>2, <2>5, <2>6, <2>7, <1>1, <1>5, <1>8, <1>12 DEF Chosen
  <2>9. EventsSound' /\ NotEarly' /\ EarliestFirst' /\ ReadyPrefix'
    BY <1>1, NotOver
  <2> QED
    BY <2>8, <2>9, <1>10, <1>11 DEF IInv
<1> QED
  BY <1>14, <1>15
----------------------------------------------------------------------------
(* Waiting *)

LEMMA CollectInv ==
  ASSUME IInv, collect
  PROVE  IInv'
<1> DEFINE s == input[timeout.sub]
           y == timeout.delay * NsPerMs
<1>1. /\ pc = "clocks" /\ next > Len(input) /\ input' = input /\ next' = next
      /\ UNCHANGED <<now, offset, signals, due, seen>>
  BY DEF collect, time
<1>2. /\ TypeOK /\ now \in Nat /\ offset \in Int /\ Len(input) \in Nat
      /\ next = Len(input) + 1 /\ NsPerMs \in Nat \ {0} /\ CIntMax \in Nat
      /\ timeout \in [sub : 0..Len(input), delay : Nat]
  BY <1>1, InputIs, PollAssumption DEF IInv, TypeOK
<1>3. CASE fd_events = <<>> /\ timeout = NoTimeout
  <2>1. /\ pc' = "done" /\ ret' = "ESUCCESS" /\ events' = <<>> /\ nevents' = 0
        /\ UNCHANGED <<timeout, polled>>
    <3>1. Len(<<>>) = 0
      OBVIOUS
    <3> QED
      BY <1>3, <3>1 DEF collect, Done
  <2>2. TypeOK'
    <3>1. <<>> \in Seq(Event) /\ Len(<<>>) = 0
      OBVIOUS
    <3>2. events' \in Seq(Event) /\ Len(events') <= Len(input')
      BY <3>1, <2>1, <1>1, <1>2
    <3> QED
      BY <2>1, <3>2, <1>1, <1>2 DEF TypeOK
  <2>3. EventsSound' /\ NotEarly' /\ EarliestFirst'
    BY <2>1, NoEvents
  <2>4. ReadyPrefix'
    <3>1. \A k \in 1..Len(input) : input[k].type \notin FdTypes
      <4>1. Len(fd_events) = 0
        <5>1. Len(<<>>) = 0
          OBVIOUS
        <5> QED
          BY <5>1, <1>3
      <4> QED
        BY <4>1, <1>2, FdEventsIs DEF Ordered, FdSubs, TypeOK
    <3> QED
      BY <3>1, <1>1 DEF ReadyPrefix
  <2>5. Progress'
    BY <2>1 DEF Progress, Waiting
  <2>6. Chosen'
    BY <2>1, <1>1 DEF IInv, Chosen, Choosing, Waiting
  <2> QED
    BY <2>2, <2>3, <2>4, <2>5, <2>6 DEF IInv
<1>4. CASE ~(fd_events = <<>> /\ timeout = NoTimeout)
  <2>1. /\ pc' = "poll" /\ polled' = now /\ UNCHANGED <<events, nevents, ret>>
        /\ timeout' = [timeout EXCEPT !.delay = Least(@, CIntMax)]
    BY <1>4 DEF collect
  <2>2. /\ timeout'.sub = timeout.sub /\ timeout'.delay = Least(timeout.delay, CIntMax)
        /\ timeout' \in [sub : 0..Len(input), delay : Nat]
    BY <2>1, <1>2 DEF Least
  <2>3. timeout' # NoTimeout <=> timeout # NoTimeout
    <3>1. CASE timeout.sub = 0
      <4>1. timeout = NoTimeout
        BY <3>1, <1>2 DEF IInv, Chosen
      <4>2. timeout'.delay = 0 /\ timeout'.sub = 0
        BY <4>1, <2>2, <1>2 DEF NoTimeout, Least
      <4> QED
        BY <4>1, <4>2, <2>2 DEF NoTimeout
    <3>2. CASE timeout.sub # 0
      BY <3>2, <2>2 DEF NoTimeout
    <3> QED
      BY <3>1, <3>2
  <2>4. TypeOK'
    BY <2>1, <2>2, <1>1, <1>2 DEF TypeOK
  <2>5. Progress'
    BY <2>1, <1>1, <1>2 DEF IInv, Progress, Waiting
  <2>6. /\ timeout # NoTimeout => timeout.sub \in 1..(next - 1) /\ s.type = "CLOCK"
        /\ timeout # NoTimeout =>
             s.timeout < Clocked(s, now) + y + NsPerMs /\ Deadline(s) < y + NsPerMs + now
        /\ \A k \in 1..(next - 1) : Counts(k) => timeout # NoTimeout /\ y <= Deadline(input[k])
    BY <1>1 DEF IInv, Chosen, Choosing
  <2>7. input'[timeout'.sub] = s /\ next' - 1 = Len(input)
    BY <2>2, <1>1, <1>2
  <2>8. /\ \A u, t : Deadline(u)' = Deadline(u) /\ Clocked(u, t)' = Clocked(u, t')
        /\ \A k : Counts(k)' = Counts(k)
    BY <1>1 DEF Clocked, Deadline, Counts
  <2>9. timeout # NoTimeout =>
          s.timeout < Clocked(s, now) + timeout'.delay * NsPerMs + NsPerMs
            \/ timeout'.delay = CIntMax
    BY <2>2, <2>6 DEF Least
  <2>10. ASSUME NEW k \in 1..Len(input), Counts(k)
         PROVE  timeout # NoTimeout /\ Deadline(s) < Deadline(input[k]) + NsPerMs + now
    <3>1. k \in 1..(next - 1)
      BY <1>2
    <3>2. timeout # NoTimeout /\ y <= Deadline(input[k]) /\ Deadline(s) < y + NsPerMs + now
      BY <3>1, <2>6, <2>10
    <3>3. input[k] \in Clock
      BY <2>10, <1>2, InputIs DEF TypeOK, Counts, Subscription, FdReadwrite
    <3>4. timeout.sub \in 1..Len(input) /\ s.type = "CLOCK"
      BY <3>2, <2>6, <1>2
    <3>5. s \in Clock
      BY <3>4, <1>2, InputIs DEF TypeOK, Subscription, FdReadwrite
    <3> HIDE DEF s
    <3>6. Deadline(s) \in Int /\ Deadline(input[k]) \in Int
      BY <3>3, <3>5, <1>2 DEF Deadline, Clock
    <3>7. y \in Nat
      BY <1>2
    <3> HIDE DEF y
    <3> QED
      BY <3>2, <3>6, <3>7, <1>2
  <2>11. Waiting' /\ ~Choosing' /\ polled' = now
    BY <2>1 DEF Waiting, Choosing
  <2> HIDE DEF s, y
  <2>12. Chosen'
    BY <2>2, <2>3, <2>6, <2>7, <2>8, <2>9, <2>10, <2>11, <1>1, <1>2 DEF Chosen
  <2>13. EventsSound' /\ NotEarly' /\ EarliestFirst' /\ ReadyPrefix'
    BY <2>1, <1>1, NotOver
  <2> QED
    BY <2>4, <2>5, <2>12, <2>13 DEF IInv
<1> QED
  BY <1>3, <1>4

LEMMA PollInv ==
  ASSUME IInv, poll
  PROVE  IInv'
<1>1. /\ pc = "poll" /\ pc' = "wait"
      /\ due' = IF poll_timeout = -1 THEN NoDue ELSE now + poll_timeout * NsPerMs
      /\ UNCHANGED <<now, offset, signals, input, next, timeout, polled, seen,
                     events, nevents, ret>>
  BY DEF poll, time
<1>2. /\ now \in Nat /\ polled \in Nat /\ timeout.delay \in Nat /\ NsPerMs \in Nat
      /\ timeout.delay * NsPerMs \in Nat /\ polled <= now
  BY <1>1, PollAssumption DEF IInv, TypeOK, Progress, Waiting
<1>3. due' = NoDue \/ (timeout # NoTimeout /\ due' = now + timeout.delay * NsPerMs)
  BY <1>1 DEF poll_timeout
<1>4. due' \in Nat \cup {NoDue}
  BY <1>2, <1>3
<1>5. TypeOK'
  BY <1>1, <1>4 DEF IInv, TypeOK
<1>6. Progress'
  <2>1. due' # NoDue => timeout # NoTimeout /\ due' >= polled + timeout.delay * NsPerMs
    <3> DEFINE y == timeout.delay * NsPerMs
    <3> HIDE DEF y
    <3>1. y \in Nat /\ (due' = NoDue \/ (timeout # NoTimeout /\ due' = now + y))
      BY <1>2, <1>3 DEF y
    <3>2. due' # NoDue => timeout # NoTimeout /\ due' >= polled + y
      BY <3>1, <1>2
    <3> QED
      BY <3>2 DEF y
  <2> QED
    BY <2>1, <1>1 DEF IInv, Progress, Waiting
<1>7. Chosen'
  BY <1>1 DEF IInv, Chosen, Choosing, Waiting, Clocked, Counts, Deadline
<1>8. EventsSound' /\ NotEarly' /\ EarliestFirst' /\ ReadyPrefix'
  BY <1>1, NotOver
<1> QED
  BY <1>5, <1>6, <1>7, <1>8 DEF IInv

LEMMA PollInterruptedInv ==
  ASSUME IInv, poll_interrupted
  PROVE  IInv'
<1>1. /\ pc = "wait" /\ pc' = "poll" /\ signals' = signals + 1 /\ signals < MaxSignals
      /\ UNCHANGED <<now, offset, input, next, timeout, polled, due, seen,
                     events, nevents, ret>>
  BY DEF poll_interrupted
<1>2. TypeOK'
  BY <1>1, PollAssumption DEF IInv, TypeOK
<1>3. Progress'
  BY <1>1 DEF IInv, Progress, Waiting
<1>4. Chosen'
  BY <1>1 DEF IInv, Chosen, Choosing, Waiting, Clocked, Counts, Deadline
<1>5. EventsSound' /\ NotEarly' /\ EarliestFirst' /\ ReadyPrefix'
  BY <1>1, NotOver
<1> QED
  BY <1>2, <1>3, <1>4, <1>5 DEF IInv

LEMMA TickInv ==
  ASSUME IInv, Tick
  PROVE  IInv'
<1>1. /\ pc \in {"clocks", "wait"} /\ now' = now + 1
      /\ UNCHANGED <<offset, signals, input, pc, next, timeout, polled, due, seen,
                     events, nevents, ret>>
  BY DEF Tick
<1>2. /\ now \in Nat /\ offset \in Int /\ Len(input) \in Nat /\ input \in Inputs
      /\ timeout \in [sub : 0..Len(input), delay : Nat] /\ NsPerMs \in Nat
      /\ next \in 1..(Len(input) + 1) /\ polled \in Nat
  BY InputIs, PollAssumption DEF IInv, TypeOK
<1>3. TypeOK'
  BY <1>1, <1>2 DEF IInv, TypeOK
<1>4. Progress'
  BY <1>1, <1>2 DEF IInv, Progress, Waiting
<1>5. Chosen'
  <2> DEFINE s == input[timeout.sub]
             y == timeout.delay * NsPerMs
  <2>1. ASSUME timeout # NoTimeout, s.timeout < Clocked(s, now) + y + NsPerMs,
               Deadline(s) < y + NsPerMs + now, s.type = "CLOCK", timeout.sub \in 1..(next - 1)
        PROVE  s.timeout < Clocked(s, now + 1) + y + NsPerMs
               /\ Deadline(s) < y + NsPerMs + (now + 1)
    <3>1. y \in Nat
      BY <1>2
    <3>2. timeout.sub \in 1..Len(input)
      BY <2>1, <1>2
    <3>3. s \in Clock
      BY <2>1, <3>2, <1>2, InputIs DEF Subscription, FdReadwrite
    <3> HIDE DEF s, y
    <3>4. Deadline(s) \in Int /\ s.timeout \in Nat /\ s.abstime \in BOOLEAN
      BY <3>3, <1>2 DEF Deadline, Clock
    <3>5. Deadline(s) < y + NsPerMs + (now + 1)
      BY <2>1, <3>1, <3>4, <1>2
    <3>6. CASE s.abstime
      BY <2>1, <3>1, <3>4, <3>5, <3>6, <1>2 DEF Clocked
    <3>7. CASE ~s.abstime
      BY <2>1, <3>1, <3>4, <3>5, <3>7, <1>2 DEF Clocked
    <3> QED
      BY <3>6, <3>7
  <2>2. /\ \A u : Deadline(u)' = Deadline(u) /\ Clocked(u, now)' = Clocked(u, now + 1)
        /\ \A u : Clocked(u, polled)' = Clocked(u, polled)
        /\ \A k : Counts(k)' = Counts(k)
    BY <1>1 DEF Clocked, Deadline, Counts
  <2>3. (Choosing' <=> Choosing) /\ (Waiting' <=> Waiting)
    BY <1>1 DEF Choosing, Waiting
  <2>4. Chosen
    BY DEF IInv
  <2> QED
    BY <2>1, <2>2, <2>3, <2>4, <1>1 DEF Chosen
<1>6. EventsSound' /\ NotEarly' /\ EarliestFirst' /\ ReadyPrefix'
  BY <1>1, NotOver
<1> QED
  BY <1>3, <1>4, <1>5, <1>6 DEF IInv
----------------------------------------------------------------------------
(* The return *)

LEMMA PollFailsInv ==
  ASSUME IInv, poll_fails
  PROVE  IInv'
<1>1. /\ pc' = "done" /\ ret' = "EHOST" /\ events' = <<>> /\ nevents' = nevents
      /\ pc = "wait"
      /\ UNCHANGED <<now, offset, signals, input, next, timeout, polled, due, seen>>
  BY DEF poll_fails, Done, time
<1>2. nevents = 0
  BY <1>1 DEF IInv, Progress
<1>3. TypeOK'
  <2>1. <<>> \in Seq(Event) /\ Len(<<>>) = 0
    OBVIOUS
  <2>2. Len(input) \in Nat
    BY InputIs DEF IInv, TypeOK
  <2>3. events' \in Seq(Event) /\ Len(events') <= Len(input')
    BY <2>1, <2>2, <1>1
  <2> QED
    BY <2>3, <1>1 DEF IInv, TypeOK
<1>4. Progress'
  BY <1>1 DEF Progress, Waiting
<1>5. Chosen'
  BY <1>1 DEF IInv, Chosen, Choosing, Waiting
<1>6. EventsSound' /\ NotEarly' /\ EarliestFirst'
  BY <1>1, <1>2, NoEvents
<1>7. ReadyPrefix'
  BY <1>1 DEF ReadyPrefix
<1> QED
  BY <1>3, <1>4, <1>5, <1>6, <1>7 DEF IInv

\* What the two returns with events have in common.
LEMMA Returning ==
  ASSUME IInv, pc = "wait", NEW found \in [Raw -> Conditions], seen' = found, NEW s,
         Done("ESUCCESS", s), s \in Seq(Event), Len(s) <= Len(input),
         UNCHANGED <<time, input, next, timeout, polled, due>>
  PROVE  /\ pc' = "done" /\ ret' = "ESUCCESS" /\ events' = s /\ nevents' = Len(s)
         /\ UNCHANGED <<now, offset, input>>
         /\ TypeOK' /\ Progress' /\ Chosen'
         /\ \A u : revents(seen, u)' = revents(found, u)
<1>1. /\ pc' = "done" /\ ret' = "ESUCCESS" /\ events' = s /\ nevents' = Len(s)
      /\ UNCHANGED <<now, offset, signals, input, next, timeout, polled, due>>
  BY DEF Done, time
<1>2. Len(s) \in Nat
  OBVIOUS
<1>3. TypeOK'
  BY <1>1, <1>2 DEF IInv, TypeOK
<1>4. Progress'
  BY <1>1 DEF Progress, Waiting
<1>5. Chosen'
  BY <1>1 DEF IInv, Chosen, Choosing, Waiting
<1>6. \A u : revents(seen, u)' = revents(found, u)
  BY <1>1 DEF revents, Asked
<1> QED
  BY <1>1, <1>3, <1>4, <1>5, <1>6

LEMMA PollReadyInv ==
  ASSUME IInv, poll_ready
  PROVE  IInv'
<1>1. PICK found \in [Raw -> Conditions] :
        /\ ready(found) > 0 /\ seen' = found
        /\ Done("ESUCCESS", poll_oneoff_handle_fd_event(found))
  BY DEF poll_ready
<1> DEFINE s == poll_oneoff_handle_fd_event(found)
<1>2. input \in Inputs /\ Len(input) \in Nat
  BY InputIs DEF IInv, TypeOK
<1>3. FdReport(s, found)
  BY <1>2, FdEventIs
<1> HIDE DEF s
<1>4. /\ s \in Seq(Event) /\ Len(s) \in Nat /\ Len(s) <= Len(input)
      /\ \A i \in 1..Len(s) : s[i].sub \in FdSubs /\ revents(found, s[i].sub) # {}
                              /\ s[i] = EventOf(found, s[i].sub)
      /\ \A i, j \in 1..Len(s) : i # j => s[i].sub # s[j].sub
      /\ \A p \in 1..ready(found) :
           revents(found, fd_events[p]) # {} => \E i \in 1..Len(s) : s[i].sub = fd_events[p]
  BY <1>3 DEF FdReport
<1>5. /\ pc' = "done" /\ ret' = "ESUCCESS" /\ events' = s /\ nevents' = Len(s)
      /\ now' = now /\ offset' = offset /\ input' = input
      /\ TypeOK' /\ Progress' /\ Chosen'
      /\ \A u : revents(seen, u)' = revents(found, u)
  BY <1>1, <1>4, Returning DEF poll_ready, s
<1>6. Events' = {s[j] : j \in 1..Len(s)}
  BY <1>5 DEF Events
<1>7. ASSUME NEW e \in Events'
      PROVE  /\ input'[e.sub].type \in FdTypes
             /\ e = EventOf(found, e.sub)
  BY <1>4, <1>5, <1>6 DEF FdSubs
<1>8. TimedOut' = {}
  BY <1>7 DEF TimedOut, FdTypes
<1>9. ASSUME NEW e \in Events'
      PROVE  LET t == input'[e.sub] IN
             /\ t.type # "INVALID" /\ t.type # "CLOCK"
             /\ e.error = "EBADF" <=> "POLLNVAL" \in seen'[t.fd]
             /\ e.error = "ESUCCESS" /\ ~e.hangup =>
                  (IF t.type = "FD_READ" THEN "POLLIN" ELSE "POLLOUT") \in seen'[t.fd]
  <2> DEFINE k == e.sub
             t == input[k]
             r == revents(found, k)
             asked == IF t.type = "FD_READ" THEN "POLLIN" ELSE "POLLOUT"
  <2>1. t.type \in FdTypes /\ e = EventOf(found, k)
    BY <1>5, <1>7
  <2>2. r = found[t.fd] \cap {asked, "POLLERR", "POLLHUP", "POLLNVAL"} /\ r # {}
    <3>1. r # {}
      BY <1>4, <1>6
    <3> QED
      BY <3>1 DEF revents, Asked
  <2>3. /\ e.error = IF "POLLNVAL" \in r THEN "EBADF"
                     ELSE IF "POLLERR" \in r THEN "EIO" ELSE "ESUCCESS"
        /\ e.hangup = (r \cap {"POLLNVAL", "POLLERR", "POLLHUP"} # {})
    <3> HIDE DEF r
    <3>1. EventOf(found, k).error = IF "POLLNVAL" \in r THEN "EBADF"
                                    ELSE IF "POLLERR" \in r THEN "EIO" ELSE "ESUCCESS"
      BY DEF EventOf, r
    <3>2. EventOf(found, k).hangup = (r \cap {"POLLNVAL", "POLLERR", "POLLHUP"} # {})
      BY Zenon DEF EventOf, r
    <3> QED
      BY <3>1, <3>2, <2>1
  <2> HIDE DEF r, k, t
  <2>4. e.error = "EBADF" <=> "POLLNVAL" \in found[t.fd]
    BY <2>2, <2>3
  <2>5. ASSUME e.error = "ESUCCESS", ~e.hangup
        PROVE  asked \in found[t.fd]
    <3>1. r \cap {"POLLNVAL", "POLLERR", "POLLHUP"} = {}
      BY <2>3, <2>5, Zenon
    <3> QED
      BY <3>1, <2>2
  <2>6. t.type # "INVALID" /\ t.type # "CLOCK"
    BY <2>1 DEF FdTypes
  <2>7. input'[e.sub] = t /\ seen' = found
    BY <1>1, <1>5 DEF t, k
  <2> QED
    BY <2>4, <2>5, <2>6, <2>7
<1>10. EventsSound'
  <2>1. \A j, k \in 1..Len(events') : j # k => events'[j].sub # events'[k].sub
    BY <1>4, <1>5
  <2> QED
    BY <2>1, <1>5, <1>8, <1>9 DEF EventsSound
<1>11. NotEarly' /\ EarliestFirst'
  BY <1>8 DEF NotEarly, EarliestFirst
<1>12. ReadyPrefix'
  <2>1. ASSUME NEW k \in 1..Len(input), input[k].type \in FdTypes,
               \A j \in 1..k : input[j].type \in FdTypes => revents(found, j) # {}
        PROVE  \E e \in Events' : e.sub = k
    <3>1. /\ Len(fd_events) \in Nat
          /\ \A i \in 1..Len(fd_events) : fd_events[i] \in FdSubs
          /\ \A i, j \in 1..Len(fd_events) : i < j => fd_events[i] < fd_events[j]
          /\ \A m \in FdSubs : m \in 1..Len(input) => \E i \in 1..Len(fd_events) : fd_events[i] = m
      BY <1>2, FdEventsIs DEF Ordered
    <3>2. PICK p \in 1..Len(fd_events) : fd_events[p] = k
      BY <3>1, <2>1 DEF FdSubs
    <3>3. ASSUME NEW j \in 1..p
          PROVE  revents(found, fd_events[j]) # {}
      <4>1. j \in 1..Len(fd_events) /\ (j = p \/ j < p)
        BY <3>1
      <4>2. fd_events[j] \in FdSubs /\ (fd_events[j] = k \/ fd_events[j] < k)
        BY <4>1, <3>1, <3>2
      <4>3. fd_events[j] \in 1..k /\ input[fd_events[j]].type \in FdTypes
        BY <4>2, <1>2 DEF FdSubs
      <4> QED
        BY <4>3, <2>1
    <3>4. p <= ready(found) /\ ready(found) \in Nat
      BY <3>3, <1>2, ReadyIs
    <3>5. p \in 1..ready(found) /\ revents(found, fd_events[p]) # {}
      <4>1. p \in 1..p
        BY <3>1
      <4> QED
        BY <4>1, <3>1, <3>3, <3>4
    <3>6. PICK i \in 1..Len(s) : s[i].sub = fd_events[p]
      BY <3>5, <1>4
    <3> QED
      BY <3>2, <3>6, <1>6
  <2> QED
    BY <2>1, <1>5 DEF ReadyPrefix
<1> QED
  BY <1>5, <1>10, <1>11, <1>12 DEF IInv

LEMMA PollTimedOutInv ==
  ASSUME IInv, poll_timed_out
  PROVE  IInv'
<1>1. PICK found \in [Raw -> Conditions] : ready(found) = 0 /\ seen' = found
  BY DEF poll_timed_out
<1>2. /\ pc = "wait" /\ due # NoDue /\ now >= due
      /\ Done("ESUCCESS", poll_oneoff_handle_timeout_event)
      /\ UNCHANGED <<time, input, next, timeout, polled, due>>
  BY DEF poll_timed_out
<1> DEFINE t == input[timeout.sub]
           y == timeout.delay * NsPerMs
           event == [sub |-> timeout.sub, error |-> "ESUCCESS", hangup |-> FALSE]
           s == <<event>>
<1>3. /\ TypeOK /\ input \in Inputs /\ Len(input) \in Nat /\ now \in Nat /\ polled \in Nat
      /\ offset \in Int /\ timeout \in [sub : 0..Len(input), delay : Nat]
      /\ NsPerMs \in Nat \ {0} /\ CIntMax \in Nat \ {0} /\ due \in Nat
  BY <1>2, InputIs, PollAssumption DEF IInv, TypeOK
<1>4. /\ timeout # NoTimeout /\ due >= polled + y /\ polled <= now /\ next = Len(input) + 1
  BY <1>2 DEF IInv, Progress, Waiting
<1>5. /\ timeout.sub \in 1..(next - 1) /\ t.type = "CLOCK"
      /\ t.timeout < Clocked(t, polled) + y + NsPerMs \/ timeout.delay = CIntMax
      /\ \A k \in 1..Len(input) :
           Counts(k) => Deadline(t) < Deadline(input[k]) + NsPerMs + polled
  BY <1>2, <1>4 DEF IInv, Chosen, Waiting
<1>6. timeout.sub \in 1..Len(input) /\ timeout.sub \in Nat \ {0}
  BY <1>3, <1>4, <1>5
<1>7. event \in Event
  BY <1>6 DEF Event
<1>8. poll_oneoff_handle_timeout_event = s
  BY <1>4 DEF poll_oneoff_handle_timeout_event
<1>9. s \in Seq(Event) /\ Len(s) = 1 /\ s[1] = event /\ Len(s) <= Len(input)
  <2> HIDE DEF event
  <2> QED
    BY <1>3, <1>6, <1>7
<1> HIDE DEF s
<1>10. /\ pc' = "done" /\ ret' = "ESUCCESS" /\ events' = s /\ nevents' = Len(s)
       /\ now' = now /\ offset' = offset /\ input' = input /\ polled' = polled
       /\ TypeOK' /\ Progress' /\ Chosen'
       /\ \A u : revents(seen, u)' = revents(found, u)
  <2>1. Done("ESUCCESS", s)
    BY <1>2, <1>8
  <2> QED
    BY <2>1, <1>1, <1>2, <1>9, Returning
<1>11. Events' = {event} /\ \A j \in 1..Len(events') : j = 1
  <2>1. Events' = {s[j] : j \in 1..1} /\ Len(events') = 1
    BY <1>9, <1>10 DEF Events
  <2>2. \A j \in 1..1 : j = 1
    OBVIOUS
  <2>3. 1 \in 1..1
    OBVIOUS
  <2> HIDE DEF event
  <2> QED
    BY <2>1, <2>2, <2>3, <1>9
<1>12. TimedOut' = {event} /\ input'[event.sub] = t
  BY <1>5, <1>10, <1>11 DEF TimedOut
<1>13. \A k \in 1..Len(input) : input[k].type \in FdTypes => revents(found, k) = {}
  BY <1>1, <1>3, ReadyIs DEF FdSubs
<1>14. EventsSound'
  <2>1. \A j, k \in 1..Len(events') : j = k
    BY <1>11
  <2>2. t.type = "CLOCK" /\ t.type \notin FdTypes /\ t.type # "INVALID"
    BY <1>5 DEF FdTypes
  <2>3. \A e \in Events' : input'[e.sub] = t
    BY <1>11, <1>12
  <2> HIDE DEF t, event
  <2> QED
    BY <2>1, <2>2, <2>3, <1>9, <1>10, <1>13 DEF EventsSound
<1>15. t \in Clock
  BY <1>3, <1>5, <1>6, InputIs DEF Subscription, FdReadwrite
<1>16. NotEarly'
  <2>1. t.timeout \in Nat /\ t.abstime \in BOOLEAN
    BY <1>15 DEF Clock
  <2>2. y \in Nat
    BY <1>3
  <2>3. (IF t.abstime THEN now + offset ELSE now) + NsPerMs > t.timeout
          \/ now >= CIntMax * NsPerMs
    <3>1. CASE timeout.delay = CIntMax
      <4>1. y = CIntMax * NsPerMs
        BY <3>1
      <4> HIDE DEF y
      <4> QED
        BY <4>1, <2>2, <1>2, <1>3, <1>4
    <3>2. CASE t.timeout < Clocked(t, polled) + y + NsPerMs
      <4> HIDE DEF y, t
      <4>1. CASE t.abstime
        BY <4>1, <3>2, <2>1, <2>2, <1>2, <1>3, <1>4 DEF Clocked
      <4>2. CASE ~t.abstime
        BY <4>2, <3>2, <2>1, <2>2, <1>2, <1>3, <1>4 DEF Clocked
      <4> QED
        BY <4>1, <4>2, <2>1
    <3> QED
      BY <3>1, <3>2, <1>5
  <2> HIDE DEF t, event
  <2> QED
    BY <2>3, <1>10, <1>12 DEF NotEarly
<1>17. EarliestFirst'
  <2>1. \A u : Deadline(u)' = Deadline(u)
    BY <1>10 DEF Deadline
  <2>2. \A k \in 1..Len(input) : input[k].type = "CLOCK" /\ (input[k].abstime => offset >= 0)
          => Deadline(t) < Deadline(input[k]) + NsPerMs + polled
    BY <1>5 DEF Counts
  <2> HIDE DEF t, event
  <2> QED
    BY <2>1, <2>2, <1>10, <1>12 DEF EarliestFirst
<1>18. ReadyPrefix'
  <2>1. ASSUME NEW k \in 1..Len(input), input[k].type \in FdTypes,
               \A j \in 1..k : input[j].type \in FdTypes => revents(found, j) # {}
        PROVE  FALSE
    <3>1. k \in 1..k
      BY <1>3
    <3> QED
      BY <3>1, <2>1, <1>13
  <2> QED
    BY <2>1, <1>10 DEF ReadyPrefix
<1> QED
  BY <1>10, <1>14, <1>16, <1>17, <1>18 DEF IInv

----------------------------------------------------------------------------
(* The invariant *)

LEMMA InitIInv == Init => IInv
<1> SUFFICES ASSUME Init
             PROVE  IInv
  OBVIOUS
<1>1. /\ now = 0 /\ offset \in Offsets /\ signals = 0 /\ input \in Inputs
      /\ pc = "start" /\ next = 1 /\ timeout = NoTimeout /\ polled = 0 /\ due = NoDue
      /\ seen = [r \in Raw |-> {}] /\ events = <<>> /\ nevents = 0 /\ ret = "ESUCCESS"
  BY DEF Init
<1>2. Len(input) \in Nat
  BY <1>1, InputIs
<1>3. TypeOK
  <2>1. <<>> \in Seq(Event) /\ Len(<<>>) = 0
    OBVIOUS
  <2>2. events \in Seq(Event) /\ Len(events) <= Len(input)
    BY <2>1, <1>1, <1>2
  <2>3. timeout \in [sub : 0..Len(input), delay : Nat]
    BY <1>1, <1>2 DEF NoTimeout
  <2>4. seen \in [Raw -> Conditions]
    BY <1>1, PollAssumption
  <2>5. signals \in 0..MaxSignals
    BY <1>1, PollAssumption
  <2> QED
    BY <2>2, <2>3, <2>4, <2>5, <1>1, <1>2 DEF TypeOK
<1>4. Progress /\ Chosen
  BY <1>1 DEF Progress, Chosen, Choosing, Waiting
<1>5. Events = {} /\ TimedOut = {} /\ Len(events) = 0
  <2>1. Len(<<>>) = 0
    OBVIOUS
  <2> QED
    BY <2>1, <1>1 DEF Events, TimedOut
<1>6. EventsSound /\ NotEarly /\ EarliestFirst /\ ReadyPrefix
  BY <1>1, <1>5 DEF EventsSound, NotEarly, EarliestFirst, ReadyPrefix
<1> QED
  BY <1>3, <1>4, <1>6 DEF IInv

LEMMA StutterIInv ==
  ASSUME IInv, UNCHANGED vars
  PROVE  IInv'
<1> USE DEF vars, time
<1>1. TypeOK'
  BY DEF IInv, TypeOK
<1>2. Progress' /\ Chosen'
  BY DEF IInv, Progress, Chosen, Choosing, Waiting, Clocked, Counts, Deadline
<1>3. /\ Events' = Events /\ TimedOut' = TimedOut
      /\ \A u : revents(seen, u)' = revents(seen, u) /\ Deadline(u)' = Deadline(u)
  BY DEF Events, TimedOut, revents, Asked, Deadline
<1>4. EventsSound'
  BY <1>3 DEF IInv, EventsSound
<1>5. NotEarly' /\ EarliestFirst'
  BY <1>3 DEF IInv, NotEarly, EarliestFirst
<1>6. ReadyPrefix'
  BY <1>3 DEF IInv, ReadyPrefix
<1> QED
  BY <1>1, <1>2, <1>4, <1>5, <1>6 DEF IInv

LEMMA NextIInv == IInv /\ [Next]_vars => IInv'
<1> SUFFICES ASSUME IInv, [Next]_vars
             PROVE  IInv'
  OBVIOUS
<1>1. CASE Start
  BY <1>1, StartInv
<1>2. CASE min_by_key
  BY <1>2, MinByKeyInv
<1>3. CASE collect
  BY <1>3, CollectInv
<1>4. CASE poll
  BY <1>4, PollInv
<1>5. CASE poll_interrupted
  BY <1>5, PollInterruptedInv
<1>6. CASE poll_fails
  BY <1>6, PollFailsInv
<1>7. CASE poll_timed_out
  BY <1>7, PollTimedOutInv
<1>8. CASE poll_ready
  BY <1>8, PollReadyInv
<1>9. CASE Tick
  BY <1>9, TickInv
<1>10. CASE Returned \/ UNCHANGED vars
  BY <1>10, StutterIInv DEF Returned
<1> QED
  BY <1>1, <1>2, <1>3, <1>4, <1>5, <1>6, <1>7, <1>8, <1>9, <1>10 DEF Next, Handler, Kernel

LEMMA Invariance == Spec => []IInv
  BY InitIInv, NextIInv, PTL DEF Spec

\* The variables keep their types, and the events fit in the guest's buffer,
\* which has a place per subscription.
THEOREM TypeCorrect == Spec => []TypeOK
  BY Invariance, PTL DEF IInv

\* The events poll_oneoff reports are true, each of another subscription, and
\* as many as the guest reads.
THEOREM SoundEvents == Spec => []EventsSound
  BY Invariance, PTL DEF IInv

\* A clock event is at most the rounding early, or poll(2) waited its longest.
THEOREM NoEarlyEvent == Spec => []NotEarly
  BY Invariance, PTL DEF IInv

\* The clock event is that of the first deadline, up to the rounding and the
\* time that passed while the delays were computed.
THEOREM FirstDeadline == Spec => []EarliestFirst
  BY Invariance, PTL DEF IInv

\* A ready descriptor is reported if those of all subscriptions before it are.
THEOREM PrefixReported == Spec => []ReadyPrefix
  BY Invariance, PTL DEF IInv
=============================================================================
