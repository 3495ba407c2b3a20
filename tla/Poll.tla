--------------------------------- MODULE Poll ---------------------------------
(***************************************************************************)
(* One poll_oneoff call: src/src/hostcalls/misc.rs and, on Unix,           *)
(* src/src/sys/unix/hostcalls_impl/misc.rs.  The clock subscriptions       *)
(* become the timeout of poll(2), the others its descriptors.  Time passes *)
(* and signals arrive between any two steps.  Descriptors change at any    *)
(* time, so that what poll(2) finds has nothing to do with what it or      *)
(* anybody else found before.                                              *)
(*                                                                         *)
(* Left out: userdata (an event names its subscription by position),       *)
(* nbytes, clock_id and precision, which the code never reads, and how     *)
(* guest memory is decoded (EFAULT stands for any failure to).             *)
(***************************************************************************)
EXTENDS Integers, Sequences, FiniteSets

CONSTANTS
  Raw,           \* descriptor numbers a subscription may name
  Inputs,        \* the subscription lists the guest may pass
  Conditions,    \* what the kernel may report of a descriptor
  Offsets,       \* SystemTime minus the host's monotonic clock, in ns
  NsPerMs,       \* 1_000_000
  CIntMax,       \* c_int::max_value()
  MaxNow,        \* bound on the time that passes before the first poll(2)
  MaxLate,       \* bound on how late poll(2) notices its timeout
  MaxSignals     \* bound on the signals that interrupt poll(2)

Flags == {"POLLIN", "POLLOUT", "POLLERR", "POLLHUP", "POLLNVAL"}

\* A decoded subscription; "INVALID" is one dec_subscription refuses.
Clock == [type : {"CLOCK"}, abstime : BOOLEAN, timeout : Nat]
FdReadwrite == [type : {"FD_READ", "FD_WRITE"}, fd : Raw]
Subscription == Clock \cup FdReadwrite \cup [type : {"INVALID"}]

Event == [sub : Nat \ {0}, error : {"ESUCCESS", "EBADF", "EIO"}, hangup : BOOLEAN]

ASSUME PollAssumption ==
  /\ Inputs \subseteq Seq(Subscription)
  /\ Conditions \subseteq SUBSET Flags /\ {} \in Conditions
  /\ Offsets \subseteq Int
  /\ {NsPerMs, CIntMax} \subseteq Nat \ {0}
  /\ {MaxNow, MaxLate, MaxSignals} \subseteq Nat

VARIABLES
  now,         \* the host's monotonic clock, in ns, 0 at the call
  offset,      \* SystemTime is now + offset
  signals,     \* signals so far
  input,       \* the guest's subscriptions
  pc,          \* "start", "clocks", "poll", "wait" or "done"
  next,        \* the subscription min_by_key looks at
  timeout,     \* the clock subscription with the least delay so far
  polled,      \* when poll(2) was first called
  due,         \* when poll(2) times out, or NoDue
  seen,        \* what poll(2) found of each descriptor when it returned
  events,      \* the events written to the guest's memory
  nevents,     \* their number as the guest reads it
  ret

time == <<now, offset, signals>>
vars == <<time, input, pc, next, timeout, polled, due, seen, events, nevents, ret>>

NoTimeout == [sub |-> 0, delay |-> 0]
NoDue == -1

----------------------------------------------------------------------------
(* poll_oneoff of hostcalls/misc.rs: the checks before the call *)

Init ==
  /\ now = 0 /\ offset \in Offsets
  /\ signals = 0
  /\ input \in Inputs
  /\ pc = "start" /\ next = 1 /\ timeout = NoTimeout
  /\ polled = 0 /\ due = NoDue
  /\ seen = [r \in Raw |-> {}]
  /\ events = <<>> /\ nevents = 0 /\ ret = "ESUCCESS"

Start ==
  /\ pc = "start"
  /\ \/ pc' = "clocks" /\ ret' = ret
     \/ pc' = "done" /\ ret' = "EFAULT"
  /\ UNCHANGED <<time, input, next, timeout, polled, due, seen, events, nevents>>

\* The return to the guest: the error, or the number of events.
Done(errno, found) ==
  /\ pc' = "done" /\ ret' = errno
  /\ events' = found
  /\ nevents' = IF errno = "ESUCCESS" THEN Len(found) ELSE nevents

----------------------------------------------------------------------------
(* poll_oneoff of sys/unix/hostcalls_impl/misc.rs *)

Least(a, b) == IF a < b THEN a ELSE b

\* Mutant: The flag for absolute times is read the wrong way round.
wasi_clock_to_relative_ns_delay_flag(s) ==
  IF s.abstime THEN s.timeout
  ELSE IF s.timeout > now + offset THEN s.timeout - (now + offset)
  ELSE 0

\* The delay of a clock subscription, in ns.
wasi_clock_to_relative_ns_delay(s) ==
  IF ~s.abstime THEN s.timeout
  ELSE IF s.timeout > now + offset THEN s.timeout - (now + offset)
  ELSE 0

\* SystemTime before the epoch is an error, which drops the subscription.
HasDelay(s) == s.type = "CLOCK" /\ (s.abstime => now + offset >= 0)

\* Mutant: The event is given to the subscription after its own.
Earliest_off_by_one(t, k) ==
  LET delay == wasi_clock_to_relative_ns_delay(input[k]) \div NsPerMs
  IN  IF t = NoTimeout \/ delay < t.delay
      THEN [sub |-> k + 1, delay |-> delay] ELSE t

\* Mutant: The last deadline instead of the first.
Latest(t, k) ==
  LET delay == wasi_clock_to_relative_ns_delay(input[k]) \div NsPerMs
  IN  IF t = NoTimeout \/ delay > t.delay THEN [sub |-> k, delay |-> delay] ELSE t

\* In ms, rounded down; of equal delays min_by_key keeps the first.
Earliest(t, k) ==
  LET delay == wasi_clock_to_relative_ns_delay(input[k]) \div NsPerMs
  IN  IF t = NoTimeout \/ delay < t.delay THEN [sub |-> k, delay |-> delay] ELSE t

\* SystemTime::now() is asked once per absolute subscription.
min_by_key ==
  /\ pc = "clocks" /\ next <= Len(input)
  /\ timeout' = IF HasDelay(input[next]) THEN Earliest(timeout, next) ELSE timeout
  /\ next' = next + 1
  /\ UNCHANGED <<time, input, pc, polled, due, seen, events, nevents, ret>>

\* What filter_map and collect make of 1..n: the numbers in S, in order.
InOrder(S, n) ==
  LET f[k \in 0..n] == IF k = 0 THEN <<>>
                       ELSE IF k \in S THEN Append(f[k - 1], k) ELSE f[k - 1]
  IN  f[n]

FdTypes == {"FD_READ", "FD_WRITE"}
FdSubs == {k \in 1..Len(input) : input[k].type \in FdTypes}
fd_events == InOrder(FdSubs, Len(input))

collect ==
  /\ pc = "clocks" /\ next > Len(input)
  /\ IF fd_events = <<>> /\ timeout = NoTimeout
     THEN Done("ESUCCESS", <<>>) /\ UNCHANGED <<timeout, polled>>
     ELSE /\ pc' = "poll" /\ polled' = now
          /\ timeout' = [timeout EXCEPT !.delay = Least(@, CIntMax)]
          /\ UNCHANGED <<events, nevents, ret>>
  /\ UNCHANGED <<time, input, next, due, seen>>

\* Mutant: No timeout beside descriptors.
poll_timeout_clocks_only ==
  IF timeout = NoTimeout \/ fd_events # <<>> THEN -1 ELSE timeout.delay

\* The timeout poll(2) is given, in ms; -1 is none.
poll_timeout == IF timeout = NoTimeout THEN -1 ELSE timeout.delay

\* Each turn of the loop gives poll(2) the whole timeout.
poll ==
  /\ pc = "poll" /\ pc' = "wait"
  /\ due' = IF poll_timeout = -1 THEN NoDue ELSE now + poll_timeout * NsPerMs
  /\ UNCHANGED <<time, input, next, timeout, polled, seen, events, nevents, ret>>

\* Mutant: The directions are swapped.
Asked_swapped(k) == IF input[k].type = "FD_READ" THEN "POLLOUT" ELSE "POLLIN"

\* What poll(2) reports of subscription k: errors are reported unasked.
Asked(k) == IF input[k].type = "FD_READ" THEN "POLLIN" ELSE "POLLOUT"
revents(found, k) ==
  found[input[k].fd] \cap {Asked(k), "POLLERR", "POLLHUP", "POLLNVAL"}
ready(found) ==
  Cardinality({j \in 1..Len(fd_events) : revents(found, fd_events[j]) # {}})

\* poll(2) is interrupted by a signal, or fails.
poll_interrupted ==
  /\ pc = "wait" /\ signals < MaxSignals
  /\ signals' = signals + 1 /\ pc' = "poll"
  /\ UNCHANGED <<now, offset, input, next, timeout, polled, due, seen,
                 events, nevents, ret>>

poll_fails ==
  /\ pc = "wait" /\ Done("EHOST", <<>>)
  /\ UNCHANGED <<time, input, next, timeout, polled, due, seen>>

poll_oneoff_handle_timeout_event ==
  IF timeout = NoTimeout THEN <<>>
  ELSE <<[sub |-> timeout.sub, error |-> "ESUCCESS", hangup |-> FALSE]>>

poll_timed_out ==
  /\ pc = "wait" /\ due # NoDue /\ now >= due
  /\ \E found \in [Raw -> Conditions] : ready(found) = 0 /\ seen' = found
  /\ Done("ESUCCESS", poll_oneoff_handle_timeout_event)
  /\ UNCHANGED <<time, input, next, timeout, polled, due>>

EventOf(found, k) ==
  [sub |-> k,
   error |-> IF "POLLNVAL" \in revents(found, k) THEN "EBADF"
             ELSE IF "POLLERR" \in revents(found, k) THEN "EIO" ELSE "ESUCCESS",
   hangup |-> revents(found, k) \cap {"POLLNVAL", "POLLERR", "POLLHUP"} # {}]

\* Mutant: One descriptor too few is looked at.
poll_oneoff_handle_fd_event_one_less(found) ==
  LET n == ready(found) - 1
      reported == InOrder({j \in 1..n : revents(found, fd_events[j]) # {}}, n)
  IN  [i \in 1..Len(reported) |-> EventOf(found, fd_events[reported[i]])]

\* Only the first `ready` descriptors are looked at.
poll_oneoff_handle_fd_event(found) ==
  LET n == ready(found)
      reported == InOrder({j \in 1..n : revents(found, fd_events[j]) # {}}, n)
  IN  [i \in 1..Len(reported) |-> EventOf(found, fd_events[reported[i]])]

poll_ready ==
  /\ pc = "wait"
  /\ \E found \in [Raw -> Conditions] :
       /\ ready(found) > 0 /\ seen' = found
       /\ Done("ESUCCESS", poll_oneoff_handle_fd_event(found))
  /\ UNCHANGED <<time, input, next, timeout, polled, due>>

----------------------------------------------------------------------------
(* The host *)

\* Time passes, but a wait is at most MaxLate late.
Tick ==
  /\ \/ pc = "clocks" /\ now < MaxNow
     \/ pc = "wait" /\ due # NoDue /\ now < due + MaxLate
  /\ now' = now + 1
  /\ UNCHANGED <<offset, signals, input, pc, next, timeout, polled, due,
                 seen, events, nevents, ret>>

Returned == pc = "done" /\ UNCHANGED vars

Handler == Start \/ min_by_key \/ collect \/ poll
Kernel == poll_interrupted \/ poll_fails \/ poll_timed_out \/ poll_ready
Next == Handler \/ Kernel \/ Tick \/ Returned

Spec == Init /\ [][Next]_vars

\* The handler runs whenever it can, time passes while it waits, and poll(2)
\* returns when its time is over.  No descriptor need ever be ready.
FairSpec == Spec /\ WF_vars(Handler) /\ WF_vars(pc = "wait" /\ Tick)
                 /\ WF_vars(poll_timed_out)

----------------------------------------------------------------------------
(* Properties *)

\* The state keeps its types, and no more events are written than the guest
\* gave subscriptions: its buffer has that many places.
TypeOK ==
  /\ now \in Nat /\ offset \in Offsets
  /\ seen \in [Raw -> Conditions]
  /\ signals \in 0..MaxSignals
  /\ input \in Inputs
  /\ pc \in {"start", "clocks", "poll", "wait", "done"}
  /\ next \in 1..(Len(input) + 1)
  /\ timeout \in [sub : 0..Len(input), delay : Nat]
  /\ polled \in Nat /\ due \in Nat \cup {NoDue}
  /\ events \in Seq(Event) /\ Len(events) <= Len(input)
  /\ nevents \in Nat
  /\ ret \in {"ESUCCESS", "EFAULT", "EHOST"}

Events == {events[j] : j \in 1..Len(events)}
TimedOut == {e \in Events : input[e.sub].type = "CLOCK"}

\* Every event answers another subscription of the guest, tells its error
\* apart, and says a direction is ready only if that direction is: two
\* subscriptions may wait for one descriptor.  A timeout is never reported
\* beside descriptors, nor while one was ready.  The guest reads as many events
\* as were written, and none after a failure.
EventsSound ==
  /\ pc = "done" => nevents = IF ret = "ESUCCESS" THEN Len(events) ELSE 0
  /\ \A j, k \in 1..Len(events) : j # k => events[j].sub # events[k].sub
  /\ TimedOut # {} => Len(events) = 1
  /\ \A e \in Events : LET s == input[e.sub] IN
       /\ s.type # "INVALID"
       /\ s.type \in FdTypes =>
            /\ e.error = "EBADF" <=> "POLLNVAL" \in seen[s.fd]
            /\ e.error = "ESUCCESS" /\ ~e.hangup =>
                 (IF s.type = "FD_READ" THEN "POLLIN" ELSE "POLLOUT") \in seen[s.fd]
       /\ s.type = "CLOCK" =>
            \A k \in 1..Len(input) :
              input[k].type \in FdTypes => revents(seen, k) = {}

\* A clock event is at most a millisecond early (delays are rounded down to
\* ms), unless the delay is beyond what poll(2) can wait at once.
NotEarly ==
  pc = "done" => \A e \in TimedOut : LET s == input[e.sub] IN
    \/ (IF s.abstime THEN now + offset ELSE now) + NsPerMs > s.timeout
    \/ now >= CIntMax * NsPerMs

\* When the deadline of a clock subscription comes, from the time of the call.
Deadline(s) == IF ~s.abstime THEN s.timeout
               ELSE IF s.timeout > offset THEN s.timeout - offset ELSE 0

\* The clock event reported is the one due first, up to the rounding and the
\* time spent on asking for the time.
EarliestFirst ==
  pc = "done" => \A e \in TimedOut : \A k \in 1..Len(input) :
    input[k].type = "CLOCK" /\ (input[k].abstime => offset >= 0)
      => Deadline(input[e.sub]) < Deadline(input[k]) + NsPerMs + polled

\* However many descriptors wait, a call that has a clock subscription, or
\* nothing to wait for, returns if signals cease.
Returns ==
  \/ \E k \in 1..Len(input) :
       input[k].type = "CLOCK" /\ (input[k].abstime => offset >= 0)
  \/ fd_events = <<>>
  ~> pc = "done"

\* A ready descriptor is reported if all the subscriptions to descriptors
\* before it are ready too: the ones looked at are the first.
ReadyPrefix ==
  LET Ready(k) == input[k].type \in FdTypes => revents(seen, k) # {}
  IN  pc = "done" /\ ret = "ESUCCESS" =>
        \A k \in 1..Len(input) :
          input[k].type \in FdTypes /\ (\A j \in 1..k : Ready(j))
            => \E e \in Events : e.sub = k

\* When descriptors were ready, the guest learns of at least one of them: the
\* call is there to wait for events.
ReadyReported ==
  pc = "done" /\ ret = "ESUCCESS" /\ events = <<>> =>
    \A k \in 1..Len(input) : input[k].type \in FdTypes => revents(seen, k) = {}
=============================================================================
