-------------------------------- MODULE MCPoll --------------------------------
(***************************************************************************)
(* Lists of at most three subscriptions, with a millisecond of 2 ns and    *)
(* the longest wait of poll(2) at 3 ms.  The clock of the host is behind,  *)
(* before the epoch at the call, or equal to the monotonic one.            *)
(***************************************************************************)
EXTENDS Poll

MCRaw == {"r1", "r2"}
MCConditions == {{}, {"POLLIN"}, {"POLLIN", "POLLOUT"}, {"POLLHUP"},
                 {"POLLOUT", "POLLERR"}, {"POLLNVAL"}}
MCOffsets == {-1, 0, 3}

After(abs, t) == [type |-> "CLOCK", abstime |-> abs, timeout |-> t]
Fd(type, r) == [type |-> type, fd |-> r]
Invalid == [type |-> "INVALID"]

Clocks == {After(abs, t) : abs \in BOOLEAN, t \in {0, 3, 9}}
Fds == {Fd(type, r) : type \in {"FD_READ", "FD_WRITE"}, r \in {"r1"}}
         \cup {Fd("FD_READ", "r2")}
Lists == {<<>>, <<Invalid>>}
           \cup {<<c>> : c \in Clocks} \cup {<<c, d>> : c \in Clocks, d \in Clocks}
           \cup {<<f, c>> : f \in Fds, c \in Clocks}
           \cup {<<f, g>> : f \in Fds, g \in Fds}
           \cup {<<f, Invalid, After(FALSE, 3)>> : f \in Fds}
           \cup {<<f, After(TRUE, 3), g>> : f \in Fds, g \in Fds}

\* Two descriptors, of which the second may be the ready one.
TwoFds == {<<Fd("FD_READ", "r1"), Fd("FD_READ", "r2")>>}
=============================================================================
