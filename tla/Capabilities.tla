---------------------------- MODULE Capabilities ----------------------------
(***************************************************************************)
(* What a guest may hold, and how that may change: the promise of WASI's   *)
(* descriptors without the tables, numbers and files that keep it.  A      *)
(* capability is an object of the host, the mode it was opened in and two  *)
(* sets of rights.  The guest starts with objects it was given.  It gets   *)
(* another only by opening what a directory it holds leads to, with rights *)
(* of the object's type and the mode, and to write only if that directory  *)
(* still passes a right to write on.  It may give up rights, close, and    *)
(* make one number refer to what another refers to; the number keeps the   *)
(* rights it had, which need not be those of the object's type.  Rights    *)
(* given up under one number may come back under another: opening the      *)
(* object again is not limited by them.  WasiCtx implements this.          *)
(***************************************************************************)
CONSTANTS
  Fd,            \* numbers a guest knows capabilities by
  Obj,           \* the host's objects
  Given,         \* those given at the start, each with a mode
  Contents,      \* what a path relative to an object can lead to
  ReadOnly,      \* the mode that no write is possible in
  WriteRights,   \* the rights that need another mode
  MaxBase,       \* the rights that make sense for an object and a mode
  MaxInheriting

VARIABLES
  life,  \* "before", "running" or "over"
  held   \* the guest's capabilities by number

Nothing == [f \in {} |-> f]

\* What a capability refers to, beside the rights it carries.
Reference(cap) == [obj |-> cap.obj, acc |-> cap.acc]

\* The rights a capability comes with are rights of its object and mode.
Proper(cap) ==
  /\ cap.obj \in Obj
  /\ cap.base \subseteq MaxBase[cap.obj][cap.acc]
  /\ cap.inheriting \subseteq MaxInheriting[cap.obj]

\* Every number in S stands for what it stood for.
Kept(S) == \A f \in S : held'[f] = held[f]

Init == life = "before" /\ held = Nothing

\* The guest is started with objects it is given.
Start ==
  /\ life = "before" /\ life' = "running"
  /\ DOMAIN held' \subseteq Fd
  /\ \A f \in DOMAIN held' :
       Reference(held'[f]) \in Given /\ Proper(held'[f])

\* A new number for something that a directory the guest holds leads to, and to
\* write only if the directory passes a right to write on.
Open ==
  /\ life = "running" /\ life' = life
  /\ \E f \in Fd \ DOMAIN held :
       /\ DOMAIN held' = DOMAIN held \cup {f} /\ Kept(DOMAIN held)
       /\ Proper(held'[f])
       /\ \E d \in DOMAIN held :
            /\ "PATH_OPEN" \in held[d].base
            /\ held'[f].obj \in Contents[held[d].obj]
            /\ held'[f].acc # ReadOnly => held[d].inheriting \cap WriteRights # {}

\* Rights of one capability are given up.
Weaken ==
  /\ life = "running" /\ life' = life
  /\ \E f \in DOMAIN held :
       /\ DOMAIN held' = DOMAIN held /\ Kept(DOMAIN held \ {f})
       /\ Reference(held'[f]) = Reference(held[f])
       /\ held'[f].base \subseteq held[f].base
       /\ held'[f].inheriting \subseteq held[f].inheriting

Close ==
  /\ life = "running" /\ life' = life
  /\ \E f \in DOMAIN held :
       DOMAIN held' = DOMAIN held \ {f} /\ Kept(DOMAIN held \ {f})

\* One number comes to refer to what another refers to, with the rights it had,
\* and at most one number is given up.
Redirect ==
  /\ life = "running" /\ life' = life
  /\ DOMAIN held' \subseteq DOMAIN held
  /\ \A f, g \in DOMAIN held \ DOMAIN held' : f = g
  /\ \E from, to \in DOMAIN held :
       /\ Kept(DOMAIN held' \ {to})
       /\ to \in DOMAIN held' =>
            /\ Reference(held'[to]) = Reference(held[from])
            /\ held'[to].base = held[to].base
            /\ held'[to].inheriting = held[to].inheriting

End == life' = "over" /\ held' = Nothing

Next == Start \/ Weaken \/ Close \/ Redirect \/ Open \/ End

Spec == Init /\ [][Next]_<<life, held>>
=============================================================================
