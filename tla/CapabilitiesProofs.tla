-------------------------- MODULE CapabilitiesProofs --------------------------
(***************************************************************************)
(* WasiCtx implements Capabilities: every step of the builder and of the   *)
(* guest's calls on the tables is a step of Capabilities or changes        *)
(* nothing that the guest holds, for every host, every size of the tables  *)
(* and all arguments.                                                      *)
(***************************************************************************)
EXTENDS WasiCtxProofs

\* Entries that own nothing are those of stdio, under their own numbers.
StdioRaw ==
  \A f \in DOMAIN fds :
    fds[f].descriptor.kind # "File" => fds[f].descriptor.raw = f

\* What is behind f was given, and f has rights of the object's type and mode.
GivenEntry(f) ==
  LET d == kfd[fds[f].descriptor.raw]
  IN  /\ d \in GivenOpen
      /\ fds[f].rights_base \subseteq TypeBase[d.obj][d.acc]
      /\ fds[f].rights_inheriting \subseteq TypeInheriting[d.obj]

\* Up to the guest's start, entries and preopens are of given objects.
Built ==
  phase \in {"none", "builder", "build"} =>
    /\ \A r \in HostRaw : kfd[r] = HostFds[r]
    /\ \A f \in DOMAIN fds : GivenEntry(f)
    /\ \A p \in DOMAIN preopens : kfd[preopens[p]] \in GivenOpen

RInv == IInv /\ StdioRaw /\ Built

----------------------------------------------------------------------------

LEMMA GivenType == GivenOpen \subseteq Description
  BY HostAssumption, NullFits DEF GivenOpen, HostRaw

\* No two entries have the same host descriptor, stdio's included.
LEMMA RawDistinct ==
  ASSUME IInv, StdioRaw, NEW f \in DOMAIN fds, NEW g \in DOMAIN fds, f # g
  PROVE  fds[f].descriptor.raw # fds[g].descriptor.raw
<1>1. fds[f] \in FdEntry /\ fds[g] \in FdEntry
  BY DEF IInv, TypeOK
<1>2. \A e \in {f, g} : \/ fds[e].descriptor.kind = "File"
                           /\ fds[e].descriptor.raw \in Owned
                           /\ fds[e].descriptor.raw \notin HostRaw
                        \/ fds[e].descriptor.kind # "File"
                           /\ fds[e].descriptor.raw = e
                           /\ fds[e].descriptor.raw \in HostRaw
  BY <1>1, HostAssumption
  DEF IInv, Ownership, SoleOwner, Owned, drop, StdioRaw, FdEntry, Descriptor
<1>3. CASE fds[f].descriptor.kind = "File" /\ fds[g].descriptor.kind = "File"
  BY <1>3 DEF IInv, Ownership, SoleOwner, drop
<1> QED BY <1>2, <1>3

\* What dropping one entry closes is behind no other.
LEMMA DropDisjoint ==
  ASSUME IInv, StdioRaw, NEW f \in DOMAIN fds, NEW g \in DOMAIN fds, f # g
  PROVE  fds[f].descriptor.raw \notin drop(fds[g])
  BY RawDistinct DEF drop

\* An entry made from a description has the rights of its object's type and mode.
LEMMA EntryProper ==
  ASSUME NEW kind, NEW raw, NEW d \in Description, NEW path
  PROVE  /\ Entry(kind, raw, d, path).descriptor = [kind |-> kind, raw |-> raw]
         /\ Entry(kind, raw, d, path).rights_base \subseteq TypeBase[d.obj][d.acc]
         /\ Entry(kind, raw, d, path).rights_inheriting
              \subseteq TypeInheriting[d.obj]
<1> DEFINE tr == determine_type_rights(TypeOf[d.obj])
           ta == determine_type_and_access_rights(TypeOf[d.obj], d.acc)
<1>1. d.obj \in Obj /\ d.acc \in AccMode
  BY DEF Description
<1>2. TypeBase[d.obj][d.acc] = ta.base
      /\ TypeInheriting[d.obj] = tr.inheriting
  BY <1>1 DEF TypeBase, TypeInheriting
<1>3. tr \in TypeRightsOf
  BY TypeType
<1>4. PICK S : ta = [tr EXCEPT !.base = @ \ S]
  BY DEF determine_type_and_access_rights
<1> HIDE DEF tr, ta
<1>5. ta.inheriting = tr.inheriting
  BY <1>3, <1>4 DEF TypeRightsOf
<1> QED BY <1>2, <1>5 DEF Entry, ta

LEMMA FromProper ==
  ASSUME NEW raw, NEW d \in Description
  PROVE  /\ from(raw, d).descriptor = [kind |-> "File", raw |-> raw]
         /\ from(raw, d).rights_base \subseteq TypeBase[d.obj][d.acc]
         /\ from(raw, d).rights_inheriting \subseteq TypeInheriting[d.obj]
  BY EntryProper, Zenon DEF from

\* The host descriptor of an entry is open after a step as well.
LEMMA EntryOpenNext ==
  ASSUME IInv', NEW f \in DOMAIN fds'
  PROVE  fds'[f].descriptor.raw \in DOMAIN kfd'
<1>1. fds'[f] \in FdEntry
  BY DEF IInv, TypeOK
<1>2. CASE fds'[f].descriptor.kind = "File"
  <2>1. fds'[f].descriptor.raw \in Owned'
    BY <1>2 DEF Owned, drop
  <2> QED BY <2>1 DEF IInv, Ownership, NoLeak
<1>3. CASE fds'[f].descriptor.kind # "File"
  <2>1. fds'[f].descriptor.raw \in HostRaw
    BY <1>1, <1>3, HostAssumption DEF FdEntry, Descriptor
  <2> QED BY <2>1 DEF IInv, Ownership, NoLeak
<1> QED BY <1>2, <1>3

----------------------------------------------------------------------------
(* The invariant *)

\* Entries stay, or are new ones that own a file.
LEMMA StdioRawStep ==
  ASSUME StdioRaw,
         \A f \in DOMAIN fds' :
           \/ f \in DOMAIN fds /\ fds'[f].descriptor = fds[f].descriptor
           \/ fds'[f].descriptor.kind = "File"
           \/ fds'[f].descriptor.raw = f
  PROVE  StdioRaw'
  BY DEF StdioRaw

\* Before the guest starts, descriptors of the host are opened and closed, and
\* none is replaced.
LEMMA BuiltStep ==
  ASSUME RInv, IInv', phase \in {"none", "builder", "build"},
         \A r \in DOMAIN kfd' : r \in DOMAIN kfd => kfd'[r] = kfd[r],
         \A f \in DOMAIN fds' : \/ f \in DOMAIN fds /\ fds'[f] = fds[f]
                                \/ GivenEntry(f)',
         \A p \in DOMAIN preopens' :
           \/ p \in DOMAIN preopens /\ preopens'[p] = preopens[p]
           \/ kfd'[preopens'[p]] \in GivenOpen
  PROVE  Built'
<1>1. ASSUME NEW r \in HostRaw PROVE kfd'[r] = HostFds[r]
  <2>1. r \in DOMAIN kfd /\ r \in DOMAIN kfd'
    BY DEF RInv, IInv, Ownership, NoLeak
  <2> QED BY <2>1 DEF RInv, Built
<1>2. ASSUME NEW f \in DOMAIN fds' PROVE GivenEntry(f)'
  <2>1. CASE f \in DOMAIN fds /\ fds'[f] = fds[f]
    <3>1. fds'[f].descriptor.raw \in DOMAIN kfd'
      BY EntryOpenNext
    <3>2. fds[f].descriptor.raw \in DOMAIN kfd
      BY <2>1, EntryOpen DEF RInv, IInv
    <3>3. GivenEntry(f)
      BY <2>1 DEF RInv, Built
    <3> QED BY <2>1, <3>1, <3>2, <3>3 DEF GivenEntry
  <2> QED BY <2>1
<1>3. ASSUME NEW p \in DOMAIN preopens' PROVE kfd'[preopens'[p]] \in GivenOpen
  <2>1. CASE p \in DOMAIN preopens /\ preopens'[p] = preopens[p]
    <3>1. preopens[p] \in DOMAIN kfd /\ preopens[p] \in DOMAIN kfd'
      BY <2>1 DEF RInv, IInv, Ownership, NoLeak, Owned
    <3> QED BY <2>1, <3>1 DEF RInv, Built
  <2> QED BY <2>1
<1> QED BY <1>1, <1>2, <1>3 DEF Built

LEMMA InitRInv == Init => RInv
<1> SUFFICES ASSUME Init PROVE RInv
  OBVIOUS
<1>1. IInv
  BY InitIInv
<1>2. StdioRaw /\ Built
  BY DEF Init, Empty, StdioRaw, Built, HostRaw
<1> QED BY <1>1, <1>2 DEF RInv

\* new: three entries of /dev/null.
LEMMA NewRInv ==
  ASSUME RInv, IInv', New
  PROVE  StdioRaw' /\ Built'
<1>1. /\ phase = "none" /\ preopens' = preopens
      /\ \A r \in DOMAIN kfd' : \/ r \in DOMAIN kfd /\ kfd'[r] = kfd[r]
                                \/ r \notin DOMAIN kfd /\ kfd'[r] = NullDescription
      /\ \A f \in DOMAIN fds' : \E raw : /\ fds'[f] = from(raw, NullDescription)
                                         /\ kfd'[raw] = NullDescription
  BY DEF New, FreeRaw, Least, Put
<1>2. NullDescription \in Description /\ NullDescription \in GivenOpen
  BY NullFits DEF GivenOpen
<1>3. ASSUME NEW f \in DOMAIN fds'
      PROVE  GivenEntry(f)' /\ fds'[f].descriptor.kind = "File"
  <2>1. PICK raw : fds'[f] = from(raw, NullDescription)
                   /\ kfd'[raw] = NullDescription
    BY <1>1
  <2>2. fds'[f].descriptor = [kind |-> "File", raw |-> raw]
    BY <2>1, <1>2, FromProper
  <2>3. /\ fds'[f].rights_base
             \subseteq TypeBase[NullDescription.obj][NullDescription.acc]
        /\ fds'[f].rights_inheriting \subseteq TypeInheriting[NullDescription.obj]
    <3>1. /\ from(raw, NullDescription).rights_base
               \subseteq TypeBase[NullDescription.obj][NullDescription.acc]
          /\ from(raw, NullDescription).rights_inheriting
               \subseteq TypeInheriting[NullDescription.obj]
      BY <1>2, FromProper, Zenon
    <3> HIDE DEF from
    <3> QED BY <2>1, <3>1
  <2> QED BY <1>2, <2>1, <2>2, <2>3 DEF GivenEntry
<1>4. StdioRaw'
  BY <1>3 DEF StdioRaw
<1>5. Built'
  BY <1>1, <1>3, BuiltStep
<1> QED BY <1>4, <1>5

LEMMA DropAllRInv ==
  ASSUME NEW errno, DropAll(errno)
  PROVE  StdioRaw' /\ Built'
  BY DEF DropAll, Empty, StdioRaw, Built

LEMMA InheritRInv ==
  ASSUME RInv, IInv', inherit_stdio
  PROVE  StdioRaw' /\ Built'
<1>1. CASE phase' = "dropped"
  BY <1>1, DropAllRInv DEF inherit_stdio, DropAll
<1>2. CASE phase' # "dropped"
  <2>1. /\ phase = "builder" /\ preopens' = preopens
        /\ fds' = [f \in DOMAIN fds |->
                     IF f \in 0..2 THEN duplicate_stdio(f) ELSE fds[f]]
        /\ kfd' = Del(kfd, UNION {drop(fds[f]) : f \in 0..2})
    BY <1>2 DEF inherit_stdio, DropAll
  <2>2. DOMAIN fds = 0..2 /\ DOMAIN fds' = 0..2
    BY <2>1 DEF RInv, IInv, Shape
  <2>3. \A r \in DOMAIN kfd' : r \in DOMAIN kfd /\ kfd'[r] = kfd[r]
    BY <2>1 DEF Del
  <2>4. ASSUME NEW f \in DOMAIN fds'
        PROVE  GivenEntry(f)' /\ fds'[f].descriptor.raw = f
    <3> DEFINE kind == CASE f = 0 -> "Stdin" [] f = 1 -> "Stdout"
                         [] OTHER -> "Stderr"
    <3>1. fds'[f] = Entry(kind, f, kfd[f], NoPath)
      BY <2>1, <2>2 DEF duplicate_stdio
    <3>2. f \in HostRaw /\ f \in DOMAIN kfd /\ f \in DOMAIN kfd'
      BY <2>2, HostAssumption DEF RInv, IInv, Ownership, NoLeak
    <3>3. kfd[f] \in Description /\ kfd[f] = HostFds[f] /\ kfd'[f] = kfd[f]
      BY <2>1, <2>3, <3>2 DEF RInv, IInv, TypeOK, Built
    <3>4. kfd[f] \in GivenOpen
      BY <2>2, <3>3 DEF GivenOpen
    <3> HIDE DEF kind
    <3> DEFINE e == Entry(kind, f, kfd[f], NoPath)
    <3>5. /\ e.descriptor = [kind |-> kind, raw |-> f]
          /\ e.rights_base \subseteq TypeBase[kfd[f].obj][kfd[f].acc]
          /\ e.rights_inheriting \subseteq TypeInheriting[kfd[f].obj]
      BY <3>3, EntryProper, Zenon
    <3>6. fds'[f] = e
      BY <3>1
    <3> HIDE DEF e
    <3> QED BY <3>3, <3>4, <3>5, <3>6 DEF GivenEntry
  <2>5. StdioRaw'
    BY <2>4 DEF StdioRaw
  <2>6. Built'
    BY <2>1, <2>3, <2>4, BuiltStep
  <2> QED BY <2>5, <2>6
<1> QED BY <1>1, <1>2

LEMMA PreopenedDirRInv ==
  ASSUME RInv, IInv', NEW d \in HostFiles, NEW p \in GuestPaths, preopened_dir(d, p)
  PROVE  StdioRaw' /\ Built'
<1>1. PICK raw \in FreeRaw(kfd) :
        /\ preopens' = Put(preopens, p, raw)
        /\ kfd' = Del(Put(kfd, raw, d),
                      {preopens[q] : q \in DOMAIN preopens \cap {p}})
  BY DEF preopened_dir
<1>2. phase = "builder" /\ fds' = fds
  BY DEF preopened_dir
<1>3. raw \notin DOMAIN kfd
  BY DEF FreeRaw, Least
<1>4. \A r \in DOMAIN kfd' : r \in DOMAIN kfd => kfd'[r] = kfd[r]
  BY <1>1, <1>3 DEF Put, Del
<1>5. raw \in DOMAIN kfd'
  BY <1>1 DEF Put, IInv, Ownership, NoLeak, Owned
<1>6. kfd'[raw] = d /\ d \in GivenOpen
  BY <1>1, <1>5 DEF Put, Del, GivenOpen
<1>7. \A q \in DOMAIN preopens' : \/ q \in DOMAIN preopens
                                     /\ preopens'[q] = preopens[q]
                                  \/ preopens'[q] = raw
  BY <1>1 DEF Put
<1>8. Built'
  BY <1>2, <1>4, <1>6, <1>7, BuiltStep
<1> QED BY <1>2, <1>8 DEF RInv, StdioRaw

LEMMA BuildPreopenRInv ==
  ASSUME RInv, IInv', NEW p \in GuestPaths, build_preopen(p)
  PROVE  StdioRaw' /\ Built'
<1> DEFINE raw == preopens[p]
           e == Entry("File", raw, kfd[raw], p)
<1>1. CASE TypeOf[kfd[raw].obj] # "dir"
  BY <1>1, DropAllRInv DEF build_preopen
<1>2. CASE TypeOf[kfd[raw].obj] = "dir"
  <2>1. PICK f \in FreeFd(fds, preopen_fd) : fds' = Put(fds, f, e)
    BY <1>2 DEF build_preopen
  <2>2. /\ phase = "build" /\ p \in DOMAIN preopens
        /\ kfd' = kfd /\ preopens' = Del(preopens, {p})
    BY <1>2 DEF build_preopen
  <2>3. raw \in DOMAIN kfd
    BY <2>2 DEF RInv, IInv, Ownership, NoLeak, Owned
  <2>4. kfd[raw] \in Description /\ kfd[raw] \in GivenOpen
    BY <2>2, <2>3 DEF RInv, IInv, TypeOK, Built
  <2>5. /\ e.descriptor = [kind |-> "File", raw |-> raw]
        /\ e.rights_base \subseteq TypeBase[kfd[raw].obj][kfd[raw].acc]
        /\ e.rights_inheriting \subseteq TypeInheriting[kfd[raw].obj]
    BY <2>4, EntryProper
  <2> HIDE DEF e
  <2>6. \A g \in DOMAIN fds' : (g \in DOMAIN fds /\ fds'[g] = fds[g]) \/ fds'[g] = e
    BY <2>1 DEF Put
  <2>7. \A g \in DOMAIN fds' : fds'[g] = e =>
          GivenEntry(g)' /\ fds'[g].descriptor.kind = "File"
    BY <2>2, <2>4, <2>5 DEF GivenEntry
  <2>8. StdioRaw'
    BY <2>6, <2>7, StdioRawStep DEF RInv
  <2>9. Built'
    BY <2>2, <2>6, <2>7, BuiltStep DEF Del
  <2> QED BY <2>8, <2>9
<1> QED BY <1>1, <1>2

\* The calls of a running guest: entries go, come as files or lose rights.
LEMMA RunRInv ==
  ASSUME RInv, Next, phase = "run", phase' = "run"
  PROVE  StdioRaw' /\ Built'
<1>1. Built'
  BY DEF Built
<1>2. fds \in [DOMAIN fds -> FdEntry]
  BY DEF RInv, IInv, TypeOK
<1>3. CASE fds' = fds \/ \E S : fds' = Del(fds, S)
  <2>1. \A f \in DOMAIN fds' : f \in DOMAIN fds /\ fds'[f] = fds[f]
    BY <1>3 DEF Del
  <2> QED BY <1>1, <2>1 DEF RInv, StdioRaw
<1>4. CASE \E fd \in Fd : \E raw, d : d \in Description /\ fds' = Put(fds, fd, from(raw, d))
  <2>1. PICK fd \in Fd : \E raw, d : d \in Description /\ fds' = Put(fds, fd, from(raw, d))
    BY <1>4
  <2>2. PICK raw, d : d \in Description /\ fds' = Put(fds, fd, from(raw, d))
    BY <2>1
  <2>3. from(raw, d).descriptor = [kind |-> "File", raw |-> raw]
    BY <2>2, FromProper
  <2>4. \A f \in DOMAIN fds' : (f \in DOMAIN fds /\ fds'[f] = fds[f])
                                \/ fds'[f] = from(raw, d)
    BY <2>2 DEF Put
  <2> HIDE DEF from
  <2>5. \A f \in DOMAIN fds' : (f \in DOMAIN fds /\ fds'[f] = fds[f])
                                \/ fds'[f].descriptor.kind = "File"
    BY <2>3, <2>4
  <2> QED BY <1>1, <2>5, StdioRawStep DEF RInv
<1>5. CASE \E fd \in DOMAIN fds : \E b, i :
             fds' = [fds EXCEPT ![fd].rights_base = b, ![fd].rights_inheriting = i]
  <2>1. PICK fd \in DOMAIN fds : \E b, i :
          fds' = [fds EXCEPT ![fd].rights_base = b, ![fd].rights_inheriting = i]
    BY <1>5
  <2>2. fds[fd] \in FdEntry
    BY <1>2
  <2>3. DOMAIN fds' = DOMAIN fds
        /\ \A f \in DOMAIN fds : fds'[f].descriptor = fds[f].descriptor
    BY <1>2, <2>1, <2>2 DEF FdEntry
  <2> QED BY <1>1, <2>3, StdioRawStep DEF RInv
<1>6. CASE \E fd \in Fd, a \in OpenArgs : path_open(fd, a)
  <2>1. PICK fd \in Fd, a \in OpenArgs : path_open(fd, a)
    BY <1>6
  <2>2. CASE \E errno : Return(errno)
    BY <1>1, <1>3, <2>2 DEF Return
  <2>3. CASE /\ fd \in DOMAIN fds /\ fds[fd].descriptor.kind = "File"
             /\ \E raw \in OpenRaw,
                  o \in Contents[kfd[fds[fd].descriptor.raw].obj] :
                    insert_fd_entry(raw, [obj |-> o, acc |-> OpenMode(a.base)])
    <3>1. PICK raw \in OpenRaw,
               o \in Contents[kfd[fds[fd].descriptor.raw].obj] :
                 insert_fd_entry(raw, [obj |-> o, acc |-> OpenMode(a.base)])
      BY <2>3
    <3>2. [obj |-> o, acc |-> OpenMode(a.base)] \in Description
      BY <2>3, OpenTarget, OpenModeType DEF Description, RInv
    <3> HIDE DEF OpenMode
    <3>3. FreeFd(fds, 3) \subseteq Fd
      BY SizeAssumption DEF FreeFd, Least, Fd
    <3> QED BY <1>1, <1>3, <1>4, <3>1, <3>2, <3>3
            DEF insert_fd_entry, Return, Change
  <2> QED BY <2>1, <2>2, <2>3 DEF path_open, get_fd_entry
<1> QED
  BY <1>1, <1>3, <1>5, <1>6
  DEF Next, Calls, New, inherit_stdio, build, build_done, build_preopen,
      preopened_dir, DropCtx, DropAll, Dropped, vars, fd_close, fd_renumber,
      fd_fdstat_set_rights, Return, Change

LEMMA NextRInv == RInv /\ [Next]_vars => RInv'
<1> SUFFICES ASSUME RInv, [Next]_vars PROVE RInv'
  OBVIOUS
<1>a. IInv'
  BY NextIInv DEF RInv
<1>1. CASE UNCHANGED vars
  BY <1>1, <1>a DEF vars, RInv, StdioRaw, Built, GivenEntry
<1>2. CASE New
  BY <1>2, <1>a, NewRInv DEF RInv
<1>3. CASE inherit_stdio
  BY <1>3, <1>a, InheritRInv DEF RInv
<1>4. CASE build \/ build_done
  <2>1. phase \in {"builder", "build"} /\ UNCHANGED <<fds, preopens, kfd>>
    BY <1>4 DEF build, build_done
  <2> QED BY <1>a, <2>1 DEF RInv, StdioRaw, Built, GivenEntry
<1>5. CASE DropCtx
  BY <1>5, <1>a, DropAllRInv DEF DropCtx, RInv
<1>6. CASE \E d \in HostFiles, p \in GuestPaths : preopened_dir(d, p)
  BY <1>6, <1>a, PreopenedDirRInv DEF RInv
<1>7. CASE \E p \in GuestPaths : build_preopen(p)
  BY <1>7, <1>a, BuildPreopenRInv DEF RInv
<1>8. CASE Next /\ phase = "run" /\ phase' = "run"
  BY <1>8, <1>a, RunRInv DEF RInv
<1>9. phase = "run" => phase' \in {"run", "dropped"}
  BY ZenonT(30) DEF Next, Calls, New, inherit_stdio, build, build_done, build_preopen,
         preopened_dir, DropCtx, DropAll, Dropped, vars, fd_close, fd_renumber,
         fd_fdstat_set_rights, path_open, insert_fd_entry, Return, Change
<1> QED
  BY <1>1, <1>2, <1>3, <1>4, <1>5, <1>6, <1>7, <1>8, <1>9, ZenonT(30)
  DEF Next, Calls, Dropped, vars, fd_close, fd_renumber,
      fd_fdstat_set_rights, path_open, insert_fd_entry, Return, Change

----------------------------------------------------------------------------
(* Every step is one of Capabilities *)

CapsVars == <<Life, Held>>

\* What the guest holds under a number.
Cap(f) ==
  LET d == kfd[fds[f].descriptor.raw]
  IN  [obj |-> d.obj, acc |-> d.acc,
       base |-> fds[f].rights_base, inheriting |-> fds[f].rights_inheriting]

LEMMA HeldRun ==
  phase = "run" => /\ DOMAIN Held = DOMAIN fds
                   /\ \A f \in DOMAIN fds : Held[f] = Cap(f)
                   /\ Life = "running"
  BY DEF Held, Cap, Life

LEMMA HeldRunNext ==
  phase' = "run" => /\ DOMAIN Held' = DOMAIN fds'
                    /\ \A f \in DOMAIN fds' : Held'[f] = Cap(f)'
                    /\ Life' = "running"
  BY DEF Held, Cap, Life

\* A call that changes no table.
LEMMA SameStutters ==
  ASSUME UNCHANGED <<phase, fds, kfd>>
  PROVE  UNCHANGED CapsVars
  BY DEF CapsVars, Held, Life

LEMMA DropAllEnds ==
  ASSUME NEW errno, DropAll(errno)
  PROVE  Caps!End
  BY DEF DropAll, Held, Life, Caps!End, Caps!Nothing, Empty

\* build ends: the guest starts with what it was given.
LEMMA BuildStarts ==
  ASSUME RInv, RInv', build_done
  PROVE  Caps!Start
<1>1. phase = "build" /\ phase' = "run" /\ UNCHANGED <<fds, kfd, preopens>>
  BY DEF build_done
<1>2. ASSUME NEW f \in DOMAIN fds
      PROVE  Caps!Reference(Cap(f)') \in GivenOpen /\ Caps!Proper(Cap(f)')
  <2>1. GivenEntry(f)
    BY <1>1 DEF RInv, Built
  <2> DEFINE d == kfd[fds[f].descriptor.raw]
  <2>2. d \in GivenOpen /\ d \in Description
    BY <2>1, GivenType DEF GivenEntry
  <2>3. d = [obj |-> d.obj, acc |-> d.acc] /\ d.obj \in Obj
    BY <2>2 DEF Description
  <2>4. Cap(f)' = Cap(f) /\ Cap(f).obj = d.obj /\ Cap(f).acc = d.acc
    BY <1>1 DEF Cap
  <2>5. Caps!Reference(Cap(f)') = d
    BY <2>3, <2>4 DEF Caps!Reference
  <2>6. Caps!Proper(Cap(f)')
    BY <2>1, <2>3, <2>4 DEF GivenEntry, Cap, Caps!Proper
  <2> QED BY <2>2, <2>5, <2>6
<1>3. DOMAIN fds' \subseteq Fd
  BY DEF RInv, IInv, TypeOK
<1>4. Life = "before"
  BY <1>1 DEF Life
<1> QED
  BY <1>1, <1>2, <1>3, <1>4, HeldRunNext DEF Caps!Start

LEMMA CloseCloses ==
  ASSUME RInv, phase = "run", NEW fd \in Fd, fd_close(fd)
  PROVE  Caps!Close \/ UNCHANGED CapsVars
<1>1. CASE \E errno : Return(errno)
  BY <1>1, SameStutters DEF Return
<1>2. CASE /\ fd \in DOMAIN fds
           /\ Change("ESUCCESS", Del(fds, {fd}), Del(kfd, drop(fds[fd])))
  <2>1. /\ fds' = Del(fds, {fd}) /\ kfd' = Del(kfd, drop(fds[fd])) /\ phase' = "run"
    BY <1>2 DEF Change
  <2>2. DOMAIN fds' = DOMAIN fds \ {fd} /\ \A f \in DOMAIN fds' : fds'[f] = fds[f]
    BY <2>1 DEF Del
  <2>3. ASSUME NEW f \in DOMAIN fds \ {fd} PROVE Cap(f)' = Cap(f)
    <3>1. fds[f].descriptor.raw \in DOMAIN kfd \ drop(fds[fd])
      BY <1>2, EntryOpen, DropDisjoint DEF RInv, IInv
    <3> QED BY <2>1, <2>2, <3>1 DEF Cap, Del
  <2>4. DOMAIN Held' = DOMAIN Held \ {fd} /\ fd \in DOMAIN Held
    BY <1>2, <2>1, <2>2, HeldRun, HeldRunNext
  <2>5. ASSUME NEW f \in DOMAIN Held \ {fd} PROVE Held'[f] = Held[f]
    BY <2>1, <2>2, <2>3, <2>4, HeldRun, HeldRunNext
  <2>6. Life = "running" /\ Life' = Life
    BY <2>1, HeldRun, HeldRunNext
  <2> QED BY <2>4, <2>5, <2>6 DEF Caps!Close, Caps!Kept
<1> QED BY <1>1, <1>2 DEF fd_close

LEMMA SetRightsWeakens ==
  ASSUME RInv, phase = "run", NEW fd \in Fd, NEW b, NEW i,
         fd_fdstat_set_rights(fd, b, i)
  PROVE  Caps!Weaken \/ UNCHANGED CapsVars
<1> DEFINE new == [fds EXCEPT ![fd].rights_base = b, ![fd].rights_inheriting = i]
<1>1. CASE \E errno : Return(errno)
  BY <1>1, SameStutters DEF Return
<1>2. CASE /\ fd \in DOMAIN fds
           /\ validate_rights(fds[fd], b, i) = "ESUCCESS"
           /\ Change("ESUCCESS", new, kfd)
  <2>1. fds' = new /\ kfd' = kfd /\ phase' = "run"
    BY <1>2 DEF Change
  <2>2. fds \in [DOMAIN fds -> FdEntry] /\ fds[fd] \in FdEntry
    BY <1>2 DEF RInv, IInv, TypeOK
  <2>3. b \subseteq fds[fd].rights_base /\ i \subseteq fds[fd].rights_inheriting
    BY <1>2 DEF validate_rights
  <2>4. DOMAIN fds' = DOMAIN fds /\ \A f \in DOMAIN fds \ {fd} : fds'[f] = fds[f]
    BY <2>1, <2>2
  <2>5. /\ fds'[fd].descriptor = fds[fd].descriptor
        /\ fds'[fd].rights_base = b /\ fds'[fd].rights_inheriting = i
    BY <1>2, <2>1, <2>2 DEF FdEntry
  <2>6. kfd' = kfd /\ phase' = "run"
    BY <2>1
  <2> HIDE DEF new
  <2>7. \A f \in DOMAIN fds \ {fd} : Cap(f)' = Cap(f)
    BY <2>4, <2>6 DEF Cap
  <2>8. /\ Caps!Reference(Cap(fd)') = Caps!Reference(Cap(fd))
        /\ Cap(fd)'.base = b /\ Cap(fd)'.inheriting = i
        /\ Cap(fd).base = fds[fd].rights_base
        /\ Cap(fd).inheriting = fds[fd].rights_inheriting
    BY <2>5, <2>6 DEF Cap, Caps!Reference
  <2> QED
    BY <1>2, <2>3, <2>4, <2>6, <2>7, <2>8, HeldRun, HeldRunNext
    DEF Caps!Weaken, Caps!Kept
<1> QED BY <1>1, <1>2 DEF fd_fdstat_set_rights

\* `to` refers to what `from` did, with the rights it had.
Redirected(from_cap, to_cap, new) ==
  /\ Caps!Reference(new) = Caps!Reference(from_cap)
  /\ new.base = to_cap.base /\ new.inheriting = to_cap.inheriting

\* dup2 changes what is behind `to`, and one entry goes.
LEMMA RenumberRedirects ==
  ASSUME RInv, phase = "run", NEW a \in Fd, NEW b \in Fd, fd_renumber(a, b)
  PROVE  Caps!Redirect \/ UNCHANGED CapsVars
<1> DEFINE ra == fds[a].descriptor.raw
           rb == fds[b].descriptor.raw
           closed == UNION {drop(fds[f]) : f \in DOMAIN fds \cap {ra}}
<1>1. CASE \E errno : Return(errno)
  BY <1>1, SameStutters DEF Return
<1>2. CASE /\ {a, b} \subseteq DOMAIN fds
           /\ Change("ESUCCESS", Del(fds, {ra}),
                     Del(Put(kfd, rb, kfd[ra]), closed))
  <2>1. /\ fds' = Del(fds, {ra}) /\ kfd' = Del(Put(kfd, rb, kfd[ra]), closed)
        /\ phase' = "run"
    BY <1>2 DEF Change
  <2>2. /\ DOMAIN fds' = DOMAIN fds \ {ra}
        /\ \A f \in DOMAIN fds' : fds'[f] = fds[f]
    BY <2>1 DEF Del
  <2>3. ASSUME NEW f \in DOMAIN fds'
        PROVE  fds[f].descriptor.raw \in DOMAIN kfd \ closed
    <3>1. fds[f].descriptor.raw \in DOMAIN kfd
      BY <2>2, EntryOpen DEF RInv, IInv
    <3>2. ASSUME NEW g \in DOMAIN fds, g = ra
          PROVE  fds[f].descriptor.raw \notin drop(fds[g])
      BY <2>2, <3>2, DropDisjoint DEF RInv
    <3> QED BY <3>1, <3>2
  <2>4. ASSUME NEW f \in DOMAIN fds', f # b PROVE Cap(f)' = Cap(f)
    <3>1. fds[f].descriptor.raw # rb
      BY <1>2, <2>2, <2>4, RawDistinct DEF RInv
    <3> QED BY <2>1, <2>2, <2>3, <3>1 DEF Cap, Del, Put
  <2>5. ASSUME b \in DOMAIN fds'
        PROVE  Redirected(Cap(a), Cap(b), Cap(b)')
    <3>1. kfd'[rb] = kfd[ra] /\ fds'[b] = fds[b]
      BY <2>1, <2>2, <2>3, <2>5 DEF Del, Put
    <3> QED BY <3>1 DEF Cap, Caps!Reference, Redirected
  <2>6. a \in DOMAIN Held /\ b \in DOMAIN Held
    BY <1>2, HeldRun
  <2>7. /\ DOMAIN Held' = DOMAIN Held \ {ra}
        /\ \A f \in DOMAIN Held' \ {b} : Held'[f] = Held[f]
        /\ b \in DOMAIN Held' => Redirected(Held[a], Held[b], Held'[b])
    BY <1>2, <2>1, <2>2, <2>4, <2>5, HeldRun, HeldRunNext
  <2> HIDE DEF ra
  <2> QED
    BY <2>1, <2>6, <2>7, HeldRun, HeldRunNext
    DEF Caps!Redirect, Caps!Kept, Redirected
<1> QED BY <1>1, <1>2 DEF fd_renumber

\* path_open: something the directory leads to, under a new number.
LEMMA PathOpenOpens ==
  ASSUME RInv, phase = "run", NEW fd \in Fd, NEW a \in OpenArgs, path_open(fd, a)
  PROVE  Caps!Open \/ UNCHANGED CapsVars
<1> DEFINE acc == OpenMode(a.base)
<1>1. CASE \E errno : Return(errno)
  BY <1>1, SameStutters DEF Return
<1>2. CASE /\ fd \in DOMAIN fds /\ fds[fd].descriptor.kind = "File"
           /\ validate_rights(fds[fd], NeededBase(a.oflags), NeededInheriting(a))
                = "ESUCCESS"
           /\ \E raw \in OpenRaw,
                o \in Contents[kfd[fds[fd].descriptor.raw].obj] :
                  insert_fd_entry(raw, [obj |-> o, acc |-> acc])
  <2>1. PICK raw \in OpenRaw,
             o \in Contents[kfd[fds[fd].descriptor.raw].obj] :
               insert_fd_entry(raw, [obj |-> o, acc |-> acc])
    BY <1>2
  <2> DEFINE d == [obj |-> o, acc |-> acc]
  <2>2. o \in Obj /\ d \in Description /\ d.obj = o /\ d.acc = acc
    BY <1>2, OpenTarget, OpenModeType DEF Description, RInv
  <2>3. "PATH_OPEN" \in Cap(fd).base
    BY <1>2 DEF validate_rights, NeededBase, Cap
  <2>4. raw \notin DOMAIN kfd
    BY OpenRawFree
  <2>5. acc # "O_RDONLY" => Cap(fd).inheriting \cap WriteRights # {}
    <3>1. a.base \subseteq Cap(fd).inheriting
      BY <1>2 DEF validate_rights, NeededInheriting, Cap
    <3>2. acc # "O_RDONLY" => a.base \cap WriteRights # {}
      BY DEF OpenMode
    <3> QED BY <3>1, <3>2
  <2> HIDE DEF d
  <2>6. CASE \E errno : Return(errno)
    BY <2>6, SameStutters DEF Return
  <2>7. CASE \E new \in FreeFd(fds, 3) : \E errno :
               Change(errno, Put(fds, new, from(raw, d)), Put(kfd, raw, d))
    <3>1. PICK new \in FreeFd(fds, 3) :
            /\ fds' = Put(fds, new, from(raw, d)) /\ kfd' = Put(kfd, raw, d)
            /\ phase' = "run"
      BY <2>7 DEF Change
    <3>2. new \in Fd \ DOMAIN fds
      BY SizeAssumption DEF FreeFd, Least, Fd
    <3>3. /\ DOMAIN fds' = DOMAIN fds \cup {new} /\ fds'[new] = from(raw, d)
          /\ \A f \in DOMAIN fds : fds'[f] = fds[f]
          /\ kfd'[raw] = d /\ \A r \in DOMAIN kfd : kfd'[r] = kfd[r]
      BY <2>4, <3>1, <3>2 DEF Put
    <3>4. \A f \in DOMAIN fds : Cap(f)' = Cap(f)
      BY <3>3, EntryOpen DEF Cap, RInv, IInv
    <3> DEFINE e == from(raw, d)
    <3>5. /\ e.descriptor = [kind |-> "File", raw |-> raw]
          /\ e.rights_base \subseteq TypeBase[d.obj][d.acc]
          /\ e.rights_inheriting \subseteq TypeInheriting[d.obj]
      BY <2>2, FromProper, Zenon
    <3>6. fds'[new] = e
      BY <3>3
    <3> HIDE DEF e
    <3>7. /\ Cap(new)'.obj = o /\ Cap(new)'.acc = acc
          /\ Caps!Proper(Cap(new)')
      BY <2>2, <3>3, <3>5, <3>6 DEF Cap, Caps!Proper
    <3>8. Cap(new)'.obj \in Contents[Cap(fd).obj]
      BY <3>7 DEF Cap
    <3> QED
      BY <1>2, <2>3, <2>5, <3>1, <3>2, <3>3, <3>4, <3>7, <3>8, HeldRun, HeldRunNext
      DEF Caps!Open, Caps!Kept
  <2> QED BY <2>1, <2>6, <2>7 DEF insert_fd_entry, d
<1> QED BY <1>1, <1>2 DEF path_open, get_fd_entry

LEMMA NextSimulates ==
  RInv /\ RInv' /\ [Next]_vars => [Caps!Next]_CapsVars
<1> SUFFICES ASSUME RInv, RInv', Next PROVE Caps!Next \/ UNCHANGED CapsVars
  BY SameStutters DEF vars
<1>1. ASSUME phase \in {"none", "builder", "build"},
             phase' \in {"none", "builder", "build"}
      PROVE  UNCHANGED CapsVars
  BY <1>1 DEF CapsVars, Held, Life
<1>2. ASSUME NEW errno, DropAll(errno) PROVE Caps!Next
  BY <1>2, DropAllEnds DEF Caps!Next
<1>3. CASE New
  BY <1>3, <1>1 DEF New
<1>4. CASE inherit_stdio
  BY <1>4, <1>1, <1>2 DEF inherit_stdio
<1>5. CASE build
  BY <1>5, <1>1 DEF build
<1>6. CASE build_done
  BY <1>6, BuildStarts DEF Caps!Next
<1>7. CASE DropCtx
  BY <1>7, <1>2 DEF DropCtx
<1>8. CASE \E d \in HostFiles, p \in GuestPaths : preopened_dir(d, p)
  BY <1>8, <1>1 DEF preopened_dir
<1>9. CASE \E p \in GuestPaths : build_preopen(p)
  BY <1>9, <1>1, <1>2 DEF build_preopen
<1>10. CASE Dropped
  BY <1>10, SameStutters DEF Dropped, vars
<1>11. CASE \E fd \in Fd : Calls("fd_close") /\ fd_close(fd)
  BY <1>11, CloseCloses DEF Calls, Caps!Next
<1>12. CASE \E a, b \in Fd : Calls("fd_renumber") /\ fd_renumber(a, b)
  BY <1>12, RenumberRedirects DEF Calls, Caps!Next
<1>13. CASE \E fd \in Fd, a \in RightsArgs :
              Calls("fd_fdstat_set_rights")
                /\ fd_fdstat_set_rights(fd, a.base, a.inheriting)
  BY <1>13, SetRightsWeakens DEF Calls, Caps!Next
<1>14. CASE \E fd \in Fd, a \in OpenArgs : Calls("path_open") /\ path_open(fd, a)
  BY <1>14, PathOpenOpens DEF Calls, Caps!Next
<1> QED
  BY <1>3, <1>4, <1>5, <1>6, <1>7, <1>8, <1>9, <1>10, <1>11, <1>12, <1>13, <1>14
  DEF Next

\* The builder and the host calls implement Capabilities, for every host, every
\* size of the tables and all arguments: opening (path_open) is the only way to
\* an object that was not given, through a directory the guest holds, with rights
\* of the object's type and mode, and for writing only through a directory with
\* a right to write among its inheriting ones; fd_renumber hands on an object
\* and its mode, and no rights.
THEOREM ImplementsCapabilities == Spec => KeepsCapabilities
<1>1. Init => Caps!Init
  BY DEF Init, Held, Life, Caps!Init, Caps!Nothing, Empty
<1>2. Init => RInv
  BY InitRInv
<1>3. RInv /\ [Next]_vars => RInv'
  BY NextRInv
<1>4. RInv /\ RInv' /\ [Next]_vars => [Caps!Next]_<<Life, Held>>
  BY NextSimulates DEF CapsVars
<1>5. Spec => Caps!Spec
  BY <1>1, <1>2, <1>3, <1>4, PTL DEF Spec, Caps!Spec
<1> QED BY <1>5 DEF KeepsCapabilities
=============================================================================
