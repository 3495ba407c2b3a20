---------------------------- MODULE WasiCtxProofs ----------------------------
(***************************************************************************)
(* Proofs about WasiCtx for every size of the tables, every host and every *)
(* set of calls the guest makes, fd_renumber included.                     *)
(***************************************************************************)
EXTENDS WasiCtx, FiniteSetTheorems, TLAPS

\* What the phase says about the tables.
Shape ==
  /\ phase \in {"none", "dropped"} => DOMAIN fds = {} /\ DOMAIN preopens = {}
  /\ phase = "builder" => DOMAIN fds = 0..2

\* The tables and the descriptors of the host belong together.
Ownership == SoleOwner /\ NoLeak

\* The inductive invariant.
IInv == TypeOK /\ Shape /\ Ownership

TypeRightsOf == [file_type : FileType, base : SUBSET RIGHTS_ALL,
                 inheriting : SUBSET RIGHTS_ALL]

\* Each mask of host.rs names rights of RIGHTS_ALL only.
LEMMA MasksInAll ==
  /\ RIGHTS_REGULAR_FILE_BASE \subseteq RIGHTS_ALL
  /\ RIGHTS_DIRECTORY_BASE \subseteq RIGHTS_ALL
  /\ RIGHTS_DIRECTORY_INHERITING \subseteq RIGHTS_ALL
  /\ RIGHTS_TTY_BASE \subseteq RIGHTS_ALL
  /\ RIGHTS_SOCKET_BASE \subseteq RIGHTS_ALL
<1>1. RIGHTS_REGULAR_FILE_BASE \subseteq RIGHTS_ALL
  BY DEF RIGHTS_REGULAR_FILE_BASE, RIGHTS_ALL
<1>2. RIGHTS_DIRECTORY_BASE \subseteq RIGHTS_ALL
  BY Zenon DEF RIGHTS_DIRECTORY_BASE
<1>3. RIGHTS_TTY_BASE \subseteq RIGHTS_ALL
  BY DEF RIGHTS_TTY_BASE, RIGHTS_ALL
<1>4. {"SOCK_SHUTDOWN"} \subseteq RIGHTS_ALL
  BY DEF RIGHTS_ALL
<1> QED
  BY <1>1, <1>2, <1>3, <1>4, Zenon
  DEF RIGHTS_DIRECTORY_INHERITING, RIGHTS_SOCKET_BASE

\* determine_type_rights returns a file type and two masks.
LEMMA TypeType ==
  ASSUME NEW t
  PROVE  determine_type_rights(t) \in TypeRightsOf
<1> USE MasksInAll DEF TypeRightsOf, TypeRights, FileType
<1> HIDE DEF RIGHTS_ALL
<1> QED
  BY DEF determine_type_rights, RIGHTS_BLOCK_DEVICE_BASE,
    RIGHTS_BLOCK_DEVICE_INHERITING, RIGHTS_CHARACTER_DEVICE_BASE,
    RIGHTS_CHARACTER_DEVICE_INHERITING, RIGHTS_REGULAR_FILE_INHERITING,
    RIGHTS_SOCKET_INHERITING

\* So does determine_type_and_access_rights.
LEMMA TypeRightsType ==
  ASSUME NEW t, NEW acc
  PROVE  determine_type_and_access_rights(t, acc) \in TypeRightsOf
<1> DEFINE tr == determine_type_rights(t)
<1>1. tr \in TypeRightsOf
  BY TypeType
<1> HIDE DEF tr
<1>2. \A S : [tr EXCEPT !.base = @ \ S] \in TypeRightsOf
  BY <1>1 DEF TypeRightsOf
<1> QED
  BY <1>2 DEF determine_type_and_access_rights, tr

\* An entry made from an open description has the type of an FdEntry.
LEMMA EntryType ==
  ASSUME NEW descriptor \in Descriptor, NEW description \in Description,
         NEW path \in GuestPaths \cup {NoPath}
  PROVE  Entry(descriptor.kind, descriptor.raw, description, path) \in FdEntry
<1> DEFINE tr == determine_type_and_access_rights(TypeOf[description.obj],
                                                  description.acc)
<1>1. tr \in TypeRightsOf
  BY TypeRightsType
<1>2. [kind |-> descriptor.kind, raw |-> descriptor.raw] \in Descriptor
  BY DEF Descriptor
<1> HIDE DEF tr
<1>3. [file_type |-> tr.file_type,
       descriptor |-> [kind |-> descriptor.kind, raw |-> descriptor.raw],
       rights_base |-> tr.base, rights_inheriting |-> tr.inheriting,
       preopen_path |-> path] \in FdEntry
  BY <1>1, <1>2 DEF TypeRightsOf, FdEntry
<1> QED
  BY <1>3 DEF Entry, tr

----------------------------------------------------------------------------
(* How the tables may change together. *)

\* Entries may change as long as they own what they owned.
LEMMA KeepOwned ==
  ASSUME Ownership, DOMAIN fds' = DOMAIN fds,
         \A f \in DOMAIN fds : drop(fds'[f]) = drop(fds[f]),
         preopens' = preopens, DOMAIN kfd' = DOMAIN kfd
  PROVE  Ownership'
<1>1. Owned' = Owned
  BY DEF Owned
<1> QED
  BY <1>1 DEF Ownership, SoleOwner, NoLeak

\* Entries are removed and what they own is closed.
LEMMA RemoveOwned ==
  ASSUME Ownership, NEW S, fds' = Del(fds, S), preopens' = preopens,
         DOMAIN kfd' = DOMAIN kfd
                         \ UNION {drop(fds[f]) : f \in DOMAIN fds \cap S}
  PROVE  Ownership'
<1> DEFINE C == UNION {drop(fds[f]) : f \in DOMAIN fds \cap S}
<1>1. /\ DOMAIN fds' = DOMAIN fds \ S
      /\ \A f \in DOMAIN fds' : fds'[f] = fds[f]
  BY DEF Del
<1>2. C \subseteq Owned
  BY DEF Owned
<1>3. Owned' = Owned \ C
  <2>1. ASSUME NEW r \in Owned' PROVE r \in Owned \ C
    BY <1>1 DEF Owned, Ownership, SoleOwner
  <2>2. ASSUME NEW r \in Owned \ C PROVE r \in Owned'
    BY <1>1 DEF Owned
  <2> QED BY <2>1, <2>2
<1>4. SoleOwner'
  BY <1>1, <1>3 DEF Ownership, SoleOwner
<1>5. NoLeak'
  BY <1>2, <1>3 DEF Ownership, SoleOwner, NoLeak
<1> QED
  BY <1>4, <1>5 DEF Ownership

\* An entry is added that owns a descriptor opened with it.
LEMMA InsertOwned ==
  ASSUME Ownership, NEW fd, fd \notin DOMAIN fds, NEW e, NEW raw,
         fds' = Put(fds, fd, e), drop(e) = {raw}, raw \notin DOMAIN kfd,
         preopens' = preopens, DOMAIN kfd' = DOMAIN kfd \cup {raw}
  PROVE  Ownership'
<1>1. /\ DOMAIN fds' = DOMAIN fds \cup {fd}
      /\ fds'[fd] = e
      /\ \A f \in DOMAIN fds : fds'[f] = fds[f]
  BY DEF Put
<1>2. Owned' = Owned \cup {raw}
  BY <1>1 DEF Owned
<1>3. raw \notin Owned /\ raw \notin HostRaw
  BY DEF Ownership, NoLeak
<1>4. \A f \in DOMAIN fds : raw \notin drop(fds[f])
  BY <1>3 DEF Owned
<1>5. \A p \in DOMAIN preopens : preopens[p] # raw
  BY <1>3 DEF Owned
<1>6. SoleOwner'
  BY <1>1, <1>2, <1>3, <1>4, <1>5 DEF Ownership, SoleOwner
<1>7. NoLeak'
  BY <1>2 DEF Ownership, NoLeak
<1> QED
  BY <1>6, <1>7 DEF Ownership

\* The host descriptor of an entry is open, and is its own or one of 0..2.
LEMMA EntryOpen ==
  ASSUME TypeOK, Ownership, NEW f \in DOMAIN fds
  PROVE  /\ fds[f].descriptor.raw \in DOMAIN kfd
         /\ fds[f].descriptor.raw \in Owned \cup 0..2
         /\ fds[f].descriptor.kind = "File" => fds[f].descriptor.raw \in Owned
<1>1. fds[f] \in FdEntry
  BY DEF TypeOK
<1>2. CASE fds[f].descriptor.kind = "File"
  <2>1. fds[f].descriptor.raw \in Owned
    BY <1>2 DEF drop, Owned
  <2> QED BY <2>1, <1>2 DEF Ownership, NoLeak
<1>3. CASE fds[f].descriptor.kind # "File"
  <2>1. fds[f].descriptor.raw \in 0..2
    BY <1>1, <1>3 DEF FdEntry, Descriptor
  <2> QED BY <2>1, <1>3, HostAssumption DEF Ownership, NoLeak
<1> QED BY <1>2, <1>3

----------------------------------------------------------------------------
(* Every step preserves the invariant. *)

\* The guest's numbers hold at least the three of stdio.
LEMMA StdioFits == 2 <= MaxFd
  BY SizeAssumption, FS_CardinalityType

LEMMA InitIInv == Init => IInv
<1> SUFFICES ASSUME Init PROVE IInv
  OBVIOUS
<1>1. TypeOK
  BY SizeAssumption, HostAssumption, StdioFits
  DEF Init, TypeOK, Empty, HostRaw
<1>2. Shape
  BY DEF Init, Shape, Empty
<1>3. Owned = {}
  BY DEF Init, Owned, Empty
<1>4. Ownership
  BY <1>3 DEF Init, Ownership, SoleOwner, NoLeak, Empty, HostRaw
<1> QED
  BY <1>1, <1>2, <1>4 DEF IInv

\* DropAll leaves what the process had open.
LEMMA DropAllIInv ==
  ASSUME IInv, NEW errno, DropAll(errno)
  PROVE  IInv'
<1>1. TypeOK'
  BY SizeAssumption DEF IInv, TypeOK, DropAll, Empty, Del
<1>2. Shape'
  BY DEF DropAll, Shape, Empty
<1>3. Owned' = {}
  BY DEF DropAll, Owned, Empty
<1>4. Ownership'
  BY <1>3 DEF IInv, DropAll, Ownership, SoleOwner, NoLeak, Empty, Del
<1> QED
  BY <1>1, <1>2, <1>4 DEF IInv

LEMMA NullFits == NullDescription \in Description
  BY HostAssumption DEF NullDescription, Description, AccMode

LEMMA NewIInv ==
  ASSUME IInv, New
  PROVE  IInv'
<1> DEFINE k(r0) == Put(kfd, r0, NullDescription)
           kk(r0, r1) == Put(k(r0), r1, NullDescription)
           raw(f, r0, r1, r2) == CASE f = 0 -> r0 [] f = 1 -> r1 [] OTHER -> r2
<1>1. PICK r0 \in FreeRaw(kfd) : \E r1 \in FreeRaw(k(r0)) :
        \E r2 \in FreeRaw(kk(r0, r1)) :
          /\ fds' = [f \in 0..2 |-> from(raw(f, r0, r1, r2), NullDescription)]
          /\ kfd' = Put(kk(r0, r1), r2, NullDescription)
  BY DEF New
<1>2. PICK r1 \in FreeRaw(k(r0)) : \E r2 \in FreeRaw(kk(r0, r1)) :
          /\ fds' = [f \in 0..2 |-> from(raw(f, r0, r1, r2), NullDescription)]
          /\ kfd' = Put(kk(r0, r1), r2, NullDescription)
  BY <1>1
<1>3. PICK r2 \in FreeRaw(kk(r0, r1)) :
          /\ fds' = [f \in 0..2 |-> from(raw(f, r0, r1, r2), NullDescription)]
          /\ kfd' = Put(kk(r0, r1), r2, NullDescription)
  BY <1>2
<1>4. /\ r0 \in Raw \ DOMAIN kfd /\ r1 \in Raw \ DOMAIN kfd
      /\ r2 \in Raw \ DOMAIN kfd /\ r0 # r1 /\ r0 # r2 /\ r1 # r2
  BY DEF FreeRaw, Least, Put
<1>5. kfd' = [x \in DOMAIN kfd \cup {r0, r1, r2} |->
                IF x \in {r0, r1, r2} THEN NullDescription ELSE kfd[x]]
  BY <1>3 DEF Put
<1>6. phase' = "builder" /\ preopens' = preopens /\ preopen_fd' = preopen_fd
      /\ phase = "none"
  BY DEF New
<1> DEFINE w(f) == raw(f, r0, r1, r2)
<1>7. w(0) = r0 /\ w(1) = r1 /\ w(2) = r2
  OBVIOUS
<1>8. \A f \in 0..2 : w(f) \in Raw
  BY <1>4
<1> HIDE DEF w
<1>9. fds' = [f \in 0..2 |-> from(w(f), NullDescription)]
  BY <1>3 DEF w
<1>10. \A f \in 0..2 : from(w(f), NullDescription) \in FdEntry
  <2> TAKE f \in 0..2
  <2> DEFINE d == [kind |-> "File", raw |-> w(f)]
  <2>1. d \in Descriptor /\ d.kind = "File" /\ d.raw = w(f)
    BY <1>8 DEF Descriptor
  <2>2. Entry(d.kind, d.raw, NullDescription, NoPath) \in FdEntry
    BY <2>1, EntryType, NullFits
  <2> QED BY <2>1, <2>2 DEF from
<1>11. \A f \in 0..2 : drop(fds'[f]) = {w(f)}
  BY <1>9 DEF drop, from, Entry
<1>12. TypeOK'
  <2>1. fds' \in [DOMAIN fds' -> FdEntry] /\ DOMAIN fds' \subseteq Fd
    BY <1>9, <1>10, SizeAssumption, StdioFits DEF Fd
  <2>2. kfd' \in [DOMAIN kfd' -> Description] /\ DOMAIN kfd' \subseteq Raw
    BY <1>4, <1>5, NullFits DEF IInv, TypeOK
  <2> QED BY <2>1, <2>2, <1>6 DEF IInv, TypeOK
<1>13. Shape'
  BY <1>6, <1>9 DEF Shape
<1>14. Owned = {} /\ DOMAIN preopens = {} /\ DOMAIN kfd = HostRaw
  BY <1>6 DEF IInv, Shape, Owned, Ownership, NoLeak
<1>15. Owned' = {r0, r1, r2}
  <2>1. DOMAIN fds' = 0..2 /\ DOMAIN preopens' = {}
    BY <1>6, <1>9, <1>14
  <2>2. Owned' = UNION {{w(f)} : f \in 0..2}
    BY <2>1, <1>11 DEF Owned
  <2>3. \A f \in 0..2 : f = 0 \/ f = 1 \/ f = 2
    OBVIOUS
  <2> QED BY <2>2, <2>3, <1>7
<1>16. Ownership'
  <2>1. \A f, g \in 0..2 : f # g => w(f) # w(g)
    BY <1>4, <1>7
  <2>2. SoleOwner'
    BY <2>1, <1>4, <1>6, <1>9, <1>11, <1>14, <1>15 DEF SoleOwner
  <2>3. NoLeak'
    BY <1>5, <1>14, <1>15 DEF NoLeak
  <2> QED BY <2>2, <2>3 DEF Ownership
<1> QED
  BY <1>12, <1>13, <1>16 DEF IInv

LEMMA InheritIInv ==
  ASSUME IInv, inherit_stdio
  PROVE  IInv'
<1> DEFINE ok == \A r \in 0..2 : TypeOf[kfd[r].obj] \in Classified
<1>1. CASE ~ok
  BY <1>1, DropAllIInv DEF inherit_stdio
<1>2. CASE ok
  <2>1. /\ phase = "builder" /\ phase' = phase
        /\ preopens' = preopens /\ preopen_fd' = preopen_fd
        /\ fds' = [f \in DOMAIN fds |->
                     IF f \in 0..2 THEN duplicate_stdio(f) ELSE fds[f]]
        /\ kfd' = Del(kfd, UNION {drop(fds[f]) : f \in 0..2})
    BY <1>2 DEF inherit_stdio
  <2>2. DOMAIN fds = 0..2
    BY <2>1 DEF IInv, Shape
  <2>3. fds' = [f \in 0..2 |-> duplicate_stdio(f)]
    BY <2>1, <2>2
  <2>4. \A f \in 0..2 : /\ duplicate_stdio(f) \in FdEntry
                        /\ drop(duplicate_stdio(f)) = {}
    <3> TAKE f \in 0..2
    <3> DEFINE d == [kind |-> CASE f = 0 -> "Stdin" [] f = 1 -> "Stdout"
                                [] OTHER -> "Stderr", raw |-> f]
    <3>1. d \in Descriptor /\ d.kind # "File"
      BY DEF Descriptor
    <3>2. f \in DOMAIN kfd /\ kfd[f] \in Description
      BY HostAssumption DEF IInv, TypeOK, Ownership, NoLeak
    <3>3. duplicate_stdio(f) = Entry(d.kind, d.raw, kfd[f], NoPath)
      BY DEF duplicate_stdio
    <3> HIDE DEF d
    <3>4. Entry(d.kind, d.raw, kfd[f], NoPath) \in FdEntry
      BY <3>1, <3>2, EntryType
    <3>5. drop(Entry(d.kind, d.raw, kfd[f], NoPath)) = {}
      BY <3>1 DEF drop, Entry
    <3> QED BY <3>3, <3>4, <3>5
  <2>5. TypeOK'
    BY <2>1, <2>2, <2>3, <2>4 DEF IInv, TypeOK, Del
  <2>6. Shape'
    BY <2>1, <2>3 DEF Shape
  <2>7. Owned' = {preopens[p] : p \in DOMAIN preopens}
    BY <2>1, <2>3, <2>4 DEF Owned
  <2>8. SoleOwner'
    BY <2>1, <2>3, <2>4, <2>7 DEF IInv, Ownership, SoleOwner, Owned
  <2>9. NoLeak'
    <3>1. DOMAIN kfd' = DOMAIN kfd \ UNION {drop(fds[f]) : f \in DOMAIN fds}
      BY <2>1, <2>2 DEF Del
    <3> QED BY <3>1, <2>7, SMTT(30) DEF IInv, Ownership, SoleOwner, NoLeak, Owned
  <2> QED BY <2>5, <2>6, <2>8, <2>9 DEF IInv, Ownership
<1> QED BY <1>1, <1>2

LEMMA PreopenedDirIInv ==
  ASSUME IInv, NEW d \in HostFiles, NEW p \in GuestPaths, preopened_dir(d, p)
  PROVE  IInv'
<1>1. PICK raw \in FreeRaw(kfd) :
        /\ preopens' = Put(preopens, p, raw)
        /\ kfd' = Del(Put(kfd, raw, d),
                      {preopens[q] : q \in DOMAIN preopens \cap {p}})
  BY DEF preopened_dir
<1>2. raw \in Raw /\ raw \notin DOMAIN kfd
  BY DEF FreeRaw, Least
<1>3. fds' = fds /\ phase' = phase /\ preopen_fd' = preopen_fd
      /\ phase = "builder"
  BY DEF preopened_dir
<1>4. d \in Description
  BY HostAssumption
<1> DEFINE old == {preopens[q] : q \in DOMAIN preopens \cap {p}}
<1>5. /\ DOMAIN preopens' = DOMAIN preopens \cup {p} /\ preopens'[p] = raw
      /\ \A q \in DOMAIN preopens : q # p => preopens'[q] = preopens[q]
  BY <1>1 DEF Put
<1>6. DOMAIN kfd' = (DOMAIN kfd \cup {raw}) \ old
  BY <1>1 DEF Put, Del
<1>7. TypeOK'
  BY <1>1, <1>2, <1>3, <1>4 DEF IInv, TypeOK, Put, Del
<1>8. Shape'
  BY <1>3 DEF IInv, Shape
<1>9. raw \notin Owned /\ raw \notin HostRaw
  BY <1>2 DEF IInv, Ownership, NoLeak
<1>10. Owned' = (Owned \cup {raw}) \ old
  <2>1. old \subseteq Owned
    BY DEF Owned
  <2>2. \A f \in DOMAIN fds : drop(fds[f]) \cap old = {}
    BY DEF IInv, Ownership, SoleOwner
  <2>3. \A q \in DOMAIN preopens : q # p => preopens[q] \notin old
    BY DEF IInv, Ownership, SoleOwner
  <2>4. ASSUME NEW r \in Owned' PROVE r \in (Owned \cup {raw}) \ old
    BY <2>1, <2>2, <2>3, <2>4, <1>3, <1>5, <1>9 DEF Owned
  <2>5. ASSUME NEW r \in (Owned \cup {raw}) \ old PROVE r \in Owned'
    BY <2>5, <1>3, <1>5 DEF Owned
  <2> QED BY <2>4, <2>5
<1>11. \A f \in DOMAIN fds : raw \notin drop(fds[f])
  BY <1>9 DEF Owned
<1>12. \A q \in DOMAIN preopens : raw # preopens[q]
  BY <1>9 DEF Owned
<1>13. SoleOwner'
  BY <1>3, <1>5, <1>9, <1>10, <1>11, <1>12 DEF IInv, Ownership, SoleOwner
<1>14. NoLeak'
  <2>1. old \cap HostRaw = {}
    BY DEF IInv, Ownership, SoleOwner, Owned
  <2> QED BY <2>1, <1>6, <1>10 DEF IInv, Ownership, NoLeak
<1> QED
  BY <1>7, <1>8, <1>13, <1>14 DEF IInv, Ownership

\* A preopen moves from the builder's map to the guest's table.
LEMMA BuildPreopenIInv ==
  ASSUME IInv, NEW p \in GuestPaths, build_preopen(p)
  PROVE  IInv'
<1> DEFINE raw == preopens[p]
<1>1. CASE TypeOf[kfd[raw].obj] # "dir"
  BY <1>1, DropAllIInv DEF build_preopen
<1>2. CASE TypeOf[kfd[raw].obj] = "dir"
  <2> DEFINE e == Entry("File", raw, kfd[raw], p)
  <2>1. PICK f \in FreeFd(fds, preopen_fd) :
          fds' = Put(fds, f, e) /\ preopen_fd' = f + 1
    BY <1>2 DEF build_preopen
  <2>2. /\ phase = "build" /\ p \in DOMAIN preopens /\ phase' = phase
        /\ kfd' = kfd /\ preopens' = Del(preopens, {p})
    BY <1>2 DEF build_preopen
  <2>3. f \in preopen_fd..MaxFd /\ f \notin DOMAIN fds /\ preopen_fd \in 3..(MaxFd + 1)
    BY DEF FreeFd, Least, IInv, TypeOK
  <2>4. raw \in Raw /\ raw \in Owned
    BY <2>2 DEF IInv, TypeOK, Owned
  <2>5. kfd[raw] \in Description
    BY <2>4 DEF IInv, TypeOK, Ownership, NoLeak
  <2>6. e \in FdEntry
    <3> DEFINE d == [kind |-> "File", raw |-> raw]
    <3>1. d \in Descriptor /\ d.kind = "File" /\ d.raw = raw
      BY <2>4 DEF Descriptor
    <3>2. Entry(d.kind, d.raw, kfd[raw], p) \in FdEntry
      BY <3>1, <2>5, EntryType
    <3> QED BY <3>1, <3>2
  <2>7. drop(e) = {raw}
    BY DEF drop, Entry
  <2> HIDE DEF e
  <2>8. /\ DOMAIN fds' = DOMAIN fds \cup {f} /\ fds'[f] = e
        /\ \A g \in DOMAIN fds : fds'[g] = fds[g]
    BY <2>1, <2>3 DEF Put
  <2>9. /\ DOMAIN preopens' = DOMAIN preopens \ {p}
        /\ \A q \in DOMAIN preopens' : preopens'[q] = preopens[q]
    BY <2>2 DEF Del
  <2>10. TypeOK'
    <3>1. f \in Fd /\ preopen_fd' \in 3..(MaxFd + 1)
      BY <2>1, <2>3, SizeAssumption DEF Fd
    <3>2. fds' \in [DOMAIN fds' -> FdEntry] /\ DOMAIN fds' \subseteq Fd
      BY <3>1, <2>1, <2>6 DEF Put, IInv, TypeOK
    <3> QED BY <3>1, <3>2, <2>2 DEF IInv, TypeOK, Del
  <2>11. Shape'
    BY <2>2 DEF Shape
  <2>12. Owned' = Owned
    <3>1. ASSUME NEW r \in Owned' PROVE r \in Owned
      BY <2>4, <2>7, <2>8, <2>9 DEF Owned
    <3>2. ASSUME NEW r \in Owned PROVE r \in Owned'
      BY <2>2, <2>7, <2>8, <2>9 DEF Owned
    <3> QED BY <3>1, <3>2
  <2>13. /\ \A g \in DOMAIN fds : raw \notin drop(fds[g])
         /\ \A q \in DOMAIN preopens' : preopens[q] # raw
    BY <2>2, <2>9 DEF IInv, Ownership, SoleOwner
  <2>14. SoleOwner'
    BY <2>3, <2>7, <2>8, <2>9, <2>12, <2>13 DEF IInv, Ownership, SoleOwner
  <2>15. NoLeak'
    BY <2>2, <2>12 DEF IInv, Ownership, NoLeak
  <2> QED BY <2>10, <2>11, <2>14, <2>15 DEF IInv, Ownership
<1> QED BY <1>1, <1>2

\* Starting and leaving build's loop changes neither table.
LEMMA BuildIInv ==
  ASSUME IInv, build \/ build_done
  PROVE  IInv'
<1>1. /\ fds' = fds /\ preopens' = preopens /\ kfd' = kfd
      /\ phase' \in {"build", "run"} /\ preopen_fd' \in {3, preopen_fd}
  BY DEF build, build_done
<1>2. TypeOK'
  BY <1>1, StdioFits, SizeAssumption DEF IInv, TypeOK
<1>3. Shape'
  BY <1>1 DEF Shape
<1>4. Ownership'
  BY <1>1, KeepOwned DEF IInv
<1> QED BY <1>2, <1>3, <1>4 DEF IInv

\* A call that only returns an errno.
LEMMA ReturnIInv ==
  ASSUME IInv, NEW errno, Return(errno)
  PROVE  IInv'
<1>1. fds' = fds /\ preopens' = preopens /\ kfd' = kfd /\ phase' = phase
      /\ preopen_fd' = preopen_fd
  BY DEF Return
<1>2. Ownership'
  BY <1>1, KeepOwned DEF IInv
<1> QED BY <1>1, <1>2 DEF IInv, TypeOK, Shape

LEMMA CloseIInv ==
  ASSUME IInv, phase = "run", NEW fd \in Fd, fd_close(fd)
  PROVE  IInv'
<1>1. CASE \E errno : Return(errno)
  BY <1>1, ReturnIInv
<1>2. CASE /\ fd \in DOMAIN fds
           /\ Change("ESUCCESS", Del(fds, {fd}), Del(kfd, drop(fds[fd])))
  <2>1. /\ fds' = Del(fds, {fd}) /\ kfd' = Del(kfd, drop(fds[fd]))
        /\ preopens' = preopens /\ phase' = phase /\ preopen_fd' = preopen_fd
    BY <1>2 DEF Change
  <2>2. TypeOK'
    BY <2>1 DEF IInv, TypeOK, Del
  <2>3. DOMAIN kfd' = DOMAIN kfd
                        \ UNION {drop(fds[f]) : f \in DOMAIN fds \cap {fd}}
    BY <2>1, <1>2 DEF Del
  <2>4. Ownership'
    BY <2>1, <2>3, RemoveOwned DEF IInv
  <2> QED BY <2>1, <2>2, <2>4 DEF IInv, Shape
<1> QED BY <1>1, <1>2 DEF fd_close

LEMMA SetRightsIInv ==
  ASSUME IInv, phase = "run", NEW fd \in Fd, NEW b, NEW i,
         fd_fdstat_set_rights(fd, b, i)
  PROVE  IInv'
<1> DEFINE new == [fds EXCEPT ![fd].rights_base = b, ![fd].rights_inheriting = i]
<1>1. CASE \E errno : Return(errno)
  BY <1>1, ReturnIInv
<1>2. CASE /\ fd \in DOMAIN fds
           /\ validate_rights(fds[fd], b, i) = "ESUCCESS"
           /\ Change("ESUCCESS", new, kfd)
  <2>1. /\ fds' = new /\ kfd' = kfd
        /\ preopens' = preopens /\ phase' = phase /\ preopen_fd' = preopen_fd
    BY <1>2 DEF Change
  <2>2. fds[fd] \in FdEntry
    BY <1>2 DEF IInv, TypeOK
  <2>3. b \subseteq fds[fd].rights_base /\ i \subseteq fds[fd].rights_inheriting
    BY <1>2 DEF validate_rights
  <2>4. /\ DOMAIN fds' = DOMAIN fds /\ fds' = [f \in DOMAIN fds |-> fds'[f]]
        /\ \A f \in DOMAIN fds \ {fd} : fds'[f] = fds[f]
        /\ fds'[fd] = [fds[fd] EXCEPT !.rights_base = b, !.rights_inheriting = i]
    BY <2>1, <1>2 DEF IInv, TypeOK
  <2>5. fds'[fd] \in FdEntry /\ drop(fds'[fd]) = drop(fds[fd])
    BY <2>2, <2>3, <2>4 DEF FdEntry, drop
  <2>6. TypeOK'
    BY <2>1, <2>4, <2>5 DEF IInv, TypeOK
  <2>7. Ownership'
    BY <2>1, <2>4, <2>5, KeepOwned DEF IInv
  <2> QED BY <2>1, <2>6, <2>7 DEF IInv, Shape
<1> QED BY <1>1, <1>2 DEF fd_fdstat_set_rights

\* dup2 opens and closes nothing: both its descriptors are open.
LEMMA RenumberIInv ==
  ASSUME IInv, phase = "run", NEW a \in Fd, NEW b \in Fd, fd_renumber(a, b)
  PROVE  IInv'
<1> DEFINE ra == fds[a].descriptor.raw
           rb == fds[b].descriptor.raw
           closed == UNION {drop(fds[f]) : f \in DOMAIN fds \cap {ra}}
<1>1. CASE \E errno : Return(errno)
  BY <1>1, ReturnIInv
<1>2. CASE /\ {a, b} \subseteq DOMAIN fds
           /\ Change("ESUCCESS", Del(fds, {ra}),
                     Del(Put(kfd, rb, kfd[ra]), closed))
  <2>1. /\ fds' = Del(fds, {ra}) /\ kfd' = Del(Put(kfd, rb, kfd[ra]), closed)
        /\ preopens' = preopens /\ phase' = phase /\ preopen_fd' = preopen_fd
    BY <1>2 DEF Change
  <2>2. ra \in DOMAIN kfd /\ rb \in DOMAIN kfd
    BY <1>2, EntryOpen DEF IInv
  <2> HIDE DEF ra, rb
  <2>3. kfd[ra] \in Description
    BY <2>2 DEF IInv, TypeOK
  <2>4. TypeOK'
    BY <2>1, <2>2, <2>3 DEF IInv, TypeOK, Del, Put
  <2>5. DOMAIN kfd' = DOMAIN kfd \ closed
    BY <2>1, <2>2 DEF Del, Put
  <2>6. Ownership'
    BY <2>1, <2>5, RemoveOwned DEF IInv
  <2> QED BY <2>1, <2>4, <2>6 DEF IInv, Shape
<1> QED BY <1>1, <1>2 DEF fd_renumber

\* The host descriptor path_open gets was free.
LEMMA OpenRawFree == OpenRaw \subseteq Raw \ DOMAIN kfd
  BY DEF OpenRaw, Least

\* The object path_open opens is an object of the host.
LEMMA OpenTarget ==
  ASSUME IInv, NEW fd \in DOMAIN fds, fds[fd].descriptor.kind = "File",
         NEW o \in Contents[kfd[fds[fd].descriptor.raw].obj]
  PROVE  o \in Obj
<1>1. kfd[fds[fd].descriptor.raw] \in Description
  BY EntryOpen DEF IInv, TypeOK
<1> QED BY <1>1, HostAssumption DEF Description

\* insert_fd_entry keeps a fresh descriptor or drops it.
LEMMA InsertIInv ==
  ASSUME IInv, phase = "run", NEW raw \in OpenRaw, NEW d \in Description,
         insert_fd_entry(raw, d)
  PROVE  IInv'
<1>1. CASE \E errno : Return(errno)
  BY <1>1, ReturnIInv
<1>2. CASE \E fd \in FreeFd(fds, 3) : \E errno :
             Change(errno, Put(fds, fd, from(raw, d)), Put(kfd, raw, d))
  <2>1. PICK fd \in FreeFd(fds, 3) :
          /\ fds' = Put(fds, fd, from(raw, d)) /\ kfd' = Put(kfd, raw, d)
          /\ preopens' = preopens /\ phase' = phase /\ preopen_fd' = preopen_fd
    BY <1>2 DEF Change
  <2>2. fd \in Fd /\ fd \notin DOMAIN fds
    BY SizeAssumption DEF FreeFd, Least, Fd
  <2>3. raw \in Raw /\ raw \notin DOMAIN kfd
    BY OpenRawFree
  <2>4. from(raw, d) \in FdEntry
    <3> DEFINE x == [kind |-> "File", raw |-> raw]
    <3>1. x \in Descriptor /\ x.kind = "File" /\ x.raw = raw
      BY <2>3 DEF Descriptor
    <3>2. Entry(x.kind, x.raw, d, NoPath) \in FdEntry
      BY <3>1, EntryType
    <3> QED BY <3>1, <3>2 DEF from
  <2>5. drop(from(raw, d)) = {raw}
    BY DEF drop, from, Entry
  <2>6. TypeOK'
    BY <2>1, <2>2, <2>3, <2>4 DEF IInv, TypeOK, Put
  <2>7. DOMAIN kfd' = DOMAIN kfd \cup {raw}
    BY <2>1 DEF Put
  <2>8. Ownership'
    BY <2>1, <2>2, <2>3, <2>5, <2>7, InsertOwned DEF IInv
  <2> QED BY <2>1, <2>6, <2>8 DEF IInv, Shape
<1> QED BY <1>1, <1>2 DEF insert_fd_entry

LEMMA OpenModeType == \A b : OpenMode(b) \in AccMode
  BY DEF OpenMode, AccMode

LEMMA PathOpenIInv ==
  ASSUME IInv, phase = "run", NEW fd \in Fd, NEW a \in OpenArgs, path_open(fd, a)
  PROVE  IInv'
<1> DEFINE acc == OpenMode(a.base)
<1>1. CASE \E errno : Return(errno)
  BY <1>1, ReturnIInv
<1>2. CASE /\ fd \in DOMAIN fds /\ fds[fd].descriptor.kind = "File"
           /\ \E raw \in OpenRaw,
                o \in Contents[kfd[fds[fd].descriptor.raw].obj] :
                  insert_fd_entry(raw, [obj |-> o, acc |-> acc])
  <2>1. PICK raw \in OpenRaw,
             o \in Contents[kfd[fds[fd].descriptor.raw].obj] :
               insert_fd_entry(raw, [obj |-> o, acc |-> acc])
    BY <1>2
  <2>2. [obj |-> o, acc |-> acc] \in Description
    BY <1>2, OpenTarget, OpenModeType DEF Description
  <2> QED BY <2>1, <2>2, InsertIInv
<1> QED BY <1>1, <1>2 DEF path_open, get_fd_entry

LEMMA NextIInv == IInv /\ [Next]_vars => IInv'
<1> SUFFICES ASSUME IInv, [Next]_vars PROVE IInv'
  OBVIOUS
<1>1. CASE UNCHANGED vars
  BY <1>1, KeepOwned DEF vars, IInv, TypeOK, Shape
<1>2. CASE New
  BY <1>2, NewIInv
<1>3. CASE inherit_stdio
  BY <1>3, InheritIInv
<1>4. CASE build \/ build_done
  BY <1>4, BuildIInv
<1>5. CASE DropCtx
  BY <1>5, DropAllIInv DEF DropCtx
<1>6. CASE \E d \in HostFiles, p \in GuestPaths : preopened_dir(d, p)
  BY <1>6, PreopenedDirIInv
<1>7. CASE \E p \in GuestPaths : build_preopen(p)
  BY <1>7, BuildPreopenIInv
<1>8. CASE \E fd \in Fd : Calls("fd_close") /\ fd_close(fd)
  BY <1>8, CloseIInv DEF Calls
<1>9. CASE \E a, b \in Fd : Calls("fd_renumber") /\ fd_renumber(a, b)
  BY <1>9, RenumberIInv DEF Calls
<1>10. CASE \E fd \in Fd, a \in RightsArgs :
              Calls("fd_fdstat_set_rights")
                /\ fd_fdstat_set_rights(fd, a.base, a.inheriting)
  BY <1>10, SetRightsIInv DEF Calls
<1>11. CASE \E fd \in Fd, a \in OpenArgs : Calls("path_open") /\ path_open(fd, a)
  BY <1>11, PathOpenIInv DEF Calls
<1>12. CASE Dropped
  BY <1>12, <1>1 DEF Dropped
<1> QED
  BY <1>1, <1>2, <1>3, <1>4, <1>5, <1>6, <1>7, <1>8, <1>9, <1>10, <1>11, <1>12
  DEF Next

\* The tables of a context keep their types and belong together.
THEOREM Invariance == Spec => []IInv
  BY InitIInv, NextIInv, PTL DEF Spec

\* The variables always have the types of the code's fields, whatever the guest
\* calls (ctx.rs, fdentry.rs).
THEOREM TypeCorrect == Spec => []TypeOK
<1>1. IInv => TypeOK
  BY DEF IInv
<1> QED BY <1>1, Invariance, PTL

\* No host descriptor ever has two owners, so that dropping an entry never
\* closes a descriptor of another one, or of the process (FdObject::drop).
THEOREM NoDoubleOwner == Spec => []SoleOwner
<1>1. IInv => SoleOwner
  BY DEF IInv, Ownership
<1> QED BY <1>1, Invariance, PTL

\* No host descriptor is leaked and none is used after it was closed, on
\* success and on every error path of the builder and of the calls.
THEOREM NothingLeaks == Spec => []NoLeak
<1>1. IInv => NoLeak
  BY DEF IInv, Ownership
<1> QED BY <1>1, Invariance, PTL

----------------------------------------------------------------------------
(* Confinement. *)

\* A descriptor of the host keeps its object or gets a granted one.
KeptOrGranted(r) ==
  \/ r \in DOMAIN kfd /\ kfd'[r] = kfd[r]
  \/ r \notin HostRaw \ 0..2 /\ kfd'[r].obj \in Granted

LEMMA ConfinedStep ==
  ASSUME IInv, IInv', Confined, \A r \in DOMAIN kfd' : KeptOrGranted(r)
  PROVE  Confined'
<1>1. ASSUME NEW r \in (Owned \cup 0..2)' PROVE (kfd[r].obj \in Granted)'
  <2>1. r \in DOMAIN kfd'
    BY HostAssumption DEF IInv, Ownership, NoLeak
  <2>2. r \in DOMAIN kfd => r \in Owned \cup 0..2
    BY HostAssumption DEF IInv, Ownership, NoLeak, SoleOwner
  <2> QED BY <2>1, <2>2 DEF Confined, KeptOrGranted, Granted
<1>2. ASSUME NEW r \in HostRaw \ 0..2 PROVE kfd'[r] = HostFds[r]
  <2>1. r \in DOMAIN kfd'
    BY DEF IInv, Ownership, NoLeak
  <2> QED BY <2>1 DEF Confined, KeptOrGranted
<1> QED BY <1>1, <1>2 DEF Confined

\* What is given is granted, and paths do not lead out of what is granted.
LEMMA GrantedFacts ==
  /\ DevNull \in Granted
  /\ \A d \in HostFiles : d.obj \in Granted
  /\ \A r \in 0..2 : HostFds[r].obj \in Granted
  /\ \A o \in Granted : Contents[o] \subseteq Granted
<1>1. Granted = Given \cup UNION {Contents[o] : o \in Given}
  BY DEF Granted
<1>2. Given \subseteq Obj
  BY HostAssumption DEF Given, Description
<1>3. DevNull \in Given /\ (\A d \in HostFiles : d.obj \in Given)
      /\ (\A r \in 0..2 : HostFds[r].obj \in Given)
  BY DEF Given
<1>4. \A o \in Granted : Contents[o] \subseteq Granted
  <2> SUFFICES ASSUME NEW o \in Granted, NEW x \in Contents[o]
               PROVE  x \in Granted
    OBVIOUS
  <2>1. CASE o \in Given
    BY <2>1, <1>1
  <2>2. CASE \E g \in Given : o \in Contents[g]
    <3>1. PICK g \in Given : o \in Contents[g]
      BY <2>2
    <3>2. x \in Contents[g]
      BY <3>1, <1>2, HostAssumption
    <3> QED BY <3>2, <1>1
  <2> QED BY <2>1, <2>2, <1>1
<1> QED BY <1>1, <1>3, <1>4

LEMMA InitConfined == Init => Confined
<1> SUFFICES ASSUME Init PROVE Confined
  OBVIOUS
<1>1. Owned = {}
  BY DEF Init, Owned, Empty
<1> QED BY <1>1, GrantedFacts DEF Init, Confined

LEMMA NextKeptOrGranted ==
  ASSUME IInv, Confined, [Next]_vars, NEW r \in DOMAIN kfd'
  PROVE  KeptOrGranted(r)
<1>1. CASE kfd' = kfd
  BY <1>1 DEF KeptOrGranted
<1>2. CASE New
  <2>1. (r \in DOMAIN kfd /\ kfd'[r] = kfd[r])
        \/ (r \notin DOMAIN kfd /\ kfd'[r] = NullDescription)
    BY <1>2 DEF New, FreeRaw, Least, Put
  <2>2. NullDescription.obj \in Granted
    BY GrantedFacts DEF NullDescription
  <2> QED BY <2>1, <2>2 DEF KeptOrGranted, IInv, Ownership, NoLeak
<1>3. ASSUME NEW S, kfd' = Del(kfd, S) PROVE KeptOrGranted(r)
  BY <1>3 DEF Del, KeptOrGranted
<1>4. CASE inherit_stdio
  BY <1>3, <1>4 DEF inherit_stdio, DropAll
<1>5. CASE DropCtx
  BY <1>3, <1>5 DEF DropCtx, DropAll
<1>6. CASE \E d \in HostFiles, p \in GuestPaths : preopened_dir(d, p)
  <2>1. PICK d \in HostFiles, p \in GuestPaths : preopened_dir(d, p)
    BY <1>6
  <2>2. (r \in DOMAIN kfd /\ kfd'[r] = kfd[r])
        \/ (r \notin DOMAIN kfd /\ kfd'[r] = d)
    BY <2>1 DEF preopened_dir, FreeRaw, Least, Put, Del
  <2> QED BY <2>2, GrantedFacts DEF KeptOrGranted, IInv, Ownership, NoLeak
<1>7. CASE \E p \in GuestPaths : build_preopen(p)
  BY <1>1, <1>3, <1>7 DEF build_preopen, DropAll
<1>8. CASE \E fd \in Fd : Calls("fd_close") /\ fd_close(fd)
  BY <1>1, <1>3, <1>8 DEF fd_close, Return, Change
<1>9. CASE \E a, b \in Fd : Calls("fd_renumber") /\ fd_renumber(a, b)
  <2>1. PICK a \in Fd, b \in Fd : fd_renumber(a, b)
    BY <1>9
  <2> DEFINE ra == fds[a].descriptor.raw
             rb == fds[b].descriptor.raw
  <2>2. CASE \E errno : Return(errno)
    BY <2>2, <1>1 DEF Return
  <2>3. CASE /\ {a, b} \subseteq DOMAIN fds
             /\ \E S : kfd' = Del(Put(kfd, rb, kfd[ra]), S)
    <3>1. ra \in Owned \cup 0..2 /\ rb \in Owned \cup 0..2 /\ rb \in DOMAIN kfd
      BY <2>3, EntryOpen DEF IInv
    <3> HIDE DEF ra, rb
    <3>2. (r \in DOMAIN kfd /\ kfd'[r] = kfd[r]) \/ (r = rb /\ kfd'[r] = kfd[ra])
      BY <2>3, <3>1 DEF Put, Del
    <3>3. rb \notin HostRaw \ 0..2
      BY <3>1 DEF IInv, Ownership, SoleOwner
    <3> QED BY <3>1, <3>2, <3>3 DEF KeptOrGranted, Confined
  <2> QED BY <2>1, <2>2, <2>3 DEF fd_renumber, Change
<1>10. CASE \E fd \in Fd, a \in RightsArgs :
              Calls("fd_fdstat_set_rights")
                /\ fd_fdstat_set_rights(fd, a.base, a.inheriting)
  BY <1>1, <1>10 DEF fd_fdstat_set_rights, Return, Change
<1>11. CASE \E fd \in Fd, a \in OpenArgs : Calls("path_open") /\ path_open(fd, a)
  <2>1. PICK fd \in Fd, a \in OpenArgs : path_open(fd, a)
    BY <1>11
  <2>2. CASE \E errno : Return(errno)
    BY <2>2, <1>1 DEF Return
  <2>3. CASE /\ fd \in DOMAIN fds /\ fds[fd].descriptor.kind = "File"
             /\ \E raw \in OpenRaw,
                  o \in Contents[kfd[fds[fd].descriptor.raw].obj] :
                    insert_fd_entry(raw, [obj |-> o, acc |-> OpenMode(a.base)])
    <3>1. PICK raw \in OpenRaw,
               o \in Contents[kfd[fds[fd].descriptor.raw].obj] :
                 insert_fd_entry(raw, [obj |-> o, acc |-> OpenMode(a.base)])
      BY <2>3
    <3>2. o \in Granted
      BY <2>3, EntryOpen, GrantedFacts DEF IInv, Confined
    <3>3. raw \notin HostRaw
      BY OpenRawFree DEF IInv, Ownership, NoLeak
    <3>4. kfd' = kfd \/ kfd' = Put(kfd, raw, [obj |-> o, acc |-> OpenMode(a.base)])
      BY <3>1 DEF insert_fd_entry, Return, Change
    <3> QED BY <3>2, <3>3, <3>4, <1>1 DEF Put, KeptOrGranted
  <2> QED BY <2>1, <2>2, <2>3 DEF path_open, get_fd_entry
<1> QED
  BY <1>1, <1>2, <1>4, <1>5, <1>6, <1>7, <1>8, <1>9, <1>10, <1>11
  DEF Next, vars, build, build_done, Dropped

\* The guest only ever holds descriptors of objects the embedder granted, and
\* never replaces a descriptor the process keeps for itself, for every sequence
\* of opens, closes and renumberings.
THEOREM Confinement == Spec => []Confined
<1>1. IInv /\ Confined /\ IInv' /\ [Next]_vars => Confined'
  BY NextKeptOrGranted, ConfinedStep
<1> QED BY InitConfined, Invariance, <1>1, PTL DEF Spec

----------------------------------------------------------------------------
(* What a step of the guest may never do. *)

\* While a context is in use its table changes by one entry going, by one
\* coming at 3 or above, or by rights that shrink.
GuestStep ==
  \/ fds' = fds
  \/ \E S : fds' = Del(fds, S)
  \/ \E fd \in FreeFd(fds, 3) : \E e : fds' = Put(fds, fd, e)
  \/ \E fd \in DOMAIN fds : \E b, i :
       /\ b \subseteq fds[fd].rights_base /\ i \subseteq fds[fd].rights_inheriting
       /\ fds' = [fds EXCEPT ![fd].rights_base = b, ![fd].rights_inheriting = i]

LEMMA RunSteps ==
  ASSUME Next, phase = "run", phase' = "run"
  PROVE  GuestStep
<1>1. CASE fds' = fds
  BY <1>1 DEF GuestStep
<1>2. CASE \E fd \in Fd : fd_close(fd)
  BY <1>2 DEF fd_close, Return, Change, GuestStep
<1>3. CASE \E a, b \in Fd : fd_renumber(a, b)
  BY <1>3 DEF fd_renumber, Return, Change, GuestStep
<1>4. CASE \E fd \in Fd, a \in RightsArgs :
             fd_fdstat_set_rights(fd, a.base, a.inheriting)
  <2>1. PICK fd \in Fd, a \in RightsArgs :
               fd_fdstat_set_rights(fd, a.base, a.inheriting)
    BY <1>4
  <2>2. CASE \E errno : Return(errno)
    BY <2>2 DEF Return, GuestStep
  <2>3. CASE /\ fd \in DOMAIN fds
             /\ validate_rights(fds[fd], a.base, a.inheriting) = "ESUCCESS"
             /\ fds' = [fds EXCEPT ![fd].rights_base = a.base,
                                   ![fd].rights_inheriting = a.inheriting]
    BY <2>3 DEF validate_rights, GuestStep
  <2> QED BY <2>1, <2>2, <2>3 DEF fd_fdstat_set_rights, Change
<1>5. CASE \E fd \in Fd, a \in OpenArgs : path_open(fd, a)
  <2>1. CASE \E errno : Return(errno)
    BY <2>1 DEF Return, GuestStep
  <2>2. CASE \E raw, d : insert_fd_entry(raw, d)
    BY <2>2 DEF insert_fd_entry, Return, Change, GuestStep
  <2> QED BY <1>5, <2>1, <2>2 DEF path_open
<1> QED
  BY <1>1, <1>2, <1>3, <1>4, <1>5
  DEF Next, Calls, New, inherit_stdio, build, build_done, build_preopen,
      preopened_dir, DropCtx, DropAll, Dropped, vars

\* insert_fd_entry and fd_renumber never bring back a number below 3 that the
\* guest closed.
THEOREM StdioNumbersReserved == Spec => StdioReserved
<1>1. ASSUME Next, phase = "run", phase' = "run"
      PROVE  DOMAIN fds' \cap 0..2 \subseteq DOMAIN fds
  <2>1. GuestStep
    BY <1>1, RunSteps
  <2>2. CASE fds' = fds \/ \E S : fds' = Del(fds, S)
    BY <2>2 DEF Del
  <2>3. CASE \E fd \in FreeFd(fds, 3) : \E e : fds' = Put(fds, fd, e)
    <3>1. PICK fd \in FreeFd(fds, 3) : \E e : fds' = Put(fds, fd, e)
      BY <2>3
    <3>2. fd \in 3..MaxFd
      BY DEF FreeFd, Least
    <3> QED BY <3>1, <3>2, SizeAssumption DEF Put
  <2>4. CASE \E fd \in DOMAIN fds : \E b, i :
               fds' = [fds EXCEPT ![fd].rights_base = b,
                                  ![fd].rights_inheriting = i]
    BY <2>4
  <2> QED BY <2>1, <2>2, <2>3, <2>4 DEF GuestStep
<1>2. [Next]_vars =>
        [phase = "run" /\ phase' = "run"
           => DOMAIN fds' \cap 0..2 \subseteq DOMAIN fds]_vars
  BY <1>1
<1> QED BY <1>2, PTL DEF Spec, StdioReserved

\* No host call adds a right to a descriptor the guest holds.
THEOREM RightsOnlyShrink == Spec => RightsNeverGrow
<1> DEFINE Shrinks ==
      phase = "run" /\ phase' = "run" =>
        \A f \in DOMAIN fds \cap DOMAIN fds' :
          /\ fds'[f].rights_base \subseteq fds[f].rights_base
          /\ fds'[f].rights_inheriting \subseteq fds[f].rights_inheriting
<1>1. ASSUME TypeOK, Next, phase = "run", phase' = "run",
             NEW f \in DOMAIN fds \cap DOMAIN fds'
      PROVE  /\ fds'[f].rights_base \subseteq fds[f].rights_base
             /\ fds'[f].rights_inheriting \subseteq fds[f].rights_inheriting
  <2>1. GuestStep
    BY <1>1, RunSteps
  <2>2. CASE fds' = fds
    BY <2>2
  <2>3. CASE \E S : fds' = Del(fds, S)
    BY <2>3 DEF Del
  <2>4. CASE \E fd \in FreeFd(fds, 3) : \E e : fds' = Put(fds, fd, e)
    BY <2>4 DEF Put, FreeFd, Least
  <2>5. ASSUME NEW fd \in DOMAIN fds, NEW b, NEW i,
               b \subseteq fds[fd].rights_base,
               i \subseteq fds[fd].rights_inheriting,
               fds' = [fds EXCEPT ![fd].rights_base = b,
                                  ![fd].rights_inheriting = i]
        PROVE  /\ fds'[f].rights_base \subseteq fds[f].rights_base
               /\ fds'[f].rights_inheriting \subseteq fds[f].rights_inheriting
    <3>1. fds[fd] \in FdEntry /\ fds \in [DOMAIN fds -> FdEntry]
      BY <1>1 DEF TypeOK
    <3>2. CASE f = fd
      <4>1. fds'[f] = [fds[fd] EXCEPT !.rights_base = b, !.rights_inheriting = i]
        BY <2>5, <3>1, <3>2
      <4>2. fds'[f].rights_base = b /\ fds'[f].rights_inheriting = i
        BY <4>1, <3>1 DEF FdEntry
      <4> QED BY <4>2, <2>5, <3>2
    <3>3. CASE f # fd
      BY <2>5, <3>1, <3>3
    <3> QED BY <3>2, <3>3
  <2> QED BY <2>1, <2>2, <2>3, <2>4, <2>5 DEF GuestStep
<1>2. TypeOK /\ [Next]_vars => [Shrinks]_vars
  BY <1>1
<1> QED BY <1>2, TypeCorrect, PTL DEF Spec, RightsNeverGrow

\* A call that fails leaves both tables alone, however far it had got, if it is
\* not a result that cannot be written to the guest.
THEOREM FailureIsAtomic == Spec => AtomicFailure
<1> DEFINE Kept == phase = "run" /\ ret' \notin {"ESUCCESS", "EFAULT"}
                     => UNCHANGED <<fds, kfd>>
<1>1. ASSUME Next, phase = "run", ret' \notin {"ESUCCESS", "EFAULT"}
      PROVE  UNCHANGED <<fds, kfd>>
  <2>1. CASE \E errno : Return(errno)
    BY <2>1 DEF Return
  <2>2. CASE \E fd \in Fd : fd_close(fd)
    BY <1>1, <2>2 DEF fd_close, Return, Change
  <2>3. CASE \E a, b \in Fd : fd_renumber(a, b)
    BY <1>1, <2>3 DEF fd_renumber, Return, Change
  <2>4. CASE \E fd \in Fd, a \in RightsArgs :
               fd_fdstat_set_rights(fd, a.base, a.inheriting)
    BY <1>1, <2>4 DEF fd_fdstat_set_rights, Return, Change
  <2>5. CASE \E fd \in Fd, a \in OpenArgs : path_open(fd, a)
    <3>1. CASE \E raw, d : insert_fd_entry(raw, d)
      BY <1>1, <3>1 DEF insert_fd_entry, Return, Change
    <3> QED BY <2>1, <2>5, <3>1 DEF path_open
  <2> QED
    BY <1>1, <2>2, <2>3, <2>4, <2>5
    DEF Next, Calls, New, inherit_stdio, build, build_done, build_preopen,
        preopened_dir, DropCtx, DropAll, Dropped, vars
<1>2. [Next]_vars => [Kept]_vars
  BY <1>1
<1> QED BY <1>2, PTL DEF Spec, AtomicFailure
----------------------------------------------------------------------------
(* The numbers of the preopens. *)

\* What build's loop has reached: every number below the counter is taken,
\* from 3 on by a preopen that has left the builder's map.
Building ==
  /\ phase \in {"builder", "build"} =>
       \A f \in 0..2 : fds[f].preopen_path = NoPath
  /\ phase = "build" =>
       /\ DOMAIN fds = 0..(preopen_fd - 1)
       /\ \A f \in 3..(preopen_fd - 1) :
            /\ fds[f].preopen_path \in GuestPaths \ DOMAIN preopens
            /\ fds[f].file_type = "DIRECTORY"
            /\ "PATH_OPEN" \in fds[f].rights_base
       /\ \A f, g \in 3..(preopen_fd - 1) :
            f # g => fds[f].preopen_path # fds[g].preopen_path

LEMMA InitBuilding == Init => Building
  BY DEF Init, Building

\* A preopen's entry is a directory that fd_prestat_get finds.
LEMMA PreopenEntry ==
  ASSUME NEW raw, NEW d, NEW p, TypeOf[d.obj] = "dir"
  PROVE  /\ Entry("File", raw, d, p).preopen_path = p
         /\ Entry("File", raw, d, p).file_type = "DIRECTORY"
         /\ "PATH_OPEN" \in Entry("File", raw, d, p).rights_base
<1> DEFINE tr == determine_type_and_access_rights(TypeOf[d.obj], d.acc)
<1>1. "PATH_OPEN" \in RIGHTS_DIRECTORY_BASE
  BY DEF RIGHTS_DIRECTORY_BASE, RIGHTS_ALL
<1>2. determine_type_rights("dir")
        = [file_type |-> "DIRECTORY", base |-> RIGHTS_DIRECTORY_BASE,
           inheriting |-> RIGHTS_DIRECTORY_INHERITING]
  BY DEF determine_type_rights, TypeRights
<1>3. tr.file_type = "DIRECTORY" /\ "PATH_OPEN" \in tr.base
  BY <1>1, <1>2 DEF determine_type_and_access_rights
<1> HIDE DEF tr
<1> QED BY <1>3 DEF Entry, tr

LEMMA BuildPreopenBuilding ==
  ASSUME IInv, Building, NEW p \in GuestPaths, build_preopen(p)
  PROVE  Building'
<1> DEFINE raw == preopens[p]
<1>1. CASE TypeOf[kfd[raw].obj] # "dir"
  BY <1>1 DEF build_preopen, DropAll, Building
<1>2. CASE TypeOf[kfd[raw].obj] = "dir"
  <2> DEFINE e == Entry("File", raw, kfd[raw], p)
  <2>1. PICK f \in FreeFd(fds, preopen_fd) :
          fds' = Put(fds, f, e) /\ preopen_fd' = f + 1
    BY <1>2 DEF build_preopen
  <2>2. /\ phase = "build" /\ p \in DOMAIN preopens /\ phase' = phase
        /\ preopens' = Del(preopens, {p})
    BY <1>2 DEF build_preopen
  <2>3. /\ e.preopen_path = p /\ e.file_type = "DIRECTORY"
        /\ "PATH_OPEN" \in e.rights_base
    BY <1>2, PreopenEntry
  <2> HIDE DEF e
  <2>4. preopen_fd \in 3..(MaxFd + 1) /\ MaxFd \in Nat
    BY SizeAssumption DEF IInv, TypeOK
  <2>5. DOMAIN fds = 0..(preopen_fd - 1)
    BY <2>2 DEF Building
  <2>6. f = preopen_fd
    <3>1. f \in preopen_fd..MaxFd /\ \A x \in (preopen_fd..MaxFd) \ DOMAIN fds : f <= x
      BY DEF FreeFd, Least
    <3>2. preopen_fd \in (preopen_fd..MaxFd) \ DOMAIN fds
      BY <2>4, <2>5, <3>1
    <3> QED BY <3>1, <3>2, <2>4
  <2>7. /\ DOMAIN fds' = 0..preopen_fd /\ fds'[preopen_fd] = e
        /\ \A g \in 0..(preopen_fd - 1) : fds'[g] = fds[g]
    BY <2>1, <2>4, <2>5, <2>6 DEF Put
  <2>8. preopen_fd' - 1 = preopen_fd
    BY <2>1, <2>4, <2>6
  <2>9. DOMAIN preopens' = DOMAIN preopens \ {p}
    BY <2>2 DEF Del
  <2>10. \A g \in 3..preopen_fd : g \in 3..(preopen_fd - 1) \/ g = preopen_fd
    BY <2>4
  <2>11. \A g \in 3..(preopen_fd - 1) : g \in 0..(preopen_fd - 1)
    OBVIOUS
  <2>12. \A g \in 3..(preopen_fd - 1) :
           /\ fds[g].preopen_path \in GuestPaths \ DOMAIN preopens
           /\ fds[g].file_type = "DIRECTORY" /\ "PATH_OPEN" \in fds[g].rights_base
           /\ \A h \in 3..(preopen_fd - 1) :
                g # h => fds[g].preopen_path # fds[h].preopen_path
    BY <2>2 DEF Building
  <2>13. \A g \in 0..2 : fds'[g].preopen_path = NoPath
    <3>1. \A g \in 0..2 : g \in 0..(preopen_fd - 1)
      BY <2>4
    <3> QED BY <3>1, <2>2, <2>7 DEF Building
  <2>14. \A g \in 3..preopen_fd :
           /\ fds'[g].preopen_path \in GuestPaths \ DOMAIN preopens'
           /\ fds'[g].file_type = "DIRECTORY" /\ "PATH_OPEN" \in fds'[g].rights_base
    BY <2>2, <2>3, <2>7, <2>9, <2>10, <2>11, <2>12
  <2>15. \A g, h \in 3..preopen_fd :
           g # h => fds'[g].preopen_path # fds'[h].preopen_path
    BY <2>2, <2>3, <2>7, <2>10, <2>11, <2>12
  <2> QED BY <2>7, <2>8, <2>13, <2>14, <2>15 DEF Building
<1> QED BY <1>1, <1>2

LEMMA NextBuilding ==
  ASSUME IInv, Building, [Next]_vars
  PROVE  Building'
<1>1. CASE UNCHANGED <<phase, fds, preopens, preopen_fd>>
  BY <1>1 DEF Building
<1>2. CASE phase' \in {"run", "dropped"}
  BY <1>2 DEF Building
<1>3. CASE New
  <2>1. /\ phase' = "builder"
        /\ \E r0, r1, r2 :
             fds' = [f \in 0..2 |->
                       from(CASE f = 0 -> r0 [] f = 1 -> r1 [] OTHER -> r2,
                            NullDescription)]
    BY <1>3 DEF New
  <2>2. \A f \in 0..2 : fds'[f].preopen_path = NoPath
    BY <2>1 DEF from, Entry
  <2> QED BY <2>1, <2>2 DEF Building
<1>4. CASE inherit_stdio
  <2>1. CASE phase' = "dropped"
    BY <2>1, <1>2
  <2>2. CASE /\ phase' = phase /\ phase = "builder"
             /\ fds' = [f \in DOMAIN fds |->
                          IF f \in 0..2 THEN duplicate_stdio(f) ELSE fds[f]]
    <3>1. DOMAIN fds = 0..2
      BY <2>2 DEF IInv, Shape
    <3>2. \A f \in 0..2 : fds'[f] = duplicate_stdio(f)
      BY <2>2, <3>1
    <3>3. \A f \in 0..2 : fds'[f].preopen_path = NoPath
      BY <3>2 DEF duplicate_stdio, Entry
    <3> QED BY <3>3, <2>2 DEF Building
  <2> QED BY <1>4, <2>1, <2>2 DEF inherit_stdio, DropAll
<1>5. CASE \E d \in HostFiles, p \in GuestPaths : preopened_dir(d, p)
  BY <1>5 DEF preopened_dir, Building
<1>6. CASE build
  BY <1>6 DEF build, Building, IInv, Shape
<1>7. CASE \E p \in GuestPaths : build_preopen(p)
  BY <1>7, BuildPreopenBuilding
<1>8. CASE phase = "run" /\ phase' = phase
  BY <1>8 DEF Building
<1> QED
  BY <1>1, <1>2, <1>3, <1>4, <1>5, <1>6, <1>7, <1>8, ZenonT(30)
  DEF Next, Calls, build_done, DropCtx, DropAll, Dropped, vars,
      fd_close, fd_renumber, fd_fdstat_set_rights, path_open, insert_fd_entry,
      Return, Change
\* What the loop leaves is what startup code scanning from 3 must find.
LEMMA BuiltScannable ==
  ASSUME IInv, Building, build_done
  PROVE  Scannable'
<1> DEFINE n == preopen_fd - 3
<1>1. /\ phase = "build" /\ fds' = fds /\ preopen_fd \in 3..(MaxFd + 1)
      /\ MaxFd \in Nat
  BY SizeAssumption DEF build_done, IInv, TypeOK
<1>2. /\ DOMAIN fds = 0..(preopen_fd - 1)
      /\ \A f \in 0..2 : fds[f].preopen_path = NoPath
      /\ \A f \in 3..(preopen_fd - 1) :
           /\ fds[f].preopen_path \in GuestPaths
           /\ fds[f].file_type = "DIRECTORY" /\ "PATH_OPEN" \in fds[f].rights_base
      /\ \A f, g \in 3..(preopen_fd - 1) :
           f # g => fds[f].preopen_path # fds[g].preopen_path
  BY <1>1 DEF Building
<1>3. \A f \in 3..(preopen_fd - 1) : fds[f].preopen_path # NoPath
  BY <1>2, SizeAssumption
<1>4. PreopenFds = 3..(preopen_fd - 1)
  <2>1. \A f \in 0..(preopen_fd - 1) : f \in 0..2 \/ f \in 3..(preopen_fd - 1)
    OBVIOUS
  <2>2. \A f \in 3..(preopen_fd - 1) : f \in 0..(preopen_fd - 1)
    OBVIOUS
  <2> QED BY <2>1, <2>2, <1>2, <1>3 DEF PreopenFds
<1>5. Cardinality(PreopenFds) = n
  <2>1. 3 \in Int /\ preopen_fd - 1 \in Int
    BY <1>1
  <2>2. Cardinality(3..(preopen_fd - 1))
          = IF 3 > preopen_fd - 1 THEN 0 ELSE (preopen_fd - 1) - 3 + 1
    BY <2>1, FS_Interval
  <2> QED BY <2>2, <1>1, <1>4
<1>6. 2 + n = preopen_fd - 1 /\ 3 + n = preopen_fd
  BY <1>1
<1>7. \A f \in 3..(preopen_fd - 1) : fd_prestat_get(f) = "ESUCCESS"
  <2> TAKE f \in 3..(preopen_fd - 1)
  <2>1. f \in DOMAIN fds
    BY <1>2
  <2> QED BY <2>1, <1>2, <1>3 DEF fd_prestat_get, get_fd_entry, validate_rights
<1>8. fd_prestat_get(preopen_fd) = "EBADF"
  <2>1. preopen_fd \notin DOMAIN fds
    BY <1>1, <1>2
  <2> QED BY <2>1 DEF fd_prestat_get, get_fd_entry
<1>9. Scannable
  BY <1>2, <1>4, <1>5, <1>6, <1>7, <1>8 DEF Scannable
<1> QED
  BY <1>1, <1>9 DEF Scannable, PreopenFds, fd_prestat_get, get_fd_entry,
                    validate_rights

\* Right after build, startup code that asks fd_prestat_get for 3, 4, ... until
\* EBADF finds every preopen once, for every number of preopens and in whatever
\* order the HashMap yields them.
THEOREM ScanFindsPreopens == Spec => StartupScan
<1>1. Spec => []Building
  <2>1. IInv /\ Building /\ [Next]_vars => Building'
    BY NextBuilding
  <2> QED BY InitBuilding, Invariance, <2>1, PTL DEF Spec
<1>2. ASSUME IInv, Building, Next, phase = "build", phase' = "run"
      PROVE  Scannable'
  <2>1. build_done
    BY <1>2 DEF Next, Calls, New, inherit_stdio, build, build_preopen,
                preopened_dir, DropCtx, DropAll, Dropped, vars
  <2> QED BY <1>2, <2>1, BuiltScannable
<1>3. IInv /\ Building /\ [Next]_vars
        => [phase = "build" /\ phase' = "run" => Scannable']_vars
  BY <1>2
<1> QED BY <1>1, <1>3, Invariance, PTL DEF Spec, StartupScan
----------------------------------------------------------------------------
(* What an entry says of the object behind it. *)

\* fd_renumber alone replaces an open descriptor of the host.
NoRenumber == "fd_renumber" \notin GuestCalls

LEMMA HostKept ==
  ASSUME IInv, NoRenumber, [Next]_vars,
         NEW r \in DOMAIN kfd, r \in DOMAIN kfd'
  PROVE  kfd'[r] = kfd[r]
<1>1. CASE kfd' = kfd \/ \E S : kfd' = Del(kfd, S)
  BY <1>1 DEF Del
<1>2. ASSUME NEW raw \in Raw \ DOMAIN kfd, NEW d,
             \/ kfd' = Put(kfd, raw, d)
             \/ \E S : kfd' = Del(Put(kfd, raw, d), S)
      PROVE  kfd'[r] = kfd[r]
  BY <1>2 DEF Put, Del
<1>3. CASE New
  BY <1>3 DEF New, FreeRaw, Least, Put
<1>4. CASE inherit_stdio \/ DropCtx
  BY <1>1, <1>4 DEF inherit_stdio, DropCtx, DropAll
<1>5. CASE \E d \in HostFiles, p \in GuestPaths : preopened_dir(d, p)
  BY <1>2, <1>5 DEF preopened_dir, FreeRaw, Least
<1>6. CASE \E p \in GuestPaths : build_preopen(p)
  BY <1>1, <1>6 DEF build_preopen, DropAll
<1>7. CASE \E fd \in Fd : fd_close(fd)
  BY <1>1, <1>7 DEF fd_close, Return, Change
<1>8. CASE \E fd \in Fd, a \in RightsArgs :
             fd_fdstat_set_rights(fd, a.base, a.inheriting)
  BY <1>1, <1>8 DEF fd_fdstat_set_rights, Return, Change
<1>9. CASE \E fd \in Fd, a \in OpenArgs : path_open(fd, a)
  <2>1. CASE \E errno : Return(errno)
    BY <2>1, <1>1 DEF Return
  <2>2. CASE \E raw \in OpenRaw : \E d : insert_fd_entry(raw, d)
    BY <2>2, <1>1, <1>2, OpenRawFree DEF insert_fd_entry, Return, Change
  <2> QED BY <1>9, <2>1, <2>2 DEF path_open
<1> QED
  BY <1>1, <1>3, <1>4, <1>5, <1>6, <1>7, <1>8, <1>9
  DEF NoRenumber, Next, Calls, vars, build, build_done, Dropped

\* An entry stays, perhaps with fewer rights ...
Stays(f) ==
  /\ f \in DOMAIN fds
  /\ fds'[f].descriptor = fds[f].descriptor
  /\ fds'[f].file_type = fds[f].file_type
  /\ fds'[f].preopen_path = fds[f].preopen_path
  /\ fds'[f].rights_base \subseteq fds[f].rights_base
  /\ fds'[f].rights_inheriting \subseteq fds[f].rights_inheriting

\* ... or is made from the description that its host descriptor has then.
Made(f) ==
  \E kind, raw, path : raw \in DOMAIN kfd'
                         /\ fds'[f] = Entry(kind, raw, kfd'[raw], path)

LEMMA SetRightsStays ==
  ASSUME TypeOK, NEW fd \in DOMAIN fds, NEW b, NEW i,
         b \subseteq fds[fd].rights_base, i \subseteq fds[fd].rights_inheriting,
         fds' = [fds EXCEPT ![fd].rights_base = b, ![fd].rights_inheriting = i],
         NEW f \in DOMAIN fds'
  PROVE  Stays(f)
<1>1. fds \in [DOMAIN fds -> FdEntry] /\ f \in DOMAIN fds
  BY DEF TypeOK
<1>2. CASE f = fd
  <2>1. fds'[f] = [fds[f] EXCEPT !.rights_base = b, !.rights_inheriting = i]
    BY <1>1, <1>2
  <2>2. fds[f] \in FdEntry
    BY <1>1
  <2>3. /\ fds'[f].rights_base = b /\ fds'[f].rights_inheriting = i
        /\ fds'[f].descriptor = fds[f].descriptor
        /\ fds'[f].file_type = fds[f].file_type
        /\ fds'[f].preopen_path = fds[f].preopen_path
    BY <2>1, <2>2 DEF FdEntry
  <2> QED BY <1>1, <1>2, <2>3 DEF Stays
<1>3. CASE f # fd
  BY <1>1, <1>3 DEF Stays
<1> QED BY <1>2, <1>3

LEMMA EntrySteps ==
  ASSUME IInv, NoRenumber, [Next]_vars, NEW f \in DOMAIN fds'
  PROVE  Stays(f) \/ (Made(f) /\ (phase = "run" => f \notin DOMAIN fds))
<1>1. CASE fds' = fds \/ \E S : fds' = Del(fds, S)
  BY <1>1 DEF Del, Stays
<1>2. CASE New
  <2> DEFINE k(r0) == Put(kfd, r0, NullDescription)
             kk(r0, r1) == Put(k(r0), r1, NullDescription)
             new(r0, r1, r2) ==
               [x \in 0..2 |->
                  from(CASE x = 0 -> r0 [] x = 1 -> r1 [] OTHER -> r2,
                       NullDescription)]
  <2>1. PICK r0 \in FreeRaw(kfd) : \E r1 \in FreeRaw(k(r0)) :
          \E r2 \in FreeRaw(kk(r0, r1)) :
            fds' = new(r0, r1, r2) /\ kfd' = Put(kk(r0, r1), r2, NullDescription)
    BY <1>2 DEF New
  <2>2. PICK r1 \in FreeRaw(k(r0)) : \E r2 \in FreeRaw(kk(r0, r1)) :
            fds' = new(r0, r1, r2) /\ kfd' = Put(kk(r0, r1), r2, NullDescription)
    BY <2>1
  <2>3. PICK r2 \in FreeRaw(kk(r0, r1)) :
            fds' = new(r0, r1, r2) /\ kfd' = Put(kk(r0, r1), r2, NullDescription)
    BY <2>2
  <2>4. \A r \in {r0, r1, r2} : r \in DOMAIN kfd' /\ kfd'[r] = NullDescription
    BY <2>3 DEF Put
  <2>5. PICK r \in {r0, r1, r2} : fds'[f] = from(r, NullDescription)
    BY <2>3
  <2> QED BY <2>4, <2>5, <1>2 DEF New, from, Made
<1>3. CASE inherit_stdio
  <2>1. CASE fds' = Empty
    BY <2>1 DEF Empty
  <2>2. CASE /\ phase = "builder"
             /\ fds' = [x \in DOMAIN fds |->
                          IF x \in 0..2 THEN duplicate_stdio(x) ELSE fds[x]]
    <3>1. f \in 0..2 /\ phase # "run"
      BY <2>2 DEF IInv, Shape
    <3>2. f \in DOMAIN kfd /\ f \in DOMAIN kfd'
      BY <3>1, <1>3, HostAssumption, InheritIInv DEF IInv, Ownership, NoLeak
    <3>3. kfd'[f] = kfd[f]
      BY <3>2, HostKept
    <3>4. fds'[f] = duplicate_stdio(f)
      BY <2>2, <3>1
    <3> QED BY <3>1, <3>2, <3>3, <3>4 DEF duplicate_stdio, Made
  <2> QED BY <1>3, <2>1, <2>2 DEF inherit_stdio, DropAll
<1>4. CASE DropCtx
  BY <1>4 DEF DropCtx, DropAll, Empty
<1>5. CASE \E p \in GuestPaths : build_preopen(p)
  <2>1. CASE fds' = Empty
    BY <2>1 DEF Empty
  <2>2. CASE /\ phase = "build" /\ kfd' = kfd
             /\ \E x : \E p \in DOMAIN preopens :
                  fds' = Put(fds, x, Entry("File", preopens[p],
                                           kfd[preopens[p]], p))
    <3>1. \A p \in DOMAIN preopens : preopens[p] \in DOMAIN kfd
      BY DEF IInv, Ownership, NoLeak, Owned
    <3>2. PICK x : \E p \in DOMAIN preopens :
                  fds' = Put(fds, x, Entry("File", preopens[p],
                                           kfd[preopens[p]], p))
      BY <2>2
    <3>3. CASE f = x
      BY <2>2, <3>1, <3>2, <3>3 DEF Put, Made
    <3>4. CASE f # x
      BY <3>2, <3>4 DEF Put, Stays
    <3> QED BY <3>3, <3>4
  <2> QED BY <1>5, <2>1, <2>2 DEF build_preopen, DropAll
<1>6. CASE \E fd \in Fd : fd_close(fd)
  BY <1>1, <1>6 DEF fd_close, Return, Change
<1>7. CASE \E fd \in Fd, a \in RightsArgs :
             fd_fdstat_set_rights(fd, a.base, a.inheriting)
  <2>1. PICK fd \in Fd, a \in RightsArgs :
          fd_fdstat_set_rights(fd, a.base, a.inheriting)
    BY <1>7
  <2>2. CASE fds' = fds
    BY <2>2, <1>1
  <2>3. CASE /\ fd \in DOMAIN fds
             /\ validate_rights(fds[fd], a.base, a.inheriting) = "ESUCCESS"
             /\ fds' = [fds EXCEPT ![fd].rights_base = a.base,
                                   ![fd].rights_inheriting = a.inheriting]
    BY <2>3, SetRightsStays DEF validate_rights, IInv
  <2> QED BY <2>1, <2>2, <2>3 DEF fd_fdstat_set_rights, Return, Change
<1>8. CASE \E fd \in Fd, a \in OpenArgs : path_open(fd, a)
  <2>1. CASE fds' = fds
    BY <2>1, <1>1
  <2>2. CASE \E raw, d : \E fd \in FreeFd(fds, 3) :
               fds' = Put(fds, fd, from(raw, d)) /\ kfd' = Put(kfd, raw, d)
    <3>1. PICK raw, d : \E fd \in FreeFd(fds, 3) :
               fds' = Put(fds, fd, from(raw, d)) /\ kfd' = Put(kfd, raw, d)
      BY <2>2
    <3>2. PICK fd \in FreeFd(fds, 3) :
               fds' = Put(fds, fd, from(raw, d)) /\ kfd' = Put(kfd, raw, d)
      BY <3>1
    <3>3. fd \notin DOMAIN fds /\ raw \in DOMAIN kfd' /\ kfd'[raw] = d
      BY <3>2 DEF FreeFd, Least, Put
    <3>4. CASE f = fd
      BY <3>2, <3>3, <3>4 DEF Put, from, Made
    <3>5. CASE f # fd
      BY <3>2, <3>5 DEF Put, Stays
    <3> QED BY <3>4, <3>5
  <2> QED BY <1>8, <2>1, <2>2, ZenonT(30) DEF path_open, insert_fd_entry, Return, Change
<1> QED
  BY <1>1, <1>2, <1>3, <1>4, <1>5, <1>6, <1>7, <1>8
  DEF NoRenumber, Next, Calls, vars, build, build_done, preopened_dir,
      Dropped
LEMMA EntriesOpen ==
  IInv => \A f \in DOMAIN fds : fds[f].descriptor.raw \in DOMAIN kfd
  BY EntryOpen DEF IInv

LEMMA EntriesOpenNext ==
  IInv' => \A f \in DOMAIN fds' : fds'[f].descriptor.raw \in DOMAIN kfd'
<1>1. IInv' => (\A f \in DOMAIN fds : fds[f].descriptor.raw \in DOMAIN kfd)'
  BY EntriesOpen, PTL
<1> QED BY <1>1

\* While the context is in use no call but fd_renumber removes a preopen.
LEMMA PreopenListed ==
  ASSUME IInv, NoRenumber, Next, phase = "run", phase' = "run",
         NEW f \in PreopenFds
  PROVE  f \in DOMAIN fds'
<1>1. f \in DOMAIN fds /\ fds[f].preopen_path # NoPath
  BY DEF PreopenFds
<1>2. CASE fds' = fds
  BY <1>1, <1>2
<1>3. CASE \E fd \in Fd : fd_close(fd)
  BY <1>1, <1>3 DEF fd_close, Return, Change, Del
<1>4. CASE \E fd \in Fd, a \in RightsArgs :
             fd_fdstat_set_rights(fd, a.base, a.inheriting)
  BY <1>1, <1>4 DEF fd_fdstat_set_rights, Return, Change
<1>5. CASE \E fd \in Fd, a \in OpenArgs : path_open(fd, a)
  <2>1. CASE \E raw, d : insert_fd_entry(raw, d)
    BY <2>1, <1>1 DEF insert_fd_entry, Return, Change, Put
  <2> QED BY <1>1, <1>5, <2>1 DEF path_open, Return
<1> QED
  BY <1>2, <1>3, <1>4, <1>5
  DEF NoRenumber, Next, Calls, New, inherit_stdio, build, build_done,
      build_preopen, preopened_dir, DropCtx, DropAll, Dropped, vars

LEMMA StepAccurate ==
  ASSUME IInv, IInv', EntriesAccurate, NoRenumber, [Next]_vars
  PROVE  EntriesAccurate'
<1> DEFINE Tr(d) == determine_type_and_access_rights(TypeOf[d.obj], d.acc)
<1> SUFFICES ASSUME NEW f \in DOMAIN fds'
             PROVE  LET d == kfd'[fds'[f].descriptor.raw]
                    IN  /\ fds'[f].file_type = Tr(d).file_type
                        /\ fds'[f].rights_base \subseteq Tr(d).base
                        /\ fds'[f].rights_inheriting \subseteq Tr(d).inheriting
  BY DEF EntriesAccurate
<1>1. CASE Stays(f)
  <2> DEFINE raw == fds[f].descriptor.raw
  <2>1. f \in DOMAIN fds /\ fds'[f].descriptor.raw = raw
    BY <1>1 DEF Stays
  <2>2. raw \in DOMAIN kfd
    BY <2>1, EntryOpen DEF IInv
  <2>3. raw \in DOMAIN kfd'
    BY <2>1, EntriesOpenNext
  <2>4. kfd'[raw] = kfd[raw]
    BY <2>2, <2>3, HostKept
  <2>5. /\ fds[f].file_type = Tr(kfd[raw]).file_type
        /\ fds[f].rights_base \subseteq Tr(kfd[raw]).base
        /\ fds[f].rights_inheriting \subseteq Tr(kfd[raw]).inheriting
    BY <2>1 DEF EntriesAccurate
  <2> HIDE DEF raw, Tr
  <2> QED BY <1>1, <2>1, <2>4, <2>5 DEF Stays
<1>2. CASE Made(f)
  BY <1>2 DEF Made, Entry
<1> QED BY <1>1, <1>2, EntrySteps

\* An entry's file type and rights are true of the object behind it, for every
\* host and every sequence of opens, closes and reductions of rights: only the
\* dup2 of fd_renumber, which the hypothesis leaves out, changes that object.
THEOREM EntriesTellTheTruth ==
  ASSUME NoRenumber
  PROVE  Spec => []EntriesAccurate
<1>1. Init => EntriesAccurate
  BY DEF Init, EntriesAccurate, Empty
<1>2. IInv /\ IInv' /\ EntriesAccurate /\ [Next]_vars => EntriesAccurate'
  BY StepAccurate
<1> QED BY <1>1, <1>2, Invariance, PTL DEF Spec

\* A preopen keeps its number, its guest path and its host descriptor for the
\* context's life, again unless the guest calls fd_renumber.
THEOREM PreopensAreKept ==
  ASSUME NoRenumber
  PROVE  Spec => PreopensStay
<1> DEFINE Stay ==
      phase = "run" /\ phase' = "run" =>
        \A f \in PreopenFds :
          /\ f \in DOMAIN fds'
          /\ fds'[f].preopen_path = fds[f].preopen_path
          /\ fds'[f].descriptor = fds[f].descriptor
          /\ kfd'[fds[f].descriptor.raw] = kfd[fds[f].descriptor.raw]
<1>1. ASSUME IInv, IInv', Next, phase = "run", phase' = "run",
             NEW f \in PreopenFds
      PROVE  /\ f \in DOMAIN fds'
             /\ fds'[f].preopen_path = fds[f].preopen_path
             /\ fds'[f].descriptor = fds[f].descriptor
             /\ kfd'[fds[f].descriptor.raw] = kfd[fds[f].descriptor.raw]
  <2>1. f \in DOMAIN fds /\ fds[f].preopen_path # NoPath
    BY DEF PreopenFds
  <2>2. f \in DOMAIN fds'
    BY <1>1, <2>1, PreopenListed
  <2>3. Stays(f)
    BY <1>1, <2>1, <2>2, EntrySteps
  <2>4. fds[f].descriptor.raw \in DOMAIN kfd
    BY <1>1, <2>1, EntryOpen DEF IInv
  <2>5. fds[f].descriptor.raw \in DOMAIN kfd'
    BY <1>1, <2>2, <2>3, EntriesOpenNext DEF Stays
  <2> QED BY <1>1, <2>2, <2>3, <2>4, <2>5, HostKept DEF Stays
<1>2. IInv /\ IInv' /\ [Next]_vars => [Stay]_vars
  BY <1>1
<1> QED BY <1>2, Invariance, PTL DEF Spec, PreopensStay
=============================================================================
