------------------------------- MODULE WasiCtx -------------------------------
(***************************************************************************)
(* The descriptor tables of a wasi-common instance on a Unix host: the     *)
(* guest's table WasiCtx.fds (src/src/ctx.rs), built by WasiCtxBuilder and *)
(* changed by fd_close, fd_renumber, fd_fdstat_set_rights and path_open,   *)
(* beside the host process's own descriptor table, which the std::fs::File *)
(* values inside the entries own.                                          *)
(*                                                                         *)
(* A WasiCtx is used through &mut, so a host call is one step.  A context  *)
(* is built, used and dropped once.  Of build's loop each iteration is a   *)
(* step; nothing else runs between them.                                   *)
(***************************************************************************)
EXTENDS Integers, FiniteSets, Rights

CONSTANTS
  MaxRaw,      \* host descriptors are 0..MaxRaw (RLIMIT_NOFILE - 1)
  MaxFd,       \* guest descriptors are 0..MaxFd (u32::MAX in the code)
  Obj,         \* the files, directories and devices of the host
  TypeOf,      \* the host type of each of them
  Contents,    \* what a path relative to an object can lead to
  DevNull,     \* /dev/null
  HostFds,     \* descriptors the process holds before a context is built
  HostFiles,   \* open files the embedder may pass to preopened_dir
  GuestPaths,  \* guest names of preopens
  RightsArgs,  \* pairs of masks it passes to fd_fdstat_set_rights
  OpenArgs,    \* rights, open flags and fd flags it passes to path_open
  GuestCalls   \* the table-changing calls the guest makes

Raw == 0..MaxRaw
Fd == 0..MaxFd
HostRaw == DOMAIN HostFds

OFlag == {"CREAT", "DIRECTORY", "EXCL", "TRUNC"}
FdFlag == {"APPEND", "DSYNC", "NONBLOCK", "RSYNC", "SYNC"}

\* An open file description of the host kernel.
Description == [obj : Obj, acc : AccMode]

NoPath == "None"

\* Descriptor::File owns a host descriptor; the other kinds own nothing and
\* stand for the process's 0, 1 and 2.
Descriptor == [kind : {"File"}, raw : Raw]
                \cup [kind : {"Stdin", "Stdout", "Stderr"}, raw : 0..2]

FdEntry == [file_type : FileType, descriptor : Descriptor,
            rights_base : SUBSET RIGHTS_ALL,
            rights_inheriting : SUBSET RIGHTS_ALL,
            preopen_path : GuestPaths \cup {NoPath}]

ASSUME SizeAssumption ==
  /\ MaxRaw \in Nat /\ MaxFd \in Nat
  /\ IsFiniteSet(GuestPaths) /\ NoPath \notin GuestPaths
  /\ Cardinality(GuestPaths) + 2 <= MaxFd

ASSUME HostAssumption ==
  /\ TypeOf \in [Obj -> HostType]
  /\ Contents \in [Obj -> SUBSET Obj]
  /\ \A o \in Obj : \A p \in Contents[o] : Contents[p] \subseteq Contents[o]
  /\ DevNull \in Obj /\ TypeOf[DevNull] = "char"
  /\ HostRaw \subseteq Raw /\ 0..2 \subseteq HostRaw
  /\ HostFds \in [HostRaw -> Description]
  /\ HostFiles \subseteq Description

ASSUME GuestAssumption ==
  /\ RightsArgs \subseteq [base : RightsMask, inheriting : RightsMask]
  /\ OpenArgs \subseteq [base : RightsMask, inheriting : RightsMask,
                         oflags : SUBSET OFlag, fs_flags : SUBSET FdFlag]

VARIABLES
  phase,       \* "none", "builder", "build" (in build's loop), "run", "dropped"
  fds,         \* WasiCtxBuilder.fds, then WasiCtx.fds
  preopens,    \* WasiCtxBuilder.preopens: guest path -> raw fd of the File
  preopen_fd,  \* build's counter
  kfd,         \* the host process's descriptor table
  ret          \* the errno of the last call

vars == <<phase, fds, preopens, preopen_fd, kfd, ret>>

----------------------------------------------------------------------------
(* Tables are functions with a finite domain. *)

Put(t, k, v) == [x \in DOMAIN t \cup {k} |-> IF x = k THEN v ELSE t[x]]
Del(t, S) == [x \in DOMAIN t \ S |-> t[x]]
Empty == [x \in {} |-> x]

\* The least element of S, as a set: empty when S is.
Least(S) == {x \in S : \A y \in S : x <= y}

\* The descriptor the host kernel hands out next.
FreeRaw(k) == Least(Raw \ DOMAIN k)

\* Mutant: the number after the last one is handed out.
FreeFd_past_end(t, start) == Least((start..(MaxFd + 1)) \ DOMAIN t)

\* The first guest descriptor from start on that the table does not use.
FreeFd(t, start) == Least((start..MaxFd) \ DOMAIN t)

----------------------------------------------------------------------------
(* fdentry.rs *)

Entry(kind, raw, description, path) ==
  LET tr == determine_type_and_access_rights(TypeOf[description.obj],
                                             description.acc)
  IN  [file_type |-> tr.file_type, descriptor |-> [kind |-> kind, raw |-> raw],
       rights_base |-> tr.base, rights_inheriting |-> tr.inheriting,
       preopen_path |-> path]

\* Mutant: the access mode of the file is not looked at.
from_any_access(raw, description) ==
  [Entry("File", raw, description, NoPath)
     EXCEPT !.rights_base = determine_type_rights(TypeOf[description.obj]).base]

\* FdEntry::from
from(raw, description) == Entry("File", raw, description, NoPath)

\* FdEntry::duplicate_stdin, duplicate_stdout and duplicate_stderr
duplicate_stdio(raw) ==
  Entry(CASE raw = 0 -> "Stdin" [] raw = 1 -> "Stdout" [] OTHER -> "Stderr",
        raw, kfd[raw], NoPath)

\* FdObject::drop: the host descriptors that dropping an entry closes.
\* needs_close is true in every entry.
drop(fe) == IF fe.descriptor.kind = "File" THEN {fe.descriptor.raw} ELSE {}

\* The host descriptors the context under construction or in use owns.
Owned == (UNION {drop(fds[f]) : f \in DOMAIN fds})
           \cup {preopens[p] : p \in DOMAIN preopens}

\* Dropping the WasiCtxBuilder or the WasiCtx, which an error does as well.
DropAll(errno) ==
  /\ phase' = "dropped"
  /\ fds' = Empty /\ preopens' = Empty /\ preopen_fd' = 3
  /\ kfd' = Del(kfd, Owned)
  /\ ret' = errno

----------------------------------------------------------------------------
(* WasiCtxBuilder *)

Init ==
  /\ phase = "none"
  /\ fds = Empty /\ preopens = Empty /\ preopen_fd = 3
  /\ kfd = HostFds
  /\ ret = "ESUCCESS"

NullDescription == [obj |-> DevNull, acc |-> "O_RDONLY"]

\* Three opens of /dev/null.  When the process has fewer than three free
\* descriptors new returns the error and drops what it opened: no step.
New ==
  /\ phase = "none"
  /\ \E r0 \in FreeRaw(kfd) :
       LET k0 == Put(kfd, r0, NullDescription) IN
       \E r1 \in FreeRaw(k0) :
         LET k1 == Put(k0, r1, NullDescription) IN
         \E r2 \in FreeRaw(k1) :
           /\ fds' = [f \in 0..2 |->
                        from(CASE f = 0 -> r0 [] f = 1 -> r1 [] OTHER -> r2,
                             NullDescription)]
           /\ kfd' = Put(k1, r2, NullDescription)
  /\ phase' = "builder"
  /\ ret' = "ESUCCESS"
  /\ UNCHANGED <<preopens, preopen_fd>>

\* Entries 0..2 are replaced; the ones they replace are dropped.
inherit_stdio ==
  /\ phase = "builder"
  /\ IF \A r \in 0..2 : TypeOf[kfd[r].obj] \in Classified
     THEN /\ fds' = [f \in DOMAIN fds |->
                       IF f \in 0..2 THEN duplicate_stdio(f) ELSE fds[f]]
          /\ kfd' = Del(kfd, UNION {drop(fds[f]) : f \in 0..2})
          /\ ret' = "ESUCCESS"
          /\ UNCHANGED <<phase, preopens, preopen_fd>>
     ELSE DropAll("EINVAL")

\* The embedder opens a file and hands it over; a file given for the same
\* guest path before is dropped.
preopened_dir(description, guest_path) ==
  /\ phase = "builder"
  /\ \E raw \in FreeRaw(kfd) :
       /\ preopens' = Put(preopens, guest_path, raw)
       /\ kfd' = Del(Put(kfd, raw, description),
                     {preopens[p] : p \in DOMAIN preopens \cap {guest_path}})
  /\ ret' = "ESUCCESS"
  /\ UNCHANGED <<phase, fds, preopen_fd>>

\* build takes the builder, and starts its loop.
build ==
  /\ phase = "builder"
  /\ phase' = "build" /\ preopen_fd' = 3
  /\ UNCHANGED <<fds, preopens, kfd, ret>>

\* Mutant: the counter is advanced once in the search and once after it.
build_preopen_skips(guest_path) ==
  /\ phase = "build" /\ guest_path \in DOMAIN preopens
  /\ LET raw == preopens[guest_path] IN
     IF TypeOf[kfd[raw].obj] = "dir"
     THEN /\ \E f \in FreeFd(fds, preopen_fd) :
               /\ fds' = Put(fds, f, Entry("File", raw, kfd[raw], guest_path))
               /\ preopen_fd' = f + 2
          /\ preopens' = Del(preopens, {guest_path})
          /\ UNCHANGED <<phase, kfd, ret>>
     ELSE DropAll("EBADF")

\* One iteration, in the order of a HashMap, which is arbitrary.  The
\* counter cannot overflow: there are fewer preopens than descriptors.
build_preopen(guest_path) ==
  /\ phase = "build" /\ guest_path \in DOMAIN preopens
  /\ LET raw == preopens[guest_path] IN
     IF TypeOf[kfd[raw].obj] = "dir"
     THEN /\ \E f \in FreeFd(fds, preopen_fd) :
               /\ fds' = Put(fds, f,
                             Entry("File", raw, kfd[raw], guest_path))
               /\ preopen_fd' = f + 1
          /\ preopens' = Del(preopens, {guest_path})
          /\ UNCHANGED <<phase, kfd, ret>>
     ELSE DropAll("EBADF")

build_done ==
  /\ phase = "build" /\ preopens = Empty
  /\ phase' = "run"
  /\ ret' = "ESUCCESS"
  /\ UNCHANGED <<fds, preopens, preopen_fd, kfd>>

\* The embedder drops the builder or the context.
DropCtx ==
  /\ phase \in {"builder", "run"}
  /\ DropAll("ESUCCESS")

Dropped == phase = "dropped" /\ UNCHANGED vars

----------------------------------------------------------------------------
(* WasiCtx, and the host calls that change its table *)

\* A call that returns without touching a table.
Return(errno) ==
  /\ ret' = errno
  /\ UNCHANGED <<phase, fds, preopens, preopen_fd, kfd>>

\* A call that changes the tables.
Change(errno, new_fds, new_kfd) ==
  /\ fds' = new_fds /\ kfd' = new_kfd
  /\ ret' = errno
  /\ UNCHANGED <<phase, preopens, preopen_fd>>

\* Mutant: a reduction by one right is taken for a reduction.
validate_rights_any(fe, rights_base, rights_inheriting) ==
  IF \/ rights_base \subseteq fe.rights_base
     \/ rights_inheriting \subseteq fe.rights_inheriting
  THEN "ESUCCESS" ELSE "ENOTCAPABLE"

validate_rights(fe, rights_base, rights_inheriting) ==
  IF rights_base \subseteq fe.rights_base
     /\ rights_inheriting \subseteq fe.rights_inheriting
  THEN "ESUCCESS" ELSE "ENOTCAPABLE"

\* The errno of get_fd_entry; on ESUCCESS the entry is fds[fd].
get_fd_entry(fd, rights_base, rights_inheriting) ==
  IF fd \in DOMAIN fds
  THEN validate_rights(fds[fd], rights_base, rights_inheriting)
  ELSE "EBADF"

\* Mutant: the entry is removed and its file forgotten.
fd_close_forgets(fd) ==
  \/ /\ fd \notin DOMAIN fds
     /\ Return("EBADF")
  \/ /\ fd \in DOMAIN fds /\ fds[fd].preopen_path # NoPath
     /\ Return("ENOTSUP")
  \/ /\ fd \in DOMAIN fds /\ fds[fd].preopen_path = NoPath
     /\ Change("ESUCCESS", Del(fds, {fd}), kfd)

\* Mutant: a preopen is closed like any other descriptor.
fd_close_any(fd) ==
  \/ /\ fd \notin DOMAIN fds
     /\ Return("EBADF")
  \/ /\ fd \in DOMAIN fds
     /\ Change("ESUCCESS", Del(fds, {fd}), Del(kfd, drop(fds[fd])))

fd_close(fd) ==
  \/ /\ fd \notin DOMAIN fds
     /\ Return("EBADF")
  \/ /\ fd \in DOMAIN fds /\ fds[fd].preopen_path # NoPath
     /\ Return("ENOTSUP")
  \/ /\ fd \in DOMAIN fds /\ fds[fd].preopen_path = NoPath
     /\ Change("ESUCCESS", Del(fds, {fd}),
               Del(kfd, drop(fds[fd])))

\* The masks may only shrink.
fd_fdstat_set_rights(fd, rights_base, rights_inheriting) ==
  \/ /\ fd \notin DOMAIN fds
     /\ Return("EBADF")
  \/ /\ fd \in DOMAIN fds
     /\ validate_rights(fds[fd], rights_base, rights_inheriting) # "ESUCCESS"
     /\ Return("ENOTCAPABLE")
  \/ /\ fd \in DOMAIN fds
     /\ validate_rights(fds[fd], rights_base, rights_inheriting) = "ESUCCESS"
     /\ Change("ESUCCESS",
               [fds EXCEPT ![fd].rights_base = rights_base,
                           ![fd].rights_inheriting = rights_inheriting],
               kfd)

\* Mutant: the descriptor is copied into the entry of `to`, not duplicated.
fd_renumber_copies(from_fd, to_fd) ==
  IF {from_fd, to_fd} \subseteq DOMAIN fds
  THEN Change("ESUCCESS",
              [fds EXCEPT ![to_fd].descriptor = fds[from_fd].descriptor],
              Del(kfd, drop(fds[to_fd]) \ drop(fds[from_fd])))
  ELSE Return("EBADF")

\* Mutant: dup2 is given the guest's numbers.
fd_renumber_guest_numbers(from_fd, to_fd) ==
  IF {from_fd, to_fd} \subseteq DOMAIN fds \cap DOMAIN kfd
  THEN Change("ESUCCESS", fds, Put(kfd, to_fd, kfd[from_fd]))
  ELSE Return("EBADF")

\* dup2 makes the host descriptor behind `to` another reference to what is
\* behind `from`, or fails.  Then the entry removed from the table, and
\* dropped, is the one whose guest number equals from's HOST descriptor.
fd_renumber(from_fd, to_fd) ==
  \/ /\ ~({from_fd, to_fd} \subseteq DOMAIN fds)
     /\ Return("EBADF")
  \/ /\ {from_fd, to_fd} \subseteq DOMAIN fds
     /\ \E fd \in {from_fd, to_fd} : fds[fd].preopen_path # NoPath
     /\ Return("ENOTSUP")
  \/ /\ {from_fd, to_fd} \subseteq DOMAIN fds
     /\ \A fd \in {from_fd, to_fd} : fds[fd].preopen_path = NoPath
     /\ LET rawfd_from == fds[from_fd].descriptor.raw
            rawfd_to == fds[to_fd].descriptor.raw
        IN  \/ Return("EHOST")
            \/ Change("ESUCCESS",
                      Del(fds, {rawfd_from}),
                      Del(Put(kfd, rawfd_to, kfd[rawfd_from]),
                          UNION {drop(fds[f]) :
                                   f \in DOMAIN fds \cap {rawfd_from}}))

\* The rights that path_open opens an object for writing for.
WriteRights ==
  {"FD_DATASYNC", "FD_WRITE", "FD_ALLOCATE", "FD_FILESTAT_SET_SIZE"}

\* The access mode path_open asks the host for.
OpenMode(fs_rights_base) ==
  LET read == fs_rights_base \cap {"FD_READ", "FD_READDIR"} # {}
      write == fs_rights_base \cap WriteRights # {}
  IN  IF read /\ write THEN "O_RDWR" ELSE IF write THEN "O_WRONLY"
                                                   ELSE "O_RDONLY"

\* The rights path_open needs on the directory.  On Linux O_SYNC and O_RSYNC
\* contain the bit of O_DSYNC, so that each sync flag needs both rights.
NeededBase(oflags) ==
  {"PATH_OPEN"}
    \cup (IF "CREAT" \in oflags THEN {"PATH_CREATE_FILE"} ELSE {})
    \cup (IF "TRUNC" \in oflags THEN {"PATH_FILESTAT_SET_SIZE"} ELSE {})

\* Mutant: what the guest asks for itself is not asked of the directory.
NeededInheriting_passed_on(a) ==
  a.inheriting
    \cup (IF a.fs_flags \cap {"DSYNC", "RSYNC", "SYNC"} # {}
          THEN {"FD_DATASYNC", "FD_SYNC"} ELSE {})

NeededInheriting(a) ==
  a.base \cup a.inheriting
    \cup (IF a.fs_flags \cap {"DSYNC", "RSYNC", "SYNC"} # {}
          THEN {"FD_DATASYNC", "FD_SYNC"} ELSE {})

\* What the host's openat accepts: no sockets, directories only to read.
CanOpen(o, acc, oflags) ==
  /\ TypeOf[o] \in {"block", "char", "tty", "dir", "file", "fifo"}
  /\ TypeOf[o] = "dir" => acc = "O_RDONLY" /\ {"CREAT", "TRUNC"} \cap oflags = {}
  /\ "DIRECTORY" \in oflags => TypeOf[o] = "dir"

\* The host descriptor of the opened file.  path_get holds a clone of the
\* directory, on the lowest free one, and maybe directories below it; of
\* these only the one it returns is still open when path_open calls openat.
OpenRaw ==
  LET free == Raw \ DOMAIN kfd
  IN  UNION {IF free = {clone} THEN {}
             ELSE {clone} \cup Least(free \ {clone}) : clone \in Least(free)}

\* Mutant: the search for a free number starts with stdin.
insert_fd_entry_from_0(raw, description) ==
  LET free == FreeFd(fds, 0)
  IN  \/ /\ free = {}
         /\ Return("EMFILE")
      \/ \E fd \in free :
           Change("ESUCCESS", Put(fds, fd, from(raw, description)),
                  Put(kfd, raw, description))

\* Mutant: the file stays open when no number is free.
insert_fd_entry_forgets(raw, description) ==
  LET free == FreeFd(fds, 3)
  IN  \/ /\ free = {}
         /\ Change("EMFILE", fds, Put(kfd, raw, description))
      \/ \E fd \in free :
           Change("ESUCCESS", Put(fds, fd, from(raw, description)),
                  Put(kfd, raw, description))

\* insert_fd_entry and the end of path_open: the entry is dropped when no
\* number is free, and stays when its number cannot be written to the guest.
insert_fd_entry(raw, description) ==
  LET free == FreeFd(fds, 3)
  IN  \/ /\ free = {}
         /\ Return("EMFILE")
      \/ \E fd \in free, errno \in {"ESUCCESS", "EFAULT"} :
           Change(errno, Put(fds, fd, from(raw, description)),
                  Put(kfd, raw, description))

\* Every host error of path_get and openat is EHOST.
path_open(dirfd, a) ==
  LET errno == get_fd_entry(dirfd, NeededBase(a.oflags), NeededInheriting(a))
      acc == OpenMode(a.base)
  IN
  \/ Return("EFAULT")
  \/ /\ errno # "ESUCCESS"
     /\ Return(errno)
  \/ /\ errno = "ESUCCESS" /\ fds[dirfd].descriptor.kind # "File"
     /\ Return("EBADF")
  \/ /\ errno = "ESUCCESS" /\ fds[dirfd].descriptor.kind = "File"
     /\ \/ Return("EHOST")
        \/ \E raw \in OpenRaw,
              o \in Contents[kfd[fds[dirfd].descriptor.raw].obj] :
             /\ CanOpen(o, acc, a.oflags)
             /\ insert_fd_entry(raw, [obj |-> o, acc |-> acc])

Calls(call) == phase = "run" /\ call \in GuestCalls

Next ==
  \/ New \/ inherit_stdio \/ build \/ build_done \/ DropCtx \/ Dropped
  \/ \E d \in HostFiles, p \in GuestPaths : preopened_dir(d, p)
  \/ \E p \in GuestPaths : build_preopen(p)
  \/ \E fd \in Fd : Calls("fd_close") /\ fd_close(fd)
  \/ \E from_fd, to_fd \in Fd : Calls("fd_renumber") /\ fd_renumber(from_fd, to_fd)
  \/ \E fd \in Fd, a \in RightsArgs :
       Calls("fd_fdstat_set_rights")
         /\ fd_fdstat_set_rights(fd, a.base, a.inheriting)
  \/ \E fd \in Fd, a \in OpenArgs : Calls("path_open") /\ path_open(fd, a)

Spec == Init /\ [][Next]_vars

----------------------------------------------------------------------------
(* Properties *)

\* The variables have the types of the code's fields.
TypeOK ==
  /\ phase \in {"none", "builder", "build", "run", "dropped"}
  /\ fds \in [DOMAIN fds -> FdEntry] /\ DOMAIN fds \subseteq Fd
  /\ preopens \in [DOMAIN preopens -> Raw] /\ DOMAIN preopens \subseteq GuestPaths
  /\ preopen_fd \in 3..(MaxFd + 1)
  /\ kfd \in [DOMAIN kfd -> Description] /\ DOMAIN kfd \subseteq Raw

\* Every host descriptor has one owner: two entries of the guest's table, or
\* an entry and a preopen still in the builder, never hold the same one, and
\* none holds one of the process's own.  A File closes its descriptor when it
\* is dropped (FdObject::drop), so a second owner would close it twice.
SoleOwner ==
  /\ \A f, g \in DOMAIN fds : f # g => drop(fds[f]) \cap drop(fds[g]) = {}
  /\ \A p, q \in DOMAIN preopens : p # q => preopens[p] # preopens[q]
  /\ \A f \in DOMAIN fds, p \in DOMAIN preopens : preopens[p] \notin drop(fds[f])
  /\ Owned \cap HostRaw = {}

\* The host descriptors open are the process's own and the ones the context
\* owns: no entry refers to a closed descriptor, and no descriptor is left
\* open by a replaced stdio entry or preopen, a failed build, a path_open that
\* finds no free number, a close, a renumbering or a dropped context.
NoLeak == DOMAIN kfd = HostRaw \cup Owned

\* Objects the embedder gave the guest: /dev/null, its stdio, the files passed
\* to preopened_dir, and what paths relative to these lead to.
Given == {DevNull} \cup {HostFds[r].obj : r \in 0..2}
                   \cup {d.obj : d \in HostFiles}
GivenOpen == {NullDescription} \cup {HostFds[r] : r \in 0..2} \cup HostFiles
Granted == Given \cup UNION {Contents[o] : o \in Given}

\* The guest's descriptors refer to granted objects only, whatever sequence of
\* opens, closes and renumberings (dup2) it makes; the process's own
\* descriptors beside stdio are never replaced.
Confined ==
  /\ \A r \in Owned \cup 0..2 : kfd[r].obj \in Granted
  /\ \A r \in HostRaw \ 0..2 : kfd[r] = HostFds[r]

\* ctx.rs, insert_fd_entry: "never insert where stdio handles usually are".  A
\* number below 3 that the guest closed is not used again.
StdioReserved ==
  [][phase = "run" /\ phase' = "run"
       => DOMAIN fds' \cap 0..2 \subseteq DOMAIN fds]_vars

\* No call adds a right to a descriptor the guest holds.
RightsNeverGrow ==
  [][phase = "run" /\ phase' = "run" =>
       \A f \in DOMAIN fds \cap DOMAIN fds' :
         /\ fds'[f].rights_base \subseteq fds[f].rights_base
         /\ fds'[f].rights_inheriting \subseteq fds[f].rights_inheriting]_vars

\* A call that fails changes neither table.  The exception is a result that
\* cannot be written back (EFAULT): path_open keeps the new entry then.
AtomicFailure ==
  [][phase = "run" /\ ret' \notin {"ESUCCESS", "EFAULT"}
       => UNCHANGED <<fds, kfd>>]_vars

\* The guest's view of its table: what each number refers to, with its rights.
Held ==
  IF phase # "run" THEN Empty
  ELSE [f \in DOMAIN fds |-> LET d == kfd[fds[f].descriptor.raw]
                             IN  [obj |-> d.obj, acc |-> d.acc,
                                  base |-> fds[f].rights_base,
                                  inheriting |-> fds[f].rights_inheriting]]

Life == IF phase = "run" THEN "running"
        ELSE IF phase = "dropped" THEN "over" ELSE "before"

TypeBase ==
  [o \in Obj |-> [a \in AccMode |->
                   determine_type_and_access_rights(TypeOf[o], a).base]]
TypeInheriting == [o \in Obj |-> determine_type_rights(TypeOf[o]).inheriting]

Caps == INSTANCE Capabilities WITH
  life <- Life, held <- Held, Given <- GivenOpen,
  ReadOnly <- "O_RDONLY", WriteRights <- WriteRights,
  MaxBase <- TypeBase, MaxInheriting <- TypeInheriting

\* Every step of the builder and of the guest's calls is one that Capabilities
\* allows.  Whatever the guest opens, closes and renumbers, and whatever fails
\* in between (path_open, fd_renumber's dup2 and removal): an object it was not
\* given comes from a directory that it holds with PATH_OPEN at that moment,
\* with rights of the object's type and access mode, and open for writing only
\* if one of the rights to write is among those the directory passes on; a call
\* on one number leaves every other number its object, mode and rights; and a
\* number that fd_renumber points elsewhere has the new object in the mode that
\* was open already, under the rights it had.  Two things are not promised, for
\* the code does not keep them: a renumbered descriptor's rights need not fit
\* the type of its new object (fs.rs:58), and opening an object again, or a
\* directory below the one held, gives all rights of its type and mode anew,
\* whatever was given up (fs.rs:342).
KeepsCapabilities == Caps!Spec

PreopenFds == {f \in DOMAIN fds : fds[f].preopen_path # NoPath}

fd_prestat_get(fd) ==
  LET errno == get_fd_entry(fd, {"PATH_OPEN"}, {})
  IN  IF errno # "ESUCCESS" THEN errno
      ELSE IF fds[fd].preopen_path = NoPath THEN "ENOTSUP"
      ELSE IF fds[fd].file_type # "DIRECTORY" THEN "ENOTDIR"
      ELSE "ESUCCESS"

\* ctx.rs, build: "startup code starts looking at fd 3 for preopens".  Right
\* after build, asking fd_prestat_get for 3, 4, ... until EBADF finds every
\* preopen once, whatever the order of the HashMap.
Scannable ==
    LET n == Cardinality(PreopenFds)
    IN  /\ PreopenFds = 3..(2 + n)
        /\ \A f \in PreopenFds : fd_prestat_get(f) = "ESUCCESS"
        /\ \A f, g \in PreopenFds :
             f # g => fds[f].preopen_path # fds[g].preopen_path
        /\ fd_prestat_get(3 + n) = "EBADF"
StartupScan == [][phase = "build" /\ phase' = "run" => Scannable']_vars

\* hostcalls/fs.rs, fd_close: "can't close preopened files".  A preopen keeps
\* its number, its guest path and its host descriptor for the context's life.
PreopensStay ==
  [][phase = "run" /\ phase' = "run" =>
       \A f \in PreopenFds :
         /\ f \in DOMAIN fds'
         /\ fds'[f].preopen_path = fds[f].preopen_path
         /\ fds'[f].descriptor = fds[f].descriptor
         /\ kfd'[fds[f].descriptor.raw] = kfd[fds[f].descriptor.raw]]_vars

\* An entry tells the truth about the object behind it: its file type is the
\* object's, and its rights are among those of the type and access mode.
\* fd_renumber is the one call that breaks this: it changes the object behind
\* an entry and leaves the entry's type and rights as they are.
EntriesAccurate ==
  \A f \in DOMAIN fds :
    LET d == kfd[fds[f].descriptor.raw]
        tr == determine_type_and_access_rights(TypeOf[d.obj], d.acc)
    IN  /\ fds[f].file_type = tr.file_type
        /\ fds[f].rights_base \subseteq tr.base
        /\ fds[f].rights_inheriting \subseteq tr.inheriting
=============================================================================
