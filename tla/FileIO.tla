-------------------------------- MODULE FileIO --------------------------------
(***************************************************************************)
(* The calls on an open descriptor of src/src/hostcalls/fs.rs, with the    *)
(* Unix functions they call: each validates the rights of the guest's      *)
(* entry and makes one or two system calls on a host file, which other     *)
(* processes write and truncate as well.                                   *)
(*                                                                         *)
(* One regular file is modelled; calls on two files do not meet.  A byte   *)
(* says where it comes from: Hole, Guest or Other.  Entries do not change  *)
(* here (WasiCtx has the calls that change them).  Stdin, Stdout and       *)
(* Stderr entries are terminals: stdio redirected to a regular file, whose *)
(* offset std::io's buffers move beyond what the guest reads, is left out. *)
(***************************************************************************)
EXTENDS Integers, Sequences, SequencesExt

CONSTANTS
  Fd,            \* descriptors the guest may name
  Tables,        \* the guest's tables: Fd to entry
  Desc,          \* open file descriptions of the host
  File,          \* those of the regular file; the others are terminals
  Mode,          \* access mode of each: "R", "W" or "RW"
  Iovs,          \* the vectors of buffers the guest passes
  Addr,          \* addresses of guest memory
  MAX,           \* i64::max_value(); sizes and offsets are u64
  Sizes,         \* the sizes, offsets and
  Deltas,        \* distances the guest passes,
  FdFlags,       \* and the flags
  Ops,           \* the calls the guest makes, for each of the tables
  MaxOthers      \* bound on the writes and truncations by others

Hole == 0
Guest == 1
Other == 2
Byte == {Hole, Guest, Other}

filesize == 0..(2 * MAX + 1)
filedelta == (-(MAX + 1))..MAX
Whence == {"SET", "CUR", "END"}
FdFlag == {"APPEND", "DSYNC", "NONBLOCK", "RSYNC", "SYNC"}
FstFlag == {"ATIM", "ATIM_NOW", "MTIM", "MTIM_NOW"}

Right == {"FD_READ", "FD_WRITE", "FD_SEEK", "FD_TELL", "FD_SYNC", "FD_DATASYNC",
          "FD_ADVISE", "FD_ALLOCATE", "FD_FILESTAT_SET_SIZE",
          "FD_FILESTAT_SET_TIMES", "FD_FDSTAT_SET_FLAGS"}
Op == {"fd_read", "fd_pread", "fd_write", "fd_pwrite", "fd_seek", "fd_tell",
       "fd_sync", "fd_datasync", "fd_advise", "fd_allocate",
       "fd_filestat_get", "fd_filestat_set_size", "fd_filestat_set_times",
       "fd_fdstat_get", "fd_fdstat_set_flags"}
Entry == [descriptor : {"File", "Stdin", "Stdout", "Stderr"}, desc : Desc,
          rights_base : SUBSET Right]
Iovec == [buf : Addr, len : Nat]

ASSUME FileAssumption ==
  /\ File \subseteq Desc /\ Mode \in [Desc -> {"R", "W", "RW"}]
  /\ \A t \in Tables :
       /\ DOMAIN t \subseteq Fd
       /\ \A fd \in DOMAIN t :
            t[fd] \in Entry /\ (t[fd].desc \in File => t[fd].descriptor = "File")
  /\ Ops \in [Tables -> SUBSET Op] /\ MAX \in Nat \ {0} /\ MaxOthers \in Nat
  /\ Sizes \subseteq filesize /\ Deltas \subseteq filedelta /\ FdFlags \subseteq FdFlag

ASSUME IovAssumption ==
  /\ Addr \subseteq Nat
  /\ \A v \in Iovs :
       /\ v \in Seq(Iovec)
       /\ \A k \in 1..Len(v) : v[k].buf..(v[k].buf + v[k].len - 1) \subseteq Addr

VARIABLES
  fds,         \* the guest's table
  data,        \* the bytes of the file
  offset,      \* the offset of each description
  flags,       \* and its status flags, of those that F_SETFL sets
  times,       \* the file's atim and mtim: "old", "now" or "given"
  others,      \* writes and truncations by others so far
  wanted,      \* the size a running fd_allocate is about to set, or NoSize
  call,        \* the running or last call, with the steps others had taken and
               \* the size the file had when it began
  mem,         \* the guest's memory after it; the guest refills it before each
  got,         \* the bytes it read
  ret          \* its errno

host == <<data, offset, flags, times>>
vars == <<fds, host, others, wanted, call, mem, got, ret>>

NoSize == -1
Filled == [a \in Addr |-> Guest]

----------------------------------------------------------------------------
(* The host kernel *)

Smaller(a, b) == IF a < b THEN a ELSE b
Larger(a, b) == IF a > b THEN a ELSE b

CanRead(d) == Mode[d] \in {"R", "RW"}
CanWrite(d) == Mode[d] \in {"W", "RW"}

\* The first n bytes of the file from pos on.
BytesAt(pos, n) == SubSeq(data, pos + 1, Smaller(pos + n, Len(data)))

Padded(bytes, n) == [k \in 1..n |-> IF k <= Len(bytes) THEN bytes[k] ELSE Hole]

\* The file after bytes are written at pos.
Overwritten(pos, bytes) ==
  IF bytes = <<>> THEN data
  ELSE LET n == Larger(Len(data), pos + Len(bytes))
       IN  [k \in 1..n |-> IF k - pos \in 1..Len(bytes) THEN bytes[k - pos]
                           ELSE Padded(data, n)[k]]

\* O_APPEND takes precedence over the position, for pwrite(2) on Linux too.
WritePos(d, pos) == IF "APPEND" \in flags[d] THEN Len(data) ELSE pos

\* F_SETFL changes no other flags on Linux.
Settable == {"APPEND", "NONBLOCK"}

\* The addresses of a vector's buffers, one after the other.
Slots(v) == FlattenSeq([k \in 1..Len(v) |-> [j \in 1..v[k].len |-> v[k].buf + j - 1]])

\* readv(2): byte k goes to the k-th slot; later bytes overwrite earlier ones.
Delivered(bytes, v) ==
  [a \in Addr |->
     LET at == {k \in 1..Len(bytes) : Slots(v)[k] = a}
     IN  IF at = {} THEN Guest
         ELSE bytes[CHOOSE k \in at : \A j \in at : j <= k]]

----------------------------------------------------------------------------
(* Before and after the system calls *)

Begin(op, fd, arg) ==
  /\ wanted = NoSize /\ op \in Ops[fds]
  /\ call' = [op |-> op, fd |-> fd, arg |-> arg, others |-> others,
              size |-> Len(data)]
  /\ UNCHANGED <<fds, others>>

NoBytes == mem' = Filled /\ got' = <<>>

\* The end of a call that changes nothing but, for some, one part of the host.
Ends(errno) == ret' = errno /\ wanted' = NoSize /\ NoBytes
Fails(errno) == Ends(errno) /\ UNCHANGED host

\* Success, unless the result cannot be written to guest memory after all;
\* EFAULT stands for a misaligned address, EINVAL, as well.
Result == ret' \in {"ESUCCESS", "EFAULT"} /\ wanted' = NoSize
Observed == Result /\ NoBytes /\ UNCHANGED host

\* get_fd_entry: what keeps a call that needs these rights from the entry.
Denied(fd, rights) ==
  IF fd \notin DOMAIN fds THEN "EBADF"
  ELSE IF rights \subseteq fds[fd].rights_base THEN "ESUCCESS" ELSE "ENOTCAPABLE"

\* The handler goes on with A, is denied the entry, or its system call fails.
Checked(fd, rights, A) ==
  \/ Denied(fd, rights) # "ESUCCESS" /\ Fails(Denied(fd, rights))
  \/ Denied(fd, rights) = "ESUCCESS" /\ (A \/ Fails("EHOST"))

\* match &*fe.fd_object.descriptor { Descriptor::File(f) => f, _ => EBADF }
OnFile(fd, A) ==
  \/ fds[fd].descriptor = "File" /\ A
  \/ fds[fd].descriptor # "File" /\ Fails("EBADF")

----------------------------------------------------------------------------
(* Reading and writing *)

Total(v) == Len(Slots(v))

\* A system call may move fewer bytes than it could, but not none.
Short(n) == IF n = 0 THEN {0} ELSE 1..n

\* Mutant: every buffer is filled from the start.
Scattered_from_start(buf, v) ==
  LET turn[k \in 0..Len(v)] ==
        IF k = 0 THEN [mem |-> Filled, left |-> Len(buf)]
        ELSE LET s == turn[k - 1]
                 vec_len == Smaller(v[k].len, s.left)
             IN  [mem |-> [a \in Addr |->
                             IF a - v[k].buf \in 0..(vec_len - 1)
                             THEN buf[a - v[k].buf + 1] ELSE s.mem[a]],
                  left |-> s.left - vec_len]
  IN  turn[Len(v)].mem

\* The loop of fd_pread that copies its buffer to the guest's.
Scattered(buf, v) ==
  LET turn[k \in 0..Len(v)] ==
        IF k = 0 THEN [mem |-> Filled, buf_offset |-> 0, left |-> Len(buf)]
        ELSE LET s == turn[k - 1]
                 vec_len == Smaller(v[k].len, s.left)
             IN  [mem |-> [a \in Addr |->
                             IF a - v[k].buf \in 0..(vec_len - 1)
                             THEN buf[s.buf_offset + a - v[k].buf + 1]
                             ELSE s.mem[a]],
                  buf_offset |-> s.buf_offset + vec_len,
                  left |-> s.left - vec_len]
  IN  turn[Len(v)].mem

\* A terminal has any bytes, of others.
FromTerminal(v) ==
  \E n \in 0..Total(v) :
    /\ Result /\ got' = [k \in 1..n |-> Other] /\ mem' = Delivered(got', v)
    /\ UNCHANGED host

\* Mutant: the offset moves by the size of the buffers.
read_vectored_total(d, v) ==
  IF ~CanRead(d) THEN Fails("EBADF")
  ELSE IF d \notin File THEN FromTerminal(v)
  ELSE \E n \in Short(Len(BytesAt(offset[d], Total(v)))) :
         /\ Result /\ got' = BytesAt(offset[d], n) /\ mem' = Delivered(got', v)
         /\ offset' = [offset EXCEPT ![d] = @ + Total(v)]
         /\ UNCHANGED <<data, flags, times>>

read_vectored(d, v) ==
  IF ~CanRead(d) THEN Fails("EBADF")
  ELSE IF d \notin File THEN FromTerminal(v)
  ELSE \E n \in Short(Len(BytesAt(offset[d], Total(v)))) :
         /\ Result /\ got' = BytesAt(offset[d], n) /\ mem' = Delivered(got', v)
         /\ offset' = [offset EXCEPT ![d] = @ + n]
         /\ UNCHANGED <<data, flags, times>>

fd_read(fd, v) ==
  /\ Begin("fd_read", fd, v)
  /\ \/ Fails("EFAULT")
     \/ Checked(fd, {"FD_READ"},
          \/ fds[fd].descriptor = "File" /\ read_vectored(fds[fd].desc, v)
          \/ fds[fd].descriptor = "Stdin" /\ FromTerminal(v)
          \/ fds[fd].descriptor \in {"Stdout", "Stderr"} /\ Fails("EBADF"))

read_at(d, v, pos) ==
  IF ~CanRead(d) THEN Fails("EBADF")
  ELSE IF d \notin File THEN Fails("ESPIPE")
  ELSE \E n \in Short(Len(BytesAt(pos, Total(v)))) :
         /\ Result /\ got' = BytesAt(pos, n) /\ mem' = Scattered(got', v)
         /\ UNCHANGED host

fd_pread(fd, v, pos) ==
  /\ Begin("fd_pread", fd, v)
  /\ \/ Fails("EFAULT")
     \/ Checked(fd, {"FD_READ"},
          OnFile(fd, IF pos > MAX THEN Fails("EIO")
                     ELSE read_at(fds[fd].desc, v, pos)))

\* write(2) and pwrite(2) of n bytes of the guest to the file.
WrittenAt(d, pos, n) ==
  data' = Overwritten(WritePos(d, pos), [k \in 1..n |-> Guest])
Room(d, pos) == MAX - WritePos(d, pos)

write_vectored(d, v) ==
  IF ~CanWrite(d) THEN Fails("EBADF")
  ELSE IF d \notin File \/ Total(v) = 0 THEN Observed
  ELSE IF Room(d, offset[d]) <= 0 THEN Fails("EFBIG")
  ELSE \E n \in Short(Smaller(Total(v), Room(d, offset[d]))) :
         /\ Result /\ NoBytes /\ WrittenAt(d, offset[d], n)
         /\ offset' = [offset EXCEPT ![d] = WritePos(d, @) + n]
         /\ UNCHANGED <<flags, times>>

fd_write(fd, v) ==
  /\ Begin("fd_write", fd, v)
  /\ \/ Fails("EFAULT")
     \/ Checked(fd, {"FD_WRITE"},
          \/ fds[fd].descriptor = "File" /\ write_vectored(fds[fd].desc, v)
          \/ fds[fd].descriptor = "Stdin" /\ Fails("EBADF")
          \/ fds[fd].descriptor \in {"Stdout", "Stderr"} /\ Observed)

write_at(d, v, pos) ==
  IF ~CanWrite(d) THEN Fails("EBADF")
  ELSE IF d \notin File THEN Fails("ESPIPE")
  ELSE IF Total(v) = 0 THEN Observed
  ELSE IF Room(d, pos) <= 0 THEN Fails("EFBIG")
  ELSE \E n \in Short(Smaller(Total(v), Room(d, pos))) :
         /\ Result /\ NoBytes /\ WrittenAt(d, pos, n)
         /\ UNCHANGED <<offset, flags, times>>

\* The right asked for is FD_READ.
fd_pwrite(fd, v, pos) ==
  /\ Begin("fd_pwrite", fd, v)
  /\ \/ Fails("EFAULT")
     \/ Checked(fd, {"FD_READ"},
          OnFile(fd, IF pos > MAX THEN Fails("EIO")
                     ELSE write_at(fds[fd].desc, v, pos)))

----------------------------------------------------------------------------
(* Offset, size, times and flags *)

\* Mutant: FD_TELL is enough for every seek from the current offset.
SeekRights_from_current(delta, whence) ==
  IF whence = "CUR" THEN {"FD_TELL"} ELSE {"FD_SEEK", "FD_TELL"}

SeekRights(delta, whence) ==
  IF delta = 0 /\ whence = "CUR" THEN {"FD_TELL"} ELSE {"FD_SEEK", "FD_TELL"}

lseek(d, delta, whence) ==
  LET to == delta + CASE whence = "SET" -> 0 [] whence = "CUR" -> offset[d]
                      [] whence = "END" -> Len(data)
  IN  IF d \notin File THEN Fails("ESPIPE")
      ELSE IF to \notin 0..MAX THEN Fails("EINVAL")
      ELSE /\ Result /\ NoBytes /\ offset' = [offset EXCEPT ![d] = to]
           /\ UNCHANGED <<data, flags, times>>

fd_seek(fd, delta, whence) ==
  /\ Begin("fd_seek", fd, <<>>)
  /\ Checked(fd, SeekRights(delta, whence),
       IF whence \notin Whence THEN Fails("EINVAL")
       ELSE lseek(fds[fd].desc, delta, whence))

fd_tell(fd) ==
  /\ Begin("fd_tell", fd, <<>>)
  /\ Checked(fd, {"FD_TELL"}, lseek(fds[fd].desc, 0, "CUR"))

\* ftruncate(2)
SetLen(d, n) ==
  IF ~CanWrite(d) \/ d \notin File \/ n > MAX THEN Fails("EINVAL")
  ELSE /\ Ends("ESUCCESS") /\ data' = Padded(data, n)
       /\ UNCHANGED <<offset, flags, times>>

\* Mutant: every other size is set.
MustGrow_or_shrink(size, current_size) == size # current_size

MustGrow(size, current_size) == size > current_size

\* Up to the decision to grow the file: f.metadata() is one system call.
fd_allocate(fd, off, len) ==
  /\ Begin("fd_allocate", fd, <<>>)
  /\ Checked(fd, {"FD_ALLOCATE"},
       OnFile(fd,
         LET size == IF fds[fd].desc \in File THEN Len(data) ELSE 0
         IN  IF off + len > MAX THEN Fails("E2BIG")
             ELSE IF ~MustGrow(off + len, size) THEN Fails("ESUCCESS")
             ELSE wanted' = off + len /\ NoBytes /\ UNCHANGED <<host, ret>>))

\* f.set_len(wanted_size), the other.
set_len ==
  /\ wanted # NoSize
  /\ SetLen(fds[call.fd].desc, wanted) \/ Fails("EHOST")
  /\ UNCHANGED <<fds, others, call>>

fd_filestat_set_size(fd, size) ==
  /\ Begin("fd_filestat_set_size", fd, <<>>)
  /\ Checked(fd, {"FD_FILESTAT_SET_SIZE"},
       IF size > MAX THEN Fails("E2BIG") ELSE SetLen(fds[fd].desc, size))

\* st_mtim is passed on whatever the flags say.
NewTimes(fst_flags) ==
  [atim |-> IF "ATIM_NOW" \in fst_flags THEN "now"
            ELSE IF "ATIM" \in fst_flags THEN "given" ELSE times.atim,
   mtim |-> IF "MTIM_NOW" \in fst_flags THEN "now" ELSE "given"]

fd_filestat_set_times(fd, fst_flags) ==
  /\ Begin("fd_filestat_set_times", fd, fst_flags)
  /\ Checked(fd, {"FD_FILESTAT_SET_TIMES"},
       /\ Ends("ESUCCESS")
       /\ times' = IF fds[fd].desc \in File THEN NewTimes(fst_flags) ELSE times
       /\ UNCHANGED <<data, offset, flags>>)

\* No right is asked for, nor are those of the next two.
fd_fdstat_set_flags(fd, fdflags) ==
  /\ Begin("fd_fdstat_set_flags", fd, <<>>)
  /\ Checked(fd, {},
       /\ Ends("ESUCCESS")
       /\ flags' = [flags EXCEPT ![fds[fd].desc] = fdflags \cap Settable]
       /\ UNCHANGED <<data, offset, times>>)

fd_fdstat_get(fd) ==
  Begin("fd_fdstat_get", fd, <<>>) /\ (Fails("EFAULT") \/ Checked(fd, {}, Observed))

fd_filestat_get(fd) ==
  Begin("fd_filestat_get", fd, <<>>) /\ Checked(fd, {}, Observed)

fd_sync(fd) ==
  /\ Begin("fd_sync", fd, <<>>)
  /\ Checked(fd, {"FD_SYNC"}, OnFile(fd, Fails("ESUCCESS")))

fd_datasync(fd) ==
  /\ Begin("fd_datasync", fd, <<>>)
  /\ Checked(fd, {"FD_DATASYNC"}, OnFile(fd, Fails("ESUCCESS")))

\* The advice is passed to the host or refused, and changes nothing here.
fd_advise(fd) ==
  /\ Begin("fd_advise", fd, <<>>)
  /\ Checked(fd, {"FD_ADVISE"}, Fails("ESUCCESS") \/ Fails("EINVAL"))

----------------------------------------------------------------------------
(* Other processes, at any time *)

Others(bytes) ==
  /\ others < MaxOthers /\ others' = others + 1
  /\ data' = bytes
  /\ UNCHANGED <<fds, offset, flags, times, wanted, call, mem, got, ret>>

OthersWrite == \E pos \in 0..(MAX - 1) : Others(Overwritten(pos, <<Other>>))
OthersTruncate == \E n \in 0..(Len(data) - 1) : Others(Padded(data, n))

----------------------------------------------------------------------------

Init ==
  /\ fds \in Tables
  /\ data = <<Other>> /\ offset = [d \in Desc |-> 0] /\ flags = [d \in Desc |-> {}]
  /\ times = [atim |-> "old", mtim |-> "old"]
  /\ others = 0 /\ wanted = NoSize
  /\ call = [op |-> "fd_sync", fd |-> 0, arg |-> <<>>, others |-> 0,
             size |-> Len(data)]
  /\ mem = Filled /\ got = <<>> /\ ret = "ESUCCESS"

Data(fd) ==
  \/ \E v \in Iovs : \/ fd_read(fd, v) \/ fd_write(fd, v)
                     \/ \E pos \in Sizes : fd_pread(fd, v, pos) \/ fd_pwrite(fd, v, pos)
  \/ \E delta \in Deltas, whence \in Whence \cup {"INVALID"} :
       fd_seek(fd, delta, whence)
  \/ \E off \in Sizes, len \in Sizes : fd_allocate(fd, off, len)
  \/ \E size \in Sizes : fd_filestat_set_size(fd, size)
  \/ fd_tell(fd) \/ fd_sync(fd) \/ fd_datasync(fd) \/ fd_advise(fd)

Attributes(fd) ==
  \/ \E fst_flags \in SUBSET FstFlag : fd_filestat_set_times(fd, fst_flags)
  \/ \E fdflags \in SUBSET FdFlags : fd_fdstat_set_flags(fd, fdflags)
  \/ fd_fdstat_get(fd) \/ fd_filestat_get(fd)

Next ==
  \/ \E fd \in Fd : Data(fd) \/ Attributes(fd)
  \/ set_len \/ OthersWrite \/ OthersTruncate

Spec == Init /\ [][Next]_vars

----------------------------------------------------------------------------
(* Properties *)

\* The state keeps its types: sizes and offsets stay below 2^63, however the
\* guest's 64-bit numbers add up.
TypeOK ==
  /\ fds \in Tables
  /\ data \in Seq(Byte) /\ Len(data) <= MAX
  /\ offset \in [Desc -> 0..MAX]
  /\ flags \in [Desc -> SUBSET FdFlag]
  /\ times \in [atim : {"old", "now", "given"}, mtim : {"old", "now", "given"}]
  /\ others \in 0..MaxOthers
  /\ wanted \in {NoSize} \cup 0..MAX
  /\ call.op \in Op /\ call.others \in 0..others /\ call.size \in 0..MAX
  /\ mem \in [Addr -> Byte] /\ got \in Seq(Byte)
  /\ ret \in {"ESUCCESS", "EBADF", "ENOTCAPABLE", "EFAULT", "EIO", "EINVAL",
              "ESPIPE", "EFBIG", "E2BIG", "EHOST"}

\* What fd_pread leaves in guest memory is what readv(2) would: the bytes in the
\* order of the buffers, none beyond those read, also for buffers that overlap.
ReadsLand == IF got = <<>> THEN mem = Filled ELSE mem = Delivered(got, call.arg)

Can(right) == call'.fd \in DOMAIN fds /\ right \in fds[call'.fd].rights_base

\* Other processes leave the count of their steps; all else is the guest's doing.
OnlyGuest == others' = others

\* What a call does to the file and to the description behind it is what the
\* rights of the entry allow by their names, whichever handler does it.
\* fd_pwrite and fd_fdstat_set_flags are left out: PwriteNeedsWrite.
\* fd_allocate makes the file larger than it found it, which is not to say
\* larger than others have made it meanwhile.
RightsRespected ==
  [][OnlyGuest =>
       /\ got' # <<>> => Can("FD_READ")
       /\ data' # data /\ call'.op # "fd_pwrite" =>
            \/ Can("FD_WRITE") \/ Can("FD_FILESTAT_SET_SIZE")
            \/ Can("FD_ALLOCATE") /\ Len(data') > call'.size
       /\ \A d \in Desc : offset'[d] # offset[d] =>
            /\ d = fds[call'.fd].desc
            /\ \/ Can("FD_SEEK") /\ Can("FD_TELL")
               \/ Can("FD_READ") /\ offset'[d] = offset[d] + Len(got')
               \/ Can("FD_WRITE")
       /\ times' # times => Can("FD_FILESTAT_SET_TIMES")]_vars

\* fd_allocate asks for the file's size (metadata) and sets a new one later
\* (set_len).  Whatever other processes write or cut off in between, the second
\* step loses no byte below the size that the first one found; what it may cut
\* off is what others appended beyond that size.
AllocateKeeps ==
  [][call'.op = "fd_allocate" /\ OnlyGuest =>
       IsPrefix(SubSeq(data, 1, Smaller(Len(data), call'.size)), data')]_vars

\* Bytes of the file change by pwrite only if the guest may write.
PwriteNeedsWrite ==
  [][call'.op = "fd_pwrite" /\ OnlyGuest /\ data' # data => Can("FD_WRITE")]_vars
=============================================================================
