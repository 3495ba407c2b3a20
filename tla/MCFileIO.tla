------------------------------- MODULE MCFileIO -------------------------------
(***************************************************************************)
(* A file of at most two bytes (i64::max_value() is 2) with the            *)
(* descriptions f (read and write), r and w, and a terminal.  A table has  *)
(* two entries for f, with other rights each, or stdin and stdout, or one  *)
(* entry with all rights; in some the guest makes the calls that move      *)
(* bytes, in others those that set attributes.                             *)
(***************************************************************************)
EXTENDS FileIO

MCFd == {3, 4}
MCDesc == {"f", "r", "w", "tty"}
MCFile == {"f", "r", "w"}
MCMode == [d \in MCDesc |-> CASE d = "r" -> "R" [] d = "w" -> "W" [] OTHER -> "RW"]

E(descriptor, desc, rights) ==
  [descriptor |-> descriptor, desc |-> desc, rights_base |-> rights]
Pair(a, b) == [fd \in {3, 4} |-> IF fd = 3 THEN a ELSE b]

One(a) == [fd \in {3} |-> a]

DataTables == {
  Pair(E("File", "f", Right), E("File", "f", {"FD_READ", "FD_TELL"})),
  Pair(E("File", "f", {"FD_WRITE", "FD_TELL", "FD_FILESTAT_SET_SIZE"}),
       E("File", "f", {"FD_ALLOCATE", "FD_ADVISE"})),
  Pair(E("Stdin", "tty", Right), E("Stdout", "tty", Right)),
  One(E("File", "r", Right)), One(E("File", "w", Right)),
  One(E("File", "tty", Right))}

AttributeTables == {
  Pair(E("File", "f", Right), E("File", "f", {"FD_TELL", "FD_SYNC", "FD_ADVISE"})),
  Pair(E("File", "f", {"FD_FILESTAT_SET_TIMES", "FD_DATASYNC"}),
       E("Stderr", "tty", Right))}
\* One entry with all rights, and one without the right to write.
FullTable == {One(E("File", "f", Right))}
ReadTable == {One(E("File", "f", Right \ {"FD_WRITE"}))}

\* Buffers not in the order of their addresses, one of them empty, and two
\* that overlap.
MCAddr == 0..2
B(buf, len) == [buf |-> buf, len |-> len]
MCIovs == {<<B(2, 1), B(1, 0), B(0, 1)>>, <<B(0, 2), B(1, 2)>>}

MCSizes == {0, 1, 2, 5}
MCDeltas == {-1, 0, 2}
MCFdFlags == {"APPEND"}

\* The calls that move bytes, and those that only look or set attributes, with
\* a write among them.
DataOps == {"fd_read", "fd_pread", "fd_write", "fd_pwrite", "fd_seek",
            "fd_allocate", "fd_filestat_set_size", "fd_fdstat_set_flags"}
OtherOps == (Op \ DataOps) \cup {"fd_write", "fd_fdstat_set_flags"}

MCTables == DataTables \cup AttributeTables
MCOps == [t \in MCTables |-> IF t \in DataTables THEN DataOps ELSE OtherOps]
FullOps == [t \in FullTable |-> OtherOps]
ReadOps == [t \in ReadTable |-> DataOps]
=============================================================================
