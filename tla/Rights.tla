------------------------------- MODULE Rights -------------------------------
(***************************************************************************)
(* WASI rights as src/src/host.rs defines them, and what the Unix backend  *)
(* derives from a host descriptor (src/src/sys/unix/fdentry_impl.rs).      *)
(*                                                                         *)
(* The code keeps rights in a u64 bit mask; here a mask is the set of its  *)
(* bits: `a & b` is intersection, `a | b` union, `a & !b` difference.      *)
(***************************************************************************)

RIGHTS_ALL ==
  {"FD_DATASYNC", "FD_READ", "FD_SEEK", "FD_FDSTAT_SET_FLAGS", "FD_SYNC",
   "FD_TELL", "FD_WRITE", "FD_ADVISE", "FD_ALLOCATE",
   "PATH_CREATE_DIRECTORY", "PATH_CREATE_FILE", "PATH_LINK_SOURCE",
   "PATH_LINK_TARGET", "PATH_OPEN", "FD_READDIR", "PATH_READLINK",
   "PATH_RENAME_SOURCE", "PATH_RENAME_TARGET", "PATH_FILESTAT_GET",
   "PATH_FILESTAT_SET_SIZE", "PATH_FILESTAT_SET_TIMES", "FD_FILESTAT_GET",
   "FD_FILESTAT_SET_SIZE", "FD_FILESTAT_SET_TIMES", "PATH_SYMLINK",
   "PATH_UNLINK_FILE", "PATH_REMOVE_DIRECTORY", "POLL_FD_READWRITE",
   "SOCK_SHUTDOWN"}

\* The bits of the u64 that name no right; a guest may still pass them.
RIGHTS_RESERVED == {"RESERVED"}

\* Every mask a guest can pass.
RightsMask == SUBSET (RIGHTS_ALL \cup RIGHTS_RESERVED)

RIGHTS_BLOCK_DEVICE_BASE == RIGHTS_ALL
RIGHTS_BLOCK_DEVICE_INHERITING == RIGHTS_ALL
RIGHTS_CHARACTER_DEVICE_BASE == RIGHTS_ALL
RIGHTS_CHARACTER_DEVICE_INHERITING == RIGHTS_ALL

RIGHTS_REGULAR_FILE_BASE ==
  {"FD_DATASYNC", "FD_READ", "FD_SEEK", "FD_FDSTAT_SET_FLAGS", "FD_SYNC",
   "FD_TELL", "FD_WRITE", "FD_ADVISE", "FD_ALLOCATE", "FD_FILESTAT_GET",
   "FD_FILESTAT_SET_SIZE", "FD_FILESTAT_SET_TIMES", "POLL_FD_READWRITE"}
RIGHTS_REGULAR_FILE_INHERITING == {}

\* Everything but the rights on the data of a file and on sockets.
RIGHTS_DIRECTORY_BASE ==
  RIGHTS_ALL \ {"FD_DATASYNC", "FD_READ", "FD_SEEK", "FD_TELL", "FD_WRITE",
                "FD_ALLOCATE", "FD_FILESTAT_SET_SIZE", "SOCK_SHUTDOWN"}
RIGHTS_DIRECTORY_INHERITING ==
  RIGHTS_DIRECTORY_BASE \cup RIGHTS_REGULAR_FILE_BASE

RIGHTS_TTY_BASE ==
  {"FD_READ", "FD_FDSTAT_SET_FLAGS", "FD_WRITE", "FD_FILESTAT_GET",
   "POLL_FD_READWRITE"}
RIGHTS_SOCKET_BASE == RIGHTS_TTY_BASE \cup {"SOCK_SHUTDOWN"}
RIGHTS_SOCKET_INHERITING == RIGHTS_ALL

(***************************************************************************)
(* What fstat, isatty and getsockopt tell determine_type_rights about the  *)
(* object behind a descriptor.  "unknown" stands for a socket that is      *)
(* neither stream nor datagram and for every other kind of descriptor.     *)
(***************************************************************************)
HostType == {"block", "char", "tty", "dir", "file", "dgram", "stream",
             "fifo", "unknown"}

\* The access mode fcntl(F_GETFL) reports.
AccMode == {"O_RDONLY", "O_WRONLY", "O_RDWR"}

FileType == {"BLOCK_DEVICE", "CHARACTER_DEVICE", "DIRECTORY",
             "REGULAR_FILE", "SOCKET_DGRAM", "SOCKET_STREAM"}

\* determine_type_rights returns EINVAL for the other host types.
Classified == HostType \ {"unknown"}

TypeRights(file_type, base, inheriting) ==
  [file_type |-> file_type, base |-> base, inheriting |-> inheriting]

\* A fifo is reported as a stream socket, and a terminal inherits its base
\* rights (RIGHTS_TTY_INHERITING of host.rs is not used).
determine_type_rights(t) ==
  CASE t = "block" -> TypeRights("BLOCK_DEVICE", RIGHTS_BLOCK_DEVICE_BASE,
                                 RIGHTS_BLOCK_DEVICE_INHERITING)
    [] t = "char"  -> TypeRights("CHARACTER_DEVICE",
                                 RIGHTS_CHARACTER_DEVICE_BASE,
                                 RIGHTS_CHARACTER_DEVICE_INHERITING)
    [] t = "tty"   -> TypeRights("CHARACTER_DEVICE", RIGHTS_TTY_BASE,
                                 RIGHTS_TTY_BASE)
    [] t = "dir"   -> TypeRights("DIRECTORY", RIGHTS_DIRECTORY_BASE,
                                 RIGHTS_DIRECTORY_INHERITING)
    [] t = "file"  -> TypeRights("REGULAR_FILE", RIGHTS_REGULAR_FILE_BASE,
                                 RIGHTS_REGULAR_FILE_INHERITING)
    [] t = "dgram" -> TypeRights("SOCKET_DGRAM", RIGHTS_SOCKET_BASE,
                                 RIGHTS_SOCKET_INHERITING)
    [] OTHER       -> TypeRights("SOCKET_STREAM", RIGHTS_SOCKET_BASE,
                                 RIGHTS_SOCKET_INHERITING)

\* The access mode takes away the one right it contradicts.
determine_type_and_access_rights(t, accmode) ==
  LET tr == determine_type_rights(t)
  IN  [tr EXCEPT !.base =
         @ \ (CASE accmode = "O_RDONLY" -> {"FD_WRITE"}
                [] accmode = "O_WRONLY" -> {"FD_READ"}
                [] OTHER -> {})]
=============================================================================
