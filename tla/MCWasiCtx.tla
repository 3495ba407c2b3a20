------------------------------ MODULE MCWasiCtx ------------------------------
(***************************************************************************)
(* A host with a directory, which may be preopened more than once and      *)
(* holds a file and a fifo; a terminal as stdio; and a log the embedding   *)
(* process keeps open for itself on descriptor 3.                          *)
(***************************************************************************)
EXTENDS WasiCtx

MCObj == {"null", "term", "dirA", "data", "pipe", "log"}
MCTypeOf ==
  [o \in MCObj |-> CASE o = "null" -> "char" [] o = "term" -> "tty"
                     [] o = "dirA" -> "dir" [] o = "pipe" -> "fifo"
                     [] OTHER -> "file"]
MCContents ==
  [o \in MCObj |-> IF o = "dirA" THEN {"dirA", "data", "pipe"} ELSE {}]
FewContents == [MCContents EXCEPT !["dirA"] = {"dirA", "data"}]
MCHostFds ==
  [r \in 0..3 |-> IF r = 3 THEN [obj |-> "log", acc |-> "O_WRONLY"]
                           ELSE [obj |-> "term", acc |-> "O_RDWR"]]
StdioOnly == [r \in 0..2 |-> MCHostFds[r]]
MCHostFiles ==
  {[obj |-> "dirA", acc |-> "O_RDONLY"], [obj |-> "data", acc |-> "O_RDWR"]}

Read == [base |-> {"FD_READ"}, inheriting |-> {}, oflags |-> {}, fs_flags |-> {}]
Create == [Read EXCEPT !.base = {"FD_READ", "FD_WRITE"}, !.oflags = {"CREAT"},
                       !.fs_flags = {"SYNC"}]
OpenDir == [Read EXCEPT !.base = {"PATH_OPEN"}, !.inheriting = {"FD_READ"},
                        !.oflags = {"DIRECTORY"}]
CreateOrDir == {[Create EXCEPT !.fs_flags = {}], OpenDir}
AnyOpen == {Read, Create, OpenDir}

\* The rights a guest asks to keep: a directory's rights to open and create
\* files for reading, or bits that no descriptor has.
MCRightsArgs == {[base |-> {"PATH_OPEN", "PATH_CREATE_FILE"},
                  inheriting |-> {"FD_READ"}],
                 [base |-> RIGHTS_RESERVED, inheriting |-> {}]}

AllCalls == {"fd_close", "fd_renumber", "fd_fdstat_set_rights", "path_open"}
WithoutRenumber == AllCalls \ {"fd_renumber"}
=============================================================================
