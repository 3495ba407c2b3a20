------------------------------- MODULE PathGet -------------------------------
(***************************************************************************)
(* path_get of src/src/sys/unix/hostcalls_impl/fs_helpers.rs: the walk     *)
(* that turns a guest path into a directory and a last component, followed *)
(* by the system call of the handler that asked for it.  The walk makes    *)
(* one system call per component, and other processes (or other guests     *)
(* given the same directory) rename files between these calls.             *)
(*                                                                         *)
(* The rights check and the errors before the walk are in WasiCtx.         *)
(***************************************************************************)
EXTENDS Integers, Sequences

CONSTANTS
  Node,          \* directories, files and symbolic links of the host
  Kind,          \* "dir", "file" or "link" for each of them
  Target,        \* the path a symbolic link holds
  Inside,        \* the nodes below the directory given to the guest
  Base, Root,    \* that directory, and the root of the host
  Name,          \* names of directory entries
  Ent0,          \* the entries of each directory at the start
  Requests,      \* the calls the guest may make
  MAX_SYMLINK_EXPANSIONS,
  MaxMoves       \* bound on the renames by others during the walk

None == "None"
Dir == {n \in Node : Kind[n] = "dir"}
Comp == Name \cup {".", ".."}

\* A path as std::path::Path::components reads it: absolute or not, its
\* components, and whether it ends with a slash, which components() hides.
\* It skips "." except at the front.
Path == {p \in [abs : BOOLEAN, comps : Seq(Comp), slash : BOOLEAN] :
           \A i \in 2..Len(p.comps) : p.comps[i] # "."}

\* The handlers that resolve a path, their lookup flag, and path_open's O_CREAT.
Op == {"path_create_directory", "path_link", "path_open", "path_readlink",
       "path_rename", "path_filestat_get", "path_filestat_set_times",
       "path_symlink", "path_unlink_file", "path_remove_directory"}
Request == [op : Op, path : Path, follow : BOOLEAN, creat : BOOLEAN]

Link == {n \in Node : Kind[n] = "link"}

\* Failures; EHOST stands for every errno the walk has no case for.
Errno == {"ENOENT", "ENOTDIR", "ELOOP", "ENOTCAPABLE", "EINVAL", "EISDIR", "EEXIST",
          "ENOTEMPTY", "EPERM", "EBUSY", "EHOST"}

ASSUME TreeAssumption ==
  /\ Kind \in [Node -> {"dir", "file", "link"}]
  /\ Target \in [Link -> Path]
  /\ Inside \subseteq Node /\ Base \in Inside \cap Dir /\ Root \in Dir
  /\ Node \cap (Errno \cup {None}) = {} /\ Name \cap {".", "..", None} = {}
  /\ Ent0 \in [Dir -> [Name -> Node \cup {None}]]
  /\ \A d \in Dir \cap Inside : \A n \in Name : Ent0[d][n] \in Inside \cup {None}

ASSUME RequestAssumption ==
  /\ Requests \subseteq Request
  /\ MAX_SYMLINK_EXPANSIONS \in Nat /\ MaxMoves \in Nat

VARIABLES
  ent,                 \* the entries of each directory
  moves,               \* renames by others so far
  req,                 \* the call being served
  pc,                  \* "loop", "openat", "expand", "readlinkat" in path_get, then
                       \* "call", "stat" (a second look, in PathOps) or "done"
  dir_stack,           \* open directories
  path_stack,          \* paths left to process
  symlink_expansions,
  head,                \* the component being resolved
  slash,               \* and whether "/" was appended to it
  ret                  \* what the call came to: a node, or an errno

vars == <<ent, moves, req, pc, dir_stack, path_stack, symlink_expansions, head,
          slash, ret>>
walk == <<dir_stack, path_stack, symlink_expansions, head, slash, ret>>

Top(s) == s[Len(s)]
Pop(s) == SubSeq(s, 1, Len(s) - 1)

----------------------------------------------------------------------------
(* The host kernel *)

Parent(d) == IF \E p \in Dir, n \in Name : ent[p][n] = d
             THEN CHOOSE p \in Dir : \E n \in Name : ent[p][n] = d
             ELSE d

\* POSIX resolution of components from d with n symbolic links to go.  A path
\* ending with a slash ends with the component ".".  The last component is
\* followed if follow.  With beneath, a walk may not leave Base, neither by
\* ".." nor by an absolute link: what path_get is meant to enforce.
Walk[w \in Nat \X Node \X Seq(Comp) \X BOOLEAN \X BOOLEAN] ==
  LET n == w[1]  d == w[2]  cs == w[3]  follow == w[4]  beneath == w[5]
      On(m, x, rest) == Walk[<<m, x, rest, follow, beneath>>]
  IN
  IF cs = <<>> THEN d
  ELSE IF d \notin Dir THEN "ENOTDIR"
  ELSE IF Head(cs) = "." THEN On(n, d, Tail(cs))
  ELSE IF Head(cs) = ".." THEN
    IF beneath /\ d = Base THEN "ENOTCAPABLE" ELSE On(n, Parent(d), Tail(cs))
  ELSE LET e == ent[d][Head(cs)] IN
    IF e = None THEN "ENOENT"
    ELSE IF e \in Link /\ (follow \/ Tail(cs) # <<>>) THEN
      IF n = 0 THEN "ELOOP"
      ELSE IF beneath /\ Target[e].abs THEN "ENOTCAPABLE"
      ELSE On(n - 1, IF Target[e].abs THEN Root ELSE d,
              Target[e].comps \o (IF Target[e].slash THEN <<".">> ELSE <<>>)
                              \o Tail(cs))
    ELSE On(n, e, Tail(cs))

\* The kernel's own limit on symbolic links, which is not path_get's.
KernelLinks == 40

\* What a system call given the directory d and "name" or "name/" acts on.  A
\* trailing slash makes the kernel follow the last component, O_NOFOLLOW or not.
Resolve(d, name, with_slash, follow) ==
  IF name = "." THEN d
  ELSE IF with_slash THEN Walk[<<KernelLinks, d, <<name, ".">>, TRUE, FALSE>>]
  ELSE IF ent[d][name] = None THEN "ENOENT"
  ELSE IF follow THEN Walk[<<KernelLinks, d, <<name>>, TRUE, FALSE>>]
  ELSE ent[d][name]

\* d is e or below it: every set of directories that holds d and all that are
\* above its members holds e.
Below(d, e) ==
  /\ e \in Dir
  /\ \A above \in SUBSET Dir :
       d \in above /\ (\A x \in above : Parent(x) \in above) => e \in above

\* Another process renames an entry within the guest's directory, to a free
\* name.  A directory cannot be moved below itself.
Rename(d1, n1, d2, n2) ==
  /\ pc # "done" /\ moves < MaxMoves
  /\ ent[d1][n1] # None /\ ent[d2][n2] = None
  /\ ~Below(d2, ent[d1][n1])
  /\ ent' = [ent EXCEPT ![d1][n1] = None, ![d2][n2] = ent[d1][n1]]
  /\ moves' = moves + 1
  /\ UNCHANGED <<req, pc, walk>>

----------------------------------------------------------------------------
(* The handlers: what they ask of path_get, and of the kernel after it *)

\* The handlers that pass the guest's LOOKUP_SYMLINK_FOLLOW on to path_get.
PassesFlag == {"path_open", "path_filestat_get", "path_filestat_set_times"}
dirflags == req.op \in PassesFlag /\ req.follow

needs_final_component == req.op = "path_open" /\ req.creat

\* linkat is given AT_SYMLINK_FOLLOW.
path_link_follows == TRUE
\* fstatat is given AT_SYMLINK_NOFOLLOW when the guest did ask to follow.
path_filestat_get_follows == ~req.follow
path_filestat_set_times_follows == req.follow

\* Mutant: every handler follows.
CallFollows_always == TRUE

\* Whether the handler's own system call follows a last symbolic link.
CallFollows ==
  CASE req.op = "path_link" -> path_link_follows
    [] req.op = "path_filestat_get" -> path_filestat_get_follows
    [] req.op = "path_filestat_set_times" -> path_filestat_set_times_follows
    [] OTHER -> FALSE

----------------------------------------------------------------------------
(* path_get *)

Init ==
  /\ ent = Ent0 /\ moves = 0
  /\ req \in Requests
  /\ pc = "loop"
  /\ dir_stack = <<Base>> /\ path_stack = <<req.path>>
  /\ symlink_expansions = 0
  /\ head = "." /\ slash = FALSE /\ ret = None

Fail(errno) ==
  /\ pc' = "done" /\ ret' = errno
  /\ UNCHANGED <<ent, moves, req, dir_stack, path_stack, symlink_expansions, head,
                 slash>>

\* The last component is known, in the directory on top of dir_stack.
Found(name, with_slash, paths) ==
  /\ pc' = "call" /\ head' = name /\ slash' = with_slash /\ path_stack' = paths
  /\ UNCHANGED <<ent, moves, req, dir_stack, symlink_expansions, ret>>

Continue(dirs, paths) ==
  /\ pc' = "loop" /\ dir_stack' = dirs /\ path_stack' = paths
  /\ UNCHANGED <<ent, moves, req, symlink_expansions, head, slash, ret>>

\* The path on top of path_stack, and the stack with that path's tail instead.
cur_path == Top(path_stack)
TailPushed ==
  IF Len(cur_path.comps) > 1
  THEN Append(Pop(path_stack), [abs |-> FALSE, comps |-> Tail(cur_path.comps),
                                slash |-> cur_path.slash])
  ELSE Pop(path_stack)

\* "no further components to process"
NoneLeft ==
  /\ pc = "loop" /\ path_stack = <<>>
  /\ Found(".", FALSE, <<>>)

EmptyPath ==
  /\ pc = "loop" /\ path_stack # <<>>
  /\ ~cur_path.abs /\ cur_path.comps = <<>>
  /\ Fail("ENOENT")

RootDir ==
  /\ pc = "loop" /\ path_stack # <<>>
  /\ cur_path.abs
  /\ Fail("ENOTCAPABLE")

HeadIs(c) ==
  /\ pc = "loop" /\ path_stack # <<>>
  /\ ~cur_path.abs /\ cur_path.comps # <<>> /\ Head(cur_path.comps) = c

CurDir ==
  /\ HeadIs(".")
  /\ Continue(dir_stack, TailPushed)

\* Mutant: ".." is opened like any other component.
ParentDir_opens ==
  /\ HeadIs("..")
  /\ Continue(Append(dir_stack, Parent(Top(dir_stack))), TailPushed)

\* Index 0 cannot be popped.
ParentDir ==
  /\ HeadIs("..")
  /\ IF Len(dir_stack) = 1 THEN Fail("ENOTCAPABLE")
                           ELSE Continue(Pop(dir_stack), TailPushed)

\* A directory is opened unless this is the last component; a last component is
\* read as a link if it must be followed.
Normal(name) ==
  /\ HeadIs(name)
  /\ head' = name /\ slash' = cur_path.slash /\ path_stack' = TailPushed
  /\ pc' = IF TailPushed # <<>> \/ (cur_path.slash /\ ~needs_final_component)
           THEN "openat"
           ELSE IF cur_path.slash \/ dirflags THEN "readlinkat" ELSE "call"
  /\ UNCHANGED <<ent, moves, req, dir_stack, symlink_expansions, ret>>

\* openat with O_DIRECTORY | O_NOFOLLOW.  A symbolic link, like a file, is
\* reported as ENOTDIR; then the link is read, by a second system call.
openat ==
  /\ pc = "openat"
  /\ LET r == Resolve(Top(dir_stack), head, slash, FALSE) IN
     \/ /\ r \in Dir
        /\ Continue(Append(dir_stack, r), path_stack)
     \/ /\ r \in (Node \ Dir) \cup {"ENOTDIR", "ELOOP"}
        /\ pc' = "expand"
        /\ UNCHANGED <<ent, moves, req, walk>>
     \/ /\ r \notin Node \cup {"ENOTDIR", "ELOOP"}
        /\ Fail(r)

\* Every other error of the host, such as EMFILE or EACCES.
openat_fails == pc = "openat" /\ Fail("EHOST")

\* readlinkat: the link, or the errno.
readlinkat(d, name, with_slash) ==
  LET r == Resolve(d, name, with_slash, FALSE)
  IN  IF r \in Node \ Link THEN "EINVAL" ELSE r

\* Mutant: the limit is tested before the expansion is counted.
PushLink_one_more(l) ==
  IF symlink_expansions > MAX_SYMLINK_EXPANSIONS
  THEN Fail("ELOOP")
  ELSE /\ symlink_expansions' = symlink_expansions + 1
       /\ path_stack' = Append(path_stack, Target[l])
       /\ pc' = "loop"
       /\ UNCHANGED <<ent, moves, req, dir_stack, head, slash, ret>>

\* Mutant: expansions are not counted.
PushLink_uncounted(l) ==
  /\ path_stack' = Append(path_stack, Target[l])
  /\ pc' = "loop"
  /\ UNCHANGED <<ent, moves, req, dir_stack, symlink_expansions, head, slash, ret>>

\* Mutant: the rest of the path is lost.
PushLink_replaces(l) ==
  /\ symlink_expansions < MAX_SYMLINK_EXPANSIONS
  /\ symlink_expansions' = symlink_expansions + 1
  /\ path_stack' = <<Target[l]>>
  /\ pc' = "loop"
  /\ UNCHANGED <<ent, moves, req, dir_stack, head, slash, ret>>

\* A link is pushed on top of what is left of the path.
PushLink(l) ==
  IF symlink_expansions + 1 > MAX_SYMLINK_EXPANSIONS
  THEN Fail("ELOOP")
  ELSE /\ symlink_expansions' = symlink_expansions + 1
       /\ path_stack' = Append(path_stack, [Target[l] EXCEPT !.slash = @ \/ slash])
       /\ pc' = "loop"
       /\ UNCHANGED <<ent, moves, req, dir_stack, head, slash, ret>>

\* Expansion of a link in the middle of the path.
expand ==
  /\ pc = "expand"
  /\ LET r == readlinkat(Top(dir_stack), head, slash) IN
     \/ r \in Link /\ PushLink(r)
     \/ r \notin Link /\ Fail(r)

\* Expansion of a last component; "not a symlink, so we're done".
expand_last ==
  /\ pc = "readlinkat"
  /\ LET r == readlinkat(Top(dir_stack), head, slash) IN
     \/ r \in Link /\ PushLink(r)
     \/ r \in {"EINVAL", "ENOENT"} /\ Found(head, slash, path_stack)
     \/ r \notin Link \cup {"EINVAL", "ENOENT"} /\ Fail(r)

\* The system call of the handler.  ret is the node it acts on; ENOENT means
\* that there is none, and a call that creates one does so in the directory.
\* path_open's openat has O_NOFOLLOW; a trailing slash is left only with O_CREAT,
\* which the kernel refuses.
call ==
  /\ pc = "call"
  /\ LET r == Resolve(Top(dir_stack), head, FALSE, CallFollows)
     IN  \/ slash /\ Fail("EISDIR")
         \/ ~slash /\ req.op = "path_open" /\ r \in Link /\ Fail("ELOOP")
         \/ ~slash /\ ~(req.op = "path_open" /\ r \in Link) /\ Fail(r)

\* A turn of the loop, or one of its system calls.
resolve ==
  \/ NoneLeft \/ EmptyPath \/ RootDir \/ CurDir \/ ParentDir
  \/ \E name \in Name : Normal(name)
  \/ openat \/ openat_fails \/ expand \/ expand_last

path_get == resolve \/ call

Done == pc = "done" /\ UNCHANGED vars

Next ==
  \/ path_get
  \/ \E d1, d2 \in Dir \cap Inside, n1, n2 \in Name : Rename(d1, n1, d2, n2)
  \/ Done

Spec == Init /\ [][Next]_vars

\* The guest's call runs: the handler is synchronous and never waits.
FairSpec == Spec /\ WF_vars(path_get)

----------------------------------------------------------------------------
(* Properties *)

\* The variables have their types.
TypeOK ==
  /\ ent \in [Dir -> [Name -> Node \cup {None}]] /\ moves \in 0..MaxMoves
  /\ req \in Request
  /\ pc \in {"loop", "openat", "expand", "readlinkat", "call", "stat", "done"}
  /\ dir_stack \in Seq(Dir) /\ path_stack \in Seq(Path)
  /\ symlink_expansions \in 0..MAX_SYMLINK_EXPANSIONS
  /\ head \in Name \cup {"."} /\ slash \in BOOLEAN

\* fs_helpers.rs: "Index 0 always corresponds with the directory provided to this
\* function.  [...] Index 0 cannot be popped, as this would imply escaping the
\* base directory."  Every directory on the stack is below it, while links are
\* expanded and others rename directories and links under the walk.
Contained ==
  /\ Len(dir_stack) > 0 /\ dir_stack[1] = Base
  /\ \A i \in 1..Len(dir_stack) : dir_stack[i] \in Inside

\* fs_helpers.rs: "Normalizes a path to ensure that the target path is located
\* under the directory provided."  What the handler acts on is below it.
TargetInside == ret \in Node => ret \in Inside

\* A call without interference acts on the node that POSIX resolution of the
\* same path comes to if that may not leave the directory, and it fails exactly
\* when that does.  (Creating a file "name/" has no POSIX meaning.)
Expected ==
  LET w == IF req.path.abs THEN "ENOTCAPABLE"
           ELSE IF req.path.comps = <<>> THEN "ENOENT"
           ELSE Walk[<<MAX_SYMLINK_EXPANSIONS, Base,
                       req.path.comps \o (IF req.path.slash THEN <<".">> ELSE <<>>),
                       dirflags, TRUE>>]
  IN  IF req.op = "path_open" /\ w \in Link THEN "ELOOP" ELSE w
AgreesWithPosix ==
  /\ pc = "done" /\ moves = 0 /\ ret # "EHOST"
  /\ ~(req.path.slash /\ needs_final_component)
  /\ {ret, Expected} \cap Node # {}
  => ret = Expected

\* The walk ends, whatever links it meets and whatever others rename meanwhile.
Terminates == <>(pc = "done")
=============================================================================
