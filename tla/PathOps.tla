------------------------------- MODULE PathOps -------------------------------
(***************************************************************************)
(* The handlers that take paths, each from its first path_get to the end:  *)
(* path_link and path_rename resolve two paths one after the other, then   *)
(* one system call changes the tree, and path_open and path_unlink_file    *)
(* look at the name again after some errors.  The guest makes one call     *)
(* after the other; other processes rename and remove files at any point.  *)
(*                                                                         *)
(* PathGet has the walk.  What a call creates is a node of Spare, which    *)
(* has no entry at the start; for a link it holds the path_symlink's       *)
(* old_path, which the code passes on as it is.                            *)
(***************************************************************************)
EXTENDS PathGet

CONSTANTS
  Spare,          \* nodes that calls create
  Calls,          \* the calls the guest may make
  MaxCalls,       \* bound on how many it makes
  UnlinkDirErrno  \* unlinkat of a directory: EISDIR on Linux, EPERM by POSIX

TwoPaths == {"path_link", "path_rename"}
Creating == {"path_create_directory", "path_symlink", "path_open"}

\* req is what PathGet looks at; new_path is the second path of TwoPaths and
\* unused elsewhere, node what the call creates, excl and directory path_open's.
Call == [req : Requests, new_path : Path, node : Node \cup {None},
         excl : BOOLEAN, directory : BOOLEAN]

ASSUME CallAssumption ==
  /\ Spare \subseteq Inside
  /\ \A d \in Dir, n \in Name : Ent0[d][n] \notin Spare
  /\ Calls \subseteq Call /\ {c.req : c \in Calls} = Requests
  /\ \A c \in Calls :
       /\ c.node \in Spare \/ (c.node = None /\ c.req.op \notin Creating)
       /\ c.req.op = "path_create_directory" => c.node \in Dir
       /\ c.req.op = "path_symlink" => c.node \in Link
       /\ c.req.op = "path_open" => c.node \in Node \ (Dir \cup Link)
  /\ MaxCalls \in Nat \ {0} /\ UnlinkDirErrno \in {"EISDIR", "EPERM"}

VARIABLES
  cur,    \* the call being served; req is cur.req
  first,  \* the directory and name of the first of two paths, once resolved
  calls,  \* calls made so far
  quiet   \* history: no other process has acted since the call began

ops == <<cur, first, calls, quiet>>
opsvars == <<vars, ops>>

----------------------------------------------------------------------------
(* System calls, given a directory and a name that is "." or an entry's *)

\* What a call comes to: the tree after it, and a node, ESUCCESS or an errno.
Outcome(tree, result) == [ent |-> tree, ret |-> result]
Unchanged(result) == Outcome(ent, result)

Linked(x) == \E d \in Dir, n \in Name : ent[d][n] = x
Entry(d, name) == IF name = "." THEN d ELSE ent[d][name]
Put(d, name, x) == [ent EXCEPT ![d][name] = x]
IsEmpty(d) == \A n \in Name : ent[d][n] = None

\* A new entry: the name must be free and the directory not removed meanwhile.
create(d, name, x) ==
  CASE Entry(d, name) # None -> Unchanged("EEXIST")
    [] Entry(d, name) = None /\ d # Root /\ ~Linked(d) -> Unchanged("ENOENT")
    [] OTHER -> Outcome(Put(d, name, x), "ESUCCESS")

linkat(d1, name1, d2, name2, follow) ==
  LET x == Resolve(d1, name1, FALSE, follow) IN
  CASE x \notin Node -> Unchanged(x)
    [] x \in Node \ Dir -> create(d2, name2, x)
    [] OTHER -> Unchanged(IF Entry(d2, name2) # None THEN "EEXIST" ELSE "EPERM")

renameat(d1, name1, d2, name2) ==
  LET x == Entry(d1, name1)  y == Entry(d2, name2) IN
  CASE name1 = "." \/ name2 = "." -> Unchanged("EBUSY")
    [] x = None \/ (d2 # Root /\ ~Linked(d2)) -> Unchanged("ENOENT")
    [] x = y -> Unchanged("ESUCCESS")
    [] Below(d2, x) -> Unchanged("EINVAL")
    [] y \in Dir /\ (x \notin Dir \/ ~IsEmpty(y)) ->
         Unchanged(IF x \in Dir THEN "ENOTEMPTY" ELSE "EISDIR")
    [] x \in Dir /\ y \in Node \ Dir -> Unchanged("ENOTDIR")
    [] OTHER -> Outcome([Put(d2, name2, x) EXCEPT ![d1][name1] = None], "ESUCCESS")

unlinkat(d, name, removedir) ==
  LET x == Entry(d, name) IN
  CASE x = None -> Unchanged("ENOENT")
    [] ~removedir /\ x \in Dir -> Unchanged(UnlinkDirErrno)
    [] removedir /\ x \notin Dir -> Unchanged("ENOTDIR")
    [] removedir /\ name = "." -> Unchanged("EINVAL")
    [] removedir /\ x \in Dir /\ ~IsEmpty(x) -> Unchanged("ENOTEMPTY")
    [] OTHER -> Outcome(Put(d, name, None), "ESUCCESS")

\* openat with O_NOFOLLOW.  On a link O_DIRECTORY turns ELOOP into ENOTDIR.
openat_nofollow(d, name, c) ==
  LET x == Entry(d, name) IN
  CASE x = None /\ c.req.creat ->
         LET o == create(d, name, c.node)
         IN  IF o.ret = "ESUCCESS" THEN Outcome(o.ent, c.node) ELSE o
    [] x = None /\ ~c.req.creat -> Unchanged("ENOENT")
    [] c.req.creat /\ c.excl /\ x # None -> Unchanged("EEXIST")
    [] c.directory /\ x \in Node \ Dir -> Unchanged("ENOTDIR")
    [] x \in Link /\ ~c.directory /\ ~(c.req.creat /\ c.excl) -> Unchanged("ELOOP")
    [] x \in Dir /\ c.req.creat /\ ~c.excl -> Unchanged("EISDIR")
    [] OTHER -> Unchanged(x)

----------------------------------------------------------------------------
(* The handlers *)

OpsInit ==
  /\ Init
  /\ cur \in {c \in Calls : c.req = req}
  /\ first = <<>> /\ calls = 1 /\ quiet = TRUE

\* The guest makes its next call, with a node that does not exist yet.
NextCall(c) ==
  /\ pc = "done" /\ calls < MaxCalls
  /\ c.node = None \/ ~Linked(c.node)
  /\ cur' = c /\ req' = c.req /\ first' = <<>>
  /\ calls' = calls + 1 /\ quiet' = TRUE
  /\ pc' = "loop" /\ dir_stack' = <<Base>> /\ path_stack' = <<c.req.path>>
  /\ symlink_expansions' = 0 /\ head' = "." /\ slash' = FALSE /\ ret' = None
  /\ UNCHANGED <<ent, moves>>

\* path_get, for either path.
Resolving == resolve /\ UNCHANGED ops

\* The first of two paths is resolved: path_get is called for the second.
SecondPath ==
  /\ pc = "call" /\ req.op \in TwoPaths /\ first = <<>>
  /\ first' = <<Top(dir_stack), head>>
  /\ pc' = "loop" /\ dir_stack' = <<Base>> /\ path_stack' = <<cur.new_path>>
  /\ symlink_expansions' = 0 /\ head' = "." /\ slash' = FALSE
  /\ UNCHANGED <<ent, moves, req, ret, cur, calls, quiet>>

\* The handler is at its system call, with the paths of all its path_gets.
Ready(op) ==
  /\ pc = "call" /\ req.op = op /\ ~slash
  /\ op \in TwoPaths => first # <<>>

Finish(o) ==
  /\ pc' = "done" /\ ent' = o.ent /\ ret' = o.ret
  /\ UNCHANGED <<moves, req, dir_stack, path_stack, symlink_expansions, head, slash>>
  /\ UNCHANGED ops

dir == Top(dir_stack)

path_create_directory ==
  Ready("path_create_directory") /\ Finish(create(dir, head, cur.node))

path_symlink == Ready("path_symlink") /\ Finish(create(dir, head, cur.node))

path_link ==
  /\ Ready("path_link")
  /\ Finish(linkat(first[1], first[2], dir, head, path_link_follows))

\* Mutant: the names are taken from the wrong paths.
path_rename_swapped ==
  Ready("path_rename") /\ Finish(renameat(first[1], head, dir, first[2]))

path_rename ==
  Ready("path_rename") /\ Finish(renameat(first[1], first[2], dir, head))

path_remove_directory ==
  Ready("path_remove_directory") /\ Finish(unlinkat(dir, head, TRUE))

\* An error that makes the handler look at the name again.
LookAgain(o) ==
  /\ pc' = "stat" /\ ret' = o.ret
  /\ UNCHANGED <<ent, moves, req, dir_stack, path_stack, symlink_expansions, head,
                 slash>>
  /\ UNCHANGED ops

path_unlink_file ==
  /\ Ready("path_unlink_file")
  /\ LET o == unlinkat(dir, head, FALSE)
     IN  \/ o.ret = "EPERM" /\ LookAgain(o)
         \/ o.ret # "EPERM" /\ Finish(o)

\* fstatat: EPERM for what is a directory by now becomes EISDIR, and a failure
\* of fstatat takes its place.
path_unlink_file_stat ==
  /\ pc = "stat" /\ req.op = "path_unlink_file"
  /\ LET x == Entry(dir, head) IN
     \/ x \in Dir /\ Finish(Unchanged("EISDIR"))
     \/ x = None /\ Finish(Unchanged("ENOENT"))
     \/ x \in Node \ Dir /\ Finish(Unchanged(ret))

path_open ==
  /\ Ready("path_open")
  /\ LET o == openat_nofollow(dir, head, cur)
     IN  \/ o.ret = "ENOTDIR" /\ LookAgain(o)
         \/ o.ret # "ENOTDIR" /\ Finish(o)

\* fstatat: ENOTDIR for what is a link by now becomes ELOOP.
path_open_stat ==
  /\ pc = "stat" /\ req.op = "path_open"
  /\ Finish(Unchanged(IF Entry(dir, head) \in Link THEN "ELOOP" ELSE "ENOTDIR"))

\* With O_CREAT alone a trailing slash reaches openat, which refuses it.
path_open_slash == pc = "call" /\ slash /\ Finish(Unchanged("EISDIR"))

path_readlink ==
  Ready("path_readlink") /\ Finish(Unchanged(readlinkat(dir, head, FALSE)))

\* fstatat and utimensat find a node.
path_filestat(op) ==
  Ready(op) /\ Finish(Unchanged(Resolve(dir, head, FALSE, CallFollows)))

handler ==
  \/ Resolving \/ SecondPath
  \/ path_create_directory \/ path_symlink \/ path_link \/ path_rename
  \/ path_remove_directory \/ path_unlink_file \/ path_unlink_file_stat
  \/ path_open \/ path_open_stat \/ path_open_slash \/ path_readlink
  \/ path_filestat("path_filestat_get") \/ path_filestat("path_filestat_set_times")

----------------------------------------------------------------------------
(* Other processes *)

OthersRename(d1, n1, d2, n2) ==
  Rename(d1, n1, d2, n2) /\ quiet' = FALSE /\ UNCHANGED <<cur, first, calls>>

\* They remove a file, a link or an empty directory.
OthersRemove(d, n) ==
  /\ pc # "done" /\ moves < MaxMoves
  /\ ent[d][n] # None /\ (ent[d][n] \in Dir => IsEmpty(ent[d][n]))
  /\ ent' = Put(d, n, None) /\ moves' = moves + 1 /\ quiet' = FALSE
  /\ UNCHANGED <<req, pc, walk, cur, first, calls>>

\* renameat2 with RENAME_EXCHANGE: a link may take the place of a directory in
\* one step.
OthersExchange(d1, n1, d2, n2) ==
  /\ pc # "done" /\ moves < MaxMoves
  /\ ent[d1][n1] # None /\ ent[d2][n2] # None /\ ent[d1][n1] # ent[d2][n2]
  /\ ~Below(d2, ent[d1][n1]) /\ ~Below(d1, ent[d2][n2])
  /\ ent' = [ent EXCEPT ![d1][n1] = ent[d2][n2], ![d2][n2] = ent[d1][n1]]
  /\ moves' = moves + 1 /\ quiet' = FALSE
  /\ UNCHANGED <<req, pc, walk, cur, first, calls>>

others ==
  /\ moves < MaxMoves
  /\ \E d1 \in Dir \cap Inside, n1 \in Name :
       /\ ent[d1][n1] # None
       /\ \/ OthersRemove(d1, n1)
          \/ \E d2 \in Dir \cap Inside, n2 \in Name :
               OthersRename(d1, n1, d2, n2) \/ OthersExchange(d1, n1, d2, n2)

OpsDone == pc = "done" /\ calls = MaxCalls /\ UNCHANGED opsvars

OpsNext ==
  \/ handler
  \/ \E c \in Calls : NextCall(c)
  \/ others
  \/ OpsDone

OpsSpec == OpsInit /\ [][OpsNext]_opsvars

\* A handler runs on the guest's thread and never waits.
OpsFairSpec == OpsSpec /\ WF_opsvars(handler)

----------------------------------------------------------------------------
(* Properties *)

\* The variables have their types, and req is the call's.
OpsTypeOK ==
  /\ TypeOK
  /\ cur \in Calls /\ req = cur.req /\ calls \in 1..MaxCalls /\ quiet \in BOOLEAN
  /\ first \in {<<>>} \cup (Dir \X (Name \cup {"."}))
  /\ ret \in Node \cup Errno \cup {None, "ESUCCESS"}

\* fs_helpers.rs: "Normalizes a path to ensure that the target path is located
\* under the directory provided."  A step, of the guest's calls or of others,
\* changes directories below it only, and what it enters there is from below.
EffectsInside ==
  [][\A d \in Dir : ent'[d] # ent[d] =>
       d \in Inside /\ \A n \in Name : ent'[d][n] \in Inside \cup {None}]_opsvars

\* Where POSIX resolution of components from d, confined to Base and with n
\* links to go, comes to but for the last one: a directory and a name in it.
\* In place of the directory there may be an errno; for a path through a file
\* that is readlinkat's EINVAL, where POSIX has ENOTDIR.
Locate[n \in Nat, d \in Node, cs \in Seq(Comp), follow \in BOOLEAN] ==
  LET c == Head(cs)
      last == Tail(cs) = <<>>
      Stop(errno) == [dir |-> errno, name |-> "."]
      Go(m, x, rest) == IF rest = <<>> THEN [dir |-> x, name |-> "."]
                                       ELSE Locate[m, x, rest, follow]
  IN  IF c = "." THEN Go(n, d, Tail(cs))
      ELSE IF c = ".." THEN
        IF d = Base THEN Stop("ENOTCAPABLE") ELSE Go(n, Parent(d), Tail(cs))
      ELSE IF ent[d][c] \in Link /\ (follow \/ ~last) THEN
        IF n = 0 THEN Stop("ELOOP")
        ELSE IF Target[ent[d][c]].abs THEN Stop("ENOTCAPABLE")
        ELSE Go(n - 1, d, Target[ent[d][c]].comps \o Tail(cs))
      ELSE IF last THEN [dir |-> d, name |-> c]
      ELSE IF ent[d][c] \in Dir THEN Go(n, ent[d][c], Tail(cs))
      ELSE Stop(IF ent[d][c] = None THEN "ENOENT" ELSE "EINVAL")

Located(path) ==
  IF path.abs THEN [dir |-> "ENOTCAPABLE", name |-> "."]
  ELSE IF path.comps = <<>> THEN [dir |-> "ENOENT", name |-> "."]
  ELSE Locate[MAX_SYMLINK_EXPANSIONS, Base, path.comps, dirflags]

\* What the call should come to, by the system call of its name at the places
\* its paths denote.
Posix ==
  LET p == Located(req.path)  q == Located(cur.new_path) IN
  IF p.dir \notin Node THEN Unchanged(p.dir)
  ELSE IF req.op \in TwoPaths /\ q.dir \notin Node THEN Unchanged(q.dir)
  ELSE CASE req.op \in {"path_create_directory", "path_symlink"} ->
              create(p.dir, p.name, cur.node)
         [] req.op = "path_link" ->
              linkat(p.dir, p.name, q.dir, q.name, path_link_follows)
         [] req.op = "path_rename" -> renameat(p.dir, p.name, q.dir, q.name)
         [] req.op = "path_remove_directory" -> unlinkat(p.dir, p.name, TRUE)
         [] req.op = "path_unlink_file" ->
              LET o == unlinkat(p.dir, p.name, FALSE)
              IN  IF o.ret = "EPERM" THEN Unchanged("EISDIR") ELSE o
         [] req.op = "path_open" ->
              LET o == openat_nofollow(p.dir, p.name, cur)
              IN  IF o.ret = "ENOTDIR" /\ Entry(p.dir, p.name) \in Link
                  THEN Unchanged("ELOOP") ELSE o
         [] req.op = "path_readlink" ->
              Unchanged(readlinkat(p.dir, p.name, FALSE))
         [] OTHER -> Unchanged(Resolve(p.dir, p.name, FALSE, CallFollows))

\* A call that no other process interferes with changes the tree as the one
\* system call of its name would at the places its paths denote, and returns
\* what that returns, EISDIR and ELOOP included where hosts differ.  Creating a
\* file "name/", on whose error hosts differ, creates nothing.
ActsAsPosix ==
  [][pc # "done" /\ pc' = "done" /\ quiet /\ ret' # "EHOST" =>
       IF req.path.slash /\ needs_final_component
       THEN ent' = ent /\ ret' \in Errno
       ELSE [ent |-> ent', ret |-> ret'] = Posix]_opsvars

\* Every call returns, whatever links its paths meet and others rename.
CallsReturn == pc # "done" ~> pc = "done"
=============================================================================
