------------------------------ MODULE PathProofs ------------------------------
(***************************************************************************)
(* What PathGet and PathOps keep inside the directory given to the guest,  *)
(* for every tree, every set of calls and every number of them and of      *)
(* renames by other processes, as long as no path and no symbolic link     *)
(* ends with a slash.                                                      *)
(*                                                                         *)
(* First the walk: path_get keeps it, and a handler that does not follow a *)
(* last link keeps its target, below the directory.  Then the handlers,    *)
(* one call after the other and beside other processes, change the host's  *)
(* tree below it only, if path_link is not called.                         *)
(*                                                                         *)
(* Then what the recursive definition of kernel resolution means, and      *)
(* that a walk no one interferes with comes to what it does.  Last the     *)
(* types of the handlers' state, which need no condition on the paths.     *)
(***************************************************************************)
EXTENDS PathOps, SequenceTheorems, Induction

----------------------------------------------------------------------------
(* The walk *)

\* No path the walk meets ends with a slash.
NoTrailingSlash ==
  /\ \A r \in Requests : ~r.path.slash
  /\ \A l \in Link : ~Target[l].slash

\* No handler follows a symbolic link in its own system call.
FollowsNothing ==
  \A r \in Requests : /\ r.op # "path_link"
                      /\ r.op = "path_filestat_get" => r.follow
                      /\ r.op = "path_filestat_set_times" => ~r.follow

\* Others rename only below the directory, so nothing leads out of it but links.
Closed == \A d \in Dir \cap Inside, n \in Name : ent[d][n] \in Inside \cup {None}

\* No slash is ever appended to a component.
NoSlash == ~slash /\ \A i \in 1..Len(path_stack) : ~path_stack[i].slash

IInv == TypeOK /\ req \in Requests /\ Closed /\ NoSlash /\ Contained

----------------------------------------------------------------------------
(* Stacks *)

\* Vec::pop keeps what is below the top.
LEMMA PopKeeps ==
  ASSUME NEW S, NEW s \in Seq(S), s # <<>>
  PROVE  /\ Top(s) \in S
         /\ Pop(s) \in Seq(S) /\ Len(Pop(s)) = Len(s) - 1
         /\ \A i \in 1..Len(Pop(s)) : Pop(s)[i] = s[i]
<1>1. Len(s) \in Nat /\ Len(s) >= 1
  OBVIOUS
<1>2. Top(s) \in S
  BY <1>1 DEF Top
<1>3. Pop(s) = [i \in 1..(Len(s) - 1) |-> s[i]]
  BY <1>1 DEF Pop
<1> QED
  BY <1>1, <1>2, <1>3

\* Vec::push keeps what was there and adds one element.
LEMMA PushAdds ==
  ASSUME NEW S, NEW s \in Seq(S), NEW e \in S
  PROVE  /\ Append(s, e) \in Seq(S) /\ Len(Append(s, e)) = Len(s) + 1
         /\ \A i \in 1..Len(s) : Append(s, e)[i] = s[i]
         /\ Append(s, e)[Len(s) + 1] = e
  OBVIOUS

\* The tail of a path is a path, and it ends as the path does.
LEMMA TailIsPath ==
  ASSUME NEW p \in Path, Len(p.comps) > 1
  PROVE  [abs |-> FALSE, comps |-> Tail(p.comps), slash |-> p.slash] \in Path
  BY DEF Path

\* Replacing the current path by its tail keeps the stack one of paths without
\* a trailing slash.
LEMMA TailPushedTyped ==
  ASSUME path_stack \in Seq(Path), path_stack # <<>>,
         \A i \in 1..Len(path_stack) : ~path_stack[i].slash
  PROVE  /\ cur_path \in Path /\ ~cur_path.slash
         /\ TailPushed \in Seq(Path)
         /\ \A i \in 1..Len(TailPushed) : ~TailPushed[i].slash
<1> DEFINE t == [abs |-> FALSE, comps |-> Tail(cur_path.comps),
                 slash |-> cur_path.slash]
<1>1. cur_path \in Path /\ ~cur_path.slash
  BY PopKeeps DEF cur_path, Top
<1>2. /\ Pop(path_stack) \in Seq(Path)
      /\ \A i \in 1..Len(Pop(path_stack)) : ~Pop(path_stack)[i].slash
  BY PopKeeps, SMTT(30)
<1>3. CASE Len(cur_path.comps) > 1
  <2>1. t \in Path /\ ~t.slash
    BY <1>1, <1>3, TailIsPath
  <2>2. TailPushed = Append(Pop(path_stack), t)
    BY <1>3 DEF TailPushed
  <2> HIDE DEF t
  <2> QED
    BY <1>1, <1>2, <2>1, <2>2, PushAdds
<1>4. CASE ~(Len(cur_path.comps) > 1)
  BY <1>1, <1>2, <1>4 DEF TailPushed
<1> QED
  BY <1>3, <1>4
----------------------------------------------------------------------------
(* The invariant *)

\* While no slash is appended, a component names an entry of the directory on
\* top of the stack, so what openat and readlinkat find is inside.
LEMMA EntryInside ==
  ASSUME IInv, Resolve(Top(dir_stack), head, slash, FALSE) \in Node
  PROVE  Resolve(Top(dir_stack), head, slash, FALSE) \in Inside
<1>1. dir_stack \in Seq(Dir) /\ dir_stack # <<>>
  BY DEF IInv, TypeOK, Contained
<1>2. Top(dir_stack) \in Dir \cap Inside
  BY <1>1, PopKeeps DEF IInv, Contained, Top
<1>3. head \in Name \cup {"."} /\ slash = FALSE
  BY DEF IInv, TypeOK, NoSlash
<1>4. CASE head = "."
  BY <1>2, <1>4 DEF Resolve
<1>5. CASE head \in Name
  <2>1. head # "."
    BY <1>5, TreeAssumption
  <2>2. "ENOENT" \notin Node /\ None \notin Node
    BY TreeAssumption DEF Errno
  <2>3. ent[Top(dir_stack)][head] \in Inside \cup {None}
    BY <1>2, <1>5 DEF IInv, Closed
  <2> QED
    BY <1>3, <2>1, <2>2, <2>3 DEF Resolve
<1> QED
  BY <1>3, <1>4, <1>5

LEMMA InitIInv == NoTrailingSlash /\ Init => IInv
<1> SUFFICES ASSUME NoTrailingSlash, Init PROVE IInv
  OBVIOUS
<1>1. req.path \in Path /\ ~req.path.slash /\ req \in Request
  BY RequestAssumption DEF Init, NoTrailingSlash, Request
<1>2. <<Base>> \in Seq(Dir) /\ <<req.path>> \in Seq(Path)
  BY <1>1, TreeAssumption
<1>3. TypeOK
  <2>1. ent \in [Dir -> [Name -> Node \cup {None}]]
    BY TreeAssumption DEF Init
  <2>2. moves \in 0..MaxMoves /\ symlink_expansions \in 0..MAX_SYMLINK_EXPANSIONS
    BY RequestAssumption DEF Init
  <2>3. head \in Name \cup {"."} /\ slash \in BOOLEAN
    BY DEF Init
  <2> QED
    BY <1>1, <1>2, <2>1, <2>2, <2>3 DEF Init, TypeOK
<1>4. Closed
  BY TreeAssumption DEF Init, Closed
<1>5. NoSlash /\ Contained
  BY <1>1, TreeAssumption DEF Init, NoSlash, Contained
<1> QED
  BY <1>3, <1>4, <1>5 DEF IInv, Init

\* A failure ends the walk where it is.
LEMMA FailKeeps ==
  ASSUME IInv, NEW e, Fail(e)
  PROVE  IInv'
  BY DEF IInv, TypeOK, Closed, NoSlash, Contained, Fail

\* A link's target is a path without a trailing slash, so it may be pushed.
LEMMA PushLinkKeeps ==
  ASSUME NoTrailingSlash, IInv, NEW l \in Link, PushLink(l)
  PROVE  IInv'
<1>1. CASE symlink_expansions + 1 > MAX_SYMLINK_EXPANSIONS
  BY <1>1, FailKeeps DEF PushLink
<1>2. CASE ~(symlink_expansions + 1 > MAX_SYMLINK_EXPANSIONS)
  <2> DEFINE t == [Target[l] EXCEPT !.slash = @ \/ slash]
  <2>1. Target[l] \in Path /\ Target[l].slash = FALSE /\ slash = FALSE
    BY TreeAssumption DEF NoTrailingSlash, IInv, TypeOK, NoSlash, Path
  <2>2. t = Target[l]
    BY <2>1 DEF Path
  <2>3. path_stack' = Append(path_stack, Target[l])
    BY <1>2, <2>2 DEF PushLink
  <2>4. path_stack \in Seq(Path)
    BY DEF IInv, TypeOK
  <2>5. path_stack' \in Seq(Path)
        /\ \A i \in 1..Len(path_stack') : ~path_stack'[i].slash
    BY <2>1, <2>3, <2>4, PushAdds DEF IInv, NoSlash
  <2>6. symlink_expansions' \in 0..MAX_SYMLINK_EXPANSIONS
    BY <1>2, RequestAssumption DEF IInv, TypeOK, PushLink
  <2> QED
    BY <1>2, <2>5, <2>6
    DEF IInv, TypeOK, Closed, NoSlash, Contained, PushLink
<1> QED
  BY <1>1, <1>2

\* Renames by others stay below the directory.
LEMMA RenameKeeps ==
  ASSUME IInv,
         NEW d1 \in Dir \cap Inside, NEW d2 \in Dir \cap Inside,
         NEW n1 \in Name, NEW n2 \in Name, Rename(d1, n1, d2, n2)
  PROVE  IInv'
<1> DEFINE e == ent[d1][n1]
<1>1. ent \in [Dir -> [Name -> Node \cup {None}]] /\ moves \in 0..MaxMoves
  BY DEF IInv, TypeOK
<1>2. e \in Inside
  BY DEF IInv, Closed, Rename
<1>3. e \in Node
  BY <1>2, TreeAssumption
<1>4. ent' = [ent EXCEPT ![d1][n1] = None, ![d2][n2] = e]
  BY DEF Rename
<1> HIDE DEF e
<1>5. ent' \in [Dir -> [Name -> Node \cup {None}]]
  BY <1>1, <1>3, <1>4
<1>6. \A d \in Dir, n \in Name : ent'[d][n] \in {ent[d][n], None, e}
  BY <1>1, <1>4
<1>7. Closed'
  BY <1>2, <1>6 DEF IInv, Closed
<1>8. moves' \in 0..MaxMoves
  BY <1>1, RequestAssumption DEF Rename
<1> QED
  BY <1>5, <1>7, <1>8 DEF IInv, TypeOK, NoSlash, Contained, Rename, walk

\* A step of the loop that opens or leaves no directory keeps the invariant.
LEMMA ContinueKeeps ==
  ASSUME IInv, NEW dirs \in Seq(Dir), NEW paths \in Seq(Path),
         Len(dirs) > 0, dirs[1] = Base,
         \A i \in 1..Len(dirs) : dirs[i] \in Inside,
         \A i \in 1..Len(paths) : ~paths[i].slash,
         Continue(dirs, paths)
  PROVE  IInv'
  BY DEF IInv, TypeOK, Closed, NoSlash, Contained, Continue

LEMMA FoundKeeps ==
  ASSUME IInv, NEW name \in Name \cup {"."}, NEW paths \in Seq(Path),
         \A i \in 1..Len(paths) : ~paths[i].slash,
         Found(name, FALSE, paths)
  PROVE  IInv'
  BY DEF IInv, TypeOK, Closed, NoSlash, Contained, Found

----------------------------------------------------------------------------

LEMMA NextIInv == NoTrailingSlash /\ IInv /\ [Next]_vars => IInv'
<1> SUFFICES ASSUME NoTrailingSlash, IInv, [Next]_vars PROVE IInv'
  OBVIOUS
<1>a. /\ dir_stack \in Seq(Dir) /\ Len(dir_stack) > 0 /\ dir_stack[1] = Base
      /\ \A i \in 1..Len(dir_stack) : dir_stack[i] \in Inside
      /\ path_stack \in Seq(Path)
      /\ \A i \in 1..Len(path_stack) : ~path_stack[i].slash
      /\ head \in Name \cup {"."} /\ slash = FALSE
  BY DEF IInv, TypeOK, NoSlash, Contained
<1>1. CASE NoneLeft
  <2>1. <<>> \in Seq(Path) /\ \A i \in 1..Len(<<>>) : ~(<<>>)[i].slash
    OBVIOUS
  <2> QED
    BY <1>1, <2>1, FoundKeeps DEF NoneLeft
<1>2. CASE EmptyPath
  BY <1>2, FailKeeps DEF EmptyPath
<1>3. CASE RootDir
  BY <1>3, FailKeeps DEF RootDir
<1>4. CASE CurDir
  <2>1. /\ TailPushed \in Seq(Path)
        /\ \A i \in 1..Len(TailPushed) : ~TailPushed[i].slash
    BY <1>a, <1>4, TailPushedTyped DEF CurDir, HeadIs
  <2>2. Continue(dir_stack, TailPushed)
    BY <1>4 DEF CurDir
  <2> QED
    BY <1>a, <2>1, <2>2, ContinueKeeps
<1>5. CASE ParentDir
  <2>1. CASE Len(dir_stack) = 1
    BY <1>5, <2>1, FailKeeps DEF ParentDir
  <2>2. CASE Len(dir_stack) # 1
    <3>1. /\ TailPushed \in Seq(Path)
          /\ \A i \in 1..Len(TailPushed) : ~TailPushed[i].slash
      BY <1>a, <1>5, TailPushedTyped DEF ParentDir, HeadIs
    <3>2. Continue(Pop(dir_stack), TailPushed)
      BY <1>5, <2>2 DEF ParentDir
    <3>3. dir_stack # <<>> /\ Len(dir_stack) \in Nat
      BY <1>a
    <3>4. /\ Pop(dir_stack) \in Seq(Dir) /\ Len(Pop(dir_stack)) = Len(dir_stack) - 1
          /\ \A i \in 1..Len(Pop(dir_stack)) : Pop(dir_stack)[i] = dir_stack[i]
      BY <1>a, <3>3, PopKeeps
    <3>5. /\ Len(Pop(dir_stack)) > 0 /\ Pop(dir_stack)[1] = Base
          /\ \A i \in 1..Len(Pop(dir_stack)) : Pop(dir_stack)[i] \in Inside
      BY <1>a, <2>2, <3>3, <3>4
    <3> QED
      BY <3>1, <3>2, <3>4, <3>5, ContinueKeeps
  <2> QED
    BY <2>1, <2>2
<1>6. ASSUME NEW name \in Name, Normal(name) PROVE IInv'
  <2>1. /\ cur_path.slash = FALSE /\ TailPushed \in Seq(Path)
        /\ \A i \in 1..Len(TailPushed) : ~TailPushed[i].slash
    <3>1. path_stack # <<>>
      BY <1>6 DEF Normal, HeadIs
    <3>2. cur_path \in Path /\ ~cur_path.slash
      BY <1>a, <3>1, TailPushedTyped
    <3> QED
      BY <1>a, <3>1, <3>2, TailPushedTyped DEF Path
  <2>2. pc' \in {"openat", "readlinkat", "call"}
    BY <1>6 DEF Normal
  <2> QED
    BY <1>6, <2>1, <2>2 DEF IInv, TypeOK, Closed, NoSlash, Contained, Normal
<1>7. CASE openat
  <2> DEFINE r == Resolve(Top(dir_stack), head, slash, FALSE)
  <2>1. CASE r \in Dir /\ Continue(Append(dir_stack, r), path_stack)
    <3>1. r \in Inside /\ r \in Dir
      BY <2>1, EntryInside DEF Dir
    <3> HIDE DEF r
    <3>2. /\ Append(dir_stack, r) \in Seq(Dir)
          /\ Len(Append(dir_stack, r)) > 0 /\ Append(dir_stack, r)[1] = Base
          /\ \A i \in 1..Len(Append(dir_stack, r)) : Append(dir_stack, r)[i] \in Inside
      BY <1>a, <3>1
    <3> QED
      BY <1>a, <2>1, <3>2, ContinueKeeps
  <2>2. CASE pc' = "expand" /\ UNCHANGED <<ent, moves, req, walk>>
    BY <2>2 DEF IInv, TypeOK, Closed, NoSlash, Contained, walk
  <2>3. CASE Fail(r)
    BY <2>3, FailKeeps
  <2> QED
    BY <1>7, <2>1, <2>2, <2>3 DEF openat
<1>8. CASE openat_fails
  BY <1>8, FailKeeps DEF openat_fails
<1>9. CASE expand
  BY <1>9, FailKeeps, PushLinkKeeps DEF expand
<1>10. CASE expand_last
  <2> DEFINE r == readlinkat(Top(dir_stack), head, slash)
  <2>1. CASE r \in Link /\ PushLink(r)
    BY <2>1, PushLinkKeeps
  <2>2. CASE Found(head, slash, path_stack)
    BY <1>a, <2>2, FoundKeeps
  <2>3. CASE Fail(r)
    BY <2>3, FailKeeps
  <2> QED
    BY <1>10, <2>1, <2>2, <2>3 DEF expand_last
<1>11. CASE call
  BY <1>11, FailKeeps DEF call
<1>12. ASSUME NEW d1 \in Dir \cap Inside, NEW d2 \in Dir \cap Inside,
              NEW n1 \in Name, NEW n2 \in Name, Rename(d1, n1, d2, n2)
       PROVE  IInv'
  BY <1>12, RenameKeeps
<1>13. CASE UNCHANGED vars
  BY <1>13 DEF IInv, TypeOK, Closed, NoSlash, Contained, vars
<1> QED
  BY <1>1, <1>2, <1>3, <1>4, <1>5, <1>6, <1>7, <1>8, <1>9, <1>10, <1>11, <1>12,
     <1>13 DEF Next, path_get, resolve, Done

\* path_get never has a directory open that is not below the one it was given,
\* however deep the links nest and whatever others rename between its calls.
THEOREM WalkContained ==
  ASSUME NoTrailingSlash
  PROVE  Spec => []Contained
<1>1. Init => IInv
  BY InitIInv
<1>2. IInv /\ [Next]_vars => IInv'
  BY NextIInv
<1>3. IInv => Contained
  BY DEF IInv
<1> QED
  BY <1>1, <1>2, <1>3, PTL DEF Spec

\* What a step makes the call come to is inside, or no node at all.
LEMMA NextTarget ==
  ASSUME FollowsNothing, IInv, TargetInside, [Next]_vars
  PROVE  TargetInside'
<1>a. Errno \cap Node = {}
  BY TreeAssumption
<1>b. ASSUME NEW e, e \notin Node, Fail(e) PROVE TargetInside'
  BY <1>b DEF Fail, TargetInside
<1>c. ASSUME NEW l, PushLink(l) PROVE TargetInside'
  BY <1>a, <1>b, <1>c DEF PushLink, TargetInside, Errno
<1>1. CASE EmptyPath \/ RootDir \/ openat_fails
  BY <1>1, <1>a, <1>b DEF EmptyPath, RootDir, openat_fails, Errno
<1>2. CASE NoneLeft \/ CurDir \/ \E name \in Name : Normal(name)
  BY <1>2 DEF NoneLeft, CurDir, Normal, Found, Continue, TargetInside
<1>3. CASE ParentDir
  BY <1>3, <1>a, <1>b DEF ParentDir, Continue, TargetInside, Errno
<1>4. CASE openat
  <2> DEFINE r == Resolve(Top(dir_stack), head, slash, FALSE)
  <2>1. CASE r \notin Node /\ Fail(r)
    BY <2>1, <1>b
  <2>2. CASE ret' = ret
    BY <2>2 DEF TargetInside
  <2> QED
    BY <1>4, <2>1, <2>2 DEF openat, Continue, walk
<1>5. ASSUME readlinkat(Top(dir_stack), head, slash) \notin Link
      PROVE  readlinkat(Top(dir_stack), head, slash) \notin Node
  BY <1>a, <1>5 DEF readlinkat, Errno
<1>6. CASE expand
  BY <1>6, <1>5, <1>b, <1>c DEF expand
<1>7. CASE expand_last
  <2> DEFINE r == readlinkat(Top(dir_stack), head, slash)
  <2>1. CASE PushLink(r)
    BY <2>1, <1>c
  <2>2. CASE Found(head, slash, path_stack)
    BY <2>2 DEF Found, TargetInside
  <2>3. CASE r \notin Link /\ Fail(r)
    BY <2>3, <1>5, <1>b
  <2> QED
    BY <1>7, <2>1, <2>2, <2>3 DEF expand_last
<1>8. CASE call
  <2>1. CallFollows = FALSE /\ slash = FALSE
    BY DEF FollowsNothing, IInv, TypeOK, NoSlash, CallFollows, path_link_follows,
           path_filestat_get_follows, path_filestat_set_times_follows, Request
  <2> DEFINE r == Resolve(Top(dir_stack), head, FALSE, FALSE)
  <2>2. r \in Node => r \in Inside
    BY <2>1, EntryInside
  <2>3. CASE Fail("EISDIR") \/ Fail("ELOOP")
    BY <2>3, <1>a, <1>b DEF Errno
  <2>4. CASE Fail(r)
    BY <2>2, <2>4 DEF Fail, TargetInside
  <2> QED
    BY <1>8, <2>1, <2>3, <2>4 DEF call
<1>9. CASE \E d1, d2 \in Dir \cap Inside, n1, n2 \in Name : Rename(d1, n1, d2, n2)
  BY <1>9 DEF Rename, walk, TargetInside
<1>10. CASE UNCHANGED vars
  BY <1>10 DEF vars, TargetInside
<1> QED
  BY <1>1, <1>2, <1>3, <1>4, <1>6, <1>7, <1>8, <1>9, <1>10
  DEF Next, path_get, resolve, Done

\* What a handler acts on is below the directory given to the guest, when its
\* own system call does not follow links: no order of the walk's calls and of
\* renames by others leads elsewhere.
THEOREM HandlersStayInside ==
  ASSUME NoTrailingSlash, FollowsNothing
  PROVE  Spec => []TargetInside
<1>1. Init => IInv /\ TargetInside
  <2>1. Init => TargetInside
    BY TreeAssumption DEF Init, TargetInside
  <2> QED
    BY <2>1, InitIInv
<1>2. IInv /\ TargetInside /\ [Next]_vars => (IInv /\ TargetInside)'
  BY NextIInv, NextTarget
<1> QED
  BY <1>1, <1>2, PTL DEF Spec

----------------------------------------------------------------------------
(* The handlers *)

\* No path that a walk meets ends with a slash.
NoSlashCalls == NoTrailingSlash /\ \A c \in Calls : ~c.new_path.slash

\* linkat follows a last link, wherever it leads.
NoLinkCalls == \A c \in Calls : c.req.op # "path_link"

\* What is known between any two steps: the walk's invariant, and that the first
\* of two paths led inside.
OInv ==
  /\ IInv /\ cur \in Calls /\ req = cur.req
  /\ first \in {<<>>} \cup ((Dir \cap Inside) \X (Name \cup {"."}))

\* A tree that differs from the present one below Base only, by what is below it.
Safe(tree) ==
  /\ tree \in [Dir -> [Name -> Node \cup {None}]]
  /\ \A d \in Dir : tree[d] # ent[d] =>
       d \in Inside /\ \A n \in Name : tree[d][n] \in Inside \cup {None}

----------------------------------------------------------------------------
(* System calls *)

\* The tree as it is.
LEMMA SameSafe == ASSUME IInv PROVE Safe(ent)
  BY DEF Safe, IInv, TypeOK

\* One entry of an inside directory comes to hold an inside node, or nothing.
LEMMA PutSafe ==
  ASSUME IInv, NEW d \in Dir \cap Inside, NEW name \in Name,
         NEW x \in Inside \cup {None}
  PROVE  Safe(Put(d, name, x))
<1>1. ent \in [Dir -> [Name -> Node \cup {None}]] /\ x \in Node \cup {None}
  BY TreeAssumption DEF IInv, TypeOK
<1>2. Put(d, name, x) \in [Dir -> [Name -> Node \cup {None}]]
  BY <1>1 DEF Put
<1>3. \A e \in Dir : e # d => Put(d, name, x)[e] = ent[e]
  BY <1>1 DEF Put
<1>4. \A n \in Name : Put(d, name, x)[d][n] \in {ent[d][n], x}
  BY <1>1 DEF Put
<1>5. \A n \in Name : Put(d, name, x)[d][n] \in Inside \cup {None}
  BY <1>4 DEF IInv, Closed
<1> QED
  BY <1>2, <1>3, <1>5 DEF Safe

\* Two entries of inside directories change hands.
LEMMA PutTwoSafe ==
  ASSUME IInv, NEW d1 \in Dir \cap Inside, NEW n1 \in Name,
         NEW d2 \in Dir \cap Inside, NEW n2 \in Name,
         NEW x \in Inside \cup {None}, NEW y \in Inside \cup {None}
  PROVE  Safe([ent EXCEPT ![d1][n1] = x, ![d2][n2] = y])
<1> DEFINE t == [ent EXCEPT ![d1][n1] = x, ![d2][n2] = y]
<1>1. /\ ent \in [Dir -> [Name -> Node \cup {None}]]
      /\ x \in Node \cup {None} /\ y \in Node \cup {None}
  BY TreeAssumption DEF IInv, TypeOK
<1>2. t \in [Dir -> [Name -> Node \cup {None}]]
  BY <1>1
<1>3. \A e \in Dir : e \notin {d1, d2} => t[e] = ent[e]
  BY <1>1
<1>4. \A e \in Dir, n \in Name : t[e][n] \in {ent[e][n], x, y}
  BY <1>1
<1>5. \A e \in Dir \cap Inside, n \in Name : t[e][n] \in Inside \cup {None}
  BY <1>4 DEF IInv, Closed
<1> HIDE DEF t
<1>6. Safe(t)
  BY <1>2, <1>3, <1>5 DEF Safe
<1> QED
  BY <1>6 DEF t

\* A name other than "." is an entry's, and what it holds is inside.
LEMMA EntryOf ==
  ASSUME IInv, NEW d \in Dir \cap Inside, NEW name \in Name \cup {"."}
  PROVE  /\ Entry(d, name) \in Inside \cup {None}
         /\ name # "." => name \in Name /\ Entry(d, name) = ent[d][name]
  BY DEF Entry, IInv, Closed

\* mkdirat, symlinkat and openat with O_CREAT.
LEMMA CreateSafe ==
  ASSUME IInv, NEW d \in Dir \cap Inside, NEW name \in Name \cup {"."},
         NEW x \in Inside
  PROVE  Safe(create(d, name, x).ent)
<1>1. CASE Entry(d, name) = None /\ (d = Root \/ Linked(d))
  <2>1. name # "."
    BY <1>1, TreeAssumption DEF Entry
  <2> QED
    BY <1>1, <2>1, PutSafe DEF create, Outcome, Unchanged
<1>2. CASE ~(Entry(d, name) = None /\ (d = Root \/ Linked(d)))
  BY <1>2, SameSafe DEF create, Outcome, Unchanged
<1> QED
  BY <1>1, <1>2

LEMMA RenameatSafe ==
  ASSUME IInv, NEW d1 \in Dir \cap Inside, NEW name1 \in Name \cup {"."},
         NEW d2 \in Dir \cap Inside, NEW name2 \in Name \cup {"."}
  PROVE  Safe(renameat(d1, name1, d2, name2).ent)
<1> DEFINE x == Entry(d1, name1)
           t == [Put(d2, name2, x) EXCEPT ![d1][name1] = None]
<1>1. CASE name1 = "." \/ name2 = "."
  BY <1>1, SameSafe DEF renameat, Outcome, Unchanged
<1>2. CASE name1 # "." /\ name2 # "."
  <2>1. name1 \in Name /\ name2 \in Name /\ x \in Inside \cup {None}
    BY <1>2, EntryOf
  <2>2. Safe([ent EXCEPT ![d2][name2] = x, ![d1][name1] = None])
    BY <2>1, PutTwoSafe
  <2>3. t = [ent EXCEPT ![d2][name2] = x, ![d1][name1] = None]
    BY DEF Put
  <2>4. renameat(d1, name1, d2, name2).ent \in {ent, t}
    BY <1>2 DEF renameat, Outcome, Unchanged
  <2> QED
    BY <2>2, <2>3, <2>4, SameSafe
<1> QED
  BY <1>1, <1>2

LEMMA UnlinkatSafe ==
  ASSUME IInv, NEW d \in Dir \cap Inside, NEW name \in Name \cup {"."},
         NEW removedir \in BOOLEAN
  PROVE  Safe(unlinkat(d, name, removedir).ent)
<1>1. CASE name = "."
  <2>1. Entry(d, name) = d /\ d # None
    BY <1>1, TreeAssumption DEF Entry
  <2>2. unlinkat(d, name, removedir).ent = ent
    BY <1>1, <2>1 DEF unlinkat, Outcome, Unchanged
  <2> QED
    BY <2>2, SameSafe
<1>2. CASE name # "."
  <2>1. Safe(Put(d, name, None))
    BY <1>2, PutSafe
  <2>2. unlinkat(d, name, removedir).ent \in {ent, Put(d, name, None)}
    BY DEF unlinkat, Outcome, Unchanged
  <2> QED
    BY <2>1, <2>2, SameSafe
<1> QED
  BY <1>1, <1>2

LEMMA OpenatSafe ==
  ASSUME IInv, NEW d \in Dir \cap Inside, NEW name \in Name \cup {"."},
         NEW c \in Calls, c.req.creat => c.node \in Inside
  PROVE  Safe(openat_nofollow(d, name, c).ent)
<1>1. c.req.creat => Safe(create(d, name, c.node).ent)
  BY CreateSafe
<1>2. \/ c.req.creat /\ openat_nofollow(d, name, c).ent = create(d, name, c.node).ent
      \/ openat_nofollow(d, name, c).ent = ent
  BY DEF openat_nofollow, Outcome, Unchanged
<1> QED
  BY <1>1, <1>2, SameSafe

----------------------------------------------------------------------------
(* Steps *)

\* What a step may do to the tree.
Effect ==
  \A d \in Dir : ent'[d] # ent[d] =>
    d \in Inside /\ \A n \in Name : ent'[d][n] \in Inside \cup {None}

\* A safe tree keeps the walk's invariant, wherever the call stands.
LEMMA SafeKeeps ==
  ASSUME IInv, Safe(ent'), moves' \in 0..MaxMoves,
         pc' \in {"loop", "openat", "expand", "readlinkat", "call", "stat", "done"},
         UNCHANGED <<req, dir_stack, path_stack, symlink_expansions, head, slash>>
  PROVE  IInv' /\ Effect
<1>1. Closed'
  BY DEF Safe, IInv, Closed
<1>2. Effect
  BY DEF Safe, Effect
<1> QED
  BY <1>1, <1>2 DEF IInv, TypeOK, NoSlash, Contained, Safe

LEMMA FinishKeeps ==
  ASSUME OInv, NEW o, Safe(o.ent), Finish(o)
  PROVE  OInv' /\ Effect
<1>1. IInv' /\ Effect
  BY SafeKeeps DEF OInv, IInv, TypeOK, Finish
<1> QED
  BY <1>1 DEF OInv, Finish, ops

LEMMA LookAgainKeeps ==
  ASSUME OInv, NEW o, LookAgain(o)
  PROVE  OInv' /\ Effect
<1>1. IInv' /\ Effect
  BY SameSafe, SafeKeeps DEF OInv, IInv, TypeOK, LookAgain
<1> QED
  BY <1>1 DEF OInv, LookAgain, ops

\* The walk reads the tree only.
LEMMA ResolvingKeeps ==
  ASSUME NoSlashCalls, OInv, Resolving
  PROVE  OInv' /\ Effect
<1>1. UNCHANGED <<ent, req>>
  BY DEF Resolving, resolve, NoneLeft, EmptyPath, RootDir, CurDir, ParentDir, Normal,
     openat, openat_fails, expand, expand_last, Found, Fail, Continue, PushLink, walk
<1>2. IInv'
  BY NextIInv DEF NoSlashCalls, OInv, Resolving, Next, path_get
<1> QED
  BY <1>1, <1>2 DEF OInv, Resolving, ops, Effect

\* path_get starts anew, at the guest's directory.
LEMMA StartKeeps ==
  ASSUME NoSlashCalls, OInv, NEW c \in Calls, NEW p \in Path, ~p.slash,
         pc' = "loop", dir_stack' = <<Base>>, path_stack' = <<p>>,
         symlink_expansions' = 0, head' = ".", slash' = FALSE,
         req' = c.req, UNCHANGED <<ent, moves>>
  PROVE  IInv' /\ Effect
<1>1. c.req \in Requests /\ c.req \in Request
  BY CallAssumption, RequestAssumption
<1>2. <<Base>> \in Seq(Dir) /\ <<p>> \in Seq(Path)
  BY TreeAssumption
<1>3. TypeOK'
  <2>1. ent' \in [Dir -> [Name -> Node \cup {None}]] /\ moves' \in 0..MaxMoves
    BY DEF OInv, IInv, TypeOK
  <2>2. symlink_expansions' \in 0..MAX_SYMLINK_EXPANSIONS
    BY RequestAssumption
  <2> QED
    BY <1>1, <1>2, <2>1, <2>2 DEF TypeOK
<1>4. NoSlash' /\ Contained'
  BY TreeAssumption DEF NoSlash, Contained
<1> QED
  BY <1>1, <1>3, <1>4 DEF OInv, IInv, Closed, Effect

\* The system calls of the handlers change the tree safely.
LEMMA HandlerKeeps ==
  ASSUME NoSlashCalls, NoLinkCalls, OInv, handler
  PROVE  OInv' /\ Effect
<1>a. IInv /\ cur \in Calls /\ cur \in Call /\ req = cur.req /\ dir = Top(dir_stack)
  BY CallAssumption DEF OInv, dir
<1>b. dir \in Dir \cap Inside /\ head \in Name \cup {"."}
  <2>1. dir_stack \in Seq(Dir) /\ dir_stack # <<>>
    BY <1>a DEF IInv, TypeOK, Contained
  <2> QED
    BY <1>a, <2>1, PopKeeps DEF IInv, TypeOK, Contained, Top
<1>c. req.op \in Creating => cur.node \in Inside
  BY <1>a, CallAssumption
<1>d. ASSUME NEW op \in TwoPaths, Ready(op)
      PROVE  first[1] \in Dir \cap Inside /\ first[2] \in Name \cup {"."}
  BY <1>d DEF Ready, OInv
<1>e. ASSUME NEW x, Finish(Unchanged(x)) PROVE OInv' /\ Effect
  BY <1>a, <1>e, SameSafe, FinishKeeps DEF Unchanged, Outcome
<1>1. CASE Resolving
  BY <1>1, ResolvingKeeps
<1>2. CASE SecondPath
  <2>1. cur.new_path \in Path /\ ~cur.new_path.slash
    BY <1>a DEF Call, NoSlashCalls
  <2>2. IInv' /\ Effect
    BY <1>2, <1>a, <2>1, StartKeeps DEF SecondPath
  <2>3. first' \in (Dir \cap Inside) \X (Name \cup {"."})
    BY <1>2, <1>a, <1>b DEF SecondPath
  <2> QED
    BY <1>2, <2>2, <2>3 DEF SecondPath, OInv
<1>3. CASE path_create_directory \/ path_symlink
  BY <1>3, <1>a, <1>b, <1>c, CreateSafe, FinishKeeps
  DEF path_create_directory, path_symlink, Ready, Creating
<1>4. CASE path_link
  BY <1>4, <1>a DEF path_link, Ready, NoLinkCalls
<1>5. CASE path_rename
  BY <1>5, <1>a, <1>b, <1>d, RenameatSafe, FinishKeeps DEF path_rename, TwoPaths
<1>6. CASE path_remove_directory
  BY <1>6, <1>a, <1>b, UnlinkatSafe, FinishKeeps DEF path_remove_directory
<1>7. CASE path_unlink_file
  BY <1>7, <1>a, <1>b, UnlinkatSafe, FinishKeeps, LookAgainKeeps DEF path_unlink_file
<1>8. CASE path_unlink_file_stat
  BY <1>8, <1>e DEF path_unlink_file_stat
<1>9. CASE path_open
  BY <1>9, <1>a, <1>b, <1>c, OpenatSafe, FinishKeeps, LookAgainKeeps
  DEF path_open, Ready, Creating
<1>10. CASE path_open_stat \/ path_open_slash \/ path_readlink
  BY <1>10, <1>e DEF path_open_stat, path_open_slash, path_readlink
<1>11. CASE \/ path_filestat("path_filestat_get")
            \/ path_filestat("path_filestat_set_times")
  BY <1>11, <1>e DEF path_filestat
<1> QED
  BY <1>1, <1>2, <1>3, <1>4, <1>5, <1>6, <1>7, <1>8, <1>9, <1>10, <1>11 DEF handler

\* Other processes move entries between inside directories.
LEMMA OthersKeep ==
  ASSUME OInv, others
  PROVE  OInv' /\ Effect
<1>a. IInv /\ moves \in 0..MaxMoves /\ MaxMoves \in Nat
  BY RequestAssumption DEF OInv, IInv, TypeOK
<1>b. \A d \in Dir \cap Inside, n \in Name : ent[d][n] \in Inside \cup {None}
  BY <1>a DEF IInv, Closed
<1>c. None \in Inside \cup {None} /\ moves < MaxMoves
  BY DEF others
<1>d. ASSUME Safe(ent'), moves' = moves + 1, UNCHANGED <<req, pc, walk, cur, first>>
      PROVE  OInv' /\ Effect
  <2>1. IInv' /\ Effect
    BY <1>a, <1>c, <1>d, SafeKeeps DEF IInv, TypeOK, walk
  <2> QED
    BY <1>d, <2>1 DEF OInv
<1>1. PICK d1 \in Dir \cap Inside, n1 \in Name :
        \/ OthersRemove(d1, n1)
        \/ \E d2 \in Dir \cap Inside, n2 \in Name :
             OthersRename(d1, n1, d2, n2) \/ OthersExchange(d1, n1, d2, n2)
  BY DEF others
<1>2. CASE OthersRemove(d1, n1)
  BY <1>2, <1>a, <1>c, <1>d, PutSafe DEF OthersRemove
<1>3. ASSUME NEW d2 \in Dir \cap Inside, NEW n2 \in Name,
             OthersRename(d1, n1, d2, n2) \/ OthersExchange(d1, n1, d2, n2)
      PROVE  OInv' /\ Effect
  <2>1. Safe(ent')
    <3>1. CASE OthersRename(d1, n1, d2, n2)
      <4>1. Safe([ent EXCEPT ![d1][n1] = None, ![d2][n2] = ent[d1][n1]])
        BY <1>a, <1>b, <1>c, PutTwoSafe
      <4> QED
        BY <3>1, <4>1 DEF OthersRename, Rename
    <3>2. CASE OthersExchange(d1, n1, d2, n2)
      <4>1. Safe([ent EXCEPT ![d1][n1] = ent[d2][n2], ![d2][n2] = ent[d1][n1]])
        BY <1>a, <1>b, PutTwoSafe
      <4> QED
        BY <3>2, <4>1 DEF OthersExchange
    <3> QED
      BY <1>3, <3>1, <3>2
  <2> QED
    BY <1>3, <1>d, <2>1 DEF OthersRename, OthersExchange, Rename
<1> QED
  BY <1>1, <1>2, <1>3

----------------------------------------------------------------------------

LEMMA OpsInitOInv == NoSlashCalls /\ OpsInit => OInv
  BY InitIInv DEF NoSlashCalls, OpsInit, OInv

LEMMA OpsNextOInv ==
  NoSlashCalls /\ NoLinkCalls /\ OInv /\ [OpsNext]_opsvars => OInv' /\ Effect
<1> SUFFICES ASSUME NoSlashCalls, NoLinkCalls, OInv, [OpsNext]_opsvars
             PROVE  OInv' /\ Effect
  OBVIOUS
<1>1. CASE handler
  BY <1>1, HandlerKeeps
<1>2. ASSUME NEW c \in Calls, NextCall(c) PROVE OInv' /\ Effect
  <2>1. c \in Call /\ c.req \in Requests
    BY CallAssumption
  <2>2. c.req.path \in Path /\ ~c.req.path.slash
    BY <2>1, RequestAssumption DEF Request, NoSlashCalls, NoTrailingSlash
  <2>3. IInv' /\ Effect
    BY <1>2, <2>2, StartKeeps DEF NextCall
  <2> QED
    BY <1>2, <2>3 DEF OInv, NextCall
<1>3. CASE others
  BY <1>3, OthersKeep
<1>4. CASE UNCHANGED opsvars
  BY <1>4 DEF opsvars, ops, vars, OInv, IInv, TypeOK, Closed, NoSlash, Contained, Effect
<1> QED
  BY <1>1, <1>2, <1>3, <1>4 DEF OpsNext, OpsDone

\* The handlers' system calls, whatever their paths resolved to and whatever
\* others did meanwhile, create, rename and remove below the directory only.
THEOREM EffectsStayInside ==
  ASSUME NoSlashCalls, NoLinkCalls
  PROVE  OpsSpec => EffectsInside
<1>1. OpsInit => OInv
  BY OpsInitOInv
<1>2. OInv /\ [OpsNext]_opsvars => OInv' /\ [Effect]_opsvars
  BY OpsNextOInv
<1>3. OpsSpec => [][Effect]_opsvars
  BY <1>1, <1>2, PTL DEF OpsSpec
<1> QED
  BY <1>3 DEF EffectsInside, Effect

\* No walk of any of the calls has a directory open that is not below the one
\* given, the second walk of path_rename included.
THEOREM EveryWalkContained ==
  ASSUME NoSlashCalls, NoLinkCalls
  PROVE  OpsSpec => []Contained
<1>1. OpsInit => OInv
  BY OpsInitOInv
<1>2. OInv /\ [OpsNext]_opsvars => OInv'
  BY OpsNextOInv
<1>3. OInv => Contained
  BY DEF OInv, IInv
<1> QED
  BY <1>1, <1>2, <1>3, PTL DEF OpsSpec
----------------------------------------------------------------------------
(* The kernel's resolution *)

\* Walk goes on from a place to the next one until it stops: at the end of the
\* path, at what is no directory, or at an error.
Place == Nat \X Node \X Seq(Comp) \X BOOLEAN \X BOOLEAN
At(w) == ent[w[2]][Head(w[3])]
Follows(w) == At(w) \in Link /\ (w[4] \/ Tail(w[3]) # <<>>)

Stops(w) ==
  \/ w[3] = <<>>
  \/ w[2] \notin Dir
  \/ Head(w[3]) = ".." /\ w[5] /\ w[2] = Base
  \/ /\ Head(w[3]) \notin {".", ".."}
     /\ \/ At(w) = None
        \/ Follows(w) /\ (w[1] = 0 \/ (w[5] /\ Target[At(w)].abs))

StopsWith(w) ==
  IF w[3] = <<>> THEN w[2]
  ELSE IF w[2] \notin Dir THEN "ENOTDIR"
  ELSE IF Head(w[3]) = ".." THEN "ENOTCAPABLE"
  ELSE IF At(w) = None THEN "ENOENT"
  ELSE IF w[1] = 0 THEN "ELOOP" ELSE "ENOTCAPABLE"

Spliced(w) ==
  Target[At(w)].comps \o (IF Target[At(w)].slash THEN <<".">> ELSE <<>>)
                      \o Tail(w[3])

Onward(w) ==
  IF Head(w[3]) = "." THEN <<w[1], w[2], Tail(w[3]), w[4], w[5]>>
  ELSE IF Head(w[3]) = ".." THEN <<w[1], Parent(w[2]), Tail(w[3]), w[4], w[5]>>
  ELSE IF Follows(w)
  THEN <<w[1] - 1, IF Target[At(w)].abs THEN Root ELSE w[2], Spliced(w), w[4], w[5]>>
  ELSE <<w[1], At(w), Tail(w[3]), w[4], w[5]>>

WalkIs(f) == f = [w \in Place |-> IF Stops(w) THEN StopsWith(w) ELSE f[Onward(w)]]

\* The directories' entries have their types.
Typed == ent \in [Dir -> [Name -> Node \cup {None}]]

\* Each step leaves fewer links to go, or as many and fewer components.
LinksLeft == [w \in Place |-> w[1]]
CompsLeft == [w \in Place |-> Len(w[3])]

LEMMA ParentIsDir ==
  ASSUME NEW d \in Dir
  PROVE  Parent(d) \in Dir
<1>1. CASE \E p \in Dir, n \in Name : ent[p][n] = d
  BY <1>1, Zenon DEF Parent
<1>2. CASE ~ \E p \in Dir, n \in Name : ent[p][n] = d
  BY <1>2, Zenon DEF Parent
<1> QED
  BY <1>1, <1>2

LEMMA LinkTarget ==
  ASSUME NEW l \in Link
  PROVE  /\ Target[l] \in Path /\ Target[l].comps \in Seq(Comp)
         /\ Target[l].abs \in BOOLEAN /\ Target[l].slash \in BOOLEAN
  BY TreeAssumption DEF Path

LEMMA OnwardDescends ==
  ASSUME Typed, NEW w \in Place, ~Stops(w)
  PROVE  /\ Onward(w) \in Place
         /\ <<Onward(w), w>> \in LexOrder(LinksLeft, CompsLeft, Place)
<1>1. /\ w[1] \in Nat /\ w[2] \in Dir /\ w[3] \in Seq(Comp) /\ w[3] # <<>>
      /\ w[4] \in BOOLEAN /\ w[5] \in BOOLEAN
  BY DEF Place, Stops
<1>2. /\ Head(w[3]) \in Comp /\ Tail(w[3]) \in Seq(Comp)
      /\ Len(Tail(w[3])) < Len(w[3])
  BY <1>1
<1>3. ASSUME NEW n \in Nat, NEW d \in Node, NEW cs \in Seq(Comp),
             Onward(w) = <<n, d, cs, w[4], w[5]>>,
             n < w[1] \/ (n = w[1] /\ Len(cs) < Len(w[3]))
      PROVE  /\ Onward(w) \in Place
             /\ <<Onward(w), w>> \in LexOrder(LinksLeft, CompsLeft, Place)
  <2>1. Onward(w) \in Place
    BY <1>1, <1>3 DEF Place
  <2>2. /\ LinksLeft[Onward(w)] = n /\ CompsLeft[Onward(w)] = Len(cs)
        /\ LinksLeft[w] = w[1] /\ CompsLeft[w] = Len(w[3])
    BY <1>3, <2>1 DEF LinksLeft, CompsLeft
  <2> QED
    BY <1>3, <2>1, <2>2 DEF LexOrder
<1>4. CASE Head(w[3]) = "."
  BY <1>1, <1>2, <1>3, <1>4 DEF Onward, Dir
<1>5. CASE Head(w[3]) = ".."
  <2>1. Parent(w[2]) \in Node
    BY <1>1, ParentIsDir DEF Dir
  <2> QED
    BY <1>1, <1>2, <1>3, <1>5, <2>1 DEF Onward
<1>6. CASE Head(w[3]) \notin {".", ".."} /\ Follows(w)
  <2>1. At(w) \in Link /\ w[1] # 0
    BY <1>6, <1>1 DEF Follows, Stops
  <2>2. /\ Target[At(w)].comps \in Seq(Comp)
        /\ (IF Target[At(w)].slash THEN <<".">> ELSE <<>>) \in Seq(Comp)
    <3>1. "." \in Comp
      BY DEF Comp
    <3>2. <<".">> \in Seq(Comp) /\ <<>> \in Seq(Comp)
      BY <3>1
    <3> QED
      BY <2>1, <3>2, LinkTarget
  <2>3. Spliced(w) \in Seq(Comp)
    BY <1>2, <2>2, ConcatProperties DEF Spliced
  <2>4. (IF Target[At(w)].abs THEN Root ELSE w[2]) \in Node
    BY <1>1, TreeAssumption DEF Dir
  <2>5. w[1] - 1 \in Nat /\ w[1] - 1 < w[1]
    BY <1>1, <2>1
  <2> QED
    BY <1>3, <1>6, <2>3, <2>4, <2>5 DEF Onward
<1>7. CASE Head(w[3]) \notin {".", ".."} /\ ~Follows(w)
  <2>1. At(w) \in Node
    <3>1. Head(w[3]) \in Name /\ At(w) # None
      BY <1>1, <1>2, <1>7 DEF Comp, Stops
    <3> QED
      BY <1>1, <3>1 DEF Typed, At
  <2> QED
    BY <1>1, <1>2, <1>3, <1>7, <2>1 DEF Onward
<1> QED
  BY <1>4, <1>5, <1>6, <1>7
\* Walk's defining equation is the one above.
LEMMA WalkChosen == Walk = CHOOSE f : WalkIs(f)
<1> DEFINE body(f, w) ==
      LET n == w[1]  d == w[2]  cs == w[3]  follow == w[4]  beneath == w[5]
          On(m, x, rest) == f[<<m, x, rest, follow, beneath>>]
      IN
      IF cs = <<>> THEN d
      ELSE IF d \notin Dir THEN "ENOTDIR"
      ELSE IF Head(cs) = "." THEN On(n, d, Tail(cs))
      ELSE IF Head(cs) = ".." THEN
        IF beneath /\ d = Base THEN "ENOTCAPABLE" ELSE On(n, Parent(d), Tail(cs))
      ELSE LET e == ent[d][Head(cs)] IN
        IF e = None THEN "ENOENT"
        ELSE IF e \in Link /\ (follow \/ Tail(cs) # <<>>) THEN
          IF n = 0 THEN "ELOOP"
          ELSE IF beneath /\ Target[e].abs THEN "ENOTCAPABLE"
          ELSE On(n - 1, IF Target[e].abs THEN Root ELSE d,
                  Target[e].comps \o (IF Target[e].slash THEN <<".">> ELSE <<>>)
                                  \o Tail(cs))
        ELSE On(n, e, Tail(cs))
<1>1. Walk = CHOOSE f : f = [w \in Place |-> body(f, w)]
  BY Zenon DEF Walk, Place
<1>2. ASSUME NEW f, NEW w
      PROVE  body(f, w) = IF Stops(w) THEN StopsWith(w) ELSE f[Onward(w)]
  <2>1. CASE w[3] = <<>> \/ w[2] \notin Dir
    BY <2>1 DEF Stops, StopsWith
  <2>2. CASE /\ w[3] # <<>> /\ w[2] \in Dir /\ Head(w[3]) \in {".", ".."}
    BY <2>2 DEF Stops, StopsWith, Onward
  <2>3. CASE /\ w[3] # <<>> /\ w[2] \in Dir /\ Head(w[3]) \notin {".", ".."}
    BY <2>3 DEF Stops, StopsWith, Onward, Follows, At, Spliced
  <2> QED
    BY <2>1, <2>2, <2>3
<1> HIDE DEF body
<1>3. \A f : f = [w \in Place |-> body(f, w)] <=> WalkIs(f)
  BY <1>2 DEF WalkIs
<1> QED
  BY <1>1, <1>3, Zenon

LEMMA StopIsResult ==
  ASSUME Typed, NEW w \in Place, Stops(w)
  PROVE  StopsWith(w) \in Node \cup Errno
  BY DEF Place, StopsWith, Errno

\* The recursive definition of Walk means what it says.
LEMMA WalkUnfolds ==
  ASSUME Typed
  PROVE  /\ Walk \in [Place -> Node \cup Errno]
         /\ \A w \in Place :
              Walk[w] = IF Stops(w) THEN StopsWith(w) ELSE Walk[Onward(w)]
<1> DEFINE S == Node \cup Errno
           R == LexOrder(LinksLeft, CompsLeft, Place)
           F == [w \in Place |-> [f \in [Place -> S] |->
                  IF Stops(w) THEN StopsWith(w) ELSE f[Onward(w)]]]
<1>1. Founded(R, Place)
  <2>1. LinksLeft \in [Place -> Nat]
    BY DEF LinksLeft, Place
  <2>2. CompsLeft \in [Place -> Nat]
    <3>1. \A w \in Place : Len(w[3]) \in Nat
      BY DEF Place
    <3> QED
      BY <3>1 DEF CompsLeft
  <2> QED
    BY <2>1, <2>2, LexFounded
<1>2. \A w \in Place : \A f \in [Place -> S] :
        F[w][f] = IF Stops(w) THEN StopsWith(w) ELSE f[Onward(w)]
  OBVIOUS
<1>3. \A w \in Place : /\ Stops(w) => StopsWith(w) \in S
                       /\ ~Stops(w) => Onward(w) \in Place /\ <<Onward(w), w>> \in R
  BY StopIsResult, OnwardDescends
<1>4. F \in [Place -> [[Place -> S] -> S]]
  <2> HIDE DEF S, R
  <2>1. \A w \in Place : \A f \in [Place -> S] :
          (IF Stops(w) THEN StopsWith(w) ELSE f[Onward(w)]) \in S
    BY <1>3
  <2> QED
    BY <2>1
<1>5. Local(F, R, Place, S)
  <2> HIDE DEF F, R, S
  <2> QED
    BY <1>2, <1>3, <1>4 DEF Local
<1>6. \E f \in [Place -> S] : Recursive(f, F, Place)
  <2>1. S # {}
    BY TreeAssumption
  <2> HIDE DEF F, R, S
  <2> QED
    BY <1>1, <1>5, <2>1, FoundedRecursion, Zenon
<1>7. PICK f \in [Place -> S] : \A w \in Place : f[w] = F[w][f]
  BY <1>6 DEF Recursive
<1>8. WalkIs(f)
  <2>1. \A w \in Place : f[w] = IF Stops(w) THEN StopsWith(w) ELSE f[Onward(w)]
    BY <1>2, <1>7
  <2> HIDE DEF S
  <2> QED
    BY <2>1 DEF WalkIs
<1>9. \A g : WalkIs(g) => g \in [Place -> S]
  <2> SUFFICES ASSUME NEW g, WalkIs(g)
               PROVE  g \in [Place -> S]
    OBVIOUS
  <2> DEFINE Q == {w \in Place : g[w] \in S}
  <2>1. \A w \in Place : g[w] = IF Stops(w) THEN StopsWith(w) ELSE g[Onward(w)]
    BY DEF WalkIs
  <2>2. \A w \in Place : (\A v \in Place : <<v, w>> \in R => v \in Q) => w \in Q
    BY <1>3, <2>1
  <2>3. \A w \in Place : w \in Q
    <3> HIDE DEF Q, R
    <3> QED
      BY <1>1, <2>2, FoundedInduction
  <2>4. g = [w \in Place |-> g[w]]
    BY DEF WalkIs
  <2> HIDE DEF S
  <2> QED
    BY <2>3, <2>4
<1>10. WalkIs(Walk)
  BY <1>8, WalkChosen, Zenon
<1> QED
  BY <1>9, <1>10 DEF WalkIs
\* It depends on nothing but the tree.
LEMMA WalkChosenNext == (Walk = CHOOSE f : WalkIs(f))'
  BY WalkChosen, PTL

LEMMA ParentSame ==
  ASSUME ent' = ent
  PROVE  \A d : Parent(d)' = Parent(d)
<1> DEFINE over(t, d) == IF \E p \in Dir, n \in Name : t[p][n] = d
                         THEN CHOOSE p \in Dir : \E n \in Name : t[p][n] = d
                         ELSE d
<1>1. \A d : Parent(d) = over(ent, d) /\ Parent(d)' = over(ent', d)
  BY Zenon DEF Parent
<1> HIDE DEF over
<1> QED
  BY <1>1

LEMMA WalkSame ==
  ASSUME ent' = ent
  PROVE  Walk' = Walk
<1>1. \A w : /\ Stops(w)' <=> Stops(w)
             /\ StopsWith(w)' = StopsWith(w)
             /\ Onward(w)' = Onward(w)
  <2>1. \A w : At(w)' = At(w)
    BY DEF At
  <2>2. \A w : (Follows(w)' <=> Follows(w)) /\ Spliced(w)' = Spliced(w)
    BY <2>1 DEF Follows, Spliced
  <2> QED
    BY <2>1, <2>2, ParentSame DEF Stops, StopsWith, Onward
<1>2. \A f : WalkIs(f)' <=> WalkIs(f)
  BY <1>1 DEF WalkIs
<1> QED
  BY <1>2, WalkChosen, WalkChosenNext, Zenon
----------------------------------------------------------------------------
(* Steps of the kernel's resolution *)

LEMMA WalkEnds ==
  ASSUME Typed, NEW n \in Nat, NEW d \in Node, NEW cs \in Seq(Comp),
         NEW follow \in BOOLEAN, NEW beneath \in BOOLEAN
  PROVE  /\ cs = <<>> => Walk[<<n, d, cs, follow, beneath>>] = d
         /\ cs # <<>> /\ d \notin Dir
              => Walk[<<n, d, cs, follow, beneath>>] = "ENOTDIR"
<1> DEFINE w == <<n, d, cs, follow, beneath>>
<1>1. w \in Place
  BY DEF Place
<1>2. Walk[w] = IF Stops(w) THEN StopsWith(w) ELSE Walk[Onward(w)]
  BY <1>1, WalkUnfolds
<1> QED
  BY <1>2 DEF Stops, StopsWith

LEMMA WalkNothing ==
  ASSUME Typed
  PROVE  \A d \in Node : \A n \in Nat : \A follow, beneath \in BOOLEAN :
           Walk[<<n, d, <<>>, follow, beneath>>] = d
<1> SUFFICES ASSUME NEW d \in Node, NEW n \in Nat,
                    NEW follow \in BOOLEAN, NEW beneath \in BOOLEAN
             PROVE  Walk[<<n, d, <<>>, follow, beneath>>] = d
  OBVIOUS
<1> DEFINE w == <<n, d, <<>>, follow, beneath>>
<1>1. w \in Place
  <2>1. <<>> \in Seq(Comp)
    OBVIOUS
  <2> QED
    BY <2>1 DEF Place
<1>2. Walk[w] = IF Stops(w) THEN StopsWith(w) ELSE Walk[Onward(w)]
  BY <1>1, WalkUnfolds
<1> QED
  BY <1>2 DEF Stops, StopsWith

LEMMA WalkDots ==
  ASSUME Typed, NEW n \in Nat, NEW d \in Dir, NEW cs \in Seq(Comp), cs # <<>>,
         NEW follow \in BOOLEAN, NEW beneath \in BOOLEAN
  PROVE  /\ Head(cs) = "." => Walk[<<n, d, cs, follow, beneath>>]
                                = Walk[<<n, d, Tail(cs), follow, beneath>>]
         /\ Head(cs) = ".." => Walk[<<n, d, cs, follow, beneath>>]
              = IF beneath /\ d = Base THEN "ENOTCAPABLE"
                ELSE Walk[<<n, Parent(d), Tail(cs), follow, beneath>>]
<1> DEFINE w == <<n, d, cs, follow, beneath>>
<1>1. w \in Place
  BY DEF Place, Dir
<1>2. Walk[w] = IF Stops(w) THEN StopsWith(w) ELSE Walk[Onward(w)]
  BY <1>1, WalkUnfolds
<1> QED
  BY <1>2 DEF Stops, StopsWith, Onward

\* What a named component comes to: its entry, with links expanded.
NameWalks(n, d, cs, follow, beneath) ==
  LET e == ent[d][Head(cs)]
      r == Walk[<<n, d, cs, follow, beneath>>]
      followed == e \in Link /\ (follow \/ Tail(cs) # <<>>)
  IN  /\ e = None => r = "ENOENT"
      /\ e # None /\ ~followed => r = Walk[<<n, e, Tail(cs), follow, beneath>>]
      /\ followed /\ n = 0 => r = "ELOOP"
      /\ followed /\ n > 0 /\ beneath /\ Target[e].abs => r = "ENOTCAPABLE"
      /\ followed /\ n > 0 /\ ~Target[e].abs /\ ~Target[e].slash
           => r = Walk[<<n - 1, d, Target[e].comps \o Tail(cs), follow, beneath>>]

LEMMA WalkName ==
  ASSUME Typed, NEW n \in Nat, NEW d \in Dir, NEW cs \in Seq(Comp), cs # <<>>,
         Head(cs) \in Name,
         NEW follow \in BOOLEAN, NEW beneath \in BOOLEAN
  PROVE  NameWalks(n, d, cs, follow, beneath)
<1> DEFINE w == <<n, d, cs, follow, beneath>>
           e == ent[d][Head(cs)]
<1>1. w \in Place
  BY DEF Place, Dir
<1>2. Walk[w] = IF Stops(w) THEN StopsWith(w) ELSE Walk[Onward(w)]
  BY <1>1, WalkUnfolds
<1>3. Head(cs) \notin {".", ".."}
  BY TreeAssumption
<1>4. At(w) = e /\ (Follows(w) <=> e \in Link /\ (follow \/ Tail(cs) # <<>>))
  BY DEF At, Follows
<1>5. e = None => e \notin Link
  BY TreeAssumption DEF Link
<1>6. CASE e = None
  BY <1>2, <1>3, <1>4, <1>5, <1>6 DEF Stops, StopsWith, NameWalks
<1>7. CASE e # None /\ ~Follows(w)
  BY <1>2, <1>3, <1>4, <1>7 DEF Stops, Onward, NameWalks
<1>8. CASE Follows(w) /\ (n = 0 \/ (beneath /\ Target[e].abs))
  <2>1. e \in Link /\ e # None /\ Stops(w)
    BY <1>3, <1>4, <1>5, <1>8 DEF Stops
  <2>2. CASE n = 0
    BY <1>2, <1>3, <1>4, <1>8, <2>1, <2>2 DEF StopsWith, NameWalks
  <2>3. CASE n # 0
    BY <1>2, <1>3, <1>4, <1>8, <2>1, <2>3 DEF StopsWith, NameWalks
  <2> QED
    BY <2>2, <2>3
<1>9. CASE Follows(w) /\ n > 0 /\ ~Target[e].abs
  <2>1. ~Stops(w)
    BY <1>3, <1>4, <1>5, <1>9 DEF Stops
  <2>2. Onward(w) = <<n - 1, d, Spliced(w), follow, beneath>>
    BY <1>3, <1>4, <1>9 DEF Onward
  <2>3. ~Target[e].slash => Spliced(w) = Target[e].comps \o Tail(cs)
    <3>1. Target[e].comps \in Seq(Comp)
      BY <1>4, <1>9, LinkTarget
    <3>2. Target[e].comps \o <<>> = Target[e].comps
      BY <3>1, ConcatEmptySeq
    <3> QED
      BY <1>4, <3>2 DEF Spliced
  <2>4. ~Target[e].slash
          => Walk[w] = Walk[<<n - 1, d, Target[e].comps \o Tail(cs), follow, beneath>>]
    BY <1>2, <2>1, <2>2, <2>3
  <2>5. n # 0 /\ e # None
    BY <1>4, <1>5, <1>9
  <2> QED
    BY <1>4, <1>9, <2>4, <2>5 DEF NameWalks
<1>10. CASE Follows(w) /\ n > 0 /\ Target[e].abs /\ ~beneath
  <2>1. n # 0 /\ e # None
    BY <1>4, <1>5, <1>10
  <2> QED
    BY <1>4, <1>10, <2>1 DEF NameWalks
<1> QED
  BY <1>4, <1>5, <1>6, <1>7, <1>8, <1>9, <1>10
----------------------------------------------------------------------------
(* What is left of the path *)

\* A path the loop can take a component from.
Plain(p) == ~p.abs /\ p.comps # <<>>
AllPlain == \A i \in 1..Len(path_stack) : Plain(path_stack[i])

\* cs are the components of the paths, from the top of the stack down.
Adds(paths, f) == /\ f \in [0..Len(paths) -> Seq(Comp)] /\ f[0] = <<>>
                  /\ \A i \in 1..Len(paths) : f[i] = paths[i].comps \o f[i - 1]
Left(paths, cs) == \E f : Adds(paths, f) /\ cs = f[Len(paths)]

LEMMA ConcatHead ==
  ASSUME NEW S, NEW a \in Seq(S), NEW b \in Seq(S), a # <<>>
  PROVE  /\ a \o b \in Seq(S) /\ a \o b # <<>>
         /\ Head(a \o b) = Head(a) /\ Tail(a \o b) = Tail(a) \o b
<1>1. /\ a \o b \in Seq(S) /\ Len(a \o b) = Len(a) + Len(b)
      /\ \A i \in 1..Len(a \o b) : (a \o b)[i] = IF i <= Len(a) THEN a[i] ELSE b[i - Len(a)]
  BY ConcatProperties
<1>2. Len(a) \in Nat /\ Len(b) \in Nat /\ Len(a) > 0
  OBVIOUS
<1>3. a \o b # <<>> /\ Head(a \o b) = Head(a)
  BY <1>1, <1>2
<1>4. /\ Tail(a) \in Seq(S) /\ Len(Tail(a)) = Len(a) - 1
      /\ \A i \in 1..Len(Tail(a)) : Tail(a)[i] = a[i + 1]
  BY <1>2
<1>5. /\ Tail(a \o b) \in Seq(S) /\ Len(Tail(a \o b)) = Len(a \o b) - 1
      /\ \A i \in 1..Len(Tail(a \o b)) : Tail(a \o b)[i] = (a \o b)[i + 1]
  BY <1>1, <1>3
<1>6. /\ Tail(a) \o b \in Seq(S) /\ Len(Tail(a) \o b) = Len(Tail(a)) + Len(b)
      /\ \A i \in 1..Len(Tail(a) \o b) :
           (Tail(a) \o b)[i] = IF i <= Len(Tail(a)) THEN Tail(a)[i] ELSE b[i - Len(Tail(a))]
  BY <1>4, ConcatProperties
<1>7. Len(Tail(a \o b)) = Len(Tail(a) \o b)
  BY <1>1, <1>2, <1>4, <1>5, <1>6
<1>8. ASSUME NEW i \in 1..Len(Tail(a \o b))
      PROVE  Tail(a \o b)[i] = (Tail(a) \o b)[i]
  <2>1. i \in Nat /\ i + 1 \in 1..Len(a \o b) /\ i \in 1..Len(Tail(a) \o b)
    BY <1>1, <1>2, <1>5, <1>7
  <2>2. Tail(a \o b)[i] = (a \o b)[i + 1]
    BY <1>5
  <2>3. CASE i <= Len(Tail(a))
    BY <1>1, <1>2, <1>4, <1>6, <2>1, <2>2, <2>3
  <2>4. CASE ~(i <= Len(Tail(a)))
    <3>1. (i + 1) - Len(a) = i - Len(Tail(a)) /\ ~(i + 1 <= Len(a))
      BY <1>2, <1>4, <2>1, <2>4
    <3> QED
      BY <1>1, <1>6, <2>1, <2>2, <2>4, <3>1
  <2> QED
    BY <2>3, <2>4
<1> QED
  BY <1>1, <1>3, <1>5, <1>6, <1>7, <1>8, SeqEqual

LEMMA LeftNone ==
  /\ Left(<<>>, <<>>)
  /\ \A cs : Left(<<>>, cs) => cs = <<>>
<1>1. Len(<<>>) = 0
  OBVIOUS
<1>2. \A cs : Left(<<>>, cs) => cs = <<>>
  BY <1>1 DEF Left, Adds
<1>3. Adds(<<>>, [i \in 0..0 |-> <<>>])
  BY <1>1 DEF Adds
<1> QED
  BY <1>1, <1>2, <1>3 DEF Left

LEMMA LeftPush ==
  ASSUME NEW paths \in Seq(Path), NEW cs, Left(paths, cs), NEW p \in Path
  PROVE  Left(Append(paths, p), p.comps \o cs)
<1>1. PICK f : Adds(paths, f) /\ cs = f[Len(paths)]
  BY DEF Left
<1> DEFINE n == Len(paths)
           g == [i \in 0..(n + 1) |-> IF i = n + 1 THEN p.comps \o cs ELSE f[i]]
<1>2. n \in Nat /\ f \in [0..n -> Seq(Comp)] /\ p.comps \in Seq(Comp)
  BY <1>1 DEF Adds, Path
<1>3. cs \in Seq(Comp) /\ p.comps \o cs \in Seq(Comp)
  <2>1. cs \in Seq(Comp)
    BY <1>1, <1>2
  <2> QED
    BY <1>2, <2>1, ConcatProperties
<1>4. /\ Append(paths, p) \in Seq(Path) /\ Len(Append(paths, p)) = n + 1
      /\ \A i \in 1..n : Append(paths, p)[i] = paths[i]
      /\ Append(paths, p)[n + 1] = p
  BY PushAdds
<1>5. g \in [0..(n + 1) -> Seq(Comp)]
  BY <1>2, <1>3
<1>6. \A i \in 0..n : g[i] = f[i]
  BY <1>2
<1>7. g[n + 1] = p.comps \o cs
  BY <1>2
<1> HIDE DEF g
<1>8. ASSUME NEW i \in 1..(n + 1)
      PROVE  g[i] = Append(paths, p)[i].comps \o g[i - 1]
  <2>1. CASE i = n + 1
    <3>1. g[i - 1] = cs
      BY <1>1, <1>2, <1>6, <2>1
    <3> QED
      BY <1>4, <1>7, <2>1, <3>1
  <2>2. CASE i # n + 1
    <3>1. i \in 1..n /\ i \in 0..n /\ i - 1 \in 0..n
      BY <1>2, <2>2
    <3>2. f[i] = paths[i].comps \o f[i - 1]
      BY <1>1, <3>1 DEF Adds
    <3> QED
      BY <1>4, <1>6, <3>1, <3>2
  <2> QED
    BY <2>1, <2>2
<1>9. g[0] = <<>>
  BY <1>1, <1>2, <1>6 DEF Adds
<1>10. Adds(Append(paths, p), g)
  BY <1>4, <1>5, <1>8, <1>9 DEF Adds
<1> QED
  BY <1>4, <1>7, <1>10 DEF Left

LEMMA LeftPop ==
  ASSUME NEW paths \in Seq(Path), paths # <<>>, NEW cs, Left(paths, cs)
  PROVE  \E rest \in Seq(Comp) : Left(Pop(paths), rest) /\ cs = Top(paths).comps \o rest
<1>1. PICK f : Adds(paths, f) /\ cs = f[Len(paths)]
  BY DEF Left
<1> DEFINE n == Len(paths) - 1
           g == [i \in 0..n |-> f[i]]
<1>2. n \in Nat /\ Len(paths) = n + 1 /\ f \in [0..(n + 1) -> Seq(Comp)]
  BY <1>1 DEF Adds
<1>3. /\ Pop(paths) \in Seq(Path) /\ Len(Pop(paths)) = n
      /\ \A i \in 1..n : Pop(paths)[i] = paths[i]
  BY PopKeeps
<1>4. \A i \in 0..n : g[i] = f[i] /\ f[i] \in Seq(Comp)
  BY <1>2
<1>5. g \in [0..n -> Seq(Comp)]
  BY <1>4
<1> HIDE DEF g, n
<1>6. \A i \in 1..n : g[i] = Pop(paths)[i].comps \o g[i - 1]
  <2> TAKE i \in 1..n
  <2>1. i \in 1..(n + 1) /\ i \in 0..n /\ i - 1 \in 0..n
    BY <1>2
  <2>2. f[i] = paths[i].comps \o f[i - 1]
    BY <1>1, <1>2, <2>1 DEF Adds
  <2> QED
    BY <1>3, <1>4, <2>1, <2>2
<1>7. g[0] = <<>>
  BY <1>1, <1>2, <1>4 DEF Adds
<1>8. Left(Pop(paths), g[n])
  BY <1>3, <1>5, <1>6, <1>7 DEF Left, Adds
<1>9. n + 1 \in 1..(n + 1) /\ (n + 1) - 1 = n /\ n \in 0..n
  BY <1>2
<1>10. cs = Top(paths).comps \o g[n]
  BY <1>1, <1>2, <1>4, <1>9 DEF Adds, Top
<1> QED
  BY <1>4, <1>8, <1>9, <1>10
LEMMA TailLeft ==
  ASSUME NEW S, NEW s \in Seq(S), Len(s) > 1
  PROVE  Tail(s) # <<>>
<1>1. s # <<>> /\ Len(s) \in Nat
  BY EmptySeq
<1>2. Tail(s) \in Seq(S) /\ Len(Tail(s)) = Len(s) - 1
  BY <1>1, HeadTailProperties
<1>3. Len(Tail(s)) # 0
  BY <1>1, <1>2
<1>4. \A t \in Seq(S) : t = <<>> => Len(t) = 0
  BY EmptySeq
<1> QED
  BY <1>2, <1>3, <1>4, Zenon

\* While a path is left, a component is.
LEMMA LeftSome ==
  ASSUME NEW paths \in Seq(Path), paths # <<>>, Plain(Top(paths)),
         NEW cs, Left(paths, cs)
  PROVE  /\ cs \in Seq(Comp) /\ cs # <<>>
         /\ Head(cs) = Head(Top(paths).comps)
         /\ \E rest \in Seq(Comp) : /\ Left(Pop(paths), rest)
                                    /\ Tail(cs) = Tail(Top(paths).comps) \o rest
<1>1. PICK rest \in Seq(Comp) : Left(Pop(paths), rest) /\ cs = Top(paths).comps \o rest
  BY LeftPop
<1>2. Top(paths).comps \in Seq(Comp) /\ Top(paths).comps # <<>>
  <2>1. Top(paths) \in Path
    BY PopKeeps
  <2> QED
    BY <2>1 DEF Plain, Path
<1> QED
  BY <1>1, <1>2, ConcatHead, ZenonT(30)

\* Taking a component off the current path takes it off what is left.
LEMMA LeftTail ==
  ASSUME path_stack \in Seq(Path), path_stack # <<>>, AllPlain,
         NEW cs, Left(path_stack, cs)
  PROVE  /\ cs \in Seq(Comp) /\ cs # <<>>
         /\ Head(cs) = Head(cur_path.comps)
         /\ TailPushed \in Seq(Path)
         /\ Left(TailPushed, Tail(cs))
         /\ \A i \in 1..Len(TailPushed) : Plain(TailPushed[i])
<1> DEFINE t == [abs |-> FALSE, comps |-> Tail(cur_path.comps),
                 slash |-> cur_path.slash]
<1>1. /\ cur_path \in Path /\ Plain(cur_path) /\ Len(path_stack) > 0
      /\ Pop(path_stack) \in Seq(Path) /\ Len(Pop(path_stack)) = Len(path_stack) - 1
      /\ \A i \in 1..Len(Pop(path_stack)) : Pop(path_stack)[i] = path_stack[i]
  BY PopKeeps DEF cur_path, AllPlain, Top
<1>2. \A i \in 1..Len(Pop(path_stack)) : Plain(Pop(path_stack)[i])
  BY <1>1 DEF AllPlain
<1>3. /\ cs \in Seq(Comp) /\ cs # <<>> /\ Head(cs) = Head(cur_path.comps)
  BY <1>1, LeftSome DEF cur_path
<1>4. PICK rest \in Seq(Comp) : /\ Left(Pop(path_stack), rest)
                                /\ Tail(cs) = Tail(cur_path.comps) \o rest
  BY <1>1, LeftSome DEF cur_path
<1>5. cur_path.comps \in Seq(Comp) /\ cur_path.comps # <<>>
  BY <1>1 DEF Path, Plain
<1>6. CASE Len(cur_path.comps) > 1
  <2>1. t \in Path /\ t.comps = Tail(cur_path.comps) /\ ~t.abs
    BY <1>1, <1>6, TailIsPath
  <2>2. Tail(cur_path.comps) # <<>>
    BY <1>5, <1>6, TailLeft
  <2>3. TailPushed = Append(Pop(path_stack), t)
    BY <1>6 DEF TailPushed
  <2> HIDE DEF t
  <2>4. Left(TailPushed, Tail(cs))
    BY <1>1, <1>4, <2>1, <2>3, LeftPush
  <2>5. Plain(t)
    BY <2>1, <2>2 DEF Plain
  <2>6. \A i \in 1..Len(TailPushed) : Plain(TailPushed[i])
    BY <1>1, <1>2, <2>1, <2>3, <2>5, PushAdds
  <2> QED
    BY <1>1, <1>3, <2>1, <2>3, <2>4, <2>6, PushAdds
<1>7. CASE ~(Len(cur_path.comps) > 1)
  <2>1. Tail(cur_path.comps) = <<>>
    BY <1>5, <1>7
  <2>2. Tail(cs) = rest
    BY <1>4, <2>1, ConcatEmptySeq
  <2> QED
    BY <1>1, <1>2, <1>3, <1>4, <1>7, <2>2 DEF TailPushed
<1> QED
  BY <1>6, <1>7

----------------------------------------------------------------------------
(* The walk without interference *)

\* The host has no symbolic link that holds an empty path (symlinkat refuses it
\* with ENOENT).
NoEmptyLink == \A l \in Link : Target[l].abs \/ Target[l].comps # <<>>

\* No call makes the kernel follow a last link path_get was not asked to follow.
FollowsAsAsked ==
  \A r \in Requests : /\ r.op # "path_link"
                      /\ r.op = "path_filestat_get" => r.follow

\* The host's directories are a tree, as far as the walk can tell: no directory
\* has two parents, and the one given to the guest is not below itself.
HoldsBelow(below) ==
  \A p \in below \cup {Base}, n \in Name : Ent0[p][n] \in Dir => Ent0[p][n] \in below
OneParent ==
  \A p, q \in Dir, m, n \in Name :
    Ent0[p][m] \in Dir /\ Ent0[p][m] = Ent0[q][n] => p = q
TreeOfDirs ==
  /\ OneParent
  /\ \E below \in SUBSET Dir : HoldsBelow(below) /\ Base \notin below

AsPosix == NoTrailingSlash /\ NoEmptyLink /\ FollowsAsAsked /\ TreeOfDirs

\* Each directory on the stack was opened from the one under it.
Chained ==
  \A i \in 2..Len(dir_stack) :
    /\ \E n \in Name : Ent0[dir_stack[i - 1]][n] = dir_stack[i]
    /\ \A below \in SUBSET Dir : HoldsBelow(below) => dir_stack[i] \in below

\* What the kernel's resolution comes to, and what it comes to from here on.
Resolved ==
  IF req.path.abs THEN "ENOTCAPABLE"
  ELSE IF req.path.comps = <<>> THEN "ENOENT"
  ELSE Walk[<<MAX_SYMLINK_EXPANSIONS, Base, req.path.comps, dirflags, TRUE>>]
Walking(cs) ==
  Walk[<<MAX_SYMLINK_EXPANSIONS - symlink_expansions, Top(dir_stack), cs,
         dirflags, TRUE>>]

Met == ent[Top(dir_stack)][head]

\* The walk's state resolves to what the request did.
AtLoop ==
  \/ path_stack # <<>> /\ ~Plain(cur_path) /\ Resolved \notin Node
  \/ AllPlain /\ \E cs : Left(path_stack, cs) /\ Walking(cs) = Resolved
AtName ==
  /\ head \in Name /\ AllPlain /\ path_stack # <<>>
  /\ \E cs : Left(path_stack, cs) /\ Walking(<<head>> \o cs) = Resolved
AtLast ==
  head \in Name /\ Walking(<<head>>) = Resolved
Along ==
  /\ pc = "loop" => AtLoop
  /\ pc \in {"openat", "expand"} => AtName
  /\ pc = "expand" => Met \notin Dir
  /\ pc = "readlinkat" => AtLast /\ dirflags /\ path_stack = <<>>
  /\ pc = "call" => \/ head = "." /\ Resolved = Top(dir_stack)
                    \/ AtLast /\ (dirflags => Met \notin Link)
  /\ pc = "done" => AgreesWithPosix

Undisturbed == ent = Ent0 /\ Chained /\ Along

PInv == IInv /\ (moves = 0 => Undisturbed)

LEMMA ExpectedResolved ==
  ASSUME NoTrailingSlash, IInv
  PROVE  Expected = IF req.op = "path_open" /\ Resolved \in Link THEN "ELOOP"
                    ELSE Resolved
<1>1. req.path \in Path /\ req.path.slash = FALSE
  BY RequestAssumption DEF NoTrailingSlash, IInv, Request, Path
<1>2. req.path.comps \in Seq(Comp)
  BY <1>1 DEF Path
<1>3. req.path.comps \o <<>> = req.path.comps
  BY <1>2, ConcatEmptySeq
<1> QED
  BY <1>1, <1>3 DEF Expected, Resolved
LEMMA WalkReady ==
  ASSUME IInv
  PROVE  /\ Typed /\ path_stack \in Seq(Path) /\ dirflags \in BOOLEAN
         /\ dir_stack \in Seq(Dir) /\ dir_stack # <<>> /\ dir_stack[1] = Base
         /\ Top(dir_stack) \in Dir /\ Top(dir_stack) \in Node
         /\ MAX_SYMLINK_EXPANSIONS - symlink_expansions \in Nat
         /\ slash = FALSE
<1>1. dir_stack \in Seq(Dir) /\ dir_stack # <<>> /\ dir_stack[1] = Base
  BY DEF IInv, TypeOK, Contained
<1>2. Top(dir_stack) \in Dir
  BY <1>1, PopKeeps
<1>3. MAX_SYMLINK_EXPANSIONS - symlink_expansions \in Nat
  BY RequestAssumption DEF IInv, TypeOK
<1>4. dirflags \in BOOLEAN
  BY Zenon DEF dirflags
<1> QED
  BY <1>1, <1>2, <1>3, <1>4 DEF IInv, TypeOK, Typed, NoSlash, Dir

LEMMA ErrnoIsNoNode == \A e \in Errno : e \notin Node
  BY TreeAssumption

LEMMA SameResolution ==
  ASSUME ent' = ent, req' = req
  PROVE  /\ Walk' = Walk /\ (dirflags' <=> dirflags)
         /\ Resolved' = Resolved /\ Expected' = Expected
<1>1. Walk' = Walk
  BY WalkSame
<1>2. dirflags' = dirflags
  BY DEF dirflags
<1>3. Resolved' = Resolved
  BY <1>1, <1>2 DEF Resolved
<1>4. Expected' = Expected
  BY <1>1, <1>2 DEF Expected
<1> QED
  BY <1>1, <1>2, <1>3, <1>4

\* A failure is right when the resolution fails as well.
LEMMA FailAgrees ==
  ASSUME NoTrailingSlash, IInv, Undisturbed, Resolved \notin Node,
         NEW e, e \notin Node, Fail(e)
  PROVE  Undisturbed'
<1>1. Expected \notin Node
  BY ExpectedResolved, ErrnoIsNoNode DEF Errno
<1>2. Expected' = Expected
  BY SameResolution DEF Fail
<1>3. AgreesWithPosix'
  BY <1>1, <1>2 DEF Fail, AgreesWithPosix
<1>4. Chained'
  BY DEF Fail, Undisturbed, Chained
<1> QED
  BY <1>3, <1>4 DEF Undisturbed, Along, Fail

\* Another turn of the loop, with less of the path left.
LEMMA ContinueAgrees ==
  ASSUME Undisturbed, NEW dirs, NEW paths, NEW cs, Continue(dirs, paths),
         \A i \in 1..Len(paths) : Plain(paths[i]), Left(paths, cs),
         Walk[<<MAX_SYMLINK_EXPANSIONS - symlink_expansions, Top(dirs), cs,
                dirflags, TRUE>>] = Resolved,
         \A i \in 2..Len(dirs) :
           /\ \E n \in Name : Ent0[dirs[i - 1]][n] = dirs[i]
           /\ \A below \in SUBSET Dir : HoldsBelow(below) => dirs[i] \in below
  PROVE  Undisturbed'
<1>1. ent' = ent /\ req' = req /\ symlink_expansions' = symlink_expansions
  BY DEF Continue
<1>2. Walk' = Walk /\ dirflags' = dirflags /\ Resolved' = Resolved
  BY <1>1, SameResolution DEF dirflags
<1>3. dir_stack' = dirs /\ path_stack' = paths /\ pc' = "loop"
  BY DEF Continue
<1>4. Walking(cs)' = Resolved'
  BY <1>1, <1>2, <1>3 DEF Walking
<1>5. AllPlain'
  BY <1>3 DEF AllPlain
<1>6. AtLoop'
  BY <1>3, <1>4, <1>5 DEF AtLoop
<1>7. Chained'
  BY <1>3 DEF Chained
<1> QED
  BY <1>1, <1>3, <1>6, <1>7 DEF Undisturbed, Along

LEMMA NoneLeftAgrees ==
  ASSUME IInv, Undisturbed, NoneLeft
  PROVE  Undisturbed'
<1>1. PICK cs : Left(path_stack, cs) /\ Walking(cs) = Resolved
  BY DEF Undisturbed, Along, AtLoop, NoneLeft
<1>2. cs = <<>>
  BY <1>1, LeftNone DEF NoneLeft
<1>3. Resolved = Top(dir_stack)
  <2>1. <<>> \in Seq(Comp)
    OBVIOUS
  <2> QED
    BY <1>1, <1>2, <2>1, WalkReady, WalkEnds DEF Walking
<1>4. ent' = ent /\ req' = req /\ dir_stack' = dir_stack /\ pc' = "call" /\ head' = "."
  BY DEF NoneLeft, Found
<1>5. Resolved' = Resolved
  BY <1>4, SameResolution
<1>6. Chained'
  BY <1>4 DEF Undisturbed, Chained
<1> QED
  BY <1>3, <1>4, <1>5, <1>6 DEF Undisturbed, Along

\* A path with a component to take is one of plain paths.
LEMMA HeadLeft ==
  ASSUME IInv, Undisturbed, NEW c, HeadIs(c)
  PROVE  \E cs \in Seq(Comp) :
           /\ cs # <<>> /\ Head(cs) = c /\ Walking(cs) = Resolved
           /\ Left(TailPushed, Tail(cs)) /\ TailPushed \in Seq(Path)
           /\ \A i \in 1..Len(TailPushed) : Plain(TailPushed[i])
<1>1. path_stack # <<>> /\ Plain(cur_path) /\ Head(cur_path.comps) = c /\ AtLoop
  BY DEF HeadIs, Plain, Undisturbed, Along
<1>2. PICK cs : AllPlain /\ Left(path_stack, cs) /\ Walking(cs) = Resolved
  BY <1>1 DEF AtLoop
<1>3. path_stack \in Seq(Path)
  BY WalkReady
<1> QED
  BY <1>1, <1>2, <1>3, LeftTail

LEMMA CurDirAgrees ==
  ASSUME IInv, Undisturbed, CurDir
  PROVE  Undisturbed'
<1>1. PICK cs \in Seq(Comp) :
        /\ cs # <<>> /\ Head(cs) = "." /\ Walking(cs) = Resolved
        /\ Left(TailPushed, Tail(cs))
        /\ \A i \in 1..Len(TailPushed) : Plain(TailPushed[i])
  BY HeadLeft DEF CurDir
<1>2. Walk[<<MAX_SYMLINK_EXPANSIONS - symlink_expansions, Top(dir_stack), Tail(cs),
             dirflags, TRUE>>] = Resolved
  BY <1>1, WalkReady, WalkDots DEF Walking
<1> QED
  BY <1>1, <1>2, ContinueAgrees DEF CurDir, Undisturbed, Chained
\* What is under a directory on the stack is its parent, and the stack is empty
\* exactly where the kernel may not go up.
LEMMA ParentIsUnder ==
  ASSUME TreeOfDirs, IInv, Undisturbed
  PROVE  /\ Len(dir_stack) = 1 => Top(dir_stack) = Base
         /\ Len(dir_stack) # 1 => /\ Top(dir_stack) # Base
                                  /\ Pop(dir_stack) # <<>>
                                  /\ Parent(Top(dir_stack)) = Top(Pop(dir_stack))
<1> DEFINE n == Len(dir_stack)
<1>1. /\ dir_stack \in Seq(Dir) /\ dir_stack # <<>> /\ dir_stack[1] = Base
      /\ Top(dir_stack) \in Dir
  BY WalkReady
<1>2. n \in Nat /\ n > 0 /\ Top(dir_stack) = dir_stack[n]
  BY <1>1 DEF Top
<1>3. CASE n = 1
  BY <1>1, <1>2, <1>3
<1>4. CASE n # 1
  <2>1. n \in 2..n /\ n - 1 \in 1..n
    BY <1>2, <1>4
  <2>2. /\ \E m \in Name : Ent0[dir_stack[n - 1]][m] = dir_stack[n]
        /\ \A below \in SUBSET Dir : HoldsBelow(below) => dir_stack[n] \in below
    BY <2>1 DEF Undisturbed, Chained
  <2>3. Top(dir_stack) # Base
    BY <1>2, <2>2 DEF TreeOfDirs
  <2>4. /\ Pop(dir_stack) \in Seq(Dir) /\ Len(Pop(dir_stack)) = n - 1
        /\ \A i \in 1..Len(Pop(dir_stack)) : Pop(dir_stack)[i] = dir_stack[i]
    BY <1>1, PopKeeps
  <2>5. Pop(dir_stack) # <<>> /\ Top(Pop(dir_stack)) = dir_stack[n - 1]
    <3>1. n - 1 \in 1..(n - 1)
      BY <1>2, <1>4
    <3> QED
      BY <2>4, <3>1, EmptySeq DEF Top
  <2>6. dir_stack[n - 1] \in Dir
    BY <1>1, <2>1
  <2>7. Parent(dir_stack[n]) = dir_stack[n - 1]
    <3> DEFINE IsParent(p) == \E m \in Name : ent[p][m] = dir_stack[n]
    <3>1. IsParent(dir_stack[n - 1])
      BY <2>2 DEF Undisturbed
    <3>2. \A p \in Dir : IsParent(p) => p = dir_stack[n - 1]
      BY <1>1, <1>2, <2>2, <2>6 DEF Undisturbed, TreeOfDirs, OneParent
    <3>3. Parent(dir_stack[n]) = CHOOSE p \in Dir : IsParent(p)
      BY <2>6, <3>1, Zenon DEF Parent
    <3> HIDE DEF IsParent
    <3>4. /\ (CHOOSE p \in Dir : IsParent(p)) \in Dir
          /\ IsParent(CHOOSE p \in Dir : IsParent(p))
      BY <2>6, <3>1, Zenon
    <3> QED
      BY <3>2, <3>3, <3>4
  <2> QED
    BY <1>2, <1>4, <2>3, <2>5, <2>7
<1> QED
  BY <1>3, <1>4

LEMMA ParentDirAgrees ==
  ASSUME NoTrailingSlash, TreeOfDirs, IInv, Undisturbed, ParentDir
  PROVE  Undisturbed'
<1>1. PICK cs \in Seq(Comp) :
        /\ cs # <<>> /\ Head(cs) = ".." /\ Walking(cs) = Resolved
        /\ Left(TailPushed, Tail(cs))
        /\ \A i \in 1..Len(TailPushed) : Plain(TailPushed[i])
  BY HeadLeft DEF ParentDir
<1>2. Resolved = IF Top(dir_stack) = Base THEN "ENOTCAPABLE"
                 ELSE Walk[<<MAX_SYMLINK_EXPANSIONS - symlink_expansions,
                             Parent(Top(dir_stack)), Tail(cs), dirflags, TRUE>>]
  <2> DEFINE n == MAX_SYMLINK_EXPANSIONS - symlink_expansions
             d == Top(dir_stack)
  <2>1. Typed /\ n \in Nat /\ d \in Dir /\ dirflags \in BOOLEAN
    BY WalkReady
  <2>2. Resolved = Walk[<<n, d, cs, dirflags, TRUE>>]
    BY <1>1 DEF Walking
  <2>3. Resolved = IF d = Base THEN "ENOTCAPABLE"
                   ELSE Walk[<<n, Parent(d), Tail(cs), dirflags, TRUE>>]
    <3> HIDE DEF n, d
    <3>1. Head(cs) = ".." =>
            Walk[<<n, d, cs, dirflags, TRUE>>]
              = IF TRUE /\ d = Base THEN "ENOTCAPABLE"
                ELSE Walk[<<n, Parent(d), Tail(cs), dirflags, TRUE>>]
      BY <1>1, <2>1, WalkDots
    <3> QED
      BY <1>1, <2>2, <3>1
  <2> QED
    BY <2>3
<1>3. CASE Len(dir_stack) = 1
  <2>1. "ENOTCAPABLE" \notin Node
    BY ErrnoIsNoNode DEF Errno
  <2>2. Resolved = "ENOTCAPABLE"
    BY <1>2, <1>3, ParentIsUnder
  <2> QED
    BY <1>3, <2>1, <2>2, FailAgrees DEF ParentDir
<1>4. CASE Len(dir_stack) # 1
  <2>1. /\ Pop(dir_stack) \in Seq(Dir) /\ Len(Pop(dir_stack)) = Len(dir_stack) - 1
        /\ \A i \in 1..Len(Pop(dir_stack)) : Pop(dir_stack)[i] = dir_stack[i]
        /\ Len(dir_stack) \in Nat
    BY WalkReady, PopKeeps
  <2>2. Walk[<<MAX_SYMLINK_EXPANSIONS - symlink_expansions, Top(Pop(dir_stack)),
               Tail(cs), dirflags, TRUE>>] = Resolved
    BY <1>2, <1>4, ParentIsUnder
  <2>3. ASSUME NEW i \in 2..Len(Pop(dir_stack))
        PROVE  /\ \E n \in Name : Ent0[Pop(dir_stack)[i - 1]][n] = Pop(dir_stack)[i]
               /\ \A below \in SUBSET Dir :
                    HoldsBelow(below) => Pop(dir_stack)[i] \in below
    <3>1. i \in 2..Len(dir_stack) /\ i - 1 \in 1..Len(Pop(dir_stack))
      BY <2>1
    <3>2. Pop(dir_stack)[i] = dir_stack[i] /\ Pop(dir_stack)[i - 1] = dir_stack[i - 1]
      BY <2>1, <3>1
    <3> QED
      BY <3>1, <3>2 DEF Undisturbed, Chained
  <2>4. Continue(Pop(dir_stack), TailPushed)
    BY <1>4 DEF ParentDir
  <2> QED
    BY <1>1, <2>2, <2>3, <2>4, ContinueAgrees
<1> QED
  BY <1>3, <1>4

LEMMA HeadAndTail ==
  ASSUME NEW S, NEW s \in Seq(S), s # <<>>
  PROVE  s = <<Head(s)>> \o Tail(s)
<1>1. /\ Head(s) \in S /\ Tail(s) \in Seq(S) /\ Len(Tail(s)) = Len(s) - 1
      /\ \A i \in 1..Len(Tail(s)) : Tail(s)[i] = s[i + 1]
      /\ Len(s) \in Nat /\ Len(s) > 0
  BY HeadTailProperties, EmptySeq
<1>2. <<Head(s)>> \in Seq(S) /\ Len(<<Head(s)>>) = 1 /\ <<Head(s)>>[1] = Head(s)
  BY <1>1
<1>3. /\ <<Head(s)>> \o Tail(s) \in Seq(S)
      /\ Len(<<Head(s)>> \o Tail(s)) = Len(s)
      /\ \A i \in 1..Len(s) : (<<Head(s)>> \o Tail(s))[i]
                                = IF i <= 1 THEN <<Head(s)>>[i] ELSE Tail(s)[i - 1]
  <2>1. Len(<<Head(s)>>) + Len(Tail(s)) = Len(s)
    BY <1>1, <1>2
  <2> QED
    BY <1>1, <1>2, <2>1, ConcatProperties
<1>4. ASSUME NEW i \in 1..Len(s)
      PROVE  s[i] = (<<Head(s)>> \o Tail(s))[i]
  <2>1. CASE i = 1
    BY <1>2, <1>3, <2>1
  <2>2. CASE i # 1
    <3>1. ~(i <= 1) /\ i - 1 \in 1..Len(Tail(s)) /\ (i - 1) + 1 = i
      BY <1>1, <2>2
    <3> QED
      BY <1>1, <1>3, <3>1
  <2> QED
    BY <2>1, <2>2
<1> QED
  BY <1>3, <1>4, SeqEqual
\* Resolution of a named component and of what is left after it.
LEMMA WalkingName ==
  ASSUME NoTrailingSlash, IInv, head \in Name, NEW cs \in Seq(Comp)
  PROVE  LET n == MAX_SYMLINK_EXPANSIONS - symlink_expansions
             r == Walking(<<head>> \o cs)
             followed == Met \in Link /\ (dirflags \/ cs # <<>>)
         IN  /\ Met \in Node \cup {None}
             /\ Met = None => r = "ENOENT"
             /\ Met # None /\ ~followed
                  => r = Walk[<<n, Met, cs, dirflags, TRUE>>]
             /\ followed /\ n = 0 => r = "ELOOP"
             /\ followed /\ n > 0 /\ Target[Met].abs => r = "ENOTCAPABLE"
             /\ followed /\ n > 0 /\ ~Target[Met].abs
                  => r = Walk[<<n - 1, Top(dir_stack), Target[Met].comps \o cs,
                                dirflags, TRUE>>]
<1> DEFINE n == MAX_SYMLINK_EXPANSIONS - symlink_expansions
           d == Top(dir_stack)
           r == Walking(<<head>> \o cs)
           cc == <<head>> \o cs
<1>1. Typed /\ n \in Nat /\ d \in Dir /\ dirflags \in BOOLEAN
  BY WalkReady
<1>2. cc \in Seq(Comp) /\ cc # <<>> /\ Head(cc) = head /\ Tail(cc) = cs
  <2>1. <<head>> \in Seq(Comp) /\ <<head>> # <<>>
    BY DEF Comp
  <2>2. Head(<<head>>) = head /\ Tail(<<head>>) = <<>>
    OBVIOUS
  <2> QED
    BY <2>1, <2>2, ConcatHead, ConcatEmptySeq
<1>3. r = Walk[<<n, d, cc, dirflags, TRUE>>] /\ Met = ent[d][head]
  BY DEF Walking, Met
<1>4. Met \in Node \cup {None}
  BY <1>1, <1>3 DEF Typed
<1> HIDE DEF n, d, r, cc
<1>5. NameWalks(n, d, cc, dirflags, TRUE)
  BY <1>1, <1>2, WalkName
<1>6. Met \in Link => ~Target[Met].slash
  BY DEF NoTrailingSlash
<1>7. LET followed == Met \in Link /\ (dirflags \/ cs # <<>>)
      IN  /\ Met = None => r = "ENOENT"
          /\ Met # None /\ ~followed => r = Walk[<<n, Met, cs, dirflags, TRUE>>]
          /\ followed /\ n = 0 => r = "ELOOP"
          /\ followed /\ n > 0 /\ Target[Met].abs => r = "ENOTCAPABLE"
          /\ followed /\ n > 0 /\ ~Target[Met].abs
               => r = Walk[<<n - 1, d, Target[Met].comps \o cs, dirflags, TRUE>>]
  BY <1>2, <1>3, <1>5, <1>6 DEF NameWalks
<1> QED
  BY <1>4, <1>7 DEF n, d, r

LEMMA NormalAgrees ==
  ASSUME IInv, Undisturbed, NEW name \in Name, Normal(name)
  PROVE  Undisturbed'
<1>1. PICK cs \in Seq(Comp) :
        /\ cs # <<>> /\ Head(cs) = name /\ Walking(cs) = Resolved
        /\ Left(TailPushed, Tail(cs)) /\ TailPushed \in Seq(Path)
        /\ \A i \in 1..Len(TailPushed) : Plain(TailPushed[i])
  BY HeadLeft DEF Normal
<1>2. cs = <<name>> \o Tail(cs)
  BY <1>1, HeadAndTail
<1>3. /\ ent' = ent /\ req' = req /\ dir_stack' = dir_stack /\ head' = name
      /\ path_stack' = TailPushed /\ symlink_expansions' = symlink_expansions
  BY DEF Normal
<1>4. Walk' = Walk /\ dirflags' = dirflags /\ Resolved' = Resolved
  BY <1>3, SameResolution DEF dirflags
<1>5. Walking(cs)' = Resolved'
  BY <1>1, <1>3, <1>4 DEF Walking
<1>6. Chained'
  BY <1>3 DEF Undisturbed, Chained
<1>7. cur_path.slash = FALSE
  <2>1. path_stack # <<>> /\ path_stack \in Seq(Path)
    BY WalkReady DEF Normal, HeadIs
  <2> QED
    BY <2>1, TailPushedTyped DEF IInv, NoSlash, Path
<1>8. CASE TailPushed # <<>>
  <2>1. pc' = "openat"
    BY <1>8 DEF Normal
  <2>2. AtName'
    <3>1. AllPlain'
      BY <1>1, <1>3 DEF AllPlain
    <3>2. Left(path_stack, Tail(cs))' /\ Walking(<<head>> \o Tail(cs))' = Resolved'
      BY <1>1, <1>2, <1>3, <1>5
    <3> QED
      BY <1>3, <1>8, <3>1, <3>2 DEF AtName
  <2> QED
    BY <1>3, <1>6, <2>1, <2>2 DEF Undisturbed, Along
<1>9. CASE TailPushed = <<>>
  <2>1. Tail(cs) = <<>>
    BY <1>1, <1>9, LeftNone
  <2>2. <<name>> \in Seq(Comp)
    BY DEF Comp
  <2>3. cs = <<name>>
    BY <1>2, <2>1, <2>2, ConcatEmptySeq
  <2>4. AtLast'
    BY <1>3, <1>5, <2>3 DEF AtLast
  <2>5. pc' = IF dirflags THEN "readlinkat" ELSE "call"
    BY <1>7, <1>9 DEF Normal
  <2> QED
    BY <1>3, <1>4, <1>6, <1>9, <2>4, <2>5 DEF Undisturbed, Along
<1> QED
  BY <1>8, <1>9
\* What openat and readlinkat find under the component.
LEMMA ResolveEntry ==
  ASSUME IInv, head \in Name
  PROVE  Resolve(Top(dir_stack), head, slash, FALSE)
           = IF Met = None THEN "ENOENT" ELSE Met
  BY WalkReady, TreeAssumption DEF Resolve, Met

\* What is left after a component that is not the last.
LEMMA MoreLeft ==
  ASSUME IInv, AtName
  PROVE  \E cs \in Seq(Comp) : /\ cs # <<>> /\ Left(path_stack, cs)
                               /\ Walking(<<head>> \o cs) = Resolved
<1>1. PICK cs : Left(path_stack, cs) /\ Walking(<<head>> \o cs) = Resolved
  BY DEF AtName
<1>2. path_stack \in Seq(Path) /\ path_stack # <<>>
  BY WalkReady DEF AtName
<1>3. AllPlain
  BY DEF AtName
<1> QED
  BY <1>1, <1>2, <1>3, LeftTail

LEMMA OpenatAgrees ==
  ASSUME AsPosix, IInv, Undisturbed, openat
  PROVE  Undisturbed'
<1>1. AtName /\ head \in Name /\ AllPlain
  BY DEF Undisturbed, Along, openat, AtName
<1>2. PICK cs \in Seq(Comp) : /\ cs # <<>> /\ Left(path_stack, cs)
                              /\ Walking(<<head>> \o cs) = Resolved
  BY <1>1, MoreLeft
<1> DEFINE r == Resolve(Top(dir_stack), head, slash, FALSE)
<1>3. r = IF Met = None THEN "ENOENT" ELSE Met
  BY <1>1, ResolveEntry
<1>4. /\ Met \in Node \cup {None} /\ None \notin Node
      /\ Met = None => Resolved = "ENOENT"
      /\ Met # None /\ Met \notin Link
           => Resolved = Walk[<<MAX_SYMLINK_EXPANSIONS - symlink_expansions, Met, cs,
                                dirflags, TRUE>>]
  <2>1. None \notin Node
    BY TreeAssumption
  <2> QED
    BY <1>1, <1>2, <2>1, WalkingName DEF AsPosix
<1>5. {"ENOENT", "ENOTDIR", "ELOOP"} \cap Node = {}
  BY ErrnoIsNoNode DEF Errno
<1> HIDE DEF r
<1>6. CASE r \in Dir /\ Continue(Append(dir_stack, r), path_stack)
  <2>1. Met = r /\ Met # None /\ Met \notin Link
    BY <1>3, <1>4, <1>5, <1>6 DEF Dir, Link
  <2>2. /\ Append(dir_stack, r) \in Seq(Dir)
        /\ Len(Append(dir_stack, r)) = Len(dir_stack) + 1 /\ Len(dir_stack) \in Nat
        /\ \A i \in 1..Len(dir_stack) : Append(dir_stack, r)[i] = dir_stack[i]
        /\ Append(dir_stack, r)[Len(dir_stack) + 1] = r
        /\ Len(dir_stack) > 0
    BY <1>6, WalkReady, PushAdds
  <2>3. Top(Append(dir_stack, r)) = r
    BY <2>2 DEF Top
  <2>4. ASSUME NEW i \in 2..Len(Append(dir_stack, r))
        PROVE  /\ \E m \in Name : Ent0[Append(dir_stack, r)[i - 1]][m]
                                    = Append(dir_stack, r)[i]
               /\ \A below \in SUBSET Dir :
                    HoldsBelow(below) => Append(dir_stack, r)[i] \in below
    <3>1. CASE i = Len(dir_stack) + 1
      <4>1. i - 1 = Len(dir_stack) /\ i - 1 \in 1..Len(dir_stack)
        BY <2>2, <3>1
      <4>2. Append(dir_stack, r)[i] = r /\ Append(dir_stack, r)[i - 1] = Top(dir_stack)
        BY <2>2, <3>1, <4>1 DEF Top
      <4>3. Ent0[Top(dir_stack)][head] = r
        BY <2>1 DEF Met, Undisturbed
      <4>4. ASSUME NEW below \in SUBSET Dir, HoldsBelow(below)
            PROVE  r \in below
        <5>1. Top(dir_stack) \in below \cup {Base}
          <6>1. CASE Len(dir_stack) = 1
            BY <6>1, WalkReady DEF Top
          <6>2. CASE Len(dir_stack) # 1
            <7>1. Len(dir_stack) \in Nat /\ Len(dir_stack) > 0
              BY <2>2
            <7>2. \A k \in Nat : k > 0 /\ k # 1 => k \in 2..k
              OBVIOUS
            <7>3. Len(dir_stack) \in 2..Len(dir_stack)
              BY <6>2, <7>1, <7>2
            <7> QED
              BY <4>4, <7>3 DEF Undisturbed, Chained, Top
          <6> QED
            BY <6>1, <6>2
        <5> QED
          BY <1>1, <1>6, <4>3, <4>4, <5>1 DEF HoldsBelow
      <4> QED
        BY <1>1, <4>2, <4>3, <4>4
    <3>2. CASE i # Len(dir_stack) + 1
      <4>1. i \in 2..Len(dir_stack) /\ i \in 1..Len(dir_stack) /\ i - 1 \in 1..Len(dir_stack)
        BY <2>2, <3>2
      <4> QED
        BY <2>2, <4>1 DEF Undisturbed, Chained
    <3> QED
      BY <3>1, <3>2
  <2>5. Walk[<<MAX_SYMLINK_EXPANSIONS - symlink_expansions,
               Top(Append(dir_stack, r)), cs, dirflags, TRUE>>] = Resolved
    BY <1>4, <2>1, <2>3
  <2> QED
    BY <1>1, <1>2, <1>6, <2>4, <2>5, ContinueAgrees DEF AllPlain
<1>7. CASE /\ r \in (Node \ Dir) \cup {"ENOTDIR", "ELOOP"}
           /\ pc' = "expand" /\ UNCHANGED <<ent, moves, req, walk>>
  <2>1. Met \notin Dir
    BY <1>3, <1>4, <1>5, <1>7 DEF Dir
  <2>2. /\ ent' = ent /\ req' = req /\ dir_stack' = dir_stack /\ head' = head
        /\ path_stack' = path_stack /\ symlink_expansions' = symlink_expansions
    BY <1>7 DEF walk
  <2>3. Walk' = Walk /\ dirflags' = dirflags /\ Resolved' = Resolved
    BY <2>2, SameResolution DEF dirflags
  <2>4. AtName'
    <3>1. Walking(<<head>> \o cs)' = Resolved'
      BY <1>2, <2>2, <2>3 DEF Walking
    <3>2. AllPlain'
      BY <1>1, <2>2 DEF AllPlain
    <3> QED
      BY <1>1, <1>2, <2>2, <3>1, <3>2 DEF AtName
  <2>5. Met' = Met
    BY <2>2 DEF Met
  <2>6. Chained'
    BY <2>2 DEF Undisturbed, Chained
  <2> QED
    BY <1>7, <2>1, <2>2, <2>4, <2>5, <2>6 DEF Undisturbed, Along
<1>8. CASE r \notin Node \cup {"ENOTDIR", "ELOOP"} /\ Fail(r)
  <2>1. Resolved \notin Node
    BY <1>3, <1>4, <1>5, <1>8
  <2> QED
    BY <1>8, <2>1, FailAgrees DEF AsPosix
<1> QED
  BY <1>6, <1>7, <1>8 DEF openat, r

\* openat_fails is the one failure POSIX resolution has no say in.
LEMMA OpenatFailsAgrees ==
  ASSUME Undisturbed, openat_fails
  PROVE  Undisturbed'
<1>1. AgreesWithPosix'
  BY DEF openat_fails, Fail, AgreesWithPosix
<1>2. Chained'
  BY DEF openat_fails, Fail, Undisturbed, Chained
<1> QED
  BY <1>1, <1>2 DEF openat_fails, Fail, Undisturbed, Along
\* A link is expanded by both, or by neither.
LEMMA PushLinkAgrees ==
  ASSUME AsPosix, IInv, Undisturbed, head \in Name, AllPlain,
         NEW cs \in Seq(Comp), Left(path_stack, cs),
         Walking(<<head>> \o cs) = Resolved,
         Met \in Link, dirflags \/ cs # <<>>, PushLink(Met)
  PROVE  Undisturbed'
<1> DEFINE n == MAX_SYMLINK_EXPANSIONS - symlink_expansions
           d == Top(dir_stack)
           t == Target[Met]
<1>1. n \in Nat /\ MAX_SYMLINK_EXPANSIONS \in Nat /\ symlink_expansions \in Nat
  BY WalkReady, RequestAssumption DEF IInv, TypeOK
<1>2. /\ n = 0 => Resolved = "ELOOP"
      /\ n > 0 /\ t.abs => Resolved = "ENOTCAPABLE"
      /\ n > 0 /\ ~t.abs
           => Resolved = Walk[<<n - 1, d, t.comps \o cs, dirflags, TRUE>>]
  BY WalkingName DEF AsPosix
<1>3. "ELOOP" \notin Node /\ "ENOTCAPABLE" \notin Node
  BY ErrnoIsNoNode DEF Errno
<1>4. CASE symlink_expansions + 1 > MAX_SYMLINK_EXPANSIONS
  <2>1. n = 0
    BY <1>1, <1>4
  <2> QED
    BY <1>2, <1>3, <1>4, <2>1, FailAgrees DEF AsPosix, PushLink
<1>5. CASE ~(symlink_expansions + 1 > MAX_SYMLINK_EXPANSIONS)
  <2>1. n > 0 /\ MAX_SYMLINK_EXPANSIONS - (symlink_expansions + 1) = n - 1
    BY <1>1, <1>5
  <2>2. t \in Path /\ t.slash = FALSE /\ slash = FALSE
    BY WalkReady, LinkTarget DEF AsPosix, NoTrailingSlash
  <2>3. [t EXCEPT !.slash = @ \/ slash] = t
    BY <2>2 DEF Path
  <2>4. /\ path_stack' = Append(path_stack, t) /\ pc' = "loop"
        /\ symlink_expansions' = symlink_expansions + 1
        /\ ent' = ent /\ req' = req /\ dir_stack' = dir_stack /\ head' = head
    BY <1>5, <2>3 DEF PushLink
  <2>5. Walk' = Walk /\ dirflags' = dirflags /\ Resolved' = Resolved
    BY <2>4, SameResolution DEF dirflags
  <2>a. t' = t
    BY <2>4 DEF Met
  <2> HIDE DEF t, d
  <2>6. /\ Append(path_stack, t) \in Seq(Path)
        /\ Len(Append(path_stack, t)) = Len(path_stack) + 1 /\ Len(path_stack) \in Nat
        /\ \A i \in 1..Len(path_stack) : Append(path_stack, t)[i] = path_stack[i]
        /\ Append(path_stack, t)[Len(path_stack) + 1] = t
    BY <2>2, WalkReady, PushAdds
  <2>7. path_stack' # <<>> /\ cur_path' = t
    BY <2>4, <2>6, EmptySeq DEF cur_path, Top
  <2>8. AtLoop'
    <3>1. CASE t.abs
      <4>1. Resolved' \notin Node
        BY <1>2, <1>3, <2>1, <2>5, <3>1
      <4> QED
        BY <2>7, <3>1, <4>1 DEF AtLoop, Plain
    <3>2. CASE ~t.abs
      <4>1. t.comps # <<>>
        BY <3>2 DEF AsPosix, NoEmptyLink, t
      <4>2. AllPlain'
        <5>1. ASSUME NEW i \in 1..Len(path_stack')
              PROVE  ~path_stack'[i].abs /\ path_stack'[i].comps # <<>>
          <6>1. i \in 1..(Len(path_stack) + 1)
            BY <2>4, <2>6
          <6>2. CASE i = Len(path_stack) + 1
            BY <2>4, <2>6, <3>2, <4>1, <6>2
          <6>3. CASE i # Len(path_stack) + 1
            <7>1. i \in 1..Len(path_stack)
              BY <2>6, <6>1, <6>3
            <7> QED
              BY <2>4, <2>6, <7>1 DEF AllPlain, Plain
          <6> QED
            BY <6>2, <6>3
        <5> QED
          BY <5>1 DEF AllPlain, Plain
      <4>3. Left(path_stack, t.comps \o cs)'
        <5>1. Left(Append(path_stack, t), t.comps \o cs)
          BY <2>2, WalkReady, LeftPush
        <5> QED
          BY <2>4, <2>a, <5>1
      <4>4. Walking(t.comps \o cs)' = Resolved'
        BY <1>2, <2>1, <2>4, <2>5, <2>a, <3>2 DEF Walking, d
      <4> QED
        BY <4>2, <4>3, <4>4 DEF AtLoop
    <3> QED
      BY <3>1, <3>2
  <2>9. Chained'
    BY <2>4 DEF Undisturbed, Chained
  <2> QED
    BY <2>4, <2>8, <2>9 DEF Undisturbed, Along
<1> QED
  BY <1>4, <1>5

\* What readlinkat says of the component.
LEMMA ReadlinkatEntry ==
  ASSUME IInv, head \in Name
  PROVE  readlinkat(Top(dir_stack), head, slash)
           = IF Met = None THEN "ENOENT" ELSE IF Met \in Link THEN Met ELSE "EINVAL"
<1> DEFINE r == Resolve(Top(dir_stack), head, slash, FALSE)
<1>1. r = IF Met = None THEN "ENOENT" ELSE Met
  BY ResolveEntry
<1>2. Met \in Node \cup {None} /\ None \notin Node /\ "ENOENT" \notin Node
  BY WalkReady, TreeAssumption, ErrnoIsNoNode DEF Met, Typed, Errno
<1>3. Met \in Link => Met # None
  BY <1>2 DEF Link
<1> QED
  BY <1>1, <1>2, <1>3 DEF readlinkat

LEMMA ExpandAgrees ==
  ASSUME AsPosix, IInv, Undisturbed, expand
  PROVE  Undisturbed'
<1>1. AtName /\ head \in Name /\ AllPlain /\ Met \notin Dir
  BY DEF Undisturbed, Along, expand, AtName
<1>2. PICK cs \in Seq(Comp) : /\ cs # <<>> /\ Left(path_stack, cs)
                              /\ Walking(<<head>> \o cs) = Resolved
  BY <1>1, MoreLeft
<1> DEFINE r == readlinkat(Top(dir_stack), head, slash)
<1>3. r = IF Met = None THEN "ENOENT" ELSE IF Met \in Link THEN Met ELSE "EINVAL"
  BY <1>1, ReadlinkatEntry
<1> HIDE DEF r
<1>4. /\ Met \in Node \cup {None} /\ None \notin Node
      /\ Met = None => Resolved = "ENOENT"
      /\ Met # None /\ Met \notin Link => Resolved = "ENOTDIR"
  <2>1. None \notin Node
    BY TreeAssumption
  <2>2. /\ Met \in Node \cup {None}
        /\ Met = None => Resolved = "ENOENT"
        /\ Met # None /\ Met \notin Link
             => Resolved = Walk[<<MAX_SYMLINK_EXPANSIONS - symlink_expansions, Met, cs,
                                  dirflags, TRUE>>]
    BY <1>1, <1>2, WalkingName DEF AsPosix
  <2>3. \A e \in Node \ Dir :
          Walk[<<MAX_SYMLINK_EXPANSIONS - symlink_expansions, e, cs, dirflags, TRUE>>]
            = "ENOTDIR"
    BY <1>2, WalkReady, WalkEnds, ZenonT(30)
  <2> QED
    BY <1>1, <2>1, <2>2, <2>3
<1>5. {"ENOENT", "ENOTDIR", "EINVAL"} \cap Node = {}
  BY ErrnoIsNoNode DEF Errno
<1>6. CASE r \in Link /\ PushLink(r)
  <2>1. r = Met
    BY <1>3, <1>5, <1>6 DEF Link
  <2> QED
    BY <1>1, <1>2, <1>6, <2>1, PushLinkAgrees
<1>7. CASE r \notin Link /\ Fail(r)
  <2>1. r \notin Node /\ Resolved \notin Node
    BY <1>3, <1>4, <1>5, <1>7 DEF Link
  <2> QED
    BY <1>7, <2>1, FailAgrees DEF AsPosix
<1> QED
  BY <1>6, <1>7 DEF expand, r

LEMMA ExpandLastAgrees ==
  ASSUME AsPosix, IInv, Undisturbed, expand_last
  PROVE  Undisturbed'
<1>1. AtLast /\ head \in Name /\ dirflags /\ path_stack = <<>> /\ slash = FALSE
  BY WalkReady DEF Undisturbed, Along, expand_last, AtLast
<1> DEFINE r == readlinkat(Top(dir_stack), head, slash)
<1>2. r = IF Met = None THEN "ENOENT" ELSE IF Met \in Link THEN Met ELSE "EINVAL"
  BY <1>1, ReadlinkatEntry
<1>3. {"ENOENT", "EINVAL"} \cap Node = {}
  BY ErrnoIsNoNode DEF Errno
<1>4. None \notin Link
  BY TreeAssumption DEF Link
<1> HIDE DEF r
<1>5. CASE r \in Link /\ PushLink(r)
  <2>1. r = Met
    BY <1>2, <1>3, <1>5 DEF Link
  <2>2. <<>> \in Seq(Comp) /\ Left(path_stack, <<>>) /\ AllPlain
    BY <1>1, LeftNone DEF AllPlain
  <2>3. <<head>> \o <<>> = <<head>>
    <3>1. <<head>> \in Seq(Comp)
      BY <1>1 DEF Comp
    <3> QED
      BY <3>1, ConcatEmptySeq
  <2>4. Walking(<<head>> \o <<>>) = Resolved
    BY <1>1, <2>3 DEF AtLast
  <2> QED
    BY <1>1, <1>5, <2>1, <2>2, <2>4, PushLinkAgrees
<1>6. CASE r \in {"EINVAL", "ENOENT"} /\ Found(head, slash, path_stack)
  <2>1. Met \notin Link
    BY <1>2, <1>3, <1>4, <1>6 DEF Link
  <2>2. /\ ent' = ent /\ req' = req /\ dir_stack' = dir_stack /\ head' = head
        /\ symlink_expansions' = symlink_expansions /\ pc' = "call"
    BY <1>6 DEF Found
  <2>3. Walk' = Walk /\ dirflags' = dirflags /\ Resolved' = Resolved
    BY <2>2, SameResolution DEF dirflags
  <2>4. AtLast' /\ Met' = Met
    BY <1>1, <2>2, <2>3 DEF AtLast, Met, Walking
  <2>5. Chained'
    BY <2>2 DEF Undisturbed, Chained
  <2> QED
    BY <2>1, <2>2, <2>4, <2>5 DEF Undisturbed, Along
<1>7. CASE r \notin Link \cup {"EINVAL", "ENOENT"} /\ Fail(r)
  BY <1>2, <1>7
<1> QED
  BY <1>5, <1>6, <1>7 DEF expand_last, r
\* The handler's system call acts on the entry the walk came to.
LEMMA CallEntry ==
  ASSUME AsPosix, IInv, AtLast, dirflags => Met \notin Link
  PROVE  /\ Resolve(Top(dir_stack), head, FALSE, CallFollows)
              = IF Met = None THEN "ENOENT" ELSE Met
         /\ Resolved = IF Met = None THEN "ENOENT" ELSE Met
<1> DEFINE n == MAX_SYMLINK_EXPANSIONS - symlink_expansions
           d == Top(dir_stack)
<1>1. /\ Typed /\ n \in Nat /\ d \in Dir /\ dirflags \in BOOLEAN
      /\ head \in Name /\ head # "."
  BY WalkReady, TreeAssumption DEF AtLast
<1>2. /\ <<head>> \in Seq(Comp) /\ <<head>> # <<>> /\ <<>> \in Seq(Comp)
      /\ Head(<<head>>) = head /\ Tail(<<head>>) = <<>>
  BY <1>1 DEF Comp
<1>3. Met \in Node \cup {None} /\ Met = ent[d][head]
  BY <1>1 DEF Met, Typed
<1>4. Met # None => \A k \in Nat : \A follow, beneath \in BOOLEAN :
                      Walk[<<k, Met, <<>>, follow, beneath>>] = Met
  <2>1. \A e \in Node : \A k \in Nat : \A follow, beneath \in BOOLEAN :
          Walk[<<k, e, <<>>, follow, beneath>>] = e
    BY <1>1, WalkNothing
  <2> QED
    BY <1>3, <2>1
<1>5. Resolved = Walk[<<n, d, <<head>>, dirflags, TRUE>>]
  BY DEF AtLast, Walking
<1> HIDE DEF n, d
<1>6. Resolved = IF Met = None THEN "ENOENT" ELSE Met
  <2>1. NameWalks(n, d, <<head>>, dirflags, TRUE)
    BY <1>1, <1>2, WalkName
  <2>2. /\ Met = None => Resolved = "ENOENT"
        /\ Met # None => Resolved = Walk[<<n, Met, <<>>, dirflags, TRUE>>]
    BY <1>2, <1>3, <1>5, <2>1 DEF NameWalks
  <2> QED
    BY <1>1, <1>4, <2>2
<1>7. Resolve(d, head, FALSE, CallFollows) = IF Met = None THEN "ENOENT" ELSE Met
  <2>1. CASE ~CallFollows
    BY <1>1, <1>3, <2>1 DEF Resolve
  <2>2. CASE CallFollows
    <3>1. dirflags
      <4>1. /\ req.op # "path_link"
            /\ req.op = "path_filestat_get" => req.follow
        BY DEF AsPosix, FollowsAsAsked, IInv
      <4> QED
        BY <2>2, <4>1 DEF CallFollows, dirflags, PassesFlag,
             path_filestat_get_follows, path_filestat_set_times_follows
    <3>2. KernelLinks \in Nat
      BY DEF KernelLinks
    <3>3. NameWalks(KernelLinks, d, <<head>>, TRUE, FALSE)
      BY <1>1, <1>2, <3>2, WalkName
    <3>4. Met # None => Walk[<<KernelLinks, d, <<head>>, TRUE, FALSE>>]
                          = Walk[<<KernelLinks, Met, <<>>, TRUE, FALSE>>]
      BY <1>2, <1>3, <3>1, <3>3 DEF NameWalks
    <3>5. Met # None => Walk[<<KernelLinks, d, <<head>>, TRUE, FALSE>>] = Met
      BY <1>4, <3>2, <3>4
    <3> QED
      BY <1>1, <1>3, <2>2, <3>5 DEF Resolve
  <2> QED
    BY <2>1, <2>2
<1> QED
  BY <1>6, <1>7 DEF d

LEMMA CallAgrees ==
  ASSUME AsPosix, IInv, Undisturbed, call
  PROVE  Undisturbed'
<1> DEFINE r == Resolve(Top(dir_stack), head, FALSE, CallFollows)
<1>1. slash = FALSE /\ Top(dir_stack) \in Dir
  BY WalkReady
<1>2. {"ENOENT", "ELOOP"} \cap Node = {}
  BY ErrnoIsNoNode DEF Errno
<1>3. r = Resolved
  <2>1. CASE head = "." /\ Resolved = Top(dir_stack)
    BY <2>1 DEF Resolve
  <2>2. CASE AtLast /\ (dirflags => Met \notin Link)
    <3>1. /\ Resolve(Top(dir_stack), head, FALSE, CallFollows)
                = IF Met = None THEN "ENOENT" ELSE Met
          /\ Resolved = IF Met = None THEN "ENOENT" ELSE Met
      BY <2>2, CallEntry, Zenon
    <3> QED
      BY <3>1
  <2> QED
    BY <2>1, <2>2 DEF Undisturbed, Along, call
<1> HIDE DEF r
<1>4. Expected = IF req.op = "path_open" /\ r \in Link THEN "ELOOP" ELSE r
  BY <1>3, ExpectedResolved DEF AsPosix
<1>5. Fail(Expected)
  BY <1>1, <1>4 DEF call, r
<1>6. /\ ret' = Expected /\ ent' = ent /\ req' = req /\ dir_stack' = dir_stack
      /\ pc' = "done"
  BY <1>5 DEF Fail
<1>7. Expected' = Expected
  BY <1>6, SameResolution
<1>8. AgreesWithPosix' /\ Chained'
  BY <1>6, <1>7 DEF AgreesWithPosix, Undisturbed, Chained
<1> QED
  BY <1>6, <1>8 DEF Undisturbed, Along

----------------------------------------------------------------------------

LEMMA InitUndisturbed == AsPosix /\ Init => Undisturbed
<1> SUFFICES ASSUME AsPosix, Init PROVE Undisturbed
  OBVIOUS
<1>1. IInv
  BY InitIInv DEF AsPosix
<1>2. req.path \in Path
  BY <1>1 DEF IInv, TypeOK, Request
<1>3. /\ path_stack = <<req.path>> /\ Len(path_stack) = 1 /\ cur_path = req.path
      /\ dir_stack = <<Base>> /\ Len(dir_stack) = 1 /\ Top(dir_stack) = Base
  BY DEF Init, cur_path, Top
<1>4. AtLoop
  <2>1. CASE ~Plain(req.path)
    <3>1. Resolved \in {"ENOTCAPABLE", "ENOENT"}
      BY <2>1 DEF Plain, Resolved
    <3> QED
      BY <1>3, <2>1, <3>1, ErrnoIsNoNode DEF AtLoop, Errno
  <2>2. CASE Plain(req.path)
    <3>1. AllPlain
      BY <1>3, <2>2 DEF AllPlain
    <3>2. <<>> \in Seq(Path) /\ Append(<<>>, req.path) = path_stack
      BY <1>3
    <3>3. Left(path_stack, req.path.comps \o <<>>)
      BY <1>2, <3>2, LeftNone, LeftPush
    <3>4. req.path.comps \o <<>> = req.path.comps
      BY <1>2, ConcatEmptySeq DEF Path
    <3>5. Walking(req.path.comps) = Resolved
      <4>1. MAX_SYMLINK_EXPANSIONS - symlink_expansions = MAX_SYMLINK_EXPANSIONS
        BY RequestAssumption DEF Init
      <4> QED
        BY <1>3, <2>2, <4>1 DEF Walking, Resolved, Plain
    <3> QED
      BY <3>1, <3>3, <3>4, <3>5 DEF AtLoop
  <2> QED
    BY <2>1, <2>2
<1>5. Chained
  BY <1>3 DEF Chained
<1> QED
  BY <1>4, <1>5 DEF Init, Undisturbed, Along

LEMMA ResolveUndisturbed ==
  ASSUME AsPosix, IInv, Undisturbed, path_get
  PROVE  Undisturbed'
<1> USE DEF AsPosix
<1>1. CASE NoneLeft
  BY <1>1, NoneLeftAgrees
<1>2. ASSUME EmptyPath \/ RootDir
      PROVE  Undisturbed'
  <2>1. AtLoop /\ path_stack # <<>> /\ ~Plain(cur_path)
    BY <1>2 DEF Undisturbed, Along, Plain, EmptyPath, RootDir
  <2>2. Len(path_stack) \in 1..Len(path_stack)
    BY <2>1, WalkReady
  <2>3. Resolved \notin Node
    BY <2>1, <2>2 DEF AtLoop, AllPlain, cur_path, Top
  <2>4. {"ENOENT", "ENOTCAPABLE"} \cap Node = {}
    BY ErrnoIsNoNode DEF Errno
  <2> QED
    BY <1>2, <2>3, <2>4, FailAgrees DEF EmptyPath, RootDir
<1>3. CASE CurDir
  BY <1>3, CurDirAgrees
<1>4. CASE ParentDir
  BY <1>4, ParentDirAgrees
<1>5. ASSUME NEW name \in Name, Normal(name) PROVE Undisturbed'
  BY <1>5, NormalAgrees
<1>6. CASE openat
  BY <1>6, OpenatAgrees
<1>7. CASE openat_fails
  BY <1>7, OpenatFailsAgrees
<1>8. CASE expand
  BY <1>8, ExpandAgrees
<1>9. CASE expand_last
  BY <1>9, ExpandLastAgrees
<1>10. CASE call
  BY <1>10, CallAgrees
<1> QED
  BY <1>1, <1>2, <1>3, <1>4, <1>5, <1>6, <1>7, <1>8, <1>9, <1>10
  DEF path_get, resolve

LEMMA NextPInv == AsPosix /\ PInv /\ [Next]_vars => PInv'
<1> SUFFICES ASSUME AsPosix, PInv, [Next]_vars PROVE PInv'
  OBVIOUS
<1>1. IInv'
  BY NextIInv DEF AsPosix, PInv
<1>2. moves \in Nat
  BY RequestAssumption DEF PInv, IInv, TypeOK
<1>3. CASE path_get
  <2>1. moves' = moves
    BY <1>3 DEF path_get, resolve, call, NoneLeft, EmptyPath, RootDir, CurDir, ParentDir,
         Normal, openat, openat_fails, expand, expand_last, Fail, Found, Continue,
         PushLink, walk
  <2> QED
    BY <1>1, <1>3, <2>1, ResolveUndisturbed DEF PInv
<1>4. ASSUME NEW d1 \in Dir \cap Inside, NEW d2 \in Dir \cap Inside,
             NEW n1 \in Name, NEW n2 \in Name, Rename(d1, n1, d2, n2)
      PROVE  PInv'
  <2>1. moves' # 0
    BY <1>2, <1>4 DEF Rename
  <2> QED
    BY <1>1, <2>1 DEF PInv
<1>5. CASE UNCHANGED vars
  <2>1. Undisturbed => Undisturbed'
    <3>1. ent' = ent /\ req' = req /\ pc' = pc /\ moves' = moves
      BY <1>5 DEF vars
    <3>2. Walk' = Walk /\ dirflags' = dirflags /\ Resolved' = Resolved /\ Expected' = Expected
      BY <3>1, SameResolution DEF dirflags
    <3>3. /\ dir_stack' = dir_stack /\ path_stack' = path_stack /\ head' = head
          /\ symlink_expansions' = symlink_expansions /\ ret' = ret /\ slash' = slash
      BY <1>5 DEF vars
    <3>4. /\ AtLoop => AtLoop'
          /\ AtName => AtName'
          /\ AtLast => AtLast'
          /\ Met' = Met /\ Chained' = Chained
      BY <3>1, <3>2, <3>3 DEF AtLoop, AtName, AtLast, Met, AllPlain, cur_path, Walking, Chained
    <3>5. AgreesWithPosix => AgreesWithPosix'
      BY <3>1, <3>2, <3>3 DEF AgreesWithPosix, needs_final_component
    <3> QED
      BY <3>1, <3>2, <3>3, <3>4, <3>5 DEF Undisturbed, Along
  <2> QED
    BY <1>1, <1>5, <2>1 DEF PInv, vars
<1> QED
  BY <1>3, <1>4, <1>5 DEF Next, Done

\* A call no one interferes with acts on the node POSIX resolution beneath the
\* directory comes to, and fails exactly when that does, for every tree of
\* directories, every link and every path without a trailing slash.
THEOREM ResolvesAsPosix ==
  ASSUME AsPosix
  PROVE  Spec => []AgreesWithPosix
<1>1. Init => PInv
  BY InitIInv, InitUndisturbed DEF PInv, AsPosix
<1>2. PInv /\ [Next]_vars => PInv'
  BY NextPInv
<1>3. PInv => AgreesWithPosix
  BY DEF PInv, Undisturbed, Along, AgreesWithPosix
<1> QED
  BY <1>1, <1>2, <1>3, PTL DEF Spec
----------------------------------------------------------------------------
(* Types, for every call and every path, slashes and all *)

TInv == OpsTypeOK /\ dir_stack # <<>>

\* A host call answers a node, success or an errno, and leaves a typed tree.
Answer == Node \cup Errno \cup {None, "ESUCCESS"}
Answers(o) == o.ent \in [Dir -> [Name -> Node \cup {None}]] /\ o.ret \in Answer

LEMMA ResolveType ==
  ASSUME Typed, NEW d \in Dir, NEW name \in Name \cup {"."},
         NEW with_slash \in BOOLEAN, NEW follow \in BOOLEAN
  PROVE  Resolve(d, name, with_slash, follow) \in Node \cup Errno
<1>1. /\ <<name, ".">> \in Seq(Comp) /\ <<name>> \in Seq(Comp)
      /\ KernelLinks \in Nat /\ d \in Node
  BY DEF Comp, KernelLinks, Dir
<1>2. \A cs \in Seq(Comp) : Walk[<<KernelLinks, d, cs, TRUE, FALSE>>] \in Node \cup Errno
  <2>1. \A cs \in Seq(Comp) : <<KernelLinks, d, cs, TRUE, FALSE>> \in Place
    BY <1>1 DEF Place
  <2>2. Walk \in [Place -> Node \cup Errno]
    BY WalkUnfolds
  <2> QED
    BY <2>1, <2>2
<1>3. name # "." => ent[d][name] \in Node \cup {None}
  BY DEF Typed
<1>4. "ENOENT" \in Errno
  BY DEF Errno
<1> QED
  BY <1>1, <1>2, <1>3, <1>4 DEF Resolve

LEMMA ReadlinkatType ==
  ASSUME Typed, NEW d \in Dir, NEW name \in Name \cup {"."}, NEW with_slash \in BOOLEAN
  PROVE  readlinkat(d, name, with_slash) \in Link \cup Errno
<1>1. Resolve(d, name, with_slash, FALSE) \in Node \cup Errno
  BY ResolveType
<1> QED
  BY <1>1 DEF readlinkat, Errno, Link

LEMMA EntryType ==
  ASSUME Typed, NEW d \in Dir, NEW name \in Name \cup {"."}
  PROVE  Entry(d, name) \in Node \cup {None}
  BY DEF Typed, Entry, Dir

LEMMA PutType ==
  ASSUME Typed, NEW d \in Dir, NEW name \in Name, NEW x \in Node \cup {None}
  PROVE  Put(d, name, x) \in [Dir -> [Name -> Node \cup {None}]]
  BY DEF Typed, Put

LEMMA UnchangedAnswers ==
  ASSUME Typed, NEW x \in Answer
  PROVE  Answers(Unchanged(x))
  BY DEF Typed, Answers, Unchanged, Outcome

LEMMA CreateType ==
  ASSUME Typed, NEW d \in Dir, NEW name \in Name \cup {"."}, NEW x \in Node \cup {None}
  PROVE  Answers(create(d, name, x))
<1>1. {"EEXIST", "ENOENT", "ESUCCESS"} \subseteq Answer
  BY DEF Answer, Errno
<1>2. CASE Entry(d, name) # None
  BY <1>1, <1>2, UnchangedAnswers DEF create
<1>3. CASE Entry(d, name) = None /\ d # Root /\ ~Linked(d)
  BY <1>1, <1>3, UnchangedAnswers DEF create
<1>4. CASE Entry(d, name) = None /\ ~(d # Root /\ ~Linked(d))
  <2>1. name \in Name
    BY <1>4, TreeAssumption DEF Entry, Dir
  <2>2. create(d, name, x) = Outcome(Put(d, name, x), "ESUCCESS")
    BY <1>4, Zenon DEF create
  <2> QED
    BY <1>1, <2>1, <2>2, PutType DEF Answers, Outcome
<1> QED
  BY <1>2, <1>3, <1>4

LEMMA LinkatType ==
  ASSUME Typed, NEW d1 \in Dir, NEW name1 \in Name \cup {"."},
         NEW d2 \in Dir, NEW name2 \in Name \cup {"."}, NEW follow \in BOOLEAN
  PROVE  Answers(linkat(d1, name1, d2, name2, follow))
<1> DEFINE x == Resolve(d1, name1, FALSE, follow)
<1>1. x \in Node \cup Errno
  BY ResolveType
<1>2. {"EEXIST", "EPERM", x} \subseteq Answer
  BY <1>1 DEF Answer, Errno
<1>3. CASE x \notin Node
  <2>1. linkat(d1, name1, d2, name2, follow) = Unchanged(x)
    BY <1>3, Zenon DEF linkat
  <2> QED
    BY <1>2, <2>1, UnchangedAnswers
<1>4. CASE x \in Node \ Dir
  <2>1. linkat(d1, name1, d2, name2, follow) = create(d2, name2, x)
    BY <1>4 DEF linkat
  <2> HIDE DEF x
  <2> QED
    BY <1>4, <2>1, CreateType
<1>5. CASE x \in Dir
  <2>1. linkat(d1, name1, d2, name2, follow)
          = Unchanged(IF Entry(d2, name2) # None THEN "EEXIST" ELSE "EPERM")
    BY <1>5 DEF linkat, Dir
  <2> QED
    BY <1>2, <2>1, UnchangedAnswers
<1> QED
  BY <1>3, <1>4, <1>5

LEMMA RenameatType ==
  ASSUME Typed, NEW d1 \in Dir, NEW name1 \in Name \cup {"."},
         NEW d2 \in Dir, NEW name2 \in Name \cup {"."}
  PROVE  Answers(renameat(d1, name1, d2, name2))
<1> DEFINE x == Entry(d1, name1)
           y == Entry(d2, name2)
           o == renameat(d1, name1, d2, name2)
           t == [Put(d2, name2, x) EXCEPT ![d1][name1] = None]
           E == {"EBUSY", "ENOENT", "ESUCCESS", "EINVAL", "ENOTEMPTY", "EISDIR", "ENOTDIR"}
<1>1. \A e \in E : Answers(Unchanged(e))
  <2>1. E \subseteq Answer
    BY DEF Answer, Errno
  <2> QED
    BY <2>1, UnchangedAnswers
<1>2. \/ \E e \in E : o = Unchanged(e)
      \/ name1 # "." /\ name2 # "." /\ x # None /\ o = Outcome(t, "ESUCCESS")
  BY DEF renameat
<1>3. ASSUME name1 # ".", name2 # ".", x # None, o = Outcome(t, "ESUCCESS")
      PROVE  Answers(o)
  <2>1. x \in Node
    BY <1>3, EntryType
  <2>2. Put(d2, name2, x) \in [Dir -> [Name -> Node \cup {None}]]
    BY <1>3, <2>1, PutType
  <2>3. t \in [Dir -> [Name -> Node \cup {None}]]
    BY <1>3, <2>2
  <2>4. "ESUCCESS" \in Answer
    BY DEF Answer
  <2> HIDE DEF o, t
  <2> QED
    BY <1>3, <2>3, <2>4 DEF Answers, Outcome
<1> QED
  BY <1>1, <1>2, <1>3

LEMMA UnlinkatType ==
  ASSUME Typed, NEW d \in Dir, NEW name \in Name \cup {"."}, NEW removedir \in BOOLEAN
  PROVE  Answers(unlinkat(d, name, removedir))
<1> DEFINE o == unlinkat(d, name, removedir)
           E == {"ENOENT", UnlinkDirErrno, "ENOTDIR", "EINVAL", "ENOTEMPTY"}
<1>1. \A e \in E : Answers(Unchanged(e))
  <2>1. E \subseteq Answer
    BY CallAssumption DEF Answer, Errno
  <2> QED
    BY <2>1, UnchangedAnswers
<1>2. \/ \E e \in E : o = Unchanged(e)
      \/ name # "." /\ o = Outcome(Put(d, name, None), "ESUCCESS")
  BY DEF unlinkat, Entry
<1>3. ASSUME name # ".", o = Outcome(Put(d, name, None), "ESUCCESS")
      PROVE  Answers(o)
  <2>1. Put(d, name, None) \in [Dir -> [Name -> Node \cup {None}]]
    BY <1>3, PutType
  <2>2. "ESUCCESS" \in Answer
    BY DEF Answer
  <2> HIDE DEF o
  <2> QED
    BY <1>3, <2>1, <2>2 DEF Answers, Outcome
<1> QED
  BY <1>1, <1>2, <1>3

LEMMA OpenatType ==
  ASSUME Typed, NEW d \in Dir, NEW name \in Name \cup {"."}, NEW c \in Calls
  PROVE  Answers(openat_nofollow(d, name, c))
<1> DEFINE x == Entry(d, name)
           o == openat_nofollow(d, name, c)
           k == create(d, name, c.node)
           E == {"ENOENT", "EEXIST", "ENOTDIR", "ELOOP", "EISDIR", x}
<1>1. x \in Node \cup {None} /\ c.node \in Node \cup {None}
  BY EntryType, CallAssumption DEF Call
<1>2. \A e \in E : Answers(Unchanged(e))
  <2>1. E \subseteq Answer
    BY <1>1 DEF Answer, Errno
  <2> QED
    BY <2>1, UnchangedAnswers
<1>3. Answers(k)
  BY <1>1, CreateType
<1>4. \/ \E e \in E : o = Unchanged(e)
      \/ o = k
      \/ o = Outcome(k.ent, c.node)
  BY DEF openat_nofollow
<1>5. CASE o = Outcome(k.ent, c.node)
  <2>1. c.node \in Answer
    BY <1>1 DEF Answer
  <2>2. Answers(Outcome(k.ent, c.node))
    <3> HIDE DEF k
    <3> QED
      BY <1>3, <2>1 DEF Answers, Outcome
  <2> QED
    BY <1>5, <2>2
<1> QED
  BY <1>2, <1>3, <1>4, <1>5
\* What a handler's step needs of a state to keep the types.
LEMMA TypedState ==
  ASSUME TInv
  PROVE  /\ Typed /\ dir \in Dir /\ head \in Name \cup {"."} /\ slash \in BOOLEAN
         /\ dir_stack \in Seq(Dir) /\ dir_stack # <<>> /\ path_stack \in Seq(Path)
         /\ first # <<>> => first[1] \in Dir /\ first[2] \in Name \cup {"."}
  BY PopKeeps DEF TInv, OpsTypeOK, TypeOK, Typed, dir

LEMMA TailPushedType ==
  ASSUME TInv, path_stack # <<>>
  PROVE  TailPushed \in Seq(Path)
<1>1. cur_path \in Path /\ Pop(path_stack) \in Seq(Path)
  BY TypedState, PopKeeps DEF cur_path
<1>2. CASE Len(cur_path.comps) > 1
  <2>1. [abs |-> FALSE, comps |-> Tail(cur_path.comps), slash |-> cur_path.slash] \in Path
    BY <1>1, <1>2, TailIsPath
  <2> QED
    BY <1>1, <1>2, <2>1, PushAdds DEF TailPushed
<1> QED
  BY <1>1, <1>2 DEF TailPushed

LEMMA FinishType ==
  ASSUME TInv, NEW o, Answers(o), Finish(o)
  PROVE  TInv'
  BY DEF TInv, OpsTypeOK, TypeOK, Finish, ops, Answers, Answer

LEMMA LookAgainType ==
  ASSUME TInv, NEW o, Answers(o), LookAgain(o)
  PROVE  TInv'
  BY DEF TInv, OpsTypeOK, TypeOK, LookAgain, ops, Answers, Answer

LEMMA FailType ==
  ASSUME TInv, UNCHANGED ops, NEW e \in Errno, Fail(e)
  PROVE  TInv'
  BY DEF TInv, OpsTypeOK, TypeOK, Fail, ops

LEMMA ContinueType ==
  ASSUME TInv, UNCHANGED ops, NEW dirs \in Seq(Dir), dirs # <<>>,
         NEW paths \in Seq(Path), Continue(dirs, paths)
  PROVE  TInv'
  BY DEF TInv, OpsTypeOK, TypeOK, Continue, ops

LEMMA FoundType ==
  ASSUME TInv, UNCHANGED ops, NEW name \in Name \cup {"."}, NEW b \in BOOLEAN,
         NEW paths \in Seq(Path), Found(name, b, paths)
  PROVE  TInv'
  BY DEF TInv, OpsTypeOK, TypeOK, Found, ops

LEMMA PushLinkType ==
  ASSUME TInv, UNCHANGED ops, NEW l \in Link, PushLink(l)
  PROVE  TInv'
<1>1. CASE symlink_expansions + 1 > MAX_SYMLINK_EXPANSIONS
  BY <1>1, FailType DEF PushLink, Errno
<1>2. CASE ~(symlink_expansions + 1 > MAX_SYMLINK_EXPANSIONS)
  <2> DEFINE t == [Target[l] EXCEPT !.slash = @ \/ slash]
  <2>1. Target[l] \in Path
    BY LinkTarget
  <2>2. t \in Path
    BY <2>1 DEF Path
  <2> HIDE DEF t
  <2>3. Append(path_stack, t) \in Seq(Path)
    BY <2>2, TypedState, PushAdds
  <2>4. path_stack' = Append(path_stack, t)
    BY <1>2 DEF PushLink, t
  <2>5. symlink_expansions' \in 0..MAX_SYMLINK_EXPANSIONS
    BY <1>2, RequestAssumption DEF TInv, OpsTypeOK, TypeOK, PushLink
  <2> QED
    BY <1>2, <2>3, <2>4, <2>5 DEF TInv, OpsTypeOK, TypeOK, PushLink, ops
<1> QED
  BY <1>1, <1>2

LEMMA ResolvingType ==
  ASSUME TInv, Resolving
  PROVE  TInv'
<1> USE DEF Resolving
<1>1. /\ dir_stack \in Seq(Dir) /\ dir_stack # <<>> /\ path_stack \in Seq(Path)
      /\ Top(dir_stack) \in Dir /\ head \in Name \cup {"."} /\ slash \in BOOLEAN
      /\ Typed
  BY TypedState DEF dir
<1>2. {"ENOENT", "ENOTCAPABLE", "EHOST"} \subseteq Errno
  BY DEF Errno
<1>3. Resolve(Top(dir_stack), head, slash, FALSE) \in Node \cup Errno
  BY <1>1, ResolveType
<1>4. readlinkat(Top(dir_stack), head, slash) \in Link \cup Errno
  BY <1>1, ReadlinkatType
<1>5. CASE NoneLeft
  <2>1. <<>> \in Seq(Path)
    OBVIOUS
  <2> QED
    BY <1>5, <2>1, FoundType DEF NoneLeft
<1>6. CASE EmptyPath \/ RootDir \/ openat_fails
  BY <1>2, <1>6, FailType DEF EmptyPath, RootDir, openat_fails
<1>7. CASE CurDir
  BY <1>1, <1>7, TailPushedType, ContinueType DEF CurDir, HeadIs
<1>8. CASE ParentDir
  <2>1. CASE Len(dir_stack) = 1
    BY <1>2, <1>8, <2>1, FailType DEF ParentDir
  <2>2. CASE Len(dir_stack) # 1
    <3>1. Pop(dir_stack) \in Seq(Dir) /\ Len(Pop(dir_stack)) # 0
      <4>1. Pop(dir_stack) \in Seq(Dir) /\ Len(Pop(dir_stack)) = Len(dir_stack) - 1
        BY <1>1, PopKeeps
      <4>2. Len(dir_stack) \in Nat
        BY <1>1
      <4> QED
        BY <2>2, <4>1, <4>2
    <3>2. Pop(dir_stack) # <<>>
      BY <3>1, EmptySeq
    <3>3. TailPushed \in Seq(Path)
      BY <1>8, TailPushedType DEF ParentDir, HeadIs
    <3> QED
      BY <1>8, <2>2, <3>1, <3>2, <3>3, ContinueType DEF ParentDir
  <2> QED
    BY <2>1, <2>2
<1>9. ASSUME NEW name \in Name, Normal(name) PROVE TInv'
  <2>1. TailPushed \in Seq(Path) /\ cur_path \in Path
    BY <1>1, <1>9, TailPushedType, PopKeeps DEF Normal, HeadIs, cur_path
  <2>2. cur_path.slash \in BOOLEAN
    BY <2>1 DEF Path
  <2>3. pc' \in {"openat", "readlinkat", "call"}
    BY <1>9 DEF Normal
  <2> QED
    BY <1>9, <2>1, <2>2, <2>3 DEF TInv, OpsTypeOK, TypeOK, Normal, ops
<1>10. CASE openat
  <2> DEFINE r == Resolve(Top(dir_stack), head, slash, FALSE)
  <2>1. CASE r \in Dir /\ Continue(Append(dir_stack, r), path_stack)
    <3> HIDE DEF r
    <3>1. Append(dir_stack, r) \in Seq(Dir) /\ Append(dir_stack, r) # <<>>
      BY <1>1, <2>1, PushAdds
    <3> QED
      BY <1>1, <1>10, <2>1, <3>1, ContinueType
  <2>2. CASE pc' = "expand" /\ UNCHANGED <<ent, moves, req, walk>>
    BY <1>10, <2>2 DEF TInv, OpsTypeOK, TypeOK, walk, ops
  <2>3. CASE r \notin Node \cup {"ENOTDIR", "ELOOP"} /\ Fail(r)
    BY <1>3, <1>10, <2>3, FailType
  <2> QED
    BY <1>10, <2>1, <2>2, <2>3 DEF openat
<1>11. CASE expand
  BY <1>4, <1>11, FailType, PushLinkType DEF expand
<1>12. CASE expand_last
  <2> DEFINE r == readlinkat(Top(dir_stack), head, slash)
  <2>1. CASE r \in Link /\ PushLink(r)
    BY <2>1, PushLinkType
  <2>2. CASE Found(head, slash, path_stack)
    BY <1>1, <2>2, FoundType
  <2>3. CASE r \notin Link \cup {"EINVAL", "ENOENT"} /\ Fail(r)
    BY <1>4, <2>3, FailType
  <2> QED
    BY <1>12, <2>1, <2>2, <2>3 DEF expand_last
<1> QED
  BY <1>5, <1>6, <1>7, <1>8, <1>9, <1>10, <1>11, <1>12 DEF resolve
LEMMA StartType ==
  ASSUME TInv, NEW c \in Calls, NEW p \in Path,
         req' = c.req, cur' = c, pc' = "loop", dir_stack' = <<Base>>,
         path_stack' = <<p>>, symlink_expansions' = 0, head' = ".", slash' = FALSE,
         calls' \in 1..MaxCalls, quiet' \in BOOLEAN,
         first' \in {<<>>} \cup (Dir \X (Name \cup {"."})),
         ret' \in Answer, UNCHANGED <<ent, moves>>
  PROVE  TInv'
<1>1. /\ <<Base>> \in Seq(Dir) /\ <<Base>> # <<>> /\ <<p>> \in Seq(Path)
      /\ 0 \in 0..MAX_SYMLINK_EXPANSIONS
  BY TreeAssumption, RequestAssumption
<1>2. c.req \in Request
  BY CallAssumption, RequestAssumption DEF Call
<1> QED
  BY <1>1, <1>2 DEF TInv, OpsTypeOK, TypeOK, Answer

LEMMA HandlerType ==
  ASSUME TInv, handler
  PROVE  TInv'
<1>1. /\ Typed /\ dir \in Dir /\ head \in Name \cup {"."} /\ cur \in Calls
      /\ TRUE \in BOOLEAN /\ FALSE \in BOOLEAN
      /\ first # <<>> => first[1] \in Dir /\ first[2] \in Name \cup {"."}
  BY TypedState DEF TInv, OpsTypeOK
<1>2. cur.node \in Node \cup {None} /\ cur.new_path \in Path /\ cur.req = req
  BY <1>1, CallAssumption DEF Call, TInv, OpsTypeOK
<1>3. {"EISDIR", "ENOENT", "ELOOP", "ENOTDIR"} \subseteq Answer /\ ret \in Answer
  BY DEF TInv, OpsTypeOK, Answer, Errno
<1>4. CASE Resolving
  BY <1>4, ResolvingType
<1>5. CASE SecondPath
  <2>1. <<Top(dir_stack), head>> \in Dir \X (Name \cup {"."})
    BY <1>1 DEF dir
  <2> QED
    BY <1>1, <1>2, <1>3, <1>5, <2>1, StartType DEF SecondPath, TInv, OpsTypeOK
<1>6. CASE path_create_directory \/ path_symlink
  BY <1>1, <1>2, <1>6, CreateType, FinishType DEF path_create_directory, path_symlink
<1>7. CASE path_link
  <2>1. path_link_follows \in BOOLEAN
    BY DEF path_link_follows
  <2>2. first # <<>>
    BY <1>7 DEF path_link, Ready, TwoPaths
  <2> QED
    BY <1>1, <1>7, <2>1, <2>2, LinkatType, FinishType DEF path_link
<1>8. CASE path_rename
  <2>1. first # <<>>
    BY <1>8 DEF path_rename, Ready, TwoPaths
  <2> QED
    BY <1>1, <1>8, <2>1, RenameatType, FinishType DEF path_rename
<1>9. CASE path_remove_directory
  BY <1>1, <1>9, UnlinkatType, FinishType DEF path_remove_directory
<1>10. CASE path_unlink_file
  BY <1>1, <1>10, UnlinkatType, FinishType, LookAgainType DEF path_unlink_file
<1>11. CASE path_unlink_file_stat
  BY <1>1, <1>3, <1>11, UnchangedAnswers, FinishType DEF path_unlink_file_stat
<1>12. CASE path_open
  BY <1>1, <1>12, OpenatType, FinishType, LookAgainType DEF path_open
<1>13. CASE path_open_stat
  <2>1. (IF Entry(dir, head) \in Link THEN "ELOOP" ELSE "ENOTDIR") \in Answer
    BY <1>3
  <2> QED
    BY <1>1, <1>13, <2>1, UnchangedAnswers, FinishType DEF path_open_stat
<1>14. CASE path_open_slash
  BY <1>1, <1>3, <1>14, UnchangedAnswers, FinishType DEF path_open_slash
<1>15. CASE path_readlink
  <2>1. readlinkat(dir, head, FALSE) \in Answer
    BY <1>1, ReadlinkatType DEF Answer, Link
  <2> QED
    BY <1>1, <1>15, <2>1, UnchangedAnswers, FinishType DEF path_readlink
<1>16. ASSUME NEW op, path_filestat(op) PROVE TInv'
  <2>1. CallFollows \in BOOLEAN
    <3>1. req.follow \in BOOLEAN
      BY DEF TInv, OpsTypeOK, TypeOK, Request
    <3> QED
      BY <3>1 DEF CallFollows, path_link_follows, path_filestat_get_follows,
           path_filestat_set_times_follows
  <2>2. Resolve(dir, head, FALSE, CallFollows) \in Answer
    BY <1>1, <2>1, ResolveType DEF Answer
  <2> QED
    BY <1>1, <1>16, <2>2, UnchangedAnswers, FinishType DEF path_filestat
<1> QED
  BY <1>4, <1>5, <1>6, <1>7, <1>8, <1>9, <1>10, <1>11, <1>12, <1>13, <1>14, <1>15, <1>16
  DEF handler

LEMMA OthersType ==
  ASSUME TInv, others
  PROVE  TInv'
<1>1. Typed
  BY TypedState
<1>2. moves \in Nat /\ moves < MaxMoves => moves + 1 \in 0..MaxMoves
  BY RequestAssumption DEF TInv, OpsTypeOK, TypeOK
<1>3. ASSUME ent' \in [Dir -> [Name -> Node \cup {None}]], moves' = moves + 1,
             moves < MaxMoves, quiet' = FALSE,
             UNCHANGED <<req, pc, walk, cur, first, calls>>
      PROVE  TInv'
  <2>1. moves' \in 0..MaxMoves
    BY <1>2, <1>3 DEF TInv, OpsTypeOK, TypeOK
  <2> QED
    BY <1>3, <2>1 DEF TInv, OpsTypeOK, TypeOK, walk
<1>4. PICK d1 \in Dir, n1 \in Name :
        \/ OthersRemove(d1, n1)
        \/ \E d2 \in Dir, n2 \in Name :
             OthersRename(d1, n1, d2, n2) \/ OthersExchange(d1, n1, d2, n2)
  BY DEF others
<1>5. CASE OthersRemove(d1, n1)
  <2>1. Put(d1, n1, None) \in [Dir -> [Name -> Node \cup {None}]]
    BY <1>1, PutType
  <2> QED
    BY <1>3, <1>5, <2>1 DEF OthersRemove
<1>6. ASSUME NEW d2 \in Dir, NEW n2 \in Name,
             OthersRename(d1, n1, d2, n2) \/ OthersExchange(d1, n1, d2, n2)
      PROVE  TInv'
  <2>1. \A x, y \in Node \cup {None} :
          [ent EXCEPT ![d1][n1] = x, ![d2][n2] = y] \in [Dir -> [Name -> Node \cup {None}]]
    BY <1>1 DEF Typed
  <2>2. ent[d1][n1] \in Node \cup {None} /\ ent[d2][n2] \in Node \cup {None}
    BY <1>1 DEF Typed
  <2>3. ent' \in [Dir -> [Name -> Node \cup {None}]]
    <3> DEFINE t(x, y) == [ent EXCEPT ![d1][n1] = x, ![d2][n2] = y]
    <3>1. \/ ent' = t(None, ent[d1][n1])
          \/ ent' = t(ent[d2][n2], ent[d1][n1])
      BY <1>6 DEF OthersRename, OthersExchange, Rename
    <3>2. \A x, y \in Node \cup {None} : t(x, y) \in [Dir -> [Name -> Node \cup {None}]]
      BY <2>1
    <3>3. None \in Node \cup {None}
      OBVIOUS
    <3> HIDE DEF t
    <3>4. /\ t(None, ent[d1][n1]) \in [Dir -> [Name -> Node \cup {None}]]
          /\ t(ent[d2][n2], ent[d1][n1]) \in [Dir -> [Name -> Node \cup {None}]]
      BY <2>2, <3>2, <3>3, Zenon
    <3> QED
      BY <3>1, <3>4, Zenon
  <2> QED
    BY <1>3, <1>6, <2>3 DEF OthersRename, OthersExchange, Rename
<1> QED
  BY <1>4, <1>5, <1>6

\* Whatever the guest asks and whatever others do, the calls' state has its
\* types: the walk's directories are directories, the counter of expansions
\* stays within its limit, and every call answers a node, success or an errno.
THEOREM OpsTypeCorrect == OpsSpec => []OpsTypeOK
<1>1. OpsInit => TInv
  <2> SUFFICES ASSUME OpsInit PROVE TInv
    OBVIOUS
  <2>1. req \in Request /\ cur \in Calls /\ req = cur.req
    BY RequestAssumption DEF OpsInit, Init
  <2>2. /\ <<Base>> \in Seq(Dir) /\ <<Base>> # <<>> /\ <<req.path>> \in Seq(Path)
        /\ 0 \in 0..MAX_SYMLINK_EXPANSIONS /\ 0 \in 0..MaxMoves /\ 1 \in 1..MaxCalls
    BY <2>1, TreeAssumption, RequestAssumption, CallAssumption DEF Request
  <2>3. ent \in [Dir -> [Name -> Node \cup {None}]]
    BY TreeAssumption DEF OpsInit, Init
  <2> QED
    BY <2>1, <2>2, <2>3 DEF OpsInit, Init, TInv, OpsTypeOK, TypeOK
<1>2. TInv /\ [OpsNext]_opsvars => TInv'
  <2> SUFFICES ASSUME TInv, [OpsNext]_opsvars PROVE TInv'
    OBVIOUS
  <2>1. CASE handler
    BY <2>1, HandlerType
  <2>2. ASSUME NEW c \in Calls, NextCall(c) PROVE TInv'
    <3>1. c.req.path \in Path
      BY CallAssumption, RequestAssumption DEF Call, Request
    <3>2. calls' \in 1..MaxCalls
      BY <2>2, CallAssumption DEF NextCall, TInv, OpsTypeOK
    <3> QED
      BY <2>2, <3>1, <3>2, StartType DEF NextCall, Answer
  <2>3. CASE others
    BY <2>3, OthersType
  <2>4. CASE UNCHANGED opsvars
    BY <2>4 DEF opsvars, ops, vars, TInv, OpsTypeOK, TypeOK
  <2> QED
    BY <2>1, <2>2, <2>3, <2>4 DEF OpsNext, OpsDone
<1> QED
  BY <1>1, <1>2, PTL DEF OpsSpec, TInv
=============================================================================
