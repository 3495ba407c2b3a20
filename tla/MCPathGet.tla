------------------------------ MODULE MCPathGet ------------------------------
(***************************************************************************)
(* The host's tree, with the guest given base:                             *)
(*                                                                         *)
(*   root:  a = base, b = out          out: f = fo                     *)
(*   base:  a = a, b = b, c = link to a/up/b, x = link to x                *)
(*   a:     f = fa, up = link to ..                                        *)
(*   b:     f = fb, x = link to /b                                         *)
(*                                                                         *)
(* So c and a/up stay inside, base/x is a loop and b/x is absolute.        *)
(***************************************************************************)
EXTENDS PathGet

MCNode == {"root", "base", "a", "b", "fa", "fb", "out", "fo",
           "c", "up", "abs", "loop"}
MCKind ==
  [n \in MCNode |-> CASE n \in {"root", "base", "a", "b", "out"} -> "dir"
                      [] n \in {"fa", "fb", "fo"} -> "file"
                      [] OTHER -> "link"]
P(cs) == [abs |-> FALSE, comps |-> cs, slash |-> FALSE]
MCTarget ==
  [l \in {"c", "up", "abs", "loop"} |->
     CASE l = "c" -> P(<<"a", "up", "b">>) [] l = "up" -> P(<<"..">>)
       [] l = "abs" -> [abs |-> TRUE, comps |-> <<"b">>, slash |-> FALSE]
       [] OTHER -> P(<<"x">>)]
MCInside == MCNode \ {"root", "out", "fo"}
MCName == {"a", "b", "f", "up", "c", "x"}
Entries(m) == [n \in MCName |-> IF n \in DOMAIN m THEN m[n] ELSE "None"]
MCEnt0 ==
  [d \in {"root", "base", "a", "b", "out"} |->
     CASE d = "root" -> Entries([a |-> "base", b |-> "out"])
       [] d = "base" -> Entries([a |-> "a", b |-> "b", c |-> "c", x |-> "loop"])
       [] d = "a" -> Entries([f |-> "fa", up |-> "up"])
       [] d = "b" -> Entries([f |-> "fb", x |-> "abs"])
       [] OTHER -> Entries([f |-> "fo"])]

\* All paths of at most three components; "." only in front.
Comps(n) == UNION {[1..k -> MCName \cup {"..", "."}] : k \in 0..n}
PathsUpTo(n) ==
  {p \in [abs : {FALSE}, comps : Comps(n), slash : {FALSE}] :
     \A i \in 2..Len(p.comps) : p.comps[i] # "."}
     \cup {[abs |-> TRUE, comps |-> <<"b">>, slash |-> FALSE]}

Req(op, path, follow, creat) ==
  [op |-> op, path |-> path, follow |-> follow, creat |-> creat]

Slashed(p) == [p EXCEPT !.slash = TRUE]

\* Every short path for an open, and every handler on the paths of one or two
\* components; those with a trailing slash have no symbolic link to a directory.
ShortPaths ==
  {Req("path_open", p, follow, FALSE) : p \in PathsUpTo(3), follow \in BOOLEAN}
    \cup {Req(op, p, FALSE, FALSE) : p \in PathsUpTo(2),
            op \in Op \ {"path_link", "path_filestat_get"}}
    \cup {Req(op, p, TRUE, FALSE) : p \in PathsUpTo(2),
            op \in {"path_filestat_get", "path_filestat_set_times"}}
    \cup {Req("path_open", Slashed(P(cs)), follow, creat) :
            cs \in {<<"a">>, <<"x">>, <<"..">>, <<"a", "f">>, <<"c", "f">>,
                    <<"a", "..", "b">>},
            follow \in BOOLEAN, creat \in BOOLEAN}

\* A trailing slash after a symbolic link.
SlashPaths == {Req("path_open", Slashed(P(<<"b", "x">>)), FALSE, FALSE)}
=============================================================================
