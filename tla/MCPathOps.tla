------------------------------ MODULE MCPathOps ------------------------------
(***************************************************************************)
(* The host's tree, with the guest given base:                             *)
(*                                                                         *)
(*   root:  a = base, b = out          out: f = fo                         *)
(*   base:  a = a, b = b, c = link to a                                    *)
(*   a:     f = fa, u = link to ..                                         *)
(*                                                                         *)
(* b is empty.  The guest's calls create a directory, a file, and a link   *)
(* to "f", which is a loop if it is named so.                              *)
(***************************************************************************)
EXTENDS PathOps

MCNode == {"root", "base", "a", "b", "fa", "out", "fo", "c", "u",
           "nd", "nf", "nl"}
MCKind ==
  [n \in MCNode |-> CASE n \in {"root", "base", "a", "b", "out", "nd"} -> "dir"
                      [] n \in {"fa", "fo", "nf"} -> "file"
                      [] OTHER -> "link"]
P(cs) == [abs |-> FALSE, comps |-> cs, slash |-> FALSE]
MCTarget == [l \in {"c", "u", "nl"} |-> CASE l = "c" -> P(<<"a">>)
                                          [] l = "u" -> P(<<"..">>)
                                          [] OTHER -> P(<<"f">>)]
MCInside == MCNode \ {"root", "out", "fo"}
MCSpare == {"nd", "nf", "nl"}
MCName == {"a", "b", "c", "f", "u"}
Entries(m) == [n \in MCName |-> IF n \in DOMAIN m THEN m[n] ELSE "None"]
MCEnt0 ==
  [d \in {"root", "base", "a", "b", "out", "nd"} |->
     CASE d = "root" -> Entries([a |-> "base", b |-> "out"])
       [] d = "base" -> Entries([a |-> "a", b |-> "b", c |-> "c"])
       [] d = "a" -> Entries([f |-> "fa", u |-> "u"])
       [] d = "out" -> Entries([f |-> "fo"])
       [] OTHER -> Entries(<<>>)]

One(op, cs, node) ==
  [req |-> [op |-> op, path |-> P(cs), follow |-> FALSE, creat |-> FALSE],
   new_path |-> P(cs), node |-> node, excl |-> FALSE, directory |-> FALSE]
Two(op, cs1, cs2) == [One(op, cs1, "None") EXCEPT !.new_path = P(cs2)]
Open(cs, follow, creat, excl, directory) ==
  [One("path_open", cs, "nf") EXCEPT !.req.follow = follow, !.req.creat = creat,
                                     !.excl = excl, !.directory = directory]
Follow(c) == [c EXCEPT !.req.follow = TRUE]
Slashed(c) == [c EXCEPT !.req.path.slash = TRUE]

MCCalls ==
  {One("path_create_directory", <<"b", "a">>, "nd"),
   One("path_symlink", <<"c", "u", "f">>, "nl"),
   Two("path_link", <<"c", "f">>, <<"b", "f">>),
   Two("path_rename", <<"c", "f">>, <<"b", "..", "f">>),
   Two("path_rename", <<"a">>, <<"c", "u", "b">>),
   Two("path_rename", <<"b">>, <<"a", "b">>),
   Two("path_rename", <<"a">>, <<"c", "b">>),
   One("path_remove_directory", <<"c", "u", "b">>, "None"),
   One("path_unlink_file", <<"c", "f">>, "None"),
   One("path_unlink_file", <<"a", "u", "b">>, "None"),
   Open(<<"f">>, TRUE, TRUE, FALSE, FALSE),
   Open(<<"c", "f">>, FALSE, TRUE, TRUE, FALSE),
   Open(<<"c">>, FALSE, FALSE, FALSE, TRUE),
   Slashed(Open(<<"u">>, FALSE, TRUE, FALSE, FALSE)),
   Open(<<"a", "f">>, TRUE, FALSE, FALSE, TRUE),
   One("path_readlink", <<"c", "u">>, "None"),
   Follow(One("path_filestat_get", <<"c", "f">>, "None")),
   One("path_filestat_set_times", <<"b", "..", "c">>, "None")}
MCRequests == {c.req : c \in MCCalls}
=============================================================================
