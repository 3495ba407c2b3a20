------------------------------- MODULE Readdir -------------------------------
(***************************************************************************)
(* fd_readdir on a Unix host (src/src/sys/unix/hostcalls_impl/fs.rs): the  *)
(* guest lists one directory through one descriptor, in several calls and  *)
(* maybe in several listings at a time, while other processes add and      *)
(* remove entries.                                                         *)
(*                                                                         *)
(* A directory is a row of slots; the cookie d_next of an entry (the       *)
(* host's d_off) is its slot.  Each call makes a DIR of its own on the     *)
(* descriptor with fdopendir, so that the kernel's offset is shared by     *)
(* all calls and the entries read ahead are not.  A call reads the kernel  *)
(* several times; other processes run in between.                          *)
(***************************************************************************)
EXTENDS Integers, FiniteSets, FiniteSetsExt

CONSTANTS
  Name,        \* names of entries
  SizeOf,      \* bytes of an entry in the guest's buffer: record and name
  Slots,       \* slots of the directory
  Cursor,      \* listings the guest makes, each from the start cookie
  BufLens,     \* buffer lengths it passes
  MaxChanges,  \* bound on changes by others
  MaxErrors    \* bound on host errors

ASSUME DirAssumption ==
  /\ SizeOf \in [Name -> Nat \ {0}]
  /\ Slots \in Nat /\ MaxChanges \in Nat /\ MaxErrors \in Nat
  /\ BufLens \subseteq Nat /\ "nobody" \notin Cursor

Pos == 1..Slots
Nobody == "nobody"
DIRCOOKIE_START == 0
Cookie == Pos \cup {DIRCOOKIE_START}

VARIABLES
  dir,       \* the directory: slot -> name, for the slots in use
  off,       \* the offset of the descriptor in the kernel
  call,      \* the fd_readdir under way
  cur,       \* the guest's listings
  changes, errors

vars == <<dir, off, call, cur, changes, errors>>

\* A piece of a directory.
Entries == UNION {[S -> Name] : S \in SUBSET Pos}
NoEntries == [p \in {} |-> p]
Names(entries) == {entries[p] : p \in DOMAIN entries}
FirstOf(entries) ==
  CHOOSE p \in DOMAIN entries : \A q \in DOMAIN entries : p <= q
LastOf(entries) ==
  CHOOSE p \in DOMAIN entries : \A q \in DOMAIN entries : q <= p
Without(entries, p) == [q \in DOMAIN entries \ {p} |-> entries[q]]

\* Of an fd_readdir: its listing, the buffer's length and what is left of it,
\* what its DIR has read ahead, and the entries written, by their d_next.
Call == [by : Cursor, len : BufLens, left : Nat, ahead : Entries, out : Entries]
NoCall ==
  [by |-> Nobody, len |-> 0, left |-> 0, ahead |-> NoEntries, out |-> NoEntries]

\* Of a listing: the cookie it goes on from; whether its first call found the
\* descriptor at offset 0; whether a call of it gave up early; the names that
\* were in their slots all the time; the names listed, and listed again.
Listing == [state : {"new", "going", "done"}, cookie : Cookie,
            fresh : BOOLEAN, cut : BOOLEAN,
            stable : SUBSET Name, listed : SUBSET Name, again : SUBSET Name]

Init ==
  /\ \E S \in SUBSET Pos :
       dir \in {d \in [S -> Name] : \A p, q \in S : d[p] = d[q] => p = q}
  /\ off = 0
  /\ call = NoCall
  /\ cur = [c \in Cursor |->
              [state |-> "new", cookie |-> DIRCOOKIE_START, fresh |-> FALSE,
               cut |-> FALSE, stable |-> {}, listed |-> {}, again |-> {}]]
  /\ changes = 0 /\ errors = 0

----------------------------------------------------------------------------
(* Other processes *)

OthersAdd ==
  /\ changes < MaxChanges /\ changes' = changes + 1
  /\ \E n \in Name \ Names(dir), p \in Pos \ DOMAIN dir :
       dir' = [q \in DOMAIN dir \cup {p} |-> IF q = p THEN n ELSE dir[q]]
  /\ UNCHANGED <<off, call, cur, errors>>

OthersRemove ==
  /\ changes < MaxChanges /\ changes' = changes + 1
  /\ \E p \in DOMAIN dir :
       /\ dir' = Without(dir, p)
       /\ cur' = [c \in Cursor |-> [cur[c] EXCEPT !.stable = @ \ {dir[p]}]]
  /\ UNCHANGED <<off, call, errors>>

----------------------------------------------------------------------------
(* fd_readdir *)

\* What getdents can return at offset o: the next entries in use, at least one
\* if there is one.
Batches(o) ==
  LET rest == {p \in DOMAIN dir : p > o}
  IN  {[p \in S |-> dir[p]] : S \in
         {T \in SUBSET rest : /\ \A p \in T, q \in rest : q < p => q \in T
                              /\ rest # {} => T # {}}}

\* Mutant: the call reads on where the descriptor is.
Seek_never(cookie) == off

\* Where the DIR reads from: seekdir is called unless the cookie is the start.
Seek(cookie) == IF cookie # DIRCOOKIE_START THEN cookie ELSE off

\* The checks have passed: the descriptor has FD_READDIR and is a directory's,
\* the buffer is in the memory.  A call that fails one changes nothing here.
fd_readdir(c, len) ==
  /\ call = NoCall /\ cur[c].state # "done"
  /\ off' = Seek(cur[c].cookie)
  /\ call' = [by |-> c, len |-> len, left |-> len, ahead |-> NoEntries,
              out |-> NoEntries]
  /\ cur' = IF cur[c].state = "going" THEN cur
            ELSE [cur EXCEPT ![c].state = "going", ![c].fresh = (off = 0),
                             ![c].stable = Names(dir)]
  /\ UNCHANGED <<dir, changes, errors>>

\* The call returns with buf_used = len - left: the guest takes the entries and
\* the last one's cookie.  A call that brought nothing ends the listing.
Return(cut) ==
  LET c == call.by
      over == call.out = NoEntries
  IN  /\ call' = NoCall
      /\ cur' = [cur EXCEPT
           ![c].state = IF over THEN "done" ELSE @,
           ![c].cookie = IF over THEN @ ELSE LastOf(call.out),
           ![c].cut = @ \/ (cut /\ over),
           ![c].again = @ \cup (cur[c].listed \cap Names(call.out)),
           ![c].listed = @ \cup Names(call.out)]

\* readdir_r finds nothing read ahead and asks the kernel, which moves the
\* shared offset past what it returns.
getdents ==
  /\ call # NoCall /\ call.left > 0 /\ call.ahead = NoEntries
  /\ \E b \in Batches(off) :
       /\ b # NoEntries
       /\ call' = [call EXCEPT !.ahead = b]
       /\ off' = LastOf(b)
  /\ UNCHANGED <<dir, cur, changes, errors>>

\* There is no more; where the file system leaves the offset is its own affair.
EndOfDir ==
  /\ call # NoCall /\ call.left > 0 /\ call.ahead = NoEntries
  /\ NoEntries \in Batches(off)
  /\ off' \in off..Slots
  /\ Return(FALSE)
  /\ UNCHANGED <<dir, changes, errors>>

\* readdir_r returns an error number, never -1, and no entry: the loop takes it
\* for the end and the call succeeds.
ReadError ==
  /\ call # NoCall /\ call.left > 0 /\ call.ahead = NoEntries
  /\ errors < MaxErrors /\ errors' = errors + 1
  /\ Return(TRUE)
  /\ UNCHANGED <<dir, off, changes>>

\* Mutant: the space needed is that of the record, without the name.
required_space_of_record(n) == 1

required_space(n) == SizeOf[n]

\* Mutant: d_next skips a place.
dirent_from_host_skips(p) == p + 1

\* Mutant: d_next is the entry's own place, not the place after it.
dirent_from_host_own(p) == p - 1

\* The cookie of an entry: d_off is where the next one is read from.
dirent_from_host(p) == p

\* An entry that fits is written to the buffer.
Emit ==
  /\ call # NoCall /\ call.left > 0 /\ call.ahead # NoEntries
  /\ LET p == FirstOf(call.ahead)
         n == call.ahead[p]
         d_next == dirent_from_host(p)
     IN  /\ required_space(n) <= call.left
         /\ call' = [call EXCEPT
                       !.left = @ - required_space(n),
                       !.ahead = Without(@, p),
                       !.out = [q \in DOMAIN @ \cup {d_next} |->
                                  IF q = d_next THEN n ELSE @[q]]]
  /\ UNCHANGED <<dir, off, cur, changes, errors>>

\* One that does not fit ends the call; it is read again by the next call.
TooLarge ==
  /\ call # NoCall /\ call.left > 0 /\ call.ahead # NoEntries
  /\ required_space(call.ahead[FirstOf(call.ahead)]) > call.left
  /\ Return(TRUE)
  /\ UNCHANGED <<dir, off, changes, errors>>

Full ==
  /\ call # NoCall /\ call.left = 0
  /\ Return(TRUE)
  /\ UNCHANGED <<dir, off, changes, errors>>

Loop == getdents \/ EndOfDir \/ ReadError \/ Emit \/ TooLarge \/ Full

AllDone == (\A c \in Cursor : cur[c].state = "done") /\ UNCHANGED vars

Next ==
  \/ OthersAdd \/ OthersRemove
  \/ \E c \in Cursor, len \in BufLens : fd_readdir(c, len)
  \/ Loop \/ AllDone

\* The guest goes on with a listing it has begun, with any of its buffers, and
\* a call that runs comes to its end.
Spec ==
  /\ Init /\ [][Next]_vars
  /\ WF_vars(Loop)
  /\ \A c \in Cursor : WF_vars(\E len \in BufLens : fd_readdir(c, len))

----------------------------------------------------------------------------
(* Properties *)

\* The variables have the types of the code's values; the offset and every
\* cookie are places in the directory, which the guest hands back to seekdir.
TypeOK ==
  /\ dir \in Entries /\ off \in Cookie
  /\ call = NoCall \/ call \in Call
  /\ cur \in [Cursor -> Listing]

\* What is left of the buffer is what the entries written do not take: the loop
\* never writes past the buffer, and buf_used, len - left, counts whole entries.
BufferAccounted ==
  call # NoCall =>
    call.left + MapThenSumSet(LAMBDA p : SizeOf[call.out[p]], DOMAIN call.out)
      = call.len

\* Within a listing no entry that stays in its place comes twice, however the
\* calls of two listings interleave on the one offset of the descriptor and
\* whatever others add and remove: seekdir brings each call to its own place,
\* and an entry that did not fit counts as not read.
ListedOnce == \A c \in Cursor : cur[c].stable \cap cur[c].again = {}

\* A listing that begins with the descriptor at its start brings every entry
\* that is there all the time, unless a call of it found no room for even one
\* entry or could not read: fd_readdir returns success and nothing for these,
\* as it does at the end.
Complete ==
  \A c \in Cursor :
    cur[c].state = "done" /\ cur[c].fresh /\ ~cur[c].cut
      => cur[c].stable \subseteq cur[c].listed

\* A listing comes to an end: each call that brings something moves its cookie
\* on, whatever the buffers are and what others do meanwhile.
ListingEnds ==
  \A c \in Cursor : cur[c].state = "going" ~> cur[c].state = "done"
=============================================================================
