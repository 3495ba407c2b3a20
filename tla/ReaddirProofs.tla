---------------------------- MODULE ReaddirProofs ----------------------------
(***************************************************************************)
(* Listings of a directory, for any number of slots, names, listings at a  *)
(* time, buffer lengths, changes by others and read errors.                *)
(***************************************************************************)
EXTENDS Readdir, Induction

\* No name is in two slots.
OneSlotEach == \A p, q \in DOMAIN dir : dir[p] = dir[q] => p = q

\* The slots of the entries that have been there throughout listing c.
Steady(c) == {p \in DOMAIN dir : dir[p] \in cur[c].stable}

\* What listing c has brought so far is what lies up to its cookie.
Progress(c) ==
  /\ cur[c].stable \subseteq Names(dir)
  /\ \A p \in Steady(c) : dir[p] \in cur[c].listed => p <= cur[c].cookie
  /\ cur[c].fresh /\ ~cur[c].cut =>
       \A p \in Steady(c) : p <= cur[c].cookie => dir[p] \in cur[c].listed
  /\ cur[c].state = "new" => /\ cur[c].cookie = DIRCOOKIE_START
                             /\ cur[c].stable = {} /\ cur[c].listed = {}
                             /\ cur[c].again = {}
  /\ cur[c].state = "going" /\ call.by # c => cur[c].cookie # DIRCOOKIE_START

\* A piece of the directory read by listing c agrees with what has stayed.
Agrees(entries, c) ==
  /\ \A p \in DOMAIN entries : entries[p] \in cur[c].stable =>
       p \in DOMAIN dir /\ dir[p] = entries[p]
  /\ \A p \in Steady(c) : p \in DOMAIN entries => entries[p] = dir[p]

\* The call under way has written what lies after its cookie, then holds what
\* it read ahead, up to the offset of the descriptor.
InOrder ==
  call # NoCall =>
    LET c == call.by IN
    /\ cur[c].state = "going" /\ cur[c].cookie <= off
    /\ \A p \in DOMAIN call.out : cur[c].cookie < p /\ p <= off
    /\ \A p \in DOMAIN call.ahead : cur[c].cookie < p /\ p <= off
    /\ \A p \in DOMAIN call.out, q \in DOMAIN call.ahead : p < q
    /\ Agrees(call.out, c) /\ Agrees(call.ahead, c)
    /\ cur[c].fresh => \A p \in Steady(c) :
         cur[c].cookie < p /\ p <= off => p \in DOMAIN call.out \cup DOMAIN call.ahead

\* The inductive invariant.
IInv ==
  /\ TypeOK /\ OneSlotEach /\ ListedOnce /\ Complete
  /\ \A c \in Cursor : Progress(c)
  /\ InOrder

----------------------------------------------------------------------------
(* Pieces of a directory *)

\* They are functions from slots to names.
LEMMA EntriesAre ==
  ASSUME NEW e
  PROVE  e \in Entries <=> e \in [DOMAIN e -> Name] /\ DOMAIN e \subseteq Pos
  BY DEF Entries

LEMMA NoEntriesIs ==
  /\ NoEntries \in Entries /\ DOMAIN NoEntries = {}
  /\ \A e \in Entries : DOMAIN e = {} => e = NoEntries
<1>1. DOMAIN NoEntries = {} /\ NoEntries \in [{} -> Name]
  BY DEF NoEntries
<1>2. ASSUME NEW e \in Entries, DOMAIN e = {}
      PROVE  e = NoEntries
  <2>1. e = [p \in DOMAIN e |-> e[p]]
    BY EntriesAre
  <2> QED
    BY <1>2, <2>1 DEF NoEntries
<1> QED
  BY <1>1, <1>2, EntriesAre

\* A piece that is not empty has a first and a last slot.
LEMMA FirstIs ==
  ASSUME NEW e \in Entries, e # NoEntries
  PROVE  FirstOf(e) \in DOMAIN e /\ \A q \in DOMAIN e : FirstOf(e) <= q
<1>1. DOMAIN e \in SUBSET Nat /\ DOMAIN e # {}
  BY EntriesAre, NoEntriesIs, DirAssumption DEF Pos
<1>2. \E p \in DOMAIN e : \A q \in DOMAIN e : p <= q
  BY <1>1, LeastOfNats
<1> QED
  BY <1>2 DEF FirstOf

LEMMA LastIs ==
  ASSUME NEW e \in Entries, e # NoEntries
  PROVE  LastOf(e) \in DOMAIN e /\ \A q \in DOMAIN e : q <= LastOf(e)
<1>1. DOMAIN e \in SUBSET (0..Slots) /\ DOMAIN e # {}
  BY EntriesAre, NoEntriesIs, DirAssumption DEF Pos
<1>2. \E p \in DOMAIN e : \A q \in DOMAIN e : q <= p
  BY <1>1, GreatestOfNats, DirAssumption
<1> QED
  BY <1>2 DEF LastOf

\* One that is empty agrees with every listing, before and after a step.
LEMMA NoneAgrees == \A c : Agrees(NoEntries, c) /\ Agrees(NoEntries, c)'
  BY NoEntriesIs DEF Agrees

\* A call that has begun is not NoCall, and is a listing's.
LEMMA CallIs ==
  ASSUME TypeOK, call # NoCall
  PROVE  /\ call \in Call /\ call.by \in Cursor
         /\ call.out \in Entries /\ call.ahead \in Entries /\ call.left \in Nat
  BY DEF TypeOK, Call

LEMMA NobodyCalls == NoCall.by \notin Cursor
  BY DirAssumption DEF NoCall, Nobody

----------------------------------------------------------------------------
(* The inductive invariant is kept *)

LEMMA InitIInv == Init => IInv
<1> SUFFICES ASSUME Init PROVE IInv
  OBVIOUS
<1>1. TypeOK
  <2>1. dir \in Entries
    BY DEF Init, Entries
  <2>2. cur \in [Cursor -> Listing]
    BY DEF Init, Listing, Cookie
  <2> QED
    BY <2>1, <2>2 DEF Init, TypeOK, Cookie, DIRCOOKIE_START
<1>2. OneSlotEach
  <2>1. PICK S \in SUBSET Pos :
          dir \in {d \in [S -> Name] : \A p, q \in S : d[p] = d[q] => p = q}
    BY DEF Init
  <2> QED
    BY <2>1 DEF OneSlotEach
<1>3. ListedOnce /\ Complete
  BY DEF Init, ListedOnce, Complete
<1>4. \A c \in Cursor : Progress(c)
  BY DEF Init, Progress, Steady
<1>5. InOrder
  BY DEF Init, InOrder
<1> QED
  BY <1>1, <1>2, <1>3, <1>4, <1>5 DEF IInv

\* An entry that is added is in no listing's stable names.
LEMMA OthersAddInv ==
  ASSUME IInv, OthersAdd
  PROVE  IInv'
<1> USE DEF IInv
<1>1. PICK n \in Name \ Names(dir), p \in Pos \ DOMAIN dir :
        dir' = [q \in DOMAIN dir \cup {p} |-> IF q = p THEN n ELSE dir[q]]
  BY DEF OthersAdd
<1>2. UNCHANGED <<off, call, cur>>
  BY DEF OthersAdd
<1>3. dir \in [DOMAIN dir -> Name] /\ DOMAIN dir \subseteq Pos
  BY EntriesAre DEF TypeOK
<1>4. /\ DOMAIN dir' = DOMAIN dir \cup {p} /\ dir'[p] = n
      /\ \A q \in DOMAIN dir : dir'[q] = dir[q]
      /\ \A q \in DOMAIN dir : dir[q] # n
  BY <1>1 DEF Names
<1>5. TypeOK'
  <2>1. dir' \in Entries
    BY <1>1, <1>3, <1>4, EntriesAre
  <2> QED
    BY <2>1, <1>2 DEF TypeOK
<1>6. OneSlotEach'
  BY <1>4 DEF OneSlotEach
<1>7. \A c \in Cursor : n \notin cur[c].stable /\ Steady(c)' = Steady(c)
  <2>1. ASSUME NEW c \in Cursor
        PROVE  n \notin cur[c].stable
    BY <1>1 DEF Progress
  <2> QED
    BY <2>1, <1>2, <1>4 DEF Steady
<1>8. Names(dir) \subseteq Names(dir)'
  BY <1>4 DEF Names
<1>9. \A c \in Cursor : Progress(c)'
  <2>1. ASSUME NEW c \in Cursor
        PROVE  Progress(c)'
    <3>1. \A q \in Steady(c) : dir'[q] = dir[q]
      BY <1>4 DEF Steady
    <3> QED
      BY <3>1, <1>2, <1>7, <1>8 DEF Progress
  <2> QED
    BY <2>1
<1>10. InOrder'
  <2> SUFFICES ASSUME call # NoCall
               PROVE  InOrder'
    BY <1>2 DEF InOrder
  <2>1. call.by \in Cursor
    BY CallIs
  <2>2. \A q \in Steady(call.by) : dir'[q] = dir[q]
    BY <1>4 DEF Steady
  <2>3. \A e : Agrees(e, call.by) => Agrees(e, call.by)'
    BY <2>1, <2>2, <1>2, <1>4, <1>7 DEF Agrees
  <2> QED
    BY <2>1, <2>3, <1>2, <1>7 DEF InOrder
<1> QED
  BY <1>2, <1>5, <1>6, <1>9, <1>10 DEF ListedOnce, Complete

\* The name of an entry that is removed is stable no more.
LEMMA OthersRemoveInv ==
  ASSUME IInv, OthersRemove
  PROVE  IInv'
<1> USE DEF IInv
<1>1. PICK p \in DOMAIN dir :
        /\ dir' = Without(dir, p)
        /\ cur' = [c \in Cursor |-> [cur[c] EXCEPT !.stable = @ \ {dir[p]}]]
  BY DEF OthersRemove
<1>2. UNCHANGED <<off, call>>
  BY DEF OthersRemove
<1>3. dir \in [DOMAIN dir -> Name] /\ DOMAIN dir \subseteq Pos
  BY EntriesAre DEF TypeOK
<1>4. /\ DOMAIN dir' = DOMAIN dir \ {p}
      /\ \A q \in DOMAIN dir' : dir'[q] = dir[q] /\ dir[q] # dir[p]
  BY <1>1 DEF Without, OneSlotEach
<1>5. \A c \in Cursor :
        /\ cur[c] \in Listing /\ cur'[c] \in Listing
        /\ cur'[c].stable = cur[c].stable \ {dir[p]}
        /\ cur'[c].state = cur[c].state /\ cur'[c].cookie = cur[c].cookie
        /\ cur'[c].fresh = cur[c].fresh /\ cur'[c].cut = cur[c].cut
        /\ cur'[c].listed = cur[c].listed /\ cur'[c].again = cur[c].again
  BY <1>1 DEF TypeOK, Listing
<1>6. TypeOK'
  <2>1. dir' \in Entries
    BY <1>1, <1>3, EntriesAre DEF Without
  <2>2. cur' \in [Cursor -> Listing]
    BY <1>1, <1>5
  <2> QED
    BY <2>1, <2>2, <1>2 DEF TypeOK
<1>7. OneSlotEach'
  BY <1>4 DEF OneSlotEach
<1>8. \A c \in Cursor : Steady(c)' = Steady(c) \ {p}
  BY <1>4, <1>5 DEF Steady
<1>9. \A c \in Cursor : Progress(c)'
  <2>1. ASSUME NEW c \in Cursor
        PROVE  Progress(c)'
    <3>1. \A q \in Steady(c)' : q \in Steady(c) /\ dir'[q] = dir[q]
      BY <1>4, <1>8 DEF Steady
    <3>2. cur'[c].stable \subseteq Names(dir)'
      <4>1. \A m \in cur'[c].stable : \E q \in DOMAIN dir' : dir'[q] = m
        BY <1>4, <1>5 DEF Progress, Names
      <4> QED
        BY <4>1 DEF Names
    <3> QED
      BY <3>1, <3>2, <1>2, <1>5 DEF Progress
  <2> QED
    BY <2>1
<1>10. InOrder'
  <2> SUFFICES ASSUME call # NoCall
               PROVE  InOrder'
    BY <1>2 DEF InOrder
  <2>1. call.by \in Cursor
    BY CallIs
  <2>2. ASSUME NEW e, Agrees(e, call.by)
        PROVE  Agrees(e, call.by)'
    <3>1. /\ cur'[call.by].stable = cur[call.by].stable \ {dir[p]}
          /\ Steady(call.by)' = Steady(call.by) \ {p} /\ call' = call
      BY <2>1, <1>2, <1>5, <1>8
    <3>2. \A q \in Steady(call.by)' : q \in Steady(call.by) /\ dir'[q] = dir[q]
      BY <3>1, <1>4 DEF Steady
    <3>3. \A q \in DOMAIN e : e[q] \in cur'[call.by].stable =>
             q \in DOMAIN dir' /\ dir'[q] = e[q]
      BY <2>2, <3>1, <1>4 DEF Agrees
    <3> QED
      BY <2>2, <3>1, <3>2, <3>3 DEF Agrees
  <2> QED
    BY <2>1, <2>2, <1>2, <1>5, <1>8 DEF InOrder
<1>11. ListedOnce' /\ Complete'
  BY <1>5 DEF ListedOnce, Complete
<1> QED
  BY <1>6, <1>7, <1>9, <1>10, <1>11

\* A call begins at its listing's cookie, or, with the first, wherever the
\* descriptor is.
LEMMA BeginInv ==
  ASSUME IInv, NEW c \in Cursor, NEW len \in BufLens, fd_readdir(c, len)
  PROVE  IInv'
<1> USE DEF IInv
<1>1. /\ call = NoCall /\ cur[c].state \in {"new", "going"}
      /\ off' = Seek(cur[c].cookie) /\ UNCHANGED dir
      /\ call' = [by |-> c, len |-> len, left |-> len, ahead |-> NoEntries,
                  out |-> NoEntries]
  BY DEF fd_readdir, TypeOK, Listing
<1>2. /\ call'.by = c /\ call'.ahead = NoEntries /\ call'.out = NoEntries
      /\ call' # NoCall /\ call' \in Call
  BY <1>1, NobodyCalls, NoEntriesIs, DirAssumption DEF Call
<1>3. /\ cur[c] \in Listing /\ off' \in Cookie /\ off \in Cookie /\ cur[c].cookie <= off'
      /\ cur[c].cookie # DIRCOOKIE_START => off' = cur[c].cookie
  BY <1>1, DirAssumption DEF TypeOK, Listing, Seek, Cookie, Pos, DIRCOOKIE_START
<1>4. \A d \in Cursor :
        /\ cur'[d] \in Listing
        /\ cur'[d].cookie = cur[d].cookie /\ cur'[d].cut = cur[d].cut
        /\ cur'[d].listed = cur[d].listed /\ cur'[d].again = cur[d].again
        /\ d # c => cur'[d] = cur[d]
  <2>1. Names(dir) \in SUBSET Name
    BY EntriesAre DEF TypeOK, Names
  <2> QED
    BY <2>1, <1>1, ZenonT(30) DEF TypeOK, Listing, fd_readdir
<1>5. TypeOK'
  BY <1>1, <1>2, <1>3, <1>4 DEF TypeOK, fd_readdir
<1>6. \A p \in Steady(c)' : p \in Int
  BY <1>1, EntriesAre DEF TypeOK, Steady, Pos
<1>7. CASE cur[c].state = "going"
  <2>1. cur' = cur
    BY <1>7 DEF fd_readdir
  <2>2. cur[c].cookie # DIRCOOKIE_START /\ off' = cur[c].cookie
    BY <1>1, <1>3, <1>7, NobodyCalls DEF Progress
  <2>3. \A d \in Cursor : Progress(d)'
    BY <2>1, <1>1, <1>2, NobodyCalls DEF Progress, Steady
  <2>4. InOrder'
    <3>1. cur[c].cookie \in Int
      BY <1>3, DirAssumption DEF Listing, Cookie, Pos, DIRCOOKIE_START
    <3>2. \A p \in Int : ~ (cur[c].cookie < p /\ p <= off')
      BY <3>1, <2>2
    <3> QED
      BY <3>1, <3>2, <2>1, <2>2, <1>2, <1>7, <1>6, NoneAgrees, NoEntriesIs DEF InOrder
  <2> QED
    BY <2>1, <2>3, <2>4, <1>1, <1>5 DEF OneSlotEach, ListedOnce, Complete
<1>8. CASE cur[c].state = "new"
  <2>1. /\ cur'[c].state = "going" /\ cur'[c].stable = Names(dir)
        /\ cur'[c].fresh => off = 0
    BY <1>8, <1>3 DEF fd_readdir, TypeOK, Listing
  <2>2. /\ cur[c].cookie = DIRCOOKIE_START /\ off' = off
        /\ cur[c].listed = {} /\ cur[c].again = {}
    BY <1>1, <1>8 DEF Progress, Seek
  <2>3. \A d \in Cursor : Progress(d)'
    <3>1. Progress(c)'
      <4>1. \A p \in DOMAIN dir : ~ (p <= DIRCOOKIE_START)
        BY EntriesAre DEF TypeOK, Pos, DIRCOOKIE_START
      <4> QED
        BY <4>1, <2>1, <2>2, <1>1, <1>2, <1>4 DEF Progress, Steady
    <3>2. ASSUME NEW d \in Cursor, d # c
          PROVE  Progress(d)'
      BY <3>2, <1>1, <1>2, <1>4, NobodyCalls DEF Progress, Steady
    <3> QED
      BY <3>1, <3>2
  <2>4. InOrder'
    <3>1. cur'[c].fresh => \A p \in Int : ~ (cur[c].cookie < p /\ p <= off')
      BY <2>1, <2>2, <1>4 DEF DIRCOOKIE_START
    <3> QED
      BY <3>1, <2>1, <1>2, <1>3, <1>4, <1>6, NoneAgrees, NoEntriesIs DEF InOrder
  <2>5. ListedOnce'
    BY <2>2, <1>4 DEF ListedOnce
  <2>6. Complete'
    BY <2>1, <1>4 DEF Complete
  <2> QED
    BY <2>3, <2>4, <2>5, <2>6, <1>1, <1>5 DEF OneSlotEach
<1> QED
  BY <1>1, <1>7, <1>8

\* What is read ahead lies after the offset, up to which nothing is left out.
LEMMA GetdentsInv ==
  ASSUME IInv, getdents
  PROVE  IInv'
<1> USE DEF IInv
<1> DEFINE c == call.by
<1>1. PICK b \in Batches(off) :
        b # NoEntries /\ call' = [call EXCEPT !.ahead = b] /\ off' = LastOf(b)
  BY DEF getdents
<1>2. call # NoCall /\ call.ahead = NoEntries /\ UNCHANGED <<dir, cur>>
  BY DEF getdents
<1>3. /\ c \in Cursor /\ call \in Call /\ off \in Int /\ cur[c].cookie \in Int
      /\ dir \in [DOMAIN dir -> Name] /\ DOMAIN dir \subseteq Pos
  BY <1>2, CallIs, EntriesAre, DirAssumption
  DEF TypeOK, Listing, Cookie, Pos, DIRCOOKIE_START
<1>4. /\ DOMAIN b \subseteq DOMAIN dir /\ \A p \in DOMAIN b : b[p] = dir[p] /\ off < p
      /\ \A p \in DOMAIN b, q \in DOMAIN dir : off < q /\ q < p => q \in DOMAIN b
      /\ b \in Entries
  <2>1. PICK S \in SUBSET {p \in DOMAIN dir : p > off} :
          /\ b = [p \in S |-> dir[p]]
          /\ \A p \in S, q \in {r \in DOMAIN dir : r > off} : q < p => q \in S
    BY <1>1 DEF Batches
  <2>2. DOMAIN dir \subseteq Int
    BY <1>3 DEF Pos
  <2> QED
    BY <1>3, <2>1, <2>2, EntriesAre
<1>5. /\ off' \in DOMAIN b /\ \A p \in DOMAIN b : p <= off'
  BY <1>1, <1>4, LastIs
<1>6. off' \in Cookie /\ off' \in Int /\ off < off'
  BY <1>3, <1>4, <1>5 DEF Cookie, Pos
<1>7. /\ call' \in Call /\ call' # NoCall /\ call'.by = c /\ call'.ahead = b
      /\ call'.out = call.out
  BY <1>1, <1>3, <1>4, NobodyCalls DEF Call
<1>8. TypeOK'
  BY <1>2, <1>6, <1>7 DEF TypeOK
<1>9. \A d \in Cursor : Progress(d)'
  BY <1>2, <1>7 DEF Progress, Steady
<1>10. InOrder'
  <2>1. \A p \in DOMAIN b : p \in Int /\ cur[c].cookie < p
    BY <1>2, <1>3, <1>4 DEF InOrder, Pos
  <2>2. \A p \in DOMAIN call.out : p \in Int /\ cur[c].cookie < p /\ p <= off'
    <3>1. DOMAIN call.out \subseteq Int
      BY <1>2, CallIs, EntriesAre DEF Pos
    <3> QED
      BY <3>1, <1>2, <1>3, <1>6 DEF InOrder
  <2>3. \A p \in DOMAIN call.out, q \in DOMAIN b : p < q
    BY <2>1, <2>2, <1>2, <1>3, <1>4 DEF InOrder
  <2>4. Agrees(call.out, c)' /\ Agrees(b, c)'
    BY <1>2, <1>4, <1>7 DEF InOrder, Agrees, Steady
  <2>5. ASSUME cur[c].fresh, NEW p \in Steady(c), cur[c].cookie < p, p <= off'
        PROVE  p \in DOMAIN call.out \cup DOMAIN b
    <3>1. p \in DOMAIN dir /\ p \in Int
      BY <1>3 DEF Steady, Pos
    <3>2. CASE p <= off
      BY <3>2, <2>5, <1>2, NoEntriesIs DEF InOrder
    <3>3. CASE off < p
      BY <3>1, <3>3, <2>5, <1>4, <1>5, <1>6
    <3> QED
      BY <3>1, <3>2, <3>3, <1>3
  <2>6. Steady(c)' = Steady(c)
    BY <1>2, <1>7 DEF Steady
  <2>7. cur[c].state = "going" /\ cur[c].cookie <= off'
    BY <1>2, <1>3, <1>6 DEF InOrder
  <2> QED
    BY <2>1, <2>2, <2>3, <2>4, <2>5, <2>6, <2>7, <1>2, <1>5, <1>7 DEF InOrder
<1> QED
  BY <1>2, <1>8, <1>9, <1>10 DEF OneSlotEach, ListedOnce, Complete

\* The first entry read ahead becomes the last one written.
LEMMA EmitInv ==
  ASSUME IInv, Emit
  PROVE  IInv'
<1> USE DEF IInv
<1> DEFINE c == call.by
           p == FirstOf(call.ahead)
           n == call.ahead[p]
<1>1. /\ call # NoCall /\ call.ahead # NoEntries /\ SizeOf[n] <= call.left
      /\ call' = [call EXCEPT !.left = @ - SizeOf[n], !.ahead = Without(@, p),
                    !.out = [q \in DOMAIN @ \cup {p} |-> IF q = p THEN n ELSE @[q]]]
      /\ UNCHANGED <<dir, off, cur>>
  BY DEF Emit, required_space, dirent_from_host
<1>2. /\ c \in Cursor /\ call \in Call /\ call.left \in Nat
      /\ call.ahead \in Entries /\ call.out \in Entries
  BY <1>1, CallIs
<1>3. p \in DOMAIN call.ahead /\ \A q \in DOMAIN call.ahead : p <= q
  BY <1>1, <1>2, FirstIs
<1>4. /\ call.ahead \in [DOMAIN call.ahead -> Name] /\ DOMAIN call.ahead \subseteq Pos
      /\ call.out \in [DOMAIN call.out -> Name] /\ DOMAIN call.out \subseteq Pos
      /\ n \in Name /\ SizeOf[n] \in Nat
  BY <1>2, <1>3, EntriesAre, DirAssumption
<1>5. /\ DOMAIN call'.ahead = DOMAIN call.ahead \ {p}
      /\ \A q \in DOMAIN call'.ahead : call'.ahead[q] = call.ahead[q]
      /\ DOMAIN call'.out = DOMAIN call.out \cup {p} /\ call'.out[p] = n
      /\ \A q \in DOMAIN call.out : q # p => call'.out[q] = call.out[q]
      /\ call'.by = c /\ call'.left = call.left - SizeOf[n] /\ call' # NoCall
  BY <1>1, <1>2, NobodyCalls DEF Call, Without
<1>6. TypeOK'
  <2>1. call'.ahead \in Entries /\ call'.out \in Entries
    <3>1. /\ call'.ahead = [q \in DOMAIN call.ahead \ {p} |-> call.ahead[q]]
          /\ call'.out = [q \in DOMAIN call.out \cup {p} |->
                             IF q = p THEN n ELSE call.out[q]]
      BY <1>1, <1>2 DEF Call, Without
    <3> QED
      BY <3>1, <1>3, <1>4, EntriesAre
  <2>2. call'.left \in Nat
    BY <1>1, <1>2, <1>4, <1>5
  <2>3. call' \in Call
    BY <2>1, <2>2, <1>1, <1>2, <1>5 DEF Call
  <2> QED
    BY <2>3, <1>1 DEF TypeOK
<1>7. \A d \in Cursor : Progress(d)'
  BY <1>1, <1>5 DEF Progress, Steady
<1>8. InOrder'
  <2>1. /\ \A q \in DOMAIN call'.out : cur[c].cookie < q /\ q <= off
        /\ \A q \in DOMAIN call'.ahead : cur[c].cookie < q /\ q <= off
    BY <1>1, <1>3, <1>5 DEF InOrder
  <2>2. \A q \in DOMAIN call'.out, r \in DOMAIN call'.ahead : q < r
    BY <1>1, <1>3, <1>4, <1>5 DEF InOrder, Pos
  <2>3. Agrees(call.out, c)' /\ Agrees(call.ahead, c)'
    BY <1>1, <1>3, <1>5 DEF InOrder, Agrees, Steady
  <2>4. DOMAIN call'.out \cup DOMAIN call'.ahead = DOMAIN call.out \cup DOMAIN call.ahead
    BY <1>3, <1>5
  <2>5. Steady(c)' = Steady(c)
    BY <1>1, <1>5 DEF Steady
  <2> QED
    BY <2>1, <2>2, <2>3, <2>4, <2>5, <1>1, <1>5 DEF InOrder
<1> QED
  BY <1>1, <1>6, <1>7, <1>8 DEF OneSlotEach, ListedOnce, Complete

\* A call that returns hands its entries over and moves the listing's cookie to
\* the last of them.  One that has none and has not given up was at the end.
LEMMA ReturnInv ==
  ASSUME IInv, NEW cut \in BOOLEAN, call # NoCall, Return(cut),
         UNCHANGED dir, off' \in Cookie,
         ~cut /\ call.out = NoEntries =>
           call.ahead = NoEntries /\ \A p \in DOMAIN dir : p <= off
  PROVE  IInv'
<1> USE DEF IInv
<1> DEFINE over == call.out = NoEntries
<1>1. PICK c \in Cursor : call.by = c
  BY CallIs
<1> USE <1>1
<1>2. /\ call \in Call /\ call.out \in Entries /\ call.ahead \in Entries
      /\ cur \in [Cursor -> Listing]
  BY CallIs DEF TypeOK
<1>3. /\ call' = NoCall
      /\ \A d \in Cursor : d # c => cur'[d] = cur[d]
      /\ cur'[c].stable = cur[c].stable /\ cur'[c].fresh = cur[c].fresh
      /\ cur'[c].state = IF over THEN "done" ELSE cur[c].state
      /\ cur'[c].cookie = IF over THEN cur[c].cookie ELSE LastOf(call.out)
      /\ cur'[c].again = cur[c].again \cup (cur[c].listed \cap Names(call.out))
      /\ cur'[c].listed = cur[c].listed \cup Names(call.out)
      /\ ~cur'[c].cut => ~cur[c].cut /\ (over => ~cut)
  <2> DEFINE l == [cur[c] EXCEPT
               !.state = IF over THEN "done" ELSE @,
               !.cookie = IF over THEN @ ELSE LastOf(call.out),
               !.cut = @ \/ (cut /\ over),
               !.again = @ \cup (cur[c].listed \cap Names(call.out)),
               !.listed = @ \cup Names(call.out)]
  <2>1. call' = NoCall /\ cur' = [cur EXCEPT ![c] = l]
    BY DEF Return
  <2>2. cur'[c] = l /\ \A d \in Cursor : d # c => cur'[d] = cur[d]
    BY <2>1, <1>2
  <2>3. /\ l.stable = cur[c].stable /\ l.fresh = cur[c].fresh
        /\ l.state = IF over THEN "done" ELSE cur[c].state
        /\ l.cookie = IF over THEN cur[c].cookie ELSE LastOf(call.out)
        /\ l.again = cur[c].again \cup (cur[c].listed \cap Names(call.out))
        /\ l.listed = cur[c].listed \cup Names(call.out)
    BY <1>2 DEF Listing
  <2>4. l.cut = (cur[c].cut \/ (cut /\ over))
    BY <1>2, ZenonT(30) DEF Listing
  <2>5. ~l.cut => ~cur[c].cut /\ (over => ~cut)
    BY <2>4, Zenon
  <2> HIDE DEF l
  <2> QED
    BY <2>1, <2>2, <2>3, <2>5
<1>4. /\ cur[c] \in Listing /\ cur[c].cookie \in Int
      /\ dir \in [DOMAIN dir -> Name] /\ DOMAIN dir \subseteq Pos
      /\ DOMAIN call.out \subseteq Pos /\ Names(call.out) \subseteq Name
      /\ Pos \subseteq Int
  BY <1>2, EntriesAre, DirAssumption
  DEF Listing, TypeOK, Cookie, Pos, DIRCOOKIE_START, Names
<1>5. ~over => /\ LastOf(call.out) \in DOMAIN call.out
               /\ \A p \in DOMAIN call.out : p <= LastOf(call.out)
  BY <1>2, LastIs
<1>6. cur'[c].cookie \in Cookie /\ cur'[c].cookie \in Int /\ cur[c].cookie <= cur'[c].cookie
  <2>1. CASE over
    BY <2>1, <1>3, <1>4 DEF Listing
  <2>2. CASE ~over
    BY <2>2, <1>3, <1>4, <1>5 DEF Cookie, InOrder
  <2> QED
    BY <2>1, <2>2
<1>7. TypeOK'
  <2>1. cur' = [cur EXCEPT ![c] = cur'[c]] /\ cur'[c] \in Listing
    BY <1>4, <1>6, <1>2, ZenonT(30) DEF Return, Listing
  <2> QED
    BY <2>1, <1>3 DEF TypeOK
<1>8. /\ Steady(c) \subseteq Pos /\ \A d \in Cursor : Steady(d)' = Steady(d)
      /\ \A p \in Steady(c) : dir[p] \in cur[c].stable
  BY <1>3, <1>4 DEF Steady
<1>9. \A p \in Steady(c) : dir[p] \in Names(call.out) <=> p \in DOMAIN call.out
  <2>1. ASSUME NEW p \in Steady(c), dir[p] \in Names(call.out)
        PROVE  p \in DOMAIN call.out
    <3>1. PICK q \in DOMAIN call.out : call.out[q] = dir[p]
      BY <2>1 DEF Names
    <3>2. q \in DOMAIN dir /\ dir[q] = dir[p]
      BY <3>1, <1>8 DEF InOrder, Agrees
    <3> QED
      BY <3>1, <3>2 DEF OneSlotEach, Steady
  <2>2. ASSUME NEW p \in Steady(c), p \in DOMAIN call.out
        PROVE  dir[p] \in Names(call.out)
    BY <2>2 DEF InOrder, Agrees, Names
  <2> QED
    BY <2>1, <2>2
<1>10. \A p \in DOMAIN call.out : cur[c].cookie < p /\ p <= cur'[c].cookie
  BY <1>3, <1>5, NoEntriesIs DEF InOrder
<1>11. Progress(c)'
  <2>1. ASSUME NEW p \in Steady(c), dir[p] \in cur'[c].listed
        PROVE  p <= cur'[c].cookie
    <3>1. CASE dir[p] \in cur[c].listed
      <4>1. p <= cur[c].cookie
        BY <3>1 DEF Progress
      <4> QED
        BY <4>1, <1>4, <1>6, <1>8
    <3>2. CASE dir[p] \in Names(call.out)
      BY <3>2, <1>9, <1>10
    <3> QED
      BY <2>1, <3>1, <3>2, <1>3
  <2>2. ASSUME cur'[c].fresh, ~cur'[c].cut, NEW p \in Steady(c), p <= cur'[c].cookie
        PROVE  dir[p] \in cur'[c].listed
    <3>1. CASE p <= cur[c].cookie
      BY <3>1, <2>2, <1>3 DEF Progress
    <3>2. CASE cur[c].cookie < p
      <4>1. ~over /\ p <= LastOf(call.out)
        BY <3>2, <2>2, <1>3, <1>4, <1>8
      <4>2. p <= off
        BY <4>1, <1>4, <1>5, <1>8 DEF InOrder, TypeOK, Cookie, Pos, DIRCOOKIE_START
      <4>3. p \in DOMAIN call.out \cup DOMAIN call.ahead
        BY <4>2, <3>2, <2>2, <1>3 DEF InOrder
      <4>4. p \notin DOMAIN call.ahead
        BY <4>1, <1>4, <1>5, <1>8 DEF InOrder
      <4> QED
        BY <4>3, <4>4, <1>3, <1>9
    <3> QED
      BY <3>1, <3>2, <1>4, <1>8
  <2>3. cur'[c].state # "new"
    BY <1>3 DEF InOrder
  <2>4. cur'[c].state = "going" => cur'[c].cookie # DIRCOOKIE_START
    BY <1>3, <1>4, <1>5 DEF InOrder, Pos, DIRCOOKIE_START
  <2>5. cur'[c].stable \subseteq Names(dir)'
    BY <1>3 DEF Progress, Names
  <2> QED
    BY <2>1, <2>2, <2>3, <2>4, <2>5, <1>8 DEF Progress
<1>12. \A d \in Cursor : Progress(d)'
  <2>1. ASSUME NEW d \in Cursor, d # c
        PROVE  Progress(d)'
    BY <2>1, <1>3 DEF Progress, Steady, Names
  <2> QED
    BY <2>1, <1>11
<1>13. ListedOnce'
  <2>1. ASSUME NEW m \in cur[c].stable, m \in cur[c].listed, m \in Names(call.out)
        PROVE  FALSE
    <3>1. PICK p \in DOMAIN dir : dir[p] = m
      BY <2>1 DEF Progress, Names
    <3>2. p \in Steady(c)
      BY <2>1, <3>1 DEF Steady
    <3>3. p <= cur[c].cookie
      BY <2>1, <3>1, <3>2 DEF Progress
    <3>4. cur[c].cookie < p
      BY <2>1, <3>1, <3>2, <1>9, <1>10
    <3> QED
      BY <3>2, <3>3, <3>4, <1>4, <1>8
  <2> QED
    BY <2>1, <1>1, <1>3 DEF ListedOnce
<1>14. Complete'
  <2>1. ASSUME over, cur'[c].fresh, ~cur'[c].cut, NEW m \in cur[c].stable
        PROVE  m \in cur'[c].listed
    <3>1. PICK p \in DOMAIN dir : dir[p] = m
      BY <2>1 DEF Progress, Names
    <3>2. p \in Steady(c) /\ p <= off /\ call.ahead = NoEntries
      BY <2>1, <3>1, <1>3 DEF Steady
    <3>3. ~ (cur[c].cookie < p)
      BY <2>1, <3>2, <1>3, NoEntriesIs DEF InOrder
    <3>4. dir[p] \in cur[c].listed
      BY <2>1, <3>2, <3>3, <1>3, <1>4, <1>8 DEF Progress
    <3> QED
      BY <3>1, <3>4, <1>3
  <2> QED
    BY <2>1, <1>1, <1>3 DEF Complete, InOrder
<1>15. InOrder' /\ OneSlotEach'
  BY <1>3 DEF InOrder, OneSlotEach
<1> QED
  BY <1>7, <1>12, <1>13, <1>14, <1>15

LEMMA EndOfDirInv ==
  ASSUME IInv, EndOfDir
  PROVE  IInv'
<1> USE DEF IInv
<1>1. /\ call # NoCall /\ call.ahead = NoEntries /\ UNCHANGED dir
      /\ NoEntries \in Batches(off) /\ off' \in off..Slots /\ Return(FALSE)
  BY DEF EndOfDir
<1>2. off \in Int /\ DOMAIN dir \subseteq Int
  BY EntriesAre, DirAssumption DEF TypeOK, Cookie, Pos, DIRCOOKIE_START
<1>3. \A p \in DOMAIN dir : p <= off
  <2>1. PICK S \in SUBSET {p \in DOMAIN dir : p > off} :
          /\ NoEntries = [p \in S |-> dir[p]]
          /\ {p \in DOMAIN dir : p > off} # {} => S # {}
    BY <1>1 DEF Batches
  <2>2. S = {}
    BY <2>1, NoEntriesIs
  <2> QED
    BY <2>1, <2>2, <1>2
<1>4. off' \in Cookie
  BY <1>1, DirAssumption DEF TypeOK, Cookie, Pos, DIRCOOKIE_START
<1> QED
  BY <1>1, <1>3, <1>4, ReturnInv

\* The other ends of a call leave the offset, and give up.
LEMMA GivesUpInv ==
  ASSUME IInv, ReadError \/ TooLarge \/ Full
  PROVE  IInv'
<1>1. call # NoCall /\ Return(TRUE) /\ UNCHANGED <<dir, off>>
  BY DEF ReadError, TooLarge, Full
<1>2. off' \in Cookie
  BY <1>1 DEF IInv, TypeOK
<1> QED
  BY <1>1, <1>2, ReturnInv

LEMMA NextIInv ==
  ASSUME IInv, [Next]_vars
  PROVE  IInv'
<1>1. CASE UNCHANGED vars
  <2>1. UNCHANGED <<dir, off, call, cur>>
    BY <1>1 DEF vars
  <2> QED
    BY <2>1 DEF IInv, TypeOK, OneSlotEach, ListedOnce, Complete, Progress, Steady,
                Names, InOrder, Agrees
<1>2. CASE \E c \in Cursor, len \in BufLens : fd_readdir(c, len)
  BY <1>2, BeginInv
<1>3. CASE Next /\ ~ (\E c \in Cursor, len \in BufLens : fd_readdir(c, len))
  BY <1>1, <1>3, OthersAddInv, OthersRemoveInv, GetdentsInv, EndOfDirInv, EmitInv,
     GivesUpInv
  DEF Next, Loop, AllDone
<1> QED
  BY <1>1, <1>2, <1>3

LEMMA Invariance == Spec => []IInv
<1>1. Init => IInv
  BY InitIInv
<1>2. IInv /\ [Next]_vars => IInv'
  BY NextIInv
<1> QED
  BY <1>1, <1>2, PTL DEF Spec

----------------------------------------------------------------------------
(* The space that entries take *)

\* A piece of the directory has finitely many entries.
LEMMA EntriesFinite ==
  ASSUME NEW e \in Entries
  PROVE  IsFiniteSet(DOMAIN e)
<1>1. IsFiniteSet(Pos) /\ DOMAIN e \in SUBSET Pos
  BY FS_Interval, EntriesAre, DirAssumption DEF Pos
<1> QED
  BY <1>1, FS_Subset

\* The space of e is a sum in the sense of Sums.
Space(e) == MapThenSumSet(LAMBDA p : SizeOf[e[p]], DOMAIN e)

LEMMA SpaceIs ==
  ASSUME NEW e \in Entries
  PROVE  \E f : /\ Sums(f, [p \in DOMAIN e |-> SizeOf[e[p]]], DOMAIN e)
               /\ Space(e) = f[DOMAIN e]
<1> DEFINE w == [p \in DOMAIN e |-> SizeOf[e[p]]]
           Ch(s) == CHOOSE x \in s : TRUE
           Adds(f) == f = [s \in SUBSET DOMAIN e |->
                             IF s = {} THEN 0 ELSE SizeOf[e[Ch(s)]] + f[s \ {Ch(s)}]]
<1>1. \A f : Adds(f) <=> Sums(f, w, DOMAIN e)
  <2>1. \A s \in SUBSET DOMAIN e : s # {} => w[Ch(s)] = SizeOf[e[Ch(s)]]
    OBVIOUS
  <2>2. \A f : [s \in SUBSET DOMAIN e |->
                  IF s = {} THEN 0 ELSE SizeOf[e[Ch(s)]] + f[s \ {Ch(s)}]]
             = [s \in SUBSET DOMAIN e |->
                  IF s = {} THEN 0 ELSE w[Ch(s)] + f[s \ {Ch(s)}]]
    <3> HIDE DEF Ch, w
    <3> QED
      BY <2>1
  <2> QED
    BY <2>2, Zenon DEF Sums
<1>2. \E f : Adds(f)
  <2>1. \E f : Sums(f, w, DOMAIN e)
    BY SumsExist, EntriesFinite
  <2> HIDE DEF Adds
  <2> QED
    BY <1>1, <2>1
<1>3. Space(e) = (CHOOSE f : Adds(f))[DOMAIN e]
  BY DEF Space, MapThenSumSet, MapThenFoldSet
<1>4. Adds(CHOOSE f : Adds(f))
  <2> HIDE DEF Adds
  <2> QED
    BY <1>2, Zenon
<1> HIDE DEF Adds, w
<1>5. Sums((CHOOSE f : Adds(f)), w, DOMAIN e)
  BY <1>1, <1>4
<1> QED
  BY <1>3, <1>5 DEF w

LEMMA SpaceOfNone == Space(NoEntries) = 0
<1>1. PICK f : /\ Sums(f, [p \in DOMAIN NoEntries |-> SizeOf[NoEntries[p]]], DOMAIN NoEntries)
               /\ Space(NoEntries) = f[DOMAIN NoEntries]
  BY SpaceIs, NoEntriesIs
<1> QED
  BY <1>1, NoEntriesIs DEF Sums

LEMMA SpaceOfMore ==
  ASSUME NEW e \in Entries, NEW d \in Entries, NEW p \in DOMAIN d,
         DOMAIN e = DOMAIN d \ {p}, \A q \in DOMAIN e : e[q] = d[q]
  PROVE  Space(d) = SizeOf[d[p]] + Space(e) /\ Space(e) \in Nat
<1> DEFINE w == [q \in DOMAIN d |-> SizeOf[d[q]]]
           v == [q \in DOMAIN e |-> SizeOf[e[q]]]
<1>1. PICK f : Sums(f, w, DOMAIN d) /\ Space(d) = f[DOMAIN d]
  BY SpaceIs
<1>2. PICK g : Sums(g, v, DOMAIN e) /\ Space(e) = g[DOMAIN e]
  BY SpaceIs
<1>3. w \in [DOMAIN d -> Nat] /\ v \in [DOMAIN e -> Nat] /\ \A q \in DOMAIN e : v[q] = w[q]
  <2>1. d \in [DOMAIN d -> Name] /\ e \in [DOMAIN e -> Name]
    BY EntriesAre
  <2> QED
    BY <2>1, DirAssumption
<1>4. IsFiniteSet(DOMAIN d) /\ IsFiniteSet(DOMAIN e)
  BY EntriesFinite
<1>5. w[p] = SizeOf[d[p]]
  OBVIOUS
<1> HIDE DEF w, v
<1>6. f[DOMAIN d] = w[p] + f[DOMAIN d \ {p}]
  BY <1>1, <1>3, <1>4, SumsStep
<1>7. g[DOMAIN e] = f[DOMAIN e] /\ DOMAIN e \in SUBSET DOMAIN d
  BY <1>1, <1>2, <1>3, <1>4, SumsAgree
<1>8. g[DOMAIN e] \in Nat
  BY <1>2, <1>3, <1>4, SumsType
<1> QED
  BY <1>1, <1>2, <1>5, <1>6, <1>7, <1>8

----------------------------------------------------------------------------
(* The theorems *)

\* The directory, the offset of the descriptor, each call and each listing keep
\* their types: every cookie fd_readdir hands out is a place in the directory.
THEOREM TypeCorrect == Spec => []TypeOK
<1>1. IInv => TypeOK
  BY DEF IInv
<1> QED
  BY <1>1, Invariance, PTL

\* A listing brings no entry that stays in its place twice: fd_readdir takes up
\* each listing where its cookie says, whatever else happened to the offset.
THEOREM NothingTwice == Spec => []ListedOnce
<1>1. IInv => ListedOnce
  BY DEF IInv
<1> QED
  BY <1>1, Invariance, PTL

\* A listing begun at offset 0 of which no call gave up brings every entry that
\* stays in its place: what getdents read ahead and a call could not write is
\* read again by the next.
THEOREM NothingMissed == Spec => []Complete
<1>1. IInv => Complete
  BY DEF IInv
<1> QED
  BY <1>1, Invariance, PTL

\* What fd_readdir has written and what it says is left make up the buffer.
THEOREM BufferIsAccounted == Spec => []BufferAccounted
<1> DEFINE Accounted == call # NoCall => call.left + Space(call.out) = call.len
<1>1. Accounted <=> BufferAccounted
  BY DEF Space, BufferAccounted
<1>2. Init => Accounted
  BY DEF Init
<1>3. ASSUME IInv, Accounted, [Next]_vars
      PROVE  Accounted'
  <2>1. CASE call' = call
    BY <1>3, <2>1
  <2>2. CASE call' = NoCall
    BY <2>2
  <2>3. ASSUME NEW c \in Cursor, NEW len \in BufLens, fd_readdir(c, len)
        PROVE  Accounted'
    <3>1. call'.left = len /\ call'.len = len /\ call'.out = NoEntries /\ len \in Nat
      BY <2>3, DirAssumption DEF fd_readdir
    <3> QED
      BY <3>1, SpaceOfNone
  <2>4. CASE getdents
    <3>1. call # NoCall /\ \E b : call' = [call EXCEPT !.ahead = b]
      BY <2>4 DEF getdents
    <3>2. call \in Call
      BY <1>3, <3>1, CallIs DEF IInv
    <3>3. call'.left = call.left /\ call'.len = call.len /\ call'.out = call.out
      BY <3>1, <3>2 DEF Call
    <3> QED
      BY <1>3, <3>1, <3>3
  <2>5. CASE Emit
    <3> DEFINE p == FirstOf(call.ahead)
               n == call.ahead[p]
    <3>1. /\ call # NoCall /\ call.ahead # NoEntries /\ call.left \in Nat
          /\ call \in Call /\ call.ahead \in Entries /\ call.out \in Entries
      BY <1>3, <2>5, CallIs DEF IInv, Emit
    <3>2. /\ call'.left = call.left - SizeOf[n] /\ call'.len = call.len
          /\ call'.out = [q \in DOMAIN call.out \cup {p} |->
                            IF q = p THEN n ELSE call.out[q]]
      BY <2>5, <3>1 DEF Emit, required_space, dirent_from_host, Call
    <3>3. p \in DOMAIN call.ahead
      BY <3>1, FirstIs
    <3>4. p \notin DOMAIN call.out
      <4>1. \A q \in DOMAIN call.out : q < p
        BY <1>3, <3>1, <3>3 DEF IInv, InOrder
      <4>2. p \in Int
        BY <3>1, <3>3, EntriesAre DEF Pos
      <4> QED
        BY <4>1, <4>2
    <3>5. call'.out \in Entries /\ SizeOf[n] \in Nat
      BY <3>1, <3>2, <3>3, EntriesAre, DirAssumption
    <3> HIDE DEF p, n
    <3>6. /\ DOMAIN call.out = DOMAIN call'.out \ {p} /\ p \in DOMAIN call'.out
          /\ call'.out[p] = n /\ \A q \in DOMAIN call.out : call.out[q] = call'.out[q]
      BY <3>2, <3>4
    <3>7. Space(call'.out) = SizeOf[n] + Space(call.out) /\ Space(call.out) \in Nat
      BY <3>1, <3>5, <3>6, SpaceOfMore
    <3> QED
      BY <1>3, <3>1, <3>2, <3>5, <3>7
  <2> QED
    BY <1>3, <2>1, <2>2, <2>3, <2>4, <2>5
    DEF Next, Loop, vars, OthersAdd, OthersRemove, EndOfDir, ReadError, TooLarge,
        Full, Return, AllDone
<1> HIDE DEF Accounted
<1>4. Spec => []Accounted
  BY <1>2, <1>3, Invariance, PTL DEF Spec
<1> QED
  BY <1>1, <1>4, PTL
=============================================================================
