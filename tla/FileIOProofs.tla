----------------------------- MODULE FileIOProofs -----------------------------
(***************************************************************************)
(* The calls on open descriptors keep the rights of the guest's entries    *)
(* and the bounds of 63 bits, and what they read lands in the guest's      *)
(* buffers as readv(2) has it: for every table, every file size and offset *)
(* and every vector of buffers, beside other processes.                    *)
(***************************************************************************)
EXTENDS FileIO, Induction

\* While fd_allocate is about to set a size it holds the right to grow the file,
\* and the size is greater than the one it found, which is the file's unless
\* others have acted.
Allocating ==
  wanted # NoSize =>
    /\ call.op = "fd_allocate" /\ call.fd \in DOMAIN fds
    /\ "FD_ALLOCATE" \in fds[call.fd].rights_base
    /\ fds[call.fd].desc \in File => call.size < wanted

\* The inductive invariant.
IInv == TypeOK /\ ReadsLand /\ Allocating

\* What RightsRespected and AllocateKeeps say of one step.
Respects ==
  OnlyGuest =>
    /\ got' # <<>> => Can("FD_READ")
    /\ data' # data /\ call'.op # "fd_pwrite" =>
         \/ Can("FD_WRITE") \/ Can("FD_FILESTAT_SET_SIZE")
         \/ Can("FD_ALLOCATE") /\ Len(data') > call'.size
    /\ \A d \in Desc : offset'[d] # offset[d] =>
         /\ d = fds[call'.fd].desc
         /\ \/ Can("FD_SEEK") /\ Can("FD_TELL")
            \/ Can("FD_READ") /\ offset'[d] = offset[d] + Len(got')
            \/ Can("FD_WRITE")
    /\ times' # times => Can("FD_FILESTAT_SET_TIMES")
Keeps ==
  call'.op = "fd_allocate" /\ OnlyGuest =>
    IsPrefix(SubSeq(data, 1, Smaller(Len(data), call'.size)), data')

\* A step that keeps the invariant and both.
Good == IInv' /\ Respects /\ Keeps

----------------------------------------------------------------------------
(* Flattened sequences *)

\* g[k] is b followed by the first k of the sequences t.
Appends(g, b, N, t) == g[0] = b /\ \A k \in 1..N : g[k] = g[k - 1] \o t[k]

LEMMA Appended ==
  ASSUME NEW A, NEW b \in Seq(A), NEW N \in Nat, NEW t, t \in [1..N -> Seq(A)]
  PROVE  \E g : g \in [0..N -> Seq(A)] /\ Appends(g, b, N, t)
<1>1. PICK S : S = Seq(A)
  OBVIOUS
<1>2. PICK F \in [1..N -> [S -> S]] : \A k \in 1..N : \A x \in S : F[k][x] = x \o t[k]
  <2> DEFINE F == [k \in 1..N |-> [x \in S |-> x \o t[k]]]
  <2>1. F \in [1..N -> [S -> S]]
    BY <1>1
  <2>2. \A k \in 1..N : \A x \in S : F[k][x] = x \o t[k]
    OBVIOUS
  <2> HIDE DEF F
  <2> QED
    BY <2>1, <2>2
<1>3. b \in S /\ Steps(F, N, S)
  BY <1>1 DEF Steps
<1>4. PICK g : g \in [0..N -> S] /\ Unfolds(g, b, N, F)
  BY <1>3, RecursiveFunction
<1>5. \A k \in 1..N : k - 1 \in 0..N
  OBVIOUS
<1>6. \A k \in 1..N : g[k] = g[k - 1] \o t[k]
  BY <1>2, <1>4, <1>5 DEF Unfolds
<1> QED
  BY <1>1, <1>4, <1>6 DEF Unfolds, Appends

\* FlattenSeq's recursion, unfolded.
LEMMA FlattenDef ==
  ASSUME NEW A, NEW s \in Seq(Seq(A))
  PROVE  \E f : /\ f \in [0..Len(s) -> Seq(A)] /\ Appends(f, <<>>, Len(s), s)
                /\ FlattenSeq(s) = f[Len(s)]
<1>1. Len(s) \in Nat /\ <<>> \in Seq(A) /\ \A k \in 1..Len(s) : s[k] \in Seq(A)
  OBVIOUS
<1>2. CASE Len(s) = 0
  <2> DEFINE f == [k \in 0..0 |-> <<>>]
  <2>1. s = <<>> /\ FlattenSeq(s) = <<>>
    BY <1>2 DEF FlattenSeq
  <2>2. f \in [0..Len(s) -> Seq(A)] /\ f[0] = <<>> /\ FlattenSeq(s) = f[Len(s)]
    BY <1>2, <2>1
  <2> HIDE DEF f
  <2> QED
    BY <1>2, <2>2 DEF Appends
<1>3. CASE Len(s) # 0
  <2> DEFINE N == Len(s) - 1
             Is(h) == h = [i \in 1..Len(s) |-> IF i = 1 THEN s[i] ELSE h[i - 1] \o s[i]]
             h == CHOOSE h : Is(h)
  <2>1. N \in Nat /\ s[1] \in Seq(A) /\ \A k \in 1..N : s[k + 1] \in Seq(A)
    BY <1>1, <1>3
  <2> DEFINE t == [k \in 1..N |-> s[k + 1]]
  <2>2. t \in [1..N -> Seq(A)]
    BY <2>1
  <2>3. PICK g : g \in [0..N -> Seq(A)] /\ Appends(g, s[1], N, t)
    <3> HIDE DEF N, t
    <3> QED
      BY <2>1, <2>2, Appended
  <2> DEFINE r == [i \in 1..Len(s) |-> g[i - 1]]
  <2>4. g[0] = s[1] /\ \A k \in 1..N : g[k] = g[k - 1] \o s[k + 1]
    BY <2>3 DEF Appends
  <2>5. Is(r)
    <3>1. ASSUME NEW i \in 1..Len(s)
          PROVE  r[i] = IF i = 1 THEN s[i] ELSE r[i - 1] \o s[i]
      <4>1. CASE i = 1
        BY <4>1, <2>4
      <4>2. CASE i # 1
        <5>1. i - 1 \in 1..N /\ i - 1 \in 1..Len(s) /\ (i - 1) + 1 = i
          BY <4>2, <1>1
        <5>2. r[i] = g[i - 1] /\ r[i - 1] = g[(i - 1) - 1]
          BY <5>1
        <5>3. g[i - 1] = g[(i - 1) - 1] \o s[(i - 1) + 1]
          BY <2>4, <5>1
        <5> QED
          BY <4>2, <5>1, <5>2, <5>3
      <4> QED
        BY <4>1, <4>2
    <3>2. r = [i \in 1..Len(s) |-> r[i]]
      OBVIOUS
    <3> HIDE DEF r
    <3> QED
      BY <3>1, <3>2
  <2>6. Is(h)
    <3> HIDE DEF Is, r
    <3> QED
      BY <2>5, Zenon
  <2>7. FlattenSeq(s) = h[Len(s)]
    BY <1>3 DEF FlattenSeq
  <2> HIDE DEF h
  <2>8. h[1] = s[1] /\ \A i \in 2..Len(s) : h[i] = h[i - 1] \o s[i]
    <3>1. \A i \in 1..Len(s) : h[i] = IF i = 1 THEN s[i] ELSE h[i - 1] \o s[i]
      BY <2>6
    <3>2. 1 \in 1..Len(s) /\ \A i \in 2..Len(s) : i \in 1..Len(s) /\ i # 1
      BY <1>1, <1>3
    <3> QED
      BY <3>1, <3>2
  <2>9. \A i \in 1..Len(s) : h[i] \in Seq(A)
    <3> DEFINE T == {n \in Nat : n + 1 \in 1..Len(s) => h[n + 1] \in Seq(A)}
    <3>1. 0 \in T
      BY <2>8, <1>1
    <3>2. ASSUME NEW n \in T
          PROVE  n + 1 \in T
      <4>1. CASE (n + 1) + 1 \in 1..Len(s)
        <5>1. n + 1 \in 1..Len(s) /\ (n + 1) + 1 \in 2..Len(s) /\ ((n + 1) + 1) - 1 = n + 1
          BY <4>1
        <5>2. h[(n + 1) + 1] = h[n + 1] \o s[(n + 1) + 1]
          BY <5>1, <2>8
        <5>3. h[n + 1] \in Seq(A) /\ s[(n + 1) + 1] \in Seq(A)
          BY <5>1, <1>1, <4>1
        <5>4. \A x, y \in Seq(A) : x \o y \in Seq(A)
          OBVIOUS
        <5>5. h[(n + 1) + 1] \in Seq(A)
          BY <5>2, <5>3, <5>4
        <5> QED
          BY <5>5
      <4> QED
        BY <4>1
    <3>3. T \in SUBSET Nat
      OBVIOUS
    <3> HIDE DEF T
    <3>4. T = Nat
      BY <3>1, <3>2, <3>3, InductiveSet
    <3>5. \A i \in 1..Len(s) : i - 1 \in Nat /\ (i - 1) + 1 = i
      OBVIOUS
    <3> QED
      BY <3>4, <3>5 DEF T
  <2> DEFINE f == [k \in 0..Len(s) |-> IF k = 0 THEN <<>> ELSE h[k]]
  <2>10. f \in [0..Len(s) -> Seq(A)] /\ f[0] = <<>> /\ FlattenSeq(s) = f[Len(s)]
    BY <1>1, <1>3, <2>7, <2>9
  <2>11. \A k \in 1..Len(s) : f[k] = f[k - 1] \o s[k]
    <3>1. 1 \in 1..Len(s) /\ f[1] = h[1] /\ <<>> \o s[1] = s[1]
      BY <1>1, <1>3
    <3>2. \A k \in 2..Len(s) : f[k] = h[k] /\ f[k - 1] = h[k - 1]
      OBVIOUS
    <3>3. \A k \in 1..Len(s) : k = 1 \/ k \in 2..Len(s)
      OBVIOUS
    <3>4. f[1] = f[1 - 1] \o s[1]
      <4>1. 1 - 1 = 0 /\ f[0] = <<>>
        BY <2>10
      <4>2. f[1 - 1] \o s[1] = s[1]
        BY <4>1, <3>1
      <4> HIDE DEF f
      <4> QED
        BY <4>2, <3>1, <2>8
    <3>5. \A k \in 2..Len(s) : f[k] = f[k - 1] \o s[k]
      <4> HIDE DEF f
      <4> QED
        BY <3>2, <2>8
    <3> HIDE DEF f
    <3> QED
      BY <3>3, <3>4, <3>5
  <2> HIDE DEF f
  <2> QED
    BY <2>10, <2>11 DEF Appends
<1> QED
  BY <1>2, <1>3

----------------------------------------------------------------------------
(* Buffers *)

\* The addresses of a buffer.
Part(b) == [j \in 1..b.len |-> b.buf + j - 1]

LEMMA IovTyped ==
  ASSUME NEW v \in Iovs
  PROVE  /\ Len(v) \in Nat
         /\ \A k \in 1..Len(v) :
              v[k].buf \in Nat /\ v[k].len \in Nat /\ Part(v[k]) \in Seq(Addr)
<1>1. v \in Seq(Iovec) /\ Addr \subseteq Nat
  BY IovAssumption
<1>2. ASSUME NEW k \in 1..Len(v)
      PROVE  v[k].buf \in Nat /\ v[k].len \in Nat /\ Part(v[k]) \in Seq(Addr)
  <2>1. v[k] \in Iovec
    BY <1>1
  <2>2. v[k].buf \in Nat /\ v[k].len \in Nat
    BY <2>1, <1>1 DEF Iovec
  <2>3. ASSUME NEW j \in 1..v[k].len
        PROVE  v[k].buf + j - 1 \in Addr
    <3>1. \A x, y \in Nat : \A m \in 1..y : x + m - 1 \in x..(x + y - 1)
      OBVIOUS
    <3>2. v[k].buf + j - 1 \in v[k].buf..(v[k].buf + v[k].len - 1)
      BY <2>2, <3>1
    <3> QED
      BY <3>2, IovAssumption
  <2> QED
    BY <2>2, <2>3 DEF Part
<1> QED
  BY <1>1, <1>2

\* f[k] has the addresses of the first k buffers.
LEMMA SlotsDef ==
  ASSUME NEW v \in Iovs
  PROVE  \E f : /\ f \in [0..Len(v) -> Seq(Addr)] /\ f[0] = <<>>
                /\ \A k \in 1..Len(v) : f[k] = f[k - 1] \o Part(v[k])
                /\ Slots(v) = f[Len(v)]
<1> DEFINE s == [k \in 1..Len(v) |-> Part(v[k])]
<1>1. s \in Seq(Seq(Addr)) /\ Len(s) = Len(v)
  BY IovTyped
<1>2. \A k \in 1..Len(v) : s[k] = Part(v[k])
  OBVIOUS
<1>3. Slots(v) = FlattenSeq(s)
  BY DEF Slots, Part
<1> HIDE DEF s
<1>4. PICK f : /\ f \in [0..Len(s) -> Seq(Addr)] /\ Appends(f, <<>>, Len(s), s)
               /\ FlattenSeq(s) = f[Len(s)]
  BY <1>1, FlattenDef
<1>5. \A k \in 1..Len(v) : f[k] = f[k - 1] \o Part(v[k])
  BY <1>1, <1>2, <1>4 DEF Appends
<1> QED
  BY <1>1, <1>3, <1>4, <1>5 DEF Appends

LEMMA SlotsTyped ==
  ASSUME NEW v \in Iovs
  PROVE  Slots(v) \in Seq(Addr) /\ Total(v) \in Nat
<1>1. Slots(v) \in Seq(Addr)
  <2>1. PICK f : f \in [0..Len(v) -> Seq(Addr)] /\ Slots(v) = f[Len(v)]
    BY SlotsDef
  <2>2. Len(v) \in 0..Len(v)
    BY IovTyped
  <2> QED
    BY <2>1, <2>2
<1> QED
  BY <1>1 DEF Total

----------------------------------------------------------------------------
(* fd_pread's loop *)

\* Between two turns: every byte is either copied or left.
State(buf) ==
  {s \in [mem : [Addr -> Byte], buf_offset : Nat, left : Nat] :
     s.buf_offset + s.left = Len(buf)}

\* Before the first turn, and what a turn for buffer b makes of state s.
First(buf) == [mem |-> Filled, buf_offset |-> 0, left |-> Len(buf)]

Turn(buf, b, s) ==
  LET vec_len == Smaller(b.len, s.left)
  IN  [mem |-> [a \in Addr |-> IF a - b.buf \in 0..(vec_len - 1)
                               THEN buf[s.buf_offset + a - b.buf + 1] ELSE s.mem[a]],
       buf_offset |-> s.buf_offset + vec_len,
       left |-> s.left - vec_len]

LEMMA TurnTyped ==
  ASSUME NEW buf \in Seq(Byte), NEW b, b.buf \in Nat, b.len \in Nat, NEW s \in State(buf)
  PROVE  Turn(buf, b, s) \in State(buf)
<1> DEFINE vec_len == Smaller(b.len, s.left)
           m == [a \in Addr |-> IF a - b.buf \in 0..(vec_len - 1)
                                THEN buf[s.buf_offset + a - b.buf + 1] ELSE s.mem[a]]
<1>1. /\ s.mem \in [Addr -> Byte] /\ s.buf_offset \in Nat /\ s.left \in Nat
      /\ s.buf_offset + s.left = Len(buf)
  BY DEF State
<1>2. vec_len \in 0..s.left
  BY <1>1 DEF Smaller
<1>3. m \in [Addr -> Byte]
  <2>1. ASSUME NEW a \in Addr, a - b.buf \in 0..(vec_len - 1)
        PROVE  buf[s.buf_offset + a - b.buf + 1] \in Byte
    <3>1. a \in Nat
      BY IovAssumption
    <3> HIDE DEF vec_len
    <3>2. s.buf_offset + a - b.buf + 1 \in 1..Len(buf)
      BY <2>1, <3>1, <1>1, <1>2, SMTT(30)
    <3> QED
      BY <3>2
  <2> HIDE DEF vec_len
  <2> QED
    BY <2>1, <1>1
<1>4. Turn(buf, b, s) = [mem |-> m, buf_offset |-> s.buf_offset + vec_len,
                         left |-> s.left - vec_len]
  BY DEF Turn
<1> HIDE DEF m, vec_len
<1> QED
  BY <1>1, <1>2, <1>3, <1>4 DEF State

LEMMA FirstTyped ==
  ASSUME NEW buf \in Seq(Byte)
  PROVE  First(buf) \in State(buf)
BY DEF First, State, Filled, Byte, Guest

\* h[k] is the state of the loop after k turns.
LEMMA ScatteredDef ==
  ASSUME NEW v \in Iovs, NEW buf \in Seq(Byte)
  PROVE  \E h : /\ h \in [0..Len(v) -> State(buf)] /\ h[0] = First(buf)
                /\ \A k \in 1..Len(v) : h[k] = Turn(buf, v[k], h[k - 1])
                /\ Scattered(buf, v) = h[Len(v)].mem
<1> DEFINE N == Len(v)
           F == [k \in 1..N |-> [s \in State(buf) |-> Turn(buf, v[k], s)]]
           Is(h) == h = [k \in 0..N |-> IF k = 0 THEN First(buf)
                                        ELSE Turn(buf, v[k], h[k - 1])]
           h == CHOOSE h : Is(h)
<1>1. N \in Nat /\ \A k \in 1..N : v[k].buf \in Nat /\ v[k].len \in Nat
  BY IovTyped
<1>2. First(buf) \in State(buf) /\ Steps(F, N, State(buf))
  <2>1. ASSUME NEW k \in 1..N, NEW s \in State(buf)
        PROVE  Turn(buf, v[k], s) \in State(buf)
    BY <1>1, TurnTyped
  <2> QED
    BY <2>1, FirstTyped DEF Steps
<1>3. PICK g : g \in [0..N -> State(buf)] /\ Unfolds(g, First(buf), N, F)
  <2> HIDE DEF N, F
  <2> QED
    BY <1>1, <1>2, RecursiveFunction
<1>4. g[0] = First(buf) /\ \A k \in 1..N : g[k] = Turn(buf, v[k], g[k - 1])
  <2>1. ASSUME NEW k \in 1..N
        PROVE  g[k] = Turn(buf, v[k], g[k - 1])
    <3> HIDE DEF N
    <3>1. k - 1 \in 0..N
      BY <1>1
    <3>2. g[k - 1] \in State(buf)
      BY <1>3, <3>1
    <3>3. g[k] = F[k][g[k - 1]]
      <4> HIDE DEF F
      <4> QED
        BY <1>3 DEF Unfolds
    <3> QED
      BY <3>2, <3>3
  <2> QED
    BY <2>1, <1>3 DEF Unfolds
<1>5. Is(g)
  <2> HIDE DEF N
  <2>1. \A k \in 0..N : g[k] = IF k = 0 THEN First(buf) ELSE Turn(buf, v[k], g[k - 1])
    <3>1. \A k \in 0..N : k = 0 \/ k \in 1..N
      BY <1>1
    <3> QED
      BY <1>4, <3>1
  <2>2. g = [k \in 0..N |-> g[k]]
    BY <1>3
  <2> QED
    BY <2>1, <2>2
<1>6. Is(h)
  <2> HIDE DEF Is
  <2> QED
    BY <1>5, Zenon
<1>7. Scattered(buf, v) = h[N].mem
  BY DEF Scattered, Turn, First
<1> HIDE DEF h
<1>8. h[0] = First(buf) /\ \A k \in 1..N : h[k] = Turn(buf, v[k], h[k - 1])
  <2> HIDE DEF N
  <2>1. \A k \in 0..N : h[k] = IF k = 0 THEN First(buf) ELSE Turn(buf, v[k], h[k - 1])
    BY <1>6
  <2>2. 0 \in 0..N /\ \A k \in 1..N : k \in 0..N /\ k # 0
    BY <1>1
  <2> QED
    BY <2>1, <2>2
<1>9. h \in [0..N -> State(buf)]
  <2> DEFINE T == {k \in 0..N : h[k] \in State(buf)}
  <2> HIDE DEF N
  <2>1. 0 \in T
    BY <1>1, <1>2, <1>8
  <2>2. ASSUME NEW k \in 0..N, k \in T, k < N
        PROVE  k + 1 \in T
    <3>1. k + 1 \in 1..N /\ k + 1 \in 0..N /\ (k + 1) - 1 = k
      BY <2>2, <1>1
    <3>2. h[k + 1] = Turn(buf, v[k + 1], h[k])
      BY <3>1, <1>8
    <3> QED
      BY <3>1, <3>2, <2>2, <1>1, TurnTyped
  <2> HIDE DEF T
  <2>3. 0..N \subseteq T
    BY <1>1, <2>1, <2>2, InductiveUpTo
  <2> QED
    BY <2>3, <1>6 DEF T
<1> QED
  BY <1>7, <1>8, <1>9

\* The first n bytes are in memory m at the slots s, and the later of two bytes
\* for one slot.
Landed(m, bytes, s, n) ==
  /\ m \in [Addr -> Byte]
  /\ \A a \in Addr :
       \/ (\A j \in 1..n : s[j] # a) /\ m[a] = Guest
       \/ \E j \in 1..n : s[j] = a /\ (\A i \in (j + 1)..n : s[i] # a) /\ m[a] = bytes[j]

\* Delivered is the one memory of that kind.
LEMMA LandedOnly ==
  ASSUME NEW v \in Iovs, NEW bytes, Len(bytes) \in Nat, NEW m,
         Landed(m, bytes, Slots(v), Len(bytes))
  PROVE  m = Delivered(bytes, v)
<1> DEFINE at(a) == {k \in 1..Len(bytes) : Slots(v)[k] = a}
           best(a) == CHOOSE k \in at(a) : \A j \in at(a) : j <= k
<1>1. ASSUME NEW a \in Addr
      PROVE  m[a] = IF at(a) = {} THEN Guest ELSE bytes[best(a)]
  <2>1. CASE (\A j \in 1..Len(bytes) : Slots(v)[j] # a) /\ m[a] = Guest
    BY <2>1
  <2>2. CASE \E j \in 1..Len(bytes) :
               /\ Slots(v)[j] = a /\ m[a] = bytes[j]
               /\ \A i \in (j + 1)..Len(bytes) : Slots(v)[i] # a
    <3>1. PICK j \in 1..Len(bytes) :
            /\ Slots(v)[j] = a /\ m[a] = bytes[j]
            /\ \A i \in (j + 1)..Len(bytes) : Slots(v)[i] # a
      BY <2>2
    <3>2. j \in at(a) /\ \A i \in at(a) : i <= j
      <4>1. ASSUME NEW i \in 1..Len(bytes), ~ (i <= j)
            PROVE  i \in (j + 1)..Len(bytes)
        BY <4>1
      <4> QED
        BY <3>1, <4>1
    <3>3. best(a) \in at(a) /\ \A i \in at(a) : i <= best(a)
      <4> HIDE DEF at
      <4> QED
        BY <3>2
    <3>4. best(a) <= j /\ j <= best(a) /\ best(a) \in Nat /\ j \in Nat
      <4> HIDE DEF best
      <4> QED
        BY <3>2, <3>3
    <3>5. best(a) = j
      <4> HIDE DEF best
      <4> QED
        BY <3>4
    <3> HIDE DEF at, best
    <3> QED
      BY <3>1, <3>2, <3>5
  <2> QED
    BY <2>1, <2>2 DEF Landed
<1>2. Delivered(bytes, v) = [a \in Addr |-> IF at(a) = {} THEN Guest ELSE bytes[best(a)]]
  BY DEF Delivered
<1>3. m = [a \in Addr |-> m[a]]
  BY DEF Landed
<1> HIDE DEF at, best
<1> QED
  BY <1>1, <1>2, <1>3

\* What Delivered fills is memory.
LEMMA DeliveredTyped ==
  ASSUME NEW v \in Iovs, NEW bytes \in Seq(Byte)
  PROVE  Delivered(bytes, v) \in [Addr -> Byte]
<1> DEFINE at(a) == {k \in 1..Len(bytes) : Slots(v)[k] = a}
           best(a) == CHOOSE k \in at(a) : \A j \in at(a) : j <= k
<1>1. ASSUME NEW a \in Addr, at(a) # {}
      PROVE  bytes[best(a)] \in Byte
  <2>1. Len(bytes) \in Nat /\ at(a) \in SUBSET (0..Len(bytes)) /\ at(a) \subseteq 1..Len(bytes)
    OBVIOUS
  <2>2. \E k \in at(a) : \A j \in at(a) : j <= k
    <3> HIDE DEF at
    <3> QED
      BY <1>1, <2>1, GreatestOfNats
  <2>3. best(a) \in at(a)
    <3> HIDE DEF at
    <3> QED
      BY <2>2
  <2> HIDE DEF at, best
  <2> QED
    BY <2>1, <2>3
<1>2. Delivered(bytes, v) = [a \in Addr |-> IF at(a) = {} THEN Guest ELSE bytes[best(a)]]
  BY DEF Delivered
<1>3. Guest \in Byte
  BY DEF Byte
<1> HIDE DEF at, best
<1> QED
  BY <1>1, <1>2, <1>3

\* One turn of the loop: the bytes of one more buffer land.
LEMMA TurnLands ==
  ASSUME NEW buf \in Seq(Byte), NEW b, b.buf \in Nat, b.len \in Nat,
         NEW s \in Seq(Addr), NEW st \in State(buf), Part(b) \in Seq(Addr),
         st.buf_offset = Smaller(Len(s), Len(buf)),
         Landed(st.mem, buf, s, st.buf_offset)
  PROVE  LET t == Turn(buf, b, st)
         IN  /\ t.buf_offset = Smaller(Len(s \o Part(b)), Len(buf))
             /\ Landed(t.mem, buf, s \o Part(b), t.buf_offset)
<1> DEFINE o == st.buf_offset
           n == Smaller(b.len, st.left)
           t == Turn(buf, b, st)
           u == s \o Part(b)
<1>1. /\ st.mem \in [Addr -> Byte] /\ o \in Nat /\ st.left \in Nat /\ o + st.left = Len(buf)
      /\ Len(s) \in Nat /\ Len(buf) \in Nat /\ Len(u) = Len(s) + b.len
      /\ b.buf \in Nat /\ b.len \in Nat
  BY DEF State, Part
<1>2. /\ n \in Nat /\ n <= b.len /\ n <= st.left /\ (n = b.len \/ n = st.left)
      /\ o <= Len(s) /\ (o = Len(s) \/ n = 0)
  BY <1>1 DEF Smaller
<1>3. t.buf_offset = o + n /\ t.mem \in [Addr -> Byte]
  <2>1. t \in State(buf)
    BY TurnTyped
  <2> QED
    BY <2>1 DEF State, Turn
<1>4. t.buf_offset = Smaller(Len(u), Len(buf))
  BY <1>1, <1>2, <1>3 DEF Smaller
<1>5. \A a \in Addr : t.mem[a] = IF a - b.buf \in 0..(n - 1)
                                 THEN buf[o + a - b.buf + 1] ELSE st.mem[a]
  BY DEF Turn
<1>6. \A j \in 1..o : u[j] = s[j]
  BY <1>1, <1>2 DEF Part
<1>7. \A i \in 1..n : u[o + i] = b.buf + i - 1
  BY <1>1, <1>2, SMTT(30) DEF Part
<1> HIDE DEF n, t, u, o
<1>8. ASSUME NEW a \in Addr, a - b.buf \in 0..(n - 1)
      PROVE  \E j \in 1..(o + n) : /\ u[j] = a /\ (\A i \in (j + 1)..(o + n) : u[i] # a)
                                   /\ t.mem[a] = buf[j]
  <2>1. a \in Nat
    BY IovAssumption
  <2> DEFINE j == o + a - b.buf + 1
             k == a - b.buf + 1
  <2>2. k \in 1..n /\ j = o + k /\ b.buf + k - 1 = a
    <3>1. ASSUME NEW x \in Nat, NEW y \in Nat, NEW c \in Nat, x - y \in 0..(c - 1)
          PROVE  x - y + 1 \in 1..c
      BY <3>1
    <3> HIDE DEF j, k
    <3>2. a - b.buf + 1 \in 1..n
      BY <3>1, <1>1, <1>2, <1>8, <2>1
    <3>3. b.buf + (a - b.buf + 1) - 1 = a
      BY <1>1, <2>1
    <3>4. o + a - b.buf + 1 = o + (a - b.buf + 1)
      BY <1>1, <2>1
    <3> QED
      BY <3>2, <3>3, <3>4 DEF j, k
  <2>3. t.mem[a] = buf[j]
    BY <1>5, <1>8
  <2> HIDE DEF j, k
  <2>4. j \in 1..(o + n) /\ u[j] = a
    BY <1>1, <1>2, <1>7, <2>2
  <2>5. ASSUME NEW i \in (j + 1)..(o + n)
        PROVE  u[i] # a
    <3>1. i - o \in 1..n /\ o + (i - o) = i /\ i - o > k
      BY <1>1, <1>2, <2>2
    <3>2. u[i] = b.buf + (i - o) - 1
      BY <1>7, <3>1
    <3>3. b.buf \in Nat /\ k \in Nat /\ b.buf + k - 1 = a
      BY <1>1, <1>2, <2>2
    <3> QED
      BY <3>1, <3>2, <3>3
  <2> QED
    BY <2>3, <2>4, <2>5
<1>9. ASSUME NEW a \in Addr, a - b.buf \notin 0..(n - 1)
      PROVE  \A i \in (o + 1)..(o + n) : u[i] # a
  <2>1. a \in Nat
    BY IovAssumption
  <2>2. ASSUME NEW i \in (o + 1)..(o + n)
        PROVE  u[i] # a
    <3>1. o \in Nat /\ n \in Nat /\ b.buf \in Nat
      BY <1>1, <1>2
    <3>2. i - o \in 1..n /\ o + (i - o) = i
      BY <3>1
    <3>3. u[i] = b.buf + (i - o) - 1
      BY <1>7, <3>2
    <3> QED
      BY <1>9, <2>1, <3>1, <3>2, <3>3
  <2> QED
    BY <2>2
<1>10. ASSUME NEW a \in Addr, a - b.buf \notin 0..(n - 1)
       PROVE  \/ (\A j \in 1..(o + n) : u[j] # a) /\ t.mem[a] = Guest
              \/ \E j \in 1..(o + n) : /\ u[j] = a /\ t.mem[a] = buf[j]
                                       /\ (\A i \in (j + 1)..(o + n) : u[i] # a)
  <2>1. t.mem[a] = st.mem[a]
    BY <1>5, <1>10
  <2>2. \A i \in (o + 1)..(o + n) : u[i] # a
    BY <1>9, <1>10
  <2>3. \A i \in 1..(o + n) : i \in 1..o \/ i \in (o + 1)..(o + n)
    BY <1>1, <1>2
  <2>4. CASE (\A j \in 1..o : s[j] # a) /\ st.mem[a] = Guest
    BY <2>1, <2>2, <2>3, <2>4, <1>6
  <2>5. CASE \E j \in 1..o : /\ s[j] = a /\ st.mem[a] = buf[j]
                             /\ (\A i \in (j + 1)..o : s[i] # a)
    <3>1. PICK j \in 1..o : /\ s[j] = a /\ st.mem[a] = buf[j]
                            /\ (\A i \in (j + 1)..o : s[i] # a)
      BY <2>5
    <3>2. j \in 1..(o + n) /\ u[j] = a
      BY <3>1, <1>1, <1>2, <1>6
    <3>3. ASSUME NEW i \in (j + 1)..(o + n)
          PROVE  u[i] # a
      <4>1. i \in (o + 1)..(o + n) \/ (i \in (j + 1)..o /\ i \in 1..o)
        BY <1>1, <1>2
      <4> QED
        BY <4>1, <2>2, <3>1, <1>6
    <3> QED
      BY <3>1, <3>2, <3>3, <2>1
  <2> QED
    BY <2>4, <2>5 DEF Landed, o
<1>11. Landed(t.mem, buf, u, o + n)
  BY <1>3, <1>8, <1>10 DEF Landed
<1> QED
  BY <1>3, <1>4, <1>11 DEF t, u

\* For every vector of buffers: the loop is readv(2).
LEMMA ScatteredIsDelivered ==
  ASSUME NEW v \in Iovs, NEW buf \in Seq(Byte), Len(buf) <= Total(v)
  PROVE  Scattered(buf, v) = Delivered(buf, v)
<1> DEFINE N == Len(v)
<1>1. PICK f : /\ f \in [0..N -> Seq(Addr)] /\ f[0] = <<>>
               /\ \A k \in 1..N : f[k] = f[k - 1] \o Part(v[k])
               /\ Slots(v) = f[N]
  BY SlotsDef
<1>2. PICK h : /\ h \in [0..N -> State(buf)] /\ h[0] = First(buf)
               /\ \A k \in 1..N : h[k] = Turn(buf, v[k], h[k - 1])
               /\ Scattered(buf, v) = h[N].mem
  BY ScatteredDef
<1>3. /\ N \in Nat
      /\ \A k \in 1..N : v[k].buf \in Nat /\ v[k].len \in Nat /\ Part(v[k]) \in Seq(Addr)
  BY IovTyped
<1> DEFINE OK(k) == /\ h[k].buf_offset = Smaller(Len(f[k]), Len(buf))
                    /\ Landed(h[k].mem, buf, f[k], h[k].buf_offset)
           T == {k \in 0..N : OK(k)}
<1> HIDE DEF N
<1>4. 0 \in T
  <2>1. h[0].buf_offset = 0 /\ h[0].mem = Filled /\ Len(f[0]) = 0 /\ Len(buf) \in Nat
    BY <1>1, <1>2 DEF First
  <2>2. Landed(Filled, buf, f[0], 0)
    BY DEF Landed, Filled, Byte, Guest
  <2>3. OK(0)
    BY <2>1, <2>2 DEF Smaller
  <2> HIDE DEF OK
  <2> QED
    BY <2>3, <1>3
<1>5. ASSUME NEW k \in 0..N, k \in T, k < N
      PROVE  k + 1 \in T
  <2>1. k + 1 \in 1..N /\ k + 1 \in 0..N /\ (k + 1) - 1 = k
    BY <1>3, <1>5
  <2>2. /\ h[k + 1] = Turn(buf, v[k + 1], h[k]) /\ f[k + 1] = f[k] \o Part(v[k + 1])
        /\ h[k] \in State(buf) /\ f[k] \in Seq(Addr)
    BY <1>1, <1>2, <2>1
  <2>3. /\ v[k + 1].buf \in Nat /\ v[k + 1].len \in Nat /\ Part(v[k + 1]) \in Seq(Addr)
    BY <1>3, <2>1
  <2>4. /\ h[k].buf_offset = Smaller(Len(f[k]), Len(buf))
        /\ Landed(h[k].mem, buf, f[k], h[k].buf_offset)
    BY <1>5
  <2>5. /\ Turn(buf, v[k + 1], h[k]).buf_offset
             = Smaller(Len(f[k] \o Part(v[k + 1])), Len(buf))
        /\ Landed(Turn(buf, v[k + 1], h[k]).mem, buf, f[k] \o Part(v[k + 1]),
                  Turn(buf, v[k + 1], h[k]).buf_offset)
    BY <2>2, <2>3, <2>4, TurnLands
  <2>6. OK(k + 1)
    BY <2>2, <2>5
  <2> HIDE DEF OK
  <2> QED
    BY <2>1, <2>6
<1> HIDE DEF OK, T
<1>6. 0..N \subseteq T
  BY <1>3, <1>4, <1>5, InductiveUpTo
<1>7. OK(N)
  BY <1>3, <1>6 DEF T
<1>8. Len(buf) \in Nat /\ Len(Slots(v)) \in Nat /\ Len(buf) <= Len(Slots(v))
  BY SlotsTyped DEF Total
<1>9. h[N].buf_offset = Len(buf)
  BY <1>1, <1>7, <1>8 DEF OK, Smaller
<1>10. Landed(Scattered(buf, v), buf, Slots(v), Len(buf))
  BY <1>1, <1>2, <1>7, <1>9 DEF OK
<1> QED
  BY <1>8, <1>10, LandedOnly

----------------------------------------------------------------------------
(* The host kernel *)

Errnos == {"ESUCCESS", "EBADF", "ENOTCAPABLE", "EFAULT", "EIO", "EINVAL",
           "ESPIPE", "EFBIG", "E2BIG", "EHOST"}

\* A read moves no more than it may, and none beyond the end of the file.
LEMMA BytesRead ==
  ASSUME TypeOK, NEW pos \in Nat, NEW room \in Nat,
         NEW n \in Short(Len(BytesAt(pos, room)))
  PROVE  /\ n \in Nat /\ n <= room /\ (n # 0 => pos + n <= Len(data))
         /\ BytesAt(pos, n) \in Seq(Byte) /\ Len(BytesAt(pos, n)) = n
<1>1. data \in Seq(Byte) /\ Len(data) \in Nat
  BY DEF TypeOK
<1>2. ASSUME NEW k \in Nat
      PROVE  /\ BytesAt(pos, k) \in Seq(Byte)
             /\ Len(BytesAt(pos, k)) = IF pos + k <= Len(data) THEN k
                                       ELSE IF pos <= Len(data) THEN Len(data) - pos ELSE 0
  <2> DEFINE to == Smaller(pos + k, Len(data))
  <2>1. to \in Nat /\ to <= Len(data) /\ (to = pos + k \/ to = Len(data)) /\ to <= pos + k
    BY <1>1 DEF Smaller
  <2>2. BytesAt(pos, k) = SubSeq(data, pos + 1, to)
    BY DEF BytesAt
  <2> HIDE DEF to
  <2>3. \A i \in (pos + 1)..to : i \in 1..Len(data)
    BY <1>1, <2>1
  <2>4. CASE pos <= to
    <3>1. SubSeq(data, pos + 1, to) \in Seq(Byte) /\ Len(SubSeq(data, pos + 1, to)) = to - pos
      BY <1>1, <2>1, <2>4
    <3> QED
      BY <1>1, <2>1, <2>2, <2>4, <3>1
  <2>5. CASE ~(pos <= to)
    <3>1. SubSeq(data, pos + 1, to) = <<>>
      BY <1>1, <2>1, <2>5
    <3>2. ~(pos + k <= Len(data)) /\ ~(pos <= Len(data))
      BY <1>1, <2>1, <2>5
    <3>3. <<>> \in Seq(Byte) /\ Len(<<>>) = 0
      OBVIOUS
    <3> QED
      BY <2>2, <3>1, <3>2, <3>3
  <2> QED
    BY <2>4, <2>5
<1>3. n \in Nat /\ n <= Len(BytesAt(pos, room)) /\ Len(BytesAt(pos, room)) \in Nat
  <2> DEFINE l == Len(BytesAt(pos, room))
  <2>1. l \in Nat
    BY <1>1, <1>2
  <2> HIDE DEF l
  <2>2. n \in Short(l)
    BY DEF l
  <2>3. n \in Nat /\ n <= l
    BY <2>1, <2>2 DEF Short
  <2> QED
    BY <2>1, <2>3 DEF l
<1>4. n <= room /\ (n # 0 => pos + n <= Len(data))
  <2> DEFINE l == Len(BytesAt(pos, room))
  <2>1. l = IF pos + room <= Len(data) THEN room
            ELSE IF pos <= Len(data) THEN Len(data) - pos ELSE 0
    BY <1>2
  <2>2. n \in Nat /\ n <= l
    BY <1>3
  <2> HIDE DEF l
  <2> QED
    BY <1>1, <2>1, <2>2
<1>5. Len(BytesAt(pos, n)) = n
  BY <1>1, <1>2, <1>3, <1>4
<1> QED
  BY <1>2, <1>3, <1>4, <1>5

LEMMA PaddedTyped ==
  ASSUME NEW bytes \in Seq(Byte), NEW n \in Nat
  PROVE  Padded(bytes, n) \in Seq(Byte) /\ Len(Padded(bytes, n)) = n
<1>1. ASSUME NEW k \in 1..n
      PROVE  (IF k <= Len(bytes) THEN bytes[k] ELSE Hole) \in Byte
  BY DEF Byte
<1> QED
  BY <1>1 DEF Padded

LEMMA OverwrittenTyped ==
  ASSUME TypeOK, NEW pos \in Nat, NEW bytes \in Seq(Byte), pos + Len(bytes) <= MAX
  PROVE  Overwritten(pos, bytes) \in Seq(Byte) /\ Len(Overwritten(pos, bytes)) <= MAX
<1>1. data \in Seq(Byte) /\ Len(data) \in Nat /\ Len(data) <= MAX /\ MAX \in Nat
  BY FileAssumption DEF TypeOK
<1>2. CASE bytes = <<>>
  BY <1>1, <1>2 DEF Overwritten
<1>3. CASE bytes # <<>>
  <2> DEFINE n == Larger(Len(data), pos + Len(bytes))
             f == [k \in 1..n |-> IF k - pos \in 1..Len(bytes) THEN bytes[k - pos]
                                  ELSE Padded(data, n)[k]]
  <2>1. n \in Nat /\ n <= MAX
    BY <1>1 DEF Larger
  <2>2. Overwritten(pos, bytes) = f
    BY <1>3 DEF Overwritten
  <2> HIDE DEF n
  <2>3. Padded(data, n) \in Seq(Byte) /\ Len(Padded(data, n)) = n
    BY <1>1, <2>1, PaddedTyped
  <2>4. ASSUME NEW k \in 1..n
        PROVE  f[k] \in Byte
    BY <2>3
  <2>5. f \in Seq(Byte) /\ Len(f) = n
    BY <2>1, <2>4
  <2> HIDE DEF f
  <2> QED
    BY <2>1, <2>2, <2>5
<1> QED
  BY <1>2, <1>3

----------------------------------------------------------------------------
(* What a handler may come to *)

\* What the rights say of the entry a handler goes on with.
LEMMA EntryTyped ==
  ASSUME TypeOK, NEW fd \in DOMAIN fds
  PROVE  fd \in Fd /\ fds[fd] \in Entry /\ fds[fd].desc \in Desc
<1>1. fds[fd] \in Entry /\ fd \in Fd
  BY FileAssumption DEF TypeOK
<1> QED
  BY <1>1 DEF Entry

LEMMA AllowedEntry ==
  ASSUME NEW fd, NEW rights, Denied(fd, rights) = "ESUCCESS"
  PROVE  fd \in DOMAIN fds /\ rights \subseteq fds[fd].rights_base
BY DEF Denied

LEMMA DeniedTyped ==
  ASSUME NEW fd, NEW rights
  PROVE  Denied(fd, rights) \in Errnos
BY DEF Denied, Errnos

\* A call begins, and ends with what it has done to the host.
Calls(op, fd, arg) == Begin(op, fd, arg) /\ op \in Op /\ wanted' = NoSize /\ ret' \in Errnos

LEMMA BeginTyped ==
  ASSUME TypeOK, NEW op, NEW fd, NEW arg, Begin(op, fd, arg)
  PROVE  op \in Op
<1>1. Ops[fds] \in SUBSET Op
  BY FileAssumption DEF TypeOK
<1> QED
  BY <1>1 DEF Begin

\* What is so after any call whose effect on the host keeps the types.
LEMMA CallTyped ==
  ASSUME TypeOK, NEW op, NEW fd, NEW arg, Calls(op, fd, arg),
         data' \in Seq(Byte), Len(data') <= MAX, offset' \in [Desc -> 0..MAX],
         flags' \in [Desc -> SUBSET FdFlag],
         times' \in [atim : {"old", "now", "given"}, mtim : {"old", "now", "given"}],
         mem' \in [Addr -> Byte], got' \in Seq(Byte),
         IF got' = <<>> THEN mem' = Filled ELSE mem' = Delivered(got', arg)
  PROVE  IInv' /\ call'.op = op /\ call'.fd = fd /\ call'.arg = arg
               /\ fds' = fds /\ others' = others /\ call'.others = others
<1>1. /\ fds' = fds /\ others' = others /\ call'.op = op /\ call'.fd = fd
      /\ call'.arg = arg /\ call'.others = others /\ call'.size = Len(data)
  BY DEF Calls, Begin
<1>2. Len(data) \in 0..MAX
  BY FileAssumption DEF TypeOK
<1>3. others \in 0..MaxOthers /\ MaxOthers \in Nat /\ others \in 0..others
  BY FileAssumption DEF TypeOK
<1>4. TypeOK'
  BY <1>1, <1>2, <1>3 DEF TypeOK, Calls, Errnos
<1>5. ReadsLand'
  BY <1>1 DEF ReadsLand
<1>6. Allocating'
  BY DEF Allocating, Calls
<1> QED
  BY <1>1, <1>4, <1>5, <1>6 DEF IInv

\* What keeps the file, and what makes it another with the same beginning.
LEMMA KeepsPrefix ==
  ASSUME TypeOK, TypeOK', call'.size <= Len(data) => call'.size <= Len(data'),
         call'.size >= Len(data) => Len(data) <= Len(data'),
         \A k \in 1..Len(data) : k <= Len(data') => data'[k] = data[k]
  PROVE  Keeps
<1> DEFINE n == Smaller(Len(data), call'.size)
           s == SubSeq(data, 1, n)
<1>1. /\ data \in Seq(Byte) /\ data' \in Seq(Byte)
      /\ Len(data) \in Nat /\ Len(data') \in Nat /\ call'.size \in Nat
  BY FileAssumption DEF TypeOK
<1>2. n \in Nat /\ n <= Len(data) /\ n <= Len(data')
  BY <1>1 DEF Smaller
<1> HIDE DEF n
<1>3. Len(s) = n /\ s = [k \in 1..n |-> data[k]]
  BY <1>1, <1>2
<1>4. SubSeq(data', 1, n) = [k \in 1..n |-> data'[k]]
  BY <1>1, <1>2
<1>5. SubSeq(s, 1, n) = s
  BY <1>1, <1>2, <1>3
<1>6. s = SubSeq(data', 1, n)
  BY <1>1, <1>2, <1>3, <1>4
<1> HIDE DEF s
<1>7. IsPrefix(s, data')
  BY <1>2, <1>3, <1>5, <1>6 DEF IsPrefix
<1> QED BY <1>7 DEF Keeps, s, n

LEMMA SameKeeps ==
  ASSUME TypeOK, TypeOK', data' = data
  PROVE  Keeps
<1>1. Len(data) \in Nat
  BY DEF TypeOK
<1> QED BY <1>1, KeepsPrefix

LEMMA FilledTyped == Filled \in [Addr -> Byte] /\ <<>> \in Seq(Byte)
BY DEF Filled, Byte

\* A call that leaves the host alone and brings no bytes.
LEMMA QuietGood ==
  ASSUME IInv, NEW op, NEW fd, NEW arg, Calls(op, fd, arg), NoBytes, UNCHANGED host
  PROVE  Good
<1>1. TypeOK
  BY DEF IInv
<1>2. UNCHANGED <<data, offset, flags, times>>
  BY DEF host
<1>3. mem' = Filled /\ got' = <<>> /\ mem' \in [Addr -> Byte] /\ got' \in Seq(Byte)
  BY FilledTyped DEF NoBytes
<1>4. IInv'
  BY <1>1, <1>2, <1>3, CallTyped DEF TypeOK
<1>5. Respects
  BY <1>2, <1>3 DEF Respects
<1>6. Keeps
  BY <1>1, <1>2, <1>4, SameKeeps DEF IInv
<1> QED
  BY <1>4, <1>5, <1>6 DEF Good

LEMMA FailsGood ==
  ASSUME IInv, NEW op, NEW fd, NEW arg, Begin(op, fd, arg), NEW e \in Errnos, Fails(e)
  PROVE  Good
<1>1. Calls(op, fd, arg) /\ NoBytes /\ UNCHANGED host
  BY BeginTyped DEF IInv, Fails, Ends, Calls
<1> QED
  BY <1>1, QuietGood

LEMMA ObservedGood ==
  ASSUME IInv, NEW op, NEW fd, NEW arg, Begin(op, fd, arg), Observed
  PROVE  Good
<1>1. Calls(op, fd, arg) /\ NoBytes /\ UNCHANGED host
  BY BeginTyped DEF IInv, Observed, Result, Calls, Errnos
<1> QED
  BY <1>1, QuietGood

----------------------------------------------------------------------------
(* Reading *)

LEMMA NothingDelivered ==
  ASSUME NEW v \in Iovs
  PROVE  Delivered(<<>>, v) = Filled
<1>1. Landed(Filled, <<>>, Slots(v), 0)
  BY FilledTyped DEF Landed, Filled
<1>2. Len(<<>>) = 0
  OBVIOUS
<1> QED
  BY <1>1, <1>2, LandedOnly

\* Bytes that land where readv(2) puts them, through an entry that may read.
LEMMA BytesGood ==
  ASSUME IInv, NEW op, NEW fd \in DOMAIN fds, NEW v \in Iovs, Begin(op, fd, v), Result,
         "FD_READ" \in fds[fd].rights_base,
         got' \in Seq(Byte), mem' = Delivered(got', v), UNCHANGED <<data, flags, times>>,
         offset' \in [Desc -> 0..MAX],
         \A d \in Desc : offset'[d] # offset[d] =>
           d = fds[fd].desc /\ offset'[d] = offset[d] + Len(got')
  PROVE  Good
<1>1. TypeOK
  BY DEF IInv
<1>2. Calls(op, fd, v)
  BY <1>1, BeginTyped DEF Result, Calls, Errnos
<1>3. mem' \in [Addr -> Byte]
  BY DeliveredTyped
<1>4. IF got' = <<>> THEN mem' = Filled ELSE mem' = Delivered(got', v)
  BY NothingDelivered
<1>5. IInv' /\ call'.op = op /\ call'.fd = fd /\ call'.arg = v
  BY <1>1, <1>2, <1>3, <1>4, CallTyped DEF TypeOK
<1>6. Respects
  BY <1>5 DEF Respects, Can
<1>7. Keeps
  BY <1>1, <1>5, SameKeeps DEF IInv
<1> QED
  BY <1>5, <1>6, <1>7 DEF Good

LEMMA TerminalGood ==
  ASSUME IInv, NEW op, NEW fd \in DOMAIN fds, NEW v \in Iovs, Begin(op, fd, v),
         "FD_READ" \in fds[fd].rights_base, FromTerminal(v)
  PROVE  Good
<1>1. PICK n \in 0..Total(v) : /\ Result /\ got' = [k \in 1..n |-> Other]
                               /\ mem' = Delivered(got', v) /\ UNCHANGED host
  BY DEF FromTerminal
<1>2. got' \in Seq(Byte)
  <2>1. n \in Nat
    BY SlotsTyped
  <2> QED
    BY <1>1, <2>1 DEF Byte
<1>3. offset' \in [Desc -> 0..MAX] /\ offset' = offset /\ UNCHANGED <<data, flags, times>>
  BY <1>1 DEF IInv, TypeOK, host
<1> QED
  BY <1>1, <1>2, <1>3, BytesGood

LEMMA ReadVectoredGood ==
  ASSUME IInv, NEW op, NEW fd \in DOMAIN fds, NEW v \in Iovs, Begin(op, fd, v),
         "FD_READ" \in fds[fd].rights_base, read_vectored(fds[fd].desc, v)
  PROVE  Good
<1> DEFINE d == fds[fd].desc
<1>1. TypeOK /\ d \in Desc /\ offset \in [Desc -> 0..MAX] /\ MAX \in Nat /\ Total(v) \in Nat
  BY EntryTyped, SlotsTyped, FileAssumption DEF IInv, TypeOK
<1>2. CASE Fails("EBADF")
  BY <1>2, FailsGood DEF Errnos
<1>3. CASE FromTerminal(v)
  BY <1>3, TerminalGood
<1>4. CASE \E n \in Short(Len(BytesAt(offset[d], Total(v)))) :
             /\ Result /\ got' = BytesAt(offset[d], n) /\ mem' = Delivered(got', v)
             /\ offset' = [offset EXCEPT ![d] = @ + n]
             /\ UNCHANGED <<data, flags, times>>
  <2>1. PICK n \in Short(Len(BytesAt(offset[d], Total(v)))) :
             /\ Result /\ got' = BytesAt(offset[d], n) /\ mem' = Delivered(got', v)
             /\ offset' = [offset EXCEPT ![d] = @ + n]
             /\ UNCHANGED <<data, flags, times>>
    BY <1>4
  <2>2. offset[d] \in Nat /\ offset[d] <= MAX /\ Len(data) \in Nat /\ Len(data) <= MAX
    BY <1>1 DEF TypeOK
  <2>3. /\ n \in Nat /\ (n # 0 => offset[d] + n <= Len(data))
        /\ got' \in Seq(Byte) /\ Len(got') = n
    BY <1>1, <2>1, <2>2, BytesRead
  <2>4. offset[d] + n \in 0..MAX
    BY <1>1, <2>2, <2>3
  <2> HIDE DEF d
  <2>5. offset' \in [Desc -> 0..MAX]
    BY <1>1, <2>1, <2>4
  <2>6. \A e \in Desc : offset'[e] # offset[e] => e = d /\ offset'[e] = offset[e] + Len(got')
    BY <1>1, <2>1, <2>3
  <2> QED
    BY <2>1, <2>3, <2>5, <2>6, BytesGood DEF d
<1> QED
  BY <1>2, <1>3, <1>4 DEF read_vectored

LEMMA ReadAtGood ==
  ASSUME IInv, NEW op, NEW fd \in DOMAIN fds, NEW v \in Iovs, NEW pos \in Nat,
         Begin(op, fd, v), "FD_READ" \in fds[fd].rights_base,
         read_at(fds[fd].desc, v, pos)
  PROVE  Good
<1>1. TypeOK /\ Total(v) \in Nat
  BY SlotsTyped DEF IInv
<1>2. CASE Fails("EBADF") \/ Fails("ESPIPE")
  BY <1>2, FailsGood DEF Errnos
<1>3. CASE \E n \in Short(Len(BytesAt(pos, Total(v)))) :
             /\ Result /\ got' = BytesAt(pos, n) /\ mem' = Scattered(got', v)
             /\ UNCHANGED host
  <2>1. PICK n \in Short(Len(BytesAt(pos, Total(v)))) :
             /\ Result /\ got' = BytesAt(pos, n) /\ mem' = Scattered(got', v)
             /\ UNCHANGED host
    BY <1>3
  <2>2. n <= Total(v) /\ got' \in Seq(Byte) /\ Len(got') = n
    BY <1>1, <2>1, BytesRead
  <2>3. mem' = Delivered(got', v)
    BY <2>1, <2>2, ScatteredIsDelivered
  <2>4. offset' \in [Desc -> 0..MAX] /\ offset' = offset /\ UNCHANGED <<data, flags, times>>
    BY <1>1, <2>1 DEF TypeOK, host
  <2> QED
    BY <2>1, <2>2, <2>3, <2>4, BytesGood
<1> QED
  BY <1>2, <1>3 DEF read_at

LEMMA FdReadGood ==
  ASSUME IInv, NEW fd \in Fd, NEW v \in Iovs, fd_read(fd, v)
  PROVE  Good
<1>1. Begin("fd_read", fd, v)
  BY DEF fd_read
<1>2. \A e \in Errnos : Fails(e) => Good
  BY <1>1, FailsGood
<1>3. ASSUME Denied(fd, {"FD_READ"}) = "ESUCCESS",
             \/ fds[fd].descriptor = "File" /\ read_vectored(fds[fd].desc, v)
             \/ fds[fd].descriptor = "Stdin" /\ FromTerminal(v)
             \/ fds[fd].descriptor \in {"Stdout", "Stderr"} /\ Fails("EBADF")
      PROVE  Good
  <2>1. fd \in DOMAIN fds /\ "FD_READ" \in fds[fd].rights_base
    BY <1>3, AllowedEntry
  <2> QED
    BY <1>1, <1>2, <1>3, <2>1, ReadVectoredGood, TerminalGood DEF Errnos
<1> QED
  BY <1>2, <1>3, DeniedTyped DEF fd_read, Checked, Errnos

LEMMA FdPreadGood ==
  ASSUME IInv, NEW fd \in Fd, NEW v \in Iovs, NEW pos \in Sizes, fd_pread(fd, v, pos)
  PROVE  Good
<1>1. Begin("fd_pread", fd, v) /\ pos \in Nat
  BY FileAssumption DEF fd_pread, filesize
<1>2. \A e \in Errnos : Fails(e) => Good
  BY <1>1, FailsGood
<1>3. ASSUME Denied(fd, {"FD_READ"}) = "ESUCCESS", read_at(fds[fd].desc, v, pos)
      PROVE  Good
  <2>1. fd \in DOMAIN fds /\ "FD_READ" \in fds[fd].rights_base
    BY <1>3, AllowedEntry
  <2> QED
    BY <1>1, <1>3, <2>1, ReadAtGood
<1> QED
  BY <1>2, <1>3, DeniedTyped DEF fd_pread, Checked, OnFile, Errnos

----------------------------------------------------------------------------
(* Writing *)

\* The guest's bytes at a place of the file with room for them, by a call that
\* may write, or by fd_pwrite.
LEMMA WrittenGood ==
  ASSUME IInv, NEW op, NEW fd \in DOMAIN fds, NEW arg, Begin(op, fd, arg),
         op # "fd_allocate", Result, NoBytes,
         NEW d \in Desc, NEW pos \in Nat, NEW n \in Nat, WritePos(d, pos) + n <= MAX,
         WrittenAt(d, pos, n), UNCHANGED <<flags, times>>,
         offset' \in [Desc -> 0..MAX], \A e \in Desc : offset'[e] # offset[e] => e = fds[fd].desc,
         "FD_WRITE" \in fds[fd].rights_base \/ (op = "fd_pwrite" /\ offset' = offset)
  PROVE  Good
<1>1. TypeOK /\ data \in Seq(Byte)
  BY DEF IInv, TypeOK
<1>2. Calls(op, fd, arg)
  BY <1>1, BeginTyped DEF Result, Calls, Errnos
<1>3. WritePos(d, pos) \in Nat
  BY <1>1 DEF WritePos
<1>4. data' \in Seq(Byte) /\ Len(data') <= MAX
  <2> DEFINE bytes == [k \in 1..n |-> Guest]
  <2>1. bytes \in Seq(Byte) /\ Len(bytes) = n
    BY DEF Byte
  <2>2. data' = Overwritten(WritePos(d, pos), bytes)
    BY DEF WrittenAt
  <2> HIDE DEF bytes
  <2> QED
    BY <1>1, <1>3, <2>1, <2>2, OverwrittenTyped
<1>5. /\ mem' = Filled /\ got' = <<>> /\ mem' \in [Addr -> Byte] /\ got' \in Seq(Byte)
  BY FilledTyped DEF NoBytes
<1>6. /\ IInv' /\ call'.op = op /\ call'.fd = fd
  BY <1>1, <1>2, <1>4, <1>5, CallTyped DEF TypeOK
<1>7. Respects
  BY <1>5, <1>6 DEF Respects, Can
<1>8. Keeps
  BY <1>6 DEF Keeps
<1> QED
  BY <1>6, <1>7, <1>8 DEF Good

\* How many bytes a write takes.
LEMMA RoomTaken ==
  ASSUME NEW total \in Nat, NEW room \in Int, total # 0, ~(room <= 0),
         NEW n \in Short(Smaller(total, room))
  PROVE  n \in Nat /\ n <= room
BY DEF Short, Smaller

LEMMA WriteVectoredGood ==
  ASSUME IInv, NEW op, NEW fd \in DOMAIN fds, NEW v \in Iovs, Begin(op, fd, v),
         op # "fd_allocate", "FD_WRITE" \in fds[fd].rights_base,
         write_vectored(fds[fd].desc, v)
  PROVE  Good
<1> DEFINE d == fds[fd].desc
<1>1. /\ TypeOK /\ d \in Desc /\ offset \in [Desc -> 0..MAX] /\ MAX \in Nat
      /\ Total(v) \in Nat /\ offset[d] \in Nat
  BY EntryTyped, SlotsTyped, FileAssumption DEF IInv, TypeOK
<1>2. CASE Fails("EBADF") \/ Fails("EFBIG")
  BY <1>2, FailsGood DEF Errnos
<1>3. CASE Observed
  BY <1>3, ObservedGood
<1>4. CASE /\ Total(v) # 0 /\ ~(Room(d, offset[d]) <= 0)
           /\ \E n \in Short(Smaller(Total(v), Room(d, offset[d]))) :
                /\ Result /\ NoBytes /\ WrittenAt(d, offset[d], n)
                /\ offset' = [offset EXCEPT ![d] = WritePos(d, @) + n]
                /\ UNCHANGED <<flags, times>>
  <2>1. PICK n \in Short(Smaller(Total(v), Room(d, offset[d]))) :
                /\ Result /\ NoBytes /\ WrittenAt(d, offset[d], n)
                /\ offset' = [offset EXCEPT ![d] = WritePos(d, @) + n]
                /\ UNCHANGED <<flags, times>>
    BY <1>4
  <2> HIDE DEF d
  <2>2. WritePos(d, offset[d]) \in Nat
    BY <1>1 DEF WritePos, TypeOK
  <2>3. Room(d, offset[d]) = MAX - WritePos(d, offset[d]) /\ Room(d, offset[d]) \in Int
    BY <1>1, <2>2 DEF Room
  <2>4. n \in Nat /\ n <= Room(d, offset[d])
    BY <1>1, <1>4, <2>3, RoomTaken
  <2>5. WritePos(d, offset[d]) + n \in 0..MAX
    BY <1>1, <2>2, <2>3, <2>4
  <2>6. offset' = [offset EXCEPT ![d] = WritePos(d, offset[d]) + n]
    BY <2>1
  <2>7. offset' \in [Desc -> 0..MAX] /\ \A e \in Desc : offset'[e] # offset[e] => e = d
    BY <1>1, <2>5, <2>6
  <2>8. WritePos(d, offset[d]) + n <= MAX
    BY <2>5
  <2> QED
    BY <1>1, <2>1, <2>4, <2>7, <2>8, WrittenGood DEF d
<1> QED
  BY <1>2, <1>3, <1>4 DEF write_vectored

LEMMA WriteAtGood ==
  ASSUME IInv, NEW fd \in DOMAIN fds, NEW v \in Iovs, NEW pos \in Nat,
         Begin("fd_pwrite", fd, v), write_at(fds[fd].desc, v, pos)
  PROVE  Good
<1> DEFINE d == fds[fd].desc
<1>1. /\ TypeOK /\ d \in Desc /\ offset \in [Desc -> 0..MAX] /\ MAX \in Nat /\ Total(v) \in Nat
  BY EntryTyped, SlotsTyped, FileAssumption DEF IInv, TypeOK
<1>2. CASE Fails("EBADF") \/ Fails("ESPIPE") \/ Fails("EFBIG")
  BY <1>2, FailsGood DEF Errnos
<1>3. CASE Observed
  BY <1>3, ObservedGood
<1>4. CASE /\ Total(v) # 0 /\ ~(Room(d, pos) <= 0)
           /\ \E n \in Short(Smaller(Total(v), Room(d, pos))) :
                /\ Result /\ NoBytes /\ WrittenAt(d, pos, n)
                /\ UNCHANGED <<offset, flags, times>>
  <2>1. PICK n \in Short(Smaller(Total(v), Room(d, pos))) :
                /\ Result /\ NoBytes /\ WrittenAt(d, pos, n)
                /\ UNCHANGED <<offset, flags, times>>
    BY <1>4
  <2> HIDE DEF d
  <2>2. WritePos(d, pos) \in Nat
    BY <1>1 DEF WritePos, TypeOK
  <2>3. Room(d, pos) = MAX - WritePos(d, pos) /\ Room(d, pos) \in Int
    BY <1>1, <2>2 DEF Room
  <2>4. n \in Nat /\ n <= Room(d, pos)
    BY <1>1, <1>4, <2>3, RoomTaken
  <2>5. WritePos(d, pos) + n <= MAX
    BY <1>1, <2>2, <2>3, <2>4
  <2>6. offset' \in [Desc -> 0..MAX] /\ offset' = offset
    BY <1>1, <2>1
  <2> QED
    BY <1>1, <2>1, <2>4, <2>5, <2>6, WrittenGood
<1> QED
  BY <1>2, <1>3, <1>4 DEF write_at

LEMMA FdWriteGood ==
  ASSUME IInv, NEW fd \in Fd, NEW v \in Iovs, fd_write(fd, v)
  PROVE  Good
<1>1. Begin("fd_write", fd, v)
  BY DEF fd_write
<1>2. \A e \in Errnos : Fails(e) => Good
  BY <1>1, FailsGood
<1>3. Observed => Good
  BY <1>1, ObservedGood
<1>4. ASSUME Denied(fd, {"FD_WRITE"}) = "ESUCCESS", write_vectored(fds[fd].desc, v)
      PROVE  Good
  <2>1. fd \in DOMAIN fds /\ "FD_WRITE" \in fds[fd].rights_base
    BY <1>4, AllowedEntry
  <2> QED
    BY <1>1, <1>4, <2>1, WriteVectoredGood
<1> QED
  BY <1>2, <1>3, <1>4, DeniedTyped DEF fd_write, Checked, Errnos

LEMMA FdPwriteGood ==
  ASSUME IInv, NEW fd \in Fd, NEW v \in Iovs, NEW pos \in Sizes, fd_pwrite(fd, v, pos)
  PROVE  Good
<1>1. Begin("fd_pwrite", fd, v) /\ pos \in Nat
  BY FileAssumption DEF fd_pwrite, filesize
<1>2. \A e \in Errnos : Fails(e) => Good
  BY <1>1, FailsGood
<1>3. ASSUME Denied(fd, {"FD_READ"}) = "ESUCCESS", write_at(fds[fd].desc, v, pos)
      PROVE  Good
  <2>1. fd \in DOMAIN fds
    BY <1>3, AllowedEntry
  <2> QED
    BY <1>1, <1>3, <2>1, WriteAtGood
<1> QED
  BY <1>2, <1>3, DeniedTyped DEF fd_pwrite, Checked, OnFile, Errnos

----------------------------------------------------------------------------
(* Offset, size, times and flags *)

LEMMA LseekGood ==
  ASSUME IInv, NEW op, NEW fd \in DOMAIN fds, NEW arg, Begin(op, fd, arg),
         NEW delta \in Int, NEW whence \in Whence,
         {"FD_SEEK", "FD_TELL"} \subseteq fds[fd].rights_base \/ (delta = 0 /\ whence = "CUR"),
         lseek(fds[fd].desc, delta, whence)
  PROVE  Good
<1> DEFINE d == fds[fd].desc
           to == delta + CASE whence = "SET" -> 0 [] whence = "CUR" -> offset[d]
                           [] whence = "END" -> Len(data)
<1>1. TypeOK /\ d \in Desc /\ offset \in [Desc -> 0..MAX] /\ MAX \in Nat
  BY EntryTyped, FileAssumption DEF IInv, TypeOK
<1>2. delta = 0 /\ whence = "CUR" => to = offset[d]
  BY <1>1
<1>3. CASE Fails("ESPIPE") \/ Fails("EINVAL")
  BY <1>3, FailsGood DEF Errnos
<1>4. CASE /\ to \in 0..MAX /\ Result /\ NoBytes /\ offset' = [offset EXCEPT ![d] = to]
           /\ UNCHANGED <<data, flags, times>>
  <2> HIDE DEF to, d
  <2>1. offset' \in [Desc -> 0..MAX]
    BY <1>1, <1>4
  <2>2. \A e \in Desc : offset'[e] # offset[e] =>
          e = d /\ {"FD_SEEK", "FD_TELL"} \subseteq fds[fd].rights_base
    BY <1>1, <1>2, <1>4
  <2>3. Calls(op, fd, arg)
    BY <1>1, <1>4, BeginTyped DEF Result, Calls, Errnos
  <2>4. mem' = Filled /\ got' = <<>> /\ mem' \in [Addr -> Byte] /\ got' \in Seq(Byte)
    BY <1>4, FilledTyped DEF NoBytes
  <2>5. IInv' /\ call'.op = op /\ call'.fd = fd
    BY <1>1, <1>4, <2>1, <2>3, <2>4, CallTyped DEF TypeOK
  <2>6. Respects
    BY <1>4, <2>2, <2>4, <2>5 DEF Respects, Can, d
  <2>7. Keeps
    BY <1>1, <1>4, <2>5, SameKeeps DEF IInv
  <2> QED
    BY <2>5, <2>6, <2>7 DEF Good
<1> QED
  BY <1>3, <1>4 DEF lseek

LEMMA FdSeekGood ==
  ASSUME IInv, NEW fd \in Fd, NEW delta \in Deltas, NEW whence, fd_seek(fd, delta, whence)
  PROVE  Good
<1>1. Begin("fd_seek", fd, <<>>) /\ delta \in Int
  BY FileAssumption DEF fd_seek, filedelta
<1>2. \A e \in Errnos : Fails(e) => Good
  BY <1>1, FailsGood
<1>3. ASSUME Denied(fd, SeekRights(delta, whence)) = "ESUCCESS", whence \in Whence,
             lseek(fds[fd].desc, delta, whence)
      PROVE  Good
  <2>1. fd \in DOMAIN fds /\ SeekRights(delta, whence) \subseteq fds[fd].rights_base
    BY <1>3, AllowedEntry
  <2>2. \/ {"FD_SEEK", "FD_TELL"} \subseteq fds[fd].rights_base
        \/ delta = 0 /\ whence = "CUR"
    BY <2>1 DEF SeekRights
  <2> QED
    BY <1>1, <1>3, <2>1, <2>2, LseekGood
<1> QED
  BY <1>2, <1>3, DeniedTyped DEF fd_seek, Checked, Errnos

LEMMA FdTellGood ==
  ASSUME IInv, NEW fd \in Fd, fd_tell(fd)
  PROVE  Good
<1>1. Begin("fd_tell", fd, <<>>)
  BY DEF fd_tell
<1>2. \A e \in Errnos : Fails(e) => Good
  BY <1>1, FailsGood
<1>3. ASSUME Denied(fd, {"FD_TELL"}) = "ESUCCESS", lseek(fds[fd].desc, 0, "CUR")
      PROVE  Good
  <2>1. fd \in DOMAIN fds
    BY <1>3, AllowedEntry
  <2> QED
    BY <1>1, <1>3, <2>1, LseekGood DEF Whence
<1> QED
  BY <1>2, <1>3, DeniedTyped DEF fd_tell, Checked, Errnos

\* ftruncate, whatever call makes it.
LEMMA SetLenDoes ==
  ASSUME TypeOK, NEW d, NEW n \in Nat, SetLen(d, n)
  PROVE  \/ Fails("EINVAL")
         \/ /\ d \in File /\ Ends("ESUCCESS") /\ UNCHANGED <<offset, flags, times>>
            /\ data' = Padded(data, n) /\ data' \in Seq(Byte) /\ Len(data') = n /\ n <= MAX
<1>1. data \in Seq(Byte) /\ MAX \in Nat
  BY FileAssumption DEF TypeOK
<1> QED
  BY <1>1, PaddedTyped DEF SetLen

LEMMA FdFilestatSetSizeGood ==
  ASSUME IInv, NEW fd \in Fd, NEW size \in Sizes, fd_filestat_set_size(fd, size)
  PROVE  Good
<1>1. TypeOK /\ Begin("fd_filestat_set_size", fd, <<>>) /\ size \in Nat
  BY FileAssumption DEF IInv, fd_filestat_set_size, filesize
<1>2. \A e \in Errnos : Fails(e) => Good
  BY <1>1, FailsGood
<1>3. ASSUME Denied(fd, {"FD_FILESTAT_SET_SIZE"}) = "ESUCCESS", SetLen(fds[fd].desc, size)
      PROVE  Good
  <2>1. fd \in DOMAIN fds /\ "FD_FILESTAT_SET_SIZE" \in fds[fd].rights_base
    BY <1>3, AllowedEntry
  <2>2. CASE Fails("EINVAL")
    BY <1>2, <2>2 DEF Errnos
  <2>3. CASE /\ Ends("ESUCCESS") /\ UNCHANGED <<offset, flags, times>>
             /\ data' \in Seq(Byte) /\ Len(data') = size /\ size <= MAX
    <3>1. Calls("fd_filestat_set_size", fd, <<>>)
      BY <1>1, <2>3, BeginTyped DEF Ends, Calls, Errnos
    <3>2. mem' = Filled /\ got' = <<>> /\ mem' \in [Addr -> Byte] /\ got' \in Seq(Byte)
      BY <2>3, FilledTyped DEF Ends, NoBytes
    <3>3. IInv' /\ call'.op = "fd_filestat_set_size" /\ call'.fd = fd
      BY <1>1, <2>3, <3>1, <3>2, CallTyped DEF TypeOK
    <3>4. Respects
      BY <2>1, <2>3, <3>2, <3>3 DEF Respects, Can
    <3>5. Keeps
      BY <3>3 DEF Keeps
    <3> QED
      BY <3>3, <3>4, <3>5 DEF Good
  <2> QED
    BY <1>1, <1>3, <2>2, <2>3, SetLenDoes
<1> QED
  BY <1>2, <1>3, DeniedTyped DEF fd_filestat_set_size, Checked, Errnos

\* The first half of fd_allocate: the size to set is greater than the file's.
LEMMA FdAllocateGood ==
  ASSUME IInv, NEW fd \in Fd, NEW off \in Sizes, NEW len \in Sizes, fd_allocate(fd, off, len)
  PROVE  Good
<1> DEFINE size == IF fds[fd].desc \in File THEN Len(data) ELSE 0
<1>1. /\ TypeOK /\ Begin("fd_allocate", fd, <<>>) /\ off \in Nat /\ len \in Nat
      /\ MAX \in Nat /\ Len(data) \in Nat
  BY FileAssumption DEF IInv, TypeOK, fd_allocate, filesize
<1>2. \A e \in Errnos : Fails(e) => Good
  BY <1>1, FailsGood
<1>3. ASSUME Denied(fd, {"FD_ALLOCATE"}) = "ESUCCESS", ~(off + len > MAX),
             MustGrow(off + len, size), wanted' = off + len, NoBytes, UNCHANGED <<host, ret>>
      PROVE  Good
  <2>1. fd \in DOMAIN fds /\ "FD_ALLOCATE" \in fds[fd].rights_base
    BY <1>3, AllowedEntry
  <2>2. /\ fds' = fds /\ others' = others /\ call'.op = "fd_allocate" /\ call'.fd = fd
        /\ call'.others = others /\ call'.size = Len(data)
        /\ UNCHANGED <<data, offset, flags, times, ret>>
    BY <1>1, <1>3 DEF Begin, host
  <2>3. mem' = Filled /\ got' = <<>> /\ mem' \in [Addr -> Byte] /\ got' \in Seq(Byte)
    BY <1>3, FilledTyped DEF NoBytes
  <2>4. wanted' \in 0..MAX /\ "fd_allocate" \in Op
    BY <1>1, <1>3, BeginTyped
  <2>5. others \in 0..others /\ Len(data) \in 0..MAX
    BY <1>1, FileAssumption DEF TypeOK
  <2>6. TypeOK'
    BY <1>1, <2>2, <2>3, <2>4, <2>5 DEF TypeOK
  <2>7. ReadsLand'
    BY <2>3 DEF ReadsLand
  <2>8. fds[fd].desc \in File => Len(data) < wanted'
    BY <1>1, <1>3 DEF MustGrow
  <2>9. Allocating'
    BY <2>1, <2>2, <2>8 DEF Allocating
  <2>10. Respects
    BY <2>2, <2>3 DEF Respects
  <2>11. Keeps
    BY <1>1, <2>2, <2>6, SameKeeps
  <2> QED
    BY <2>6, <2>7, <2>9, <2>10, <2>11 DEF Good, IInv
<1> QED
  BY <1>2, <1>3, DeniedTyped DEF fd_allocate, Checked, OnFile, Errnos

\* The second half.
LEMMA SetLenGood ==
  ASSUME IInv, set_len
  PROVE  Good
<1>1. /\ TypeOK /\ wanted \in Nat /\ wanted # NoSize /\ UNCHANGED <<fds, others, call>>
      /\ data \in Seq(Byte) /\ Len(data) \in Nat /\ call.size \in Nat
  BY FileAssumption DEF IInv, TypeOK, set_len
<1>2. /\ call.op = "fd_allocate" /\ call.fd \in DOMAIN fds
      /\ "FD_ALLOCATE" \in fds[call.fd].rights_base
      /\ fds[call.fd].desc \in File => call.size < wanted
  BY <1>1 DEF IInv, Allocating
<1>3. ASSUME /\ ret' \in Errnos /\ wanted' = NoSize /\ NoBytes
             /\ UNCHANGED <<offset, flags, times>>
             /\ data' \in Seq(Byte) /\ Len(data') <= MAX
      PROVE  IInv' /\ got' = <<>>
  <2>1. mem' = Filled /\ got' = <<>> /\ mem' \in [Addr -> Byte] /\ got' \in Seq(Byte)
    BY <1>3, FilledTyped DEF NoBytes
  <2>2. TypeOK'
    BY <1>1, <1>3, <2>1 DEF TypeOK, Errnos
  <2>3. ReadsLand' /\ Allocating'
    BY <1>3, <2>1 DEF ReadsLand, Allocating
  <2> QED
    BY <2>1, <2>2, <2>3 DEF IInv
<1>4. CASE \E e \in {"EINVAL", "EHOST"} : Fails(e)
  <2>1. /\ ret' \in Errnos /\ wanted' = NoSize /\ NoBytes
        /\ UNCHANGED <<data, offset, flags, times>>
    BY <1>4 DEF Fails, Ends, host, Errnos
  <2>2. IInv' /\ got' = <<>>
    BY <1>1, <1>3, <2>1 DEF TypeOK
  <2>3. Respects
    BY <2>1, <2>2 DEF Respects
  <2>4. Keeps
    BY <1>1, <2>1, <2>2, SameKeeps DEF IInv
  <2> QED
    BY <2>2, <2>3, <2>4 DEF Good
<1>5. CASE /\ fds[call.fd].desc \in File /\ Ends("ESUCCESS") /\ UNCHANGED <<offset, flags, times>>
           /\ data' = Padded(data, wanted) /\ data' \in Seq(Byte)
           /\ Len(data') = wanted /\ wanted <= MAX
  <2>1. IInv' /\ got' = <<>>
    <3>1. ret' \in Errnos /\ wanted' = NoSize /\ NoBytes /\ Len(data') <= MAX
      BY <1>5 DEF Ends, Errnos
    <3> QED
      BY <1>3, <1>5, <3>1
  <2>2. Can("FD_ALLOCATE") /\ Len(data') > call'.size
    BY <1>1, <1>2, <1>5 DEF Can
  <2>3. Respects
    BY <1>5, <2>1, <2>2 DEF Respects
  <2>4. Keeps
    <3>1. Len(data') > call'.size /\ Len(data') \in Nat /\ call'.size \in Nat
      BY <1>1, <2>2, <1>5
    <3>2. \A k \in 1..Len(data) : k <= Len(data') => data'[k] = data[k]
      BY <1>1, <1>5 DEF Padded
    <3> QED BY <1>1, <2>1, <3>1, <3>2, KeepsPrefix DEF IInv
  <2> QED
    BY <2>1, <2>3, <2>4 DEF Good
<1> QED
  BY <1>1, <1>4, <1>5, SetLenDoes DEF set_len

LEMMA FdFilestatSetTimesGood ==
  ASSUME IInv, NEW fd \in Fd, NEW fst_flags \in SUBSET FstFlag,
         fd_filestat_set_times(fd, fst_flags)
  PROVE  Good
<1>1. TypeOK /\ Begin("fd_filestat_set_times", fd, fst_flags)
  BY DEF IInv, fd_filestat_set_times
<1>2. \A e \in Errnos : Fails(e) => Good
  BY <1>1, FailsGood
<1>3. ASSUME Denied(fd, {"FD_FILESTAT_SET_TIMES"}) = "ESUCCESS", Ends("ESUCCESS"),
             times' = IF fds[fd].desc \in File THEN NewTimes(fst_flags) ELSE times,
             UNCHANGED <<data, offset, flags>>
      PROVE  Good
  <2>1. fd \in DOMAIN fds /\ "FD_FILESTAT_SET_TIMES" \in fds[fd].rights_base
    BY <1>3, AllowedEntry
  <2>2. Calls("fd_filestat_set_times", fd, fst_flags)
    BY <1>1, <1>3, BeginTyped DEF Ends, Calls, Errnos
  <2>3. mem' = Filled /\ got' = <<>> /\ mem' \in [Addr -> Byte] /\ got' \in Seq(Byte)
    BY <1>3, FilledTyped DEF Ends, NoBytes
  <2>4. times' \in [atim : {"old", "now", "given"}, mtim : {"old", "now", "given"}]
    BY <1>1, <1>3 DEF TypeOK, NewTimes
  <2>5. /\ IInv' /\ call'.op = "fd_filestat_set_times" /\ call'.fd = fd
        /\ call'.arg = fst_flags
    BY <1>1, <1>3, <2>2, <2>3, <2>4, CallTyped DEF TypeOK
  <2>6. Respects
    BY <1>3, <2>1, <2>3, <2>5 DEF Respects, Can
  <2>7. Keeps
    BY <2>5 DEF Keeps
  <2> QED
    BY <2>5, <2>6, <2>7 DEF Good
<1> QED
  BY <1>2, <1>3, DeniedTyped DEF fd_filestat_set_times, Checked, Errnos

LEMMA FdFdstatSetFlagsGood ==
  ASSUME IInv, NEW fd \in Fd, NEW fdflags \in SUBSET FdFlags, fd_fdstat_set_flags(fd, fdflags)
  PROVE  Good
<1>1. TypeOK /\ Begin("fd_fdstat_set_flags", fd, <<>>) /\ fdflags \subseteq FdFlag
  BY FileAssumption DEF IInv, fd_fdstat_set_flags
<1>2. \A e \in Errnos : Fails(e) => Good
  BY <1>1, FailsGood
<1>3. ASSUME Denied(fd, {}) = "ESUCCESS", Ends("ESUCCESS"),
             flags' = [flags EXCEPT ![fds[fd].desc] = fdflags \cap Settable],
             UNCHANGED <<data, offset, times>>
      PROVE  Good
  <2>1. Calls("fd_fdstat_set_flags", fd, <<>>)
    BY <1>1, <1>3, BeginTyped DEF Ends, Calls, Errnos
  <2>2. mem' = Filled /\ got' = <<>> /\ mem' \in [Addr -> Byte] /\ got' \in Seq(Byte)
    BY <1>3, FilledTyped DEF Ends, NoBytes
  <2>3. flags' \in [Desc -> SUBSET FdFlag]
    BY <1>1, <1>3 DEF TypeOK
  <2>4. IInv'
    BY <1>1, <1>3, <2>1, <2>2, <2>3, CallTyped DEF TypeOK
  <2>5. Respects
    BY <1>3, <2>2 DEF Respects
  <2>6. Keeps
    BY <1>1, <1>3, <2>4, SameKeeps DEF IInv
  <2> QED
    BY <2>4, <2>5, <2>6 DEF Good
<1> QED
  BY <1>2, <1>3, DeniedTyped DEF fd_fdstat_set_flags, Checked, Errnos

\* The calls that leave the file and its description as they are.
LEMMA LookingGood ==
  ASSUME IInv, NEW fd \in Fd,
         \/ fd_fdstat_get(fd) \/ fd_filestat_get(fd) \/ fd_sync(fd) \/ fd_datasync(fd)
         \/ fd_advise(fd)
  PROVE  Good
<1>1. PICK op : Begin(op, fd, <<>>)
  BY DEF fd_fdstat_get, fd_filestat_get, fd_sync, fd_datasync, fd_advise
<1>2. \A e \in Errnos : Fails(e) => Good
  BY <1>1, FailsGood
<1>3. Observed => Good
  BY <1>1, ObservedGood
<1> QED
  BY <1>2, <1>3, DeniedTyped
  DEF fd_fdstat_get, fd_filestat_get, fd_sync, fd_datasync, fd_advise, Checked, OnFile, Errnos

----------------------------------------------------------------------------
(* Other processes *)

LEMMA OthersGood ==
  ASSUME IInv, NEW bytes \in Seq(Byte), Len(bytes) <= MAX, Others(bytes)
  PROVE  Good
<1>1. /\ data' = bytes /\ others' = others + 1 /\ others < MaxOthers
      /\ UNCHANGED <<fds, offset, flags, times, wanted, call, mem, got, ret>>
  BY DEF Others
<1>2. TypeOK /\ others \in Nat /\ call.others \in 0..others /\ MaxOthers \in Nat
  BY FileAssumption DEF IInv, TypeOK
<1>3. others' \in 0..MaxOthers /\ call.others \in 0..others' /\ call.others # others'
      /\ others' # others
  BY <1>1, <1>2
<1>4. TypeOK'
  BY <1>1, <1>2, <1>3 DEF TypeOK
<1>5. ReadsLand'
  BY <1>1 DEF IInv, ReadsLand
<1>6. Allocating'
  BY <1>1, <1>3 DEF IInv, Allocating
<1>7. Respects /\ Keeps
  BY <1>1, <1>3 DEF Respects, OnlyGuest, Keeps
<1> QED
  BY <1>4, <1>5, <1>6, <1>7 DEF Good, IInv

LEMMA OthersWriteGood == ASSUME IInv, OthersWrite PROVE Good
<1>1. PICK pos \in 0..(MAX - 1) : Others(Overwritten(pos, <<Other>>))
  BY DEF OthersWrite
<1>2. <<Other>> \in Seq(Byte) /\ pos \in Nat /\ pos + Len(<<Other>>) <= MAX
  BY FileAssumption DEF Byte
<1> QED
  BY <1>1, <1>2, OverwrittenTyped, OthersGood DEF IInv

LEMMA OthersTruncateGood == ASSUME IInv, OthersTruncate PROVE Good
<1>1. PICK n \in 0..(Len(data) - 1) : Others(Padded(data, n))
  BY DEF OthersTruncate
<1>2. data \in Seq(Byte) /\ Len(data) \in Nat /\ Len(data) <= MAX /\ MAX \in Nat
  BY FileAssumption DEF IInv, TypeOK
<1>3. n \in Nat /\ n <= MAX
  BY <1>2
<1> QED
  BY <1>1, <1>2, <1>3, PaddedTyped, OthersGood

----------------------------------------------------------------------------
(* The theorems *)

LEMMA InitIInv == Init => IInv
<1> SUFFICES ASSUME Init PROVE IInv
  OBVIOUS
<1>1. MAX \in Nat /\ MAX # 0 /\ MaxOthers \in Nat
  BY FileAssumption
<1>2. data \in Seq(Byte) /\ Len(data) <= MAX
  BY <1>1 DEF Init, Byte
<1>3. TypeOK
  BY <1>1, <1>2, FilledTyped DEF Init, TypeOK, Op
<1> QED
  BY <1>3 DEF Init, IInv, ReadsLand, Allocating

LEMMA NextGood == ASSUME IInv, Next PROVE Good
<1>1. ASSUME NEW fd \in Fd, Data(fd)
      PROVE  Good
  <2>1. ASSUME NEW v \in Iovs,
               \/ fd_read(fd, v) \/ fd_write(fd, v)
               \/ \E pos \in Sizes : fd_pread(fd, v, pos) \/ fd_pwrite(fd, v, pos)
        PROVE  Good
    BY <2>1, FdReadGood, FdWriteGood, FdPreadGood, FdPwriteGood
  <2>2. ASSUME NEW delta \in Deltas, NEW whence, fd_seek(fd, delta, whence)
        PROVE  Good
    BY <2>2, FdSeekGood
  <2>3. ASSUME NEW off \in Sizes, NEW len \in Sizes, fd_allocate(fd, off, len)
        PROVE  Good
    BY <2>3, FdAllocateGood
  <2>4. ASSUME NEW size \in Sizes, fd_filestat_set_size(fd, size)
        PROVE  Good
    BY <2>4, FdFilestatSetSizeGood
  <2> QED
    BY <1>1, <2>1, <2>2, <2>3, <2>4, FdTellGood, LookingGood DEF Data
<1>2. ASSUME NEW fd \in Fd, Attributes(fd)
      PROVE  Good
  BY <1>2, FdFilestatSetTimesGood, FdFdstatSetFlagsGood, LookingGood DEF Attributes
<1> QED
  BY <1>1, <1>2, SetLenGood, OthersWriteGood, OthersTruncateGood DEF Next

LEMMA NextIInv == IInv /\ [Next]_vars => IInv'
<1>1. ASSUME IInv, UNCHANGED vars
      PROVE  IInv'
  BY <1>1 DEF IInv, TypeOK, ReadsLand, Allocating, vars, host
<1> QED
  BY <1>1, NextGood DEF Good

THEOREM Invariance == Spec => []IInv
BY InitIInv, NextIInv, PTL DEF Spec

\* Sizes, offsets and the memory keep their types: no sum of the guest's 64-bit
\* numbers makes a size or an offset of 2^63 or more.
THEOREM TypeCorrect == Spec => []TypeOK
<1>1. IInv => TypeOK
  BY DEF IInv
<1> QED
  BY <1>1, Invariance, PTL

\* fd_pread's loop over the guest's buffers leaves there what readv(2) would, for
\* every vector of buffers, empty, out of order or overlapping.
THEOREM ReadsAreScattered == Spec => []ReadsLand
<1>1. IInv => ReadsLand
  BY DEF IInv
<1> QED
  BY <1>1, Invariance, PTL

\* Every handler but fd_pwrite and fd_fdstat_set_flags does only what the rights
\* of the entry allow by their names.
THEOREM RightsAreRespected == Spec => RightsRespected
<1>1. IInv /\ [Next]_vars => [Respects]_vars
  BY NextGood DEF Good
<1> QED
  BY <1>1, Invariance, PTL DEF Spec, RightsRespected, Respects

\* fd_allocate, whose two system calls any number of steps of others may come
\* between, loses no byte below the size that the first of them found.
THEOREM AllocationKeeps == Spec => AllocateKeeps
<1>1. IInv /\ [Next]_vars => [Keeps]_vars
  BY NextGood DEF Good
<1> QED
  BY <1>1, Invariance, PTL DEF Spec, AllocateKeeps, Keeps
=============================================================================
