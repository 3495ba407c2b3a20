---------------------------- MODULE StartupProofs ----------------------------
(***************************************************************************)
(* What the startup calls leave in guest memory, for every width of        *)
(* pointers and numbers, size of memory and list of strings.               *)
(***************************************************************************)
EXTENDS Startup, Induction

\* The list a strings_get is about, and where its strings go.
List == ctx[call.which]
At(n) == call.b + Offset(List)[n]

\* The first i strings have been copied, one after the other, and nothing else.
Copied ==
  /\ call.i > 0 => At(call.i) <= Len(mem)
  /\ \A n \in 1..call.i :
       call.ptrs[n] = At(n - 1) /\ Holds(mem, At(n - 1), Bytes(call.which, n, List[n]))
  /\ Changed \subseteq Span(call.b, Offset(List)[call.i])

\* Between two strings of args_get and environ_get.
InStrings ==
  call.pc = "loop" =>
    /\ call.op = "strings_get" /\ call.which \in ListName
    /\ call.i \in 0..Len(List) /\ call.offset = Offset(List)[call.i]
    /\ ~Wraps => Copied

\* The fields of a call.
Fields == {"op", "which", "a", "b", "i", "offset", "ptrs", "pc", "ret"}

\* The inductive invariant.
IInv ==
  /\ DOMAIN call = Fields
  /\ TypeOK /\ Len(mem) \in MemLens /\ call.pc \in {"loop", "done"}
  /\ InStrings
  /\ WritesInside /\ ResultWhole /\ SpaceAnnounced /\ FailureLeaves

----------------------------------------------------------------------------
(* The places of the strings *)

\* Offset(list) is the function its recursive definition describes.
LEMMA OffsetDef ==
  ASSUME NEW list \in Seq(Nat)
  PROVE  Offset(list) =
           [n \in 0..Len(list) |-> IF n = 0 THEN 0 ELSE Offset(list)[n - 1] + list[n]]
<1> DEFINE Upto(f, m) ==
             f = [n \in 0..m |-> IF n = 0 THEN 0 ELSE f[n - 1] + list[n]]
           T == {m \in Nat : \E f : Upto(f, m)}
<1>1. 0 \in T
  <2>1. Upto([n \in 0..0 |-> 0], 0)
    OBVIOUS
  <2> QED
    BY <2>1
<1>2. ASSUME NEW m \in T
      PROVE  m + 1 \in T
  <2>1. PICK f : Upto(f, m)
    OBVIOUS
  <2> DEFINE g == [n \in 0..(m + 1) |-> IF n = m + 1 THEN f[m] + list[m + 1] ELSE f[n]]
  <2>2. \A n \in 0..m : f[n] = IF n = 0 THEN 0 ELSE f[n - 1] + list[n]
    BY <2>1
  <2>3. \A n \in 0..(m + 1) : g[n] = IF n = 0 THEN 0 ELSE g[n - 1] + list[n]
    <3>1. m \in Nat /\ g[m + 1] = f[m] + list[m + 1]
      OBVIOUS
    <3>2. \A n \in 0..m : g[n] = f[n]
      OBVIOUS
    <3> HIDE DEF T, Upto, g
    <3>3. ASSUME NEW n \in 1..m
          PROVE  g[n] = g[n - 1] + list[n]
      BY <3>1, <3>2, <2>2
    <3>4. g[0] = 0 /\ g[m + 1] = g[m] + list[m + 1]
      BY <3>1, <3>2, <2>2
    <3>5. \A n \in 0..(m + 1) : n = 0 \/ n = m + 1 \/ n \in 1..m
      BY <3>1
    <3>6. (m + 1) - 1 = m
      BY <3>1
    <3> QED
      BY <3>1, <3>3, <3>4, <3>5, <3>6
  <2>4. g = [n \in 0..(m + 1) |-> g[n]]
    OBVIOUS
  <2>5. Upto(g, m + 1)
    <3> HIDE DEF g
    <3> QED
      BY <2>3, <2>4
  <2> HIDE DEF Upto, g
  <2> QED
    BY <2>5
<1>3. Len(list) \in T
  <2>1. T \in SUBSET Nat
    OBVIOUS
  <2> HIDE DEF T
  <2>2. T = Nat
    BY <2>1, <1>1, <1>2, InductiveSet
  <2> QED
    BY <2>2
<1>4. Offset(list) = CHOOSE f : Upto(f, Len(list))
  BY DEF Offset
<1>5. Upto(Offset(list), Len(list))
  <2> HIDE DEF Upto
  <2> QED
    BY <1>3, <1>4, Zenon
<1> QED
  BY <1>5

\* The strings lie one behind the other.
LEMMA OffsetStep ==
  ASSUME NEW list \in Seq(Nat)
  PROVE  /\ Offset(list)[0] = 0
         /\ \A n \in 1..Len(list) : Offset(list)[n] = Offset(list)[n - 1] + list[n]
         /\ \A n \in 0..Len(list) : Offset(list)[n] \in Nat
<1> DEFINE f == Offset(list)
<1>1. \A n \in 0..Len(list) : f[n] = IF n = 0 THEN 0 ELSE f[n - 1] + list[n]
  <2>1. f = [n \in 0..Len(list) |-> IF n = 0 THEN 0 ELSE f[n - 1] + list[n]]
    BY OffsetDef
  <2> HIDE DEF f
  <2> QED
    BY <2>1
<1> HIDE DEF f
<1>2. f[0] = 0 /\ \A n \in 1..Len(list) : f[n] = f[n - 1] + list[n]
  BY <1>1
<1> DEFINE T == {n \in Nat : f[n] \in Nat}
<1>3. 0 \in T /\ \A n \in 0..Len(list) : n \in T /\ n < Len(list) => n + 1 \in T
  <2>1. ASSUME NEW n \in 0..Len(list), n \in T, n < Len(list)
        PROVE  n + 1 \in T
    <3>1. f[n + 1] = f[n] + list[n + 1] /\ list[n + 1] \in Nat
      BY <1>2, <2>1
    <3> QED
      BY <3>1, <2>1
  <2> QED
    BY <2>1, <1>2
<1>4. 0..Len(list) \subseteq T
  <2> Len(list) \in Nat
    OBVIOUS
  <2> HIDE DEF T
  <2> QED
    BY <1>3, InductiveUpTo
<1> QED
  BY <1>2, <1>4 DEF f

\* So what a string takes does not reach into what a later one takes.
LEMMA OffsetGrows ==
  ASSUME NEW list \in Seq(Nat), NEW m \in 0..Len(list), NEW n \in 0..Len(list), m <= n
  PROVE  Offset(list)[m] <= Offset(list)[n]
<1> DEFINE f == Offset(list)
           T == {k \in Nat : m <= k /\ k <= Len(list) => f[m] <= f[k]}
<1>1. /\ \A k \in 1..Len(list) : f[k] = f[k - 1] + list[k]
      /\ \A k \in 0..Len(list) : f[k] \in Nat
  BY OffsetStep
<1> HIDE DEF f
<1>2. 0 \in T
  BY <1>1
<1>3. ASSUME NEW k \in T
      PROVE  k + 1 \in T
  <2>1. CASE m <= k /\ k + 1 <= Len(list)
    <3>1. f[k + 1] = f[k] + list[k + 1] /\ f[m] <= f[k] /\ list[k + 1] \in Nat
      BY <2>1, <1>1
    <3>2. f[k] \in Nat /\ f[m] \in Nat
      BY <2>1, <1>1
    <3> QED
      BY <3>1, <3>2
  <2>2. CASE m = k + 1
    BY <2>2, <1>1
  <2> QED
    BY <2>1, <2>2
<1>4. T \in SUBSET Nat
  OBVIOUS
<1>5. n \in T
  <2> HIDE DEF T
  <2>1. T = Nat
    BY <1>2, <1>3, <1>4, InductiveSet
  <2> QED
    BY <2>1
<1> QED
  BY <1>5 DEF f

\* Each string has a byte at least, its NUL.
LEMMA ListIs ==
  ASSUME ctx \in Contexts, NEW which \in ListName
  PROVE  /\ ctx[which] \in Seq(Nat) /\ Len(ctx[which]) \in Nat
         /\ \A n \in 1..Len(ctx[which]) : ctx[which][n] \in 1..PtrMax
         /\ Total(ctx[which]) \in Nat
<1>1. ctx[which] \in Seq(1..PtrMax)
  BY StartupAssumption
<1>2. ctx[which] \in Seq(Nat)
  BY <1>1, MemoryAssumption
<1>3. ASSUME NEW S, NEW list \in Seq(S)
      PROVE  Len(list) \in Nat /\ \A n \in 1..Len(list) : list[n] \in S
  OBVIOUS
<1>4. Len(ctx[which]) \in Nat /\ \A n \in 1..Len(ctx[which]) : ctx[which][n] \in 1..PtrMax
  BY <1>1, <1>3, Zenon
<1>5. Total(ctx[which]) \in Nat
  BY <1>2, <1>4, OffsetStep DEF Total
<1> QED
  BY <1>2, <1>4, <1>5

----------------------------------------------------------------------------
(* The memory *)

\* The places where two states of the memory differ.
Diff(new, old) == {i - 1 : i \in {j \in 1..Len(new) : new[j] # old[j]}}

LEMMA BytesIs ==
  ASSUME NEW kind, NEW n, NEW len \in Nat
  PROVE  /\ Len(Bytes(kind, n, len)) = len
         /\ \A k \in 1..len : Bytes(kind, n, len)[k] = <<kind, n, k>>
         /\ kind \in {"old", "args", "environ", "name", "number", "random"} /\ n \in Nat
              => Bytes(kind, n, len) \in Seq(Byte)
<1>1. /\ Len(Bytes(kind, n, len)) = len
      /\ \A k \in 1..len : Bytes(kind, n, len)[k] = <<kind, n, k>>
  BY DEF Bytes
<1>2. ASSUME kind \in {"old", "args", "environ", "name", "number", "random"}, n \in Nat
      PROVE  Bytes(kind, n, len) \in Seq(Byte)
  <2>1. \A k \in 1..len : <<kind, n, k>> \in Byte
    BY <1>2 DEF Byte
  <2> QED
    BY <2>1 DEF Bytes
<1> QED
  BY <1>1, <1>2

\* Write changes what it is given, and nothing else.
LEMMA WriteIs ==
  ASSUME NEW m \in Seq(Byte), NEW ptr \in Nat, NEW bytes \in Seq(Byte)
  PROVE  /\ Write(m, ptr, bytes) \in Seq(Byte)
         /\ Len(Write(m, ptr, bytes)) = Len(m)
         /\ \A j \in 1..Len(m) : Write(m, ptr, bytes)[j] =
              IF j - 1 \in Span(ptr, Len(bytes)) THEN bytes[j - ptr] ELSE m[j]
<1>1. ASSUME NEW j \in 1..Len(m), j - 1 \in Span(ptr, Len(bytes))
      PROVE  bytes[j - ptr] \in Byte
  <2>1. j - ptr \in 1..Len(bytes)
    BY <1>1 DEF Span
  <2> QED
    BY <2>1
<1> QED
  BY <1>1 DEF Write

LEMMA WriteHolds ==
  ASSUME NEW m \in Seq(Byte), NEW ptr \in Nat, NEW bytes \in Seq(Byte),
         ptr + Len(bytes) <= Len(m)
  PROVE  Holds(Write(m, ptr, bytes), ptr, bytes)
<1> DEFINE w == Write(m, ptr, bytes)
<1>1. ASSUME NEW k \in 1..Len(bytes)
      PROVE  w[ptr + k] = bytes[k]
  <2>1. ptr + k \in 1..Len(m) /\ (ptr + k) - 1 \in Span(ptr, Len(bytes)) /\ (ptr + k) - ptr = k
    BY DEF Span
  <2> QED
    BY <2>1, WriteIs
<1> QED
  BY <1>1, WriteIs DEF Holds

LEMMA WriteKeeps ==
  ASSUME NEW m \in Seq(Byte), NEW ptr \in Nat, NEW bytes \in Seq(Byte),
         NEW p \in Nat, NEW other \in Seq(Byte), Holds(m, p, other),
         Span(p, Len(other)) \cap Span(ptr, Len(bytes)) = {}
  PROVE  Holds(Write(m, ptr, bytes), p, other)
<1>1. ASSUME NEW k \in 1..Len(other)
      PROVE  Write(m, ptr, bytes)[p + k] = other[k]
  <2>1. p + k \in 1..Len(m) /\ (p + k) - 1 \in Span(p, Len(other)) /\ m[p + k] = other[k]
    BY DEF Span, Holds
  <2> QED
    BY <2>1, WriteIs
<1> QED
  BY <1>1, WriteIs DEF Holds

LEMMA WriteChanges ==
  ASSUME NEW m \in Seq(Byte), NEW ptr \in Nat, NEW bytes \in Seq(Byte)
  PROVE  Diff(Write(m, ptr, bytes), m) \subseteq Span(ptr, Len(bytes))
  BY WriteIs DEF Diff

\* Two writes change what either of them changes.
LEMMA DiffTwice ==
  ASSUME NEW a, NEW b, NEW c, Len(a) = Len(b), Len(b) = Len(c)
  PROVE  Diff(c, a) \subseteq Diff(c, b) \cup Diff(b, a)
  BY DEF Diff

LEMMA DiffSame == \A m : Diff(m, m) = {}
  BY DEF Diff

\* Encoded is a Write or nothing.
LEMMA EncodedIs ==
  ASSUME NEW m \in Seq(Byte), NEW ptr \in Nat, NEW bytes \in Seq(Byte), NEW errno
  PROVE  /\ Encoded(errno, m, ptr, bytes) \in Seq(Byte)
         /\ Len(Encoded(errno, m, ptr, bytes)) = Len(m)
         /\ Diff(Encoded(errno, m, ptr, bytes), m)
              \subseteq IF errno = "ESUCCESS" THEN Span(ptr, Len(bytes)) ELSE {}
  BY WriteIs, WriteChanges, DiffSame DEF Encoded

\* A check that succeeds has found the whole range in the memory.
LEMMA ChecksAre ==
  ASSUME NEW m \in Seq(Byte), NEW ptr \in Nat, NEW size \in Nat, NEW align \in Nat \ {0}
  PROVE  /\ dec_ptr_to(m, ptr, size, align) \in {"ESUCCESS", "EINVAL", "EFAULT"}
         /\ dec_ptr_to(m, ptr, size, align) = "ESUCCESS" => ptr + size <= Len(m)
  BY MemoryAssumption DEF dec_ptr_to, dec_ptr

\* A slice in the memory passes its check, and no other does.
LEMMA SliceChecksAre ==
  ASSUME NEW m \in Seq(Byte), NEW ptr \in Nat, NEW n \in Nat, NEW size \in Nat,
         NEW align \in Nat \ {0}
  PROVE  /\ check_slice_of(m, ptr, n, size, align)
              \in {"ESUCCESS", "EINVAL", "EOVERFLOW", "EFAULT"}
         /\ check_slice_of(m, ptr, n, size, align) = "ESUCCESS" =>
              ptr % align = 0 /\ ptr + size * n <= Len(m)
         /\ Len(m) <= UsizeMax /\ ptr % align = 0 /\ ptr + size * n <= Len(m) =>
              check_slice_of(m, ptr, n, size, align) = "ESUCCESS"
<1>1. size * n \in Nat /\ Len(m) \in Nat /\ UsizeMax \in Nat
  BY MemoryAssumption
<1> QED
  BY <1>1 DEF check_slice_of, dec_ptr

\* Of bytes, any address is aligned.
LEMMA ByteChecksAre ==
  ASSUME NEW m \in Seq(Byte), NEW ptr \in Nat, NEW n \in Nat
  PROVE  /\ check_slice_of(m, ptr, n, 1, 1) \in {"ESUCCESS", "EINVAL", "EOVERFLOW", "EFAULT"}
         /\ check_slice_of(m, ptr, n, 1, 1) = "ESUCCESS" => ptr + n <= Len(m)
         /\ Len(m) <= UsizeMax /\ ptr + n <= Len(m) =>
              check_slice_of(m, ptr, n, 1, 1) = "ESUCCESS"
<1>1. 1 * n = n /\ ptr % 1 = 0 /\ Len(m) \in Nat /\ UsizeMax \in Nat
  BY MemoryAssumption
<1> QED
  BY <1>1 DEF check_slice_of, dec_ptr

----------------------------------------------------------------------------
(* The calls that are over at once *)

AtOnce == {"sizes_get", "prestat_get", "dir_name", "random_get",
           "clock_res_get", "clock_time_get"}

\* Where such a call may write, and where it may have written when it fails.
GivenTo(op, a, b) ==
  IF op = "sizes_get" THEN Span(a, Word) \cup Span(b, Word)
  ELSE IF op \in {"dir_name", "random_get"} THEN Span(a, b) ELSE Span(a, 2 * Word)
LeftBy(op, a) == IF op = "sizes_get" THEN Span(a, Word) ELSE {}

\* What it leaves in memory m when it succeeds.
Whole(op, which, a, b, m) ==
  /\ op = "sizes_get" =>
       /\ Span(a, Word) \cap Span(b, Word) = {} => NumberAt(m, a, Len(ctx[which]))
       /\ NumberAt(m, b, Total(ctx[which]))
  /\ op = "prestat_get" => NumberAt(m, a + Word, Preopens[which])
  /\ op = "dir_name" => Holds(m, a, Bytes("name", 1, Preopens[which]))

LEMMA NoPointers == 0 \in Ptr /\ <<>> \in Seq(Ptr) /\ Len(<<>>) = 0
<1>1. 0 \in Ptr
  BY MemoryAssumption DEF Ptr
<1> QED
  BY <1>1

LEMMA ResultInv ==
  ASSUME IInv, NEW op \in AtOnce, NEW which, NEW a \in Ptr, NEW b \in Ptr,
         NEW errno, errno # "", NEW m \in Seq(Byte), Len(m) = Len(mem),
         Result(op, which, a, b, errno, m),
         Diff(m, mem) \subseteq GivenTo(op, a, b),
         errno # "ESUCCESS" => Diff(m, mem) \subseteq LeftBy(op, a),
         errno = "ESUCCESS" => Whole(op, which, a, b, m)
  PROVE  IInv'
<1>1. /\ mem' = m /\ before' = mem /\ ctx' = ctx
      /\ call' = [op |-> op, which |-> which, a |-> a, b |-> b, i |-> 0, offset |-> 0,
                  ptrs |-> <<>>, pc |-> "done", ret |-> errno]
  BY DEF Result, Called
<1>2. /\ call'.op = op /\ call'.which = which /\ call'.a = a /\ call'.b = b
      /\ call'.pc = "done" /\ call'.ret = errno
      /\ call'.i = 0 /\ call'.offset = 0 /\ call'.ptrs = <<>>
  BY <1>1
<1>3. op # "strings_get"
  BY DEF AtOnce
<1>4. TypeOK' /\ (Len(mem) \in MemLens)'
  <2>1. 0 \in Ptr /\ <<>> \in Seq(Ptr) /\ Len(<<>>) = 0
    BY NoPointers
  <2>2. mem \in Seq(Byte) /\ ctx \in Contexts /\ Len(mem) \in MemLens
    BY DEF IInv, TypeOK
  <2>3. call'.ptrs \in Seq(Ptr) /\ Len(call'.ptrs) = call'.i
    BY <1>2, <2>1
  <2>4. mem' \in Seq(Byte) /\ before' \in Seq(Byte) /\ Len(mem') = Len(before')
        /\ Len(mem') \in MemLens /\ ctx' \in Contexts
    BY <1>1, <2>2
  <2> QED
    BY <1>2, <2>1, <2>3, <2>4 DEF TypeOK
<1>5. Changed' = Diff(m, mem)
  BY <1>1 DEF Changed, Diff
<1>6. Given' = GivenTo(op, a, b)
  BY <1>2, <1>3 DEF Given, GivenTo
<1>7. WritesInside' /\ FailureLeaves'
  BY <1>2, <1>3, <1>5, <1>6 DEF WritesInside, FailureLeaves, LeftBy
<1>8. ResultWhole'
  BY <1>1, <1>2, <1>3 DEF ResultWhole, Whole
<1>9. SpaceAnnounced' /\ InStrings'
  BY <1>2, <1>3 DEF SpaceAnnounced, InStrings
<1> QED
  BY <1>1, <1>2, <1>4, <1>7, <1>8, <1>9 DEF IInv, Fields

\* args_sizes_get and environ_sizes_get once the list is known to fit.
LEMMA EncodeSizesInv ==
  ASSUME IInv, NEW which \in ListName, NEW p \in Ptr, NEW q \in Ptr,
         encode_sizes(which, p, q)
  PROVE  IInv'
<1> DEFINE count == Bytes("number", Len(ctx[which]), Word)
           size == Bytes("number", Total(ctx[which]), Word)
           e1 == dec_ptr_to(mem, p, Word, Word)
           m1 == Encoded(e1, mem, p, count)
           e2 == dec_ptr_to(mem, q, Word, Word)
           m2 == Encoded(e2, m1, q, size)
<1>1. /\ mem \in Seq(Byte) /\ p \in Nat /\ q \in Nat /\ Word \in Nat \ {0}
      /\ count \in Seq(Byte) /\ Len(count) = Word /\ size \in Seq(Byte) /\ Len(size) = Word
  BY ListIs, BytesIs, MemoryAssumption DEF IInv, TypeOK, Ptr
<1>2. /\ e1 \in {"ESUCCESS", "EINVAL", "EFAULT"} /\ e2 \in {"ESUCCESS", "EINVAL", "EFAULT"}
      /\ e1 = "ESUCCESS" => p + Word <= Len(mem)
      /\ e2 = "ESUCCESS" => q + Word <= Len(mem)
  BY <1>1, ChecksAre
<1>3. IF e1 = "ESUCCESS" THEN Result("sizes_get", which, p, q, e2, m2)
      ELSE Result("sizes_get", which, p, q, e1, mem)
  BY DEF encode_sizes
<1> HIDE DEF count, size, e1, e2
<1>4. /\ m1 \in Seq(Byte) /\ Len(m1) = Len(mem) /\ Diff(m1, mem) \subseteq Span(p, Word)
  BY <1>1, EncodedIs
<1>5. /\ m2 \in Seq(Byte) /\ Len(m2) = Len(mem)
      /\ Diff(m2, m1) \subseteq IF e2 = "ESUCCESS" THEN Span(q, Word) ELSE {}
  <2> HIDE DEF m1
  <2> QED
    BY <1>1, <1>4, EncodedIs
<1>6. "sizes_get" \in AtOnce
  BY DEF AtOnce
<1>7. CASE e1 = "ESUCCESS"
  <2>1. Diff(m2, mem) \subseteq Diff(m2, m1) \cup Diff(m1, mem)
    <3> HIDE DEF m1, m2
    <3> QED
      BY <1>4, <1>5, DiffTwice
  <2>2. ASSUME e2 = "ESUCCESS"
        PROVE  Whole("sizes_get", which, p, q, m2)
    <3>1. m1 = Write(mem, p, count) /\ m2 = Write(m1, q, size)
      BY <1>7, <2>2 DEF Encoded
    <3> HIDE DEF m1, m2
    <3>2. Holds(m1, p, count)
      BY <3>1, <1>1, <1>2, <1>7, WriteHolds
    <3>3. Holds(m2, q, size)
      BY <3>1, <1>1, <1>2, <1>4, <2>2, WriteHolds
    <3>4. Span(p, Word) \cap Span(q, Word) = {} => Holds(m2, p, count)
      BY <3>1, <3>2, <1>1, <1>4, WriteKeeps
    <3> QED
      BY <3>3, <3>4 DEF Whole, NumberAt, count, size
  <2> HIDE DEF m1, m2
  <2> QED
    BY <2>1, <2>2, <1>2, <1>3, <1>4, <1>5, <1>6, <1>7, ResultInv DEF GivenTo, LeftBy
<1>8. CASE e1 # "ESUCCESS"
  BY <1>1, <1>2, <1>3, <1>6, <1>8, ResultInv, DiffSame
<1> QED
  BY <1>7, <1>8

\* args_sizes_get panics on a list that is too wide, with the count written.
LEMMA ArgsSizesGetInv ==
  ASSUME IInv, NEW p \in Ptr, NEW q \in Ptr, args_sizes_get(p, q)
  PROVE  IInv'
<1> DEFINE count == Bytes("number", Len(ctx["args"]), Word)
           e1 == dec_ptr_to(mem, p, Word, Word)
           m1 == Encoded(e1, mem, p, count)
<1>1. CASE encode_sizes("args", p, q)
  BY <1>1, EncodeSizesInv DEF ListName
<1>2. CASE Result("sizes_get", "args", p, q, "panic", m1)
  <2>1. mem \in Seq(Byte) /\ p \in Nat /\ count \in Seq(Byte) /\ Len(count) = Word
    <3>1. ctx \in Contexts /\ mem \in Seq(Byte)
      BY DEF IInv, TypeOK
    <3>2. Len(ctx["args"]) \in Nat
      BY <3>1, ListIs DEF ListName
    <3>3. p \in Nat /\ Word \in Nat
      BY MemoryAssumption DEF Ptr
    <3>4. count \in Seq(Byte) /\ Len(count) = Word
      BY <3>2, <3>3, BytesIs
    <3> QED
      BY <3>1, <3>3, <3>4
  <2>2. m1 \in Seq(Byte) /\ Len(m1) = Len(mem) /\ Diff(m1, mem) \subseteq Span(p, Word)
    <3> HIDE DEF count, e1
    <3> QED
      BY <2>1, EncodedIs
  <2>3. "sizes_get" \in AtOnce
    BY DEF AtOnce
  <2> HIDE DEF m1
  <2> QED
    BY <2>2, <2>3, <1>2, ResultInv DEF GivenTo, LeftBy
<1> QED
  BY <1>1, <1>2 DEF args_sizes_get

LEMMA EnvironSizesGetInv ==
  ASSUME IInv, NEW p \in Ptr, NEW q \in Ptr, environ_sizes_get(p, q)
  PROVE  IInv'
<1>1. CASE encode_sizes("environ", p, q)
  BY <1>1, EncodeSizesInv DEF ListName
<1>2. CASE Result("sizes_get", "environ", p, q, "EOVERFLOW", mem)
  <2>1. "sizes_get" \in AtOnce /\ mem \in Seq(Byte)
    BY DEF AtOnce, IInv, TypeOK
  <2> QED
    BY <2>1, <1>2, ResultInv, DiffSame
<1> QED
  BY <1>1, <1>2 DEF environ_sizes_get
LEMMA PrestatGetInv ==
  ASSUME IInv, NEW fd \in DOMAIN Preopens, NEW p \in Ptr, fd_prestat_get(fd, p)
  PROVE  IInv'
<1> DEFINE tag == Bytes("number", 0, Word)
           len == Bytes("number", Preopens[fd], Word)
           errno == dec_ptr_to(mem, p, 2 * Word, Word)
           m == Encoded(errno, mem, p, tag \o len)
<1>1. mem \in Seq(Byte) /\ p \in Nat /\ Word \in Nat \ {0} /\ Preopens[fd] \in Nat
  BY MemoryAssumption, StartupAssumption DEF IInv, TypeOK, Ptr
<1>2. /\ tag \in Seq(Byte) /\ Len(tag) = Word
      /\ len \in Seq(Byte) /\ Len(len) = Word
  BY <1>1, BytesIs
<1>3. Result("prestat_get", fd, p, 0, errno, m)
  BY DEF fd_prestat_get
<1>4. errno \in {"ESUCCESS", "EINVAL", "EFAULT"} /\ (errno = "ESUCCESS" => p + 2 * Word <= Len(mem))
  <2> 2 * Word \in Nat
    BY <1>1
  <2> QED
    BY <1>1, ChecksAre
<1> HIDE DEF tag, len, errno
<1>5. tag \o len \in Seq(Byte) /\ Len(tag \o len) = 2 * Word
  BY <1>1, <1>2
<1>6. /\ m \in Seq(Byte) /\ Len(m) = Len(mem)
      /\ Diff(m, mem) \subseteq IF errno = "ESUCCESS" THEN Span(p, 2 * Word) ELSE {}
  <2> DEFINE both == tag \o len
  <2>1. both \in Seq(Byte) /\ Len(both) = 2 * Word
    BY <1>5
  <2> HIDE DEF both
  <2>2. /\ Encoded(errno, mem, p, both) \in Seq(Byte)
        /\ Len(Encoded(errno, mem, p, both)) = Len(mem)
        /\ Diff(Encoded(errno, mem, p, both), mem)
             \subseteq IF errno = "ESUCCESS" THEN Span(p, 2 * Word) ELSE {}
    BY <1>1, <2>1, EncodedIs
  <2> QED
    BY <2>2 DEF both
<1>7. ASSUME errno = "ESUCCESS"
      PROVE  Whole("prestat_get", fd, p, 0, m)
  <2>1. Holds(m, p, tag \o len)
    BY <1>1, <1>4, <1>5, <1>7, WriteHolds DEF Encoded
  <2> HIDE DEF m
  <2>2. ASSUME NEW k \in 1..Word
        PROVE  m[(p + Word) + k] = len[k]
    <3>1. Word + k \in 1..Len(tag \o len) /\ p + (Word + k) = (p + Word) + k
      BY <1>1, <1>5
    <3>2. (tag \o len)[Word + k] = len[k]
      BY <1>1, <1>2
    <3> QED
      BY <2>1, <3>1, <3>2 DEF Holds
  <2>3. (p + Word) + Len(len) <= Len(m)
    BY <2>1, <1>1, <1>2, <1>5 DEF Holds
  <2> QED
    BY <2>2, <2>3, <1>2 DEF Whole, NumberAt, Holds, len
<1>8. "prestat_get" \in AtOnce /\ 0 \in Ptr
  BY NoPointers DEF AtOnce
<1>9. GivenTo("prestat_get", p, 0) = Span(p, 2 * Word) /\ LeftBy("prestat_get", p) = {}
  BY DEF GivenTo, LeftBy
<1> HIDE DEF m
<1> QED
  BY <1>3, <1>4, <1>6, <1>7, <1>8, <1>9, ResultInv

LEMMA DirNameInv ==
  ASSUME IInv, NEW fd \in DOMAIN Preopens, NEW p \in Ptr, NEW n \in Lens,
         fd_prestat_dir_name(fd, p, n)
  PROVE  IInv'
<1> DEFINE len == Preopens[fd]
           name == Bytes("name", 1, len)
           errno == IF len > n THEN "ENAMETOOLONG" ELSE check_slice_of(mem, p, len, 1, 1)
           m == Encoded(errno, mem, p, name)
<1>1. mem \in Seq(Byte) /\ p \in Nat /\ len \in Nat /\ n \in Nat /\ n \in Ptr
  BY MemoryAssumption, StartupAssumption DEF IInv, TypeOK, Ptr
<1>2. name \in Seq(Byte) /\ Len(name) = len
  BY <1>1, BytesIs
<1>3. Result("dir_name", fd, p, n, errno, m)
  BY DEF fd_prestat_dir_name
<1>4. errno # "" /\ (errno = "ESUCCESS" => len <= n /\ p + len <= Len(mem))
  <2> DEFINE check == check_slice_of(mem, p, len, 1, 1)
  <2>1. /\ check \in {"ESUCCESS", "EINVAL", "EOVERFLOW", "EFAULT"}
        /\ check = "ESUCCESS" => p + len <= Len(mem)
    BY <1>1, ByteChecksAre
  <2> HIDE DEF check, len
  <2>2. errno = IF len > n THEN "ENAMETOOLONG" ELSE check
    BY DEF check
  <2> HIDE DEF errno
  <2>3. len > n \/ len <= n
    BY <1>1 DEF len
  <2> QED
    BY <2>1, <2>2, <2>3, Zenon
<1> HIDE DEF len, name, errno
<1>5. /\ m \in Seq(Byte) /\ Len(m) = Len(mem)
      /\ Diff(m, mem) \subseteq IF errno = "ESUCCESS" THEN Span(p, len) ELSE {}
  BY <1>1, <1>2, EncodedIs
<1>6. ASSUME errno = "ESUCCESS"
      PROVE  Whole("dir_name", fd, p, n, m)
  <2>1. Holds(m, p, name)
    BY <1>1, <1>2, <1>4, <1>6, WriteHolds DEF Encoded
  <2> QED
    BY <2>1 DEF Whole, name, len
<1>7. errno = "ESUCCESS" => Span(p, len) \subseteq Span(p, n)
  BY <1>1, <1>4 DEF Span
<1>8. /\ "dir_name" \in AtOnce /\ GivenTo("dir_name", p, n) = Span(p, n)
      /\ LeftBy("dir_name", p) = {}
  BY DEF AtOnce, GivenTo, LeftBy
<1> HIDE DEF m
<1> QED
  BY <1>1, <1>3, <1>4, <1>5, <1>6, <1>7, <1>8, ResultInv

LEMMA RandomGetInv ==
  ASSUME IInv, NEW p \in Ptr, NEW n \in Lens, random_get(p, n)
  PROVE  IInv'
<1> DEFINE bytes == Bytes("random", 0, n)
           errno == check_slice_of(mem, p, n, 1, 1)
           m == Encoded(errno, mem, p, bytes)
<1>1. mem \in Seq(Byte) /\ p \in Nat /\ n \in Nat /\ n \in Ptr
  BY MemoryAssumption, StartupAssumption DEF IInv, TypeOK, Ptr
<1>2. bytes \in Seq(Byte) /\ Len(bytes) = n
  BY <1>1, BytesIs
<1>3. Result("random_get", "none", p, n, errno, m)
  BY DEF random_get
<1>4. errno # ""
  BY <1>1, ByteChecksAre
<1> HIDE DEF bytes, errno
<1>5. /\ m \in Seq(Byte) /\ Len(m) = Len(mem)
      /\ Diff(m, mem) \subseteq IF errno = "ESUCCESS" THEN Span(p, n) ELSE {}
  BY <1>1, <1>2, EncodedIs
<1>6. /\ "random_get" \in AtOnce /\ GivenTo("random_get", p, n) = Span(p, n)
      /\ LeftBy("random_get", p) = {} /\ Whole("random_get", "none", p, n, m)
  BY DEF AtOnce, GivenTo, LeftBy, Whole
<1> HIDE DEF m
<1> QED
  BY <1>1, <1>3, <1>4, <1>5, <1>6, ResultInv

LEMMA ClockGetInv ==
  ASSUME IInv, NEW op \in {"clock_res_get", "clock_time_get"}, NEW host \in HostClock,
         NEW p \in Ptr, clock_get(op, host, p)
  PROVE  IInv'
<1> DEFINE time == IF host = "zero" THEN 0 ELSE 1
           bytes == Bytes("number", time, 2 * Word)
           errno == IF host \in {"EINVAL", "EOVERFLOW"} THEN host
                    ELSE IF op = "clock_res_get" /\ host = "zero" THEN "EINVAL"
                    ELSE dec_ptr_to(mem, p, 2 * Word, 2 * Word)
           m == Encoded(errno, mem, p, bytes)
<1>1. mem \in Seq(Byte) /\ p \in Nat /\ 2 * Word \in Nat \ {0} /\ time \in Nat
  BY MemoryAssumption DEF IInv, TypeOK, Ptr
<1>2. bytes \in Seq(Byte) /\ Len(bytes) = 2 * Word
  <2> HIDE DEF time
  <2> QED
    BY <1>1, BytesIs
<1>3. Result(op, "none", p, 0, errno, m)
  BY DEF clock_get
<1>4. errno # ""
  BY <1>1, ChecksAre
<1> HIDE DEF bytes, errno
<1>5. /\ m \in Seq(Byte) /\ Len(m) = Len(mem)
      /\ Diff(m, mem) \subseteq IF errno = "ESUCCESS" THEN Span(p, 2 * Word) ELSE {}
  BY <1>1, <1>2, EncodedIs
<1>6. /\ op \in AtOnce /\ GivenTo(op, p, 0) = Span(p, 2 * Word)
      /\ LeftBy(op, p) = {} /\ Whole(op, "none", p, 0, m) /\ 0 \in Ptr
  BY NoPointers DEF AtOnce, GivenTo, LeftBy, Whole
<1> HIDE DEF m
<1> QED
  BY <1>3, <1>4, <1>5, <1>6, ResultInv
----------------------------------------------------------------------------
(* The lists of strings *)

\* Of the list that is being copied.
LEMMA ListFacts ==
  ASSUME IInv, call.pc = "loop"
  PROVE  /\ call.op = "strings_get" /\ call.which \in ListName
         /\ List \in Seq(Nat) /\ Len(List) \in Nat
         /\ \A n \in 1..Len(List) : List[n] \in 1..PtrMax
         /\ Offset(List)[0] = 0
         /\ \A n \in 1..Len(List) : Offset(List)[n] = Offset(List)[n - 1] + List[n]
         /\ \A n \in 0..Len(List) : Offset(List)[n] \in Nat
         /\ \A n \in 0..Len(List) : Offset(List)[n] <= Total(List)
         /\ Total(List) \in Nat
<1>1. call.op = "strings_get" /\ call.which \in ListName /\ ctx \in Contexts
  BY DEF IInv, InStrings, TypeOK
<1>2. /\ List \in Seq(Nat) /\ Len(List) \in Nat
      /\ \A n \in 1..Len(List) : List[n] \in 1..PtrMax
      /\ Total(List) \in Nat
  BY <1>1, ListIs DEF List
<1>3. /\ Offset(List)[0] = 0
      /\ \A n \in 1..Len(List) : Offset(List)[n] = Offset(List)[n - 1] + List[n]
      /\ \A n \in 0..Len(List) : Offset(List)[n] \in Nat
  BY <1>2, OffsetStep
<1>4. \A n \in 0..Len(List) : Offset(List)[n] <= Total(List)
  <2> Len(List) \in 0..Len(List) /\ \A n \in 0..Len(List) : n <= Len(List)
    BY <1>2
  <2> QED
    BY <1>2, OffsetGrows DEF Total
<1> QED
  BY <1>1, <1>2, <1>3, <1>4

\* A strings_get begins: nothing is copied yet.
LEMMA StringsGetInv ==
  ASSUME IInv, NEW which \in ListName, NEW p \in Ptr, NEW q \in Ptr,
         strings_get(which, p, q)
  PROVE  IInv'
<1>1. /\ mem' = mem /\ before' = mem /\ ctx' = ctx
      /\ call' = [op |-> "strings_get", which |-> which, a |-> p, b |-> q, i |-> 0,
                  offset |-> 0, ptrs |-> <<>>, pc |-> "loop", ret |-> ""]
  BY DEF strings_get, Called
<1>2. /\ call'.op = "strings_get" /\ call'.which = which /\ call'.a = p /\ call'.b = q
      /\ call'.pc = "loop" /\ call'.i = 0 /\ call'.offset = 0 /\ call'.ptrs = <<>>
  BY <1>1
<1>3. TypeOK' /\ (Len(mem) \in MemLens)'
  <2>1. 0 \in Ptr /\ <<>> \in Seq(Ptr) /\ Len(<<>>) = 0
    BY NoPointers
  <2>2. mem \in Seq(Byte) /\ ctx \in Contexts /\ Len(mem) \in MemLens
    BY DEF IInv, TypeOK
  <2>3. call'.ptrs \in Seq(Ptr) /\ Len(call'.ptrs) = call'.i
    BY <1>2, <2>1
  <2>4. mem' \in Seq(Byte) /\ before' \in Seq(Byte) /\ Len(mem') = Len(before')
        /\ Len(mem') \in MemLens /\ ctx' \in Contexts
    BY <1>1, <2>2
  <2> QED
    BY <1>2, <2>1, <2>3, <2>4 DEF TypeOK
<1>4. Changed' = {}
  BY <1>1 DEF Changed
<1>5. ctx[which] \in Seq(Nat) /\ Len(ctx[which]) \in Nat
  BY ListIs DEF IInv, TypeOK
<1>6. List' = ctx[which]
  BY <1>1, <1>2 DEF List
<1>7. Offset(List')[0] = 0
  BY <1>5, <1>6, OffsetStep
<1>8. Copied'
  BY <1>2, <1>4 DEF Copied
<1>9. InStrings'
  BY <1>2, <1>5, <1>6, <1>7, <1>8 DEF InStrings
<1>10. WritesInside' /\ ResultWhole' /\ SpaceAnnounced' /\ FailureLeaves'
  BY <1>2, <1>4 DEF WritesInside, ResultWhole, SpaceAnnounced, FailureLeaves
<1> QED
  BY <1>1, <1>2, <1>3, <1>9, <1>10 DEF IInv, Fields

\* Where the next string goes: right behind the last one.
LEMMA NextString ==
  ASSUME IInv, call.pc = "loop", call.i < Len(List), ~Wraps
  PROVE  /\ call.i + 1 \in 1..Len(List)
         /\ (call.b + call.offset) % (PtrMax + 1) = At(call.i)
         /\ At(call.i) \in Ptr
         /\ At(call.i) + List[call.i + 1] = At(call.i + 1)
         /\ call.b + Total(List) >= At(call.i + 1)
<1> DEFINE i == call.i
<1>1. /\ Copied /\ call.offset = Offset(List)[i] /\ i \in 0..Len(List)
      /\ call.b \in Nat /\ call.b <= PtrMax
  BY DEF IInv, InStrings, TypeOK, Ptr
<1>2. i + 1 \in 1..Len(List) /\ (i + 1) - 1 = i /\ i + 1 \in 0..Len(List)
  <2>1. Len(List) \in Nat /\ i \in 0..Len(List) /\ i < Len(List)
    BY <1>1, ListFacts
  <2> HIDE DEF i
  <2> QED
    BY <2>1
<1>3. /\ Offset(List)[i + 1] = Offset(List)[i] + List[i + 1]
      /\ List[i + 1] \in Nat /\ List[i + 1] > 0
      /\ Offset(List)[i] \in Nat /\ Offset(List)[i + 1] <= Total(List)
      /\ Total(List) \in Nat /\ Offset(List)[0] = 0
      /\ Offset(List)[i + 1] \in Nat
  BY <1>1, <1>2, ListFacts, SMTT(30)
<1>4. Len(mem) \in Nat /\ Len(mem) <= PtrMax + 1 /\ PtrMax \in Nat
  BY MemoryAssumption, StartupAssumption DEF IInv
<1>5. Len(mem) # PtrMax + 1 \/ call.b + Total(List) <= Len(mem)
  BY <1>3, <1>4, <1>1, ListFacts DEF Wraps, List
<1> DEFINE b == call.b
           x == Offset(List)[i]
           y == Offset(List)[i + 1]
           len == List[i + 1]
           total == Total(List)
           size == Len(mem)
<1>6. /\ b \in Nat /\ b <= PtrMax /\ x \in Nat /\ y \in Nat /\ y = x + len
      /\ len \in Nat /\ len > 0 /\ total \in Nat /\ y <= total
      /\ size \in Nat /\ size <= PtrMax + 1 /\ PtrMax \in Nat
      /\ size # PtrMax + 1 \/ b + total <= size
  BY <1>1, <1>3, <1>4, <1>5
<1>7. x = 0 \/ b + x <= size
  BY <1>1, <1>3 DEF Copied, At
<1>8. At(i) = b + x /\ At(i + 1) = b + y /\ (b + call.offset) % (PtrMax + 1) = (b + x) % (PtrMax + 1)
  BY <1>1 DEF At
<1> HIDE DEF i, b, x, y, len, total, size
<1>9. b + x <= PtrMax
  BY <1>6, <1>7
<1>10. (b + x) % (PtrMax + 1) = b + x
  <2>1. ASSUME NEW n \in Nat, NEW m \in Nat, n <= m
        PROVE  n % (m + 1) = n
    BY <2>1
  <2>2. b + x \in Nat
    BY <1>6
  <2> QED
    BY <2>1, <2>2, <1>6, <1>9
<1>11. b + x \in Ptr /\ (b + x) + len = b + y /\ b + total >= b + y
  BY <1>6, <1>9 DEF Ptr
<1> QED
  BY <1>2, <1>8, <1>10, <1>11 DEF i, b, len, total
\* In a step of the loop the call stays the same.
SameCall ==
  /\ ctx' = ctx /\ before' = before /\ Len(mem') = Len(mem)
  /\ call'.op = call.op /\ call'.which = call.which
  /\ call'.a = call.a /\ call'.b = call.b

LEMMA SameCallKeeps ==
  ASSUME SameCall
  PROVE  /\ List' = List /\ (Wraps' <=> Wraps)
         /\ PointersAt' = PointersAt /\ StringsAt' = StringsAt /\ (Disjoint' <=> Disjoint)
         /\ call.op = "strings_get" => Given' = PointersAt \cup StringsAt
<1>1. List' = List
  BY DEF SameCall, List
<1>2. Wraps' <=> Wraps
  BY DEF SameCall, Wraps
<1>3. PointersAt' = PointersAt /\ StringsAt' = StringsAt
  BY DEF SameCall, PointersAt, StringsAt
<1>4. call.op = "strings_get" => Given' = PointersAt \cup StringsAt
  BY <1>3 DEF SameCall, Given
<1> QED
  BY <1>1, <1>2, <1>3, <1>4 DEF Disjoint

\* The places of the strings copied so far are among those of all strings.
LEMMA SomeOfStrings ==
  ASSUME IInv, call.pc = "loop", NEW n \in 0..Len(List)
  PROVE  Span(call.b, Offset(List)[n]) \subseteq StringsAt
<1>1. /\ Offset(List)[n] \in Nat /\ Total(List) \in Nat /\ Offset(List)[n] <= Total(List)
      /\ call.b \in Nat
  BY ListFacts, MemoryAssumption DEF IInv, TypeOK, Ptr
<1>2. StringsAt = Span(call.b, Total(List))
  BY DEF StringsAt, List
<1> QED
  BY <1>1, <1>2 DEF Span

\* What copy_string does to the memory.
LEMMA StringCopied ==
  ASSUME IInv, copy_string
  PROVE  \E errno :
    /\ SameCall /\ mem' \in Seq(Byte) /\ call.pc = "loop"
    /\ call.i \in Nat /\ call.i + 1 \in 1..Len(List)
    /\ \/ /\ errno # "ESUCCESS" /\ mem' = mem
          /\ call' = [call EXCEPT !.pc = "done", !.ret = errno]
       \/ /\ errno = "ESUCCESS" /\ Offset(List)[call.i + 1] > PtrMax
          /\ call' = [call EXCEPT !.pc = "done", !.ret = "EOVERFLOW"]
       \/ /\ errno = "ESUCCESS" /\ Offset(List)[call.i + 1] \in Ptr
          /\ \E p \in Ptr :
               /\ call' = [call EXCEPT !.i = @ + 1, !.offset = Offset(List)[call.i + 1],
                                       !.ptrs = Append(@, p)]
               /\ ~Wraps => p = At(call.i)
    /\ ~Wraps => /\ Diff(mem', mem) \subseteq Span(At(call.i), List[call.i + 1])
                 /\ errno = "ESUCCESS" =>
                      /\ At(call.i + 1) <= Len(mem)
                      /\ mem' = Write(mem, At(call.i),
                                      Bytes(call.which, call.i + 1, List[call.i + 1]))
                 /\ errno # "ESUCCESS" => ~(At(call.i + 1) <= Len(mem))
<1> DEFINE i == call.i + 1
           len == List[i]
           arg_ptr == (call.b + call.offset) % (PtrMax + 1)
           errno == check_slice_of(mem, arg_ptr, len, 1, 1)
           offset == Offset(List)[i]
           bytes == Bytes(call.which, i, len)
           m == Encoded(errno, mem, arg_ptr, bytes)
<1>1. /\ call.pc = "loop" /\ call.i < Len(List)
      /\ ctx' = ctx /\ before' = before /\ mem' = m
      /\ \/ errno # "ESUCCESS" /\ call' = [call EXCEPT !.pc = "done", !.ret = errno]
         \/ /\ errno = "ESUCCESS" /\ ~(call.offset + len <= PtrMax)
            /\ call' = [call EXCEPT !.pc = "done", !.ret = "EOVERFLOW"]
         \/ /\ errno = "ESUCCESS" /\ call.offset + len <= PtrMax
            /\ call' = [call EXCEPT !.i = i, !.offset = call.offset + len,
                                    !.ptrs = Append(@, arg_ptr)]
  BY DEF copy_string, InLoop, Return, advance, offset_fits, List
<1>2. /\ call.i \in 0..Len(List) /\ call.offset = Offset(List)[call.i]
      /\ call.b \in Ptr /\ call.offset \in Ptr /\ mem \in Seq(Byte)
      /\ Len(mem) \in Nat /\ Len(mem) <= UsizeMax
  BY <1>1, StartupAssumption, MemoryAssumption DEF IInv, InStrings, TypeOK
<1>3. i \in 1..Len(List) /\ i - 1 = call.i
  <2>1. Len(List) \in Nat
    BY <1>1, ListFacts
  <2> HIDE DEF len, arg_ptr, errno, offset, bytes, m
  <2> QED
    BY <2>1, <1>1, <1>2
<1>4. len \in Nat /\ offset = call.offset + len /\ offset \in Nat /\ call.which \in ListName
  BY <1>1, <1>2, <1>3, ListFacts, SMTT(30)
<1>5. arg_ptr \in Ptr
  BY <1>2, MemoryAssumption, SMTT(30) DEF Ptr
<1>6. bytes \in Seq(Byte) /\ Len(bytes) = len
  <2> i \in Nat
    BY <1>3
  <2> HIDE DEF i, len
  <2> QED
    BY <1>4, BytesIs DEF ListName
<1>7. /\ errno = "ESUCCESS" => arg_ptr + len <= Len(mem)
      /\ arg_ptr + len <= Len(mem) => errno = "ESUCCESS"
  <2> arg_ptr \in Nat
    BY <1>5, MemoryAssumption DEF Ptr
  <2> HIDE DEF arg_ptr, len
  <2> QED
    BY <1>2, <1>4, ByteChecksAre
<1>8. arg_ptr \in Nat
  BY <1>5, MemoryAssumption DEF Ptr
<1>9. ~Wraps => arg_ptr = At(call.i) /\ At(call.i) + len = At(i)
  BY <1>1, NextString
<1>10. PtrMax \in Nat
  BY MemoryAssumption
<1> HIDE DEF i, len, arg_ptr, errno, offset, bytes
<1>11. /\ m \in Seq(Byte) /\ Len(m) = Len(mem)
       /\ Diff(m, mem) \subseteq IF errno = "ESUCCESS" THEN Span(arg_ptr, len) ELSE {}
  BY <1>2, <1>6, <1>8, EncodedIs
<1>12. /\ errno = "ESUCCESS" => m = Write(mem, arg_ptr, bytes)
       /\ errno # "ESUCCESS" => m = mem
  BY DEF Encoded
<1> HIDE DEF m
<1>13. SameCall
  BY <1>1, <1>11 DEF SameCall, IInv, Fields
<1>14. ~Wraps => /\ Diff(mem', mem) \subseteq Span(At(call.i), len)
                 /\ errno = "ESUCCESS" =>
                      At(i) <= Len(mem) /\ mem' = Write(mem, At(call.i), bytes)
                 /\ errno # "ESUCCESS" => ~(At(i) <= Len(mem))
  BY <1>1, <1>7, <1>9, <1>11, <1>12
<1>15. \/ errno # "ESUCCESS" /\ mem' = mem /\ call' = [call EXCEPT !.pc = "done", !.ret = errno]
       \/ /\ errno = "ESUCCESS" /\ offset > PtrMax
          /\ call' = [call EXCEPT !.pc = "done", !.ret = "EOVERFLOW"]
       \/ /\ errno = "ESUCCESS" /\ offset \in Ptr
          /\ call' = [call EXCEPT !.i = i, !.offset = offset, !.ptrs = Append(@, arg_ptr)]
          /\ ~Wraps => arg_ptr = At(call.i)
  <2>1. offset <= PtrMax => offset \in Ptr
    BY <1>4, <1>10 DEF Ptr
  <2>2. ~(offset <= PtrMax) => offset > PtrMax
    BY <1>4, <1>10
  <2> QED
    BY <2>1, <2>2, <1>1, <1>4, <1>9, <1>12
<1>16. call.i \in Nat
  BY <1>2
<1> QED
  BY <1>1, <1>3, <1>5, <1>11, <1>13, <1>14, <1>15, <1>16 DEF i, len, offset, bytes
LEMMA CopyStringInv ==
  ASSUME IInv, copy_string
  PROVE  IInv'
<1> DEFINE i == call.i + 1
           offset == Offset(List)[i]
           len == List[i]
           bytes == Bytes(call.which, i, len)
<1>1. PICK errno :
        /\ SameCall /\ mem' \in Seq(Byte) /\ call.pc = "loop"
        /\ call.i \in Nat /\ i \in 1..Len(List)
        /\ \/ /\ errno # "ESUCCESS" /\ mem' = mem
              /\ call' = [call EXCEPT !.pc = "done", !.ret = errno]
           \/ /\ errno = "ESUCCESS" /\ offset > PtrMax
              /\ call' = [call EXCEPT !.pc = "done", !.ret = "EOVERFLOW"]
           \/ /\ errno = "ESUCCESS" /\ offset \in Ptr
              /\ \E p \in Ptr :
                   /\ call' = [call EXCEPT !.i = i, !.offset = offset, !.ptrs = Append(@, p)]
                   /\ ~Wraps => p = At(call.i)
        /\ ~Wraps => /\ Diff(mem', mem) \subseteq Span(At(call.i), len)
                     /\ errno = "ESUCCESS" =>
                          /\ At(i) <= Len(mem) /\ mem' = Write(mem, At(call.i), bytes)
                     /\ errno # "ESUCCESS" => ~(At(i) <= Len(mem))
  BY StringCopied
<1>2. /\ i \in 1..Len(List) /\ i \in 0..Len(List) /\ i \in Nat /\ i - 1 = call.i
      /\ call.i \in 0..Len(List) /\ Len(List) \in Nat /\ Len(List) > 0
      /\ \A n \in 1..i : n = i \/ n \in 1..call.i
      /\ \A n \in 1..call.i : /\ n \in 1..Len(List) /\ n \in 0..Len(List) /\ n \in Nat
                              /\ n - 1 \in 0..Len(List) /\ n <= call.i
  <2> DEFINE c == call.i
             size == Len(List)
  <2>1. c \in Nat /\ size \in Nat /\ c + 1 \in 1..size
    <3> HIDE DEF offset, len, bytes
    <3> QED
      BY <1>1, ListFacts
  <2> HIDE DEF c, size
  <2>2. /\ c + 1 \in 0..size /\ c + 1 \in Nat /\ (c + 1) - 1 = c
        /\ c \in 0..size /\ size > 0
        /\ \A n \in 1..(c + 1) : n = c + 1 \/ n \in 1..c
        /\ \A n \in 1..c : n \in 1..size /\ n \in 0..size /\ n \in Nat
                          /\ n - 1 \in 0..size /\ n <= c
    BY <2>1
  <2> QED
    BY <2>1, <2>2 DEF c, size
<1>3. DOMAIN call = Fields /\ TypeOK /\ Len(mem) \in MemLens
  BY DEF IInv
<1>4. /\ call.op = "strings_get" /\ call.which \in ListName /\ call.i \in 0..Len(List)
      /\ ~Wraps => Copied
  BY <1>1 DEF IInv, InStrings
<1>5. /\ Len(List) \in Nat /\ len \in Nat /\ len > 0 /\ Offset(List)[call.i] \in Nat
      /\ offset \in Nat /\ offset = Offset(List)[call.i] + len
      /\ Total(List) \in Nat /\ offset <= Total(List)
  <2>1. call.pc = "loop"
    BY <1>1
  <2> HIDE DEF i
  <2>2. len \in 1..PtrMax
    BY <2>1, <1>2, ListFacts
  <2>3. len \in Nat /\ len > 0
    <3> HIDE DEF len
    <3> QED
      BY <2>2, MemoryAssumption
  <2> QED
    BY <2>1, <2>3, <1>2, ListFacts
<1>6. /\ List' = List /\ (Wraps' <=> Wraps)
      /\ PointersAt' = PointersAt /\ StringsAt' = StringsAt
      /\ Given' = PointersAt \cup StringsAt
      /\ ctx' = ctx /\ before' = before /\ Len(mem') = Len(mem)
      /\ call'.op = "strings_get" /\ call'.which = call.which
      /\ call'.a = call.a /\ call'.b = call.b
  BY <1>1, <1>4, SameCallKeeps DEF SameCall
<1>7. /\ call.b \in Nat /\ mem \in Seq(Byte) /\ before \in Seq(Byte) /\ Len(mem) = Len(before)
  BY <1>3, MemoryAssumption DEF TypeOK, Ptr
<1>8. ~Wraps => Changed' \subseteq Span(call.b, offset)
  <2>1. Changed' = Diff(mem', before) /\ Changed = Diff(mem, before)
    BY <1>6 DEF Changed, Diff
  <2>2. Diff(mem', before) \subseteq Diff(mem', mem) \cup Diff(mem, before)
    BY <1>6, <1>7, DiffTwice
  <2>3. ~Wraps => Diff(mem', mem) \subseteq Span(At(call.i), len)
                  /\ Changed \subseteq Span(call.b, Offset(List)[call.i])
    BY <1>1, <1>4 DEF Copied
  <2>4. /\ Span(At(call.i), len) \subseteq Span(call.b, offset)
        /\ Span(call.b, Offset(List)[call.i]) \subseteq Span(call.b, offset)
    <3> DEFINE x == Offset(List)[call.i]
               b == call.b
    <3>1. b \in Nat /\ x \in Nat /\ len \in Nat /\ offset = x + len /\ At(call.i) = b + x
      BY <1>5, <1>7 DEF At
    <3> HIDE DEF b, x, len, offset
    <3>2. Span(b + x, len) \subseteq Span(b, offset) /\ Span(b, x) \subseteq Span(b, offset)
      BY <3>1 DEF Span
    <3> QED
      BY <3>1, <3>2 DEF b, x
  <2> QED
    BY <2>1, <2>2, <2>3, <2>4
<1>9. Span(call.b, offset) \subseteq StringsAt
  <2> HIDE DEF i
  <2> QED
    BY <1>1, <1>2, SomeOfStrings
<1>10. WritesInside'
  BY <1>6, <1>8, <1>9 DEF WritesInside
<1>11. CASE errno = "ESUCCESS" /\ offset \in Ptr
             /\ \E p \in Ptr :
                  /\ call' = [call EXCEPT !.i = i, !.offset = offset, !.ptrs = Append(@, p)]
                  /\ ~Wraps => p = At(call.i)
  <2>1. PICK p \in Ptr :
          /\ call' = [call EXCEPT !.i = i, !.offset = offset, !.ptrs = Append(@, p)]
          /\ ~Wraps => p = At(call.i)
    BY <1>11
  <2>2. /\ call'.i = i /\ call'.offset = offset /\ call'.ptrs = Append(call.ptrs, p)
        /\ call'.pc = "loop" /\ DOMAIN call' = Fields
    BY <2>1, <1>1, <1>3 DEF Fields
  <2>3. TypeOK'
    <3>1. call.ptrs \in Seq(Ptr) /\ Len(call.ptrs) = call.i
      BY <1>3 DEF TypeOK
    <3>2. Append(call.ptrs, p) \in Seq(Ptr) /\ Len(Append(call.ptrs, p)) = i
      BY <3>1
    <3> HIDE DEF i, offset
    <3> QED
      BY <3>2, <2>2, <1>1, <1>3, <1>6, <1>7, <1>11 DEF TypeOK
  <2>4. ASSUME ~Wraps
        PROVE  Copied'
    <3>1. At(i) <= Len(mem) /\ mem' = Write(mem, At(call.i), bytes) /\ p = At(call.i) /\ Copied
      BY <2>4, <1>1, <1>4, <1>11, <2>1
    <3>2. call.ptrs \in Seq(Ptr) /\ Len(call.ptrs) = call.i
      BY <1>3 DEF TypeOK
    <3>3. \A n : At(n)' = call.b + Offset(List)[n]
      BY <1>6 DEF At
    <3>4. bytes \in Seq(Byte) /\ Len(bytes) = len /\ At(call.i) \in Nat
      <4> HIDE DEF i, len
      <4>1. At(call.i) \in Nat
        BY <1>5, <1>7 DEF At
      <4> QED
        BY <4>1, <1>2, <1>4, <1>5, BytesIs DEF ListName
    <3>5. Holds(mem', At(call.i), bytes)
      <4>1. At(call.i) + len <= Len(mem)
        <5> HIDE DEF i, len
        <5> QED
          BY <3>1, <1>5, <1>7 DEF At
      <4> HIDE DEF bytes, len
      <4> QED
        BY <4>1, <3>1, <3>4, <1>7, WriteHolds
    <3>6. ASSUME NEW n \in 1..call.i
          PROVE  /\ call'.ptrs[n] = At(n - 1)
                 /\ Holds(mem', At(n - 1), Bytes(call.which, n, List[n]))
      <4> DEFINE other == Bytes(call.which, n, List[n])
      <4>1. call.ptrs[n] = At(n - 1) /\ Holds(mem, At(n - 1), other)
        BY <3>1 DEF Copied
      <4>2. /\ n \in 1..Len(List) /\ n \in 0..Len(List) /\ n - 1 \in 0..Len(List)
            /\ n <= call.i /\ n \in Nat /\ call.i \in 0..Len(List)
        BY <1>2
      <4>3. /\ Offset(List)[n] <= Offset(List)[call.i]
            /\ Offset(List)[n] = Offset(List)[n - 1] + List[n]
            /\ Offset(List)[n] \in Nat /\ Offset(List)[n - 1] \in Nat /\ List[n] \in Nat
        <5> HIDE DEF i, len, offset, bytes, other
        <5>1. call.pc = "loop"
          BY <1>1
        <5>2. List \in Seq(Nat) /\ Offset(List)[n] \in Nat /\ Offset(List)[n - 1] \in Nat
              /\ Offset(List)[n] = Offset(List)[n - 1] + List[n]
              /\ List[n] \in 1..PtrMax
          BY <5>1, <4>2, ListFacts
        <5>3. List[n] \in Nat
          BY <5>2, MemoryAssumption
        <5>4. Offset(List)[n] <= Offset(List)[call.i]
          BY <5>2, <4>2, OffsetGrows
        <5> QED
          BY <5>2, <5>3, <5>4
      <4>4. other \in Seq(Byte) /\ Len(other) = List[n]
        BY <4>2, <4>3, <1>4, BytesIs DEF ListName
      <4> HIDE DEF other, bytes, i, len, offset
      <4>5. At(n - 1) \in Nat
        BY <4>3, <1>7 DEF At
      <4>6. Span(At(n - 1), Len(other)) \cap Span(At(call.i), Len(bytes)) = {}
        <5> DEFINE x == Offset(List)[n - 1]
                   y == Offset(List)[call.i]
                   b == call.b
        <5>1. /\ x \in Nat /\ y \in Nat /\ b \in Nat /\ Len(other) \in Nat /\ Len(bytes) \in Nat
              /\ x + Len(other) <= y /\ At(n - 1) = b + x /\ At(call.i) = b + y
          BY <4>3, <4>4, <3>4, <1>5, <1>7 DEF At
        <5> HIDE DEF x, y, b
        <5>2. Span(b + x, Len(other)) \cap Span(b + y, Len(bytes)) = {}
          BY <5>1 DEF Span
        <5> QED
          BY <5>1, <5>2
      <4>7. Holds(mem', At(n - 1), other)
        BY <3>1, <3>4, <4>1, <4>4, <4>5, <4>6, <1>7, WriteKeeps
      <4>8. call'.ptrs[n] = call.ptrs[n]
        BY <2>2, <3>2
      <4> QED
        BY <4>1, <4>7, <4>8 DEF other
    <3>7. call'.ptrs[i] = At(i - 1) /\ i - 1 = call.i
      <4>1. i = Len(call.ptrs) + 1
        BY <3>2
      <4> HIDE DEF i
      <4> QED
        BY <4>1, <2>2, <3>1, <3>2, <1>2
    <3>8. \A n \in 1..i : n = i \/ n \in 1..call.i
      BY <1>2
    <3>9. \A n \in 1..i : /\ call'.ptrs[n] = At(n - 1)
                          /\ Holds(mem', At(n - 1), Bytes(call.which, n, List[n]))
      BY <3>5, <3>6, <3>7, <3>8
    <3> HIDE DEF i, offset, len, bytes
    <3> QED
      BY <3>1, <3>3, <3>9, <2>2, <2>4, <1>6, <1>8 DEF Copied, At, offset
  <2>5. InStrings'
    <3> HIDE DEF i
    <3> QED
      BY <1>2, <2>2, <2>4, <1>4, <1>6 DEF InStrings, offset
  <2>6. ResultWhole' /\ SpaceAnnounced' /\ FailureLeaves'
    BY <2>2 DEF ResultWhole, SpaceAnnounced, FailureLeaves
  <2> QED
    BY <2>2, <2>3, <2>5, <2>6, <1>3, <1>6, <1>10 DEF IInv
<1>12. ASSUME NEW e, e # "ESUCCESS", call' = [call EXCEPT !.pc = "done", !.ret = e],
              ~Wraps => ~(At(i) <= Len(mem)) \/ offset > PtrMax
       PROVE  IInv'
  <2>1. /\ call'.pc = "done" /\ call'.ret = e /\ call'.i = call.i
        /\ call'.offset = call.offset /\ call'.ptrs = call.ptrs /\ DOMAIN call' = Fields
    BY <1>3, <1>12 DEF Fields
  <2>2. TypeOK'
    BY <2>1, <1>1, <1>3, <1>6 DEF TypeOK
  <2>3. InStrings' /\ ResultWhole'
    BY <2>1, <1>12 DEF InStrings, ResultWhole
  <2>4. FailureLeaves'
    BY <1>6, <1>8, <1>9 DEF FailureLeaves
  <2>5. SpaceAnnounced'
    <3>1. ASSUME ~Wraps, Len(List) > 0 => call.b + Total(List) <= Len(mem),
                 Total(List) <= PtrMax
          PROVE  FALSE
      <4>1. Len(List) > 0
        BY <1>2
      <4>2. At(i) <= Len(mem)
        <5>1. At(i) = call.b + offset /\ Len(mem) \in Nat
          BY <1>7 DEF At
        <5> HIDE DEF i, offset
        <5> QED
          BY <5>1, <4>1, <3>1, <1>5, <1>7
      <4>3. ~(offset > PtrMax)
        <5> HIDE DEF i, offset
        <5> QED
          BY <3>1, <1>5, MemoryAssumption
      <4> QED
        BY <4>2, <4>3, <3>1, <1>12
    <3>2. ctx'[call'.which] = List
      BY <1>6 DEF List
    <3> QED
      BY <3>1, <3>2, <2>1, <1>6, <1>12 DEF SpaceAnnounced
  <2> QED
    BY <2>1, <2>2, <2>3, <2>4, <2>5, <1>3, <1>6, <1>10 DEF IInv
<1>13. CASE errno # "ESUCCESS" /\ call' = [call EXCEPT !.pc = "done", !.ret = errno]
  BY <1>1, <1>12, <1>13
<1>14. CASE offset > PtrMax /\ call' = [call EXCEPT !.pc = "done", !.ret = "EOVERFLOW"]
  <2> HIDE DEF offset
  <2> QED
    BY <1>12, <1>14
<1> QED
  BY <1>1, <1>11, <1>13, <1>14
\* The array of pointers holds each of them.
LEMMA PointerBytesIs ==
  ASSUME NEW ptrs \in Seq(Ptr)
  PROVE  /\ PointerBytes(ptrs) \in Seq(Byte) /\ Len(PointerBytes(ptrs)) = Word * Len(ptrs)
         /\ \A m \in Seq(Byte), a \in Nat, n \in 1..Len(ptrs) :
              Holds(m, a, PointerBytes(ptrs)) => NumberAt(m, a + Word * (n - 1), ptrs[n])
<1> DEFINE w == Word
           len == Len(ptrs)
           bytes == PointerBytes(ptrs)
           At1(j) == <<"number", ptrs[((j - 1) \div w) + 1], ((j - 1) % w) + 1>>
<1>1. w \in Nat \ {0} /\ len \in Nat /\ w * len \in Nat /\ len * w = w * len
  BY MemoryAssumption
<1>2. bytes = [j \in 1..(w * len) |-> At1(j)]
  BY <1>1 DEF PointerBytes
<1>3. ASSUME NEW n \in 1..len, NEW k \in 1..w
      PROVE  /\ w * (n - 1) + k \in 1..(w * len)
             /\ ((w * (n - 1) + k) - 1) \div w = n - 1
             /\ ((w * (n - 1) + k) - 1) % w = k - 1
  <2>1. ASSUME NEW q \in Nat, NEW r \in Nat, NEW m \in Nat \ {0}, r < m
        PROVE  (m * q + r) \div m = q /\ (m * q + r) % m = r
    BY <2>1
  <2>2. n - 1 \in Nat /\ k - 1 \in Nat /\ k - 1 < w
    BY <1>1
  <2>3. (w * (n - 1) + (k - 1)) \div w = n - 1 /\ (w * (n - 1) + (k - 1)) % w = k - 1
    BY <2>1, <2>2, <1>1
  <2>4. w * (n - 1) \in Nat /\ w * (n - 1) + w <= w * len
    <3>1. ASSUME NEW x \in Nat, NEW y \in Nat, NEW m \in Nat, x + 1 <= y
          PROVE  m * x + m <= m * y
      BY <3>1
    <3>2. (n - 1) + 1 <= len /\ w \in Nat
      BY <1>1
    <3> QED
      BY <3>1, <3>2, <2>2, <1>1
  <2>5. (w * (n - 1) + k) - 1 = w * (n - 1) + (k - 1)
    BY <2>4, <1>1
  <2>6. w * (n - 1) + k \in 1..(w * len)
    BY <2>4, <1>1
  <2> QED
    BY <2>3, <2>5, <2>6
<1>4. ASSUME NEW j \in 1..(w * len)
      PROVE  At1(j) \in Byte
  <2> DEFINE q == (j - 1) \div w
             r == (j - 1) % w
  <2>1. ASSUME NEW x \in Nat, NEW m \in Nat \ {0}, NEW l \in Nat, x < m * l
        PROVE  x \div m \in Nat /\ x \div m < l /\ x % m \in Nat
    <3> DEFINE d == x \div m
    <3>1. d \in Nat /\ x % m \in Nat /\ m * d <= x
      OBVIOUS
    <3> HIDE DEF d
    <3>2. d < l
      <4>1. ASSUME l <= d
            PROVE  FALSE
        <5>1. ASSUME NEW u \in Nat, NEW v \in Nat, NEW t \in Nat, u <= v
              PROVE  t * u <= t * v
          BY <5>1
        <5>2. m * l <= m * d
          BY <5>1, <4>1, <3>1
        <5>3. m * l \in Nat /\ m * d \in Nat
          BY <3>1
        <5> QED
          BY <5>2, <5>3, <3>1, <2>1
      <4> QED
        BY <4>1, <3>1
    <3> QED
      BY <3>1, <3>2 DEF d
  <2>2. j - 1 \in Nat /\ j - 1 < w * len
    BY <1>1
  <2>3. q \in Nat /\ q < len /\ r \in Nat
    BY <2>1, <2>2, <1>1
  <2> HIDE DEF q, r
  <2>4. q + 1 \in 1..len /\ r + 1 \in Nat
    BY <2>3, <1>1
  <2>5. ptrs[q + 1] \in Nat
    <3>1. ptrs[q + 1] \in Ptr
      BY <2>4
    <3> QED
      BY <3>1, MemoryAssumption DEF Ptr
  <2>6. <<"number", ptrs[q + 1], r + 1>> \in Byte
    BY <2>4, <2>5 DEF Byte
  <2> QED
    BY <2>6 DEF q, r
<1>5. bytes \in Seq(Byte) /\ Len(bytes) = w * len
  <2> HIDE DEF At1, bytes
  <2>1. bytes \in [1..(w * len) -> Byte]
    BY <1>2, <1>4
  <2> QED
    BY <2>1, <1>1
<1>6. ASSUME NEW n \in 1..len, NEW k \in 1..w
      PROVE  bytes[w * (n - 1) + k] = <<"number", ptrs[n], k>>
  <2>1. (n - 1) + 1 = n /\ (k - 1) + 1 = k
    BY <1>1
  <2>2. At1(w * (n - 1) + k) = <<"number", ptrs[(n - 1) + 1], (k - 1) + 1>>
    BY <1>3
  <2> HIDE DEF bytes, At1, w
  <2>3. bytes[w * (n - 1) + k] = At1(w * (n - 1) + k)
    BY <1>2, <1>3
  <2> QED
    BY <2>1, <2>2, <2>3
<1>7. ASSUME NEW m \in Seq(Byte), NEW a \in Nat, NEW n \in 1..len, Holds(m, a, bytes)
      PROVE  NumberAt(m, a + w * (n - 1), ptrs[n])
  <2> DEFINE x == w * (n - 1)
             number == Bytes("number", ptrs[n], w)
  <2>1. Len(number) = w /\ \A k \in 1..w : number[k] = <<"number", ptrs[n], k>>
    BY <1>1, BytesIs
  <2>2. x \in Nat /\ x + w <= w * len
    <3>1. x + w \in 1..(w * len) /\ n - 1 \in Nat
      BY <1>1, <1>3
    <3>2. x \in Nat
      BY <3>1, <1>1
    <3> HIDE DEF x
    <3> QED
      BY <3>1, <3>2, <1>1
  <2> HIDE DEF bytes, number
  <2>3. a + w * len <= Len(m) /\ \A k \in 1..(w * len) : m[a + k] = bytes[k]
    BY <1>5, <1>7 DEF Holds
  <2>4. (a + x) + w <= Len(m)
    <3> HIDE DEF x
    <3> QED
      BY <2>2, <2>3, <1>1
  <2>5. ASSUME NEW k \in 1..w
        PROVE  m[(a + x) + k] = number[k]
    <3>1. x + k \in 1..(w * len) /\ bytes[x + k] = <<"number", ptrs[n], k>>
      BY <1>3, <1>6
    <3>2. (a + x) + k = a + (x + k)
      <4> HIDE DEF x
      <4> QED
        BY <2>2, <1>1
    <3> HIDE DEF x
    <3> QED
      BY <3>1, <3>2, <2>1, <2>3
  <2>6. Holds(m, a + x, number)
    <3> HIDE DEF x
    <3> QED
      BY <2>1, <2>4, <2>5 DEF Holds
  <2> QED
    BY <2>6 DEF NumberAt, number
<1> QED
  BY <1>5, <1>7
LEMMA CopyPointersInv ==
  ASSUME IInv, copy_pointers
  PROVE  IInv'
<1> DEFINE len == Len(List)
           pointers == PointerBytes(call.ptrs)
           errno == check_slice_of(mem, call.a, Len(call.ptrs), Word, Word)
           m == Encoded(errno, mem, call.a, pointers)
<1>1. /\ call.pc = "loop" /\ ~(call.i < len)
      /\ ctx' = ctx /\ before' = before /\ mem' = m
      /\ call' = [call EXCEPT !.pc = "done", !.ret = errno]
  BY DEF copy_pointers, InLoop, Return, List
<1>2. /\ DOMAIN call = Fields /\ TypeOK /\ Len(mem) \in MemLens
      /\ call.i \in 0..len /\ call.offset = Offset(List)[call.i]
      /\ ~Wraps => Copied
  BY <1>1 DEF IInv, InStrings
<1>3. len \in Nat /\ Total(List) \in Nat /\ call.op = "strings_get" /\ call.which \in ListName
  BY <1>1, ListFacts
<1>4. call.i = len
  <2> HIDE DEF len
  <2> QED
    BY <1>1, <1>2, <1>3
<1>5. /\ call.a \in Nat /\ call.b \in Nat /\ mem \in Seq(Byte) /\ before \in Seq(Byte)
      /\ Len(mem) = Len(before) /\ Len(mem) \in Nat /\ Len(mem) <= UsizeMax
      /\ call.ptrs \in Seq(Ptr) /\ Len(call.ptrs) = len /\ Word \in Nat \ {0}
      /\ Total(List) <= PtrMax
  <2>1. call.offset \in Ptr /\ call.offset = Total(List)
    BY <1>2, <1>4 DEF TypeOK, Total
  <2>2. Total(List) <= PtrMax
    BY <2>1 DEF Ptr
  <2> QED
    BY <2>2, <1>2, <1>4, MemoryAssumption, StartupAssumption DEF TypeOK, Ptr
<1>6. pointers \in Seq(Byte) /\ Len(pointers) = Word * len /\ Word * len \in Nat
  BY <1>3, <1>5, PointerBytesIs
<1>7. errno = "ESUCCESS" <=> call.a % Word = 0 /\ call.a + Word * len <= Len(mem)
  <2> HIDE DEF len
  <2> QED
    BY <1>3, <1>5, SliceChecksAre
<1> HIDE DEF len, pointers, errno
<1>8. /\ m \in Seq(Byte) /\ Len(m) = Len(mem)
      /\ Diff(m, mem) \subseteq IF errno = "ESUCCESS" THEN Span(call.a, Word * len) ELSE {}
      /\ errno = "ESUCCESS" => m = Write(mem, call.a, pointers)
      /\ errno # "ESUCCESS" => m = mem
  <2>1. /\ m \in Seq(Byte) /\ Len(m) = Len(mem)
        /\ Diff(m, mem) \subseteq IF errno = "ESUCCESS" THEN Span(call.a, Word * len) ELSE {}
    BY <1>5, <1>6, EncodedIs
  <2> QED
    BY <2>1 DEF Encoded
<1> HIDE DEF m
<1>9. /\ call'.op = "strings_get" /\ call'.which = call.which /\ call'.a = call.a
      /\ call'.b = call.b /\ call'.pc = "done" /\ call'.ret = errno /\ call'.i = call.i
      /\ call'.offset = call.offset /\ call'.ptrs = call.ptrs /\ DOMAIN call' = Fields
  BY <1>1, <1>2, <1>3 DEF Fields
<1>10. SameCall
  BY <1>1, <1>3, <1>8, <1>9 DEF SameCall
<1>11. /\ List' = List /\ (Wraps' <=> Wraps)
       /\ PointersAt' = PointersAt /\ StringsAt' = StringsAt /\ (Disjoint' <=> Disjoint)
       /\ Given' = PointersAt \cup StringsAt
  BY <1>3, <1>10, SameCallKeeps
<1>12. PointersAt = Span(call.a, Word * len) /\ StringsAt = Span(call.b, Total(List))
  BY DEF PointersAt, StringsAt, List, len
<1>13. TypeOK'
  BY <1>1, <1>2, <1>5, <1>8, <1>9 DEF TypeOK
<1>14. Changed' \subseteq Changed \cup Diff(m, mem)
  <2>1. Changed' = Diff(m, before) /\ Changed = Diff(mem, before)
    BY <1>1 DEF Changed, Diff
  <2>2. Diff(m, before) \subseteq Diff(m, mem) \cup Diff(mem, before)
    BY <1>5, <1>8, DiffTwice
  <2> QED
    BY <2>1, <2>2
<1>15. ~Wraps => Changed \subseteq StringsAt
  BY <1>2, <1>4, <1>12 DEF Copied, Total, len
<1>16. WritesInside' /\ FailureLeaves'
  <2>1. WritesInside'
    BY <1>8, <1>11, <1>12, <1>14, <1>15 DEF WritesInside
  <2>2. FailureLeaves'
    BY <1>8, <1>9, <1>11, <1>14, <1>15 DEF FailureLeaves
  <2> QED
    BY <2>1, <2>2
<1>17. InStrings'
  BY <1>9 DEF InStrings
<1>18. SpaceAnnounced'
  <2>1. ctx'[call'.which] = List
    BY <1>1, <1>9 DEF List
  <2>2. ~Wraps => (len > 0 => call.b + Total(List) <= Len(mem))
    BY <1>2, <1>4 DEF Copied, At, Total, len
  <2>3. Len(mem') = Len(mem)
    BY <1>1, <1>8
  <2>4. errno = "ESUCCESS" <=> call.a % Word = 0 /\ call.a + Word * Len(List) <= Len(mem)
    BY <1>7 DEF len
  <2>5. ~Wraps => (Len(List) > 0 => call.b + Total(List) <= Len(mem))
    BY <2>2 DEF len
  <2>6. Total(List) <= PtrMax
    BY <1>5
  <2> DEFINE room == Len(List) > 0 => call.b + Total(List) <= Len(mem)
             array == call.a % Word = 0 /\ call.a + Word * Len(List) <= Len(mem)
  <2>7. SpaceAnnounced' =
          (~Wraps' => (errno = "ESUCCESS" <=> (array /\ room) /\ Total(List) <= PtrMax))
    BY <1>9, <2>1, <2>3 DEF SpaceAnnounced
  <2> HIDE DEF room, array
  <2>8. (errno = "ESUCCESS" <=> array) /\ (~Wraps => room)
    BY <2>4, <2>5 DEF room, array
  <2> QED
    BY <2>6, <2>7, <2>8, <1>11
<1>19. ResultWhole'
  <2>1. ASSUME errno = "ESUCCESS", ~Wraps, NEW n \in 1..len
        PROVE  /\ NumberAt(m, call.a + Word * (n - 1), At(n - 1))
               /\ Disjoint => Holds(m, At(n - 1), Bytes(call.which, n, List[n]))
    <3> DEFINE other == Bytes(call.which, n, List[n])
    <3>1. call.ptrs[n] = At(n - 1) /\ Holds(mem, At(n - 1), other)
      BY <2>1, <1>2, <1>4 DEF Copied
    <3>2. m = Write(mem, call.a, pointers) /\ call.a + Len(pointers) <= Len(mem)
      BY <2>1, <1>6, <1>7, <1>8
    <3>3. Holds(m, call.a, pointers)
      BY <3>2, <1>5, <1>6, WriteHolds
    <3>4. NumberAt(m, call.a + Word * (n - 1), call.ptrs[n])
      BY <3>3, <1>5, <1>8, PointerBytesIs DEF pointers
    <3>5. n \in 1..Len(List) /\ n \in 0..Len(List) /\ n - 1 \in 0..Len(List) /\ n \in Nat
      BY <1>3 DEF len
    <3>6. /\ Offset(List)[n] = Offset(List)[n - 1] + List[n]
          /\ Offset(List)[n] \in Nat /\ Offset(List)[n - 1] \in Nat
          /\ Offset(List)[n] <= Total(List) /\ List[n] \in 1..PtrMax
      BY <3>5, <1>1, ListFacts
    <3>7. List[n] \in Nat
      BY <3>6, MemoryAssumption
    <3>8. other \in Seq(Byte) /\ Len(other) = List[n]
      BY <3>5, <3>7, <1>3, BytesIs DEF ListName
    <3> HIDE DEF other
    <3>9. At(n - 1) \in Nat
      BY <3>6, <1>5 DEF At
    <3>10. Span(At(n - 1), Len(other)) \subseteq StringsAt
      <4> DEFINE x == Offset(List)[n - 1]
                 b == call.b
                 total == Total(List)
      <4>1. /\ x \in Nat /\ b \in Nat /\ total \in Nat /\ Len(other) \in Nat
            /\ x + Len(other) <= total /\ At(n - 1) = b + x
        BY <3>6, <3>7, <3>8, <1>3, <1>5 DEF At
      <4> HIDE DEF x, b, total
      <4>2. Span(b + x, Len(other)) \subseteq Span(b, total)
        BY <4>1 DEF Span
      <4> QED
        BY <4>1, <4>2, <1>12 DEF b, total
    <3>11. Disjoint => Span(At(n - 1), Len(other)) \cap Span(call.a, Len(pointers)) = {}
      BY <3>10, <1>6, <1>12 DEF Disjoint
    <3>12. Disjoint => Holds(m, At(n - 1), other)
      BY <3>1, <3>2, <3>8, <3>9, <3>11, <1>5, <1>6, WriteKeeps
    <3> QED
      BY <3>1, <3>4, <3>12 DEF other
  <2>2. ctx'[call'.which] = List
    BY <1>1, <1>9 DEF List
  <2> QED
    BY <2>1, <2>2, <1>1, <1>9, <1>11 DEF ResultWhole, At, len
<1> QED
  BY <1>1, <1>2, <1>8, <1>9, <1>13, <1>16, <1>17, <1>18, <1>19 DEF IInv

----------------------------------------------------------------------------
(* The invariant *)

LEMMA InitIInv == Init => IInv
<1> SUFFICES ASSUME Init
             PROVE  IInv
  OBVIOUS
<1>1. PICK len \in MemLens : mem = Bytes("old", 0, len)
  BY DEF Init
<1>2. /\ ctx \in Contexts /\ before = mem
      /\ call = [op |-> "none", which |-> "none", a |-> 0, b |-> 0, i |-> 0, offset |-> 0,
                 ptrs |-> <<>>, pc |-> "done", ret |-> "ESUCCESS"]
  BY DEF Init, NoCall, Called
<1>3. /\ call.op = "none" /\ call.a = 0 /\ call.b = 0 /\ call.pc = "done"
      /\ call.i = 0 /\ call.offset = 0 /\ call.ptrs = <<>> /\ DOMAIN call = Fields
  BY <1>2 DEF Fields
<1>4. mem \in Seq(Byte) /\ Len(mem) = len
  <2>1. len \in Nat
    BY MemoryAssumption, StartupAssumption
  <2> QED
    BY <2>1, <1>1, BytesIs
<1>5. 0 \in Ptr /\ <<>> \in Seq(Ptr) /\ Len(<<>>) = 0
  BY NoPointers
<1>6. call.ptrs \in Seq(Ptr) /\ Len(call.ptrs) = call.i
  BY <1>3, <1>5
<1>7. TypeOK
  BY <1>2, <1>3, <1>4, <1>5, <1>6 DEF TypeOK
<1>8. Changed = {}
  BY <1>2 DEF Changed
<1>9. InStrings /\ WritesInside /\ ResultWhole /\ SpaceAnnounced /\ FailureLeaves
  BY <1>3, <1>8 DEF InStrings, WritesInside, ResultWhole, SpaceAnnounced, FailureLeaves
<1> QED
  BY <1>3, <1>4, <1>7, <1>9 DEF IInv

LEMMA StutterIInv ==
  ASSUME IInv, UNCHANGED vars
  PROVE  IInv'
<1> USE DEF vars
<1>1. /\ List' = List /\ Changed' = Changed /\ (Wraps' <=> Wraps)
      /\ PointersAt' = PointersAt /\ StringsAt' = StringsAt
  BY DEF List, Changed, Wraps, PointersAt, StringsAt
<1>2. Given' = Given /\ (Disjoint' <=> Disjoint)
  BY <1>1 DEF Given, Disjoint
<1>3. TypeOK'
  BY DEF IInv, TypeOK
<1>4. Copied => Copied'
  BY <1>1 DEF Copied, At
<1>5. InStrings'
  BY <1>1, <1>4 DEF IInv, InStrings
<1>6. WritesInside' /\ FailureLeaves'
  BY <1>1, <1>2 DEF IInv, WritesInside, FailureLeaves
<1>7. ResultWhole' /\ SpaceAnnounced'
  BY <1>1, <1>2 DEF IInv, ResultWhole, SpaceAnnounced
<1> QED
  BY <1>3, <1>5, <1>6, <1>7 DEF IInv

LEMMA NextIInv == IInv /\ [Next]_vars => IInv'
<1> SUFFICES ASSUME IInv, [Next]_vars
             PROVE  IInv'
  OBVIOUS
<1>1. ASSUME NEW p \in Ptr, NEW q \in Ptr, args_sizes_get(p, q) \/ environ_sizes_get(p, q)
      PROVE  IInv'
  BY <1>1, ArgsSizesGetInv, EnvironSizesGetInv
<1>2. ASSUME NEW which \in ListName, NEW p \in Ptr, NEW q \in Ptr, strings_get(which, p, q)
      PROVE  IInv'
  BY <1>2, StringsGetInv
<1>3. CASE copy_string \/ copy_pointers
  BY <1>3, CopyStringInv, CopyPointersInv
<1>4. ASSUME NEW fd \in DOMAIN Preopens, NEW p \in Ptr, fd_prestat_get(fd, p)
      PROVE  IInv'
  BY <1>4, PrestatGetInv
<1>5. ASSUME NEW fd \in DOMAIN Preopens, NEW p \in Ptr, NEW n \in Lens,
             fd_prestat_dir_name(fd, p, n)
      PROVE  IInv'
  BY <1>5, DirNameInv
<1>6. ASSUME NEW p \in Ptr, NEW n \in Lens, random_get(p, n)
      PROVE  IInv'
  BY <1>6, RandomGetInv
<1>7. ASSUME NEW op \in {"clock_res_get", "clock_time_get"}, NEW host \in HostClock,
             NEW p \in Ptr, clock_get(op, host, p)
      PROVE  IInv'
  BY <1>7, ClockGetInv
<1>8. CASE Over \/ UNCHANGED vars
  BY <1>8, StutterIInv DEF Over
<1> QED
  BY <1>1, <1>2, <1>3, <1>4, <1>5, <1>6, <1>7, <1>8 DEF Next

LEMMA Invariance == Spec => []IInv
  BY InitIInv, NextIInv, PTL DEF Spec

\* In every reachable state the variables have the types of the code's values,
\* and args_get has one pointer per string copied, each as wide as a guest's.
THEOREM TypeCorrect == Spec => []TypeOK
  BY Invariance, PTL DEF IInv

\* No startup call writes outside of the places the guest gave it, in spite of
\* the unchecked addition with which args_get finds the place of a string.
THEOREM NoStrayWrite == Spec => []WritesInside
  BY Invariance, PTL DEF IInv

\* What a startup call that succeeds has left in memory is its whole result.
THEOREM WholeResult == Spec => []ResultWhole
  BY Invariance, PTL DEF IInv

\* What the sizes calls announce is what args_get and environ_get need: no less,
\* and no more.
THEOREM EnoughSpace == Spec => []SpaceAnnounced
  BY Invariance, PTL DEF IInv

\* What a startup call that fails may have written.
THEOREM FailureIsContained == Spec => []FailureLeaves
  BY Invariance, PTL DEF IInv
=============================================================================
