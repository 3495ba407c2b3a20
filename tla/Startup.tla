------------------------------- MODULE Startup -------------------------------
(***************************************************************************)
(* The calls with which a guest's startup code learns its arguments,       *)
(* environment and preopens, and the other calls whose only effect is a    *)
(* result in guest memory (src/src/hostcalls/misc.rs, fs.rs): for a list   *)
(* of strings first the sizes, then the strings into a buffer and pointers *)
(* to them into an array, at places that the guest chooses.                *)
(*                                                                         *)
(* Nothing else touches the memory during a call.  The loops over a list   *)
(* take a step per string, for their early returns.                        *)
(***************************************************************************)
EXTENDS GuestMemory

CONSTANTS
  Contexts,  \* lengths, NULs included, of the strings of "args" and "environ";
             \* each string is shorter than 4 GiB
  Preopens,  \* the lengths of the preopened directories' names, by descriptor
  MemLens,   \* sizes of a guest's memory: those of slices, so usizes as well
  Lens,      \* buffer lengths that the guest passes
  MaxCalls   \* bound on its calls

ListName == {"args", "environ"}

ASSUME StartupAssumption ==
  /\ Contexts \subseteq [ListName -> Seq(1..PtrMax)]
  /\ \A fd \in DOMAIN Preopens : Preopens[fd] \in Ptr
  /\ MemLens \subseteq 1..(PtrMax + 1) /\ MemLens \subseteq 0..UsizeMax
  /\ Lens \subseteq Ptr
  /\ MaxCalls \in Nat

VARIABLES
  ctx,     \* WasiCtx.args and WasiCtx.env
  mem,     \* the guest's memory
  before,  \* what it was when the call began
  call,    \* the call under way or the last one
  calls

vars == <<ctx, mem, before, call, calls>>

\* Offset(list)[n]: the bytes of the first n strings.
Offset(list) ==
  LET f[n \in 0..Len(list)] == IF n = 0 THEN 0 ELSE f[n - 1] + list[n] IN f
Total(list) == Offset(list)[Len(list)]

\* A call with its two numbers from the guest: pointers, or a pointer and a
\* length.  pc is "loop" in the loop of args_get, "done" after the call.
Called(op, which, a, b, errno) ==
  [op |-> op, which |-> which, a |-> a, b |-> b, i |-> 0, offset |-> 0,
   ptrs |-> <<>>, pc |-> IF errno = "" THEN "loop" ELSE "done", ret |-> errno]
NoCall == Called("none", "none", 0, 0, "ESUCCESS")

Init ==
  /\ ctx \in Contexts
  /\ \E len \in MemLens : mem = Bytes("old", 0, len)
  /\ before = mem
  /\ call = NoCall
  /\ calls = 0

\* Panics end the program.
Ready == call.pc = "done" /\ call.ret # "panic" /\ calls < MaxCalls

\* A call that is over at once.
Result(op, which, a, b, errno, new_mem) ==
  /\ Ready /\ calls' = calls + 1
  /\ before' = mem /\ mem' = new_mem
  /\ call' = Called(op, which, a, b, errno)
  /\ UNCHANGED ctx

----------------------------------------------------------------------------
(* The lists of strings *)

\* The count is written, then the size: the count stays written when the size
\* cannot be.
encode_sizes(which, count_ptr, size_ptr) ==
  LET e1 == dec_ptr_to(mem, count_ptr, Word, Word)
      m1 == Encoded(e1, mem, count_ptr, Bytes("number", Len(ctx[which]), Word))
      e2 == dec_ptr_to(mem, size_ptr, Word, Word)
      m2 == Encoded(e2, m1, size_ptr, Bytes("number", Total(ctx[which]), Word))
  IN  IF e1 = "ESUCCESS" THEN Result("sizes_get", which, count_ptr, size_ptr, e2, m2)
      ELSE Result("sizes_get", which, count_ptr, size_ptr, e1, mem)

\* A size wider than the guest's panics, once the count is written.
args_sizes_get(count_ptr, size_ptr) ==
  LET e1 == dec_ptr_to(mem, count_ptr, Word, Word)
      m1 == Encoded(e1, mem, count_ptr, Bytes("number", Len(ctx["args"]), Word))
      panics == e1 = "ESUCCESS" /\ Total(ctx["args"]) > PtrMax
  IN  \/ ~panics /\ encode_sizes("args", count_ptr, size_ptr)
      \/ panics /\ Result("sizes_get", "args", count_ptr, size_ptr, "panic", m1)

\* The sum is checked before anything is written.
environ_sizes_get(count_ptr, size_ptr) ==
  \/ /\ Total(ctx["environ"]) <= PtrMax
     /\ encode_sizes("environ", count_ptr, size_ptr)
  \/ /\ Total(ctx["environ"]) > PtrMax
     /\ Result("sizes_get", "environ", count_ptr, size_ptr, "EOVERFLOW", mem)

\* args_get and environ_get begin.
strings_get(which, argv_ptr, argv_buf) ==
  /\ Ready /\ calls' = calls + 1
  /\ before' = mem
  /\ call' = Called("strings_get", which, argv_ptr, argv_buf, "")
  /\ UNCHANGED <<ctx, mem>>

Return(errno) == call' = [call EXCEPT !.pc = "done", !.ret = errno]

InLoop(more) ==
  /\ call.pc = "loop"
  /\ more <=> call.i < Len(ctx[call.which])
  /\ UNCHANGED <<ctx, before, calls>>

\* Mutant: the terminating NUL is not counted.
advance_without_nul(offset, len) == offset + len - 1

advance(offset, len) == offset + len

\* Mutant: the sum is not checked.
offset_fits_always(offset) == TRUE

offset_fits(offset) == offset <= PtrMax

\* One string.  The address is a sum that wraps in a release build (and panics
\* in a debug build); the next offset is a sum that is checked.
copy_string ==
  /\ InLoop(TRUE)
  /\ LET i == call.i + 1
         len == ctx[call.which][i]
         arg_ptr == (call.b + call.offset) % (PtrMax + 1)
         errno == check_slice_of(mem, arg_ptr, len, 1, 1)
         offset == advance(call.offset, len)
     IN  /\ mem' = Encoded(errno, mem, arg_ptr, Bytes(call.which, i, len))
         /\ \/ /\ errno # "ESUCCESS"
               /\ Return(errno)
            \/ /\ errno = "ESUCCESS" /\ ~offset_fits(offset)
               /\ Return("EOVERFLOW")
            \/ /\ errno = "ESUCCESS" /\ offset_fits(offset)
               /\ call' = [call EXCEPT !.i = i, !.offset = offset,
                                       !.ptrs = Append(@, arg_ptr)]

PointerBytes(ptrs) ==
  [j \in 1..(Len(ptrs) * Word) |->
     <<"number", ptrs[((j - 1) \div Word) + 1], ((j - 1) % Word) + 1>>]

\* The array of pointers comes last.
copy_pointers ==
  /\ InLoop(FALSE)
  /\ LET errno == check_slice_of(mem, call.a, Len(call.ptrs), Word, Word)
     IN  /\ mem' = Encoded(errno, mem, call.a, PointerBytes(call.ptrs))
         /\ Return(errno)

----------------------------------------------------------------------------
(* Preopens, random numbers and clocks *)

\* fd_prestat_get of a preopen: the type, 0, and the length of the name.  Of
\* another descriptor it returns an error (WasiCtx!fd_prestat_get).
fd_prestat_get(fd, prestat_ptr) ==
  LET errno == dec_ptr_to(mem, prestat_ptr, 2 * Word, Word)
      prestat == Bytes("number", 0, Word) \o Bytes("number", Preopens[fd], Word)
  IN  Result("prestat_get", fd, prestat_ptr, 0, errno,
             Encoded(errno, mem, prestat_ptr, prestat))

\* Mutant: the length of the guest's buffer is ignored.
fd_prestat_dir_name_any_len(fd, path_ptr, path_len) ==
  LET len == Preopens[fd]
      errno == check_slice_of(mem, path_ptr, len, 1, 1)
  IN  Result("dir_name", fd, path_ptr, path_len, errno,
             Encoded(errno, mem, path_ptr, Bytes("name", 1, len)))

fd_prestat_dir_name(fd, path_ptr, path_len) ==
  LET len == Preopens[fd]
      errno == IF len > path_len THEN "ENAMETOOLONG"
               ELSE check_slice_of(mem, path_ptr, len, 1, 1)
  IN  Result("dir_name", fd, path_ptr, path_len, errno,
             Encoded(errno, mem, path_ptr, Bytes("name", 1, len)))

random_get(buf_ptr, buf_len) ==
  LET errno == check_slice_of(mem, buf_ptr, buf_len, 1, 1)
  IN  Result("random_get", "none", buf_ptr, buf_len, errno,
             Encoded(errno, mem, buf_ptr, Bytes("random", 0, buf_len)))

\* What the host's clock says: no such clock, more nanoseconds than fit, or a
\* number of them.
HostClock == {"EINVAL", "EOVERFLOW", "zero", "nonzero"}

\* clock_res_get and clock_time_get: a resolution of zero is an error.
clock_get(op, host, ptr) ==
  LET errno == IF host \in {"EINVAL", "EOVERFLOW"} THEN host
               ELSE IF op = "clock_res_get" /\ host = "zero" THEN "EINVAL"
               ELSE dec_ptr_to(mem, ptr, 2 * Word, 2 * Word)
      time == IF host = "zero" THEN 0 ELSE 1
  IN  Result(op, "none", ptr, 0, errno,
             Encoded(errno, mem, ptr, Bytes("number", time, 2 * Word)))

Over == (~Ready /\ call.pc = "done") /\ UNCHANGED vars

Next ==
  \/ \E p, q \in Ptr : args_sizes_get(p, q) \/ environ_sizes_get(p, q)
  \/ \E which \in ListName, p, q \in Ptr : strings_get(which, p, q)
  \/ copy_string \/ copy_pointers
  \/ \E fd \in DOMAIN Preopens, p \in Ptr : fd_prestat_get(fd, p)
  \/ \E fd \in DOMAIN Preopens, p \in Ptr, n \in Lens : fd_prestat_dir_name(fd, p, n)
  \/ \E p \in Ptr, n \in Lens : random_get(p, n)
  \/ \E op \in {"clock_res_get", "clock_time_get"}, host \in HostClock, p \in Ptr :
       clock_get(op, host, p)
  \/ Over

Spec == Init /\ [][Next]_vars

----------------------------------------------------------------------------
(* Properties *)

\* The variables have the types of the code's values; in args_get there is one
\* pointer per string copied and none is wider than a guest pointer.
TypeOK ==
  /\ ctx \in Contexts
  /\ mem \in Seq(Byte) /\ before \in Seq(Byte) /\ Len(mem) = Len(before)
  /\ call.a \in Ptr /\ call.b \in Ptr /\ call.offset \in Ptr
  /\ call.ptrs \in Seq(Ptr) /\ Len(call.ptrs) = call.i

\* The places of the pointers and of the strings of a list.
PointersAt == Span(call.a, Word * Len(ctx[call.which]))
StringsAt == Span(call.b, Total(ctx[call.which]))

\* The places that the guest gave a call to write to.
Given ==
  CASE call.op = "sizes_get" -> Span(call.a, Word) \cup Span(call.b, Word)
    [] call.op = "strings_get" -> PointersAt \cup StringsAt
    [] call.op \in {"dir_name", "random_get"} -> Span(call.a, call.b)
    [] OTHER -> Span(call.a, 2 * Word)

Changed == {i - 1 : i \in {j \in 1..Len(mem) : mem[j] # before[j]}}

\* The strings reach past the end of a memory that has every byte a pointer can
\* reach (2^32), where the address of the next string wraps to 0.
Wraps ==
  /\ Len(mem) = PtrMax + 1
  /\ call.op = "strings_get" /\ call.b + Total(ctx[call.which]) > Len(mem)

\* A call writes only where the guest told it to, whatever pointers and lengths
\* it gets and also when it fails halfway: the address of each string is an
\* unchecked sum, but each is in the memory and starts where one ended.
WritesInside == ~Wraps => Changed \subseteq Given

Disjoint == PointersAt \cap StringsAt = {}

\* A call that succeeds has left its whole result: args_get every pointer, each
\* to the string of its number with its NUL, one after the other; when the guest
\* has them overlap, the pointers are intact.
ResultWhole ==
  call.pc = "done" /\ call.ret = "ESUCCESS" /\ ~Wraps =>
    CASE call.op = "sizes_get" ->
           /\ Span(call.a, Word) \cap Span(call.b, Word) = {}
                => NumberAt(mem, call.a, Len(ctx[call.which]))
           /\ NumberAt(mem, call.b, Total(ctx[call.which]))
      [] call.op = "strings_get" ->
           \A i \in 1..Len(ctx[call.which]) :
             LET at == call.b + Offset(ctx[call.which])[i - 1]
             IN  /\ NumberAt(mem, call.a + Word * (i - 1), at)
                 /\ Disjoint => Holds(mem, at,
                                      Bytes(call.which, i, ctx[call.which][i]))
      [] call.op = "prestat_get" ->
           NumberAt(mem, call.a + Word, Preopens[call.which])
      [] call.op = "dir_name" ->
           Holds(mem, call.a, Bytes("name", 1, Preopens[call.which]))
      [] OTHER -> TRUE

\* What args_sizes_get announces is what args_get needs: with a buffer of that
\* many bytes and room for that many pointers it succeeds, and with less it does
\* not, unless the buffer wraps.
SpaceAnnounced ==
  LET list == ctx[call.which]
      fits == /\ call.a % Word = 0 /\ call.a + Word * Len(list) <= Len(mem)
              /\ Len(list) > 0 => call.b + Total(list) <= Len(mem)
  IN  call.op = "strings_get" /\ call.pc = "done" /\ ~Wraps
        => (call.ret = "ESUCCESS" <=> fits /\ Total(list) <= PtrMax)

\* A call that fails leaves the memory as it was, but for strings that
\* args_get had copied and the count of args_sizes_get; it never leaves a
\* pointer to a string that is not there.
FailureLeaves ==
  call.pc = "done" /\ call.ret # "ESUCCESS" /\ ~Wraps =>
    Changed \subseteq CASE call.op = "strings_get" -> StringsAt
                        [] call.op = "sizes_get" -> Span(call.a, Word)
                        [] OTHER -> {}
=============================================================================
