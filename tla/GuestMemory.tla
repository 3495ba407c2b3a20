----------------------------- MODULE GuestMemory -----------------------------
(***************************************************************************)
(* The guest's linear memory as the host calls see it                      *)
(* (src/src/memory.rs): a slice of bytes, reached through pointers of the  *)
(* guest's width that are checked for alignment, overflow and bounds.      *)
(*                                                                         *)
(* A byte is what it is a part of: byte k of string n of a list, of the    *)
(* number n, of a name, of random or of earlier data.                      *)
(***************************************************************************)
EXTENDS Integers, Sequences

CONSTANTS
  PtrMax,    \* the largest guest pointer: u32::MAX
  UsizeMax,  \* the largest usize of the host
  Word       \* size and alignment of a guest pointer, size_t or other number

ASSUME MemoryAssumption ==
  /\ PtrMax \in Nat /\ UsizeMax \in Nat /\ PtrMax <= UsizeMax
  /\ Word \in Nat \ {0}

Ptr == 0..PtrMax
Byte == {"old", "args", "environ", "name", "number", "random"} \X Nat \X Nat
Bytes(kind, n, len) == [k \in 1..len |-> <<kind, n, k>>]

\* The address of mem[i] is i - 1.
Span(ptr, len) == ptr..(ptr + len - 1)

\* Mutant: the end of the range is not looked at.
dec_ptr_start(mem, ptr, len) ==
  IF ptr < Len(mem) THEN "ESUCCESS" ELSE "EFAULT"

\* dec_ptr, dec_ptr_mut: the end must not overflow and be in the memory.
dec_ptr(mem, ptr, len) ==
  IF ptr + len <= UsizeMax /\ ptr + len <= Len(mem)
  THEN "ESUCCESS" ELSE "EFAULT"

\* The check of a slice of n elements of a size and alignment: EINVAL comes
\* before EOVERFLOW, and that before EFAULT.
check_slice_of(mem, ptr, n, size, align) ==
  IF ptr % align # 0 THEN "EINVAL"
  ELSE IF size * n > UsizeMax THEN "EOVERFLOW"
  ELSE dec_ptr(mem, ptr, size * n)

\* dec_ptr_to, dec_ptr_to_mut: the check of a value.
dec_ptr_to(mem, ptr, size, align) ==
  IF ptr % align # 0 THEN "EINVAL" ELSE dec_ptr(mem, ptr, size)

\* What ptr::write and memcpy do once the checks have passed.
Write(mem, ptr, bytes) ==
  [i \in 1..Len(mem) |->
     IF i - 1 \in Span(ptr, Len(bytes)) THEN bytes[i - ptr] ELSE mem[i]]

\* Mutant: what fits is copied before the check.
Encoded_unchecked(errno, mem, ptr, bytes) == Write(mem, ptr, bytes)

\* The memory after enc_slice_of or enc_pointee, which write nothing when the
\* check fails.
Encoded(errno, mem, ptr, bytes) ==
  IF errno = "ESUCCESS" THEN Write(mem, ptr, bytes) ELSE mem

\* What the guest reads.
Holds(mem, ptr, bytes) ==
  /\ ptr + Len(bytes) <= Len(mem)
  /\ \A k \in 1..Len(bytes) : mem[ptr + k] = bytes[k]
NumberAt(mem, ptr, n) == Holds(mem, ptr, Bytes("number", n, Word))
=============================================================================
