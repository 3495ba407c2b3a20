# A TLA+ model of wasi-common

wasi-common implements the WASI host calls for a WebAssembly runtime: an embedder
builds a `WasiCtx` (arguments, environment, stdio, preopened directories) and the
runtime passes every WASI call of the guest to a function of `src/src/hostcalls/`,
which checks the guest's rights in the context and calls the host's kernel. This
directory holds TLA+ modules for the parts where a mistake is hard to test, their
TLC configurations, and proofs checked by TLAPS.

Run them here with `tlc -config ctx_all.cfg MCWasiCtx` and `tlapm WasiCtxProofs.tla`;
`ctx_all` takes about two minutes, the others less.

## Inventory

| Part | State | Operations | What makes it correct |
|---|---|---|---|
| rights tables, `host.rs`, `fdentry_impl.rs` | none | `determine_type_rights`, `determine_type_and_access_rights` | an entry's type and rights fit the object behind it |
| `WasiCtxBuilder`, `WasiCtx`, `ctx.rs`, `fdentry.rs` | guest table `fds`, `preopens`, `args`, `env`; the host's descriptor table behind them | `new`, `inherit_stdio`, `preopened_dir`, `build`, `insert_fd_entry`, `get_fd_entry`, drop | every host descriptor has one owner and is closed once; preopens are found by the guest |
| table-changing calls, `hostcalls/fs.rs` | the same | `fd_close`, `fd_renumber`, `fd_fdstat_set_rights`, `path_open` | rights only shrink, failures change nothing, preopens stay |
| path resolution, `sys/unix/hostcalls_impl/fs_helpers.rs` | `dir_stack`, `path_stack`, the link counter; the host's file tree | `path_get` | the walk stays below its directory, agrees with POSIX, ends |
| calls that take paths, `sys/unix/hostcalls_impl/fs.rs` | the host's file tree; the first of two resolved paths | ten handlers: one or two `path_get`s, a system call, and a second look after some errors | the tree changes below the directory only, as the system call would change it at the places the paths denote |
| calls on open files | file offsets, sizes, flags in the kernel | read, write, seek, allocate, filestat, ... | the right checked is the right used; offsets and sizes at 63 bits |
| `fd_readdir` | the descriptor's offset in the kernel; a `DIR` for each call | one part of a listing per call, by cookie | no entry lost or repeated, a listing ends |
| `poll_oneoff` | none of its own | poll with the earliest clock as timeout | every ready subscription reported, timeouts kept under signals |
| arguments, environment, clocks, random, exit | `args`, `env` | copies into guest memory | sizes announced are sizes written |
| guest memory, `memory.rs` | the guest's linear memory | decode and encode with bounds and alignment checks | nothing outside the place given is touched |
| sockets | none | `unimplemented!()` | - |
| Windows backend, `winx` | as Unix | mostly `unimplemented!()` | - |

The guest, the embedder and the host share state in two places. The guest table's
`File` values own host descriptors, so dropping an entry acts on the process's
descriptor table. And `path_get` walks a file tree that other processes change
between its system calls. A context is used through `&mut`, so host calls on one
context do not interleave with each other; the hard behaviours are long sequences
of legal calls, errors half way through an operation, a host table that runs out of
descriptors, and renames during a walk. `PROJECT.json` lists these hazards at their
lines, with a note where no property covers one. That the guest's table runs out of
numbers (`ctx.rs:203`) is not among them: every entry above stdio owns a host
descriptor, of which there are fewer (i32) than numbers (u32). The branch is modelled
all the same, because `MaxFd` is a parameter.

## Modules

* `Rights`: the masks of `host.rs` as sets of names, and the two functions that
  derive type and rights from what the host reports about a descriptor.
* `WasiCtx`: the guest table beside the host process's table (`kfd`). One action per
  builder operation and per table-changing call. `build` is split into one step per
  iteration because its `HashMap` order is arbitrary; nothing else runs in between.
* `Capabilities`: what a guest may hold and how that may change, without tables and
  host descriptors. A capability is an object, the mode it was opened in and two sets of
  rights. `WasiCtx` implements it; the mapping is `Held` and `Life`.
* `WasiCtxProofs`, `CapabilitiesProofs`: theorems about `WasiCtx`, and that it
  implements `Capabilities`.
* `PathGet`: `path_get` with one action per turn of its loop and system call, the
  kernel's resolution (`Walk`, `Resolve`) as external operators, and `Rename` by other
  processes between any two of them. For one path of any handler it ends with which
  node the handler's system call acts on.
* `PathOps`: extends `PathGet` to the handlers as a whole, a guest that calls one after
  the other, and other processes that also remove and exchange entries.
* `PathProofs`: theorems about both.
* `Poll`: one `poll_oneoff` call: the delays one clock subscription after the other,
  the loop around poll(2), the events. Time, signals and the descriptors are the
  host's and move at any point.
* `FileIO`: the calls on open descriptors, against one regular file that other
  processes write and truncate, and a terminal.
* `Readdir`: `fd_readdir`, several listings of one directory through one descriptor,
  while other processes add and remove entries.
* `GuestMemory`: the checks and copies of `memory.rs` as operators.
* `Startup`: the calls that only leave a result in guest memory, step by step where
  they can fail halfway, on `GuestMemory`.
* `PollProofs`, `FileIOProofs`, `ReaddirProofs`, `StartupProofs`: theorems about these.
* `Induction`: the lemmas that several proofs need. Induction over the naturals as
  statements about sets of naturals, sums over sequences and sets, and what a recursive
  function's definition means: `RecursiveFunction` for one that goes down a natural,
  `FoundedRecursion` for one on a well-founded order.
* `MCWasiCtx`, `MCPathGet`, `MCPathOps`, `MCPoll`, `MCFileIO`, `MCReaddir`, `MCStartup`:
  the instances that TLC checks.

### WasiCtx and the code

| TLA+ | code |
|---|---|
| `fds`, `preopens`, `preopen_fd` | the fields and the local of `ctx.rs` |
| `kfd` | the process's descriptor table: raw number to open file description |
| `phase` | which Rust value exists: builder, builder inside `build`, context, none |
| `ret` | the errno of the last call |
| `drop(fe)`, `DropAll` | `FdObject::drop`, run wherever the code lets go of an entry |
| `Least`, `FreeRaw`, `FreeFd` | lowest free descriptor of the kernel; the `while contains_key` searches |

Guest numbers are `0..MaxFd` for u32 and host descriptors `0..MaxRaw` for
`RLIMIT_NOFILE`. Objects of the host have a type and a set of objects a path can
lead to; which of these a `path_open` reaches is arbitrary here and is PathGet's
subject. Guest masks may have bits that name no right (`RIGHTS_RESERVED`).

### PathGet and the code

`dir_stack`, `path_stack`, `symlink_expansions` and `head` are the code's variables;
`slash` says whether a slash was appended to `head`. A path is what
`std::path::Components` yields: absolute or not, components (with "." only in
front), and whether the string ends with a slash. Link targets are paths, so that
nothing is built from characters. `ret` is the node that the handler's system call
acts on, or an errno. `CallFollows` says which handlers let the kernel follow a last
link. `Walk` is a function of one tuple, because the provers cannot reason about
functions of several arguments.

### PathOps and the code

| TLA+ | code |
|---|---|
| `cur` | the call and its arguments; `req` is the part that `path_get` sees |
| `Resolving` | any step of `path_get`, for either path |
| `SecondPath` | between the two `path_get`s of `path_link` and `path_rename` |
| `first` | `old_dir`, `old_path` of these |
| `create`, `linkat`, `renameat`, `unlinkat`, `openat_nofollow` | the kernel's system calls on a directory and a name |
| `path_unlink_file_stat`, `path_open_stat` | the `fstatat` after EPERM and after ENOTDIR |
| `others` | `rename`, `renameat2(RENAME_EXCHANGE)`, `unlink`, `rmdir` by other processes |

`Spare` are the nodes that calls create; a link that `path_symlink` creates holds the
target its node has in `Target`. `quiet` says that no other process acted since the
call began. Contents and times of files, and the bytes of a link that `path_readlink`
copies, are left out.

### Readdir and the code

A directory is a row of slots. `off` is the offset in the kernel, which belongs to the
descriptor; each call's `DIR` has what it read ahead, `call.ahead`, and `call.out` what it
wrote to the guest, by cookie. `getdents` may return any number of next entries.
`Emit`, `TooLarge`, `Full`, `EndOfDir` and `ReadError` are the ways a turn of the loop
goes. `cur` is the guest's side: a listing starts with the start cookie, goes on with the
last cookie it got, and ends with a call that brings nothing; `stable`, `listed` and
`again` are history variables in it.

### GuestMemory, Startup and the code

`Encoded(check, mem, ptr, bytes)` is `enc_slice_of` or `enc_pointee`; `check_slice_of`,
`dec_ptr_to` and `dec_ptr` are the code's. A byte is what it is a part of (`Bytes`), so
that a number, a string and a name are told apart and from what was there. `args_get`
and `environ_get` take a step per string (`copy_string`) and one for the pointers
(`copy_pointers`); the other calls are one step. `before` is the memory when the call
began. A pointer of the guest has `PtrMax` as its largest value; the sum of `argv_buf`
and an offset wraps at it as in a release build (a debug build panics).

### Poll and the code

| TLA+ | code |
|---|---|
| `input` | `input_slice` after `dec_subscription`; one that it refuses is "INVALID" |
| `next`, `timeout` | the turn and the minimum of `min_by_key` |
| `collect` | the lists `fd_events` and `poll_fds`, and the early `Ok(0)` |
| `poll`, `poll_interrupted`, `poll_fails` | one turn of the loop around `nix::poll::poll` |
| `poll_timed_out`, `poll_ready` | `ready == 0` and not, with their two handlers |
| `events`, `nevents` | `output_slice` and the count the guest reads |
| `due`, `seen` | poll(2)'s own: when its timeout is over, and the `revents` it wrote |

`now` is the host's monotonic clock and `offset` the difference of `SystemTime` to
it, negative for a host before the epoch. It is constant: `SystemTime` being set between
its reading (`misc.rs:160`) and the wait is left out. Delays are divided into ms as in the code,
with a millisecond of `NsPerMs` ns. What poll(2) finds of a descriptor is chosen when
it returns, as descriptors change at any time.

### FileIO and the code

Each handler of `hostcalls/fs.rs` is one action: `Checked` is `get_fd_entry` with the
rights it asks for, `OnFile` the match on `Descriptor::File`, and `Result` the write of
the result to guest memory, which may fail after the system call was made. Only
`fd_allocate` makes two system calls that depend on each other; it is split into
`fd_allocate` (up to `metadata`) and `set_len`, with `wanted` between them. A byte is
where it comes from: a hole, the guest or another process. `data` is the file,
`offset` and `flags` belong to open file descriptions, `mem` is the guest's memory
after a call (it is refilled before the next). Stdin, Stdout and Stderr entries are
terminals (`FileAssumption`). Stdio that the embedder redirected to a regular file, whose
offset `std::io`'s buffers move beyond what the guest has read, is outside the module.

## Runs

| Run | Shows |
|---|---|
| `ctx_all` | all calls: `SoleOwner`, `NoLeak`, `Confined`, `StdioReserved`, `RightsNeverGrow`, `AtomicFailure`, and that they implement `Capabilities` (`KeepsCapabilities`) |
| `ctx_no_renumber` | without `fd_renumber`, two preopens: `EntriesAccurate`, `StartupScan`, `PreopensStay` |
| `ctx_preopen_lost` | violated: with `fd_renumber` preopens do not stay |
| `path_posix` | all short paths: `AgreesWithPosix` without interference, `Terminates` with a rename at any point |
| `path_ops` | two calls in a row and an act of another process at any point: `EffectsInside`, `ActsAsPosix`, `Contained`, `TargetInside`, `CallsReturn` |
| `path_slash` | violated: a trailing slash makes `openat` follow a link, so `Contained` fails |
| `poll_call` | all lists of clocks and descriptors: `EventsSound`, `NotEarly`, `EarliestFirst`, `ReadyPrefix`, `Returns` |
| `poll_first` | violated: ready descriptors go unreported when others come before them |
| `io_calls` | the calls on open descriptors: `ReadsLand`, `RightsRespected`, `AllocateKeeps` |
| `io_pwrite` | violated: `fd_pwrite` writes without FD_WRITE |
| `readdir` | two listings on one descriptor beside changes: `ListedOnce`, `Complete`, `BufferAccounted`, `ListingEnds` |
| `startup` | every pair of pointers, two calls in a row: `WritesInside`, `ResultWhole`, `SpaceAnnounced`, `FailureLeaves` |

Bounds. `ctx_all` has eight host descriptors, four of them the process's, and five
guest numbers: stdio, one preopen and one more, so that the host's table, the
guest's table and the numbers below 3 all run out, and host and guest numbers
coincide and differ. Its guest creates a file to read and write or opens the
directory again, and may first give up all the directory passes on but FD_READ. `ctx_no_renumber` has six guest numbers, for two preopens in
both orders. `path_posix` takes all paths of at most three components over eight
components in a tree with a relative link to a directory, a link to "..", an
absolute link and a loop, with at most two expansions, so that the limit is met
from both sides; the deeper nesting comes from the links. `path_ops` has eighteen calls,
at least one of each handler, with paths through links and "..", two paths that meet in
one directory or one inside the other, and each combination of flags that `openat`
treats differently; two calls in a row, so that one finds what the other left, and one
act of another process, which with RENAME_EXCHANGE is enough to put a link in the place
of a directory or of a file between any two system calls. `unlinkat` of a directory
fails with EPERM there, as POSIX has it, so that the second look is taken. Paths that end
with a slash after a link, which `path_slash` shows to escape, and requests for which the
final call follows links are left out.

`readdir` has three slots for names of two sizes, buffers that hold one small entry, or
two, but not a small and a large one, and never a large one in the small buffer; two
listings, two changes by others and one failing read, which is what it takes to have an
entry removed and its slot reused in the middle of a listing. `startup` has pointers of
three bits, numbers of two bytes, a memory of six bytes and one of all eight that a
pointer reaches, a list that fits, an empty one and two whose sum a pointer does not
hold; with two calls a result is written over an earlier one.

`poll_call` has lists of up to three subscriptions over two descriptors, two of which
may name the same one, with a millisecond of 2 ns, so that rounding shows, and a
longest wait of 3 ms, which the longest timeout exceeds; a host clock behind, equal to
and ahead of the monotonic one; one signal, after which poll(2) starts over; and a
poll(2) that is up to one tick late. The file of `io_calls` has at most two bytes, as
`i64::max_value()` is 2, so that sums and sizes on both sides of it and of the end of
the file occur; buffers are out of order, empty and overlapping; two descriptors with
different rights share an offset; others take one step. One step is what it takes
between the two halves of `fd_allocate`. The calls that
move bytes and those that set attributes are made on different tables (`MCOps`), with
`fd_write` and `fd_fdstat_set_flags` among both, because the second kind multiplies the
states of the first without acting on them.

Fairness. `Terminates` needs `WF_vars(path_get)`, `CallsReturn` `WF_opsvars(handler)` and
`Returns` `WF_vars(Handler)`: a handler runs on the caller's thread, so it takes its next
step as long as it has one. `ListingEnds` needs the same of `fd_readdir`'s loop, and that
the guest goes on with each listing, which is what the property is about.
`Returns` also needs that time passes while poll(2) waits and that poll(2) returns
when its time is over, which the kernel promises. Signals are bounded: each one starts
the wait over, so a host that keeps sending them keeps the call from returning. Nothing
is assumed of other processes, nor that a descriptor is ever ready.

## Proofs

`WasiCtxProofs` proves, for every number of descriptors and objects and every
argument set that satisfies the named assumptions, `TypeOK`, `SoleOwner`, `NoLeak`,
`Confined`, `StdioReserved`, `RightsNeverGrow` and `AtomicFailure`. `NoLeak` and
`SoleOwner` are not inductive by themselves: the step of `build` moves a descriptor
from `preopens` to `fds`, and `fd_renumber` touches a descriptor by number. The
invariant `IInv` is `TypeOK /\ Shape /\ Ownership`: `Shape` says what each phase may
hold (no entries before `new`, no preopens after `build`, entries of stdio kind only at
0 to 2 of the host), and `Ownership` that owners are distinct, disjoint from the
process's own descriptors and exactly account for `kfd`. `Confined` then follows step
by step, since only `path_open` and dup2 put a description into the table.
`AtomicFailure` rests on `kfd` accounting: a `path_open` that finds no free number
drops the descriptor it has just opened, and the host's table is what it was. It
excepts EFAULT: an entry whose number cannot be written to the guest stays in the table
(`hostcalls/fs.rs:743`), where `NoLeak` counts it as owned.

Three more of its properties rest on invariants of their own. `StartupScan`
(`ScanFindsPreopens`, for every number of preopens and every order of the `HashMap`):
`Building` says that while `build` runs all numbers below `preopen_fd` are taken, those from
3 on by preopens that have left the builder's map, with distinct paths. `EntriesAccurate` and
`PreopensStay` are proved of guests that do not call `fd_renumber` (`NoRenumber`), and
`ctx_preopen_lost` shows why: it removes an entry by the number of a host descriptor. Without
it no descriptor of the host changes its description while an entry owns it (`HostKept`).

`CapabilitiesProofs` proves that `WasiCtx` implements `Capabilities`, initial states to
initial states and every step to a step of it or a stutter. Its invariant adds to `IInv`
that entries of stdio kind lie at host descriptors 0 to 2, which hold given objects
(`StdioRaw`), and that while the context is built every entry holds a given object with
rights of its type and mode (`Built`). Opening maps to `Open`, because what the kernel
opens relative to a directory lies in its `Contents`, and a mode other than O_RDONLY comes
from a right to write that `path_open` asks of the directory's inheriting rights
(`NeededInheriting`); dup2 with the removal after it maps to `Redirect`; a failed call
stutters. What this says of rights: they come with opening, are of the object's type and
mode, and a number's rights only shrink. What it does not say, because the code does not
keep it: after `fd_renumber` a number has the new object under the rights it had for the
old one (`sys/unix/hostcalls_impl/fs.rs:58`), which `Redirect` allows; and opening an
object again, or a directory below a held one, gives all rights of its type and mode
(`fs.rs:342`), whatever the guest gave up before, so that giving up rights to write holds
only until a directory is opened below the one weakened.

`PathProofs` proves `Contained`, and `TargetInside` for handlers that follow no
link, for every tree, every request and any number of renames, if no path and no
link ends with a slash (`NoTrailingSlash`); `path_slash` shows that this condition is
needed. Its invariant adds to `Contained` that entries of inside directories are
inside (`Closed`, which renames preserve because both ends are inside) and that no
slash is ever appended (`NoSlash`).

It lifts this to whole handlers: for any number of calls and of acts of
other processes, every walk stays inside (`EveryWalkContained`) and no step changes a
directory outside or enters something from outside (`EffectsStayInside`). The invariant
`OInv` adds that the first of two paths led to an inside directory; each system call is
shown to yield a tree that is `Safe`. `path_link` is left out (`NoLinkCalls`): it has
the kernel follow a last link, wherever it leads. `OpsTypeCorrect` has no such
condition: whatever the paths and whoever acts, the stack of directories is never empty
and every call ends with a node, success or an errno.

`ResolvesAsPosix` proves `AgreesWithPosix`: path_get's loop over two stacks, in which a
link is expanded by pushing its target, comes to what the recursive `Walk` of the kernel
does. Its conditions (`AsPosix`) are four. No trailing slash, for `path_slash`'s reason. No
empty link, which Linux does not let anyone make, and at which `path_get` fails with ENOENT
where `Walk` has nothing left to do. No `path_link`, and no `path_filestat_get` without
following, since these have the kernel follow a link that `path_get` was not to follow. And
the host's directories are a tree (`TreeOfDirs`), because ".." pops the stack in the code
and asks the tree for a parent in `Walk`. The invariant `PInv` is `IInv` and, as long as
nobody has renamed anything, `Undisturbed`: each directory on the stack was opened from the
one under it (`Chained`), and walking from the top of the stack over what is left of all the
paths on the path stack (`Left`), with the expansions that are left, comes to what walking
the whole path from the start does (`Along`). `WalkUnfolds` is what the recursive definition
means: the order that decreases is the links left, then the components left.

`ReaddirProofs` proves `TypeOK`, `ListedOnce`, `Complete` and `BufferAccounted` for any number
of slots, listings, changes and read errors. That nothing comes twice is not inductive: what
a call holds read ahead must lie after what it wrote, both after the cookie and before the
descriptor's offset (`InOrder`), and agree with the directory on what stayed there (`Agrees`);
and what a listing has brought is what lies up to its cookie (`Progress`). No name is in two
slots (`OneSlotEach`).

`StartupProofs` proves `TypeOK`, `WritesInside`, `ResultWhole`, `SpaceAnnounced` and
`FailureLeaves` for every width of pointers and numbers, every memory and every list of
strings. Between two strings the invariant says what has been copied (`Copied`): each string
is where its pointer will point, and nothing else of the memory has changed; this holds
unless the memory has all addresses and the strings go past its end (`Wraps`, which the
properties except). A string's place is a sum over the strings before it, so the induction is
over sums.

`PollProofs` proves `TypeOK`, `EventsSound`, `NotEarly`, `EarliestFirst` and `ReadyPrefix` for
every list of subscriptions and every course of time. `Chosen` is the core of its invariant: the
delay chosen so far is less than a millisecond short of its subscription's, and no longer
than that of any clock seen; `Progress` bounds from below when poll(2) may time out, also
after a signal.

`FileIOProofs` proves `TypeOK` and `ReadsLand`, and the action properties `RightsRespected`
and `AllocateKeeps`, for every width, table, file and vector of buffers. Only
`Allocating` is added to the invariant: between the two halves of `fd_allocate` its
right is held, and the size to be set is greater than the one the first half found
(`call.size`), whatever others do meanwhile. That `fd_pread`'s loop scatters as readv(2) does
is by induction over the buffers. `AllocateKeeps` holds beside other processes, for what
lies below the size found; what they append in between may be cut off, so FD_ALLOCATE alone
does not only make a file longer, and `RightsRespected` compares with `call.size` too.

Model-checked only: liveness (`Terminates`, `CallsReturn`, `Returns`, `ListingEnds`), which
the provers do not reach, and `ActsAsPosix`. That one compares a whole handler with the
kernel's resolution in the tree as previous calls left it; its proof needs, besides what
`ResolvesAsPosix` rests on, that every system call keeps the directories a tree.

## Findings

1. `fd_renumber` removes the guest entry whose number equals the host descriptor of
   `from` (`sys/unix/hostcalls_impl/fs.rs:62`; run `ctx_preopen_lost`).
2. `path_get` keeps a trailing slash on each component it opens (`path_slash`).
3. `poll_oneoff` looks at the first `ready` descriptors only, whichever are ready
   (`poll_first`).
4. `fd_pwrite` asks for FD_READ, not FD_WRITE (`io_pwrite`).

Seen while modelling, without a run of their own. In the modules as the code has them:

* `path_filestat_get` inverts the follow flag for `fstatat` (`fs.rs:584`), and `path_link`
  always has the kernel follow a last link (`fs.rs:213`).
* `fd_filestat_set_times` and `path_filestat_set_times` set the modification time whether
  asked to or not (`fs.rs:542`, `fs.rs:644`).
* `path_open` hands out fifos and devices found in a directory, with the widest
  inheriting rights.
* `fd_allocate` reads the size and sets it in two calls, so that it can cut off what
  another process appends in between, also with no right but FD_ALLOCATE (`AllocateKeeps`
  says that it cuts off nothing else).
* `fd_renumber` leaves the type and rights of an entry as they were when dup2 puts another
  object behind it, and `path_open` gives a new descriptor all rights of its type and mode
  (`KeepsCapabilities` allows for both).
* A path through a file fails with `readlinkat`'s EINVAL instead of ENOTDIR;
  `path_remove_directory` of "dir/" acts on "." and gets EINVAL, and
  `path_create_directory` of "dir/" gets ENOENT.
* `fd_readdir`: a second listing from the start cookie continues where the descriptor
  is; a read error or a buffer too small for one entry looks like the end (`Complete`
  states this); its `DIR` is never closed.
* `args_sizes_get` panics where `environ_sizes_get` returns EOVERFLOW; with a memory of
  4 GiB the strings of `args_get` may wrap to address 0 (`Wraps`).

Outside the modules: `filetype_from_nix` tests the mode with `contains`, so that a symbolic
link and a block device, whose bits contain S_IFCHR, come out as character devices
(`host_impl.rs:157`); an entry's `d_type` is the host's number, not WASI's
(`host_impl.rs:236`); `fd_advise` maps WILLNEED to DONTNEED (`fs.rs:133`); `filestat` times
are in seconds (`host_impl.rs:215`); an absolute timeout is compared with the time of day
whatever its clock (`misc.rs:160`).

## Plan

Done: all modules above, and proofs of every invariant and action property of the passing
runs but one. Next, in order:

1. `ActsAsPosix`: `Locate` unfolded like `Walk`; an invariant that the directories are a tree,
   kept by `create`, `renameat`, `unlinkat` and the acts of others.
2. `FileIO` and `Poll` composed with the table of `WasiCtx`: numbers that were
   renumbered or closed, flags shared with the embedder's stdio, guest numbers that
   are polled as host numbers.

## Not modelled

Sockets, `proc_raise` and most of the Windows backend are `unimplemented!()`; `winx` is
bindings to Windows, `wasi-common-cbindgen` a macro that generates C wrappers, and the ABI types are
declarations. `proc_exit` and `sched_yield` are one call of the host each. The scalar
encoders of `memory.rs` convert between integers of equal width. The number of a UTF-8 path's
bytes, `nbytes` and `precision` of `poll_oneoff`, times and contents of files in `PathOps`, and
the inode and type of a directory entry are left out of the modules.
