---------------------------- MODULE FortranBinding ----------------------------
(***************************************************************************)
(* The Fortran binding of StarPU (src/src/util/fstarpu.c): a Fortran       *)
(* program builds its codelet with fstarpu_codelet_add_*_func and          *)
(* fstarpu_codelet_add_buffer, submits tasks with fstarpu_insert_task,     *)
(* which parses a NULL-terminated argument list into the task's handles,   *)
(* its context and a packed cl_arg buffer, and the task's kernel gets its  *)
(* values back with fstarpu_unpack_arg.  These are functions of their      *)
(* arguments, so they are operators.                                       *)
(*                                                                         *)
(* The packed buffer is a sequence of bytes: an int nargs, then for each   *)
(* value its size as a size_t and its bytes (the layout written by         *)
(* _starpu_pack_arguments, which is not in the repository).  Integers are  *)
(* little-endian, int is 4 bytes and size_t 8 (LP64).  An access mode is   *)
(* the set of its flag bits; STARPU_VALUE and STARPU_SCHED_CTX share no    *)
(* bit with the mode flags.  An abort (_FSTARPU_ERROR) is a result.        *)
(***************************************************************************)
EXTENDS WorkerCapability, SequencesExt

CONSTANT NMaxBufs   \* STARPU_NMAXBUFS: entries of cl->modes

\* STARPU_MAXIMPLEMENTATIONS: entries of cl->cpu_funcs etc.
MaxImpls == Max(Impls) + 1

IntSize == 4
SizeTSize == 8

\* The modes fstarpu_codelet_add_buffer accepts, by equality.
R == {"r"}
W == {"w"}
RW == {"r", "w"}
SCRATCH == {"scratch"}
REDUX == {"redux"}

\* The bits fstarpu_insert_task tests with "&" to recognise a data argument.
DataBits == {"r", "w", "scratch", "redux"}

\* The outcome of _FSTARPU_ERROR, and the NULL codelet.
Abort == [error |-> "abort"]
NullCodelet == [error |-> "null"]

\* n as w little-endian bytes.
RECURSIVE Encode(_, _)
Encode(n, w) == IF w = 0 THEN <<>> ELSE <<n % 256>> \o Encode(n \div 256, w - 1)

RECURSIVE Decode(_)
Decode(s) == IF s = <<>> THEN 0 ELSE s[1] + 256 * Decode(Tail(s))

-----------------------------------------------------------------------------
(* Building a codelet                                                      *)

\* fstarpu_codelet_allocate: starpu_codelet_init zeroes everything.
EmptyCodelet == [funcs |-> [a \in Archs |-> <<>>], modes |-> <<>>]

\* fstarpu_codelet_add_cpu_func and its CUDA, OpenCL, MIC and SCC twins:
\* store the function in the first NULL slot among the first
\* MaxImpls - 1, so that the array stays NULL-terminated; else abort.
AddFunc(cl, arch, f) ==
    IF cl = Abort \/ Len(cl.funcs[arch]) >= MaxImpls - 1 THEN Abort
    ELSE [cl EXCEPT !.funcs[arch] = Append(@, f)]

\* fstarpu_codelet_add_buffer: abort on a mode that is not exactly one of
\* R, RW, W, SCRATCH, REDUX, or when nbuffers has reached NMaxBufs - 1.
AddBuffer(cl, mode) ==
    IF cl = Abort \/ mode \notin {R, RW, W, SCRATCH, REDUX}
       \/ Len(cl.modes) >= NMaxBufs - 1
    THEN Abort
    ELSE [cl EXCEPT !.modes = Append(@, mode)]

\* A call of the builder: [op |-> "func", arch, f] or [op |-> "buffer", mode].
ApplyCall(cl, c) ==
    IF c.op = "func" THEN AddFunc(cl, c.arch, c.f) ELSE AddBuffer(cl, c.mode)

BuildCodelet(calls) == FoldLeft(ApplyCall, EmptyCodelet, calls)

-----------------------------------------------------------------------------
(* fstarpu_insert_task                                                     *)

\* _starpu_pack_arguments: append the size of the value and its bytes.
PackArgument(buf, bytes) == buf \o Encode(Len(bytes), SizeTSize) \o bytes

\* The loop of fstarpu_insert_task over the argument list from item i: a
\* data argument (a mode with a data bit, then the handle) sets the next
\* handle of the task, aborting when the codelet has no more buffers or no
\* mode for it; a value is packed; a context is stored; anything else
\* aborts.
RECURSIVE ParseArgs(_, _, _, _)
ParseArgs(cl, args, i, st) ==
    IF i > Len(args) THEN st
    ELSE LET a == args[i] IN
    CASE a.kind = "mode" /\ a.mode \cap DataBits # {} ->
            IF st.cur >= Len(cl.modes) \/ cl.modes[st.cur + 1] = {} THEN Abort
            ELSE ParseArgs(cl, args, i + 1,
                     [st EXCEPT !.handles = Append(@, a.handle), !.cur = @ + 1])
      [] a.kind = "value" ->
            ParseArgs(cl, args, i + 1,
                [st EXCEPT !.nargs = @ + 1, !.buf = PackArgument(@, a.bytes)])
      [] a.kind = "ctx" -> ParseArgs(cl, args, i + 1, [st EXCEPT !.ctx = a.ctx])
      [] OTHER -> Abort

\* The codelet _starpu_worker_exists sees: where derived from the function
\* arrays (starpu_codelet_init leaves it 0, and
\* _starpu_codelet_check_deprecated_fields, not in the repository, sets
\* the architectures with a function), no can_execute hook (the binding
\* has no setter for it).
SubmittedCodelet(cl) ==
    [where |-> {a \in Archs : cl.funcs[a] # <<>>},
     funcs |-> [a \in Archs |-> 0..Len(cl.funcs[a]) - 1],
     has_hook |-> FALSE, accepts |-> {}]

\* task->sched_ctx as starpu_task_create leaves it when no
\* FSTARPU_SCHED_CTX item names one (STARPU_NMAX_SCHED_CTXS in C).
NoSchedCtx == -1

\* The context the task is submitted to: the one a FSTARPU_SCHED_CTX item
\* named, else the current one, the initial context.
SubmittedCtx(ctx) == CHOOSE c \in Ctxs : c.id = IF ctx = NoSchedCtx THEN 0 ELSE ctx

\* Mutant: the return value of starpu_task_submit is not checked.
InsertTaskUnchecked(cl, args) ==
    IF cl = NullCodelet THEN Abort
    ELSE LET st == ParseArgs(cl, args, 1,
                       [cur |-> 0, handles |-> <<>>, nargs |-> 0,
                        buf |-> <<>>, ctx |-> NoSchedCtx])
         IN IF st = Abort THEN Abort
            ELSE [handles |-> st.handles, ctx |-> st.ctx, nargs |-> st.nargs,
                  cl_arg |-> IF st.nargs > 0 THEN Encode(st.nargs, IntSize) \o st.buf
                             ELSE <<>>]

\* fstarpu_insert_task(cl, args): abort without a codelet; parse; with at
\* least one value, nargs is written in the first int of the buffer and
\* the buffer becomes cl_arg, else cl_arg is NULL (<<>> here); then
\* starpu_task_submit, whose failure aborts.  Of its checks, the sources
\* hold _starpu_worker_exists (-ENODEV when no worker can run the task).
InsertTask(cl, args) ==
    IF cl = NullCodelet THEN Abort
    ELSE LET st == ParseArgs(cl, args, 1,
                       [cur |-> 0, handles |-> <<>>, nargs |-> 0,
                        buf |-> <<>>, ctx |-> NoSchedCtx])
         IN IF st = Abort THEN Abort
            ELSE IF ~WorkerExists([cl |-> SubmittedCodelet(cl), ctx |-> SubmittedCtx(st.ctx)])
            THEN Abort
            ELSE [handles |-> st.handles, ctx |-> st.ctx, nargs |-> st.nargs,
                  cl_arg |-> IF st.nargs > 0 THEN Encode(st.nargs, IntSize) \o st.buf
                             ELSE <<>>]

-----------------------------------------------------------------------------
(* fstarpu_unpack_arg                                                      *)

\* Mutant: the offset is not moved past the size field.
RECURSIVE UnpackFromNoSizeSkip(_, _, _, _, _, _)
UnpackFromNoSizeSkip(clArg, nargs, nptrs, arg, off, out) ==
    IF arg >= nargs \/ arg >= nptrs THEN out
    ELSE LET size == Decode(SubSeq(clArg, off + 1, off + SizeTSize))
         IN UnpackFromNoSizeSkip(clArg, nargs, nptrs, arg + 1, off + size,
                                 Append(out, SubSeq(clArg, off + 1, off + size)))

\* The loop of fstarpu_unpack_arg from argument arg at byte offset off,
\* with nptrs non-NULL pointers in buffer_list before its NULL: stop at the
\* NULL, else read the size, then copy that many bytes to the pointer.
RECURSIVE UnpackFrom(_, _, _, _, _, _)
UnpackFrom(clArg, nargs, nptrs, arg, off, out) ==
    IF arg >= nargs \/ arg >= nptrs THEN out
    ELSE LET size == Decode(SubSeq(clArg, off + 1, off + SizeTSize))
             at == off + SizeTSize
         IN UnpackFrom(clArg, nargs, nptrs, arg + 1, at + size,
                       Append(out, SubSeq(clArg, at + 1, at + size)))

\* fstarpu_unpack_arg(cl_arg, buffer_list): the values written to the
\* pointers, in order.  The buffer is then freed.
UnpackArg(clArg, nptrs) ==
    UnpackFrom(clArg, Decode(SubSeq(clArg, 1, IntSize)), nptrs, 0, IntSize, <<>>)

-----------------------------------------------------------------------------
(* What the binding should do, over bounded inputs                         *)

\* The items of argument lists: data arguments on two handles, in a plain
\* and a COMMUTE mode, two values of different sizes, a context, and a
\* mode with no data bit (FSTARPU_COMMUTE alone).
Items ==
    { [kind |-> "mode", mode |-> m, handle |-> h] :
        m \in {R, {"r", "w", "commute"}}, h \in {"h1", "h2"} }
    \cup { [kind |-> "value", bytes |-> b] : b \in {<<5>>, <<6, 7>>} }
    \cup { [kind |-> "ctx", ctx |-> 1], [kind |-> "mode", mode |-> {"commute"}, handle |-> "h1"] }

ArgLists == BoundedSeq(Items, 3)

\* The codelets a Fortran program can build with up to three calls (a
\* call that aborts ends the program), and no codelet.  Context 1 has
\* only a CPU worker, so a CUDA-only codelet is refused there.
Calls == { [op |-> "buffer", mode |-> R], [op |-> "buffer", mode |-> RW],
           [op |-> "buffer", mode |-> {"r", "w", "commute"}],
           [op |-> "func", arch |-> "cpu", f |-> "kernel"],
           [op |-> "func", arch |-> "cuda", f |-> "kernel"] }

FCodelets == ({BuildCodelet(c) : c \in BoundedSeq(Calls, 3)} \ {Abort}) \cup {NullCodelet}

IsData(a) == a.kind = "mode" /\ a.mode \cap DataBits # {}

\* Everything fstarpu_insert_task accepts becomes the task it describes:
\* the handles of its data arguments in order, its last context, and its
\* values; it aborts exactly on a missing codelet, an unknown item, more
\* data arguments than the codelet has buffers, or a codelet with no
\* function for the architecture of any worker of the task's context.
InsertAgreesOnAll ==
    \A cl \in FCodelets, args \in ArgLists :
        LET r == InsertTask(cl, args)
            data == SelectSeq(args, IsData)
            ctxs == SelectSeq(args, LAMBDA a : a.kind = "ctx")
            ctx == IF ctxs = <<>> THEN NoSchedCtx ELSE ctxs[Len(ctxs)].ctx
        IN /\ (r = Abort) =
                 \/ cl = NullCodelet
                 \/ \E i \in 1..Len(args) : ~IsData(args[i]) /\ args[i].kind = "mode"
                 \/ Len(data) > Len(cl.modes)
                 \/ \A w \in SubmittedCtx(ctx).workers : cl.funcs[Kind[w]] = <<>>
           /\ r # Abort =>
                /\ r.handles = [i \in 1..Len(data) |-> data[i].handle]
                /\ r.ctx = ctx
                /\ r.nargs = Len(SelectSeq(args, LAMBDA a : a.kind = "value"))

\* A kernel that unpacks the cl_arg of a task with values into nptrs pointers
\* gets the first nptrs values given to fstarpu_insert_task, byte for byte,
\* whatever data arguments and context are interleaved with them.
RoundTripOnAll ==
    \A args \in ArgLists, nptrs \in 0..3 :
        LET r == InsertTask(BuildCodelet(<<[op |-> "func", arch |-> "cpu", f |-> "kernel"],
                                           [op |-> "buffer", mode |-> R],
                                           [op |-> "buffer", mode |-> RW]>>), args)
            vals == SelectSeq(args, LAMBDA a : a.kind = "value")
            n == IF nptrs < Len(vals) THEN nptrs ELSE Len(vals)
        IN r # Abort /\ r.nargs > 0 =>
             UnpackArg(r.cl_arg, nptrs) = [i \in 1..n |-> vals[i].bytes]

=============================================================================
