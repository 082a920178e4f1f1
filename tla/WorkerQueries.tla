---------------------------- MODULE WorkerQueries ----------------------------
(***************************************************************************)
(* The queries on the worker table that schedulers and applications call  *)
(* once StarPU is initialised (src/src/core/workers.c 1918-2160):          *)
(* starpu_worker_get_ids_by_type, starpu_worker_get_by_type,               *)
(* starpu_worker_get_by_devid, starpu_worker_get_devids,                   *)
(* starpu_worker_get_nids_by_type and                                      *)
(* starpu_worker_get_nids_ctx_free_by_type.  Each is a loop over the       *)
(* worker ids in increasing order, written here as a recursive operator    *)
(* over the id, and checked against a definition by sets and sequences of *)
(* the same table.  The output array is a sequence; a type is an           *)
(* architecture or "any" (STARPU_ANY_WORKER).                              *)
(***************************************************************************)
EXTENDS WorkerCapability, SequencesExt

Types == Archs \cup {"any"}

\* errno value returned negated by starpu_worker_get_ids_by_type.  The C
\* function returns it as an unsigned; no caller in the sources tests it.
ERANGE == 34

\* `type == STARPU_ANY_WORKER || starpu_worker_get_type(id) == type`
OfType(type, id) == type = "any" \/ Kind[id] = type

\* Mutant: the scan of the contexts starts at the initial one.
InSomeCtxFromZero(id) == \E c \in Ctxs : id \in c.workers

\* Worker id is in a context other than the initial one: the scan of
\* sched_ctxs[1..STARPU_NMAX_SCHED_CTXS-1] and of their worker collections.
InSomeCtx(id) == \E c \in Ctxs : c.id # 0 /\ id \in c.workers

-----------------------------------------------------------------------------
(* The loops                                                               *)

\* The loop shared by ids_by_type, nids_by_type and nids_ctx_free_by_type,
\* from worker id on with the ids written so far: at a worker of the type,
\* stop if the array is full ("cnt >= maxsize"), else write the id (if it is
\* in no context, when ctxFree).  full tells whether the loop stopped there.
RECURSIVE ScanByType(_, _, _, _, _)
ScanByType(type, ctxFree, maxsize, id, acc) ==
    IF id > N THEN [full |-> FALSE, ids |-> acc]
    ELSE IF ~OfType(type, id) THEN ScanByType(type, ctxFree, maxsize, id + 1, acc)
    ELSE IF Len(acc) >= maxsize THEN [full |-> TRUE, ids |-> acc]
    ELSE IF ctxFree /\ InSomeCtx(id)
         THEN ScanByType(type, ctxFree, maxsize, id + 1, acc)
         ELSE ScanByType(type, ctxFree, maxsize, id + 1, Append(acc, id))

\* starpu_worker_get_ids_by_type: -ERANGE when the array is too small.
IdsByType(type, maxsize) ==
    LET r == ScanByType(type, FALSE, maxsize, 1, <<>>)
    IN [ret |-> IF r.full THEN -ERANGE ELSE Len(r.ids), ids |-> r.ids]

\* starpu_worker_get_nids_by_type: as many as fit.
NidsByType(type, maxsize) ==
    LET r == ScanByType(type, FALSE, maxsize, 1, <<>>)
    IN [ret |-> Len(r.ids), ids |-> r.ids]

\* starpu_worker_get_nids_ctx_free_by_type: as many as fit of those in no
\* context but the initial one.
NidsCtxFreeByType(type, maxsize) ==
    LET r == ScanByType(type, TRUE, maxsize, 1, <<>>)
    IN [ret |-> Len(r.ids), ids |-> r.ids]

\* Mutant: cnt is incremented before it is compared with num.
RECURSIVE GetByTypeCountFirst(_, _, _, _)
GetByTypeCountFirst(type, num, id, cnt) ==
    IF id > N THEN -1
    ELSE IF OfType(type, id)
         THEN IF num = cnt + 1 THEN id ELSE GetByTypeCountFirst(type, num, id + 1, cnt + 1)
         ELSE GetByTypeCountFirst(type, num, id + 1, cnt)

\* starpu_worker_get_by_type: the num-th worker of the type (from 0), -1
\* if there is none.
RECURSIVE GetByType(_, _, _, _)
GetByType(type, num, id, cnt) ==
    IF id > N THEN -1
    ELSE IF OfType(type, id)
         THEN IF num = cnt THEN id ELSE GetByType(type, num, id + 1, cnt + 1)
         ELSE GetByType(type, num, id + 1, cnt)

\* starpu_worker_get_by_devid: the first worker of the type on the device.
RECURSIVE GetByDevid(_, _, _)
GetByDevid(type, devid, id) ==
    IF id > N THEN -1
    ELSE IF Kind[id] = type /\ Devid[id] = devid THEN id
    ELSE GetByDevid(type, devid, id + 1)

\* Mutant: the search for the device stops before the last one written.
RECURSIVE DevidsFromShortSearch(_, _, _, _)
DevidsFromShortSearch(ids, num, k, devids) ==
    IF k > Len(ids) THEN devids
    ELSE LET d == Devid[ids[k]]
             next == IF d \in ToSet(SubSeq(devids, 1, Len(devids) - 1))
                     THEN devids ELSE Append(devids, d)
         IN IF Len(next) = num THEN next ELSE DevidsFromShortSearch(ids, num, k + 1, next)

\* The outer loop of starpu_worker_get_devids from the k-th worker of the
\* type: write its devid unless already written ("found"), then stop when
\* cnt == num.
RECURSIVE DevidsFrom(_, _, _, _)
DevidsFrom(ids, num, k, devids) ==
    IF k > Len(ids) THEN devids
    ELSE LET d == Devid[ids[k]]
             next == IF d \in ToSet(devids) THEN devids ELSE Append(devids, d)
         IN IF Len(next) = num THEN next ELSE DevidsFrom(ids, num, k + 1, next)

\* starpu_worker_get_devids: the workers of the type, got with an array of
\* nworkers entries, then their devices; returns ndevids.
GetDevids(type, num) ==
    LET ids == IdsByType(type, N).ids
        devids == IF ids = <<>> THEN <<>> ELSE DevidsFrom(ids, num, 1, <<>>)
    IN [ret |-> Len(devids), devids |-> devids]

-----------------------------------------------------------------------------
(* What the queries should answer                                          *)

\* The workers of a type in increasing id order.
TypeIds(type) == SetToSortSeq({id \in Workers : type \in {"any", Kind[id]}}, <)

\* The devices of the workers of a type, each once, in worker order.
TypeDevids(type) ==
    FoldLeft(LAMBDA acc, id : IF Devid[id] \in ToSet(acc) THEN acc
                              ELSE Append(acc, Devid[id]),
             <<>>, TypeIds(type))

\* The bounds the application may pass.
Sizes == 0..N + 1

\* ids_by_type and nids_by_type write the workers of the type in order,
\* as many as fit; ids_by_type fails exactly when they do not all fit;
\* get_by_type(num) is the num-th of them and get_by_devid the first on the
\* device, -1 when there is none.
IdQueriesAgreeOnTable ==
    \A type \in Types, m \in Sizes :
        LET all == TypeIds(type)
            fit == SubSeq(all, 1, IF m < Len(all) THEN m ELSE Len(all))
        IN /\ NidsByType(type, m) = [ret |-> Len(fit), ids |-> fit]
           /\ IdsByType(type, m).ids = fit
           /\ (IdsByType(type, m).ret = -ERANGE) = (m < Len(all))
           /\ GetByType(type, m - 1, 1, 0) = IF m - 1 \in 0..Len(all) - 1
                                              THEN all[m] ELSE -1
           /\ type # "any" =>
                \A d \in 0..2 :
                    LET on == {id \in Workers : Kind[id] = type /\ Devid[id] = d}
                    IN GetByDevid(type, d, 1) = IF on = {} THEN -1 ELSE Min(on)

\* get_devids with room for num >= 1 devices writes at most num of them,
\* each device of the type once, the first ones met in worker order.
DevidsAgreeOnTable ==
    \A type \in Types, num \in 1..N :
        LET all == TypeDevids(type)
            fit == SubSeq(all, 1, IF num < Len(all) THEN num ELSE Len(all))
        IN GetDevids(type, num) = [ret |-> Len(fit), devids |-> fit]

\* nids_ctx_free_by_type writes, as many as fit, exactly the workers of
\* the type that belong to no context but the initial one.
CtxFreeAgreesOnTable ==
    \A type \in Types, m \in Sizes :
        LET free == SelectSeq(TypeIds(type), LAMBDA id : \A c \in Ctxs \ {c0 \in Ctxs : c0.id = 0} : id \notin c.workers)
            fit == SubSeq(free, 1, IF m < Len(free) THEN m ELSE Len(free))
        IN NidsCtxFreeByType(type, m) = [ret |-> Len(fit), ids |-> fit]

=============================================================================
