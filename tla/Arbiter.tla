------------------------------ MODULE Arbiter ------------------------------
(***************************************************************************)
(* The arbiter protocol of StarPU (src/unnamed/part_000, the file          *)
(* data_arbiter_concurrency.c): opportunistic acquisition of all the       *)
(* arbitered handles of a task, with a requester list per handle and a     *)
(* notification scan on every release.                                     *)
(*                                                                         *)
(* Each of the two arbiter functions runs entirely under arbiter->mutex,   *)
(* so each is one atomic action here.  The only state they share with     *)
(* threads not holding that mutex is a handle's refcnt, which the release  *)
(* path (data_concurrency.c, not in the sources: modelled from the spec,   *)
(* section 4.3) decrements under the handle's header_lock before it calls  *)
(* the notification; release and notification are two separate steps.     *)
(*                                                                         *)
(* Access modes are not represented: an arbitered handle is taken only     *)
(* when its refcnt is 0, whatever the mode, so the mode never decides a    *)
(* branch of this code.                                                    *)
(***************************************************************************)
EXTENDS Integers, Sequences, SequencesExt, FiniteSets

CONSTANTS
    Tasks,          \* jobs (model values)
    Handles,        \* arbitered data handles
    Arbiters,       \* arbiters
    ArbiterOf,      \* handle -> arbiter, fixed by starpu_data_assign_arbiter
    BufferChoices,  \* the ordered buffer lists a task may be submitted with
    NoHandle        \* sentinel: no notification pending

ASSUME ArbiterOf \in [Handles -> Arbiters]
ASSUME BufferChoices \subseteq Seq(Handles)
ASSUME NoHandle \notin Handles

VARIABLES
    status,             \* task -> phase of the job
    buffers,            \* task -> its ordered buffer list (handles)
    pos,                \* task -> first buffer of the arbiter group being acquired
    refcnt,             \* handle -> handle->refcnt
    busy_count,         \* handle -> handle->busy_count
    arbitered_req_list, \* handle -> sequence of requesters [job, buf]
    toRelease,          \* task -> handles it has not released yet
    notifyOn,           \* task -> handle whose notification it must still run
    pushes              \* task -> times _starpu_push_task was called for it

vars == <<status, buffers, pos, refcnt, busy_count, arbitered_req_list,
          toRelease, notifyOn, pushes>>

Phases == {"idle", "acquiring", "waiting", "ready", "releasing", "done"}

Requester == [job : Tasks, buf : Nat]

-----------------------------------------------------------------------------
(* Helpers on an ordered buffer list b.                                    *)

\* `_STARPU_JOB_GET_ORDERED_BUFFER_HANDLE(j, i-1) == handle`: the buffer i
\* repeats the handle of buffer i-1 and is skipped ("already requested").
IsDup(b, i) == i > 1 /\ b[i-1] = b[i]

\* Last index of the run of buffers from p on that share the arbiter of
\* buffer p: the loops stop at `handle->arbiter != arbiter`.
GroupEnd(b, p) ==
    LET other == SelectInSubSeq(b, p, Len(b),
                                LAMBDA x : ArbiterOf[x] # ArbiterOf[b[p]])
    IN IF other = 0 THEN Len(b) ELSE other - 1

\* Indices of the group that the fast-take loop really visits.
Firsts(b, p) == {i \in p..GroupEnd(b, p) : ~IsDup(b, i)}

\* Handles the group from p asks for.
GroupHandles(b, p) == {b[i] : i \in p..GroupEnd(b, p)}

\* Mutant: only the first buffer of the group is tested.
GroupFreeHeadOnly(b, p) == refcnt[b[p]] = 0

\* Every handle of the group is free (refcnt == 0).
GroupFree(b, p) == \A i \in Firsts(b, p) : refcnt[b[i]] = 0

\* Mutant: the group is assumed to start at the first buffer.
FirstOfArbiterAtStart(b, a) == 1

\* First buffer of b governed by arbiter a (the nb_non_arbitered_buff loop
\* of the notification).
FirstOfArbiter(b, a) == SelectInSeq(b, LAMBDA x : ArbiterOf[x] = a)

\* Mutant: the requester is only found when it is at the head of the list.
RemoveJobAtHeadOnly(l, j) == IF l # <<>> /\ l[1].job = j THEN Tail(l) ELSE l

\* Mutant: the sibling requesters are left in the lists.
RemoveJobNoop(l, j) == l

\* remove_job_from_requester_list: erase the first requester of job j.
RemoveJobFromRequesterList(l, j) == RemoveFirstMatch(l, LAMBDA r : r.job = j)

\* Mutant: the cancel loop also gives back the busy_count of the fast-take.
RecordedBusyIncrMissing(b, p, e, k, h) ==
    Cardinality({i \in p..e : b[i] = h /\ i >= k})

\* busy_count increments left on h by a failed submission of the group p..e
\* that stopped at buffer k: one per buffer taken by the fast-take loop (not
\* undone by the cancel loop), one per buffer from k on in the recording
\* loop (`if (idx_buf_arbiter <= idx_buf_cancel)`).
RecordedBusyIncr(b, p, e, k, h) ==
    Cardinality({i \in p..e : b[i] = h /\ (i >= k \/ ~IsDup(b, i))})

\* Handles a task holds a reference on.
Held(t) ==
    CASE status[t] \in {"acquiring", "waiting"} ->
              {buffers[t][i] : i \in 1..(pos[t]-1)}
      [] status[t] = "ready"     -> ToSet(buffers[t])
      [] status[t] = "releasing" -> toRelease[t]
      [] OTHER                   -> {}

Holders(h) == {t \in Tasks : h \in Held(t)}

\* Count of requester nodes of job j in a list.
NodesOf(l, j) == Cardinality({k \in 1..Len(l) : l[k].job = j})

-----------------------------------------------------------------------------

\* Every handle is registered and given its arbiter (ArbiterOf) right after
\* initialisation: starpu_data_assign_arbiter asserts refcnt and
\* busy_count are still 0 (lines 513-534).  No job is submitted yet.
Init ==
    /\ status = [t \in Tasks |-> "idle"]
    /\ buffers = [t \in Tasks |-> <<>>]
    /\ pos = [t \in Tasks |-> 1]
    /\ refcnt = [h \in Handles |-> 0]
    /\ busy_count = [h \in Handles |-> 0]
    /\ arbitered_req_list = [h \in Handles |-> <<>>]
    /\ toRelease = [t \in Tasks |-> {}]
    /\ notifyOn = [t \in Tasks |-> NoHandle]
    /\ pushes = [t \in Tasks |-> 0]

\* _starpu_push_task(j): the job is handed to the scheduler.
Push(j) ==
    /\ pushes' = [pushes EXCEPT ![j] = @ + 1]

\* Task submission (spec 4.1): the buffer list is sorted by the caller;
\* with no data the job is pushed at once, otherwise the arbiter part starts
\* at its first buffer.
Submit(t) ==
    /\ status[t] = "idle"
    /\ \E b \in BufferChoices :
        /\ buffers' = [buffers EXCEPT ![t] = b]
        /\ IF b = <<>>
           THEN status' = [status EXCEPT ![t] = "ready"] /\ Push(t)
           ELSE status' = [status EXCEPT ![t] = "acquiring"]
                /\ UNCHANGED pushes
    /\ UNCHANGED <<pos, refcnt, busy_count, arbitered_req_list, toRelease,
                   notifyOn>>

\* _starpu_submit_job_enforce_arbitered_deps(j, buf, nbuffers), one arbiter
\* group under arbiter->mutex.  On success the group's handles are taken
\* and either the next group is attempted (after unlocking) or the job is
\* pushed.  On failure the fast-takes are cancelled (refcnt only: busy_count
\* keeps the increment of the first loop), then a requester is pushed at the
\* FRONT of the list of the handle of every buffer of the group, duplicates
\* included, and busy_count is incremented for buffers from the failing one
\* on.
EnforceArbiteredDeps(t) ==
    LET b == buffers[t]
        p == pos[t]
        e == GroupEnd(b, p)
    IN
    /\ status[t] = "acquiring"
    /\ IF GroupFree(b, p)
       THEN /\ refcnt' = [h \in Handles |->
                            IF h \in GroupHandles(b, p) THEN refcnt[h] + 1
                            ELSE refcnt[h]]
            /\ busy_count' = [h \in Handles |->
                            IF h \in GroupHandles(b, p) THEN busy_count[h] + 1
                            ELSE busy_count[h]]
            /\ IF e < Len(b)
               THEN /\ pos' = [pos EXCEPT ![t] = e + 1]
                    /\ UNCHANGED <<status, pushes>>
               ELSE /\ status' = [status EXCEPT ![t] = "ready"]
                    /\ Push(t)
                    /\ UNCHANGED pos
            /\ UNCHANGED arbitered_req_list
       ELSE LET \* the buffer whose handle stopped the fast-take loop
                k == SelectInSubSeq(b, p, e, LAMBDA x : refcnt[x] # 0)
                \* the group's buffers from the last to the first (push_front)
                Desc == [n \in 1..(e - p + 1) |-> e - n + 1]
                New(h) == [n \in 1..Len(SelectSeq(Desc, LAMBDA i : b[i] = h)) |->
                             [job |-> t,
                              buf |-> SelectSeq(Desc, LAMBDA i : b[i] = h)[n]]]
            IN
            /\ arbitered_req_list' = [h \in Handles |-> New(h) \o arbitered_req_list[h]]
            /\ busy_count' = [h \in Handles |-> busy_count[h] + RecordedBusyIncr(b, p, e, k, h)]
            /\ status' = [status EXCEPT ![t] = "waiting"]
            /\ UNCHANGED <<refcnt, pos, pushes>>
    /\ UNCHANGED <<buffers, toRelease, notifyOn>>

\* A worker pops the job, runs it, and starts releasing its data
\* (spec 4.3); a job without data is finished at once.
Execute(t) ==
    /\ status[t] = "ready"
    /\ toRelease' = [toRelease EXCEPT ![t] = ToSet(buffers[t])]
    /\ status' = [status EXCEPT ![t] = IF buffers[t] = <<>> THEN "done"
                                        ELSE "releasing"]
    /\ UNCHANGED <<buffers, pos, refcnt, busy_count, arbitered_req_list,
                   notifyOn, pushes>>

\* Mutant: the released handle is not struck off, so it is released again.
ReleaseHandleTwice(t) ==
    /\ status[t] = "releasing"
    /\ notifyOn[t] = NoHandle
    /\ \E h \in toRelease[t] :
        /\ refcnt' = [refcnt EXCEPT ![h] = @ - 1]
        /\ busy_count' = [busy_count EXCEPT ![h] = @ - 1]
        /\ notifyOn' = [notifyOn EXCEPT ![t] = h]
    /\ UNCHANGED <<status, buffers, pos, arbitered_req_list, pushes, toRelease>>

\* Release of one handle (spec 4.3): under header_lock, refcnt and
\* busy_count drop by one; the releasing thread then owes the arbiter a
\* notification for that handle.
ReleaseHandle(t) ==
    /\ status[t] = "releasing"
    /\ notifyOn[t] = NoHandle
    /\ \E h \in toRelease[t] :
        /\ refcnt' = [refcnt EXCEPT ![h] = @ - 1]
        /\ busy_count' = [busy_count EXCEPT ![h] = @ - 1]
        /\ toRelease' = [toRelease EXCEPT ![t] = @ \ {h}]
        /\ notifyOn' = [notifyOn EXCEPT ![t] = h]
    /\ UNCHANGED <<status, buffers, pos, arbitered_req_list, pushes>>

\* _starpu_notify_arbitered_dependencies(handle), under arbiter->mutex:
\* scan the requesters of the handle from the head; the first job whose
\* whole group (for this arbiter) is free takes it, its requesters are
\* removed from the lists of the group's handles, and it is pushed or goes
\* on with its next arbiter group.  At most one job is served.  The
\* releasing thread finishes when it has nothing left to release.
NotifyArbiteredDependencies(t) ==
    LET h == notifyOn[t]
        a == ArbiterOf[h]
        l == arbitered_req_list[h]
        P(j) == FirstOfArbiter(buffers[j], a)
        Can(r) == GroupFree(buffers[l[r].job], P(l[r].job))
        served == {r \in 1..Len(l) : Can(r)}
    IN
    /\ notifyOn[t] # NoHandle
    /\ notifyOn' = [notifyOn EXCEPT ![t] = NoHandle]
    /\ IF served = {}
       THEN UNCHANGED <<refcnt, arbitered_req_list, pos, pushes>>
            /\ status' = [status EXCEPT ![t] = IF toRelease[t] = {} THEN "done" ELSE @]
       ELSE LET j == l[CHOOSE r \in served : \A r2 \in served : r <= r2].job
                b == buffers[j]
                G == GroupHandles(b, P(j))
                e == GroupEnd(b, P(j))
            IN
            /\ refcnt' = [x \in Handles |-> IF x \in G THEN refcnt[x] + 1 ELSE refcnt[x]]
            /\ arbitered_req_list' =
                   [x \in Handles |-> IF x \in G
                                      THEN RemoveJobFromRequesterList(arbitered_req_list[x], j)
                                      ELSE arbitered_req_list[x]]
            /\ pos' = [pos EXCEPT ![j] = e + 1]
            /\ LET s1 == [status EXCEPT ![j] = IF e < Len(b) THEN "acquiring" ELSE "ready"]
               IN status' = [s1 EXCEPT ![t] = IF toRelease[t] = {} /\ t # j THEN "done" ELSE @]
            /\ IF e < Len(b) THEN UNCHANGED pushes ELSE Push(j)
    /\ UNCHANGED <<buffers, busy_count, toRelease>>

\* Every job is finished: the program may stop.
Terminated ==
    /\ \A t \in Tasks : status[t] \in {"idle", "done"}
    /\ UNCHANGED vars

Next ==
    \/ \E t \in Tasks :
        \/ Submit(t)
        \/ EnforceArbiteredDeps(t)
        \/ Execute(t)
        \/ ReleaseHandle(t)
        \/ NotifyArbiteredDependencies(t)
    \/ Terminated

\* Threads run whenever they can; submission is up to the application.
\* At most one of a job's own steps is enabled at a time, so weak fairness
\* of their disjunction is weak fairness of each.
JobStep(t) ==
    \/ EnforceArbiteredDeps(t)
    \/ Execute(t)
    \/ ReleaseHandle(t)
    \/ NotifyArbiteredDependencies(t)

\* When a job's step is enabled: the phase alone decides it.
CanStep(t) ==
    \/ status[t] \in {"acquiring", "ready"}
    \/ status[t] = "releasing" /\ (toRelease[t] # {} \/ notifyOn[t] # NoHandle)

\* Weak fairness of JobStep(t), with its enabling condition written out
\* (CanStep(t) is ENABLED JobStep(t)).
Fairness ==
    \A t \in Tasks : []<>~CanStep(t) \/ []<><<JobStep(t)>>_vars

Spec == Init /\ [][Next]_vars /\ Fairness

-----------------------------------------------------------------------------
(* Properties                                                              *)

TypeOK ==
    /\ status \in [Tasks -> Phases]
    /\ buffers \in [Tasks -> BufferChoices \cup {<<>>}]
    /\ pos \in [Tasks -> Nat \ {0}]
    /\ refcnt \in [Handles -> Nat]
    /\ busy_count \in [Handles -> Nat]
    /\ arbitered_req_list \in [Handles -> Seq(Requester)]
    /\ toRelease \in [Tasks -> SUBSET Handles]
    /\ notifyOn \in [Tasks -> Handles \cup {NoHandle}]
    /\ pushes \in [Tasks -> Nat]

\* Mutual exclusion on arbitered handles: the refcnt of a handle is exactly
\* the number of jobs that took it, and never more than one job holds it,
\* across submissions, notifications and releases running concurrently.
RefcntCountsHolders ==
    \A h \in Handles :
        /\ refcnt[h] = Cardinality(Holders(h))
        /\ refcnt[h] <= 1

\* busy_count (which gates handle unregistration) counts each holder and
\* each queued requester once: the failure path of the submission, which
\* splits its increments between the fast-take loop and the recording loop,
\* neither loses nor doubles one.
BusyCountAccounting ==
    \A h \in Handles :
        busy_count[h] = Cardinality(Holders(h)) + Len(arbitered_req_list[h])

\* The requester lists hold exactly the waiting jobs: every requester on a
\* handle belongs to a waiting job whose current arbiter group asks for that
\* handle, and every waiting job is recorded on every handle of its group.
\* A stale requester would let a later notification serve a finished job.
RequestersAreWaiting ==
    /\ \A h \in Handles : \A k \in 1..Len(arbitered_req_list[h]) :
         LET j == arbitered_req_list[h][k].job
         IN /\ status[j] = "waiting"
            /\ h \in GroupHandles(buffers[j], pos[j])
    /\ \A t \in Tasks : status[t] = "waiting" =>
         \A h \in GroupHandles(buffers[t], pos[t]) :
            NodesOf(arbitered_req_list[h], t) >= 1

\* _starpu_push_task is called at most once per job.
PushedAtMostOnce == \A t \in Tasks : pushes[t] <= 1

-----------------------------------------------------------------------------
(* Refinement of TaskAcquisition                                           *)

\* A job is pending while it acquires or waits, done from the moment it
\* starts releasing; the handles it needs are those of its buffer list.
AbsPhase(t) ==
    CASE status[t] = "idle"                      -> "idle"
      [] status[t] \in {"acquiring", "waiting"}  -> "pending"
      [] status[t] = "ready"                     -> "ready"
      [] status[t] \in {"releasing", "done"}     -> "done"

ArbiterAbs == INSTANCE TaskAcquisition
    WITH phase <- [t \in Tasks |-> AbsPhase(t)],
         needs <- [t \in Tasks |-> ToSet(buffers[t])],
         Requests <- {ToSet(b) : b \in BufferChoices}

\* The arbiter implements atomic all-or-nothing acquisition: whatever the
\* interleaving of submissions, fast-takes, roll-backs, releases and
\* notifications, a job becomes ready only when no ready job holds one of
\* its handles, every job goes idle -> pending -> ready -> done once, and
\* every waiting job whose handles keep coming free is eventually served.
ImplementsTaskAcquisition == ArbiterAbs!Spec

\* No job is stranded: eventually every submitted job is finished for good
\* (no requester is forgotten by the one-job-per-notification scan, and no
\* cycle of jobs holding one arbiter group while waiting for the next).
AllJobsFinish ==
    <>[](\A t \in Tasks : status[t] \in {"idle", "done"})

=============================================================================
