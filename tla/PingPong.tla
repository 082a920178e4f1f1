------------------------------- MODULE PingPong -------------------------------
(***************************************************************************)
(* The CUDA ping-pong latency test (src/tests/experiments/latency/         *)
(* cuda-latency.c 1-190).  main starts two GPU threads, one after the      *)
(* other, passing each the address of its own loop variable id; each       *)
(* thread signals its initialisation on cond and waits for ready on        *)
(* cond_go.  The threads then pass a buffer back and forth NIter times     *)
(* through cpu_buffer, handing it over with data_is_available under        *)
(* mutex_gpu/cond_gpu, and main waits on cond_go for nready_gpu to drop    *)
(* to 0.                                                                   *)
(*                                                                         *)
(* Each critical section is one step; a condition wait is a step that adds *)
(* the thread to the waiters of the condition variable and a later step,   *)
(* enabled once it is woken, that takes the mutex and tests again.  The    *)
(* CUDA copies are one step each: the data a copy moves is a message       *)
(* [from, iter], the sender and the iteration it was sent in.              *)
(***************************************************************************)
EXTENDS Naturals

CONSTANTS
    NIter   \* niter

ASSUME NIter \in Nat \ {0}

Ids == {0, 1}                     \* device ids
Slots == {"thread0", "thread1"}   \* the GPU threads, in creation order
SlotOf(i) == IF i = 0 THEN "thread0" ELSE "thread1"
CVs == {"cond", "cond_go", "cond_gpu"}
Actors == Slots \cup {"main"}
Msgs == [from: Ids, iter: 0..NIter - 1]
NoMsg == [from |-> 2, iter |-> 0] \* contents of a buffer never written

VARIABLES
    thread_is_initialized, ready, nready_gpu, data_is_available,
    cpu_buffer,   \* the message in pinned host memory
    gpu_buffer,   \* id -> message last uploaded to that GPU
    waiters,      \* condition variable -> actors blocked on it
    mpc, id,      \* main's program counter and its loop variable id
    gpc,          \* GPU thread slot -> program counter
    myid,         \* GPU thread slot -> the id it read through its argument
    iter          \* GPU thread slot -> loop counter

vars == <<thread_is_initialized, ready, nready_gpu, data_is_available,
          cpu_buffer, gpu_buffer, waiters, mpc, id, gpc, myid, iter>>

\* pthread_cond_signal: wake one waiter, if any.
Signal(cv) ==
    IF waiters[cv] = {} THEN UNCHANGED waiters
    ELSE \E a \in waiters[cv] : waiters' = [waiters EXCEPT ![cv] = @ \ {a}]

\* Block on cv: the mutex is released and the actor waits for a wake-up.
Wait(cv, a) == waiters' = [waiters EXCEPT ![cv] = @ \cup {a}]

\* A blocked actor that was woken, or one that did not wait.
Awake(a) == \A cv \in CVs : a \notin waiters[cv]

Init ==
    /\ thread_is_initialized = [i \in Ids |-> 0]
    /\ ready = 0
    /\ nready_gpu = 0
    /\ data_is_available = [i \in Ids |-> 0]
    /\ cpu_buffer = NoMsg
    /\ gpu_buffer = [i \in Ids |-> NoMsg]
    /\ waiters = [cv \in CVs |-> {}]
    /\ mpc = "create"
    /\ id = 0
    /\ gpc = [s \in Slots |-> "none"]
    /\ myid = [s \in Slots |-> 0]
    /\ iter = [s \in Slots |-> 0]

-----------------------------------------------------------------------------
(* main (lines 140-190)                                                    *)

\* Lines 151-152: clear the flag and create the thread for slot id.
MainCreate ==
    /\ mpc = "create"
    /\ thread_is_initialized' = [thread_is_initialized EXCEPT ![id] = 0]
    /\ gpc' = [gpc EXCEPT ![SlotOf(id)] = "start"]
    /\ mpc' = "waitInit"
    /\ UNCHANGED <<ready, nready_gpu, data_is_available, cpu_buffer,
                   gpu_buffer, waiters, id, myid, iter>>

\* Mutant: main goes on to the next id without waiting for the thread.
MainWaitInitNoWait ==
    /\ mpc = "waitInit"
    /\ id' = id + 1
    /\ mpc' = IF id + 1 < 2 THEN "create" ELSE "go"
    /\ UNCHANGED <<thread_is_initialized, ready, nready_gpu,
                   data_is_available, cpu_buffer, gpu_buffer, waiters, gpc,
                   myid, iter>>

\* Lines 154-159: wait on cond until the thread is initialised, then the
\* next id of the for loop.
MainWaitInit ==
    /\ mpc = "waitInit"
    /\ Awake("main")
    /\ IF thread_is_initialized[id] = 1
       THEN /\ id' = id + 1
            /\ mpc' = IF id + 1 < 2 THEN "create" ELSE "go"
            /\ UNCHANGED waiters
       ELSE Wait("cond", "main") /\ UNCHANGED <<id, mpc>>
    /\ UNCHANGED <<thread_is_initialized, ready, nready_gpu,
                   data_is_available, cpu_buffer, gpu_buffer, gpc, myid, iter>>

\* Mutant: pthread_cond_signal instead of the broadcast of cond_go.
MainGoSignal ==
    /\ mpc = "go"
    /\ ready' = 1
    /\ Signal("cond_go")
    /\ mpc' = "waitEnd"
    /\ UNCHANGED <<thread_is_initialized, nready_gpu, data_is_available,
                   cpu_buffer, gpu_buffer, id, gpc, myid, iter>>

\* Lines 168-171: ready = 1 and broadcast cond_go.
MainGo ==
    /\ mpc = "go"
    /\ ready' = 1
    /\ waiters' = [waiters EXCEPT !["cond_go"] = {}]
    /\ mpc' = "waitEnd"
    /\ UNCHANGED <<thread_is_initialized, nready_gpu, data_is_available,
                   cpu_buffer, gpu_buffer, id, gpc, myid, iter>>

\* Lines 174-179: wait on cond_go until nready_gpu is 0.
MainWaitEnd ==
    /\ mpc = "waitEnd"
    /\ Awake("main")
    /\ IF nready_gpu = 0
       THEN mpc' = "done" /\ UNCHANGED waiters
       ELSE Wait("cond_go", "main") /\ UNCHANGED mpc
    /\ UNCHANGED <<thread_is_initialized, ready, nready_gpu,
                   data_is_available, cpu_buffer, gpu_buffer, id, gpc, myid,
                   iter>>

-----------------------------------------------------------------------------
(* launch_gpu_thread (lines 94-138)                                        *)

\* Lines 96-97: the thread reads main's id through its argument pointer.
ThreadStart(s) ==
    /\ gpc[s] = "start"
    /\ myid' = [myid EXCEPT ![s] = id]
    /\ gpc' = [gpc EXCEPT ![s] = "initLock"]
    /\ UNCHANGED <<thread_is_initialized, ready, nready_gpu,
                   data_is_available, cpu_buffer, gpu_buffer, waiters, mpc,
                   id, iter>>

\* Lines 105-109: announce the initialisation and count the thread ready.
ThreadInit(s) ==
    /\ gpc[s] = "initLock"
    /\ thread_is_initialized' = [thread_is_initialized EXCEPT ![myid[s]] = 1]
    /\ Signal("cond")
    /\ nready_gpu' = nready_gpu + 1
    /\ gpc' = [gpc EXCEPT ![s] = "waitGo"]
    /\ UNCHANGED <<ready, data_is_available, cpu_buffer, gpu_buffer, mpc,
                   id, myid, iter>>

\* Lines 111-114: wait on cond_go until ready.  In the code the first test
\* is in ThreadInit's critical section; it is a step of its own here, which
\* adds no behaviour: main sets ready only after it saw both threads
\* initialised.
ThreadWaitGo(s) ==
    /\ gpc[s] = "waitGo"
    /\ Awake(s)
    /\ IF ready = 1
       THEN gpc' = [gpc EXCEPT ![s] = IF myid[s] = 0 THEN "send" ELSE "recv"]
            /\ UNCHANGED waiters
       ELSE Wait("cond_go", s) /\ UNCHANGED gpc
    /\ UNCHANGED <<thread_is_initialized, ready, nready_gpu,
                   data_is_available, cpu_buffer, gpu_buffer, mpc, id, myid,
                   iter>>

\* Mutant: "iter <= niter", one iteration too many.
NextIterOffByOne(s) ==
    /\ iter' = [iter EXCEPT ![s] = @ + 1]
    /\ gpc' = [gpc EXCEPT ![s] =
                 IF iter[s] + 1 <= NIter
                 THEN IF myid[s] = 0 THEN "send" ELSE "recv"
                 ELSE "fin"]

\* Where a thread goes after finishing a send or an upload: thread 0 sends
\* then receives, thread 1 receives then sends; after NIter iterations, the
\* end of the loop.
NextIter(s) ==
    /\ iter' = [iter EXCEPT ![s] = @ + 1]
    /\ gpc' = [gpc EXCEPT ![s] =
                 IF iter[s] + 1 < NIter
                 THEN IF myid[s] = 0 THEN "send" ELSE "recv"
                 ELSE "fin"]

\* send_data, lines 56-58: copy the GPU buffer to RAM and synchronise.
SendCopy(s) ==
    /\ gpc[s] = "send"
    /\ cpu_buffer' = [from |-> myid[s], iter |-> iter[s]]
    /\ gpc' = [gpc EXCEPT ![s] = "notify"]
    /\ UNCHANGED <<thread_is_initialized, ready, nready_gpu,
                   data_is_available, gpu_buffer, waiters, mpc, id, myid,
                   iter>>

\* Mutant: send_data does not clear its own data_is_available flag.
SendNotifyKeepOwn(s) ==
    /\ gpc[s] = "notify"
    /\ data_is_available' = [data_is_available EXCEPT ![1 - myid[s]] = 1]
    /\ Signal("cond_gpu")
    /\ IF myid[s] = 0
       THEN gpc' = [gpc EXCEPT ![s] = "recv"] /\ UNCHANGED iter
       ELSE NextIter(s)
    /\ UNCHANGED <<thread_is_initialized, ready, nready_gpu, cpu_buffer,
                   gpu_buffer, mpc, id, myid>>

\* send_data, lines 65-70: hand the data over to the other thread.
SendNotify(s) ==
    /\ gpc[s] = "notify"
    /\ data_is_available' = [data_is_available EXCEPT ![myid[s]] = 0,
                                                      ![1 - myid[s]] = 1]
    /\ Signal("cond_gpu")
    /\ IF myid[s] = 0
       THEN gpc' = [gpc EXCEPT ![s] = "recv"] /\ UNCHANGED iter
       ELSE NextIter(s)
    /\ UNCHANGED <<thread_is_initialized, ready, nready_gpu, cpu_buffer,
                   gpu_buffer, mpc, id, myid>>

\* recv_data, lines 76-81: wait on cond_gpu until the data is in RAM.
RecvWait(s) ==
    /\ gpc[s] = "recv"
    /\ Awake(s)
    /\ IF data_is_available[myid[s]] = 1
       THEN gpc' = [gpc EXCEPT ![s] = "upload"] /\ UNCHANGED waiters
       ELSE Wait("cond_gpu", s) /\ UNCHANGED gpc
    /\ UNCHANGED <<thread_is_initialized, ready, nready_gpu,
                   data_is_available, cpu_buffer, gpu_buffer, mpc, id, myid,
                   iter>>

\* recv_data, lines 85-91: copy RAM to the GPU buffer and synchronise.
Upload(s) ==
    /\ gpc[s] = "upload"
    /\ gpu_buffer' = [gpu_buffer EXCEPT ![myid[s]] = cpu_buffer]
    /\ IF myid[s] = 0
       THEN NextIter(s)
       ELSE gpc' = [gpc EXCEPT ![s] = "send"] /\ UNCHANGED iter
    /\ UNCHANGED <<thread_is_initialized, ready, nready_gpu,
                   data_is_available, cpu_buffer, waiters, mpc, id, myid>>

\* Lines 133-136: uncount the thread and signal cond_go.
ThreadEnd(s) ==
    /\ gpc[s] = "fin"
    /\ nready_gpu' = nready_gpu - 1
    /\ Signal("cond_go")
    /\ gpc' = [gpc EXCEPT ![s] = "done"]
    /\ UNCHANGED <<thread_is_initialized, ready, data_is_available,
                   cpu_buffer, gpu_buffer, mpc, id, myid, iter>>

-----------------------------------------------------------------------------

Finished ==
    /\ mpc = "done"
    /\ \A s \in Slots : gpc[s] = "done"
    /\ UNCHANGED vars

MainStep == MainCreate \/ MainWaitInit \/ MainGo \/ MainWaitEnd

ThreadStep(s) ==
    \/ ThreadStart(s) \/ ThreadInit(s) \/ ThreadWaitGo(s)
    \/ SendCopy(s) \/ SendNotify(s) \/ RecvWait(s) \/ Upload(s)
    \/ ThreadEnd(s)

Next == MainStep \/ (\E s \in Slots : ThreadStep(s)) \/ Finished

\* Every thread runs; a thread blocked on a condition variable has no
\* enabled step until it is woken.
Spec ==
    /\ Init /\ [][Next]_vars
    /\ WF_vars(MainStep)
    /\ \A s \in Slots : WF_vars(ThreadStep(s))

-----------------------------------------------------------------------------
(* Properties                                                              *)

TypeOK ==
    /\ thread_is_initialized \in [Ids -> {0, 1}]
    /\ ready \in {0, 1}
    /\ nready_gpu \in 0..2
    /\ data_is_available \in [Ids -> {0, 1}]
    /\ cpu_buffer \in Msgs \cup {NoMsg}
    /\ gpu_buffer \in [Ids -> Msgs \cup {NoMsg}]
    /\ waiters \in [CVs -> SUBSET Actors]
    /\ id \in 0..2
    /\ gpc \in [Slots -> {"none", "start", "initLock", "waitGo", "send",
                          "notify", "recv", "upload", "fin", "done"}]
    /\ myid \in [Slots -> Ids]
    /\ iter \in [Slots -> 0..NIter]

\* The two GPU threads read different ids through the pointer to main's
\* loop variable: main does not move id on before the thread has read it.
DistinctIds ==
    \A s, t \in Slots :
        s # t /\ gpc[s] \notin {"none", "start"} /\ gpc[t] \notin {"none", "start"}
        => myid[s] # myid[t]

\* A thread about to upload finds in RAM the message the other thread sent
\* in the same iteration: data_is_available never lets it read too early,
\* and the other thread does not overwrite it before the upload.
ReceivesWhatWasSent ==
    \A s \in Slots :
        gpc[s] = "upload" => cpu_buffer = [from |-> 1 - myid[s], iter |-> iter[s]]

\* main returns after both threads finished all NIter round trips.
PingPongCompletes ==
    <>(mpc = "done" /\ \A s \in Slots : gpc[s] = "done" /\ iter[s] = NIter)

=============================================================================
