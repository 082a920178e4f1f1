------------------------------- MODULE MpiCache -------------------------------
(***************************************************************************)
(* starpu_mpi_insert_task with the send/receive cache (the C file stored   *)
(* at src/julia/StarPU.jl/src/compiler/parsing.jl, lines 53-365).          *)
(*                                                                         *)
(* Every node runs the same sequence of insert_task calls (the SPMD use of *)
(* starpu_mpi_insert_task); prog is that sequence, extended by the first   *)
(* node to get there.  A task is a sequence of arguments [data, mode]; it  *)
(* runs on the owner of the data it writes.  On each node a call is one    *)
(* step: the executor posts a receive for each remote data it reads, the   *)
(* owner of such data posts the matching send, both skipped on a cache     *)
(* hit, and writes post clear tasks whose callbacks empty the caches later *)
(* (ClearCallback).  Sends and receives all use tag 0, so MPI matches them *)
(* in order per (source, destination): Match.  A message carries [data,    *)
(* ver], ver being the number of writes of that data before the task, the *)
(* value that StarPU's data dependencies make the task see.               *)
(***************************************************************************)
EXTENDS Naturals, Sequences, SequencesExt, FiniteSets

CONSTANTS
    Nodes, Data,
    Owner,        \* data -> rank from starpu_data_get_rank
    TaskChoices,  \* the tasks a call may insert: sequences of [data, mode]
    MaxTasks,     \* length of the program
    Cache         \* TRUE: built with MPI_CACHE defined (line 86)

Reads(m) == m \in {"R", "RW"}      \* arg_type & STARPU_R
Writes(m) == m \in {"W", "RW"}     \* arg_type & STARPU_W

\* The rank that executes task t: the owner of the data it writes (lines
\* 173-214); tasks writing data of two ranks are rejected with -EINVAL and
\* are not among the choices.
Executor(t) == Owner[t[CHOOSE i \in 1..Len(t) : Writes(t[i].mode)].data]

ASSUME \A t \in TaskChoices :
    /\ \E i \in 1..Len(t) : Writes(t[i].mode)
    /\ \A i, j \in 1..Len(t) : i # j => t[i].data # t[j].data
    /\ \A i, j \in 1..Len(t) : Writes(t[i].mode) /\ Writes(t[j].mode)
                                => Owner[t[i].data] = Owner[t[j].data]

VARIABLES
    prog,          \* the insert_task calls made so far by the fastest node
    pos,           \* node -> number of insert_task calls it has made
    sent_data,     \* node -> dest -> data whose send the cache remembers
    received_data, \* node -> source -> data whose receive it remembers
    clears,        \* node -> clear requests whose tasks have not run yet
    chan,          \* source -> dest -> messages sent, not yet matched
    posted,        \* dest -> source -> receives posted, not yet matched
    lastRecv,      \* node -> data -> version its last receive expects
    uses           \* cached reads: [node, data, used, need]

vars == <<prog, pos, sent_data, received_data, clears, chan, posted, lastRecv,
          uses>>

\* Number of writes of d in the first i tasks of the program p.
Ver(p, d, i) ==
    Cardinality({j \in 1..i : \E a \in ToSet(p[j]) : a.data = d /\ Writes(a.mode)})

\* _starpu_mpi_task_init (lines 88-101): empty sent_data and received_data
\* tables for every rank; no call made yet, no clear pending (the entries of
\* clears are _starpu_mpi_clear_data_t, lines 103-107).
Init ==
    /\ prog = <<>>
    /\ pos = [n \in Nodes |-> 0]
    /\ sent_data = [n \in Nodes |-> [m \in Nodes |-> {}]]
    /\ received_data = [n \in Nodes |-> [m \in Nodes |-> {}]]
    /\ clears = [n \in Nodes |-> <<>>]
    /\ chan = [n \in Nodes |-> [m \in Nodes |-> <<>>]]
    /\ posted = [n \in Nodes |-> [m \in Nodes |-> <<>>]]
    /\ lastRecv = [n \in Nodes |-> [d \in Data |-> 0]]
    /\ uses = {}

-----------------------------------------------------------------------------

\* The arguments of t read from data owned by src, in argument order.
ToReceive(t, src) == SelectSeq(t, LAMBDA a : Reads(a.mode) /\ Owner[a.data] = src)

\* What node n receives from src for task t (lines 241-244): the remote
\* data it reads, if it executes.
RecvArgs(t, n, src) == IF n = Executor(t) /\ src # n THEN ToReceive(t, src) ELSE <<>>

\* What node n sends to the executor of t (line 262): the data it owns that
\* t reads, if it does not execute t itself.
SendArgs(t, n) == IF n # Executor(t) THEN ToReceive(t, n) ELSE <<>>

\* The arguments of s whose key the cache does not hold (lines 247-255,
\* 265-273); without MPI_CACHE, all of them.
Uncached(s, cached) == SelectSeq(s, LAMBDA a : ~(Cache /\ a.data \in cached))

DataOf(s) == {s[j].data : j \in 1..Len(s)}

\* The clear requests node n posts for the data t writes (lines 313-339):
\* the executor for every sent_data table holding it, the others for
\* received_data[owner] if it holds it.
WriteClears(t, n) ==
    LET WD == {t[j].data : j \in {j \in 1..Len(t) : Writes(t[j].mode)}} IN
    IF ~Cache THEN {}
    ELSE IF n = Executor(t)
    THEN {c \in [kind : {"sent"}, rank : Nodes, data : WD] :
            c.data \in sent_data[n][c.rank]}
    ELSE {c \in [kind : {"received"}, rank : Nodes, data : WD] :
            c.rank = Owner[c.data] /\ c.data \in received_data[n][c.rank]}

\* One starpu_mpi_insert_task call by node n (lines 152-365), the next one
\* of the program.  The executor posts irecv_detached for the remote data
\* its cache does not hold (244-261); the owner of such data, if it does
\* not execute, posts isend_detached unless sent_data[dest] holds it
\* (262-279).  With MPI_CACHE, the written data then get clear tasks.
InsertTask(n) ==
    /\ pos[n] < MaxTasks
    /\ \/ pos[n] < Len(prog) /\ UNCHANGED prog
       \/ pos[n] = Len(prog) /\ \E t \in TaskChoices : prog' = Append(prog, t)
    /\ LET i == pos[n] + 1
           t == prog'[i]
           ex == Executor(t)
           V(d) == Ver(prog', d, i - 1)
           Msgs(s) == [j \in 1..Len(s) |-> [data |-> s[j].data, ver |-> V(s[j].data)]]
           FreshRecv(src) == Uncached(RecvArgs(t, n, src), received_data[n][src])
           Hits == UNION {DataOf(RecvArgs(t, n, src)) \ DataOf(FreshRecv(src)) : src \in Nodes}
           Fresh == UNION {DataOf(FreshRecv(src)) : src \in Nodes}
           FreshSend == Uncached(SendArgs(t, n), sent_data[n][ex])
       IN
       /\ posted' = [posted EXCEPT ![n] =
                        [src \in Nodes |-> posted[n][src] \o Msgs(FreshRecv(src))]]
       /\ received_data' = IF ~Cache THEN received_data
                           ELSE [received_data EXCEPT ![n] =
                                   [src \in Nodes |-> received_data[n][src] \cup DataOf(FreshRecv(src))]]
       /\ lastRecv' = [lastRecv EXCEPT ![n] =
                         [d \in Data |-> IF d \in Fresh THEN V(d) ELSE lastRecv[n][d]]]
       /\ uses' = uses \cup {[node |-> n, data |-> d, used |-> lastRecv[n][d], need |-> V(d)] :
                              d \in Hits}
       /\ chan' = IF n = ex THEN chan ELSE [chan EXCEPT ![n][ex] = @ \o Msgs(FreshSend)]
       /\ sent_data' = IF n = ex \/ ~Cache THEN sent_data
                       ELSE [sent_data EXCEPT ![n][ex] = @ \cup DataOf(FreshSend)]
       /\ clears' = [clears EXCEPT ![n] = @ \o SetToSeq(WriteClears(t, n))]
       /\ pos' = [pos EXCEPT ![n] = i]

\* A clear task runs and its callback _starpu_mpi_clear_data_callback
\* (lines 112-126) empties the cache entry.  The task accesses the data in
\* RW mode (128-144), so clear tasks of one data run in submission order;
\* when, relative to the node's later insert_task calls, is not fixed.
ClearCallback(n) ==
    \E j \in 1..Len(clears[n]) :
        LET c == clears[n][j] IN
        /\ \A h \in 1..j - 1 : clears[n][h].data # c.data
        /\ IF c.kind = "sent"
           THEN /\ sent_data' = [sent_data EXCEPT ![n][c.rank] = @ \ {c.data}]
                /\ UNCHANGED received_data
           ELSE /\ received_data' = [received_data EXCEPT ![n][c.rank] = @ \ {c.data}]
                /\ UNCHANGED sent_data
        /\ clears' = [clears EXCEPT ![n] = RemoveAt(@, j)]
        /\ UNCHANGED <<prog, pos, chan, posted, lastRecv, uses>>

\* MPI matches the oldest pending send of src to dst, tag 0, with the
\* oldest receive dst posted from src (starpu_mpi_isend/irecv_detached).
Match(src, dst) ==
    /\ chan[src][dst] # <<>>
    /\ posted[dst][src] # <<>>
    /\ chan' = [chan EXCEPT ![src][dst] = Tail(@)]
    /\ posted' = [posted EXCEPT ![dst][src] = Tail(@)]
    /\ UNCHANGED <<prog, pos, sent_data, received_data, clears, lastRecv, uses>>

\* Every node has made all its calls and no send can meet a receive.
Quiescent ==
    /\ \A n \in Nodes : pos[n] = MaxTasks
    /\ \A s, d \in Nodes : chan[s][d] = <<>> \/ posted[d][s] = <<>>

Terminated ==
    /\ Quiescent
    /\ \A n \in Nodes : clears[n] = <<>>
    /\ UNCHANGED vars

Next ==
    \/ \E n \in Nodes : InsertTask(n) \/ ClearCallback(n)
    \/ \E s, d \in Nodes : Match(s, d)
    \/ Terminated

Spec == Init /\ [][Next]_vars

-----------------------------------------------------------------------------
(* Properties                                                              *)

Msg == [data : Data, ver : 0..MaxTasks]

\* Types; a message is sent by the owner of its data.
TypeOK ==
    /\ prog \in Seq(TaskChoices) /\ Len(prog) <= MaxTasks
    /\ pos \in [Nodes -> 0..MaxTasks]
    /\ sent_data \in [Nodes -> [Nodes -> SUBSET Data]]
    /\ received_data \in [Nodes -> [Nodes -> SUBSET Data]]
    /\ \A n \in Nodes : \A j \in 1..Len(clears[n]) :
           clears[n][j] \in [kind : {"sent", "received"}, rank : Nodes, data : Data]
    /\ \A s, d \in Nodes : ToSet(chan[s][d]) \subseteq [data : {x \in Data : Owner[x] = s}, ver : 0..MaxTasks]
                          /\ ToSet(posted[d][s]) \subseteq Msg
    /\ lastRecv \in [Nodes -> [Data -> 0..MaxTasks]]
    /\ uses \subseteq [node : Nodes, data : Data, used : 0..MaxTasks, need : 0..MaxTasks]

\* Once every node has made all its insert_task calls, no receive waits
\* for a send that will never come and no send is left without receiver:
\* the sender's and the receiver's caches took the same decisions.
NoUnmatchedCommunication ==
    Quiescent => \A s, d \in Nodes : chan[s][d] = <<>> /\ posted[d][s] = <<>>

\* A receive skipped because received_data holds the data is sound: the
\* copy last received is the version the task must read, i.e. the owner
\* has not written the data since.
CachedCopyCurrent == \A u \in uses : u.used = u.need

=============================================================================
