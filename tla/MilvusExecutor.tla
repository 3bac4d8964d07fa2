--------------------------- MODULE MilvusExecutor ---------------------------
(***************************************************************************)
(* The bounded executor and the search client of the knowledge base        *)
(* (harness_rag/milvus).  A caller on the event loop takes a permit,       *)
(* queues a blocking search and awaits it; worker threads run it.  The     *)
(* first search loads the collection, under a lock that blocks the thread. *)
(* A caller may be cancelled while it awaits: it gives its permit back,    *)
(* and a search that has started goes on with nobody waiting for it.       *)
(*                                                                         *)
(* A permit is waited for by blocking the event loop, on which it would    *)
(* have to be released: no permit is there after the wait that was not     *)
(* there before.  Nobody closes the client.                                *)
(***************************************************************************)
EXTENDS Integers, Sequences, FiniteSets

CONSTANTS
    Caller,       \* who may search, one search at a time
    Worker,       \* the threads of the pool
    Nobody,       \* the owner of a search whose caller went away
    MaxInFlight   \* the permits

ASSUME ExecutorAssumption ==
    /\ MaxInFlight \in Nat
    /\ IsFiniteSet(Caller)
    /\ Nobody \notin Caller \cup Worker

VARIABLES
    permits, \* what is left of the semaphore
    queue,   \* the callers whose search no thread has taken yet
    thread,  \* per worker: where it is, and for whom
    answer,  \* per caller: none, waiting, ok or error
    lock,    \* who holds _load_lock
    loads    \* how often the collection was loaded

executorVars == <<permits, queue, thread, answer, lock, loads>>

Place == {"free", "check", "wait", "load", "search"}

Free == [at |-> "free", for |-> Nobody]

\* The state of the executor, of the threads and of the lock is well formed:
\* above all the semaphore (executor.py:36) is never overdrawn.
ExecutorTypeOK ==
    /\ permits \in 0..MaxInFlight
    /\ queue \in Seq(Caller)
    /\ thread \in [Worker -> [at : Place, for : Caller \cup {Nobody}]]
    /\ answer \in [Caller -> {"none", "waiting", "ok", "error"}]
    /\ lock \in Worker \cup {Nobody}
    /\ loads \in Nat

ExecutorInit ==
    /\ permits = MaxInFlight
    /\ queue = <<>>
    /\ thread = [w \in Worker |-> Free]
    /\ answer = [c \in Caller |-> "none"]
    /\ lock = Nobody
    /\ loads = 0

-----------------------------------------------------------------------------
(* The event loop                                                          *)

AdmittedAlways == TRUE

Admitted == permits > 0

\* run: admitted and submitted to the pool.
Submit(c) ==
    /\ answer[c] = "none"
    /\ Admitted
    /\ permits' = permits - 1
    /\ queue' = Append(queue, c)
    /\ answer' = [answer EXCEPT ![c] = "waiting"]
    /\ UNCHANGED <<thread, lock, loads>>

\* MilvusExecutorBusy.
Busy(c) == answer[c] = "none" /\ ~Admitted

ReleaseForgotten(c) == permits

Released(c) == permits + 1

\* The awaited search is over; the permit goes back either way.
Resume(c) ==
    /\ answer[c] \in {"ok", "error"}
    /\ permits' = Released(c)
    /\ answer' = [answer EXCEPT ![c] = "none"]
    /\ UNCHANGED <<queue, thread, lock, loads>>

\* The queue without the search of c, of which there is one at most.
Dropped(c) ==
    LET here == CHOOSE i \in DOMAIN queue : queue[i] = c IN
    IF \A i \in DOMAIN queue : queue[i] # c THEN queue
    ELSE [i \in 1..(Len(queue) - 1) |-> queue[IF i < here THEN i ELSE i + 1]]

\* The caller is cancelled: a search that no thread has taken is dropped, one
\* that has started is not stopped, and the permit goes back.
Cancel(c) ==
    /\ answer[c] # "none"
    /\ permits' = Released(c)
    /\ queue' = Dropped(c)
    /\ thread' = [w \in Worker |->
                    IF thread[w].for = c THEN [thread[w] EXCEPT !.for = Nobody]
                    ELSE thread[w]]
    /\ answer' = [answer EXCEPT ![c] = "none"]
    /\ UNCHANGED <<lock, loads>>

-----------------------------------------------------------------------------
(* The threads                                                             *)

\* A thread is done and its caller, if it is still there, is told.
End(w, result) ==
    /\ thread' = [thread EXCEPT ![w] = Free]
    /\ answer' = IF thread[w].for = Nobody THEN answer
                 ELSE [answer EXCEPT ![thread[w].for] = result]

Take(w) ==
    /\ thread[w].at = "free"
    /\ queue # <<>>
    /\ thread' = [thread EXCEPT ![w] = [at |-> "check", for |-> Head(queue)]]
    /\ queue' = Tail(queue)
    /\ UNCHANGED <<permits, answer, lock, loads>>

\* The look at _loaded_collections before the lock.
Check(w) ==
    /\ thread[w].at = "check"
    /\ thread' = [thread EXCEPT ![w].at = IF loads > 0 THEN "search" ELSE "wait"]
    /\ UNCHANGED <<permits, queue, answer, lock, loads>>

LoadUnchecked == TRUE

\* The second look, under the lock.
MustLoad == loads = 0

\* The lock is taken; it is held only while there is something to load.
Enter(w) ==
    /\ thread[w].at = "wait"
    /\ lock = Nobody
    /\ IF MustLoad
       THEN /\ thread' = [thread EXCEPT ![w].at = "load"]
            /\ lock' = w
       ELSE /\ thread' = [thread EXCEPT ![w].at = "search"]
            /\ UNCHANGED lock
    /\ UNCHANGED <<permits, queue, answer, loads>>

\* The client is made if there is none, and the collection loaded.
Load(w) ==
    /\ thread[w].at = "load"
    /\ thread' = [thread EXCEPT ![w].at = "search"]
    /\ lock' = Nobody
    /\ loads' = loads + 1
    /\ UNCHANGED <<permits, queue, answer>>

LoadFails(w) ==
    /\ thread[w].at = "load"
    /\ End(w, "error")
    /\ lock' = Nobody
    /\ UNCHANGED <<permits, queue, loads>>

\* The search or the query by ids; it may fail or time out.
Search(w) ==
    /\ thread[w].at = "search"
    /\ \E result \in {"ok", "error"} : End(w, result)
    /\ UNCHANGED <<permits, queue, lock, loads>>

Thread(w) == Take(w) \/ Check(w) \/ Enter(w) \/ Load(w) \/ LoadFails(w) \/ Search(w)

-----------------------------------------------------------------------------
ExecutorNext ==
    \/ \E c \in Caller : Submit(c) \/ Resume(c) \/ Cancel(c)
    \/ \E w \in Worker : Thread(w)

ExecutorSpec == ExecutorInit /\ [][ExecutorNext]_executorVars

-----------------------------------------------------------------------------
(* Properties                                                              *)

InFlight == {c \in Caller : answer[c] # "none"}

\* No permit is lost or made, whichever way a search ends: answered, failed,
\* or cancelled in the queue or in a thread (executor.py:53-61).
PermitsBalanced == permits + Cardinality(InFlight) = MaxInFlight

\* The collection is loaded once, whichever threads meet at the first search,
\* also when a load failed before, and no search runs before it
\* (client.py:239-250).
LoadedOnce ==
    /\ loads <= 1
    /\ \A w \in Worker : thread[w].at = "search" => loads = 1
=============================================================================
