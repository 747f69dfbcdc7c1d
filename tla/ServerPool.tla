------------------------------ MODULE ServerPool ------------------------------
(***************************************************************************)
(* The worker pool of package http's server.  The handler of a connection  *)
(* hands its request to a worker through an unbuffered channel and waits   *)
(* on a condition variable of its own until the worker has answered; the   *)
(* worker takes the condition's mutex first, so that it cannot answer      *)
(* before the handler waits.  Close ends the http server, then closes the  *)
(* channel under the feet of the handlers that are sending.                *)
(***************************************************************************)
EXTENDS Naturals, Sequences, FiniteSets

CONSTANTS
    Handler,    \* goroutines of net/http, one per connection
    Worker,     \* the FILE_WORKER_POOL_SIZE goroutines of waitForFileWork
    None        \* no holder of a mutex, no job

ASSUME PoolAssumption ==
    /\ Handler \cap Worker = {}
    /\ None \notin Handler \cup Worker

VARIABLES
    hpc,        \* where each handler is
    mutex,      \* holder of the mutex of each handler's request
    answered,   \* has the response of each handler's request been written?
    sendq,      \* handlers blocked in fileJobs <- job, first come first served
    wpc, job,   \* where each worker is, and the handler it works for
    serving,    \* does the http server accept requests?
    closed      \* is fileJobs closed?

handlerVars == <<hpc, mutex, answered>>
workerVars == <<wpc, job>>
closeVars == <<serving, closed>>
vars == <<handlerVars, sendq, workerVars, closeVars>>

HandlerPC == {"idle", "locked", "sending", "sent", "waiting", "woken",
              "returning", "panicked"}
WorkerPC == {"receive", "lock", "serve", "broadcast", "unlock", "stopped"}

Init ==
    /\ hpc = [h \in Handler |-> "idle"]
    /\ mutex = [h \in Handler |-> None]
    /\ answered = [h \in Handler |-> FALSE]
    /\ sendq = <<>>
    /\ wpc = [w \in Worker |-> "receive"]
    /\ job = [w \in Worker |-> None]
    /\ serving = TRUE /\ closed = FALSE

-----------------------------------------------------------------------------
(* The handler of the files URL.                                            *)

\* A request arrives; its mutex is new, so locking it never waits.
Request(h) ==
    /\ hpc[h] = "idle" /\ serving
    /\ hpc' = [hpc EXCEPT ![h] = "locked"]
    /\ mutex' = [mutex EXCEPT ![h] = h]
    /\ answered' = [answered EXCEPT ![h] = FALSE]
    /\ UNCHANGED <<sendq, workerVars, closeVars>>

Send(h) ==
    /\ hpc[h] = "locked" /\ ~closed
    /\ hpc' = [hpc EXCEPT ![h] = "sending"]
    /\ sendq' = Append(sendq, h)
    /\ UNCHANGED <<mutex, answered, workerVars, closeVars>>

\* A send on the closed channel panics; net/http drops the connection.
SendPanics(h) ==
    /\ hpc[h] = "locked" /\ closed
    /\ hpc' = [hpc EXCEPT ![h] = "panicked"]
    /\ UNCHANGED <<mutex, answered, sendq, workerVars, closeVars>>

\* Wait joins the condition and releases the mutex in one step.
Wait(h) ==
    /\ hpc[h] = "sent"
    /\ hpc' = [hpc EXCEPT ![h] = "waiting"]
    /\ mutex' = [mutex EXCEPT ![h] = None]
    /\ UNCHANGED <<answered, sendq, workerVars, closeVars>>

\* Wait takes the mutex again before it returns.
Wake(h) ==
    /\ hpc[h] = "woken"
    /\ mutex[h] = None
    /\ hpc' = [hpc EXCEPT ![h] = "returning"]
    /\ mutex' = [mutex EXCEPT ![h] = h]
    /\ UNCHANGED <<answered, sendq, workerVars, closeVars>>

\* The response goes out; the connection may carry another request.
Return(h) ==
    /\ hpc[h] = "returning"
    /\ hpc' = [hpc EXCEPT ![h] = "idle"]
    /\ mutex' = [mutex EXCEPT ![h] = None]
    /\ UNCHANGED <<answered, sendq, workerVars, closeVars>>

-----------------------------------------------------------------------------
(* waitForFileWork.                                                         *)

Receive(w) ==
    /\ wpc[w] = "receive"
    /\ sendq # <<>>
    /\ job' = [job EXCEPT ![w] = Head(sendq)]
    /\ hpc' = [hpc EXCEPT ![Head(sendq)] = "sent"]
    /\ sendq' = Tail(sendq)
    /\ wpc' = [wpc EXCEPT ![w] = "lock"]
    /\ UNCHANGED <<mutex, answered, closeVars>>

\* Mutant: the worker does not lock the request's mutex.
LockJobUnlocked(w) ==
    /\ wpc[w] = "lock"
    /\ wpc' = [wpc EXCEPT ![w] = "serve"]
    /\ UNCHANGED <<handlerVars, sendq, job, closeVars>>

\* Mutant: the handler is released before the request is served.
LockJobReleasing(w) ==
    /\ wpc[w] = "lock"
    /\ mutex[job[w]] = None
    /\ hpc' = [hpc EXCEPT ![job[w]] = "woken"]
    /\ wpc' = [wpc EXCEPT ![w] = "serve"]
    /\ UNCHANGED <<mutex, answered, sendq, job, closeVars>>

LockJob(w) ==
    /\ wpc[w] = "lock"
    /\ mutex[job[w]] = None
    /\ mutex' = [mutex EXCEPT ![job[w]] = w]
    /\ wpc' = [wpc EXCEPT ![w] = "serve"]
    /\ UNCHANGED <<hpc, answered, sendq, job, closeVars>>

\* ServeFile writes the response, whatever the request was.
ServeFile(w) ==
    /\ wpc[w] = "serve"
    /\ answered' = [answered EXCEPT ![job[w]] = TRUE]
    /\ wpc' = [wpc EXCEPT ![w] = "broadcast"]
    /\ UNCHANGED <<hpc, mutex, sendq, job, closeVars>>

\* Whoever waits is woken; who does not wait yet will not notice.
Broadcast(w) ==
    /\ wpc[w] = "broadcast"
    /\ hpc' = [hpc EXCEPT ![job[w]] = IF @ = "waiting" THEN "woken" ELSE @]
    /\ wpc' = [wpc EXCEPT ![w] = "unlock"]
    /\ UNCHANGED <<mutex, answered, sendq, job, closeVars>>

\* Mutant: the worker keeps the request's mutex.
UnlockJobForgotten(w) ==
    /\ wpc[w] = "unlock"
    /\ job' = [job EXCEPT ![w] = None]
    /\ wpc' = [wpc EXCEPT ![w] = "receive"]
    /\ UNCHANGED <<handlerVars, sendq, closeVars>>

UnlockJob(w) ==
    /\ wpc[w] = "unlock"
    /\ mutex' = [mutex EXCEPT ![job[w]] = None]
    /\ job' = [job EXCEPT ![w] = None]
    /\ wpc' = [wpc EXCEPT ![w] = "receive"]
    /\ UNCHANGED <<hpc, answered, sendq, closeVars>>

\* The range over the closed channel ends.
Stop(w) ==
    /\ wpc[w] = "receive"
    /\ closed /\ sendq = <<>>
    /\ wpc' = [wpc EXCEPT ![w] = "stopped"]
    /\ UNCHANGED <<handlerVars, sendq, job, closeVars>>

-----------------------------------------------------------------------------
(* Close.                                                                   *)

CloseHttpServer ==
    /\ serving
    /\ serving' = FALSE
    /\ UNCHANGED <<handlerVars, sendq, workerVars, closed>>

\* Mutant: Close leaves the channel open.
CloseFileJobsForgotten ==
    /\ ~serving /\ ~closed
    /\ UNCHANGED vars

\* Mutant: a blocked sender panics but stays in the queue.
CloseFileJobsQueued ==
    /\ ~serving /\ ~closed
    /\ closed' = TRUE
    /\ hpc' = [h \in Handler |-> IF hpc[h] = "sending" THEN "panicked" ELSE hpc[h]]
    /\ UNCHANGED <<mutex, answered, sendq, workerVars, serving>>

\* Every blocked sender panics.
CloseFileJobs ==
    /\ ~serving /\ ~closed
    /\ closed' = TRUE
    /\ sendq' = <<>>
    /\ hpc' = [h \in Handler |-> IF hpc[h] = "sending" THEN "panicked" ELSE hpc[h]]
    /\ UNCHANGED <<mutex, answered, workerVars, serving>>

\* The server is closed and all its goroutines are gone or idle.
Closed ==
    /\ closed
    /\ \A w \in Worker : wpc[w] = "stopped"
    /\ \A h \in Handler : hpc[h] \in {"idle", "panicked"}
    /\ UNCHANGED vars

HandlerStep(h) == Send(h) \/ SendPanics(h) \/ Wait(h) \/ Wake(h) \/ Return(h)
WorkerStep(w) ==
    \/ Receive(w) \/ LockJob(w) \/ ServeFile(w) \/ Broadcast(w)
    \/ UnlockJob(w) \/ Stop(w)

Next ==
    \/ \E h \in Handler : Request(h) \/ HandlerStep(h)
    \/ \E w \in Worker : WorkerStep(w)
    \/ CloseHttpServer \/ CloseFileJobs \/ Closed

Spec == Init /\ [][Next]_vars

\* Goroutines that can run do; Close, once begun, goes through.  Requests need
\* not come and the server need not be closed.
FairSpec ==
    /\ Spec
    /\ \A h \in Handler : WF_vars(HandlerStep(h))
    /\ \A w \in Worker : WF_vars(WorkerStep(w))
    /\ WF_vars(CloseFileJobs)

-----------------------------------------------------------------------------
(* Properties.                                                              *)

\* Handlers and workers are at a line of theirs, and only handlers that are
\* sending are in the queue, also while the server is being closed.
TypeOK ==
    /\ hpc \in [Handler -> HandlerPC]
    /\ mutex \in [Handler -> Handler \cup Worker \cup {None}]
    /\ answered \in [Handler -> BOOLEAN]
    /\ sendq \in Seq(Handler)
    /\ wpc \in [Worker -> WorkerPC]
    /\ job \in [Worker -> Handler \cup {None}]
    /\ serving \in BOOLEAN /\ closed \in BOOLEAN
    /\ \A i \in 1 .. Len(sendq) : hpc[sendq[i]] = "sending"

\* A worker that serves a request, and so uses its ResponseWriter and Request,
\* does so while the request's handler waits, also when the server is closed
\* in the meantime, and no other worker serves the same request.
ServedWhileWaiting ==
    \A w \in Worker :
        wpc[w] \in {"serve", "broadcast"} =>
            /\ hpc[job[w]] = "waiting"
            /\ \A v \in Worker \ {w} : job[v] # job[w]

\* A handler comes back from Wait, which checks no condition of its own, only
\* with its response written.
AnsweredBeforeReturn ==
    \A h \in Handler : hpc[h] = "returning" => answered[h]

\* Every request that a handler took ends, with its response or, when the
\* server is being closed, with the panic: no wakeup is lost and no request
\* is overtaken for ever by the requests of other connections.
EveryRequestEnds ==
    \A h \in Handler : hpc[h] = "locked" ~> hpc[h] \in {"idle", "panicked"}

\* Close ends every worker, also those that were serving or that wait for a
\* handler that has not reached Wait.
WorkersStop == ~serving ~> \A w \in Worker : wpc[w] = "stopped"
-----------------------------------------------------------------------------
(* Why the barrier works: the parts of an inductive invariant.              *)

\* No handler is in the queue twice.
QueueInv ==
    \A i, j \in 1 .. Len(sendq) : sendq[i] = sendq[j] => i = j

\* A handler has its mutex except between Wait and its return from it; there
\* only its worker can have it.
MutexInv ==
    /\ \A h \in Handler :
          /\ hpc[h] \in {"locked", "sending", "sent", "returning"} => mutex[h] = h
          /\ hpc[h] \in {"waiting", "woken"} => mutex[h] # h
    /\ \A h \in Handler, w \in Worker :
          mutex[h] = w <=> wpc[w] \in {"serve", "broadcast", "unlock"} /\ job[w] = h

\* A worker's handler is where the worker needs it, and is its alone.
JobInv ==
    /\ \A w \in Worker :
          /\ wpc[w] \in {"receive", "stopped"} <=> job[w] = None
          /\ wpc[w] = "lock" => hpc[job[w]] \in {"sent", "waiting"}
          /\ wpc[w] \in {"serve", "broadcast"} => hpc[job[w]] = "waiting"
          /\ wpc[w] = "unlock" => hpc[job[w]] = "woken"
          /\ wpc[w] \in {"broadcast", "unlock"} => answered[job[w]]
    /\ \A v, w \in Worker : job[v] = job[w] /\ job[v] # None => v = w

PoolInv ==
    /\ TypeOK /\ QueueInv /\ MutexInv /\ JobInv
    /\ \A h \in Handler : hpc[h] \in {"woken", "returning"} => answered[h]
=============================================================================
