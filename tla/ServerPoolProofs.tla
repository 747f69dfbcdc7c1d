--------------------------- MODULE ServerPoolProofs ---------------------------
(***************************************************************************)
(* Proofs about ServerPool, for any number of connections and workers: the *)
(* inductive invariant PoolInv of the barrier between handler and worker,  *)
(* and the two safety properties that follow from it.                      *)
(***************************************************************************)
EXTENDS ServerPool, SequenceTheorems, TLAPS

USE PoolAssumption DEF HandlerPC, WorkerPC

\* Nobody works at the start.
LEMMA InitPool == Init => PoolInv
<1> SUFFICES ASSUME Init PROVE PoolInv
  OBVIOUS
<1>1. TypeOK
  <2>1. sendq = <<>> BY DEF Init
  <2>2. <<>> \in Seq(Handler) OBVIOUS
  <2>3. Len(<<>>) = 0 OBVIOUS
  <2>4. 1 .. Len(sendq) = {} BY <2>1, <2>3
  <2> QED BY <2>1, <2>2, <2>4 DEF Init, TypeOK
<1>2. QueueInv BY DEF Init, QueueInv
<1>3. MutexInv BY DEF Init, MutexInv
<1>4. JobInv BY DEF Init, JobInv
<1> QED BY <1>1, <1>2, <1>3, <1>4 DEF Init, PoolInv

\* A queue that loses its head keeps the rest in order.
LEMMA TailQueue ==
    ASSUME NEW q \in Seq(Handler), q # <<>>
    PROVE  /\ Head(q) \in Handler /\ Head(q) = q[1] /\ 1 \in 1 .. Len(q)
           /\ Tail(q) \in Seq(Handler)
           /\ \A i \in 1 .. Len(Tail(q)) : /\ i + 1 \in 1 .. Len(q)
                                         /\ Tail(q)[i] = q[i + 1]
<1>1. Len(q) \in Nat \ {0} BY EmptySeq, LenProperties
<1> QED BY <1>1, HeadTailProperties

\* A queue that gets one more keeps the others in order.
LEMMA AppendQueue ==
    ASSUME NEW q \in Seq(Handler), NEW h \in Handler
    PROVE  /\ Append(q, h) \in Seq(Handler)
           /\ Len(Append(q, h)) = Len(q) + 1 /\ Len(q) \in Nat
           /\ Append(q, h)[Len(q) + 1] = h
           /\ \A i \in 1 .. Len(q) : Append(q, h)[i] = q[i]
BY AppendProperties, LenProperties

\* Every step keeps the types and the queue's handlers sending.
LEMMA TypeStep ==
    ASSUME PoolInv, Next
    PROVE  TypeOK'
<1> USE DEF PoolInv
<1>1. ASSUME NEW h \in Handler, Request(h) PROVE TypeOK'
  BY <1>1 DEF Request, TypeOK, handlerVars, workerVars, closeVars
<1>2. ASSUME NEW h \in Handler, Send(h) PROVE TypeOK'
  <2>1. sendq' = Append(sendq, h) /\ hpc' = [hpc EXCEPT ![h] = "sending"]
    BY <1>2 DEF Send
  <2>2. sendq \in Seq(Handler) /\ hpc \in [Handler -> HandlerPC] BY DEF TypeOK
  <2>3. sendq' \in Seq(Handler) BY <2>1, <2>2, AppendQueue
  <2>4. \A i \in 1 .. Len(sendq') : hpc'[sendq'[i]] = "sending"
    <3>1. \A i \in 1 .. Len(sendq) : hpc'[sendq[i]] = "sending"
      BY <2>1, <2>2 DEF TypeOK
    <3>2. hpc'[h] = "sending" BY <2>1, <2>2
    <3> QED BY <2>1, <2>2, <3>1, <3>2, AppendQueue
  <2> QED BY <1>2, <2>3, <2>4 DEF Send, TypeOK, workerVars, closeVars
<1>3. ASSUME NEW h \in Handler, SendPanics(h) PROVE TypeOK'
  BY <1>3 DEF SendPanics, TypeOK, handlerVars, workerVars, closeVars
<1>4. ASSUME NEW h \in Handler, Wait(h) PROVE TypeOK'
  BY <1>4 DEF Wait, TypeOK, handlerVars, workerVars, closeVars
<1>5. ASSUME NEW h \in Handler, Wake(h) PROVE TypeOK'
  BY <1>5 DEF Wake, TypeOK, handlerVars, workerVars, closeVars
<1>6. ASSUME NEW h \in Handler, Return(h) PROVE TypeOK'
  BY <1>6 DEF Return, TypeOK, handlerVars, workerVars, closeVars
<1>7. ASSUME NEW w \in Worker, Receive(w) PROVE TypeOK'
  <2> DEFINE g == Head(sendq)
  <2>1. /\ sendq # <<>> /\ sendq' = Tail(sendq)
        /\ hpc' = [hpc EXCEPT ![g] = "sent"]
        /\ job' = [job EXCEPT ![w] = g]
    BY <1>7 DEF Receive
  <2>2. sendq \in Seq(Handler) /\ hpc \in [Handler -> HandlerPC] BY DEF TypeOK
  <2>3. g \in Handler /\ g = sendq[1] /\ 1 \in 1 .. Len(sendq)
        /\ sendq' \in Seq(Handler)
        /\ \A i \in 1 .. Len(sendq') : /\ i + 1 \in 1 .. Len(sendq)
                                     /\ sendq'[i] = sendq[i + 1]
    BY <2>1, <2>2, TailQueue
  <2>4. \A i \in 1 .. Len(sendq') : hpc'[sendq'[i]] = "sending"
    <3> SUFFICES ASSUME NEW i \in 1 .. Len(sendq')
                 PROVE  hpc'[sendq'[i]] = "sending"
      OBVIOUS
    <3>1. hpc[sendq[i + 1]] = "sending" BY <2>3 DEF TypeOK
    <3>2. i + 1 # 1 OBVIOUS
    <3>3. sendq[i + 1] # g BY <2>3, <3>2 DEF QueueInv
    <3> QED BY <2>1, <2>2, <2>3, <3>1, <3>3
  <2> QED BY <1>7, <2>3, <2>4 DEF Receive, TypeOK, closeVars
<1>8. ASSUME NEW w \in Worker, LockJob(w) PROVE TypeOK'
  BY <1>8 DEF LockJob, TypeOK, handlerVars, workerVars, closeVars
<1>9. ASSUME NEW w \in Worker, ServeFile(w) PROVE TypeOK'
  BY <1>9 DEF ServeFile, TypeOK, handlerVars, workerVars, closeVars
<1>10. ASSUME NEW w \in Worker, Broadcast(w) PROVE TypeOK'
  <2>1. job[w] \in Handler BY <1>10 DEF Broadcast, JobInv, TypeOK
  <2>2. hpc' \in [Handler -> HandlerPC] BY <1>10 DEF Broadcast, TypeOK
  <2>3. \A i \in 1 .. Len(sendq) : hpc'[sendq[i]] = "sending"
    BY <1>10, <2>1 DEF Broadcast, TypeOK
  <2> QED BY <1>10, <2>2, <2>3 DEF Broadcast, TypeOK, closeVars
<1>11. ASSUME NEW w \in Worker, UnlockJob(w) PROVE TypeOK'
  BY <1>11 DEF UnlockJob, TypeOK, handlerVars, workerVars, closeVars
<1>12. ASSUME NEW w \in Worker, Stop(w) PROVE TypeOK'
  BY <1>12 DEF Stop, TypeOK, handlerVars, workerVars, closeVars
<1>13. CASE CloseHttpServer
  BY <1>13 DEF CloseHttpServer, TypeOK, handlerVars, workerVars, closeVars
<1>14. CASE CloseFileJobs
  BY <1>14 DEF CloseFileJobs, TypeOK, handlerVars, workerVars, closeVars
<1>15. CASE Closed
  BY <1>15 DEF Closed, vars, TypeOK, handlerVars, workerVars, closeVars
<1> QED
  BY <1>1, <1>2, <1>3, <1>4, <1>5, <1>6, <1>7, <1>8, <1>9, <1>10, <1>11,
     <1>12, <1>13, <1>14, <1>15 DEF Next, HandlerStep, WorkerStep

\* Every step keeps the handlers in the queue apart.
LEMMA QueueStep ==
    ASSUME PoolInv, Next
    PROVE  QueueInv'
<1> USE DEF PoolInv
<1>1. ASSUME NEW h \in Handler, Request(h) PROVE QueueInv'
  BY <1>1 DEF Request, QueueInv, handlerVars, workerVars, closeVars
<1>2. ASSUME NEW h \in Handler, Send(h) PROVE QueueInv'
  <2>1. sendq \in Seq(Handler) /\ sendq' = Append(sendq, h) BY <1>2 DEF Send, TypeOK
  <2>2. \A i \in 1 .. Len(sendq) : sendq[i] # h BY <1>2 DEF Send, TypeOK
  <2>3. \A i \in 1 .. Len(sendq') : i \in 1 .. Len(sendq) \/ i = Len(sendq) + 1
    BY <2>1, AppendQueue
  <2> QED BY <2>1, <2>2, <2>3, AppendQueue DEF QueueInv
<1>3. ASSUME NEW h \in Handler, SendPanics(h) PROVE QueueInv'
  BY <1>3 DEF SendPanics, QueueInv, handlerVars, workerVars, closeVars
<1>4. ASSUME NEW h \in Handler, Wait(h) PROVE QueueInv'
  BY <1>4 DEF Wait, QueueInv, handlerVars, workerVars, closeVars
<1>5. ASSUME NEW h \in Handler, Wake(h) PROVE QueueInv'
  BY <1>5 DEF Wake, QueueInv, handlerVars, workerVars, closeVars
<1>6. ASSUME NEW h \in Handler, Return(h) PROVE QueueInv'
  BY <1>6 DEF Return, QueueInv, handlerVars, workerVars, closeVars
<1>7. ASSUME NEW w \in Worker, Receive(w) PROVE QueueInv'
  <2>1. sendq \in Seq(Handler) /\ sendq # <<>> /\ sendq' = Tail(sendq)
    BY <1>7 DEF Receive, TypeOK
  <2>2. \A i \in 1 .. Len(sendq') : /\ i + 1 \in 1 .. Len(sendq)
                                 /\ sendq'[i] = sendq[i + 1]
    BY <2>1, TailQueue
  <2>3. ASSUME NEW i \in 1 .. Len(sendq'), NEW j \in 1 .. Len(sendq'),
               sendq'[i] = sendq'[j]
        PROVE  i = j
    <3>1. i + 1 = j + 1 BY <2>2, <2>3 DEF QueueInv
    <3> QED BY <3>1
  <2> QED BY <2>3 DEF QueueInv
<1>8. ASSUME NEW w \in Worker, LockJob(w) PROVE QueueInv'
  BY <1>8 DEF LockJob, QueueInv, handlerVars, workerVars, closeVars
<1>9. ASSUME NEW w \in Worker, ServeFile(w) PROVE QueueInv'
  BY <1>9 DEF ServeFile, QueueInv, handlerVars, workerVars, closeVars
<1>10. ASSUME NEW w \in Worker, Broadcast(w) PROVE QueueInv'
  BY <1>10 DEF Broadcast, QueueInv, handlerVars, workerVars, closeVars
<1>11. ASSUME NEW w \in Worker, UnlockJob(w) PROVE QueueInv'
  BY <1>11 DEF UnlockJob, QueueInv, handlerVars, workerVars, closeVars
<1>12. ASSUME NEW w \in Worker, Stop(w) PROVE QueueInv'
  BY <1>12 DEF Stop, QueueInv, handlerVars, workerVars, closeVars
<1>13. CASE CloseHttpServer
  BY <1>13 DEF CloseHttpServer, QueueInv, handlerVars, workerVars, closeVars
<1>14. CASE CloseFileJobs
  BY <1>14 DEF CloseFileJobs, QueueInv, handlerVars, workerVars, closeVars
<1>15. CASE Closed
  BY <1>15 DEF Closed, vars, QueueInv, handlerVars, workerVars, closeVars
<1> QED
  BY <1>1, <1>2, <1>3, <1>4, <1>5, <1>6, <1>7, <1>8, <1>9, <1>10, <1>11,
     <1>12, <1>13, <1>14, <1>15 DEF Next, HandlerStep, WorkerStep

\* Every step keeps the mutexes in the right hands.
LEMMA MutexStep ==
    ASSUME PoolInv, Next
    PROVE  MutexInv'
<1> USE DEF PoolInv
<1>1. ASSUME NEW h \in Handler, Request(h) PROVE MutexInv'
  BY <1>1 DEF Request, TypeOK, JobInv, MutexInv, handlerVars, workerVars, closeVars
<1>2. ASSUME NEW h \in Handler, Send(h) PROVE MutexInv'
  BY <1>2 DEF Send, TypeOK, JobInv, MutexInv, handlerVars, workerVars, closeVars
<1>3. ASSUME NEW h \in Handler, SendPanics(h) PROVE MutexInv'
  BY <1>3 DEF SendPanics, TypeOK, JobInv, MutexInv, handlerVars, workerVars, closeVars
<1>4. ASSUME NEW h \in Handler, Wait(h) PROVE MutexInv'
  BY <1>4 DEF Wait, TypeOK, JobInv, MutexInv, handlerVars, workerVars, closeVars
<1>5. ASSUME NEW h \in Handler, Wake(h) PROVE MutexInv'
  BY <1>5 DEF Wake, TypeOK, JobInv, MutexInv, handlerVars, workerVars, closeVars
<1>6. ASSUME NEW h \in Handler, Return(h) PROVE MutexInv'
  BY <1>6 DEF Return, TypeOK, JobInv, MutexInv, handlerVars, workerVars, closeVars
<1>7. ASSUME NEW w \in Worker, Receive(w) PROVE MutexInv'
  BY <1>7 DEF Receive, TypeOK, JobInv, MutexInv, handlerVars, workerVars, closeVars
<1>8. ASSUME NEW w \in Worker, LockJob(w) PROVE MutexInv'
  BY <1>8 DEF LockJob, TypeOK, JobInv, MutexInv, handlerVars, workerVars, closeVars
<1>9. ASSUME NEW w \in Worker, ServeFile(w) PROVE MutexInv'
  BY <1>9 DEF ServeFile, TypeOK, JobInv, MutexInv, handlerVars, workerVars, closeVars
<1>10. ASSUME NEW w \in Worker, Broadcast(w) PROVE MutexInv'
  BY <1>10 DEF Broadcast, TypeOK, JobInv, MutexInv, handlerVars, workerVars, closeVars
<1>11. ASSUME NEW w \in Worker, UnlockJob(w) PROVE MutexInv'
  BY <1>11 DEF UnlockJob, TypeOK, JobInv, MutexInv, handlerVars, workerVars, closeVars
<1>12. ASSUME NEW w \in Worker, Stop(w) PROVE MutexInv'
  BY <1>12 DEF Stop, TypeOK, JobInv, MutexInv, handlerVars, workerVars, closeVars
<1>13. CASE CloseHttpServer
  BY <1>13 DEF CloseHttpServer, TypeOK, JobInv, MutexInv, handlerVars, workerVars, closeVars
<1>14. CASE CloseFileJobs
  BY <1>14 DEF CloseFileJobs, TypeOK, JobInv, MutexInv, handlerVars, workerVars, closeVars
<1>15. CASE Closed
  BY <1>15 DEF Closed, vars, TypeOK, JobInv, MutexInv, handlerVars, workerVars, closeVars
<1> QED
  BY <1>1, <1>2, <1>3, <1>4, <1>5, <1>6, <1>7, <1>8, <1>9, <1>10, <1>11,
     <1>12, <1>13, <1>14, <1>15 DEF Next, HandlerStep, WorkerStep

\* Every step keeps the workers' handlers where they are needed.
LEMMA JobStep ==
    ASSUME PoolInv, Next
    PROVE  JobInv'
<1> USE DEF PoolInv
<1>1. ASSUME NEW h \in Handler, Request(h) PROVE JobInv'
  BY <1>1 DEF Request, TypeOK, MutexInv, JobInv, handlerVars, workerVars, closeVars
<1>2. ASSUME NEW h \in Handler, Send(h) PROVE JobInv'
  BY <1>2 DEF Send, TypeOK, MutexInv, JobInv, handlerVars, workerVars, closeVars
<1>3. ASSUME NEW h \in Handler, SendPanics(h) PROVE JobInv'
  BY <1>3 DEF SendPanics, TypeOK, MutexInv, JobInv, handlerVars, workerVars, closeVars
<1>4. ASSUME NEW h \in Handler, Wait(h) PROVE JobInv'
  BY <1>4 DEF Wait, TypeOK, MutexInv, JobInv, handlerVars, workerVars, closeVars
<1>5. ASSUME NEW h \in Handler, Wake(h) PROVE JobInv'
  BY <1>5 DEF Wake, TypeOK, MutexInv, JobInv, handlerVars, workerVars, closeVars
<1>6. ASSUME NEW h \in Handler, Return(h) PROVE JobInv'
  BY <1>6 DEF Return, TypeOK, MutexInv, JobInv, handlerVars, workerVars, closeVars
<1>7. ASSUME NEW w \in Worker, Receive(w) PROVE JobInv'
  BY <1>7 DEF Receive, TypeOK, MutexInv, JobInv, handlerVars, workerVars, closeVars
<1>8. ASSUME NEW w \in Worker, LockJob(w) PROVE JobInv'
  BY <1>8 DEF LockJob, TypeOK, MutexInv, JobInv, handlerVars, workerVars, closeVars
<1>9. ASSUME NEW w \in Worker, ServeFile(w) PROVE JobInv'
  BY <1>9 DEF ServeFile, TypeOK, MutexInv, JobInv, handlerVars, workerVars, closeVars
<1>10. ASSUME NEW w \in Worker, Broadcast(w) PROVE JobInv'
  BY <1>10 DEF Broadcast, TypeOK, MutexInv, JobInv, handlerVars, workerVars, closeVars
<1>11. ASSUME NEW w \in Worker, UnlockJob(w) PROVE JobInv'
  BY <1>11 DEF UnlockJob, TypeOK, MutexInv, JobInv, handlerVars, workerVars, closeVars
<1>12. ASSUME NEW w \in Worker, Stop(w) PROVE JobInv'
  BY <1>12 DEF Stop, TypeOK, MutexInv, JobInv, handlerVars, workerVars, closeVars
<1>13. CASE CloseHttpServer
  BY <1>13 DEF CloseHttpServer, TypeOK, MutexInv, JobInv, handlerVars, workerVars, closeVars
<1>14. CASE CloseFileJobs
  BY <1>14 DEF CloseFileJobs, TypeOK, MutexInv, JobInv, handlerVars, workerVars, closeVars
<1>15. CASE Closed
  BY <1>15 DEF Closed, vars, TypeOK, MutexInv, JobInv, handlerVars, workerVars, closeVars
<1> QED
  BY <1>1, <1>2, <1>3, <1>4, <1>5, <1>6, <1>7, <1>8, <1>9, <1>10, <1>11,
     <1>12, <1>13, <1>14, <1>15 DEF Next, HandlerStep, WorkerStep

\* Every step keeps unanswered handlers from returning.
LEMMA AnswerStep ==
    ASSUME PoolInv, Next
    PROVE  \A g \in Handler : hpc'[g] \in {"woken", "returning"} => answered'[g]
<1> USE DEF PoolInv
<1>1. ASSUME NEW h \in Handler, Request(h) PROVE \A g \in Handler : hpc'[g] \in {"woken", "returning"} => answered'[g]
  BY <1>1 DEF Request, TypeOK, JobInv, handlerVars, workerVars, closeVars
<1>2. ASSUME NEW h \in Handler, Send(h) PROVE \A g \in Handler : hpc'[g] \in {"woken", "returning"} => answered'[g]
  BY <1>2 DEF Send, TypeOK, JobInv, handlerVars, workerVars, closeVars
<1>3. ASSUME NEW h \in Handler, SendPanics(h) PROVE \A g \in Handler : hpc'[g] \in {"woken", "returning"} => answered'[g]
  BY <1>3 DEF SendPanics, TypeOK, JobInv, handlerVars, workerVars, closeVars
<1>4. ASSUME NEW h \in Handler, Wait(h) PROVE \A g \in Handler : hpc'[g] \in {"woken", "returning"} => answered'[g]
  BY <1>4 DEF Wait, TypeOK, JobInv, handlerVars, workerVars, closeVars
<1>5. ASSUME NEW h \in Handler, Wake(h) PROVE \A g \in Handler : hpc'[g] \in {"woken", "returning"} => answered'[g]
  BY <1>5 DEF Wake, TypeOK, JobInv, handlerVars, workerVars, closeVars
<1>6. ASSUME NEW h \in Handler, Return(h) PROVE \A g \in Handler : hpc'[g] \in {"woken", "returning"} => answered'[g]
  BY <1>6 DEF Return, TypeOK, JobInv, handlerVars, workerVars, closeVars
<1>7. ASSUME NEW w \in Worker, Receive(w) PROVE \A g \in Handler : hpc'[g] \in {"woken", "returning"} => answered'[g]
  BY <1>7 DEF Receive, TypeOK, JobInv, handlerVars, workerVars, closeVars
<1>8. ASSUME NEW w \in Worker, LockJob(w) PROVE \A g \in Handler : hpc'[g] \in {"woken", "returning"} => answered'[g]
  BY <1>8 DEF LockJob, TypeOK, JobInv, handlerVars, workerVars, closeVars
<1>9. ASSUME NEW w \in Worker, ServeFile(w) PROVE \A g \in Handler : hpc'[g] \in {"woken", "returning"} => answered'[g]
  BY <1>9 DEF ServeFile, TypeOK, JobInv, handlerVars, workerVars, closeVars
<1>10. ASSUME NEW w \in Worker, Broadcast(w) PROVE \A g \in Handler : hpc'[g] \in {"woken", "returning"} => answered'[g]
  BY <1>10 DEF Broadcast, TypeOK, JobInv, handlerVars, workerVars, closeVars
<1>11. ASSUME NEW w \in Worker, UnlockJob(w) PROVE \A g \in Handler : hpc'[g] \in {"woken", "returning"} => answered'[g]
  BY <1>11 DEF UnlockJob, TypeOK, JobInv, handlerVars, workerVars, closeVars
<1>12. ASSUME NEW w \in Worker, Stop(w) PROVE \A g \in Handler : hpc'[g] \in {"woken", "returning"} => answered'[g]
  BY <1>12 DEF Stop, TypeOK, JobInv, handlerVars, workerVars, closeVars
<1>13. CASE CloseHttpServer
  BY <1>13 DEF CloseHttpServer, TypeOK, JobInv, handlerVars, workerVars, closeVars
<1>14. CASE CloseFileJobs
  BY <1>14 DEF CloseFileJobs, TypeOK, JobInv, handlerVars, workerVars, closeVars
<1>15. CASE Closed
  BY <1>15 DEF Closed, vars, TypeOK, JobInv, handlerVars, workerVars, closeVars
<1> QED
  BY <1>1, <1>2, <1>3, <1>4, <1>5, <1>6, <1>7, <1>8, <1>9, <1>10, <1>11,
     <1>12, <1>13, <1>14, <1>15 DEF Next, HandlerStep, WorkerStep

-----------------------------------------------------------------------------
\* Every step, and every stuttering step, keeps the invariant.
LEMMA NextPool == PoolInv /\ [Next]_vars => PoolInv'
<1>1. CASE Next
  BY <1>1, TypeStep, QueueStep, MutexStep, JobStep, AnswerStep DEF PoolInv
<1>2. CASE UNCHANGED vars
  BY <1>2 DEF PoolInv, TypeOK, QueueInv, MutexInv, JobInv, vars, handlerVars,
     workerVars, closeVars
<1> QED BY <1>1, <1>2

\* The invariant holds in every reachable state.
THEOREM PoolInvariance == Spec => []PoolInv
BY InitPool, NextPool, PTL DEF Spec

\* Type correctness, and only handlers that are sending are in the queue.
THEOREM PoolTypeCorrectness == Spec => []TypeOK
<1>1. PoolInv => TypeOK BY DEF PoolInv
<1> QED BY PoolInvariance, <1>1, PTL

\* A request is served by one worker, while its handler waits.
THEOREM ServedBehindTheBarrier == Spec => []ServedWhileWaiting
<1>1. PoolInv => ServedWhileWaiting
  BY DEF PoolInv, JobInv, ServedWhileWaiting
<1> QED BY PoolInvariance, <1>1, PTL

\* No handler returns without the response.
THEOREM NoReturnWithoutAnswer == Spec => []AnsweredBeforeReturn
<1>1. PoolInv => AnsweredBeforeReturn
  BY DEF PoolInv, AnsweredBeforeReturn
<1> QED BY PoolInvariance, <1>1, PTL
=============================================================================
