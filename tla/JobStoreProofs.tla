---------------------------- MODULE JobStoreProofs ----------------------------
(***************************************************************************)
(* Theorems about JobStore, for any sets of jobs, streams and threads and  *)
(* any bound on the log.  Those with Threads = {} speak of the event loop   *)
(* on its own: every DELETE runs without a thread switch in the middle.    *)
(***************************************************************************)
EXTENDS JobStoreRefinement, SequenceTheorems, TLAPS

\* The job of a registered stream and of a busy DELETE thread is a job.
Placed ==
  /\ \A s \in Streams : pc[s] \in Registered => on[s] \in Jobs
  /\ \A t \in Threads : tpc[t] # "idle" => tjob[t] \in Jobs

\* Job j has both marks of its end.
Closed(j) == status[j] \in Terminal /\ EndLogged(j)

\* The inductive invariant behind EndedJobIsClosed: whoever may end the worker
\* (update, a DELETE past its update, task.cancel) has closed the job before,
\* and a job leaves the store only when it is closed.
JobInv(j) ==
  /\ task[j] \in {"none", "scheduled"} => status[j] = "pending" /\ log[j] = <<>>
  /\ task[j] \in {"completing", "failing"} => status[j] \in Terminal
  /\ EndLogged(j) => status[j] \in Terminal
  /\ task[j] = "ended" \/ cancelReq[j] \/ j \in stale => Closed(j)
  /\ j \notin store /\ task[j] # "none" => Closed(j)
  /\ j \in store => task[j] # "none"

ThreadInv(t, j) ==
  /\ tpc[t] # "idle" => task[j] \notin {"none", "scheduled"}
  /\ tpc[t] = "flipped" => status[j] \in Terminal
  /\ tpc[t] \in {"waking", "stopping"} => Closed(j)

ClosedInv ==
  /\ \A j \in Jobs : JobInv(j)
  /\ \A t \in Threads, j \in Jobs : tjob[t] = j => ThreadInv(t, j)

-----------------------------------------------------------------------------
(* Lemmas on the helpers                                                   *)

\* Removing an entry from the listener list leaves a list of streams.
LEMMA RemoveAtIsSeq ==
  ASSUME NEW S, NEW q \in Seq(S), NEW i \in 1..Len(q)
  PROVE  RemoveAt(q, i) \in Seq(S)
<1>1. Len(q) \in Nat /\ \A k \in 1..Len(q) : q[k] \in S
  BY LenProperties, ElementOfSeq
<1>2. SubSeq(q, 1, i-1) \in Seq(S)
  <2>1. \A k \in 1..(i-1) : q[k] \in S  BY <1>1
  <2>. QED  BY <1>1, <2>1, SubSeqProperties
<1>3. SubSeq(q, i+1, Len(q)) \in Seq(S)
  <2>1. \A k \in (i+1)..Len(q) : q[k] \in S  BY <1>1
  <2>. QED  BY <1>1, <2>1, SubSeqProperties
<1>. QED  BY <1>2, <1>3, ConcatProperties DEF RemoveAt

\* Unregister keeps the listener lists lists of streams.
LEMMA UnregisterType ==
  ASSUME TypeOK, NEW s \in Streams, on[s] \in Jobs, Unregister(s)
  PROVE  listeners' \in [Jobs -> Seq(Streams)]
<1>1. PICK i \in DOMAIN listeners[on[s]] :
        listeners' = [listeners EXCEPT ![on[s]] = RemoveAt(@, i)]
  BY DEF Unregister
<1>2. listeners[on[s]] \in Seq(Streams)  BY DEF TypeOK
<1>3. i \in 1..Len(listeners[on[s]])  BY <1>1, <1>2, LenProperties
<1>4. RemoveAt(listeners[on[s]], i) \in Seq(Streams)  BY <1>2, <1>3, RemoveAtIsSeq
<1>. QED  BY <1>1, <1>4 DEF TypeOK

\* Setting events keeps the types and moves no stream in or out of the list.
LEMMA SetEventsType ==
  ASSUME TypeOK, NEW W, SetEvents(W)
  PROVE  /\ flag' \in [Streams -> BOOLEAN]
         /\ pc' \in [Streams -> {"out", "closed", "cutoff"} \cup Registered]
         /\ \A s \in Streams : pc'[s] \in Registered <=> pc[s] \in Registered
BY DEF TypeOK, SetEvents, Registered

-----------------------------------------------------------------------------
(* Type correctness                                                        *)

\* The variables keep their types, for any number of DELETE threads.
THEOREM TypeCorrect == Spec => [](TypeOK /\ Placed)
<1>1. Init => TypeOK /\ Placed
  BY JobStoreAssumption DEF Init, TypeOK, Placed, Status, Registered
<1>2. TypeOK /\ Placed /\ [Next]_vars => TypeOK' /\ Placed'
  <2>. SUFFICES ASSUME TypeOK, Placed, [Next]_vars PROVE TypeOK' /\ Placed'
    OBVIOUS
  <2>. USE DEF vars, jobVars, streamVars, threadVars
  <2>1. ASSUME NEW j \in Jobs, Submit(j) PROVE TypeOK' /\ Placed'
    BY <2>1 DEF Submit, TypeOK, Placed
  <2>2. ASSUME NEW j \in Jobs, Begin(j) PROVE TypeOK' /\ Placed'
    BY <2>2 DEF Begin, TypeOK, Placed, Status
  <2>3. ASSUME NEW j \in Jobs, Publish(j) PROVE TypeOK' /\ Placed'
    <3>1. CASE j \in store
      <4>1. Append(log[j], "progress") \in Seq(Event)
        BY AppendProperties DEF TypeOK, Event
      <4>2. \E W : SetEvents(W)  BY <2>3, <3>1 DEF Publish, WakeAll
      <4>. QED  BY <2>3, <3>1, <4>1, <4>2, SetEventsType DEF Publish, TypeOK, Placed
    <3>2. CASE j \notin store
      BY <2>3, <3>2 DEF Publish, TypeOK, Placed
    <3>. QED  BY <3>1, <3>2
  <2>4. ASSUME NEW j \in Jobs, Suspend(j) PROVE TypeOK' /\ Placed'
    BY <2>4 DEF Suspend, TypeOK, Placed
  <2>5. ASSUME NEW j \in Jobs, Resume(j) PROVE TypeOK' /\ Placed'
    BY <2>5 DEF Resume, TypeOK, Placed
  <2>6. ASSUME NEW j \in Jobs, Unwind(j) PROVE TypeOK' /\ Placed'
    BY <2>6 DEF Unwind, TypeOK, Placed
  <2>7. ASSUME NEW j \in Jobs, NEW p \in {"completing", "failing"}, Finish(j, p)
        PROVE TypeOK' /\ Placed'
    BY <2>7 DEF Finish, Outcome, TypeOK, Placed, Status, Terminal
  <2>8. ASSUME NEW j \in Jobs, CloseLog(j) PROVE TypeOK' /\ Placed'
    <3>1. CASE j \in store
      <4>1. Append(log[j], Outcome(task[j])) \in Seq(Event)
        BY AppendProperties DEF TypeOK, Event, Outcome, Terminal
      <4>2. \E W : SetEvents(W)  BY <2>8, <3>1 DEF CloseLog, WakeAll
      <4>. QED  BY <2>8, <3>1, <4>1, <4>2, SetEventsType DEF CloseLog, TypeOK, Placed
    <3>2. CASE j \notin store
      BY <2>8, <3>2 DEF CloseLog, TypeOK, Placed
    <3>. QED  BY <3>1, <3>2
  <2>9. ASSUME NEW j \in Jobs, Expire(j) PROVE TypeOK' /\ Placed'
    BY <2>9 DEF Expire, TypeOK, Placed
  <2>10. ASSUME NEW j \in Jobs, CancelAtOnce(j) PROVE TypeOK' /\ Placed'
    <3>1. Append(log[j], "cancelled") \in Seq(Event)
      BY AppendProperties DEF TypeOK, Event, Terminal
    <3>2. \E W : SetEvents(W)  BY <2>10 DEF CancelAtOnce, WakeAll
    <3>3. status' \in [Jobs -> Status] /\ cancelReq' \in [Jobs -> BOOLEAN]
      BY <2>10 DEF CancelAtOnce, TypeOK, Status, Terminal
    <3>. QED  BY <2>10, <3>1, <3>2, <3>3, SetEventsType DEF CancelAtOnce, TypeOK, Placed
  <2>11. ASSUME NEW t \in Threads, NEW j \in Jobs, ThreadCheck(t, j)
         PROVE TypeOK' /\ Placed'
    BY <2>11 DEF ThreadCheck, TypeOK, Placed
  <2>12. ASSUME NEW t \in Threads, ThreadFlip(t) PROVE TypeOK' /\ Placed'
    BY ZenonT(40), <2>12 DEF ThreadFlip, TypeOK, Placed, Status, Terminal
  <2>13. ASSUME NEW t \in Threads, ThreadAppend(t) PROVE TypeOK' /\ Placed'
    <3>1. tjob[t] \in Jobs  BY <2>13 DEF ThreadAppend, Placed
    <3>2. Append(log[tjob[t]], "cancelled") \in Seq(Event)
      BY <3>1, AppendProperties DEF TypeOK, Event, Terminal
    <3>. QED  BY <2>13, <3>1, <3>2 DEF ThreadAppend, TypeOK, Placed
  <2>14. ASSUME NEW t \in Threads, ThreadWake(t) PROVE TypeOK' /\ Placed'
    <3>1. \E W : SetEvents(W)  BY <2>14 DEF ThreadWake
    <3>. QED  BY SMTT(30), <2>14, <3>1, SetEventsType DEF ThreadWake, TypeOK, Placed
  <2>15. ASSUME NEW t \in Threads, ThreadWakeDone(t) PROVE TypeOK' /\ Placed'
    BY <2>15 DEF ThreadWakeDone, TypeOK, Placed
  <2>16. ASSUME NEW t \in Threads, ThreadStop(t) PROVE TypeOK' /\ Placed'
    BY <2>16 DEF ThreadStop, TypeOK, Placed
  <2>17. ASSUME NEW s \in Streams, NEW j \in Jobs, Open(s, j) PROVE TypeOK' /\ Placed'
    <3>1. Append(listeners[j], s) \in Seq(Streams)
      BY AppendProperties DEF TypeOK
    <3>. QED  BY <2>17, <3>1 DEF Open, TypeOK, Placed, Registered
  <2>18. ASSUME NEW s \in Streams, Deliver(s) PROVE TypeOK' /\ Placed'
    BY <2>18 DEF Deliver, TypeOK, Placed
  <2>19. ASSUME NEW s \in Streams, Close(s) \/ Backstop(s) \/ Drop(s)
         PROVE TypeOK' /\ Placed'
    <3>1. on[s] \in Jobs /\ Unregister(s)
      BY <2>19 DEF Close, Backstop, Drop, Placed, Registered
    <3>2. listeners' \in [Jobs -> Seq(Streams)]  BY <3>1, UnregisterType
    <3>. QED  BY <2>19, <3>2 DEF Close, Backstop, Drop, TypeOK, Placed, Registered
  <2>20. ASSUME NEW s \in Streams, CatchUp(s) PROVE TypeOK' /\ Placed'
    BY <2>20 DEF CatchUp, TypeOK, Placed, Registered
  <2>21. ASSUME NEW s \in Streams, Poll(s) \/ PassWait(s) \/ FoundUnset(s)
         PROVE TypeOK' /\ Placed'
    BY ZenonT(40), <2>21 DEF Poll, PassWait, FoundUnset, TypeOK, Placed, Registered
  <2>22. ASSUME NEW s \in Streams, Park(s) \/ Wake(s) PROVE TypeOK' /\ Placed'
    BY <2>22 DEF Park, Wake, TypeOK, Placed, Registered
  <2>23. CASE UNCHANGED vars
    BY <2>23 DEF TypeOK, Placed
  <2>. QED
    BY <2>1, <2>2, <2>3, <2>4, <2>5, <2>6, <2>7, <2>8, <2>9, <2>10, <2>11, <2>12,
       <2>13, <2>14, <2>15, <2>16, <2>17, <2>18, <2>19, <2>20, <2>21, <2>22, <2>23
    DEF Next, WorkerNext, ThreadStep, StreamStep
<1>. QED  BY <1>1, <1>2, PTL DEF Spec

-----------------------------------------------------------------------------
(* A worker that is done leaves a closed job                               *)

\* What an append to a log does to EndLogged.
LEMMA AppendLog ==
  ASSUME TypeOK, NEW j \in Jobs, NEW e \in Event,
         log' = [log EXCEPT ![j] = Append(@, e)]
  PROVE  \A k \in Jobs : EndLogged(k)' <=> EndLogged(k) \/ (k = j /\ e \in Terminal)
<1>1. log[j] \in Seq(Event)  BY DEF TypeOK
<1>2. log'[j] = Append(log[j], e) /\ \A k \in Jobs \ {j} : log'[k] = log[k]
  BY DEF TypeOK
<1>3. EndLogged(j)' <=> EndLogged(j) \/ e \in Terminal
  <2>1. DOMAIN log[j] = 1..Len(log[j]) /\ Len(log[j]) \in Nat  BY <1>1, LenProperties
  <2>2. /\ log'[j] \in Seq(Event)
        /\ Len(log'[j]) = Len(log[j]) + 1
        /\ \A i \in 1..Len(log[j]) : log'[j][i] = log[j][i]
        /\ log'[j][Len(log[j]) + 1] = e
    BY <1>1, <1>2, AppendProperties
  <2>3. DOMAIN log'[j] = 1..(Len(log[j]) + 1)  BY <2>2, LenProperties
  <2>. QED  BY <2>1, <2>2, <2>3 DEF EndLogged
<1>. QED  BY <1>2, <1>3 DEF EndLogged

\* An unchanged log.
LEMMA KeepLog ==
  ASSUME log' = log
  PROVE  \A k \in Jobs : EndLogged(k)' <=> EndLogged(k)
BY DEF EndLogged

\* The worker steps keep ClosedInv.
LEMMA WorkerKeepsClosed ==
  ASSUME TypeOK, Placed, ClosedInv, NEW j \in Jobs, WorkerNext(j) \/ CancelAtOnce(j)
  PROVE  ClosedInv'
<1>. USE DEF ClosedInv, JobInv, ThreadInv, Closed, TypeOK, Placed, Terminal, jobVars, streamVars, threadVars
<1>0. log[j] = <<>> => ~EndLogged(j)  BY DEF EndLogged
<1>1. CASE Submit(j)
  BY <1>1, KeepLog DEF Submit
<1>2. CASE Begin(j)
  BY <1>0, <1>2, KeepLog DEF Begin
<1>3. CASE Publish(j)
  <2>1. CASE j \in store
    <3>a. "progress" \in Event /\ "progress" \notin Terminal  BY DEF Event
    <3>b. log' = [log EXCEPT ![j] = Append(@, "progress")]  BY <1>3, <2>1 DEF Publish
    <3>1. \A k \in Jobs : EndLogged(k)' <=> EndLogged(k)
      BY <3>a, <3>b, AppendLog
    <3>. QED  BY <1>3, <2>1, <3>1 DEF Publish
  <2>2. CASE j \notin store
    BY <1>3, <2>2, KeepLog DEF Publish
  <2>. QED  BY <2>1, <2>2
<1>4. CASE Suspend(j) \/ Resume(j)
  BY <1>4, KeepLog DEF Suspend, Resume
<1>5. CASE Unwind(j)
  BY <1>5, KeepLog DEF Unwind
<1>6. ASSUME NEW p \in {"completing", "failing"}, Finish(j, p) PROVE ClosedInv'
  BY <1>6, KeepLog DEF Finish, Outcome
<1>7. CASE CloseLog(j)
  <2>1. CASE j \in store
    <3>a. Outcome(task[j]) \in Event \cap Terminal  BY DEF Event, Outcome
    <3>b. log' = [log EXCEPT ![j] = Append(@, Outcome(task[j]))]
      BY <1>7, <2>1 DEF CloseLog
    <3>1. \A k \in Jobs : EndLogged(k)' <=> EndLogged(k) \/ k = j
      BY <3>a, <3>b, AppendLog
    <3>. QED  BY <1>7, <2>1, <3>1 DEF CloseLog
  <2>2. CASE j \notin store
    BY <1>7, <2>2, KeepLog DEF CloseLog
  <2>. QED  BY <2>1, <2>2
<1>8. CASE Expire(j)
  BY <1>8, KeepLog DEF Expire
<1>9. CASE CancelAtOnce(j)
  <2>1. \A k \in Jobs : EndLogged(k)' <=> EndLogged(k) \/ k = j
    BY <1>9, AppendLog DEF CancelAtOnce, Event
  <2>2. task[j] \notin {"none", "scheduled"}
    BY <1>9 DEF CancelAtOnce, Addressable
  <2>. QED  BY <1>9, <2>1, <2>2 DEF CancelAtOnce
<1>. QED
  BY <1>1, <1>2, <1>3, <1>4, <1>5, <1>6, <1>7, <1>8, <1>9 DEF WorkerNext

\* The steps of a DELETE thread keep ClosedInv.
LEMMA ThreadKeepsClosed ==
  ASSUME TypeOK, Placed, ClosedInv, NEW t \in Threads,
         ThreadStep(t) \/ \E j \in Jobs : ThreadCheck(t, j)
  PROVE  ClosedInv'
<1>. USE DEF ClosedInv, JobInv, ThreadInv, Closed, TypeOK, Placed, Terminal, jobVars, streamVars, threadVars
<1>1. ASSUME NEW j \in Jobs, ThreadCheck(t, j) PROVE ClosedInv'
  <2>1. task[j] \notin {"none", "scheduled"}  BY <1>1 DEF ThreadCheck, Addressable
  <2>2. \A k \in Jobs : EndLogged(k)' <=> EndLogged(k)
    BY <1>1, KeepLog DEF ThreadCheck
  <2>3. UNCHANGED jobVars  BY <1>1 DEF ThreadCheck
  <2>4. \A u \in Threads, k \in Jobs : tjob'[u] = k =>
          \/ tpc'[u] = "checked" /\ k = j
          \/ tpc'[u] = tpc[u] /\ tjob[u] = k
    <3>. TAKE u \in Threads, k \in Jobs
    <3>. HAVE tjob'[u] = k
    <3>1. CASE u = t  BY <1>1, <3>1 DEF ThreadCheck
    <3>2. CASE u # t  BY <1>1, <3>2 DEF ThreadCheck
    <3>. QED  BY <3>1, <3>2
  <2>5. \A k \in Jobs : JobInv(k)'  BY <2>2, <2>3
  <2>6. ASSUME NEW u \in Threads, NEW k \in Jobs, tjob'[u] = k PROVE ThreadInv(u, k)'
    <3>1. CASE tpc'[u] = "checked" /\ k = j  BY <3>1, <2>1, <2>3
    <3>2. CASE tpc'[u] = tpc[u] /\ tjob[u] = k  BY <3>2, <2>2, <2>3
    <3>. QED  BY <2>6, <3>1, <3>2, <2>4
  <2>. HIDE DEF JobInv, ThreadInv
  <2>. QED  BY <2>5, <2>6
<1>2. CASE ThreadFlip(t)
  <2>1. \A k \in Jobs : EndLogged(k)' <=> EndLogged(k)
    BY <1>2, KeepLog DEF ThreadFlip
  <2>2. tjob[t] \in Jobs /\ tjob' = tjob  BY <1>2 DEF ThreadFlip
  <2>3. \A k \in Jobs : JobInv(k)'  BY <1>2, <2>1, <2>2 DEF ThreadFlip
  <2>4. ASSUME NEW u \in Threads, NEW k \in Jobs, tjob'[u] = k PROVE ThreadInv(u, k)'
    <3>1. CASE u = t /\ k \in store
      BY <1>2, <2>1, <2>2, <2>4, <3>1 DEF ThreadFlip
    <3>2. CASE u = t /\ k \notin store
      BY <1>2, <2>1, <2>2, <2>4, <3>2 DEF ThreadFlip
    <3>3. CASE u # t
      <4>1. ThreadInv(u, k) /\ tpc'[u] = tpc[u] /\ task' = task
        BY <1>2, <2>2, <2>4, <3>3 DEF ThreadFlip
      <4>2. status'[k] \in {status[k], "cancelled"}
        BY <1>2, <2>2 DEF ThreadFlip
      <4>. QED  BY <2>1, <4>1, <4>2
    <3>. QED  BY <3>1, <3>2, <3>3
  <2>. HIDE DEF JobInv, ThreadInv
  <2>. QED  BY <2>3, <2>4
<1>3. CASE ThreadAppend(t)
  <2>1. \A k \in Jobs : EndLogged(k)' <=> EndLogged(k) \/ k = tjob[t]
    BY <1>3, AppendLog DEF ThreadAppend, Event
  <2>. QED  BY <1>3, <2>1 DEF ThreadAppend
<1>4. CASE ThreadWake(t) \/ ThreadWakeDone(t)
  BY <1>4, KeepLog DEF ThreadWake, ThreadWakeDone
<1>5. CASE ThreadStop(t)
  BY <1>5, KeepLog DEF ThreadStop
<1>. QED  BY <1>1, <1>2, <1>3, <1>4, <1>5 DEF ThreadStep

\* So does every step that touches neither jobs nor threads.
LEMMA SameJobsKeepClosed ==
  ASSUME ClosedInv, UNCHANGED <<jobVars, threadVars>>
  PROVE  ClosedInv'
<1>1. log' = log /\ \A k \in Jobs : EndLogged(k)' <=> EndLogged(k)
  BY KeepLog DEF jobVars
<1>2. \A k : Closed(k)' <=> Closed(k)
  BY DEF Closed, EndLogged, jobVars
<1>. QED  BY <1>1, <1>2 DEF ClosedInv, JobInv, ThreadInv, jobVars, threadVars

\* A step of a stream leaves jobs and threads alone.
LEMMA StreamsTouchNoJob ==
  ASSUME NEW s \in Streams, StreamStep(s) \/ Drop(s) \/ \E j \in Jobs : Open(s, j)
  PROVE  UNCHANGED <<jobVars, threadVars>>
BY DEF StreamStep, Deliver, Close, CatchUp, Backstop, Poll, PassWait, FoundUnset, Park, Wake,
       Drop, Open

\* The invariant holds throughout.
LEMMA ClosedAlways == Spec => [](TypeOK /\ Placed /\ ClosedInv)
<1>1. Init => ClosedInv
  BY DEF Init, ClosedInv, JobInv, ThreadInv, EndLogged
<1>2. TypeOK /\ Placed /\ ClosedInv /\ [Next]_vars => ClosedInv'
  <2>. SUFFICES ASSUME TypeOK, Placed, ClosedInv, [Next]_vars PROVE ClosedInv'
    OBVIOUS
  <2>1. CASE \E s \in Streams : StreamStep(s) \/ Drop(s) \/ \E j \in Jobs : Open(s, j)
    BY <2>1, StreamsTouchNoJob, SameJobsKeepClosed
  <2>2. CASE UNCHANGED vars
    BY <2>2, SameJobsKeepClosed DEF vars
  <2>. QED  BY <2>1, <2>2, WorkerKeepsClosed, ThreadKeepsClosed DEF Next
<1>. QED  BY <1>1, <1>2, TypeCorrect, PTL DEF Spec

\* A done worker leaves a terminal status and a stream_end in the log, however
\* many DELETE threads interleave with the event loop.
THEOREM EndedIsClosed == Spec => []EndedJobIsClosed
<1>1. ClosedInv => EndedJobIsClosed
  BY DEF ClosedInv, JobInv, Closed, EndedJobIsClosed
<1>. QED  BY <1>1, ClosedAlways, PTL

-----------------------------------------------------------------------------
(* A finished job stays finished                                           *)

\* A log is a prefix of itself and of what an append makes of it.
LEMMA AppendKeepsPrefix ==
  ASSUME NEW S, NEW q \in Seq(S), NEW e \in S
  PROVE  IsPrefix(q, q) /\ IsPrefix(q, Append(q, e))
<1>1. /\ Len(q) \in Nat
      /\ Append(q, e) \in Seq(S) /\ Len(Append(q, e)) = Len(q) + 1
      /\ \A i \in 1..Len(q) : Append(q, e)[i] = q[i]
  BY LenProperties, AppendProperties
<1>2. SubSeq(q, 1, Len(q)) = SubSeq(Append(q, e), 1, Len(q))
  BY <1>1
<1>. QED  BY <1>1, <1>2 DEF IsPrefix

\* No step takes an event out of a log.
LEMMA LogGrows ==
  ASSUME TypeOK, Placed, [Next]_vars, NEW k \in Jobs
  PROVE  IsPrefix(log[k], log'[k])
<1>. DEFINE Kept     == log' = log
            Added(e) == \E j \in Jobs : log' = [log EXCEPT ![j] = Append(@, e)]
<1>1. Kept \/ \E e \in Event : Added(e)
  <2>1. ASSUME NEW j \in Jobs, WorkerNext(j) \/ CancelAtOnce(j)
        PROVE  Kept \/ \E e \in Event : Added(e)
    BY <2>1 DEF WorkerNext, Submit, Begin, Publish, Suspend, Resume, Unwind, Finish, CloseLog,
                Expire, CancelAtOnce, Outcome, Event, Terminal, jobVars
  <2>2. ASSUME NEW t \in Threads, ThreadStep(t) \/ \E j \in Jobs : ThreadCheck(t, j)
        PROVE  Kept \/ \E e \in Event : Added(e)
    BY <2>2 DEF ThreadStep, ThreadCheck, ThreadFlip, ThreadAppend, ThreadWake, ThreadWakeDone,
                ThreadStop, Placed, Event, Terminal, jobVars
  <2>3. CASE \E s \in Streams : StreamStep(s) \/ Drop(s) \/ \E j \in Jobs : Open(s, j)
    BY <2>3, StreamsTouchNoJob DEF jobVars
  <2>4. CASE UNCHANGED vars
    BY <2>4 DEF vars, jobVars
  <2>. QED  BY <2>1, <2>2, <2>3, <2>4 DEF Next
<1>2. log[k] \in Seq(Event) /\ "progress" \in Event  BY DEF TypeOK, Event
<1>3. CASE Kept
  BY <1>2, <1>3, AppendKeepsPrefix
<1>4. ASSUME NEW e \in Event, Added(e) PROVE IsPrefix(log[k], log'[k])
  <2>1. log'[k] = log[k] \/ log'[k] = Append(log[k], e)
    BY <1>4 DEF TypeOK
  <2>. QED  BY <1>2, <2>1, AppendKeepsPrefix
<1>. QED  BY <1>1, <1>3, <1>4

\* A terminal status is overwritten by a terminal one only: of the writers,
\* Begin alone writes a live status, and that over "pending".
LEMMA TerminalRemains ==
  ASSUME TypeOK, Placed, ClosedInv, [Next]_vars, NEW k \in Jobs, status[k] \in Terminal
  PROVE  status'[k] \in Terminal
<1>1. ASSUME NEW j \in Jobs, WorkerNext(j) \/ CancelAtOnce(j) PROVE status'[k] \in Terminal
  <2>1. CASE Begin(j)
    <3>1. status[j] = "pending"  BY <2>1 DEF Begin, ClosedInv, JobInv
    <3>. QED  BY <2>1, <3>1 DEF Begin, TypeOK, Terminal
  <2>2. CASE ~Begin(j)
    BY <1>1, <2>2 DEF WorkerNext, Submit, Publish, Suspend, Resume, Unwind, Finish, CloseLog,
                      Expire, CancelAtOnce, Outcome, TypeOK, Terminal, jobVars
  <2>. QED  BY <2>1, <2>2
<1>2. ASSUME NEW t \in Threads, ThreadStep(t) \/ \E j \in Jobs : ThreadCheck(t, j)
      PROVE  status'[k] \in Terminal
  BY <1>2 DEF ThreadStep, ThreadCheck, ThreadFlip, ThreadAppend, ThreadWake, ThreadWakeDone,
              ThreadStop, TypeOK, Terminal, jobVars
<1>3. CASE \E s \in Streams : StreamStep(s) \/ Drop(s) \/ \E j \in Jobs : Open(s, j)
  BY <1>3, StreamsTouchNoJob DEF jobVars
<1>4. CASE UNCHANGED vars
  BY <1>4 DEF vars, jobVars
<1>. QED  BY <1>1, <1>2, <1>3, <1>4 DEF Next

\* A finished job stays finished and no log shrinks, for any number of DELETE
\* threads (job_store.py:105-113, 162-168).
THEOREM FinishedForGood == Spec => ClosedStaysClosed
<1>1. TypeOK /\ Placed /\ ClosedInv /\ [Next]_vars => [StaysClosed]_vars
  BY LogGrows, TerminalRemains DEF StaysClosed
<1>. QED  BY <1>1, ClosedAlways, PTL DEF Spec, ClosedStaysClosed

-----------------------------------------------------------------------------
(* The listeners are the streams                                           *)

\* What an append and a removal do to a list without repetitions.
LEMMA AppendListed ==
  ASSUME NEW S, NEW q \in Seq(S), NEW e \in S, e \notin ToSet(q), IsInjective(q)
  PROVE  ToSet(Append(q, e)) = ToSet(q) \cup {e} /\ IsInjective(Append(q, e))
<1>1. PICK r : r = Append(q, e)
  OBVIOUS
<1>2. /\ Len(q) \in Nat /\ DOMAIN q = 1..Len(q) /\ DOMAIN r = 1..(Len(q) + 1)
      /\ \A i \in 1..Len(q) : r[i] = q[i]
      /\ r[Len(q) + 1] = e
  BY <1>1, LenProperties, AppendProperties
<1>3. ToSet(r) = ToSet(q) \cup {e}
  BY <1>2 DEF ToSet
<1>4. IsInjective(r)
  <2>. SUFFICES ASSUME NEW i \in 1..(Len(q) + 1), NEW k \in 1..(Len(q) + 1), r[i] = r[k]
                PROVE  i = k
    BY <1>2 DEF IsInjective
  <2>1. \A m \in 1..Len(q) : r[m] # e
    BY <1>2 DEF ToSet
  <2>2. CASE i \in 1..Len(q) /\ k \in 1..Len(q)
    BY <1>2, <2>2 DEF IsInjective
  <2>3. CASE i \notin 1..Len(q) \/ k \notin 1..Len(q)
    BY <1>2, <2>1, <2>3
  <2>. QED  BY <2>2, <2>3
<1>. QED  BY <1>1, <1>3, <1>4

LEMMA RemoveListed ==
  ASSUME NEW S, NEW q \in Seq(S), NEW i \in DOMAIN q, IsInjective(q)
  PROVE  ToSet(RemoveAt(q, i)) = ToSet(q) \ {q[i]} /\ IsInjective(RemoveAt(q, i))
<1>1. Len(q) \in Nat /\ DOMAIN q = 1..Len(q) /\ i \in 1..Len(q) /\ \A k \in 1..Len(q) : q[k] \in S
  BY LenProperties, ElementOfSeq
<1>2. PICK a : a = SubSeq(q, 1, i - 1)
  OBVIOUS
<1>3. PICK b : b = SubSeq(q, i + 1, Len(q))
  OBVIOUS
<1>4. a \in Seq(S) /\ Len(a) = i - 1 /\ \A k \in 1..(i - 1) : a[k] = q[k]
  <2>1. \A k \in 1..(i - 1) : q[k] \in S
    BY <1>1
  <2>. QED  BY <1>1, <1>2, <2>1, SubSeqProperties
<1>5. b \in Seq(S) /\ Len(b) = Len(q) - i /\ \A k \in 1..(Len(q) - i) : b[k] = q[i + k]
  <2>1. \A k \in (i + 1)..Len(q) : q[k] \in S
    BY <1>1
  <2>2. b \in Seq(S) /\ Len(b) = IF i + 1 <= Len(q) THEN Len(q) - (i + 1) + 1 ELSE 0
    BY <1>1, <1>3, <2>1, SubSeqProperties
  <2>3. \A k \in 1..(Len(q) - (i + 1) + 1) : b[k] = q[(i + 1) + k - 1]
    BY <1>1, <1>3, <2>1, SubSeqProperties
  <2>4. ASSUME NEW k \in 1..(Len(q) - i)
        PROVE  b[k] = q[i + k]
    <3>1. k \in 1..(Len(q) - (i + 1) + 1) /\ (i + 1) + k - 1 = i + k
      BY <1>1
    <3>. QED  BY <2>3, <3>1
  <2>5. Len(b) = Len(q) - i
    BY <1>1, <2>2
  <2>. QED  BY <2>2, <2>4, <2>5
<1>6. PICK r : r = a \o b
  OBVIOUS
<1>7. /\ DOMAIN r = 1..(Len(q) - 1)
      /\ \A k \in 1..(Len(q) - 1) : r[k] = IF k < i THEN q[k] ELSE q[k + 1]
  <2>0. Len(a) + Len(b) = Len(q) - 1
    BY <1>1, <1>4, <1>5
  <2>1. /\ r \in Seq(S) /\ Len(r) = Len(q) - 1
        /\ \A k \in 1..(Len(q) - 1) : r[k] = IF k <= Len(a) THEN a[k] ELSE b[k - Len(a)]
    <3>1. /\ r \in Seq(S) /\ Len(r) = Len(a) + Len(b)
          /\ \A k \in 1..(Len(a) + Len(b)) : r[k] = IF k <= Len(a) THEN a[k] ELSE b[k - Len(a)]
      <4>1. a \in Seq(S) /\ b \in Seq(S)
        BY <1>4, <1>5
      <4>. QED  BY <1>6, <4>1, ConcatProperties, Zenon
    <3>. QED  BY <2>0, <3>1, Zenon
  <2>2. ASSUME NEW k \in 1..(Len(q) - 1)
        PROVE  r[k] = IF k < i THEN q[k] ELSE q[k + 1]
    <3>1. CASE k < i
      <4>1. k <= Len(a) /\ k \in 1..(i - 1)
        BY <1>1, <1>4, <3>1
      <4>. QED  BY <1>4, <2>1, <3>1, <4>1
    <3>2. CASE ~(k < i)
      <4>1. k - Len(a) \in 1..(Len(q) - i) /\ i + (k - Len(a)) = k + 1 /\ ~(k <= Len(a))
        BY <1>1, <1>4, <3>2
      <4>2. r[k] = b[k - Len(a)]
        BY <2>1, <4>1
      <4>. QED  BY <1>5, <3>2, <4>1, <4>2
    <3>. QED  BY <3>1, <3>2
  <2>. QED  BY <1>1, <2>1, <2>2, LenProperties
<1>8. ToSet(r) = ToSet(q) \ {q[i]}
  <2>1. ASSUME NEW k \in 1..(Len(q) - 1)
        PROVE  r[k] \in ToSet(q) \ {q[i]}
    BY <1>1, <1>7 DEF ToSet, IsInjective
  <2>2. ASSUME NEW k \in 1..Len(q), k # i
        PROVE  \E m \in 1..(Len(q) - 1) : r[m] = q[k]
    <3>1. CASE k < i
      BY <1>1, <1>7, <3>1
    <3>2. CASE k > i
      <4>1. k - 1 \in 1..(Len(q) - 1) /\ ~(k - 1 < i) /\ (k - 1) + 1 = k
        BY <1>1, <3>2
      <4>. QED  BY <1>7, <4>1
    <3>. QED  BY <1>1, <2>2, <3>1, <3>2
  <2>3. ToSet(r) \subseteq ToSet(q) \ {q[i]}
    BY <1>7, <2>1 DEF ToSet
  <2>4. ASSUME NEW e \in ToSet(q), e # q[i]
        PROVE  e \in ToSet(r)
    <3>1. PICK k \in 1..Len(q) : e = q[k] /\ k # i
      BY <1>1, <2>4 DEF ToSet
    <3>. QED  BY <1>7, <2>2, <3>1 DEF ToSet
  <2>. QED  BY <2>3, <2>4
<1>9. IsInjective(r)
  <2>. SUFFICES ASSUME NEW k \in 1..(Len(q) - 1), NEW m \in 1..(Len(q) - 1), r[k] = r[m]
                PROVE  k = m
    BY <1>7 DEF IsInjective
  <2>1. PICK c \in 1..Len(q) : c = (IF k < i THEN k ELSE k + 1) /\ r[k] = q[c]
    BY <1>1, <1>7
  <2>2. PICK d \in 1..Len(q) : d = (IF m < i THEN m ELSE m + 1) /\ r[m] = q[d]
    BY <1>1, <1>7
  <2>3. c = d
    BY <1>1, <2>1, <2>2 DEF IsInjective
  <2>. QED  BY <1>1, <2>1, <2>2, <2>3
<1>. QED  BY <1>2, <1>3, <1>6, <1>8, <1>9 DEF RemoveAt

\* The list is as it was, and so are the streams on it.
LEMMA ListedStays ==
  ASSUME TypeOK, ListenersAreStreams, UNCHANGED <<listeners, on>>,
         \A s \in Streams : pc'[s] \in Registered <=> pc[s] \in Registered
  PROVE  ListenersAreStreams'
BY DEF ListenersAreStreams

LEMMA ListedOpen ==
  ASSUME TypeOK, ListenersAreStreams, NEW s \in Streams, NEW j \in Jobs, Open(s, j)
  PROVE  ListenersAreStreams'
<1>1. /\ listeners' = [listeners EXCEPT ![j] = Append(@, s)] /\ pc[s] \notin Registered
      /\ \A u \in Streams : /\ pc'[u] = IF u = s THEN "drain" ELSE pc[u]
                            /\ on'[u] = IF u = s THEN j ELSE on[u]
  BY DEF Open, TypeOK
<1>2. /\ listeners[j] \in Seq(Streams) /\ s \notin ToSet(listeners[j]) /\ IsInjective(listeners[j])
      /\ listeners'[j] = Append(listeners[j], s)
      /\ \A k \in Jobs \ {j} : listeners'[k] = listeners[k]
  BY <1>1 DEF ListenersAreStreams, TypeOK
<1>3. ToSet(listeners'[j]) = ToSet(listeners[j]) \cup {s} /\ IsInjective(listeners'[j])
  BY <1>2, AppendListed
<1>4. ToSet(listeners'[j]) = {u \in Streams : pc'[u] \in Registered /\ on'[u] = j}
  BY <1>1, <1>3 DEF ListenersAreStreams, Registered
<1>5. ASSUME NEW k \in Jobs, k # j
      PROVE  /\ ToSet(listeners'[k]) = {u \in Streams : pc'[u] \in Registered /\ on'[u] = k}
             /\ IsInjective(listeners'[k])
  <2>1. {u \in Streams : pc'[u] \in Registered /\ on'[u] = k} = {u \in Streams : pc[u] \in Registered /\ on[u] = k}
    BY <1>1, <1>5
  <2>. QED  BY <1>2, <1>5, <2>1 DEF ListenersAreStreams
<1>. QED  BY <1>3, <1>4, <1>5 DEF ListenersAreStreams

LEMMA ListedLeaves ==
  ASSUME TypeOK, ListenersAreStreams, NEW s \in Streams, on[s] \in Jobs, Unregister(s), on' = on,
         NEW p, p \notin Registered, pc' = [pc EXCEPT ![s] = p]
  PROVE  ListenersAreStreams'
<1>1. PICK j \in Jobs : j = on[s]
  OBVIOUS
<1>2. PICK i \in DOMAIN listeners[j] : listeners[j][i] = s /\ listeners' = [listeners EXCEPT ![j] = RemoveAt(@, i)]
  BY <1>1 DEF Unregister
<1>3. /\ listeners[j] \in Seq(Streams) /\ IsInjective(listeners[j])
      /\ listeners'[j] = RemoveAt(listeners[j], i)
      /\ \A k \in Jobs \ {j} : listeners'[k] = listeners[k]
      /\ \A u \in Streams : pc'[u] = IF u = s THEN p ELSE pc[u]
  BY <1>2 DEF ListenersAreStreams, TypeOK
<1>4. ToSet(listeners'[j]) = ToSet(listeners[j]) \ {s} /\ IsInjective(listeners'[j])
  BY <1>2, <1>3, RemoveListed
<1>5. ToSet(listeners'[j]) = {u \in Streams : pc'[u] \in Registered /\ on'[u] = j}
  BY <1>3, <1>4 DEF ListenersAreStreams
<1>6. ASSUME NEW k \in Jobs, k # j
      PROVE  /\ ToSet(listeners'[k]) = {u \in Streams : pc'[u] \in Registered /\ on'[u] = k}
             /\ IsInjective(listeners'[k])
  <2>1. {u \in Streams : pc'[u] \in Registered /\ on'[u] = k} = {u \in Streams : pc[u] \in Registered /\ on[u] = k}
    BY <1>1, <1>3, <1>6
  <2>. QED  BY <1>3, <1>6, <2>1 DEF ListenersAreStreams
<1>. QED  BY <1>4, <1>5, <1>6 DEF ListenersAreStreams

\* What a wake-up does to the streams, or a step that wakes nobody.
Wakes ==
  /\ UNCHANGED <<listeners, on, seen>>
  /\ UNCHANGED <<flag, pc>> \/ \E W : SetEvents(W)

LEMMA ListedWakes ==
  ASSUME TypeOK, ListenersAreStreams, Wakes
  PROVE  ListenersAreStreams'
BY SetEventsType, ListedStays DEF Wakes

\* The list of listeners is the list of the registered streams, without
\* repetition, for any number of DELETE threads.
LEMMA ListedAlways == Spec => [](TypeOK /\ Placed /\ ClosedInv /\ ListenersAreStreams)
<1>1. Init => ListenersAreStreams
  <2>. SUFFICES ASSUME Init, NEW j \in Jobs
                PROVE  /\ ToSet(listeners[j]) = {s \in Streams : pc[s] \in Registered /\ on[s] = j}
                       /\ IsInjective(listeners[j])
    BY DEF ListenersAreStreams
  <2>1. DOMAIN listeners[j] = {} /\ \A s \in Streams : pc[s] \notin Registered
    BY DEF Init, Registered
  <2>. QED  BY <2>1 DEF ToSet, IsInjective
<1>2. TypeOK /\ Placed /\ ListenersAreStreams /\ [Next]_vars => ListenersAreStreams'
  <2>. SUFFICES ASSUME TypeOK, Placed, ListenersAreStreams, [Next]_vars
                PROVE  ListenersAreStreams'
    OBVIOUS
  <2>1. ASSUME NEW j \in Jobs, WorkerNext(j) \/ CancelAtOnce(j)
        PROVE  ListenersAreStreams'
    <3>1. Wakes
      BY <2>1 DEF WorkerNext, Submit, Begin, Publish, Suspend, Resume, Unwind, Finish, CloseLog,
                  Expire, CancelAtOnce, WakeAll, Wakes, streamVars
    <3>. QED  BY <3>1, ListedWakes
  <2>2. ASSUME NEW t \in Threads, ThreadStep(t) \/ \E j \in Jobs : ThreadCheck(t, j)
        PROVE  ListenersAreStreams'
    <3>1. Wakes
      BY <2>2 DEF ThreadStep, ThreadCheck, ThreadFlip, ThreadAppend, ThreadWake, ThreadWakeDone,
                  ThreadStop, Wakes, streamVars
    <3>. QED  BY <3>1, ListedWakes
  <2>3. ASSUME NEW s \in Streams, Close(s) \/ Backstop(s) \/ Drop(s)
        PROVE  ListenersAreStreams'
    <3>1. on[s] \in Jobs /\ Unregister(s) /\ on' = on
      BY <2>3 DEF Close, Backstop, Drop, Placed, Registered
    <3>2. \E p \in {"closed", "cutoff", "out"} : pc' = [pc EXCEPT ![s] = p]
      BY <2>3 DEF Close, Backstop, Drop
    <3>. QED  BY <3>1, <3>2, ListedLeaves DEF Registered
  <2>4. ASSUME NEW s \in Streams,
               \/ Deliver(s) \/ CatchUp(s) \/ Poll(s) \/ PassWait(s) \/ FoundUnset(s) \/ Park(s)
               \/ Wake(s)
        PROVE  ListenersAreStreams'
    <3>1. UNCHANGED <<listeners, on>>
      BY <2>4 DEF Deliver, CatchUp, Poll, PassWait, FoundUnset, Park, Wake
    <3>2. \A u \in Streams : pc'[u] \in Registered <=> pc[u] \in Registered
      BY <2>4 DEF Deliver, CatchUp, Poll, PassWait, FoundUnset, Park, Wake, Registered, TypeOK
    <3>. QED  BY <3>1, <3>2, ListedStays
  <2>5. CASE UNCHANGED vars
    BY <2>5, ListedStays DEF vars, streamVars
  <2>. QED  BY <2>1, <2>2, <2>3, <2>4, <2>5, ListedOpen DEF Next, StreamStep
<1>. QED  BY <1>1, <1>2, ClosedAlways, PTL DEF Spec

-----------------------------------------------------------------------------
(* Without a thread switch in a DELETE handler: how a job and a stream stand *)
(* between any two steps of the event loop                                   *)

\* stream_end is the last entry of the log of j, and says what the status says.
EndsLast(j) ==
  \A i \in DOMAIN log[j] : log[j][i] \in Terminal => i = Len(log[j]) /\ log[j][i] = status[j]

\* A terminal status without a stream_end is the middle of a worker's update,
\* which the worker does not leave before the stream_end is written.
LoopJob(j) ==
  /\ task[j] = "working" /\ ~cancelReq[j] => status[j] \notin Terminal
  /\ task[j] \in {"completing", "failing"} =>
       loop = j /\ ~EndLogged(j) /\ status[j] = Outcome(task[j])
  /\ loop = j => task[j] \in {"working", "completing", "failing"} /\ ~cancelReq[j]
  /\ status[j] \in Terminal /\ ~EndLogged(j) => task[j] \in {"completing", "failing"}
  /\ task[j] \notin {"none", "scheduled"} => status[j] # "pending"
  /\ EndsLast(j)

\* From CatchUp to Park a stream holds the loop, so that nothing is appended
\* between its look at the log and its wait; once it waits, an append sets its
\* event.
LoopStream(s) ==
  /\ pc[s] \in Registered => seen[s] <= Len(log[on[s]])
  /\ loop = s => pc[s] \in {"drain", "caughtUp", "polling", "parking"}
  /\ pc[s] \in {"caughtUp", "polling", "parking"} => loop = s
  /\ pc[s] \in {"caughtUp", "polling", "parking", "parked"} =>
       seen[s] = Len(log[on[s]]) /\ ~EndLogged(on[s])
  /\ pc[s] \in {"parking", "parked"} => ~flag[s]
  /\ pc[s] # "cutoff"

LoopJobs == \A j \in Jobs : LoopJob(j)
LoopStreams == \A s \in Streams : LoopStream(s)

\* The inductive invariant of the event loop on its own.
LoopInv == TypeOK /\ Placed /\ ClosedInv /\ ListenersAreStreams /\ LoopJobs /\ LoopStreams

-----------------------------------------------------------------------------
(* Steps of a worker and of DELETE, as the jobs see them                     *)

\* A job the step is not about.
LEMMA OtherJobStands ==
  ASSUME NEW k \in Jobs, LoopJob(k), loop' = k <=> loop = k,
         status'[k] = status[k], log'[k] = log[k], task'[k] = task[k], cancelReq'[k] = cancelReq[k]
  PROVE  LoopJob(k)'
BY DEF LoopJob, EndsLast, EndLogged

\* The log of an open job grows, by its end or by something else.
LEMMA AppendEnds ==
  ASSUME TypeOK, NEW j \in Jobs, NEW e \in Event, ~EndLogged(j),
         log' = [log EXCEPT ![j] = Append(@, e)], e \in Terminal => status'[j] = e
  PROVE  EndsLast(j)' /\ (EndLogged(j)' <=> e \in Terminal)
<1>1. log[j] \in Seq(Event) /\ log'[j] = Append(log[j], e)
  BY DEF TypeOK
<1>2. /\ Len(log[j]) \in Nat /\ DOMAIN log[j] = 1..Len(log[j])
      /\ Len(log'[j]) = Len(log[j]) + 1 /\ DOMAIN log'[j] = 1..(Len(log[j]) + 1)
      /\ \A i \in 1..Len(log[j]) : log'[j][i] = log[j][i]
      /\ log'[j][Len(log[j]) + 1] = e
  BY <1>1, LenProperties, AppendProperties
<1>3. \A i \in 1..Len(log[j]) : log'[j][i] \notin Terminal
  BY <1>2 DEF EndLogged
<1>4. \A i \in DOMAIN log'[j] : i \in 1..Len(log[j]) \/ i = Len(log'[j])
  BY <1>2
<1>5. EndsLast(j)'
  BY <1>2, <1>3, <1>4 DEF EndsLast
<1>. QED  BY <1>2, <1>3, <1>5, AppendLog

\* A job without a stream_end has none that is not last.
LEMMA OpenEndsLast ==
  ASSUME NEW j \in Jobs, ~EndLogged(j)
  PROVE  EndsLast(j)
BY DEF EndsLast, EndLogged

LEMMA WorkerStands ==
  ASSUME LoopInv, NEW j \in Jobs, WorkerNext(j) \/ CancelAtOnce(j)
  PROVE  LoopJobs'
<1>0. /\ TypeOK /\ JobInv(j) /\ LoopJob(j) /\ \A k \in Jobs : LoopJob(k)
      /\ "progress" \in Event /\ "progress" \notin Terminal /\ Terminal \subseteq Event
  BY DEF LoopInv, ClosedInv, LoopJobs, Event, Terminal
<1>1. ASSUME NEW k \in Jobs, k # j
      PROVE  LoopJob(k)'
  <2>1. /\ status'[k] = status[k] /\ log'[k] = log[k] /\ task'[k] = task[k]
        /\ cancelReq'[k] = cancelReq[k]
    BY <1>0, <1>1 DEF WorkerNext, Submit, Begin, Publish, Suspend, Resume, Unwind, Finish, CloseLog,
                      Expire, CancelAtOnce, TypeOK, jobVars
  <2>2. loop' = k <=> loop = k
    BY <1>0, <1>1, JobStoreAssumption
    DEF WorkerNext, Submit, Begin, Publish, Suspend, Resume, Unwind, Finish, CloseLog,
        Expire, CancelAtOnce
  <2>. QED  BY <1>0, <2>1, <2>2, OtherJobStands
<1>2. j # NoOne
  BY JobStoreAssumption
<1>. DEFINE Keep == log' = log /\ (EndLogged(j)' <=> EndLogged(j))
<1>3. log' = log => Keep
  BY KeepLog
<1>4. CASE Submit(j)
  <2>1. /\ task[j] = "none" /\ task'[j] = "scheduled" /\ status'[j] = status[j] /\ log' = log /\ loop = NoOne
        /\ loop' = loop /\ cancelReq'[j] = cancelReq[j]
    BY <1>0, <1>4 DEF Submit, TypeOK
  <2>2. status[j] = "pending" /\ ~EndLogged(j)
    BY <1>0, <2>1 DEF JobInv, Terminal
  <2>3. EndsLast(j)'
    BY <1>3, <2>1, <2>2, OpenEndsLast DEF EndsLast
  <2>. QED  BY <1>1, <1>2, <1>3, <2>1, <2>2, <2>3 DEF LoopJobs, LoopJob, Terminal
<1>5. CASE Begin(j)
  <2>1. /\ task[j] = "scheduled" /\ task'[j] = "working" /\ log' = log /\ cancelReq'[j] = cancelReq[j]
        /\ status'[j] = IF j \in store THEN "running" ELSE status[j]
    BY <1>0, <1>5 DEF Begin, TypeOK
  <2>2. status[j] = "pending" /\ ~EndLogged(j) /\ j \in store /\ ~cancelReq[j]
    BY <1>0, <2>1 DEF JobInv, Closed, Terminal
  <2>3. EndsLast(j)'
    BY <2>1, <2>2, OpenEndsLast DEF EndsLast, EndLogged
  <2>. QED  BY <1>1, <1>3, <2>1, <2>2, <2>3 DEF LoopJobs, LoopJob, Terminal
<1>6. CASE Publish(j)
  <2>1. /\ task[j] = "working" /\ loop = j /\ loop' = j
        /\ status' = status /\ task' = task /\ cancelReq' = cancelReq
    BY <1>6 DEF Publish
  <2>2. status[j] \notin Terminal /\ ~cancelReq[j] /\ ~EndLogged(j) /\ j \in store
    BY <1>0, <2>1 DEF LoopJob, JobInv, Closed
  <2>3. log' = [log EXCEPT ![j] = Append(@, "progress")]
    BY <1>6, <2>2 DEF Publish
  <2>4. EndsLast(j)' /\ ~EndLogged(j)'
    BY <1>0, <2>2, <2>3, AppendEnds
  <2>. QED  BY <1>0, <1>1, <2>1, <2>2, <2>4 DEF LoopJobs, LoopJob
<1>7. CASE Suspend(j) \/ Resume(j)
  <2>1. /\ task[j] = "working" /\ task' = task /\ status' = status /\ log' = log /\ cancelReq' = cancelReq
        /\ loop' \in {NoOne, j} /\ (loop' = j => ~cancelReq[j])
    BY <1>2, <1>7 DEF Suspend, Resume, jobVars
  <2>. QED  BY <1>0, <1>1, <1>3, <2>1 DEF LoopJobs, LoopJob, EndsLast
<1>8. CASE Unwind(j)
  <2>1. /\ task[j] = "working" /\ task'[j] = "ended" /\ status' = status /\ log' = log /\ cancelReq' = cancelReq
        /\ loop' = NoOne /\ cancelReq[j]
    BY <1>0, <1>8 DEF Unwind, TypeOK
  <2>2. Closed(j)
    BY <1>0, <2>1 DEF JobInv
  <2>. QED  BY <1>0, <1>1, <1>2, <1>3, <2>1, <2>2 DEF LoopJobs, LoopJob, EndsLast, Closed
<1>9. ASSUME NEW p \in {"completing", "failing"}, Finish(j, p)
      PROVE  LoopJobs'
  <2>1. /\ task[j] = "working" /\ task'[j] = p /\ log' = log /\ cancelReq' = cancelReq /\ loop = j /\ loop' = j
        /\ status'[j] = IF j \in store THEN Outcome(p) ELSE status[j]
    BY <1>0, <1>9 DEF Finish, TypeOK
  <2>2. status[j] \notin Terminal /\ ~cancelReq[j] /\ ~EndLogged(j) /\ j \in store
    BY <1>0, <2>1 DEF LoopJob, JobInv, Closed
  <2>3. EndsLast(j)'
    BY <2>1, <2>2, OpenEndsLast DEF EndsLast, EndLogged
  <2>4. Outcome(p) \in Terminal
    BY DEF Outcome, Terminal
  <2>. QED  BY <1>1, <1>3, <2>1, <2>2, <2>3, <2>4 DEF LoopJobs, LoopJob, Outcome, Terminal
<1>10. CASE CloseLog(j)
  <2>1. /\ task[j] \in {"completing", "failing"} /\ task'[j] = "ended" /\ status' = status /\ cancelReq' = cancelReq
        /\ loop' = NoOne
    BY <1>0, <1>10 DEF CloseLog, TypeOK
  <2>2. ~EndLogged(j) /\ status[j] = Outcome(task[j]) /\ j \in store /\ Outcome(task[j]) \in Terminal
    BY <1>0, <2>1 DEF LoopJob, JobInv, Closed, Outcome, Terminal
  <2>3. log' = [log EXCEPT ![j] = Append(@, Outcome(task[j]))]
    BY <1>10, <2>2 DEF CloseLog
  <2>4. EndsLast(j)' /\ EndLogged(j)'
    <3>1. PICK e \in Event : e = Outcome(task[j]) /\ e \in Terminal
      BY <1>0, <2>2
    <3>. QED  BY <1>0, <2>1, <2>2, <2>3, <3>1, AppendEnds
  <2>. QED  BY <1>0, <1>1, <1>2, <2>1, <2>2, <2>4 DEF LoopJobs, LoopJob, Terminal
<1>11. CASE Expire(j)
  <2>1. UNCHANGED <<task, status, log, cancelReq, loop>>
    BY <1>11 DEF Expire
  <2>. QED  BY <1>0, <1>1, <1>3, <2>1 DEF LoopJobs, LoopJob, EndsLast, Outcome
<1>12. CASE CancelAtOnce(j)
  <2>1. /\ loop = NoOne /\ loop' = loop /\ task' = task /\ j \in store /\ task[j] # "scheduled"
        /\ status[j] \notin Terminal
        /\ status'[j] = "cancelled" /\ cancelReq'[j] = (task[j] # "ended")
        /\ log' = [log EXCEPT ![j] = Append(@, "cancelled")]
    BY <1>0, <1>12 DEF CancelAtOnce, Addressable, TypeOK
  <2>2. task[j] = "working" /\ ~EndLogged(j)
    BY <1>0, <1>2, <2>1 DEF LoopJob, JobInv, Closed, TypeOK
  <2>3. EndsLast(j)' /\ EndLogged(j)'
    BY <1>0, <2>1, <2>2, AppendEnds DEF Terminal
  <2>. QED  BY <1>1, <1>2, <2>1, <2>2, <2>3 DEF LoopJobs, LoopJob
<1>. QED  BY <1>4, <1>5, <1>6, <1>7, <1>8, <1>9, <1>10, <1>11, <1>12 DEF WorkerNext

-----------------------------------------------------------------------------
(* The same steps, as the streams see them                                   *)

\* A step that holds no stream on the loop and neither appends nor wakes.
LEMMA QuietServes ==
  ASSUME LoopStreams, UNCHANGED <<log, pc, on, seen, flag>>,
         loop' = loop \/ (loop \notin Streams /\ loop' \notin Streams)
  PROVE  LoopStreams'
BY DEF LoopStreams, LoopStream, EndLogged

\* A step that appends to the log of j and sets the events of its listeners: a
\* stream that waits for j waits no longer.
LEMMA GrowthServes ==
  ASSUME LoopInv, NEW j \in Jobs, NEW e \in Event,
         log' = [log EXCEPT ![j] = Append(@, e)], WakeAll(j), UNCHANGED <<on, seen>>,
         loop \notin Streams, loop' \notin Streams
  PROVE  LoopStreams'
<1>1. TypeOK /\ Placed /\ ListenersAreStreams /\ \A s \in Streams : LoopStream(s)
  BY DEF LoopInv, LoopStreams
<1>2. /\ log[j] \in Seq(Event) /\ log'[j] = Append(log[j], e)
      /\ \A k \in Jobs \ {j} : log'[k] = log[k]
  BY <1>1 DEF TypeOK
<1>3. /\ Len(log[j]) \in Nat /\ Len(log'[j]) = Len(log[j]) + 1
      /\ \A k \in Jobs : k # j => Len(log'[k]) = Len(log[k]) /\ (EndLogged(k)' <=> EndLogged(k))
  BY <1>2, LenProperties, AppendProperties DEF EndLogged
<1>. SUFFICES ASSUME NEW s \in Streams
              PROVE  LoopStream(s)'
  BY DEF LoopStreams
<1>4. LoopStream(s) /\ seen[s] \in Nat /\ pc[s] \notin {"caughtUp", "polling", "parking"} /\ loop # s /\ loop' # s
  BY <1>1 DEF LoopStream, TypeOK
<1>5. CASE pc[s] \in Registered /\ on[s] = j
  <2>1. \E i \in DOMAIN listeners[j] : listeners[j][i] = s
    BY <1>1, <1>5 DEF ListenersAreStreams, ToSet
  <2>2. pc'[s] = (IF ~flag[s] /\ pc[s] = "parked" THEN "woken" ELSE pc[s])
    BY <2>1 DEF WakeAll, SetEvents
  <2>3. pc'[s] \notin {"caughtUp", "polling", "parking", "parked", "cutoff"}
    BY <1>4, <1>5, <2>2 DEF LoopStream, Registered
  <2>4. seen[s] <= Len(log'[j])
    BY <1>3, <1>4, <1>5 DEF LoopStream
  <2>. QED  BY <1>4, <1>5, <2>3, <2>4 DEF LoopStream
<1>6. CASE ~(pc[s] \in Registered /\ on[s] = j)
  <2>1. ~ \E i \in DOMAIN listeners[j] : listeners[j][i] = s
    BY <1>1, <1>6 DEF ListenersAreStreams, ToSet
  <2>2. pc'[s] = pc[s] /\ flag'[s] = flag[s]
    BY <1>1, <2>1 DEF WakeAll, SetEvents, TypeOK
  <2>3. CASE pc[s] \in Registered
    <3>1. on[s] \in Jobs /\ on[s] # j
      BY <1>1, <1>6, <2>3 DEF Placed
    <3>. QED  BY <1>3, <1>4, <2>2, <3>1 DEF LoopStream
  <2>4. CASE pc[s] \notin Registered
    BY <1>4, <2>2, <2>4 DEF LoopStream, Registered
  <2>. QED  BY <2>3, <2>4
<1>. QED  BY <1>5, <1>6

LEMMA WorkerServes ==
  ASSUME LoopInv, NEW j \in Jobs, WorkerNext(j) \/ CancelAtOnce(j)
  PROVE  LoopStreams'
<1>1. LoopStreams /\ TypeOK /\ NoOne \notin Streams /\ j \notin Streams
  BY JobStoreAssumption DEF LoopInv
<1>2. loop' = loop \/ (loop \notin Streams /\ loop' \notin Streams)
  BY <1>1 DEF WorkerNext, Submit, Begin, Publish, Suspend, Resume, Unwind, Finish, CloseLog,
              Expire, CancelAtOnce
<1>3. CASE UNCHANGED <<log, streamVars>>
  BY <1>1, <1>2, <1>3, QuietServes DEF streamVars
<1>4. CASE (Publish(j) \/ CloseLog(j)) /\ j \notin store
  BY <1>1, <1>2, <1>4, QuietServes DEF Publish, CloseLog
<1>5. CASE (Publish(j) \/ CloseLog(j)) /\ j \in store
  <2>1. PICK e \in Event : log' = [log EXCEPT ![j] = Append(@, e)]
    BY <1>5 DEF Publish, CloseLog, Event, Outcome, Terminal
  <2>2. WakeAll(j) /\ UNCHANGED <<on, seen>> /\ loop \notin Streams /\ loop' \notin Streams
    BY <1>1, <1>5 DEF Publish, CloseLog
  <2>. QED  BY <2>1, <2>2, GrowthServes
<1>6. CASE CancelAtOnce(j)
  BY <1>1, <1>6, GrowthServes DEF CancelAtOnce, Event, Terminal
<1>. QED
  BY <1>3, <1>4, <1>5, <1>6
  DEF WorkerNext, Submit, Begin, Suspend, Resume, Unwind, Finish, Expire, jobVars

-----------------------------------------------------------------------------
(* Steps of a stream                                                         *)

\* A stream that got the last entry of a log that has its stream_end got the
\* stream_end.
LEMMA EndIsSeen ==
  ASSUME TypeOK, LoopJobs, NEW s \in Streams, on[s] \in Jobs, ~SawEnd(s), seen[s] = Len(log[on[s]])
  PROVE  ~EndLogged(on[s])
<1>1. PICK j \in Jobs : j = on[s]
  OBVIOUS
<1>2. EndsLast(j) /\ log[j] \in Seq(Event)
  BY DEF LoopJobs, LoopJob, TypeOK
<1>. SUFFICES ASSUME NEW i \in DOMAIN log[j], log[j][i] \in Terminal
              PROVE  FALSE
  BY <1>1 DEF EndLogged
<1>3. i = Len(log[j]) /\ i > 0
  BY <1>2, LenProperties DEF EndsLast
<1>. QED  BY <1>1, <1>3 DEF SawEnd

\* The backstop is out of reach: between its two steps a worker's update holds
\* the loop, which the stream would need.
LEMMA NoBackstop ==
  ASSUME LoopInv, NEW s \in Streams
  PROVE  ~Backstop(s)
<1>. SUFFICES ASSUME Backstop(s)
              PROVE  FALSE
  OBVIOUS
<1>1. loop = s /\ pc[s] = "caughtUp" /\ status[on[s]] \in Terminal /\ on[s] \in Jobs
  BY DEF Backstop, LoopInv, Placed, Registered
<1>2. ~EndLogged(on[s]) /\ LoopJob(on[s])
  BY <1>1 DEF LoopInv, LoopStreams, LoopStream, LoopJobs
<1>3. loop = on[s]
  BY <1>1, <1>2 DEF LoopJob
<1>. QED  BY <1>1, <1>3, JobStoreAssumption

\* Another stream than the one that steps.
LEMMA OthersServed ==
  ASSUME LoopStreams, NEW s \in Streams, UNCHANGED log, loop \in {NoOne, s}, loop' \in {NoOne, s},
         \A u \in Streams \ {s} : pc'[u] = pc[u] /\ on'[u] = on[u] /\ seen'[u] = seen[u] /\ flag'[u] = flag[u]
  PROVE  \A u \in Streams \ {s} : LoopStream(u)'
<1>1. NoOne \notin Streams
  BY JobStoreAssumption
<1>. QED  BY <1>1 DEF LoopStreams, LoopStream, EndLogged

LEMMA StreamServes ==
  ASSUME LoopInv, NEW s \in Streams, StreamStep(s) \/ Drop(s) \/ \E j \in Jobs : Open(s, j)
  PROVE  LoopStreams'
<1>0. /\ TypeOK /\ Placed /\ LoopJobs /\ LoopStreams /\ LoopStream(s) /\ NoOne # s
      /\ seen[s] \in Nat
  BY JobStoreAssumption DEF LoopInv, LoopStreams, TypeOK
<1>a. log' = log
  BY StreamsTouchNoJob DEF jobVars
<1>1. ASSUME NEW u \in Streams, u # s
      PROVE  LoopStream(u)'
  <2>1. loop \in {NoOne, s} /\ loop' \in {NoOne, s}
    BY NoBackstop
    DEF StreamStep, Deliver, Close, CatchUp, Poll, PassWait, FoundUnset, Park, Wake, Drop, Open, MayRun
  <2>2. \A v \in Streams \ {s} : pc'[v] = pc[v] /\ on'[v] = on[v] /\ seen'[v] = seen[v] /\ flag'[v] = flag[v]
    BY <1>0, NoBackstop
    DEF StreamStep, Deliver, Close, CatchUp, Poll, PassWait, FoundUnset, Park, Wake, Drop, Open, TypeOK
  <2>. QED  BY <1>0, <1>1, <1>a, <2>1, <2>2, OthersServed
<1>2. ASSUME NEW j \in Jobs, Open(s, j)
      PROVE  LoopStream(s)'
  <2>1. pc'[s] = "drain" /\ on'[s] = j /\ seen'[s] = 0 /\ loop' = NoOne
    BY <1>0, <1>2 DEF Open, TypeOK
  <2>2. Len(log[j]) \in Nat
    BY <1>0, LenProperties DEF TypeOK
  <2>. QED  BY <1>0, <1>a, <2>1, <2>2 DEF LoopStream, EndLogged
<1>3. ASSUME Deliver(s)
      PROVE  LoopStream(s)'
  <2>1. /\ pc'[s] = "drain" /\ on' = on /\ seen'[s] = seen[s] + 1 /\ loop' = NoOne
        /\ seen[s] < Len(log[on[s]]) /\ on[s] \in Jobs
    BY <1>0, <1>3 DEF Deliver, TypeOK, Placed, Registered
  <2>2. Len(log[on[s]]) \in Nat
    BY <1>0, <2>1, LenProperties DEF TypeOK
  <2>3. seen'[s] <= Len(log'[on'[s]])
    BY <1>0, <1>a, <2>1, <2>2
  <2>. QED  BY <1>0, <2>1, <2>3 DEF LoopStream, EndLogged
<1>4. ASSUME Close(s) \/ Drop(s)
      PROVE  LoopStream(s)'
  <2>1. pc'[s] \in {"closed", "out"} /\ loop' = NoOne
    BY <1>0, <1>4 DEF Close, Drop, TypeOK
  <2>. QED  BY <1>0, <2>1 DEF LoopStream, EndLogged, Registered
<1>5. ASSUME CatchUp(s)
      PROVE  LoopStream(s)'
  <2>1. /\ pc'[s] = "caughtUp" /\ on' = on /\ seen' = seen /\ flag' = flag /\ loop' = s
        /\ seen[s] = Len(log[on[s]]) /\ ~SawEnd(s) /\ on[s] \in Jobs
    BY <1>0, <1>5 DEF CatchUp, TypeOK, Placed, Registered
  <2>2. ~EndLogged(on[s])
    BY <1>0, <2>1, EndIsSeen
  <2>. QED  BY <1>0, <1>a, <2>1, <2>2 DEF LoopStream, EndLogged
<1>6. ASSUME Poll(s) \/ FoundUnset(s)
      PROVE  LoopStream(s)'
  <2>1. /\ pc[s] \in {"caughtUp", "polling"} /\ pc'[s] \in {"polling", "parking"} /\ loop = s
        /\ UNCHANGED <<on, seen, flag, loop>> /\ (pc'[s] = "parking" => ~flag[s])
    BY <1>0, <1>6 DEF Poll, FoundUnset, TypeOK
  <2>. QED  BY <1>0, <1>a, <2>1 DEF LoopStream, EndLogged, Registered
<1>7. ASSUME PassWait(s) \/ Wake(s)
      PROVE  LoopStream(s)'
  <2>1. /\ pc[s] \in {"polling", "woken"} /\ pc'[s] = "drain" /\ loop' = s
        /\ UNCHANGED <<on, seen>>
    BY <1>0, <1>7 DEF PassWait, Wake, TypeOK
  <2>. QED  BY <1>0, <1>a, <2>1 DEF LoopStream, EndLogged, Registered
<1>8. ASSUME Park(s)
      PROVE  LoopStream(s)'
  <2>1. pc[s] = "parking" /\ pc'[s] = "parked" /\ loop' = NoOne /\ UNCHANGED <<on, seen, flag>>
    BY <1>0, <1>8 DEF Park, TypeOK
  <2>. QED  BY <1>0, <1>a, <2>1 DEF LoopStream, EndLogged, Registered
<1>. QED
  BY <1>1, <1>2, <1>3, <1>4, <1>5, <1>6, <1>7, <1>8, NoBackstop DEF StreamStep, LoopStreams

-----------------------------------------------------------------------------
(* What holds without a thread switch in a DELETE handler                    *)

\* A stream's steps are about no job.
LEMMA StreamsLetJobsStand ==
  ASSUME LoopInv, NEW s \in Streams, StreamStep(s) \/ Drop(s) \/ \E j \in Jobs : Open(s, j)
  PROVE  LoopJobs'
<1>1. UNCHANGED jobVars
  BY StreamsTouchNoJob
<1>. SUFFICES ASSUME NEW k \in Jobs
              PROVE  LoopJob(k)'
  BY DEF LoopJobs
<1>2. LoopJob(k) /\ k \notin Streams /\ k # NoOne /\ s \notin Jobs
  BY JobStoreAssumption DEF LoopInv, LoopJobs
<1>3. loop' = k <=> loop = k
  BY <1>2, NoBackstop
  DEF StreamStep, Deliver, Close, CatchUp, Poll, PassWait, FoundUnset, Park, Wake, Drop, Open, MayRun
<1>. QED  BY <1>1, <1>2, <1>3, OtherJobStands DEF jobVars

LEMMA LoopAlways ==
  ASSUME Threads = {}
  PROVE  Spec => []LoopInv
<1>1. Init => LoopJobs /\ LoopStreams
  BY JobStoreAssumption DEF Init, LoopJobs, LoopStreams, LoopJob, LoopStream, EndsLast, EndLogged, Registered, Terminal
<1>2. LoopInv /\ [Next]_vars => LoopJobs' /\ LoopStreams'
  <2>. SUFFICES ASSUME LoopInv, [Next]_vars
                PROVE  LoopJobs' /\ LoopStreams'
    OBVIOUS
  <2>1. CASE UNCHANGED vars
    <3>1. UNCHANGED <<log, pc, on, seen, flag, loop, status, task, cancelReq>>
      BY <2>1 DEF vars, jobVars, streamVars
    <3>2. LoopStreams'
      BY <3>1, QuietServes DEF LoopInv
    <3>3. LoopJobs'
      BY <3>1, OtherJobStands DEF LoopInv, LoopJobs
    <3>. QED  BY <3>2, <3>3
  <2>. QED
    BY <2>1, WorkerStands, WorkerServes, StreamServes, StreamsLetJobsStand DEF Next
<1>. QED  BY <1>1, <1>2, ListedAlways, PTL DEF Spec, LoopInv

\* Every stream is told everything: stream_end is the last entry of a log and
\* says what the status says, the listeners are the open streams, a stream that
\* waits has been sent the whole log of a live job and the backstop is never
\* taken.  For any number of jobs and streams and any length of the log, as
\* long as no thread switch falls into a DELETE handler.
THEOREM Served ==
  ASSUME Threads = {}
  PROVE  Spec => []StreamsAreServed
<1>1. LoopInv => StreamsAreServed
  <2>. SUFFICES ASSUME LoopInv
                PROVE  StreamsAreServed
    OBVIOUS
  <2>1. StreamEndIsLast /\ ListenersAreStreams /\ BackstopUnused
    BY DEF LoopInv, LoopJobs, LoopStreams, LoopJob, LoopStream, EndsLast, StreamEndIsLast, BackstopUnused
  <2>2. ASSUME NEW s \in Streams, loop = NoOne, pc[s] = "parked"
        PROVE  seen[s] = Len(log[on[s]]) /\ status[on[s]] \notin Terminal
    <3>1. on[s] \in Jobs /\ LoopStream(s) /\ LoopJob(on[s]) /\ on[s] # NoOne
      BY <2>2, JobStoreAssumption DEF LoopInv, Placed, Registered, LoopJobs, LoopStreams
    <3>. QED  BY <2>2, <3>1 DEF LoopStream, LoopJob
  <2>. QED  BY <2>1, <2>2 DEF StreamsAreServed, NoMissedWake
<1>. QED  BY <1>1, LoopAlways, PTL

\* A terminal status is the last one a job gets: without a thread switch in a
\* DELETE handler, neither the worker nor DELETE writes over it.
THEOREM TerminalStatusIsFinal ==
  ASSUME Threads = {}
  PROVE  Spec => TerminalIsFinal
<1>1. LoopInv /\ [Next]_vars =>
        [\A j \in Jobs : status[j] \in Terminal => status'[j] = status[j]]_vars
  <2>. SUFFICES ASSUME LoopInv, Next, NEW j \in Jobs, status[j] \in Terminal
                PROVE  status'[j] = status[j]
    OBVIOUS
  <2>1. JobInv(j) /\ LoopJob(j) /\ TypeOK
    BY DEF LoopInv, ClosedInv, LoopJobs
  <2>2. ASSUME NEW k \in Jobs, WorkerNext(k) \/ CancelAtOnce(k)
        PROVE  status'[j] = status[j]
    <3>1. CASE Begin(k)
      BY <2>1, <3>1 DEF Begin, JobInv, Terminal, TypeOK
    <3>2. ASSUME NEW p \in {"completing", "failing"}, Finish(k, p)
          PROVE  status'[j] = status[j]
      BY <2>1, <3>2 DEF Finish, LoopJob, TypeOK
    <3>3. CASE CancelAtOnce(k)
      BY <2>1, <3>3 DEF CancelAtOnce, TypeOK
    <3>. QED
      BY <2>2, <3>1, <3>2, <3>3
      DEF WorkerNext, Submit, Publish, Suspend, Resume, Unwind, CloseLog, Expire, jobVars
  <2>3. CASE \E s \in Streams : StreamStep(s) \/ Drop(s) \/ \E k \in Jobs : Open(s, k)
    BY <2>3, StreamsTouchNoJob DEF jobVars
  <2>. QED  BY <2>2, <2>3 DEF Next
<1>. QED  BY <1>1, LoopAlways, PTL DEF Spec, TerminalIsFinal

-----------------------------------------------------------------------------
(* The job store implements JobStream                                        *)

\* What JobStream sees of a job and of a stream.
JobState(j) ==
  IF task[j] = "none" THEN "absent"
  ELSE IF status[j] \in Terminal /\ ~EndLogged(j) THEN "running"
  ELSE status[j]
StreamReads(s) == IF pc[s] \in Registered THEN on[s] ELSE NoOne

JobStates == [j \in Jobs |-> JobState(j)]
Reads == [s \in Streams |-> StreamReads(s)]

LEMMA StatesStay ==
  ASSUME \A k \in Jobs : JobState(k)' = JobState(k)
  PROVE  JobStates' = JobStates
BY DEF JobStates

LEMMA OneStateMoves ==
  ASSUME NEW j \in Jobs, \A k \in Jobs : k # j => JobState(k)' = JobState(k),
         NEW v, JobState(j)' = v
  PROVE  JobStates' = [JobStates EXCEPT ![j] = v]
BY DEF JobStates

\* Whom a stream reads changes with its registration only.
LEMMA ReadsStay ==
  ASSUME UNCHANGED on, \A s \in Streams : pc'[s] \in Registered <=> pc[s] \in Registered
  PROVE  Reads' = Reads
BY DEF Reads, StreamReads

LEMMA OneReadMoves ==
  ASSUME NEW s \in Streams, NEW v, StreamReads(s)' = v,
         \A u \in Streams : u # s => on'[u] = on[u] /\ pc'[u] = pc[u]
  PROVE  Reads' = [Reads EXCEPT ![s] = v]
BY DEF Reads, StreamReads

\* A step of a worker or of DELETE is a step of JobStream on that job, or none.
LEMMA WorkerImplements ==
  ASSUME LoopInv, NEW j \in Jobs, WorkerNext(j) \/ CancelAtOnce(j)
  PROVE  Promised!Next \/ UNCHANGED Promised!vars
<1>0. /\ TypeOK /\ JobInv(j) /\ LoopJob(j) /\ status[j] \in Status
      /\ "progress" \in Event /\ "progress" \notin Terminal /\ Terminal \subseteq Event
  BY DEF LoopInv, ClosedInv, LoopJobs, Event, Terminal, TypeOK
<1>1. ASSUME NEW k \in Jobs, k # j
      PROVE  JobState(k)' = JobState(k)
  <2>1. status'[k] = status[k] /\ log'[k] = log[k] /\ task'[k] = task[k]
    BY <1>0, <1>1 DEF WorkerNext, Submit, Begin, Publish, Suspend, Resume, Unwind, Finish, CloseLog,
                      Expire, CancelAtOnce, TypeOK, jobVars
  <2>. QED  BY <2>1 DEF JobState, EndLogged
<1>2. Reads' = Reads /\ seen' = seen
  <2>1. Wakes
    BY DEF WorkerNext, Submit, Begin, Publish, Suspend, Resume, Unwind, Finish, CloseLog,
           Expire, CancelAtOnce, WakeAll, Wakes, streamVars
  <2>2. UNCHANGED <<on, seen>> /\ \A s \in Streams : pc'[s] \in Registered <=> pc[s] \in Registered
    BY <1>0, <2>1, SetEventsType DEF Wakes
  <2>. QED  BY <2>2, ReadsStay
<1>3. JobStates[j] = JobState(j)
  BY DEF JobStates
<1>4. log' = log => (EndLogged(j)' <=> EndLogged(j))
  BY KeepLog
<1>5. ASSUME log' = log, JobState(j)' = JobState(j)
      PROVE  UNCHANGED Promised!vars
  <2>1. JobStates' = JobStates
    BY <1>1, <1>5, StatesStay
  <2>. QED  BY <1>2, <1>5, <2>1 DEF Promised!vars, JobStates, JobState, Reads, StreamReads
<1>6. ASSUME NEW f \in Terminal, JobState(j) = "running", JobState(j)' = f,
             log' = [log EXCEPT ![j] = Append(@, f)]
      PROVE  Promised!Next
  <2>1. JobStates' = [JobStates EXCEPT ![j] = f]
    BY <1>1, <1>6, OneStateMoves
  <2>2. Promised!End(j, f)
    BY <1>2, <1>3, <1>6, <2>1 DEF Promised!End, JobStates, JobState, Reads, StreamReads
  <2>3. f \in Promised!Final
    BY DEF Promised!Final, Terminal
  <2>. QED  BY <2>2, <2>3 DEF Promised!Next
<1>7. CASE Submit(j)
  <2>1. task[j] = "none" /\ task'[j] = "scheduled" /\ status' = status /\ log' = log
    BY <1>0, <1>7 DEF Submit, TypeOK
  <2>2. JobState(j) = "absent" /\ JobState(j)' = "pending"
    BY <1>0, <2>1 DEF JobState, JobInv, Terminal
  <2>3. JobStates' = [JobStates EXCEPT ![j] = "pending"]
    BY <1>1, <2>2, OneStateMoves
  <2>4. Promised!Create(j)
    BY <1>2, <1>3, <2>1, <2>2, <2>3 DEF Promised!Create, JobStates, JobState, Reads, StreamReads
  <2>. QED  BY <2>4 DEF Promised!Next
<1>8. CASE Begin(j)
  <2>1. /\ task[j] = "scheduled" /\ task'[j] = "working" /\ log' = log
        /\ status'[j] = IF j \in store THEN "running" ELSE status[j]
    BY <1>0, <1>8 DEF Begin, TypeOK
  <2>2. status[j] = "pending" /\ j \in store
    BY <1>0, <2>1 DEF JobInv, Closed, Terminal
  <2>3. JobState(j) = "pending" /\ JobState(j)' = "running"
    BY <2>1, <2>2 DEF JobState, Terminal
  <2>4. JobStates' = [JobStates EXCEPT ![j] = "running"]
    BY <1>1, <2>3, OneStateMoves
  <2>5. Promised!Start(j)
    BY <1>2, <1>3, <2>1, <2>3, <2>4 DEF Promised!Start, JobStates, JobState, Reads, StreamReads
  <2>. QED  BY <2>5 DEF Promised!Next
<1>9. CASE Publish(j)
  <2>1. /\ task[j] = "working" /\ loop = j /\ status' = status /\ task' = task
    BY <1>9 DEF Publish
  <2>2. status[j] \notin Terminal /\ ~EndLogged(j) /\ j \in store /\ status[j] = "running"
    BY <1>0, <2>1 DEF LoopJob, JobInv, Closed, Status
  <2>3. log' = [log EXCEPT ![j] = Append(@, "progress")]
    BY <1>9, <2>2 DEF Publish
  <2>4. JobState(j) = "running" /\ JobState(j)' = JobState(j)
    BY <2>1, <2>2 DEF JobState
  <2>5. JobStates' = JobStates
    BY <1>1, <2>4, StatesStay
  <2>6. Promised!Emit(j)
    BY <1>2, <1>3, <2>3, <2>4, <2>5 DEF Promised!Emit, JobStates, JobState, Reads, StreamReads
  <2>. QED  BY <2>6 DEF Promised!Next
<1>10. CASE Suspend(j) \/ Resume(j) \/ Expire(j)
  <2>1. log' = log /\ status' = status /\ task' = task
    BY <1>10 DEF Suspend, Resume, Expire, jobVars
  <2>. QED  BY <1>4, <1>5, <2>1 DEF JobState
<1>11. CASE Unwind(j)
  <2>1. log' = log /\ status' = status /\ task[j] = "working" /\ task'[j] = "ended"
    BY <1>0, <1>11 DEF Unwind, TypeOK
  <2>. QED  BY <1>4, <1>5, <2>1 DEF JobState
<1>12. ASSUME NEW p \in {"completing", "failing"}, Finish(j, p)
       PROVE  UNCHANGED Promised!vars
  <2>1. /\ task[j] = "working" /\ task'[j] = p /\ log' = log /\ loop = j
        /\ status'[j] = IF j \in store THEN Outcome(p) ELSE status[j]
    BY <1>0, <1>12 DEF Finish, TypeOK
  <2>2. ~EndLogged(j) /\ j \in store /\ status[j] = "running"
    BY <1>0, <2>1 DEF LoopJob, JobInv, Closed, Status
  <2>3. Outcome(p) \in Terminal
    BY DEF Outcome, Terminal
  <2>. QED  BY <1>4, <1>5, <2>1, <2>2, <2>3 DEF JobState
<1>13. CASE CloseLog(j)
  <2>1. task[j] \in {"completing", "failing"} /\ task'[j] = "ended" /\ status' = status
    BY <1>0, <1>13 DEF CloseLog, TypeOK
  <2>2. ~EndLogged(j) /\ status[j] = Outcome(task[j]) /\ j \in store
    BY <1>0, <2>1 DEF LoopJob, JobInv, Closed
  <2>3. PICK f \in Terminal : f = Outcome(task[j])
    BY DEF Outcome, Terminal
  <2>4. log' = [log EXCEPT ![j] = Append(@, f)]
    BY <1>13, <2>2, <2>3 DEF CloseLog
  <2>5. EndLogged(j)'
    BY <1>0, <2>3, <2>4, AppendLog
  <2>6. JobState(j) = "running" /\ JobState(j)' = f
    BY <2>1, <2>2, <2>3, <2>5 DEF JobState
  <2>. QED  BY <1>6, <2>4, <2>6
<1>14. CASE CancelAtOnce(j)
  <2>1. /\ loop = NoOne /\ task' = task /\ j \in store /\ task[j] # "scheduled"
        /\ status[j] \notin Terminal /\ status'[j] = "cancelled"
        /\ log' = [log EXCEPT ![j] = Append(@, "cancelled")]
    BY <1>0, <1>14 DEF CancelAtOnce, Addressable, TypeOK
  <2>2. task[j] # "none" /\ status[j] = "running" /\ "cancelled" \in Terminal
    BY <1>0, <2>1 DEF JobInv, LoopJob, Status, Terminal
  <2>3. EndLogged(j)'
    BY <1>0, <2>1, <2>2, AppendLog
  <2>4. JobState(j) = "running" /\ JobState(j)' = "cancelled"
    BY <2>1, <2>2, <2>3 DEF JobState
  <2>. QED  BY <1>6, <2>1, <2>2, <2>4
<1>. QED
  BY <1>7, <1>8, <1>9, <1>10, <1>11, <1>12, <1>13, <1>14 DEF WorkerNext

\* A step of a stream is a step of a reader, or none.
LEMMA StreamImplements ==
  ASSUME LoopInv, NEW s \in Streams, StreamStep(s) \/ Drop(s) \/ \E j \in Jobs : Open(s, j)
  PROVE  Promised!Next \/ UNCHANGED Promised!vars
<1>0. /\ TypeOK /\ Placed /\ LoopStream(s) /\ seen[s] \in Nat /\ NoOne \notin Jobs
      /\ pc[s] \in Registered => on[s] \in Jobs
  BY JobStoreAssumption DEF LoopInv, LoopStreams, TypeOK, Placed
<1>1. UNCHANGED jobVars /\ log' = log
  BY StreamsTouchNoJob DEF jobVars
<1>2. JobStates' = JobStates
  BY <1>1 DEF JobStates, JobState, EndLogged, jobVars
<1>3. Reads[s] = StreamReads(s)
  BY DEF Reads
<1>4. \A u \in Streams : u # s => on'[u] = on[u] /\ pc'[u] = pc[u]
  BY <1>0, NoBackstop
  DEF StreamStep, Deliver, Close, CatchUp, Poll, PassWait, FoundUnset, Park, Wake, Drop, Open, TypeOK
<1>5. ASSUME NEW j \in Jobs, Open(s, j)
      PROVE  Promised!Next
  <2>1. /\ pc[s] \notin Registered /\ j \in store /\ task[j] # "scheduled"
        /\ pc'[s] = "drain" /\ on'[s] = j /\ seen' = [seen EXCEPT ![s] = 0]
    BY <1>0, <1>5 DEF Open, Addressable, TypeOK
  <2>2. JobStates[j] = JobState(j) /\ JobState(j) \notin {"absent", "pending"}
    <3>1. JobInv(j) /\ LoopJob(j) /\ status[j] \in Status
      BY <1>0 DEF LoopInv, ClosedInv, LoopJobs, TypeOK
    <3>2. status[j] \notin {"absent", "pending"} /\ task[j] # "none"
      BY <2>1, <3>1 DEF JobInv, LoopJob, Status, Terminal
    <3>. QED  BY <3>2 DEF JobState, JobStates
  <2>3. StreamReads(s) = NoOne /\ StreamReads(s)' = j
    BY <2>1 DEF StreamReads, Registered
  <2>4. Reads' = [Reads EXCEPT ![s] = j]
    BY <1>4, <2>3, OneReadMoves
  <2>5. Promised!Attach(s, j)
    BY <1>1, <1>2, <1>3, <2>1, <2>2, <2>3, <2>4
    DEF Promised!Attach, JobStates, JobState, Reads, StreamReads
  <2>. QED  BY <2>5 DEF Promised!Next
<1>6. CASE Deliver(s)
  <2>1. /\ pc[s] = "drain" /\ pc' = pc /\ on' = on /\ seen' = [seen EXCEPT ![s] = @ + 1]
        /\ seen[s] < Len(log[on[s]])
    BY <1>6 DEF Deliver
  <2>2. StreamReads(s) = on[s] /\ on[s] # NoOne /\ Reads' = Reads
    BY <1>0, <2>1, ReadsStay DEF StreamReads, Registered
  <2>3. Promised!Read(s)
    BY <1>1, <1>2, <1>3, <2>1, <2>2 DEF Promised!Read, JobStates, JobState, Reads, StreamReads
  <2>. QED  BY <2>3 DEF Promised!Next
<1>7. CASE Close(s)
  <2>1. /\ pc[s] = "drain" /\ pc'[s] = "closed" /\ SawEnd(s) /\ seen' = seen
    BY <1>0, <1>7 DEF Close, TypeOK
  <2>2. PICK j \in Jobs : j = on[s]
    BY <1>0, <2>1 DEF Registered
  <2>3. /\ StreamReads(s) = j /\ j # NoOne /\ StreamReads(s)' = NoOne
    BY <1>0, <2>1, <2>2 DEF StreamReads, Registered
  <2>4. Reads' = [Reads EXCEPT ![s] = NoOne]
    BY <1>4, <2>3, OneReadMoves
  <2>5. seen[s] \in DOMAIN log[j] /\ log[j][seen[s]] \in Terminal
    <3>1. log[j] \in Seq(Event) /\ seen[s] <= Len(log[j]) /\ seen[s] > 0
      BY <1>0, <2>1, <2>2 DEF SawEnd, TypeOK, LoopStream, Registered
    <3>2. DOMAIN log[j] = 1..Len(log[j]) /\ Len(log[j]) \in Nat
      BY <3>1, LenProperties
    <3>. QED  BY <1>0, <2>1, <2>2, <3>1, <3>2 DEF SawEnd
  <2>6. LoopJob(j) /\ JobInv(j)
    BY DEF LoopInv, LoopJobs, ClosedInv
  <2>7. seen[s] = Len(log[j]) /\ EndLogged(j) /\ status[j] \in Terminal /\ task[j] # "none"
    BY <2>5, <2>6 DEF LoopJob, EndsLast, EndLogged, JobInv
  <2>8. JobStates[j] \in Promised!Final
    BY <2>7 DEF JobStates, JobState, Promised!Final, Terminal
  <2>9. Promised!Release(s)
    BY <1>1, <1>2, <1>3, <2>1, <2>3, <2>4, <2>7, <2>8
    DEF Promised!Release, JobStates, JobState, Reads, StreamReads
  <2>. QED  BY <2>9 DEF Promised!Next
<1>8. CASE Drop(s)
  <2>1. pc[s] \in {"drain", "parked", "woken"} /\ pc'[s] = "out" /\ seen' = seen
    BY <1>0, <1>8 DEF Drop, TypeOK
  <2>2. StreamReads(s) # NoOne /\ StreamReads(s)' = NoOne
    BY <1>0, <2>1 DEF StreamReads, Registered
  <2>3. Reads' = [Reads EXCEPT ![s] = NoOne]
    BY <1>4, <2>2, OneReadMoves
  <2>4. Promised!HangUp(s)
    BY <1>1, <1>2, <1>3, <2>1, <2>2, <2>3 DEF Promised!HangUp, JobStates, JobState, Reads, StreamReads
  <2>. QED  BY <2>4 DEF Promised!Next
<1>9. CASE CatchUp(s) \/ Poll(s) \/ PassWait(s) \/ FoundUnset(s) \/ Park(s) \/ Wake(s)
  <2>1. on' = on /\ seen' = seen /\ pc[s] \in Registered /\ pc'[s] \in Registered
    BY <1>0, <1>9 DEF CatchUp, Poll, PassWait, FoundUnset, Park, Wake, TypeOK, Registered
  <2>2. Reads' = Reads
    BY <1>4, <2>1, ReadsStay
  <2>. QED  BY <1>1, <1>2, <2>1, <2>2 DEF Promised!vars, JobStates, JobState, Reads, StreamReads
<1>. QED
  BY <1>5, <1>6, <1>7, <1>8, <1>9, NoBackstop DEF StreamStep

\* The job store implements JobStream: a job runs to one final state, its log
\* is closed by that state, and a stream gets the log from its beginning, event
\* by event, up to the end.  Every step of worker, DELETE and subscribe() is a
\* step of JobStream or changes nothing it sees.
THEOREM ImplementsJobStream ==
  ASSUME Threads = {}
  PROVE  Spec => Promised!Spec
<1>1. Init => Promised!Init
  <2>. SUFFICES ASSUME Init
                PROVE  Promised!Init
    OBVIOUS
  <2>1. /\ \A j \in Jobs : JobState(j) = "absent"
        /\ \A s \in Streams : StreamReads(s) = NoOne
        /\ log = [j \in Jobs |-> <<>>] /\ seen = [s \in Streams |-> 0]
    BY DEF Init, JobState, StreamReads, Registered
  <2>2. JobStates = [j \in Jobs |-> "absent"] /\ Reads = [s \in Streams |-> NoOne]
    BY <2>1 DEF JobStates, Reads
  <2>. QED  BY <2>1, <2>2 DEF Promised!Init, JobStates, JobState, Reads, StreamReads
<1>2. LoopInv /\ [Next]_vars => [Promised!Next]_Promised!vars
  <2>. SUFFICES ASSUME LoopInv, [Next]_vars
                PROVE  Promised!Next \/ UNCHANGED Promised!vars
    OBVIOUS
  <2>1. CASE UNCHANGED vars
    <3>1. JobStates' = JobStates /\ Reads' = Reads /\ log' = log /\ seen' = seen
      BY <2>1 DEF vars, jobVars, streamVars, JobStates, JobState, EndLogged, Reads, StreamReads
    <3>. QED  BY <3>1 DEF Promised!vars, JobStates, JobState, Reads, StreamReads
  <2>. QED  BY <2>1, WorkerImplements, StreamImplements DEF Next
<1>. QED  BY <1>1, <1>2, LoopAlways, PTL DEF Spec, Promised!Spec

=============================================================================
