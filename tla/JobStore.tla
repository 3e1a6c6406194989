------------------------------ MODULE JobStore ------------------------------
(***************************************************************************)
(* The in-memory job store of the backend (src/backend/app/job_store.py)   *)
(* with its three kinds of users:                                          *)
(*                                                                         *)
(*   - worker coroutines (submit), which publish progress events and end   *)
(*     the job;                                                            *)
(*   - SSE streams (subscribe), which replay the event log and then wait   *)
(*     on an asyncio.Event of their own;                                   *)
(*   - DELETE /ai/jobs/{id} (ai/routes.py, cancel_review_job).  It is a    *)
(*     plain "def" endpoint, so it runs in a thread of the server's pool   *)
(*     while the event loop keeps running workers and streams.             *)
(*                                                                         *)
(* Workers and streams run on one event loop: `loop' names the coroutine   *)
(* that is in the middle of a step, and a coroutine gives the loop up only *)
(* at an await or a yield.  The threads of Threads interleave with the     *)
(* loop between any two of the steps below; with Threads = {} every DELETE *)
(* runs without a thread switch in the middle (CancelAtOnce).              *)
(***************************************************************************)
EXTENDS Naturals, Sequences, SequencesExt

CONSTANTS
  Jobs,       \* the job ids submit() can hand out
  Streams,    \* SSE connections
  Threads,    \* pool threads whose DELETE handlers interleave with the loop
  MaxEvents,  \* bound on the length of a job's event log a worker may reach
  NoOne       \* nobody is in the middle of a step / no job

ASSUME JobStoreAssumption ==
  /\ MaxEvents \in Nat
  /\ NoOne \notin Jobs \cup Streams
  /\ Jobs \cap Streams = {}

VARIABLES
  store,      \* JobStore._jobs: the ids that get() finds
  status,     \* Job.status
  log,        \* Job.events: "progress", or the status that a stream_end carries
  task,       \* where the worker coroutine (_wrap) of the job is
  cancelReq,  \* task.cancel() was called and CancelledError is not raised yet
  stale,      \* jobs whose completed_at is more than the TTL ago
  loop,       \* the coroutine in the middle of a step
  listeners,  \* Job._subscribers: the list of registered notify events
  pc,         \* where a stream's subscribe() generator is
  on,         \* the job a stream reads
  seen,       \* events already yielded to the stream
  flag,       \* the stream's asyncio.Event is set
  tpc,        \* where a DELETE handler is
  tjob,       \* the job it cancels
  tidx        \* how many listeners its wake-up loop has visited

jobVars    == <<store, status, log, task, cancelReq, stale>>
streamVars == <<listeners, pc, on, seen, flag>>
threadVars == <<tpc, tjob, tidx>>
vars       == <<jobVars, loop, streamVars, threadVars>>

Terminal == {"completed", "failed", "cancelled"}
Status   == {"pending", "running"} \cup Terminal
Event    == {"progress"} \cup Terminal

\* Positions of a generator that is registered as a listener.
Registered == {"drain", "caughtUp", "polling", "parking", "parked", "woken"}

\* What jobs, the event loop, streams and DELETE threads may hold.
TypeOK ==
  /\ store \subseteq Jobs
  /\ status \in [Jobs -> Status]
  /\ log \in [Jobs -> Seq(Event)]
  /\ task \in [Jobs -> {"none", "scheduled", "working", "completing", "failing", "ended"}]
  /\ cancelReq \in [Jobs -> BOOLEAN]
  /\ stale \subseteq Jobs
  /\ loop \in {NoOne} \cup Jobs \cup Streams
  /\ listeners \in [Jobs -> Seq(Streams)]
  /\ pc \in [Streams -> {"out", "closed", "cutoff"} \cup Registered]
  /\ on \in [Streams -> Jobs \cup {NoOne}]
  /\ seen \in [Streams -> Nat]
  /\ flag \in [Streams -> BOOLEAN]
  /\ tpc \in [Threads -> {"idle", "checked", "flipped", "waking", "stopping"}]
  /\ tjob \in [Threads -> Jobs \cup {NoOne}]
  /\ tidx \in [Threads -> Nat]

Init ==
  /\ store = {}
  /\ status = [j \in Jobs |-> "pending"]
  /\ log = [j \in Jobs |-> <<>>]
  /\ task = [j \in Jobs |-> "none"]
  /\ cancelReq = [j \in Jobs |-> FALSE]
  /\ stale = {}
  /\ loop = NoOne
  /\ listeners = [j \in Jobs |-> <<>>]
  /\ pc = [s \in Streams |-> "out"]
  /\ on = [s \in Streams |-> NoOne]
  /\ seen = [s \in Streams |-> 0]
  /\ flag = [s \in Streams |-> FALSE]
  /\ tpc = [t \in Threads |-> "idle"]
  /\ tjob = [t \in Threads |-> NoOne]
  /\ tidx = [t \in Threads |-> 0]

-----------------------------------------------------------------------------
(* Helpers                                                                 *)

\* A stream_end is in the log of job j.
EndLogged(j) == \E i \in DOMAIN log[j] : log[j][i] \in Terminal

\* The last event yielded to stream s was a stream_end.
SawEnd(s) == seen[s] > 0 /\ log[on[s]][seen[s]] \in Terminal

\* asyncio.Event.set() on the notify events of the streams in W: an unset
\* event becomes set and its waiting coroutine, if there is one, is woken; a
\* set event is left alone.
SetEvents(W) ==
  /\ flag' = [s \in Streams |-> flag[s] \/ s \in W]
  /\ pc' = [s \in Streams |->
              IF s \in W /\ ~flag[s] /\ pc[s] = "parked" THEN "woken" ELSE pc[s]]

\* Mutant of WakeAll: only the stream that came first is woken.
WakeAll_First(j) == SetEvents({s \in Streams : Len(listeners[j]) > 0 /\ listeners[j][1] = s})

\* _wake_subscribers in one go (nothing else mutates the list meanwhile).
WakeAll(j) == SetEvents({s \in Streams : \E i \in DOMAIN listeners[j] : listeners[j][i] = s})

\* Mutant of Outcome: the worker's position is taken for a status.
Outcome_Raw(position) == position

\* The status a worker at this position of its last update() passes to it.
Outcome(position) == IF position = "completing" THEN "completed" ELSE "failed"

\* Clients name a job once submit() returned its id, which is after the event
\* loop started the worker's first step.
Addressable(j) == j \in store /\ task[j] # "scheduled"

\* The event loop is free to resume c, or c is the coroutine it is running.
MayRun(c) == loop \in {NoOne, c}

-----------------------------------------------------------------------------
(* Workers                                                                 *)

\* submit(): create() drops the expired jobs and adds the new one, and
\* create_task schedules the worker.
Submit(j) ==
  /\ loop = NoOne
  /\ task[j] = "none"
  /\ store' = (store \ stale) \cup {j}
  /\ task' = [task EXCEPT ![j] = "scheduled"]
  /\ UNCHANGED <<status, log, cancelReq, stale, loop, streamVars, threadVars>>

\* _wrap starts: update(RUNNING), then the worker function runs up to its
\* first await.
Begin(j) ==
  /\ loop = NoOne
  /\ task[j] = "scheduled"
  /\ status' = [status EXCEPT ![j] = IF j \in store THEN "running" ELSE @]
  /\ task' = [task EXCEPT ![j] = "working"]
  /\ loop' = j
  /\ UNCHANGED <<store, log, cancelReq, stale, streamVars, threadVars>>

\* publish_event: append to the log and wake every listener; nothing when the
\* store no longer has the job.
Publish(j) ==
  /\ loop = j
  /\ task[j] = "working"
  /\ Len(log[j]) < MaxEvents
  /\ IF j \in store
     THEN log' = [log EXCEPT ![j] = Append(@, "progress")] /\ WakeAll(j)
     ELSE UNCHANGED <<log, flag, pc>>
  /\ UNCHANGED <<store, status, task, cancelReq, stale, loop,
                 listeners, on, seen, threadVars>>

\* The worker awaits (an LLM call, the rate-limit sleep).
Suspend(j) ==
  /\ loop = j
  /\ task[j] = "working"
  /\ loop' = NoOne
  /\ UNCHANGED <<jobVars, streamVars, threadVars>>

\* Mutant of Resume: the worker swallows CancelledError and goes on.
Resume_Swallow(j) ==
  /\ loop = NoOne
  /\ task[j] = "working"
  /\ loop' = j
  /\ UNCHANGED <<jobVars, streamVars, threadVars>>

\* Mutant of Resume: the status is set to running after every await.
Resume_MarkRunning(j) ==
  /\ loop = NoOne
  /\ task[j] = "working"
  /\ ~cancelReq[j]
  /\ loop' = j
  /\ status' = [status EXCEPT ![j] = "running"]
  /\ UNCHANGED <<store, log, task, cancelReq, stale, streamVars, threadVars>>

\* The awaited call is done.
Resume(j) ==
  /\ loop = NoOne
  /\ task[j] = "working"
  /\ ~cancelReq[j]
  /\ loop' = j
  /\ UNCHANGED <<jobVars, streamVars, threadVars>>

\* CancelledError is raised at the await and leaves _wrap; no update() here,
\* cancel() made it already.
Unwind(j) ==
  /\ loop = NoOne
  /\ task[j] = "working"
  /\ cancelReq[j]
  /\ task' = [task EXCEPT ![j] = "ended"]
  /\ UNCHANGED <<store, status, log, cancelReq, stale, loop, streamVars, threadVars>>

\* The worker returned (COMPLETED) or raised (FAILED): update() writes the
\* status ...
Finish(j, position) ==
  /\ loop = j
  /\ task[j] = "working"
  /\ task' = [task EXCEPT ![j] = position]
  /\ status' = [status EXCEPT ![j] = IF j \in store THEN Outcome(position) ELSE @]
  /\ UNCHANGED <<store, log, cancelReq, stale, loop, streamVars, threadVars>>

\* Mutant of CloseLog: no _wake_subscribers after stream_end.
CloseLog_Silent(j) ==
  /\ loop = j
  /\ task[j] \in {"completing", "failing"}
  /\ log' = [log EXCEPT ![j] = IF j \in store THEN Append(@, Outcome(task[j])) ELSE @]
  /\ task' = [task EXCEPT ![j] = "ended"]
  /\ loop' = NoOne
  /\ UNCHANGED <<store, status, cancelReq, stale, streamVars, threadVars>>

\* ... then appends stream_end and wakes the listeners; the task is done.
CloseLog(j) ==
  /\ loop = j
  /\ task[j] \in {"completing", "failing"}
  /\ IF j \in store
     THEN log' = [log EXCEPT ![j] = Append(@, Outcome(task[j]))] /\ WakeAll(j)
     ELSE UNCHANGED <<log, flag, pc>>
  /\ task' = [task EXCEPT ![j] = "ended"]
  /\ loop' = NoOne
  /\ UNCHANGED <<store, status, cancelReq, stale, listeners, on, seen, threadVars>>

\* The TTL of a job with a completed_at runs out; the next create() drops it.
Expire(j) ==
  /\ j \in store \ stale
  /\ EndLogged(j)
  /\ stale' = stale \cup {j}
  /\ UNCHANGED <<store, status, log, task, cancelReq, loop, streamVars, threadVars>>

-----------------------------------------------------------------------------
(* DELETE /ai/jobs/{id}: refuse an unknown or finished job, else cancel() it *)

\* Mutant of CancelAtOnce: the status is written and no stream_end appended.
CancelAtOnce_NoEnd(j) ==
  /\ loop = NoOne
  /\ Addressable(j)
  /\ status[j] \notin Terminal
  /\ status' = [status EXCEPT ![j] = "cancelled"]
  /\ WakeAll(j)
  /\ cancelReq' = [cancelReq EXCEPT ![j] = task[j] # "ended"]
  /\ UNCHANGED <<store, log, task, stale, loop, listeners, on, seen, threadVars>>

\* Mutant of CancelAtOnce: a finished job is not refused.
CancelAtOnce_AnyStatus(j) ==
  /\ loop = NoOne
  /\ Addressable(j)
  /\ Len(log[j]) <= MaxEvents
  /\ status' = [status EXCEPT ![j] = "cancelled"]
  /\ log' = [log EXCEPT ![j] = Append(@, "cancelled")]
  /\ WakeAll(j)
  /\ cancelReq' = [cancelReq EXCEPT ![j] = task[j] # "ended"]
  /\ UNCHANGED <<store, task, stale, loop, listeners, on, seen, threadVars>>

\* The whole handler without a thread switch.
CancelAtOnce(j) ==
  /\ loop = NoOne
  /\ Addressable(j)
  /\ status[j] \notin Terminal
  /\ status' = [status EXCEPT ![j] = "cancelled"]
  /\ log' = [log EXCEPT ![j] = Append(@, "cancelled")]
  /\ WakeAll(j)
  /\ cancelReq' = [cancelReq EXCEPT ![j] = task[j] # "ended"]
  /\ UNCHANGED <<store, task, stale, loop, listeners, on, seen, threadVars>>

\* Mutant of ThreadCheck: the task is cancelled without update().
ThreadCheck_NoUpdate(t, j) ==
  /\ tpc[t] = "idle"
  /\ Addressable(j)
  /\ status[j] \notin Terminal
  /\ tpc' = [tpc EXCEPT ![t] = "stopping"]
  /\ tjob' = [tjob EXCEPT ![t] = j]
  /\ UNCHANGED <<jobVars, loop, streamVars, tidx>>

\* The same handler, step by step.  The route and cancel() both test the
\* status; cancel() has the last word.
ThreadCheck(t, j) ==
  /\ tpc[t] = "idle"
  /\ Addressable(j)
  /\ status[j] \notin Terminal
  /\ tpc' = [tpc EXCEPT ![t] = "checked"]
  /\ tjob' = [tjob EXCEPT ![t] = j]
  /\ UNCHANGED <<jobVars, loop, streamVars, tidx>>

\* update(CANCELLED) writes the status, whatever it is by now.  Looking the job
\* up again, it does nothing when the store dropped it.
ThreadFlip(t) ==
  /\ tpc[t] = "checked"
  /\ IF tjob[t] \in store
     THEN /\ status' = [status EXCEPT ![tjob[t]] = "cancelled"]
          /\ tpc' = [tpc EXCEPT ![t] = "flipped"]
     ELSE /\ tpc' = [tpc EXCEPT ![t] = "stopping"]
          /\ UNCHANGED status
  /\ UNCHANGED <<store, log, task, cancelReq, stale, loop, streamVars, tjob, tidx>>

\* ... appends stream_end ...
ThreadAppend(t) ==
  /\ tpc[t] = "flipped"
  /\ log' = [log EXCEPT ![tjob[t]] = Append(@, "cancelled")]
  /\ tpc' = [tpc EXCEPT ![t] = "waking"]
  /\ tidx' = [tidx EXCEPT ![t] = 0]
  /\ UNCHANGED <<store, status, task, cancelReq, stale, loop, streamVars, tjob>>

\* ... and iterates over the listener list by index while streams leave it.
ThreadWake(t) ==
  /\ tpc[t] = "waking"
  /\ tidx[t] < Len(listeners[tjob[t]])
  /\ SetEvents({listeners[tjob[t]][tidx[t] + 1]})
  /\ tidx' = [tidx EXCEPT ![t] = @ + 1]
  /\ UNCHANGED <<jobVars, loop, listeners, on, seen, tpc, tjob>>

ThreadWakeDone(t) ==
  /\ tpc[t] = "waking"
  /\ tidx[t] >= Len(listeners[tjob[t]])
  /\ tpc' = [tpc EXCEPT ![t] = "stopping"]
  /\ UNCHANGED <<jobVars, loop, streamVars, tjob, tidx>>

\* Mutant of ThreadStop: the status says cancelled and the task goes on.
ThreadStop_LetRun(t) ==
  /\ tpc[t] = "stopping"
  /\ tpc' = [tpc EXCEPT ![t] = "idle"]
  /\ tjob' = [tjob EXCEPT ![t] = NoOne]
  /\ UNCHANGED <<jobVars, loop, streamVars, tidx>>

\* job._task.cancel(), unless the task is done.
ThreadStop(t) ==
  /\ tpc[t] = "stopping"
  /\ cancelReq' = [cancelReq EXCEPT ![tjob[t]] = @ \/ task[tjob[t]] # "ended"]
  /\ tpc' = [tpc EXCEPT ![t] = "idle"]
  /\ tjob' = [tjob EXCEPT ![t] = NoOne]
  /\ UNCHANGED <<store, status, log, task, stale, loop, streamVars, tidx>>

-----------------------------------------------------------------------------
(* SSE streams: subscribe()                                                *)

\* Mutant of Unregister: the finally clause is missing.
Unregister_Leak(s) == UNCHANGED listeners

\* The list without its entry for stream s (list.remove in the finally).
Unregister(s) ==
  \E i \in DOMAIN listeners[on[s]] :
    /\ listeners[on[s]][i] = s
    /\ listeners' = [listeners EXCEPT ![on[s]] = RemoveAt(@, i)]

\* Mutant of Open: a late stream starts at the end of the log.
Open_NoReplay(s, j) ==
  /\ loop = NoOne
  /\ pc[s] \notin Registered
  /\ Addressable(j)
  /\ listeners' = [listeners EXCEPT ![j] = Append(@, s)]
  /\ pc' = [pc EXCEPT ![s] = "drain"]
  /\ on' = [on EXCEPT ![s] = j]
  /\ seen' = [seen EXCEPT ![s] = Len(log[j])]
  /\ flag' = [flag EXCEPT ![s] = FALSE]
  /\ UNCHANGED <<jobVars, loop, threadVars>>

\* A client opens the stream of a job, or opens it again: the generator
\* registers a fresh event and starts from the first entry of the log.
Open(s, j) ==
  /\ loop = NoOne
  /\ pc[s] \notin Registered
  /\ Addressable(j)
  /\ listeners' = [listeners EXCEPT ![j] = Append(@, s)]
  /\ pc' = [pc EXCEPT ![s] = "drain"]
  /\ on' = [on EXCEPT ![s] = j]
  /\ seen' = [seen EXCEPT ![s] = 0]
  /\ flag' = [flag EXCEPT ![s] = FALSE]
  /\ UNCHANGED <<jobVars, loop, threadVars>>

\* The next event is yielded; the generator is suspended while it is sent.
Deliver(s) ==
  /\ MayRun(s)
  /\ pc[s] = "drain"
  /\ ~SawEnd(s)
  /\ seen[s] < Len(log[on[s]])
  /\ seen' = [seen EXCEPT ![s] = @ + 1]
  /\ loop' = NoOne
  /\ UNCHANGED <<jobVars, listeners, pc, on, flag, threadVars>>

\* After stream_end the generator returns.
Close(s) ==
  /\ MayRun(s)
  /\ pc[s] = "drain"
  /\ SawEnd(s)
  /\ Unregister(s)
  /\ pc' = [pc EXCEPT ![s] = "closed"]
  /\ loop' = NoOne
  /\ UNCHANGED <<jobVars, on, seen, flag, threadVars>>

\* No event is left; the status is read next.
CatchUp(s) ==
  /\ MayRun(s)
  /\ pc[s] = "drain"
  /\ ~SawEnd(s)
  /\ seen[s] = Len(log[on[s]])
  /\ pc' = [pc EXCEPT ![s] = "caughtUp"]
  /\ loop' = s
  /\ UNCHANGED <<jobVars, listeners, on, seen, flag, threadVars>>

\* The backstop: terminal without a stream_end in the log.
Backstop(s) ==
  /\ loop = s
  /\ pc[s] = "caughtUp"
  /\ status[on[s]] \in Terminal
  /\ Unregister(s)
  /\ pc' = [pc EXCEPT ![s] = "cutoff"]
  /\ loop' = NoOne
  /\ UNCHANGED <<jobVars, on, seen, flag, threadVars>>

Poll(s) ==
  /\ loop = s
  /\ pc[s] = "caughtUp"
  /\ status[on[s]] \notin Terminal
  /\ pc' = [pc EXCEPT ![s] = "polling"]
  /\ UNCHANGED <<jobVars, loop, listeners, on, seen, flag, threadVars>>

\* Event.wait() of a set event returns without suspending; clear() follows.
PassWait(s) ==
  /\ loop = s
  /\ pc[s] = "polling"
  /\ flag[s]
  /\ flag' = [flag EXCEPT ![s] = FALSE]
  /\ pc' = [pc EXCEPT ![s] = "drain"]
  /\ UNCHANGED <<jobVars, loop, listeners, on, seen, threadVars>>

\* Event.wait() of an unset event reads the flag, then enqueues its waiter.
FoundUnset(s) ==
  /\ loop = s
  /\ pc[s] = "polling"
  /\ ~flag[s]
  /\ pc' = [pc EXCEPT ![s] = "parking"]
  /\ UNCHANGED <<jobVars, loop, listeners, on, seen, flag, threadVars>>

Park(s) ==
  /\ loop = s
  /\ pc[s] = "parking"
  /\ pc' = [pc EXCEPT ![s] = "parked"]
  /\ loop' = NoOne
  /\ UNCHANGED <<jobVars, listeners, on, seen, flag, threadVars>>

\* The event was set: wait() returns, clear() follows.
Wake(s) ==
  /\ loop = NoOne
  /\ pc[s] = "woken"
  /\ flag' = [flag EXCEPT ![s] = FALSE]
  /\ pc' = [pc EXCEPT ![s] = "drain"]
  /\ loop' = s
  /\ UNCHANGED <<jobVars, listeners, on, seen, threadVars>>

\* The client disconnects while the generator is suspended; its finally
\* removes the listener.
Drop(s) ==
  /\ loop = NoOne
  /\ pc[s] \in {"drain", "parked", "woken"}
  /\ Unregister(s)
  /\ pc' = [pc EXCEPT ![s] = "out"]
  /\ UNCHANGED <<jobVars, loop, on, seen, flag, threadVars>>

-----------------------------------------------------------------------------
WorkerNext(j) ==
  \/ Submit(j) \/ Begin(j) \/ Publish(j) \/ Suspend(j) \/ Resume(j) \/ Unwind(j)
  \/ Finish(j, "completing") \/ Finish(j, "failing") \/ CloseLog(j) \/ Expire(j)

ThreadStep(t) ==
  ThreadFlip(t) \/ ThreadAppend(t) \/ ThreadWake(t) \/ ThreadWakeDone(t) \/ ThreadStop(t)

\* The steps of an open stream that need nothing from its client.
StreamStep(s) ==
  \/ Deliver(s) \/ Close(s) \/ CatchUp(s) \/ Backstop(s) \/ Poll(s)
  \/ PassWait(s) \/ FoundUnset(s) \/ Park(s) \/ Wake(s)

Next ==
  \/ \E j \in Jobs : WorkerNext(j) \/ CancelAtOnce(j)
  \/ \E t \in Threads : ThreadStep(t) \/ \E j \in Jobs : ThreadCheck(t, j)
  \/ \E s \in Streams : StreamStep(s) \/ Drop(s) \/ \E j \in Jobs : Open(s, j)

Spec == Init /\ [][Next]_vars

\* The event loop runs its ready callbacks first in, first out, so a coroutine
\* that is ready again and again gets its turn (SF), and a step that was begun
\* is ended (WF).  The operating system schedules every thread.
LoopFairness ==
  /\ \A j \in Jobs : /\ SF_vars(Begin(j)) /\ SF_vars(Unwind(j))
                     /\ WF_vars(Suspend(j) \/ CloseLog(j))
  /\ \A s \in Streams : SF_vars(StreamStep(s))
  /\ \A t \in Threads : WF_vars(ThreadStep(t))

\* A worker is a finite program: if its calls come back, it returns or raises.
WorkersFinish ==
  \A j \in Jobs : /\ SF_vars(Resume(j))
                 /\ SF_vars(Finish(j, "completing") \/ Finish(j, "failing"))

FairSpec == Spec /\ LoopFairness /\ WorkersFinish

\* An awaited LLM call may hang for ever.
HangingSpec == Spec /\ LoopFairness

-----------------------------------------------------------------------------
(* Properties with interleaved DELETE threads, or without                  *)

\* A worker that is done leaves a job that every poller and every stream sees
\* as finished: its status is terminal and its log holds a stream_end.  The
\* worker that is cancelled makes no update() of its own and relies on the
\* DELETE thread having made it before task.cancel() (job_store.py:164-168).
EndedJobIsClosed ==
  \A j \in Jobs : task[j] = "ended" => status[j] \in Terminal /\ EndLogged(j)

\* The list of listeners holds exactly the streams that are registered, each
\* once: no disconnect or end leaks a notify event, no open stream is missing
\* from the list the wake-ups iterate over (subscribe's finally clause).
ListenersAreStreams ==
  \A j \in Jobs :
    /\ ToSet(listeners[j]) = {s \in Streams : pc[s] \in Registered /\ on[s] = j}
    /\ IsInjective(listeners[j])

\* What one step may do to the status and the log of a job.
StaysClosed ==
  \A j \in Jobs : /\ status[j] \in Terminal => status'[j] \in Terminal
                  /\ IsPrefix(log[j], log'[j])

\* A finished job stays finished, whichever of worker and DELETE comes last:
\* the status never goes back to a live one, nor does the log shrink.
ClosedStaysClosed == [][StaysClosed]_vars

\* A DELETE that went past its checks ends the worker even when the call the
\* worker awaits never comes back (job._task.cancel() reaches the await).
CancelEndsWorker ==
  \A t \in Threads, j \in Jobs : tpc[t] = "checked" /\ tjob[t] = j ~> task[j] = "ended"

-----------------------------------------------------------------------------
(* Properties that need DELETE to run without a thread switch              *)

\* stream_end is the last entry of the log, there is one, and it carries the
\* status a poller reads: stream and poll agree on how the job ended
\* (test_job_store.py:162, "stream_end is always last").
StreamEndIsLast ==
  \A j \in Jobs : \A i \in DOMAIN log[j] :
    log[j][i] \in Terminal => i = Len(log[j]) /\ log[j][i] = status[j]

\* Between two steps of the loop, a stream that waits has been sent the whole
\* log of a job that is not over: "the SSE generator wakes up exactly when
\* there is new data" (job_store.py:9-10).
NoMissedWake ==
  \A s \in Streams : loop = NoOne /\ pc[s] = "parked" =>
    seen[s] = Len(log[on[s]]) /\ status[on[s]] \notin Terminal

\* The backstop of subscribe() is never taken: "status went terminal but no
\* stream_end was emitted (should not happen in practice; defensive only)"
\* (job_store.py:211-212).
BackstopUnused == \A s \in Streams : pc[s] # "cutoff"

\* cancel() cancels a job only when it "was not already in a terminal state"
\* (job_store.py:154-155): a terminal status is the last one a job gets.
TerminalIsFinal ==
  [][\A j \in Jobs : status[j] \in Terminal => status'[j] = status[j]]_vars

\* Every stream is told everything, and only in the ways the module's comments
\* promise: log and status agree on the end, the listeners are the streams, a
\* waiting stream has seen it all and none is cut off without a stream_end
\* (job_store.py:9-10, 211-212; test_job_store.py:162).
StreamsAreServed == StreamEndIsLast /\ ListenersAreStreams /\ NoMissedWake /\ BackstopUnused

\* Once its job is over, a stream comes to its end (or its client left): part of
\* what JobStream promises.
StreamsEnd ==
  \A s \in Streams : pc[s] \in Registered /\ status[on[s]] \in Terminal
                       ~> pc[s] \notin Registered

=============================================================================
