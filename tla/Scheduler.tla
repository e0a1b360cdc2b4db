------------------------------ MODULE Scheduler ------------------------------
(***************************************************************************)
(* CScheduler and SingleThreadedSchedulerClient (scheduler.cpp), through   *)
(* which every notification of validation goes, with the threads that add  *)
(* callbacks or wait for them (validationinterface.cpp) and the shutdown   *)
(* that stops the scheduler and runs what is left (init.cpp).              *)
(* A step is what an agent does under one acquisition of newTaskMutex or   *)
(* of m_cs_callbacks_pending.  Time is what has come: a task of taskQueue  *)
(* is due or not, and the tasks that are due come first.                   *)
(***************************************************************************)
EXTENDS Naturals, Sequences

CONSTANTS Thread,    \* threads in serviceQueue
          Adder,     \* threads that add callbacks
          Importer,  \* those of them that threadGroup joins (ThreadImport)
          Main,      \* the thread that runs PrepareShutdown
          Timer,     \* functions given to scheduleEvery
          Limit,     \* the 10 callbacks LimitValidationInterfaceQueue lets wait
          MaxAdds,   \* callbacks added in all (a bound)
          None       \* no timer; for a thread that waits, a time that has come

ASSUME SchedulerAssumption ==
    /\ Importer \subseteq Adder
    /\ Thread \cap Adder = {}
    /\ Main \notin Thread \cup Adder
    /\ None \notin Timer /\ "queue" \notin Timer
    /\ Limit \in Nat
    /\ MaxAdds \in Nat

VARIABLES due,       \* taskQueue, the part whose time has come
          later,     \* taskQueue, the rest
          stopping,  \* "stop" for stopRequested, "drain" for stopWhenEmpty
          pending,   \* m_callbacks_pending; a callback is its number
          flag,      \* m_are_callbacks_running, "set" or "clear"
          added,     \* callbacks added so far
          agent      \* where each thread stands

vars == <<due, later, stopping, pending, flag, added, agent>>
queueVars  == <<due, later>>
clientVars == <<pending, flag, added>>

Agent == Thread \cup Adder \cup {Main}

-----------------------------------------------------------------------------
(* newTaskScheduled, the condition variable of CScheduler. *)

Waiting(A) == {t \in Thread : A[t].pc \in {"empty", "timed"}}

\* Who waits on an empty queue looks at it again under the lock, and so does
\* who waits for the time of the first task, unless that time has come:
\* wait_until then returns as from a timeout.
Wake(A, T) ==
    [b \in Agent |-> IF b \notin T THEN A[b]
                     ELSE [A[b] EXCEPT !.pc = CASE @ = "empty"          -> "seed"
                                                [] A[b].timer # None    -> "top"
                                                [] OTHER                -> @]]

NotifyOne(A) ==
    IF Waiting(A) = {} THEN agent' = A ELSE \E t \in Waiting(A) : agent' = Wake(A, {t})

\* Where a goes on after schedule or MaybeScheduleProcessQueue.
Return(a) ==
    CASE a \in Thread -> "top"
      [] a \in Adder  -> IF agent[a].id = 0 THEN "idle" ELSE "wait"
      [] OTHER        -> IF stopping = "no" THEN "up" ELSE "flush"

Goto(a, l) == agent' = [agent EXCEPT ![a].pc = l]

-----------------------------------------------------------------------------
(* serviceQueue. *)

Empty == due = <<>> /\ later = <<>>

\* Mutant: stopWhenEmpty stops the threads at once.
ShouldStopAlways == stopping # "no"

ShouldStop == stopping = "stop" \/ (stopping = "drain" /\ Empty)

\* From the head of the loop to the next release of newTaskMutex: the thread
\* ends, or sleeps while the queue is empty, or waits for the first task.
Enter(t, sleep) ==
    \/ ShouldStop /\ NotifyOne([agent EXCEPT ![t].pc = "off"])
    \/ ~ShouldStop /\ Empty /\ Goto(t, sleep)
    \/ /\ ~ShouldStop
       /\ ~Empty
       /\ agent' = [agent EXCEPT ![t].pc = "timed",
                                 ![t].timer = IF due # <<>> THEN None ELSE Head(later)]

LoopTop(t) ==
    /\ agent[t].pc = "top"
    /\ Enter(t, "seed")
    /\ UNCHANGED <<queueVars, stopping, clientVars>>

\* Mutant: the queue is not looked at again before the wait.
WaitWithoutCheck(t) ==
    /\ agent[t].pc = "seed"
    /\ Goto(t, "empty")
    /\ UNCHANGED <<queueVars, stopping, clientVars>>

\* After RandAddSeedSleep, which released the lock, and after a wait.
WaitForTask(t) ==
    /\ agent[t].pc = "seed"
    /\ Enter(t, "empty")
    /\ UNCHANGED <<queueVars, stopping, clientVars>>

\* The time a thread waited for has come: the first task is taken, whichever
\* it is by now.
TakeTask(t) ==
    LET first == IF due # <<>> THEN Head(due) ELSE Head(later)
    IN  /\ agent[t].pc = "timed"
        /\ agent[t].timer = None
        /\ \/ (ShouldStop \/ Empty) /\ Enter(t, "seed") /\ UNCHANGED queueVars
           \/ /\ ~ShouldStop
              /\ ~Empty
              /\ IF due # <<>> THEN due' = Tail(due) /\ later' = later
                               ELSE due' = due /\ later' = Tail(later)
              /\ agent' = IF first = "queue"
                            THEN [agent EXCEPT ![t].pc = "process"]
                            ELSE [agent EXCEPT ![t].pc = "repeat", ![t].timer = first]
        /\ UNCHANGED <<stopping, clientVars>>

\* A wait may end for no reason.
SpuriousWakeup(t) ==
    /\ t \in Waiting(agent)
    /\ agent' = Wake(agent, {t})
    /\ UNCHANGED <<queueVars, stopping, clientVars>>

\* The time of the first task that was not due comes.
Tick ==
    /\ later # <<>>
    /\ due' = Append(due, Head(later))
    /\ later' = Tail(later)
    /\ agent' = [b \in Agent |-> IF agent[b].pc = "timed" /\ agent[b].timer = Head(later)
                                   THEN [agent[b] EXCEPT !.timer = None] ELSE agent[b]]
    /\ UNCHANGED <<stopping, clientVars>>

-----------------------------------------------------------------------------
(* schedule, scheduleFromNow and scheduleEvery. *)

\* A task for a later time goes between the others according to its time.
InsertLater(x) ==
    \E i \in 0 .. Len(later) :
        later' = SubSeq(later, 1, i) \o <<x>> \o SubSeq(later, i + 1, Len(later))

NewTask(a) ==
    /\ agent[a].pc = "notify"
    /\ NotifyOne([agent EXCEPT ![a].pc = Return(a)])
    /\ UNCHANGED <<queueVars, stopping, clientVars>>

\* The function of a timer has run and schedules itself again.
Repeat(t) ==
    /\ agent[t].pc = "repeat"
    /\ InsertLater(agent[t].timer)
    /\ agent' = [agent EXCEPT ![t].pc = "notify", ![t].timer = None]
    /\ UNCHANGED <<due, stopping, clientVars>>

Scheduled(x) ==
    \/ \E i \in DOMAIN due : due[i] = x
    \/ \E i \in DOMAIN later : later[i] = x
    \/ \E t \in Thread : agent[t].pc = "repeat" /\ agent[t].timer = x

ScheduleEvery(x) ==
    /\ agent[Main].pc = "up"
    /\ ~Scheduled(x)
    /\ InsertLater(x)
    /\ Goto(Main, "notify")
    /\ UNCHANGED <<due, stopping, clientVars>>

-----------------------------------------------------------------------------
(* SingleThreadedSchedulerClient. *)

\* Mutant: a callback is scheduled only when the queue was empty, as the one
\* that runs would schedule the next.
MaybeScheduleOnlyFirst(a) ==
    /\ agent[a].pc = "check"
    /\ Goto(a, IF flag = "set" \/ Len(pending) # 1 THEN Return(a) ELSE "schedule")
    /\ UNCHANGED <<queueVars, stopping, clientVars>>

MaybeScheduleProcessQueue(a) ==
    /\ agent[a].pc = "check"
    /\ Goto(a, IF flag = "set" \/ pending = <<>> THEN Return(a) ELSE "schedule")
    /\ UNCHANGED <<queueVars, stopping, clientVars>>

ScheduleProcessQueue(a) ==
    /\ agent[a].pc = "schedule"
    /\ due' = Append(due, "queue")
    /\ Goto(a, "notify")
    /\ UNCHANGED <<later, stopping, clientVars>>

\* Mutant: without the first test of m_are_callbacks_running.
ProcessQueueAlways(a) ==
    /\ agent[a].pc = "process"
    /\ IF pending = <<>>
         THEN Goto(a, Return(a)) /\ UNCHANGED <<pending, flag>>
         ELSE /\ flag' = "set"
              /\ pending' = Tail(pending)
              /\ agent' = [agent EXCEPT ![a].pc = "call", ![a].id = Head(pending)]
    /\ UNCHANGED <<queueVars, stopping, added>>

ProcessQueue(a) ==
    /\ agent[a].pc = "process"
    /\ IF flag = "set" \/ pending = <<>>
         THEN Goto(a, Return(a)) /\ UNCHANGED <<pending, flag>>
         ELSE /\ flag' = "set"
              /\ pending' = Tail(pending)
              /\ agent' = [agent EXCEPT ![a].pc = "call", ![a].id = Head(pending)]
    /\ UNCHANGED <<queueVars, stopping, added>>

\* The callback returns, and RAIICallbacksRunning is destroyed.
CallbackReturns(a) ==
    /\ agent[a].pc = "call"
    /\ flag' = "clear"
    /\ agent' = [agent EXCEPT ![a].pc = "check", ![a].id = 0]
    /\ UNCHANGED <<queueVars, stopping, pending, added>>

\* AddToProcessQueue by a; id is the promise that a waits for, or 0.
AddToProcessQueue(a, id) ==
    /\ added < MaxAdds
    /\ added' = added + 1
    /\ pending' = Append(pending, added + 1)
    /\ agent' = [agent EXCEPT ![a].pc = "check", ![a].id = id]
    /\ UNCHANGED <<queueVars, stopping, flag>>

-----------------------------------------------------------------------------
(* Threads that produce notifications. *)

Notification(a) == agent[a].pc = "idle" /\ AddToProcessQueue(a, 0)

\* SyncWithValidationInterfaceQueue: of an RPC thread at any time, of
\* ActivateBestChain through LimitValidationInterfaceQueue.
SyncWithValidationInterfaceQueue(a) ==
    /\ agent[a].pc = "idle"
    /\ a \in Importer => Len(pending) > Limit
    /\ AddToProcessQueue(a, added + 1)

\* The promise is set by the callback.
Executed(id) ==
    /\ \A i \in DOMAIN pending : pending[i] # id
    /\ \A b \in Agent : agent[b].pc = "call" => agent[b].id # id

PromiseSet(a) ==
    /\ agent[a].pc = "wait"
    /\ Executed(agent[a].id)
    /\ agent' = [agent EXCEPT ![a].pc = "idle", ![a].id = 0]
    /\ UNCHANGED <<queueVars, stopping, clientVars>>

\* A thread ends when a shutdown is requested.
Leave(a) ==
    /\ agent[a].pc = "idle"
    /\ agent[Main].pc # "up"
    /\ stopping = "no" \/ a \in Importer
    /\ Goto(a, "off")
    /\ UNCHANGED <<queueVars, stopping, clientVars>>

-----------------------------------------------------------------------------
(* PrepareShutdown, up to the last FlushBackgroundCallbacks. *)

StartShutdown ==
    /\ agent[Main].pc = "up"
    /\ Goto(Main, "asked")
    /\ UNCHANGED <<queueVars, stopping, clientVars>>

\* Mutant: stop() does not wake the threads.
StopSilently(drain) ==
    /\ agent[Main].pc = "asked"
    /\ \A a \in Adder \ Importer : agent[a].pc = "off"
    /\ drain => \A x \in Timer : ~Scheduled(x)
    /\ stopping' = IF drain THEN "drain" ELSE "stop"
    /\ Goto(Main, "join")
    /\ UNCHANGED <<queueVars, clientVars>>

\* CScheduler::stop, when the threads of the servers have been joined.  A
\* queue with a timer never drains.
Stop(drain) ==
    /\ agent[Main].pc = "asked"
    /\ \A a \in Adder \ Importer : agent[a].pc = "off"
    /\ drain => \A x \in Timer : ~Scheduled(x)
    /\ stopping' = IF drain THEN "drain" ELSE "stop"
    /\ Goto(Main, "stopped")
    /\ UNCHANGED <<queueVars, clientVars>>

NotifyAll ==
    /\ agent[Main].pc = "stopped"
    /\ agent' = Wake([agent EXCEPT ![Main].pc = "join"], Waiting(agent))
    /\ UNCHANGED <<queueVars, stopping, clientVars>>

JoinAll ==
    /\ agent[Main].pc = "join"
    /\ \A b \in Thread \cup Importer : agent[b].pc = "off"
    /\ Goto(Main, "process")
    /\ UNCHANGED <<queueVars, stopping, clientVars>>

\* EmptyQueue's loop; ForceFlushStateToDisk adds one more callback, which the
\* second FlushBackgroundCallbacks runs.
EmptyQueue ==
    /\ agent[Main].pc = "flush"
    /\ \/ pending # <<>> /\ Goto(Main, "process")
       \/ pending = <<>> /\ Goto(Main, "flushed")
    /\ UNCHANGED <<queueVars, stopping, clientVars>>

ForceFlushStateToDisk == agent[Main].pc = "flushed" /\ AddToProcessQueue(Main, 0)

Down ==
    /\ agent[Main].pc = "flushed"
    /\ Goto(Main, "down")
    /\ UNCHANGED <<queueVars, stopping, clientVars>>

\* The process is over.
Over == agent[Main].pc = "down" /\ UNCHANGED vars

-----------------------------------------------------------------------------

Init ==
    /\ due = <<>>
    /\ later = <<>>
    /\ stopping = "no"
    /\ pending = <<>>
    /\ flag = "clear"
    /\ added = 0
    /\ agent = [a \in Agent |-> [pc |-> CASE a \in Thread -> "top"
                                          [] a \in Adder  -> "idle"
                                          [] OTHER        -> "up",
                                 id |-> 0, timer |-> None]]

Client(a) ==
    \/ NewTask(a)
    \/ MaybeScheduleProcessQueue(a)
    \/ ScheduleProcessQueue(a)
    \/ ProcessQueue(a)
    \/ CallbackReturns(a)

ServiceQueue(t) ==
    \/ LoopTop(t)
    \/ WaitForTask(t)
    \/ TakeTask(t)
    \/ Repeat(t)
    \/ Client(t)

PrepareShutdown ==
    \/ \E drain \in BOOLEAN : Stop(drain)
    \/ NotifyAll
    \/ JoinAll
    \/ EmptyQueue
    \/ Down
    \/ Client(Main)

Next ==
    \/ \E t \in Thread : ServiceQueue(t) \/ SpuriousWakeup(t)
    \/ Tick
    \/ \E a \in Adder : \/ Notification(a)
                        \/ SyncWithValidationInterfaceQueue(a)
                        \/ Client(a) \/ PromiseSet(a) \/ Leave(a)
    \/ \E x \in Timer : ScheduleEvery(x)
    \/ StartShutdown
    \/ PrepareShutdown
    \/ ForceFlushStateToDisk
    \/ Over

Spec == Init /\ [][Next]_vars

\* Threads that can go on do, callbacks return, and time passes.  Nobody has
\* to add a callback or to ask for a shutdown.
Fairness ==
    /\ \A t \in Thread : WF_vars(ServiceQueue(t))
    /\ \A a \in Adder : WF_vars(Client(a) \/ PromiseSet(a) \/ Leave(a))
    /\ WF_vars(PrepareShutdown)
    /\ WF_vars(Tick)

FairSpec == Spec /\ Fairness

-----------------------------------------------------------------------------
(* Properties. *)

Queue == INSTANCE CallbackQueue
    WITH Callback <- 1 .. MaxAdds,
         todo     <- pending,
         current  <- {agent[a].id : a \in {b \in Agent : agent[b].pc = "call"}}

\* Whatever number of threads serves the scheduler, and whoever adds
\* callbacks meanwhile, callbacks are executed one at a time in the order in
\* which AddToProcessQueue put them into the queue.
QueueSpec == Queue!Spec

\* Somebody will look at the queue again.
LookedAfter ==
    \/ flag = "set"
    \/ \E i \in DOMAIN due : due[i] = "queue"
    \/ \E a \in Agent : agent[a].pc \in {"process", "check", "schedule", "flush"}

\* A callback that waits is never forgotten: one runs, whose end looks at
\* the queue, or ProcessQueue is scheduled, or a thread is on its way to one
\* of them.  MaybeScheduleProcessQueue skips all other cases.
NothingStranded == pending # <<>> => LookedAfter

\* stop(true) ends the threads only when every callback has run, as
\* singlethreadedscheduler_ordered of the unit tests expects.
DrainRunsAll ==
    stopping = "drain" /\ (\A t \in Thread : agent[t].pc = "off") /\ agent[Main].pc = "join"
        => pending = <<>>

\* SyncWithValidationInterfaceQueue returns: no wake-up is lost between
\* schedule and the wait of serviceQueue.
SyncReturns == \A a \in Adder : agent[a].pc = "wait" ~> agent[a].pc # "wait"

\* A shutdown that was asked for comes to an end, with nothing left in the
\* queue: the scheduler's threads end, and EmptyQueue runs the rest.  This
\* holds when no import is running (Importer is empty): a ThreadImport that
\* waits in SyncWithValidationInterfaceQueue is joined by Shutdown() after the
\* scheduler was told to stop, and waits for ever.
ShutdownCompletes == agent[Main].pc = "asked" ~> agent[Main].pc = "down" /\ pending = <<>>

=============================================================================
