--------------------------- MODULE SchedulerProofs ---------------------------
(***************************************************************************)
(* The callback queue for any number of threads that serve it and add to   *)
(* it: callbacks run one at a time in order (Implements), one that waits   *)
(* is never forgotten (NeverStranded), and stop(true) leaves none behind   *)
(* (DrainIsComplete).                                                      *)
(***************************************************************************)
EXTENDS Scheduler, TLAPS

PC == {"off", "top", "seed", "empty", "timed", "process", "repeat", "call", "check",
       "schedule", "notify", "idle", "wait", "up", "asked", "stopped", "join", "flush",
       "flushed", "down"}

AgentType == [Agent -> [pc : PC, id : Nat, timer : Timer \cup {None}]]

Task == Timer \cup {None, "queue"}

Types ==
    /\ agent \in AgentType
    /\ due \in Seq(Task)
    /\ later \in Seq(Timer \cup {None})
    /\ pending \in Seq(1 .. MaxAdds)
    /\ added \in 0 .. MaxAdds
    /\ flag \in {"set", "clear"}

Calling == {a \in Agent : agent[a].pc = "call"}

\* The flag says whether a callback runs, and at most one does.
Serial ==
    /\ \A a, b \in Calling : a = b
    /\ Calling # {} => flag = "set"
    /\ flag = "set" => Calling # {}

IInv == Types /\ Serial /\ NothingStranded

\* A step that moves agents, but none to or from a callback.
Quiet ==
    \A a \in Agent : agent[a].pc = "call" \/ agent'[a].pc = "call" => agent'[a] = agent[a]

\* A step that leaves the callbacks alone and does not lose sight of them.
Ordinary ==
    /\ UNCHANGED clientVars
    /\ Quiet
    /\ pending # <<>> /\ LookedAfter => LookedAfter'

Current == {agent[a].id : a \in Calling}

LEMMA WakeFacts ==
    ASSUME NEW A \in AgentType, NEW T \in SUBSET Waiting(A)
    PROVE  /\ Wake(A, T) \in AgentType
           /\ \A b \in Agent : b \notin T => Wake(A, T)[b] = A[b]
           /\ \A b \in T : b \in Agent /\ Wake(A, T)[b].pc \in {"seed", "top", "timed"}
  <1>1. \A t \in T : t \in Agent /\ A[t].pc \in {"empty", "timed"}
    BY Zenon DEF Waiting, Agent
  <1>2. ASSUME NEW b \in Agent, b \in T
        PROVE  Wake(A, T)[b] \in [pc : PC, id : Nat, timer : Timer \cup {None}]
               /\ Wake(A, T)[b].pc \in {"seed", "top", "timed"}
    BY Zenon, <1>1, <1>2 DEF Wake, PC, AgentType
  <1>3. ASSUME NEW b \in Agent, b \notin T
        PROVE  Wake(A, T)[b] = A[b]
    BY Zenon, <1>3 DEF Wake
  <1>4. Wake(A, T) \in AgentType
    BY Zenon, <1>2, <1>3 DEF Wake, AgentType
  <1> QED
    BY Zenon, <1>1, <1>2, <1>3, <1>4

\* Notifying one thread changes nothing but where a waiting thread stands.
LEMMA NotifyFacts ==
    ASSUME NEW A \in AgentType, NotifyOne(A)
    PROVE  /\ agent' \in AgentType
           /\ \A b \in Agent : \/ agent'[b] = A[b]
                               \/ /\ A[b].pc \in {"empty", "timed"}
                                  /\ agent'[b].pc \in {"seed", "top", "timed"}
  <1>1. CASE Waiting(A) = {}
    BY Zenon, <1>1 DEF NotifyOne
  <1>2. ASSUME NEW t \in Waiting(A), agent' = Wake(A, {t})
        PROVE  /\ agent' \in AgentType
               /\ \A b \in Agent : \/ agent'[b] = A[b]
                                   \/ /\ A[b].pc \in {"empty", "timed"}
                                      /\ agent'[b].pc \in {"seed", "top", "timed"}
    <2>1. {t} \in SUBSET Waiting(A) /\ A[t].pc \in {"empty", "timed"}
      BY Zenon DEF Waiting
    <2> QED
      BY Zenon, <1>2, <2>1, WakeFacts
  <1> QED
    BY Zenon, <1>1, <1>2 DEF NotifyOne

LEMMA OrdinaryStep ==
    ASSUME IInv, Types', Ordinary
    PROVE  IInv' /\ pending' = pending /\ Current' = Current
  <1>1. UNCHANGED <<pending, flag, added>>
    BY Zenon DEF Ordinary, clientVars
  <1>2. Calling' = Calling /\ \A a \in Calling : agent'[a] = agent[a]
    BY Zenon DEF Ordinary, Quiet, Calling
  <1>3. Current' = Current
    BY Zenon, <1>2 DEF Current
  <1>4. Serial'
    BY Zenon, <1>1, <1>2 DEF IInv, Serial
  <1>5. NothingStranded'
    BY Zenon, <1>1 DEF IInv, NothingStranded, Ordinary
  <1> QED
    BY Zenon, <1>1, <1>3, <1>4, <1>5 DEF IInv

\* An agent that moves, with or without a notification, while taskQueue
\* stays as it is.
LEMMA Move ==
    ASSUME Types, NEW a \in Agent, NEW l \in PC, l # "call", agent[a].pc # "call",
           agent[a].pc \notin {"process", "check", "schedule", "flush"}
               \/ l \in {"process", "check", "schedule", "flush"}
               \/ pending = <<>> \/ flag = "set",
           Goto(a, l) \/ NotifyOne([agent EXCEPT ![a].pc = l]),
           UNCHANGED <<queueVars, clientVars>>
    PROVE  Types' /\ Ordinary
  <1> DEFINE A == [agent EXCEPT ![a].pc = l]
  <1>1. A \in AgentType
    BY Zenon DEF Types, AgentType
  <1>2. /\ agent' \in AgentType
        /\ \A b \in Agent : \/ agent'[b] = A[b]
                            \/ /\ A[b].pc \in {"empty", "timed"}
                               /\ agent'[b].pc \in {"seed", "top", "timed"}
    <2>1. CASE Goto(a, l)
      BY Zenon, <1>1, <2>1 DEF Goto
    <2>2. CASE NotifyOne(A)
      BY Zenon, <1>1, <2>2, NotifyFacts
    <2> QED
      BY Zenon, <2>1, <2>2
  <1>3. A[a].pc = l /\ \A b \in Agent : b # a => A[b] = agent[b]
    BY Zenon DEF Types, AgentType
  <1>4. Quiet
    BY Zenon, <1>2, <1>3 DEF Quiet
  <1>5. UNCHANGED <<due, later, pending, flag, added>>
    BY Zenon DEF queueVars, clientVars
  <1>6. ASSUME pending # <<>>, LookedAfter PROVE LookedAfter'
    <2>1. CASE flag = "set" \/ \E i \in DOMAIN due : due[i] = "queue"
      BY Zenon, <1>5, <2>1 DEF LookedAfter
    <2>2. CASE flag # "set" /\ \E b \in Agent : agent[b].pc \in {"process", "check", "schedule", "flush"}
      <3>1. PICK b \in Agent : agent[b].pc \in {"process", "check", "schedule", "flush"}
        BY Zenon, <2>2
      <3>2. A[b].pc \in {"process", "check", "schedule", "flush"}
        BY Zenon, <1>3, <1>6, <2>2, <3>1
      <3>3. agent'[b].pc \in {"process", "check", "schedule", "flush"}
        BY Zenon, <1>2, <3>2
      <3> QED
        BY Zenon, <3>3 DEF LookedAfter
    <2> QED
      BY Zenon, <1>6, <2>1, <2>2 DEF LookedAfter
  <1>7. Types'
    BY Zenon, <1>2, <1>5 DEF Types
  <1> QED
    BY Zenon, <1>4, <1>5, <1>6, <1>7 DEF Ordinary, clientVars

\* An agent that moves while taskQueue changes: if ProcessQueue leaves the
\* task queue, it is the agent that is going to run it.
LEMMA MoveTask ==
    ASSUME Types, NEW a \in Agent,
           NEW r \in [pc : PC, id : Nat, timer : Timer \cup {None}],
           r.pc # "call", agent[a].pc # "call",
           \/ agent[a].pc \notin {"process", "check", "schedule", "flush"}
           \/ \E j \in DOMAIN due' : due'[j] = "queue",
           agent' = [agent EXCEPT ![a] = r],
           due' \in Seq(Task), later' \in Seq(Timer \cup {None}),
           (\E i \in DOMAIN due : due[i] = "queue") =>
               r.pc = "process" \/ \E j \in DOMAIN due' : due'[j] = "queue",
           UNCHANGED clientVars
    PROVE  Types' /\ Ordinary
  <1>1. agent' \in AgentType /\ agent'[a] = r /\ \A b \in Agent : b # a => agent'[b] = agent[b]
    BY Zenon DEF Types, AgentType
  <1>2. Quiet
    BY Zenon, <1>1 DEF Quiet
  <1>3. UNCHANGED <<pending, flag, added>>
    BY Zenon DEF clientVars
  <1>4. Types'
    BY Zenon, <1>1, <1>3 DEF Types
  <1>5. ASSUME LookedAfter PROVE LookedAfter'
    <2>1. CASE flag = "set"
      BY Zenon, <1>3, <2>1 DEF LookedAfter
    <2>2. CASE \E i \in DOMAIN due : due[i] = "queue"
      BY Zenon, <1>1, <2>2 DEF LookedAfter
    <2>3. CASE \E b \in Agent : agent[b].pc \in {"process", "check", "schedule", "flush"}
      <3>1. PICK b \in Agent : agent[b].pc \in {"process", "check", "schedule", "flush"}
        BY Zenon, <2>3
      <3>2. CASE b = a
        BY Zenon, <3>1, <3>2 DEF LookedAfter
      <3>3. CASE b # a
        BY Zenon, <1>1, <3>1, <3>3 DEF LookedAfter
      <3> QED
        BY Zenon, <3>2, <3>3
    <2> QED
      BY Zenon, <1>5, <2>1, <2>2, <2>3 DEF LookedAfter
  <1> QED
    BY Zenon, <1>2, <1>4, <1>5 DEF Ordinary

LEMMA ReturnFacts ==
    ASSUME NEW a
    PROVE  Return(a) \in {"top", "idle", "wait", "up", "flush"}
  BY Zenon DEF Return

LEMMA EnterStep ==
    ASSUME Types, NEW t \in Agent, NEW sleep \in {"seed", "empty"}, Enter(t, sleep),
           agent[t].pc \in {"top", "seed", "timed"}, UNCHANGED <<queueVars, clientVars>>
    PROVE  Types' /\ Ordinary
  <1>1. CASE NotifyOne([agent EXCEPT ![t].pc = "off"])
    BY ZenonT(40), <1>1, Move DEF PC
  <1>2. CASE Goto(t, sleep)
    BY Zenon, <1>2, Move DEF PC
  <1>3. CASE /\ ~Empty
             /\ agent' = [agent EXCEPT ![t].pc = "timed",
                                       ![t].timer = IF due # <<>> THEN None ELSE Head(later)]
    <2> DEFINE x == IF due # <<>> THEN None ELSE Head(later)
               r == [agent[t] EXCEPT !.pc = "timed", !.timer = x]
    <2>1. x \in Timer \cup {None}
      BY <1>3 DEF Empty, Types
    <2>2. r \in [pc : PC, id : Nat, timer : Timer \cup {None}] /\ r.pc = "timed"
      BY Zenon, <2>1 DEF Types, AgentType, PC
    <2>3. agent' = [agent EXCEPT ![t] = r]
      BY Zenon, <1>3 DEF Types, AgentType
    <2>4. UNCHANGED <<due, later>> /\ due \in Seq(Task) /\ later \in Seq(Timer \cup {None})
      BY Zenon DEF queueVars, Types
    <2> HIDE DEF x, r
    <2> QED
      BY Zenon, <2>2, <2>3, <2>4, MoveTask
  <1> QED
    BY SMTT(30), <1>1, <1>2, <1>3 DEF Enter

LEMMA InsertType ==
    ASSUME Types, NEW x \in Timer \cup {None}, InsertLater(x)
    PROVE  later' \in Seq(Timer \cup {None})
  <1>1. later \in Seq(Timer \cup {None})
    BY Zenon DEF Types
  <1>2. PICK i \in 0 .. Len(later) :
            later' = SubSeq(later, 1, i) \o <<x>> \o SubSeq(later, i + 1, Len(later))
    BY Zenon DEF InsertLater
  <1>3. SubSeq(later, 1, i) \in Seq(Timer \cup {None})
    BY <1>1
  <1>4. SubSeq(later, i + 1, Len(later)) \in Seq(Timer \cup {None})
    BY <1>1
  <1>5. <<x>> \in Seq(Timer \cup {None})
    OBVIOUS
  <1> QED
    BY <1>2, <1>3, <1>4, <1>5

LEMMA ServiceStep ==
    ASSUME Types, NEW t \in Thread,
           LoopTop(t) \/ WaitForTask(t) \/ TakeTask(t) \/ Repeat(t) \/ SpuriousWakeup(t)
    PROVE  Types' /\ Ordinary
  <1>0. t \in Agent
    BY Zenon DEF Agent
  <1>1. CASE LoopTop(t) \/ WaitForTask(t)
    BY Zenon, <1>0, <1>1, EnterStep DEF LoopTop, WaitForTask
  <1>2. CASE TakeTask(t)
    <2>1. CASE Enter(t, "seed") /\ UNCHANGED queueVars
      BY Zenon, <1>0, <1>2, <2>1, EnterStep DEF TakeTask
    <2>2. CASE ~(Enter(t, "seed") /\ UNCHANGED queueVars)
      <3> DEFINE first == IF due # <<>> THEN Head(due) ELSE Head(later)
                 r == IF first = "queue" THEN [agent[t] EXCEPT !.pc = "process"]
                                         ELSE [agent[t] EXCEPT !.pc = "repeat", !.timer = first]
      <3>1. /\ ~Empty /\ agent[t].pc = "timed" /\ UNCHANGED clientVars
            /\ IF due # <<>> THEN due' = Tail(due) /\ later' = later
                             ELSE due' = due /\ later' = Tail(later)
            /\ agent' = IF first = "queue"
                          THEN [agent EXCEPT ![t].pc = "process"]
                          ELSE [agent EXCEPT ![t].pc = "repeat", ![t].timer = first]
        BY Zenon, <1>2, <2>2 DEF TakeTask
      <3>2. first \in Task
        BY <3>1 DEF Empty, Types, Task
      <3>3. r \in [pc : PC, id : Nat, timer : Timer \cup {None}] /\ r.pc \in {"process", "repeat"}
        BY Zenon, <1>0, <3>2 DEF Types, AgentType, PC, Task
      <3>4. agent' = [agent EXCEPT ![t] = r]
        BY Zenon, <1>0, <3>1 DEF Types, AgentType
      <3>5. due' \in Seq(Task) /\ later' \in Seq(Timer \cup {None})
        <4>1. due \in Seq(Task) /\ later \in Seq(Timer \cup {None})
          BY Zenon DEF Types
        <4>2. CASE due # <<>>
          <5>1. due' = Tail(due) /\ later' = later
            BY Zenon, <3>1, <4>2
          <5>2. Tail(due) \in Seq(Task)
            BY <4>1, <4>2
          <5> QED
            BY Zenon, <4>1, <5>1, <5>2
        <4>3. CASE due = <<>>
          BY <3>1, <4>1, <4>3 DEF Empty
        <4> QED
          BY Zenon, <4>2, <4>3
      <3>6. ASSUME NEW i \in DOMAIN due, due[i] = "queue"
            PROVE  r.pc = "process" \/ \E j \in DOMAIN due' : due'[j] = "queue"
        <4>1. due # <<>> /\ due' = Tail(due) /\ first = due[1]
          BY <3>1 DEF Types
        <4>2. CASE i = 1
          BY Zenon, <1>0, <3>6, <4>1, <4>2 DEF Types, AgentType
        <4>3. CASE i # 1
          <5>1. i - 1 \in DOMAIN due' /\ due'[i - 1] = "queue"
            BY <3>6, <4>1, <4>3 DEF Types
          <5> QED
            BY Zenon, <5>1
        <4> QED
          BY Zenon, <4>2, <4>3
      <3> HIDE DEF first, r
      <3> QED
        BY Zenon, <1>0, <3>1, <3>3, <3>4, <3>5, <3>6, MoveTask
    <2> QED
      BY Zenon, <2>1, <2>2
  <1>3. CASE Repeat(t)
    <2> DEFINE r == [agent[t] EXCEPT !.pc = "notify", !.timer = None]
    <2>1. r \in [pc : PC, id : Nat, timer : Timer \cup {None}] /\ r.pc = "notify"
      BY Zenon, <1>0 DEF Types, AgentType, PC
    <2>2. agent' = [agent EXCEPT ![t] = r]
      BY Zenon, <1>0, <1>3 DEF Repeat, Types, AgentType
    <2>3. later' \in Seq(Timer \cup {None})
      <3>1. agent[t].timer \in Timer \cup {None} /\ InsertLater(agent[t].timer)
        BY Zenon, <1>0, <1>3 DEF Repeat, Types, AgentType
      <3> QED
        BY Zenon, <3>1, InsertType
    <2>4. due' = due /\ due \in Seq(Task) /\ UNCHANGED clientVars /\ agent[t].pc = "repeat"
      BY Zenon, <1>3 DEF Repeat, Types
    <2> HIDE DEF r
    <2> QED
      BY Zenon, <1>0, <2>1, <2>2, <2>3, <2>4, MoveTask
  <1>4. CASE SpuriousWakeup(t)
    <2>1. {t} \in SUBSET Waiting(agent) /\ agent \in AgentType /\ agent[t].pc \in {"empty", "timed"}
      BY Zenon, <1>4 DEF SpuriousWakeup, Waiting, Types
    <2>2. agent' = Wake(agent, {t}) /\ UNCHANGED <<due, later, pending, flag, added>>
      BY Zenon, <1>4 DEF SpuriousWakeup, queueVars, clientVars
    <2>3. /\ agent' \in AgentType /\ agent'[t].pc \in {"seed", "top", "timed"}
          /\ \A b \in Agent : b # t => agent'[b] = agent[b]
      BY Zenon, <2>1, <2>2, WakeFacts
    <2>4. Types'
      BY Zenon, <2>2, <2>3 DEF Types
    <2>5. Quiet
      BY Zenon, <2>1, <2>3 DEF Quiet
    <2>6. LookedAfter => LookedAfter'
      BY Zenon, <2>1, <2>2, <2>3 DEF LookedAfter
    <2> QED
      BY Zenon, <2>2, <2>4, <2>5, <2>6 DEF Ordinary, clientVars
  <1> QED
    BY Zenon, <1>1, <1>2, <1>3, <1>4

\* The steps of a client that neither begin nor end a callback.
LEMMA ClientQuietStep ==
    ASSUME Types, NEW a \in Agent,
           \/ NewTask(a)
           \/ MaybeScheduleProcessQueue(a)
           \/ ScheduleProcessQueue(a)
           \/ ProcessQueue(a) /\ (flag = "set" \/ pending = <<>>)
    PROVE  Types' /\ Ordinary
  <1>0. Return(a) \in PC /\ Return(a) # "call"
    BY Zenon, ReturnFacts DEF PC
  <1>1. CASE NewTask(a)
    BY Zenon, <1>0, <1>1, Move DEF NewTask
  <1>2. CASE MaybeScheduleProcessQueue(a)
    <2>1. CASE flag = "set" \/ pending = <<>>
      BY Zenon, <1>0, <1>2, <2>1, Move DEF MaybeScheduleProcessQueue
    <2>2. CASE ~(flag = "set" \/ pending = <<>>)
      BY Zenon, <1>2, <2>2, Move DEF MaybeScheduleProcessQueue, PC
    <2> QED
      BY Zenon, <2>1, <2>2
  <1>3. CASE ScheduleProcessQueue(a)
    <2> DEFINE r == [agent[a] EXCEPT !.pc = "notify"]
    <2>1. r \in [pc : PC, id : Nat, timer : Timer \cup {None}] /\ r.pc = "notify"
      BY Zenon DEF Types, AgentType, PC
    <2>2. agent' = [agent EXCEPT ![a] = r]
      BY Zenon, <1>3 DEF ScheduleProcessQueue, Goto, Types, AgentType
    <2>3. due \in Seq(Task) /\ "queue" \in Task /\ due' = Append(due, "queue")
      BY Zenon, <1>3 DEF ScheduleProcessQueue, Types, Task
    <2>4. due' \in Seq(Task) /\ Len(due) + 1 \in DOMAIN due' /\ due'[Len(due) + 1] = "queue"
      BY <2>3
    <2>5. later' \in Seq(Timer \cup {None}) /\ UNCHANGED clientVars /\ agent[a].pc = "schedule"
      BY Zenon, <1>3 DEF ScheduleProcessQueue, Types
    <2> HIDE DEF r
    <2> QED
      BY Zenon, <2>1, <2>2, <2>4, <2>5, MoveTask
  <1>4. CASE ProcessQueue(a) /\ (flag = "set" \/ pending = <<>>)
    <2>1. agent[a].pc = "process" /\ Goto(a, Return(a)) /\ UNCHANGED <<queueVars, clientVars>>
      BY Zenon, <1>4 DEF ProcessQueue, clientVars
    <2> QED
      BY Zenon, <1>0, <1>4, <2>1, Move
  <1> QED
    BY Zenon, <1>1, <1>2, <1>3, <1>4

\* A callback begins: the flag was clear, so nothing was being called.
LEMMA StartStep ==
    ASSUME IInv, NEW a \in Agent, ProcessQueue(a), ~(flag = "set" \/ pending = <<>>)
    PROVE  IInv' /\ Queue!Start
  <1>1. /\ agent[a].pc = "process" /\ flag = "clear" /\ flag' = "set" /\ pending # <<>>
        /\ pending' = Tail(pending) /\ UNCHANGED <<due, later, added>>
        /\ agent' = [agent EXCEPT ![a].pc = "call", ![a].id = Head(pending)]
    <2>1. flag = "clear"
      BY Zenon DEF IInv, Types
    <2> QED
      BY Zenon, <2>1 DEF ProcessQueue, queueVars
  <1>2. pending' \in Seq(1 .. MaxAdds) /\ Head(pending) \in Nat
    <2> DEFINE S == 1 .. MaxAdds
    <2>1. pending \in Seq(S) /\ pending # <<>>
      BY Zenon, <1>1 DEF IInv, Types
    <2>2. S \subseteq Nat
      BY SchedulerAssumption
    <2> HIDE DEF S
    <2>3. Tail(pending) \in Seq(S)
      BY <2>1
    <2>4. Head(pending) \in S
      BY <2>1
    <2>5. pending' \in Seq(S) /\ Head(pending) \in Nat
      BY Zenon, <1>1, <2>2, <2>3, <2>4
    <2> QED
      BY Zenon, <2>5 DEF S
  <1>3. /\ agent' \in AgentType
        /\ agent'[a].pc = "call" /\ agent'[a].id = Head(pending)
        /\ \A b \in Agent : b # a => agent'[b] = agent[b]
    BY ZenonT(40), <1>1, <1>2 DEF IInv, Types, AgentType, PC
  <1>4. Calling = {} /\ Calling' = {a}
    BY ZenonT(40), <1>1, <1>3 DEF IInv, Serial, Calling
  <1>5. Types'
    BY Zenon, <1>1, <1>2, <1>3 DEF IInv, Types
  <1>6. Serial' /\ NothingStranded'
    BY Zenon, <1>1, <1>4 DEF Serial, NothingStranded, LookedAfter
  <1>7. Current = {} /\ Current' = {Head(pending)}
    BY Zenon, <1>3, <1>4 DEF Current
  <1> QED
    BY Zenon, <1>1, <1>5, <1>6, <1>7 DEF IInv, Queue!Start, Current, Calling

\* A callback ends, and its agent is the one to look at the queue next.
LEMMA FinishStep ==
    ASSUME IInv, NEW a \in Agent, CallbackReturns(a)
    PROVE  IInv' /\ Queue!Finish
  <1>1. /\ agent[a].pc = "call" /\ flag' = "clear" /\ UNCHANGED <<due, later, pending, added>>
        /\ agent' = [agent EXCEPT ![a].pc = "check", ![a].id = 0]
    BY Zenon DEF CallbackReturns, queueVars
  <1>2. /\ agent' \in AgentType /\ agent'[a].pc = "check"
        /\ \A b \in Agent : b # a => agent'[b] = agent[b]
    BY ZenonT(40), <1>1 DEF IInv, Types, AgentType, PC
  <1>3. a \in Calling /\ \A b \in Calling : b = a
    BY Zenon, <1>1 DEF IInv, Serial, Calling
  <1>4. Calling # {} /\ Calling' = {}
    BY Zenon, <1>2, <1>3 DEF Calling
  <1>5. Types'
    BY Zenon, <1>1, <1>2 DEF IInv, Types
  <1>6. Serial' /\ NothingStranded'
    BY Zenon, <1>1, <1>2, <1>4 DEF Serial, NothingStranded, LookedAfter
  <1>7. Current # {} /\ Current' = {}
    BY Zenon, <1>4 DEF Current
  <1> QED
    BY Zenon, <1>1, <1>5, <1>6, <1>7 DEF IInv, Queue!Finish, Current, Calling

\* A callback is added by an agent that is then the one to look at the queue.
LEMMA AddStep ==
    ASSUME IInv, NEW a \in Agent, NEW id \in Nat, agent[a].pc # "call", AddToProcessQueue(a, id)
    PROVE  IInv' /\ Queue!Add
  <1>1. /\ added < MaxAdds /\ added' = added + 1 /\ pending' = Append(pending, added + 1)
        /\ UNCHANGED <<due, later, flag>>
        /\ agent' = [agent EXCEPT ![a].pc = "check", ![a].id = id]
    BY Zenon DEF AddToProcessQueue, queueVars
  <1>2. added + 1 \in 1 .. MaxAdds /\ added' \in 0 .. MaxAdds
    BY <1>1, SchedulerAssumption DEF IInv, Types
  <1>3. /\ agent' \in AgentType /\ agent'[a].pc = "check"
        /\ \A b \in Agent : b # a => agent'[b] = agent[b]
    BY ZenonT(40), <1>1 DEF IInv, Types, AgentType, PC
  <1>4. Calling' = Calling /\ \A b \in Calling : agent'[b] = agent[b]
    BY Zenon, <1>3 DEF Calling
  <1>5. pending' \in Seq(1 .. MaxAdds)
    BY <1>1, <1>2 DEF IInv, Types
  <1>6. Types'
    BY Zenon, <1>1, <1>2, <1>3, <1>5 DEF IInv, Types
  <1>7. Serial' /\ NothingStranded'
    BY Zenon, <1>1, <1>3, <1>4 DEF IInv, Serial, NothingStranded, LookedAfter
  <1>8. Current' = Current
    BY Zenon, <1>4 DEF Current
  <1> QED
    BY Zenon, <1>1, <1>2, <1>6, <1>7, <1>8 DEF IInv, Queue!Add, Current, Calling

LEMMA TickStep ==
    ASSUME Types, Tick
    PROVE  Types' /\ Ordinary
  <1>1. /\ due \in Seq(Task) /\ later \in Seq(Timer \cup {None}) /\ later # <<>>
        /\ due' = Append(due, Head(later)) /\ later' = Tail(later)
        /\ UNCHANGED <<pending, flag, added>>
    BY Zenon DEF Tick, Types, clientVars
  <1>2. Head(later) \in Task /\ later' \in Seq(Timer \cup {None})
    BY <1>1 DEF Task
  <1>3. due' \in Seq(Task) /\ \A i \in DOMAIN due : i \in DOMAIN due' /\ due'[i] = due[i]
    BY <1>1, <1>2
  <1>4. ASSUME NEW b \in Agent
        PROVE  /\ agent'[b] \in [pc : PC, id : Nat, timer : Timer \cup {None}]
               /\ agent'[b].pc = agent[b].pc
               /\ agent[b].pc # "timed" => agent'[b] = agent[b]
    <2>1. agent[b] \in [pc : PC, id : Nat, timer : Timer \cup {None}]
      BY Zenon DEF Types, AgentType
    <2>2. agent'[b] = IF agent[b].pc = "timed" /\ agent[b].timer = Head(later)
                        THEN [agent[b] EXCEPT !.timer = None] ELSE agent[b]
      BY Zenon DEF Tick
    <2> QED
      BY Zenon, <2>1, <2>2
  <1>5. agent' \in AgentType
    BY Zenon, <1>4 DEF Tick, AgentType
  <1>6. Quiet
    BY Zenon, <1>4 DEF Quiet
  <1>7. LookedAfter => LookedAfter'
    BY Zenon, <1>1, <1>3, <1>4 DEF LookedAfter
  <1>8. Types'
    BY Zenon, <1>1, <1>2, <1>3, <1>5 DEF Types
  <1> QED
    BY Zenon, <1>1, <1>6, <1>7, <1>8 DEF Ordinary, clientVars

LEMMA AdderStep ==
    ASSUME Types, NEW a \in Agent, PromiseSet(a) \/ Leave(a)
    PROVE  Types' /\ Ordinary
  <1>1. CASE PromiseSet(a)
    <2> DEFINE r == [agent[a] EXCEPT !.pc = "idle", !.id = 0]
    <2>1. r \in [pc : PC, id : Nat, timer : Timer \cup {None}] /\ r.pc = "idle"
      BY Zenon DEF Types, AgentType, PC
    <2>2. agent' = [agent EXCEPT ![a] = r]
      BY Zenon, <1>1 DEF PromiseSet, Types, AgentType
    <2>3. UNCHANGED <<due, later>> /\ due \in Seq(Task) /\ later \in Seq(Timer \cup {None})
      BY Zenon, <1>1 DEF PromiseSet, queueVars, Types
    <2>4. UNCHANGED clientVars /\ agent[a].pc = "wait"
      BY Zenon, <1>1 DEF PromiseSet
    <2> HIDE DEF r
    <2> QED
      BY Zenon, <2>1, <2>2, <2>3, <2>4, MoveTask
  <1>2. CASE Leave(a)
    BY Zenon, <1>2, Move DEF Leave, PC
  <1> QED
    BY Zenon, <1>1, <1>2

LEMMA MainStep ==
    ASSUME Types,
           \/ StartShutdown \/ NotifyAll \/ JoinAll \/ EmptyQueue \/ Down
           \/ \E drain \in BOOLEAN : Stop(drain)
           \/ \E x \in Timer : ScheduleEvery(x)
    PROVE  Types' /\ Ordinary
  <1>0. Main \in Agent
    BY SMTT(30) DEF Agent
  <1>1. CASE StartShutdown
    BY ZenonT(40), <1>0, <1>1, Move DEF StartShutdown, PC
  <1>2. CASE JoinAll
    BY Zenon, <1>0, <1>2, Move DEF JoinAll, PC
  <1>3. CASE EmptyQueue
    <2>1. CASE pending = <<>>
      BY ZenonT(40), <1>0, <1>3, <2>1, Move DEF EmptyQueue, PC
    <2>2. CASE pending # <<>>
      BY ZenonT(40), <1>0, <1>3, <2>2, Move DEF EmptyQueue, PC
    <2> QED
      BY SMTT(30), <2>1, <2>2
  <1>4. CASE Down
    BY ZenonT(40), <1>0, <1>4, Move DEF Down, PC
  <1>5. CASE \E drain \in BOOLEAN : Stop(drain)
    BY Zenon, <1>0, <1>5, Move DEF Stop, PC
  <1>6. ASSUME NEW x \in Timer, ScheduleEvery(x)
        PROVE  Types' /\ Ordinary
    <2> DEFINE r == [agent[Main] EXCEPT !.pc = "notify"]
    <2>1. r \in [pc : PC, id : Nat, timer : Timer \cup {None}] /\ r.pc = "notify"
      BY Zenon, <1>0 DEF Types, AgentType, PC
    <2>2. agent' = [agent EXCEPT ![Main] = r]
      BY Zenon, <1>0, <1>6 DEF ScheduleEvery, Goto, Types, AgentType
    <2>3. later' \in Seq(Timer \cup {None})
      BY Zenon, <1>6, InsertType DEF ScheduleEvery
    <2>4. due' = due /\ due \in Seq(Task) /\ UNCHANGED clientVars /\ agent[Main].pc = "up"
      BY Zenon, <1>6 DEF ScheduleEvery, Types
    <2> HIDE DEF r
    <2> QED
      BY Zenon, <1>0, <2>1, <2>2, <2>3, <2>4, MoveTask
  <1>7. CASE NotifyAll
    <2> DEFINE A == [agent EXCEPT ![Main].pc = "join"]
    <2>1. /\ agent[Main].pc = "stopped" /\ agent' = Wake(A, Waiting(agent))
          /\ UNCHANGED <<due, later, pending, flag, added>>
      BY Zenon, <1>7 DEF NotifyAll, queueVars, clientVars
    <2>2. A \in AgentType /\ A[Main].pc = "join" /\ \A b \in Agent : b # Main => A[b] = agent[b]
      BY Zenon, <1>0 DEF Types, AgentType, PC
    <2>3. Waiting(agent) \in SUBSET Waiting(A) /\ \A t \in Waiting(agent) : agent[t].pc \in {"empty", "timed"}
      BY Zenon, <2>1, <2>2 DEF Waiting, Agent
    <2> HIDE DEF A
    <2>4. /\ agent' \in AgentType
          /\ \A b \in Agent : b \notin Waiting(agent) => agent'[b] = A[b]
          /\ \A b \in Waiting(agent) : agent'[b].pc \in {"seed", "top", "timed"}
      BY Zenon, <2>1, <2>2, <2>3, WakeFacts
    <2>5. Types'
      BY Zenon, <2>1, <2>4 DEF Types
    <2>6. Quiet
      BY Zenon, <2>1, <2>2, <2>3, <2>4 DEF Quiet
    <2>7. LookedAfter => LookedAfter'
      BY Zenon, <2>1, <2>2, <2>3, <2>4 DEF LookedAfter
    <2> QED
      BY Zenon, <2>1, <2>5, <2>6, <2>7 DEF Ordinary, clientVars
  <1> QED
    BY Zenon, <1>1, <1>2, <1>3, <1>4, <1>5, <1>6, <1>7

LEMMA InitFacts == Init => IInv /\ Queue!Init
  <1> SUFFICES ASSUME Init PROVE IInv /\ Queue!Init
    BY Zenon
  <1>1. agent \in AgentType /\ \A a \in Agent : agent[a].pc # "call"
    <2> DEFINE p(a) == CASE a \in Thread -> "top" [] a \in Adder -> "idle" [] OTHER -> "up"
    <2>1. \A a \in Agent : p(a) \in {"top", "idle", "up"}
      BY Zenon
    <2>2. agent = [a \in Agent |-> [pc |-> p(a), id |-> 0, timer |-> None]]
      BY Zenon DEF Init
    <2> HIDE DEF p
    <2> QED
      BY Zenon, <2>1, <2>2 DEF AgentType, PC
  <1>2. Calling = {}
    BY Zenon, <1>1 DEF Calling
  <1>3. Types
    <2>1. due = <<>> /\ later = <<>> /\ pending = <<>> /\ added = 0 /\ flag = "clear"
      BY Zenon DEF Init
    <2> QED
      BY <1>1, <2>1, SchedulerAssumption DEF Types
  <1>4. Serial /\ NothingStranded
    BY Zenon, <1>2 DEF Init, Serial, NothingStranded
  <1>5. Queue!Init
    BY Zenon, <1>2 DEF Init, Queue!Init, Calling
  <1> QED
    BY Zenon, <1>3, <1>4, <1>5 DEF IInv

\* Every step keeps the invariant and is a step of the abstract queue or
\* leaves it as it is.
LEMMA Step ==
    ASSUME IInv, [Next]_vars
    PROVE  IInv' /\ (Queue!Next \/ (pending' = pending /\ Current' = Current))
  <1>0. Types
    BY Zenon DEF IInv
  <1>1. ASSUME Types', Ordinary
        PROVE  IInv' /\ pending' = pending /\ Current' = Current
    BY Zenon, <1>1, OrdinaryStep
  <1>2. ASSUME NEW a \in Agent, Client(a)
        PROVE  IInv' /\ (Queue!Next \/ (pending' = pending /\ Current' = Current))
    <2>1. CASE CallbackReturns(a)
      BY Zenon, <2>1, FinishStep DEF Queue!Next
    <2>2. CASE ProcessQueue(a) /\ ~(flag = "set" \/ pending = <<>>)
      BY Zenon, <2>2, StartStep DEF Queue!Next
    <2>3. CASE \/ NewTask(a) \/ MaybeScheduleProcessQueue(a) \/ ScheduleProcessQueue(a)
               \/ ProcessQueue(a) /\ (flag = "set" \/ pending = <<>>)
      BY Zenon, <1>0, <1>1, <2>3, ClientQuietStep
    <2> QED
      BY Zenon, <1>2, <2>1, <2>2, <2>3 DEF Client
  <1>3. ASSUME NEW t \in Thread, ServiceQueue(t) \/ SpuriousWakeup(t)
        PROVE  IInv' /\ (Queue!Next \/ (pending' = pending /\ Current' = Current))
    BY Zenon, <1>0, <1>1, <1>2, <1>3, ServiceStep DEF ServiceQueue, Agent
  <1>4. CASE Tick
    BY Zenon, <1>0, <1>1, <1>4, TickStep
  <1>5. ASSUME NEW a \in Agent, NEW id \in Nat, agent[a].pc # "call", AddToProcessQueue(a, id)
        PROVE  IInv' /\ (Queue!Next \/ (pending' = pending /\ Current' = Current))
    BY Zenon, <1>5, AddStep DEF Queue!Next
  <1>6. ASSUME NEW a \in Adder,
               \/ Notification(a) \/ SyncWithValidationInterfaceQueue(a)
               \/ Client(a) \/ PromiseSet(a) \/ Leave(a)
        PROVE  IInv' /\ (Queue!Next \/ (pending' = pending /\ Current' = Current))
    <2>1. a \in Agent /\ added + 1 \in Nat
      BY SchedulerAssumption DEF Agent, IInv, Types
    <2>2. CASE Notification(a)
      BY Zenon, <1>5, <2>1, <2>2 DEF Notification
    <2>3. CASE SyncWithValidationInterfaceQueue(a)
      BY Zenon, <1>5, <2>1, <2>3 DEF SyncWithValidationInterfaceQueue
    <2>4. CASE PromiseSet(a) \/ Leave(a)
      BY Zenon, <1>0, <1>1, <2>1, <2>4, AdderStep
    <2> QED
      BY Zenon, <1>2, <1>6, <2>1, <2>2, <2>3, <2>4
  <1>7. CASE \/ StartShutdown \/ NotifyAll \/ JoinAll \/ EmptyQueue \/ Down
             \/ \E drain \in BOOLEAN : Stop(drain)
             \/ \E x \in Timer : ScheduleEvery(x)
    BY Zenon, <1>0, <1>1, <1>7, MainStep
  <1>8. CASE Client(Main)
    BY Zenon, <1>2, <1>8 DEF Agent
  <1>9. CASE ForceFlushStateToDisk
    BY Zenon, <1>5, <1>9 DEF ForceFlushStateToDisk, Agent
  <1>10. CASE UNCHANGED vars
    BY Zenon, <1>10 DEF IInv, Types, Serial, NothingStranded, LookedAfter, Calling, Current, vars
  <1> QED
    BY Zenon, <1>3, <1>4, <1>6, <1>7, <1>8, <1>9, <1>10 DEF Next, PrepareShutdown, Over

-----------------------------------------------------------------------------

\* A callback that waits is never forgotten, for any number of threads that
\* serve the scheduler and of threads that add callbacks: MaybeSchedule-
\* ProcessQueue leaves it out only where somebody else looks at the queue.
THEOREM NeverStranded == Spec => []NothingStranded
  <1>1. Init => IInv
    BY Zenon, InitFacts
  <1>2. IInv /\ [Next]_vars => IInv'
    BY Zenon, Step
  <1>3. IInv => NothingStranded
    BY Zenon DEF IInv
  <1> QED
    BY <1>1, <1>2, <1>3, PTL DEF Spec

\* SingleThreadedSchedulerClient implements a queue whose callbacks run one at
\* a time in the order in which they were added, for any number of threads.
THEOREM Implements == Spec => QueueSpec
  <1>1. Init => IInv /\ Queue!Init
    BY Zenon, InitFacts
  <1>2. IInv /\ [Next]_vars => IInv'
    BY Zenon, Step
  <1>3. IInv /\ [Next]_vars => [Queue!Next]_(Queue!vars)
    BY Zenon, Step DEF Queue!vars, Current, Calling
  <1> QED
    BY <1>1, <1>2, <1>3, PTL DEF Spec, QueueSpec, Queue!Spec

-----------------------------------------------------------------------------
(* stop(true).  Where no importer is left to add callbacks, the last thread  *)
(* to end has seen taskQueue empty, and after it nobody is left who puts a   *)
(* task there before Main has joined the threads.                           *)

Joining == (\A t \in Thread : agent[t].pc = "off") /\ agent[Main].pc \in {"stopped", "join"}

DrainInv ==
    /\ agent[Main].pc \in {"up", "asked"} => stopping = "no"
    /\ stopping = "no" => \A t \in Thread : agent[t].pc # "off"
    /\ stopping # "no" => \A a \in Adder : agent[a].pc = "off"
    /\ stopping = "drain" /\ Joining => Empty

\* Only a moves, and threads that wait are woken.
OnlyMoves(a) ==
    \A b \in Agent : b = a \/ agent'[b].pc = agent[b].pc
                     \/ (b \in Thread /\ agent[b].pc # "off" /\ agent'[b].pc # "off")

LEMMA Moved ==
    ASSUME Types, NEW a \in Agent, NEW l,
           \/ Goto(a, l)
           \/ l \notin {"empty", "timed"} /\ NotifyOne([agent EXCEPT ![a].pc = l])
    PROVE  agent'[a].pc = l /\ OnlyMoves(a)
  <1> DEFINE A == [agent EXCEPT ![a].pc = l]
  <1>1. A[a].pc = l /\ \A b \in Agent : b # a => A[b] = agent[b]
    BY Zenon DEF Types, AgentType
  <1>2. CASE agent' = A
    BY Zenon, <1>1, <1>2 DEF OnlyMoves
  <1>3. ASSUME l \notin {"empty", "timed"}, NEW t \in Waiting(A), agent' = Wake(A, {t})
        PROVE  agent'[a].pc = l /\ OnlyMoves(a)
    <2>1. t \in Thread /\ t \in Agent /\ A[t].pc \in {"empty", "timed"}
      BY Zenon DEF Waiting, Agent
    <2>2. t # a
      BY Zenon, <1>1, <1>3, <2>1
    <2>3. \A b \in Agent : b # t => agent'[b] = A[b]
      BY Zenon, <1>3 DEF Wake
    <2>4. agent'[t] = [A[t] EXCEPT !.pc = CASE @ = "empty"       -> "seed"
                                            [] A[t].timer # None -> "top"
                                            [] OTHER             -> @]
      BY Zenon, <1>3, <2>1 DEF Wake
    <2>5. A[t] = agent[t] /\ agent[t] \in [pc : PC, id : Nat, timer : Timer \cup {None}]
      BY Zenon, <1>1, <2>1, <2>2 DEF Types, AgentType
    <2>6. agent[t].pc # "off" /\ agent'[t].pc # "off"
      BY Zenon, <2>1, <2>4, <2>5
    <2> HIDE DEF A
    <2> QED
      BY Zenon, <1>1, <2>1, <2>2, <2>3, <2>6 DEF OnlyMoves
  <1> QED
    BY Zenon, <1>2, <1>3 DEF Goto, NotifyOne

LEMMA Drains ==
    ASSUME DrainInv, NEW a \in Agent, OnlyMoves(a), agent[a].pc # "off", stopping' = stopping,
           a \in Thread /\ agent'[a].pc = "off" => ShouldStop /\ UNCHANGED queueVars,
           a = Main => /\ agent'[a].pc \in {"up", "asked"} => stopping = "no"
                       /\ agent'[a].pc # "stopped"
                       /\ agent'[a].pc = "join" => agent[a].pc = "stopped" /\ UNCHANGED queueVars
    PROVE  DrainInv'
  <1>0. Thread \subseteq Agent /\ Adder \subseteq Agent /\ Main \in Agent
        /\ Thread \cap Adder = {} /\ Main \notin Thread \cup Adder
    BY Zenon, SchedulerAssumption DEF Agent
  <1>1. CASE a \in Thread
    <2>1. agent'[Main].pc = agent[Main].pc /\ \A b \in Adder : agent'[b].pc = agent[b].pc
      BY Zenon, <1>0, <1>1 DEF OnlyMoves
    <2>2. \A t \in Thread : t # a => (agent'[t].pc = "off" <=> agent[t].pc = "off")
      BY Zenon, <1>0 DEF OnlyMoves
    <2>3. CASE agent'[a].pc = "off"
      <3>1. ShouldStop /\ due' = due /\ later' = later
        BY Zenon, <1>1, <2>3 DEF queueVars
      <3>2. stopping # "no" /\ (stopping = "drain" => Empty')
        BY Zenon, <3>1 DEF ShouldStop, Empty
      <3> QED
        BY Zenon, <2>1, <3>2 DEF DrainInv
    <2>4. CASE agent'[a].pc # "off"
      BY Zenon, <1>1, <2>1, <2>2, <2>4 DEF DrainInv, Joining
    <2> QED
      BY Zenon, <2>3, <2>4
  <1>2. CASE a \in Adder
    <2>1. stopping = "no"
      BY Zenon, <1>2 DEF DrainInv
    <2>2. \A t \in Thread : agent'[t].pc # "off"
      BY Zenon, <1>0, <1>2, <2>1 DEF DrainInv, OnlyMoves
    <2> QED
      BY Zenon, <2>1, <2>2 DEF DrainInv
  <1>3. CASE a = Main
    <2>1. \A b \in Adder : agent'[b].pc = agent[b].pc
      BY Zenon, <1>0, <1>3 DEF OnlyMoves
    <2>2. \A t \in Thread : agent'[t].pc = "off" <=> agent[t].pc = "off"
      BY Zenon, <1>0, <1>3 DEF OnlyMoves
    <2>3. stopping = "drain" /\ Joining' => Empty'
      BY Zenon, <1>3, <2>2 DEF DrainInv, Joining, Empty, queueVars
    <2> QED
      BY Zenon, <1>3, <2>1, <2>2, <2>3 DEF DrainInv
  <1> QED
    BY Zenon, <1>1, <1>2, <1>3 DEF Agent

LEMMA DrainClient ==
    ASSUME Types, DrainInv, NEW a \in Agent, Client(a)
    PROVE  DrainInv'
  <1>0. /\ Return(a) \notin {"off", "asked", "stopped", "join", "empty", "timed"}
        /\ a = Main /\ Return(a) = "up" => stopping = "no"
    BY Zenon, SchedulerAssumption DEF Return
  <1>1. agent[a].pc # "off" /\ stopping' = stopping
    BY Zenon DEF Client, NewTask, MaybeScheduleProcessQueue, ScheduleProcessQueue,
                 ProcessQueue, CallbackReturns
  <1>2. ASSUME NEW l, Goto(a, l) \/ NotifyOne([agent EXCEPT ![a].pc = l]),
               l \in {Return(a), "schedule", "notify"}
        PROVE  DrainInv'
    <2>1. l \notin {"off", "asked", "stopped", "join", "empty", "timed"}
          /\ (a = Main /\ l = "up" => stopping = "no")
      BY Zenon, <1>0, <1>2
    <2>2. agent'[a].pc = l /\ OnlyMoves(a)
      BY Zenon, <1>2, <2>1, Moved
    <2> QED
      BY Zenon, <1>1, <2>1, <2>2, Drains
  <1>3. ASSUME NEW l \in {"call", "check"}, NEW id,
               agent' = [agent EXCEPT ![a].pc = l, ![a].id = id]
        PROVE  DrainInv'
    <2>1. agent'[a].pc = l /\ OnlyMoves(a)
      BY Zenon, <1>3 DEF Types, AgentType, OnlyMoves
    <2> QED
      BY Zenon, <1>1, <2>1, Drains
  <1>4. CASE NewTask(a) \/ MaybeScheduleProcessQueue(a) \/ ScheduleProcessQueue(a)
    BY Zenon, <1>2, <1>4 DEF NewTask, MaybeScheduleProcessQueue, ScheduleProcessQueue
  <1>5. CASE ProcessQueue(a) \/ CallbackReturns(a)
    BY Zenon, <1>2, <1>3, <1>5 DEF ProcessQueue, CallbackReturns
  <1> QED
    BY Zenon, <1>4, <1>5 DEF Client

LEMMA DrainService ==
    ASSUME Types, DrainInv, NEW t \in Thread,
           LoopTop(t) \/ WaitForTask(t) \/ TakeTask(t) \/ Repeat(t) \/ SpuriousWakeup(t)
    PROVE  DrainInv'
  <1>0. t \in Agent /\ t # Main
    BY Zenon, SchedulerAssumption DEF Agent
  <1>1. agent[t].pc # "off" /\ stopping' = stopping
    BY Zenon DEF LoopTop, WaitForTask, TakeTask, Repeat, SpuriousWakeup, Waiting
  <1>2. ASSUME NEW sleep \in {"seed", "empty"}, Enter(t, sleep), UNCHANGED queueVars
        PROVE  DrainInv'
    <2>1. CASE ShouldStop /\ NotifyOne([agent EXCEPT ![t].pc = "off"])
      <3>1. OnlyMoves(t)
        BY Zenon, <1>0, <2>1, Moved
      <3> QED
        BY Zenon, <1>0, <1>1, <1>2, <2>1, <3>1, Drains
    <2>2. CASE Goto(t, sleep)
      <3>1. agent'[t].pc = sleep /\ OnlyMoves(t)
        BY Zenon, <1>0, <2>2, Moved
      <3> QED
        BY Zenon, <1>0, <1>1, <3>1, Drains
    <2>3. ASSUME NEW x, agent' = [agent EXCEPT ![t].pc = "timed", ![t].timer = x]
          PROVE  DrainInv'
      <3>1. agent'[t].pc = "timed" /\ OnlyMoves(t)
        BY Zenon, <1>0, <2>3 DEF Types, AgentType, OnlyMoves
      <3> QED
        BY Zenon, <1>0, <1>1, <3>1, Drains
    <2> QED
      BY Zenon, <1>2, <2>1, <2>2, <2>3 DEF Enter
  <1>3. ASSUME NEW l \in {"process", "repeat", "notify"}, NEW x,
               agent' = [agent EXCEPT ![t].pc = l] \/ agent' = [agent EXCEPT ![t].pc = l, ![t].timer = x]
        PROVE  DrainInv'
    <2>1. agent'[t].pc = l /\ OnlyMoves(t)
      BY Zenon, <1>0, <1>3 DEF Types, AgentType, OnlyMoves
    <2> QED
      BY Zenon, <1>0, <1>1, <2>1, Drains
  <1>4. CASE LoopTop(t) \/ WaitForTask(t)
    BY Zenon, <1>2, <1>4 DEF LoopTop, WaitForTask
  <1>5. CASE TakeTask(t)
    BY Zenon, <1>2, <1>3, <1>5 DEF TakeTask
  <1>6. CASE Repeat(t)
    BY Zenon, <1>3, <1>6 DEF Repeat
  <1>7. CASE SpuriousWakeup(t)
    <2>1. {t} \in SUBSET Waiting(agent) /\ agent \in AgentType /\ agent' = Wake(agent, {t})
      BY Zenon, <1>7 DEF SpuriousWakeup, Types
    <2>2. agent'[t].pc # "off" /\ \A b \in Agent : b # t => agent'[b] = agent[b]
      BY Zenon, <2>1, WakeFacts
    <2>3. OnlyMoves(t)
      BY Zenon, <2>2 DEF OnlyMoves
    <2> QED
      BY Zenon, <1>0, <1>1, <2>2, <2>3, Drains
  <1> QED
    BY Zenon, <1>4, <1>5, <1>6, <1>7

LEMMA DrainStep ==
    ASSUME Thread # {}, Importer = {}, Types, DrainInv, [Next]_vars
    PROVE  DrainInv'
  <1>0. Thread \subseteq Agent /\ Adder \subseteq Agent /\ Main \in Agent /\ Main \notin Thread \cup Adder
    BY Zenon, SchedulerAssumption DEF Agent
  <1>1. ASSUME NEW a \in Agent, NEW l, Goto(a, l), agent[a].pc # "off", stopping' = stopping,
               a = Main => /\ l \in {"up", "asked"} => stopping = "no"
                           /\ l \notin {"stopped", "join"},
               a \notin Thread
        PROVE  DrainInv'
    <2>1. agent'[a].pc = l /\ OnlyMoves(a)
      BY Zenon, <1>1, Moved
    <2> QED
      BY Zenon, <1>1, <2>1, Drains
  <1>2. ASSUME NEW a \in Agent, NEW l, l \notin {"up", "asked", "stopped", "join"}, NEW id,
               agent' = [agent EXCEPT ![a].pc = l, ![a].id = id],
               agent[a].pc # "off", stopping' = stopping, a \notin Thread
        PROVE  DrainInv'
    <2>1. agent'[a].pc = l /\ OnlyMoves(a)
      BY Zenon, <1>2 DEF Types, AgentType, OnlyMoves
    <2> QED
      BY Zenon, <1>2, <2>1, Drains
  <1>3. CASE \E t \in Thread : ServiceQueue(t) \/ SpuriousWakeup(t)
    BY Zenon, <1>0, <1>3, DrainService, DrainClient DEF ServiceQueue
  <1>4. CASE Tick
    <2>1. stopping' = stopping /\ later # <<>>
      BY Zenon, <1>4 DEF Tick
    <2>2. \A b \in Agent : agent'[b].pc = agent[b].pc
      <3> SUFFICES ASSUME NEW b \in Agent PROVE agent'[b].pc = agent[b].pc
        BY Zenon
      <3>1. agent[b] \in [pc : PC, id : Nat, timer : Timer \cup {None}]
        BY Zenon DEF Types, AgentType
      <3>2. agent'[b] = IF agent[b].pc = "timed" /\ agent[b].timer = Head(later)
                          THEN [agent[b] EXCEPT !.timer = None] ELSE agent[b]
        BY Zenon, <1>4 DEF Tick
      <3> QED
        BY Zenon, <3>1, <3>2
    <2>3. Joining' => Joining
      BY Zenon, <1>0, <2>2 DEF Joining
    <2> QED
      BY Zenon, <1>0, <2>1, <2>2, <2>3 DEF DrainInv, Empty
  <1>5. ASSUME NEW a \in Adder,
               \/ Notification(a) \/ SyncWithValidationInterfaceQueue(a)
               \/ Client(a) \/ PromiseSet(a) \/ Leave(a)
        PROVE  DrainInv'
    <2>1. a \in Agent /\ a \notin Thread /\ a # Main
      BY Zenon, <1>0, SchedulerAssumption
    <2>2. CASE Client(a)
      BY Zenon, <2>1, <2>2, DrainClient
    <2>3. CASE Leave(a)
      BY Zenon, <1>1, <2>1, <2>3 DEF Leave
    <2>4. CASE Notification(a) \/ SyncWithValidationInterfaceQueue(a) \/ PromiseSet(a)
      BY Zenon, <1>2, <2>1, <2>4 DEF Notification, SyncWithValidationInterfaceQueue,
                                     PromiseSet, AddToProcessQueue
    <2> QED
      BY Zenon, <1>5, <2>2, <2>3, <2>4
  <1>6. CASE \E x \in Timer : ScheduleEvery(x)
    BY Zenon, <1>0, <1>1, <1>6 DEF ScheduleEvery
  <1>7. CASE StartShutdown
    <2>1. stopping = "no" /\ agent[Main].pc # "off" /\ stopping' = stopping /\ Goto(Main, "asked")
      BY Zenon, <1>7 DEF StartShutdown, DrainInv
    <2> QED
      BY Zenon, <1>0, <1>1, <2>1
  <1>8. CASE \E drain \in BOOLEAN : Stop(drain)
    <2>1. PICK drain \in BOOLEAN : Stop(drain)
      BY Zenon, <1>8
    <2>2. stopping = "no" /\ (\A a \in Adder : agent[a].pc = "off") /\ stopping' # "no"
      BY Zenon, <2>1 DEF Stop, DrainInv
    <2>3. agent'[Main].pc = "stopped" /\ OnlyMoves(Main)
      BY Zenon, <1>0, <2>1, Moved DEF Stop
    <2>4. \A t \in Thread : agent'[t].pc # "off"
      BY Zenon, <1>0, <2>2, <2>3 DEF OnlyMoves, DrainInv
    <2>5. \A a \in Adder : agent'[a].pc = "off"
      BY Zenon, <1>0, <2>2, <2>3 DEF OnlyMoves
    <2>6. ~Joining'
      BY Zenon, <2>4 DEF Joining
    <2> QED
      BY Zenon, <2>2, <2>3, <2>5, <2>6 DEF DrainInv
  <1>9. CASE NotifyAll
    <2> DEFINE A == [agent EXCEPT ![Main].pc = "join"]
    <2>1. /\ agent[Main].pc = "stopped" /\ agent' = Wake(A, Waiting(agent))
          /\ UNCHANGED queueVars /\ stopping' = stopping
      BY Zenon, <1>9 DEF NotifyAll
    <2>2. A \in AgentType /\ A[Main].pc = "join" /\ \A b \in Agent : b # Main => A[b] = agent[b]
      BY Zenon, <1>0 DEF Types, AgentType, PC
    <2>3. Waiting(agent) \in SUBSET Waiting(A) /\ Main \notin Waiting(agent)
          /\ \A t \in Waiting(agent) : t \in Thread /\ agent[t].pc # "off"
      BY Zenon, <1>0, <2>2 DEF Waiting
    <2> HIDE DEF A
    <2>4. /\ \A b \in Agent : b \notin Waiting(agent) => agent'[b] = A[b]
          /\ \A b \in Waiting(agent) : agent'[b].pc \in {"seed", "top", "timed"}
      BY Zenon, <2>1, <2>2, <2>3, WakeFacts
    <2>5. agent'[Main].pc = "join" /\ OnlyMoves(Main)
      BY Zenon, <1>0, <2>2, <2>3, <2>4 DEF OnlyMoves
    <2> QED
      BY Zenon, <1>0, <2>1, <2>5, Drains
  <1>10. CASE JoinAll \/ EmptyQueue \/ Down
    BY Zenon, <1>0, <1>1, <1>10 DEF JoinAll, EmptyQueue, Down
  <1>11. CASE ForceFlushStateToDisk
    BY Zenon, <1>0, <1>2, <1>11 DEF ForceFlushStateToDisk, AddToProcessQueue
  <1>12. CASE Client(Main)
    BY Zenon, <1>0, <1>12, DrainClient
  <1>13. CASE UNCHANGED vars
    BY Zenon, <1>13 DEF DrainInv, Joining, Empty, vars
  <1> QED
    BY Zenon, <1>3, <1>4, <1>5, <1>6, <1>7, <1>8, <1>9, <1>10, <1>11, <1>12, <1>13
       DEF Next, PrepareShutdown, Over

\* stop(true) loses no callback, for any number of threads in serviceQueue
\* and of threads that add callbacks, where threadGroup joins none of the
\* latter: an importer may still add a callback while the queue drains, and
\* no thread may be left to run it.
THEOREM DrainIsComplete ==
    ASSUME Thread # {}, Importer = {}
    PROVE  Spec => []DrainRunsAll
  <1>1. Init => IInv /\ DrainInv
    <2> SUFFICES ASSUME Init PROVE DrainInv
      BY Zenon, InitFacts
    <2> DEFINE p(a) == CASE a \in Thread -> "top" [] a \in Adder -> "idle" [] OTHER -> "up"
    <2>1. stopping = "no" /\ agent = [a \in Agent |-> [pc |-> p(a), id |-> 0, timer |-> None]]
      BY Zenon DEF Init
    <2>2. \A t \in Thread : t \in Agent /\ p(t) = "top"
      BY SchedulerAssumption DEF Agent
    <2> HIDE DEF p
    <2>3. \A t \in Thread : agent[t].pc = "top"
      BY Zenon, <2>1, <2>2
    <2> QED
      BY Zenon, <2>1, <2>3 DEF DrainInv
  <1>2. IInv /\ DrainInv /\ [Next]_vars => (IInv /\ DrainInv)'
    BY Zenon, Step, DrainStep DEF IInv
  <1>3. IInv /\ DrainInv => DrainRunsAll
    <2> SUFFICES ASSUME IInv, DrainInv, stopping = "drain", \A t \in Thread : agent[t].pc = "off",
                        agent[Main].pc = "join"
                 PROVE  pending = <<>>
      BY Zenon DEF DrainRunsAll
    <2>1. Empty /\ \A a \in Adder : agent[a].pc = "off"
      BY Zenon DEF DrainInv, Joining
    <2>2. \A a \in Agent : agent[a].pc \in {"off", "join"}
      BY Zenon, <2>1 DEF Agent
    <2>3. Calling = {} /\ flag # "set"
      BY Zenon, <2>2 DEF Calling, IInv, Serial
    <2>4. DOMAIN due = {}
      BY <2>1 DEF Empty
    <2>5. ~LookedAfter
      BY Zenon, <2>2, <2>3, <2>4 DEF LookedAfter
    <2> QED
      BY Zenon, <2>5 DEF IInv, NothingStranded
  <1> QED
    BY <1>1, <1>2, <1>3, PTL DEF Spec

=============================================================================
