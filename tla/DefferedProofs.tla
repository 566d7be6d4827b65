--------------------------- MODULE DefferedProofs ---------------------------
(***************************************************************************)
(* Theorems about Deffered, for any threads, callbacks, results and        *)
(* contexts.                                                               *)
(***************************************************************************)
EXTENDS Deffered, TLAPS

\* The lock is held by the thread that is in the loop, and no other is there.
LockInv == \A t \in Threads : pc[t] \in {"trigger", "pop"} => lock = t

\* Between execute and pop the callback executed is still queued.
PopInv == \A t \in Threads : pc[t] = "pop" => callbacks # <<>>

LoopInv == TypeOK /\ LockInv /\ PopInv

-----------------------------------------------------------------------------
\* The two ends of a queue that is not empty.
LEMMA HeadTail ==
    ASSUME NEW S, NEW s \in Seq(S), s # <<>>
    PROVE  Head(s) \in S /\ Tail(s) \in Seq(S)
OBVIOUS

LEMMA AppendNonempty ==
    ASSUME NEW S, NEW s \in Seq(S), NEW x \in S
    PROVE  Append(s, x) \in Seq(S) /\ Append(s, x) # <<>>
<1>1. Append(s, x) \in Seq(S)
  OBVIOUS
<1>2. Len(Append(s, x)) = Len(s) + 1 /\ Len(s) \in Nat
  OBVIOUS
<1>3. Len(<<>>) = 0
  OBVIOUS
<1>4. QED
  BY <1>1, <1>2, <1>3

\* An entry that is not for the immediate context is for one of the queues.
LEMMA EntryFields ==
    ASSUME NEW e \in Entries
    PROVE  /\ e.cb \in Callbacks
           /\ e.ctx # Immediate => e.ctx \in Queues
BY DEF Entries

LEMMA DeliveryType ==
    ASSUME TypeOK, value # NoResult, NEW cb \in Callbacks
    PROVE  Delivery(cb) \in Deliveries
BY DEF TypeOK, Delivery, Deliveries

\* What is logged of a delivery, however it ended.
LEMMA RunType ==
    ASSUME NEW d \in Deliveries, NEW end \in {"returned", "threw"}
    PROVE  /\ Run(d, end) \in Runs
           /\ Run(d, end).cb = d.cb
           /\ Run(d, end).result = d.result
           /\ Run(d, end).end = end
BY DEF Run, Runs, Deliveries

\* A turn of the loop on the immediate context logs one run of the head.
LEMMA InlineRun ==
    ASSUME TypeOK, NEW t \in Threads, RunInline(t)
    PROVE  \E run \in Runs :
              /\ log' = Append(log, run)
              /\ run.cb = Head(callbacks).cb
              /\ run.result = value
              /\ run.end = "returned" => pc' = [pc EXCEPT ![t] = "pop"]
<1>1. Head(callbacks) \in Entries
  BY HeadTail DEF RunInline, TypeOK
<1> DEFINE d == Delivery(Head(callbacks).cb)
<1>2. d \in Deliveries /\ d.cb = Head(callbacks).cb /\ d.result = value
  BY <1>1, EntryFields, DeliveryType DEF RunInline, Delivery
<1>3. \/ /\ log' = Append(log, Run(d, "returned"))
         /\ pc' = [pc EXCEPT ![t] = "pop"]
      \/ log' = Append(log, Run(d, "threw"))
  BY DEF RunInline, Goto
<1> HIDE DEF d
<1>4. CASE /\ log' = Append(log, Run(d, "returned"))
           /\ pc' = [pc EXCEPT ![t] = "pop"]
  BY <1>2, <1>4, RunType
<1>5. CASE log' = Append(log, Run(d, "threw"))
  <2>1. Run(d, "threw").end # "returned"
    BY <1>2, RunType
  <2> QED BY <1>2, <1>5, <2>1, RunType
<1> QED BY <1>3, <1>4, <1>5

LEMMA LoopInvInit == Init => LoopInv
BY DEF Init, LoopInv, TypeOK, LockInv, PopInv, Places

LEMMA LoopInvNext == LoopInv /\ [Next]_vars => LoopInv'
<1> SUFFICES ASSUME LoopInv, [Next]_vars PROVE LoopInv'
  OBVIOUS
<1> USE NoThreadAssumption DEF LoopInv, LockInv, PopInv
<1>1. ASSUME NEW t \in Threads, NEW r \in Results, SetResult(t, r)
      PROVE  LoopInv'
  BY <1>1 DEF TypeOK, SetResult, Goto, Places
<1>2. ASSUME NEW t \in Threads, NEW r \in Results, SetValue(t, r)
      PROVE  LoopInv'
  BY <1>2 DEF TypeOK, SetValue, Goto, Places
<1>3. ASSUME NEW t \in Threads, NEW cb \in Callbacks,
             NEW ctx \in Queues \cup {Immediate}, AddCallback(t, cb, ctx)
      PROVE  LoopInv'
  <2>1. [cb |-> cb, ctx |-> ctx] \in Entries
    BY DEF Entries
  <2>2. /\ registered' \in Seq(Entries)
        /\ callbacks' \in Seq(Entries)
        /\ callbacks' # <<>>
    BY <1>3, <2>1, AppendNonempty DEF AddCallback, TypeOK
  <2>3. QED
    BY <1>3, <2>2 DEF TypeOK, AddCallback, Goto, Places
<1>4. ASSUME NEW t \in Threads, Trigger(t) PROVE LoopInv'
  BY <1>4 DEF TypeOK, Trigger, Goto, Places
<1>5. ASSUME NEW t \in Threads, Post(t) PROVE LoopInv'
  <2>1. Head(callbacks) \in Entries
    BY <1>5, HeadTail DEF TypeOK, Post
  <2>2. /\ Head(callbacks).ctx \in Queues
        /\ Delivery(Head(callbacks).cb) \in Deliveries
    BY <1>5, <2>1, EntryFields, DeliveryType DEF Post
  <2>3. tasks' \in [Queues -> Seq(Deliveries)]
    BY <1>5, <2>2 DEF Post, TypeOK
  <2>4. QED
    BY <1>5, <2>3 DEF TypeOK, Post, Goto, Places
<1>6. ASSUME NEW t \in Threads, RunInline(t) PROVE LoopInv'
  <2>0. PICK run \in Runs : log' = Append(log, run)
    BY <1>6, InlineRun
  <2>1. log' \in Seq(Runs)
    BY <2>0, AppendNonempty DEF TypeOK
  <2>2. QED
    BY <1>6, <2>1 DEF TypeOK, RunInline, Goto, Places
<1>7. ASSUME NEW t \in Threads, Pop(t) PROVE LoopInv'
  <2>1. callbacks' \in Seq(Entries)
    BY <1>7, HeadTail DEF TypeOK, Pop
  <2>2. QED
    BY <1>7, <2>1 DEF TypeOK, Pop, Goto, Places
<1>8. ASSUME NEW t \in Threads, Release(t) PROVE LoopInv'
  BY <1>8 DEF TypeOK, Release, Goto, Places
<1>9. ASSUME NEW q \in Queues, RunTask(q) PROVE LoopInv'
  <2>1. tasks[q] \in Seq(Deliveries)
    BY DEF TypeOK
  <2>2. Head(tasks[q]) \in Deliveries /\ Tail(tasks[q]) \in Seq(Deliveries)
    BY <1>9, <2>1, HeadTail DEF RunTask
  <2>3. /\ log' \in Seq(Runs)
        /\ tasks' \in [Queues -> Seq(Deliveries)]
    BY <1>9, <2>2, RunType, AppendNonempty DEF RunTask, TypeOK
  <2>4. QED
    BY <1>9, <2>3 DEF TypeOK, RunTask
<1>10. CASE UNCHANGED vars
  BY <1>10 DEF TypeOK, vars
<1>11. QED
  BY <1>1, <1>2, <1>3, <1>4, <1>5, <1>6, <1>7, <1>8, <1>9, <1>10
     DEF Next, Proceed

THEOREM LoopCorrect == Spec => []LoopInv
BY LoopInvInit, LoopInvNext, PTL DEF Spec

\* Every variable keeps its type: what is queued, posted and delivered is a
\* registered callback with a result, never an empty value.
THEOREM TypeCorrect == Spec => []TypeOK
<1>1. LoopInv => TypeOK
  BY DEF LoopInv
<1>2. QED
  BY <1>1, LoopCorrect, PTL

-----------------------------------------------------------------------------
\* What a context has still to run carries the value too.
TasksAgree ==
    \A q \in Queues : \A i \in 1..Len(tasks[q]) : tasks[q][i].result = value

AgreementInv == LoopInv /\ Agreement /\ TasksAgree

\* Appending to a sequence leaves its elements where they are.
LEMMA AppendElements ==
    ASSUME NEW S, NEW s \in Seq(S), NEW x \in S,
           NEW i \in 1..Len(Append(s, x))
    PROVE  \/ i \in 1..Len(s) /\ Append(s, x)[i] = s[i]
           \/ i = Len(s) + 1 /\ Append(s, x)[i] = x
OBVIOUS

LEMMA TailElements ==
    ASSUME NEW S, NEW s \in Seq(S), s # <<>>, NEW i \in 1..Len(Tail(s))
    PROVE  i + 1 \in 1..Len(s) /\ Tail(s)[i] = s[i + 1]
OBVIOUS

\* Nothing was posted or delivered before there was a value.
LEMMA NothingBefore ==
    ASSUME AgreementInv, value = NoResult
    PROVE  /\ \A i \in 1..Len(log) : FALSE
           /\ \A q \in Queues : \A i \in 1..Len(tasks[q]) : FALSE
<1>1. ASSUME NEW i \in 1..Len(log) PROVE FALSE
  <2>1. log[i] \in Runs
    BY DEF AgreementInv, LoopInv, TypeOK
  <2>2. QED
    BY <2>1, NoResultAssumption DEF AgreementInv, Agreement, Runs
<1>2. ASSUME NEW q \in Queues, NEW i \in 1..Len(tasks[q]) PROVE FALSE
  <2>1. tasks[q] \in Seq(Deliveries)
    BY DEF AgreementInv, LoopInv, TypeOK
  <2>2. tasks[q][i] \in Deliveries
    BY <2>1
  <2>3. QED
    BY <2>2, NoResultAssumption DEF AgreementInv, TasksAgree, Deliveries
<1>3. QED
  BY <1>1, <1>2

LEMMA AgreementNext == AgreementInv /\ [Next]_vars => AgreementInv'
<1> SUFFICES ASSUME AgreementInv, [Next]_vars PROVE Agreement' /\ TasksAgree'
  BY LoopInvNext DEF AgreementInv
<1> USE DEF Agreement, TasksAgree
<1>1. CASE value' # value
  <2>1. value = NoResult /\ UNCHANGED <<tasks, log>>
    BY <1>1 DEF Next, Proceed, vars, SetResult, SetValue, AddCallback, Trigger,
                Post, RunInline, Pop, Release, RunTask
  <2>2. QED
    BY <2>1, NothingBefore
<1>2. CASE value' = value /\ UNCHANGED <<tasks, log>>
  BY <1>2 DEF AgreementInv
<1>3. ASSUME NEW t \in Threads, Post(t) PROVE Agreement' /\ TasksAgree'
  <2>1. Head(callbacks) \in Entries
    BY <1>3, HeadTail DEF Post, AgreementInv, LoopInv, TypeOK
  <2> DEFINE d == Delivery(Head(callbacks).cb)
             c == Head(callbacks).ctx
  <2>2. /\ c \in Queues
        /\ d \in Deliveries
        /\ d.result = value
    BY <1>3, <2>1, EntryFields, DeliveryType
       DEF Post, AgreementInv, LoopInv, Delivery
  <2>3. /\ value' = value /\ log' = log
        /\ tasks' = [tasks EXCEPT ![c] = Append(@, d)]
    BY <1>3 DEF Post
  <2> HIDE DEF d, c
  <2>4. ASSUME NEW q \in Queues, NEW i \in 1..Len(tasks'[q])
        PROVE  tasks'[q][i].result = value
    <3>1. tasks \in [Queues -> Seq(Deliveries)]
      BY DEF AgreementInv, LoopInv, TypeOK
    <3>2. CASE q # c
      BY <3>2, <3>1, <2>3 DEF AgreementInv
    <3>3. CASE q = c
      <4>1. tasks'[q] = Append(tasks[q], d) /\ tasks[q] \in Seq(Deliveries)
        BY <3>3, <3>1, <2>2, <2>3
      <4>2. QED
        BY <4>1, <2>2, AppendElements DEF AgreementInv
    <3>4. QED
      BY <3>2, <3>3
  <2>5. QED
    BY <2>3, <2>4 DEF AgreementInv
<1>4. ASSUME NEW t \in Threads, RunInline(t) PROVE Agreement' /\ TasksAgree'
  <2>1. PICK run \in Runs : log' = Append(log, run) /\ run.result = value
    BY <1>4, InlineRun DEF AgreementInv, LoopInv
  <2>2. value' = value /\ tasks' = tasks /\ log \in Seq(Runs)
    BY <1>4 DEF RunInline, AgreementInv, LoopInv, TypeOK
  <2>3. QED
    BY <2>1, <2>2, AppendElements DEF AgreementInv
<1>5. ASSUME NEW q \in Queues, RunTask(q) PROVE Agreement' /\ TasksAgree'
  <2> DEFINE d == Head(tasks[q])
  <2>1. /\ tasks \in [Queues -> Seq(Deliveries)]
        /\ log \in Seq(Runs)
        /\ tasks[q] \in Seq(Deliveries)
        /\ tasks[q] # <<>>
    BY <1>5 DEF RunTask, AgreementInv, LoopInv, TypeOK
  <2> DEFINE run == Run(d, "returned")
  <2>2. run \in Runs /\ run.result = value
    BY <2>1, RunType DEF AgreementInv
  <2>3. /\ value' = value /\ log' = Append(log, run)
        /\ tasks' = [tasks EXCEPT ![q] = Tail(@)]
    BY <1>5 DEF RunTask
  <2> HIDE DEF d, run
  <2>4. Agreement'
    BY <2>1, <2>2, <2>3, AppendElements DEF AgreementInv
  <2>5. ASSUME NEW p \in Queues, NEW i \in 1..Len(tasks'[p])
        PROVE  tasks'[p][i].result = value
    <3>1. CASE p # q
      BY <3>1, <2>1, <2>3 DEF AgreementInv
    <3>2. CASE p = q
      <4>1. tasks'[p] = Tail(tasks[q])
        BY <3>2, <2>1, <2>3
      <4>2. QED
        BY <4>1, <2>1, TailElements DEF AgreementInv
    <3>3. QED
      BY <3>1, <3>2
  <2>6. QED
    BY <2>3, <2>4, <2>5
<1>6. QED
  BY <1>1, <1>2, <1>3, <1>4, <1>5
     DEF Next, Proceed, vars, SetResult, SetValue, AddCallback, Trigger,
         Pop, Release

\* Every callback that ran was given the value the deffered now holds.
THEOREM AgreementHolds == Spec => []Agreement
<1>1. Init => AgreementInv
  <2>1. Init => Agreement /\ TasksAgree
    BY DEF Init, Agreement, TasksAgree
  <2>2. QED
    BY <2>1, LoopInvInit DEF AgreementInv
<1>2. AgreementInv => Agreement
  BY DEF AgreementInv
<1>3. QED
  BY <1>1, <1>2, AgreementNext, PTL DEF Spec

\* A callback left in the queue of a completed deffered has a thread on its way,
\* unless one that threw is in front of it.
THEOREM NoneIsStranded == Spec => []NoneStranded
<1>1. Init => NoneStranded
  BY DEF Init, NoneStranded
<1>2. LoopInv /\ NoneStranded /\ [Next]_vars => NoneStranded'
  <2> SUFFICES ASSUME LoopInv, NoneStranded, [Next]_vars,
                      value' # NoResult, callbacks' # <<>>, ~Blocked'
               PROVE  \E t \in Threads : pc'[t] # "idle"
    BY DEF NoneStranded
  <2> USE DEF LoopInv, TypeOK, Goto
  <2>1. ASSUME NEW t \in Threads, NEW r \in Results,
               SetResult(t, r) \/ SetValue(t, r)
        PROVE  \E u \in Threads : pc'[u] # "idle"
    BY <2>1 DEF SetResult, SetValue
  <2>2. ASSUME NEW t \in Threads, NEW cb \in Callbacks,
               NEW ctx \in Queues \cup {Immediate}, AddCallback(t, cb, ctx)
        PROVE  \E u \in Threads : pc'[u] # "idle"
    BY <2>2 DEF AddCallback
  <2>3. ASSUME NEW t \in Threads, Trigger(t) \/ Post(t) \/ Pop(t)
        PROVE  \E u \in Threads : pc'[u] # "idle"
    BY <2>3 DEF Trigger, Post, Pop
  \* The run just logged is one that returned, or the queue is blocked.
  <2>7. ASSUME NEW t \in Threads, RunInline(t)
        PROVE  \E u \in Threads : pc'[u] # "idle"
    <3>1. PICK run \in Runs :
             /\ log' = Append(log, run)
             /\ run.cb = Head(callbacks).cb
             /\ run.end = "returned" => pc' = [pc EXCEPT ![t] = "pop"]
      BY <2>7, InlineRun
    <3>2. CASE run.end = "returned"
      BY <3>1, <3>2
    <3>3. CASE run.end = "threw"
      <4>1. /\ Len(log) + 1 \in 1..Len(log')
            /\ log'[Len(log) + 1] = run
        BY <3>1
      <4>2. callbacks' = callbacks
        BY <2>7 DEF RunInline
      <4> QED BY <3>1, <3>3, <4>1, <4>2 DEF Blocked
    <3> QED BY <3>1, <3>2, <3>3 DEF Runs
  <2>4. ASSUME NEW t \in Threads, Release(t) PROVE FALSE
    BY <2>4 DEF Release
  <2>5. CASE UNCHANGED vars
    BY <2>5 DEF vars, NoneStranded, Blocked
  <2>8. ASSUME NEW q \in Queues, RunTask(q)
        PROVE  \E u \in Threads : pc'[u] # "idle"
    <3>1. UNCHANGED <<value, callbacks, pc>>
      BY <2>8 DEF RunTask
    <3>2. Blocked => Blocked'
      <4>1. \A i \in 1..Len(log) :
               i \in 1..Len(log') /\ log'[i] = log[i]
        <5>1. tasks[q] \in Seq(Deliveries) /\ tasks[q] # <<>>
          BY <2>8 DEF RunTask
        <5>2. PICK run \in Runs : log' = Append(log, run)
          BY <2>8, <5>1, HeadTail, RunType DEF RunTask
        <5> QED BY <5>2
      <4> QED BY <3>1, <4>1 DEF Blocked
    <3> QED BY <3>1, <3>2 DEF NoneStranded
  <2>6. QED
    BY <2>1, <2>2, <2>3, <2>4, <2>5, <2>7, <2>8 DEF Next, Proceed
<1>3. QED
  BY <1>1, <1>2, LoopCorrect, PTL DEF Spec

-----------------------------------------------------------------------------
\* Handed over: already run, to its end or not, or posted to a context.
Ran(cb) == \E i \in 1..Len(log) : log[i].cb = cb
Done(cb) == \E i \in 1..Len(log) : log[i].cb = cb /\ log[i].end # "threw"
Posted(cb) == \E q \in Queues : \E i \in 1..Len(tasks[q]) : tasks[q][i].cb = cb

\* The queue holds each registration once.
QueueOnce ==
    /\ \A i, j \in 1..Len(callbacks) : callbacks[i].cb = callbacks[j].cb => i = j
    /\ \A i \in 1..Len(callbacks) : IsRegistered(callbacks[i].cb)

\* Only what was registered is handed over.
HandedRegistered ==
    \A cb \in Callbacks : Ran(cb) \/ Posted(cb) => IsRegistered(cb)

\* A queued callback was handed over, and did not throw, only if it is the one
\* about to be popped.
QueuedNotHanded ==
    \A i \in 1..Len(callbacks) :
        Done(callbacks[i].cb) \/ Posted(callbacks[i].cb)
        => i = 1 /\ \E t \in Threads : pc[t] = "pop"

\* What is posted has not run to its end, and is posted once.
PostedOnce ==
    \A q \in Queues : \A i \in 1..Len(tasks[q]) :
        /\ ~Done(tasks[q][i].cb)
        /\ \A p \in Queues : \A j \in 1..Len(tasks[p]) :
              tasks[p][j].cb = tasks[q][i].cb => p = q /\ j = i

OnceInv ==
    /\ LoopInv
    /\ QueueOnce
    /\ HandedRegistered
    /\ QueuedNotHanded
    /\ PostedOnce
    /\ RunOnce

\* A thread in the loop is alone in it.
LEMMA AloneInLoop ==
    ASSUME LoopInv, NEW t \in Threads, pc[t] = "trigger",
           NEW u \in Threads, pc[u] = "pop"
    PROVE  FALSE
BY DEF LoopInv, LockInv

\* The callback at the head of the queue, before its turn of the loop.
LEMMA HeadFresh ==
    ASSUME OnceInv, NEW t \in Threads, pc[t] = "trigger", callbacks # <<>>
    PROVE  ~Done(Head(callbacks).cb) /\ ~Posted(Head(callbacks).cb)
<1>1. callbacks \in Seq(Entries) /\ 1 \in 1..Len(callbacks)
      /\ Head(callbacks) = callbacks[1]
  BY DEF OnceInv, LoopInv, TypeOK
<1>2. QED
  BY <1>1, AloneInLoop DEF OnceInv, QueuedNotHanded

LEMMA HeadRegistered ==
    ASSUME OnceInv, callbacks # <<>>
    PROVE  IsRegistered(Head(callbacks).cb)
<1>1. callbacks \in Seq(Entries) /\ 1 \in 1..Len(callbacks)
      /\ Head(callbacks) = callbacks[1]
  BY DEF OnceInv, LoopInv, TypeOK
<1>2. QED
  BY <1>1 DEF OnceInv, QueueOnce

LEMMA OnceInvNext == OnceInv /\ [Next]_vars => OnceInv'
<1> SUFFICES ASSUME OnceInv, [Next]_vars
             PROVE  (/\ QueueOnce
                     /\ HandedRegistered
                     /\ QueuedNotHanded
                     /\ PostedOnce
                     /\ RunOnce)'
  BY LoopInvNext DEF OnceInv
<1> DEFINE Goal == (/\ QueueOnce
                    /\ HandedRegistered
                    /\ QueuedNotHanded
                    /\ PostedOnce
                    /\ RunOnce)'
<1>0. /\ callbacks \in Seq(Entries)
      /\ registered \in Seq(Entries)
      /\ log \in Seq(Runs)
      /\ tasks \in [Queues -> Seq(Deliveries)]
      /\ \A q \in Queues : tasks[q] \in Seq(Deliveries)
      /\ pc \in [Threads -> Places]
  BY DEF OnceInv, LoopInv, TypeOK
\* The steps that move neither a callback nor a thread out of "pop".
<1>1. ASSUME UNCHANGED <<callbacks, tasks, registered, log>>,
             \A t \in Threads : pc[t] = "pop" => pc'[t] = "pop"
      PROVE  Goal
  <2>1. \A c : /\ Ran(c)' <=> Ran(c)
               /\ Done(c)' <=> Done(c)
               /\ Posted(c)' <=> Posted(c)
               /\ IsRegistered(c)' <=> IsRegistered(c)
    BY <1>1 DEF Ran, Done, Posted, IsRegistered
  <2>2. QueueOnce' /\ HandedRegistered'
    BY <1>1, <2>1 DEF OnceInv, QueueOnce, HandedRegistered
  <2>3. QueuedNotHanded'
    BY <1>1, <2>1 DEF OnceInv, QueuedNotHanded
  <2>4. PostedOnce' /\ RunOnce'
    BY <1>1, <2>1 DEF OnceInv, PostedOnce, RunOnce
  <2>5. QED
    BY <2>2, <2>3, <2>4
<1>2. ASSUME NEW t \in Threads, NEW cb \in Callbacks,
             NEW ctx \in Queues \cup {Immediate}, AddCallback(t, cb, ctx)
      PROVE  Goal
  <2> DEFINE e == [cb |-> cb, ctx |-> ctx]
  <2>1. /\ ~IsRegistered(cb)
        /\ e \in Entries /\ e.cb = cb
        /\ registered' = Append(registered, e)
        /\ callbacks' = Append(callbacks, e)
        /\ UNCHANGED <<tasks, log>>
        /\ \A u \in Threads : pc[u] = "pop" => pc'[u] = "pop"
    BY <1>2, <1>0 DEF AddCallback, Goto, Entries
  <2> HIDE DEF e
  <2>2. \A c \in Callbacks : IsRegistered(c)' <=> IsRegistered(c) \/ c = cb
    <3>1. ASSUME NEW c \in Callbacks, IsRegistered(c) PROVE IsRegistered(c)'
      <4>1. PICK i \in 1..Len(registered) : registered[i].cb = c
        BY <3>1 DEF IsRegistered
      <4>2. i \in 1..Len(registered') /\ registered'[i] = registered[i]
        BY <4>1, <2>1, <1>0
      <4>3. QED
        BY <4>1, <4>2 DEF IsRegistered
    <3>2. IsRegistered(cb)'
      <4>1. /\ Len(registered) + 1 \in 1..Len(registered')
            /\ registered'[Len(registered) + 1] = e
        BY <2>1, <1>0
      <4>2. QED
        BY <4>1, <2>1 DEF IsRegistered
    <3>3. ASSUME NEW c \in Callbacks, IsRegistered(c)'
          PROVE  IsRegistered(c) \/ c = cb
      BY <3>3, <2>1, <1>0, AppendElements DEF IsRegistered
    <3>4. QED
      BY <3>1, <3>2, <3>3
  <2>3. \A i \in 1..Len(callbacks') :
           \/ i \in 1..Len(callbacks) /\ callbacks'[i] = callbacks[i]
           \/ i = Len(callbacks) + 1 /\ callbacks'[i] = e
    BY <2>1, <1>0, AppendElements
  <2>4. \A i \in 1..Len(callbacks) : /\ callbacks[i].cb # cb
                                     /\ callbacks[i].cb \in Callbacks
    <3>1. \A i \in 1..Len(callbacks) : callbacks[i] \in Entries
      BY <1>0
    <3>2. QED
      BY <2>1, <3>1, EntryFields DEF OnceInv, QueueOnce
  <2>5. ~Done(cb) /\ ~Posted(cb)
    BY <2>1 DEF OnceInv, HandedRegistered, Ran, Done
  <2>6. \A c : /\ Ran(c)' <=> Ran(c)
               /\ Done(c)' <=> Done(c)
               /\ Posted(c)' <=> Posted(c)
    BY <2>1 DEF Ran, Done, Posted
  <2>7. QueueOnce'
    BY <2>1, <2>2, <2>3, <2>4, SMTT(30) DEF OnceInv, QueueOnce
  <2>8. HandedRegistered'
    BY <2>2, <2>6 DEF OnceInv, HandedRegistered
  <2>9. QueuedNotHanded'
    BY <2>1, <2>3, <2>5, <2>6 DEF OnceInv, QueuedNotHanded
  <2>10. PostedOnce' /\ RunOnce'
    BY <2>1, <2>6 DEF OnceInv, PostedOnce, RunOnce
  <2>11. QED
    BY <2>7, <2>8, <2>9, <2>10
<1>3. ASSUME NEW t \in Threads, Pop(t) PROVE Goal
  <2>1. /\ callbacks # <<>>
        /\ callbacks' = Tail(callbacks)
        /\ UNCHANGED <<tasks, registered, log>>
    BY <1>3 DEF Pop, OnceInv, LoopInv, PopInv
  <2>2. \A i \in 1..Len(callbacks') :
           /\ i + 1 \in 1..Len(callbacks)
           /\ i + 1 # 1
           /\ callbacks'[i] = callbacks[i + 1]
    BY <2>1, <1>0, TailElements
  <2>3. \A c : /\ Ran(c)' <=> Ran(c)
               /\ Done(c)' <=> Done(c)
               /\ Posted(c)' <=> Posted(c)
               /\ IsRegistered(c)' <=> IsRegistered(c)
    BY <2>1 DEF Ran, Done, Posted, IsRegistered
  <2>4. QueueOnce'
    <3>1. ASSUME NEW i \in 1..Len(callbacks'), NEW j \in 1..Len(callbacks'),
                 callbacks'[i].cb = callbacks'[j].cb
          PROVE  i = j
      <4>1. i + 1 = j + 1
        BY <3>1, <2>2 DEF OnceInv, QueueOnce
      <4>2. QED
        BY <4>1
    <3>2. QED
      BY <3>1, <2>2, <2>3 DEF OnceInv, QueueOnce
  <2>5. QueuedNotHanded'
    BY <2>2, <2>3 DEF OnceInv, QueuedNotHanded
  <2>6. HandedRegistered' /\ PostedOnce' /\ RunOnce'
    BY <2>1, <2>3 DEF OnceInv, HandedRegistered, PostedOnce, RunOnce
  <2>7. QED
    BY <2>4, <2>5, <2>6
<1>4. ASSUME NEW t \in Threads, Post(t) PROVE Goal
  <2> DEFINE d == Delivery(Head(callbacks).cb)
             c == Head(callbacks).ctx
             b == Head(callbacks).cb
  <2>1. /\ Head(callbacks) \in Entries
        /\ callbacks # <<>>
        /\ pc[t] = "trigger"
    BY <1>4, <1>0, HeadTail DEF Post
  <2>2. /\ c \in Queues
        /\ d \in Deliveries
        /\ d.cb = b
        /\ b \in Callbacks
        /\ b = callbacks[1].cb
    BY <1>4, <2>1, <1>0, EntryFields, DeliveryType
       DEF Post, OnceInv, LoopInv, Delivery
  <2>3. /\ tasks' = [tasks EXCEPT ![c] = Append(@, d)]
        /\ UNCHANGED <<callbacks, registered, log>>
        /\ pc'[t] = "pop"
    BY <1>4, <1>0 DEF Post, Goto
  <2>4. ~Done(b) /\ ~Posted(b)
    BY <2>1, HeadFresh
  <2>5. IsRegistered(b)
    BY <2>1, HeadRegistered
  <2> HIDE DEF d, c, b
  <2>6. \A q \in Queues : \A i \in 1..Len(tasks'[q]) :
           \/ i \in 1..Len(tasks[q]) /\ tasks'[q][i] = tasks[q][i]
           \/ q = c /\ i = Len(tasks[q]) + 1 /\ tasks'[q][i] = d
    BY <2>2, <2>3, <1>0, AppendElements
  <2>7. \A x : (Ran(x)' <=> Ran(x)) /\ (Done(x)' <=> Done(x))
    BY <2>3 DEF Ran, Done
  <2>8. \A x : IsRegistered(x)' <=> IsRegistered(x)
    BY <2>3 DEF IsRegistered
  <2>9. \A x : Posted(x)' => Posted(x) \/ x = b
    BY <2>2, <2>6 DEF Posted
  <2>10. HandedRegistered'
    BY <2>5, <2>7, <2>8, <2>9 DEF OnceInv, HandedRegistered
  <2>11. QueuedNotHanded'
    <3>1. ASSUME NEW i \in 1..Len(callbacks),
                 Done(callbacks[i].cb) \/ Posted(callbacks[i].cb) \/ callbacks[i].cb = b
          PROVE  i = 1
      <4>1. 1 \in 1..Len(callbacks)
        BY <1>0, <2>1
      <4>2. QED
        BY <3>1, <4>1, <2>2 DEF OnceInv, QueuedNotHanded, QueueOnce
    <3>2. QED
      BY <3>1, <2>3, <2>7, <2>9 DEF QueuedNotHanded
  <2>12. PostedOnce'
    <3>1. ASSUME NEW q \in Queues, NEW i \in 1..Len(tasks'[q])
          PROVE  /\ ~Done(tasks'[q][i].cb)
                 /\ \A p \in Queues : \A j \in 1..Len(tasks'[p]) :
                       tasks'[p][j].cb = tasks'[q][i].cb => p = q /\ j = i
      <4>1. ASSUME NEW p \in Queues, NEW j \in 1..Len(tasks[p])
            PROVE  tasks[p][j].cb = b => Posted(b)
        BY <4>1 DEF Posted
      <4>2. CASE i \in 1..Len(tasks[q]) /\ tasks'[q][i] = tasks[q][i]
        <5>1. ~Done(tasks'[q][i].cb)
          BY <4>2 DEF OnceInv, PostedOnce
        <5>2. ASSUME NEW p \in Queues, NEW j \in 1..Len(tasks'[p]),
                     tasks'[p][j].cb = tasks'[q][i].cb
              PROVE  p = q /\ j = i
          <6>1. tasks'[p][j] # d
            <7>1. tasks[q][i].cb # b
              BY <4>1, <4>2, <2>4
            <7>2. QED
              BY <4>2, <5>2, <7>1, <2>2
          <6>2. j \in 1..Len(tasks[p]) /\ tasks'[p][j] = tasks[p][j]
            BY <6>1, <2>6
          <6>3. tasks[p][j].cb = tasks[q][i].cb
            BY <4>2, <5>2, <6>2
          <6>4. PostedOnce
            BY DEF OnceInv
          <6>5. QED
            BY <4>2, <6>2, <6>3, <6>4 DEF PostedOnce
        <5>3. QED
          BY <5>1, <5>2
      <4>3. CASE q = c /\ i = Len(tasks[q]) + 1 /\ tasks'[q][i] = d
        <5>1. ~Done(tasks'[q][i].cb)
          BY <4>3, <2>2, <2>4
        <5>2. ASSUME NEW p \in Queues, NEW j \in 1..Len(tasks'[p]),
                     tasks'[p][j].cb = tasks'[q][i].cb
              PROVE  p = q /\ j = i
          <6>1. tasks'[p][j].cb = b
            BY <4>3, <5>2, <2>2
          <6>2. ~(j \in 1..Len(tasks[p]) /\ tasks'[p][j] = tasks[p][j])
            BY <4>1, <6>1, <2>4
          <6>3. QED
            BY <4>3, <6>2, <2>6
        <5>3. QED
          BY <5>1, <5>2
      <4>4. QED
        BY <2>6, <4>2, <4>3
    <3>2. QED
      BY <3>1, <2>7 DEF PostedOnce
  <2>13. QueueOnce' /\ RunOnce'
    BY <2>3, <2>8 DEF OnceInv, QueueOnce, RunOnce
  <2>14. QED
    BY <2>10, <2>11, <2>12, <2>13
<1>5. ASSUME NEW t \in Threads, RunInline(t) PROVE Goal
  <2> DEFINE b == Head(callbacks).cb
  <2>1. /\ Head(callbacks) \in Entries
        /\ callbacks # <<>>
        /\ pc[t] = "trigger"
    BY <1>5, <1>0, HeadTail DEF RunInline
  <2>2. b \in Callbacks /\ b = callbacks[1].cb
    BY <2>1, <1>0, EntryFields
  <2>15. PICK d \in Runs :
             /\ log' = Append(log, d)
             /\ d.cb = Head(callbacks).cb
             /\ d.end = "returned" => pc' = [pc EXCEPT ![t] = "pop"]
    BY <1>5, InlineRun DEF OnceInv, LoopInv
  <2>3. /\ UNCHANGED <<callbacks, registered, tasks>>
        /\ d.end # "threw" => pc'[t] = "pop"
        /\ \A u \in Threads : pc[u] = "pop" => pc'[u] = "pop"
    <3>1. UNCHANGED <<callbacks, registered, tasks>>
      BY <1>5 DEF RunInline
    <3>2. d.end = "returned" => pc'[t] = "pop"
      BY <2>15, <1>0
    <3>3. \A u \in Threads : pc[u] = "pop" => pc'[u] = "pop"
      BY <1>5, <1>0 DEF RunInline, Goto
    <3> QED BY <3>1, <3>2, <3>3 DEF Runs
  <2>4. ~Done(b) /\ ~Posted(b)
    BY <2>1, HeadFresh
  <2>5. IsRegistered(b)
    BY <2>1, HeadRegistered
  <2>16. d.cb = b
    BY <2>15
  <2> HIDE DEF b
  <2>6. \A i \in 1..Len(log') :
           \/ i \in 1..Len(log) /\ log'[i] = log[i]
           \/ i = Len(log) + 1 /\ log'[i] = d
    BY <2>15, <1>0, AppendElements
  <2>7. \A x : /\ Posted(x)' <=> Posted(x)
               /\ IsRegistered(x)' <=> IsRegistered(x)
    BY <2>3 DEF Posted, IsRegistered
  <2>8. \A x : /\ Ran(x)' => Ran(x) \/ x = b
               /\ Done(x)' => Done(x) \/ (x = b /\ d.end # "threw")
    BY <2>15, <2>16, <2>6 DEF Ran, Done
  <2>9. HandedRegistered'
    BY <2>5, <2>7, <2>8 DEF OnceInv, HandedRegistered
  <2>10. QueuedNotHanded'
    <3>1. ASSUME NEW i \in 1..Len(callbacks), callbacks[i].cb = b
          PROVE  i = 1
      <4>1. 1 \in 1..Len(callbacks)
        BY <1>0, <2>1
      <4>2. QED
        BY <3>1, <4>1, <2>2 DEF OnceInv, QueueOnce
    <3>2. QED
      BY <3>1, <2>3, <2>7, <2>8 DEF OnceInv, QueuedNotHanded
  <2>11. PostedOnce'
    <3>1. ASSUME NEW q \in Queues, NEW i \in 1..Len(tasks[q])
          PROVE  Posted(tasks[q][i].cb)
      BY DEF Posted
    <3>2. QED
      BY <3>1, <2>3, <2>4, <2>8 DEF OnceInv, PostedOnce
  <2>12. RunOnce'
    <3>1. ASSUME NEW i \in 1..Len(log)
          PROVE  i < Len(log) + 1 /\ (log[i].end # "threw" => Done(log[i].cb))
      BY <1>0 DEF Done
    <3>2. ASSUME NEW i \in 1..Len(log'), NEW j \in 1..Len(log'), i < j,
                 log'[i].cb = log'[j].cb
          PROVE  log'[i].end = "threw"
      <4>1. i \in 1..Len(log) /\ log'[i] = log[i]
        BY <3>2, <2>6, <1>0
      <4>2. CASE j \in 1..Len(log) /\ log'[j] = log[j]
        BY <3>2, <4>1, <4>2 DEF OnceInv, RunOnce
      <4>3. CASE log'[j] = d
        BY <3>1, <3>2, <4>1, <4>3, <2>4, <2>16
      <4>4. QED
        BY <2>6, <4>2, <4>3
    <3>3. QED
      BY <3>2 DEF RunOnce
  <2>13. QueueOnce'
    BY <2>3, <2>7 DEF OnceInv, QueueOnce
  <2>14. QED
    BY <2>9, <2>10, <2>11, <2>12, <2>13
<1>6. ASSUME NEW q \in Queues, RunTask(q) PROVE Goal
  <2> DEFINE d == Head(tasks[q])
  <2>1. /\ tasks[q] \in Seq(Deliveries)
        /\ tasks[q] # <<>>
    BY <1>6, <1>0 DEF RunTask
  <2>2. /\ d \in Deliveries
        /\ 1 \in 1..Len(tasks[q])
        /\ d = tasks[q][1]
        /\ d.cb \in Callbacks
    <3>1. d \in Deliveries /\ 1 \in 1..Len(tasks[q]) /\ d = tasks[q][1]
      BY <2>1
    <3>2. QED
      BY <3>1 DEF Deliveries
  <2> DEFINE run == Run(d, "returned")
  <2>17. run \in Runs /\ run.cb = d.cb
    BY <2>2, RunType
  <2>3. /\ log' = Append(log, run)
        /\ tasks' = [tasks EXCEPT ![q] = Tail(@)]
        /\ UNCHANGED <<callbacks, registered, pc>>
    BY <1>6 DEF RunTask
  <2> HIDE DEF d, run
  <2>4. \A i \in 1..Len(log') :
           \/ i \in 1..Len(log) /\ log'[i] = log[i]
           \/ i = Len(log) + 1 /\ log'[i] = run
    BY <2>17, <2>3, <1>0, AppendElements
  <2>5. ASSUME NEW p \in Queues, NEW i \in 1..Len(tasks'[p])
        PROVE  \/ p # q /\ i \in 1..Len(tasks[p]) /\ tasks'[p][i] = tasks[p][i]
               \/ /\ p = q
                  /\ i + 1 \in 1..Len(tasks[p])
                  /\ i + 1 # 1
                  /\ tasks'[p][i] = tasks[p][i + 1]
    <3>1. CASE p # q
      BY <3>1, <2>3, <1>0
    <3>2. CASE p = q
      <4>1. tasks'[p] = Tail(tasks[q])
        BY <3>2, <2>3, <1>0
      <4>2. QED
        BY <3>2, <4>1, <2>1, TailElements
    <3>3. QED
      BY <3>1, <3>2
  <2>6. Posted(d.cb)
    BY <2>2 DEF Posted
  <2>7. \A x : Posted(x)' => Posted(x)
    BY <2>5 DEF Posted
  <2>8. \A x : /\ Ran(x)' => Ran(x) \/ x = d.cb
               /\ Done(x)' => Done(x) \/ x = d.cb
    BY <2>4, <2>17 DEF Ran, Done
  <2>9. \A x : IsRegistered(x)' <=> IsRegistered(x)
    BY <2>3 DEF IsRegistered
  <2>10. QueueOnce' /\ HandedRegistered'
    BY <2>2, <2>3, <2>6, <2>7, <2>8, <2>9
       DEF OnceInv, QueueOnce, HandedRegistered
  <2>11. QueuedNotHanded'
    BY <2>3, <2>6, <2>7, <2>8 DEF OnceInv, QueuedNotHanded
  <2>12. ~Done(d.cb)
    BY <2>2 DEF OnceInv, PostedOnce
  \* A task left was one before, and not the one that has just run.
  <2>13. ASSUME NEW p \in Queues, NEW i \in 1..Len(tasks'[p])
         PROVE  \E k \in 1..Len(tasks[p]) :
                   /\ tasks'[p][i] = tasks[p][k]
                   /\ k = IF p = q THEN i + 1 ELSE i
                   /\ p = q => k # 1
    BY <2>5
  <2>14. PostedOnce'
    <3>1. ASSUME NEW p \in Queues, NEW i \in 1..Len(tasks'[p])
          PROVE  /\ ~Done(tasks'[p][i].cb)
                 /\ tasks'[p][i].cb # d.cb
      <4>1. PICK k \in 1..Len(tasks[p]) :
                   /\ tasks'[p][i] = tasks[p][k]
                   /\ p = q => k # 1
        BY <2>13, SMTT(30)
      <4>2. ~Done(tasks[p][k].cb)
        BY <3>1, <4>1 DEF OnceInv, PostedOnce
      <4>3. tasks[p][k].cb # tasks[q][1].cb
        BY <3>1, <4>1, <2>2 DEF OnceInv, PostedOnce
      <4>4. QED
        BY <4>1, <4>2, <4>3, <2>2
    <3>2. ASSUME NEW p \in Queues, NEW i \in 1..Len(tasks'[p]),
                 NEW r \in Queues, NEW j \in 1..Len(tasks'[r]),
                 tasks'[r][j].cb = tasks'[p][i].cb
          PROVE  r = p /\ j = i
      <4>1. PICK k \in 1..Len(tasks[p]) :
                   /\ tasks'[p][i] = tasks[p][k]
                   /\ k = IF p = q THEN i + 1 ELSE i
        BY <2>13
      <4>2. PICK m \in 1..Len(tasks[r]) :
                   /\ tasks'[r][j] = tasks[r][m]
                   /\ m = IF r = q THEN j + 1 ELSE j
        BY <2>13
      <4>3. r = p /\ m = k
        BY <3>2, <4>1, <4>2, SMTT(30) DEF OnceInv, PostedOnce
      <4>4. QED
        BY <4>1, <4>2, <4>3
    <3>3. ASSUME NEW p \in Queues, NEW i \in 1..Len(tasks'[p]),
                 NEW j \in 1..Len(log'), log'[j].cb = tasks'[p][i].cb,
                 log'[j].end # "threw"
          PROVE  FALSE
      BY <3>1, <3>3, <2>4, <2>17 DEF Done
    <3>4. QED
      BY <3>2, <3>3 DEF PostedOnce, Done
  <2>15. RunOnce'
    <3>1. ASSUME NEW i \in 1..Len(log)
          PROVE  i < Len(log) + 1 /\ (log[i].end # "threw" => Done(log[i].cb))
      BY <1>0 DEF Done
    <3>2. ASSUME NEW i \in 1..Len(log'), NEW j \in 1..Len(log'), i < j,
                 log'[i].cb = log'[j].cb
          PROVE  log'[i].end = "threw"
      <4>1. i \in 1..Len(log) /\ log'[i] = log[i]
        BY <3>2, <2>4, <1>0
      <4>2. CASE j \in 1..Len(log) /\ log'[j] = log[j]
        BY <3>2, <4>1, <4>2 DEF OnceInv, RunOnce
      <4>3. CASE log'[j] = run
        BY <3>1, <3>2, <4>1, <4>3, <2>12, <2>17
      <4>4. QED
        BY <2>4, <4>2, <4>3
    <3>3. QED
      BY <3>2 DEF RunOnce
  <2>16. QED
    BY <2>10, <2>11, <2>14, <2>15
<1>7. ASSUME NEW t \in Threads,
             \/ \E r \in Results : SetResult(t, r) \/ SetValue(t, r)
             \/ Trigger(t)
             \/ Release(t)
      PROVE  Goal
  <2>1. /\ UNCHANGED <<callbacks, tasks, registered, log>>
        /\ \A u \in Threads : pc[u] = "pop" => pc'[u] = "pop"
    BY <1>7, <1>0 DEF SetResult, SetValue, Trigger, Release, Goto
  <2>2. QED
    BY <1>1, <2>1
<1>8. CASE UNCHANGED vars
  BY <1>1, <1>8 DEF vars
<1>9. QED
  BY <1>2, <1>3, <1>4, <1>5, <1>6, <1>7, <1>8 DEF Next, Proceed

\* A callback that returned never runs again, whichever threads set the result
\* and register, and whichever context it was registered with: only one that
\* threw through the loop is run a second time.
THEOREM RunsOnce == Spec => []RunOnce
<1>1. Init => OnceInv
  <2>1. Init => /\ \A i \in 1..Len(callbacks) : FALSE
                /\ \A i \in 1..Len(log) : FALSE
                /\ \A q \in Queues : \A i \in 1..Len(tasks[q]) : FALSE
    BY DEF Init
  <2>2. QED
    BY <2>1, LoopInvInit DEF OnceInv, QueueOnce, HandedRegistered, Ran, Done, Posted,
       QueuedNotHanded, PostedOnce, RunOnce
<1>2. OnceInv => RunOnce
  BY DEF OnceInv
<1>3. QED
  BY <1>1, <1>2, OnceInvNext, PTL DEF Spec

-----------------------------------------------------------------------------
\* The sets the refinement mapping is made of, by the predicates above.
LEMMA MappedSets ==
    /\ RanCallbacks = {cb \in {log[i].cb : i \in 1..Len(log)} : Ran(cb)}
    /\ \A cb : cb \in RanCallbacks <=> Ran(cb)
    /\ \A cb : cb \in RegisteredCallbacks <=> IsRegistered(cb)
BY DEF RanCallbacks, RegisteredCallbacks, Ran, IsRegistered

\* The set of fields of a sequence grows by the element appended.
LEMMA AppendCallbacks ==
    ASSUME NEW S, NEW s \in Seq(S), NEW x \in S
    PROVE  {Append(s, x)[i].cb : i \in 1..Len(Append(s, x))}
             = {s[i].cb : i \in 1..Len(s)} \cup {x.cb}
<1>1. /\ Len(Append(s, x)) = Len(s) + 1
      /\ Len(s) \in Nat
      /\ Append(s, x)[Len(s) + 1] = x
      /\ \A i \in 1..Len(s) : Append(s, x)[i] = s[i]
  OBVIOUS
<1>2. \A i : i \in 1..(Len(s) + 1) <=> i \in 1..Len(s) \/ i = Len(s) + 1
  BY <1>1
<1>3. QED
  BY <1>1, <1>2

\* Running a callback is the abstract call, or a stutter when it ran before.
LEMMA RunIsCall ==
    ASSUME OnceInv, NEW d \in Runs, IsRegistered(d.cb),
           value # NoResult, log' = Append(log, d),
           UNCHANGED <<value, registered>>
    PROVE  [Promised!Next]_(Promised!vars)
<1>1. log \in Seq(Runs) /\ d.cb \in Callbacks
  BY DEF OnceInv, LoopInv, TypeOK, Runs
<1>2. RanCallbacks' = RanCallbacks \cup {d.cb}
  BY <1>1, AppendCallbacks DEF RanCallbacks
<1>3. RegisteredCallbacks' = RegisteredCallbacks
      /\ d.cb \in RegisteredCallbacks
  BY MappedSets DEF RegisteredCallbacks
<1>4. CASE d.cb \in RanCallbacks
  <2>1. UNCHANGED <<value, RegisteredCallbacks \ RanCallbacks, RanCallbacks>>
    BY <1>2, <1>3, <1>4
  <2>2. QED
    BY <2>1 DEF Promised!vars
<1>5. CASE d.cb \notin RanCallbacks
  <2>1. Promised!Call(d.cb)
    BY <1>2, <1>3, <1>5 DEF Promised!Call
  <2>2. QED
    BY <1>1, <2>1 DEF Promised!Next
<1>6. QED
  BY <1>4, <1>5

LEMMA StepRefines ==
    AgreementInv /\ OnceInv /\ [Next]_vars => [Promised!Next]_(Promised!vars)
<1> SUFFICES ASSUME AgreementInv, OnceInv, [Next]_vars
             PROVE  [Promised!Next]_(Promised!vars)
  OBVIOUS
<1>1. ASSUME NEW t \in Threads, NEW r \in Results,
             SetResult(t, r) \/ SetValue(t, r)
      PROVE  Promised!Next
  <2>1. /\ value = NoResult /\ value' = r
        /\ RanCallbacks' = RanCallbacks
        /\ RegisteredCallbacks' = RegisteredCallbacks
    BY <1>1 DEF SetResult, SetValue, RanCallbacks, RegisteredCallbacks
  <2>2. Promised!Complete(r)
    BY <2>1 DEF Promised!Complete
  <2>3. QED
    BY <2>2 DEF Promised!Next
<1>2. ASSUME NEW t \in Threads, NEW cb \in Callbacks,
             NEW ctx \in Queues \cup {Immediate}, AddCallback(t, cb, ctx)
      PROVE  Promised!Next
  <2>1. /\ ~IsRegistered(cb)
        /\ registered' = Append(registered, [cb |-> cb, ctx |-> ctx])
        /\ UNCHANGED <<value, log>>
    BY <1>2 DEF AddCallback
  <2>2. /\ [cb |-> cb, ctx |-> ctx] \in Entries
        /\ [cb |-> cb, ctx |-> ctx].cb = cb
        /\ registered \in Seq(Entries)
    BY DEF Entries, OnceInv, LoopInv, TypeOK
  <2>3. RegisteredCallbacks' = RegisteredCallbacks \cup {cb}
    BY <2>1, <2>2, AppendCallbacks DEF RegisteredCallbacks
  <2>4. RanCallbacks' = RanCallbacks
    BY <2>1 DEF RanCallbacks
  <2>5. cb \notin RegisteredCallbacks /\ cb \notin RanCallbacks
    BY <2>1, MappedSets DEF OnceInv, HandedRegistered
  <2>6. Promised!Register(cb)
    BY <2>1, <2>3, <2>4, <2>5 DEF Promised!Register
  <2>7. QED
    BY <2>6 DEF Promised!Next
<1>3. ASSUME NEW t \in Threads, RunInline(t)
      PROVE  [Promised!Next]_(Promised!vars)
  <2>1. /\ callbacks # <<>>
        /\ value # NoResult
        /\ UNCHANGED <<value, registered>>
    BY <1>3 DEF RunInline
  <2>2. PICK run \in Runs :
           log' = Append(log, run) /\ run.cb = Head(callbacks).cb
    BY <1>3, InlineRun DEF OnceInv, LoopInv
  <2>3. IsRegistered(run.cb)
    BY <2>1, <2>2, HeadRegistered
  <2>4. QED
    BY <2>1, <2>2, <2>3, RunIsCall
<1>4. ASSUME NEW q \in Queues, RunTask(q)
      PROVE  [Promised!Next]_(Promised!vars)
  <2> DEFINE d == Head(tasks[q])
  <2>1. /\ tasks[q] \in Seq(Deliveries) /\ tasks[q] # <<>>
        /\ log' = Append(log, Run(d, "returned"))
        /\ UNCHANGED <<value, registered>>
    BY <1>4 DEF RunTask, OnceInv, LoopInv, TypeOK
  <2>2. d \in Deliveries /\ 1 \in 1..Len(tasks[q]) /\ d = tasks[q][1]
    BY <2>1
  <2>3. d.cb \in Callbacks /\ d.result \in Results
    BY <2>2 DEF Deliveries
  <2>4. IsRegistered(d.cb)
    BY <2>2, <2>3 DEF OnceInv, HandedRegistered, Posted
  <2>5. value # NoResult
    BY <2>2, <2>3, NoResultAssumption DEF AgreementInv, TasksAgree
  <2> HIDE DEF d
  <2>6. Run(d, "returned") \in Runs /\ Run(d, "returned").cb = d.cb
    BY <2>2, RunType
  <2>7. QED
    BY <2>1, <2>4, <2>5, <2>6, RunIsCall
<1>5. CASE UNCHANGED <<value, registered, log>>
  BY <1>5 DEF Promised!vars, RanCallbacks, RegisteredCallbacks
<1>6. QED
  BY <1>1, <1>2, <1>3, <1>4, <1>5
     DEF Next, Proceed, vars, Trigger, Post, Pop, Release

\* A deffered implements the one-shot result its users rely on: every step of
\* the threads and of the contexts is an abstract step or a stutter, also when
\* inline callbacks throw.
THEOREM ImplementsOneShot == Spec => PromisedSpec
<1>1. Init => Promised!Init
  BY DEF Init, Promised!Init, RanCallbacks, RegisteredCallbacks
<1>2. Init => AgreementInv /\ OnceInv
  <2>1. Init => /\ \A i \in 1..Len(callbacks) : FALSE
                /\ \A i \in 1..Len(log) : FALSE
                /\ \A q \in Queues : \A i \in 1..Len(tasks[q]) : FALSE
    BY DEF Init
  <2>2. QED
    BY <2>1, LoopInvInit DEF AgreementInv, Agreement, TasksAgree, OnceInv,
       QueueOnce, HandedRegistered, Ran, Posted, QueuedNotHanded, PostedOnce,
       RunOnce
<1>3. QED
  BY <1>1, <1>2, StepRefines, AgreementNext, OnceInvNext, PTL
     DEF Spec, PromisedSpec, Promised!Spec

-----------------------------------------------------------------------------
\* The order of registration, position by position: a callback is registered
\* once, and the queue is the end of the list of registrations.
RegisteredOnce ==
    \A m, n \in 1..Len(registered) :
        registered[m].cb = registered[n].cb => m = n

Turn == Len(registered) - Len(callbacks) + 1

QueueIsTheEnd ==
    /\ Len(callbacks) <= Len(registered)
    /\ \A i \in 1..Len(callbacks) : callbacks[i] = registered[Turn - 1 + i]

\* A callback whose turn of the loop has come, or had come.
HadTurn(cb) ==
    \E n \in 1..Len(registered) : registered[n].cb = cb /\ n <= Turn

\* Callback x was not registered after callback y.
NotAfter(x, y) == RegisteredAt(x) <= RegisteredAt(y)

\* A context has the tasks that were registered with it, oldest first, and has
\* run none that was registered after them.
TasksHadTurn ==
    \A q \in Queues : \A i \in 1..Len(tasks[q]) :
        HadTurn(tasks[q][i].cb) /\ ContextOf(tasks[q][i].cb) = q

TasksInOrder ==
    \A q \in Queues : \A i, j \in 1..Len(tasks[q]) :
        i < j => NotAfter(tasks[q][i].cb, tasks[q][j].cb)

LogHadTurn == \A i \in 1..Len(log) : HadTurn(log[i].cb)

LogBeforeTasks ==
    \A q \in Queues : \A i \in 1..Len(log) : \A j \in 1..Len(tasks[q]) :
        ContextOf(log[i].cb) = q => NotAfter(log[i].cb, tasks[q][j].cb)

OrderKept ==
    /\ RegisteredOnce
    /\ QueueIsTheEnd
    /\ TasksHadTurn
    /\ TasksInOrder
    /\ LogHadTurn
    /\ LogBeforeTasks
    /\ InOrder

OrderInv == LoopInv /\ OrderKept

\* A registered callback has one position, which is where it is looked up.
LEMMA LookedUp ==
    ASSUME RegisteredOnce, NEW n \in 1..Len(registered)
    PROVE  RegisteredAt(registered[n].cb) = n
<1>1. \A m \in 1..Len(registered) :
         registered[m].cb = registered[n].cb => m = n
  BY DEF RegisteredOnce
<1>2. QED
  BY <1>1 DEF RegisteredAt

\* The entry at the head of the queue is the registration whose turn it is.
LEMMA HeadIsAtTurn ==
    ASSUME OrderInv, callbacks # <<>>
    PROVE  /\ Turn \in 1..Len(registered)
           /\ Head(callbacks) = registered[Turn]
           /\ RegisteredAt(Head(callbacks).cb) = Turn
           /\ ContextOf(Head(callbacks).cb) = Head(callbacks).ctx
           /\ HadTurn(Head(callbacks).cb)
<1>1. /\ callbacks \in Seq(Entries)
      /\ registered \in Seq(Entries)
      /\ Len(callbacks) \in Nat /\ Len(registered) \in Nat
      /\ 1 \in 1..Len(callbacks)
      /\ Head(callbacks) = callbacks[1]
  BY DEF OrderInv, LoopInv, TypeOK
<1>2. Len(callbacks) <= Len(registered)
  BY DEF OrderInv, OrderKept, QueueIsTheEnd
<1>3. Turn \in 1..Len(registered) /\ Turn - 1 + 1 = Turn
  BY <1>1, <1>2 DEF Turn
<1>4. Head(callbacks) = registered[Turn]
  BY <1>1, <1>3 DEF OrderInv, OrderKept, QueueIsTheEnd
<1>5. RegisteredAt(Head(callbacks).cb) = Turn
  BY <1>3, <1>4, LookedUp DEF OrderInv, OrderKept
<1>6. HadTurn(Head(callbacks).cb)
  BY <1>3, <1>4 DEF HadTurn
<1>7. QED
  BY <1>3, <1>4, <1>5, <1>6 DEF ContextOf

\* Whatever had its turn was not registered after the one whose turn it is.
LEMMA TurnsAreOrdered ==
    ASSUME OrderInv, callbacks # <<>>, NEW cb, HadTurn(cb)
    PROVE  NotAfter(cb, Head(callbacks).cb)
<1>1. PICK n \in 1..Len(registered) : registered[n].cb = cb /\ n <= Turn
  BY DEF HadTurn
<1>2. RegisteredAt(cb) = n
  BY <1>1, LookedUp DEF OrderInv, OrderKept
<1>3. QED
  BY <1>1, <1>2, HeadIsAtTurn DEF NotAfter

\* The same position, for any list whose entries have distinct callbacks.
LEMMA Positioned ==
    ASSUME NEW s, NEW n \in 1..Len(s),
           \A m \in 1..Len(s) : s[m].cb = s[n].cb => m = n
    PROVE  (CHOOSE i \in 1..Len(s) : s[i].cb = s[n].cb) = n
OBVIOUS

\* A step that registers nothing and moves no turn leaves the order alone.
LEMMA OrderUnmoved ==
    ASSUME UNCHANGED <<registered, callbacks>>
    PROVE  /\ \A x : RegisteredAt(x)' = RegisteredAt(x)
           /\ \A x : ContextOf(x)' = ContextOf(x)
           /\ \A x : HadTurn(x)' <=> HadTurn(x)
           /\ \A x, y : NotAfter(x, y)' <=> NotAfter(x, y)
           /\ RegisteredOnce' <=> RegisteredOnce
           /\ QueueIsTheEnd' <=> QueueIsTheEnd
BY DEF ContextOf, RegisteredAt, HadTurn, Turn, NotAfter, RegisteredOnce,
       QueueIsTheEnd

LEMMA OrderNext == OrderInv /\ [Next]_vars => OrderInv'
<1> SUFFICES ASSUME OrderInv, [Next]_vars
             PROVE  OrderKept'
  BY LoopInvNext DEF OrderInv
<1>0. /\ callbacks \in Seq(Entries)
      /\ registered \in Seq(Entries)
      /\ log \in Seq(Runs)
      /\ tasks \in [Queues -> Seq(Deliveries)]
      /\ \A q \in Queues : tasks[q] \in Seq(Deliveries)
      /\ Len(callbacks) \in Nat /\ Len(registered) \in Nat
      /\ Len(callbacks) <= Len(registered)
  BY DEF OrderInv, LoopInv, TypeOK, OrderKept, QueueIsTheEnd
<1>1. CASE UNCHANGED <<callbacks, tasks, registered, log>>
  BY <1>1, OrderUnmoved
     DEF OrderInv, OrderKept, TasksHadTurn, TasksInOrder, LogHadTurn,
         LogBeforeTasks, InOrder, NotAfter
<1>2. ASSUME NEW t \in Threads, NEW cb \in Callbacks,
             NEW ctx \in Queues \cup {Immediate}, AddCallback(t, cb, ctx)
      PROVE  OrderKept'
  <2> DEFINE e == [cb |-> cb, ctx |-> ctx]
  <2>1. /\ e \in Entries
        /\ e.cb = cb
    BY DEF Entries
  <2>2. /\ ~IsRegistered(cb)
        /\ registered' = Append(registered, e)
        /\ callbacks' = Append(callbacks, e)
        /\ UNCHANGED <<tasks, log>>
    BY <1>2 DEF AddCallback
  <2> HIDE DEF e
  <2>3. /\ Len(registered') = Len(registered) + 1
        /\ registered'[Len(registered) + 1] = e
        /\ \A n \in 1..Len(registered) : registered'[n] = registered[n]
        /\ Len(callbacks') = Len(callbacks) + 1
        /\ callbacks'[Len(callbacks) + 1] = e
        /\ \A n \in 1..Len(callbacks) : callbacks'[n] = callbacks[n]
    BY <2>1, <2>2, <1>0
  <2>4. Turn' = Turn /\ Turn = Len(registered) - Len(callbacks) + 1
    BY <2>3, <1>0 DEF Turn
  <2>5. \A n \in 1..Len(registered) : registered[n].cb # cb
    BY <2>2 DEF IsRegistered
  <2>6. RegisteredOnce'
    <3>1. \A n \in 1..Len(registered') :
             \/ n \in 1..Len(registered) /\ registered'[n] = registered[n]
             \/ n = Len(registered) + 1 /\ registered'[n] = e
      BY <2>3, <1>0
    <3>2. QED
      BY <3>1, <2>1, <2>5 DEF OrderInv, OrderKept, RegisteredOnce
  <2>7. QueueIsTheEnd'
    <3>1. ASSUME NEW i \in 1..Len(callbacks')
          PROVE  callbacks'[i] = registered'[Turn - 1 + i]
      <4>1. CASE i \in 1..Len(callbacks)
        <5>1. Turn - 1 + i \in 1..Len(registered)
          BY <4>1, <2>4, <1>0
        <5>2. callbacks[i] = registered[Turn - 1 + i]
          BY <4>1 DEF OrderInv, OrderKept, QueueIsTheEnd
        <5>3. QED
          BY <4>1, <5>1, <5>2, <2>3
      <4>2. CASE i = Len(callbacks) + 1
        <5>1. Turn - 1 + i = Len(registered) + 1
          BY <4>2, <2>4, <1>0
        <5>2. QED
          BY <4>2, <5>1, <2>3
      <4>3. QED
        BY <4>1, <4>2, <2>3, <1>0
    <3>2. QED
      BY <3>1, <2>3, <2>4, <1>0, SMTT(30) DEF QueueIsTheEnd
  <2>8. ASSUME NEW x, HadTurn(x)
        PROVE  /\ HadTurn(x)'
               /\ RegisteredAt(x)' = RegisteredAt(x)
               /\ ContextOf(x)' = ContextOf(x)
    <3>1. PICK n \in 1..Len(registered) : registered[n].cb = x /\ n <= Turn
      BY <2>8 DEF HadTurn
    <3>2. n \in 1..Len(registered') /\ registered'[n] = registered[n]
      BY <3>1, <2>3, <1>0
    <3>3. RegisteredAt(x) = n
      BY <3>1, LookedUp DEF OrderInv, OrderKept
    <3>4. \A m \in 1..Len(registered') : registered'[m].cb = registered'[n].cb => m = n
      BY <3>2, <2>6 DEF RegisteredOnce
    <3>5. (CHOOSE i \in 1..Len(registered') : registered'[i].cb = registered'[n].cb) = n
      BY <3>2, <3>4, Positioned
    <3>6. RegisteredAt(x)' = n
      BY <3>1, <3>2, <3>5 DEF RegisteredAt
    <3>7. HadTurn(x)'
      BY <3>1, <3>2, <2>4 DEF HadTurn
    <3>8. QED
      BY <3>2, <3>3, <3>6, <3>7 DEF ContextOf
  <2>9. \A x, y : HadTurn(x) /\ HadTurn(y) => (NotAfter(x, y)' <=> NotAfter(x, y))
    BY <2>8 DEF NotAfter
  <2>10. TasksHadTurn' /\ LogHadTurn'
    BY <2>2, <2>8 DEF OrderInv, OrderKept, TasksHadTurn, LogHadTurn
  <2>11. TasksInOrder'
    BY <2>2, <2>9 DEF OrderInv, OrderKept, TasksHadTurn, TasksInOrder
  <2>12. LogBeforeTasks'
    BY <2>2, <2>8, <2>9
       DEF OrderInv, OrderKept, TasksHadTurn, LogHadTurn, LogBeforeTasks
  <2>13. InOrder'
    BY <2>2, <2>8 DEF OrderInv, OrderKept, LogHadTurn, InOrder
  <2>14. QED
    BY <2>6, <2>7, <2>10, <2>11, <2>12, <2>13 DEF OrderKept
<1>3. ASSUME NEW t \in Threads, Post(t) PROVE OrderKept'
  <2> DEFINE d == Delivery(Head(callbacks).cb)
             b == Head(callbacks).cb
             c == Head(callbacks).ctx
  <2>1. callbacks # <<>> /\ value # NoResult /\ c # Immediate
    BY <1>3 DEF Post
  <2>2. Head(callbacks) \in Entries
    BY <2>1, <1>0, HeadTail
  <2>3. d \in Deliveries /\ d.cb = b /\ c \in Queues
    BY <2>1, <2>2, EntryFields, DeliveryType DEF OrderInv, LoopInv, Delivery
  <2>4. /\ tasks' = [tasks EXCEPT ![c] = Append(@, d)]
        /\ UNCHANGED <<callbacks, registered, log>>
    BY <1>3 DEF Post
  <2>5. HadTurn(b) /\ ContextOf(b) = c
    BY <2>1, HeadIsAtTurn
  <2>6. \A x : HadTurn(x) => NotAfter(x, b)
    BY <2>1, TurnsAreOrdered
  <2> HIDE DEF d, b, c
  <2>7. ASSUME NEW q \in Queues, NEW i \in 1..Len(tasks'[q])
        PROVE  \/ i \in 1..Len(tasks[q]) /\ tasks'[q][i] = tasks[q][i]
               \/ q = c /\ i = Len(tasks[q]) + 1 /\ tasks'[q][i] = d
    <3>1. CASE q # c
      BY <3>1, <2>4, <1>0
    <3>2. CASE q = c
      <4>1. tasks'[q] = Append(tasks[q], d)
        BY <3>2, <2>3, <2>4, <1>0
      <4>2. QED
        BY <3>2, <4>1, <2>3, <1>0, AppendElements
    <3>3. QED
      BY <3>1, <3>2
  <2>8. TasksHadTurn'
    BY <2>3, <2>4, <2>5, <2>7, OrderUnmoved
       DEF OrderInv, OrderKept, TasksHadTurn
  <2>9. TasksInOrder'
    <3>1. ASSUME NEW q \in Queues, NEW i \in 1..Len(tasks'[q]),
                 NEW j \in 1..Len(tasks'[q]), i < j
          PROVE  NotAfter(tasks'[q][i].cb, tasks'[q][j].cb)
      <4>1. i \in 1..Len(tasks[q]) /\ tasks'[q][i] = tasks[q][i]
        BY <3>1, <2>7, <1>0
      <4>2. CASE j \in 1..Len(tasks[q]) /\ tasks'[q][j] = tasks[q][j]
        BY <3>1, <4>1, <4>2 DEF OrderInv, OrderKept, TasksInOrder
      <4>3. CASE tasks'[q][j] = d
        BY <4>1, <4>3, <2>3, <2>6 DEF OrderInv, OrderKept, TasksHadTurn
      <4>4. QED
        BY <2>7, <4>2, <4>3
    <3>2. QED
      BY <3>1, <2>4, OrderUnmoved DEF TasksInOrder
  <2>10. LogBeforeTasks'
    <3>1. ASSUME NEW q \in Queues, NEW i \in 1..Len(log),
                 NEW j \in 1..Len(tasks'[q]), ContextOf(log[i].cb) = q
          PROVE  NotAfter(log[i].cb, tasks'[q][j].cb)
      <4>1. CASE j \in 1..Len(tasks[q]) /\ tasks'[q][j] = tasks[q][j]
        BY <3>1, <4>1 DEF OrderInv, OrderKept, LogBeforeTasks
      <4>2. CASE tasks'[q][j] = d
        BY <4>2, <2>3, <2>6 DEF OrderInv, OrderKept, LogHadTurn
      <4>3. QED
        BY <2>7, <4>1, <4>2
    <3>2. QED
      BY <3>1, <2>4, OrderUnmoved DEF LogBeforeTasks
  <2>11. RegisteredOnce' /\ QueueIsTheEnd' /\ LogHadTurn' /\ InOrder'
    BY <2>4, OrderUnmoved
       DEF OrderInv, OrderKept, LogHadTurn, InOrder, NotAfter
  <2>12. QED
    BY <2>8, <2>9, <2>10, <2>11 DEF OrderKept
<1>4. ASSUME NEW t \in Threads, RunInline(t) PROVE OrderKept'
  <2> DEFINE b == Head(callbacks).cb
  <2>1. /\ callbacks # <<>>
        /\ value # NoResult
        /\ Head(callbacks).ctx = Immediate
    BY <1>4 DEF RunInline
  <2>2. UNCHANGED <<callbacks, registered, tasks>>
    BY <1>4 DEF RunInline
  <2>3. PICK d \in Runs : log' = Append(log, d) /\ d.cb = b
    BY <1>4, InlineRun DEF OrderInv, LoopInv
  <2>4. log' = Append(log, d) /\ UNCHANGED <<callbacks, registered, tasks>>
    BY <2>2, <2>3
  <2>5. HadTurn(b) /\ ContextOf(b) \notin Queues
    BY <2>1, HeadIsAtTurn, ImmediateAssumption
  <2>6. \A x : HadTurn(x) => NotAfter(x, b)
    BY <2>1, TurnsAreOrdered
  <2> HIDE DEF b
  <2>7. \A i \in 1..Len(log') :
           \/ i \in 1..Len(log) /\ log'[i] = log[i]
           \/ i = Len(log) + 1 /\ log'[i] = d
    BY <2>3, <2>4, <1>0, AppendElements
  <2>8. LogHadTurn'
    BY <2>3, <2>4, <2>5, <2>7, OrderUnmoved DEF OrderInv, OrderKept, LogHadTurn
  <2>9. LogBeforeTasks'
    BY <2>3, <2>4, <2>5, <2>7, OrderUnmoved
       DEF OrderInv, OrderKept, LogBeforeTasks
  <2>10. InOrder'
    <3>1. ASSUME NEW i \in 1..Len(log'), NEW j \in 1..Len(log'), i < j,
                 ContextOf(log'[i].cb) = ContextOf(log'[j].cb)
          PROVE  NotAfter(log'[i].cb, log'[j].cb)
      <4>1. i \in 1..Len(log) /\ log'[i] = log[i]
        BY <3>1, <2>7, <1>0
      <4>2. CASE j \in 1..Len(log) /\ log'[j] = log[j]
        BY <3>1, <4>1, <4>2 DEF OrderInv, OrderKept, InOrder, NotAfter
      <4>3. CASE log'[j] = d
        BY <4>1, <4>3, <2>3, <2>6 DEF OrderInv, OrderKept, LogHadTurn
      <4>4. QED
        BY <2>7, <4>2, <4>3
    <3>2. QED
      BY <3>1, <2>4, OrderUnmoved DEF InOrder, NotAfter
  <2>11. RegisteredOnce' /\ QueueIsTheEnd' /\ TasksHadTurn' /\ TasksInOrder'
    BY <2>4, OrderUnmoved DEF OrderInv, OrderKept, TasksHadTurn, TasksInOrder
  <2>12. QED
    BY <2>8, <2>9, <2>10, <2>11 DEF OrderKept
<1>5. ASSUME NEW t \in Threads, Pop(t) PROVE OrderKept'
  <2>1. callbacks # <<>>
    BY <1>5 DEF Pop, OrderInv, LoopInv, PopInv
  <2>2. /\ callbacks' = Tail(callbacks)
        /\ UNCHANGED <<registered, tasks, log>>
    BY <1>5 DEF Pop
  <2>0. Len(callbacks') = Len(callbacks) - 1
    BY <2>1, <2>2, <1>0
  <2>3. /\ Len(callbacks') = Len(callbacks) - 1
        /\ \A i \in 1..Len(callbacks') :
              i + 1 \in 1..Len(callbacks) /\ callbacks'[i] = callbacks[i + 1]
    BY <2>1, <2>2, <1>0
  <2>4. Turn' = Turn + 1 /\ Turn = Len(registered) - Len(callbacks) + 1
    BY <2>0, <2>2, <1>0 DEF Turn
  <2>5. QueueIsTheEnd'
    <3>1. ASSUME NEW i \in 1..Len(callbacks')
          PROVE  callbacks'[i] = registered[Turn + i]
      <4>1. callbacks[i + 1] = registered[Turn - 1 + (i + 1)]
        BY <2>3 DEF OrderInv, OrderKept, QueueIsTheEnd
      <4>2. Turn - 1 + (i + 1) = Turn + i
        BY <2>4, <1>0
      <4>3. QED
        BY <4>1, <4>2, <2>3
    <3>2. ASSUME NEW i \in 1..Len(callbacks') PROVE Turn' - 1 + i = Turn + i
      BY <2>4, <1>0
    <3>3. QED
      BY <3>1, <3>2, <2>2, <2>3, <1>0 DEF QueueIsTheEnd
  <2>6. \A x : HadTurn(x) => HadTurn(x)'
    BY <2>2, <2>4, <1>0 DEF HadTurn
  <2>7. /\ \A x : ContextOf(x)' = ContextOf(x)
        /\ \A x, y : NotAfter(x, y)' <=> NotAfter(x, y)
        /\ RegisteredOnce' <=> RegisteredOnce
    BY <2>2 DEF ContextOf, RegisteredAt, NotAfter, RegisteredOnce
  <2>8. TasksHadTurn' /\ TasksInOrder' /\ LogHadTurn' /\ LogBeforeTasks'
    BY <2>2, <2>6, <2>7 DEF OrderInv, OrderKept, TasksHadTurn, TasksInOrder,
       LogHadTurn, LogBeforeTasks
  <2>9. InOrder'
    BY <2>2, <2>7 DEF OrderInv, OrderKept, InOrder, NotAfter
  <2>10. QED
    BY <2>5, <2>7, <2>8, <2>9 DEF OrderInv, OrderKept
<1>6. ASSUME NEW q \in Queues, RunTask(q) PROVE OrderKept'
  <2> DEFINE d == Head(tasks[q])
  <2>1. tasks[q] \in Seq(Deliveries) /\ tasks[q] # <<>>
    BY <1>6, <1>0 DEF RunTask
  <2>2. /\ d \in Deliveries
        /\ 1 \in 1..Len(tasks[q])
        /\ d = tasks[q][1]
    BY <2>1
  <2> DEFINE run == Run(d, "returned")
  <2>0. run \in Runs /\ run.cb = d.cb
    BY <2>2, RunType
  <2>3. /\ log' = Append(log, run)
        /\ tasks' = [tasks EXCEPT ![q] = Tail(@)]
        /\ UNCHANGED <<callbacks, registered>>
    BY <1>6 DEF RunTask
  <2> HIDE DEF d, run
  <2>4. HadTurn(d.cb) /\ ContextOf(d.cb) = q
    BY <2>2 DEF OrderInv, OrderKept, TasksHadTurn
  <2>5. \A i \in 1..Len(log') :
           \/ i \in 1..Len(log) /\ log'[i] = log[i]
           \/ i = Len(log) + 1 /\ log'[i] = run
    BY <2>0, <2>3, <1>0, AppendElements
  \* A task left is one of those there were, with the same tasks before it.
  <2>6. ASSUME NEW p \in Queues, NEW i \in 1..Len(tasks'[p])
        PROVE  \E k \in 1..Len(tasks[p]) :
                  /\ tasks'[p][i] = tasks[p][k]
                  /\ k = IF p = q THEN i + 1 ELSE i
                  /\ p = q => 1 < k
    <3>1. CASE p # q
      BY <3>1, <2>3, <1>0
    <3>2. CASE p = q
      <4>1. tasks'[p] = Tail(tasks[q])
        BY <3>2, <2>3, <1>0
      <4>2. i + 1 \in 1..Len(tasks[q]) /\ tasks'[p][i] = tasks[q][i + 1]
        BY <4>1, <2>1, TailElements
      <4>3. 1 < i + 1
        BY <2>1, <4>1
      <4>4. QED
        BY <3>2, <4>2, <4>3
    <3>3. QED
      BY <3>1, <3>2
  <2>7. TasksHadTurn'
    <3>1. ASSUME NEW p \in Queues, NEW i \in 1..Len(tasks'[p])
          PROVE  HadTurn(tasks'[p][i].cb) /\ ContextOf(tasks'[p][i].cb) = p
      BY <2>6 DEF OrderInv, OrderKept, TasksHadTurn
    <3>2. QED
      BY <3>1, <2>3, OrderUnmoved, ZenonT(30) DEF TasksHadTurn
  <2>8. TasksInOrder'
    <3>1. ASSUME NEW p \in Queues, NEW i \in 1..Len(tasks'[p]),
                 NEW j \in 1..Len(tasks'[p]), i < j
          PROVE  NotAfter(tasks'[p][i].cb, tasks'[p][j].cb)
      <4>1. PICK k \in 1..Len(tasks[p]) :
                   /\ tasks'[p][i] = tasks[p][k]
                   /\ k = IF p = q THEN i + 1 ELSE i
        BY <2>6
      <4>2. PICK m \in 1..Len(tasks[p]) :
                   /\ tasks'[p][j] = tasks[p][m]
                   /\ m = IF p = q THEN j + 1 ELSE j
        BY <2>6
      <4>3. k < m
        BY <3>1, <4>1, <4>2
      <4>4. QED
        BY <4>1, <4>2, <4>3 DEF OrderInv, OrderKept, TasksInOrder
    <3>2. QED
      BY <3>1, <2>3, OrderUnmoved DEF TasksInOrder
  <2>9. LogHadTurn'
    BY <2>0, <2>3, <2>4, <2>5, OrderUnmoved
       DEF OrderInv, OrderKept, LogHadTurn
  <2>10. LogBeforeTasks'
    <3>1. ASSUME NEW p \in Queues, NEW i \in 1..Len(log'),
                 NEW j \in 1..Len(tasks'[p]), ContextOf(log'[i].cb) = p
          PROVE  NotAfter(log'[i].cb, tasks'[p][j].cb)
      <4>1. PICK k \in 1..Len(tasks[p]) :
                   /\ tasks'[p][j] = tasks[p][k]
                   /\ p = q => 1 < k
        BY <2>6
      <4>2. CASE i \in 1..Len(log) /\ log'[i] = log[i]
        BY <3>1, <4>1, <4>2 DEF OrderInv, OrderKept, LogBeforeTasks
      <4>3. CASE log'[i] = run
        <5>1. p = q /\ 1 < k
          BY <3>1, <4>1, <4>3, <2>0, <2>4
        <5>2. NotAfter(tasks[q][1].cb, tasks[q][k].cb)
          BY <5>1, <4>1, <2>2 DEF OrderInv, OrderKept, TasksInOrder
        <5>3. QED
          BY <4>1, <4>3, <5>1, <5>2, <2>0, <2>2
      <4>4. QED
        BY <2>5, <4>2, <4>3
    <3>2. QED
      BY <3>1, <2>3, OrderUnmoved DEF LogBeforeTasks
  <2>11. InOrder'
    <3>1. ASSUME NEW i \in 1..Len(log'), NEW j \in 1..Len(log'), i < j,
                 ContextOf(log'[i].cb) = ContextOf(log'[j].cb)
          PROVE  NotAfter(log'[i].cb, log'[j].cb)
      <4>1. i \in 1..Len(log) /\ log'[i] = log[i]
        <5>1. j <= Len(log) + 1 /\ Len(log) \in Nat
          BY <2>5, <1>0
        <5>2. i # Len(log) + 1
          BY <3>1, <5>1
        <5>3. QED
          BY <5>2, <2>5
      <4>2. CASE j \in 1..Len(log) /\ log'[j] = log[j]
        BY <3>1, <4>1, <4>2 DEF OrderInv, OrderKept, InOrder, NotAfter
      <4>3. CASE log'[j] = run
        BY <3>1, <4>1, <4>3, <2>0, <2>2, <2>4
           DEF OrderInv, OrderKept, LogBeforeTasks
      <4>4. QED
        BY <2>5, <4>2, <4>3
    <3>2. QED
      BY <3>1, <2>3, OrderUnmoved DEF InOrder, NotAfter
  <2>12. RegisteredOnce' /\ QueueIsTheEnd'
    BY <2>3, OrderUnmoved DEF OrderInv, OrderKept
  <2>13. QED
    BY <2>7, <2>8, <2>9, <2>10, <2>11, <2>12 DEF OrderKept
<1>7. ASSUME NEW t \in Threads,
             \/ \E r \in Results : SetResult(t, r) \/ SetValue(t, r)
             \/ Trigger(t)
             \/ Release(t)
      PROVE  OrderKept'
  <2>1. UNCHANGED <<callbacks, tasks, registered, log>>
    BY <1>7 DEF SetResult, SetValue, Trigger, Release
  <2>2. QED
    BY <1>1, <2>1
<1>8. CASE UNCHANGED vars
  BY <1>1, <1>8 DEF vars
<1>9. QED
  BY <1>2, <1>3, <1>4, <1>5, <1>6, <1>7, <1>8 DEF Next, Proceed

\* Callbacks of one context run in the order of their registration: whichever
\* thread runs the loop, an inline callback that throws and is run again
\* included, and whatever was registered between the two halves of setResult.
THEOREM RunsInOrder == Spec => []InOrder
<1>1. Init => OrderInv
  <2>1. Init => /\ Len(registered) = 0 /\ Len(callbacks) = 0
                /\ \A i \in 1..Len(registered) : FALSE
                /\ \A i \in 1..Len(callbacks) : FALSE
                /\ \A i \in 1..Len(log) : FALSE
                /\ \A q \in Queues : \A i \in 1..Len(tasks[q]) : FALSE
    BY DEF Init
  <2>2. QED
    BY <2>1, LoopInvInit
       DEF OrderInv, OrderKept, RegisteredOnce, QueueIsTheEnd, TasksHadTurn,
           TasksInOrder, LogHadTurn, LogBeforeTasks, InOrder
<1>2. OrderInv => InOrder
  BY DEF OrderInv, OrderKept
<1>3. QED
  BY <1>1, <1>2, OrderNext, PTL DEF Spec
=============================================================================
