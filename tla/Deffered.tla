------------------------------ MODULE Deffered ------------------------------
(***************************************************************************)
(* core/src/async/Deffered.hpp: the state a Promise completes and its      *)
(* Futures read.  Threads set the result and register callbacks; _lock     *)
(* serialises them, except that setResult releases it before it triggers.  *)
(* Whoever holds the lock with a result present empties the queue: each    *)
(* callback is handed to its execution context, then popped.               *)
(*                                                                         *)
(* A callback on the immediate context runs inside the loop; one that      *)
(* throws, as those of Throwing may each time they run, unwinds it, lock   *)
(* included, and is still queued.  No inline callback registers another    *)
(* one on the same deffered: _lock is recursive, and such a callback would *)
(* be run again by the inner loop.                                         *)
(***************************************************************************)
EXTENDS Naturals, Sequences

CONSTANTS Threads, Callbacks, Results,
          NoResult,          \* _value is empty
          NoThread,          \* _lock is free
          Immediate,         \* ImmediateExecutionContext
          Queues,            \* the serial execution contexts
          Throwing           \* the callbacks that may throw when run inline

ASSUME ThrowingAssumption == Throwing \subseteq Callbacks
ASSUME NoResultAssumption == NoResult \notin Results
ASSUME NoThreadAssumption == NoThread \notin Threads
ASSUME ImmediateAssumption == Immediate \notin Queues

VARIABLES value,       \* _value
          callbacks,   \* _callbacks, a queue of callbacks and their contexts
          lock,        \* the thread that holds _lock across steps, or NoThread
          pc,          \* where each thread is in the code
          tasks,       \* what each serial context has still to run
          registered,  \* history: the calls of addCallback, in order
          log          \* history: the callbacks run, what they were given, and
                       \* whether they threw through the loop that ran them

vars == <<value, callbacks, lock, pc, tasks, registered, log>>

Entries == [cb : Callbacks, ctx : Queues \cup {Immediate}]
Deliveries == [cb : Callbacks, result : Results]
Runs == [cb : Callbacks, result : Results, end : {"returned", "threw"}]
Places == {"idle", "unlocked", "trigger", "pop"}

Init ==
    /\ value = NoResult
    /\ callbacks = <<>>
    /\ lock = NoThread
    /\ pc = [t \in Threads |-> "idle"]
    /\ tasks = [q \in Queues |-> <<>>]
    /\ registered = <<>>
    /\ log = <<>>

Delivery(cb) == [cb |-> cb, result |-> value]
Run(d, end) == [cb |-> d.cb, result |-> d.result, end |-> end]

IsRegistered(cb) == \E i \in 1..Len(registered) : registered[i].cb = cb

Goto(t, place) == pc' = [pc EXCEPT ![t] = place]

\* Mutant: ensureNotCompleted is forgotten.
SetResultUnchecked(t, r) ==
    /\ pc[t] = "idle"
    /\ lock = NoThread
    /\ value' = r
    /\ Goto(t, "unlocked")
    /\ UNCHANGED <<callbacks, lock, tasks, registered, log>>

\* setResult: the first scope sets the value and drops the lock.
SetResult(t, r) ==
    /\ pc[t] = "idle"
    /\ lock = NoThread
    /\ value = NoResult
    /\ value' = r
    /\ Goto(t, "unlocked")
    /\ UNCHANGED <<callbacks, lock, tasks, registered, log>>

\* Mutant: the public trigger does not take the lock.
TriggerUnlocked(t) ==
    /\ pc[t] = "unlocked"
    /\ Goto(t, "trigger")
    /\ UNCHANGED <<value, callbacks, lock, tasks, registered, log>>

\* setResult, second part: trigger takes the lock again.
Trigger(t) ==
    /\ pc[t] = "unlocked"
    /\ lock = NoThread
    /\ lock' = t
    /\ Goto(t, "trigger")
    /\ UNCHANGED <<value, callbacks, tasks, registered, log>>

\* setValue and setError: the lock is kept from the check to the end.
SetValue(t, r) ==
    /\ pc[t] = "idle"
    /\ lock = NoThread
    /\ value = NoResult
    /\ value' = r
    /\ lock' = t
    /\ Goto(t, "trigger")
    /\ UNCHANGED <<callbacks, tasks, registered, log>>

\* Mutant: addCallback only queues, and leaves the trigger to the completion.
AddCallbackUntriggered(t, cb, ctx) ==
    /\ pc[t] = "idle"
    /\ lock = NoThread
    /\ ~IsRegistered(cb)
    /\ registered' = Append(registered, [cb |-> cb, ctx |-> ctx])
    /\ callbacks' = Append(callbacks, [cb |-> cb, ctx |-> ctx])
    /\ UNCHANGED <<value, lock, pc, tasks, log>>

\* Mutant: on a completed deffered addCallback runs an inline callback at once.
AddCallbackShortcut(t, cb, ctx) ==
    /\ pc[t] = "idle"
    /\ lock = NoThread
    /\ ~IsRegistered(cb)
    /\ registered' = Append(registered, [cb |-> cb, ctx |-> ctx])
    /\ IF value # NoResult /\ ctx = Immediate
          THEN /\ log' = Append(log, Run(Delivery(cb), "returned"))
               /\ UNCHANGED <<callbacks, lock, pc>>
          ELSE /\ callbacks' = Append(callbacks, [cb |-> cb, ctx |-> ctx])
               /\ lock' = t
               /\ Goto(t, "trigger")
               /\ UNCHANGED log
    /\ UNCHANGED <<value, tasks>>

AddCallback(t, cb, ctx) ==
    /\ pc[t] = "idle"
    /\ lock = NoThread
    /\ ~IsRegistered(cb)
    /\ registered' = Append(registered, [cb |-> cb, ctx |-> ctx])
    /\ callbacks' = Append(callbacks, [cb |-> cb, ctx |-> ctx])
    /\ lock' = t
    /\ Goto(t, "trigger")
    /\ UNCHANGED <<value, tasks, log>>

\* Mutant: the loop does not look whether there is a value.
PostUnchecked(t) ==
    /\ pc[t] = "trigger"
    /\ callbacks # <<>>
    /\ Head(callbacks).ctx # Immediate
    /\ tasks' = [tasks EXCEPT ![Head(callbacks).ctx] =
                    Append(@, Delivery(Head(callbacks).cb))]
    /\ Goto(t, "pop")
    /\ UNCHANGED <<value, callbacks, lock, registered, log>>

\* _trigger, one turn of the loop: execute on a serial context posts a task.
Post(t) ==
    /\ pc[t] = "trigger"
    /\ value # NoResult
    /\ callbacks # <<>>
    /\ Head(callbacks).ctx # Immediate
    /\ tasks' = [tasks EXCEPT ![Head(callbacks).ctx] =
                    Append(@, Delivery(Head(callbacks).cb))]
    /\ Goto(t, "pop")
    /\ UNCHANGED <<value, callbacks, lock, registered, log>>

\* _trigger, one turn of the loop: the immediate context runs the callback.
RunInline(t) ==
    /\ pc[t] = "trigger"
    /\ value # NoResult
    /\ callbacks # <<>>
    /\ Head(callbacks).ctx = Immediate
    /\ \/ /\ log' = Append(log, Run(Delivery(Head(callbacks).cb), "returned"))
          /\ Goto(t, "pop")
          /\ UNCHANGED lock
       \/ /\ Head(callbacks).cb \in Throwing
          /\ log' = Append(log, Run(Delivery(Head(callbacks).cb), "threw"))
          /\ Goto(t, "idle")
          /\ lock' = NoThread
    /\ UNCHANGED <<value, callbacks, tasks, registered>>

Pop(t) ==
    /\ pc[t] = "pop"
    /\ callbacks' = Tail(callbacks)
    /\ Goto(t, "trigger")
    /\ UNCHANGED <<value, lock, tasks, registered, log>>

\* _trigger returns: there is no value yet, or the queue is empty.
Release(t) ==
    /\ pc[t] = "trigger"
    /\ value = NoResult \/ callbacks = <<>>
    /\ lock' = NoThread
    /\ Goto(t, "idle")
    /\ UNCHANGED <<value, callbacks, tasks, registered, log>>

\* A serial context runs its oldest task.
RunTask(q) ==
    /\ tasks[q] # <<>>
    /\ log' = Append(log, Run(Head(tasks[q]), "returned"))
    /\ tasks' = [tasks EXCEPT ![q] = Tail(@)]
    /\ UNCHANGED <<value, callbacks, lock, pc, registered>>

Proceed(t) ==
    Trigger(t) \/ Post(t) \/ RunInline(t) \/ Pop(t) \/ Release(t)

Next ==
    \/ \E t \in Threads :
          \/ \E r \in Results : SetResult(t, r) \/ SetValue(t, r)
          \/ \E cb \in Callbacks, ctx \in Queues \cup {Immediate} :
                AddCallback(t, cb, ctx)
          \/ Proceed(t)
    \/ \E q \in Queues : RunTask(q)

Spec == Init /\ [][Next]_vars

\* A thread inside the code goes on, and a context runs what it was given.
FairSpec ==
    /\ Spec
    /\ \A t \in Threads : WF_vars(Proceed(t))
    /\ \A q \in Queues : WF_vars(RunTask(q))

-----------------------------------------------------------------------------
\* Every variable has its type.
TypeOK ==
    /\ value \in Results \cup {NoResult}
    /\ callbacks \in Seq(Entries)
    /\ lock \in Threads \cup {NoThread}
    /\ pc \in [Threads -> Places]
    /\ tasks \in [Queues -> Seq(Deliveries)]
    /\ registered \in Seq(Entries)
    /\ log \in Seq(Runs)

\* Every callback that ran was given the result the deffered holds, whichever
\* thread set it and whichever ran the loop: no callback sees a first result
\* that a second completion then replaces (ensureNotCompleted under _lock).
Agreement == \A i \in 1..Len(log) : log[i].result = value

\* The delivery is stuck behind an inline callback that threw.
Blocked ==
    /\ callbacks # <<>>
    /\ \E i \in 1..Len(log) :
          log[i].cb = Head(callbacks).cb /\ log[i].end = "threw"

\* No callback is stranded: when a result is there and the queue is neither
\* empty nor blocked, some thread is still going to run the loop.  It is what
\* makes it safe for setResult to drop _lock before it triggers.
NoneStranded ==
    value # NoResult /\ callbacks # <<>>
        => Blocked \/ \E t \in Threads : pc[t] # "idle"

\* A callback runs again only if it threw through the loop that ran it, which
\* leaves it queued (execute comes before pop): one that returned never runs a
\* second time, whichever threads trigger while it is still at the head.
RunOnce ==
    \A i, j \in 1..Len(log) :
        i < j /\ log[i].cb = log[j].cb => log[i].end = "threw"

RegisteredAt(cb) == CHOOSE i \in 1..Len(registered) : registered[i].cb = cb
ContextOf(cb) == registered[RegisteredAt(cb)].ctx

\* Callbacks of one context run in the order of their registration, also those
\* registered between the two halves of setResult.
InOrder ==
    \A i, j \in 1..Len(log) :
        /\ i < j
        /\ ContextOf(log[i].cb) = ContextOf(log[j].cb)
        => RegisteredAt(log[i].cb) <= RegisteredAt(log[j].cb)

RanCallbacks == {log[i].cb : i \in 1..Len(log)}
RegisteredCallbacks == {registered[i].cb : i \in 1..Len(registered)}

\* Every callback registered on a deffered that has, or gets, a result runs,
\* unless the delivery is blocked: the two halves of setResult and the
\* registrations of other threads always leave somebody to run it.
AllRun ==
    \A cb \in Callbacks :
        (IsRegistered(cb) /\ value # NoResult) ~> (cb \in RanCallbacks \/ Blocked)

\* What the users see of a deffered: it is set once, and a callback is only
\* called once it was registered and with the result there.
Promised == INSTANCE OneShot WITH waiting <- RegisteredCallbacks \ RanCallbacks,
                                  called <- RanCallbacks
PromisedSpec == Promised!Spec
=============================================================================
