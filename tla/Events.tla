------------------------------- MODULE Events -------------------------------
(***************************************************************************)
(* Event buses and publishers, as an account uses them.  The bus of an     *)
(* account is relayed by its wallet's publisher and that one's bus by the  *)
(* pool's, and each synchronization has a bus of its own with sticky       *)
(* events.  Everything a bus or a publisher does is a closure given to its *)
(* execution context: the account and the wallet run theirs on pools of    *)
(* threads, the wallet pool and a receiver of the application one by one.  *)
(* Two threads of the process make events: the synchronizer's              *)
(* continuations and the callback of a broadcast.                          *)
(*                                                                         *)
(* A receiver runs its events on a context of its own, of the same name;   *)
(* "wallet" and "pool" name the publishers that relay, their receivers,    *)
(* their contexts and their buses.  The n-th row an operation o gets is    *)
(* <<o, n>>, and an event about operations is about such rows.             *)
(***************************************************************************)
EXTENDS Naturals, Sequences, SequencesExt

CONSTANTS Receivers,        \* the receivers of the application
          Relays,           \* the publishers that relay the account's events
          Listened,         \* the buses the application listens to
          Operations,
          Threads,          \* how many threads a thread pool has
          MaxRows,          \* bound: how often an operation is inserted
          MaxChanges,       \* bound: insertions and deletions of operations
          MaxCalls          \* bound: calls of subscribe and unsubscribe

ASSUME ThreadsAssumption == Threads \in Nat \ {0}
ASSUME BoundsAssumption == MaxRows \in Nat /\ MaxChanges \in Nat /\ MaxCalls \in Nat
ASSUME NamesAssumption ==
    /\ Receivers \cap {"account", "wallet", "pool"} = {}
    /\ Listened \subseteq {"sync", "account"} \cup Relays
    /\ Relays \in {{}, {"wallet"}, {"wallet", "pool"}}

VARIABLES tasks,        \* the closures each execution context was given
          subscribers,  \* the receivers of each bus
          sticky,       \* the sticky event of each bus: only tag 0 is used
          batched,      \* the account's _batchedOperationsEvent: the rows in it,
                        \* as a sequence that is empty for a null pointer
          events,       \* the account's _events
          table,        \* the row each operation has, 0 for none
          rows,         \* how many rows each operation had
          mined,        \* the operations that are in a block
          job,          \* the synchronization
          emits,        \* who has inserted and not called emitEventsNow yet
          heard,        \* the events each receiver was given, and by which bus
          owed,         \* history: rows inserted while a receiver listened
          left,         \* history: the buses each receiver was taken off
          overtaken,    \* history: an event was posted before an older sticky one
          changes, calls

accountVars == <<batched, events, table, rows, mined, job, emits>>
historyVars == <<heard, owed, left, overtaken>>
boundVars == <<changes, calls>>
vars == <<tasks, subscribers, sticky, accountVars, historyVars, boundVars>>

Buses == {"sync", "account"} \cup Relays
Source == [wallet |-> "account", pool |-> "wallet"]
Contexts == Receivers \cup {"account"} \cup Relays
ContextOf(b) == IF b = "sync" THEN "account" ELSE b
ThreadsOf(c) == IF c \in {"account", "wallet"} THEN Threads ELSE 1
Makers == {"synchronizer", "broadcast"}
Rows == Operations \X (1..MaxRows)

Event(code, about) == [code |-> code, about |-> about]
IsSticky(e) == e.code \in {"STARTED", "OUTCOME"}
NoEvent == Event("NONE", {})

Post(b, e) == [do |-> "post", bus |-> b, event |-> e]
OnEvent(b, e) == [do |-> "onEvent", bus |-> b, event |-> e]
Push(e) == [do |-> "push", event |-> e]

\* DedicatedContext: a closure is given to a context.
Async(c, closures) == tasks' = [tasks EXCEPT ![c] = @ \o closures]

\* The closures of a context that are running: as many as it has threads.
Running(c) == {i \in DOMAIN tasks[c] : i <= ThreadsOf(c)}

\* One of them ends, after it gave others to the contexts.
Done(c, i, given) ==
    tasks' = [d \in Contexts |->
                (IF d = c THEN RemoveAt(tasks[c], i) ELSE tasks[d]) \o given[d]]

Nothing == [d \in Contexts |-> <<>>]
To(c, closures) == [d \in Contexts |-> IF d = c THEN closures ELSE <<>>]
ToReceivers(R, b, e) ==
    [d \in Contexts |-> IF d \in R THEN <<OnEvent(b, e)>> ELSE <<>>]

\* The wallet was built and the account added: both relays were asked for.
Init ==
    /\ tasks = [c \in Contexts |->
                  IF c \in Relays THEN <<[do |-> "relay"]>> ELSE <<>>]
    /\ subscribers = [b \in Buses |-> {}]
    /\ sticky = [b \in Buses |-> NoEvent]
    /\ batched = <<>>
    /\ events = <<>>
    /\ table = [o \in Operations |-> 0]
    /\ rows = [o \in Operations |-> 0]
    /\ mined = {}
    /\ job = "none"
    /\ emits = {}
    /\ heard = [r \in Receivers |-> <<>>]
    /\ owed = {}
    /\ left = {}
    /\ overtaken = FALSE
    /\ changes = 0
    /\ calls = 0

-----------------------------------------------------------------------------
(* EventBus and EventPublisher: what the closures do.                      *)

\* A receiver is told the sticky event and put among the subscribers, unless
\* it is there.
AddSubscriber(b, r, c, i) ==
    /\ Done(c, i, IF r \in subscribers[b] \/ sticky[b] = NoEvent THEN Nothing
                  ELSE ToReceivers({r}, b, sticky[b]))
    /\ subscribers' = [subscribers EXCEPT ![b] = @ \cup {r}]

RunSubscribe(c, i) ==
    /\ tasks[c][i].do = "subscribe"
    /\ AddSubscriber(tasks[c][i].bus, tasks[c][i].receiver, c, i)
    /\ UNCHANGED <<sticky, accountVars, historyVars, boundVars>>

RunUnsubscribe(c, i) ==
    /\ tasks[c][i].do = "unsubscribe"
    /\ Done(c, i, Nothing)
    /\ subscribers' = [subscribers EXCEPT ![tasks[c][i].bus] =
                         @ \ {tasks[c][i].receiver}]
    /\ left' = left \cup {<<tasks[c][i].receiver, tasks[c][i].bus>>}
    /\ UNCHANGED <<sticky, accountVars, heard, owed, overtaken, boundVars>>

\* relay: the publisher's receiver subscribes to the other bus.
RunRelay(c, i) ==
    /\ tasks[c][i].do = "relay"
    /\ Done(c, i, To(Source[c], <<[do |-> "subscribe", bus |-> Source[c],
                                   receiver |-> c]>>))
    /\ UNCHANGED <<subscribers, sticky, accountVars, historyVars, boundVars>>

\* Mutant: a sticky event is kept for who comes later and given to nobody else.
KeepSticky(b, e, c, i) ==
    /\ sticky' = IF IsSticky(e) THEN [sticky EXCEPT ![b] = e] ELSE sticky
    /\ Done(c, i, IF IsSticky(e) THEN Nothing
                  ELSE ToReceivers(subscribers[b], b, e))

\* A sticky event is kept, and every subscriber is given the event.
Deliver(b, e, c, i) ==
    /\ sticky' = IF IsSticky(e) THEN [sticky EXCEPT ![b] = e] ELSE sticky
    /\ Done(c, i, ToReceivers(subscribers[b], b, e))

RunPost(c, i) ==
    /\ tasks[c][i].do = "post"
    /\ Deliver(tasks[c][i].bus, tasks[c][i].event, c, i)
    /\ overtaken' = (overtaken \/ \E j \in 1..(i - 1) :
                        /\ tasks[c][j].do = "post"
                        /\ tasks[c][j].bus = tasks[c][i].bus
                        /\ IsSticky(tasks[c][j].event))
    /\ UNCHANGED <<subscribers, accountVars, heard, owed, left, boundVars>>

\* A receiver of the application is called.
RunOnEvent(c, i) ==
    /\ tasks[c][i].do = "onEvent"
    /\ c \in Receivers
    /\ heard' = [heard EXCEPT ![c] =
                   Append(@, <<tasks[c][i].bus, tasks[c][i].event>>)]
    /\ Done(c, i, Nothing)
    /\ UNCHANGED <<subscribers, sticky, accountVars, owed, left, overtaken, boundVars>>

\* The receiver of a publisher that relays posts the event on its own bus.
RunRelayed(c, i) ==
    /\ tasks[c][i].do = "onEvent"
    /\ c \in Relays
    /\ Done(c, i, To(c, <<Post(c, tasks[c][i].event)>>))
    /\ UNCHANGED <<subscribers, sticky, accountVars, historyVars, boundVars>>

-----------------------------------------------------------------------------
(* AbstractAccount: its events.                                            *)

\* pushEvent's closure.
RunPush(c, i) ==
    /\ tasks[c][i].do = "push"
    /\ events' = Append(events, tasks[c][i].event)
    /\ Done(c, i, Nothing)
    /\ UNCHANGED <<subscribers, sticky, batched, table, rows, mined, job, emits,
                   historyVars, boundVars>>

\* Mutant: the batched event is posted and kept.
TakeEventsOnly == events' = <<>> /\ UNCHANGED batched

\* What is posted is taken from the account.
TakeEvents == events' = <<>> /\ batched' = <<>>

\* emitEventsNow's closure: the batched operations are posted first.
RunEmit(c, i) ==
    /\ tasks[c][i].do = "emit"
    /\ LET list == [k \in DOMAIN batched |-> Event("UPDATE", batched[k])] \o events IN
        Done(c, i, To(c, [k \in DOMAIN list |-> Post("account", list[k])]))
    /\ TakeEvents
    /\ UNCHANGED <<subscribers, sticky, table, rows, mined, job, emits, historyVars,
                   boundVars>>

New(S) == {<<o, rows[o] + 1>> : o \in S}

\* Mutant: another batch for each insertion.
BatchBeside(S) == batched' = Append(batched, New(S))

\* Mutant: an insertion starts a new batch over.
BatchAnew(S) == batched' = <<New(S)>>

\* emitNewOperationsEvent: a new batch, or into the one there is.
Batch(S) ==
    batched' = IF batched = <<>> THEN <<New(S)>> ELSE <<batched[1] \cup New(S)>>

\* History: the receivers that listen to a bus the account's events reach.
Reached(r, b) ==
    /\ r \in subscribers[b]
    /\ b \in Relays => "wallet" \in subscribers["account"]
    /\ b = "pool" => "pool" \in subscribers["wallet"]

Owed(S) == {w \in Receivers \X (Buses \ {"sync"}) \X New(S) : Reached(w[1], w[2])}

\* bulkInsert of some operations.
BulkInsert(who, S) ==
    /\ changes < MaxChanges
    /\ changes' = changes + 1
    /\ who \notin emits
    /\ \A o \in S : rows[o] < MaxRows
    /\ rows' = [o \in Operations |-> IF o \in S THEN rows[o] + 1 ELSE rows[o]]
    /\ table' = [o \in Operations |-> IF o \in S THEN rows'[o] ELSE table[o]]
    /\ mined' = IF who = "synchronizer" THEN mined \cup S ELSE mined \ S
    /\ Batch(S)
    /\ emits' = emits \cup {who}
    /\ owed' = owed \cup Owed(S)
    /\ UNCHANGED <<tasks, subscribers, sticky, events, job, heard, left, overtaken,
                   calls>>

\* synchronizeBatch inserts what a page holds (that of an empty page only makes
\* an empty event) ...
InsertPage(S) ==
    /\ job = "running"
    /\ BulkInsert("synchronizer", S)

\* ... and a broadcast inserts its operation.
OptimisticUpdate(o) == BulkInsert("broadcast", {o})

\* Both call emitEventsNow then.
EmitEventsNow(who) ==
    /\ who \in emits
    /\ emits' = emits \ {who}
    /\ Async("account", <<[do |-> "emit"]>>)
    /\ UNCHANGED <<subscribers, sticky, batched, events, table, rows, mined, job,
                   historyVars, boundVars>>

\* A recovery deletes an operation of a block: emitDeletedOperationEvent.
DeleteOperation(o) ==
    /\ job = "running" /\ "synchronizer" \notin emits
    /\ table[o] # 0 /\ o \in mined
    /\ changes < MaxChanges
    /\ changes' = changes + 1
    /\ table' = [table EXCEPT ![o] = 0]
    /\ Async("account", <<Push(Event("DELETED", {<<o, table[o]>>}))>>)
    /\ UNCHANGED <<subscribers, sticky, batched, events, rows, mined, job, emits,
                   historyVars, calls>>

\* Mutant: the callback is registered before the start is posted, and the
\* synchronization has ended already.
SynchronizeLate ==
    /\ job = "none"
    /\ job' = "ended"
    /\ Async("account", <<Post("sync", Event("OUTCOME", {})),
                          Post("sync", Event("STARTED", {}))>>)
    /\ UNCHANGED <<subscribers, sticky, batched, events, table, rows, mined, emits,
                   historyVars, boundVars>>

\* synchronize: a bus of its own, and the sticky event of its start.
Synchronize ==
    /\ job = "none"
    /\ job' = "running"
    /\ Async("account", <<Post("sync", Event("STARTED", {}))>>)
    /\ UNCHANGED <<subscribers, sticky, batched, events, table, rows, mined, emits,
                   historyVars, boundVars>>

\* The callback on the end of the synchronization: its outcome.
PostOutcome ==
    /\ job = "running" /\ "synchronizer" \notin emits
    /\ job' = "ended"
    /\ Async("account", <<Post("sync", Event("OUTCOME", {}))>>)
    /\ UNCHANGED <<subscribers, sticky, batched, events, table, rows, mined, emits,
                   historyVars, boundVars>>

-----------------------------------------------------------------------------
(* The application.                                                        *)

Ask(b, closure) ==
    /\ calls < MaxCalls
    /\ calls' = calls + 1
    /\ Async(ContextOf(b), <<closure>>)
    /\ UNCHANGED <<subscribers, sticky, accountVars, historyVars, changes>>

Subscribe(r, b) ==
    /\ b = "sync" => job # "none"
    /\ Ask(b, [do |-> "subscribe", bus |-> b, receiver |-> r])

Unsubscribe(r, b) ==
    /\ b = "sync" => job # "none"
    /\ Ask(b, [do |-> "unsubscribe", bus |-> b, receiver |-> r])

-----------------------------------------------------------------------------
Run(c) ==
    \E i \in Running(c) :
        \/ RunSubscribe(c, i) \/ RunUnsubscribe(c, i) \/ RunRelay(c, i)
        \/ RunPost(c, i) \/ RunOnEvent(c, i) \/ RunRelayed(c, i)
        \/ RunPush(c, i) \/ RunEmit(c, i)

Next ==
    \/ \E c \in Contexts : Run(c)
    \/ \E S \in SUBSET Operations \ {{}} : InsertPage(S)
    \/ \E o \in Operations : OptimisticUpdate(o) \/ DeleteOperation(o)
    \/ \E who \in Makers : EmitEventsNow(who)
    \/ Synchronize \/ PostOutcome
    \/ \E r \in Receivers, b \in Listened : Subscribe(r, b) \/ Unsubscribe(r, b)

Spec == Init /\ [][Next]_vars

Progress ==
    \/ \E c \in Contexts : Run(c)
    \/ \E who \in Makers : EmitEventsNow(who)
    \/ PostOutcome

\* The contexts run what they are given, a page that was inserted is followed
\* by emitEventsNow, and a synchronization ends.
FairSpec == Spec /\ WF_vars(Progress)

-----------------------------------------------------------------------------
Codes == {"NONE", "STARTED", "OUTCOME", "UPDATE", "DELETED"}
AllEvents == [code : Codes, about : SUBSET Rows]
Closures ==
    [do : {"subscribe", "unsubscribe"}, bus : Buses, receiver : Receivers \cup Relays]
    \cup [do : {"post", "onEvent"}, bus : Buses, event : AllEvents]
    \cup [do : {"push"}, event : AllEvents]
    \cup [do : {"relay", "emit"}]

\* Every variable has its type.
TypeOK ==
    /\ tasks \in [Contexts -> Seq(Closures)]
    /\ subscribers \in [Buses -> SUBSET (Receivers \cup Relays)]
    /\ sticky \in [Buses -> AllEvents]
    /\ batched \in Seq(SUBSET Rows) /\ Len(batched) <= 1
    /\ events \in Seq(AllEvents)
    /\ table \in [Operations -> 0..MaxRows] /\ rows \in [Operations -> 0..MaxRows]
    /\ mined \subseteq Operations
    /\ job \in {"none", "running", "ended"}
    /\ emits \subseteq Makers
    /\ heard \in [Receivers -> Seq(Buses \X AllEvents)]
    /\ owed \subseteq Receivers \X Buses \X Rows
    /\ left \subseteq Receivers \X Buses
    /\ overtaken \in BOOLEAN
    /\ changes \in 0..MaxChanges /\ calls \in 0..MaxCalls

Same(e, f) == e.code = f.code /\ (IsSticky(e) \/ e.about \cap f.about # {})

\* No bus tells a receiver of the same insertion or deletion twice, however often it
\* subscribes and however many threads insert and call emitEventsNow, unless it was
\* taken off and came back.  An operation inserted anew is told again.
HeardOnce ==
    \A r \in Receivers : \A j, k \in DOMAIN heard[r] :
        /\ heard[r][j][1] = heard[r][k][1] /\ <<r, heard[r][j][1]>> \notin left
        /\ Same(heard[r][j][2], heard[r][k][2])
        => j = k

\* Nobody is told that a synchronization started after its outcome, unless two
\* threads of the pool exchanged the events.
OutcomeIsLast ==
    ~overtaken =>
        \A r \in Receivers : \A j \in DOMAIN heard[r] :
            heard[r][j][2].code = "OUTCOME" =>
                \A k \in j..Len(heard[r]) : heard[r][k][2].code # "STARTED"

\* Nothing is on its way.
Quiet == emits = {} /\ \A c \in Contexts : tasks[c] = <<>>

Told(r, b, code, about) ==
    \E k \in DOMAIN heard[r] : /\ heard[r][k][1] = b
                              /\ heard[r][k][2].code = code
                              /\ about \subseteq heard[r][k][2].about

\* Who listens when a row is inserted, at the account or behind its relays, has
\* been told of it when nothing is on its way.
RowsTold ==
    Quiet => \A x \in owed :
                <<x[1], x[2]>> \in left \/ Told(x[1], x[2], "UPDATE", {x[3]})

\* Who asks for the bus of a synchronization is told the outcome, however late
\* it subscribes.
OutcomeHeard ==
    \A r \in Receivers :
        r \in subscribers["sync"] ~>
            Told(r, "sync", "OUTCOME", {})
            \/ <<r, "sync">> \in left \/ overtaken
=============================================================================
