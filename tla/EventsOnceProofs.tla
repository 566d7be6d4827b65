-------------------------- MODULE EventsOnceProofs --------------------------
(***************************************************************************)
(* Proofs that no bus tells a receiver the same thing twice, for any       *)
(* receivers, relays, operations, numbers of threads and bounds.           *)
(***************************************************************************)
EXTENDS EventsProofs

-----------------------------------------------------------------------------
(* Nobody is told the same thing twice: a synchronization.                 *)

\* What is sticky is heard on the bus of a synchronization.
HeardFits ==
    \A r \in Receivers : \A k \in DOMAIN heard[r] :
        heard[r][k][1] = "sync" <=> IsSticky(heard[r][k][2])

\* The receiver was told, or will be.
ToldSync(r, n) ==
    \/ \E k \in DOMAIN tasks[r] : Says(tasks[r][k], "onEvent", n)
    \/ \E k \in DOMAIN heard[r] : heard[r][k][2].code = n

NotYet(n) == job = "none" \/ (n = "OUTCOME" /\ job # "ended")
SyncWaits(n) == \E k \in DOMAIN tasks["account"] : Says(tasks["account"][k], "post", n)

SyncOnceFor(n) ==
    /\ \A j, k \in DOMAIN tasks["account"] :
         /\ Says(tasks["account"][j], "post", n)
         /\ Says(tasks["account"][k], "post", n)
         => j = k
    /\ NotYet(n) => ~SyncWaits(n)
    /\ NotYet(n) \/ SyncWaits(n) =>
         sticky["sync"].code # n /\ \A r \in Receivers : ~ToldSync(r, n)
    /\ \A r \in Receivers : <<r, "sync">> \notin left =>
         /\ r \notin subscribers["sync"] => ~ToldSync(r, n)
         /\ \A j, k \in DOMAIN tasks[r] :
              Says(tasks[r][j], "onEvent", n) /\ Says(tasks[r][k], "onEvent", n) => j = k
         /\ \A j, k \in DOMAIN heard[r] :
              heard[r][j][2].code = n /\ heard[r][k][2].code = n => j = k
         /\ \A j \in DOMAIN heard[r], k \in DOMAIN tasks[r] :
              heard[r][j][2].code = n => ~Says(tasks[r][k], "onEvent", n)

SyncOnce == HeardFits /\ SyncOnceFor("STARTED") /\ SyncOnceFor("OUTCOME")

LEMMA SyncOnceInit == Init => SyncOnce
<1> SUFFICES ASSUME Init PROVE SyncOnce
  OBVIOUS
<1>1. DOMAIN tasks["account"] = {}
  BY Names, EmptyDomain DEF Init
<1>2. \A r \in Receivers : DOMAIN tasks[r] = {} /\ DOMAIN heard[r] = {}
  BY Names, EmptyDomain DEF Init, Contexts
<1>3. sticky["sync"].code = "NONE"
  BY Names DEF Init, NoEvent, Event
<1>4. \A r \in Receivers, n \in {"STARTED", "OUTCOME"} : ~ToldSync(r, n)
  BY <1>2 DEF ToldSync
<1>5. \A n \in {"STARTED", "OUTCOME"} : SyncOnceFor(n)
  BY <1>1, <1>2, <1>3, <1>4 DEF SyncOnceFor, SyncWaits
<1> QED BY <1>2, <1>5 DEF SyncOnce, HeardFits

\* What was said to a receiver and waits for it, when a step gives nothing more.
LEMMA SyncKept ==
    ASSUME TypeOK, NEW n \in {"STARTED", "OUTCOME"}, SyncOnceFor(n),
           NEW c, NEW i \in Nat, NEW given \in Tasks, Moves(c, i, given),
           \A d \in Contexts : \A k \in DOMAIN given[d] : ~Tells(given[d][k]),
           NotYet(n)' => NotYet(n), UNCHANGED <<sticky, heard>>,
           left \subseteq left',
           \A r \in subscribers["sync"] : r \in subscribers'["sync"] \/ <<r, "sync">> \in left'
    PROVE  SyncOnceFor(n)'
<1> USE DEF Tells
<1>1. tasks \in Tasks
  BY DEF TypeOK, Tasks
<1>2. ASSUME NEW d \in Contexts, NEW j \in DOMAIN tasks'[d], Tells(tasks'[d][j]),
             NEW k \in DOMAIN tasks'[d], Tells(tasks'[d][k])
      PROVE  \E l, m \in DOMAIN tasks[d] :
               /\ tasks'[d][j] = tasks[d][l] /\ tasks'[d][k] = tasks[d][m]
               /\ l = m <=> j = k
  <2>1. PairOrigin(c, i, given, d, j, k)
    BY <1>1, MovesOrder
  <2>2. \A m \in DOMAIN given[d] : tasks'[d][j] # given[d][m] /\ tasks'[d][k] # given[d][m]
    BY <1>2
  <2> QED BY <2>1, <2>2 DEF PairOrigin
<1>3. "account" \in Contexts /\ \A r \in Receivers : r \in Contexts
  BY DEF Contexts
<1>4. SyncWaits(n)' => SyncWaits(n)
  BY <1>2, <1>3 DEF SyncWaits
<1>5. \A r \in Receivers : ToldSync(r, n)' => ToldSync(r, n)
  BY <1>2, <1>3 DEF ToldSync
<1>6. \A j, k \in DOMAIN tasks'["account"] :
        /\ Says(tasks'["account"][j], "post", n)
        /\ Says(tasks'["account"][k], "post", n)
        => j = k
  BY <1>2, <1>3 DEF SyncOnceFor
<1>7. ASSUME NEW r \in Receivers, <<r, "sync">> \notin left'
      PROVE  /\ r \notin subscribers'["sync"] => ~ToldSync(r, n)'
             /\ \A j, k \in DOMAIN tasks'[r] :
                  /\ Says(tasks'[r][j], "onEvent", n)
                  /\ Says(tasks'[r][k], "onEvent", n)
                  => j = k
             /\ \A j, k \in DOMAIN heard'[r] :
                  heard'[r][j][2].code = n /\ heard'[r][k][2].code = n => j = k
             /\ \A j \in DOMAIN heard'[r], k \in DOMAIN tasks'[r] :
                  heard'[r][j][2].code = n => ~Says(tasks'[r][k], "onEvent", n)
  <2>1. <<r, "sync">> \notin left /\ (r \notin subscribers'["sync"] => r \notin subscribers["sync"])
    BY <1>7
  <2>2. \A j, k \in DOMAIN tasks'[r] :
          Says(tasks'[r][j], "onEvent", n) /\ Says(tasks'[r][k], "onEvent", n) => j = k
    BY <1>2, <1>3, <2>1 DEF SyncOnceFor
  <2>3. \A j \in DOMAIN heard'[r], k \in DOMAIN tasks'[r] :
          heard'[r][j][2].code = n => ~Says(tasks'[r][k], "onEvent", n)
    BY <1>2, <1>3, <2>1 DEF SyncOnceFor
  <2> QED BY <1>5, <2>1, <2>2, <2>3 DEF SyncOnceFor
<1> QED BY <1>4, <1>5, <1>6, <1>7 DEF SyncOnceFor

\* A receiver is given one event of a synchronization: what waited for it waits,
\* and this event behind it.
LEMMA SyncGiven ==
    ASSUME TypeOK, NEW c, NEW i \in Nat, NEW given \in Tasks, Moves(c, i, given), NEW t,
           \A d \in Contexts : \A k \in DOMAIN given[d] : given[d][k] = t /\ k = 1,
           NEW d \in Contexts, NEW j \in DOMAIN tasks'[d], NEW k \in DOMAIN tasks'[d]
    PROVE  \/ \E l, m \in DOMAIN tasks[d] :
                /\ tasks'[d][j] = tasks[d][l] /\ tasks'[d][k] = tasks[d][m]
                /\ d = c => l # i /\ m # i
                /\ l = m <=> j = k
           \/ /\ DOMAIN given[d] # {} /\ tasks'[d][j] = t
              /\ \E m \in DOMAIN tasks[d] : tasks'[d][k] = tasks[d][m] /\ (d = c => m # i)
           \/ /\ DOMAIN given[d] # {} /\ tasks'[d][k] = t
              /\ \E l \in DOMAIN tasks[d] : tasks'[d][j] = tasks[d][l] /\ (d = c => l # i)
           \/ DOMAIN given[d] # {} /\ tasks'[d][j] = t /\ j = k
<1>1. PairOrigin(c, i, given, d, j, k)
  BY MovesOrder DEF TypeOK, Tasks
<1> QED BY <1>1 DEF PairOrigin

LEMMA SyncOnceSubscribe ==
    ASSUME TypeOK, Wired, NEW n \in {"STARTED", "OUTCOME"}, SyncOnceFor(n),
           NEW c \in Contexts, NEW i \in Running(c), RunSubscribe(c, i)
    PROVE  SyncOnceFor(n)'
<1> DEFINE b == tasks[c][i].bus
           r == tasks[c][i].receiver
           given == Welcome(b, r)
<1>1. /\ b \in Buses /\ r \in Receivers \cup Relays /\ Moves(c, i, given)
  BY SubscribeMoves
<1>2. /\ UNCHANGED <<sticky, job, heard, left>>
      /\ subscribers' = [subscribers EXCEPT ![b] = @ \cup {r}]
  BY DEF RunSubscribe, AddSubscriber, accountVars, historyVars
<1>3. /\ tasks \in Tasks /\ i \in Nat
      /\ tasks[c][i].do = "subscribe" /\ i \in DOMAIN tasks[c]
  BY RunningClosure DEF TypeOK, Tasks, RunSubscribe
<1>4. given \in Tasks
  <2>1. ToReceivers({r}, b, sticky[b]) \in Tasks
    BY <1>1, DeliveredType DEF TypeOK
  <2> QED BY <2>1, GivenTypes DEF Welcome
<1>5. \A d \in Contexts : \A k \in DOMAIN given[d] :
        /\ d = r /\ r \notin subscribers[b]
        /\ given[d][k] = OnEvent(b, sticky[b]) /\ sticky[b] # NoEvent /\ k = 1
  BY GivenWelcome
<1>6. \A a \in Buses : subscribers[a] \subseteq subscribers'[a]
  BY <1>1, <1>2 DEF TypeOK
<1> HIDE DEF given
<1>7. CASE \A d \in Contexts : \A k \in DOMAIN given[d] : ~Tells(given[d][k])
  BY <1>1, <1>2, <1>3, <1>4, <1>6, <1>7, Names, SyncKept DEF NotYet
<1>8. ASSUME NEW d0 \in Contexts, NEW k0 \in DOMAIN given[d0], Tells(given[d0][k0])
      PROVE  SyncOnceFor(n)'
  <2>1. d0 = r /\ sticky[b] # NoEvent /\ r \notin subscribers[b]
    BY <1>5
  <2>2. b = "sync"
    BY <1>1, <2>1 DEF Wired
  <2>3. r \in Receivers /\ r \in Contexts /\ "account" \in Contexts
    BY <1>1, <1>3, <2>2, Names DEF Wired, AllFit, Fits, Contexts
  <2> DEFINE t == OnEvent("sync", sticky["sync"])
  <2>4. \A e \in Contexts : \A l \in DOMAIN given[e] : given[e][l] = t /\ l = 1 /\ e = r
    BY <1>5, <2>2
  <2>5. /\ r \in subscribers'["sync"]
        /\ \A q \in Receivers \ {r} : q \notin subscribers'["sync"] => q \notin subscribers["sync"]
    BY <1>2, <2>2, Names DEF TypeOK
  <2>6. /\ ~Says(t, "post", n)
        /\ Says(t, "onEvent", n) <=> sticky["sync"].code = n
    BY DEF Says, OnEvent
  <2> HIDE DEF t
  <2>7. ASSUME NEW e \in Contexts, NEW l \in DOMAIN tasks'[e], NEW m \in DOMAIN tasks'[e]
        PROVE  \/ \E x, y \in DOMAIN tasks[e] :
                    /\ tasks'[e][l] = tasks[e][x] /\ tasks'[e][m] = tasks[e][y]
                    /\ x = y <=> l = m
               \/ /\ e = r /\ tasks'[e][l] = t
                  /\ \E y \in DOMAIN tasks[e] : tasks'[e][m] = tasks[e][y]
               \/ /\ e = r /\ tasks'[e][m] = t
                  /\ \E x \in DOMAIN tasks[e] : tasks'[e][l] = tasks[e][x]
               \/ e = r /\ tasks'[e][l] = t /\ l = m
    <3>1. \A a \in Contexts : \A k \in DOMAIN given[a] : given[a][k] = t /\ k = 1
      BY <2>4
    <3>2. DOMAIN given[e] # {} => e = r
      BY <2>4
    <3>3. \/ \E x, y \in DOMAIN tasks[e] :
               /\ tasks'[e][l] = tasks[e][x] /\ tasks'[e][m] = tasks[e][y]
               /\ e = c => x # i /\ y # i
               /\ x = y <=> l = m
          \/ /\ DOMAIN given[e] # {} /\ tasks'[e][l] = t
             /\ \E y \in DOMAIN tasks[e] : tasks'[e][m] = tasks[e][y] /\ (e = c => y # i)
          \/ /\ DOMAIN given[e] # {} /\ tasks'[e][m] = t
             /\ \E x \in DOMAIN tasks[e] : tasks'[e][l] = tasks[e][x] /\ (e = c => x # i)
          \/ DOMAIN given[e] # {} /\ tasks'[e][l] = t /\ l = m
      <4> HIDE DEF b, r
      <4>1. Moves(c, i, given) /\ given \in Tasks /\ i \in Nat
        BY <1>1, <1>3, <1>4
      <4>2. PairOrigin(c, i, given, e, l, m)
        BY <1>3, <4>1, MovesOrder
      <4> QED BY <3>1, <4>2 DEF PairOrigin
    <3> QED BY <3>2, <3>3
  <2>8. \A q \in Receivers : q \in Contexts
    BY DEF Contexts
  <2>9. SyncWaits(n)' => SyncWaits(n)
    BY <2>3, <2>6, <2>7 DEF SyncWaits
  <2>10. \A q \in Receivers :
           ToldSync(q, n)' => ToldSync(q, n) \/ (q = r /\ sticky["sync"].code = n)
    BY <1>2, <2>6, <2>7, <2>8 DEF ToldSync
  <2>11. \A j, k \in DOMAIN tasks'["account"] :
           /\ Says(tasks'["account"][j], "post", n)
           /\ Says(tasks'["account"][k], "post", n)
           => j = k
    BY <2>3, <2>6, <2>7 DEF SyncOnceFor
  <2>12. NotYet(n)' \/ SyncWaits(n)' =>
           sticky'["sync"].code # n /\ \A q \in Receivers : ~ToldSync(q, n)'
    BY <1>2, <2>9, <2>10 DEF SyncOnceFor, NotYet
  <2>13. ASSUME NEW q \in Receivers, <<q, "sync">> \notin left'
         PROVE  /\ q \notin subscribers'["sync"] => ~ToldSync(q, n)'
                /\ \A j, k \in DOMAIN tasks'[q] :
                     /\ Says(tasks'[q][j], "onEvent", n)
                     /\ Says(tasks'[q][k], "onEvent", n)
                     => j = k
                /\ \A j, k \in DOMAIN heard'[q] :
                     heard'[q][j][2].code = n /\ heard'[q][k][2].code = n => j = k
                /\ \A j \in DOMAIN heard'[q], k \in DOMAIN tasks'[q] :
                     heard'[q][j][2].code = n => ~Says(tasks'[q][k], "onEvent", n)
    <3>1. <<q, "sync">> \notin left
      BY <1>2, <2>13
    <3>2. CASE q # r
      BY <1>2, <2>5, <2>7, <2>8, <2>10, <3>1, <3>2 DEF SyncOnceFor
    <3>3. CASE q = r
      <4>1. ~ToldSync(q, n)
        BY <2>1, <2>2, <3>1, <3>3 DEF SyncOnceFor
      <4>2. \A k \in DOMAIN heard'[q] : heard'[q][k][2].code # n
        BY <1>2, <4>1 DEF ToldSync
      <4>3. \A k \in DOMAIN tasks[q] : ~Says(tasks[q][k], "onEvent", n)
        BY <4>1 DEF ToldSync
      <4>4. \A j, k \in DOMAIN tasks'[q] :
              /\ Says(tasks'[q][j], "onEvent", n)
              /\ Says(tasks'[q][k], "onEvent", n)
              => j = k
        BY <2>7, <2>8, <4>3
      <4> QED BY <2>5, <3>3, <4>2, <4>4
    <3> QED BY <3>2, <3>3
  <2> QED BY <1>2, <2>9, <2>11, <2>12, <2>13 DEF SyncOnceFor, NotYet
<1> QED BY <1>7, <1>8

LEMMA SyncOncePost ==
    ASSUME TypeOK, Wired, NEW n \in {"STARTED", "OUTCOME"}, SyncOnceFor(n),
           NEW c \in Contexts, NEW i \in Running(c), RunPost(c, i)
    PROVE  SyncOnceFor(n)'
<1> DEFINE b == tasks[c][i].bus
           e == tasks[c][i].event
           given == ToReceivers(subscribers[b], b, e)
<1>1. b \in Buses /\ e \in AllEvents /\ Moves(c, i, given)
  BY PostMoves
<1>2. /\ sticky' = IF IsSticky(e) THEN [sticky EXCEPT ![b] = e] ELSE sticky
      /\ UNCHANGED <<subscribers, job, heard, left>>
  BY DEF RunPost, Deliver, accountVars
<1>3. tasks \in Tasks /\ i \in Nat /\ i \in DOMAIN tasks[c] /\ tasks[c][i].do = "post"
  BY RunningClosure DEF TypeOK, Tasks, RunPost
<1>4. given \in Tasks
  BY <1>1, DeliveredType
<1>5. \A d \in Contexts : \A k \in DOMAIN given[d] :
        d \in subscribers[b] /\ given[d][k] = OnEvent(b, e) /\ k = 1
  BY GivenReceivers
<1> HIDE DEF given
<1>6. CASE ~IsSticky(e)
  <2>1. \A d \in Contexts : \A k \in DOMAIN given[d] : ~Tells(given[d][k])
    BY <1>5, <1>6 DEF Tells, Says, OnEvent, IsSticky
  <2>2. UNCHANGED sticky
    BY <1>2, <1>6
  <2> QED BY <1>1, <1>2, <1>3, <1>4, <2>1, <2>2, SyncKept DEF NotYet
<1>7. CASE IsSticky(e)
  <2>1. b = "sync" /\ c = "account" /\ "account" \in Contexts
    BY <1>3, <1>7, Names DEF Wired, AllFit, Fits, ContextOf
  <2>2. /\ Says(tasks["account"][i], "post", e.code) /\ i \in DOMAIN tasks["account"]
    BY <1>3, <2>1 DEF Says
  <2>3. sticky'["sync"] = e
    BY <1>1, <1>2, <1>7, <2>1 DEF TypeOK
  <2> DEFINE t == OnEvent("sync", e)
  <2>4. \A d \in Contexts : \A k \in DOMAIN given[d] :
          given[d][k] = t /\ k = 1 /\ d \in subscribers["sync"]
    BY <1>5, <2>1
  <2>5. /\ ~Says(t, "post", n)
        /\ Says(t, "onEvent", n) <=> e.code = n
    BY DEF Says, OnEvent
  <2> HIDE DEF t
  <2>6. ASSUME NEW d \in Contexts, NEW l \in DOMAIN tasks'[d], NEW m \in DOMAIN tasks'[d]
        PROVE  \/ \E x, y \in DOMAIN tasks[d] :
                    /\ tasks'[d][l] = tasks[d][x] /\ tasks'[d][m] = tasks[d][y]
                    /\ d = "account" => x # i /\ y # i
                    /\ x = y <=> l = m
               \/ /\ d \in subscribers["sync"] /\ tasks'[d][l] = t
                  /\ \E y \in DOMAIN tasks[d] : /\ tasks'[d][m] = tasks[d][y]
                                                /\ d = "account" => y # i
               \/ /\ d \in subscribers["sync"] /\ tasks'[d][m] = t
                  /\ \E x \in DOMAIN tasks[d] : /\ tasks'[d][l] = tasks[d][x]
                                                /\ d = "account" => x # i
               \/ d \in subscribers["sync"] /\ tasks'[d][l] = t /\ l = m
    BY <1>1, <1>3, <1>4, <2>1, <2>4, SyncGiven
  <2>7. \A q \in Receivers : q \in Contexts /\ q # "account"
    BY Names DEF Contexts
  <2>8. SyncWaits(n)' => SyncWaits(n) /\ e.code # n
    <3>1. ASSUME NEW k \in DOMAIN tasks'["account"], Says(tasks'["account"][k], "post", n)
          PROVE  SyncWaits(n) /\ e.code # n
      <4>1. PICK x \in DOMAIN tasks["account"] : tasks'["account"][k] = tasks["account"][x] /\ x # i
        BY <2>1, <2>5, <2>6, <3>1
      <4> QED BY <2>2, <3>1, <4>1 DEF SyncWaits, SyncOnceFor
    <3> QED BY <3>1 DEF SyncWaits
  <2>9. \A q \in Receivers : ToldSync(q, n)' =>
          ToldSync(q, n) \/ (q \in subscribers["sync"] /\ e.code = n)
    BY <1>2, <2>5, <2>6, <2>7 DEF ToldSync
  <2>10. \A j, k \in DOMAIN tasks'["account"] :
           /\ Says(tasks'["account"][j], "post", n)
           /\ Says(tasks'["account"][k], "post", n)
           => j = k
    BY <2>1, <2>5, <2>6 DEF SyncOnceFor
  <2>11. e.code = n => SyncWaits(n) /\ ~NotYet(n) /\ \A q \in Receivers : ~ToldSync(q, n)
    <3>1. e.code = n => SyncWaits(n)
      BY <2>2 DEF SyncWaits
    <3> QED BY <3>1 DEF SyncOnceFor
  <2>12. NotYet(n)' \/ SyncWaits(n)' =>
           sticky'["sync"].code # n /\ \A q \in Receivers : ~ToldSync(q, n)'
    BY <1>2, <2>3, <2>8, <2>9, <2>11 DEF SyncOnceFor, NotYet
  <2>13. ASSUME NEW q \in Receivers, <<q, "sync">> \notin left'
         PROVE  /\ q \notin subscribers'["sync"] => ~ToldSync(q, n)'
                /\ \A j, k \in DOMAIN tasks'[q] :
                     /\ Says(tasks'[q][j], "onEvent", n)
                     /\ Says(tasks'[q][k], "onEvent", n)
                     => j = k
                /\ \A j, k \in DOMAIN heard'[q] :
                     heard'[q][j][2].code = n /\ heard'[q][k][2].code = n => j = k
                /\ \A j \in DOMAIN heard'[q], k \in DOMAIN tasks'[q] :
                     heard'[q][j][2].code = n => ~Says(tasks'[q][k], "onEvent", n)
    <3>1. <<q, "sync">> \notin left
      BY <1>2, <2>13
    <3>2. CASE e.code # n
      <4>1. q \notin subscribers'["sync"] => ~ToldSync(q, n)'
        BY <1>2, <2>9, <3>1, <3>2 DEF SyncOnceFor
      <4>2. \A j, k \in DOMAIN tasks'[q] :
              /\ Says(tasks'[q][j], "onEvent", n)
              /\ Says(tasks'[q][k], "onEvent", n)
              => j = k
        BY <2>5, <2>6, <2>7, <3>1, <3>2 DEF SyncOnceFor
      <4>3. \A j \in DOMAIN heard'[q], k \in DOMAIN tasks'[q] :
              heard'[q][j][2].code = n => ~Says(tasks'[q][k], "onEvent", n)
        BY <1>2, <2>5, <2>6, <2>7, <3>1, <3>2 DEF SyncOnceFor
      <4> QED BY <1>2, <3>1, <4>1, <4>2, <4>3 DEF SyncOnceFor
    <3>3. CASE e.code = n
      <4>1. ~ToldSync(q, n)
        BY <2>11, <3>3
      <4>2. q \notin subscribers'["sync"] => ~ToldSync(q, n)'
        BY <1>2, <2>9, <4>1
      <4> QED BY <1>2, <2>6, <2>7, <4>1, <4>2 DEF ToldSync
    <3> QED BY <3>2, <3>3
  <2> QED BY <1>2, <2>8, <2>10, <2>12, <2>13 DEF SyncOnceFor, NotYet
<1> QED BY <1>6, <1>7

\* One receiver is called.
LEMMA SyncOnceOnEvent ==
    ASSUME TypeOK, Wired, NEW n \in {"STARTED", "OUTCOME"}, SyncOnceFor(n),
           NEW c \in Contexts, NEW i \in Running(c), RunOnEvent(c, i)
    PROVE  SyncOnceFor(n)'
<1> DEFINE e == tasks[c][i].event
           p == <<tasks[c][i].bus, e>>
<1>1. Moves(c, i, Nothing) /\ p \in Buses \X AllEvents
  BY OnEventMoves
<1>2. /\ c \in Receivers
      /\ heard' = [heard EXCEPT ![c] = Append(@, p)]
      /\ UNCHANGED <<sticky, job, subscribers, left>>
      /\ Says(tasks[c][i], "onEvent", e.code)
  BY DEF RunOnEvent, accountVars, Says
<1>3. tasks \in Tasks /\ i \in Nat /\ i \in DOMAIN tasks[c]
  BY RunningClosure DEF TypeOK, Tasks
<1>4. p[2] = e
  OBVIOUS
<1> HIDE DEF p
<1>5. /\ \A r \in Receivers \ {c} : heard'[r] = heard[r]
      /\ \A k \in DOMAIN heard'[c] :
           \/ k \in DOMAIN heard[c] /\ heard'[c][k] = heard[c][k]
           \/ heard'[c][k][2] = e /\ k = Len(heard[c]) + 1
  BY <1>1, <1>2, <1>4, HeardMore
<1>6. ASSUME NEW d \in Contexts, NEW l \in DOMAIN tasks'[d], NEW m \in DOMAIN tasks'[d]
      PROVE  \E y, z \in DOMAIN tasks[d] :
               /\ tasks'[d][l] = tasks[d][y] /\ tasks'[d][m] = tasks[d][z]
               /\ d = c => y # i /\ z # i
               /\ y = z <=> l = m
  <2>1. PairOrigin(c, i, Nothing, d, l, m)
    BY <1>1, <1>3, GivenTypes, MovesOrder
  <2>2. DOMAIN Nothing[d] = {}
    BY GivenNothing
  <2> QED BY <2>1, <2>2 DEF PairOrigin
<1>7. /\ \A r \in Receivers : r \in Contexts
      /\ "account" \in Contexts /\ c # "account"
  BY <1>2, Names DEF Contexts
<1>8. SyncWaits(n)' => SyncWaits(n)
  BY <1>6, <1>7 DEF SyncWaits
<1>9. \A r \in Receivers : ToldSync(r, n)' => ToldSync(r, n)
  <2> SUFFICES ASSUME NEW r \in Receivers, ToldSync(r, n)' PROVE ToldSync(r, n)
    OBVIOUS
  <2>1. CASE \E k \in DOMAIN tasks'[r] : Says(tasks'[r][k], "onEvent", n)
    BY <1>6, <1>7, <2>1 DEF ToldSync
  <2>2. CASE \E k \in DOMAIN heard'[r] : heard'[r][k][2].code = n
    BY <1>2, <1>3, <1>5, <2>2 DEF ToldSync
  <2> QED BY <2>1, <2>2 DEF ToldSync
<1>10. \A j, k \in DOMAIN tasks'["account"] :
         /\ Says(tasks'["account"][j], "post", n)
         /\ Says(tasks'["account"][k], "post", n)
         => j = k
  BY <1>6, <1>7 DEF SyncOnceFor
<1>11. ASSUME NEW r \in Receivers, <<r, "sync">> \notin left
       PROVE  /\ \A j, k \in DOMAIN tasks'[r] :
                   /\ Says(tasks'[r][j], "onEvent", n)
                   /\ Says(tasks'[r][k], "onEvent", n)
                   => j = k
              /\ \A j, k \in DOMAIN heard'[r] :
                   heard'[r][j][2].code = n /\ heard'[r][k][2].code = n => j = k
              /\ \A j \in DOMAIN heard'[r], k \in DOMAIN tasks'[r] :
                   heard'[r][j][2].code = n => ~Says(tasks'[r][k], "onEvent", n)
  <2>1. \A j, k \in DOMAIN tasks'[r] :
          Says(tasks'[r][j], "onEvent", n) /\ Says(tasks'[r][k], "onEvent", n) => j = k
    BY <1>6, <1>7, <1>11 DEF SyncOnceFor
  <2>2. CASE r # c \/ e.code # n
    <3>1. \A k \in DOMAIN heard'[r] : heard'[r][k][2].code = n =>
            k \in DOMAIN heard[r] /\ heard'[r][k] = heard[r][k]
      BY <1>5, <2>2
    <3> QED BY <1>6, <1>7, <1>11, <2>1, <3>1 DEF SyncOnceFor
  <2>3. CASE r = c /\ e.code = n
    <3>1. \A k \in DOMAIN heard[r] : heard[r][k][2].code # n
      BY <1>2, <1>3, <1>11, <2>3 DEF SyncOnceFor
    <3>2. \A k \in DOMAIN tasks'[r] : ~Says(tasks'[r][k], "onEvent", n)
      BY <1>2, <1>3, <1>6, <1>7, <1>11, <2>3 DEF SyncOnceFor
    <3> QED BY <1>5, <2>3, <3>1, <3>2
  <2> QED BY <2>2, <2>3
<1> QED BY <1>2, <1>8, <1>9, <1>10, <1>11 DEF SyncOnceFor, NotYet

\* The start and the end of a synchronization are posted once.
LEMMA SyncOncePosted ==
    ASSUME TypeOK, NEW n \in {"STARTED", "OUTCOME"}, SyncOnceFor(n),
           Synchronize \/ PostOutcome
    PROVE  SyncOnceFor(n)'
<1>1. PICK code \in {"STARTED", "OUTCOME"} :
        /\ Async("account", <<Post("sync", Event(code, {}))>>)
        /\ NotYet(code) /\ ~NotYet(code)'
        /\ n # code => (NotYet(n)' => NotYet(n))
  BY DEF Synchronize, PostOutcome, NotYet
<1> DEFINE t == Post("sync", Event(code, {}))
           given == To("account", <<t>>)
<1>2. UNCHANGED <<sticky, heard, subscribers, left>>
  BY DEF Synchronize, PostOutcome, historyVars
<1>3. t \in Closures /\ "account" \in Contexts /\ "account" \notin Receivers
  BY SyncPosts, Names
<1>4. Says(t, "post", n) <=> n = code
  BY DEF Says, Post, Event
<1> HIDE DEF t
<1>5. tasks \in Tasks /\ given \in Tasks /\ Moves("account", 0, given)
  BY <1>1, <1>3, GiveMoves, GivenTypes, OneElement DEF TypeOK, Tasks, t
<1>6. \A d \in Contexts : \A k \in DOMAIN given[d] : d = "account" /\ k = 1 /\ given[d][k] = t
  BY <1>3, GivenOne
<1> HIDE DEF given
<1>7. ASSUME NEW d \in Contexts, NEW l \in DOMAIN tasks'[d], NEW m \in DOMAIN tasks'[d]
      PROVE  \/ \E x, y \in DOMAIN tasks[d] :
                  /\ tasks'[d][l] = tasks[d][x] /\ tasks'[d][m] = tasks[d][y]
                  /\ x = y <=> l = m
             \/ d = "account" /\ l # m /\ tasks'[d][m] = t
                /\ \E x \in DOMAIN tasks[d] : tasks'[d][l] = tasks[d][x]
             \/ d = "account" /\ l # m /\ tasks'[d][l] = t
                /\ \E x \in DOMAIN tasks[d] : tasks'[d][m] = tasks[d][x]
             \/ d = "account" /\ tasks'[d][l] = t /\ l = m
  <2>1. PairOrigin("account", 0, given, d, l, m)
    BY <1>5, MovesOrder
  <2>2. l \in Int /\ m \in Int
    BY <1>5, LenProperties DEF Moves, Tasks
  <2> QED BY <1>6, <2>1, <2>2 DEF PairOrigin
<1>8. \A r \in Receivers : r \in Contexts /\ r # "account"
  BY Names DEF Contexts
<1>9. \A r \in Receivers : ToldSync(r, n)' => ToldSync(r, n)
  BY <1>2, <1>7, <1>8 DEF ToldSync
<1>10. SyncWaits(n)' => SyncWaits(n) \/ n = code
  BY <1>3, <1>4, <1>7 DEF SyncWaits
<1>11. \A j, k \in DOMAIN tasks'["account"] :
         /\ Says(tasks'["account"][j], "post", n)
         /\ Says(tasks'["account"][k], "post", n)
         => j = k
  <2>1. n = code => \A k \in DOMAIN tasks["account"] : ~Says(tasks["account"][k], "post", n)
    BY <1>1 DEF SyncOnceFor, SyncWaits
  <2> QED BY <1>3, <1>4, <1>7, <2>1 DEF SyncOnceFor
<1>12. /\ NotYet(n)' => ~SyncWaits(n)'
       /\ NotYet(n)' \/ SyncWaits(n)' =>
            sticky'["sync"].code # n /\ \A r \in Receivers : ~ToldSync(r, n)'
  BY <1>1, <1>2, <1>9, <1>10 DEF SyncOnceFor
<1>13. ASSUME NEW r \in Receivers, <<r, "sync">> \notin left'
       PROVE  /\ r \notin subscribers'["sync"] => ~ToldSync(r, n)'
              /\ \A j, k \in DOMAIN tasks'[r] :
                   /\ Says(tasks'[r][j], "onEvent", n)
                   /\ Says(tasks'[r][k], "onEvent", n)
                   => j = k
              /\ \A j, k \in DOMAIN heard'[r] :
                   heard'[r][j][2].code = n /\ heard'[r][k][2].code = n => j = k
              /\ \A j \in DOMAIN heard'[r], k \in DOMAIN tasks'[r] :
                   heard'[r][j][2].code = n => ~Says(tasks'[r][k], "onEvent", n)
  BY <1>2, <1>7, <1>8, <1>9, <1>13 DEF SyncOnceFor
<1> QED BY <1>11, <1>12, <1>13 DEF SyncOnceFor

-----------------------------------------------------------------------------
(* The steps that say nothing.                                             *)

Plain(t) == t.do \in {"subscribe", "unsubscribe", "relay", "emit"}

\* Who stops to listen to the bus of a synchronization was taken off.
PlainStep ==
    /\ \E c \in Contexts, i \in Nat, given \in Tasks :
         /\ Moves(c, i, given)
         /\ \A d \in Contexts : \A k \in DOMAIN given[d] : Plain(given[d][k])
    /\ UNCHANGED <<sticky, batched, events, table, rows, job, heard>>
    /\ left \subseteq left'
    /\ \A r \in subscribers["sync"] : r \in subscribers'["sync"] \/ <<r, "sync">> \in left'

LEMMA PlainGive ==
    ASSUME TypeOK, NEW e \in Contexts, NEW t \in Closures, Plain(t), Async(e, <<t>>),
           UNCHANGED <<sticky, batched, events, table, rows, job, heard, left, subscribers>>
    PROVE  PlainStep
<1>1. To(e, <<t>>) \in Tasks
  BY OneElement, GivenTypes
<1>2. \A d \in Contexts : \A k \in DOMAIN To(e, <<t>>)[d] : Plain(To(e, <<t>>)[d][k])
  BY GivenOne
<1> QED BY <1>1, <1>2, GiveMoves DEF PlainStep

LEMMA PlainSteps ==
    ASSUME TypeOK, Wired, [Next]_vars
    PROVE  \/ PlainStep
           \/ \E c \in Contexts : \E i \in Running(c) :
                \/ RunSubscribe(c, i) \/ RunPost(c, i) \/ RunOnEvent(c, i)
                \/ RunRelayed(c, i) \/ RunPush(c, i) \/ RunEmit(c, i)
           \/ \E who \in Makers, S \in SUBSET Operations : BulkInsert(who, S)
           \/ \E o \in Operations : DeleteOperation(o)
           \/ Synchronize \/ PostOutcome
<1>1. CASE UNCHANGED vars
  <2>1. Moves("account", 0, Nothing)
    BY <1>1, SameMoves DEF vars, TypeOK, Tasks
  <2> QED BY <1>1, <2>1, GivenNothing, GivenTypes, Names
          DEF PlainStep, vars, accountVars, historyVars
<1>2. ASSUME NEW c \in Contexts, NEW i \in Running(c), RunUnsubscribe(c, i)
      PROVE  PlainStep
  <2>1. Moves(c, i, Nothing) /\ tasks[c][i].bus \in Buses
    BY <1>2, UnsubscribeMoves
  <2>2. i \in Nat
    BY RunningClosure DEF TypeOK, Tasks
  <2>3. \A d \in Contexts : \A k \in DOMAIN Nothing[d] : Plain(Nothing[d][k])
    BY GivenNothing
  <2>4. /\ UNCHANGED <<sticky, batched, events, table, rows, job, heard>>
        /\ left' = left \cup {<<tasks[c][i].receiver, tasks[c][i].bus>>}
        /\ subscribers' = [subscribers EXCEPT ![tasks[c][i].bus] =
                             @ \ {tasks[c][i].receiver}]
    BY <1>2 DEF RunUnsubscribe, accountVars
  <2>5. \A r \in subscribers["sync"] : r \in subscribers'["sync"] \/ <<r, "sync">> \in left'
    BY <2>1, <2>4, Names DEF TypeOK
  <2> QED BY <2>1, <2>2, <2>3, <2>4, <2>5, GivenTypes DEF PlainStep
<1>3. ASSUME NEW c \in Contexts, NEW i \in Running(c), RunRelay(c, i)
      PROVE  PlainStep
  <2>1. c \in Relays
    BY <1>3, TypeRelay
  <2>2. Relaying(c) \in Closures /\ Moves(c, i, To(Source[c], <<Relaying(c)>>))
    BY <1>3, <2>1, RelayMoves
  <2>3. i \in Nat /\ Source[c] \in Contexts
    BY <2>1, RunningClosure, Names DEF TypeOK, Tasks
  <2>4. To(Source[c], <<Relaying(c)>>) \in Tasks
    BY <2>2, <2>3, OneElement, GivenTypes
  <2>5. Plain(Relaying(c))
    BY DEF Plain, Relaying
  <2>6. \A d \in Contexts : \A k \in DOMAIN To(Source[c], <<Relaying(c)>>)[d] :
          Plain(To(Source[c], <<Relaying(c)>>)[d][k])
    BY <2>3, <2>5, GivenOne
  <2> QED BY <1>3, <2>2, <2>3, <2>4, <2>6 DEF PlainStep, RunRelay, accountVars, historyVars
<1>4. ASSUME NEW who \in Makers, EmitEventsNow(who)
      PROVE  PlainStep
  <2>1. [do |-> "emit"] \in Closures /\ Plain([do |-> "emit"]) /\ "account" \in Contexts
    BY ClosureTypes, Names DEF Plain
  <2> QED BY <1>4, <2>1, PlainGive DEF EmitEventsNow, historyVars
<1>5. ASSUME NEW r \in Receivers, NEW b \in Listened, Subscribe(r, b) \/ Unsubscribe(r, b)
      PROVE  PlainStep
  <2>1. PICK do \in {"subscribe", "unsubscribe"} : Ask(b, Asked(do, b, r))
    BY <1>5, Asking
  <2>2. ContextOf(b) \in Contexts /\ b \in Buses
    BY Names
  <2>3. Asked(do, b, r) \in Closures /\ Plain(Asked(do, b, r))
    BY <2>2, ClosureTypes DEF Asked, Plain
  <2> QED BY <2>1, <2>2, <2>3, PlainGive DEF Ask, accountVars, historyVars
<1>6. ASSUME NEW S \in SUBSET Operations, InsertPage(S)
      PROVE  \E who \in Makers : BulkInsert(who, S)
  BY <1>6 DEF InsertPage, Makers
<1>7. ASSUME NEW o \in Operations, OptimisticUpdate(o)
      PROVE  \E who \in Makers, S \in SUBSET Operations : BulkInsert(who, S)
  BY <1>7 DEF OptimisticUpdate, Makers
<1> QED BY <1>1, <1>2, <1>3, <1>4, <1>5, <1>6, <1>7 DEF Next, Run

LEMMA HeardFitsNext == TypeOK /\ Wired /\ HeardFits /\ [Next]_vars => HeardFits'
<1> SUFFICES ASSUME TypeOK, Wired, HeardFits, [Next]_vars PROVE HeardFits'
  OBVIOUS
<1>1. CASE UNCHANGED heard
  BY <1>1 DEF HeardFits
<1>2. ASSUME NEW c \in Contexts, NEW i \in Running(c), RunOnEvent(c, i)
      PROVE  HeardFits'
  <2> DEFINE p == <<tasks[c][i].bus, tasks[c][i].event>>
  <2>1. /\ c \in Receivers /\ heard' = [heard EXCEPT ![c] = Append(@, p)]
        /\ tasks[c][i].do = "onEvent"
    BY <1>2 DEF RunOnEvent
  <2>2. p \in Buses \X AllEvents
    BY <1>2, OnEventMoves
  <2>3. p[1] = "sync" <=> IsSticky(p[2])
    BY <2>1, RunningClosure DEF Wired, AllFit, Fits, TypeOK, Tasks
  <2> HIDE DEF p
  <2>4. /\ \A r \in Receivers \ {c} : heard'[r] = heard[r]
        /\ \A k \in DOMAIN heard'[c] :
             (k \in DOMAIN heard[c] /\ heard'[c][k] = heard[c][k]) \/ heard'[c][k] = p
    BY <2>1, <2>2, HeardMore
  <2> QED BY <2>3, <2>4 DEF HeardFits
<1> QED BY <1>1, <1>2, PlainSteps
        DEF PlainStep, RunSubscribe, RunPost, RunRelayed, RunPush, RunEmit, BulkInsert,
            DeleteOperation, Synchronize, PostOutcome, historyVars

LEMMA SyncOnceFrame ==
    ASSUME TypeOK, NEW n \in {"STARTED", "OUTCOME"}, SyncOnceFor(n),
           NEW c, NEW i \in Nat, NEW given \in Tasks, Moves(c, i, given),
           \A d \in Contexts : \A k \in DOMAIN given[d] : ~Tells(given[d][k]),
           UNCHANGED <<sticky, heard, job, left, subscribers>>
    PROVE  SyncOnceFor(n)'
BY SyncKept DEF NotYet

LEMMA SyncOnceNext ==
    ASSUME TypeOK, Wired, NEW n \in {"STARTED", "OUTCOME"}, SyncOnceFor(n), [Next]_vars
    PROVE  SyncOnceFor(n)'
<1>1. CASE PlainStep
  <2>1. PICK c \in Contexts, i \in Nat, given \in Tasks :
          /\ Moves(c, i, given)
          /\ \A d \in Contexts : \A k \in DOMAIN given[d] : Plain(given[d][k])
    BY <1>1 DEF PlainStep
  <2>2. \A d \in Contexts : \A k \in DOMAIN given[d] : ~Tells(given[d][k])
    BY <2>1 DEF Plain, Tells, Says
  <2>3. /\ UNCHANGED <<sticky, heard>> /\ left \subseteq left'
        /\ \A r \in subscribers["sync"] : r \in subscribers'["sync"] \/ <<r, "sync">> \in left'
        /\ NotYet(n)' => NotYet(n)
    BY <1>1 DEF PlainStep, NotYet
  <2> QED BY <2>1, <2>2, <2>3, SyncKept
<1>2. ASSUME NEW c \in Contexts, NEW i \in Running(c), RunRelayed(c, i)
      PROVE  SyncOnceFor(n)'
  <2> DEFINE t == tasks[c][i]
             given == To(c, <<Post(c, t.event)>>)
  <2>1. c \in Buses /\ t.event \in AllEvents /\ Moves(c, i, given)
    BY <1>2, RelayedMoves
  <2>2. t.do = "onEvent" /\ c \in Relays /\ UNCHANGED <<sticky, heard, job, left, subscribers>>
    BY <1>2 DEF RunRelayed, accountVars, historyVars
  <2>3. i \in Nat /\ i \in DOMAIN tasks[c]
    BY RunningClosure DEF TypeOK, Tasks
  <2>4. ~IsSticky(t.event)
    BY <2>2, <2>3, Names DEF Wired, AllFit, Fits
  <2>5. ~Tells(Post(c, t.event)) /\ Post(c, t.event) \in Closures
    BY <2>1, <2>4, ClosureTypes DEF Tells, Says, Post, IsSticky
  <2>6. given \in Tasks /\ \A d \in Contexts : \A k \in DOMAIN given[d] : ~Tells(given[d][k])
    BY <2>5, GivenOne, OneElement, GivenTypes
  <2> QED BY <2>1, <2>2, <2>3, <2>6, SyncOnceFrame
<1>3. ASSUME NEW c \in Contexts, NEW i \in Running(c), RunPush(c, i)
      PROVE  SyncOnceFor(n)'
  <2>1. Moves(c, i, Nothing) /\ UNCHANGED <<sticky, heard, job, left, subscribers>>
    BY <1>3, PushMoves DEF RunPush, historyVars
  <2>2. i \in Nat /\ Nothing \in Tasks
    BY RunningClosure, GivenTypes DEF TypeOK, Tasks
  <2>3. \A d \in Contexts : \A k \in DOMAIN Nothing[d] : ~Tells(Nothing[d][k])
    BY GivenNothing
  <2> QED BY <2>1, <2>2, <2>3, SyncOnceFrame
<1>4. ASSUME NEW c \in Contexts, NEW i \in Running(c), RunEmit(c, i)
      PROVE  SyncOnceFor(n)'
  <2>1. Moves(c, i, To(c, Emitted)) /\ To(c, Emitted) \in Tasks /\ i \in Nat
    BY <1>4, EmitMoves, EmittedClosures, GivenTypes, RunningClosure DEF TypeOK, Tasks
  <2>2. UNCHANGED <<sticky, heard, job, left, subscribers>>
    BY <1>4 DEF RunEmit, historyVars
  <2>3. ASSUME NEW d \in Contexts, NEW k \in DOMAIN To(c, Emitted)[d]
        PROVE  ~Tells(To(c, Emitted)[d][k])
    <3>1. k \in DOMAIN Emitted /\ To(c, Emitted)[d][k] = Emitted[k]
      BY GivenTo
    <3>2. PICK e \in AllEvents : ~IsSticky(e) /\ Emitted[k] = Post("account", e)
      BY <3>1, EmittedPosts
    <3> QED BY <3>1, <3>2 DEF Tells, Says, Post, IsSticky
  <2> QED BY <2>1, <2>2, <2>3, SyncOnceFrame
<1>5. ASSUME NEW who, NEW S, BulkInsert(who, S) PROVE SyncOnceFor(n)'
  BY <1>5 DEF BulkInsert, SyncOnceFor, NotYet, SyncWaits, ToldSync
<1>6. ASSUME NEW o \in Operations, DeleteOperation(o) PROVE SyncOnceFor(n)'
  <2> DEFINE t == Push(Event("DELETED", {<<o, table[o]>>}))
             given == To("account", <<t>>)
  <2>1. {<<o, table[o]>>} \in SUBSET Rows
    BY <1>6, BoundsAssumption DEF TypeOK, DeleteOperation, Rows
  <2>2. t \in Closures /\ "account" \in Contexts
    BY <2>1, EventTypes, ClosureTypes, Names
  <2>3. ~Tells(t)
    BY DEF Tells, Says, Push
  <2>4. Async("account", <<t>>) /\ UNCHANGED <<sticky, heard, job, left, subscribers>>
    BY <1>6 DEF DeleteOperation, historyVars
  <2> HIDE DEF t
  <2>5. Moves("account", 0, given) /\ given \in Tasks
    BY <2>2, <2>4, GiveMoves, OneElement, GivenTypes
  <2>6. \A d \in Contexts : \A k \in DOMAIN given[d] : ~Tells(given[d][k])
    BY <2>2, <2>3, GivenOne
  <2> QED BY <2>5, <2>6, <2>4, SyncOnceFrame
<1> QED BY <1>1, <1>2, <1>3, <1>4, <1>5, <1>6, PlainSteps, SyncOnceSubscribe,
           SyncOncePost, SyncOnceOnEvent, SyncOncePosted

-----------------------------------------------------------------------------
(* Nobody is told the same thing twice: the rows.                          *)

RowCodes == {"NONE", "UPDATE", "DELETED"}

\* An event, a closure with an event, one that calls a receiver for bus b, and
\* what a receiver was told by bus b, about row x.
Row(e, n, x) == e.code = n /\ x \in e.about
Has(t, n, x) == t.do \in {"push", "post", "onEvent"} /\ Row(t.event, n, x)
Hears(t, b, n, x) == t.do = "onEvent" /\ t.bus = b /\ Row(t.event, n, x)
Knows(h, b, n, x) == h[1] = b /\ Row(h[2], n, x)

\* The contexts a row's event goes through, and the buses from there on.
Posting == {"account"} \cup Relays
From(b) == CASE b = "account" -> Posting
             [] b = "wallet" -> {"wallet", "pool"} \cap Relays
             [] OTHER -> {b}

RowBatched(n, x) == n = "UPDATE" /\ InBatch(x)
RowKept(n, x) == \E k \in DOMAIN events : Row(events[k], n, x)
RowWaits(c, n, x) == \E k \in DOMAIN tasks[c] : Has(tasks[c][k], n, x)

\* The event is still to be posted on bus b by what context b has.
Unposted(b, n, x) == RowWaits(b, n, x) \/ (b = "account" /\ (RowBatched(n, x) \/ RowKept(n, x)))

\* Bus b has told nobody.
Silent(b, n, x) ==
    /\ \A c \in Contexts : \A k \in DOMAIN tasks[c] : ~Hears(tasks[c][k], b, n, x)
    /\ \A r \in Receivers : \A k \in DOMAIN heard[r] : ~Knows(heard[r][k], b, n, x)

\* Nothing was said yet of a row that is to come, nor of the deletion of one that
\* is there; and an event with no code is never made.
Fresh(n, x) ==
    \/ n = "NONE"
    \/ rows[x[1]] < x[2]
    \/ n = "DELETED" /\ table[x[1]] = x[2]

\* There is one event that has yet to be posted, ...
OneWaits(n, x) ==
    \A b \in Posting : \A j, k \in DOMAIN tasks[b] :
        Has(tasks[b][j], n, x) /\ Has(tasks[b][k], n, x) => j = k

OneAtAccount(n, x) ==
    /\ \A j, k \in DOMAIN events : Row(events[j], n, x) /\ Row(events[k], n, x) => j = k
    /\ RowKept(n, x) => ~RowWaits("account", n, x)
    /\ RowBatched(n, x) => ~RowKept(n, x) /\ ~RowWaits("account", n, x)

\* ... nobody is told before, ...
Upstream(n, x) ==
    \A b \in Posting : Unposted(b, n, x) =>
        \A a \in From(b) : Silent(a, n, x) /\ (a # b => ~Unposted(a, n, x))

NothingYet(n, x) ==
    Fresh(n, x) => \A b \in Posting : Silent(b, n, x) /\ ~Unposted(b, n, x)

\* ... and each bus tells a receiver once.
OncePerBus(n, x) ==
    \A r \in Receivers, b \in Posting :
        /\ \A j, k \in DOMAIN tasks[r] :
             Hears(tasks[r][j], b, n, x) /\ Hears(tasks[r][k], b, n, x) => j = k
        /\ \A j, k \in DOMAIN heard[r] :
             Knows(heard[r][j], b, n, x) /\ Knows(heard[r][k], b, n, x) => j = k
        /\ \A j \in DOMAIN heard[r], k \in DOMAIN tasks[r] :
             Knows(heard[r][j], b, n, x) => ~Hears(tasks[r][k], b, n, x)

RowOnce(n, x) ==
    /\ OneWaits(n, x) /\ OneAtAccount(n, x) /\ Upstream(n, x)
    /\ NothingYet(n, x) /\ OncePerBus(n, x)

RowsOnce ==
    /\ \A o \in Operations : table[o] <= rows[o]
    /\ \A n \in RowCodes, x \in Rows : RowOnce(n, x)

LEMMA Paths ==
    /\ "account" \in Posting /\ From("account") = Posting
    /\ \A b \in Posting : /\ b \in From(b) /\ From(b) \subseteq Posting
                          /\ b \in Contexts \ Receivers /\ b \in Buses
                          /\ ContextOf(b) = b
    /\ \A d \in Relays : /\ d \in Posting /\ Source[d] \in Posting /\ d # Source[d]
                         /\ From(d) \subseteq From(Source[d]) \ {Source[d]}
                         /\ \A b \in Posting : d \in From(b) /\ b # d => Source[d] \in From(b)
                         /\ "account" \notin From(d) /\ d # "account"
<1>1. Relays = {} \/ Relays = {"wallet"} \/ Relays = {"wallet", "pool"}
  BY NamesAssumption
<1>2. Source["wallet"] = "account" /\ Source["pool"] = "wallet"
  BY DEF Source
<1>3. "account" \in Posting /\ From("account") = Posting
  BY DEF Posting, From
<1>4. \A b \in Posting : b \in From(b) /\ From(b) \subseteq Posting
  BY <1>1 DEF Posting, From
<1>5. \A b \in Posting : b \in Contexts \ Receivers /\ b \in Buses /\ ContextOf(b) = b
  BY Names DEF Posting, ContextOf
<1>6. ASSUME NEW d \in Relays
      PROVE  /\ d \in Posting /\ Source[d] \in Posting /\ d # Source[d]
             /\ From(d) \subseteq From(Source[d]) \ {Source[d]}
             /\ \A b \in Posting : d \in From(b) /\ b # d => Source[d] \in From(b)
             /\ "account" \notin From(d) /\ d # "account"
  <2>1. CASE Relays = {"wallet"}
    BY <1>2, <2>1 DEF Posting, From
  <2>2. CASE Relays = {"wallet", "pool"} /\ d = "wallet"
    BY <1>2, <2>2 DEF Posting, From
  <2>3. CASE Relays = {"wallet", "pool"} /\ d = "pool"
    BY <1>2, <2>3 DEF Posting, From
  <2> QED BY <1>1, <2>1, <2>2, <2>3
<1> QED BY <1>3, <1>4, <1>5, <1>6

LEMMA RowsOnceInit == Init => RowsOnce
<1> SUFFICES ASSUME Init PROVE RowsOnce
  OBVIOUS
<1>1. \A c \in Contexts : tasks[c] = <<>> \/ tasks[c] = <<[do |-> "relay"]>>
  BY DEF Init
<1>2. \A c \in Contexts : \A k \in DOMAIN tasks[c] : tasks[c][k].do = "relay"
  BY <1>1, EmptyDomain, OneDomain
<1>3. DOMAIN events = {} /\ DOMAIN batched = {} /\ \A r \in Receivers : DOMAIN heard[r] = {}
  BY EmptyDomain DEF Init
<1>4. \A o \in Operations : table[o] <= rows[o]
  BY DEF Init
<1>5. ASSUME NEW n \in RowCodes, NEW x \in Rows PROVE RowOnce(n, x)
  <2>1. \A c \in Contexts : \A k \in DOMAIN tasks[c] : ~Has(tasks[c][k], n, x)
    BY <1>2 DEF Has
  <2>2. \A b \in Posting : ~Unposted(b, n, x) /\ b \in Contexts
    BY <1>3, <2>1, Paths DEF Unposted, RowBatched, RowKept, RowWaits, InBatch
  <2>3. \A b \in Posting : Silent(b, n, x)
    BY <1>2, <1>3 DEF Silent, Hears
  <2>4. OneWaits(n, x) /\ OneAtAccount(n, x)
    BY <1>3, <2>1, <2>2 DEF OneWaits, OneAtAccount, RowKept, RowBatched, InBatch
  <2>5. OncePerBus(n, x)
    BY <1>2, <1>3 DEF OncePerBus, Hears, Contexts
  <2> QED BY <2>2, <2>3, <2>4, <2>5 DEF RowOnce, Upstream, NothingYet
<1> QED BY <1>4, <1>5 DEF RowsOnce

\* A step that says nothing new of a row.
LEMMA RowFrame ==
    ASSUME TypeOK, NEW n \in RowCodes, NEW x \in Rows, RowOnce(n, x),
           NEW c, NEW i \in Nat, NEW given \in Tasks, Moves(c, i, given),
           \A d \in Contexts : \A k \in DOMAIN given[d] : ~Has(given[d][k], n, x),
           RowBatched(n, x)' => RowBatched(n, x),
           \A k \in DOMAIN events' : Row(events'[k], n, x) =>
             k \in DOMAIN events /\ Row(events[k], n, x),
           UNCHANGED heard, Fresh(n, x)' => Fresh(n, x)
    PROVE  RowOnce(n, x)'
<1>1. tasks \in Tasks
  BY DEF TypeOK, Tasks
<1>2. ASSUME NEW d \in Contexts, NEW j \in DOMAIN tasks'[d], Has(tasks'[d][j], n, x),
             NEW k \in DOMAIN tasks'[d], Has(tasks'[d][k], n, x)
      PROVE  \E l, m \in DOMAIN tasks[d] :
               /\ tasks'[d][j] = tasks[d][l] /\ tasks'[d][k] = tasks[d][m]
               /\ l = m <=> j = k
  <2>1. PairOrigin(c, i, given, d, j, k)
    BY <1>1, MovesOrder
  <2>2. \A m \in DOMAIN given[d] : tasks'[d][j] # given[d][m] /\ tasks'[d][k] # given[d][m]
    BY <1>2
  <2> QED BY <2>1, <2>2 DEF PairOrigin
<1>3. \A t, b : Hears(t, b, n, x) => Has(t, n, x)
  BY DEF Hears, Has
<1>4. /\ \A b \in Posting : b \in Contexts
      /\ \A r \in Receivers : r \in Contexts
      /\ "account" \in Posting
  BY Paths DEF Contexts
<1>5. \A b \in Posting : RowWaits(b, n, x)' => RowWaits(b, n, x)
  BY <1>2, <1>4 DEF RowWaits
<1>6. RowKept(n, x)' => RowKept(n, x)
  BY DEF RowKept
<1>7. \A b \in Posting : Unposted(b, n, x)' => Unposted(b, n, x)
  BY <1>5, <1>6 DEF Unposted
<1>8. \A b : Silent(b, n, x) => Silent(b, n, x)'
  BY <1>2, <1>3 DEF Silent
<1>9. OneWaits(n, x)'
  BY <1>2, <1>4 DEF RowOnce, OneWaits
<1>10. OneAtAccount(n, x)'
  BY <1>4, <1>5, <1>6 DEF RowOnce, OneAtAccount
<1>11. Upstream(n, x)' /\ NothingYet(n, x)'
  BY <1>7, <1>8, Paths DEF RowOnce, Upstream, NothingYet
<1>12. OncePerBus(n, x)'
  <2> SUFFICES ASSUME NEW r \in Receivers, NEW b \in Posting
               PROVE  /\ \A j, k \in DOMAIN tasks'[r] :
                           Hears(tasks'[r][j], b, n, x) /\ Hears(tasks'[r][k], b, n, x) => j = k
                      /\ \A j, k \in DOMAIN heard'[r] :
                           Knows(heard'[r][j], b, n, x) /\ Knows(heard'[r][k], b, n, x) => j = k
                      /\ \A j \in DOMAIN heard'[r], k \in DOMAIN tasks'[r] :
                           Knows(heard'[r][j], b, n, x) => ~Hears(tasks'[r][k], b, n, x)
    BY DEF OncePerBus
  <2>1. /\ \A j, k \in DOMAIN tasks[r] :
             Hears(tasks[r][j], b, n, x) /\ Hears(tasks[r][k], b, n, x) => j = k
        /\ \A j, k \in DOMAIN heard[r] :
             Knows(heard[r][j], b, n, x) /\ Knows(heard[r][k], b, n, x) => j = k
        /\ \A j \in DOMAIN heard[r], k \in DOMAIN tasks[r] :
             Knows(heard[r][j], b, n, x) => ~Hears(tasks[r][k], b, n, x)
    BY DEF RowOnce, OncePerBus
  <2> QED BY <1>2, <1>3, <1>4, <2>1
<1> QED BY <1>9, <1>10, <1>11, <1>12 DEF RowOnce

\* The one event about a row is posted: each subscriber is given it, and it has
\* yet to be posted by the relay of the bus.
LEMMA RowPost ==
    ASSUME TypeOK, Wired, NEW n \in RowCodes, NEW x \in Rows, RowOnce(n, x),
           NEW c \in Contexts, NEW i \in Running(c), RunPost(c, i)
    PROVE  RowOnce(n, x)'
<1>0. PICK b \in Buses, e \in AllEvents :
        /\ tasks[c][i].bus = b /\ tasks[c][i].event = e
        /\ Moves(c, i, ToReceivers(subscribers[b], b, e))
  BY PostMoves
<1> DEFINE t == OnEvent(b, e)
           given == ToReceivers(subscribers[b], b, e)
<1>1. Moves(c, i, given)
  BY <1>0
<1>2. UNCHANGED <<batched, events, table, rows, heard>>
  BY DEF RunPost, accountVars
<1>3. tasks \in Tasks /\ i \in Nat /\ i \in DOMAIN tasks[c] /\ tasks[c][i].do = "post"
  BY RunningClosure DEF TypeOK, Tasks, RunPost
<1>4. given \in Tasks
  BY DeliveredType
<1>5. \A d \in Contexts : \A k \in DOMAIN given[d] :
        d \in subscribers[b] /\ given[d][k] = t /\ k = 1
  BY GivenReceivers
<1>6. /\ Has(t, n, x) <=> Row(e, n, x)
      /\ \A a : Hears(t, a, n, x) <=> a = b /\ Row(e, n, x)
      /\ Has(tasks[c][i], n, x) <=> Row(e, n, x)
  BY <1>0, <1>3 DEF Has, Hears, OnEvent
<1>7. Fresh(n, x)' => Fresh(n, x)
  BY <1>2 DEF Fresh
<1> HIDE DEF given, t
<1>8. CASE ~Row(e, n, x)
  <2>1. \A d \in Contexts : \A k \in DOMAIN given[d] : ~Has(given[d][k], n, x)
    BY <1>5, <1>6, <1>8
  <2>2. RowBatched(n, x)' => RowBatched(n, x)
    BY <1>2 DEF RowBatched, InBatch
  <2> QED BY <1>1, <1>2, <1>3, <1>4, <1>7, <2>1, <2>2, RowFrame
<1>9. CASE Row(e, n, x)
  <2>1. c = b /\ b \in Posting
    <3>1. ~IsSticky(e)
      BY <1>9 DEF Row, RowCodes, IsSticky
    <3>2. c = ContextOf(b) /\ b # "sync"
      BY <1>0, <1>3, <3>1 DEF Wired, AllFit, Fits
    <3> QED BY <3>2 DEF ContextOf, Posting, Buses
  <2>2. RowWaits(b, n, x) /\ Unposted(b, n, x)
    BY <1>3, <1>6, <1>9, <2>1 DEF RowWaits, Unposted
  <2>3. /\ \A a \in From(b) : Silent(a, n, x) /\ (a # b => ~Unposted(a, n, x))
        /\ ~Fresh(n, x) /\ b \in From(b)
    BY <2>1, <2>2, Paths DEF RowOnce, Upstream, NothingYet
  <2>4. \A k \in DOMAIN tasks[b] : Has(tasks[b][k], n, x) => k = i
    BY <1>3, <1>6, <1>9, <2>1 DEF RowOnce, OneWaits
  <2>5. \A d \in subscribers[b] : /\ d \in Receivers \cup Relays
                                  /\ d \in Relays => b = Source[d]
    BY DEF TypeOK, Wired
  <2>6. ASSUME NEW d \in Contexts, NEW l \in DOMAIN tasks'[d], NEW m \in DOMAIN tasks'[d]
        PROVE  \/ \E y, z \in DOMAIN tasks[d] :
                    /\ tasks'[d][l] = tasks[d][y] /\ tasks'[d][m] = tasks[d][z]
                    /\ d = b => y # i /\ z # i
                    /\ y = z <=> l = m
               \/ /\ d \in subscribers[b] /\ tasks'[d][l] = t
                  /\ \E z \in DOMAIN tasks[d] : /\ tasks'[d][m] = tasks[d][z]
                                                /\ d = b => z # i
               \/ /\ d \in subscribers[b] /\ tasks'[d][m] = t
                  /\ \E y \in DOMAIN tasks[d] : /\ tasks'[d][l] = tasks[d][y]
                                                /\ d = b => y # i
               \/ d \in subscribers[b] /\ tasks'[d][l] = t /\ l = m
    <3>1. PairOrigin(c, i, given, d, l, m)
      BY <1>1, <1>3, <1>4, MovesOrder
    <3> QED BY <1>5, <2>1, <3>1 DEF PairOrigin
  <2>7. ASSUME NEW d \in Contexts, NEW l \in DOMAIN tasks'[d]
        PROVE  \/ \E y \in DOMAIN tasks[d] : tasks'[d][l] = tasks[d][y] /\ (d = b => y # i)
               \/ d \in subscribers[b] /\ tasks'[d][l] = t
    BY <2>6
  <2>8. \A d \in Posting : d \in Contexts /\ d \notin Receivers
    BY Paths
  \* What waits for the bus has gone, what waits for its relay has come.
  <2>9. ~Unposted(b, n, x)'
    <3>1. b \notin subscribers[b]
      BY <2>1, <2>5, <2>8, Paths
    <3>2. ~RowWaits(b, n, x)'
      BY <2>4, <2>7, <2>8, <2>1, <3>1 DEF RowWaits
    <3>3. b = "account" => ~RowBatched(n, x) /\ ~RowKept(n, x)
      BY <2>2 DEF RowOnce, OneAtAccount
    <3>4. b = "account" => ~RowBatched(n, x)' /\ ~RowKept(n, x)'
      BY <1>2, <3>3 DEF RowBatched, InBatch, RowKept
    <3> QED BY <3>2, <3>4 DEF Unposted
  <2>10. ASSUME NEW d \in Posting, Unposted(d, n, x)'
         PROVE  Unposted(d, n, x) \/ (d \in Relays /\ b = Source[d])
    <3>1. CASE RowWaits(d, n, x)'
      BY <2>5, <2>7, <2>8, <3>1 DEF RowWaits, Unposted
    <3>2. CASE d = "account" /\ (RowBatched(n, x)' \/ RowKept(n, x)')
      BY <1>2, <3>2 DEF Unposted, RowBatched, InBatch, RowKept
    <3> QED BY <2>10, <3>1, <3>2 DEF Unposted
  <2>11. \A a : a # b /\ Silent(a, n, x) => Silent(a, n, x)'
    BY <1>2, <1>6, <2>7 DEF Silent
  <2>12. OneWaits(n, x)'
    <3> SUFFICES ASSUME NEW d \in Posting, NEW j \in DOMAIN tasks'[d], NEW k \in DOMAIN tasks'[d],
                        Has(tasks'[d][j], n, x), Has(tasks'[d][k], n, x)
                 PROVE  j = k
      BY DEF OneWaits
    <3>1. CASE d \in subscribers[b]
      <4>1. d \in Relays /\ b = Source[d]
        BY <2>5, <2>8, <3>1
      <4>2. ~Unposted(d, n, x)
        BY <2>3, <4>1, Paths
      <4>3. \A z \in DOMAIN tasks[d] : ~Has(tasks[d][z], n, x)
        BY <4>2 DEF Unposted, RowWaits
      <4> QED BY <2>6, <2>8, <4>3
    <3>2. CASE d \notin subscribers[b]
      BY <2>6, <2>8, <3>2 DEF RowOnce, OneWaits
    <3> QED BY <3>1, <3>2
  <2>13. OneAtAccount(n, x)'
    <3>1. CASE b = "account"
      BY <1>2, <2>9, <3>1 DEF Unposted, RowOnce, OneAtAccount
    <3>2. CASE b # "account"
      <4>1. RowWaits("account", n, x)' => RowWaits("account", n, x)
        BY <2>5, <2>7, Names, <2>8, Paths DEF RowWaits
      <4>2. /\ RowBatched(n, x)' => RowBatched(n, x)
            /\ RowKept(n, x)' => RowKept(n, x)
        BY <1>2 DEF RowBatched, InBatch, RowKept
      <4> QED BY <1>2, <4>1, <4>2 DEF RowOnce, OneAtAccount
    <3> QED BY <3>1, <3>2
  <2>14. Upstream(n, x)'
    <3> SUFFICES ASSUME NEW d \in Posting, Unposted(d, n, x)', NEW a \in From(d)
                 PROVE  Silent(a, n, x)' /\ (a # d => ~Unposted(a, n, x)')
      BY DEF Upstream
    <3>1. a \in Posting /\ d # b
      BY <2>9, Paths
    <3>2. CASE d \in Relays /\ b = Source[d]
      <4>1. a \in From(b) /\ a # b
        BY <3>2, Paths
      <4>2. a # d => ~(a \in Relays /\ b = Source[a])
        BY <3>2, Paths
      <4> QED BY <2>3, <2>10, <2>11, <3>1, <4>1, <4>2
    <3>3. CASE Unposted(d, n, x)
      <4>1. b \notin From(d)
        BY <2>1, <2>2, <3>1, <3>3 DEF RowOnce, Upstream
      <4>2. Silent(a, n, x) /\ (a # d => ~Unposted(a, n, x)) /\ a # b
        BY <3>3, <4>1 DEF RowOnce, Upstream
      <4>3. a # d => ~(a \in Relays /\ b = Source[a])
        BY <4>1, Paths
      <4> QED BY <2>10, <2>11, <3>1, <4>2, <4>3
    <3> QED BY <2>10, <3>2, <3>3
  <2>15. NothingYet(n, x)'
    BY <1>7, <2>3 DEF NothingYet
  <2>16. OncePerBus(n, x)'
    <3> SUFFICES ASSUME NEW r \in Receivers, NEW a \in Posting
                 PROVE  /\ \A j, k \in DOMAIN tasks'[r] :
                             Hears(tasks'[r][j], a, n, x) /\ Hears(tasks'[r][k], a, n, x)
                             => j = k
                        /\ \A j, k \in DOMAIN heard'[r] :
                             Knows(heard'[r][j], a, n, x) /\ Knows(heard'[r][k], a, n, x)
                             => j = k
                        /\ \A j \in DOMAIN heard'[r], k \in DOMAIN tasks'[r] :
                             Knows(heard'[r][j], a, n, x) => ~Hears(tasks'[r][k], a, n, x)
      BY DEF OncePerBus
    <3>1. r \in Contexts
      BY DEF Contexts
    <3>2. CASE a = b
      <4>1. /\ \A k \in DOMAIN tasks[r] : ~Hears(tasks[r][k], a, n, x)
            /\ \A k \in DOMAIN heard'[r] : ~Knows(heard'[r][k], a, n, x)
        BY <1>2, <2>3, <3>1, <3>2 DEF Silent
      <4>2. \A j, k \in DOMAIN tasks'[r] :
              Hears(tasks'[r][j], a, n, x) /\ Hears(tasks'[r][k], a, n, x) => j = k
        BY <2>6, <3>1, <4>1
      <4> QED BY <4>1, <4>2
    <3>3. CASE a # b
      <4>1. ~Hears(t, a, n, x)
        BY <1>6, <3>3
      <4>2. /\ \A j, k \in DOMAIN tasks[r] :
                 Hears(tasks[r][j], a, n, x) /\ Hears(tasks[r][k], a, n, x) => j = k
            /\ \A j, k \in DOMAIN heard'[r] :
                 Knows(heard'[r][j], a, n, x) /\ Knows(heard'[r][k], a, n, x) => j = k
            /\ \A j \in DOMAIN heard'[r], k \in DOMAIN tasks[r] :
                 Knows(heard'[r][j], a, n, x) => ~Hears(tasks[r][k], a, n, x)
        BY <1>2 DEF RowOnce, OncePerBus
      <4> QED BY <2>6, <2>7, <3>1, <4>1, <4>2
    <3> QED BY <3>2, <3>3
  <2> QED BY <2>12, <2>13, <2>14, <2>15, <2>16 DEF RowOnce
<1> QED BY <1>8, <1>9

\* The one event about a row is handed over to context b, which has yet to post
\* it, and has no other.
HandedOver(n, x, c, i, given, b) ==
    /\ b = "account" \/ Unposted(b, n, x)
    /\ \A a \in From(b) : Silent(a, n, x) /\ (a # b => ~Unposted(a, n, x))
    /\ \A d \in Contexts : \A k \in DOMAIN given[d] :
         Has(given[d][k], n, x) => d = b /\ given[d][k].do # "onEvent"
    /\ \A j, k \in DOMAIN given[b] : Has(given[b][j], n, x) /\ Has(given[b][k], n, x) => j = k
    /\ \A k \in DOMAIN tasks[b] : Has(tasks[b][k], n, x) => c = b /\ k = i

LEMMA RowHandOver ==
    ASSUME TypeOK, NEW n \in RowCodes, NEW x \in Rows, RowOnce(n, x),
           NEW c, NEW i \in Nat, NEW given \in Tasks, Moves(c, i, given),
           NEW b \in Posting, HandedOver(n, x, c, i, given, b),
           b = "account" => ~RowBatched(n, x)' /\ ~RowKept(n, x)',
           b # "account" => UNCHANGED <<events, batched>>,
           UNCHANGED heard, ~Fresh(n, x)'
    PROVE  RowOnce(n, x)'
<1>0. /\ b = "account" \/ Unposted(b, n, x)
      /\ \A a \in From(b) : Silent(a, n, x) /\ (a # b => ~Unposted(a, n, x))
      /\ \A d \in Contexts : \A k \in DOMAIN given[d] :
           Has(given[d][k], n, x) => d = b /\ given[d][k].do # "onEvent"
      /\ \A j, k \in DOMAIN given[b] :
           Has(given[b][j], n, x) /\ Has(given[b][k], n, x) => j = k
      /\ \A k \in DOMAIN tasks[b] : Has(tasks[b][k], n, x) => c = b /\ k = i
  BY DEF HandedOver
<1>1. tasks \in Tasks
  BY DEF TypeOK, Tasks
<1>2. /\ \A d \in Posting : d \in Contexts /\ d \notin Receivers
      /\ \A r \in Receivers : r \in Contexts
      /\ "account" \in Posting
  BY Paths DEF Contexts
<1>3. ASSUME NEW d \in Contexts, d # b, NEW j \in DOMAIN tasks'[d], Has(tasks'[d][j], n, x),
             NEW k \in DOMAIN tasks'[d], Has(tasks'[d][k], n, x)
      PROVE  \E l, m \in DOMAIN tasks[d] :
               /\ tasks'[d][j] = tasks[d][l] /\ tasks'[d][k] = tasks[d][m]
               /\ l = m <=> j = k
  <2>1. PairOrigin(c, i, given, d, j, k)
    BY <1>1, MovesOrder
  <2>2. \A m \in DOMAIN given[d] : tasks'[d][j] # given[d][m] /\ tasks'[d][k] # given[d][m]
    BY <1>0, <1>3
  <2> QED BY <2>1, <2>2 DEF PairOrigin
<1>4. ASSUME NEW j \in DOMAIN tasks'[b], Has(tasks'[b][j], n, x),
             NEW k \in DOMAIN tasks'[b], Has(tasks'[b][k], n, x)
      PROVE  j = k
  <2>1. PairOrigin(c, i, given, b, j, k)
    BY <1>1, <1>2, MovesOrder
  <2>2. CASE \E l, m \in DOMAIN given[b] :
               /\ tasks'[b][j] = given[b][l] /\ tasks'[b][k] = given[b][m]
               /\ l = m <=> j = k
    BY <1>0, <1>4, <2>2
  <2>3. \A m \in DOMAIN tasks[b] : Has(tasks[b][m], n, x) => b = c /\ m = i
    BY <1>0
  <2> QED BY <1>4, <2>1, <2>2, <2>3 DEF PairOrigin
<1>5. \A d \in Posting : d # b /\ RowWaits(d, n, x)' => RowWaits(d, n, x)
  BY <1>2, <1>3 DEF RowWaits
<1>6. \A d \in Posting : d # b /\ Unposted(d, n, x)' => Unposted(d, n, x)
  BY <1>5 DEF Unposted, RowBatched, InBatch, RowKept
<1>7. ASSUME NEW a, NEW d \in Contexts, NEW k \in DOMAIN tasks'[d], Hears(tasks'[d][k], a, n, x)
      PROVE  \E m \in DOMAIN tasks[d] : tasks'[d][k] = tasks[d][m]
  <2>1. Has(tasks'[d][k], n, x) /\ tasks'[d][k].do = "onEvent"
    BY <1>7 DEF Hears, Has
  <2> QED BY <1>0, <2>1, MovesOrigin
<1>8. \A a : Silent(a, n, x) => Silent(a, n, x)'
  <2> SUFFICES ASSUME NEW a, Silent(a, n, x) PROVE Silent(a, n, x)'
    OBVIOUS
  <2>1. ASSUME NEW d \in Contexts, NEW k \in DOMAIN tasks'[d] PROVE ~Hears(tasks'[d][k], a, n, x)
    BY <1>7 DEF Silent
  <2> QED BY <2>1 DEF Silent
<1>9. OneWaits(n, x)'
  <2> SUFFICES ASSUME NEW d \in Posting, NEW j \in DOMAIN tasks'[d], NEW k \in DOMAIN tasks'[d],
                      Has(tasks'[d][j], n, x), Has(tasks'[d][k], n, x)
               PROVE  j = k
    BY DEF OneWaits
  <2>1. CASE d = b
    BY <1>4, <2>1
  <2>2. CASE d # b
    BY <1>2, <1>3, <2>2 DEF RowOnce, OneWaits
  <2> QED BY <2>1, <2>2
<1>10. OneAtAccount(n, x)'
  <2>1. CASE b = "account"
    BY <2>1 DEF OneAtAccount, RowKept
  <2>2. CASE b # "account"
    <3>1. /\ RowBatched(n, x)' => RowBatched(n, x)
          /\ RowKept(n, x)' => RowKept(n, x)
      BY <2>2 DEF RowBatched, InBatch, RowKept
    <3> QED BY <1>2, <1>5, <2>2, <3>1 DEF RowOnce, OneAtAccount
  <2> QED BY <2>1, <2>2
<1>11. Upstream(n, x)'
  <2> SUFFICES ASSUME NEW d \in Posting, Unposted(d, n, x)', NEW a \in From(d)
               PROVE  Silent(a, n, x)' /\ (a # d => ~Unposted(a, n, x)')
    BY DEF Upstream
  <2>1. a \in Posting
    BY Paths
  <2>2. CASE d = b
    BY <1>0, <1>6, <1>8, <2>1, <2>2
  <2>3. CASE d # b
    <3>1. Unposted(d, n, x)
      BY <1>6, <2>3
    <3>2. Silent(a, n, x) /\ (a # d => ~Unposted(a, n, x))
      BY <3>1 DEF RowOnce, Upstream
    <3>3. a # b
      BY <1>0, <2>3, <3>1, <3>2, Paths DEF Posting
    <3> QED BY <1>6, <1>8, <2>1, <3>2, <3>3
  <2> QED BY <2>2, <2>3
<1>12. NothingYet(n, x)'
  BY DEF NothingYet
<1>13. OncePerBus(n, x)'
  <2> SUFFICES ASSUME NEW r \in Receivers, NEW a \in Posting
               PROVE  /\ \A j, k \in DOMAIN tasks'[r] :
                           Hears(tasks'[r][j], a, n, x) /\ Hears(tasks'[r][k], a, n, x) => j = k
                      /\ \A j, k \in DOMAIN heard'[r] :
                           Knows(heard'[r][j], a, n, x) /\ Knows(heard'[r][k], a, n, x) => j = k
                      /\ \A j \in DOMAIN heard'[r], k \in DOMAIN tasks'[r] :
                           Knows(heard'[r][j], a, n, x) => ~Hears(tasks'[r][k], a, n, x)
    BY DEF OncePerBus
  <2>1. /\ \A j, k \in DOMAIN tasks[r] :
             Hears(tasks[r][j], a, n, x) /\ Hears(tasks[r][k], a, n, x) => j = k
        /\ \A j, k \in DOMAIN heard[r] :
             Knows(heard[r][j], a, n, x) /\ Knows(heard[r][k], a, n, x) => j = k
        /\ \A j \in DOMAIN heard[r], k \in DOMAIN tasks[r] :
             Knows(heard[r][j], a, n, x) => ~Hears(tasks[r][k], a, n, x)
    BY DEF RowOnce, OncePerBus
  <2>2. r # b /\ r \in Contexts
    BY <1>2
  <2>3. \A t : Hears(t, a, n, x) => Has(t, n, x)
    BY DEF Hears, Has
  <2> QED BY <1>3, <2>1, <2>2, <2>3
<1> QED BY <1>9, <1>10, <1>11, <1>12, <1>13 DEF RowOnce

LEMMA RowRelayed ==
    ASSUME TypeOK, Wired, NEW n \in RowCodes, NEW x \in Rows, RowOnce(n, x),
           NEW c \in Contexts, NEW i \in Running(c), RunRelayed(c, i)
    PROVE  RowOnce(n, x)'
<1>1. PICK e \in AllEvents : tasks[c][i].event = e /\ Moves(c, i, To(c, <<Post(c, e)>>))
  BY RelayedMoves
<1> DEFINE t == Post(c, e)
           given == To(c, <<t>>)
<1>2. /\ tasks[c][i].do = "onEvent" /\ c \in Relays
      /\ UNCHANGED <<batched, events, table, rows, heard>>
  BY DEF RunRelayed, accountVars, historyVars
<1>3. i \in Nat /\ i \in DOMAIN tasks[c] /\ c \in Posting /\ c # "account" /\ c \in Buses
  BY <1>2, RunningClosure, Paths, Names DEF TypeOK, Tasks
<1>4. t \in Closures /\ t.do = "post" /\ (Has(t, n, x) <=> Row(e, n, x))
  BY <1>3, ClosureTypes DEF Post, Has
<1>5. Has(tasks[c][i], n, x) <=> Row(e, n, x)
  BY <1>1, <1>2 DEF Has
<1> HIDE DEF t
<1>6. given \in Tasks
  BY <1>4, OneElement, GivenTypes
<1>7. \A d \in Contexts : \A k \in DOMAIN given[d] : d = c /\ k = 1 /\ given[d][k] = t
  BY GivenOne
<1>8. Moves(c, i, given)
  BY <1>1 DEF t
<1> HIDE DEF given
<1>9. Fresh(n, x)' => Fresh(n, x)
  BY <1>2 DEF Fresh
<1>10. CASE ~Row(e, n, x)
  <2>1. \A d \in Contexts : \A k \in DOMAIN given[d] : ~Has(given[d][k], n, x)
    BY <1>4, <1>7, <1>10
  <2>2. RowBatched(n, x)' => RowBatched(n, x)
    BY <1>2 DEF RowBatched, InBatch
  <2> QED BY <1>2, <1>3, <1>6, <1>8, <1>9, <2>1, <2>2, RowFrame
<1>11. CASE Row(e, n, x)
  <2>1. Unposted(c, n, x)
    BY <1>3, <1>5, <1>11 DEF Unposted, RowWaits
  <2>2. /\ \A a \in From(c) : Silent(a, n, x) /\ (a # c => ~Unposted(a, n, x))
        /\ ~Fresh(n, x)
    BY <1>3, <2>1 DEF RowOnce, Upstream, NothingYet
  <2>3. \A k \in DOMAIN tasks[c] : Has(tasks[c][k], n, x) => k = i
    BY <1>3, <1>5, <1>11 DEF RowOnce, OneWaits
  <2>4. \A d \in Contexts : \A k \in DOMAIN given[d] :
          Has(given[d][k], n, x) => d = c /\ given[d][k].do # "onEvent"
    BY <1>4, <1>7
  <2>5. \A j, k \in DOMAIN given[c] : Has(given[c][j], n, x) /\ Has(given[c][k], n, x) => j = k
    BY <1>7
  <2>6. HandedOver(n, x, c, i, given, c)
    BY <2>1, <2>2, <2>3, <2>4, <2>5 DEF HandedOver
  <2>7. UNCHANGED heard /\ UNCHANGED <<events, batched>> /\ ~Fresh(n, x)'
    BY <1>2, <1>9, <2>2
  <2> QED BY <1>3, <1>6, <1>8, <2>6, <2>7, RowHandOver
<1> QED BY <1>10, <1>11

LEMMA RowPush ==
    ASSUME TypeOK, Wired, NEW n \in RowCodes, NEW x \in Rows, RowOnce(n, x),
           NEW c \in Contexts, NEW i \in Running(c), RunPush(c, i)
    PROVE  RowOnce(n, x)'
<1>1. PICK e \in AllEvents : tasks[c][i].event = e /\ Moves(c, i, Nothing)
  BY PushMoves
<1>2. /\ tasks[c][i].do = "push" /\ events' = Append(events, e)
      /\ UNCHANGED <<batched, table, rows, heard>>
  BY <1>1 DEF RunPush, historyVars
<1>3. tasks \in Tasks /\ i \in Nat /\ i \in DOMAIN tasks[c] /\ c = "account" /\ c \in Posting
  BY <1>2, RunningClosure, Paths DEF TypeOK, Tasks, Wired, AllFit, Fits
<1>4. Has(tasks[c][i], n, x) <=> Row(e, n, x)
  BY <1>1, <1>2 DEF Has
<1>5. events \in Seq(AllEvents)
  BY DEF TypeOK
<1>6. \A k \in DOMAIN events' :
        \/ k \in DOMAIN events /\ events'[k] = events[k]
        \/ k = Len(events) + 1 /\ events'[k] = e
  BY <1>2, <1>5, AppendProperties, LenProperties
<1>7. \A d \in Contexts : \A k \in DOMAIN Nothing[d] : ~Has(Nothing[d][k], n, x)
  BY GivenNothing
<1>8. Fresh(n, x)' => Fresh(n, x)
  BY <1>2 DEF Fresh
<1>9. RowBatched(n, x)' <=> RowBatched(n, x)
  BY <1>2 DEF RowBatched, InBatch
<1>10. CASE ~Row(e, n, x)
  BY <1>1, <1>2, <1>3, <1>6, <1>7, <1>8, <1>9, <1>10, GivenTypes, RowFrame
<1>11. CASE Row(e, n, x)
  <2>1. RowWaits("account", n, x) /\ Unposted("account", n, x)
    BY <1>3, <1>4, <1>11 DEF Unposted, RowWaits
  <2>2. ~RowKept(n, x) /\ ~RowBatched(n, x) /\ ~Fresh(n, x)
    BY <1>3, <2>1 DEF RowOnce, OneAtAccount, NothingYet
  <2>3. \A k \in DOMAIN tasks["account"] : Has(tasks["account"][k], n, x) => k = i
    BY <1>3, <1>4, <1>11 DEF RowOnce, OneWaits
  <2>4. ASSUME NEW d \in Contexts, NEW j \in DOMAIN tasks'[d], NEW k \in DOMAIN tasks'[d]
        PROVE  \E l, m \in DOMAIN tasks[d] :
                 /\ tasks'[d][j] = tasks[d][l] /\ tasks'[d][k] = tasks[d][m]
                 /\ d = "account" => l # i /\ m # i
                 /\ l = m <=> j = k
    <3>1. PairOrigin(c, i, Nothing, d, j, k)
      BY <1>1, <1>3, GivenTypes, MovesOrder
    <3>2. DOMAIN Nothing[d] = {}
      BY GivenNothing
    <3> QED BY <1>3, <3>1, <3>2 DEF PairOrigin
  <2>5. /\ \A d \in Posting : d \in Contexts
        /\ \A r \in Receivers : r \in Contexts
        /\ "account" \in Contexts
    BY Paths DEF Contexts
  <2>6. \A j, k \in DOMAIN events' : Row(events'[j], n, x) /\ Row(events'[k], n, x) => j = k
    BY <1>6, <2>2 DEF RowKept
  <2>7. ~RowWaits("account", n, x)'
    BY <2>3, <2>4, <2>5 DEF RowWaits
  <2>8. \A d \in Posting : Unposted(d, n, x)' => Unposted(d, n, x)
    BY <2>1, <2>4, <2>5 DEF Unposted, RowWaits
  <2>9. \A a : Silent(a, n, x) => Silent(a, n, x)'
    BY <1>2, <2>4 DEF Silent
  <2>10. OneWaits(n, x)'
    BY <2>4, <2>5 DEF RowOnce, OneWaits
  <2>11. OneAtAccount(n, x)'
    BY <1>9, <2>2, <2>6, <2>7 DEF OneAtAccount
  <2>12. Upstream(n, x)' /\ NothingYet(n, x)'
    BY <1>8, <2>2, <2>8, <2>9, Paths DEF RowOnce, Upstream, NothingYet
  <2>13. OncePerBus(n, x)'
    BY <1>2, <2>4, <2>5 DEF RowOnce, OncePerBus
  <2> QED BY <2>10, <2>11, <2>12, <2>13 DEF RowOnce
<1> QED BY <1>10, <1>11

\* What the account has is posted: an event about a row is in the batch or among
\* the events, and not in both.
LEMMA RowEmit ==
    ASSUME TypeOK, Wired, NEW n \in RowCodes, NEW x \in Rows, RowOnce(n, x),
           NEW c \in Contexts, NEW i \in Running(c), RunEmit(c, i)
    PROVE  RowOnce(n, x)'
<1> DEFINE given == To("account", Emitted)
<1>1. c = "account" /\ "account" \in Contexts /\ "account" \in Posting
  BY TypeEmit, Paths, Names
<1>2. Moves(c, i, given) /\ given \in Tasks /\ i \in Nat
  BY <1>1, EmitMoves, EmittedClosures, GivenTypes, RunningClosure DEF TypeOK, Tasks
<1>3. /\ events' = <<>> /\ batched' = <<>> /\ tasks[c][i].do = "emit"
      /\ UNCHANGED <<table, rows, heard>>
  BY DEF RunEmit, TakeEvents, historyVars
<1>4. ~RowBatched(n, x)' /\ ~RowKept(n, x)'
  BY <1>3, EmptyDomain DEF RowBatched, InBatch, RowKept
<1>5. Fresh(n, x)' => Fresh(n, x)
  BY <1>3 DEF Fresh
<1>6. Len(batched) \in Nat /\ Len(batched) <= 1 /\ DOMAIN batched = 1..Len(batched)
  BY LenProperties DEF TypeOK
<1>7. ASSUME NEW k \in DOMAIN Emitted, Has(Emitted[k], n, x)
      PROVE  /\ Emitted[k].do = "post"
             /\ \/ k = 1 /\ Len(batched) = 1 /\ RowBatched(n, x)
                \/ /\ k \in Int /\ k - Len(batched) \in DOMAIN events
                   /\ Row(events[k - Len(batched)], n, x)
  <2>1. CASE /\ k \in DOMAIN batched
             /\ Emitted[k] = Post("account", Event("UPDATE", batched[k]))
    <3>1. n = "UPDATE" /\ x \in batched[k]
      BY <1>7, <2>1 DEF Has, Row, Post, Event
    <3> QED BY <1>6, <2>1, <3>1 DEF RowBatched, InBatch, Post
  <2>2. CASE /\ k > Len(batched) /\ k - Len(batched) \in DOMAIN events
             /\ Emitted[k] = Post("account", events[k - Len(batched)])
    <3>1. Row(events[k - Len(batched)], n, x)
      BY <1>7, <2>2 DEF Has, Post
    <3>2. k \in Int
      BY EmittedClosures, LenProperties
    <3> QED BY <2>2, <3>1, <3>2 DEF Post
  <2> QED BY <2>1, <2>2, EmittedClosures
<1>8. \A d \in Contexts : \A k \in DOMAIN given[d] :
        d = "account" /\ k \in DOMAIN Emitted /\ given[d][k] = Emitted[k]
  <2> SUFFICES ASSUME NEW d \in Contexts, NEW k \in DOMAIN given[d]
               PROVE  d = "account" /\ k \in DOMAIN Emitted /\ given[d][k] = Emitted[k]
    OBVIOUS
  <2> QED BY <1>1, GivenTo
<1>9. CASE ~RowBatched(n, x) /\ ~RowKept(n, x)
  <2>1. \A d \in Contexts : \A k \in DOMAIN given[d] : ~Has(given[d][k], n, x)
    BY <1>7, <1>8, <1>9 DEF RowKept
  <2> HIDE DEF given
  <2>2. \A k \in DOMAIN events' : FALSE
    BY <1>3, EmptyDomain
  <2>3. UNCHANGED heard
    BY <1>3
  <2> QED BY <1>2, <1>4, <1>5, <2>1, <2>2, <2>3, RowFrame
<1>10. CASE RowBatched(n, x) \/ RowKept(n, x)
  <2>1. Unposted("account", n, x) /\ ~RowWaits("account", n, x)
    BY <1>10 DEF Unposted, RowOnce, OneAtAccount
  <2>2. /\ \A a \in From("account") : Silent(a, n, x) /\ (a # "account" => ~Unposted(a, n, x))
        /\ ~Fresh(n, x)
    BY <1>1, <2>1 DEF RowOnce, Upstream, NothingYet
  <2>3. \A k \in DOMAIN tasks["account"] : ~Has(tasks["account"][k], n, x)
    BY <2>1 DEF RowWaits
  <2>4. ASSUME NEW j \in DOMAIN Emitted, Has(Emitted[j], n, x),
               NEW k \in DOMAIN Emitted, Has(Emitted[k], n, x)
        PROVE  j = k
    <3>1. CASE RowBatched(n, x)
      <4>1. ~RowKept(n, x)
        BY <3>1 DEF RowOnce, OneAtAccount
      <4> QED BY <1>7, <2>4, <4>1 DEF RowKept
    <3>2. CASE ~RowBatched(n, x)
      <4>1. j - Len(batched) = k - Len(batched) /\ j \in Int /\ k \in Int
        BY <1>7, <2>4, <3>2 DEF RowOnce, OneAtAccount
      <4> QED BY <1>6, <4>1
    <3> QED BY <3>1, <3>2
  <2>5. /\ \A d \in Contexts : \A k \in DOMAIN given[d] :
             Has(given[d][k], n, x) => d = "account" /\ given[d][k].do # "onEvent"
        /\ \A j, k \in DOMAIN given["account"] :
             Has(given["account"][j], n, x) /\ Has(given["account"][k], n, x) => j = k
    BY <1>1, <1>7, <1>8, <2>4
  <2> HIDE DEF given
  <2>6. HandedOver(n, x, c, i, given, "account")
    BY <2>1, <2>2, <2>3, <2>5 DEF HandedOver
  <2>7. UNCHANGED heard /\ ~Fresh(n, x)'
    BY <1>3, <1>5, <2>2
  <2> QED BY <1>1, <1>2, <1>4, <2>6, <2>7, RowHandOver
<1> QED BY <1>9, <1>10

\* A receiver is told of the row.
LEMMA RowOnEvent ==
    ASSUME TypeOK, Wired, NEW n \in RowCodes, NEW x \in Rows, RowOnce(n, x),
           NEW c \in Contexts, NEW i \in Running(c), RunOnEvent(c, i)
    PROVE  RowOnce(n, x)'
<1>1. PICK b \in Buses, e \in AllEvents :
        tasks[c][i].bus = b /\ tasks[c][i].event = e /\ Moves(c, i, Nothing)
  BY OnEventMoves
<1>2. /\ c \in Receivers /\ tasks[c][i].do = "onEvent"
      /\ heard' = [heard EXCEPT ![c] = Append(@, <<b, e>>)]
      /\ UNCHANGED <<batched, events, table, rows>>
  BY <1>1 DEF RunOnEvent, accountVars
<1>3. tasks \in Tasks /\ i \in Nat /\ i \in DOMAIN tasks[c]
  BY RunningClosure DEF TypeOK, Tasks
<1>4. /\ \A r \in Receivers \ {c} : heard'[r] = heard[r]
      /\ \A k \in DOMAIN heard'[c] :
           \/ k \in DOMAIN heard[c] /\ heard'[c][k] = heard[c][k]
           \/ heard'[c][k] = <<b, e>> /\ k = Len(heard[c]) + 1
  BY <1>2, HeardMore
<1>5. \A a : /\ Knows(<<b, e>>, a, n, x) <=> a = b /\ Row(e, n, x)
             /\ Hears(tasks[c][i], a, n, x) <=> a = b /\ Row(e, n, x)
  BY <1>1, <1>2 DEF Knows, Hears
<1>6. ASSUME NEW d \in Contexts, NEW l \in DOMAIN tasks'[d], NEW m \in DOMAIN tasks'[d]
      PROVE  \E y, z \in DOMAIN tasks[d] :
               /\ tasks'[d][l] = tasks[d][y] /\ tasks'[d][m] = tasks[d][z]
               /\ d = c => y # i /\ z # i
               /\ y = z <=> l = m
  <2>1. PairOrigin(c, i, Nothing, d, l, m)
    BY <1>1, <1>3, GivenTypes, MovesOrder
  <2>2. DOMAIN Nothing[d] = {}
    BY GivenNothing
  <2> QED BY <2>1, <2>2 DEF PairOrigin
<1>7. /\ \A d \in Posting : d \in Contexts
      /\ \A r \in Receivers : r \in Contexts
      /\ "account" \in Posting
  BY Paths DEF Contexts
<1>8. /\ RowBatched(n, x)' <=> RowBatched(n, x)
      /\ RowKept(n, x)' <=> RowKept(n, x)
      /\ Fresh(n, x)' <=> Fresh(n, x)
  BY <1>2 DEF RowBatched, InBatch, RowKept, Fresh
<1>9. \A d \in Posting : RowWaits(d, n, x)' => RowWaits(d, n, x)
  BY <1>6, <1>7 DEF RowWaits
<1>10. \A d \in Posting : Unposted(d, n, x)' => Unposted(d, n, x)
  BY <1>8, <1>9 DEF Unposted
<1>11. ASSUME NEW a, Silent(a, n, x) PROVE Silent(a, n, x)'
  <2>1. ~(a = b /\ Row(e, n, x))
    BY <1>3, <1>5, <1>11 DEF Silent
  <2>2. \A d \in Contexts : \A k \in DOMAIN tasks'[d] : ~Hears(tasks'[d][k], a, n, x)
    BY <1>6, <1>11 DEF Silent
  <2>3. \A r \in Receivers : \A k \in DOMAIN heard'[r] : ~Knows(heard'[r][k], a, n, x)
    BY <1>4, <1>5, <1>11, <2>1 DEF Silent
  <2> QED BY <2>2, <2>3 DEF Silent
<1>12. OneWaits(n, x)'
  BY <1>6, <1>7 DEF RowOnce, OneWaits
<1>13. OneAtAccount(n, x)'
  BY <1>2, <1>7, <1>8, <1>9 DEF RowOnce, OneAtAccount
<1>14. Upstream(n, x)' /\ NothingYet(n, x)'
  BY <1>8, <1>10, <1>11, Paths DEF RowOnce, Upstream, NothingYet
<1>15. OncePerBus(n, x)'
  <2> SUFFICES ASSUME NEW r \in Receivers, NEW a \in Posting
               PROVE  /\ \A j, k \in DOMAIN tasks'[r] :
                           Hears(tasks'[r][j], a, n, x) /\ Hears(tasks'[r][k], a, n, x) => j = k
                      /\ \A j, k \in DOMAIN heard'[r] :
                           Knows(heard'[r][j], a, n, x) /\ Knows(heard'[r][k], a, n, x) => j = k
                      /\ \A j \in DOMAIN heard'[r], k \in DOMAIN tasks'[r] :
                           Knows(heard'[r][j], a, n, x) => ~Hears(tasks'[r][k], a, n, x)
    BY DEF OncePerBus
  <2>1. /\ \A j, k \in DOMAIN tasks[r] :
             Hears(tasks[r][j], a, n, x) /\ Hears(tasks[r][k], a, n, x) => j = k
        /\ \A j, k \in DOMAIN heard[r] :
             Knows(heard[r][j], a, n, x) /\ Knows(heard[r][k], a, n, x) => j = k
        /\ \A j \in DOMAIN heard[r], k \in DOMAIN tasks[r] :
             Knows(heard[r][j], a, n, x) => ~Hears(tasks[r][k], a, n, x)
    BY DEF RowOnce, OncePerBus
  <2>2. \A j, k \in DOMAIN tasks'[r] :
          Hears(tasks'[r][j], a, n, x) /\ Hears(tasks'[r][k], a, n, x) => j = k
    BY <1>6, <1>7, <2>1
  <2>3. CASE r # c \/ ~(a = b /\ Row(e, n, x))
    <3>1. \A k \in DOMAIN heard'[r] : Knows(heard'[r][k], a, n, x) =>
            k \in DOMAIN heard[r] /\ heard'[r][k] = heard[r][k]
      BY <1>4, <1>5, <2>3
    <3> QED BY <1>6, <1>7, <2>1, <2>2, <3>1
  <2>4. CASE r = c /\ a = b /\ Row(e, n, x)
    <3>1. Hears(tasks[r][i], a, n, x)
      BY <1>5, <2>4
    <3>2. \A k \in DOMAIN heard[r] : ~Knows(heard[r][k], a, n, x)
      BY <1>3, <2>1, <2>4, <3>1
    <3>3. \A k \in DOMAIN tasks'[r] : ~Hears(tasks'[r][k], a, n, x)
      BY <1>3, <1>6, <1>7, <2>1, <2>4, <3>1
    <3> QED BY <1>4, <2>4, <3>2, <3>3
  <2> QED BY <2>3, <2>4
<1> QED BY <1>12, <1>13, <1>14, <1>15 DEF RowOnce

\* A row is inserted: nothing was said of it, and it is in the batch.
LEMMA RowInsert ==
    ASSUME TypeOK, \A o \in Operations : table[o] <= rows[o],
           NEW n \in RowCodes, NEW x \in Rows, RowOnce(n, x),
           NEW who \in Makers, NEW S \in SUBSET Operations, BulkInsert(who, S)
    PROVE  RowOnce(n, x)'
<1>1. /\ UNCHANGED <<tasks, events, heard>>
      /\ rows' = [o \in Operations |-> IF o \in S THEN rows[o] + 1 ELSE rows[o]]
      /\ table' = [o \in Operations |-> IF o \in S THEN rows'[o] ELSE table[o]]
      /\ \A o \in S : rows[o] < MaxRows
      /\ Batch(S)
  BY DEF BulkInsert
<1>2. /\ x[1] \in Operations /\ x[2] \in Nat
      /\ \A o \in Operations : rows[o] \in Nat /\ table[o] \in Nat
  BY BoundsAssumption DEF Rows, TypeOK
<1>3. /\ New(S) \in SUBSET Rows
      /\ \A y \in New(S) : y[1] \in S /\ y[2] = rows[y[1]] + 1
  BY <1>1, NewRows
<1>4. Fresh(n, x)' => Fresh(n, x)
  BY <1>1, <1>2 DEF Fresh
<1>5. RowBatched(n, x)' => RowBatched(n, x) \/ (n = "UPDATE" /\ x \in New(S))
  <2>1. batched' = IF batched = <<>> THEN <<New(S)>> ELSE <<batched[1] \cup New(S)>>
    BY <1>1 DEF Batch
  <2> QED BY <1>3, <2>1, BatchHolds DEF RowBatched, InBatch
<1>6. \A d : /\ RowWaits(d, n, x)' <=> RowWaits(d, n, x)
             /\ Silent(d, n, x)' <=> Silent(d, n, x)
  BY <1>1 DEF RowWaits, Silent
<1>7. RowKept(n, x)' <=> RowKept(n, x)
  BY <1>1 DEF RowKept
<1>8. OneWaits(n, x)' /\ OncePerBus(n, x)'
  BY <1>1 DEF RowOnce, OneWaits, OncePerBus
<1>9. CASE ~(n = "UPDATE" /\ x \in New(S))
  <2>1. OneAtAccount(n, x)'
    BY <1>1, <1>5, <1>6, <1>7, <1>9 DEF RowOnce, OneAtAccount
  <2>2. \A d : Unposted(d, n, x)' => Unposted(d, n, x)
    BY <1>5, <1>6, <1>7, <1>9 DEF Unposted
  <2>3. Upstream(n, x)' /\ NothingYet(n, x)'
    BY <1>4, <1>6, <2>2 DEF RowOnce, Upstream, NothingYet
  <2> QED BY <1>8, <2>1, <2>3 DEF RowOnce
<1>10. CASE n = "UPDATE" /\ x \in New(S)
  <2>1. Fresh(n, x)
    BY <1>2, <1>3, <1>10 DEF Fresh
  <2>2. \A b \in Posting : Silent(b, n, x) /\ ~Unposted(b, n, x)
    BY <2>1 DEF RowOnce, NothingYet
  <2>3. ~Fresh(n, x)'
    <3>1. rows'[x[1]] = x[2]
      BY <1>1, <1>2, <1>3, <1>10
    <3> QED BY <1>2, <1>10, <3>1 DEF Fresh
  <2>4. OneAtAccount(n, x)'
    BY <1>1, <1>6, <1>7, <2>2, Paths DEF OneAtAccount, Unposted, RowKept
  <2>5. \A b \in Posting : Unposted(b, n, x)' => b = "account"
    BY <1>6, <1>7, <2>2 DEF Unposted
  <2>6. Upstream(n, x)' /\ NothingYet(n, x)'
    BY <1>6, <2>2, <2>3, <2>5, Paths DEF Upstream, NothingYet
  <2> QED BY <1>8, <2>4, <2>6 DEF RowOnce
<1> QED BY <1>9, <1>10

\* An operation is deleted: nothing was said of the deletion of its row.
LEMMA RowDelete ==
    ASSUME TypeOK, \A o \in Operations : table[o] <= rows[o],
           NEW n \in RowCodes, NEW x \in Rows, RowOnce(n, x),
           NEW o \in Operations, DeleteOperation(o)
    PROVE  RowOnce(n, x)'
<1>1. PICK y \in Rows : y = <<o, table[o]>>
  <2>1. table[o] \in 0..MaxRows /\ table[o] # 0
    BY DEF TypeOK, DeleteOperation
  <2>2. <<o, table[o]>> \in Rows
    BY <2>1, BoundsAssumption DEF Rows
  <2> QED BY <2>2
<1> DEFINE t == Push(Event("DELETED", {y}))
           given == To("account", <<t>>)
<1>2. /\ Async("account", <<t>>) /\ table' = [table EXCEPT ![o] = 0]
      /\ table[o] # 0
      /\ UNCHANGED <<batched, events, rows, heard>>
  BY <1>1 DEF DeleteOperation, historyVars
<1>3. t \in Closures /\ "account" \in Contexts /\ "account" \in Posting
  BY EventTypes, ClosureTypes, Names, Paths
<1>4. t.do = "push" /\ (Has(t, n, x) <=> n = "DELETED" /\ x = y)
  BY DEF Has, Push, Row, Event
<1> HIDE DEF t
<1>5. Moves("account", 0, given) /\ given \in Tasks
  BY <1>2, <1>3, GiveMoves, OneElement, GivenTypes
<1>6. \A d \in Contexts : \A k \in DOMAIN given[d] : d = "account" /\ k = 1 /\ given[d][k] = t
  BY <1>3, GivenOne
<1> HIDE DEF given
<1>7. /\ x[1] \in Operations /\ x[2] \in Nat /\ x[2] # 0
      /\ \A p \in Operations : rows[p] \in Nat /\ table[p] \in Nat
      /\ table \in [Operations -> Nat]
  BY BoundsAssumption DEF Rows, TypeOK
<1>8. Fresh(n, x)' => Fresh(n, x)
  BY <1>2, <1>7 DEF Fresh
<1>9. /\ RowBatched(n, x)' <=> RowBatched(n, x)
      /\ RowKept(n, x)' <=> RowKept(n, x)
  BY <1>2 DEF RowBatched, InBatch, RowKept
<1>10. CASE ~(n = "DELETED" /\ x = y)
  <2>1. \A d \in Contexts : \A k \in DOMAIN given[d] : ~Has(given[d][k], n, x)
    BY <1>4, <1>6, <1>10
  <2> QED BY <1>2, <1>5, <1>8, <1>9, <2>1, RowFrame
<1>11. CASE n = "DELETED" /\ x = y
  <2>1. Fresh(n, x)
    BY <1>1, <1>11 DEF Fresh
  <2>2. ~Fresh(n, x)'
    <3>1. x[1] = o /\ x[2] = table[o]
      BY <1>1, <1>11
    <3>2. table'[o] = 0 /\ rows'[o] = rows[o]
      BY <1>2, <1>7
    <3> QED BY <1>2, <1>7, <1>11, <3>1, <3>2 DEF Fresh
  <2>3. \A b \in Posting : Silent(b, n, x) /\ ~Unposted(b, n, x)
    BY <2>1 DEF RowOnce, NothingYet
  <2>4. /\ \A k \in DOMAIN tasks["account"] : ~Has(tasks["account"][k], n, x)
        /\ ~RowBatched(n, x) /\ ~RowKept(n, x)
    BY <1>3, <2>3 DEF Unposted, RowWaits
  <2>5. HandedOver(n, x, "account", 0, given, "account")
    BY <1>3, <1>4, <1>6, <2>3, <2>4, Paths DEF HandedOver
  <2>6. UNCHANGED heard /\ ~RowBatched(n, x)' /\ ~RowKept(n, x)'
    BY <1>2, <1>9, <2>4
  <2> QED BY <1>3, <1>5, <2>2, <2>5, <2>6, RowHandOver
<1> QED BY <1>10, <1>11

\* A receiver that subscribes is given nothing but what is sticky.
LEMMA RowSubscribe ==
    ASSUME TypeOK, Wired, NEW n \in RowCodes, NEW x \in Rows, RowOnce(n, x),
           NEW c \in Contexts, NEW i \in Running(c), RunSubscribe(c, i)
    PROVE  RowOnce(n, x)'
<1>1. PICK b \in Buses, r \in Receivers \cup Relays : Moves(c, i, Welcome(b, r))
  BY SubscribeMoves
<1> DEFINE given == Welcome(b, r)
<1>2. UNCHANGED <<batched, events, table, rows, heard>>
  BY DEF RunSubscribe, accountVars, historyVars
<1>3. i \in Nat
  BY RunningClosure DEF TypeOK, Tasks
<1>4. given \in Tasks
  <2>1. ToReceivers({r}, b, sticky[b]) \in Tasks
    BY DeliveredType DEF TypeOK
  <2> QED BY <2>1, GivenTypes DEF Welcome
<1>5. \A d \in Contexts : \A k \in DOMAIN given[d] :
        given[d][k] = OnEvent(b, sticky[b]) /\ sticky[b] # NoEvent
  BY GivenWelcome
<1> HIDE DEF given
<1>6. sticky[b] = NoEvent \/ IsSticky(sticky[b])
  BY DEF Wired
<1>7. IsSticky(sticky[b]) => ~Has(OnEvent(b, sticky[b]), n, x)
  BY DEF IsSticky, Has, OnEvent, Row, RowCodes
<1>8. \A d \in Contexts : \A k \in DOMAIN given[d] : ~Has(given[d][k], n, x)
  BY <1>5, <1>6, <1>7
<1>9. Moves(c, i, given)
  BY <1>1 DEF given
<1>10. /\ RowBatched(n, x)' => RowBatched(n, x)
       /\ Fresh(n, x)' => Fresh(n, x)
  BY <1>2 DEF RowBatched, InBatch, Fresh
<1> QED BY <1>2, <1>3, <1>4, <1>8, <1>9, <1>10, RowFrame

LEMMA RowOnceNext ==
    ASSUME TypeOK, Wired, RowsOnce, [Next]_vars, NEW n \in RowCodes, NEW x \in Rows
    PROVE  RowOnce(n, x)'
<1>1. RowOnce(n, x) /\ \A o \in Operations : table[o] <= rows[o]
  BY DEF RowsOnce
<1>2. CASE PlainStep
  <2>1. PICK c \in Contexts, i \in Nat, given \in Tasks :
          /\ Moves(c, i, given)
          /\ \A d \in Contexts : \A k \in DOMAIN given[d] : Plain(given[d][k])
    BY <1>2 DEF PlainStep
  <2>2. \A d \in Contexts : \A k \in DOMAIN given[d] : ~Has(given[d][k], n, x)
    BY <2>1 DEF Plain, Has
  <2>3. /\ UNCHANGED <<events, heard>>
        /\ RowBatched(n, x)' => RowBatched(n, x)
        /\ Fresh(n, x)' => Fresh(n, x)
    BY <1>2 DEF PlainStep, RowBatched, InBatch, Fresh
  <2> QED BY <1>1, <2>1, <2>2, <2>3, RowFrame
<1>3. CASE Synchronize \/ PostOutcome
  <2>1. PICK code \in {"STARTED", "OUTCOME"} :
          Async("account", <<Post("sync", Event(code, {}))>>)
    BY <1>3 DEF Synchronize, PostOutcome
  <2> DEFINE t == Post("sync", Event(code, {}))
             given == To("account", <<t>>)
  <2>2. t \in Closures /\ "account" \in Contexts
    BY SyncPosts, Names
  <2>3. ~Has(t, n, x)
    BY DEF Has, Row, Post, Event, RowCodes
  <2> HIDE DEF t
  <2>4. Moves("account", 0, given) /\ given \in Tasks
    BY <2>1, <2>2, GiveMoves, OneElement, GivenTypes DEF t
  <2>5. \A d \in Contexts : \A k \in DOMAIN given[d] : ~Has(given[d][k], n, x)
    BY <2>2, <2>3, GivenOne
  <2>6. /\ UNCHANGED <<events, heard>>
        /\ RowBatched(n, x)' => RowBatched(n, x)
        /\ Fresh(n, x)' => Fresh(n, x)
    BY <1>3 DEF Synchronize, PostOutcome, historyVars, RowBatched, InBatch, Fresh
  <2> HIDE DEF given
  <2> QED BY <1>1, <2>4, <2>5, <2>6, RowFrame
<1> QED BY <1>1, <1>2, <1>3, PlainSteps, RowSubscribe, RowPost, RowOnEvent, RowRelayed,
           RowPush, RowEmit, RowInsert, RowDelete

LEMMA TableNext ==
    ASSUME TypeOK, Wired, [Next]_vars, \A o \in Operations : table[o] <= rows[o]
    PROVE  \A o \in Operations : table'[o] <= rows'[o]
<1>1. CASE UNCHANGED <<table, rows>>
  BY <1>1
<1>2. ASSUME NEW who \in Makers, NEW S \in SUBSET Operations, BulkInsert(who, S)
      PROVE  \A o \in Operations : table'[o] <= rows'[o]
  BY <1>2, BoundsAssumption DEF BulkInsert, TypeOK
<1>3. ASSUME NEW p \in Operations, DeleteOperation(p)
      PROVE  \A o \in Operations : table'[o] <= rows'[o]
  BY <1>3, BoundsAssumption DEF DeleteOperation, TypeOK
<1>4. CASE PlainStep
  BY <1>1, <1>4 DEF PlainStep
<1>5. ASSUME NEW c \in Contexts, NEW i \in Running(c),
             \/ RunSubscribe(c, i) \/ RunPost(c, i) \/ RunOnEvent(c, i)
             \/ RunRelayed(c, i) \/ RunPush(c, i) \/ RunEmit(c, i)
      PROVE  UNCHANGED <<table, rows>>
  BY <1>5 DEF RunSubscribe, RunPost, RunOnEvent, RunRelayed, RunPush, RunEmit,
              accountVars, historyVars
<1>6. CASE Synchronize \/ PostOutcome
  BY <1>1, <1>6 DEF Synchronize, PostOutcome, accountVars, historyVars
<1> QED BY <1>1, <1>2, <1>3, <1>4, <1>5, <1>6, PlainSteps

-----------------------------------------------------------------------------

Once == SyncOnce /\ RowsOnce

LEMMA OnceNext == TypeOK /\ Wired /\ Once /\ [Next]_vars => Once'
<1> SUFFICES ASSUME TypeOK, Wired, Once, [Next]_vars PROVE Once'
  OBVIOUS
<1>1. SyncOnce'
  BY HeardFitsNext, SyncOnceNext DEF Once, SyncOnce
<1>2. \A n \in RowCodes, x \in Rows : RowOnce(n, x)'
  BY RowOnceNext DEF Once
<1>3. \A o \in Operations : table'[o] <= rows'[o]
  BY TableNext DEF Once, RowsOnce
<1> QED BY <1>1, <1>2, <1>3 DEF Once, RowsOnce

LEMMA OnceHeard ==
    ASSUME TypeOK, Once
    PROVE  HeardOnce
<1> SUFFICES ASSUME NEW r \in Receivers, NEW j \in DOMAIN heard[r], NEW k \in DOMAIN heard[r],
                    heard[r][j][1] = heard[r][k][1], <<r, heard[r][j][1]>> \notin left,
                    Same(heard[r][j][2], heard[r][k][2])
             PROVE  j = k
  BY DEF HeardOnce
<1> DEFINE b == heard[r][j][1]
           e == heard[r][j][2]
           f == heard[r][k][2]
<1>1. b \in Buses /\ e \in AllEvents /\ f \in AllEvents
  <2>1. heard[r] \in Seq(Buses \X AllEvents)
    BY DEF TypeOK
  <2>2. heard[r][j] \in Buses \X AllEvents /\ heard[r][k] \in Buses \X AllEvents
    BY <2>1, ElementOfSeq, LenProperties
  <2> QED BY <2>2
<1>2. e.code = f.code /\ (IsSticky(e) \/ e.about \cap f.about # {})
  BY DEF Same
<1>3. CASE IsSticky(e)
  <2>1. b = "sync" /\ e.code \in {"STARTED", "OUTCOME"}
    BY <1>3 DEF Once, SyncOnce, HeardFits, IsSticky
  <2> QED BY <1>2, <2>1 DEF Once, SyncOnce, SyncOnceFor
<1>4. CASE ~IsSticky(e)
  <2>1. PICK x \in e.about : x \in f.about
    BY <1>2, <1>4
  <2>2. e.code \in RowCodes /\ x \in Rows
    BY <1>1, <1>4 DEF AllEvents, Codes, RowCodes, IsSticky
  <2>3. b \in Posting
    BY <1>1, <1>4 DEF Once, SyncOnce, HeardFits, Buses, Posting
  <2>4. OncePerBus(e.code, x)
    BY <2>2 DEF Once, RowsOnce, RowOnce
  <2>5. Knows(heard[r][j], b, e.code, x) /\ Knows(heard[r][k], b, e.code, x)
    BY <1>2, <2>1 DEF Knows, Row
  <2> QED BY <2>3, <2>4, <2>5 DEF OncePerBus
<1> QED BY <1>3, <1>4

\* No bus tells a receiver the same thing twice, however often it subscribes and
\* however many insertions and calls of emitEventsNow overlap, unless it was
\* taken off and came back.
THEOREM NothingHeardTwice == Spec => []HeardOnce
<1>1. Init => TypeOK /\ Wired /\ Once
  BY TypeInit, SyncOnceInit, RowsOnceInit DEF Once
<1>2. TypeOK /\ Wired /\ Once /\ [Next]_vars => (TypeOK /\ Wired /\ Once)'
  BY TypeNext, OnceNext
<1>3. TypeOK /\ Wired /\ Once => HeardOnce
  BY OnceHeard
<1> QED BY <1>1, <1>2, <1>3, PTL DEF Spec

=============================================================================
