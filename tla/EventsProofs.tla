---------------------------- MODULE EventsProofs ----------------------------
(***************************************************************************)
(* Proofs about Events, for any receivers, relays, buses listened to,      *)
(* operations, numbers of threads and bounds.                              *)
(***************************************************************************)
EXTENDS Events, SequenceTheorems, TLAPS

-----------------------------------------------------------------------------
(* Sequences.                                                              *)

\* What is left of a sequence without its i-th element.
LEMMA RemoveAtElements ==
    ASSUME NEW S, NEW s \in Seq(S), NEW i \in 1..Len(s)
    PROVE  /\ RemoveAt(s, i) \in Seq(S)
           /\ Len(RemoveAt(s, i)) = Len(s) - 1
           /\ \A k \in 1..(Len(s) - 1) :
                RemoveAt(s, i)[k] = IF k < i THEN s[k] ELSE s[k + 1]
<1> DEFINE a == SubSeq(s, 1, i - 1)
           b == SubSeq(s, i + 1, Len(s))
<1>1. Len(s) \in Nat /\ i \in Int /\ i - 1 \in Int /\ i + 1 \in Int /\ Len(s) \in Int
  BY LenProperties
<1>2. /\ \A k \in 1..(i - 1) : s[k] \in S
      /\ \A k \in (i + 1)..Len(s) : s[k] \in S
  BY <1>1, ElementOfSeq
<1>3. /\ a \in Seq(S)
      /\ Len(a) = i - 1
      /\ \A k \in 1..(i - 1) : a[k] = s[k]
  <2>1. /\ SubSeq(s, 1, i - 1) \in Seq(S)
        /\ Len(SubSeq(s, 1, i - 1)) = IF 1 <= i - 1 THEN (i - 1) - 1 + 1 ELSE 0
        /\ \A k \in 1..((i - 1) - 1 + 1) : SubSeq(s, 1, i - 1)[k] = s[1 + k - 1]
    BY <1>1, <1>2, SubSeqProperties
  <2> QED BY <2>1, <1>1
<1>4. /\ b \in Seq(S)
      /\ Len(b) = Len(s) - i
      /\ \A k \in 1..(Len(s) - i) : b[k] = s[i + k]
  <2>1. /\ SubSeq(s, i + 1, Len(s)) \in Seq(S)
        /\ Len(SubSeq(s, i + 1, Len(s))) =
             IF i + 1 <= Len(s) THEN Len(s) - (i + 1) + 1 ELSE 0
        /\ \A k \in 1..(Len(s) - (i + 1) + 1) :
             SubSeq(s, i + 1, Len(s))[k] = s[(i + 1) + k - 1]
    BY <1>1, <1>2, SubSeqProperties
  <2> QED BY <2>1, <1>1
<1>5. /\ a \o b \in Seq(S)
      /\ Len(a \o b) = Len(a) + Len(b)
      /\ \A k \in 1..(Len(a) + Len(b)) :
           (a \o b)[k] = IF k <= Len(a) THEN a[k] ELSE b[k - Len(a)]
  BY <1>3, <1>4, ConcatProperties
<1>6. RemoveAt(s, i) = a \o b
  BY DEF RemoveAt
<1> HIDE DEF a, b
<1>7. ASSUME NEW k \in 1..(Len(s) - 1)
      PROVE  (a \o b)[k] = IF k < i THEN s[k] ELSE s[k + 1]
  <2>1. CASE k < i
    BY <2>1, <1>1, <1>3, <1>4, <1>5, SMTT(30)
  <2>2. CASE ~(k < i)
    <3>1. k - (i - 1) \in 1..(Len(s) - i) /\ i + (k - (i - 1)) = k + 1
      BY <2>2, <1>1
    <3>2. b[k - (i - 1)] = s[k + 1]
      BY <3>1, <1>4
    <3> QED BY <2>2, <3>1, <3>2, <1>1, <1>3, <1>4, <1>5
  <2> QED BY <2>1, <2>2
<1>8. Len(a \o b) = Len(s) - 1
  BY <1>1, <1>3, <1>4, <1>5
<1> QED BY <1>5, <1>6, <1>7, <1>8

\* A sequence given by a function on the indices of another one.
LEMMA Mapped ==
    ASSUME NEW S, NEW T, NEW s \in Seq(S), NEW f \in [1..Len(s) -> T]
    PROVE  f \in Seq(T) /\ Len(f) = Len(s) /\ DOMAIN f = 1..Len(s)
<1>1. Len(s) \in Nat
  BY LenProperties
<1>2. f \in Seq(T)
  BY <1>1, SeqDef
<1>3. Len(f) \in Nat /\ DOMAIN f = 1..Len(f)
  BY <1>2, LenProperties
<1>4. DOMAIN f = 1..Len(s)
  OBVIOUS
<1>5. Len(f) = Len(s)
  BY <1>1, <1>3, <1>4
<1> QED BY <1>2, <1>4, <1>5

LEMMA OneElement ==
    ASSUME NEW S, NEW x \in S
    PROVE  <<x>> \in Seq(S) /\ Len(<<x>>) = 1 /\ <<x>>[1] = x
OBVIOUS

LEMMA EmptyDomain == DOMAIN <<>> = {}
OBVIOUS

LEMMA OneDomain ==
    ASSUME NEW x
    PROVE  DOMAIN <<x>> = {1} /\ <<x>>[1] = x
OBVIOUS

\* Where an element of a sequence is in it, with others before or behind.
LEMMA JoinedElements ==
    ASSUME NEW S, NEW s \in Seq(S), NEW t \in Seq(S)
    PROVE  /\ s \o t \in Seq(S)
           /\ Len(s \o t) = Len(s) + Len(t)
           /\ DOMAIN (s \o t) = 1..(Len(s) + Len(t))
           /\ \A k \in DOMAIN s : k \in DOMAIN (s \o t) /\ (s \o t)[k] = s[k]
           /\ \A k \in DOMAIN t : /\ Len(s) + k \in DOMAIN (s \o t)
                                  /\ (s \o t)[Len(s) + k] = t[k]
           /\ \A k \in DOMAIN (s \o t) :
                \/ k \in DOMAIN s /\ (s \o t)[k] = s[k]
                \/ /\ k > Len(s) /\ k - Len(s) \in DOMAIN t
                   /\ (s \o t)[k] = t[k - Len(s)]
<1>1. /\ Len(s) \in Nat /\ DOMAIN s = 1..Len(s)
      /\ Len(t) \in Nat /\ DOMAIN t = 1..Len(t)
  BY LenProperties
<1>2. /\ s \o t \in Seq(S)
      /\ Len(s \o t) = Len(s) + Len(t)
      /\ \A k \in 1..(Len(s) + Len(t)) :
           (s \o t)[k] = IF k <= Len(s) THEN s[k] ELSE t[k - Len(s)]
  BY ConcatProperties
<1>3. DOMAIN (s \o t) = 1..(Len(s) + Len(t))
  BY <1>2, LenProperties
<1>4. \A k \in DOMAIN s : k \in DOMAIN (s \o t) /\ (s \o t)[k] = s[k]
  BY <1>1, <1>2, <1>3
<1>5. ASSUME NEW k \in DOMAIN t
      PROVE  Len(s) + k \in DOMAIN (s \o t) /\ (s \o t)[Len(s) + k] = t[k]
  <2>1. Len(s) + k \in 1..(Len(s) + Len(t)) /\ ~(Len(s) + k <= Len(s))
        /\ (Len(s) + k) - Len(s) = k
    BY <1>1
  <2> QED BY <2>1, <1>2, <1>3
<1>6. ASSUME NEW k \in DOMAIN (s \o t)
      PROVE  \/ k \in DOMAIN s /\ (s \o t)[k] = s[k]
             \/ /\ k > Len(s) /\ k - Len(s) \in DOMAIN t
                /\ (s \o t)[k] = t[k - Len(s)]
  BY <1>1, <1>2, <1>3
<1> QED BY <1>2, <1>3, <1>4, <1>5, <1>6

-----------------------------------------------------------------------------
(* Names, events and closures.                                             *)

Tasks == [Contexts -> Seq(Closures)]

LEMMA Names ==
    /\ "account" \in Contexts /\ "account" \in Buses /\ "sync" \in Buses
    /\ "account" \notin Receivers /\ "account" \notin Relays /\ "sync" \notin Relays
    /\ Receivers \cap Relays = {}
    /\ \A c \in Relays : /\ c \in Buses /\ c \in Contexts
                         /\ Source[c] \in Buses \ {"sync"}
                         /\ Source[c] \in Contexts \ Receivers
    /\ \A b \in Listened : b \in Buses
    /\ \A b \in Buses : ContextOf(b) \in Contexts \ Receivers
    /\ \A b \in Buses \ {"sync"} : ContextOf(b) = b
    /\ \A r \in Receivers : ThreadsOf(r) = 1
BY NamesAssumption DEF Contexts, Buses, Source, ContextOf, ThreadsOf

LEMMA EventTypes ==
    /\ NoEvent \in AllEvents
    /\ Event("STARTED", {}) \in AllEvents /\ Event("OUTCOME", {}) \in AllEvents
    /\ \A X \in SUBSET Rows : /\ Event("UPDATE", X) \in AllEvents
                              /\ Event("DELETED", X) \in AllEvents
BY DEF Event, NoEvent, AllEvents, Codes

LEMMA ClosureTypes ==
    /\ \A b \in Buses, e \in AllEvents : Post(b, e) \in Closures /\ OnEvent(b, e) \in Closures
    /\ \A e \in AllEvents : Push(e) \in Closures
    /\ [do |-> "relay"] \in Closures /\ [do |-> "emit"] \in Closures
    /\ \A b \in Buses, r \in Receivers \cup Relays :
         /\ [do |-> "subscribe", bus |-> b, receiver |-> r] \in Closures
         /\ [do |-> "unsubscribe", bus |-> b, receiver |-> r] \in Closures
BY DEF Closures, Post, OnEvent, Push

\* What a closure holds.
LEMMA ClosureFields ==
    ASSUME NEW t \in Closures
    PROVE  /\ t.do \in {"subscribe", "unsubscribe", "post", "onEvent", "push",
                        "relay", "emit"}
           /\ t.do \in {"subscribe", "unsubscribe"} =>
                t.bus \in Buses /\ t.receiver \in Receivers \cup Relays
           /\ t.do = "post" => /\ t.bus \in Buses /\ t.event \in AllEvents
                               /\ t = Post(t.bus, t.event)
           /\ t.do = "onEvent" => /\ t.bus \in Buses /\ t.event \in AllEvents
                                  /\ t = OnEvent(t.bus, t.event)
           /\ t.do = "push" => t.event \in AllEvents /\ t = Push(t.event)
BY DEF Closures, Post, OnEvent, Push

LEMMA GivenTypes ==
    /\ Nothing \in Tasks
    /\ \A c \in Contexts, s \in Seq(Closures) : To(c, s) \in Tasks
<1>1. Nothing \in Tasks
  BY EmptySeq DEF Nothing, Tasks
<1>2. ASSUME NEW c \in Contexts, NEW s \in Seq(Closures)
      PROVE  To(c, s) \in Tasks
  BY EmptySeq DEF To, Tasks
<1> QED BY <1>1, <1>2

LEMMA DeliveredType ==
    ASSUME NEW R, NEW b \in Buses, NEW e \in AllEvents
    PROVE  ToReceivers(R, b, e) \in Tasks
<1>1. <<OnEvent(b, e)>> \in Seq(Closures) /\ <<>> \in Seq(Closures)
  BY ClosureTypes, OneElement, EmptySeq
<1> QED BY <1>1 DEF ToReceivers, Tasks

-----------------------------------------------------------------------------
(* What a step does to the closures that wait.                             *)

\* Closures are given to a context.
LEMMA AsyncTasks ==
    ASSUME tasks \in Tasks, NEW c \in Contexts, NEW s \in Seq(Closures), Async(c, s)
    PROVE  /\ tasks' \in Tasks
           /\ tasks'[c] = tasks[c] \o s
           /\ \A d \in Contexts \ {c} : tasks'[d] = tasks[d]
<1>1. tasks[c] \o s \in Seq(Closures)
  BY ConcatProperties DEF Tasks
<1> QED BY <1>1 DEF Tasks, Async

\* A running closure ends.
LEMMA DoneTasks ==
    ASSUME tasks \in Tasks, NEW c \in Contexts, NEW i \in Running(c),
           NEW given \in Tasks, Done(c, i, given)
    PROVE  /\ tasks' \in Tasks
           /\ i \in 1..Len(tasks[c]) /\ i \in DOMAIN tasks[c]
           /\ tasks'[c] = RemoveAt(tasks[c], i) \o given[c]
           /\ RemoveAt(tasks[c], i) \in Seq(Closures)
           /\ \A d \in Contexts \ {c} : tasks'[d] = tasks[d] \o given[d]
<1>1. i \in 1..Len(tasks[c]) /\ i \in DOMAIN tasks[c]
  BY LenProperties DEF Running, Tasks
<1>2. RemoveAt(tasks[c], i) \in Seq(Closures)
  BY <1>1, RemoveAtElements DEF Tasks
<1>3. \A d \in Contexts : tasks[d] \in Seq(Closures) /\ given[d] \in Seq(Closures)
  BY DEF Tasks
<1>4. RemoveAt(tasks[c], i) \o given[c] \in Seq(Closures)
  BY <1>2, <1>3, ConcatProperties
<1>5. \A d \in Contexts : tasks[d] \o given[d] \in Seq(Closures)
  BY <1>3, ConcatProperties
<1>6. \A d \in Contexts :
        (IF d = c THEN RemoveAt(tasks[c], i) ELSE tasks[d]) \o given[d] \in Seq(Closures)
  BY <1>4, <1>5
<1> QED BY <1>1, <1>2, <1>6 DEF Tasks, Done

\* The place a closure had, and how many stay, when the i-th closure of context
\* c ends; 0 is for none.
Was(c, i, d, j) == IF d = c /\ 0 < i /\ i <= j THEN j + 1 ELSE j
Kept(c, i, d) == IF d = c /\ 0 < i THEN Len(tasks[d]) - 1 ELSE Len(tasks[d])

\* What waits after a step waited before it or was given by it, in this order.
Moves(c, i, given) ==
    /\ tasks' \in Tasks
    /\ \A d \in Contexts : \A j \in DOMAIN tasks'[d] :
         \/ /\ j <= Kept(c, i, d)
            /\ Was(c, i, d, j) \in DOMAIN tasks[d]
            /\ d = c => Was(c, i, d, j) # i
            /\ tasks'[d][j] = tasks[d][Was(c, i, d, j)]
         \/ /\ j > Kept(c, i, d)
            /\ j - Kept(c, i, d) \in DOMAIN given[d]
            /\ tasks'[d][j] = given[d][j - Kept(c, i, d)]
    /\ \A d \in Contexts : \A k \in DOMAIN tasks[d] :
         (d = c /\ k = i) \/ \E j \in DOMAIN tasks'[d] : tasks'[d][j] = tasks[d][k]
    /\ \A d \in Contexts : \A k \in DOMAIN given[d] :
         \E j \in DOMAIN tasks'[d] : tasks'[d][j] = given[d][k]

LEMMA AsyncMoves ==
    ASSUME tasks \in Tasks, NEW c \in Contexts, NEW s \in Seq(Closures), Async(c, s)
    PROVE  Moves(c, 0, To(c, s))
<1>1. /\ tasks' \in Tasks
      /\ tasks'[c] = tasks[c] \o s
      /\ \A d \in Contexts \ {c} : tasks'[d] = tasks[d]
  BY AsyncTasks
<1>2. \A d \in Contexts : tasks[d] \in Seq(Closures) /\ Len(tasks[d]) \in Nat
                          /\ DOMAIN tasks[d] = 1..Len(tasks[d])
  BY LenProperties DEF Tasks
<1>3. \A d \in Contexts : \A j : Was(c, 0, d, j) = j
  BY DEF Was
<1>4. \A d \in Contexts : Kept(c, 0, d) = Len(tasks[d])
  BY DEF Kept
<1>5. /\ To(c, s)[c] = s
      /\ \A d \in Contexts \ {c} : To(c, s)[d] = <<>> /\ DOMAIN To(c, s)[d] = {}
  BY EmptySeq DEF To
<1>6. /\ \A k \in DOMAIN tasks[c] :
           k \in DOMAIN tasks'[c] /\ tasks'[c][k] = tasks[c][k]
      /\ \A k \in DOMAIN s : /\ Len(tasks[c]) + k \in DOMAIN tasks'[c]
                             /\ tasks'[c][Len(tasks[c]) + k] = s[k]
      /\ \A k \in DOMAIN tasks'[c] :
           \/ k \in DOMAIN tasks[c] /\ tasks'[c][k] = tasks[c][k]
           \/ /\ k > Len(tasks[c]) /\ k - Len(tasks[c]) \in DOMAIN s
              /\ tasks'[c][k] = s[k - Len(tasks[c])]
  BY <1>1, <1>2, JoinedElements, SMTT(30)
<1>7. ASSUME NEW d \in Contexts, NEW j \in DOMAIN tasks'[d]
      PROVE  \/ /\ j <= Len(tasks[d])
                /\ j \in DOMAIN tasks[d]
                /\ d = c => j # 0
                /\ tasks'[d][j] = tasks[d][j]
             \/ /\ j > Len(tasks[d])
                /\ j - Len(tasks[d]) \in DOMAIN To(c, s)[d]
                /\ tasks'[d][j] = To(c, s)[d][j - Len(tasks[d])]
  <2>1. CASE d = c
    <3>1. j \in DOMAIN tasks[c] => j <= Len(tasks[c]) /\ j # 0
      BY <1>2
    <3> QED BY <3>1, <2>1, <1>5, <1>6
  <2>2. CASE d # c
    <3>1. tasks'[d] = tasks[d]
      BY <2>2, <1>1
    <3> QED BY <3>1, <2>2, <1>2
  <2> QED BY <2>1, <2>2
<1>8. ASSUME NEW d \in Contexts, NEW k \in DOMAIN tasks[d]
      PROVE  \E j \in DOMAIN tasks'[d] : tasks'[d][j] = tasks[d][k]
  BY <1>1, <1>6
<1>9. ASSUME NEW d \in Contexts, NEW k \in DOMAIN To(c, s)[d]
      PROVE  \E j \in DOMAIN tasks'[d] : tasks'[d][j] = To(c, s)[d][k]
  <2>1. d = c
    BY <1>5
  <2>2. /\ k \in DOMAIN s /\ To(c, s)[d][k] = s[k]
    BY <2>1, <1>5
  <2> QED BY <2>1, <2>2, <1>6
<1>10. \A d \in Contexts : \A j \in DOMAIN tasks'[d] :
         \/ /\ j <= Kept(c, 0, d)
            /\ Was(c, 0, d, j) \in DOMAIN tasks[d]
            /\ d = c => Was(c, 0, d, j) # 0
            /\ tasks'[d][j] = tasks[d][Was(c, 0, d, j)]
         \/ /\ j > Kept(c, 0, d)
            /\ j - Kept(c, 0, d) \in DOMAIN To(c, s)[d]
            /\ tasks'[d][j] = To(c, s)[d][j - Kept(c, 0, d)]
  BY <1>3, <1>4, <1>7
<1> QED BY <1>1, <1>8, <1>9, <1>10 DEF Moves

LEMMA DoneMoves ==
    ASSUME tasks \in Tasks, NEW c \in Contexts, NEW i \in Running(c),
           NEW given \in Tasks, Done(c, i, given)
    PROVE  Moves(c, i, given)
<1> DEFINE q == RemoveAt(tasks[c], i)
           rest(d) == IF d = c THEN q ELSE tasks[d]
<1>1. /\ tasks' \in Tasks
      /\ i \in 1..Len(tasks[c])
      /\ q \in Seq(Closures)
      /\ tasks'[c] = q \o given[c]
      /\ \A d \in Contexts \ {c} : tasks'[d] = tasks[d] \o given[d]
  BY DoneTasks
<1>2. \A d \in Contexts : /\ tasks[d] \in Seq(Closures) /\ Len(tasks[d]) \in Nat
                          /\ DOMAIN tasks[d] = 1..Len(tasks[d])
                          /\ given[d] \in Seq(Closures)
  BY LenProperties DEF Tasks
<1>3. /\ Len(q) = Len(tasks[c]) - 1
      /\ \A k \in 1..(Len(tasks[c]) - 1) :
           q[k] = IF k < i THEN tasks[c][k] ELSE tasks[c][k + 1]
  BY <1>1, <1>2, RemoveAtElements
<1> HIDE DEF q
<1>a. DOMAIN q = 1..(Len(tasks[c]) - 1)
  BY <1>1, <1>3, LenProperties
<1>b. 0 < i /\ i \in Nat
  BY <1>1, <1>2
<1>4. ASSUME NEW d \in Contexts
      PROVE  /\ rest(d) \in Seq(Closures)
             /\ Len(rest(d)) = Kept(c, i, d)
             /\ \A k \in DOMAIN rest(d) :
                  /\ k <= Kept(c, i, d)
                  /\ Was(c, i, d, k) \in DOMAIN tasks[d]
                  /\ d = c => Was(c, i, d, k) # i
                  /\ rest(d)[k] = tasks[d][Was(c, i, d, k)]
  <2>1. CASE d = c
    <3>1. /\ rest(d) = q /\ Kept(c, i, d) = Len(tasks[c]) - 1
          /\ \A k : Was(c, i, d, k) = IF i <= k THEN k + 1 ELSE k
      BY <2>1, <1>b DEF Kept, Was
    <3>2. ASSUME NEW k \in 1..(Len(tasks[c]) - 1)
          PROVE  /\ k <= Kept(c, i, d)
                 /\ Was(c, i, d, k) \in DOMAIN tasks[d]
                 /\ Was(c, i, d, k) # i
                 /\ rest(d)[k] = tasks[d][Was(c, i, d, k)]
      <4>1. CASE k < i
        BY <4>1, <3>1, <2>1, <1>1, <1>2, <1>3
      <4>2. CASE ~(k < i)
        BY <4>2, <3>1, <2>1, <1>1, <1>2, <1>3
      <4> QED BY <4>1, <4>2
    <3> QED BY <3>1, <3>2, <1>1, <1>3, <1>a
  <2>2. CASE d # c
    BY <2>2, <1>2 DEF Kept, Was
  <2> QED BY <2>1, <2>2
<1>5. ASSUME NEW d \in Contexts, NEW k \in DOMAIN tasks[d], ~(d = c /\ k = i)
      PROVE  \E j \in DOMAIN rest(d) : rest(d)[j] = tasks[d][k]
  <2>1. CASE d # c
    BY <2>1
  <2>2. CASE d = c /\ k < i
    <3>1. k \in 1..(Len(tasks[c]) - 1)
      BY <2>2, <1>1, <1>2
    <3> QED BY <3>1, <2>2, <1>3, <1>a
  <2>3. CASE d = c /\ k > i
    <3>1. k - 1 \in 1..(Len(tasks[c]) - 1) /\ ~(k - 1 < i) /\ (k - 1) + 1 = k
      BY <2>3, <1>1, <1>2
    <3>2. q[k - 1] = tasks[c][k]
      BY <3>1, <1>3
    <3> QED BY <3>1, <3>2, <2>3, <1>a
  <2> QED BY <2>1, <2>2, <2>3, <1>1, <1>2, <1>5
<1>6. ASSUME NEW d \in Contexts
      PROVE  /\ \A k \in DOMAIN rest(d) :
                  k \in DOMAIN tasks'[d] /\ tasks'[d][k] = rest(d)[k]
             /\ \A k \in DOMAIN given[d] :
                  /\ Len(rest(d)) + k \in DOMAIN tasks'[d]
                  /\ tasks'[d][Len(rest(d)) + k] = given[d][k]
             /\ \A k \in DOMAIN tasks'[d] :
                  \/ k \in DOMAIN rest(d) /\ tasks'[d][k] = rest(d)[k]
                  \/ /\ k > Len(rest(d)) /\ k - Len(rest(d)) \in DOMAIN given[d]
                     /\ tasks'[d][k] = given[d][k - Len(rest(d))]
  <2>1. tasks'[d] = rest(d) \o given[d]
    BY <1>1
  <2>2. rest(d) \in Seq(Closures) /\ given[d] \in Seq(Closures)
    BY <1>2, <1>4
  <2> HIDE DEF rest
  <2> QED BY <2>1, <2>2, JoinedElements
<1> HIDE DEF rest
<1>7. \A d \in Contexts : \A j \in DOMAIN tasks'[d] :
         \/ /\ j <= Kept(c, i, d)
            /\ Was(c, i, d, j) \in DOMAIN tasks[d]
            /\ d = c => Was(c, i, d, j) # i
            /\ tasks'[d][j] = tasks[d][Was(c, i, d, j)]
         \/ /\ j > Kept(c, i, d)
            /\ j - Kept(c, i, d) \in DOMAIN given[d]
            /\ tasks'[d][j] = given[d][j - Kept(c, i, d)]
  BY <1>4, <1>6
<1>8. \A d \in Contexts : \A k \in DOMAIN tasks[d] :
        (d = c /\ k = i) \/ \E j \in DOMAIN tasks'[d] : tasks'[d][j] = tasks[d][k]
  BY <1>5, <1>6
<1>9. \A d \in Contexts : \A k \in DOMAIN given[d] :
        \E j \in DOMAIN tasks'[d] : tasks'[d][j] = given[d][k]
  BY <1>6
<1> QED BY <1>1, <1>7, <1>8, <1>9 DEF Moves

LEMMA SameMoves ==
    ASSUME tasks \in Tasks, UNCHANGED tasks
    PROVE  Moves("account", 0, Nothing)
BY Names, LenProperties DEF Moves, Tasks, Nothing, Was, Kept

\* Where two of the closures that wait after a step come from.
PairOrigin(c, i, given, d, j, k) ==
    \/ \E m, n \in DOMAIN tasks[d] :
         /\ tasks'[d][j] = tasks[d][m] /\ tasks'[d][k] = tasks[d][n]
         /\ d = c => m # i /\ n # i
         /\ m < n <=> j < k
         /\ m = n <=> j = k
    \/ \E m \in DOMAIN tasks[d], n \in DOMAIN given[d] :
         /\ tasks'[d][j] = tasks[d][m] /\ tasks'[d][k] = given[d][n]
         /\ d = c => m # i
         /\ j < k
    \/ \E m \in DOMAIN given[d], n \in DOMAIN tasks[d] :
         /\ tasks'[d][j] = given[d][m] /\ tasks'[d][k] = tasks[d][n]
         /\ d = c => n # i
         /\ k < j
    \/ \E m, n \in DOMAIN given[d] :
         /\ tasks'[d][j] = given[d][m] /\ tasks'[d][k] = given[d][n]
         /\ m < n <=> j < k
         /\ m = n <=> j = k

\* Closures keep their order, those that are given come behind, and nothing waits
\* twice.
LEMMA MovesOrder ==
    ASSUME tasks \in Tasks, NEW c, NEW i \in Nat, NEW given \in Tasks, Moves(c, i, given),
           NEW d \in Contexts, NEW j \in DOMAIN tasks'[d], NEW k \in DOMAIN tasks'[d]
    PROVE  PairOrigin(c, i, given, d, j, k)
<1> USE DEF PairOrigin
<1> DEFINE e == Kept(c, i, d)
           Old(l) == /\ l <= e
                     /\ Was(c, i, d, l) \in DOMAIN tasks[d]
                     /\ d = c => Was(c, i, d, l) # i
                     /\ tasks'[d][l] = tasks[d][Was(c, i, d, l)]
           Fresh(l) == /\ l > e
                       /\ l - e \in DOMAIN given[d]
                       /\ tasks'[d][l] = given[d][l - e]
<1>1. tasks' \in Tasks /\ (Old(j) \/ Fresh(j)) /\ (Old(k) \/ Fresh(k))
  BY DEF Moves
<1>2. Len(tasks[d]) \in Nat /\ e \in Int /\ j \in Nat /\ k \in Nat
  BY <1>1, LenProperties DEF Tasks, Kept
<1>3. CASE Old(j) /\ Old(k)
  <2>1. /\ Was(c, i, d, j) < Was(c, i, d, k) <=> j < k
        /\ Was(c, i, d, j) = Was(c, i, d, k) <=> j = k
    BY <1>2, <1>3 DEF Was
  <2> QED BY <1>3, <2>1
<1>4. CASE Old(j) /\ Fresh(k)
  <2>1. j < k
    BY <1>2, <1>4
  <2> QED BY <1>4, <2>1
<1>5. CASE Fresh(j) /\ Old(k)
  <2>1. k < j
    BY <1>2, <1>5
  <2> QED BY <1>5, <2>1
<1>6. CASE Fresh(j) /\ Fresh(k)
  <2>1. /\ j - e < k - e <=> j < k
        /\ j - e = k - e <=> j = k
    BY <1>2
  <2> QED BY <1>6, <2>1
<1> QED BY <1>1, <1>3, <1>4, <1>5, <1>6

\* A closure that waits after a step waited or was given.
LEMMA MovesOrigin ==
    ASSUME NEW c, NEW i, NEW given, Moves(c, i, given),
           NEW d \in Contexts, NEW j \in DOMAIN tasks'[d]
    PROVE  \/ \E m \in DOMAIN tasks[d] : /\ tasks'[d][j] = tasks[d][m]
                                         /\ d = c => m # i
           \/ \E m \in DOMAIN given[d] : tasks'[d][j] = given[d][m]
BY DEF Moves

-----------------------------------------------------------------------------
(* What each action gives.                                                 *)

LEMMA RunningClosure ==
    ASSUME tasks \in Tasks, NEW c \in Contexts, NEW i \in Running(c)
    PROVE  /\ i \in DOMAIN tasks[c] /\ i \in Nat /\ 0 < i /\ i <= ThreadsOf(c)
           /\ tasks[c][i] \in Closures
BY LenProperties, ElementOfSeq DEF Running, Tasks

\* What a new subscriber is given.
Welcome(b, r) == IF r \in subscribers[b] \/ sticky[b] = NoEvent THEN Nothing
                 ELSE ToReceivers({r}, b, sticky[b])

LEMMA SubscribeMoves ==
    ASSUME TypeOK, NEW c \in Contexts, NEW i \in Running(c), RunSubscribe(c, i)
    PROVE  /\ tasks[c][i].bus \in Buses
           /\ tasks[c][i].receiver \in Receivers \cup Relays
           /\ Moves(c, i, Welcome(tasks[c][i].bus, tasks[c][i].receiver))
<1> DEFINE b == tasks[c][i].bus
           r == tasks[c][i].receiver
<1>1. tasks \in Tasks /\ sticky \in [Buses -> AllEvents]
  BY DEF TypeOK, Tasks
<1>2. tasks[c][i].do = "subscribe" /\ Done(c, i, Welcome(b, r))
  BY DEF RunSubscribe, AddSubscriber, Welcome
<1>3. b \in Buses /\ r \in Receivers \cup Relays
  BY <1>1, <1>2, RunningClosure, ClosureFields
<1>4. ToReceivers({r}, b, sticky[b]) \in Tasks
  BY <1>1, <1>3, DeliveredType
<1>5. Welcome(b, r) \in Tasks
  BY <1>4, GivenTypes DEF Welcome
<1> QED BY <1>1, <1>2, <1>3, <1>5, DoneMoves

LEMMA UnsubscribeMoves ==
    ASSUME TypeOK, NEW c \in Contexts, NEW i \in Running(c), RunUnsubscribe(c, i)
    PROVE  /\ tasks[c][i].bus \in Buses
           /\ tasks[c][i].receiver \in Receivers \cup Relays
           /\ Moves(c, i, Nothing)
<1>1. tasks \in Tasks /\ Done(c, i, Nothing) /\ tasks[c][i].do = "unsubscribe"
  BY DEF TypeOK, Tasks, RunUnsubscribe
<1> QED BY <1>1, RunningClosure, ClosureFields, GivenTypes, DoneMoves

\* The closure by which a publisher's receiver subscribes.
Relaying(c) == [do |-> "subscribe", bus |-> Source[c], receiver |-> c]

LEMMA RelayMoves ==
    ASSUME TypeOK, NEW c \in Contexts, NEW i \in Running(c), RunRelay(c, i),
           c \in Relays
    PROVE  /\ Relaying(c) \in Closures
           /\ Moves(c, i, To(Source[c], <<Relaying(c)>>))
<1>1. tasks \in Tasks /\ Done(c, i, To(Source[c], <<Relaying(c)>>))
  BY DEF TypeOK, Tasks, RunRelay, Relaying
<1>2. Relaying(c) \in Closures
  BY Names, ClosureTypes DEF Relaying
<1>3. To(Source[c], <<Relaying(c)>>) \in Tasks
  BY <1>2, Names, OneElement, GivenTypes
<1> QED BY <1>1, <1>2, <1>3, DoneMoves

LEMMA PostMoves ==
    ASSUME TypeOK, NEW c \in Contexts, NEW i \in Running(c), RunPost(c, i)
    PROVE  LET t == tasks[c][i] IN
           /\ t.bus \in Buses /\ t.event \in AllEvents /\ t = Post(t.bus, t.event)
           /\ Moves(c, i, ToReceivers(subscribers[t.bus], t.bus, t.event))
<1> DEFINE t == tasks[c][i]
<1>1. /\ tasks \in Tasks
      /\ t.do = "post"
      /\ Done(c, i, ToReceivers(subscribers[t.bus], t.bus, t.event))
  BY DEF TypeOK, Tasks, RunPost, Deliver
<1>2. t.bus \in Buses /\ t.event \in AllEvents /\ t = Post(t.bus, t.event)
  BY <1>1, RunningClosure, ClosureFields
<1>3. ToReceivers(subscribers[t.bus], t.bus, t.event) \in Tasks
  BY <1>2, DeliveredType
<1> QED BY <1>1, <1>2, <1>3, DoneMoves

LEMMA OnEventMoves ==
    ASSUME TypeOK, NEW c \in Contexts, NEW i \in Running(c), RunOnEvent(c, i)
    PROVE  LET t == tasks[c][i] IN
           /\ t.bus \in Buses /\ t.event \in AllEvents /\ t = OnEvent(t.bus, t.event)
           /\ Moves(c, i, Nothing)
<1>1. tasks \in Tasks /\ Done(c, i, Nothing) /\ tasks[c][i].do = "onEvent"
  BY DEF TypeOK, Tasks, RunOnEvent
<1> QED BY <1>1, RunningClosure, ClosureFields, GivenTypes, DoneMoves

LEMMA RelayedMoves ==
    ASSUME TypeOK, NEW c \in Contexts, NEW i \in Running(c), RunRelayed(c, i)
    PROVE  LET t == tasks[c][i] IN
           /\ t.bus \in Buses /\ t.event \in AllEvents /\ t = OnEvent(t.bus, t.event)
           /\ c \in Buses
           /\ Moves(c, i, To(c, <<Post(c, t.event)>>))
<1> DEFINE t == tasks[c][i]
<1>1. /\ tasks \in Tasks /\ c \in Relays /\ t.do = "onEvent"
      /\ Done(c, i, To(c, <<Post(c, t.event)>>))
  BY DEF TypeOK, Tasks, RunRelayed
<1>2. t.bus \in Buses /\ t.event \in AllEvents /\ t = OnEvent(t.bus, t.event)
  BY <1>1, RunningClosure, ClosureFields
<1>3. c \in Buses /\ Post(c, t.event) \in Closures
  BY <1>1, <1>2, Names, ClosureTypes
<1>4. To(c, <<Post(c, t.event)>>) \in Tasks
  BY <1>3, OneElement, GivenTypes
<1> QED BY <1>1, <1>2, <1>3, <1>4, DoneMoves

LEMMA PushMoves ==
    ASSUME TypeOK, NEW c \in Contexts, NEW i \in Running(c), RunPush(c, i)
    PROVE  /\ tasks[c][i].event \in AllEvents
           /\ tasks[c][i] = Push(tasks[c][i].event)
           /\ Moves(c, i, Nothing)
<1>1. tasks \in Tasks /\ Done(c, i, Nothing) /\ tasks[c][i].do = "push"
  BY DEF TypeOK, Tasks, RunPush
<1> QED BY <1>1, RunningClosure, ClosureFields, GivenTypes, DoneMoves

\* What emitEventsNow posts.
Batches == [k \in DOMAIN batched |-> Event("UPDATE", batched[k])]
Emitted == LET list == Batches \o events IN
           [k \in DOMAIN list |-> Post("account", list[k])]

LEMMA EmittedClosures ==
    ASSUME TypeOK
    PROVE  /\ Emitted \in Seq(Closures)
           /\ \A k \in DOMAIN batched : \E j \in DOMAIN Emitted :
                Emitted[j] = Post("account", Event("UPDATE", batched[k]))
           /\ \A k \in DOMAIN events : \E j \in DOMAIN Emitted :
                Emitted[j] = Post("account", events[k])
           /\ \A j \in DOMAIN Emitted :
                \/ /\ j \in DOMAIN batched
                   /\ Emitted[j] = Post("account", Event("UPDATE", batched[j]))
                \/ /\ j > Len(batched) /\ j - Len(batched) \in DOMAIN events
                   /\ Emitted[j] = Post("account", events[j - Len(batched)])
<1> DEFINE list == Batches \o events
<1>1. /\ batched \in Seq(SUBSET Rows) /\ events \in Seq(AllEvents)
      /\ DOMAIN batched = 1..Len(batched)
  BY LenProperties DEF TypeOK
<1>2. Batches \in [1..Len(batched) -> AllEvents]
  BY <1>1, EventTypes, ElementOfSeq DEF Batches
<1>3. /\ Batches \in Seq(AllEvents) /\ Len(Batches) = Len(batched)
      /\ DOMAIN Batches = DOMAIN batched
  BY <1>1, <1>2, Mapped
<1>4. \A k \in DOMAIN batched : Batches[k] = Event("UPDATE", batched[k])
  BY DEF Batches
<1>5. /\ list \in Seq(AllEvents)
      /\ \A k \in DOMAIN batched : k \in DOMAIN list /\ list[k] = Batches[k]
      /\ \A k \in DOMAIN events : /\ Len(batched) + k \in DOMAIN list
                                  /\ list[Len(batched) + k] = events[k]
      /\ \A k \in DOMAIN list :
           \/ k \in DOMAIN batched /\ list[k] = Batches[k]
           \/ /\ k > Len(batched) /\ k - Len(batched) \in DOMAIN events
              /\ list[k] = events[k - Len(batched)]
  BY <1>1, <1>3, JoinedElements
<1>6. Emitted = [k \in DOMAIN list |-> Post("account", list[k])]
  BY DEF Emitted
<1> HIDE DEF list
<1>7. DOMAIN list = 1..Len(list)
  BY <1>5, LenProperties
<1>8. Emitted \in [1..Len(list) -> Closures]
  BY <1>5, <1>6, <1>7, ElementOfSeq, Names, ClosureTypes
<1>9. Emitted \in Seq(Closures) /\ DOMAIN Emitted = DOMAIN list
  BY <1>5, <1>7, <1>8, Mapped
<1>10. \A j \in DOMAIN list : Emitted[j] = Post("account", list[j])
  BY <1>6
<1>11. \A k \in DOMAIN batched : \E j \in DOMAIN Emitted :
         Emitted[j] = Post("account", Event("UPDATE", batched[k]))
  BY <1>4, <1>5, <1>9, <1>10
<1>12. \A k \in DOMAIN events : \E j \in DOMAIN Emitted :
         Emitted[j] = Post("account", events[k])
  BY <1>5, <1>9, <1>10
<1>13. ASSUME NEW j \in DOMAIN Emitted
       PROVE  \/ /\ j \in DOMAIN batched
                 /\ Emitted[j] = Post("account", Event("UPDATE", batched[j]))
              \/ /\ j > Len(batched) /\ j - Len(batched) \in DOMAIN events
                 /\ Emitted[j] = Post("account", events[j - Len(batched)])
  BY <1>4, <1>5, <1>9, <1>10
<1> QED BY <1>9, <1>11, <1>12, <1>13

LEMMA EmitMoves ==
    ASSUME TypeOK, NEW c \in Contexts, NEW i \in Running(c), RunEmit(c, i)
    PROVE  Moves(c, i, To(c, Emitted))
<1>1. tasks \in Tasks /\ Done(c, i, To(c, Emitted))
  BY DEF TypeOK, Tasks, RunEmit, Emitted, Batches
<1>2. To(c, Emitted) \in Tasks
  BY EmittedClosures, GivenTypes
<1> QED BY <1>1, <1>2, DoneMoves

\* The closures given, context by context.
LEMMA GivenNothing ==
    ASSUME NEW d \in Contexts
    PROVE  DOMAIN Nothing[d] = {}
BY EmptyDomain DEF Nothing

LEMMA GivenTo ==
    ASSUME NEW c \in Contexts, NEW s, NEW d \in Contexts, NEW k \in DOMAIN To(c, s)[d]
    PROVE  d = c /\ k \in DOMAIN s /\ To(c, s)[d][k] = s[k]
BY EmptyDomain DEF To

LEMMA ToGives ==
    ASSUME NEW c \in Contexts, NEW s
    PROVE  To(c, s)[c] = s
BY DEF To

LEMMA GivenOne ==
    ASSUME NEW c \in Contexts, NEW t, NEW d \in Contexts, NEW k \in DOMAIN To(c, <<t>>)[d]
    PROVE  d = c /\ k = 1 /\ To(c, <<t>>)[d][k] = t
<1>1. d = c /\ k \in DOMAIN <<t>> /\ To(c, <<t>>)[d][k] = <<t>>[k]
  BY GivenTo
<1> QED BY <1>1, OneDomain

LEMMA GivenReceivers ==
    ASSUME NEW R, NEW b, NEW e, NEW d \in Contexts
    PROVE  /\ \A k \in DOMAIN ToReceivers(R, b, e)[d] :
                d \in R /\ k = 1 /\ ToReceivers(R, b, e)[d][k] = OnEvent(b, e)
           /\ d \in R => /\ 1 \in DOMAIN ToReceivers(R, b, e)[d]
                         /\ ToReceivers(R, b, e)[d][1] = OnEvent(b, e)
<1> DEFINE t == OnEvent(b, e)
<1>1. ToReceivers(R, b, e)[d] = IF d \in R THEN <<t>> ELSE <<>>
  BY DEF ToReceivers
<1> HIDE DEF t
<1>2. /\ \A k \in DOMAIN (IF d \in R THEN <<t>> ELSE <<>>) : d \in R /\ k = 1
      /\ d \in R => 1 \in DOMAIN <<t>> /\ <<t>>[1] = t
  BY OneDomain, EmptyDomain
<1> QED BY <1>1, <1>2 DEF t

LEMMA GivenWelcome ==
    ASSUME NEW b, NEW r, NEW d \in Contexts
    PROVE  /\ \A k \in DOMAIN Welcome(b, r)[d] :
                /\ d = r /\ r \notin subscribers[b] /\ sticky[b] # NoEvent
                /\ k = 1 /\ Welcome(b, r)[d][k] = OnEvent(b, sticky[b])
           /\ d = r /\ r \notin subscribers[b] /\ sticky[b] # NoEvent =>
                1 \in DOMAIN Welcome(b, r)[d] /\ Welcome(b, r)[d][1] = OnEvent(b, sticky[b])
<1>1. CASE r \in subscribers[b] \/ sticky[b] = NoEvent
  <2>1. Welcome(b, r) = Nothing
    BY <1>1 DEF Welcome
  <2> QED BY <2>1, <1>1, GivenNothing
<1>2. CASE ~(r \in subscribers[b] \/ sticky[b] = NoEvent)
  <2>1. Welcome(b, r) = ToReceivers({r}, b, sticky[b])
    BY <1>2 DEF Welcome
  <2> QED BY <2>1, <1>2, GivenReceivers
<1> QED BY <1>1, <1>2

\* What a receiver was told, and one thing more.
LEMMA HeardMore ==
    ASSUME TypeOK, NEW c \in Receivers, NEW p \in Buses \X AllEvents,
           heard' = [heard EXCEPT ![c] = Append(@, p)]
    PROVE  /\ \A r \in Receivers \ {c} : heard'[r] = heard[r]
           /\ \A k \in DOMAIN heard[c] : k \in DOMAIN heard'[c] /\ heard'[c][k] = heard[c][k]
           /\ \E k \in DOMAIN heard'[c] : heard'[c][k] = p
           /\ \A k \in DOMAIN heard'[c] :
                \/ k \in DOMAIN heard[c] /\ heard'[c][k] = heard[c][k]
                \/ /\ heard'[c][k] = p /\ \A j \in DOMAIN heard[c] : j < k
                   /\ k = Len(heard[c]) + 1
<1>1. heard \in [Receivers -> Seq(Buses \X AllEvents)]
  BY DEF TypeOK
<1>2. heard[c] \in Seq(Buses \X AllEvents)
  BY <1>1
<1>3. /\ heard'[c] = Append(heard[c], p)
      /\ \A r \in Receivers \ {c} : heard'[r] = heard[r]
  BY <1>1
<1>4. /\ Append(heard[c], p) \in Seq(Buses \X AllEvents)
      /\ Len(Append(heard[c], p)) = Len(heard[c]) + 1
      /\ \A k \in 1..Len(heard[c]) : Append(heard[c], p)[k] = heard[c][k]
      /\ Append(heard[c], p)[Len(heard[c]) + 1] = p
  BY <1>2, AppendProperties
<1>5. /\ Len(heard[c]) \in Nat /\ DOMAIN heard[c] = 1..Len(heard[c])
      /\ DOMAIN heard'[c] = 1..(Len(heard[c]) + 1)
  BY <1>2, <1>3, <1>4, LenProperties
<1> QED BY <1>3, <1>4, <1>5

\* An action that gives one closure.
LEMMA GiveMoves ==
    ASSUME TypeOK, NEW c \in Contexts, NEW t \in Closures, Async(c, <<t>>)
    PROVE  Moves(c, 0, To(c, <<t>>))
BY OneElement, AsyncMoves DEF TypeOK, Tasks

-----------------------------------------------------------------------------
(* Types.                                                                  *)

\* Whose closures a context runs: a bus's are run by its own context, a
\* publisher that relays hears the bus it relays only, and only the bus of a
\* synchronization has sticky events.
Fits(c, t) ==
    /\ t.do \in {"post", "subscribe", "unsubscribe"} => c = ContextOf(t.bus)
    /\ t.do \in {"post", "onEvent"} => (t.bus = "sync" <=> IsSticky(t.event))
    /\ t.do = "subscribe" /\ t.receiver \in Relays => t.bus = Source[t.receiver]
    /\ t.do = "unsubscribe" => t.receiver \in Receivers
    /\ t.do = "onEvent" => c \in Receivers \/ (c \in Relays /\ t.bus = Source[c])
    /\ t.do = "push" => ~IsSticky(t.event)
    /\ t.do \in {"push", "emit"} => c = "account"
    /\ t.do = "relay" => c \in Relays

AllFit == \A c \in Contexts : \A k \in DOMAIN tasks[c] : Fits(c, tasks[c][k])

Wired ==
    /\ AllFit
    /\ \A b \in Buses : \A r \in subscribers[b] : r \in Relays => b = Source[r]
    /\ \A b \in Buses : sticky[b] = NoEvent \/ (b = "sync" /\ IsSticky(sticky[b]))
    /\ \A k \in DOMAIN events : ~IsSticky(events[k])

LEMMA FitKept ==
    ASSUME AllFit, NEW c, NEW i, NEW given, Moves(c, i, given),
           \A d \in Contexts : \A k \in DOMAIN given[d] : Fits(d, given[d][k])
    PROVE  AllFit'
<1>1. ASSUME NEW d \in Contexts, NEW j \in DOMAIN tasks'[d]
      PROVE  Fits(d, tasks'[d][j])
  BY <1>1 DEF Moves, AllFit
<1> QED BY <1>1 DEF AllFit

\* One closure that fits its context.
LEMMA FitGiven ==
    ASSUME AllFit, NEW c, NEW i, NEW e \in Contexts, NEW t,
           Moves(c, i, To(e, <<t>>)), Fits(e, t)
    PROVE  AllFit'
<1>1. ASSUME NEW d \in Contexts, NEW k \in DOMAIN To(e, <<t>>)[d]
      PROVE  Fits(d, To(e, <<t>>)[d][k])
  BY GivenOne
<1> QED BY <1>1, FitKept

LEMMA FitNothing ==
    ASSUME AllFit, NEW c, NEW i, Moves(c, i, Nothing)
    PROVE  AllFit'
BY FitKept, GivenNothing

LEMMA TypeInit == Init => TypeOK /\ Wired
<1> SUFFICES ASSUME Init PROVE TypeOK /\ Wired
  OBVIOUS
<1>1. /\ [do |-> "relay"] \in Closures
      /\ <<[do |-> "relay"]>> \in Seq(Closures) /\ <<>> \in Seq(Closures)
  BY ClosureTypes, OneElement, EmptySeq
<1>2. tasks \in [Contexts -> Seq(Closures)]
  BY <1>1 DEF Init
<1>3. AllFit
  <2> SUFFICES ASSUME NEW c \in Contexts, NEW k \in DOMAIN tasks[c]
               PROVE  Fits(c, tasks[c][k])
    BY DEF AllFit
  <2>1. c \in Relays
    BY EmptyDomain DEF Init
  <2>2. tasks[c] = <<[do |-> "relay"]>>
    BY <2>1 DEF Init
  <2>3. tasks[c][k] = [do |-> "relay"]
    BY <2>2, OneDomain
  <2> QED BY <2>1, <2>3 DEF Fits
<1>4. /\ batched = <<>> /\ batched \in Seq(SUBSET Rows) /\ Len(batched) <= 1
      /\ events \in Seq(AllEvents) /\ DOMAIN events = {}
  BY EmptySeq, EmptyDomain DEF Init
<1>5. heard \in [Receivers -> Seq(Buses \X AllEvents)]
  BY EmptySeq DEF Init
<1>6. sticky \in [Buses -> AllEvents]
  BY EventTypes DEF Init
<1>7. TypeOK
  <2>1. 0 \in 0..MaxRows /\ 0 \in 0..MaxChanges /\ 0 \in 0..MaxCalls
    BY BoundsAssumption
  <2>2. table \in [Operations -> 0..MaxRows] /\ rows \in [Operations -> 0..MaxRows]
    BY <2>1 DEF Init
  <2>3. subscribers \in [Buses -> SUBSET (Receivers \cup Relays)]
    BY DEF Init
  <2>4. /\ emits \subseteq Makers /\ mined \subseteq Operations
        /\ owed \subseteq Receivers \X Buses \X Rows /\ left \subseteq Receivers \X Buses
        /\ job \in {"none", "running", "ended"} /\ overtaken \in BOOLEAN
        /\ changes \in 0..MaxChanges /\ calls \in 0..MaxCalls
    BY <2>1 DEF Init
  <2> QED BY <1>2, <1>4, <1>5, <1>6, <2>2, <2>3, <2>4 DEF TypeOK
<1>8. Wired
  BY <1>3, <1>4 DEF Init, Wired
<1> QED BY <1>7, <1>8

\* What a closure of a bus or a publisher does.
LEMMA TypeSubscribe ==
    ASSUME TypeOK, Wired, NEW c \in Contexts, NEW i \in Running(c), RunSubscribe(c, i)
    PROVE  TypeOK' /\ Wired'
<1> DEFINE b == tasks[c][i].bus
           r == tasks[c][i].receiver
<1>1. /\ b \in Buses /\ r \in Receivers \cup Relays
      /\ Moves(c, i, Welcome(b, r))
  BY SubscribeMoves
<1>2. /\ subscribers' = [subscribers EXCEPT ![b] = @ \cup {r}]
      /\ UNCHANGED <<sticky, accountVars, historyVars, boundVars>>
  BY DEF RunSubscribe, AddSubscriber
<1>3. tasks \in Tasks /\ tasks[c][i].do = "subscribe" /\ tasks[c][i] \in Closures
      /\ i \in DOMAIN tasks[c]
  BY RunningClosure DEF TypeOK, Tasks, RunSubscribe
<1>4. r \in Relays => b = Source[r]
  BY <1>3 DEF Wired, AllFit, Fits
<1>5. TypeOK'
  BY <1>1, <1>2 DEF TypeOK, Moves, Tasks, accountVars, historyVars, boundVars
<1>6. AllFit'
  <2>1. ASSUME NEW d \in Contexts, NEW k \in DOMAIN Welcome(b, r)[d]
        PROVE  Fits(d, Welcome(b, r)[d][k])
    <3>1. /\ d = r /\ sticky[b] # NoEvent
          /\ Welcome(b, r)[d][k] = OnEvent(b, sticky[b])
      BY GivenWelcome
    <3>2. b = "sync" /\ IsSticky(sticky[b])
      BY <1>1, <3>1 DEF Wired
    <3>3. r \in Receivers
      BY <1>1, <1>4, <3>2, Names
    <3> QED BY <3>1, <3>2, <3>3 DEF Fits, OnEvent
  <2> QED BY <1>1, <2>1, FitKept DEF Wired
<1>7. \A a \in Buses : \A d \in subscribers'[a] : d \in Relays => a = Source[d]
  BY <1>2, <1>4 DEF Wired, TypeOK
<1> QED BY <1>2, <1>5, <1>6, <1>7 DEF Wired, accountVars

LEMMA TypeUnsubscribe ==
    ASSUME TypeOK, Wired, NEW c \in Contexts, NEW i \in Running(c), RunUnsubscribe(c, i)
    PROVE  TypeOK' /\ Wired'
<1> DEFINE b == tasks[c][i].bus
           r == tasks[c][i].receiver
<1>1. b \in Buses /\ r \in Receivers \cup Relays /\ Moves(c, i, Nothing)
  BY UnsubscribeMoves
<1>2. /\ subscribers' = [subscribers EXCEPT ![b] = @ \ {r}]
      /\ left' = left \cup {<<r, b>>}
      /\ UNCHANGED <<sticky, accountVars, heard, owed, overtaken, boundVars>>
  BY DEF RunUnsubscribe
<1>3. r \in Receivers
  BY RunningClosure DEF TypeOK, Tasks, RunUnsubscribe, Wired, AllFit, Fits
<1>4. TypeOK'
  BY <1>1, <1>2, <1>3 DEF TypeOK, Moves, Tasks, accountVars, boundVars
<1>5. AllFit'
  BY <1>1, FitNothing DEF Wired
<1>6. \A a \in Buses : subscribers'[a] \subseteq subscribers[a]
  BY <1>2 DEF TypeOK
<1> QED BY <1>2, <1>4, <1>5, <1>6 DEF Wired, accountVars

LEMMA TypeRelay ==
    ASSUME TypeOK, Wired, NEW c \in Contexts, NEW i \in Running(c), RunRelay(c, i)
    PROVE  c \in Relays /\ TypeOK' /\ Wired'
<1>1. c \in Relays
  BY RunningClosure DEF TypeOK, Tasks, RunRelay, Wired, AllFit, Fits
<1>2. Moves(c, i, To(Source[c], <<Relaying(c)>>))
  BY <1>1, RelayMoves
<1>3. Fits(Source[c], Relaying(c)) /\ Source[c] \in Contexts
  BY <1>1, Names DEF Fits, Relaying
<1>4. UNCHANGED <<subscribers, sticky, accountVars, historyVars, boundVars>>
  BY DEF RunRelay
<1>5. TypeOK'
  BY <1>2, <1>4 DEF TypeOK, Moves, Tasks, accountVars, historyVars, boundVars
<1>6. AllFit'
  BY <1>2, <1>3, FitGiven DEF Wired
<1> QED BY <1>1, <1>4, <1>5, <1>6 DEF Wired, accountVars

LEMMA TypePost ==
    ASSUME TypeOK, Wired, NEW c \in Contexts, NEW i \in Running(c), RunPost(c, i)
    PROVE  TypeOK' /\ Wired'
<1> DEFINE b == tasks[c][i].bus
           e == tasks[c][i].event
           given == ToReceivers(subscribers[b], b, e)
<1>1. b \in Buses /\ e \in AllEvents /\ Moves(c, i, given)
  BY PostMoves
<1>2. /\ sticky' = IF IsSticky(e) THEN [sticky EXCEPT ![b] = e] ELSE sticky
      /\ overtaken' \in BOOLEAN
      /\ UNCHANGED <<subscribers, accountVars, heard, owed, left, boundVars>>
  BY DEF RunPost, Deliver, TypeOK
<1>3. b = "sync" <=> IsSticky(e)
  BY RunningClosure DEF TypeOK, Tasks, RunPost, Wired, AllFit, Fits
<1>4. TypeOK'
  BY <1>1, <1>2 DEF TypeOK, Moves, Tasks, accountVars, boundVars
<1>5. ASSUME NEW d \in Contexts, NEW k \in DOMAIN given[d]
      PROVE  Fits(d, given[d][k])
  <2>1. d \in subscribers[b] /\ given[d][k] = OnEvent(b, e)
    BY GivenReceivers
  <2>2. d \in Receivers \/ (d \in Relays /\ b = Source[d])
    BY <1>1, <2>1 DEF Wired, TypeOK
  <2> QED BY <1>3, <2>1, <2>2 DEF Fits, OnEvent
<1>6. AllFit'
  BY <1>1, <1>5, FitKept DEF Wired
<1>7. \A a \in Buses : sticky'[a] = NoEvent \/ (a = "sync" /\ IsSticky(sticky'[a]))
  BY <1>1, <1>2, <1>3 DEF Wired, TypeOK
<1> QED BY <1>2, <1>4, <1>6, <1>7 DEF Wired, accountVars

LEMMA TypeOnEvent ==
    ASSUME TypeOK, Wired, NEW c \in Contexts, NEW i \in Running(c), RunOnEvent(c, i)
    PROVE  TypeOK' /\ Wired'
<1> DEFINE x == <<tasks[c][i].bus, tasks[c][i].event>>
<1>1. x \in Buses \X AllEvents /\ Moves(c, i, Nothing)
  BY OnEventMoves
<1>2. /\ c \in Receivers
      /\ heard' = [heard EXCEPT ![c] = Append(@, x)]
      /\ UNCHANGED <<subscribers, sticky, accountVars, owed, left, overtaken, boundVars>>
  BY DEF RunOnEvent
<1> HIDE DEF x
<1>3. heard' \in [Receivers -> Seq(Buses \X AllEvents)]
  <2>1. heard[c] \in Seq(Buses \X AllEvents)
    BY <1>2 DEF TypeOK
  <2>2. Append(heard[c], x) \in Seq(Buses \X AllEvents)
    BY <1>1, <2>1, AppendProperties
  <2> QED BY <1>2, <2>2 DEF TypeOK
<1>4. TypeOK'
  BY <1>1, <1>2, <1>3 DEF TypeOK, Moves, Tasks, accountVars, boundVars
<1>5. AllFit'
  BY <1>1, FitNothing DEF Wired
<1> QED BY <1>2, <1>4, <1>5 DEF Wired, accountVars

LEMMA TypeRelayed ==
    ASSUME TypeOK, Wired, NEW c \in Contexts, NEW i \in Running(c), RunRelayed(c, i)
    PROVE  TypeOK' /\ Wired'
<1> DEFINE t == tasks[c][i]
<1>1. /\ c \in Relays /\ t.do = "onEvent"
      /\ UNCHANGED <<subscribers, sticky, accountVars, historyVars, boundVars>>
  BY DEF RunRelayed
<1>2. Moves(c, i, To(c, <<Post(c, t.event)>>))
  BY RelayedMoves
<1>3. (t.bus = "sync" <=> IsSticky(t.event)) /\ t.bus = Source[c]
  BY <1>1, RunningClosure, Names DEF TypeOK, Tasks, Wired, AllFit, Fits
<1>4. Fits(c, Post(c, t.event))
  BY <1>1, <1>3, Names DEF Fits, Post
<1>5. TypeOK'
  BY <1>1, <1>2 DEF TypeOK, Moves, Tasks, accountVars, historyVars, boundVars
<1>6. AllFit'
  BY <1>2, <1>4, FitGiven DEF Wired
<1> QED BY <1>1, <1>5, <1>6 DEF Wired, accountVars

\* What a closure of the account does.
LEMMA TypePush ==
    ASSUME TypeOK, Wired, NEW c \in Contexts, NEW i \in Running(c), RunPush(c, i)
    PROVE  TypeOK' /\ Wired'
<1> DEFINE e == tasks[c][i].event
<1>1. e \in AllEvents /\ Moves(c, i, Nothing)
  BY PushMoves
<1>2. /\ events' = Append(events, e)
      /\ UNCHANGED <<subscribers, sticky, batched, table, rows, mined, job, emits,
                     historyVars, boundVars>>
  BY DEF RunPush
<1>3. ~IsSticky(e)
  BY RunningClosure DEF TypeOK, Tasks, RunPush, Wired, AllFit, Fits
<1> HIDE DEF e
<1>4. /\ events' \in Seq(AllEvents)
      /\ \A k \in DOMAIN events' : events'[k] = e \/ \E j \in DOMAIN events : events'[k] = events[j]
  <2>1. events \in Seq(AllEvents)
    BY DEF TypeOK
  <2>2. /\ Append(events, e) \in Seq(AllEvents)
        /\ Len(Append(events, e)) = Len(events) + 1
        /\ \A k \in 1..Len(events) : Append(events, e)[k] = events[k]
        /\ Append(events, e)[Len(events) + 1] = e
    BY <1>1, <2>1, AppendProperties
  <2>3. Len(events) \in Nat /\ DOMAIN events = 1..Len(events)
        /\ DOMAIN events' = 1..(Len(events) + 1)
    BY <1>2, <2>1, <2>2, LenProperties
  <2> QED BY <1>2, <2>2, <2>3
<1>5. TypeOK'
  BY <1>1, <1>2, <1>4 DEF TypeOK, Moves, Tasks, historyVars, boundVars
<1>6. AllFit'
  BY <1>1, FitNothing DEF Wired
<1>7. \A k \in DOMAIN events' : ~IsSticky(events'[k])
  BY <1>3, <1>4 DEF Wired
<1> QED BY <1>2, <1>5, <1>6, <1>7 DEF Wired

\* Neither a batch nor an event that waits at the account is sticky.
LEMMA EmittedPosts ==
    ASSUME TypeOK, Wired, NEW k \in DOMAIN Emitted
    PROVE  \E e \in AllEvents : ~IsSticky(e) /\ Emitted[k] = Post("account", e)
<1>1. /\ \A j \in DOMAIN batched : Event("UPDATE", batched[j]) \in AllEvents
      /\ \A j \in DOMAIN batched : ~IsSticky(Event("UPDATE", batched[j]))
      /\ \A j \in DOMAIN events : events[j] \in AllEvents
  <2>1. \A j \in DOMAIN batched : batched[j] \in SUBSET Rows
    BY LenProperties, ElementOfSeq DEF TypeOK
  <2>2. \A j \in DOMAIN events : events[j] \in AllEvents
    BY LenProperties, ElementOfSeq DEF TypeOK
  <2> QED BY <2>1, <2>2, EventTypes DEF IsSticky, Event
<1>2. \/ k \in DOMAIN batched /\ Emitted[k] = Post("account", Event("UPDATE", batched[k]))
      \/ /\ k - Len(batched) \in DOMAIN events
         /\ Emitted[k] = Post("account", events[k - Len(batched)])
  BY EmittedClosures
<1> QED BY <1>1, <1>2 DEF Wired

LEMMA TypeEmit ==
    ASSUME TypeOK, Wired, NEW c \in Contexts, NEW i \in Running(c), RunEmit(c, i)
    PROVE  c = "account" /\ TypeOK' /\ Wired'
<1>1. Moves(c, i, To(c, Emitted))
  BY EmitMoves
<1>2. /\ events' = <<>> /\ batched' = <<>>
      /\ UNCHANGED <<subscribers, sticky, table, rows, mined, job, emits, historyVars,
                     boundVars>>
  BY DEF RunEmit, TakeEvents
<1>3. c = "account"
  BY RunningClosure DEF TypeOK, Tasks, RunEmit, Wired, AllFit, Fits
<1>4. batched' \in Seq(SUBSET Rows) /\ Len(batched') <= 1 /\ events' \in Seq(AllEvents)
      /\ DOMAIN events' = {}
  BY <1>2, EmptySeq, EmptyDomain
<1>5. TypeOK'
  BY <1>1, <1>2, <1>4 DEF TypeOK, Moves, Tasks, historyVars, boundVars
<1>6. ASSUME NEW d \in Contexts, NEW k \in DOMAIN To(c, Emitted)[d]
      PROVE  Fits(d, To(c, Emitted)[d][k])
  <2>1. d = c /\ k \in DOMAIN Emitted /\ To(c, Emitted)[d][k] = Emitted[k]
    BY GivenTo
  <2>2. PICK e \in AllEvents : ~IsSticky(e) /\ Emitted[k] = Post("account", e)
    BY <2>1, EmittedPosts
  <2> QED BY <1>3, <2>1, <2>2, Names DEF Fits, Post
<1>7. AllFit'
  BY <1>1, <1>6, FitKept DEF Wired
<1> QED BY <1>2, <1>3, <1>4, <1>5, <1>7 DEF Wired

-----------------------------------------------------------------------------
\* The rows that are new are rows, and no operation had them.
LEMMA NewRows ==
    ASSUME TypeOK, NEW S \in SUBSET Operations, \A o \in S : rows[o] < MaxRows
    PROVE  /\ New(S) \in SUBSET Rows
           /\ \A x \in New(S) : x[1] \in S /\ x[2] = rows[x[1]] + 1
BY BoundsAssumption DEF TypeOK, New, Rows

LEMMA OwedRows ==
    ASSUME NEW S, NEW w \in Owed(S)
    PROVE  /\ w = <<w[1], w[2], w[3]>>
           /\ w[1] \in Receivers /\ w[2] \in Buses \ {"sync"} /\ w[3] \in New(S)
           /\ Reached(w[1], w[2])
BY DEF Owed

\* What a batch holds.
LEMMA BatchHolds ==
    ASSUME TypeOK, NEW N \in SUBSET Rows,
           batched' = IF batched = <<>> THEN <<N>> ELSE <<batched[1] \cup N>>
    PROVE  /\ batched' \in Seq(SUBSET Rows)
           /\ DOMAIN batched' = {1} /\ Len(batched') = 1
           /\ N \subseteq batched'[1]
           /\ \A k \in DOMAIN batched : k = 1 /\ batched[k] \subseteq batched'[1]
           /\ \A x \in batched'[1] : x \in N \/ \E k \in DOMAIN batched : x \in batched[k]
<1>1. batched \in Seq(SUBSET Rows) /\ Len(batched) <= 1 /\ Len(batched) \in Nat
      /\ DOMAIN batched = 1..Len(batched)
  BY LenProperties DEF TypeOK
<1>2. CASE batched = <<>>
  <2>1. DOMAIN batched = {}
    BY <1>2, EmptyDomain
  <2>2. batched' = <<N>>
    BY <1>2
  <2> QED BY <2>1, <2>2, OneElement, OneDomain
<1>3. CASE batched # <<>>
  <2>1. Len(batched) = 1 /\ DOMAIN batched = {1}
    BY <1>1, <1>3, EmptySeq
  <2>2. batched[1] \in SUBSET Rows
    BY <1>1, <2>1, ElementOfSeq
  <2>3. batched' = <<batched[1] \cup N>> /\ batched[1] \cup N \in SUBSET Rows
    BY <1>3, <2>2
  <2>4. /\ batched' \in Seq(SUBSET Rows) /\ Len(batched') = 1
        /\ DOMAIN batched' = {1} /\ batched'[1] = batched[1] \cup N
    BY <2>3, OneElement, OneDomain
  <2> QED BY <2>1, <2>4
<1> QED BY <1>2, <1>3

LEMMA TypeInsert ==
    ASSUME TypeOK, Wired, NEW who \in Makers, NEW S \in SUBSET Operations,
           BulkInsert(who, S)
    PROVE  TypeOK' /\ Wired'
<1>1. /\ changes < MaxChanges /\ changes' = changes + 1
      /\ \A o \in S : rows[o] < MaxRows
      /\ rows' = [o \in Operations |-> IF o \in S THEN rows[o] + 1 ELSE rows[o]]
      /\ table' = [o \in Operations |-> IF o \in S THEN rows'[o] ELSE table[o]]
      /\ mined' = IF who = "synchronizer" THEN mined \cup S ELSE mined \ S
      /\ emits' = emits \cup {who}
      /\ owed' = owed \cup Owed(S)
      /\ UNCHANGED <<tasks, subscribers, sticky, events, job, heard, left, overtaken,
                     calls>>
  BY DEF BulkInsert
<1>2. New(S) \in SUBSET Rows
  BY <1>1, NewRows
<1>3. batched' \in Seq(SUBSET Rows) /\ Len(batched') <= 1
  <2> DEFINE N == New(S)
  <2>1. batched' = IF batched = <<>> THEN <<N>> ELSE <<batched[1] \cup N>>
    BY DEF BulkInsert, Batch
  <2> HIDE DEF N
  <2>2. batched' \in Seq(SUBSET Rows) /\ Len(batched') = 1
    BY <1>2, <2>1, BatchHolds DEF N
  <2> QED BY <2>2
<1>4. owed' \subseteq Receivers \X Buses \X Rows
  <2>1. ASSUME NEW w \in Owed(S) PROVE w \in Receivers \X Buses \X Rows
    BY <1>2, OwedRows
  <2> QED BY <1>1, <2>1 DEF TypeOK
<1>5. rows' \in [Operations -> 0..MaxRows]
  BY <1>1, BoundsAssumption DEF TypeOK
<1>6. table' \in [Operations -> 0..MaxRows]
  BY <1>1, <1>5 DEF TypeOK
<1>7. changes' \in 0..MaxChanges
  BY <1>1, BoundsAssumption DEF TypeOK
<1>8. mined' \subseteq Operations /\ emits' \subseteq Makers
  BY <1>1 DEF TypeOK
<1>9. TypeOK'
  BY <1>1, <1>3, <1>4, <1>5, <1>6, <1>7, <1>8 DEF TypeOK
<1> QED BY <1>1, <1>9 DEF Wired, AllFit

\* What a closure that is asked for does: it fits the context it is given to.
LEMMA TypeGive ==
    ASSUME TypeOK, Wired, NEW c \in Contexts, NEW t \in Closures, Async(c, <<t>>),
           Fits(c, t), UNCHANGED <<subscribers, sticky, batched, events, historyVars>>
    PROVE  tasks' \in Tasks /\ Wired' /\ UNCHANGED historyVars
<1>1. Moves(c, 0, To(c, <<t>>))
  BY GiveMoves
<1>2. AllFit'
  BY <1>1, FitGiven DEF Wired
<1> QED BY <1>1, <1>2 DEF Wired, Moves

LEMMA TypeEmitNow ==
    ASSUME TypeOK, Wired, NEW who \in Makers, EmitEventsNow(who)
    PROVE  TypeOK' /\ Wired'
<1> DEFINE t == [do |-> "emit"]
<1>1. t \in Closures /\ Fits("account", t) /\ "account" \in Contexts
  BY ClosureTypes, Names DEF Fits
<1>2. /\ Async("account", <<t>>)
      /\ emits' = emits \ {who}
      /\ UNCHANGED <<subscribers, sticky, batched, events, table, rows, mined, job,
                     historyVars, boundVars>>
  BY DEF EmitEventsNow
<1> HIDE DEF t
<1>3. tasks' \in Tasks /\ Wired'
  BY <1>1, <1>2, TypeGive
<1> QED BY <1>2, <1>3 DEF TypeOK, Tasks, historyVars, boundVars

LEMMA TypeDelete ==
    ASSUME TypeOK, Wired, NEW o \in Operations, DeleteOperation(o)
    PROVE  TypeOK' /\ Wired'
<1> DEFINE e == Event("DELETED", {<<o, table[o]>>})
           t == Push(e)
<1>1. {<<o, table[o]>>} \in SUBSET Rows
  BY BoundsAssumption DEF TypeOK, DeleteOperation, Rows
<1>2. e \in AllEvents /\ ~IsSticky(e)
  BY <1>1, EventTypes DEF Event, IsSticky
<1>3. t \in Closures /\ Fits("account", t) /\ "account" \in Contexts
  BY <1>2, ClosureTypes, Names DEF Fits, Push
<1>4. /\ Async("account", <<t>>)
      /\ changes < MaxChanges /\ changes' = changes + 1
      /\ table' = [table EXCEPT ![o] = 0]
      /\ UNCHANGED <<subscribers, sticky, batched, events, rows, mined, job, emits,
                     historyVars, calls>>
  BY DEF DeleteOperation
<1> HIDE DEF t
<1>5. tasks' \in Tasks /\ Wired'
  BY <1>3, <1>4, TypeGive
<1>6. changes' \in 0..MaxChanges /\ table' \in [Operations -> 0..MaxRows]
  BY <1>4, BoundsAssumption DEF TypeOK
<1> QED BY <1>4, <1>5, <1>6 DEF TypeOK, Tasks, historyVars

\* The two events of a synchronization.
LEMMA SyncPosts ==
    ASSUME NEW code \in {"STARTED", "OUTCOME"}
    PROVE  LET t == Post("sync", Event(code, {})) IN
           t \in Closures /\ Fits("account", t)
<1>1. Post("sync", Event(code, {})) \in Closures
  BY EventTypes, ClosureTypes, Names
<1>2. ContextOf("sync") = "account"
  BY DEF ContextOf
<1>3. Fits("account", Post("sync", Event(code, {})))
  BY <1>2 DEF Fits, Post, IsSticky, Event
<1> QED BY <1>1, <1>3

LEMMA TypeSynchronize ==
    ASSUME TypeOK, Wired, Synchronize \/ PostOutcome
    PROVE  TypeOK' /\ Wired'
<1>1. PICK code \in {"STARTED", "OUTCOME"} :
        Async("account", <<Post("sync", Event(code, {}))>>)
  BY DEF Synchronize, PostOutcome
<1> DEFINE t == Post("sync", Event(code, {}))
<1>2. /\ job' \in {"none", "running", "ended"}
      /\ UNCHANGED <<subscribers, sticky, batched, events, table, rows, mined, emits,
                     historyVars, boundVars>>
  BY DEF Synchronize, PostOutcome
<1>3. t \in Closures /\ Fits("account", t) /\ "account" \in Contexts
  BY SyncPosts, Names
<1> HIDE DEF t
<1>4. tasks' \in Tasks /\ Wired'
  BY <1>1, <1>2, <1>3, TypeGive DEF t
<1> QED BY <1>2, <1>4 DEF TypeOK, Tasks, historyVars, boundVars

\* The closure of a call of subscribe or unsubscribe.
Asked(do, b, r) == [do |-> do, bus |-> b, receiver |-> r]

LEMMA TypeAsk ==
    ASSUME TypeOK, Wired, NEW r \in Receivers, NEW b \in Listened,
           NEW do \in {"subscribe", "unsubscribe"}, Ask(b, Asked(do, b, r))
    PROVE  TypeOK' /\ Wired'
<1> DEFINE t == Asked(do, b, r)
<1>1. ContextOf(b) \in Contexts /\ b \in Buses /\ r \notin Relays
  BY Names
<1>2. t \in Closures /\ Fits(ContextOf(b), t)
  BY <1>1, ClosureTypes DEF Fits, Asked
<1>3. /\ Async(ContextOf(b), <<t>>)
      /\ calls < MaxCalls /\ calls' = calls + 1
      /\ UNCHANGED <<subscribers, sticky, accountVars, historyVars, changes>>
  BY DEF Ask
<1> HIDE DEF t
<1>4. tasks' \in Tasks /\ Wired'
  BY <1>1, <1>2, <1>3, TypeGive DEF accountVars
<1>5. calls' \in 0..MaxCalls
  BY <1>3, BoundsAssumption DEF TypeOK
<1> QED BY <1>3, <1>4, <1>5 DEF TypeOK, Tasks, accountVars, historyVars

LEMMA Asking ==
    ASSUME NEW r, NEW b, Subscribe(r, b) \/ Unsubscribe(r, b)
    PROVE  \E do \in {"subscribe", "unsubscribe"} : Ask(b, Asked(do, b, r))
BY DEF Subscribe, Unsubscribe, Asked

LEMMA TypeNext == TypeOK /\ Wired /\ [Next]_vars => TypeOK' /\ Wired'
<1> SUFFICES ASSUME TypeOK, Wired, [Next]_vars PROVE TypeOK' /\ Wired'
  OBVIOUS
<1>1. CASE UNCHANGED vars
  BY <1>1 DEF vars, accountVars, historyVars, boundVars, TypeOK, Wired, AllFit
<1>2. ASSUME NEW c \in Contexts, Run(c) PROVE TypeOK' /\ Wired'
  <2>1. PICK i \in Running(c) :
          \/ RunSubscribe(c, i) \/ RunUnsubscribe(c, i) \/ RunRelay(c, i)
          \/ RunPost(c, i) \/ RunOnEvent(c, i) \/ RunRelayed(c, i)
          \/ RunPush(c, i) \/ RunEmit(c, i)
    BY <1>2 DEF Run
  <2> QED BY <2>1, TypeSubscribe, TypeUnsubscribe, TypeRelay, TypePost, TypeOnEvent,
             TypeRelayed, TypePush, TypeEmit
<1>3. ASSUME NEW S \in SUBSET Operations, InsertPage(S) PROVE TypeOK' /\ Wired'
  BY <1>3, TypeInsert DEF InsertPage, Makers
<1>4. ASSUME NEW o \in Operations, OptimisticUpdate(o) PROVE TypeOK' /\ Wired'
  BY <1>4, TypeInsert DEF OptimisticUpdate, Makers
<1>5. ASSUME NEW o \in Operations, DeleteOperation(o) PROVE TypeOK' /\ Wired'
  BY <1>5, TypeDelete
<1>6. ASSUME NEW who \in Makers, EmitEventsNow(who) PROVE TypeOK' /\ Wired'
  BY <1>6, TypeEmitNow
<1>7. CASE Synchronize \/ PostOutcome
  BY <1>7, TypeSynchronize
<1>8. ASSUME NEW r \in Receivers, NEW b \in Listened, Subscribe(r, b) \/ Unsubscribe(r, b)
      PROVE  TypeOK' /\ Wired'
  BY <1>8, Asking, TypeAsk
<1> QED BY <1>1, <1>2, <1>3, <1>4, <1>5, <1>6, <1>7, <1>8 DEF Next

\* Every variable has its type, and every closure waits where it can be run: a
\* relay is only given what its own source posts.
THEOREM TypeCorrect == Spec => [](TypeOK /\ Wired)
<1>1. Init => TypeOK /\ Wired
  BY TypeInit
<1>2. TypeOK /\ Wired /\ [Next]_vars => (TypeOK /\ Wired)'
  BY TypeNext
<1> QED BY <1>1, <1>2, PTL DEF Spec

-----------------------------------------------------------------------------
(* The outcome of a synchronization comes after its start.                 *)

Says(t, do, code) == t.do = do /\ t.event.code = code

\* Before a synchronization there is no outcome.
NoOutcomeYet ==
    job = "none" =>
        /\ \A k \in DOMAIN tasks["account"] : ~Says(tasks["account"][k], "post", "OUTCOME")
        /\ sticky["sync"].code # "OUTCOME"

\* The start is posted first ...
PostsOrdered ==
    \A j, k \in DOMAIN tasks["account"] :
        /\ Says(tasks["account"][j], "post", "STARTED")
        /\ Says(tasks["account"][k], "post", "OUTCOME")
        => j < k

\* ... and run first,
StartFirst ==
    \A k \in DOMAIN tasks["account"] :
        Says(tasks["account"][k], "post", "STARTED") => sticky["sync"].code # "OUTCOME"

\* nobody knows the outcome before it is the bus's sticky event,
Unspoken ==
    sticky["sync"].code # "OUTCOME" =>
        \A r \in Receivers :
            /\ \A k \in DOMAIN tasks[r] : ~Says(tasks[r][k], "onEvent", "OUTCOME")
            /\ \A k \in DOMAIN heard[r] : heard[r][k][2].code # "OUTCOME"

\* and what a receiver will hear after the outcome is not the start.
StillOrdered ==
    \A r \in Receivers :
        /\ \A j, k \in DOMAIN tasks[r] :
             /\ Says(tasks[r][j], "onEvent", "OUTCOME")
             /\ Says(tasks[r][k], "onEvent", "STARTED")
             => k < j
        /\ \A j \in DOMAIN heard[r], k \in DOMAIN tasks[r] :
             heard[r][j][2].code = "OUTCOME" => ~Says(tasks[r][k], "onEvent", "STARTED")
        /\ \A j, k \in DOMAIN heard[r] :
             heard[r][j][2].code = "OUTCOME" /\ heard[r][k][2].code = "STARTED" => k < j

Ordered ==
    /\ NoOutcomeYet
    /\ ~overtaken => PostsOrdered /\ StartFirst /\ Unspoken /\ StillOrdered

LEMMA OrderedInit == Init => Ordered
<1> SUFFICES ASSUME Init PROVE Ordered
  OBVIOUS
<1>1. DOMAIN tasks["account"] = {}
  BY Names, EmptyDomain DEF Init
<1>2. \A r \in Receivers : DOMAIN tasks[r] = {} /\ DOMAIN heard[r] = {}
  BY Names, EmptyDomain DEF Init, Contexts
<1>3. sticky["sync"].code # "OUTCOME"
  BY Names DEF Init, NoEvent, Event
<1> QED BY <1>1, <1>2, <1>3
        DEF Ordered, NoOutcomeYet, PostsOrdered, StartFirst, Unspoken, StillOrdered

\* A closure that tells of the start or the end of a synchronization.
Tells(t) == \E do \in {"post", "onEvent"}, code \in {"STARTED", "OUTCOME"} : Says(t, do, code)

\* A step that tells nobody of a synchronization disturbs nothing.
LEMMA OrderedKept ==
    ASSUME TypeOK, Ordered, NEW c, NEW i \in Nat, NEW given \in Tasks, Moves(c, i, given),
           \A d \in Contexts : \A k \in DOMAIN given[d] : ~Tells(given[d][k]),
           job' = "none" => job = "none",
           UNCHANGED <<sticky, heard, overtaken>>
    PROVE  Ordered'
<1> USE DEF Tells
<1>1. tasks \in Tasks
  BY DEF TypeOK, Tasks
<1>2. ASSUME NEW d \in Contexts, NEW j \in DOMAIN tasks'[d], Tells(tasks'[d][j]),
             NEW k \in DOMAIN tasks'[d], Tells(tasks'[d][k])
      PROVE  \E m, n \in DOMAIN tasks[d] :
               /\ tasks'[d][j] = tasks[d][m] /\ tasks'[d][k] = tasks[d][n]
               /\ m < n <=> j < k
  <2>1. PairOrigin(c, i, given, d, j, k)
    BY <1>1, MovesOrder
  <2>2. \A n \in DOMAIN given[d] : tasks'[d][j] # given[d][n] /\ tasks'[d][k] # given[d][n]
    BY <1>2
  <2> QED BY <2>1, <2>2 DEF PairOrigin
<1>3. "account" \in Contexts /\ \A r \in Receivers : r \in Contexts
  BY DEF Contexts
<1>4. NoOutcomeYet'
  BY <1>2, <1>3 DEF Ordered, NoOutcomeYet
<1>5. ASSUME ~overtaken PROVE PostsOrdered' /\ StartFirst'
  BY <1>2, <1>3, <1>5 DEF Ordered, PostsOrdered, StartFirst
<1>6. ASSUME ~overtaken PROVE Unspoken'
  BY <1>2, <1>3, <1>6 DEF Ordered, Unspoken
<1>7. ASSUME ~overtaken PROVE StillOrdered'
  BY <1>2, <1>3, <1>7 DEF Ordered, StillOrdered
<1> QED BY <1>4, <1>5, <1>6, <1>7 DEF Ordered

\* What is said on the bus of a synchronization, and only there.
LEMMA TellsOnSync ==
    ASSUME Wired, NEW d \in Contexts, NEW k \in DOMAIN tasks[d]
    PROVE  /\ Tells(tasks[d][k]) =>
                /\ tasks[d][k].bus = "sync"
                /\ tasks[d][k].do = "post" => d = "account"
                /\ tasks[d][k].do = "onEvent" => d \in Receivers
           /\ tasks[d][k].do \in {"post", "onEvent"} /\ tasks[d][k].bus = "sync" =>
                Tells(tasks[d][k])
<1>1. Fits(d, tasks[d][k])
  BY DEF Wired, AllFit
<1> QED BY <1>1, Names DEF Fits, Tells, Says, IsSticky, ContextOf

LEMMA OrderedSubscribe ==
    ASSUME TypeOK, Wired, Ordered, NEW c \in Contexts, NEW i \in Running(c),
           RunSubscribe(c, i)
    PROVE  Ordered'
<1> DEFINE b == tasks[c][i].bus
           r == tasks[c][i].receiver
           given == Welcome(b, r)
<1>1. /\ b \in Buses /\ r \in Receivers \cup Relays /\ Moves(c, i, given)
  BY SubscribeMoves
<1>2. UNCHANGED <<sticky, job, heard, overtaken>>
  BY DEF RunSubscribe, accountVars, historyVars
<1>3. /\ tasks \in Tasks /\ i \in Nat
      /\ tasks[c][i].do = "subscribe" /\ i \in DOMAIN tasks[c]
  BY RunningClosure DEF TypeOK, Tasks, RunSubscribe
<1>4. given \in Tasks
  <2>1. ToReceivers({r}, b, sticky[b]) \in Tasks
    BY <1>1, DeliveredType DEF TypeOK
  <2> QED BY <2>1, GivenTypes DEF Welcome
<1>5. \A d \in Contexts : \A k \in DOMAIN given[d] :
        d = r /\ given[d][k] = OnEvent(b, sticky[b]) /\ sticky[b] # NoEvent /\ k = 1
  BY GivenWelcome
<1> HIDE DEF given
<1>6. CASE \A d \in Contexts : \A k \in DOMAIN given[d] : ~Tells(given[d][k])
  BY <1>1, <1>2, <1>3, <1>4, <1>6, OrderedKept
<1>7. ASSUME NEW d \in Contexts, NEW k \in DOMAIN given[d], Tells(given[d][k])
      PROVE  Ordered'
  <2>1. d = r /\ sticky[b] # NoEvent
    BY <1>5
  <2>2. b = "sync" /\ IsSticky(sticky[b])
    BY <1>1, <2>1 DEF Wired
  <2>3. r \in Receivers /\ r \in Contexts /\ r # "account" /\ "account" \in Contexts
    BY <1>1, <1>3, <2>2, Names DEF Wired, AllFit, Fits, Contexts
  <2>4. \A e \in Contexts : \A l \in DOMAIN given[e] :
          e = r /\ given[e][l] = OnEvent("sync", sticky["sync"]) /\ l = 1
    BY <1>5, <2>2
  <2>5. ASSUME NEW e \in Contexts, NEW m \in DOMAIN tasks'[e], NEW n \in DOMAIN tasks'[e]
        PROVE  \/ \E x, y \in DOMAIN tasks[e] :
                    /\ tasks'[e][m] = tasks[e][x] /\ tasks'[e][n] = tasks[e][y]
                    /\ x < y <=> m < n
               \/ /\ e = r /\ m < n /\ tasks'[e][n] = OnEvent("sync", sticky["sync"])
                  /\ \E x \in DOMAIN tasks[e] : tasks'[e][m] = tasks[e][x]
               \/ /\ e = r /\ n < m /\ tasks'[e][m] = OnEvent("sync", sticky["sync"])
                  /\ \E x \in DOMAIN tasks[e] : tasks'[e][n] = tasks[e][x]
               \/ /\ e = r
                  /\ tasks'[e][m] = OnEvent("sync", sticky["sync"])
                  /\ tasks'[e][n] = OnEvent("sync", sticky["sync"])
    <3>1. PairOrigin(c, i, given, e, m, n)
      BY <1>1, <1>3, <1>4, MovesOrder
    <3> QED BY <2>4, <3>1 DEF PairOrigin
  <2>6. \A e \in Receivers : e \in Contexts
    BY DEF Contexts
  <2>7. NoOutcomeYet'
    BY <1>2, <2>3, <2>5 DEF Ordered, NoOutcomeYet
  <2>8. ASSUME ~overtaken PROVE PostsOrdered' /\ StartFirst'
    BY <1>2, <2>3, <2>5, <2>8 DEF Ordered, PostsOrdered, StartFirst
  <2>9. ASSUME ~overtaken PROVE Unspoken'
    BY <1>2, <2>5, <2>6, <2>9 DEF Ordered, Unspoken, Says, OnEvent
  <2>10. ASSUME ~overtaken PROVE StillOrdered'
    <3>1. CASE sticky["sync"].code = "OUTCOME"
      BY <1>2, <2>5, <2>6, <2>10, <3>1 DEF Ordered, StillOrdered, Says, OnEvent
    <3>2. CASE sticky["sync"].code # "OUTCOME"
      BY <1>2, <2>5, <2>6, <2>10, <3>2 DEF Ordered, StillOrdered, Unspoken, Says, OnEvent
    <3> QED BY <3>1, <3>2
  <2> QED BY <1>2, <2>7, <2>8, <2>9, <2>10 DEF Ordered
<1> QED BY <1>6, <1>7

LEMMA OrderedPost ==
    ASSUME TypeOK, Wired, Ordered, NEW c \in Contexts, NEW i \in Running(c), RunPost(c, i)
    PROVE  Ordered'
<1> DEFINE b == tasks[c][i].bus
           e == tasks[c][i].event
           given == ToReceivers(subscribers[b], b, e)
<1>1. /\ b \in Buses /\ e \in AllEvents /\ tasks[c][i] = Post(b, e)
      /\ Moves(c, i, given)
  BY PostMoves
<1>2. /\ sticky' = IF IsSticky(e) THEN [sticky EXCEPT ![b] = e] ELSE sticky
      /\ overtaken' = (overtaken \/ \E j \in 1..(i - 1) :
                          /\ tasks[c][j].do = "post"
                          /\ tasks[c][j].bus = b
                          /\ IsSticky(tasks[c][j].event))
      /\ UNCHANGED <<subscribers, job, heard>>
  BY DEF RunPost, Deliver, accountVars
<1>3. tasks \in Tasks /\ i \in Nat /\ i \in DOMAIN tasks[c] /\ tasks[c][i].do = "post"
  BY RunningClosure DEF TypeOK, Tasks, RunPost
<1>4. given \in Tasks
  BY <1>1, DeliveredType
<1>5. \A d \in Contexts : \A k \in DOMAIN given[d] :
        d \in subscribers[b] /\ given[d][k] = OnEvent(b, e) /\ k = 1
  BY GivenReceivers
<1> HIDE DEF given
<1>6. CASE ~IsSticky(e)
  <2>1. \A d \in Contexts : \A k \in DOMAIN given[d] : ~Tells(given[d][k])
    BY <1>5, <1>6 DEF Tells, Says, OnEvent, IsSticky
  <2>2. UNCHANGED sticky
    BY <1>2, <1>6
  <2>3. CASE overtaken' = overtaken
    BY <1>1, <1>2, <1>3, <1>4, <2>1, <2>2, <2>3, OrderedKept
  <2>4. CASE overtaken' # overtaken
    <3>1. b = "sync"
      BY <1>2, <2>4, <1>3, LenProperties, TellsOnSync DEF TypeOK, Tasks, Wired, AllFit, Fits
    <3> QED BY <1>3, <1>6, <3>1 DEF Wired, AllFit, Fits
  <2> QED BY <2>3, <2>4
<1>7. CASE IsSticky(e)
  <2>1. b = "sync" /\ c = "account" /\ "account" \in Contexts
    BY <1>3, <1>7, Names DEF Wired, AllFit, Fits, ContextOf
  <2>2. /\ Says(tasks["account"][i], "post", e.code) /\ e.code \in {"STARTED", "OUTCOME"}
        /\ i \in DOMAIN tasks["account"]
    BY <1>3, <1>7, <2>1 DEF Says, IsSticky
  <2>3. sticky'["sync"] = e
    BY <1>1, <1>2, <1>7, <2>1 DEF TypeOK
  <2>4. \A d \in Contexts : \A k \in DOMAIN given[d] :
          d \in Receivers /\ given[d][k] = OnEvent("sync", e) /\ k = 1
    BY <1>5, <2>1, Names DEF Wired, TypeOK
  <2>5. ASSUME NEW d \in Contexts, NEW m \in DOMAIN tasks'[d], NEW n \in DOMAIN tasks'[d]
        PROVE  \/ \E x, y \in DOMAIN tasks[d] :
                    /\ tasks'[d][m] = tasks[d][x] /\ tasks'[d][n] = tasks[d][y]
                    /\ d = "account" => x # i /\ y # i
                    /\ x < y <=> m < n
               \/ /\ d \in Receivers /\ m < n /\ tasks'[d][n] = OnEvent("sync", e)
                  /\ \E x \in DOMAIN tasks[d] : tasks'[d][m] = tasks[d][x]
               \/ /\ d \in Receivers /\ n < m /\ tasks'[d][m] = OnEvent("sync", e)
                  /\ \E x \in DOMAIN tasks[d] : tasks'[d][n] = tasks[d][x]
               \/ /\ d \in Receivers
                  /\ tasks'[d][m] = OnEvent("sync", e)
                  /\ tasks'[d][n] = OnEvent("sync", e)
    <3>1. PairOrigin(c, i, given, d, m, n)
      BY <1>1, <1>3, <1>4, MovesOrder
    <3> QED BY <2>1, <2>4, <3>1 DEF PairOrigin
  <2>6. \A d \in Receivers : d \in Contexts /\ d # "account"
    BY Names DEF Contexts
  <2>7. "account" \notin Receivers
    BY Names
  <2>8. NoOutcomeYet'
    BY <1>2, <2>1, <2>2, <2>3, <2>5, <2>7 DEF Ordered, NoOutcomeYet, Says
  <2>9. ASSUME ~overtaken' PROVE PostsOrdered'
    <3>1. ASSUME NEW m \in DOMAIN tasks'["account"], NEW n \in DOMAIN tasks'["account"]
          PROVE  \E x, y \in DOMAIN tasks["account"] :
                    /\ tasks'["account"][m] = tasks["account"][x]
                    /\ tasks'["account"][n] = tasks["account"][y]
                    /\ x < y <=> m < n
      BY <2>1, <2>5, <2>7
    <3>2. PostsOrdered
      BY <1>2, <2>9 DEF Ordered
    <3> QED BY <3>1, <3>2 DEF PostsOrdered
  <2>10. CASE e.code = "OUTCOME"
    <3>1. ASSUME ~overtaken', NEW k \in DOMAIN tasks["account"],
                 Says(tasks["account"][k], "post", "STARTED")
          PROVE  FALSE
      <4>1. k < i /\ k \in Nat /\ 0 < k
        <5>1. k \in 1..Len(tasks["account"]) /\ Len(tasks["account"]) \in Nat
          BY <1>3, <2>1, <3>1, LenProperties DEF Tasks
        <5>2. ~overtaken
          BY <1>2, <3>1
        <5>3. k < i
          BY <2>2, <2>10, <3>1, <5>2 DEF Ordered, PostsOrdered
        <5> QED BY <5>1, <5>3
      <4>2. /\ tasks["account"][k].bus = "sync" /\ tasks["account"][k].do = "post"
            /\ IsSticky(tasks["account"][k].event)
        BY <2>1, <3>1, TellsOnSync DEF Tells, Says, IsSticky
      <4>3. k \in 1..(i - 1)
        BY <1>3, <4>1
      <4> QED BY <1>2, <2>1, <3>1, <4>2, <4>3
    <3>2. ASSUME ~overtaken' PROVE StartFirst' /\ Unspoken'
      BY <2>1, <2>3, <2>5, <2>7, <2>10, <3>1, <3>2 DEF StartFirst, Unspoken
    <3>3. ASSUME ~overtaken' PROVE StillOrdered'
      <4> SUFFICES ASSUME NEW r \in Receivers
                   PROVE  /\ \A j, k \in DOMAIN tasks'[r] :
                               /\ Says(tasks'[r][j], "onEvent", "OUTCOME")
                               /\ Says(tasks'[r][k], "onEvent", "STARTED")
                               => k < j
                          /\ \A j \in DOMAIN heard[r], k \in DOMAIN tasks'[r] :
                               heard[r][j][2].code = "OUTCOME" =>
                                 ~Says(tasks'[r][k], "onEvent", "STARTED")
                          /\ \A j, k \in DOMAIN heard[r] :
                               /\ heard[r][j][2].code = "OUTCOME"
                               /\ heard[r][k][2].code = "STARTED"
                               => k < j
        BY <1>2 DEF StillOrdered
      <4>1. StillOrdered
        BY <1>2, <3>3 DEF Ordered
      <4>2. ~Says(OnEvent("sync", e), "onEvent", "STARTED")
        BY <2>10 DEF Says, OnEvent
      <4>3. \A m \in DOMAIN tasks'[r] : Says(tasks'[r][m], "onEvent", "STARTED") =>
              \E x \in DOMAIN tasks[r] : tasks'[r][m] = tasks[r][x]
        BY <2>5, <2>6, <4>2
      <4>4. \A j, k \in DOMAIN tasks'[r] :
              /\ Says(tasks'[r][j], "onEvent", "OUTCOME")
              /\ Says(tasks'[r][k], "onEvent", "STARTED")
              => k < j
        BY <2>5, <2>6, <4>1, <4>2 DEF StillOrdered
      <4> QED BY <4>1, <4>3, <4>4 DEF StillOrdered
    <3> QED BY <2>8, <2>9, <3>2, <3>3 DEF Ordered
  <2>11. CASE e.code = "STARTED"
    <3>1. ASSUME ~overtaken' PROVE Unspoken /\ sticky["sync"].code # "OUTCOME"
      BY <1>2, <2>2, <2>11, <3>1 DEF Ordered, StartFirst
    <3>2. ASSUME ~overtaken' PROVE StartFirst' /\ Unspoken'
      BY <1>2, <2>3, <2>5, <2>6, <2>11, <3>1, <3>2, SMTT(30) DEF StartFirst, Unspoken, Says, OnEvent
    <3>3. ASSUME ~overtaken' PROVE StillOrdered'
      BY <1>2, <2>5, <2>6, <2>11, <3>1, <3>3, SMTT(30) DEF StillOrdered, Unspoken, Says, OnEvent
    <3> QED BY <2>8, <2>9, <3>2, <3>3 DEF Ordered
  <2> QED BY <2>2, <2>10, <2>11
<1> QED BY <1>6, <1>7

LEMMA OrderedOnEvent ==
    ASSUME TypeOK, Wired, Ordered, NEW c \in Contexts, NEW i \in Running(c),
           RunOnEvent(c, i)
    PROVE  Ordered'
<1> DEFINE e == tasks[c][i].event
           x == <<tasks[c][i].bus, e>>
<1>1. Moves(c, i, Nothing) /\ x \in Buses \X AllEvents
  BY OnEventMoves
<1>2. /\ c \in Receivers
      /\ heard' = [heard EXCEPT ![c] = Append(@, x)]
      /\ UNCHANGED <<sticky, job, overtaken>>
      /\ Says(tasks[c][i], "onEvent", e.code)
  BY DEF RunOnEvent, accountVars, Says
<1>3. tasks \in Tasks /\ i \in Nat /\ i \in DOMAIN tasks[c] /\ i = 1
  BY <1>2, RunningClosure, Names DEF TypeOK, Tasks
<1>4. x[2] = e
  OBVIOUS
<1> HIDE DEF x
<1>5. /\ \A r \in Receivers \ {c} : heard'[r] = heard[r]
      /\ \A k \in DOMAIN heard[c] : k \in DOMAIN heard'[c] /\ heard'[c][k] = heard[c][k]
      /\ \A k \in DOMAIN heard'[c] :
           \/ k \in DOMAIN heard[c] /\ heard'[c][k] = heard[c][k]
           \/ heard'[c][k][2] = e /\ \A j \in DOMAIN heard[c] : j < k
  BY <1>1, <1>2, <1>4, HeardMore
<1>6. ASSUME NEW d \in Contexts, NEW m \in DOMAIN tasks'[d], NEW n \in DOMAIN tasks'[d]
      PROVE  \E y, z \in DOMAIN tasks[d] :
               /\ tasks'[d][m] = tasks[d][y] /\ tasks'[d][n] = tasks[d][z]
               /\ d = c => y # i /\ z # i
               /\ y < z <=> m < n
  <2>1. PairOrigin(c, i, Nothing, d, m, n)
    BY <1>1, <1>3, GivenTypes, MovesOrder
  <2>2. DOMAIN Nothing[d] = {}
    BY GivenNothing
  <2> QED BY <2>1, <2>2 DEF PairOrigin
<1>7. /\ \A r \in Receivers : r \in Contexts
      /\ "account" \in Contexts /\ c # "account"
  BY <1>2, Names DEF Contexts
<1>8. NoOutcomeYet'
  BY <1>2, <1>6, <1>7 DEF Ordered, NoOutcomeYet
<1>9. ASSUME ~overtaken PROVE PostsOrdered' /\ StartFirst'
  BY <1>2, <1>6, <1>7, <1>9 DEF Ordered, PostsOrdered, StartFirst
<1>10. ASSUME ~overtaken PROVE Unspoken'
  BY <1>2, <1>3, <1>5, <1>6, <1>7, <1>10 DEF Ordered, Unspoken
<1>11. ASSUME ~overtaken PROVE StillOrdered'
  <2> SUFFICES ASSUME NEW r \in Receivers
               PROVE  /\ \A j, k \in DOMAIN tasks'[r] :
                           /\ Says(tasks'[r][j], "onEvent", "OUTCOME")
                           /\ Says(tasks'[r][k], "onEvent", "STARTED")
                           => k < j
                      /\ \A j \in DOMAIN heard'[r], k \in DOMAIN tasks'[r] :
                           heard'[r][j][2].code = "OUTCOME" =>
                             ~Says(tasks'[r][k], "onEvent", "STARTED")
                      /\ \A j, k \in DOMAIN heard'[r] :
                           heard'[r][j][2].code = "OUTCOME" /\ heard'[r][k][2].code = "STARTED"
                           => k < j
    BY DEF StillOrdered
  <2>1. StillOrdered
    BY <1>11 DEF Ordered
  <2>2. \A j, k \in DOMAIN tasks'[r] :
          /\ Says(tasks'[r][j], "onEvent", "OUTCOME")
          /\ Says(tasks'[r][k], "onEvent", "STARTED")
          => k < j
    BY <1>6, <1>7, <2>1 DEF StillOrdered
  <2>3. CASE r # c
    BY <1>5, <1>6, <1>7, <2>1, <2>2, <2>3 DEF StillOrdered
  <2>4. CASE r = c
    <3>1. ASSUME NEW j \in DOMAIN heard'[c], NEW k \in DOMAIN tasks'[c],
                 heard'[c][j][2].code = "OUTCOME", Says(tasks'[c][k], "onEvent", "STARTED")
          PROVE  FALSE
      <4>1. PICK y \in DOMAIN tasks[c] : tasks'[c][k] = tasks[c][y] /\ y # i
        BY <1>6
      <4>2. CASE j \in DOMAIN heard[c] /\ heard'[c][j] = heard[c][j]
        BY <1>2, <2>1, <3>1, <4>1, <4>2 DEF StillOrdered
      <4>3. CASE heard'[c][j][2] = e
        <5>1. y < i
          BY <1>2, <1>3, <2>1, <3>1, <4>1, <4>3 DEF StillOrdered
        <5>2. y \in Nat /\ 0 < y
          BY <1>3, LenProperties DEF Tasks
        <5> QED BY <1>3, <5>1, <5>2
      <4> QED BY <1>5, <4>2, <4>3
    <3>2. ASSUME NEW j \in DOMAIN heard'[c], NEW k \in DOMAIN heard'[c],
                 heard'[c][j][2].code = "OUTCOME", heard'[c][k][2].code = "STARTED"
          PROVE  k < j
      <4>1. CASE k \in DOMAIN heard[c] /\ heard'[c][k] = heard[c][k]
        BY <1>2, <1>5, <2>1, <3>2, <4>1 DEF StillOrdered
      <4>2. CASE heard'[c][k][2] = e
        BY <1>2, <1>3, <1>5, <2>1, <3>2, <4>2 DEF StillOrdered
      <4> QED BY <1>5, <4>1, <4>2
    <3> QED BY <2>2, <2>4, <3>1, <3>2
  <2> QED BY <2>3, <2>4
<1> QED BY <1>2, <1>8, <1>9, <1>10, <1>11 DEF Ordered

\* One closure that tells nobody is given.
LEMMA OrderedGive ==
    ASSUME TypeOK, Ordered, NEW c, NEW i \in Nat, NEW e \in Contexts, NEW t \in Closures,
           Moves(c, i, To(e, <<t>>)), ~Tells(t), UNCHANGED <<sticky, job, heard, overtaken>>
    PROVE  Ordered'
<1>1. \A d \in Contexts : \A k \in DOMAIN To(e, <<t>>)[d] : ~Tells(To(e, <<t>>)[d][k])
  BY GivenOne
<1>2. To(e, <<t>>) \in Tasks
  BY OneElement, GivenTypes
<1> QED BY <1>1, <1>2, OrderedKept

LEMMA OrderedNothing ==
    ASSUME TypeOK, Ordered, NEW c, NEW i \in Nat, Moves(c, i, Nothing),
           UNCHANGED <<sticky, job, heard, overtaken>>
    PROVE  Ordered'
<1>1. \A d \in Contexts : \A k \in DOMAIN Nothing[d] : ~Tells(Nothing[d][k])
  BY GivenNothing
<1> QED BY <1>1, GivenTypes, OrderedKept

LEMMA OrderedRelay ==
    ASSUME TypeOK, Wired, Ordered, NEW c \in Contexts, NEW i \in Running(c), RunRelay(c, i)
    PROVE  Ordered'
<1>1. c \in Relays
  BY TypeRelay
<1>2. Relaying(c) \in Closures /\ Moves(c, i, To(Source[c], <<Relaying(c)>>))
  BY <1>1, RelayMoves
<1>3. UNCHANGED <<sticky, job, heard, overtaken>>
  BY DEF RunRelay, accountVars, historyVars
<1>4. i \in Nat /\ Source[c] \in Contexts
  BY <1>1, RunningClosure, Names DEF TypeOK, Tasks
<1>5. ~Tells(Relaying(c))
  BY DEF Tells, Says, Relaying
<1> QED BY <1>2, <1>3, <1>4, <1>5, OrderedGive

LEMMA OrderedRelayed ==
    ASSUME TypeOK, Wired, Ordered, NEW c \in Contexts, NEW i \in Running(c),
           RunRelayed(c, i)
    PROVE  Ordered'
<1> DEFINE t == tasks[c][i]
<1>1. /\ c \in Buses /\ t.event \in AllEvents
      /\ Moves(c, i, To(c, <<Post(c, t.event)>>))
  BY RelayedMoves
<1>2. t.do = "onEvent" /\ c \in Relays /\ UNCHANGED <<sticky, job, heard, overtaken>>
  BY DEF RunRelayed, accountVars, historyVars
<1>3. i \in Nat /\ i \in DOMAIN tasks[c]
  BY RunningClosure DEF TypeOK, Tasks
<1>4. ~IsSticky(t.event)
  BY <1>2, <1>3, Names DEF Wired, AllFit, Fits
<1>5. ~Tells(Post(c, t.event)) /\ Post(c, t.event) \in Closures
  BY <1>1, <1>4, ClosureTypes DEF Tells, Says, Post, IsSticky
<1> QED BY <1>1, <1>2, <1>3, <1>5, OrderedGive

LEMMA OrderedEmit ==
    ASSUME TypeOK, Wired, Ordered, NEW c \in Contexts, NEW i \in Running(c), RunEmit(c, i)
    PROVE  Ordered'
<1>1. Moves(c, i, To(c, Emitted)) /\ To(c, Emitted) \in Tasks
  BY EmitMoves, EmittedClosures, GivenTypes
<1>2. UNCHANGED <<sticky, job, heard, overtaken>>
  BY DEF RunEmit, historyVars
<1>3. ASSUME NEW d \in Contexts, NEW k \in DOMAIN To(c, Emitted)[d]
      PROVE  ~Tells(To(c, Emitted)[d][k])
  <2>1. k \in DOMAIN Emitted /\ To(c, Emitted)[d][k] = Emitted[k]
    BY GivenTo
  <2>2. PICK e \in AllEvents : ~IsSticky(e) /\ Emitted[k] = Post("account", e)
    BY <2>1, EmittedPosts
  <2> QED BY <2>1, <2>2 DEF Tells, Says, Post, IsSticky
<1>4. i \in Nat
  BY RunningClosure DEF TypeOK, Tasks
<1> QED BY <1>1, <1>2, <1>3, <1>4, OrderedKept

\* The start and the end of a synchronization are posted behind what waits.
LEMMA OrderedSynchronize ==
    ASSUME TypeOK, Wired, Ordered, Synchronize \/ PostOutcome
    PROVE  Ordered'
<1>1. PICK code \in {"STARTED", "OUTCOME"} :
        /\ Async("account", <<Post("sync", Event(code, {}))>>)
        /\ code = "STARTED" => job = "none"
  BY DEF Synchronize, PostOutcome
<1> DEFINE t == Post("sync", Event(code, {}))
           given == To("account", <<t>>)
<1>2. job' # "none" /\ UNCHANGED <<sticky, heard, overtaken>>
  BY DEF Synchronize, PostOutcome, historyVars
<1>3. t \in Closures /\ "account" \in Contexts /\ "account" \notin Receivers
  BY SyncPosts, Names
<1>4. /\ Says(t, "post", code) /\ ~Says(t, "onEvent", "STARTED")
      /\ ~Says(t, "onEvent", "OUTCOME")
      /\ code = "OUTCOME" => ~Says(t, "post", "STARTED")
      /\ code = "STARTED" => ~Says(t, "post", "OUTCOME")
  BY DEF Says, Post, Event
<1> HIDE DEF t
<1>5. tasks \in Tasks /\ given \in Tasks /\ Moves("account", 0, given)
  BY <1>1, <1>3, GiveMoves, GivenTypes, OneElement DEF TypeOK, Tasks, t
<1>6. \A d \in Contexts : \A k \in DOMAIN given[d] : d = "account" /\ k = 1 /\ given[d][k] = t
  BY <1>3, GivenOne
<1> HIDE DEF given
<1>7. ASSUME NEW d \in Contexts, NEW m \in DOMAIN tasks'[d], NEW n \in DOMAIN tasks'[d]
      PROVE  \/ \E x, y \in DOMAIN tasks[d] :
                  /\ tasks'[d][m] = tasks[d][x] /\ tasks'[d][n] = tasks[d][y]
                  /\ x < y <=> m < n
             \/ /\ d = "account" /\ m < n /\ tasks'[d][n] = t
                /\ \E x \in DOMAIN tasks[d] : tasks'[d][m] = tasks[d][x]
             \/ /\ d = "account" /\ n < m /\ tasks'[d][m] = t
                /\ \E x \in DOMAIN tasks[d] : tasks'[d][n] = tasks[d][x]
             \/ d = "account" /\ tasks'[d][m] = t /\ tasks'[d][n] = t
  <2>1. PairOrigin("account", 0, given, d, m, n)
    BY <1>5, MovesOrder
  <2> QED BY <1>6, <2>1 DEF PairOrigin
<1>8. \A r \in Receivers : r \in Contexts
  BY DEF Contexts
<1>9. NoOutcomeYet'
  BY <1>2 DEF NoOutcomeYet
<1>10. ASSUME ~overtaken PROVE PostsOrdered'
  BY <1>1, <1>3, <1>4, <1>7, <1>10 DEF Ordered, PostsOrdered, NoOutcomeYet
<1>11. ASSUME ~overtaken PROVE StartFirst'
  BY <1>1, <1>2, <1>3, <1>4, <1>7, <1>11 DEF Ordered, StartFirst, NoOutcomeYet
<1>12. ASSUME ~overtaken PROVE Unspoken' /\ StillOrdered'
  BY <1>2, <1>3, <1>7, <1>8, <1>12 DEF Ordered, Unspoken, StillOrdered
<1> QED BY <1>2, <1>9, <1>10, <1>11, <1>12 DEF Ordered

LEMMA OrderedNext == TypeOK /\ Wired /\ Ordered /\ [Next]_vars => Ordered'
<1> SUFFICES ASSUME TypeOK, Wired, Ordered, [Next]_vars PROVE Ordered'
  OBVIOUS
<1>1. CASE UNCHANGED vars
  BY <1>1 DEF vars, accountVars, historyVars, Ordered, NoOutcomeYet, PostsOrdered,
              StartFirst, Unspoken, StillOrdered
<1>2. ASSUME NEW c \in Contexts, Run(c) PROVE Ordered'
  <2>1. PICK i \in Running(c) :
          \/ RunSubscribe(c, i) \/ RunUnsubscribe(c, i) \/ RunRelay(c, i)
          \/ RunPost(c, i) \/ RunOnEvent(c, i) \/ RunRelayed(c, i)
          \/ RunPush(c, i) \/ RunEmit(c, i)
    BY <1>2 DEF Run
  <2>2. i \in Nat
    BY RunningClosure DEF TypeOK, Tasks
  <2>3. CASE RunUnsubscribe(c, i)
    <3>1. Moves(c, i, Nothing) /\ UNCHANGED <<sticky, job, heard, overtaken>>
      BY <2>3, UnsubscribeMoves DEF RunUnsubscribe, accountVars
    <3> QED BY <2>2, <3>1, OrderedNothing
  <2>4. CASE RunPush(c, i)
    <3>1. Moves(c, i, Nothing) /\ UNCHANGED <<sticky, job, heard, overtaken>>
      BY <2>4, PushMoves DEF RunPush, historyVars
    <3> QED BY <2>2, <3>1, OrderedNothing
  <2> QED BY <2>1, <2>3, <2>4, OrderedSubscribe, OrderedRelay, OrderedPost,
             OrderedOnEvent, OrderedRelayed, OrderedEmit
<1>3. ASSUME NEW who, NEW S, BulkInsert(who, S) PROVE Ordered'
  BY <1>3 DEF BulkInsert, Ordered, NoOutcomeYet, PostsOrdered, StartFirst, Unspoken,
              StillOrdered
<1>4. ASSUME NEW S \in SUBSET Operations, InsertPage(S) PROVE Ordered'
  BY <1>3, <1>4 DEF InsertPage
<1>5. ASSUME NEW o \in Operations, OptimisticUpdate(o) PROVE Ordered'
  BY <1>3, <1>5 DEF OptimisticUpdate
<1>6. ASSUME NEW o \in Operations, DeleteOperation(o) PROVE Ordered'
  <2> DEFINE e == Event("DELETED", {<<o, table[o]>>})
             t == Push(e)
  <2>1. {<<o, table[o]>>} \in SUBSET Rows
    BY <1>6, BoundsAssumption DEF TypeOK, DeleteOperation, Rows
  <2>2. t \in Closures /\ "account" \in Contexts
    BY <2>1, EventTypes, ClosureTypes, Names
  <2>3. ~Tells(t)
    BY DEF Tells, Says, Push, Event
  <2>4. Async("account", <<t>>) /\ UNCHANGED <<sticky, job, heard, overtaken>>
    BY <1>6 DEF DeleteOperation, historyVars
  <2> HIDE DEF t
  <2>5. Moves("account", 0, To("account", <<t>>))
    BY <2>2, <2>4, GiveMoves
  <2> QED BY <2>2, <2>3, <2>4, <2>5, OrderedGive
<1>7. ASSUME NEW who \in Makers, EmitEventsNow(who) PROVE Ordered'
  <2> DEFINE t == [do |-> "emit"]
  <2>1. t \in Closures /\ ~Tells(t) /\ "account" \in Contexts
    BY ClosureTypes, Names DEF Tells, Says
  <2>2. Async("account", <<t>>) /\ UNCHANGED <<sticky, job, heard, overtaken>>
    BY <1>7 DEF EmitEventsNow, historyVars
  <2> HIDE DEF t
  <2>3. Moves("account", 0, To("account", <<t>>))
    BY <2>1, <2>2, GiveMoves
  <2> QED BY <2>1, <2>2, <2>3, OrderedGive
<1>8. CASE Synchronize \/ PostOutcome
  BY <1>8, OrderedSynchronize
<1>9. ASSUME NEW r \in Receivers, NEW b \in Listened, Subscribe(r, b) \/ Unsubscribe(r, b)
      PROVE  Ordered'
  <2>1. PICK do \in {"subscribe", "unsubscribe"} : Ask(b, Asked(do, b, r))
    BY <1>9, Asking
  <2> DEFINE t == Asked(do, b, r)
  <2>2. ContextOf(b) \in Contexts /\ b \in Buses
    BY Names
  <2>3. t \in Closures /\ ~Tells(t)
    BY <2>2, ClosureTypes DEF Asked, Tells, Says
  <2>4. Async(ContextOf(b), <<t>>) /\ UNCHANGED <<sticky, job, heard, overtaken>>
    BY <2>1 DEF Ask, accountVars, historyVars
  <2> HIDE DEF t
  <2>5. Moves(ContextOf(b), 0, To(ContextOf(b), <<t>>))
    BY <2>2, <2>3, <2>4, GiveMoves
  <2> QED BY <2>2, <2>3, <2>4, <2>5, OrderedGive
<1> QED BY <1>1, <1>2, <1>4, <1>5, <1>6, <1>7, <1>8, <1>9 DEF Next

\* Nobody is told that a synchronization started after its outcome, unless two
\* threads of the pool exchanged the events.
THEOREM OutcomeComesLast == Spec => []OutcomeIsLast
<1>1. Init => TypeOK /\ Wired /\ Ordered
  BY TypeInit, OrderedInit
<1>2. TypeOK /\ Wired /\ Ordered /\ [Next]_vars => (TypeOK /\ Wired /\ Ordered)'
  BY TypeNext, OrderedNext
<1>3. TypeOK /\ Wired /\ Ordered => OutcomeIsLast
  <2> SUFFICES ASSUME TypeOK, Ordered, ~overtaken, NEW r \in Receivers,
                      NEW j \in DOMAIN heard[r], heard[r][j][2].code = "OUTCOME",
                      NEW k \in j..Len(heard[r]), heard[r][k][2].code = "STARTED"
               PROVE  FALSE
    BY DEF OutcomeIsLast
  <2>1. j \in Nat /\ 0 < j /\ DOMAIN heard[r] = 1..Len(heard[r])
    BY LenProperties DEF TypeOK
  <2>2. k \in DOMAIN heard[r] /\ ~(k < j)
    BY <2>1
  <2> QED BY <2>2 DEF Ordered, StillOrdered
<1> QED BY <1>1, <1>2, <1>3, PTL DEF Spec

-----------------------------------------------------------------------------
(* Who listens when a row is inserted is told of it.                       *)

\* A closure of context c that brings row x to receiver r of bus b.
Brings(c, t, r, b, x) ==
    /\ t.do \in {"post", "onEvent"} /\ t.event.code = "UPDATE" /\ x \in t.event.about
    /\ \/ c = "account" /\ t.do = "post"
       \/ c = "wallet" /\ b \in Relays
       \/ c = "pool" /\ b = "pool"
       \/ c = r /\ t.do = "onEvent" /\ t.bus = b

InBatch(x) == \E k \in DOMAIN batched : x \in batched[k]
WillEmit == emits # {} \/ \E k \in DOMAIN tasks["account"] : tasks["account"][k].do = "emit"
Brought(r, b, x) ==
    \E c \in Contexts : \E k \in DOMAIN tasks[c] : Brings(c, tasks[c][k], r, b, x)

\* The row is in a batch that will be emitted, is brought, or was told.
InGoodHands(r, b, x) ==
    (InBatch(x) /\ WillEmit) \/ Brought(r, b, x) \/ Told(r, b, "UPDATE", {x})

Delivered ==
    \A w \in owed :
        /\ w[2] # "sync"
        /\ \/ <<w[1], w[2]>> \in left
           \/ Reached(w[1], w[2]) /\ InGoodHands(w[1], w[2], w[3])

LEMMA BringKept ==
    ASSUME NEW c, NEW i, NEW given, Moves(c, i, given), NEW r, NEW b, NEW x,
           NEW d \in Contexts, NEW k \in DOMAIN tasks[d], Brings(d, tasks[d][k], r, b, x),
           ~(d = c /\ k = i)
    PROVE  Brought(r, b, x)'
<1>1. PICK j \in DOMAIN tasks'[d] : tasks'[d][j] = tasks[d][k]
  BY DEF Moves
<1> QED BY <1>1 DEF Brought

LEMMA BringGiven ==
    ASSUME NEW c, NEW i, NEW given, Moves(c, i, given), NEW r, NEW b, NEW x,
           NEW d \in Contexts, NEW k \in DOMAIN given[d], Brings(d, given[d][k], r, b, x)
    PROVE  Brought(r, b, x)'
<1>1. PICK j \in DOMAIN tasks'[d] : tasks'[d][j] = given[d][k]
  BY DEF Moves
<1> QED BY <1>1 DEF Brought

LEMMA WillEmitKept ==
    ASSUME WillEmit, NEW c, NEW i, NEW given, Moves(c, i, given), emits \subseteq emits',
           i \in DOMAIN tasks[c] => tasks[c][i].do # "emit"
    PROVE  WillEmit'
<1>1. CASE emits # {}
  BY <1>1 DEF WillEmit
<1>2. ASSUME NEW k \in DOMAIN tasks["account"], tasks["account"][k].do = "emit"
      PROVE  WillEmit'
  <2>1. PICK j \in DOMAIN tasks'["account"] : tasks'["account"][j] = tasks["account"][k]
    BY <1>2, Names DEF Moves
  <2> QED BY <1>2, <2>1 DEF WillEmit
<1> QED BY <1>1, <1>2 DEF WillEmit

\* A step that neither emits nor runs what brings a row.
LEMMA DeliveredKept ==
    ASSUME TypeOK, Delivered, NEW c, NEW i, NEW given, Moves(c, i, given),
           i \in DOMAIN tasks[c] => tasks[c][i].do \notin {"emit", "post", "onEvent"},
           UNCHANGED <<batched, heard, owed, left, subscribers>>, emits \subseteq emits'
    PROVE  Delivered'
<1> SUFFICES ASSUME NEW w \in owed, <<w[1], w[2]>> \notin left
             PROVE  (Reached(w[1], w[2]) /\ InGoodHands(w[1], w[2], w[3]))'
  BY DEF Delivered
<1> DEFINE r == w[1]  b == w[2]  x == w[3]
<1>1. Reached(r, b) /\ InGoodHands(r, b, x)
  BY DEF Delivered
<1>2. Reached(r, b)'
  BY <1>1 DEF Reached
<1>3. CASE InBatch(x) /\ WillEmit
  BY <1>2, <1>3, WillEmitKept DEF InGoodHands, InBatch
<1>4. CASE Brought(r, b, x)
  <2>1. PICK d \in Contexts : \E k \in DOMAIN tasks[d] : Brings(d, tasks[d][k], r, b, x)
    BY <1>4 DEF Brought
  <2>2. PICK k \in DOMAIN tasks[d] : Brings(d, tasks[d][k], r, b, x)
    BY <2>1
  <2>3. ~(d = c /\ k = i)
    BY <2>2 DEF Brings
  <2> QED BY <1>2, <2>2, <2>3, BringKept DEF InGoodHands
<1>5. CASE Told(r, b, "UPDATE", {x})
  BY <1>2, <1>5 DEF InGoodHands, Told
<1> QED BY <1>1, <1>3, <1>4, <1>5 DEF InGoodHands

LEMMA DeliveredSubscribe ==
    ASSUME TypeOK, Delivered, NEW c \in Contexts, NEW i \in Running(c), RunSubscribe(c, i)
    PROVE  Delivered'
<1> DEFINE a == tasks[c][i].bus
           q == tasks[c][i].receiver
<1>1. Moves(c, i, Welcome(a, q)) /\ a \in Buses
  BY SubscribeMoves
<1>2. /\ subscribers' = [subscribers EXCEPT ![a] = @ \cup {q}]
      /\ tasks[c][i].do = "subscribe"
      /\ UNCHANGED <<batched, emits, heard, owed, left>>
  BY DEF RunSubscribe, AddSubscriber, accountVars, historyVars
<1>3. \A b \in Buses : subscribers[b] \subseteq subscribers'[b]
  BY <1>1, <1>2 DEF TypeOK
<1> SUFFICES ASSUME NEW w \in owed, <<w[1], w[2]>> \notin left
             PROVE  (Reached(w[1], w[2]) /\ InGoodHands(w[1], w[2], w[3]))'
  BY <1>2 DEF Delivered
<1> DEFINE r == w[1]  b == w[2]  x == w[3]
<1>4. Reached(r, b) /\ InGoodHands(r, b, x) /\ b \in Buses
  BY DEF Delivered, TypeOK
<1>5. Reached(r, b)'
  <2>1. "account" \in Buses /\ (b \in Relays => "wallet" \in Relays) /\ (b = "pool" => b \in Relays)
    BY <1>4, NamesAssumption DEF Buses
  <2>2. b \in Relays => "wallet" \in Buses
    BY <2>1 DEF Buses
  <2> QED BY <1>3, <1>4, <2>1, <2>2 DEF Reached
<1>6. CASE InBatch(x) /\ WillEmit
  BY <1>1, <1>2, <1>5, <1>6, WillEmitKept DEF InGoodHands, InBatch
<1>7. CASE Brought(r, b, x)
  <2>1. PICK d \in Contexts : \E k \in DOMAIN tasks[d] : Brings(d, tasks[d][k], r, b, x)
    BY <1>7 DEF Brought
  <2>2. PICK k \in DOMAIN tasks[d] : Brings(d, tasks[d][k], r, b, x)
    BY <2>1
  <2>3. ~(d = c /\ k = i)
    BY <1>2, <2>2 DEF Brings
  <2> QED BY <1>1, <1>5, <2>2, <2>3, BringKept DEF InGoodHands
<1>8. CASE Told(r, b, "UPDATE", {x})
  BY <1>2, <1>5, <1>8 DEF InGoodHands, Told
<1> QED BY <1>4, <1>6, <1>7, <1>8 DEF InGoodHands

LEMMA DeliveredUnsubscribe ==
    ASSUME TypeOK, Wired, Delivered, NEW c \in Contexts, NEW i \in Running(c),
           RunUnsubscribe(c, i)
    PROVE  Delivered'
<1> DEFINE a == tasks[c][i].bus
           q == tasks[c][i].receiver
<1>1. Moves(c, i, Nothing) /\ a \in Buses
  BY UnsubscribeMoves
<1>2. /\ subscribers' = [subscribers EXCEPT ![a] = @ \ {q}]
      /\ left' = left \cup {<<q, a>>}
      /\ tasks[c][i].do = "unsubscribe"
      /\ UNCHANGED <<batched, emits, heard, owed>>
  BY DEF RunUnsubscribe, accountVars
<1>3. q \in Receivers
  BY RunningClosure DEF TypeOK, Tasks, RunUnsubscribe, Wired, AllFit, Fits
<1>4. /\ \A b \in Buses : \A d : d \in subscribers[b] /\ <<d, b>> # <<q, a>> => d \in subscribers'[b]
      /\ q # "wallet" /\ q # "pool"
  BY <1>1, <1>2, <1>3, NamesAssumption DEF TypeOK
<1> SUFFICES ASSUME NEW w \in owed, <<w[1], w[2]>> \notin left'
             PROVE  (Reached(w[1], w[2]) /\ InGoodHands(w[1], w[2], w[3]))'
  BY <1>2 DEF Delivered
<1> DEFINE r == w[1]  b == w[2]  x == w[3]
<1>5. Reached(r, b) /\ InGoodHands(r, b, x) /\ b \in Buses /\ <<r, b>> # <<q, a>>
  BY <1>2 DEF Delivered, TypeOK
<1>6. Reached(r, b)'
  <2>1. /\ "account" \in Buses /\ (b \in Relays => "wallet" \in Relays)
        /\ (b = "pool" => b \in Relays)
    BY <1>5, NamesAssumption DEF Buses
  <2>2. b \in Relays => "wallet" \in Buses
    BY <2>1 DEF Buses
  <2> QED BY <1>4, <1>5, <2>1, <2>2 DEF Reached
<1>7. CASE InBatch(x) /\ WillEmit
  BY <1>1, <1>2, <1>6, <1>7, WillEmitKept DEF InGoodHands, InBatch
<1>8. CASE Brought(r, b, x)
  <2>1. PICK d \in Contexts : \E k \in DOMAIN tasks[d] : Brings(d, tasks[d][k], r, b, x)
    BY <1>8 DEF Brought
  <2>2. PICK k \in DOMAIN tasks[d] : Brings(d, tasks[d][k], r, b, x)
    BY <2>1
  <2>3. ~(d = c /\ k = i)
    BY <1>2, <2>2 DEF Brings
  <2> QED BY <1>1, <1>6, <2>2, <2>3, BringKept DEF InGoodHands
<1>9. CASE Told(r, b, "UPDATE", {x})
  BY <1>2, <1>6, <1>9 DEF InGoodHands, Told
<1> QED BY <1>5, <1>7, <1>8, <1>9 DEF InGoodHands

\* A step that runs what brings a row, and brings it further.
LEMMA DeliveredPassed ==
    ASSUME TypeOK, Delivered, NEW c \in Contexts, NEW i, NEW given, Moves(c, i, given),
           i \in DOMAIN tasks[c], tasks[c][i].do # "emit",
           UNCHANGED <<batched, emits, owed, left, subscribers>>,
           \A r \in Receivers, b \in Buses, x \in Rows :
             Told(r, b, "UPDATE", {x}) => Told(r, b, "UPDATE", {x})',
           \A r \in Receivers, b \in Buses \ {"sync"}, x \in Rows :
             Reached(r, b) /\ Brings(c, tasks[c][i], r, b, x) =>
               \/ Told(r, b, "UPDATE", {x})'
               \/ \E d \in Contexts : \E k \in DOMAIN given[d] : Brings(d, given[d][k], r, b, x)
    PROVE  Delivered'
<1> SUFFICES ASSUME NEW w \in owed, <<w[1], w[2]>> \notin left
             PROVE  (Reached(w[1], w[2]) /\ InGoodHands(w[1], w[2], w[3]))'
  BY DEF Delivered
<1> DEFINE r == w[1]  b == w[2]  x == w[3]
<1>1. /\ Reached(r, b) /\ InGoodHands(r, b, x)
      /\ r \in Receivers /\ b \in Buses \ {"sync"} /\ x \in Rows
  BY DEF Delivered, TypeOK
<1> HIDE DEF r, b, x
<1>2. Reached(r, b)'
  BY <1>1 DEF Reached
<1>3. ASSUME InBatch(x), WillEmit PROVE InGoodHands(r, b, x)'
  BY <1>3, WillEmitKept DEF InGoodHands, InBatch
<1>4. ASSUME Brought(r, b, x) PROVE InGoodHands(r, b, x)'
  <2>1. PICK d \in Contexts : \E k \in DOMAIN tasks[d] : Brings(d, tasks[d][k], r, b, x)
    BY <1>4 DEF Brought
  <2>2. PICK k \in DOMAIN tasks[d] : Brings(d, tasks[d][k], r, b, x)
    BY <2>1
  <2>3. CASE d = c /\ k = i
    <3>1. CASE Told(r, b, "UPDATE", {x})'
      BY <3>1 DEF InGoodHands
    <3>2. ASSUME NEW e \in Contexts, NEW l \in DOMAIN given[e],
                 Brings(e, given[e][l], r, b, x)
          PROVE  InGoodHands(r, b, x)'
      BY <3>2, BringGiven DEF InGoodHands
    <3> QED BY <1>1, <2>2, <2>3, <3>1, <3>2
  <2>4. CASE ~(d = c /\ k = i)
    BY <2>2, <2>4, BringKept DEF InGoodHands
  <2> QED BY <2>3, <2>4
<1>5. ASSUME Told(r, b, "UPDATE", {x}) PROVE InGoodHands(r, b, x)'
  BY <1>1, <1>5 DEF InGoodHands
<1>6. InGoodHands(r, b, x)'
  BY <1>1, <1>3, <1>4, <1>5 DEF InGoodHands
<1> QED BY <1>2, <1>6 DEF r, b, x

LEMMA DeliveredPost ==
    ASSUME TypeOK, Wired, Delivered, NEW c \in Contexts, NEW i \in Running(c), RunPost(c, i)
    PROVE  Delivered'
<1> DEFINE a == tasks[c][i].bus
           e == tasks[c][i].event
           given == ToReceivers(subscribers[a], a, e)
<1>1. a \in Buses /\ Moves(c, i, given)
  BY PostMoves
<1>2. /\ tasks[c][i].do = "post"
      /\ UNCHANGED <<batched, emits, heard, owed, left, subscribers>>
  BY DEF RunPost, Deliver, accountVars
<1>3. i \in DOMAIN tasks[c]
  BY RunningClosure DEF TypeOK, Tasks
<1>4. \A d \in Contexts : d \in subscribers[a] =>
        1 \in DOMAIN given[d] /\ given[d][1] = OnEvent(a, e)
  BY GivenReceivers
<1> HIDE DEF given
<1>5. ASSUME NEW r \in Receivers, NEW b \in Buses \ {"sync"}, NEW x \in Rows,
             Reached(r, b), Brings(c, tasks[c][i], r, b, x)
      PROVE  \E d \in Contexts : \E k \in DOMAIN given[d] : Brings(d, given[d][k], r, b, x)
  <2>1. a = c /\ e.code = "UPDATE" /\ x \in e.about
    BY <1>1, <1>2, <1>3, <1>5, Names DEF Wired, AllFit, Fits, Brings, IsSticky
  <2>2. PICK d \in Contexts : d \in subscribers[a] /\ Brings(d, OnEvent(a, e), r, b, x)
    <3>1. CASE b = c
      <4>1. r \in Contexts /\ r \in subscribers[a]
        BY <1>5, <2>1, <3>1 DEF Reached, Contexts
      <4>2. Brings(r, OnEvent(a, e), r, b, x)
        BY <2>1, <3>1 DEF Brings, OnEvent
      <4> QED BY <4>1, <4>2
    <3>2. CASE c = "account" /\ b # c
      <4>1. b \in Relays /\ "wallet" \in Contexts
        BY <3>2, NamesAssumption DEF Buses, Contexts
      <4>2. "wallet" \in subscribers[a] /\ Brings("wallet", OnEvent(a, e), r, b, x)
        BY <1>5, <2>1, <3>2, <4>1 DEF Reached, Brings, OnEvent
      <4> QED BY <4>1, <4>2
    <3>3. CASE c = "wallet" /\ b # c
      <4>1. b = "pool" /\ "pool" \in Contexts
        BY <1>5, <3>3, NamesAssumption DEF Brings, Buses, Contexts
      <4>2. "pool" \in subscribers[a] /\ Brings("pool", OnEvent(a, e), r, b, x)
        BY <1>5, <2>1, <3>3, <4>1 DEF Reached, Brings, OnEvent
      <4> QED BY <4>1, <4>2
    <3> QED BY <1>2, <1>5, <3>1, <3>2, <3>3 DEF Brings
  <2> QED BY <1>4, <2>2
<1> QED BY <1>1, <1>2, <1>3, <1>5, DeliveredPassed DEF Told

LEMMA DeliveredRelayed ==
    ASSUME TypeOK, Delivered, NEW c \in Contexts, NEW i \in Running(c), RunRelayed(c, i)
    PROVE  Delivered'
<1> DEFINE e == tasks[c][i].event
           given == To(c, <<Post(c, e)>>)
<1>1. Moves(c, i, given)
  BY RelayedMoves
<1>2. /\ tasks[c][i].do = "onEvent" /\ c \in Relays
      /\ UNCHANGED <<batched, emits, heard, owed, left, subscribers>>
  BY DEF RunRelayed, accountVars, historyVars
<1>3. i \in DOMAIN tasks[c]
  BY RunningClosure DEF TypeOK, Tasks
<1>4. given[c] = <<Post(c, e)>> /\ 1 \in DOMAIN given[c] /\ given[c][1] = Post(c, e)
  <2> DEFINE t == Post(c, e)
  <2>1. To(c, <<t>>)[c] = <<t>>
    BY ToGives
  <2> HIDE DEF t
  <2>2. DOMAIN <<t>> = {1} /\ <<t>>[1] = t
    BY OneDomain
  <2> QED BY <2>1, <2>2 DEF t
<1> HIDE DEF given
<1>5. ASSUME NEW r \in Receivers, NEW b \in Buses \ {"sync"}, NEW x \in Rows,
             Reached(r, b), Brings(c, tasks[c][i], r, b, x)
      PROVE  \E d \in Contexts : \E k \in DOMAIN given[d] : Brings(d, given[d][k], r, b, x)
  <2>1. Brings(c, Post(c, e), r, b, x)
    BY <1>2, <1>5, Names DEF Brings, Post
  <2> QED BY <1>4, <2>1
<1> QED BY <1>1, <1>2, <1>3, <1>5, DeliveredPassed DEF Told

LEMMA DeliveredOnEvent ==
    ASSUME TypeOK, Delivered, NEW c \in Contexts, NEW i \in Running(c), RunOnEvent(c, i)
    PROVE  Delivered'
<1> DEFINE e == tasks[c][i].event
           p == <<tasks[c][i].bus, e>>
<1>1. Moves(c, i, Nothing) /\ p \in Buses \X AllEvents
  BY OnEventMoves
<1>2. /\ tasks[c][i].do = "onEvent" /\ c \in Receivers
      /\ heard' = [heard EXCEPT ![c] = Append(@, p)]
      /\ UNCHANGED <<batched, emits, owed, left, subscribers>>
  BY DEF RunOnEvent, accountVars
<1>3. i \in DOMAIN tasks[c]
  BY RunningClosure DEF TypeOK, Tasks
<1>4. p[1] = tasks[c][i].bus /\ p[2] = e
  OBVIOUS
<1> HIDE DEF p
<1>5. /\ \A r \in Receivers : \A k \in DOMAIN heard[r] :
           k \in DOMAIN heard'[r] /\ heard'[r][k] = heard[r][k]
      /\ \E k \in DOMAIN heard'[c] : heard'[c][k] = p
  <2>1. /\ \A r \in Receivers \ {c} : heard'[r] = heard[r]
        /\ \A k \in DOMAIN heard[c] : k \in DOMAIN heard'[c] /\ heard'[c][k] = heard[c][k]
        /\ \E k \in DOMAIN heard'[c] : heard'[c][k] = p
    BY <1>1, <1>2, HeardMore
  <2> QED BY <2>1
<1>6. ASSUME NEW r \in Receivers, NEW b \in Buses, NEW x \in Rows, Told(r, b, "UPDATE", {x})
      PROVE  Told(r, b, "UPDATE", {x})'
  BY <1>5, <1>6 DEF Told
<1>7. ASSUME NEW r \in Receivers, NEW b \in Buses \ {"sync"}, NEW x \in Rows,
             Brings(c, tasks[c][i], r, b, x)
      PROVE  Told(r, b, "UPDATE", {x})'
  <2>1. c = r /\ tasks[c][i].bus = b /\ e.code = "UPDATE" /\ {x} \subseteq e.about
    BY <1>2, <1>7, NamesAssumption DEF Brings
  <2> QED BY <1>4, <1>5, <2>1 DEF Told
<1> QED BY <1>1, <1>2, <1>3, <1>6, <1>7, DeliveredPassed

LEMMA DeliveredEmit ==
    ASSUME TypeOK, Wired, Delivered, NEW c \in Contexts, NEW i \in Running(c), RunEmit(c, i)
    PROVE  Delivered'
<1>1. Moves(c, i, To(c, Emitted)) /\ c = "account"
  BY EmitMoves, TypeEmit
<1>2. /\ tasks[c][i].do = "emit"
      /\ UNCHANGED <<heard, owed, left, subscribers>>
  BY DEF RunEmit, historyVars
<1> SUFFICES ASSUME NEW w \in owed, <<w[1], w[2]>> \notin left
             PROVE  (Reached(w[1], w[2]) /\ InGoodHands(w[1], w[2], w[3]))'
  BY <1>2 DEF Delivered
<1> DEFINE r == w[1]  b == w[2]  x == w[3]
<1>3. Reached(r, b) /\ InGoodHands(r, b, x)
  BY DEF Delivered
<1>4. Reached(r, b)'
  BY <1>2, <1>3 DEF Reached
<1>5. CASE InBatch(x)
  <2>1. PICK k \in DOMAIN batched : x \in batched[k]
    BY <1>5 DEF InBatch
  <2>2. PICK j \in DOMAIN Emitted : Emitted[j] = Post("account", Event("UPDATE", batched[k]))
    BY EmittedClosures
  <2>3. j \in DOMAIN To(c, Emitted)[c] /\ To(c, Emitted)[c][j] = Emitted[j]
    BY ToGives
  <2>4. Brings(c, Post("account", Event("UPDATE", batched[k])), r, b, x)
    BY <1>1, <2>1 DEF Brings, Post, Event
  <2> QED BY <1>1, <1>4, <2>2, <2>3, <2>4, BringGiven DEF InGoodHands
<1>6. CASE Brought(r, b, x)
  <2>1. PICK d \in Contexts : \E k \in DOMAIN tasks[d] : Brings(d, tasks[d][k], r, b, x)
    BY <1>6 DEF Brought
  <2>2. PICK k \in DOMAIN tasks[d] : Brings(d, tasks[d][k], r, b, x)
    BY <2>1
  <2>3. ~(d = c /\ k = i)
    BY <1>2, <2>2 DEF Brings
  <2> QED BY <1>1, <1>4, <2>2, <2>3, BringKept DEF InGoodHands
<1>7. CASE Told(r, b, "UPDATE", {x})
  BY <1>2, <1>4, <1>7 DEF InGoodHands, Told
<1> QED BY <1>3, <1>5, <1>6, <1>7 DEF InGoodHands

\* Rows that are inserted are in a batch, and who inserted them will emit it.
LEMMA DeliveredInsert ==
    ASSUME TypeOK, Delivered, NEW who \in Makers, NEW S \in SUBSET Operations,
           BulkInsert(who, S)
    PROVE  Delivered'
<1>1. /\ owed' = owed \cup Owed(S)
      /\ emits' = emits \cup {who}
      /\ UNCHANGED <<tasks, subscribers, heard, left>>
  BY DEF BulkInsert
<1> DEFINE N == New(S)
<1>2. N \in SUBSET Rows
  BY NewRows DEF BulkInsert
<1>3. batched' = IF batched = <<>> THEN <<N>> ELSE <<batched[1] \cup N>>
  BY DEF BulkInsert, Batch
<1>4. /\ \A w \in Owed(S) : /\ Reached(w[1], w[2]) /\ w[3] \in N /\ w[2] # "sync"
  BY OwedRows
<1> HIDE DEF N
<1>5. /\ DOMAIN batched' = {1} /\ N \subseteq batched'[1]
      /\ \A k \in DOMAIN batched : batched[k] \subseteq batched'[1]
  BY <1>2, <1>3, BatchHolds
<1>6. WillEmit'
  BY <1>1 DEF WillEmit
<1>7. \A r, b : Reached(r, b) => Reached(r, b)'
  BY <1>1 DEF Reached
<1>8. ASSUME NEW w \in Owed(S)
      PROVE  w[2] # "sync" /\ (Reached(w[1], w[2]) /\ InGoodHands(w[1], w[2], w[3]))'
  <2>1. InBatch(w[3])'
    BY <1>4, <1>5 DEF InBatch
  <2> QED BY <1>4, <1>6, <1>7, <2>1 DEF InGoodHands
<1>9. ASSUME NEW w \in owed, <<w[1], w[2]>> \notin left
      PROVE  (Reached(w[1], w[2]) /\ InGoodHands(w[1], w[2], w[3]))'
  <2>1. Reached(w[1], w[2]) /\ InGoodHands(w[1], w[2], w[3])
    BY <1>9 DEF Delivered
  <2>2. InBatch(w[3]) => InBatch(w[3])'
    BY <1>5 DEF InBatch
  <2>3. Brought(w[1], w[2], w[3]) => Brought(w[1], w[2], w[3])'
    BY <1>1 DEF Brought
  <2>4. Told(w[1], w[2], "UPDATE", {w[3]}) => Told(w[1], w[2], "UPDATE", {w[3]})'
    BY <1>1 DEF Told
  <2> QED BY <1>6, <1>7, <2>1, <2>2, <2>3, <2>4 DEF InGoodHands
<1> QED BY <1>1, <1>8, <1>9 DEF Delivered

\* A step that only gives a closure.
LEMMA DeliveredGive ==
    ASSUME TypeOK, Delivered, NEW e \in Contexts, NEW t \in Closures, Async(e, <<t>>),
           UNCHANGED <<batched, heard, owed, left, subscribers>>, emits \subseteq emits'
    PROVE  Delivered'
<1>1. Moves(e, 0, To(e, <<t>>))
  BY GiveMoves
<1>2. 0 \notin DOMAIN tasks[e]
  BY LenProperties DEF TypeOK
<1> QED BY <1>1, <1>2, DeliveredKept

LEMMA DeliveredEmitNow ==
    ASSUME TypeOK, Delivered, NEW who \in Makers, EmitEventsNow(who)
    PROVE  Delivered'
<1> DEFINE t == [do |-> "emit"]
<1>1. t \in Closures /\ "account" \in Contexts /\ t.do = "emit"
  BY ClosureTypes, Names
<1>2. Async("account", <<t>>) /\ UNCHANGED <<batched, heard, owed, left, subscribers>>
  BY DEF EmitEventsNow, historyVars
<1> HIDE DEF t
<1>3. Moves("account", 0, To("account", <<t>>)) /\ 0 \notin DOMAIN tasks["account"]
  BY <1>1, <1>2, GiveMoves, LenProperties DEF TypeOK
<1>4. WillEmit'
  <2>1. To("account", <<t>>)["account"] = <<t>> /\ DOMAIN <<t>> = {1} /\ <<t>>[1] = t
    BY <1>1, ToGives, OneDomain
  <2>2. \E j \in DOMAIN tasks'["account"] : tasks'["account"][j] = t
    BY <1>1, <1>3, <2>1 DEF Moves
  <2> QED BY <1>1, <2>2 DEF WillEmit
<1> SUFFICES ASSUME NEW w \in owed, <<w[1], w[2]>> \notin left
             PROVE  (Reached(w[1], w[2]) /\ InGoodHands(w[1], w[2], w[3]))'
  BY <1>2 DEF Delivered
<1> DEFINE r == w[1]  b == w[2]  x == w[3]
<1>5. Reached(r, b) /\ InGoodHands(r, b, x)
  BY DEF Delivered
<1>6. Reached(r, b)'
  BY <1>2, <1>5 DEF Reached
<1>7. CASE InBatch(x)
  BY <1>2, <1>4, <1>6, <1>7 DEF InGoodHands, InBatch
<1>8. CASE Brought(r, b, x)
  <2>1. PICK d \in Contexts : \E k \in DOMAIN tasks[d] : Brings(d, tasks[d][k], r, b, x)
    BY <1>8 DEF Brought
  <2>2. PICK k \in DOMAIN tasks[d] : Brings(d, tasks[d][k], r, b, x)
    BY <2>1
  <2>3. ~(d = "account" /\ k = 0)
    BY <1>3
  <2> QED BY <1>3, <1>6, <2>2, <2>3, BringKept DEF InGoodHands
<1>9. CASE Told(r, b, "UPDATE", {x})
  BY <1>2, <1>6, <1>9 DEF InGoodHands, Told
<1> QED BY <1>5, <1>7, <1>8, <1>9 DEF InGoodHands

LEMMA DeliveredNext == TypeOK /\ Wired /\ Delivered /\ [Next]_vars => Delivered'
<1> SUFFICES ASSUME TypeOK, Wired, Delivered, [Next]_vars PROVE Delivered'
  OBVIOUS
<1>1. CASE UNCHANGED vars
  BY <1>1, ZenonT(30)
     DEF vars, accountVars, historyVars, Delivered, Reached, InGoodHands, InBatch,
         WillEmit, Brought, Told
<1>2. ASSUME NEW c \in Contexts, Run(c) PROVE Delivered'
  <2>1. PICK i \in Running(c) :
          \/ RunSubscribe(c, i) \/ RunUnsubscribe(c, i) \/ RunRelay(c, i)
          \/ RunPost(c, i) \/ RunOnEvent(c, i) \/ RunRelayed(c, i)
          \/ RunPush(c, i) \/ RunEmit(c, i)
    BY <1>2 DEF Run
  <2>2. CASE RunRelay(c, i)
    <3>1. c \in Relays
      BY <2>2, TypeRelay
    <3>2. Moves(c, i, To(Source[c], <<Relaying(c)>>))
      BY <2>2, <3>1, RelayMoves
    <3>3. /\ tasks[c][i].do = "relay"
          /\ UNCHANGED <<batched, emits, heard, owed, left, subscribers>>
      BY <2>2 DEF RunRelay, accountVars, historyVars
    <3> QED BY <3>2, <3>3, DeliveredKept
  <2>3. CASE RunPush(c, i)
    <3>1. /\ Moves(c, i, Nothing) /\ tasks[c][i].do = "push"
          /\ UNCHANGED <<batched, emits, heard, owed, left, subscribers>>
      BY <2>3, PushMoves DEF RunPush, historyVars
    <3> QED BY <3>1, DeliveredKept
  <2> QED BY <2>1, <2>2, <2>3, DeliveredSubscribe, DeliveredUnsubscribe, DeliveredPost,
             DeliveredOnEvent, DeliveredRelayed, DeliveredEmit
<1>3. ASSUME NEW S \in SUBSET Operations, InsertPage(S) PROVE Delivered'
  BY <1>3, DeliveredInsert DEF InsertPage, Makers
<1>4. ASSUME NEW o \in Operations, OptimisticUpdate(o) PROVE Delivered'
  BY <1>4, DeliveredInsert DEF OptimisticUpdate, Makers
<1>5. ASSUME NEW o \in Operations, DeleteOperation(o) PROVE Delivered'
  <2> DEFINE t == Push(Event("DELETED", {<<o, table[o]>>}))
  <2>1. {<<o, table[o]>>} \in SUBSET Rows
    BY <1>5, BoundsAssumption DEF TypeOK, DeleteOperation, Rows
  <2>2. t \in Closures /\ "account" \in Contexts
    BY <2>1, EventTypes, ClosureTypes, Names
  <2>3. Async("account", <<t>>) /\ UNCHANGED <<batched, emits, heard, owed, left, subscribers>>
    BY <1>5 DEF DeleteOperation, historyVars
  <2> QED BY <2>2, <2>3, DeliveredGive
<1>6. ASSUME NEW who \in Makers, EmitEventsNow(who) PROVE Delivered'
  BY <1>6, DeliveredEmitNow
<1>7. CASE Synchronize \/ PostOutcome
  <2>1. PICK code \in {"STARTED", "OUTCOME"} :
          Async("account", <<Post("sync", Event(code, {}))>>)
    BY <1>7 DEF Synchronize, PostOutcome
  <2>2. UNCHANGED <<batched, emits, heard, owed, left, subscribers>>
    BY <1>7 DEF Synchronize, PostOutcome, historyVars
  <2>3. Post("sync", Event(code, {})) \in Closures /\ "account" \in Contexts
    BY SyncPosts, Names
  <2> QED BY <2>1, <2>2, <2>3, DeliveredGive
<1>8. ASSUME NEW r \in Receivers, NEW b \in Listened, Subscribe(r, b) \/ Unsubscribe(r, b)
      PROVE  Delivered'
  <2>1. PICK do \in {"subscribe", "unsubscribe"} : Ask(b, Asked(do, b, r))
    BY <1>8, Asking
  <2>2. ContextOf(b) \in Contexts /\ b \in Buses
    BY Names
  <2>3. Asked(do, b, r) \in Closures
    BY <2>2, ClosureTypes DEF Asked
  <2>4. /\ Async(ContextOf(b), <<Asked(do, b, r)>>)
        /\ UNCHANGED <<batched, emits, heard, owed, left, subscribers>>
    BY <2>1 DEF Ask, accountVars, historyVars
  <2> QED BY <2>2, <2>3, <2>4, DeliveredGive
<1> QED BY <1>1, <1>2, <1>3, <1>4, <1>5, <1>6, <1>7, <1>8 DEF Next

\* Who listens when a row is inserted, at the account or behind its relays, has
\* been told of it when nothing is on its way.
THEOREM RowsAreTold == Spec => []RowsTold
<1>1. Init => TypeOK /\ Wired /\ Delivered
  BY TypeInit DEF Init, Delivered
<1>2. TypeOK /\ Wired /\ Delivered /\ [Next]_vars => (TypeOK /\ Wired /\ Delivered)'
  BY TypeNext, DeliveredNext
<1>3. Delivered => RowsTold
  <2> SUFFICES ASSUME Delivered, Quiet, NEW w \in owed, <<w[1], w[2]>> \notin left
               PROVE  Told(w[1], w[2], "UPDATE", {w[3]})
    BY DEF RowsTold
  <2>1. \A c \in Contexts : DOMAIN tasks[c] = {}
    BY EmptyDomain DEF Quiet
  <2>2. ~WillEmit /\ ~Brought(w[1], w[2], w[3])
    BY <2>1, Names DEF Quiet, WillEmit, Brought
  <2> QED BY <2>2 DEF Delivered, InGoodHands
<1> QED BY <1>1, <1>2, <1>3, PTL DEF Spec

=============================================================================
