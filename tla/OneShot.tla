------------------------------- MODULE OneShot -------------------------------
(***************************************************************************)
(* What the users of Promise and Future rely on: a result is set once, and *)
(* every registered callback is then given that result, once.  Deffered    *)
(* implements it with a lock, a queue of callbacks and execution contexts. *)
(***************************************************************************)
CONSTANTS Callbacks, Results, NoResult

VARIABLES value,       \* the result, or NoResult
          waiting,     \* the callbacks registered and not called yet
          called       \* the callbacks called with the result

vars == <<value, waiting, called>>

Init ==
    /\ value = NoResult
    /\ waiting = {}
    /\ called = {}

Complete(r) ==
    /\ value = NoResult
    /\ value' = r
    /\ UNCHANGED <<waiting, called>>

Register(cb) ==
    /\ cb \notin waiting \cup called
    /\ waiting' = waiting \cup {cb}
    /\ UNCHANGED <<value, called>>

Call(cb) ==
    /\ value # NoResult
    /\ cb \in waiting
    /\ waiting' = waiting \ {cb}
    /\ called' = called \cup {cb}
    /\ UNCHANGED value

Next ==
    \/ \E r \in Results : Complete(r)
    \/ \E cb \in Callbacks : Register(cb) \/ Call(cb)

Spec == Init /\ [][Next]_vars
=============================================================================
