------------------------------- MODULE Budget -------------------------------
(***************************************************************************)
(* What a limiter is to the code that only asks it: a budget of places per *)
(* key.  A caller asks once and takes a place under one key, while fewer   *)
(* than Limit are taken; otherwise places are only given back, by the      *)
(* window, a success or the operator, at any moment and many at a time.    *)
(***************************************************************************)
EXTENDS Integers, FiniteSets

CONSTANTS Caller, Key, Limit

VARIABLES
    waiting,      \* the callers that may still ask
    places        \* of each key: the callers that hold a place

spent == <<waiting, places>>

Init == waiting = Caller /\ places = [k \in Key |-> {}]

\* Some of the key's places have come free, and one is taken.
Take(c, k) ==
    /\ c \in waiting /\ waiting' = waiting \ {c}
    /\ \E stay \in SUBSET places[k] :
          /\ Cardinality(stay) < Limit
          /\ places' = [places EXCEPT ![k] = stay \cup {c}]

\* Places come free; a caller may have been turned away, or will not ask.
GiveBack ==
    /\ waiting' \subseteq waiting
    /\ places' \in [Key -> SUBSET Caller]
    /\ \A k \in Key : places'[k] \subseteq places[k]

Next == GiveBack \/ \E c \in Caller, k \in Key : Take(c, k)

Spec == Init /\ [][Next]_spent

=============================================================================
