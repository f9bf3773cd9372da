---------------------------- MODULE SlidingWindow ----------------------------
(***************************************************************************)
(* What ratelimit.go promises its callers, without slices, pruning, sweeps *)
(* or the order in which the lock was taken: an attempt is granted while   *)
(* fewer than Limit of its key's grants are in the window as it is now,    *)
(* refused while Limit of them are in the window as the attempt saw it,    *)
(* and a refusal names a time at which one of them leaves.                 *)
(***************************************************************************)
EXTENDS Integers, FiniteSets

CONSTANTS Attempt, Key, Limit, Window

VARIABLES
    clock,
    pc, key, stamp,   \* of each attempt: its state, its key, when it arrived
    granted,          \* of each key: what was granted and not cleared since
    quoted            \* of each key: the deadline of its last refusal

promised == <<clock, pc, key, stamp, granted, quoted>>

\* The attempts of S in the window that ends at t.
Within(S, t) == {a \in S : stamp[a] > t - Window}

Init ==
    /\ clock = 0
    /\ pc = [a \in Attempt |-> "idle"] /\ key \in [Attempt -> Key]
    /\ stamp = [a \in Attempt |-> 0]
    /\ granted = [k \in Key |-> {}] /\ quoted = [k \in Key |-> 0]

Arrive(a) ==
    /\ pc[a] = "idle"
    /\ pc' = [pc EXCEPT ![a] = "stamped"]
    /\ stamp' = [stamp EXCEPT ![a] = clock]
    /\ UNCHANGED <<clock, key, granted, quoted>>

Grant(a) ==
    /\ pc[a] = "stamped" /\ Cardinality(Within(granted[key[a]], clock)) < Limit
    /\ pc' = [pc EXCEPT ![a] = "granted"]
    /\ granted' = [granted EXCEPT ![key[a]] = @ \cup {a}]
    /\ quoted' = [quoted EXCEPT ![key[a]] = 0]
    /\ UNCHANGED <<clock, key, stamp>>

\* The attempt that has to leave is still in the window, or there is room by now.
Refuse(a) ==
    LET G == granted[key[a]]
    IN  /\ pc[a] = "stamped" /\ Cardinality(Within(G, stamp[a])) >= Limit
        /\ pc' = [pc EXCEPT ![a] = "refused"]
        /\ \E b \in Within(G, stamp[a]) :
              /\ b \in Within(G, clock) \/ Cardinality(Within(G, clock)) < Limit
              /\ quoted' = [quoted EXCEPT ![key[a]] = stamp[b] + Window]
        /\ UNCHANGED <<clock, key, stamp, granted>>

Forget(a) ==
    /\ pc[a] = "granted"
    /\ pc' = [pc EXCEPT ![a] = "succeeded"]
    /\ granted' = [granted EXCEPT ![key[a]] = {}]
    /\ quoted' = [quoted EXCEPT ![key[a]] = 0]
    /\ UNCHANGED <<clock, key, stamp>>

Reset ==
    /\ granted' = [k \in Key |-> {}] /\ quoted' = [k \in Key |-> 0]
    /\ UNCHANGED <<clock, pc, key, stamp>>

Tick == clock' = clock + 1 /\ UNCHANGED <<pc, key, stamp, granted, quoted>>

Next ==
    \/ \E a \in Attempt : Arrive(a) \/ Grant(a) \/ Refuse(a) \/ Forget(a)
    \/ Reset \/ Tick

Spec == Init /\ [][Next]_promised

=============================================================================
