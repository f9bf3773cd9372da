----------------------------- MODULE RateLimiter -----------------------------
(***************************************************************************)
(* The sliding-window limiter of ratelimit.go, shared by the goroutines of *)
(* all requests: allow, forget, reset and sweep.  allow reads the clock    *)
(* before it takes limiter.mu, so attempts may be decided in another order *)
(* than they were stamped.                                                 *)
(*                                                                         *)
(* l.hits[key], a slice in the order its attempts were appended, is the    *)
(* set of those attempts, and turn[a] says when a was appended; listed is  *)
(* the set of keys that are in the map, with whatever slice.  A step is    *)
(* one critical section of limiter.mu, or one reading of the clock before  *)
(* it.                                                                     *)
(***************************************************************************)
EXTENDS Integers, FiniteSets

CONSTANTS
    Attempt,      \* calls of allow
    Key,          \* addresses or accounts
    Limit,        \* attempts a window holds
    Window,       \* its length, in ticks
    MaxTime       \* bound on the clock

ASSUME LimiterAssumption ==
    /\ IsFiniteSet(Attempt)
    /\ Limit \in Nat \ {0} /\ Window \in Nat \ {0} /\ MaxTime \in Nat

VARIABLES
    clock,        \* time.Now()
    listed,       \* the keys of l.hits
    hits,         \* l.hits: the attempts kept for each key, none if not listed
    turn,         \* when each attempt was appended
    served,       \* how many attempts have been appended
    pc,           \* where each call of allow is
    key,          \* the key it was called with
    stamp,        \* its local `now`
    granted,      \* history: what each key was granted since it was last cleared
    quoted        \* history: the deadline of each key's last refusal, 0 once
                  \* somebody was granted a place or the key was cleared

calls   == <<pc, key, stamp>>
history == <<granted, quoted>>
vars    == <<clock, listed, hits, turn, served, calls, history>>

Init ==
    /\ clock = 0 /\ listed = {}
    /\ hits = [k \in Key |-> {}] /\ turn = [a \in Attempt |-> 0] /\ served = 0
    /\ pc = [a \in Attempt |-> "idle"] /\ key \in [Attempt -> Key]
    /\ stamp = [a \in Attempt |-> 0]
    /\ granted = [k \in Key |-> {}] /\ quoted = [k \in Key |-> 0]

-----------------------------------------------------------------------------
\* MUTANT of Kept: nothing ever leaves the window.
KeptForever(k, t) == hits[k]

\* The attempts at key k that are still in the window of somebody who read t.
Kept(k, t) == {a \in hits[k] : stamp[a] > t - Window}

\* kept[0]: the attempt of S that was appended first.
First(S) == CHOOSE a \in S : \A b \in S : turn[a] <= turn[b]

\* MUTANT of Deadline: the window is counted backwards.
DeadlineBackwards(a) == stamp[a] - Window

\* kept[0].Add(l.window)
Deadline(a) == stamp[a] + Window

\* MUTANT of Full: one too many.
FullTooLate(S) == Cardinality(S) > Limit

Full(S) == Cardinality(S) >= Limit

-----------------------------------------------------------------------------
\* allow, up to the lock: the clock is read.  The bound leaves the last attempt
\* a whole window of time.
Arrive(a) ==
    /\ pc[a] = "idle" /\ clock + Window <= MaxTime
    /\ pc' = [pc EXCEPT ![a] = "stamped"]
    /\ stamp' = [stamp EXCEPT ![a] = clock]
    /\ UNCHANGED <<clock, listed, hits, turn, served, key, history>>

\* MUTANT of Refuse: a refused attempt counts as well.
RefuseRecording(a) ==
    LET k == key[a]
        kept == Kept(k, stamp[a])
    IN  /\ pc[a] = "stamped" /\ Full(kept)
        /\ pc' = [pc EXCEPT ![a] = "refused"]
        /\ hits' = [hits EXCEPT ![k] = kept \cup {a}] /\ listed' = listed \cup {k}
        /\ turn' = [turn EXCEPT ![a] = served + 1] /\ served' = served + 1
        /\ quoted' = [quoted EXCEPT ![k] = Deadline(First(kept))]
        /\ UNCHANGED <<clock, key, stamp, granted>>

\* allow, under the lock, with no place left.
Refuse(a) ==
    LET k == key[a]
        kept == Kept(k, stamp[a])
    IN  /\ pc[a] = "stamped" /\ Full(kept)
        /\ pc' = [pc EXCEPT ![a] = "refused"]
        /\ hits' = [hits EXCEPT ![k] = kept] /\ listed' = listed \cup {k}
        /\ quoted' = [quoted EXCEPT ![k] = Deadline(First(kept))]
        /\ UNCHANGED <<clock, turn, served, key, stamp, granted>>

\* allow, under the lock, with a place left.
Grant(a) ==
    LET k == key[a]
        kept == Kept(k, stamp[a])
    IN  /\ pc[a] = "stamped" /\ ~Full(kept)
        /\ pc' = [pc EXCEPT ![a] = "granted"]
        /\ hits' = [hits EXCEPT ![k] = kept \cup {a}] /\ listed' = listed \cup {k}
        /\ turn' = [turn EXCEPT ![a] = served + 1] /\ served' = served + 1
        /\ granted' = [granted EXCEPT ![k] = @ \cup {a}]
        /\ quoted' = [quoted EXCEPT ![k] = 0]
        /\ UNCHANGED <<clock, key, stamp>>

\* forget: what the attempt was for, a sign-in, succeeded.
Forget(a) ==
    /\ pc[a] = "granted"
    /\ pc' = [pc EXCEPT ![a] = "succeeded"]
    /\ hits' = [hits EXCEPT ![key[a]] = {}] /\ listed' = listed \ {key[a]}
    /\ granted' = [granted EXCEPT ![key[a]] = {}]
    /\ quoted' = [quoted EXCEPT ![key[a]] = 0]
    /\ UNCHANGED <<clock, turn, served, key, stamp>>

\* reset: the operator's.
Reset ==
    /\ hits' = [k \in Key |-> {}] /\ listed' = {}
    /\ granted' = [k \in Key |-> {}] /\ quoted' = [k \in Key |-> 0]
    /\ UNCHANGED <<clock, turn, served, calls>>

\* MUTANT of Sweep: a slice that has become empty is stored, not deleted.
SweepStoringEmpty ==
    /\ hits' = [k \in Key |-> Kept(k, clock)]
    /\ UNCHANGED <<clock, listed, turn, served, calls, history>>

\* One tick of sweep(), which reads the clock under the lock: every slice is pruned,
\* and a key whose slice is then empty is deleted from the map.
Sweep ==
    /\ hits' = [k \in Key |-> Kept(k, clock)]
    /\ listed' = {k \in listed : Kept(k, clock) # {}}
    /\ UNCHANGED <<clock, turn, served, calls, history>>

Tick ==
    /\ clock < MaxTime
    /\ clock' = clock + 1
    /\ UNCHANGED <<listed, hits, turn, served, calls, history>>

Next ==
    \/ \E a \in Attempt : Arrive(a) \/ Refuse(a) \/ Grant(a) \/ Forget(a)
    \/ Reset \/ Sweep \/ Tick

Spec == Init /\ [][Next]_vars

\* Time passes, and sweep's ticker with it.
FairSpec == Spec /\ WF_vars(Tick) /\ WF_vars(Sweep)

-----------------------------------------------------------------------------
TypeOK ==
    /\ clock \in 0..MaxTime
    /\ listed \subseteq Key /\ hits \in [Key -> SUBSET Attempt]
    /\ turn \in [Attempt -> Nat] /\ served \in Nat
    /\ pc \in [Attempt -> {"idle", "stamped", "refused", "granted", "succeeded"}]
    /\ key \in [Attempt -> Key]
    /\ stamp \in [Attempt -> 0..MaxTime]
    /\ granted \in [Key -> SUBSET Attempt]
    /\ quoted \in [Key -> Nat]

Recent(S) == {a \in S : stamp[a] > clock - Window}

\* "No more than N attempts in the last W" (ratelimit.go:13-15), at any moment
\* and per key, although a late attempt may prune with an early clock and an
\* early one with a late clock.
NoMoreThanLimit == \A k \in Key : Cardinality(Recent(granted[k])) <= Limit

\* Whoever waits until the deadline a refusal gave finds a place, unless
\* somebody else took one meanwhile (ratelimit.go:52-72).
WaitingSuffices ==
    \A k \in Key :
        quoted[k] # 0 /\ clock >= quoted[k] => Cardinality(Recent(hits[k])) < Limit

\* An attempt is refused only if Limit others of its key were granted in its
\* window and not forgotten since: a sweep, another key's attempts or refusals
\* never lock anybody out (ratelimit.go:61-73).
RefusedOnlyWhenFull ==
    [][\A a \in Attempt :
        pc[a] = "stamped" /\ pc'[a] = "refused" =>
            LET others == {b \in granted[key[a]] : stamp[b] > stamp[a] - Window}
            IN  Cardinality(others) >= Limit]_vars

\* "keeps the map from growing without bound" (ratelimit.go:29-30): a key nobody
\* uses any more leaves the map itself, its empty slice included.  (Arrive's bound
\* ends the attempts.)
KeysComeFree == \A k \in Key : k \in listed ~> k \notin listed

\* No key stays in the map with an empty slice, and none outside it has attempts: the
\* map is never larger than the number of keys with an attempt on record.
ListedIffUsed == \A k \in Key : k \in listed <=> hits[k] # {}

\* What the limiter promises: nobody can tell that it keeps slices, prunes them
\* with clocks read before the lock, and sweeps them (ratelimit.go:29-91).
Promise == INSTANCE SlidingWindow
KeepsPromise == Promise!Spec

\* To those who only ask it, a limiter is a budget of places, whatever the clocks
\* say (ratelimit.go:52-91): SignIn knows its three limiters as such.
LimiterBudget == INSTANCE Budget WITH
    Caller <- Attempt, places <- hits,
    waiting <- {a \in Attempt : pc[a] \in {"idle", "stamped"}}
KeepsBudget == LimiterBudget!Spec

\* "how long until the oldest attempt in the window expires" (ratelimit.go:52-53):
\* no attempt still in the window expires before the deadline of a refusal.
RefusalNamesTheOldest ==
    [][\A a \in Attempt :
        pc[a] = "stamped" /\ pc'[a] = "refused" =>
            \A b \in hits'[key[a]] : quoted'[key[a]] <= Deadline(b)]_vars

=============================================================================
