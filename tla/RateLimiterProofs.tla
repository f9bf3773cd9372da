-------------------------- MODULE RateLimiterProofs --------------------------
(***************************************************************************)
(* Theorems about RateLimiter, for any limit, window, keys and attempts.   *)
(***************************************************************************)
EXTENDS RateLimiter, FiniteSetTheorems, TLAPS

-----------------------------------------------------------------------------
(* A slice with an element has a first one.                                *)

LEMMA FirstIsFirst ==
  ASSUME NEW S, S \subseteq Attempt, S # {}, turn \in [Attempt -> Nat]
  PROVE  First(S) \in S /\ \A b \in S : turn[First(S)] <= turn[b]
<1> DEFINE Before(a) == {b \in S : turn[b] < turn[a]}
           T == {Before(a) : a \in S}
<1>1. IsFiniteSet(S)
  BY LimiterAssumption, FS_Subset
<1>2. T \subseteq FiniteSubsetsOf(S) /\ T # {}
  <2>1. FiniteSubsetsOf(S) = SUBSET S
    BY <1>1, FS_FiniteSubsetsOfFinite
  <2>2. \A a \in S : Before(a) \in SUBSET S
    OBVIOUS
  <2> HIDE DEF Before
  <2> QED
    BY <2>1, <2>2
<1> HIDE DEF T
<1>3. \E X \in T : \A Y \in T : <<Y, X>> \notin StrictSubsetOrdering(S)
  BY <1>2, FS_StrictSubsetOrderingWellFounded, WFMin
<1>4. PICK a \in S : \A Y \in T : <<Y, Before(a)>> \notin StrictSubsetOrdering(S)
  BY <1>3 DEF T
<1>5. ASSUME NEW b \in S, turn[b] < turn[a] PROVE FALSE
  <2>1. Before(b) \subseteq Before(a) /\ b \in Before(a) /\ b \notin Before(b)
    BY <1>5
  <2>2. <<Before(b), Before(a)>> \in StrictSubsetOrdering(S)
    BY <2>1 DEF StrictSubsetOrdering
  <2> QED
    BY <1>4, <2>2 DEF T
<1>6. \A b \in S : turn[a] <= turn[b]
  BY <1>5
<1> QED
  BY <1>6 DEF First

\* A full slice is not empty.
LEMMA FullHasFirst == \A S : Full(S) => S # {}
<1>1. Cardinality({}) = 0
  BY FS_EmptySet
<1> QED
  BY <1>1, LimiterAssumption DEF Full

-----------------------------------------------------------------------------
(* Type correctness.                                                       *)

\* Attempts are stamped by a clock that does not go back.
Stamped == \A a \in Attempt : stamp[a] <= clock

LEMMA InitTypeOK == Init => TypeOK /\ Stamped
BY LimiterAssumption DEF Init, TypeOK, Stamped

LEMMA NextTypeOK == TypeOK /\ Stamped /\ [Next]_vars => TypeOK' /\ Stamped'
<1> SUFFICES ASSUME TypeOK, Stamped, [Next]_vars PROVE TypeOK' /\ Stamped'
  OBVIOUS
<1> USE LimiterAssumption DEF TypeOK, Stamped, calls, history
<1>1. ASSUME NEW a \in Attempt, Arrive(a) PROVE TypeOK' /\ Stamped'
  BY <1>1 DEF Arrive
<1>2. ASSUME NEW a \in Attempt, Refuse(a) PROVE TypeOK' /\ Stamped'
  <2> DEFINE kept == Kept(key[a], stamp[a])
  <2>1. kept \subseteq Attempt
    BY DEF Kept
  <2>2. kept # {}
    BY <1>2, FullHasFirst DEF Refuse
  <2>3. Deadline(First(kept)) \in Nat
    BY <2>1, <2>2, FirstIsFirst DEF Deadline
  <2> QED
    BY <1>2, <2>1, <2>3 DEF Refuse
<1>3. ASSUME NEW a \in Attempt, Grant(a) PROVE TypeOK' /\ Stamped'
  BY <1>3 DEF Grant, Kept
<1>4. ASSUME NEW a \in Attempt, Forget(a) PROVE TypeOK' /\ Stamped'
  BY <1>4 DEF Forget
<1>5. CASE Reset
  BY <1>5 DEF Reset
<1>6. CASE Sweep
  BY <1>6 DEF Sweep, Kept
<1>7. CASE Tick
  BY <1>7 DEF Tick
<1>8. CASE UNCHANGED vars
  BY <1>8 DEF vars
<1> QED
  BY <1>1, <1>2, <1>3, <1>4, <1>5, <1>6, <1>7, <1>8 DEF Next

\* Every reachable state of a limiter is well typed; in particular every deadline
\* it quotes is a time, because a full slice has a first element
\* (ratelimit.go:69-72).
THEOREM LimiterTypeCorrect == Spec => []TypeOK
BY InitTypeOK, NextTypeOK, PTL DEF Spec

-----------------------------------------------------------------------------
(* The window holds.  Every granted attempt that some clock still sees in   *)
(* the window is in the slice, because whoever pruned read an earlier       *)
(* clock, and the slice never outgrows the limit.                           *)

SliceFits ==
    \A k \in Key : hits[k] \subseteq granted[k] /\ Cardinality(hits[k]) <= Limit

\* Only attempts that have been stamped are granted.
Arrived == \A k \in Key : \A a \in granted[k] : pc[a] # "idle"

RecentIsKept == \A k \in Key : Recent(granted[k]) \subseteq hits[k]

\* A quoted deadline is some attempt's, and once that attempt is gone from the
\* slice there is room in it.
QuotedIsSound ==
    \A k \in Key : quoted[k] # 0 =>
        \E b \in Attempt : /\ pc[b] # "idle" /\ quoted[k] = Deadline(b)
                           /\ b \in hits[k] \/ Cardinality(hits[k]) < Limit

LimiterInv == TypeOK /\ Stamped /\ SliceFits /\ Arrived /\ RecentIsKept /\ QuotedIsSound

\* Pruning a slice leaves a slice that fits, and less of it if anything went.
LEMMA PruningShrinks ==
  ASSUME TypeOK, NEW k \in Key, NEW S, S \subseteq hits[k]
  PROVE  /\ IsFiniteSet(S) /\ Cardinality(S) \in Nat /\ Cardinality(hits[k]) \in Nat
         /\ Cardinality(S) <= Cardinality(hits[k])
         /\ S # hits[k] => Cardinality(S) < Cardinality(hits[k])
<1>1. IsFiniteSet(hits[k])
  BY LimiterAssumption, FS_Subset DEF TypeOK
<1>2. /\ IsFiniteSet(S) /\ Cardinality(S) <= Cardinality(hits[k])
      /\ Cardinality(hits[k]) = Cardinality(S) => hits[k] = S
  BY <1>1, FS_Subset
<1>3. Cardinality(S) \in Nat /\ Cardinality(hits[k]) \in Nat
  BY <1>1, <1>2, FS_CardinalityType
<1> QED
  BY <1>2, <1>3

LEMMA InitLimiterInv == Init => LimiterInv
<1> SUFFICES ASSUME Init PROVE LimiterInv
  OBVIOUS
<1>1. SliceFits
  BY LimiterAssumption, FS_EmptySet DEF Init, SliceFits
<1>2. Arrived /\ RecentIsKept /\ QuotedIsSound
  BY DEF Init, Arrived, RecentIsKept, Recent, QuotedIsSound
<1> QED
  BY <1>1, <1>2, InitTypeOK DEF LimiterInv

LEMMA NextArrived == TypeOK /\ Arrived /\ [Next]_vars => Arrived'
<1> SUFFICES ASSUME TypeOK, Arrived, [Next]_vars PROVE Arrived'
  OBVIOUS
<1> USE DEF TypeOK, Arrived, calls, history
<1>1. ASSUME NEW a \in Attempt, Arrive(a) \/ Refuse(a) \/ Grant(a) \/ Forget(a) PROVE Arrived'
  BY <1>1 DEF Arrive, Refuse, Grant, Forget
<1>2. CASE Reset \/ Sweep \/ Tick \/ UNCHANGED vars
  BY <1>2 DEF Reset, Sweep, Tick, vars
<1> QED
  BY <1>1, <1>2 DEF Next

LEMMA NextLimiterInv == LimiterInv /\ [Next]_vars => LimiterInv'
<1> SUFFICES ASSUME LimiterInv, [Next]_vars
             PROVE  SliceFits' /\ RecentIsKept' /\ QuotedIsSound'
  BY NextTypeOK, NextArrived DEF LimiterInv
<1> USE LimiterAssumption DEF LimiterInv, calls, history
<1>1. ASSUME NEW a \in Attempt, Arrive(a) PROVE SliceFits' /\ RecentIsKept' /\ QuotedIsSound'
  <2>1. /\ UNCHANGED <<clock, hits, granted, quoted>>
        /\ \A b \in Attempt : pc[b] # "idle" => pc'[b] = pc[b] /\ stamp'[b] = stamp[b]
    BY <1>1 DEF Arrive, TypeOK
  <2>2. SliceFits' /\ RecentIsKept'
    BY <2>1 DEF SliceFits, RecentIsKept, Recent, Arrived, TypeOK
  <2>3. QuotedIsSound'
    BY <2>1 DEF QuotedIsSound, Deadline
  <2> QED
    BY <2>2, <2>3
<1>2. ASSUME NEW a \in Attempt, Refuse(a) PROVE SliceFits' /\ RecentIsKept' /\ QuotedIsSound'
  <2> DEFINE kept == Kept(key[a], stamp[a])
  <2>1. key[a] \in Key /\ stamp[a] <= clock /\ stamp[a] \in Nat /\ clock \in Nat
    BY DEF TypeOK, Stamped
  <2>2. kept \subseteq hits[key[a]] /\ kept # {}
    BY <1>2, FullHasFirst DEF Kept, Refuse
  <2>3. /\ hits' = [hits EXCEPT ![key[a]] = kept]
        /\ quoted' = [quoted EXCEPT ![key[a]] = Deadline(First(kept))]
        /\ UNCHANGED <<clock, granted, stamp>>
        /\ \A b \in Attempt : pc[b] # "idle" => pc'[b] # "idle"
    BY <1>2 DEF Refuse, TypeOK
  <2> HIDE DEF kept
  <2>4. Cardinality(kept) <= Limit
    BY <2>1, <2>2, PruningShrinks DEF SliceFits
  <2>5. SliceFits'
    BY <2>1, <2>2, <2>3, <2>4 DEF SliceFits, TypeOK
  <2>6. RecentIsKept'
    BY <2>1, <2>3 DEF RecentIsKept, Recent, Kept, kept, TypeOK
  <2>7. First(kept) \in kept /\ pc[First(kept)] # "idle"
    BY <2>1, <2>2, FirstIsFirst DEF TypeOK, SliceFits, Arrived
  <2>8. QuotedIsSound'
    BY <2>1, <2>2, <2>3, <2>7 DEF QuotedIsSound, Deadline, TypeOK
  <2> QED
    BY <2>5, <2>6, <2>8
<1>3. ASSUME NEW a \in Attempt, Grant(a) PROVE SliceFits' /\ RecentIsKept' /\ QuotedIsSound'
  <2> DEFINE kept == Kept(key[a], stamp[a])
  <2>1. key[a] \in Key /\ stamp[a] <= clock /\ stamp[a] \in Nat /\ clock \in Nat
    BY DEF TypeOK, Stamped
  <2>2. kept \subseteq hits[key[a]] /\ ~Full(kept)
    BY <1>3 DEF Kept, Grant
  <2>3. /\ hits' = [hits EXCEPT ![key[a]] = kept \cup {a}]
        /\ quoted' = [quoted EXCEPT ![key[a]] = 0]
        /\ granted' = [granted EXCEPT ![key[a]] = @ \cup {a}]
        /\ UNCHANGED <<clock, stamp>>
        /\ \A b \in Attempt : pc[b] # "idle" => pc'[b] # "idle"
    BY <1>3 DEF Grant, TypeOK
  <2> HIDE DEF kept
  <2>4. Cardinality(kept \cup {a}) <= Limit
    <3>1. IsFiniteSet(kept) /\ Cardinality(kept) \in Nat
      BY <2>1, <2>2, PruningShrinks
    <3>2. Cardinality(kept \cup {a}) = IF a \in kept THEN Cardinality(kept)
                                                    ELSE Cardinality(kept) + 1
      BY <3>1, FS_AddElement
    <3>3. Cardinality(kept) < Limit
      BY <2>2, <3>1 DEF Full
    <3> QED
      BY <3>1, <3>2, <3>3
  <2>5. SliceFits'
    BY <2>1, <2>2, <2>3, <2>4 DEF SliceFits, TypeOK
  <2>6. RecentIsKept'
    BY <2>1, <2>3 DEF RecentIsKept, Recent, Kept, kept, TypeOK
  <2>7. QuotedIsSound'
    BY <2>1, <2>3 DEF QuotedIsSound, Deadline, TypeOK
  <2> QED
    BY <2>5, <2>6, <2>7
<1>4. ASSUME NEW a \in Attempt, Forget(a) PROVE SliceFits' /\ RecentIsKept' /\ QuotedIsSound'
  <2>1. SliceFits'
    BY <1>4, FS_EmptySet DEF Forget, SliceFits, TypeOK
  <2>2. RecentIsKept' /\ QuotedIsSound'
    BY <1>4 DEF Forget, RecentIsKept, Recent, QuotedIsSound, Deadline, TypeOK
  <2> QED
    BY <2>1, <2>2
<1>5. CASE Reset
  <2>1. SliceFits'
    BY <1>5, FS_EmptySet DEF Reset, SliceFits, TypeOK
  <2>2. RecentIsKept' /\ QuotedIsSound'
    BY <1>5 DEF Reset, RecentIsKept, Recent, QuotedIsSound, Deadline, TypeOK
  <2> QED
    BY <2>1, <2>2
<1>6. CASE Sweep
  <2>1. /\ hits' = [k \in Key |-> Kept(k, clock)]
        /\ UNCHANGED <<clock, stamp, granted, quoted, pc>>
    BY <1>6 DEF Sweep
  <2>2. ASSUME NEW k \in Key
        PROVE  /\ hits'[k] \subseteq hits[k] /\ Cardinality(hits'[k]) <= Limit
               /\ hits'[k] # hits[k] => Cardinality(hits'[k]) < Limit
               /\ Cardinality(hits[k]) < Limit => Cardinality(hits'[k]) < Limit
    <3>1. hits'[k] = Kept(k, clock) /\ hits'[k] \subseteq hits[k]
      BY <2>1 DEF Kept
    <3> QED
      BY <3>1, PruningShrinks DEF SliceFits
  <2>3. SliceFits'
    BY <2>1, <2>2 DEF SliceFits
  <2>4. RecentIsKept'
    BY <2>1 DEF RecentIsKept, Recent, Kept
  <2>5. QuotedIsSound'
    <3> SUFFICES ASSUME NEW k \in Key, quoted[k] # 0
                 PROVE  \E b \in Attempt : /\ pc[b] # "idle" /\ quoted[k] = Deadline(b)
                                           /\ b \in hits'[k] \/ Cardinality(hits'[k]) < Limit
      BY <2>1 DEF QuotedIsSound, Deadline
    <3>1. PICK b \in Attempt : /\ pc[b] # "idle" /\ quoted[k] = Deadline(b)
                               /\ b \in hits[k] \/ Cardinality(hits[k]) < Limit
      BY DEF QuotedIsSound
    <3> QED
      BY <2>2, <3>1
  <2> QED
    BY <2>3, <2>4, <2>5
<1>7. CASE Tick
  <2>1. SliceFits' /\ QuotedIsSound'
    BY <1>7 DEF Tick, SliceFits, QuotedIsSound, Deadline
  <2>2. RecentIsKept'
    BY <1>7 DEF Tick, RecentIsKept, Recent, TypeOK
  <2> QED
    BY <2>1, <2>2
<1>8. CASE UNCHANGED vars
  BY <1>8 DEF vars, SliceFits, RecentIsKept, Recent, QuotedIsSound, Deadline
<1> QED
  BY <1>1, <1>2, <1>3, <1>4, <1>5, <1>6, <1>7, <1>8 DEF Next

LEMMA LimiterInvHolds == Spec => []LimiterInv
BY InitLimiterInv, NextLimiterInv, PTL DEF Spec

\* "No more than N attempts in the last W" (ratelimit.go:13-15), at every moment,
\* for every key, in whatever order attempts are stamped and decided.
THEOREM WindowHolds == Spec => []NoMoreThanLimit
<1>1. LimiterInv => NoMoreThanLimit
  <2> SUFFICES ASSUME LimiterInv, NEW k \in Key PROVE Cardinality(Recent(granted[k])) <= Limit
    BY DEF NoMoreThanLimit
  <2>1. Recent(granted[k]) \subseteq hits[k] /\ Cardinality(hits[k]) <= Limit
    BY DEF LimiterInv, RecentIsKept, SliceFits
  <2> QED
    BY <2>1, PruningShrinks, LimiterAssumption DEF LimiterInv
<1> QED
  BY <1>1, LimiterInvHolds, PTL

\* Whoever waits until the deadline a refusal gave finds a place, unless somebody
\* else took one meanwhile, although kept[0] need not be the oldest attempt
\* (ratelimit.go:52-72).
THEOREM WaitingIsEnough == Spec => []WaitingSuffices
<1>1. LimiterInv => WaitingSuffices
  <2> SUFFICES ASSUME LimiterInv, NEW k \in Key, quoted[k] # 0, clock >= quoted[k]
               PROVE  Cardinality(Recent(hits[k])) < Limit
    BY DEF WaitingSuffices
  <2>1. PICK b \in Attempt : /\ quoted[k] = Deadline(b)
                             /\ b \in hits[k] \/ Cardinality(hits[k]) < Limit
    BY DEF LimiterInv, QuotedIsSound
  <2>2. b \notin Recent(hits[k])
    BY <2>1, LimiterAssumption DEF Recent, Deadline, LimiterInv, TypeOK
  <2>3. Recent(hits[k]) \subseteq hits[k] /\ Cardinality(hits[k]) <= Limit
    BY DEF Recent, LimiterInv, SliceFits
  <2> QED
    BY <2>1, <2>2, <2>3, PruningShrinks, LimiterAssumption DEF LimiterInv
<1> QED
  BY <1>1, LimiterInvHolds, PTL

\* An attempt is refused only if Limit others of its key were granted in its
\* window and not forgotten since: nobody is locked out by sweeps, refusals or
\* other keys (ratelimit.go:61-73).
THEOREM NoFalseRefusal == Spec => RefusedOnlyWhenFull
<1>1. LimiterInv /\ [Next]_vars =>
        [\A a \in Attempt :
            pc[a] = "stamped" /\ pc'[a] = "refused" =>
                LET others == {b \in granted[key[a]] : stamp[b] > stamp[a] - Window}
                IN  Cardinality(others) >= Limit]_vars
  <2> SUFFICES ASSUME LimiterInv, Next, NEW a \in Attempt,
                      pc[a] = "stamped", pc'[a] = "refused"
               PROVE  Cardinality({b \in granted[key[a]] : stamp[b] > stamp[a] - Window}) >= Limit
    OBVIOUS
  <2> DEFINE others == {b \in granted[key[a]] : stamp[b] > stamp[a] - Window}
             kept == Kept(key[a], stamp[a])
  <2>1. Refuse(a)
    BY DEF Next, Arrive, Refuse, Grant, Forget, Reset, Sweep, Tick, calls, LimiterInv, TypeOK
  <2>2. kept \subseteq others /\ IsFiniteSet(others)
    BY LimiterAssumption, FS_Subset DEF LimiterInv, TypeOK, SliceFits, Kept
  <2>3. Full(kept)
    BY <2>1 DEF Refuse
  <2> HIDE DEF kept, others
  <2>4. Cardinality(kept) <= Cardinality(others)
    BY <2>2, FS_Subset
  <2>5. Cardinality(kept) \in Nat /\ Cardinality(others) \in Nat
    BY <2>2, FS_Subset, FS_CardinalityType
  <2>6. Cardinality(others) >= Limit
    BY <2>3, <2>4, <2>5, LimiterAssumption DEF Full
  <2> QED
    BY <2>6 DEF others
<1> QED
  BY <1>1, LimiterInvHolds, PTL DEF Spec, RefusedOnlyWhenFull

-----------------------------------------------------------------------------
(* The map is no larger than its use.                                      *)

\* A key is in the map exactly while its slice has an attempt: allow stores a slice
\* only with something in it, and sweep and forget delete the key and not only the
\* attempts, so no empty slice piles up (ratelimit.go:29-50, 61-91).
THEOREM NoEmptySlices == Spec => []ListedIffUsed
<1>1. Init => ListedIffUsed
  BY DEF Init, ListedIffUsed
<1>2. TypeOK /\ ListedIffUsed /\ [Next]_vars => ListedIffUsed'
  <2> SUFFICES ASSUME TypeOK, ListedIffUsed, [Next]_vars PROVE ListedIffUsed'
    OBVIOUS
  <2> USE DEF TypeOK, ListedIffUsed, calls, history
  <2>1. ASSUME NEW a \in Attempt, Refuse(a) PROVE ListedIffUsed'
    <3>1. Kept(key[a], stamp[a]) # {}
      BY <2>1, FullHasFirst DEF Refuse
    <3> QED
      BY <2>1, <3>1 DEF Refuse
  <2>2. ASSUME NEW a \in Attempt, Grant(a) PROVE ListedIffUsed'
    BY <2>2 DEF Grant
  <2>3. ASSUME NEW a \in Attempt, Arrive(a) \/ Forget(a) PROVE ListedIffUsed'
    BY <2>3 DEF Arrive, Forget
  <2>4. CASE Sweep
    BY <2>4 DEF Sweep, Kept
  <2>5. CASE Reset \/ Tick \/ UNCHANGED vars
    BY <2>5 DEF Reset, Tick, vars
  <2> QED
    BY <2>1, <2>2, <2>3, <2>4, <2>5 DEF Next
<1> QED
  BY <1>1, <1>2, LimiterTypeCorrect, PTL DEF Spec

-----------------------------------------------------------------------------
(* The limiter keeps its promise.  The window as it is now contains the     *)
(* same grants in the slice and in the promise; the window of somebody with *)
(* an earlier clock may contain fewer in the slice, which is why a grant is *)
(* measured against the one and a refusal against the other.                *)

\* The instances of FiniteSets count alike.
LEMMA SameCardinality ==
  \A S : Promise!Cardinality(S) = Cardinality(S) /\ LimiterBudget!Cardinality(S) = Cardinality(S)
BY DEF Cardinality, Promise!Cardinality, LimiterBudget!Cardinality

\* A slice pruned at t holds all that now's window holds, and nothing that t's does not.
LEMMA KeptBetween ==
  ASSUME LimiterInv, NEW k \in Key, NEW t \in Int, t <= clock
  PROVE  /\ Recent(granted[k]) \subseteq Kept(k, t)
         /\ Kept(k, t) \subseteq Promise!Within(granted[k], t)
         /\ Promise!Within(granted[k], clock) = Recent(granted[k])
         /\ IsFiniteSet(granted[k])
<1> USE DEF LimiterInv, TypeOK
<1>1. Recent(granted[k]) \subseteq Kept(k, t)
  BY LimiterAssumption DEF RecentIsKept, Recent, Kept
<1>2. Kept(k, t) \subseteq Promise!Within(granted[k], t)
  BY DEF SliceFits, Kept, Promise!Within
<1>3. Promise!Within(granted[k], clock) = Recent(granted[k])
  BY DEF Promise!Within, Recent
<1>4. IsFiniteSet(granted[k])
  BY LimiterAssumption, FS_Subset
<1> QED
  BY <1>1, <1>2, <1>3, <1>4

LEMMA GrantIsPromised ==
  ASSUME LimiterInv, NEW a \in Attempt, Grant(a)
  PROVE  Promise!Grant(a)
<1> DEFINE k == key[a]
           kept == Kept(k, stamp[a])
           now == Recent(granted[k])
<1>1. k \in Key /\ stamp[a] \in Int /\ stamp[a] <= clock
  BY DEF LimiterInv, TypeOK, Stamped
<1>2. /\ now \subseteq kept /\ IsFiniteSet(now) /\ IsFiniteSet(kept)
      /\ Promise!Within(granted[k], clock) = now
  <2>1. /\ now \subseteq kept /\ kept \subseteq Promise!Within(granted[k], stamp[a])
        /\ Promise!Within(granted[k], clock) = now /\ IsFiniteSet(granted[k])
    BY <1>1, KeptBetween
  <2>2. kept \subseteq granted[k]
    BY <2>1 DEF Promise!Within
  <2> QED
    BY <2>1, <2>2, FS_Subset
<1>3. Cardinality(kept) < Limit
  <2>1. Cardinality(kept) \in Nat
    BY <1>2, FS_CardinalityType
  <2> QED
    BY <2>1, LimiterAssumption DEF Grant, Full
<1>4. Cardinality(now) < Limit
  <2>1. Cardinality(now) <= Cardinality(kept) /\ Cardinality(kept) \in Nat /\ Cardinality(now) \in Nat
    BY <1>2, FS_Subset, FS_CardinalityType
  <2> QED
    BY <2>1, <1>3, LimiterAssumption
<1>5. Cardinality(Promise!Within(granted[key[a]], clock)) < Limit
  BY <1>2, <1>4
<1> HIDE DEF k, kept, now
<1> QED
  BY <1>5, SameCardinality DEF Grant, Promise!Grant

LEMMA RefuseIsPromised ==
  ASSUME LimiterInv, NEW a \in Attempt, Refuse(a)
  PROVE  Promise!Refuse(a)
<1> DEFINE k == key[a]
           kept == Kept(k, stamp[a])
           seen == Promise!Within(granted[k], stamp[a])
           now == Promise!Within(granted[k], clock)
           b == First(kept)
<1>1. k \in Key /\ stamp[a] \in Int /\ stamp[a] <= clock
  BY DEF LimiterInv, TypeOK, Stamped
<1>2. now \subseteq kept /\ kept \subseteq seen /\ IsFiniteSet(seen)
  <2>1. now \subseteq kept /\ kept \subseteq seen /\ IsFiniteSet(granted[k])
    BY <1>1, KeptBetween
  <2>2. seen \subseteq granted[k]
    BY DEF Promise!Within
  <2> QED
    BY <2>1, <2>2, FS_Subset
<1>3. kept \subseteq hits[k] /\ Full(kept) /\ kept # {}
  BY FullHasFirst DEF Kept, Refuse
<1>4. b \in kept
  BY <1>1, <1>3, FirstIsFirst DEF LimiterInv, TypeOK
<1> HIDE DEF kept, seen, now, b
<1>5. Cardinality(seen) >= Limit
  <2>1. Cardinality(kept) <= Cardinality(seen) /\ Cardinality(kept) \in Nat /\ Cardinality(seen) \in Nat
    BY <1>2, FS_Subset, FS_CardinalityType
  <2> QED
    BY <2>1, <1>3, LimiterAssumption DEF Full
<1>6. ASSUME b \notin now PROVE Cardinality(now) < Limit
  <2>1. now \subseteq hits[k] /\ now # hits[k]
    BY <1>2, <1>3, <1>4, <1>6
  <2>2. Cardinality(now) < Cardinality(hits[k]) /\ Cardinality(now) \in Nat
        /\ Cardinality(hits[k]) \in Nat
    BY <1>1, <2>1, PruningShrinks DEF LimiterInv
  <2>3. Cardinality(hits[k]) <= Limit
    BY <1>1 DEF LimiterInv, SliceFits
  <2> QED
    BY <2>2, <2>3, LimiterAssumption
<1>7. b \in seen /\ quoted' = [quoted EXCEPT ![k] = stamp[b] + Window]
  BY <1>2, <1>4 DEF Refuse, Deadline, kept, b
<1>8. \E c \in seen : /\ c \in now \/ Cardinality(now) < Limit
                      /\ quoted' = [quoted EXCEPT ![k] = stamp[c] + Window]
  BY <1>6, <1>7
<1>9. /\ pc[a] = "stamped" /\ pc' = [pc EXCEPT ![a] = "refused"]
      /\ UNCHANGED <<clock, key, stamp, granted>>
  BY DEF Refuse
<1> QED
  BY <1>5, <1>8, <1>9, SameCardinality DEF Promise!Refuse, seen, now, k

LEMMA NextKeepsPromise == LimiterInv /\ [Next]_vars => [Promise!Next]_(Promise!promised)
<1> SUFFICES ASSUME LimiterInv, [Next]_vars PROVE [Promise!Next]_(Promise!promised)
  OBVIOUS
<1>1. ASSUME NEW a \in Attempt, Arrive(a) PROVE Promise!Next
  BY <1>1 DEF Arrive, history, Promise!Next, Promise!Arrive
<1>2. ASSUME NEW a \in Attempt, Grant(a) PROVE Promise!Next
  BY <1>2, GrantIsPromised DEF Promise!Next
<1>3. ASSUME NEW a \in Attempt, Refuse(a) PROVE Promise!Next
  BY <1>3, RefuseIsPromised DEF Promise!Next
<1>4. ASSUME NEW a \in Attempt, Forget(a) PROVE Promise!Next
  BY <1>4 DEF Forget, Promise!Next, Promise!Forget
<1>5. CASE Reset
  BY <1>5 DEF Reset, calls, Promise!Next, Promise!Reset
<1>6. CASE Tick
  BY <1>6 DEF Tick, calls, history, Promise!Next, Promise!Tick
<1>7. CASE Sweep \/ UNCHANGED vars
  BY <1>7 DEF Sweep, vars, calls, history, Promise!promised
<1> QED
  BY <1>1, <1>2, <1>3, <1>4, <1>5, <1>6, <1>7 DEF Next

\* Nobody can tell that the limiter keeps slices, prunes them with a clock read
\* before the lock and sweeps them: what it grants, refuses and quotes is what the
\* sliding window of all grants allows (ratelimit.go:29-91).
THEOREM LimiterIsASlidingWindow == Spec => KeepsPromise
<1>1. Init => Promise!Init
  BY DEF Init, Promise!Init
<1>2. Spec => Promise!Spec
  BY <1>1, NextKeepsPromise, LimiterInvHolds, PTL DEF Spec, Promise!Spec
<1> QED
  BY <1>2 DEF KeepsPromise

-----------------------------------------------------------------------------
(* What the promise is worth by itself: whatever else a limiter does that   *)
(* keeps it, its window holds and its deadlines can be relied on.           *)

\* Whoever waits until the deadline finds the window with a place in it.
PromisedWait ==
    \A k \in Key : quoted[k] # 0 /\ clock >= quoted[k] => Cardinality(Recent(granted[k])) < Limit

PromiseTypes ==
    /\ clock \in Nat
    /\ pc \in [Attempt -> {"idle", "stamped", "refused", "granted", "succeeded"}]
    /\ key \in [Attempt -> Key] /\ stamp \in [Attempt -> Nat]
    /\ granted \in [Key -> SUBSET Attempt] /\ quoted \in [Key -> Nat]

Fits(k) == Cardinality(Recent(granted[k])) <= Limit

\* A deadline that was quoted is when some attempt leaves, and there is room if it has.
QuoteKept(k) ==
    quoted[k] # 0 =>
        \E b \in Attempt : /\ pc[b] # "idle" /\ quoted[k] = stamp[b] + Window
                           /\ b \in Recent(granted[k]) \/ Cardinality(Recent(granted[k])) < Limit

PromiseInv == PromiseTypes /\ Arrived /\ \A k \in Key : Fits(k) /\ QuoteKept(k)

LEMMA RecentIsFinite ==
  ASSUME PromiseTypes, NEW k \in Key
  PROVE  IsFiniteSet(Recent(granted[k])) /\ Cardinality(Recent(granted[k])) \in Nat
<1>1. Recent(granted[k]) \subseteq Attempt
  BY DEF Recent, PromiseTypes
<1> QED
  BY <1>1, LimiterAssumption, FS_Subset, FS_CardinalityType

LEMMA RecentIsWithin == \A S : Recent(S) = Promise!Within(S, clock)
BY DEF Recent, Promise!Within

LEMMA NextPromiseTypes ==
  ASSUME PromiseTypes, Arrived, [Promise!Next]_(Promise!promised)
  PROVE  PromiseTypes' /\ Arrived'
<1> USE LimiterAssumption DEF PromiseTypes, Arrived
<1>1. ASSUME NEW a \in Attempt, Promise!Arrive(a) \/ Promise!Grant(a) \/ Promise!Forget(a)
      PROVE  PromiseTypes' /\ Arrived'
  BY <1>1 DEF Promise!Arrive, Promise!Grant, Promise!Forget
<1>2. ASSUME NEW a \in Attempt, Promise!Refuse(a) PROVE PromiseTypes' /\ Arrived'
  BY <1>2 DEF Promise!Refuse, Promise!Within
<1>3. CASE Promise!Reset \/ Promise!Tick \/ UNCHANGED Promise!promised
  BY <1>3 DEF Promise!Reset, Promise!Tick, Promise!promised
<1> QED
  BY <1>1, <1>2, <1>3 DEF Promise!Next

\* Of key k nothing is granted, stamped anew or quoted, and time may pass.
LEMMA NothingGranted ==
  ASSUME PromiseInv, NEW k \in Key, granted'[k] = granted[k], clock' \in Nat, clock' >= clock,
         \A b \in granted[k] : stamp'[b] = stamp[b]
  PROVE  /\ Recent(granted[k])' \subseteq Recent(granted[k])
         /\ IsFiniteSet(Recent(granted[k])') /\ Cardinality(Recent(granted[k])') \in Nat
         /\ Cardinality(Recent(granted[k])') <= Cardinality(Recent(granted[k]))
         /\ Recent(granted[k])' # Recent(granted[k])
                => Cardinality(Recent(granted[k])') < Cardinality(Recent(granted[k]))
<1>1. Recent(granted[k])' \subseteq Recent(granted[k])
  BY LimiterAssumption DEF Recent, PromiseInv, PromiseTypes
<1>2. IsFiniteSet(Recent(granted[k])) /\ Cardinality(Recent(granted[k])) \in Nat
  BY RecentIsFinite DEF PromiseInv
<1> DEFINE R == Recent(granted[k])
           RR == Recent(granted[k])'
<1> HIDE DEF R, RR
<1>3. /\ IsFiniteSet(RR) /\ Cardinality(RR) <= Cardinality(R)
      /\ Cardinality(R) = Cardinality(RR) => R = RR
  BY <1>1, <1>2, FS_Subset DEF R, RR
<1>4. Cardinality(RR) \in Nat
  BY <1>3, FS_CardinalityType
<1> QED
  BY <1>1, <1>2, <1>3, <1>4 DEF R, RR

\* A step that grants and quotes nothing of key k.
LEMMA KeepsKey ==
  ASSUME PromiseInv, NEW k \in Key, granted'[k] = granted[k], quoted'[k] = quoted[k],
         clock' \in Nat, clock' >= clock,
         \A b \in Attempt : pc[b] # "idle" => pc'[b] # "idle" /\ stamp'[b] = stamp[b]
  PROVE  Fits(k)' /\ QuoteKept(k)'
<1> DEFINE R == Recent(granted[k])
           RR == Recent(granted[k])'
<1>1. \A b \in granted[k] : stamp'[b] = stamp[b]
  BY DEF PromiseInv, PromiseTypes, Arrived
<1>2. /\ RR \subseteq R /\ Cardinality(RR) \in Nat /\ Cardinality(RR) <= Cardinality(R)
      /\ RR # R => Cardinality(RR) < Cardinality(R)
  BY <1>1, NothingGranted
<1>3. Cardinality(R) <= Limit /\ Cardinality(R) \in Nat /\ Limit \in Nat
  BY RecentIsFinite, LimiterAssumption DEF PromiseInv, Fits
<1>4. quoted[k] # 0 => \E b \in Attempt : /\ pc[b] # "idle" /\ quoted[k] = stamp[b] + Window
                                          /\ b \in R \/ Cardinality(R) < Limit
  BY DEF PromiseInv, QuoteKept
<1> HIDE DEF R, RR
<1>5. Cardinality(RR) <= Limit
  BY <1>2, <1>3
<1>6. quoted'[k] # 0 => \E b \in Attempt : /\ pc'[b] # "idle" /\ quoted'[k] = stamp'[b] + Window
                                           /\ b \in RR \/ Cardinality(RR) < Limit
  <2> SUFFICES ASSUME quoted[k] # 0
               PROVE  \E b \in Attempt : /\ pc'[b] # "idle" /\ quoted'[k] = stamp'[b] + Window
                                         /\ b \in RR \/ Cardinality(RR) < Limit
    OBVIOUS
  <2>1. PICK b \in Attempt : /\ pc[b] # "idle" /\ quoted[k] = stamp[b] + Window
                             /\ b \in R \/ Cardinality(R) < Limit
    BY <1>4
  <2>2. b \in RR \/ Cardinality(RR) < Limit
    BY <1>2, <1>3, <2>1
  <2> QED
    BY <2>1, <2>2
<1> QED
  BY <1>5, <1>6 DEF Fits, QuoteKept, RR

\* A step after which nothing of key k is granted or quoted.
LEMMA ClearsKey ==
  ASSUME NEW k \in Key, granted'[k] = {}, quoted'[k] = 0
  PROVE  Fits(k)' /\ QuoteKept(k)'
<1>1. Recent(granted[k])' = {}
  BY DEF Recent
<1>2. Cardinality(Recent(granted[k])') <= Limit
  BY <1>1, FS_EmptySet, LimiterAssumption
<1> QED
  BY <1>2 DEF Fits, QuoteKept

LEMMA NextPromiseInv ==
  ASSUME PromiseInv, [Promise!Next]_(Promise!promised)
  PROVE  PromiseInv'
<1>t. PromiseTypes /\ PromiseTypes' /\ Arrived'
  BY NextPromiseTypes DEF PromiseInv
<1> SUFFICES ASSUME NEW k \in Key PROVE Fits(k)' /\ QuoteKept(k)'
  BY <1>t DEF PromiseInv
<1>1. ASSUME NEW a \in Attempt, Promise!Arrive(a) PROVE Fits(k)' /\ QuoteKept(k)'
  BY <1>1, <1>t, KeepsKey DEF Promise!Arrive, PromiseTypes
<1>2. ASSUME NEW a \in Attempt, Promise!Grant(a) PROVE Fits(k)' /\ QuoteKept(k)'
  <2>1. CASE k # key[a]
    BY <1>2, <1>t, <2>1, KeepsKey DEF Promise!Grant, PromiseTypes
  <2>2. CASE k = key[a]
    <3> DEFINE R == Recent(granted[k])
    <3>1. IsFiniteSet(R) /\ Cardinality(R) \in Nat /\ Limit \in Nat
      BY <1>t, RecentIsFinite, LimiterAssumption
    <3>2. Cardinality(R) < Limit
      BY <1>2, <2>2, SameCardinality, RecentIsWithin DEF Promise!Grant
    <3>3. Recent(granted[k])' \subseteq R \cup {a} /\ quoted'[k] = 0
      BY <1>2, <1>t, <2>2 DEF Promise!Grant, PromiseTypes, Recent
    <3> HIDE DEF R
    <3>4. IsFiniteSet(R \cup {a}) /\ Cardinality(R \cup {a}) \in Nat
          /\ Cardinality(R \cup {a}) <= Limit
      <4>1. IsFiniteSet(R \cup {a}) /\ Cardinality(R \cup {a}) \in {Cardinality(R), Cardinality(R) + 1}
        BY <3>1, FS_AddElement
      <4> QED
        BY <3>1, <3>2, <4>1
    <3>5. /\ Cardinality(Recent(granted[k])') \in Nat
          /\ Cardinality(Recent(granted[k])') <= Cardinality(R \cup {a})
      BY <3>3, <3>4, FS_Subset, FS_CardinalityType
    <3> QED
      BY <3>1, <3>3, <3>4, <3>5 DEF Fits, QuoteKept
  <2> QED
    BY <2>1, <2>2
<1>3. ASSUME NEW a \in Attempt, Promise!Refuse(a) PROVE Fits(k)' /\ QuoteKept(k)'
  <2>1. CASE k # key[a]
    BY <1>3, <1>t, <2>1, KeepsKey DEF Promise!Refuse, PromiseTypes
  <2>2. CASE k = key[a]
    <3> DEFINE G == granted[k]
    <3>1. PICK b \in Promise!Within(G, stamp[a]) :
            /\ b \in Promise!Within(G, clock) \/ Promise!Cardinality(Promise!Within(G, clock)) < Limit
            /\ quoted' = [quoted EXCEPT ![key[a]] = stamp[b] + Window]
      BY <1>3, <2>2 DEF Promise!Refuse
    <3>2. b \in Recent(G) \/ Cardinality(Recent(G)) < Limit
      BY <3>1, RecentIsWithin, SameCardinality
    <3>3. b \in Attempt /\ pc'[b] # "idle" /\ quoted'[k] = stamp[b] + Window
      BY <1>3, <1>t, <2>2, <3>1 DEF Promise!Within, Promise!Refuse, PromiseTypes, PromiseInv, Arrived
    <3>4. Recent(G)' = Recent(G) /\ granted' = granted /\ stamp' = stamp
      BY <1>3 DEF Promise!Refuse, Recent
    <3> QED
      BY <3>2, <3>3, <3>4 DEF PromiseInv, Fits, QuoteKept
  <2> QED
    BY <2>1, <2>2
<1>4. ASSUME NEW a \in Attempt, Promise!Forget(a) PROVE Fits(k)' /\ QuoteKept(k)'
  <2>1. CASE k # key[a]
    BY <1>4, <1>t, <2>1, KeepsKey DEF Promise!Forget, PromiseTypes
  <2>2. CASE k = key[a]
    BY <1>4, <1>t, <2>2, ClearsKey DEF Promise!Forget, PromiseTypes
  <2> QED
    BY <2>1, <2>2
<1>5. CASE Promise!Reset
  BY <1>5, ClearsKey DEF Promise!Reset
<1>6. CASE Promise!Tick \/ UNCHANGED Promise!promised
  BY <1>6, <1>t, KeepsKey DEF Promise!Tick, Promise!promised, PromiseTypes
<1> QED
  BY <1>1, <1>2, <1>3, <1>4, <1>5, <1>6 DEF Promise!Next

\* What the limiter promises is worth having by itself: from the promise alone, the
\* window holds at every moment and a quoted deadline is late enough, so nothing of
\* slices, pruning and sweeps is needed to rely on them (ratelimit.go:13-15, 52-72).
THEOREM PromiseIsEnough == KeepsPromise => [](NoMoreThanLimit /\ PromisedWait)
<1>1. Promise!Init => PromiseInv
  <2> SUFFICES ASSUME Promise!Init PROVE PromiseInv
    OBVIOUS
  <2>1. PromiseTypes /\ Arrived
    BY DEF Promise!Init, PromiseTypes, Arrived
  <2>2. \A k \in Key : Recent(granted[k]) = {} /\ quoted[k] = 0
    BY DEF Promise!Init, Recent
  <2>3. \A k \in Key : Fits(k) /\ QuoteKept(k)
    BY <2>2, FS_EmptySet, LimiterAssumption DEF Fits, QuoteKept
  <2> QED
    BY <2>1, <2>3 DEF PromiseInv
<1>2. PromiseInv => NoMoreThanLimit /\ PromisedWait
  <2> SUFFICES ASSUME PromiseInv, NEW k \in Key, quoted[k] # 0, clock >= quoted[k]
               PROVE  Cardinality(Recent(granted[k])) < Limit
    BY DEF PromiseInv, Fits, NoMoreThanLimit, PromisedWait
  <2>1. PICK b \in Attempt : /\ quoted[k] = stamp[b] + Window
                             /\ b \in Recent(granted[k]) \/ Cardinality(Recent(granted[k])) < Limit
    BY DEF PromiseInv, QuoteKept
  <2>2. b \notin Recent(granted[k])
    BY <2>1, LimiterAssumption DEF Recent, PromiseInv, PromiseTypes
  <2> QED
    BY <2>1, <2>2
<1>3. Promise!Spec => [](NoMoreThanLimit /\ PromisedWait)
  BY <1>1, <1>2, NextPromiseInv, PTL DEF Promise!Spec
<1> QED
  BY <1>3 DEF KeepsPromise

-----------------------------------------------------------------------------
(* And it is a budget to those who only ask it.                            *)

LEMMA NextKeepsBudget ==
  LimiterInv /\ [Next]_vars => [LimiterBudget!Next]_(LimiterBudget!spent)
<1> DEFINE Waiting == {a \in Attempt : pc[a] \in {"idle", "stamped"}}
<1> SUFFICES ASSUME LimiterInv, [Next]_vars PROVE LimiterBudget!Next
  OBVIOUS
<1>1. ASSUME NEW a \in Attempt, Grant(a) PROVE LimiterBudget!Next
  <2> DEFINE kept == Kept(key[a], stamp[a])
  <2>1. key[a] \in Key /\ a \in Waiting /\ Waiting' = Waiting \ {a}
    BY <1>1 DEF Grant, LimiterInv, TypeOK
  <2>2. kept \in SUBSET hits[key[a]]
    BY DEF Kept
  <2>3. Cardinality(kept) < Limit
    <3>1. Cardinality(kept) \in Nat
      BY <2>1, <2>2, PruningShrinks DEF LimiterInv
    <3> QED
      BY <1>1, <3>1, LimiterAssumption DEF Grant, Full
  <2>4. hits' = [hits EXCEPT ![key[a]] = kept \cup {a}]
    BY <1>1 DEF Grant
  <2>5. \E stay \in SUBSET hits[key[a]] :
          LimiterBudget!Cardinality(stay) < Limit /\ hits' = [hits EXCEPT ![key[a]] = stay \cup {a}]
    BY <2>2, <2>3, <2>4, SameCardinality
  <2> HIDE DEF Waiting
  <2> QED
    BY <2>1, <2>5 DEF LimiterBudget!Next, LimiterBudget!Take, Waiting
<1>2. ASSUME NEW a \in Attempt, Arrive(a) \/ Refuse(a) \/ Forget(a) PROVE LimiterBudget!GiveBack
  <2>1. hits' \in [Key -> SUBSET Attempt] /\ \A k \in Key : hits'[k] \subseteq hits[k]
    BY <1>2 DEF Arrive, Refuse, Forget, Kept, LimiterInv, TypeOK
  <2>2. Waiting' \subseteq Waiting
    BY <1>2 DEF Arrive, Refuse, Forget, LimiterInv, TypeOK
  <2> QED
    BY <2>1, <2>2 DEF LimiterBudget!GiveBack
<1>3. ASSUME Reset \/ Sweep \/ Tick \/ UNCHANGED vars PROVE LimiterBudget!GiveBack
  <2>1. hits' \in [Key -> SUBSET Attempt] /\ \A k \in Key : hits'[k] \subseteq hits[k]
    BY <1>3 DEF Reset, Sweep, Tick, vars, Kept, LimiterInv, TypeOK
  <2>2. Waiting' \subseteq Waiting
    BY <1>3 DEF Reset, Sweep, Tick, vars, calls
  <2> QED
    BY <2>1, <2>2 DEF LimiterBudget!GiveBack
<1> QED
  BY <1>1, <1>2, <1>3 DEF Next, LimiterBudget!Next

\* To those who only ask it the limiter is a budget: places are taken one at a time,
\* by who asks for the first time, while there is room, and otherwise only come
\* free, at whatever moments clocks, sweeps and resets make (ratelimit.go:52-91).
THEOREM LimiterIsABudget == Spec => KeepsBudget
<1>1. Init => LimiterBudget!Init
  BY DEF Init, LimiterBudget!Init
<1>2. Spec => LimiterBudget!Spec
  BY <1>1, NextKeepsBudget, LimiterInvHolds, PTL DEF Spec, LimiterBudget!Spec
<1> QED
  BY <1>2 DEF KeepsBudget
-----------------------------------------------------------------------------
(* And what a budget is worth: each key's places fit, and no attempt has     *)
(* places under two keys.                                                   *)

Waits(a) == pc[a] \in {"idle", "stamped"}

PlacesFit == \A k \in Key : Cardinality(hits[k]) <= Limit

OneKeyEach == \A j, k \in Key : j # k => hits[j] \cap hits[k] = {}

BudgetInv ==
    /\ hits \in [Key -> SUBSET Attempt] /\ PlacesFit /\ OneKeyEach
    /\ \A k \in Key : \A a \in hits[k] : ~Waits(a)

LEMMA NextBudgetInv ==
  ASSUME BudgetInv, [LimiterBudget!Next]_(LimiterBudget!spent)
  PROVE  BudgetInv'
<1> DEFINE W == {a \in Attempt : pc[a] \in {"idle", "stamped"}}
<1>f. \A k \in Key : IsFiniteSet(hits[k]) /\ Cardinality(hits[k]) \in Nat
  BY LimiterAssumption, FS_Subset, FS_CardinalityType DEF BudgetInv
<1>1. ASSUME NEW a \in W, NEW k \in Key, W' = W \ {a}, NEW stay \in SUBSET hits[k],
             Cardinality(stay) < Limit, hits' = [hits EXCEPT ![k] = stay \cup {a}]
      PROVE  BudgetInv'
  <2>1. IsFiniteSet(stay) /\ Cardinality(stay) \in Nat
    BY <1>f, FS_Subset, FS_CardinalityType
  <2>2. Cardinality(stay \cup {a}) <= Limit
    <3>1. Cardinality(stay \cup {a}) \in {Cardinality(stay), Cardinality(stay) + 1}
      BY <2>1, FS_AddElement
    <3> QED
      BY <1>1, <2>1, <3>1, LimiterAssumption
  <2>3. PlacesFit'
    BY <1>1, <2>2 DEF PlacesFit, BudgetInv
  <2>4. \A j \in Key : a \notin hits[j] /\ hits'[j] \subseteq hits[j] \cup {a}
    BY <1>1 DEF BudgetInv, Waits
  <2>5. \A j \in Key : j # k => a \notin hits'[j]
    BY <1>1, <2>4 DEF BudgetInv
  <2>6. OneKeyEach'
    BY <2>4, <2>5 DEF OneKeyEach, BudgetInv
  <2>7. hits' \in [Key -> SUBSET Attempt]
    BY <1>1 DEF BudgetInv
  <2>8. \A j \in Key : \A b \in hits'[j] : ~Waits(b)'
    BY <1>1, <2>4, <2>7 DEF BudgetInv, Waits
  <2> QED
    BY <2>3, <2>6, <2>7, <2>8 DEF BudgetInv
<1>2. CASE LimiterBudget!GiveBack
  <2>1. hits' \in [Key -> SUBSET Attempt] /\ \A k \in Key : hits'[k] \subseteq hits[k]
    BY <1>2 DEF LimiterBudget!GiveBack
  <2>2. PlacesFit'
    <3> SUFFICES ASSUME NEW k \in Key PROVE Cardinality(hits'[k]) <= Limit
      BY DEF PlacesFit
    <3>1. Cardinality(hits'[k]) \in Nat /\ Cardinality(hits'[k]) <= Cardinality(hits[k])
      BY <1>f, <2>1, FS_Subset, FS_CardinalityType
    <3> QED
      BY <1>f, <3>1, LimiterAssumption DEF BudgetInv, PlacesFit
  <2>3. W' \subseteq W
    BY <1>2 DEF LimiterBudget!GiveBack
  <2> QED
    BY <2>1, <2>2, <2>3 DEF BudgetInv, OneKeyEach, Waits
<1>3. CASE UNCHANGED LimiterBudget!spent
  <2>1. hits' = hits /\ W' = W
    BY <1>3 DEF LimiterBudget!spent
  <2> QED
    BY <2>1 DEF BudgetInv, PlacesFit, OneKeyEach, Waits
<1>4. CASE \E a \in Attempt, k \in Key : LimiterBudget!Take(a, k)
  <2>1. PICK a \in Attempt, k \in Key : LimiterBudget!Take(a, k)
    BY <1>4
  <2>2. /\ a \in W /\ W' = W \ {a}
        /\ \E stay \in SUBSET hits[k] :
              Cardinality(stay) < Limit /\ hits' = [hits EXCEPT ![k] = stay \cup {a}]
    BY <2>1, SameCardinality DEF LimiterBudget!Take
  <2> QED
    BY <1>1, <2>2
<1> QED
  BY <1>2, <1>3, <1>4 DEF LimiterBudget!Next

LEMMA BudgetInvHolds == KeepsBudget => []BudgetInv
<1>1. LimiterBudget!Init => BudgetInv
  BY LimiterAssumption, FS_EmptySet DEF LimiterBudget!Init, BudgetInv, PlacesFit, OneKeyEach
<1>2. LimiterBudget!Spec => []BudgetInv
  BY <1>1, NextBudgetInv, PTL DEF LimiterBudget!Spec
<1> QED
  BY <1>2 DEF KeepsBudget

\* From the budget alone: no key has more places than the limit, and no attempt holds
\* places under two keys (ratelimit.go:61-79).
THEOREM BudgetIsEnough == KeepsBudget => [](PlacesFit /\ OneKeyEach)
<1>1. BudgetInv => PlacesFit /\ OneKeyEach
  BY DEF BudgetInv
<1> QED
  BY <1>1, BudgetInvHolds, PTL

-----------------------------------------------------------------------------
(* The one way to quote too late a time.                                    *)

\* An attempt gets its place after one of its key that was stamped later.
Overtaken == \E a \in Attempt : Grant(a) /\ \E b \in hits'[key[a]] : stamp[b] > stamp[a]

\* The attempts of a slice are numbered as they were appended, and stamped in that order.
SlicesInOrder ==
    \A k \in Key : \A a, b \in hits[k] :
        turn[a] <= served /\ (turn[a] <= turn[b] => stamp[a] <= stamp[b])

LEMMA NextSlicesInOrder ==
  ASSUME LimiterInv, BudgetInv, SlicesInOrder, [Next]_vars, [~Overtaken]_vars
  PROVE  SlicesInOrder'
<1> USE DEF calls, history
<1>1. ASSUME NEW a \in Attempt, Arrive(a) PROVE SlicesInOrder'
  <2>1. \A k \in Key : \A b \in hits[k] : b \in Attempt /\ b # a
    BY <1>1 DEF Arrive, LimiterInv, SliceFits, Arrived, TypeOK
  <2>2. \A b \in Attempt : b # a => stamp'[b] = stamp[b]
    BY <1>1 DEF Arrive, LimiterInv, TypeOK
  <2> QED
    BY <1>1, <2>1, <2>2 DEF Arrive, SlicesInOrder
<1>2. ASSUME NEW a \in Attempt, Grant(a) PROVE SlicesInOrder'
  <2> DEFINE kept == Kept(key[a], stamp[a])
  <2>1. /\ kept \subseteq hits[key[a]] /\ key[a] \in Key
        /\ hits' = [hits EXCEPT ![key[a]] = kept \cup {a}]
        /\ turn' = [turn EXCEPT ![a] = served + 1] /\ served' = served + 1 /\ stamp' = stamp
    BY <1>2 DEF Grant, Kept, LimiterInv, TypeOK
  <2> HIDE DEF kept
  <2>2. \A b \in kept \cup {a} : stamp[b] <= stamp[a]
    <3>1. ~Overtaken
      BY <1>2 DEF Grant, vars, LimiterInv, TypeOK
    <3>2. hits'[key[a]] = kept \cup {a} /\ kept \subseteq Attempt
      BY <2>1 DEF LimiterInv, TypeOK
    <3>3. \A b \in Attempt : stamp[b] \in Int
      BY LimiterAssumption DEF LimiterInv, TypeOK
    <3> QED
      BY <1>2, <3>1, <3>2, <3>3 DEF Overtaken
  <2>3. /\ served \in Nat /\ turn \in [Attempt -> Nat]
        /\ \A k \in Key : hits[k] \subseteq Attempt
        /\ \A k \in Key : k # key[a] => hits'[k] = hits[k]
        /\ hits'[key[a]] = kept \cup {a}
    BY <2>1 DEF LimiterInv, TypeOK
  <2>4. \A k \in Key : a \notin hits[k]
    BY <1>2 DEF Grant, BudgetInv, Waits
  <2> QED
    BY <2>1, <2>2, <2>3, <2>4 DEF SlicesInOrder
<1>3. ASSUME NEW a \in Attempt, Refuse(a) \/ Forget(a) PROVE SlicesInOrder'
  BY <1>3 DEF Refuse, Forget, Kept, SlicesInOrder, LimiterInv, TypeOK
<1>4. CASE Reset \/ Sweep \/ Tick \/ UNCHANGED vars
  BY <1>4 DEF Reset, Sweep, Tick, vars, Kept, SlicesInOrder
<1> QED
  BY <1>1, <1>2, <1>3, <1>4 DEF Next

\* As long as nobody is overtaken between reading the clock and taking the lock, a
\* refusal names the time the oldest attempt leaves (ratelimit.go:52-55).
THEOREM OvertakingIsTheCause == Spec /\ [][~Overtaken]_vars => RefusalNamesTheOldest
<1>1. LimiterInv /\ SlicesInOrder /\ [Next]_vars =>
        [\A a \in Attempt :
            pc[a] = "stamped" /\ pc'[a] = "refused" =>
                \A b \in hits'[key[a]] : quoted'[key[a]] <= Deadline(b)]_vars
  <2> SUFFICES ASSUME LimiterInv, SlicesInOrder, Next, NEW a \in Attempt,
                      pc[a] = "stamped", pc'[a] = "refused"
               PROVE  \A b \in hits'[key[a]] : quoted'[key[a]] <= Deadline(b)
    OBVIOUS
  <2> DEFINE kept == Kept(key[a], stamp[a])
  <2>1. Refuse(a)
    BY DEF Next, Arrive, Refuse, Grant, Forget, Reset, Sweep, Tick, calls, LimiterInv, TypeOK
  <2>2. /\ key[a] \in Key /\ kept \subseteq hits[key[a]] /\ kept \subseteq Attempt
        /\ hits'[key[a]] = kept /\ quoted'[key[a]] = Deadline(First(kept)) /\ kept # {}
    BY <2>1, FullHasFirst DEF Refuse, Kept, LimiterInv, TypeOK
  <2> HIDE DEF kept
  <2>3. First(kept) \in kept /\ \A b \in kept : turn[First(kept)] <= turn[b]
    BY <2>2, FirstIsFirst DEF LimiterInv, TypeOK
  <2>4. \A b \in kept : stamp[First(kept)] <= stamp[b]
    BY <2>2, <2>3 DEF SlicesInOrder
  <2> QED
    BY <2>2, <2>3, <2>4, LimiterAssumption DEF Deadline, LimiterInv, TypeOK
<1>2. Init => SlicesInOrder
  BY DEF Init, SlicesInOrder
<1> QED
  BY <1>1, <1>2, NextSlicesInOrder, LimiterInvHolds, LimiterIsABudget, BudgetInvHolds, PTL
     DEF Spec, RefusalNamesTheOldest

=============================================================================
