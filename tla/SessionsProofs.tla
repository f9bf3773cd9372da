---------------------------- MODULE SessionsProofs ----------------------------
(***************************************************************************)
(* Theorems about Sessions, for every set of sign-ins and requests.        *)
(***************************************************************************)
EXTENDS Sessions, TLAPS

-----------------------------------------------------------------------------
(* Type correctness.                                                       *)

LEMMA InitTypeOK == Init => TypeOK
<1> SUFFICES ASSUME Init PROVE TypeOK
  OBVIOUS
<1> USE DEF Init
<1>1. running \in BOOLEAN /\ crashes \in 0..MaxCrashes
  BY ParametersAssumption
<1>2. /\ live \subseteq Login /\ expired \subseteq Login
      /\ access \in [Login -> Token \cup {None}]
      /\ refresh \in [Login -> Token \cup {None}]
      /\ refreshing \in [Login -> Call \cup {None}]
      /\ holder \in [Call -> Call \cup {None}]
      /\ signIn \in [Login -> {"new", "granted", "in", "lost"}]
  OBVIOUS
<1>3. /\ disk \in StateFile
      /\ behind \in BOOLEAN
  BY DEF Empty, StateFile
<1>4. pc \in [Call -> Stage] /\ sess \in [Call -> Login \cup {None}]
  BY DEF Stage
<1>5. /\ used \in [Call -> Token \cup {None, Torn}]
      /\ token \in [Call -> Token \cup {None, Torn}]
      /\ rotates \in [Call -> BOOLEAN] /\ mine \in [Call -> Call \cup {None}]
  OBVIOUS
<1>6. /\ liveAccess \subseteq Token /\ refreshable \subseteq Token
      /\ spent \subseteq Token
      /\ effects \in [Call -> Nat] /\ loggedOut \subseteq Login
      /\ unsaved \subseteq Login /\ orphaned \subseteq Login
  OBVIOUS
<1> QED
  BY <1>1, <1>2, <1>3, <1>4, <1>5, <1>6 DEF TypeOK

\* What save() does to the file is well typed when the map is.
LEMMA SaveTypeOK ==
  ASSUME disk \in StateFile, Save, live' \subseteq Login,
         access' \in [Login -> Token \cup {None}],
         refresh' \in [Login -> Token \cup {None}]
  PROVE  disk' \in StateFile /\ behind' \in BOOLEAN
<1> DEFINE A == [s \in Login |-> IF s \in live' THEN access'[s] ELSE None]
           R == [s \in Login |-> IF s \in live' THEN refresh'[s] ELSE None]
<1>1. A \in [Login -> Token \cup {None}] /\ R \in [Login -> Token \cup {None}]
  OBVIOUS
<1>2. CASE disk' = [ids |-> live', access |-> A, refresh |-> R] /\ behind' = FALSE
  <2> HIDE DEF A, R
  <2> QED BY <1>1, <1>2 DEF StateFile
<1>3. CASE SaveMayFail /\ disk' = disk /\ behind' = TRUE
  BY <1>3
<1> QED
  BY <1>2, <1>3 DEF Save

\* Every request past its cookie names a session some sign-in created, and a
\* request about to store a renewal has the access token it obtained itself.
HasSession ==
    \A c \in Call :
        /\ pc[c] # "idle" => sess[c] \in Login /\ signIn[sess[c]] = "in"
        /\ pc[c] = "update" => token[c] = c

\* A handler that answers leaves well-typed locals behind.
LEMMA ReturnTypeOK ==
  ASSUME TypeOK, NEW c \in Call, NEW answer \in Done, Return(c, answer)
  PROVE  /\ pc' \in [Call -> Stage]
         /\ used' \in [Call -> Token \cup {None, Torn}]
         /\ token' \in [Call -> Token \cup {None, Torn}]
         /\ rotates' \in [Call -> BOOLEAN] /\ mine' \in [Call -> Call \cup {None}]
  BY DEF Return, Goto, TypeOK, Stage

LEMMA NextTypeOK == TypeOK /\ HasSession /\ [Next]_vars => TypeOK'
<1> SUFFICES ASSUME TypeOK, HasSession, [Next]_vars PROVE TypeOK'
  OBVIOUS
<1> USE NamesAssumption, ParametersAssumption
    DEF proc, store, file, locks, request, locals, bkn, history
<1>1. ASSUME NEW l \in Login, BknLogin(l) PROVE TypeOK'
  BY <1>1 DEF BknLogin, TypeOK, Token
<1>2. ASSUME NEW l \in Login, Create(l) PROVE TypeOK'
  <2>1. /\ live' \subseteq Login
        /\ access' \in [Login -> Token \cup {None}]
        /\ refresh' \in [Login -> Token \cup {None}]
    BY <1>2 DEF Create, TypeOK, Token
  <2>2. disk' \in StateFile /\ behind' \in BOOLEAN
    BY <1>2, <2>1, SaveTypeOK DEF Create, TypeOK
  <2> QED
    BY <1>2, <2>1, <2>2 DEF Create, TypeOK
<1>3. ASSUME NEW s \in Login, Logout(s) PROVE TypeOK'
  <2>1. /\ live' \subseteq Login
        /\ access' \in [Login -> Token \cup {None}]
        /\ refresh' \in [Login -> Token \cup {None}]
    BY <1>3 DEF Logout, Remove, TypeOK, Token
  <2>2. disk' \in StateFile /\ behind' \in BOOLEAN
    BY <1>3, <2>1, SaveTypeOK DEF Logout, Remove, TypeOK
  <2> QED
    BY <1>3, <2>1, <2>2 DEF Logout, Remove, TypeOK
<1>4. ASSUME Sweep PROVE TypeOK'
  <2>1. /\ live' \subseteq Login
        /\ access' \in [Login -> Token \cup {None}]
        /\ refresh' \in [Login -> Token \cup {None}]
    BY <1>4 DEF Sweep, TypeOK, Token
  <2>2. disk' \in StateFile /\ behind' \in BOOLEAN
    BY <1>4, <2>1, SaveTypeOK DEF Sweep, TypeOK
  <2> QED
    BY <1>4, <2>1, <2>2 DEF Sweep, TypeOK
<1>5. ASSUME NEW c \in Call, Update(c) PROVE TypeOK'
  <2>0. sess[c] \in Login
    BY <1>5 DEF Update, HasSession
  <2>1. /\ live' \subseteq Login
        /\ access' \in [Login -> Token \cup {None}]
        /\ refresh' \in [Login -> Token \cup {None}]
    <3>1. KeptRefresh(c) \in Token \cup {None}
      BY <2>0 DEF KeptRefresh, TypeOK, Token
    <3>2. CASE sess[c] \in live
      <4>1. token[c] \in Token \cup {None}
        BY <1>5 DEF Update, HasSession, Token
      <4> QED
        BY <1>5, <2>0, <3>1, <3>2, <4>1 DEF Update, StoreRenewed, TypeOK
    <3>3. CASE sess[c] \notin live
      BY <1>5, <3>3 DEF Update, StoreRenewed, TypeOK
    <3> QED
      BY <3>2, <3>3
  <2>2. disk' \in StateFile /\ behind' \in BOOLEAN
    BY <1>5, <2>1, SaveTypeOK DEF Update, StoreRenewed, KeptRefresh, Goto, Stage, InFlight, Locked, Done, TypeOK, HasSession
  <2> QED
    BY <1>5, <2>1, <2>2 DEF Update, StoreRenewed, KeptRefresh, Goto, Stage, InFlight, Locked, Done, TypeOK, HasSession
<1>6. ASSUME NEW c \in Call, Drop(c) PROVE TypeOK'
  <2>1. /\ live' \subseteq Login
        /\ access' \in [Login -> Token \cup {None}]
        /\ refresh' \in [Login -> Token \cup {None}]
    BY <1>6 DEF Drop, Remove, TypeOK, Token
  <2>2. disk' \in StateFile /\ behind' \in BOOLEAN
    BY <1>6, <2>1, SaveTypeOK DEF Drop, Remove, TypeOK
  <2>3. /\ pc' \in [Call -> Stage]
        /\ used' \in [Call -> Token \cup {None, Torn}]
        /\ token' \in [Call -> Token \cup {None, Torn}]
        /\ rotates' \in [Call -> BOOLEAN] /\ mine' \in [Call -> Call \cup {None}]
    BY <1>6, ReturnTypeOK DEF Drop, Done
  <2>4. /\ refreshing' \in [Login -> Call \cup {None}]
        /\ holder' \in [Call -> Call \cup {None}]
    BY <1>6 DEF Drop, Remove, Unlock, TypeOK
  <2> QED
    BY <1>6, <2>1, <2>2, <2>3, <2>4 DEF Drop, TypeOK
<1>7. ASSUME NEW s \in Login, Me(s) PROVE TypeOK'
  BY <1>7 DEF Me, TypeOK, Token
<1>8. ASSUME NEW c \in Call, Get(c) PROVE TypeOK'
  BY <1>8 DEF Get, Goto, Stage, InFlight, Locked, Done, TypeOK, Token
<1>9. ASSUME NEW c \in Call, ReadAccess(c) PROVE TypeOK'
  BY <1>9 DEF ReadAccess, Goto, Stage, InFlight, Locked, Done, TypeOK, HasSession, Token
<1>10. ASSUME NEW c \in Call, FirstCall(c) PROVE TypeOK'
  <2>1. PICK outcome \in Outcomes(token[c]) :
          /\ CallBkn(c, outcome)
          /\ IF NeedsRenewal(outcome)
             THEN Goto(c, "lock") /\ UNCHANGED locals
             ELSE Return(c, IF outcome = "ok" THEN "ok" ELSE "failed")
    BY <1>10 DEF FirstCall
  <2>2. effects' \in [Call -> Nat]
    BY <2>1 DEF CallBkn, TypeOK
  <2>3. CASE NeedsRenewal(outcome)
    <3>1. pc' \in [Call -> Stage] /\ UNCHANGED locals
      BY <2>1, <2>3 DEF Goto, Stage, InFlight, TypeOK
    <3> QED
      BY <1>10, <2>2, <3>1 DEF FirstCall, TypeOK
  <2>4. CASE ~NeedsRenewal(outcome)
    <3>1. /\ pc' \in [Call -> Stage]
          /\ used' \in [Call -> Token \cup {None, Torn}]
          /\ token' \in [Call -> Token \cup {None, Torn}]
          /\ rotates' \in [Call -> BOOLEAN] /\ mine' \in [Call -> Call \cup {None}]
      BY <2>1, <2>4, ReturnTypeOK DEF Done
    <3> QED
      BY <1>10, <2>2, <3>1 DEF FirstCall, TypeOK
  <2> QED
    BY <2>3, <2>4
<1>11. ASSUME NEW c \in Call, RefreshLock(c) PROVE TypeOK'
  BY <1>11 DEF RefreshLock, Goto, LockOf, Stage, InFlight, Locked, Done, TypeOK, HasSession, Token
<1>12. ASSUME NEW c \in Call, Acquire(c) PROVE TypeOK'
  BY <1>12 DEF Acquire, Goto, Stage, InFlight, Locked, Done, TypeOK, Token
<1>13. ASSUME NEW c \in Call, Peek(c) PROVE TypeOK'
  <2>1. CASE sess[c] \in live
    BY <1>13, <2>1 DEF Peek, Goto, Stage, InFlight, Locked, Done, TypeOK
  <2>2. CASE sess[c] \notin live
    <3>1. /\ pc' \in [Call -> Stage]
          /\ used' \in [Call -> Token \cup {None, Torn}]
          /\ token' \in [Call -> Token \cup {None, Torn}]
          /\ rotates' \in [Call -> BOOLEAN] /\ mine' \in [Call -> Call \cup {None}]
      BY <1>13, <2>2, ReturnTypeOK DEF Peek, Done
    <3>2. holder' \in [Call -> Call \cup {None}]
      BY <1>13, <2>2 DEF Peek, Unlock, TypeOK
    <3> QED
      BY <1>13, <3>1, <3>2 DEF Peek, TypeOK
  <2> QED
    BY <2>1, <2>2
<1>14. ASSUME NEW c \in Call, Compare(c) PROVE TypeOK'
  BY <1>14 DEF Compare, Goto, Stage, InFlight, Locked, Done, TypeOK, HasSession, Token
<1>15. ASSUME NEW c \in Call, SecondCall(c) PROVE TypeOK'
  <2>1. PICK outcome \in Outcomes(token[c]) :
          /\ CallBkn(c, outcome)
          /\ Return(c, CASE outcome = "ok" -> "ok"
                         [] outcome = "unauthorized" -> "signedOut"
                         [] OTHER -> "failed")
    BY <1>15 DEF SecondCall
  <2>2. effects' \in [Call -> Nat]
    BY <2>1 DEF CallBkn, TypeOK
  <2>3. /\ pc' \in [Call -> Stage]
        /\ used' \in [Call -> Token \cup {None, Torn}]
        /\ token' \in [Call -> Token \cup {None, Torn}]
        /\ rotates' \in [Call -> BOOLEAN] /\ mine' \in [Call -> Call \cup {None}]
    BY <2>1, ReturnTypeOK DEF Done
  <2> QED
    BY <1>15, <2>2, <2>3 DEF SecondCall, Unlock, TypeOK
<1>16. ASSUME NEW c \in Call, RefreshRotated(c) PROVE TypeOK'
  BY <1>16 DEF RefreshRotated, Goto, Rotate, Stage, InFlight, Locked, Done, TypeOK, Token
<1>17. ASSUME NEW c \in Call, RefreshKept(c) PROVE TypeOK'
  BY <1>17 DEF RefreshKept, Goto, Stage, InFlight, Locked, Done, TypeOK, Token
<1>18. ASSUME NEW c \in Call, RefreshLost(c) PROVE TypeOK'
  BY <1>18 DEF RefreshLost, Goto, Rotate, Stage, InFlight, Locked, Done, TypeOK, Token
<1>19. ASSUME NEW c \in Call, RefreshFailed(c) PROVE TypeOK'
  BY <1>19 DEF RefreshFailed, Goto, Stage, InFlight, Locked, Done, TypeOK, Token
<1>20. ASSUME NEW c \in Call, StrayRotation(c) PROVE TypeOK'
  BY <1>20 DEF StrayRotation, Goto, Return, Rotate, Stage, InFlight, Locked, Done, TypeOK, Token
<1>21. ASSUME NEW t \in Token, AccessLapse(t) PROVE TypeOK'
  BY <1>21 DEF AccessLapse, TypeOK, Token
<1>22. ASSUME NEW t \in Token, RefreshLapse(t) PROVE TypeOK'
  BY <1>22 DEF RefreshLapse, TypeOK, Token
<1>23. ASSUME NEW s \in Login, Expire(s) PROVE TypeOK'
  BY <1>23 DEF Expire, TypeOK, Token
<1>24. ASSUME Exit PROVE TypeOK'
  <2>1. pc' \in [Call -> Stage] /\ token' \in [Call -> Token \cup {None, Torn}]
    BY <1>24 DEF Exit, Stage, InFlight, Locked, Done, TypeOK
  <2>2. signIn' \in [Login -> {"new", "granted", "in", "lost"}]
    BY <1>24 DEF Exit, TypeOK
  <2>3. orphaned' \subseteq Login
    <3>1. PICK strays \in SUBSET {c \in Call : pc[c] = "refresh"} :
              orphaned' = orphaned \cup Unstored(strays)
      BY <1>24 DEF Exit
    <3>2. \A c \in Call : c \in strays \/ Rotated(c) => sess[c] \in Login
      BY <3>1 DEF Rotated, HasSession
    <3>3. Unstored(strays) \subseteq Login
      BY <3>1, <3>2 DEF Unstored, TypeOK, StateFile
    <3> QED
      BY <3>1, <3>3 DEF TypeOK
  <2>0. running' \in BOOLEAN /\ crashes' \in 0..MaxCrashes
    <3>1. crashes \in 0..MaxCrashes
      BY DEF TypeOK
    <3>2. crashes < MaxCrashes /\ crashes' = crashes + 1
      BY <1>24 DEF Exit
    <3>3. crashes' \in 0..MaxCrashes
      BY ONLY <3>1, <3>2, ParametersAssumption
    <3>4. running' \in BOOLEAN
      BY <1>24 DEF Exit
    <3> QED
      BY <3>3, <3>4
  <2>4. /\ live' \subseteq Login
        /\ access' \in [Login -> Token \cup {None}]
        /\ refresh' \in [Login -> Token \cup {None}]
        /\ refreshing' \in [Login -> Call \cup {None}]
        /\ holder' \in [Call -> Call \cup {None}]
    BY <1>24 DEF Exit
  <2>5. /\ used' \in [Call -> Token \cup {None, Torn}]
        /\ rotates' \in [Call -> BOOLEAN] /\ mine' \in [Call -> Call \cup {None}]
    BY <1>24 DEF Exit
  <2>6. UNCHANGED <<expired, file, sess, bkn, effects>>
    BY <1>24 DEF Exit
  <2>7. loggedOut' \subseteq Login /\ unsaved' \subseteq Login
    BY <1>24 DEF Exit, TypeOK
  <2> QED
    BY <2>0, <2>1, <2>2, <2>3, <2>4, <2>5, <2>6, <2>7 DEF TypeOK
<1>25. ASSUME Restart PROVE TypeOK'
  BY <1>25 DEF Restart, StateFile, TypeOK, Token
<1>26. CASE UNCHANGED vars
  BY <1>26 DEF vars, TypeOK
<1> QED
  BY <1>1, <1>2, <1>3, <1>4, <1>5, <1>6, <1>7, <1>8, <1>9, <1>10, <1>11, <1>12, <1>13, <1>14, <1>15, <1>16, <1>17, <1>18, <1>19, <1>20, <1>21, <1>22, <1>23, <1>24, <1>25, <1>26 DEF Next, Handler

LEMMA NextHasSession == TypeOK /\ HasSession /\ [Next]_vars => HasSession'
<1> SUFFICES ASSUME TypeOK, HasSession, [Next]_vars PROVE HasSession'
  OBVIOUS
<1> USE DEF TypeOK, HasSession, proc, store, file, locks, request, locals, bkn, history
<1>1. ASSUME NEW l \in Login, BknLogin(l) PROVE HasSession'
  BY <1>1 DEF BknLogin
<1>2. ASSUME NEW l \in Login, Create(l) PROVE HasSession'
  BY <1>2 DEF Create
<1>3. ASSUME NEW s \in Login, Logout(s) PROVE HasSession'
  BY <1>3 DEF Logout, Remove
<1>4. ASSUME Sweep PROVE HasSession'
  BY <1>4 DEF Sweep
<1>5. ASSUME NEW c \in Call, Update(c) PROVE HasSession'
  BY <1>5 DEF Update, StoreRenewed, Goto
<1>6. ASSUME NEW c \in Call, Drop(c) PROVE HasSession'
  BY <1>6 DEF Drop, Remove, Unlock, Return, Goto
<1>7. ASSUME NEW s \in Login, Me(s) PROVE HasSession'
  BY <1>7 DEF Me
<1>8. ASSUME NEW c \in Call, Get(c) PROVE HasSession'
  BY <1>8 DEF Get, Goto
<1>9. ASSUME NEW c \in Call, ReadAccess(c) PROVE HasSession'
  BY <1>9 DEF ReadAccess, Goto
<1>10. ASSUME NEW c \in Call, FirstCall(c) PROVE HasSession'
  BY <1>10 DEF FirstCall, Return, Goto
<1>11. ASSUME NEW c \in Call, RefreshLock(c) PROVE HasSession'
  BY <1>11 DEF RefreshLock, Goto
<1>12. ASSUME NEW c \in Call, Acquire(c) PROVE HasSession'
  BY <1>12 DEF Acquire, Goto
<1>13. ASSUME NEW c \in Call, Peek(c) PROVE HasSession'
  BY <1>13 DEF Peek, Unlock, Return, Goto
<1>14. ASSUME NEW c \in Call, Compare(c) PROVE HasSession'
  BY <1>14 DEF Compare, Goto
<1>15. ASSUME NEW c \in Call, SecondCall(c) PROVE HasSession'
  BY <1>15 DEF SecondCall, Unlock, Return, Goto
<1>16. ASSUME NEW c \in Call, RefreshRotated(c) PROVE HasSession'
  BY <1>16 DEF RefreshRotated, Goto
<1>17. ASSUME NEW c \in Call, RefreshKept(c) PROVE HasSession'
  BY <1>17 DEF RefreshKept, Goto
<1>18. ASSUME NEW c \in Call, RefreshLost(c) PROVE HasSession'
  BY <1>18 DEF RefreshLost, Goto
<1>19. ASSUME NEW c \in Call, RefreshFailed(c) PROVE HasSession'
  BY <1>19 DEF RefreshFailed, Goto
<1>20. ASSUME NEW c \in Call, StrayRotation(c) PROVE HasSession'
  BY <1>20 DEF StrayRotation, Return, Goto
<1>21. ASSUME NEW t \in Token, AccessLapse(t) PROVE HasSession'
  BY <1>21 DEF AccessLapse
<1>22. ASSUME NEW t \in Token, RefreshLapse(t) PROVE HasSession'
  BY <1>22 DEF RefreshLapse
<1>23. ASSUME NEW s \in Login, Expire(s) PROVE HasSession'
  BY <1>23 DEF Expire
<1>24. ASSUME Exit PROVE HasSession'
  <2>1. ASSUME NEW c \in Call
        PROVE  sess'[c] = sess[c] /\ pc'[c] # "update" /\ (pc'[c] # "idle" => pc[c] # "idle")
    BY <1>24 DEF Exit, InFlight, Locked
  <2>2. \A l \in Login : signIn[l] = "in" => signIn'[l] = "in"
    BY <1>24 DEF Exit
  <2> QED
    BY <2>1, <2>2
<1>25. ASSUME Restart PROVE HasSession'
  BY <1>25 DEF Restart
<1>26. CASE UNCHANGED vars
  BY <1>26 DEF vars
<1> QED
  BY <1>1, <1>2, <1>3, <1>4, <1>5, <1>6, <1>7, <1>8, <1>9, <1>10, <1>11, <1>12, <1>13, <1>14, <1>15, <1>16, <1>17, <1>18, <1>19, <1>20, <1>21, <1>22, <1>23, <1>24, <1>25, <1>26 DEF Next, Handler

-----------------------------------------------------------------------------
(* One renewal at a time.  The refresh mutex excludes only while all        *)
(* requests of a live session share it; a sign-out, a drop or an exit takes *)
(* the mutex out of the map, and then it is the session's absence from the  *)
(* map, and that no session ever comes back to it, that stops the next one. *)

\* Only created sessions are in the map or the file, so none enters it twice.
Created ==
    /\ \A s \in live : signIn[s] = "in"
    /\ \A s \in disk.ids : signIn[s] = "in"

\* A server that is down has no sessions in memory and no request in flight.
Down == ~running =>
    /\ live = {}
    /\ \A l \in Login : signIn[l] # "granted"
    /\ \A c \in Call : pc[c] \notin InFlight

\* A request between lock and unlock holds the mutex refreshLock gave it.
HoldsMutex ==
    \A c \in Call : pc[c] \in Locked => mine[c] \in Call /\ holder[mine[c]] = c

\* The requests of a session still in the map that lock or wait share a mutex.
SharesMutex ==
    \A c \in Call : pc[c] \in {"wait"} \cup Locked =>
        /\ mine[c] \in Call
        /\ sess[c] \in live => refreshing[sess[c]] = mine[c]

Past == {"compare"} \cup Renewing

\* No two requests of a session are past a peek that found it.
PastExclusive ==
    \A c, d \in Call : pc[c] \in Past /\ pc[d] \in Past /\ sess[c] = sess[d] => c = d

LockInv == TypeOK /\ HasSession /\ Created /\ Down /\ HoldsMutex /\ SharesMutex /\ PastExclusive

LEMMA InitLockInv == Init => LockInv
<1> SUFFICES ASSUME Init PROVE LockInv
  OBVIOUS
<1>1. TypeOK
  BY InitTypeOK
<1>2. HasSession /\ Created /\ Down
  BY DEF Init, HasSession, Created, Down, InFlight, Locked, Empty
<1>3. HoldsMutex /\ SharesMutex /\ PastExclusive
  BY DEF Init, HoldsMutex, SharesMutex, PastExclusive, Past, Renewing, Locked
<1> QED
  BY <1>1, <1>2, <1>3 DEF LockInv

LEMMA NextLockInv == LockInv /\ [Next]_vars => LockInv'
<1> SUFFICES ASSUME LockInv, [Next]_vars PROVE LockInv'
  OBVIOUS
<1> USE NamesAssumption
    DEF LockInv, proc, store, file, locks, request, locals, bkn, history
<1>0. TypeOK' /\ HasSession'
  BY NextTypeOK, NextHasSession
<1>1. ASSUME NEW l \in Login, BknLogin(l)
      PROVE  /\ Created' /\ Down' /\ HoldsMutex'
             /\ SharesMutex' /\ PastExclusive'
  BY <1>1 DEF BknLogin, TypeOK, Created, Down, HoldsMutex, SharesMutex, HasSession,
       PastExclusive, Past, Renewing, InFlight, Locked
<1>2. ASSUME NEW l \in Login, Create(l)
      PROVE  /\ Created' /\ Down' /\ HoldsMutex'
             /\ SharesMutex' /\ PastExclusive'
  BY <1>2 DEF Create, Save, TypeOK, Created, Down, HoldsMutex, SharesMutex, HasSession,
       PastExclusive, Past, Renewing, InFlight, Locked
<1>3. ASSUME NEW s \in Login, Logout(s)
      PROVE  /\ Created' /\ Down' /\ HoldsMutex'
             /\ SharesMutex' /\ PastExclusive'
  BY <1>3 DEF Logout, Remove, Save, TypeOK, Created, Down, HoldsMutex, SharesMutex, HasSession,
       PastExclusive, Past, Renewing, InFlight, Locked
<1>4. ASSUME Sweep
      PROVE  /\ Created' /\ Down' /\ HoldsMutex'
             /\ SharesMutex' /\ PastExclusive'
  BY <1>4 DEF Sweep, Save, TypeOK, Created, Down, HoldsMutex, SharesMutex, HasSession,
       PastExclusive, Past, Renewing, InFlight, Locked
<1>5. ASSUME NEW c \in Call, Update(c)
      PROVE  /\ Created' /\ Down' /\ HoldsMutex'
             /\ SharesMutex' /\ PastExclusive'
  BY <1>5 DEF Update, StoreRenewed, Save, Goto, TypeOK, Created, Down, HoldsMutex, SharesMutex, HasSession,
       PastExclusive, Past, Renewing, InFlight, Locked
<1>6. ASSUME NEW c \in Call, Drop(c)
      PROVE  /\ Created' /\ Down' /\ HoldsMutex'
             /\ SharesMutex' /\ PastExclusive'
  BY <1>6 DEF Drop, Remove, Save, Unlock, Return, Goto, TypeOK, Created, Down, HoldsMutex, SharesMutex, HasSession,
       PastExclusive, Past, Renewing, InFlight, Locked
<1>7. ASSUME NEW s \in Login, Me(s)
      PROVE  /\ Created' /\ Down' /\ HoldsMutex'
             /\ SharesMutex' /\ PastExclusive'
  BY <1>7 DEF Me, TypeOK, Created, Down, HoldsMutex, SharesMutex, HasSession,
       PastExclusive, Past, Renewing, InFlight, Locked
<1>8. ASSUME NEW c \in Call, Get(c)
      PROVE  /\ Created' /\ Down' /\ HoldsMutex'
             /\ SharesMutex' /\ PastExclusive'
  BY <1>8 DEF Get, Goto, TypeOK, Created, Down, HoldsMutex, SharesMutex, HasSession,
       PastExclusive, Past, Renewing, InFlight, Locked
<1>9. ASSUME NEW c \in Call, ReadAccess(c)
      PROVE  /\ Created' /\ Down' /\ HoldsMutex'
             /\ SharesMutex' /\ PastExclusive'
  BY <1>9 DEF ReadAccess, Goto, TypeOK, Created, Down, HoldsMutex, SharesMutex, HasSession,
       PastExclusive, Past, Renewing, InFlight, Locked
<1>10. ASSUME NEW c \in Call, FirstCall(c)
      PROVE  /\ Created' /\ Down' /\ HoldsMutex'
             /\ SharesMutex' /\ PastExclusive'
  BY <1>10 DEF FirstCall, Return, Goto, TypeOK, Created, Down, HoldsMutex, SharesMutex, HasSession,
       PastExclusive, Past, Renewing, InFlight, Locked
<1>11. ASSUME NEW c \in Call, RefreshLock(c)
      PROVE  /\ Created' /\ Down' /\ HoldsMutex'
             /\ SharesMutex' /\ PastExclusive'
  BY <1>11 DEF RefreshLock, LockOf, Goto, TypeOK, Created, Down, HoldsMutex, SharesMutex, HasSession,
       PastExclusive, Past, Renewing, InFlight, Locked
<1>12. ASSUME NEW c \in Call, Acquire(c)
      PROVE  /\ Created' /\ Down' /\ HoldsMutex'
             /\ SharesMutex' /\ PastExclusive'
  BY <1>12 DEF Acquire, Goto, TypeOK, Created, Down, HoldsMutex, SharesMutex, HasSession,
       PastExclusive, Past, Renewing, InFlight, Locked
<1>13. ASSUME NEW c \in Call, Peek(c)
      PROVE  /\ Created' /\ Down' /\ HoldsMutex'
             /\ SharesMutex' /\ PastExclusive'
  BY <1>13 DEF Peek, Unlock, Return, Goto, TypeOK, Created, Down, HoldsMutex, SharesMutex, HasSession,
       PastExclusive, Past, Renewing, InFlight, Locked
<1>14. ASSUME NEW c \in Call, Compare(c)
      PROVE  /\ Created' /\ Down' /\ HoldsMutex'
             /\ SharesMutex' /\ PastExclusive'
  BY <1>14 DEF Compare, Goto, TypeOK, Created, Down, HoldsMutex, SharesMutex, HasSession,
       PastExclusive, Past, Renewing, InFlight, Locked
<1>15. ASSUME NEW c \in Call, SecondCall(c)
      PROVE  /\ Created' /\ Down' /\ HoldsMutex'
             /\ SharesMutex' /\ PastExclusive'
  BY <1>15 DEF SecondCall, Unlock, Return, Goto, TypeOK, Created, Down, HoldsMutex, SharesMutex, HasSession,
       PastExclusive, Past, Renewing, InFlight, Locked
<1>16. ASSUME NEW c \in Call, RefreshRotated(c)
      PROVE  /\ Created' /\ Down' /\ HoldsMutex'
             /\ SharesMutex' /\ PastExclusive'
  BY <1>16 DEF RefreshRotated, Goto, TypeOK, Created, Down, HoldsMutex, SharesMutex, HasSession,
       PastExclusive, Past, Renewing, InFlight, Locked
<1>17. ASSUME NEW c \in Call, RefreshKept(c)
      PROVE  /\ Created' /\ Down' /\ HoldsMutex'
             /\ SharesMutex' /\ PastExclusive'
  BY <1>17 DEF RefreshKept, Goto, TypeOK, Created, Down, HoldsMutex, SharesMutex, HasSession,
       PastExclusive, Past, Renewing, InFlight, Locked
<1>18. ASSUME NEW c \in Call, RefreshLost(c)
      PROVE  /\ Created' /\ Down' /\ HoldsMutex'
             /\ SharesMutex' /\ PastExclusive'
  BY <1>18 DEF RefreshLost, Goto, TypeOK, Created, Down, HoldsMutex, SharesMutex, HasSession,
       PastExclusive, Past, Renewing, InFlight, Locked
<1>19. ASSUME NEW c \in Call, RefreshFailed(c)
      PROVE  /\ Created' /\ Down' /\ HoldsMutex'
             /\ SharesMutex' /\ PastExclusive'
  BY <1>19 DEF RefreshFailed, Goto, TypeOK, Created, Down, HoldsMutex, SharesMutex, HasSession,
       PastExclusive, Past, Renewing, InFlight, Locked
<1>20. ASSUME NEW c \in Call, StrayRotation(c)
      PROVE  /\ Created' /\ Down' /\ HoldsMutex'
             /\ SharesMutex' /\ PastExclusive'
  BY <1>20 DEF StrayRotation, Return, Goto, TypeOK, Created, Down, HoldsMutex, SharesMutex, HasSession,
       PastExclusive, Past, Renewing, InFlight, Locked
<1>21. ASSUME NEW t \in Token, AccessLapse(t)
      PROVE  /\ Created' /\ Down' /\ HoldsMutex'
             /\ SharesMutex' /\ PastExclusive'
  BY <1>21 DEF AccessLapse, TypeOK, Created, Down, HoldsMutex, SharesMutex, HasSession,
       PastExclusive, Past, Renewing, InFlight, Locked
<1>22. ASSUME NEW t \in Token, RefreshLapse(t)
      PROVE  /\ Created' /\ Down' /\ HoldsMutex'
             /\ SharesMutex' /\ PastExclusive'
  BY <1>22 DEF RefreshLapse, TypeOK, Created, Down, HoldsMutex, SharesMutex, HasSession,
       PastExclusive, Past, Renewing, InFlight, Locked
<1>23. ASSUME NEW s \in Login, Expire(s)
      PROVE  /\ Created' /\ Down' /\ HoldsMutex'
             /\ SharesMutex' /\ PastExclusive'
  BY <1>23 DEF Expire, TypeOK, Created, Down, HoldsMutex, SharesMutex, HasSession,
       PastExclusive, Past, Renewing, InFlight, Locked
<1>24. ASSUME Exit
      PROVE  /\ Created' /\ Down' /\ HoldsMutex'
             /\ SharesMutex' /\ PastExclusive'
  <2>1. \A c \in Call : pc'[c] \notin InFlight
    BY <1>24 DEF Exit, InFlight, Locked
  <2>2. HoldsMutex' /\ SharesMutex' /\ PastExclusive'
    BY <2>1 DEF HoldsMutex, SharesMutex, PastExclusive, Past, Renewing, InFlight, Locked
  <2>3. Down'
    BY <1>24, <2>1 DEF Exit, Down, TypeOK
  <2>4. Created'
    <3>1. live' = {} /\ disk' = disk /\ \A l \in Login : signIn[l] = "in" => signIn'[l] = "in"
      BY <1>24 DEF Exit
    <3> QED
      BY <3>1 DEF Created, TypeOK, StateFile
  <2> QED
    BY <2>2, <2>3, <2>4
<1>25. ASSUME Restart
      PROVE  /\ Created' /\ Down' /\ HoldsMutex'
             /\ SharesMutex' /\ PastExclusive'
  <2>1. Created' /\ Down'
    BY <1>25 DEF Restart, Created, Down
  <2>2. \A c \in Call : pc'[c] \notin InFlight
    BY <1>25 DEF Restart, Down
  <2>3. HoldsMutex' /\ SharesMutex' /\ PastExclusive'
    BY <2>2 DEF HoldsMutex, SharesMutex, PastExclusive, Past, Renewing, InFlight, Locked
  <2> QED
    BY <2>1, <2>3
<1>26. CASE UNCHANGED vars
  BY <1>26 DEF vars, TypeOK, HasSession, Created, Down, HoldsMutex, SharesMutex,
     PastExclusive
<1> QED
  BY <1>0, <1>1, <1>2, <1>3, <1>4, <1>5, <1>6, <1>7, <1>8, <1>9, <1>10, <1>11,
     <1>12, <1>13, <1>14, <1>15, <1>16, <1>17, <1>18, <1>19, <1>20, <1>21, <1>22, <1>23,
     <1>24, <1>25, <1>26
  DEF Next, Handler

LEMMA LockInvHolds == Spec => []LockInv
  BY InitLockInv, NextLockInv, PTL DEF Spec

THEOREM TypeCorrect == Spec => []TypeOK
  BY LockInvHolds, PTL DEF LockInv

\* At most one request renews a session at a time, for any number of sessions,
\* requests, exits and failed saves.
THEOREM OneRenewalAtATime == Spec => []RotationExclusive
<1>1. LockInv => RotationExclusive
  BY DEF LockInv, PastExclusive, RotationExclusive, Past
<1> QED
  BY <1>1, LockInvHolds, PTL

=============================================================================
