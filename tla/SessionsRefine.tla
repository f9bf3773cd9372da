---------------------------- MODULE SessionsRefine ----------------------------
(***************************************************************************)
(* Sessions implements SessionPromise when saves succeed, for any number   *)
(* of sign-ins, requests, exits and restarts: no interleaving shows a      *)
(* session other than one that begins once, is renewed by its own requests *)
(* and is over for good.                                                   *)
(***************************************************************************)
EXTENDS SessionsTokens

\* What the store shows of its sessions: the mapping of Promise.
Shown == [s \in Login |-> IF s \in Held THEN "active"
                          ELSE IF signIn[s] = "in" THEN "over" ELSE "none"]
ShownAccess  == [s \in Login |-> IF s \notin Held THEN None
                                 ELSE IF running THEN access[s] ELSE disk.access[s]]
ShownRefresh == [s \in Login |-> IF s \notin Held THEN None
                                 ELSE IF running THEN refresh[s] ELSE disk.refresh[s]]

-----------------------------------------------------------------------------
(* What the mapping needs beside TokenInv.                                 *)

\* A sign-in holds nothing before bkn grants it, and its own tokens then.
GrantedHolds ==
    \A l \in Login :
        /\ signIn[l] = "new" => refresh[l] = None
        /\ signIn[l] = "granted" => access[l] = l /\ refresh[l] \in {l, None}

\* A request that has not stored its renewal is named by no access token.
AccessMinted == \A s \in Login : access[s] \notin Unminted /\ disk.access[s] \notin Unminted

\* A session that is being renewed has a refresh token.
RenewsWithToken ==
    \A c \in Call : pc[c] \in {"refresh", "update"} => refresh[sess[c]] # None

\* Saves succeed.
Synced == ~behind

MapInv == GrantedHolds /\ AccessMinted /\ RenewsWithToken

LEMMA NextGrantedHolds ==
  LockInv /\ GrantedHolds /\ [Next]_vars => GrantedHolds'
<1> SUFFICES ASSUME LockInv, GrantedHolds, [Next]_vars PROVE GrantedHolds'
  OBVIOUS
<1> USE NamesAssumption
    DEF proc, store, file, locks, request, locals, bkn, history
<1>1. ASSUME NEW l \in Login, BknLogin(l) PROVE GrantedHolds'
  BY <1>1 DEF BknLogin, LockInv, TypeOK, GrantedHolds
<1>2. ASSUME NEW l \in Login, Create(l) PROVE GrantedHolds'
  BY <1>2 DEF Create, GrantedHolds
<1>3. ASSUME NEW s \in Login, Logout(s) PROVE GrantedHolds'
  BY <1>3 DEF Logout, Remove, GrantedHolds
<1>4. ASSUME Sweep PROVE GrantedHolds'
  BY <1>4 DEF Sweep, GrantedHolds
<1>5. ASSUME NEW c \in Call, Update(c) PROVE GrantedHolds'
  BY <1>5 DEF Update, StoreRenewed, LockInv, TypeOK, Created, GrantedHolds
<1>6. ASSUME NEW c \in Call, Drop(c) PROVE GrantedHolds'
  BY <1>6 DEF Drop, Remove, GrantedHolds
<1>7. ASSUME NEW s \in Login, Me(s) PROVE GrantedHolds'
  BY <1>7 DEF Me, GrantedHolds
<1>8. ASSUME NEW c \in Call, Get(c) PROVE GrantedHolds'
  BY <1>8 DEF Get, GrantedHolds
<1>9. ASSUME NEW c \in Call, ReadAccess(c) PROVE GrantedHolds'
  BY <1>9 DEF ReadAccess, GrantedHolds
<1>10. ASSUME NEW c \in Call, FirstCall(c) PROVE GrantedHolds'
  BY <1>10 DEF FirstCall, GrantedHolds
<1>11. ASSUME NEW c \in Call, RefreshLock(c) PROVE GrantedHolds'
  BY <1>11 DEF RefreshLock, GrantedHolds
<1>12. ASSUME NEW c \in Call, Acquire(c) PROVE GrantedHolds'
  BY <1>12 DEF Acquire, GrantedHolds
<1>13. ASSUME NEW c \in Call, Peek(c) PROVE GrantedHolds'
  BY <1>13 DEF Peek, GrantedHolds
<1>14. ASSUME NEW c \in Call, Compare(c) PROVE GrantedHolds'
  BY <1>14 DEF Compare, GrantedHolds
<1>15. ASSUME NEW c \in Call, SecondCall(c) PROVE GrantedHolds'
  BY <1>15 DEF SecondCall, GrantedHolds
<1>16. ASSUME NEW c \in Call, RefreshRotated(c) PROVE GrantedHolds'
  BY <1>16 DEF RefreshRotated, GrantedHolds
<1>17. ASSUME NEW c \in Call, RefreshKept(c) PROVE GrantedHolds'
  BY <1>17 DEF RefreshKept, GrantedHolds
<1>18. ASSUME NEW c \in Call, RefreshLost(c) PROVE GrantedHolds'
  BY <1>18 DEF RefreshLost, GrantedHolds
<1>19. ASSUME NEW c \in Call, RefreshFailed(c) PROVE GrantedHolds'
  BY <1>19 DEF RefreshFailed, GrantedHolds
<1>20. ASSUME NEW c \in Call, StrayRotation(c) PROVE GrantedHolds'
  BY <1>20 DEF StrayRotation, GrantedHolds
<1>21. ASSUME NEW t \in Token, AccessLapse(t) PROVE GrantedHolds'
  BY <1>21 DEF AccessLapse, GrantedHolds
<1>22. ASSUME NEW t \in Token, RefreshLapse(t) PROVE GrantedHolds'
  BY <1>22 DEF RefreshLapse, GrantedHolds
<1>23. ASSUME NEW s \in Login, Expire(s) PROVE GrantedHolds'
  BY <1>23 DEF Expire, GrantedHolds
<1>24. ASSUME Exit PROVE GrantedHolds'
  BY <1>24 DEF Exit, GrantedHolds
<1>25. ASSUME Restart PROVE GrantedHolds'
  BY <1>25 DEF Restart, LockInv, Created, Down, GrantedHolds
<1>26. CASE UNCHANGED vars
  BY <1>26 DEF vars, GrantedHolds
<1> QED
  BY <1>1, <1>2, <1>3, <1>4, <1>5, <1>6, <1>7, <1>8, <1>9, <1>10, <1>11, <1>12,
     <1>13, <1>14, <1>15, <1>16, <1>17, <1>18, <1>19, <1>20, <1>21, <1>22, <1>23,
     <1>24, <1>25, <1>26
  DEF Next, Handler

LEMMA NextAccessMinted ==
  LockInv /\ AccessMinted /\ [Next]_vars => AccessMinted'
<1> SUFFICES ASSUME LockInv, AccessMinted, [Next]_vars PROVE AccessMinted'
  OBVIOUS
<1> USE NamesAssumption
    DEF proc, store, file, locks, request, locals, bkn, history
<1>1. ASSUME NEW l \in Login, BknLogin(l) PROVE AccessMinted'
  BY <1>1 DEF BknLogin, AccessMinted, Unminted
<1>2. ASSUME NEW l \in Login, Create(l) PROVE AccessMinted'
  BY <1>2 DEF Create, Save, AccessMinted, Unminted
<1>3. ASSUME NEW s \in Login, Logout(s) PROVE AccessMinted'
  BY <1>3 DEF Logout, Remove, Save, AccessMinted, Unminted
<1>4. ASSUME Sweep PROVE AccessMinted'
  BY <1>4 DEF Sweep, Save, AccessMinted, Unminted
<1>5. ASSUME NEW c \in Call, Update(c) PROVE AccessMinted'
  BY <1>5 DEF Update, StoreRenewed, Save, Goto, LockInv, TypeOK, HasSession, AccessMinted,
     Unminted
<1>6. ASSUME NEW c \in Call, Drop(c) PROVE AccessMinted'
  BY <1>6 DEF Drop, Remove, Save, Return, Goto, AccessMinted, Unminted
<1>7. ASSUME NEW s \in Login, Me(s) PROVE AccessMinted'
  BY <1>7 DEF Me, AccessMinted, Unminted
<1>8. ASSUME NEW c \in Call, Get(c) PROVE AccessMinted'
  BY <1>8 DEF Get, Goto, LockInv, TypeOK, AccessMinted, Unminted
<1>9. ASSUME NEW c \in Call, ReadAccess(c) PROVE AccessMinted'
  BY <1>9 DEF ReadAccess, Goto, AccessMinted, Unminted
<1>10. ASSUME NEW c \in Call, FirstCall(c) PROVE AccessMinted'
  BY <1>10 DEF FirstCall, Return, Goto, LockInv, TypeOK, AccessMinted, Unminted
<1>11. ASSUME NEW c \in Call, RefreshLock(c) PROVE AccessMinted'
  BY <1>11 DEF RefreshLock, Goto, AccessMinted, Unminted
<1>12. ASSUME NEW c \in Call, Acquire(c) PROVE AccessMinted'
  BY <1>12 DEF Acquire, Goto, AccessMinted, Unminted
<1>13. ASSUME NEW c \in Call, Peek(c) PROVE AccessMinted'
  BY <1>13 DEF Peek, Return, Goto, LockInv, TypeOK, AccessMinted, Unminted
<1>14. ASSUME NEW c \in Call, Compare(c) PROVE AccessMinted'
  BY <1>14 DEF Compare, Goto, LockInv, TypeOK, AccessMinted, Unminted
<1>15. ASSUME NEW c \in Call, SecondCall(c) PROVE AccessMinted'
  BY <1>15 DEF SecondCall, Return, Goto, AccessMinted, Unminted
<1>16. ASSUME NEW c \in Call, RefreshRotated(c) PROVE AccessMinted'
  BY <1>16 DEF RefreshRotated, Goto, AccessMinted, Unminted
<1>17. ASSUME NEW c \in Call, RefreshKept(c) PROVE AccessMinted'
  BY <1>17 DEF RefreshKept, Goto, AccessMinted, Unminted
<1>18. ASSUME NEW c \in Call, RefreshLost(c) PROVE AccessMinted'
  BY <1>18 DEF RefreshLost, Goto, AccessMinted, Unminted
<1>19. ASSUME NEW c \in Call, RefreshFailed(c) PROVE AccessMinted'
  BY <1>19 DEF RefreshFailed, Goto, AccessMinted, Unminted
<1>20. ASSUME NEW c \in Call, StrayRotation(c) PROVE AccessMinted'
  BY <1>20 DEF StrayRotation, Return, Goto, AccessMinted, Unminted
<1>21. ASSUME NEW t \in Token, AccessLapse(t) PROVE AccessMinted'
  BY <1>21 DEF AccessLapse, AccessMinted, Unminted
<1>22. ASSUME NEW t \in Token, RefreshLapse(t) PROVE AccessMinted'
  BY <1>22 DEF RefreshLapse, AccessMinted, Unminted
<1>23. ASSUME NEW s \in Login, Expire(s) PROVE AccessMinted'
  BY <1>23 DEF Expire, AccessMinted, Unminted
<1>24. ASSUME Exit PROVE AccessMinted'
  BY <1>24 DEF Exit, AccessMinted, Unminted
<1>25. ASSUME Restart PROVE AccessMinted'
  BY <1>25 DEF Restart, AccessMinted, Unminted
<1>26. CASE UNCHANGED vars
  BY <1>26 DEF vars, AccessMinted, Unminted
<1> QED
  BY <1>1, <1>2, <1>3, <1>4, <1>5, <1>6, <1>7, <1>8, <1>9, <1>10, <1>11, <1>12,
     <1>13, <1>14, <1>15, <1>16, <1>17, <1>18, <1>19, <1>20, <1>21, <1>22, <1>23,
     <1>24, <1>25, <1>26
  DEF Next, Handler

LEMMA NextRenewsWithToken ==
  LockInv /\ RenewsWithToken /\ [Next]_vars => RenewsWithToken'
<1> SUFFICES ASSUME LockInv, RenewsWithToken, [Next]_vars PROVE RenewsWithToken'
  OBVIOUS
<1> USE NamesAssumption
    DEF proc, store, file, locks, request, locals, bkn, history
<1>1. ASSUME NEW l \in Login, BknLogin(l) PROVE RenewsWithToken'
  BY <1>1 DEF BknLogin, LockInv, TypeOK, HasSession, RenewsWithToken
<1>2. ASSUME NEW l \in Login, Create(l) PROVE RenewsWithToken'
  BY <1>2 DEF Create, RenewsWithToken
<1>3. ASSUME NEW s \in Login, Logout(s) PROVE RenewsWithToken'
  BY <1>3 DEF Logout, Remove, RenewsWithToken
<1>4. ASSUME Sweep PROVE RenewsWithToken'
  BY <1>4 DEF Sweep, RenewsWithToken
<1>5. ASSUME NEW c \in Call, Update(c) PROVE RenewsWithToken'
  BY <1>5 DEF Update, StoreRenewed, Goto, PastExclusive, Past, Renewing, LockInv, TypeOK,
     HasSession, RenewsWithToken
<1>6. ASSUME NEW c \in Call, Drop(c) PROVE RenewsWithToken'
  BY <1>6 DEF Drop, Remove, Return, Goto, RenewsWithToken
<1>7. ASSUME NEW s \in Login, Me(s) PROVE RenewsWithToken'
  BY <1>7 DEF Me, RenewsWithToken
<1>8. ASSUME NEW c \in Call, Get(c) PROVE RenewsWithToken'
  BY <1>8 DEF Get, Goto, LockInv, TypeOK, RenewsWithToken
<1>9. ASSUME NEW c \in Call, ReadAccess(c) PROVE RenewsWithToken'
  BY <1>9 DEF ReadAccess, Goto, RenewsWithToken
<1>10. ASSUME NEW c \in Call, FirstCall(c) PROVE RenewsWithToken'
  BY <1>10 DEF FirstCall, Return, Goto, LockInv, TypeOK, RenewsWithToken
<1>11. ASSUME NEW c \in Call, RefreshLock(c) PROVE RenewsWithToken'
  BY <1>11 DEF RefreshLock, Goto, RenewsWithToken
<1>12. ASSUME NEW c \in Call, Acquire(c) PROVE RenewsWithToken'
  BY <1>12 DEF Acquire, Goto, RenewsWithToken
<1>13. ASSUME NEW c \in Call, Peek(c) PROVE RenewsWithToken'
  BY <1>13 DEF Peek, Return, Goto, LockInv, TypeOK, RenewsWithToken
<1>14. ASSUME NEW c \in Call, Compare(c) PROVE RenewsWithToken'
  BY <1>14 DEF Compare, Goto, LockInv, TypeOK, RenewsWithToken
<1>15. ASSUME NEW c \in Call, SecondCall(c) PROVE RenewsWithToken'
  BY <1>15 DEF SecondCall, Return, Goto, RenewsWithToken
<1>16. ASSUME NEW c \in Call, RefreshRotated(c) PROVE RenewsWithToken'
  BY <1>16 DEF RefreshRotated, Goto, RenewsWithToken
<1>17. ASSUME NEW c \in Call, RefreshKept(c) PROVE RenewsWithToken'
  BY <1>17 DEF RefreshKept, Goto, RenewsWithToken
<1>18. ASSUME NEW c \in Call, RefreshLost(c) PROVE RenewsWithToken'
  BY <1>18 DEF RefreshLost, Goto, RenewsWithToken
<1>19. ASSUME NEW c \in Call, RefreshFailed(c) PROVE RenewsWithToken'
  BY <1>19 DEF RefreshFailed, Goto, RenewsWithToken
<1>20. ASSUME NEW c \in Call, StrayRotation(c) PROVE RenewsWithToken'
  BY <1>20 DEF StrayRotation, Return, Goto, RenewsWithToken
<1>21. ASSUME NEW t \in Token, AccessLapse(t) PROVE RenewsWithToken'
  BY <1>21 DEF AccessLapse, RenewsWithToken
<1>22. ASSUME NEW t \in Token, RefreshLapse(t) PROVE RenewsWithToken'
  BY <1>22 DEF RefreshLapse, RenewsWithToken
<1>23. ASSUME NEW s \in Login, Expire(s) PROVE RenewsWithToken'
  BY <1>23 DEF Expire, RenewsWithToken
<1>24. ASSUME Exit PROVE RenewsWithToken'
  BY <1>24 DEF Exit, InFlight, Locked, RenewsWithToken
<1>25. ASSUME Restart PROVE RenewsWithToken'
  BY <1>25 DEF Restart, InFlight, Locked, LockInv, Down, RenewsWithToken
<1>26. CASE UNCHANGED vars
  BY <1>26 DEF vars, RenewsWithToken
<1> QED
  BY <1>1, <1>2, <1>3, <1>4, <1>5, <1>6, <1>7, <1>8, <1>9, <1>10, <1>11, <1>12,
     <1>13, <1>14, <1>15, <1>16, <1>17, <1>18, <1>19, <1>20, <1>21, <1>22, <1>23,
     <1>24, <1>25, <1>26
  DEF Next, Handler

LEMMA NextSynced == ~SaveMayFail /\ Synced /\ [Next]_vars => Synced'
BY DEF Synced, vars, file, Next, BknLogin, Create, Logout, Me, Expire, Remove, Save, Get, Handler,
   ReadAccess, FirstCall, RefreshLock, Acquire, Peek, Compare, Update, StoreRenewed, SecondCall,
   Drop, RefreshRotated, RefreshKept, RefreshLost, RefreshFailed, StrayRotation, AccessLapse,
   RefreshLapse, Sweep, Exit, Restart

-----------------------------------------------------------------------------
(* The steps of a session, in terms of what is shown.                      *)

LEMMA PromiseBegins ==
  ASSUME NEW s \in Login, NEW t \in {s, None}, Shown[s] = "none",
         Shown' = [Shown EXCEPT ![s] = "active"],
         ShownAccess' = [ShownAccess EXCEPT ![s] = s],
         ShownRefresh' = [ShownRefresh EXCEPT ![s] = t]
  PROVE  Promise!Next
BY DEF Shown, ShownAccess, ShownRefresh, Promise!Next, Promise!Begin

LEMMA PromiseRenews ==
  ASSUME NEW s \in Login, NEW c \in Call, Shown[s] = "active", ShownRefresh[s] # None,
         \A o \in Login : c \notin {ShownAccess[o], ShownRefresh[o]},
         Shown' = Shown,
         ShownAccess' = [ShownAccess EXCEPT ![s] = c],
         NEW t \in {c, ShownRefresh[s]},
         ShownRefresh' = [ShownRefresh EXCEPT ![s] = t]
  PROVE  Promise!Next
BY DEF Shown, ShownAccess, ShownRefresh, Promise!Next, Promise!Renew

LEMMA PromiseEnds ==
  ASSUME NEW S \in SUBSET Login, \A s \in S : Shown[s] = "active",
         Shown' = [s \in Login |-> IF s \in S THEN "over" ELSE Shown[s]],
         ShownAccess' = [s \in Login |-> IF s \in S THEN None ELSE ShownAccess[s]],
         ShownRefresh' = [s \in Login |-> IF s \in S THEN None ELSE ShownRefresh[s]]
  PROVE  Promise!Next
BY DEF Shown, ShownAccess, ShownRefresh, Promise!Next, Promise!End

-----------------------------------------------------------------------------
(* The steps of the store, in terms of the promise.                        *)

RefineInv == TokenInv /\ MapInv /\ Synced

LEMMA HeldAreIn == TokenInv => \A s \in Held : s \in Login /\ signIn[s] = "in"
BY DEF TokenInv, LockInv, TypeOK, StateFile, Created, Held

\* A step that ends the sessions of S, perhaps none, and leaves the others their tokens.
LEMMA SomeEnd ==
  ASSUME TokenInv, NEW S \in SUBSET Held, Held' = Held \ S,
         \A s \in Login : signIn'[s] = "in" <=> signIn[s] = "in",
         \A s \in Held' : /\ ShownAccess'[s] = ShownAccess[s]
                          /\ ShownRefresh'[s] = ShownRefresh[s]
  PROVE  Promise!Next
<1>1. S \in SUBSET Login /\ \A s \in S : Shown[s] = "active" /\ signIn[s] = "in"
  BY HeldAreIn DEF Shown
<1>2. Shown' = [s \in Login |-> IF s \in S THEN "over" ELSE Shown[s]]
  BY <1>1 DEF Shown
<1>3. ShownAccess' = [s \in Login |-> IF s \in S THEN None ELSE ShownAccess[s]]
  BY <1>1 DEF ShownAccess
<1>4. ShownRefresh' = [s \in Login |-> IF s \in S THEN None ELSE ShownRefresh[s]]
  BY <1>1 DEF ShownRefresh
<1> QED
  BY <1>1, <1>2, <1>3, <1>4, PromiseEnds

\* The same in memory, while the server runs.
LEMMA SomeLeave ==
  ASSUME TokenInv, running, running', NEW S \in SUBSET live, live' = live \ S, signIn' = signIn,
         access' = access, refresh' = refresh
  PROVE  Promise!Next
<1>1. S \in SUBSET Held /\ Held' = Held \ S
  BY DEF Held
<1>2. \A s \in Held' : /\ ShownAccess'[s] = ShownAccess[s]
                       /\ ShownRefresh'[s] = ShownRefresh[s]
  BY <1>1, HeldAreIn DEF ShownAccess, ShownRefresh
<1> QED
  BY <1>1, <1>2, SomeEnd

\* A step that touches neither memory nor file.
LEMMA NothingShows ==
  ASSUME TokenInv, UNCHANGED <<running, live, access, refresh, disk, expired, signIn>>
  PROVE  Promise!Next
<1>1. {} \in SUBSET Held /\ Held' = Held \ {}
  BY DEF Held
<1>2. \A s \in Held' : /\ ShownAccess'[s] = ShownAccess[s]
                       /\ ShownRefresh'[s] = ShownRefresh[s]
  BY <1>1, HeldAreIn DEF ShownAccess, ShownRefresh
<1> QED
  BY <1>1, <1>2, SomeEnd

LEMMA CreateBegins ==
  ASSUME RefineInv, NEW l \in Login, Create(l)
  PROVE  Promise!Next
<1> USE DEF RefineInv, TokenInv, LockInv, TypeOK
<1>1. running /\ running' /\ l \notin live
  BY DEF Create, proc, Down, Created
<1>2. access[l] = l /\ refresh[l] \in {l, None}
  BY DEF Create, MapInv, GrantedHolds
<1>3. /\ live' = live \cup {l} /\ UNCHANGED <<access, refresh>>
      /\ signIn[l] = "granted" /\ signIn' = [signIn EXCEPT ![l] = "in"]
  BY DEF Create
<1>4. Held = live /\ Held' = live \cup {l}
  BY <1>1, <1>3 DEF Held
<1>5. Shown[l] = "none" /\ Shown' = [Shown EXCEPT ![l] = "active"]
  BY <1>1, <1>3, <1>4 DEF Shown
<1>6. ShownAccess' = [ShownAccess EXCEPT ![l] = l]
  BY <1>1, <1>2, <1>3, <1>4 DEF ShownAccess
<1>7. ShownRefresh' = [ShownRefresh EXCEPT ![l] = refresh[l]]
  BY <1>1, <1>2, <1>3, <1>4 DEF ShownRefresh
<1> QED
  BY <1>2, <1>5, <1>6, <1>7, PromiseBegins

LEMMA UpdateRenews ==
  ASSUME RefineInv, NEW c \in Call, Update(c)
  PROVE  Promise!Next
<1> USE DEF RefineInv, TokenInv, LockInv, TypeOK
<1> DEFINE s == sess[c]
<1>1. running /\ running' /\ s \in Login /\ token[c] = c /\ signIn' = signIn
  BY DEF Update, proc, Down, InFlight, Locked, Renewing, HasSession
<1>2. CASE s \notin live
  <2>1. live' = live \ {} /\ {} \in SUBSET live /\ access' = access /\ refresh' = refresh
    BY <1>2 DEF Update, StoreRenewed
  <2> QED
    BY <1>1, <2>1, SomeLeave
<1>3. CASE s \in live
  <2>1. /\ live' = live
        /\ access' = [access EXCEPT ![s] = c]
        /\ refresh' = [refresh EXCEPT ![s] = KeptRefresh(c)]
    BY <1>1, <1>3 DEF Update, StoreRenewed
  <2>2. Held = live /\ Held' = live
    BY <1>1, <2>1 DEF Held
  <2>3. Shown[s] = "active" /\ Shown' = Shown
    BY <1>1, <1>3, <2>2 DEF Shown
  <2>4. ShownRefresh[s] = refresh[s] /\ refresh[s] # None
    BY <1>1, <1>3, <2>2 DEF ShownRefresh, Update, MapInv, RenewsWithToken
  <2>5. \A o \in Login : c \notin {ShownAccess[o], ShownRefresh[o]}
    <3>1. c \in Unminted /\ c # None
      BY NamesAssumption DEF Update, Unminted
    <3>2. \A o \in Login : c # access[o] /\ c # refresh[o]
      BY <3>1 DEF MapInv, AccessMinted, Minted
    <3> QED
      BY <1>1, <3>1, <3>2 DEF ShownAccess, ShownRefresh
  <2>6. ShownAccess' = [ShownAccess EXCEPT ![s] = c]
    BY <1>1, <1>3, <2>1, <2>2 DEF ShownAccess
  <2>7. KeptRefresh(c) \in {c, ShownRefresh[s]}
    BY <2>4 DEF KeptRefresh
  <2>8. ShownRefresh' = [ShownRefresh EXCEPT ![s] = KeptRefresh(c)]
    BY <1>1, <1>3, <2>1, <2>2 DEF ShownRefresh
  <2> HIDE DEF s
  <2> QED
    BY <1>1, <2>3, <2>4, <2>5, <2>6, <2>7, <2>8, PromiseRenews
<1> QED
  BY <1>2, <1>3

\* The server exits: what the file holds and has not expired is what memory held.
LEMMA ExitEnds ==
  ASSUME RefineInv, Exit
  PROVE  Promise!Next
<1> USE DEF RefineInv, TokenInv, LockInv, TypeOK
<1>1. running /\ ~running' /\ disk' = disk /\ expired' = expired
  BY DEF Exit, file
<1>2. /\ live \subseteq disk.ids /\ disk.ids \ live \subseteq expired
      /\ \A s \in live : disk.access[s] = access[s] /\ disk.refresh[s] = refresh[s]
  BY <1>1 DEF Synced, FileIsTheMap
<1>3. Held = live /\ Held' = live \ (live \cap expired)
  BY <1>1, <1>2 DEF Held
<1>4. \A s \in Login : signIn'[s] = "in" <=> signIn[s] = "in"
  <2>1. signIn' = [l \in Login |-> IF signIn[l] = "granted" THEN "lost" ELSE signIn[l]]
    BY DEF Exit
  <2> QED
    BY <2>1
<1>5. \A s \in Held' : /\ ShownAccess'[s] = ShownAccess[s]
                       /\ ShownRefresh'[s] = ShownRefresh[s]
  BY <1>1, <1>2, <1>3 DEF ShownAccess, ShownRefresh
<1>6. live \cap expired \in SUBSET Held
  BY <1>3
<1> QED
  BY <1>3, <1>4, <1>5, <1>6, SomeEnd

LEMMA RestartShowsNothing ==
  ASSUME RefineInv, Restart
  PROVE  Promise!Next
<1> USE DEF RefineInv, TokenInv, LockInv, TypeOK
<1>1. /\ ~running /\ running' /\ live' = disk.ids \ expired /\ signIn' = signIn
      /\ access' = [s \in Login |-> IF s \in live' THEN disk.access[s] ELSE None]
      /\ refresh' = [s \in Login |-> IF s \in live' THEN disk.refresh[s] ELSE None]
  BY DEF Restart
<1>2. {} \in SUBSET Held /\ Held' = Held \ {} /\ Held' = live'
  BY <1>1 DEF Held
<1>3. \A s \in Held' : s \in Login
  BY <1>1, <1>2 DEF StateFile
<1>4. \A s \in Held' : /\ ShownAccess'[s] = ShownAccess[s]
                       /\ ShownRefresh'[s] = ShownRefresh[s]
  BY <1>1, <1>2, <1>3 DEF ShownAccess, ShownRefresh
<1> QED
  BY <1>1, <1>2, <1>4, SomeEnd

LEMMA ExpireEnds ==
  ASSUME RefineInv, NEW s \in Login, Expire(s)
  PROVE  Promise!Next
<1> USE DEF RefineInv, TokenInv, LockInv, TypeOK
<1>1. /\ UNCHANGED <<running, live, access, refresh, disk, signIn>>
      /\ expired' = expired \cup {s}
  BY DEF Expire, proc, store, file
<1>2. CASE running
  <2>1. live' = live \ {} /\ {} \in SUBSET live
    BY <1>1
  <2> QED
    BY <1>1, <1>2, <2>1, SomeLeave
<1>3. CASE ~running
  <2>1. Held' = Held \ ({s} \cap Held) /\ {s} \cap Held \in SUBSET Held
    BY <1>1, <1>3 DEF Held
  <2>2. \A r \in Held' : /\ ShownAccess'[r] = ShownAccess[r]
                         /\ ShownRefresh'[r] = ShownRefresh[r]
    BY <1>1, <2>1, HeldAreIn DEF ShownAccess, ShownRefresh
  <2> QED
    BY <1>1, <2>1, <2>2, SomeEnd
<1> QED
  BY <1>2, <1>3

LEMMA GrantShowsNothing ==
  ASSUME RefineInv, NEW l \in Login, BknLogin(l)
  PROVE  Promise!Next
<1> USE DEF RefineInv, TokenInv, LockInv, TypeOK
<1>1. /\ UNCHANGED <<running, live, disk, expired>> /\ running
      /\ signIn[l] = "new" /\ signIn' = [signIn EXCEPT ![l] = "granted"]
      /\ \A s \in Login \ {l} : access'[s] = access[s] /\ refresh'[s] = refresh[s]
  BY DEF BknLogin, proc, file
<1>2. {} \in SUBSET Held /\ Held' = Held \ {} /\ l \notin Held
  BY <1>1, HeldAreIn DEF Held
<1>3. \A s \in Login : signIn'[s] = "in" <=> signIn[s] = "in"
  BY <1>1
<1>4. \A s \in Held' : /\ ShownAccess'[s] = ShownAccess[s]
                       /\ ShownRefresh'[s] = ShownRefresh[s]
  BY <1>1, <1>2, HeldAreIn DEF ShownAccess, ShownRefresh
<1> QED
  BY <1>2, <1>3, <1>4, SomeEnd

LEMMA NextKeepsPromise == RefineInv /\ [Next]_vars => [Promise!Next]_(Promise!promised)
<1> SUFFICES ASSUME RefineInv, [Next]_vars PROVE Promise!Next
  OBVIOUS
<1> USE DEF RefineInv, proc, store, file
<1>1. ASSUME NEW l \in Login, BknLogin(l) \/ Create(l) \/ Expire(l) PROVE Promise!Next
  BY <1>1, GrantShowsNothing, CreateBegins, ExpireEnds
<1>2. ASSUME NEW s \in Login, Logout(s) \/ Me(s) PROVE Promise!Next
  <2>1. /\ running /\ running' /\ live' = live \ ({s} \cap live)
        /\ {s} \cap live \in SUBSET live
        /\ signIn' = signIn /\ access' = access /\ refresh' = refresh
    BY <1>2 DEF Logout, Remove, Me
  <2> QED
    BY <2>1, SomeLeave
<1>3. ASSUME NEW c \in Call, Get(c) \/ Drop(c) PROVE Promise!Next
  <2>1. running
    BY <1>3 DEF Get, Drop, TokenInv, LockInv, Down, InFlight, Locked, Renewing
  <2>2. PICK S \in SUBSET live : live' = live \ S
    <3>1. CASE live' = live
      BY <3>1
    <3>2. ASSUME NEW s, live' = live \ {s} PROVE \E S \in SUBSET live : live' = live \ S
      <4>1. {s} \cap live \in SUBSET live /\ live' = live \ ({s} \cap live)
        BY <3>2
      <4> QED
        BY <4>1
    <3> QED
      BY <1>3, <3>1, <3>2 DEF Get, Drop, Remove
  <2>3. running' /\ signIn' = signIn /\ access' = access /\ refresh' = refresh
    BY <1>3, <2>1 DEF Get, Drop, Remove
  <2> QED
    BY <2>1, <2>2, <2>3, SomeLeave
<1>4. ASSUME Sweep PROVE Promise!Next
  <2>1. /\ running /\ running' /\ live' = live \ (live \cap expired)
        /\ signIn' = signIn /\ access' = access /\ refresh' = refresh
    BY <1>4 DEF Sweep
  <2> QED
    BY <2>1, SomeLeave
<1>5. ASSUME NEW c \in Call, Update(c) PROVE Promise!Next
  BY <1>5, UpdateRenews
<1>6. ASSUME NEW c \in Call, Handler(c), ~Update(c), ~Drop(c) PROVE Promise!Next
  <2>1. UNCHANGED <<running, live, access, refresh, disk, expired, signIn>>
    BY <1>6 DEF Handler, ReadAccess, FirstCall, RefreshLock, Acquire, Peek, Compare, SecondCall,
                RefreshRotated, RefreshKept, RefreshLost, RefreshFailed
  <2> QED
    BY <2>1, NothingShows
<1>7. ASSUME NEW c \in Call, StrayRotation(c) PROVE Promise!Next
  BY <1>7, NothingShows DEF StrayRotation
<1>8. ASSUME NEW t \in Token, AccessLapse(t) \/ RefreshLapse(t) PROVE Promise!Next
  BY <1>8, NothingShows DEF AccessLapse, RefreshLapse
<1>9. ASSUME Exit \/ Restart PROVE Promise!Next
  BY <1>9, ExitEnds, RestartShowsNothing
<1>10. CASE UNCHANGED vars
  BY <1>10, NothingShows DEF vars
<1> QED
  BY <1>1, <1>2, <1>3, <1>4, <1>5, <1>6, <1>7, <1>8, <1>9, <1>10 DEF Next, Handler

LEMMA RefineInvHolds == ~SaveMayFail => (Spec => []RefineInv)
<1>1. Init => MapInv /\ Synced
  BY NamesAssumption DEF Init, Empty, MapInv, GrantedHolds, AccessMinted, Unminted,
     RenewsWithToken, Synced
<1>2. TokenInv /\ MapInv /\ [Next]_vars => MapInv'
  BY NextGrantedHolds, NextAccessMinted, NextRenewsWithToken DEF TokenInv, MapInv
<1>3. ASSUME ~SaveMayFail PROVE Synced /\ [Next]_vars => Synced'
  BY <1>3, NextSynced
<1>4. ASSUME ~SaveMayFail PROVE Spec => []RefineInv
  <2>1. Synced /\ [Next]_vars => Synced'
    BY <1>4, <1>3
  <2> QED
    BY <1>1, <1>2, <2>1, TokenInvHolds, PTL DEF Spec, RefineInv
<1> QED
  BY <1>4

\* When saves succeed, no interleaving of requests, sweeps, exits and restarts shows a
\* session other than one that is signed in once, renewed by its own requests, and over
\* for good (session.go:147-237, api.go:79-143).
THEOREM StoreKeepsPromise == ~SaveMayFail => (Spec => KeepsPromise)
<1>1. Init => Promise!Init
  BY DEF Init, Promise!Init, Held
<1>2. ASSUME ~SaveMayFail PROVE Spec => Promise!Spec
  BY <1>1, <1>2, NextKeepsPromise, RefineInvHolds, PTL DEF Spec, Promise!Spec
<1> QED
  BY <1>2 DEF KeepsPromise

-----------------------------------------------------------------------------
(* What the promise is worth by itself.                                    *)

\* No two active sessions have a token in common.
SeparateTokens ==
    \A s, o \in Login :
        s # o /\ Shown[s] = "active" /\ Shown[o] = "active" =>
            /\ ShownAccess[s] # ShownAccess[o]
            /\ ShownRefresh[s] # None => ShownRefresh[s] # ShownRefresh[o]

\* What is over is not seen again.
OverIsFinal ==
    [][\A s \in Login : Shown[s] = "over" => Shown'[s] = "over"]_<<Shown, ShownAccess, ShownRefresh>>

\* An active session has tokens, each its sign-in's or a request's.
Issued ==
    \A s \in Login :
        /\ ShownAccess[s] \in {s, None} \cup Call /\ ShownRefresh[s] \in {s, None} \cup Call
        /\ Shown[s] = "active" => ShownAccess[s] # None

Stays(s) ==
    /\ Shown'[s] = Shown[s] /\ ShownAccess'[s] = ShownAccess[s]
    /\ ShownRefresh'[s] = ShownRefresh[s]

LEMMA BeginShows ==
  ASSUME NEW s \in Login, Promise!Begin(s)
  PROVE  /\ Shown[s] = "none" /\ Shown'[s] = "active" /\ ShownAccess'[s] = s
         /\ ShownRefresh'[s] \in {s, None} /\ \A o \in Login : o # s => Stays(o)
<1>1. PICK t \in {s, None} :
        /\ Shown[s] = "none" /\ Shown' = [Shown EXCEPT ![s] = "active"]
        /\ ShownAccess' = [ShownAccess EXCEPT ![s] = s]
        /\ ShownRefresh' = [ShownRefresh EXCEPT ![s] = t]
  BY DEF Promise!Begin, Shown, ShownAccess, ShownRefresh
<1>2. DOMAIN Shown = Login /\ DOMAIN ShownAccess = Login /\ DOMAIN ShownRefresh = Login
  BY DEF Shown, ShownAccess, ShownRefresh
<1> QED
  BY <1>1, <1>2 DEF Stays

LEMMA RenewShows ==
  ASSUME NEW s \in Login, NEW c \in Call, Promise!Renew(s, c)
  PROVE  /\ Shown[s] = "active" /\ Shown'[s] = "active" /\ ShownAccess'[s] = c
         /\ ShownRefresh'[s] \in {c, ShownRefresh[s]}
         /\ \A o \in Login : c \notin {ShownAccess[o], ShownRefresh[o]}
         /\ \A o \in Login : o # s => Stays(o)
<1>1. PICK t \in {c, ShownRefresh[s]} :
        /\ Shown[s] = "active" /\ Shown' = Shown
        /\ \A o \in Login : c \notin {ShownAccess[o], ShownRefresh[o]}
        /\ ShownAccess' = [ShownAccess EXCEPT ![s] = c]
        /\ ShownRefresh' = [ShownRefresh EXCEPT ![s] = t]
  BY DEF Promise!Renew, Shown, ShownAccess, ShownRefresh
<1>2. DOMAIN ShownAccess = Login /\ DOMAIN ShownRefresh = Login
  BY DEF ShownAccess, ShownRefresh
<1> QED
  BY <1>1, <1>2 DEF Stays

LEMMA EndShows ==
  ASSUME NEW S \in SUBSET Login, Promise!End(S)
  PROVE  \A s \in Login :
            \/ Shown[s] = "active" /\ Shown'[s] = "over" /\ ShownAccess'[s] = None
               /\ ShownRefresh'[s] = None
            \/ Stays(s)
<1>1. /\ \A s \in S : Shown[s] = "active"
      /\ Shown' = [s \in Login |-> IF s \in S THEN "over" ELSE Shown[s]]
      /\ ShownAccess' = [s \in Login |-> IF s \in S THEN None ELSE ShownAccess[s]]
      /\ ShownRefresh' = [s \in Login |-> IF s \in S THEN None ELSE ShownRefresh[s]]
  BY DEF Promise!End, Shown, ShownAccess, ShownRefresh
<1> QED
  BY <1>1 DEF Stays

LEMMA NextSeparate ==
  ASSUME Issued, SeparateTokens, Promise!Next
  PROVE  /\ Issued' /\ SeparateTokens'
         /\ \A s \in Login : Shown[s] = "over" => Shown'[s] = "over"
<1>1. ASSUME NEW s \in Login, Promise!Begin(s)
      PROVE  /\ Issued' /\ SeparateTokens'
             /\ \A o \in Login : Shown[o] = "over" => Shown'[o] = "over"
  BY <1>1, BeginShows, NamesAssumption DEF Issued, SeparateTokens, Stays
<1>2. ASSUME NEW s \in Login, NEW c \in Call, Promise!Renew(s, c)
      PROVE  /\ Issued' /\ SeparateTokens'
             /\ \A o \in Login : Shown[o] = "over" => Shown'[o] = "over"
  BY <1>2, RenewShows, NamesAssumption DEF Issued, SeparateTokens, Stays
<1>3. ASSUME NEW S \in SUBSET Login, Promise!End(S)
      PROVE  /\ Issued' /\ SeparateTokens'
             /\ \A o \in Login : Shown[o] = "over" => Shown'[o] = "over"
  BY <1>3, EndShows DEF Issued, SeparateTokens, Stays
<1> QED
  BY <1>1, <1>2, <1>3 DEF Promise!Next

\* From the promise alone: however requests, sweeps, exits and restarts interleave, two
\* active sessions never have a token in common, and a session that is over, signed
\* out, expired or dropped, is not seen again (session.go:147-237).
THEOREM PromiseSeparatesSessions == KeepsPromise => []SeparateTokens /\ OverIsFinal
<1>1. Promise!Init => Issued /\ SeparateTokens
  <2> SUFFICES ASSUME Promise!Init PROVE Issued /\ SeparateTokens
    OBVIOUS
  <2>1. \A s \in Login : Shown[s] = "none" /\ ShownAccess[s] = None /\ ShownRefresh[s] = None
    BY DEF Promise!Init, Shown, ShownAccess, ShownRefresh
  <2> QED
    BY <2>1 DEF Issued, SeparateTokens
<1>2. Issued /\ SeparateTokens /\ UNCHANGED Promise!promised => Issued' /\ SeparateTokens'
  BY DEF Promise!promised, Issued, SeparateTokens, Shown, ShownAccess, ShownRefresh
<1>3. Issued /\ SeparateTokens /\ [Promise!Next]_(Promise!promised) => Issued' /\ SeparateTokens'
  BY <1>2, NextSeparate
<1>4. Issued /\ SeparateTokens /\ [Promise!Next]_(Promise!promised) =>
        [\A s \in Login : Shown[s] = "over" => Shown'[s] = "over"]_<<Shown, ShownAccess, ShownRefresh>>
  BY NextSeparate DEF Promise!promised, Shown, ShownAccess, ShownRefresh
<1>5. Promise!Spec => []SeparateTokens /\ OverIsFinal
  BY <1>1, <1>3, <1>4, PTL DEF Promise!Spec, OverIsFinal
<1> QED
  BY <1>5 DEF KeepsPromise
=============================================================================
