---------------------------- MODULE SessionsTokens ----------------------------
(***************************************************************************)
(* Theorems about the tokens of Sessions: what is presented to bkn, what   *)
(* the state file holds, and what a sign-out ends.                         *)
(***************************************************************************)
EXTENDS SessionsProofs

-----------------------------------------------------------------------------
(* The invariant.  A refresh token is spent when some request rotates it;  *)
(* until that request has stored the new one, or dropped the session, it   *)
(* is past the peek and so alone (PastExclusive).                          *)

\* A request that has not yet stored its renewal names no refresh token.
Unminted == {c \in Call : pc[c] \in {"idle", "read", "call", "lock", "wait", "peek",
                                     "compare", "refresh", "update", "stray"}}

Presenting == {c \in Call : pc[c] \in {"refresh", "stray"}}

Minted ==
    /\ \A s \in Login : refresh[s] \notin Unminted /\ disk.refresh[s] \notin Unminted
    /\ \A c \in Presenting : token[c] \notin Unminted
    /\ spent \cap Unminted = {}

\* Refresh token t is one of session s: its sign-in's, or one a request of s got.
Of(t, s) == (t \in Login => t = s) /\ (t \in Call => sess[t] = s)

Home ==
    /\ \A s \in Login : Of(refresh[s], s) /\ Of(disk.refresh[s], s)
    /\ \A c \in Presenting : Of(token[c], sess[c])

\* Before its session is created, a sign-in's refresh token is in nobody's hand.
NewUnspent ==
    \A l \in Login : signIn[l] \in {"new", "granted"} =>
        refresh[l] \notin spent /\ l \notin spent

\* Some request of s has rotated s's refresh token and not yet dealt with it.
MidRotation(s) == \E c \in Call : sess[c] = s /\ Rotated(c)

MapUnspent ==
    \A s \in live \ orphaned : refresh[s] \in spent => MidRotation(s)

FileUnspent ==
    \A s \in disk.ids \ (expired \cup orphaned) :
        disk.refresh[s] \in spent => running /\ (behind \/ MidRotation(s))

HandUnspent ==
    \A c \in Call : sess[c] \notin orphaned =>
        /\ pc[c] = "compare" => refresh[sess[c]] \notin spent
        /\ pc[c] = "refresh" => token[c] \notin spent

StraysOrphaned == \A c \in Call : pc[c] = "stray" => sess[c] \in orphaned

\* A session signed out of is not in the map, nor in the file unless the save of the
\* sign-out failed.
SignedOutIsGone ==
    \A s \in loggedOut :
        signIn[s] = "in" /\ s \notin live /\ (s \in disk.ids => running /\ s \in unsaved)

TokenInv ==
    /\ LockInv /\ Minted /\ Home /\ FileIsTheMap /\ RenewsWhatFailed
    /\ NewUnspent /\ MapUnspent /\ FileUnspent /\ HandUnspent /\ StraysOrphaned /\ SignedOutIsGone

LEMMA NextMinted ==
  LockInv /\ Minted /\ [Next]_vars => Minted'
<1> SUFFICES ASSUME LockInv, Minted, [Next]_vars PROVE Minted'
  OBVIOUS
<1> USE NamesAssumption
    DEF proc, store, file, locks, request, locals, bkn, history
<1>1. ASSUME NEW l \in Login, BknLogin(l) PROVE Minted'
  BY <1>1 DEF BknLogin, LockInv, TypeOK, Minted, Unminted, Presenting
<1>2. ASSUME NEW l \in Login, Create(l) PROVE Minted'
  BY <1>2 DEF Create, Save, Minted, Unminted, Presenting
<1>3. ASSUME NEW s \in Login, Logout(s) PROVE Minted'
  BY <1>3 DEF Logout, Remove, Save, Minted, Unminted, Presenting
<1>4. ASSUME Sweep PROVE Minted'
  BY <1>4 DEF Sweep, Save, Minted, Unminted, Presenting
<1>5. ASSUME NEW c \in Call, Update(c) PROVE Minted'
  BY <1>5 DEF Update, StoreRenewed, KeptRefresh, Save, Goto, LockInv, TypeOK, Minted,
     Unminted, Presenting
<1>6. ASSUME NEW c \in Call, Drop(c) PROVE Minted'
  BY <1>6 DEF Drop, Remove, Save, Return, Goto, Minted, Unminted, Presenting
<1>7. ASSUME NEW s \in Login, Me(s) PROVE Minted'
  BY <1>7 DEF Me, Minted, Unminted, Presenting
<1>8. ASSUME NEW c \in Call, Get(c) PROVE Minted'
  BY <1>8 DEF Get, Goto, LockInv, TypeOK, Minted, Unminted, Presenting
<1>9. ASSUME NEW c \in Call, ReadAccess(c) PROVE Minted'
  BY <1>9 DEF ReadAccess, Goto, Minted, Unminted, Presenting
<1>10. ASSUME NEW c \in Call, FirstCall(c) PROVE Minted'
  BY <1>10 DEF FirstCall, Return, Goto, LockInv, TypeOK, Minted, Unminted, Presenting
<1>11. ASSUME NEW c \in Call, RefreshLock(c) PROVE Minted'
  BY <1>11 DEF RefreshLock, Goto, Minted, Unminted, Presenting
<1>12. ASSUME NEW c \in Call, Acquire(c) PROVE Minted'
  BY <1>12 DEF Acquire, Goto, Minted, Unminted, Presenting
<1>13. ASSUME NEW c \in Call, Peek(c) PROVE Minted'
  BY <1>13 DEF Peek, Return, Goto, LockInv, TypeOK, Minted, Unminted, Presenting
<1>14. ASSUME NEW c \in Call, Compare(c) PROVE Minted'
  BY <1>14 DEF Compare, Goto, LockInv, TypeOK, HasSession, Minted, Unminted, Presenting
<1>15. ASSUME NEW c \in Call, SecondCall(c) PROVE Minted'
  BY <1>15 DEF SecondCall, Return, Goto, Minted, Unminted, Presenting
<1>16. ASSUME NEW c \in Call, RefreshRotated(c) PROVE Minted'
  BY <1>16 DEF RefreshRotated, Rotate, Goto, LockInv, TypeOK, Minted, Unminted, Presenting
<1>17. ASSUME NEW c \in Call, RefreshKept(c) PROVE Minted'
  BY <1>17 DEF RefreshKept, Goto, LockInv, TypeOK, Minted, Unminted, Presenting
<1>18. ASSUME NEW c \in Call, RefreshLost(c) PROVE Minted'
  BY <1>18 DEF RefreshLost, Rotate, Goto, Minted, Unminted, Presenting
<1>19. ASSUME NEW c \in Call, RefreshFailed(c) PROVE Minted'
  BY <1>19 DEF RefreshFailed, Goto, Minted, Unminted, Presenting
<1>20. ASSUME NEW c \in Call, StrayRotation(c) PROVE Minted'
  BY <1>20 DEF StrayRotation, Rotate, Return, Goto, HasSession, Minted, Unminted, Presenting
<1>21. ASSUME NEW t \in Token, AccessLapse(t) PROVE Minted'
  BY <1>21 DEF AccessLapse, Minted, Unminted, Presenting, Token
<1>22. ASSUME NEW t \in Token, RefreshLapse(t) PROVE Minted'
  BY <1>22 DEF RefreshLapse, Minted, Unminted, Presenting
<1>23. ASSUME NEW s \in Login, Expire(s) PROVE Minted'
  BY <1>23 DEF Expire, Minted, Unminted, Presenting
<1>24. ASSUME Exit PROVE Minted'
  BY <1>24 DEF Exit, TypeOK, Minted, Unminted, Presenting
<1>25. ASSUME Restart PROVE Minted'
  BY <1>25 DEF Restart, LockInv, Minted, Unminted, Presenting
<1>26. CASE UNCHANGED vars
  BY <1>26 DEF vars, Minted, Unminted, Presenting
<1> QED
  BY <1>1, <1>2, <1>3, <1>4, <1>5, <1>6, <1>7, <1>8, <1>9, <1>10, <1>11, <1>12,
     <1>13, <1>14, <1>15, <1>16, <1>17, <1>18, <1>19, <1>20, <1>21, <1>22, <1>23,
     <1>24, <1>25, <1>26
  DEF Next, Handler

LEMMA NextHome ==
  LockInv /\ Minted /\ Home /\ [Next]_vars => Home'
<1> SUFFICES ASSUME LockInv, Minted, Home, [Next]_vars PROVE Home'
  OBVIOUS
<1> USE NamesAssumption
    DEF proc, store, file, locks, request, locals, bkn, history
<1>1. ASSUME NEW l \in Login, BknLogin(l) PROVE Home'
  BY <1>1 DEF BknLogin, LockInv, TypeOK, Presenting, Home, Of
<1>2. ASSUME NEW l \in Login, Create(l) PROVE Home'
  BY <1>2 DEF Create, Save, Presenting, Home, Of
<1>3. ASSUME NEW s \in Login, Logout(s) PROVE Home'
  BY <1>3 DEF Logout, Remove, Save, Presenting, Home, Of
<1>4. ASSUME Sweep PROVE Home'
  BY <1>4 DEF Sweep, Save, Presenting, Home, Of
<1>5. ASSUME NEW c \in Call, Update(c) PROVE Home'
  BY <1>5 DEF Update, StoreRenewed, KeptRefresh, Save, Goto, LockInv, TypeOK, Presenting,
     Home, Of
<1>6. ASSUME NEW c \in Call, Drop(c) PROVE Home'
  BY <1>6 DEF Drop, Remove, Save, Return, Goto, Presenting, Home, Of
<1>7. ASSUME NEW s \in Login, Me(s) PROVE Home'
  BY <1>7 DEF Me, Presenting, Home, Of
<1>8. ASSUME NEW c \in Call, Get(c) PROVE Home'
  BY <1>8 DEF Get, Goto, LockInv, TypeOK, Minted, Unminted, Presenting, Home, Of
<1>9. ASSUME NEW c \in Call, ReadAccess(c) PROVE Home'
  BY <1>9 DEF ReadAccess, Goto, Presenting, Home, Of
<1>10. ASSUME NEW c \in Call, FirstCall(c) PROVE Home'
  BY <1>10 DEF FirstCall, Return, Goto, LockInv, TypeOK, Presenting, Home, Of
<1>11. ASSUME NEW c \in Call, RefreshLock(c) PROVE Home'
  BY <1>11 DEF RefreshLock, Goto, Presenting, Home, Of
<1>12. ASSUME NEW c \in Call, Acquire(c) PROVE Home'
  BY <1>12 DEF Acquire, Goto, Presenting, Home, Of
<1>13. ASSUME NEW c \in Call, Peek(c) PROVE Home'
  BY <1>13 DEF Peek, Return, Goto, LockInv, TypeOK, Presenting, Home, Of
<1>14. ASSUME NEW c \in Call, Compare(c) PROVE Home'
  BY <1>14 DEF Compare, Goto, LockInv, TypeOK, HasSession, Presenting, Home, Of
<1>15. ASSUME NEW c \in Call, SecondCall(c) PROVE Home'
  BY <1>15 DEF SecondCall, Return, Goto, Presenting, Home, Of
<1>16. ASSUME NEW c \in Call, RefreshRotated(c) PROVE Home'
  BY <1>16 DEF RefreshRotated, Goto, Presenting, Home, Of
<1>17. ASSUME NEW c \in Call, RefreshKept(c) PROVE Home'
  BY <1>17 DEF RefreshKept, Goto, Presenting, Home, Of
<1>18. ASSUME NEW c \in Call, RefreshLost(c) PROVE Home'
  BY <1>18 DEF RefreshLost, Goto, Presenting, Home, Of
<1>19. ASSUME NEW c \in Call, RefreshFailed(c) PROVE Home'
  BY <1>19 DEF RefreshFailed, Goto, Presenting, Home, Of
<1>20. ASSUME NEW c \in Call, StrayRotation(c) PROVE Home'
  BY <1>20 DEF StrayRotation, Return, Goto, Presenting, Home, Of
<1>21. ASSUME NEW t \in Token, AccessLapse(t) PROVE Home'
  BY <1>21 DEF AccessLapse, Presenting, Home, Of
<1>22. ASSUME NEW t \in Token, RefreshLapse(t) PROVE Home'
  BY <1>22 DEF RefreshLapse, Presenting, Home, Of
<1>23. ASSUME NEW s \in Login, Expire(s) PROVE Home'
  BY <1>23 DEF Expire, Presenting, Home, Of
<1>24. ASSUME Exit PROVE Home'
  BY <1>24 DEF Exit, Presenting, Home, Of
<1>25. ASSUME Restart PROVE Home'
  BY <1>25 DEF Restart, Presenting, Home, Of
<1>26. CASE UNCHANGED vars
  BY <1>26 DEF vars, Home, Of, Presenting
<1> QED
  BY <1>1, <1>2, <1>3, <1>4, <1>5, <1>6, <1>7, <1>8, <1>9, <1>10, <1>11, <1>12,
     <1>13, <1>14, <1>15, <1>16, <1>17, <1>18, <1>19, <1>20, <1>21, <1>22, <1>23,
     <1>24, <1>25, <1>26
  DEF Next, Handler

LEMMA NextFileIsTheMap ==
  LockInv /\ FileIsTheMap /\ [Next]_vars => FileIsTheMap'
<1> SUFFICES ASSUME LockInv, FileIsTheMap, [Next]_vars PROVE FileIsTheMap'
  OBVIOUS
<1> USE NamesAssumption
    DEF proc, store, file, locks, request, locals, bkn, history
<1>1. ASSUME NEW l \in Login, BknLogin(l) PROVE FileIsTheMap'
  BY <1>1 DEF BknLogin, LockInv, TypeOK, Created, FileIsTheMap
<1>2. ASSUME NEW l \in Login, Create(l) PROVE FileIsTheMap'
  BY <1>2 DEF Create, Save, LockInv, TypeOK, FileIsTheMap
<1>3. ASSUME NEW s \in Login, Logout(s) PROVE FileIsTheMap'
  BY <1>3 DEF Logout, Remove, Save, LockInv, TypeOK, FileIsTheMap
<1>4. ASSUME Sweep PROVE FileIsTheMap'
  BY <1>4 DEF Sweep, Save, LockInv, TypeOK, FileIsTheMap
<1>5. ASSUME NEW c \in Call, Update(c) PROVE FileIsTheMap'
  BY <1>5 DEF Update, StoreRenewed, Save, LockInv, TypeOK, FileIsTheMap
<1>6. ASSUME NEW c \in Call, Drop(c) PROVE FileIsTheMap'
  BY <1>6 DEF Drop, Remove, Save, LockInv, TypeOK, FileIsTheMap
<1>7. ASSUME NEW s \in Login, Me(s) PROVE FileIsTheMap'
  BY <1>7 DEF Me, FileIsTheMap
<1>8. ASSUME NEW c \in Call, Get(c) PROVE FileIsTheMap'
  BY <1>8 DEF Get, FileIsTheMap
<1>9. ASSUME NEW c \in Call, ReadAccess(c) PROVE FileIsTheMap'
  BY <1>9 DEF ReadAccess, Down, FileIsTheMap
<1>10. ASSUME NEW c \in Call, FirstCall(c) PROVE FileIsTheMap'
  BY <1>10 DEF FirstCall, FileIsTheMap
<1>11. ASSUME NEW c \in Call, RefreshLock(c) PROVE FileIsTheMap'
  BY <1>11 DEF RefreshLock, Created, FileIsTheMap
<1>12. ASSUME NEW c \in Call, Acquire(c) PROVE FileIsTheMap'
  BY <1>12 DEF Acquire, FileIsTheMap
<1>13. ASSUME NEW c \in Call, Peek(c) PROVE FileIsTheMap'
  BY <1>13 DEF Peek, FileIsTheMap
<1>14. ASSUME NEW c \in Call, Compare(c) PROVE FileIsTheMap'
  BY <1>14 DEF Compare, FileIsTheMap
<1>15. ASSUME NEW c \in Call, SecondCall(c) PROVE FileIsTheMap'
  BY <1>15 DEF SecondCall, FileIsTheMap
<1>16. ASSUME NEW c \in Call, RefreshRotated(c) PROVE FileIsTheMap'
  BY <1>16 DEF RefreshRotated, FileIsTheMap
<1>17. ASSUME NEW c \in Call, RefreshKept(c) PROVE FileIsTheMap'
  BY <1>17 DEF RefreshKept, FileIsTheMap
<1>18. ASSUME NEW c \in Call, RefreshLost(c) PROVE FileIsTheMap'
  BY <1>18 DEF RefreshLost, FileIsTheMap
<1>19. ASSUME NEW c \in Call, RefreshFailed(c) PROVE FileIsTheMap'
  BY <1>19 DEF RefreshFailed, FileIsTheMap
<1>20. ASSUME NEW c \in Call, StrayRotation(c) PROVE FileIsTheMap'
  BY <1>20 DEF StrayRotation, FileIsTheMap
<1>21. ASSUME NEW t \in Token, AccessLapse(t) PROVE FileIsTheMap'
  BY <1>21 DEF AccessLapse, HasSession, FileIsTheMap
<1>22. ASSUME NEW t \in Token, RefreshLapse(t) PROVE FileIsTheMap'
  BY <1>22 DEF RefreshLapse, FileIsTheMap
<1>23. ASSUME NEW s \in Login, Expire(s) PROVE FileIsTheMap'
  BY <1>23 DEF Expire, FileIsTheMap
<1>24. ASSUME Exit PROVE FileIsTheMap'
  BY <1>24 DEF Exit, FileIsTheMap
<1>25. ASSUME Restart PROVE FileIsTheMap'
  BY <1>25 DEF Restart, LockInv, TypeOK, FileIsTheMap, StateFile
<1>26. CASE UNCHANGED vars
  BY <1>26 DEF vars, FileIsTheMap
<1> QED
  BY <1>1, <1>2, <1>3, <1>4, <1>5, <1>6, <1>7, <1>8, <1>9, <1>10, <1>11, <1>12,
     <1>13, <1>14, <1>15, <1>16, <1>17, <1>18, <1>19, <1>20, <1>21, <1>22, <1>23,
     <1>24, <1>25, <1>26
  DEF Next, Handler

LEMMA NextRenewsWhatFailed ==
  LockInv /\ RenewsWhatFailed /\ [Next]_vars => RenewsWhatFailed'
<1> SUFFICES ASSUME LockInv, RenewsWhatFailed, [Next]_vars PROVE RenewsWhatFailed'
  OBVIOUS
<1> USE NamesAssumption
    DEF proc, store, file, locks, request, locals, bkn, history
<1>1. ASSUME NEW l \in Login, BknLogin(l) PROVE RenewsWhatFailed'
  BY <1>1 DEF BknLogin, LockInv, TypeOK, HasSession, RenewsWhatFailed
<1>2. ASSUME NEW l \in Login, Create(l) PROVE RenewsWhatFailed'
  BY <1>2 DEF Create, LockInv, HasSession, RenewsWhatFailed
<1>3. ASSUME NEW s \in Login, Logout(s) PROVE RenewsWhatFailed'
  BY <1>3 DEF Logout, Remove, RenewsWhatFailed
<1>4. ASSUME Sweep PROVE RenewsWhatFailed'
  BY <1>4 DEF Sweep, RenewsWhatFailed
<1>5. ASSUME NEW c \in Call, Update(c) PROVE RenewsWhatFailed'
  BY <1>5 DEF Update, StoreRenewed, Goto, LockInv, TypeOK, PastExclusive, Past, Renewing,
     RenewsWhatFailed
<1>6. ASSUME NEW c \in Call, Drop(c) PROVE RenewsWhatFailed'
  BY <1>6 DEF Drop, Remove, Return, Goto, RenewsWhatFailed
<1>7. ASSUME NEW s \in Login, Me(s) PROVE RenewsWhatFailed'
  BY <1>7 DEF Me, RenewsWhatFailed
<1>8. ASSUME NEW c \in Call, Get(c) PROVE RenewsWhatFailed'
  BY <1>8 DEF Get, Goto, LockInv, TypeOK, Down, RenewsWhatFailed
<1>9. ASSUME NEW c \in Call, ReadAccess(c) PROVE RenewsWhatFailed'
  BY <1>9 DEF ReadAccess, Goto, Down, RenewsWhatFailed
<1>10. ASSUME NEW c \in Call, FirstCall(c) PROVE RenewsWhatFailed'
  BY <1>10 DEF FirstCall, Return, Goto, LockInv, TypeOK, Created, RenewsWhatFailed
<1>11. ASSUME NEW c \in Call, RefreshLock(c) PROVE RenewsWhatFailed'
  BY <1>11 DEF RefreshLock, Goto, Created, RenewsWhatFailed
<1>12. ASSUME NEW c \in Call, Acquire(c) PROVE RenewsWhatFailed'
  BY <1>12 DEF Acquire, Goto, RenewsWhatFailed
<1>13. ASSUME NEW c \in Call, Peek(c) PROVE RenewsWhatFailed'
  BY <1>13 DEF Peek, Return, Goto, LockInv, TypeOK, Down, RenewsWhatFailed
<1>14. ASSUME NEW c \in Call, Compare(c) PROVE RenewsWhatFailed'
  BY <1>14 DEF Compare, Goto, LockInv, TypeOK, RenewsWhatFailed, SomebodyElseRenewed
<1>15. ASSUME NEW c \in Call, SecondCall(c) PROVE RenewsWhatFailed'
  BY <1>15 DEF SecondCall, Return, Goto, Created, RenewsWhatFailed
<1>16. ASSUME NEW c \in Call, RefreshRotated(c) PROVE RenewsWhatFailed'
  BY <1>16 DEF RefreshRotated, Goto, LockInv, TypeOK, PastExclusive, RenewsWhatFailed
<1>17. ASSUME NEW c \in Call, RefreshKept(c) PROVE RenewsWhatFailed'
  BY <1>17 DEF RefreshKept, Goto, LockInv, TypeOK, PastExclusive, RenewsWhatFailed
<1>18. ASSUME NEW c \in Call, RefreshLost(c) PROVE RenewsWhatFailed'
  BY <1>18 DEF RefreshLost, Goto, Past, RenewsWhatFailed
<1>19. ASSUME NEW c \in Call, RefreshFailed(c) PROVE RenewsWhatFailed'
  BY <1>19 DEF RefreshFailed, Goto, Past, RenewsWhatFailed
<1>20. ASSUME NEW c \in Call, StrayRotation(c) PROVE RenewsWhatFailed'
  BY <1>20 DEF StrayRotation, Return, Goto, RenewsWhatFailed
<1>21. ASSUME NEW t \in Token, AccessLapse(t) PROVE RenewsWhatFailed'
  BY <1>21 DEF AccessLapse, PastExclusive, RenewsWhatFailed
<1>22. ASSUME NEW t \in Token, RefreshLapse(t) PROVE RenewsWhatFailed'
  BY <1>22 DEF RefreshLapse, RenewsWhatFailed
<1>23. ASSUME NEW s \in Login, Expire(s) PROVE RenewsWhatFailed'
  BY <1>23 DEF Expire, Past, RenewsWhatFailed
<1>24. ASSUME Exit PROVE RenewsWhatFailed'
  BY <1>24 DEF Exit, RenewsWhatFailed
<1>25. ASSUME Restart PROVE RenewsWhatFailed'
  BY <1>25 DEF Restart, LockInv, Down, Renewing, InFlight, Locked, RenewsWhatFailed
<1>26. CASE UNCHANGED vars
  BY <1>26 DEF vars, RenewsWhatFailed
<1> QED
  BY <1>1, <1>2, <1>3, <1>4, <1>5, <1>6, <1>7, <1>8, <1>9, <1>10, <1>11, <1>12,
     <1>13, <1>14, <1>15, <1>16, <1>17, <1>18, <1>19, <1>20, <1>21, <1>22, <1>23,
     <1>24, <1>25, <1>26
  DEF Next, Handler

LEMMA NextStraysOrphaned ==
  LockInv /\ StraysOrphaned /\ [Next]_vars => StraysOrphaned'
<1> SUFFICES ASSUME LockInv, StraysOrphaned, [Next]_vars PROVE StraysOrphaned'
  OBVIOUS
<1> USE NamesAssumption
    DEF proc, store, file, locks, request, locals, bkn, history
<1>1. ASSUME NEW l \in Login, BknLogin(l) PROVE StraysOrphaned'
  BY <1>1 DEF BknLogin, StraysOrphaned
<1>2. ASSUME NEW l \in Login, Create(l) PROVE StraysOrphaned'
  BY <1>2 DEF Create, StraysOrphaned
<1>3. ASSUME NEW s \in Login, Logout(s) PROVE StraysOrphaned'
  BY <1>3 DEF Logout, Save, StraysOrphaned
<1>4. ASSUME Sweep PROVE StraysOrphaned'
  BY <1>4 DEF Sweep, StraysOrphaned
<1>5. ASSUME NEW c \in Call, Update(c) PROVE StraysOrphaned'
  BY <1>5 DEF Update, Goto, StraysOrphaned
<1>6. ASSUME NEW c \in Call, Drop(c) PROVE StraysOrphaned'
  BY <1>6 DEF Drop, Return, Goto, StraysOrphaned
<1>7. ASSUME NEW s \in Login, Me(s) PROVE StraysOrphaned'
  BY <1>7 DEF Me, StraysOrphaned
<1>8. ASSUME NEW c \in Call, Get(c) PROVE StraysOrphaned'
  BY <1>8 DEF Get, Goto, LockInv, TypeOK, StraysOrphaned
<1>9. ASSUME NEW c \in Call, ReadAccess(c) PROVE StraysOrphaned'
  BY <1>9 DEF ReadAccess, Goto, StraysOrphaned
<1>10. ASSUME NEW c \in Call, FirstCall(c) PROVE StraysOrphaned'
  BY <1>10 DEF FirstCall, Return, Goto, LockInv, TypeOK, StraysOrphaned
<1>11. ASSUME NEW c \in Call, RefreshLock(c) PROVE StraysOrphaned'
  BY <1>11 DEF RefreshLock, Goto, StraysOrphaned
<1>12. ASSUME NEW c \in Call, Acquire(c) PROVE StraysOrphaned'
  BY <1>12 DEF Acquire, Goto, StraysOrphaned
<1>13. ASSUME NEW c \in Call, Peek(c) PROVE StraysOrphaned'
  BY <1>13 DEF Peek, Return, Goto, LockInv, TypeOK, StraysOrphaned
<1>14. ASSUME NEW c \in Call, Compare(c) PROVE StraysOrphaned'
  BY <1>14 DEF Compare, Goto, LockInv, TypeOK, StraysOrphaned
<1>15. ASSUME NEW c \in Call, SecondCall(c) PROVE StraysOrphaned'
  BY <1>15 DEF SecondCall, Return, Goto, StraysOrphaned
<1>16. ASSUME NEW c \in Call, RefreshRotated(c) PROVE StraysOrphaned'
  BY <1>16 DEF RefreshRotated, Goto, StraysOrphaned
<1>17. ASSUME NEW c \in Call, RefreshKept(c) PROVE StraysOrphaned'
  BY <1>17 DEF RefreshKept, Goto, StraysOrphaned
<1>18. ASSUME NEW c \in Call, RefreshLost(c) PROVE StraysOrphaned'
  BY <1>18 DEF RefreshLost, Goto, StraysOrphaned
<1>19. ASSUME NEW c \in Call, RefreshFailed(c) PROVE StraysOrphaned'
  BY <1>19 DEF RefreshFailed, Goto, StraysOrphaned
<1>20. ASSUME NEW c \in Call, StrayRotation(c) PROVE StraysOrphaned'
  BY <1>20 DEF StrayRotation, Return, Goto, StraysOrphaned
<1>21. ASSUME NEW t \in Token, AccessLapse(t) PROVE StraysOrphaned'
  BY <1>21 DEF AccessLapse, StraysOrphaned
<1>22. ASSUME NEW t \in Token, RefreshLapse(t) PROVE StraysOrphaned'
  BY <1>22 DEF RefreshLapse, StraysOrphaned
<1>23. ASSUME NEW s \in Login, Expire(s) PROVE StraysOrphaned'
  BY <1>23 DEF Expire, StraysOrphaned
<1>24. ASSUME Exit PROVE StraysOrphaned'
  BY <1>24 DEF Exit, Unstored, StraysOrphaned
<1>25. ASSUME Restart PROVE StraysOrphaned'
  BY <1>25 DEF Restart, StraysOrphaned
<1>26. CASE UNCHANGED vars
  BY <1>26 DEF vars, StraysOrphaned
<1> QED
  BY <1>1, <1>2, <1>3, <1>4, <1>5, <1>6, <1>7, <1>8, <1>9, <1>10, <1>11, <1>12,
     <1>13, <1>14, <1>15, <1>16, <1>17, <1>18, <1>19, <1>20, <1>21, <1>22, <1>23,
     <1>24, <1>25, <1>26
  DEF Next, Handler

LEMMA NextSignedOutIsGone ==
  LockInv /\ FileIsTheMap /\ SignedOutIsGone /\ [Next]_vars => SignedOutIsGone'
<1> SUFFICES ASSUME LockInv, FileIsTheMap, SignedOutIsGone, [Next]_vars PROVE SignedOutIsGone'
  OBVIOUS
<1> USE NamesAssumption
    DEF proc, store, file, locks, request, locals, bkn, history
<1>1. ASSUME NEW l \in Login, BknLogin(l) PROVE SignedOutIsGone'
  BY <1>1 DEF BknLogin, SignedOutIsGone
<1>2. ASSUME NEW l \in Login, Create(l) PROVE SignedOutIsGone'
  BY <1>2 DEF Create, Save, SignedOutIsGone
<1>3. ASSUME NEW s \in Login, Logout(s) PROVE SignedOutIsGone'
  BY <1>3 DEF Logout, Remove, Save, SignedOutIsGone
<1>4. ASSUME Sweep PROVE SignedOutIsGone'
  BY <1>4 DEF Sweep, Save, SignedOutIsGone
<1>5. ASSUME NEW c \in Call, Update(c) PROVE SignedOutIsGone'
  BY <1>5 DEF Update, StoreRenewed, Save, SignedOutIsGone
<1>6. ASSUME NEW c \in Call, Drop(c) PROVE SignedOutIsGone'
  BY <1>6 DEF Drop, Remove, Save, SignedOutIsGone
<1>7. ASSUME NEW s \in Login, Me(s) PROVE SignedOutIsGone'
  BY <1>7 DEF Me, SignedOutIsGone
<1>8. ASSUME NEW c \in Call, Get(c) PROVE SignedOutIsGone'
  BY <1>8 DEF Get, SignedOutIsGone
<1>9. ASSUME NEW c \in Call, ReadAccess(c) PROVE SignedOutIsGone'
  BY <1>9 DEF ReadAccess, SignedOutIsGone
<1>10. ASSUME NEW c \in Call, FirstCall(c) PROVE SignedOutIsGone'
  BY <1>10 DEF FirstCall, SignedOutIsGone
<1>11. ASSUME NEW c \in Call, RefreshLock(c) PROVE SignedOutIsGone'
  BY <1>11 DEF RefreshLock, SignedOutIsGone
<1>12. ASSUME NEW c \in Call, Acquire(c) PROVE SignedOutIsGone'
  BY <1>12 DEF Acquire, SignedOutIsGone
<1>13. ASSUME NEW c \in Call, Peek(c) PROVE SignedOutIsGone'
  BY <1>13 DEF Peek, SignedOutIsGone
<1>14. ASSUME NEW c \in Call, Compare(c) PROVE SignedOutIsGone'
  BY <1>14 DEF Compare, SignedOutIsGone
<1>15. ASSUME NEW c \in Call, SecondCall(c) PROVE SignedOutIsGone'
  BY <1>15 DEF SecondCall, SignedOutIsGone
<1>16. ASSUME NEW c \in Call, RefreshRotated(c) PROVE SignedOutIsGone'
  BY <1>16 DEF RefreshRotated, SignedOutIsGone
<1>17. ASSUME NEW c \in Call, RefreshKept(c) PROVE SignedOutIsGone'
  BY <1>17 DEF RefreshKept, SignedOutIsGone
<1>18. ASSUME NEW c \in Call, RefreshLost(c) PROVE SignedOutIsGone'
  BY <1>18 DEF RefreshLost, SignedOutIsGone
<1>19. ASSUME NEW c \in Call, RefreshFailed(c) PROVE SignedOutIsGone'
  BY <1>19 DEF RefreshFailed, SignedOutIsGone
<1>20. ASSUME NEW c \in Call, StrayRotation(c) PROVE SignedOutIsGone'
  BY <1>20 DEF StrayRotation, SignedOutIsGone
<1>21. ASSUME NEW t \in Token, AccessLapse(t) PROVE SignedOutIsGone'
  BY <1>21 DEF AccessLapse, SignedOutIsGone
<1>22. ASSUME NEW t \in Token, RefreshLapse(t) PROVE SignedOutIsGone'
  BY <1>22 DEF RefreshLapse, SignedOutIsGone
<1>23. ASSUME NEW s \in Login, Expire(s) PROVE SignedOutIsGone'
  BY <1>23 DEF Expire, SignedOutIsGone
<1>24. ASSUME Exit PROVE SignedOutIsGone'
  BY <1>24 DEF Exit, LockInv, TypeOK, SignedOutIsGone
<1>25. ASSUME Restart PROVE SignedOutIsGone'
  BY <1>25 DEF Restart, SignedOutIsGone
<1>26. CASE UNCHANGED vars
  BY <1>26 DEF vars, SignedOutIsGone
<1> QED
  BY <1>1, <1>2, <1>3, <1>4, <1>5, <1>6, <1>7, <1>8, <1>9, <1>10, <1>11, <1>12,
     <1>13, <1>14, <1>15, <1>16, <1>17, <1>18, <1>19, <1>20, <1>21, <1>22, <1>23,
     <1>24, <1>25, <1>26
  DEF Next, Handler

LEMMA NextNewUnspent ==
  LockInv /\ Minted /\ Home /\ NewUnspent /\ [Next]_vars => NewUnspent'
<1> SUFFICES ASSUME LockInv, Minted, Home, NewUnspent, [Next]_vars PROVE NewUnspent'
  OBVIOUS
<1> USE NamesAssumption
    DEF proc, store, file, locks, request, locals, bkn, history
<1>1. ASSUME NEW l \in Login, BknLogin(l) PROVE NewUnspent'
  BY <1>1 DEF BknLogin, LockInv, TypeOK, NewUnspent
<1>2. ASSUME NEW l \in Login, Create(l) PROVE NewUnspent'
  BY <1>2 DEF Create, NewUnspent
<1>3. ASSUME NEW s \in Login, Logout(s) PROVE NewUnspent'
  BY <1>3 DEF Logout, Remove, NewUnspent
<1>4. ASSUME Sweep PROVE NewUnspent'
  BY <1>4 DEF Sweep, NewUnspent
<1>5. ASSUME NEW c \in Call, Update(c) PROVE NewUnspent'
  BY <1>5 DEF Update, StoreRenewed, LockInv, TypeOK, HasSession, NewUnspent
<1>6. ASSUME NEW c \in Call, Drop(c) PROVE NewUnspent'
  BY <1>6 DEF Drop, Remove, NewUnspent
<1>7. ASSUME NEW s \in Login, Me(s) PROVE NewUnspent'
  BY <1>7 DEF Me, NewUnspent
<1>8. ASSUME NEW c \in Call, Get(c) PROVE NewUnspent'
  BY <1>8 DEF Get, NewUnspent
<1>9. ASSUME NEW c \in Call, ReadAccess(c) PROVE NewUnspent'
  BY <1>9 DEF ReadAccess, NewUnspent
<1>10. ASSUME NEW c \in Call, FirstCall(c) PROVE NewUnspent'
  BY <1>10 DEF FirstCall, NewUnspent
<1>11. ASSUME NEW c \in Call, RefreshLock(c) PROVE NewUnspent'
  BY <1>11 DEF RefreshLock, NewUnspent
<1>12. ASSUME NEW c \in Call, Acquire(c) PROVE NewUnspent'
  BY <1>12 DEF Acquire, NewUnspent
<1>13. ASSUME NEW c \in Call, Peek(c) PROVE NewUnspent'
  BY <1>13 DEF Peek, NewUnspent
<1>14. ASSUME NEW c \in Call, Compare(c) PROVE NewUnspent'
  BY <1>14 DEF Compare, NewUnspent
<1>15. ASSUME NEW c \in Call, SecondCall(c) PROVE NewUnspent'
  BY <1>15 DEF SecondCall, NewUnspent
<1>16. ASSUME NEW c \in Call, RefreshRotated(c) PROVE NewUnspent'
  BY <1>16 DEF RefreshRotated, Rotate, LockInv, TypeOK, HasSession, Presenting, Home, Of,
     Token, NewUnspent
<1>17. ASSUME NEW c \in Call, RefreshKept(c) PROVE NewUnspent'
  BY <1>17 DEF RefreshKept, NewUnspent
<1>18. ASSUME NEW c \in Call, RefreshLost(c) PROVE NewUnspent'
  BY <1>18 DEF RefreshLost, Rotate, LockInv, TypeOK, HasSession, Presenting, Home, Of, Token,
     NewUnspent
<1>19. ASSUME NEW c \in Call, RefreshFailed(c) PROVE NewUnspent'
  BY <1>19 DEF RefreshFailed, NewUnspent
<1>20. ASSUME NEW c \in Call, StrayRotation(c) PROVE NewUnspent'
  BY <1>20 DEF StrayRotation, Rotate, LockInv, TypeOK, HasSession, Presenting, Home, Of, Token,
     NewUnspent
<1>21. ASSUME NEW t \in Token, AccessLapse(t) PROVE NewUnspent'
  BY <1>21 DEF AccessLapse, NewUnspent
<1>22. ASSUME NEW t \in Token, RefreshLapse(t) PROVE NewUnspent'
  BY <1>22 DEF RefreshLapse, NewUnspent
<1>23. ASSUME NEW s \in Login, Expire(s) PROVE NewUnspent'
  BY <1>23 DEF Expire, NewUnspent
<1>24. ASSUME Exit PROVE NewUnspent'
  BY <1>24 DEF Exit, LockInv, TypeOK, Token, NewUnspent
<1>25. ASSUME Restart PROVE NewUnspent'
  BY <1>25 DEF Restart, LockInv, TypeOK, HasSession, Minted, Unminted, Home, Of, Token,
     NewUnspent
<1>26. CASE UNCHANGED vars
  BY <1>26 DEF vars, NewUnspent
<1> QED
  BY <1>1, <1>2, <1>3, <1>4, <1>5, <1>6, <1>7, <1>8, <1>9, <1>10, <1>11, <1>12,
     <1>13, <1>14, <1>15, <1>16, <1>17, <1>18, <1>19, <1>20, <1>21, <1>22, <1>23,
     <1>24, <1>25, <1>26
  DEF Next, Handler

LEMMA NextMapUnspent ==
  /\ LockInv /\ Minted /\ Home /\ FileIsTheMap /\ NewUnspent /\ MapUnspent
  /\ FileUnspent /\ HandUnspent /\ StraysOrphaned /\ [Next]_vars
  => MapUnspent'
<1> SUFFICES ASSUME LockInv, Minted, Home, FileIsTheMap, NewUnspent, MapUnspent,
                    FileUnspent, HandUnspent, StraysOrphaned, [Next]_vars
             PROVE  MapUnspent'
  OBVIOUS
<1> USE NamesAssumption
    DEF proc, store, file, locks, request, locals, bkn, history
<1>1. ASSUME NEW l \in Login, BknLogin(l) PROVE MapUnspent'
  BY <1>1 DEF BknLogin, LockInv, TypeOK, Created, MapUnspent, MidRotation, Rotated
<1>2. ASSUME NEW l \in Login, Create(l) PROVE MapUnspent'
  BY <1>2 DEF Create, MapUnspent, MidRotation, Rotated, NewUnspent
<1>3. ASSUME NEW s \in Login, Logout(s) PROVE MapUnspent'
  BY <1>3 DEF Logout, Remove, MapUnspent, MidRotation, Rotated
<1>4. ASSUME Sweep PROVE MapUnspent'
  BY <1>4 DEF Sweep, MapUnspent, MidRotation, Rotated
<1>5. ASSUME NEW c \in Call, Update(c) PROVE MapUnspent'
  BY <1>5 DEF Update, StoreRenewed, KeptRefresh, Goto, LockInv, TypeOK, Minted, Unminted,
     MapUnspent, MidRotation, Rotated
<1>6. ASSUME NEW c \in Call, Drop(c) PROVE MapUnspent'
  BY <1>6 DEF Drop, Remove, Return, Goto, MapUnspent, MidRotation, Rotated
<1>7. ASSUME NEW s \in Login, Me(s) PROVE MapUnspent'
  BY <1>7 DEF Me, MapUnspent, MidRotation, Rotated
<1>8. ASSUME NEW c \in Call, Get(c) PROVE MapUnspent'
  BY <1>8 DEF Get, Goto, LockInv, TypeOK, MapUnspent, MidRotation, Rotated
<1>9. ASSUME NEW c \in Call, ReadAccess(c) PROVE MapUnspent'
  BY <1>9 DEF ReadAccess, Goto, MapUnspent, MidRotation, Rotated
<1>10. ASSUME NEW c \in Call, FirstCall(c) PROVE MapUnspent'
  BY <1>10 DEF FirstCall, Return, Goto, LockInv, TypeOK, MapUnspent, MidRotation, Rotated
<1>11. ASSUME NEW c \in Call, RefreshLock(c) PROVE MapUnspent'
  BY <1>11 DEF RefreshLock, Goto, MapUnspent, MidRotation, Rotated
<1>12. ASSUME NEW c \in Call, Acquire(c) PROVE MapUnspent'
  BY <1>12 DEF Acquire, Goto, MapUnspent, MidRotation, Rotated
<1>13. ASSUME NEW c \in Call, Peek(c) PROVE MapUnspent'
  BY <1>13 DEF Peek, Return, Goto, LockInv, TypeOK, MapUnspent, MidRotation, Rotated
<1>14. ASSUME NEW c \in Call, Compare(c) PROVE MapUnspent'
  BY <1>14 DEF Compare, Goto, LockInv, TypeOK, MapUnspent, MidRotation, Rotated
<1>15. ASSUME NEW c \in Call, SecondCall(c) PROVE MapUnspent'
  BY <1>15 DEF SecondCall, Return, Goto, MapUnspent, MidRotation, Rotated
<1>16. ASSUME NEW c \in Call, RefreshRotated(c) PROVE MapUnspent'
  BY <1>16 DEF RefreshRotated, Rotate, Goto, LockInv, TypeOK, Presenting, Home, Of, Token,
     MapUnspent, MidRotation, Rotated
<1>17. ASSUME NEW c \in Call, RefreshKept(c) PROVE MapUnspent'
  BY <1>17 DEF RefreshKept, Goto, MapUnspent, MidRotation, Rotated
<1>18. ASSUME NEW c \in Call, RefreshLost(c) PROVE MapUnspent'
  BY <1>18 DEF RefreshLost, Rotate, Goto, LockInv, TypeOK, Presenting, Home, Of, Token,
     MapUnspent, MidRotation, Rotated
<1>19. ASSUME NEW c \in Call, RefreshFailed(c) PROVE MapUnspent'
  BY <1>19 DEF RefreshFailed, Goto, MapUnspent, MidRotation, Rotated
<1>20. ASSUME NEW c \in Call, StrayRotation(c) PROVE MapUnspent'
  BY <1>20 DEF StrayRotation, Rotate, Return, Goto, LockInv, TypeOK, Presenting, Home, Of,
     Token, MapUnspent, StraysOrphaned, MidRotation, Rotated
<1>21. ASSUME NEW t \in Token, AccessLapse(t) PROVE MapUnspent'
  BY <1>21 DEF AccessLapse, MapUnspent, MidRotation, Rotated
<1>22. ASSUME NEW t \in Token, RefreshLapse(t) PROVE MapUnspent'
  BY <1>22 DEF RefreshLapse, MapUnspent, MidRotation, Rotated
<1>23. ASSUME NEW s \in Login, Expire(s) PROVE MapUnspent'
  BY <1>23 DEF Expire, MapUnspent, MidRotation, Rotated
<1>24. ASSUME Exit PROVE MapUnspent'
  BY <1>24 DEF Exit, MapUnspent
<1>25. ASSUME Restart PROVE MapUnspent'
  <2>1. ASSUME NEW s \in live' PROVE s \in disk.ids \ expired /\ refresh'[s] = disk.refresh[s]
    BY <1>25 DEF Restart, LockInv, TypeOK, StateFile
  <2>2. ~running /\ spent' = spent /\ orphaned' = orphaned
    BY <1>25 DEF Restart
  <2> QED
    BY <2>1, <2>2 DEF MapUnspent, FileUnspent, LockInv, TypeOK
<1>26. CASE UNCHANGED vars
  BY <1>26 DEF vars, MapUnspent, MidRotation, Rotated
<1> QED
  BY <1>1, <1>2, <1>3, <1>4, <1>5, <1>6, <1>7, <1>8, <1>9, <1>10, <1>11, <1>12,
     <1>13, <1>14, <1>15, <1>16, <1>17, <1>18, <1>19, <1>20, <1>21, <1>22, <1>23,
     <1>24, <1>25, <1>26
  DEF Next, Handler

LEMMA NextFileUnspent ==
  /\ LockInv /\ Minted /\ Home /\ FileIsTheMap /\ NewUnspent /\ MapUnspent
  /\ FileUnspent /\ HandUnspent /\ StraysOrphaned /\ [Next]_vars
  => FileUnspent'
<1> SUFFICES ASSUME LockInv, Minted, Home, FileIsTheMap, NewUnspent, MapUnspent,
                    FileUnspent, HandUnspent, StraysOrphaned, [Next]_vars
             PROVE  FileUnspent'
  OBVIOUS
<1> USE NamesAssumption
    DEF proc, store, file, locks, request, locals, bkn, history
<1>1. ASSUME NEW l \in Login, BknLogin(l) PROVE FileUnspent'
  BY <1>1 DEF BknLogin, FileUnspent, MidRotation, Rotated
<1>2. ASSUME NEW l \in Login, Create(l) PROVE FileUnspent'
  BY <1>2 DEF Create, Save, LockInv, TypeOK, Down, MapUnspent, FileUnspent, MidRotation, Rotated,
     NewUnspent
<1>3. ASSUME NEW s \in Login, Logout(s) PROVE FileUnspent'
  BY <1>3 DEF Logout, Remove, Save, LockInv, TypeOK, MapUnspent, FileUnspent, MidRotation, Rotated
<1>4. ASSUME Sweep PROVE FileUnspent'
  BY <1>4 DEF Sweep, Save, LockInv, TypeOK, MapUnspent, FileUnspent, MidRotation, Rotated
<1>5. ASSUME NEW c \in Call, Update(c) PROVE FileUnspent'
  BY <1>5 DEF Update, StoreRenewed, KeptRefresh, Save, Goto, LockInv, TypeOK, Down, Minted,
     Unminted, FileIsTheMap, MapUnspent, FileUnspent, MidRotation, Rotated
<1>6. ASSUME NEW c \in Call, Drop(c) PROVE FileUnspent'
  BY <1>6 DEF Drop, Remove, Save, Return, Goto, LockInv, TypeOK, Down, MapUnspent,
     FileUnspent, MidRotation, Rotated
<1>7. ASSUME NEW s \in Login, Me(s) PROVE FileUnspent'
  BY <1>7 DEF Me, FileUnspent, MidRotation, Rotated
<1>8. ASSUME NEW c \in Call, Get(c) PROVE FileUnspent'
  BY <1>8 DEF Get, Goto, LockInv, TypeOK, FileUnspent, MidRotation, Rotated
<1>9. ASSUME NEW c \in Call, ReadAccess(c) PROVE FileUnspent'
  BY <1>9 DEF ReadAccess, Goto, FileUnspent, MidRotation, Rotated
<1>10. ASSUME NEW c \in Call, FirstCall(c) PROVE FileUnspent'
  BY <1>10 DEF FirstCall, Return, Goto, LockInv, TypeOK, FileUnspent, MidRotation, Rotated
<1>11. ASSUME NEW c \in Call, RefreshLock(c) PROVE FileUnspent'
  BY <1>11 DEF RefreshLock, Goto, FileUnspent, MidRotation, Rotated
<1>12. ASSUME NEW c \in Call, Acquire(c) PROVE FileUnspent'
  BY <1>12 DEF Acquire, Goto, FileUnspent, MidRotation, Rotated
<1>13. ASSUME NEW c \in Call, Peek(c) PROVE FileUnspent'
  BY <1>13 DEF Peek, Return, Goto, LockInv, TypeOK, FileUnspent, MidRotation, Rotated
<1>14. ASSUME NEW c \in Call, Compare(c) PROVE FileUnspent'
  BY <1>14 DEF Compare, Goto, LockInv, TypeOK, FileUnspent, MidRotation, Rotated
<1>15. ASSUME NEW c \in Call, SecondCall(c) PROVE FileUnspent'
  BY <1>15 DEF SecondCall, Return, Goto, FileUnspent, MidRotation, Rotated
<1>16. ASSUME NEW c \in Call, RefreshRotated(c) PROVE FileUnspent'
  <2> SUFFICES ASSUME NEW s \in disk.ids \ (expired \cup orphaned), disk.refresh[s] \in spent'
               PROVE  running /\ (behind \/ MidRotation(s)')
    BY <1>16 DEF RefreshRotated, FileUnspent
  <2>1. running /\ s \in Login /\ sess[c] \in Login
    BY <1>16 DEF RefreshRotated, LockInv, Down, InFlight, Locked, Renewing,
        HasSession, TypeOK, StateFile
  <2>2. CASE disk.refresh[s] \in spent
    <3>1. CASE behind
      BY <2>1, <3>1
    <3>2. CASE MidRotation(s)
      <4>1. PICK d \in Call : sess[d] = s /\ Rotated(d)
        BY <3>2 DEF MidRotation, Rotated
      <4>2. /\ d # c /\ sess'[d] = sess[d] /\ pc'[d] = pc[d] /\ rotates'[d] = rotates[d]
            /\ token'[d] = token[d] /\ spent \subseteq spent'
        BY <1>16, <4>1 DEF RefreshRotated, Rotate, Rotated, Goto, LockInv, TypeOK
      <4>3. Rotated(d)'
        BY <4>1, <4>2 DEF Rotated
      <4> QED
        BY <2>1, <4>1, <4>2, <4>3 DEF MidRotation
    <3> QED
      BY <2>2, <3>1, <3>2 DEF FileUnspent
  <2>3. CASE disk.refresh[s] = token[c] /\ token[c] \in Token
    <3>1. s = sess[c]
      BY <1>16, <2>1, <2>3 DEF RefreshRotated, Home, Of, Presenting, Token
    <3>2. sess'[c] = s /\ pc'[c] = "update" /\ rotates'[c]
      BY <1>16, <3>1 DEF RefreshRotated, Goto, LockInv, TypeOK
    <3> QED
      BY <2>1, <3>2 DEF MidRotation, Rotated
  <2> QED
    BY <1>16, <2>2, <2>3 DEF RefreshRotated, Rotate, LockInv, TypeOK
<1>17. ASSUME NEW c \in Call, RefreshKept(c) PROVE FileUnspent'
  BY <1>17 DEF RefreshKept, Goto, FileUnspent, MidRotation, Rotated
<1>18. ASSUME NEW c \in Call, RefreshLost(c) PROVE FileUnspent'
  <2> SUFFICES ASSUME NEW s \in disk.ids \ (expired \cup orphaned), disk.refresh[s] \in spent'
               PROVE  running /\ (behind \/ MidRotation(s)')
    BY <1>18 DEF RefreshLost, FileUnspent
  <2>1. running /\ s \in Login /\ sess[c] \in Login
    BY <1>18 DEF RefreshLost, LockInv, Down, InFlight, Locked, Renewing,
        HasSession, TypeOK, StateFile
  <2>2. CASE disk.refresh[s] \in spent
    <3>1. CASE behind
      BY <2>1, <3>1
    <3>2. CASE MidRotation(s)
      <4>1. PICK d \in Call : sess[d] = s /\ Rotated(d)
        BY <3>2 DEF MidRotation, Rotated
      <4>2. /\ d # c /\ sess'[d] = sess[d] /\ pc'[d] = pc[d] /\ rotates'[d] = rotates[d]
            /\ token'[d] = token[d] /\ spent \subseteq spent'
        BY <1>18, <4>1 DEF RefreshLost, Rotate, Rotated, Goto, LockInv, TypeOK
      <4>3. Rotated(d)'
        BY <4>1, <4>2 DEF Rotated
      <4> QED
        BY <2>1, <4>1, <4>2, <4>3 DEF MidRotation
    <3> QED
      BY <2>2, <3>1, <3>2 DEF FileUnspent
  <2>3. CASE disk.refresh[s] = token[c] /\ token[c] \in Token
    <3>1. s = sess[c]
      BY <1>18, <2>1, <2>3 DEF RefreshLost, Home, Of, Presenting, Token
    <3>2. sess'[c] = s /\ pc'[c] = "drop" /\ token'[c] \in spent'
      BY <1>18, <3>1 DEF RefreshLost, Rotate, Goto, LockInv, TypeOK
    <3> QED
      BY <2>1, <3>2 DEF MidRotation, Rotated
  <2> QED
    BY <1>18, <2>2, <2>3 DEF RefreshLost, Rotate, LockInv, TypeOK
<1>19. ASSUME NEW c \in Call, RefreshFailed(c) PROVE FileUnspent'
  BY <1>19 DEF RefreshFailed, Goto, FileUnspent, MidRotation, Rotated
<1>20. ASSUME NEW c \in Call, StrayRotation(c) PROVE FileUnspent'
  <2> SUFFICES ASSUME NEW s \in disk.ids \ (expired \cup orphaned), disk.refresh[s] \in spent'
               PROVE  running /\ (behind \/ MidRotation(s)')
    BY <1>20 DEF StrayRotation, FileUnspent
  <2>1. s \in Login /\ sess[c] \in orphaned
    BY <1>20 DEF StrayRotation, StraysOrphaned, LockInv, TypeOK, StateFile
  <2>2. ASSUME disk.refresh[s] = token[c], token[c] \in Token PROVE FALSE
    BY <1>20, <2>1, <2>2 DEF StrayRotation, Home, Of, Presenting, Token
  <2>3. disk.refresh[s] \in spent
    BY <1>20, <2>2 DEF StrayRotation, Rotate, LockInv, TypeOK
  <2>4. running /\ (behind \/ MidRotation(s))
    BY <2>3 DEF FileUnspent
  <2>5. ASSUME MidRotation(s) PROVE MidRotation(s)'
    <3>1. PICK d \in Call : sess[d] = s /\ Rotated(d)
      BY <2>5 DEF MidRotation
    <3>2. /\ d # c /\ sess' = sess /\ pc'[d] = pc[d] /\ rotates'[d] = rotates[d]
          /\ token'[d] = token[d] /\ spent \subseteq spent'
      BY <1>20, <3>1 DEF StrayRotation, Rotate, Rotated, Return, Goto, LockInv, TypeOK
    <3>3. Rotated(d)'
      BY <3>1, <3>2 DEF Rotated
    <3> QED
      BY <3>1, <3>2, <3>3 DEF MidRotation
  <2> QED
    BY <2>4, <2>5
<1>21. ASSUME NEW t \in Token, AccessLapse(t) PROVE FileUnspent'
  BY <1>21 DEF AccessLapse, FileUnspent, MidRotation, Rotated
<1>22. ASSUME NEW t \in Token, RefreshLapse(t) PROVE FileUnspent'
  BY <1>22 DEF RefreshLapse, FileUnspent, MidRotation, Rotated
<1>23. ASSUME NEW s \in Login, Expire(s) PROVE FileUnspent'
  BY <1>23 DEF Expire, FileUnspent, MidRotation, Rotated
<1>24. ASSUME Exit PROVE FileUnspent'
  <2>1. /\ disk' = disk /\ expired' = expired /\ spent' = spent
        /\ orphaned \subseteq orphaned'
        /\ \A s \in disk.ids : behind /\ disk.refresh[s] \in spent => s \in orphaned'
    BY <1>24 DEF Exit, Unstored
  <2>2. ASSUME NEW s \in Login, MidRotation(s) PROVE s \in orphaned'
    BY <1>24, <2>2 DEF Exit, Unstored, MidRotation
  <2> QED
    BY <2>1, <2>2 DEF FileUnspent, LockInv, TypeOK, StateFile
<1>25. ASSUME Restart PROVE FileUnspent'
  BY <1>25 DEF Restart, FileUnspent
<1>26. CASE UNCHANGED vars
  BY <1>26 DEF vars, FileUnspent, MidRotation, Rotated
<1> QED
  BY <1>1, <1>2, <1>3, <1>4, <1>5, <1>6, <1>7, <1>8, <1>9, <1>10, <1>11, <1>12,
     <1>13, <1>14, <1>15, <1>16, <1>17, <1>18, <1>19, <1>20, <1>21, <1>22, <1>23,
     <1>24, <1>25, <1>26
  DEF Next, Handler

LEMMA NextHandUnspent ==
  /\ LockInv /\ Minted /\ Home /\ FileIsTheMap /\ NewUnspent /\ MapUnspent
  /\ FileUnspent /\ HandUnspent /\ StraysOrphaned /\ [Next]_vars
  => HandUnspent'
<1> SUFFICES ASSUME LockInv, Minted, Home, FileIsTheMap, NewUnspent, MapUnspent,
                    FileUnspent, HandUnspent, StraysOrphaned, [Next]_vars
             PROVE  HandUnspent'
  OBVIOUS
<1> USE NamesAssumption
    DEF proc, store, file, locks, request, locals, bkn, history
<1>1. ASSUME NEW l \in Login, BknLogin(l) PROVE HandUnspent'
  BY <1>1 DEF BknLogin, LockInv, TypeOK, HasSession, HandUnspent
<1>2. ASSUME NEW l \in Login, Create(l) PROVE HandUnspent'
  BY <1>2 DEF Create, HandUnspent
<1>3. ASSUME NEW s \in Login, Logout(s) PROVE HandUnspent'
  BY <1>3 DEF Logout, Remove, HandUnspent
<1>4. ASSUME Sweep PROVE HandUnspent'
  BY <1>4 DEF Sweep, HandUnspent
<1>5. ASSUME NEW c \in Call, Update(c) PROVE HandUnspent'
  BY <1>5 DEF Update, StoreRenewed, KeptRefresh, Goto, LockInv, TypeOK, HasSession, Minted,
     Unminted, HandUnspent
<1>6. ASSUME NEW c \in Call, Drop(c) PROVE HandUnspent'
  BY <1>6 DEF Drop, Remove, Return, Goto, HandUnspent
<1>7. ASSUME NEW s \in Login, Me(s) PROVE HandUnspent'
  BY <1>7 DEF Me, HandUnspent
<1>8. ASSUME NEW c \in Call, Get(c) PROVE HandUnspent'
  BY <1>8 DEF Get, Goto, LockInv, TypeOK, HandUnspent
<1>9. ASSUME NEW c \in Call, ReadAccess(c) PROVE HandUnspent'
  BY <1>9 DEF ReadAccess, Goto, HandUnspent
<1>10. ASSUME NEW c \in Call, FirstCall(c) PROVE HandUnspent'
  BY <1>10 DEF FirstCall, Return, Goto, LockInv, TypeOK, HandUnspent
<1>11. ASSUME NEW c \in Call, RefreshLock(c) PROVE HandUnspent'
  BY <1>11 DEF RefreshLock, Goto, HandUnspent
<1>12. ASSUME NEW c \in Call, Acquire(c) PROVE HandUnspent'
  BY <1>12 DEF Acquire, Goto, HandUnspent
<1>13. ASSUME NEW c \in Call, Peek(c) PROVE HandUnspent'
  <2>1. sess' = sess /\ refresh' = refresh /\ spent' = spent /\ orphaned' = orphaned
    BY <1>13 DEF Peek
  <2>2. ASSUME NEW d \in Call, d # c PROVE pc'[d] = pc[d] /\ token'[d] = token[d]
    BY <1>13, <2>2 DEF Peek, Return, Goto, LockInv, TypeOK
  <2>3. CASE sess[c] \in live
    <3>1. pc'[c] = "compare"
      BY <1>13, <2>3 DEF Peek, Goto, LockInv, TypeOK
    <3>2. ~MidRotation(sess[c])
      BY <1>13, <2>3 DEF Peek, MidRotation, Rotated, LockInv, HoldsMutex, SharesMutex, Locked
    <3>3. sess[c] \notin orphaned => refresh[sess[c]] \notin spent
      BY <2>3, <3>2 DEF MapUnspent
    <3> QED
      BY <2>1, <2>2, <3>1, <3>3 DEF HandUnspent
  <2>4. CASE sess[c] \notin live
    <3>1. pc'[c] = "signedOut"
      BY <1>13, <2>4 DEF Peek, Return, Goto, LockInv, TypeOK
    <3> QED
      BY <2>1, <2>2, <3>1 DEF HandUnspent
  <2> QED
    BY <2>3, <2>4
<1>14. ASSUME NEW c \in Call, Compare(c) PROVE HandUnspent'
  BY <1>14 DEF Compare, Goto, LockInv, TypeOK, HandUnspent
<1>15. ASSUME NEW c \in Call, SecondCall(c) PROVE HandUnspent'
  BY <1>15 DEF SecondCall, Return, Goto, HandUnspent
<1>16. ASSUME NEW c \in Call, RefreshRotated(c) PROVE HandUnspent'
  BY <1>16 DEF RefreshRotated, Rotate, Goto, LockInv, TypeOK, HasSession, PastExclusive, Past,
     Renewing, Presenting, Home, Of, Token, HandUnspent
<1>17. ASSUME NEW c \in Call, RefreshKept(c) PROVE HandUnspent'
  BY <1>17 DEF RefreshKept, Goto, LockInv, TypeOK, HandUnspent
<1>18. ASSUME NEW c \in Call, RefreshLost(c) PROVE HandUnspent'
  BY <1>18 DEF RefreshLost, Rotate, Goto, LockInv, TypeOK, HasSession, PastExclusive, Past,
     Renewing, Presenting, Home, Of, Token, HandUnspent
<1>19. ASSUME NEW c \in Call, RefreshFailed(c) PROVE HandUnspent'
  BY <1>19 DEF RefreshFailed, Goto, HandUnspent
<1>20. ASSUME NEW c \in Call, StrayRotation(c) PROVE HandUnspent'
  BY <1>20 DEF StrayRotation, Rotate, Return, Goto, LockInv, TypeOK, HasSession, Presenting,
     Home, Of, Token, HandUnspent, StraysOrphaned
<1>21. ASSUME NEW t \in Token, AccessLapse(t) PROVE HandUnspent'
  BY <1>21 DEF AccessLapse, HandUnspent
<1>22. ASSUME NEW t \in Token, RefreshLapse(t) PROVE HandUnspent'
  BY <1>22 DEF RefreshLapse, HandUnspent
<1>23. ASSUME NEW s \in Login, Expire(s) PROVE HandUnspent'
  BY <1>23 DEF Expire, HandUnspent
<1>24. ASSUME Exit PROVE HandUnspent'
  BY <1>24 DEF Exit, LockInv, TypeOK, HasSession, Token, HandUnspent
<1>25. ASSUME Restart PROVE HandUnspent'
  BY <1>25 DEF Restart, LockInv, TypeOK, HasSession, Token, FileUnspent, HandUnspent
<1>26. CASE UNCHANGED vars
  BY <1>26 DEF vars, HandUnspent
<1> QED
  BY <1>1, <1>2, <1>3, <1>4, <1>5, <1>6, <1>7, <1>8, <1>9, <1>10, <1>11, <1>12,
     <1>13, <1>14, <1>15, <1>16, <1>17, <1>18, <1>19, <1>20, <1>21, <1>22, <1>23,
     <1>24, <1>25, <1>26
  DEF Next, Handler

-----------------------------------------------------------------------------
LEMMA InitTokenInv == Init => TokenInv
<1> SUFFICES ASSUME Init PROVE TokenInv
  OBVIOUS
<1>1. LockInv
  BY InitLockInv
<1>2. Minted /\ Home
  BY NamesAssumption DEF Init, Empty, Minted, Unminted, Presenting, Home, Of, Token
<1>3. FileIsTheMap /\ RenewsWhatFailed
  BY DEF Init, Empty, FileIsTheMap, RenewsWhatFailed
<1>4. NewUnspent /\ MapUnspent /\ FileUnspent /\ HandUnspent
  BY DEF Init, Empty, NewUnspent, MapUnspent, FileUnspent, HandUnspent
<1>5. StraysOrphaned /\ SignedOutIsGone
  BY DEF Init, StraysOrphaned, SignedOutIsGone
<1> QED
  BY <1>1, <1>2, <1>3, <1>4, <1>5 DEF TokenInv

LEMMA NextTokenInv == TokenInv /\ [Next]_vars => TokenInv'
BY NextLockInv, NextMinted, NextHome, NextFileIsTheMap, NextRenewsWhatFailed, NextNewUnspent,
   NextMapUnspent, NextFileUnspent, NextHandUnspent, NextStraysOrphaned,
   NextSignedOutIsGone DEF TokenInv

LEMMA TokenInvHolds == Spec => []TokenInv
BY InitTokenInv, NextTokenInv, PTL DEF Spec

\* Concurrent requests never present a spent refresh token to bkn, unless an
\* exit came between bkn's rotation and the save of the new token: the purpose of withBkn's lock, peek and
\* compare (session.go:44-48, api.go:100-125).
THEOREM NoSpentTokenPresented == Spec => []NoSpentPresented
<1>1. TokenInv => NoSpentPresented
  BY DEF TokenInv, HandUnspent, NoSpentPresented
<1> QED
  BY <1>1, TokenInvHolds, PTL

\* A request renews only a session whose access token is still the one bkn
\* refused it, with that session's current refresh token, and what it stores never
\* lands over a newer pair (api.go:110-140).
THEOREM OnlyTheFailedTokenIsRenewed == Spec => []RenewsWhatFailed
<1>1. TokenInv => RenewsWhatFailed
  BY DEF TokenInv
<1> QED
  BY <1>1, TokenInvHolds, PTL

\* Whatever the requests and sweeps do, the state file of a running server
\* whose last save succeeded is its map, beyond which it holds only expired
\* sessions (session.go:100-115, 215-224).
THEOREM FileFollowsMap == Spec => []FileIsTheMap
<1>1. TokenInv => FileIsTheMap
  BY DEF TokenInv
<1> QED
  BY <1>1, TokenInvHolds, PTL

\* A session signed out of never serves again, neither by a renewal that was in
\* flight nor by a restart, nor by both: a restart brings back only a session whose
\* own sign-out could not be saved, by then or before the exit (session.go:215-237).
THEOREM SignOutIsFinal == Spec => []SignedOutStaysOut
<1>1. TokenInv => SignedOutStaysOut
  BY DEF TokenInv, SignedOutIsGone, SignedOutStaysOut
<1> QED
  BY <1>1, TokenInvHolds, PTL

-----------------------------------------------------------------------------
(* What a request did, and whose tokens it used.                           *)

\* A request that may still call bkn, or that reports "not signed in", has performed
\* nothing; one that reports success has performed its operation once.
EffectFits ==
    \A c \in Call :
        /\ effects[c] <= 1
        /\ pc[c] \notin {"ok", "failed", "died"} => effects[c] = 0
        /\ pc[c] = "ok" => effects[c] = 1

LEMMA NextEffectFits ==
  LockInv /\ EffectFits /\ [Next]_vars => EffectFits'
<1> SUFFICES ASSUME LockInv, EffectFits, [Next]_vars PROVE EffectFits'
  OBVIOUS
<1> USE NamesAssumption
    DEF proc, store, file, locks, request, locals, bkn, history
<1>1. ASSUME NEW l \in Login, BknLogin(l) PROVE EffectFits'
  BY <1>1 DEF BknLogin, EffectFits
<1>2. ASSUME NEW l \in Login, Create(l) PROVE EffectFits'
  BY <1>2 DEF Create, EffectFits
<1>3. ASSUME NEW s \in Login, Logout(s) PROVE EffectFits'
  BY <1>3 DEF Logout, EffectFits
<1>4. ASSUME Sweep PROVE EffectFits'
  BY <1>4 DEF Sweep, EffectFits
<1>5. ASSUME NEW c \in Call, Update(c) PROVE EffectFits'
  BY <1>5 DEF Update, Goto, EffectFits
<1>6. ASSUME NEW c \in Call, Drop(c) PROVE EffectFits'
  BY <1>6 DEF Drop, Return, Goto, EffectFits
<1>7. ASSUME NEW s \in Login, Me(s) PROVE EffectFits'
  BY <1>7 DEF Me, EffectFits
<1>8. ASSUME NEW c \in Call, Get(c) PROVE EffectFits'
  BY <1>8 DEF Get, Goto, LockInv, TypeOK, EffectFits
<1>9. ASSUME NEW c \in Call, ReadAccess(c) PROVE EffectFits'
  BY <1>9 DEF ReadAccess, Goto, EffectFits
<1>10. ASSUME NEW c \in Call, FirstCall(c) PROVE EffectFits'
  BY <1>10 DEF FirstCall, CallBkn, NeedsRenewal, Return, Goto, LockInv, TypeOK, EffectFits
<1>11. ASSUME NEW c \in Call, RefreshLock(c) PROVE EffectFits'
  BY <1>11 DEF RefreshLock, Goto, EffectFits
<1>12. ASSUME NEW c \in Call, Acquire(c) PROVE EffectFits'
  BY <1>12 DEF Acquire, Goto, EffectFits
<1>13. ASSUME NEW c \in Call, Peek(c) PROVE EffectFits'
  BY <1>13 DEF Peek, Return, Goto, LockInv, TypeOK, EffectFits
<1>14. ASSUME NEW c \in Call, Compare(c) PROVE EffectFits'
  BY <1>14 DEF Compare, Goto, LockInv, TypeOK, EffectFits
<1>15. ASSUME NEW c \in Call, SecondCall(c) PROVE EffectFits'
  BY <1>15 DEF SecondCall, CallBkn, Return, Goto, LockInv, TypeOK, EffectFits
<1>16. ASSUME NEW c \in Call, RefreshRotated(c) PROVE EffectFits'
  BY <1>16 DEF RefreshRotated, Goto, EffectFits
<1>17. ASSUME NEW c \in Call, RefreshKept(c) PROVE EffectFits'
  BY <1>17 DEF RefreshKept, Goto, EffectFits
<1>18. ASSUME NEW c \in Call, RefreshLost(c) PROVE EffectFits'
  BY <1>18 DEF RefreshLost, Goto, EffectFits
<1>19. ASSUME NEW c \in Call, RefreshFailed(c) PROVE EffectFits'
  BY <1>19 DEF RefreshFailed, Goto, EffectFits
<1>20. ASSUME NEW c \in Call, StrayRotation(c) PROVE EffectFits'
  BY <1>20 DEF StrayRotation, Return, Goto, EffectFits
<1>21. ASSUME NEW t \in Token, AccessLapse(t) PROVE EffectFits'
  BY <1>21 DEF AccessLapse, EffectFits
<1>22. ASSUME NEW t \in Token, RefreshLapse(t) PROVE EffectFits'
  BY <1>22 DEF RefreshLapse, EffectFits
<1>23. ASSUME NEW s \in Login, Expire(s) PROVE EffectFits'
  BY <1>23 DEF Expire, EffectFits
<1>24. ASSUME Exit PROVE EffectFits'
  BY <1>24 DEF Exit, EffectFits
<1>25. ASSUME Restart PROVE EffectFits'
  BY <1>25 DEF Restart, EffectFits
<1>26. CASE UNCHANGED vars
  BY <1>26 DEF vars, EffectFits
<1> QED
  BY <1>1, <1>2, <1>3, <1>4, <1>5, <1>6, <1>7, <1>8, <1>9, <1>10, <1>11, <1>12,
     <1>13, <1>14, <1>15, <1>16, <1>17, <1>18, <1>19, <1>20, <1>21, <1>22, <1>23,
     <1>24, <1>25, <1>26
  DEF Next, Handler

\* A request performs its operation at most once, exactly once behind a success and never
\* behind a "not signed in", whatever renewals it waits for (api.go:76-143).
THEOREM OperationsHappenOnce == Spec => []EffectMatchesAnswer
<1>1. Init => EffectFits
  BY DEF Init, EffectFits
<1>2. EffectFits => EffectMatchesAnswer
  BY DEF EffectFits, EffectMatchesAnswer
<1> QED
  BY <1>1, <1>2, NextEffectFits, LockInvHolds, PTL DEF Spec

\* Nothing names a request that has not begun, and what Home says of refresh tokens is
\* true of access tokens and of every token a request has in hand.
AccessHome ==
    /\ \A s \in Login : Of(access[s], s) /\ Of(disk.access[s], s)
    /\ \A c \in Call : pc[c] = "idle" =>
         /\ token[c] = None
         /\ \A s \in Login : access[s] # c /\ disk.access[s] # c
    /\ \A c \in Call : pc[c] # "idle" => Of(token[c], sess[c])
    /\ \A c, d \in Call : pc[c] = "idle" => token[d] # c

LEMMA NextAccessHome ==
  LockInv /\ Minted /\ Home /\ AccessHome /\ [Next]_vars => AccessHome'
<1> SUFFICES ASSUME LockInv, Minted, Home, AccessHome, [Next]_vars PROVE AccessHome'
  OBVIOUS
<1> USE NamesAssumption
    DEF proc, store, file, locks, request, locals, bkn, history
<1>1. ASSUME NEW l \in Login, BknLogin(l) PROVE AccessHome'
  BY <1>1 DEF BknLogin, AccessHome, Of
<1>2. ASSUME NEW l \in Login, Create(l) PROVE AccessHome'
  BY <1>2 DEF Create, Save, AccessHome, Of
<1>3. ASSUME NEW s \in Login, Logout(s) PROVE AccessHome'
  BY <1>3 DEF Logout, Remove, Save, AccessHome, Of
<1>4. ASSUME Sweep PROVE AccessHome'
  BY <1>4 DEF Sweep, Save, AccessHome, Of
<1>5. ASSUME NEW c \in Call, Update(c) PROVE AccessHome'
  BY <1>5 DEF Update, StoreRenewed, Save, Goto, LockInv, TypeOK, AccessHome, Of
<1>6. ASSUME NEW c \in Call, Drop(c) PROVE AccessHome'
  BY <1>6 DEF Drop, Remove, Save, Return, Goto, AccessHome, Of
<1>7. ASSUME NEW s \in Login, Me(s) PROVE AccessHome'
  BY <1>7 DEF Me, AccessHome, Of
<1>8. ASSUME NEW c \in Call, Get(c) PROVE AccessHome'
  BY <1>8 DEF Get, Goto, LockInv, TypeOK, AccessHome, Of
<1>9. ASSUME NEW c \in Call, ReadAccess(c) PROVE AccessHome'
  BY <1>9 DEF ReadAccess, Goto, LockInv, HasSession, AccessHome, Of
<1>10. ASSUME NEW c \in Call, FirstCall(c) PROVE AccessHome'
  BY <1>10 DEF FirstCall, Return, Goto, LockInv, TypeOK, AccessHome, Of
<1>11. ASSUME NEW c \in Call, RefreshLock(c) PROVE AccessHome'
  BY <1>11 DEF RefreshLock, Goto, AccessHome, Of
<1>12. ASSUME NEW c \in Call, Acquire(c) PROVE AccessHome'
  BY <1>12 DEF Acquire, Goto, AccessHome, Of
<1>13. ASSUME NEW c \in Call, Peek(c) PROVE AccessHome'
  BY <1>13 DEF Peek, Return, Goto, LockInv, TypeOK, AccessHome, Of
<1>14. ASSUME NEW c \in Call, Compare(c) PROVE AccessHome'
  BY <1>14 DEF Compare, Goto, Minted, Unminted, Home, LockInv, TypeOK, HasSession, AccessHome, Of
<1>15. ASSUME NEW c \in Call, SecondCall(c) PROVE AccessHome'
  BY <1>15 DEF SecondCall, Return, Goto, AccessHome, Of
<1>16. ASSUME NEW c \in Call, RefreshRotated(c) PROVE AccessHome'
  BY <1>16 DEF RefreshRotated, Goto, AccessHome, Of
<1>17. ASSUME NEW c \in Call, RefreshKept(c) PROVE AccessHome'
  BY <1>17 DEF RefreshKept, Goto, AccessHome, Of
<1>18. ASSUME NEW c \in Call, RefreshLost(c) PROVE AccessHome'
  BY <1>18 DEF RefreshLost, Goto, AccessHome, Of
<1>19. ASSUME NEW c \in Call, RefreshFailed(c) PROVE AccessHome'
  BY <1>19 DEF RefreshFailed, Goto, AccessHome, Of
<1>20. ASSUME NEW c \in Call, StrayRotation(c) PROVE AccessHome'
  BY <1>20 DEF StrayRotation, Return, Goto, AccessHome, Of
<1>21. ASSUME NEW t \in Token, AccessLapse(t) PROVE AccessHome'
  BY <1>21 DEF AccessLapse, AccessHome, Of
<1>22. ASSUME NEW t \in Token, RefreshLapse(t) PROVE AccessHome'
  BY <1>22 DEF RefreshLapse, AccessHome, Of
<1>23. ASSUME NEW s \in Login, Expire(s) PROVE AccessHome'
  BY <1>23 DEF Expire, AccessHome, Of
<1>24. ASSUME Exit PROVE AccessHome'
  BY <1>24 DEF Exit, AccessHome, Of
<1>25. ASSUME Restart PROVE AccessHome'
  BY <1>25 DEF Restart, AccessHome, Of
<1>26. CASE UNCHANGED vars
  BY <1>26 DEF vars, AccessHome, Of
<1> QED
  BY <1>1, <1>2, <1>3, <1>4, <1>5, <1>6, <1>7, <1>8, <1>9, <1>10, <1>11, <1>12,
     <1>13, <1>14, <1>15, <1>16, <1>17, <1>18, <1>19, <1>20, <1>21, <1>22, <1>23,
     <1>24, <1>25, <1>26
  DEF Next, Handler

\* No request presents another session's token and no renewal lands in another session,
\* for any number of sessions, requests, exits and failed saves (api.go:100-139).
THEOREM TokensAreOnesOwn == Spec => []TokensStayHome
<1>1. Init => AccessHome
  BY NamesAssumption DEF Init, Empty, AccessHome, Of
<1>2. TokenInv => LockInv /\ Minted /\ Home
  BY DEF TokenInv
<1>3. LockInv /\ Home /\ AccessHome => TokensStayHome
  BY NamesAssumption DEF LockInv, TypeOK, Home, AccessHome, Of, TokensStayHome, Family, Token
<1> QED
  BY <1>1, <1>2, <1>3, NextAccessHome, TokenInvHolds, PTL DEF Spec

-----------------------------------------------------------------------------
(* The one way to end a session that bkn would still have renewed.         *)

\* A renewal fails, for whatever reason, with a refresh token bkn still accepts.
DropsAGoodOne == \E c \in Call : RefreshFailed(c) /\ token[c] \in refreshable

\* The token of a request about to end its session: bkn accepts it no more, and it
\* is not one that bkn has yet to issue.
Unusable ==
    \A c \in Call : pc[c] = "drop" =>
        token[c] \notin refreshable /\ token[c] \notin Unminted /\ Of(token[c], sess[c])

LEMMA NextUnusable == TokenInv /\ Unusable /\ [Next]_vars /\ ~DropsAGoodOne => Unusable'
<1> SUFFICES ASSUME TokenInv, Unusable, [Next]_vars, ~DropsAGoodOne PROVE Unusable'
  OBVIOUS
<1>t. /\ TypeOK /\ Minted /\ Home
      /\ \A c \in Call : pc[c] = "drop" => sess[c] \in Login /\ signIn[sess[c]] = "in"
  BY DEF TokenInv, LockInv, HasSession
<1> USE NamesAssumption, <1>t
    DEF proc, store, file, locks, request, locals, bkn, history, Goto, Rotate, Unminted, Of,
        Token, TypeOK
<1>1. ASSUME NEW l \in Login, BknLogin(l) PROVE Unusable'
  BY <1>1 DEF BknLogin, Unusable
<1>2. ASSUME NEW s \in Login, Logout(s) PROVE Unusable'
  BY <1>2 DEF Logout, Remove, Unusable
<1>3. ASSUME NEW l \in Login, Create(l) PROVE Unusable'
  BY <1>3 DEF Create, Unusable
<1>4. ASSUME NEW s \in Login, Me(s) PROVE Unusable'
  BY <1>4 DEF Me, Unusable
<1>5. ASSUME NEW c \in Call, Get(c) PROVE Unusable'
  BY <1>5 DEF Get, Unusable
<1>6. ASSUME NEW c \in Call, ReadAccess(c) PROVE Unusable'
  BY <1>6 DEF ReadAccess, Unusable
<1>7. ASSUME NEW c \in Call, FirstCall(c) PROVE Unusable'
  BY <1>7 DEF FirstCall, Return, Unusable
<1>8. ASSUME NEW c \in Call, RefreshLock(c) PROVE Unusable'
  BY <1>8 DEF RefreshLock, Unusable
<1>9. ASSUME NEW c \in Call, Acquire(c) PROVE Unusable'
  BY <1>9 DEF Acquire, Unusable
<1>10. ASSUME NEW c \in Call, Peek(c) PROVE Unusable'
  BY <1>10 DEF Peek, Return, Unusable
<1>11. ASSUME NEW c \in Call, Compare(c) PROVE Unusable'
  BY <1>11 DEF Compare, Unusable
<1>12. ASSUME NEW c \in Call, Update(c) PROVE Unusable'
  BY <1>12 DEF Update, Unusable
<1>13. ASSUME NEW c \in Call, SecondCall(c) PROVE Unusable'
  BY <1>13 DEF SecondCall, Return, Unusable
<1>14. ASSUME NEW c \in Call, Drop(c) PROVE Unusable'
  BY <1>14 DEF Drop, Return, Unusable
<1>15. ASSUME NEW c \in Call, RefreshRotated(c) PROVE Unusable'
  BY <1>15 DEF RefreshRotated, Presenting, Minted, Home, Unusable
<1>16. ASSUME NEW c \in Call, RefreshKept(c) PROVE Unusable'
  BY <1>16 DEF RefreshKept, Unusable
<1>17. ASSUME NEW c \in Call, RefreshLost(c) PROVE Unusable'
  BY <1>17 DEF RefreshLost, Presenting, Minted, Home, Unusable
<1>18. ASSUME NEW c \in Call, RefreshFailed(c) PROVE Unusable'
  <2>1. token[c] \notin refreshable
    BY <1>18 DEF DropsAGoodOne
  <2>2. token[c] \notin Unminted /\ Of(token[c], sess[c])
    BY <1>18 DEF RefreshFailed, Presenting, Minted, Home
  <2>3. /\ pc' = [pc EXCEPT ![c] = "drop"]
        /\ token' = token /\ sess' = sess /\ refreshable' = refreshable
    BY <1>18 DEF RefreshFailed
  <2> QED
    BY <2>1, <2>2, <2>3 DEF Unusable
<1>19. ASSUME NEW c \in Call, StrayRotation(c) PROVE Unusable'
  BY <1>19 DEF StrayRotation, Return, Unusable
<1>20. ASSUME NEW t \in Token, AccessLapse(t) PROVE Unusable'
  BY <1>20 DEF AccessLapse, Unusable
<1>21. ASSUME NEW t \in Token, RefreshLapse(t) PROVE Unusable'
  BY <1>21 DEF RefreshLapse, Unusable
<1>22. ASSUME NEW s \in Login, Expire(s) PROVE Unusable'
  BY <1>22 DEF Expire, Unusable
<1>23. ASSUME Sweep PROVE Unusable'
  BY <1>23 DEF Sweep, Unusable
<1>24. ASSUME Exit PROVE Unusable'
  BY <1>24 DEF Exit, Unusable
<1>25. ASSUME Restart PROVE Unusable'
  BY <1>25 DEF Restart, Unusable
<1>26. CASE UNCHANGED vars
  BY <1>26 DEF vars, Unusable
<1> QED
  BY <1>1, <1>2, <1>3, <1>4, <1>5, <1>6, <1>7, <1>8, <1>9, <1>10, <1>11, <1>12, <1>13,
     <1>14, <1>15, <1>16, <1>17, <1>18, <1>19, <1>20, <1>21, <1>22, <1>23, <1>24, <1>25,
     <1>26
  DEF Next, Handler

\* withBkn ends a session only when bkn no longer accepts its refresh token, through
\* rotations, lost answers, exits and restarts, as long as no renewal fails with a
\* token that bkn would accept: taking every failure of bkn.Refresh for a refusal is
\* the only cause (api.go:121-130).
THEOREM FailedRenewalsAreTheCause ==
  Spec /\ [][~DropsAGoodOne]_vars => []DropMeansUnusable
<1>1. Unusable => DropMeansUnusable
  BY DEF Unusable, DropMeansUnusable
<1>2. Init => Unusable
  BY DEF Init, Unusable
<1>3. TokenInv /\ Unusable /\ [Next]_vars /\ [~DropsAGoodOne]_vars => Unusable'
  <2>1. Unusable /\ UNCHANGED vars => Unusable'
    BY DEF vars, proc, store, file, locks, request, locals, bkn, history, Unusable, Unminted, Of
  <2> QED
    BY <2>1, NextUnusable
<1> QED
  BY <1>1, <1>2, <1>3, TokenInvHolds, PTL DEF Spec
=============================================================================
