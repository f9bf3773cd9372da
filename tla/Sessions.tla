------------------------------- MODULE Sessions -------------------------------
(***************************************************************************)
(* The session store of bkn-drive (session.go) and the request path that   *)
(* uses it (api.go: withBkn, handleLogin, handleLogout, handleMe), run by  *)
(* many request goroutines at once, against bkn, which is external.        *)
(*                                                                         *)
(* Requests are one-shot and name what they make: sign-in request l makes  *)
(* session l and the first token pair l; request c that renews a session   *)
(* obtains token pair c, and the mutex c if it is the first to ask for its *)
(* session's refresh lock.  An access token and the refresh token minted   *)
(* with it share a name; the sets liveAccess and refreshable tell what bkn *)
(* still accepts of each.                                                  *)
(*                                                                         *)
(* A step is what one goroutine does between two points where another can  *)
(* run: one critical section of sessionStore.mu, one read outside it, one  *)
(* call to bkn, or one operation on a refresh mutex.                       *)
(***************************************************************************)
EXTENDS Naturals

CONSTANTS
    Login,        \* sign-in requests (form or auto-login)
    Call,         \* requests that run through withBkn
    None,         \* no token, no mutex, no request
    Torn,         \* what a racing read of session.Access can return
    SaveMayFail,  \* whether writing the state file can fail
    MaxCrashes    \* bound on process exits

ASSUME NamesAssumption ==
    /\ Login \cap Call = {}
    /\ None \notin Login \cup Call
    /\ Torn \notin Login \cup Call \cup {None}

ASSUME ParametersAssumption ==
    /\ SaveMayFail \in BOOLEAN
    /\ MaxCrashes \in Nat

VARIABLES
    running,      \* the server process is up
    crashes,      \* how many times it has exited
    live,         \* sessionStore.byID: the ids in the map
    access,       \* session.Access of each session object
    refresh,      \* session.Refresh of each session object
    expired,      \* sessions whose Expires has passed
    disk,         \* the state file
    behind,       \* the last save failed, so the file is not the map
    refreshing,   \* sessionStore.refreshing: id -> mutex
    holder,       \* which request holds each refresh mutex
    signIn,       \* progress of each sign-in request
    pc,           \* where each request is in withBkn
    sess,         \* the session id its cookie named
    used,         \* withBkn's local `used`
    token,        \* the token it is about to present to bkn
    rotates,      \* fresh.Refresh is not empty
    mine,         \* withBkn's local `lock`
    liveAccess,   \* access tokens bkn accepts
    refreshable,  \* refresh tokens bkn accepts
    spent,        \* refresh tokens bkn has rotated away
    effects,      \* history: how often bkn performed the request's operation
    loggedOut,    \* history: sessions whose owner signed out
    unsaved,      \* history: those whose sign-out could not be saved
    orphaned      \* history: sessions whose rotation an exit kept from the file

proc    == <<running, crashes>>
store   == <<live, access, refresh>>
file    == <<disk, behind>>
locks   == <<refreshing, holder>>
locals  == <<used, token, rotates, mine>>
request == <<pc, sess, locals>>
bkn     == <<liveAccess, refreshable, spent>>
history == <<effects, loggedOut, unsaved, orphaned>>
vars    == <<proc, store, expired, file, locks, signIn, request, bkn, history>>

Token == Login \cup Call

Done     == {"ok", "failed", "signedOut", "died"}
\* Between locking and the deferred unlock, api.go:101-142.
Locked   == {"peek", "compare", "refresh", "update", "drop", "retry"}
\* Past a peek that found the session and the access token unchanged.
Renewing == {"refresh", "update", "drop"}
InFlight == {"read", "call", "lock", "wait"} \cup Locked
Stage    == {"idle", "stray"} \cup InFlight \cup Done

Empty == [ids |-> {}, access |-> [s \in Login |-> None],
          refresh |-> [s \in Login |-> None]]

Init ==
    /\ running = TRUE /\ crashes = 0
    /\ live = {} /\ expired = {}
    /\ access = [s \in Login |-> None] /\ refresh = [s \in Login |-> None]
    /\ disk = Empty /\ behind = FALSE
    /\ refreshing = [s \in Login |-> None] /\ holder = [m \in Call |-> None]
    /\ signIn = [l \in Login |-> "new"]
    /\ pc = [c \in Call |-> "idle"] /\ sess = [c \in Call |-> None]
    /\ used = [c \in Call |-> None] /\ token = [c \in Call |-> None]
    /\ rotates = [c \in Call |-> FALSE] /\ mine = [c \in Call |-> None]
    /\ liveAccess = {} /\ refreshable = {} /\ spent = {}
    /\ effects = [c \in Call |-> 0] /\ loggedOut = {} /\ unsaved = {}
    /\ orphaned = {}

-----------------------------------------------------------------------------
(* The store's helpers.                                                    *)

\* save(): the whole map goes through a temp file and a rename, so the file is
\* the new map or, on any error (all of them are ignored), still the old one.
Save ==
    \/ /\ disk' = [ids     |-> live',
                   access  |-> [s \in Login |-> IF s \in live' THEN access'[s] ELSE None],
                   refresh |-> [s \in Login |-> IF s \in live' THEN refresh'[s] ELSE None]]
       /\ behind' = FALSE
    \/ SaveMayFail /\ disk' = disk /\ behind' = TRUE

\* MUTANT of LockOf: a new mutex for every request.
LockOfAlwaysNew(c) == c

\* The mutex refreshLock returns: the session's, or one this request makes.
LockOf(c) == IF refreshing[sess[c]] # None THEN refreshing[sess[c]] ELSE c

\* drop(): the session and its refresh mutex leave the maps, and the file.
Remove(s) ==
    /\ live' = live \ {s}
    /\ refreshing' = [refreshing EXCEPT ![s] = None]
    /\ UNCHANGED <<access, refresh>>
    /\ Save

\* MUTANTS of KeptRefresh: the rotated token is not stored; an empty one
\* overwrites the good one.
KeptRefreshForgotten(c) == refresh[sess[c]]
KeptRefreshBlanked(c) == IF rotates[c] THEN c ELSE None

\* The refresh token the session keeps: bkn may answer without a new one.
KeptRefresh(c) == IF rotates[c] THEN c ELSE refresh[sess[c]]

\* MUTANTS of StoreRenewed: no save; the session is put back if it has gone;
\* every session is given the new access token.
StoreRenewedUnsaved(c) ==
    /\ UNCHANGED <<live, file>>
    /\ IF sess[c] \in live
       THEN /\ access' = [access EXCEPT ![sess[c]] = token[c]]
            /\ refresh' = [refresh EXCEPT ![sess[c]] = KeptRefresh(c)]
       ELSE UNCHANGED <<access, refresh>>
StoreRenewedBlindly(c) ==
    /\ live' = live \cup {sess[c]}
    /\ access' = [access EXCEPT ![sess[c]] = token[c]]
    /\ refresh' = [refresh EXCEPT ![sess[c]] = KeptRefresh(c)]
    /\ Save
StoreRenewedEverywhere(c) ==
    /\ UNCHANGED live
    /\ access' = [s \in Login |-> IF s \in live THEN token[c] ELSE access[s]]
    /\ refresh' = [refresh EXCEPT ![sess[c]] = KeptRefresh(c)]
    /\ Save

\* update(): only a session still in the map is changed, and then saved.
StoreRenewed(c) ==
    /\ UNCHANGED live
    /\ IF sess[c] \in live
       THEN /\ access' = [access EXCEPT ![sess[c]] = token[c]]
            /\ refresh' = [refresh EXCEPT ![sess[c]] = KeptRefresh(c)]
            /\ Save
       ELSE UNCHANGED <<access, refresh, file>>

\* MUTANT of Unlock: an early return without it.
UnlockForgotten(c) == UNCHANGED holder

\* The deferred lock.Unlock().
Unlock(c) == holder' = [holder EXCEPT ![mine[c]] = None]

-----------------------------------------------------------------------------
(* Signing in and out.                                                     *)

\* bkn.Login answers: a token pair, whose refresh token may be missing.
BknLogin(l) ==
    /\ running /\ signIn[l] = "new"
    /\ signIn' = [signIn EXCEPT ![l] = "granted"]
    /\ access' = [access EXCEPT ![l] = l]
    /\ liveAccess' = liveAccess \cup {l}
    /\ \/ /\ refresh' = [refresh EXCEPT ![l] = l]
          /\ refreshable' = refreshable \cup {l}
       \/ UNCHANGED <<refresh, refreshable>>
    /\ UNCHANGED <<proc, live, expired, file, locks, request, spent, history>>

\* create(): a new random id enters the map, is saved, and becomes a cookie.
Create(l) ==
    /\ signIn[l] = "granted"
    /\ signIn' = [signIn EXCEPT ![l] = "in"]
    /\ live' = live \cup {l}
    /\ UNCHANGED <<access, refresh>>
    /\ Save
    /\ UNCHANGED <<proc, expired, locks, request, bkn, history>>

\* handleLogout -> drop(), with any cookie ever handed out.
Logout(s) ==
    /\ running /\ signIn[s] = "in"
    /\ Remove(s)
    /\ loggedOut' = loggedOut \cup {s}
    /\ unsaved' = IF behind' THEN unsaved \cup {s} ELSE unsaved \ {s}
    /\ UNCHANGED <<proc, expired, holder, signIn, request, bkn, effects, orphaned>>

\* handleMe -> get(): it changes the map only by deleting an expired session,
\* and it saves nothing.
Me(s) ==
    /\ running /\ s \in live \cap expired
    /\ live' = live \ {s}
    /\ UNCHANGED <<proc, access, refresh, expired, file, locks, signIn, request,
                   bkn, history>>

\* MUTANT of Sweep: the comparison with the clock is the wrong way round.
SweepTheLiving ==
    /\ running
    /\ live' = live \cap expired
    /\ UNCHANGED <<access, refresh>>
    /\ IF live \ expired # {} THEN Save ELSE UNCHANGED file
    /\ UNCHANGED <<proc, expired, locks, signIn, request, bkn, history>>

\* One tick of sweep(); dirty is never set, so only a deletion makes it save.
Sweep ==
    /\ running
    /\ live' = live \ expired
    /\ UNCHANGED <<access, refresh>>
    /\ IF live \cap expired # {} THEN Save ELSE UNCHANGED file
    /\ UNCHANGED <<proc, expired, locks, signIn, request, bkn, history>>

-----------------------------------------------------------------------------
(* withBkn, step by step.                                                  *)

Goto(c, stage) == pc' = [pc EXCEPT ![c] = stage]

\* The handler answers and returns: its locals go.
Return(c, answer) ==
    /\ Goto(c, answer)
    /\ used' = [used EXCEPT ![c] = None] /\ token' = [token EXCEPT ![c] = None]
    /\ mine' = [mine EXCEPT ![c] = None] /\ rotates' = [rotates EXCEPT ![c] = FALSE]

\* sessions.get: the cookie names a session; one that has expired is deleted
\* from the map there and then, without a save.
Get(c) ==
    /\ running /\ pc[c] = "idle"
    /\ \E s \in Login :
        /\ signIn[s] = "in"
        /\ sess' = [sess EXCEPT ![c] = s]
        /\ IF s \in live \ expired
           THEN Goto(c, "read") /\ UNCHANGED live
           ELSE Goto(c, "signedOut") /\ live' = live \ {s}
    /\ UNCHANGED <<proc, access, refresh, expired, file, locks, signIn, used,
                   token, rotates, mine, bkn, history>>

\* MUTANT of ReadAccess: the token read is also trimmed in place, so a torn read
\* ends up in the session.
ReadAccessInPlace(c) ==
    /\ pc[c] = "read"
    /\ \E t \in {access[sess[c]]}
                \cup {x \in {Torn} : \E d \in Call : pc[d] = "update" /\ sess[d] = sess[c]} :
        /\ used' = [used EXCEPT ![c] = t]
        /\ token' = [token EXCEPT ![c] = t]
        /\ access' = [access EXCEPT ![sess[c]] = t]
    /\ Goto(c, "call")
    /\ UNCHANGED <<proc, live, refresh, expired, file, locks, signIn, sess, rotates,
                   mine, bkn, history>>

\* used := sess.Access, outside sessionStore.mu.  While another request is
\* inside update() for the same session the read races with its write, and a
\* two-word string read in a race need not be either token.
ReadAccess(c) ==
    /\ pc[c] = "read"
    /\ \E t \in {access[sess[c]]}
                \cup {x \in {Torn} : \E d \in Call : pc[d] = "update" /\ sess[d] = sess[c]} :
        /\ used' = [used EXCEPT ![c] = t]
        /\ token' = [token EXCEPT ![c] = t]
    /\ Goto(c, "call")
    /\ UNCHANGED <<proc, store, expired, file, locks, signIn, sess, rotates, mine,
                   bkn, history>>

\* What fn(token) can come back with: bkn answers 401 to a token it does not
\* accept, and any call can fail, before bkn performed it or after.
Outcomes(t) ==
    {"failed"} \cup IF t \in liveAccess THEN {"ok", "lostAnswer"} ELSE {"unauthorized"}

\* fn(token): every operation the API offers is one call to bkn (a drive
\* script run, an upload, a download link).
CallBkn(c, outcome) ==
    effects' = [effects EXCEPT ![c] =
        IF outcome \in {"ok", "lostAnswer"} THEN @ + 1 ELSE @]

\* MUTANT of NeedsRenewal: any failure is tried again.
NeedsRenewalOnAnyError(outcome) == outcome # "ok"

\* Only bkn's 401 makes withBkn try to renew the session.
NeedsRenewal(outcome) == outcome = "unauthorized"

FirstCall(c) ==
    /\ pc[c] = "call"
    /\ \E outcome \in Outcomes(token[c]) :
        /\ CallBkn(c, outcome)
        /\ IF NeedsRenewal(outcome)
           THEN Goto(c, "lock") /\ UNCHANGED locals
           ELSE Return(c, IF outcome = "ok" THEN "ok" ELSE "failed")
    /\ UNCHANGED <<proc, store, expired, file, locks, signIn, sess, bkn, loggedOut,
                   unsaved, orphaned>>

\* sessions.refreshLock: get or create the session's mutex.
RefreshLock(c) ==
    /\ pc[c] = "lock"
    /\ mine' = [mine EXCEPT ![c] = LockOf(c)]
    /\ refreshing' = [refreshing EXCEPT ![sess[c]] = LockOf(c)]
    /\ Goto(c, "wait")
    /\ UNCHANGED <<proc, store, expired, file, holder, signIn, sess, used, token,
                   rotates, bkn, history>>

Acquire(c) ==
    /\ pc[c] = "wait" /\ holder[mine[c]] = None
    /\ holder' = [holder EXCEPT ![mine[c]] = c]
    /\ Goto(c, "peek")
    /\ UNCHANGED <<proc, store, expired, file, refreshing, signIn, sess, used,
                   token, rotates, mine, bkn, history>>

\* sessions.peek: the session may have gone while this request waited.
Peek(c) ==
    /\ pc[c] = "peek"
    /\ IF sess[c] \in live
       THEN Goto(c, "compare") /\ UNCHANGED <<holder, locals>>
       ELSE Return(c, "signedOut") /\ Unlock(c)
    /\ UNCHANGED <<proc, store, expired, file, refreshing, signIn, sess, bkn, history>>

\* MUTANT of SomebodyElseRenewed: the comparison is missing.
SomebodyElseRenewedUnseen(c) == FALSE

\* current.Access != used
SomebodyElseRenewed(c) == access[sess[c]] # used[c]

\* Another request's token is tried again; with the token that just failed
\* still in place, this request presents the session's refresh token, if any.
Compare(c) ==
    /\ pc[c] = "compare"
    /\ LET s == sess[c] IN
        IF SomebodyElseRenewed(c)
        THEN /\ token' = [token EXCEPT ![c] = access[s]]
             /\ Goto(c, "retry")
        ELSE /\ token' = [token EXCEPT ![c] = refresh[s]]
             /\ Goto(c, IF refresh[s] = None THEN "drop" ELSE "refresh")
    /\ UNCHANGED <<proc, store, expired, file, locks, signIn, sess, used, rotates,
                   mine, bkn, history>>

\* sessions.update with the pair bkn returned.
Update(c) ==
    /\ pc[c] = "update"
    /\ StoreRenewed(c)
    /\ Goto(c, "retry")
    /\ UNCHANGED <<proc, expired, locks, signIn, sess, used, token, rotates, mine,
                   bkn, history>>

\* The second and last fn(token); its 401 is the browser's answer.
SecondCall(c) ==
    /\ pc[c] = "retry"
    /\ \E outcome \in Outcomes(token[c]) :
        /\ CallBkn(c, outcome)
        /\ Return(c, CASE outcome = "ok" -> "ok"
                       [] outcome = "unauthorized" -> "signedOut"
                       [] OTHER -> "failed")
    /\ Unlock(c)
    /\ UNCHANGED <<proc, store, expired, file, refreshing, signIn, sess, bkn,
                   loggedOut, unsaved, orphaned>>

\* sessions.drop after a renewal that could not be had.
Drop(c) ==
    /\ pc[c] = "drop"
    /\ Remove(sess[c])
    /\ Unlock(c)
    /\ Return(c, "signedOut")
    /\ UNCHANGED <<proc, expired, signIn, sess, bkn, history>>

-----------------------------------------------------------------------------
(* bkn's side of bkn.Refresh.  Rotating revokes the token presented; the   *)
(* new pair is named after the request.                                    *)

Rotate(c) ==
    /\ token[c] \in refreshable
    /\ spent' = spent \cup {token[c]}

\* A new pair arrives.
RefreshRotated(c) ==
    /\ pc[c] = "refresh"
    /\ Rotate(c)
    /\ refreshable' = (refreshable \ {token[c]}) \cup {c}
    /\ liveAccess' = liveAccess \cup {c}
    /\ token' = [token EXCEPT ![c] = c]
    /\ rotates' = [rotates EXCEPT ![c] = TRUE]
    /\ Goto(c, "update")
    /\ UNCHANGED <<proc, store, expired, file, locks, signIn, sess, used, mine, history>>

\* An access token alone arrives: the refresh token presented stays good.
RefreshKept(c) ==
    /\ pc[c] = "refresh" /\ token[c] \in refreshable
    /\ liveAccess' = liveAccess \cup {c}
    /\ token' = [token EXCEPT ![c] = c]
    /\ rotates' = [rotates EXCEPT ![c] = FALSE]
    /\ Goto(c, "update")
    /\ UNCHANGED <<proc, store, expired, file, locks, signIn, sess, used, mine,
                   refreshable, spent, history>>

\* bkn rotated, and its answer was lost, unreadable or without a token.
RefreshLost(c) ==
    /\ pc[c] = "refresh"
    /\ Rotate(c)
    /\ refreshable' = refreshable \ {token[c]}
    /\ Goto(c, "drop")
    /\ UNCHANGED <<proc, store, expired, file, locks, signIn, sess, used, token,
                   rotates, mine, liveAccess, history>>

\* bkn refused the token, failed, or was not reached: bkn changes nothing.
RefreshFailed(c) ==
    /\ pc[c] = "refresh"
    /\ Goto(c, "drop")
    /\ UNCHANGED <<proc, store, expired, file, locks, signIn, sess, used, token,
                   rotates, mine, bkn, history>>

\* A refresh request the server sent before it exited reaches bkn later.
StrayRotation(c) ==
    /\ pc[c] = "stray"
    /\ IF token[c] \in refreshable
       THEN Rotate(c) /\ refreshable' = refreshable \ {token[c]}
       ELSE UNCHANGED <<spent, refreshable>>
    /\ Return(c, "died")
    /\ UNCHANGED <<proc, store, expired, file, locks, signIn, sess, liveAccess, history>>

\* Access tokens live 15 minutes; either kind may be revoked at bkn.
AccessLapse(t) ==
    /\ t \in liveAccess
    /\ liveAccess' = liveAccess \ {t}
    /\ UNCHANGED <<proc, store, expired, file, locks, signIn, request,
                   refreshable, spent, history>>

RefreshLapse(t) ==
    /\ t \in refreshable
    /\ refreshable' = refreshable \ {t}
    /\ UNCHANGED <<proc, store, expired, file, locks, signIn, request,
                   liveAccess, spent, history>>

-----------------------------------------------------------------------------
(* Time, exits and restarts.                                               *)

\* The absolute deadline create() set passes.
Expire(s) ==
    /\ signIn[s] = "in" /\ s \notin expired
    /\ expired' = expired \cup {s}
    /\ UNCHANGED <<proc, store, file, locks, signIn, request, bkn, history>>

\* What an exit keeps from the file: a rotation not yet stored, or whose answer was
\* lost, one that a refresh on its way to bkn will make, and one whose save failed.
Rotated(c) ==
    \/ pc[c] = "update" /\ rotates[c]
    \/ pc[c] = "drop" /\ token[c] \in spent
Unstored(strays) ==
    {sess[c] : c \in strays \cup {d \in Call : Rotated(d)}}
    \cup {s \in disk.ids : behind /\ disk.refresh[s] \in spent}

\* The process ends at any moment, by a crash or by os.Exit from handleShutdown,
\* which waits for no request.  Memory goes and requests die; a refresh request
\* already sent may still be on its way to bkn.  A sign-out that no save has
\* carried into the file is undone.
Exit ==
    /\ running /\ crashes < MaxCrashes
    /\ running' = FALSE /\ crashes' = crashes + 1
    /\ live' = {}
    /\ access' = [s \in Login |-> None] /\ refresh' = [s \in Login |-> None]
    /\ refreshing' = [s \in Login |-> None] /\ holder' = [m \in Call |-> None]
    /\ signIn' = [l \in Login |-> IF signIn[l] = "granted" THEN "lost" ELSE signIn[l]]
    /\ \E strays \in SUBSET {c \in Call : pc[c] = "refresh"} :
        /\ pc' = [c \in Call |-> IF c \in strays THEN "stray"
                                 ELSE IF pc[c] \in InFlight THEN "died" ELSE pc[c]]
        /\ token' = [c \in Call |-> IF c \in strays THEN token[c] ELSE None]
        /\ orphaned' = orphaned \cup Unstored(strays)
    /\ used' = [c \in Call |-> None] /\ rotates' = [c \in Call |-> FALSE]
    /\ mine' = [c \in Call |-> None]
    /\ loggedOut' = loggedOut \ (unsaved \cap disk.ids) /\ unsaved' = {}
    /\ UNCHANGED <<expired, file, sess, bkn, effects>>

\* load(): what the file holds and has not expired.
Restart ==
    /\ ~running
    /\ running' = TRUE
    /\ live' = disk.ids \ expired
    /\ access' = [s \in Login |-> IF s \in live' THEN disk.access[s] ELSE None]
    /\ refresh' = [s \in Login |-> IF s \in live' THEN disk.refresh[s] ELSE None]
    /\ behind' = FALSE
    /\ UNCHANGED <<crashes, expired, disk, locks, signIn, request, bkn, history>>

-----------------------------------------------------------------------------
Handler(c) ==
    \/ ReadAccess(c) \/ FirstCall(c) \/ RefreshLock(c) \/ Acquire(c)
    \/ Peek(c) \/ Compare(c) \/ Update(c) \/ SecondCall(c) \/ Drop(c)
    \/ RefreshRotated(c) \/ RefreshKept(c) \/ RefreshLost(c) \/ RefreshFailed(c)

Next ==
    \/ \E l \in Login : BknLogin(l) \/ Create(l) \/ Logout(l) \/ Me(l) \/ Expire(l)
    \/ \E c \in Call : Get(c) \/ Handler(c) \/ StrayRotation(c)
    \/ \E t \in Token : AccessLapse(t) \/ RefreshLapse(t)
    \/ Sweep \/ Exit \/ Restart

Spec == Init /\ [][Next]_vars

\* A goroutine that can run does, Go's mutexes let every waiter in, every call
\* to bkn ends by the client's 5-minute timeout, and sweep's ticker ticks.
FairSpec ==
    /\ Spec
    /\ \A c \in Call : WF_vars(Handler(c))
    /\ WF_vars(Sweep)

-----------------------------------------------------------------------------
StateFile == [ids : SUBSET Login, access : [Login -> Token \cup {None}],
              refresh : [Login -> Token \cup {None}]]

TypeOK ==
    /\ running \in BOOLEAN /\ crashes \in 0..MaxCrashes
    /\ live \subseteq Login /\ expired \subseteq Login
    /\ access \in [Login -> Token \cup {None}]
    /\ refresh \in [Login -> Token \cup {None}]
    /\ disk \in StateFile /\ behind \in BOOLEAN
    /\ refreshing \in [Login -> Call \cup {None}]
    /\ holder \in [Call -> Call \cup {None}]
    /\ signIn \in [Login -> {"new", "granted", "in", "lost"}]
    /\ pc \in [Call -> Stage] /\ sess \in [Call -> Login \cup {None}]
    /\ used \in [Call -> Token \cup {None, Torn}]
    /\ token \in [Call -> Token \cup {None, Torn}]
    /\ rotates \in [Call -> BOOLEAN] /\ mine \in [Call -> Call \cup {None}]
    /\ liveAccess \subseteq Token /\ refreshable \subseteq Token
    /\ spent \subseteq Token
    /\ effects \in [Call -> Nat] /\ loggedOut \subseteq Login
    /\ unsaved \subseteq Login /\ orphaned \subseteq Login

\* "Exactly one request per session may rotate it" (api.go:95): no two requests
\* are past the peek with the same session's refresh token in hand, whatever
\* sign-outs, sweeps and exits do to the map of mutexes meanwhile.
RotationExclusive ==
    \A c, d \in Call :
        pc[c] \in Renewing /\ pc[d] \in Renewing /\ sess[c] = sess[d] => c = d

\* Concurrent requests never present a spent refresh token to bkn
\* (session.go:44-48), unless an exit came between bkn's rotation of the
\* session's token and the save of the new one.
NoSpentPresented ==
    \A c \in Call :
        pc[c] = "refresh" /\ sess[c] \notin orphaned => token[c] \notin spent

\* A request renews only a session whose access token is still the very one bkn
\* refused it, and with that session's current refresh token (api.go:110-125): a
\* torn read or a renewal it waited for never costs a second renewal.  When the
\* new pair is stored, the refused token is still there: it never lands over a
\* newer pair of the same session (api.go:134-140).
RenewsWhatFailed ==
    \A c \in Call :
        /\ pc[c] \in {"refresh", "update"} /\ sess[c] \in live =>
              access[sess[c]] = used[c]
        /\ pc[c] = "refresh" /\ sess[c] \in live => refresh[sess[c]] = token[c]

\* fn runs at most twice, and the operation happens at most once: exactly once
\* behind a success, never behind a "not signed in" (api.go:76-143).
EffectMatchesAnswer ==
    \A c \in Call :
        /\ effects[c] <= 1
        /\ pc[c] = "ok" => effects[c] = 1
        /\ pc[c] = "signedOut" => effects[c] = 0

\* Unless the last save failed, the file holds every session of a running
\* server with its current tokens, and beyond those only expired ones
\* (session.go:100-115, 215-224): an exit costs nobody a session.
FileIsTheMap ==
    running /\ ~behind =>
        /\ live \subseteq disk.ids /\ disk.ids \ live \subseteq expired
        /\ \A s \in live : disk.access[s] = access[s] /\ disk.refresh[s] = refresh[s]

\* A session signed out of never serves again, not by a renewal in flight when
\* its owner signed out, nor by a restart, nor by both.  The one sign-out that an
\* exit undoes, as Exit says, is one whose own save failed and that no later
\* save had carried into the file (session.go:215-237).
SignedOutStaysOut == loggedOut \cap live = {}

\* A session's tokens are those its own sign-in and its own requests obtained:
\* no request presents another session's token, and no renewal lands in
\* another session (api.go:100-139).
Family(s) == {s} \cup {c \in Call : sess[c] = s}
TokensStayHome ==
    /\ \A s \in live : {access[s], refresh[s]} \subseteq Family(s) \cup {None}
    /\ \A c \in Call : token[c] \in Family(sess[c]) \cup {None, Torn}

\* Every request is answered, however the renewals queue up (api.go:79-143).
EveryCallAnswered == \A c \in Call : pc[c] \in InFlight ~> pc[c] \in Done \cup {"stray"}

\* An expired session leaves memory without anybody asking (session.go:117-136).
ExpiredLeavesMemory == \A s \in Login : s \in expired ~> s \notin live

\* "Only now is the session genuinely unusable" (api.go:127-129): withBkn ends a
\* session only when bkn no longer accepts its refresh token.
DropMeansUnusable == \A c \in Call : pc[c] = "drop" => token[c] \notin refreshable

\* "sweep drops idle sessions. Without it a long-lived server accumulates
\* refresh tokens" (session.go:117-118): an expired session leaves the file too.
ExpiredLeavesFile == \A s \in Login : s \in expired ~> s \notin disk.ids

-----------------------------------------------------------------------------
(* What a session promises (SessionPromise), as this store keeps it: the   *)
(* sessions are those of the map, or those a restart would load.           *)

Held == IF running THEN live ELSE disk.ids \ expired

Promise == INSTANCE SessionPromise WITH
    status <- [s \in Login |-> IF s \in Held THEN "active"
                               ELSE IF signIn[s] = "in" THEN "over" ELSE "none"],
    access <- [s \in Login |-> IF s \notin Held THEN None
                               ELSE IF running THEN access[s] ELSE disk.access[s]],
    refresh <- [s \in Login |-> IF s \notin Held THEN None
                                ELSE IF running THEN refresh[s] ELSE disk.refresh[s]]

\* When saves succeed, no interleaving of requests, sweeps, exits and restarts
\* shows a session other than one that is signed in once, renewed by its own
\* requests, and over for good (session.go:147-237, api.go:79-143).
KeepsPromise == Promise!Spec

=============================================================================
