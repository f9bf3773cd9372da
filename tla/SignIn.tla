------------------------------- MODULE SignIn -------------------------------
(***************************************************************************)
(* Everything that spends or restores an attempt: the sign-in form         *)
(* (handleLogin), the auto-login link, share pages, the authenticated API  *)
(* and the operator's reset, over the three limiters of api.go:24-42.      *)
(*                                                                         *)
(* A limiter is here the set of attempts that hold a place for each key.   *)
(* RateLimiter shows what its window does with time; here a place lapses   *)
(* at any moment.  Requests run as goroutines: a step is one call of a     *)
(* limiter, one call to bkn, or sessions.create.                           *)
(***************************************************************************)
EXTENDS Integers, FiniteSets, Sequences

CONSTANTS
    Request,      \* requests, each used once
    Address,      \* network addresses
    Loopback,     \* one of them: this machine
    Email,        \* e-mail addresses as people spell them
    Fold,         \* strings.ToLower(strings.TrimSpace(.)) on them
    Claims,       \* the X-Forwarded-For headers callers send themselves
    Limit,        \* attempts per window, for each limiter
    Arrivals,     \* the requests that may come
    Environments  \* what the environment may say of auto-login

Limiters == {"loginByIP", "loginByAccount", "apiByIP"}

\* caller is the address at the far end, direct says that no proxy is between,
\* claim what the caller put into X-Forwarded-For itself.
Requests == [kind : {"login", "auto", "share", "api", "reset"}, caller : Address,
             direct : BOOLEAN, claim : Claims, email : Email, key : BOOLEAN]

\* The password file is "vanished" if it was read but its mode could not be.
Configs == [email : BOOLEAN,
            file : {"unset", "unreadable", "shared", "empty", "private", "vanished"},
            key : {"short", "long"}]

ASSUME SignInAssumption ==
    /\ IsFiniteSet(Request)
    /\ Loopback \in Address
    /\ Fold \in [Email -> Email]
    /\ Claims \subseteq Seq(Address)
    /\ Limit \in [Limiters -> Nat \ {0}]
    /\ Arrivals \subseteq Requests
    /\ Environments \subseteq Configs

VARIABLES
    config,       \* the environment of auto-login
    req,          \* what each request is
    pc,           \* where its handler is
    answer,       \* what it answered
    places,       \* hits of each limiter: who holds a place for which key
    sessions,     \* the requests that created a session
    tried,        \* history: passwords bkn was asked about, and wrong keys of the
                  \* auto-login link compared, per limiter and key
    freed,        \* history: places given back by lapsing, and by clearing a key
    held          \* history: who held which place of a request's keys when bkn
                  \* accepted its password

handler == <<req, pc, answer>>
history == <<tried, freed, held>>
vars    == <<config, handler, places, sessions, history>>

Key == Address \cup Email

Places == {"arrived", "decoding", "account", "key", "calling",
           "accepted", "forgot", "creating", "resolving", "reset1", "reset2", "done"}
Answers == {"none", "too_many", "bad_request", "failed", "signed_in", "ui",
            "page", "served", "not_found", "reset"}

Nothing == [l \in Limiters |-> [k \in Key |-> {}]]
Zero    == [l \in Limiters |-> [k \in Key |-> 0]]

Init ==
    /\ config \in Environments
    /\ req \in [Request -> Arrivals]
    /\ pc = [r \in Request |-> "arrived"] /\ answer = [r \in Request |-> "none"]
    /\ places = Nothing /\ sessions = {}
    /\ tried = Zero /\ freed = Zero /\ held = [r \in Request |-> {}]

-----------------------------------------------------------------------------
\* What the server sees of a request: the proxy on this machine appends the
\* address it was called from.
RemoteAddr(q) == IF q.direct THEN q.caller ELSE Loopback
Forwarded(q)  == IF q.direct THEN q.claim ELSE Append(q.claim, q.caller)

\* MUTANT of ClientIP: the first entry is used.
ClientIPFirst(q) ==
    IF RemoteAddr(q) # Loopback \/ Forwarded(q) = <<>> THEN RemoteAddr(q)
    ELSE Head(Forwarded(q))

\* clientIP: the last entry, and only if the peer is this machine.
ClientIP(q) ==
    IF RemoteAddr(q) # Loopback \/ Forwarded(q) = <<>> THEN RemoteAddr(q)
    ELSE Forwarded(q)[Len(Forwarded(q))]

AccountKey(q) == Fold[q.email]

\* MUTANT of FromTheBox: the header is not looked at.
FromTheBoxPeer(q) == RemoteAddr(q) = Loopback

\* The test of handleResetLimits.
FromTheBox(q) == RemoteAddr(q) = Loopback /\ Forwarded(q) = <<>>

\* MUTANT of AutoLogin: the mode of the password file is not looked at.
AutoLoginModeUnread ==
    config.email /\ config.file \in {"shared", "private", "vanished"} /\ config.key = "long"

\* loadAutoLogin: whether it enables auto-login.  A mode that cannot be read is let pass.
AutoLogin ==
    config.email /\ config.file \in {"private", "vanished"} /\ config.key = "long"

-----------------------------------------------------------------------------
At(r, kinds, place) == req[r].kind \in kinds /\ pc[r] = place
Go(r, place) == pc' = [pc EXCEPT ![r] = place] /\ UNCHANGED <<req, answer>>
Answer(r, a) ==
    pc' = [pc EXCEPT ![r] = "done"] /\ answer' = [answer EXCEPT ![r] = a] /\ UNCHANGED req

\* limiter.allow for request r: it takes a place, or there is none.
Allow(l, k, r) ==
    /\ Cardinality(places[l][k]) < Limit[l]
    /\ places' = [places EXCEPT ![l][k] = @ \cup {r}]
Refuse(l, k) == Cardinality(places[l][k]) >= Limit[l] /\ UNCHANGED places

\* limiter.forget.
Forget(l, k) ==
    /\ places' = [places EXCEPT ![l][k] = {}]
    /\ freed' = [freed EXCEPT ![l][k] = @ + Cardinality(places[l][k])]

\* limiter.reset.
Reset(l) ==
    /\ places' = [places EXCEPT ![l] = [k \in Key |-> {}]]
    /\ freed' = [freed EXCEPT ![l] = [k \in Key |-> @[k] + Cardinality(places[l][k])]]

-----------------------------------------------------------------------------
\* handleAutoLogin without a configuration: the UI.
AutoLoginOff(r) ==
    /\ At(r, {"auto"}, "arrived") /\ ~AutoLogin
    /\ Answer(r, "ui")
    /\ UNCHANGED <<config, places, sessions, history>>

\* handleLogin, handleAutoLogin and shareThrottled: loginByIP.allow.
AllowAddress(r) ==
    /\ At(r, {"login", "auto", "share"}, "arrived")
    /\ req[r].kind = "auto" => AutoLogin
    /\ Allow("loginByIP", ClientIP(req[r]), r)
    /\ Go(r, CASE req[r].kind = "login" -> "decoding"
               [] req[r].kind = "auto" -> "key"
               [] OTHER -> "resolving")
    /\ UNCHANGED <<config, sessions, history>>

RefuseAddress(r) ==
    /\ At(r, {"login", "auto", "share"}, "arrived")
    /\ req[r].kind = "auto" => AutoLogin
    /\ Refuse("loginByIP", ClientIP(req[r]))
    /\ Answer(r, "too_many")
    /\ UNCHANGED <<config, sessions, history>>

\* throttled; what follows is Sessions.
AllowApi(r) ==
    /\ At(r, {"api"}, "arrived")
    /\ \/ Allow("apiByIP", ClientIP(req[r]), r) /\ Answer(r, "served")
       \/ Refuse("apiByIP", ClientIP(req[r])) /\ Answer(r, "too_many")
    /\ UNCHANGED <<config, sessions, history>>

\* MUTANT of Decode: the return after the error is missing.
DecodeGoesOn(r) ==
    /\ At(r, {"login"}, "decoding")
    /\ pc' = [pc EXCEPT ![r] = "account"]
    /\ \E a \in {"none", "bad_request"} : answer' = [answer EXCEPT ![r] = a]
    /\ UNCHANGED <<config, req, places, sessions, history>>

\* The body of a sign-in is, or is not, JSON.
Decode(r) ==
    /\ At(r, {"login"}, "decoding")
    /\ Go(r, "account") \/ Answer(r, "bad_request")
    /\ UNCHANGED <<config, places, sessions, history>>

\* MUTANT of AllowAccount: the limiter is only asked, not charged.
AllowAccountUncharged(r) ==
    /\ At(r, {"login"}, "account")
    /\ Cardinality(places["loginByAccount"][AccountKey(req[r])]) < Limit["loginByAccount"]
    /\ Go(r, "calling")
    /\ UNCHANGED <<config, places, sessions, history>>

\* MUTANT of AllowAccount: the limiter of the addresses is asked.
AllowAccountAtAddress(r) ==
    /\ At(r, {"login"}, "account")
    /\ Allow("loginByIP", AccountKey(req[r]), r)
    /\ Go(r, "calling")
    /\ UNCHANGED <<config, sessions, history>>

\* loginByAccount.allow.
AllowAccount(r) ==
    /\ At(r, {"login"}, "account")
    /\ Allow("loginByAccount", AccountKey(req[r]), r)
    /\ Go(r, "calling")
    /\ UNCHANGED <<config, sessions, history>>

RefuseAccount(r) ==
    /\ At(r, {"login"}, "account")
    /\ Refuse("loginByAccount", AccountKey(req[r]))
    /\ Answer(r, "too_many")
    /\ UNCHANGED <<config, sessions, history>>

-----------------------------------------------------------------------------
\* What request r's success concerns: its address, and the form's account.
KeysOf(r) ==
    {<<"loginByIP", ClientIP(req[r])>>} \cup
    (IF req[r].kind = "login" THEN {<<"loginByAccount", Fold[req[r].email]>>} ELSE {})
Holders(r) == UNION {{x[1]} \X places[x[1]][x[2]] : x \in KeysOf(r)}

\* A secret is tried on behalf of request r.
Try(r) ==
    tried' = [l \in Limiters |-> [k \in Key |->
                 IF <<l, k>> \in KeysOf(r) THEN tried[l][k] + 1 ELSE tried[l][k]]]

\* The key of an auto-login is compared; a wrong one is answered as a plain visit.
CheckKey(r) ==
    /\ At(r, {"auto"}, "key")
    /\ \/ req[r].key /\ Go(r, "calling") /\ UNCHANGED tried
       \/ ~req[r].key /\ Answer(r, "ui") /\ Try(r)
    /\ UNCHANGED <<config, places, sessions, freed, held>>

\* bkn.Login: bkn accepts the password, or it does not, or gives no answer.
CallLogin(r) ==
    /\ At(r, {"login", "auto"}, "calling")
    /\ Try(r)
    /\ \/ Go(r, "accepted") /\ held' = [held EXCEPT ![r] = Holders(r)]
       \/ Answer(r, "failed") /\ UNCHANGED held
    /\ UNCHANGED <<config, places, sessions, freed>>

\* loginByIP.forget.
ForgetAddress(r) ==
    /\ At(r, {"login", "auto"}, "accepted")
    /\ Forget("loginByIP", ClientIP(req[r]))
    /\ Go(r, IF req[r].kind = "login" THEN "forgot" ELSE "creating")
    /\ UNCHANGED <<config, sessions, tried, held>>

\* MUTANT of ForgetAccount: the account as it was spelled is forgotten.
ForgetAccountSpelled(r) ==
    /\ At(r, {"login"}, "forgot")
    /\ Forget("loginByAccount", req[r].email)
    /\ Go(r, "creating")
    /\ UNCHANGED <<config, sessions, tried, held>>

\* loginByAccount.forget.
ForgetAccount(r) ==
    /\ At(r, {"login"}, "forgot")
    /\ Forget("loginByAccount", AccountKey(req[r]))
    /\ Go(r, "creating")
    /\ UNCHANGED <<config, sessions, tried, held>>

\* sessions.create and the answer.
Create(r) ==
    /\ At(r, {"login", "auto"}, "creating")
    /\ sessions' = sessions \cup {r}
    /\ Answer(r, "signed_in")
    /\ UNCHANGED <<config, places, history>>

\* handleShare: whatever bkn says of the link makes a page.
Resolve(r) ==
    /\ At(r, {"share"}, "resolving")
    /\ Answer(r, "page")
    /\ UNCHANGED <<config, places, sessions, history>>

-----------------------------------------------------------------------------
\* handleResetLimits, not from the machine itself.
ResetHidden(r) ==
    /\ At(r, {"reset"}, "arrived") /\ ~FromTheBox(req[r])
    /\ Answer(r, "not_found")
    /\ UNCHANGED <<config, places, sessions, history>>

\* The three resets, one after the other.
ResetAddresses(r) ==
    /\ At(r, {"reset"}, "arrived") /\ FromTheBox(req[r])
    /\ Reset("loginByIP") /\ Go(r, "reset1")
    /\ UNCHANGED <<config, sessions, tried, held>>

ResetAccounts(r) ==
    /\ At(r, {"reset"}, "reset1")
    /\ Reset("loginByAccount") /\ Go(r, "reset2")
    /\ UNCHANGED <<config, sessions, tried, held>>

ResetApi(r) ==
    /\ At(r, {"reset"}, "reset2")
    /\ Reset("apiByIP") /\ Answer(r, "reset")
    /\ UNCHANGED <<config, sessions, tried, held>>

\* A place is a window old.
Lapse(r) ==
    \E l \in Limiters, k \in Key :
        /\ r \in places[l][k]
        /\ places' = [places EXCEPT ![l][k] = @ \ {r}]
        /\ freed' = [freed EXCEPT ![l][k] = @ + 1]
        /\ UNCHANGED <<config, handler, sessions, tried, held>>

SigningIn(r) ==
    \/ AutoLoginOff(r) \/ AllowAddress(r) \/ RefuseAddress(r) \/ Decode(r)
    \/ AllowAccount(r) \/ RefuseAccount(r) \/ CheckKey(r) \/ CallLogin(r)
    \/ ForgetAddress(r) \/ ForgetAccount(r) \/ Create(r)

Resetting(r) == ResetHidden(r) \/ ResetAddresses(r) \/ ResetAccounts(r) \/ ResetApi(r)

Next == \E r \in Request :
    SigningIn(r) \/ Resolve(r) \/ AllowApi(r) \/ Resetting(r) \/ Lapse(r)

Spec == Init /\ [][Next]_vars

-----------------------------------------------------------------------------
TypeOK ==
    /\ config \in Environments
    /\ req \in [Request -> Arrivals]
    /\ pc \in [Request -> Places]
    /\ answer \in [Request -> Answers]
    /\ \A r \in Request : answer[r] = "none" <=> pc[r] # "done"
    /\ places \in [Limiters -> [Key -> SUBSET Request]]
    /\ sessions \subseteq Request
    /\ tried \in [Limiters -> [Key -> Nat]]
    /\ freed \in [Limiters -> [Key -> Nat]]
    /\ held \in [Request -> SUBSET (Limiters \X Request)]

\* "stops one host guessing many passwords" (api.go:24-26): whatever headers it
\* sends, a host off this machine, be it through the proxy or not, holds no more
\* places than its budget, pages of share links included.
HostBudget ==
    \A a \in Address \ {Loopback} :
        Cardinality({r \in Request : /\ req[r].caller = a
                                     /\ \E k \in Key : r \in places["loginByIP"][k]})
            <= Limit["loginByIP"]

\* No more secrets are tried from one address, or against one account under any
\* spelling, be they passwords bkn is asked about or wrong keys of the auto-login
\* link, than the budget and what was given back: by lapsing, by a success or by
\* the operator, while other attempts were between a limiter and bkn
\* (api.go:150-176, autologin.go:78-97).
AttemptsArePaid ==
    \A l \in {"loginByIP", "loginByAccount"}, k \in Key :
        tried[l][k] <= Limit[l] + freed[l][k]

\* "Signing in successfully clears the counters" (api.go:173-176): who is signed in
\* has no earlier attempt, his own or another's, left against his address or
\* his account.
SuccessClears ==
    \A r \in sessions : held[r] \cap Holders(r) = {}

\* "Reachable only by a direct loopback call" (api.go:181-183).
ResetFromTheBox ==
    \A r \in Request : pc[r] \in {"reset1", "reset2"} \/ answer[r] = "reset" =>
        req[r].caller = Loopback /\ req[r].direct

\* Some part of what auto-login needs is missing or not fit for it.
Unfit ==
    \/ ~config.email \/ config.key = "short"
    \/ config.file \in {"unset", "unreadable", "shared", "empty"}

\* "This refuses to enable rather than do that quietly" (autologin.go:11-16): with any
\* part unfit, the link is answered as a plain visit whatever its key, and does not
\* even use up an attempt that a sign-in from the address would need.  And a wrong
\* key never gets further than a visit, or than the budget (autologin.go:93-97).
AutoLoginGuarded ==
    \A r \in Request : req[r].kind = "auto" =>
        /\ Unfit => /\ answer[r] \in {"none", "ui"} /\ r \notin sessions
                    /\ \A k \in Key : r \notin places["loginByIP"][k]
        /\ ~req[r].key => answer[r] \in {"none", "ui", "too_many"} /\ r \notin sessions

\* Who may still ask limiter l.
Before == [loginByIP |-> {"arrived"}, apiByIP |-> {"arrived"},
           loginByAccount |-> {"arrived", "decoding", "account"}]
Waiting(l) == {r \in Request : pc[r] \in Before[l]}

\* Each limiter is a budget, as RateLimiter is, whatever handlers do between one
\* limiter and the next: nobody asks one twice, or takes a place the budget does
\* not have, or one that was another's (api.go:24-42, 150-176).
AddressBudget == INSTANCE Budget WITH
    Caller <- Request, Limit <- Limit["loginByIP"],
    places <- places["loginByIP"], waiting <- Waiting("loginByIP")
AccountBudget == INSTANCE Budget WITH
    Caller <- Request, Limit <- Limit["loginByAccount"],
    places <- places["loginByAccount"], waiting <- Waiting("loginByAccount")
ApiBudget == INSTANCE Budget WITH
    Caller <- Request, Limit <- Limit["apiByIP"],
    places <- places["apiByIP"], waiting <- Waiting("apiByIP")
KeepsBudgets == AddressBudget!Spec /\ AccountBudget!Spec /\ ApiBudget!Spec

=============================================================================
