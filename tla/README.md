# bkn-drive, specified and verified

bkn-drive is a small Go server with an embedded web UI in front of *bkn*, an
external service that holds the files and signs people in. The browser only ever
gets a random session id in a cookie; the server keeps the bkn tokens, renews them
when bkn refuses them, throttles sign-ins, and runs as a daemon that a command line
starts and stops. This directory holds TLA+ models of it, the TLC runs that check
them and TLAPS proofs about them. `PROJECT.json` is the index: components, runs,
findings, hazards, theorems, and for each definition the lines it models.

    tlc -workers 2 -config MCSessionsRace.cfg MCSessions     # a run
    tlapm SessionsProofs.tla                                 # the proofs of a module

## 1. The system

| Component | Source | State | Operations |
|---|---|---|---|
| Session store | `session.go` | `byID`, `refreshing` (a mutex per id), the state file | `create`, `get`, `peek`, `update`, `drop`, `refreshLock`, `sweep`, `load`, `save` |
| Token renewal path | `api.go` `withBkn` | a request's locals: `sess`, `used`, `lock`, `current`, `fresh` | first call, lock, peek, compare, refresh, update or drop, second call |
| Sign-in, sign-out, me | `api.go` | none of their own | `handleLogin`, `handleLogout`, `handleMe`, `handleResetLimits` |
| bkn client | `bkn.go` | none | `Login`, `Refresh`, `Drive`, `Upload`, `post`, `decodeErr` |
| Rate limiter | `ratelimit.go` | `hits` per key, three instances (sign-in by address, sign-in by account, API by address) | `allow`, `forget`, `reset`, `sweep`, `throttled`, `shareThrottled`, `clientIP` |
| Auto-login | `autologin.go` | configuration read once | `loadAutoLogin`, `handleAutoLogin` |
| Daemon lifecycle | `daemon.go`, `server.go` | the port, the process, one pid file for all ports | `daemonStart`, `daemonStop`, `daemonStatus`, `handleShutdown`, `probeHealth`, `waitFor` |
| Proxied operations | `api.go` | none | `handleDrive`, `handleUpload`, `handleDownload`, `writeAPIErr` |
| Share links | `sharelink.go` | none | `handleShare`, `resolveLink` |
| Preview | `preview.go` | none | `previewKind`, `handlePreview` |
| Drive view | `ui/js/views/Drive.jsx`, `Preview.jsx`, `app.jsx`, `api.js` | drive, path, items, selection, busy, open preview | `load`, `run`, bulk delete, upload, preview |
| Other views | `Bin.jsx`, `Login.jsx`, `Share.jsx`, ... | their lists and forms | mostly layout |
| Command line, guide | `main.go`, `guide.go` | none | argument parsing, printed text |

**Who talks to whom.** Every HTTP request is a goroutine. `/api/drive`, `/upload`,
`/download` and `/preview` pass `apiByIP`, then run `withBkn`, which reads the session
store and calls bkn once, or twice around a renewal. `/api/login` and `/?k=` pass the
sign-in limiters, call `bkn.Login` and `create` a session; `/s/` draws on the same
limiter by address. Goroutines share `sessionStore.mu`, the refresh mutexes,
`limiter.mu`, and the fields of `*session`, some of which are read outside the mutex.
Two background goroutines sweep. `/_shutdown` ends the process without waiting for
requests; a restart loads the state file.

**What is hard.** Requests of one session refused at once, of which one may renew; a
racing read of `session.Access`; sign-out, expiry and `drop` in the middle of a
renewal, which also takes the mutex itself out of the map; an exit between bkn's
rotation of a token and the save of the new one; saves whose errors are ignored;
limiters whose clock is read before the lock; several `daemon start` and `stop` commands
around one pid file; listings answered out of order in the browser.
`PROJECT.json` "hazards" gives each its line and the properties that watch it.

**What makes each component correct.**

* Sessions: one renewal at a time per session; no spent token is ever presented; an
  operation bkn performed is not performed again; tokens stay within their session; the
  file follows the map; a sign-out is final; each request is answered; expired sessions
  leave.
* Rate limiter: never more than the limit in the last window, no refusal without
  cause, a refusal's deadline can be relied on, unused keys leave the map.
* Sign-in: each password that reaches bkn has taken a place in the budget of its
  address and of its account, however many attempts run at once; a success clears its own
  keys; headers a caller makes up buy nothing; the reset and auto-login are as guarded as
  their comments say.
* Daemon: a stop that reports success was right at some moment; the pid file names the
  running server whenever commands come one after the other; a start that gave up leaves nothing behind; only the token stops a server that
  others can reach; commands and shutdowns end.
* Proxied operations: bkn acts at most once for a request; an answer that says success is one;
  a refusal carries bkn's own sentence; a preview is whole or marked truncated.
* Drive view: what is deleted was on the screen.

## 2. Modules

| Module | What it is |
|---|---|
| `SessionPromise` | abstract specification of a session: begun once, renewed only while active and only with a request's new tokens, over for good |
| `Sessions` | session store, `withBkn`, sign-in, sign-out, sweep, exit and restart, and bkn's side of renewal |
| `MCSessions` | symmetry sets for TLC |
| `SessionsProofs` | type correctness and mutual exclusion of renewals |
| `SessionsTokens` | the theorems about tokens, the state file, sign-outs and what a request did |
| `SessionsRefine` | the theorem that `Sessions` implements `SessionPromise` |
| `SlidingWindow` | abstract specification of a limiter: what is granted, refused and quoted, by the window of all grants |
| `Budget` | what a limiter is to the code that only asks it: places taken one at a time, and given back |
| `RateLimiter` | one limiter shared by concurrent attempts, with a clock; implements both |
| `RateLimiterProofs` | its theorems, those of the two abstract specifications among them |
| `SignIn`, `MCSignIn` | sign-in form, auto-login, share pages, API and reset over the three limiters |
| `SignInProofs` | its theorems |
| `Daemon` | start, stop, status, foreground commands, the server processes and the pid file |
| `DaemonProofs` | its theorems |
| `Gateway`, `MCGateway` | the handlers of the proxied operations over the bkn client, with one file of a drive |
| `GatewayProofs` | its theorems |
| `DriveView` | the drive view of the browser, with listings, deletes and uploads under way |
| `DriveViewProofs` | its theorems |

### Sessions

State. `live` is `byID`; `access` and `refresh` are the fields of each `*session`
(kept apart from `live`, because a request holds the pointer after the session has left
the map); `expired` are sessions whose `Expires` has passed; `disk` is the state file
and `behind` says that the last `save` failed; `refreshing` is the map of mutexes and
`holder` who holds each. `pc`, `sess`, `used`, `token`, `rotates`, `mine` are a request's
place and locals in `withBkn`. `liveAccess`, `refreshable` and `spent` are bkn's.
`effects`, `loggedOut`, `unsaved` and `orphaned` are history that only properties read.

Requests are one-shot and name what they make: sign-in `l` makes session `l` and token
pair `l`; request `c` that renews obtains token pair `c`, and creates mutex `c` if it is
the first to ask. So no bound on names hides a collision, and the proofs hold for any
number of them.

Steps. One action is what one goroutine does between two points where another can
run. Each call of the store is one critical section: `Create`, `Logout`, `Me`, `Sweep`,
`Get`, `RefreshLock`, `Peek`, `Update`, `Drop`. The reads outside the mutex are steps of
their own: `ReadAccess` (api.go:86) and `Compare` (api.go:112-126). While another request is
inside `update` for the same session, `ReadAccess` may return a torn string
(`Torn`): a data race on a two-word Go string. `Compare` and the second call run under
the refresh mutex, which orders them after any other request's `update` of the session, so
they do not race. Calls to bkn (`FirstCall`, `SecondCall`, `Refresh...`) have every outcome:
done, refused with 401, failed before bkn acted, or its answer lost after it did.
`Save` is part of every action whose code calls it; with `SaveMayFail` it may leave the
old file, as the code ignores every error and renames at the end. `Exit` is a crash or
`os.Exit` of `handleShutdown` (server.go:145-149) at any moment; a refresh request already
sent may reach bkn afterwards (`StrayRotation`). `Restart` is `load`.

An exit can leave two things in the file that no longer hold, and the code cannot do better for
either. `orphaned` names the sessions whose refresh token in the file is, or is about to be,
spent: a request had rotated it and not saved the new one (`Rotated`), sent it and died before
the answer (a stray), or could not save the new one (`Unstored`). `NoSpentPresented` excepts
those and `SignedOutStaysOut` does not. `unsaved` names the sign-outs that no save has carried into
the file; an exit undoes those of them that the file still names, and `loggedOut` forgets these alone. So a sign-out
in the middle of a renewal, followed by a restart, is final if its own save, or any later one, succeeded.

Abstractions. Whether a token has expired is bkn's choice (`AccessLapse`,
`RefreshLapse`); the server itself keeps no token lifetimes. The two TTLs of
`create` become one event, `Expire`, at any time after the sign-in. `LastSeen` is written
and never read. `FirstCall` covers `Drive`, `Upload` and `SignedURL` as one call to bkn.
`handlePreview`'s second fetch carries no token and is part of `Gateway`.

### RateLimiter

`hits[k]` is a slice in append order; it is modelled as the set of its attempts
with `turn` giving the order, which only `kept[0]` needs. `Arrive` reads the clock outside
the lock (ratelimit.go:55); `Refuse` and `Grant` are the two ways through the critical section;
`Forget` is what a successful sign-in does; `Reset` the operator's; `Sweep` reads its
clock under the lock. `listed` are the keys of the map, apart from what is in their slices, because the
sweep deletes a key whose slice is empty instead of storing it (ratelimit.go:42-46): no reader
sees the difference, but the map's size depends on it (`KeysComeFree`, `NoEmptySlices`).
`granted` and `quoted` are history. The critical section takes no time: `time.Until`
reads the clock a third time, and the model quotes the deadline, not the difference.

`SlidingWindow` has no slices, no pruning, no sweeps and no order of the lock: only
the attempts granted since a key was last cleared. It shows what the clock read outside the lock
is worth. A grant is measured against the window as it is *now*, since whoever pruned did so with an
earlier clock and threw away too little; a refusal only against the window as the attempt
*saw* it when it read the clock; and the deadline is that of some attempt in that window, which is
still in it or has left room by going. `KeepsPromise` maps each variable to the one of its name.

`Budget` forgets time as well: places of a key are taken one at a time, by callers that have not asked
yet, while there is room, and come free at any moment. This is all that `SignIn` assumes of
its limiters (`Lapse`, `Forget...`, `Reset...`), and `RateLimiter` implements it (`KeepsBudget`).

### SignIn

State. `config` is what `loadAutoLogin` finds in the environment; `req`, `pc`, `answer` a
request, its handler's place and its answer; `places[l][k]` who holds a place for key `k` in
limiter `l` (the slice `hits[k]` of `RateLimiter` without its times); `sessions` who signed in.
`tried`, `freed` and `held` are history: per key the passwords sent to bkn and the wrong keys of the auto-login link
that were compared, places given back, and who held places when bkn accepted a password.

Steps. `handleLogin` is `AllowAddress` or `RefuseAddress`, `Decode`, `AllowAccount` or
`RefuseAccount`, `CallLogin`, `ForgetAddress`, `ForgetAccount`, `Create`: one action
for each call that takes a lock or talks to bkn, in the order of api.go:141-178, so that
any number of attempts can be between any two of them. `handleAutoLogin` takes the address's place
*before* it looks at the key (`AllowAddress`, `CheckKey`), and joins at `CallLogin`. A wrong key costs an
attempt of the address and is answered as a plain visit, or, once the budget is used up, with a 429, which a
visit never gets. `AutoLogin` is `loadAutoLogin` as a predicate on `config`: with an e-mail, a long key and a password
file that can be read, is not empty, and is private, or whose mode cannot be read (autologin.go:52, `"vanished"`).
`Resolve` is what a
share page does after `shareThrottled`, `AllowApi` is `throttled`. The reset is three
critical sections (`ResetAddresses`, `ResetAccounts`, `ResetApi`). `Lapse` lets any place grow
old at any moment, which is more than time can do. `KeepsBudgets` maps the places of each limiter to
a `Budget` whose waiting callers are the requests that have not come to it (`Before`): it is what
connects the limiters here, which have no clock, with the one of `RateLimiter`.

`ClientIP` is translated with the proxy in front of it: a request is `direct` or comes through a
proxy on this machine that *appends* the address it was called from to whatever
`X-Forwarded-For` the caller sent (`claim`). That proxy is external; ratelimit.go:101-110
describes it.

### Daemon

State. `args`, `pc`, `out`, `told` are a command's arguments, place, report and the pid in the
report; `proc[c]` the server process command `c` made (a pid is the name of the command that made it);
`listener[p]` who listens; `pidFile` the one file for every port. `prompt` is chosen at the
start: nothing in this behaviour outlasts the timeouts of the code (half a second for a
probe, five for a start or stop). When it is false every timeout may fire early.
`silence` and `disturbed` are history.

Steps. Each is one system call that others can see: the probe of `daemonStart`
(`StartFinds`, `StartFails`, `StartSpawns`), the pid file (`StartWrites`), `waitFor`
(`StartSees`, `StartGivesUp`, which kills), its removal (`StartUnwrites`), and so on for `daemonStop` and
`daemonStatus`. The server is `Boot` or `BootFails` (port taken), `ShutdownRemoves` and
`ShutdownExits` (the goroutine of `handleShutdown`), and `Crash` at any moment. `Begin` is
`main`: the host is the flag, else the environment's, else loopback.

Left out: calls on the pid file and the log always succeed once opened; pids are not
reused.

### Gateway

State. `file` is one file of the drive, on bkn's side; `req`, `pc`, `tries`, `answers` are a
request and its handler; `acted` counts how often bkn did what the request asks. `heard`,
`was`, `fetched` are history.

Steps. `RefuseForm` are the checks a handler makes itself (method, JSON, op list, size, path);
`SignedOut` is `withBkn` without a token; `Call` one call of `fn` in `withBkn` with all that
happens until the next: bkn acts or not, answers anything in `BknAnswers` or nothing (an answer that is lost
although bkn acted included), `Post`, `DecodeErr`, `UnwrapThrow`, `Drive`, `Upload` and `WriteAPIErr`
make of it what the code does, and the handler writes its answer, calls again
(`Again`, after a 401 only) or goes on to the second fetch of a preview
(`Fetch`, `FetchFails`). A download or preview whose answer has no readable url (`"bare"`) is a 502 of the
gateway's own (`Outcome`). `Share` is `handleShare` with `resolveLink`.

Data. An error is its status, its type and whose words its message is: bkn's, the
gateway's own or a raw body. A body is one of the shapes the client distinguishes. A
text is a sequence of bytes of four kinds (a plain character, the two halves of a longer one, and a byte of no
character), so that a cut can fall inside a character. Between the two fetches of a preview another request may delete or
replace the file.

### DriveView

State. `drive`, `folder`, `inBin`, `entries`, `busy` and `selected` are the states of
`Drive.jsx`. `listings`, `deletes` and `uploads` are the calls under way: each has the drive and folder of
the render that made it, because that is what its closure captured. `files` is what the
drives hold; `confirmed` and `binned` are history.

Steps. A step is one callback of the browser: an event handler with the effects of its render, or the
piece of an async function between two awaits. `Refresh` begins a listing, `List` is bkn's answer,
`ListArrives` and `ListFails` what the view does with it, wherever it is by then (Drive.jsx:31-37).
`DeleteSelected` and `Remove` are `deleteSelected` and `remove` up to their first call, `DeleteNext` each call
with what follows it up to the next; the last of a bulk delete clears the selection, even one made since,
and lists the captured folder. A file can be dropped while the bin is open (`Upload`).

Left out: `Preview.jsx`, whose fetch is guarded against late answers; rename, new folder, sharing
and the upload of a folder; and what `Bin.jsx` does inside the bin.

## 3. Runs

| Run | Instance | Shows |
|---|---|---|
| `sessions_race` | 1 session, 3 requests, 1 exit, saves succeed; symmetric requests | `RotationExclusive`, `NoSpentPresented`, `RenewsWhatFailed` (with it: no pair lands over a newer one), `EffectMatchesAnswer`, and that `Sessions` implements `SessionPromise` (`KeepsPromise`) |
| `sessions_two` | 2 sessions, 2 requests of either, no exit | `TypeOK` (with it: a torn read is never stored), `TokensStayHome` |
| `sessions_live` | 1 session, 2 requests, 1 exit, saves may fail, fairness | `FileIsTheMap`, `SignedOutStaysOut`, `EveryCallAnswered`, `ExpiredLeavesMemory` |
| `sessions_drop` | 1 session, 1 request | violation: `DropMeansUnusable` |
| `sessions_sweep` | 1 session, 1 request, fairness | violation: `ExpiredLeavesFile` |
| `limiter` | 1 key, 4 attempts, 2 places, window 2, clock to 4, fairness | `TypeOK`, `NoMoreThanLimit`, `WaitingSuffices`, `RefusedOnlyWhenFull`, `KeysComeFree`, and that it implements `SlidingWindow` (`KeepsPromise`) and `Budget` (`KeepsBudget`) |
| `limiter_oldest` | 3 attempts | violation: `RefusalNamesTheOldest` |
| `signin` | 3 requests of any kind from one host, through the proxy or past it, and the machine itself, limits 2, 1 and 1; an auto-login environment that is fit, and each with one part missing or unfit | `TypeOK`, `HostBudget`, `AttemptsArePaid`, `SuccessClears`, `ResetFromTheBox`, `AutoLoginGuarded`, and that each limiter is a `Budget` (`KeepsBudgets`) |
| `daemon` | 3 commands of any kind on one port, crashes, prompt or not, fairness | `TypeOK`, `StoppedWasSilent`, `PidFileNamesTheServer`, `GivenUpIsGone`, `OnlyTheTokenStops`, `TellsTheServer`, `AcceptedStopsHappen`, `EveryCommandEnds` |
| `gateway` | 2 requests of any kind on one file, limit of 2 bytes | `TypeOK`, `ActsOnce`, `SuccessIsReal`, `SaysWhatBknSaid`, `RecoverableMeansUndone`, `PreviewIsWhole` |
| `gateway_preview` | the same | violation: `ShownIsTheFile` |
| `drive_late` | 2 drives with a file of one path | violation: `DeletesWhatWasSeen` |

**Bounds.** Three requests are enough for one that holds the mutex, one that waits on it
and one that comes after the mutex has left the map and would get a new one; a fourth
repeats the third. Two sessions are enough for a token to stray from one to the other, and
nothing in the store relates three. One exit and one restart (`MaxCrashes`) reach the file as
a failed save or an unsaved rotation left it; every later exit starts from such a file again. Saves
fail in `sessions_live` only, because `SessionPromise` promises nothing when they do.
In `limiter`, two places and four attempts let a late attempt prune two old ones, take a place, and leave
one for an attempt stamped before it; `Arrive` stops one window before `MaxTime` so
that everything can expire. One key is enough for TLC since no action relates two; the
theorems are for any number. The theorems remove all of these bounds for the properties they state.
In `signin`, three requests fill a budget of two and leave one to be refused, or put one
attempt between its limiter and bkn while a second succeeds and a third clears what is left;
the host claims another's address and writes one account in two ways. Only auto-login links read the
environment of auto-login, so the environments other than the fit one meet three links, whose keys are right or wrong,
and no other request: each of the parts that `loadAutoLogin` tests is missing or unfit in one of them. In `daemon`, three commands
are a start, a stop and a third that interferes with both, or a start, a
stop and a start again; a second port only multiplies the states of the first, since
`disturbed` excludes commands of several ports from what is claimed of the pid file, and
`StoppedWasSilent` speaks of one. In `gateway` two requests are one that previews and one that
changes the file; requests have nothing else in common. Contents are within the limit, over it, over it with a
character at the cut, and no text.
Deadlock checking is off: one-shot requests all end, and then the system rests.

**Fairness.** `FairSpec` of `Sessions` gives each request's handler weak fairness as a
whole: a goroutine that can run does; Go's mutexes are starvation-free (a waiter
of a millisecond gets the lock), and here each mutex is taken once by each of finitely
many requests; every call to bkn ends, by the client's timeout (bkn.go) if by nothing
else. `Sweep` is fair because its ticker is. Nothing is assumed of people, of bkn's
answers, of exits or of restarts. `RateLimiter` assumes that time passes and that its
ticker ticks. `FairSpec` of `Daemon` says that as long as some command or server process can
go on, one does: each of their waits is bounded in the code, and each takes finitely many steps,
so one condition for all of them gives each its turn. New commands and crashes are not assumed.

**Mutants.** For every property of a passing run `PROJECT.json` names one plausible bug,
defined beside the code it changes and marked MUTANT, with which TLC finds the property
violated.

### What the runs found in the code

1. `withBkn` drops the session on *any* error of `bkn.Refresh`: an unreachable bkn or
   a 5xx signs the person out although the refresh token is still good. The comment at
   api.go:127-129 says the session is by then "genuinely unusable" (`sessions_drop`).
2. `get` deletes an expired session from the map without a save, and `sweep` saves only when
   it finds something to delete (`dirty` is never set). A session looked up once after
   its expiry therefore keeps its tokens in the state file until something else is saved,
   which the comment at session.go:117-118 says `sweep` prevents (`sessions_sweep`).
3. `allow` stamps before it locks, so `kept[0]` is not always the oldest attempt and
   a refusal may name too late a time, against ratelimit.go:52-53 (`limiter_oldest`).
   `WaitingSuffices` shows that the time named is nevertheless always enough.
4. `handlePreview` does not look at the status of its second fetch (preview.go:109). A file deleted
   between the two calls is previewed as the text of the error page, against preview.go:62-64
   (`gateway_preview`).
5. `refresh` in the drive view shows a listing whenever it arrives. The rows of the drive just left can
   appear under the one entered, and a delete of such rows, ticked or one by one, asks for the current drive
   and the old row's path: a file of that path which was never on the screen goes to the bin,
   which Drive.jsx:43-45 means to rule out (`drive_late`).

Read, and not given a run: the `Retry-After` header rounds the wait *down* to whole seconds
(ratelimit.go `tooMany`), so a client that obeys it to the second is refused once more; the
`refreshing` map keeps a mutex for each session that expires rather than being dropped;
the comment of `handleResetLimits` says that a restart "drops every session",
which was true before sessions were persisted. A stop of a silent port removes the pid file of another
port's server (daemon.go:107), although the comment calls it a no-op. Of two starts that race, the one whose
process finds the port taken sees the port answer and reports its own, dead pid
(daemon.go:89-91); the guide speaks of starting instead of racing. `TellsTheServer` and
`PidFileNamesTheServer` therefore speak of commands that do not overlap. A stop reports success although the server still serves
if that takes more than five seconds to go (daemon.go:133); what is claimed of stops is for behaviours that are `prompt`.
The comment at autologin.go:90 wants a wrong key to be like a plain visit, lest it confirm that auto-login exists;
since wrong keys share the sign-in limiter, enough of them are answered with a 429, which no visit is. `$HOST` alone binds the server off
loopback (main.go `serveFlags`). A success of bkn whose body is empty to the last byte reads as a
refusal (bkn.go:105, 112, 222), the one exception in `RecoverableMeansUndone`. bkn's
own error envelope in answer to a share link, a 429 included, makes the page say that the
service is not reachable, because `resolveLink` cannot decode it (sharelink.go:78). A text
preview cut inside a character is declared not to be text (preview.go:114-121). The page of a share link
upper-cases the first *byte* of a message (sharelink.go:140). A file dropped while the bin is open is
uploaded to the folder behind it, without a mark on the screen (Drive.jsx:274-277, 308).

## 4. Theorems

All are proved by `tlapm` for every value of the constants: any sets of sign-ins, requests,
keys, hosts, attempts, commands, ports, drives and folders, any limits, any number of exits, and saves that may
fail. Assumptions: `NamesAssumption` (sign-ins, requests, `None` and `Torn` are distinct),
`ParametersAssumption`, `LimiterAssumption` (finitely many attempts, a positive limit and
window), `SignInAssumption` (finitely many requests, a positive limit of each limiter, an
address of the machine itself, claims that are sequences of addresses), `GatewayAssumption`
(a positive preview limit, contents and an error page that are sequences of bytes, the page none of the
contents) and `CommandAssumption` (commands are positive numbers, there is a port). The theorems about
`DriveView` say themselves that `Root` is a folder. Every safety and action property of a passing run, and every
refinement, has its theorem; of the five properties that the code breaks, the four of safety have a theorem that names
the one step to blame.

| Theorem | Module | States |
|---|---|---|
| `TypeCorrect` | `SessionsProofs` | `Spec => []TypeOK` |
| `OneRenewalAtATime` | `SessionsProofs` | `Spec => []RotationExclusive` |
| `NoSpentTokenPresented` | `SessionsTokens` | `Spec => []NoSpentPresented` |
| `OnlyTheFailedTokenIsRenewed` | `SessionsTokens` | `Spec => []RenewsWhatFailed` |
| `FileFollowsMap` | `SessionsTokens` | `Spec => []FileIsTheMap` |
| `SignOutIsFinal` | `SessionsTokens` | `Spec => []SignedOutStaysOut` |
| `OperationsHappenOnce` | `SessionsTokens` | `Spec => []EffectMatchesAnswer` |
| `TokensAreOnesOwn` | `SessionsTokens` | `Spec => []TokensStayHome` |
| `FailedRenewalsAreTheCause` | `SessionsTokens` | `Spec /\ [][~DropsAGoodOne]_vars => []DropMeansUnusable` |
| `StoreKeepsPromise` | `SessionsRefine` | `~SaveMayFail => (Spec => KeepsPromise)` |
| `PromiseSeparatesSessions` | `SessionsRefine` | `KeepsPromise => []SeparateTokens /\ OverIsFinal` |
| `LimiterTypeCorrect` | `RateLimiterProofs` | `Spec => []TypeOK` |
| `WindowHolds` | `RateLimiterProofs` | `Spec => []NoMoreThanLimit` |
| `WaitingIsEnough` | `RateLimiterProofs` | `Spec => []WaitingSuffices` |
| `NoFalseRefusal` | `RateLimiterProofs` | `Spec => RefusedOnlyWhenFull` |
| `NoEmptySlices` | `RateLimiterProofs` | `Spec => []ListedIffUsed` |
| `LimiterIsASlidingWindow` | `RateLimiterProofs` | `Spec => KeepsPromise` |
| `PromiseIsEnough` | `RateLimiterProofs` | `KeepsPromise => [](NoMoreThanLimit /\ PromisedWait)` |
| `LimiterIsABudget` | `RateLimiterProofs` | `Spec => KeepsBudget` |
| `BudgetIsEnough` | `RateLimiterProofs` | `KeepsBudget => [](PlacesFit /\ OneKeyEach)` |
| `OvertakingIsTheCause` | `RateLimiterProofs` | `Spec /\ [][~Overtaken]_vars => RefusalNamesTheOldest` |
| `SignInTypeCorrect` | `SignInProofs` | `Spec => []TypeOK` |
| `HostsAreBounded` | `SignInProofs` | `Spec => []HostBudget` |
| `OnlyTheBoxResets` | `SignInProofs` | `Spec => []ResetFromTheBox` |
| `AutoLoginNeedsTheKey` | `SignInProofs` | `Spec => []AutoLoginGuarded` |
| `SuccessAlwaysClears` | `SignInProofs` | `Spec => []SuccessClears` |
| `PasswordsArePaid` | `SignInProofs` | `Spec => []AttemptsArePaid` |
| `LimitersAreBudgets` | `SignInProofs` | `Spec => KeepsBudgets` |
| `GatewayTypeCorrect` | `GatewayProofs` | `Spec => []TypeOK` |
| `BknActsOnce` | `GatewayProofs` | `Spec => []ActsOnce` |
| `SuccessIsNeverInvented` | `GatewayProofs` | `Spec => []SuccessIsReal` |
| `BknIsQuoted` | `GatewayProofs` | `Spec => []SaysWhatBknSaid` |
| `RecoverableErrorsDidNothing` | `GatewayProofs` | `Spec => []RecoverableMeansUndone` |
| `PreviewsAreWhole` | `GatewayProofs` | `Spec => []PreviewIsWhole` |
| `MissingFilesAreTheCause` | `GatewayProofs` | `Spec /\ [][~FetchesNothing]_vars => []ShownIsTheFile` |
| `DaemonTypeCorrect` | `DaemonProofs` | `Spec => []TypeOK` |
| `StopsTellTheTruth` | `DaemonProofs` | `Spec => []StoppedWasSilent` |
| `GivingUpLeavesNothing` | `DaemonProofs` | `Spec => []GivenUpIsGone` |
| `StrangersStopNothing` | `DaemonProofs` | `Spec => []OnlyTheTokenStops` |
| `ThePidFileIsRight` | `DaemonProofs` | `Spec => []PidFileNamesTheServer` |
| `ThePidToldIsRight` | `DaemonProofs` | `Spec => TellsTheServer` |
| `DriveViewTypeCorrect` | `DriveViewProofs` | `Root \in Folder => (Spec => []TypeOK)` |
| `OnlyTheDriveCanBeWrong` | `DriveViewProofs` | `Root \in Folder => (Spec => []PathsWereConfirmed)` |
| `LateListingsAreTheCause` | `DriveViewProofs` | `Root \in Folder => (Spec /\ [][~LateListing]_vars => [](DeletesWhatWasSeen /\ RemovesWhatWasSeen))` |
| `OneDriveIsSafe` | `DriveViewProofs` | `Spec => [](DeletesWhatWasSeen /\ RemovesWhatWasSeen)` when all drives are one |

**One renewal at a time.** `RotationExclusive` is not inductive. The mutex excludes only
requests that share it, and `drop` removes it from the map while others hold it or wait on
it. `LockInv` says what replaces it then: requests of a session *still in the map* that
lock or wait share the mutex the map names (`SharesMutex`), each holds the one it has
(`HoldsMutex`), so of those past the peek there is one (`PastExclusive`), whose range
is a step wider than the property's. When the session leaves the map, no later peek can
pass, and it never comes back, because only `create` and a restart put sessions in, `create` only new
ones (`Created`), and a restart starts with no request in flight (`Down`).

**Spent tokens.** `TokenInv` adds that tokens not yet obtained are nowhere (`Minted`),
that map, file and hands hold only a session's own tokens (`Home`), and that the map's refresh
token is spent only while the request that rotated it is still to update or drop
(`MapUnspent`, `MidRotation`), the file's only then or behind a failed save (`FileUnspent`), and a
new sign-in's never (`NewUnspent`). `PastExclusive` turns this into the property: a request past the peek
is alone, so nobody else is mid-rotation when it compares, nor has stored a pair when it updates. An exit moves exactly the
mid-rotation sessions to `orphaned`, with those whose token a stray may still spend. `FileIsTheMap` and `SignedOutIsGone` are inductive beside
`Created` and `Down`. Each preservation lemma has one step per action.

**The limiter's window.** Attempts may be decided out of order, so the slice is not
sorted; the invariant (`LimiterInv`) is that whatever any clock still sees in the window is in the
slice (`RecentIsKept`), since whoever pruned read an earlier clock, and that the slice fits
(`SliceFits`). A quoted deadline belongs to an attempt that is still in the slice or has
left room by going (`QuotedIsSound`). That a nonempty slice has a first element
(`FirstIsFirst`) comes from the well-foundedness of strict inclusion on finite sets.

**Effects and owners.** `EffectMatchesAnswer` becomes inductive once it says that a request
which may still call bkn has performed nothing (`EffectFits`). `TokensStayHome` follows from `Home`
and the same for access tokens and for whatever a request has in hand (`AccessHome`), which needs that
nothing names a request before it begins.

**The refinement.** `RefineInv` adds to `TokenInv` that a granted sign-in holds its own
tokens (`GrantedHolds`), that no access token names a request before it has stored its renewal
(`AccessMinted`), that a session being renewed has a refresh token (`RenewsWithToken`), and
that no save has failed (`Synced`, from `~SaveMayFail`). `Create` is then a `Begin`, `Update` of a session in
the map a `Renew`, and every other step ends some set of sessions, perhaps none
(`SomeEnd`). An exit ends the expired ones: by `FileIsTheMap` what the file holds and has not
expired is what memory held. A restart shows nothing.

**The limiter's two refinements.** That a `Grant` of `RateLimiter` is one of `SlidingWindow` needs that
what is granted and still in the window now is in the slice (`RecentIsKept`), so a slice with room
means a window with room; that a `Refuse` is one needs the converse at the attempt's own stamp: the slice,
pruned there, holds nothing but grants. `PruningShrinks` and `FirstIsFirst` carry the deadline. `Sweep`
shows nothing. For `Budget`, an attempt asks once because it leaves `"stamped"` for good, and what pruning
and sweeping drop is given back. In `SignIn` a request comes to a limiter from a place of its handler that it never
comes back to, and the three mappings hold step by step (`NextTakes`).

**What a promise is worth.** An abstract specification could be satisfied and say nothing. Three theorems
start from it *alone*, without the code's own invariants: `PromiseIsEnough` gets the
window and the deadline from `SlidingWindow`, `BudgetIsEnough` gets the limit and one key per attempt from `Budget`, and
`PromiseSeparatesSessions` gets from `SessionPromise` that active sessions share no token and that what is
over stays over. Together with the refinements they prove the same of the code a second way.

**One cause each.** For four of the findings it is proved that nothing else is wrong. The hypothesis
forbids one kind of step and nothing more; all other interleavings remain.
`FailedRenewalsAreTheCause`: without a renewal that fails while bkn would still take its token
(`DropsAGoodOne`), a session ends only when its token is no longer accepted; the invariant `Unusable` adds that the
token in hand is not one bkn may yet issue. `OvertakingIsTheCause`: unless an attempt gets its
place after one stamped later (`Overtaken`), slices are in order of time (`SlicesInOrder`) and `kept[0]` is the
oldest. `MissingFilesAreTheCause`: unless a second fetch finds no file (`FetchesNothing`), the text shown is one the file had,
even when it was overwritten between the two calls (`SeenInv`). `LateListingsAreTheCause`: unless a listing with rows in it arrives
after its drive was left (`LateListing`), rows that can be ticked are of the drive in view (`RowsInView`), and what every
delete still has to do is of its own drive (`TodoInPlace`). A late listing of another *folder* of the same drive does no harm
(`OneDriveIsSafe`), since a row carries its own path, and whatever happens only the drive of a deleted file can be
wrong (`OnlyTheDriveCanBeWrong`).

**The sign-in limiters.** `HeldByRequest` says whose places are whose, `PlacesFit` that no
limiter is over its limit; the budget of a host follows since whatever it claims, the last
address is the proxy's (`clientIP`). For `AttemptsArePaid` the inductive invariant counts: the requests between a
limiter and what it guards, and the secrets that were tried, are together no more than the places taken and those given
back (`PaidInv`), which is where a success that gives back the places of attempts still
waiting enters. For `SuccessClears`, requests that have passed their limiters take no more
places (`HeldArePast`), so what a success cleared stays clear of them up to its session
(`ClearingInv`). The two doors, auto-login and reset, are `DoorsInv`.

**The gateway.** `GatewayInv` is one statement for each request (`Sound`): what the
properties say of its answer (`Final`), and before it that bkn has acted only if the call just
made says so. The lemmas on the way are about the operators alone: what each
class of bkn's answers becomes through `Post`, `DecodeErr`, `UnwrapThrow`, `Drive`, `WriteAPIErr`
and `SharePage`, for any status and any body.

**The daemon.** `BaseInv` relates processes and ports. For `StoppedWasSilent` an accepted stop
either has had its port silent or the process that answered is still on its way out
(`Heard`), since nothing that was told to stop serves again and nothing dead lives again (`ServersDecline`), which
also gives `GivenUpIsGone` (`KilledForGood`). For the pid file, `OneByOne` says that as
long as commands do not overlap, use one port and nothing is slow, the place of the one running
command tells all of the servers and the file (`Phase`): from `Nobody` (no process, no file) or
`Named` (one that serves and is named) through its steps and those of the server back to one of
them, although the stop and the process that stops each remove the file.

**Only model-checked.** The fifth finding, `ExpiredLeavesFile`, is about liveness. Liveness (`EveryCallAnswered`, `ExpiredLeavesMemory`, `KeysComeFree`,
`AcceptedStopsHappen`, `EveryCommandEnds`) is beyond this prover. No module
declares a recursive operator, and nothing here is proved by induction over data.

## 5. Not modelled, and what could follow

* `SignedURL` and `fetchURL` choose an address for a link and keep nothing; the rewriting of a
  link's origin is a string function for a unit test.
* `humanBytes`, `tooMany`'s wording, `previewKind`'s table beyond its classes, exit codes, guide,
  version and help print constants. `handleStatusAPI` reads what others keep.
* Of the web UI only the drive view's listings, selection, deletes and upload are modelled. `Bin.jsx`,
  `Login.jsx`, `app.jsx`, the components, rename and new folder repeat one of these patterns or hold no state across
  an await. `DriveView` has the run of its finding alone: what a view
  like this has to promise is that it acts on what it showed, and that is what it does not keep.
* Page layout, styles and texts (`ui/css`, `sharelink.go`'s HTML) have no state. TLS, cookies' attributes
  and the HTTP library are taken as they are. bkn appears only as what it may answer. Who may write
  `/tmp` and the state file besides this program is left open.

What could follow: `DriveView` with the guard of `Preview.jsx` put in, as the specification of
a repaired view, for which `LateListingsAreTheCause` is most of the proof; a composition of `Sessions` with
`Gateway`, which now meet only in the answer 401; and the data part of previews (the cut at the
limit) for texts of any length, which needs induction.
