------------------------------- MODULE Gateway -------------------------------
(***************************************************************************)
(* What the gateway makes of bkn's answers: the handlers of the proxied    *)
(* operations (api.go, preview.go, sharelink.go) over the bkn client       *)
(* (bkn.go), run concurrently against one file of a drive.  bkn is         *)
(* external: it may act and its answer be lost, refuse in any of the       *)
(* shapes the client knows, or answer with a body that is cut.             *)
(*                                                                         *)
(* A step is one call and all a handler does until its next call.  Which   *)
(* token a call carries, and how it is renewed after a 401, is the matter  *)
(* of Sessions; here a renewal succeeds or it does not.                    *)
(***************************************************************************)
EXTENDS Integers, Sequences, FiniteSets

CONSTANTS
    Request,
    Contents,     \* what the file may hold: sequences of bytes
    ErrorPage,    \* what a signed URL answers when the file is not there
    Limit,        \* PreviewTextMax, in bytes
    Arrivals      \* the requests that may come

\* A character is a "plain" byte, or a "lead" and a "cont"; "bad" is in none.
Byte == {"plain", "lead", "cont", "bad"}

\* form: what of it passes the handler's own checks.  ext and type: what the
\* file's name and its content type are recognised as.
Requests == [kind : {"op", "upload", "download", "preview", "share"},
             form : {"good", "bad", "large"},
             ext  : {"text", "media", "unknown"}, type : {"text", "media", "unknown"},
             content : Contents]

Absent == <<"absent">>

ASSUME GatewayAssumption ==
    /\ Limit \in Nat \ {0}
    /\ Contents \subseteq Seq(Byte) /\ Contents # {}
    /\ ErrorPage \in Seq(Byte) \ Contents
    /\ Arrivals \subseteq Requests

VARIABLES
    file,         \* bkn: what the file holds, or Absent
    req, pc,      \* what each request is, where its handler is
    tries,        \* the calls it made with a token
    acted,        \* how often bkn did what it asked
    answers,      \* what it wrote to the browser
    heard,        \* history: what bkn last answered it
    was,          \* history: what the file held from its first call on
    fetched       \* history: what a preview's second fetch answered

handler == <<req, pc, tries, answers>>
history == <<heard, was, fetched>>
vars    == <<file, handler, acted, history>>

-----------------------------------------------------------------------------
\* The shapes of a refusal: bkn's envelope, a run record with a thrown JSON or
\* a plain error, a hook's flat error.
Sentences == {"envelope", "thrown", "string", "hook"}

\* bkn's answers to a call, status 0 being none at all.  A run of the drive
\* script can also fail with status 200, a hook cannot.  Of the statuses above
\* 400 one stands for all that no code looks at.  A "bare" answer is a value in which
\* no url can be read.
Refusals == [status : {422, 500}, body : Sentences \cup {"page", "cut", "empty"}]
Failed   == [status : {200}, body : {"thrown", "string"}]
Lost     == [status : {0}, body : {"empty"}]
Expired  == [status : {401}, body : {"envelope"}]
Performed == [status : {200}, body : {"value", "bare", "cut", "empty"}]
BknAnswers == Refusals \cup Failed \cup Lost \cup Expired \cup Performed

\* What the drive-link hook answers.
LinkAnswers ==
    Lost \cup [status : {200}, body : {"link", "cut"}]
    \cup [status : {401}, body : {"password", "hook"}]
    \cup [status : {404, 429}, body : {"hook", "thrown", "envelope", "page"}]

\* An error as it travels through the handlers, and an answer's parts: says
\* tells whose words its message is.
Err(status, type, says) == [status |-> status, type |-> type, says |-> says]
OK == Err(200, "ok", "own")

\* unwrapThrow: the sentence within a thrown JSON, or the error itself, or the
\* gateway's own words if there is none.
UnwrapThrow(body) == IF body \in {"thrown", "string"} THEN "bkn" ELSE "own"

\* MUTANT of DecodeErr: "miss this and the UI shows a wall of JSON".
DecodeErrNoRun(a) ==
    CASE a.body = "envelope"            -> Err(a.status, "bkn", "bkn")
      [] a.body = "hook"                -> Err(a.status, "validation_error", "bkn")
      [] OTHER                          -> Err(a.status, "bkn_error", "raw")

DecodeErr(a) ==
    CASE a.body = "envelope"            -> Err(a.status, "bkn", "bkn")
      [] a.body \in {"thrown", "string"} -> Err(a.status, "drive_error", UnwrapThrow(a.body))
      [] a.body = "hook"                -> Err(a.status, "validation_error", "bkn")
      [] OTHER                          -> Err(a.status, "bkn_error", "raw")

Unauthorized == Err(401, "unauthorized", "own")
Internal     == Err(500, "internal_error", "own")

\* bkn.post, but for the decoding of a body.
Post(a) ==
    IF a.status = 0 THEN Err(0, "unreachable", "own")
    ELSE IF a.status = 401 THEN Unauthorized
    ELSE IF a.status >= 400 THEN DecodeErr(a)
    ELSE OK

\* A refusal of the drive script is the drive's.
OfTheDrive(p) == IF p.status = 422 THEN [p EXCEPT !.type = "drive_error"] ELSE p

\* MUTANT of Drive: a body that does not decode is a refusal.
DriveUndecoded(a) ==
    IF Post(a) # OK THEN OfTheDrive(Post(a))
    ELSE IF a.body \in {"value", "bare"} THEN OK
    ELSE Err(422, "drive_error", UnwrapThrow(a.body))

\* bkn.Drive: an empty body decodes to a result that is not OK.
Drive(a) ==
    IF Post(a) # OK THEN OfTheDrive(Post(a))
    ELSE CASE a.body = "cut" -> Internal
           [] a.body \in {"value", "bare"} -> OK
           [] OTHER -> Err(422, "drive_error", UnwrapThrow(a.body))

\* bkn.Upload: whatever body comes with a success is passed on.
Upload(a) == IF Post(a) = OK THEN OK ELSE Post(a)

\* The outcome of a call: without a url there is nothing to send the browser to, and
\* nothing to fetch.
Outcome(kind, a) ==
    IF kind = "upload" THEN Upload(a)
    ELSE IF Drive(a) = OK /\ kind \in {"download", "preview"} /\ a.body = "bare"
    THEN Err(502, "bkn_error", "own")
    ELSE Drive(a)

\* MUTANT of WriteAPIErr: the status of the error as it is.
WriteAPIErrAsIs(e) == IF e = Unauthorized THEN Err(401, "not_signed_in", "own") ELSE e

WriteAPIErr(e) ==
    IF e = Unauthorized THEN Err(401, "not_signed_in", "own")
    ELSE IF e.status < 400 THEN [e EXCEPT !.status = 502]
    ELSE e

\* previewKind: the name decides before the content type.
PreviewKind(q) ==
    IF q.ext # "unknown" THEN q.ext
    ELSE IF q.type # "unknown" THEN q.type
    ELSE "none"

\* utf8.Valid.
Valid(s) ==
    \A i \in 1..Len(s) :
        /\ s[i] # "bad"
        /\ s[i] = "lead" => i < Len(s) /\ s[i + 1] = "cont"
        /\ s[i] = "cont" => i > 1 /\ s[i - 1] = "lead"

-----------------------------------------------------------------------------
Init ==
    /\ file \in Contents \cup {Absent}
    /\ req \in [Request -> Arrivals]
    /\ pc = [r \in Request |-> "arrived"] /\ tries = [r \in Request |-> 0]
    /\ acted = [r \in Request |-> 0] /\ answers = [r \in Request |-> <<>>]
    /\ heard = [r \in Request |-> [status |-> 0, body |-> "empty"]]
    /\ was = [r \in Request |-> {}] /\ fetched = [r \in Request |-> <<>>]

\* An answer to the browser: an error or OK, and for a preview what it shows.
Nothing == [kind |-> "nothing", text |-> <<>>, truncated |-> FALSE]
Reply(r, e, shown) ==
    /\ answers' = [answers EXCEPT ![r] = Append(@, [err |-> e, shown |-> shown])]
    /\ pc' = [pc EXCEPT ![r] = "done"] /\ UNCHANGED req
Continue(r, place) == pc' = [pc EXCEPT ![r] = place] /\ UNCHANGED <<req, answers>>

\* A body that is no JSON, an op off the list, no file, no path: 400; a link
\* without a token: 404; a file over MaxUpload: 413.
Refused(q) ==
    CASE q.form = "large"                     -> Err(413, "too_large", "own")
      [] q.form = "bad" /\ q.kind = "share"   -> Err(404, "not_found", "own")
      [] OTHER                                -> Err(400, "validation_error", "own")

\* MUTANT of RefuseForm: the return after a file that is too large is missing.
RefuseFormGoesOn(r) ==
    /\ pc[r] = "arrived" /\ req[r].form # "good"
    /\ answers' = [answers EXCEPT ![r] =
                      Append(@, [err |-> Refused(req[r]), shown |-> Nothing])]
    /\ pc' = [pc EXCEPT ![r] = IF req[r].form = "large" THEN "call" ELSE "done"]
    /\ UNCHANGED <<file, req, tries, acted, history>>

\* The handler's own checks fail.
RefuseForm(r) ==
    /\ pc[r] = "arrived" /\ req[r].form # "good"
    /\ Reply(r, Refused(req[r]), Nothing)
    /\ UNCHANGED <<file, tries, acted, history>>

Accept(r) ==
    /\ pc[r] = "arrived" /\ req[r].form = "good"
    /\ Continue(r, "call")
    /\ UNCHANGED <<file, tries, acted, history>>

\* withBkn has no token for the call: no session, or no renewal.
SignedOut(r) ==
    /\ pc[r] = "call" /\ req[r].kind # "share"
    /\ Reply(r, WriteAPIErr(Unauthorized), Nothing)
    /\ UNCHANGED <<file, tries, acted, history>>

Previewing(r) == req[r].kind = "preview" /\ PreviewKind(req[r]) = "text"

\* What bkn does with the file, and what it can answer: having acted it may
\* still not be heard; a file that is not there is refused.
Acts(r, act, a) ==
    /\ act => a \in Performed \cup Lost /\ (req[r].kind # "upload" => file # Absent)
    /\ ~act => a \in BknAnswers \ Performed /\ (req[r].kind = "upload" => a \notin Failed)
    /\ file' = CASE act /\ req[r].kind = "op"     -> Absent
                 [] act /\ req[r].kind = "upload" -> req[r].content
                 [] OTHER                         -> file
    /\ acted' = [acted EXCEPT ![r] = IF act THEN @ + 1 ELSE @]
    /\ was' = [s \in Request |->
                  IF Previewing(s) /\ (s = r \/ pc[s] = "fetch") THEN was[s] \cup {file'} ELSE was[s]]

\* MUTANT of Again: a call that bkn did not answer is made again.
AgainUnheard(r, e) == tries[r] = 0 /\ (e = Unauthorized \/ e.type = "unreachable")

\* withBkn calls a second time only after a 401.
Again(r, e) == tries[r] = 0 /\ e = Unauthorized

\* handlePreview after the drive's answer: is the text to be fetched?
Fetches(r) == Previewing(r) /\ Len(file) <= Limit

Unfetched(r) ==
    IF req[r].kind # "preview" THEN Nothing
    ELSE [Nothing EXCEPT !.kind = IF Previewing(r) THEN "too_big" ELSE PreviewKind(req[r])]

\* The call of a proxied operation, and what the handler makes of the answer.
Call(r) ==
    /\ pc[r] = "call" /\ req[r].kind # "share"
    /\ \E act \in BOOLEAN, a \in BknAnswers :
        LET e == Outcome(req[r].kind, a)
        IN  /\ Acts(r, act, a)
            /\ heard' = [heard EXCEPT ![r] = a]
            /\ \/ Again(r, e) /\ Continue(r, "call")
               \/ ~Again(r, e) /\ e # OK /\ Reply(r, WriteAPIErr(e), Nothing)
               \/ e = OK /\ Fetches(r) /\ Continue(r, "fetch")
               \/ e = OK /\ ~Fetches(r) /\ Reply(r, OK, Unfetched(r))
    /\ tries' = [tries EXCEPT ![r] = @ + 1]
    /\ UNCHANGED fetched

-----------------------------------------------------------------------------
\* MUTANT of Read: one byte less is read.
ReadLimit(body) == IF Len(body) > Limit THEN SubSeq(body, 1, Limit) ELSE body

\* io.ReadAll(io.LimitReader(resp.Body, PreviewTextMax+1)).
Read(body) == IF Len(body) > Limit + 1 THEN SubSeq(body, 1, Limit + 1) ELSE body

\* The text preview of a body.
ShowText(body) ==
    LET raw == Read(body)
    IN  IF Valid(raw) THEN [kind |-> "text", text |-> raw, truncated |-> Len(raw) > Limit]
        ELSE [Nothing EXCEPT !.kind = "none"]

\* handlePreview's second fetch: its status is not looked at.
Fetch(r) ==
    /\ pc[r] = "fetch"
    /\ LET body == IF file = Absent THEN ErrorPage ELSE file
       IN  /\ fetched' = [fetched EXCEPT ![r] = body]
           /\ Reply(r, OK, ShowText(body))
    /\ UNCHANGED <<file, tries, acted, heard, was>>

FetchFails(r) ==
    /\ pc[r] = "fetch"
    /\ \E type \in {"unreachable", "bkn_error"} :
        Reply(r, WriteAPIErr(Err(502, type, "own")), Nothing)
    /\ UNCHANGED <<file, tries, acted, history>>

\* resolveLink: what does not decode to a linkResult, bkn's own envelope, whose
\* error is no string, included.
Unreadable(a) == a.status = 0 \/ a.body \in {"cut", "page", "envelope"}

\* The page handleShare makes of the drive-link hook's answer.
SharePage(a) ==
    IF Unreadable(a) THEN Err(502, "unavailable", "own")
    ELSE IF a.body = "link" THEN OK
    ELSE IF a.body = "password" THEN Err(401, "password", "own")
    ELSE IF a.status = 429 THEN Err(429, "too_many", "own")
    ELSE Err(a.status, "not_available", IF a.body = "hook" THEN "bkn" ELSE "own")

Share(r) ==
    /\ pc[r] = "call" /\ req[r].kind = "share"
    /\ \E a \in LinkAnswers :
        /\ heard' = [heard EXCEPT ![r] = a]
        /\ acted' = [acted EXCEPT ![r] = IF a.status = 200 THEN 1 ELSE 0]
        /\ Reply(r, SharePage(a), Nothing)
    /\ UNCHANGED <<file, tries, was, fetched>>

Next == \E r \in Request :
    RefuseForm(r) \/ Accept(r) \/ SignedOut(r) \/ Call(r) \/ Fetch(r) \/ FetchFails(r) \/ Share(r)

Spec == Init /\ [][Next]_vars

-----------------------------------------------------------------------------
Done(r) == pc[r] = "done"
Answer(r) == answers[r][1].err
Shown(r)  == answers[r][1].shown

\* Types; a handler writes one answer, when it is done (handlers pass either an
\* answer or an error to withBkn, never both).
TypeOK ==
    /\ file \in Contents \cup {Absent}
    /\ req \in [Request -> Arrivals]
    /\ pc \in [Request -> {"arrived", "call", "fetch", "done"}]
    /\ tries \in [Request -> 0..2]
    /\ acted \in [Request -> Nat]
    /\ \A r \in Request : Len(answers[r]) = (IF Done(r) THEN 1 ELSE 0)

\* bkn does what one request asks at most once: the second call of withBkn
\* follows a 401 only, never an answer that was lost (api.go:86-93).
ActsOnce == \A r \in Request : acted[r] <= 1

\* An answer the browser takes for a success (res.ok) comes only if bkn did the
\* thing; no failure, a lost answer included, is given such a status
\* (api.go:58-63).
SuccessIsReal ==
    \A r \in Request : Done(r) /\ Answer(r).status < 400 => acted[r] = 1

\* "The UI can show what bkn actually said" (bkn.go:60-61): of a refusal in any
\* of bkn's shapes its sentence reaches the user, except where signing in is
\* what is wrong.
SaysWhatBknSaid ==
    \A r \in Request :
        /\ Done(r) /\ tries[r] > 0
        /\ heard[r].body \in Sentences /\ heard[r].status # 401
        => Answer(r).says = "bkn"

\* An error below 500, which is called recoverable and invites a second attempt,
\* means bkn did nothing.  The one exception: a success whose body was lost to
\* its last byte reads as a refusal (bkn.go:105, 112, 222).
RecoverableMeansUndone ==
    \A r \in Request : Done(r) /\ Answer(r).status \in 400..499 /\ acted[r] > 0 =>
        heard[r] = [status |-> 200, body |-> "empty"]

\* A preview's text is text, is no longer than the limit and one byte, and is
\* all that was answered unless it is marked truncated, whatever became of the
\* file since its size was declared (preview.go:102-127).
PreviewIsWhole ==
    \A r \in Request : Done(r) /\ Shown(r).kind = "text" =>
        /\ Valid(Shown(r).text) /\ Len(Shown(r).text) <= Limit + 1
        /\ Shown(r).truncated \/ Shown(r).text = fetched[r]

\* "For text it includes the content" (preview.go:62-64): the text shown is one
\* the file had while the preview was made.
ShownIsTheFile ==
    \A r \in Request : Done(r) /\ Shown(r).kind = "text" =>
        Shown(r).truncated \/ Shown(r).text \in was[r]
=============================================================================
