--------------------------- MODULE GatewayProofs ----------------------------
(***************************************************************************)
(* Theorems about Gateway, for any number of requests, any contents and    *)
(* any limit.                                                              *)
(***************************************************************************)
EXTENDS Gateway, TLAPS

-----------------------------------------------------------------------------
(* What the client makes of an answer of bkn.                              *)

ErrorTypes ==
    {"ok", "unreachable", "unauthorized", "internal_error", "bkn", "validation_error",
     "bkn_error", "drive_error", "not_signed_in", "too_large", "not_found", "unavailable",
     "password", "too_many", "not_available"}
Errors == [status : Nat, type : ErrorTypes, says : {"own", "bkn", "raw"}]

LEMMA AnswersSplit ==
  \A a \in BknAnswers :
     a \in Refusals \/ a \in Failed \/ a \in Lost \/ a \in Expired \/ a \in Performed
BY DEF BknAnswers

\* A refusal keeps its status, says what bkn said if it said anything, and is
\* never taken for a success or for an expired token.
LEMMA DecodedRefusal ==
  ASSUME NEW a \in Refusals
  PROVE  /\ DecodeErr(a) \in Errors
         /\ DecodeErr(a).status = a.status /\ DecodeErr(a).type # "ok"
         /\ a.body \in Sentences => DecodeErr(a).says = "bkn"
<1>1. a.status \in {422, 500} /\ a.body \in Sentences \cup {"page", "cut", "empty"}
  BY DEF Refusals
<1> QED
  BY <1>1 DEF DecodeErr, UnwrapThrow, Err, Errors, ErrorTypes, Sentences

LEMMA PostOfRefusal == \A a \in Refusals : Post(a) = DecodeErr(a)
<1> SUFFICES ASSUME NEW a \in Refusals PROVE Post(a) = DecodeErr(a)
  OBVIOUS
<1>1. a.status \in {422, 500}
  BY DEF Refusals
<1> QED
  BY <1>1 DEF Post

LEMMA PostOfLost == \A a \in Lost : Post(a) = Err(0, "unreachable", "own")
BY DEF Lost, Post

LEMMA PostOfExpired == \A a \in Expired : Post(a) = Unauthorized
<1> SUFFICES ASSUME NEW a \in Expired PROVE Post(a) = Unauthorized
  OBVIOUS
<1>1. a.status = 401
  BY DEF Expired
<1> QED
  BY <1>1 DEF Post

LEMMA PostOfSuccess == \A a \in Failed \cup Performed : Post(a) = OK
<1> SUFFICES ASSUME NEW a \in Failed \cup Performed PROVE Post(a) = OK
  OBVIOUS
<1>1. a.status = 200
  BY DEF Failed, Performed
<1> QED
  BY <1>1 DEF Post

\* What each class of answers comes to.  Only one that bkn gives to a call it
\* performed is a success, only an expired token is Unauthorized.
LEMMA OutcomeOfRefusal ==
  ASSUME NEW kind, NEW a \in Refusals
  PROVE  /\ Outcome(kind, a) \in Errors
         /\ Outcome(kind, a).status \in {422, 500} /\ Outcome(kind, a).type # "ok"
         /\ a.body \in Sentences => Outcome(kind, a).says = "bkn"
<1> DEFINE p == DecodeErr(a)
<1>1. /\ p \in Errors /\ p.status \in {422, 500} /\ p.type # "ok"
      /\ a.body \in Sentences => p.says = "bkn"
  BY DecodedRefusal DEF Refusals
<1>2. Post(a) = p
  BY PostOfRefusal
<1> HIDE DEF p
<1>3. p # OK
  BY <1>1 DEF OK, Err
<1>4. CASE kind = "upload"
  BY <1>1, <1>2, <1>3, <1>4 DEF Outcome, Upload
<1>5. CASE kind # "upload"
  <2>1. Drive(a) = IF p.status = 422 THEN [p EXCEPT !.type = "drive_error"] ELSE p
    BY <1>1, <1>2, <1>3 DEF Drive, OfTheDrive
  <2>2. Drive(a) # OK
    BY <1>1, <2>1 DEF OK, Err
  <2>3. Outcome(kind, a) = Drive(a)
    BY <2>2, <1>5 DEF Outcome
  <2> QED
    BY <1>1, <2>1, <2>3 DEF Errors, ErrorTypes
<1> QED
  BY <1>4, <1>5

LEMMA OutcomeOfLost ==
  \A kind : \A a \in Lost : Outcome(kind, a) = Err(0, "unreachable", "own")
<1> SUFFICES ASSUME NEW kind, NEW a \in Lost
             PROVE  Outcome(kind, a) = Err(0, "unreachable", "own")
  OBVIOUS
<1>1. Post(a) = Err(0, "unreachable", "own")
  BY PostOfLost
<1>2. Err(0, "unreachable", "own") # OK /\ Err(0, "unreachable", "own").status # 422
  BY DEF Err, OK
<1> QED
  BY <1>1, <1>2 DEF Outcome, Upload, Drive, OfTheDrive

LEMMA OutcomeOfExpired ==
  \A kind : \A a \in Expired : Outcome(kind, a) = Unauthorized
<1> SUFFICES ASSUME NEW kind, NEW a \in Expired PROVE Outcome(kind, a) = Unauthorized
  OBVIOUS
<1>1. Post(a) = Unauthorized
  BY PostOfExpired
<1>2. Unauthorized # OK /\ Unauthorized.status # 422
  BY DEF Unauthorized, Err, OK
<1> QED
  BY <1>1, <1>2 DEF Outcome, Upload, Drive, OfTheDrive

LEMMA OutcomeOfFailed ==
  \A kind : \A a \in Failed :
     kind # "upload" => Outcome(kind, a) = Err(422, "drive_error", "bkn")
<1> SUFFICES ASSUME NEW kind, NEW a \in Failed, kind # "upload"
             PROVE  Outcome(kind, a) = Err(422, "drive_error", "bkn")
  OBVIOUS
<1>1. Post(a) = OK /\ a.body \in {"thrown", "string"}
  BY PostOfSuccess DEF Failed
<1>2. OK.status # 422
  BY DEF OK, Err
<1> QED
  BY <1>1, <1>2 DEF Outcome, Drive, UnwrapThrow

LEMMA OutcomeOfPerformed ==
  \A kind : \A a \in Performed :
     \/ Outcome(kind, a) = OK
     \/ a.body = "cut" /\ Outcome(kind, a) = Internal
     \/ a.body = "bare" /\ Outcome(kind, a) = Err(502, "bkn_error", "own")
     \/ a = [status |-> 200, body |-> "empty"]
        /\ Outcome(kind, a) = Err(422, "drive_error", "own")
<1> SUFFICES ASSUME NEW kind, NEW a \in Performed
             PROVE  \/ Outcome(kind, a) = OK
                    \/ a.body = "cut" /\ Outcome(kind, a) = Internal
                    \/ a.body = "bare" /\ Outcome(kind, a) = Err(502, "bkn_error", "own")
                    \/ a = [status |-> 200, body |-> "empty"]
                       /\ Outcome(kind, a) = Err(422, "drive_error", "own")
  OBVIOUS
<1>1. Post(a) = OK /\ a.body \in {"value", "bare", "cut", "empty"}
  BY PostOfSuccess DEF Performed
<1>2. OK.status # 422
  BY DEF OK, Err
<1>3. CASE kind = "upload"
  BY <1>1, <1>3 DEF Outcome, Upload
<1>4. CASE kind # "upload" /\ a.body = "empty"
  <2>1. a = [status |-> 200, body |-> "empty"]
    BY <1>4 DEF Performed
  <2>2. Outcome(kind, a) = Err(422, "drive_error", "own")
    BY <1>1, <1>2, <1>4 DEF Outcome, Drive, UnwrapThrow
  <2> QED
    BY <2>1, <2>2
<1>5. CASE kind # "upload" /\ a.body # "empty"
  BY <1>1, <1>2, <1>5 DEF Outcome, Drive
<1> QED
  BY <1>3, <1>4, <1>5

\* A call counts as done only if bkn performed it.
LEMMA OKMeansPerformed ==
  \A kind : \A a \in BknAnswers :
     /\ Outcome(kind, a) = OK
     /\ kind = "upload" => a \notin Failed
     => a \in Performed
<1> SUFFICES ASSUME NEW kind, NEW a \in BknAnswers, Outcome(kind, a) = OK,
                    kind = "upload" => a \notin Failed, a \notin Performed
             PROVE  FALSE
  OBVIOUS
<1>1. CASE a \in Refusals
  BY <1>1, OutcomeOfRefusal DEF OK, Err
<1>2. CASE a \in Failed
  BY <1>2, OutcomeOfFailed DEF OK, Err
<1>3. CASE a \in Lost
  BY <1>3, OutcomeOfLost DEF OK, Err
<1>4. CASE a \in Expired
  BY <1>4, OutcomeOfExpired DEF OK, Unauthorized, Err
<1> QED
  BY <1>1, <1>2, <1>3, <1>4, AnswersSplit

\* A call is made again only if bkn refused its token.
LEMMA AgainMeansExpired ==
  \A kind : \A a \in BknAnswers :
     /\ Outcome(kind, a) = Unauthorized
     /\ kind = "upload" => a \notin Failed
     => a \in Expired
<1> SUFFICES ASSUME NEW kind, NEW a \in BknAnswers, Outcome(kind, a) = Unauthorized,
                    kind = "upload" => a \notin Failed, a \notin Expired
             PROVE  FALSE
  OBVIOUS
<1> USE DEF Unauthorized, Err
<1>1. CASE a \in Refusals
  BY <1>1, OutcomeOfRefusal
<1>2. CASE a \in Failed
  BY <1>2, OutcomeOfFailed
<1>3. CASE a \in Lost
  BY <1>3, OutcomeOfLost
<1>4. CASE a \in Performed
  BY <1>4, OutcomeOfPerformed DEF OK, Internal
<1> QED
  BY <1>1, <1>2, <1>3, <1>4, AnswersSplit

\* What is written to the browser for an error: never a status below 400; one from
\* 400 to 499 only for what bkn did not do, or for an empty body; and bkn's own
\* words, where there are any and the token is good.
LEMMA WrittenError ==
  ASSUME NEW kind, NEW a \in BknAnswers, Outcome(kind, a) # OK,
         kind = "upload" => a \notin Failed
  PROVE  LET w == WriteAPIErr(Outcome(kind, a))
         IN  /\ w \in Errors /\ w.status >= 400
             /\ w.status \in 400..499 /\ a \in Performed \cup Lost =>
                    a = [status |-> 200, body |-> "empty"]
             /\ a.body \in Sentences /\ a.status # 401 => w.says = "bkn"
<1> DEFINE e == Outcome(kind, a)
           w == WriteAPIErr(e)
           Goal == /\ w \in Errors /\ w.status >= 400
                   /\ w.status \in 400..499 /\ a \in Performed \cup Lost =>
                          a = [status |-> 200, body |-> "empty"]
                   /\ a.body \in Sentences /\ a.status # 401 => w.says = "bkn"
<1>1. CASE a \in Refusals
  <2>1. /\ e \in Errors /\ e.status \in {422, 500}
        /\ a.body \in Sentences => e.says = "bkn"
    BY <1>1, OutcomeOfRefusal
  <2> HIDE DEF e
  <2>2. e # Unauthorized
    BY <2>1 DEF Unauthorized, Err
  <2>3. w = e
    BY <2>1, <2>2 DEF WriteAPIErr
  <2>4. a \notin Performed \cup Lost
    BY <1>1 DEF Refusals, Performed, Lost
  <2>5. Goal
    BY <2>1, <2>3, <2>4 DEF Errors
  <2> QED
    BY <2>5 DEF e
<1>2. CASE a \in Failed
  <2>1. e = Err(422, "drive_error", "bkn") /\ a \notin Performed \cup Lost
    BY <1>2, OutcomeOfFailed DEF Failed, Performed, Lost
  <2> HIDE DEF e
  <2>2. w = e
    BY <2>1 DEF WriteAPIErr, Unauthorized, Err
  <2>3. Goal
    BY <2>1, <2>2 DEF Errors, ErrorTypes, Err
  <2> QED
    BY <2>3 DEF e
<1>3. CASE a \in Lost
  <2>1. e = Err(0, "unreachable", "own") /\ a.body = "empty"
    BY <1>3, OutcomeOfLost DEF Lost
  <2> HIDE DEF e
  <2>2. w = Err(502, "unreachable", "own")
    BY <2>1 DEF WriteAPIErr, Unauthorized, Err
  <2>3. Goal
    BY <2>1, <2>2 DEF Errors, ErrorTypes, Err, Sentences
  <2> QED
    BY <2>3 DEF e
<1>4. CASE a \in Expired
  <2>1. e = Unauthorized /\ a.status = 401 /\ a \notin Performed \cup Lost
    BY <1>4, OutcomeOfExpired DEF Expired, Performed, Lost
  <2> HIDE DEF e
  <2>2. w = Err(401, "not_signed_in", "own")
    BY <2>1 DEF WriteAPIErr
  <2>3. Goal
    BY <2>1, <2>2 DEF Errors, ErrorTypes, Err
  <2> QED
    BY <2>3 DEF e
<1>5. CASE a \in Performed
  <2>1. a.body \notin Sentences
    BY <1>5 DEF Performed, Sentences
  <2>2. \/ e = Internal \/ e = Err(502, "bkn_error", "own")
        \/ e = Err(422, "drive_error", "own") /\ a = [status |-> 200, body |-> "empty"]
    BY <1>5, OutcomeOfPerformed
  <2> HIDE DEF e
  <2>3. w = e
    BY <2>2 DEF WriteAPIErr, Unauthorized, Internal, Err
  <2>4. Goal
    BY <2>1, <2>2, <2>3 DEF Errors, ErrorTypes, Err, Internal
  <2> QED
    BY <2>4 DEF e
<1> QED
  BY <1>1, <1>2, <1>3, <1>4, <1>5, AnswersSplit

\* The page of a share link: a success only for a link, and only for status 200.
LEMMA PageOfLink ==
  ASSUME NEW a \in LinkAnswers
  PROVE  /\ SharePage(a) \in Errors
         /\ SharePage(a).status < 400 => a.status = 200
         /\ SharePage(a).status \in 400..499 => a.status # 200
<1>1. \/ a = [status |-> 0, body |-> "empty"]
      \/ a.status = 200 /\ a.body \in {"link", "cut"}
      \/ a.status = 401 /\ a.body \in {"password", "hook"}
      \/ a.status \in {404, 429} /\ a.body \in {"hook", "thrown", "envelope", "page"}
  BY DEF LinkAnswers, Lost
<1> QED
  BY <1>1 DEF SharePage, Unreadable, Err, OK, Errors, ErrorTypes

-----------------------------------------------------------------------------
(* What is shown of a body.                                                *)

Views == [kind : {"nothing", "none", "text", "media", "too_big"},
          text : Seq(Byte), truncated : BOOLEAN]

LEMMA NothingIsAView == Nothing \in Views
BY DEF Nothing, Views

\* What is shown as text is a body that decodes, or one cut at the limit and a byte.
LEMMA ShownText ==
  ASSUME NEW body \in Seq(Byte)
  PROVE  /\ ShowText(body) \in Views
         /\ ShowText(body).kind = "text" =>
                /\ Valid(ShowText(body).text) /\ Len(ShowText(body).text) <= Limit + 1
                /\ ShowText(body).truncated \/ ShowText(body).text = body
<1> DEFINE raw == Read(body)
<1>1. Limit \in Nat
  BY GatewayAssumption
<1>2. raw \in Seq(Byte) /\ Len(raw) <= Limit + 1 /\ (Len(raw) > Limit \/ raw = body)
  <2>1. CASE Len(body) > Limit + 1
    <3>1. raw = SubSeq(body, 1, Limit + 1)
      BY <2>1 DEF Read
    <3>2. raw \in Seq(Byte) /\ Len(raw) = Limit + 1
      BY <1>1, <2>1, <3>1
    <3> QED
      BY <1>1, <3>2
  <2>2. CASE ~(Len(body) > Limit + 1)
    BY <1>1, <2>2 DEF Read
  <2> QED
    BY <2>1, <2>2
<1>3. ShowText(body) = IF Valid(raw)
                       THEN [kind |-> "text", text |-> raw, truncated |-> Len(raw) > Limit]
                       ELSE [Nothing EXCEPT !.kind = "none"]
  BY DEF ShowText
<1> DEFINE cut == Len(raw) > Limit
<1>6. cut \in BOOLEAN /\ (cut \/ raw = body)
  BY <1>2
<1> HIDE DEF raw, cut
<1>4. CASE Valid(raw)
  <2>1. ShowText(body) = [kind |-> "text", text |-> raw, truncated |-> cut]
    BY <1>3, <1>4 DEF cut
  <2> QED
    BY <1>2, <1>4, <1>6, <2>1 DEF Views
<1>5. CASE ~Valid(raw)
  <2>1. ShowText(body) = [kind |-> "none", text |-> <<>>, truncated |-> FALSE]
    BY <1>3, <1>5 DEF Nothing
  <2> QED
    BY <2>1 DEF Views
<1> QED
  BY <1>4, <1>5

\* What is shown without a second fetch is no text.
LEMMA UnfetchedIsNoText ==
  ASSUME NEW r \in Request, req[r] \in Requests
  PROVE  Unfetched(r) \in Views /\ Unfetched(r).kind # "text"
<1>1. req[r].ext \in {"text", "media", "unknown"} /\ req[r].type \in {"text", "media", "unknown"}
  BY DEF Requests
<1>2. PreviewKind(req[r]) \in {"text", "media", "none"}
  BY <1>1 DEF PreviewKind
<1>3. CASE req[r].kind # "preview"
  BY <1>3 DEF Unfetched, Nothing, Views
<1>4. CASE req[r].kind = "preview" /\ PreviewKind(req[r]) = "text"
  <2>1. Unfetched(r) = [kind |-> "too_big", text |-> <<>>, truncated |-> FALSE]
    BY <1>4 DEF Unfetched, Previewing, Nothing
  <2> QED
    BY <2>1 DEF Views
<1>5. CASE req[r].kind = "preview" /\ PreviewKind(req[r]) # "text"
  <2>1. Unfetched(r) = [kind |-> PreviewKind(req[r]), text |-> <<>>, truncated |-> FALSE]
    BY <1>5 DEF Unfetched, Previewing, Nothing
  <2> QED
    BY <1>2, <1>5, <2>1 DEF Views
<1> QED
  BY <1>3, <1>4, <1>5

-----------------------------------------------------------------------------
(* The inductive invariant: what is known of a request at each place of its *)
(* handler, and of its answer when it is done.                             *)

Entries == [err : Errors, shown : Views]

Typed ==
    /\ answers \in [Request -> Seq(Entries)]
    /\ heard \in [Request -> BknAnswers \cup LinkAnswers]
    /\ fetched \in [Request -> Seq(Byte)]

\* What the properties say of a request that was answered e and shown v, when bkn
\* acted n times, t calls were made, a was heard last and body fetched.
Honest(e, n, t, a) ==
    /\ n <= 1
    /\ e.status < 400 => n = 1
    /\ t > 0 /\ a.body \in Sentences /\ a.status # 401 => e.says = "bkn"
    /\ e.status \in 400..499 /\ n > 0 => a = [status |-> 200, body |-> "empty"]

Whole(v, body) ==
    v.kind = "text" => /\ Valid(v.text) /\ Len(v.text) <= Limit + 1
                       /\ v.truncated \/ v.text = body

Final(r) == /\ Honest(Answer(r), acted[r], tries[r], heard[r])
            /\ Whole(Shown(r), fetched[r])

Sound(r) ==
    /\ pc[r] = "arrived" => tries[r] = 0 /\ acted[r] = 0
    /\ pc[r] = "call" => acted[r] = 0 /\ (tries[r] = 0 \/ (tries[r] = 1 /\ heard[r].status = 401))
    /\ pc[r] = "fetch" => acted[r] = 1 /\ heard[r] \in Performed
    /\ req[r].kind = "share" => tries[r] = 0
    /\ pc[r] = "done" => Final(r)

GatewayInv == TypeOK /\ Typed /\ \A r \in Request : Sound(r)

LEMMA InitGatewayInv == Init => GatewayInv
<1> SUFFICES ASSUME Init PROVE GatewayInv
  OBVIOUS
<1>1. TypeOK
  BY DEF Init, TypeOK, Done
<1>2. [status |-> 0, body |-> "empty"] \in BknAnswers
  BY DEF BknAnswers, Lost
<1>3. Typed
  BY <1>2 DEF Init, Typed
<1>4. \A r \in Request : Sound(r)
  BY DEF Init, Sound
<1> QED
  BY <1>1, <1>3, <1>4 DEF GatewayInv

\* A step of request r that leaves the others alone.
Only(r) ==
    /\ req' = req
    /\ \A s \in Request : s # r =>
        /\ pc'[s] = pc[s] /\ tries'[s] = tries[s] /\ acted'[s] = acted[s]
        /\ answers'[s] = answers[s] /\ heard'[s] = heard[s] /\ fetched'[s] = fetched[s]

LEMMA StepOfOne ==
  ASSUME GatewayInv, NEW r \in Request, Only(r), Typed', Sound(r)',
         file' \in Contents \cup {Absent},
         pc' \in [Request -> {"arrived", "call", "fetch", "done"}],
         tries' \in [Request -> 0..2], acted' \in [Request -> Nat],
         Len(answers'[r]) = (IF pc'[r] = "done" THEN 1 ELSE 0)
  PROVE  GatewayInv'
<1>1. TypeOK'
  BY DEF GatewayInv, TypeOK, Only, Done
<1>2. ASSUME NEW s \in Request, s # r PROVE Sound(s)'
  <2>1. Sound(s)
    BY DEF GatewayInv
  <2> QED
    <3>1. Answer(s)' = Answer(s) /\ Shown(s)' = Shown(s)
      BY <1>2 DEF Only, Answer, Shown
    <3>2. /\ pc'[s] = pc[s] /\ tries'[s] = tries[s] /\ acted'[s] = acted[s] /\ req' = req
          /\ heard'[s] = heard[s] /\ fetched'[s] = fetched[s]
      BY <1>2 DEF Only
    <3> QED
      BY <2>1, <3>1, <3>2 DEF Sound, Final
<1> QED
  BY <1>1, <1>2 DEF GatewayInv

\* A reply is the only one, and is what the answer says.
LEMMA OneReply ==
  ASSUME GatewayInv, NEW r \in Request, pc[r] # "done", NEW e \in Errors, NEW v \in Views,
         Reply(r, e, v)
  PROVE  /\ answers' \in [Request -> Seq(Entries)] /\ Len(answers'[r]) = 1
         /\ Answer(r)' = e /\ Shown(r)' = v
         /\ pc' = [pc EXCEPT ![r] = "done"] /\ req' = req
         /\ \A s \in Request : s # r => answers'[s] = answers[s]
<1> DEFINE x == [err |-> e, shown |-> v]
<1>1. x \in Entries
  BY DEF Entries
<1>2. answers \in [Request -> Seq(Entries)] /\ Len(answers[r]) = 0
  BY DEF GatewayInv, TypeOK, Typed, Done
<1>3. answers' = [answers EXCEPT ![r] = Append(answers[r], x)]
  BY DEF Reply
<1> HIDE DEF x
<1>4. Append(answers[r], x) \in Seq(Entries) /\ Len(Append(answers[r], x)) = 1
      /\ Append(answers[r], x)[1] = x
  BY <1>1, <1>2
<1>5. answers'[r] = Append(answers[r], x)
  BY <1>2, <1>3
<1> QED
  BY <1>2, <1>3, <1>4, <1>5 DEF Reply, Answer, Shown, x

LEMMA NextGatewayInv == GatewayInv /\ [Next]_vars => GatewayInv'
<1> SUFFICES ASSUME GatewayInv, [Next]_vars PROVE GatewayInv'
  OBVIOUS
<1>t. /\ TypeOK /\ Typed /\ \A r \in Request : Sound(r)
      /\ \A r \in Request : req[r] \in Requests
  BY GatewayAssumption DEF GatewayInv, TypeOK
<1> USE DEF history, Continue
<1>1. ASSUME NEW r \in Request, RefuseForm(r) PROVE GatewayInv'
  <2>1. Refused(req[r]) \in Errors /\ Refused(req[r]).status \in 400..499
    BY DEF Refused, Err, Errors, ErrorTypes
  <2>2. Reply(r, Refused(req[r]), Nothing) /\ pc[r] = "arrived"
        /\ UNCHANGED <<file, tries, acted, heard, fetched>>
    BY <1>1 DEF RefuseForm
  <2>3. /\ answers' \in [Request -> Seq(Entries)] /\ Len(answers'[r]) = 1
        /\ Answer(r)' = Refused(req[r]) /\ Shown(r)' = Nothing
        /\ pc' = [pc EXCEPT ![r] = "done"] /\ req' = req
        /\ \A s \in Request : s # r => answers'[s] = answers[s]
    BY <2>1, <2>2, OneReply, NothingIsAView
  <2>4. Final(r)'
    <3>1. acted'[r] = 0 /\ tries'[r] = 0
      BY <2>2, <1>t DEF Sound
    <3>2. Honest(Refused(req[r]), 0, 0, heard'[r])
      BY <2>1 DEF Honest
    <3> QED
      BY <2>3, <3>1, <3>2 DEF Final, Whole, Nothing
  <2>5. Sound(r)' /\ Typed' /\ Only(r)
    BY <2>2, <2>3, <2>4, <1>t DEF Sound, Typed, Only, TypeOK
  <2> QED
    BY <2>2, <2>3, <2>5, <1>t, StepOfOne DEF TypeOK
<1>2. ASSUME NEW r \in Request, Accept(r) PROVE GatewayInv'
  <2>1. Sound(r)' /\ Typed' /\ Only(r)
    BY <1>2, <1>t DEF Accept, Sound, Typed, Only, TypeOK
  <2> QED
    BY <1>2, <2>1, <1>t, StepOfOne DEF Accept, TypeOK, Done
<1>3. ASSUME NEW r \in Request, SignedOut(r) PROVE GatewayInv'
  <2>1. WriteAPIErr(Unauthorized) = Err(401, "not_signed_in", "own")
    BY DEF WriteAPIErr
  <2>2. Err(401, "not_signed_in", "own") \in Errors
    BY DEF Err, Errors, ErrorTypes
  <2>3. Reply(r, Err(401, "not_signed_in", "own"), Nothing) /\ pc[r] = "call"
        /\ UNCHANGED <<file, tries, acted, heard, fetched>>
    BY <1>3, <2>1 DEF SignedOut
  <2>4. /\ answers' \in [Request -> Seq(Entries)] /\ Len(answers'[r]) = 1
        /\ Answer(r)' = Err(401, "not_signed_in", "own") /\ Shown(r)' = Nothing
        /\ pc' = [pc EXCEPT ![r] = "done"] /\ req' = req
        /\ \A s \in Request : s # r => answers'[s] = answers[s]
    BY <2>2, <2>3, OneReply, NothingIsAView
  <2>5. Final(r)'
    <3>1. acted'[r] = 0 /\ (tries'[r] = 0 \/ heard'[r].status = 401)
      BY <2>3, <1>t DEF Sound
    <3>2. Honest(Err(401, "not_signed_in", "own"), 0, tries'[r], heard'[r])
      BY <3>1 DEF Honest, Err
    <3> QED
      BY <2>4, <3>1, <3>2 DEF Final, Whole, Nothing
  <2>6. Sound(r)' /\ Typed' /\ Only(r)
    BY <2>3, <2>4, <2>5, <1>t DEF Sound, Typed, Only, TypeOK
  <2> QED
    BY <2>3, <2>4, <2>6, <1>t, StepOfOne DEF TypeOK
<1>4. ASSUME NEW r \in Request, Call(r) PROVE GatewayInv'
  <2>1. PICK act \in BOOLEAN, a \in BknAnswers :
          LET e == Outcome(req[r].kind, a)
          IN  /\ Acts(r, act, a)
              /\ heard' = [heard EXCEPT ![r] = a]
              /\ \/ Again(r, e) /\ Continue(r, "call")
                 \/ ~Again(r, e) /\ e # OK /\ Reply(r, WriteAPIErr(e), Nothing)
                 \/ e = OK /\ Fetches(r) /\ Continue(r, "fetch")
                 \/ e = OK /\ ~Fetches(r) /\ Reply(r, OK, Unfetched(r))
    BY <1>4 DEF Call
  <2> DEFINE e == Outcome(req[r].kind, a)
  <2>2. /\ Acts(r, act, a) /\ heard' = [heard EXCEPT ![r] = a]
        /\ \/ Again(r, e) /\ Continue(r, "call")
           \/ ~Again(r, e) /\ e # OK /\ Reply(r, WriteAPIErr(e), Nothing)
           \/ e = OK /\ Fetches(r) /\ Continue(r, "fetch")
           \/ e = OK /\ ~Fetches(r) /\ Reply(r, OK, Unfetched(r))
    BY <2>1
  <2>3. /\ pc[r] = "call" /\ req[r].kind # "share" /\ fetched' = fetched
        /\ tries' = [tries EXCEPT ![r] = @ + 1]
    BY <1>4 DEF Call
  <2>4. /\ act => a \in Performed \cup Lost
        /\ ~act => a \notin Performed /\ (req[r].kind = "upload" => a \notin Failed)
        /\ acted' = [acted EXCEPT ![r] = IF act THEN @ + 1 ELSE @]
    BY <2>2 DEF Acts
  <2>5. file' \in Contents \cup {Absent}
    <3>1. req[r].content \in Contents
      BY <1>t DEF Requests
    <3> QED
      BY <2>2, <3>1, <1>t DEF Acts, TypeOK
  <2>6. req[r].kind = "upload" => a \notin Failed
    BY <2>4 DEF Performed, Lost, Failed
  <2>7. /\ acted[r] = 0 /\ acted'[r] = IF act THEN 1 ELSE 0
        /\ acted' \in [Request -> Nat] /\ \A s \in Request : s # r => acted'[s] = acted[s]
    BY <2>3, <2>4, <1>t DEF Sound, TypeOK
  <2>8. /\ tries[r] \in {0, 1} /\ tries'[r] = tries[r] + 1
        /\ tries' \in [Request -> 0..2] /\ \A s \in Request : s # r => tries'[s] = tries[s]
    <3>1. tries[r] \in {0, 1}
      BY <2>3, <1>t DEF Sound
    <3> QED
      BY <2>3, <3>1, <1>t DEF TypeOK
  <2>9. /\ heard'[r] = a /\ heard' \in [Request -> BknAnswers \cup LinkAnswers]
        /\ \A s \in Request : s # r => heard'[s] = heard[s]
    BY <2>2, <1>t DEF Typed
  <2> HIDE DEF e
  <2>10. CASE Again(r, e) /\ Continue(r, "call")
    <3>1. a \in Expired /\ tries[r] = 0
      BY <2>6, <2>10, AgainMeansExpired DEF Again, e
    <3>2. ~act /\ a.status = 401
      BY <2>4, <3>1 DEF Expired, Performed, Lost
    <3>3. /\ req' = req /\ answers' = answers /\ pc' = [pc EXCEPT ![r] = "call"]
      BY <2>10
    <3>4. Sound(r)' /\ Typed' /\ Only(r)
      BY <2>3, <2>7, <2>8, <2>9, <3>1, <3>2, <3>3, <1>t DEF Sound, Typed, Only, TypeOK
    <3> QED
      BY <2>3, <2>5, <2>7, <2>8, <3>3, <3>4, <1>t, StepOfOne DEF TypeOK, Done
  <2>11. CASE ~Again(r, e) /\ e # OK /\ Reply(r, WriteAPIErr(e), Nothing)
    <3> DEFINE w == WriteAPIErr(e)
    <3>1. /\ w \in Errors /\ w.status >= 400
          /\ w.status \in 400..499 /\ a \in Performed \cup Lost =>
                 a = [status |-> 200, body |-> "empty"]
          /\ a.body \in Sentences /\ a.status # 401 => w.says = "bkn"
      BY <2>6, <2>11, WrittenError DEF e
    <3>2. Reply(r, w, Nothing)
      BY <2>11
    <3> HIDE DEF w
    <3>3. /\ answers' \in [Request -> Seq(Entries)] /\ Len(answers'[r]) = 1
          /\ Answer(r)' = w /\ Shown(r)' = Nothing
          /\ pc' = [pc EXCEPT ![r] = "done"] /\ req' = req
          /\ \A s \in Request : s # r => answers'[s] = answers[s]
      BY <2>3, <3>1, <3>2, OneReply, NothingIsAView
    <3>4. w.status \in Nat
      BY <3>1 DEF Errors
    <3>5. Final(r)'
      <4>1. Honest(w, acted'[r], tries'[r], a)
        BY <2>4, <2>7, <3>1, <3>4 DEF Honest
      <4> QED
        BY <2>9, <3>3, <4>1 DEF Final, Whole, Nothing
    <3>6. Sound(r)' /\ Typed' /\ Only(r)
      BY <2>3, <2>7, <2>8, <2>9, <3>3, <3>5, <1>t DEF Sound, Typed, Only, TypeOK
    <3> QED
      BY <2>5, <2>7, <2>8, <3>3, <3>6, <1>t, StepOfOne DEF TypeOK
  <2>12. CASE e = OK /\ Fetches(r) /\ Continue(r, "fetch")
    <3>1. a \in Performed /\ act
      BY <2>4, <2>6, <2>12, OKMeansPerformed DEF e
    <3>2. /\ req' = req /\ answers' = answers /\ pc' = [pc EXCEPT ![r] = "fetch"]
      BY <2>12
    <3>3. Sound(r)' /\ Typed' /\ Only(r)
      BY <2>3, <2>7, <2>8, <2>9, <3>1, <3>2, <1>t DEF Sound, Typed, Only, TypeOK
    <3> QED
      BY <2>3, <2>5, <2>7, <2>8, <3>2, <3>3, <1>t, StepOfOne DEF TypeOK, Done
  <2>13. CASE e = OK /\ ~Fetches(r) /\ Reply(r, OK, Unfetched(r))
    <3>1. a \in Performed /\ act
      BY <2>4, <2>6, <2>13, OKMeansPerformed DEF e
    <3>2. a.body \notin Sentences
      BY <3>1 DEF Performed, Sentences
    <3>3. OK \in Errors /\ OK.status = 200
      BY DEF OK, Err, Errors, ErrorTypes
    <3>4. Unfetched(r) \in Views /\ Unfetched(r).kind # "text"
      BY <1>t, UnfetchedIsNoText
    <3>5. /\ answers' \in [Request -> Seq(Entries)] /\ Len(answers'[r]) = 1
          /\ Answer(r)' = OK /\ Shown(r)' = Unfetched(r)
          /\ pc' = [pc EXCEPT ![r] = "done"] /\ req' = req
          /\ \A s \in Request : s # r => answers'[s] = answers[s]
      BY <2>3, <2>13, <3>3, <3>4, OneReply
    <3>6. Final(r)'
      <4>1. Honest(OK, 1, tries'[r], a)
        BY <3>2, <3>3 DEF Honest
      <4>2. Whole(Unfetched(r), fetched'[r])
        BY <3>4 DEF Whole
      <4> QED
        BY <2>7, <2>9, <3>1, <3>5, <4>1, <4>2 DEF Final
    <3>7. Sound(r)' /\ Typed' /\ Only(r)
      BY <2>3, <2>7, <2>8, <2>9, <3>5, <3>6, <1>t DEF Sound, Typed, Only, TypeOK
    <3> QED
      BY <2>5, <2>7, <2>8, <3>5, <3>7, <1>t, StepOfOne DEF TypeOK
  <2> QED
    BY <2>2, <2>10, <2>11, <2>12, <2>13
<1>5. ASSUME NEW r \in Request, Fetch(r) PROVE GatewayInv'
  <2> DEFINE body == IF file = Absent THEN ErrorPage ELSE file
  <2>1. /\ pc[r] = "fetch" /\ fetched' = [fetched EXCEPT ![r] = body]
        /\ Reply(r, OK, ShowText(body)) /\ UNCHANGED <<file, tries, acted, heard>>
    BY <1>5 DEF Fetch
  <2>2. body \in Seq(Byte)
    BY <1>t, GatewayAssumption DEF TypeOK
  <2> HIDE DEF body
  <2>3. /\ ShowText(body) \in Views
        /\ ShowText(body).kind = "text" =>
               /\ Valid(ShowText(body).text) /\ Len(ShowText(body).text) <= Limit + 1
               /\ ShowText(body).truncated \/ ShowText(body).text = body
    BY <2>2, ShownText
  <2>4. OK \in Errors /\ OK.status = 200
    BY DEF OK, Err, Errors, ErrorTypes
  <2>5. /\ answers' \in [Request -> Seq(Entries)] /\ Len(answers'[r]) = 1
        /\ Answer(r)' = OK /\ Shown(r)' = ShowText(body)
        /\ pc' = [pc EXCEPT ![r] = "done"] /\ req' = req
        /\ \A s \in Request : s # r => answers'[s] = answers[s]
    BY <2>1, <2>3, <2>4, OneReply
  <2>6. /\ fetched'[r] = body /\ fetched' \in [Request -> Seq(Byte)]
        /\ \A s \in Request : s # r => fetched'[s] = fetched[s]
    BY <2>1, <2>2, <1>t DEF Typed
  <2>7. acted[r] = 1 /\ heard[r] \in Performed /\ heard[r].body \notin Sentences
    BY <2>1, <1>t DEF Sound, Performed, Sentences
  <2>8. Final(r)'
    <3>1. Honest(OK, 1, tries'[r], heard[r])
      BY <2>4, <2>7 DEF Honest
    <3>2. Whole(ShowText(body), body)
      BY <2>3 DEF Whole
    <3> QED
      BY <2>1, <2>5, <2>6, <2>7, <3>1, <3>2 DEF Final
  <2>9. Sound(r)' /\ Typed' /\ Only(r)
    BY <2>1, <2>5, <2>6, <2>8, <1>t DEF Sound, Typed, Only, TypeOK
  <2> QED
    BY <2>1, <2>5, <2>9, <1>t, StepOfOne DEF TypeOK
<1>6. ASSUME NEW r \in Request, FetchFails(r) PROVE GatewayInv'
  <2>1. PICK type \in {"unreachable", "bkn_error"} :
          Reply(r, WriteAPIErr(Err(502, type, "own")), Nothing)
    BY <1>6 DEF FetchFails
  <2>2. pc[r] = "fetch" /\ UNCHANGED <<file, tries, acted, heard, fetched>>
    BY <1>6 DEF FetchFails
  <2> DEFINE w == Err(502, type, "own")
  <2>3. WriteAPIErr(w) = w
    BY DEF WriteAPIErr, Unauthorized, Err
  <2>4. w \in Errors /\ w.status = 502
    BY DEF Err, Errors, ErrorTypes
  <2>5. Reply(r, w, Nothing)
    BY <2>1, <2>3
  <2> HIDE DEF w
  <2>6. /\ answers' \in [Request -> Seq(Entries)] /\ Len(answers'[r]) = 1
        /\ Answer(r)' = w /\ Shown(r)' = Nothing
        /\ pc' = [pc EXCEPT ![r] = "done"] /\ req' = req
        /\ \A s \in Request : s # r => answers'[s] = answers[s]
    BY <2>2, <2>4, <2>5, OneReply, NothingIsAView
  <2>7. acted[r] = 1 /\ heard[r].body \notin Sentences
    BY <2>2, <1>t DEF Sound, Performed, Sentences
  <2>8. Final(r)'
    <3>1. Honest(w, 1, tries'[r], heard[r])
      BY <2>4, <2>7 DEF Honest
    <3> QED
      BY <2>2, <2>6, <2>7, <3>1 DEF Final, Whole, Nothing
  <2>9. Sound(r)' /\ Typed' /\ Only(r)
    BY <2>2, <2>6, <2>8, <1>t DEF Sound, Typed, Only, TypeOK
  <2> QED
    BY <2>2, <2>6, <2>9, <1>t, StepOfOne DEF TypeOK
<1>7. ASSUME NEW r \in Request, Share(r) PROVE GatewayInv'
  <2>1. PICK a \in LinkAnswers :
          /\ heard' = [heard EXCEPT ![r] = a]
          /\ acted' = [acted EXCEPT ![r] = IF a.status = 200 THEN 1 ELSE 0]
          /\ Reply(r, SharePage(a), Nothing)
    BY <1>7 DEF Share
  <2>2. /\ pc[r] = "call" /\ req[r].kind = "share"
        /\ UNCHANGED <<file, tries, fetched>>
    BY <1>7 DEF Share
  <2> DEFINE w == SharePage(a)
  <2>3. /\ w.status < 400 => a.status = 200
        /\ w.status \in 400..499 => a.status # 200
    BY PageOfLink
  <2>4. w \in Errors
    BY PageOfLink
  <2>5. Reply(r, w, Nothing)
    BY <2>1
  <2> HIDE DEF w
  <2>6. /\ answers' \in [Request -> Seq(Entries)] /\ Len(answers'[r]) = 1
        /\ Answer(r)' = w /\ Shown(r)' = Nothing
        /\ pc' = [pc EXCEPT ![r] = "done"] /\ req' = req
        /\ \A s \in Request : s # r => answers'[s] = answers[s]
    BY <2>2, <2>4, <2>5, OneReply, NothingIsAView
  <2>7. /\ heard' \in [Request -> BknAnswers \cup LinkAnswers]
        /\ \A s \in Request : s # r => heard'[s] = heard[s]
    BY <2>1, <1>t DEF Typed
  <2>8. /\ acted'[r] = IF a.status = 200 THEN 1 ELSE 0
        /\ acted' \in [Request -> Nat] /\ \A s \in Request : s # r => acted'[s] = acted[s]
    BY <2>1, <1>t DEF TypeOK
  <2>9. tries'[r] = 0
    BY <2>2, <1>t DEF Sound
  <2>10. Final(r)'
    <3>1. w.status \in Nat
      BY <2>4 DEF Errors
    <3>2. Honest(w, acted'[r], 0, heard'[r])
      BY <2>3, <2>8, <3>1 DEF Honest
    <3> QED
      BY <2>6, <2>9, <3>2 DEF Final, Whole, Nothing
  <2>11. Sound(r)' /\ Typed' /\ Only(r)
    BY <2>2, <2>6, <2>7, <2>8, <2>9, <2>10, <1>t DEF Sound, Typed, Only, TypeOK
  <2> QED
    BY <2>2, <2>6, <2>8, <2>11, <1>t, StepOfOne DEF TypeOK
<1>8. CASE UNCHANGED vars
  BY <1>8, <1>t DEF vars, handler, GatewayInv, TypeOK, Typed, Sound, Final, Answer, Shown, Done
<1> QED
  BY <1>1, <1>2, <1>3, <1>4, <1>5, <1>6, <1>7, <1>8 DEF Next

LEMMA GatewayInvHolds == Spec => []GatewayInv
BY InitGatewayInv, NextGatewayInv, PTL DEF Spec

-----------------------------------------------------------------------------
\* Every reachable state of the handlers is well typed; in particular a handler
\* writes one answer, and only when it is done (api.go:80-139).
THEOREM GatewayTypeCorrect == Spec => []TypeOK
<1>1. GatewayInv => TypeOK
  BY DEF GatewayInv
<1> QED
  BY <1>1, GatewayInvHolds, PTL

\* bkn does what one request asks at most once (api.go:86-137).
THEOREM BknActsOnce == Spec => []ActsOnce
<1>1. GatewayInv => ActsOnce
  <2> SUFFICES ASSUME GatewayInv, NEW r \in Request PROVE acted[r] <= 1
    BY DEF ActsOnce
  <2>1. Sound(r) /\ pc[r] \in {"arrived", "call", "fetch", "done"}
    BY DEF GatewayInv, TypeOK
  <2> QED
    BY <2>1 DEF Sound, Final, Honest
<1> QED
  BY <1>1, GatewayInvHolds, PTL

\* An answer that the browser takes for a success comes only if bkn did the thing
\* (api.go:58-63).
THEOREM SuccessIsNeverInvented == Spec => []SuccessIsReal
<1>1. GatewayInv => SuccessIsReal
  BY DEF GatewayInv, Sound, Final, Honest, SuccessIsReal, Done
<1> QED
  BY <1>1, GatewayInvHolds, PTL

\* Of a refusal in any of bkn's shapes its own sentence reaches the user
\* (bkn.go:139-195).
THEOREM BknIsQuoted == Spec => []SaysWhatBknSaid
<1>1. GatewayInv => SaysWhatBknSaid
  BY DEF GatewayInv, Sound, Final, Honest, SaysWhatBknSaid, Done
<1> QED
  BY <1>1, GatewayInvHolds, PTL

\* An error that invites a second attempt means that bkn did nothing, but for a
\* success whose body was lost to its last byte (bkn.go:105-112, 222).
THEOREM RecoverableErrorsDidNothing == Spec => []RecoverableMeansUndone
<1>1. GatewayInv => RecoverableMeansUndone
  BY DEF GatewayInv, Sound, Final, Honest, RecoverableMeansUndone, Done
<1> QED
  BY <1>1, GatewayInvHolds, PTL

\* A preview's text is text, within the limit and a byte, and all that was answered
\* unless marked truncated (preview.go:102-127).
THEOREM PreviewsAreWhole == Spec => []PreviewIsWhole
<1>1. GatewayInv => PreviewIsWhole
  BY DEF GatewayInv, Sound, Final, Whole, PreviewIsWhole, Done
<1> QED
  BY <1>1, GatewayInvHolds, PTL

-----------------------------------------------------------------------------
(* The one way to show a text that the file never held.                    *)

\* The second fetch of a preview finds the file gone, and reads an error page.
FetchesNothing == \E r \in Request : Fetch(r) /\ file = Absent

\* A preview that waits for its second fetch has seen the file as it is; one that
\* was answered shows what it has seen.
SeenText(r) == Shown(r).kind = "text" => Shown(r).truncated \/ Shown(r).text \in was[r]

Seen(r) ==
    /\ pc[r] = "fetch" => Previewing(r) /\ file \in was[r]
    /\ Done(r) => SeenText(r)

SeenInv == \A r \in Request : Seen(r)

\* A step that answers nobody but r, leaves the file alone and forgets nothing.
LEMMA OthersHaveSeen ==
  ASSUME SeenInv, NEW r \in Request, Only(r), Seen(r)', file' = file, was' = was
  PROVE  SeenInv'
<1> SUFFICES ASSUME NEW s \in Request, s # r PROVE Seen(s)'
  BY DEF SeenInv
<1>1. Seen(s)
  BY DEF SeenInv
<1>2. pc'[s] = pc[s] /\ req' = req /\ Shown(s)' = Shown(s)
  BY DEF Only, Shown
<1> QED
  BY <1>1, <1>2 DEF Seen, SeenText, Previewing, Done

\* An answer without a text.
LEMMA SeenWithoutText ==
  ASSUME GatewayInv, SeenInv, NEW r \in Request, pc[r] # "done",
         NEW e \in Errors, NEW v \in Views, v.kind # "text", Reply(r, e, v),
         file' = file, was' = was, UNCHANGED <<tries, acted, fetched>>,
         \A s \in Request : s # r => heard'[s] = heard[s]
  PROVE  SeenInv'
<1>1. /\ Shown(r)' = v /\ pc' = [pc EXCEPT ![r] = "done"] /\ req' = req
      /\ \A s \in Request : s # r => answers'[s] = answers[s]
  BY OneReply
<1>2. pc \in [Request -> {"arrived", "call", "fetch", "done"}]
  BY DEF GatewayInv, TypeOK
<1>3. Only(r) /\ Seen(r)'
  BY <1>1, <1>2 DEF Only, Seen, SeenText
<1> QED
  BY <1>3, OthersHaveSeen

LEMMA InitSeenInv == Init => SeenInv
BY DEF Init, SeenInv, Seen, Done

LEMMA NextSeenInv == GatewayInv /\ SeenInv /\ [Next]_vars /\ ~FetchesNothing => SeenInv'
<1> SUFFICES ASSUME GatewayInv, SeenInv, [Next]_vars, ~FetchesNothing PROVE SeenInv'
  OBVIOUS
<1>t. /\ TypeOK /\ \A r \in Request : Seen(r) /\ Sound(r)
      /\ \A r \in Request : req[r] \in Requests
  BY GatewayAssumption DEF GatewayInv, SeenInv, TypeOK
<1>v. Nothing \in Views /\ Nothing.kind # "text"
  BY NothingIsAView DEF Nothing
<1> USE DEF history, Continue
<1>1. ASSUME NEW r \in Request, RefuseForm(r) PROVE SeenInv'
  <2>1. Refused(req[r]) \in Errors
    BY DEF Refused, Err, Errors, ErrorTypes
  <2>2. /\ Reply(r, Refused(req[r]), Nothing) /\ pc[r] # "done"
        /\ file' = file /\ was' = was /\ heard' = heard /\ UNCHANGED <<tries, acted, fetched>>
    BY <1>1 DEF RefuseForm
  <2> QED
    BY <2>1, <2>2, <1>v, SeenWithoutText
<1>2. ASSUME NEW r \in Request, Accept(r) PROVE SeenInv'
  <2>1. Only(r) /\ Seen(r)' /\ file' = file /\ was' = was
    BY <1>2, <1>t DEF Accept, Only, Seen, Done, TypeOK
  <2> QED
    BY <2>1, OthersHaveSeen
<1>3. ASSUME NEW r \in Request, SignedOut(r) PROVE SeenInv'
  <2>1. WriteAPIErr(Unauthorized) \in Errors
    BY DEF WriteAPIErr, Err, Errors, ErrorTypes
  <2>2. /\ Reply(r, WriteAPIErr(Unauthorized), Nothing) /\ pc[r] # "done"
        /\ file' = file /\ was' = was /\ heard' = heard /\ UNCHANGED <<tries, acted, fetched>>
    BY <1>3 DEF SignedOut
  <2> QED
    BY <2>1, <2>2, <1>v, SeenWithoutText
<1>4. ASSUME NEW r \in Request, Call(r) PROVE SeenInv'
  <2>1. PICK act \in BOOLEAN, a \in BknAnswers :
          LET e == Outcome(req[r].kind, a)
          IN  /\ Acts(r, act, a)
              /\ heard' = [heard EXCEPT ![r] = a]
              /\ \/ Again(r, e) /\ Continue(r, "call")
                 \/ ~Again(r, e) /\ e # OK /\ Reply(r, WriteAPIErr(e), Nothing)
                 \/ e = OK /\ Fetches(r) /\ Continue(r, "fetch")
                 \/ e = OK /\ ~Fetches(r) /\ Reply(r, OK, Unfetched(r))
    BY <1>4 DEF Call
  <2> DEFINE e == Outcome(req[r].kind, a)
  <2>2. /\ \/ Continue(r, "call")
           \/ e # OK /\ Reply(r, WriteAPIErr(e), Nothing)
           \/ Fetches(r) /\ Continue(r, "fetch")
           \/ Reply(r, OK, Unfetched(r))
        /\ Acts(r, act, a) /\ pc[r] = "call"
    BY <2>1, <1>4 DEF Call
  <2>3. \A s \in Request :
          was'[s] = IF Previewing(s) /\ (s = r \/ pc[s] = "fetch")
                    THEN was[s] \cup {file'} ELSE was[s]
    BY <2>2 DEF Acts
  <2>4. req[r].kind = "upload" => a \notin Failed
    BY <2>2 DEF Acts, Performed, Lost, Failed
  <2> HIDE DEF e
  <2>5. req' = req /\ \A s \in Request : s # r => pc'[s] = pc[s] /\ answers'[s] = answers[s]
    BY <2>2, <1>t DEF Reply, TypeOK, GatewayInv, Typed
  <2>6. ASSUME NEW s \in Request, s # r PROVE Seen(s)'
    <3>1. Seen(s) /\ pc'[s] = pc[s] /\ Shown(s)' = Shown(s) /\ was[s] \subseteq was'[s]
      BY <2>3, <2>5, <2>6, <1>t DEF Shown
    <3>2. CASE pc[s] = "fetch"
      <4>1. Previewing(s) /\ file' \in was'[s]
        BY <2>3, <3>1, <3>2 DEF Seen
      <4> QED
        BY <2>5, <3>1, <3>2, <4>1 DEF Seen, Previewing, Done
    <3>3. CASE pc[s] # "fetch"
      BY <3>1, <3>3 DEF Seen, SeenText, Done
    <3> QED
      BY <3>2, <3>3
  <2>7. Seen(r)'
    <3>1. CASE Continue(r, "call")
      BY <3>1, <1>t DEF Seen, Done, TypeOK
    <3>2. CASE e # OK /\ Reply(r, WriteAPIErr(e), Nothing)
      <4>1. WriteAPIErr(e) \in Errors
        BY <2>4, <3>2, WrittenError DEF e
      <4>2. Shown(r)' = Nothing /\ pc' = [pc EXCEPT ![r] = "done"]
        BY <2>2, <3>2, <4>1, <1>v, OneReply
      <4> QED
        BY <4>2, <1>v, <1>t DEF Seen, SeenText, TypeOK
    <3>3. CASE Fetches(r) /\ Continue(r, "fetch")
      <4>1. Previewing(r) /\ pc'[r] = "fetch"
        BY <3>3, <1>t DEF Fetches, TypeOK
      <4> QED
        BY <2>3, <2>5, <4>1 DEF Seen, Previewing, Done
    <3>4. CASE Reply(r, OK, Unfetched(r))
      <4>1. OK \in Errors /\ Unfetched(r) \in Views /\ Unfetched(r).kind # "text"
        BY <1>t, UnfetchedIsNoText DEF OK, Err, Errors, ErrorTypes
      <4>2. Shown(r)' = Unfetched(r) /\ pc' = [pc EXCEPT ![r] = "done"]
        BY <2>2, <3>4, <4>1, OneReply
      <4> QED
        BY <4>1, <4>2, <1>t DEF Seen, SeenText, TypeOK
    <3> QED
      BY <2>2, <3>1, <3>2, <3>3, <3>4
  <2> QED
    BY <2>6, <2>7 DEF SeenInv
<1>5. ASSUME NEW r \in Request, Fetch(r) PROVE SeenInv'
  <2>1. file # Absent
    BY <1>5 DEF FetchesNothing
  <2>2. /\ pc[r] = "fetch" /\ Reply(r, OK, ShowText(file))
        /\ UNCHANGED <<file, tries, acted, heard, was>>
        /\ fetched' = [fetched EXCEPT ![r] = file]
    BY <1>5, <2>1 DEF Fetch
  <2>3. file \in Seq(Byte)
    BY <2>1, <1>t, GatewayAssumption DEF TypeOK
  <2>4. /\ ShowText(file) \in Views
        /\ ShowText(file).kind = "text" =>
               ShowText(file).truncated \/ ShowText(file).text = file
    BY <2>3, ShownText
  <2>5. OK \in Errors
    BY DEF OK, Err, Errors, ErrorTypes
  <2>6. /\ Shown(r)' = ShowText(file) /\ pc' = [pc EXCEPT ![r] = "done"] /\ req' = req
        /\ \A s \in Request : s # r => answers'[s] = answers[s]
    BY <2>2, <2>4, <2>5, OneReply
  <2>7. file \in was[r] /\ was' = was
    BY <2>2, <1>t DEF Seen
  <2>8. Seen(r)'
    BY <2>4, <2>6, <2>7, <1>t DEF Seen, SeenText, TypeOK
  <2>9. Only(r)
    BY <2>2, <2>6, <1>t DEF Only, TypeOK, GatewayInv, Typed
  <2> QED
    BY <2>2, <2>8, <2>9, OthersHaveSeen
<1>6. ASSUME NEW r \in Request, FetchFails(r) PROVE SeenInv'
  <2>1. PICK type \in {"unreachable", "bkn_error"} :
          Reply(r, WriteAPIErr(Err(502, type, "own")), Nothing)
    BY <1>6 DEF FetchFails
  <2>2. WriteAPIErr(Err(502, type, "own")) \in Errors
    BY DEF WriteAPIErr, Unauthorized, Err, Errors, ErrorTypes
  <2>3. /\ pc[r] # "done" /\ file' = file /\ was' = was /\ heard' = heard
        /\ UNCHANGED <<tries, acted, fetched>>
    BY <1>6 DEF FetchFails
  <2> QED
    BY <2>1, <2>2, <2>3, <1>v, SeenWithoutText
<1>7. ASSUME NEW r \in Request, Share(r) PROVE SeenInv'
  <2>1. PICK a \in LinkAnswers :
          heard' = [heard EXCEPT ![r] = a] /\ Reply(r, SharePage(a), Nothing)
    BY <1>7 DEF Share
  <2>2. /\ pc[r] = "call" /\ was' = was
        /\ acted' = [acted EXCEPT ![r] = acted'[r]]
        /\ UNCHANGED <<file, tries, fetched>>
    BY <1>7, <1>t DEF Share, TypeOK
  <2>3. SharePage(a) \in Errors
    BY PageOfLink
  <2>4. /\ Shown(r)' = Nothing /\ pc' = [pc EXCEPT ![r] = "done"] /\ req' = req
        /\ \A s \in Request : s # r => answers'[s] = answers[s]
    BY <2>1, <2>2, <2>3, <1>v, OneReply
  <2>5. Only(r) /\ Seen(r)'
    BY <2>1, <2>2, <2>4, <1>t, <1>v DEF Only, Seen, SeenText, TypeOK, GatewayInv, Typed
  <2> QED
    BY <2>2, <2>5, OthersHaveSeen
<1>8. CASE UNCHANGED vars
  BY <1>8, <1>t DEF vars, handler, SeenInv, Seen, SeenText, Shown, Done, Previewing
<1> QED
  BY <1>1, <1>2, <1>3, <1>4, <1>5, <1>6, <1>7, <1>8 DEF Next

\* A text that is shown in full is one the file had while the preview was made,
\* however it is overwritten meanwhile, as long as no second fetch finds the file
\* gone: the status that nothing looks at is the only cause (preview.go:102-127).
THEOREM MissingFilesAreTheCause ==
  Spec /\ [][~FetchesNothing]_vars => []ShownIsTheFile
<1>1. SeenInv => ShownIsTheFile
  BY DEF SeenInv, Seen, SeenText, ShownIsTheFile
<1>2. GatewayInv /\ SeenInv /\ [Next]_vars /\ [~FetchesNothing]_vars => SeenInv'
  <2>1. SeenInv /\ UNCHANGED vars => SeenInv'
    BY DEF vars, handler, history, SeenInv, Seen, SeenText, Shown, Done, Previewing
  <2> QED
    BY <2>1, NextSeenInv
<1> QED
  BY <1>1, <1>2, InitSeenInv, GatewayInvHolds, PTL DEF Spec
=============================================================================
