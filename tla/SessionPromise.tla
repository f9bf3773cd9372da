---------------------------- MODULE SessionPromise ----------------------------
(***************************************************************************)
(* What bkn-drive promises of a session, without requests, locks or files: *)
(* it begins once, with the tokens its sign-in obtained; a renewal replaces*)
(* the access token, and the refresh token with it or not at all; once     *)
(* over it is over.  Restarts of the server are not visible here.          *)
(***************************************************************************)

CONSTANTS Login, Call, None

VARIABLES
    status,    \* of each session: "none", "active" or "over"
    access,    \* its tokens while it is active
    refresh

promised == <<status, access, refresh>>

Init ==
    /\ status = [s \in Login |-> "none"]
    /\ access = [s \in Login |-> None]
    /\ refresh = [s \in Login |-> None]

Begin(s) ==
    /\ status[s] = "none"
    /\ status' = [status EXCEPT ![s] = "active"]
    /\ access' = [access EXCEPT ![s] = s]
    /\ \E t \in {s, None} : refresh' = [refresh EXCEPT ![s] = t]

\* Request c, and no other session's, obtained the new tokens.
Renew(s, c) ==
    /\ status[s] = "active" /\ refresh[s] # None
    /\ \A o \in Login : c \notin {access[o], refresh[o]}
    /\ access' = [access EXCEPT ![s] = c]
    /\ \E t \in {c, refresh[s]} : refresh' = [refresh EXCEPT ![s] = t]
    /\ UNCHANGED status

\* A sweep, an exit or a restart can end several sessions at once.
End(S) ==
    /\ \A s \in S : status[s] = "active"
    /\ status' = [s \in Login |-> IF s \in S THEN "over" ELSE status[s]]
    /\ access' = [s \in Login |-> IF s \in S THEN None ELSE access[s]]
    /\ refresh' = [s \in Login |-> IF s \in S THEN None ELSE refresh[s]]

Next ==
    \/ \E s \in Login : Begin(s) \/ \E c \in Call : Renew(s, c)
    \/ \E S \in SUBSET Login : End(S)

Spec == Init /\ [][Next]_promised

=============================================================================
