------------------------------ MODULE MCSignIn ------------------------------
(***************************************************************************)
(* Instance of SignIn for TLC: one host h that signs in under two          *)
(* spellings of an account, claims another address, guesses the key of the *)
(* auto-login link, through the proxy or past it, and the machine itself.  *)
(***************************************************************************)
EXTENDS SignIn, TLC

CONSTANTS lo, h, x, low, upper

MCAddress == {lo, h, x}
MCEmail   == {low, upper}
MCFold    == [e \in MCEmail |-> low]
MCClaims  == {<<>>, <<x>>}
MCLimit   == [loginByIP |-> 2, loginByAccount |-> 1, apiByIP |-> 1]

\* A request of the given kind through the proxy or past it, or from the machine itself.
Proxied(kind, claim, email, key) ==
    [kind |-> kind, caller |-> h, direct |-> FALSE, claim |-> claim,
     email |-> email, key |-> key]
Direct(kind, claim) == [Proxied(kind, claim, low, FALSE) EXCEPT !.direct = TRUE]
LocalReset(direct) ==
    [kind |-> "reset", caller |-> lo, direct |-> direct, claim |-> <<>>,
     email |-> low, key |-> FALSE]

MCArrivals ==
    {Proxied("login", <<>>, low, FALSE), Proxied("login", <<x>>, upper, FALSE)}
    \cup {Proxied("auto", <<>>, low, k) : k \in BOOLEAN}
    \cup {Proxied(kind, <<x>>, low, FALSE) : kind \in {"share", "api"}}
    \cup {Direct("share", <<x>>), Direct("reset", <<>>)}
    \cup {LocalReset(d) : d \in BOOLEAN}

\* An environment fit for auto-login, and those that differ from it in one part.
Fit == [email |-> TRUE, file |-> "private", key |-> "long"]
MCEnvironments ==
    {Fit, [Fit EXCEPT !.email = FALSE], [Fit EXCEPT !.key = "short"]}
    \cup {[Fit EXCEPT !.file = f] :
            f \in {"unset", "unreadable", "shared", "empty", "vanished"}}

\* Only auto-login links depend on the environment: the others than Fit meet links
\* alone, which may be as many as use up the budget of their address.
MCInit == Init /\ (config = Fit \/ \A r \in Request : req[r].kind = "auto")
MCSpec == MCInit /\ [][Next]_vars

Symmetry == Permutations(Request)
=============================================================================
