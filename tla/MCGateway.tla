----------------------------- MODULE MCGateway ------------------------------
(***************************************************************************)
(* Instance of Gateway for TLC: two requests of any kind on one file whose *)
(* content is within the preview's limit of two bytes, over it, over it    *)
(* with a character at the cut, or no text.                                *)
(***************************************************************************)
EXTENDS Gateway, TLC

MCContents == {<<"lead", "cont">>, <<"plain", "plain", "plain", "plain">>,
               <<"plain", "plain", "lead", "cont">>, <<"bad">>}
MCErrorPage == <<"plain", "plain">>
Symmetry == Permutations(Request)

\* A request of the given kind; what its kind does not read is fixed.
Of(kind, form, ext, type, content) ==
    [kind |-> kind, form |-> form, ext |-> ext, type |-> type, content |-> content]

MCArrivals ==
    {Of(k, f, "text", "text", <<"bad">>) :
        k \in {"op", "download", "share"}, f \in {"good", "bad"}}
    \cup {Of("upload", "good", "text", "text", c) : c \in MCContents}
    \cup {Of("upload", f, "text", "text", <<"bad">>) : f \in {"bad", "large"}}
    \cup {Of("preview", "good", e, t, <<"bad">>) :
            e \in {"text", "media", "unknown"}, t \in {"text", "media", "unknown"}}
    \cup {Of("preview", "bad", "text", "text", <<"bad">>)}
=============================================================================
