-------------------------- MODULE MCUringServer ---------------------------
(***************************************************************************)
(* Two clients: one that pipelines, closes and goes on sending, and one    *)
(* that sends a request, nothing or what cannot be decoded.                *)
(***************************************************************************)
EXTENDS UringServer

CONSTANTS a, b

Setup(x, y, r) == [script |-> (a :> x @@ b :> y), refused |-> r]
Greeting == <<"hello", "finished">>
Busy == {<<"get", "rest", "get", "rest">>, <<"last", "rest", "get">>, <<"get", "bad">>}
MCSetups ==
    {Setup(Greeting \o x, <<"bad">>, {}) : x \in Busy}
        \cup {Setup(Greeting \o <<"last", "rest", "get">>, Greeting \o <<"last", "rest">>, {}),
              Setup(<<"bad">>, Greeting, {b})}
MCSlots == <<0, 1>>
=============================================================================
