---------------------------- MODULE MCBodyDecoder ----------------------------
(***************************************************************************)
(* TLC instance of BodyDecoder, compared with the reference WholeBody.     *)
(***************************************************************************)
EXTENDS WholeBody, TLC

\* Instance.
MCField == [f \in {"T", "U", "P"} |->
              [name |-> CASE f = "T" -> "etag" [] f = "U" -> "x-undeclared"
                          [] f = "P" -> "content-length",
               list |-> << >>]]
MCHexVal == ("0" :> 0) @@ ("1" :> 1) @@ ("2" :> 2) @@ ("f" :> 15)

\* A line.
L(text) == text \o <<CR, LF>>

\* One well-formed chunk, one whose data is itself a CRLF, one with an
\* extension; then one that is closed wrongly, too long, malformed, above the
\* body limit, or above usize.
Chunks == {
    << >>, L(<<"1">>) \o L(<<"x">>), L(<<"2">>) \o L(<<CR, LF>>),
    L(<<"1", ";", "x">>) \o L(<<"0">>),
    L(<<"1">>) \o <<"x", "x", CR, LF>>,
    L(<<"1", ";", "x", "x">>) \o L(<<"x">>), L(<<"SP">>), L(<<"f">>) \o L(<<"x">>),
    L(<<"f", "f">>) }

\* Trailer lines: declared, padded, padded beyond the limit, undeclared,
\* prohibited, not UTF-8, malformed.
TrailerLines == {
    << >>, L(<<"T">>), L(<<"T", "SP">>), L(<<"T", "SP", "SP">>), L(<<"U">>),
    L(<<"P">>), L(<<"obs">>), L(<<"SP", "T">>) }

MCWires ==
    {c \o d \o L(<<"0">>) \o L(<< >>) \o <<"x">> : c \in Chunks, d \in Chunks}
    \cup {L(<<"0">>) \o t \o u \o v \o L(<< >>) \o <<"x">> :
             t \in TrailerLines, u \in TrailerLines, v \in {<< >>, L(<<"T">>)}}
    \cup {<<"x", CR, LF, "0", "x">>}
    \cup UNION {[1..n -> {CR, LF, "0", "1"}] : n \in 0..5}

\* Announced trailers matter in the chunked framing only, and the content of
\* the wire in no other.
MCInit ==
    /\ BodyInit
    /\ IF phase = "BodyChunkedSize"
         THEN declared_trailers \in {{}, {"etag", "content-length"}}
         ELSE declared_trailers = {} /\ wire = <<"x", CR, LF, "0", "x">>

MCSpec == MCInit /\ [][BodyNext]_bodyVars
=============================================================================
