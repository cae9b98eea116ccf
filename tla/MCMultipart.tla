---------------------------- MODULE MCMultipart ----------------------------
(***************************************************************************)
(* Inputs for the multipart parser: what the builder builds, and inputs    *)
(* that are malformed, padded, broken off or full of things that look like *)
(* a delimiter.                                                            *)
(***************************************************************************)
EXTENDS Multipart

P(header, body) == [header |-> header, body |-> body]

Built(ps) == [wire |-> Build(ps), built |-> ps]
Raw(w) == [wire |-> w, built |-> << >>]

CD == <<"cd">> \o CRLF
Blanks == <<" ">>

\* Bodies that begin like a delimiter, or end with a piece of one.
Bodies == {<< >>, <<"x">>, <<"CR", "LF", "-">>, <<"CR">>, <<"CR", "LF", "-", "-", "x">>}

Good ==
    {Built(<<P(<<"cd">>, b)>>) : b \in Bodies}
      \cup {Built(<<P(<<"cd", "other">>, a), P(<<"cd">>, <<"x">>)>>) : a \in {<< >>, <<"CR", "LF", "-">>}}

Ends == {DashDash, CRLF, Blanks \o DashDash, Blanks \o CRLF, <<"x", "x">>, <<"-", "x">>, << >>}

Others ==
    {Raw(first_delimiter \o e \o CD \o CRLF \o <<"x">> \o inner_delimiter \o f) :
        e \in {CRLF, Blanks \o CRLF}, f \in Ends}
      \cup {Raw(<<"-", "x">> \o first_delimiter \o e) : e \in Ends}
      \cup {Raw(first_delimiter \o CRLF \o h \o CRLF \o CRLF \o inner_delimiter \o DashDash) :
              h \in {<<"noname">>, <<"attachment">>, <<"cd", "CR", "LF", "garbled">>, <<"other">>,
                    <<"cd", "CR", "LF", "binary">>}}
      \cup {Raw(<<"-", "-", "-", "b">>)}

MCInputs == Good \cup Others
=============================================================================
