------------------------------ MODULE Cookies --------------------------------
(***************************************************************************)
(* Cookie and Set-Cookie: src/src/cookie.rs.  Attribute names and the      *)
(* SameSite values are words.                                              *)
(***************************************************************************)
EXTENDS Dates

CONSTANT I64Max     \* i64::MAX

\* is_cookie_octet.
IsCookieOctet(c) == c \notin {"DQUOTE", "BSLASH", ",", ";", "SP", "HT", "OBS"} \cup Controls
IsCookieValue(s) == \A i \in DOMAIN s : IsCookieOctet(s[i])

\* parse_cookie_pair: one pair of quotes around the value is removed.
CookiePair(text) ==
    LET name == Trim(Before(text, {"="}))
        raw == Trim(After(text, {"="}))
        quoted == Len(raw) >= 2 /\ raw[1] = "DQUOTE" /\ raw[Len(raw)] = "DQUOTE"
        value == IF quoted THEN SubSeq(raw, 2, Len(raw) - 1) ELSE raw
    IN  IF Holds(text, {"="}) /\ IsToken(name) /\ IsCookieValue(value)
        THEN {[name |-> name, value |-> value]} ELSE {}

\* Cookie::parse and its Display.
ParseCookies(s) ==
    LET pairs == SelectSeq([i \in DOMAIN Split(s, ";") |-> Trim(Split(s, ";")[i])],
                           LAMBDA p : p # << >>)
    IN  IF pairs = << >> THEN {} ELSE ParseAll(pairs, CookiePair)
CookieText(c) == c.name \o <<"=">> \o c.value

-----------------------------------------------------------------------------
\* SetCookie::new, with {} for an attribute that is not set.
NewSetCookie(pair) ==
    [pair |-> pair, expires |-> {}, max_age |-> {}, domain |-> {}, path |-> {},
     flags |-> {}, same_site |-> {}]

\* The Max-Age attribute: digits, or "-" and digits, which count as 0.
ParseMaxAge(s) ==
    IF IsNumber(s) /\ Number(s) <= I64Max THEN {Number(s)}
    ELSE IF StartsWith(s, <<"-">>) /\ IsNumber(Drop(s, 1)) /\ Number(Drop(s, 1)) <= I64Max + 1
    THEN {0} ELSE {}

\* The Domain attribute: one leading dot is removed, then letters, digits,
\* hyphens and dots, and no dot in front.
ParseDomain(s) ==
    LET d == IF StartsWith(s, <<".">>) THEN Drop(s, 1) ELSE s
    IN  IF /\ d # << >> /\ d[1] # "."
           /\ \A i \in DOMAIN d : IsAlpha(d[i]) \/ d[i] \in Digits \cup {"-", "."}
        THEN {Lower(d)} ELSE {}

\* One attribute on top of those before it.  What is not understood is ignored,
\* but for SameSite, where it is an error.
Attribute(c, part, reference_year) ==
    LET name == Lower(Trim(Before(part, {"="})))
        value == Trim(After(part, {"="}))
        Set(old, new) == IF new = {} THEN old ELSE new
    IN  IF ~Holds(part, {"="})
        THEN {[c EXCEPT !.flags = @ \cup (Range(name) \cap {f \in {"secure", "httponly"} : name = <<f>>})]}
        ELSE CASE name = <<"expires">> ->
                    {[c EXCEPT !.expires = Set(@, ParseDate(value, reference_year))]}
               [] name = <<"max-age">> -> {[c EXCEPT !.max_age = Set(@, ParseMaxAge(value))]}
               [] name = <<"domain">> -> {[c EXCEPT !.domain = Set(@, ParseDomain(value))]}
               [] name = <<"path">> ->
                    {[c EXCEPT !.path = Set(@, IF StartsWith(value, <<"/">>) THEN {value} ELSE {})]}
               [] name = <<"samesite">> ->
                    {[c EXCEPT !.same_site = {w}] :
                       w \in {x \in {"strict", "lax", "none"} : Lower(value) = <<x>>}}
               [] OTHER -> {c}

\* SetCookie::parse.
ParseSetCookie(s, reference_year) ==
    LET parts == Split(s, ";")
        attributes == SelectSeq(Tail(parts), LAMBDA p : Trim(p) # << >>)
    IN  FoldLeft(LAMBDA results, p : UNION {Attribute(c, Trim(p), reference_year) : c \in results},
                 {NewSetCookie(pair) : pair \in CookiePair(Trim(parts[1]))}, attributes)

SetCookieText(c) ==
    LET Option(name, value) ==
            IF value = {} THEN << >> ELSE <<";", "SP", name, "=">> \o CHOOSE v \in value : TRUE
        Flag(name) == IF name \in c.flags THEN <<";", "SP", name>> ELSE << >>
    IN  CookieText(c.pair)
        \o Option("expires", {DateText(d) : d \in c.expires})
        \o Option("max-age", {Decimal(n) : n \in c.max_age})
        \o Option("domain", c.domain) \o Option("path", c.path)
        \o Flag("secure") \o Flag("httponly")
        \o Option("samesite", {<<w>> : w \in c.same_site})
=============================================================================
