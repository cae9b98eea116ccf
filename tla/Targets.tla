------------------------------- MODULE Targets -------------------------------
(***************************************************************************)
(* Request targets and the Host field, on both sides: what the encoder     *)
(* (src/src/encoder.rs) accepts for sending and what the decoder           *)
(* (src/src/decoder/body.rs) accepts from the wire.                        *)
(***************************************************************************)
EXTENDS Hosts

SchemeMark == <<":", "/", "/">>

\* contains("://"): where it starts, 0 if it does not occur.
FindMark(s) ==
    LET at == {i \in DOMAIN s : StartsWith(Drop(s, i - 1), SchemeMark)}
    IN  IF at = {} THEN 0 ELSE CHOOSE i \in at : \A j \in at : i <= j

\* is_valid_request_target of validate.rs; %00 is refused too.
IsRequestTarget(s) ==
    /\ s # << >>
    /\ ~Holds(s, {"SP", "HT", "DQUOTE", "#", "<", ">", "BSLASH", "^", "BQUOTE", "{", "|", "}"} \cup Controls)
    /\ EscapesOk(s)
    /\ \A i \in DOMAIN s : s[i] = "%" => ~(s[i + 1] = "0" /\ s[i + 2] = "0")

\* The authority after "://", up to "/" or "?", and without its userinfo.
AuthorityOf(s) == Before(Drop(s, FindMark(s) + 2), {"/", "?"})
WithoutUserinfo(a) == Drop(a, RFind(a, {"@"}))
IsHttp(scheme) == SameIgnoringCase(scheme, <<"http">>) \/ SameIgnoringCase(scheme, <<"https">>)

-----------------------------------------------------------------------------
\* The decoder.

\* validate_authority_form: uri-host ":" port.
DecoderAuthorityForm(s) ==
    LET colon == RFind(s, {":"})
    IN  /\ colon > 1 /\ ParsePort(Drop(s, colon)) # {}
        /\ ParseHost(Take(s, colon - 1)) # {}

\* validate_ipv6_brackets: never more "]" than "[", and equally many in all.
BracketsMatch(s) ==
    LET Count(n, c) == Cardinality({i \in 1..n : s[i] = c})
    IN  /\ \A n \in DOMAIN s : Count(n, "]") <= Count(n, "[")
        /\ Count(Len(s), "]") = Count(Len(s), "[")

\* validate_path_chars and validate_query_chars.
PathAndQueryOk(s) ==
    /\ PercentScan(Before(s, {"?"}), PathMarks)
    /\ PercentScan(After(s, {"?"}), QueryMarks)

\* validate_absolute_form and validate_absolute_uri_parts.
DecoderAbsoluteForm(s) ==
    LET colon == DetectScheme(s)
        rest == Drop(s, colon)
        slashes == StartsWith(rest, <<"/", "/">>)
        authority == Before(Drop(rest, 2), {"/", "?"})
    IN  /\ colon > 0 /\ ~Holds(s, {"#"}) /\ BracketsMatch(s)
        /\ slashes => PercentScan(authority, AuthorityMarks)
        /\ PathAndQueryOk(IF slashes THEN Drop(rest, 2 + Len(authority)) ELSE rest)
        /\ IsHttp(Take(s, colon - 1)) =>
             /\ slashes /\ ~Holds(authority, {"@"})
             /\ authority # << >> /\ authority[1] # ":"

\* parse_request_target_form: the form, or "error".
DecoderForm(s) ==
    CASE s = << >> -> "error"
      [] s = <<"*">> -> "asterisk"
      [] StartsWith(s, <<"/">>) -> IF PathAndQueryOk(s) THEN "origin" ELSE "error"
      [] OTHER ->
           IF FindMark(s) = 0 /\ DecoderAuthorityForm(s) THEN "authority"
           ELSE IF DecoderAbsoluteForm(s) THEN "absolute" ELSE "error"

\* validate_request_target_for_method.
MethodAllows(method, form) ==
    CASE form = "authority" -> method = "CONNECT"
      [] form = "asterisk" -> method = "OPTIONS"
      [] form \in {"origin", "absolute"} -> method # "CONNECT"
      [] OTHER -> FALSE

\* The Host rule of decode_headers, for an HTTP/1.1 request with one field.
DecoderHostOk(host) == host = << >> \/ ParseHost(host) # {}

\* Both decoders of a request line refuse a target that is not ASCII.
DecoderAccepts(method, s, host) ==
    IsRequestTarget(s) /\ ~Holds(s, {"OBS"}) /\ MethodAllows(method, DecoderForm(s)) /\ DecoderHostOk(host)

-----------------------------------------------------------------------------
\* The encoder.

\* looks_like_authority_form.
LooksLikeAuthority(s) ==
    /\ ~Holds(s, {"@"})
    /\ RFind(s, {":"}) > 1 /\ ParsePort(Drop(s, RFind(s, {":"}))) # {}

\* detect_request_target_form.
EncoderForm(s) ==
    CASE s = <<"*">> -> "asterisk"
      [] s # <<"*">> /\ FindMark(s) > 0 -> "absolute"
      [] s # <<"*">> /\ FindMark(s) = 0 /\ StartsWith(s, <<"/">>) -> "origin"
      [] OTHER -> IF LooksLikeAuthority(s) THEN "authority"
                  ELSE IF DetectScheme(s) > 0 THEN "absolute" ELSE "error"

\* validate_request_target_form, with reject_http_without_authority_prefix.
EncoderTargetOk(method, s) ==
    LET form == EncoderForm(s)
        colon == Find(s, {":"})
    IN  /\ MethodAllows(method, form)
        /\ form = "authority" => ParseHost(Take(s, RFind(s, {":"}) - 1)) # {}
        /\ form = "origin" => ~Holds(s, {"[", "]"})
        /\ form = "absolute" /\ colon > 0 /\ IsHttp(Take(s, colon - 1)) =>
              StartsWith(Drop(s, colon - 1), SchemeMark)

\* reject_http_userinfo and reject_http_empty_host.
HttpAuthorityOk(s) ==
    FindMark(s) > 0 /\ IsHttp(Take(s, FindMark(s) - 1)) =>
        LET a == AuthorityOf(s)
        IN  /\ ~Holds(a, {"@"})
            /\ a # << >> /\ a[1] # ":"

\* validate_host_header, for an HTTP/1.1 request with one Host field.
EncoderHostOk(method, s, host) ==
    LET authority == WithoutUserinfo(AuthorityOf(s))
        colon == RFind(s, {":"})
        connect == method = "CONNECT" /\ colon > 0
    IN  /\ host = << >> \/ ParseHost(host) # {}
        /\ FindMark(s) > 0 /\ authority # << >> => SameIgnoringCase(authority, host)
        /\ connect => host # << >>
        /\ connect => \A h \in ParseHost(host) :
              /\ SameIgnoringCase(h.host, Take(s, colon - 1))
              /\ \A p \in h.port, q \in ParseU16(Drop(s, colon)) : p = q
        /\ EncoderForm(s) = "absolute" /\ FindMark(s) = 0 => host = << >>

\* encode_request and encode_request_headers, as far as the request line and
\* Host are concerned; a non-ASCII target is refused.
EncoderAccepts(method, s, host) ==
    /\ IsRequestTarget(s) /\ ~Holds(s, {"OBS"})
    /\ EncoderTargetOk(method, s) /\ HttpAuthorityOk(s)
    /\ EncoderHostOk(method, s, host)
=============================================================================
