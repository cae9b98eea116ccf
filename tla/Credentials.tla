----------------------------- MODULE Credentials -----------------------------
(***************************************************************************)
(* The credentials and challenges of src/src/auth.rs, and the base64       *)
(* coding of src/src/base64.rs that Basic credentials use.                 *)
(***************************************************************************)
EXTENDS Parameters

CONSTANT MaxAuthParams      \* MAX_AUTH_PARAMS

\* BASE64_ALPHABET and the value of its characters.
Base64Alphabet ==
    UpperLetters \o LowerLetters \o <<"0", "1", "2", "3", "4", "5", "6", "7", "8", "9", "+", "/">>
Base64Value == [c \in Range(Base64Alphabet) |->
    (CHOOSE i \in 1..64 : Base64Alphabet[i] = c) - 1]

\* One turn of encode: up to three bytes become four characters.
Base64Group(bytes) ==
    LET At(i) == IF i <= Len(bytes) THEN bytes[i] ELSE 0
        n == At(1) * 65536 + At(2) * 256 + At(3)
        Char(i) == IF i <= Len(bytes) + 1
                   THEN Base64Alphabet[((n \div 64 ^ (4 - i)) % 64) + 1] ELSE "="
    IN  [i \in 1..4 |-> Char(i)]
Base64Encode(bytes) ==
    FlattenSeq([k \in 1..((Len(bytes) + 2) \div 3) |->
        Base64Group(SubSeq(bytes, 3 * k - 2,
                           IF 3 * k <= Len(bytes) THEN 3 * k ELSE Len(bytes)))])

\* One character of the loop of decode: six bits come in, a full byte goes out.
Base64Step(d, c) ==
    LET buf == d.buf * 64 + Base64Value[c]
        bits == d.bits + 6
    IN  IF bits < 8 THEN [d EXCEPT !.buf = buf, !.bits = bits]
        ELSE [buf |-> buf % 2 ^ (bits - 8), bits |-> bits - 8,
              bytes |-> Append(d.bytes, buf \div 2 ^ (bits - 8))]

PadCount(s) == Len(s) - RFind(s, Range(s) \ {"="})

\* decode: whitespace is ignored; the length, the padding and the bits left
\* over must be those of the one encoding of the bytes.
Base64Decode(text) ==
    LET s == SelectSeq(text, LAMBDA c : c \notin {"SP", "HT"})
        data == Take(s, Len(s) - PadCount(s))
        d == FoldLeft(Base64Step, [buf |-> 0, bits |-> 0, bytes |-> << >>], data)
    IN  IF s = << >> THEN {<< >>}
        ELSE IF \/ PadCount(s) > 2 \/ Len(s) % 4 # 0
                \/ Len(data) % 4 # (CASE PadCount(s) = 0 -> 0 [] PadCount(s) = 1 -> 3 [] OTHER -> 2)
                \/ ~AllIn(data, Range(Base64Alphabet))
        THEN {}
        ELSE IF d.buf # 0 THEN {} ELSE {d.bytes}

-----------------------------------------------------------------------------
\* strip_scheme: the scheme, whitespace, and what follows it.
StripScheme(text, scheme) ==
    LET s == TrimStart(text)
    IN  IF Len(s) > 1 /\ LowerChar(s[1]) = scheme /\ s[2] \in {"SP", "HT"}
        THEN {TrimStart(Drop(s, 1))} ELSE {}

\* One turn of the loop of parse_auth_params: an empty element, or a parameter
\* with the comma behind it.
AuthParamTurn(q) ==
    LET s == TrimStart(q.rest)
        name == Before(s, Separators)
        eq == TrimStart(Drop(s, Len(name)))
        text == TrimStart(Drop(eq, 1))
        token == Before(text, {"SP", "HT", ","})
        value == IF StartsWith(text, <<"DQUOTE">>) THEN ParseQuotedString(Drop(text, 1))
                 ELSE IF IsToken(token) THEN {[value |-> token, rest |-> Drop(text, Len(token))]}
                 ELSE {}
        Error == [q EXCEPT !.rest = << >>, !.ok = FALSE]
    IN  IF s = << >> THEN [q EXCEPT !.rest = << >>]
        ELSE IF s[1] = "," THEN [q EXCEPT !.rest = Tail(s)]
        ELSE IF name = << >> \/ ~StartsWith(eq, <<"=">>) \/ value = {} THEN Error
        ELSE LET v == CHOOSE r \in value : TRUE
                 rest == TrimStart(v.rest)
             IN  IF \/ \E i \in DOMAIN q.params : q.params[i][1] = Lower(name)
                    \/ Len(q.params) >= MaxAuthParams
                    \/ rest # << >> /\ rest[1] # ","
                 THEN Error
                 ELSE [q EXCEPT !.params = Append(@, <<Lower(name), v.value>>),
                                !.rest = Drop(rest, 1)]

\* parse_auth_params: names occur once, and there is at least one.
ParseAuthParams(s) ==
    LET q == FoldLeft(LAMBDA r, c : IF r.rest = << >> THEN r ELSE AuthParamTurn(r),
                      [rest |-> s, params |-> << >>, ok |-> TRUE], s)
    IN  IF q.ok /\ q.params # << >> THEN {q.params} ELSE {}

\* format_auth_params.
AuthParamsText(params) ==
    Join([i \in DOMAIN params |-> params[i][1] \o <<"=">> \o
            (IF NeedsQuoting(params[i][2]) THEN Quoted(params[i][2]) ELSE params[i][2])],
         <<",", "SP">>)

HasParam(params, name) == \E i \in DOMAIN params : params[i][1] = name

\* is_token68.
IsToken68(s) ==
    LET kept == Take(s, Len(s) - PadCount(s))
    IN  kept # << >> /\ \A i \in DOMAIN kept : IsUnreserved(kept[i]) \/ kept[i] \in {"+", "/"}

\* has_control_chars.
HasControls(s) == Holds(s, Controls \cup {"HT"})

-----------------------------------------------------------------------------
\* BasicAuth::new, ::parse and ::to_header_value.
NewBasic(username, password) ==
    IF Holds(username, {":"}) \/ HasControls(username) \/ HasControls(password) THEN {}
    ELSE {[username |-> username, password |-> password]}

ParseBasic(text) ==
    LET credentials == {c \in StripScheme(Trim(text), "basic") : IsToken68(c)}
        decoded == UNION {FromUtf8(b) : b \in UNION {Base64Decode(c) : c \in credentials}}
    IN  {[username |-> Before(d, {":"}), password |-> After(d, {":"})] :
           d \in {t \in decoded : Holds(t, {":"}) /\ ~HasControls(t)}}

BasicText(a) ==
    <<"Basic", "SP">> \o Base64Encode(Utf8(a.username \o <<":">> \o a.password))

\* WwwAuthenticate::parse and its Display: other parameters are dropped.
ParseBasicChallenge(text) ==
    {[realm |-> CHOOSE r \in ParameterOf(p, <<"realm">>) : TRUE, charset |-> ParameterOf(p, <<"charset">>)] :
       p \in {q \in UNION {ParseAuthParams(c) : c \in StripScheme(Trim(text), "basic")} :
                /\ HasParam(q, <<"realm">>)
                /\ \A c \in ParameterOf(q, <<"charset">>) : SameIgnoringCase(c, <<"utf-8">>)}}
BasicChallengeText(a) ==
    <<"Basic", "SP", "realm", "=">> \o Quoted(a.realm)
    \o (IF a.charset = {} THEN << >>
        ELSE <<",", "SP", "charset", "=">> \o Quoted(CHOOSE c \in a.charset : TRUE))

\* decode_username_ext_value: like parse_ext_value, but no sign and no blank.
ParseUsernameExt(s) ==
    LET rest == After(s, {"'"})
        parts == Escapes(After(rest, {"'"}))
    IN  IF \/ ~Holds(rest, {"'"}) \/ ~SameIgnoringCase(Before(s, {"'"}), <<"utf-8">>)
           \/ \E i \in DOMAIN parts : Len(parts[i]) > 1 /\ parts[i][2] = "+"
        THEN {} ELSE UNION {FromUtf8(b) : b \in ParseAll(parts, ExtCode)}

\* DigestAuth::parse: exactly one of username and username*.
ParseDigest(text) ==
    {p \in UNION {ParseAuthParams(c) : c \in StripScheme(Trim(text), "digest")} :
        /\ HasParam(p, <<"username">>) # HasParam(p, <<"username", "*">>)
        /\ \A v \in ParameterOf(p, <<"username", "*">>) : ParseUsernameExt(v) # {}
        /\ \A name \in {<<"realm">>, <<"nonce">>, <<"uri">>, <<"response">>} : HasParam(p, name)}

\* DigestAuth::username_decoded.
UsernameDecoded(params) ==
    IF HasParam(params, <<"username">>) THEN ParameterOf(params, <<"username">>)
    ELSE UNION {ParseUsernameExt(v) : v \in ParameterOf(params, <<"username", "*">>)}

\* DigestChallenge::parse, BearerChallenge::parse, BearerToken::parse.
ParseDigestChallenge(text) ==
    {p \in UNION {ParseAuthParams(c) : c \in StripScheme(Trim(text), "digest")} :
        HasParam(p, <<"realm">>) /\ HasParam(p, <<"nonce">>)}
ParseBearerChallenge(text) == UNION {ParseAuthParams(c) : c \in StripScheme(Trim(text), "bearer")}
ParseBearer(text) == {c \in StripScheme(Trim(text), "bearer") : IsToken68(c)}

\* Authorization::parse and to_header_value (Proxy-Authorization wraps it).
ParseAuthorization(text) ==
    IF StripScheme(text, "basic") # {} THEN {[basic |-> a] : a \in ParseBasic(text)}
    ELSE IF StripScheme(text, "digest") # {} THEN {[digest |-> a] : a \in ParseDigest(text)}
    ELSE {[bearer |-> a] : a \in ParseBearer(text)}
AuthorizationText(a) ==
    CASE "basic" \in DOMAIN a -> BasicText(a.basic)
      [] "digest" \in DOMAIN a -> <<"Digest", "SP">> \o AuthParamsText(a.digest)
      [] "bearer" \in DOMAIN a -> <<"Bearer", "SP">> \o a.bearer

\* AuthChallenge::parse and to_header_value (Proxy-Authenticate wraps it).
ParseAuthChallenge(text) ==
    IF StripScheme(text, "basic") # {} THEN {[basic |-> a] : a \in ParseBasicChallenge(text)}
    ELSE IF StripScheme(text, "digest") # {} THEN {[digest |-> a] : a \in ParseDigestChallenge(text)}
    ELSE {[bearer |-> a] : a \in ParseBearerChallenge(text)}
AuthChallengeText(a) ==
    CASE "basic" \in DOMAIN a -> BasicChallengeText(a.basic)
      [] "digest" \in DOMAIN a -> <<"Digest", "SP">> \o AuthParamsText(a.digest)
      [] "bearer" \in DOMAIN a -> <<"Bearer", "SP">> \o AuthParamsText(a.bearer)
=============================================================================
