----------------------------- MODULE Parameters ------------------------------
(***************************************************************************)
(* Values with parameters: ContentType of src/src/content_type.rs,         *)
(* ContentDisposition of content_disposition.rs and the weighted lists of  *)
(* accept.rs.  A parameter is a pair <<name, value>>.                      *)
(***************************************************************************)
EXTENDS Text

CONSTANT MaxParams      \* MAX_PARAMS of content_disposition.rs

\* parse_param_value of accept.rs and content_disposition.rs: a token, or a
\* quoted-string and nothing behind it.
ParamValue(text) ==
    LET s == Trim(text)
    IN  IF StartsWith(s, <<"DQUOTE">>)
        THEN {q.value : q \in {r \in ParseQuotedString(Drop(s, 1)) : Trim(r.rest) = << >>}}
        ELSE IF IsToken(s) THEN {s} ELSE {}

\* needs_quoting, and a parameter as Display writes it.
NeedsQuoting(s) == ~IsToken(s)
ParamText(p) ==
    <<";", "SP">> \o p[1] \o <<"=">> \o (IF NeedsQuoting(p[2]) THEN Quoted(p[2]) ELSE p[2])
ParamsText(params) == FlattenSeq([i \in DOMAIN params |-> ParamText(params[i])])

-----------------------------------------------------------------------------
\* trim_start_matches(';').trim()
SkipSemicolons(s) ==
    LET others == {i \in DOMAIN s : s[i] # ";"}
    IN  IF others = {} THEN << >> ELSE Trim(Drop(s, (CHOOSE i \in others : \A j \in others : i <= j) - 1))

\* parse_token_value: up to a semicolon or whitespace.
TokenValue(s) ==
    LET t == Before(s, {";", "SP", "HT"})
    IN  IF IsToken(t) THEN {[value |-> t, rest |-> Drop(s, Len(t))]} ELSE {}

\* One turn of the loop of parse_parameters.  Nothing asks for a semicolon
\* between a value and the next name.
ParameterTurn(q) ==
    LET rest == SkipSemicolons(q.rest)
        name == Trim(Before(rest, {"="}))
        text == Trim(After(rest, {"="}))
        value == IF StartsWith(text, <<"DQUOTE">>) THEN ParseQuotedString(Drop(text, 1))
                 ELSE TokenValue(text)
    IN  IF rest = << >> THEN [q EXCEPT !.rest = << >>]
        ELSE IF ~Holds(rest, {"="}) \/ ~IsToken(name) \/ value = {}
        THEN [q EXCEPT !.rest = << >>, !.ok = FALSE]
        ELSE LET v == CHOOSE r \in value : TRUE
             IN  [q EXCEPT !.rest = SkipSemicolons(v.rest),
                           !.params = Append(@, <<Lower(name), v.value>>)]

\* parse_parameters: every turn takes at least one character.
ParseParameters(s) ==
    LET q == FoldLeft(LAMBDA r, c : IF r.rest = << >> THEN r ELSE ParameterTurn(r),
                      [rest |-> Trim(s), params |-> << >>, ok |-> TRUE], s)
    IN  IF q.ok THEN {q.params} ELSE {}

\* parse_media_type.
MediaType(text) ==
    LET type == Trim(Before(text, {"/"}))
        subtype == Trim(After(text, {"/"}))
    IN  IF Holds(text, {"/"}) /\ IsToken(type) /\ IsToken(subtype)
        THEN {<<Lower(type), Lower(subtype)>>} ELSE {}

\* ContentType::parse.
ParseContentType(s) ==
    {[type |-> m, params |-> p] :
        m \in MediaType(Trim(Before(s, {";"}))), p \in ParseParameters(After(s, {";"}))}

ContentTypeText(ct) == ct.type[1] \o <<"/">> \o ct.type[2] \o ParamsText(ct.params)

\* ContentType::parameter: the first one with that name.
ParameterOf(params, name) ==
    LET found == {i \in DOMAIN params : params[i][1] = Lower(name)}
    IN  {params[i][2] : i \in {j \in found : \A k \in found : j <= k}}

-----------------------------------------------------------------------------
\* The encoding in UTF-8 of a text, "OBS" being a character of two bytes, and
\* the text of such bytes.
Utf8(s) == FlattenSeq([i \in DOMAIN s |-> IF s[i] = "OBS" THEN <<195, 169>> ELSE <<CodeOf[s[i]]>>])
FromUtf8(bytes) ==
    LET ends == {i \in DOMAIN bytes : bytes[i] = 169 /\ i > 1 /\ bytes[i - 1] = 195}
        starts == {i - 1 : i \in ends}
        Char(b) == IF b < 32 /\ b # CodeOf.HT THEN "CTL"
                   ELSE CHOOSE c \in DOMAIN CodeOf : CodeOf[c] = b
        kept == SelectSeq([i \in DOMAIN bytes |-> i], LAMBDA i : i \notin starts)
    IN  IF \E i \in DOMAIN bytes : bytes[i] > 127 /\ i \notin starts \cup ends THEN {}
        ELSE {[k \in DOMAIN kept |-> IF kept[k] \in ends THEN "OBS" ELSE Char(bytes[kept[k]])]}

\* attr-char of RFC 8187.
IsAttrChar(c) == IsTChar(c) /\ c \notin {"*", "'", "%"}

\* percent_decode: from_str_radix also takes a sign before one digit.
ExtCode(e) ==
    IF e[1] # "%" THEN (IF IsAttrChar(e[1]) THEN {CodeOf[e[1]]} ELSE {})
    ELSE IF Len(e) # 3 \/ e[3] \notin HexDigits THEN {}
    ELSE IF e[2] = "+" THEN {HexValOf[e[3]]}
    ELSE IF e[2] \in HexDigits THEN {16 * HexValOf[e[2]] + HexValOf[e[3]]} ELSE {}

\* parse_ext_value: charset'language'value, the charset being UTF-8.
ParseExtValue(text) ==
    LET s == Trim(text)
        rest == After(s, {"'"})
    IN  IF ~Holds(rest, {"'"}) \/ ~SameIgnoringCase(Before(s, {"'"}), <<"utf-8">>) THEN {}
        ELSE UNION {FromUtf8(b) : b \in ParseAll(Escapes(After(rest, {"'"})), ExtCode)}

\* encode_ext_value.
EncodeExtValue(s) ==
    FlattenSeq([i \in DOMAIN Utf8(s) |->
        LET b == Utf8(s)[i]
            same == {c \in DOMAIN CodeOf : CodeOf[c] = b /\ IsAttrChar(c)}
        IN  IF same # {} THEN <<CHOOSE c \in same : TRUE>>
            ELSE <<"%", HexOf(b \div 16), HexOf(b % 16)>>])

-----------------------------------------------------------------------------
\* ContentDisposition::new and what with_name, with_filename and
\* with_filename_ext set.
NewDisposition(type) ==
    [type |-> type, name |-> {}, filename |-> {}, filename_ext |-> {}, params |-> << >>]

\* One parameter, on top of those before it.
Disposition(cd, p) ==
    CASE p[1] = <<"filename", "*">> -> {[cd EXCEPT !.filename_ext = {v}] : v \in ParseExtValue(p[2])}
      [] p[1] = <<"filename">> -> {[cd EXCEPT !.filename = {v}] : v \in ParamValue(p[2])}
      [] p[1] = <<"name">> -> {[cd EXCEPT !.name = {v}] : v \in ParamValue(p[2])}
      [] OTHER -> {[cd EXCEPT !.params = Append(@, <<p[1], v>>)] : v \in ParamValue(p[2])}

\* ContentDisposition::parse: a part without "=" is ignored; a name that
\* occurs twice and too many names are errors.
ParseDisposition(text) ==
    LET parts == SplitWithQuotes(Trim(text), ";")
        type == Trim(parts[1])
        withValue == SelectSeq(Tail(parts), LAMBDA p : Holds(p, {"="}))
        params == [i \in DOMAIN withValue |->
                     <<Lower(Trim(Before(Trim(withValue[i]), {"="}))), After(withValue[i], {"="})>>]
    IN  IF \/ ~IsToken(type) \/ Len(params) > MaxParams
           \/ \E i, j \in DOMAIN params : i # j /\ params[i][1] = params[j][1]
        THEN {}
        ELSE FoldLeft(LAMBDA results, p : UNION {Disposition(cd, p) : cd \in results},
                      {NewDisposition(Lower(type))}, params)

DispositionText(cd) ==
    LET Option(name, value) ==
            IF value = {} THEN << >>
            ELSE <<";", "SP", name, "=">> \o Quoted(CHOOSE v \in value : TRUE)
    IN  cd.type \o Option("name", cd.name) \o Option("filename", cd.filename)
        \o (IF cd.filename_ext = {} THEN << >>
            ELSE <<";", "SP", "filename", "*", "=", "utf-8", "'", "'">>
                 \o EncodeExtValue(CHOOSE v \in cd.filename_ext : TRUE))
        \o FlattenSeq([i \in DOMAIN cd.params |->
             <<";", "SP">> \o cd.params[i][1] \o <<"=">> \o Quoted(cd.params[i][2])])

\* ContentDisposition::filename: the extended one is preferred.
Filename(cd) == IF cd.filename_ext # {} THEN cd.filename_ext ELSE cd.filename

-----------------------------------------------------------------------------
\* QValue::parse, in thousandths.
ParseQValue(text) ==
    LET s == Trim(text)
        digits == Drop(s, 2)
    IN  IF s \in {<<"0">>, <<"1">>} THEN {1000 * DigitVal[s[1]]}
        ELSE IF Len(s) < 2 \/ s[1] \notin {"0", "1"} \/ s[2] # "." \/ Len(digits) > 3 THEN {}
        ELSE IF s[1] = "1" THEN (IF AllIn(digits, {"0"}) THEN {1000} ELSE {})
        ELSE IF AllIn(digits, Digits) THEN {Number(digits) * 10 ^ (3 - Len(digits))} ELSE {}

\* Its Display: no zero at the end.
QValueText(q) ==
    LET frac == Padded(q, 3)
        nonzero == {i \in 1..3 : frac[i] # "0"}
    IN  IF q \in {0, 1000} THEN <<DigitOf(q \div 1000)>>
        ELSE <<"0", ".">> \o Take(frac, CHOOSE i \in nonzero : \A j \in nonzero : i >= j)
WeightText(q) == IF q < 1000 THEN <<";", "SP", "q", "=">> \o QValueText(q) ELSE << >>

\* The parts of a list element behind the first: <<name, value>>, the empty
\* ones skipped.
ElementParams(s) ==
    LET parts == SplitWithQuotes(s, ";")
        kept == SelectSeq(Tail(parts), LAMBDA p : Trim(p) # << >>)
    IN  [i \in DOMAIN kept |-> <<Lower(Trim(Before(kept[i], {"="}))), After(kept[i], {"="}),
                                 Holds(kept[i], {"="})>>]
IsWeight(p) == p[1] = <<"q">>

\* parse_media_range_item and parse_media_range: "*/x" is an error, q may occur
\* once and anywhere, the other names are taken as they are.
ParseMediaRange(s) ==
    LET params == ElementParams(s)
        weights == SelectSeq(params, IsWeight)
        others == SelectSeq(params, LAMBDA p : ~IsWeight(p))
        Pair(p) == {<<p[1], v>> : v \in ParamValue(p[2])}
        q == IF weights = << >> THEN {1000}
             ELSE UNION {ParseQValue(v) : v \in ParamValue(weights[1][2])}
    IN  IF Len(weights) > 1 \/ \E i \in DOMAIN params : ~params[i][3] THEN {}
        ELSE {[type |-> m, params |-> p, q |-> w] :
                m \in {t \in MediaType(Trim(SplitWithQuotes(s, ";")[1])) :
                         t[1] = <<"*">> => t[2] = <<"*">>},
                p \in ParseAll(others, Pair), w \in q}

MediaRangeText(r) ==
    r.type[1] \o <<"/">> \o r.type[2] \o ParamsText(r.params) \o WeightText(r.q)

\* One element of parse_weighted_tokens, or of the list of Accept-Language: no
\* parameter but q.
ParseWeightedToken(s, language) ==
    LET token == Trim(SplitWithQuotes(s, ";")[1])
        params == ElementParams(s)
        q == IF params = << >> THEN {1000} ELSE ParseQValue(params[1][2])
    IN  IF \/ token # <<"*">> /\ ~(IF language THEN IsLanguageTag(token) ELSE IsToken(token))
           \/ Len(params) > 1 \/ \E i \in DOMAIN params : ~params[i][3] \/ ~IsWeight(params[i])
        THEN {}
        ELSE {[token |-> IF language THEN token ELSE Lower(token), q |-> w] : w \in q}

\* The elements of a list that are not empty.
ListItems(text) ==
    LET parts == SplitWithQuotes(text, ",")
    IN  SelectSeq([i \in DOMAIN parts |-> Trim(parts[i])], LAMBDA p : p # << >>)

\* Accept, Accept-Charset and Accept-Encoding, Accept-Language.
ParseAccept(text) == ParseAll(ListItems(text), ParseMediaRange)
ParseAcceptEncoding(text) ==
    ParseAll(ListItems(text), LAMBDA s : ParseWeightedToken(s, FALSE))
ParseAcceptLanguage(text) ==
    ParseAll(ListItems(text), LAMBDA s : ParseWeightedToken(s, TRUE))

WeightedText(item) == item.token \o WeightText(item.q)
AcceptText(items) == Join([i \in DOMAIN items |-> MediaRangeText(items[i])], <<",", "SP">>)
WeightedListText(items) == Join([i \in DOMAIN items |-> WeightedText(items[i])], <<",", "SP">>)
=============================================================================
