-------------------------------- MODULE Uris ---------------------------------
(***************************************************************************)
(* URIs: parsing, resolution of references, normalisation and percent      *)
(* encoding of src/src/uri.rs.  A Uri is its components; the code keeps    *)
(* their offsets in the source text.  A component that may be missing is a *)
(* set with at most one element.                                           *)
(***************************************************************************)
EXTENDS Hosts

\* find_scheme_end: the position of the colon, 0 without a scheme.
FindSchemeEnd(s) ==
    LET colon == Find(s, {":"})
    IN  IF colon > 1 /\ \A i \in 1..(colon - 1) : IsSchemeChar(s[i]) THEN colon ELSE 0

\* parse_authority: the host (with an empty port's colon still at its end, as
\* host_end is then the end of the authority) and the port.
ParseAuthority(a) ==
    LET at == RFind(a, {"@"})
        part == Drop(a, at)
        close == Find(part, {"]"})
        colon == RFind(part, {":"})
        Result(h, port) == [host |-> h, port |-> port]
    IN  IF at > 0 /\ ~PercentScan(Take(a, at - 1), UserinfoMarks) THEN {}
        ELSE IF StartsWith(part, <<"[">>)
        THEN IF close = 0 \/ ~IsIpLiteral(SubSeq(part, 2, close - 1)) THEN {}
             ELSE IF close = Len(part) THEN {Result(part, {})}
             ELSE IF part[close + 1] # ":" THEN {}
             ELSE {Result(Take(part, close), {p}) : p \in ParseU16(Drop(part, close + 1))}
        ELSE IF colon = 0
        THEN IF PercentScan(part, {}) THEN {Result(part, {})} ELSE {}
        ELSE IF ~PercentScan(Take(part, colon - 1), {}) THEN {}
        ELSE IF colon = Len(part) THEN {Result(part, {})}
        ELSE {Result(Take(part, colon - 1), {p}) : p \in ParseU16(Drop(part, colon))}

\* The components of a reference, before they are validated.
Components(s) ==
    LET scheme == FindSchemeEnd(s)
        hier == Drop(s, scheme)
        hasAuthority == StartsWith(hier, <<"/", "/">>)
        afterSlashes == Drop(hier, 2)
        rest == IF hasAuthority
                THEN Drop(afterSlashes, Len(Before(afterSlashes, {"/", "?", "#"}))) ELSE hier
        noFragment == Before(rest, {"#"})
    IN  [scheme |-> IF scheme = 0 THEN {} ELSE {Take(s, scheme - 1)},
         authority |-> IF hasAuthority THEN {Before(afterSlashes, {"/", "?", "#"})} ELSE {},
         path |-> Before(noFragment, {"?"}),
         query |-> IF Holds(noFragment, {"?"}) THEN {After(noFragment, {"?"})} ELSE {},
         fragment |-> IF Holds(rest, {"#"}) THEN {After(rest, {"#"})} ELSE {}]

\* Uri::parse.
ParseUri(s) ==
    LET u == Components(s)
    IN  IF /\ s # << >>
           /\ \A x \in u.scheme : IsAlpha(x[1])
           /\ \A a \in u.authority : ParseAuthority(a) # {}
           /\ PercentScan(u.path, PathMarks)
           /\ \A q \in u.query \cup u.fragment : PercentScan(q, QueryMarks)
        THEN {u} ELSE {}

\* Uri::host, Uri::port and Uri::origin_form.
HostOf(u) == {r.host : r \in UNION {ParseAuthority(a) : a \in u.authority}}
PortOf(u) == UNION {r.port : r \in UNION {ParseAuthority(a) : a \in u.authority}}
OriginForm(u) ==
    (IF u.path = << >> THEN <<"/">> ELSE u.path)
    \o (IF u.query = {} THEN << >> ELSE <<"?">> \o CHOOSE q \in u.query : TRUE)

-----------------------------------------------------------------------------
\* Mutant: "/.." leaves the segment before it.
DotStepKeeping(q) ==
    LET s == q.rest
    IN  CASE StartsWith(s, <<".", ".", "/">>) -> [q EXCEPT !.rest = Drop(s, 3)]
          [] StartsWith(s, <<".", "/">>) -> [q EXCEPT !.rest = Drop(s, 2)]
          [] StartsWith(s, <<"/", ".", "/">>) -> [q EXCEPT !.rest = Drop(s, 2)]
          [] s = <<"/", ".">> -> [out |-> Append(q.out, <<"/">>), rest |-> << >>]
          [] StartsWith(s, <<"/", ".", ".", "/">>) -> [q EXCEPT !.rest = Drop(s, 3)]
          [] s = <<"/", ".", ".">> -> [out |-> Append(q.out, <<"/">>), rest |-> << >>]
          [] s \in {<<".">>, <<".", ".">>} -> [q EXCEPT !.rest = << >>]
          [] OTHER -> LET n == 1 + Len(Before(Drop(s, 1), {"/"}))
                      IN  [out |-> Append(q.out, Take(s, n)), rest |-> Drop(s, n)]

\* One turn of the loop of remove_dot_segments: output.pop() on an empty
\* output does nothing.
DotStep(q) ==
    LET s == q.rest
        popped == IF q.out = << >> THEN << >> ELSE Front(q.out)
    IN  CASE StartsWith(s, <<".", ".", "/">>) -> [q EXCEPT !.rest = Drop(s, 3)]
          [] StartsWith(s, <<".", "/">>) -> [q EXCEPT !.rest = Drop(s, 2)]
          [] StartsWith(s, <<"/", ".", "/">>) -> [q EXCEPT !.rest = Drop(s, 2)]
          [] s = <<"/", ".">> -> [out |-> Append(q.out, <<"/">>), rest |-> << >>]
          [] StartsWith(s, <<"/", ".", ".", "/">>) -> [out |-> popped, rest |-> Drop(s, 3)]
          [] s = <<"/", ".", ".">> -> [out |-> Append(popped, <<"/">>), rest |-> << >>]
          [] s \in {<<".">>, <<".", ".">>} -> [q EXCEPT !.rest = << >>]
          [] OTHER -> LET n == 1 + Len(Before(Drop(s, 1), {"/"}))
                      IN  [out |-> Append(q.out, Take(s, n)), rest |-> Drop(s, n)]

\* remove_dot_segments: every turn takes at least one character.
RemoveDotSegments(path) ==
    FlattenSeq(FoldLeft(LAMBDA q, c : IF q.rest = << >> THEN q ELSE DotStep(q),
                        [out |-> << >>, rest |-> path], path).out)

\* merge_paths.
MergePaths(base, path) ==
    IF base.authority # {} /\ base.path = << >> THEN <<"/">> \o path
    ELSE Take(base.path, RFind(base.path, {"/"})) \o path

\* build_uri: "/." and "./" keep a path from being read as an authority or as
\* a scheme.
BuildUri(scheme, authority, path, query, fragment) ==
    LET Part(before, part, after) ==
            IF part = {} THEN << >> ELSE before \o (CHOOSE x \in part : TRUE) \o after
    IN  Part(<< >>, scheme, <<":">>)
        \o Part(<<"/", "/">>, authority, << >>)
        \o (IF authority # {} THEN << >>
            ELSE IF StartsWith(path, <<"/", "/">>) THEN <<"/", ".">>
            ELSE IF scheme = {} /\ Holds(Before(path, {"/"}), {":"}) THEN <<".", "/">>
            ELSE << >>)
        \o path \o Part(<<"?">>, query, << >>) \o Part(<<"#">>, fragment, << >>)

\* resolve.
Resolve(base, r) ==
    LET path == RemoveDotSegments(r.path)
    IN  ParseUri(
          IF r.scheme # {} THEN BuildUri(r.scheme, r.authority, path, r.query, r.fragment)
          ELSE IF r.authority # {}
          THEN BuildUri(base.scheme, r.authority, path, r.query, r.fragment)
          ELSE IF r.path = << >>
          THEN BuildUri(base.scheme, base.authority, base.path,
                        IF r.query # {} THEN r.query ELSE base.query, r.fragment)
          ELSE IF r.path[1] = "/"
          THEN BuildUri(base.scheme, base.authority, path, r.query, r.fragment)
          ELSE BuildUri(base.scheme, base.authority,
                        RemoveDotSegments(MergePaths(base, r.path)), r.query, r.fragment))

-----------------------------------------------------------------------------
\* percent_encode, percent_encode_path and percent_encode_query, which keep
\* different characters.
PercentEncode(s, Keep) ==
    FlattenSeq([i \in DOMAIN s |->
        IF IsUnreserved(s[i]) \/ s[i] \in Keep THEN <<s[i]>>
        ELSE <<"%", HexOf(CodeOf[s[i]] \div 16), HexOf(CodeOf[s[i]] % 16)>>])

IsEscape(e) == e[1] = "%"
EscapeOk(e) == IsEscape(e) => Len(e) = 3 /\ AllIn(Drop(e, 1), HexDigits)
EscapeCode(e) == 16 * HexValOf[e[2]] + HexValOf[e[3]]

\* percent_decode_bytes: the codes.
PercentDecode(s) ==
    LET e == Escapes(s)
    IN  IF \E i \in DOMAIN e : ~EscapeOk(e[i]) THEN {}
        ELSE {[i \in DOMAIN e |-> IF IsEscape(e[i]) THEN EscapeCode(e[i]) ELSE CodeOf[e[i][1]]]}

\* normalize_percent_encoding: an escaped unreserved character is unescaped,
\* the other escapes get upper-case digits.  Only escapes that Uri::parse has
\* accepted get here.
NormalizeEscape(e) ==
    LET char == {c \in DOMAIN CodeOf : IsUnreserved(c) /\ CodeOf[c] = EscapeCode(e)}
    IN  IF ~IsEscape(e) THEN e
        ELSE IF char # {} THEN <<CHOOSE c \in char : TRUE>>
        ELSE <<"%", HexOf(EscapeCode(e) \div 16), HexOf(EscapeCode(e) % 16)>>
NormalizePercent(s) ==
    FlattenSeq([i \in DOMAIN Escapes(s) |-> NormalizeEscape(Escapes(s)[i])])

\* normalize_authority and normalize_host_port: the host in lower case.
NormalizeAuthority(a) ==
    LET at == RFind(a, {"@"})
        part == Drop(a, at)
        close == Find(part, {"]"})
        end == IF StartsWith(part, <<"[">>) /\ close > 0 THEN close
               ELSE IF Holds(part, {":"}) THEN RFind(part, {":"}) - 1 ELSE Len(part)
    IN  Take(a, at) \o Lower(Take(part, end)) \o Drop(part, end)

NormalizedPath(path) == RemoveDotSegments(NormalizePercent(path))

\* normalize.
Normalize(u) ==
    ParseUri(BuildUri({Lower(x) : x \in u.scheme},
                      {NormalizeAuthority(a) : a \in u.authority},
                      NormalizedPath(u.path),
                      {NormalizePercent(q) : q \in u.query},
                      {NormalizePercent(f) : f \in u.fragment}))
=============================================================================
