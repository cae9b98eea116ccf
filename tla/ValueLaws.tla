------------------------------ MODULE ValueLaws ------------------------------
(***************************************************************************)
(* What the value types promise of every text they are given, one law per  *)
(* family.  A law is a predicate on a text (or on a value); MCValues       *)
(* evaluates it on all texts up to a bound.                                *)
(***************************************************************************)
EXTENDS Ranges, EntityTags, Cookies, CacheControl, Uris, Targets, Credentials

\* A value that was read and written again is read as the same value.
FixedPoint(Parse(_), Write(_), s) == \A v \in Parse(s) : Parse(Write(v)) = {v}

-----------------------------------------------------------------------------
\* The bytes of a representation that a range-spec asks for.
Wanted(spec, total) ==
    {i \in 0..(total - 1) :
        CASE spec.kind = "Range" -> spec.start <= i /\ i <= spec.end
          [] spec.kind = "FromStart" -> spec.start <= i
          [] spec.kind = "Suffix" -> i + spec.start >= total}

\* to_bounds gives exactly the bytes asked for, none if there are none, and
\* what it gives satisfies the assertions of ContentRange::new_bytes, whose
\* text is read back with the length of that part.
RangeLaw(s, totals) ==
    /\ FixedPoint(ParseRange, RangeText, s)
    /\ FixedPoint(ParseContentRange, ContentRangeText, s)
    /\ FixedPoint(ParseAcceptRanges, AcceptRangesText, s)
    /\ \A c \in ParseContentRange(s), n \in 0..U64Max :
          n \in ContentRangeLength(c) => \A t \in c.complete : n \in 1..t
    /\ \A r \in ParseRange(s) : \A i \in DOMAIN r.ranges, t \in totals :
          LET spec == r.ranges[i]
              bounds == ToBounds(spec, t)
          IN  /\ Wanted(spec, t) = UNION {b[1]..b[2] : b \in bounds}
              /\ \A b \in bounds :
                    LET c == NewBytes(b[1], b[2], {t})
                    IN  /\ ContentRangeOk(b[1], b[2], {t})
                        /\ ParseContentRange(ContentRangeText(c)) = {c}
                        /\ ContentRangeLength(c) = {Cardinality(Wanted(spec, t))}

\* Entity tags: the list reads back; where If-Match lets a request through,
\* If-None-Match does not.
TagLaw(s) ==
    /\ FixedPoint(ParseEtagList, EtagListText, s)
    /\ FixedPoint(ParseEntityTag, EntityTagText, s)
    /\ \A l \in ParseEtagList(s) : \A i \in DOMAIN l.tags :
          /\ ~IfNoneMatch(l, l.tags[i])
          /\ IfMatch(l, l.tags[i]) <=>
               \E j \in DOMAIN l.tags : ~l.tags[j].weak /\ l.tags[j] = l.tags[i]

-----------------------------------------------------------------------------
\* The three date formats of a date.
ImfText(d) == DateText(d)
AsctimeText(d) ==
    <<DayNames[d.weekday], "SP", Months[d.month], "SP">>
    \o (IF d.day < 10 THEN <<"SP">> ELSE << >>) \o Decimal(d.day) \o <<"SP">>
    \o TimeText(d.time) \o <<"SP">> \o Padded(d.year, 4)
Rfc850Text(d) ==
    <<LongDayNames[d.weekday], ",", "SP">> \o Padded(d.day, 2)
    \o <<"-", Months[d.month], "-">> \o Padded(d.year % 100, 2) \o <<"SP">>
    \o TimeText(d.time) \o <<"SP", "GMT">>

\* A date that exists is read from each format.  A two-digit year is a year
\* with these digits, at most 50 years ahead of the reference year and less
\* than 100 behind it (it need not be the nearest one: 01 is 1901 in 1999),
\* unless the u16 arithmetic overflows, and it does so for no reference year
\* from 49 to U16Max - 50.
DateLaw(d, reference) ==
    NewDate(d.weekday, d.day, d.month, d.year, d.time) # {} =>
        /\ ParseDate(ImfText(d), reference) = {d}
        /\ ParseDate(AsctimeText(d), reference) = {d}
        /\ YearOverflows(d.year % 100, reference) => reference \notin 49..(U16Max - 50)
        /\ YearOverflows(d.year % 100, reference) \/ \E y \in (reference - 99)..(reference + 50) :
              /\ y % 100 = d.year % 100
              /\ ParseDate(Rfc850Text(d), reference) =
                   NewDate(d.weekday, d.day, d.month, y, d.time)

-----------------------------------------------------------------------------
\* remove_dot_segments on an absolute path, by segments instead of by the
\* rewriting of RFC 3986 section 5.2.4.
DotFree(path) ==
    LET segments == Split(Drop(path, 1), "/")
        Dots == {<<".">>, <<".", ".">>}
        Keep(out, x) == IF x = <<".">> THEN out
                        ELSE IF x = <<".", ".">> THEN (IF out = << >> THEN out ELSE Front(out))
                        ELSE Append(out, x)
        kept == FoldLeft(Keep, << >>, segments)
    IN  <<"/">> \o Join(IF segments[Len(segments)] \in Dots THEN Append(kept, << >>) ELSE kept,
                        <<"/">>)

HasDotSegment(path) ==
    LET segments == Split(path, "/")
    IN  \E i \in DOMAIN segments : segments[i] \in {<<".">>, <<".", ".">>}

\* Resolving keeps the base's scheme, leaves no dot segment in a path below an
\* authority, and resolving the result again changes nothing; normalizing is
\* idempotent and leaves no dot segment either, escaped ones included; what
\* percent_encode writes percent_decode reads.
UriLaw(s, bases) ==
    /\ StartsWith(s, <<"/">>) => RemoveDotSegments(s) = DotFree(s)
    /\ ~Holds(s, {"OBS"}) =>
         PercentDecode(PercentEncode(s, {"/"})) = {[i \in DOMAIN s |-> CodeOf[s[i]]]}
    /\ \A u \in ParseUri(s) :
         /\ \A v \in Normalize(u) :
              /\ Normalize(v) = {v}
              /\ v.authority # {} => ~HasDotSegment(v.path)
         /\ \A b \in bases : \A base \in ParseUri(b) : \A v \in Resolve(base, u) :
              /\ v.scheme = IF u.scheme # {} THEN u.scheme ELSE base.scheme
              /\ v.fragment = u.fragment
              /\ v.authority # {} => ~HasDotSegment(v.path)
              /\ Resolve(base, v) = {v}

\* The request-target and Host that the encoder lets through are accepted by
\* the decoder, which reads the same form, with two exceptions: "://" in the
\* query of an origin-form is taken for an absolute-form, and the parts of an
\* absolute-form are not looked at by the encoder.
TargetLaw(method, s, host) ==
    EncoderAccepts(method, s, host) =>
        /\ EncoderForm(s) # "absolute" => DecoderAccepts(method, s, host)
        /\ DecoderAccepts(method, s, host) /\ ~(s[1] = "/" /\ FindMark(s) > 0) =>
              DecoderForm(s) = EncoderForm(s)
        /\ DecoderForm(s) = "authority" =>
              /\ \A h \in ParseHost(host) : SameIgnoringCase(h.host, Take(s, RFind(s, {":"}) - 1))
              /\ \A h \in ParseHost(host), p \in ParseU16(Drop(s, RFind(s, {":"}))) : h.port \subseteq {p}

-----------------------------------------------------------------------------
\* The names of the parameters of all media ranges are tokens.
TokenRanges(ranges) ==
    \A i \in DOMAIN ranges : \A p \in DOMAIN ranges[i].params : IsToken(ranges[i].params[p][1])

\* What is put into quotes is what is read from them, control characters
\* having become spaces.
QuotedLaw(s) ==
    ParseQuotedString(Drop(Quoted(s), 1)) =
        {[value |-> [i \in DOMAIN s |-> IF s[i] \in Controls THEN "SP" ELSE s[i]], rest |-> << >>]}

\* Content-Type and the Accept family read back; Accept only if the names of
\* its parameters are tokens.  Accept::parse takes any name, and does not
\* always read back what it has written: a/b;q=0;"=x becomes a/b; "=x; q=0.
MediaLaw(s) ==
    /\ FixedPoint(ParseContentType, ContentTypeText, s)
    /\ FixedPoint(LAMBDA t : {a \in ParseAccept(t) : TokenRanges(a)}, AcceptText, s)
    /\ FixedPoint(ParseAcceptEncoding, WeightedListText, s)
    /\ FixedPoint(ParseAcceptLanguage, WeightedListText, s)

\* Content-Disposition reads back, and so does the file name, whichever of its
\* two parameters carries it (filename cannot carry a control character).
DispositionLaw(s) ==
    /\ FixedPoint(ParseDisposition, DispositionText, s)
    /\ \A d \in ParseDisposition(s) : \A f \in Filename(d) :
         LET new == NewDisposition(<<"a">>)
             plain == [new EXCEPT !.filename = {f}]
             ext == [new EXCEPT !.filename_ext = {f}]
             texts == (IF Holds(f, Controls) THEN {} ELSE {plain})
                      \cup (IF AllIn(f, DOMAIN CodeOf \cup {"OBS"}) THEN {ext} ELSE {})
         IN  \A e \in texts : ParseDisposition(DispositionText(e)) = {e}

\* Cache-Control reads back.
CacheLaw(s) == FixedPoint(ParseCacheControl, CacheControlText, s)

\* Cookies read back one by one, Set-Cookie as a whole.
CookieLaw(s) ==
    /\ \A v \in ParseCookies(s) : \A i \in DOMAIN v : ParseCookies(CookieText(v[i])) = {<<v[i]>>}
    /\ FixedPoint(LAMBDA t : ParseSetCookie(t, 2000), SetCookieText, s)

\* Credentials and challenges read back.
AuthLaw(s) ==
    /\ FixedPoint(ParseAuthorization, AuthorizationText, s)
    /\ FixedPoint(ParseAuthChallenge, AuthChallengeText, s)

\* A byte string has one base64 text, so that credentials have one form; user
\* and password survive.
Base64Law(s) ==
    /\ \A b \in Base64Decode(s) :
          Base64Encode(b) = SelectSeq(s, LAMBDA c : c \notin {"SP", "HT"})
    /\ \A i \in 0..Len(s) : \A a \in NewBasic(Take(s, i), Drop(s, i)) :
          ParseBasic(BasicText(a)) = {a}
=============================================================================
