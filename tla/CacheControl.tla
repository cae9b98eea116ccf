---------------------------- MODULE CacheControl -----------------------------
(***************************************************************************)
(* Cache-Control and Age: src/src/cache.rs.  A value holds the seconds of  *)
(* the directives that take them and the set of the directives that are    *)
(* flags.  Directive names are words.                                      *)
(***************************************************************************)
EXTENDS Text

CONSTANT Overflow   \* DELTA_SECONDS_OVERFLOW

SecondsNames == <<"max-age", "s-maxage", "max-stale", "min-fresh",
                  "stale-while-revalidate", "stale-if-error">>
FlagNames == <<"no-cache", "no-store", "no-transform", "only-if-cached",
               "must-revalidate", "proxy-revalidate", "must-understand",
               "public", "private", "immutable">>

NewCacheControl ==
    [seconds |-> [n \in Range(SecondsNames) |-> {}], flags |-> {}]

\* parse_seconds: a number that does not fit a u64 becomes 2^31.
ParseSeconds(s) ==
    IF ~IsNumber(s) THEN {} ELSE {IF Number(s) <= U64Max THEN Number(s) ELSE Overflow}

\* The value of name=value: quoted on both sides or on neither.
Unquoted(raw) ==
    IF StartsWith(raw, <<"DQUOTE">>)
    THEN IF Len(raw) > 1 /\ raw[Len(raw)] = "DQUOTE" THEN {SubSeq(raw, 2, Len(raw) - 1)} ELSE {}
    ELSE IF raw # << >> /\ raw[Len(raw)] = "DQUOTE" THEN {} ELSE {raw}

\* One directive, on top of what came before it: a set of results.
Directive(cc, s) ==
    LET name == Lower(Trim(Before(s, {"="})))
        value == Unquoted(Trim(After(s, {"="})))
        is(names) == \E n \in names : name = <<n>>
    IN  IF Holds(s, {"="})
        THEN IF value = {} THEN {}
             ELSE IF is(Range(SecondsNames))
             THEN {[cc EXCEPT !.seconds[name[1]] = {n}] :
                     n \in UNION {ParseSeconds(v) : v \in value}}
             ELSE IF is({"no-cache", "private"})
             THEN {[cc EXCEPT !.flags = @ \cup {name[1]}]}
             ELSE {cc}
        ELSE IF is(Range(FlagNames)) THEN {[cc EXCEPT !.flags = @ \cup {name[1]}]}
        ELSE IF is({"max-stale"}) THEN {[cc EXCEPT !.seconds["max-stale"] = {U64Max}]}
        ELSE {cc}

\* CacheControl::parse: an unknown directive is ignored, the last of several
\* counts, one wrong directive is an error.
ParseCacheControl(text) ==
    FoldLeft(LAMBDA results, s : UNION {Directive(cc, s) : cc \in results},
             {NewCacheControl}, ListOf(text))

\* Display of a directive with seconds.
SecondsText(name, n) ==
    IF name = "max-stale" /\ n = U64Max THEN <<name>> ELSE <<name, "=">> \o Decimal(n)

CacheControlText(cc) ==
    LET seconds == SelectSeq(SecondsNames, LAMBDA n : cc.seconds[n] # {})
        flags == SelectSeq(FlagNames, LAMBDA n : n \in cc.flags)
    IN  Join([i \in DOMAIN seconds |->
                SecondsText(seconds[i], CHOOSE n \in cc.seconds[seconds[i]] : TRUE)]
             \o [i \in DOMAIN flags |-> <<flags[i]>>], <<",", "SP">>)

IsCacheable(cc) ==
    /\ "no-store" \notin cc.flags
    /\ "public" \in cc.flags \/ cc.seconds["max-age"] # {} \/ cc.seconds["s-maxage"] # {}

\* Age::parse.
ParseAge(text) == ParseSeconds(Trim(text))
=============================================================================
