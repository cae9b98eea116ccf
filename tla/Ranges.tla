------------------------------- MODULE Ranges --------------------------------
(***************************************************************************)
(* Range requests: RangeSpec, Range, ContentRange and AcceptRanges of      *)
(* src/src/range.rs.                                                       *)
(***************************************************************************)
EXTENDS Text

\* RangeSpec: "start-end", "start-" (end = 0) or "-length" (in start).
RangeSpec(kind, start, end) == [kind |-> kind, start |-> start, end |-> end]

\* Mutant: the last byte position is taken for a length.
ToBoundsExclusive(spec, total) ==
    CASE spec.kind = "Range" /\ spec.start <= spec.end /\ spec.start < total ->
           {<<spec.start, IF spec.end < total THEN spec.end ELSE total>>}
      [] spec.kind = "FromStart" /\ spec.start < total -> {<<spec.start, total - 1>>}
      [] spec.kind = "Suffix" /\ spec.start > 0 /\ total > 0 ->
           {<<IF spec.start < total THEN total - spec.start ELSE 0, total - 1>>}
      [] OTHER -> {}

\* RangeSpec::to_bounds.
ToBounds(spec, total) ==
    CASE spec.kind = "Range" /\ spec.start <= spec.end /\ spec.start < total ->
           {<<spec.start, IF spec.end < total - 1 THEN spec.end ELSE total - 1>>}
      [] spec.kind = "FromStart" /\ spec.start < total -> {<<spec.start, total - 1>>}
      [] spec.kind = "Suffix" /\ spec.start > 0 /\ total > 0 ->
           {<<IF spec.start < total THEN total - spec.start ELSE 0, total - 1>>}
      [] OTHER -> {}

\* parse_range_spec.
ParseRangeSpec(s) ==
    LET first == Trim(Before(s, {"-"}))
        last == Trim(After(s, {"-"}))
    IN  CASE ~Holds(s, {"-"}) \/ (first = << >> /\ last = << >>) -> {}
          [] first = << >> /\ last # << >> ->
               {RangeSpec("Suffix", n, 0) : n \in ParseU64(last)}
          [] first # << >> /\ last = << >> ->
               {RangeSpec("FromStart", n, 0) : n \in ParseU64(first)}
          [] OTHER ->
               {RangeSpec("Range", p[1], p[2]) :
                  p \in {q \in ParseU64(first) \X ParseU64(last) : q[1] <= q[2]}}

RangeSpecText(spec) ==
    CASE spec.kind = "Range" -> Decimal(spec.start) \o <<"-">> \o Decimal(spec.end)
      [] spec.kind = "FromStart" -> Decimal(spec.start) \o <<"-">>
      [] spec.kind = "Suffix" -> <<"-">> \o Decimal(spec.start)

-----------------------------------------------------------------------------
\* Range::parse: unit=spec, spec, ...
ParseRange(text) ==
    LET s == Trim(text)
        unit == Trim(Before(s, {"="}))
        parts == ListOf(After(s, {"="}))
    IN  IF ~Holds(s, {"="}) \/ ~IsToken(unit) \/ parts = << >> THEN {}
        ELSE {[unit |-> unit, ranges |-> specs] : specs \in ParseAll(parts, ParseRangeSpec)}

RangeText(range) ==
    range.unit \o <<"=">> \o
    Join([i \in DOMAIN range.ranges |-> RangeSpecText(range.ranges[i])], <<",", "SP">>)

IsBytes(range) == SameIgnoringCase(range.unit, <<"bytes">>)

-----------------------------------------------------------------------------
\* ContentRange: bounds is {} for an unsatisfied range, complete {} for "*".
ContentRange(unit, bounds, complete) ==
    [unit |-> unit, bounds |-> bounds, complete |-> complete]

\* validate_content_range_parts, and the assertions of new_bytes.
ContentRangeOk(start, end, complete) == start <= end /\ \A n \in complete : n > end

NewBytes(start, end, complete) == ContentRange(<<"bytes">>, {<<start, end>>}, complete)
Unsatisfied(unit, complete) == ContentRange(unit, {}, {complete})

\* ContentRange::parse: unit SP first-last/length, unit SP */length.
ParseContentRange(text) ==
    LET s == Trim(text)
        unit == Trim(Before(s, {"SP"}))
        rest == Trim(After(s, {"SP"}))
        range == Trim(Before(rest, {"/"}))
        length == Trim(After(rest, {"/"}))
        complete == IF length = <<"*">> THEN {} ELSE ParseU64(length)
    IN  IF \/ ~Holds(s, {"SP"}) \/ ~IsToken(unit) \/ ~Holds(rest, {"/"})
           \/ length # <<"*">> /\ complete = {}
        THEN {}
        ELSE IF range = <<"*">>
        THEN {ContentRange(unit, {}, complete) : n \in complete}
        ELSE IF ~Holds(range, {"-"}) THEN {}
        ELSE {ContentRange(unit, {p}, complete) :
                p \in {q \in ParseU64(Before(range, {"-"})) \X ParseU64(After(range, {"-"})) :
                         ContentRangeOk(q[1], q[2], complete)}}

ContentRangeText(cr) ==
    cr.unit \o <<"SP">>
    \o (IF cr.bounds = {} THEN <<"*">>
        ELSE LET b == CHOOSE p \in cr.bounds : TRUE
             IN  Decimal(b[1]) \o <<"-">> \o Decimal(b[2]))
    \o <<"/">>
    \o (IF cr.complete = {} THEN <<"*">> ELSE Decimal(CHOOSE n \in cr.complete : TRUE))

\* ContentRange::length: none if it does not fit a u64.
ContentRangeLength(cr) ==
    {p[2] - p[1] + 1 : p \in {q \in cr.bounds : q[2] - q[1] + 1 <= U64Max}}

-----------------------------------------------------------------------------
\* AcceptRanges::parse: a list of units; "none" stands alone.
ParseAcceptRanges(text) ==
    LET units == ListOf(text)
    IN  IF \/ units = << >>
           \/ \E i \in DOMAIN units : ~IsToken(units[i])
           \/ Len(units) > 1 /\ \E i \in DOMAIN units : SameIgnoringCase(units[i], <<"none">>)
        THEN {} ELSE {units}

AcceptRangesText(units) == Join(units, <<",", "SP">>)
AcceptsBytes(units) == \E i \in DOMAIN units : SameIgnoringCase(units[i], <<"bytes">>)
AcceptsNone(units) == Len(units) = 1 /\ SameIgnoringCase(units[1], <<"none">>)
=============================================================================
