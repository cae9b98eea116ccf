----------------------------- MODULE EntityTags ------------------------------
(***************************************************************************)
(* Entity tags, lists of them and the preconditions they decide:           *)
(* src/src/etag.rs, and IfMatch and IfNoneMatch of src/src/conditional.rs. *)
(***************************************************************************)
EXTENDS Text

\* is_etagc: %x21 / %x23-7E / obs-text.
IsEtagc(c) == c \notin {"DQUOTE", "SP", "HT"} \cup Controls

EntityTag(weak, tag) == [weak |-> weak, tag |-> tag]

\* EntityTag::strong and EntityTag::weak.
NewEntityTag(weak, tag) ==
    IF \A i \in DOMAIN tag : IsEtagc(tag[i]) THEN {EntityTag(weak, tag)} ELSE {}

\* EntityTag::parse.
ParseEntityTag(text) ==
    LET s == Trim(text)
        weak == StartsWith(s, <<"W", "/">>)
        rest == IF weak THEN Drop(s, 2) ELSE s
        inner == Drop(rest, 1)
    IN  IF /\ StartsWith(rest, <<"DQUOTE">>)
           /\ Holds(inner, {"DQUOTE"}) /\ After(inner, {"DQUOTE"}) = << >>
        THEN NewEntityTag(weak, Before(inner, {"DQUOTE"})) ELSE {}

EntityTagText(e) ==
    (IF e.weak THEN <<"W", "/">> ELSE << >>) \o <<"DQUOTE">> \o e.tag \o <<"DQUOTE">>

\* strong_compare and weak_compare.
StrongCompare(e, f) == ~e.weak /\ ~f.weak /\ e.tag = f.tag
WeakCompare(e, f) == e.tag = f.tag

-----------------------------------------------------------------------------
\* split_etag_list_raw: etagc has the comma, so only one outside of quotes
\* splits.  There are no escapes.
SplitEtagListRaw(s) ==
    LET Step(q, c) ==
            IF c = "," /\ ~q.quoted THEN [q EXCEPT !.parts = Append(@, << >>)]
            ELSE [quoted |-> q.quoted # (c = "DQUOTE"),
                  parts |-> [q.parts EXCEPT ![Len(q.parts)] = Append(@, c)]]
    IN  FoldLeft(Step, [quoted |-> FALSE, parts |-> << << >> >>], s).parts

\* parse_etag_list: ETagList::Any, or the tags.
ParseEtagList(text) ==
    LET s == Trim(text)
        raw == SplitEtagListRaw(s)
        parts == SelectSeq([i \in DOMAIN raw |-> Trim(raw[i])], LAMBDA p : p # << >>)
    IN  IF s = <<"*">> THEN {[any |-> TRUE, tags |-> << >>]}
        ELSE IF parts = << >> THEN {}
        ELSE {[any |-> FALSE, tags |-> tags] : tags \in ParseAll(parts, ParseEntityTag)}

EtagListText(list) ==
    IF list.any THEN <<"*">>
    ELSE Join([i \in DOMAIN list.tags |-> EntityTagText(list.tags[i])], <<",", "SP">>)

\* ETagList::contains_weak and contains_strong.
ContainsWeak(list, e) == list.any \/ \E i \in DOMAIN list.tags : WeakCompare(list.tags[i], e)
ContainsStrong(list, e) == list.any \/ \E i \in DOMAIN list.tags : StrongCompare(list.tags[i], e)

\* IfMatch::matches and IfNoneMatch::matches: the request is processed.
IfMatch(list, e) == ContainsStrong(list, e)
IfNoneMatch(list, e) == ~ContainsWeak(list, e)
=============================================================================
