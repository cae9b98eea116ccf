-------------------------------- MODULE Hosts --------------------------------
(***************************************************************************)
(* Hosts and the characters of a URI: src/src/host.rs, the validators of   *)
(* src/src/uri.rs and detect_scheme of src/src/request_target.rs.          *)
(***************************************************************************)
EXTENDS Text

IsRegName(c) == IsUnreserved(c) \/ c \in SubDelims
\* What the parts of a URI allow besides.
PcharMarks == {":", "@"}
PathMarks == PcharMarks \cup {"/"}
QueryMarks == PcharMarks \cup {"/", "?"}
UserinfoMarks == {":"}
AuthorityMarks == PcharMarks \cup {"[", "]"}

\* validate_percent_encoding: "%" starts two hexadecimal digits.
EscapesOk(s) ==
    \A i \in DOMAIN s : s[i] = "%" =>
        i + 2 <= Len(s) /\ s[i + 1] \in HexDigits /\ s[i + 2] \in HexDigits

\* The scan that the validators share.
PercentScan(s, marks) ==
    EscapesOk(s) /\ \A i \in DOMAIN s : IsRegName(s[i]) \/ s[i] \in marks \cup {"%"}

\* A scheme character after the first.
IsSchemeChar(c) == IsAlpha(c) \/ c \in Digits \cup {"+", "-", "."}

\* detect_scheme: the position of the colon after a scheme, 0 if there is none
\* or nothing follows.
DetectScheme(s) ==
    LET colon == Find(s, {":"})
    IN  IF /\ colon > 1 /\ colon < Len(s) /\ IsAlpha(s[1])
           /\ \A i \in 2..(colon - 1) : IsSchemeChar(s[i])
        THEN colon ELSE 0

-----------------------------------------------------------------------------
\* parse::<Ipv6Addr>: eight groups of up to four digits, one run of which "::"
\* may stand for.  The form with an embedded IPv4 address is left out.
IsGroups(s, n) ==
    s = << >> \/ LET g == Split(s, ":")
                 IN  Len(g) <= n /\ \A i \in DOMAIN g : Len(g[i]) \in 1..4 /\ AllIn(g[i], HexDigits)
IsIpv6(s) ==
    \/ IsGroups(s, 8) /\ Len(Split(s, ":")) = 8
    \/ \E i \in 1..(Len(s) - 1) :
         /\ s[i] = ":" /\ s[i + 1] = ":"
         /\ LET l == Take(s, i - 1)
                r == Drop(s, i + 1)
            IN  /\ IsGroups(l, 7) /\ IsGroups(r, 7)
                /\ Len(SelectSeq(Split(l, ":") \o Split(r, ":"), LAMBDA g : g # << >>)) <= 7

\* is_valid_ipvfuture and validate_ipv_future: ("v" / "V") 1*HEXDIG "." 1*(...).
IsIpvFuture(s) ==
    LET version == Drop(Before(s, {"."}), 1)
        rest == After(s, {"."})
    IN  /\ s[1] \in {"v", "V"} /\ version # << >> /\ AllIn(version, HexDigits)
        /\ rest # << >> /\ \A i \in DOMAIN rest : IsRegName(rest[i]) \/ rest[i] \in UserinfoMarks

\* is_valid_ipv6_or_future and validate_ip_literal.
IsIpLiteral(s) == IF s # << >> /\ s[1] \in {"v", "V"} THEN IsIpvFuture(s) ELSE IsIpv6(s)

\* parse_port: digits only.
ParsePort(s) == IF IsNumber(s) THEN ParseU16(s) ELSE {}

\* Host::parse, with the empty set for a missing port.  An IPv4 address is a
\* reg-name too.
ParseHost(text) ==
    LET s == Trim(text)
        close == Find(s, {"]"})
        colon == RFind(s, {":"})
        Host(h, port) == [host |-> h, port |-> port]
    IN  IF s = << >> \/ Holds(s, {"SP", "HT"}) THEN {}
        ELSE IF s[1] = "["
        THEN IF close = 0 \/ ~IsIpLiteral(SubSeq(s, 2, close - 1)) THEN {}
             ELSE IF close = Len(s) THEN {Host(s, {})}
             ELSE IF s[close + 1] # ":" THEN {}
             ELSE {Host(Take(s, close), {p}) : p \in ParsePort(Drop(s, close + 1))}
        ELSE LET name == IF colon = 0 THEN s ELSE Take(s, colon - 1)
             IN  IF name = << >> \/ ~PercentScan(name, {}) THEN {}
                 ELSE IF colon = 0 THEN {Host(name, {})}
                 ELSE {Host(name, {p}) : p \in ParsePort(Drop(s, colon))}

HostText(h) ==
    IF h.port = {} THEN h.host
    ELSE h.host \o <<":">> \o Decimal(CHOOSE p \in h.port : TRUE)
=============================================================================
