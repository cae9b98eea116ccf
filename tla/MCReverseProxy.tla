-------------------------- MODULE MCReverseProxy --------------------------
(***************************************************************************)
(* Small instances of the reverse proxy: two clients, of whom one may ask   *)
(* with CONNECT or HEAD, and a response of every body kind.               *)
(***************************************************************************)
EXTENDS ReverseProxy

CONSTANTS c1, c2

Ask(m1, b1, m2, b2) ==
    [c \in Clients |-> IF c = c1 THEN [method |-> m1, body |-> b1] ELSE [method |-> m2, body |-> b2]]

MCRequests ==
    {Ask("POST", 1, "GET", 0), Ask("GET", 0, "HEAD", 0), Ask("GET", 0, "CONNECT", 0)}

R(status, kind, body, keep) ==
    [kind |-> kind, body |-> body, status |-> status, keep |-> keep, interim |-> FALSE,
     headers |-> CASE kind = "Chunked" -> {"transfer-encoding", "x"}
                   [] kind = "CloseDelimited" -> {"x"}
                   [] OTHER -> {"content-length", "connection", "x"},
     listed |-> {"x"}]

MCResponses ==
    {R(200, "ContentLength", 1, TRUE), R(200, "ContentLength", 0, TRUE),
     R(200, "Chunked", 2, TRUE), R(200, "CloseDelimited", 2, TRUE),
     R(200, "None", 1, TRUE), R(304, "None", 1, FALSE)}
=============================================================================
