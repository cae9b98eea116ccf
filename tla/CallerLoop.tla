----------------------------- MODULE CallerLoop ------------------------------
(***************************************************************************)
(* The loops that src/src/decoder/mod.rs documents for the two APIs of     *)
(* RequestDecoder.  Streaming: decode the head, then peek and consume, or  *)
(* make progress, until the message is complete.  At once: decode() until  *)
(* it returns a message.  Both go back to the network only when the        *)
(* decoder asks for more data.                                             *)
(*                                                                         *)
(* A loop never looks into the decoder: `at` follows from the returned     *)
(* values and from whether peek_body offers anything.                      *)
(***************************************************************************)
EXTENDS RequestDecoder

VARIABLE at     \* where the loop is: "head", "body", at the network on behalf
                \* of one of them ("readHead", "readBody"), with an outcome to
                \* look at ("headDone", "consumed", "progressed"), "stopped"

loopVars == <<wire, sent, buf, phase, remaining, trailers, body_consumed,
              trailer_count, declared_trailers, call, advanced, result,
              body, given, failed, start_line, headers, decoded_head,
              decoded_body_kind, decoded_body, decoding, api, heads, done,
              taken, at>>

LoopInit == HeadInit /\ at = "head"

\* The decoder is inside a call the loop has made.
InCall == Running /\ UNCHANGED at

\* More bytes arrive, and the loop continues where it needed them.
Read(n) ==
    /\ at \in {"readHead", "readBody"}
    /\ Feed(n) /\ UNCHANGED headVars
    /\ at' = IF at = "readHead" THEN "head" ELSE "body"

\* decode_headers, or decode().
CallHead ==
    /\ at = "head"
    /\ DecodeHeaders \/ DecodeStarts \/ DecodeRefused
    /\ at' = "headDone"

\* peek_body offers bytes: they are consumed.  Otherwise progress.
CallBody ==
    /\ at = "body"
    /\ \/ PeekLen > 0 /\ Consume(PeekLen) /\ at' = "consumed"
       \/ PeekLen = 0 /\ Progress /\ at' = "progressed"

\* decode_headers returned: only these two framings have a body to read, the
\* bytes of a tunnel are not for the decoder.  decode() returned: after a
\* message comes the next one.
AfterHead ==
    CASE result = "NeedData" -> "readHead"
      [] result = "Message" -> "head"
      [] result = "Head" ->
            (CASE heads[Len(heads)].kind.kind \in {"ContentLength", "Chunked"} -> "body"
               [] heads[Len(heads)].kind.kind = "Tunnel" -> "stopped"
               [] OTHER -> "head")
      [] OTHER -> "stopped"

\* After consume_body the loop peeks again, unless the message is complete.
AfterConsume ==
    CASE result = "Complete" -> "head"
      [] result \in {"Advanced", "NeedData"} -> "body"
      [] OTHER -> "stopped"

\* Mutant: the loop goes on polling.
AfterProgressPolls ==
    CASE result = "Complete" -> "head"
      [] result \in {"Advanced", "NeedData"} -> "body"
      [] OTHER -> "stopped"

AfterProgress ==
    CASE result = "Complete" -> "head"
      [] result = "Advanced" -> "body"
      [] result = "NeedData" -> "readBody"
      [] OTHER -> "stopped"

Decide ==
    /\ Idle
    /\ \/ at = "headDone" /\ at' = AfterHead
       \/ at = "consumed" /\ at' = AfterConsume
       \/ at = "progressed" /\ at' = AfterProgress
    /\ UNCHANGED requestVars

LoopNext == InCall \/ (\E n \in FeedSizes : Read(n)) \/ CallHead \/ CallBody \/ Decide

\* A call that was made runs on, the loop runs, and the network delivers what
\* the peer sends.
LoopSpec == LoopInit /\ [][LoopNext]_loopVars /\ WF_loopVars(LoopNext)
=============================================================================
