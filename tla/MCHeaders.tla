----------------------------- MODULE MCHeaders -----------------------------
(***************************************************************************)
(* Requests put together from a few chunks, in any order, so that short    *)
(* ones already hold several headers.  The memory behind them is filled    *)
(* up; as request_length is any number up to its size, the chunks behind   *)
(* that length are bytes that do not belong to the request.                *)
(***************************************************************************)
EXTENDS Headers, SequencesExt

CONSTANTS MaxChunks

Chunks == {<<Other, Colon, SP>>, <<CR, LF>>, <<Other>>, <<CR>>, <<SP>>, <<Colon>>}

Filled(bytes) ==
    [p \in 0 .. BufLen - 1 |-> IF p < Len(bytes) THEN bytes[p + 1] ELSE Other]

MCBuffers == {Filled(FlattenSeq(c)) : c \in [1 .. MaxChunks -> Chunks]}

\* A function that has returned stays so, which makes any other state that
\* nothing follows a deadlock.
Returned == pc \in {"end", "error"} /\ UNCHANGED vars

MCSpec == Init /\ [][Next \/ Returned]_vars

=============================================================================
