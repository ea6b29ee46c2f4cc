-------------------------------- MODULE Tee ---------------------------------
(***************************************************************************)
(* The body tee (crates/httpmate-core/src/tee.rs): what a body that is     *)
(* streamed through leaves in its capture.  The guard of a capture is a    *)
(* record; bytes are told apart by their position in the body.  The flag   *)
(* `completed` of a capture is left out: nothing reads it.                 *)
(***************************************************************************)
EXTENDS Integers, Sequences

\* TeeBody::new.
NewTee(limit) == [buf |-> <<>>, total |-> 0, truncated |-> FALSE, limit |-> limit]

\* Faulty variant: a body that fills the capture counts as truncated.
PushStrict(g, data) ==
    LET room == IF g.limit > Len(g.buf) THEN g.limit - Len(g.buf) ELSE 0
        fits == room > Len(data)
    IN  [g EXCEPT !.buf = @ \o SubSeq(data, 1, IF fits THEN Len(data) ELSE room),
                  !.total = @ + Len(data),
                  !.truncated = @ \/ ~fits]

\* CaptureGuard::push: the room left is saturated at zero.
Push(g, data) ==
    LET room == IF g.limit > Len(g.buf) THEN g.limit - Len(g.buf) ELSE 0
        fits == room >= Len(data)
    IN  [g EXCEPT !.buf = @ \o SubSeq(data, 1, IF fits THEN Len(data) ELSE room),
                  !.total = @ + Len(data),
                  !.truncated = @ \/ ~fits]

\* CaptureGuard::finish: at the end of the stream, on an error, or when the
\* guard is dropped, which are alike.
Captured(g) == [bytes |-> g.buf, total |-> g.total, truncated |-> g.truncated]

\* What it should be: after n bytes, the first of them up to the limit, a true
\* total, and a mark exactly if any are missing.
Prefix(n) == [k \in 1..n |-> k]
IsPrefix(bytes, total, truncated, n, limit) ==
    /\ bytes = Prefix(IF n <= limit THEN n ELSE limit)
    /\ total = n
    /\ truncated <=> n > limit
=============================================================================
