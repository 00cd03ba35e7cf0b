----------------------------- MODULE ByteStream -----------------------------
(***************************************************************************)
(* What one direction of a tunnel stream promises the program that reads   *)
(* it: the chunks arrive in order; reading ends with EOF only after every  *)
(* chunk the writer sent before its CLOSE, unless the reader's own session *)
(* ended or the reader closed the stream; nothing is read after the end.   *)
(* Tunnel implements this for every end and stream.                        *)
(***************************************************************************)
EXTENDS Integers

VARIABLES sent,   \* chunks written
          fin,    \* chunks written before the CLOSE, -1 before it
          got,    \* chunks read
          end,    \* what ended reading, "none" before
          lost,   \* the reader's session has ended
          shut    \* the reader has closed the stream

vars == <<sent, fin, got, end, lost, shut>>

Init ==
  /\ sent = 0 /\ fin = -1
  /\ got = 0 /\ end = "none"
  /\ lost = FALSE /\ shut = FALSE

Send ==
  /\ sent' = sent + 1
  /\ UNCHANGED <<fin, got, end, lost, shut>>

Finish ==
  /\ fin = -1
  /\ fin' = sent
  /\ UNCHANGED <<sent, got, end, lost, shut>>

Recv ==
  /\ end = "none"
  /\ got < sent
  /\ fin >= 0 => got < fin
  /\ got' = got + 1
  /\ UNCHANGED <<sent, fin, end, lost, shut>>

Lose ==
  /\ lost' = TRUE
  /\ UNCHANGED <<sent, fin, got, end, shut>>

Shut ==
  /\ shut' = TRUE
  /\ UNCHANGED <<sent, fin, got, end, lost>>

End ==
  /\ end = "none"
  /\ \/ end' = "EOF" /\ (fin = got \/ lost \/ shut)
     \/ end' = "ErrClosed" /\ shut
     \/ end' \in {"reset", "ErrSessionClosed"} /\ lost
  /\ UNCHANGED <<sent, fin, got, lost, shut>>

Next == Send \/ Finish \/ Recv \/ Lose \/ Shut \/ End

Spec == Init /\ [][Next]_vars
=============================================================================
