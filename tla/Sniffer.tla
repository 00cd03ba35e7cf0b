------------------------------- MODULE Sniffer -------------------------------
(***************************************************************************)
(* loginUserSniffer (internal/gateway/dbuser.go): it is fed the client's    *)
(* bytes as the relay copies them, in chunks of any size, and looks for the *)
(* login's user name.                                                       *)
(*                                                                         *)
(* A client's stream is a sequence of frames [kind, len, parts]; kept are   *)
(* their lengths, which decide what a chunk completes, and the strings of a *)
(* login frame.  The buffer is a prefix of the stream, so its length tells  *)
(* what it holds.                                                           *)
(***************************************************************************)
EXTENDS Naturals, Sequences, SequencesExt

CONSTANTS
  Streams,     \* the streams of clients, [dbType, frames]
  SniffCap     \* sniffCap

VARIABLES
  stream,      \* the client's
  fed,         \* bytes written to the sniffer
  buf,         \* len(s.buf)
  done, user   \* s.done and s.user

vars == <<stream, fed, buf, done, user>>

frames == stream.frames
Offset(k) == FoldSeq(LAMBDA f, n : f.len + n, 0, SubSeq(frames, 1, k - 1))
Size == Offset(Len(frames) + 1)
More == [user |-> "", done |-> FALSE]
Found(u) == [user |-> u, done |-> TRUE]

\* pgUserFromParams: the value after the first key "user".
pgUserFromParams(parts) ==
  LET at == {j \in DOMAIN parts : j % 2 = 1 /\ j < Len(parts) /\ parts[j] = "user"}
  IN IF at = {} THEN "" ELSE parts[1 + CHOOSE j \in at : \A l \in at : j <= l]

\* The frame after the leading SSL and GSS requests; one past the last if the
\* client has sent nothing else.
FirstOther ==
  LET others == {k \in DOMAIN frames : frames[k].kind # "negotiation"}
  IN IF others = {} THEN Len(frames) + 1 ELSE CHOOSE k \in others : \A l \in others : k <= l

\* sniffPostgresUser on the first n bytes.
sniffPostgresUser(n) ==
  LET k == FirstOther
      f == frames[k]
  IN CASE n < Offset(k) + 8 -> More
       [] OTHER -> IF f.kind = "cancel" \/ f.len < 8 \/ f.len > SniffCap THEN Found("")
                   ELSE IF n < Offset(k) + f.len THEN More
                   ELSE Found(pgUserFromParams(f.parts))

\* sniffMySQLUser on the first n bytes: the first packet is the login if it is
\* long enough (an SSL request is not) and of protocol 4.1.
sniffMySQLUser(n) ==
  LET f == frames[1]
  IN CASE n < 4 -> More
       [] OTHER -> IF f.len < 4 + 33 THEN Found("")
                   ELSE IF n < f.len THEN More
                   ELSE Found(IF f.kind = "login41" THEN Head(f.parts) ELSE "")

Sniff(n) ==
  CASE stream.dbType = "postgres" -> sniffPostgresUser(n)
    [] stream.dbType = "mysql" -> sniffMySQLUser(n)
    [] OTHER -> Found("")

Init ==
  /\ stream \in Streams
  /\ fed = 0 /\ buf = 0 /\ done = FALSE /\ user = ""

CapFirstFeed(n) ==
  LET s == Sniff(n)
  IN IF n >= SniffCap THEN done' = TRUE /\ UNCHANGED user ELSE user' = s.user /\ done' = s.done

\* feed: parse what is there now, then give up if that took too much.
feed(n) ==
  LET s == Sniff(n)
  IN user' = s.user /\ done' = (s.done \/ n >= SniffCap)

\* tapReader: the relay's copy reads a chunk and writes it to the sniffer too.
Write ==
  /\ fed < Size
  /\ fed' \in (fed + 1)..Size
  /\ IF done THEN UNCHANGED <<buf, done, user>> ELSE buf' = fed' /\ feed(fed')
  /\ UNCHANGED stream

Next == Write
Spec == Init /\ [][Next]_vars
------------------------------------------------------------------------------
\* The login a client sends: the frame it is in and the name it gives.
LoginFrame == IF stream.dbType = "postgres" THEN FirstOther ELSE 1
Login ==
  LET f == frames[LoginFrame]
  IN IF LoginFrame \in DOMAIN frames /\ f.kind \in {"startup", "login41"}
       THEN IF f.kind = "startup" THEN pgUserFromParams(f.parts) ELSE Head(f.parts)
       ELSE ""

\* The sniffer is "fully best-effort: any protocol it cannot parse ... simply
\* yields ''" (dbuser.go): however the stream is cut into chunks, the name is
\* the client's login or empty; it is found by the end of every login that ends
\* within sniffCap; and no more than sniffCap and one chunk is ever buffered.
LoginAttributed ==
  /\ user \in {"", Login}
  /\ fed = Size /\ Login # "" /\ Offset(LoginFrame + 1) <= SniffCap => user = Login
  /\ (buf >= SniffCap => done) /\ buf <= fed
==============================================================================
