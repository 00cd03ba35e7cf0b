---------------------------- MODULE RelayProofs ----------------------------
(***************************************************************************)
(* Proofs about Relays.                                                     *)
(***************************************************************************)
EXTENDS Relays, TLAPS

\* A packet appended to those on their way, and the first of them taken.
LEMMA Appended ==
  ASSUME NEW S, NEW q \in Seq(S), NEW p \in S
  PROVE  /\ Append(q, p) \in Seq(S) /\ Append(q, p) # <<>>
         /\ Len(Append(q, p)) = Len(q) + 1 /\ Len(q) \in Nat
         /\ \A i \in 1..Len(q) : Append(q, p)[i] = q[i]
         /\ Append(q, p)[Len(q) + 1] = p
  OBVIOUS

LEMMA Taken ==
  ASSUME NEW S, NEW q \in Seq(S), q # <<>>
  PROVE  /\ Tail(q) \in Seq(S) /\ Head(q) = q[1] /\ Head(q) \in S
         /\ Len(q) \in Nat /\ Len(q) > 0 /\ Len(Tail(q)) = Len(q) - 1
         /\ \A i \in 1..(Len(q) - 1) : Tail(q)[i] = q[i + 1]
         /\ Tail(q) = <<>> <=> Len(q) = 1
  <1>1. Len(q) \in Nat /\ Len(q) > 0
    OBVIOUS
  <1>2. /\ Tail(q) \in Seq(S) /\ Head(q) = q[1] /\ Head(q) \in S
        /\ Len(Tail(q)) = Len(q) - 1
        /\ \A i \in 1..(Len(q) - 1) : Tail(q)[i] = q[i + 1]
    BY <1>1
  <1>3. Tail(q) = <<>> <=> Len(q) = 1
    <2>1. \A t \in Seq(S) : t = <<>> <=> Len(t) = 0
      OBVIOUS
    <2>2. Tail(q) = <<>> <=> Len(Tail(q)) = 0
      BY <1>2, <2>1, Zenon
    <2>3. Len(Tail(q)) = 0 <=> Len(q) = 1
      <3>1. \A a, b : b \in Nat /\ b > 0 /\ a = b - 1 => (a = 0 <=> b = 1)
        OBVIOUS
      <3> QED BY <1>1, <1>2, <3>1, Zenon
    <2> QED BY <2>2, <2>3, Zenon
  <1> QED BY <1>1, <1>2, <1>3, Zenon

\* What an empty sequence of packets is.
LEMMA NoPackets ==
  ASSUME NEW S, NEW q \in Seq(S)
  PROVE  q = <<>> <=> Len(q) = 0
  OBVIOUS

\* Places that agree take the same packets.
LEMMA AgreeTakes ==
  ASSUME NEW a, NEW l, NEW s, NEW b, NEW m, NEW u, NEW p,
         Agree(a, l, s, b, m, u), Takes(b, m, u, p)
  PROVE  Takes(a, l, s, p)
  BY Zenon DEF Agree, Takes

LEMMA AgreeTrans ==
  ASSUME NEW a, NEW l, NEW s, NEW b, NEW m, NEW u, NEW c, NEW k, NEW v,
         Agree(a, l, s, b, m, u), Agree(b, m, u, c, k, v)
  PROVE  Agree(a, l, s, c, k, v)
  BY Zenon DEF Agree

\* A packet of a response, sent: the walk goes on to where the server then is.
LEMMA EmitStep ==
  ASSUME IInv, NEW p \in Packet, NEW s \in Server,
         NEW o \in SUBSET {"okmore", "long", "err", "big"},
         Emit(p, s, o), Responding, nextSet' \in SetIds,
         KnownPacket(odd \cup o, p), Takes(srv.at, srv.left, CurrentSet, p),
         p.set \in {NoSet, CurrentSet},
         s.at \in Busy =>
           /\ Unmarked(p) /\ s.text = srv.text
           /\ s.at = "defs" => s.left > 0
           /\ s.at # "first" => nextSet' = nextSet
           /\ Agree(PlaceAfter(dep, p), p.n, p.set, s.at, s.left, CurrentSet),
         s.at \notin Busy => Mark(p) = {IF s.at = "idle" THEN "last" ELSE "infile"}
  PROVE  IInv'
  <1> DEFINE q == fromServer
             r == fromServer'
  <1>1. /\ TypeOK /\ KnownPackets /\ Turns /\ Ordered /\ HeadFits /\ LastFits
        /\ Tone /\ Flagged /\ Rows /\ Closing
    BY Zenon DEF IInv
  <1>2. /\ srvUp /\ r = Append(q, p) /\ srv' = s /\ odd' = odd \cup o
        /\ dep' = dep /\ waiting' = waiting /\ owes' = owes /\ cmd' = cmd
        /\ c2s' = c2s /\ queries' = queries /\ toServer' = toServer
        /\ srvUp' = srvUp /\ at' = at /\ left' = left /\ cols' = cols
        /\ bw' = bw /\ seen' = seen /\ copying' = copying /\ first' = first
    BY Zenon DEF Emit, cliVars, s2cVars, proxyVars
  <1>3. q \in Seq(Packet)
    BY <1>1, Zenon DEF TypeOK
  <1>4. /\ r \in Seq(Packet) /\ r # <<>> /\ Len(r) = Len(q) + 1 /\ Len(q) \in Nat
        /\ \A i \in 1..Len(q) : r[i] = q[i]
        /\ r[Len(q) + 1] = p
    BY <1>2, <1>3, Appended
  <1>5. q = <<>> <=> Len(q) = 0
    BY <1>3, NoPackets, Zenon
  <1> HIDE DEF q, r
  <1>6. Answering
    BY <1>1, Zenon DEF Turns, Answering, Asking, Filing, Ending, Responding, Busy
  <1>a. TypeOK'
    <2>1. /\ r \in Seq(Packet) /\ srv' \in Server /\ nextSet' \in SetIds
          /\ odd' \subseteq {"okmore", "long", "err", "big"}
      BY <1>1, <1>2, <1>4, SMT DEF TypeOK
    <2>2. /\ dep' \in BOOLEAN /\ waiting' \in BOOLEAN /\ owes' \in BOOLEAN
          /\ cmd' \in Commands \cup {"none", "data"} /\ c2s' \in Commands \cup {"none", "data"}
          /\ queries' \in 0..FlagCap /\ toServer' \in Commands \cup {"none", "data"}
      BY <1>1, <1>2, Zenon DEF TypeOK
    <2>3. /\ srvUp' \in BOOLEAN /\ left' \in 0..MaxCols /\ cols' \in Sets
          /\ at' \in {"top", "first", "defs", "eof", "rows", "raw", "ended"}
          /\ bw' \subseteq {"last", "infile"} /\ seen' \in [p : Packet, with : Sets]
          /\ copying' \in BOOLEAN /\ first' \in {"none", "c2s", "s2c", "lost"}
      BY <1>1, <1>2, Zenon DEF TypeOK
    <2> QED BY <2>1, <2>2, <2>3, Zenon DEF TypeOK, r
  <1>b. KnownPackets'
    <2>1. \A k \in Packet : KnownPacket(odd, k) => KnownPacket(odd \cup o, k)
      BY Zenon DEF KnownPacket
    <2>2. \A i \in 1..Len(q) : KnownPacket(odd \cup o, q[i])
      <3>1. \A i \in 1..Len(q) : q[i] \in Packet
        BY <1>3, SMT
      <3> QED BY <1>1, <2>1, <3>1, Zenon DEF KnownPackets, q
    <2>3. \A i \in 1..Len(r) : KnownPacket(odd \cup o, r[i])
      <3> SUFFICES ASSUME NEW i \in 1..Len(r) PROVE KnownPacket(odd \cup o, r[i])
        BY Zenon
      <3>1. CASE i \in 1..Len(q)
        BY <1>4, <2>2, <3>1, Zenon
      <3>2. CASE i = Len(q) + 1
        BY <1>4, <3>2, Zenon
      <3> QED BY <1>4, <3>1, <3>2, SMT
    <2> QED BY <1>2, <2>3, Zenon DEF KnownPackets, r
  <1>c. Turns'
    <2>1. CASE s.at \in Busy
      <3>1. \A i \in 1..Len(r) : Unmarked(r[i])
        <4>1. \A i \in 1..Len(q) : Unmarked(q[i])
          BY <1>6, Zenon DEF Answering, q
        <4> QED BY <1>4, <2>1, <4>1
      <3> QED BY <1>2, <1>6, <2>1, <3>1, Zenon DEF Turns, Answering, Silent, Responding, r
    <2>2. CASE s.at \notin Busy
      <3>1. \A i \in 1..(Len(r) - 1) : Unmarked(r[i])
        <4>1. \A i \in 1..Len(q) : Unmarked(q[i])
          BY <1>6, Zenon DEF Answering, q
        <4> QED BY <1>4, <4>1
      <3>2. Mark(r[Len(r)]) = {EndMark'}
        BY <1>2, <1>4, <2>2, Zenon DEF EndMark
      <3> QED BY <1>2, <1>4, <1>6, <2>2, <3>1, <3>2, Zenon
               DEF Turns, Answering, Ending, Silent, Responding, r
    <2> QED BY <2>1, <2>2, Zenon
  <1>d. q # <<>> => Agree(PlaceAfter(dep, q[Len(q)]), q[Len(q)].n, q[Len(q)].set,
                          srv.at, srv.left, CurrentSet)
    BY <1>1, Zenon DEF LastFits, q
  <1>e. Ordered'
    <2> SUFFICES ASSUME NEW i \in 1..(Len(r) - 1) PROVE Walk(dep, r[i], r[i + 1])
      BY <1>2, Zenon DEF Ordered, r
    <2>1. CASE i < Len(q)
      <3>1. Walk(dep, q[i], q[i + 1])
        BY <1>1, <1>4, <2>1, SMT DEF Ordered, q
      <3>2. i \in 1..Len(q) /\ i + 1 \in 1..Len(q)
        BY <1>4, <2>1, SMT
      <3> QED BY <1>4, <3>1, <3>2, Zenon
    <2>2. CASE i = Len(q)
      <3>1. q # <<>> /\ i \in 1..Len(q)
        BY <1>4, <1>5, <2>2, SMT
      <3>2. Takes(PlaceAfter(dep, q[i]), q[i].n, q[i].set, p)
        BY <1>d, <2>2, <3>1, AgreeTakes, Zenon
      <3> QED BY <1>4, <2>2, <3>1, <3>2, Zenon DEF Walk
    <2> QED BY <1>4, <2>1, <2>2, SMT
  <1>f. HeadFits'
    <2>1. CASE q = <<>>
      <3>1. Follows => Takes(Place, left, cols, p)
        <4>1. Follows => Agree(Place, left, cols, srv.at, srv.left, CurrentSet)
          BY <1>1, <2>1, Zenon DEF LastFits, q
        <4> QED BY <4>1, AgreeTakes, Zenon
      <3>2. r[1] = p
        BY <1>4, <1>5, <2>1, SMT
      <3> QED BY <1>2, <3>1, <3>2, Zenon DEF HeadFits, Follows, Lost, Passing, Place, r
    <2>2. CASE q # <<>>
      <3>1. r[1] = q[1]
        BY <1>4, <1>5, <2>2, SMT
      <3> QED BY <1>1, <1>2, <2>2, <3>1, Zenon
               DEF HeadFits, Follows, Lost, Passing, Place, q, r
    <2> QED BY <2>1, <2>2, Zenon
  <1>g. LastFits'
    <2>1. r[Len(r)] = p
      BY <1>4, Zenon
    <2>2. ASSUME s.at \in Busy
          PROVE  Agree(PlaceAfter(dep, p), p.n, p.set, s.at, s.left,
                       IF s.text THEN nextSet' ELSE BinarySet)
      <3>1. CASE s.at = "first"
        BY <2>2, <3>1, Zenon DEF Agree
      <3>2. CASE s.at # "first"
        BY <2>2, <3>2, Zenon DEF CurrentSet
      <3> QED BY <3>1, <3>2, Zenon
    <2> QED BY <1>2, <1>4, <2>1, <2>2, Zenon DEF LastFits, Responding, CurrentSet, r
  <1>h. Tone'
    <2>1. Follows => p.set # BinarySet
      BY <1>1 DEF Tone, CurrentSet, TypeOK, SetIds, NoSet, BinarySet
    <2>2. Passing /\ ~Unfollowed => p.set \notin SetIds
      BY <1>1 DEF Tone, CurrentSet, TypeOK, SetIds, NoSet, BinarySet
    <2>3. Follows => \A i \in 1..Len(r) : r[i].set # BinarySet
      BY <1>1, <1>4, <2>1, SMT DEF Tone, q
    <2>4. Passing /\ ~Unfollowed => \A i \in 1..Len(r) : r[i].set \notin SetIds
      BY <1>1, <1>4, <2>2, SMT DEF Tone, q
    <2>5. (Follows' <=> Follows) /\ (Passing' <=> Passing)
      BY <1>2, Zenon DEF Follows, Lost, Passing
    <2>6. s.at \in Busy => s.text = srv.text
      BY Zenon
    <2>7. ~Unfollowed' => ~Unfollowed
      BY <1>2, Zenon DEF Unfollowed
    <2> QED BY <1>1, <1>2, <2>3, <2>4, <2>5, <2>6, <2>7, Zenon DEF Tone, Responding, r
  <1>i. Flagged'
    BY <1>1, <1>2, <1>4, Zenon DEF Flagged, Lost, Asking, Filing, r
  <1>j. Rows'
    <2>1. odd' = {} => odd = {}
      BY <1>2, Zenon
    <2>2. s.at = "defs" => s.left > 0
      BY Zenon DEF Busy
    <2> QED BY <1>1, <1>2, <1>4, <2>1, <2>2, Zenon
             DEF Rows, RowsMasked, OnlyRowsRewritten, r
  <1>k. Closing'
    BY <1>1, <1>2, Zenon DEF Closing, Closed
  <1> QED BY <1>a, <1>b, <1>c, <1>e, <1>f, <1>g, <1>h, <1>i, <1>j, <1>k, Zenon DEF IInv

\* What serverToClient has read is gone from those on their way, and the turn
\* passes to the client with the packet that ends it, if that is flushed.
LEMMA ReadTurns ==
  ASSUME IInv, NEW p, NEW w, NEW f \in BOOLEAN, Write(p, w, f)
  PROVE  /\ Turns'
         /\ (Asking' \/ Filing') =>
              ~Unmarked(p) /\ f /\ c2s' = "none" /\ toServer' = "none"
         /\ bw' # {} => ~f
         /\ ~Responding /\ fromServer' = <<>> => ~Unmarked(p)
         /\ Responding \/ fromServer' # <<>> => Unmarked(p)
         /\ fromServer' = <<>> /\ ~Responding /\ f => Asking' \/ Filing'
  <1> DEFINE q == fromServer
             r == fromServer'
  <1>1. TypeOK /\ Turns /\ KnownPackets
    BY Zenon DEF IInv
  <1>2. /\ q # <<>> /\ p = Head(q) /\ r = Tail(q)
        /\ cmd' = cmd /\ c2s' = c2s /\ toServer' = toServer /\ srv' = srv
    BY Zenon DEF Write, srvVars
  <1>3. q \in Seq(Packet)
    BY <1>1, Zenon DEF TypeOK
  <1>4. /\ p = q[1] /\ p \in Packet /\ Len(q) \in Nat /\ Len(q) > 0
        /\ Len(r) = Len(q) - 1 /\ \A i \in 1..(Len(q) - 1) : r[i] = q[i + 1]
        /\ r = <<>> <=> Len(q) = 1
    BY <1>2, <1>3, Taken, Zenon
  <1>5. KnownPacket(odd, p)
    BY <1>1, <1>4, SMT DEF KnownPackets, q
  <1>6. \/ f /\ bw' = {} /\ Delivered(bw \cup Mark(p))
        \/ ~f /\ bw' = bw \cup Mark(p) /\ waiting' = waiting /\ owes' = owes
        \/ ~f /\ bw # {} /\ bw' = Mark(p) /\ Delivered(bw)
    BY Zenon DEF Write
  <1> HIDE DEF q, r
  <1>7. Answering \/ Ending
    BY <1>1, <1>2, Zenon DEF Turns, Asking, Filing, q
  <1>8. bw = {} /\ waiting /\ Silent
    BY <1>2, <1>7, Zenon DEF Answering, Ending, q
  <1>9. Unmarked(p) <=> Mark(p) = {}
    BY Zenon DEF Unmarked, Mark
  <1>10. CASE Unmarked(p)
    <2>1. bw' = {} /\ waiting' = waiting /\ owes' = owes
      <3>1. bw \cup Mark(p) = {} /\ bw = {} /\ owes = FALSE /\ waiting = TRUE
        BY <1>1, <1>8, <1>9, <1>10, Zenon DEF Silent, TypeOK
      <3> QED BY <1>6, <3>1, Zenon DEF Delivered
    <2>2. CASE Answering
      <3>1. \A i \in 1..Len(r) : Unmarked(r[i])
        BY <1>4, <2>2 DEF Answering, q
      <3>2. Answering'
        BY <1>2, <2>1, <2>2, <3>1, Zenon DEF Answering, Silent, Responding, q, r
      <3>3. Responding /\ ~Asking' /\ ~Filing'
        BY <2>2, <3>2, Zenon DEF Answering, Asking, Filing, Responding, Busy
      <3> QED BY <1>10, <2>1, <3>2, <3>3, Zenon DEF Turns
    <2>3. CASE Ending
      <3>1. Mark(q[Len(q)]) = {EndMark} /\ ~Responding
        BY <1>2, <2>3, Zenon DEF Ending, q
      <3>2. Len(q) > 1
        <4>1. Mark(q[Len(q)]) # {}
          BY <3>1, Zenon
        <4>2. Len(q) # 1
          BY <1>4, <1>9, <1>10, <4>1, Zenon
        <4> QED BY <1>4, <4>2, SMT
      <3>3. \A i \in 1..(Len(r) - 1) : Unmarked(r[i])
        BY <1>4, <2>3, SMT DEF Ending, q
      <3>4. r # <<>> /\ r[Len(r)] = q[Len(q)]
        BY <1>4, <3>2, SMT
      <3>5. Ending'
        BY <1>2, <2>1, <2>3, <3>1, <3>3, <3>4, Zenon
        DEF Ending, Silent, Responding, EndMark, q, r
      <3>6. ~Asking' /\ ~Filing'
        BY <3>4, Zenon DEF Asking, Filing, r
      <3> QED BY <1>10, <2>1, <3>1, <3>4, <3>5, <3>6, Zenon DEF Turns, r
    <2> QED BY <1>7, <2>2, <2>3, Zenon
  <1>11. CASE ~Unmarked(p)
    <2>1. Ending
      BY <1>4, <1>7, <1>11, SMT DEF Answering, q
    <2>2. Len(q) = 1 /\ r = <<>>
      BY <1>2, <1>4, <1>11, <2>1, SMT DEF Ending, q
    <2>3. Mark(p) = {EndMark} /\ ~Responding
      BY <1>2, <1>4, <2>1, <2>2, Zenon DEF Ending, q
    <2>4. srv.at \in {"idle", "file"}
      BY <1>1, <2>3, Zenon DEF TypeOK, Server, Responding, Busy
    <2>5. CASE ~f
      <3>1. bw' = {EndMark} /\ waiting' = waiting /\ owes' = owes
        BY <1>6, <1>8, <2>3, <2>5, Zenon
      <3>2. Ending'
        BY <1>2, <2>1, <2>2, <3>1, Zenon DEF Ending, Silent, Responding, EndMark, r
      <3>3. ~Asking' /\ ~Filing'
        BY <3>1, Zenon DEF Asking, Filing
      <3> QED BY <1>11, <2>2, <2>3, <2>5, <3>2, <3>3, Zenon DEF Turns, r
    <2>6. CASE f
      <3>1. /\ bw' = {} /\ waiting' = ("last" \notin {EndMark})
            /\ owes' = ("infile" \in {EndMark})
        <4>1. bw \cup Mark(p) = {EndMark} /\ waiting = TRUE /\ owes = FALSE
          BY <1>1, <1>8, <2>3, Zenon DEF Silent, TypeOK
        <4> QED BY <1>6, <2>6, <4>1 DEF Delivered
      <3>2. CASE srv.at = "idle"
        <4>1. ~waiting' /\ ~owes'
          <5>1. EndMark = "last"
            BY <3>2, Zenon DEF EndMark
          <5>2. ~("last" \notin {EndMark}) /\ ~("infile" \in {EndMark})
            BY <5>1, Zenon
          <5> QED BY <3>1, <5>2, Zenon
        <4> QED BY <1>2, <1>8, <1>11, <2>2, <2>3, <2>6, <3>1, <3>2, <4>1, Zenon
                 DEF Turns, Asking, Silent, r
      <3>3. CASE srv.at = "file"
        <4>1. waiting' = TRUE /\ owes' = TRUE
          BY <3>1, <3>3, Zenon DEF EndMark
        <4> QED BY <1>2, <1>8, <1>11, <2>2, <2>3, <2>6, <3>1, <3>3, <4>1, Zenon
                 DEF Turns, Filing, Silent, r
      <3> QED BY <2>4, <3>2, <3>3, Zenon
    <2> QED BY <2>5, <2>6, Zenon
  <1> QED BY <1>10, <1>11, Zenon

\* A read of serverToClient that leaves it where the walk is after p, or where
\* it no longer follows.
LEMMA ReadStep ==
  ASSUME IInv, NEW p, NEW w \in Sets, NEW f \in BOOLEAN, Write(p, w, f),
         at' \in {"top", "first", "defs", "eof", "rows", "raw"},
         left' \in 0..MaxCols, cols' \in Sets, queries' \in 0..FlagCap,
         Follows' => /\ Follows
                     /\ Unmarked(p) =>
                          Agree(Place', left', cols', PlaceAfter(dep, p), p.n, p.set),
         Passing' => Passing \/ ~Unmarked(p) \/ Unfollowed,
         at' = "raw" => "big" \in odd,
         ~Lost' => queries' <= 1 /\ (at' # "top" => queries' = 0),
         ~Lost' /\ ~Unmarked(p) /\ f => at' = "top" /\ queries' = 0,
         at' \in {"defs", "eof", "rows"} => cols' \in SetIds,
         p.t = "row" /\ p.set \in SetIds /\ odd = {} => w = p.set,
         w # NoSet => p.t = "row" /\ p.set \in SetIds
  PROVE  IInv'
  <1> DEFINE q == fromServer
             r == fromServer'
  <1>1. /\ TypeOK /\ KnownPackets /\ Turns /\ Ordered /\ HeadFits /\ LastFits
        /\ Tone /\ Flagged /\ Rows /\ Closing
    BY Zenon DEF IInv
  <1>2. /\ q # <<>> /\ p = Head(q) /\ r = Tail(q) /\ seen' = [p |-> p, with |-> w]
        /\ dep' = dep /\ cmd' = cmd /\ c2s' = c2s /\ toServer' = toServer
        /\ srv' = srv /\ nextSet' = nextSet /\ srvUp' = srvUp /\ odd' = odd
        /\ copying' = copying /\ first' = first /\ ~Closed
    BY Zenon DEF Write, srvVars, proxyVars
  <1>3. q \in Seq(Packet)
    BY <1>1, Zenon DEF TypeOK
  <1>4. /\ r \in Seq(Packet) /\ p = q[1] /\ p \in Packet
        /\ Len(q) \in Nat /\ Len(q) > 0
        /\ Len(r) = Len(q) - 1 /\ \A i \in 1..(Len(q) - 1) : r[i] = q[i + 1]
        /\ r = <<>> <=> Len(q) = 1
    BY <1>2, <1>3, Taken, Zenon
  <1>5. KnownPacket(odd, p)
    BY <1>1, <1>4, SMT DEF KnownPackets, q
  <1>6. /\ Turns'
        /\ (Asking' \/ Filing') =>
              ~Unmarked(p) /\ f /\ c2s' = "none" /\ toServer' = "none"
        /\ ~Responding /\ r = <<>> => ~Unmarked(p)
        /\ Responding \/ r # <<>> => Unmarked(p)
    BY ReadTurns, Zenon
  <1>7. (Responding' <=> Responding) /\ CurrentSet' = CurrentSet
    BY <1>2, Zenon DEF Responding, CurrentSet
  <1> HIDE DEF q, r
  <1>a. TypeOK'
    <2>1. /\ waiting' \in BOOLEAN /\ owes' \in BOOLEAN
          /\ bw' \subseteq {"last", "infile"}
      <3>1. waiting \in BOOLEAN /\ owes \in BOOLEAN /\ bw \subseteq {"last", "infile"}
        BY <1>1, Zenon DEF TypeOK
      <3>2. Mark(p) \subseteq {"last", "infile"}
        BY Zenon DEF Mark
      <3>3. ASSUME NEW m, Delivered(m) PROVE waiting' \in BOOLEAN /\ owes' \in BOOLEAN
        BY <3>1, <3>3, SMT DEF Delivered
      <3>4. \/ f /\ bw' = {} /\ Delivered(bw \cup Mark(p))
            \/ ~f /\ bw' = bw \cup Mark(p) /\ waiting' = waiting /\ owes' = owes
            \/ ~f /\ bw # {} /\ bw' = Mark(p) /\ Delivered(bw)
        BY Zenon DEF Write
      <3> QED BY <3>1, <3>2, <3>3, <3>4, Zenon
    <2>2. seen' \in [p : Packet, with : Sets]
      BY <1>2, <1>4, Zenon
    <2>3. at' \in {"top", "first", "defs", "eof", "rows", "raw", "ended"}
      BY Zenon
    <2> QED BY <1>1, <1>2, <1>4, <2>1, <2>2, <2>3, Zenon DEF TypeOK, r
  <1>b. KnownPackets'
    <2>1. \A i \in 1..Len(r) : KnownPacket(odd, r[i])
      BY <1>1, <1>4, SMTT(30) DEF KnownPackets, q
    <2> QED BY <1>2, <2>1, Zenon DEF KnownPackets, r
  <1>c. Ordered'
    <2>1. \A i \in 1..(Len(r) - 1) : Walk(dep, r[i], r[i + 1])
      <3>1. \A i \in 1..(Len(q) - 1) : Walk(dep, q[i], q[i + 1])
        BY <1>1, Zenon DEF Ordered, q
      <3>2. ASSUME NEW i \in 1..(Len(r) - 1)
            PROVE  /\ i + 1 \in 1..(Len(q) - 1)
                   /\ r[i] = q[i + 1] /\ r[i + 1] = q[i + 1 + 1]
        BY <1>4, SMT
      <3> QED BY <3>1, <3>2, Zenon
    <2> QED BY <1>2, <2>1, Zenon DEF Ordered, r
  <1>d. HeadFits'
    <2> SUFFICES ASSUME r # <<>>, Follows' PROVE Takes(Place', left', cols', r[1])
      BY Zenon DEF HeadFits, r
    <2>1. Walk(dep, q[1], q[2]) /\ r[1] = q[2]
      BY <1>1, <1>4, SMT DEF Ordered, q
    <2>2. Takes(PlaceAfter(dep, p), p.n, p.set, r[1])
      BY <1>4, <2>1, Zenon DEF Walk
    <2>3. Agree(Place', left', cols', PlaceAfter(dep, p), p.n, p.set)
      BY <1>6, Zenon
    <2> QED BY <2>2, <2>3, AgreeTakes, Zenon
  <1>e. LastFits'
    <2>1. CASE r = <<>>
      <3>1. Responding => Agree(PlaceAfter(dep, p), p.n, p.set, srv.at, srv.left, CurrentSet)
        BY <1>1, <1>2, <1>4, <2>1, Zenon DEF LastFits, q
      <3>2. Responding /\ Follows' =>
              Agree(Place', left', cols', srv.at, srv.left, CurrentSet)
        <4> SUFFICES ASSUME Responding, Follows'
                     PROVE  Agree(Place', left', cols', srv.at, srv.left, CurrentSet)
          BY Zenon
        <4>1. Agree(Place', left', cols', PlaceAfter(dep, p), p.n, p.set)
          BY <1>6, Zenon
        <4> QED BY <3>1, <4>1, SMT DEF Agree
      <3> QED BY <1>2, <1>7, <2>1, <3>2, Zenon DEF LastFits, r
    <2>2. CASE r # <<>>
      <3>1. r[Len(r)] = q[Len(q)]
        BY <1>4, <2>2, SMT
      <3> QED BY <1>1, <1>2, <1>7, <2>2, <3>1, Zenon DEF LastFits, q, r
    <2> QED BY <2>1, <2>2, Zenon
  <1>f. Tone'
    <2>1. Follows' => /\ \A i \in 1..Len(r) : r[i].set # BinarySet
                      /\ Responding => srv.text
      BY <1>1, <1>4, SMT DEF Tone, q
    <2>2. Passing' /\ ~Unfollowed =>
            /\ \A i \in 1..Len(r) : r[i].set \notin SetIds
            /\ Responding => ~srv.text
      <3>1. CASE Passing
        BY <1>1, <1>4, <3>1, SMT DEF Tone, q
      <3>2. CASE ~Unmarked(p)
        <4>1. ~Responding /\ Len(r) = 0
          BY <1>4, <1>6, <3>2, SMT
        <4> QED BY <4>1, SMTT(30)
      <3> QED BY <3>1, <3>2, Zenon
    <2> QED BY <1>2, <1>7, <2>1, <2>2, Zenon DEF Tone, Unfollowed, r
  <1>g. Flagged'
    <2>1. ~Lost' /\ (Asking' \/ Filing') =>
            at' = "top" /\ queries' = 0 /\ c2s' = "none" /\ toServer' = "none"
      BY <1>6, Zenon
    <2>2. ~Lost' /\ (Asking' \/ Filing') =>
            at' = "top" /\ (queries' = 1 <=> "query" \in {c2s', toServer'})
      BY <2>1, SMT
    <2> QED BY <2>2, Zenon DEF Flagged
  <1>h. Rows'
    <2>1. seen'.p = p /\ seen'.with = w
      BY <1>2, Zenon
    <2>2. ~Unmarked(p) => p.t # "row"
      BY <1>5, Zenon DEF KnownPacket, Unmarked
    <2>3. srv.at = "defs" => srv.left > 0
      BY <1>1, Zenon DEF Rows
    <2> QED BY <1>2, <1>6, <1>7, <2>1, <2>2, <2>3, ZenonT(30)
             DEF Rows, RowsMasked, OnlyRowsRewritten, r
  <1>i. Closing'
    <2>1. at' # "ended" /\ ~Closed'
      BY <1>2, Zenon DEF Closed
    <2> QED BY <1>2, <2>1, Zenon DEF Closing, Closed
  <1> QED BY <1>6, <1>a, <1>b, <1>c, <1>d, <1>e, <1>f, <1>g, <1>h, <1>i, Zenon DEF IInv

\* The packet that is read next fits where serverToClient is, if it follows.
LEMMA NextPacket ==
  ASSUME IInv, fromServer # <<>>
  PROVE  /\ Head(fromServer) \in Packet /\ KnownPacket(odd, Head(fromServer))
         /\ Follows => /\ Takes(Place, left, cols, Head(fromServer))
                       /\ Head(fromServer).set # BinarySet
         /\ Passing /\ ~Unfollowed => Head(fromServer).set \notin SetIds
         /\ Len(fromServer) = 1 \/ Unmarked(Head(fromServer))
  <1>1. TypeOK /\ KnownPackets /\ HeadFits /\ Tone /\ Turns
    BY Zenon DEF IInv
  <1>2. /\ Head(fromServer) = fromServer[1] /\ Head(fromServer) \in Packet
        /\ Len(fromServer) \in Nat /\ Len(fromServer) > 0
    BY <1>1, Taken, Zenon DEF TypeOK
  <1>3. 1 \in 1..Len(fromServer) /\ (Len(fromServer) # 1 => 1 \in 1..(Len(fromServer) - 1))
    <2>1. \A n \in Nat : n > 0 => 1 \in 1..n /\ (n # 1 => 1 \in 1..(n - 1))
      OBVIOUS
    <2> QED BY <1>2, <2>1, Zenon
  <1>4. Len(fromServer) = 1 \/ Unmarked(fromServer[1])
    BY <1>1, <1>3, Zenon DEF Turns, Asking, Filing, Answering, Ending
  <1> QED BY <1>1, <1>2, <1>3, <1>4, Zenon DEF KnownPackets, HeadFits, Tone

LEMMA Zeros == NoSet \in Sets /\ 0 \in 0..MaxCols /\ 0 \in 0..MaxRows /\ 0 \in 0..MaxSets
  BY RelaysAssumption DEF Sets, MySQLAssumption

\* A packet or a server's state has its type when its fields do.
LEMMA PacketTypes ==
  ASSUME NEW p \in Packet, NEW u \in Sets, NEW n \in 0..MaxCols, NEW b \in BOOLEAN
  PROVE  /\ [p EXCEPT !.last = TRUE] \in Packet /\ [p EXCEPT !.more = TRUE] \in Packet
         /\ [p EXCEPT !.set = u] \in Packet
         /\ [p EXCEPT !.set = u, !.n = n] \in Packet
         /\ [p EXCEPT !.set = u, !.full = b] \in Packet
         /\ [p EXCEPT !.set = u, !.last = TRUE] \in Packet
         /\ [p EXCEPT !.set = u, !.more = TRUE] \in Packet
  BY Zenon DEF Packet

LEMMA PlainPacket ==
  ASSUME NEW t \in {"ok", "err", "infile", "cols", "def", "eof", "row", "end"}
  PROVE  P(t) \in Packet
  BY Zeros, Zenon DEF P, Packet

LEMMA ServerTypes ==
  ASSUME NEW s \in Server, NEW a \in {"idle", "first", "defs", "eof", "rows", "file"},
         NEW l \in 0..MaxCols, NEW k \in 0..MaxSets, NEW r \in 0..MaxRows
  PROVE  /\ [s EXCEPT !.at = a] \in Server /\ [s EXCEPT !.sets = k] \in Server
         /\ [s EXCEPT !.rows = r] \in Server /\ [s EXCEPT !.left = l, !.at = a] \in Server
         /\ [s EXCEPT !.at = a, !.left = l, !.sets = k, !.rows = r] \in Server
  BY Zenon DEF Server

LEMMA ServerFields ==
  ASSUME NEW s \in Server
  PROVE  /\ s.at \in {"idle", "first", "defs", "eof", "rows", "file"} /\ s.text \in BOOLEAN
         /\ s.left \in 0..MaxCols /\ s.sets \in 0..MaxSets /\ s.rows \in 0..MaxRows
  BY Zenon DEF Server

LEMMA IdleServer == Idle \in Server /\ Idle.at = "idle" /\ Idle.at \notin Busy
  <1>1. /\ Idle.at = "idle" /\ Idle.text = FALSE /\ Idle.left = 0 /\ Idle.sets = 0
        /\ Idle.rows = 0
    BY Zenon DEF Idle
  <1>2. 0 \in 0..MaxCols /\ 0 \in 0..MaxSets /\ 0 \in 0..MaxRows
    BY RelaysAssumption DEF MySQLAssumption
  <1> QED BY <1>1, <1>2, Zenon DEF Idle, Server, Busy

\* The current result set is a text set of its own or the binary one.
LEMMA CurrentSets ==
  ASSUME TypeOK
  PROVE  CurrentSet \in Sets /\ CurrentSet # NoSet
  BY DEF TypeOK, CurrentSet, Sets, SetIds, BinarySet, NoSet

LEMMA ServerFirstStep ==
  ASSUME IInv, ServerFirst
  PROVE  IInv'
  <1>1. TypeOK /\ srv.at = "first" /\ srv \in Server /\ nextSet \in SetIds
    BY Zenon DEF IInv, TypeOK, ServerFirst
  <1>2. Responding
    BY <1>1, Zenon DEF Responding, Busy
  <1>3. CASE Ends("ok") \/ Ends("err")
    <2> PICK t \in {"ok", "err"} : Ends(t)
      BY <1>3, Zenon
    <2> DEFINE p == [P(t) EXCEPT !.last = TRUE]
    <2>1. Emit(p, Idle, {}) /\ nextSet' = nextSet
      BY Zenon DEF Ends
    <2>2. p \in Packet
      BY PlainPacket, PacketTypes, Zeros, Zenon
    <2>3. p.t = t /\ p.last /\ ~p.more /\ ~p.full /\ p.set = NoSet
      BY Zenon DEF P
    <2> HIDE DEF p
    <2>4. KnownPacket(odd \cup {}, p)
      BY <2>2, <2>3, Zenon DEF KnownPacket
    <2>5. Takes(srv.at, srv.left, CurrentSet, p)
      BY <1>1, <2>3, Zenon DEF Takes
    <2>6. Mark(p) = {IF Idle.at = "idle" THEN "last" ELSE "infile"}
      BY <2>3, IdleServer, Zenon DEF Mark
    <2> QED BY <1>1, <1>2, <2>1, <2>2, <2>3, <2>4, <2>5, <2>6, IdleServer, EmitStep, Zenon
  <1>4. CASE /\ Emit(P("infile"), [srv EXCEPT !.at = "file"], {})
             /\ UNCHANGED nextSet
    <2> DEFINE p == P("infile")
               s == [srv EXCEPT !.at = "file"]
    <2>1. p \in Packet
      BY PlainPacket, Zenon
    <2>2. s \in Server /\ s.at = "file"
      BY <1>1, SMT DEF Server
    <2>3. p.t = "infile" /\ ~p.last /\ ~p.more /\ ~p.full /\ p.set = NoSet
      BY Zenon DEF P
    <2> HIDE DEF p, s
    <2>4. KnownPacket(odd \cup {}, p)
      BY <2>1, <2>3, Zenon DEF KnownPacket
    <2>5. Takes(srv.at, srv.left, CurrentSet, p)
      BY <1>1, <2>3, Zenon DEF Takes
    <2>6. Mark(p) = {IF s.at = "idle" THEN "last" ELSE "infile"} /\ s.at \notin Busy
      BY <2>2, <2>3, Zenon DEF Mark, Busy
    <2>7. Emit(p, s, {})
      BY <1>4, Zenon DEF p, s
    <2> QED BY <1>1, <1>2, <1>4, <2>1, <2>2, <2>3, <2>4, <2>5, <2>6, <2>7, EmitStep, Zenon
  <1>5. CASE /\ srv.sets + 1 < MaxSets
             /\ Emit([P("ok") EXCEPT !.more = TRUE], [srv EXCEPT !.sets = @ + 1], {"okmore"})
             /\ UNCHANGED nextSet
    <2> DEFINE p == [P("ok") EXCEPT !.more = TRUE]
               s == [srv EXCEPT !.sets = @ + 1]
    <2>1. p \in Packet
      BY PlainPacket, PacketTypes, Zeros, Zenon
    <2>2. s \in Server /\ s.at = "first" /\ s.text = srv.text
      <3>1. srv.sets + 1 \in 0..MaxSets
        BY <1>1, <1>5, ServerFields, RelaysAssumption DEF MySQLAssumption
      <3>2. s \in Server
        BY <1>1, <3>1, ServerTypes, Zeros, Zenon
      <3> QED BY <1>1, <3>2, SMT DEF Server
    <2>3. p.t = "ok" /\ ~p.last /\ p.more /\ ~p.full /\ p.set = NoSet
      BY Zenon DEF P
    <2>7. Emit(p, s, {"okmore"})
      BY <1>5, Zenon DEF p, s
    <2> HIDE DEF p, s
    <2>4. KnownPacket(odd \cup {"okmore"}, p)
      BY <2>1, <2>3, Zenon DEF KnownPacket
    <2>5. Takes(srv.at, srv.left, CurrentSet, p)
      BY <1>1, <2>3, Zenon DEF Takes
    <2>6. /\ s.at \in Busy /\ s.at # "defs" /\ Unmarked(p)
          /\ Agree(PlaceAfter(dep, p), p.n, p.set, s.at, s.left, CurrentSet)
      BY <2>2, <2>3, Zenon DEF Busy, Unmarked, Agree, PlaceAfter
    <2>8. {"okmore"} \in SUBSET {"okmore", "long", "err", "big"}
      BY Zenon
    <2> QED BY <1>1, <1>2, <1>5, <2>1, <2>2, <2>3, <2>4, <2>5, <2>6, <2>7, <2>8, EmitStep, Zenon
  <1>6. ASSUME NEW n \in 1..MaxCols, srv.sets < MaxSets, UNCHANGED nextSet,
               Emit([P("cols") EXCEPT !.set = CurrentSet, !.n = n],
                    [srv EXCEPT !.at = "defs", !.left = n, !.sets = @ + 1, !.rows = 0], {})
        PROVE  IInv'
    <2> DEFINE p == [P("cols") EXCEPT !.set = CurrentSet, !.n = n]
               s == [srv EXCEPT !.at = "defs", !.left = n, !.sets = @ + 1, !.rows = 0]
    <2>1. CurrentSet \in Sets /\ CurrentSet # NoSet /\ n \in 0..MaxCols /\ n > 0
      BY <1>1, CurrentSets, RelaysAssumption DEF MySQLAssumption
    <2>8. p \in Packet
      BY <2>1, PlainPacket, PacketTypes, Zenon
    <2>2. s \in Server /\ s.at = "defs" /\ s.text = srv.text /\ s.left = n
      <3>1. srv.sets + 1 \in 0..MaxSets
        BY <1>1, <1>6, ServerFields, RelaysAssumption DEF MySQLAssumption
      <3>2. s \in Server
        BY <1>1, <2>1, <3>1, ServerTypes, Zeros, Zenon
      <3> QED BY <1>1, <3>2, SMT DEF Server
    <2>3. p.t = "cols" /\ ~p.last /\ ~p.more /\ ~p.full /\ p.set = CurrentSet /\ p.n = n
      BY <2>1, Zenon DEF P
    <2>7. Emit(p, s, {})
      BY <1>6, Zenon DEF p, s
    <2> HIDE DEF p, s
    <2>4. KnownPacket(odd \cup {}, p)
      BY <2>1, <2>3, <2>8, Zenon DEF KnownPacket
    <2>5. Takes(srv.at, srv.left, CurrentSet, p)
      BY <1>1, <2>3, Zenon DEF Takes
    <2>6. /\ s.at \in Busy /\ s.left > 0 /\ Unmarked(p)
          /\ Agree(PlaceAfter(dep, p), p.n, p.set, s.at, s.left, CurrentSet)
      BY <2>1, <2>2, <2>3, Zenon DEF Busy, Unmarked, Agree, PlaceAfter
    <2> QED BY <1>1, <1>2, <1>6, <2>2, <2>3, <2>4, <2>5, <2>6, <2>7, <2>8, EmitStep, Zenon
  <1> QED BY <1>3, <1>4, <1>5, <1>6, ZenonT(30) DEF ServerFirst

LEMMA ServerDefsStep ==
  ASSUME IInv, ServerDefs
  PROVE  IInv'
  <1> DEFINE p == [P("def") EXCEPT !.set = CurrentSet, !.n = srv.left - 1]
             a == IF srv.left > 1 THEN "defs" ELSE IF dep THEN "rows" ELSE "eof"
             s == [srv EXCEPT !.left = srv.left - 1, !.at = a]
  <1>1. /\ TypeOK /\ srv.at = "defs" /\ srv \in Server /\ nextSet \in SetIds
        /\ srv.left > 0 /\ dep \in BOOLEAN
    BY Zenon DEF IInv, TypeOK, ServerDefs, Rows
  <1>2. Responding
    BY <1>1, Zenon DEF Responding, Busy
  <1>3. /\ CurrentSet \in Sets /\ CurrentSet # NoSet /\ srv.left - 1 \in 0..MaxCols
        /\ srv.left \in Nat
    BY <1>1, CurrentSets, ServerFields, RelaysAssumption DEF MySQLAssumption
  <1>4. Emit(p, s, {}) /\ nextSet' = nextSet
    BY <1>1, Zenon DEF ServerDefs
  <1>5. p \in Packet
    BY <1>3, PlainPacket, PacketTypes, Zenon
  <1>6. /\ p.t = "def" /\ ~p.last /\ ~p.more /\ ~p.full /\ p.set = CurrentSet
        /\ p.n = srv.left - 1
    BY <1>3, Zenon DEF P
  <1>7. a \in {"defs", "rows", "eof"} /\ s \in Server
    <2>1. a \in {"defs", "rows", "eof"}
      BY Zenon
    <2> HIDE DEF a
    <2>2. a \in {"idle", "first", "defs", "eof", "rows", "file"}
      BY <2>1, Zenon
    <2> QED BY <1>1, <1>3, <2>1, <2>2, ServerTypes, Zeros, Zenon
  <1>8. s.at = a /\ s.text = srv.text /\ s.left = srv.left - 1
    BY <1>1, <1>7, SMT DEF Server
  <1> HIDE DEF p, s
  <1>9. KnownPacket(odd \cup {}, p)
    BY <1>3, <1>5, <1>6, Zenon DEF KnownPacket
  <1>10. Takes(srv.at, srv.left, CurrentSet, p)
    BY <1>1, <1>3, <1>6, SMT DEF Takes
  <1>11. /\ s.at \in Busy /\ Unmarked(p) /\ (s.at = "defs" => s.left > 0)
         /\ Agree(PlaceAfter(dep, p), p.n, p.set, s.at, s.left, CurrentSet)
    BY <1>1, <1>3, <1>6, <1>8, SMT DEF Busy, Unmarked, Agree, PlaceAfter
  <1> HIDE DEF a
  <1> QED BY <1>1, <1>2, <1>4, <1>5, <1>6, <1>7, <1>8, <1>9, <1>10, <1>11, EmitStep, Zenon

LEMMA ServerEOFStep ==
  ASSUME IInv, ServerEOF
  PROVE  IInv'
  <1> DEFINE p == [P("eof") EXCEPT !.set = CurrentSet]
             s == [srv EXCEPT !.at = "rows"]
  <1>1. TypeOK /\ srv.at = "eof" /\ srv \in Server /\ nextSet \in SetIds
    BY Zenon DEF IInv, TypeOK, ServerEOF
  <1>2. Responding
    BY <1>1, Zenon DEF Responding, Busy
  <1>3. CurrentSet \in Sets /\ CurrentSet # NoSet
    BY <1>1, CurrentSets, Zenon
  <1>4. Emit(p, s, {}) /\ nextSet' = nextSet
    BY Zenon DEF ServerEOF
  <1>5. p \in Packet
    BY <1>3, PlainPacket, PacketTypes, Zeros, Zenon
  <1>6. p.t = "eof" /\ ~p.last /\ ~p.more /\ ~p.full /\ p.set = CurrentSet
    BY <1>3, Zenon DEF P
  <1>7. s \in Server /\ s.at = "rows" /\ s.text = srv.text
    BY <1>1, SMT DEF Server
  <1> HIDE DEF p, s
  <1>9. KnownPacket(odd \cup {}, p)
    BY <1>3, <1>5, <1>6, Zenon DEF KnownPacket
  <1>10. Takes(srv.at, srv.left, CurrentSet, p)
    BY <1>1, <1>6, SMT DEF Takes
  <1>11. /\ s.at \in Busy /\ Unmarked(p) /\ s.at # "defs"
         /\ Agree(PlaceAfter(dep, p), p.n, p.set, s.at, s.left, CurrentSet)
    BY <1>6, <1>7, SMT DEF Busy, Unmarked, Agree, PlaceAfter
  <1> QED BY <1>1, <1>2, <1>4, <1>5, <1>6, <1>7, <1>9, <1>10, <1>11, EmitStep, Zenon

\* The rows of a result set and what ends them.
LEMMA ServerRowsStep ==
  ASSUME IInv, ServerRows
  PROVE  IInv'
  <1>1. TypeOK /\ srv.at = "rows" /\ srv \in Server /\ nextSet \in SetIds
    BY Zenon DEF IInv, TypeOK, ServerRows
  <1>2. Responding
    BY <1>1, Zenon DEF Responding, Busy
  <1>3. CurrentSet \in Sets /\ CurrentSet # NoSet /\ 3 - nextSet \in SetIds
    BY <1>1, CurrentSets DEF SetIds
  <1>4. ASSUME NEW o \in SUBSET {"big"}, srv.rows < MaxRows, UNCHANGED nextSet,
               Emit([P("row") EXCEPT !.set = CurrentSet, !.full = (o # {})],
                    [srv EXCEPT !.rows = @ + 1], o)
        PROVE  IInv'
    <2> DEFINE b == o # {}
               p == [P("row") EXCEPT !.set = CurrentSet, !.full = b]
               s == [srv EXCEPT !.rows = @ + 1]
    <2>1. /\ b \in BOOLEAN /\ o \in SUBSET {"okmore", "long", "err", "big"}
          /\ b => "big" \in odd \cup o
      <3>1. b \in BOOLEAN
        BY Zenon
      <3>2. o \in SUBSET {"okmore", "long", "err", "big"}
        BY SMT
      <3>3. o # {} => "big" \in o
        <4>1. o # {} => \E x : x \in o
          BY Zenon
        <4>2. \A x \in o : x = "big"
          BY Zenon
        <4> QED BY <4>1, <4>2, Zenon
      <3> QED BY <3>1, <3>2, <3>3, Zenon
    <2>7. Emit(p, s, o) /\ nextSet' = nextSet
      BY <1>4, Zenon
    <2> HIDE DEF b
    <2>2. p \in Packet
      BY <1>3, <2>1, PlainPacket, PacketTypes, Zeros, Zenon
    <2>3. p.t = "row" /\ ~p.last /\ ~p.more /\ p.full = b /\ p.set = CurrentSet
      BY <1>3, Zenon DEF P
    <2>4. s \in Server /\ s.at = "rows" /\ s.text = srv.text
      <3>1. srv.rows + 1 \in 0..MaxRows
        BY <1>1, <1>4, ServerFields, RelaysAssumption DEF MySQLAssumption
      <3>2. s \in Server
        BY <1>1, <3>1, ServerTypes, Zeros, Zenon
      <3> QED BY <1>1, <3>2, SMT DEF Server
    <2> HIDE DEF p, s
    <2>5. KnownPacket(odd \cup o, p)
      BY <1>3, <2>1, <2>2, <2>3, Zenon DEF KnownPacket
    <2>6. Takes(srv.at, srv.left, CurrentSet, p)
      BY <1>1, <2>3, SMT DEF Takes
    <2>8. /\ s.at \in Busy /\ Unmarked(p) /\ s.at # "defs"
          /\ Agree(PlaceAfter(dep, p), p.n, p.set, s.at, s.left, CurrentSet)
      BY <2>3, <2>4, SMT DEF Busy, Unmarked, Agree, PlaceAfter
    <2> QED BY <1>1, <1>2, <2>1, <2>2, <2>3, <2>4, <2>5, <2>6, <2>7, <2>8, EmitStep, Zenon
  <1>5. ASSUME NEW t \in {"end", "err"}, NEW o \in SUBSET {"err"}, nextSet' = 3 - nextSet,
               Emit([P(t) EXCEPT !.set = CurrentSet, !.last = TRUE], Idle, o)
        PROVE  IInv'
    <2> DEFINE p == [P(t) EXCEPT !.set = CurrentSet, !.last = TRUE]
    <2>1. o \in SUBSET {"okmore", "long", "err", "big"}
      BY Zenon
    <2>7. Emit(p, Idle, o) /\ nextSet' \in SetIds
      BY <1>3, <1>5, Zenon
    <2>2. p \in Packet
      BY <1>3, PlainPacket, PacketTypes, Zeros, Zenon
    <2>3. p.t = t /\ p.last /\ ~p.more /\ ~p.full /\ p.set = CurrentSet
      BY <1>3, Zenon DEF P
    <2> HIDE DEF p
    <2>4. KnownPacket(odd \cup o, p)
      BY <1>3, <2>2, <2>3, Zenon DEF KnownPacket
    <2>5. Takes(srv.at, srv.left, CurrentSet, p)
      BY <1>1, <2>3, SMT DEF Takes
    <2>6. Mark(p) = {IF Idle.at = "idle" THEN "last" ELSE "infile"}
      BY <2>3, IdleServer, Zenon DEF Mark
    <2> QED BY <1>1, <1>2, <2>1, <2>2, <2>3, <2>4, <2>5, <2>6, <2>7, IdleServer, EmitStep, Zenon
  <1>6. ASSUME nextSet' = 3 - nextSet,
               Emit([P("end") EXCEPT !.set = CurrentSet, !.more = TRUE],
                    [srv EXCEPT !.at = "first"], {})
        PROVE  IInv'
    <2> DEFINE p == [P("end") EXCEPT !.set = CurrentSet, !.more = TRUE]
               s == [srv EXCEPT !.at = "first"]
    <2>7. Emit(p, s, {}) /\ nextSet' \in SetIds
      BY <1>3, <1>6, Zenon
    <2>2. p \in Packet
      BY <1>3, PlainPacket, PacketTypes, Zeros, Zenon
    <2>3. p.t = "end" /\ ~p.last /\ p.more /\ ~p.full /\ p.set = CurrentSet
      BY <1>3, Zenon DEF P
    <2>4. s \in Server /\ s.at = "first" /\ s.text = srv.text
      BY <1>1, SMT DEF Server
    <2> HIDE DEF p, s
    <2>5. KnownPacket(odd \cup {}, p)
      BY <1>3, <2>2, <2>3, Zenon DEF KnownPacket
    <2>6. Takes(srv.at, srv.left, CurrentSet, p)
      BY <1>1, <2>3, SMTT(30) DEF Takes
    <2>8. /\ s.at \in Busy /\ Unmarked(p) /\ s.at # "defs"
          /\ Agree(PlaceAfter(dep, p), p.n, p.set, s.at, s.left, CurrentSet)
      BY <2>3, <2>4, SMT DEF Busy, Unmarked, Agree, PlaceAfter
    <2> QED BY <1>1, <1>2, <2>2, <2>3, <2>4, <2>5, <2>6, <2>7, <2>8, EmitStep, Zenon
  <1>7. {} \in SUBSET {"err"} /\ {"err"} \in SUBSET {"err"}
    BY Zenon
  <1> QED BY <1>4, <1>5, <1>6, <1>7, ZenonT(30) DEF ServerRows

\* The steps of the client and of clientToServer: nothing is on its way down.
LEMMA UpwardStep ==
  ASSUME IInv,
         (\E k \in Commands : SendCommand(k)) \/ SendFile \/ C2SFlag \/ C2SWrite
  PROVE  IInv'
  <1>1. /\ TypeOK /\ KnownPackets /\ Turns /\ Ordered /\ HeadFits /\ LastFits
        /\ Tone /\ Flagged /\ Rows /\ Closing
    BY Zenon DEF IInv
  <1>2. /\ dep' = dep /\ srv' = srv /\ nextSet' = nextSet /\ srvUp' = srvUp
        /\ odd' = odd /\ fromServer' = fromServer /\ at' = at /\ left' = left
        /\ cols' = cols /\ bw' = bw /\ seen' = seen /\ copying' = copying /\ first' = first
    BY Zenon DEF SendCommand, SendFile, C2SFlag, C2SWrite, srvVars, s2cVars, proxyVars
  <1>3. Asking \/ Filing
    <2>1. Silent /\ waiting => FALSE
      BY Zenon DEF SendCommand, SendFile, C2SFlag, C2SWrite, Silent
    <2> QED BY <1>1, <2>1, Zenon DEF Turns, Answering, Ending
  <1>4. fromServer = <<>> /\ bw = {} /\ ~Responding
    BY <1>3, Zenon DEF Asking, Filing, Responding, Busy
  <1>5. Asking' \/ Filing'
    <2>1. CASE \E k \in Commands : SendCommand(k)
      BY <1>2, <1>3, <2>1 DEF SendCommand, Asking, Filing, Silent, srvVars
    <2>2. CASE SendFile
      BY <1>2, <1>3, <2>2, Zenon DEF SendFile, Asking, Filing, Silent, srvVars
    <2>3. CASE C2SFlag
      BY <1>2, <1>3, <2>3, Zenon DEF C2SFlag, Asking, Filing, Silent, srvVars
    <2>4. CASE C2SWrite
      BY <1>2, <1>3, <2>4, Zenon DEF C2SWrite, Asking, Filing, Silent, cliVars
    <2> QED BY <2>1, <2>2, <2>3, <2>4, Zenon
  <1>6. /\ queries' \in 0..FlagCap /\ waiting' \in BOOLEAN /\ owes' \in BOOLEAN
        /\ cmd' \in Commands \cup {"none", "data"} /\ c2s' \in Commands \cup {"none", "data"}
        /\ toServer' \in Commands \cup {"none", "data"}
    <2>1. queries' \in 0..FlagCap
      <3>1. queries' = queries \/ (queries' = queries + 1 /\ queries < FlagCap)
        BY Zenon DEF SendCommand, SendFile, C2SFlag, C2SWrite
      <3>2. queries \in 0..FlagCap
        BY <1>1, Zenon DEF TypeOK
      <3> QED BY <3>1, <3>2, RelaysAssumption, SMT DEF MySQLAssumption
    <2>2. waiting' \in BOOLEAN /\ owes' \in BOOLEAN
      BY <1>1, Zenon DEF TypeOK, SendCommand, SendFile, C2SFlag, C2SWrite, cliVars
    <2>3. /\ cmd' \in Commands \cup {"none", "data"} /\ c2s' \in Commands \cup {"none", "data"}
          /\ toServer' \in Commands \cup {"none", "data"}
      BY <1>1, SMT
      DEF TypeOK, SendCommand, SendFile, C2SFlag, C2SWrite, srvVars, cliVars, Commands
    <2> QED BY <2>1, <2>2, <2>3, Zenon
  <1>7. ~Lost => /\ at = "top" /\ queries' <= 1
                 /\ (queries' = 1 <=> "query" \in {c2s', toServer'})
    <2>1. ~Lost => /\ at = "top" /\ queries \in {0, 1}
                   /\ (queries = 1 <=> "query" \in {c2s, toServer})
      BY <1>1, <1>3 DEF Flagged, TypeOK
    <2>2. CASE \E k \in Commands : SendCommand(k)
      BY <2>1, <2>2 DEF SendCommand, srvVars
    <2>3. CASE SendFile
      BY <2>1, <2>3 DEF SendFile, srvVars
    <2>4. CASE C2SFlag
      <3>1. c2s = "none" /\ toServer = "none" /\ toServer' = "none" /\ c2s' = cmd
        BY <1>3, <2>4, Zenon DEF C2SFlag, Asking, Filing, Silent, srvVars
      <3>2. ~Lost => queries = 0
        BY <2>1, <3>1, Zenon
      <3> QED BY <2>1, <2>4, <3>1, <3>2, RelaysAssumption DEF C2SFlag, MySQLAssumption
    <2>5. CASE C2SWrite
      BY <1>3, <2>1, <2>5 DEF C2SWrite, Asking, Filing
    <2> QED BY <2>2, <2>3, <2>4, <2>5, Zenon
  <1>a. TypeOK'
    BY <1>1, <1>2, <1>6, Zenon DEF TypeOK
  <1>b. KnownPackets' /\ Ordered' /\ Turns'
    BY <1>1, <1>2, <1>5, Zenon DEF KnownPackets, Ordered, Turns
  <1>c. HeadFits' /\ LastFits'
    BY <1>2, <1>4, Zenon DEF HeadFits, LastFits, Responding
  <1>d. Tone'
    <2>1. Len(fromServer) = 0
      BY <1>4, Zenon
    <2>2. \A i \in 1..Len(fromServer) : FALSE
      BY <2>1, SMT
    <2> QED BY <1>2, <1>4, <2>2, Zenon DEF Tone, Responding
  <1>e. Flagged'
    BY <1>2, <1>7, Zenon DEF Flagged, Lost
  <1>f. Rows' /\ Closing'
    BY <1>1, <1>2, Zenon DEF Rows, Closing, RowsMasked, OnlyRowsRewritten, Closed, Responding
  <1> QED BY <1>a, <1>b, <1>c, <1>d, <1>e, <1>f, Zenon DEF IInv

\* The server takes a command, or the file it asked for.
LEMMA TakesStep ==
  ASSUME IInv, ServerTakes
  PROVE  IInv'
  <1>1. /\ TypeOK /\ KnownPackets /\ Turns /\ Ordered /\ HeadFits /\ LastFits
        /\ Tone /\ Flagged /\ Rows /\ Closing
    BY Zenon DEF IInv
  <1>2. /\ srvUp /\ toServer' = "none" /\ dep' = dep /\ waiting' = waiting /\ owes' = owes
        /\ cmd' = cmd /\ c2s' = c2s /\ queries' = queries /\ nextSet' = nextSet
        /\ srvUp' = srvUp /\ at' = at /\ left' = left /\ cols' = cols /\ bw' = bw
        /\ seen' = seen /\ copying' = copying /\ first' = first
    BY Zenon DEF ServerTakes, cliVars, s2cVars, proxyVars
  <1>3. /\ fromServer = <<>> /\ bw = {} /\ waiting /\ toServer # "none"
        /\ cmd = "none" /\ c2s = "none" /\ ~owes /\ (Asking \/ Filing) /\ ~Responding
    BY <1>1, Zenon DEF ServerTakes, Turns, Asking, Filing, Answering, Ending, Silent, Commands,
                Responding, Busy
  <1>4. \A i \in 1..Len(fromServer) : FALSE
    <2>1. Len(fromServer) = 0
      BY <1>3, Zenon
    <2> QED BY <2>1, SMT
  <1>5. ~Lost => at = "top" /\ (queries = 1 <=> toServer = "query") /\ queries \in {0, 1}
    BY <1>1, <1>3 DEF Flagged, TypeOK
  <1>6. CASE /\ srv.at = "idle" /\ toServer \in Commands
             /\ srv' = [Idle EXCEPT !.at = "first", !.text = toServer \in {"query", "long"},
                                    !.sets = IF toServer = "other" THEN MaxSets ELSE 0]
             /\ odd' = (odd \ {"okmore", "long"}) \cup ({toServer} \cap {"long"})
             /\ UNCHANGED fromServer
    <2>1. srv'.at = "first" /\ srv'.text = (toServer \in {"query", "long"})
      BY <1>6, Zenon DEF Idle
    <2>2. srv' \in Server
      <3>1. ASSUME NEW b \in BOOLEAN, NEW k \in 0..MaxSets
            PROVE  [Idle EXCEPT !.at = "first", !.text = b, !.sets = k] \in Server
        BY IdleServer, Zenon DEF Server
      <3>2. (IF toServer = "other" THEN MaxSets ELSE 0) \in 0..MaxSets
        BY RelaysAssumption DEF MySQLAssumption
      <3>3. (toServer \in {"query", "long"}) \in BOOLEAN
        BY SMT
      <3> QED BY <1>6, <3>1, <3>2, <3>3, Zenon
    <2>3. Answering' /\ Responding' /\ ~Asking' /\ ~Filing'
      BY <1>2, <1>3, <1>4, <1>6, <2>1, SMT
      DEF Answering, Asking, Filing, Silent, Responding, Busy
    <2>4. odd' \subseteq {"okmore", "long", "err", "big"} /\ ("big" \in odd => "big" \in odd')
          /\ (toServer = "long" => Unfollowed')
      <3>1. odd \subseteq {"okmore", "long", "err", "big"}
        BY <1>1, Zenon DEF TypeOK
      <3>2. \A x : x \in odd' => x \in odd \/ x = "long"
        BY <1>6, Zenon
      <3>3. toServer = "long" => "long" \in odd'
        BY <1>6, Zenon
      <3>4. "big" \in odd => "big" \in odd'
        BY <1>6, Zenon
      <3> QED BY <3>1, <3>2, <3>3, <3>4, Zenon DEF Unfollowed
    <2>5. seen.p.t # "row"
      BY <1>1, <1>3, Zenon DEF Rows
    <2>a. TypeOK'
      <3>1. toServer' \in Commands \cup {"none", "data"}
        BY <1>2, Zenon
      <3>2. /\ dep' \in BOOLEAN /\ waiting' \in BOOLEAN /\ owes' \in BOOLEAN
            /\ cmd' \in Commands \cup {"none", "data"} /\ c2s' \in Commands \cup {"none", "data"}
            /\ queries' \in 0..FlagCap
        BY <1>1, <1>2, Zenon DEF TypeOK
      <3>3. /\ srvUp' \in BOOLEAN /\ left' \in 0..MaxCols /\ cols' \in Sets
            /\ at' \in {"top", "first", "defs", "eof", "rows", "raw", "ended"}
            /\ bw' \subseteq {"last", "infile"} /\ seen' \in [p : Packet, with : Sets]
            /\ copying' \in BOOLEAN /\ first' \in {"none", "c2s", "s2c", "lost"}
        BY <1>1, <1>2, Zenon DEF TypeOK
      <3>4. nextSet' \in SetIds /\ fromServer' \in Seq(Packet)
        BY <1>1, <1>2, <1>6, <2>2, <2>4, Zenon DEF TypeOK
      <3> QED BY <2>2, <2>4, <3>1, <3>2, <3>3, <3>4, Zenon DEF TypeOK
    <2>b. KnownPackets' /\ Ordered' /\ Turns'
      <3>1. Len(fromServer) = 0
        BY <1>3, Zenon
      <3>2. \A i \in 1..(Len(fromServer) - 1) : FALSE
        BY <3>1, SMT
      <3> QED BY <1>4, <1>6, <2>3, <3>2, Zenon DEF KnownPackets, Ordered, Turns
    <2>c. HeadFits'
      BY <1>3, <1>6, Zenon DEF HeadFits
    <2>d. LastFits'
      <3>1. Follows' => Place' = "first"
        BY <1>2, <1>5, SMT DEF Follows, Place, Lost
      <3> QED BY <1>3, <1>6, <2>1, <3>1, SMT DEF LastFits, Agree
    <2>e. Tone'
      <3>1. Follows' => toServer = "query"
        BY <1>2, <1>5, SMT DEF Follows, Passing, Lost
      <3>2. Passing' => toServer # "query"
        BY <1>2, <1>5, SMT DEF Passing, Lost
      <3>3. Follows' => srv'.text
        BY <2>1, <3>1, Zenon
      <3>4. Passing' /\ ~Unfollowed' => ~srv'.text
        BY <2>1, <2>4, <3>2, Zenon
      <3> QED BY <1>4, <1>6, <3>3, <3>4, Zenon DEF Tone
    <2>f. Flagged'
      BY <1>1, <1>2, <2>3, ZenonT(30) DEF Flagged, Lost
    <2>g. Rows'
      BY <1>1, <1>2, <2>1, <2>3, <2>5, SMT DEF Rows, RowsMasked, OnlyRowsRewritten
    <2>h. Closing'
      BY <1>1, <1>2, <1>6, <2>4, Zenon DEF Closing, Closed
    <2> QED BY <2>a, <2>b, <2>c, <2>d, <2>e, <2>f, <2>g, <2>h, Zenon DEF IInv
  <1>7. CASE /\ srv.at = "file" /\ toServer = "data" /\ srv' = Idle
             /\ fromServer' = Append(fromServer, [P("ok") EXCEPT !.last = TRUE])
             /\ UNCHANGED odd
    <2> DEFINE p == [P("ok") EXCEPT !.last = TRUE]
    <2>1. p \in Packet
      BY PlainPacket, PacketTypes, Zeros, Zenon
    <2>2. p.t = "ok" /\ p.last /\ ~p.more /\ ~p.full /\ p.set = NoSet
      BY Zenon DEF P
    <2>3. fromServer' = Append(fromServer, p)
      BY <1>7, Zenon
    <2> HIDE DEF p
    <2>4. /\ fromServer' \in Seq(Packet) /\ fromServer' # <<>> /\ Len(fromServer') = 1
          /\ fromServer'[1] = p
      <3>1. fromServer \in Seq(Packet) /\ Len(fromServer) = 0
        BY <1>1, <1>3, Zenon DEF TypeOK
      <3> QED BY <2>1, <2>3, <3>1, Appended, SMT
    <2>5. srv'.at = "idle" /\ ~Responding' /\ srv' \in Server
      BY <1>7, IdleServer, Zenon DEF Responding
    <2>6. Mark(p) = {"last"} /\ EndMark' = "last"
      BY <2>2, <2>5, Zenon DEF Mark, EndMark
    <2>7. Passing \/ Lost
      BY <1>5, <1>7, SMT DEF Passing, Lost
    <2>8. (Passing' <=> Passing) /\ (Lost' <=> Lost) /\ (Follows' <=> Follows)
      BY <1>2, Zenon DEF Passing, Lost, Follows
    <2>9. \A i \in 1..Len(fromServer') : i = 1
      BY <2>4, SMT
    <2>10. \A i \in 1..(Len(fromServer') - 1) : FALSE
      BY <2>4, SMT
    <2>a. TypeOK'
      <3>1. toServer' \in Commands \cup {"none", "data"}
        BY <1>2, Zenon
      <3>2. /\ dep' \in BOOLEAN /\ waiting' \in BOOLEAN /\ owes' \in BOOLEAN
            /\ cmd' \in Commands \cup {"none", "data"} /\ c2s' \in Commands \cup {"none", "data"}
            /\ queries' \in 0..FlagCap
        BY <1>1, <1>2, Zenon DEF TypeOK
      <3>3. /\ srvUp' \in BOOLEAN /\ left' \in 0..MaxCols /\ cols' \in Sets
            /\ at' \in {"top", "first", "defs", "eof", "rows", "raw", "ended"}
            /\ bw' \subseteq {"last", "infile"} /\ seen' \in [p : Packet, with : Sets]
            /\ copying' \in BOOLEAN /\ first' \in {"none", "c2s", "s2c", "lost"}
        BY <1>1, <1>2, Zenon DEF TypeOK
      <3>4. nextSet' \in SetIds /\ odd' \subseteq {"okmore", "long", "err", "big"}
        BY <1>1, <1>2, <1>7, Zenon DEF TypeOK
      <3> QED BY <2>4, <2>5, <3>1, <3>2, <3>3, <3>4, Zenon DEF TypeOK
    <2>b. KnownPackets' /\ Ordered'
      <3>1. KnownPacket(odd, p)
        BY <2>1, <2>2, Zenon DEF KnownPacket
      <3> QED BY <1>7, <2>4, <2>9, <2>10, <3>1, Zenon DEF KnownPackets, Ordered
    <2>c. Turns'
      BY <1>2, <1>3, <2>4, <2>5, <2>6, <2>10, Zenon DEF Turns, Ending, Silent
    <2>d. HeadFits' /\ LastFits'
      BY <2>5, <2>7, <2>8, Zenon DEF HeadFits, LastFits, Follows
    <2>e. Tone'
      <3>1. p.set \notin SetIds
        BY <2>2 DEF SetIds, NoSet
      <3> QED BY <2>4, <2>5, <2>7, <2>8, <2>9, <3>1, Zenon DEF Tone, Follows
    <2>f. Flagged'
      BY <1>1, <1>2, <2>4, ZenonT(30) DEF Flagged, Lost, Asking, Filing
    <2>g. Rows'
      BY <1>1, <1>2, <1>7, <2>4, <2>5, SMT DEF Rows, RowsMasked, OnlyRowsRewritten
    <2>h. Closing'
      BY <1>1, <1>2, <1>7, Zenon DEF Closing, Closed
    <2> QED BY <2>a, <2>b, <2>c, <2>d, <2>e, <2>f, <2>g, <2>h, Zenon DEF IInv
  <1> QED BY <1>6, <1>7, Zenon DEF ServerTakes

\* What serverToClient holds while it follows.
LEMMA ReaderFacts ==
  ASSUME IInv
  PROVE  /\ left \in 0..MaxCols /\ cols \in Sets /\ queries \in 0..FlagCap /\ 0 \in 0..FlagCap
         /\ dep \in BOOLEAN /\ NoSet \in Sets
         /\ ~Lost => queries <= 1 /\ (at # "top" => queries = 0)
         /\ at \in {"defs", "eof", "rows"} => cols \in SetIds
         /\ at = "raw" => "big" \in odd
  BY RelaysAssumption
  DEF IInv, TypeOK, Flagged, Rows, Closing, Sets, MySQLAssumption

\* handleOneResultSet, on the first packet of a response that is followed.
LEMMA FirstPacketStep ==
  ASSUME IInv, NEW p, p = Head(fromServer), fromServer # <<>>, OneResultSet(p),
         Follows, Place = "first", queries' = 0
  PROVE  IInv'
  <1>1. /\ p \in Packet /\ KnownPacket(odd, p) /\ p.set # BinarySet
        /\ p.t \in {"ok", "err", "infile", "cols"}
    BY NextPacket, Zenon DEF Takes
  <1>2. /\ left \in 0..MaxCols /\ cols \in Sets /\ 0 \in 0..FlagCap /\ NoSet \in Sets
        /\ p.set \in Sets /\ p.n \in 0..MaxCols
    BY <1>1, ReaderFacts, Zenon DEF Packet
  <1>3. CASE p.t = "cols"
    <2>1. Write(p, NoSet, FALSE) /\ at' = "defs" /\ left' = p.n /\ cols' = p.set
      BY <1>3, Zenon DEF OneResultSet
    <2>2. cols' \in SetIds /\ Unmarked(p)
      BY <1>1, <1>2, <1>3, <2>1, Zenon DEF KnownPacket, Sets, Unmarked
    <2>3. Agree(Place', left', cols', PlaceAfter(dep, p), p.n, p.set)
      BY <1>1, <1>3, <2>1, Zenon DEF Agree, Place, PlaceAfter, KnownPacket
    <2>4. /\ at' \in {"top", "first", "defs", "eof", "rows", "raw"} /\ ~Passing'
          /\ p.t # "row" /\ at' # "raw" /\ at' # "top" /\ 0 <= 1
      BY <1>3, <2>1 DEF Passing
    <2> QED BY <1>2, <2>1, <2>2, <2>3, <2>4, ReadStep, Zenon
  <1>4. CASE p.t # "cols"
    <2>1. Write(p, NoSet, TRUE) /\ at' = "top" /\ left' = left /\ cols' = cols
      BY <1>4, Zenon DEF OneResultSet
    <2>2. ~Unmarked(p) \/ Unfollowed
      BY <1>1, <1>4, Zenon DEF KnownPacket, Unmarked, Unfollowed
    <2>3. ~Follows' /\ ~Lost'
      BY <2>1, Zenon DEF Follows, Passing, Lost
    <2>4. /\ at' \in {"top", "first", "defs", "eof", "rows", "raw"}
          /\ p.t # "row" /\ at' # "raw" /\ at' \notin {"defs", "eof", "rows"} /\ 0 <= 1
      BY <1>1, <2>1
    <2> QED BY <1>2, <2>1, <2>2, <2>3, <2>4, ReadStep, Zenon
  <1> QED BY <1>3, <1>4, Zenon

LEMMA TopStep ==
  ASSUME IInv, S2CTop
  PROVE  IInv'
  <1> DEFINE p == Head(fromServer)
  <1>1. at = "top" /\ fromServer # <<>> /\ queries' = IF queries > 0 THEN queries - 1 ELSE 0
    BY Zenon DEF S2CTop
  <1>2. /\ left \in 0..MaxCols /\ cols \in Sets /\ queries \in 0..FlagCap
        /\ queries <= 1 /\ 0 \in 0..FlagCap /\ NoSet \in Sets
    BY <1>1, ReaderFacts, Zenon DEF Lost
  <1>3. queries' = 0 /\ 0 <= 1 /\ (queries > 0 => Follows) /\ (queries = 0 <=> Passing)
    BY <1>1, <1>2, RelaysAssumption DEF Follows, Passing, Lost, MySQLAssumption
  <1>4. Place = "first"
    BY <1>1, Zenon DEF Place
  <1>5. /\ p \in Packet /\ KnownPacket(odd, p) /\ (Follows => Takes(Place, left, cols, p))
        /\ Passing /\ ~Unfollowed => p.set \notin SetIds
    BY <1>1, NextPacket, Zenon
  <1>6. CASE OneResultSet(p) /\ queries > 0
    BY <1>1, <1>3, <1>4, <1>6, FirstPacketStep, Zenon
  <1>7. ASSUME queries = 0 \/ p.full, NEW f \in BOOLEAN, Write(p, NoSet, f),
               UNCHANGED <<at, left, cols>>
        PROVE  IInv'
    <2> HIDE DEF p
    <2>1. Passing
      <3>1. ~p.full \/ ~Follows
        BY <1>4, <1>5, Zenon DEF KnownPacket, Takes
      <3>2. queries = 0 \/ queries > 0
        BY <1>2, SMT
      <3> QED BY <1>3, <1>7, <3>1, <3>2, Zenon
    <2>2. at' = "top" /\ left' = left /\ cols' = cols
      BY <1>1, <1>7, Zenon
    <2>3. ~Follows' /\ ~Lost'
      BY <1>3, <2>2, Zenon DEF Follows, Passing, Lost
    <2>4. /\ at' \in {"top", "first", "defs", "eof", "rows", "raw"}
          /\ at' # "raw" /\ at' \notin {"defs", "eof", "rows"}
      BY <2>2, Zenon
    <2>5. ~(p.t = "row" /\ p.set \in SetIds /\ odd = {})
      BY <1>5, <2>1, Zenon DEF Unfollowed
    <2> QED BY <1>2, <1>3, <1>7, <2>1, <2>2, <2>3, <2>4, <2>5, ReadStep, Zenon
  <1>8. TRUE \in BOOLEAN /\ FALSE \in BOOLEAN
    BY Zenon
  <1> QED BY <1>6, <1>7, <1>8, Zenon DEF S2CTop

LEMMA FirstStep ==
  ASSUME IInv, S2CFirst
  PROVE  IInv'
  <1>1. at = "first" /\ fromServer # <<>> /\ OneResultSet(Head(fromServer)) /\ queries' = queries
    BY Zenon DEF S2CFirst
  <1>2. Follows /\ Place = "first" /\ ~Lost
    BY <1>1, Zenon DEF Follows, Passing, Lost, Place
  <1>3. queries' = 0
    BY <1>1, <1>2, ReaderFacts, Zenon
  <1> QED BY <1>1, <1>2, <1>3, FirstPacketStep, Zenon

LEMMA DefsStep ==
  ASSUME IInv, S2CDefs \/ S2CEOF
  PROVE  IInv'
  <1> DEFINE p == Head(fromServer)
  <1>1. /\ at \in {"defs", "eof"} /\ fromServer # <<>> /\ Write(p, NoSet, FALSE)
        /\ queries' = queries /\ cols' = cols
    BY Zenon DEF S2CDefs, S2CEOF
  <1>2. Follows /\ ~Lost /\ Place = at
    BY <1>1, Zenon DEF Follows, Passing, Lost, Place
  <1>3. /\ left \in 0..MaxCols /\ cols \in Sets /\ queries = 0 /\ 0 \in 0..FlagCap /\ NoSet \in Sets
        /\ cols \in SetIds /\ dep \in BOOLEAN /\ 0 <= 1
    BY <1>1, <1>2, ReaderFacts, Zenon
  <1>4. p \in Packet /\ KnownPacket(odd, p) /\ Takes(at, left, cols, p)
    BY <1>1, <1>2, NextPacket, Zenon
  <1> HIDE DEF p
  <1>5. p.n \in 0..MaxCols /\ p.n \in Nat
    BY <1>4, RelaysAssumption DEF Packet, MySQLAssumption
  <1>6. /\ at' \in {"defs", "eof", "rows"} /\ left' \in 0..MaxCols /\ p.t # "row"
        /\ Unmarked(p) /\ Agree(Place', left', cols', PlaceAfter(dep, p), p.n, p.set)
    <2>1. CASE S2CDefs
      <3>1. /\ at = "defs" /\ left' = left - 1
            /\ at' = IF left > 1 THEN "defs" ELSE IF dep THEN "rows" ELSE "eof"
        BY <2>1, Zenon DEF S2CDefs
      <3>2. p.t = "def" /\ p.n + 1 = left /\ p.set = cols /\ ~p.more /\ ~p.last
        BY <1>4, <3>1, Zenon DEF Takes, KnownPacket
      <3>3. left' = p.n /\ (left > 1 <=> p.n > 0)
        BY <1>5, <3>1, <3>2, SMT
      <3> QED BY <1>1, <1>3, <1>5, <3>1, <3>2, <3>3, SMT DEF Agree, PlaceAfter, Place, Unmarked
    <2>2. CASE S2CEOF
      <3>1. at = "eof" /\ left' = left /\ at' = "rows"
        BY <2>2, Zenon DEF S2CEOF
      <3>2. p.t = "eof" /\ p.set = cols /\ ~p.more /\ ~p.last
        BY <1>4, <3>1, Zenon DEF Takes, KnownPacket
      <3> QED BY <1>1, <1>3, <3>1, <3>2, SMT DEF Agree, PlaceAfter, Place, Unmarked
    <2> QED BY <2>1, <2>2, Zenon
  <1>7. /\ at' \in {"top", "first", "defs", "eof", "rows", "raw"} /\ at' # "raw" /\ at' # "top"
        /\ ~Passing'
    BY <1>6, Zenon DEF Passing
  <1> QED BY <1>1, <1>2, <1>3, <1>6, <1>7, ReadStep, Zenon

LEMMA RowsStep ==
  ASSUME IInv, S2CRows
  PROVE  IInv'
  <1> DEFINE p == Head(fromServer)
  <1>1. /\ at = "rows" /\ fromServer # <<>> /\ queries' = queries /\ left' = left
        /\ cols' = cols
    BY Zenon DEF S2CRows
  <1>2. Follows /\ ~Lost /\ Place = at
    BY <1>1, Zenon DEF Follows, Passing, Lost, Place
  <1>3. /\ left \in 0..MaxCols /\ cols \in Sets /\ queries = 0 /\ 0 \in 0..FlagCap /\ NoSet \in Sets
        /\ cols \in SetIds /\ 0 <= 1
    BY <1>1, <1>2, ReaderFacts, Zenon
  <1>4. p \in Packet /\ KnownPacket(odd, p) /\ Takes(at, left, cols, p)
    BY <1>1, <1>2, NextPacket, Zenon
  <1>5. \/ p.full /\ Write(p, NoSet, TRUE) /\ at' = "raw"
        \/ ~p.full /\ p.t = "end" /\ Write(p, NoSet, ~p.more)
           /\ at' = IF p.more THEN "first" ELSE "top"
        \/ ~p.full /\ p.t # "end" /\ at' = "rows"
           /\ Write(p, IF p.t = "row" THEN cols ELSE NoSet, FALSE)
    BY Zenon DEF S2CRows
  <1> HIDE DEF p
  <1>6. p.t \in {"row", "end", "err"} /\ p.set = cols /\ p.more \in BOOLEAN
    BY <1>1, <1>4, Zenon DEF Takes, Packet
  <1>7. CASE p.full /\ Write(p, NoSet, TRUE) /\ at' = "raw"
    <2>1. "big" \in odd
      BY <1>4, <1>7, Zenon DEF KnownPacket
    <2>2. /\ Lost' /\ ~Follows' /\ ~Passing' /\ odd # {}
          /\ at' \in {"top", "first", "defs", "eof", "rows", "raw"}
          /\ at' \notin {"defs", "eof", "rows"}
      BY <1>7, <2>1, Zenon DEF Lost, Follows, Passing
    <2> QED BY <1>1, <1>3, <1>7, <2>1, <2>2, ReadStep, Zenon
  <1>8. CASE ~p.full /\ p.t = "end" /\ Write(p, NoSet, ~p.more)
             /\ at' = IF p.more THEN "first" ELSE "top"
    <2>1. /\ at' \in {"top", "first", "defs", "eof", "rows", "raw"} /\ at' # "raw"
          /\ at' \notin {"defs", "eof", "rows"} /\ p.t # "row"
          /\ (~p.more) \in BOOLEAN
      BY <1>6, <1>8, Zenon
    <2>2. /\ p.more => at' = "first" /\ ~Passing' /\ Unmarked(p)
          /\ ~p.more => at' = "top" /\ ~Unmarked(p) /\ ~Follows'
      BY <1>1, <1>3, <1>4, <1>8, Zenon DEF KnownPacket, Unmarked, Passing, Follows
    <2>3. p.more => Agree(Place', left', cols', PlaceAfter(dep, p), p.n, p.set)
      BY <1>8, Zenon DEF Agree, Place, PlaceAfter
    <2> QED BY <1>1, <1>2, <1>3, <1>8, <2>1, <2>2, <2>3, ReadStep, Zenon
  <1>9. CASE ~p.full /\ p.t # "end" /\ at' = "rows"
             /\ Write(p, IF p.t = "row" THEN cols ELSE NoSet, FALSE)
    <2> DEFINE w == IF p.t = "row" THEN cols ELSE NoSet
    <2>1. w \in Sets /\ (p.t = "row" => w = p.set) /\ (w # NoSet => p.t = "row" /\ p.set \in SetIds)
      BY <1>3, <1>6, Zenon
    <2>2. Write(p, w, FALSE)
      BY <1>9, Zenon
    <2> HIDE DEF w
    <2>3. Unmarked(p) => Agree(Place', left', cols', PlaceAfter(dep, p), p.n, p.set)
      <3>1. Unmarked(p) => p.t = "row" /\ ~p.more
        BY <1>4, <1>6, <1>9, Zenon DEF KnownPacket, Unmarked
      <3> QED BY <1>1, <1>6, <1>9, <3>1, SMT DEF Agree, Place, PlaceAfter
    <2>4. /\ at' \in {"top", "first", "defs", "eof", "rows", "raw"} /\ at' # "raw" /\ ~Passing'
          /\ at' # "top" /\ FALSE \in BOOLEAN
      BY <1>9, Zenon DEF Passing
    <2> QED BY <1>1, <1>2, <1>3, <2>1, <2>2, <2>3, <2>4, ReadStep, Zenon
  <1> QED BY <1>5, <1>7, <1>8, <1>9, Zenon

LEMMA RawStep ==
  ASSUME IInv, S2CRaw
  PROVE  IInv'
  <1>1. at = "raw" /\ at' = "raw" /\ queries' = queries /\ left' = left /\ cols' = cols
    BY Zenon DEF S2CRaw
  <1>2. PICK f \in BOOLEAN : Write(Head(fromServer), NoSet, f)
    BY Zenon DEF S2CRaw
  <1>3. /\ left \in 0..MaxCols /\ cols \in Sets /\ queries \in 0..FlagCap /\ NoSet \in Sets
        /\ "big" \in odd
    BY <1>1, ReaderFacts, Zenon
  <1>4. /\ Lost' /\ ~Follows' /\ ~Passing' /\ odd # {}
        /\ at' \in {"top", "first", "defs", "eof", "rows", "raw"}
        /\ at' \notin {"defs", "eof", "rows"}
    BY <1>1, <1>3, Zenon DEF Lost, Follows, Passing
  <1> QED BY <1>1, <1>2, <1>3, <1>4, ReadStep, Zenon

\* A step that leaves the packets and where everyone is with them alone, but
\* for serverToClient, which may return.
LEMMA HoldStep ==
  ASSUME IInv, Closing', at' = at \/ at' = "ended",
         srvUp' \in BOOLEAN, copying' \in BOOLEAN, first' \in {"none", "c2s", "s2c", "lost"},
         UNCHANGED <<dep, waiting, owes, cmd, c2s, queries, toServer, srv, nextSet, odd,
                     fromServer, left, cols, bw, seen>>
  PROVE  IInv'
  <1>1. /\ TypeOK /\ KnownPackets /\ Turns /\ Ordered /\ HeadFits /\ LastFits
        /\ Tone /\ Flagged /\ Rows
    BY Zenon DEF IInv
  <1>2. /\ dep' = dep /\ waiting' = waiting /\ owes' = owes /\ cmd' = cmd /\ c2s' = c2s
        /\ queries' = queries /\ toServer' = toServer /\ srv' = srv /\ nextSet' = nextSet
        /\ odd' = odd /\ fromServer' = fromServer /\ left' = left
        /\ cols' = cols /\ bw' = bw /\ seen' = seen
    BY Zenon
  <1>3. TypeOK'
    <2>1. at' \in {"top", "first", "defs", "eof", "rows", "raw", "ended"}
      BY <1>1, Zenon DEF TypeOK
    <2> QED BY <1>1, <1>2, <2>1, ZenonT(30) DEF TypeOK
  <1>4. KnownPackets' /\ Ordered'
    BY <1>1, <1>2, Zenon DEF KnownPackets, Ordered
  <1>5. Turns' /\ (Asking' <=> Asking) /\ (Filing' <=> Filing)
    <2>1. Asking' <=> Asking
      BY <1>2, SMT DEF Asking, Silent
    <2>2. Filing' <=> Filing
      BY <1>2, SMT DEF Filing
    <2>s. (Silent' <=> Silent) /\ (Responding' <=> Responding) /\ EndMark' = EndMark
      BY <1>2, SMT DEF Silent, Responding, EndMark
    <2>3. Answering => Answering'
      BY <1>2, <2>s, SMT DEF Answering, Unmarked
    <2>4. Ending => Ending'
      <3> DEFINE Last == Mark(fromServer[Len(fromServer)])
      <3>1. Last' = Last
        BY <1>2, Zenon DEF Mark
      <3> HIDE DEF Last
      <3>2. Ending => /\ waiting /\ Silent /\ ~Responding
                      /\ \/ /\ bw = {} /\ fromServer # <<>>
                            /\ \A i \in 1..(Len(fromServer) - 1) : Unmarked(fromServer[i])
                            /\ Last = {EndMark}
                         \/ bw = {EndMark} /\ fromServer = <<>>
        BY Zenon DEF Ending, Last
      <3>3. Ending' <=> /\ waiting' /\ Silent' /\ ~Responding'
                        /\ \/ /\ bw' = {} /\ fromServer' # <<>>
                              /\ \A i \in 1..(Len(fromServer') - 1) : Unmarked(fromServer'[i])
                              /\ Last' = {EndMark'}
                           \/ bw' = {EndMark'} /\ fromServer' = <<>>
        BY Zenon DEF Ending, Last
      <3> QED BY <1>2, <2>s, <3>1, <3>2, <3>3, SMT
    <2> QED BY <1>1, <2>1, <2>2, <2>3, <2>4, Zenon DEF Turns
  <1>6. CASE at' = at
    <2>1. HeadFits' /\ LastFits' /\ Tone'
      BY <1>1, <1>2, <1>6, Zenon DEF HeadFits, LastFits, Tone, Follows, Passing, Lost, Place,
                                    Responding, CurrentSet, Unfollowed
    <2>2. Flagged' /\ Rows'
      BY <1>1, <1>2, <1>5, <1>6, Zenon DEF Flagged, Lost, Rows, RowsMasked, OnlyRowsRewritten,
                                          Responding
    <2> QED BY <1>3, <1>4, <1>5, <2>1, <2>2, Zenon DEF IInv
  <1>7. CASE at' = "ended"
    <2>1. Lost' /\ ~Follows' /\ ~Passing' /\ at' \notin {"defs", "eof", "rows"}
      BY <1>7, Zenon DEF Lost, Follows, Passing
    <2>2. HeadFits' /\ Tone' /\ Flagged'
      BY <2>1, Zenon DEF HeadFits, Tone, Flagged
    <2>3. LastFits'
      BY <1>1, <1>2, <2>1, Zenon DEF LastFits, Responding, CurrentSet
    <2>4. Rows'
      BY <1>1, <1>2, <2>1, Zenon DEF Rows, RowsMasked, OnlyRowsRewritten, Responding
    <2> QED BY <1>3, <1>4, <1>5, <2>2, <2>3, <2>4, Zenon DEF IInv
  <1> QED BY <1>6, <1>7, Zenon

\* What the return of a goroutine does to first and srvUp.
LEMMA Returning ==
  ASSUME IInv, NEW g \in {"c2s", "s2c", "lost"}, Returns(g)
  PROVE  /\ first' \in {"none", "c2s", "s2c", "lost"} /\ srvUp' \in BOOLEAN
         /\ Closed' /\ ~srvUp'
         /\ first' = "s2c" => first = "s2c" \/ (g = "s2c" /\ ~Closed)
  BY Zenon DEF IInv, TypeOK, Returns, Closed

\* The server goes away.
LEMMA GoneStep ==
  ASSUME IInv, ServerGone
  PROVE  IInv'
  <1>1. Closing /\ copying \in BOOLEAN /\ first \in {"none", "c2s", "s2c", "lost"}
    BY Zenon DEF IInv, TypeOK
  <1>2. /\ UNCHANGED <<dep, waiting, owes, cmd, c2s, queries, toServer, srv, nextSet, odd,
                       fromServer, left, cols, bw, seen>>
        /\ at' = at /\ srvUp' = FALSE /\ copying' = copying /\ first' = first
    BY Zenon DEF ServerGone, cliVars, s2cVars, proxyVars
  <1>3. Closing'
    BY <1>1, <1>2, Zenon DEF Closing, Closed
  <1> QED BY <1>1, <1>2, <1>3, HoldStep, Zenon

\* clientToServer returns, or serverToClient with nothing delivered.
LEMMA ReturnStep ==
  ASSUME IInv, NEW g \in {"c2s", "s2c", "lost"}, Returns(g), g = "s2c" => Closed,
         at' = at \/ at' = "ended", copying' \in BOOLEAN,
         UNCHANGED <<dep, waiting, owes, cmd, c2s, queries, toServer, srv, nextSet, odd,
                     fromServer, left, cols, bw, seen>>
  PROVE  IInv'
  <1>1. Closing
    BY Zenon DEF IInv
  <1>2. /\ first' \in {"none", "c2s", "s2c", "lost"} /\ srvUp' \in BOOLEAN
        /\ Closed' /\ ~srvUp' /\ (first' = "s2c" => first = "s2c")
    BY Returning, Zenon
  <1>3. Closing'
    BY <1>1, <1>2, Zenon DEF Closing
  <1> QED BY <1>2, <1>3, HoldStep, Zenon

LEMMA UpwardEnds ==
  ASSUME IInv, ClientGone \/ C2SEnd
  PROVE  IInv'
  <1>1. /\ Returns("c2s") /\ copying' = FALSE /\ at' = at
        /\ UNCHANGED <<dep, waiting, owes, cmd, c2s, queries, toServer, srv, nextSet, odd,
                       fromServer, left, cols, bw, seen>>
    BY Zenon DEF ClientGone, C2SEnd, cliVars, s2cVars
  <1>2. copying' \in BOOLEAN
    BY <1>1, Zenon
  <1> QED BY <1>1, <1>2, ReturnStep, Zenon

\* serverToClient returns as its client cannot be written to.
LEMMA FailsStep ==
  ASSUME IInv, S2CWriteFails
  PROVE  IInv'
  <1>1. /\ Returns("lost") /\ copying' = copying /\ at' = "ended"
        /\ UNCHANGED <<dep, waiting, owes, cmd, c2s, queries, toServer, srv, nextSet, odd,
                       fromServer, left, cols, bw, seen>>
    BY Zenon DEF S2CWriteFails, cliVars
  <1>2. copying \in BOOLEAN
    BY Zenon DEF IInv, TypeOK
  <1> QED BY <1>1, <1>2, ReturnStep, Zenon

\* serverToClient returns as it has read everything, and flushes; or it cannot.
LEMMA EndStep ==
  ASSUME IInv, S2CEnd
  PROVE  IInv'
  <1>1. /\ TypeOK /\ KnownPackets /\ Turns /\ Ordered /\ HeadFits /\ LastFits
        /\ Tone /\ Flagged /\ Rows /\ Closing
    BY Zenon DEF IInv
  <1>a. ASSUME UNCHANGED <<bw, waiting, owes>>, Returns("lost")
        PROVE  IInv'
    <2>1. /\ copying' = copying /\ at' = "ended"
          /\ UNCHANGED <<dep, waiting, owes, cmd, c2s, queries, toServer, srv, nextSet, odd,
                         fromServer, left, cols, bw, seen>>
      BY <1>a, Zenon DEF S2CEnd
    <2>2. copying \in BOOLEAN
      BY <1>1, Zenon DEF TypeOK
    <2> QED BY <1>a, <2>1, <2>2, ReturnStep, Zenon
  <1> SUFFICES ASSUME ~Closed, bw' = {}, Delivered(bw), Returns("s2c")
               PROVE  IInv'
    BY <1>a, Zenon DEF S2CEnd
  <1>2. /\ dep' = dep /\ cmd' = cmd /\ c2s' = c2s
        /\ queries' = queries /\ toServer' = toServer /\ srv' = srv /\ nextSet' = nextSet
        /\ odd' = odd /\ fromServer' = fromServer /\ fromServer = <<>> /\ left' = left
        /\ cols' = cols /\ bw' = {} /\ seen' = seen /\ at' = "ended" /\ Delivered(bw)
        /\ copying' = copying
    BY Zenon DEF S2CEnd
  <1>b. /\ first' \in {"none", "c2s", "s2c", "lost"} /\ srvUp' \in BOOLEAN
        /\ Closed' /\ ~srvUp'
    BY Returning, Zenon
  <1>3. Lost' /\ ~Follows' /\ ~Passing' /\ at' # "raw" /\ at' \notin {"defs", "eof", "rows"}
    BY <1>2, Zenon DEF Lost, Follows, Passing
  <1>4. waiting' \in BOOLEAN /\ owes' \in BOOLEAN
    BY <1>1, <1>2, SMT DEF Delivered, TypeOK
  <1>5. TypeOK'
    <2>1. at' \in {"top", "first", "defs", "eof", "rows", "raw", "ended"}
          /\ bw' \subseteq {"last", "infile"}
      BY <1>2, Zenon
    <2> QED BY <1>1, <1>2, <1>4, <1>b, <2>1, Zenon DEF TypeOK
  <1>6. KnownPackets' /\ Ordered' /\ Closing'
    BY <1>1, <1>2, <1>3, <1>b, Zenon DEF KnownPackets, Ordered, Closing
  <1>7. Turns'
    <2>1. CASE bw = {}
      <3>1. waiting \in BOOLEAN /\ owes \in BOOLEAN /\ bw' = bw
        BY <1>1, <1>2, <2>1, Zenon DEF TypeOK
      <3>2. (waiting' <=> waiting) /\ (owes' <=> owes)
        BY <1>2, <2>1, Zenon DEF Delivered
      <3> QED BY <1>1, <1>2, <3>1, <3>2, Zenon
               DEF Turns, Asking, Filing, Answering, Ending, Silent, Responding, EndMark
    <2>2. CASE bw # {}
      <3>1. Ending /\ bw = {EndMark} /\ Silent /\ waiting /\ ~Responding
        BY <1>1, <1>2, <2>2, Zenon DEF Turns, Asking, Filing, Answering, Ending
      <3>2. srv.at \in {"idle", "file"}
        BY <1>1, <3>1, Zenon DEF TypeOK, Server, Responding, Busy
      <3>3. CASE srv.at = "idle"
        <4>1. "last" \in bw /\ "infile" \notin bw
          BY <3>1, <3>3, Zenon DEF EndMark
        <4>2. ~waiting' /\ ~owes'
          BY <1>2, <3>1, <4>1, Zenon DEF Delivered, Silent
        <4> QED BY <1>2, <3>1, <3>3, <4>2, Zenon DEF Turns, Asking, Silent
      <3>4. CASE srv.at = "file"
        <4>1. "last" \notin bw /\ "infile" \in bw
          BY <3>1, <3>4, Zenon DEF EndMark
        <4>2. waiting' /\ owes'
          BY <1>2, <3>1, <4>1, Zenon DEF Delivered, Silent
        <4> QED BY <1>2, <3>1, <3>4, <4>2, Zenon DEF Turns, Filing, Silent
      <3> QED BY <3>2, <3>3, <3>4, Zenon
    <2> QED BY <2>1, <2>2, Zenon
  <1>8. HeadFits' /\ LastFits' /\ Tone'
    BY <1>2, <1>3, Zenon DEF HeadFits, LastFits, Tone
  <1>9. Flagged'
    BY <1>3, Zenon DEF Flagged
  <1>10. Rows'
    BY <1>1, <1>2, <1>3, Zenon DEF Rows, RowsMasked, OnlyRowsRewritten, Responding
  <1> QED BY <1>5, <1>6, <1>7, <1>8, <1>9, <1>10, Zenon DEF IInv

LEMMA MySQLInitially ==
  ASSUME Init
  PROVE  IInv
  <1>1. /\ dep \in BOOLEAN /\ waiting = FALSE /\ owes = FALSE /\ cmd = "none" /\ c2s = "none"
        /\ queries = 0 /\ toServer = "none" /\ srv = Idle /\ nextSet = 1 /\ srvUp = TRUE
        /\ odd = {} /\ fromServer = <<>> /\ at = "top" /\ left = 0 /\ cols = NoSet
        /\ bw = {} /\ seen = Unseen /\ copying = TRUE /\ first = "none"
    BY Zenon DEF Init
  <1>2. P("ok") \in Packet /\ Unseen \in [p : Packet, with : Sets]
    <2>1. P("ok") \in Packet /\ NoSet \in Sets
      BY PlainPacket, Zeros, Zenon
    <2> QED BY <2>1, Zenon DEF Unseen
  <1>3. Unseen.p.t = "ok" /\ Unseen.with = NoSet
    BY Zenon DEF Unseen, P
  <1>4. TypeOK
    <2>1. queries \in 0..FlagCap /\ left \in 0..MaxCols /\ nextSet \in SetIds /\ cols \in Sets
      BY <1>1, Zeros, RelaysAssumption DEF MySQLAssumption, SetIds
    <2>2. fromServer \in Seq(Packet) /\ at \in {"top", "first", "defs", "eof", "rows", "raw", "ended"}
      BY <1>1
    <2>3. /\ cmd \in Commands \cup {"none", "data"} /\ c2s \in Commands \cup {"none", "data"}
          /\ toServer \in Commands \cup {"none", "data"}
      BY <1>1, Zenon
    <2>4. /\ odd \subseteq {"okmore", "long", "err", "big"} /\ bw \subseteq {"last", "infile"}
          /\ waiting \in BOOLEAN /\ owes \in BOOLEAN /\ srvUp \in BOOLEAN
          /\ copying \in BOOLEAN /\ first \in {"none", "c2s", "s2c", "lost"}
      BY <1>1, Zenon
    <2> QED BY <1>1, <1>2, <2>1, <2>2, <2>3, <2>4, IdleServer, Zenon DEF TypeOK
  <1>5. /\ ~Responding /\ srv.at = "idle" /\ Passing /\ ~Follows /\ ~Lost
        /\ Len(fromServer) = 0
    BY <1>1, IdleServer, Zenon DEF Responding, Passing, Follows, Lost
  <1>6. (\A i \in 1..Len(fromServer) : FALSE) /\ (\A i \in 1..(Len(fromServer) - 1) : FALSE)
    BY <1>5, SMT
  <1>7. KnownPackets /\ Ordered /\ HeadFits /\ LastFits /\ Tone
    BY <1>5, <1>6, Zenon DEF KnownPackets, Ordered, HeadFits, LastFits, Tone
  <1>8. Turns
    BY <1>1, <1>5, Zenon DEF Turns, Asking, Silent
  <1>9. Flagged /\ Rows /\ Closing
    BY <1>1, <1>3, <1>5, SMT
    DEF Flagged, Rows, Closing, RowsMasked, OnlyRowsRewritten, Closed
  <1> QED BY <1>4, <1>7, <1>8, <1>9, Zenon DEF IInv

\* Every step of the MySQL relay preserves its invariant.
LEMMA MySQLInductive ==
  ASSUME IInv, Next
  PROVE  IInv'
  BY UpwardStep, UpwardEnds, TakesStep, ServerFirstStep, ServerDefsStep, ServerEOFStep, ServerRowsStep,
     GoneStep, TopStep, FirstStep, DefsStep, RowsStep, RawStep, EndStep,
     FailsStep, Zenon
  DEF Next, C2S, ServerStep, S2C

LEMMA MySQLStutters ==
  ASSUME IInv, UNCHANGED vars
  PROVE  IInv'
  <1>1. /\ Closing /\ srvUp \in BOOLEAN /\ copying \in BOOLEAN
        /\ first \in {"none", "c2s", "s2c", "lost"}
    BY Zenon DEF IInv, TypeOK
  <1>2. /\ UNCHANGED <<dep, waiting, owes, cmd, c2s, queries, toServer, srv, nextSet, odd,
                       fromServer, left, cols, bw, seen>>
        /\ at' = at /\ srvUp' = srvUp /\ copying' = copying /\ first' = first
    BY Zenon DEF vars, srvVars, s2cVars, proxyVars
  <1>3. Closing'
    BY <1>1, <1>2, Zenon DEF Closing, Closed
  <1> QED BY <1>1, <1>2, <1>3, HoldStep, Zenon

\* What the invariant says of rows, between commands and at the end.
LEMMA MySQLProperties ==
  ASSUME IInv
  PROVE  RowsMasked /\ OnlyRowsRewritten /\ AlignedWhenIdle /\ LastWordsDelivered
  <1>1. TypeOK /\ Turns /\ Flagged /\ Rows /\ Closing
    BY Zenon DEF IInv
  <1>2. ASSUME ~waiting, odd \subseteq {"okmore", "long"}
        PROVE  /\ queries = 0 \/ at = "ended"
               /\ at \in {"top", "ended"} /\ bw = {} /\ fromServer = <<>>
    <2>1. Asking /\ Silent /\ bw = {} /\ fromServer = <<>>
      BY <1>1, <1>2, Zenon DEF Turns, Asking, Filing, Answering, Ending
    <2>2. at # "raw"
      BY <1>1, <1>2, Zenon DEF Closing
    <2>3. CASE Lost
      BY <2>1, <2>2, <2>3, Zenon DEF Lost
    <2>4. CASE ~Lost
      <3>1. queries \in Nat /\ queries <= 1 /\ at = "top" /\ queries # 1
        BY <1>1, <2>1, <2>4, RelaysAssumption, SMT
        DEF Flagged, TypeOK, Silent, MySQLAssumption
      <3> QED BY <2>1, <3>1, SMT
    <2> QED BY <2>3, <2>4, Zenon
  <1>3. ASSUME first = "s2c", waiting, srv.at = "idle", {cmd, c2s, toServer} = {"none"}
        PROVE  FALSE
    <2>1. bw = {} /\ fromServer = <<>>
      BY <1>1, <1>3, Zenon DEF Closing
    <2>2. cmd = "none" /\ c2s = "none" /\ toServer = "none" /\ "none" \notin Commands
      BY <1>3 DEF Commands
    <2>3. ~Asking /\ ~Filing /\ ~Answering
      BY <1>3, <2>2, Zenon DEF Asking, Filing, Answering, Responding, Busy
    <2> QED BY <1>1, <2>1, <2>3, Zenon DEF Turns, Ending
  <1> QED BY <1>1, <1>2, <1>3, Zenon DEF Rows, AlignedWhenIdle, LastWordsDelivered
-----------------------------------------------------------------------------
(* The Postgres relay *)

\* Division with remainder, from which the arithmetic of message numbers
\* follows: a remainder is unique, and may be taken before or after a sum.
LEMMA DivMod ==
  ASSUME NEW M \in Nat, M > 0, NEW a \in Nat
  PROVE  a = M * (a \div M) + (a % M) /\ a % M \in 0..(M - 1) /\ a \div M \in Nat
  OBVIOUS

LEMMA Mono ==
  ASSUME NEW M \in Nat, NEW x \in Nat, NEW y \in Nat, x + 1 <= y
  PROVE  M * x + M <= M * y
  OBVIOUS

LEMMA Remainder ==
  ASSUME NEW M \in Nat, M > 0, NEW x \in Nat, NEW y \in Nat,
         NEW r \in 0..(M - 1), NEW s \in 0..(M - 1), M * x + r = M * y + s
  PROVE  r = s
  <1>1. CASE x + 1 <= y
    <2>1. M * x + M <= M * y
      BY <1>1, Mono, Zenon
    <2> QED BY <2>1
  <1>2. CASE y + 1 <= x
    <2>1. M * y + M <= M * x
      BY <1>2, Mono, Zenon
    <2> QED BY <2>1
  <1>3. CASE x = y
    OBVIOUS
  <1> QED BY <1>1, <1>2, <1>3

LEMMA ModAdd ==
  ASSUME NEW M \in Nat, M > 0, NEW a \in Nat, NEW b \in Nat
  PROVE  ((a % M) + b) % M = (a + b) % M
  <1> DEFINE r == a % M
             x == a \div M
             y == (r + b) \div M
             z == (a + b) \div M
  <1>1. a = M * x + r /\ r \in Nat /\ x \in Nat
    BY DivMod
  <1>2. r + b = M * y + ((r + b) % M) /\ (r + b) % M \in 0..(M - 1) /\ y \in Nat
    <2>1. r + b \in Nat
      BY <1>1
    <2> HIDE DEF r
    <2> QED BY <2>1, DivMod, Zenon
  <1>3. a + b = M * z + ((a + b) % M) /\ (a + b) % M \in 0..(M - 1) /\ z \in Nat
    <2>1. a + b \in Nat
      OBVIOUS
    <2> QED BY <2>1, DivMod, Zenon
  <1> HIDE DEF r, x, y, z
  <1>4. M * (x + y) = M * x + M * y
    BY <1>1, <1>2
  <1>5. ASSUME NEW s \in 0..(M - 1), NEW t \in 0..(M - 1), r + b = M * y + s, a + b = M * z + t
        PROVE  s = t
    <2>1. M * (x + y) + s = M * z + t
      BY <1>1, <1>2, <1>3, <1>4, <1>5
    <2>2. x + y \in Nat /\ z \in Nat
      BY <1>1, <1>2, <1>3
    <2> QED BY <2>1, <2>2, Remainder, Zenon
  <1>6. (r + b) % M = (a + b) % M
    BY <1>2, <1>3, <1>5, Zenon
  <1> QED BY <1>6, Zenon DEF r

LEMMA ModSub ==
  ASSUME NEW M \in Nat, M > 0, NEW a \in Nat, NEW j \in Nat, j <= a, j <= M
  PROVE  ((a % M) + M - j) % M = (a - j) % M
  <1>1. a - j \in Nat /\ M - j \in Nat /\ a % M \in Nat
    BY DivMod
  <1>2. ((a % M) + (M - j)) % M = (a + (M - j)) % M
    BY <1>1, ModAdd, Zenon
  <1>3. a + (M - j) = (a - j) + M
    OBVIOUS
  <1>4. (((a - j) % M) + M) % M = ((a - j) + M) % M
    BY <1>1, ModAdd, Zenon
  <1>5. (a % M) + M - j = (a % M) + (M - j)
    BY <1>1, Zenon
  <1>6. \A r \in 0..(M - 1) : (r + M) % M = r
    <2> TAKE r \in 0..(M - 1)
    <2>1. r + M = M * ((r + M) \div M) + ((r + M) % M) /\ (r + M) % M \in 0..(M - 1)
          /\ (r + M) \div M \in Nat
      BY DivMod
    <2>2. r + M = M * 1 + r
      OBVIOUS
    <2>3. ASSUME NEW z \in Nat, NEW s \in 0..(M - 1), r + M = M * z + s PROVE s = r
      BY <2>2, <2>3, Remainder, Zenon
    <2> QED BY <2>1, <2>3, Zenon
  <1>7. (a - j) % M \in 0..(M - 1)
    BY <1>1, DivMod, Zenon
  <1> QED BY <1>2, <1>3, <1>4, <1>5, <1>6, <1>7, Zenon

\* The first elements of a sequence and the others, and two sequences joined.
LEMMA Split ==
  ASSUME NEW S, NEW q \in Seq(S), NEW k \in 0..Len(q)
  PROVE  /\ Len(q) \in Nat /\ k \in Nat /\ k <= Len(q)
         /\ SubSeq(q, 1, k) \in Seq(S) /\ Len(SubSeq(q, 1, k)) = k
         /\ \A i \in 1..k : SubSeq(q, 1, k)[i] = q[i]
         /\ SubSeq(q, k + 1, Len(q)) \in Seq(S)
         /\ Len(SubSeq(q, k + 1, Len(q))) = Len(q) - k
         /\ \A i \in 1..(Len(q) - k) : SubSeq(q, k + 1, Len(q))[i] = q[k + i]
  <1>1. Len(q) \in Nat /\ k \in Nat /\ k <= Len(q)
    OBVIOUS
  <1>2. SubSeq(q, 1, k) \in Seq(S)
    BY <1>1
  <1>7. Len(SubSeq(q, 1, k)) = k
    BY <1>1
  <1>3. \A i \in 1..k : SubSeq(q, 1, k)[i] = q[i]
    BY <1>1
  <1>4. SubSeq(q, k + 1, Len(q)) \in Seq(S)
    BY <1>1
  <1>5. Len(SubSeq(q, k + 1, Len(q))) = Len(q) - k
    BY <1>1
  <1>6. \A i \in 1..(Len(q) - k) : SubSeq(q, k + 1, Len(q))[i] = q[k + i]
    BY <1>1
  <1> QED BY <1>1, <1>2, <1>7, <1>3, <1>4, <1>5, <1>6, Zenon

LEMMA Joined ==
  ASSUME NEW S, NEW q \in Seq(S), NEW r \in Seq(S)
  PROVE  /\ q \o r \in Seq(S) /\ Len(q \o r) = Len(q) + Len(r)
         /\ \A i \in 1..Len(q) : (q \o r)[i] = q[i]
         /\ \A i \in 1..Len(r) : (q \o r)[Len(q) + i] = r[i]
  OBVIOUS

LEMMA Indices ==
  ASSUME NEW S, NEW q \in Seq(S)
  PROVE  DOMAIN q = 1..Len(q)
  OBVIOUS

LEMMA Single ==
  ASSUME NEW S, NEW m \in S
  PROVE  <<m>> \in Seq(S) /\ Len(<<m>>) = 1 /\ <<m>>[1] = m
  OBVIOUS

\* The bounds of the Postgres relay.
LEMMA PostgresBounds ==
  /\ Modulus \in Nat /\ Modulus > NetCap /\ Modulus > 0
  /\ MaxRows \in Nat /\ NetCap \in Nat /\ NetCap > 0
  BY RelaysAssumption DEF Postgres!RelayAssumption

\* The number due after k more messages, once the client has got j.
LEMMA NumbersMove ==
  ASSUME got \in Nat, NEW j \in Nat, got' = (got + j) % Modulus, NEW k \in Nat
  PROVE  Postgres!Nth(k)' = Postgres!Nth(j + k)
  <1>1. (((got + j) % Modulus) + k) % Modulus = ((got + j) + k) % Modulus
    <2>1. got + j \in Nat
      OBVIOUS
    <2> QED BY <2>1, PostgresBounds, ModAdd, Zenon
  <1>2. (got + j) + k = got + (j + k)
    OBVIOUS
  <1> QED BY <1>1, <1>2, Zenon DEF Postgres!Nth

\* The conjuncts of the invariant, the types of the sequences apart.
LEMMA PostgresParts ==
  ASSUME Postgres!IInv
  PROVE  /\ Postgres!TypeOK /\ Postgres!Numbered /\ Postgres!RowsFollow /\ Postgres!OwnColumns
         /\ Postgres!Closing
         /\ bw \in Seq(Postgres!Message) /\ br \in Seq(Postgres!Message)
         /\ net \in Seq(Postgres!Message)
         /\ Len(bw) \in Nat /\ Len(br) \in Nat /\ Len(net) \in Nat
         /\ Len(net) <= NetCap /\ Len(br) <= NetCap
         /\ got \in Nat /\ got \in 0..(Modulus - 1) /\ sent \in Nat /\ sent \in 0..(Modulus - 1)
         /\ (bw = <<>> <=> Len(bw) = 0) /\ (br = <<>> <=> Len(br) = 0)
         /\ (net = <<>> <=> Len(net) = 0)
  <1>1. /\ Postgres!TypeOK /\ Postgres!Numbered /\ Postgres!RowsFollow /\ Postgres!OwnColumns
        /\ Postgres!Closing
    BY Zenon DEF Postgres!IInv
  <1>2. /\ bw \in Seq(Postgres!Message) /\ br \in Seq(Postgres!Message)
        /\ net \in Seq(Postgres!Message)
        /\ Len(net) <= NetCap /\ Len(br) <= NetCap
        /\ got \in 0..(Modulus - 1) /\ sent \in 0..(Modulus - 1)
    BY <1>1, Zenon DEF Postgres!TypeOK
  <1>3. got \in Nat /\ sent \in Nat
    BY <1>2, PostgresBounds, SMT
  <1>4. /\ Len(bw) \in Nat /\ Len(br) \in Nat /\ Len(net) \in Nat
        /\ (bw = <<>> <=> Len(bw) = 0) /\ (br = <<>> <=> Len(br) = 0)
        /\ (net = <<>> <=> Len(net) = 0)
    <2> HIDE DEF Postgres!Message
    <2> QED BY <1>2, SMT
  <1> QED BY <1>1, <1>2, <1>3, <1>4, Zenon

\* A message of the server: it has the next number, and a row comes after its
\* description.
LEMMA PostgresEmit ==
  ASSUME Postgres!IInv, NEW t \in {"T", "D", "E", "C", "Z", "X"}, NEW s, Postgres!Emit(t, s),
         s \in Postgres!Response,
         t = "D" => srv.at = "rows",
         s.at = "rows" => t \in {"T", "D"} /\ s.s = srv.s
  PROVE  Postgres!IInv'
  <1> DEFINE m == [t |-> t, s |-> srv.s, n |-> sent]
  <1>1. /\ srvUp /\ Len(net) < NetCap /\ net' = Append(net, m)
        /\ sent' = (sent + 1) % Modulus /\ srv' = s /\ prepares' = prepares /\ cli' = cli
        /\ described' = described /\ srvUp' = srvUp /\ br' = br /\ part' = part
        /\ cols' = cols /\ bw' = bw /\ got' = got /\ row' = row /\ ended' = ended
        /\ begun' = FALSE /\ copying' = copying /\ first' = first
    BY Zenon DEF Postgres!Emit, Postgres!pipeVars, Postgres!proxyVars
  <1>2. m.t = t /\ m.s = srv.s /\ m.n = sent
    BY Zenon
  <1>3. m \in Postgres!Message
    BY PostgresParts, Zenon DEF Postgres!Message, Postgres!TypeOK, Postgres!Response
  <1> HIDE DEF m
  <1>4. /\ net' \in Seq(Postgres!Message) /\ net' # <<>> /\ Len(net') = Len(net) + 1
        /\ \A i \in 1..Len(net) : net'[i] = net[i]
        /\ net'[Len(net) + 1] = m
    <2>1. net \in Seq(Postgres!Message)
      BY PostgresParts, Zenon
    <2>2. net' = Append(net, m)
      BY <1>1, Zenon
    <2> QED BY <1>3, <2>1, <2>2, Appended
  <1>5. /\ Len(bw) \in Nat /\ Len(br) \in Nat /\ Len(net) \in Nat
        /\ (net = <<>> <=> Len(net) = 0)
    BY PostgresParts, Zenon
  <1>6. \A k : Postgres!Nth(k)' = Postgres!Nth(k)
    BY <1>1, Zenon DEF Postgres!Nth
  <1>a. Postgres!TypeOK'
    <2>1. Len(net') <= NetCap
      BY <1>1, <1>4, <1>5, PostgresBounds, SMT
    <2>2. sent' \in 0..(Modulus - 1)
      <3>1. sent + 1 \in Nat
        BY PostgresParts
      <3> QED BY <1>1, <3>1, PostgresBounds, DivMod, Zenon
    <2>3. begun' \in BOOLEAN
      BY <1>1, Zenon
    <2> QED BY <1>1, <1>4, <2>1, <2>2, <2>3, PostgresParts, Zenon DEF Postgres!TypeOK
  <1>b. Postgres!Numbered'
    <2> DEFINE N(k) == Postgres!Nth(k)
    <2>1. /\ \A i \in 1..Len(bw) : bw[i].n = N(i - 1)
          /\ \A i \in 1..Len(br) : br[i].n = N(Len(bw) + i - 1)
          /\ \A i \in 1..Len(net) : net[i].n = N(Len(bw) + Len(br) + i - 1)
          /\ sent = N(Len(bw) + Len(br) + Len(net))
      BY PostgresParts, Zenon DEF Postgres!Numbered
    <2>2. sent' = N(Len(bw) + Len(br) + Len(net) + 1)
      <3> DEFINE k == Len(bw) + Len(br) + Len(net)
      <3>1. k \in Nat /\ got + k \in Nat /\ 1 \in Nat
        BY <1>5, PostgresParts, SMT
      <3> HIDE DEF k
      <3>2. sent' = (((got + k) % Modulus) + 1) % Modulus
        BY <1>1, <2>1, Zenon DEF Postgres!Nth, k
      <3>3. sent' = (got + k + 1) % Modulus
        BY <3>1, <3>2, PostgresBounds, ModAdd, ZenonT(30)
      <3>4. got + k + 1 = got + (k + 1)
        BY <3>1, PostgresParts, SMT
      <3>5. sent' = N(k + 1)
        BY <3>3, <3>4, Zenon DEF Postgres!Nth
      <3> QED BY <3>5, Zenon DEF k
    <2> HIDE DEF N
    <2>3. \A i \in 1..Len(net') : net'[i].n = N(Len(bw) + Len(br) + i - 1)
      <3> SUFFICES ASSUME NEW i \in 1..Len(net')
                   PROVE  net'[i].n = N(Len(bw) + Len(br) + i - 1)
        BY Zenon
      <3>1. CASE i \in 1..Len(net)
        BY <1>4, <2>1, <3>1, Zenon
      <3>2. CASE i = Len(net) + 1
        <4>1. Len(bw) + Len(br) + i - 1 = Len(bw) + Len(br) + Len(net)
          BY <1>5, <3>2, SMT
        <4> QED BY <1>2, <1>4, <2>1, <3>2, <4>1, Zenon
      <3> QED BY <1>4, <1>5, <3>1, <3>2, SMT
    <2>4. Len(bw) + Len(br) + Len(net') = Len(bw) + Len(br) + Len(net) + 1
      BY <1>4, <1>5, SMT
    <2> QED BY <1>1, <1>6, <2>1, <2>2, <2>3, <2>4, Zenon DEF Postgres!Numbered, N
  <1>c. Postgres!RowsFollow'
    <2> SUFFICES ASSUME ~prepares PROVE Postgres!RowsFollow'
      BY <1>1, Zenon DEF Postgres!RowsFollow
    <2>1. /\ Postgres!Chained(br) /\ Postgres!Chained(net)
          /\ br # <<>> /\ br[1].t = "D" => cols = br[1].s
          /\ net # <<>> /\ net[1].t = "D" => Postgres!ReaderLeads(net[1].s)
          /\ srvUp /\ srv.at = "rows" => Postgres!NetLeads(srv.s)
      BY PostgresParts, Zenon DEF Postgres!RowsFollow
    <2>2. t = "D" => Postgres!NetLeads(srv.s)
      BY <1>1, <2>1, Zenon
    <2>3. Postgres!Chained(net')
      <3> SUFFICES ASSUME NEW i \in 1..(Len(net') - 1), net'[i + 1].t = "D"
                   PROVE  Postgres!Leads(net'[i], net'[i + 1].s)
        BY Zenon DEF Postgres!Chained
      <3>1. CASE i < Len(net)
        <4>1. i \in 1..Len(net) /\ i + 1 \in 1..Len(net) /\ i \in 1..(Len(net) - 1)
          BY <1>4, <1>5, <3>1, SMT
        <4> QED BY <1>4, <2>1, <4>1, Zenon DEF Postgres!Chained
      <3>2. CASE i = Len(net)
        <4>1. i \in 1..Len(net) /\ net # <<>>
          BY <1>4, <1>5, <3>2, SMT
        <4> QED BY <1>2, <1>4, <2>2, <3>2, <4>1, Zenon DEF Postgres!NetLeads
      <3> QED BY <1>4, <1>5, <3>1, <3>2, SMT
    <2>4. net'[1].t = "D" => Postgres!ReaderLeads(net'[1].s)
      <3>1. CASE net = <<>>
        <4>1. net'[1] = m
          BY <1>4, <1>5, <3>1, SMT
        <4> QED BY <1>2, <2>2, <3>1, <4>1, Zenon DEF Postgres!NetLeads
      <3>2. CASE net # <<>>
        <4>1. net'[1] = net[1]
          BY <1>4, <1>5, <3>2, SMT
        <4> QED BY <2>1, <3>2, <4>1, Zenon
      <3> QED BY <3>1, <3>2, Zenon
    <2>5. s.at = "rows" => Postgres!Leads(net'[Len(net')], s.s)
      <3>1. s.at = "rows" => Postgres!Leads(m, s.s)
        BY <1>2, Zenon DEF Postgres!Leads
      <3> QED BY <1>4, <3>1, Zenon
    <2>6. /\ \A k : Postgres!ReaderLeads(k)' = Postgres!ReaderLeads(k)
          /\ Postgres!Chained(br)' = Postgres!Chained(br)
      BY <1>1, Zenon DEF Postgres!ReaderLeads, Postgres!Chained
    <2>7. s.at = "rows" => Postgres!NetLeads(srv.s)'
      BY <1>1, <1>4, <2>5, Zenon DEF Postgres!NetLeads
    <2> QED BY <1>1, <2>1, <2>3, <2>4, <2>6, <2>7, Zenon DEF Postgres!RowsFollow, Postgres!Chained,
                                                            Postgres!ReaderLeads
  <1>d. Postgres!OwnColumns' /\ Postgres!Closing'
    BY <1>1, PostgresParts, Zenon DEF Postgres!OwnColumns, Postgres!Closing, Postgres!Closed
  <1> QED BY <1>a, <1>b, <1>c, <1>d, Zenon DEF Postgres!IInv

\* A step that leaves the messages, and what has been made of them, alone.
LEMMA PostgresHold ==
  ASSUME Postgres!IInv, Postgres!Closing', srvUp' => srvUp, srvUp' \in BOOLEAN,
         begun' \in BOOLEAN, ended' \in BOOLEAN, copying' \in BOOLEAN,
         first' \in {"none", "c2s", "s2c", "lost"},
         UNCHANGED <<prepares, cli, described, srv, sent, net, br, part, cols, bw, got, row>>
  PROVE  Postgres!IInv'
  <1>1. /\ prepares' = prepares /\ cli' = cli /\ described' = described /\ srv' = srv
        /\ sent' = sent /\ net' = net /\ br' = br /\ part' = part
        /\ cols' = cols /\ bw' = bw /\ got' = got /\ row' = row
    BY Zenon
  <1>2. Postgres!TypeOK'
    BY <1>1, PostgresParts, ZenonT(30) DEF Postgres!TypeOK
  <1>3. Postgres!Numbered'
    BY <1>1, PostgresParts, Zenon DEF Postgres!Numbered, Postgres!Nth
  <1>4. Postgres!RowsFollow'
    <2>1. Postgres!RowsFollow
      BY PostgresParts, Zenon
    <2>2. /\ \A s : Postgres!ReaderLeads(s)' <=> Postgres!ReaderLeads(s)
          /\ \A s : Postgres!NetLeads(s)' <=> Postgres!NetLeads(s)
          /\ Postgres!Chained(br)' <=> Postgres!Chained(br)
          /\ Postgres!Chained(net)' <=> Postgres!Chained(net)
      BY <1>1, SMT DEF Postgres!ReaderLeads, Postgres!NetLeads, Postgres!Chained
    <2> QED BY <1>1, <2>1, <2>2, SMT DEF Postgres!RowsFollow
  <1>5. Postgres!OwnColumns'
    <2>1. Postgres!OwnColumns
      BY PostgresParts, Zenon
    <2> QED BY <1>1, <2>1, SMT DEF Postgres!OwnColumns
  <1> QED BY <1>2, <1>3, <1>4, <1>5, Zenon DEF Postgres!IInv

LEMMA PostgresServer ==
  ASSUME Postgres!IInv, Postgres!Server
  PROVE  Postgres!IInv'
  <1> DEFINE S == Postgres!Response
  <1>1. srv \in S
    BY PostgresParts, Zenon DEF Postgres!TypeOK
  <1>2. CASE Postgres!Describes
    <2>1. Postgres!Emit("T", [srv EXCEPT !.at = "rows"])
      BY <1>2, Zenon DEF Postgres!Describes
    <2>2. [srv EXCEPT !.at = "rows"] \in S /\ [srv EXCEPT !.at = "rows"].s = srv.s
      BY <1>1, Zenon DEF Postgres!Response
    <2>3. "T" \in {"T", "D", "E", "C", "Z", "X"} /\ "T" # "D" /\ "T" \in {"T", "D"}
      BY Zenon
    <2> QED BY <2>1, <2>2, <2>3, PostgresEmit, Zenon
  <1>3. CASE Postgres!SendsRow
    <2>1. srv.at = "rows" /\ srv.rows < MaxRows /\ Postgres!Emit("D", [srv EXCEPT !.rows = srv.rows + 1])
      BY <1>3, Zenon DEF Postgres!SendsRow
    <2>2. srv.rows + 1 \in 0..MaxRows
      BY <1>1, <2>1, PostgresBounds DEF Postgres!Response
    <2>3. ASSUME NEW k \in 0..MaxRows
          PROVE  [srv EXCEPT !.rows = k] \in S /\ [srv EXCEPT !.rows = k].s = srv.s
      BY <1>1, Zenon DEF Postgres!Response
    <2>4. "D" \in {"T", "D", "E", "C", "Z", "X"} /\ "D" \in {"T", "D"}
      BY Zenon
    <2> QED BY <2>1, <2>2, <2>3, <2>4, PostgresEmit, Zenon
  <1>4. CASE Postgres!Completes
    <2>1. PICK t \in {"C", "E"} : Postgres!Emit(t, [srv EXCEPT !.at = "done"])
      BY <1>4, Zenon DEF Postgres!Completes
    <2>2. [srv EXCEPT !.at = "done"] \in S /\ [srv EXCEPT !.at = "done"].at # "rows"
      BY <1>1, Zenon DEF Postgres!Response
    <2>3. t \in {"T", "D", "E", "C", "Z", "X"} /\ t # "D"
      BY Zenon
    <2> QED BY <2>1, <2>2, <2>3, PostgresEmit, Zenon
  <1>5. CASE Postgres!Readies
    <2>1. Postgres!Emit("Z", Postgres!Idle)
      BY <1>5, Zenon DEF Postgres!Readies
    <2>2. Postgres!Idle \in S /\ Postgres!Idle.at # "rows"
      BY PostgresBounds DEF Postgres!Idle, Postgres!Response
    <2>3. "Z" \in {"T", "D", "E", "C", "Z", "X"} /\ "Z" # "D"
      BY Zenon
    <2> QED BY <2>1, <2>2, <2>3, PostgresEmit, Zenon
  <1>6. CASE Postgres!Garbles
    <2>1. Postgres!Emit("X", [srv EXCEPT !.at = "garbled"])
      BY <1>6, Zenon DEF Postgres!Garbles
    <2>2. [srv EXCEPT !.at = "garbled"] \in S /\ [srv EXCEPT !.at = "garbled"].at # "rows"
      BY <1>1, Zenon DEF Postgres!Response
    <2>3. "X" \in {"T", "D", "E", "C", "Z", "X"} /\ "X" # "D"
      BY Zenon
    <2> QED BY <2>1, <2>2, <2>3, PostgresEmit, Zenon
  <1>7. CASE Postgres!Begins
    <2>1. /\ UNCHANGED <<prepares, cli, described, srv, sent, net, br, part, cols, bw, got, row>>
          /\ begun' = TRUE /\ srvUp' = srvUp /\ ended' = ended
          /\ copying' = copying /\ first' = first
      BY <1>7, Zenon DEF Postgres!Begins, Postgres!pipeVars, Postgres!proxyVars
    <2>2. /\ begun' \in BOOLEAN /\ srvUp \in BOOLEAN /\ ended \in BOOLEAN /\ copying \in BOOLEAN
          /\ first \in {"none", "c2s", "s2c", "lost"}
      BY <2>1, PostgresParts, Zenon DEF Postgres!TypeOK
    <2>3. Postgres!Closing'
      BY <2>1, PostgresParts, Zenon DEF Postgres!Closing, Postgres!Closed, Postgres!Unframed
    <2> QED BY <2>1, <2>2, <2>3, PostgresHold, Zenon
  <1> QED BY <1>2, <1>3, <1>4, <1>5, <1>6, <1>7, Zenon DEF Postgres!Server

\* The server's connection ends: a prefix of what is on the way still arrives.
LEMMA PostgresGone ==
  ASSUME Postgres!IInv, Postgres!ServerGone
  PROVE  Postgres!IInv'
  <1>1. PICK k \in 0..Len(net) : /\ net' = SubSeq(net, 1, k)
                                 /\ sent' = (sent + Modulus - (Len(net) - k)) % Modulus
    BY Zenon DEF Postgres!ServerGone
  <1>2. /\ srvUp' = FALSE /\ prepares' = prepares /\ cli' = cli
        /\ described' = described /\ srv' = srv /\ br' = br /\ part' = part
        /\ cols' = cols /\ bw' = bw /\ got' = got /\ row' = row /\ ended' = ended
        /\ begun' = begun /\ copying' = copying /\ first' = first
    BY Zenon DEF Postgres!ServerGone, Postgres!pipeVars, Postgres!proxyVars
  <1>3. /\ Len(bw) \in Nat /\ Len(br) \in Nat /\ Len(net) \in Nat /\ Len(net) <= NetCap
        /\ (net = <<>> <=> Len(net) = 0) /\ net \in Seq(Postgres!Message)
    BY PostgresParts, Zenon
  <1>4. /\ net' \in Seq(Postgres!Message) /\ Len(net') = k /\ k \in Nat /\ k <= Len(net)
        /\ \A i \in 1..k : net'[i] = net[i]
    BY <1>1, <1>3, Split, ZenonT(30)
  <1>5. net' = <<>> <=> k = 0
    BY <1>4, NoPackets, Zenon
  <1>6. \A j : Postgres!Nth(j)' = Postgres!Nth(j)
    BY <1>2, Zenon DEF Postgres!Nth
  <1>a. Postgres!TypeOK'
    <2>1. Len(net') <= NetCap
      BY <1>3, <1>4, PostgresBounds, SMT
    <2>2. sent' \in 0..(Modulus - 1)
      <3>1. sent + Modulus - (Len(net) - k) \in Nat
        BY <1>3, <1>4, PostgresParts, PostgresBounds, SMT
      <3> QED BY <1>1, <3>1, PostgresBounds, DivMod, Zenon
    <2>3. srvUp' \in BOOLEAN
      BY <1>2, Zenon
    <2> QED BY <1>2, <1>4, <2>1, <2>2, <2>3, PostgresParts, Zenon DEF Postgres!TypeOK
  <1>b. Postgres!Numbered'
    <2> DEFINE N(i) == Postgres!Nth(i)
    <2>1. /\ \A i \in 1..Len(bw) : bw[i].n = N(i - 1)
          /\ \A i \in 1..Len(br) : br[i].n = N(Len(bw) + i - 1)
          /\ \A i \in 1..Len(net) : net[i].n = N(Len(bw) + Len(br) + i - 1)
          /\ sent = N(Len(bw) + Len(br) + Len(net))
      BY PostgresParts, Zenon DEF Postgres!Numbered
    <2>2. sent' = N(Len(bw) + Len(br) + k)
      <3> DEFINE a == got + (Len(bw) + Len(br) + Len(net))
                 j == Len(net) - k
      <3>1. a \in Nat /\ j \in Nat /\ j <= a /\ j <= Modulus
        BY <1>3, <1>4, PostgresParts, PostgresBounds, SMT
      <3>2. a - j = got + (Len(bw) + Len(br) + k)
        BY <1>3, <1>4, PostgresParts, SMT
      <3>3. sent = a % Modulus /\ sent' = (sent + Modulus - j) % Modulus
        BY <1>1, <2>1, Zenon DEF Postgres!Nth
      <3> HIDE DEF a, j
      <3>4. ((a % Modulus) + Modulus - j) % Modulus = (a - j) % Modulus
        BY <3>1, PostgresBounds, ModSub, Zenon
      <3> QED BY <3>2, <3>3, <3>4, Zenon DEF Postgres!Nth
    <2> HIDE DEF N
    <2>3. \A i \in 1..Len(net') : net'[i].n = N(Len(bw) + Len(br) + i - 1)
      <3>1. \A i \in 1..k : i \in 1..Len(net)
        BY <1>3, <1>4, SMT
      <3> QED BY <1>4, <2>1, <3>1, Zenon
    <2> QED BY <1>2, <1>4, <1>6, <2>1, <2>2, <2>3, Zenon DEF Postgres!Numbered, N
  <1>c. Postgres!RowsFollow'
    <2> SUFFICES ASSUME ~prepares PROVE Postgres!RowsFollow'
      BY <1>2, Zenon DEF Postgres!RowsFollow
    <2>1. /\ Postgres!Chained(br) /\ Postgres!Chained(net)
          /\ br # <<>> /\ br[1].t = "D" => cols = br[1].s
          /\ net # <<>> /\ net[1].t = "D" => Postgres!ReaderLeads(net[1].s)
      BY PostgresParts, Zenon DEF Postgres!RowsFollow
    <2>2. Postgres!Chained(net')
      <3>1. \A i \in 1..(k - 1) : i \in 1..k /\ i + 1 \in 1..k /\ i \in 1..(Len(net) - 1)
        BY <1>3, <1>4, SMT
      <3> QED BY <1>4, <2>1, <3>1, Zenon DEF Postgres!Chained
    <2>3. net' # <<>> => net # <<>> /\ net'[1] = net[1]
      BY <1>3, <1>4, <1>5, SMT
    <2>4. ~srvUp'
      BY <1>2, Zenon
    <2> QED BY <1>2, <2>1, <2>2, <2>3, <2>4, Zenon DEF Postgres!RowsFollow, Postgres!Chained,
                                                      Postgres!ReaderLeads
  <1>d. Postgres!OwnColumns' /\ Postgres!Closing'
    <2>1. net = <<>> => net' = <<>>
      BY <1>3, <1>4, <1>5, SMT
    <2>2. ~srvUp'
      BY <1>2, Zenon
    <2> QED BY <1>2, <2>1, <2>2, PostgresParts, Zenon
            DEF Postgres!OwnColumns, Postgres!Closing, Postgres!Closed, Postgres!Unframed
  <1> QED BY <1>a, <1>b, <1>c, <1>d, Zenon DEF Postgres!IInv

\* A read of the connection moves messages into the empty reader.
LEMMA PostgresFill ==
  ASSUME Postgres!IInv, Postgres!Fill
  PROVE  Postgres!IInv'
  <1>1. PICK k \in 0..Len(net), p \in BOOLEAN :
          /\ br' = SubSeq(net, 1, k) /\ part' = p
          /\ net' = SubSeq(net, k + 1, Len(net))
    BY Zenon DEF Postgres!Fill
  <1>2. /\ ~ended /\ br = <<>> /\ prepares' = prepares /\ cli' = cli /\ sent' = sent
        /\ described' = described /\ srv' = srv /\ srvUp' = srvUp
        /\ cols' = cols /\ bw' = bw /\ got' = got /\ row' = row /\ ended' = ended
        /\ begun' = begun /\ copying' = copying /\ first' = first
    BY Zenon DEF Postgres!Fill, Postgres!serverVars, Postgres!proxyVars
  <1>3. /\ Len(bw) \in Nat /\ Len(br) = 0 /\ Len(net) \in Nat /\ Len(net) <= NetCap
        /\ (net = <<>> <=> Len(net) = 0) /\ net \in Seq(Postgres!Message)
    BY <1>2, PostgresParts, Zenon
  <1>4. /\ br' \in Seq(Postgres!Message) /\ Len(br') = k /\ k \in Nat /\ k <= Len(net)
        /\ \A i \in 1..k : br'[i] = net[i]
        /\ net' \in Seq(Postgres!Message) /\ Len(net') = Len(net) - k
        /\ \A i \in 1..(Len(net) - k) : net'[i] = net[k + i]
    BY <1>1, <1>3, Split
  <1>5. (br' = <<>> <=> k = 0) /\ (net' = <<>> <=> Len(net) - k = 0)
    BY <1>4, NoPackets, Zenon
  <1>6. \A j : Postgres!Nth(j)' = Postgres!Nth(j)
    BY <1>2, Zenon DEF Postgres!Nth
  <1>a. Postgres!TypeOK'
    <2>1. Len(net') <= NetCap /\ Len(br') <= NetCap
      BY <1>3, <1>4, PostgresBounds, SMT
    <2> QED BY <1>1, <1>2, <1>4, <2>1, PostgresParts, ZenonT(30) DEF Postgres!TypeOK
  <1>b. Postgres!Numbered'
    <2> DEFINE N(i) == Postgres!Nth(i)
    <2>1. /\ \A i \in 1..Len(bw) : bw[i].n = N(i - 1)
          /\ \A i \in 1..Len(net) : net[i].n = N(Len(bw) + Len(br) + i - 1)
          /\ sent = N(Len(bw) + Len(br) + Len(net))
      BY PostgresParts, Zenon DEF Postgres!Numbered
    <2> HIDE DEF N
    <2>2. \A i \in 1..k : br'[i].n = N(Len(bw) + i - 1)
      <3> TAKE i \in 1..k
      <3>1. i \in 1..Len(net) /\ Len(bw) + Len(br) + i - 1 = Len(bw) + i - 1
        BY <1>3, <1>4, SMT
      <3> QED BY <1>4, <2>1, <3>1, Zenon
    <2>3. \A i \in 1..(Len(net) - k) : net'[i].n = N(Len(bw) + k + i - 1)
      <3> TAKE i \in 1..(Len(net) - k)
      <3>1. k + i \in 1..Len(net) /\ Len(bw) + Len(br) + (k + i) - 1 = Len(bw) + k + i - 1
        BY <1>3, <1>4, SMT
      <3>2. net[k + i].n = N(Len(bw) + Len(br) + (k + i) - 1)
        BY <2>1, <3>1, Zenon
      <3> QED BY <1>4, <3>1, <3>2, Zenon
    <2>4. Len(bw) + k + (Len(net) - k) = Len(bw) + Len(br) + Len(net)
      BY <1>3, <1>4, SMT
    <2> QED BY <1>2, <1>4, <1>6, <2>1, <2>2, <2>3, <2>4, Zenon DEF Postgres!Numbered, N
  <1>c. Postgres!RowsFollow'
    <2> SUFFICES ASSUME ~prepares PROVE Postgres!RowsFollow'
      BY <1>2, Zenon DEF Postgres!RowsFollow
    <2>1. /\ Postgres!Chained(net)
          /\ net # <<>> /\ net[1].t = "D" => cols = net[1].s
          /\ srvUp /\ srv.at = "rows" =>
               IF net = <<>> THEN cols = srv.s ELSE Postgres!Leads(net[Len(net)], srv.s)
      BY <1>2, PostgresParts, Zenon
      DEF Postgres!RowsFollow, Postgres!ReaderLeads, Postgres!NetLeads
    <2>2. Postgres!Chained(br')
      <3>1. \A i \in 1..(k - 1) : i \in 1..k /\ i + 1 \in 1..k /\ i \in 1..(Len(net) - 1)
        BY <1>3, <1>4, SMT
      <3> QED BY <1>4, <2>1, <3>1, Zenon DEF Postgres!Chained
    <2>3. Postgres!Chained(net')
      <3> SUFFICES ASSUME NEW i \in 1..(Len(net') - 1), net'[i + 1].t = "D"
                   PROVE  Postgres!Leads(net'[i], net'[i + 1].s)
        BY Zenon DEF Postgres!Chained
      <3>1. /\ i \in 1..(Len(net) - k) /\ i + 1 \in 1..(Len(net) - k)
            /\ k + i \in 1..(Len(net) - 1) /\ k + (i + 1) = (k + i) + 1
        <4>1. \A a, b \in Nat : \A j \in 1..((b - a) - 1) :
                /\ j \in 1..(b - a) /\ j + 1 \in 1..(b - a) /\ a + j \in 1..(b - 1)
                /\ a + (j + 1) = (a + j) + 1
          OBVIOUS
        <4>2. Len(net') = Len(net) - k /\ k \in Nat /\ Len(net) \in Nat
          BY <1>3, <1>4, Zenon
        <4>3. i \in 1..((Len(net) - k) - 1)
          BY <4>2, Zenon
        <4> QED BY <4>1, <4>2, <4>3, Zenon
      <3> QED BY <1>4, <2>1, <3>1, ZenonT(30) DEF Postgres!Chained
    <2>4. br' # <<>> => net # <<>> /\ br'[1] = net[1]
      BY <1>3, <1>4, <1>5, SMT
    <2>5. net' # <<>> /\ net'[1].t = "D" => Postgres!ReaderLeads(net[1].s)'
      <3> SUFFICES ASSUME net' # <<>>, net'[1].t = "D"
                   PROVE  IF br' = <<>> THEN cols = net'[1].s
                          ELSE Postgres!Leads(br'[Len(br')], net'[1].s)
        BY <1>2, Zenon DEF Postgres!ReaderLeads
      <3>1. CASE k = 0
        <4>1. net # <<>> /\ net'[1] = net[1]
          BY <1>3, <1>4, <1>5, <3>1, SMT
        <4> QED BY <1>5, <2>1, <3>1, <4>1, Zenon
      <3>2. CASE k # 0
        <4>1. /\ k \in 1..(Len(net) - 1) /\ k \in 1..k /\ 1 \in 1..(Len(net) - k)
          BY <1>3, <1>4, <1>5, <3>2, SMT
        <4>2. net'[1] = net[k + 1] /\ br'[Len(br')] = net[k]
          BY <1>4, <4>1, Zenon
        <4> QED BY <1>5, <2>1, <3>2, <4>1, <4>2, Zenon DEF Postgres!Chained
      <3> QED BY <3>1, <3>2, Zenon
    <2>6. srvUp /\ srv.at = "rows" => Postgres!NetLeads(srv.s)'
      <3> SUFFICES ASSUME srvUp, srv.at = "rows"
                   PROVE  IF net' = <<>>
                          THEN IF br' = <<>> THEN cols = srv.s
                               ELSE Postgres!Leads(br'[Len(br')], srv.s)
                          ELSE Postgres!Leads(net'[Len(net')], srv.s)
        BY <1>2, Zenon DEF Postgres!ReaderLeads, Postgres!NetLeads
      <3>1. CASE net' # <<>>
        <4>1. Len(net') \in 1..(Len(net) - k) /\ k + Len(net') = Len(net) /\ net # <<>>
          BY <1>3, <1>4, <1>5, <3>1, SMT
        <4>2. net'[Len(net')] = net[k + Len(net')]
          BY <1>4, <4>1, Zenon
        <4> QED BY <2>1, <3>1, <4>1, <4>2, Zenon
      <3>2. CASE net' = <<>> /\ br' # <<>>
        <4>1. k = Len(net) /\ k \in 1..k /\ net # <<>>
          BY <1>3, <1>4, <1>5, <3>2, SMT
        <4>2. br'[Len(br')] = net[Len(net)]
          BY <1>4, <4>1, Zenon
        <4> QED BY <2>1, <3>2, <4>1, <4>2, Zenon
      <3>3. CASE net' = <<>> /\ br' = <<>>
        <4>1. net = <<>>
          BY <1>3, <1>4, <1>5, <3>3, SMT
        <4> QED BY <2>1, <3>3, <4>1, Zenon
      <3> QED BY <3>1, <3>2, <3>3, Zenon
    <2> QED BY <1>2, <2>1, <2>2, <2>3, <2>4, <2>5, <2>6, Zenon
             DEF Postgres!RowsFollow, Postgres!Chained
  <1>d. Postgres!OwnColumns' /\ Postgres!Closing'
    BY <1>2, PostgresParts, Zenon DEF Postgres!OwnColumns, Postgres!Closing, Postgres!Closed
  <1> QED BY <1>a, <1>b, <1>c, <1>d, Zenon DEF Postgres!IInv

\* What Delivers does to the count of what the client has got.
LEMMA PostgresDelivers ==
  ASSUME Postgres!IInv, NEW q \in Seq(Postgres!Message), Postgres!Delivers(q)
  PROVE  /\ got' = (got + Len(q)) % Modulus /\ got' \in 0..(Modulus - 1)
         /\ cli' \in {"ready", "waiting"}
         /\ \A k \in Nat : Postgres!Nth(k)' = Postgres!Nth(Len(q) + k)
  <1>1. got' = (got + Len(q)) % Modulus
    BY Zenon DEF Postgres!Delivers
  <1>2. got \in Nat /\ Len(q) \in Nat /\ got + Len(q) \in Nat /\ cli \in {"ready", "waiting"}
    <2>1. got \in Nat /\ cli \in {"ready", "waiting"}
      BY PostgresParts, Zenon DEF Postgres!TypeOK
    <2>2. Len(q) \in Nat
      BY NoPackets, Appended
    <2> QED BY <2>1, <2>2
  <1>3. cli' \in {"ready", "waiting"}
    BY <1>2, SMT DEF Postgres!Delivers
  <1>4. got' \in 0..(Modulus - 1)
    BY <1>1, <1>2, PostgresBounds, DivMod, Zenon
  <1>5. ASSUME NEW k \in Nat PROVE Postgres!Nth(k)' = Postgres!Nth(Len(q) + k)
    BY <1>1, <1>2, NumbersMove, Zenon
  <1> QED BY <1>1, <1>3, <1>4, <1>5, Zenon

\* One message taken from the reader, masked if it is a row, and written.
LEMMA PostgresPipe ==
  ASSUME Postgres!IInv, Postgres!Pipe
  PROVE  Postgres!IInv'
  <1> DEFINE m == Head(br)
             M == Postgres!Message
  <1>1. /\ ~ended /\ br # <<>> /\ br' = Tail(br)
        /\ cols' = Postgres!Columns(m)
        /\ row' = IF m.t = "D" THEN [s |-> m.s, with |-> cols] ELSE row
        /\ prepares' = prepares /\ described' = described /\ srv' = srv /\ srvUp' = srvUp
        /\ sent' = sent /\ net' = net /\ part' = part /\ ended' = ended
        /\ begun' = begun /\ copying' = copying /\ first' = first
    BY ZenonT(30) DEF Postgres!Pipe, Postgres!proxyVars
  <1>2. \/ bw' = <<>> /\ Postgres!Delivers(Append(bw, m))
        \/ bw' = Append(bw, m) /\ got' = got /\ cli' = cli
        \/ bw' = <<m>> /\ Postgres!Delivers(bw)
    BY Zenon DEF Postgres!Pipe
  <1>3. /\ bw \in Seq(M) /\ br \in Seq(M) /\ net \in Seq(M)
        /\ Len(bw) \in Nat /\ Len(br) \in Nat /\ Len(net) \in Nat /\ Len(br) <= NetCap
        /\ got \in 0..(Modulus - 1) /\ cli \in {"ready", "waiting"}
    BY PostgresParts, ZenonT(30) DEF Postgres!TypeOK
  <1>4. /\ br' \in Seq(M) /\ m = br[1] /\ m \in M /\ Len(br) > 0 /\ Len(br') = Len(br) - 1
        /\ \A i \in 1..(Len(br) - 1) : br'[i] = br[i + 1]
        /\ br' = <<>> <=> Len(br) = 1
    <2> HIDE DEF M
    <2> QED BY <1>1, <1>3, Taken, Zenon
  <1>5. m.s \in Statements \cup {NoStatement}
    BY <1>4, Zenon DEF Postgres!Message
  <1> DEFINE N(i) == Postgres!Nth(i)
  <1>6. /\ \A i \in 1..Len(bw) : bw[i].n = N(i - 1)
        /\ \A i \in 1..Len(br) : br[i].n = N(Len(bw) + i - 1)
        /\ \A i \in 1..Len(net) : net[i].n = N(Len(bw) + Len(br) + i - 1)
        /\ sent = N(Len(bw) + Len(br) + Len(net))
    BY PostgresParts, Zenon DEF Postgres!Numbered
  <1>7. m.n = N(Len(bw))
    <2>1. 1 \in 1..Len(br) /\ Len(bw) + 1 - 1 = Len(bw)
      BY <1>3, <1>4, SMT
    <2> QED BY <1>4, <1>6, <2>1, Zenon
  <1> HIDE DEF m, M, N
  <1>8. /\ bw' \in Seq(M) /\ got' \in 0..(Modulus - 1) /\ cli' \in {"ready", "waiting"}
        /\ \E j \in Nat : /\ j + Len(bw') = Len(bw) + 1 /\ Len(bw') \in Nat
                          /\ \A k \in Nat : Postgres!Nth(k)' = N(j + k)
                          /\ \A i \in 1..Len(bw') : bw'[i].n = N(j + i - 1)
    <2>1. /\ Append(bw, m) \in Seq(M) /\ Len(Append(bw, m)) = Len(bw) + 1
          /\ \A i \in 1..Len(bw) : Append(bw, m)[i] = bw[i]
          /\ Append(bw, m)[Len(bw) + 1] = m
      BY <1>3, <1>4, Appended
    <2>2. CASE bw' = <<>> /\ Postgres!Delivers(Append(bw, m))
      <3>1. bw' \in Seq(M) /\ Len(bw') = 0
        BY <2>2
      <3>2. /\ got' \in 0..(Modulus - 1) /\ cli' \in {"ready", "waiting"}
            /\ \A k \in Nat : Postgres!Nth(k)' = N(Len(bw) + 1 + k)
        BY <2>1, <2>2, PostgresDelivers, Zenon DEF M, N
      <3>3. (Len(bw) + 1) + 0 = Len(bw) + 1 /\ Len(bw) + 1 \in Nat /\ 0 \in Nat /\ \A i \in 1..0 : FALSE
        BY <1>3, SMT
      <3> QED BY <3>1, <3>2, <3>3, Zenon
    <2>3. CASE bw' = Append(bw, m) /\ got' = got /\ cli' = cli
      <3>1. 0 + (Len(bw) + 1) = Len(bw) + 1 /\ 0 \in Nat /\ Len(bw) + 1 \in Nat
        BY <1>3, SMT
      <3>2. \A k \in Nat : Postgres!Nth(k)' = N(0 + k)
        <4>1. \A k \in Nat : 0 + k = k
          OBVIOUS
        <4> QED BY <2>3, <4>1, Zenon DEF Postgres!Nth, N
      <3>3. \A i \in 1..Len(bw') : bw'[i].n = N(0 + i - 1)
        <4> SUFFICES ASSUME NEW i \in 1..(Len(bw) + 1) PROVE bw'[i].n = N(0 + i - 1)
          BY <2>1, <2>3, Zenon
        <4>1. CASE i \in 1..Len(bw)
          <5>1. 0 + i - 1 = i - 1
            OBVIOUS
          <5> QED BY <1>6, <2>1, <2>3, <4>1, <5>1, Zenon
        <4>2. CASE i = Len(bw) + 1
          <5>1. 0 + i - 1 = Len(bw)
            BY <1>3, <4>2, SMT
          <5> QED BY <1>7, <2>1, <2>3, <4>2, <5>1, Zenon
        <4> QED BY <1>3, <4>1, <4>2, SMT
      <3> QED BY <1>3, <2>1, <2>3, <3>1, <3>2, <3>3, Zenon
    <2>4. CASE bw' = <<m>> /\ Postgres!Delivers(bw)
      <3>1. bw' \in Seq(M) /\ Len(bw') = 1 /\ bw'[1] = m
        BY <1>4, <2>4, Single, Zenon
      <3>2. /\ got' \in 0..(Modulus - 1) /\ cli' \in {"ready", "waiting"}
            /\ \A k \in Nat : Postgres!Nth(k)' = N(Len(bw) + k)
        BY <1>3, <2>4, PostgresDelivers, Zenon DEF M, N
      <3>3. \A i \in 1..1 : i = 1 /\ Len(bw) + i - 1 = Len(bw)
        BY <1>3, SMT
      <3>4. 1 \in Nat
        BY Zenon
      <3>5. \A i \in 1..Len(bw') : bw'[i].n = N(Len(bw) + i - 1)
        BY <1>7, <3>1, <3>3, Zenon
      <3> QED BY <1>3, <3>1, <3>2, <3>4, <3>5, Zenon
    <2> QED BY <1>2, <2>2, <2>3, <2>4, Zenon
  <1>a. Postgres!TypeOK'
    <2>1. Len(br') <= NetCap
      BY <1>3, <1>4, PostgresBounds, SMT
    <2>2. cols' \in Statements \cup {NoStatement}
      <3>1. cols \in Statements \cup {NoStatement}
        BY PostgresParts, Zenon DEF Postgres!TypeOK
      <3> QED BY <1>1, <1>5, <3>1, SMT DEF Postgres!Columns
    <2>3. row' \in [s : Statements \cup {NoStatement}, with : Statements \cup {NoStatement}]
      <3>1. /\ cols \in Statements \cup {NoStatement}
            /\ row \in [s : Statements \cup {NoStatement}, with : Statements \cup {NoStatement}]
        BY PostgresParts, Zenon DEF Postgres!TypeOK
      <3> QED BY <1>1, <1>5, <3>1, SMT
    <2> QED BY <1>1, <1>4, <1>8, <2>1, <2>2, <2>3, PostgresParts, Zenon DEF Postgres!TypeOK, M
  <1>b. Postgres!Numbered'
    <2>1. PICK j \in Nat : /\ j + Len(bw') = Len(bw) + 1 /\ Len(bw') \in Nat
                           /\ \A k \in Nat : Postgres!Nth(k)' = N(j + k)
                           /\ \A i \in 1..Len(bw') : bw'[i].n = N(j + i - 1)
      BY <1>8, Zenon
    <2>2. /\ Len(bw') \in Nat /\ Len(br') \in Nat
          /\ j + Len(bw') = Len(bw) + 1 /\ Len(br') + 1 = Len(br)
      BY <1>3, <1>4, <2>1, SMT
    <2>3. ASSUME NEW i \in 1..Len(bw') PROVE bw'[i].n = Postgres!Nth(i - 1)'
      <3>1. i - 1 \in Nat /\ j + (i - 1) = j + i - 1
        BY <2>2, SMT
      <3> QED BY <2>1, <3>1, Zenon
    <2>4. ASSUME NEW i \in 1..Len(br') PROVE br'[i].n = Postgres!Nth(Len(bw) + i - 1)'
      <3>1. /\ Len(bw') + i - 1 \in Nat /\ i \in 1..(Len(br) - 1) /\ i + 1 \in 1..Len(br)
            /\ j + (Len(bw') + i - 1) = Len(bw) + (i + 1) - 1
        <4>1. i \in Nat /\ i >= 1 /\ i <= Len(br')
          BY <2>2
        <4>2. Len(bw) \in Nat /\ Len(br) \in Nat
          BY <1>3, Zenon
        <4> QED BY <2>2, <4>1, <4>2, SMT
      <3>2. br'[i] = br[i + 1] /\ br[i + 1].n = N(Len(bw) + (i + 1) - 1)
        BY <1>4, <1>6, <3>1, Zenon
      <3> QED BY <2>1, <3>1, <3>2, Zenon DEF Postgres!Nth
    <2>5. ASSUME NEW i \in 1..Len(net) PROVE net'[i].n = Postgres!Nth(Len(bw) + Len(br) + i - 1)'
      <3>1. /\ Len(bw') + Len(br') + i - 1 \in Nat
            /\ j + (Len(bw') + Len(br') + i - 1) = Len(bw) + Len(br) + i - 1
        <4>1. Len(bw) \in Nat /\ Len(br) \in Nat /\ Len(net) \in Nat
          BY <1>3, Zenon
        <4>2. i \in Nat /\ i >= 1
          BY <4>1
        <4> QED BY <2>2, <4>1, <4>2, SMT
      <3> QED BY <1>1, <1>6, <2>1, <3>1, Zenon DEF Postgres!Nth
    <2>6. sent' = Postgres!Nth(Len(bw) + Len(br) + Len(net))'
      <3>1. /\ Len(bw') + Len(br') + Len(net) \in Nat
            /\ j + (Len(bw') + Len(br') + Len(net)) = Len(bw) + Len(br) + Len(net)
        BY <1>3, <2>2, SMTT(30)
      <3> QED BY <1>1, <1>6, <2>1, <3>1, Zenon DEF Postgres!Nth
    <2> QED BY <1>1, <2>3, <2>4, <2>5, <2>6, Zenon DEF Postgres!Numbered
  <1>c. ASSUME ~prepares
        PROVE  /\ Postgres!Chained(br) /\ Postgres!Chained(net)
               /\ m.t = "D" => cols = m.s
               /\ net # <<>> /\ net[1].t = "D" => Postgres!Leads(br[Len(br)], net[1].s)
               /\ srvUp /\ srv.at = "rows" =>
                    IF net = <<>> THEN Postgres!Leads(br[Len(br)], srv.s)
                    ELSE Postgres!Leads(net[Len(net)], srv.s)
    BY <1>1, <1>4, <1>c, PostgresParts, Zenon
    DEF Postgres!RowsFollow, Postgres!ReaderLeads, Postgres!NetLeads
  <1>d. Postgres!RowsFollow'
    <2> SUFFICES ASSUME ~prepares PROVE Postgres!RowsFollow'
      BY <1>1, Zenon DEF Postgres!RowsFollow
    <2>1. \A s : Postgres!Leads(m, s) => cols' = s
      BY <1>1, <1>c, SMT DEF Postgres!Leads, Postgres!Columns
    <2>2. Postgres!Chained(br')
      <3>1. \A i \in 1..(Len(br') - 1) : /\ i \in 1..(Len(br) - 1) /\ i + 1 \in 1..(Len(br) - 1)
        BY <1>3, <1>4, SMT
      <3> QED BY <1>4, <1>c, <3>1, Zenon DEF Postgres!Chained
    <2>3. br' # <<>> /\ br'[1].t = "D" => cols' = br'[1].s
      <3> SUFFICES ASSUME br' # <<>>, br'[1].t = "D" PROVE cols' = br'[1].s
        BY Zenon
      <3>1. 1 \in 1..(Len(br) - 1)
        BY <1>3, <1>4, SMT
      <3>2. br'[1] = br[1 + 1] /\ Postgres!Leads(br[1], br'[1].s)
        BY <1>4, <1>c, <3>1, Zenon DEF Postgres!Chained
      <3> QED BY <1>4, <2>1, <3>2, Zenon
    <2>4. \A s : Postgres!Leads(br[Len(br)], s) => Postgres!ReaderLeads(s)'
      <3> SUFFICES ASSUME NEW s, Postgres!Leads(br[Len(br)], s)
                   PROVE  IF br' = <<>> THEN cols' = s ELSE Postgres!Leads(br'[Len(br')], s)
        BY Zenon DEF Postgres!ReaderLeads
      <3>1. CASE br' = <<>>
        BY <1>4, <2>1, <3>1, Zenon
      <3>2. CASE br' # <<>>
        <4>1. Len(br') \in 1..(Len(br) - 1) /\ Len(br') + 1 = Len(br)
          BY <1>3, <1>4, <3>2, SMT
        <4>2. br'[Len(br')] = br[Len(br)]
          BY <1>4, <4>1, Zenon
        <4> QED BY <3>2, <4>2, Zenon
      <3> QED BY <3>1, <3>2, Zenon
    <2>5. net # <<>> /\ net[1].t = "D" => Postgres!ReaderLeads(net[1].s)'
      <3>1. net # <<>> /\ net[1].t = "D" => Postgres!Leads(br[Len(br)], net[1].s)
        BY <1>c, Zenon
      <3> QED BY <1>1, <2>4, <3>1, Zenon DEF Postgres!ReaderLeads
    <2>6. srvUp /\ srv.at = "rows" => Postgres!NetLeads(srv.s)'
      BY <1>1, <1>c, <2>4, Zenon DEF Postgres!NetLeads, Postgres!ReaderLeads
    <2> QED BY <1>1, <1>c, <2>2, <2>3, <2>5, <2>6, Zenon DEF Postgres!RowsFollow, Postgres!Chained
  <1>e. Postgres!OwnColumns'
    <2> SUFFICES ASSUME ~prepares PROVE row'.with = row'.s
      BY <1>1, Zenon DEF Postgres!OwnColumns
    <2>1. row.with = row.s
      BY PostgresParts, Zenon DEF Postgres!OwnColumns
    <2>2. CASE m.t = "D"
      BY <1>1, <1>c, <2>2, Zenon
    <2>3. CASE m.t # "D"
      BY <1>1, <2>1, <2>3, Zenon
    <2> QED BY <2>2, <2>3, Zenon
  <1>f. Postgres!Closing'
    BY <1>1, PostgresParts, Zenon DEF Postgres!Closing, Postgres!Closed
  <1> QED BY <1>a, <1>b, <1>d, <1>e, <1>f, Zenon DEF Postgres!IInv

\* A goroutine returns and leaves what is buffered and on the way as it is: that
\* is pipeBackendReader only for a message it cannot frame, or when it is not
\* the first, or when its client cannot be written to.
LEMMA PostgresReturn ==
  ASSUME Postgres!IInv, NEW g \in {"c2s", "s2c", "lost"}, Postgres!Returns(g),
         g = "s2c" => ended' /\ Postgres!Unframed, ended => ended',
         begun' \in BOOLEAN, ended' \in BOOLEAN, copying' \in BOOLEAN,
         UNCHANGED <<prepares, cli, described, srv, sent, net, br, part, cols, bw, got, row>>
  PROVE  Postgres!IInv'
  <1>1. /\ srvUp' = FALSE /\ first' = IF Postgres!Closed THEN first ELSE g
        /\ first \in {"none", "c2s", "s2c", "lost"}
    BY PostgresParts, Zenon DEF Postgres!Returns, Postgres!TypeOK
  <1>2. /\ first' \in {"none", "c2s", "s2c", "lost"} /\ first' # "none"
        /\ first' = "s2c" => first = "s2c" \/ g = "s2c"
    BY <1>1, Zenon DEF Postgres!Closed
  <1>3. Postgres!Closing'
    <2>1. br' = br /\ bw' = bw /\ net' = net
      BY Zenon
    <2> QED BY <1>1, <1>2, <2>1, PostgresParts, Zenon
            DEF Postgres!Closing, Postgres!Closed, Postgres!Unframed
  <1>4. srvUp' \in BOOLEAN /\ ~srvUp'
    BY <1>1, Zenon
  <1> QED BY <1>2, <1>3, <1>4, PostgresHold, Zenon

LEMMA PostgresFails ==
  ASSUME Postgres!IInv, Postgres!PipeFails \/ Postgres!CopyEnd
  PROVE  Postgres!IInv'
  <1>1. br # <<>> => Head(br) = br[1]
    <2>1. br \in Seq(Postgres!Message)
      BY PostgresParts, Zenon
    <2> QED BY <2>1, Taken, Zenon
  <1>2. begun \in BOOLEAN /\ ended \in BOOLEAN /\ copying \in BOOLEAN
    BY PostgresParts, Zenon DEF Postgres!TypeOK
  <1>3. CASE Postgres!PipeFails
    <2>1. /\ UNCHANGED <<prepares, cli, described, srv, sent, net, br, part, cols, bw, got, row>>
          /\ begun' = begun /\ ended' = TRUE /\ copying' = copying /\ br # <<>>
          /\ IF Head(br).t = "X" THEN Postgres!Returns("s2c") ELSE Postgres!Returns("lost")
      BY <1>3, Zenon DEF Postgres!PipeFails
    <2>2. begun' \in BOOLEAN /\ ended' \in BOOLEAN /\ copying' \in BOOLEAN
      BY <1>2, <2>1, Zenon
    <2>3. Head(br).t = "X" => Postgres!Unframed
      BY <1>1, <2>1, Zenon DEF Postgres!Unframed
    <2> QED BY <2>1, <2>2, <2>3, PostgresReturn, Zenon
  <1>4. CASE Postgres!CopyEnd
    <2>1. /\ UNCHANGED <<prepares, cli, described, srv, sent, net, br, part, cols, bw, got, row>>
          /\ begun' = begun /\ ended' = ended /\ copying' = FALSE /\ Postgres!Returns("c2s")
      BY <1>4, Zenon DEF Postgres!CopyEnd, Postgres!pipeVars
    <2>2. begun' \in BOOLEAN /\ ended' \in BOOLEAN /\ copying' \in BOOLEAN
      BY <1>2, <2>1, Zenon
    <2> QED BY <2>1, <2>2, PostgresReturn, Zenon
  <1> QED BY <1>3, <1>4, Zenon

LEMMA PostgresEnd ==
  ASSUME Postgres!IInv, Postgres!PipeEnd
  PROVE  Postgres!IInv'
  <1>e. ASSUME UNCHANGED <<bw, got, cli>>, Postgres!Returns("lost")
        PROVE  Postgres!IInv'
    <2>1. /\ UNCHANGED <<prepares, cli, described, srv, sent, net, br, part, cols, bw, got, row>>
          /\ begun' = begun /\ ended' = TRUE /\ copying' = copying
      BY <1>e, Zenon DEF Postgres!PipeEnd
    <2>2. begun' \in BOOLEAN /\ ended' \in BOOLEAN /\ copying' \in BOOLEAN
      BY <2>1, PostgresParts, Zenon DEF Postgres!TypeOK
    <2> QED BY <1>e, <2>1, <2>2, PostgresReturn, Zenon
  <1> SUFFICES ASSUME ~Postgres!Closed, bw' = <<>>, Postgres!Delivers(bw), Postgres!Returns("s2c")
               PROVE  Postgres!IInv'
    BY <1>e, Zenon DEF Postgres!PipeEnd
  <1>1. /\ net = <<>> /\ br = <<>> /\ ended' = TRUE /\ bw' = <<>>
        /\ Postgres!Delivers(bw)
        /\ prepares' = prepares /\ described' = described /\ srv' = srv
        /\ sent' = sent /\ net' = net /\ br' = br /\ part' = part /\ cols' = cols /\ row' = row
        /\ begun' = begun /\ copying' = copying /\ srvUp' = FALSE /\ first' = "s2c"
    BY Zenon DEF Postgres!PipeEnd, Postgres!Returns
  <1>2. /\ bw \in Seq(Postgres!Message) /\ Len(bw) \in Nat
        /\ sent = Postgres!Nth(Len(bw) + Len(br) + Len(net))
    BY PostgresParts, Zenon DEF Postgres!Numbered
  <1>3. /\ got' \in 0..(Modulus - 1) /\ cli' \in {"ready", "waiting"}
        /\ \A k \in Nat : Postgres!Nth(k)' = Postgres!Nth(Len(bw) + k)
    BY <1>1, <1>2, PostgresDelivers, Zenon
  <1>4. /\ Len(net) = 0 /\ Len(br) = 0 /\ Len(bw') = 0 /\ bw' \in Seq(Postgres!Message)
    BY <1>1
  <1>a. Postgres!TypeOK'
    <2>1. ended' \in BOOLEAN /\ srvUp' \in BOOLEAN /\ first' \in {"none", "c2s", "s2c", "lost"}
      BY <1>1, Zenon
    <2> QED BY <1>1, <1>3, <1>4, <2>1, PostgresParts, Zenon DEF Postgres!TypeOK
  <1>b. Postgres!Numbered'
    <2>1. /\ \A i \in 1..0 : FALSE
          /\ 0 + 0 + 0 = 0 /\ 0 \in Nat /\ Len(bw) + 0 = Len(bw) + 0 + 0
      BY <1>2, SMT
    <2>2. sent' = Postgres!Nth(0)'
      BY <1>1, <1>2, <1>3, <1>4, <2>1, Zenon
    <2> QED BY <1>1, <1>4, <2>1, <2>2, Zenon DEF Postgres!Numbered, Postgres!Nth
  <1>c. Postgres!RowsFollow'
    BY <1>1, PostgresParts, Zenon
    DEF Postgres!RowsFollow, Postgres!Chained, Postgres!ReaderLeads, Postgres!NetLeads
  <1>d. Postgres!OwnColumns' /\ Postgres!Closing'
    BY <1>1, PostgresParts, Zenon DEF Postgres!OwnColumns, Postgres!Closing, Postgres!Closed
  <1> QED BY <1>a, <1>b, <1>c, <1>d, Zenon DEF Postgres!IInv

LEMMA PostgresRequest ==
  ASSUME Postgres!IInv, NEW s \in Statements, Postgres!Request(s)
  PROVE  Postgres!IInv'
  <1>1. /\ cli' = "waiting" /\ prepares' = prepares /\ srvUp' = srvUp /\ sent' = sent
        /\ net' = net /\ br' = br /\ part' = part /\ cols' = cols /\ bw' = bw /\ got' = got
        /\ row' = row /\ ended' = ended /\ begun' = begun /\ copying' = copying /\ first' = first
        /\ ~prepares => srv'.at = "describe"
    BY SMTT(30) DEF Postgres!Request, Postgres!pipeVars, Postgres!proxyVars
  <1>2. /\ srv' \in Postgres!Response
        /\ described' \subseteq Statements
    <2>1. described \subseteq Statements
      BY PostgresParts, Zenon DEF Postgres!TypeOK
    <2>2. 0 \in 0..MaxRows /\ MaxRows \in 0..MaxRows
      BY PostgresBounds, SMT
    <2> QED BY <2>1, <2>2, SMT DEF Postgres!Request, Postgres!Response
  <1>a. Postgres!TypeOK'
    <2>1. cli' \in {"ready", "waiting"}
      BY <1>1, Zenon
    <2> QED BY <1>1, <1>2, <2>1, PostgresParts, Zenon DEF Postgres!TypeOK
  <1>b. Postgres!Numbered'
    BY <1>1, PostgresParts, Zenon DEF Postgres!Numbered, Postgres!Nth
  <1>c. Postgres!RowsFollow'
    <2>1. ~prepares => srv'.at # "rows"
      BY <1>1, Zenon
    <2> QED BY <1>1, <2>1, PostgresParts, Zenon
            DEF Postgres!RowsFollow, Postgres!Chained, Postgres!ReaderLeads
  <1>d. Postgres!OwnColumns' /\ Postgres!Closing'
    BY <1>1, PostgresParts, Zenon
    DEF Postgres!OwnColumns, Postgres!Closing, Postgres!Closed, Postgres!Unframed
  <1> QED BY <1>a, <1>b, <1>c, <1>d, ZenonT(30) DEF Postgres!IInv

LEMMA PostgresInitially ==
  ASSUME Postgres!Init
  PROVE  Postgres!IInv
  <1>1. /\ cli = "ready" /\ described = {} /\ srv = Postgres!Idle /\ srvUp = TRUE
        /\ sent = 0 /\ net = <<>> /\ br = <<>> /\ part = FALSE
        /\ cols = NoStatement /\ bw = <<>> /\ got = 0
        /\ row = [s |-> NoStatement, with |-> NoStatement] /\ ended = FALSE
        /\ prepares \in BOOLEAN /\ begun = FALSE /\ copying = TRUE /\ first = "none"
    BY Zenon DEF Postgres!Init
  <1>2. Len(net) = 0 /\ Len(br) = 0 /\ Len(bw) = 0 /\ 0 \in 0..(Modulus - 1)
    BY <1>1, PostgresBounds, SMT
  <1>3. Postgres!TypeOK
    <2>1. /\ net \in Seq(Postgres!Message) /\ br \in Seq(Postgres!Message)
          /\ bw \in Seq(Postgres!Message)
      BY <1>1
    <2>2. Len(net) <= NetCap /\ Len(br) <= NetCap /\ 0 \in 0..MaxRows
      BY <1>2, PostgresBounds, SMT
    <2>3. srv \in Postgres!Response
      BY <1>1, <2>2, Zenon DEF Postgres!Idle, Postgres!Response
    <2>4. /\ cli \in {"ready", "waiting"} /\ described \subseteq Statements
          /\ cols \in Statements \cup {NoStatement}
          /\ row \in [s : Statements \cup {NoStatement}, with : Statements \cup {NoStatement}]
      BY <1>1, Zenon
    <2>5. /\ srvUp \in BOOLEAN /\ part \in BOOLEAN /\ ended \in BOOLEAN /\ begun \in BOOLEAN
          /\ copying \in BOOLEAN /\ first \in {"none", "c2s", "s2c", "lost"}
      BY <1>1, Zenon
    <2> QED BY <1>1, <1>2, <2>1, <2>2, <2>3, <2>4, <2>5, Zenon DEF Postgres!TypeOK
  <1>4. Postgres!Numbered
    <2>1. (\A i \in 1..0 : FALSE) /\ 0 + (0 + 0 + 0) = 0
      OBVIOUS
    <2>2. 0 % Modulus = 0
      BY PostgresBounds, DivMod, Z3
    <2> QED BY <1>1, <1>2, <2>1, <2>2, Zenon DEF Postgres!Numbered, Postgres!Nth
  <1>5. Postgres!RowsFollow
    <2>1. srv.at # "rows" /\ (\A i \in 1..(0 - 1) : FALSE)
      BY <1>1, SMT DEF Postgres!Idle
    <2> QED BY <1>1, <1>2, <2>1, Zenon DEF Postgres!RowsFollow, Postgres!Chained
  <1>6. Postgres!OwnColumns /\ Postgres!Closing
    BY <1>1, Zenon DEF Postgres!OwnColumns, Postgres!Closing, Postgres!Closed
  <1> QED BY <1>1, <1>3, <1>4, <1>5, <1>6, Zenon DEF Postgres!IInv

\* Every step of the Postgres relay preserves its invariant.
LEMMA PostgresInductive ==
  ASSUME Postgres!IInv, Postgres!Next
  PROVE  Postgres!IInv'
  BY PostgresRequest, PostgresServer, PostgresGone, PostgresFill, PostgresPipe, PostgresFails,
     PostgresEnd, Zenon
  DEF Postgres!Next, Postgres!Relay

LEMMA PostgresStutters ==
  ASSUME Postgres!IInv, UNCHANGED Postgres!vars
  PROVE  Postgres!IInv'
  <1>1. /\ UNCHANGED <<prepares, cli, described, srv, sent, net, br, part, cols, bw, got, row>>
        /\ begun' = begun /\ srvUp' = srvUp /\ ended' = ended
        /\ copying' = copying /\ first' = first
    BY Zenon DEF Postgres!vars, Postgres!proxyVars
  <1>2. /\ begun \in BOOLEAN /\ srvUp \in BOOLEAN /\ ended \in BOOLEAN /\ copying \in BOOLEAN
        /\ first \in {"none", "c2s", "s2c", "lost"}
    BY PostgresParts, Zenon DEF Postgres!TypeOK
  <1>3. Postgres!Closing'
    BY <1>1, PostgresParts, Zenon DEF Postgres!Closing, Postgres!Closed, Postgres!Unframed
  <1> QED BY <1>1, <1>2, <1>3, PostgresHold, Zenon

\* What the invariant says of the messages that are due to the client.
LEMMA PostgresProperties ==
  ASSUME Postgres!IInv
  PROVE  Postgres!OwnColumns /\ Postgres!InOrder
  <1> DEFINE due == bw \o br \o net
             b == Len(bw)
             r == Len(br)
  <1>1. /\ Postgres!TypeOK /\ Postgres!OwnColumns
        /\ first = "s2c" => Postgres!Unframed \/ (bw = <<>> /\ br = <<>> /\ net = <<>>)
        /\ bw \in Seq(Postgres!Message) /\ br \in Seq(Postgres!Message)
        /\ net \in Seq(Postgres!Message) /\ b \in Nat /\ r \in Nat /\ Len(net) \in Nat
        /\ got \in Nat
    BY PostgresParts, Zenon DEF Postgres!Closing
  <1>2. /\ \A i \in 1..b : bw[i].n = (got + (i - 1)) % Modulus
        /\ \A i \in 1..r : br[i].n = (got + (b + i - 1)) % Modulus
        /\ \A i \in 1..Len(net) : net[i].n = (got + (b + r + i - 1)) % Modulus
        /\ sent = (got + (b + r + Len(net))) % Modulus
    BY PostgresParts, Zenon DEF Postgres!Numbered, Postgres!Nth
  <1>3. /\ (bw \o br) \in Seq(Postgres!Message) /\ Len(bw \o br) = b + r
        /\ \A i \in 1..(b + r) : (bw \o br)[i] = IF i <= b THEN bw[i] ELSE br[i - b]
    BY <1>1, Joined
  <1>4. /\ due \in Seq(Postgres!Message) /\ Len(due) = (b + r) + Len(net)
        /\ \A i \in 1..(b + r + Len(net)) :
             due[i] = IF i <= b + r THEN (bw \o br)[i] ELSE net[i - (b + r)]
    BY <1>1, <1>3, Joined
  <1>5. DOMAIN due = 1..(b + r + Len(net))
    BY <1>4
  <1> HIDE DEF due, b, r
  <1>6. ASSUME NEW i \in 1..(b + r + Len(net)) PROVE due[i].n = (got + i - 1) % Modulus
    <2>1. CASE i <= b
      <3>1. i <= b + r /\ i \in 1..b /\ i \in 1..(b + r) /\ got + (i - 1) = got + i - 1
        BY <1>1, <2>1, SMT
      <3> QED BY <1>2, <1>3, <1>4, <2>1, <3>1, Zenon
    <2>2. CASE i > b /\ i <= b + r
      <3>1. /\ ~(i <= b) /\ i - b \in 1..r /\ i \in 1..(b + r)
            /\ got + (b + (i - b) - 1) = got + i - 1
        BY <1>1, <2>2, SMT
      <3> QED BY <1>2, <1>3, <1>4, <2>2, <3>1, Zenon
    <2>3. CASE i > b + r
      <3>1. /\ ~(i <= b + r) /\ i - (b + r) \in 1..Len(net)
            /\ got + (b + r + (i - (b + r)) - 1) = got + i - 1
        BY <1>1, <2>3, SMT
      <3> QED BY <1>2, <1>4, <3>1, Zenon
    <2> QED BY <1>1, <2>1, <2>2, <2>3, SMT
  <1>7. first = "s2c" => due = <<>> \/ Postgres!Unframed
    BY <1>1 DEF due
  <1>8. sent = (got + Len(due)) % Modulus
    BY <1>2, <1>4, Zenon
  <1> QED BY <1>1, <1>5, <1>6, <1>7, <1>8, Zenon DEF Postgres!InOrder, due

-----------------------------------------------------------------------------
(* The session, whichever engine serves it *)

LEMMA SessionInitially ==
  ASSUME SQLInit
  PROVE  RelaysInv
  <1>1. CASE engine = "postgres" /\ Postgres!Init
    <2>1. engine # "mysql"
      BY <1>1, Zenon
    <2> QED BY <1>1, <2>1, PostgresInitially, Zenon DEF RelaysInv
  <1>2. CASE engine = "mysql" /\ Init
    <2>1. engine # "postgres"
      BY <1>2, Zenon
    <2> QED BY <1>2, <2>1, MySQLInitially, Zenon DEF RelaysInv
  <1> QED BY <1>1, <1>2, Zenon DEF SQLInit

\* A step of one engine leaves the session to that engine.
LEMMA SessionSteps ==
  ASSUME RelaysInv, [SQLNext]_sqlVars
  PROVE  RelaysInv'
  <1>1. CASE PostgresAlone /\ Postgres!Next
    <2>1. engine = "postgres" /\ engine' = engine
      BY <1>1, Zenon DEF PostgresAlone
    <2>2. engine' # "mysql"
      BY <2>1, Zenon
    <2> QED BY <1>1, <2>1, <2>2, PostgresInductive, Zenon DEF RelaysInv
  <1>2. CASE MySQLAlone /\ Next
    <2>1. engine = "mysql" /\ engine' = engine
      BY <1>2, Zenon DEF MySQLAlone
    <2>2. engine' # "postgres"
      BY <2>1, Zenon
    <2> QED BY <1>2, <2>1, <2>2, MySQLInductive, Zenon DEF RelaysInv
  <1>3. CASE UNCHANGED sqlVars
    <2>1. engine' = engine /\ UNCHANGED vars
      BY <1>3, Zenon DEF sqlVars
    <2>2. UNCHANGED Postgres!vars
      BY <1>3, Zenon DEF sqlVars, vars, srvVars, s2cVars, proxyVars, postgresOwn, Postgres!vars,
                        Postgres!proxyVars
    <2> QED BY <2>1, <2>2, PostgresStutters, MySQLStutters, ZenonT(30) DEF RelaysInv
  <1> QED BY <1>1, <1>2, <1>3, Zenon DEF SQLNext

\* The inductive invariant of whichever engine serves the session holds
\* throughout it: pipeBackendReader's buffers hold consecutive messages with
\* every row behind its description, and MySQL's serverToClient stands where
\* the packets in front of it say, for every number of statements, result
\* sets, columns, rows and packets in flight.
THEOREM SessionInvariant == SQLSpec => []RelaysInv
  <1>1. SQLInit => RelaysInv
    BY SessionInitially, Zenon
  <1>2. RelaysInv /\ [SQLNext]_sqlVars => RelaysInv'
    BY SessionSteps, Zenon
  <1> QED BY <1>1, <1>2, PTL DEF SQLSpec

\* Every row that goes to the masker goes with the columns of its own result,
\* and nothing but a row is rewritten: the columns pipeBackendReader kept from
\* the last RowDescription, and those serverToClient kept from the column
\* definitions, are never another statement's or another result set's.
THEOREM RowsGetOwnColumns == SQLSpec => []RowsOwnColumns
  <1>1. RelaysInv => RowsOwnColumns
    BY PostgresProperties, MySQLProperties, Zenon DEF RelaysInv, RowsOwnColumns
  <1> QED BY <1>1, SessionInvariant, PTL

\* Between commands the MySQL relay's two goroutines agree: the flag by which
\* clientToServer announces a query (state.queries) has been taken, and
\* serverToClient is back at the top of its loop with nothing unflushed.
THEOREM EnginesStayAligned == SQLSpec => []MySQLAligned
  <1>1. RelaysInv => MySQLAligned
    BY MySQLProperties, Zenon DEF RelaysInv, MySQLAligned
  <1> QED BY <1>1, SessionInvariant, PTL

\* Nothing a server sent is doubled or reordered, and nothing is lost or left in
\* a buffer when the server's end of the session is the first to go: then
\* pipeBackendReader and serverToClient have read all of it and flushed what
\* they wrote, also an ERR taken for a row and packets copied raw, before Proxy
\* closes the client.  Not so when the client's direction returns first, when
\* the client cannot be written to, or at a Postgres message of no length.
THEOREM LastWordsDeliveredFirst == SQLSpec => []LastWordsReachClient
  <1>1. RelaysInv => LastWordsReachClient
    BY PostgresProperties, MySQLProperties, Zenon DEF RelaysInv, LastWordsReachClient
  <1> QED BY <1>1, SessionInvariant, PTL
=============================================================================
