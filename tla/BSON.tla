-------------------------------- MODULE BSON --------------------------------
(***************************************************************************)
(* How the MongoDB engine masks one server message                          *)
(* (internal/wire/mongo: transformMessage and bson.go), and the reference   *)
(* it is checked against.                                                   *)
(*                                                                         *)
(* A BSON document is [len, es]: the length it declares and its elements    *)
(* [t, n, v].  A string's value is [len, s], a number's [int], and an       *)
(* element of type "bad" has a type byte valueLen does not know.  A name    *)
(* counts two bytes, a string Width[s].  A message is [len, op, sum, secs]: *)
(* its declared length, opcode, checksum flag and sections.                 *)
(***************************************************************************)
EXTENDS Naturals, Sequences, SequencesExt

CONSTANTS
  Ruled,       \* the field names the masker has a rule for
  Token,       \* what it puts in their place
  Width        \* the bytes of a string

BadBSON == [err |-> "malformed bson"]
Total(lens) == FoldSeq(LAMBDA a, b : a + b, 0, lens)

\* valueLen, and the bytes of an element with its type and name.
ValueLen(e) == CASE e.t = "int" -> 4
                 [] e.t = "str" -> 4 + e.v.len
                 [] OTHER -> e.v.len
DocLen(es) == 5 + Total([j \in DOMAIN es |-> 3 + ValueLen(es[j])])

\* rewriteDoc: every element's value goes through fn, and the document is put
\* together anew with its length; the first element that cannot be walked spoils
\* it.
Rebuilt(doc, es) ==
  IF \/ \E j \in DOMAIN es : es[j].t = "bad" \/ es[j].v = BadBSON
     \/ doc.len # DocLen(doc.es)
    THEN BadBSON ELSE [len |-> DocLen(es), es |-> es]
rewriteDoc(doc, fn(_)) ==
  Rebuilt(doc, [j \in DOMAIN doc.es |->
                  IF doc.es[j].t = "bad" THEN doc.es[j] ELSE [doc.es[j] EXCEPT !.v = fn(doc.es[j])]])

StaleMaskString(n, v) ==
  IF v.len < 1 \/ n \notin Ruled THEN v ELSE [v EXCEPT !.s = Token]

\* maskString: the overlay's rule for the field's name; a string without its
\* NUL is left alone.
maskString(n, v) ==
  IF v.len < 1 \/ n \notin Ruled THEN v ELSE [len |-> Width[Token] + 1, s |-> Token]

\* result: every string of a result document, through nested documents and
\* arrays; an array's strings are named by their index.
RECURSIVE result(_)
result(doc) ==
  rewriteDoc(doc, LAMBDA e : CASE e.t = "str" -> maskString(e.n, e.v)
                               [] e.t \in {"doc", "array"} -> result(e.v)
                               [] OTHER -> e.v)

\* batch, cursor and body: only cursor.firstBatch and cursor.nextBatch hold
\* result documents.
batch(arr) == rewriteDoc(arr, LAMBDA e : IF e.t = "doc" THEN result(e.v) ELSE e.v)
cursor(doc) ==
  rewriteDoc(doc, LAMBDA e : IF e.t = "array" /\ e.n \in {"firstBatch", "nextBatch"}
                               THEN batch(e.v) ELSE e.v)
body(doc) ==
  rewriteDoc(doc, LAMBDA e : IF e.t = "doc" /\ e.n = "cursor" THEN cursor(e.v) ELSE e.v)

SeqLen(docs) == 6 + Total([j \in DOMAIN docs |-> docs[j].len])

\* sequence: the documents of a kind 1 section are all results.
sequence(sec) ==
  LET docs == [j \in DOMAIN sec.docs |-> result(sec.docs[j])]
  IN IF (\E j \in DOMAIN docs : docs[j] = BadBSON) \/ sec.len # SeqLen(sec.docs)
       THEN BadBSON ELSE [sec EXCEPT !.docs = docs, !.len = SeqLen(docs)]

Section(sec) ==
  CASE sec.kind = 0 -> LET d == body(sec.doc)
                       IN IF d = BadBSON THEN BadBSON ELSE [sec EXCEPT !.doc = d]
    [] sec.kind = 1 -> sequence(sec)
    [] OTHER -> BadBSON

SectionLen(sec) == 1 + IF sec.kind = 0 THEN sec.doc.len ELSE sec.len
MessageLen(m) ==
  20 + Total([j \in DOMAIN m.secs |-> SectionLen(m.secs[j])]) + IF m.sum THEN 4 ELSE 0

\* transformMessage: an OP_MSG whose sections all parse is rebuilt without its
\* checksum if a section changed; anything else passes as it came.
transformMessage(m) ==
  LET secs == [j \in DOMAIN m.secs |-> Section(m.secs[j])]
      new == [m EXCEPT !.secs = secs, !.sum = FALSE]
  IN IF m.op # "msg" \/ (\E j \in DOMAIN secs : secs[j] = BadBSON) \/ secs = m.secs
       THEN m ELSE [new EXCEPT !.len = MessageLen(new)]

\* readMessage refuses a length that is below a header's or above 64 MiB.
Implausible(m) == m.len = 0
------------------------------------------------------------------------------
(* The reference: a message as the set of its fields. *)

\* The fields of a document or of a message, as <<path, type, value>>; a path
\* names the fields and their types from the section down.
RECURSIVE Fields(_, _)
Fields(doc, path) ==
  UNION {LET e == doc.es[j]
             p == path \o <<j, e.n, e.t>>
         IN IF e.t \in {"doc", "array"} THEN {<<p, e.t, 0>>} \union Fields(e.v, p)
                                        ELSE {<<p, e.t, e.v>>} : j \in DOMAIN doc.es}
SectionFields(j, sec) ==
  CASE sec.kind = 0 -> Fields(sec.doc, <<j, 0>>)
    [] sec.kind = 1 -> UNION {Fields(sec.docs[k], <<j, 1, k>>) : k \in DOMAIN sec.docs}
    [] OTHER -> {}
MessageFields(m) == UNION {SectionFields(j, m.secs[j]) : j \in DOMAIN m.secs}

\* A path inside a result: below a document of a batch, or in a sequence.
InResult(p) ==
  \/ p[2] = 1
  \/ /\ Len(p) >= 14
     /\ p[4] = "cursor" /\ p[5] = "doc"
     /\ p[7] \in {"firstBatch", "nextBatch"} /\ p[8] = "array"
     /\ p[11] = "doc"

\* Every declared length is the length of what it frames.
RECURSIVE Framed(_)
Framed(doc) ==
  /\ doc.len = DocLen(doc.es)
  /\ \A j \in DOMAIN doc.es :
       LET e == doc.es[j]
       IN CASE e.t \in {"doc", "array"} -> Framed(e.v)
            [] e.t = "str" -> e.v.len \in {0, Width[e.v.s] + 1}
            [] OTHER -> TRUE
FramedMessage(m) ==
  /\ m.len = MessageLen(m)
  /\ \A j \in DOMAIN m.secs :
       CASE m.secs[j].kind = 0 -> Framed(m.secs[j].doc)
         [] m.secs[j].kind = 1 -> /\ m.secs[j].len = SeqLen(m.secs[j].docs)
                                  /\ \A k \in DOMAIN m.secs[j].docs : Framed(m.secs[j].docs[k])
         [] OTHER -> FALSE

\* An OP_MSG a driver can read from end to end.
Sound(m) ==
  m.op = "msg" /\ FramedMessage(m) /\ \A f \in MessageFields(m) : f[2] # "bad"

\* What the fields of a message become: the ruled strings of results get the
\* token, nothing else changes.
Masked(f) ==
  LET n == f[1][Len(f[1]) - 1]
  IN IF f[2] = "str" /\ InResult(f[1]) /\ n \in Ruled /\ f[3].len > 0
       THEN <<f[1], f[2], [len |-> Width[Token] + 1, s |-> Token]>> ELSE f
==============================================================================
