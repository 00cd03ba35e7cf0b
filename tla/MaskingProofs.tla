---------------------------- MODULE MaskingProofs ----------------------------
(* Proofs about Masking, for any names, rules, rows and versions served. *)
EXTENDS Masking, SequenceTheorems, TLAPS

USE Zenon

(* What normalizeRules returns is a rule set again, and empty for no rules.    *)
LEMMA Normalized ==
  ASSUME NEW raw \in RuleSets, NEW r \in normalizeRules(raw)
  PROVE  r \in RuleSets /\ (DOMAIN raw = {} => DOMAIN r = {})
<1> DEFINE keys == {Key(k) : k \in DOMAIN raw} \ {Blank}
<1>1. r \in [keys -> Tokens]
  BY DEF normalizeRules
<1>2. PICK K \in SUBSET Names : raw \in [K -> Tokens]
  BY DEF RuleSets
<1>3. keys \subseteq Names
  BY <1>2, MaskingAssumption DEF Key
<1>4. DOMAIN raw = {} => keys = {}
  OBVIOUS
<1> QED
  BY <1>1, <1>3, <1>4 DEF RuleSets

(* The rules of every version the control plane serves are a rule set.         *)
LEMMA ServedRules ==
  ASSUME NEW v \in Nat, v # 0, v <= Len(Served)
  PROVE  Served[v] \in RuleSets
  BY MaskingAssumption, SMT

(* No rules are a rule set. *)
LEMMA NoRulesType == NoRules \in RuleSets
<1>1. NoRules \in [{} -> Tokens]
  BY DEF NoRules
<1> QED
  BY <1>1 DEF RuleSets

(* An agent starts with its static rules and no row. *)
LEMMA InvInit == Init => IInv
<1> SUFFICES ASSUME Init PROVE IInv
  OBVIOUS
<1>1. cfg.static \in RuleSets /\ rules \in normalizeRules(cfg.static)
  BY MaskingAssumption DEF Init
<1>2. rules \in RuleSets /\ (DOMAIN cfg.static = {} => DOMAIN rules = {})
  BY <1>1, Normalized
<1>3. /\ cols \in Seq([name : Names, text : BOOLEAN])
      /\ orig \in Seq(Values) /\ row \in Seq(Values \union {"redacted"} \union Tokens)
      /\ Len(row) = 0 /\ Len(orig) = 0
  BY EmptySeq DEF Init
<1>4. ver = 0 /\ plane = 1 /\ answer = 0 /\ i = 1 /\ stage = "idle" /\ cancelled = FALSE
      /\ snap = NoRules /\ seen = {rules} /\ sync \in {"seed", "off"}
      /\ (cfg.url # "set" => sync = "off")
  BY DEF Init
<1>5. /\ plane \in Nat /\ ver \in Nat /\ answer \in Nat /\ i \in Nat /\ ver <= plane
      /\ answer <= plane /\ i \in 1..Len(row) + 1
  BY <1>3, <1>4, SMT
<1>6. plane <= Len(Served)
  BY <1>4, MaskingAssumption, SMT
<1>7. TypeOK
  BY <1>2, <1>3, <1>4, <1>5, NoRulesType DEF Init, TypeOK
<1>8. RulesAreServed
  BY <1>1, <1>4, <1>5, <1>7 DEF RulesAreServed, RawRules
<1>9. RulesInv
  BY <1>2, <1>4, <1>5, <1>6, <1>8 DEF RulesInv, Overlaid
<1>10. RowInv
  BY <1>3, <1>4, <1>5 DEF RowInv, RowUnderOneRuleSet
<1> QED
  BY <1>9, <1>10 DEF IInv

(* What is done to the rules while a row is masked takes nothing from it: the  *)
(* sets that were active stay witnesses.                                       *)
LEMMA RowStays ==
  ASSUME RowInv, UNCHANGED <<cfg, session>>, seen \subseteq seen'
  PROVE  RowInv'
<1>1. /\ stage' = stage /\ cols' = cols /\ orig' = orig /\ row' = row /\ i' = i /\ snap' = snap
      /\ cfg' = cfg
  BY DEF session
<1>2. /\ \A j : RemoteOnly(j)' <=> RemoteOnly(j)
      /\ \A j : Maskable(j)' <=> Maskable(j)
      /\ \A r, j : MaskedUnder(r, j)' <=> MaskedUnder(r, j)
  BY <1>1 DEF RemoteOnly, Maskable, MaskedUnder
<1>3. RowUnderOneRuleSet'
  BY <1>1, <1>2 DEF RowInv, RowUnderOneRuleSet
<1> QED
  BY <1>1, <1>2, <1>3 DEF RowInv

(* A step of the poller or the control plane that leaves the rules alone.      *)
LEMMA PollerStep ==
  ASSUME IInv, UNCHANGED <<cfg, rules, ver, session, seen>>,
         plane' \in Nat, answer' \in Nat, plane <= plane', plane' <= Len(Served),
         answer' <= plane', sync' \in {"seed", "idle", "fetch", "off"},
         ~Overlaid => sync' = "off", cancelled' \in BOOLEAN
  PROVE  IInv'
<1>1. RowInv'
  BY RowStays DEF IInv
<1>2. TypeOK'
  BY DEF IInv, RulesInv, RulesAreServed, TypeOK, session
<1>3. ver' <= plane'
  <2>1. ver \in Nat /\ plane \in Nat /\ ver <= plane
    BY DEF IInv, RulesInv, RulesAreServed, TypeOK
  <2> QED
    BY <2>1, SMT
<1>4. rules' \in normalizeRules(RawRules(ver)')
  BY DEF IInv, RulesInv, RulesAreServed, RawRules
<1>5. Overlaid' <=> Overlaid
  BY DEF Overlaid
<1>6. RulesInv'
  BY <1>2, <1>3, <1>4, <1>5 DEF IInv, RulesInv, RulesAreServed, normalizeRules
<1> QED
  BY <1>1, <1>6 DEF IInv

(* The poller, the control plane and the end of ctx. *)
LEMMA InvPoller ==
  ASSUME IInv, PlaneChanges \/ Cancel \/ Poller
  PROVE  IInv'
<1>1. /\ plane \in Nat /\ answer \in Nat /\ Len(Served) \in Nat /\ ver \in Nat
      /\ plane <= Len(Served) /\ answer <= plane /\ ver <= plane
      /\ sync \in {"seed", "idle", "fetch", "off"} /\ cancelled \in BOOLEAN
      /\ (~Overlaid => sync = "off")
  BY MaskingAssumption, LenProperties DEF IInv, RulesInv, RulesAreServed, TypeOK
<1>2. plane <= plane /\ 0 \in Nat /\ 0 <= plane
  BY <1>1, SMT
<1>3. CASE PlaneChanges
  <2>1. /\ plane < Len(Served) /\ plane' = plane + 1
        /\ UNCHANGED <<cfg, rules, ver, sync, answer, cancelled, session, seen>>
    BY <1>3 DEF PlaneChanges
  <2>2. plane' \in Nat /\ plane <= plane' /\ plane' <= Len(Served) /\ answer <= plane'
    BY <1>1, <2>1, SMT
  <2> QED
    BY <1>1, <2>1, <2>2, PollerStep
<1>4. CASE Cancel
  BY <1>1, <1>2, <1>4, PollerStep DEF Cancel, source
<1>5. CASE Tick
  BY <1>1, <1>2, <1>5, PollerStep DEF Tick
<1>6. CASE PlaneAnswers
  BY <1>1, <1>2, <1>6, PollerStep DEF PlaneAnswers
<1>7. CASE RefreshFails
  BY <1>1, <1>2, <1>7, PollerStep DEF RefreshFails, AfterRefresh
<1>8. CASE PollerStops
  BY <1>1, <1>2, <1>8, PollerStep DEF PollerStops
<1>9. CASE Refreshed
  <2>1. /\ sync \in {"seed", "fetch"} /\ answer # 0 /\ rules' \in normalizeRules(Served[answer])
        /\ ver' = answer /\ answer' = 0 /\ sync' \in {"off", "idle"}
        /\ seen' = seen \union {rules'} /\ UNCHANGED <<cfg, plane, cancelled, session>>
    BY <1>9 DEF Refreshed, AfterRefresh
  <2>2. answer <= Len(Served)
    BY <1>1, SMT
  <2>3. Served[answer] \in RuleSets
    BY <1>1, <2>1, <2>2, ServedRules
  <2>4. rules' \in RuleSets
    BY <2>1, <2>3, Normalized
  <2>5. TypeOK'
    BY <1>2, <2>1, <2>4 DEF IInv, RulesInv, RulesAreServed, TypeOK, session
  <2>6. RawRules(ver)' = Served[answer]
    BY <2>1 DEF RawRules
  <2>7. rules' \in normalizeRules(RawRules(ver))'
    BY <2>1, <2>6 DEF normalizeRules
  <2>8. Overlaid /\ Overlaid'
    BY <1>1, <2>1 DEF Overlaid
  <2>9. RulesInv'
    BY <1>1, <1>2, <2>1, <2>5, <2>7, <2>8 DEF RulesInv, RulesAreServed
  <2>10. RowInv'
    BY <2>1, RowStays DEF IInv
  <2> QED
    BY <2>9, <2>10 DEF IInv
<1> QED
  BY <1>3, <1>4, <1>5, <1>6, <1>7, <1>8, <1>9 DEF Poller

(* A step of the session leaves the rules as they are, and the active ones     *)
(* stay among those seen.                                                      *)
LEMMA RulesStay ==
  ASSUME RulesInv, UNCHANGED <<source, cancelled>>, seen' \in {seen, {rules}},
         stage' \in {"idle", "remote", "anonymize", "load", "overlay", "done"},
         cols' \in Seq([name : Names, text : BOOLEAN]), orig' \in Seq(Values),
         row' \in Seq(Values \union {"redacted"} \union Tokens), i' \in Nat,
         snap' \in RuleSets
  PROVE  RulesInv'
<1>1. /\ UNCHANGED <<cfg, rules, ver, plane, sync, answer, cancelled>>
      /\ seen' \subseteq RuleSets /\ rules' \in seen'
  BY DEF source, RulesInv, RulesAreServed, TypeOK
<1>2. TypeOK'
  BY <1>1 DEF RulesInv, RulesAreServed, TypeOK
<1>3. rules' \in normalizeRules(RawRules(ver))'
  BY <1>1 DEF RulesInv, RulesAreServed, RawRules, normalizeRules
<1>4. Overlaid' <=> Overlaid
  BY <1>1 DEF Overlaid
<1> QED
  BY <1>1, <1>2, <1>3, <1>4 DEF RulesInv, RulesAreServed

(* With no rules, what the remote masker left is the masked row. *)
LEMMA Unruled ==
  ASSUME NEW r, DOMAIN r = {}, NEW j, RemoteOnly(j)
  PROVE  MaskedUnder(r, j)
  BY DEF RemoteOnly, MaskedUnder

(* A row is handed over, or taken: nothing is masked yet. *)
LEMMA InvHand ==
  ASSUME IInv, HandRow \/ TakeRow
  PROVE  IInv'
<1>1. /\ ~Overlaid => DOMAIN rules = {}
      /\ snap \in RuleSets /\ cfg.remote \in BOOLEAN
  BY DEF IInv, RulesInv, RulesAreServed, TypeOK
<1>2. CASE HandRow
  <2>1. PICK q \in Results : cols' = q.cols /\ orig' = q.row /\ row' = q.row
    BY <1>2 DEF HandRow
  <2>2. /\ i' = 1 /\ seen' = {rules} /\ UNCHANGED <<source, cancelled, snap>>
        /\ stage' = IF cfg.remote THEN "remote" ELSE AfterRemote
    BY <1>2 DEF HandRow
  <2>3. /\ cols' \in Seq([name : Names, text : BOOLEAN]) /\ orig' \in Seq(Values)
        /\ row' \in Seq(Values)
    BY <2>1, MaskingAssumption
  <2>4. row' \in Seq(Values \union {"redacted"} \union Tokens)
    BY <2>3, SMT
  <2>5. i' \in Nat /\ i' \in 1..Len(row') + 1
    BY <2>2, <2>3, SMT
  <2>6. RulesInv'
    BY <1>1, <2>2, <2>3, <2>4, <2>5, RulesStay DEF IInv, AfterRemote
  <2>7. \A j : RemoteOnly(j)'
    BY <2>1 DEF RemoteOnly
  <2>8. RowUnderOneRuleSet'
    <3>1. SUFFICES ASSUME stage' = "done" PROVE RowUnderOneRuleSet'
      BY DEF RowUnderOneRuleSet
    <3>2. DOMAIN rules = {} /\ rules' = rules
      BY <1>1, <2>2, <3>1 DEF AfterRemote, source
    <3>3. \A j : MaskedUnder(rules, j)'
      BY <2>7, <3>2, Unruled DEF RemoteOnly, MaskedUnder
    <3> QED
      BY <2>1, <2>2, <3>2, <3>3 DEF RowUnderOneRuleSet
  <2>9. stage' \in {"remote", "load", "done"} /\ (stage' = "remote" => cfg'.remote)
    BY <1>1, <2>2 DEF AfterRemote, source
  <2>10. RowInv'
    BY <2>1, <2>2, <2>5, <2>7, <2>8, <2>9 DEF RowInv
  <2> QED
    BY <2>6, <2>10 DEF IInv
<1>3. CASE TakeRow
  <2>1. /\ stage' = "idle" /\ cols' = <<>> /\ orig' = <<>> /\ row' = <<>> /\ i' = 1
        /\ snap' = NoRules /\ seen' = {rules} /\ UNCHANGED <<source, cancelled>>
    BY <1>3 DEF TakeRow
  <2>2. /\ cols' \in Seq([name : Names, text : BOOLEAN]) /\ orig' \in Seq(Values)
        /\ row' \in Seq(Values \union {"redacted"} \union Tokens)
        /\ Len(row') = 0 /\ Len(orig') = 0
    BY <2>1, EmptySeq
  <2>3. i' \in Nat /\ i' \in 1..Len(row') + 1
    BY <2>1, <2>2, SMT
  <2>4. RulesInv'
    BY <2>1, <2>2, <2>3, NoRulesType, RulesStay DEF IInv
  <2>5. RowInv'
    BY <2>1, <2>2, <2>3 DEF RowInv, RowUnderOneRuleSet
  <2> QED
    BY <2>4, <2>5 DEF IInv
<1> QED
  BY <1>2, <1>3

(* The remote masker's loop, whose service may fail at either call, and the    *)
(* chain's way on from it.                                                     *)
LEMMA InvRemote ==
  ASSUME IInv, RemoteKeep \/ Analyzed \/ Anonymized \/ RemoteEnds
  PROVE  IInv'
<1>1. /\ ~Overlaid => DOMAIN rules = {}
      /\ snap \in RuleSets /\ i \in Nat /\ rules \in seen
      /\ cols \in Seq([name : Names, text : BOOLEAN]) /\ orig \in Seq(Values)
      /\ row \in Seq(Values \union {"redacted"} \union Tokens) /\ Len(row) \in Nat
  BY LenProperties DEF IInv, RulesInv, RulesAreServed, TypeOK
<1>2. /\ stage \in {"remote", "anonymize"} /\ cfg.remote
      /\ Len(row) = Len(orig) /\ i \in 1..Len(row) + 1
      /\ \A j \in 1..Len(row) : RemoteOnly(j)
  BY DEF IInv, RowInv, RemoteKeep, Analyzed, Anonymized, RemoteEnds
<1>3. UNCHANGED <<source, cancelled, cols, orig, snap, seen>>
  BY DEF RemoteKeep, Analyzed, Anonymized, RemoteEnds
<1>4. cfg' = cfg /\ rules' = rules
  BY <1>3 DEF source
<1>5. CASE RemoteKeep
  <2>1. stage' = "remote" /\ i <= Len(row) /\ i' = i + 1 /\ row' = row
    BY <1>5 DEF RemoteKeep
  <2>2. i' \in Nat /\ i' \in 1..Len(row) + 1
    BY <1>1, <1>2, <2>1, SMT
  <2>3. RulesInv'
    BY <1>1, <1>3, <2>1, <2>2, RulesStay DEF IInv
  <2>4. \A j \in 1..Len(row) : RemoteOnly(j)'
    BY <1>2, <1>3, <1>4, <2>1 DEF RemoteOnly
  <2>5. RowInv'
    BY <1>2, <1>3, <1>4, <2>1, <2>2, <2>4 DEF RowInv, RowUnderOneRuleSet
  <2> QED
    BY <2>3, <2>5 DEF IInv
<1>6. CASE Analyzed
  <2>1. /\ stage' = "anonymize" /\ i <= Len(row) /\ i' = i /\ row' = row
        /\ Maskable(i) /\ row[i] = "long"
    BY <1>6 DEF Analyzed
  <2>2. RulesInv'
    BY <1>1, <1>3, <2>1, RulesStay DEF IInv
  <2>3. /\ \A j \in 1..Len(row) : RemoteOnly(j)'
        /\ Maskable(i)'
    BY <1>2, <1>3, <1>4, <2>1 DEF RemoteOnly, Maskable
  <2>4. RowInv'
    BY <1>2, <1>3, <1>4, <2>1, <2>3 DEF RowInv, RowUnderOneRuleSet
  <2> QED
    BY <2>2, <2>4 DEF IInv
<1>7. CASE Anonymized
  <2>1. /\ stage' = "remote" /\ i' = i + 1
        /\ row' = [row EXCEPT ![i] = "redacted"] \/ row' = row
    BY <1>7 DEF Anonymized
  <2>2. i <= Len(row) /\ Maskable(i) /\ row[i] = "long"
    BY <1>7 DEF Anonymized, IInv, RowInv
  <2>3. i \in 1..Len(row) /\ i' \in Nat /\ i' \in 1..Len(row) + 1
    BY <1>1, <1>2, <2>1, <2>2, SMT
  <2>4. /\ row' \in Seq(Values \union {"redacted"} \union Tokens) /\ Len(row') = Len(row)
        /\ \A j \in 1..Len(row) : row'[j] = row[j] \/ (j = i /\ row'[j] = "redacted")
    <3>1. CASE row' = row
      BY <1>1, <3>1
    <3>2. CASE row' = [row EXCEPT ![i] = "redacted"]
      <4> DEFINE S == Values \union {"redacted"} \union Tokens
      <4>1. row \in Seq(S) /\ "redacted" \in S
        BY <1>1
      <4> HIDE DEF S
      <4>2. /\ row' \in Seq(S) /\ Len(row') = Len(row)
            /\ \A j \in 1..Len(row) : row'[j] = IF j = i THEN "redacted" ELSE row[j]
        BY <2>3, <3>2, <4>1, ExceptSeq, SMT
      <4> QED
        BY <4>2 DEF S
    <3> QED
      BY <2>1, <3>1, <3>2
  <2>5. orig[i] = "long" /\ i <= Len(cols) /\ cols[i].text
    BY <1>2, <2>2, <2>3 DEF RemoteOnly, Maskable
  <2>6. \A j \in 1..Len(row) : RemoteOnly(j)'
    BY <1>2, <1>3, <1>4, <2>4, <2>5 DEF RemoteOnly
  <2>7. RulesInv'
    BY <1>1, <1>3, <2>1, <2>3, <2>4, RulesStay DEF IInv
  <2>8. RowInv'
    BY <1>2, <1>3, <1>4, <2>1, <2>3, <2>4, <2>6 DEF RowInv, RowUnderOneRuleSet
  <2> QED
    BY <2>7, <2>8 DEF IInv
<1>8. CASE RemoteEnds
  <2>1. stage' = AfterRemote /\ i' = 1 /\ row' = row
    BY <1>8 DEF RemoteEnds
  <2>2. i' \in Nat /\ i' \in 1..Len(row) + 1
    BY <1>1, <2>1, SMT
  <2>3. RulesInv'
    BY <1>1, <1>3, <2>1, <2>2, RulesStay DEF IInv, AfterRemote
  <2>4. \A j \in 1..Len(row) : RemoteOnly(j)'
    BY <1>2, <1>3, <1>4, <2>1 DEF RemoteOnly
  <2>5. RowUnderOneRuleSet'
    <3>1. SUFFICES ASSUME stage' = "done" PROVE RowUnderOneRuleSet'
      BY DEF RowUnderOneRuleSet
    <3>2. DOMAIN rules = {}
      BY <1>1, <2>1, <3>1 DEF AfterRemote
    <3>3. \A j \in 1..Len(row) : MaskedUnder(rules, j)
      BY <1>2, <3>2, Unruled
    <3>4. \A j \in 1..Len(row) : MaskedUnder(rules, j)'
      BY <3>3, <1>3, <1>4, <2>1 DEF MaskedUnder
    <3> QED
      BY <1>1, <1>2, <1>3, <1>4, <2>1, <3>4 DEF RowUnderOneRuleSet
  <2>6. RowInv'
    BY <1>2, <1>3, <1>4, <2>1, <2>2, <2>4, <2>5 DEF RowInv, AfterRemote
  <2> QED
    BY <2>3, <2>6 DEF IInv
<1> QED
  BY <1>5, <1>6, <1>7, <1>8

(* The overlay loads its rules once, and masks every column under them however *)
(* often they are replaced meanwhile.                                          *)
LEMMA InvOverlay ==
  ASSUME IInv, LoadRules \/ OverlayColumn
  PROVE  IInv'
<1> DEFINE S == Values \union {"redacted"} \union Tokens
<1>1. /\ snap \in RuleSets /\ i \in Nat /\ rules \in seen /\ rules \in RuleSets
      /\ cols \in Seq([name : Names, text : BOOLEAN]) /\ orig \in Seq(Values)
      /\ row \in Seq(S) /\ Len(row) \in Nat
  BY LenProperties DEF IInv, RulesInv, RulesAreServed, TypeOK
<1>2. Len(row) = Len(orig) /\ i \in 1..Len(row) + 1
  BY DEF IInv, RowInv
<1>3. UNCHANGED <<source, cancelled, cols, orig, seen>>
  BY DEF LoadRules, OverlayColumn
<1>4. cfg' = cfg /\ rules' = rules
  BY <1>3 DEF source
<1>5. CASE LoadRules
  <2>1. /\ stage = "load" /\ snap' = rules /\ i' = i /\ row' = row
        /\ stage' = IF DOMAIN rules = {} THEN "done" ELSE "overlay"
    BY <1>5 DEF LoadRules
  <2>2. i = 1 /\ \A j \in 1..Len(row) : RemoteOnly(j)
    BY <2>1 DEF IInv, RowInv
  <2>3. \A j \in 1..Len(row) : ~(j < i)
    BY <1>1, <2>2, SMT
  <2>4. \A j \in 1..Len(row) : RemoteOnly(j)'
    BY <1>3, <1>4, <2>1, <2>2 DEF RemoteOnly
  <2>5. RowUnderOneRuleSet'
    <3>1. SUFFICES ASSUME stage' = "done" PROVE RowUnderOneRuleSet'
      BY DEF RowUnderOneRuleSet
    <3>2. \A j \in 1..Len(row) : MaskedUnder(rules, j)
      BY <2>1, <2>2, <3>1, Unruled
    <3>3. \A j \in 1..Len(row) : MaskedUnder(rules, j)'
      BY <3>2, <1>3, <1>4, <2>1 DEF MaskedUnder
    <3> QED
      BY <1>1, <1>2, <1>3, <1>4, <2>1, <3>3 DEF RowUnderOneRuleSet
  <2>6. RulesInv'
    BY <1>1, <1>3, <2>1, RulesStay DEF IInv
  <2>7. RowInv'
    BY <1>1, <1>2, <1>3, <2>1, <2>3, <2>4, <2>5 DEF RowInv
  <2> QED
    BY <2>6, <2>7 DEF IInv
<1>6. CASE OverlayColumn /\ i > Len(row)
  <2>1. stage = "overlay" /\ stage' = "done" /\ row' = row /\ i' = i /\ snap' = snap
    BY <1>6 DEF OverlayColumn
  <2>2. \A j \in 1..Len(row) : j < i
    BY <1>1, <1>6, SMT
  <2>3. snap \in seen /\ \A j \in 1..Len(row) : MaskedUnder(snap, j)
    BY <2>1, <2>2 DEF IInv, RowInv
  <2>4. \A j \in 1..Len(row) : MaskedUnder(snap, j)'
    BY <1>3, <1>4, <2>1, <2>3 DEF MaskedUnder
  <2>5. RowUnderOneRuleSet'
    BY <1>2, <1>3, <2>1, <2>3, <2>4 DEF RowUnderOneRuleSet
  <2>6. RulesInv'
    BY <1>1, <1>3, <2>1, RulesStay DEF IInv
  <2>7. RowInv'
    BY <1>2, <1>3, <2>1, <2>5 DEF RowInv
  <2> QED
    BY <2>6, <2>7 DEF IInv
<1>7. CASE OverlayColumn /\ ~(i > Len(row))
  <2>1. /\ stage = "overlay" /\ stage' = "overlay" /\ snap' = snap /\ i' = i + 1
        /\ row' = [row EXCEPT ![i] = OverlayValue(snap)]
    BY <1>7 DEF OverlayColumn
  <2>2. /\ i \in 1..Len(row) /\ ~(i < i) /\ i < i + 1
        /\ i' \in Nat /\ i' \in 1..Len(row) + 1
        /\ \A j \in 1..Len(row) : j < i + 1 <=> (j < i \/ j = i)
    BY <1>1, <1>2, <1>7, <2>1, SMT
  <2>3. /\ snap \in seen
        /\ \A j \in 1..Len(row) : IF j < i THEN MaskedUnder(snap, j) ELSE RemoteOnly(j)
    BY <2>1 DEF IInv, RowInv
  <2>4. OverlayValue(snap) \in S
    <3>1. PICK K \in SUBSET Names : snap \in [K -> Tokens]
      BY <1>1 DEF RuleSets
    <3>2. row[i] \in S
      BY <1>1, <2>2, ElementOfSeq
    <3> QED
      BY <3>1, <3>2 DEF OverlayValue
  <2>5. /\ row' \in Seq(S) /\ Len(row') = Len(row)
        /\ \A j \in 1..Len(row) : row'[j] = IF j = i THEN OverlayValue(snap) ELSE row[j]
    <3> HIDE DEF S
    <3> QED
      BY <1>1, <2>1, <2>2, <2>4, ExceptSeq, SMT
  <2>6. \A j \in 1..Len(row) : j # i => /\ RemoteOnly(j)' <=> RemoteOnly(j)
                                        /\ MaskedUnder(snap, j)' <=> MaskedUnder(snap, j)
    BY <1>3, <1>4, <2>1, <2>5 DEF RemoteOnly, MaskedUnder
  <2>7. ASSUME NEW j \in 1..Len(row), j = i PROVE MaskedUnder(snap, j)'
    <3>1. RemoteOnly(j)
      BY <2>2, <2>3, <2>7
    <3>2. row[j] = "nil" <=> orig[j] = "nil"
      BY <3>1 DEF RemoteOnly
    <3>3. row'[j] = OverlayValue(snap)
      BY <2>5, <2>7
    <3>4. CASE Maskable(j) /\ ToLower[cols[j].name] \in DOMAIN snap
      <4>1. row'[j] = snap[ToLower[cols[j].name]]
        BY <2>7, <3>3, <3>4 DEF OverlayValue
      <4> QED
        BY <3>2, <3>4, <4>1, <1>3, <2>1 DEF Maskable, MaskedUnder
    <3>5. CASE ~(Maskable(j) /\ ToLower[cols[j].name] \in DOMAIN snap)
      <4>1. row'[j] = row[j]
        BY <2>7, <3>3, <3>5 DEF OverlayValue
      <4> QED
        BY <3>1, <3>2, <3>5, <4>1, <1>3, <1>4, <2>1 DEF Maskable, MaskedUnder, RemoteOnly
    <3> QED
      BY <3>4, <3>5
  <2>8. \A j \in 1..Len(row) : IF j < i' THEN MaskedUnder(snap, j)' ELSE RemoteOnly(j)'
    BY <2>1, <2>2, <2>3, <2>6, <2>7
  <2>9. RulesInv'
    BY <1>1, <1>3, <2>1, <2>2, <2>5, RulesStay DEF IInv
  <2>10. RowInv'
    BY <1>2, <1>3, <2>1, <2>2, <2>3, <2>5, <2>8 DEF RowInv, RowUnderOneRuleSet
  <2> QED
    BY <2>9, <2>10 DEF IInv
<1> QED
  BY <1>5, <1>6, <1>7

(* IInv is inductive: the steps of the poller, the session and their peers, in *)
(* any order, keep it.                                                         *)
LEMMA InvNext == IInv /\ [Next]_vars => IInv'
<1> SUFFICES ASSUME IInv, [Next]_vars PROVE IInv'
  OBVIOUS
<1>1. CASE PlaneChanges \/ Cancel \/ Poller
  BY <1>1, InvPoller
<1>2. CASE MaskRow
  BY <1>2, InvHand, InvRemote, InvOverlay DEF MaskRow
<1>3. CASE UNCHANGED vars
  <2>1. UNCHANGED <<cfg, session, source, cancelled, seen>> /\ seen \subseteq seen'
    BY <1>3 DEF vars, source
  <2>2. RowInv'
    BY <2>1, RowStays DEF IInv
  <2>3. RulesInv'
    BY <2>1, RulesStay DEF IInv, RulesInv, RulesAreServed, TypeOK, session
  <2> QED
    BY <2>2, <2>3 DEF IInv
<1> QED
  BY <1>1, <1>2, <1>3 DEF Next

(* The overlay's rules always come whole from the agent's configuration or     *)
(* from a version the control plane served.                                    *)
THEOREM RulesAlwaysServed == Spec => []RulesAreServed
<1>1. IInv => RulesAreServed
  BY DEF IInv, RulesInv
<1> QED
  BY <1>1, InvInit, InvNext, PTL DEF Spec

(* Every masked row obeys one rule set, of those active while it was masked,   *)
(* however the poller's replacements fall between its columns.                 *)
THEOREM RowsUnderOneRuleSet == Spec => []RowUnderOneRuleSet
<1>1. IInv => RowUnderOneRuleSet
  BY DEF IInv, RowInv
<1> QED
  BY <1>1, InvInit, InvNext, PTL DEF Spec
==============================================================================
