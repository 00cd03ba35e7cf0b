------------------------------- MODULE Masking -------------------------------
(***************************************************************************)
(* The masking chain of an agent (internal/mask) and the poller that swaps  *)
(* the overlay's rules under it (internal/agent/overlay_source.go).         *)
(*                                                                         *)
(* One session masks rows, one column at a time: the remote service first,  *)
(* two calls per value, then the overlay.  Meanwhile the poller fetches the *)
(* control plane's rules and replaces the overlay's.  A value is abstract:  *)
(* "nil", "short" (below minLen), "long", "redacted" by the remote service, *)
(* or a token of an overlay rule.                                           *)
(***************************************************************************)
EXTENDS Naturals, Sequences

CONSTANTS
  Names,       \* column names and rule keys, as they are written
  Blank,       \* the key that is empty once trimmed
  ToLower,     \* strings.ToLower, a function on Names
  TrimSpace,   \* strings.TrimSpace, a function on Names
  Tokens,      \* the overlay's replacement tokens
  Static,      \* the static rule sets an agent may be configured with
  Served,      \* the control plane's rule sets, one per version
  Results      \* the columns and rows the relays hand over, [cols, row]

Values == {"nil", "short", "long"}

RuleSets == UNION {[K -> Tokens] : K \in SUBSET Names}

ASSUME MaskingAssumption ==
  /\ Blank \in Names
  /\ ToLower \in [Names -> Names] /\ TrimSpace \in [Names -> Names]
  /\ Tokens \cap (Values \union {"redacted"}) = {}
  /\ Served \in Seq(RuleSets) /\ Served # <<>> /\ Static \subseteq RuleSets
  /\ \A r \in Results : /\ r.cols \in Seq([name : Names, text : BOOLEAN])
                        /\ r.row \in Seq(Values)

VARIABLES
  cfg,         \* the agent's configuration: remote, static, url, poll
  rules,       \* Overlay.rules, the active rule set
  ver,         \* the version rules were fetched at, 0 for the static rules
  plane,       \* the version the control plane serves now
  sync,        \* the poller: "seed", "idle", "fetch" or "off"
  answer,      \* the version in the response on its way, 0 for none
  cancelled,   \* ctx is done
  stage,       \* the session's MaskRow: "idle", "remote", "anonymize", "load", "overlay", "done"
  cols, orig, row,  \* the columns, the row handed over, and the row as it is masked
  i,           \* the column the running loop is at
  snap,        \* the rule set Overlay.MaskRow loaded
  seen         \* every rule set that was active since the row was handed over

source == <<cfg, rules, ver, plane, sync, answer>>
session == <<stage, cols, orig, row, i, snap>>
vars == <<source, cancelled, session, seen>>

NoRules == [k \in {} |-> CHOOSE t \in Tokens : TRUE]
Key(k) == ToLower[TrimSpace[k]]

\* The results normalizeRules may have: of the keys that fall together once
\* trimmed and lowered, the one the map iteration visits last gives the token.
normalizeRules(raw) ==
  LET keys == {Key(k) : k \in DOMAIN raw} \ {Blank}
  IN {r \in [keys -> Tokens] :
        \A n \in keys : \E k \in DOMAIN raw : Key(k) = n /\ raw[k] = r[n]}

RawRules(v) == IF v = 0 THEN cfg.static ELSE Served[v]

\* buildMaskerWithOverlay: the overlay is a layer of the chain when rules are
\* configured or a source is, a blank source included.
Overlaid == DOMAIN cfg.static # {} \/ cfg.url # "none"

Init ==
  /\ cfg \in [remote : BOOLEAN, static : Static, url : {"none", "blank", "set"},
              poll : {"once", "every"}]
  /\ rules \in normalizeRules(cfg.static)
  /\ ver = 0 /\ plane = 1 /\ answer = 0
  /\ sync = IF cfg.url = "set" THEN "seed" ELSE "off"
  /\ cancelled = FALSE
  /\ stage = "idle" /\ cols = <<>> /\ orig = <<>> /\ row = <<>> /\ i = 1
  /\ snap = NoRules /\ seen = {rules}
------------------------------------------------------------------------------
\* The control plane's rules change (external).
PlaneChanges ==
  /\ plane < Len(Served)
  /\ plane' = plane + 1
  /\ UNCHANGED <<cfg, rules, ver, sync, answer, cancelled, session, seen>>

\* The ticker fires and the poller sends its request.
Tick ==
  /\ sync = "idle"
  /\ sync' = "fetch"
  /\ UNCHANGED <<cfg, rules, ver, plane, answer, cancelled, session, seen>>

\* The control plane answers with the rules it has now (external).
PlaneAnswers ==
  /\ sync \in {"seed", "fetch"} /\ answer = 0 /\ ~cancelled
  /\ answer' = plane
  /\ UNCHANGED <<cfg, rules, ver, plane, sync, cancelled, session, seen>>

\* Where startOverlaySync goes on after a refresh, successful or not: without
\* polling the seed was the only one.
AfterRefresh == IF cfg.poll = "once" THEN "off" ELSE "idle"

\* Replace swaps the normalised rules in one store.  An answer without columns
\* is an answer with no rules.
Refreshed ==
  /\ sync \in {"seed", "fetch"} /\ answer # 0
  /\ rules' \in normalizeRules(Served[answer])
  /\ ver' = answer /\ answer' = 0
  /\ sync' = AfterRefresh
  /\ seen' = seen \union {rules'}
  /\ UNCHANGED <<cfg, plane, cancelled, session>>

ClearingRefreshFails ==
  /\ sync \in {"seed", "fetch"}
  /\ rules' = NoRules /\ seen' = seen \union {rules'}
  /\ answer' = 0
  /\ sync' = AfterRefresh
  /\ UNCHANGED <<cfg, ver, plane, cancelled, session>>

SeedOrNothingRefreshFails ==
  /\ sync \in {"seed", "fetch"}
  /\ answer' = 0
  /\ sync' = IF sync = "seed" THEN "off" ELSE "idle"
  /\ UNCHANGED <<cfg, rules, ver, plane, cancelled, session, seen>>

\* No answer in time, a transport error, a status other than 2xx or a body that
\* does not decode: the rules in place are kept.
RefreshFails ==
  /\ sync \in {"seed", "fetch"}
  /\ answer' = 0
  /\ sync' = AfterRefresh
  /\ UNCHANGED <<cfg, rules, ver, plane, cancelled, session, seen>>

PollerStops ==
  /\ cancelled /\ sync = "idle"
  /\ sync' = "off"
  /\ UNCHANGED <<cfg, rules, ver, plane, answer, cancelled, session, seen>>

Cancel ==
  /\ ~cancelled
  /\ cancelled' = TRUE
  /\ UNCHANGED <<source, session, seen>>
------------------------------------------------------------------------------
\* A value a masker may touch: it has a column, is not NULL and is text.
Maskable(j) == j <= Len(cols) /\ row[j] # "nil" /\ cols[j].text

AfterRemote == IF Overlaid THEN "load" ELSE "done"

\* A relay hands a row to the chain.  Sessions are served once the seed is over.
HandRow ==
  /\ stage = "idle" /\ sync # "seed"
  /\ \E r \in Results : cols' = r.cols /\ orig' = r.row /\ row' = r.row
  /\ i' = 1
  /\ stage' = IF cfg.remote THEN "remote" ELSE AfterRemote
  /\ seen' = {rules}
  /\ UNCHANGED <<source, cancelled, snap>>

\* Remote.MaskRow on to the next value: it skips what it may not or need not
\* mask, and keeps a value whose analysis fails or finds nothing.
RemoteKeep ==
  /\ stage = "remote" /\ i <= Len(row)
  /\ i' = i + 1
  /\ UNCHANGED <<source, cancelled, stage, cols, orig, row, snap, seen>>

\* analyze answers with spans; a cancelled ctx fails the call.
Analyzed ==
  /\ stage = "remote" /\ i <= Len(row) /\ ~cancelled
  /\ Maskable(i) /\ row[i] = "long"
  /\ stage' = "anonymize"
  /\ UNCHANGED <<source, cancelled, cols, orig, row, i, snap, seen>>

\* anonymize replaces the value, or fails and leaves it; the session goes on.
Anonymized ==
  /\ stage = "anonymize"
  /\ \/ ~cancelled /\ row' = [row EXCEPT ![i] = "redacted"]
     \/ row' = row
  /\ stage' = "remote" /\ i' = i + 1
  /\ UNCHANGED <<source, cancelled, cols, orig, snap, seen>>

\* Chain.MaskRow goes on with the next masker: the remote one reports no error.
RemoteEnds ==
  /\ stage = "remote" /\ i > Len(row)
  /\ stage' = AfterRemote /\ i' = 1
  /\ UNCHANGED <<source, cancelled, cols, orig, row, snap, seen>>

\* Overlay.MaskRow loads the rules, once per row.
LoadRules ==
  /\ stage = "load"
  /\ snap' = rules
  /\ stage' = IF DOMAIN rules = {} THEN "done" ELSE "overlay"
  /\ UNCHANGED <<source, cancelled, cols, orig, row, i, seen>>

\* The value the overlay leaves in column i under a rule set.
OverlayValue(r) ==
  IF Maskable(i) /\ ToLower[cols[i].name] \in DOMAIN r
    THEN r[ToLower[cols[i].name]] ELSE row[i]

RereadingOverlayColumn ==
  /\ stage = "overlay"
  /\ IF i > Len(row)
       THEN stage' = "done" /\ UNCHANGED <<row, i>>
       ELSE row' = [row EXCEPT ![i] = OverlayValue(rules)] /\ i' = i + 1 /\ UNCHANGED stage
  /\ UNCHANGED <<source, cancelled, cols, orig, snap, seen>>

OverlayColumn ==
  /\ stage = "overlay"
  /\ IF i > Len(row)
       THEN stage' = "done" /\ UNCHANGED <<row, i>>
       ELSE row' = [row EXCEPT ![i] = OverlayValue(snap)] /\ i' = i + 1 /\ UNCHANGED stage
  /\ UNCHANGED <<source, cancelled, cols, orig, snap, seen>>

\* The relay takes the masked row and writes it to the client (external).
TakeRow ==
  /\ stage = "done"
  /\ stage' = "idle" /\ cols' = <<>> /\ orig' = <<>> /\ row' = <<>> /\ i' = 1
  /\ snap' = NoRules /\ seen' = {rules}
  /\ UNCHANGED <<source, cancelled>>

Poller == Tick \/ PlaneAnswers \/ Refreshed \/ RefreshFails \/ PollerStops
MaskRow == HandRow \/ RemoteKeep \/ Analyzed \/ Anonymized \/ RemoteEnds \/ LoadRules
           \/ OverlayColumn \/ TakeRow
Next == PlaneChanges \/ Cancel \/ Poller \/ MaskRow

Spec == Init /\ [][Next]_vars

\* The ticker keeps firing and a fetch ends by its timeout; a control plane that
\* answers again and again is heard in time again and again.
FairSpec ==
  Spec /\ WF_vars(Tick) /\ WF_vars(RefreshFails) /\ WF_vars(PollerStops)
       /\ SF_vars(PlaneAnswers) /\ SF_vars(Refreshed)
------------------------------------------------------------------------------
\* Types.
TypeOK ==
  /\ cfg \in [remote : BOOLEAN, static : Static, url : {"none", "blank", "set"},
              poll : {"once", "every"}]
  /\ rules \in RuleSets /\ snap \in RuleSets /\ seen \subseteq RuleSets
  /\ plane \in Nat /\ ver \in Nat /\ answer \in Nat
  /\ sync \in {"seed", "idle", "fetch", "off"} /\ cancelled \in BOOLEAN
  /\ stage \in {"idle", "remote", "anonymize", "load", "overlay", "done"}
  /\ cols \in Seq([name : Names, text : BOOLEAN])
  /\ orig \in Seq(Values) /\ row \in Seq(Values \union {"redacted"} \union Tokens)
  /\ i \in Nat

\* What may be left of the j-th value when the overlay's rules are r: the token
\* of its column's rule; without one, the value itself or the remote's redaction.
MaskedUnder(r, j) ==
  LET maskable == j <= Len(cols) /\ orig[j] # "nil" /\ cols[j].text
  IN IF maskable /\ ToLower[cols[j].name] \in DOMAIN r
       THEN row[j] = r[ToLower[cols[j].name]]
       ELSE \/ row[j] = orig[j]
            \/ row[j] = "redacted" /\ maskable /\ orig[j] = "long" /\ cfg.remote

\* Overlay.MaskRow and Replace are safe together: a masked row obeys, in every
\* column, one rule set that was active while the row was masked, whatever the
\* poller did meanwhile and whatever the remote service failed to do.
RowUnderOneRuleSet ==
  stage = "done" =>
    /\ Len(row) = Len(orig)
    /\ \E r \in seen : \A j \in 1..Len(row) : MaskedUnder(r, j)

\* startOverlaySync keeps the rules it has when a refresh fails: what is active
\* is always a normalisation of the static rules, before the first successful
\* refresh, or of a version the control plane really served.
RulesAreServed == TypeOK /\ ver <= plane /\ rules \in normalizeRules(RawRules(ver))

\* With polling, the agent catches up: whatever failed before, the seed
\* included, the rules the control plane keeps serving become the active ones.
RefreshReaches ==
  \A v \in 1..Len(Served) :
    (cfg.url = "set" /\ cfg.poll = "every" /\ plane = v)
      ~> (ver = v \/ plane # v \/ cancelled)

\* What the remote masker may have made of the j-th value.
RemoteOnly(j) ==
  \/ row[j] = orig[j]
  \/ /\ row[j] = "redacted" /\ orig[j] = "long" /\ cfg.remote
     /\ j <= Len(cols) /\ cols[j].text

\* The rules: no layer, no rules, and none but the poller touches them.
RulesInv ==
  /\ RulesAreServed
  /\ answer <= plane /\ plane <= Len(Served)
  /\ rules \in seen
  /\ ~Overlaid => sync = "off" /\ DOMAIN rules = {}

\* The row: how far each layer has come with it.
RowInv ==
  /\ Len(row) = Len(orig) /\ i \in 1..Len(row) + 1
  /\ stage \in {"remote", "anonymize", "load"} => \A j \in 1..Len(row) : RemoteOnly(j)
  /\ stage \in {"remote", "anonymize"} => cfg.remote
  /\ stage = "anonymize" => i <= Len(row) /\ Maskable(i) /\ row[i] = "long"
  /\ stage = "load" => i = 1
  /\ stage = "overlay" => /\ snap \in seen
                          /\ \A j \in 1..Len(row) : IF j < i THEN MaskedUnder(snap, j) ELSE RemoteOnly(j)
  /\ RowUnderOneRuleSet

\* The inductive invariant.
IInv == RulesInv /\ RowInv
==============================================================================
