----------------------------- MODULE EdgeProofs -----------------------------
(* Proofs about the edge: about EdgeWork for any number of runs, streams   *)
(* and assignments, and about EdgeRun for any number of expiries, faults   *)
(* and any backoff.                                                        *)
EXTENDS Edge, FiniteSetTheorems, SequenceTheorems, TLAPS

-----------------------------------------------------------------------------
(* EdgeWork *)

(* A client that has just been made runs nothing. *)
LEMMA InvInit == Init => IInv
<1> SUFFICES ASSUME Init PROVE IInv
  BY Zenon
<1>1. 1..njobs = {}
  BY DEF Init
<1>2. TypeOK
  <2>1. /\ inbox \in Seq([kind : {"assign", "cancel"}, id : RunIds])
        /\ jid \in Seq(RunIds) /\ jstream \in Seq(Streams)
        /\ jpc \in Seq({"run", "emit", "finish", "exit", "gone"})
        /\ Len(jid) = 0 /\ Len(jstream) = 0 /\ Len(jpc) = 0
    BY EmptySeq, Zenon DEF Init
  <2>2. /\ cur = 0 /\ serving = FALSE /\ alive = {} /\ njobs = 0
        /\ runs = [i \in RunIds |-> NoJob]
        /\ cancelled = {} /\ asked = {} /\ answered = {}
    BY Zenon DEF Init
  <2>3. runs \in [RunIds -> Jobs \cup {NoJob}]
    BY <2>2, Zenon
  <2>4. cur \in 0..MaxStreams /\ njobs \in 0..MaxJobs
    BY <2>2, EdgeWorkAssumption
  <2>5. /\ serving \in BOOLEAN /\ ~serving /\ alive \subseteq Streams
        /\ cancelled \subseteq 1..njobs /\ asked \subseteq 1..njobs
        /\ answered \subseteq 1..njobs
    BY <2>2, Zenon
  <2> QED
    BY <2>1, <2>2, <2>3, <2>4, <2>5, Zenon DEF TypeOK
<1>3. RunsMatchJobs /\ NoStrayCancel
  BY <1>1, Zenon DEF Init, RunsMatchJobs, NoStrayCancel, NoJob
<1> QED
  BY <1>2, <1>3, Zenon DEF Init, IInv

(* What a step of the stream leaves of the invariant: all of it. *)
LEMMA NetStep ==
  ASSUME IInv, UNCHANGED <<jobVars, asked>>,
         cur' \in 0..MaxStreams, serving' \in BOOLEAN, serving' => cur' > 0,
         alive' \subseteq Streams,
         inbox' \in Seq([kind : {"assign", "cancel"}, id : RunIds]),
         UNCHANGED answered
  PROVE  IInv'
BY Zenon DEF IInv, TypeOK, RunsMatchJobs, NoStrayCancel, Live, jobVars

(* startWork's new goroutine is the only one for its id, and in the map. *)
LEMMA StartInv ==
  ASSUME IInv, NEW i \in RunIds, StartWork(i),
         runs[i] = NoJob, njobs < MaxJobs, njobs' = njobs + 1
  PROVE  IInv'
<1> USE EdgeWorkAssumption
<1>0. PICK n \in Nat : n = njobs + 1
  BY DEF IInv, TypeOK
<1>1. /\ njobs \in Nat /\ n \in Jobs /\ n # NoJob /\ 1..n = 1..njobs \cup {n}
      /\ n \notin 1..njobs /\ n \in 1..n /\ njobs' = n
  BY <1>0 DEF IInv, TypeOK, Jobs, NoJob
<1>2. /\ runs' = [runs EXCEPT ![i] = n] /\ jid' = Append(jid, i)
      /\ jstream' = Append(jstream, cur) /\ jpc' = Append(jpc, "run")
      /\ UNCHANGED <<cancelled, asked, answered>>
      /\ inbox' = Tail(inbox) /\ inbox # <<>> /\ cur \in Streams
      /\ UNCHANGED <<cur, serving, alive>>
  <2>1. njobs' # njobs
    BY <1>1, Zenon
  <2>2. cur \in Streams
    BY EdgeWorkAssumption DEF StartWork, Received, IInv, TypeOK, Streams
  <2> QED
    BY <1>0, <2>1, <2>2, Zenon DEF StartWork, Received, jobVars
<1>3. /\ jid'[n] = i /\ jpc'[n] = "run"
      /\ \A j \in 1..njobs : jid'[j] = jid[j] /\ jpc'[j] = jpc[j]
      /\ jid' \in Seq(RunIds) /\ jstream' \in Seq(Streams)
      /\ jpc' \in Seq({"run", "emit", "finish", "exit", "gone"})
      /\ Len(jid') = n /\ Len(jstream') = n /\ Len(jpc') = n
  BY <1>0, <1>1, <1>2 DEF IInv, TypeOK
<1>4. TypeOK'
  BY <1>1, <1>2, <1>3 DEF IInv, TypeOK
<1>5. /\ \A j \in 1..njobs : Live(j)' <=> Live(j)
      /\ Live(n)'
      /\ \A j : Live(j)' => j = n \/ j \in 1..njobs
  BY <1>1, <1>3 DEF Live
<1>6. RunsMatchJobs'
  <2>1. \A j \in 1..njobs : Live(j) => jid[j] # i
    BY <1>1 DEF IInv, RunsMatchJobs, NoJob
  <2>2. \A k \in RunIds : runs'[k] = IF k = i THEN n ELSE runs[k]
    BY <1>2, Zenon DEF IInv, TypeOK
  <2>3. \A k \in RunIds : (runs[k] # NoJob => Live(runs[k]) /\ jid[runs[k]] = k)'
    BY <1>1, <1>3, <2>2 DEF IInv, RunsMatchJobs, Live
  <2>4. \A j \in 1..njobs : jid[j] \in RunIds
    BY DEF IInv, TypeOK
  <2>5. \A j \in 1..n : Live(j)' => runs'[jid'[j]] = j
    BY <1>1, <1>3, <1>5, <2>1, <2>2, <2>4 DEF IInv, RunsMatchJobs
  <2> QED
    BY <1>1, <2>3, <2>5, Zenon DEF RunsMatchJobs
<1>7. NoStrayCancel'
  <2>1. n \notin cancelled
    BY <1>1, Zenon DEF IInv, TypeOK
  <2> QED
    BY <1>2, <1>5, <2>1, Zenon DEF IInv, NoStrayCancel
<1> QED
  BY <1>2, <1>4, <1>6, <1>7, Zenon DEF IInv

(* A goroutine's own steps, before finishRun, change only where it is. *)
LEMMA JobGoes ==
  ASSUME IInv, NEW j \in 1..njobs, jpc[j] # "gone",
         NEW l \in {"emit", "finish", "exit"}, JGo(j, l),
         UNCHANGED <<netVars, runs, njobs, jid, jstream, cancelled, asked>>,
         answered' \subseteq 1..njobs
  PROVE  IInv'
<1>1. /\ jpc' \in Seq({"run", "emit", "finish", "exit", "gone"})
      /\ Len(jpc') = Len(jpc)
      /\ \A k \in 1..njobs : jpc'[k] = IF k = j THEN l ELSE jpc[k]
  BY DEF JGo, IInv, TypeOK
<1>2. \A k : Live(k)' <=> Live(k)
  BY <1>1, Zenon DEF Live
<1>3. TypeOK'
  BY <1>1, Zenon DEF IInv, TypeOK, netVars
<1> QED
  BY <1>2, <1>3, Zenon DEF IInv, RunsMatchJobs, NoStrayCancel, netVars

(* finishRun cancels and deletes the entry of its own run. *)
LEMMA FinishInv ==
  ASSUME IInv, NEW j \in 1..njobs, FinishRun(j)
  PROVE  IInv'
<1>1. /\ jpc' \in Seq({"run", "emit", "finish", "exit", "gone"})
      /\ Len(jpc') = Len(jpc)
      /\ \A k \in 1..njobs : jpc'[k] = IF k = j THEN "gone" ELSE jpc[k]
  BY DEF FinishRun, JGo, IInv, TypeOK
<1>2. jid[j] \in RunIds /\ runs[jid[j]] = j /\ j # NoJob
  BY DEF FinishRun, IInv, TypeOK, RunsMatchJobs, Live, NoJob
<1>3. /\ cancelled' = cancelled \cup {j}
      /\ runs' = [runs EXCEPT ![jid[j]] = NoJob]
      /\ UNCHANGED <<netVars, njobs, jid, jstream, asked, answered>>
  BY <1>2, Zenon DEF FinishRun
<1>4. TypeOK'
  BY <1>1, <1>3, Zenon DEF IInv, TypeOK, netVars
<1>5. \A k : Live(k)' <=> Live(k) /\ k # j
  BY <1>1, <1>3, Zenon DEF Live
<1>6. RunsMatchJobs'
  <2>1. \A i \in RunIds : runs'[i] = IF i = jid[j] THEN NoJob ELSE runs[i]
    BY <1>3, Zenon DEF IInv, TypeOK
  <2>2. \A k \in 1..njobs : jid[k] \in RunIds
    BY DEF IInv, TypeOK
  <2> QED
    BY <1>2, <1>3, <1>5, <2>1, <2>2 DEF IInv, RunsMatchJobs
<1>7. NoStrayCancel'
  BY <1>3, <1>5, Zenon DEF IInv, NoStrayCancel
<1> QED
  BY <1>3, <1>4, <1>6, <1>7, Zenon DEF IInv, netVars

(* Every step keeps the invariant. *)
LEMMA InvStep == IInv /\ [Next]_vars => IInv'
<1> SUFFICES ASSUME IInv, [Next]_vars PROVE IInv'
  BY Zenon
<1> USE EdgeWorkAssumption
<1>1. CASE UNCHANGED vars
  BY <1>1, NetStep, Zenon DEF vars, netVars, IInv, TypeOK
<1>2. CASE Connect
  <2>1. inbox' \in Seq([kind : {"assign", "cancel"}, id : RunIds])
    BY <1>2, EmptySeq, Zenon DEF Connect
  <2>2. /\ cur' \in 0..MaxStreams /\ cur' > 0
        /\ alive' \subseteq Streams
    BY <1>2 DEF Connect, IInv, TypeOK, Streams
  <2> QED
    BY <1>2, <2>1, <2>2, NetStep, Zenon DEF Connect, IInv, TypeOK
<1>3a. CASE StreamBreaks
  BY <1>3a, NetStep, Zenon DEF StreamBreaks, IInv, TypeOK
<1>3. CASE RecvError
  <2>1. inbox' \in Seq([kind : {"assign", "cancel"}, id : RunIds])
    BY <1>3, EmptySeq, Zenon DEF RecvError
  <2> QED
    BY <1>3, <2>1, NetStep, Zenon DEF RecvError, IInv, TypeOK
<1>4. ASSUME NEW i \in RunIds, NEW kind \in {"assign", "cancel"},
             GatewaySends(kind, i)
      PROVE  IInv'
  BY <1>4, NetStep DEF GatewaySends, IInv, TypeOK
<1>5. ASSUME NEW i \in RunIds, NEW kind, Received(kind, i)
      PROVE  /\ inbox' \in Seq([kind : {"assign", "cancel"}, id : RunIds])
             /\ cur \in Streams /\ UNCHANGED <<cur, serving, alive>>
  BY <1>5 DEF Received, IInv, TypeOK, Streams
<1>6. ASSUME NEW i \in RunIds, StartWork(i) PROVE IInv'
  <2>1. CASE UNCHANGED jobVars
    BY <1>5, <1>6, <2>1, NetStep, Zenon DEF StartWork, IInv, TypeOK
  <2>2. CASE runs[i] = NoJob /\ njobs < MaxJobs /\ njobs' = njobs + 1
    BY <1>6, <2>2, StartInv, Zenon
  <2> QED
    BY <1>6, <2>1, <2>2, Zenon DEF StartWork
<1>7. ASSUME NEW i \in RunIds, CancelWork(i) PROVE IInv'
  <2>1. {runs[i]} \ {NoJob} \subseteq 1..njobs
    BY Zenon DEF IInv, RunsMatchJobs, Live
  <2>2. /\ inbox' \in Seq([kind : {"assign", "cancel"}, id : RunIds])
        /\ UNCHANGED <<cur, serving, alive, runs, njobs, jid, jstream, jpc,
                       answered>>
        /\ cancelled' = cancelled \cup ({runs[i]} \ {NoJob})
        /\ asked' = asked \cup ({runs[i]} \ {NoJob})
    BY <1>5, <1>7, Zenon DEF CancelWork
  <2>3. TypeOK'
    BY <2>1, <2>2, Zenon DEF IInv, TypeOK
  <2>4. RunsMatchJobs' /\ NoStrayCancel'
    BY <2>2, Zenon DEF IInv, RunsMatchJobs, NoStrayCancel, Live
  <2> QED
    BY <2>2, <2>3, <2>4, Zenon DEF IInv
<1>8. ASSUME NEW j \in 1..njobs, JobStep(j) PROVE IInv'
  <2>1. CASE Dispatch(j) \/ EmitResult(j)
    BY <2>1, JobGoes, Zenon DEF Dispatch, EmitResult, IInv, TypeOK
  <2>2. CASE EmitFinished(j)
    <3>1. answered' \subseteq 1..njobs
      BY <2>2, Zenon DEF EmitFinished, IInv, TypeOK
    <3> QED
      BY <2>2, <3>1, JobGoes, Zenon DEF EmitFinished
  <2> QED
    BY <1>8, <2>1, <2>2, FinishInv, Zenon DEF JobStep
<1> QED
  BY <1>1, <1>2, <1>3a, <1>3, <1>4, <1>6, <1>7, <1>8, Zenon DEF Next

-----------------------------------------------------------------------------
(* The inductive invariant. *)
THEOREM InvCorrect == Spec => []IInv
BY InvInit, InvStep, PTL DEF Spec

(* At most one goroutine runs an id at a time, and the map says which: a    *)
(* goroutine's finishRun never takes another's entry.                       *)
THEOREM OneRunPerId == Spec => []RunsMatchJobs
<1>1. IInv => RunsMatchJobs
  BY Zenon DEF IInv
<1> QED
  BY <1>1, InvCorrect, PTL

(* No run is cancelled by anything but a CancelWork meant for it. *)
THEOREM CancelsAreMeant == Spec => []NoStrayCancel
<1>1. IInv => NoStrayCancel
  BY Zenon DEF IInv
<1> QED
  BY <1>1, InvCorrect, PTL

-----------------------------------------------------------------------------
(* EdgeRun *)

USE Zenon

(* EdgeRun counts with the Cardinality of FiniteSets. *)
LEMMA SameCardinality == \A S : Run!Cardinality(S) = Cardinality(S)
<1> TAKE S
<1> QED
  BY Zenon DEF Run!Cardinality, Cardinality

(* A certificate that goes stale pays for one more enrollment. *)
LEMMA StalePays ==
  ASSUME Run!TypeOK
  PROVE  /\ Cardinality(stale) \in Nat
         /\ Run!Spent \in Nat /\ Run!Spent = Cardinality(stale) + faults
         /\ \A g : g \notin stale =>
              Cardinality(stale \cup {g}) = Cardinality(stale) + 1
<1>1. IsFiniteSet(stale)
  <2>1. 1 \in Int /\ gen \in Int
    BY SMT DEF Run!TypeOK
  <2>2. stale \subseteq 1..gen
    BY Zenon DEF Run!TypeOK
  <2> QED
    BY <2>1, <2>2, FS_Interval, FS_Subset, Zenon
<1>2. Cardinality(stale) \in Nat
  BY <1>1, FS_CardinalityType, Zenon
<1>3. \A g : g \notin stale => Cardinality(stale \cup {g}) = Cardinality(stale) + 1
  BY <1>1, FS_AddElement, Zenon
<1>4. Run!Spent = Cardinality(stale) + faults
  BY SameCardinality, Zenon DEF Run!Spent
<1>5. Run!Spent \in Nat
  BY <1>2, <1>4, SMT DEF Run!TypeOK
<1> QED
  BY <1>2, <1>3, <1>4, <1>5, Zenon

(* Run starts with no enrollment, or with one that is good. *)
LEMMA RunInvInit == Run!Init => Run!IInv
<1> SUFFICES ASSUME Run!Init PROVE Run!IInv
  BY Zenon
<1>2. Run!TypeOK
  <2>1. mat \in Run!Contents /\ disk \in Run!Contents
    BY SMT DEF Run!Init, Run!Contents, Run!NoMaterial, Run!NoFile, Run!Good
  <2>2. gen \in Nat /\ backoff \in 1..MaxBackoff /\ faults \in 0..MaxFaults
    BY RunAssumption, SMT DEF Run!Init, Run!EdgeRunAssumption
  <2> QED
    BY <2>1, <2>2, Zenon DEF Run!Init, Run!TypeOK
<1>3. CASE gen = 0
  BY <1>2, <1>3, StalePays, SMT DEF Run!Init, Run!IInv, Run!NoDowngrade, Run!Files
<1>4. CASE gen = 1 /\ disk["cert"] = 1 /\ disk["key"] = 1
  <2>1. Run!Fresh
    BY <1>4, SMT DEF Run!Init, Run!Fresh, Run!Present, Run!NoFile, Run!Torn
  <2> QED
    BY <1>2, <1>4, <2>1, StalePays, SMT
    DEF Run!Init, Run!IInv, Run!NoDowngrade, Run!Files, Run!Holding
<1> QED
  BY <1>3, <1>4, SMT DEF Run!Init, Run!Files

(* A step that leaves the files, the enrollments and what is spent alone *)
(* keeps the invariant, unless it starts an enrollment.                  *)
LEMMA QuietStep ==
  ASSUME Run!IInv, UNCHANGED <<cfg, disk, gen, stale, faults>>,
         Run!TypeOK', Run!NoDowngrade',
         pc \notin Run!Files, pc' \notin Run!Files \cup {"enroll"}
  PROVE  Run!IInv'
<1>1. Run!Spent' = Run!Spent
  BY StalePays, SameCardinality, Zenon DEF Run!Spent
<1>2. Run!Fresh' <=> Run!Fresh
  BY Zenon DEF Run!Fresh, Run!Present
<1> QED
  BY <1>1, <1>2, Zenon DEF Run!IInv, Run!Holding, Run!Files

(* ensureTLSMaterial gives bearer mode only to an edge without a CA bundle, *)
(* and goes on to enroll only when no good certificate is stored.           *)
LEMMA LoadInv ==
  ASSUME Run!IInv, Run!Load
  PROVE  Run!IInv'
<1>1. Run!TypeOK /\ pc \notin Run!Files
  BY Zenon DEF Run!IInv, Run!Load, Run!Files
<1>2. Run!Stored \in Run!Contents /\ Run!NoMaterial \in Run!Contents
  BY <1>1, SMT DEF Run!TypeOK, Run!Contents, Run!Files, Run!Stored, Run!NoMaterial,
    Run!Good, Run!NoFile
<1>3. Run!Present => Run!Stored # Run!NoMaterial
  BY <1>1, SMT DEF Run!TypeOK, Run!Contents, Run!Files, Run!Stored, Run!NoMaterial,
    Run!Present, Run!NoFile
<1>4. Run!TypeOK'
  BY <1>1, <1>2, Zenon DEF Run!TypeOK, Run!Load, Run!Use, Run!Return, Run!Files
<1>5. CASE pc' = "enroll" /\ ~Run!Fresh /\ UNCHANGED mat
  <2>1. Run!Spent' = Run!Spent
    BY SameCardinality, Zenon DEF Run!Spent, Run!Load
  <2>2. gen <= Run!Spent
    BY <1>1, <1>5, Zenon DEF Run!IInv, Run!Holding
  <2> QED
    BY <1>4, <1>5, <2>1, <2>2, Zenon
    DEF Run!IInv, Run!Holding, Run!NoDowngrade, Run!Files, Run!Load
<1>6. CASE pc' \in {"dial", "done"} /\ Run!NoDowngrade'
  BY <1>1, <1>4, <1>6, QuietStep, Zenon DEF Run!Load, Run!Files
<1>7. Run!NoDowngrade' \/ pc' = "enroll"
  BY <1>3, Zenon DEF Run!Load, Run!Use, Run!Return, Run!NoDowngrade, Run!Fresh
<1> QED
  BY <1>5, <1>6, <1>7, Zenon DEF Run!Load, Run!Use, Run!Return

(* The call to Enroll: what was issued is paid for but for the last. *)
LEMMA EnrollInv ==
  ASSUME Run!IInv, Run!Enroll \/ Run!EnrollFails \/ Run!EnrollCancelled
  PROVE  Run!IInv'
<1>1. Run!TypeOK /\ gen \in Nat /\ gen <= Run!Spent /\ pc = "enroll"
      /\ stale \subseteq 1..gen /\ faults \in 0..MaxFaults
  BY Zenon DEF Run!IInv, Run!Enroll, Run!EnrollFails, Run!EnrollCancelled, Run!TypeOK
<1>2. CASE Run!Enroll
  <2>1. gen' \in Nat /\ stale' \subseteq 1..gen' /\ gen + 1 \notin stale
        /\ gen + 1 \in 1..gen'
    BY <1>1, <1>2, SMT DEF Run!Enroll
  <2>2. mat' \in Run!Contents
    BY <1>1, <1>2, SMT DEF Run!Enroll, Run!Contents, Run!Good
  <2>3. Run!TypeOK'
    BY <1>1, <1>2, <2>1, <2>2, Zenon DEF Run!Enroll, Run!TypeOK, Run!Files
  <2>4. Run!Spent' = Run!Spent
    BY <1>2, SameCardinality, Zenon DEF Run!Spent, Run!Enroll
  <2>5. gen' <= 1 + Run!Spent'
    BY <1>1, <1>2, <2>4, StalePays, SMT DEF Run!Enroll
  <2>6. mat'["ca"] = Run!Good /\ mat'["cert"] = gen + 1 /\ mat'["key"] = gen + 1
    BY <1>2, Zenon DEF Run!Enroll, Run!Files
  <2> QED
    BY <1>2, <2>1, <2>3, <2>5, <2>6, Zenon
    DEF Run!Enroll, Run!IInv, Run!Holding, Run!NoDowngrade, Run!Files
<1>3. CASE Run!EnrollFails
  <2>1. gen' \in Nat /\ stale' \subseteq 1..gen' /\ faults' \in 0..MaxFaults
    BY <1>1, <1>3, RunAssumption, SMT DEF Run!EnrollFails, Run!EdgeRunAssumption
  <2>2. Run!TypeOK'
    BY <1>1, <1>3, <2>1, Zenon DEF Run!EnrollFails, Run!TypeOK, Run!Return
  <2>3. Run!Spent = Cardinality(stale) + faults /\ Run!Spent' = Cardinality(stale) + faults'
    BY <1>3, SameCardinality, Zenon DEF Run!Spent, Run!EnrollFails
  <2>4. gen' <= Run!Spent'
    BY <1>1, <1>3, <2>3, StalePays, SMT DEF Run!EnrollFails
  <2> QED
    BY <1>3, <2>2, <2>4, Zenon
    DEF Run!EnrollFails, Run!Return, Run!IInv, Run!NoDowngrade, Run!Files
<1>4. CASE Run!EnrollCancelled
  <2>1. Run!TypeOK' /\ Run!NoDowngrade' /\ pc \notin Run!Files
        /\ pc' \notin Run!Files \cup {"enroll"}
    BY <1>1, <1>4, Zenon
    DEF Run!EnrollCancelled, Run!TypeOK, Run!Return, Run!NoDowngrade, Run!Files
  <2> QED
    BY <1>4, <2>1, QuietStep, Zenon DEF Run!EnrollCancelled
<1> QED
  BY <1>2, <1>3, <1>4, Zenon

(* A file that is written in part costs a fault; what it held counts for *)
(* nothing more.                                                         *)
LEMMA FaultPays ==
  ASSUME Run!IInv, Run!TypeOK', UNCHANGED <<gen, stale>>, faults' = faults + 1,
         pc' \in {"done", "down"}
  PROVE  Run!IInv'
<1>1. Run!TypeOK /\ gen \in Nat /\ faults \in Nat
      /\ (gen <= Run!Spent \/ gen <= 1 + Run!Spent)
  BY SMT DEF Run!IInv, Run!TypeOK
<1>2. Run!Spent = Cardinality(stale) + faults /\ Run!Spent' = Cardinality(stale) + faults'
  BY SameCardinality, Zenon DEF Run!Spent
<1>3. gen' <= Run!Spent'
  BY <1>1, <1>2, StalePays, SMT
<1> QED
  BY <1>3, Zenon DEF Run!IInv, Run!NoDowngrade, Run!Files

(* What an interrupted os.WriteFile leaves. *)
LEMMA InterruptedType ==
  ASSUME Run!TypeOK, NEW f \in Run!Files, Run!Interrupted(f)
  PROVE  disk' \in Run!Contents
BY SMT DEF Run!TypeOK, Run!Contents, Run!Interrupted, Run!NoFile, Run!Torn

(* The three writes: the certificate that was just issued is on its way to *)
(* the disk, and good when its key has followed it.                        *)
LEMMA WriteInv ==
  ASSUME Run!IInv, NEW f \in Run!Files, Run!WriteSecret(f)
  PROVE  Run!IInv'
<1>1. /\ Run!TypeOK /\ pc = f /\ pc \in Run!Files
      /\ mat["ca"] = Run!Good /\ mat["cert"] \in 1..gen /\ mat["key"] = mat["cert"]
  BY Zenon DEF Run!IInv, Run!WriteSecret
<1>2. /\ disk' \in Run!Contents
      /\ \A x \in Run!Files : disk'[x] = IF x = f THEN mat[x] ELSE disk[x]
  BY <1>1, Zenon DEF Run!WriteSecret, Run!TypeOK, Run!Contents
<1>3. UNCHANGED <<cfg, gen, stale, faults, mat, backoff, runCancelled, outcome>>
  BY Zenon DEF Run!WriteSecret, Run!memVars
<1>4. pc' = Run!NextWrite(f) /\ pc' \in Run!Files \cup {"dial"}
  BY Zenon DEF Run!WriteSecret, Run!NextWrite, Run!Files
<1>5. Run!TypeOK'
  BY <1>1, <1>2, <1>3, <1>4, Zenon DEF Run!TypeOK
<1>6. Run!Spent' = Run!Spent
  BY <1>3, SameCardinality, Zenon DEF Run!Spent
<1>7. Run!NoDowngrade'
  <2>1. mat # Run!NoMaterial
    BY <1>1, SMT DEF Run!NoMaterial, Run!Files, Run!Good, Run!NoFile
  <2> QED
    BY <1>3, <2>1, Zenon DEF Run!NoDowngrade
<1>8. (pc = "key" => disk["cert"] = mat["cert"])'
  BY <1>2, <1>3, <1>4, Zenon DEF Run!NextWrite, Run!Files
<1>9. gen <= Run!Spent \/ (gen <= 1 + Run!Spent /\ mat["cert"] \notin stale)
  BY <1>1, Zenon DEF Run!IInv, Run!Holding
<1>10. mat["cert"] \notin stale => Run!Holding'
  <2>1. CASE f = "key"
    <3>1. /\ disk'["cert"] = mat["cert"] /\ disk'["key"] = mat["cert"]
          /\ pc' = "dial"
      BY <1>1, <1>2, <1>4, <2>1, Zenon DEF Run!IInv, Run!NextWrite, Run!Files
    <3>2. mat["cert"] # Run!NoFile /\ mat["cert"] # Run!Torn
      BY <1>1, SMT DEF Run!NoFile, Run!Torn
    <3> QED
      BY <1>3, <3>1, <3>2, Zenon DEF Run!Holding, Run!Fresh, Run!Present, Run!Files
  <2>2. CASE f # "key"
    BY <1>3, <1>4, <2>2, Zenon DEF Run!Holding, Run!NextWrite, Run!Files
  <2> QED
    BY <2>1, <2>2, Zenon
<1> QED
  BY <1>1, <1>3, <1>4, <1>5, <1>6, <1>7, <1>8, <1>9, <1>10, Zenon DEF Run!IInv, Run!Files

(* A failed write and a crash. *)
LEMMA FaultInv ==
  ASSUME Run!IInv, Run!Crash \/ (\E f \in Run!Files : Run!WriteFails(f))
  PROVE  Run!IInv'
<1>1. Run!TypeOK
  BY Zenon DEF Run!IInv
<1>2. faults < MaxFaults /\ faults' = faults + 1 => faults' \in 0..MaxFaults
  BY <1>1, RunAssumption, SMT DEF Run!TypeOK, Run!EdgeRunAssumption
<1>3. ASSUME NEW f \in Run!Files, Run!WriteFails(f)
      PROVE  Run!IInv'
  <2>1. disk' \in Run!Contents
    BY <1>1, <1>3, InterruptedType, Zenon DEF Run!WriteFails
  <2>2. Run!TypeOK'
    BY <1>1, <1>2, <1>3, <2>1, Zenon DEF Run!WriteFails, Run!Return, Run!TypeOK
  <2> QED
    BY <1>3, <2>2, FaultPays, Zenon DEF Run!WriteFails, Run!Return
<1>4. CASE Run!Crash
  <2>1. disk' \in Run!Contents
    BY <1>1, <1>4, InterruptedType, Zenon DEF Run!Crash, Run!TypeOK
  <2>2. Run!TypeOK'
    BY <1>1, <1>2, <1>4, <2>1, Zenon DEF Run!Crash, Run!memVars, Run!TypeOK
  <2> QED
    BY <1>4, <2>2, FaultPays, Zenon DEF Run!Crash
<1> QED
  BY <1>3, <1>4, Zenon

(* An expiry. *)
LEMMA StaleInv ==
  ASSUME Run!IInv, NEW g \in 1..gen, Run!GoStale(g)
  PROVE  Run!IInv'
<1>1. Run!TypeOK /\ gen \in Nat /\ (gen <= Run!Spent \/ gen <= 1 + Run!Spent)
  BY Zenon DEF Run!IInv, Run!TypeOK
<1>2. /\ g \notin stale /\ stale' = stale \cup {g}
      /\ UNCHANGED <<cfg, pc, disk, gen, faults, mat, backoff, runCancelled, outcome>>
  BY Zenon DEF Run!GoStale, Run!memVars
<1>3. Run!TypeOK'
  BY <1>1, <1>2, Zenon DEF Run!TypeOK
<1>4. /\ Run!Spent = Cardinality(stale) + faults
      /\ Run!Spent' = Cardinality(stale \cup {g}) + faults
  BY <1>2, SameCardinality, Zenon DEF Run!Spent
<1>5. Run!Spent' = Run!Spent + 1 /\ Run!Spent \in Nat
  <2>1. Cardinality(stale) \in Nat /\ faults \in Nat
    BY <1>1, StalePays, SMT DEF Run!TypeOK
  <2>2. Cardinality(stale \cup {g}) = Cardinality(stale) + 1
    BY <1>1, <1>2, StalePays, Zenon
  <2> QED
    BY <1>4, <2>1, <2>2, SMT
<1>6. gen' <= Run!Spent'
  BY <1>1, <1>2, <1>5, SMT
<1> QED
  BY <1>2, <1>3, <1>6, Zenon DEF Run!IInv, Run!NoDowngrade

(* Dialling, serving, waiting, a signal and a restart. *)
LEMMA LoopInv ==
  ASSUME Run!IInv,
         \/ Run!Dial \/ Run!ServeEnds \/ Run!WaitCancelled \/ Run!WaitTimer
         \/ Run!Cancel \/ Run!Restart
  PROVE  Run!IInv'
<1>1. Run!TypeOK /\ Run!NoDowngrade
  BY Zenon DEF Run!IInv
<1>2. CASE Run!Cancel
  <2>1. Run!TypeOK'
    BY <1>1, <1>2, Zenon DEF Run!TypeOK, Run!Cancel
  <2>2. Run!Spent' = Run!Spent /\ (Run!Holding' <=> Run!Holding)
    BY <1>2, SameCardinality, Zenon
    DEF Run!Cancel, Run!Spent, Run!Holding, Run!Fresh, Run!Present
  <2> QED
    BY <1>2, <2>1, <2>2, Zenon DEF Run!IInv, Run!Cancel, Run!NoDowngrade
<1>3. CASE Run!Restart
  <2>1. 1 \in 1..MaxBackoff
    BY RunAssumption, SMT DEF Run!EdgeRunAssumption
  <2>2. Run!NoMaterial \in Run!Contents
    BY SMT DEF Run!Contents, Run!NoMaterial, Run!NoFile
  <2>3. Run!TypeOK' /\ Run!NoDowngrade'
    BY <1>1, <1>3, <2>1, <2>2, Zenon DEF Run!TypeOK, Run!Restart, Run!NoDowngrade
  <2> QED
    BY <1>3, <2>3, QuietStep, Zenon DEF Run!Restart, Run!Running, Run!Files
<1>4. CASE Run!WaitTimer
  <2>1. backoff' \in 1..MaxBackoff
    BY <1>1, <1>4, RunAssumption, SMT DEF Run!TypeOK, Run!WaitTimer, Run!EdgeRunAssumption
  <2>2. Run!TypeOK' /\ Run!NoDowngrade'
    BY <1>1, <1>4, <2>1, Zenon DEF Run!TypeOK, Run!WaitTimer, Run!NoDowngrade
  <2> QED
    BY <1>4, <2>2, QuietStep, Zenon DEF Run!WaitTimer, Run!Files
<1>5. CASE Run!WaitCancelled
  <2>1. Run!TypeOK' /\ Run!NoDowngrade'
    BY <1>1, <1>5, Zenon DEF Run!TypeOK, Run!WaitCancelled, Run!Return, Run!NoDowngrade
  <2> QED
    BY <1>5, <2>1, QuietStep, Zenon DEF Run!WaitCancelled, Run!Return, Run!Files
<1>6. CASE Run!ServeEnds
  <2>1. 1 \in 1..MaxBackoff
    BY RunAssumption, SMT DEF Run!EdgeRunAssumption
  <2>2. Run!TypeOK' /\ Run!NoDowngrade' /\ pc' \in {"wait", "done"}
    BY <1>1, <1>6, <2>1, Zenon
    DEF Run!TypeOK, Run!ServeEnds, Run!Attempted, Run!Return, Run!NoDowngrade
  <2> QED
    BY <1>6, <2>2, QuietStep, Zenon DEF Run!ServeEnds, Run!Files
<1>7. CASE Run!Dial
  <2>1. pc' \in {"wait", "done", "serve"} /\ Run!TypeOK'
    BY <1>1, <1>7, Zenon DEF Run!TypeOK, Run!Dial, Run!Attempted, Run!Return
  <2>2. Run!NoDowngrade'
    BY <1>1, <1>7, <2>1, Zenon DEF Run!Dial, Run!NoDowngrade
  <2> QED
    BY <1>7, <2>1, <2>2, QuietStep, Zenon DEF Run!Dial, Run!Files
<1> QED
  BY <1>2, <1>3, <1>4, <1>5, <1>6, <1>7, Zenon

(* Every step of the call-home loop keeps the invariant. *)
LEMMA RunInvStep == Run!IInv /\ [Run!Next]_(Run!vars) => Run!IInv'
<1> SUFFICES ASSUME Run!IInv, [Run!Next]_(Run!vars) PROVE Run!IInv'
  BY Zenon
<1>1. CASE UNCHANGED Run!vars
  <2>1. UNCHANGED <<cfg, pc, disk, gen, stale, faults, mat, backoff, runCancelled, outcome>>
    BY <1>1, Zenon DEF Run!vars, Run!memVars
  <2>2. Run!Spent' = Run!Spent /\ (Run!Holding' <=> Run!Holding)
    BY <2>1, SameCardinality, Zenon DEF Run!Spent, Run!Holding, Run!Fresh, Run!Present
  <2> QED
    BY <2>1, <2>2, Zenon DEF Run!IInv, Run!TypeOK, Run!NoDowngrade
<1>2. CASE Run!Next
  BY <1>2, LoadInv, EnrollInv, WriteInv, FaultInv, StaleInv, LoopInv, Zenon
  DEF Run!Next, Run!Step, Run!Fault
<1> QED
  BY <1>1, <1>2, Zenon

(* Whatever the files hold, an edge with a CA bundle never dials with the *)
(* bearer token: not after a crash, a torn file or an expiry.             *)
THEOREM NeverDowngrades == Run!Spec => []NoDowngrade
<1>1. Run!IInv => NoDowngrade
  BY Zenon DEF Run!IInv, NoDowngrade
<1> QED
  BY <1>1, RunInvInit, RunInvStep, PTL DEF Run!Spec

(* Reconnecting and restarting use no enrollment: beyond the first there is *)
(* one only for a certificate that went stale or for a fault.               *)
THEOREM EnrollmentsArePaidFor == Run!Spec => []EnrollmentsBounded
<1>1. Run!IInv => EnrollmentsBounded
  <2> SUFFICES ASSUME Run!IInv PROVE EnrollmentsBounded
    BY Zenon
  <2>1. Run!TypeOK /\ gen \in Nat /\ faults \in Nat
        /\ (gen <= Run!Spent \/ gen <= 1 + Run!Spent)
    BY SMT DEF Run!IInv, Run!TypeOK
  <2>2. gen <= 1 + Cardinality(stale) + faults
    BY <2>1, StalePays, SMT
  <2> QED
    BY <2>1, <2>2, SameCardinality, Zenon DEF EnrollmentsBounded, Run!EnrollmentsBounded
<1> QED
  BY <1>1, RunInvInit, RunInvStep, PTL DEF Run!Spec
=============================================================================
