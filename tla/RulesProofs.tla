---------------------------- MODULE RulesProofs -----------------------------
(***************************************************************************)
(* Proofs about what a process is told, for every value of the constants:  *)
(* the watcher of a file, the two writers of ticker-params.json, the       *)
(* memory guard, the configuration and the environment a process boots     *)
(* from, the storage policy it installs, and the memo that threads share   *)
(* when they resolve tickers.  The parts share no state; the last theorems *)
(* are about all of them side by side, as MCRules explores them.           *)
(***************************************************************************)
EXTENDS MCRules, Induction

-----------------------------------------------------------------------------
(* The watcher (HotReload).                                                *)

LEMMA HotInitInv == HotInit => HotInv
  BY BoundAssumption DEF HotInit, HotInv, HotTypeOK, Contents, Stamps

(* The reads of the watcher leave the file alone.                          *)
LEMMA WatcherInv ==
  ASSUME HotInv, Watcher
  PROVE  HotInv'
<1> USE ContentAssumption, BoundAssumption DEF HotInv, HotTypeOK, Contents, Stamps, fileVars
<1>1. CASE BootMtime \/ Poll
  BY <1>1 DEF BootMtime, Poll
<1>2. CASE BootHash \/ HashFile
  BY <1>2 DEF BootHash, HashFile
<1>3. CASE BootParse
  BY <1>3 DEF BootParse, ParseOf
<1>4. CASE Parse
  BY <1>4 DEF Parse, ParseOf
<1>5. CASE Apply
  BY <1>5 DEF Apply, KeptHash, KeptValue
<1>6. QED BY <1>1, <1>2, <1>3, <1>4, <1>5 DEF Watcher

LEMMA WriteInv ==
  ASSUME HotInv, NEW c \in Contents, Write(c)
  PROVE  HotInv'
BY BoundAssumption DEF HotInv, HotTypeOK, Contents, Stamps, Write, watcher

LEMMA HotNextInv == HotInv /\ [HotNext]_hotVars => HotInv'
<1> SUFFICES ASSUME HotInv, [HotNext]_hotVars
             PROVE  HotInv'
  OBVIOUS
<1>1. CASE UNCHANGED hotVars
  BY <1>1 DEF hotVars, fileVars, watcher, HotInv, HotTypeOK
<1>2. QED BY <1>1, WatcherInv, WriteInv DEF HotNext

(* hot_reload.rs: every value the channel and the locals of the watcher    *)
(* ever hold is one the file had, or the default of the boot.              *)
THEOREM PublishedWasRead == HotSpec => []HotInv
BY HotInitInv, HotNextInv, PTL DEF HotSpec

(* hot_reload.rs:15: once booted, a value is only replaced by the parse of *)
(* bytes the file really had, whatever is written between the reads.       *)
THEOREM ValueStaysGood == HotSpec => NeverDegrades
<1> DEFINE Replaces == /\ published' \in used
                       /\ published' # Initial
<1>1. ASSUME HotInv, [HotNext]_hotVars, published' # published /\ pc # "bootparse"
      PROVE  Replaces
  <2>1. published' = parsed /\ parsed # Missing
    BY <1>1 DEF HotNext, Watcher, BootMtime, BootHash, BootParse, Poll, HashFile, Parse, Apply,
                Write, watcher, KeptValue, hotVars
  <2>2. QED BY <1>1, <2>1, ContentAssumption DEF HotInv, HotTypeOK
<1>2. HotInv /\ [HotNext]_hotVars =>
        [published' # published /\ pc # "bootparse" => Replaces]_hotVars
  BY <1>1
<1>3. QED BY <1>2, PublishedWasRead, PTL DEF HotSpec, NeverDegrades

-----------------------------------------------------------------------------
(* ticker-params.json (TickerParams).                                      *)

(* A fit of one run is a fit of at most one run.                           *)
LEMMA OneRun ==
  ASSUME NEW fit, NEW r, \A t \in Tickers : fit[t] \in {r, Nobody}
  PROVE  Cardinality(RunsIn(fit)) <= 1
<1>1. RunsIn(fit) \subseteq {r}
  BY DEF RunsIn
<1>2. IsFiniteSet({r}) /\ Cardinality({r}) = 1
  BY FS_Singleton
<1>3. Cardinality(RunsIn(fit)) <= Cardinality({r})
  BY <1>1, <1>2, FS_Subset
<1>4. QED BY <1>2, <1>3

LEMMA NoParamsOK == NoParams \in ParFiles
BY ParAssumption DEF NoParams, ParFiles, FitMaps

LEMMA ParInitInv == ParInit => ParInv
<1> SUFFICES ASSUME ParInit PROVE ParInv
  OBVIOUS
<1>1. ParTypeOK
  BY NoParamsOK, ParAssumption DEF ParInit, ParTypeOK, Writers, Outcomes, Ready
<1>2. LockInv /\ EditInv /\ RunInv
  BY ParAssumption DEF ParInit, LockInv, EditInv, RunInv, Locked, Ready, Writers
<1>3. \A t \in Tickers : params.renko_k[t] \in {Nobody, Nobody} /\ params.staged[t] = Nobody
  BY DEF ParInit, NoParams
<1>4. Cardinality(RunsIn(params.renko_k)) <= 1
  BY <1>3, OneRun
<1>5. NothingReverted
  BY <1>3, <1>4 DEF ParInit, NoParams, NothingReverted
<1>6. QED BY <1>1, <1>2, <1>5 DEF ParInv

(* A step that leaves the file and what was edited alone leaves it true.   *)
LEMMA SameFile ==
  ASSUME NothingReverted, UNCHANGED <<params, volumes>>
  PROVE  NothingReverted'
BY DEF NothingReverted, RunsIn

(* A program gets ready to change the file.                                *)
LEMMA Wanted ==
  ASSUME ParInv, NEW p \in Writers, NEW e, Want(p, e),
         e \in [op : Ops(p), ticker : Tickers \cup {Nobody}, outcome : Outcomes],
         e.op = "stage" => e.ticker \in Tickers,
         run' \in Runs \cup {Nobody}, p = "calibrate" => run' # Nobody,
         e.op = "begin" \/ run' = run, todo' \subseteq Tickers,
         UNCHANGED <<params, holder, copy, volumes>>
  PROVE  ParInv'
<1>1. /\ turn[p] = Ready /\ turn' = [turn EXCEPT ![p] = "wait"]
      /\ edit' = [edit EXCEPT ![p] = e]
  BY DEF Want
<1>2. /\ turn \in [Writers -> {Ready, "wait", "locked", "rename"}]
      /\ edit \in [Writers -> [op : {"none", "volumes", "begin", "stage", "promote"},
                               ticker : Tickers \cup {Nobody}, outcome : Outcomes]]
  BY DEF ParInv, ParTypeOK
<1>3. e \in [op : {"none", "volumes", "begin", "stage", "promote"},
             ticker : Tickers \cup {Nobody}, outcome : Outcomes]
  BY DEF Ops
<1>4. ParTypeOK'
  BY <1>1, <1>2, <1>3 DEF ParInv, ParTypeOK
<1>5. /\ turn'[p] = "wait" /\ edit'[p] = e /\ e.op \in Ops(p)
      /\ \A q \in Writers : q # p => turn'[q] = turn[q] /\ edit'[q] = edit[q]
  BY <1>1, <1>2
<1>6. LockInv'
  BY <1>1, <1>5 DEF ParInv, LockInv, Locked, Ready
<1>7. EditInv'
  BY <1>5 DEF ParInv, EditInv
<1>8. RunInv'
  BY <1>1, <1>5 DEF ParInv, RunInv, Beginning, Ready, Ops, Writers
<1>9. QED BY <1>4, <1>6, <1>7, <1>8, SameFile DEF ParInv

LEMMA WantInv ==
  ASSUME ParInv,
         \/ WantVolumes \/ WantPromote
         \/ \E r \in Runs : StartRun(r)
         \/ \E t \in Tickers, o \in Outcomes : Fit(t, o)
  PROVE  ParInv'
<1> USE DEF Writers, Ops, Edits, Outcomes
<1>1. run \in Runs \cup {Nobody} /\ todo \subseteq Tickers
  BY DEF ParInv, ParTypeOK
<1>2. CASE WantVolumes
  BY <1>1, <1>2, Wanted DEF WantVolumes
<1>3. CASE WantPromote
  BY <1>1, <1>3, Wanted DEF WantPromote
<1>4. ASSUME NEW r \in Runs, StartRun(r)
      PROVE  ParInv'
  BY <1>4, Wanted, ParAssumption DEF StartRun
<1>5. ASSUME NEW t \in Tickers, NEW o \in Outcomes, Fit(t, o)
      PROVE  ParInv'
  BY <1>1, <1>5, Wanted DEF Fit
<1>6. QED BY <1>2, <1>3, <1>4, <1>5

LEMMA AcquireInv ==
  ASSUME ParInv, NEW p \in Writers, Acquire(p)
  PROVE  ParInv'
<1>1. /\ turn[p] = "wait" /\ holder = Nobody /\ holder' = p
      /\ turn' = [turn EXCEPT ![p] = "locked"]
      /\ UNCHANGED <<params, copy, edit, run, todo, volumes>>
  BY DEF Acquire
<1>2. turn \in [Writers -> {Ready, "wait", "locked", "rename"}]
  BY DEF ParInv, ParTypeOK
<1>3. ParTypeOK'
  BY <1>1, <1>2 DEF ParInv, ParTypeOK
<1>4. turn'[p] = "locked" /\ \A q \in Writers : q # p => turn'[q] = turn[q]
  BY <1>1, <1>2
<1>5. LockInv'
  BY <1>1, <1>4, ParAssumption DEF ParInv, LockInv, Locked
<1>6. EditInv' /\ RunInv'
  BY <1>1, <1>4 DEF ParInv, EditInv, RunInv, Beginning, Ready, Writers
<1>7. QED BY <1>1, <1>3, <1>5, <1>6, SameFile DEF ParInv

LEMMA ReadParamsInv ==
  ASSUME ParInv, NEW p \in Writers, ReadParams(p)
  PROVE  ParInv'
<1>1. /\ turn[p] = "locked" /\ copy' = [copy EXCEPT ![p] = params]
      /\ turn' = [turn EXCEPT ![p] = "rename"]
      /\ UNCHANGED <<params, holder, edit, run, todo, volumes>>
  BY DEF ReadParams
<1>2. /\ turn \in [Writers -> {Ready, "wait", "locked", "rename"}]
      /\ copy \in [Writers -> ParFiles] /\ params \in ParFiles
  BY DEF ParInv, ParTypeOK
<1>3. ParTypeOK'
  BY <1>1, <1>2 DEF ParInv, ParTypeOK
<1>4. /\ turn'[p] = "rename" /\ copy'[p] = params
      /\ \A q \in Writers : q # p => turn'[q] = turn[q] /\ copy'[q] = copy[q]
  BY <1>1, <1>2
<1>5. LockInv'
  BY <1>1, <1>4 DEF ParInv, LockInv, Locked
<1>6. EditInv' /\ RunInv'
  BY <1>1, <1>4 DEF ParInv, EditInv, RunInv, Beginning, Ready, Writers
<1>7. QED BY <1>1, <1>3, <1>5, <1>6, SameFile DEF ParInv

(* A program ends without having changed the file.                         *)
LEMMA GivesUp ==
  ASSUME ParInv, NEW p \in Writers, Over(p), EndRun(p), UNCHANGED <<params, volumes>>,
         NEW c \in ParFiles, copy' \in {copy, [copy EXCEPT ![p] = c]},
         holder' = IF holder = p THEN Nobody ELSE holder
  PROVE  ParInv'
<1>1. /\ turn' = [turn EXCEPT ![p] = Ready] /\ edit' = [edit EXCEPT ![p].op = "none"]
      /\ run' = IF p = "calibrate" THEN Nobody ELSE run
      /\ todo' = IF p = "calibrate" THEN {} ELSE todo
  BY DEF Over, EndRun
<1>2. /\ turn \in [Writers -> {Ready, "wait", "locked", "rename"}]
      /\ copy \in [Writers -> ParFiles]
      /\ edit \in [Writers -> [op : {"none", "volumes", "begin", "stage", "promote"},
                               ticker : Tickers \cup {Nobody}, outcome : Outcomes]]
      /\ run \in Runs \cup {Nobody} /\ todo \subseteq Tickers
      /\ holder \in Writers \cup {Nobody}
  BY DEF ParInv, ParTypeOK
<1>3. /\ turn' \in [Writers -> {Ready, "wait", "locked", "rename"}]
      /\ copy' \in [Writers -> ParFiles]
      /\ run' \in Runs \cup {Nobody} /\ todo' \subseteq Tickers
      /\ holder' \in Writers \cup {Nobody}
  BY <1>1, <1>2
<1>4. edit' \in [Writers -> [op : {"none", "volumes", "begin", "stage", "promote"},
                             ticker : Tickers \cup {Nobody}, outcome : Outcomes]]
  BY <1>1, <1>2
<1>5. ParTypeOK'
  BY <1>3, <1>4 DEF ParInv, ParTypeOK
<1>6. /\ turn'[p] = Ready /\ edit'[p].op = "none"
      /\ \A q \in Writers : q # p => /\ turn'[q] = turn[q] /\ edit'[q] = edit[q]
                                     /\ copy'[q] = copy[q]
  BY <1>1, <1>2
<1>7. LockInv'
  BY <1>6, ParAssumption DEF ParInv, LockInv, Locked, Ready
<1>8. EditInv'
  BY <1>6 DEF ParInv, EditInv
<1>9. RunInv'
  BY <1>1, <1>6 DEF ParInv, RunInv, Beginning, Writers
<1>10. QED BY <1>5, <1>7, <1>8, <1>9, SameFile DEF ParInv

(* What each change leaves in the file it is applied to.                   *)
Sound(f) ==
  /\ f \in ParFiles
  /\ Cardinality(RunsIn(f.renko_k)) <= 1
  /\ \A t \in Tickers : f.staged[t] \in {f.staged_run, Nobody}

LEMMA VolumesSound ==
  ASSUME NEW f, Sound(f), NEW g, g = [f EXCEPT !.pair_volumes = @ + 1]
  PROVE  Sound(g) /\ g.pair_volumes = f.pair_volumes + 1 /\ g.staged_run = f.staged_run
BY DEF Sound, ParFiles

LEMMA BeginSound ==
  ASSUME NEW f, Sound(f), NEW r \in Runs, NEW g, g = Begin(f, r)
  PROVE  Sound(g) /\ g.pair_volumes = f.pair_volumes /\ g.staged_run = r
<1> DEFINE none == [t \in Tickers |-> Nobody]
<1>1. none \in FitMaps
  BY DEF FitMaps
<1>2. /\ g \in ParFiles /\ g.pair_volumes = f.pair_volumes /\ g.staged_run = r
      /\ g.renko_k = f.renko_k
      /\ g.staged = IF f.staged_run = r THEN f.staged ELSE none
  BY <1>1 DEF Begin, Sound, ParFiles
<1>3. QED BY <1>2 DEF Sound

LEMMA CountedOK ==
  ASSUME NEW n \in 0 .. MaxFails, NEW o \in Outcomes
  PROVE  Counted(n, o) \in 0 .. MaxFails
BY ParAssumption DEF Counted, Outcomes

LEMMA StageSound ==
  ASSUME NEW f, Sound(f), NEW r \in Runs, f.staged_run = r,
         NEW t \in Tickers, NEW o \in Outcomes, NEW g, g = Stage(f, r, t, o)
  PROVE  Sound(g) /\ g.pair_volumes = f.pair_volumes /\ g.staged_run = r
<1> DEFINE fit == IF o = "ok" THEN r ELSE Nobody
           new == Counted(f.failures[t], o)
<1>1. f \in ParFiles /\ f.staged \in FitMaps /\ f.failures \in [Tickers -> 0 .. MaxFails]
  BY DEF Sound, ParFiles
<1>2. fit \in {r, Nobody} /\ new \in 0 .. MaxFails
  BY <1>1, CountedOK
<1>3. g = [[f EXCEPT !.staged = [f.staged EXCEPT ![t] = fit]]
              EXCEPT !.failures = [f.failures EXCEPT ![t] = new]]
  BY <1>1 DEF Stage, ParFiles
<1>4. /\ [f.staged EXCEPT ![t] = fit] \in FitMaps
      /\ [f.failures EXCEPT ![t] = new] \in [Tickers -> 0 .. MaxFails]
  BY <1>1, <1>2 DEF FitMaps
<1> HIDE DEF fit, new
<1>5. /\ g \in ParFiles /\ g.pair_volumes = f.pair_volumes /\ g.staged_run = r
      /\ g.renko_k = f.renko_k /\ g.staged = [f.staged EXCEPT ![t] = fit]
  BY <1>1, <1>3, <1>4 DEF ParFiles
<1>6. \A u \in Tickers : g.staged[u] \in {r, Nobody}
  BY <1>1, <1>2, <1>5 DEF Sound, FitMaps
<1>7. QED BY <1>5, <1>6 DEF Sound

LEMMA PromoteSound ==
  ASSUME NEW f, Sound(f), NEW r \in Runs, NEW g, g = Promote(f, r)
  PROVE  Sound(g) /\ g.pair_volumes = f.pair_volumes
<1> DEFINE none == [t \in Tickers |-> Nobody]
<1>1. none \in FitMaps
  BY DEF FitMaps
<1>2. /\ g \in ParFiles /\ g.pair_volumes = f.pair_volumes
      /\ g.renko_k = f.staged /\ g.staged = none
  BY <1>1 DEF Promote, Sound, ParFiles
<1>3. Cardinality(RunsIn(g.renko_k)) <= 1
  BY <1>2, OneRun DEF Sound
<1>4. QED BY <1>2, <1>3 DEF Sound

(* The rename replaces the file as it is, not as it was.                   *)
LEMMA RenameInv ==
  ASSUME ParInv, NEW p \in Writers, Rename(p)
  PROVE  ParInv'
<1> DEFINE op == edit[p].op
<1>1. /\ turn[p] = "rename" /\ copy[p] = params /\ op \in Ops(p) /\ holder = p
      /\ op = "stage" => edit[p].ticker \in Tickers
      /\ p = "calibrate" => run \in Runs
      /\ op \in {"stage", "promote"} => params.staged_run = run
      /\ edit[p].outcome \in Outcomes
  BY DEF Rename, ParInv, LockInv, EditInv, RunInv, Beginning, Locked, Ops, Writers, Ready, ParTypeOK
<1>2. Sound(params) /\ params.pair_volumes = volumes
  BY DEF ParInv, ParTypeOK, NothingReverted, Sound
<1>3. /\ params' = Changed(params, edit[p]) /\ Over(p)
      /\ volumes' = IF op = "volumes" THEN volumes + 1 ELSE volumes
      /\ copy' = [copy EXCEPT ![p] = NoParams] /\ holder' = Nobody
      /\ IF op = "promote" THEN EndRun(p) ELSE UNCHANGED <<run, todo>>
  BY <1>1 DEF Rename, Unlocked
<1>4. /\ Sound(params') /\ params'.pair_volumes = volumes'
      /\ p = "weights" => params'.staged_run = params.staged_run
      /\ op \in {"begin", "stage"} => params'.staged_run = run
  <2>1. CASE p = "weights"
    BY <1>1, <1>2, <1>3, <2>1, VolumesSound DEF Changed, Ops
  <2>2. CASE p = "calibrate" /\ op = "begin"
    BY <1>1, <1>2, <1>3, <2>2, BeginSound DEF Changed, Ops
  <2>3. CASE p = "calibrate" /\ op = "stage"
    BY <1>1, <1>2, <1>3, <2>3, StageSound DEF Changed, Ops
  <2>4. CASE p = "calibrate" /\ op = "promote"
    BY <1>1, <1>2, <1>3, <2>4, PromoteSound DEF Changed, Ops
  <2>5. QED BY <1>1, <2>1, <2>2, <2>3, <2>4 DEF Ops, Writers
<1>5. NothingReverted'
  BY <1>4 DEF Sound, NothingReverted
<1>6. /\ turn' = [turn EXCEPT ![p] = Ready] /\ edit' = [edit EXCEPT ![p].op = "none"]
  BY <1>3 DEF Over
<1>7. /\ turn \in [Writers -> {Ready, "wait", "locked", "rename"}]
      /\ copy \in [Writers -> ParFiles]
      /\ edit \in [Writers -> [op : {"none", "volumes", "begin", "stage", "promote"},
                               ticker : Tickers \cup {Nobody}, outcome : Outcomes]]
      /\ run \in Runs \cup {Nobody} /\ todo \subseteq Tickers /\ volumes \in Nat
  BY DEF ParInv, ParTypeOK
<1>8. /\ run' = IF op = "promote" /\ p = "calibrate" THEN Nobody ELSE run
      /\ todo' = IF op = "promote" /\ p = "calibrate" THEN {} ELSE todo
  BY <1>3 DEF EndRun
<1>9. ParTypeOK'
  <2>1. /\ turn' \in [Writers -> {Ready, "wait", "locked", "rename"}]
        /\ copy' \in [Writers -> ParFiles]
        /\ run' \in Runs \cup {Nobody} /\ todo' \subseteq Tickers /\ volumes' \in Nat
    BY <1>3, <1>6, <1>7, <1>8, NoParamsOK
  <2>2. edit' \in [Writers -> [op : {"none", "volumes", "begin", "stage", "promote"},
                               ticker : Tickers \cup {Nobody}, outcome : Outcomes]]
    BY <1>6, <1>7
  <2>3. QED BY <1>3, <1>4, <2>1, <2>2 DEF Sound, ParTypeOK
<1>10. /\ turn'[p] = Ready /\ edit'[p].op = "none"
       /\ \A q \in Writers : q # p => /\ turn'[q] = turn[q] /\ edit'[q] = edit[q]
                                      /\ copy'[q] = copy[q]
  BY <1>3, <1>6, <1>7
<1>11. LockInv'
  BY <1>1, <1>3, <1>10, ParAssumption DEF ParInv, LockInv, Locked, Ready
<1>12. EditInv'
  BY <1>10 DEF ParInv, EditInv
<1>13. RunInv'
  <2>1. CASE p = "weights"
    BY <1>4, <1>8, <1>10, <2>1 DEF ParInv, RunInv, Beginning, Writers
  <2>2. CASE p = "calibrate"
    BY <1>1, <1>4, <1>8, <1>10, <2>2 DEF RunInv, Ops
  <2>3. QED BY <2>1, <2>2 DEF Writers
<1>14. QED BY <1>5, <1>9, <1>11, <1>12, <1>13 DEF ParInv

LEMMA ParNextInv == ParInv /\ [ParNext]_parVars => ParInv'
<1> SUFFICES ASSUME ParInv, [ParNext]_parVars
             PROVE  ParInv'
  OBVIOUS
<1>1. CASE UNCHANGED parVars
  BY <1>1 DEF parVars, ParInv, ParTypeOK, LockInv, EditInv, RunInv, Locked, Beginning,
              NothingReverted, RunsIn
<1>2. ASSUME NEW p \in Writers, AcquireTimesOut(p)
      PROVE  ParInv'
  <2>1. holder # p /\ holder' = holder /\ copy' = copy
    BY <1>2 DEF AcquireTimesOut
  <2>2. QED BY <1>2, <2>1, GivesUp, NoParamsOK DEF AcquireTimesOut
<1>3. ASSUME NEW p \in Writers, Kill(p)
      PROVE  ParInv'
  BY <1>3, GivesUp, NoParamsOK DEF Kill, Unlocked
<1>4. QED BY <1>1, <1>2, <1>3, WantInv, AcquireInv, ReadParamsInv, RenameInv DEF ParNext

(* weights_schema.rs: who is past the lock holds it and has the file as it *)
(* is, whoever was killed or timed out before.                             *)
THEOREM LockedFileIsCurrent == ParSpec => []ParInv
BY ParInitInv, ParNextInv, PTL DEF ParSpec

(* weights_schema.rs:14: neither writer reverts the other, and the live    *)
(* map is never a mixture of runs, for any number of tickers and runs.     *)
THEOREM NoEditReverted == ParSpec => []NothingReverted
<1>1. ParInv => NothingReverted
  BY DEF ParInv
<1>2. QED BY <1>1, LockedFileIsCurrent, PTL

-----------------------------------------------------------------------------
(* The memory guard (MemoryGuard).                                         *)

LEMMA HostTypes ==
  ASSUME NEW h \in Hosts
  PROVE  /\ h.cgroup = None \/ (h.cgroup # None /\ h.cgroup[1] \in Nat)
         /\ h.physical = None \/ (h.physical # None /\ h.physical[1] \in Nat)
         /\ h.available = None \/ (h.available # None /\ h.available[1] \in Nat)
         /\ h.requested = None \/ (h.requested # None /\ h.requested[1] \in Nat)
         /\ h.hard \in {None, <<12>>}
<1>1. /\ h.cgroup \in Cgroup /\ h.physical \in Physical /\ h.available \in Available
      /\ h.requested \in Requested /\ h.hard \in {None, <<12>>}
  BY DEF Hosts
<1>2. Probe(h.cgroup) /\ Probe(h.physical) /\ Probe(h.available) /\ Probe(h.requested)
  BY <1>1, MemAssumption
<1>3. QED BY <1>1, <1>2 DEF Probe

LEMMA ShareOf ==
  ASSUME NEW n \in Nat, NEW percent \in {60, 90}
  PROVE  Share(n, percent) \in Nat /\ Share(n, percent) <= n
<1>1. CASE percent = 60
  BY <1>1 DEF Share
<1>2. CASE percent = 90
  BY <1>2 DEF Share
<1>3. QED BY <1>1, <1>2

(* The cap is the tightest of what the host allows, or the floor.          *)
LEMMA CapFits ==
  ASSUME NEW h \in Hosts
  PROVE  /\ Tightest(h) \in Nat /\ DefaultCap(h) \in Nat /\ MinCap <= DefaultCap(h)
         /\ CgroupLimit(h) # None => Tightest(h) <= h.cgroup[1] /\ h.cgroup[1] \in Nat
         /\ DefaultCap(h) <= Tightest(h) \/ DefaultCap(h) = MinCap
         /\ Asked(h) # None => \/ DefaultCap(h) <= Lesser(Asked(h)[1], Tightest(h))
                               \/ DefaultCap(h) = MinCap
<1>1. PhysicalCap(h) \in Nat
  BY HostTypes, ShareOf DEF PhysicalCap, FallbackCap
<1>2. Some(AvailableCap(h), PhysicalCap(h)) \in Nat
  <2>1. CASE h.available = None
    BY <1>1, <2>1 DEF AvailableCap, Some
  <2>2. CASE h.available # None
    <3>1. Share(h.available[1], 60) \in Nat
      BY <2>2, HostTypes, ShareOf
    <3>2. AvailableCap(h) = <<Share(h.available[1], 60)>> /\ AvailableCap(h) # None
      BY <2>2 DEF AvailableCap, None
    <3>3. QED BY <3>1, <3>2 DEF Some
  <2>3. QED BY <2>1, <2>2
<1> DEFINE a == Lesser(PhysicalCap(h), Some(AvailableCap(h), PhysicalCap(h)))
<1>3. a \in Nat
  BY <1>1, <1>2 DEF Lesser
<1>4. Tightest(h) = Lesser(a, Some(CgroupCap(h), a))
  BY DEF Tightest
<1> HIDE DEF a
<1>5. /\ Tightest(h) \in Nat
      /\ CgroupLimit(h) # None => Tightest(h) <= h.cgroup[1] /\ h.cgroup[1] \in Nat
  <2>1. CASE CgroupLimit(h) = None
    BY <1>3, <1>4, <2>1 DEF CgroupCap, Some, Lesser
  <2>2. CASE CgroupLimit(h) # None
    <3>1. h.cgroup[1] \in Nat
      BY <2>2, HostTypes DEF CgroupLimit
    <3>2. Share(h.cgroup[1], 90) \in Nat /\ Share(h.cgroup[1], 90) <= h.cgroup[1]
      BY <3>1, ShareOf
    <3>3. Some(CgroupCap(h), a) = Share(h.cgroup[1], 90)
      BY <2>2 DEF CgroupCap, Some, None
    <3>4. QED BY <1>3, <1>4, <3>1, <3>2, <3>3 DEF Lesser
  <2>3. QED BY <2>1, <2>2
<1>6. Asked(h) # None => Asked(h)[1] \in Nat
  BY HostTypes DEF Asked
<1>7. Some(Asked(h), Tightest(h)) \in Nat
  BY <1>5, <1>6 DEF Some
<1> DEFINE c == Lesser(Tightest(h), Some(Asked(h), Tightest(h)))
<1>8. /\ c \in Nat /\ c <= Tightest(h)
      /\ Asked(h) # None => c = Lesser(Asked(h)[1], Tightest(h))
  BY <1>5, <1>6, <1>7 DEF Lesser, Some
<1>9. DefaultCap(h) = IF c < MinCap THEN MinCap ELSE c
  BY DEF DefaultCap
<1> HIDE DEF c
<1>10. DefaultCap(h) \in Nat /\ MinCap <= DefaultCap(h) /\ (DefaultCap(h) = MinCap \/ DefaultCap(h) = c)
  BY <1>8, <1>9 DEF MinCap
<1>11. QED BY <1>5, <1>8, <1>10

LEMMA MemNextInv == MemInv /\ [MemNext]_memVars => MemInv'
<1> SUFFICES ASSUME MemInv, [MemNext]_memVars PROVE MemInv'
  OBVIOUS
<1> DEFINE d == DefaultCap(host)
<1>1. /\ host \in Hosts /\ rss \in Nat /\ fate \in {"runs", "failed", "aborted", "oom_killed"}
      /\ cap = None => limit = None
      /\ cap # None => cap = <<d>> /\ limit = ApplyRlimit(d, host)
      /\ GuardFirst /\ MaxGrowth \in Nat
  BY MemAssumption DEF MemInv, MemTypeOK
<1>2. /\ d \in Nat /\ MinCap <= d
      /\ CgroupLimit(host) # None => Tightest(host) <= host.cgroup[1] /\ host.cgroup[1] \in Nat
      /\ d <= Tightest(host) \/ d = MinCap
      /\ Asked(host) # None => d <= Lesser(Asked(host)[1], Tightest(host)) \/ d = MinCap
      /\ Tightest(host) \in Nat
  BY <1>1, CapFits
<1>3. d' = DefaultCap(host')
  OBVIOUS
<1>4. host' = host
  BY DEF MemNext, memVars, ApplySafeCap, AllocationFails, Free, Watchdog, Grow
<1>5. d' = d
  BY <1>3, <1>4
<1> HIDE DEF d
<1>6. ASSUME rss' \in Nat, fate' \in {"runs", "failed", "aborted", "oom_killed"},
             \/ cap' = cap /\ limit' = limit
             \/ cap' = <<d>> /\ limit' = ApplyRlimit(d, host),
             fate' = "oom_killed" => ~host.sticks \/ host.cgroup[1] < MinCap
      PROVE  MemInv'
  <2>1. \/ cap' = None /\ limit' = None
        \/ cap' = <<d>> /\ cap' # None /\ limit' = ApplyRlimit(d, host)
    <3>1. <<d>> # None
      BY DEF None
    <3>2. CASE cap' = cap /\ limit' = limit
      <4>1. CASE cap = None
        BY <1>1, <3>2, <4>1
      <4>2. CASE cap # None
        BY <1>1, <3>2, <4>2
      <4>3. QED BY <4>1, <4>2
    <3>3. CASE cap' = <<d>> /\ limit' = ApplyRlimit(d, host)
      BY <3>1, <3>3
    <3>4. QED BY <1>6, <3>2, <3>3
  <2>2. cap' = None \/ cap'[1] = d
    BY <2>1
  <2>3. MemTypeOK'
    BY <1>2, <1>6, <2>2 DEF MemTypeOK
  <2>4. GuardFirst'
    BY <1>2, <1>4, <1>6, <2>2 DEF GuardFirst, Asked, Tightest
  <2>5. QED BY <1>1, <1>4, <1>5, <1>6, <2>1, <2>3, <2>4 DEF MemInv, d
<1>7. CASE UNCHANGED memVars
  BY <1>1, <1>6, <1>7 DEF memVars, GuardFirst
<1>8. CASE ApplySafeCap
  BY <1>1, <1>6, <1>8 DEF ApplySafeCap, GuardFirst, d
<1>9. CASE AllocationFails \/ Watchdog
  BY <1>1, <1>6, <1>9 DEF AllocationFails, Watchdog
<1>10. CASE Free
  BY <1>1, <1>6, <1>10 DEF Free
<1>11. ASSUME NEW n \in {1, MaxGrowth}, Grow(n)
       PROVE  MemInv'
  <2>1. /\ rss' = rss + n /\ n \in Nat /\ fate = "runs" /\ cap # None /\ cap' = cap /\ limit' = limit
        /\ fate' = IF CgroupLimit(host) # None /\ rss + n > host.cgroup[1] THEN "oom_killed" ELSE fate
        /\ limit # None => rss + n <= limit[1]
    BY <1>1, <1>11 DEF Grow, Fits
  <2>2. ASSUME fate' = "oom_killed", host.sticks
        PROVE  host.cgroup[1] < MinCap
    <3>1. CgroupLimit(host) # None /\ rss + n > host.cgroup[1] /\ host.cgroup[1] \in Nat
      BY <1>2, <2>1, <2>2
    <3>2. limit # None /\ limit[1] <= d
      <4>1. Some(host.hard, d) \in Nat
        BY <1>1, <1>2, HostTypes DEF Some, None
      <4>2. limit = <<Lesser(d, Some(host.hard, d))>>
        BY <1>1, <2>1, <2>2 DEF ApplyRlimit
      <4>3. Lesser(d, Some(host.hard, d)) <= d
        BY <1>2, <4>1 DEF Lesser
      <4>4. QED BY <4>2, <4>3 DEF None
    <3>3. rss + n <= d
      <4>1. limit[1] \in Nat
        <5>1. Some(host.hard, d) \in Nat
          BY <1>1, <1>2, HostTypes DEF Some, None
        <5>2. limit = <<Lesser(d, Some(host.hard, d))>>
          BY <1>1, <2>1, <2>2 DEF ApplyRlimit
        <5>3. QED BY <1>2, <5>1, <5>2 DEF Lesser
      <4>2. QED BY <1>1, <1>2, <2>1, <3>2, <4>1
    <3>4. QED BY <1>1, <1>2, <2>1, <3>1, <3>3 DEF MinCap
  <2>3. rss' \in Nat /\ fate' \in {"runs", "failed", "aborted", "oom_killed"}
    BY <1>1, <2>1
  <2>4. QED BY <1>6, <2>1, <2>2, <2>3
<1>12. QED BY <1>7, <1>8, <1>9, <1>10, <1>11 DEF MemNext

LEMMA MemInitInv == MemInit => MemInv
  BY DEF MemInit, MemInv, MemTypeOK, GuardFirst

(* memory.rs:243: on every host the request of an operator is an upper     *)
(* bound of the cap or the cap is its floor; and where the limit sticks    *)
(* and the container has room for the floor, the kernel kills nobody.      *)
THEOREM GuardComesFirst == MemSpec => []GuardFirst
<1>1. MemInit => MemInv
  BY MemInitInv
<1>2. MemInv => GuardFirst
  BY DEF MemInv
<1>3. QED BY <1>1, <1>2, MemNextInv, PTL DEF MemSpec
-----------------------------------------------------------------------------
(* The configuration of a process (PipelineConfig).                        *)

LEMMA OptTypes ==
  /\ \A o, d : OptNat(o) /\ d \in Nat => OrElse(o, d) \in Nat
  /\ \A o \in Opt(EnvIntervals) : OptNat(o)
BY CfgAssumption DEF OptNat, OrElse, Opt

LEMMA IntervalTypes ==
  ASSUME NEW y, FileTyped(y)
  PROVE  OptNat(YamlInterval(y)) /\ OptNat(YamlSigning(y))
BY DEF FileTyped, YamlInterval, YamlSigning, OptNat

LEMMA CfgInitInv == CfgInit => CfgInv
  BY CfgAssumption DEF CfgInit, CfgInv, CfgTypeOK

(* The cadence of a process is resolved once, against its environment.     *)
LEMMA ResolveInv ==
  ASSUME CfgInv, ResolveIntervals
  PROVE  CfgInv'
<1> DEFINE y == YamlInterval(file)
           agg == AggregationInterval(env_interval, y)
           sig == SigningInterval(YamlSigning(file), agg)
<1>1. OptNat(y) /\ OptNat(YamlSigning(file)) /\ OptNat(env_interval)
  BY IntervalTypes, OptTypes DEF CfgInv, CfgTypeOK
<1>2. agg \in Nat
  BY <1>1, OptTypes, CfgAssumption DEF AggregationInterval
<1>3. sig \in Nat
  BY <1>1, <1>2, OptTypes DEF SigningInterval
<1>4. env_interval # <<>> => agg = env_interval[1]
  BY DEF ResolveIntervals, Reconciles, AggregationInterval, OrElse
<1>5. cadence' = <<agg, sig>> /\ SigningIntervalValid(sig, agg)
  BY DEF ResolveIntervals
<1> HIDE DEF agg, sig, y
<1>6. cadence'[1] = agg /\ cadence'[2] = sig /\ cadence' \in Nat \X Nat
  BY <1>2, <1>3, <1>5
<1>7. UNCHANGED <<file, verdict, running, policy, env_interval>>
  BY DEF ResolveIntervals
<1>8. QED BY <1>4, <1>5, <1>6, <1>7 DEF CfgInv, CfgTypeOK, SigningIntervalValid

LEMMA CfgNextInv == CfgInv /\ [CfgNext]_cfgVars => CfgInv'
<1> SUFFICES ASSUME CfgInv, [CfgNext]_cfgVars
             PROVE  CfgInv'
  OBVIOUS
<1> USE DEF CfgInv, CfgTypeOK
<1>1. ASSUME NEW y \in Replacements, WriteFile(y) PROVE CfgInv'
  BY <1>1, CfgAssumption DEF WriteFile, SigningIntervalValid
<1>2. CASE CheckConfig
  BY <1>2 DEF CheckConfig, SigningIntervalValid
<1>3. CASE ResolveIntervals
  BY <1>3, ResolveInv
<1>4. CASE Boot
  <2>1. running' = <<file>> /\ policy' = <<file.storage>> /\ Accepted(file)
    BY <1>4 DEF Boot, CanInstall
  <2>2. running'[1] = file /\ policy'[1] = file.storage
    BY <2>1
  <2>3. UNCHANGED <<file, verdict, cadence, env_interval>>
    BY <1>4 DEF Boot
  <2>4. QED BY <2>1, <2>2, <2>3 DEF SigningIntervalValid
<1>5. CASE StoragePolicy
  <2>1. policy' = <<file.storage>> /\ policy'[1] = file.storage /\ policy = <<>>
    BY <1>5 DEF StoragePolicy
  <2>2. UNCHANGED <<file, verdict, running, cadence, env_interval>>
    BY <1>5 DEF StoragePolicy
  <2>3. running = <<>>
    BY <2>1
  <2>4. QED BY <2>1, <2>2, <2>3 DEF SigningIntervalValid
<1>6. CASE Exit
  BY <1>6 DEF Exit
<1>7. CASE UNCHANGED cfgVars
  BY <1>7 DEF cfgVars, SigningIntervalValid
<1>8. QED BY <1>1, <1>2, <1>3, <1>4, <1>5, <1>6, <1>7 DEF CfgNext

(* shard.rs:1131: "a denomination names directories, so it is fixed for    *)
(* the process"; config.rs: the cadence is the one the environment names,  *)
(* and whole in signing ticks.                                             *)
LEMMA InvOnePolicy == CfgInv => OnePolicy
  BY DEF CfgInv, OnePolicy, SigningIntervalValid

-----------------------------------------------------------------------------
(* What a file that check accepts means.                                   *)

LEMMA Manifests == \A y : ManifestsPartition(y)
<1> SUFFICES ASSUME NEW y PROVE ManifestsPartition(y)
  OBVIOUS
<1>1. ASSUME NEW s \in Declared(y) PROVE RelayProviders(y) # {}
  <2>1. CASE \E n \in DOMAIN y.oracles : TRUE
    BY <2>1 DEF RelayProviders
  <2>2. CASE \E n \in DOMAIN y.ctrader.providers : TRUE
    BY <2>2 DEF RelayProviders
  <2>3. CASE OnchainSymbols(y.onchain) # {}
    BY <2>3 DEF RelayProviders
  <2>4. QED BY <1>1, <2>1, <2>2, <2>3 DEF Declared
<1>2. ~y.onchain.enabled => OnchainSymbols(y.onchain) = {} /\ ~HasRateLegs(y.onchain)
  BY DEF OnchainSymbols, HasRateLegs
<1>3. QED BY <1>1, <1>2 DEF ManifestsPartition, ConfiguredSymbols, ConfiguredPerpSymbols,
                            RelayManifest, RelayProviders

LEMMA Coherent ==
  ASSUME NEW s, NEW listed, StorageValid(s, listed)
  PROVE  StorageCoherent(s)
<1>1. \A a \in Assets : StorageQuoteFor(s, a) \in Assets
  BY DEF StorageValid, StorageQuoteFor
<1>2. \A a, q : Orientation(s, a, q) = "direct" <=> a # q /\ q = StorageQuoteFor(s, a)
  BY DEF Orientation
<1>3. \A a, q : Orientation(s, a, q) = "inverted" =>
                  a # q /\ a = HubOf(s) /\ StorageQuoteFor(s, q) = HubOf(s)
  BY DEF Orientation
<1>4. ASSUME NEW a \in Assets, NEW q \in Assets, a # q,
             q = StorageQuoteFor(s, a), a = StorageQuoteFor(s, q)
      PROVE  ~PlainOverrides(s)
  BY <1>4 DEF PlainOverrides, StorageQuoteFor
<1>5. ASSUME NEW k, Len(k) = 1, StoragePair(s, k)[1] # StoragePair(s, k)[2]
      PROVE  Orientation(s, StoragePair(s, k)[1], StoragePair(s, k)[2]) = "direct"
  <2>1. StoragePair(s, k) = <<k[1], StorageQuoteFor(s, k[1])>>
    BY <1>5 DEF StoragePair
  <2>2. StoragePair(s, k)[1] = k[1] /\ StoragePair(s, k)[2] = StorageQuoteFor(s, k[1])
    BY <2>1
  <2>3. QED BY <1>2, <1>5, <2>2
<1>6. QED BY <1>1, <1>2, <1>3, <1>4, <1>5 DEF StorageCoherent

LEMMA Priors ==
  ASSUME NEW t, PriorsValid(t), NEW n \in DOMAIN t.providers, PriorWeightOf(t, n) # <<>>
  PROVE  0 < PriorWeightOf(t, n)[1] /\ PriorWeightOf(t, n)[1] <= 100
BY DEF PriorsValid, PriorWeightOf

(* One rule decides the layout of a domain, so the layouts partition them. *)
LEMMA OneFormat ==
  ASSUME NEW s
  PROVE  ParseFormat(s) \in Formats \cup {Refused} /\ Refused \notin Formats
BY DEF ParseFormat, Formats, Refused, Spelt

LEMMA SoleLabel ==
  ASSUME NEW S, IsFiniteSet(S), Cardinality(S) = 1
  PROVE  SetToSeq(S)[1] \in S
<1>1. PICK x : S = {x}
  BY FS_Singleton
<1>2. [i \in 1 .. 1 |-> x] \in [1 .. Cardinality(S) -> S] /\ IsInjective([i \in 1 .. 1 |-> x])
  BY <1>1 DEF IsInjective
<1>3. SetToSeq(S) \in [1 .. Cardinality(S) -> S]
  BY <1>2 DEF SetToSeq
<1>4. QED BY <1>3

LEMMA Partition ==
  ASSUME NEW q, SignedTyped(q)
  PROVE  FormatsPartition(q)
<1> DEFINE m == DomainMap(q)
           f(l) == RecordFormatFor(q, m[l])
<1>1. \A l : f(l) \in Formats \cup {Refused}
  BY OneFormat DEF RecordFormatFor
<1>2. IsFiniteSet(DOMAIN m)
  <2>1. CASE q.domains # <<>>
    BY <2>1 DEF DomainMap, SignedTyped
  <2>2. CASE q.domains = <<>> /\ q.oracle = <<>>
    BY <2>2 DEF DomainMap, SignedTyped
  <2>3. CASE q.domains = <<>> /\ q.oracle # <<>>
    <3>1. DOMAIN m = {"default"}
      BY <2>3 DEF DomainMap
    <3>2. QED BY <3>1, FS_Singleton
  <2>4. QED BY <2>1, <2>2, <2>3
<1>3. \A g : DomainsInFormat(q, g) = <<>> <=> \E l \in DOMAIN m : f(l) = Refused
  BY DEF DomainsInFormat
<1>4. ASSUME \A l \in DOMAIN m : f(l) # Refused, NEW l \in DOMAIN m
      PROVE  Cardinality({g \in Formats : l \in DomainsInFormat(q, g)[1]}) = 1
  <2>1. \A g : DomainsInFormat(q, g) = <<{k \in DOMAIN m : f(k) = g}>>
    BY <1>4 DEF DomainsInFormat
  <2>2. \A g : DomainsInFormat(q, g)[1] = {k \in DOMAIN m : f(k) = g}
    BY <2>1
  <2>3. {g \in Formats : l \in DomainsInFormat(q, g)[1]} = {f(l)}
    BY <1>1, <1>4, <2>2
  <2>4. QED BY <2>3, FS_Singleton
<1>5. ASSUME Cardinality(DOMAIN m) = 1, q.default = <<>>
      PROVE  DefaultDomainLabel(q)[1] \in DOMAIN m
  BY <1>2, <1>5, SoleLabel DEF DefaultDomainLabel
<1>6. \E g : g \in Formats
  BY DEF Formats
<1>7. QED BY <1>3, <1>4, <1>5, <1>6 DEF FormatsPartition

LEMMA WindowTypes ==
  ASSUME NEW q, SignedTyped(q)
  PROVE  SigmaWindows(q) \in Seq(Nat)
<1>1. CASE q.windows # <<>>
  BY <1>1 DEF SigmaWindows, SignedTyped
<1>2. CASE q.windows = <<>> /\ q.lookback # <<>>
  <2>1. AtLeast1(q.lookback[1]) * 30 \in Nat
    BY <1>2 DEF SignedTyped, OptNat, AtLeast1
  <2>2. QED BY <1>2, <2>1 DEF SigmaWindows
<1>3. CASE q.windows = <<>> /\ q.lookback = <<>>
  BY <1>3 DEF SigmaWindows, DefaultWindows
<1>4. QED BY <1>1, <1>2, <1>3

LEMMA Legs ==
  ASSUME NEW q, SignedTyped(q)
  PROVE  LegsResolve(q)
<1> SUFFICES ASSUME NEW i \in DOMAIN q.feeds
             PROVE  LET legs == ResolveSigmaLegs(SigmaWindows(q), q.feeds[i]) IN
                    /\ Len(legs) = Len(SigmaWindows(q))
                    /\ ~HasLegOverrides(q.feeds[i]) =>
                         \A j \in DOMAIN legs : legs[j].width = 30 /\ legs[j].estimator = "parkinson"
                    /\ StaleSigmaAlias(q) => \A j \in DOMAIN legs : legs[j].window = q.windows[1][j]
  BY DEF LegsResolve
<1> DEFINE ws == SigmaWindows(q)
           legs == ResolveSigmaLegs(ws, q.feeds[i])
<1>1. ws \in Seq(Nat) /\ DOMAIN ws = 1 .. Len(ws) /\ Len(ws) \in Nat
  BY WindowTypes
<1>2. DOMAIN legs = 1 .. Len(ws)
  BY <1>1 DEF ResolveSigmaLegs
<1>3. Len(legs) = Len(ws)
  BY <1>1, <1>2, LenProperties DEF ResolveSigmaLegs
<1>4. \A j \in DOMAIN legs : /\ legs[j].window = ws[j]
                             /\ legs[j].width = At(q.feeds[i].bar_min, j, 30)
                             /\ legs[j].estimator = At(q.feeds[i].estimators, j, "parkinson")
  BY DEF ResolveSigmaLegs
<1>5. StaleSigmaAlias(q) => ws = q.windows[1]
  BY DEF StaleSigmaAlias, SigmaWindows
<1>6. QED BY <1>3, <1>4, <1>5 DEF HasLegOverrides, At

(* Whole days, rounded up, of what fits their u16.                         *)
WholeDays(bars) == (bars * 30 + 1439) \div 1440

LEMMA DaysNat == Days16 \in Nat
  BY DEF Days16

LEMMA RoundUp ==
  ASSUME NEW x \in Nat
  PROVE  /\ (x + 1439) \div 1440 \in Nat
         /\ ((x + 1439) \div 1440) * 1440 >= x /\ ((x + 1439) \div 1440) * 1440 < x + 1440
<1> DEFINE y == x + 1439
           d == y \div 1440
<1>1. y \in Int
  OBVIOUS
<1>2. d \in Int /\ y % 1440 \in 0 .. 1439 /\ y = 1440 * d + (y % 1440)
  BY <1>1, DivSplit
<1> HIDE DEF d
<1>3. d \in Nat /\ d * 1440 >= x /\ d * 1440 < x + 1440
  BY <1>2
<1>4. QED BY <1>3 DEF d

LEMMA DaysFit ==
  ASSUME NEW n \in Nat
  PROVE  /\ WholeDays(n) \in Nat /\ WholeDays(n) * 1440 >= n * 30
         /\ n <= Days16 * 48 => WholeDays(n) <= Days16
<1> DEFINE d == WholeDays(n)
<1>1. n * 30 \in Nat
  OBVIOUS
<1>2. d \in Nat /\ d * 1440 >= n * 30 /\ d * 1440 < n * 30 + 1440
  BY <1>1, RoundUp DEF WholeDays
<1> HIDE DEF d
<1>3. n <= Days16 * 48 => d <= Days16
  BY <1>2, DaysNat
<1>4. QED BY <1>2, <1>3 DEF d

LEMMA DaysGrow ==
  ASSUME NEW n \in Nat, NEW m \in Nat, n <= m
  PROVE  WholeDays(n) <= WholeDays(m)
<1> DEFINE d == WholeDays(n)
           e == WholeDays(m)
<1>1. n * 30 \in Nat /\ m * 30 \in Nat
  OBVIOUS
<1>2. d \in Nat /\ e \in Nat /\ d * 1440 < n * 30 + 1440 /\ e * 1440 >= m * 30
  BY <1>1, RoundUp DEF WholeDays
<1> HIDE DEF d, e
<1>3. d * 1440 < e * 1440 + 1440
  BY <1>2
<1>4. d <= e
  BY <1>2, <1>3
<1>5. QED BY <1>4 DEF d, e

LEMMA BarsFit ==
  ASSUME NEW w \in Nat
  PROVE  /\ Bars(w, 30) \in Nat \ {0} /\ LegBars([window |-> w, width |-> 30]) = Bars(w, 30)
         /\ w <= Days16 * 1440 => Bars(w, 30) <= Days16 * 48
<1> DEFINE bars == w \div 30
<1>0. bars \in Int /\ w % 30 \in 0 .. 29 /\ w = 30 * bars + (w % 30)
  BY DivSplit
<1>1. bars \in Nat /\ 30 * bars <= w
  <2> HIDE DEF bars
  <2>1. QED BY <1>0
<1>2. AtLeast1(30) = 30 /\ Bars(w, 30) = AtLeast1(w \div 30)
  BY DEF Bars, AtLeast1
<1>3. LegBars([window |-> w, width |-> 30]) = AtLeast1(AtLeast1(w) \div 30)
  BY <1>2 DEF LegBars
<1>4. CASE w = 0
  <2>1. bars = 0
    <3> HIDE DEF bars
    <3>1. QED BY <1>1, <1>4
  <2>2. AtLeast1(w) = 1 /\ 1 \div 30 = 0 /\ AtLeast1(0) = 1
    BY <1>4 DEF AtLeast1
  <2>3. Bars(w, 30) = 1 /\ LegBars([window |-> w, width |-> 30]) = 1
    BY <1>2, <1>3, <2>1, <2>2
  <2>4. 1 <= Days16 * 48
    BY DEF Days16
  <2>5. QED BY <2>3, <2>4
<1>5. CASE w # 0
  <2>1. AtLeast1(w) = w
    BY <1>5 DEF AtLeast1
  <2>2. w <= Days16 * 1440 => bars <= Days16 * 48
    <3> HIDE DEF bars
    <3>1. QED BY <1>1, DaysNat
  <2>3. AtLeast1(bars) \in Nat \ {0} /\ (AtLeast1(bars) = bars \/ AtLeast1(bars) = 1)
    <3> HIDE DEF bars
    <3>1. QED BY <1>1 DEF AtLeast1
  <2>4. 1 <= Days16 * 48
    BY DEF Days16
  <2>5. LegBars([window |-> w, width |-> 30]) = Bars(w, 30) /\ Bars(w, 30) = AtLeast1(bars)
    BY <1>2, <1>3, <2>1
  <2> HIDE DEF bars
  <2>6. QED BY <2>2, <2>3, <2>4, <2>5
<1>6. QED BY <1>4, <1>5

LEMMA Sweep ==
  ASSUME NEW q, SignedTyped(q)
  PROVE  SweepSpares(q)
<1> DEFINE ws == SigmaWindows(q)
           Long(i) == Bars(ws[i], 30)
           Asked1(i) == OrElse(q.feeds[i].window_bars, 0)
           longest == MaxBars(ws, 30)
           widest == Max({0} \cup {Asked1(i) : i \in DOMAIN q.feeds})
           legs == MaxDays(ws, 30)
           scan == WholeDays(widest)
           kept == SweepBarsDays(q)
<1>1. ws \in Seq(Nat) /\ IsFiniteSet(DOMAIN ws) /\ \A i \in DOMAIN ws : ws[i] \in Nat
  BY WindowTypes, FS_Interval
<1>2. \A i \in DOMAIN q.feeds : Asked1(i) \in Nat
  BY OptTypes DEF SignedTyped
<1>3. IndexRetentionDays(q) \in Nat
  BY OptTypes DEF SignedTyped, IndexRetentionDays
<1>4. ASSUME NEW w \in Nat
      PROVE  /\ Bars(w, 30) \in Nat
             /\ w <= Days16 * 1440 => Bars(w, 30) <= Days16 * 48
             /\ LegBars([window |-> w, width |-> 30]) = Bars(w, 30)
  <2>1. Bars(w, 30) \in Nat \ {0} /\ LegBars([window |-> w, width |-> 30]) = Bars(w, 30)
    BY BarsFit
  <2>2. w <= Days16 * 1440 => Bars(w, 30) <= Days16 * 48
    BY BarsFit
  <2>3. QED BY <2>1, <2>2
<1>A. \A i \in DOMAIN ws : Long(i) \in Nat
  <2> HIDE DEF ws
  <2>1. QED BY <1>1, <1>4
<1>B. \A i \in DOMAIN ws : ws[i] <= Days16 * 1440 => Long(i) <= Days16 * 48
  <2> HIDE DEF ws
  <2>1. QED BY <1>1, <1>4
<1>C. \A i \in DOMAIN ws : LegBars([window |-> ws[i], width |-> 30]) = Long(i)
  <2> HIDE DEF ws
  <2>1. QED BY <1>1, <1>4
<1>5. /\ longest \in Nat /\ longest \in {0} \cup {Long(i) : i \in DOMAIN ws}
      /\ \A i \in DOMAIN ws : Long(i) <= longest
  <2> DEFINE f == [i \in DOMAIN ws |-> Long(i)]
  <2>1. f \in [DOMAIN ws -> Nat]
    BY <1>A
  <2>2. {f[i] : i \in DOMAIN ws} = {Long(i) : i \in DOMAIN ws} /\ \A i \in DOMAIN ws : f[i] = Long(i)
    OBVIOUS
  <2> HIDE DEF f
  <2>3. LET top == Max({0} \cup {f[i] : i \in DOMAIN ws})
        IN  /\ top \in Nat /\ top \in {0} \cup {f[i] : i \in DOMAIN ws}
            /\ \A i \in DOMAIN ws : f[i] <= top
    BY <1>1, <2>1, MaxRange
  <2>4. QED BY <2>2, <2>3 DEF MaxBars
<1>6. /\ widest \in Nat /\ widest \in {0} \cup {Asked1(i) : i \in DOMAIN q.feeds}
      /\ \A i \in DOMAIN q.feeds : Asked1(i) <= widest
  <2> DEFINE f == [i \in DOMAIN q.feeds |-> Asked1(i)]
  <2>1. f \in [DOMAIN q.feeds -> Nat] /\ IsFiniteSet(DOMAIN q.feeds)
    BY <1>2 DEF SignedTyped
  <2>2. {f[i] : i \in DOMAIN q.feeds} = {Asked1(i) : i \in DOMAIN q.feeds}
        /\ \A i \in DOMAIN q.feeds : f[i] = Asked1(i)
    OBVIOUS
  <2> HIDE DEF f
  <2>3. LET top == Max({0} \cup {f[i] : i \in DOMAIN q.feeds})
        IN  /\ top \in Nat /\ top \in {0} \cup {f[i] : i \in DOMAIN q.feeds}
            /\ \A i \in DOMAIN q.feeds : f[i] <= top
    BY <2>1, MaxRange
  <2>4. QED BY <2>2, <2>3
<1>7. legs = AtLeast1(WholeDays(longest)) /\ ScanDays(q) = Low16(scan)
  BY DEF MaxDays, AtLeast1, ScanDays, WholeDays
<1> HIDE DEF longest, widest
<1>8. legs \in Nat \ {0} /\ legs * 1440 >= longest * 30 /\ scan \in Nat
  <2>1. scan \in Nat
    BY <1>6, DaysFit
  <2> DEFINE d == WholeDays(longest)
  <2>2. d \in Nat /\ d * 1440 >= longest * 30 /\ legs = AtLeast1(d)
    BY <1>5, <1>7, DaysFit
  <2> HIDE DEF d, legs
  <2>3. QED BY <1>5, <2>1, <2>2 DEF AtLeast1
<1> HIDE DEF legs, scan
<1>9. BarsRetentionDays(q) = Sat16(Most(Low16(legs), Low16(scan)) + 1)
  BY <1>7 DEF BarsRetentionDays, legs
<1>10. Low16(legs) \in Nat /\ Low16(scan) \in Nat
  BY <1>8 DEF Low16
<1>11. BarsRetentionDays(q) \in Nat
  BY <1>9, <1>10 DEF Most, Sat16
<1>12. kept \in Nat /\ kept >= BarsRetentionDays(q)
       /\ (NodeRole(q) = "full" => kept >= IndexRetentionDays(q))
  BY <1>3, <1>11 DEF SweepBarsDays, Most
<1>13. ASSUME InDays16(q)
       PROVE  kept >= legs + 1 /\ kept >= scan + 1
  <2>1. \A i \in DOMAIN ws : Long(i) <= Days16 * 48
    BY <1>B, <1>13 DEF InDays16
  <2>2. longest <= Days16 * 48
    BY <1>5, <2>1, DaysNat
  <2>3. widest <= Days16 * 48
    BY <1>6, <1>13, DaysNat DEF InDays16
  <2>4. legs <= Days16 /\ scan <= Days16
    <3>1. scan <= Days16
      BY <1>6, <2>3, DaysFit DEF scan
    <3> DEFINE d == WholeDays(longest)
    <3>2. d \in Nat /\ d <= Days16 /\ legs = AtLeast1(d)
      BY <1>5, <1>7, <2>2, DaysFit
    <3> HIDE DEF d
    <3>3. 1 <= Days16
      BY DEF Days16
    <3>4. QED BY <3>1, <3>2, <3>3 DEF AtLeast1
  <2>5. Low16(legs) = legs /\ Low16(scan) = scan
    BY <1>8, <2>4, SMT DEF Low16, Days16
  <2>6. BarsRetentionDays(q) >= legs + 1 /\ BarsRetentionDays(q) >= scan + 1
    BY <1>8, <1>9, <2>4, <2>5, SMT DEF Most, Sat16, Days16
  <2>7. QED BY <1>8, <1>11, <1>12, <2>6
<1>14. ASSUME InDays16(q), NEW i \in DOMAIN ws
       PROVE  kept * 1440 >= LegBars([window |-> ws[i], width |-> 30]) * 30 + 1440
  <2>1. LegBars([window |-> ws[i], width |-> 30]) = Long(i) /\ Long(i) \in Nat /\ Long(i) <= longest
    BY <1>A, <1>C, <1>5, <1>14
  <2> HIDE DEF kept
  <2>2. Long(i) * 30 <= legs * 1440
    BY <1>5, <1>8, <2>1
  <2>3. QED BY <1>8, <1>12, <1>13, <1>14, <2>1, <2>2
<1>15. ASSUME InDays16(q), NEW i \in DOMAIN q.feeds
       PROVE  kept >= WholeDays(Asked1(i)) + 1
  <2>1. WholeDays(Asked1(i)) <= scan /\ WholeDays(Asked1(i)) \in Nat
    <3>1. Asked1(i) \in Nat /\ Asked1(i) <= widest
      BY <1>2, <1>6, <1>15
    <3> HIDE DEF Asked1
    <3>2. QED BY <1>6, <3>1, DaysGrow, DaysFit DEF scan
  <2> HIDE DEF kept
  <2>2. QED BY <1>8, <1>12, <1>13, <1>15, <2>1
<1>16. QED BY <1>12, <1>14, <1>15 DEF SweepSpares, SweepArmed, WholeDays

(* A config that a process runs with means what it says.                   *)
LEMMA InvAcceptedMeans == CfgInv => AcceptedMeans
<1> SUFFICES ASSUME CfgInv, running # <<>>
             PROVE  AcceptedMeans
  BY DEF AcceptedMeans
<1> DEFINE y == running[1]
<1>1. Accepted(y) /\ SignedTyped(y.signed)
  BY DEF CfgInv, CfgTypeOK, FileTyped
<1> HIDE DEF y
<1>2. ManifestsPartition(y)
  BY Manifests
<1>3. StorageCoherent(y.storage)
  BY <1>1, Coherent DEF Accepted
<1>4. SweepSpares(y.signed) /\ LegsResolve(y.signed) /\ FormatsPartition(y.signed)
  BY <1>1, Sweep, Legs, Partition
<1>5. PriorsValid(y.ctrader)
  BY <1>1 DEF Accepted, Loads
<1>6. \A n \in DOMAIN y.ctrader.providers :
        LET w == PriorWeightOf(y.ctrader, n) IN w # <<>> => 0 < w[1] /\ w[1] <= 100
  BY <1>5, Priors
<1>7. \A p \in DOMAIN y.cal.by_pair, c \in Classes30 :
        TargetForPair(y.cal, p) = TargetClassed(y.cal, p, c)
  BY DEF TargetForPair, TargetClassed
<1>8. BlacklistSet(y.blacklist) \cap {""} = {}
  BY DEF BlacklistSet
<1>9. QED BY <1>2, <1>3, <1>4, <1>6, <1>7, <1>8 DEF AcceptedMeans, y

-----------------------------------------------------------------------------
(* The memo of answers (Resolve).                                          *)

LEMMA RoomGrows ==
  ASSUME NEW k \in Nat
  PROVE  /\ RoomFor(k) \in Int /\ RoomFor(k) >= 2 * k
         /\ RoomFor(k + 1) = RoomFor(k) + 2 * (MemoCap + k)
<1> DEFINE c == MemoCap
<1>1. c \in Nat \ {0}
  BY MemoAssumption
<1> HIDE DEF c
<1>2. k * (2 * c - 1 + k) \in Int
  BY <1>1
<1>3. k * (2 * c - 1 + k) >= 2 * k
  <2>1. CASE k = 0
    BY <1>1, <2>1
  <2>2. CASE k # 0
    <3>1. 2 * c - 1 + k - 2 \in Nat
      BY <1>1, <2>2
    <3>2. k * (2 * c - 1 + k - 2) \in Nat
      BY <3>1
    <3>3. k * (2 * c - 1 + k - 2) = k * (2 * c - 1 + k) - 2 * k
      BY <1>1
    <3>4. QED BY <1>2, <3>2, <3>3
  <2>3. QED BY <2>1, <2>2
<1>4. (k + 1) * (2 * c - 1 + (k + 1)) = k * (2 * c - 1 + k) + 2 * (c + k)
  BY <1>1
<1>5. QED BY <1>2, <1>3, <1>4 DEF RoomFor, c

(* How many threads are at each step, when one of them moves.              *)
Count(a, x) == Cardinality({t \in Threads : a[t] = x})
Loose(a) == Cardinality(Threads \ {t \in Threads : a[t] = "zero"})

LEMMA CountsAre ==
  /\ \A x : Heads(x) = Count(at, x) /\ (Heads(x))' = Count(at', x)
  /\ Roaming = Loose(at) /\ Roaming' = Loose(at')
BY DEF Heads, Doing, Count, Roaming, Loose

LEMMA Counts ==
  ASSUME NEW a
  PROVE  /\ \A x : Count(a, x) \in Nat
         /\ Loose(a) \in Nat /\ Loose(a) <= Cardinality(Threads) /\ Cardinality(Threads) \in Nat
         /\ Count(a, "insert") + Count(a, "count") <= Loose(a)
         /\ \A t \in Threads : a[t] \in {"idle", "check", "clear"} =>
              Count(a, "insert") + Count(a, "count") + 1 <= Loose(a)
<1> DEFINE I == {t \in Threads : a[t] = "insert"}
           C == {t \in Threads : a[t] = "count"}
           L == Threads \ {t \in Threads : a[t] = "zero"}
<1>1. \A x : IsFiniteSet({t \in Threads : a[t] = x})
  BY MemoAssumption, FS_Subset
<1>2. IsFiniteSet(I) /\ IsFiniteSet(C) /\ I \cap C = {}
  BY <1>1
<1>3. IsFiniteSet(L) /\ L \subseteq Threads
  BY MemoAssumption, FS_Subset
<1>4. IsFiniteSet(I \cup C) /\ Cardinality(I \cup C) = Cardinality(I) + Cardinality(C)
  <2> HIDE DEF I, C
  <2>1. IsFiniteSet(I \cup C)
        /\ Cardinality(I \cup C) = Cardinality(I) + Cardinality(C) - Cardinality(I \cap C)
    BY <1>2, FS_Union
  <2>2. Cardinality(I \cap C) = 0 /\ Cardinality(I) \in Nat /\ Cardinality(C) \in Nat
    BY <1>2, FS_EmptySet, FS_CardinalityType
  <2>3. QED BY <2>1, <2>2
<1>5. I \cup C \subseteq L
  OBVIOUS
<1>6. Cardinality(I \cup C) <= Cardinality(L)
  BY <1>3, <1>5, FS_Subset
<1>7. /\ \A x : Count(a, x) \in Nat
      /\ Cardinality(L) \in Nat /\ Cardinality(L) <= Cardinality(Threads) /\ Cardinality(Threads) \in Nat
  BY <1>1, <1>3, MemoAssumption, FS_CardinalityType, FS_Subset DEF Count
<1>8. ASSUME NEW t \in Threads, a[t] \in {"idle", "check", "clear"}
      PROVE  Cardinality(I) + Cardinality(C) + 1 <= Cardinality(L)
  <2>1. t \notin I \cup C /\ (I \cup C) \cup {t} \subseteq L
    BY <1>5, <1>8
  <2>2. Cardinality((I \cup C) \cup {t}) = Cardinality(I \cup C) + 1
    BY <1>4, <2>1, FS_AddElement
  <2>3. Cardinality((I \cup C) \cup {t}) <= Cardinality(L)
    BY <1>3, <2>1, FS_Subset
  <2>4. QED BY <1>4, <2>2, <2>3
<1>9. QED BY <1>4, <1>6, <1>7, <1>8 DEF Count, Loose

Stepped(a, c, t, y) == a[t] # y /\ c = [a EXCEPT ![t] = y]

LEMMA OneMoves ==
  ASSUME NEW a \in [Threads -> MemoSteps], NEW t \in Threads, NEW y \in MemoSteps,
         NEW c, Stepped(a, c, t, y)
  PROVE  /\ c \in [Threads -> MemoSteps] /\ c[t] = y /\ \A u \in Threads : u # t => c[u] = a[u]
         /\ \A x : Count(c, x) = Count(a, x) + (IF x = y THEN 1 ELSE 0) - (IF x = a[t] THEN 1 ELSE 0)
         /\ Loose(c) = Loose(a) + (IF a[t] = "zero" THEN 1 ELSE 0) - (IF y = "zero" THEN 1 ELSE 0)
<1> DEFINE Here(f, x) == {u \in Threads : f[u] = x}
           Off(f) == Threads \ {u \in Threads : f[u] = "zero"}
<1>1. a[t] # y /\ c \in [Threads -> MemoSteps] /\ c[t] = y /\ \A u \in Threads : u # t => c[u] = a[u]
  BY DEF Stepped
<1>2. \A f, x : IsFiniteSet(Here(f, x)) /\ Cardinality(Here(f, x)) \in Nat
  BY MemoAssumption, FS_Subset, FS_CardinalityType
<1>3. \A f : IsFiniteSet(Off(f)) /\ Cardinality(Off(f)) \in Nat
  BY MemoAssumption, FS_Subset, FS_CardinalityType
<1>4. ASSUME NEW x
      PROVE  Cardinality(Here(c, x)) =
               Cardinality(Here(a, x)) + (IF x = y THEN 1 ELSE 0) - (IF x = a[t] THEN 1 ELSE 0)
  <2> DEFINE p == Here(a, x)
             q == Here(c, x)
  <2>1. x = y => q = p \cup {t} /\ t \notin p
    BY <1>1
  <2>2. x = a[t] => q = p \ {t} /\ t \in p
    BY <1>1
  <2>3. x # y /\ x # a[t] => q = p
    BY <1>1
  <2>4. IsFiniteSet(p) /\ Cardinality(p) \in Nat
    BY <1>2
  <2> HIDE DEF p, q
  <2>5. x = y => Cardinality(q) = Cardinality(p) + 1
    BY <2>1, <2>4, Added
  <2>6. x = a[t] => Cardinality(q) = Cardinality(p) - 1
    BY <2>2, <2>4, Removed
  <2>7. Cardinality(q) = Cardinality(p) + (IF x = y THEN 1 ELSE 0) - (IF x = a[t] THEN 1 ELSE 0)
    BY <2>3, <2>4, <2>5, <2>6
  <2>8. QED BY <2>7 DEF p, q
<1>5. Cardinality(Off(c)) =
        Cardinality(Off(a)) + (IF a[t] = "zero" THEN 1 ELSE 0) - (IF y = "zero" THEN 1 ELSE 0)
  <2>1. CASE a[t] = "zero"
    <3>1. Off(c) = Off(a) \cup {t} /\ t \notin Off(a)
      BY <1>1, <2>1
    <3>2. Cardinality(Off(c)) = Cardinality(Off(a)) + 1
      BY <1>3, <3>1, Added
    <3>3. y # "zero"
      BY <1>1, <2>1
    <3>4. QED BY <1>3, <2>1, <3>2, <3>3
  <2>2. CASE y = "zero"
    <3>1. Off(c) = Off(a) \ {t} /\ t \in Off(a)
      BY <1>1, <2>2
    <3>2. QED BY <1>1, <1>3, <2>2, <3>1, Removed
  <2>3. CASE a[t] # "zero" /\ y # "zero"
    <3>1. Off(c) = Off(a)
      BY <1>1, <2>3
    <3>2. QED BY <1>3, <2>3, <3>1
  <2>4. QED BY <2>1, <2>2, <2>3
<1>6. QED BY <1>1, <1>4, <1>5 DEF Count, Loose

(* n entries, i and c threads that insert and count, f that are not about  *)
(* to zero the count l.                                                    *)
Holds(n, i, c, f, l) ==
  2 * (n + i) <= RoomFor(f) /\ (f > 0 => 2 * n <= RoomFor(f - 1) + 2 * (l + c))

LEMMA RoomOrder ==
  ASSUME NEW k \in Nat, NEW m \in Nat, k <= m
  PROVE  RoomFor(k) <= RoomFor(m)
<1> DEFINE c == MemoCap
<1>1. c \in Nat \ {0}
  BY MemoAssumption
<1> HIDE DEF c
<1>2. (m - k) * (2 * c - 1 + m + k) \in Nat
  <2>1. m - k \in Nat /\ 2 * c - 1 + m + k \in Nat
    BY <1>1
  <2>2. QED BY <2>1
<1>3. m * (2 * c - 1 + m) - k * (2 * c - 1 + k) = (m - k) * (2 * c - 1 + m + k)
  BY <1>1
<1>4. m * (2 * c - 1 + m) \in Int /\ k * (2 * c - 1 + k) \in Int
  BY <1>1
<1>5. QED BY <1>2, <1>3, <1>4 DEF RoomFor, c

LEMMA HoldsSteps ==
  ASSUME NEW n \in Nat, NEW i \in Nat, NEW c \in Nat, NEW f \in Nat, NEW l \in Nat,
         Holds(n, i, c, f, l), i + c <= f
  PROVE  /\ l < MemoCap /\ i + c + 1 <= f => Holds(n, i + 1, c, f, l)
         /\ i > 0 => Holds(n + 1, i - 1, c + 1, f, l) /\ Holds(n, i - 1, c, f, l)
         /\ c > 0 => Holds(n, i, c - 1, f, l + 1)
         /\ Holds(n, i + 1, c, f + 1, 0)
         /\ i + 1 <= f => Holds(0, i, c, f - 1, l)
<1>1. MemoCap \in Nat \ {0}
  BY MemoAssumption
<1>2. RoomFor(f) \in Int /\ RoomFor(f) >= 2 * f /\ RoomFor(f + 1) = RoomFor(f) + 2 * (MemoCap + f)
  BY RoomGrows
<1>3. f > 0 => /\ RoomFor(f - 1) \in Int /\ RoomFor(f - 1) >= 2 * (f - 1)
               /\ RoomFor(f) = RoomFor(f - 1) + 2 * (MemoCap + (f - 1))
  <2> SUFFICES ASSUME f > 0
               PROVE  /\ RoomFor(f - 1) \in Int /\ RoomFor(f - 1) >= 2 * (f - 1)
                      /\ RoomFor(f) = RoomFor(f - 1) + 2 * (MemoCap + (f - 1))
    OBVIOUS
  <2>1. f - 1 \in Nat /\ (f - 1) + 1 = f
    OBVIOUS
  <2>2. RoomFor((f - 1) + 1) = RoomFor(f - 1) + 2 * (MemoCap + (f - 1))
    BY <2>1, RoomGrows
  <2>3. QED BY <2>1, <2>2, RoomGrows
<1>4. f > 1 => RoomFor(f - 1 - 1) \in Int /\ RoomFor(f - 1 - 1) >= 0
  <2> SUFFICES ASSUME f > 1 PROVE RoomFor(f - 1 - 1) \in Int /\ RoomFor(f - 1 - 1) >= 0
    OBVIOUS
  <2>1. f - 1 - 1 \in Nat
    OBVIOUS
  <2>2. RoomFor(f - 1 - 1) \in Int /\ RoomFor(f - 1 - 1) >= 2 * (f - 1 - 1)
    BY <2>1, RoomGrows
  <2>3. QED BY <2>1, <2>2
<1>5. 2 * (n + i) <= RoomFor(f) /\ (f > 0 => 2 * n <= RoomFor(f - 1) + 2 * (l + c))
  BY DEF Holds
<1>6. l < MemoCap /\ i + c + 1 <= f => Holds(n, i + 1, c, f, l)
  BY <1>1, <1>2, <1>3, <1>5 DEF Holds
<1>7. i > 0 => Holds(n + 1, i - 1, c + 1, f, l) /\ Holds(n, i - 1, c, f, l)
  BY <1>2, <1>3, <1>5 DEF Holds
<1>8. c > 0 => Holds(n, i, c - 1, f, l + 1)
  BY <1>2, <1>3, <1>5 DEF Holds
<1>9. Holds(n, i + 1, c, f + 1, 0)
  <2>1. f + 1 - 1 = f
    OBVIOUS
  <2>2. QED BY <1>1, <1>2, <1>3, <1>5, <2>1 DEF Holds
<1>10. i + 1 <= f => Holds(0, i, c, f - 1, l)
  BY <1>1, <1>2, <1>3, <1>4, <1>5 DEF Holds
<1>11. QED BY <1>6, <1>7, <1>8, <1>9, <1>10

(* The invariant, in terms of the positions of the threads.                *)
Kept(m) == \A s \in DOMAIN m : m[s] = Answer(s) /\ Storable(s)
Memo(m, a, q, l) ==
  /\ a \in [Threads -> MemoSteps] /\ DOMAIN q = Threads /\ l \in Nat
  /\ IsFiniteSet(DOMAIN m) /\ Kept(m)
  /\ \A t \in Threads : a[t] # "idle" => Storable(q[t])
  /\ Holds(Cardinality(DOMAIN m), Count(a, "insert"), Count(a, "count"), Loose(a), l)

LEMMA MemoIs == (MemoInv <=> Memo(map, at, asked, len)) /\ (MemoInv' <=> Memo(map', at', asked', len'))
<1>1. ASSUME NEW m, NEW a, NEW q, NEW l, Memo(m, a, q, l)
      PROVE  2 * Cardinality(DOMAIN m) <= RoomFor(Cardinality(Threads))
  <2> DEFINE n == Cardinality(DOMAIN m)
  <2>1. n \in Nat /\ 2 * (n + Count(a, "insert")) <= RoomFor(Loose(a))
    BY <1>1, FS_CardinalityType DEF Memo, Holds
  <2>2. Count(a, "insert") \in Nat /\ Loose(a) \in Nat /\ Cardinality(Threads) \in Nat
        /\ Loose(a) <= Cardinality(Threads)
    BY Counts
  <2>3. RoomFor(Loose(a)) <= RoomFor(Cardinality(Threads))
        /\ RoomFor(Loose(a)) \in Int /\ RoomFor(Cardinality(Threads)) \in Int
    BY <2>2, RoomOrder, RoomGrows
  <2> HIDE DEF n
  <2>4. 2 * n <= RoomFor(Cardinality(Threads))
    BY <2>1, <2>2, <2>3
  <2>5. QED BY <2>4 DEF n
<1>2. MemoInv <=> Memo(map, at, asked, len)
  BY <1>1, CountsAre DEF MemoInv, MemoTrue, Memo, Holds, Kept
<1>3. MemoInv' <=> Memo(map', at', asked', len')
  BY <1>1, CountsAre DEF MemoInv, MemoTrue, Memo, Holds, Kept
<1>4. QED BY <1>2, <1>3

LEMMA SameHolds ==
  ASSUME NEW n, NEW m, n = m, NEW i, NEW j, i = j, NEW c, NEW d, c = d, NEW f, NEW g, f = g,
         NEW l, Holds(n, i, c, f, l)
  PROVE  Holds(m, j, d, g, l)
OBVIOUS

LEMMA MemoInitInv == MemoInit => MemoInv
<1> SUFFICES ASSUME MemoInit PROVE MemoInv
  OBVIOUS
<1>1. at \in [Threads -> MemoSteps] /\ DOMAIN asked = Threads /\ len = 0
      /\ \A t \in Threads : at[t] = "idle"
  BY DEF MemoInit, MemoSteps
<1>2. DOMAIN map = {} /\ Cardinality({}) = 0 /\ IsFiniteSet({})
  BY FS_EmptySet DEF MemoInit
<1>3. Count(at, "insert") = 0 /\ Count(at, "count") = 0
  <2>1. {t \in Threads : at[t] = "insert"} = {} /\ {t \in Threads : at[t] = "count"} = {}
    BY <1>1
  <2>2. QED BY <1>2, <2>1 DEF Count
<1>4. Loose(at) \in Nat /\ RoomFor(Loose(at)) \in Int /\ RoomFor(Loose(at)) >= 2 * Loose(at)
  BY Counts, RoomGrows
<1>5. Loose(at) > 0 => RoomFor(Loose(at) - 1) \in Int /\ RoomFor(Loose(at) - 1) >= 2 * (Loose(at) - 1)
  <2> SUFFICES ASSUME Loose(at) > 0
               PROVE  RoomFor(Loose(at) - 1) \in Int /\ RoomFor(Loose(at) - 1) >= 2 * (Loose(at) - 1)
    OBVIOUS
  <2>1. Loose(at) - 1 \in Nat
    BY <1>4
  <2>2. QED BY <2>1, RoomGrows
<1>6. Holds(0, 0, 0, Loose(at), 0)
  BY <1>4, <1>5 DEF Holds
<1>7. Memo(map, at, asked, len)
  BY <1>1, <1>2, <1>3, <1>6 DEF Memo, Kept
<1>8. QED BY <1>7, MemoIs

(* A step changes the place of one thread.                                 *)
LEMMA MoveTypes ==
  ASSUME Memo(map, at, asked, len), NEW t \in Threads, NEW y \in MemoSteps, Stepped(at, at', t, y)
  PROVE  /\ at' \in [Threads -> MemoSteps] /\ at'[t] = y /\ \A u \in Threads : u # t => at'[u] = at[u]
         /\ \A x : Count(at', x) = Count(at, x) + (IF x = y THEN 1 ELSE 0) - (IF x = at[t] THEN 1 ELSE 0)
         /\ Loose(at') = Loose(at) + (IF at[t] = "zero" THEN 1 ELSE 0) - (IF y = "zero" THEN 1 ELSE 0)
<1>1. at \in [Threads -> MemoSteps]
  BY DEF Memo
<1>2. QED BY <1>1, OneMoves

LEMMA CountsOf ==
  ASSUME Memo(map, at, asked, len)
  PROVE  LET n == Cardinality(DOMAIN map)
             i == Count(at, "insert")
             c == Count(at, "count")
             f == Loose(at) IN
         /\ n \in Nat /\ i \in Nat /\ c \in Nat /\ f \in Nat /\ len \in Nat
         /\ i + c <= f /\ Holds(n, i, c, f, len)
         /\ len < MemoCap /\ i + c + 1 <= f => Holds(n, i + 1, c, f, len)
         /\ i > 0 => Holds(n + 1, i - 1, c + 1, f, len) /\ Holds(n, i - 1, c, f, len)
         /\ c > 0 => Holds(n, i, c - 1, f, len + 1)
         /\ Holds(n, i + 1, c, f + 1, 0)
         /\ i + 1 <= f => Holds(0, i, c, f - 1, len)
<1> DEFINE n == Cardinality(DOMAIN map)
           i == Count(at, "insert")
           c == Count(at, "count")
           f == Loose(at)
<1>1. n \in Nat /\ i \in Nat /\ c \in Nat /\ f \in Nat /\ len \in Nat /\ i + c <= f
  BY Counts, FS_CardinalityType DEF Memo
<1>2. Holds(n, i, c, f, len)
  BY DEF Memo
<1> HIDE DEF n, i, c, f
<1>3. /\ len < MemoCap /\ i + c + 1 <= f => Holds(n, i + 1, c, f, len)
      /\ i > 0 => Holds(n + 1, i - 1, c + 1, f, len) /\ Holds(n, i - 1, c, f, len)
      /\ c > 0 => Holds(n, i, c - 1, f, len + 1)
      /\ Holds(n, i + 1, c, f + 1, 0)
      /\ i + 1 <= f => Holds(0, i, c, f - 1, len)
  BY <1>1, <1>2, HoldsSteps
<1>4. QED BY <1>1, <1>2, <1>3 DEF n, i, c, f

LEMMA HeldCount ==
  ASSUME Memo(map, at, asked, len), NEW t \in Threads
  PROVE  /\ at[t] = "insert" => Count(at, "insert") > 0
         /\ at[t] = "count" => Count(at, "count") > 0
         /\ at[t] \in {"idle", "check", "clear"} =>
              /\ Count(at, "insert") + Count(at, "count") + 1 <= Loose(at)
              /\ Count(at, "insert") + 1 <= Loose(at)
<1>1. ASSUME NEW x, at[t] = x PROVE Count(at, x) > 0
  <2> DEFINE p == {u \in Threads : at[u] = x}
  <2>1. IsFiniteSet(p) /\ t \in p
    BY <1>1, MemoAssumption, FS_Subset
  <2>2. Cardinality(p) \in Nat /\ p # {}
    BY <2>1, FS_CardinalityType
  <2>3. Cardinality(p) # 0
    BY <2>1, <2>2, FS_EmptySet
  <2>4. QED BY <2>2, <2>3 DEF Count
<1>2. QED BY <1>1, Counts

LEMMA MissInv ==
  ASSUME MemoInv, NEW t \in Threads, NEW s \in Symbols, Miss(t, s)
  PROVE  MemoInv'
<1>1. Memo(map, at, asked, len)
  BY MemoIs
<1>2. /\ at[t] = "idle" /\ Storable(s) /\ asked' = [asked EXCEPT ![t] = s]
      /\ at' = [at EXCEPT ![t] = "check"] /\ map' = map /\ len' = len
  BY DEF Miss, Go
<1>3. /\ at' \in [Threads -> MemoSteps] /\ \A u \in Threads : u # t => at'[u] = at[u]
      /\ Count(at', "insert") = Count(at, "insert") /\ Count(at', "count") = Count(at, "count")
      /\ Loose(at') = Loose(at)
  <2>1. Stepped(at, at', t, "check") /\ "check" \in MemoSteps
    BY <1>2 DEF Stepped, MemoSteps
  <2>2. /\ at' \in [Threads -> MemoSteps] /\ \A u \in Threads : u # t => at'[u] = at[u]
        /\ \A x : Count(at', x) = Count(at, x) + (IF x = "check" THEN 1 ELSE 0) - (IF x = "idle" THEN 1 ELSE 0)
        /\ Loose(at') = Loose(at) + 0 - 0
    BY <1>1, <1>2, <2>1, MoveTypes
  <2>3. Count(at', "insert") = Count(at, "insert") + 0 - 0 /\ Count(at', "count") = Count(at, "count") + 0 - 0
    BY <2>2
  <2>4. QED BY <1>1, <2>2, <2>3, CountsOf
<1>4. DOMAIN asked' = Threads /\ \A u \in Threads : at'[u] # "idle" => Storable(asked'[u])
  BY <1>1, <1>2, <1>3 DEF Memo
<1>5. Memo(map', at', asked', len')
  BY <1>1, <1>2, <1>3, <1>4 DEF Memo
<1>6. QED BY <1>5, MemoIs

LEMMA MoveInv ==
  ASSUME Memo(map, at, asked, len), NEW t \in Threads, at[t] # "idle", NEW y \in MemoSteps,
         Stepped(at, at', t, y), asked' = asked, len' \in Nat,
         IsFiniteSet(DOMAIN map'), Kept(map'),
         Holds(Cardinality(DOMAIN map'), Count(at', "insert"), Count(at', "count"), Loose(at'), len')
  PROVE  MemoInv'
<1>1. at' \in [Threads -> MemoSteps] /\ \A u \in Threads : u # t => at'[u] = at[u]
  BY MoveTypes
<1>2. DOMAIN asked' = Threads /\ \A u \in Threads : at'[u] # "idle" => Storable(asked'[u])
  BY <1>1 DEF Memo
<1>3. Memo(map', at', asked', len')
  BY <1>1, <1>2 DEF Memo
<1>4. QED BY <1>3, MemoIs

LEMMA CheckCapInv ==
  ASSUME MemoInv, NEW t \in Threads, CheckCap(t)
  PROVE  MemoInv'
<1> DEFINE y == IF len >= MemoCap THEN "clear" ELSE "insert"
<1>1. Memo(map, at, asked, len)
  BY MemoIs
<1>2. at[t] = "check" /\ Stepped(at, at', t, y) /\ map' = map /\ len' = len /\ asked' = asked
  BY DEF CheckCap, Go, Stepped
<1>3. y \in {"clear", "insert"} /\ y \in MemoSteps /\ MemoCap \in Nat
  BY MemoAssumption DEF MemoSteps
<1>4. /\ Count(at', "insert") = Count(at, "insert") + (IF y = "insert" THEN 1 ELSE 0)
      /\ Count(at', "count") = Count(at, "count") /\ Loose(at') = Loose(at)
  <2> HIDE DEF y
  <2>1. QED BY <1>1, <1>2, <1>3, MoveTypes, CountsOf
<1>5. Holds(Cardinality(DOMAIN map), Count(at', "insert"), Count(at', "count"), Loose(at'), len)
  <2>1. CASE len >= MemoCap
    <3>1. Count(at', "insert") = Count(at, "insert")
      BY <1>1, <1>4, <2>1, CountsOf
    <3>2. QED BY <1>1, <1>4, <3>1, CountsOf
  <2>2. CASE ~(len >= MemoCap)
    <3>1. len < MemoCap /\ Count(at', "insert") = Count(at, "insert") + 1
      BY <1>1, <1>3, <1>4, <2>2, CountsOf
    <3>2. Count(at, "insert") + Count(at, "count") + 1 <= Loose(at)
      BY <1>1, <1>2, HeldCount
    <3>3. QED BY <1>1, <1>4, <3>1, <3>2, CountsOf
  <2>3. QED BY <2>1, <2>2
<1>6. len' \in Nat /\ IsFiniteSet(DOMAIN map') /\ Kept(map')
  BY <1>1, <1>2 DEF Memo
<1> HIDE DEF y
<1>7. QED BY <1>1, <1>2, <1>3, <1>5, <1>6, MoveInv

LEMMA ClearMapInv ==
  ASSUME MemoInv, NEW t \in Threads, ClearMap(t)
  PROVE  MemoInv'
<1>1. Memo(map, at, asked, len)
  BY MemoIs
<1>2. at[t] = "clear" /\ Stepped(at, at', t, "zero") /\ map' = <<>> /\ len' = len /\ asked' = asked
  BY DEF ClearMap, Go, Stepped
<1>3. "zero" \in MemoSteps
  BY DEF MemoSteps
<1>4. /\ Count(at', "insert") = Count(at, "insert") /\ Count(at', "count") = Count(at, "count")
      /\ Loose(at') = Loose(at) - 1
  <2>1. /\ \A x : Count(at', x) = Count(at, x) + (IF x = "zero" THEN 1 ELSE 0) - (IF x = "clear" THEN 1 ELSE 0)
        /\ Loose(at') = Loose(at) + 0 - 1
    BY <1>1, <1>2, <1>3, MoveTypes
  <2>2. Count(at', "insert") = Count(at, "insert") + 0 - 0 /\ Count(at', "count") = Count(at, "count") + 0 - 0
    BY <2>1
  <2>3. QED BY <1>1, <2>1, <2>2, CountsOf
<1>5. Count(at, "insert") + 1 <= Loose(at)
  BY <1>1, <1>2, HeldCount
<1>6. Holds(0, Count(at', "insert"), Count(at', "count"), Loose(at'), len)
  BY <1>1, <1>4, <1>5, CountsOf
<1>7. DOMAIN map' = {} /\ Cardinality(DOMAIN map') = 0 /\ IsFiniteSet(DOMAIN map')
  BY <1>2, FS_EmptySet
<1>8. len' \in Nat /\ Kept(map')
  BY <1>1, <1>2, <1>7 DEF Memo, Kept
<1>9. QED BY <1>1, <1>2, <1>3, <1>6, <1>7, <1>8, MoveInv

LEMMA ZeroLenInv ==
  ASSUME MemoInv, NEW t \in Threads, ZeroLen(t)
  PROVE  MemoInv'
<1>1. Memo(map, at, asked, len)
  BY MemoIs
<1>2. at[t] = "zero" /\ Stepped(at, at', t, "insert") /\ map' = map /\ len' = 0 /\ asked' = asked
  BY DEF ZeroLen, Go, Stepped
<1>3. "insert" \in MemoSteps
  BY DEF MemoSteps
<1>4. /\ Count(at', "insert") = Count(at, "insert") + 1 /\ Count(at', "count") = Count(at, "count")
      /\ Loose(at') = Loose(at) + 1
  BY <1>1, <1>2, <1>3, MoveTypes, CountsOf
<1>5. Holds(Cardinality(DOMAIN map'), Count(at', "insert"), Count(at', "count"), Loose(at'), len')
  BY <1>1, <1>2, <1>4, CountsOf
<1>6. len' \in Nat /\ IsFiniteSet(DOMAIN map') /\ Kept(map')
  BY <1>1, <1>2 DEF Memo
<1>7. QED BY <1>1, <1>2, <1>3, <1>5, <1>6, MoveInv

LEMMA InsertEntryInv ==
  ASSUME MemoInv, NEW t \in Threads, InsertEntry(t)
  PROVE  MemoInv'
<1> DEFINE s == asked[t]
           y == IF s \in DOMAIN map THEN "idle" ELSE "count"
<1>1. Memo(map, at, asked, len)
  BY MemoIs
<1>2. at[t] = "insert" /\ Stepped(at, at', t, y) /\ len' = len /\ asked' = asked
  BY DEF InsertEntry, Go, Stepped
<1>3. /\ DOMAIN map' = DOMAIN map \cup {s}
      /\ \A z \in DOMAIN map' : map'[z] = IF z = s THEN Answer(s) ELSE map[z]
  BY DEF InsertEntry, Stored
<1>4. Kept(map')
  BY <1>1, <1>2, <1>3 DEF Memo, Kept
<1>5. y \in {"idle", "count"} /\ y \in MemoSteps
  BY DEF MemoSteps
<1>6. /\ Count(at', "insert") = Count(at, "insert") - 1 /\ Loose(at') = Loose(at)
      /\ Count(at', "count") = Count(at, "count") + (IF y = "count" THEN 1 ELSE 0)
  <2> HIDE DEF y, s
  <2>1. QED BY <1>1, <1>2, <1>5, MoveTypes, CountsOf
<1>7. Count(at, "insert") > 0
  BY <1>1, <1>2, HeldCount
<1>8. IsFiniteSet(DOMAIN map') /\
      Holds(Cardinality(DOMAIN map'), Count(at', "insert"), Count(at', "count"), Loose(at'), len)
  <2>1. CASE s \in DOMAIN map
    <3>1. DOMAIN map' = DOMAIN map /\ Count(at', "count") = Count(at, "count")
      BY <1>1, <1>3, <1>6, <2>1, CountsOf
    <3>2. QED BY <1>1, <1>6, <1>7, <3>1, CountsOf DEF Memo
  <2>2. CASE s \notin DOMAIN map
    <3>1. Count(at', "count") = Count(at, "count") + 1
      BY <1>1, <1>6, <2>2, CountsOf
    <3>2. IsFiniteSet(DOMAIN map') /\ Cardinality(DOMAIN map') = Cardinality(DOMAIN map) + 1
      BY <1>1, <1>3, <2>2, FS_AddElement DEF Memo
    <3>3. QED BY <1>1, <1>6, <1>7, <3>1, <3>2, CountsOf
  <2>3. QED BY <2>1, <2>2
<1>9. len' \in Nat
  BY <1>1, <1>2 DEF Memo
<1> HIDE DEF y
<1>10. QED BY <1>1, <1>2, <1>4, <1>5, <1>8, <1>9, MoveInv

LEMMA CountEntryInv ==
  ASSUME MemoInv, NEW t \in Threads, CountEntry(t)
  PROVE  MemoInv'
<1>1. Memo(map, at, asked, len)
  BY MemoIs
<1>2. at[t] = "count" /\ Stepped(at, at', t, "idle") /\ map' = map /\ len' = len + 1 /\ asked' = asked
  BY DEF CountEntry, Go, Stepped
<1>3. "idle" \in MemoSteps
  BY DEF MemoSteps
<1>4. /\ Count(at', "insert") = Count(at, "insert") /\ Count(at', "count") = Count(at, "count") - 1
      /\ Loose(at') = Loose(at)
  BY <1>1, <1>2, <1>3, MoveTypes, CountsOf
<1>5. Count(at, "count") > 0
  BY <1>1, <1>2, HeldCount
<1>6. Holds(Cardinality(DOMAIN map'), Count(at', "insert"), Count(at', "count"), Loose(at'), len')
  BY <1>1, <1>2, <1>4, <1>5, CountsOf
<1>7. len' \in Nat /\ IsFiniteSet(DOMAIN map') /\ Kept(map')
  BY <1>1, <1>2 DEF Memo
<1>8. QED BY <1>1, <1>2, <1>3, <1>6, <1>7, MoveInv

LEMMA MemoNextInv == MemoInv /\ [MemoNext]_memoVars => MemoInv'
<1> SUFFICES ASSUME MemoInv, [MemoNext]_memoVars PROVE MemoInv'
  OBVIOUS
<1>1. CASE UNCHANGED memoVars
  <2>1. Memo(map', at', asked', len')
    BY <1>1, MemoIs DEF memoVars
  <2>2. QED BY <2>1, MemoIs
<1>2. ASSUME NEW t \in Threads,
             \/ \E s \in Symbols : Miss(t, s)
             \/ CheckCap(t) \/ ClearMap(t) \/ ZeroLen(t) \/ InsertEntry(t) \/ CountEntry(t)
      PROVE  MemoInv'
  BY <1>2, MissInv, CheckCapInv, ClearMapInv, ZeroLenInv, InsertEntryInv, CountEntryInv
<1>3. QED BY <1>1, <1>2 DEF MemoNext

(* ticker.rs:98: a hit is the resolver's own answer whatever was cleared   *)
(* in between, and the memo holds at most RoomFor of the threads there     *)
(* are, for every number of them: not the cap plus the threads.            *)
THEOREM MemoStaysBounded == MemoSpec => []MemoTrue
<1>1. MemoSpec => []MemoInv
  BY MemoInitInv, MemoNextInv, PTL DEF MemoSpec
<1>2. MemoInv => MemoTrue
  BY DEF MemoInv
<1>3. QED BY <1>1, <1>2, PTL

-----------------------------------------------------------------------------
(* What the environment of a process says.                                 *)
Paths == {"data_root", "ticks_dir", "bars_dir", "indexes_dir", "config_dir", "ticker_params_path"}
Names == {"data", "config", "ticks", "bars", "indexes", "ticker-params.json"}
EnvTyped(e, X) == Names \subseteq X /\ \A k \in Paths \cap DOMAIN e : e[k] \in Seq(X)

LEMMA Concats ==
  \A X : \A s, t \in Seq(X) :
    /\ s \o t \in Seq(X) /\ Len(s \o t) = Len(s) + Len(t)
    /\ \A i \in 1 .. Len(s) : (s \o t)[i] = s[i]
  OBVIOUS

LEMMA SeqEnds ==
  ASSUME NEW X, NEW s \in Seq(X), NEW t \in Seq(X), Len(t) = 1, NEW u \in Seq(X), Len(u) = 1
  PROVE  /\ s \o t \in Seq(X) /\ s \o t # <<>> /\ Front(s \o t) = s /\ IsPrefix(s, s \o t)
         /\ IsPrefix(s, (s \o t) \o u)
<1>1. /\ s \o t \in Seq(X) /\ Len(s \o t) = Len(s) + 1 /\ Len(s) \in Nat
      /\ \A i \in 1 .. Len(s) : (s \o t)[i] = s[i]
  <2> DEFINE v == s \o t
  <2>1. v \in Seq(X) /\ Len(v) = Len(s) + Len(t) /\ \A i \in 1 .. Len(s) : v[i] = s[i]
    BY Concats
  <2>2. Len(s) \in Nat
    OBVIOUS
  <2> HIDE DEF v
  <2>3. v \in Seq(X) /\ Len(v) = Len(s) + 1 /\ \A i \in 1 .. Len(s) : v[i] = s[i]
    BY <2>1, <2>2
  <2>4. QED BY <2>2, <2>3 DEF v
<1>2. SubSeq(s \o t, 1, Len(s)) = s /\ SubSeq(s, 1, Len(s)) = s
  BY <1>1
<1>3. Front(s \o t) = s /\ IsPrefix(s, s \o t) /\ s \o t # <<>>
  BY <1>1, <1>2 DEF Front, IsPrefix
<1>4. IsPrefix(s, (s \o t) \o u)
  <2> DEFINE w == (s \o t) \o u
  <2>1. w \in Seq(X) /\ Len(w) = Len(s) + 2 /\ \A i \in 1 .. Len(s) : w[i] = s[i]
    BY <1>1
  <2> HIDE DEF w
  <2>2. SubSeq(w, 1, Len(s)) = s
    BY <1>1, <2>1
  <2>3. IsPrefix(s, w)
    BY <1>1, <1>2, <2>1, <2>2 DEF IsPrefix
  <2>4. QED BY <2>3 DEF w
<1>5. QED BY <1>1, <1>3, <1>4

LEMMA OneOf == \A X : \A y \in X : <<y>> \in Seq(X) /\ Len(<<y>>) = 1
  OBVIOUS

(* A directory, and the names in it.                                       *)
Below(s, n) == s \o <<n>>
LEMMA Ends ==
  ASSUME NEW X, NEW s \in Seq(X), NEW x \in X
  PROVE  /\ Below(s, x) \in Seq(X) /\ Below(s, x) # <<>> /\ Front(Below(s, x)) = s
         /\ IsPrefix(s, Below(s, x)) /\ \A y \in X : IsPrefix(s, Below(Below(s, x), y))
<1>1. \A y \in X : <<y>> \in Seq(X) /\ Len(<<y>>) = 1
  BY OneOf
<1>2. QED BY <1>1, SeqEnds DEF Below

Fields(e) ==
  [ticks_dir   |-> DataDir(e, "ticks_dir", "ticks"),
   bars_dir    |-> DataDir(e, "bars_dir", "bars"),
   indexes_dir |-> DataDir(e, "indexes_dir", "indexes"),
   ticker_params_path |-> EnvOr(e, "ticker_params_path", ConfigDir(e) \o <<"ticker-params.json">>),
   weight_refresh_ms  |-> EnvOpt(e, "weight_refresh_ms")]

LEMMA TwoKinds ==
  DOMAIN DefaultNumbers \cap (Paths \cup {"weight_refresh_ms"}) = {}
BY DEF DefaultNumbers, Paths

LEMMA FromEnvIs ==
  ASSUME NEW e
  PROVE  /\ FromEnv(e) = Together(EnvNumbersOf(e), Fields(e))
         /\ \A k \in {"ticks_dir", "bars_dir", "indexes_dir", "ticker_params_path"} :
              FromEnv(e)[k] = Fields(e)[k]
<1>1. FromEnv(e) = Together(EnvNumbersOf(e), Fields(e))
  BY DEF FromEnv, Fields
<1>2. ASSUME NEW k \in {"ticks_dir", "bars_dir", "indexes_dir", "ticker_params_path"}
      PROVE  (Together(EnvNumbersOf(e), Fields(e)))[k] = Fields(e)[k]
  <2>1. k \notin DOMAIN EnvNumbersOf(e)
    BY <1>2, TwoKinds DEF EnvNumbersOf, Paths
  <2>2. k \in DOMAIN Fields(e)
    BY DEF Fields
  <2>3. QED BY <2>1, <2>2 DEF Together
<1>3. QED BY <1>1, <1>2

LEMMA EnvIsMeant ==
  ASSUME NEW X, NEW e, EnvTyped(e, X)
  PROVE  EnvMeans(e)
<1> DEFINE cfg == FromEnv(e)
           kept == [k \in {k \in DOMAIN e : e[k] # <<>> \/ k \notin DOMAIN DefaultNumbers} |-> e[k]]
<1>1. /\ cfg.ticks_dir = DataDir(e, "ticks_dir", "ticks")
      /\ cfg.bars_dir = DataDir(e, "bars_dir", "bars")
      /\ cfg.indexes_dir = DataDir(e, "indexes_dir", "indexes")
      /\ cfg.ticker_params_path = EnvOr(e, "ticker_params_path", ConfigDir(e) \o <<"ticker-params.json">>)
  BY FromEnvIs DEF Fields
<1>0. "data" \in X /\ "config" \in X /\ "ticks" \in X /\ "bars" \in X /\ "indexes" \in X
      /\ "ticker-params.json" \in X
  BY DEF EnvTyped, Names
<1>2. RootDir(e) \in Seq(X) /\ ConfigDir(e) \in Seq(X)
  <2>1. \A k \in Paths : k \in DOMAIN e => e[k] \in Seq(X)
    BY DEF EnvTyped
  <2>2. <<"data">> \in Seq(X) /\ "data_root" \in Paths /\ "config_dir" \in Paths
    BY <1>0, OneOf DEF Paths
  <2>3. RootDir(e) \in Seq(X)
    BY <2>1, <2>2 DEF RootDir, EnvOr
  <2>4. Below(RootDir(e), "config") \in Seq(X)
    BY <1>0, <2>3, Ends
  <2>5. QED BY <2>1, <2>2, <2>3, <2>4 DEF ConfigDir, DataDir, EnvOr, Below
<1>3. ASSUME "indexes_dir" \notin DOMAIN e
      PROVE  /\ DataRoot(cfg) = RootDir(e)
             /\ \A key \in {"ticks_dir", "bars_dir"} : key \in DOMAIN e \/ IsPrefix(DataRoot(cfg), cfg[key])
             /\ \/ "config_dir" \in DOMAIN e
                \/ "ticker_params_path" \in DOMAIN e
                \/ IsPrefix(DataRoot(cfg), cfg.ticker_params_path)
  <2>1. cfg.indexes_dir = Below(RootDir(e), "indexes")
    BY <1>1, <1>3 DEF DataDir, EnvOr, Below
  <2>2. Below(RootDir(e), "indexes") # <<>> /\ Front(Below(RootDir(e), "indexes")) = RootDir(e)
    BY <1>0, <1>2, Ends
  <2>3. DataRoot(cfg) = RootDir(e)
    BY <2>1, <2>2 DEF DataRoot
  <2>4. "ticks_dir" \in DOMAIN e \/ IsPrefix(DataRoot(cfg), cfg.ticks_dir)
    BY <1>0, <1>1, <1>2, <2>3, Ends DEF DataDir, EnvOr, Below
  <2>5. "bars_dir" \in DOMAIN e \/ IsPrefix(DataRoot(cfg), cfg.bars_dir)
    BY <1>0, <1>1, <1>2, <2>3, Ends DEF DataDir, EnvOr, Below
  <2>6. \/ "config_dir" \in DOMAIN e
        \/ "ticker_params_path" \in DOMAIN e
        \/ IsPrefix(DataRoot(cfg), cfg.ticker_params_path)
    <3> SUFFICES ASSUME "config_dir" \notin DOMAIN e, "ticker_params_path" \notin DOMAIN e
                 PROVE  IsPrefix(DataRoot(cfg), cfg.ticker_params_path)
      OBVIOUS
    <3>1. cfg.ticker_params_path = Below(Below(RootDir(e), "config"), "ticker-params.json")
      BY <1>1 DEF EnvOr, ConfigDir, DataDir, Below
    <3>2. QED BY <1>0, <1>2, <2>3, <3>1, Ends
  <2>7. QED BY <2>3, <2>4, <2>5, <2>6
<1>4. "ticker_params_path" \in DOMAIN e \/ Front(cfg.ticker_params_path) = ConfigDir(e)
  BY <1>0, <1>1, <1>2, Ends DEF EnvOr, Below
<1>5. cfg = FromEnv(kept)
  <2>1. \A k \in Paths \cup {"weight_refresh_ms"} :
          (k \in DOMAIN kept <=> k \in DOMAIN e) /\ (k \in DOMAIN e => kept[k] = e[k])
    BY TwoKinds
  <2>2. \A k \in DOMAIN DefaultNumbers : EnvOpt(kept, k) = EnvOpt(e, k)
    BY DEF EnvOpt, EnvOr
  <2> HIDE DEF kept
  <2>3. \A k \in Paths \cup {"weight_refresh_ms"} : \A d : EnvOr(kept, k, d) = EnvOr(e, k, d)
    BY <2>1 DEF EnvOr
  <2>4. RootDir(kept) = RootDir(e)
    BY <2>3 DEF RootDir, Paths
  <2>5. \A k \in Paths : \A n : DataDir(kept, k, n) = DataDir(e, k, n)
    BY <2>3, <2>4 DEF DataDir
  <2>6. Fields(kept) = Fields(e)
    <3>1. ConfigDir(kept) = ConfigDir(e)
      BY <2>5 DEF ConfigDir, Paths
    <3>2. EnvOpt(kept, "weight_refresh_ms") = EnvOpt(e, "weight_refresh_ms")
      BY <2>3 DEF EnvOpt
    <3>3. QED BY <2>3, <2>5, <3>1, <3>2 DEF Fields, Paths
  <2>7. EnvNumbersOf(kept) = EnvNumbersOf(e)
    BY <2>2 DEF EnvNumbersOf
  <2>8. QED BY <2>6, <2>7, FromEnvIs
<1>6. QED BY <1>3, <1>4, <1>5 DEF EnvMeans

(* The sinks of a list.                                                    *)
LEMMA Pair ==
  ASSUME NEW a, NEW b
  PROVE  Len(<<a>> \o <<b>>) = 2 /\ (<<a>> \o <<b>>)[1] = a /\ (<<a>> \o <<b>>)[2] = b
<1> DEFINE X == {a, b}
<1>1. <<a>> \in Seq(X) /\ <<b>> \in Seq(X) /\ Len(<<a>>) = 1 /\ Len(<<b>>) = 1 /\ <<a>>[1] = a /\ <<b>>[1] = b
  OBVIOUS
<1>2. QED BY <1>1

Sink(h, p) == [host |-> h, port |-> p]
Legible(a, b) == a # "" /\ b \in DOMAIN PortText
Prefixed(s, h) == IsPrefix(h, s)

LEMMA SinkIs ==
  /\ \A h, p : Sink(h, p).host = h /\ Sink(h, p).port = p
  /\ \A s, p : HostPort(s, p) = IF Len(s) = 2 /\ Legible(s[1], s[2]) THEN Sink(<<s[1]>>, PortText[s[2]])
                                ELSE Sink(s, p)
BY DEF Sink, Legible, HostPort

LEMMA Starts ==
  ASSUME NEW X, NEW s \in Seq(X), NEW h \in Seq(X), Len(h) = 1, Len(s) >= 1, h[1] = s[1]
  PROVE  Prefixed(s, h)
<1>1. SubSeq(h, 1, Len(h)) = SubSeq(s, 1, Len(h))
  OBVIOUS
<1>2. Len(s) \in Nat /\ Len(h) <= Len(s)
  OBVIOUS
<1>3. QED BY <1>1, <1>2 DEF Prefixed, IsPrefix

LEMMA Whole == \A X : \A s \in Seq(X) : Prefixed(s, s)
  BY DEF Prefixed, IsPrefix

LEMMA Single == \A X : \A s \in Seq(X) : Len(s) = 1 => s = <<s[1]>>
  OBVIOUS

LEMMA Mine == \A X : \A s \in Seq(X) : Len(s) \in Nat /\ \A i \in 1 .. Len(s) : s[i] \in X
  OBVIOUS

Spelled(sink) ==
  \A text \in DOMAIN PortText :
    sink.host[1] # "" /\ Len(sink.host) = 1 /\ PortText[text] = sink.port =>
      HostPort(sink.host \o <<text>>, 0) = sink

LEMMA Respelled ==
  ASSUME NEW a, NEW p, NEW text \in DOMAIN PortText, a # "", PortText[text] = p
  PROVE  HostPort(<<a>> \o <<text>>, 0) = Sink(<<a>>, p)
<1> DEFINE s == <<a>> \o <<text>>
<1>1. Len(s) = 2 /\ s[1] = a /\ s[2] = text
  BY Pair
<1> HIDE DEF s
<1>2. Legible(s[1], s[2])
  BY <1>1 DEF Legible
<1>3. HostPort(s, 0) = Sink(<<s[1]>>, PortText[s[2]])
  BY <1>1, <1>2, SinkIs
<1>4. HostPort(s, 0) = Sink(<<a>>, p)
  BY <1>1, <1>3
<1>5. QED BY <1>4 DEF s

LEMMA OneSink ==
  ASSUME NEW X, NEW s \in Seq(X), NEW port
  PROVE  /\ Prefixed(s, HostPort(s, port).host)
         /\ HostPort(s, port).host # s => PortText[Last(s)] = HostPort(s, port).port
         /\ Spelled(HostPort(s, port))
<1>1. CASE Len(s) = 2 /\ Legible(s[1], s[2])
  <2> DEFINE a == s[1]
             h == <<a>>
             p == PortText[s[2]]
  <2>1. HostPort(s, port) = Sink(h, p)
    BY <1>1, SinkIs
  <2>2. a \in X /\ a # ""
    <3>1. 1 \in 1 .. Len(s)
      BY <1>1
    <3>2. s[1] # ""
      BY <1>1 DEF Legible
    <3>3. QED BY <3>1, <3>2, Mine
  <2>3. h \in Seq(X) /\ Len(h) = 1 /\ h[1] = a
    BY <2>2, OneOf
  <2>4. p = PortText[Last(s)]
    BY <1>1 DEF Last
  <2> HIDE DEF p, a
  <2>5. \A text \in DOMAIN PortText : PortText[text] = p => HostPort(h \o <<text>>, 0) = Sink(h, p)
    BY <2>2, Respelled
  <2> HIDE DEF h
  <2>6. Prefixed(s, h)
    BY <1>1, <2>3, Starts DEF a
  <2>7. Spelled(Sink(h, p))
    BY <2>5, SinkIs DEF Spelled
  <2>8. QED BY <2>1, <2>4, <2>6, <2>7, SinkIs
<1>2. CASE ~(Len(s) = 2 /\ Legible(s[1], s[2]))
  <2>1. HostPort(s, port) = Sink(s, port)
    BY <1>2, SinkIs
  <2>2. ASSUME NEW text \in DOMAIN PortText, s[1] # "", Len(s) = 1, PortText[text] = port
        PROVE  HostPort(s \o <<text>>, 0) = Sink(s, port)
    <3> DEFINE a == s[1]
    <3>1. s = <<a>>
      BY <2>2, Single
    <3> HIDE DEF a
    <3>2. a # ""
      BY <2>2 DEF a
    <3>3. HostPort(<<a>> \o <<text>>, 0) = Sink(<<a>>, port)
      BY <2>2, <3>2, Respelled
    <3>4. QED BY <3>1, <3>3
  <2>3. Spelled(Sink(s, port))
    BY <2>2, SinkIs DEF Spelled
  <2>4. QED BY <2>1, <2>3, SinkIs, Whole
<1>3. QED BY <1>1, <1>2

LEMMA SinksAreMeant ==
  ASSUME NEW X, NEW list \in Seq(Seq(X)), NEW port
  PROVE  SinksMean(list, port)
<1> DEFINE named == NonEmpty(list)
           rows == [i \in DOMAIN named |-> HostPort(named[i], port)]
           sinks == SinkTargets(list, port)
<1>1. named \in Seq(Seq(X))
  <2>1. NonEmpty(list) = Only(list, Range(list) \ {Blank})
    BY DEF NonEmpty, Only
  <2>2. QED BY <2>1, OnlyEnds
<1>2. sinks = IF rows = <<>> THEN <<[host |-> Blank, port |-> port]>> ELSE rows
  BY DEF SinkTargets
<1> HIDE DEF named, sinks
<1>3. /\ Len(named) \in Nat /\ DOMAIN named = 1 .. Len(named) /\ DOMAIN rows = DOMAIN named
      /\ \A i \in DOMAIN named : named[i] \in Seq(X) /\ rows[i] = HostPort(named[i], port)
  BY <1>1
<1>4. named # <<>> => sinks = rows
  <2> SUFFICES ASSUME named # <<>> PROVE rows # <<>>
    BY <1>2
  <2>1. 1 \in DOMAIN named
    BY <1>1, <1>3
  <2>2. QED BY <1>3, <2>1
<1> HIDE DEF rows
<1>5. named # <<>> => Len(sinks) = Len(named)
  BY <1>3, <1>4
<1>6. ASSUME NEW i \in DOMAIN named
      PROVE  sinks[i] = HostPort(named[i], port) /\ named[i] \in Seq(X)
  <2>1. named # <<>>
    BY <1>6
  <2>2. QED BY <1>3, <1>4, <2>1
<1>7. ASSUME NEW i \in DOMAIN named
      PROVE  /\ IsPrefix(sinks[i].host, named[i])
             /\ sinks[i].host # named[i] => PortText[Last(named[i])] = sinks[i].port
             /\ \A text \in DOMAIN PortText :
                  sinks[i].host[1] # "" /\ Len(sinks[i].host) = 1 /\ PortText[text] = sinks[i].port =>
                    HostPort(sinks[i].host \o <<text>>, 0) = sinks[i]
  <2> DEFINE s == named[i]
             sink == sinks[i]
  <2>1. s \in Seq(X) /\ sink = HostPort(s, port)
    BY <1>6
  <2> HIDE DEF s, sink
  <2>2. Prefixed(s, sink.host) /\ Spelled(sink)
    BY <2>1, OneSink
  <2>3. sink.host # s => PortText[Last(s)] = sink.port
    BY <2>1, OneSink
  <2>4. QED BY <2>2, <2>3 DEF Prefixed, Spelled, s, sink
<1>8. QED BY <1>5, <1>7 DEF SinksMean, named, sinks

-----------------------------------------------------------------------------
(* The parts together (MCRules).                                           *)
rulesVars == <<caseVars, hotVars, parVars, cfgVars, memVars, memoVars>>
Booted(c) ==
  \/ c = Nothing
  \/ \E e \in Chosen(EnvPaths), n \in Chosen(EnvNumbers) : c = [s |-> <<"env">>, t |-> Together(e, n)]
  \/ \E l \in SinkLists, n \in Chosen(EnvNumbers) : c = [s |-> <<"sinks">>, t |-> l, env |-> n]
RulesInv == RulesTypeOK /\ (part = "boot" => Booted(case)) /\ (part # "config" => running = <<>>)

(* The environments of the instance are environments.                      *)
Chose(given, c) == DOMAIN c \subseteq DOMAIN given /\ \A k \in DOMAIN c : c[k] \in given[k]
LEMMA FromChosen == \A given : \A c \in Chosen(given) : Chose(given, c)
<1> SUFFICES ASSUME NEW given, NEW c \in Chosen(given) PROVE Chose(given, c)
  OBVIOUS
<1> DEFINE All(K) == {f \in [K -> UNION {given[k] : k \in K}] : \A k \in K : f[k] \in given[k]}
<1>1. Chosen(given) = UNION {All(K) : K \in SUBSET DOMAIN given}
  BY DEF Chosen
<1>2. PICK K \in SUBSET DOMAIN given : c \in All(K)
  BY <1>1
<1>3. QED BY <1>2 DEF Chose

LEMMA EnvCases ==
  ASSUME NEW e \in Chosen(EnvPaths), NEW n \in Chosen(EnvNumbers)
  PROVE  EnvMeans(Together(e, n))
<1> DEFINE T == Names \cup {"mnt", "nxr", "idx", "ssd", "etc", "params"}
           both == Together(e, n)
<1>1. \A k \in DOMAIN EnvPaths : EnvPaths[k] \subseteq Seq(T)
  <2>1. /\ <<>> \in Seq(T) /\ <<"bars">> \in Seq(T) /\ <<"etc">> \in Seq(T) /\ <<"params">> \in Seq(T)
        /\ <<"idx">> \in Seq(T)
    BY OneOf DEF Names
  <2>2. <<"mnt", "nxr">> \in Seq(T) /\ <<"ssd", "idx">> \in Seq(T)
    OBVIOUS
  <2> HIDE DEF T
  <2>3. DOMAIN EnvPaths = {"data_root", "indexes_dir", "bars_dir", "config_dir", "ticker_params_path"}
    BY DEF EnvPaths
  <2>4. /\ EnvPaths.data_root = {<<>>, <<"mnt", "nxr">>}
        /\ EnvPaths.indexes_dir = {<<>>, <<"idx">>, <<"ssd", "idx">>}
        /\ EnvPaths.bars_dir = {<<"bars">>} /\ EnvPaths.config_dir = {<<"etc">>}
        /\ EnvPaths.ticker_params_path = {<<"params">>}
    BY DEF EnvPaths
  <2>5. QED BY <2>1, <2>2, <2>3, <2>4
<1>2. ASSUME NEW k \in Paths \cap DOMAIN both PROVE both[k] \in Seq(T)
  <2>1. k \notin DOMAIN EnvNumbers
    BY DEF EnvNumbers, Paths
  <2>2. DOMAIN n \subseteq DOMAIN EnvNumbers /\ DOMAIN e \subseteq DOMAIN EnvPaths
        /\ \A x \in DOMAIN e : e[x] \in EnvPaths[x]
    BY FromChosen DEF Chose
  <2>3. k \in DOMAIN both /\ k \notin DOMAIN n
    BY <2>1, <2>2
  <2>4. k \in DOMAIN e /\ both[k] = e[k]
    BY <2>3 DEF Together
  <2>5. QED BY <1>1, <2>2, <2>4
<1>3. EnvTyped(both, T)
  BY <1>2 DEF EnvTyped
<1> HIDE DEF T, both
<1>4. EnvMeans(both)
  BY <1>3, EnvIsMeant
<1>5. QED BY <1>4 DEF both

LEMMA SinkCases ==
  ASSUME NEW l \in SinkLists, NEW port
  PROVE  SinksMean(l, port)
<1> DEFINE T == {"", "a", "b", "x", "9"}
           S == {Blank, <<"a">>, <<"b", "9">>, <<"b", "x">>, <<"", "9">>, <<"", "", "9">>}
<1>1. S \subseteq Seq(T)
  <2>1. Blank \in Seq(T) /\ <<"a">> \in Seq(T)
    BY OneOf DEF Blank
  <2>2. <<"b", "9">> \in Seq(T) /\ <<"b", "x">> \in Seq(T) /\ <<"", "9">> \in Seq(T)
    OBVIOUS
  <2>3. <<"", "", "9">> \in Seq(T)
    OBVIOUS
  <2>4. QED BY <2>1, <2>2, <2>3
<1>2. l \in UNION {[1 .. m -> S] : m \in 0 .. 3}
  BY DEF SinkLists, BoundedSeq, SeqOf
<1> HIDE DEF T, S
<1>3. l \in Seq(Seq(T))
  <2>1. PICK m \in 0 .. 3 : l \in [1 .. m -> S]
    BY <1>2
  <2>2. m \in Nat /\ l \in [1 .. m -> Seq(T)]
    BY <1>1, <2>1
  <2>3. QED BY <2>2
<1>4. QED BY <1>3, SinksAreMeant

LEMMA BootMeans ==
  ASSUME NEW c, Booted(c)
  PROVE  /\ c.s = <<"env">> => EnvMeans(c.t)
         /\ c.s = <<"sinks">> => SinksMean(c.t, FromEnv(c.env).sink_port)
<1>1. <<>> # <<"env">> /\ <<>> # <<"sinks">> /\ <<"env">> # <<"sinks">>
  OBVIOUS
<1>2. CASE c = Nothing
  BY <1>1, <1>2 DEF Nothing
<1>3. ASSUME NEW e \in Chosen(EnvPaths), NEW n \in Chosen(EnvNumbers),
             c = [s |-> <<"env">>, t |-> Together(e, n)]
      PROVE  c.s = <<"env">> /\ EnvMeans(c.t)
  BY <1>3, EnvCases
<1>4. ASSUME NEW l \in SinkLists, NEW n \in Chosen(EnvNumbers),
             c = [s |-> <<"sinks">>, t |-> l, env |-> n]
      PROVE  c.s = <<"sinks">> /\ SinksMean(c.t, FromEnv(c.env).sink_port)
  BY <1>4, SinkCases
<1>5. QED BY <1>1, <1>2, <1>3, <1>4 DEF Booted

LEMMA RulesInitInv == RulesInit => RulesInv
<1> SUFFICES ASSUME RulesInit PROVE RulesInv
  OBVIOUS
<1>1. ParInv /\ MemoInv /\ HotInv
  BY ParInitInv, MemoInitInv, HotInitInv DEF RulesInit
<1>2. part = "config" => CfgInv
  BY CfgInitInv DEF RulesInit
<1>3. part = "memory" => MemInv
  BY MemInitInv DEF RulesInit
<1>4. part = "boot" => Booted(case)
  BY DEF RulesInit, Booted
<1>5. part # "config" => running = <<>>
  BY DEF RulesInit
<1>6. QED BY <1>1, <1>2, <1>3, <1>4, <1>5 DEF RulesInv, RulesTypeOK

LEMMA RulesNextInv == RulesInv /\ [RulesNext]_rulesVars => RulesInv'
<1> SUFFICES ASSUME RulesInv, [RulesNext]_rulesVars PROVE RulesInv'
  OBVIOUS
<1>1. part' = part
  BY DEF RulesNext, rulesVars, caseVars
<1>2. part = "params" => ParInv'
  <2>1. part = "params" => [ParNext]_parVars
    BY DEF RulesNext, rulesVars
  <2>2. QED BY <2>1, ParNextInv DEF RulesInv, RulesTypeOK
<1>3. part = "config" => CfgInv'
  <2>1. part = "config" => [CfgNext]_cfgVars
    BY DEF RulesNext, rulesVars
  <2>2. QED BY <2>1, CfgNextInv DEF RulesInv, RulesTypeOK
<1>4. part = "watch" => HotInv'
  <2>1. part = "watch" => [HotNext]_hotVars
    BY DEF RulesNext, rulesVars
  <2>2. QED BY <2>1, HotNextInv DEF RulesInv, RulesTypeOK
<1>5. part = "memory" => MemInv'
  <2>1. part = "memory" => [MemNext]_memVars
    BY DEF RulesNext, rulesVars
  <2>2. QED BY <2>1, MemNextInv DEF RulesInv, RulesTypeOK
<1>6. part = "memo" => MemoInv'
  <2>1. part = "memo" => [MemoNext]_memoVars
    BY DEF RulesNext, rulesVars
  <2>2. QED BY <2>1, MemoNextInv DEF RulesInv, RulesTypeOK
<1>7. part = "boot" => Booted(case')
  <2> SUFFICES ASSUME part = "boot" PROVE Booted(case')
    OBVIOUS
  <2>1. CASE case' = case
    BY <2>1 DEF RulesInv
  <2>2. CASE case' # case
    <3>1. \E n \in Chosen(EnvNumbers) :
            \/ \E e \in Chosen(EnvPaths) : case' = [s |-> <<"env">>, t |-> Together(e, n)]
            \/ \E l \in SinkLists : case' = [s |-> <<"sinks">>, t |-> l, env |-> n]
      BY <2>2 DEF RulesNext, rulesVars, caseVars
    <3>2. QED BY <3>1 DEF Booted
  <2>3. QED BY <2>1, <2>2
<1>8. part # "config" => running' = running
  BY DEF RulesNext, rulesVars, cfgVars
<1>9. (part = "boot" => Booted(case))'
  BY <1>1, <1>7 DEF Booted
<1>10. QED
  BY <1>1, <1>2, <1>3, <1>4, <1>5, <1>6, <1>8, <1>9 DEF RulesInv, RulesTypeOK

(* Every state of every part has the types of that part and satisfies the  *)
(* invariant its properties rest on, on every host and for every config    *)
(* file, number of runs and number of threads.                             *)
THEOREM RulesTyped == RulesSpec => []RulesTypeOK
<1>1. RulesInv => RulesTypeOK
  BY DEF RulesInv
<1>2. QED BY <1>1, RulesInitInv, RulesNextInv, PTL DEF RulesSpec, rulesVars

(* What a process is told is told whole: no writer of ticker-params.json   *)
(* reverts the other (weights_schema.rs:14), the guard acts before the     *)
(* kernel (memory.rs:243), the storage policy and the cadence of a process *)
(* are those of the file it booted from (shard.rs:1131), a memo answers    *)
(* what the resolver does and stays bounded (ticker.rs:98), and a process  *)
(* reads back from its environment what the environment says               *)
(* (config.rs:222).                                                        *)
THEOREM ToldTheTruth == RulesSpec => []OneTruth
<1>1. RulesInv => OneTruth
  <2> SUFFICES ASSUME RulesInv PROVE OneTruth
    OBVIOUS
  <2>1. part = "params" => NothingReverted
    BY DEF RulesInv, RulesTypeOK, ParInv
  <2>2. part = "memory" => GuardFirst
    BY DEF RulesInv, RulesTypeOK, MemInv
  <2>3. part = "config" => OnePolicy
    BY InvOnePolicy DEF RulesInv, RulesTypeOK
  <2>4. part = "memo" => MemoTrue
    BY DEF RulesInv, RulesTypeOK, MemoInv
  <2>5. part = "boot" => /\ case.s = <<"env">> => EnvMeans(case.t)
                         /\ case.s = <<"sinks">> => SinksMean(case.t, FromEnv(case.env).sink_port)
    BY BootMeans DEF RulesInv
  <2>6. QED BY <2>1, <2>2, <2>3, <2>4, <2>5 DEF OneTruth
<1>2. QED BY <1>1, RulesInitInv, RulesNextInv, PTL DEF RulesSpec, rulesVars

(* pipeline_config.rs:1652 and 2565: whatever file check accepts, the      *)
(* process that runs with it partitions its symbols, stores every asset    *)
(* under one quote, and sweeps no bar that a window of its signer reads.   *)
THEOREM ConfigMeansWhatItSays == RulesSpec => []AcceptedMeans
<1>1. RulesInv => AcceptedMeans
  <2> SUFFICES ASSUME RulesInv PROVE AcceptedMeans
    OBVIOUS
  <2>1. CASE part = "config"
    BY <2>1, InvAcceptedMeans DEF RulesInv, RulesTypeOK
  <2>2. CASE part # "config"
    BY <2>2 DEF RulesInv, AcceptedMeans
  <2>3. QED BY <2>1, <2>2
<1>2. QED BY <1>1, RulesInitInv, RulesNextInv, PTL DEF RulesSpec, rulesVars

=============================================================================
