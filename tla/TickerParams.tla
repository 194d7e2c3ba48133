---------------------------- MODULE TickerParams ----------------------------
(***************************************************************************)
(* weights_schema.rs: ticker-params.json, written by two programs under    *)
(* the lock of the file.  Each takes the lock, reads the file, changes its *)
(* own fields and renames the new file in place; each may be killed at any *)
(* moment, and the kernel then releases its lock.                          *)
(*                                                                         *)
(* nxr-weights owns the volumes; nxr-calibrate stages one ticker at a time *)
(* for its run, and promotes the staged map when its pass is complete.     *)
(*                                                                         *)
(* WriteOnTimeout is a wrong version of the definition that follows it:    *)
(* nothing uses it, and the property is checked to fail with it.           *)
(***************************************************************************)
EXTENDS Integers, FiniteSets

CONSTANTS
  Tickers, Runs,     \* tickers of the roster; run ids
  Nobody,            \* no run, and no holder of the lock
  MaxEdits, MaxFails \* bounds of the model: volume edits; failures counted

Writers == {"weights", "calibrate"}

ASSUME ParAssumption ==
  /\ Nobody \notin Runs \cup Writers \cup Tickers
  /\ {MaxEdits, MaxFails} \subseteq Nat

Outcomes == {"ok", "failed", "skipped"}
Ready == "ready"

VARIABLES
  params,            \* the file
  holder,            \* who holds the lock
  turn, copy,          \* by writer: its next step, the file as it read it
  edit,              \* by writer: the change it is about to make
  run, todo,         \* the run nxr-calibrate is in, and what is left of it
  volumes            \* volume edits whose rename is done
parVars == <<params, holder, turn, copy, edit, run, todo, volumes>>

(* renko_k_per_ticker and renko_k_staged map a ticker to the run that      *)
(* fitted it; calibration_status counts failures in a row.                 *)
NoParams == [pair_volumes |-> 0, renko_k |-> [t \in Tickers |-> Nobody],
             staged |-> [t \in Tickers |-> Nobody], staged_run |-> Nobody,
             failures |-> [t \in Tickers |-> 0], last_run |-> [id |-> Nobody, finished |-> FALSE]]

-----------------------------------------------------------------------------
(* The changes.                                                            *)
Begin(f, r) ==
  [f EXCEPT !.staged = IF f.staged_run = r THEN @ ELSE [t \in Tickers |-> Nobody],
            !.staged_run = r, !.last_run = [id |-> r, finished |-> FALSE]]
Counted(n, outcome) ==
  CASE outcome = "ok" -> 0
    [] outcome = "failed" -> IF n < MaxFails THEN n + 1 ELSE n
    [] outcome = "skipped" -> n
Stage(f, r, t, outcome) ==
  [f EXCEPT !.staged[t] = IF outcome = "ok" THEN r ELSE Nobody,
            !.failures[t] = Counted(@, outcome)]
Promote(f, r) ==
  [f EXCEPT !.renko_k = f.staged, !.staged = [t \in Tickers |-> Nobody],
            !.staged_run = Nobody, !.last_run = [id |-> r, finished |-> TRUE]]
Changed(f, e) ==
  CASE e.op = "volumes" -> [f EXCEPT !.pair_volumes = @ + 1]
    [] e.op = "begin"   -> Begin(f, run)
    [] e.op = "stage"   -> Stage(f, run, e.ticker, e.outcome)
    [] e.op = "promote" -> Promote(f, run)

-----------------------------------------------------------------------------
(* ParamsLock: wait for the lock, then change, then release.               *)
Want(p, e) == /\ turn[p] = Ready
              /\ turn' = [turn EXCEPT ![p] = "wait"] /\ edit' = [edit EXCEPT ![p] = e]
Edits(op) == [op : {op}, ticker : {Nobody}, outcome : {"ok"}]
WantVolumes == /\ volumes < MaxEdits
               /\ \E e \in Edits("volumes") : Want("weights", e)
               /\ UNCHANGED <<params, holder, copy, run, todo, volumes>>
StartRun(r) == /\ run = Nobody
               /\ \E e \in Edits("begin") : Want("calibrate", e)
               /\ run' = r
               /\ todo' = {t \in Tickers : params.staged_run # r \/ params.staged[t] = Nobody}
               /\ UNCHANGED <<params, holder, copy, volumes>>
Fit(t, outcome) ==
  /\ run # Nobody /\ t \in todo
  /\ Want("calibrate", [op |-> "stage", ticker |-> t, outcome |-> outcome])
  /\ todo' = todo \ {t}
  /\ UNCHANGED <<params, holder, copy, run, volumes>>
WantPromote == /\ run # Nobody /\ todo = {}
               /\ \E e \in Edits("promote") : Want("calibrate", e)
               /\ UNCHANGED <<params, holder, copy, run, todo, volumes>>

Acquire(p) == /\ turn[p] = "wait" /\ holder = Nobody
              /\ holder' = p
              /\ turn' = [turn EXCEPT ![p] = "locked"]
              /\ UNCHANGED <<params, copy, edit, run, todo, volumes>>
Over(p) == turn' = [turn EXCEPT ![p] = Ready] /\ edit' = [edit EXCEPT ![p].op = "none"]
EndRun(p) == /\ run' = IF p = "calibrate" THEN Nobody ELSE run
             /\ todo' = IF p = "calibrate" THEN {} ELSE todo
(* 30 s are over: the program ends with the error.                         *)
WriteOnTimeout(p) ==
  /\ turn[p] = "wait" /\ holder \notin {Nobody, p}
  /\ turn' = [turn EXCEPT ![p] = "locked"]
  /\ UNCHANGED <<params, holder, copy, edit, run, todo, volumes>>
AcquireTimesOut(p) == /\ turn[p] = "wait" /\ holder \notin {Nobody, p}
                      /\ Over(p) /\ EndRun(p)
                      /\ UNCHANGED <<params, holder, copy, volumes>>
ReadParams(p) == /\ turn[p] = "locked"
                 /\ copy' = [copy EXCEPT ![p] = params]
                 /\ turn' = [turn EXCEPT ![p] = "rename"]
                 /\ UNCHANGED <<params, holder, edit, run, todo, volumes>>
Unlocked(p) == holder' = IF holder = p THEN Nobody ELSE holder
Rename(p) == /\ turn[p] = "rename"
             /\ params' = Changed(copy[p], edit[p])
             /\ volumes' = IF edit[p].op = "volumes" THEN volumes + 1 ELSE volumes
             /\ copy' = [copy EXCEPT ![p] = NoParams]
             /\ Over(p) /\ Unlocked(p)
             /\ IF edit[p].op = "promote" THEN EndRun(p) ELSE UNCHANGED <<run, todo>>
Kill(p) == /\ turn[p] # Ready \/ (p = "calibrate" /\ run # Nobody)
           /\ Over(p) /\ Unlocked(p) /\ EndRun(p)
           /\ copy' = [copy EXCEPT ![p] = NoParams]
           /\ UNCHANGED <<params, volumes>>

ParInit == /\ params = NoParams /\ holder = Nobody
           /\ turn = [p \in Writers |-> Ready] /\ copy = [p \in Writers |-> NoParams]
           /\ edit = [p \in Writers |-> [op |-> "none", ticker |-> Nobody, outcome |-> "ok"]]
           /\ run = Nobody /\ todo = {} /\ volumes = 0
ParNext ==
  \/ WantVolumes \/ WantPromote
  \/ \E r \in Runs : StartRun(r)
  \/ \E t \in Tickers, o \in Outcomes : Fit(t, o)
  \/ \E p \in Writers : Acquire(p) \/ AcquireTimesOut(p) \/ ReadParams(p) \/ Rename(p) \/ Kill(p)

ParSpec == ParInit /\ [][ParNext]_parVars

-----------------------------------------------------------------------------
FitMaps == [Tickers -> Runs \cup {Nobody}]
ParFiles ==
  [pair_volumes : Nat, renko_k : FitMaps, staged : FitMaps,
   staged_run : Runs \cup {Nobody}, failures : [Tickers -> 0 .. MaxFails],
   last_run : [id : Runs \cup {Nobody}, finished : BOOLEAN]]
Ops(p) == IF p = "weights" THEN {"volumes"} ELSE {"begin", "stage", "promote"}

ParTypeOK ==
  /\ params \in ParFiles /\ copy \in [Writers -> ParFiles]
  /\ holder \in Writers \cup {Nobody} /\ run \in Runs \cup {Nobody} /\ todo \subseteq Tickers
  /\ turn \in [Writers -> {Ready, "wait", "locked", "rename"}]
  /\ edit \in [Writers -> [op : {"none", "volumes", "begin", "stage", "promote"},
                           ticker : Tickers \cup {Nobody}, outcome : Outcomes]]
  /\ volumes \in Nat

RunsIn(map) == {map[t] : t \in Tickers} \ {Nobody}

(* weights_schema.rs:14: no writer reverts the fields of the other, killed *)
(* or timed out as either may be; and the live map is what one run fitted  *)
(* in a pass it completed, never a mixture of runs.                        *)
NothingReverted ==
  /\ params.pair_volumes = volumes
  /\ Cardinality(RunsIn(params.renko_k)) <= 1
  /\ \A t \in Tickers : params.staged[t] \in {params.staged_run, Nobody}

(* The inductive invariant: a writer past the lock holds it, so the copy   *)
(* it changes is the file; nxr-calibrate changes the file only in a run,   *)
(* and beyond the first edit of the run the file is staged for that run.   *)
Locked(p) == turn[p] \in {"locked", "rename"}
Beginning == turn["calibrate"] # Ready /\ edit["calibrate"].op = "begin"
LockInv == \A p \in Writers : /\ Locked(p) <=> holder = p
                              /\ turn[p] = "rename" => copy[p] = params
EditInv == \A p \in Writers : /\ turn[p] # Ready => edit[p].op \in Ops(p)
                              /\ edit[p].op = "stage" => edit[p].ticker \in Tickers
RunInv  == /\ turn["calibrate"] # Ready => run # Nobody
           /\ run # Nobody /\ ~Beginning => params.staged_run = run
ParInv  == ParTypeOK /\ LockInv /\ EditInv /\ RunInv /\ NothingReverted
=============================================================================
