------------------------------- MODULE ScanPass -------------------------------
(***************************************************************************)
(* The passes of the scheduler and of the reconciler: RunOnce, run by      *)
(* several replicas over the same rows.                                    *)
(*                                                                         *)
(* A pass makes its scans in order.  A scan reads at most BatchSize        *)
(* candidates without a lock, oldest first, and repairs each in a          *)
(* transaction of its own that looks at the row again under its lock: by   *)
(* then another replica, or the row's own worker, may have settled it.     *)
(* The first error ends the pass, and what is left waits for the next one. *)
(* The counters of a pass reach the metrics only at the points where       *)
(* RunOnce records them.                                                   *)
(*                                                                         *)
(* What a repair does to the row is ControlPlane's subject; here it is the *)
(* set of counters it adds to.                                             *)
(***************************************************************************)
EXTENDS Naturals, Sequences, FiniteSets, SequencesExt, FiniteSetsExt

CONSTANTS
    Replicas,   \* the processes running the engine
    RowCount,   \* rows, numbered from the oldest
    BatchSize,  \* candidates a scan reads
    NULL

SizesAssumption == RowCount \in Nat \ {0} /\ BatchSize \in Nat \ {0}

Rows == 1..RowCount
Scans == [scheduler |-> <<"promote", "renotify">>,
          reconciler |-> <<"stale", "timeouts", "expired">>]
Counters == {"promoted", "stale_session", "expired_lease", "timed_out", "canceled",
             "requeued", "retry_waiting", "dead_lettered"}

VARIABLES
    engine,     \* which of the two this is
    ripe,       \* the scans that would pick a row, none once it is settled
    repaired,   \* the counters the repair of a row stands for
    times,      \* how often a row was repaired
    scan,       \* where a replica's pass is, 0 between passes
    cands,      \* the candidates its scan still has to look at
    stats,      \* the counters of its pass
    counted,    \* the metrics
    failures    \* whether a pass has failed

vars == <<engine, ripe, repaired, times, scan, cands, stats, counted, failures>>

Zero == [c \in Counters |-> 0]
Plus(f, S) == [c \in Counters |-> f[c] + IF c \in S THEN 1 ELSE 0]
Sum(f, g) == [c \in Counters |-> f[c] + g[c]]
Committed == [c \in Counters |-> Cardinality({r \in Rows : c \in repaired[r]})]

------------------------------------------------------------------------------
(* What the repair of a row may be, for the scan that finds it.             *)

finalizeTimeout == {{"timed_out", "retry_waiting"}, {"timed_out", "dead_lettered"}}

reconcileExpiredLease ==
    {{"expired_lease", "canceled"}, {"expired_lease", "requeued"},
     {"expired_lease", "dead_lettered"}} \cup {{"expired_lease"} \cup t : t \in finalizeTimeout}

Repairs(s) ==
    CASE s = "promote" -> {{"promoted"}}
      [] s = "renotify" -> {{}}
      [] s = "stale" -> {{"stale_session"}}
      [] s = "timeouts" -> finalizeTimeout
      [] s = "expired" -> reconcileExpiredLease

ScanOf(p) == Scans[engine][scan[p]]

(* Seeded fault: the candidates are read without the condition. *)
CandidatesUnfiltered(s) == [i \in 1..Min({BatchSize, RowCount}) |-> i]

(* The oldest ripe rows, at most a batch of them. *)
Candidates(s) ==
    LET rows == SetToSortSeq({r \in Rows : s \in ripe[r]}, <)
    IN SubSeq(rows, 1, Min({BatchSize, Len(rows)}))

------------------------------------------------------------------------------
(* A replica's pass.                                                        *)

BeginPass(p) ==
    /\ scan[p] = 0
    /\ scan' = [scan EXCEPT ![p] = 1]
    /\ cands' = [cands EXCEPT ![p] = Candidates(Scans[engine][1])]
    /\ UNCHANGED <<engine, ripe, repaired, times, stats, counted, failures>>

(* The row no longer qualifies under its lock. *)
SkipRow(p) ==
    /\ scan[p] > 0
    /\ cands[p] # <<>>
    /\ ScanOf(p) \notin ripe[Head(cands[p])]
    /\ cands' = [cands EXCEPT ![p] = Tail(@)]
    /\ UNCHANGED <<engine, ripe, repaired, times, scan, stats, counted, failures>>

(* Seeded fault: the candidate is repaired as it was read. *)
RepairUnchecked(p, r) ==
    /\ scan[p] > 0
    /\ cands[p] # <<>>
    /\ Head(cands[p]) = r
    /\ times[r] < 2
    /\ \E k \in Repairs(ScanOf(p)) :
          /\ repaired' = [repaired EXCEPT ![r] = k]
          /\ stats' = [stats EXCEPT ![p] = Plus(@, k)]
    /\ ripe' = [ripe EXCEPT ![r] = {}]
    /\ times' = [times EXCEPT ![r] = @ + 1]
    /\ cands' = [cands EXCEPT ![p] = Tail(@)]
    /\ UNCHANGED <<engine, scan, counted, failures>>

RepairRow(p, r) ==
    /\ scan[p] > 0
    /\ cands[p] # <<>>
    /\ Head(cands[p]) = r
    /\ ScanOf(p) \in ripe[r]
    /\ \E k \in Repairs(ScanOf(p)) :
          /\ repaired' = [repaired EXCEPT ![r] = k]
          /\ stats' = [stats EXCEPT ![p] = Plus(@, k)]
    /\ ripe' = [ripe EXCEPT ![r] = {}]
    /\ times' = [times EXCEPT ![r] = @ + 1]
    /\ cands' = [cands EXCEPT ![p] = Tail(@)]
    /\ UNCHANGED <<engine, scan, counted, failures>>

(* RunOnce goes on to its next scan; the scheduler counts its promotions    *)
(* between its two scans, the reconciler everything after its last.         *)
EndScan(p) ==
    /\ scan[p] > 0
    /\ cands[p] = <<>>
    /\ IF scan[p] = Len(Scans[engine])
         THEN /\ scan' = [scan EXCEPT ![p] = 0]
              /\ counted' = IF engine = "reconciler" THEN Sum(counted, stats[p]) ELSE counted
              /\ stats' = [stats EXCEPT ![p] = Zero]
              /\ UNCHANGED cands
         ELSE /\ scan' = [scan EXCEPT ![p] = @ + 1]
              /\ cands' = [cands EXCEPT ![p] = Candidates(Scans[engine][scan[p] + 1])]
              /\ counted' = IF engine = "scheduler" THEN Sum(counted, stats[p]) ELSE counted
              /\ UNCHANGED stats
    /\ UNCHANGED <<engine, ripe, repaired, times, failures>>

(* A query, a repair or its commit fails, or the process dies: the pass is  *)
(* over, and RunOnce returns before it records anything more.  What         *)
(* finalizeTimeout counted before the commit that failed goes with the rest.*)
Fail(p) ==
    /\ scan[p] > 0
    /\ failures' = TRUE
    /\ scan' = [scan EXCEPT ![p] = 0]
    /\ cands' = [cands EXCEPT ![p] = <<>>]
    /\ stats' = [stats EXCEPT ![p] = Zero]
    /\ UNCHANGED <<engine, ripe, repaired, times, counted>>

(* The commit took effect and its answer was lost: an error all the same.   *)
CommitUnknown(p, r) ==
    /\ scan[p] > 0
    /\ cands[p] # <<>>
    /\ Head(cands[p]) = r
    /\ ScanOf(p) \in ripe[r]
    /\ \E k \in Repairs(ScanOf(p)) : repaired' = [repaired EXCEPT ![r] = k]
    /\ ripe' = [ripe EXCEPT ![r] = {}]
    /\ times' = [times EXCEPT ![r] = @ + 1]
    /\ failures' = TRUE
    /\ scan' = [scan EXCEPT ![p] = 0]
    /\ cands' = [cands EXCEPT ![p] = <<>>]
    /\ stats' = [stats EXCEPT ![p] = Zero]
    /\ UNCHANGED <<engine, counted>>

(* The row is settled by someone else: its worker reports, a user cancels.  *)
Settle(r) ==
    /\ ripe[r] # {}
    /\ ripe' = [ripe EXCEPT ![r] = {}]
    /\ UNCHANGED <<engine, repaired, times, scan, cands, stats, counted, failures>>

------------------------------------------------------------------------------
RipeFor == [scheduler |-> {{"promote"}, {"renotify"}},
            reconciler |-> {{"stale"}, {"timeouts"}, {"expired"}, {"timeouts", "expired"}}]

Init ==
    /\ engine \in DOMAIN Scans
    /\ ripe \in [Rows -> RipeFor[engine]]
    /\ repaired = [r \in Rows |-> {}]
    /\ times = [r \in Rows |-> 0]
    /\ scan = [p \in Replicas |-> 0]
    /\ cands = [p \in Replicas |-> <<>>]
    /\ stats = [p \in Replicas |-> Zero]
    /\ counted = Zero
    /\ failures = FALSE

Next ==
    \/ \E p \in Replicas :
          \/ BeginPass(p) \/ SkipRow(p) \/ EndScan(p) \/ Fail(p)
          \/ \E r \in Rows : RepairRow(p, r) \/ CommitUnknown(p, r)
    \/ \E r \in Rows : Settle(r)

(* What a replica does when nothing fails. *)
Pass(p) == BeginPass(p) \/ SkipRow(p) \/ EndScan(p)
EndScanNumber(p, i) == scan[p] = i /\ EndScan(p)

Spec == Init /\ [][Next]_vars

------------------------------------------------------------------------------
(* Two replicas that read the same candidates repair no row twice: what a   *)
(* scan read without a lock is looked at again under one.                   *)
RepairedOnce == \A r \in Rows : times[r] <= 1

(* Nothing is left to be done for the row. *)
Settled(r) == ripe[r] = {}

(* The metrics never report a repair that was not committed, although       *)
(* finalizeTimeout counts before the commit that may fail.                  *)
NeverOvercounted == \A c \in Counters : counted[c] <= Committed[c]

(* While no pass has failed, the metrics of a resting system are exact.     *)
CleanPassesCounted ==
    (~failures /\ \A p \in Replicas : scan[p] = 0) => counted = Committed

(* Repairs are made once and reported as made, with several replicas and    *)
(* with passes that fail half way (promoteDueJob, reconcileDueTimeout,      *)
(* Reconciler.RunOnce).                                                     *)
RepairsAreExact == RepairedOnce /\ NeverOvercounted /\ CleanPassesCounted
==============================================================================
