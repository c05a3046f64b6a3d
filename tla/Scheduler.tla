------------------------------- MODULE Scheduler -------------------------------
(***************************************************************************)
(* The background jobs of the API's processes (apps/api/src/jobs).  Every  *)
(* 15 s a process polls a lease in Redis; the one that holds it arms the   *)
(* timers of the jobs.  A run of a job is a row, of which the database     *)
(* accepts one RUNNING per job.  A row that a crash leaves RUNNING is      *)
(* failed by a later run of Housekeeping, or by a process that shuts down. *)
(*                                                                         *)
(* A process runs a job at most once at a time.  A second run of a job     *)
(* inserts a SKIPPED row and does nothing else: a step that changes        *)
(* nothing here.  COMPLETED and FAILED rows are both "ENDED".              *)
(***************************************************************************)
EXTENDS Naturals

CONSTANTS Proc, Job, Housekeeping, MaxFaults

VARIABLES
  lease,   \* the key tcg:jobs:leader: a process, or None
  up,      \* [Proc -> what it does: serving, the stages of its shutdown, DOWN]
  armed,   \* [Proc -> whether its job timers are armed]
  held,    \* [Proc -> the lease its poll in flight has read, or Idle]
  run,     \* [Proc \X Job -> [row, old, at]] the last run of a job by a process
  faults   \* crashes, shutdowns, errors of Redis and lapses of a live lease
schedulerVars == <<lease, up, armed, held, run, faults>>

None == "none"
Idle == "idle"
Up == {"UP", "STOPPED", "RELEASING", "RELEASED"}

TypeOK ==
    /\ lease \in Proc \cup {None}
    /\ up \in [Proc -> Up \cup {"DOWN"}]
    /\ armed \in [Proc -> BOOLEAN]
    /\ held \in [Proc -> Proc \cup {None, Idle}]
    /\ run \in [Proc \X Job -> [row : {"RUNNING", "ENDED"}, old : BOOLEAN,
                                at : {"idle", "working", "swept"}]]
    /\ faults \in 0..MaxFaults

Init ==
    /\ lease = None /\ faults = 0
    /\ up = [p \in Proc |-> "DOWN"]
    /\ armed = [p \in Proc |-> FALSE]
    /\ held = [p \in Proc |-> Idle]
    /\ run = [r \in Proc \X Job |-> [row |-> "ENDED", old |-> FALSE, at |-> "idle"]]

Fault == faults < MaxFaults /\ faults' = faults + 1

----------------------------------------------------------------------------
(* The lease.                                                              *)
Boot(p) ==
    /\ up[p] = "DOWN"
    /\ up' = [up EXCEPT ![p] = "UP"]
    /\ UNCHANGED <<lease, armed, held, run, faults>>

ReadLease(p) ==
    /\ up[p] = "UP" /\ held[p] = Idle
    /\ held' = [held EXCEPT ![p] = lease]
    /\ UNCHANGED <<lease, up, armed, run, faults>>

(* The lease that a process leaves, and whether it holds it, when it had   *)
(* read seen: renewed, whoever has it now, or taken if it is free.         *)
Renewed(p, seen) ==
    IF seen = p \/ (seen = None /\ lease = None) THEN p ELSE lease
Holds(p, seen) == seen = p \/ (seen = None /\ lease = None)

(* Not the leader: the timers are cleared.  A process that has stopped     *)
(* renews the lease and arms nothing.                                      *)
Arms_Keeps(p, leader) == armed[p] \/ (leader /\ up[p] = "UP")

Arms(p, leader) == leader /\ up[p] = "UP"

HoldLease(p) ==
    /\ held[p] # Idle
    /\ lease' = Renewed(p, held[p])
    /\ armed' = [armed EXCEPT ![p] = Arms(p, Holds(p, held[p]))]
    /\ held' = [held EXCEPT ![p] = Idle]
    /\ UNCHANGED <<up, run, faults>>

LockFails(p) ==
    /\ held[p] # Idle /\ Fault
    /\ armed' = [armed EXCEPT ![p] = FALSE]
    /\ held' = [held EXCEPT ![p] = Idle]
    /\ UNCHANGED <<lease, up, run>>

(* 60 s without a renewal: the holder is down, or its polls are late.      *)
ExpireDead ==
    /\ lease # None /\ up[lease] # "UP"
    /\ lease' = None
    /\ UNCHANGED <<up, armed, held, run, faults>>

ExpireLive ==
    /\ lease # None /\ up[lease] = "UP" /\ Fault
    /\ lease' = None
    /\ UNCHANGED <<up, armed, held, run>>

----------------------------------------------------------------------------
(* Runs.                                                                   *)
Running(j) == \E p \in Proc : run[p, j].row = "RUNNING"

MayRun(j) == ~Running(j)

StartRun(p, j) ==
    /\ armed[p] /\ run[p, j].at = "idle" /\ MayRun(j)
    /\ run' = [run EXCEPT ![<<p, j>>] = [row |-> "RUNNING", old |-> FALSE, at |-> "working"]]
    /\ UNCHANGED <<lease, up, armed, held, faults>>

(* failStale: the runs of every process.                                   *)
IsStale_Own(r) == run[r].row = "RUNNING" /\ run[r].old /\ run[r].at # "idle"

IsStale(r) == run[r].row = "RUNNING" /\ run[r].old

Failed == [r \in Proc \X Job |->
    IF IsStale(r) THEN [run[r] EXCEPT !.row = "ENDED"] ELSE run[r]]

SweepStale(p) ==
    /\ run[p, Housekeeping].at = "working"
    /\ run' = [Failed EXCEPT ![<<p, Housekeeping>>].at = "swept"]
    /\ UNCHANGED <<lease, up, armed, held, faults>>

(* COMPLETED or FAILED, also over a row that failStale has ended.          *)
EndRun(p, j) ==
    /\ run[p, j].at # "idle" /\ (j = Housekeeping => run[p, j].at = "swept")
    /\ run' = [run EXCEPT ![<<p, j>>].row = "ENDED", ![<<p, j>>].at = "idle"]
    /\ UNCHANGED <<lease, up, armed, held, faults>>

(* A run is older than jobStaleMinutes.                                    *)
Age(p, j) ==
    /\ run[p, j].row = "RUNNING" /\ ~run[p, j].old
    /\ run' = [run EXCEPT ![<<p, j>>].old = TRUE]
    /\ UNCHANGED <<lease, up, armed, held, faults>>

----------------------------------------------------------------------------
(* The end of a process: its runs are dropped, their rows stay.            *)
Dropped(p) == [r \in Proc \X Job |->
    IF r[1] = p THEN [run[r] EXCEPT !.at = "idle"] ELSE run[r]]

Crash(p) ==
    /\ up[p] # "DOWN" /\ Fault
    /\ up' = [up EXCEPT ![p] = "DOWN"]
    /\ armed' = [armed EXCEPT ![p] = FALSE]
    /\ held' = [held EXCEPT ![p] = Idle]
    /\ run' = Dropped(p)
    /\ UNCHANGED lease

Stop(p) ==
    /\ up[p] = "UP" /\ Fault
    /\ up' = [up EXCEPT ![p] = "STOPPED"]
    /\ armed' = [armed EXCEPT ![p] = FALSE]
    /\ UNCHANGED <<lease, held, run>>

ReadToRelease(p) ==
    /\ up[p] = "STOPPED"
    /\ up' = [up EXCEPT ![p] = IF lease = p THEN "RELEASING" ELSE "RELEASED"]
    /\ UNCHANGED <<lease, armed, held, run, faults>>

(* Deletes the key, whoever has it by now.                                 *)
Release(p) ==
    /\ up[p] = "RELEASING"
    /\ up' = [up EXCEPT ![p] = "RELEASED"]
    /\ lease' = None
    /\ UNCHANGED <<armed, held, run, faults>>

FailAll(p) ==
    /\ up[p] = "RELEASED"
    /\ up' = [up EXCEPT ![p] = "DOWN"]
    /\ held' = [held EXCEPT ![p] = Idle]
    /\ run' = [r \in Proc \X Job |-> [Dropped(p)[r] EXCEPT !.row = "ENDED"]]
    /\ UNCHANGED <<lease, armed, faults>>

----------------------------------------------------------------------------
Next ==
    \/ \E p \in Proc : \/ Boot(p) \/ ReadLease(p) \/ HoldLease(p) \/ LockFails(p)
                       \/ SweepStale(p) \/ Crash(p)
                       \/ Stop(p) \/ ReadToRelease(p) \/ Release(p) \/ FailAll(p)
                       \/ \E j \in Job : StartRun(p, j) \/ EndRun(p, j) \/ Age(p, j)
    \/ ExpireDead \/ ExpireLive

(* Timers and time go on, and a process that goes down is started again.   *)
Fairness ==
    /\ \A p \in Proc :
         /\ WF_schedulerVars(Boot(p)) /\ WF_schedulerVars(ReadLease(p))
         /\ WF_schedulerVars(HoldLease(p)) /\ WF_schedulerVars(SweepStale(p))
         /\ WF_schedulerVars(ReadToRelease(p)) /\ WF_schedulerVars(Release(p))
         /\ WF_schedulerVars(FailAll(p)) /\ WF_schedulerVars(StartRun(p, Housekeeping))
         /\ \A j \in Job : WF_schedulerVars(EndRun(p, j)) /\ WF_schedulerVars(Age(p, j))
    /\ WF_schedulerVars(ExpireDead)

Spec == Init /\ [][Next]_schedulerVars /\ Fairness

----------------------------------------------------------------------------
(* A process that runs the jobs without the lease, which lapsed between    *)
(* its read and its write or was deleted by another that shut down, stops  *)
(* or gets it back (scheduler-lock.ts:35).                                 *)
Ousted(p) == armed[p] /\ lease # p

LeaderHoldsLease == \A p \in Proc : Ousted(p) ~> ~Ousted(p)

(* A row left RUNNING by a process that is gone ends, unless it is, or     *)
(* there is, one of Housekeeping: that one blocks every later Housekeeping *)
(* and only a shutdown ends it (jobs.service.ts:58, job-runner.ts:113).    *)
Orphan(p, j) == run[p, j].row = "RUNNING" /\ run[p, j].at = "idle"

Swept(p, j) == ~Orphan(p, j) \/ \E q \in Proc : Orphan(q, Housekeeping)

StaleRunEnds == \A p \in Proc, j \in Job : Orphan(p, j) ~> Swept(p, j)
=============================================================================
