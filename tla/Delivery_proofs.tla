-------------------------- MODULE Delivery_proofs --------------------------
(***************************************************************************)
(* Delivery keeps its inductive invariant, for any jobs, notifications,    *)
(* targets and bounds, and with it the promise of Outbox.                  *)
(*                                                                         *)
(* A step of one process is proved in three parts: what it leaves of the   *)
(* other processes (Others), what it leaves of the records (Unrecorded,    *)
(* when it writes none), and what it does to its own.                      *)
(***************************************************************************)
EXTENDS DeliveryInv, TLAPS

(* What a step of process j may touch: its own state, the entries of its   *)
(* own notifications, lock files that are free or its own, and the fences  *)
(* of targets whose lock files it holds.                                   *)
Stays(j) ==
  /\ proc' = [proc EXCEPT ![j] = proc'[j]]
  /\ \A t \in Targets : \/ tlock'[t] = tlock[t]
                        \/ tlock[t] = 0
                        \/ Running(j) /\ tlock[t] = proc[j].run
  /\ \A n \in Notifs : JobOf[n] # j => entry'[n] = entry[n] /\ got'[n] = got[n]
  /\ \A t \in Targets : \/ fence'[t] = fence[t]
                        \/ proc[j].pc \in Holding /\ t \in Needed(j)

(* A step that stays within its bounds leaves every other process with     *)
(* what it relies on.                                                      *)
LEMMA Others ==
  ASSUME IInv, NEW j \in Jobs, Stays(j), NEW i \in Jobs, i # j
  PROVE  Local(i)'
<1>1. proc'[i] = proc[i] /\ Local(i)
  BY DEF Stays, IInv, TypeOK
<1>2. Group(i)' = Group(i) /\ Needed(i)' = Needed(i)
  BY <1>1 DEF Group, Needed, Own
<1>3. \A n \in Group(i) : entry'[n] = entry[n] /\ got'[n] = got[n]
  BY DEF Stays, Group, Own
<1>4. \A n \in Own(i) : entry'[n] = entry[n]
  BY DEF Stays, Own
<1>5. \A t \in Needed(i) : t \in Targets
  BY DeliveryAssumption DEF Needed, Group, Own
<1>6. LocksOwned(i)'
  <2> SUFFICES ASSUME proc[i].pc \in Holding, NEW t \in Needed(i)
               PROVE  tlock'[t] = proc[i].run
    BY <1>1, <1>2 DEF LocksOwned
  <2>1. tlock[t] = proc[i].run /\ Running(i) /\ t \in Targets
    BY <1>1, <1>5 DEF Local, LocksOwned, Holding, Running
  <2>2. proc[i].run # proc[j].run /\ proc[i].run # 0
    BY <2>1 DEF IInv, Identities, TypeOK
  <2> QED
    BY <2>1, <2>2 DEF Stays
<1>7. ASSUME proc[i].pc \in Holding, NEW n \in Group(i)
      PROVE  fence'[TargetOf[n]] = fence[TargetOf[n]]
  <2>1. TargetOf[n] \in Needed(i) /\ Running(i)
    BY <1>7 DEF Needed, Holding, Running
  <2>2. tlock[TargetOf[n]] = proc[i].run /\ proc[i].run # proc[j].run
    BY <2>1, <1>7, <1>1 DEF Local, LocksOwned, IInv, Identities
  <2>3. ~(proc[j].pc \in Holding /\ TargetOf[n] \in Needed(j))
    BY <2>2 DEF IInv, Local, LocksOwned
  <2> QED
    BY <2>1, <2>3, <1>5 DEF Stays
<1>8. Preflighted(i)'
  BY <1>1, <1>2, <1>3, <1>4 DEF Local, Preflighted, Clear, Bound, Resend, Has,
    Complete, Own
<1>9. Current(i)'
  <2> SUFFICES ASSUME proc[i].pc \in Sending
               PROVE  Underway(i, proc[i].cur)'
    BY <1>1 DEF Current
  <2>1. Underway(i, proc[i].cur) /\ proc[i].cur \in Group(i)
    BY <1>1 DEF Local, Current, Underway
  <2>2. fence'[TargetOf[proc[i].cur]] = fence[TargetOf[proc[i].cur]]
    BY <2>1, <1>7 DEF Sending, Holding
  <2> QED
    BY ZenonT(60), <2>1, <2>2, <1>1, <1>2, <1>3 DEF Underway, Fired, NextKind, Complete, Has
<1>10. Behind(i)'
  <2>1. proc[i].pc \in Calling => proc[i].pc \in Holding
    BY DEF Calling, Sending, Holding
  <2> QED
    BY <2>1, <1>1, <1>2, <1>3, <1>7 DEF Local, Behind, Complete
<1> QED
  BY <1>6, <1>8, <1>9, <1>10 DEF Local

(* A step that writes neither receipts nor fences leaves the records true. *)
LEMMA Unrecorded ==
  ASSUME Recorded, UNCHANGED <<entry, fence, got, ver>>
  PROVE  Recorded'
BY DEF Recorded, Fenced, Receipted, FileFollows, FileAfterText,
  FailedFenceRecoverable, Recoverable, Midway, Has, Complete

(* A process that leaves the sending of a call, or has not begun with it,  *)
(* relies on nothing.                                                      *)
LEMMA Relieved ==
  ASSUME NEW j \in Jobs, proc'[j].pc \in {"idle", "dead", "preflight", "failed"}
  PROVE  Local(j)'
BY DEF Local, LocksOwned, Preflighted, Current, Behind, Holding, Calling, Sending

(* A process keeps its identity until it stops, and a new one is unused.   *)
LEMMA Identified ==
  ASSUME TypeOK, Identities, NEW j \in Jobs, NEW p \in Processes,
         proc' = [proc EXCEPT ![j] = p],
         \/ /\ p.pc \in {"idle", "dead"}
            /\ p.run = 0
            /\ runs' = runs
         \/ /\ Running(j)
            /\ p.pc \notin {"idle", "dead"}
            /\ p.run = proc[j].run
            /\ p.version = proc[j].version
            /\ runs' = runs
         \/ /\ p.pc \notin {"idle", "dead"}
            /\ p.version \in Versions
            /\ p.run = runs + 1
            /\ runs' = runs + 1
  PROVE  Identities'
<1>1. /\ \A i \in Jobs : i # j => proc'[i] = proc[i]
      /\ proc'[j] = p
      /\ runs \in Nat
      /\ \A i \in Jobs : proc[i].run \in Nat
  BY DEF TypeOK, Processes
<1>2. CASE p.pc \in {"idle", "dead"} /\ p.run = 0 /\ runs' = runs
  BY <1>1, <1>2 DEF Identities, Running
<1>3. CASE /\ Running(j)
           /\ p.pc \notin {"idle", "dead"}
           /\ p.run = proc[j].run
           /\ p.version = proc[j].version
           /\ runs' = runs
  BY <1>1, <1>3 DEF Identities, Running
<1>4. CASE /\ p.pc \notin {"idle", "dead"}
           /\ p.version \in Versions
           /\ p.run = runs + 1
           /\ runs' = runs + 1
  BY <1>1, <1>4 DEF Identities, Running
<1> QED
  BY <1>2, <1>3, <1>4

-----------------------------------------------------------------------------
(* Steps that write no receipt and no fence.                               *)

(* A process that stops, starts, or is between two calls.                  *)
LEMMA Retire ==
  ASSUME IInv, NEW j \in Jobs, NEW p \in Processes,
         proc' = [proc EXCEPT ![j] = p],
         \/ /\ p.pc \in {"idle", "dead"}
            /\ p.run = 0
            /\ runs' = runs
         \/ /\ p.pc \in {"preflight", "failed"}
            /\ Running(j)
            /\ p.run = proc[j].run
            /\ p.version = proc[j].version
            /\ runs' = runs
         \/ /\ p.pc \in {"preflight", "failed"}
            /\ p.version \in Versions
            /\ p.run = runs + 1
            /\ runs' = runs + 1,
         tlock' \in [Targets -> Nat],
         \A t \in Targets : \/ tlock'[t] = tlock[t]
                            \/ Running(j) /\ tlock[t] = proc[j].run,
         uploads' \subseteq Notifs,
         UNCHANGED <<entry, manifest, fence, history>>
  PROVE  IInv'
<1>1. proc'[j] = p /\ proc' = [proc EXCEPT ![j] = proc'[j]]
  BY DEF IInv, TypeOK
<1>2. TypeOK'
  BY DEF IInv, TypeOK, history
<1>3. Identities'
  BY Identified DEF IInv
<1>4. Recorded'
  BY Unrecorded DEF IInv, history
<1>5. \A i \in Jobs : Local(i)'
  <2>1. Stays(j)
    BY <1>1 DEF Stays, history
  <2>2. Local(j)'
    BY <1>1, Relieved
  <2> QED
    BY <2>1, <2>2, Others
<1> QED
  BY <1>2, <1>3, <1>4, <1>5 DEF IInv

LEMMA ProcessValues ==
  /\ Fresh \in Processes
  /\ [Fresh EXCEPT !.pc = "dead"] \in Processes
  /\ \A p \in Processes : NextCall(p) \in Processes
<1>1. Fresh \in Processes
  BY DEF Fresh, Processes, PCs, Receipts
<1>2. [Fresh EXCEPT !.pc = "dead"] \in Processes
  BY <1>1 DEF Processes, PCs
<1>3. ASSUME NEW p \in Processes
      PROVE  NextCall(p) \in Processes
  <2>1. CASE p.call = NumCalls
    BY <1>1, <2>1 DEF NextCall
  <2>2. CASE p.call # NumCalls
    <3>1. p.call + 1 \in Nat
      BY DEF Processes
    <3>2. NextCall(p) = [pc |-> "preflight", run |-> p.run, force |-> p.force,
            version |-> p.version, call |-> p.call + 1, retries |-> p.retries,
            todo |-> {}, cur |-> None, resp |-> "unknown", failed |-> FALSE]
      BY <2>2 DEF NextCall, Fresh
    <3> QED
      BY <3>1, <3>2 DEF Processes, PCs, Receipts
  <2> QED
    BY <2>1, <2>2
<1> QED
  BY <1>1, <1>2, <1>3

LEMMA Unlocking ==
  ASSUME TypeOK, NEW j \in Jobs
  PROVE  /\ Unlocked(j) \in [Targets -> Nat]
         /\ \A t \in Targets : \/ Unlocked(j)[t] = tlock[t]
                               \/ tlock[t] = proc[j].run
BY DEF TypeOK, Unlocked

LEMMA Leaving ==
  ASSUME IInv, NEW j \in Jobs, Running(j), Leave(j), uploads' \subseteq Notifs,
         UNCHANGED <<runs, entry, manifest, fence, history>>
  PROVE  IInv'
<1>1. proc[j] \in Processes
  BY DEF IInv, TypeOK
<1> DEFINE p == IF proc[j].call = 1 \/ Unresolved(j) THEN Fresh ELSE NextCall(proc[j])
<1>2. p \in Processes /\ proc' = [proc EXCEPT ![j] = p]
  BY <1>1, ProcessValues DEF Leave
<1>3. \/ p.pc \in {"idle", "dead"} /\ p.run = 0
      \/ /\ p.pc \in {"preflight", "failed"}
         /\ p.run = proc[j].run
         /\ p.version = proc[j].version
  BY DEF Fresh, NextCall
<1>4. /\ tlock' \in [Targets -> Nat]
      /\ \A t \in Targets : tlock'[t] = tlock[t] \/ tlock[t] = proc[j].run
  BY Unlocking DEF IInv, Leave
<1> HIDE DEF p
<1> QED
  BY <1>2, <1>3, <1>4, Retire

LEMMA StoppingSteps ==
  ASSUME IInv, NEW j \in Jobs,
         \/ PreflightRefuse(j) \/ PrepareRaise(j) \/ BeginRefused(j)
         \/ CallDone(j) \/ Retry(j) \/ GiveUp(j) \/ Crash(j) \/ ReviewJobLock(j)
         \/ \E force \in BOOLEAN, v \in Versions : Start(j, force, v)
  PROVE  IInv'
<1>0. /\ proc[j] \in Processes
      /\ uploads \subseteq Notifs
      /\ tlock \in [Targets -> Nat]
      /\ runs \in Nat
  BY DEF IInv, TypeOK
<1>1. CASE PreflightRefuse(j)
  BY <1>0, <1>1, Leaving DEF PreflightRefuse, At, Running, progressVars
<1>2. CASE PrepareRaise(j)
  <2>1. uploads' \subseteq Notifs
    BY <1>0, <1>2 DEF PrepareRaise, PendingFiles, Group, Own
  <2> QED
    BY <2>1, <1>2, Leaving DEF PrepareRaise, At, Running
<1>3. CASE BeginRefused(j)
  BY <1>0, <1>3, Leaving DEF BeginRefused, At, Running, progressVars
<1>4. CASE CallDone(j)
  <2> DEFINE p == IF proc[j].failed
                  THEN [proc[j] EXCEPT !.pc = "failed", !.todo = {}]
                  ELSE NextCall(proc[j])
  <2>0. [proc[j] EXCEPT !.pc = "failed", !.todo = {}] \in Processes
    BY <1>0 DEF Processes, PCs
  <2>1. p \in Processes /\ proc' = [proc EXCEPT ![j] = p]
    BY <2>0, <1>0, <1>4, ProcessValues DEF CallDone
  <2>2. \/ p.pc \in {"idle", "dead"} /\ p.run = 0
        \/ /\ p.pc \in {"preflight", "failed"}
           /\ p.run = proc[j].run
           /\ p.version = proc[j].version
    BY <1>0 DEF Fresh, NextCall, Processes
  <2>3. /\ tlock' \in [Targets -> Nat]
        /\ \A t \in Targets : tlock'[t] = tlock[t] \/ tlock[t] = proc[j].run
        /\ Running(j)
    BY <1>4, Unlocking DEF IInv, CallDone, At, Running
  <2> HIDE DEF p
  <2> QED
    BY <2>1, <2>2, <2>3, <1>0, <1>4, Retire DEF CallDone, progressVars
<1>5. CASE Retry(j)
  <2> DEFINE p == [proc[j] EXCEPT !.pc = "preflight", !.failed = FALSE,
                                  !.retries = @ + 1]
  <2>0. proc[j].retries + 1 \in Nat
    BY <1>0 DEF Processes
  <2>1. p \in Processes
    BY <2>0, <1>0 DEF Processes, PCs
  <2>2. proc' = [proc EXCEPT ![j] = p]
    BY <1>5 DEF Retry
  <2>3. /\ p.pc \in {"preflight", "failed"}
        /\ p.run = proc[j].run
        /\ p.version = proc[j].version
    BY <1>0 DEF Processes
  <2> HIDE DEF p
  <2> QED
    BY <2>1, <2>2, <2>3, <1>0, <1>5, Retire DEF Retry, At, Running, progressVars
<1>6. CASE GiveUp(j)
  BY <1>0, <1>6, Leaving DEF GiveUp, At, Running, progressVars
<1>7. CASE Crash(j)
  <2>1. [Fresh EXCEPT !.pc = "dead"].pc = "dead"
        /\ [Fresh EXCEPT !.pc = "dead"].run = 0
    BY DEF Fresh
  <2> QED
    BY <2>1, <1>0, <1>7, ProcessValues, Retire DEF Crash, progressVars
<1>8. CASE ReviewJobLock(j)
  <2>1. Fresh.pc = "idle" /\ Fresh.run = 0
    BY DEF Fresh
  <2> QED
    BY <2>1, <1>0, <1>8, ProcessValues, Retire DEF ReviewJobLock, progressVars
<1>9. ASSUME NEW force \in BOOLEAN, NEW v \in Versions, Start(j, force, v)
      PROVE  IInv'
  <2> DEFINE p == [Fresh EXCEPT !.pc = "preflight", !.run = runs + 1,
                                !.force = force, !.version = v, !.call = 1]
  <2>0. Fresh \in Processes /\ runs + 1 \in Nat
    BY <1>0, ProcessValues
  <2>1. p \in Processes /\ p.pc = "preflight" /\ p.run = runs + 1 /\ p.version = v
    BY <2>0 DEF Processes, PCs
  <2>2. proc' = [proc EXCEPT ![j] = p]
    BY <1>9 DEF Start
  <2> HIDE DEF p
  <2> QED
    BY <2>1, <2>2, <1>0, <1>9, Retire DEF Start, progressVars
<1> QED
  BY <1>1, <1>2, <1>3, <1>4, <1>5, <1>6, <1>7, <1>8, <1>9

(* A running process goes on, in the same call, towards its first message. *)
LEMMA Advance ==
  ASSUME IInv, NEW j \in Jobs, Running(j), NEW p \in Processes,
         proc' = [proc EXCEPT ![j] = p],
         p.pc \notin {"idle", "dead"},
         p.run = proc[j].run,
         p.version = proc[j].version,
         tlock' \in [Targets -> Nat],
         \A t \in Targets : tlock'[t] = tlock[t] \/ tlock[t] = 0,
         uploads' \subseteq Notifs,
         manifest' \in [Notifs -> Versions \cup {None}],
         UNCHANGED <<runs, entry, fence, history>>,
         Local(j)'
  PROVE  IInv'
<1>1. proc'[j] = p /\ proc' = [proc EXCEPT ![j] = proc'[j]]
  BY DEF IInv, TypeOK
<1>2. TypeOK'
  BY DEF IInv, TypeOK, history
<1>3. Identities'
  BY Identified DEF IInv
<1>4. Recorded'
  BY Unrecorded DEF IInv, history
<1>5. Stays(j)
  BY <1>1 DEF Stays, history
<1> QED
  BY <1>2, <1>3, <1>4, <1>5, Others DEF IInv

LEMMA AdvancingSteps ==
  ASSUME IInv, NEW j \in Jobs,
         \/ PreflightPass(j) \/ AcquireLock(j) \/ LocksHeld(j)
         \/ StageDone(j) \/ PrepareDone(j)
  PROVE  IInv'
<1>0. /\ proc \in [Jobs -> Processes]
      /\ proc[j] \in Processes
      /\ uploads \subseteq Notifs
      /\ manifest \in [Notifs -> Versions \cup {None}]
      /\ tlock \in [Targets -> Nat]
      /\ Local(j)
  BY DEF IInv, TypeOK
<1>1. CASE PreflightPass(j)
  <2> DEFINE p == [proc[j] EXCEPT !.pc = "lock"]
  <2>1. p \in Processes /\ p.pc = "lock" /\ p.run = proc[j].run
        /\ p.version = proc[j].version
    BY <1>0 DEF Processes, PCs
  <2>2. proc' = [proc EXCEPT ![j] = p]
    BY <1>1 DEF PreflightPass
  <2>3. /\ proc'[j].pc = "lock"
        /\ Group(j)' = Group(j)
        /\ \A n \in Group(j) : ~Has(n, Blocking)' /\ Clear(j, n)'
    BY <1>0, <1>1 DEF PreflightPass, Processes, Group, Own, Admissible, Clear,
      Bound, Resend, Has, Complete, progressVars
  <2>4. Local(j)'
    BY <2>3 DEF Local, LocksOwned, Preflighted, Current, Behind,
      Holding, Calling, Sending
  <2> HIDE DEF p
  <2> QED
    BY <2>1, <2>2, <2>4, <1>0, <1>1, Advance
      DEF PreflightPass, At, Running, progressVars
<1>2. CASE AcquireLock(j)
  <2>1. CASE Leave(j)
    BY <2>1, <1>0, <1>2, Leaving DEF AcquireLock, At, Running, progressVars
  <2>2. CASE ~Leave(j)
    <3>1. PICK t \in Needed(j) :
            tlock[t] = 0 /\ tlock' = [tlock EXCEPT ![t] = proc[j].run]
            /\ UNCHANGED proc
      BY <2>2, <1>2 DEF AcquireLock
    <3>2. proc' = [proc EXCEPT ![j] = proc[j]] /\ proc[j].pc = "lock"
      BY <3>1, <1>0, <1>2 DEF AcquireLock, At
    <3>3. tlock' \in [Targets -> Nat]
          /\ \A u \in Targets : tlock'[u] = tlock[u] \/ tlock[u] = 0
      BY <3>1, <1>0 DEF Processes
    <3>4. Local(j)'
      BY <3>1, <3>2, <1>0, <1>2 DEF AcquireLock, Local, LocksOwned, Preflighted,
        Current, Behind, Holding, Calling, Sending, Group, Own, Clear, Bound,
        Resend, Has, Complete, progressVars
    <3> QED
      BY <3>2, <3>3, <3>4, <1>0, <1>2, Advance DEF AcquireLock, Running, progressVars
  <2> QED
    BY <2>1, <2>2
<1>3. CASE LocksHeld(j)
  <2> DEFINE p == [proc[j] EXCEPT !.pc = "stage"]
  <2>1. p \in Processes /\ p.pc = "stage" /\ p.run = proc[j].run
        /\ p.version = proc[j].version
    BY <1>0 DEF Processes, PCs
  <2>2. proc' = [proc EXCEPT ![j] = p]
    BY <1>3 DEF LocksHeld
  <2>3. /\ proc'[j].pc = "stage"
        /\ proc'[j].run = proc[j].run
        /\ proc'[j].force = proc[j].force
        /\ proc'[j].version = proc[j].version
        /\ Group(j)' = Group(j)
        /\ Needed(j)' = Needed(j)
    BY <1>0, <1>3 DEF LocksHeld, Processes, Group, Needed, Own
  <2>4. Local(j)'
    BY <2>3, <1>0, <1>3 DEF LocksHeld, At, Local, LocksOwned, Preflighted,
      Current, Behind, Holding, Calling, Sending, Clear, Bound, Resend, Has,
      Complete, Own, progressVars
  <2> HIDE DEF p
  <2> QED
    BY <2>1, <2>2, <2>4, <1>0, <1>3, Advance
      DEF LocksHeld, At, Running, progressVars
<1>4. CASE StageDone(j)
  <2> DEFINE p == [proc[j] EXCEPT !.pc = "prepare"]
  <2>1. p \in Processes /\ p.pc = "prepare" /\ p.run = proc[j].run
        /\ p.version = proc[j].version
    BY <1>0 DEF Processes, PCs
  <2>2. proc' = [proc EXCEPT ![j] = p]
        /\ manifest' \in [Notifs -> Versions \cup {None}]
    BY <1>0, <1>4 DEF StageDone, Processes
  <2>3. /\ proc'[j].pc = "prepare"
        /\ proc'[j].run = proc[j].run
        /\ proc'[j].version = proc[j].version
        /\ Group(j)' = Group(j)
        /\ Needed(j)' = Needed(j)
    BY <1>0, <1>4 DEF StageDone, Processes, Group, Needed, Own
  <2>4. Local(j)'
    BY <2>3, <1>0, <1>4 DEF StageDone, At, Local, LocksOwned, Preflighted,
      Current, Behind, Holding, Calling, Sending, Clear, Bound, Has
  <2> HIDE DEF p
  <2> QED
    BY <2>1, <2>2, <2>4, <1>0, <1>4, Advance DEF StageDone, At, Running
<1>5. CASE PrepareDone(j)
  <2> DEFINE p == [proc[j] EXCEPT !.pc = "send", !.todo = Group(j)]
  <2>1. p \in Processes /\ p.pc = "send" /\ p.run = proc[j].run
        /\ p.version = proc[j].version
    BY <1>0 DEF Processes, PCs, Group, Own
  <2>2. proc' = [proc EXCEPT ![j] = p] /\ uploads' \subseteq Notifs
    BY <1>0, <1>5 DEF PrepareDone, PendingFiles, Group, Own
  <2>3. /\ proc'[j].pc = "send"
        /\ proc'[j].todo = Group(j)
        /\ proc'[j].run = proc[j].run
        /\ proc'[j].version = proc[j].version
        /\ Group(j)' = Group(j)
        /\ Needed(j)' = Needed(j)
    BY <1>0, <1>5 DEF PrepareDone, Processes, Group, Needed, Own
  <2>4. Local(j)'
    BY <2>3, <1>0, <1>5 DEF PrepareDone, At, Local, LocksOwned, Preflighted,
      Current, Behind, Holding, Calling, Sending, Bound, Has
  <2> HIDE DEF p
  <2> QED
    BY <2>1, <2>2, <2>4, <1>0, <1>5, Advance DEF PrepareDone, At, Running
<1> QED
  BY <1>1, <1>2, <1>3, <1>4, <1>5

LEMMA TargetLockReviewed ==
  ASSUME IInv, NEW t \in Targets, ReviewTargetLock(t)
  PROVE  IInv'
<1>1. TypeOK' /\ Identities'
  BY DEF IInv, TypeOK, Identities, Running, ReviewTargetLock, progressVars, history
<1>2. Recorded'
  BY Unrecorded DEF IInv, ReviewTargetLock, progressVars, history
<1>3. ASSUME NEW j \in Jobs
      PROVE  Local(j)'
  <2>1. Local(j) /\ tlock \in [Targets -> Nat]
    BY DEF IInv, TypeOK
  <2>2. LocksOwned(j)'
    BY <2>1 DEF ReviewTargetLock, Local, LocksOwned, Needed, Group, Own
  <2> QED
    BY ZenonT(60), <2>1, <2>2 DEF ReviewTargetLock, Local, Preflighted, Current, Behind,
      Underway, Fired, NextKind, Clear, Bound, Resend, Has, Complete, Group, Own,
      progressVars, history
<1> QED
  BY <1>1, <1>2, <1>3 DEF IInv

-----------------------------------------------------------------------------
(* Steps that write a receipt or a fence.                                  *)

LEMMA Combine ==
  ASSUME IInv, NEW j \in Jobs, Stays(j), TypeOK', Identities', Recorded', Local(j)'
  PROVE  IInv'
BY Others DEF IInv

LEMMA PartsOf ==
  ASSUME NEW n \in Notifs
  PROVE  /\ "text" \in Parts(n)
         /\ "file" \in Parts(n) <=> n \in WithFile
         /\ \A k \in Parts(n) : k \in {"text", "file"}
         /\ Parts(n) \subseteq Kinds
BY DEF Parts, Kinds

LEMMA NotifTypes ==
  \A n \in Notifs : n # None /\ n \in Nat /\ TargetOf[n] \in Targets
BY DeliveryAssumption

(* The component being sent is one of the notification's, not yet accepted *)
(* and, when it is the file, preceded by the accepted text.                *)
LEMMA SendingPart ==
  ASSUME TypeOK, FileFollows, NEW n \in Notifs, ~Complete(n)
  PROVE  /\ NextKind(n) \in Parts(n)
         /\ NextKind(n) \in Kinds
         /\ entry[n][NextKind(n)].status # "provider_accepted"
         /\ NextKind(n) = "file" =>
              n \in WithFile /\ entry[n]["text"].status = "provider_accepted"
         /\ NextKind(n) = "text" /\ n \in WithFile =>
              entry[n]["file"].status = "not_attempted"
BY PartsOf DEF Complete, NextKind, Kinds, FileFollows, FileAfterText

LEMMA ResendStaged ==
  ASSUME IInv, NEW j \in Jobs, StageResend(j)
  PROVE  IInv'
<1>0. /\ TypeOK /\ Identities /\ Recorded /\ Local(j)
      /\ proc[j].pc = "stage" /\ proc' = proc
      /\ proc \in [Jobs -> Processes]
      /\ proc[j].run \in Nat
  BY DEF IInv, TypeOK, StageResend, At, Processes
<1>1. PICK n \in Group(j) :
        /\ Resend(j, n, proc[j].force, proc[j].run)
        /\ entry' = [entry EXCEPT ![n] =
             [k \in Kinds |-> IF k \in Parts(n)
                              THEN [Untouched EXCEPT !.run = proc[j].run]
                              ELSE entry[n][k]]]
        /\ manifest' = [m \in Notifs |-> IF m \in Group(j) /\ m <= n
                                         THEN proc[j].version
                                         ELSE manifest[m]]
        /\ got' = [got EXCEPT ![n] = [k \in Kinds |-> 0]]
        /\ ver' = [ver EXCEPT ![n] = [k \in Kinds |-> None]]
        /\ gen' = [gen EXCEPT ![n] = @ + 1]
  BY DEF StageResend, IsFirst
<1>2. n \in Notifs /\ n \in Own(j) /\ JobOf[n] = j /\ Complete(n)
  BY <1>1 DEF Group, Own, Resend
<1>3. [Untouched EXCEPT !.run = proc[j].run] \in Entries
      /\ [Untouched EXCEPT !.run = proc[j].run].status = "not_attempted"
      /\ [Untouched EXCEPT !.run = proc[j].run].print = None
  BY <1>0 DEF Untouched, Entries, Statuses
<1>4. /\ \A m \in Notifs : m # n =>
           /\ entry'[m] = entry[m]
           /\ got'[m] = got[m]
           /\ ver'[m] = ver[m]
      /\ \A k \in Parts(n) : entry'[n][k].status = "not_attempted"
                             /\ entry'[n][k].print = None
      /\ \A k \in Kinds : got'[n][k] = 0 /\ ver'[n][k] = None
      /\ \A k \in Kinds : k \notin Parts(n) => entry'[n][k] = entry[n][k]
  BY <1>0, <1>1, <1>2, <1>3, PartsOf DEF TypeOK
<1>5. Stays(j)
  BY <1>0, <1>2, <1>4 DEF StageResend, Stays, TypeOK
<1>6. TypeOK'
  <2>1. entry' \in [Notifs -> [Kinds -> Entries]]
    BY <1>0, <1>1, <1>2, <1>3 DEF TypeOK
  <2>2. manifest' \in [Notifs -> Versions \cup {None}]
    BY <1>0, <1>1 DEF TypeOK, Processes
  <2>3. /\ got' \in [Notifs -> [Kinds -> Nat]]
        /\ ver' \in [Notifs -> [Kinds -> Versions \cup {None}]]
        /\ gen' \in [Notifs -> Nat]
    BY <1>0, <1>1, <1>2 DEF TypeOK
  <2> QED
    BY <2>1, <2>2, <2>3, <1>0 DEF TypeOK, StageResend
<1>7. Identities'
  BY <1>0 DEF StageResend, Identities, Running
<1>8. Recorded'
  <2>1. Fenced'
    <3>1. ~Midway(n)'
      BY <1>2, <1>4, PartsOf DEF Midway, Has
    <3>2. \A m \in Notifs : m # n => Midway(m)' = Midway(m)
      BY <1>4 DEF Midway, Has
    <3> QED
      BY <3>1, <3>2, <1>0 DEF StageResend, Recorded, Fenced
  <2>2. Receipted'
    BY <1>0, <1>4 DEF Recorded, Receipted
  <2>3. FileFollows'
    <3>1. \A k \in Kinds : entry[n][k].status # "not_attempted" =>
            entry[n][k].print \in Versions
      BY <1>0, <1>2 DEF Recorded, FileFollows
    <3> QED
      BY <3>1, <1>0, <1>2, <1>4, PartsOf, DeliveryAssumption DEF Recorded, FileFollows,
        FileAfterText
  <2>4. FailedFenceRecoverable'
    <3> SUFFICES ASSUME NEW t \in Targets, fence[t].status = "failed"
                 PROVE  Recoverable(t)'
      BY DEF StageResend, FailedFenceRecoverable
    <3>1. Recoverable(t)
      BY <1>0 DEF Recorded, FailedFenceRecoverable
    <3>2. fence[t].owner \in Notifs /\ fence'[t] = fence[t]
      BY <1>0 DEF StageResend, Recorded, Fenced, NoFence
    <3>3. JobOf[fence[t].owner] # j
      BY <3>1, <3>2, <1>1 DEF Recoverable, Resend, Own
    <3> QED
      BY <3>1, <3>2, <3>3, <1>2, <1>4 DEF Recoverable, Has, Complete
  <2> QED
    BY <2>1, <2>2, <2>3, <2>4 DEF Recorded
<1>9. Local(j)'
  <2>1. Group(j)' = Group(j) /\ Needed(j)' = Needed(j) /\ Group(j) \subseteq Own(j)
    BY <1>0 DEF Group, Needed, Own
  <2>2. \A m \in Own(j) : ~Has(m, {"failed"})'
    BY <1>1, <1>4 DEF Resend, Has, Own
  <2>3. ASSUME NEW m \in Group(j)
        PROVE  Clear(j, m)' /\ ~Has(m, Blocking)'
    <3>1. Clear(j, m) /\ ~Has(m, Blocking)
      BY <1>0, <2>3 DEF Local, Preflighted
    <3>2. CASE m = n
      BY <3>2, <1>4 DEF Clear, Bound, Has, Blocking
    <3>3. CASE m # n
      BY <3>1, <3>3, <2>1, <2>2, <1>0, <1>4
        DEF Clear, Bound, Resend, Has, Complete, Own
    <3> QED
      BY <3>2, <3>3
  <2> QED
    BY <2>1, <2>3, <1>0 DEF StageResend, Local, LocksOwned, Preflighted, Current,
      Behind, Holding, Calling, Sending
<1> QED
  BY <1>5, <1>6, <1>7, <1>8, <1>9, Combine

LEMMA Begun ==
  ASSUME IInv, NEW j \in Jobs, Begin(j)
  PROVE  IInv'
<1>0. /\ TypeOK /\ Identities /\ Recorded /\ Local(j)
      /\ proc[j].pc = "send"
      /\ proc[j] \in Processes /\ proc \in [Jobs -> Processes]
  BY DEF IInv, TypeOK, Begin, At
<1>1. PICK n \in proc[j].todo :
        /\ IsFirst(n, Pending(proc[j].todo))
        /\ FenceAllows(n)
        /\ fence' = [fence EXCEPT ![TargetOf[n]] =
                       [owner |-> n, status |-> "in_flight"]]
        /\ proc' = [proc EXCEPT ![j].pc = "item", ![j].cur = n]
  BY DEF Begin
<1> DEFINE p == [proc[j] EXCEPT !.pc = "item", !.cur = n]
           t == TargetOf[n]
<1>2. /\ n \in Group(j) /\ n \in Notifs /\ t \in Targets /\ t \in Needed(j)
      /\ proc[j].todo \subseteq Group(j)
      /\ ~Complete(n)
  BY <1>0, <1>1, DeliveryAssumption DEF Local, Behind, Calling, Group, Own, Needed,
    IsFirst, Pending
<1>3. /\ p \in Processes /\ p.pc = "item" /\ p.run = proc[j].run
      /\ p.version = proc[j].version /\ p.cur = n /\ p.todo = proc[j].todo
      /\ p.call = proc[j].call
      /\ proc' = [proc EXCEPT ![j] = p] /\ proc'[j] = p
  BY <1>0, <1>1, <1>2 DEF Processes, PCs
<1>4. /\ fence'[t] = [owner |-> n, status |-> "in_flight"]
      /\ \A u \in Targets : u # t => fence'[u] = fence[u]
      /\ fence' \in [Targets -> [owner : Notifs \cup {None}, status : Statuses]]
  BY <1>0, <1>1, <1>2 DEF TypeOK, Statuses
<1>5. /\ fence[t].owner \in {None, n}
      /\ fence[t].status = "failed" => fence[t].owner = n
  BY <1>1 DEF FenceAllows, NoFence
<1> HIDE DEF p, t
<1>6. Stays(j)
  BY <1>0, <1>2, <1>3, <1>4 DEF Begin, Stays, Holding, progressVars, history
<1>7. TypeOK'
  BY <1>0, <1>3, <1>4 DEF Begin, TypeOK, progressVars, history
<1>8. Identities'
  BY <1>0, <1>3, Identified DEF Begin, Running
<1>9. Recorded'
  <2>1. Fenced'
    <3>1. \A m \in Notifs : Midway(m)' = Midway(m)
      BY DEF Begin, Midway, Has, progressVars, history
    <3>2. \A m \in Notifs : Midway(m) /\ TargetOf[m] = t => m = n
      BY <1>0, <1>5, NotifTypes DEF Recorded, Fenced
    <3>3. \A m \in Notifs : Midway(m)' => fence'[TargetOf[m]].owner = m
      BY <3>1, <3>2, <1>0, <1>4, NotifTypes DEF Recorded, Fenced
    <3>4. \A u \in Targets : fence'[u] # NoFence =>
            fence'[u].owner \in Notifs /\ TargetOf[fence'[u].owner] = u
      BY <1>0, <1>2, <1>4 DEF Recorded, Fenced, t
    <3> QED
      BY <3>3, <3>4 DEF Fenced
  <2>2. FailedFenceRecoverable'
    <3> SUFFICES ASSUME NEW u \in Targets, fence'[u].status = "failed"
                 PROVE  Recoverable(u)'
      BY DEF FailedFenceRecoverable
    <3>1. fence'[u] = fence[u]
      BY <1>4
    <3>2. Recoverable(u)
      BY <3>1, <1>0 DEF Recorded, FailedFenceRecoverable
    <3> QED
      BY <3>1, <3>2 DEF Begin, Recoverable, Has, Complete, progressVars
  <2> QED
    BY <2>1, <2>2, <1>0 DEF Begin, Recorded, Receipted, FileFollows, FileAfterText,
      progressVars, history
<1>10. Local(j)'
  <2>1. Group(j)' = Group(j) /\ Needed(j)' = Needed(j)
    BY <1>3 DEF Group, Needed, Own
  <2>2. \A m \in Group(j) : TargetOf[m] = t /\ m \notin proc[j].todo => Complete(m)
    <3> SUFFICES ASSUME NEW m \in Group(j), TargetOf[m] = t, m \notin proc[j].todo
                 PROVE  Complete(m)
      OBVIOUS
    <3>1. Complete(m) \/ fence[t] = [owner |-> m, status |-> "failed"]
      BY <1>0 DEF Local, Behind, Calling
    <3> QED
      BY <3>1, <1>1, <1>5
  <2>3. \A m \in Group(j) : TargetOf[m] = t /\ m < n => Complete(m)
    BY <2>2, <1>1, <1>2, NotifTypes DEF IsFirst, Pending, Group, Own
  <2>4. LocksOwned(j)' /\ Preflighted(j)'
    BY <2>1, <1>0, <1>3 DEF Begin, Local, LocksOwned, Preflighted, Holding, Calling,
      Sending, Bound, Has, progressVars
  <2>5. Current(j)'
    BY <2>1, <1>1, <1>2, <1>3, <1>4 DEF Begin, Current, Underway, Complete,
      progressVars, t
  <2>6. Behind(j)'
    <3>1. \A m \in Group(j) : Complete(m)' = Complete(m) /\ m \in Notifs
      BY DEF Begin, Complete, Group, Own, progressVars
    <3>2. ASSUME NEW m \in Group(j), m \notin proc[j].todo
          PROVE  Complete(m) \/ fence'[TargetOf[m]] = [owner |-> m, status |-> "failed"]
      BY <3>1, <3>2, <2>2, <1>0, <1>4, NotifTypes DEF Local, Behind, Calling
    <3> QED
      BY <3>1, <3>2, <2>1, <2>3, <1>2, <1>3 DEF Behind, Sending, t
  <2> QED
    BY <2>4, <2>5, <2>6 DEF Local
<1> QED
  BY <1>6, <1>7, <1>8, <1>9, <1>10, Combine

(* What is known of the notification a process is sending. *)
LEMMA AtWork ==
  ASSUME IInv, NEW j \in Jobs, proc[j].pc \in Sending
  PROVE  /\ TypeOK /\ Identities /\ Recorded /\ Local(j)
         /\ proc \in [Jobs -> Processes] /\ proc[j] \in Processes
         /\ Running(j)
         /\ proc[j].version \in Versions
         /\ proc[j].cur \in Notifs
         /\ proc[j].cur \in Group(j)
         /\ JobOf[proc[j].cur] = j
         /\ TargetOf[proc[j].cur] \in Targets
         /\ TargetOf[proc[j].cur] \in Needed(j)
         /\ Underway(j, proc[j].cur)
         /\ Bound(j, proc[j].cur)
         /\ proc[j].todo \subseteq Group(j)
<1>1. TypeOK /\ Identities /\ Recorded /\ Local(j)
  BY DEF IInv
<1>2. Running(j) /\ proc[j].version \in Versions
  BY <1>1 DEF Identities, Running, Sending
<1>3. Underway(j, proc[j].cur) /\ proc[j].cur \in Group(j)
  BY <1>1 DEF Local, Current, Underway
<1>4. Bound(j, proc[j].cur) /\ proc[j].todo \subseteq Group(j)
  BY <1>1, <1>3 DEF Local, Preflighted, Behind, Calling
<1> QED
  BY <1>1, <1>2, <1>3, <1>4, NotifTypes DEF TypeOK, Group, Own, Needed

(* One entry of the current notification is written by its process.        *)
LEMMA EntryWritten ==
  ASSUME IInv, NEW j \in Jobs, proc[j].pc \in Sending, ~Complete(proc[j].cur),
         NEW status \in Statuses, SetEntry(j, status)
  PROVE  LET n == proc[j].cur
             k == NextKind(n)
         IN /\ entry' \in [Notifs -> [Kinds -> Entries]]
            /\ \A m \in Notifs : m # n => entry'[m] = entry[m]
            /\ \A l \in Kinds : l # k => entry'[n][l] = entry[n][l]
            /\ entry'[n][k].status = status
            /\ entry'[n][k].print = proc[j].version
            /\ k \in Kinds
<1> DEFINE n == proc[j].cur
           k == NextKind(n)
           e == [status |-> status, run |-> proc[j].run, print |-> proc[j].version]
<1>1. n \in Notifs /\ k \in Kinds /\ entry \in [Notifs -> [Kinds -> Entries]]
  BY AtWork, SendingPart DEF Recorded, TypeOK
<1>2. e \in Entries
  BY AtWork DEF Entries, Processes
<1>3. entry' = [entry EXCEPT ![n][k] = e]
  BY DEF SetEntry
<1>4. e.status = status /\ e.print = proc[j].version
  OBVIOUS
<1> HIDE DEF n, k, e
<1>5. /\ entry' \in [Notifs -> [Kinds -> Entries]]
      /\ \A m \in Notifs : m # n => entry'[m] = entry[m]
      /\ \A l \in Kinds : l # k => entry'[n][l] = entry[n][l]
      /\ entry'[n][k] = e
  BY <1>1, <1>2, <1>3
<1> QED
  BY <1>1, <1>4, <1>5 DEF n, k

LEMMA MarkedInFlight ==
  ASSUME IInv, NEW j \in Jobs, MarkInFlight(j)
  PROVE  IInv'
<1> PICK n : n = proc[j].cur
  OBVIOUS
<1> PICK k : k = NextKind(n)
  OBVIOUS
<1> DEFINE p == [proc[j] EXCEPT !.pc = "wire"]
<1>0. /\ n = proc[j].cur /\ k = NextKind(n)
      /\ proc[j].pc = "item" /\ proc[j].pc \in Sending
      /\ SetEntry(j, "in_flight")
      /\ proc' = [proc EXCEPT ![j] = p]
      /\ UNCHANGED <<runs, manifest, uploads, fence, tlock, got, ver, gen>>
  BY DEF MarkInFlight, At, Sending, history
<1>1. /\ TypeOK /\ Identities /\ Recorded /\ Local(j)
      /\ proc \in [Jobs -> Processes] /\ proc[j] \in Processes
      /\ Running(j)
      /\ proc[j].version \in Versions
      /\ n \in Notifs /\ n \in Group(j) /\ JobOf[n] = j
      /\ n \in proc[j].todo
      /\ fence[TargetOf[n]] = [owner |-> n, status |-> "in_flight"]
      /\ ~Complete(n)
      /\ Bound(j, n)
  BY <1>0, AtWork DEF Underway
<1>2. /\ k \in Parts(n) /\ k \in Kinds
      /\ entry[n][k].status # "provider_accepted"
      /\ k = "file" => n \in WithFile /\ entry[n]["text"].status = "provider_accepted"
      /\ k = "text" /\ n \in WithFile => entry[n]["file"].status = "not_attempted"
  BY <1>0, <1>1, SendingPart DEF Recorded
<1>3. /\ entry' \in [Notifs -> [Kinds -> Entries]]
      /\ \A m \in Notifs : m # n => entry'[m] = entry[m]
      /\ \A l \in Kinds : l # k => entry'[n][l] = entry[n][l]
      /\ entry'[n][k].status = "in_flight"
      /\ entry'[n][k].print = proc[j].version
  BY <1>0, <1>1, EntryWritten DEF Statuses
<1>4. /\ p \in Processes /\ p.pc = "wire" /\ p.run = proc[j].run /\ p.cur = n
      /\ p.version = proc[j].version /\ p.todo = proc[j].todo /\ p.call = proc[j].call
  BY <1>1 DEF Processes, PCs
<1>5. proc'[j] = p
  BY SMTT(30), <1>0, <1>1
<1>6. NextKind(n)' = k
  BY <1>0, <1>2, <1>3 DEF NextKind, Kinds
<1>7. ~Has(n, Blocking)
  BY <1>0, <1>1 DEF Local, Preflighted, Calling
<1> HIDE DEF p
<1>8. Stays(j)
  BY <1>0, <1>1, <1>3, <1>5 DEF Stays
<1>9. TypeOK'
  BY <1>0, <1>1, <1>3, <1>4 DEF TypeOK
<1>10. Identities'
  BY <1>0, <1>1, <1>4, Identified
<1>11. Recorded'
  <2>1. Fenced'
    <3>1. \A m \in Notifs : m # n => Midway(m)' = Midway(m)
      BY <1>0, <1>3 DEF Midway, Has
    <3> QED
      BY <3>1, <1>0, <1>1 DEF Recorded, Fenced
  <2>2. Receipted'
    BY <1>0, <1>1, <1>2, <1>3, <1>7 DEF Recorded, Receipted, Has, Blocking
  <2>3. FileFollows'
    <3>1. \A m \in Notifs : \A l \in Kinds :
            entry'[m][l].status # "not_attempted" => entry'[m][l].print \in Versions
      BY <1>1, <1>3 DEF Recorded, FileFollows
    <3>2. k = "file" => entry[n]["text"].print = proc[j].version
      BY <1>1, <1>2, PartsOf, DeliveryAssumption DEF Recorded, FileFollows, Bound, Kinds
    <3>3. n \in WithFile => FileAfterText(n)'
      BY <3>2, <1>2, <1>3 DEF FileAfterText, Kinds
    <3>4. \A m \in WithFile : m # n => FileAfterText(m)'
      BY SMTT(30), <1>1, <1>3, DeliveryAssumption DEF Recorded, FileFollows, FileAfterText
    <3> QED
      BY <3>1, <3>3, <3>4 DEF FileFollows
  <2>4. FailedFenceRecoverable'
    <3> SUFFICES ASSUME NEW u \in Targets, fence[u].status = "failed"
                 PROVE  Recoverable(u)'
      BY <1>0 DEF FailedFenceRecoverable
    <3>1. Recoverable(u) /\ fence[u].owner \in Notifs /\ TargetOf[fence[u].owner] = u
      BY <1>1 DEF Recorded, FailedFenceRecoverable, Fenced, NoFence
    <3>2. TargetOf[n] # u
      BY <1>1
    <3> QED
      BY <3>1, <3>2, <1>0, <1>3 DEF Recoverable, Has, Complete
  <2> QED
    BY <2>1, <2>2, <2>3, <2>4 DEF Recorded
<1>12. Local(j)'
  <2>1. Group(j)' = Group(j) /\ Needed(j)' = Needed(j)
    BY <1>4, <1>5 DEF Group, Needed, Own
  <2>2. ~Complete(n)'
    BY <1>1, <1>2, <1>3 DEF Complete
  <2>3. \A m \in Group(j) : m # n => Complete(m)' = Complete(m) /\ Bound(j, m)' = Bound(j, m)
                                     /\ Has(m, Blocking)' = Has(m, Blocking)
    BY <1>3, <1>4, <1>5 DEF Complete, Bound, Has, Group, Own
  <2>4. Bound(j, n)'
    BY <1>1, <1>3, <1>4, <1>5, PartsOf DEF Bound
  <2>5. LocksOwned(j)'
    BY <2>1, <1>0, <1>1, <1>4, <1>5 DEF Local, LocksOwned, Holding
  <2>6. Preflighted(j)'
    BY SMTT(30), <2>1, <2>3, <2>4, <1>0, <1>1, <1>4, <1>5
      DEF Local, Preflighted, Calling, Sending
  <2>7. Current(j)'
    <3>1. got[n][k] = 0
      BY <1>1, <1>2, <1>7 DEF Recorded, Receipted, Has, Blocking
    <3>2. \A l \in Parts(n) : l # k => entry'[n][l].status \notin Blocking
      BY <1>1, <1>3, <1>7, PartsOf DEF Has
    <3> QED
      BY <3>1, <3>2, <2>1, <2>2, <1>0, <1>1, <1>3, <1>4, <1>5, <1>6
        DEF Current, Underway, Fired
  <2>8. Behind(j)'
    BY <2>1, <2>2, <2>3, <1>0, <1>1, <1>4, <1>5, NotifTypes
      DEF Local, Behind, Calling, Sending, Group, Own
  <2> QED
    BY <2>5, <2>6, <2>7, <2>8 DEF Local
<1> QED
  BY <1>8, <1>9, <1>10, <1>11, <1>12, Combine

LEMMA Sent ==
  ASSUME IInv, NEW j \in Jobs, NEW receipt \in Receipts, Send(j, receipt)
  PROVE  IInv'
<1> PICK n : n = proc[j].cur
  OBVIOUS
<1> PICK k : k = NextKind(n)
  OBVIOUS
<1> DEFINE p == [proc[j] EXCEPT !.pc = "record", !.resp = receipt]
<1>0. /\ n = proc[j].cur /\ k = NextKind(n)
      /\ proc[j].pc = "wire" /\ proc[j].pc \in Sending
      /\ proc' = [proc EXCEPT ![j] = p]
      /\ UNCHANGED <<runs, entry, manifest, uploads, fence, tlock, gen>>
  BY DEF Send, At, Sending, progressVars
<1>1. /\ TypeOK /\ Identities /\ Recorded /\ Local(j)
      /\ proc \in [Jobs -> Processes] /\ proc[j] \in Processes
      /\ Running(j)
      /\ proc[j].version \in Versions
      /\ n \in Notifs /\ n \in Group(j) /\ JobOf[n] = j
      /\ n \in proc[j].todo
      /\ fence[TargetOf[n]] = [owner |-> n, status |-> "in_flight"]
      /\ Fired(j, n) /\ ~Complete(n) /\ got[n][k] = 0
  BY SMTT(30), <1>0, AtWork DEF Underway, Fired
<1>2. /\ k \in Parts(n) /\ k \in Kinds
      /\ entry[n][k].status = "in_flight"
      /\ entry[n][k].print = proc[j].version
  BY <1>0, <1>1, SendingPart DEF Recorded, Fired
<1>3. /\ got' \in [Notifs -> [Kinds -> Nat]]
      /\ ver' \in [Notifs -> [Kinds -> Versions \cup {None}]]
      /\ \A m \in Notifs : m # n => got'[m] = got[m] /\ ver'[m] = ver[m]
      /\ \A l \in Kinds : l # k => got'[n][l] = got[n][l] /\ ver'[n][l] = ver[n][l]
      /\ \/ got'[n][k] = 1 /\ ver'[n][k] = proc[j].version /\ receipt # "failed"
         \/ got'[n][k] = 0 /\ receipt # "provider_accepted"
  <2>1. \/ /\ receipt \in {"provider_accepted", "unknown"}
           /\ got' = [got EXCEPT ![n][k] = @ + 1]
           /\ ver' = [ver EXCEPT ![n][k] = proc[j].version]
        \/ /\ receipt \in {"failed", "unknown"}
           /\ UNCHANGED <<got, ver>>
    BY <1>0 DEF Send
  <2>2. got \in [Notifs -> [Kinds -> Nat]]
        /\ ver \in [Notifs -> [Kinds -> Versions \cup {None}]]
    BY <1>1 DEF TypeOK
  <2>3. CASE /\ receipt \in {"provider_accepted", "unknown"}
             /\ got' = [got EXCEPT ![n][k] = @ + 1]
             /\ ver' = [ver EXCEPT ![n][k] = proc[j].version]
    <3>1. got' = [got EXCEPT ![n][k] = 1] /\ 1 \in Nat
      BY <2>3, <1>1
    <3> QED
      BY <3>1, <2>2, <2>3, <1>1, <1>2
  <2>4. CASE receipt \in {"failed", "unknown"} /\ UNCHANGED <<got, ver>>
    BY <2>2, <2>4, <1>1
  <2> QED
    BY <2>1, <2>3, <2>4
<1>4. /\ p \in Processes /\ p.pc = "record" /\ p.run = proc[j].run /\ p.cur = n
      /\ p.version = proc[j].version /\ p.todo = proc[j].todo /\ p.call = proc[j].call
      /\ p.resp = receipt
  BY <1>0, <1>1 DEF Processes, PCs
<1>5. proc'[j] = p
  BY <1>0, <1>1
<1>6. NextKind(n)' = k /\ ~Complete(n)'
  BY <1>0, <1>1 DEF NextKind, Complete
<1> HIDE DEF p
<1>8. Stays(j)
  BY <1>0, <1>1, <1>3, <1>5 DEF Stays
<1>9. TypeOK'
  BY <1>0, <1>1, <1>3, <1>4 DEF TypeOK
<1>10. Identities'
  BY <1>0, <1>1, <1>4, Identified
<1>11. Recorded'
  <2>1. Fenced'
    <3>1. \A m \in Notifs : m # n => Midway(m)' = Midway(m)
      BY <1>0, <1>3 DEF Midway, Has
    <3> QED
      BY <3>1, <1>0, <1>1 DEF Recorded, Fenced
  <2>2. Receipted'
    BY SMTT(30), <1>0, <1>1, <1>2, <1>3 DEF Recorded, Receipted
  <2>3. FileFollows'
    BY <1>0, <1>1 DEF Recorded, FileFollows, FileAfterText
  <2>4. FailedFenceRecoverable'
    BY <1>0, <1>1 DEF Recorded, FailedFenceRecoverable, Recoverable, Has, Complete
  <2> QED
    BY <2>1, <2>2, <2>3, <2>4 DEF Recorded
<1>12. Local(j)'
  <2>1. Group(j)' = Group(j) /\ Needed(j)' = Needed(j)
    BY <1>4, <1>5 DEF Group, Needed, Own
  <2>2. LocksOwned(j)' /\ Preflighted(j)'
    BY SMTT(30), <2>1, <1>0, <1>1, <1>4, <1>5 DEF Local, LocksOwned, Preflighted, Holding,
      Calling, Sending, Bound, Has
  <2>3. Current(j)'
    BY <2>1, <1>0, <1>1, <1>2, <1>3, <1>4, <1>5, <1>6
      DEF Current, Underway, Fired
  <2>4. Behind(j)'
    BY <2>1, <1>0, <1>1, <1>4, <1>5 DEF Local, Behind, Calling, Sending, Complete
  <2> QED
    BY <2>2, <2>3, <2>4 DEF Local
<1> QED
  BY <1>8, <1>9, <1>10, <1>11, <1>12, Combine

LEMMA ReceiptSaved ==
  ASSUME IInv, NEW j \in Jobs, Record(j)
  PROVE  IInv'
<1> PICK n : n = proc[j].cur
  OBVIOUS
<1> PICK k : k = NextKind(n)
  OBVIOUS
<1> PICK resp : resp = proc[j].resp
  OBVIOUS
<1> DEFINE more == /\ resp = "provider_accepted" /\ k = "text"
                   /\ n \in WithFile /\ entry[n]["file"].status # "provider_accepted"
           p == [proc[j] EXCEPT
                   !.pc = IF more THEN "item" ELSE "finish",
                   !.failed = @ \/ resp # "provider_accepted"]
<1>0. /\ n = proc[j].cur /\ k = NextKind(n) /\ resp = proc[j].resp
      /\ proc[j].pc = "record" /\ proc[j].pc \in Sending
      /\ SetEntry(j, resp)
      /\ proc' = [proc EXCEPT ![j] = p]
      /\ UNCHANGED <<runs, manifest, uploads, fence, tlock, got, ver, gen>>
  BY DEF Record, At, Sending, history
<1>1. /\ TypeOK /\ Identities /\ Recorded /\ Local(j)
      /\ proc \in [Jobs -> Processes] /\ proc[j] \in Processes
      /\ Running(j)
      /\ proc[j].version \in Versions
      /\ n \in Notifs /\ n \in Group(j) /\ JobOf[n] = j
      /\ n \in proc[j].todo
      /\ fence[TargetOf[n]] = [owner |-> n, status |-> "in_flight"]
      /\ Fired(j, n) /\ ~Complete(n)
      /\ Bound(j, n)
      /\ resp = "provider_accepted" => got[n][k] = 1
      /\ resp = "failed" => got[n][k] = 0
  BY <1>0, AtWork DEF Underway, Fired
<1>2. /\ k \in Parts(n) /\ k \in Kinds
      /\ k = "file" => n \in WithFile /\ entry[n]["text"].status = "provider_accepted"
      /\ k = "text" /\ n \in WithFile => entry[n]["file"].status = "not_attempted"
      /\ entry[n][k].status = "in_flight"
      /\ entry[n][k].print = proc[j].version
      /\ \A l \in Parts(n) : l # k => entry[n][l].status \notin Blocking
      /\ resp \in Receipts
  BY SMTT(30), <1>0, <1>1, SendingPart DEF Recorded, Fired, Processes
<1>3. /\ entry' \in [Notifs -> [Kinds -> Entries]]
      /\ \A m \in Notifs : m # n => entry'[m] = entry[m]
      /\ \A l \in Kinds : l # k => entry'[n][l] = entry[n][l]
      /\ entry'[n][k].status = resp
      /\ entry'[n][k].print = proc[j].version
  BY SMTT(30), <1>0, <1>1, <1>2, EntryWritten DEF Statuses
<1>4. /\ p \in Processes /\ p.run = proc[j].run /\ p.cur = n
      /\ p.version = proc[j].version /\ p.todo = proc[j].todo /\ p.call = proc[j].call
      /\ p.resp = resp
      /\ p.pc = IF more THEN "item" ELSE "finish"
  BY ZenonT(60), <1>0, <1>1 DEF Processes, PCs
<1>5. proc'[j] = p
  BY <1>0, <1>1
<1>6. /\ p.pc = "item" => ~Complete(n)' /\ ~Has(n, Blocking)'
      /\ p.pc = "finish" =>
           /\ resp = "provider_accepted" => Complete(n)'
           /\ resp = "failed" => Has(n, {"failed"})' /\ ~Has(n, Blocking)'
  <2>1. /\ \A l \in Parts(n) : l # k => entry'[n][l] = entry[n][l]
        /\ \A l \in Parts(n) : l = "text" \/ (l = "file" /\ n \in WithFile)
    BY <1>1, <1>3, PartsOf
  <2>2. resp # "unknown" => ~Has(n, Blocking)'
    BY <2>1, <1>2, <1>3 DEF Has, Blocking, Receipts
  <2>3. resp = "failed" => Has(n, {"failed"})'
    BY <1>2, <1>3 DEF Has
  <2>4. more => ~Complete(n)'
    BY <2>1, <1>1, <1>2, <1>3, PartsOf DEF Complete
  <2>5. ASSUME resp = "provider_accepted", ~more, NEW l \in Parts(n)
        PROVE  entry'[n][l].status = "provider_accepted"
    <3>1. CASE k = "text"
      <4>1. n \notin WithFile
        BY <3>1, <2>5, <1>2
      <4> QED
        BY <4>1, <3>1, <2>1, <2>5, <1>3
    <3>2. CASE k = "file"
      BY <3>2, <2>1, <2>5, <1>2, <1>3
    <3> QED
      BY <3>1, <3>2, <1>2 DEF Kinds
  <2> QED
    BY <2>2, <2>3, <2>4, <2>5, <1>4 DEF Complete
<1>7. p.pc \in {"item", "finish"}
  BY <1>4
<1> HIDE DEF p, more
<1>8. Stays(j)
  BY <1>0, <1>1, <1>3, <1>5 DEF Stays
<1>9. TypeOK'
  BY <1>0, <1>1, <1>3, <1>4 DEF TypeOK
<1>10. Identities'
  BY <1>0, <1>1, <1>4, <1>7, Identified
<1>11. Recorded'
  <2>1. Fenced'
    <3>1. \A m \in Notifs : m # n => Midway(m)' = Midway(m)
      BY <1>0, <1>3 DEF Midway, Has
    <3> QED
      BY <3>1, <1>0, <1>1 DEF Recorded, Fenced
  <2>2. Receipted'
    BY <1>0, <1>1, <1>2, <1>3 DEF Recorded, Receipted, Receipts
  <2>3. FileFollows'
    <3>1. \A m \in Notifs : \A l \in Kinds :
            entry'[m][l].status # "not_attempted" => entry'[m][l].print \in Versions
      BY <1>1, <1>3 DEF Recorded, FileFollows
    <3>2. k = "file" => entry[n]["text"].print = proc[j].version
      BY <1>1, <1>2, PartsOf, DeliveryAssumption DEF Recorded, FileFollows, Bound, Kinds
    <3>3. n \in WithFile => FileAfterText(n)'
      BY <3>2, <1>2, <1>3 DEF FileAfterText, Kinds
    <3>4. \A m \in WithFile : m # n => FileAfterText(m)'
      BY SMTT(30), <1>1, <1>3, DeliveryAssumption DEF Recorded, FileFollows, FileAfterText
    <3> QED
      BY <3>1, <3>3, <3>4 DEF FileFollows
  <2>4. FailedFenceRecoverable'
    <3> SUFFICES ASSUME NEW u \in Targets, fence[u].status = "failed"
                 PROVE  Recoverable(u)'
      BY <1>0 DEF FailedFenceRecoverable
    <3>1. Recoverable(u) /\ fence[u].owner \in Notifs /\ TargetOf[fence[u].owner] = u
      BY <1>1 DEF Recorded, FailedFenceRecoverable, Fenced, NoFence
    <3>2. TargetOf[n] # u
      BY <1>1
    <3> QED
      BY <3>1, <3>2, <1>0, <1>3 DEF Recoverable, Has, Complete
  <2> QED
    BY <2>1, <2>2, <2>3, <2>4 DEF Recorded
<1>12. Local(j)'
  <2>1. Group(j)' = Group(j) /\ Needed(j)' = Needed(j)
    BY <1>4, <1>5 DEF Group, Needed, Own
  <2>3. \A m \in Group(j) : m # n => Complete(m)' = Complete(m) /\ Bound(j, m)' = Bound(j, m)
                                     /\ Has(m, Blocking)' = Has(m, Blocking)
    BY <1>3, <1>4, <1>5 DEF Complete, Bound, Has, Group, Own
  <2>4. Bound(j, n)'
    BY <1>1, <1>3, <1>4, <1>5, PartsOf DEF Bound
  <2>5. LocksOwned(j)'
    BY <2>1, <1>0, <1>1, <1>4, <1>5, <1>7 DEF Local, LocksOwned, Holding
  <2>6. Preflighted(j)'
    BY <2>1, <2>3, <2>4, <1>0, <1>1, <1>4, <1>5, <1>6, <1>7
      DEF Local, Preflighted, Calling, Sending
  <2>7. Current(j)'
    BY <2>1, <1>0, <1>1, <1>4, <1>5, <1>6, <1>7 DEF Current, Underway
  <2>8. Behind(j)'
    BY <2>1, <2>3, <1>0, <1>1, <1>4, <1>5, <1>7, NotifTypes
      DEF Local, Behind, Calling, Sending, Group, Own
  <2> QED
    BY <2>5, <2>6, <2>7, <2>8 DEF Local
<1> QED
  BY <1>8, <1>9, <1>10, <1>11, <1>12, Combine

LEMMA Finished ==
  ASSUME IInv, NEW j \in Jobs, Finish(j)
  PROVE  IInv'
<1> PICK n : n = proc[j].cur
  OBVIOUS
<1> PICK t : t = TargetOf[n]
  OBVIOUS
<1> PICK resp : resp = proc[j].resp
  OBVIOUS
<1>0. /\ n = proc[j].cur /\ t = TargetOf[n] /\ resp = proc[j].resp
      /\ proc[j].pc = "finish" /\ proc[j].pc \in Sending
      /\ fence' = [fence EXCEPT ![t] =
           IF resp = "provider_accepted" THEN NoFence
           ELSE [owner |-> n, status |-> resp]]
      /\ UNCHANGED <<runs, entry, manifest, uploads, got, ver, gen>>
  BY DEF Finish, At, Sending, history, progressVars
<1>1. /\ TypeOK /\ Identities /\ Recorded /\ Local(j)
      /\ proc \in [Jobs -> Processes] /\ proc[j] \in Processes
      /\ Running(j)
      /\ n \in Notifs /\ n \in Group(j) /\ JobOf[n] = j
      /\ t \in Targets /\ t \in Needed(j)
      /\ proc[j].todo \subseteq Group(j)
      /\ fence[t] = [owner |-> n, status |-> "in_flight"]
      /\ resp \in Receipts
      /\ resp = "provider_accepted" => Complete(n)
      /\ resp = "failed" => Has(n, {"failed"}) /\ ~Has(n, Blocking)
  BY <1>0, AtWork DEF Underway, Processes
<1>2. /\ \A u \in Targets : u # t => fence'[u] = fence[u]
      /\ resp = "provider_accepted" => fence'[t] = NoFence
      /\ resp # "provider_accepted" => fence'[t] = [owner |-> n, status |-> resp]
      /\ fence' \in [Targets -> [owner : Notifs \cup {None}, status : Statuses]]
  BY <1>0, <1>1 DEF TypeOK, NoFence, Statuses
<1>3. Recorded'
  <2>1. \A m \in Notifs : Midway(m)' = Midway(m)
    BY <1>0 DEF Midway, Has
  <2>2. resp = "provider_accepted" => ~Midway(n)
    BY <1>1, PartsOf DEF Recorded, Receipted, Midway, Has, Complete
  <2>3. Fenced'
    <3>1. \A m \in Notifs : Midway(m) => fence'[TargetOf[m]].owner = m
      BY <2>2, <1>1, <1>2, NotifTypes DEF Recorded, Fenced
    <3>2. \A u \in Targets : fence'[u] # NoFence =>
            fence'[u].owner \in Notifs /\ TargetOf[fence'[u].owner] = u
      BY <1>0, <1>1, <1>2 DEF Recorded, Fenced
    <3> QED
      BY <2>1, <3>1, <3>2 DEF Fenced
  <2>4. \A m \in Group(j) : TargetOf[m] = t /\ m < n => Complete(m)
    BY <1>0, <1>1 DEF Local, Behind
  <2>5. FailedFenceRecoverable'
    <3> SUFFICES ASSUME NEW u \in Targets, fence'[u].status = "failed"
                 PROVE  Recoverable(u)'
      BY DEF FailedFenceRecoverable
    <3>1. CASE u # t
      BY SMTT(30), <3>1, <1>0, <1>1, <1>2
        DEF Recorded, FailedFenceRecoverable, Recoverable, Has, Complete
    <3>2. CASE u = t
      <4>1. resp = "failed" /\ fence'[u].owner = n
        BY <3>2, <1>1, <1>2 DEF NoFence
      <4>2. \A m \in Notifs :
              JobOf[m] = JobOf[n] /\ CallOf[m] = CallOf[n] /\ TargetOf[m] = u /\ m < n
                => Complete(m)
        BY <3>2, <2>4, <1>1 DEF Group, Own
      <4> QED
        BY <4>1, <4>2, <1>0, <1>1 DEF Recoverable, Has, Complete
    <3> QED
      BY <3>1, <3>2
  <2> QED
    BY <2>3, <2>5, <1>0, <1>1 DEF Recorded, Receipted, FileFollows, FileAfterText
<1>4. CASE resp = "unknown"
  <2> DEFINE p == IF proc[j].call = 1 \/ Unresolved(j) THEN Fresh ELSE NextCall(proc[j])
  <2>1. Leave(j) /\ proc' = [proc EXCEPT ![j] = p]
    BY <1>0, <1>4 DEF Finish, Leave
  <2>2. /\ p \in Processes
        /\ p.pc \in {"idle", "dead", "preflight", "failed"}
        /\ \/ p.pc \in {"idle", "dead"} /\ p.run = 0
           \/ /\ p.pc \notin {"idle", "dead"}
              /\ p.run = proc[j].run
              /\ p.version = proc[j].version
    BY <1>1, ProcessValues DEF Fresh, NextCall
  <2>3. tlock' \in [Targets -> Nat]
        /\ \A u \in Targets : tlock'[u] = tlock[u] \/ tlock[u] = proc[j].run
    BY <2>1, <1>1, Unlocking DEF Leave
  <2> HIDE DEF p
  <2>4. proc'[j] = p
    BY <2>1, <1>1
  <2>5. Stays(j)
    BY <2>1, <2>3, <2>4, <1>0, <1>1, <1>2 DEF Stays, Holding
  <2>6. TypeOK'
    BY <2>1, <2>2, <2>3, <1>0, <1>1, <1>2 DEF TypeOK
  <2>7. Identities'
    BY <2>1, <2>2, <1>0, <1>1, Identified
  <2>8. Local(j)'
    BY <2>2, <2>4, Relieved
  <2> QED
    BY <2>5, <2>6, <2>7, <2>8, <1>3, Combine
<1>5. CASE resp # "unknown"
  <2> DEFINE p == [proc[j] EXCEPT !.pc = "send", !.cur = None, !.todo = @ \ {n}]
  <2>1. proc' = [proc EXCEPT ![j] = p] /\ tlock' = tlock
    BY ZenonT(60), <1>0, <1>5 DEF Finish
  <2>2. /\ p \in Processes /\ p.pc = "send" /\ p.run = proc[j].run
        /\ p.version = proc[j].version /\ p.call = proc[j].call
        /\ p.todo = proc[j].todo \ {n}
    BY <1>1 DEF Processes, PCs
  <2> HIDE DEF p
  <2>4. proc'[j] = p
    BY <2>1, <1>1
  <2>5. Stays(j)
    BY <2>1, <2>4, <1>0, <1>1, <1>2 DEF Stays, Holding
  <2>6. TypeOK'
    BY <2>1, <2>2, <1>0, <1>1, <1>2 DEF TypeOK
  <2>7. Identities'
    BY <2>1, <2>2, <1>0, <1>1, Identified
  <2>8. Local(j)'
    <3>1. Group(j)' = Group(j) /\ Needed(j)' = Needed(j)
      BY <2>2, <2>4 DEF Group, Needed, Own
    <3>2. \A m \in Group(j) : Complete(m)' = Complete(m) /\ m \in Notifs
      BY <1>0 DEF Complete, Group, Own
    <3>3. LocksOwned(j)'
      BY <3>1, <2>1, <2>2, <2>4, <1>0, <1>1 DEF Local, LocksOwned, Holding
    <3>4. ~Has(n, Blocking)
      BY <1>1, <1>5 DEF Receipts, Complete, Has, Blocking
    <3>5. Preflighted(j)'
      BY <3>1, <3>4, <2>2, <2>4, <1>0, <1>1
        DEF Local, Preflighted, Calling, Sending, Bound, Has
    <3>6. ASSUME NEW m \in Group(j), m \notin p.todo
          PROVE  Complete(m) \/ fence'[TargetOf[m]] = [owner |-> m, status |-> "failed"]
      <4>1. CASE m = n
        BY <4>1, <1>0, <1>1, <1>2, <1>5 DEF Receipts
      <4>2. CASE m # n
        <5>1. Complete(m) \/ fence[TargetOf[m]] = [owner |-> m, status |-> "failed"]
          BY <4>2, <3>6, <2>2, <1>0, <1>1 DEF Local, Behind, Calling
        <5> QED
          BY <5>1, <3>2, <1>1, <1>2, NotifTypes
      <4> QED
        BY <4>1, <4>2
    <3>7. Behind(j)'
      BY <3>1, <3>2, <3>6, <2>2, <2>4, <1>1 DEF Behind, Sending
    <3> QED
      BY <3>3, <3>5, <3>7, <2>2, <2>4 DEF Local, Current, Sending
  <2> QED
    BY <2>5, <2>6, <2>7, <2>8, <1>3, Combine
<1> QED
  BY <1>4, <1>5

-----------------------------------------------------------------------------
(* The invariant, and what follows from it.                                *)

LEMMA Initially == Init => IInv
<1> SUFFICES ASSUME Init
             PROVE  IInv
  OBVIOUS
<1>1. TypeOK
  <2>1. Fresh \in Processes /\ Untouched \in Entries
    BY ProcessValues DEF Untouched, Entries, Statuses
  <2>2. NoFence \in [owner : Notifs \cup {None}, status : Statuses]
    BY DEF NoFence, Statuses
  <2> QED
    BY <2>1, <2>2 DEF Init, TypeOK
<1>2. \A j \in Jobs : proc[j].pc = "idle" /\ proc[j].run = 0
  BY DEF Init, Fresh
<1>3. Identities /\ \A j \in Jobs : Local(j)
  BY <1>2 DEF Identities, Running, Local, LocksOwned, Preflighted, Current, Behind,
    Holding, Calling, Sending
<1>4. \A n \in Notifs : \A k \in Kinds :
        entry[n][k].status = "not_attempted" /\ got[n][k] = 0
  BY DEF Init, Untouched
<1>5. \A t \in Targets : fence[t] = NoFence /\ fence[t].status = "not_attempted"
  BY DEF Init, NoFence
<1>6. Recorded
  BY <1>4, <1>5, PartsOf, DeliveryAssumption DEF Recorded, Fenced, Receipted,
    FileFollows, FileAfterText, FailedFenceRecoverable, Midway, Has, Kinds
<1> QED
  BY <1>1, <1>3, <1>6 DEF IInv

LEMMA Inductive == IInv /\ [Next]_vars => IInv'
<1> SUFFICES ASSUME IInv, [Next]_vars
             PROVE  IInv'
  OBVIOUS
<1>1. ASSUME NEW j \in Jobs, Step(j)
      PROVE  IInv'
  <2>1. CASE PreflightRefuse(j) \/ PrepareRaise(j) \/ BeginRefused(j)
               \/ CallDone(j) \/ Retry(j) \/ GiveUp(j)
    BY <2>1, StoppingSteps
  <2>2. CASE PreflightPass(j) \/ AcquireLock(j) \/ LocksHeld(j)
               \/ StageDone(j) \/ PrepareDone(j)
    BY <2>2, AdvancingSteps
  <2>3. CASE StageResend(j)
    BY <2>3, ResendStaged
  <2>4. CASE Begin(j)
    BY <2>4, Begun
  <2>5. CASE MarkInFlight(j)
    BY <2>5, MarkedInFlight
  <2>6. CASE \E receipt \in Receipts : Send(j, receipt)
    BY <2>6, Sent
  <2>7. CASE Record(j)
    BY <2>7, ReceiptSaved
  <2>8. CASE Finish(j)
    BY <2>8, Finished
  <2> QED
    BY <1>1, <2>1, <2>2, <2>3, <2>4, <2>5, <2>6, <2>7, <2>8 DEF Step
<1>2. ASSUME NEW j \in Jobs,
             \/ Crash(j) \/ ReviewJobLock(j)
             \/ \E force \in BOOLEAN, v \in Versions : Start(j, force, v)
      PROVE  IInv'
  BY <1>2, StoppingSteps
<1>3. ASSUME NEW t \in Targets, ReviewTargetLock(t)
      PROVE  IInv'
  BY <1>3, TargetLockReviewed
<1>4. CASE UNCHANGED vars
  <2>1. TypeOK' /\ Identities' /\ Recorded'
    BY <1>4, Unrecorded DEF IInv, TypeOK, Identities, Running, vars
  <2>2. ASSUME NEW j \in Jobs
        PROVE  Local(j)'
    <3>1. Local(j)
      BY DEF IInv
    <3>2. Stays(j)
      BY <1>4 DEF Stays, IInv, TypeOK, vars
    <3>3. Group(j)' = Group(j) /\ Needed(j)' = Needed(j)
      BY <1>4 DEF Group, Needed, Own, vars
    <3>4. LocksOwned(j)' /\ Preflighted(j)'
      BY <3>1, <3>3, <1>4 DEF Local, LocksOwned, Preflighted, Clear, Bound, Resend,
        Has, Complete, Own, vars
    <3>5. Current(j)' /\ Behind(j)'
      BY ZenonT(60), <3>1, <3>3, <1>4 DEF Local, Current, Behind, Underway, Fired, NextKind,
        Has, Complete, vars
    <3> QED
      BY <3>4, <3>5 DEF Local
  <2> QED
    BY <2>1, <2>2 DEF IInv
<1> QED
  BY <1>1, <1>2, <1>3, <1>4 DEF Next

(* Every reachable state of Delivery satisfies the inductive invariant: the *)
(* locks, fences, progress file, local values and provider agree as there   *)
(* described.                                                               *)
THEOREM Invariance == Spec => []IInv
BY Initially, Inductive, PTL DEF Spec

(* Every variable keeps its type. *)
THEOREM TypeCorrect == Spec => []TypeOK
<1>1. IInv => TypeOK
  BY DEF IInv
<1> QED
  BY <1>1, Invariance, PTL

(* No component of a notification is accepted twice in one generation.     *)
THEOREM NothingTwice == Spec => []AtMostOnce
<1>1. IInv => AtMostOnce
  BY DEF IInv, Recorded, Receipted, AtMostOnce
<1> QED
  BY <1>1, Invariance, PTL

(* The file that arrived follows its own text, with the same material.     *)
THEOREM TextBeforeFile == Spec => []WholeNotification
<1>1. IInv => WholeNotification
  <2> SUFFICES ASSUME IInv, NEW n \in Notifs, got[n]["file"] > 0
               PROVE  got[n]["text"] = 1 /\ ver[n]["text"] = ver[n]["file"]
    BY DEF WholeNotification
  <2>1. got[n]["file"] = 1 /\ n \in WithFile
    BY PartsOf DEF IInv, Recorded, Receipted, Kinds
  <2>2. /\ entry[n]["file"].status # "not_attempted"
        /\ ver[n]["file"] = entry[n]["file"].print
    BY <2>1 DEF IInv, Recorded, Receipted, Kinds
  <2>3. /\ entry[n]["text"].status = "provider_accepted"
        /\ entry[n]["text"].print = entry[n]["file"].print
    BY <2>1, <2>2 DEF IInv, Recorded, FileFollows, FileAfterText
  <2> QED
    BY <2>2, <2>3, PartsOf DEF IInv, Recorded, Receipted, Kinds
<1> QED
  BY <1>1, Invariance, PTL

(* What the progress file says is accepted was, and what it says was not    *)
(* sent was not.                                                            *)
THEOREM ReceiptsRight == Spec => []ReceiptsTrue
<1>1. IInv => ReceiptsTrue
  BY PartsOf DEF IInv, Recorded, Receipted, ReceiptsTrue
<1> QED
  BY <1>1, Invariance, PTL

(* No target is in the middle of two notifications. *)
THEOREM OneLane == Spec => []OneAtATime
<1>1. IInv => OneAtATime
  BY DEF IInv, Recorded, Fenced, OneAtATime
<1> QED
  BY <1>1, Invariance, PTL

(* A definite failure can always be taken up again by its job. *)
THEOREM FailureRecoverable == Spec => []FailedFenceRecoverable
<1>1. IInv => FailedFenceRecoverable
  BY DEF IInv, Recorded
<1> QED
  BY <1>1, Invariance, PTL

-----------------------------------------------------------------------------
(* Properties of the steps.                                                *)

(* What each step that is not Send or StageResend leaves of the history.   *)
LEMMA HistoryKept ==
  ASSUME [Next]_vars,
         \A j \in Jobs : ~StageResend(j),
         \A j \in Jobs, receipt \in Receipts : ~Send(j, receipt)
  PROVE  UNCHANGED history
<1>1. ASSUME NEW j \in Jobs, Step(j)
      PROVE  UNCHANGED history
  BY <1>1 DEF Step, PreflightPass, PreflightRefuse, AcquireLock, LocksHeld,
    StageDone, PrepareDone, PrepareRaise, Begin, BeginRefused, MarkInFlight,
    Record, Finish, CallDone, Retry, GiveUp
<1>2. ASSUME NEW j \in Jobs,
             \/ Crash(j) \/ ReviewJobLock(j)
             \/ \E force \in BOOLEAN, v \in Versions : Start(j, force, v)
      PROVE  UNCHANGED history
  BY <1>2 DEF Crash, ReviewJobLock, Start
<1>3. ASSUME NEW t \in Targets, ReviewTargetLock(t)
      PROVE  UNCHANGED history
  BY <1>3 DEF ReviewTargetLock
<1>4. CASE UNCHANGED vars
  BY <1>4 DEF vars, history
<1> QED
  BY <1>1, <1>2, <1>3, <1>4 DEF Next

(* The effect of a message on the history. *)
LEMMA SendEffect ==
  ASSUME IInv, NEW j \in Jobs, NEW receipt \in Receipts, Send(j, receipt)
  PROVE  LET n == proc[j].cur
             k == NextKind(n)
         IN /\ n \in Notifs /\ k \in Parts(n) /\ k \in Kinds
            /\ fence[TargetOf[n]].owner = n
            /\ got[n][k] = 0
            /\ k = "file" => /\ got[n]["text"] = 1
                             /\ ver[n]["text"] = proc[j].version
            /\ proc[j].version \in Versions
            /\ ~Has(n, {"unknown"})
            /\ \/ UNCHANGED <<got, ver>>
               \/ /\ got' = [got EXCEPT ![n][k] = 1]
                  /\ ver' = [ver EXCEPT ![n][k] = proc[j].version]
            /\ UNCHANGED <<fence, gen>>
<1> DEFINE n == proc[j].cur
           k == NextKind(n)
<1>1. proc[j].pc = "wire" /\ proc[j].pc \in Sending
  BY DEF Send, At, Sending
<1>2. /\ TypeOK /\ Recorded /\ n \in Notifs /\ Bound(j, n)
      /\ proc[j].version \in Versions
      /\ fence[TargetOf[n]] = [owner |-> n, status |-> "in_flight"]
      /\ Fired(j, n) /\ got[n][k] = 0
  BY <1>1, AtWork DEF Underway
<1>3. k \in Parts(n) /\ k \in Kinds
      /\ (k = "file" => n \in WithFile /\ entry[n]["text"].status = "provider_accepted")
  BY <1>2, SendingPart DEF Recorded, Fired
<1>4. k = "file" => got[n]["text"] = 1 /\ ver[n]["text"] = proc[j].version
  <2> SUFFICES ASSUME k = "file"
               PROVE  got[n]["text"] = 1 /\ ver[n]["text"] = proc[j].version
    OBVIOUS
  <2>1. got[n]["text"] = 1 /\ ver[n]["text"] = entry[n]["text"].print
    BY <1>2, <1>3, PartsOf DEF Recorded, Receipted, Kinds
  <2>2. entry[n]["text"].print = proc[j].version
    BY <1>2, <1>3, PartsOf, DeliveryAssumption DEF Recorded, FileFollows, Bound, Kinds
  <2> QED
    BY <2>1, <2>2
<1>5. ~Has(n, {"unknown"})
  BY <1>2 DEF Fired, Has, Blocking
<1>6. \/ UNCHANGED <<got, ver>>
      \/ /\ got' = [got EXCEPT ![n][k] = 1]
         /\ ver' = [ver EXCEPT ![n][k] = proc[j].version]
  <2>1. CASE /\ got' = [got EXCEPT ![n][k] = @ + 1]
             /\ ver' = [ver EXCEPT ![n][k] = proc[j].version]
    BY <2>1, <1>2
  <2>2. CASE UNCHANGED <<got, ver>>
    BY <2>2
  <2> QED
    BY <2>1, <2>2 DEF Send
<1> QED
  BY <1>2, <1>3, <1>4, <1>5, <1>6 DEF Send

(* The effect of a resend on the history. *)
LEMMA ResendEffect ==
  ASSUME IInv, NEW j \in Jobs, StageResend(j)
  PROVE  \E n \in Notifs :
           /\ \A k \in Parts(n) : got[n][k] = 1
           /\ got' = [got EXCEPT ![n] = [k \in Kinds |-> 0]]
           /\ ver' = [ver EXCEPT ![n] = [k \in Kinds |-> None]]
           /\ gen' = [gen EXCEPT ![n] = @ + 1]
           /\ UNCHANGED fence
<1>1. PICK n \in Group(j) :
        /\ Resend(j, n, proc[j].force, proc[j].run)
        /\ got' = [got EXCEPT ![n] = [k \in Kinds |-> 0]]
        /\ ver' = [ver EXCEPT ![n] = [k \in Kinds |-> None]]
        /\ gen' = [gen EXCEPT ![n] = @ + 1]
  BY DEF StageResend, IsFirst
<1>2. n \in Notifs /\ \A k \in Parts(n) : got[n][k] = 1
  BY <1>1, PartsOf DEF Group, Own, Resend, Complete, IInv, Recorded, Receipted
<1> QED
  BY <1>1, <1>2 DEF StageResend

(* No run sends to a target one of whose notifications is in doubt. *)
THEOREM DoubtFreezes == Spec => UnknownFreezesTarget
<1> DEFINE Frozen == \A m, n \in Notifs :
              InDoubt(m) /\ TargetOf[m] = TargetOf[n]
                => \A k \in Kinds : got'[n][k] <= got[n][k]
<1>1. IInv /\ [Next]_vars => Frozen
  <2> SUFFICES ASSUME IInv, [Next]_vars, NEW m \in Notifs, NEW n \in Notifs,
                      InDoubt(m), TargetOf[m] = TargetOf[n], NEW k \in Kinds
               PROVE  got'[n][k] <= got[n][k]
    OBVIOUS
  <2>1. got \in [Notifs -> [Kinds -> Nat]] /\ got[n][k] \in Nat
    BY DEF IInv, TypeOK
  <2>2. ASSUME NEW j \in Jobs, StageResend(j)
        PROVE  got'[n][k] <= got[n][k]
    <3>1. PICK o \in Notifs : got' = [got EXCEPT ![o] = [l \in Kinds |-> 0]]
      BY <2>2, ResendEffect
    <3> QED
      BY <3>1, <2>1
  <2>3. ASSUME NEW j \in Jobs, NEW receipt \in Receipts, Send(j, receipt)
        PROVE  got'[n][k] <= got[n][k]
    <3>1. fence[TargetOf[m]].owner = m
      BY DEF IInv, Recorded, Fenced, Midway, InDoubt, Has
    <3>2. CASE proc[j].cur = n
      <4>1. proc[j].cur = m
        BY <3>1, <3>2, <2>3, SendEffect
      <4> QED
        BY <4>1, <2>3, SendEffect DEF InDoubt
    <3>3. CASE proc[j].cur # n
      <4> PICK o : o = proc[j].cur
        OBVIOUS
      <4> PICK l : l = NextKind(o)
        OBVIOUS
      <4>1. \/ got' = got
            \/ got' = [got EXCEPT ![o][l] = 1]
        BY <2>3, SendEffect
      <4>2. got'[n] = got[n]
        BY <4>1, <3>3, <2>1
      <4> QED
        BY <4>2, <2>1
    <3> QED
      BY <3>2, <3>3
  <2>4. CASE UNCHANGED history
    BY <2>4, <2>1 DEF history
  <2> QED
    BY <2>2, <2>3, <2>4, HistoryKept
<1> QED
  BY <1>1, Invariance, PTL DEF Spec, UnknownFreezesTarget

-----------------------------------------------------------------------------
(* Delivery implements Outbox.                                             *)

LEMMA PromiseKinds ==
  /\ Promise!Kinds = Kinds
  /\ \A n \in Notifs : Promise!Parts(n) = Parts(n)
BY DEF Promise!Kinds, Promise!Parts, Kinds, Parts

LEMMA PromiseInit == Init => Promise!Init
BY DEF Init, Promise!Init, Promise!Kinds, Kinds, NoFence

(* The fence a step writes is the lane it leaves. *)
LEMMA SendAccepts ==
  ASSUME IInv, NEW j \in Jobs, NEW receipt \in Receipts, Send(j, receipt)
  PROVE  [Promise!Next]_(Promise!vars)
<1> PICK n : n = proc[j].cur
  OBVIOUS
<1> PICK k : k = NextKind(n)
  OBVIOUS
<1>1. /\ n \in Notifs /\ k \in Parts(n) /\ k \in Kinds
      /\ fence[TargetOf[n]].owner = n /\ TargetOf[n] \in Targets
      /\ got[n][k] = 0
      /\ k = "file" => got[n]["text"] = 1 /\ ver[n]["text"] = proc[j].version
      /\ proc[j].version \in Versions
      /\ \/ UNCHANGED <<got, ver>>
         \/ /\ got' = [got EXCEPT ![n][k] = 1]
            /\ ver' = [ver EXCEPT ![n][k] = proc[j].version]
      /\ UNCHANGED <<fence, gen>>
  BY SendEffect, NotifTypes
<1>2. CASE UNCHANGED <<got, ver>>
  BY <1>1, <1>2 DEF Promise!vars
<1>3. CASE /\ got' = [got EXCEPT ![n][k] = 1]
           /\ ver' = [ver EXCEPT ![n][k] = proc[j].version]
  <2>1. Promise!Accept(n, k, proc[j].version)
    BY <1>1, <1>3, PromiseKinds DEF Promise!Accept
  <2> QED
    BY <2>1, <1>1, PromiseKinds DEF Promise!Next
<1> QED
  BY <1>1, <1>2, <1>3

LEMMA ResendRenews ==
  ASSUME IInv, NEW j \in Jobs, StageResend(j)
  PROVE  [Promise!Next]_(Promise!vars)
<1>1. PICK n \in Notifs :
        /\ \A k \in Parts(n) : got[n][k] = 1
        /\ got' = [got EXCEPT ![n] = [k \in Kinds |-> 0]]
        /\ ver' = [ver EXCEPT ![n] = [k \in Kinds |-> None]]
        /\ gen' = [gen EXCEPT ![n] = @ + 1]
        /\ UNCHANGED fence
  BY ResendEffect
<1>2. Promise!Renew(n)
  BY <1>1, PromiseKinds DEF Promise!Renew, Promise!Received
<1> QED
  BY <1>2 DEF Promise!Next

LEMMA BeginOpens ==
  ASSUME IInv, NEW j \in Jobs, Begin(j)
  PROVE  [Promise!Next]_(Promise!vars)
<1>1. PICK n \in proc[j].todo :
        /\ FenceAllows(n)
        /\ fence' = [fence EXCEPT ![TargetOf[n]] =
                       [owner |-> n, status |-> "in_flight"]]
  BY DEF Begin
<1>2. /\ n \in Notifs /\ TargetOf[n] \in Targets
      /\ fence \in [Targets -> [owner : Notifs \cup {None}, status : Statuses]]
      /\ UNCHANGED <<got, ver, gen>>
  BY <1>1, NotifTypes DEF IInv, TypeOK, Processes, Begin, history
<1> DEFINE lane == [t \in Targets |-> fence[t].owner]
<1>3. lane' = [lane EXCEPT ![TargetOf[n]] = n]
  BY <1>1, <1>2
<1>4. CASE fence[TargetOf[n]] = NoFence
  <2>1. lane[TargetOf[n]] = None
    BY <1>4, <1>2 DEF NoFence
  <2>2. Promise!Open(n)
    BY <2>1, <1>2, <1>3 DEF Promise!Open
  <2> QED
    BY <2>2, <1>2 DEF Promise!Next
<1>5. CASE fence[TargetOf[n]] = [owner |-> n, status |-> "failed"]
  <2>1. lane[TargetOf[n]] = n
    BY <1>5, <1>2
  <2>2. lane' = lane
    BY <2>1, <1>3
  <2> QED
    BY <2>2, <1>2 DEF Promise!vars
<1> QED
  BY <1>1, <1>4, <1>5 DEF FenceAllows

LEMMA FinishCloses ==
  ASSUME IInv, NEW j \in Jobs, Finish(j)
  PROVE  [Promise!Next]_(Promise!vars)
<1> PICK n : n = proc[j].cur
  OBVIOUS
<1>1. proc[j].pc = "finish" /\ proc[j].pc \in Sending
  BY DEF Finish, At, Sending
<1>2. /\ TypeOK /\ Recorded /\ n \in Notifs /\ TargetOf[n] \in Targets
      /\ fence[TargetOf[n]] = [owner |-> n, status |-> "in_flight"]
      /\ proc[j].resp = "provider_accepted" => Complete(n)
      /\ fence' = [fence EXCEPT ![TargetOf[n]] =
           IF proc[j].resp = "provider_accepted" THEN NoFence
           ELSE [owner |-> n, status |-> proc[j].resp]]
      /\ UNCHANGED <<got, ver, gen>>
  BY <1>1, AtWork DEF Underway, Finish, history
<1> DEFINE lane == [t \in Targets |-> fence[t].owner]
<1>3. fence \in [Targets -> [owner : Notifs \cup {None}, status : Statuses]]
  BY <1>2 DEF TypeOK
<1>4. lane[TargetOf[n]] = n
  BY <1>2
<1>5. CASE proc[j].resp = "provider_accepted"
  <2>1. lane' = [lane EXCEPT ![TargetOf[n]] = None]
    BY <1>2, <1>3, <1>5 DEF NoFence
  <2>2. \A k \in Parts(n) : got[n][k] = 1
    BY <1>2, <1>5, PartsOf DEF Recorded, Receipted, Complete
  <2>3. Promise!Close(n)
    BY <2>1, <2>2, <1>2, <1>4, PromiseKinds DEF Promise!Close, Promise!Received
  <2> QED
    BY <2>3, <1>2 DEF Promise!Next
<1>6. CASE proc[j].resp # "provider_accepted"
  <2>1. lane' = lane
    BY <1>2, <1>3, <1>6
  <2> QED
    BY <2>1, <1>2 DEF Promise!vars
<1> QED
  BY <1>5, <1>6

(* The other steps write no fence. *)
LEMMA FencesKept ==
  ASSUME [Next]_vars,
         \A j \in Jobs : ~Begin(j) /\ ~Finish(j)
  PROVE  UNCHANGED fence
<1>1. ASSUME NEW j \in Jobs, Step(j)
      PROVE  UNCHANGED fence
  BY <1>1 DEF Step, PreflightPass, PreflightRefuse, AcquireLock, LocksHeld,
    StageResend, StageDone, PrepareDone, PrepareRaise, BeginRefused, MarkInFlight,
    Send, Record, CallDone, Retry, GiveUp
<1>2. ASSUME NEW j \in Jobs,
             \/ Crash(j) \/ ReviewJobLock(j)
             \/ \E force \in BOOLEAN, v \in Versions : Start(j, force, v)
      PROVE  UNCHANGED fence
  BY <1>2 DEF Crash, ReviewJobLock, Start
<1>3. ASSUME NEW t \in Targets, ReviewTargetLock(t)
      PROVE  UNCHANGED fence
  BY <1>3 DEF ReviewTargetLock
<1>4. CASE UNCHANGED vars
  BY <1>4 DEF vars
<1> QED
  BY SMTT(30), <1>1, <1>2, <1>3, <1>4 DEF Next

(* Every behaviour of the files, locks, fences and runs is one of Outbox.  *)
THEOREM PromiseKept == Spec => KeepsPromise
<1>1. IInv /\ [Next]_vars => [Promise!Next]_(Promise!vars)
  <2> SUFFICES ASSUME IInv, [Next]_vars
               PROVE  [Promise!Next]_(Promise!vars)
    OBVIOUS
  <2>1. CASE \E j \in Jobs, receipt \in Receipts : Send(j, receipt)
    BY <2>1, SendAccepts
  <2>2. CASE \E j \in Jobs : StageResend(j)
    BY <2>2, ResendRenews
  <2>3. CASE \E j \in Jobs : Begin(j)
    BY <2>3, BeginOpens
  <2>4. CASE \E j \in Jobs : Finish(j)
    BY <2>4, FinishCloses
  <2>5. CASE UNCHANGED history /\ UNCHANGED fence
    BY <2>5 DEF Promise!vars, history
  <2> QED
    BY <2>1, <2>2, <2>3, <2>4, <2>5, HistoryKept, FencesKept
<1> QED
  BY <1>1, PromiseInit, Invariance, PTL DEF Spec, KeepsPromise, Promise!Spec
=============================================================================
