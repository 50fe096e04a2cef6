------------------------------ MODULE Delivery ------------------------------
(***************************************************************************)
(* The notification delivery of a scheduled run: workflow_io.run_bound,    *)
(* deliver_components, the application transport's target locks and        *)
(* fences, the slow-task retry budget, and the provider behind them.       *)
(*                                                                         *)
(* A job (a progress scope) is run by one process at a time under its lock *)
(* file.  A run makes its deliver_components calls in order; a call takes  *)
(* the lock file of every target, opens new generations if forced, uploads *)
(* the files and then sends notification by notification.  Every action    *)
(* ends at a durable write or at a call to the provider, and a process may *)
(* die between any two actions, leaving its lock files behind.             *)
(***************************************************************************)
EXTENDS Naturals

CONSTANTS
  Jobs,        \* progress scopes
  Notifs,      \* notification keys, numbers in the order of their components
  Targets,     \* application targets, numbers in the order of their lock keys
  JobOf,       \* the job a notification belongs to
  TargetOf,    \* the target its account maps to
  CallOf,      \* the deliver_components call of the run that covers it
  NumCalls,    \* calls a run makes
  WithFile,    \* notifications that carry a file after their text
  Versions,    \* versions of the material (fingerprints) a run may produce
  MaxRetries,  \* RetryBudget.max_retries
  MaxRuns,     \* bound: runs started in a behaviour
  None

ASSUME DeliveryAssumption ==
  /\ Notifs \subseteq Nat
  /\ Targets \subseteq Nat
  /\ JobOf \in [Notifs -> Jobs]
  /\ TargetOf \in [Notifs -> Targets]
  /\ NumCalls \in Nat \ {0}
  /\ CallOf \in [Notifs -> 1..NumCalls]
  /\ WithFile \subseteq Notifs
  /\ MaxRetries \in Nat
  /\ MaxRuns \in Nat
  /\ None \notin Nat \cup Versions

VARIABLES
  proc,      \* the process of each job: program counter and local values
  runs,      \* run identities given out so far
  entry,     \* progress file: status, run_id and fingerprint of a component
  manifest,  \* progress file: notification_manifests
  uploads,   \* progress file: notifications with an upload-<key> entry
  fence,     \* notification-target-<key>.json, or NoFence
  tlock,     \* the run whose lock file exists for a target, 0 for none
  got,       \* history: acceptances of a component in this generation
  ver,       \* history: the version the provider accepted
  gen        \* history: archived generations (notification_history)

progressVars == <<entry, manifest, uploads>>
history == <<got, ver, gen>>
vars == <<proc, runs, entry, manifest, uploads, fence, tlock, got, ver, gen>>

Kinds == {"text", "file"}
Parts(n) == IF n \in WithFile THEN Kinds ELSE {"text"}

(* The three outcomes official_receipt tells from acceptance and definite  *)
(* failure (unknown, unverified_success, not_delivered) are handled alike  *)
(* wherever a status is read; "unknown" stands for them.                   *)
Receipts == {"provider_accepted", "failed", "unknown"}
Statuses == Receipts \cup {"not_attempted", "in_flight"}
Blocking == {"in_flight", "unknown"}

Untouched == [status |-> "not_attempted", run |-> 0, print |-> None]
NoFence == [owner |-> None, status |-> "not_attempted"]
Fresh == [pc |-> "idle", run |-> 0, force |-> FALSE, version |-> None,
          call |-> 0, retries |-> 0, todo |-> {}, cur |-> None,
          resp |-> "unknown", failed |-> FALSE]
PCs == {"idle", "preflight", "lock", "stage", "prepare", "send", "item",
        "wire", "record", "finish", "failed", "dead"}

Processes ==
  [pc : PCs, run : Nat, force : BOOLEAN, version : Versions \cup {None},
   call : Nat, retries : Nat, todo : SUBSET Notifs, cur : Notifs \cup {None},
   resp : Receipts, failed : BOOLEAN]
Entries == [status : Statuses, run : Nat, print : Versions \cup {None}]

TypeOK ==
  /\ proc \in [Jobs -> Processes]
  /\ runs \in Nat
  /\ entry \in [Notifs -> [Kinds -> Entries]]
  /\ manifest \in [Notifs -> Versions \cup {None}]
  /\ uploads \subseteq Notifs
  /\ fence \in [Targets -> [owner : Notifs \cup {None}, status : Statuses]]
  /\ tlock \in [Targets -> Nat]
  /\ got \in [Notifs -> [Kinds -> Nat]]
  /\ ver \in [Notifs -> [Kinds -> Versions \cup {None}]]
  /\ gen \in [Notifs -> Nat]

Init ==
  /\ proc = [j \in Jobs |-> Fresh]
  /\ runs = 0
  /\ entry = [n \in Notifs |-> [k \in Kinds |-> Untouched]]
  /\ manifest = [n \in Notifs |-> None]
  /\ uploads = {}
  /\ fence = [t \in Targets |-> NoFence]
  /\ tlock = [t \in Targets |-> 0]
  /\ got = [n \in Notifs |-> [k \in Kinds |-> 0]]
  /\ ver = [n \in Notifs |-> [k \in Kinds |-> None]]
  /\ gen = [n \in Notifs |-> 0]

-----------------------------------------------------------------------------
(* Reading the progress file.                                              *)

Own(j) == {n \in Notifs : JobOf[n] = j}
Group(j) == {n \in Own(j) : CallOf[n] = proc[j].call}

Has(n, S) == \E k \in Parts(n) : entry[n][k].status \in S
Complete(n) == \A k \in Parts(n) : entry[n][k].status = "provider_accepted"
Pending(S) == {n \in S : ~Complete(n)}
Unresolved(j) == \E n \in Own(j) : Has(n, Blocking)

(* Two mutants of Resend: the recovery run is forced all the same, and a   *)
(* notification is renewed that is only partly complete.                   *)
ResendAnyway(j, n, force, run) ==
  /\ force
  /\ Complete(n)
  /\ \E k \in Parts(n) : entry[n][k].run # run
ResendPartial(j, n, force, run) ==
  /\ force
  /\ \A m \in Own(j) : ~Has(m, {"failed"})
  /\ entry[n]["text"].status = "provider_accepted"
  /\ \E k \in Parts(n) : entry[n][k].run # run

(* A forced run opens a new generation of a notification that an earlier   *)
(* run completed, unless a component of the job is waiting for recovery.   *)
Resend(j, n, force, run) ==
  /\ force
  /\ \A m \in Own(j) : ~Has(m, {"failed"})
  /\ Complete(n)
  /\ \E k \in Parts(n) : entry[n][k].run # run

(* Mutant of Admissible: the fingerprints on file are not compared.        *)
AdmissibleAnyMaterial(j, S, force, run, v) == \A n \in S : ~Has(n, Blocking)

(* preflight_components: nothing with an unknown outcome, and the material *)
(* is the one already bound to the notification unless it is sent anew.    *)
Admissible(j, S, force, run, v) ==
  /\ \A n \in S : ~Has(n, Blocking)
  /\ \A n \in S :
       \/ Resend(j, n, force, run)
       \/ /\ \A k \in Parts(n) : entry[n][k].print \in {None, v}
          /\ manifest[n] \in {None, v}

(* RetryBudget retries only after a definite failure, with every entry of  *)
(* the progress file, the upload entries too, in a state it calls safe.    *)
SafeFailure(j) ==
  /\ \E n \in Own(j) : Has(n, {"failed"})
  /\ \A n \in Own(j) : ~Has(n, Blocking)
  /\ uploads \cap Own(j) = {}

IsFirst(n, S) == n \in S /\ \A m \in S : n <= m

At(j, pc) == proc[j].pc = pc
Running(j) == proc[j].pc \notin {"idle", "dead"}
Needed(j) == {TargetOf[n] : n \in Group(j)}
Unlocked(j) == [t \in Targets |-> IF tlock[t] = proc[j].run THEN 0 ELSE tlock[t]]

(* The process after a call, on to the next one or out of the run.         *)
NextCall(p) ==
  IF p.call = NumCalls THEN Fresh
  ELSE [Fresh EXCEPT !.pc = "preflight", !.run = p.run, !.force = p.force,
                     !.version = p.version, !.retries = p.retries,
                     !.call = p.call + 1]

(* An exception leaves deliver_components: the target locks are released.  *)
(* The first call's exception ends the run; a later call's is put aside    *)
(* unless some outcome of the job is unknown.                              *)
Leave(j) ==
  /\ tlock' = Unlocked(j)
  /\ proc' = [proc EXCEPT ![j] =
       IF proc[j].call = 1 \/ Unresolved(j) THEN Fresh ELSE NextCall(proc[j])]

-----------------------------------------------------------------------------
(* A run.                                                                  *)

(* run_bound takes the job lock (pc # "idle": the file exists), gives the  *)
(* run an identity and reads the progress file; the run checks all of its  *)
(* components before the first call.  A refused run changes nothing.       *)
Start(j, force, v) ==
  /\ At(j, "idle")
  /\ runs < MaxRuns
  /\ Admissible(j, Own(j), force, runs + 1, v)
  /\ runs' = runs + 1
  /\ proc' = [proc EXCEPT ![j] =
       [Fresh EXCEPT !.pc = "preflight", !.run = runs + 1, !.force = force,
                     !.version = v, !.call = 1]]
  /\ UNCHANGED <<progressVars, fence, tlock, history>>

PreflightPass(j) ==
  /\ At(j, "preflight")
  /\ Admissible(j, Group(j), proc[j].force, proc[j].run, proc[j].version)
  /\ proc' = [proc EXCEPT ![j].pc = "lock"]
  /\ UNCHANGED <<runs, progressVars, fence, tlock, history>>

PreflightRefuse(j) ==
  /\ At(j, "preflight")
  /\ ~Admissible(j, Group(j), proc[j].force, proc[j].run, proc[j].version)
  /\ Leave(j)
  /\ UNCHANGED <<runs, progressVars, fence, history>>

(* delivery_lock creates the lock files one by one, in the order of the    *)
(* targets, and gives everything back when one exists already.             *)
AcquireLock(j) ==
  /\ At(j, "lock")
  /\ \E t \in Needed(j) :
       /\ IsFirst(t, {u \in Needed(j) : tlock[u] # proc[j].run})
       /\ IF tlock[t] = 0
          THEN tlock' = [tlock EXCEPT ![t] = proc[j].run] /\ UNCHANGED proc
          ELSE Leave(j)
  /\ UNCHANGED <<runs, progressVars, fence, history>>

LocksHeld(j) ==
  /\ At(j, "lock")
  /\ \A t \in Needed(j) : tlock[t] = proc[j].run
  /\ proc' = [proc EXCEPT ![j].pc = "stage"]
  /\ UNCHANGED <<runs, progressVars, fence, tlock, history>>

(* One write archives the receipts of the next notification to resend and  *)
(* resets all of it, and carries the manifests set in memory so far.       *)
StageResend(j) ==
  /\ At(j, "stage")
  /\ \E n \in Group(j) :
       /\ IsFirst(n, {m \in Group(j) :
                        Resend(j, m, proc[j].force, proc[j].run)})
       /\ entry' = [entry EXCEPT ![n] =
            [k \in Kinds |-> IF k \in Parts(n)
                             THEN [Untouched EXCEPT !.run = proc[j].run]
                             ELSE entry[n][k]]]
       /\ manifest' = [m \in Notifs |-> IF m \in Group(j) /\ m <= n
                                        THEN proc[j].version
                                        ELSE manifest[m]]
       /\ got' = [got EXCEPT ![n] = [k \in Kinds |-> 0]]
       /\ ver' = [ver EXCEPT ![n] = [k \in Kinds |-> None]]
       /\ gen' = [gen EXCEPT ![n] = @ + 1]
  /\ UNCHANGED <<proc, runs, uploads, fence, tlock>>

StageDone(j) ==
  /\ At(j, "stage")
  /\ \A n \in Group(j) : ~Resend(j, n, proc[j].force, proc[j].run)
  /\ manifest' = [m \in Notifs |-> IF m \in Group(j) THEN proc[j].version
                                                     ELSE manifest[m]]
  /\ proc' = [proc EXCEPT ![j].pc = "prepare"]
  /\ UNCHANGED <<runs, entry, uploads, fence, tlock, history>>

(* Mutant of FenceAllows: an unknown outcome keeps nobody away.            *)
FenceAllowsUnknown(n) == fence[TargetOf[n]].status # "in_flight"

(* _check_fence, of the first pending notification of each target.         *)
FenceAllows(n) ==
  fence[TargetOf[n]] \in {NoFence, [owner |-> n, status |-> "failed"]}

PrepareAllowed(j) ==
  \A n \in Pending(Group(j)) :
    IsFirst(n, {m \in Pending(Group(j)) : TargetOf[m] = TargetOf[n]})
      => FenceAllows(n)

PendingFiles(j) ==
  {n \in Group(j) \cap WithFile : entry[n]["file"].status # "provider_accepted"}

PrepareDone(j) ==
  /\ At(j, "prepare")
  /\ PrepareAllowed(j)
  /\ uploads' = uploads \cup PendingFiles(j)
  /\ proc' = [proc EXCEPT ![j].pc = "send", ![j].todo = Group(j)]
  /\ UNCHANGED <<runs, entry, manifest, fence, tlock, history>>

(* A fence refuses, or the token, the target or an upload fails: nothing   *)
(* is sent, though the uploads up to that one have left their entries.     *)
PrepareRaise(j) ==
  /\ At(j, "prepare")
  /\ \/ ~PrepareAllowed(j) /\ UNCHANGED uploads
     \/ /\ PrepareAllowed(j)
        /\ Pending(Group(j)) # {}
        /\ \E tried \in SUBSET PendingFiles(j) :
             /\ \A n \in tried, m \in PendingFiles(j) \ tried : n < m
             /\ uploads' = uploads \cup tried
  /\ Leave(j)
  /\ UNCHANGED <<runs, entry, manifest, fence, history>>

(* begin_notification of the next one that is not complete.                *)
Begin(j) ==
  /\ At(j, "send")
  /\ \E n \in proc[j].todo :
       /\ IsFirst(n, Pending(proc[j].todo))
       /\ FenceAllows(n)
       /\ fence' = [fence EXCEPT ![TargetOf[n]] =
                      [owner |-> n, status |-> "in_flight"]]
       /\ proc' = [proc EXCEPT ![j].pc = "item", ![j].cur = n]
  /\ UNCHANGED <<runs, progressVars, tlock, history>>

BeginRefused(j) ==
  /\ At(j, "send")
  /\ \E n \in proc[j].todo : IsFirst(n, Pending(proc[j].todo)) /\ ~FenceAllows(n)
  /\ Leave(j)
  /\ UNCHANGED <<runs, progressVars, fence, history>>

(* Mutant of NextKind: a continuation starts over with the text.           *)
NextKindOver(n) ==
  IF entry[n]["file"].status = "not_attempted" THEN "text" ELSE "file"

(* The component being sent: the text until it is accepted, then the file. *)
NextKind(n) ==
  IF entry[n]["text"].status = "provider_accepted" THEN "file" ELSE "text"

SetEntry(j, status) ==
  LET n == proc[j].cur IN
  entry' = [entry EXCEPT ![n][NextKind(n)] =
    [status |-> status, run |-> proc[j].run, print |-> proc[j].version]]

(* Mutant of MarkInFlight: the message goes out before the mark is saved.  *)
MarkLate(j) ==
  /\ At(j, "item")
  /\ proc' = [proc EXCEPT ![j].pc = "wire"]
  /\ UNCHANGED <<runs, progressVars, fence, tlock, history>>

MarkInFlight(j) ==
  /\ At(j, "item")
  /\ SetEntry(j, "in_flight")
  /\ proc' = [proc EXCEPT ![j].pc = "wire"]
  /\ UNCHANGED <<runs, manifest, uploads, fence, tlock, history>>

(* The provider takes the message or not and the process learns of it, or  *)
(* the answer is lost or unusable and the outcome is unknown to it.        *)
Send(j, receipt) ==
  /\ At(j, "wire")
  /\ LET n == proc[j].cur
         k == NextKind(n)
     IN \/ /\ receipt \in {"provider_accepted", "unknown"}
           /\ got' = [got EXCEPT ![n][k] = @ + 1]
           /\ ver' = [ver EXCEPT ![n][k] = proc[j].version]
        \/ /\ receipt \in {"failed", "unknown"}
           /\ UNCHANGED <<got, ver>>
  /\ proc' = [proc EXCEPT ![j].pc = "record", ![j].resp = receipt]
  /\ UNCHANGED <<runs, progressVars, fence, tlock, gen>>

(* The receipt is saved; only an accepted part is followed by another.     *)
Record(j) ==
  /\ At(j, "record")
  /\ SetEntry(j, proc[j].resp)
  /\ LET n == proc[j].cur
         more == proc[j].resp = "provider_accepted" /\ NextKind(n) = "text"
                   /\ n \in WithFile /\ entry[n]["file"].status # "provider_accepted"
     IN proc' = [proc EXCEPT
          ![j].pc = IF more THEN "item" ELSE "finish",
          ![j].failed = @ \/ proc[j].resp # "provider_accepted"]
  /\ UNCHANGED <<runs, manifest, uploads, fence, tlock, history>>

(* The notification's own entry, which decides no guard here, and its      *)
(* fence.                                                                  *)
Finish(j) ==
  /\ At(j, "finish")
  /\ LET n == proc[j].cur IN
     /\ fence' = [fence EXCEPT ![TargetOf[n]] =
          IF proc[j].resp = "provider_accepted" THEN NoFence
          ELSE [owner |-> n, status |-> proc[j].resp]]
     /\ IF proc[j].resp = "unknown" THEN Leave(j)
        ELSE /\ proc' = [proc EXCEPT ![j].pc = "send", ![j].cur = None,
                                     ![j].todo = @ \ {n}]
             /\ UNCHANGED tlock
  /\ UNCHANGED <<runs, progressVars, history>>

CallDone(j) ==
  /\ At(j, "send")
  /\ Pending(proc[j].todo) = {}
  /\ tlock' = Unlocked(j)
  /\ proc' = [proc EXCEPT ![j] =
       IF proc[j].failed THEN [@ EXCEPT !.pc = "failed", !.todo = {}]
       ELSE NextCall(@)]
  /\ UNCHANGED <<runs, progressVars, fence, history>>

(* Mutant of Retry: the retries are not counted.                           *)
RetryUncounted(j) ==
  /\ At(j, "failed")
  /\ SafeFailure(j)
  /\ proc' = [proc EXCEPT ![j].pc = "preflight", ![j].failed = FALSE]
  /\ UNCHANGED <<runs, progressVars, fence, tlock, history>>

(* RetryBudget.run repeats the call, within its count and its time.        *)
Retry(j) ==
  /\ At(j, "failed")
  /\ SafeFailure(j)
  /\ proc[j].retries < MaxRetries
  /\ proc' = [proc EXCEPT ![j].pc = "preflight", ![j].failed = FALSE,
                          ![j].retries = @ + 1]
  /\ UNCHANGED <<runs, progressVars, fence, tlock, history>>

(* Not safe, the count spent, or too late for another try.                 *)
GiveUp(j) ==
  /\ At(j, "failed")
  /\ Leave(j)
  /\ UNCHANGED <<runs, progressVars, fence, history>>

-----------------------------------------------------------------------------
(* What happens to a process, and what an operator does about it.          *)

Crash(j) ==
  /\ Running(j)
  /\ proc' = [proc EXCEPT ![j] = [Fresh EXCEPT !.pc = "dead"]]
  /\ UNCHANGED <<runs, progressVars, fence, tlock, history>>

(* A reviewed lock file of a dead process is removed by hand, the job's    *)
(* and each target's on its own.  Fences and receipts are left alone.      *)
ReviewJobLock(j) ==
  /\ At(j, "dead")
  /\ proc' = [proc EXCEPT ![j] = Fresh]
  /\ UNCHANGED <<runs, progressVars, fence, tlock, history>>

ReviewTargetLock(t) ==
  /\ tlock[t] # 0
  /\ \A j \in Jobs : proc[j].run # tlock[t]
  /\ tlock' = [tlock EXCEPT ![t] = 0]
  /\ UNCHANGED <<proc, runs, progressVars, fence, history>>

Step(j) ==
  \/ PreflightPass(j) \/ PreflightRefuse(j)
  \/ AcquireLock(j) \/ LocksHeld(j)
  \/ StageResend(j) \/ StageDone(j)
  \/ PrepareDone(j) \/ PrepareRaise(j)
  \/ Begin(j) \/ BeginRefused(j) \/ MarkInFlight(j)
  \/ \E receipt \in Receipts : Send(j, receipt)
  \/ Record(j) \/ Finish(j) \/ CallDone(j)
  \/ Retry(j) \/ GiveUp(j)

Next ==
  \/ \E j \in Jobs :
       \/ \E force \in BOOLEAN, v \in Versions : Start(j, force, v)
       \/ Step(j) \/ Crash(j) \/ ReviewJobLock(j)
  \/ \E t \in Targets : ReviewTargetLock(t)

Spec == Init /\ [][Next]_vars

(* A process that is not killed keeps running: every call it makes to the  *)
(* provider has a timeout and every lock it meets is refused, not awaited. *)
FairSpec == Spec /\ \A j \in Jobs : WF_vars(Step(j))
-----------------------------------------------------------------------------
(* Properties.                                                             *)

(* Within a generation the provider accepts a component at most once,      *)
(* whatever runs, forced runs, retries, crashes and lost answers there are *)
(* between: _deliver_notifications never sends what may have arrived.      *)
AtMostOnce == \A n \in Notifs, k \in Kinds : got[n][k] <= 1

(* A file only ever follows its own text: the text of the same generation  *)
(* was accepted before it and both carry one version of the material,      *)
(* although they may be sent by different runs days apart.                 *)
WholeNotification ==
  \A n \in Notifs :
    got[n]["file"] > 0 => got[n]["text"] = 1 /\ ver[n]["text"] = ver[n]["file"]

(* The progress file never claims more or less than the provider did: an   *)
(* accepted entry was accepted with the fingerprint on file, and a failed  *)
(* or unattempted one was not.                                             *)
ReceiptsTrue ==
  \A n \in Notifs : \A k \in Parts(n) :
    /\ entry[n][k].status = "provider_accepted" =>
         got[n][k] = 1 /\ ver[n][k] = entry[n][k].print
    /\ entry[n][k].status \in {"failed", "not_attempted"} => got[n][k] = 0

(* A notification that began to arrive, or may have, and is not complete.  *)
Midway(n) ==
  \/ Has(n, {"in_flight", "unknown", "failed"})
  \/ /\ \E k \in Parts(n) : got[n][k] > 0
     /\ \E k \in Parts(n) : got[n][k] = 0

(* No two notifications are in the middle of being sent to one target, of  *)
(* one job or of two: target locks keep processes apart, and the fence on  *)
(* disk keeps the target to its notification once its process is gone.     *)
OneAtATime ==
  \A m, n \in Notifs :
    TargetOf[m] = TargetOf[n] /\ Midway(m) /\ Midway(n) => m = n

(* Once an outcome is unknown, or was left in flight by a dead process,    *)
(* nothing more is sent to that target by any run, forced or not.          *)
InDoubt(n) ==
  \/ Has(n, {"unknown"})
  \/ Has(n, {"in_flight"}) /\ \A j \in Jobs : proc[j].cur # n
UnknownFreezesTarget ==
  [][\A m, n \in Notifs :
       InDoubt(m) /\ TargetOf[m] = TargetOf[n]
         => \A k \in Kinds : got'[n][k] <= got[n][k]]_vars

(* A definite failure never wedges its target.  The fence it leaves names  *)
(* a notification that still has the failed component, no doubtful one and *)
(* no other notification ahead of it in its call, so a later run of its    *)
(* job passes _check_fence and takes the fence over.                       *)
Recoverable(t) ==
  LET n == fence[t].owner IN
  /\ Has(n, {"failed"}) /\ ~Has(n, Blocking)
  /\ \A m \in Notifs :
       JobOf[m] = JobOf[n] /\ CallOf[m] = CallOf[n] /\ TargetOf[m] = t /\ m < n
         => Complete(m)
FailedFenceRecoverable ==
  \A t \in Targets : fence[t].status = "failed" => Recoverable(t)

(* The files, locks, fences and runs together keep the promise of Outbox,  *)
(* the owner of a target's fence being the notification it is working on.  *)
Promise == INSTANCE Outbox WITH lane <- [t \in Targets |-> fence[t].owner]
KeepsPromise == Promise!Spec

(* A run that is not killed comes to its end.                              *)
RunsEnd == \A j \in Jobs : []<>~Running(j)
=============================================================================
