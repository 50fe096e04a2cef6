------------------------------- MODULE Freeze -------------------------------
(***************************************************************************)
(* The weekly inventory baseline of the slow task and what is built on it: *)
(* workflow_io.freeze_current_week, the only database write there is, then *)
(* the customer plan cached for the week and the notifications of both.    *)
(*                                                                         *)
(* Profiles have progress files and plans of their own and share the       *)
(* database, where GET_LOCK keeps their freezes apart.  The lock and an    *)
(* open transaction go with the connection, whichever way it ends.  In a   *)
(* profile one process runs at a time, under the job's lock file.          *)
(*                                                                         *)
(* Two notifications stand for those of a run: the task, made from the     *)
(* baseline, and the package, made from the plan.  A send is one step; its *)
(* writes and the deaths between them are those of Delivery.               *)
(***************************************************************************)
EXTENDS Naturals

CONSTANTS
  Profiles,   \* profiles that run the job against one database
  Stocks,     \* contents the source table may have when it is read
  Mappings,   \* customer mappings the database may have when it is read
  MaxRuns,    \* bound: runs started in a behaviour
  None

ASSUME FreezeAssumption ==
  /\ MaxRuns \in Nat
  /\ None \notin Profiles \cup Stocks

VARIABLES
  base,       \* the week's rows in slow_moving_baseline
  dblock,     \* the profile whose connection holds GET_LOCK
  proc,       \* the process of a profile
  runs,       \* runs started so far
  entry,      \* progress file: status of the freeze entry
  plan,       \* customers-<week>.json
  sent,       \* progress file: the entry of a notification, by its key
  landed      \* history: whether the profile's last attempt was committed

vars == <<base, dblock, proc, runs, entry, plan, sent, landed>>

Notifs == {"task", "package"}
NoRows == [stock |-> None, id |-> 0]
NoPlan == [stock |-> None, mapping |-> None]

(* The key of a package is a digest of its customers, so that another plan *)
(* makes another notification; the key of a task depends on the week only. *)
TaskKey == NoPlan
Keys == {TaskKey} \cup [stock : Stocks, mapping : Mappings]
Unsent == [status |-> "not_attempted", run |-> 0, print |-> None]
Idle == [pc |-> "idle", run |-> 0, refreeze |-> FALSE,
         force |-> FALSE, send |-> FALSE, rows |-> NoRows]
PCs == {"idle", "lock", "locked", "txn", "committed", "map", "check", "task",
        "package", "done"}

Rows == [stock : Stocks \cup {None}, id : 0..MaxRuns]
Plans == [stock : Stocks \cup {None}, mapping : Mappings \cup {None}]
Doubtful == {"in_flight", "unknown"}
Statuses == {"not_attempted", "provider_accepted", "failed", "unknown"}
Entries == [status : Statuses, run : 0..MaxRuns,
            print : Stocks \cup {None}]

TypeOK ==
  /\ base \in Rows
  /\ dblock \in Profiles \cup {None}
  /\ proc \in [Profiles ->
       [pc : PCs, run : 0..MaxRuns, refreeze : BOOLEAN,
        force : BOOLEAN, send : BOOLEAN, rows : Rows]]
  /\ runs \in 0..MaxRuns
  /\ entry \in [Profiles ->
       {"not_attempted", "in_flight", "committed", "failed", "unknown"}]
  /\ plan \in [Profiles -> Plans]
  /\ sent \in [Profiles -> [Keys -> Entries]]
  /\ landed \in [Profiles -> BOOLEAN]

Init ==
  /\ base = NoRows
  /\ dblock = None
  /\ proc = [p \in Profiles |-> Idle]
  /\ runs = 0
  /\ entry = [p \in Profiles |-> "not_attempted"]
  /\ plan = [p \in Profiles |-> NoPlan]
  /\ sent = [p \in Profiles |-> [k \in Keys |-> Unsent]]
  /\ landed = [p \in Profiles |-> FALSE]

At(p, pc) == proc[p].pc = pc
Goto(p, pc) == proc' = [proc EXCEPT ![p].pc = pc]
Unlocked(p) == IF dblock = p THEN None ELSE dblock
Has(p, S) == \E k \in Keys : sent[p][k].status \in S

-----------------------------------------------------------------------------
(* The beginning of a run.  A refreeze may not pass over anything that is  *)
(* incomplete, and with sending enabled it must be a forced run; nothing   *)
(* is frozen again while the outcome of an earlier freeze is in doubt.     *)

Refreezable(p) ==
  /\ entry[p] \notin {"failed", "in_flight", "unknown"}
  /\ ~Has(p, {"failed", "unknown"})
  /\ \A k \in Keys : sent[p][k].status = "not_attempted" => sent[p][k].run = 0

(* Mutant of Settled: only an unknown outcome is in doubt.                 *)
SettledUnlessUnknown(p) == entry[p] # "unknown"

Settled(p) == entry[p] \notin Doubtful

Start(p, freeze, refreeze, force, send) ==
  /\ At(p, "idle")
  /\ runs < MaxRuns
  /\ refreeze => freeze /\ Refreezable(p) /\ (send => force)
  /\ freeze => Settled(p)
  /\ send => entry[p] \notin Doubtful /\ ~Has(p, {"unknown"})
  /\ freeze \/ base # NoRows
  /\ runs' = runs + 1
  /\ proc' = [proc EXCEPT ![p] =
       [Idle EXCEPT !.pc = IF freeze THEN "lock" ELSE "map", !.run = runs + 1,
                    !.refreeze = refreeze, !.force = force, !.send = send,
                    !.rows = IF freeze THEN NoRows ELSE base]]
  /\ UNCHANGED <<base, dblock, entry, plan, sent, landed>>

-----------------------------------------------------------------------------
(* freeze_current_week.                                                    *)

(* Mutant of Lock: the answer of GET_LOCK is not looked at.                *)
LockAnyway(p) ==
  /\ At(p, "lock")
  /\ dblock' = IF dblock = None THEN p ELSE dblock
  /\ Goto(p, "locked")
  /\ UNCHANGED <<base, runs, entry, plan, sent, landed>>

Lock(p) ==
  /\ At(p, "lock")
  /\ dblock = None
  /\ dblock' = p
  /\ Goto(p, "locked")
  /\ UNCHANGED <<base, runs, entry, plan, sent, landed>>

Reuse(p) ==
  /\ At(p, "locked")
  /\ base # NoRows
  /\ ~proc[p].refreeze
  /\ proc' = [proc EXCEPT ![p].rows = base, ![p].pc = "map"]
  /\ dblock' = Unlocked(p)
  /\ UNCHANGED <<base, runs, entry, plan, sent, landed>>

(* The rows to insert are read and planned, and the attempt is recorded.   *)
Attempt(p, stock) ==
  /\ At(p, "locked")
  /\ base = NoRows \/ proc[p].refreeze
  /\ proc' = [proc EXCEPT ![p].rows = [stock |-> stock, id |-> proc[p].run],
                          ![p].pc = "txn"]
  /\ entry' = [entry EXCEPT ![p] = "in_flight"]
  /\ landed' = [landed EXCEPT ![p] = FALSE]
  /\ UNCHANGED <<base, dblock, runs, plan, sent>>

(* DELETE, INSERT or the verification fails, and all is rolled back.       *)
Rollback(p) ==
  /\ At(p, "txn")
  /\ entry' = [entry EXCEPT ![p] = "failed"]
  /\ proc' = [proc EXCEPT ![p] = Idle]
  /\ dblock' = Unlocked(p)
  /\ UNCHANGED <<base, runs, plan, sent, landed>>

Commit(p) ==
  /\ At(p, "txn")
  /\ base' = proc[p].rows
  /\ landed' = [landed EXCEPT ![p] = TRUE]
  /\ Goto(p, "committed")
  /\ UNCHANGED <<dblock, runs, entry, plan, sent>>

(* Mutant of LostCommit: an error of the commit counts as a rollback.      *)
LostCommitFailed(p) ==
  /\ At(p, "txn")
  /\ \/ base' = proc[p].rows /\ landed' = [landed EXCEPT ![p] = TRUE]
     \/ UNCHANGED <<base, landed>>
  /\ entry' = [entry EXCEPT ![p] = "failed"]
  /\ proc' = [proc EXCEPT ![p] = Idle]
  /\ dblock' = Unlocked(p)
  /\ UNCHANGED <<runs, plan, sent>>

(* The acknowledgement of the commit is lost; it took place or not.        *)
LostCommit(p) ==
  /\ At(p, "txn")
  /\ \/ base' = proc[p].rows /\ landed' = [landed EXCEPT ![p] = TRUE]
     \/ UNCHANGED <<base, landed>>
  /\ entry' = [entry EXCEPT ![p] = "unknown"]
  /\ proc' = [proc EXCEPT ![p] = Idle]
  /\ dblock' = Unlocked(p)
  /\ UNCHANGED <<runs, plan, sent>>

RecordCommit(p) ==
  /\ At(p, "committed")
  /\ entry' = [entry EXCEPT ![p] = "committed"]
  /\ dblock' = Unlocked(p)
  /\ Goto(p, "map")
  /\ UNCHANGED <<base, runs, plan, sent, landed>>

-----------------------------------------------------------------------------
(* The customer plan of the week.                                          *)

UsePlan(p) ==
  /\ At(p, "map")
  /\ plan[p] # NoPlan
  /\ ~proc[p].refreeze
  /\ plan[p].stock = proc[p].rows.stock
  /\ Goto(p, "check")
  /\ UNCHANGED <<base, dblock, runs, entry, plan, sent, landed>>

MakePlan(p, mapping) ==
  /\ At(p, "map")
  /\ plan[p] = NoPlan \/ proc[p].refreeze
  /\ plan' = [plan EXCEPT ![p] =
       [stock |-> proc[p].rows.stock, mapping |-> mapping]]
  /\ Goto(p, "check")
  /\ UNCHANGED <<base, dblock, runs, entry, sent, landed>>

-----------------------------------------------------------------------------
(* The notifications.                                                      *)

Key(p, n) == IF n = "task" THEN TaskKey ELSE plan[p]
Entry(p, n) == sent[p][Key(p, n)]
Material(p, n) == IF n = "task" THEN proc[p].rows.stock ELSE plan[p].stock

Resend(p, n) ==
  /\ proc[p].force
  /\ ~Has(p, {"failed"})
  /\ Entry(p, n).status = "provider_accepted"
  /\ Entry(p, n).run # proc[p].run

Admissible(p, n) ==
  /\ Entry(p, n).status # "unknown"
  /\ Entry(p, n).print \in {None, Material(p, n)} \/ Resend(p, n)

Check(p) ==
  /\ At(p, "check")
  /\ proc[p].send => \A n \in Notifs : Admissible(p, n)
  /\ Goto(p, IF proc[p].send THEN "task" ELSE "done")
  /\ UNCHANGED <<base, dblock, runs, entry, plan, sent, landed>>

After(n) == IF n = "task" THEN "package" ELSE "done"

(* The manifest is written before the first send; a forced run archives    *)
(* the last generation with it.                                            *)
Stage(p, n) ==
  /\ At(p, n)
  /\ Admissible(p, n)
  /\ \/ /\ Resend(p, n)
        /\ sent' = [sent EXCEPT ![p][Key(p, n)] =
             [status |-> "not_attempted", run |-> proc[p].run,
              print |-> Material(p, n)]]
     \/ /\ Entry(p, n).print = None
        /\ sent' = [sent EXCEPT ![p][Key(p, n)].print = Material(p, n)]
  /\ UNCHANGED <<base, dblock, proc, runs, entry, plan, landed>>

Skip(p, n) ==
  /\ At(p, n)
  /\ Admissible(p, n)
  /\ Entry(p, n).status = "provider_accepted"
  /\ ~Resend(p, n)
  /\ Goto(p, After(n))
  /\ UNCHANGED <<base, dblock, runs, entry, plan, sent, landed>>

(* A failure ends the run, at once for the task and after the packages.    *)
Send(p, n, status) ==
  /\ At(p, n)
  /\ Entry(p, n).status # "provider_accepted"
  /\ Entry(p, n).print = Material(p, n)
  /\ sent' = [sent EXCEPT ![p][Key(p, n)] =
       [status |-> status, run |-> proc[p].run, print |-> Material(p, n)]]
  /\ proc' = IF status = "provider_accepted"
             THEN [proc EXCEPT ![p].pc = After(n)]
             ELSE [proc EXCEPT ![p] = Idle]
  /\ UNCHANGED <<base, dblock, runs, entry, plan, landed>>

Return(p) ==
  /\ At(p, "done")
  /\ proc' = [proc EXCEPT ![p] = Idle]
  /\ UNCHANGED <<base, dblock, runs, entry, plan, sent, landed>>

(* The run is over before its end: a check refused to go on or it died,    *)
(* and its lock file was removed after review.  The connection closes; a   *)
(* transaction that was not committed leaves nothing.                      *)
Stop(p) ==
  /\ ~At(p, "idle")
  /\ proc' = [proc EXCEPT ![p] = Idle]
  /\ dblock' = Unlocked(p)
  /\ UNCHANGED <<base, runs, entry, plan, sent, landed>>

Next ==
  \E p \in Profiles :
    \/ \E freeze, refreeze, force, send \in BOOLEAN :
         Start(p, freeze, refreeze, force, send)
    \/ Lock(p) \/ Reuse(p) \/ Rollback(p) \/ Commit(p) \/ LostCommit(p)
    \/ \E stock \in Stocks : Attempt(p, stock)
    \/ RecordCommit(p) \/ UsePlan(p) \/ Check(p) \/ Return(p) \/ Stop(p)
    \/ \E mapping \in Mappings : MakePlan(p, mapping)
    \/ \E n \in Notifs :
         \/ Stage(p, n)
         \/ Skip(p, n)
         \/ \E status \in {"provider_accepted", "failed", "unknown"} :
              Send(p, n, status)

Spec == Init /\ [][Next]_vars

-----------------------------------------------------------------------------
(* Properties.                                                             *)

(* Whatever profiles freeze at once, the rows of a week are replaced only  *)
(* by a run that was asked to refreeze: an ordinary one that finds rows    *)
(* reuses them, and none can come between its look and its commit.         *)
ReplacedOnPurpose ==
  [][base' # base /\ base # NoRows =>
       \E p \in Profiles : At(p, "txn") /\ proc[p].refreeze]_vars

(* The freeze entry is right about the last attempt: "committed" only if   *)
(* it took place, and "failed" only if it did not.                         *)
EntryTrue ==
  \A p \in Profiles :
    /\ entry[p] = "committed" => landed[p]
    /\ entry[p] = "failed" => ~landed[p]

(* An attempt whose outcome is unknown, or that a dead process left in     *)
(* flight, is not followed by another, nor forgotten: whatever later runs  *)
(* do, the entry stays and no transaction is opened.                       *)
DoubtBlocks ==
  [][\A p \in Profiles :
       /\ entry[p] \in Doubtful
       /\ entry[p] = "in_flight" => proc[p].pc \notin {"txn", "committed"}
       => entry'[p] = entry[p] /\ proc'[p].pc # "txn"]_vars

(* A run that sends and succeeds leaves everybody told of one baseline,    *)
(* the one it froze or found: the task and the packages of a plan made for *)
(* those very rows, though each may be the work of an earlier run.         *)
SuccessIsWhole ==
  \A p \in Profiles : At(p, "done") /\ proc[p].send =>
    /\ plan[p].stock = proc[p].rows.stock
    /\ \A n \in Notifs :
         /\ Entry(p, n).status = "provider_accepted"
         /\ Entry(p, n).print = proc[p].rows.stock

(* The files of a profile tell the truth of the database: the entry of its *)
(* last attempt, and what was sent by a run that succeeded.                *)
FilesTrue == EntryTrue /\ SuccessIsWhole
=============================================================================
