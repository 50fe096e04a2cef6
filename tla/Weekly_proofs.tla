---------------------------- MODULE Weekly_proofs ---------------------------
(* The jobs of a week: the frozen baseline with what is built on it, and   *)
(* the sealed list.                                                        *)
(*                                                                         *)
(* The baseline, for any profiles, tables and mappings, and any number of  *)
(* runs: the files of a profile tell the truth of the database, the rows   *)
(* of a week are replaced only on purpose, and a doubt about a commit      *)
(* stays.                                                                  *)
(*                                                                         *)
(* The list, whatever the accounts, lists, targets and resends, and        *)
(* wherever a run dies: one list per week, no files a later run refuses,   *)
(* no part that nobody asked for, no report that is not so.                *)
EXTENDS Freeze, Idk, TLAPS

(* GET_LOCK is held by the one profile that looks at the rows or writes    *)
(* them, from its look to the record of its commit.                        *)
Holding == {"locked", "txn", "committed"}
Exclusive == \A p \in Profiles : dblock = p <=> proc[p].pc \in Holding

(* An attempt starts from a settled entry, and while it is open the entry  *)
(* says so; what an ordinary run replaces is nothing.                      *)
Attempting(p) ==
    /\ proc[p].pc \in {"lock", "locked"} => entry[p] \notin Doubtful
    /\ proc[p].pc \in {"txn", "committed"} => entry[p] = "in_flight"
    /\ proc[p].pc = "txn" =>
         ~landed[p] /\ proc[p].rows.stock \in Stocks /\ (proc[p].refreeze \/ base = NoRows)
    /\ proc[p].pc = "committed" => landed[p]

(* After the freeze a run has rows, then a plan that was made for them.    *)
Planned(p) ==
    /\ plan[p] \in Keys
    /\ proc[p].pc \in {"committed", "map", "check", "task", "package", "done"} =>
         proc[p].rows.stock \in Stocks
    /\ proc[p].pc \in {"check", "task", "package", "done"} =>
         plan[p].stock = proc[p].rows.stock

(* An attempted notification has a print; what a sending run has passed is *)
(* accepted, and with the print of its rows.                               *)
Arrived(p, n) ==
    /\ Entry(p, n).status = "provider_accepted"
    /\ Entry(p, n).print = proc[p].rows.stock
Notified(p) ==
    /\ \A k \in Keys : sent[p][k].status # "not_attempted" => sent[p][k].print \in Stocks
    /\ proc[p].pc \in {"task", "package"} => proc[p].send
    /\ proc[p].pc \in {"package", "done"} /\ proc[p].send => Arrived(p, "task")
    /\ proc[p].pc = "done" /\ proc[p].send => Arrived(p, "package")

IInv ==
    /\ TypeOK /\ EntryTrue
    /\ base = NoRows \/ base.stock \in Stocks
    /\ Exclusive
    /\ \A p \in Profiles : Attempting(p) /\ Planned(p) /\ Notified(p)

-----------------------------------------------------------------------------
(* What a step of one profile leaves alone.                                *)
Process == [pc : PCs, run : 0..MaxRuns, refreeze : BOOLEAN,
            force : BOOLEAN, send : BOOLEAN, rows : Rows]
Status == {"not_attempted", "in_flight", "committed", "failed", "unknown"}

OnlyOf(p) ==
    \A q \in Profiles \ {p} :
        /\ proc'[q] = proc[q] /\ entry'[q] = entry[q] /\ landed'[q] = landed[q]
        /\ plan'[q] = plan[q] /\ sent'[q] = sent[q]

(* The lock is taken, given back or left as it is, and its holder is where *)
(* a holder is.                                                            *)
LockKept(p) ==
    \/ dblock' = dblock /\ (proc'[p].pc \in Holding <=> proc[p].pc \in Holding)
    \/ dblock = None /\ dblock' = p /\ proc'[p].pc \in Holding
    \/ dblock' = Unlocked(p) /\ proc'[p].pc \notin Holding

(* A step of one profile keeps the invariant of all when it keeps its own: *)
(* the others have no transaction open when it writes the rows.            *)
LEMMA OneProfile ==
  ASSUME IInv, NEW p \in Profiles, TypeOK', OnlyOf(p), LockKept(p),
         base' = base \/ (At(p, "txn") /\ base'.stock \in Stocks),
         entry'[p] = "committed" => landed'[p],
         entry'[p] = "failed" => ~landed'[p],
         Attempting(p)', Planned(p)', Notified(p)'
  PROVE  IInv'
<1>1. EntryTrue'
  BY DEF IInv, EntryTrue, OnlyOf
<1>2. (base = NoRows \/ base.stock \in Stocks)'
  BY DEF IInv, NoRows
<1>3. Exclusive'
  BY FreezeAssumption DEF IInv, Exclusive, LockKept, OnlyOf, Unlocked
<1>4. ASSUME NEW q \in Profiles, q # p
      PROVE  Attempting(q)' /\ Planned(q)' /\ Notified(q)'
  <2>1. proc'[q] = proc[q] /\ entry'[q] = entry[q] /\ landed'[q] = landed[q]
        /\ plan'[q] = plan[q] /\ sent'[q] = sent[q]
    BY <1>4 DEF OnlyOf
  <2>2. proc[q].pc = "txn" => base' = base
    BY <1>4 DEF IInv, Exclusive, At, Holding
  <2>3. Attempting(q)'
    BY <2>1, <2>2 DEF IInv, Attempting
  <2>4. Planned(q)'
    BY <2>1 DEF IInv, Planned
  <2>5. Notified(q)'
    BY <2>1 DEF IInv, Notified, Arrived, Entry, Key
  <2> QED
    BY <2>3, <2>4, <2>5
<1> QED
  BY <1>1, <1>2, <1>3, <1>4 DEF IInv

(* The process of a profile goes on, or is over.                           *)
LEMMA Gone ==
  ASSUME TypeOK, NEW p \in Profiles, NEW pc \in PCs, Goto(p, pc)
  PROVE  /\ proc' \in [Profiles -> Process]
         /\ \A q \in Profiles \ {p} : proc'[q] = proc[q]
         /\ proc'[p].pc = pc
         /\ proc'[p].run = proc[p].run /\ proc'[p].refreeze = proc[p].refreeze
         /\ proc'[p].force = proc[p].force /\ proc'[p].send = proc[p].send
         /\ proc'[p].rows = proc[p].rows
BY DEF TypeOK, Goto, Process

LEMMA Over ==
  ASSUME TypeOK, NEW p \in Profiles, proc' = [proc EXCEPT ![p] = Idle]
  PROVE  /\ proc' \in [Profiles -> Process]
         /\ \A q \in Profiles \ {p} : proc'[q] = proc[q]
         /\ proc'[p].pc = "idle" /\ proc'[p].rows = NoRows /\ ~proc'[p].send
BY FreezeAssumption DEF TypeOK, Idle, Process, PCs, Rows, NoRows

LEMMA LockReturned ==
  ASSUME TypeOK, NEW p \in Profiles, dblock' = Unlocked(p)
  PROVE  dblock' \in Profiles \cup {None}
BY DEF TypeOK, Unlocked

(* A run that is over keeps the invariant when its entry is right: nothing *)
(* but the entry of a freeze depends on what the run was doing.            *)
LEMMA EndKeeps ==
  ASSUME IInv, NEW p \in Profiles,
         proc' = [proc EXCEPT ![p] = Idle], dblock' = Unlocked(p),
         base' = base \/ (At(p, "txn") /\ base' = proc[p].rows),
         entry' \in [Profiles -> Status], landed' \in [Profiles -> BOOLEAN],
         \A q \in Profiles \ {p} : entry'[q] = entry[q] /\ landed'[q] = landed[q],
         entry'[p] = "committed" => landed'[p],
         entry'[p] = "failed" => ~landed'[p],
         UNCHANGED <<runs, plan, sent>>
  PROVE  IInv'
<1> USE DEF IInv
<1>1. /\ proc' \in [Profiles -> Process]
      /\ \A q \in Profiles \ {p} : proc'[q] = proc[q]
      /\ proc'[p].pc = "idle" /\ proc'[p].rows = NoRows /\ ~proc'[p].send
  BY Over
<1>2. dblock' \in Profiles \cup {None}
  BY LockReturned
<1>3. base' \in Rows
  <2>1. base \in Rows /\ proc[p].rows \in Rows
    BY DEF TypeOK
  <2> QED
    BY <2>1
<1>4. TypeOK'
  BY <1>1, <1>2, <1>3 DEF TypeOK, Process, Status
<1>5. OnlyOf(p) /\ LockKept(p)
  BY <1>1 DEF OnlyOf, LockKept, Holding
<1>6. base' = base \/ (At(p, "txn") /\ base'.stock \in Stocks)
  BY DEF At, Attempting
<1>7. Attempting(p)' /\ Planned(p)' /\ Notified(p)'
  BY <1>1 DEF Attempting, Planned, Notified
<1> HIDE DEF IInv
<1> QED
  BY <1>4, <1>5, <1>6, <1>7, OneProfile

-----------------------------------------------------------------------------
(* Each action keeps the invariant.  First the beginning and the freeze.   *)
LEMMA StartKeeps ==
  ASSUME IInv, NEW p \in Profiles, NEW freeze \in BOOLEAN, NEW refreeze \in BOOLEAN,
         NEW force \in BOOLEAN, NEW send \in BOOLEAN,
         Start(p, freeze, refreeze, force, send)
  PROVE  IInv'
<1> USE DEF IInv
<1> DEFINE at == IF freeze THEN "lock" ELSE "map"
           rows == IF freeze THEN NoRows ELSE base
           new == [Idle EXCEPT !.pc = at, !.run = runs + 1, !.refreeze = refreeze,
                               !.force = force, !.send = send, !.rows = rows]
<1>1. proc' = [proc EXCEPT ![p] = new]
      /\ UNCHANGED <<base, dblock, entry, plan, sent, landed>>
      /\ proc[p].pc = "idle" /\ runs' = runs + 1 /\ runs < MaxRuns
  BY DEF Start, At
<1>2. /\ new.pc = at /\ new.rows = rows
      /\ new \in Process
  <2>1. at \in PCs /\ rows \in Rows /\ runs + 1 \in 0..MaxRuns
    BY <1>1, FreezeAssumption DEF PCs, TypeOK, Rows, NoRows
  <2> HIDE DEF at, rows
  <2> QED
    BY <2>1 DEF Process, Idle
<1>3. new.pc = "lock" => entry[p] \notin Doubtful
  BY <1>2 DEF Start, Settled
<1>4. new.pc = "map" => new.rows.stock \in Stocks
  BY <1>2 DEF Start
<1>5. new.pc \in {"lock", "map"}
  BY <1>2
<1> HIDE DEF new
<1>6. /\ proc' \in [Profiles -> Process] /\ proc'[p] = new
      /\ \A q \in Profiles \ {p} : proc'[q] = proc[q]
  BY <1>1, <1>2 DEF TypeOK, Process
<1>7. runs' \in 0..MaxRuns
  BY <1>1, FreezeAssumption DEF TypeOK
<1>8. TypeOK'
  BY <1>1, <1>6, <1>7 DEF TypeOK, Process
<1>9. OnlyOf(p) /\ LockKept(p)
  BY <1>1, <1>5, <1>6 DEF OnlyOf, LockKept, Holding
<1>10. Attempting(p)' /\ Planned(p)' /\ Notified(p)'
  BY <1>1, <1>3, <1>4, <1>5, <1>6 DEF Attempting, Planned, Notified
<1>11. (entry'[p] = "committed" => landed'[p]) /\ (entry'[p] = "failed" => ~landed'[p])
  BY <1>1 DEF EntryTrue
<1> HIDE DEF IInv
<1> QED
  BY <1>1, <1>8, <1>9, <1>10, <1>11, OneProfile

LEMMA LockKeeps ==
  ASSUME IInv, NEW p \in Profiles, Lock(p)
  PROVE  IInv'
<1> USE DEF IInv
<1>1. At(p, "lock") /\ Goto(p, "locked") /\ dblock = None /\ dblock' = p
      /\ UNCHANGED <<base, runs, entry, plan, sent, landed>> /\ "locked" \in PCs
  BY DEF Lock, PCs
<1>2. /\ proc' \in [Profiles -> Process]
      /\ \A q \in Profiles \ {p} : proc'[q] = proc[q]
      /\ proc'[p].pc = "locked"
  BY <1>1, Gone
<1>3. TypeOK'
  BY <1>1, <1>2 DEF TypeOK, Process
<1>4. OnlyOf(p) /\ LockKept(p)
  BY <1>1, <1>2 DEF OnlyOf, LockKept, Holding
<1>5. Attempting(p)' /\ Planned(p)' /\ Notified(p)'
  BY <1>1, <1>2 DEF At, Attempting, Planned, Notified
<1>6. (entry'[p] = "committed" => landed'[p]) /\ (entry'[p] = "failed" => ~landed'[p])
  BY <1>1 DEF EntryTrue
<1> HIDE DEF IInv
<1> QED
  BY <1>1, <1>3, <1>4, <1>5, <1>6, OneProfile

LEMMA ReuseKeeps ==
  ASSUME IInv, NEW p \in Profiles, Reuse(p)
  PROVE  IInv'
<1> USE DEF IInv
<1>1. /\ proc' = [proc EXCEPT ![p].rows = base, ![p].pc = "map"]
      /\ dblock' = Unlocked(p) /\ base.stock \in Stocks
      /\ UNCHANGED <<base, runs, entry, plan, sent, landed>>
  BY DEF Reuse
<1>2. /\ proc' \in [Profiles -> Process]
      /\ \A q \in Profiles \ {p} : proc'[q] = proc[q]
      /\ proc'[p].pc = "map" /\ proc'[p].rows = base
  BY ZenonT(60), <1>1 DEF TypeOK, Process, PCs
<1>3. TypeOK'
  BY <1>1, <1>2, LockReturned DEF TypeOK, Process
<1>4. OnlyOf(p) /\ LockKept(p)
  BY <1>1, <1>2 DEF OnlyOf, LockKept, Holding
<1>5. Attempting(p)' /\ Planned(p)' /\ Notified(p)'
  BY <1>1, <1>2 DEF Attempting, Planned, Notified
<1>6. (entry'[p] = "committed" => landed'[p]) /\ (entry'[p] = "failed" => ~landed'[p])
  BY <1>1 DEF EntryTrue
<1> HIDE DEF IInv
<1> QED
  BY <1>1, <1>3, <1>4, <1>5, <1>6, OneProfile

LEMMA AttemptKeeps ==
  ASSUME IInv, NEW p \in Profiles, NEW stock \in Stocks, Attempt(p, stock)
  PROVE  IInv'
<1> USE DEF IInv
<1> DEFINE rows == [stock |-> stock, id |-> proc[p].run]
<1>1. /\ proc' = [proc EXCEPT ![p].rows = rows, ![p].pc = "txn"]
      /\ entry' = [entry EXCEPT ![p] = "in_flight"]
      /\ landed' = [landed EXCEPT ![p] = FALSE]
      /\ UNCHANGED <<base, dblock, runs, plan, sent>>
      /\ proc[p].pc = "locked" /\ (base = NoRows \/ proc[p].refreeze)
  BY DEF Attempt, At
<1>2. rows \in Rows /\ rows.stock \in Stocks
  BY DEF TypeOK, Process, Rows
<1> HIDE DEF rows
<1>3. /\ proc' \in [Profiles -> Process]
      /\ \A q \in Profiles \ {p} : proc'[q] = proc[q]
      /\ proc'[p].pc = "txn" /\ proc'[p].rows = rows
      /\ proc'[p].refreeze = proc[p].refreeze
  BY ZenonT(60), <1>1, <1>2 DEF TypeOK, Process, PCs
<1>4. /\ entry' \in [Profiles -> Status] /\ landed' \in [Profiles -> BOOLEAN]
      /\ entry'[p] = "in_flight" /\ ~landed'[p]
      /\ \A q \in Profiles \ {p} : entry'[q] = entry[q] /\ landed'[q] = landed[q]
  BY <1>1 DEF TypeOK, Status
<1>5. TypeOK'
  BY <1>1, <1>3, <1>4 DEF TypeOK, Process, Status
<1>6. OnlyOf(p) /\ LockKept(p)
  BY <1>1, <1>3, <1>4 DEF OnlyOf, LockKept, Holding
<1>7. Attempting(p)' /\ Planned(p)' /\ Notified(p)'
  BY <1>1, <1>2, <1>3, <1>4 DEF Attempting, Planned, Notified
<1> HIDE DEF IInv
<1> QED
  BY <1>1, <1>4, <1>5, <1>6, <1>7, OneProfile

LEMMA RollbackKeeps ==
  ASSUME IInv, NEW p \in Profiles, Rollback(p)
  PROVE  IInv'
<1>1. /\ proc' = [proc EXCEPT ![p] = Idle] /\ dblock' = Unlocked(p)
      /\ entry' = [entry EXCEPT ![p] = "failed"] /\ ~landed[p]
      /\ UNCHANGED <<base, runs, plan, sent, landed>>
  BY DEF Rollback, IInv, Attempting, At
<1>2. /\ entry' \in [Profiles -> Status] /\ entry'[p] = "failed" /\ ~landed'[p]
      /\ landed' \in [Profiles -> BOOLEAN]
      /\ \A q \in Profiles \ {p} : entry'[q] = entry[q] /\ landed'[q] = landed[q]
  BY <1>1 DEF IInv, TypeOK, Status
<1> QED
  BY <1>1, <1>2, EndKeeps

LEMMA CommitKeeps ==
  ASSUME IInv, NEW p \in Profiles, Commit(p)
  PROVE  IInv'
<1> USE DEF IInv
<1>1. /\ At(p, "txn") /\ Goto(p, "committed") /\ base' = proc[p].rows
      /\ landed' = [landed EXCEPT ![p] = TRUE]
      /\ UNCHANGED <<dblock, runs, entry, plan, sent>> /\ "committed" \in PCs
  BY DEF Commit, PCs
<1>2. /\ proc' \in [Profiles -> Process]
      /\ \A q \in Profiles \ {p} : proc'[q] = proc[q]
      /\ proc'[p].pc = "committed" /\ proc'[p].rows = proc[p].rows
  BY <1>1, Gone
<1>3. base' \in Rows /\ base'.stock \in Stocks /\ entry[p] = "in_flight"
  BY <1>1 DEF TypeOK, Attempting, At
<1>4. /\ landed' \in [Profiles -> BOOLEAN] /\ landed'[p]
      /\ \A q \in Profiles \ {p} : landed'[q] = landed[q]
  BY <1>1 DEF TypeOK
<1>5. TypeOK'
  BY <1>1, <1>2, <1>3, <1>4 DEF TypeOK, Process
<1>6. OnlyOf(p) /\ LockKept(p)
  BY <1>1, <1>2, <1>4 DEF OnlyOf, LockKept, Holding, At
<1>7. Attempting(p)' /\ Planned(p)' /\ Notified(p)'
  BY <1>1, <1>2, <1>3, <1>4 DEF Attempting, Planned, Notified
<1> HIDE DEF IInv
<1> QED
  BY <1>1, <1>3, <1>4, <1>5, <1>6, <1>7, OneProfile

LEMMA LostCommitKeeps ==
  ASSUME IInv, NEW p \in Profiles, LostCommit(p)
  PROVE  IInv'
<1>1. /\ proc' = [proc EXCEPT ![p] = Idle] /\ dblock' = Unlocked(p)
      /\ entry' = [entry EXCEPT ![p] = "unknown"]
      /\ landed' = [landed EXCEPT ![p] = TRUE] \/ landed' = landed
      /\ base' = base \/ (At(p, "txn") /\ base' = proc[p].rows)
      /\ UNCHANGED <<runs, plan, sent>>
  BY DEF LostCommit
<1>2. /\ entry' \in [Profiles -> Status] /\ entry'[p] = "unknown"
      /\ landed' \in [Profiles -> BOOLEAN]
      /\ \A q \in Profiles \ {p} : entry'[q] = entry[q] /\ landed'[q] = landed[q]
  BY <1>1 DEF IInv, TypeOK, Status
<1> QED
  BY <1>1, <1>2, EndKeeps

LEMMA RecordCommitKeeps ==
  ASSUME IInv, NEW p \in Profiles, RecordCommit(p)
  PROVE  IInv'
<1> USE DEF IInv
<1>1. /\ At(p, "committed") /\ Goto(p, "map") /\ dblock' = Unlocked(p)
      /\ entry' = [entry EXCEPT ![p] = "committed"]
      /\ UNCHANGED <<base, runs, plan, sent, landed>> /\ "map" \in PCs
  BY DEF RecordCommit, PCs
<1>2. /\ proc' \in [Profiles -> Process]
      /\ \A q \in Profiles \ {p} : proc'[q] = proc[q]
      /\ proc'[p].pc = "map" /\ proc'[p].rows = proc[p].rows
  BY <1>1, Gone
<1>3. /\ entry' \in [Profiles -> Status] /\ entry'[p] = "committed"
      /\ \A q \in Profiles \ {p} : entry'[q] = entry[q]
      /\ landed'[p]
  BY <1>1 DEF TypeOK, Status, Attempting, At
<1>4. TypeOK'
  BY <1>1, <1>2, <1>3, LockReturned DEF TypeOK, Process, Status
<1>5. OnlyOf(p) /\ LockKept(p)
  BY <1>1, <1>2, <1>3 DEF OnlyOf, LockKept, Holding
<1>6. Attempting(p)' /\ Planned(p)' /\ Notified(p)'
  BY <1>1, <1>2, <1>3 DEF Attempting, Planned, Notified, At
<1> HIDE DEF IInv
<1> QED
  BY <1>1, <1>3, <1>4, <1>5, <1>6, OneProfile

(* Then the plan and the notifications.                                    *)
LEMMA PlanKeeps ==
  ASSUME IInv, NEW p \in Profiles,
         UsePlan(p) \/ \E mapping \in Mappings : MakePlan(p, mapping)
  PROVE  IInv'
<1> USE DEF IInv
<1>1. At(p, "map") /\ Goto(p, "check") /\ "check" \in PCs
      /\ UNCHANGED <<base, dblock, runs, entry, sent, landed>>
  BY DEF UsePlan, MakePlan, PCs
<1>2. /\ proc' \in [Profiles -> Process]
      /\ \A q \in Profiles \ {p} : proc'[q] = proc[q]
      /\ proc'[p].pc = "check" /\ proc'[p].rows = proc[p].rows
  BY <1>1, Gone
<1>3. proc[p].rows.stock \in Stocks
  BY <1>1 DEF At, Planned
<1>4. /\ plan' \in [Profiles -> Plans] /\ plan'[p] \in Keys
      /\ \A q \in Profiles \ {p} : plan'[q] = plan[q]
      /\ plan'[p].stock = proc[p].rows.stock
  <2>1. CASE UsePlan(p)
    BY <2>1 DEF UsePlan, TypeOK, Planned
  <2>2. CASE \E mapping \in Mappings : MakePlan(p, mapping)
    <3> PICK mapping \in Mappings : MakePlan(p, mapping)
      BY <2>2
    <3> DEFINE made == [stock |-> proc[p].rows.stock, mapping |-> mapping]
    <3>1. made \in Plans /\ made \in Keys /\ made.stock = proc[p].rows.stock
      BY <1>3 DEF Plans, Keys
    <3>2. plan' = [plan EXCEPT ![p] = made]
      BY DEF MakePlan
    <3> HIDE DEF made
    <3> QED
      BY <3>1, <3>2 DEF TypeOK
  <2> QED
    BY <2>1, <2>2
<1>5. TypeOK'
  BY <1>1, <1>2, <1>4 DEF TypeOK, Process
<1>6. OnlyOf(p) /\ LockKept(p)
  BY <1>1, <1>2, <1>4 DEF OnlyOf, LockKept, Holding, At
<1>7. Attempting(p)' /\ Planned(p)' /\ Notified(p)'
  BY <1>1, <1>2, <1>3, <1>4 DEF Attempting, Planned, Notified
<1>8. (entry'[p] = "committed" => landed'[p]) /\ (entry'[p] = "failed" => ~landed'[p])
  BY <1>1 DEF EntryTrue
<1> HIDE DEF IInv
<1> QED
  BY <1>1, <1>5, <1>6, <1>7, <1>8, OneProfile

LEMMA CheckKeeps ==
  ASSUME IInv, NEW p \in Profiles, Check(p)
  PROVE  IInv'
<1> USE DEF IInv
<1> DEFINE to == IF proc[p].send THEN "task" ELSE "done"
<1>1. At(p, "check") /\ Goto(p, to) /\ to \in PCs
      /\ UNCHANGED <<base, dblock, runs, entry, plan, sent, landed>>
  BY DEF Check, PCs
<1>2. (to = "task" /\ proc[p].send) \/ (to = "done" /\ ~proc[p].send)
  OBVIOUS
<1> HIDE DEF to
<1>3. /\ proc' \in [Profiles -> Process]
      /\ \A q \in Profiles \ {p} : proc'[q] = proc[q]
      /\ proc'[p].pc = to /\ proc'[p].rows = proc[p].rows /\ proc'[p].send = proc[p].send
  BY <1>1, Gone
<1>4. TypeOK'
  BY <1>1, <1>3 DEF TypeOK, Process
<1>5. OnlyOf(p) /\ LockKept(p)
  BY <1>1, <1>2, <1>3 DEF OnlyOf, LockKept, Holding, At
<1>6. Attempting(p)' /\ Planned(p)'
  BY <1>1, <1>2, <1>3 DEF Attempting, Planned, At
<1>7. Notified(p)'
  BY <1>1, <1>2, <1>3 DEF Notified
<1>8. (entry'[p] = "committed" => landed'[p]) /\ (entry'[p] = "failed" => ~landed'[p])
  BY <1>1 DEF EntryTrue
<1> HIDE DEF IInv
<1> QED
  BY <1>1, <1>4, <1>5, <1>6, <1>7, <1>8, OneProfile

(* The task and the packages have entries of their own, and what either is *)
(* made of is the rows of the run.                                         *)
LEMMA KeysApart ==
  ASSUME IInv, NEW p \in Profiles, NEW n \in Notifs, At(p, n)
  PROVE  /\ Key(p, n) \in Keys /\ Material(p, n) = proc[p].rows.stock
         /\ Material(p, n) \in Stocks
         /\ proc[p].send
         /\ Key(p, "task") # Key(p, "package")
BY FreezeAssumption DEF IInv, Notifs, At, Planned, Notified, Key, Keys, TaskKey, NoPlan, Material

(* One entry of one profile is written.                                    *)
LEMMA OneEntry ==
  ASSUME TypeOK, NEW p \in Profiles, NEW k \in Keys, NEW e \in Entries,
         sent' = [sent EXCEPT ![p][k] = e]
  PROVE  /\ sent' \in [Profiles -> [Keys -> Entries]]
         /\ \A q \in Profiles \ {p} : sent'[q] = sent[q]
         /\ sent'[p][k] = e
         /\ \A l \in Keys \ {k} : sent'[p][l] = sent[p][l]
BY DEF TypeOK

LEMMA StageKeeps ==
  ASSUME IInv, NEW p \in Profiles, NEW n \in Notifs, Stage(p, n)
  PROVE  IInv'
<1> USE DEF IInv
<1> DEFINE k == Key(p, n)
           print == Material(p, n)
           e == sent'[p][k]
<1>1. At(p, n) /\ UNCHANGED <<base, dblock, proc, runs, entry, plan, landed>>
  BY DEF Stage
<1>2. /\ k \in Keys /\ print = proc[p].rows.stock /\ print \in Stocks /\ proc[p].send
      /\ Key(p, "task") # Key(p, "package")
  BY <1>1, KeysApart
<1>3. \E x \in Entries : x.print = print /\ sent' = [sent EXCEPT ![p][k] = x]
  <2>1. sent[p][k] \in Entries /\ proc[p].run \in 0..MaxRuns
    BY <1>2 DEF TypeOK
  <2>2. CASE sent' = [sent EXCEPT ![p][k] =
               [status |-> "not_attempted", run |-> proc[p].run, print |-> print]]
    <3> DEFINE x == [status |-> "not_attempted", run |-> proc[p].run, print |-> print]
    <3>1. x \in Entries /\ x.print = print
      BY <1>2, <2>1 DEF Entries, Statuses
    <3> QED
      BY <2>2, <3>1
  <2>3. CASE sent' = [sent EXCEPT ![p][k].print = print]
    <3> DEFINE x == [sent[p][k] EXCEPT !.print = print]
    <3>1. x \in Entries /\ x.print = print
      BY <1>2, <2>1 DEF Entries
    <3>2. sent' = [sent EXCEPT ![p][k] = x]
      BY <2>3
    <3> QED
      BY <3>1, <3>2
  <2> QED
    BY <2>2, <2>3 DEF Stage
<1> HIDE DEF k, print
<1>4. /\ sent' \in [Profiles -> [Keys -> Entries]]
      /\ \A q \in Profiles \ {p} : sent'[q] = sent[q]
      /\ e.print = print
      /\ \A l \in Keys \ {k} : sent'[p][l] = sent[p][l]
  <2> PICK x \in Entries : x.print = print /\ sent' = [sent EXCEPT ![p][k] = x]
    BY <1>3
  <2> QED
    BY ZenonT(60), <1>2, OneEntry
<1>5. TypeOK'
  BY <1>1, <1>4 DEF TypeOK
<1>6. OnlyOf(p) /\ LockKept(p)
  BY <1>1, <1>4 DEF OnlyOf, LockKept
<1>7. Attempting(p)' /\ Planned(p)'
  BY <1>1 DEF Attempting, Planned
<1>8. Notified(p)'
  <2>1. \A l \in Keys : sent'[p][l].status # "not_attempted" => sent'[p][l].print \in Stocks
    BY <1>2, <1>4 DEF Notified
  <2>2. proc[p].pc = n /\ n \in {"task", "package"}
    BY <1>1 DEF At, Notifs
  <2>3. ASSUME n = "package" PROVE Arrived(p, "task")'
    <3>1. Arrived(p, "task")
      BY <1>2, <2>2, <2>3 DEF Notified
    <3>2. Key(p, "task") \in Keys \ {k} /\ Key(p, "task")' = Key(p, "task")
      BY <1>1, <1>2, <2>3 DEF k, Key, Keys
    <3> QED
      BY <1>1, <1>4, <3>1, <3>2 DEF Arrived, Entry
  <2> QED
    BY <1>1, <1>2, <2>1, <2>2, <2>3 DEF Notified
<1>9. (entry'[p] = "committed" => landed'[p]) /\ (entry'[p] = "failed" => ~landed'[p])
  BY <1>1 DEF EntryTrue
<1> HIDE DEF IInv
<1> QED
  BY <1>1, <1>5, <1>6, <1>7, <1>8, <1>9, OneProfile

(* A run goes on from a notification once it is accepted with the print of *)
(* the run's rows.                                                         *)
LEMMA PassKeeps ==
  ASSUME IInv, NEW p \in Profiles, NEW n \in Notifs, At(p, n), Goto(p, After(n)),
         UNCHANGED <<base, dblock, runs, entry, plan, landed>>,
         sent' \in [Profiles -> [Keys -> Entries]],
         \A q \in Profiles \ {p} : sent'[q] = sent[q],
         \A l \in Keys \ {Key(p, n)} : sent'[p][l] = sent[p][l],
         sent'[p][Key(p, n)].status = "provider_accepted",
         sent'[p][Key(p, n)].print = proc[p].rows.stock
  PROVE  IInv'
<1> USE DEF IInv
<1>1. /\ Key(p, n) \in Keys /\ proc[p].rows.stock \in Stocks /\ proc[p].send
      /\ Key(p, "task") # Key(p, "package") /\ After(n) \in PCs
  BY KeysApart DEF After, PCs, Notifs
<1>2. /\ proc' \in [Profiles -> Process]
      /\ \A q \in Profiles \ {p} : proc'[q] = proc[q]
      /\ proc'[p].pc = After(n) /\ proc'[p].rows = proc[p].rows
      /\ proc'[p].send = proc[p].send
  BY <1>1, Gone
<1>3. TypeOK'
  BY <1>2 DEF TypeOK, Process
<1>4. (n = "task" /\ After(n) = "package") \/ (n = "package" /\ After(n) = "done")
  BY DEF Notifs, After
<1>5. OnlyOf(p) /\ LockKept(p)
  BY <1>2, <1>4 DEF OnlyOf, LockKept, Holding, At
<1>6. Attempting(p)' /\ Planned(p)'
  BY <1>1, <1>2, <1>4 DEF Attempting, Planned, At
<1>7. Notified(p)'
  <2>1. \A l \in Keys : sent'[p][l].status # "not_attempted" => sent'[p][l].print \in Stocks
    BY <1>1 DEF Notified
  <2>2. \A m \in Notifs : Key(p, m)' = Key(p, m)
    BY DEF Key
  <2>3. Arrived(p, n)'
    BY <1>2, <2>2 DEF Arrived, Entry
  <2>4. ASSUME n = "package" PROVE Arrived(p, "task")'
    <3>1. Arrived(p, "task")
      BY <1>1, <2>4 DEF Notified, At
    <3>2. Key(p, "task") \in Keys \ {Key(p, n)}
      BY <1>1, <2>4 DEF Key, Keys
    <3> QED
      BY <1>2, <2>2, <3>1, <3>2 DEF Arrived, Entry, Notifs
  <2> QED
    BY <1>1, <1>2, <1>4, <2>1, <2>3, <2>4 DEF Notified
<1>8. (entry'[p] = "committed" => landed'[p]) /\ (entry'[p] = "failed" => ~landed'[p])
  BY DEF EntryTrue
<1> HIDE DEF IInv
<1> QED
  BY <1>3, <1>5, <1>6, <1>7, <1>8, OneProfile

LEMMA SkipKeeps ==
  ASSUME IInv, NEW p \in Profiles, NEW n \in Notifs, Skip(p, n)
  PROVE  IInv'
<1>1. At(p, n) /\ Goto(p, After(n))
      /\ UNCHANGED <<base, dblock, runs, entry, plan, sent, landed>>
  BY DEF Skip
<1>2. sent[p][Key(p, n)].status = "provider_accepted"
  BY DEF Skip, Entry
<1>3. sent[p][Key(p, n)].print = proc[p].rows.stock
  <2>1. sent[p][Key(p, n)].print \in {None, Material(p, n)}
    BY DEF Skip, Admissible, Entry
  <2>2. Key(p, n) \in Keys /\ Material(p, n) = proc[p].rows.stock
    BY <1>1, KeysApart
  <2>3. sent[p][Key(p, n)].print \in Stocks
    BY <1>2, <2>2 DEF IInv, Notified
  <2> QED
    BY <2>1, <2>2, <2>3, FreezeAssumption
<1>4. sent \in [Profiles -> [Keys -> Entries]]
  BY DEF IInv, TypeOK
<1> QED
  BY <1>1, <1>2, <1>3, <1>4, PassKeeps

LEMMA SendKeeps ==
  ASSUME IInv, NEW p \in Profiles, NEW n \in Notifs,
         NEW status \in {"provider_accepted", "failed", "unknown"}, Send(p, n, status)
  PROVE  IInv'
<1> DEFINE k == Key(p, n)
           e == [status |-> status, run |-> proc[p].run, print |-> Material(p, n)]
<1>1. At(p, n) /\ UNCHANGED <<base, dblock, runs, entry, plan, landed>>
      /\ sent' = [sent EXCEPT ![p][k] = e]
  BY DEF Send
<1>2. k \in Keys /\ Material(p, n) = proc[p].rows.stock /\ Material(p, n) \in Stocks
  BY <1>1, KeysApart
<1>3. e \in Entries /\ e.status = status /\ e.print = proc[p].rows.stock
  BY <1>2 DEF IInv, TypeOK, Entries, Statuses
<1> HIDE DEF k, e
<1>4. /\ sent' \in [Profiles -> [Keys -> Entries]]
      /\ \A q \in Profiles \ {p} : sent'[q] = sent[q]
      /\ sent'[p][k] = e
      /\ \A l \in Keys \ {k} : sent'[p][l] = sent[p][l]
  BY <1>1, <1>2, <1>3, OneEntry DEF IInv
<1>5. CASE status = "provider_accepted"
  <2>1. Goto(p, After(n))
    BY <1>5 DEF Send, Goto
  <2> QED
    BY <1>1, <1>3, <1>4, <1>5, <2>1, PassKeeps DEF k
<1>6. CASE status # "provider_accepted"
  <2> USE DEF IInv
  <2>1. proc' = [proc EXCEPT ![p] = Idle]
    BY <1>6 DEF Send
  <2>2. /\ proc' \in [Profiles -> Process]
        /\ \A q \in Profiles \ {p} : proc'[q] = proc[q]
        /\ proc'[p].pc = "idle" /\ ~proc'[p].send
    BY <2>1, Over
  <2>3. TypeOK'
    BY <1>1, <1>4, <2>2 DEF TypeOK, Process
  <2>4. OnlyOf(p) /\ LockKept(p)
    BY <1>1, <1>4, <2>2 DEF OnlyOf, LockKept, Holding, At, Notifs
  <2>5. Attempting(p)' /\ Planned(p)'
    BY <1>1, <2>2 DEF Attempting, Planned
  <2>6. Notified(p)'
    BY <1>2, <1>3, <1>4, <2>2 DEF Notified
  <2>7. (entry'[p] = "committed" => landed'[p]) /\ (entry'[p] = "failed" => ~landed'[p])
    BY <1>1 DEF EntryTrue
  <2> HIDE DEF IInv
  <2> QED
    BY <1>1, <2>3, <2>4, <2>5, <2>6, <2>7, OneProfile
<1> QED
  BY <1>5, <1>6

(* A run that returns is at its end, one that stops may be anywhere.       *)
LEMMA LeaveKeeps ==
  ASSUME IInv, NEW p \in Profiles, Return(p) \/ Stop(p)
  PROVE  IInv'
<1>1. /\ proc' = [proc EXCEPT ![p] = Idle]
      /\ UNCHANGED <<base, runs, entry, plan, sent, landed>>
  BY DEF Return, Stop
<1>2. dblock' = Unlocked(p)
  <2>1. CASE Stop(p)
    BY <2>1 DEF Stop
  <2>2. CASE Return(p)
    BY <2>2 DEF Return, At, IInv, Exclusive, Holding, Unlocked
  <2> QED
    BY <2>1, <2>2
<1>3. /\ entry' \in [Profiles -> Status] /\ landed' \in [Profiles -> BOOLEAN]
      /\ \A q \in Profiles \ {p} : entry'[q] = entry[q] /\ landed'[q] = landed[q]
      /\ (entry'[p] = "committed" => landed'[p]) /\ (entry'[p] = "failed" => ~landed'[p])
  BY <1>1 DEF IInv, TypeOK, EntryTrue, Status
<1> QED
  BY <1>1, <1>2, <1>3, EndKeeps

-----------------------------------------------------------------------------
LEMMA InitHolds == Init => IInv
<1> SUFFICES ASSUME Init PROVE IInv
  OBVIOUS
<1> USE FreezeAssumption
<1>1. NoRows \in Rows /\ NoPlan \in Plans /\ TaskKey \in Keys
  BY DEF NoRows, Rows, NoPlan, Plans, TaskKey, Keys
<1>2. Unsent \in Entries /\ Unsent.status = "not_attempted"
  BY DEF Unsent, Entries, Statuses
<1>3. Idle \in Process /\ Idle.pc = "idle"
  BY <1>1 DEF Idle, Process, PCs
<1>4. /\ base = NoRows /\ dblock = None /\ runs = 0
      /\ \A p \in Profiles : /\ proc[p] = Idle /\ entry[p] = "not_attempted"
                             /\ plan[p] = NoPlan /\ ~landed[p]
                             /\ \A k \in Keys : sent[p][k] = Unsent
  BY DEF Init
<1>5. sent \in [Profiles -> [Keys -> Entries]]
  BY <1>2 DEF Init
<1>6. TypeOK
  BY <1>1, <1>3, <1>5 DEF Init, TypeOK, Process
<1>7. EntryTrue /\ Exclusive
  BY <1>3, <1>4 DEF EntryTrue, Exclusive, Holding
<1>8. \A p \in Profiles : Attempting(p) /\ Planned(p) /\ Notified(p)
  BY <1>1, <1>2, <1>3, <1>4 DEF Attempting, Planned, Notified, TaskKey
<1> QED
  BY <1>4, <1>6, <1>7, <1>8 DEF IInv

LEMMA StutterKeeps ==
  ASSUME IInv, UNCHANGED vars
  PROVE  IInv'
BY DEF vars, IInv, TypeOK, EntryTrue, Exclusive, Attempting, Planned, Notified, Arrived,
       Entry, Key

(* A step of one profile.                                                  *)
StepOf(p) ==
    \/ \E freeze, refreeze, force, send \in BOOLEAN :
         Start(p, freeze, refreeze, force, send)
    \/ Lock(p) \/ Reuse(p) \/ Rollback(p) \/ Commit(p) \/ LostCommit(p)
    \/ \E stock \in Stocks : Attempt(p, stock)
    \/ RecordCommit(p) \/ UsePlan(p) \/ Check(p) \/ Return(p) \/ Stop(p)
    \/ \E mapping \in Mappings : MakePlan(p, mapping)
    \/ \E n \in Notifs :
         \/ Stage(p, n) \/ Skip(p, n)
         \/ \E status \in {"provider_accepted", "failed", "unknown"} : Send(p, n, status)

LEMMA StepKeeps == IInv /\ [Next]_vars => IInv'
<1> SUFFICES ASSUME IInv, [Next]_vars PROVE IInv'
  OBVIOUS
<1>1. CASE UNCHANGED vars
  BY <1>1, StutterKeeps
<1>2. CASE Next
  <2> PICK p \in Profiles : StepOf(p)
    BY <1>2 DEF Next, StepOf
  <2>1. CASE \E freeze, refreeze, force, send \in BOOLEAN :
               Start(p, freeze, refreeze, force, send)
    BY <2>1, StartKeeps
  <2>2. CASE Lock(p)
    BY <2>2, LockKeeps
  <2>3. CASE Reuse(p)
    BY <2>3, ReuseKeeps
  <2>4. CASE Rollback(p)
    BY <2>4, RollbackKeeps
  <2>5. CASE Commit(p)
    BY <2>5, CommitKeeps
  <2>6. CASE LostCommit(p)
    BY <2>6, LostCommitKeeps
  <2>7. CASE \E stock \in Stocks : Attempt(p, stock)
    BY <2>7, AttemptKeeps
  <2>8. CASE RecordCommit(p)
    BY <2>8, RecordCommitKeeps
  <2>9. CASE UsePlan(p) \/ \E mapping \in Mappings : MakePlan(p, mapping)
    BY <2>9, PlanKeeps
  <2>10. CASE Check(p)
    BY <2>10, CheckKeeps
  <2>11. CASE Return(p) \/ Stop(p)
    BY <2>11, LeaveKeeps
  <2>12. CASE \E n \in Notifs : Stage(p, n)
    BY <2>12, StageKeeps
  <2>13. CASE \E n \in Notifs : Skip(p, n)
    BY <2>13, SkipKeeps
  <2>14. CASE \E n \in Notifs :
               \E status \in {"provider_accepted", "failed", "unknown"} : Send(p, n, status)
    BY <2>14, SendKeeps
  <2> QED
    BY <2>1, <2>2, <2>3, <2>4, <2>5, <2>6, <2>7, <2>8, <2>9, <2>10, <2>11, <2>12, <2>13, <2>14
       DEF StepOf
<1> QED
  BY <1>1, <1>2

(* The invariant holds in every state of the specification.                *)
THEOREM Invariance == Spec => []IInv
<1>1. Init => IInv
  BY InitHolds
<1>2. IInv /\ [Next]_vars => IInv'
  BY StepKeeps
<1> QED
  BY <1>1, <1>2, PTL DEF Spec

(* Every variable has its type.                                            *)
THEOREM TypeCorrect == Spec => []TypeOK
<1>1. IInv => TypeOK
  BY DEF IInv
<1> QED
  BY <1>1, Invariance, PTL

(* However many profiles freeze, die and are run again: the freeze entry   *)
(* says "committed" or "failed" only of an attempt that was, and a sending *)
(* run that succeeds leaves task and packages of the rows it has.          *)
THEOREM FilesAreTrue == Spec => []FilesTrue
<1>1. IInv => FilesTrue
  <2> SUFFICES ASSUME IInv PROVE FilesTrue
    OBVIOUS
  <2>1. ASSUME NEW p \in Profiles, At(p, "done"), proc[p].send
        PROVE  plan[p].stock = proc[p].rows.stock /\ Arrived(p, "task") /\ Arrived(p, "package")
    BY <2>1 DEF IInv, At, Planned, Notified
  <2>2. SuccessIsWhole
    BY <2>1 DEF SuccessIsWhole, Arrived, Notifs
  <2> QED
    BY <2>2 DEF FilesTrue, IInv
<1> QED
  BY <1>1, Invariance, PTL

(* What a step of one profile writes, and where its run must be to write.  *)
LEMMA Writes ==
  ASSUME TypeOK, NEW p \in Profiles, StepOf(p)
  PROVE  /\ \A q \in Profiles \ {p} : proc'[q] = proc[q] /\ entry'[q] = entry[q]
         /\ base' = base \/ At(p, "txn")
         /\ At(p, "locked") \/ At(p, "txn") \/ At(p, "committed")
              \/ (entry' = entry /\ proc'[p].pc # "txn")
<1> DEFINE Goal == /\ \A q \in Profiles \ {p} : proc'[q] = proc[q] /\ entry'[q] = entry[q]
                   /\ base' = base \/ At(p, "txn")
                   /\ At(p, "locked") \/ At(p, "txn") \/ At(p, "committed")
                        \/ (entry' = entry /\ proc'[p].pc # "txn")
<1> SUFFICES Goal
  OBVIOUS
<1>1. ASSUME NEW freeze \in BOOLEAN, NEW refreeze \in BOOLEAN, NEW force \in BOOLEAN,
             NEW send \in BOOLEAN, Start(p, freeze, refreeze, force, send)
      PROVE  Goal
  <2> DEFINE r == [Idle EXCEPT !.pc = IF freeze THEN "lock" ELSE "map", !.run = runs + 1,
                    !.refreeze = refreeze, !.force = force, !.send = send,
                    !.rows = IF freeze THEN NoRows ELSE base]
  <2>1. r.pc \in {"lock", "map"}
    BY DEF Idle
  <2>2. proc' = [proc EXCEPT ![p] = r] /\ UNCHANGED <<base, entry>>
    BY <1>1 DEF Start
  <2> HIDE DEF r
  <2> QED
    BY <2>1, <2>2 DEF TypeOK
<1>2. CASE Lock(p) \/ Reuse(p) \/ Rollback(p) \/ Commit(p) \/ LostCommit(p) \/ RecordCommit(p)
  BY <1>2 DEF Lock, Reuse, Rollback, Commit, LostCommit, RecordCommit, At, Goto, TypeOK
<1>3. CASE \E stock \in Stocks : Attempt(p, stock)
  BY <1>3 DEF Attempt, At, TypeOK
<1>4. CASE UsePlan(p) \/ \E mapping \in Mappings : MakePlan(p, mapping)
  BY <1>4 DEF UsePlan, MakePlan, Goto, TypeOK
<1>5. CASE Check(p)
  BY <1>5 DEF Check, Goto, TypeOK
<1>6. CASE Return(p) \/ Stop(p)
  BY <1>6 DEF Return, Stop, Idle, TypeOK
<1>7. ASSUME NEW n \in Notifs, Stage(p, n) \/ Skip(p, n)
      PROVE  Goal
  BY <1>7 DEF Stage, Skip, Goto, After, At, Notifs, TypeOK
<1>8. ASSUME NEW n \in Notifs, NEW status \in {"provider_accepted", "failed", "unknown"},
             Send(p, n, status)
      PROVE  Goal
  BY <1>8 DEF Send, After, At, Notifs, Idle, TypeOK
<1> HIDE DEF Goal
<1> QED
  BY <1>1, <1>2, <1>3, <1>4, <1>5, <1>6, <1>7, <1>8 DEF StepOf

(* Only a commit, acknowledged or not, writes the rows, and an ordinary    *)
(* run that comes to one found none under the lock it still holds.         *)
THEOREM RowsReplacedOnPurpose == Spec => ReplacedOnPurpose
<1>1. IInv /\ [Next]_vars =>
        [base' # base /\ base # NoRows =>
           \E p \in Profiles : At(p, "txn") /\ proc[p].refreeze]_vars
  <2> SUFFICES ASSUME IInv, Next, base' # base, base # NoRows
               PROVE  \E p \in Profiles : At(p, "txn") /\ proc[p].refreeze
    BY DEF vars
  <2>1. \E p \in Profiles : At(p, "txn")
    <3> PICK p \in Profiles : StepOf(p)
      BY DEF Next, StepOf
    <3> QED
      BY Writes DEF IInv
  <2> QED
    BY <2>1 DEF IInv, Attempting, At
<1> QED
  BY <1>1, Invariance, PTL DEF Spec, ReplacedOnPurpose

(* A doubtful entry is never written over: an attempt comes only after a   *)
(* start that found the entry settled, and one profile runs one process.   *)
THEOREM DoubtRemains == Spec => DoubtBlocks
<1> DEFINE Stays(p) ==
      /\ entry[p] \in Doubtful
      /\ entry[p] = "in_flight" => proc[p].pc \notin {"txn", "committed"}
      => entry'[p] = entry[p] /\ proc'[p].pc # "txn"
<1>1. IInv /\ [Next]_vars => [\A p \in Profiles : Stays(p)]_vars
  <2> SUFFICES ASSUME IInv, Next, NEW q \in Profiles, entry[q] \in Doubtful,
                      entry[q] = "in_flight" => proc[q].pc \notin {"txn", "committed"}
               PROVE  entry'[q] = entry[q] /\ proc'[q].pc # "txn"
    OBVIOUS
  <2>1. proc[q].pc \notin {"lock", "locked", "txn", "committed"}
    BY DEF IInv, Attempting, Doubtful
  <2>2. PICK p \in Profiles : StepOf(p)
    BY DEF Next, StepOf
  <2>3. CASE p = q
    BY <2>1, <2>2, <2>3, Writes DEF IInv, At
  <2>4. CASE p # q
    BY <2>1, <2>2, <2>4, Writes DEF IInv
  <2> QED
    BY <2>3, <2>4
<1> QED
  BY <1>1, Invariance, PTL DEF Spec, DoubtBlocks

-----------------------------------------------------------------------------
(* The list of a week.                                                     *)

Sending == {"next", "send", "record"}

(* The batch, the seal and the run agree on the content of the week.       *)
Bound ==
    /\ run.pc = "prepare" => batch = Nil
    /\ run.pc \notin {"idle", "prepare"} => batch = run.content
    /\ run.pc \in Sending \cup {"check", "archive"} => seal = batch
    /\ seal \in {Nil, batch}

(* Every receipt is for that content, and none is older than the seal.     *)
Filed ==
    /\ \A i \in Items : receipt[i].of \in {Nil, batch}
    /\ \A i \in Items : got[i].of \subseteq {batch}
    /\ \A a \in Accounts : manifest[a] \in {Nil, batch}
    /\ seal = Nil => Known = {} /\ \A a \in Accounts : manifest[a] = Nil
    /\ Known # {} \/ run.pc \in Sending \/ (run.pc = "archive" /\ run.force) =>
           \A a \in Accounts : manifest[a] = batch

(* Only the item that is being sent is under way.                          *)
Unsettled(i) == receipt[i].status \in {"in_flight", "unknown"}
UnderWay ==
    /\ run.pc \in Sending =>
           run.left \subseteq Components(run.content)
    /\ run.pc \in {"send", "record"} =>
           run.item \in run.left /\ receipt[run.item].status = "in_flight"
    /\ \A i \in Items :
           run.pc # "idle" /\ Unsettled(i) =>
               run.pc \in {"send", "record"} /\ i = run.item

(* A part that is still to be sent was received at most once per resend.   *)
Counted ==
    /\ \A i \in Items : got[i].n <= 1 + asked
    /\ \A i \in Items : ~Accepted(i) /\ ~Unsettled(i) => got[i].n <= asked
    /\ run.pc = "archive" /\ run.force => \A i \in Items : got[i].n <= asked
    /\ run.pc = "send" \/ (run.pc = "record" /\ run.answer = "failed") =>
           got[run.item].n <= asked

(* What a run knows to be accepted was received in this generation.        *)
Received ==
    /\ \A i \in Items : Accepted(i) => got[i].n > 0
    /\ run.pc \in {"prepare", "seal", "check"} => run.had = [i \in Items |-> 0]
    /\ run.pc = "archive" =>
           run.had = IF run.force THEN [i \in Items |-> got[i].n] ELSE [i \in Items |-> 0]
    /\ run.pc = "archive" /\ run.force =>
           \A i \in Components(run.content) : i[1] \notin run.left => ~Accepted(i)
    /\ run.pc \in Sending =>
           \A i \in Components(run.content) :
               /\ run.had[i] <= got[i].n
               /\ Accepted(i) => got[i].n > run.had[i]
               /\ run.bad \/ i \in run.left \/ Accepted(i)
    /\ run.pc = "record" /\ run.answer = "accepted" =>
           got[run.item].n > run.had[run.item]

IdkIInv == IdkTypeOK /\ Bound /\ Filed /\ UnderWay /\ Counted /\ Received /\ NoWedge

-----------------------------------------------------------------------------
LEMMA ComponentsAreItems ==
  ASSUME NEW c \in Contents
  PROVE  Components(c) \subseteq Items
BY IdkAssumption DEF Components, Items, Contents

LEMMA Initially == IdkInit => IdkIInv
<1> SUFFICES ASSUME IdkInit PROVE IdkIInv
  OBVIOUS
<1>1. IdkTypeOK
  BY IdkAssumption DEF IdkInit, IdkTypeOK, RunStates, NoRun, Blank, Marks, Places
<1>2. Bound /\ Filed /\ UnderWay
  BY DEF IdkInit, Bound, Filed, UnderWay, Unsettled, NoRun, Blank, Known, Sending
<1>3. Counted /\ Received
  BY IdkAssumption DEF IdkInit, Counted, Received, Accepted, Unsettled, NoRun, Blank, Sending
<1>4. NoWedge
  BY DEF IdkInit, NoWedge
<1> QED
  BY <1>1, <1>2, <1>3, <1>4 DEF IdkIInv

(* A run that ends without a write leaves an invariant state.              *)
LEMMA Ending ==
  ASSUME IdkIInv, run' = NoRun, UNCHANGED <<Disk, target, Seen>>, NoWedge'
  PROVE  IdkIInv'
<1>1. IdkTypeOK'
  BY DEF IdkIInv, IdkTypeOK, RunStates, NoRun, Disk, Seen, Places
<1>2. Bound'
  BY DEF IdkIInv, Bound, NoRun, Disk, Sending
<1>3. Filed'
  BY DEF IdkIInv, Filed, NoRun, Disk, Seen, Known, Sending
<1>4. UnderWay' /\ Counted' /\ Received'
  BY DEF IdkIInv, UnderWay, Counted, Received, NoRun, Disk, Seen, Sending, Unsettled, Accepted
<1> QED
  BY <1>1, <1>2, <1>3, <1>4 DEF IdkIInv

LEMMA StartStep ==
  ASSUME IdkIInv, NEW send \in BOOLEAN, NEW force \in BOOLEAN, StartRun(send, force)
  PROVE  IdkIInv'
<1> USE DEF IdkIInv, Reached, End
<1>1. UNCHANGED <<Disk, target, Seen>>
  BY DEF StartRun
<1>2. CASE run' = NoRun
  <2>1. NoWedge'
    BY <1>2 DEF StartRun, NoWedge, Filed, Bound, Stored, NoRun
  <2> QED
    BY <1>1, <1>2, <2>1, Ending
<1>3. CASE run' # NoRun
  <2>1. run.pc = "idle" /\ UNCHANGED outcome /\ \A i \in Items : ~Unsettled(i)
    BY <1>3 DEF StartRun, Unsettled
  <2>2. \/ /\ batch \in Contents
           /\ run' = [NoRun EXCEPT !.pc = "seal", !.force = force, !.content = batch]
        \/ /\ batch = Nil
           /\ \E c \in Contents : run' = [NoRun EXCEPT !.pc = "prepare", !.content = c]
    BY <1>3 DEF StartRun, Stored, IdkTypeOK, RunStates, Contents
  <2>3. IdkTypeOK'
    <3>1. run' \in RunStates /\ run'.pc \in {"seal", "prepare"} /\ run'.content \in Contents
      <4>1. NoRun \in RunStates
        BY DEF RunStates, NoRun, Places
      <4> QED
        BY <2>2, <4>1 DEF RunStates, Places
    <3> QED
      BY <1>1, <2>1, <3>1 DEF IdkTypeOK, RunStates, Disk, Seen
  <2>4. Bound' /\ Filed'
    BY ZenonT(60), <1>1, <2>1, <2>2 DEF Bound, Filed, NoRun, Disk, Seen, Known, Sending
  <2>5. UnderWay' /\ Counted' /\ Received'
    BY <1>1, <2>1, <2>2 DEF UnderWay, Counted, Received, NoRun, Disk, Seen, Sending,
                            Unsettled, Accepted
  <2>6. NoWedge'
    BY <2>1 DEF NoWedge
  <2> QED
    BY <2>3, <2>4, <2>5, <2>6
<1> QED
  BY <1>2, <1>3

LEMMA PrepareStep ==
  ASSUME IdkIInv, Prepare
  PROVE  IdkIInv'
<1> USE DEF IdkIInv
<1>1. /\ run.pc = "prepare" /\ batch = Nil /\ seal = Nil
      /\ batch' = run.content /\ run' = [run EXCEPT !.pc = "seal"]
      /\ UNCHANGED <<seal, receipt, manifest, target, outcome, Seen>>
  BY DEF Prepare, Reached, Go, Bound
<1>2. IdkTypeOK'
  BY <1>1 DEF IdkTypeOK, RunStates, Seen, Places
<1>3. Bound'
  BY <1>1 DEF Bound, Sending, IdkTypeOK, RunStates
<1>4. Filed'
  <2>1. \A i \in Items : receipt[i].of = Nil /\ got[i].of = {}
    BY <1>1, IdkAssumption DEF Filed, IdkTypeOK, RunStates
  <2> QED
    BY <1>1, <2>1 DEF Filed, Known, Seen, Sending, IdkTypeOK, RunStates
<1>5. UnderWay' /\ Counted' /\ Received' /\ NoWedge'
  BY <1>1 DEF UnderWay, Counted, Received, NoWedge, Seen, Sending, Unsettled, Accepted, IdkTypeOK, RunStates
<1> QED
  BY <1>2, <1>3, <1>4, <1>5

LEMMA BindStep ==
  ASSUME IdkIInv, Bind
  PROVE  IdkIInv'
<1> USE DEF IdkIInv
<1>1. /\ run.pc = "seal" /\ batch = run.content
      /\ seal' = batch /\ run' = [run EXCEPT !.pc = "check"]
      /\ UNCHANGED <<batch, receipt, manifest, target, outcome, Seen>>
  BY DEF Bind, Reached, Go, Bound, Filed
<1>2. IdkTypeOK'
  BY <1>1 DEF IdkTypeOK, RunStates, Seen, Places
<1>3. Bound' /\ Filed'
  BY <1>1, IdkAssumption DEF Bound, Filed, Known, Seen, Sending, IdkTypeOK, RunStates
<1>4. UnderWay' /\ Counted' /\ Received' /\ NoWedge'
  BY <1>1 DEF UnderWay, Counted, Received, NoWedge, Seen, Sending, Unsettled, Accepted, IdkTypeOK, RunStates
<1> QED
  BY <1>2, <1>3, <1>4

LEMMA CheckStep ==
  ASSUME IdkIInv, CheckList
  PROVE  IdkIInv'
<1> USE DEF IdkIInv
<1> DEFINE c == run.content
<1>1. /\ run.pc = "check" /\ c \in Contents /\ batch = c /\ seal = c
      /\ UNCHANGED <<Disk, target, got>>
  BY DEF CheckList, Reached, Bound, IdkTypeOK, RunStates, Sending
<1>2. CASE run' = NoRun
  <2>1. outcome' # "content changed"
    <3>1. \A i \in Components(c) : Accepted(i) => i \in Known
      BY <1>1, ComponentsAreItems DEF Accepted, Known
    <3>2. Complete(c) /\ PartsOf[c.list] > 0 =>
             \A a \in Accounts : manifest[a] # Nil
      <4> SUFFICES ASSUME Complete(c), PartsOf[c.list] > 0, NEW a \in Accounts
                   PROVE  manifest[a] # Nil
        OBVIOUS
      <4>1. <<a, 1>> \in Components(c)
        BY <1>1, IdkAssumption DEF Components, Contents
      <4>2. Known # {}
        BY <3>1, <4>1 DEF Complete
      <4> QED
        BY <1>1, <4>2, IdkAssumption DEF Filed
    <3>3. PartsOf[c.list] > 0 => ~Drifted(c)
      BY <1>1, <3>2, ComponentsAreItems DEF Drifted, Filed
    <3> QED
      BY <1>1, <1>2, <3>3 DEF CheckList, End, NoRun
  <2>2. UNCHANGED asked
    BY ZenonT(60), <1>1, <1>2 DEF CheckList, NoRun, IdkTypeOK, RunStates
  <2>3. NoWedge'
    BY <1>1, <1>2, <2>1 DEF CheckList, End, NoWedge, NoRun
  <2> QED
    BY <1>1, <1>2, <2>2, <2>3, Ending DEF Seen
<1>3. CASE run' # NoRun
  <2>1. /\ run.force = Complete(c) /\ ~Drifted(c) /\ PartsOf[c.list] > 0
        /\ run.force => asked < MaxAsked
        /\ asked' = IF run.force THEN asked + 1 ELSE asked
        /\ run' = [run EXCEPT !.pc = "archive", !.left = Accounts,
                              !.had = IF run.force THEN [i \in Items |-> got[i].n] ELSE @]
        /\ UNCHANGED outcome
    BY <1>1, <1>3 DEF CheckList, End
  <2>2. IdkTypeOK'
    <3>1. run' \in RunStates /\ run'.pc = "archive" /\ run'.content = c /\ run'.left = Accounts
      BY <2>1 DEF IdkTypeOK, RunStates, Places
    <3>2. asked' \in 0..MaxAsked
      BY <2>1, IdkAssumption DEF IdkTypeOK, RunStates
    <3> QED
      BY <1>1, <2>1, <3>1, <3>2 DEF IdkTypeOK, RunStates, Disk
  <2>3. Bound' /\ Filed'
    BY <1>1, <2>1 DEF Bound, Filed, Drifted, Disk, Known, Sending, IdkTypeOK, RunStates
  <2>4. UnderWay' /\ NoWedge'
    BY <1>1, <2>1 DEF UnderWay, NoWedge, Disk, Sending, Unsettled, IdkTypeOK, RunStates
  <2>5. Counted'
    BY <1>1, <2>1, IdkAssumption DEF Counted, Disk, Accepted, Unsettled, IdkTypeOK, RunStates
  <2>6. Received'
    BY <1>1, <2>1 DEF Received, Components, Disk, Accepted, Sending, IdkTypeOK, RunStates
  <2> QED
    BY <2>2, <2>3, <2>4, <2>5, <2>6
<1> QED
  BY <1>2, <1>3

LEMMA ArchiveStep ==
  ASSUME IdkIInv, Archive
  PROVE  IdkIInv'
<1> USE DEF IdkIInv
<1> DEFINE c == run.content
<1>1. /\ run.pc = "archive" /\ c \in Contents /\ batch = c /\ seal = c
      /\ UNCHANGED <<batch, seal, target, outcome, Seen>>
  BY DEF Archive, Reached, Bound, IdkTypeOK, Sending
<1>2. PICK a \in run.left :
        /\ run' = [run EXCEPT !.left = @ \ {a}]
        /\ IF run.force
           THEN /\ receipt' = Reset(a, run.content)
                /\ manifest' = [b \in Accounts |-> IF b = a \/ b \notin run.left
                                                   THEN run.content ELSE manifest[b]]
           ELSE UNCHANGED <<receipt, manifest>>
  BY DEF Archive
<1>3. a \in Accounts /\ \A i \in Of(a, c) : i[1] = a
  BY <1>1, <1>2 DEF IdkTypeOK, Of
<1>4. manifest' = manifest
  BY <1>1, <1>2 DEF Filed, IdkTypeOK
<1>5. \A i \in Items : receipt'[i] = receipt[i] \/ receipt'[i] = [status |-> "not_attempted", of |-> Nil]
  BY <1>2 DEF Reset, Blank
<1>6. receipt' \in [Items -> [status : Marks, of : Contents \cup {Nil}]]
  BY <1>2 DEF Reset, Blank, IdkTypeOK, Marks
<1>7. IdkTypeOK'
  BY <1>1, <1>2, <1>4, <1>6 DEF IdkTypeOK, RunStates, Seen
<1>8. Bound'
  BY <1>1, <1>2 DEF Bound, IdkTypeOK, RunStates, Sending
<1>9. Filed'
  BY <1>1, <1>2, <1>4, <1>5, IdkAssumption DEF Filed, Known, Seen, Sending, IdkTypeOK, RunStates
<1>10. UnderWay' /\ NoWedge'
  <2>1. \A i \in Items : ~Unsettled(i)
    BY <1>1 DEF UnderWay
  <2>2. \A i \in Items : ~Unsettled(i)'
    BY <1>5, <2>1 DEF Unsettled
  <2> QED
    BY <1>1, <1>2, <2>2 DEF UnderWay, NoWedge, Sending, IdkTypeOK, RunStates
<1>11. Counted'
  BY <1>1, <1>2, <1>5 DEF Counted, Accepted, Unsettled, Seen, IdkTypeOK, RunStates
<1>12. Received'
  <2>1. \A i \in Items : Accepted(i)' => Accepted(i) /\ got'[i] = got[i]
    BY <1>1, <1>5 DEF Accepted, Seen
  <2>2. run.force => \A i \in Components(c) : i[1] \notin run'.left => ~Accepted(i)'
    <3> SUFFICES ASSUME run.force, NEW i \in Components(c), i[1] \notin run'.left
                 PROVE  ~Accepted(i)'
      OBVIOUS
    <3>1. i \in Items
      BY <1>1, ComponentsAreItems
    <3>2. CASE i[1] = a
      <4>1. i \in Of(a, c)
        BY <3>2 DEF Of, Components
      <4> QED
        BY <1>2, <3>1, <4>1 DEF Reset, Blank, Accepted
    <3>3. CASE i[1] # a
      BY <1>1, <1>2, <2>1, <3>1, <3>3 DEF Received, IdkTypeOK, RunStates
    <3> QED
      BY <3>2, <3>3
  <2> QED
    BY <1>1, <1>2, <2>1, <2>2 DEF Received, Sending, Seen, IdkTypeOK, RunStates
<1> QED
  BY <1>7, <1>8, <1>9, <1>10, <1>11, <1>12

LEMMA ManifestStep ==
  ASSUME IdkIInv, Manifest
  PROVE  IdkIInv'
<1> USE DEF IdkIInv
<1> DEFINE c == run.content
<1>1. /\ run.pc = "archive" /\ run.left = {} /\ c \in Contents /\ batch = c /\ seal = c
      /\ manifest' = [a \in Accounts |-> c]
      /\ run' = [run EXCEPT !.pc = "next", !.left = Components(c)]
      /\ UNCHANGED <<batch, seal, receipt, target, outcome, Seen>>
  BY DEF Manifest, Reached, Bound, IdkTypeOK, Sending
<1>2. Components(c) \subseteq Items
  BY <1>1, ComponentsAreItems
<1>3. run' \in RunStates
  BY <1>1, <1>2 DEF IdkTypeOK, RunStates, Places
<1>4. IdkTypeOK'
  BY <1>1, <1>2, <1>3 DEF IdkTypeOK, RunStates, Seen
<1>5. Bound' /\ Filed'
  BY <1>1, IdkAssumption DEF Bound, Filed, Known, Seen, Sending, IdkTypeOK, RunStates
<1>6. UnderWay' /\ Counted' /\ NoWedge'
  BY <1>1 DEF UnderWay, Counted, NoWedge, Unsettled, Accepted, Seen, Sending, IdkTypeOK, RunStates
<1>7. Received'
  <2>1. \A i \in Components(c) :
          /\ run.had[i] <= got[i].n
          /\ Accepted(i) => got[i].n > run.had[i]
    <3> SUFFICES ASSUME NEW i \in Components(c)
                 PROVE  run.had[i] <= got[i].n /\ (Accepted(i) => got[i].n > run.had[i])
      OBVIOUS
    <3>1. i \in Items /\ got[i].n \in Nat
      BY <1>2 DEF IdkTypeOK
    <3>2. CASE run.force
      BY <1>1, <3>1, <3>2 DEF Received
    <3>3. CASE ~run.force
      BY <1>1, <3>1, <3>3 DEF Received
    <3> QED
      BY <3>2, <3>3
  <2> QED
    BY <1>1, <2>1 DEF Received, Accepted, Seen, Sending, IdkTypeOK, RunStates
<1> QED
  BY <1>4, <1>5, <1>6, <1>7

LEMMA PostStep ==
  ASSUME IdkIInv, Post
  PROVE  IdkIInv'
<1> USE DEF IdkIInv
<1> DEFINE c == run.content
<1>1. PICK i \in Items :
        /\ i \in run.left /\ ~Accepted(i)
        /\ receipt' = [receipt EXCEPT ![i] = [status |-> "in_flight", of |-> run.content]]
        /\ run' = [run EXCEPT !.pc = "send", !.item = i]
  BY DEF Post, Turn, Waiting
<1>2. /\ run.pc = "next" /\ c \in Contents /\ batch = c /\ seal = c
      /\ UNCHANGED <<batch, seal, manifest, target, outcome, Seen>>
  BY DEF Post, Reached, Bound, IdkTypeOK, Sending
<1>3. run' \in RunStates
  BY <1>1 DEF IdkTypeOK, RunStates, Places
<1>4. receipt' \in [Items -> [status : Marks, of : Contents \cup {Nil}]]
  BY <1>1, <1>2 DEF IdkTypeOK, Marks
<1>5. IdkTypeOK'
  BY <1>1, <1>2, <1>3, <1>4 DEF IdkTypeOK, RunStates, Seen
<1>6. Bound'
  BY <1>1, <1>2 DEF Bound, IdkTypeOK, RunStates, Sending
<1>7. Filed'
  BY <1>1, <1>2, IdkAssumption DEF Filed, Known, Seen, Sending, IdkTypeOK, RunStates
<1>8. UnderWay' /\ NoWedge'
  BY <1>1, <1>2 DEF UnderWay, NoWedge, Unsettled, Sending, IdkTypeOK, RunStates
<1>9. Counted'
  <2>1. got[i].n <= asked
    BY <1>1, <1>2 DEF Counted, UnderWay, Sending, Unsettled
  <2> QED
    BY <1>1, <1>2, <2>1 DEF Counted, Accepted, Unsettled, Seen, IdkTypeOK, RunStates
<1>10. Received'
  BY <1>1, <1>2, ComponentsAreItems
  DEF Received, Accepted, Seen, Sending, IdkTypeOK, RunStates
<1> QED
  BY <1>5, <1>6, <1>7, <1>8, <1>9, <1>10

LEMMA SendStep ==
  ASSUME IdkIInv, SendPart
  PROVE  IdkIInv'
<1> USE DEF IdkIInv
<1> DEFINE c == run.content
           j == run.item
<1>1. /\ run.pc = "send" /\ c \in Contents /\ batch = c /\ seal = c
      /\ j \in Items /\ j \in run.left /\ run.left \subseteq Components(c)
      /\ receipt[j].status = "in_flight" /\ got[j].n <= asked
      /\ UNCHANGED <<Disk, target, outcome, asked>>
  BY DEF SendPart, Reached, Bound, IdkTypeOK, Sending, UnderWay, Counted
<1>2. PICK answer \in {"accepted", "failed", "unknown"}, arrived \in BOOLEAN :
        /\ answer = "accepted" => arrived
        /\ answer = "failed" => ~arrived
        /\ run' = [run EXCEPT !.pc = "record", !.answer = answer]
        /\ got' = IF arrived
                  THEN [got EXCEPT ![j] = [n |-> @.n + 1, of |-> @.of \cup {c}]]
                  ELSE got
  BY DEF SendPart
<1>3. run' \in RunStates
  BY <1>2 DEF IdkTypeOK, RunStates, Places
<1>4. got' \in [Items -> [n : Nat, of : SUBSET Contents]]
  BY <1>1, <1>2 DEF IdkTypeOK
<1>5. IdkTypeOK'
  BY <1>1, <1>2, <1>3, <1>4 DEF IdkTypeOK, RunStates, Disk
<1>6. \A i \in Items : /\ got[i].n \in Nat
                       /\ got'[i].n = IF i = j /\ arrived THEN got[i].n + 1 ELSE got[i].n
                       /\ got'[i].of \subseteq got[i].of \cup {c}
  BY <1>1, <1>2 DEF IdkTypeOK
<1>7. Bound' /\ UnderWay' /\ NoWedge'
  BY <1>1, <1>2 DEF Bound, UnderWay, NoWedge, Unsettled, Sending, Disk, IdkTypeOK, RunStates
<1>8. Filed'
  BY <1>1, <1>2, <1>6 DEF Filed, Known, Sending, Disk, IdkTypeOK, RunStates
<1>9. Counted'
  BY <1>1, <1>2, <1>6 DEF Counted, Accepted, Unsettled, Disk, IdkTypeOK, RunStates
<1>10. Received'
  BY <1>1, <1>2, <1>6, ComponentsAreItems
  DEF Received, Accepted, Sending, Disk, IdkTypeOK, RunStates
<1> QED
  BY <1>5, <1>7, <1>8, <1>9, <1>10

LEMMA RecordStep ==
  ASSUME IdkIInv, Record
  PROVE  IdkIInv'
<1> USE DEF IdkIInv
<1> DEFINE c == run.content
           j == run.item
<1>1. /\ run.pc = "record" /\ c \in Contents /\ batch = c /\ seal = c
      /\ j \in Items /\ j \in run.left /\ run.left \subseteq Components(c)
      /\ receipt[j].status = "in_flight"
      /\ receipt' = [receipt EXCEPT ![j].status = run.answer]
      /\ run.answer \in {"accepted", "failed", "unknown"}
      /\ UNCHANGED <<batch, seal, manifest, target, Seen>>
  BY DEF Record, Reached, Bound, IdkTypeOK, Sending, UnderWay
<1>2. \A i \in Items : /\ receipt'[i].of = receipt[i].of
                       /\ receipt'[i].status = IF i = j THEN run.answer ELSE receipt[i].status
  BY <1>1 DEF IdkTypeOK
<1>3. receipt' \in [Items -> [status : Marks, of : Contents \cup {Nil}]]
  BY <1>1 DEF IdkTypeOK, Marks
<1>4. \A i \in Items : i # j => Unsettled(i)' = Unsettled(i) /\ ~Unsettled(i)
  BY <1>1, <1>2 DEF UnderWay, Unsettled
<1>5. CASE run.answer = "unknown"
  <2>1. run' = NoRun /\ outcome' = "unknown"
    BY <1>5 DEF Record, End
  <2>2. IdkTypeOK'
    BY <1>1, <1>3, <2>1 DEF IdkTypeOK, RunStates, NoRun, Places, Seen
  <2>3. Bound' /\ UnderWay' /\ NoWedge'
    BY <1>1, <2>1 DEF Bound, UnderWay, NoWedge, NoRun, Sending
  <2>4. Filed'
    BY <1>1, <1>2, <2>1, IdkAssumption DEF Filed, Known, NoRun, Sending, Seen
  <2>5. Counted' /\ Received'
    BY <1>1, <1>2, <1>5, <2>1 DEF Counted, Received, Accepted, Unsettled, NoRun, Sending, Seen
  <2> QED
    BY <2>2, <2>3, <2>4, <2>5
<1>6. CASE run.answer # "unknown"
  <2>1. run' = AfterPart /\ UNCHANGED outcome
    BY <1>6 DEF Record
  <2>2. /\ run'.pc = "next" /\ run'.content = c /\ run'.left \subseteq run.left
        /\ run'.had = run.had /\ run'.force = run.force
        /\ run'.bad = (run.bad \/ run.answer = "failed")
        /\ run.answer # "failed" => run'.left = run.left \ {j}
        /\ run' \in RunStates
    BY <1>1, <2>1 DEF AfterPart, IdkTypeOK, RunStates, Places
  <2>3. IdkTypeOK'
    BY <1>1, <1>3, <2>1, <2>2 DEF IdkTypeOK, Seen
  <2>4. Bound' /\ UnderWay' /\ NoWedge'
    <3>1. \A i \in Items : ~Unsettled(i)'
      BY <1>1, <1>2, <1>4, <1>6 DEF Unsettled
    <3> QED
      BY <1>1, <2>1, <2>2, <3>1 DEF Bound, UnderWay, NoWedge, Sending
  <2>5. Filed'
    BY <1>1, <1>2, <2>2, IdkAssumption DEF Filed, Known, Sending, Seen
  <2>6. Counted'
    BY <1>1, <1>2, <1>4, <1>6, <2>2 DEF Counted, Accepted, Unsettled, Seen, IdkTypeOK
  <2>7. Received'
    <3>1. got' = got /\ \A i \in Components(c) : i \in Items
      BY <1>1, ComponentsAreItems DEF Seen
    <3>2. run.answer = "accepted" => got[j].n > run.had[j]
      BY <1>1 DEF Received
    <3>3. \A i \in Items : Accepted(i)' => got[i].n > 0
      BY <1>1, <1>2, <3>2 DEF Received, Accepted, IdkTypeOK, RunStates
    <3>4. \A i \in Components(c) :
            /\ run.had[i] <= got[i].n
            /\ Accepted(i)' => got[i].n > run.had[i]
            /\ run'.bad \/ i \in run'.left \/ Accepted(i)'
      <4> SUFFICES ASSUME NEW i \in Components(c)
                   PROVE  /\ run.had[i] <= got[i].n
                          /\ Accepted(i)' => got[i].n > run.had[i]
                          /\ run'.bad \/ i \in run'.left \/ Accepted(i)'
        OBVIOUS
      <4>1. /\ run.had[i] <= got[i].n
            /\ Accepted(i) => got[i].n > run.had[i]
            /\ run.bad \/ i \in run.left \/ Accepted(i)
        BY <1>1 DEF Received, Sending
      <4>2. Accepted(i)' <=> IF i = j THEN run.answer = "accepted" ELSE Accepted(i)
        BY <1>2, <3>1 DEF Accepted
      <4>3. run'.bad \/ i \in run'.left \/ Accepted(i)'
        BY <1>1, <1>6, <2>2, <4>1, <4>2, Zenon
      <4> QED
        BY <3>2, <4>1, <4>2, <4>3
    <3> QED
      BY <2>2, <3>1, <3>3, <3>4 DEF Received
  <2> QED
    BY <2>3, <2>4, <2>5, <2>6, <2>7
<1> QED
  BY <1>5, <1>6

(* The invariant is kept by every step.                                    *)
LEMMA Stepwise == IdkIInv /\ [IdkNext]_idkVars => IdkIInv'
<1> SUFFICES ASSUME IdkIInv, [IdkNext]_idkVars PROVE IdkIInv'
  OBVIOUS
<1>1. ASSUME NEW send \in BOOLEAN, NEW force \in BOOLEAN, StartRun(send, force) PROVE IdkIInv'
  BY <1>1, StartStep
<1>2. CASE Prepare
  BY <1>2, PrepareStep
<1>3. CASE Bind
  BY <1>3, BindStep
<1>4. CASE CheckList
  BY <1>4, CheckStep
<1>5. CASE Archive
  BY <1>5, ArchiveStep
<1>6. CASE Manifest
  BY <1>6, ManifestStep
<1>7. CASE Post
  BY <1>7, PostStep
<1>8. CASE SendPart
  BY <1>8, SendStep
<1>9. CASE Record
  BY <1>9, RecordStep
<1>10. CASE Finish
  <2>1. NoWedge'
    BY <1>10 DEF Finish, End, NoWedge
  <2> QED
    BY <1>10, <2>1, Ending DEF Finish, End
<1>11. CASE Crash
  <2>1. NoWedge'
    BY <1>11 DEF Crash, End, NoWedge
  <2> QED
    BY <1>11, <2>1, Ending DEF Crash, End
<1>12. CASE Reconfigure
  <2>1. target' \in Targets /\ UNCHANGED <<Disk, run, outcome, Seen>>
    BY <1>12 DEF Reconfigure
  <2>2. IdkTypeOK'
    BY <2>1 DEF IdkIInv, IdkTypeOK, Disk, Seen
  <2>3. Bound' /\ Filed' /\ UnderWay' /\ NoWedge'
    BY <2>1 DEF IdkIInv, Bound, Filed, UnderWay, NoWedge, Disk, Seen, Known, Unsettled
  <2>4. Counted' /\ Received'
    BY <2>1 DEF IdkIInv, Counted, Received, Disk, Seen, Accepted, Unsettled
  <2> QED
    BY <2>2, <2>3, <2>4 DEF IdkIInv
<1>13. CASE UNCHANGED idkVars
  <2>1. IdkTypeOK' /\ Bound' /\ Filed'
    BY <1>13 DEF IdkIInv, IdkTypeOK, Bound, Filed, Known, idkVars
  <2>2. UnderWay' /\ Counted' /\ Received' /\ NoWedge'
    BY ZenonT(60), <1>13 DEF IdkIInv, UnderWay, Counted, Received, NoWedge, Accepted, Unsettled, idkVars
  <2> QED
    BY <2>1, <2>2 DEF IdkIInv
<1> QED
  BY <1>1, <1>2, <1>3, <1>4, <1>5, <1>6, <1>7, <1>8, <1>9, <1>10, <1>11, <1>12, <1>13 DEF IdkNext

THEOREM IdkInvariance == IdkSpec => []IdkIInv
<1>1. IdkInit => IdkIInv
  BY Initially
<1>2. IdkIInv /\ [IdkNext]_idkVars => IdkIInv'
  BY Stepwise
<1> QED
  BY <1>1, <1>2, PTL DEF IdkSpec

(* All recipients of a week read the one sealed list (idk_runner.py:110).  *)
THEOREM WeekHasOneList == IdkSpec => []OneList
<1>1. IdkIInv => OneList
  BY DEF IdkIInv, Filed, OneList
<1> QED
  BY <1>1, IdkInvariance, PTL

(* No death leaves the week in a state that later runs refuse              *)
(* (idk_runner.py:95, 115, 116).                                           *)
THEOREM WeekCanGoOn == IdkSpec => []NoWedge
<1>1. IdkIInv => NoWedge
  BY DEF IdkIInv
<1> QED
  BY <1>1, IdkInvariance, PTL

(* A part is received once, and once more per forced resend                *)
(* (workflow_io.py:244).                                                   *)
THEOREM NothingUnasked == IdkSpec => []AskedFor
<1>1. IdkIInv => AskedFor
  BY DEF IdkIInv, Counted, AskedFor
<1> QED
  BY <1>1, IdkInvariance, PTL

(* A run that reports the list as sent, or as sent before, is right        *)
(* (idk_runner.py:125-131).                                                *)
THEOREM ReportsAreTrue == IdkSpec => ReportTrue
<1>1. ASSUME IdkIInv, [IdkNext]_idkVars, ~Reached("idle"), run'.pc = "idle",
             outcome' \in {"delivered", "reused"}, NEW i \in Components(batch)
      PROVE  Accepted(i) /\ got[i].n > run.had[i]
  <2>1. /\ run.pc # "idle" /\ run.content \in Contents
        /\ Reached("check") \/ Reached("next") => batch = run.content
    BY <1>1 DEF IdkIInv, Reached, Bound, IdkTypeOK
  <2>2. \/ Reached("check") /\ ~run.force /\ Complete(run.content)
        \/ Reached("next") /\ Waiting = {} /\ ~run.bad
    <3>1. CASE CheckList
      <4>1. ASSUME NEW l, NEW h PROVE [run EXCEPT !.pc = "archive", !.left = l, !.had = h].pc = "archive"
        BY <1>1 DEF IdkIInv, IdkTypeOK, RunStates
      <4>2. run' # [run EXCEPT !.pc = "archive", !.left = Accounts,
                             !.had = IF run.force THEN [k \in Items |-> got[k].n] ELSE @]
        BY ZenonT(60), <1>1, <4>1
      <4>3. /\ outcome' \notin {"not resendable", "empty", "content changed", "incomplete"}
            /\ Reached("check")
        BY <1>1, <3>1 DEF CheckList
      <4>4. ~run.force /\ Complete(run.content)
        BY <3>1, <4>2, <4>3 DEF CheckList, End
      <4> QED
        BY <4>3, <4>4
    <3>2. CASE Finish
      BY <1>1, <3>2 DEF Finish, End
    <3>3. ~(Prepare \/ Archive \/ Manifest \/ Post \/ SendPart \/ UNCHANGED idkVars)
      BY <1>1 DEF Prepare, Archive, Manifest, Post, SendPart, Reached, Go, idkVars, IdkIInv, IdkTypeOK, RunStates
    <3>4. ~(Bind \/ Crash \/ Reconfigure \/ \E s, f \in BOOLEAN : StartRun(s, f))
      BY <1>1 DEF Bind, Crash, Reconfigure, StartRun, Reached, Go, End, IdkIInv, IdkTypeOK, RunStates
    <3>5. ~Record
      BY <1>1 DEF Record, AfterPart, End, Reached, IdkIInv, IdkTypeOK, RunStates
    <3> QED
      BY <1>1, <3>1, <3>2, <3>3, <3>4, <3>5 DEF IdkNext
  <2>3. i \in Items /\ got[i].n \in Nat
    BY <1>1, <2>1, <2>2, ComponentsAreItems DEF IdkIInv, IdkTypeOK
  <2>4. CASE Reached("check") /\ ~run.force /\ Complete(run.content)
    BY <1>1, <2>1, <2>3, <2>4 DEF Reached, Complete, IdkIInv, Received
  <2>5. CASE Reached("next") /\ Waiting = {} /\ ~run.bad
    <3>1. run.bad \/ i \in run.left \/ Accepted(i)
      BY <1>1, <2>1, <2>5 DEF Reached, IdkIInv, Received, Sending
    <3>2. Accepted(i)
      BY <2>5, <3>1 DEF Waiting
    <3> QED
      BY <1>1, <2>1, <2>5, <3>2 DEF Reached, IdkIInv, Received, Sending
  <2> QED
    BY <2>2, <2>4, <2>5
<1>2. IdkIInv /\ [IdkNext]_idkVars =>
        [~Reached("idle") /\ run'.pc = "idle" /\ outcome' \in {"delivered", "reused"} =>
             \A i \in Components(batch) : Accepted(i) /\ got[i].n > run.had[i]]_idkVars
  BY <1>1
<1> QED
  BY <1>2, IdkInvariance, PTL DEF IdkSpec, ReportTrue
=============================================================================
