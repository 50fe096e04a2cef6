---------------------------- MODULE DeliveryInv ----------------------------
(***************************************************************************)
(* The inductive invariant of Delivery: what ties the local values of a    *)
(* process, the lock files it created, the fences, the progress file and   *)
(* the provider together between any two steps.                            *)
(***************************************************************************)
EXTENDS Delivery

Holding == {"stage", "prepare", "send", "item", "wire", "record", "finish"}
Sending == {"item", "wire", "record", "finish"}
Calling == {"send"} \cup Sending

(* A running process has an identity that no other has and a version of    *)
(* the material; one that does not run has forgotten both.                 *)
Identities ==
  /\ \A j \in Jobs :
       /\ ~Running(j) => proc[j].run = 0
       /\ Running(j) => /\ proc[j].run \in 1..runs
                        /\ proc[j].version \in Versions
  /\ \A i, j \in Jobs : Running(i) /\ proc[i].run = proc[j].run => i = j

(* A notification is begun only under a fence in its name, and that fence  *)
(* stays for as long as it is not known to be complete.                    *)
Fenced ==
  /\ \A n \in Notifs : Midway(n) => fence[TargetOf[n]].owner = n
  /\ \A t \in Targets : fence[t] # NoFence =>
       fence[t].owner \in Notifs /\ TargetOf[fence[t].owner] = t

(* What an entry says of the provider; between the marking in flight and   *)
(* the receipt it says only that there was at most one acceptance.         *)
Receipted ==
  \A n \in Notifs : \A k \in Kinds :
    /\ got[n][k] \in {0, 1}
    /\ got[n][k] = 1 => /\ k \in Parts(n)
                        /\ entry[n][k].status \in
                             {"provider_accepted", "in_flight", "unknown"}
                        /\ ver[n][k] = entry[n][k].print
    /\ k \in Parts(n) /\ entry[n][k].status = "provider_accepted"
         => got[n][k] = 1

(* What was tried carries a fingerprint, and a file is tried only after    *)
(* its text, with the material of its text.                                *)
FileAfterText(n) ==
  entry[n]["file"].status # "not_attempted" =>
    /\ entry[n]["text"].status = "provider_accepted"
    /\ entry[n]["text"].print = entry[n]["file"].print
FileFollows ==
  /\ \A n \in Notifs : \A k \in Kinds :
       entry[n][k].status # "not_attempted" => entry[n][k].print \in Versions
  /\ \A n \in WithFile : FileAfterText(n)

(* From staging to the end of the call a process owns the lock file of     *)
(* every target of the call.                                               *)
LocksOwned(j) ==
  proc[j].pc \in Holding => \A t \in Needed(j) : tlock[t] = proc[j].run

(* What passed preflight stays as it was: nothing doubtful, and once the   *)
(* resends are staged, no other material than that of the run.             *)
Bound(j, n) == \A k \in Parts(n) : entry[n][k].print \in {None, proc[j].version}
Clear(j, n) ==
  \/ Resend(j, n, proc[j].force, proc[j].run)
  \/ Bound(j, n)
Preflighted(j) ==
  /\ proc[j].pc \in {"lock", "stage"} => \A n \in Group(j) : Clear(j, n)
  /\ proc[j].pc \in {"prepare"} \cup Calling => \A n \in Group(j) : Bound(j, n)
  /\ proc[j].pc \in {"lock", "stage", "prepare"} \cup Calling =>
       \A n \in Group(j) : Has(n, Blocking) =>
         proc[j].pc \in {"wire", "record", "finish"} /\ n = proc[j].cur

(* The notification being sent: it is one of the call, under an in-flight  *)
(* fence, and its entries are those its process last wrote.                *)
Fired(j, n) ==
  /\ ~Complete(n)
  /\ entry[n][NextKind(n)].status = "in_flight"
  /\ entry[n][NextKind(n)].print = proc[j].version
  /\ \A k \in Parts(n) : k # NextKind(n) => entry[n][k].status \notin Blocking
Underway(j, n) ==
  /\ n \in Group(j)
  /\ n \in proc[j].todo
  /\ fence[TargetOf[n]] = [owner |-> n, status |-> "in_flight"]
  /\ proc[j].pc = "item" => ~Complete(n)
  /\ proc[j].pc = "wire" => Fired(j, n) /\ got[n][NextKind(n)] = 0
  /\ proc[j].pc = "record" =>
       /\ Fired(j, n)
       /\ proc[j].resp = "provider_accepted" => got[n][NextKind(n)] = 1
       /\ proc[j].resp = "failed" => got[n][NextKind(n)] = 0
  /\ proc[j].pc = "finish" =>
       /\ proc[j].resp = "provider_accepted" => Complete(n)
       /\ proc[j].resp = "failed" => Has(n, {"failed"}) /\ ~Has(n, Blocking)
Current(j) == proc[j].pc \in Sending => Underway(j, proc[j].cur)

(* The part of a call that is behind: each notification is complete or has *)
(* failed and holds its target, and none was overtaken on its target.      *)
Behind(j) ==
  /\ proc[j].pc \in Calling =>
       /\ proc[j].todo \subseteq Group(j)
       /\ \A m \in Group(j) : m \notin proc[j].todo =>
            \/ Complete(m)
            \/ fence[TargetOf[m]] = [owner |-> m, status |-> "failed"]
  /\ proc[j].pc \in Sending =>
       \A m \in Group(j) :
         TargetOf[m] = TargetOf[proc[j].cur] /\ m < proc[j].cur => Complete(m)

Local(j) == LocksOwned(j) /\ Preflighted(j) /\ Current(j) /\ Behind(j)
Recorded == Fenced /\ Receipted /\ FileFollows /\ FailedFenceRecoverable

IInv ==
  /\ TypeOK
  /\ Identities
  /\ Recorded
  /\ \A j \in Jobs : Local(j)
=============================================================================
