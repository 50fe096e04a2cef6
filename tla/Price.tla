------------------------------- MODULE Price -------------------------------
(***************************************************************************)
(* The hourly price reminders with a reference of their own: the engine of *)
(* price_workflow.py, the reference store of price_reference.py and the    *)
(* part of workflow_io they send through, for one side (sales, purchase).  *)
(*                                                                         *)
(* A run that finds no pending batch observes the prices and seals what it *)
(* will send: first the proof file of the batch, then the head with the    *)
(* batch pending.  It binds the batch in the progress file, delivers, adds *)
(* the receipts to the proof and moves the reference, which takes the      *)
(* batch out of pending.  A run that finds a pending batch goes on with    *)
(* that one.  The job's lock is one of the operating system, so a process  *)
(* that dies frees it, and an exception leaves on disk what a death would. *)
(*                                                                         *)
(* What a resumed batch is compared with are fingerprints the transport    *)
(* makes of its components.  That of the WeCom application makes them of   *)
(* targets and files it learns in its own preflight, and a run that        *)
(* resumes has had none by then: there the comparison is an exception.     *)
(*                                                                         *)
(* Target locks and fences are those of Delivery; here they are a refusal  *)
(* that may come before any notification.                                  *)
(***************************************************************************)
EXTENDS Naturals, Sequences

CONSTANTS
  Accounts,   \* parties that may be told, numbers in the order of the batch
  Routes,     \* values of the activation's target map
  AppRoutes,  \* those of the WeCom application; the others know their targets
  Lists,      \* price lists
  Initial,    \* the list the reference was initialized with
  MaxHour,    \* bound: observation hours
  MaxRuns,    \* bound: runs that find no pending batch; the others are free
  None

ASSUME PriceAssumption ==
  /\ Accounts \subseteq Nat
  /\ AppRoutes \subseteq Routes
  /\ Initial \in Lists
  /\ MaxHour \in Nat
  /\ MaxRuns \in Nat
  /\ None \notin Lists \cup Routes
  /\ None \notin [before : Lists, after : Lists, parts : SUBSET Accounts]

VARIABLES
  route,      \* the target map of the activation file
  runs,       \* runs started so far that found no pending batch
  proc,       \* the process that holds the job's lock, if any
  head,       \* head.json: the reference, the pending and the last batch
  batch,      \* the sealed content of a batch
  proof,      \* the proof file of a batch: none, sealed, or with its receipts
  bound,      \* progress file: <side>_batch_bindings
  manifest,   \* progress file: the route in a batch's notification_manifests
  entry,      \* progress file: status of the component for an account
  note,       \* progress file: status of its notification-<n> entry
  via         \* history: the routes by which the provider accepted it, in order

store == <<head, batch, proof>>
progress == <<bound, manifest, entry, note>>
vars == <<route, runs, proc, store, progress, via>>

Hours == 1..MaxHour
Ids == 1..MaxRuns
Receipts == {"provider_accepted", "failed", "unknown"}
Blocking == {"in_flight", "unknown"}
Idle == [pc |-> "idle", asked |-> None, wire |-> None, id |-> 0, todo |-> {},
         resp |-> "unknown", failed |-> FALSE]
Blank == [before |-> Initial, after |-> Initial, hour |-> 0, route |-> None,
          parts |-> {}]
PCs == {"idle", "connect", "load", "seal", "bind", "compare", "preflight", "next",
        "wire", "record", "note", "proof", "head"}

TypeOK ==
  /\ route \in Routes
  /\ runs \in 0..MaxRuns
  /\ proc \in [pc : PCs, asked : Routes \cup {None}, wire : Routes \cup {None},
               id : 0..MaxRuns, todo : SUBSET Accounts, resp : Receipts,
               failed : BOOLEAN]
  /\ head \in [ref : Lists, pending : 0..MaxRuns, last : 0..MaxRuns]
  /\ batch \in [Ids -> [before : Lists, after : Lists, hour : 0..MaxHour,
                        route : Routes \cup {None}, parts : SUBSET Accounts]]
  /\ proof \in [Ids -> {"none", "sealed", "receipted"}]
  /\ bound \subseteq Ids
  /\ manifest \in [Ids -> Routes \cup {None}]
  /\ entry \in [Ids -> [Accounts -> Receipts \cup {"not_attempted", "in_flight"}]]
  /\ note \in [Ids -> [Accounts -> Receipts \cup {"not_attempted"}]]
  /\ via \in [Ids -> [Accounts -> Seq(Routes)]]

Init ==
  /\ route \in Routes
  /\ runs = 0
  /\ proc = Idle
  /\ head = [ref |-> Initial, pending |-> 0, last |-> 0]
  /\ batch = [b \in Ids |-> Blank]
  /\ proof = [b \in Ids |-> "none"]
  /\ bound = {}
  /\ manifest = [b \in Ids |-> None]
  /\ entry = [b \in Ids |-> [a \in Accounts |-> "not_attempted"]]
  /\ note = [b \in Ids |-> [a \in Accounts |-> "not_attempted"]]
  /\ via = [b \in Ids |-> [a \in Accounts |-> <<>>]]

-----------------------------------------------------------------------------
(* A run up to the sealed batch.                                           *)

At(pc) == proc.pc = pc
Attempted(b) == \E a \in Accounts : entry[b][a] # "not_attempted"
Accepted(b) == \A a \in batch[b].parts : entry[b][a] = "provider_accepted"

(* The activation is read twice: run_bound keeps the target map it asked   *)
(* for, and the transport it makes reads the file again for its own.  A    *)
(* run that finds a batch pending will not seal one and needs no number.   *)
Start ==
  /\ At("idle")
  /\ \/ head.pending = 0 /\ runs < MaxRuns /\ runs' = runs + 1
     \/ head.pending # 0 /\ UNCHANGED runs
  /\ proc' = [Idle EXCEPT !.pc = "connect", !.asked = route]
  /\ UNCHANGED <<route, store, progress, via>>

Connect ==
  /\ At("connect")
  /\ proc' = [proc EXCEPT !.pc = "load", !.wire = route]
  /\ UNCHANGED <<route, runs, store, progress, via>>

(* recover_pending: the batch on file, if its target map is the one asked  *)
(* for and it is bound if anything of it was attempted.                    *)
Resume ==
  /\ At("load")
  /\ head.pending # 0
  /\ batch[head.pending].route = proc.asked
  /\ Attempted(head.pending) => head.pending \in bound
  /\ bound' = bound \cup {head.pending}
  /\ proc' = [proc EXCEPT !.id = head.pending,
       !.pc = IF batch[head.pending].parts = {} THEN "preflight" ELSE "compare"]
  /\ UNCHANGED <<route, runs, store, manifest, entry, note, via>>

(* Every component gets its fingerprint, attempted or not, and what was    *)
(* attempted was with the same.  The transport of the application has no   *)
(* targets to make one of, so only the exception is left (Stop).           *)
Compare ==
  /\ At("compare")
  /\ proc.asked \notin AppRoutes
  /\ Attempted(proc.id) => manifest[proc.id] = proc.wire
  /\ proc' = [proc EXCEPT !.pc = "preflight"]
  /\ UNCHANGED <<route, runs, store, progress, via>>

(* Nothing in the progress file is left from before, in whatever batch.    *)
Settled ==
  \A b \in Ids, a \in Accounts :
    {entry[b][a], note[b][a]} \cap ({"failed"} \cup Blocking) = {}

(* Mutant of NewHour: the hour of the last batch counts as new.            *)
SameHourToo(h) == head.last # 0 => h >= batch[head.last].hour

(* A reading older than the last one, or of the same hour, is not used.    *)
NewHour(h) == head.last # 0 => h > batch[head.last].hour

(* Without a pending batch the prices are observed and compared with the   *)
(* reference; a change that is to be announced has parties to it.  The     *)
(* batch is sealed in its proof file.                                      *)
Observe(list, h, parts) ==
  /\ At("load")
  /\ head.pending = 0
  /\ Settled
  /\ NewHour(h)
  /\ parts # {} => list # head.ref /\ route = proc.wire
  /\ batch' = [batch EXCEPT ![runs] =
       [before |-> head.ref, after |-> list, hour |-> h, route |-> proc.asked,
        parts |-> parts]]
  /\ proof' = [proof EXCEPT ![runs] = "sealed"]
  /\ proc' = [proc EXCEPT !.pc = "seal", !.id = runs]
  /\ UNCHANGED <<route, runs, head, progress, via>>

(* The head takes the batch as pending; a silent one is committed at once. *)
Seal ==
  /\ At("seal")
  /\ head' = [head EXCEPT !.pending = proc.id]
  /\ proc' = [proc EXCEPT
       !.pc = IF batch[proc.id].parts = {} THEN "proof" ELSE "bind"]
  /\ UNCHANGED <<route, runs, batch, proof, progress, via>>

Bind ==
  /\ At("bind")
  /\ bound' = bound \cup {proc.id}
  /\ proc' = [proc EXCEPT !.pc = "preflight"]
  /\ UNCHANGED <<route, runs, store, manifest, entry, note, via>>

-----------------------------------------------------------------------------
(* Delivery of the batch, one text for each account.                       *)

(* The last checks before anything is sent, and the manifests on file.     *)
Stage ==
  /\ At("preflight")
  /\ \A a \in batch[proc.id].parts : entry[proc.id][a] \notin Blocking
  /\ route = proc.wire
  /\ manifest[proc.id] \in {None, proc.wire}
  /\ manifest' = [manifest EXCEPT ![proc.id] =
       IF batch[proc.id].parts = {} THEN @ ELSE proc.wire]
  /\ proc' = [proc EXCEPT !.pc = "next",
       !.todo = {a \in batch[proc.id].parts :
                   entry[proc.id][a] # "provider_accepted"}]
  /\ UNCHANGED <<route, runs, store, bound, entry, note, via>>

Current == CHOOSE a \in proc.todo : \A c \in proc.todo : a <= c

MarkInFlight ==
  /\ At("next")
  /\ proc.todo # {}
  /\ entry' = [entry EXCEPT ![proc.id][Current] = "in_flight"]
  /\ proc' = [proc EXCEPT !.pc = "wire"]
  /\ UNCHANGED <<route, runs, store, bound, manifest, note, via>>

(* The provider takes the message or not, and the process learns which, or *)
(* the answer is lost or unusable and the outcome is unknown to it.        *)
Send(receipt) ==
  /\ At("wire")
  /\ \/ /\ receipt \in {"provider_accepted", "unknown"}
        /\ via' = [via EXCEPT ![proc.id][Current] = Append(@, proc.wire)]
     \/ receipt \in {"failed", "unknown"} /\ UNCHANGED via
  /\ proc' = [proc EXCEPT !.pc = "record", !.resp = receipt]
  /\ UNCHANGED <<route, runs, store, progress>>

Record ==
  /\ At("record")
  /\ entry' = [entry EXCEPT ![proc.id][Current] = proc.resp]
  /\ proc' = [proc EXCEPT !.pc = "note"]
  /\ UNCHANGED <<route, runs, store, bound, manifest, note, via>>

(* The notification's own entry follows in a write of its own; the run     *)
(* goes on with the next one unless this outcome is unknown.               *)
Note ==
  /\ At("note")
  /\ note' = [note EXCEPT ![proc.id][Current] = proc.resp]
  /\ proc' = IF proc.resp = "unknown" THEN Idle
             ELSE [proc EXCEPT !.pc = "next", !.todo = @ \ {Current},
                               !.failed = @ \/ proc.resp = "failed"]
  /\ UNCHANGED <<route, runs, store, bound, manifest, entry, via>>

(* Mutant of Delivered: a definite failure does not stop the commit.       *)
DeliveredAnyway ==
  /\ At("next")
  /\ proc.todo = {}
  /\ proc' = [proc EXCEPT !.pc = "proof"]
  /\ UNCHANGED <<route, runs, store, progress, via>>

(* Every component has been accepted; receipt_evidence reads it again.     *)
Delivered ==
  /\ At("next")
  /\ proc.todo = {}
  /\ ~proc.failed
  /\ Accepted(proc.id)
  /\ proc' = [proc EXCEPT !.pc = "proof"]
  /\ UNCHANGED <<route, runs, store, progress, via>>

-----------------------------------------------------------------------------
(* Commit.                                                                 *)

(* Mutant of CommitProof: the receipts are not added to the proof file.    *)
CommitUnproved ==
  /\ At("proof")
  /\ proc' = [proc EXCEPT !.pc = "head"]
  /\ UNCHANGED <<route, runs, store, progress, via>>

CommitProof ==
  /\ At("proof")
  /\ proof' = [proof EXCEPT ![proc.id] = "receipted"]
  /\ proc' = [proc EXCEPT !.pc = "head"]
  /\ UNCHANGED <<route, runs, head, batch, progress, via>>

CommitHead ==
  /\ At("head")
  /\ head' = [ref |-> batch[proc.id].after, pending |-> 0, last |-> proc.id]
  /\ proc' = Idle
  /\ UNCHANGED <<route, runs, batch, proof, progress, via>>

(* The run is over before its end: the process died, an exception left it, *)
(* or a check refused to go on.  What it held in memory is gone.           *)
Stop ==
  /\ ~At("idle")
  /\ proc' = Idle
  /\ UNCHANGED <<route, runs, store, progress, via>>

(* An operator edits the target map.                                       *)
Reroute(r) ==
  /\ r # route
  /\ route' = r
  /\ UNCHANGED <<runs, proc, store, progress, via>>

RunStep ==
  \/ Start \/ Connect \/ Resume \/ Compare
  \/ \E list \in Lists, h \in Hours, parts \in SUBSET Accounts :
       Observe(list, h, parts)
  \/ Seal \/ Bind \/ Stage
  \/ MarkInFlight \/ Record \/ Note \/ Delivered
  \/ \E receipt \in Receipts : Send(receipt)
  \/ CommitProof \/ CommitHead
  \/ Stop

Next == RunStep \/ \E r \in Routes : Reroute(r)

Spec == Init /\ [][Next]_vars

(* The job is started again for ever and a run does not stand still; and   *)
(* of the runs that come to a step of a recovery infinitely many take it:  *)
(* they are not all killed at the same place.                              *)
Scheduled ==
  /\ WF_vars(RunStep)
  /\ SF_vars(Connect) /\ SF_vars(Resume) /\ SF_vars(Compare)

FairSpec == Spec /\ Scheduled

-----------------------------------------------------------------------------
(* Properties.                                                             *)

(* At most one batch is committed for an observation hour, and hours do    *)
(* not go back, however late a pending batch is recovered.                 *)
HourlyOnce ==
  [][head'.last # head.last /\ head.last # 0 =>
       batch[head'.last].hour > batch[head.last].hour]_vars

(* load() of the reference store accepts what any death leaves: the last   *)
(* committed batch has its receipts and led to this reference, and the     *)
(* pending one is sealed and starts from it.                               *)
HeadLoads ==
  /\ head.last # 0 =>
       proof[head.last] = "receipted" /\ batch[head.last].after = head.ref
  /\ head.pending # 0 =>
       proof[head.pending] # "none" /\ batch[head.pending].before = head.ref

(* What the checks of a resumed batch ask of the files is there: attempted *)
(* components are bound to their batch, covered by a manifest, and of the  *)
(* pending batch while some of it is not accepted.                         *)
EvidenceComplete ==
  \A b \in Ids : Attempted(b) =>
    /\ b \in bound
    /\ manifest[b] # None
    /\ ~Accepted(b) => head.pending = b

(* No combination of head, proofs, bindings and manifests that a death     *)
(* leaves is one that the checks of the next run take for tampering.  That *)
(* the run then gets on is another matter: see TakenUp.                    *)
Recoverable == HeadLoads /\ EvidenceComplete

(* The messages of a batch all go over one route, whoever edits the        *)
(* activation and however many runs it takes; and a run whose two readings *)
(* of the activation agree sends a batch only over the route sealed in it. *)
RoutesKept ==
  /\ \A b \in Ids : \A a, c \in Accounts :
       \A i \in DOMAIN via[b][a], k \in DOMAIN via[b][c] :
         via[b][a][i] = via[b][c][k]
  /\ At("wire") /\ proc.asked = proc.wire => batch[proc.id].route = proc.wire

(* The files of a batch survive what happens between its steps, with the   *)
(* route it was sealed with.                                               *)
BatchesKept == Recoverable /\ RoutesKept

(* Nothing the operator would have to look into keeps the pending batch:   *)
(* none of it is in doubt, and the activation has the route it was sealed  *)
(* and tried with.                                                         *)
Resumable ==
  /\ head.pending # 0
  /\ batch[head.pending].route = route
  /\ manifest[head.pending] \in {None, route}
  /\ \A a \in Accounts : entry[head.pending][a] \notin Blocking

(* "Pending recovery uses those files and the existing shared Progress,    *)
(* notification fingerprints and transport" and "Known partial failures    *)
(* continue only unaccepted components" (WORKFLOW_IO.md:410, 418): a batch *)
(* that stays resumable is resumed, past its comparison, again and again.  *)
TakenUp == <>[]Resumable => []<>At("preflight")

(* The engine with its files keeps the ledger, whoever edits the           *)
(* activation: the open batch is the pending one, and a party was told of  *)
(* it as often as the provider accepted a message.                         *)
Ledger == INSTANCE PriceLedger WITH
  open <- IF head.pending = 0 THEN None
          ELSE [f \in {"before", "after", "parts"} |-> batch[head.pending][f]],
  told <- [a \in Accounts |->
             IF head.pending = 0 THEN 0 ELSE Len(via[head.pending][a])],
  ref <- head.ref
KeepsLedger == Ledger!Spec
=============================================================================
