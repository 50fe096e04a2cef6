---------------------------- MODULE Price_proofs ----------------------------
(* For any parties, routes and lists and any number of runs: a batch       *)
(* survives what happens between its steps, hours do not go back, and the  *)
(* engine with its files keeps the promise of PriceLedger.                 *)
EXTENDS Price, WellFoundedInduction, TLAPS

Engaged == {"seal", "bind", "compare", "preflight", "next", "wire", "record", "note",
            "proof", "head"}
Sending == {"next", "wire", "record", "note"}
Retriable == {"not_attempted", "failed"}

(* A number that no run has used, or the number of a run that has not      *)
(* observed yet, has left nothing anywhere.                                *)
Untold(b) ==
    /\ b \notin bound /\ manifest[b] = None
    /\ \A a \in Accounts : entry[b][a] = "not_attempted" /\ via[b][a] = <<>>
Unused ==
    \A b \in Ids :
        b > runs \/ (b = runs /\ proc.pc \in {"connect", "load"} /\ head.pending = 0) =>
            proof[b] = "none" /\ Untold(b)

(* Where a run is, and what is on file of its batch by then.               *)
Batched ==
    /\ proc.pc # "idle" => proc.asked \in Routes
    /\ proc.pc # "idle" /\ head.pending = 0 => runs # 0
    /\ proc.pc \notin {"idle", "connect"} => proc.wire \in Routes
    /\ proc.pc \in Engaged =>
         proc.id \in Ids /\ batch[proc.id].route = proc.asked /\ proof[proc.id] # "none"
    /\ proc.pc = "seal" =>
         /\ head.pending = 0 /\ proof[proc.id] = "sealed" /\ Untold(proc.id)
         /\ batch[proc.id].before = head.ref
         /\ head.last # 0 => batch[proc.id].hour > batch[head.last].hour
    /\ proc.pc \in Engaged \ {"seal"} => head.pending = proc.id
    /\ proc.pc \in {"proof", "head"} => Accepted(proc.id)
    /\ proc.pc = "head" => proof[proc.id] = "receipted"

(* How far a delivery is: who is left was never told of the batch.         *)
Delivering ==
    /\ proc.pc \in {"compare", "preflight"} \cup Sending => proc.id \in bound
    /\ proc.pc \in Sending =>
         /\ proc.todo \subseteq batch[proc.id].parts
         /\ proc.todo # {} => manifest[proc.id] = proc.wire
    /\ proc.pc = "next" => \A a \in proc.todo : entry[proc.id][a] \in Retriable
    /\ proc.pc \in Sending \ {"next"} =>
         proc.todo # {} /\ \A a \in proc.todo \ {Current} : entry[proc.id][a] \in Retriable
    /\ proc.pc \in {"wire", "record"} => entry[proc.id][Current] = "in_flight"
    /\ proc.pc = "wire" => via[proc.id][Current] = <<>>
    /\ proc.pc = "record" =>
         /\ proc.resp = "failed" => via[proc.id][Current] = <<>>
         /\ proc.resp = "provider_accepted" => via[proc.id][Current] # <<>>

(* Nobody is told of a batch twice, and only by the route of its manifest; *)
(* the entry knows it, unless the outcome is in doubt.                     *)
Told ==
    \A b \in Ids, a \in Accounts :
        /\ via[b][a] \in {<<>>, <<manifest[b]>>}
        /\ manifest[b] = None => via[b][a] = <<>>
        /\ entry[b][a] \in Retriable => via[b][a] = <<>>
        /\ entry[b][a] = "provider_accepted" => via[b][a] # <<>>

(* The pending batch is of a later hour than the last one.                 *)
Later == head.pending # 0 /\ head.last # 0 => batch[head.pending].hour > batch[head.last].hour

IInv ==
    TypeOK /\ Unused /\ Batched /\ Delivering /\ Told /\ HeadLoads /\ Later /\ EvidenceComplete

-----------------------------------------------------------------------------
(* Whoever is left, one of them is the next in the order of the batch.     *)
LEMMA Least ==
  ASSUME NEW S \in SUBSET Nat, S # {}
  PROVE  \E x \in S : \A y \in S : x <= y
<1> DEFINE R == {ss \in Nat \X Nat : ss[1] < ss[2]}
<1>1. IsWellFoundedOn(R, Nat)
  BY NatLessThanWellFounded DEF OpToRel
<1> HIDE DEF R
<1>2. PICK x \in S : \A y \in S : <<y, x>> \notin R
  BY <1>1, WFMin
<1>3. \A y \in S : x \in Nat /\ y \in Nat
  OBVIOUS
<1>4. \A y \in S : ~(y < x)
  BY <1>2, <1>3 DEF R
<1>5. \A y \in S : x <= y
  BY <1>3, <1>4
<1> QED
  BY <1>5

LEMMA CurrentIsLeft ==
  ASSUME TypeOK, proc.todo # {}
  PROVE  Current \in proc.todo /\ Current \in Accounts
<1> DEFINE S == proc.todo
<1>1. S \in SUBSET Nat /\ S \subseteq Accounts
  BY PriceAssumption DEF TypeOK
<1>2. \E x \in S : \A y \in S : x <= y
  BY <1>1, Least
<1>3. Current = CHOOSE x \in S : \A y \in S : x <= y
  BY DEF Current
<1> HIDE DEF S
<1>4. Current \in S
  BY <1>2, <1>3
<1> QED
  BY <1>1, <1>4 DEF S

(* The parts of the state and their types, and steps that write little.    *)
Process == [pc : PCs, asked : Routes \cup {None}, wire : Routes \cup {None},
            id : 0..MaxRuns, todo : SUBSET Accounts, resp : Receipts, failed : BOOLEAN]
Batch == [before : Lists, after : Lists, hour : 0..MaxHour,
          route : Routes \cup {None}, parts : SUBSET Accounts]
Status == Receipts \cup {"not_attempted", "in_flight"}

LEMMA Over ==
  ASSUME TypeOK, proc' = Idle
  PROVE  proc' \in Process /\ proc'.pc = "idle"
BY PriceAssumption DEF TypeOK, Process, Idle, PCs, Receipts

LEMMA Goes ==
  ASSUME TypeOK, NEW pc \in PCs, proc' = [proc EXCEPT !.pc = pc]
  PROVE  /\ proc' \in Process /\ proc'.pc = pc
         /\ proc'.asked = proc.asked /\ proc'.wire = proc.wire /\ proc'.id = proc.id
         /\ proc'.todo = proc.todo /\ proc'.resp = proc.resp /\ proc'.failed = proc.failed
         /\ Current' = Current
BY DEF TypeOK, Process, Current

(* A step that leaves the files alone leaves true what is said of them.    *)
LEMMA FilesAlone ==
  ASSUME IInv, UNCHANGED <<store, progress, via>>
  PROVE  Told' /\ HeadLoads' /\ Later' /\ EvidenceComplete'
BY DEF IInv, store, progress, Told, HeadLoads, Later, EvidenceComplete, Attempted, Accepted

LEMMA StillUnused ==
  ASSUME IInv, UNCHANGED <<runs, proof, bound, manifest, entry, via>>,
         proc'.pc \in {"connect", "load"} => proc.pc \in {"connect", "load"} /\ head' = head
  PROVE  Unused'
BY DEF IInv, Unused, Untold

(* A run that is over has nothing to keep.                                 *)
LEMMA StopKeeps ==
  ASSUME IInv, Stop
  PROVE  IInv'
<1>1. proc' = Idle /\ UNCHANGED <<route, runs, store, progress, via>>
  BY DEF Stop
<1>2. proc' \in Process /\ proc'.pc = "idle"
  BY <1>1, Over DEF IInv
<1>3. TypeOK'
  BY <1>1, <1>2 DEF IInv, TypeOK, Process, store, progress
<1>4. Unused'
  BY <1>1, <1>2, StillUnused DEF store, progress
<1>5. Batched' /\ Delivering'
  BY <1>2 DEF Batched, Delivering, Engaged, Sending
<1> QED
  BY <1>1, <1>3, <1>4, <1>5, FilesAlone DEF IInv

LEMMA RerouteKeeps ==
  ASSUME IInv, NEW r \in Routes, Reroute(r)
  PROVE  IInv'
<1>1. route' = r /\ UNCHANGED <<runs, proc, store, progress, via>>
  BY DEF Reroute
<1>2. TypeOK'
  BY <1>1 DEF IInv, TypeOK, store, progress
<1>3. Unused'
  BY <1>1, StillUnused DEF store, progress
<1>4. Batched' /\ Delivering'
  BY <1>1 DEF IInv, Batched, Delivering, Untold, Accepted, Current, store, progress
<1> QED
  BY <1>1, <1>2, <1>3, <1>4, FilesAlone DEF IInv

LEMMA StartKeeps ==
  ASSUME IInv, Start
  PROVE  IInv'
<1>1. /\ proc' = [Idle EXCEPT !.pc = "connect", !.asked = route] /\ proc.pc = "idle"
      /\ \/ head.pending = 0 /\ runs < MaxRuns /\ runs' = runs + 1
         \/ head.pending # 0 /\ runs' = runs
      /\ UNCHANGED <<route, store, progress, via>>
  BY DEF Start, At
<1>2. proc' \in Process /\ proc'.pc = "connect" /\ proc'.asked \in Routes
  <2>1. route \in Routes /\ "connect" \in PCs /\ 0 \in 0..MaxRuns /\ "unknown" \in Receipts
    BY PriceAssumption DEF IInv, TypeOK, PCs, Receipts
  <2> QED
    BY <1>1, <2>1 DEF Process, Idle
<1>3. /\ runs' \in 0..MaxRuns /\ head' = head
      /\ head.pending = 0 => runs' = runs + 1 /\ runs' # 0
      /\ head.pending # 0 => runs' = runs
  BY <1>1, PriceAssumption DEF IInv, TypeOK, store
<1>4. TypeOK'
  BY <1>1, <1>2, <1>3 DEF IInv, TypeOK, Process, store, progress
<1>5. Unused'
  <2>1. \A b \in Ids : b > runs' \/ (b = runs' /\ head.pending = 0) => b > runs
    BY <1>3, PriceAssumption DEF IInv, TypeOK, Ids
  <2> QED
    BY <1>1, <1>3, <2>1 DEF IInv, Unused, Untold, store, progress
<1>6. Batched' /\ Delivering'
  BY <1>2, <1>3 DEF Batched, Delivering, Engaged, Sending
<1> QED
  BY <1>1, <1>4, <1>5, <1>6, FilesAlone DEF IInv

LEMMA ConnectKeeps ==
  ASSUME IInv, Connect
  PROVE  IInv'
<1>1. /\ proc' = [proc EXCEPT !.pc = "load", !.wire = route] /\ proc.pc = "connect"
      /\ UNCHANGED <<route, runs, store, progress, via>>
  BY DEF Connect, At
<1>2. /\ proc' \in Process /\ proc'.pc = "load"
      /\ proc'.wire \in Routes /\ proc'.asked = proc.asked
  BY <1>1 DEF IInv, TypeOK, Process, PCs
<1>3. TypeOK'
  BY <1>1, <1>2 DEF IInv, TypeOK, Process, store, progress
<1>4. Unused'
  BY <1>1, <1>2, StillUnused DEF store, progress
<1>5. Batched' /\ Delivering'
  BY <1>1, <1>2 DEF IInv, Batched, Delivering, Engaged, Sending, store
<1> QED
  BY <1>1, <1>3, <1>4, <1>5, FilesAlone DEF IInv

(* A batch that is bound, pending or not, has evidence of its attempts.    *)
LEMMA ResumeKeeps ==
  ASSUME IInv, Resume
  PROVE  IInv'
<1> DEFINE b == head.pending
           to == IF batch[b].parts = {} THEN "preflight" ELSE "compare"
<1>1. /\ proc' = [proc EXCEPT !.id = b, !.pc = to] /\ proc.pc = "load"
      /\ b # 0 /\ batch[b].route = proc.asked /\ bound' = bound \cup {b}
      /\ UNCHANGED <<route, runs, store, manifest, entry, note, via>>
  BY DEF Resume, At
<1>2. b \in Ids /\ b \in 0..MaxRuns
  BY <1>1, PriceAssumption DEF IInv, TypeOK, Ids
<1>3. to \in {"preflight", "compare"} /\ to \in PCs
  BY DEF PCs
<1> HIDE DEF to
<1>4. /\ proc' \in Process /\ proc'.pc = to /\ proc'.id = b
      /\ proc'.wire = proc.wire /\ proc'.asked = proc.asked
  BY <1>1, <1>2, <1>3 DEF IInv, TypeOK, Process
<1>5. TypeOK'
  BY <1>1, <1>2, <1>4 DEF IInv, TypeOK, Process, store
<1>6. proof[b] # "none"
  BY <1>1 DEF IInv, HeadLoads
<1>7. Unused'
  BY <1>1, <1>3, <1>4, <1>6 DEF IInv, Unused, Untold, store
<1>8. Batched'
  BY <1>1, <1>2, <1>3, <1>4, <1>6 DEF IInv, Batched, Engaged, store
<1>9. Delivering'
  BY <1>1, <1>3, <1>4 DEF Delivering, Sending
<1>10. Told' /\ HeadLoads' /\ Later'
  BY <1>1 DEF IInv, Told, HeadLoads, Later, store
<1>11. EvidenceComplete'
  BY <1>1 DEF IInv, EvidenceComplete, Attempted, Accepted, store
<1> QED
  BY <1>5, <1>7, <1>8, <1>9, <1>10, <1>11 DEF IInv

(* What is found to be as it was tried is as it was: nothing is written.   *)
LEMMA CompareKeeps ==
  ASSUME IInv, Compare
  PROVE  IInv'
<1>1. /\ proc.pc = "compare" /\ "preflight" \in PCs
      /\ proc' = [proc EXCEPT !.pc = "preflight"]
      /\ UNCHANGED <<route, runs, store, progress, via>>
  BY DEF Compare, At, PCs
<1>2. /\ proc' \in Process /\ proc'.pc = "preflight" /\ proc'.id = proc.id
      /\ proc'.wire = proc.wire /\ proc'.asked = proc.asked
  BY <1>1, Goes DEF IInv
<1>3. TypeOK'
  BY <1>1, <1>2 DEF IInv, TypeOK, Process, store, progress
<1>4. Unused'
  BY <1>1, <1>2, StillUnused DEF store, progress
<1>5. Batched'
  BY <1>1, <1>2 DEF IInv, Batched, Engaged, store
<1>6. Delivering'
  BY <1>1, <1>2 DEF IInv, Delivering, Sending, progress
<1> QED
  BY <1>1, <1>3, <1>4, <1>5, <1>6, FilesAlone DEF IInv

(* The batch gets a number of its own: nothing on file refers to it yet.   *)
LEMMA ObserveKeeps ==
  ASSUME IInv, NEW list \in Lists, NEW h \in Hours, NEW parts \in SUBSET Accounts,
         Observe(list, h, parts)
  PROVE  IInv'
<1> DEFINE new == [before |-> head.ref, after |-> list, hour |-> h, route |-> proc.asked,
                   parts |-> parts]
<1>1. /\ proc.pc = "load" /\ head.pending = 0 /\ NewHour(h)
      /\ batch' = [batch EXCEPT ![runs] = new]
      /\ proof' = [proof EXCEPT ![runs] = "sealed"]
      /\ proc' = [proc EXCEPT !.pc = "seal", !.id = runs]
      /\ UNCHANGED <<route, runs, head, progress, via>>
  BY DEF Observe, At
<1>2. runs \in Ids /\ runs \in 0..MaxRuns /\ proc.asked \in Routes
  BY <1>1, PriceAssumption DEF IInv, TypeOK, Ids, Batched
<1>3. new \in Batch /\ new.route = proc.asked /\ new.before = head.ref /\ new.hour = h
  BY <1>2, PriceAssumption DEF IInv, TypeOK, Batch, Hours
<1> HIDE DEF new
<1>4. /\ proc' \in Process /\ proc'.pc = "seal" /\ proc'.id = runs
      /\ proc'.wire = proc.wire /\ proc'.asked = proc.asked
  BY <1>1, <1>2 DEF IInv, TypeOK, Process, PCs
<1>5. /\ batch' \in [Ids -> Batch] /\ batch'[runs] = new
      /\ \A b \in Ids \ {runs} : batch'[b] = batch[b]
  BY <1>1, <1>2, <1>3 DEF IInv, TypeOK, Batch
<1>6. /\ proof' \in [Ids -> {"none", "sealed", "receipted"}] /\ proof'[runs] = "sealed"
      /\ \A b \in Ids \ {runs} : proof'[b] = proof[b]
  BY <1>1, <1>2 DEF IInv, TypeOK
<1>7. TypeOK'
  BY <1>1, <1>4, <1>5, <1>6 DEF IInv, TypeOK, Process, Batch, progress
<1>8. proof[runs] = "none" /\ Untold(runs)
  BY <1>1, <1>2, PriceAssumption DEF IInv, Unused, Ids
<1>9. head.last # 0 => head.last \in Ids \ {runs}
  BY <1>8, PriceAssumption DEF IInv, TypeOK, HeadLoads, Ids
<1>10. Unused'
  BY <1>1, <1>2, <1>4, <1>6, PriceAssumption DEF IInv, Unused, Untold, progress, Ids
<1>11. Batched'
  <2>1. head.last # 0 => h > batch'[head.last].hour
    BY <1>1, <1>5, <1>9 DEF NewHour
  <2> QED
    BY <1>1, <1>2, <1>3, <1>4, <1>5, <1>6, <1>8, <2>1
       DEF IInv, Batched, Engaged, Untold, progress
<1>12. Delivering'
  BY <1>4 DEF Delivering, Sending
<1>13. Told'
  BY <1>1 DEF IInv, Told, progress
<1>14. HeadLoads' /\ Later'
  BY <1>1, <1>5, <1>6, <1>9 DEF IInv, HeadLoads, Later
<1>15. EvidenceComplete'
  <2> SUFFICES ASSUME NEW b \in Ids, Attempted(b)'
               PROVE  (b \in bound /\ manifest[b] # None /\ (~Accepted(b) => head.pending = b))'
    BY DEF EvidenceComplete
  <2>1. Attempted(b) /\ b # runs
    BY <1>1, <1>8 DEF Attempted, Untold, progress
  <2>2. Accepted(b)' <=> Accepted(b)
    BY <1>1, <1>5, <2>1 DEF Accepted, progress
  <2> QED
    BY <1>1, <2>1, <2>2 DEF IInv, EvidenceComplete, progress
<1> QED
  BY <1>7, <1>10, <1>11, <1>12, <1>13, <1>14, <1>15 DEF IInv

(* The head takes the batch: nothing was half done, and this is not begun. *)
LEMMA SealKeeps ==
  ASSUME IInv, Seal
  PROVE  IInv'
<1> DEFINE to == IF batch[proc.id].parts = {} THEN "proof" ELSE "bind"
<1>1. /\ proc.pc = "seal" /\ head' = [head EXCEPT !.pending = proc.id]
      /\ proc' = [proc EXCEPT !.pc = to]
      /\ UNCHANGED <<route, runs, batch, proof, progress, via>>
  BY DEF Seal, At
<1>2. to \in PCs /\ to \in {"proof", "bind"} /\ (to = "proof" => batch[proc.id].parts = {})
  BY DEF PCs
<1> HIDE DEF to
<1>3. /\ proc' \in Process /\ proc'.pc = to /\ proc'.id = proc.id
      /\ proc'.wire = proc.wire /\ proc'.asked = proc.asked
  BY <1>1, <1>2, Goes DEF IInv
<1>4. proc.id \in Ids /\ proc.id # 0 /\ proc.id \in 0..MaxRuns /\ Untold(proc.id)
      /\ head.pending = 0 /\ proof[proc.id] # "none"
  BY <1>1, PriceAssumption DEF IInv, Batched, Engaged, Ids
<1>5. head' \in [ref : Lists, pending : 0..MaxRuns, last : 0..MaxRuns]
      /\ head'.pending = proc.id /\ head'.last = head.last /\ head'.ref = head.ref
  BY <1>1, <1>4 DEF IInv, TypeOK
<1>6. TypeOK'
  BY <1>1, <1>3, <1>5 DEF IInv, TypeOK, Process, progress
<1>7. Unused'
  BY <1>1, <1>2, <1>3, StillUnused DEF progress
<1>8. Batched'
  BY <1>1, <1>2, <1>3, <1>4, <1>5 DEF IInv, Batched, Engaged, Accepted
<1>9. Delivering'
  BY <1>2, <1>3 DEF Delivering, Sending
<1>10. Told'
  BY <1>1 DEF IInv, Told, progress
<1>11. HeadLoads' /\ Later'
  BY <1>1, <1>4, <1>5 DEF IInv, HeadLoads, Later, Batched
<1>12. EvidenceComplete'
  BY <1>1, <1>4, <1>5 DEF IInv, EvidenceComplete, Attempted, Accepted, progress, Ids
<1> QED
  BY <1>6, <1>7, <1>8, <1>9, <1>10, <1>11, <1>12 DEF IInv

LEMMA BindKeeps ==
  ASSUME IInv, Bind
  PROVE  IInv'
<1>1. /\ proc.pc = "bind" /\ bound' = bound \cup {proc.id} /\ "preflight" \in PCs
      /\ proc' = [proc EXCEPT !.pc = "preflight"]
      /\ UNCHANGED <<route, runs, store, manifest, entry, note, via>>
  BY DEF Bind, At, PCs
<1>2. /\ proc' \in Process /\ proc'.pc = "preflight" /\ proc'.id = proc.id
      /\ proc'.wire = proc.wire /\ proc'.asked = proc.asked
  BY <1>1, Goes DEF IInv
<1>3. proc.id \in Ids /\ proof[proc.id] # "none"
  BY <1>1 DEF IInv, Batched, Engaged
<1>4. TypeOK'
  BY <1>1, <1>2, <1>3 DEF IInv, TypeOK, Process, store
<1>5. Unused'
  BY <1>1, <1>2, <1>3 DEF IInv, Unused, Untold, store
<1>6. Batched'
  BY <1>1, <1>2, <1>3 DEF IInv, Batched, Engaged, store
<1>7. Delivering'
  BY <1>1, <1>2 DEF Delivering, Sending
<1>8. Told' /\ HeadLoads' /\ Later'
  BY <1>1 DEF IInv, Told, HeadLoads, Later, store
<1>9. EvidenceComplete'
  BY <1>1 DEF IInv, EvidenceComplete, Attempted, Accepted, store
<1> QED
  BY <1>4, <1>5, <1>6, <1>7, <1>8, <1>9 DEF IInv

-----------------------------------------------------------------------------
(* The delivery.  A manifest on file is that of this run's route; without  *)
(* one nobody was told, and the one now written is right for all.          *)
LEMMA StageKeeps ==
  ASSUME IInv, Stage
  PROVE  IInv'
<1> DEFINE b == proc.id
           m == IF batch[b].parts = {} THEN manifest[b] ELSE proc.wire
           left == {a \in batch[b].parts : entry[b][a] # "provider_accepted"}
<1>1. /\ proc.pc = "preflight" /\ \A a \in batch[b].parts : entry[b][a] \notin Blocking
      /\ manifest[b] \in {None, proc.wire} /\ manifest' = [manifest EXCEPT ![b] = m]
      /\ proc' = [proc EXCEPT !.pc = "next", !.todo = left]
      /\ UNCHANGED <<route, runs, store, bound, entry, note, via>>
  BY DEF Stage, At
<1>2. b \in Ids /\ proof[b] # "none" /\ b \in bound /\ proc.wire \in Routes
      /\ batch[b].parts \in SUBSET Accounts
  BY <1>1 DEF IInv, TypeOK, Batched, Delivering, Engaged
<1>3. left \in SUBSET Accounts /\ left \subseteq batch[b].parts
      /\ \A a \in left : entry[b][a] \in Retriable
  <2>1. \A a \in Accounts : entry[b][a] \in Status
    BY <1>2 DEF IInv, TypeOK, Status
  <2> QED
    BY <1>1, <1>2, <2>1 DEF Status, Receipts, Blocking, Retriable
<1>4. m \in Routes \cup {None} /\ (left # {} => m = proc.wire)
      /\ (manifest[b] # None => m = manifest[b])
  BY <1>1, <1>2
<1> HIDE DEF m, left
<1>5. /\ proc' \in Process /\ proc'.pc = "next" /\ proc'.id = b /\ proc'.todo = left
      /\ proc'.wire = proc.wire /\ proc'.asked = proc.asked
  BY <1>1, <1>3 DEF IInv, TypeOK, Process, PCs
<1>6. /\ manifest' \in [Ids -> Routes \cup {None}] /\ manifest'[b] = m
      /\ \A c \in Ids \ {b} : manifest'[c] = manifest[c]
  BY <1>1, <1>2, <1>4 DEF IInv, TypeOK
<1>7. TypeOK'
  BY <1>1, <1>5, <1>6 DEF IInv, TypeOK, Process, store
<1>8. Unused'
  BY <1>1, <1>2, <1>5, <1>6 DEF IInv, Unused, Untold, store
<1>9. Batched'
  BY <1>1, <1>2, <1>5 DEF IInv, Batched, Engaged, store
<1>10. Delivering'
  BY <1>1, <1>2, <1>3, <1>4, <1>5, <1>6 DEF Delivering, Sending, store
<1>11. Told'
  <2> SUFFICES ASSUME NEW c \in Ids, NEW a \in Accounts
               PROVE  /\ via[c][a] \in {<<>>, <<manifest'[c]>>}
                      /\ manifest'[c] = None => via[c][a] = <<>>
    BY <1>1 DEF Told, IInv
  <2>1. CASE manifest[c] = None
    BY <2>1 DEF IInv, Told
  <2>2. CASE manifest[c] # None
    BY <1>4, <1>6, <2>2 DEF IInv, Told
  <2> QED
    BY <2>1, <2>2
<1>12. HeadLoads' /\ Later'
  BY <1>1 DEF IInv, HeadLoads, Later, store
<1>13. EvidenceComplete'
  BY <1>1, <1>4, <1>6 DEF IInv, EvidenceComplete, Attempted, Accepted, store
<1> QED
  BY <1>7, <1>8, <1>9, <1>10, <1>11, <1>12, <1>13 DEF IInv

(* The evidence of the pending batch is complete whatever is written there.*)
LEMMA EvidenceOfPending ==
  ASSUME IInv, NEW b \in Ids, b \in bound, manifest[b] # None, head.pending = b,
         UNCHANGED <<head, batch, bound, manifest>>,
         \A c \in Ids \ {b} : entry'[c] = entry[c]
  PROVE  EvidenceComplete'
<1> SUFFICES ASSUME NEW c \in Ids, Attempted(c)'
             PROVE  (c \in bound /\ manifest[c] # None /\ (~Accepted(c) => head.pending = c))'
  BY DEF EvidenceComplete
<1>1. CASE c = b
  BY <1>1
<1>2. CASE c # b
  BY <1>2 DEF IInv, EvidenceComplete, Attempted, Accepted
<1> QED
  BY <1>1, <1>2

LEMMA MarkInFlightKeeps ==
  ASSUME IInv, MarkInFlight
  PROVE  IInv'
<1> DEFINE b == proc.id
           a == Current
<1>1. /\ proc.pc = "next" /\ proc.todo # {} /\ entry' = [entry EXCEPT ![b][a] = "in_flight"]
      /\ proc' = [proc EXCEPT !.pc = "wire"] /\ "wire" \in PCs
      /\ UNCHANGED <<route, runs, store, bound, manifest, note, via>>
  BY DEF MarkInFlight, At, PCs
<1>2. /\ b \in Ids /\ a \in Accounts /\ a \in proc.todo /\ proof[b] # "none"
      /\ b \in bound /\ manifest[b] = proc.wire /\ proc.wire \in Routes /\ head.pending = b
  BY <1>1, CurrentIsLeft DEF IInv, Batched, Delivering, Engaged, Sending
<1>3. /\ proc' \in Process /\ proc'.pc = "wire" /\ proc'.id = b /\ proc'.todo = proc.todo
      /\ proc'.wire = proc.wire /\ proc'.asked = proc.asked /\ Current' = a
  BY <1>1, Goes DEF IInv
<1> HIDE DEF a, b
<1>4. /\ entry' \in [Ids -> [Accounts -> Status]] /\ entry'[b][a] = "in_flight"
      /\ \A c \in Ids, d \in Accounts : c # b \/ d # a => entry'[c][d] = entry[c][d]
  <2>1. entry \in [Ids -> [Accounts -> Status]] /\ "in_flight" \in Status
    BY DEF IInv, TypeOK, Status
  <2> QED
    BY <1>1, <1>2, <2>1
<1>5. TypeOK'
  BY <1>1, <1>3, <1>4 DEF IInv, TypeOK, Process, Status, store
<1>6. Unused'
  BY <1>1, <1>2, <1>3, <1>4 DEF IInv, Unused, Untold, store
<1>7. Batched'
  BY <1>1, <1>2, <1>3 DEF IInv, Batched, Engaged, store, b
<1>8. entry[b][a] \in Retriable
  BY <1>1, <1>2 DEF IInv, Delivering, b
<1>9. Delivering'
  <2>1. \A d \in proc.todo \ {a} : entry'[b][d] \in Retriable
    BY <1>1, <1>2, <1>4 DEF IInv, Delivering, TypeOK, b
  <2>2. via[b][a] = <<>>
    BY <1>2, <1>8 DEF IInv, Told
  <2> QED
    BY <1>1, <1>2, <1>3, <1>4, <2>1, <2>2 DEF IInv, Delivering, Sending, store, b
<1>10. Told'
  BY <1>1, <1>4 DEF IInv, Told, Retriable
<1>11. HeadLoads' /\ Later'
  BY <1>1 DEF IInv, HeadLoads, Later, store
<1>12. EvidenceComplete'
  <2>1. \A c \in Ids \ {b} : entry'[c] = entry[c]
    BY <1>1, <1>2 DEF IInv, TypeOK
  <2> QED
    BY <1>1, <1>2, <2>1, EvidenceOfPending, PriceAssumption DEF store
<1> QED
  BY <1>5, <1>6, <1>7, <1>9, <1>10, <1>11, <1>12 DEF IInv

(* Where a delivery is, for whoever is being told.                         *)
LEMMA Midway ==
  ASSUME IInv, proc.pc \in {"wire", "record", "note"}
  PROVE  /\ proc.id \in Ids /\ Current \in Accounts /\ Current \in proc.todo
         /\ proof[proc.id] # "none" /\ proc.id \in bound /\ head.pending = proc.id
         /\ manifest[proc.id] = proc.wire /\ proc.wire \in Routes /\ manifest[proc.id] # None
         /\ proc.todo \subseteq batch[proc.id].parts
BY CurrentIsLeft, PriceAssumption DEF IInv, Batched, Delivering, Engaged, Sending

LEMMA SendKeeps ==
  ASSUME IInv, NEW receipt \in Receipts, Send(receipt)
  PROVE  IInv'
<1> DEFINE b == proc.id
           a == Current
           told == via[b][a]
           w == <<proc.wire>>
<1>1. /\ proc.pc = "wire"
      /\ proc' = [proc EXCEPT !.pc = "record", !.resp = receipt]
      /\ UNCHANGED <<route, runs, store, progress>>
  BY DEF Send, At
<1>2. /\ b \in Ids /\ a \in Accounts /\ a \in proc.todo /\ proof[b] # "none" /\ b \in bound
      /\ manifest[b] = proc.wire /\ proc.wire \in Routes /\ head.pending = b
  BY <1>1, Midway
<1>3. via[b][a] = <<>> /\ entry[b][a] = "in_flight"
  BY <1>1 DEF IInv, Delivering
<1>4. \/ receipt # "failed" /\ via' = [via EXCEPT ![b][a] = w]
      \/ receipt # "provider_accepted" /\ via' = via
  BY <1>2, <1>3 DEF Send, IInv, TypeOK
<1>5. /\ proc' \in Process /\ proc'.pc = "record" /\ proc'.id = b /\ proc'.todo = proc.todo
      /\ proc'.resp = receipt
      /\ proc'.wire = proc.wire /\ proc'.asked = proc.asked /\ Current' = a
  BY <1>1 DEF IInv, TypeOK, Process, PCs, Current
<1>6. w \in Seq(Routes) /\ w = <<manifest[b]>> /\ w # <<>>
  BY <1>2
<1> HIDE DEF a, b, w
<1>7. /\ via' \in [Ids -> [Accounts -> Seq(Routes)]]
      /\ \A c \in Ids, d \in Accounts : c # b \/ d # a => via'[c][d] = via[c][d]
      /\ \/ receipt # "failed" /\ via'[b][a] = w
         \/ receipt # "provider_accepted" /\ via'[b][a] = <<>>
  <2>1. CASE receipt # "failed" /\ via' = [via EXCEPT ![b][a] = w]
    BY <1>2, <1>6, <2>1 DEF IInv, TypeOK
  <2>2. CASE receipt # "provider_accepted" /\ via' = via
    BY <1>2, <1>3, <2>2 DEF IInv, TypeOK, a, b
  <2> QED
    BY <1>4, <2>1, <2>2
<1>8. TypeOK'
  BY <1>1, <1>5, <1>7 DEF IInv, TypeOK, Process, store, progress
<1>9. Unused'
  <2>1. \A c \in Ids \ {b} : \A d \in Accounts : via'[c][d] = via[c][d]
    BY <1>7
  <2> QED
    BY <1>1, <1>2, <1>5, <2>1 DEF IInv, Unused, Untold, store, progress
<1>10. Batched'
  BY <1>1, <1>2, <1>5 DEF IInv, Batched, Engaged, store, progress, b
<1>11. Delivering'
  <2>1. \A d \in proc.todo \ {a} : entry[b][d] \in Retriable
    BY <1>1, <1>2 DEF IInv, Delivering, a, b, Sending
  <2>2. entry'[b][a] = "in_flight"
    BY <1>1, <1>3 DEF a, b, progress
  <2>3. proc.todo \subseteq batch[b].parts
    BY <1>1, Midway DEF b
  <2>4. /\ receipt = "failed" => via'[b][a] = <<>>
        /\ receipt = "provider_accepted" => via'[b][a] # <<>>
    BY <1>6, <1>7
  <2> QED
    BY <1>1, <1>2, <1>5, <2>1, <2>2, <2>3, <2>4 DEF Delivering, Sending, store, progress
<1>12. Told'
  <2> SUFFICES ASSUME NEW c \in Ids, NEW d \in Accounts
               PROVE  /\ via'[c][d] \in {<<>>, <<manifest[c]>>}
                      /\ manifest[c] = None => via'[c][d] = <<>>
                      /\ entry[c][d] \in Retriable => via'[c][d] = <<>>
                      /\ entry[c][d] = "provider_accepted" => via'[c][d] # <<>>
    BY <1>1 DEF Told, progress
  <2>1. CASE c = b /\ d = a
    BY <1>2, <1>3, <1>6, <1>7, <2>1, PriceAssumption DEF Retriable, a, b
  <2>2. CASE ~(c = b /\ d = a)
    BY ZenonT(60), <1>7, <2>2 DEF IInv, Told
  <2> QED
    BY <2>1, <2>2
<1>13. HeadLoads' /\ Later' /\ EvidenceComplete'
  BY <1>1 DEF IInv, HeadLoads, Later, EvidenceComplete, Attempted, Accepted, store, progress
<1> QED
  BY <1>8, <1>9, <1>10, <1>11, <1>12, <1>13 DEF IInv

LEMMA RecordKeeps ==
  ASSUME IInv, Record
  PROVE  IInv'
<1> DEFINE b == proc.id
           a == Current
           x == proc.resp
<1>1. /\ proc.pc = "record" /\ entry' = [entry EXCEPT ![b][a] = x]
      /\ proc' = [proc EXCEPT !.pc = "note"] /\ "note" \in PCs
      /\ UNCHANGED <<route, runs, store, bound, manifest, note, via>>
  BY DEF Record, At, PCs
<1>2. /\ b \in Ids /\ a \in Accounts /\ a \in proc.todo /\ proof[b] # "none" /\ b \in bound
      /\ manifest[b] = proc.wire /\ proc.wire \in Routes /\ head.pending = b
      /\ manifest[b] # None /\ proc.todo \subseteq batch[b].parts
  BY <1>1, Midway
<1>3. /\ proc' \in Process /\ proc'.pc = "note" /\ proc'.id = b /\ proc'.todo = proc.todo
      /\ proc'.wire = proc.wire /\ proc'.asked = proc.asked /\ Current' = a
  BY <1>1, Goes DEF IInv
<1>4. x \in Status /\ (x = "failed" => via[b][a] = <<>>) /\ x # "not_attempted"
      /\ (x = "provider_accepted" => via[b][a] # <<>>)
  BY <1>1 DEF IInv, TypeOK, Delivering, Status, Receipts
<1> HIDE DEF a, b, x
<1>5. /\ entry' \in [Ids -> [Accounts -> Status]] /\ entry'[b][a] = x
      /\ \A c \in Ids, d \in Accounts : c # b \/ d # a => entry'[c][d] = entry[c][d]
  <2>1. entry \in [Ids -> [Accounts -> Status]]
    BY DEF IInv, TypeOK, Status
  <2> QED
    BY <1>1, <1>2, <1>4, <2>1
<1>6. TypeOK'
  BY <1>1, <1>3, <1>5 DEF IInv, TypeOK, Process, Status, store
<1>7. Unused'
  BY <1>1, <1>2, <1>3, <1>5 DEF IInv, Unused, Untold, store
<1>8. Batched'
  BY <1>1, <1>2, <1>3 DEF IInv, Batched, Engaged, store, b
<1>9. Delivering'
  <2>1. \A d \in proc.todo \ {a} : entry'[b][d] \in Retriable
    BY <1>1, <1>2, <1>5 DEF IInv, Delivering, TypeOK, Sending, a, b
  <2> QED
    BY <1>1, <1>2, <1>3, <2>1 DEF Delivering, Sending, store
<1>10. Told'
  BY <1>1, <1>4, <1>5 DEF IInv, Told, Retriable
<1>11. HeadLoads' /\ Later'
  BY <1>1 DEF IInv, HeadLoads, Later, store
<1>12. EvidenceComplete'
  <2>1. \A c \in Ids \ {b} : entry'[c] = entry[c]
    BY <1>1, <1>2 DEF IInv, TypeOK
  <2> QED
    BY <1>1, <1>2, <2>1, EvidenceOfPending DEF store
<1> QED
  BY <1>6, <1>7, <1>8, <1>9, <1>10, <1>11, <1>12 DEF IInv

LEMMA NoteKeeps ==
  ASSUME IInv, Note
  PROVE  IInv'
<1>1. /\ proc.pc = "note" /\ note' = [note EXCEPT ![proc.id][Current] = proc.resp]
      /\ UNCHANGED <<route, runs, store, bound, manifest, entry, via>>
  BY DEF Note, At
<1>2. /\ proc.id \in Ids /\ Current \in Accounts /\ proof[proc.id] # "none"
      /\ proc.id \in bound /\ head.pending = proc.id
      /\ manifest[proc.id] = proc.wire /\ proc.todo \subseteq batch[proc.id].parts
  BY <1>1, Midway
<1>3. note' \in [Ids -> [Accounts -> Receipts \cup {"not_attempted"}]]
  BY <1>1, <1>2 DEF IInv, TypeOK
<1>4. Told' /\ HeadLoads' /\ Later' /\ EvidenceComplete'
  BY <1>1 DEF IInv, Told, HeadLoads, Later, EvidenceComplete, Attempted, Accepted, store
<1>5. CASE proc.resp = "unknown"
  <2>1. proc' \in Process /\ proc'.pc = "idle"
    BY <1>5, Over DEF Note, IInv
  <2>2. TypeOK'
    BY <1>1, <1>3, <2>1 DEF IInv, TypeOK, Process, store
  <2>3. Unused' /\ Batched' /\ Delivering'
    BY <1>1, <2>1 DEF IInv, Unused, Untold, Batched, Delivering, Engaged, Sending, store
  <2> QED
    BY <1>4, <2>2, <2>3 DEF IInv
<1>6. CASE proc.resp # "unknown"
  <2> DEFINE left == proc.todo \ {Current}
             bad == proc.failed \/ proc.resp = "failed"
  <2>1. proc' = [proc EXCEPT !.pc = "next", !.todo = left, !.failed = bad]
    BY <1>6 DEF Note
  <2>2. left \in SUBSET Accounts /\ bad \in BOOLEAN /\ left \subseteq proc.todo
        /\ \A a \in left : entry[proc.id][a] \in Retriable
    BY <1>1 DEF IInv, TypeOK, Delivering, Sending
  <2> HIDE DEF left, bad
  <2>3. /\ proc' \in Process /\ proc'.pc = "next" /\ proc'.id = proc.id /\ proc'.todo = left
        /\ proc'.wire = proc.wire /\ proc'.asked = proc.asked
    BY <2>1, <2>2 DEF IInv, TypeOK, Process, PCs
  <2>4. TypeOK'
    BY <1>1, <1>3, <2>3 DEF IInv, TypeOK, Process, store
  <2>5. Unused'
    BY <1>1, <2>3 DEF IInv, Unused, Untold, store
  <2>6. Batched'
    BY <1>1, <1>2, <2>3 DEF IInv, Batched, Engaged, store
  <2>7. Delivering'
    BY <1>1, <1>2, <2>2, <2>3 DEF Delivering, Sending, store
  <2> QED
    BY <1>4, <2>4, <2>5, <2>6, <2>7 DEF IInv
<1> QED
  BY <1>5, <1>6

-----------------------------------------------------------------------------
(* The commit.                                                             *)
LEMMA DeliveredKeeps ==
  ASSUME IInv, Delivered
  PROVE  IInv'
<1>1. /\ proc.pc = "next" /\ Accepted(proc.id) /\ proc' = [proc EXCEPT !.pc = "proof"]
      /\ "proof" \in PCs /\ UNCHANGED <<route, runs, store, progress, via>>
  BY DEF Delivered, At, PCs
<1>2. /\ proc' \in Process /\ proc'.pc = "proof" /\ proc'.id = proc.id
      /\ proc'.wire = proc.wire /\ proc'.asked = proc.asked
  BY <1>1, Goes DEF IInv
<1>3. TypeOK'
  BY <1>1, <1>2 DEF IInv, TypeOK, Process, store, progress
<1>4. Unused'
  BY <1>1, <1>2, StillUnused DEF store, progress
<1>5. Batched'
  BY <1>1, <1>2 DEF IInv, Batched, Engaged, Accepted, store, progress
<1>6. Delivering'
  BY <1>2 DEF Delivering, Sending
<1> QED
  BY <1>1, <1>3, <1>4, <1>5, <1>6, FilesAlone DEF IInv

LEMMA CommitProofKeeps ==
  ASSUME IInv, CommitProof
  PROVE  IInv'
<1>1. /\ proc.pc = "proof" /\ proof' = [proof EXCEPT ![proc.id] = "receipted"]
      /\ proc' = [proc EXCEPT !.pc = "head"] /\ "head" \in PCs
      /\ UNCHANGED <<route, runs, head, batch, progress, via>>
  BY DEF CommitProof, At, PCs
<1>2. /\ proc' \in Process /\ proc'.pc = "head" /\ proc'.id = proc.id
      /\ proc'.wire = proc.wire /\ proc'.asked = proc.asked
  BY <1>1, Goes DEF IInv
<1>3. proc.id \in Ids /\ proof[proc.id] # "none"
  BY <1>1 DEF IInv, Batched, Engaged
<1>4. /\ proof' \in [Ids -> {"none", "sealed", "receipted"}]
      /\ proof'[proc.id] = "receipted"
      /\ \A b \in Ids \ {proc.id} : proof'[b] = proof[b]
  BY <1>1, <1>3 DEF IInv, TypeOK
<1>5. TypeOK'
  BY <1>1, <1>2, <1>4 DEF IInv, TypeOK, Process, progress
<1>6. Unused'
  BY <1>1, <1>2, <1>3, <1>4 DEF IInv, Unused, Untold, progress
<1>7. Batched'
  BY <1>1, <1>2, <1>3, <1>4 DEF IInv, Batched, Engaged, Accepted, progress
<1>8. Delivering'
  BY <1>2 DEF Delivering, Sending
<1>9. HeadLoads'
  BY <1>1, <1>3, <1>4 DEF IInv, TypeOK, HeadLoads, Ids
<1>10. Told' /\ Later' /\ EvidenceComplete'
  BY <1>1 DEF IInv, Told, Later, EvidenceComplete, Attempted, Accepted, progress
<1> QED
  BY <1>5, <1>6, <1>7, <1>8, <1>9, <1>10 DEF IInv

LEMMA CommitHeadKeeps ==
  ASSUME IInv, CommitHead
  PROVE  IInv'
<1>1. /\ proc.pc = "head" /\ proc' = Idle
      /\ head' = [ref |-> batch[proc.id].after, pending |-> 0, last |-> proc.id]
      /\ UNCHANGED <<route, runs, batch, proof, progress, via>>
  BY DEF CommitHead, At
<1>2. proc.id \in Ids /\ proof[proc.id] = "receipted" /\ Accepted(proc.id)
      /\ head.pending = proc.id
  BY <1>1 DEF IInv, Batched, Engaged
<1>3. proc' \in Process /\ proc'.pc = "idle"
  BY <1>1, Over DEF IInv
<1>4. head' \in [ref : Lists, pending : 0..MaxRuns, last : 0..MaxRuns]
  BY <1>1, <1>2, PriceAssumption DEF IInv, TypeOK, Ids
<1>5. TypeOK'
  BY <1>1, <1>3, <1>4 DEF IInv, TypeOK, Process, progress
<1>6. Unused'
  BY <1>1, <1>3, StillUnused DEF progress
<1>7. Batched' /\ Delivering'
  BY <1>3 DEF Batched, Delivering, Engaged, Sending
<1>8. Told'
  BY <1>1 DEF IInv, Told, progress
<1>9. HeadLoads' /\ Later'
  BY <1>1, <1>2 DEF HeadLoads, Later
<1>10. EvidenceComplete'
  <2> SUFFICES ASSUME NEW b \in Ids, Attempted(b)
               PROVE  b \in bound /\ manifest[b] # None /\ Accepted(b)
    BY <1>1 DEF EvidenceComplete, Attempted, Accepted, progress
  <2> QED
    BY <1>2 DEF IInv, EvidenceComplete
<1> QED
  BY <1>5, <1>6, <1>7, <1>8, <1>9, <1>10 DEF IInv

-----------------------------------------------------------------------------
LEMMA InitHolds == Init => IInv
<1> SUFFICES ASSUME Init PROVE IInv
  OBVIOUS
<1> USE PriceAssumption
<1>1. TypeOK
  <2>1. Idle \in Process
    BY DEF Idle, Process, PCs, Receipts
  <2>2. Blank \in Batch
    BY DEF Blank, Batch
  <2>3. head \in [ref : Lists, pending : 0..MaxRuns, last : 0..MaxRuns]
    BY DEF Init
  <2>4. via \in [Ids -> [Accounts -> Seq(Routes)]]
    BY DEF Init
  <2> QED
    BY <2>1, <2>2, <2>3, <2>4 DEF Init, TypeOK, Process, Batch
<1>2. Unused /\ Told
  BY DEF Init, Unused, Untold, Told, Retriable
<1>3. Batched /\ Delivering
  BY DEF Init, Batched, Delivering, Engaged, Sending, Idle
<1>4. HeadLoads /\ Later /\ EvidenceComplete
  BY DEF Init, HeadLoads, Later, EvidenceComplete, Attempted
<1> QED
  BY <1>1, <1>2, <1>3, <1>4 DEF IInv

LEMMA StutterKeeps ==
  ASSUME IInv, UNCHANGED vars
  PROVE  IInv'
<1>1. UNCHANGED <<route, runs, proc, store, progress, via>>
  BY DEF vars
<1>2. TypeOK'
  BY <1>1 DEF IInv, TypeOK, store, progress
<1>3. Unused'
  BY <1>1, StillUnused DEF store, progress
<1>4. Batched' /\ Delivering'
  BY <1>1 DEF IInv, Batched, Delivering, Untold, Accepted, Current, store, progress
<1> QED
  BY <1>1, <1>2, <1>3, <1>4, FilesAlone DEF IInv

LEMMA StepKeeps == IInv /\ [Next]_vars => IInv'
<1> SUFFICES ASSUME IInv, [Next]_vars PROVE IInv'
  OBVIOUS
<1>1. CASE UNCHANGED vars
  BY <1>1, StutterKeeps
<1>2. CASE \E r \in Routes : Reroute(r)
  BY <1>2, RerouteKeeps
<1>3. CASE RunStep
  BY <1>3, StartKeeps, ConnectKeeps, ResumeKeeps, CompareKeeps, ObserveKeeps, SealKeeps, BindKeeps,
     StageKeeps, MarkInFlightKeeps, RecordKeeps, NoteKeeps, DeliveredKeeps, SendKeeps,
     CommitProofKeeps, CommitHeadKeeps, StopKeeps
     DEF RunStep
<1> QED
  BY <1>1, <1>2, <1>3 DEF Next

(* The invariant holds in every state of the specification.                *)
THEOREM Invariance == Spec => []IInv
<1>1. Init => IInv
  BY InitHolds
<1>2. IInv /\ [Next]_vars => IInv'
  BY StepKeeps
<1> QED
  BY <1>1, <1>2, PTL DEF Spec

(* Every variable has its type.                                            *)
THEOREM TypeCorrect == Spec => []TypeOK
<1>1. IInv => TypeOK
  BY DEF IInv
<1> QED
  BY <1>1, Invariance, PTL

(* Whatever dies and whoever edits the activation, the files stay such as  *)
(* the checks of the next run ask for: the head loads, and what was tried  *)
(* is bound, covered by its manifest and, unless all of it was accepted,   *)
(* pending; a batch goes by one route, the sealed one if the readings      *)
(* agree.  It says nothing of whether that run gets on (TakenUp).          *)
THEOREM BatchesAreKept == Spec => []BatchesKept
<1>1. IInv => BatchesKept
  <2> SUFFICES ASSUME IInv PROVE BatchesKept
    OBVIOUS
  <2>1. \A b \in Ids, a \in Accounts : \A i \in DOMAIN via[b][a] : via[b][a][i] = manifest[b]
    BY DEF IInv, Told
  <2>2. RoutesKept
    BY <2>1 DEF IInv, Batched, Engaged, RoutesKept, At
  <2> QED
    BY <2>2 DEF IInv, BatchesKept, Recoverable
<1> QED
  BY <1>1, Invariance, PTL

(* Only the head's commit names a new last batch: the pending one, which   *)
(* was observed in a later hour than the last one before it.               *)
THEOREM HoursGoOn == Spec => HourlyOnce
<1>1. IInv /\ [Next]_vars =>
        [head'.last # head.last /\ head.last # 0 =>
           batch[head'.last].hour > batch[head.last].hour]_vars
  <2> SUFFICES ASSUME IInv, Next, head'.last # head.last, head.last # 0
               PROVE  batch[head'.last].hour > batch[head.last].hour
    BY DEF vars
  <2>1. CASE CommitHead
    <3>1. head'.last = proc.id /\ head.pending = proc.id /\ proc.id \in Ids
      BY <2>1 DEF CommitHead, At, IInv, Batched, Engaged
    <3> QED
      BY <3>1, PriceAssumption DEF IInv, Later, Ids
  <2>2. CASE Seal
    BY <2>2 DEF Seal, IInv, TypeOK
  <2>3. CASE ~CommitHead /\ ~Seal
    <3>1. head' = head
      BY <2>3 DEF Next, RunStep, Start, Connect, Resume, Compare, Observe, Bind, Stage, MarkInFlight,
             Record, Note, Delivered, Send, CommitProof, Stop, Reroute, store
    <3> QED
      BY <3>1
  <2> QED
    BY <2>1, <2>2, <2>3
<1> QED
  BY <1>1, Invariance, PTL DEF Spec, HourlyOnce

-----------------------------------------------------------------------------
(* The engine implements PriceLedger.                                      *)
LEMMA LedgerInit == Init => Ledger!Init
BY DEF Init, Ledger!Init, Ledger!Nobody

(* What is not about the pending batch is nothing to the ledger.           *)
LEMMA SameLedger ==
  ASSUME head' = head,
         head.pending # 0 => batch'[head.pending] = batch[head.pending]
                             /\ via'[head.pending] = via[head.pending]
  PROVE  UNCHANGED Ledger!vars
BY DEF Ledger!vars

(* Sealing announces, from the reference and with nobody told yet.         *)
LEMMA SealAnnounces ==
  ASSUME IInv, Seal
  PROVE  Ledger!Announce
<1> DEFINE b == proc.id
           open == [f \in {"before", "after", "parts"} |-> batch[b][f]]
<1>1. /\ head' = [head EXCEPT !.pending = b] /\ head.pending = 0 /\ b \in Ids /\ b # 0
      /\ batch[b].before = head.ref /\ Untold(b)
      /\ UNCHANGED <<batch, via>>
  BY PriceAssumption DEF Seal, At, IInv, Batched, Engaged, Ids, store
<1>2. head'.pending = b /\ head'.ref = head.ref
  BY <1>1 DEF IInv, TypeOK
<1>3. batch[b] \in Batch
  BY <1>1 DEF IInv, TypeOK, Batch
<1>4. open \in Ledger!Batches /\ open.before = head.ref
  BY <1>1, <1>3 DEF Batch, Ledger!Batches
<1>5. \A a \in Accounts : Len(via[b][a]) = 0
  BY <1>1 DEF Untold
<1> HIDE DEF open, b
<1>6. (IF head.pending = 0 THEN None
       ELSE [f \in {"before", "after", "parts"} |-> batch[head.pending][f]])' = open
  BY <1>1, <1>2 DEF open
<1>7. [a \in Accounts |-> IF head.pending = 0 THEN 0 ELSE Len(via[head.pending][a])]'
       = [a \in Accounts |-> IF head.pending = 0 THEN 0 ELSE Len(via[head.pending][a])]
  BY <1>1, <1>2, <1>5
<1> QED
  BY <1>1, <1>2, <1>4, <1>6, <1>7 DEF Ledger!Announce

(* An accepted message tells one who had not been told.                    *)
LEMMA SendTells ==
  ASSUME IInv, NEW receipt \in Receipts, Send(receipt)
  PROVE  [Ledger!Next]_(Ledger!vars)
<1> PICK b : b = proc.id
  OBVIOUS
<1> PICK a : a = Current
  OBVIOUS
<1>1. /\ proc.pc = "wire" /\ UNCHANGED <<head, batch>>
      /\ via' = [via EXCEPT ![b][a] = Append(@, proc.wire)] \/ via' = via
  BY DEF Send, At, store
<1>2. /\ b \in Ids /\ a \in Accounts /\ a \in batch[b].parts /\ head.pending = b /\ b # 0
      /\ proc.wire \in Routes /\ via[b][a] = <<>> /\ batch[b] \in Batch
  BY SMTT(30), <1>1, Midway, PriceAssumption DEF IInv, TypeOK, Delivering, Batch, Ids
<1>3. CASE via' = via
  BY <1>1, <1>3, SameLedger
<1>4. CASE via' = [via EXCEPT ![b][a] = Append(@, proc.wire)]
  <2> DEFINE open == [f \in {"before", "after", "parts"} |-> batch[b][f]]
             told == [c \in Accounts |-> Len(via[b][c])]
  <2>1. open # None /\ open.parts = batch[b].parts
    BY <1>2, PriceAssumption DEF Batch
  <2>2. /\ via'[b][a] = <<proc.wire>>
        /\ \A c \in Accounts \ {a} : via'[b][c] = via[b][c]
    BY <1>2, <1>4 DEF IInv, TypeOK
  <2>3. /\ Len(via'[b][a]) = 1 /\ Len(via[b][a]) = 0
        /\ \A c \in Accounts \ {a} : Len(via'[b][c]) = Len(via[b][c])
    BY <1>2, <2>2
  <2>4. told[a] = 0 /\ [c \in Accounts |-> Len(via'[b][c])] = [told EXCEPT ![a] = 1]
    BY <1>2, <2>3
  <2>5. /\ open = IF head.pending = 0 THEN None
                  ELSE [f \in {"before", "after", "parts"} |-> batch[head.pending][f]]
        /\ told = [c \in Accounts |-> IF head.pending = 0 THEN 0 ELSE Len(via[head.pending][c])]
        /\ [c \in Accounts |-> Len(via'[b][c])]
             = [c \in Accounts |-> IF head.pending = 0 THEN 0 ELSE Len(via[head.pending][c])]'
    BY <1>1, <1>2
  <2> HIDE DEF open, told
  <2>6. Ledger!Tell(a)
    BY <1>1, <1>2, <2>1, <2>4, <2>5 DEF Ledger!Tell
  <2> QED
    BY <1>2, <2>6 DEF Ledger!Next
<1> QED
  BY <1>1, <1>3, <1>4

(* The reference moves when every party to the batch was told.             *)
LEMMA CommitAdvances ==
  ASSUME IInv, CommitHead
  PROVE  Ledger!Advance
<1> DEFINE b == proc.id
           open == [f \in {"before", "after", "parts"} |-> batch[b][f]]
           told == [c \in Accounts |-> Len(via[b][c])]
<1>1. /\ b \in Ids /\ b # 0 /\ head.pending = b /\ Accepted(b)
      /\ head' = [ref |-> batch[b].after, pending |-> 0, last |-> b]
  BY PriceAssumption DEF CommitHead, At, IInv, Batched, Engaged, Ids
<1>2. batch[b] \in Batch /\ \A a \in Accounts : via[b][a] \in Seq(Routes)
  BY <1>1 DEF IInv, TypeOK, Batch
<1>3. open # None /\ open.parts = batch[b].parts /\ open.after = batch[b].after
  BY <1>2, PriceAssumption DEF Batch
<1>4. \A a \in batch[b].parts : a \in Accounts /\ via[b][a] # <<>>
  BY <1>1, <1>2 DEF IInv, Told, Accepted, Batch
<1>5. \A a \in batch[b].parts : told[a] # 0
  <2>1. \A a \in Accounts : via[b][a] # <<>> => Len(via[b][a]) # 0
    BY <1>2
  <2> QED
    BY <1>4, <2>1
<1>6. /\ open = IF head.pending = 0 THEN None
                ELSE [f \in {"before", "after", "parts"} |-> batch[head.pending][f]]
      /\ told = [c \in Accounts |-> IF head.pending = 0 THEN 0 ELSE Len(via[head.pending][c])]
      /\ [c \in Accounts |-> IF head.pending = 0 THEN 0 ELSE Len(via[head.pending][c])]'
           = Ledger!Nobody
  BY <1>1 DEF Ledger!Nobody
<1> HIDE DEF open, told
<1>7. (IF head.pending = 0 THEN None
       ELSE [f \in {"before", "after", "parts"} |-> batch[head.pending][f]])' = None
  BY <1>1
<1> QED
  BY <1>1, <1>3, <1>5, <1>6, <1>7 DEF Ledger!Advance

(* Every behaviour of the engine is one of PriceLedger: nobody is told     *)
(* twice of a batch, and the reference moves only when all have been told. *)
THEOREM PromiseKept == Spec => KeepsLedger
<1>1. IInv /\ [Next]_vars => [Ledger!Next]_(Ledger!vars)
  <2> SUFFICES ASSUME IInv, [Next]_vars PROVE [Ledger!Next]_(Ledger!vars)
    OBVIOUS
  <2>1. CASE Seal
    BY <2>1, SealAnnounces DEF Ledger!Next
  <2>2. CASE \E receipt \in Receipts : Send(receipt)
    BY <2>2, SendTells
  <2>3. CASE CommitHead
    BY <2>3, CommitAdvances DEF Ledger!Next
  <2>4. ASSUME NEW list \in Lists, NEW h \in Hours, NEW parts \in SUBSET Accounts,
               Observe(list, h, parts)
        PROVE  UNCHANGED Ledger!vars
    <3>1. head' = head /\ head.pending = 0
      BY <2>4 DEF Observe
    <3> QED
      BY <3>1, SameLedger
  <2>5. CASE \/ UNCHANGED vars \/ \E r \in Routes : Reroute(r)
             \/ Start \/ Connect \/ Resume \/ Compare \/ Bind \/ Stage \/ MarkInFlight \/ Record \/ Note
             \/ Delivered \/ CommitProof \/ Stop
    <3>1. UNCHANGED <<head, batch, via>>
      BY <2>5 DEF vars, Start, Connect, Resume, Compare, Bind, Stage, MarkInFlight, Record, Note,
             Delivered, CommitProof, Stop, Reroute, store
    <3> QED
      BY <3>1, SameLedger
  <2> QED
    BY <2>1, <2>2, <2>3, <2>4, <2>5 DEF Next, RunStep
<1> QED
  BY <1>1, LedgerInit, Invariance, PTL DEF Spec, KeepsLedger, Ledger!Spec
=============================================================================
