------------------------- MODULE SlowReport_proofs -------------------------
(* For any accounts, contents and routes and any number of generations and *)
(* runs: what a death leaves is never taken for a tampered batch, a phase  *)
(* goes by one route, and the runner over its files keeps the promise of   *)
(* ReportLedger.                                                           *)
EXTENDS SlowReport, WellFoundedInduction, TLAPS

Sending == {"stage", "next", "wire", "record"}
Retriable == {"not_attempted", "failed"}

(* A generation the head has not come to has left nothing anywhere.        *)
Ahead(c, d) == c > head.content \/ (c = head.content /\ d > head.again)
Unused ==
    /\ \A c \in Contents, p \in Phases : c > head.content =>
         batch[c][p] = Missing /\ bound[c][p] = Missing
    /\ \A c \in Contents, d \in Agains, p \in Phases : Ahead(c, d) =>
         /\ via[c][d][p] = {}
         /\ \A a \in Accounts : entry[c][d][p][a] = Untouched /\ told[c][d][p][a] = <<>>

(* The report of a phase is the one the head knows and the one that was    *)
(* bound, which is never touched again.                                    *)
Reported(p) ==
    /\ Batch(p) = Missing
         \/ Batch(p) \in [version : Versions, route : Routes, status : {"prepared", "published"}]
    /\ Loads(p)
    /\ bound[head.content][p] # Missing =>
         bound[head.content][p] = Batch(p) /\ Batch(p).status = "published"
    /\ Attempted(p) => bound[head.content][p] # Missing

(* The manifests of a phase agree, its messages went by their route, and   *)
(* the entry knows who was told, unless the outcome is in doubt.           *)
Agreed(c, d, p) ==
    /\ \A a, b \in Accounts :
         entry[c][d][p][a].route # None /\ entry[c][d][p][b].route # None =>
           entry[c][d][p][a].route = entry[c][d][p][b].route
    /\ \A r \in via[c][d][p] : \E a \in Accounts : entry[c][d][p][a].route = r
    /\ \A a \in Accounts :
         /\ entry[c][d][p][a].status \in Retriable => told[c][d][p][a] = <<>>
         /\ entry[c][d][p][a].status = "provider_accepted" => told[c][d][p][a] # <<>>

(* Where a run is, and what is on file of its phase by then.               *)
Phased ==
    /\ proc.pc # "idle" => proc.asked \in Routes
    /\ proc.pc \notin {"idle", "connect"} /\ proc.send => proc.wire \in Routes
    /\ proc.pc \in {"idle", "connect", "load"} => proc.phase = "weekly"
    /\ proc.pc \in {"record_prepared", "publish"} => Batch(proc.phase).status = "prepared"
    /\ proc.pc \in {"record_published", "bind", "deliver"} \cup Sending =>
         Batch(proc.phase).status = "published"
    /\ proc.pc \in {"deliver"} \cup Sending =>
         bound[head.content][proc.phase] = Batch(proc.phase)
    /\ proc.phase = "monthly" =>
         Batch("weekly").status = "published" /\ (proc.send => PhaseComplete("weekly"))

(* How far a delivery is: who is left was never told of this report.       *)
Delivering ==
    /\ proc.pc \in Sending =>
         /\ proc.send /\ Batch(proc.phase).route = proc.asked
         /\ \A a \in Accounts : Entry(proc.phase)[a].route \in {None, proc.wire}
    /\ proc.pc = "stage" => \A a \in proc.todo : Entry(proc.phase)[a].status \in Retriable
    /\ proc.pc \in Sending \ {"stage"} =>
         /\ proc.todo # {} /\ Entry(proc.phase)[Current].route = proc.wire
         /\ \A a \in proc.todo \ {Current} : Entry(proc.phase)[a].status \in Retriable
    /\ proc.pc = "next" => Entry(proc.phase)[Current].status \in Retriable
    /\ proc.pc \in {"wire", "record"} => Entry(proc.phase)[Current].status = "in_flight"
    /\ proc.pc = "wire" => told[head.content][head.again][proc.phase][Current] = <<>>
    /\ proc.pc = "record" =>
         /\ proc.resp = "failed" => told[head.content][head.again][proc.phase][Current] = <<>>
         /\ proc.resp = "provider_accepted" =>
              told[head.content][head.again][proc.phase][Current] # <<>>

IInv ==
    /\ TypeOK /\ Unused /\ Phased /\ Delivering
    /\ \A p \in Phases : Reported(p)
    /\ \A c \in Contents, d \in Agains, p \in Phases : Agreed(c, d, p)

-----------------------------------------------------------------------------
(* Whoever is left, one of them is the next in the order of the plan.      *)
LEMMA Least ==
  ASSUME NEW S \in SUBSET Nat, S # {}
  PROVE  \E x \in S : \A y \in S : x <= y
<1> DEFINE R == {ss \in Nat \X Nat : ss[1] < ss[2]}
<1>1. IsWellFoundedOn(R, Nat)
  BY NatLessThanWellFounded DEF OpToRel
<1> HIDE DEF R
<1>2. PICK x \in S : \A y \in S : <<y, x>> \notin R
  BY <1>1, WFMin
<1>3. \A y \in S : x \in Nat /\ y \in Nat
  OBVIOUS
<1>4. \A y \in S : ~(y < x)
  BY <1>2, <1>3 DEF R
<1>5. \A y \in S : x <= y
  BY <1>3, <1>4
<1> QED
  BY <1>5

LEMMA CurrentIsLeft ==
  ASSUME TypeOK, proc.todo # {}
  PROVE  Current \in proc.todo /\ Current \in Accounts
<1> DEFINE S == proc.todo
<1>1. S \in SUBSET Nat /\ S \subseteq Accounts
  BY SlowReportAssumption DEF TypeOK
<1>2. \E x \in S : \A y \in S : x <= y
  BY <1>1, Least
<1>3. Current = CHOOSE x \in S : \A y \in S : x <= y
  BY DEF Current
<1> HIDE DEF S
<1>4. Current \in S
  BY <1>2, <1>3
<1> QED
  BY <1>1, <1>4 DEF S

(* The parts of the state and their types, and steps that write little.    *)
Process == [pc : PCs, mode : Modes, asked : Routes \cup {None}, wire : Routes \cup {None},
            send : BOOLEAN, phase : Phases, todo : SUBSET Accounts, resp : Receipts]
Heads == [made : BOOLEAN, content : Contents, again : Agains, phases : [Phases -> Batches]]

LEMMA Over ==
  ASSUME TypeOK, proc' = Idle
  PROVE  proc' \in Process /\ proc'.pc = "idle" /\ proc'.phase = "weekly"
BY SlowReportAssumption DEF TypeOK, Process, Idle, PCs, Receipts, Phases, Modes

LEMMA Goes ==
  ASSUME TypeOK, NEW pc \in PCs, proc' = [proc EXCEPT !.pc = pc]
  PROVE  /\ proc' \in Process /\ proc'.pc = pc /\ proc'.mode = proc.mode
         /\ proc'.asked = proc.asked /\ proc'.wire = proc.wire /\ proc'.send = proc.send
         /\ proc'.phase = proc.phase /\ proc'.todo = proc.todo /\ proc'.resp = proc.resp
         /\ Current' = Current
BY DEF TypeOK, Process, Current

(* A step that leaves the files alone leaves true what is said of them.    *)
Filed ==
    /\ Unused
    /\ \A p \in Phases : Reported(p)
    /\ \A c \in Contents, d \in Agains, p \in Phases : Agreed(c, d, p)

LEMMA SameFiles ==
  ASSUME UNCHANGED <<store, progress, history>>
  PROVE  /\ UNCHANGED <<head, batch, bound, entry, uploaded, told, via>>
         /\ \A p \in Phases : Batch(p)' = Batch(p) /\ Entry(p)' = Entry(p)
         /\ \A p \in Phases : PhaseComplete(p)' = PhaseComplete(p)
BY DEF store, progress, history, Batch, Entry, PhaseComplete

LEMMA FilesAlone ==
  ASSUME IInv, UNCHANGED <<store, progress, history>>
  PROVE  Filed'
<1>1. UNCHANGED <<head, batch, bound, entry, uploaded, told, via>>
  BY DEF store, progress, history
<1>2. Unused'
  BY <1>1 DEF IInv, Unused, Ahead
<1>3. \A p \in Phases : Reported(p)'
  BY <1>1 DEF IInv, Reported, Batch, Loads, Attempted, Entry
<1>4. \A c \in Contents, d \in Agains, p \in Phases : Agreed(c, d, p)'
  BY <1>1 DEF IInv, Agreed
<1> QED
  BY <1>2, <1>3, <1>4 DEF Filed

(* A run that is over has nothing to keep.                                 *)
LEMMA StopKeeps ==
  ASSUME IInv, Stop
  PROVE  IInv'
<1>1. proc' = Idle /\ UNCHANGED <<act, runs, store, progress, history>>
  BY DEF Stop
<1>2. proc' \in Process /\ proc'.pc = "idle" /\ proc'.phase = "weekly"
  BY <1>1, Over DEF IInv
<1>3. TypeOK'
  BY <1>1, <1>2 DEF IInv, TypeOK, Process, store, progress, history
<1>4. Phased' /\ Delivering'
  BY <1>2 DEF Phased, Delivering, Sending
<1> QED
  BY <1>1, <1>3, <1>4, FilesAlone DEF IInv, Filed

LEMMA EditKeeps ==
  ASSUME IInv, NEW r \in Routes, NEW s \in BOOLEAN, Edit(r, s)
  PROVE  IInv'
<1>1. act' = [route |-> r, send |-> s] /\ UNCHANGED <<runs, proc, store, progress, history>>
  BY DEF Edit
<1>2. TypeOK'
  BY <1>1 DEF IInv, TypeOK, store, progress, history
<1>3. Phased' /\ Delivering'
  <2>1. UNCHANGED <<head, batch, bound, entry, told>> /\ proc' = proc /\ Current' = Current
    BY <1>1 DEF store, progress, history, Current
  <2>2. Phased'
    BY SMTT(30), <2>1 DEF IInv, Phased, Batch, PhaseComplete, Entry
  <2>3. Delivering'
    BY <2>1 DEF IInv, Delivering, Batch, Entry
  <2> QED
    BY <2>2, <2>3
<1> QED
  BY <1>1, <1>2, <1>3, FilesAlone DEF IInv, Filed

LEMMA StartKeeps ==
  ASSUME IInv, NEW mode \in Modes, Start(mode)
  PROVE  IInv'
<1>1. /\ proc' = [Idle EXCEPT !.pc = "connect", !.mode = mode, !.asked = act.route,
                              !.send = act.send]
      /\ runs' = runs + 1 /\ runs < MaxRuns
      /\ UNCHANGED <<act, store, progress, history>>
  BY DEF Start
<1>2. proc' \in Process /\ proc'.pc = "connect" /\ proc'.asked \in Routes
      /\ proc'.phase = "weekly"
  <2>1. act.route \in Routes /\ act.send \in BOOLEAN /\ "connect" \in PCs
        /\ "unknown" \in Receipts /\ "weekly" \in Phases
    BY DEF IInv, TypeOK, PCs, Receipts, Phases
  <2> QED
    BY <1>1, <2>1 DEF Process, Idle
<1>3. runs' \in 0..MaxRuns
  BY <1>1, SlowReportAssumption DEF IInv, TypeOK
<1>4. TypeOK'
  BY <1>1, <1>2, <1>3 DEF IInv, TypeOK, Process, store, progress, history
<1>5. Phased' /\ Delivering'
  BY <1>2 DEF Phased, Delivering, Sending
<1> QED
  BY <1>1, <1>4, <1>5, FilesAlone DEF IInv, Filed

LEMMA ConnectKeeps ==
  ASSUME IInv, Connect
  PROVE  IInv'
<1> DEFINE w == IF proc.send THEN act.route ELSE None
<1>1. /\ proc' = [proc EXCEPT !.pc = "load", !.wire = w] /\ proc.pc = "connect"
      /\ UNCHANGED <<act, runs, store, progress, history>>
  BY DEF Connect, At
<1>2. w \in Routes \cup {None} /\ (proc.send => w \in Routes)
  BY DEF IInv, TypeOK
<1> HIDE DEF w
<1>3. /\ proc' \in Process /\ proc'.pc = "load" /\ proc'.wire = w
      /\ proc'.asked = proc.asked /\ proc'.send = proc.send /\ proc'.phase = proc.phase
  BY <1>1, <1>2 DEF IInv, TypeOK, Process, PCs
<1>4. TypeOK'
  BY <1>1, <1>3 DEF IInv, TypeOK, Process, store, progress, history
<1>5. Phased' /\ Delivering'
  BY <1>1, <1>2, <1>3 DEF IInv, Phased, Delivering, Sending
<1> QED
  BY <1>1, <1>4, <1>5, FilesAlone DEF IInv, Filed

(* A phase that is taken up is prepared, one found published goes on to be *)
(* bound.                                                                  *)
LEMMA TakeUpKeeps ==
  ASSUME IInv, TakeUp \/ Published
  PROVE  IInv'
<1>1. PICK pc : \/ pc = "publish" /\ Batch(proc.phase).status = "prepared" /\ Goto("publish")
                \/ pc = "bind" /\ Batch(proc.phase).status = "published" /\ Goto("bind")
  BY DEF TakeUp, Published
<1>2. proc.pc = "phase" /\ UNCHANGED <<act, runs, store, progress, history>>
  BY DEF TakeUp, Published, At
<1>3. pc \in PCs /\ proc' = [proc EXCEPT !.pc = pc]
  BY <1>1 DEF PCs, Goto
<1>4. /\ proc' \in Process /\ proc'.pc = pc /\ proc'.phase = proc.phase
      /\ proc'.asked = proc.asked /\ proc'.wire = proc.wire /\ proc'.send = proc.send
  BY <1>3, Goes DEF IInv
<1>5. TypeOK'
  BY <1>2, <1>4 DEF IInv, TypeOK, Process, store, progress, history
<1>6. Phased'
  BY <1>1, <1>2, <1>4, SameFiles DEF IInv, TypeOK, Phased, Sending, Phases
<1>7. Delivering'
  BY <1>1, <1>4 DEF Delivering, Sending
<1> QED
  BY <1>2, <1>5, <1>6, <1>7, FilesAlone DEF IInv, Filed

(* A run leaves a phase for the next one, or for its end.                  *)
LEMMA LeaveKeeps ==
  ASSUME IInv, proc.pc \in {"deliver", "stage"}, proc.send => PhaseComplete(proc.phase),
         Leave, UNCHANGED <<act, runs, store, progress, history>>
  PROVE  IInv'
<1>1. CASE proc.phase # "weekly"
  <2>1. proc' \in Process /\ proc'.pc = "idle" /\ proc'.phase = "weekly"
    BY <1>1, Over DEF IInv, Leave
  <2>2. TypeOK'
    BY <2>1 DEF IInv, TypeOK, Process, store, progress, history
  <2>3. Phased' /\ Delivering'
    BY <2>1 DEF Phased, Delivering, Sending
  <2> QED
    BY <2>2, <2>3, FilesAlone DEF IInv, Filed
<1>2. CASE proc.phase = "weekly"
  <2>1. proc' = [proc EXCEPT !.phase = "monthly", !.pc = "phase"]
    BY <1>2 DEF Leave
  <2>2. /\ proc' \in Process /\ proc'.pc = "phase" /\ proc'.phase = "monthly"
        /\ proc'.asked = proc.asked /\ proc'.wire = proc.wire /\ proc'.send = proc.send
    BY <2>1 DEF IInv, TypeOK, Process, PCs, Phases
  <2>3. TypeOK'
    BY <2>2 DEF IInv, TypeOK, Process, store, progress, history
  <2>4. Batch("weekly").status = "published" /\ (proc.send => PhaseComplete("weekly"))
    BY <1>2 DEF IInv, Phased, Sending
  <2>5. Phased'
    BY <2>2, <2>4, SameFiles DEF IInv, Phased, Sending, Phases
  <2>6. Delivering'
    BY <2>2 DEF Delivering, Sending
  <2> QED
    BY <2>3, <2>5, <2>6, FilesAlone DEF IInv, Filed
<1> QED
  BY <1>1, <1>2

LEMMA PhaseDoneKeeps ==
  ASSUME IInv, PhaseDone \/ Delivered
  PROVE  IInv'
<1>1. proc.pc \in {"deliver", "stage"} /\ Leave
      /\ UNCHANGED <<act, runs, store, progress, history>>
  BY DEF PhaseDone, Delivered, At
<1>2. proc.send => PhaseComplete(proc.phase)
  BY DEF PhaseDone, Delivered
<1> QED
  BY <1>1, <1>2, LeaveKeeps

(* Before the first message every account's outcome is clear, and its      *)
(* manifest, if there is one, is that of this run's route.                 *)
LEMMA DeliverKeeps ==
  ASSUME IInv, Deliver
  PROVE  IInv'
<1> DEFINE left == {a \in Accounts : Entry(proc.phase)[a].status # "provider_accepted"}
<1>1. /\ proc.pc = "deliver" /\ proc.send /\ Batch(proc.phase).route = proc.asked
      /\ Preflight(proc.phase) /\ proc' = [proc EXCEPT !.pc = "stage", !.todo = left]
      /\ UNCHANGED <<act, runs, store, progress, history>>
  BY DEF Deliver, At
<1>2. \A a \in Accounts : Entry(proc.phase)[a] \in Entries
  BY DEF IInv, TypeOK, Entry
<1>3. left \in SUBSET Accounts /\ \A a \in left : Entry(proc.phase)[a].status \in Retriable
  BY <1>1, <1>2 DEF Preflight, Entries, Receipts, Retriable
<1> HIDE DEF left
<1>4. /\ proc' \in Process /\ proc'.pc = "stage" /\ proc'.phase = proc.phase
      /\ proc'.todo = left
      /\ proc'.asked = proc.asked /\ proc'.wire = proc.wire /\ proc'.send = proc.send
  BY <1>1, <1>3 DEF IInv, TypeOK, Process, PCs
<1>5. TypeOK'
  BY <1>1, <1>4 DEF IInv, TypeOK, Process, store, progress, history
<1>6. proc.phase \in Phases /\ "weekly" \in Phases
  BY DEF IInv, TypeOK, Phases
<1>7. Phased'
  BY <1>1, <1>4, <1>6, SameFiles DEF IInv, Phased, Sending
<1>8. Delivering'
  <2>1. \A a \in Accounts : Entry(proc.phase)[a].route \in {None, proc.wire}
    BY <1>1 DEF Preflight
  <2> QED
    BY <1>1, <1>3, <1>4, <1>6, <2>1, SameFiles DEF Delivering, Sending
<1> QED
  BY <1>1, <1>5, <1>7, <1>8, FilesAlone DEF IInv, Filed

-----------------------------------------------------------------------------
(* The head moves.  In its own generation only what it records of a phase  *)
(* changes; a new one starts with nothing on file.                         *)
LEMMA SameGeneration ==
  ASSUME IInv, head'.content = head.content, head'.again = head.again,
         UNCHANGED <<batch, progress, history>>
  PROVE  /\ Unused'
         /\ \A c \in Contents, d \in Agains, p \in Phases : Agreed(c, d, p)'
         /\ \A p \in Phases : /\ Batch(p)' = Batch(p) /\ Entry(p)' = Entry(p)
                              /\ Attempted(p)' = Attempted(p)
                              /\ PhaseComplete(p)' = PhaseComplete(p)
<1>1. UNCHANGED <<batch, bound, entry, uploaded, told, via>>
  BY DEF progress, history
<1>2. Unused'
  BY <1>1 DEF IInv, Unused, Ahead
<1>3. \A c \in Contents, d \in Agains, p \in Phases : Agreed(c, d, p)'
  BY <1>1 DEF IInv, Agreed
<1>4. \A p \in Phases : Batch(p)' = Batch(p) /\ Entry(p)' = Entry(p)
  BY <1>1 DEF Batch, Entry
<1>5. \A p \in Phases : Attempted(p)' = Attempted(p)
  BY <1>4 DEF Attempted
<1>6. \A p \in Phases : PhaseComplete(p)' = PhaseComplete(p)
  BY <1>1, <1>4 DEF PhaseComplete
<1> QED
  BY <1>2, <1>3, <1>4, <1>5, <1>6

LEMMA ResumeKeeps ==
  ASSUME IInv, Resume
  PROVE  IInv'
<1>1. /\ proc.pc = "load" /\ Goto("phase") /\ head' = [head EXCEPT !.made = TRUE]
      /\ UNCHANGED <<act, runs, batch, progress, history>> /\ "phase" \in PCs
  BY DEF Resume, At, PCs
<1>2. /\ proc' \in Process /\ proc'.pc = "phase" /\ proc'.phase = proc.phase
      /\ proc'.asked = proc.asked /\ proc'.wire = proc.wire /\ proc'.send = proc.send
  BY <1>1, Goes DEF IInv, Goto
<1>3. head' \in Heads /\ head'.content = head.content /\ head'.again = head.again
      /\ head'.phases = head.phases
  BY <1>1 DEF IInv, TypeOK, Heads
<1>4. TypeOK'
  BY <1>1, <1>2, <1>3 DEF IInv, TypeOK, Process, Heads, progress, history
<1>5. \A p \in Phases : Reported(p)'
  BY <1>1, <1>3, SameGeneration DEF IInv, Reported, Loads, progress
<1>6. Phased'
  BY <1>1, <1>2 DEF IInv, Phased, Sending
<1>7. Delivering'
  BY <1>2 DEF Delivering, Sending
<1> QED
  BY <1>1, <1>3, <1>4, <1>5, <1>6, <1>7, SameGeneration DEF IInv

LEMMA RecordedKeeps ==
  ASSUME IInv, RecordPrepared \/ RecordPublished
  PROVE  IInv'
<1>1. PICK pc : \/ pc = "publish" /\ Batch(proc.phase).status = "prepared" /\ Goto("publish")
                \/ pc = "bind" /\ Batch(proc.phase).status = "published" /\ Goto("bind")
  BY DEF RecordPrepared, RecordPublished, IInv, Phased, At
<1>2. /\ head' = [head EXCEPT !.phases[proc.phase] = Batch(proc.phase)]
      /\ UNCHANGED <<act, runs, batch, progress, history>>
      /\ proc.pc \in {"record_prepared", "record_published", "phase"}
  BY DEF RecordPrepared, RecordPublished, Recorded, At
<1>3. pc \in PCs /\ proc' = [proc EXCEPT !.pc = pc] /\ pc \in {"publish", "bind"}
  BY <1>1 DEF PCs, Goto
<1>4. /\ proc' \in Process /\ proc'.pc = pc /\ proc'.phase = proc.phase
      /\ proc'.asked = proc.asked /\ proc'.wire = proc.wire /\ proc'.send = proc.send
  BY <1>3, Goes DEF IInv
<1>5. proc.phase \in Phases /\ "weekly" \in Phases /\ Batch(proc.phase) \in Batches
  BY DEF IInv, TypeOK, Phases, Batch
<1>6. /\ head' \in Heads /\ head'.content = head.content /\ head'.again = head.again
      /\ head'.phases[proc.phase] = Batch(proc.phase)
      /\ \A p \in Phases \ {proc.phase} : head'.phases[p] = head.phases[p]
  BY <1>2, <1>5 DEF IInv, TypeOK, Heads
<1>7. TypeOK'
  BY <1>2, <1>4, <1>6 DEF IInv, TypeOK, Process, Heads, progress, history
<1>8. bound' = bound
  BY <1>2 DEF progress
<1>9. \A p \in Phases : Batch(p)' = Batch(p) /\ Attempted(p)' = Attempted(p)
        /\ PhaseComplete(p)' = PhaseComplete(p)
  BY <1>2, <1>6, SameGeneration
<1>10. \A p \in Phases : Reported(p)'
  BY <1>5, <1>6, <1>8, <1>9 DEF IInv, Reported, Loads
<1>11. Phased'
  BY <1>1, <1>2, <1>3, <1>4, <1>5, <1>9 DEF IInv, Phased, Sending
<1>12. Delivering'
  BY <1>3, <1>4 DEF Delivering, Sending
<1> QED
  BY <1>2, <1>6, <1>7, <1>10, <1>11, <1>12, SameGeneration DEF IInv

LEMMA ForceResendKeeps ==
  ASSUME IInv, ForceResend
  PROVE  IInv'
<1>1. /\ proc.pc = "load" /\ Goto("phase") /\ head.again < MaxAgain
      /\ head' = [head EXCEPT !.again = @ + 1]
      /\ UNCHANGED <<act, runs, batch, progress, history>> /\ "phase" \in PCs
  BY DEF ForceResend, At, PCs
<1>2. /\ proc' \in Process /\ proc'.pc = "phase" /\ proc'.phase = proc.phase
      /\ proc'.asked = proc.asked /\ proc'.wire = proc.wire /\ proc'.send = proc.send
  BY <1>1, Goes DEF IInv, Goto
<1>3. head.again \in Nat /\ head.content \in Nat /\ head.again + 1 \in Agains
      /\ head.content \in Contents
  BY <1>1, SlowReportAssumption DEF IInv, TypeOK, Agains, Contents
<1>4. head' \in Heads /\ head'.content = head.content /\ head'.again = head.again + 1
      /\ head'.phases = head.phases
  BY <1>1, <1>3 DEF IInv, TypeOK, Heads
<1>5. TypeOK'
  BY <1>1, <1>2, <1>4 DEF IInv, TypeOK, Process, Heads, progress, history
<1>6. UNCHANGED <<batch, bound, entry, told, via>>
  BY <1>1 DEF progress, history
<1>7. Unused'
  <2>1. \A c \in Contents, d \in Agains : Ahead(c, d)' => Ahead(c, d)
    BY <1>3, <1>4, SlowReportAssumption DEF Ahead, Agains
  <2> QED
    BY <1>4, <1>6, <2>1 DEF IInv, Unused
<1>8. \A p \in Phases : Reported(p)'
  <2> SUFFICES ASSUME NEW p \in Phases PROVE Reported(p)'
    OBVIOUS
  <2>1. Batch(p)' = Batch(p)
    BY <1>4, <1>6 DEF Batch
  <2>2. ~Attempted(p)'
    <3>1. Ahead(head.content, head.again + 1)
      BY <1>3 DEF Ahead
    <3>2. \A a \in Accounts : entry[head.content][head.again + 1][p][a] = Untouched
      BY <1>3, <3>1 DEF IInv, Unused
    <3> QED
      BY <1>4, <1>6, <3>2 DEF Attempted, Entry, Untouched
  <2> QED
    BY <1>4, <1>6, <2>1, <2>2 DEF IInv, Reported, Loads
<1>9. \A c \in Contents, d \in Agains, p \in Phases : Agreed(c, d, p)'
  BY <1>6 DEF IInv, Agreed
<1>10. Phased'
  BY <1>1, <1>2 DEF IInv, Phased, Sending
<1>11. Delivering'
  BY <1>2 DEF Delivering, Sending
<1> QED
  BY <1>5, <1>7, <1>8, <1>9, <1>10, <1>11 DEF IInv

LEMMA RegenerateKeeps ==
  ASSUME IInv, Regenerate
  PROVE  IInv'
<1>1. /\ proc.pc = "load" /\ Goto("phase") /\ head.content < MaxContent
      /\ head' = [head EXCEPT !.content = @ + 1, !.phases = Unrecorded]
      /\ UNCHANGED <<act, runs, batch, progress, history>> /\ "phase" \in PCs
  BY DEF Regenerate, At, PCs
<1>2. /\ proc' \in Process /\ proc'.pc = "phase" /\ proc'.phase = proc.phase
      /\ proc'.asked = proc.asked /\ proc'.wire = proc.wire /\ proc'.send = proc.send
  BY <1>1, Goes DEF IInv, Goto
<1>3. head.content \in Nat /\ head.content + 1 \in Contents /\ head.again \in Agains
  BY <1>1, SlowReportAssumption DEF IInv, TypeOK, Contents
<1>4. Unrecorded \in [Phases -> Batches]
  BY DEF Unrecorded, Missing, Batches
<1>5. head' \in Heads /\ head'.content = head.content + 1 /\ head'.again = head.again
      /\ head'.phases = Unrecorded
  BY <1>1, <1>3, <1>4 DEF IInv, TypeOK, Heads
<1>6. TypeOK'
  BY <1>1, <1>2, <1>5 DEF IInv, TypeOK, Process, Heads, progress, history
<1>7. UNCHANGED <<batch, bound, entry, told, via>>
  BY <1>1 DEF progress, history
<1>8. Unused'
  <2>1. \A c \in Contents, d \in Agains : Ahead(c, d)' => Ahead(c, d)
    BY <1>3, <1>5, SlowReportAssumption DEF Ahead, Contents
  <2>2. \A c \in Contents : c > head'.content => c > head.content
    BY <1>3, <1>5, SlowReportAssumption DEF Contents
  <2> QED
    BY <1>7, <2>1, <2>2 DEF IInv, Unused
<1>9. \A p \in Phases : Reported(p)'
  <2> SUFFICES ASSUME NEW p \in Phases PROVE Reported(p)'
    OBVIOUS
  <2>1. Ahead(head.content + 1, head.again) /\ head.content + 1 > head.content
    BY <1>3 DEF Ahead
  <2>2. batch[head.content + 1][p] = Missing /\ bound[head.content + 1][p] = Missing
        /\ \A a \in Accounts : entry[head.content + 1][head.again][p][a] = Untouched
    BY <1>3, <2>1 DEF IInv, Unused
  <2> QED
    BY <1>5, <1>7, <2>2 DEF Reported, Loads, Attempted, Entry, Batch, Untouched, Unrecorded
<1>10. \A c \in Contents, d \in Agains, p \in Phases : Agreed(c, d, p)'
  BY <1>7 DEF IInv, Agreed
<1>11. Phased'
  BY <1>1, <1>2 DEF IInv, Phased, Sending
<1>12. Delivering'
  BY <1>2 DEF Delivering, Sending
<1> QED
  BY <1>6, <1>8, <1>9, <1>10, <1>11, <1>12 DEF IInv

-----------------------------------------------------------------------------
(* The report of a phase is made and published, and nothing of any other.  *)
LEMMA OneBatch ==
  ASSUME IInv, NEW f, f = proc.phase, NEW x \in Batches, proc' \in Process,
         batch' = [batch EXCEPT ![head.content][f] = x],
         UNCHANGED <<act, runs, head, progress, history>>
  PROVE  /\ TypeOK' /\ Unused' /\ f \in Phases
         /\ \A c \in Contents, d \in Agains, p \in Phases : Agreed(c, d, p)'
         /\ Batch(f)' = x
         /\ \A p \in Phases \ {f} :
              Batch(p)' = Batch(p) /\ PhaseComplete(p)' = PhaseComplete(p) /\ Reported(p)'
         /\ \A p \in Phases : Attempted(p)' = Attempted(p)
<1>1. UNCHANGED <<act, runs, head, bound, entry, uploaded, told, via>>
  BY DEF progress, history
<1>2. head.content \in Contents /\ f \in Phases
  BY DEF IInv, TypeOK
<1>3. /\ batch' \in [Contents -> [Phases -> Batches]] /\ batch'[head.content][f] = x
      /\ \A p \in Phases \ {f} : batch'[head.content][p] = batch[head.content][p]
      /\ \A c \in Contents : c # head.content => batch'[c] = batch[c]
  BY <1>2 DEF IInv, TypeOK
<1>4. TypeOK'
  BY <1>1, <1>3 DEF IInv, TypeOK, Process
<1>5. Unused'
  <2>1. \A c \in Contents : c > head.content => c # head.content
    BY <1>2, SlowReportAssumption DEF Contents
  <2> QED
    BY <1>1, <1>3, <2>1 DEF IInv, Unused, Ahead
<1>6. \A c \in Contents, d \in Agains, p \in Phases : Agreed(c, d, p)'
  BY <1>1 DEF IInv, Agreed
<1>7. Batch(f)' = x
  BY <1>1, <1>3 DEF Batch
<1>8. \A p \in Phases : Attempted(p)' = Attempted(p)
  BY <1>1 DEF Attempted, Entry
<1>9. ASSUME NEW p \in Phases \ {f}
      PROVE  Batch(p)' = Batch(p) /\ PhaseComplete(p)' = PhaseComplete(p) /\ Reported(p)'
  <2>1. Batch(p)' = Batch(p)
    BY <1>1, <1>3 DEF Batch
  <2>2. PhaseComplete(p)' = PhaseComplete(p)
    BY <1>1, <2>1 DEF PhaseComplete, Entry
  <2>3. Reported(p)'
    BY <1>1, <1>8, <2>1 DEF IInv, Reported, Loads
  <2> QED
    BY <2>1, <2>2, <2>3
<1> QED
  BY <1>2, <1>4, <1>5, <1>6, <1>7, <1>8, <1>9

LEMMA PrepareKeeps ==
  ASSUME IInv, NEW v \in Versions, Prepare(v)
  PROVE  IInv'
<1> PICK f : f = proc.phase
  OBVIOUS
<1> DEFINE targets == IF f = "weekly" THEN proc.asked ELSE Batch("weekly").route
           x == [version |-> v, route |-> targets, status |-> "prepared"]
<1>1. /\ proc.pc = "phase" /\ Batch(f) = Missing /\ bound[head.content][f] = Missing
      /\ batch' = [batch EXCEPT ![head.content][f] = x]
      /\ Goto("record_prepared") /\ "record_prepared" \in PCs
      /\ UNCHANGED <<act, runs, head, progress, history>>
  BY DEF Prepare, At, PCs
<1>2. f \in Phases /\ "weekly" \in Phases /\ (f # "weekly" => f = "monthly")
  BY DEF IInv, TypeOK, Phases
<1>3. targets \in Routes
  <2>1. CASE f = "weekly"
    BY <1>1, <2>1 DEF IInv, Phased
  <2>2. CASE f # "weekly"
    BY <1>2, <2>2 DEF IInv, Phased, Reported, Missing
  <2> QED
    BY <2>1, <2>2
<1> HIDE DEF targets
<1>4. x \in Batches /\ x.status = "prepared"
      /\ x \in [version : Versions, route : Routes, status : {"prepared", "published"}]
  BY <1>3 DEF Batches
<1> HIDE DEF x
<1>5. /\ proc' \in Process /\ proc'.pc = "record_prepared" /\ proc'.phase = f
      /\ proc'.asked = proc.asked /\ proc'.wire = proc.wire /\ proc'.send = proc.send
  BY <1>1, Goes DEF IInv, Goto
<1>6. /\ TypeOK' /\ Unused'
      /\ \A c \in Contents, d \in Agains, p \in Phases : Agreed(c, d, p)'
      /\ Batch(f)' = x
      /\ \A p \in Phases \ {f} :
           Batch(p)' = Batch(p) /\ PhaseComplete(p)' = PhaseComplete(p) /\ Reported(p)'
      /\ \A p \in Phases : Attempted(p)' = Attempted(p)
  BY <1>1, <1>4, <1>5, OneBatch
<1>7. Reported(f)'
  <2>1. head' = head /\ bound' = bound
    BY <1>1 DEF progress
  <2>2. head.phases[f] = Missing /\ ~Attempted(f)
    <3>1. Missing.status # "published"
      BY DEF Missing
    <3> QED
      BY <1>1, <1>2, <3>1 DEF IInv, Reported, Loads
  <2> QED
    BY <1>1, <1>2, <1>4, <1>6, <2>1, <2>2 DEF Reported, Loads
<1>8. Phased'
  BY <1>1, <1>2, <1>4, <1>5, <1>6 DEF IInv, Phased, Sending
<1>9. Delivering'
  BY <1>5 DEF Delivering, Sending
<1> QED
  BY <1>6, <1>7, <1>8, <1>9 DEF IInv

LEMMA PublishKeeps ==
  ASSUME IInv, Publish
  PROVE  IInv'
<1> PICK f : f = proc.phase
  OBVIOUS
<1> DEFINE x == [Batch(f) EXCEPT !.status = "published"]
<1>1. /\ proc.pc = "publish" /\ Goto("record_published") /\ "record_published" \in PCs
      /\ batch' = [batch EXCEPT ![head.content][f] = x]
      /\ UNCHANGED <<act, runs, head, progress, history>>
  BY DEF Publish, At, PCs, Batch
<1>2. f \in Phases /\ "weekly" \in Phases /\ Batch(f).status = "prepared"
      /\ Batch(f) \in Batches
  BY <1>1 DEF IInv, TypeOK, Phased, Phases, Batch
<1>3. /\ x \in Batches /\ x.status = "published"
      /\ Batch(f) = [x EXCEPT !.status = "prepared"]
      /\ x \in [version : Versions, route : Routes, status : {"prepared", "published"}]
  <2>1. Batch(f) \in [version : Versions, route : Routes, status : {"prepared", "published"}]
    BY <1>2 DEF IInv, Reported, Missing
  <2> QED
    BY <1>2, <2>1 DEF Batches
<1> HIDE DEF x
<1>4. /\ proc' \in Process /\ proc'.pc = "record_published" /\ proc'.phase = f
      /\ proc'.asked = proc.asked /\ proc'.wire = proc.wire /\ proc'.send = proc.send
  BY <1>1, Goes DEF IInv, Goto
<1>5. /\ TypeOK' /\ Unused'
      /\ \A c \in Contents, d \in Agains, p \in Phases : Agreed(c, d, p)'
      /\ Batch(f)' = x
      /\ \A p \in Phases \ {f} :
           Batch(p)' = Batch(p) /\ PhaseComplete(p)' = PhaseComplete(p) /\ Reported(p)'
      /\ \A p \in Phases : Attempted(p)' = Attempted(p)
  BY ZenonT(60), <1>1, <1>3, <1>4, OneBatch
<1>6. Reported(f)'
  <2>1. head' = head /\ bound' = bound
    BY <1>1 DEF progress
  <2>2. /\ head.phases[f] = Missing \/ head.phases[f] = Batch(f)
        /\ bound[head.content][f] = Missing /\ ~Attempted(f)
    BY <1>2 DEF IInv, Reported, Loads
  <2> QED
    BY <1>2, <1>3, <1>5, <2>1, <2>2 DEF Reported, Loads
<1>7. Phased'
  BY <1>1, <1>2, <1>3, <1>4, <1>5 DEF IInv, Phased, Sending
<1>8. Delivering'
  BY <1>4 DEF Delivering, Sending
<1> QED
  BY <1>5, <1>6, <1>7, <1>8 DEF IInv

LEMMA BindKeeps ==
  ASSUME IInv, Bind
  PROVE  IInv'
<1> PICK f : f = proc.phase
  OBVIOUS
<1>1. /\ proc.pc = "bind" /\ Goto("deliver") /\ "deliver" \in PCs
      /\ UNCHANGED <<act, runs, store, entry, uploaded, history>>
  BY DEF Bind, At, PCs
<1>2. /\ f \in Phases /\ "weekly" \in Phases /\ Batch(f).status = "published"
      /\ Batch(f) \in Batches /\ head.content \in Contents
  BY <1>1 DEF IInv, TypeOK, Phased, Phases, Batch
<1>3. bound[head.content][f] = Missing \/ bound[head.content][f] = Batch(f)
  BY DEF Bind
<1>4. bound' = [bound EXCEPT ![head.content][f] = Batch(f)]
  <2>1. CASE UNCHANGED bound /\ bound[head.content][f] = Batch(f)
    BY <1>2, <2>1 DEF IInv, TypeOK
  <2>2. CASE bound' = [bound EXCEPT ![head.content][f] = Batch(f)]
    BY <2>2
  <2> QED
    BY <2>1, <2>2 DEF Bind
<1>5. /\ bound' \in [Contents -> [Phases -> Batches]]
      /\ bound'[head.content][f] = Batch(f)
      /\ \A p \in Phases \ {f} : bound'[head.content][p] = bound[head.content][p]
      /\ \A c \in Contents : c # head.content => bound'[c] = bound[c]
  BY <1>2, <1>4 DEF IInv, TypeOK
<1>6. /\ proc' \in Process /\ proc'.pc = "deliver" /\ proc'.phase = f
      /\ proc'.asked = proc.asked /\ proc'.wire = proc.wire /\ proc'.send = proc.send
  BY <1>1, Goes DEF IInv, Goto
<1>7. UNCHANGED <<head, batch, entry, uploaded, told, via>>
  BY <1>1 DEF store, history
<1>8. TypeOK'
  BY <1>1, <1>5, <1>6, <1>7 DEF IInv, TypeOK, Process
<1>9. Unused'
  <2>1. \A c \in Contents : c > head.content => c # head.content
    BY <1>2, SlowReportAssumption DEF Contents
  <2> QED
    BY <1>5, <1>7, <2>1 DEF IInv, Unused, Ahead
<1>10. \A p \in Phases : Batch(p)' = Batch(p) /\ Attempted(p)' = Attempted(p)
         /\ Loads(p)' = Loads(p) /\ Entry(p)' = Entry(p)
  BY <1>7 DEF Batch, Attempted, Entry, Loads
<1>11. \A p \in Phases : Reported(p)'
  <2> SUFFICES ASSUME NEW p \in Phases PROVE Reported(p)'
    OBVIOUS
  <2>1. CASE p = f
    BY <1>2, <1>5, <1>7, <1>10, <2>1 DEF IInv, Reported, Missing
  <2>2. CASE p # f
    BY <1>5, <1>7, <1>10, <2>2 DEF IInv, Reported
  <2> QED
    BY <2>1, <2>2
<1>12. \A c \in Contents, d \in Agains, p \in Phases : Agreed(c, d, p)'
  BY <1>7 DEF IInv, Agreed
<1>13. Phased'
  <2>1. f = "monthly" /\ proc.send => PhaseComplete("weekly")'
    BY <1>2, <1>5, <1>7, <1>10 DEF IInv, Phased, PhaseComplete
  <2> QED
    BY <1>1, <1>2, <1>5, <1>6, <1>7, <1>10, <2>1 DEF IInv, Phased, Sending
<1>14. Delivering'
  BY <1>6 DEF Delivering, Sending
<1> QED
  BY <1>8, <1>9, <1>11, <1>12, <1>13, <1>14 DEF IInv

-----------------------------------------------------------------------------
(* The delivery.  One entry of the head's generation and the run's phase   *)
(* is written, with the run's route and a status that is true of what the  *)
(* account was told.                                                       *)
LEMMA OneEntry ==
  ASSUME IInv, proc' \in Process, uploaded' \in BOOLEAN,
         NEW c, c = head.content, NEW d, d = head.again, NEW f, f = proc.phase,
         NEW a \in Accounts, NEW e \in Entries, NEW w \in Routes, e.route = w,
         a = Current, SetEntry(e),
         UNCHANGED <<act, runs, store, bound, history>>,
         proc.pc \in Sending,
         \A b \in Accounts : Entry(f)[b].route \in {None, w},
         e.status \in Retriable => told[c][d][f][a] = <<>>,
         e.status = "provider_accepted" => told[c][d][f][a] # <<>>
  PROVE  /\ TypeOK' /\ Unused' /\ f \in Phases
         /\ \A p \in Phases : Reported(p)' /\ Batch(p)' = Batch(p)
         /\ \A g \in Contents, h \in Agains, p \in Phases : Agreed(g, h, p)'
         /\ \A p \in Phases \ {f} : PhaseComplete(p)' = PhaseComplete(p)
         /\ Entry(f)'[a] = e
         /\ \A b \in Accounts \ {a} : Entry(f)'[b] = Entry(f)[b]
<1>1. UNCHANGED <<act, runs, head, batch, bound, told, via>>
  BY DEF store, history
<1>2. c \in Contents /\ d \in Agains /\ f \in Phases
  BY DEF IInv, TypeOK
<1> DEFINE AllEntries == [Contents -> [Agains -> [Phases -> [Accounts -> Entries]]]]
<1>0. entry' \in AllEntries
  BY <1>2 DEF IInv, TypeOK, SetEntry
<1> HIDE DEF AllEntries
<1>3. /\ entry'[c][d][f][a] = e
      /\ \A b \in Accounts \ {a} : entry'[c][d][f][b] = entry[c][d][f][b]
  BY <1>2 DEF IInv, TypeOK, SetEntry
<1>13. \A g \in Contents, h \in Agains, p \in Phases :
         g # c \/ h # d \/ p # f => entry'[g][h][p] = entry[g][h][p]
  BY <1>2 DEF IInv, TypeOK, SetEntry
<1>4. TypeOK'
  BY <1>0, <1>1 DEF IInv, TypeOK, Process, AllEntries
<1>5. Unused'
  <2>1. \A g \in Contents, h \in Agains : Ahead(g, h) => g # c \/ h # d
    BY SMTT(30), <1>2, SlowReportAssumption DEF Ahead, Contents, Agains
  <2> QED
    BY <1>1, <1>13, <2>1 DEF IInv, Unused, Ahead
<1>6. /\ Entry(f)'[a] = e
      /\ \A b \in Accounts \ {a} : Entry(f)'[b] = Entry(f)[b]
      /\ \A p \in Phases \ {f} : Entry(p)' = Entry(p)
  BY <1>1, <1>2, <1>3, <1>13 DEF Entry
<1>7. \A p \in Phases : Batch(p)' = Batch(p) /\ Loads(p)' = Loads(p)
  BY <1>1 DEF Batch, Loads
<1>8. \A p \in Phases \ {f} : PhaseComplete(p)' = PhaseComplete(p) /\ Attempted(p)' = Attempted(p)
  BY <1>1, <1>6, <1>7 DEF PhaseComplete, Attempted
<1>9. bound[c][f] # Missing
  BY <1>2 DEF IInv, Phased, Missing
<1>10. \A p \in Phases : Reported(p)'
  BY <1>1, <1>7, <1>8, <1>9 DEF IInv, Reported
<1>11. Agreed(c, d, f)'
  <2>1. \A b \in Accounts : entry'[c][d][f][b].route \in {None, w}
    BY ZenonT(60), <1>3, <1>6 DEF Entry
  <2>2. \A r \in via[c][d][f] : entry'[c][d][f][a].route = r
    <3> SUFFICES ASSUME NEW r \in via[c][d][f] PROVE r = w
      BY <1>3
    <3>1. r \in Routes
      BY <1>2 DEF IInv, TypeOK
    <3>2. PICK b \in Accounts : entry[c][d][f][b].route = r
      BY SMTT(30), <1>2 DEF IInv, Agreed
    <3> QED
      BY <3>1, <3>2, SlowReportAssumption DEF Entry
  <2>3. Agreed(c, d, f)
    BY <1>2 DEF IInv
  <2>4. \A b \in Accounts : entry'[c][d][f][b].status \in Retriable => told[c][d][f][b] = <<>>
    <3> SUFFICES ASSUME NEW b \in Accounts, entry'[c][d][f][b].status \in Retriable
                 PROVE  told[c][d][f][b] = <<>>
      OBVIOUS
    <3>1. CASE b = a
      BY SMTT(30), <1>3, <3>1
    <3>2. CASE b # a
      BY ZenonT(60), <1>3, <2>3, <3>2 DEF Agreed
    <3> QED
      BY <3>1, <3>2
  <2>5. \A b \in Accounts :
          entry'[c][d][f][b].status = "provider_accepted" => told[c][d][f][b] # <<>>
    <3> SUFFICES ASSUME NEW b \in Accounts, entry'[c][d][f][b].status = "provider_accepted"
                 PROVE  told[c][d][f][b] # <<>>
      OBVIOUS
    <3>1. CASE b = a
      BY SMTT(30), <1>3, <3>1
    <3>2. CASE b # a
      BY SMTT(30), <1>3, <2>3, <3>2 DEF Agreed
    <3> QED
      BY <3>1, <3>2
  <2> QED
    BY ZenonT(60), <1>1, <2>1, <2>2, <2>4, <2>5 DEF Agreed
<1>12. \A g \in Contents, h \in Agains, p \in Phases : Agreed(g, h, p)'
  <2> SUFFICES ASSUME NEW g \in Contents, NEW h \in Agains, NEW p \in Phases,
                      g # c \/ h # d \/ p # f
               PROVE  Agreed(g, h, p)'
    BY <1>11
  <2>1. entry'[g][h][p] = entry[g][h][p]
    BY SMTT(30), <1>13
  <2> QED
    BY <1>1, <2>1 DEF IInv, Agreed
<1> QED
  BY <1>2, <1>4, <1>5, <1>6, <1>7, <1>8, <1>10, <1>12

(* Where a delivery is, for whoever is being told.                         *)
LEMMA Midway ==
  ASSUME IInv, proc.pc \in Sending
  PROVE  /\ proc.send /\ proc.wire \in Routes /\ proc.wire # None
         /\ Batch(proc.phase).status = "published" /\ Batch(proc.phase).route = proc.asked
         /\ bound[head.content][proc.phase] = Batch(proc.phase)
         /\ proc.phase \in Phases
         /\ \A a \in Accounts : /\ Entry(proc.phase)[a].route \in {None, proc.wire}
                                /\ Entry(proc.phase)[a] \in Entries
         /\ proc.todo # {} => Current \in proc.todo /\ Current \in Accounts
<1>1. TypeOK /\ Phased /\ Delivering
  BY DEF IInv
<1>2. proc.pc \notin {"idle", "connect"}
  BY DEF Sending
<1>3. /\ proc.send /\ Batch(proc.phase).route = proc.asked
      /\ \A a \in Accounts : Entry(proc.phase)[a].route \in {None, proc.wire}
  BY <1>1 DEF Delivering
<1>4. proc.wire \in Routes /\ proc.wire # None
  BY <1>1, <1>2, <1>3, SlowReportAssumption DEF Phased
<1>5. /\ Batch(proc.phase).status = "published"
      /\ bound[head.content][proc.phase] = Batch(proc.phase)
  BY <1>1 DEF Phased
<1>6. /\ proc.phase \in Phases /\ head.content \in Contents /\ head.again \in Agains
      /\ entry \in [Contents -> [Agains -> [Phases -> [Accounts -> Entries]]]]
  BY <1>1 DEF TypeOK
<1>7. \A a \in Accounts : Entry(proc.phase)[a] \in Entries
  BY <1>6 DEF Entry
<1>8. proc.todo # {} => Current \in proc.todo /\ Current \in Accounts
  BY <1>1, CurrentIsLeft
<1> QED
  BY <1>3, <1>4, <1>5, <1>6, <1>7, <1>8

(* The three writes of an account's entry.                                 *)
LEMMA StageKeeps ==
  ASSUME IInv, Stage
  PROVE  IInv'
<1> PICK c, d, f, a, w : /\ c = head.content /\ d = head.again /\ f = proc.phase
                         /\ a = Current /\ w = proc.wire
  OBVIOUS
<1>0. PICK e : e = [Entry(f)[a] EXCEPT !.route = w]
  OBVIOUS
<1>1. /\ proc.pc = "stage" /\ proc.todo # {} /\ Goto("next") /\ "next" \in PCs
      /\ SetEntry(e) /\ uploaded' \in BOOLEAN
      /\ UNCHANGED <<act, runs, store, bound, history>>
  <2>1. uploaded' \in BOOLEAN
    BY SlowReportAssumption DEF Stage, IInv, TypeOK
  <2> QED
    BY <1>0, <2>1 DEF Stage, At, PCs
<1>2. /\ a \in Accounts /\ a \in proc.todo /\ w \in Routes /\ f \in Phases
      /\ Entry(f)[a] \in Entries /\ proc.pc \in Sending
      /\ \A b \in Accounts : Entry(f)[b].route \in {None, w}
  BY <1>1, Midway DEF Sending
<1>3. e \in Entries /\ e.route = w /\ e.status = Entry(f)[a].status
  BY <1>0, <1>2 DEF Entries
<1>4. e.status \in Retriable
  BY SMTT(30), <1>1, <1>2, <1>3 DEF IInv, Delivering
<1>5. told[c][d][f][a] = <<>>
  <2>1. c \in Contents /\ d \in Agains /\ Agreed(c, d, f)
    BY <1>2 DEF IInv, TypeOK
  <2>2. entry[c][d][f][a].status \in Retriable
    BY <1>3, <1>4 DEF Entry
  <2> QED
    BY <1>2, <2>1, <2>2 DEF Agreed
<1>6. /\ proc' \in Process /\ proc'.pc = "next" /\ proc'.phase = f /\ proc'.todo = proc.todo
      /\ proc'.asked = proc.asked /\ proc'.wire = w /\ proc'.send = proc.send
      /\ Current' = a
  BY <1>1, Goes DEF IInv, Goto
<1>7. e.status # "provider_accepted"
  BY <1>4 DEF Retriable
<1>8. /\ TypeOK' /\ Unused'
      /\ \A p \in Phases : Reported(p)' /\ Batch(p)' = Batch(p)
      /\ \A g \in Contents, h \in Agains, p \in Phases : Agreed(g, h, p)'
      /\ \A p \in Phases \ {f} : PhaseComplete(p)' = PhaseComplete(p)
      /\ Entry(f)'[a] = e
      /\ \A b \in Accounts \ {a} : Entry(f)'[b] = Entry(f)[b]
  BY <1>1, <1>2, <1>3, <1>5, <1>6, <1>7, OneEntry
<1>9. Phased'
  BY <1>1, <1>2, <1>6, <1>8 DEF IInv, Phased, Sending, Phases, store
<1>10. Delivering'
  <2>1. \A b \in Accounts : Entry(f)'[b].route \in {None, w}
    BY <1>2, <1>3, <1>8
  <2>2. \A b \in proc.todo \ {a} : Entry(f)'[b].status \in Retriable
    BY <1>1, <1>8 DEF IInv, TypeOK, Delivering
  <2>3. proc.send /\ Batch(f).route = proc.asked
    BY <1>2, Midway
  <2> QED
    BY <1>1, <1>2, <1>3, <1>4, <1>6, <1>8, <2>1, <2>2, <2>3 DEF Delivering, Sending
<1> QED
  BY <1>8, <1>9, <1>10 DEF IInv

LEMMA MarkInFlightKeeps ==
  ASSUME IInv, MarkInFlight
  PROVE  IInv'
<1> PICK c, d, f, a, w : /\ c = head.content /\ d = head.again /\ f = proc.phase
                         /\ a = Current /\ w = proc.wire
  OBVIOUS
<1> PICK e : e = [status |-> "in_flight", route |-> w]
  OBVIOUS
<1>1. /\ proc.pc = "next" /\ Goto("wire") /\ "wire" \in PCs
      /\ SetEntry(e) /\ uploaded' \in BOOLEAN
      /\ UNCHANGED <<act, runs, store, bound, history>>
  <2>1. uploaded' \in BOOLEAN
    BY DEF MarkInFlight
  <2> QED
    BY <2>1 DEF MarkInFlight, At, PCs
<1>2. proc.pc \in Sending /\ proc.todo # {}
  BY <1>1 DEF IInv, Delivering, Sending
<1>3. /\ a \in Accounts /\ a \in proc.todo /\ w \in Routes /\ f \in Phases
      /\ Entry(f)[a] \in Entries
      /\ \A b \in Accounts : Entry(f)[b].route \in {None, w}
  BY <1>2, Midway
<1>4. e \in Entries /\ e.route = w /\ e.status = "in_flight" /\ e.status \notin Retriable
  BY SMTT(30), <1>3 DEF Entries, Retriable
<1>5. told[c][d][f][a] = <<>>
  BY <1>1, <1>3 DEF IInv, TypeOK, Agreed, Entry, Delivering
<1>6. /\ proc' \in Process /\ proc'.pc = "wire" /\ proc'.phase = f /\ proc'.todo = proc.todo
      /\ proc'.asked = proc.asked /\ proc'.wire = w /\ proc'.send = proc.send
      /\ Current' = a
  BY <1>1, Goes DEF IInv, Goto
<1>7. e.status # "provider_accepted"
  BY <1>4
<1>8. /\ TypeOK' /\ Unused'
      /\ \A p \in Phases : Reported(p)' /\ Batch(p)' = Batch(p)
      /\ \A g \in Contents, h \in Agains, p \in Phases : Agreed(g, h, p)'
      /\ \A p \in Phases \ {f} : PhaseComplete(p)' = PhaseComplete(p)
      /\ Entry(f)'[a] = e
      /\ \A b \in Accounts \ {a} : Entry(f)'[b] = Entry(f)[b]
  BY <1>1, <1>2, <1>3, <1>4, <1>5, <1>6, <1>7, OneEntry
<1>9. Phased'
  BY <1>1, <1>2, <1>3, <1>6, <1>8 DEF IInv, Phased, Sending, Phases, store
<1>10. Delivering'
  <2>1. \A b \in Accounts : Entry(f)'[b].route \in {None, w}
    BY <1>3, <1>4, <1>8
  <2>2. \A b \in proc.todo \ {a} : Entry(f)'[b].status \in Retriable
    BY <1>1, <1>8 DEF IInv, TypeOK, Delivering, Sending
  <2>3. proc.send /\ Batch(f).route = proc.asked
    BY <1>2, Midway
  <2>4. told'[head'.content][head'.again][f][a] = <<>>
    BY <1>1, <1>5 DEF store, history
  <2> QED
    BY <1>2, <1>3, <1>4, <1>6, <1>8, <2>1, <2>2, <2>3, <2>4 DEF Delivering, Sending
<1> QED
  BY <1>8, <1>9, <1>10 DEF IInv

LEMMA RecordKeeps ==
  ASSUME IInv, Record
  PROVE  IInv'
<1> PICK c, d, f, a, w : /\ c = head.content /\ d = head.again /\ f = proc.phase
                         /\ a = Current /\ w = proc.wire
  OBVIOUS
<1> PICK e : e = [status |-> proc.resp, route |-> w]
  OBVIOUS
<1>1. /\ proc.pc = "record" /\ SetEntry(e) /\ uploaded' \in BOOLEAN
      /\ UNCHANGED <<act, runs, store, bound, history>>
  BY DEF Record, At, IInv, TypeOK
<1>2. proc.pc \in Sending /\ proc.todo # {}
  BY <1>1 DEF IInv, Delivering, Sending
<1>3. /\ a \in Accounts /\ a \in proc.todo /\ w \in Routes /\ f \in Phases
      /\ Entry(f)[a] \in Entries
      /\ \A b \in Accounts : Entry(f)[b].route \in {None, w}
  BY <1>2, Midway
<1>4. e \in Entries /\ e.route = w /\ e.status = proc.resp
  BY <1>3 DEF IInv, TypeOK, Entries
<1>5. /\ e.status \in Retriable => told[c][d][f][a] = <<>>
      /\ e.status = "provider_accepted" => told[c][d][f][a] # <<>>
  BY <1>1, <1>4 DEF IInv, TypeOK, Delivering, Receipts, Retriable
<1>6. /\ proc' \in Process
      /\ \/ proc'.pc = "idle" /\ proc'.phase = "weekly"
         \/ /\ proc'.pc = "stage" /\ proc'.phase = f /\ proc'.todo = proc.todo \ {a}
            /\ proc'.asked = proc.asked /\ proc'.wire = w /\ proc'.send = proc.send
  <2>1. CASE proc.resp = "unknown"
    BY <2>1, Over DEF Record, IInv
  <2>2. CASE proc.resp # "unknown"
    <3> DEFINE left == proc.todo \ {a}
    <3>1. proc' = [proc EXCEPT !.pc = "stage", !.todo = left]
      BY <2>2 DEF Record
    <3>2. left \in SUBSET Accounts /\ "stage" \in PCs
      BY DEF IInv, TypeOK, PCs
    <3> HIDE DEF left
    <3>3. /\ proc' \in Process /\ proc'.pc = "stage" /\ proc'.phase = f /\ proc'.todo = left
          /\ proc'.asked = proc.asked /\ proc'.wire = w /\ proc'.send = proc.send
      BY <3>1, <3>2 DEF IInv, TypeOK, Process
    <3> QED
      BY <3>3 DEF left
  <2> QED
    BY <2>1, <2>2
<1>7. /\ TypeOK' /\ Unused'
      /\ \A p \in Phases : Reported(p)' /\ Batch(p)' = Batch(p)
      /\ \A g \in Contents, h \in Agains, p \in Phases : Agreed(g, h, p)'
      /\ \A p \in Phases \ {f} : PhaseComplete(p)' = PhaseComplete(p)
      /\ Entry(f)'[a] = e
      /\ \A b \in Accounts \ {a} : Entry(f)'[b] = Entry(f)[b]
  BY <1>1, <1>2, <1>3, <1>4, <1>5, <1>6, OneEntry
<1>8. CASE proc'.pc = "idle" /\ proc'.phase = "weekly"
  <2>1. Phased' /\ Delivering'
    BY <1>8 DEF Phased, Delivering, Sending
  <2> QED
    BY <1>7, <2>1 DEF IInv
<1>9. CASE /\ proc'.pc = "stage" /\ proc'.phase = f /\ proc'.todo = proc.todo \ {a}
           /\ proc'.asked = proc.asked /\ proc'.wire = w /\ proc'.send = proc.send
  <2>1. Phased'
    BY <1>1, <1>2, <1>3, <1>7, <1>9 DEF IInv, Phased, Sending, Phases, store
  <2>2. \A b \in Accounts : Entry(f)'[b].route \in {None, w}
    BY <1>3, <1>4, <1>7
  <2>3. \A b \in proc.todo \ {a} : Entry(f)'[b].status \in Retriable
    BY <1>1, <1>7 DEF IInv, TypeOK, Delivering, Sending
  <2>4. proc.send /\ Batch(f).route = proc.asked
    BY <1>2, Midway
  <2>5. Delivering'
    BY <1>3, <1>7, <1>9, <2>2, <2>3, <2>4 DEF Delivering, Sending
  <2> QED
    BY <1>7, <2>1, <2>5 DEF IInv
<1> QED
  BY <1>6, <1>8, <1>9

(* The provider is asked: what it may have accepted was not told before,   *)
(* and goes by the route of the account's manifest.                        *)
Texts == Seq(Versions)
Deep == [Contents -> [Agains -> [Phases -> [Accounts -> Texts]]]]
Tells(v) ==
  told' = [told EXCEPT ![head.content][head.again][proc.phase][Current] = Append(@, v)]
With(old, c, d, f, a, x) == [old EXCEPT ![c][d][f][a] = x]
And(old, c, d, f, w) == [old EXCEPT ![c][d][f] = @ \cup {w}]
Rides(w) == via' = [via EXCEPT ![head.content][head.again][proc.phase] = @ \cup {w}]

ToldOnly(new, old, c, d, f, a, x) ==
  /\ new \in Deep /\ new[c][d][f][a] = x
  /\ \A g \in Contents, h \in Agains, p \in Phases, b \in Accounts :
       g # c \/ h # d \/ p # f \/ b # a => new[g][h][p][b] = old[g][h][p][b]
Shallow == [Contents -> [Agains -> [Phases -> SUBSET Routes]]]
RoutedOnly(new, old, c, d, f, w) ==
  /\ new \in Shallow /\ new[c][d][f] = old[c][d][f] \cup {w}
  /\ \A g \in Contents, h \in Agains, p \in Phases :
       g # c \/ h # d \/ p # f => new[g][h][p] = old[g][h][p]

LEMMA Updated ==
  ASSUME NEW old \in Deep, NEW x \in Texts, NEW c \in Contents, NEW d \in Agains,
         NEW f \in Phases, NEW a \in Accounts
  PROVE  ToldOnly(With(old, c, d, f, a, x), old, c, d, f, a, x)
<1>1. With(old, c, d, f, a, x) \in Deep
  BY DEF Deep, With
<1>2. With(old, c, d, f, a, x)[c][d][f][a] = x
  BY DEF Deep, With
<1>3. \A g \in Contents, h \in Agains, p \in Phases, b \in Accounts :
        g # c \/ h # d \/ p # f \/ b # a =>
          With(old, c, d, f, a, x)[g][h][p][b] = old[g][h][p][b]
  BY DEF Deep, With
<1> QED
  BY <1>1, <1>2, <1>3 DEF ToldOnly

LEMMA Routed ==
  ASSUME NEW old \in Shallow, NEW w \in Routes, NEW c \in Contents, NEW d \in Agains,
         NEW f \in Phases
  PROVE  RoutedOnly(And(old, c, d, f, w), old, c, d, f, w)
<1>1. PICK x : x = old[c][d][f] \cup {w}
  BY ZenonT(60)
<1>2. x \in SUBSET Routes /\ And(old, c, d, f, w) = [old EXCEPT ![c][d][f] = x]
  BY <1>1 DEF Shallow, And
<1>3. And(old, c, d, f, w) \in Shallow
  BY <1>2 DEF Shallow
<1>4. And(old, c, d, f, w)[c][d][f] = x
  BY <1>2 DEF Shallow
<1>5. \A g \in Contents, h \in Agains, p \in Phases :
        g # c \/ h # d \/ p # f => And(old, c, d, f, w)[g][h][p] = old[g][h][p]
  BY <1>2 DEF Shallow
<1> QED
  BY <1>1, <1>3, <1>4, <1>5 DEF RoutedOnly

LEMMA Sent ==
  ASSUME IInv, NEW receipt \in Receipts, Send(receipt),
         NEW c, c = head.content, NEW d, d = head.again, NEW f, f = proc.phase,
         NEW a, a = Current, NEW w, w = proc.wire, NEW v, v = Batch(f).version
  PROVE  /\ proc.pc = "wire" /\ proc.pc \in Sending
         /\ UNCHANGED <<act, runs, head, batch, bound, entry, uploaded>>
         /\ c \in Contents /\ d \in Agains /\ f \in Phases /\ a \in Accounts
         /\ a \in proc.todo /\ w \in Routes /\ v \in Versions
         /\ entry[c][d][f][a].route = w /\ entry[c][d][f][a].status = "in_flight"
         /\ told[c][d][f][a] = <<>>
         /\ \/ receipt # "failed" /\ Tells(v) /\ Rides(w)
            \/ receipt # "provider_accepted" /\ told' = told /\ via' = via
<1>1. /\ proc.pc = "wire"
      /\ UNCHANGED <<act, runs, head, batch, bound, entry, uploaded>>
  BY DEF Send, At, store, progress
<1>2. proc.pc \in Sending /\ proc.todo # {}
  BY <1>1 DEF IInv, Delivering, Sending
<1>3. /\ c \in Contents /\ d \in Agains /\ f \in Phases /\ a \in Accounts
      /\ a \in proc.todo /\ w \in Routes
  BY <1>2, Midway DEF IInv, TypeOK
<1>4. v \in Versions
  <2>1. Batch(f).status = "published"
    BY <1>2, Midway
  <2>2. Missing.status # "published"
    BY DEF Missing
  <2>3. Batch(f) \in [version : Versions, route : Routes, status : {"prepared", "published"}]
    BY <1>3, <2>1, <2>2 DEF IInv, Reported
  <2> QED
    BY <2>3
<1>5. /\ entry[c][d][f][a].route = w /\ entry[c][d][f][a].status = "in_flight"
      /\ told[c][d][f][a] = <<>>
  BY ZenonT(60), <1>1 DEF IInv, Delivering, Entry, Sending
<1>6. CASE /\ receipt \in {"provider_accepted", "unknown"}
           /\ told' = [told EXCEPT ![head.content][head.again][proc.phase][Current] =
                Append(@, Batch(proc.phase).version)]
           /\ via' = [via EXCEPT ![head.content][head.again][proc.phase] =
                @ \cup {proc.wire}]
  <2>1. Tells(v) /\ Rides(w)
    BY <1>6 DEF Tells, Rides
  <2> QED
    BY ZenonT(60), <1>1, <1>2, <1>3, <1>4, <1>5, <1>6, <2>1
<1>7. CASE receipt \in {"failed", "unknown"} /\ UNCHANGED history
  <2>1. told' = told /\ via' = via
    BY <1>7 DEF history
  <2> QED
    BY <1>1, <1>2, <1>3, <1>4, <1>5, <1>7, <2>1
<1> QED
  BY ZenonT(60), <1>6, <1>7 DEF Send

LEMMA SendKeeps ==
  ASSUME IInv, NEW receipt \in Receipts, Send(receipt)
  PROVE  IInv'
<1> PICK c, d, f, a, w, v : /\ c = head.content /\ d = head.again /\ f = proc.phase
                            /\ a = Current /\ w = proc.wire /\ v = Batch(f).version
  OBVIOUS
<1>1. /\ proc.pc = "wire" /\ proc.pc \in Sending
      /\ UNCHANGED <<act, runs, head, batch, bound, entry, uploaded>>
      /\ c \in Contents /\ d \in Agains /\ f \in Phases /\ a \in Accounts
      /\ a \in proc.todo /\ w \in Routes /\ v \in Versions
      /\ entry[c][d][f][a].route = w /\ entry[c][d][f][a].status = "in_flight"
      /\ told[c][d][f][a] = <<>>
  BY Sent
<1>2. \/ receipt # "failed" /\ Tells(v) /\ Rides(w)
      \/ receipt # "provider_accepted" /\ told' = told /\ via' = via
  BY Sent
<1>3. told \in Deep /\ via \in Shallow
  BY DEF IInv, TypeOK, Deep, Texts, Shallow
<1>4. /\ told' \in Deep
      /\ \A g \in Contents, h \in Agains, p \in Phases, b \in Accounts :
           g # c \/ h # d \/ p # f \/ b # a => told'[g][h][p][b] = told[g][h][p][b]
      /\ receipt = "failed" => told'[c][d][f][a] = <<>>
      /\ receipt = "provider_accepted" => told'[c][d][f][a] # <<>>
  <2>1. CASE receipt # "failed" /\ Tells(v)
    <3>1. PICK t, n : t = <<v>> /\ n = told'
      OBVIOUS
    <3>2. t \in Texts /\ t # <<>> /\ Append(told[c][d][f][a], v) = t
      BY SMTT(30), <1>1, <3>1 DEF Texts
    <3>3. n = [told EXCEPT ![c][d][f][a] = Append(@, v)]
      BY ZenonT(60), <2>1, <3>1 DEF Tells
    <3>4. n = With(told, c, d, f, a, t)
      BY <3>2, <3>3 DEF With
    <3>5. ToldOnly(n, told, c, d, f, a, t)
      BY <1>1, <1>3, <3>2, <3>4, Updated
    <3> QED
      BY <2>1, <3>1, <3>2, <3>5 DEF ToldOnly
  <2>2. CASE receipt # "provider_accepted" /\ told' = told
    BY <1>1, <1>3, <2>2
  <2> QED
    BY SMTT(30), <1>2, <2>1, <2>2
<1>5. /\ via' \in Shallow
      /\ \A g \in Contents, h \in Agains, p \in Phases :
           g # c \/ h # d \/ p # f => via'[g][h][p] = via[g][h][p]
      /\ \A r \in via'[c][d][f] : r = w \/ r \in via[c][d][f]
  <2>1. CASE Rides(w)
    <3>1. PICK n : n = via'
      OBVIOUS
    <3>2. n = And(via, c, d, f, w)
      BY <2>1, <3>1 DEF Rides, And
    <3>3. RoutedOnly(n, via, c, d, f, w)
      BY <1>1, <1>3, <3>2, Routed
    <3> QED
      BY <3>1, <3>3 DEF RoutedOnly
  <2>2. CASE via' = via
    BY <1>3, <2>2
  <2> QED
    BY <1>2, <2>1, <2>2
<1>6. /\ proc' \in Process /\ proc'.pc = "record" /\ proc'.phase = f /\ proc'.todo = proc.todo
      /\ proc'.asked = proc.asked /\ proc'.wire = w /\ proc'.send = proc.send
      /\ proc'.resp = receipt /\ Current' = a
  <2>1. proc' = [proc EXCEPT !.pc = "record", !.resp = receipt] /\ "record" \in PCs
    BY DEF Send, PCs
  <2> QED
    BY ZenonT(60), <2>1 DEF IInv, TypeOK, Process, Current
<1>7. TypeOK'
  BY <1>1, <1>4, <1>5, <1>6 DEF IInv, TypeOK, Process, Shallow, Deep, Texts
<1>8. Unused'
  <2> SUFFICES ASSUME NEW g \in Contents, NEW h \in Agains, NEW p \in Phases, Ahead(g, h)
               PROVE  /\ via'[g][h][p] = {}
                      /\ \A b \in Accounts :
                           entry[g][h][p][b] = Untouched /\ told'[g][h][p][b] = <<>>
    BY <1>1 DEF IInv, Unused, Ahead
  <2>1. g # c \/ h # d
    BY <1>1, SlowReportAssumption DEF Ahead, Contents, Agains
  <2> QED
    BY SMTT(30), <1>4, <1>5, <2>1 DEF IInv, Unused
<1>9. \A p \in Phases : /\ Reported(p)' /\ Batch(p)' = Batch(p) /\ Entry(p)' = Entry(p)
                        /\ PhaseComplete(p)' = PhaseComplete(p)
  <2>1. \A p \in Phases : Batch(p)' = Batch(p) /\ Entry(p)' = Entry(p)
    BY <1>1 DEF Batch, Entry
  <2>2. \A p \in Phases : /\ Loads(p)' = Loads(p) /\ Attempted(p)' = Attempted(p)
                          /\ PhaseComplete(p)' = PhaseComplete(p)
    BY <1>1, <2>1 DEF Loads, Attempted, PhaseComplete
  <2> QED
    BY <1>1, <2>1, <2>2 DEF IInv, Reported
<1>10. \A g \in Contents, h \in Agains, p \in Phases : Agreed(g, h, p)'
  <2> SUFFICES ASSUME NEW g \in Contents, NEW h \in Agains, NEW p \in Phases
               PROVE  Agreed(g, h, p)'
    OBVIOUS
  <2>1. Agreed(g, h, p)
    BY DEF IInv
  <2>2. \A r \in via'[g][h][p] : \E b \in Accounts : entry[g][h][p][b].route = r
    <3>1. CASE g = c /\ h = d /\ p = f
      <4> SUFFICES ASSUME NEW r \in via'[c][d][f]
                   PROVE  \E b \in Accounts : entry[c][d][f][b].route = r
        BY <3>1
      <4>1. CASE r = w
        <5>1. a \in Accounts /\ entry[c][d][f][a].route = w
          BY SMTT(30), <1>1
        <5> QED
          BY <4>1, <5>1
      <4>2. CASE r \in via[c][d][f]
        BY <2>1, <3>1, <4>2 DEF Agreed
      <4> QED
        BY <1>5, <4>1, <4>2
    <3>2. CASE g # c \/ h # d \/ p # f
      BY <1>5, <2>1, <3>2 DEF Agreed
    <3> QED
      BY <3>1, <3>2
  <2>3. ASSUME NEW b \in Accounts, entry[g][h][p][b].status \in Retriable
        PROVE  told'[g][h][p][b] = <<>>
    <3>1. g # c \/ h # d \/ p # f \/ b # a
      BY <1>1, <2>3 DEF Retriable
    <3> QED
      BY <1>4, <2>1, <2>3, <3>1 DEF Agreed
  <2>4. ASSUME NEW b \in Accounts, entry[g][h][p][b].status = "provider_accepted"
        PROVE  told'[g][h][p][b] # <<>>
    <3>1. g # c \/ h # d \/ p # f \/ b # a
      BY <1>1, <2>4
    <3> QED
      BY <1>4, <2>1, <2>4, <3>1 DEF Agreed
  <2> QED
    BY ZenonT(60), <1>1, <2>1, <2>2, <2>3, <2>4 DEF Agreed
<1>11. proc.pc \in Sending /\ proc.send /\ Batch(f).route = proc.asked
       /\ \A b \in Accounts : Entry(f)[b].route \in {None, w}
  BY <1>1, Midway DEF Sending
<1>12. Phased'
  BY SMTT(30), <1>1, <1>6, <1>9, <1>11 DEF IInv, Phased, Sending, Phases
<1>13. Delivering'
  <2>1. \A b \in proc.todo \ {a} : Entry(f)[b].status \in Retriable
    BY <1>1 DEF IInv, TypeOK, Delivering, Sending
  <2>2. Entry(f)[a].route = w /\ Entry(f)[a].status = "in_flight"
    BY <1>1 DEF Entry
  <2>3. Entry(f)' = Entry(f) /\ Batch(f)' = Batch(f)
    BY <1>1, <1>9
  <2>4. /\ receipt = "failed" => told'[head'.content][head'.again][f][a] = <<>>
        /\ receipt = "provider_accepted" => told'[head'.content][head'.again][f][a] # <<>>
    BY <1>1, <1>4
  <2> QED
    BY <1>1, <1>6, <1>11, <2>1, <2>2, <2>3, <2>4 DEF Delivering, Sending
<1> QED
  BY <1>7, <1>8, <1>9, <1>10, <1>12, <1>13 DEF IInv

-----------------------------------------------------------------------------
LEMMA InitHolds == Init => IInv
<1> SUFFICES ASSUME Init PROVE IInv
  OBVIOUS
<1> USE SlowReportAssumption
<1>1. /\ act \in [route : Routes, send : BOOLEAN] /\ runs = 0 /\ proc = Idle
      /\ head = NoHead /\ uploaded = FALSE
      /\ \A c \in Contents, p \in Phases : batch[c][p] = Missing /\ bound[c][p] = Missing
      /\ \A c \in Contents, d \in Agains, p \in Phases :
           /\ via[c][d][p] = {}
           /\ \A a \in Accounts : entry[c][d][p][a] = Untouched /\ told[c][d][p][a] = <<>>
  BY DEF Init, Unrecorded, ForAll
<1>2. Missing \in Batches
  BY DEF Missing, Batches
<1>3. TypeOK
  <2>1. Idle \in Process
    BY DEF Idle, Process, PCs, Receipts, Modes, Phases
  <2>2. NoHead \in Heads
    BY <1>2 DEF NoHead, Heads, Unrecorded, Contents, Agains
  <2>3. /\ batch \in [Contents -> [Phases -> Batches]]
        /\ bound \in [Contents -> [Phases -> Batches]]
    BY <1>2 DEF Init, Unrecorded
  <2>4. Untouched \in Entries
    BY DEF Untouched, Entries
  <2>5. entry \in [Contents -> [Agains -> [Phases -> [Accounts -> Entries]]]]
    BY <2>4 DEF Init, ForAll
  <2>6. told \in [Contents -> [Agains -> [Phases -> [Accounts -> Seq(Versions)]]]]
    <3>1. PICK t : t = <<>>
      OBVIOUS
    <3>2. t \in Seq(Versions) /\ told = ForAll(t)
      BY <3>1 DEF Init
    <3> QED
      BY <3>2 DEF ForAll
  <2>7. via \in [Contents -> [Agains -> [Phases -> SUBSET Routes]]]
    BY DEF Init
  <2> QED
    <3>1. /\ act \in [route : Routes, send : BOOLEAN] /\ runs \in 0..MaxRuns
          /\ uploaded \in BOOLEAN /\ proc \in Process /\ head \in Heads
      <4>1. runs \in 0..MaxRuns
        BY <1>1
      <4> QED
        BY <1>1, <2>1, <2>2, <4>1
    <3> QED
      BY <2>3, <2>5, <2>6, <2>7, <3>1 DEF TypeOK, Process, Heads
<1>4. /\ proc.pc = "idle" /\ proc.phase = "weekly"
      /\ head.content \in Contents /\ head.again \in Agains
      /\ \A p \in Phases : head.phases[p] = Missing
  BY <1>1 DEF Idle, NoHead, Unrecorded, Contents, Agains
<1>5. Unused
  BY <1>1 DEF Unused
<1>6. Phased /\ Delivering
  BY <1>4 DEF Phased, Delivering, Sending
<1>7. \A p \in Phases : Reported(p)
  BY <1>1, <1>4 DEF Reported, Loads, Attempted, Batch, Entry, Untouched
<1>8. \A c \in Contents, d \in Agains, p \in Phases : Agreed(c, d, p)
  BY <1>1 DEF Agreed, Untouched
<1> QED
  BY <1>3, <1>5, <1>6, <1>7, <1>8 DEF IInv

LEMMA StutterKeeps ==
  ASSUME IInv, UNCHANGED vars
  PROVE  IInv'
<1>1. UNCHANGED <<act, runs, proc, store, progress, history>>
  BY DEF vars
<1>2. TypeOK'
  BY SMTT(30), <1>1 DEF IInv, TypeOK, store, progress, history
<1>3. UNCHANGED <<head, batch, bound, entry, told>> /\ proc' = proc /\ Current' = Current
  BY <1>1 DEF store, progress, history, Current
<1>4. Phased' /\ Delivering'
  BY ZenonT(60), <1>3 DEF IInv, Phased, Delivering, Batch, PhaseComplete, Entry
<1> QED
  BY <1>1, <1>2, <1>4, FilesAlone DEF IInv, Filed

LEMMA StepKeeps == IInv /\ [Next]_vars => IInv'
<1> SUFFICES ASSUME IInv, [Next]_vars PROVE IInv'
  OBVIOUS
<1>1. CASE UNCHANGED vars
  BY <1>1, StutterKeeps
<1>2. CASE \E r \in Routes, s \in BOOLEAN : Edit(r, s)
  BY <1>2, EditKeeps
<1>3. CASE RunStep
  BY <1>3, StartKeeps, ConnectKeeps, ResumeKeeps, ForceResendKeeps, RegenerateKeeps,
     PrepareKeeps, RecordedKeeps, TakeUpKeeps, PublishKeeps, BindKeeps, PhaseDoneKeeps,
     DeliverKeeps, StageKeeps, MarkInFlightKeeps, RecordKeeps, SendKeeps, StopKeeps
     DEF RunStep
<1> QED
  BY <1>1, <1>2, <1>3 DEF Next

(* The invariant holds in every state of the specification.                *)
THEOREM Invariance == Spec => []IInv
<1>1. Init => IInv
  BY InitHolds
<1>2. IInv /\ [Next]_vars => IInv'
  BY StepKeeps
<1> QED
  BY <1>1, <1>2, PTL DEF Spec

(* Every variable has its type.                                            *)
THEOREM TypeCorrect == Spec => []TypeOK
<1>1. IInv => TypeOK
  BY DEF IInv
<1> QED
  BY <1>1, Invariance, PTL

(* Whatever dies and whoever edits the activation: both phases load, a     *)
(* bound phase is the one that was bound, nothing is attempted before, and *)
(* a phase of a generation goes by one route, the sealed one if the two    *)
(* readings of the activation agree.                                       *)
THEOREM PhasesAreKept == Spec => []PhasesKept
<1>1. IInv => PhasesKept
  <2> SUFFICES ASSUME IInv PROVE PhasesKept
    OBVIOUS
  <2>1. Recoverable
    BY DEF IInv, Reported, Recoverable
  <2>2. ASSUME NEW c \in Contents, NEW d \in Agains, NEW p \in Phases,
               NEW r \in via[c][d][p], NEW s \in via[c][d][p]
        PROVE  r = s
    <3>1. r \in Routes /\ s \in Routes /\ Agreed(c, d, p)
      BY DEF IInv, TypeOK
    <3>2. PICK a \in Accounts : entry[c][d][p][a].route = r
      BY <3>1 DEF Agreed
    <3>3. PICK b \in Accounts : entry[c][d][p][b].route = s
      BY <3>1 DEF Agreed
    <3> QED
      BY <3>1, <3>2, <3>3, SlowReportAssumption DEF Agreed
  <2>3. At("wire") /\ proc.asked = proc.wire => Batch(proc.phase).route = proc.wire
    BY DEF IInv, Delivering, Sending, At
  <2> QED
    BY <2>1, <2>2, <2>3 DEF PhasesKept, RoutesKept
<1> QED
  BY <1>1, Invariance, PTL

-----------------------------------------------------------------------------
(* The runner implements ReportLedger.                                     *)
Sealed(p) == IF Batch(p) = Missing THEN None
             ELSE [version |-> Batch(p).version, route |-> Batch(p).route]
Heard == told[head.content][head.again]

LEMMA LedgerInit == Init => Ledger!Init
<1> SUFFICES ASSUME Init PROVE Ledger!Init
  OBVIOUS
<1>1. head.content \in Contents /\ head.again \in Agains
  BY SlowReportAssumption DEF Init, NoHead, Contents, Agains
<1>2. Heard = Ledger!Nothing
  BY <1>1 DEF Init, ForAll, Heard, Ledger!Nothing, Phases, Ledger!Phases
<1>3. \A p \in Phases : Batch(p) = Missing
  BY <1>1 DEF Init, Unrecorded, Batch
<1> QED
  BY <1>2, <1>3 DEF Ledger!Init, Heard, Phases, Ledger!Phases

(* What a report is once it is made, and what one who has all has.         *)
LEMMA Made ==
  ASSUME IInv, NEW p \in Phases, Batch(p) # Missing
  PROVE  Sealed(p) # None /\ Sealed(p).version = Batch(p).version
         /\ Sealed(p).route = Batch(p).route
BY SlowReportAssumption DEF IInv, Reported, Sealed

LEMMA Everyone ==
  ASSUME IInv, NEW p \in Phases, PhaseComplete(p)
  PROVE  Ledger!HasAll(p)
<1>1. head.content \in Contents /\ head.again \in Agains
  BY DEF IInv, TypeOK
<1>2. Agreed(head.content, head.again, p)
  BY <1>1 DEF IInv
<1> QED
  BY <1>2 DEF Agreed, PhaseComplete, Entry, Ledger!HasAll

(* A step that makes no report and tells nobody is nothing to the ledger.  *)
LEMMA SameLedger ==
  ASSUME \A p \in Phases : Sealed(p)' = Sealed(p), Heard' = Heard
  PROVE  UNCHANGED Ledger!vars
BY DEF Ledger!vars, Sealed, Heard

(* A prepared report is fixed, with the routes of the weekly one.          *)
LEMMA PrepareFixes ==
  ASSUME IInv, NEW v \in Versions, Prepare(v)
  PROVE  Ledger!Next
<1> PICK f, c : f = proc.phase /\ c = head.content
  OBVIOUS
<1> DEFINE targets == IF f = "weekly" THEN proc.asked ELSE Batch("weekly").route
           x == [version |-> v, route |-> targets, status |-> "prepared"]
           report == [version |-> v, route |-> targets]
<1>1. /\ proc.pc = "phase" /\ Batch(f) = Missing
      /\ batch' = [batch EXCEPT ![c][f] = x]
      /\ UNCHANGED <<head, told>>
  BY DEF Prepare, At, history
<1>2. f \in Phases /\ "weekly" \in Phases /\ (f # "weekly" => f = "monthly") /\ c \in Contents
  BY DEF IInv, TypeOK, Phases
<1>3. f = "monthly" => Batch("weekly") # Missing /\ targets = Batch("weekly").route
  BY DEF IInv, Phased, Missing
<1>4. targets \in Routes
  <2>1. CASE f = "weekly"
    BY <1>1, <2>1 DEF IInv, Phased
  <2>2. CASE f # "weekly"
    BY <1>2, <1>3, <2>2 DEF IInv, Reported, Missing
  <2> QED
    BY <2>1, <2>2
<1> HIDE DEF targets
<1>5. x # Missing /\ x.version = v /\ x.route = targets /\ report \in Ledger!Reports
  BY <1>4 DEF Missing, Ledger!Reports
<1> HIDE DEF x
<1>6. Batch(f)' = x /\ \A p \in Phases \ {f} : Batch(p)' = Batch(p)
  BY <1>1, <1>2 DEF IInv, TypeOK, Batch
<1>7. Sealed(f)' = report
  BY <1>5, <1>6 DEF Sealed
<1>8. \A p \in Phases \ {f} : Sealed(p)' = Sealed(p)
  BY <1>6 DEF Sealed
<1>9. f = "monthly" => Sealed("weekly") # None /\ report.route = Sealed("weekly").route
  BY <1>2, <1>3, Made
<1>10. Sealed(f) = None
  BY <1>1 DEF Sealed
<1> HIDE DEF report
<1>11. PICK one, two : one = [p \in Phases |-> Sealed(p)] /\ two = [p \in Phases |-> Sealed(p)']
  OBVIOUS
<1>12. /\ one[f] = None /\ two = [one EXCEPT ![f] = report]
       /\ f = "monthly" => one["weekly"] # None /\ report.route = one["weekly"].route
  BY <1>2, <1>7, <1>8, <1>9, <1>10, <1>11
<1>13. /\ one = [p \in Phases |-> IF Batch(p) = Missing THEN None
                 ELSE [version |-> Batch(p).version, route |-> Batch(p).route]]
       /\ two = [p \in Phases |-> IF Batch(p) = Missing THEN None
                 ELSE [version |-> Batch(p).version, route |-> Batch(p).route]]'
       /\ UNCHANGED told[head.content][head.again]
  BY <1>1, <1>11 DEF Sealed
<1>14. Ledger!Fix(f)
  BY <1>5, <1>12, <1>13 DEF Ledger!Fix
<1> QED
  BY <1>2, <1>14 DEF Ledger!Next, Phases, Ledger!Phases

(* An accepted message tells one who had not been told, and of the monthly *)
(* report only when everyone has the weekly one.                           *)
LEMMA SendTells ==
  ASSUME IInv, NEW receipt \in Receipts, Send(receipt)
  PROVE  [Ledger!Next]_(Ledger!vars)
<1> PICK c, d, f, a, w, v : /\ c = head.content /\ d = head.again /\ f = proc.phase
                            /\ a = Current /\ w = proc.wire /\ v = Batch(f).version
  OBVIOUS
<1>1. /\ proc.pc = "wire" /\ proc.pc \in Sending
      /\ UNCHANGED <<head, batch>>
      /\ c \in Contents /\ d \in Agains /\ f \in Phases /\ a \in Accounts
      /\ v \in Versions /\ told[c][d][f][a] = <<>>
      /\ Tells(v) \/ told' = told
  BY Sent
<1>2. \A p \in Phases : Sealed(p)' = Sealed(p)
  BY <1>1 DEF Sealed, Batch
<1>3. CASE told' = told
  BY <1>1, <1>2, <1>3, SameLedger DEF Heard
<1>4. CASE Tells(v)
  <2>1. PICK t, n, one : /\ t = <<v>> /\ n = told' /\ one = [p \in Phases |-> Sealed(p)]
    OBVIOUS
  <2>2. Append(told[c][d][f][a], v) = t
    BY <1>1, <2>1
  <2>3. n = [told EXCEPT ![c][d][f][a] = Append(@, v)]
    BY <1>4, <2>1 DEF Tells
  <2>4. n[c][d] = [told[c][d] EXCEPT ![f][a] = t]
    BY <1>1, <2>2, <2>3 DEF IInv, TypeOK
  <2>5. Batch(f) # Missing
    <3>1. Batch(f).status = "published"
      BY <1>1, Midway
    <3> QED
      BY <3>1 DEF Missing
  <2>6. one[f] # None /\ one[f].version = v
    BY <1>1, <2>1, <2>5, Made
  <2>7. f = "monthly" => Ledger!HasAll("weekly")
    <3>1. f = "monthly" => PhaseComplete("weekly") /\ "weekly" \in Phases
      BY <1>1, Midway DEF IInv, Phased, Phases
    <3> QED
      BY <3>1, Everyone
  <2>8. /\ one = [p \in Phases |-> IF Batch(p) = Missing THEN None
                  ELSE [version |-> Batch(p).version, route |-> Batch(p).route]]
        /\ one = [p \in Phases |-> IF Batch(p) = Missing THEN None
                  ELSE [version |-> Batch(p).version, route |-> Batch(p).route]]'
    BY SMTT(30), <1>2, <2>1 DEF Sealed
  <2>9. told'[head'.content][head'.again]
          = [told[head.content][head.again] EXCEPT ![f][a] = <<one[f].version>>]
    BY SMTT(30), <1>1, <2>1, <2>4, <2>6
  <2>10. Ledger!Tell(f, a)
    BY <1>1, <2>6, <2>7, <2>8, <2>9 DEF Ledger!Tell
  <2> QED
    BY <1>1, <2>10 DEF Ledger!Next, Phases, Ledger!Phases
<1> QED
  BY <1>1, <1>3, <1>4

(* A next generation is begun when everyone has everything of this one,    *)
(* and begins with nobody told of anything.                                *)
LEMMA ForceResendRepeats ==
  ASSUME IInv, ForceResend
  PROVE  Ledger!Again
<1>1. /\ \A p \in Phases : PhaseComplete(p)
      /\ head.again < MaxAgain /\ head' = [head EXCEPT !.again = @ + 1]
      /\ UNCHANGED <<batch, told>>
  BY DEF ForceResend, Completed, history
<1>2. PICK c, d : c = head.content /\ d = head.again + 1
  OBVIOUS
<1>3. c \in Contents /\ head.again \in Nat /\ d \in Agains
  BY <1>1, <1>2, SlowReportAssumption DEF IInv, TypeOK, Agains
<1>4. head'.content = c /\ head'.again = d
  BY <1>1, <1>2 DEF IInv, TypeOK
<1>5. Ahead(c, d)
  BY <1>2, <1>3 DEF Ahead
<1>6. told[c][d] = Ledger!Nothing
  <2>1. \A p \in Phases, a \in Accounts : told[c][d][p][a] = <<>>
    BY <1>3, <1>5 DEF IInv, Unused
  <2>2. told[c][d] \in [Phases -> [Accounts -> Seq(Versions)]]
    BY <1>3 DEF IInv, TypeOK
  <2> QED
    BY <2>1, <2>2 DEF Ledger!Nothing, Phases, Ledger!Phases
<1>7. \A p \in Phases : Sealed(p)' = Sealed(p)
  BY <1>1, <1>2, <1>4 DEF Sealed, Batch
<1>8. \A p \in Ledger!Phases : Ledger!HasAll(p)
  BY <1>1, Everyone DEF Phases, Ledger!Phases
<1>9. [p \in Phases |-> IF Batch(p) = Missing THEN None
        ELSE [version |-> Batch(p).version, route |-> Batch(p).route]]'
      = [p \in Phases |-> IF Batch(p) = Missing THEN None
        ELSE [version |-> Batch(p).version, route |-> Batch(p).route]]
  BY <1>7 DEF Sealed
<1>10. (told[head.content][head.again])' = Ledger!Nothing
  BY <1>1, <1>4, <1>6
<1> QED
  BY <1>8, <1>9, <1>10 DEF Ledger!Again

LEMMA RegenerateRenews ==
  ASSUME IInv, Regenerate
  PROVE  Ledger!Renew
<1>1. /\ \A p \in Phases : PhaseComplete(p)
      /\ head.content < MaxContent
      /\ head' = [head EXCEPT !.content = @ + 1, !.phases = Unrecorded]
      /\ UNCHANGED <<batch, told>>
  BY DEF Regenerate, Completed, history
<1>2. PICK c, d : c = head.content + 1 /\ d = head.again
  OBVIOUS
<1>3. c \in Contents /\ head.content \in Nat /\ d \in Agains
  BY <1>1, <1>2, SlowReportAssumption DEF IInv, TypeOK, Contents
<1>4. head'.content = c /\ head'.again = d
  BY <1>1, <1>2 DEF IInv, TypeOK
<1>5. Ahead(c, d) /\ c > head.content
  BY <1>2, <1>3 DEF Ahead
<1>6. told[c][d] = Ledger!Nothing
  <2>1. \A p \in Phases, a \in Accounts : told[c][d][p][a] = <<>>
    BY <1>3, <1>5 DEF IInv, Unused
  <2>2. told[c][d] \in [Phases -> [Accounts -> Seq(Versions)]]
    BY <1>3 DEF IInv, TypeOK
  <2> QED
    BY <2>1, <2>2 DEF Ledger!Nothing, Phases, Ledger!Phases
<1>7. \A p \in Phases : Batch(p)' = Missing
  BY <1>1, <1>3, <1>4, <1>5 DEF IInv, Unused, Batch
<1>8. \A p \in Ledger!Phases : Ledger!HasAll(p)
  BY <1>1, Everyone DEF Phases, Ledger!Phases
<1>9. [p \in Phases |-> IF Batch(p) = Missing THEN None
        ELSE [version |-> Batch(p).version, route |-> Batch(p).route]]'
      = [p \in Ledger!Phases |-> None]
  BY <1>7 DEF Phases, Ledger!Phases
<1>10. (told[head.content][head.again])' = Ledger!Nothing
  BY <1>1, <1>4, <1>6
<1> QED
  BY <1>8, <1>9, <1>10 DEF Ledger!Renew

(* Every behaviour of the runner is one of ReportLedger: each report is    *)
(* fixed once and told once a generation to each account, the weekly one   *)
(* first, and a generation is left only when everyone has both.            *)
THEOREM PromiseKept == Spec => KeepsReports
<1>1. IInv /\ [Next]_vars => [Ledger!Next]_(Ledger!vars)
  <2> SUFFICES ASSUME IInv, [Next]_vars PROVE [Ledger!Next]_(Ledger!vars)
    OBVIOUS
  <2>1. CASE \E v \in Versions : Prepare(v)
    BY <2>1, PrepareFixes
  <2>2. CASE \E receipt \in Receipts : Send(receipt)
    BY <2>2, SendTells
  <2>3. CASE ForceResend
    BY <2>3, ForceResendRepeats DEF Ledger!Next
  <2>4. CASE Regenerate
    BY <2>4, RegenerateRenews DEF Ledger!Next
  <2>5. CASE Publish
    <3> PICK f : f = proc.phase
      OBVIOUS
    <3>1. /\ batch' = [batch EXCEPT ![head.content][f].status = "published"]
          /\ UNCHANGED <<head, told>> /\ proc.pc = "publish"
      BY <2>5 DEF Publish, At, history
    <3>2. f \in Phases /\ head.content \in Contents /\ Batch(f) \in Batches
      BY DEF IInv, TypeOK, Batch
    <3>3. PICK x : x = [Batch(f) EXCEPT !.status = "published"]
      OBVIOUS
    <3>4. Batch(f).status = "prepared"
      BY <3>1 DEF IInv, Phased
    <3>5. /\ x.version = Batch(f).version /\ x.route = Batch(f).route
          /\ x # Missing /\ Batch(f) # Missing
      BY <3>2, <3>3, <3>4 DEF Missing, Batches
    <3>6. batch' = [batch EXCEPT ![head.content][f] = x]
      BY <3>1, <3>3 DEF Batch
    <3>7. Batch(f)' = x /\ \A p \in Phases \ {f} : Batch(p)' = Batch(p)
      BY <3>1, <3>2, <3>6 DEF IInv, TypeOK, Batch
    <3>8. \A p \in Phases : Sealed(p)' = Sealed(p)
      BY <3>5, <3>7 DEF Sealed
    <3> QED
      BY <3>1, <3>8, SameLedger DEF Heard
  <2>6. CASE Resume \/ RecordPrepared \/ RecordPublished
    <3>1. UNCHANGED <<batch, told>> /\ head'.content = head.content /\ head'.again = head.again
      BY <2>6 DEF Resume, RecordPrepared, RecordPublished, Recorded, history, IInv, TypeOK
    <3>2. \A p \in Phases : Sealed(p)' = Sealed(p)
      BY <3>1 DEF Sealed, Batch
    <3> QED
      BY <3>1, <3>2, SameLedger DEF Heard
  <2>7. CASE \/ UNCHANGED vars \/ \E r \in Routes, s \in BOOLEAN : Edit(r, s)
             \/ \E mode \in Modes : Start(mode)
             \/ Connect \/ TakeUp \/ Published \/ Bind \/ PhaseDone \/ Deliver \/ Stage
             \/ MarkInFlight \/ Record \/ Delivered \/ Stop
    <3>1. UNCHANGED <<head, batch, told>>
      BY <2>7 DEF vars, Edit, Start, Connect, TakeUp, Published, Bind, PhaseDone, Deliver, Stage,
             MarkInFlight, Record, Delivered, Stop, store, history
    <3>2. \A p \in Phases : Sealed(p)' = Sealed(p)
      BY <3>1 DEF Sealed, Batch
    <3> QED
      BY <3>1, <3>2, SameLedger DEF Heard
  <2> QED
    BY <2>1, <2>2, <2>3, <2>4, <2>5, <2>6, <2>7 DEF Next, RunStep
<1> QED
  BY <1>1, LedgerInit, Invariance, PTL DEF Spec, KeepsReports, Ledger!Spec
=============================================================================
