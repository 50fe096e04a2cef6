----------------------------- MODULE Live_proofs -----------------------------
(* The live cycles, for any number of runs that die or lose the database   *)
(* anywhere.                                                               *)
(*                                                                         *)
(* Prices, for any products, prices, observations and cycles: no two       *)
(* cycles wait for their delivery, every notice is accepted once before    *)
(* the reference moves, and the cycle implements PriceLedger.              *)
(*                                                                         *)
(* Reports, for any parts, generations, manifests and earlier deliveries:  *)
(* one run at most can still bring a phase forward, and the journal waits  *)
(* for it; a case is bound to one manifest and its files count truly; and  *)
(* the cycle implements StageLedger.                                       *)
EXTENDS LivePrice, LiveSlow, FiniteSetTheorems, SequenceTheorems, TLAPS

Past == {"gate", "sending", "batches", "recover", "deliver", "bind", "attempt", "answer",
         "release", "receipt", "failed", "delivered", "commit"}
PriceInCase == {"bind", "attempt", "answer", "release"}
WithBatch == {"recover", "deliver", "receipt", "failed"} \cup PriceInCase
Moved(before, after) ==
    {k \in Keys : {before[k], after[k]} \subseteq Prices /\ before[k] # after[k]}
Served(c) == DOMAIN cycles[c].notices \subseteq cycles[c].receipts

(* The journal: one entry waits, it starts from the reference, and says    *)
(* truly which prices move and which batches were accepted.                *)
Alone == \A c, d \in Pending : c = d
Truthful(c) ==
    /\ cycles[c].status # "blocked" =>
         /\ cycles[c].before \in Lists /\ cycles[c].after \in Lists
         /\ ToSet(cycles[c].notices) = Moved(cycles[c].before, cycles[c].after)
    /\ DOMAIN cycles[c].notices \subseteq BatchIds
    /\ \A b \in cycles[c].receipts : batch[c][b].prog = "accepted"
    /\ cycles[c].status \in {"delivered", "committed"} => Served(c)
    /\ c \in Pending => cycles[c].before = base

(* A batch was accepted once or never, and its file knows, unless it is in *)
(* doubt.                                                                  *)
PriceCounted ==
         \A c \in CycleIds, b \in BatchIds :
             /\ batch[c][b].sent \in {0, 1}
             /\ batch[c][b].prog \in {"none", "bound", "failed"} => batch[c][b].sent = 0
             /\ batch[c][b].prog = "accepted" => batch[c][b].sent = 1
             /\ c \notin DOMAIN cycles => batch[c][b].sent = 0

(* What a run knows, with or without the database, and what only one that  *)
(* has it knows: its cycle is the one that waits.                          *)
PricePlaced(r) ==
         /\ run[r].pc = "home" => ~run[r].conn
         /\ run[r].pc \in Past =>
              run[r].cyc \in DOMAIN cycles /\ cycles[run[r].cyc].status # "blocked"
         /\ run[r].pc \in WithBatch => run[r].bat \in DOMAIN cycles[run[r].cyc].notices
         /\ run[r].pc \in PriceInCase => Bat(r).lock
         /\ run[r].pc = "attempt" => Bat(r).prog \in {"bound", "failed"}
         /\ run[r].pc = "answer" => Bat(r).prog = "doubt" /\ Bat(r).sent = 0
         /\ run[r].pc = "release" => run[r].then # "none"
         /\ run[r].pc = "release" /\ run[r].then = "receipt" => Bat(r).prog = "accepted"
         /\ run[r].pc = "receipt" => Bat(r).prog = "accepted"
         /\ run[r].pc = "failed" => run[r].then \in {"failed", "unknown"}
         /\ run[r].pc \in {"delivered", "commit"} => Served(run[r].cyc)
         /\ run[r].pc = "gate" /\ run[r].state = "delivered" => Served(run[r].cyc)
         /\ run[r].conn /\ run[r].pc \in Past => run[r].cyc \in Pending
         /\ run[r].conn /\ run[r].pc = "observe" => Pending = {}

(* The lock file of a case has one owner.                                  *)
PriceApart(r, s) ==
         r # s /\ run[r].pc \in PriceInCase /\ run[s].pc \in PriceInCase =>
             run[r].cyc # run[s].cyc \/ run[r].bat # run[s].bat

PriceInv ==
        /\ TypeOK /\ Alone /\ PriceCounted
        /\ \A c \in DOMAIN cycles : Truthful(c)
        /\ \A r \in Runs : PricePlaced(r)
        /\ \A r, s \in Runs : PriceApart(r, s)

-----------------------------------------------------------------------------
(* Steps that write little: one run and perhaps the lock it holds, one     *)
(* entry of the journal, one cell of the batches.                          *)
PriceOnlyRun(r) ==
         /\ run' \in [Runs -> Processes]
         /\ \A s \in Runs : s # r => run'[s] = run[s]
         /\ run'[r].conn <=> holder' = r
         /\ holder' \in Runs \cup {None}
         /\ \A s \in Runs : s # r => (holder' = s <=> holder = s)
OnlyCyc(c) ==
    /\ cycles' \in Seq(Cycles) /\ Len(cycles') = Len(cycles)
    /\ \A d \in DOMAIN cycles : d # c => cycles'[d] = cycles[d]
OnlyBat(c, b) ==
    /\ batch' \in [CycleIds -> [BatchIds -> Batches]]
    /\ \A d \in CycleIds, e \in BatchIds : d # c \/ e # b => batch'[d][e] = batch[d][e]

LEMMA PriceJournal ==
  ASSUME TypeOK
  PROVE  /\ DOMAIN cycles = 1..Len(cycles) /\ DOMAIN cycles \subseteq CycleIds
         /\ Len(cycles) \in Nat
         /\ \A c \in DOMAIN cycles : cycles[c] \in Cycles
BY LivePriceAssumption DEF TypeOK, CycleIds

(* What another run does leaves a run where it is, unless it takes the     *)
(* cycle from one that has the database, or the case from one inside it.   *)
Grown ==
    /\ DOMAIN cycles \subseteq DOMAIN cycles'
    /\ \A c \in DOMAIN cycles :
         /\ cycles'[c].notices = cycles[c].notices
         /\ cycles[c].receipts \subseteq cycles'[c].receipts
         /\ cycles[c].status # "blocked" => cycles'[c].status # "blocked"
CellsKept(r) ==
    \A c \in CycleIds, b \in BatchIds :
        /\ batch[c][b].prog = "accepted" => batch'[c][b].prog = "accepted"
        /\ batch'[c][b] = batch[c][b]
             \/ ~batch[c][b].lock
             \/ (run[r].pc \in PriceInCase /\ run[r].cyc = c /\ run[r].bat = b)

LEMMA OtherRuns ==
  ASSUME PriceInv, NEW r \in Runs, NEW s \in Runs, s # r,
         run'[s] = run[s], Grown, CellsKept(r), cycles' = cycles \/ ~run[s].conn
  PROVE  PricePlaced(s)'
<1> USE DEF Past, PriceInCase, WithBatch
<1>1. PricePlaced(s) /\ PriceApart(r, s) /\ TypeOK
  BY DEF PriceInv
<1>2. run[s].pc \in WithBatch =>
        /\ run[s].cyc \in DOMAIN cycles /\ run[s].cyc \in CycleIds
        /\ run[s].bat \in BatchIds
  <2>1. run[s].pc \in WithBatch => run[s].cyc \in DOMAIN cycles
    BY <1>1 DEF PricePlaced
  <2>2. run[s].pc \in WithBatch => run[s].bat \in DOMAIN cycles[run[s].cyc].notices
    BY <1>1 DEF PricePlaced
  <2>3. \A c \in DOMAIN cycles : DOMAIN cycles[c].notices \subseteq BatchIds
    BY DEF PriceInv, Truthful
  <2> QED
    BY <1>1, <2>1, <2>2, <2>3, PriceJournal
<1>3. run[s].pc \in PriceInCase => Bat(s)' = Bat(s)
  <2> SUFFICES ASSUME run[s].pc \in PriceInCase PROVE Bat(s)' = Bat(s)
    OBVIOUS
  <2>1. Bat(s).lock
    BY <1>1 DEF PricePlaced
  <2>2. batch'[run[s].cyc][run[s].bat] = batch[run[s].cyc][run[s].bat]
    BY <1>1, <1>2, <2>1 DEF CellsKept, PriceApart, Bat
  <2> QED
    BY <2>2 DEF Bat
<1>4. run[s].pc = "receipt" => (Bat(s).prog = "accepted" => Bat(s)'.prog = "accepted")
  BY <1>2 DEF CellsKept, Bat
<1>5. run[s].pc \in Past => (Served(run[s].cyc) => Served(run[s].cyc)')
  BY <1>1 DEF PricePlaced, Grown, Served
<1>6. run[s].conn => Pending' = Pending
  BY DEF Pending
<1> QED
  BY <1>1, <1>2, <1>3, <1>4, <1>5, <1>6 DEF PricePlaced, Grown, Served
(* A run goes on, or ends, and nothing on file changes.                    *)
LEMMA PriceRunStep ==
  ASSUME PriceInv, NEW r \in Runs, PriceOnlyRun(r), base' = base, cycles' = cycles, batch' = batch,
         PricePlaced(r)', run'[r].pc \notin PriceInCase
  PROVE  PriceInv'
<1> USE DEF PriceInCase
<1>1. TypeOK' /\ Alone' /\ PriceCounted'
  BY DEF PriceInv, TypeOK, Alone, PriceCounted, Pending, PriceOnlyRun
<1>2. \A c \in DOMAIN cycles' : Truthful(c)'
  BY DEF PriceInv, Truthful, Served, Pending
<1>3. \A s \in Runs : PricePlaced(s)'
  <2> SUFFICES ASSUME NEW s \in Runs PROVE PricePlaced(s)'
    OBVIOUS
  <2>1. Grown
    BY DEF Grown
  <2>2. CellsKept(r)
    BY Zenon DEF CellsKept
  <2> QED
    BY <2>1, <2>2, OtherRuns DEF PriceOnlyRun
<1>4. \A s, t \in Runs : PriceApart(s, t)'
  BY DEF PriceInv, PriceOnlyRun, PriceApart
<1> QED
  BY <1>1, <1>2, <1>3, <1>4 DEF PriceInv

(* A run changes one batch, in its case or to get it.                      *)
LEMMA PriceCaseStep ==
  ASSUME PriceInv, NEW r \in Runs, PriceOnlyRun(r), base' = base, cycles' = cycles,
         NEW c \in CycleIds, NEW b \in BatchIds, c = run[r].cyc, b = run[r].bat,
         c \in DOMAIN cycles, OnlyBat(c, b),
         run[r].pc \in PriceInCase \/ ~batch[c][b].lock,
         run'[r].cyc = c, run'[r].bat = b, run'[r].conn = run[r].conn,
         batch[c][b].prog = "accepted" => batch'[c][b].prog = "accepted",
         batch'[c][b].sent \in {0, 1},
         batch'[c][b].prog \in {"none", "bound", "failed"} => batch'[c][b].sent = 0,
         batch'[c][b].prog = "accepted" => batch'[c][b].sent = 1,
         PricePlaced(r)'
  PROVE  PriceInv'
<1>1. TypeOK'
  BY DEF PriceInv, TypeOK, PriceOnlyRun, OnlyBat
<1>2. Alone'
  BY DEF PriceInv, Alone, Pending
<1>3. PriceCounted'
  <2> SUFFICES ASSUME NEW d \in CycleIds, NEW e \in BatchIds
               PROVE  /\ batch'[d][e].sent \in {0, 1}
                      /\ batch'[d][e].prog \in {"none", "bound", "failed"} =>
                           batch'[d][e].sent = 0
                      /\ batch'[d][e].prog = "accepted" => batch'[d][e].sent = 1
                      /\ d \notin DOMAIN cycles' => batch'[d][e].sent = 0
    BY SMTT(30) DEF PriceCounted
  <2>1. CASE d = c /\ e = b
    BY <2>1
  <2>2. CASE d # c \/ e # b
    <3>1. batch'[d][e] = batch[d][e]
      BY <2>2 DEF OnlyBat
    <3> QED
      BY <3>1 DEF PriceInv, PriceCounted
  <2> QED
    BY <2>1, <2>2
<1>4. CellsKept(r)
  <2> SUFFICES ASSUME NEW d \in CycleIds, NEW e \in BatchIds
               PROVE  /\ batch[d][e].prog = "accepted" => batch'[d][e].prog = "accepted"
                      /\ batch'[d][e] = batch[d][e]
                           \/ ~batch[d][e].lock
                           \/ (run[r].pc \in PriceInCase /\ run[r].cyc = d /\ run[r].bat = e)
    BY Zenon DEF CellsKept
  <2>1. CASE d = c /\ e = b
    BY <2>1
  <2>2. CASE d # c \/ e # b
    BY <2>2 DEF OnlyBat
  <2> QED
    BY <2>1, <2>2
<1>5. \A d \in DOMAIN cycles' : Truthful(d)'
  <2> SUFFICES ASSUME NEW d \in DOMAIN cycles PROVE Truthful(d)'
    OBVIOUS
  <2>1. Truthful(d) /\ d \in CycleIds /\ cycles[d].receipts \subseteq BatchIds
    BY PriceJournal DEF PriceInv, Cycles
  <2>2. \A e \in cycles[d].receipts : batch'[d][e].prog = "accepted"
    BY <1>4, <2>1 DEF CellsKept, Truthful
  <2> QED
    BY <2>1, <2>2 DEF Truthful, Served, Pending
<1>6. \A s \in Runs : PricePlaced(s)'
  <2> SUFFICES ASSUME NEW s \in Runs PROVE PricePlaced(s)'
    OBVIOUS
  <2>1. Grown
    BY DEF Grown
  <2> QED
    BY <1>4, <2>1, OtherRuns DEF PriceOnlyRun
<1>7. \A s, t \in Runs : PriceApart(s, t)'
  <2>1. \A s \in Runs : s # r /\ run[s].pc \in PriceInCase /\ run[r].pc \notin PriceInCase =>
          run[s].cyc # c \/ run[s].bat # b
    BY DEF PriceInv, PricePlaced, Bat
  <2>2. \A s \in Runs : s # r /\ run[s].pc \in PriceInCase /\ run[r].pc \in PriceInCase =>
          run[s].cyc # c \/ run[s].bat # b
    BY DEF PriceInv, PriceApart
  <2>3. \A s \in Runs : s # r => run'[s] = run[s]
    BY DEF PriceOnlyRun
  <2> QED
    BY SMTT(30), <2>1, <2>2, <2>3 DEF PriceInv, PriceApart
<1> QED
  BY <1>1, <1>2, <1>3, <1>5, <1>6, <1>7 DEF PriceInv

(* A run that has the database changes its entry of the journal, which is  *)
(* the one that waits; the reference moves only with a commit.             *)
LEMMA JournalStep ==
  ASSUME PriceInv, NEW r \in Runs, PriceOnlyRun(r), batch' = batch, run[r].conn, run[r].pc \in Past,
         NEW c \in DOMAIN cycles, c = run[r].cyc, OnlyCyc(c),
         cycles'[c].before = cycles[c].before, cycles'[c].after = cycles[c].after,
         cycles'[c].notices = cycles[c].notices,
         cycles[c].receipts \subseteq cycles'[c].receipts,
         \A b \in cycles'[c].receipts : batch[c][b].prog = "accepted",
         cycles'[c].status # "blocked",
         cycles'[c].status \in {"delivered", "committed"} =>
           DOMAIN cycles[c].notices \subseteq cycles'[c].receipts,
         base' \in Lists \cup {None},
         base' # base => cycles'[c].status = "committed",
         PricePlaced(r)', run'[r].pc \notin PriceInCase
  PROVE  PriceInv'
<1>0. /\ DOMAIN cycles' = DOMAIN cycles /\ DOMAIN cycles \subseteq CycleIds
      /\ \A d \in DOMAIN cycles : d # c => cycles'[d] = cycles[d]
      /\ c \in Pending /\ (\A d \in Pending : d = c)
  <2>1. TypeOK /\ TypeOK => DOMAIN cycles = 1..Len(cycles) /\ DOMAIN cycles \subseteq CycleIds
    BY PriceJournal
  <2>2. DOMAIN cycles' = 1..Len(cycles')
    BY DEF OnlyCyc
  <2>3. c \in Pending
    BY DEF PriceInv, PricePlaced
  <2> QED
    BY <2>1, <2>2, <2>3 DEF OnlyCyc, PriceInv, Alone
<1>1. TypeOK'
  BY DEF PriceInv, TypeOK, PriceOnlyRun, OnlyCyc
<1>2. Pending' \subseteq {c}
  BY <1>0 DEF Pending
<1>3. Alone'
  BY <1>2 DEF Alone
<1>4. PriceCounted'
  BY <1>0 DEF PriceInv, PriceCounted
<1>5. \A d \in DOMAIN cycles' : Truthful(d)'
  <2> SUFFICES ASSUME NEW d \in DOMAIN cycles PROVE Truthful(d)'
    BY <1>0
  <2>1. Truthful(d)
    BY SMTT(30) DEF PriceInv
  <2>2. CASE d = c
    <3>1. c \in Pending' => base' = base
      BY DEF Pending
    <3>2. cycles[c].status # "blocked"
      BY <1>0 DEF Pending
    <3> QED
      BY <1>0, <2>1, <2>2, <3>1, <3>2 DEF Truthful, Served
  <2>3. CASE d # c
    <3>1. d \notin Pending'
      BY <1>2, <2>3
    <3> QED
      BY <1>0, <2>1, <2>3, <3>1 DEF Truthful, Served
  <2> QED
    BY <2>2, <2>3
<1>6. \A s \in Runs : PricePlaced(s)'
  <2> SUFFICES ASSUME NEW s \in Runs PROVE PricePlaced(s)'
    OBVIOUS
  <2>1. Grown
    BY <1>0 DEF Grown
  <2>2. CellsKept(r)
    BY Zenon DEF CellsKept
  <2>3. s # r => ~run[s].conn
    BY DEF PriceInv, TypeOK
  <2> QED
    BY <2>1, <2>2, <2>3, OtherRuns DEF PriceOnlyRun
<1>7. \A s, t \in Runs : PriceApart(s, t)'
  BY DEF PriceInv, PriceOnlyRun, PriceApart
<1> QED
  BY <1>1, <1>3, <1>4, <1>5, <1>6, <1>7 DEF PriceInv
(* The journal grows by an entry when none waits.                          *)
LEMMA AppendStep ==
  ASSUME PriceInv, NEW r \in Runs, PriceOnlyRun(r), base' = base, batch' = batch,
         run[r].conn, run[r].pc = "observe",
         NEW e \in Cycles, cycles' = Append(cycles, e), Len(cycles) < MaxCycles,
         e.status \in {"blocked", "planned"}, e.receipts = {}, e.before = base,
         DOMAIN e.notices \subseteq BatchIds,
         e.status # "blocked" =>
           /\ e.before \in Lists /\ e.after \in Lists
           /\ ToSet(e.notices) = Moved(e.before, e.after),
         PricePlaced(r)', run'[r].pc \notin PriceInCase
  PROVE  PriceInv'
<1> DEFINE n == Len(cycles) + 1
<1>0. /\ DOMAIN cycles = 1..Len(cycles) /\ Len(cycles) \in Nat /\ cycles \in Seq(Cycles)
      /\ \A d \in DOMAIN cycles : cycles[d] \in Cycles
  BY PriceJournal DEF PriceInv, TypeOK
<1>1. /\ cycles' \in Seq(Cycles) /\ Len(cycles') = n /\ DOMAIN cycles' = 1..n
      /\ cycles'[n] = e
      /\ \A d \in DOMAIN cycles : cycles'[d] = cycles[d] /\ d # n
      /\ \A d \in DOMAIN cycles' : d \in DOMAIN cycles \/ d = n
  BY <1>0, AppendProperties
<1>2. Pending = {}
  BY DEF PriceInv, PricePlaced
<1> HIDE DEF n
<1>3. TypeOK'
  <2>1. Len(cycles') <= MaxCycles
    BY <1>0, <1>1, LivePriceAssumption DEF n
  <2> QED
    BY <1>1, <2>1 DEF PriceInv, TypeOK, PriceOnlyRun
<1>4. Pending' \subseteq {n}
  BY <1>1, <1>2 DEF Pending
<1>5. Alone'
  BY <1>4 DEF Alone
<1>6. PriceCounted'
  <2>1. DOMAIN cycles \subseteq DOMAIN cycles'
    BY <1>0, <1>1 DEF n
  <2> QED
    BY <2>1 DEF PriceInv, PriceCounted
<1>7. \A d \in DOMAIN cycles' : Truthful(d)'
  <2> SUFFICES ASSUME NEW d \in DOMAIN cycles' PROVE Truthful(d)'
    OBVIOUS
  <2>1. CASE d = n
    BY <1>1, <2>1 DEF Truthful
  <2>2. CASE d # n
    <3>1. Truthful(d) /\ cycles'[d] = cycles[d] /\ d \notin Pending'
      BY <1>1, <1>4, <2>2 DEF PriceInv
    <3> QED
      BY <3>1 DEF Truthful, Served
  <2> QED
    BY <2>1, <2>2
<1>8. \A s \in Runs : PricePlaced(s)'
  <2> SUFFICES ASSUME NEW s \in Runs PROVE PricePlaced(s)'
    OBVIOUS
  <2>1. DOMAIN cycles \subseteq DOMAIN cycles'
    BY <1>0, <1>1 DEF n
  <2>2. Grown
    BY <1>1, <2>1 DEF Grown
  <2>3. CellsKept(r)
    BY Zenon DEF CellsKept
  <2>4. s # r => ~run[s].conn
    BY DEF PriceInv, TypeOK
  <2> QED
    BY <2>2, <2>3, <2>4, OtherRuns DEF PriceOnlyRun
<1>9. \A s, t \in Runs : PriceApart(s, t)'
  BY DEF PriceInv, PriceOnlyRun, PriceApart
<1> QED
  BY <1>3, <1>5, <1>6, <1>7, <1>8, <1>9 DEF PriceInv

-----------------------------------------------------------------------------
(* What an update leaves of the part it writes.                            *)
LEMMA PriceStays ==
  ASSUME PriceInv, NEW r \in Runs, NEW v \in Processes, run' = [run EXCEPT ![r] = v],
         holder' = holder, v.conn = run[r].conn
  PROVE  PriceOnlyRun(r) /\ run'[r] = v
BY DEF PriceInv, TypeOK, PriceOnlyRun

(* Where a run goes, and the fields that steps leave alone with it.        *)
Unmoved(p, q) ==
    /\ q.conn = p.conn /\ q.send = p.send /\ q.cyc = p.cyc /\ q.bat = p.bat
    /\ q.state = p.state /\ q.sentone = p.sentone

LEMMA PriceGoes ==
  ASSUME PriceInv, NEW r \in Runs, NEW p \in PCs, Goto(r, p), holder' = holder
  PROVE  /\ PriceOnlyRun(r) /\ Unmoved(run[r], run'[r])
         /\ run'[r].pc = p /\ run'[r].then = run[r].then
<1>1. PICK v : v = [run[r] EXCEPT !.pc = p]
  OBVIOUS
<1>2. run[r] \in Processes
  BY DEF PriceInv, TypeOK
<1>3. v \in Processes /\ v.pc = p /\ v.then = run[r].then /\ Unmoved(run[r], v)
  BY <1>1, <1>2 DEF Processes, Unmoved
<1>4. run' = [run EXCEPT ![r] = v]
  BY <1>1 DEF Goto
<1>5. v.conn = run[r].conn
  BY <1>3 DEF Unmoved
<1> QED
  BY <1>3, <1>4, <1>5, PriceStays

LEMMA GoesAnd ==
  ASSUME PriceInv, NEW r \in Runs, NEW p \in PCs, NEW t \in {"none", "receipt", "failed", "unknown"},
         run' = [run EXCEPT ![r].pc = p, ![r].then = t], holder' = holder
  PROVE  /\ PriceOnlyRun(r) /\ Unmoved(run[r], run'[r])
         /\ run'[r].pc = p /\ run'[r].then = t
<1>1. PICK v : v = [run[r] EXCEPT !.pc = p, !.then = t]
  OBVIOUS
<1>2. run[r] \in Processes
  BY DEF PriceInv, TypeOK
<1>3. v \in Processes /\ v.pc = p /\ v.then = t /\ Unmoved(run[r], v)
  BY <1>1, <1>2 DEF Processes, Unmoved
<1>4. run' = [run EXCEPT ![r] = v]
  BY <1>1, <1>2 DEF PriceInv, TypeOK, Processes
<1>5. v.conn = run[r].conn
  BY <1>3 DEF Unmoved
<1> QED
  BY <1>3, <1>4, <1>5, PriceStays

LEMMA HomeIsAProcess == Home \in Processes
BY LivePriceAssumption DEF Home, Processes, PCs

LEMMA Leaves ==
  ASSUME PriceInv, NEW r \in Runs, Leave(r)
  PROVE  /\ PriceOnlyRun(r) /\ run'[r] = Home /\ PricePlaced(r)'
         /\ run'[r].pc \notin PriceInCase
<1>1. /\ run' \in [Runs -> Processes] /\ run'[r] = Home
      /\ \A s \in Runs : s # r => run'[s] = run[s]
  BY HomeIsAProcess DEF PriceInv, TypeOK, Leave
<1>2. /\ holder' \in Runs \cup {None} /\ holder' # r
      /\ \A s \in Runs : s # r => (holder' = s <=> holder = s)
  BY LivePriceAssumption DEF PriceInv, TypeOK, Leave
<1>3. ~Home.conn /\ Home.pc = "home"
  BY DEF Home
<1> QED
  BY <1>1, <1>2, <1>3 DEF PriceOnlyRun, PricePlaced, Past, WithBatch, PriceInCase
(* A run that leaves and changes nothing else.                             *)
LEMMA LeaveStep ==
  ASSUME PriceInv, NEW r \in Runs, Leave(r), UNCHANGED <<base, cycles, batch>>
  PROVE  PriceInv'
BY Leaves, PriceRunStep

-----------------------------------------------------------------------------
(* The steps that leave the files alone.                                   *)
LEMMA EnterStep ==
  ASSUME PriceInv, NEW r \in Runs, Enter(r)
  PROVE  PriceInv'
<1>1. PICK send \in BOOLEAN :
        run' = [run EXCEPT ![r] = [Home EXCEPT !.pc = "look", !.conn = TRUE, !.send = send]]
  BY DEF Enter
<1>2. PICK v : v = [Home EXCEPT !.pc = "look", !.conn = TRUE, !.send = send]
  OBVIOUS
<1>3. v \in Processes /\ v.pc = "look" /\ v.conn
  BY <1>2, HomeIsAProcess DEF Home, Processes, PCs
<1>4. /\ run' \in [Runs -> Processes] /\ run'[r] = v
      /\ \A s \in Runs : s # r => run'[s] = run[s]
  BY <1>1, <1>2, <1>3 DEF PriceInv, TypeOK
<1>5. /\ holder' \in Runs \cup {None} /\ holder' = r
      /\ \A s \in Runs : s # r => (holder' = s <=> holder = s)
  BY LivePriceAssumption DEF Enter
<1>6. PriceOnlyRun(r)
  BY <1>3, <1>4, <1>5 DEF PriceOnlyRun
<1>7. run'[r].pc \notin PriceInCase /\ PricePlaced(r)'
  BY <1>3, <1>4 DEF PricePlaced, Past, WithBatch, PriceInCase
<1> QED
  BY <1>6, <1>7, PriceRunStep DEF Enter

LEMMA LookStep ==
  ASSUME PriceInv, NEW r \in Runs, Look(r)
  PROVE  PriceInv'
<1>0. UNCHANGED <<base, cycles, batch>> /\ run[r].conn
  BY DEF Look
<1>1. CASE Leave(r)
  BY <1>0, <1>1, LeaveStep
<1>2. CASE Pending = {} /\ Goto(r, "observe") /\ holder' = holder
  <2>1. /\ PriceOnlyRun(r) /\ Unmoved(run[r], run'[r]) /\ run'[r].pc = "observe"
    BY <1>2, PriceGoes DEF PCs
  <2>2. Pending' = {}
    BY <1>0, <1>2 DEF Pending
  <2>3. PricePlaced(r)' /\ run'[r].pc \notin PriceInCase
    BY <2>1, <2>2 DEF PricePlaced, Past, WithBatch, PriceInCase
  <2> QED
    BY <1>0, <2>1, <2>3, PriceRunStep
<1>3. CASE \E c \in Pending : /\ run' = [run EXCEPT ![r].pc = "gate", ![r].cyc = c,
                                                    ![r].state = cycles[c].status]
                              /\ holder' = holder
  <2>1. PICK c \in Pending : run' = [run EXCEPT ![r].pc = "gate", ![r].cyc = c,
                                                ![r].state = cycles[c].status]
    BY <1>3
  <2>2. PICK v : v = [run[r] EXCEPT !.pc = "gate", !.cyc = c, !.state = cycles[c].status]
    OBVIOUS
  <2>3. run[r] \in Processes
    BY DEF PriceInv, TypeOK
  <2>4. c \in DOMAIN cycles /\ c \in CycleIds /\ cycles[c] \in Cycles
    BY PriceJournal DEF PriceInv, Pending
  <2>5. c \in 0..MaxCycles /\ cycles[c].status \in Statuses
    BY <2>4, LivePriceAssumption DEF CycleIds, Cycles
  <2>6. v \in Processes /\ v.pc = "gate" /\ v.cyc = c /\ v.state = cycles[c].status
        /\ v.conn = run[r].conn
    BY <2>2, <2>3, <2>5 DEF Processes, PCs
  <2>7. run' = [run EXCEPT ![r] = v]
    BY <2>1, <2>2, <2>3 DEF PriceInv, TypeOK, Processes
  <2>8. PriceOnlyRun(r) /\ run'[r] = v
    BY <1>3, <2>6, <2>7, PriceStays
  <2>9. cycles[c].status = "delivered" => Served(c)
    BY <2>4 DEF PriceInv, Truthful
  <2>10. c \in Pending' /\ cycles[c].status # "blocked" /\ (Served(c) => Served(c)')
    BY <1>0 DEF Pending, Served
  <2>11. PricePlaced(r)' /\ run'[r].pc \notin PriceInCase
    BY <1>0, <2>4, <2>6, <2>8, <2>9, <2>10 DEF PricePlaced, Past, WithBatch, PriceInCase
  <2> QED
    BY <1>0, <2>8, <2>11, PriceRunStep
<1> QED
  BY <1>1, <1>2, <1>3 DEF Look

LEMMA GateStep ==
  ASSUME PriceInv, NEW r \in Runs, Gate(r)
  PROVE  PriceInv'
<1>0. UNCHANGED <<base, cycles, batch>> /\ run[r].pc = "gate"
  BY DEF Gate, At
<1>1. CASE Leave(r)
  BY <1>0, <1>1, LeaveStep
<1>2. ASSUME NEW p \in {"commit", "delivered", "batches", "sending"},
             Goto(r, p), holder' = holder,
             p = "commit" => run[r].state = "delivered",
             p = "delivered" => Cyc(r).notices = <<>>
      PROVE  PriceInv'
  <2>1. PriceOnlyRun(r) /\ Unmoved(run[r], run'[r]) /\ run'[r].pc = p
    BY <1>2, PriceGoes DEF PCs
  <2>2. PricePlaced(r) /\ (Served(run[r].cyc) => Served(run[r].cyc)') /\ Pending' = Pending
    BY <1>0, <2>1 DEF PriceInv, Served, Pending, Unmoved
  <2>3. p = "delivered" => Served(run[r].cyc)
    BY <1>2 DEF Cyc, Served
  <2>4. PricePlaced(r)' /\ run'[r].pc \notin PriceInCase
    BY <1>0, <1>2, <2>1, <2>2, <2>3 DEF PricePlaced, Unmoved, Past, WithBatch, PriceInCase
  <2> QED
    BY <1>0, <2>1, <2>4, PriceRunStep
<1> QED
  BY <1>1, <1>2 DEF Gate

LEMMA SentStep ==
  ASSUME PriceInv, NEW r \in Runs, Sent(r)
  PROVE  PriceInv'
<1>1. /\ UNCHANGED <<base, cycles, batch>> /\ run[r].pc = "batches" /\ Left(r) = {}
      /\ Goto(r, "delivered") /\ holder' = holder
  BY DEF Sent, At
<1>2. PriceOnlyRun(r) /\ Unmoved(run[r], run'[r]) /\ run'[r].pc = "delivered"
  BY <1>1, PriceGoes DEF PCs
<1>3. Served(run[r].cyc)'
  BY <1>1, <1>2 DEF Left, Cyc, Served, Unmoved
<1>4. PricePlaced(r) /\ Pending' = Pending
  BY <1>1 DEF PriceInv, Pending
<1>5. PricePlaced(r)' /\ run'[r].pc \notin PriceInCase
  BY <1>1, <1>2, <1>3, <1>4 DEF PricePlaced, Unmoved, Past, WithBatch, PriceInCase
<1> QED
  BY <1>1, <1>2, <1>5, PriceRunStep

LEMMA RecoverStep ==
  ASSUME PriceInv, NEW r \in Runs, Recover(r)
  PROVE  PriceInv'
<1>1. UNCHANGED <<base, cycles, batch>> /\ run[r].pc = "recover" /\ holder' = holder
  BY DEF Recover, At
<1>2. \/ PriceOnlyRun(r) /\ Unmoved(run[r], run'[r]) /\ run'[r].pc = "deliver"
      \/ PriceOnlyRun(r) /\ Unmoved(run[r], run'[r]) /\ run'[r].pc = "failed"
                /\ run'[r].then = "unknown"
  <2>1. CASE Goto(r, "deliver")
    BY <1>1, <2>1, PriceGoes DEF PCs
  <2>2. CASE Fail(r, "unknown")
    BY <1>1, <2>2, GoesAnd DEF PCs, Fail
  <2> QED
    BY <2>1, <2>2 DEF Recover
<1>3. PricePlaced(r) /\ Pending' = Pending
  BY <1>1 DEF PriceInv, Pending
<1>4. PricePlaced(r)' /\ run'[r].pc \notin PriceInCase
  BY <1>1, <1>2, <1>3 DEF PricePlaced, Unmoved, Past, WithBatch, PriceInCase
<1> QED
  BY <1>1, <1>2, <1>4, PriceRunStep

LEMMA DisconnectStep ==
  ASSUME PriceInv, NEW r \in Runs, Disconnect(r)
  PROVE  PriceInv'
<1>1. PICK v : v = [run[r] EXCEPT !.conn = FALSE]
  OBVIOUS
<1>2. run[r] \in Processes /\ holder = r
  BY DEF PriceInv, TypeOK, Disconnect
<1>3. /\ v \in Processes /\ ~v.conn /\ v.pc = run[r].pc /\ v.then = run[r].then
      /\ v.cyc = run[r].cyc /\ v.bat = run[r].bat /\ v.state = run[r].state
  BY <1>1, <1>2 DEF Processes
<1>4. /\ run' \in [Runs -> Processes] /\ run'[r] = v
      /\ \A s \in Runs : s # r => run'[s] = run[s]
  BY <1>1, <1>3 DEF PriceInv, TypeOK, Disconnect
<1>5. /\ holder' \in Runs \cup {None} /\ holder' # r
      /\ \A s \in Runs : s # r => (holder' = s <=> holder = s)
  BY <1>2, LivePriceAssumption DEF Disconnect
<1>6. PriceOnlyRun(r)
  BY <1>3, <1>4, <1>5 DEF PriceOnlyRun
<1>7. UNCHANGED <<base, cycles, batch>>
  BY DEF Disconnect
<1>8. PricePlaced(r) /\ Bat(r)' = Bat(r) /\ (Served(run[r].cyc) => Served(run[r].cyc)')
  BY <1>3, <1>4, <1>7 DEF PriceInv, Bat, Served
<1>9. PricePlaced(r)'
  BY <1>3, <1>4, <1>7, <1>8 DEF PricePlaced, Served
<1>10. TypeOK' /\ Alone' /\ PriceCounted'
  BY <1>6, <1>7 DEF PriceInv, TypeOK, Alone, PriceCounted, Pending, PriceOnlyRun
<1>11. \A c \in DOMAIN cycles' : Truthful(c)'
  BY <1>7 DEF PriceInv, Truthful, Served, Pending
<1>12. \A s \in Runs : PricePlaced(s)'
  <2>1. Grown
    BY <1>7 DEF Grown
  <2>2. CellsKept(r)
    BY <1>7, Zenon DEF CellsKept
  <2> QED
    BY <1>6, <1>7, <1>9, <2>1, <2>2, OtherRuns DEF PriceOnlyRun
<1>13. \A s, t \in Runs : PriceApart(s, t)'
  BY <1>3, <1>4 DEF PriceInv, PriceApart
<1> QED
  BY <1>10, <1>11, <1>12, <1>13 DEF PriceInv

LEMMA CopyOriginStep ==
  ASSUME PriceInv, NEW r \in Runs, CopyOrigin(r)
  PROVE  PriceInv'
<1>1. /\ UNCHANGED <<cycles, batch, holder, run>> /\ base' = Legacy
      /\ run[r].conn /\ run[r].pc = "observe"
  BY DEF CopyOrigin, At
<1>2. Pending = {} /\ Pending' = {}
  BY <1>1 DEF PriceInv, PricePlaced, Pending
<1>3. TypeOK' /\ Alone' /\ PriceCounted'
  BY <1>1, <1>2, LivePriceAssumption DEF PriceInv, TypeOK, Alone, PriceCounted
<1>4. \A c \in DOMAIN cycles' : Truthful(c)'
  BY SMTT(30), <1>1, <1>2 DEF PriceInv, Truthful, Served
<1>5. \A s \in Runs : PricePlaced(s)'
  BY <1>1, <1>2 DEF PriceInv, PricePlaced, Bat, Served
<1>6. \A s, t \in Runs : PriceApart(s, t)'
  BY <1>1 DEF PriceInv, PriceApart
<1> QED
  BY <1>3, <1>4, <1>5, <1>6 DEF PriceInv
-----------------------------------------------------------------------------
(* The steps on one batch.                                                 *)
LEMMA PriceInRange ==
  ASSUME PriceInv, NEW r \in Runs, run[r].pc \in WithBatch
  PROVE  /\ run[r].cyc \in CycleIds /\ run[r].cyc \in DOMAIN cycles
         /\ run[r].bat \in BatchIds /\ Bat(r) \in Batches
         /\ Bat(r) = batch[run[r].cyc][run[r].bat]
<1>1. run[r].cyc \in DOMAIN cycles /\ run[r].bat \in DOMAIN cycles[run[r].cyc].notices
  BY DEF PriceInv, PricePlaced, WithBatch, PriceInCase, Past
<1>2. DOMAIN cycles[run[r].cyc].notices \subseteq BatchIds
  BY <1>1 DEF PriceInv, Truthful
<1>3. run[r].cyc \in CycleIds
  BY <1>1, PriceJournal DEF PriceInv
<1> QED
  BY <1>1, <1>2, <1>3 DEF PriceInv, TypeOK, Bat

LEMMA CellWritten ==
  ASSUME PriceInv, NEW r \in Runs, NEW w \in Batches, SetBat(r, w),
         run[r].cyc \in CycleIds, run[r].bat \in BatchIds
  PROVE  OnlyBat(run[r].cyc, run[r].bat) /\ batch'[run[r].cyc][run[r].bat] = w
BY DEF PriceInv, TypeOK, SetBat, OnlyBat

LEMMA TakeCaseStep ==
  ASSUME PriceInv, NEW r \in Runs, TakeCase(r)
  PROVE  PriceInv'
<1>1. UNCHANGED <<base, cycles, holder>> /\ run[r].pc = "deliver"
  BY DEF TakeCase, At
<1>2. PricePlaced(r) /\ Pending' = Pending
  BY <1>1 DEF PriceInv, Pending
<1>3. CASE Fail(r, "unknown") /\ batch' = batch
  <2>1. PriceOnlyRun(r) /\ Unmoved(run[r], run'[r]) /\ run'[r].pc = "failed" /\ run'[r].then = "unknown"
    BY <1>1, <1>3, GoesAnd DEF PCs, Fail
  <2>2. PricePlaced(r)' /\ run'[r].pc \notin PriceInCase
    BY <1>1, <1>2, <2>1 DEF PricePlaced, Unmoved, Past, WithBatch, PriceInCase
  <2> QED
    BY <1>1, <1>3, <2>1, <2>2, PriceRunStep
<1>4. CASE /\ ~Bat(r).lock /\ SetBat(r, [Bat(r) EXCEPT !.lock = TRUE]) /\ Goto(r, "bind")
  <2> DEFINE c == run[r].cyc
             b == run[r].bat
  <2>1. PriceOnlyRun(r) /\ Unmoved(run[r], run'[r]) /\ run'[r].pc = "bind"
    BY <1>1, <1>4, PriceGoes DEF PCs
  <2>2. /\ c \in CycleIds /\ c \in DOMAIN cycles /\ b \in BatchIds /\ Bat(r) \in Batches
        /\ Bat(r) = batch[c][b]
    BY <1>1, PriceInRange DEF WithBatch
  <2>3. PICK w : w = [Bat(r) EXCEPT !.lock = TRUE]
    OBVIOUS
  <2>4. w \in Batches /\ w.lock /\ w.prog = batch[c][b].prog /\ w.sent = batch[c][b].sent
    BY <2>2, <2>3 DEF Batches
  <2>5. OnlyBat(c, b) /\ batch'[c][b] = w
    BY <1>4, <2>2, <2>3, <2>4, CellWritten
  <2>6. run'[r].cyc = c /\ run'[r].bat = b /\ run'[r].conn = run[r].conn
    BY <2>1 DEF Unmoved
  <2>7. Bat(r)' = w
    BY <2>5, <2>6 DEF Bat
  <2>8. PricePlaced(r)'
    BY <1>1, <1>2, <2>1, <2>4, <2>6, <2>7 DEF PricePlaced, Past, WithBatch, PriceInCase
  <2>9. /\ w.sent \in {0, 1}
        /\ w.prog \in {"none", "bound", "failed"} => w.sent = 0
        /\ w.prog = "accepted" => w.sent = 1
    BY <2>2, <2>4 DEF PriceInv, PriceCounted
  <2> HIDE DEF c, b
  <2>10. c = run[r].cyc /\ b = run[r].bat /\ ~batch[c][b].lock
    BY SMTT(30), <1>4, <2>2 DEF c, b
  <2> QED
    BY <1>1, <2>1, <2>2, <2>4, <2>5, <2>6, <2>8, <2>9, <2>10, PriceCaseStep
<1> QED
  BY <1>1, <1>3, <1>4 DEF TakeCase
(* A step inside the case, or out of it.                                   *)
LEMMA PriceInCaseStep ==
  ASSUME PriceInv, NEW r \in Runs, run[r].pc \in PriceInCase,
         UNCHANGED <<base, cycles, holder>>, PriceOnlyRun(r), Unmoved(run[r], run'[r]),
         OnlyBat(run[r].cyc, run[r].bat),
         NEW w \in Batches, w = batch'[run[r].cyc][run[r].bat],
         Bat(r).prog = "accepted" => w.prog = "accepted",
         w.sent \in {0, 1},
         w.prog \in {"none", "bound", "failed"} => w.sent = 0,
         w.prog = "accepted" => w.sent = 1,
         run'[r].pc \in {"attempt", "answer", "release", "receipt", "failed"},
         run'[r].pc \in PriceInCase => w.lock,
         run'[r].pc = "attempt" => w.prog \in {"bound", "failed"},
         run'[r].pc = "answer" => w.prog = "doubt" /\ w.sent = 0,
         run'[r].pc = "release" => run'[r].then # "none",
         run'[r].pc = "release" /\ run'[r].then = "receipt" => w.prog = "accepted",
         run'[r].pc = "receipt" => w.prog = "accepted",
         run'[r].pc = "failed" => run'[r].then \in {"failed", "unknown"}
  PROVE  PriceInv'
<1>1. PICK c, b : c = run[r].cyc /\ b = run[r].bat
  BY SMTT(30)
<1>2. /\ c \in CycleIds /\ c \in DOMAIN cycles /\ b \in BatchIds /\ Bat(r) = batch[c][b]
  BY SMTT(30), <1>1, PriceInRange DEF WithBatch
<1>3. OnlyBat(c, b) /\ batch'[c][b] = w
  BY SMTT(30), <1>1
<1>4. run'[r].cyc = c /\ run'[r].bat = b /\ run'[r].conn = run[r].conn
  BY SMTT(30), <1>1 DEF Unmoved
<1>5. Bat(r)' = w
  BY SMTT(30), <1>3, <1>4 DEF Bat
<1>6. PricePlaced(r) /\ Pending' = Pending
  BY SMTT(30) DEF PriceInv, Pending
<1>7. PricePlaced(r)'
  BY <1>1, <1>2, <1>4, <1>5, <1>6 DEF PricePlaced, Past, WithBatch, PriceInCase
<1> QED
  BY SMTT(30), <1>1, <1>2, <1>3, <1>4, <1>7, PriceCaseStep

LEMMA BatStays ==
  ASSUME PriceInv, NEW r \in Runs, run[r].pc \in WithBatch, batch' = batch
  PROVE  /\ OnlyBat(run[r].cyc, run[r].bat) /\ Bat(r) \in Batches
         /\ Bat(r) = batch'[run[r].cyc][run[r].bat]
BY PriceInRange DEF PriceInv, TypeOK, OnlyBat

LEMMA BatCounted ==
  ASSUME PriceInv, NEW r \in Runs, run[r].pc \in WithBatch
  PROVE  /\ Bat(r).sent \in {0, 1}
         /\ Bat(r).prog \in {"none", "bound", "failed"} => Bat(r).sent = 0
         /\ Bat(r).prog = "accepted" => Bat(r).sent = 1
BY SMTT(30), PriceInRange DEF PriceInv, PriceCounted

(* A case that is refused before anything is sent.                         *)
LEMMA RefusedStep ==
  ASSUME PriceInv, NEW r \in Runs, run[r].pc \in {"bind", "attempt"},
         UNCHANGED <<base, cycles, holder, batch>>,
         run' = [run EXCEPT ![r].pc = "release", ![r].then = "unknown"]
  PROVE  PriceInv'
<1> USE DEF WithBatch, PriceInCase
<1>1. /\ PriceOnlyRun(r) /\ Unmoved(run[r], run'[r])
      /\ run'[r].pc = "release" /\ run'[r].then = "unknown"
  BY GoesAnd DEF PCs
<1>2. PICK w : w = Bat(r)
  OBVIOUS
<1>3. /\ OnlyBat(run[r].cyc, run[r].bat) /\ w \in Batches
      /\ w = batch'[run[r].cyc][run[r].bat]
  BY <1>2, BatStays
<1>4. /\ w.sent \in {0, 1}
      /\ w.prog \in {"none", "bound", "failed"} => w.sent = 0
      /\ w.prog = "accepted" => w.sent = 1
  BY <1>2, BatCounted
<1>5. Bat(r).lock
  BY DEF PriceInv, PricePlaced
<1> QED
  BY <1>1, <1>2, <1>3, <1>4, <1>5, PriceInCaseStep

LEMMA BindStep ==
  ASSUME PriceInv, NEW r \in Runs, Bind(r)
  PROVE  PriceInv'
<1> USE DEF WithBatch, PriceInCase
<1>1. UNCHANGED <<base, cycles, holder>> /\ run[r].pc = "bind"
  BY DEF Bind, At
<1>2. CASE /\ run' = [run EXCEPT ![r].pc = "release", ![r].then = "unknown"]
           /\ batch' = batch
  BY <1>1, <1>2, RefusedStep
<1>3. CASE /\ SetBat(r, [Bat(r) EXCEPT !.prog = IF @ = "none" THEN "bound" ELSE @])
           /\ run' = [run EXCEPT ![r].pc = IF Bat(r).prog = "doubt" THEN "release"
                                           ELSE IF Bat(r).prog = "accepted" THEN "release"
                                           ELSE "attempt",
                                 ![r].then = IF Bat(r).prog = "accepted" THEN "receipt"
                                             ELSE "unknown"]
  <2>1. PICK p : p = IF Bat(r).prog \in {"doubt", "accepted"} THEN "release" ELSE "attempt"
    OBVIOUS
  <2>2. PICK t : t = IF Bat(r).prog = "accepted" THEN "receipt" ELSE "unknown"
    OBVIOUS
  <2>3. run' = [run EXCEPT ![r].pc = p, ![r].then = t]
    BY <1>3, <2>1, <2>2
  <2>4. PriceOnlyRun(r) /\ Unmoved(run[r], run'[r]) /\ run'[r].pc = p /\ run'[r].then = t
    <3>1. p \in PCs /\ t \in {"none", "receipt", "failed", "unknown"}
      BY <2>1, <2>2 DEF PCs
    <3> QED
      BY <1>1, <2>3, <3>1, GoesAnd
  <2>5. /\ run[r].cyc \in CycleIds /\ run[r].bat \in BatchIds /\ Bat(r) \in Batches
    BY <1>1, PriceInRange
  <2>6. PICK w : w = [Bat(r) EXCEPT !.prog = IF @ = "none" THEN "bound" ELSE @]
    OBVIOUS
  <2>7. /\ w \in Batches /\ w.sent = Bat(r).sent /\ w.lock = Bat(r).lock
        /\ w.prog = IF Bat(r).prog = "none" THEN "bound" ELSE Bat(r).prog
    BY <2>5, <2>6 DEF Batches
  <2>8. OnlyBat(run[r].cyc, run[r].bat) /\ w = batch'[run[r].cyc][run[r].bat]
    BY <1>3, <2>5, <2>6, <2>7, CellWritten
  <2>9. Bat(r).lock
    BY <1>1 DEF PriceInv, PricePlaced
  <2>10. /\ w.sent \in {0, 1}
         /\ w.prog \in {"none", "bound", "failed"} => w.sent = 0
         /\ w.prog = "accepted" => w.sent = 1
    BY <1>1, <2>7, BatCounted
  <2>11. Bat(r).prog \in {"none", "bound", "doubt", "failed", "accepted"}
    BY <2>5 DEF Batches
  <2> QED
    BY <1>1, <2>1, <2>2, <2>4, <2>7, <2>8, <2>9, <2>10, <2>11, PriceInCaseStep
<1> QED
  BY <1>2, <1>3 DEF Bind

LEMMA AttemptStep ==
  ASSUME PriceInv, NEW r \in Runs, Attempt(r)
  PROVE  PriceInv'
<1> USE DEF WithBatch, PriceInCase
<1>1. UNCHANGED <<base, cycles, holder>> /\ run[r].pc = "attempt"
  BY DEF Attempt, At
<1>2. CASE /\ run' = [run EXCEPT ![r].pc = "release", ![r].then = "unknown"]
           /\ batch' = batch
  BY <1>1, <1>2, RefusedStep
<1>3. CASE /\ SetBat(r, [Bat(r) EXCEPT !.prog = "doubt"])
           /\ run' = [run EXCEPT ![r].pc = "answer"]
  <2>1. PriceOnlyRun(r) /\ Unmoved(run[r], run'[r]) /\ run'[r].pc = "answer"
    BY <1>1, <1>3, PriceGoes DEF PCs, Goto
  <2>2. /\ run[r].cyc \in CycleIds /\ run[r].bat \in BatchIds /\ Bat(r) \in Batches
    BY <1>1, PriceInRange
  <2>3. PICK w : w = [Bat(r) EXCEPT !.prog = "doubt"]
    OBVIOUS
  <2>4. w \in Batches /\ w.sent = Bat(r).sent /\ w.lock = Bat(r).lock /\ w.prog = "doubt"
    BY <2>2, <2>3 DEF Batches
  <2>5. OnlyBat(run[r].cyc, run[r].bat) /\ w = batch'[run[r].cyc][run[r].bat]
    BY <1>3, <2>2, <2>3, <2>4, CellWritten
  <2>6. Bat(r).lock /\ Bat(r).prog \in {"bound", "failed"}
    BY <1>1 DEF PriceInv, PricePlaced
  <2>7. w.sent = 0
    BY SMTT(30), <1>1, <2>4, <2>6, BatCounted
  <2> QED
    BY <1>1, <2>1, <2>4, <2>5, <2>6, <2>7, PriceInCaseStep
<1> QED
  BY <1>2, <1>3 DEF Attempt

(* The answer of the provider, whichever it was.                           *)
LEMMA PriceAnswerStep ==
  ASSUME PriceInv, NEW r \in Runs, Answered(r)
  PROVE  PriceInv'
<1> USE DEF WithBatch, PriceInCase
<1>1. UNCHANGED <<base, cycles, holder>> /\ run[r].pc = "answer"
  BY DEF Answered, At
<1>2. PICK p \in {"accepted", "failed", "doubt"}, n \in 0..1 :
        /\ p = "accepted" => n = 1
        /\ p = "failed" => n = 0
        /\ SetBat(r, [Bat(r) EXCEPT !.prog = p, !.sent = @ + n])
        /\ run' = [run EXCEPT ![r].pc = "release",
                              ![r].then = CASE p = "accepted" -> "receipt"
                                            [] p = "failed" -> "failed"
                                            [] p = "doubt" -> "unknown"]
  BY DEF Answered
<1>3. PICK t : t = IF p = "accepted" THEN "receipt" ELSE IF p = "failed" THEN "failed"
                   ELSE "unknown"
  OBVIOUS
<1>4. t = CASE p = "accepted" -> "receipt" [] p = "failed" -> "failed" [] p = "doubt" -> "unknown"
  BY <1>3
<1>5. run' = [run EXCEPT ![r].pc = "release", ![r].then = t]
  BY <1>2, <1>4
<1>6. PriceOnlyRun(r) /\ Unmoved(run[r], run'[r]) /\ run'[r].pc = "release" /\ run'[r].then = t
  <2>1. "release" \in PCs /\ t \in {"none", "receipt", "failed", "unknown"}
    BY <1>3 DEF PCs
  <2> QED
    BY <1>1, <1>5, <2>1, GoesAnd
<1>7. /\ run[r].cyc \in CycleIds /\ run[r].bat \in BatchIds /\ Bat(r) \in Batches
  BY <1>1, PriceInRange
<1>8. Bat(r).lock /\ Bat(r).prog = "doubt" /\ Bat(r).sent = 0
  BY <1>1 DEF PriceInv, PricePlaced
<1>9. PICK w : w = [Bat(r) EXCEPT !.prog = p, !.sent = @ + n]
  OBVIOUS
<1>10. w \in Batches /\ w.sent = n /\ w.lock /\ w.prog = p
  <2>1. n \in {0, 1} /\ p \in {"accepted", "failed", "doubt"}
    BY <1>2
  <2>2. Bat(r).sent + n = n
    BY <1>8, <2>1
  <2>3. w.prog = p /\ w.lock = Bat(r).lock /\ w.sent = Bat(r).sent + n
    BY <1>7, <1>9 DEF Batches
  <2>4. w = [prog |-> p, lock |-> Bat(r).lock, sent |-> n]
    BY <1>7, <1>9, <2>2 DEF Batches
  <2>5. w \in Batches
    BY <1>7, <2>1, <2>4 DEF Batches
  <2> QED
    BY <1>8, <2>2, <2>3, <2>5
<1>11. OnlyBat(run[r].cyc, run[r].bat) /\ w = batch'[run[r].cyc][run[r].bat]
  BY <1>2, <1>7, <1>9, <1>10, CellWritten
<1>12. n \in {0, 1}
  BY <1>2
<1> QED
  BY <1>1, <1>2, <1>3, <1>6, <1>8, <1>10, <1>11, <1>12, PriceInCaseStep

LEMMA ReleaseStep ==
  ASSUME PriceInv, NEW r \in Runs, ReleaseCase(r)
  PROVE  PriceInv'
<1> USE DEF WithBatch, PriceInCase
<1>1. UNCHANGED <<base, cycles, holder>> /\ run[r].pc = "release"
  BY DEF ReleaseCase, At
<1>2. PICK p : p = IF run[r].then = "receipt" THEN "receipt" ELSE "failed"
  OBVIOUS
<1>3. /\ PriceOnlyRun(r) /\ Unmoved(run[r], run'[r]) /\ run'[r].pc = p
      /\ run'[r].then = run[r].then
  <2>1. Goto(r, p) /\ p \in PCs
    BY <1>2 DEF ReleaseCase, PCs
  <2> QED
    BY <1>1, <2>1, PriceGoes
<1>4. /\ run[r].cyc \in CycleIds /\ run[r].bat \in BatchIds /\ Bat(r) \in Batches
  BY <1>1, PriceInRange
<1>5. PICK w : w = [Bat(r) EXCEPT !.lock = FALSE]
  OBVIOUS
<1>6. w \in Batches /\ w.sent = Bat(r).sent /\ w.prog = Bat(r).prog
  BY <1>4, <1>5 DEF Batches
<1>7. OnlyBat(run[r].cyc, run[r].bat) /\ w = batch'[run[r].cyc][run[r].bat]
  BY <1>4, <1>5, <1>6, CellWritten DEF ReleaseCase
<1>8. /\ run[r].then \in {"receipt", "failed", "unknown"}
      /\ run[r].then = "receipt" => Bat(r).prog = "accepted"
  BY <1>1 DEF PriceInv, PricePlaced, TypeOK, Processes
<1>9. /\ w.sent \in {0, 1}
      /\ w.prog \in {"none", "bound", "failed"} => w.sent = 0
      /\ w.prog = "accepted" => w.sent = 1
  BY <1>1, <1>6, BatCounted
<1> QED
  BY <1>1, <1>2, <1>3, <1>6, <1>7, <1>8, <1>9, PriceInCaseStep
-----------------------------------------------------------------------------
(* The steps on the entry of the journal.                                  *)
LEMMA InCycle ==
  ASSUME PriceInv, NEW r \in Runs, run[r].pc \in Past, run[r].conn
  PROVE  /\ run[r].cyc \in DOMAIN cycles /\ Cyc(r) \in Cycles
         /\ Cyc(r) = cycles[run[r].cyc] /\ Truthful(run[r].cyc)
         /\ run[r].cyc \in Pending /\ Cyc(r).status \notin {"blocked", "committed"}
<1>1. run[r].cyc \in DOMAIN cycles /\ run[r].cyc \in Pending
  BY DEF PriceInv, PricePlaced
<1>2. cycles[run[r].cyc] \in Cycles /\ Truthful(run[r].cyc)
  BY <1>1, PriceJournal DEF PriceInv
<1> QED
  BY <1>1, <1>2 DEF Cyc, Pending

LEMMA CycWritten ==
  ASSUME PriceInv, NEW r \in Runs, NEW e \in Cycles, SetCyc(r, e), run[r].cyc \in DOMAIN cycles
  PROVE  OnlyCyc(run[r].cyc) /\ cycles'[run[r].cyc] = e
<1>1. cycles \in Seq(Cycles)
  BY DEF PriceInv, TypeOK
<1> QED
  BY <1>1, ExceptSeq DEF SetCyc, OnlyCyc

(* What the entry may become, and where the run may go with it.            *)
LEMMA PriceEntryStep ==
  ASSUME PriceInv, NEW r \in Runs, run[r].pc \in Past, run[r].conn, PriceOnlyRun(r), batch' = batch,
         NEW e \in Cycles, SetCyc(r, e),
         e.before = Cyc(r).before, e.after = Cyc(r).after, e.notices = Cyc(r).notices,
         Cyc(r).receipts \subseteq e.receipts,
         \A b \in e.receipts : batch[run[r].cyc][b].prog = "accepted",
         e.status # "blocked",
         e.status \in {"delivered", "committed"} => DOMAIN e.notices \subseteq e.receipts,
         base' \in Lists \cup {None}, base' # base => e.status = "committed",
         run'[r] # Home =>
           /\ run'[r].cyc = run[r].cyc /\ run'[r].conn /\ e.status # "committed"
           /\ run'[r].pc \in {"batches", "recover", "deliver", "commit"}
           /\ run'[r].pc \in {"recover", "deliver"} => run'[r].bat \in DOMAIN e.notices
           /\ run'[r].pc = "commit" => DOMAIN e.notices \subseteq e.receipts
  PROVE  PriceInv'
<1>1. PICK c : c = run[r].cyc
  OBVIOUS
<1>2. /\ c \in DOMAIN cycles /\ Cyc(r) = cycles[c] /\ c \in Pending
  BY <1>1, InCycle
<1>3. OnlyCyc(c) /\ cycles'[c] = e
  BY <1>1, <1>2, CycWritten
<1>4. c \in DOMAIN cycles'
  <2>1. DOMAIN cycles = 1..Len(cycles)
    BY PriceJournal DEF PriceInv
  <2> QED
    BY <1>2, <1>3, <2>1 DEF OnlyCyc
<1>5. PricePlaced(r)' /\ run'[r].pc \notin PriceInCase
  <2>1. CASE run'[r] = Home
    BY <2>1 DEF Home, PricePlaced, Past, WithBatch, PriceInCase
  <2>2. CASE run'[r] # Home
    <3>1. e.status # "committed" => c \in Pending'
      BY <1>3, <1>4 DEF Pending
    <3> QED
      BY <1>1, <1>3, <1>4, <2>2, <3>1 DEF PricePlaced, Served, Past, WithBatch, PriceInCase
  <2> QED
    BY <2>1, <2>2
<1>6. /\ \A b \in cycles'[c].receipts : batch[c][b].prog = "accepted"
      /\ cycles'[c].status \in {"delivered", "committed"} =>
           DOMAIN cycles[c].notices \subseteq cycles'[c].receipts
      /\ cycles'[c].before = cycles[c].before /\ cycles'[c].after = cycles[c].after
      /\ cycles'[c].notices = cycles[c].notices
      /\ cycles[c].receipts \subseteq cycles'[c].receipts
      /\ cycles'[c].status # "blocked"
      /\ (base' # base => cycles'[c].status = "committed")
  BY <1>1, <1>2, <1>3
<1> QED
  BY <1>1, <1>2, <1>3, <1>5, <1>6, JournalStep

(* An entry of which only the status changes.                              *)
LEMMA Marked ==
  ASSUME PriceInv, NEW r \in Runs, run[r].pc \in Past, run[r].conn,
         NEW s \in Statuses, NEW e, e = [Cyc(r) EXCEPT !.status = s]
  PROVE  /\ e \in Cycles /\ e.status = s
         /\ e.before = Cyc(r).before /\ e.after = Cyc(r).after /\ e.notices = Cyc(r).notices
         /\ e.receipts = Cyc(r).receipts
         /\ \A b \in e.receipts : batch[run[r].cyc][b].prog = "accepted"
<1>1. /\ run[r].cyc \in DOMAIN cycles /\ Cyc(r) \in Cycles
      /\ Cyc(r) = cycles[run[r].cyc] /\ Truthful(run[r].cyc)
  BY InCycle
<1>2. /\ e \in Cycles /\ e.status = s
      /\ e.before = Cyc(r).before /\ e.after = Cyc(r).after /\ e.notices = Cyc(r).notices
      /\ e.receipts = Cyc(r).receipts
  BY <1>1 DEF Cycles
<1> QED
  BY <1>1, <1>2 DEF Truthful

LEMMA SendingStep ==
  ASSUME PriceInv, NEW r \in Runs, Sending(r)
  PROVE  PriceInv'
<1>1. /\ UNCHANGED <<base, batch, holder>> /\ run[r].pc = "sending" /\ run[r].conn
      /\ run[r].pc \in Past
  BY DEF Sending, At, Past
<1>2. PriceOnlyRun(r) /\ Unmoved(run[r], run'[r]) /\ run'[r].pc = "batches"
  BY <1>1, PriceGoes DEF PCs, Sending
<1>3. PICK e : e = [Cyc(r) EXCEPT !.status = "sending"]
  OBVIOUS
<1>4. /\ e \in Cycles /\ e.status = "sending"
      /\ e.before = Cyc(r).before /\ e.after = Cyc(r).after /\ e.notices = Cyc(r).notices
      /\ e.receipts = Cyc(r).receipts
      /\ \A b \in e.receipts : batch[run[r].cyc][b].prog = "accepted"
  BY <1>1, <1>3, Marked DEF Statuses
<1>5. SetCyc(r, e)
  BY <1>3 DEF Sending, Mark
<1>6. base' \in Lists \cup {None}
  BY <1>1 DEF PriceInv, TypeOK
<1>7. run'[r].cyc = run[r].cyc /\ run'[r].conn
  BY <1>1, <1>2 DEF Unmoved
<1> QED
  BY <1>1, <1>2, <1>4, <1>5, <1>6, <1>7, PriceEntryStep

LEMMA DeferredStep ==
  ASSUME PriceInv, NEW r \in Runs, Deferred(r)
  PROVE  PriceInv'
<1>1. /\ UNCHANGED <<base, batch>> /\ run[r].conn /\ run[r].pc \in Past
  BY DEF Deferred, At, Past
<1>2. PriceOnlyRun(r) /\ run'[r] = Home
  BY Leaves DEF Deferred
<1>3. PICK e : e = [Cyc(r) EXCEPT !.status = "planned"]
  OBVIOUS
<1>4. /\ e \in Cycles /\ e.status = "planned"
      /\ e.before = Cyc(r).before /\ e.after = Cyc(r).after /\ e.notices = Cyc(r).notices
      /\ e.receipts = Cyc(r).receipts
      /\ \A b \in e.receipts : batch[run[r].cyc][b].prog = "accepted"
  BY <1>1, <1>3, Marked DEF Statuses
<1>5. SetCyc(r, e)
  BY <1>3 DEF Deferred, Mark
<1>6. base' \in Lists \cup {None}
  BY <1>1 DEF PriceInv, TypeOK
<1> QED
  BY <1>1, <1>2, <1>4, <1>5, <1>6, PriceEntryStep

LEMMA FailedStep ==
  ASSUME PriceInv, NEW r \in Runs, Failed(r)
  PROVE  PriceInv'
<1>1. /\ UNCHANGED <<base, batch>> /\ run[r].conn /\ run[r].pc \in Past
      /\ run[r].pc = "failed"
  BY DEF Failed, At, Past
<1>2. PriceOnlyRun(r) /\ run'[r] = Home
  BY Leaves DEF Failed
<1>3. run[r].then \in {"failed", "unknown"}
  BY <1>1 DEF PriceInv, PricePlaced
<1>4. PICK e : e = [Cyc(r) EXCEPT !.status = run[r].then]
  OBVIOUS
<1>5. /\ e \in Cycles /\ e.status = run[r].then
      /\ e.before = Cyc(r).before /\ e.after = Cyc(r).after /\ e.notices = Cyc(r).notices
      /\ e.receipts = Cyc(r).receipts
      /\ \A b \in e.receipts : batch[run[r].cyc][b].prog = "accepted"
  BY <1>1, <1>3, <1>4, Marked DEF Statuses
<1>6. SetCyc(r, e)
  BY <1>4 DEF Failed, Mark
<1>7. base' \in Lists \cup {None}
  BY <1>1 DEF PriceInv, TypeOK
<1>8. e.status \notin {"blocked", "delivered", "committed"}
  BY <1>3, <1>5
<1> QED
  BY <1>1, <1>2, <1>5, <1>6, <1>7, <1>8, PriceEntryStep

LEMMA DeliveredStep ==
  ASSUME PriceInv, NEW r \in Runs, Delivered(r)
  PROVE  PriceInv'
<1>1. /\ UNCHANGED <<base, batch, holder>> /\ run[r].pc = "delivered" /\ run[r].conn
      /\ run[r].pc \in Past
  BY DEF Delivered, At, Past
<1>2. PriceOnlyRun(r) /\ Unmoved(run[r], run'[r]) /\ run'[r].pc = "commit"
  BY <1>1, PriceGoes DEF PCs, Delivered
<1>3. PICK e : e = [Cyc(r) EXCEPT !.status = "delivered"]
  OBVIOUS
<1>4. /\ e \in Cycles /\ e.status = "delivered"
      /\ e.before = Cyc(r).before /\ e.after = Cyc(r).after /\ e.notices = Cyc(r).notices
      /\ e.receipts = Cyc(r).receipts
      /\ \A b \in e.receipts : batch[run[r].cyc][b].prog = "accepted"
  BY <1>1, <1>3, Marked DEF Statuses
<1>5. SetCyc(r, e)
  BY <1>3 DEF Delivered, Mark
<1>6. base' \in Lists \cup {None}
  BY <1>1 DEF PriceInv, TypeOK
<1>7. run'[r].cyc = run[r].cyc /\ run'[r].conn
  BY <1>1, <1>2 DEF Unmoved
<1>8. DOMAIN e.notices \subseteq e.receipts
  BY <1>1, <1>4 DEF PriceInv, PricePlaced, Served, Cyc
<1> QED
  BY <1>1, <1>2, <1>4, <1>5, <1>6, <1>7, <1>8, PriceEntryStep

LEMMA CommitStep ==
  ASSUME PriceInv, NEW r \in Runs, Commit(r)
  PROVE  PriceInv'
<1>1. /\ batch' = batch /\ run[r].conn /\ run[r].pc \in Past
      /\ run[r].pc = "commit" /\ base' = Cyc(r).after
  BY DEF Commit, At, Past
<1>2. PriceOnlyRun(r) /\ run'[r] = Home
  BY Leaves DEF Commit
<1>3. PICK e : e = [Cyc(r) EXCEPT !.status = "committed"]
  OBVIOUS
<1>4. /\ e \in Cycles /\ e.status = "committed"
      /\ e.before = Cyc(r).before /\ e.after = Cyc(r).after /\ e.notices = Cyc(r).notices
      /\ e.receipts = Cyc(r).receipts
      /\ \A b \in e.receipts : batch[run[r].cyc][b].prog = "accepted"
  BY <1>1, <1>3, Marked DEF Statuses
<1>5. SetCyc(r, e)
  BY <1>3 DEF Commit, Mark
<1>6. base' \in Lists \cup {None}
  BY <1>1, InCycle DEF Cycles
<1>7. DOMAIN e.notices \subseteq e.receipts
  BY <1>1, <1>4 DEF PriceInv, PricePlaced, Served, Cyc
<1> QED
  BY <1>1, <1>2, <1>4, <1>5, <1>6, <1>7, PriceEntryStep
LEMMA ReceiptStep ==
  ASSUME PriceInv, NEW r \in Runs, Receipt(r)
  PROVE  PriceInv'
<1>1. /\ UNCHANGED <<base, batch, holder>> /\ run[r].pc = "receipt" /\ run[r].conn
      /\ run[r].pc \in Past /\ run[r].pc \in WithBatch
  BY DEF Receipt, At, Past, WithBatch
<1>2. PICK v : v = [run[r] EXCEPT !.pc = "batches", !.sentone = TRUE, !.state = "planned"]
  OBVIOUS
<1>3. run[r] \in Processes
  BY DEF PriceInv, TypeOK
<1>4. /\ v \in Processes /\ v.pc = "batches" /\ v.conn = run[r].conn /\ v.cyc = run[r].cyc
  BY <1>2, <1>3 DEF Processes, PCs, Statuses
<1>5. run' = [run EXCEPT ![r] = v]
  BY <1>2, <1>3 DEF Receipt, PriceInv, TypeOK, Processes
<1>6. PriceOnlyRun(r) /\ run'[r] = v
  BY <1>1, <1>4, <1>5, PriceStays
<1>7. PICK b : b = run[r].bat
  OBVIOUS
<1>8. PICK e : e = [Cyc(r) EXCEPT !.status = "planned", !.receipts = @ \cup {b}]
  OBVIOUS
<1>9. /\ Cyc(r) \in Cycles /\ Cyc(r) = cycles[run[r].cyc] /\ Truthful(run[r].cyc)
  BY <1>1, InCycle
<1>10. b \in BatchIds /\ batch[run[r].cyc][b].prog = "accepted"
  <2>1. Bat(r).prog = "accepted"
    BY <1>1 DEF PriceInv, PricePlaced
  <2> QED
    BY <1>1, <1>7, <2>1, PriceInRange
<1>11. /\ e \in Cycles /\ e.status = "planned"
       /\ e.before = Cyc(r).before /\ e.after = Cyc(r).after /\ e.notices = Cyc(r).notices
       /\ e.receipts = Cyc(r).receipts \cup {b}
  BY <1>8, <1>9, <1>10 DEF Cycles, Statuses
<1>12. \A d \in e.receipts : batch[run[r].cyc][d].prog = "accepted"
  BY <1>9, <1>10, <1>11 DEF Truthful
<1>13. SetCyc(r, e)
  BY <1>7, <1>8 DEF Receipt
<1>14. base' \in Lists \cup {None}
  BY <1>1 DEF PriceInv, TypeOK
<1> QED
  BY <1>1, <1>4, <1>6, <1>11, <1>12, <1>13, <1>14, PriceEntryStep

LEMMA NextBatchStep ==
  ASSUME PriceInv, NEW r \in Runs, NextBatch(r)
  PROVE  PriceInv'
<1>1. /\ UNCHANGED <<base, batch, holder>> /\ run[r].pc = "batches" /\ run[r].conn
      /\ run[r].pc \in Past
  BY DEF NextBatch, At, Past
<1>2. PICK b \in Left(r) :
        /\ SetCyc(r, [Cyc(r) EXCEPT !.status = "sending", !.active = b])
        /\ run' = [run EXCEPT ![r].bat = b,
                      ![r].pc = IF run[r].state = "sending" /\ Cyc(r).active = b
                                THEN "recover" ELSE "deliver"]
  BY DEF NextBatch
<1>3. PICK p : p = IF run[r].state = "sending" /\ Cyc(r).active = b
                   THEN "recover" ELSE "deliver"
  OBVIOUS
<1>4. PICK v : v = [run[r] EXCEPT !.bat = b, !.pc = p]
  OBVIOUS
<1>5. /\ Cyc(r) \in Cycles /\ Cyc(r) = cycles[run[r].cyc] /\ Truthful(run[r].cyc)
  BY <1>1, InCycle
<1>6. b \in DOMAIN Cyc(r).notices /\ b \in BatchIds
  BY <1>5 DEF Left, Truthful
<1>7. run[r] \in Processes /\ p \in {"recover", "deliver"}
  BY <1>3 DEF PriceInv, TypeOK
<1>8. /\ v \in Processes /\ v.pc = p /\ v.conn = run[r].conn /\ v.cyc = run[r].cyc
      /\ v.bat = b
  BY <1>4, <1>6, <1>7 DEF Processes, PCs
<1>9. run' = [run EXCEPT ![r] = v]
  <2>1. run' = [run EXCEPT ![r].bat = b, ![r].pc = p]
    BY <1>2, <1>3
  <2> QED
    BY <1>4, <1>7, <2>1 DEF PriceInv, TypeOK, Processes
<1>10. PriceOnlyRun(r) /\ run'[r] = v
  BY <1>1, <1>8, <1>9, PriceStays
<1>11. PICK e : e = [Cyc(r) EXCEPT !.status = "sending", !.active = b]
  OBVIOUS
<1>12. /\ e \in Cycles /\ e.status = "sending"
       /\ e.before = Cyc(r).before /\ e.after = Cyc(r).after /\ e.notices = Cyc(r).notices
       /\ e.receipts = Cyc(r).receipts
  BY <1>5, <1>6, <1>11 DEF Cycles, Statuses
<1>13. \A d \in e.receipts : batch[run[r].cyc][d].prog = "accepted"
  BY <1>5, <1>12 DEF Truthful
<1>14. SetCyc(r, e)
  BY <1>2, <1>11
<1>15. base' \in Lists \cup {None}
  BY <1>1 DEF PriceInv, TypeOK
<1> QED
  BY <1>1, <1>6, <1>7, <1>8, <1>10, <1>12, <1>13, <1>14, <1>15, PriceEntryStep

LEMMA BlockedStep ==
  ASSUME PriceInv, NEW r \in Runs, Blocked(r)
  PROVE  PriceInv'
<1>1. /\ UNCHANGED <<base, batch>> /\ run[r].conn /\ run[r].pc = "observe"
      /\ Len(cycles) < MaxCycles
  BY DEF Blocked, At
<1>2. PriceOnlyRun(r) /\ PricePlaced(r)' /\ run'[r].pc \notin PriceInCase
  BY Leaves DEF Blocked
<1>3. PICK e : e = Entry("blocked", base, <<>>)
  OBVIOUS
<1>4. base \in Lists \cup {None}
  BY DEF PriceInv, TypeOK
<1>5. /\ e \in Cycles /\ e.status = "blocked" /\ e.receipts = {} /\ e.before = base
      /\ DOMAIN e.notices \subseteq BatchIds
  <2>1. e = [status |-> "blocked", before |-> base, after |-> base,
             notices |-> <<>>, receipts |-> {}, active |-> 0]
    BY <1>3 DEF Entry
  <2>2. <<>> \in Seq(Keys) /\ DOMAIN <<>> = {}
    OBVIOUS
  <2> QED
    BY <1>4, <2>1, <2>2 DEF Cycles, Statuses
<1>6. cycles' = Append(cycles, e)
  BY <1>3 DEF Blocked
<1> QED
  BY <1>1, <1>2, <1>5, <1>6, AppendStep

-----------------------------------------------------------------------------
(* The notices of an observation name every changed key once.              *)
LEMMA Notices ==
  ASSUME NEW S \in SUBSET Keys
  PROVE  /\ SetToSeq(S) \in Seq(Keys) /\ ToSet(SetToSeq(S)) = S
         /\ DOMAIN SetToSeq(S) \subseteq BatchIds
<1>1. IsFiniteSet(S) /\ Cardinality(S) <= Cardinality(Keys)
  BY LivePriceAssumption, FS_Subset
<1>2. Cardinality(S) \in Nat /\ Cardinality(Keys) \in Nat
  BY <1>1, LivePriceAssumption, FS_CardinalityType
<1>3. PICK n : n = Cardinality(S)
  OBVIOUS
<1>4. ExistsBijection(1..n, S)
  BY <1>1, <1>3, FS_CardinalityType
<1>5. PICK f \in [1..n -> S] : IsInjective(f)
  BY <1>4 DEF ExistsBijection, Bijection, Injection, IsInjective
<1>6. PICK g : g = SetToSeq(S)
  OBVIOUS
<1>7. g \in [1..n -> S] /\ IsInjective(g)
  BY <1>3, <1>5, <1>6 DEF SetToSeq
<1>8. \A y \in S : \E i \in 1..n : g[i] = y
  <2>1. IsFiniteSet(1..n) /\ Cardinality(1..n) = n
    BY <1>2, <1>3, FS_Interval
  <2>2. g \in Injection(1..n, S)
    BY <1>7 DEF Injection, IsInjective
  <2>3. g \in Surjection(1..n, S)
    BY <1>1, <1>3, <2>1, <2>2, FS_Injection
  <2> QED
    BY <2>3 DEF Surjection
<1>9. g \in Seq(Keys) /\ DOMAIN g = 1..n
  BY <1>2, <1>3, <1>7
<1>10. ToSet(g) = S
  BY <1>7, <1>8, <1>9 DEF ToSet
<1>11. 1..n \subseteq BatchIds
  BY <1>1, <1>2, <1>3 DEF BatchIds
<1> QED
  BY <1>6, <1>9, <1>10, <1>11
(* The keys worth a notice are the keys whose known price moves.           *)
LEMMA MovedIsChanged ==
  ASSUME NEW b \in Lists, NEW o \in Observations
  PROVE  /\ After(b, o.rows, o.keyed) \in Lists
         /\ Changed(b, o.rows) = Moved(b, After(b, o.rows, o.keyed))
<1>1. PICK rows, keyed, a : rows = o.rows /\ keyed = o.keyed /\ a = After(b, rows, keyed)
  OBVIOUS
<1>2. rows \in Observed /\ keyed \in BOOLEAN
  BY <1>1, LivePriceAssumption
<1>3. \A k \in Keys : /\ b[k] \in Prices \cup {Absent, Unpriced}
                      /\ rows[k] \in Prices \cup {Absent, Bad}
  BY <1>2 DEF Lists, Observed
<1>4. a = [k \in Keys |-> IF rows[k] = Bad \/ (rows[k] = Absent /\ ~keyed)
                          THEN b[k] ELSE rows[k]]
  BY <1>1 DEF After
<1>5. \A k \in Keys : a[k] = b[k] \/ (a[k] = rows[k] /\ rows[k] # Bad)
  BY <1>4
<1>6. \A k \in Keys : rows[k] \in Prices => a[k] = rows[k]
  BY <1>4, LivePriceAssumption
<1>7. a \in Lists
  BY <1>3, <1>4 DEF Lists
<1>8. Changed(b, rows) = Moved(b, a)
  <2>1. \A k \in Keys : (b[k] \in Prices /\ rows[k] \in Prices /\ b[k] # rows[k])
                          <=> ({b[k], a[k]} \subseteq Prices /\ b[k] # a[k])
    BY <1>5, <1>6
  <2> QED
    BY <2>1 DEF Changed, Moved
<1> QED
  BY <1>1, <1>7, <1>8

LEMMA PlannedStep ==
  ASSUME PriceInv, NEW r \in Runs, Planned(r)
  PROVE  PriceInv'
<1>1. /\ UNCHANGED <<base, batch, holder>> /\ run[r].conn /\ run[r].pc = "observe"
      /\ Len(cycles) < MaxCycles /\ base \in Lists
  BY DEF Planned, At, PriceInv, TypeOK
<1>2. PICK o \in Observations :
        cycles' = Append(cycles, Entry("planned", After(base, o.rows, o.keyed),
                                       SetToSeq(Changed(base, o.rows))))
  BY DEF Planned
<1>3. PICK after, seq : after = After(base, o.rows, o.keyed) /\ seq = SetToSeq(Changed(base, o.rows))
  OBVIOUS
<1>4. /\ after \in Lists /\ seq \in Seq(Keys) /\ DOMAIN seq \subseteq BatchIds
      /\ ToSet(seq) = Moved(base, after)
  <2>1. after \in Lists /\ Changed(base, o.rows) = Moved(base, after)
    BY <1>1, <1>3, MovedIsChanged
  <2>2. Changed(base, o.rows) \in SUBSET Keys
    BY DEF Changed
  <2> QED
    BY <1>3, <2>1, <2>2, Notices
<1>5. PICK e : e = Entry("planned", after, seq)
  OBVIOUS
<1>6. /\ e \in Cycles /\ e.status = "planned" /\ e.receipts = {} /\ e.before = base
      /\ e.after = after /\ e.notices = seq
  <2>1. e = [status |-> "planned", before |-> base, after |-> after,
             notices |-> seq, receipts |-> {}, active |-> 0]
    BY <1>5 DEF Entry
  <2> QED
    BY <1>1, <1>4, <2>1 DEF Cycles, Statuses
<1>7. cycles' = Append(cycles, e)
  BY <1>2, <1>3, <1>5
<1>8. PICK n : n = Len(cycles) + 1
  OBVIOUS
<1>9. /\ n \in 0..MaxCycles /\ n \in DOMAIN cycles' /\ cycles'[n] = e
  <2>1. cycles \in Seq(Cycles) /\ Len(cycles) \in Nat
    BY PriceJournal DEF PriceInv, TypeOK
  <2>2. DOMAIN cycles' = 1..n /\ cycles'[n] = e
    BY <1>6, <1>7, <1>8, <2>1, AppendProperties
  <2> QED
    BY <1>1, <1>8, <2>1, <2>2, LivePriceAssumption
<1>10. PICK v : v = [run[r] EXCEPT !.pc = "gate", !.cyc = n, !.state = "planned"]
  OBVIOUS
<1>11. run[r] \in Processes
  BY DEF PriceInv, TypeOK
<1>12. /\ v \in Processes /\ v.pc = "gate" /\ v.conn = run[r].conn /\ v.cyc = n
       /\ v.state = "planned"
  BY <1>9, <1>10, <1>11 DEF Processes, PCs, Statuses
<1>13. run' = [run EXCEPT ![r] = v]
  <2>1. run' = [run EXCEPT ![r].pc = "gate", ![r].cyc = n, ![r].state = "planned"]
    BY <1>8 DEF Planned
  <2> QED
    BY <1>10, <1>11, <2>1 DEF PriceInv, TypeOK, Processes
<1>14. PriceOnlyRun(r) /\ run'[r] = v
  BY <1>1, <1>12, <1>13, PriceStays
<1>15. n \in Pending'
  BY <1>6, <1>9 DEF Pending
<1>16. PricePlaced(r)' /\ run'[r].pc \notin PriceInCase
  BY <1>6, <1>9, <1>12, <1>14, <1>15 DEF PricePlaced, Past, WithBatch, PriceInCase
<1>17. base' = base /\ e.before \in Lists /\ e.after \in Lists
       /\ ToSet(e.notices) = Moved(e.before, e.after) /\ DOMAIN e.notices \subseteq BatchIds
  BY <1>1, <1>4, <1>6
<1> QED
  BY <1>1, <1>6, <1>7, <1>14, <1>16, <1>17, AppendStep

-----------------------------------------------------------------------------
LEMMA PriceInitially == Init => PriceInv
<1> SUFFICES ASSUME Init PROVE PriceInv
  OBVIOUS
<1>1. cycles = <<>> /\ DOMAIN cycles = {} /\ Pending = {}
  BY DEF Init, Pending
<1>2. \A r \in Runs : run[r] = Home /\ Home.pc = "home" /\ ~Home.conn
  BY DEF Init, Home
<1>3. \A c \in CycleIds, b \in BatchIds :
        batch[c][b] \in Batches /\ batch[c][b].prog = "none" /\ batch[c][b].sent = 0
  BY DEF Init, Fresh, Batches
<1>4. TypeOK
  <2>1. cycles \in Seq(Cycles) /\ Len(cycles) <= MaxCycles
    BY <1>1, LivePriceAssumption
  <2>2. batch \in [CycleIds -> [BatchIds -> Batches]]
    BY DEF Init, Fresh, Batches
  <2>3. run \in [Runs -> Processes]
    BY HomeIsAProcess DEF Init
  <2> QED
    BY <1>2, <2>1, <2>2, <2>3, LivePriceAssumption DEF Init, TypeOK
<1>5. Alone /\ PriceCounted
  BY <1>1, <1>3 DEF Alone, PriceCounted
<1>6. \A r \in Runs : PricePlaced(r)
  BY <1>2 DEF PricePlaced, Past, WithBatch, PriceInCase
<1>7. \A r, s \in Runs : PriceApart(r, s)
  BY <1>2 DEF PriceApart, PriceInCase
<1> QED
  BY <1>1, <1>4, <1>5, <1>6, <1>7 DEF PriceInv

LEMMA PriceKept ==
  ASSUME PriceInv, [Next]_vars
  PROVE  PriceInv'
<1>1. CASE UNCHANGED vars
  <2>1. UNCHANGED <<base, cycles, batch, holder, run>>
    BY <1>1 DEF vars
  <2>2. TypeOK' /\ Alone' /\ PriceCounted'
    BY <2>1 DEF PriceInv, TypeOK, Alone, PriceCounted, Pending
  <2>3. \A c \in DOMAIN cycles' : Truthful(c)'
    BY SMTT(30), <2>1 DEF PriceInv, Truthful, Served, Pending
  <2>4. (\A r \in Runs : PricePlaced(r)') /\ (\A r, s \in Runs : PriceApart(r, s)')
    BY <2>1 DEF PriceInv, PricePlaced, PriceApart, Bat, Served, Pending
  <2> QED
    BY <2>2, <2>3, <2>4 DEF PriceInv
<1>2. CASE Next
  <2>1. PICK r \in Runs :
          \/ Enter(r) \/ Look(r) \/ CopyOrigin(r) \/ Blocked(r) \/ Planned(r) \/ Gate(r)
          \/ Sending(r) \/ NextBatch(r) \/ Deferred(r) \/ Sent(r)
          \/ Recover(r) \/ TakeCase(r) \/ Bind(r) \/ Attempt(r) \/ Answered(r) \/ ReleaseCase(r)
          \/ Receipt(r) \/ Failed(r) \/ Delivered(r) \/ Commit(r)
          \/ Die(r) \/ Disconnect(r)
    BY <1>2 DEF Next
  <2>2. CASE Enter(r) \/ Look(r) \/ CopyOrigin(r) \/ Gate(r) \/ Sent(r) \/ Recover(r)
               \/ Disconnect(r)
    BY <2>2, EnterStep, LookStep, CopyOriginStep, GateStep, SentStep, RecoverStep, DisconnectStep
  <2>3. CASE Blocked(r) \/ Planned(r) \/ Sending(r) \/ NextBatch(r) \/ Deferred(r)
    BY <2>3, BlockedStep, PlannedStep, SendingStep, NextBatchStep, DeferredStep
  <2>4. CASE TakeCase(r) \/ Bind(r) \/ Attempt(r) \/ Answered(r) \/ ReleaseCase(r)
    BY <2>4, TakeCaseStep, BindStep, AttemptStep, PriceAnswerStep, ReleaseStep
  <2>5. CASE Receipt(r) \/ Failed(r) \/ Delivered(r) \/ Commit(r)
    BY <2>5, ReceiptStep, FailedStep, DeliveredStep, CommitStep
  <2>6. CASE Die(r)
    BY <2>6, LeaveStep DEF Die
  <2> QED
    BY <2>1, <2>2, <2>3, <2>4, <2>5, <2>6
<1> QED
  BY <1>1, <1>2

(* Every state the runs reach, whoever dies or loses the database where,   *)
(* satisfies the inductive invariant.                                      *)
THEOREM PriceInvariance == Spec => []PriceInv
BY PriceInitially, PriceKept, PTL DEF Spec

(* The journal, the batches and the runs keep their types, and the lock of *)
(* the cycle is held by the run whose connection is up.                    *)
THEOREM PriceTypeCorrect == Spec => []TypeOK
<1>1. PriceInv => TypeOK
  BY DEF PriceInv
<1> QED
  BY PriceInvariance, <1>1, PTL
LEMMA AloneIsOne == Alone => OnePending
<1> SUFFICES ASSUME Alone PROVE Cardinality(Pending) <= 1
  BY DEF OnePending
<1>1. CASE Pending = {}
  BY <1>1, FS_EmptySet
<1>2. CASE Pending # {}
  <2>1. PICK c \in Pending : Pending = {c}
    BY <1>2 DEF Alone
  <2> QED
    BY <2>1, FS_Singleton
<1> QED
  BY <1>1, <1>2

(* No two cycles wait for their delivery on one reference.                 *)
THEOREM OneWaits == Spec => []OnePending
<1>1. PriceInv => OnePending
  BY AloneIsOne DEF PriceInv
<1> QED
  BY PriceInvariance, <1>1, PTL

-----------------------------------------------------------------------------
(* A commit: the reference becomes the newer list of the one entry that    *)
(* waits, every batch of which was accepted once.                          *)
LEMMA AtCommit ==
  ASSUME PriceInv, NEW r \in Runs, Commit(r)
  PROVE  \E c \in Pending :
           /\ c = run[r].cyc /\ c \in DOMAIN cycles /\ c \in CycleIds
           /\ cycles[c] \in Cycles /\ Truthful(c)
           /\ cycles[c].before = base /\ base' = cycles[c].after /\ base \in Lists
           /\ base' \in Lists
           /\ OnlyCyc(c) /\ cycles'[c].status = "committed"
           /\ DOMAIN cycles[c].notices \subseteq BatchIds
           /\ \A b \in DOMAIN cycles[c].notices : batch[c][b].sent = 1
<1>1. /\ batch' = batch /\ run[r].conn /\ run[r].pc \in Past
      /\ run[r].pc = "commit" /\ base' = Cyc(r).after
  BY DEF Commit, At, Past
<1>2. PICK c : c = run[r].cyc
  OBVIOUS
<1>3. /\ c \in DOMAIN cycles /\ cycles[c] \in Cycles /\ Cyc(r) = cycles[c] /\ Truthful(c)
      /\ c \in Pending /\ cycles[c].status \notin {"blocked", "committed"}
  BY <1>1, <1>2, InCycle
<1>4. c \in CycleIds
  BY <1>3, PriceJournal DEF PriceInv
<1>5. PICK e : e = [Cyc(r) EXCEPT !.status = "committed"]
  OBVIOUS
<1>6. e \in Cycles /\ e.status = "committed"
  BY <1>1, <1>5, Marked DEF Statuses
<1>7. SetCyc(r, e)
  BY <1>5 DEF Commit, Mark
<1>8. OnlyCyc(c) /\ cycles'[c].status = "committed"
  BY <1>2, <1>3, <1>6, <1>7, CycWritten
<1>9. Served(c)
  BY <1>1, <1>2 DEF PriceInv, PricePlaced
<1>10. \A b \in DOMAIN cycles[c].notices : b \in BatchIds /\ batch[c][b].sent = 1
  BY <1>3, <1>4, <1>9 DEF Truthful, Served, PriceInv, PriceCounted
<1> QED
  BY <1>1, <1>2, <1>3, <1>4, <1>8, <1>10 DEF Truthful

(* The reference moves by what was told: the keys whose known price moves  *)
(* are the keys of the notices, and each batch of them was accepted once.  *)
THEOREM ChangesAreTold == Spec => ChangesTold
<1> DEFINE Announced == \E c \in DOMAIN cycles :
                   /\ cycles[c].status # "committed" /\ cycles'[c].status = "committed"
                   /\ ToSet(cycles[c].notices) =
                          {k \in Keys : {base[k], base'[k]} \subseteq Prices /\ base[k] # base'[k]}
                   /\ \A b \in DOMAIN cycles[c].notices : batch[c][b].sent = 1
<1>1. ASSUME PriceInv, [Next]_vars, base # None, base' # base
      PROVE  Announced
  <2>1. \E r \in Runs : Commit(r)
    <3> SUFFICES ASSUME ~(\E r \in Runs : Commit(r)) PROVE FALSE
      OBVIOUS
    <3>1. base' = base
      BY ZenonT(60), <1>1 DEF vars, Next, Enter, Look, CopyOrigin, Blocked, Planned, Gate, Sending, NextBatch,
         Deferred, Sent, Recover, TakeCase, Bind, Attempt, Answered, ReleaseCase, Receipt,
         Failed, Delivered, Die, Disconnect
    <3> QED
      BY <1>1, <3>1
  <2>2. PICK c \in Pending :
           /\ c \in DOMAIN cycles /\ Truthful(c)
           /\ cycles[c].before = base /\ base' = cycles[c].after
           /\ cycles'[c].status = "committed"
           /\ \A b \in DOMAIN cycles[c].notices : batch[c][b].sent = 1
    BY <1>1, <2>1, AtCommit
  <2>3. cycles[c].status \notin {"committed", "blocked"}
    BY <2>2 DEF Pending
  <2>4. ToSet(cycles[c].notices) = Moved(base, base')
    BY <2>2, <2>3 DEF Truthful
  <2>5. ToSet(cycles[c].notices) =
          {k \in Keys : {base[k], base'[k]} \subseteq Prices /\ base[k] # base'[k]}
    BY <2>4 DEF Moved
  <2> QED
    BY <2>2, <2>3, <2>5
<1>2. PriceInv /\ [Next]_vars => [(base # None /\ base' # base) => Announced]_vars
  BY <1>1
<1> HIDE DEF Announced
<1>3. Spec => [][(base # None /\ base' # base) => Announced]_vars
  BY <1>2, PriceInvariance, PTL DEF Spec
<1> QED
  BY <1>3 DEF ChangesTold, Announced
-----------------------------------------------------------------------------
(* The live cycle implements PriceLedger.  The batch that is open there is *)
(* the entry that waits here.                                              *)
LEMMA OpenIsPending ==
  ASSUME PriceInv
  PROVE  /\ Pending = {} => Open = 0
         /\ \A c \in Pending : Open = c /\ c # 0 /\ c \in CycleIds /\ c \in DOMAIN cycles
<1>1. \A c \in Pending : c \in DOMAIN cycles /\ c \in CycleIds
  BY PriceJournal DEF PriceInv, Pending
<1>2. \A c \in CycleIds : c # 0
  BY LivePriceAssumption DEF CycleIds
<1>3. Pending # {} => Open \in Pending
  BY DEF Open
<1> QED
  BY <1>1, <1>2, <1>3 DEF Open, PriceInv, Alone

LEMMA OpenIsPendingNext ==
  ASSUME PriceInv'
  PROVE  /\ Pending' = {} => Open' = 0
         /\ \A c \in Pending' : Open' = c
<1>1. Pending' # {} => Open' \in Pending'
  BY DEF Open
<1> QED
  BY <1>1 DEF Open, PriceInv, Alone

LEMMA LedgerInit == Init => Ledger!Init
<1> SUFFICES ASSUME Init PROVE Ledger!Init
  OBVIOUS
<1>1. Open = 0
  BY PriceInitially, OpenIsPending DEF Init, Pending
<1> QED
  BY <1>1 DEF Init, Ledger!Init, Ledger!Nobody

(* What is not about the entry that waits is nothing to the ledger.        *)
LEMMA SameLedger ==
  ASSUME Open' = Open,
         base' = base \/ (base = None /\ base' = Legacy),
         Open # 0 =>
           /\ cycles'[Open].before = cycles[Open].before
           /\ cycles'[Open].after = cycles[Open].after
           /\ cycles'[Open].notices = cycles[Open].notices
           /\ \A b \in BatchIds : batch'[Open][b].sent = batch[Open][b].sent
  PROVE  UNCHANGED Ledger!vars
<1>1. (IF base = None THEN Legacy ELSE base)' = IF base = None THEN Legacy ELSE base
  OBVIOUS
<1>2. (IF Open = 0 THEN None
       ELSE [before |-> cycles[Open].before, after |-> cycles[Open].after,
             parts |-> DOMAIN cycles[Open].notices])'
      = IF Open = 0 THEN None
        ELSE [before |-> cycles[Open].before, after |-> cycles[Open].after,
              parts |-> DOMAIN cycles[Open].notices]
  OBVIOUS
<1>3. [b \in BatchIds |-> IF Open = 0 THEN 0 ELSE batch[Open][b].sent]'
      = [b \in BatchIds |-> IF Open = 0 THEN 0 ELSE batch[Open][b].sent]
  OBVIOUS
<1> QED
  BY <1>1, <1>2, <1>3 DEF Ledger!vars

(* Steps that send nothing and leave the journal alone.                    *)
LEMMA QuietStep ==
  ASSUME cycles' = cycles, base' = base \/ (base = None /\ base' = Legacy),
         \A c \in DOMAIN cycles : \A b \in BatchIds : batch'[c][b].sent = batch[c][b].sent
  PROVE  UNCHANGED Ledger!vars
<1>1. Pending' = Pending /\ Open' = Open
  BY DEF Pending, Open
<1>2. Open # 0 => Open \in DOMAIN cycles
  BY DEF Open, Pending
<1> QED
  BY <1>1, <1>2, SameLedger

LEMMA PriceQuietCase ==
  ASSUME PriceInv, NEW r \in Runs, run[r].pc \in WithBatch, UNCHANGED <<base, cycles>>,
         NEW w \in Batches, SetBat(r, w), w.sent = Bat(r).sent
  PROVE  UNCHANGED Ledger!vars
<1>1. PICK c, b : c = run[r].cyc /\ b = run[r].bat
  OBVIOUS
<1>2. c \in CycleIds /\ b \in BatchIds /\ Bat(r) = batch[c][b]
  BY <1>1, PriceInRange
<1>3. OnlyBat(c, b) /\ batch'[c][b] = w
  BY <1>1, <1>2, CellWritten
<1>4. \A d \in DOMAIN cycles : d \in CycleIds
  BY PriceJournal DEF PriceInv
<1>5. \A d \in DOMAIN cycles : \A e \in BatchIds : batch'[d][e].sent = batch[d][e].sent
  <2> SUFFICES ASSUME NEW d \in CycleIds, NEW e \in BatchIds
               PROVE  batch'[d][e].sent = batch[d][e].sent
    BY <1>4
  <2> QED
    BY <1>2, <1>3 DEF OnlyBat
<1> QED
  BY <1>5, QuietStep

(* A new state of the entry that waits, which still waits.                 *)
LEMMA MarkIsQuiet ==
  ASSUME PriceInv, PriceInv', NEW r \in Runs, run[r].pc \in Past, run[r].conn,
         UNCHANGED <<base, batch>>,
         NEW e \in Cycles, SetCyc(r, e),
         e.before = Cyc(r).before, e.after = Cyc(r).after, e.notices = Cyc(r).notices,
         e.status \notin {"blocked", "committed"}
  PROVE  UNCHANGED Ledger!vars
<1>1. PICK c : c = run[r].cyc
  OBVIOUS
<1>2. c \in DOMAIN cycles /\ Cyc(r) = cycles[c] /\ c \in Pending
  BY <1>1, InCycle
<1>3. OnlyCyc(c) /\ cycles'[c] = e
  BY <1>1, <1>2, CycWritten
<1>4. c \in DOMAIN cycles'
  <2>1. DOMAIN cycles = 1..Len(cycles)
    BY PriceJournal DEF PriceInv
  <2> QED
    BY <1>2, <1>3, <2>1 DEF OnlyCyc
<1>5. c \in Pending'
  BY <1>3, <1>4 DEF Pending
<1>6. Open = c /\ Open' = c
  BY <1>2, <1>5, OpenIsPending, OpenIsPendingNext
<1> QED
  BY <1>2, <1>3, <1>6, SameLedger

LEMMA MarksAreQuiet ==
  ASSUME PriceInv, PriceInv', NEW r \in Runs,
         Sending(r) \/ NextBatch(r) \/ Deferred(r) \/ Receipt(r) \/ Failed(r) \/ Delivered(r)
  PROVE  UNCHANGED Ledger!vars
<1>1. UNCHANGED <<base, batch>> /\ run[r].conn /\ run[r].pc \in Past
  BY DEF Sending, NextBatch, Deferred, Receipt, Failed, Delivered, At, Past
<1>2. /\ Cyc(r) \in Cycles /\ Cyc(r) = cycles[run[r].cyc] /\ Truthful(run[r].cyc)
  BY <1>1, InCycle
<1>3. ASSUME NEW s \in Statuses \ {"blocked", "committed"}, Mark(r, s)
      PROVE  UNCHANGED Ledger!vars
  <2>1. PICK e : e = [Cyc(r) EXCEPT !.status = s]
    OBVIOUS
  <2>2. /\ e \in Cycles /\ e.status = s
        /\ e.before = Cyc(r).before /\ e.after = Cyc(r).after /\ e.notices = Cyc(r).notices
    BY <1>1, <2>1, Marked
  <2>3. SetCyc(r, e)
    BY <1>3, <2>1 DEF Mark
  <2> QED
    BY <1>1, <1>3, <2>2, <2>3, MarkIsQuiet
<1>4. CASE Sending(r) \/ Deferred(r) \/ Delivered(r)
  <2>1. Mark(r, "sending") \/ Mark(r, "planned") \/ Mark(r, "delivered")
    BY <1>4 DEF Sending, Deferred, Delivered
  <2> QED
    BY <1>3, <2>1 DEF Statuses
<1>5. CASE Failed(r)
  <2>1. run[r].then \in {"failed", "unknown"} /\ Mark(r, run[r].then)
    BY <1>5 DEF Failed, At, PriceInv, PricePlaced
  <2> QED
    BY <1>3, <2>1 DEF Statuses
<1>6. CASE NextBatch(r)
  <2>1. PICK b \in Left(r) : SetCyc(r, [Cyc(r) EXCEPT !.status = "sending", !.active = b])
    BY <1>6 DEF NextBatch
  <2>2. b \in BatchIds
    BY <1>2 DEF Left, Truthful
  <2>3. PICK e : e = [Cyc(r) EXCEPT !.status = "sending", !.active = b]
    OBVIOUS
  <2>4. /\ e \in Cycles /\ e.status = "sending"
        /\ e.before = Cyc(r).before /\ e.after = Cyc(r).after /\ e.notices = Cyc(r).notices
    BY <1>2, <2>2, <2>3 DEF Cycles, Statuses
  <2>5. SetCyc(r, e)
    BY <2>1, <2>3
  <2> QED
    BY <1>1, <2>4, <2>5, MarkIsQuiet
<1>7. CASE Receipt(r)
  <2>1. PICK b : b = run[r].bat
    OBVIOUS
  <2>2. b \in BatchIds
    BY <1>7, <2>1, PriceInRange DEF Receipt, At, WithBatch
  <2>3. PICK e : e = [Cyc(r) EXCEPT !.status = "planned", !.receipts = @ \cup {b}]
    OBVIOUS
  <2>4. /\ e \in Cycles /\ e.status = "planned"
        /\ e.before = Cyc(r).before /\ e.after = Cyc(r).after /\ e.notices = Cyc(r).notices
    BY <1>2, <2>2, <2>3 DEF Cycles, Statuses
  <2>5. SetCyc(r, e)
    BY <1>7, <2>1, <2>3 DEF Receipt
  <2> QED
    BY <1>1, <2>4, <2>5, MarkIsQuiet
<1> QED
  BY SMTT(30), <1>4, <1>5, <1>6, <1>7
(* Planning announces, from the reference and with nobody told yet.        *)
LEMMA PlannedAnnounces ==
  ASSUME PriceInv, PriceInv', NEW r \in Runs, Planned(r)
  PROVE  Ledger!Announce
<1>1. /\ base' = base /\ batch' = batch /\ base \in Lists /\ base # None /\ Pending = {}
      /\ cycles \in Seq(Cycles) /\ Len(cycles) \in Nat
      /\ DOMAIN cycles = 1..Len(cycles) /\ Len(cycles) < MaxCycles
  BY PriceJournal DEF Planned, At, PriceInv, TypeOK, PricePlaced
<1>2. PICK e : cycles' = Append(cycles, e) /\ e.status = "planned" /\ e.before = base
  BY DEF Planned, Entry
<1>3. PICK n : n = Len(cycles) + 1
  OBVIOUS
<1>4. /\ n \in DOMAIN cycles' /\ cycles'[n] = e /\ n \notin DOMAIN cycles
      /\ n \in CycleIds /\ n # 0 /\ DOMAIN cycles' = 1..n
  <2>1. DOMAIN cycles' = 1..n /\ cycles'[n] = e
    BY <1>1, <1>2, <1>3
  <2> QED
    BY <1>1, <1>3, <2>1, LivePriceAssumption DEF CycleIds
<1>5. Open = 0 /\ Open' = n
  <2>1. n \in Pending'
    BY <1>2, <1>4 DEF Pending
  <2> QED
    BY <1>1, <2>1, OpenIsPending, OpenIsPendingNext
<1>6. Truthful(n)' /\ cycles'[n].status # "blocked"
  BY <1>2, <1>4 DEF PriceInv
<1>7. /\ cycles'[n].before = base /\ cycles'[n].after \in Lists
      /\ DOMAIN cycles'[n].notices \subseteq BatchIds
  BY <1>2, <1>4, <1>6 DEF Truthful
<1>8. \A b \in BatchIds : batch[n][b].sent = 0
  BY <1>4 DEF PriceInv, PriceCounted
<1> DEFINE open == [before |-> cycles'[n].before, after |-> cycles'[n].after,
                    parts |-> DOMAIN cycles'[n].notices]
<1>9. open \in Ledger!Batches /\ open.before = base
  <2>1. DOMAIN cycles'[n].notices \in SUBSET BatchIds
    BY <1>7
  <2> QED
    BY <1>1, <1>7, <2>1 DEF Ledger!Batches
<1>10. (IF Open = 0 THEN None
        ELSE [before |-> cycles[Open].before, after |-> cycles[Open].after,
              parts |-> DOMAIN cycles[Open].notices])' = open
  BY <1>4, <1>5
<1> HIDE DEF open
<1>11. [b \in BatchIds |-> IF Open = 0 THEN 0 ELSE batch[Open][b].sent]'
       = [b \in BatchIds |-> IF Open = 0 THEN 0 ELSE batch[Open][b].sent]
  BY <1>1, <1>5, <1>8
<1>12. /\ base = (IF base = None THEN Legacy ELSE base)
       /\ (IF base = None THEN Legacy ELSE base)' = IF base = None THEN Legacy ELSE base
       /\ (IF Open = 0 THEN None
           ELSE [before |-> cycles[Open].before, after |-> cycles[Open].after,
                 parts |-> DOMAIN cycles[Open].notices]) = None
  BY <1>1, <1>5
<1> QED
  BY <1>9, <1>10, <1>11, <1>12 DEF Ledger!Announce

(* An accepted batch is told once, also by a run that lost the database.   *)
LEMMA AnsweredTells ==
  ASSUME PriceInv, NEW r \in Runs, Answered(r)
  PROVE  [Ledger!Next]_(Ledger!vars)
<1>1. UNCHANGED <<base, cycles>> /\ run[r].pc = "answer"
  BY DEF Answered, At
<1>2. PICK p \in {"accepted", "failed", "doubt"}, n \in 0..1 :
        SetBat(r, [Bat(r) EXCEPT !.prog = p, !.sent = @ + n])
  BY DEF Answered
<1>3. PICK c, b : c = run[r].cyc /\ b = run[r].bat
  OBVIOUS
<1>4. /\ c \in CycleIds /\ c \in DOMAIN cycles /\ b \in BatchIds /\ Bat(r) \in Batches
      /\ Bat(r) = batch[c][b]
  BY <1>1, <1>3, PriceInRange DEF WithBatch, PriceInCase
<1>5. /\ batch[c][b].prog = "doubt" /\ batch[c][b].sent = 0
      /\ b \in DOMAIN cycles[c].notices /\ cycles[c].status # "blocked"
  BY <1>1, <1>3, <1>4 DEF PriceInv, PricePlaced, Past, WithBatch, PriceInCase
<1>6. Open = c /\ c # 0
  <2>1. cycles[c].status # "committed"
    BY <1>4, <1>5 DEF PriceInv, Truthful, Served
  <2>2. c \in Pending
    BY <1>4, <1>5, <2>1 DEF Pending
  <2> QED
    BY <2>2, OpenIsPending
<1>7. PICK w : w = [Bat(r) EXCEPT !.prog = p, !.sent = @ + n]
  OBVIOUS
<1>8. w \in Batches /\ w.sent = n
  <2>1. n \in {0, 1}
    BY <1>2
  <2>2. Bat(r).sent + n = n
    BY <1>4, <1>5, <2>1
  <2>3. w = [prog |-> p, lock |-> Bat(r).lock, sent |-> n]
    BY <1>4, <1>7, <2>2 DEF Batches
  <2> QED
    BY <1>4, <2>1, <2>3 DEF Batches
<1>9. SetBat(r, w)
  BY <1>2, <1>7
<1>10. CASE n = 0
  <2>1. w.sent = Bat(r).sent
    BY <1>4, <1>5, <1>8, <1>10
  <2>2. run[r].pc \in WithBatch
    BY <1>1 DEF WithBatch, PriceInCase
  <2> QED
    BY <1>1, <1>8, <1>9, <2>1, <2>2, PriceQuietCase
<1>11. CASE n = 1
  <2> DEFINE open == [before |-> cycles[c].before, after |-> cycles[c].after,
                      parts |-> DOMAIN cycles[c].notices]
             told == [d \in BatchIds |-> batch[c][d].sent]
  <2>1. OnlyBat(c, b) /\ batch'[c][b] = w
    BY <1>3, <1>4, <1>8, <1>9, CellWritten
  <2>2. \A d \in BatchIds \ {b} : batch'[c][d].sent = batch[c][d].sent
    BY <1>4, <2>1 DEF OnlyBat
  <2>3. told[b] = 0 /\ [d \in BatchIds |-> batch'[c][d].sent] = [told EXCEPT ![b] = 1]
    BY <1>4, <1>5, <1>8, <1>11, <2>1, <2>2
  <2>4. open # None /\ b \in open.parts
    <3>1. /\ cycles[c].before \in Lists /\ cycles[c].after \in Lists
          /\ DOMAIN cycles[c].notices \in SUBSET BatchIds
      BY <1>4, <1>5 DEF PriceInv, Truthful
    <3>2. open \in [before : Lists, after : Lists, parts : SUBSET BatchIds]
      BY <3>1
    <3> QED
      BY <1>5, <3>2, LivePriceAssumption DEF BatchIds
  <2>5. Pending' = Pending /\ Open' = Open
    BY <1>1 DEF Pending, Open
  <2>6. /\ (IF Open = 0 THEN None
            ELSE [before |-> cycles[Open].before, after |-> cycles[Open].after,
                  parts |-> DOMAIN cycles[Open].notices]) = open
        /\ [d \in BatchIds |-> IF Open = 0 THEN 0 ELSE batch[Open][d].sent] = told
    BY <1>6
  <2>7. [d \in BatchIds |-> IF Open = 0 THEN 0 ELSE batch[Open][d].sent]'
          = [d \in BatchIds |-> batch'[c][d].sent]
    BY <1>6, <2>5
  <2>8. /\ (IF base = None THEN Legacy ELSE base)' = IF base = None THEN Legacy ELSE base
        /\ (IF Open = 0 THEN None
            ELSE [before |-> cycles[Open].before, after |-> cycles[Open].after,
                  parts |-> DOMAIN cycles[Open].notices])'
           = IF Open = 0 THEN None
             ELSE [before |-> cycles[Open].before, after |-> cycles[Open].after,
                   parts |-> DOMAIN cycles[Open].notices]
    BY <1>1, <2>5
  <2> HIDE DEF open, told
  <2>9. Ledger!Tell(b)
    BY <2>3, <2>4, <2>6, <2>7, <2>8 DEF Ledger!Tell
  <2> QED
    BY <1>4, <2>9 DEF Ledger!Next
<1>12. n \in {0, 1}
  BY <1>2
<1> QED
  BY <1>10, <1>11, <1>12

(* The reference moves when every batch of the entry was told.             *)
LEMMA CommitAdvances ==
  ASSUME PriceInv, PriceInv', NEW r \in Runs, Commit(r)
  PROVE  Ledger!Advance
<1>1. PICK c \in Pending :
           /\ c = run[r].cyc /\ c \in DOMAIN cycles /\ c \in CycleIds
           /\ cycles[c] \in Cycles /\ Truthful(c)
           /\ cycles[c].before = base /\ base' = cycles[c].after /\ base \in Lists
           /\ base' \in Lists
           /\ OnlyCyc(c) /\ cycles'[c].status = "committed"
           /\ DOMAIN cycles[c].notices \subseteq BatchIds
           /\ \A b \in DOMAIN cycles[c].notices : batch[c][b].sent = 1
  BY AtCommit
<1>2. Open = c /\ c # 0
  BY OpenIsPending
<1>3. Open' = 0
  <2>1. \A d \in Pending : d = c
    BY DEF PriceInv, Alone
  <2>2. DOMAIN cycles' = DOMAIN cycles
    <3>1. DOMAIN cycles = 1..Len(cycles) /\ DOMAIN cycles' = 1..Len(cycles')
      BY <1>1, PriceJournal DEF PriceInv, OnlyCyc
    <3> QED
      BY <1>1, <3>1 DEF OnlyCyc
  <2>3. Pending' = {}
    BY <1>1, <2>1, <2>2 DEF Pending, OnlyCyc
  <2> QED
    BY <2>3, OpenIsPendingNext
<1> DEFINE open == [before |-> cycles[c].before, after |-> cycles[c].after,
                    parts |-> DOMAIN cycles[c].notices]
           told == [d \in BatchIds |-> batch[c][d].sent]
<1>4. open # None /\ open.after = base'
  <2>1. cycles[c].after \in Lists /\ DOMAIN cycles[c].notices \in SUBSET BatchIds
    BY <1>1
  <2>2. open \in [before : Lists, after : Lists, parts : SUBSET BatchIds]
    BY <1>1, <2>1
  <2> QED
    BY <1>1, <2>2, LivePriceAssumption DEF BatchIds
<1>5. \A b \in open.parts : told[b] # 0
  BY <1>1
<1>6. /\ (IF Open = 0 THEN None
          ELSE [before |-> cycles[Open].before, after |-> cycles[Open].after,
                parts |-> DOMAIN cycles[Open].notices]) = open
      /\ [d \in BatchIds |-> IF Open = 0 THEN 0 ELSE batch[Open][d].sent] = told
  BY <1>2
<1>7. /\ (IF Open = 0 THEN None
          ELSE [before |-> cycles[Open].before, after |-> cycles[Open].after,
                parts |-> DOMAIN cycles[Open].notices])' = None
      /\ [d \in BatchIds |-> IF Open = 0 THEN 0 ELSE batch[Open][d].sent]' = Ledger!Nobody
  BY <1>3 DEF Ledger!Nobody
<1>8. (IF base = None THEN Legacy ELSE base)' = base'
  <2>1. base' # None
    BY <1>1, LivePriceAssumption
  <2> QED
    BY <2>1
<1> HIDE DEF open, told
<1> QED
  BY <1>4, <1>5, <1>6, <1>7, <1>8 DEF Ledger!Advance
(* The steps on a batch other than the answer send nothing.                *)
LEMMA PriceCaseIsQuiet ==
  ASSUME PriceInv, NEW r \in Runs, TakeCase(r) \/ Bind(r) \/ Attempt(r) \/ ReleaseCase(r)
  PROVE  UNCHANGED Ledger!vars
<1>1. UNCHANGED <<base, cycles>> /\ run[r].pc \in WithBatch
  BY DEF TakeCase, Bind, Attempt, ReleaseCase, At, WithBatch, PriceInCase
<1>2. Bat(r) \in Batches
  BY <1>1, PriceInRange
<1>3. CASE batch' = batch
  BY <1>1, <1>3, QuietStep
<1>4. CASE batch' # batch
  <2>1. PICK w : /\ SetBat(r, w)
                 /\ \/ w = [Bat(r) EXCEPT !.lock = TRUE]
                    \/ w = [Bat(r) EXCEPT !.prog = IF @ = "none" THEN "bound" ELSE @]
                    \/ w = [Bat(r) EXCEPT !.prog = "doubt"]
                    \/ w = [Bat(r) EXCEPT !.lock = FALSE]
    BY <1>4 DEF TakeCase, Bind, Attempt, ReleaseCase
  <2>2. w \in Batches /\ w.sent = Bat(r).sent
    BY <1>2, <2>1 DEF Batches
  <2> QED
    BY <1>1, <2>1, <2>2, PriceQuietCase
<1> QED
  BY <1>3, <1>4

(* Every behaviour of the live cycle is one of PriceLedger: one entry is   *)
(* announced at a time, each batch of it is accepted at most once, whoever *)
(* dies or loses the database under a run that goes on sending, and the    *)
(* reference moves when all were accepted.                                 *)
THEOREM PricePromiseKept == Spec => KeepsLedger
<1>1. PriceInv /\ PriceInv' /\ [Next]_vars => [Ledger!Next]_(Ledger!vars)
  <2> SUFFICES ASSUME PriceInv, PriceInv', [Next]_vars PROVE [Ledger!Next]_(Ledger!vars)
    OBVIOUS
  <2>1. ASSUME NEW r \in Runs,
               Enter(r) \/ Look(r) \/ CopyOrigin(r) \/ Gate(r) \/ Sent(r) \/ Recover(r)
                 \/ Die(r) \/ Disconnect(r)
        PROVE  UNCHANGED Ledger!vars
    <3>1. UNCHANGED <<cycles, batch>> /\ (base' = base \/ (base = None /\ base' = Legacy))
      BY <2>1 DEF Enter, Look, CopyOrigin, Gate, Sent, Recover, Die, Disconnect
    <3> QED
      BY <3>1, QuietStep
  <2>2. ASSUME NEW r \in Runs, Blocked(r) PROVE UNCHANGED Ledger!vars
    <3>1. PICK e : cycles' = Append(cycles, e) /\ e.status = "blocked"
      BY <2>2 DEF Blocked, Entry
    <3>2. /\ base' = base /\ Pending = {} /\ cycles \in Seq(Cycles)
      BY <2>2 DEF Blocked, At, PriceInv, TypeOK, PricePlaced
    <3>3. PICK n : n = Len(cycles) + 1
      OBVIOUS
    <3>4. /\ DOMAIN cycles' = DOMAIN cycles \cup {n} /\ cycles'[n] = e
          /\ \A d \in DOMAIN cycles : cycles'[d] = cycles[d]
      BY <3>1, <3>2, <3>3
    <3>5. Pending' = {}
      BY <3>1, <3>2, <3>4 DEF Pending
    <3> QED
      BY <3>2, <3>5, OpenIsPending, OpenIsPendingNext, SameLedger
  <2>3. CASE UNCHANGED vars
    BY <2>3, QuietStep DEF vars
  <2>4. CASE Next
    <3>1. PICK r \in Runs :
            \/ Enter(r) \/ Look(r) \/ CopyOrigin(r) \/ Blocked(r) \/ Planned(r) \/ Gate(r)
            \/ Sending(r) \/ NextBatch(r) \/ Deferred(r) \/ Sent(r)
            \/ Recover(r) \/ TakeCase(r) \/ Bind(r) \/ Attempt(r) \/ Answered(r) \/ ReleaseCase(r)
            \/ Receipt(r) \/ Failed(r) \/ Delivered(r) \/ Commit(r)
            \/ Die(r) \/ Disconnect(r)
      BY <2>4 DEF Next
    <3>2. CASE Planned(r)
      BY <3>2, PlannedAnnounces DEF Ledger!Next
    <3>3. CASE Answered(r)
      BY <3>3, AnsweredTells
    <3>4. CASE Commit(r)
      BY <3>4, CommitAdvances DEF Ledger!Next
    <3>5. CASE Sending(r) \/ NextBatch(r) \/ Deferred(r) \/ Receipt(r) \/ Failed(r) \/ Delivered(r)
      BY <3>5, MarksAreQuiet
    <3>6. CASE TakeCase(r) \/ Bind(r) \/ Attempt(r) \/ ReleaseCase(r)
      BY <3>6, PriceCaseIsQuiet
    <3> QED
      BY <2>1, <2>2, <3>1, <3>2, <3>3, <3>4, <3>5, <3>6
  <2> QED
    BY <2>3, <2>4
<1>2. Spec => Ledger!Spec
  BY <1>1, LedgerInit, PriceInvariance, PTL DEF Spec, Ledger!Spec
<1> QED
  BY <1>2, OneWaits DEF KeepsLedger

-----------------------------------------------------------------------------
(* The slow cycle.                                                         *)
(* A run that holds the lock file of its case, and one that has a phase.   *)
SlowInCase == {"attempt", "answer", "release"}
AtWork == {"stage", "choose", "case", "attempt", "answer", "release", "raised", "receipt"}

(* The current entry can move no further than its fifth phase, what is     *)
(* behind has no manifest, and what is being sent has one.                 *)
Consistent(e) ==
         /\ e.status = "committed" <=> e.index = 5
         /\ \A p \in Phases : Position(p) <= e.index => e.man[p] = None
         /\ e.status = "sending" => e.man[PHASES[e.index + 1]] # None

(* A case file: of one content, and every part that was sent is counted,   *)
(* but perhaps the one in doubt.                                           *)
SlowCounted(c) ==
        /\ \A i \in DOMAIN c.sends : c.sends[i] = c.bound
        /\ Len(c.sends) = c.done \/ (c.prog = "doubt" /\ Len(c.sends) = c.done + 1)
        /\ c.done = Parts => Len(c.sends) = Parts
Filed ==
    \A g \in 1..MaxGenerations, p \in Phases :
        /\ SlowCounted(case[g][p])
        /\ g > Len(journal) => case[g][p] = Untouched

(* A run may still tell parts of its phase, or has just been refused one   *)
(* and has not said so.                                                    *)
Underway(r) ==
    /\ \/ slow[r].pc \in {"case", "attempt", "answer"}
       \/ slow[r].pc \in {"release", "raised"} /\ slow[r].then = "failed"
    /\ Case(r).done # Parts

(* The phase of a run is the one whose turn it is.                         *)
InTurn(r) ==
    /\ slow[r].gen = Len(journal)
    /\ Now.index < 5
    /\ slow[r].phase = PHASES[Now.index + 1]

SlowPlaced(r) ==
        /\ slow[r].conn \/ slow[r].pc \in {"idle", "case", "attempt", "answer", "release"}
        /\ slow[r].pc = "reports" => journal # <<>> /\ Now.status \notin {"sending", "unknown"}
        /\ slow[r].pc \in AtWork => slow[r].gen \in DOMAIN journal /\ slow[r].phase \in Phases
        /\ slow[r].pc \in AtWork /\ slow[r].conn => InTurn(r)
        /\ slow[r].pc \in {"stage", "choose"} =>
             /\ slow[r].state = Now.status /\ Now.status \notin {"committed", "unknown"}
             /\ Now.man[slow[r].phase] # None
        /\ slow[r].pc = "choose" =>
             /\ Now.man[slow[r].phase].review # None
             /\ slow[r].ver = Now.man[slow[r].phase].ver
        /\ slow[r].pc = "case" => slow[r].ver \in 1..MaxBuilds
        /\ slow[r].pc \in SlowInCase => Case(r).lock
        /\ slow[r].pc \in {"attempt", "answer"} =>
             Case(r).bound # 0 /\ Case(r).done < Parts
        /\ slow[r].pc = "attempt" => Case(r).prog # "doubt"
        /\ slow[r].pc = "answer" => Case(r).prog = "doubt" /\ Len(Case(r).sends) = Case(r).done
        /\ slow[r].pc = "release" => slow[r].then # "none"
        /\ slow[r].pc = "raised" => slow[r].then \in {"failed", "unknown"}
        /\ slow[r].pc = "receipt" \/ (slow[r].pc = "release" /\ slow[r].then = "receipt") =>
             Case(r).done = Parts

(* One run at most is under way, and nobody else moves its phase: its      *)
(* entry says that it is being sent, or that it is in doubt for good.      *)
Guarded(r) ==
    Underway(r) => /\ InTurn(r)
                   /\ Now.status \in {"sending", "unknown"}
                   /\ slow[r].conn => Now.status = "sending"
SlowApart(r, s) ==
        r # s => /\ ~(Underway(r) /\ Underway(s))
                 /\ slow[r].pc \in SlowInCase /\ slow[s].pc \in SlowInCase =>
                      slow[r].gen # slow[s].gen \/ slow[r].phase # slow[s].phase

SlowInv ==
       /\ SlowTypeOK /\ Filed
       /\ \A g \in DOMAIN journal : Consistent(journal[g])
       /\ \A r \in Runs : SlowPlaced(r) /\ Guarded(r)
       /\ \A r, s \in Runs : SlowApart(r, s)

-----------------------------------------------------------------------------
(* Steps that write little: one run and perhaps the lock it holds, the     *)
(* last entry of the journal, one case.                                    *)
SlowOnlyRun(r) ==
        /\ slow' \in [Runs -> States]
        /\ \A s \in Runs : s # r => slow'[s] = slow[s]
        /\ slow'[r].conn <=> owner' = r
        /\ owner' \in Runs \cup {None}
        /\ \A s \in Runs : s # r => (owner' = s <=> owner = s)
OnlyNow(e) ==
    /\ journal' \in Seq(Generations) /\ Len(journal') = Len(journal) /\ journal' # <<>>
    /\ DOMAIN journal' = DOMAIN journal /\ Len(journal) \in DOMAIN journal
    /\ journal'[Len(journal)] = e /\ Now' = e
    /\ \A g \in DOMAIN journal : g # Len(journal) => journal'[g] = journal[g]
OnlyCase(g, p) ==
    /\ case' \in [1..MaxGenerations -> [Phases -> Cases]]
    /\ \A h \in 1..MaxGenerations, q \in Phases : h # g \/ q # p => case'[h][q] = case[h][q]

LEMMA Phasing ==
  /\ Len(PHASES) = 5 /\ DOMAIN PHASES = 1..5
  /\ \A i \in 1..5 : PHASES[i] \in Phases /\ Position(PHASES[i]) = i
  /\ \A p \in Phases : Position(p) \in 1..5 /\ PHASES[Position(p)] = p
  /\ Reports \subseteq Phases
<1>1. DOMAIN PHASES = 1..5 /\ Len(PHASES) = 5
  BY DEF PHASES
<1>2. Phases = {PHASES[i] : i \in 1..5}
  BY <1>1 DEF Phases, ToSet
<1>3. \A i, j \in 1..5 : PHASES[i] = PHASES[j] => i = j
  BY DEF PHASES
<1>4. \A i \in 1..5 : Position(PHASES[i]) = i
  BY <1>1, <1>3 DEF Position
<1>5. PHASES[4] = "weekly" /\ PHASES[5] = "monthly"
  BY DEF PHASES
<1> QED
  BY <1>1, <1>2, <1>4, <1>5 DEF Reports

LEMMA SlowJournal ==
  ASSUME SlowTypeOK
  PROVE  /\ DOMAIN journal = 1..Len(journal) /\ DOMAIN journal \subseteq 1..MaxGenerations
         /\ Len(journal) \in Nat /\ Len(journal) \in 0..MaxGenerations
         /\ \A g \in DOMAIN journal : journal[g] \in Generations
         /\ journal # <<>> => /\ Now \in Generations /\ Len(journal) \in DOMAIN journal
                              /\ Len(journal) \in 1..MaxGenerations
BY LiveSlowAssumption DEF SlowTypeOK, Now

(* The journal where the last entry was written.                           *)
LEMMA NowWritten ==
  ASSUME SlowTypeOK, journal # <<>>, NEW e \in Generations, SetNow(e)
  PROVE  OnlyNow(e)
<1>1. journal \in Seq(Generations) /\ Len(journal) \in DOMAIN journal
  BY SlowJournal DEF SlowTypeOK
<1>2. journal' = [journal EXCEPT ![Len(journal)] = e]
  BY DEF SetNow
<1>3. /\ journal' \in Seq(Generations) /\ Len(journal') = Len(journal)
      /\ journal'[Len(journal)] = e
      /\ \A g \in DOMAIN journal : g # Len(journal) => journal'[g] = journal[g]
  BY <1>1, <1>2, ExceptSeq
<1>4. DOMAIN journal = 1..Len(journal) /\ DOMAIN journal' = 1..Len(journal')
  BY <1>1, <1>3
<1> QED
  BY <1>1, <1>3, <1>4 DEF OnlyNow, Now

LEMMA CaseWritten ==
  ASSUME SlowTypeOK, NEW r \in Runs, NEW v \in Cases, SetCase(r, v),
         slow[r].gen \in 1..MaxGenerations, slow[r].phase \in Phases
  PROVE  OnlyCase(slow[r].gen, slow[r].phase) /\ case'[slow[r].gen][slow[r].phase] = v
BY DEF SlowTypeOK, SetCase, OnlyCase

(* What a run is to be.                                                    *)
LEMMA SlowStays ==
  ASSUME SlowTypeOK, NEW r \in Runs, NEW v \in States, slow' = [slow EXCEPT ![r] = v],
         owner' = owner, v.conn = slow[r].conn
  PROVE  SlowOnlyRun(r) /\ slow'[r] = v
BY DEF SlowTypeOK, SlowOnlyRun

LEMMA Begins ==
  ASSUME SlowTypeOK, NEW r \in Runs, NEW v \in States, slow' = [slow EXCEPT ![r] = v],
         owner = None, owner' = r, v.conn
  PROVE  SlowOnlyRun(r) /\ slow'[r] = v /\ \A s \in Runs : ~slow[s].conn
BY LiveSlowAssumption DEF SlowTypeOK, SlowOnlyRun

LEMMA IdleIsAState == Idle \in States /\ Idle.pc = "idle" /\ ~Idle.conn
BY LiveSlowAssumption DEF Idle, States

LEMMA Quits ==
  ASSUME SlowTypeOK, NEW r \in Runs, Quit(r)
  PROVE  SlowOnlyRun(r) /\ slow'[r] = Idle
<1>1. slow' \in [Runs -> States] /\ slow'[r] = Idle /\ \A s \in Runs : s # r => slow'[s] = slow[s]
  BY IdleIsAState DEF SlowTypeOK, Quit
<1>2. /\ owner' \in Runs \cup {None} /\ owner' # r
      /\ \A s \in Runs : s # r => (owner' = s <=> owner = s)
  BY LiveSlowAssumption DEF SlowTypeOK, Quit
<1> QED
  BY <1>1, <1>2, IdleIsAState DEF SlowOnlyRun

LEMMA BeginsAt ==
  ASSUME SlowTypeOK, NEW r \in Runs, Begin(r, "reports")
  PROVE  /\ SlowOnlyRun(r) /\ slow'[r].pc = "reports" /\ slow'[r].conn
         /\ \A s \in Runs : ~slow[s].conn
<1>1. PICK v : v = [Idle EXCEPT !.pc = "reports", !.conn = TRUE]
  OBVIOUS
<1>2. v \in States /\ v.pc = "reports" /\ v.conn
  <2>1. Idle \in States
    BY IdleIsAState
  <2> QED
    BY <1>1, <2>1 DEF States
<1>3. slow' = [slow EXCEPT ![r] = v] /\ owner = None /\ owner' = r
  BY <1>1 DEF Begin
<1> QED
  BY <1>2, <1>3, Begins

(* Where a run goes, and what it takes along.                              *)
Along(p, q) ==
    /\ q.conn = p.conn /\ q.gen = p.gen /\ q.phase = p.phase /\ q.state = p.state /\ q.ver = p.ver

LEMMA SlowGoes ==
  ASSUME SlowTypeOK, NEW r \in Runs, owner' = owner,
         NEW pc \in {"reports", "stage", "choose", "case", "attempt", "answer", "release",
                     "raised", "receipt"}, Step(r, pc)
  PROVE  /\ SlowOnlyRun(r) /\ Along(slow[r], slow'[r])
         /\ slow'[r].pc = pc /\ slow'[r].then = slow[r].then
<1>1. PICK v : v = [slow[r] EXCEPT !.pc = pc]
  OBVIOUS
<1>2. slow[r] \in States
  BY DEF SlowTypeOK
<1>3. v \in States /\ v.pc = pc /\ v.then = slow[r].then /\ Along(slow[r], v)
  BY <1>1, <1>2 DEF States, Along
<1>4. slow' = [slow EXCEPT ![r] = v]
  BY <1>1 DEF Step
<1>5. v.conn = slow[r].conn
  BY <1>3 DEF Along
<1> QED
  BY <1>3, <1>4, <1>5, SlowStays

LEMMA Releases ==
  ASSUME SlowTypeOK, NEW r \in Runs, owner' = owner,
         NEW t \in {"receipt", "failed", "unknown"}, Release(r, t)
  PROVE  /\ SlowOnlyRun(r) /\ Along(slow[r], slow'[r])
         /\ slow'[r].pc = "release" /\ slow'[r].then = t
<1>1. PICK v : v = [slow[r] EXCEPT !.pc = "release", !.then = t]
  OBVIOUS
<1>2. slow[r] \in States
  BY DEF SlowTypeOK
<1>3. v \in States /\ v.pc = "release" /\ v.then = t /\ Along(slow[r], v)
  BY <1>1, <1>2 DEF States, Along
<1>4. slow' = [slow EXCEPT ![r] = v]
  BY <1>1, <1>2 DEF Release, SlowTypeOK, States
<1>5. v.conn = slow[r].conn
  BY <1>3 DEF Along
<1> QED
  BY <1>3, <1>4, <1>5, SlowStays

LEMMA Raises ==
  ASSUME SlowTypeOK, NEW r \in Runs, owner' = owner, Raise(r, "unknown")
  PROVE  /\ SlowOnlyRun(r)
         /\ slow'[r] = Idle \/ /\ Along(slow[r], slow'[r]) /\ slow[r].conn
                               /\ slow'[r].pc = "raised" /\ slow'[r].then = "unknown"
<1>1. slow[r] \in States
  BY DEF SlowTypeOK
<1>2. CASE slow[r].conn
  <2>1. PICK v : v = [slow[r] EXCEPT !.pc = "raised", !.then = "unknown"]
    OBVIOUS
  <2>2. v \in States /\ v.pc = "raised" /\ v.then = "unknown" /\ Along(slow[r], v)
    BY <1>1, <2>1 DEF States, Along
  <2>3. slow' = [slow EXCEPT ![r] = v] /\ v.conn = slow[r].conn
    BY <1>2, <2>1, <2>2 DEF Raise, Along
  <2> QED
    BY <1>2, <2>2, <2>3, SlowStays
<1>3. CASE ~slow[r].conn
  <2>1. slow' = [slow EXCEPT ![r] = Idle]
    BY <1>3 DEF Raise
  <2>2. Idle.conn = slow[r].conn
    BY <1>1, <1>3, IdleIsAState DEF States
  <2> QED
    BY <2>1, <2>2, IdleIsAState, SlowStays
<1> QED
  BY <1>1, <1>2, <1>3 DEF States

-----------------------------------------------------------------------------
(* The kinds of step.                                                      *)

(* A run goes on, or ends, and nothing on file changes.                    *)
LEMMA SlowRunStep ==
  ASSUME SlowInv, NEW r \in Runs, SlowOnlyRun(r), journal' = journal, case' = case,
         SlowPlaced(r)', Guarded(r)', Underway(r)' => Underway(r),
         slow'[r].pc \in SlowInCase =>
           /\ slow[r].pc \in SlowInCase
           /\ slow'[r].gen = slow[r].gen /\ slow'[r].phase = slow[r].phase
  PROVE  SlowInv'
<1>1. SlowTypeOK' /\ Filed'
  BY DEF SlowInv, SlowTypeOK, Filed, SlowCounted, SlowOnlyRun
<1>2. \A g \in DOMAIN journal' : Consistent(journal[g])'
  BY DEF SlowInv, Consistent
<1>3. \A s \in Runs : s # r => /\ Underway(s)' = Underway(s) /\ Case(s)' = Case(s)
                               /\ InTurn(s)' = InTurn(s) /\ slow'[s] = slow[s]
  BY DEF SlowOnlyRun, Underway, Case, InTurn, Now
<1>4. Now' = Now
  BY DEF Now
<1>5. \A s \in Runs : SlowPlaced(s)' /\ Guarded(s)'
  BY <1>3, <1>4 DEF SlowInv, SlowPlaced, Guarded
<1>6. \A s, t \in Runs : SlowApart(s, t)'
  BY <1>3 DEF SlowInv, SlowApart
<1> QED
  BY <1>1, <1>2, <1>5, <1>6 DEF SlowInv

(* A run changes its case, in it or to get it.                             *)
LEMMA SlowCaseStep ==
  ASSUME SlowInv, NEW r \in Runs, SlowOnlyRun(r), journal' = journal,
         NEW g \in 1..MaxGenerations, NEW p \in Phases, g = slow[r].gen, p = slow[r].phase,
         g <= Len(journal), OnlyCase(g, p), SlowCounted(case[g][p])',
         slow[r].pc \in SlowInCase \/ ~case[g][p].lock,
         slow'[r].pc \in SlowInCase => slow'[r].gen = g /\ slow'[r].phase = p,
         case[g][p].done = Parts => case'[g][p].done = Parts,
         SlowPlaced(r)', Guarded(r)', Underway(r)' => Underway(r)
  PROVE  SlowInv'
<1>0. SlowTypeOK /\ (SlowTypeOK => Len(journal) \in Nat)
  BY SlowJournal DEF SlowInv
<1>1. SlowTypeOK'
  BY DEF SlowInv, SlowTypeOK, SlowOnlyRun, OnlyCase
<1>2. Filed'
  <2> SUFFICES ASSUME NEW h \in 1..MaxGenerations, NEW q \in Phases
               PROVE  SlowCounted(case[h][q])' /\ (h > Len(journal) => case'[h][q] = Untouched)
    BY DEF Filed
  <2>1. CASE h = g /\ q = p
    BY SMTT(30), <1>0, <2>1
  <2>2. CASE h # g \/ q # p
    <3>1. case'[h][q] = case[h][q]
      BY <2>2 DEF OnlyCase
    <3>2. SlowCounted(case[h][q]) /\ (h > Len(journal) => case[h][q] = Untouched)
      BY DEF SlowInv, Filed
    <3>3. PICK c : c = case[h][q]
      OBVIOUS
    <3>4. c = case'[h][q] /\ SlowCounted(c)
      BY <3>1, <3>2, <3>3
    <3>5. SlowCounted(case[h][q])'
      BY <3>4 DEF SlowCounted
    <3> QED
      BY <3>1, <3>2, <3>5
  <2> QED
    BY <2>1, <2>2
<1>3. \A h \in DOMAIN journal' : Consistent(journal[h])'
  BY DEF SlowInv, Consistent
<1>4. Now' = Now
  BY DEF Now
<1>5. ASSUME NEW s \in Runs, s # r, slow[s].pc \in AtWork
      PROVE  /\ Case(s)' = Case(s) \/ slow[s].pc \notin SlowInCase
             /\ Case(s).done = Parts => Case(s)'.done = Parts
  <2>1. /\ slow'[s] = slow[s] /\ SlowPlaced(s) /\ SlowApart(r, s)
        /\ slow[s].gen \in 1..MaxGenerations /\ slow[s].phase \in Phases
    BY <1>5, SlowJournal DEF SlowInv, SlowOnlyRun, SlowPlaced
  <2>2. CASE slow[s].gen = g /\ slow[s].phase = p
    <3>1. slow[s].pc \notin SlowInCase
      BY SMTT(30), <1>5, <2>1, <2>2 DEF SlowPlaced, SlowApart, Case
    <3> QED
      BY SMTT(30), <2>1, <2>2, <3>1 DEF Case
  <2>3. CASE slow[s].gen # g \/ slow[s].phase # p
    BY <2>1, <2>3 DEF OnlyCase, Case
  <2> QED
    BY SMTT(30), <2>2, <2>3
<1>6. \A s \in Runs : s # r => /\ Underway(s)' => Underway(s)
                               /\ InTurn(s)' = InTurn(s) /\ slow'[s] = slow[s]
  BY <1>4, <1>5 DEF SlowOnlyRun, Underway, InTurn, AtWork
<1>7. ASSUME NEW s \in Runs, s # r PROVE SlowPlaced(s)' /\ Guarded(s)'
  <2>1. slow'[s] = slow[s] /\ SlowPlaced(s) /\ Guarded(s)
    BY <1>7 DEF SlowInv, SlowOnlyRun
  <2>2. slow[s].pc \in SlowInCase => Case(s)' = Case(s)
    BY <1>5, <1>7 DEF SlowInCase, AtWork
  <2>3. slow[s].pc = "receipt" => (Case(s).done = Parts => Case(s)'.done = Parts)
    BY SMTT(30), <1>5, <1>7 DEF AtWork
  <2>4. SlowPlaced(s)'
    BY <1>4, <1>6, <1>7, <2>1, <2>2, <2>3 DEF SlowPlaced, SlowInCase, AtWork
  <2> QED
    BY <1>4, <1>6, <1>7, <2>1, <2>4 DEF Guarded
<1>8. \A s \in Runs : SlowPlaced(s)' /\ Guarded(s)'
  BY SMTT(30), <1>7
<1>9. ASSUME NEW s \in Runs, s # r, slow[s].pc \in SlowInCase, slow'[r].pc \in SlowInCase
      PROVE  slow[s].gen # g \/ slow[s].phase # p
  BY <1>9 DEF SlowInv, SlowApart, SlowPlaced, Case
<1>10. \A s, t \in Runs : SlowApart(s, t)'
  BY <1>6, <1>9 DEF SlowInv, SlowApart
<1> QED
  BY <1>1, <1>2, <1>3, <1>8, <1>10 DEF SlowInv

(* A run that has the database, or takes it, writes the last entry, while  *)
(* nobody else has it.                                                     *)
LEMMA SlowEntryStep ==
  ASSUME SlowInv, NEW r \in Runs, SlowOnlyRun(r), case' = case, journal # <<>>,
         NEW e \in Generations, SetNow(e), Consistent(e),
         \A s \in Runs : s # r => ~slow[s].conn,
         \A s \in Runs : s # r /\ Underway(s) =>
           e.index = Now.index /\ e.status \in {"sending", "unknown"},
         slow'[r].pc \notin SlowInCase, SlowPlaced(r)', Guarded(r)',
         Underway(r)' => \A s \in Runs : s # r => ~Underway(s)
  PROVE  SlowInv'
<1>1. SlowTypeOK /\ OnlyNow(e)
  BY NowWritten DEF SlowInv
<1>2. /\ journal' \in Seq(Generations) /\ Len(journal') = Len(journal) /\ Now' = e
      /\ DOMAIN journal' = DOMAIN journal /\ journal' # <<>>
      /\ Len(journal) \in DOMAIN journal /\ journal'[Len(journal)] = e
      /\ \A g \in DOMAIN journal : g # Len(journal) => journal'[g] = journal[g]
  BY <1>1 DEF OnlyNow
<1>3. SlowTypeOK'
  BY <1>1, <1>2 DEF SlowTypeOK, SlowOnlyRun
<1>4. Filed'
  BY <1>2 DEF SlowInv, Filed, SlowCounted
<1>5. \A g \in DOMAIN journal' : Consistent(journal[g])'
  <2> SUFFICES ASSUME NEW g \in DOMAIN journal PROVE Consistent(journal'[g])
    BY <1>2 DEF Consistent
  <2>1. Consistent(journal[g])
    BY DEF SlowInv
  <2> QED
    BY <1>2, <2>1
<1>6. ASSUME NEW s \in Runs, s # r
      PROVE  /\ slow'[s] = slow[s] /\ ~slow[s].conn /\ Case(s)' = Case(s)
             /\ Underway(s)' = Underway(s) /\ SlowPlaced(s) /\ Guarded(s)
  BY <1>6 DEF SlowInv, SlowOnlyRun, Case, Underway
<1>7. ASSUME NEW s \in Runs, s # r PROVE SlowPlaced(s)' /\ Guarded(s)'
  <2>1. SlowPlaced(s)'
    BY <1>2, <1>6, <1>7 DEF SlowPlaced, AtWork, SlowInCase
  <2>2. Guarded(s)'
    <3> SUFFICES ASSUME Underway(s) PROVE Guarded(s)'
      BY <1>6, <1>7 DEF Guarded
    <3>1. InTurn(s) /\ e.index = Now.index /\ e.status \in {"sending", "unknown"}
      BY <1>6, <1>7 DEF Guarded
    <3> QED
      BY <1>2, <1>6, <1>7, <3>1 DEF Guarded, InTurn
  <2> QED
    BY <2>1, <2>2
<1>8. \A s, t \in Runs : SlowApart(s, t)'
  BY <1>6 DEF SlowInv, SlowApart
<1> QED
  BY <1>3, <1>4, <1>5, <1>7, <1>8 DEF SlowInv

(* The last entry changes and no run moves: either nobody minds, or what   *)
(* runs know of it stays.                                                  *)
LEMMA WorldStep ==
  ASSUME SlowInv, UNCHANGED <<case, owner, slow>>, journal # <<>>,
         NEW e \in Generations, SetNow(e), Consistent(e),
         \/ \A s \in Runs : ~slow[s].conn /\ ~Underway(s)
         \/ /\ e.index = Now.index /\ e.status = Now.status
            /\ \A p \in Phases : Now.man[p] # None =>
                 /\ e.man[p] # None
                 /\ e.man[p].ver = Now.man[p].ver /\ e.man[p].review = Now.man[p].review
  PROVE  SlowInv'
<1>1. SlowTypeOK /\ OnlyNow(e)
  BY NowWritten DEF SlowInv
<1>2. /\ journal' \in Seq(Generations) /\ Len(journal') = Len(journal) /\ Now' = e
      /\ DOMAIN journal' = DOMAIN journal /\ journal' # <<>>
      /\ Len(journal) \in DOMAIN journal /\ journal'[Len(journal)] = e
      /\ \A g \in DOMAIN journal : g # Len(journal) => journal'[g] = journal[g]
  BY <1>1 DEF OnlyNow
<1>3. SlowTypeOK'
  BY <1>1, <1>2 DEF SlowTypeOK
<1>4. Filed'
  BY <1>2 DEF SlowInv, Filed, SlowCounted
<1>5. \A g \in DOMAIN journal' : Consistent(journal[g])'
  <2> SUFFICES ASSUME NEW g \in DOMAIN journal PROVE Consistent(journal'[g])
    BY <1>2 DEF Consistent
  <2>1. Consistent(journal[g])
    BY DEF SlowInv
  <2> QED
    BY <1>2, <2>1
<1>6. ASSUME NEW s \in Runs PROVE SlowPlaced(s)' /\ Guarded(s)'
  <2>1. /\ slow'[s] = slow[s] /\ Case(s)' = Case(s) /\ Underway(s)' = Underway(s)
        /\ SlowPlaced(s) /\ Guarded(s)
    BY DEF SlowInv, Case, Underway
  <2>2. CASE ~slow[s].conn /\ ~Underway(s)
    BY <1>2, <2>1, <2>2 DEF SlowPlaced, Guarded, AtWork, SlowInCase
  <2>3. CASE /\ e.index = Now.index /\ e.status = Now.status
             /\ \A p \in Phases : Now.man[p] # None =>
                  /\ e.man[p] # None
                  /\ e.man[p].ver = Now.man[p].ver /\ e.man[p].review = Now.man[p].review
    <3>1. InTurn(s)' = InTurn(s)
      BY SMTT(30), <1>2, <2>1, <2>3 DEF InTurn
    <3> QED
      BY <1>2, <2>1, <2>3, <3>1 DEF SlowPlaced, Guarded, AtWork
  <2> QED
    BY <2>2, <2>3
<1>7. \A s, t \in Runs : SlowApart(s, t)'
  BY DEF SlowInv, SlowApart, Underway, Case
<1> QED
  BY <1>3, <1>4, <1>5, <1>6, <1>7 DEF SlowInv

(* The journal grows when every phase of its last entry is behind.         *)
LEMMA GrowStep ==
  ASSUME SlowInv, NEW r \in Runs, SlowOnlyRun(r), case' = case, slow'[r].pc = "reports", slow'[r].conn,
         \A s \in Runs : ~slow[s].conn,
         Len(journal) < MaxGenerations, journal # <<>> => Now.status = "committed",
         journal' = Append(journal, Opened)
  PROVE  SlowInv'
<1> DEFINE n == Len(journal) + 1
<1>0. SlowTypeOK /\ Len(journal) \in Nat /\ DOMAIN journal = 1..Len(journal)
  BY SlowJournal DEF SlowInv
<1>1. Opened \in Generations /\ Opened.status = "planned" /\ Consistent(Opened)
  BY LiveSlowAssumption, Phasing DEF Opened, Generations, Standings, Consistent
<1>2. /\ journal' \in Seq(Generations) /\ Len(journal') = n /\ journal'[n] = Opened
      /\ DOMAIN journal' = 1..n /\ \A g \in DOMAIN journal : journal'[g] = journal[g]
  BY <1>0, <1>1, AppendProperties DEF SlowTypeOK
<1>3. Now' = Opened /\ journal' # <<>> /\ DOMAIN journal \subseteq DOMAIN journal'
  BY <1>0, <1>2 DEF Now
<1>4. SlowTypeOK'
  <2>1. Len(journal') <= MaxGenerations
    BY <1>0, <1>2, LiveSlowAssumption
  <2> QED
    BY <1>0, <1>2, <2>1 DEF SlowTypeOK, SlowOnlyRun
<1>5. Filed'
  <2>1. \A g \in 1..MaxGenerations : g > n => g > Len(journal)
    BY <1>0
  <2> HIDE DEF n
  <2> QED
    BY <1>2, <2>1 DEF SlowInv, Filed, SlowCounted
<1>6. \A g \in DOMAIN journal' : Consistent(journal[g])'
  <2> SUFFICES ASSUME NEW g \in DOMAIN journal' PROVE Consistent(journal'[g])
    BY DEF Consistent
  <2>1. g \in DOMAIN journal \/ g = n
    BY <1>0, <1>2
  <2> QED
    BY <1>1, <1>2, <2>1 DEF SlowInv
<1>7. ASSUME NEW s \in Runs PROVE ~Underway(s)
  <2> SUFFICES ASSUME Underway(s) PROVE FALSE
    OBVIOUS
  <2>1. slow[s].pc \in AtWork /\ SlowPlaced(s) /\ Guarded(s)
    BY DEF SlowInv, Underway, AtWork
  <2>2. Now.status \in {"sending", "unknown"} /\ journal # <<>>
    BY <1>0, <2>1 DEF SlowPlaced, Guarded
  <2> QED
    BY <2>2
<1>8. ASSUME NEW s \in Runs, s # r
      PROVE  /\ slow'[s] = slow[s] /\ ~slow[s].conn /\ Case(s)' = Case(s)
             /\ Underway(s)' = Underway(s) /\ SlowPlaced(s)
  BY <1>8 DEF SlowInv, SlowOnlyRun, Case, Underway
<1>9. ASSUME NEW s \in Runs PROVE SlowPlaced(s)' /\ Guarded(s)' /\ ~Underway(s)'
  <2>1. CASE s = r
    BY <1>1, <1>3, <2>1 DEF SlowPlaced, Guarded, Underway, AtWork, SlowInCase
  <2>2. CASE s # r
    BY <1>3, <1>7, <1>8, <2>2 DEF SlowPlaced, Guarded, AtWork, SlowInCase
  <2> QED
    BY <2>1, <2>2
<1>10. \A s, t \in Runs : SlowApart(s, t)'
  <2>1. slow'[r].pc \notin SlowInCase
    BY DEF SlowInCase
  <2> QED
    BY <1>8, <1>9, <2>1 DEF SlowInv, SlowApart
<1> QED
  BY <1>4, <1>5, <1>6, <1>9, <1>10 DEF SlowInv

-----------------------------------------------------------------------------
(* What a run may count on.                                                *)

LEMMA WithDatabase ==
  ASSUME SlowInv, NEW r \in Runs, slow[r].pc \in AtWork, slow[r].conn
  PROVE  /\ journal # <<>> /\ slow[r].gen = Len(journal) /\ Row(r) = Now /\ Now \in Generations
         /\ Now.index \in 0..4 /\ slow[r].phase = PHASES[Now.index + 1]
         /\ slow[r].phase \in Phases /\ Position(slow[r].phase) = Now.index + 1
         /\ Consistent(Now) /\ InTurn(r)
         /\ \A s \in Runs : s # r => ~slow[s].conn
<1>1. SlowPlaced(r) /\ SlowTypeOK
  BY DEF SlowInv
<1>2. InTurn(r) /\ journal # <<>> /\ slow[r].phase \in Phases
  BY <1>1 DEF SlowPlaced
<1>3. Now \in Generations /\ Len(journal) \in DOMAIN journal
  BY <1>1, <1>2, SlowJournal
<1>4. Now.index \in 0..4
  BY <1>2, <1>3, Phasing DEF InTurn, Generations
<1>5. Row(r) = Now /\ Consistent(Now)
  BY <1>2, <1>3 DEF Row, Now, InTurn, SlowInv
<1>6. \A s \in Runs : s # r => ~slow[s].conn
  BY <1>1 DEF SlowTypeOK
<1>7. Position(slow[r].phase) = Now.index + 1
  BY <1>2, <1>4, Phasing DEF InTurn
<1> QED
  BY <1>2, <1>3, <1>4, <1>5, <1>6, <1>7 DEF InTurn

LEMMA SlowInRange ==
  ASSUME SlowInv, NEW r \in Runs, slow[r].pc \in AtWork
  PROVE  /\ slow[r].gen \in 1..MaxGenerations /\ slow[r].gen <= Len(journal)
         /\ slow[r].phase \in Phases
         /\ Case(r) = case[slow[r].gen][slow[r].phase]
         /\ Case(r) \in Cases /\ SlowCounted(Case(r))
<1>1. SlowPlaced(r) /\ SlowTypeOK /\ DOMAIN journal = 1..Len(journal) /\ Len(journal) \in Nat
  BY SlowJournal DEF SlowInv
<1>2. slow[r].gen \in 1..Len(journal) /\ slow[r].phase \in Phases
  BY <1>1 DEF SlowPlaced
<1>3. slow[r].gen \in 1..MaxGenerations /\ slow[r].gen <= Len(journal)
  BY <1>1, <1>2, SlowJournal
<1> QED
  BY <1>1, <1>2, <1>3 DEF Case, SlowTypeOK, SlowInv, Filed

LEMMA NobodyHasIt ==
  ASSUME SlowInv, owner = None
  PROVE  \A s \in Runs : ~slow[s].conn
BY LiveSlowAssumption DEF SlowInv, SlowTypeOK

LEMMA NobodyUnderway ==
  ASSUME SlowInv, journal = <<>> \/ Now.status \notin {"sending", "unknown"}
  PROVE  \A s \in Runs : ~Underway(s)
<1> SUFFICES ASSUME NEW s \in Runs, Underway(s) PROVE FALSE
  OBVIOUS
<1>1. slow[s].pc \in AtWork /\ SlowPlaced(s) /\ Guarded(s)
  BY DEF SlowInv, Underway, AtWork
<1>2. Now.status \in {"sending", "unknown"} /\ slow[s].gen \in DOMAIN journal
  BY <1>1 DEF SlowPlaced, Guarded
<1> QED
  BY <1>2

(* Where the case of a run is told through, nobody is under way.           *)
LEMMA ToldThrough ==
  ASSUME SlowInv, NEW r \in Runs, slow[r].pc \in AtWork, slow[r].conn, Case(r).done = Parts
  PROVE  \A s \in Runs : ~Underway(s)
<1> SUFFICES ASSUME NEW s \in Runs, Underway(s) PROVE FALSE
  OBVIOUS
<1>1. InTurn(s) /\ InTurn(r)
  BY WithDatabase DEF SlowInv, Guarded
<1>2. Case(s) = Case(r)
  BY <1>1 DEF InTurn, Case
<1> QED
  BY <1>2 DEF Underway

-----------------------------------------------------------------------------
(* What an entry may become.                                               *)

LEMMA BuiltEntry ==
  ASSUME NEW row \in Generations, Consistent(row), NEW p \in Phases,
         Position(p) > row.index, row.builds[p] < MaxBuilds
  PROVE  /\ Built(row, p) \in Generations /\ Consistent(Built(row, p))
         /\ Built(row, p).status = "planned" /\ Built(row, p).index = row.index
         /\ Built(row, p).man[p] # None /\ Built(row, p).reused = row.reused
<1>1. PICK m : m = [ver |-> row.builds[p] + 1, shown |-> TRUE, review |-> None]
  OBVIOUS
<1>2. m \in Manifests /\ m # None
  <2>1. row.builds[p] \in 0..MaxBuilds
    BY DEF Generations
  <2>2. row.builds[p] + 1 \in 1..MaxBuilds
    BY <2>1, LiveSlowAssumption
  <2>3. m \in Manifests
    BY <1>1, <2>2 DEF Manifests
  <2> QED
    BY <2>3, LiveSlowAssumption
<1>3. PICK e : e = Built(row, p)
  OBVIOUS
<1>4. /\ e = [row EXCEPT !.man = [row.man EXCEPT ![p] = m],
                         !.builds = [row.builds EXCEPT ![p] = @ + 1], !.status = "planned"]
  BY <1>1, <1>3 DEF Built, Generations
<1>5. /\ e.man = [row.man EXCEPT ![p] = m] /\ e.builds = [row.builds EXCEPT ![p] = @ + 1]
      /\ e.status = "planned" /\ e.index = row.index /\ e.reused = row.reused
      /\ e = [status |-> e.status, index |-> e.index, man |-> e.man, builds |-> e.builds,
              reused |-> e.reused]
  BY <1>4 DEF Generations
<1>6. e.man \in [Phases -> Manifests \cup {None}] /\ e.man[p] = m
      /\ \A q \in Phases : q # p => e.man[q] = row.man[q]
  BY <1>2, <1>5 DEF Generations
<1>7. e.builds \in [Phases -> 0..MaxBuilds]
  BY <1>5, LiveSlowAssumption DEF Generations
<1>8. e \in Generations
  BY <1>5, <1>6, <1>7 DEF Generations, Standings
<1>9. Consistent(e)
  <2>1. row.index \in 0..5 /\ Position(p) \in 1..5
    BY Phasing DEF Generations
  <2>2. \A q \in Phases : Position(q) <= row.index => q # p
    BY <2>1
  <2> QED
    BY <1>5, <1>6, <2>1, <2>2 DEF Consistent
<1> QED
  BY <1>2, <1>3, <1>5, <1>6, <1>8, <1>9

LEMMA MarkedEntry ==
  ASSUME NEW row \in Generations, Consistent(row), row.index \in 0..4,
         NEW st \in {"planned", "sending", "unknown", "failed"},
         st = "sending" => row.man[PHASES[row.index + 1]] # None
  PROVE  /\ [row EXCEPT !.status = st] \in Generations
         /\ Consistent([row EXCEPT !.status = st])
         /\ [row EXCEPT !.status = st].status = st
         /\ [row EXCEPT !.status = st].index = row.index
         /\ [row EXCEPT !.status = st].man = row.man
         /\ [row EXCEPT !.status = st].reused = row.reused
BY SMTT(30) DEF Generations, Consistent, Standings

LEMMA ReviewedEntry ==
  ASSUME NEW row \in Generations, Consistent(row), NEW p \in Phases, row.man[p] # None,
         NEW e \in Reviews(row, p)
  PROVE  /\ e \in Generations /\ Consistent(e)
         /\ e.status = row.status /\ e.index = row.index /\ e.reused = row.reused
         /\ e.man[p] # None /\ e.man[p].review # None /\ e.man[p].ver = row.man[p].ver
<1>1. PICK f \in Found :
        e = [row EXCEPT !.man[p].review = [match |-> IF Reusable(f) THEN f ELSE None]]
  BY DEF Reviews
<1>2. PICK m : m = [row.man[p] EXCEPT !.review = [match |-> IF Reusable(f) THEN f ELSE None]]
  OBVIOUS
<1>3. row.man[p] \in Manifests
  BY DEF Generations
<1>4. [match |-> IF Reusable(f) THEN f ELSE None] \in Matches
  BY DEF Matches
<1>5. m \in Manifests /\ m # None /\ m.review # None /\ m.ver = row.man[p].ver
  BY <1>2, <1>3, <1>4, LiveSlowAssumption DEF Manifests
<1>6. e = [row EXCEPT !.man = [row.man EXCEPT ![p] = m]]
  BY <1>1, <1>2 DEF Generations
<1>7. /\ e.man = [row.man EXCEPT ![p] = m] /\ e.builds = row.builds
      /\ e.status = row.status /\ e.index = row.index /\ e.reused = row.reused
      /\ e = [status |-> e.status, index |-> e.index, man |-> e.man, builds |-> e.builds,
              reused |-> e.reused]
  BY <1>6 DEF Generations
<1>8. e.man \in [Phases -> Manifests \cup {None}] /\ e.man[p] = m
      /\ \A q \in Phases : q # p => e.man[q] = row.man[q]
  BY <1>5, <1>7 DEF Generations
<1>9. e \in Generations
  BY <1>7, <1>8 DEF Generations
<1>10. Consistent(e)
  BY <1>5, <1>7, <1>8, Phasing DEF Consistent
<1> QED
  BY <1>5, <1>7, <1>8, <1>9, <1>10

(* A phase is left behind.                                                 *)
LEMMA PassedEntry ==
  ASSUME NEW row \in Generations, Consistent(row), row.index \in 0..4,
         NEW p \in Phases, p = PHASES[row.index + 1], NEW prior \in SUBSET Found
  PROVE  /\ Pass(row, p, prior) \in Generations /\ Consistent(Pass(row, p, prior))
         /\ Pass(row, p, prior).index = row.index + 1
         /\ Pass(row, p, prior).reused =
              IF prior = {} THEN row.reused ELSE [at |-> row.index + 1, by |-> prior]
<1>1. Position(p) = row.index + 1 /\ row.index + 1 \in 1..5 /\ Len(PHASES) = 5
  BY Phasing
<1>2. PICK e : e = Pass(row, p, prior)
  OBVIOUS
<1>3. /\ e.man = [row.man EXCEPT ![p] = None] /\ e.builds = row.builds
      /\ e.status = IF row.index + 1 = 5 THEN "committed" ELSE "planned"
      /\ e.index = row.index + 1
      /\ e.reused = IF prior = {} THEN row.reused ELSE [at |-> row.index + 1, by |-> prior]
      /\ e = [status |-> e.status, index |-> e.index, man |-> e.man, builds |-> e.builds,
              reused |-> e.reused]
  BY <1>1, <1>2 DEF Pass, Generations
<1>4. e.man \in [Phases -> Manifests \cup {None}] /\ e.man[p] = None
      /\ \A q \in Phases : q # p => e.man[q] = row.man[q]
  BY <1>3 DEF Generations
<1>5. e.reused \in [at : 0..5, by : SUBSET Found] /\ e.index \in 0..5
  BY <1>1, <1>3 DEF Generations
<1>6. e \in Generations
  BY <1>1, <1>3, <1>4, <1>5 DEF Generations, Standings
<1>7. Consistent(e)
  <2>1. \A q \in Phases : Position(q) = row.index + 1 => q = p
    BY Phasing
  <2>2. \A q \in Phases : Position(q) <= row.index + 1 => Position(q) <= row.index \/ q = p
    BY <1>1, <2>1, Phasing
  <2> QED
    BY <1>1, <1>3, <1>4, <2>2 DEF Consistent
<1> QED
  BY <1>2, <1>3, <1>6, <1>7

(* Reports that are old are set aside.                                     *)
LEMMA RefreshedEntry ==
  ASSUME NEW row \in Generations, Consistent(row), Stale(row) # {},
         NEW e, e = [row EXCEPT !.status = "planned",
                  !.man = [p \in Phases |-> IF p \in Stale(row) THEN None ELSE @[p]]]
  PROVE  /\ e \in Generations /\ Consistent(e)
         /\ e.status = "planned" /\ e.index = row.index /\ e.reused = row.reused
<1>1. /\ e.man = [p \in Phases |-> IF p \in Stale(row) THEN None ELSE row.man[p]]
      /\ e.builds = row.builds /\ e.status = "planned" /\ e.index = row.index
      /\ e.reused = row.reused
      /\ e = [status |-> e.status, index |-> e.index, man |-> e.man, builds |-> e.builds,
              reused |-> e.reused]
  BY DEF Generations
<1>2. e \in Generations
  BY <1>1 DEF Generations, Standings
<1>3. row.index # 5
  <2>1. PICK p \in Phases : row.man[p] # None
    BY Phasing DEF Stale
  <2> QED
    BY <2>1, Phasing DEF Consistent
<1> QED
  BY <1>1, <1>2, <1>3 DEF Consistent

(* An hour passes.                                                         *)
LEMMA AgedEntry ==
  ASSUME NEW row \in Generations, Consistent(row),
         NEW e, e = [row EXCEPT !.man = [p \in Phases |->
            IF @[p] = None \/ p \notin Reports THEN @[p] ELSE [@[p] EXCEPT !.shown = FALSE]]]
  PROVE  /\ e \in Generations /\ Consistent(e)
         /\ e.status = row.status /\ e.index = row.index /\ e.reused = row.reused
         /\ \A p \in Phases : row.man[p] # None =>
              /\ e.man[p] # None
              /\ e.man[p].ver = row.man[p].ver /\ e.man[p].review = row.man[p].review
<1>1. /\ e.man = [p \in Phases |->
            IF row.man[p] = None \/ p \notin Reports THEN row.man[p]
            ELSE [row.man[p] EXCEPT !.shown = FALSE]]
      /\ e.builds = row.builds /\ e.status = row.status /\ e.index = row.index
      /\ e.reused = row.reused
      /\ e = [status |-> e.status, index |-> e.index, man |-> e.man, builds |-> e.builds,
              reused |-> e.reused]
  BY DEF Generations
<1>2. ASSUME NEW p \in Phases
      PROVE  /\ e.man[p] \in Manifests \cup {None}
             /\ row.man[p] = None => e.man[p] = None
             /\ row.man[p] # None =>
                  /\ e.man[p] # None
                  /\ e.man[p].ver = row.man[p].ver /\ e.man[p].review = row.man[p].review
  <2>1. row.man[p] \in Manifests \cup {None}
    BY DEF Generations
  <2>2. /\ row.man[p] = None \/ p \notin Reports => e.man[p] = row.man[p]
        /\ ~(row.man[p] = None \/ p \notin Reports) =>
             e.man[p] = [row.man[p] EXCEPT !.shown = FALSE]
    BY <1>1
  <2>3. CASE row.man[p] = None \/ p \notin Reports
    BY <2>1, <2>2, <2>3
  <2>4. CASE ~(row.man[p] = None \/ p \notin Reports)
    <3>1. PICK m \in Manifests : m = row.man[p]
      BY <2>1, <2>4
    <3>2. e.man[p] = [m EXCEPT !.shown = FALSE]
      BY <2>2, <2>4, <3>1
    <3>3. /\ [m EXCEPT !.shown = FALSE] \in Manifests
          /\ [m EXCEPT !.shown = FALSE].ver = m.ver
          /\ [m EXCEPT !.shown = FALSE].review = m.review
      BY DEF Manifests
    <3>4. e.man[p] # None
      BY <3>2, <3>3, LiveSlowAssumption
    <3> QED
      BY <2>4, <3>1, <3>2, <3>3, <3>4
  <2> QED
    BY <2>3, <2>4
<1>3. e \in Generations
  BY <1>1, <1>2 DEF Generations
<1>4. Consistent(e)
  <2>1. row.status = "sending" => PHASES[row.index + 1] \in Phases
    <3>1. row.index \in 0..5
      BY Phasing DEF Generations
    <3>2. row.status = "sending" => row.index + 1 \in 1..5
      BY <3>1 DEF Consistent
    <3> QED
      BY <3>2, Phasing
  <2> QED
    BY <1>1, <1>2, <2>1 DEF Consistent
<1> QED
  BY <1>1, <1>2, <1>3, <1>4

-----------------------------------------------------------------------------
(* The steps, one by one.                                                  *)

LEMMA OpenWeekStep ==
  ASSUME SlowInv, NEW r \in Runs, OpenWeek(r)
  PROVE  SlowInv'
<1>1. SlowOnlyRun(r) /\ slow'[r].pc = "reports" /\ slow'[r].conn /\ \A s \in Runs : ~slow[s].conn
  BY BeginsAt DEF OpenWeek, SlowInv
<1> QED
  BY <1>1, GrowStep DEF OpenWeek

LEMMA RefreshStep ==
  ASSUME SlowInv, NEW r \in Runs, Refresh(r)
  PROVE  SlowInv'
<1>1. SlowOnlyRun(r) /\ slow'[r].pc = "reports" /\ \A s \in Runs : ~slow[s].conn
  BY BeginsAt DEF Refresh, SlowInv
<1>2. journal # <<>> /\ Now.status \notin {"sending", "unknown"} /\ Stale(Now) # {}
  BY DEF Refresh, Prepares
<1>3. Now \in Generations /\ Consistent(Now)
  BY <1>2, SlowJournal DEF SlowInv, Now
<1>4. PICK e : e = [Now EXCEPT !.status = "planned",
                  !.man = [p \in Phases |-> IF p \in Stale(Now) THEN None ELSE @[p]]]
  OBVIOUS
<1>5. e \in Generations /\ Consistent(e) /\ e.status = "planned"
  BY <1>2, <1>3, <1>4, RefreshedEntry
<1>6. SetNow(e) /\ case' = case
  BY <1>4 DEF Refresh
<1>7. \A s \in Runs : ~Underway(s)
  BY <1>2, NobodyUnderway
<1>8. SlowPlaced(r)' /\ Guarded(r)' /\ ~Underway(r)' /\ slow'[r].pc \notin SlowInCase
  <2>1. journal' # <<>> /\ Now' = e
    BY <1>2, <1>5, <1>6, NowWritten DEF SlowInv, OnlyNow
  <2>2. slow'[r].conn
    BY BeginsAt DEF Refresh, SlowInv
  <2> QED
    BY <1>1, <1>5, <2>1, <2>2 DEF SlowPlaced, Guarded, Underway, AtWork, SlowInCase
<1> QED
  BY <1>1, <1>2, <1>5, <1>6, <1>7, <1>8, SlowEntryStep

LEMMA ContinueStep ==
  ASSUME SlowInv, NEW r \in Runs, Continue(r)
  PROVE  SlowInv'
<1>1. SlowOnlyRun(r) /\ slow'[r].pc = "reports" /\ slow'[r].conn
  BY BeginsAt DEF Continue, SlowInv
<1>2. /\ journal # <<>> /\ Now.status \notin {"sending", "unknown"}
      /\ journal' = journal /\ case' = case
  BY DEF Continue, Prepares
<1>3. SlowPlaced(r)' /\ Guarded(r)' /\ ~Underway(r)' /\ slow'[r].pc \notin SlowInCase
  BY <1>1, <1>2 DEF SlowPlaced, Guarded, Underway, AtWork, SlowInCase, Now
<1> QED
  BY <1>1, <1>2, <1>3, SlowRunStep

LEMMA Still ==
  ASSUME SlowInv, NEW r \in Runs, slow' = slow, owner' = owner
  PROVE  SlowOnlyRun(r)
BY DEF SlowInv, SlowTypeOK, SlowOnlyRun

LEMMA BuildReportStep ==
  ASSUME SlowInv, NEW r \in Runs, BuildReport(r)
  PROVE  SlowInv'
<1>1. PICK p \in Missing(Now) : SetNow(Built(Now, p)) /\ CanBuild(p)
  BY DEF BuildReport, Missing, Reports
<1>2. /\ slow[r].pc = "reports" /\ slow[r].conn
      /\ case' = case /\ owner' = owner /\ slow' = slow
  BY DEF BuildReport, On
<1>3. journal # <<>> /\ Now.status \notin {"sending", "unknown"} /\ SlowTypeOK
  BY <1>2 DEF SlowInv, SlowPlaced
<1>4. Now \in Generations /\ Consistent(Now)
  BY <1>3, SlowJournal DEF SlowInv, Now
<1>5. PICK e : e = Built(Now, p)
  OBVIOUS
<1>6. e \in Generations /\ Consistent(e) /\ e.status = "planned"
  BY <1>1, <1>4, <1>5, Phasing, BuiltEntry DEF Missing, CanBuild
<1>7. SetNow(e)
  BY <1>1, <1>5
<1>8. SlowOnlyRun(r) /\ \A s \in Runs : s # r => ~slow[s].conn
  BY <1>2, <1>3, Still DEF SlowTypeOK
<1>9. \A s \in Runs : ~Underway(s)
  BY <1>3, NobodyUnderway
<1>10. SlowPlaced(r)' /\ Guarded(r)' /\ ~Underway(r)' /\ slow'[r].pc \notin SlowInCase
  <2>1. journal' # <<>> /\ Now' = e
    BY <1>3, <1>6, <1>7, NowWritten DEF OnlyNow
  <2> QED
    BY <1>2, <1>6, <2>1 DEF SlowPlaced, Guarded, Underway, AtWork, SlowInCase
<1> QED
  BY <1>2, <1>3, <1>6, <1>7, <1>8, <1>9, <1>10, SlowEntryStep

LEMMA PreviewBuildStep ==
  ASSUME SlowInv, PreviewBuild
  PROVE  SlowInv'
<1>1. PICK p \in Unbuilt : SetNow(Built(Now, p)) /\ CanBuild(p)
  BY DEF PreviewBuild, Unbuilt
<1>2. /\ journal # <<>> /\ Now.status \notin {"sending", "unknown"} /\ owner = None
      /\ UNCHANGED <<case, owner, slow>>
  BY DEF PreviewBuild, Previews
<1>3. Now \in Generations /\ Consistent(Now)
  BY <1>2, SlowJournal DEF SlowInv, Now
<1>4. p \in Phases /\ Position(p) > Now.index
  BY Phasing DEF Unbuilt, Phases, PHASES, ToSet
<1>5. PICK e : e = Built(Now, p)
  OBVIOUS
<1>6. e \in Generations /\ Consistent(e)
  BY <1>1, <1>3, <1>4, <1>5, BuiltEntry DEF CanBuild
<1>7. \A s \in Runs : ~slow[s].conn /\ ~Underway(s)
  BY <1>2, NobodyHasIt, NobodyUnderway
<1> QED
  BY <1>1, <1>2, <1>5, <1>6, <1>7, WorldStep

LEMMA PreviewReviewStep ==
  ASSUME SlowInv, PreviewReview
  PROVE  SlowInv'
<1>0. PICK p \in Unreviewed : \E row \in Reviews(Now, p) : SetNow([row EXCEPT !.status = "planned"])
  BY DEF PreviewReview
<1>1. PICK row \in Reviews(Now, p) : SetNow([row EXCEPT !.status = "planned"])
  BY <1>0
<1>2. /\ journal # <<>> /\ Now.status \notin {"sending", "unknown"} /\ owner = None
      /\ UNCHANGED <<case, owner, slow>>
  BY DEF PreviewReview, Previews
<1>3. Now \in Generations /\ Consistent(Now)
  BY <1>2, SlowJournal DEF SlowInv, Now
<1>4. p \in Phases /\ Now.man[p] # None
  BY DEF Unreviewed
<1>5. row \in Generations /\ Consistent(row) /\ row.index = Now.index
  BY <1>3, <1>4, ReviewedEntry
<1>6. row.index \in 0..4
  <2>1. Now.index \in 0..5 /\ Now.index # 5
    BY <1>3, <1>4, Phasing DEF Consistent, Generations
  <2> QED
    BY <1>5, <2>1
<1>7. PICK e : e = [row EXCEPT !.status = "planned"]
  OBVIOUS
<1>8. e \in Generations /\ Consistent(e)
  BY <1>5, <1>6, <1>7, MarkedEntry
<1>9. \A s \in Runs : ~slow[s].conn /\ ~Underway(s)
  BY <1>2, NobodyHasIt, NobodyUnderway
<1> QED
  BY <1>1, <1>2, <1>7, <1>8, <1>9, WorldStep

LEMMA HourStep ==
  ASSUME SlowInv, Hour
  PROVE  SlowInv'
<1>1. PICK e : e = [Now EXCEPT !.man = [p \in Phases |->
            IF @[p] = None \/ p \notin Reports THEN @[p] ELSE [@[p] EXCEPT !.shown = FALSE]]]
  OBVIOUS
<1>2. journal # <<>> /\ SetNow(e) /\ UNCHANGED <<case, owner, slow>>
  BY <1>1 DEF Hour
<1>3. Now \in Generations /\ Consistent(Now)
  BY <1>2, SlowJournal DEF SlowInv, Now
<1>4. /\ e \in Generations /\ Consistent(e)
      /\ e.status = Now.status /\ e.index = Now.index
      /\ \A p \in Phases : Now.man[p] # None =>
           /\ e.man[p] # None
           /\ e.man[p].ver = Now.man[p].ver /\ e.man[p].review = Now.man[p].review
  BY ZenonT(60), <1>1, <1>3, AgedEntry
<1> QED
  BY <1>2, <1>4, WorldStep

LEMMA SlowDiesStep ==
  ASSUME SlowInv, NEW r \in Runs, Quit(r), UNCHANGED <<journal, case>>
  PROVE  SlowInv'
<1>1. SlowOnlyRun(r) /\ slow'[r] = Idle
  BY Quits DEF SlowInv
<1>2. SlowPlaced(r)' /\ Guarded(r)' /\ ~Underway(r)' /\ slow'[r].pc \notin SlowInCase
  BY <1>1, IdleIsAState DEF SlowPlaced, Guarded, Underway, AtWork, SlowInCase
<1> QED
  BY <1>1, <1>2, SlowRunStep

LEMMA LosesDatabaseStep ==
  ASSUME SlowInv, NEW r \in Runs, LosesDatabase(r)
  PROVE  SlowInv'
<1>1. PICK v : v = [slow[r] EXCEPT !.conn = FALSE]
  OBVIOUS
<1>2. /\ slow[r] \in States /\ slow[r].conn
      /\ slow[r].pc \in {"case", "attempt", "answer", "release"}
      /\ owner = r /\ journal' = journal /\ case' = case
  BY DEF SlowInv, SlowTypeOK, LosesDatabase
<1>3. /\ v \in States /\ ~v.conn /\ v.pc = slow[r].pc /\ v.gen = slow[r].gen
      /\ v.phase = slow[r].phase /\ v.ver = slow[r].ver /\ v.then = slow[r].then
  BY <1>1, <1>2 DEF States
<1>4. /\ slow' \in [Runs -> States] /\ slow'[r] = v
      /\ \A s \in Runs : s # r => slow'[s] = slow[s]
  BY <1>1, <1>3 DEF SlowInv, SlowTypeOK, LosesDatabase
<1>5. SlowOnlyRun(r)
  BY <1>2, <1>3, <1>4, LiveSlowAssumption DEF SlowOnlyRun, LosesDatabase
<1>6. /\ SlowPlaced(r) /\ Guarded(r) /\ Case(r)' = Case(r) /\ Now' = Now
      /\ Underway(r)' = Underway(r) /\ InTurn(r)' = InTurn(r)
  BY <1>2, <1>3, <1>4 DEF SlowInv, Case, Now, Underway, InTurn
<1>7. SlowPlaced(r)'
  BY <1>2, <1>3, <1>4, <1>6 DEF SlowPlaced, AtWork, SlowInCase
<1>8. Guarded(r)'
  BY <1>3, <1>4, <1>6 DEF Guarded
<1> QED
  BY <1>2, <1>3, <1>4, <1>5, <1>6, <1>7, <1>8, SlowRunStep

LEMMA DeliverStep ==
  ASSUME SlowInv, NEW r \in Runs, Deliver(r)
  PROVE  SlowInv'
<1> DEFINE p == PHASES[Now.index + 1]
           new == Now.man[p] = None
<1>1. /\ journal # <<>> /\ Now.status \notin {"committed", "unknown"}
      /\ owner = None /\ owner' = r /\ case' = case
      /\ new => CanBuild(p)
      /\ journal' = IF new THEN [journal EXCEPT ![Len(journal)] = Built(Now, p)] ELSE journal
  BY DEF Deliver
<1>2. Now \in Generations /\ Consistent(Now) /\ Len(journal) \in 1..MaxGenerations /\ SlowTypeOK
  BY <1>1, SlowJournal DEF SlowInv, Now
<1>3. Now.index \in 0..4
  BY <1>1, <1>2, Phasing DEF Consistent, Generations
<1>4. p \in Phases /\ Position(p) = Now.index + 1
  BY <1>3, Phasing
<1>5. PICK v : v = [Idle EXCEPT !.pc = "stage", !.conn = TRUE, !.gen = Len(journal), !.phase = p,
                      !.state = IF new THEN "planned" ELSE Now.status]
  OBVIOUS
<1>6. /\ v \in States /\ v.pc = "stage" /\ v.conn /\ v.gen = Len(journal) /\ v.phase = p
      /\ v.state = IF new THEN "planned" ELSE Now.status
  <2>1. Len(journal) \in 0..MaxGenerations /\ Idle \in States
    BY <1>2, IdleIsAState
  <2>2. (IF new THEN "planned" ELSE Now.status) \in Standings
    BY <1>2 DEF Generations, Standings
  <2> HIDE DEF new, p
  <2> QED
    BY <1>4, <1>5, <2>1, <2>2 DEF States
<1>7. slow' = [slow EXCEPT ![r] = v]
  BY <1>5 DEF Deliver
<1>8. SlowOnlyRun(r) /\ slow'[r] = v /\ \A s \in Runs : ~slow[s].conn
  BY <1>1, <1>2, <1>6, <1>7, Begins
<1>9. ~Underway(r)' /\ Guarded(r)' /\ slow'[r].pc \notin SlowInCase
  BY <1>6, <1>8 DEF Underway, Guarded, SlowInCase
<1>10. CASE new
  <2>1. PICK e : e = Built(Now, p)
    OBVIOUS
  <2>2. /\ e \in Generations /\ Consistent(e) /\ e.status = "planned" /\ e.index = Now.index
        /\ e.man[p] # None
    <3>1. Now.builds[p] < MaxBuilds /\ Position(p) > Now.index
      BY <1>1, <1>3, <1>4, <1>10 DEF CanBuild
    <3> HIDE DEF p
    <3> QED
      BY <1>2, <1>4, <2>1, <3>1, BuiltEntry
  <2>3. SetNow(e)
    BY <1>1, <1>10, <2>1 DEF SetNow
  <2>4. \A s \in Runs : ~Underway(s)
    <3>1. Now.status # "sending"
      BY <1>2, <1>10 DEF Consistent
    <3> QED
      BY <1>1, <3>1, NobodyUnderway
  <2>5. SlowPlaced(r)'
    <3>1. OnlyNow(e)
      BY <1>1, <1>2, <2>2, <2>3, NowWritten
    <3> HIDE DEF p
    <3>2. InTurn(r)'
      BY <1>3, <1>6, <1>8, <2>2, <3>1 DEF OnlyNow, InTurn, p
    <3> QED
      BY <1>2, <1>4, <1>6, <1>8, <1>10, <2>2, <3>1, <3>2 DEF OnlyNow, SlowPlaced, AtWork, SlowInCase
  <2> QED
    BY <1>1, <1>8, <1>9, <2>2, <2>3, <2>4, <2>5, SlowEntryStep
<1>11. CASE ~new
  <2>1. journal' = journal /\ Now' = Now
    BY <1>1, <1>11 DEF Now
  <2>2. Len(journal) \in DOMAIN journal
    BY <1>1, <1>2, SlowJournal
  <2>3. InTurn(r)'
    BY <1>3, <1>6, <1>8, <2>1 DEF InTurn
  <2>4. SlowPlaced(r)'
    <3>1. Now.man[v.phase] # None /\ v.state = Now.status /\ v.phase \in Phases
      BY <1>4, <1>6, <1>11
    <3> HIDE DEF new, p
    <3> QED
      BY <1>1, <1>6, <1>8, <2>1, <2>2, <2>3, <3>1 DEF SlowPlaced, AtWork, SlowInCase
  <2> QED
    BY <1>1, <1>8, <1>9, <2>1, <2>4, SlowRunStep
<1> QED
  BY <1>10, <1>11

LEMMA ReviewStep ==
  ASSUME SlowInv, NEW r \in Runs, Review(r)
  PROVE  SlowInv'
<1> DEFINE p == slow[r].phase
<1>1. /\ slow[r].pc = "stage" /\ slow[r].conn /\ case' = case /\ owner' = owner
      /\ slow' = [slow EXCEPT ![r].pc = "choose", ![r].ver = Row(r).man[p].ver]
      /\ IF Row(r).man[p].review # None THEN journal' = journal
         ELSE \E row \in Reviews(Row(r), p) : SetRow(r, row)
  BY DEF Review, On
<1>2. /\ journal # <<>> /\ slow[r].gen = Len(journal) /\ Row(r) = Now /\ Now \in Generations
      /\ p \in Phases /\ Consistent(Now) /\ InTurn(r)
      /\ \A s \in Runs : s # r => ~slow[s].conn
  BY <1>1, WithDatabase DEF AtWork
<1>3. /\ SlowPlaced(r) /\ Now.man[p] # None /\ slow[r].state = Now.status
      /\ Now.status \notin {"committed", "unknown"}
      /\ slow[r] \in States /\ SlowTypeOK
  BY <1>1 DEF SlowInv, SlowPlaced, SlowTypeOK
<1>4. PICK v : v = [slow[r] EXCEPT !.pc = "choose", !.ver = Now.man[p].ver]
  BY SMTT(30)
<1>5. /\ v \in States /\ v.pc = "choose" /\ v.conn = slow[r].conn /\ v.gen = slow[r].gen
      /\ v.phase = p /\ v.state = slow[r].state /\ v.ver = Now.man[p].ver
  <2>1. Now.man[p].ver \in 0..MaxBuilds
    BY <1>2, <1>3, LiveSlowAssumption DEF Generations, Manifests
  <2> QED
    BY <1>3, <1>4, <2>1 DEF States
<1>6. slow' = [slow EXCEPT ![r] = v]
  BY <1>1, <1>2, <1>3, <1>4 DEF SlowTypeOK, States
<1>7. SlowOnlyRun(r) /\ slow'[r] = v
  BY <1>1, <1>3, <1>5, <1>6, SlowStays
<1>8. ~Underway(r)' /\ Guarded(r)' /\ slow'[r].pc \notin SlowInCase
  BY <1>5, <1>7 DEF Underway, Guarded, SlowInCase
<1>9. CASE Row(r).man[p].review # None
  <2>1. journal' = journal /\ Now' = Now
    BY <1>1, <1>9 DEF Now
  <2>2. InTurn(r)'
    BY <1>2, <1>5, <1>7, <2>1 DEF InTurn
  <2>3. SlowPlaced(r)'
    BY ZenonT(60), <1>1, <1>2, <1>3, <1>5, <1>7, <1>9, <2>1, <2>2 DEF SlowPlaced, AtWork, SlowInCase
  <2> QED
    BY <1>1, <1>7, <1>8, <2>1, <2>3, SlowRunStep
<1>10. CASE Row(r).man[p].review = None
  <2>1. PICK e \in Reviews(Now, p) : SetRow(r, e)
    BY <1>1, <1>2, <1>10
  <2>2. /\ e \in Generations /\ Consistent(e) /\ e.status = Now.status /\ e.index = Now.index
        /\ e.man[p] # None /\ e.man[p].review # None /\ e.man[p].ver = Now.man[p].ver
    BY <1>2, <1>3, ReviewedEntry
  <2>3. SetNow(e)
    BY <1>2, <2>1 DEF SetRow, SetNow
  <2>4. OnlyNow(e)
    BY <1>2, <1>3, <2>2, <2>3, NowWritten
  <2>5. InTurn(r)'
    BY <1>2, <1>5, <1>7, <2>2, <2>4 DEF InTurn, OnlyNow
  <2>6. SlowPlaced(r)'
    BY ZenonT(60), <1>1, <1>2, <1>3, <1>5, <1>7, <2>2, <2>4, <2>5 DEF SlowPlaced, AtWork, SlowInCase, OnlyNow
  <2>7. \A s \in Runs : s # r /\ Underway(s) =>
          e.index = Now.index /\ e.status \in {"sending", "unknown"}
    BY <2>2 DEF SlowInv, Guarded
  <2> QED
    BY <1>1, <1>2, <1>7, <1>8, <2>2, <2>3, <2>6, <2>7, SlowEntryStep
<1> QED
  BY <1>9, <1>10

(* A run writes the entry of its phase and ends.                           *)
LEMMA LastWordStep ==
  ASSUME SlowInv, NEW r \in Runs, slow[r].pc \in AtWork, slow[r].conn, case' = case, Quit(r),
         NEW e \in Generations, SetRow(r, e), Consistent(e),
         \/ \A s \in Runs : s # r => ~Underway(s)
         \/ e.index = Now.index /\ e.status = "unknown"
  PROVE  SlowInv'
<1>1. /\ journal # <<>> /\ slow[r].gen = Len(journal)
      /\ \A s \in Runs : s # r => ~slow[s].conn
  BY WithDatabase
<1>2. SetNow(e)
  BY <1>1 DEF SetRow, SetNow
<1>3. SlowOnlyRun(r) /\ slow'[r] = Idle
  BY Quits DEF SlowInv
<1>4. SlowPlaced(r)' /\ Guarded(r)' /\ ~Underway(r)' /\ slow'[r].pc \notin SlowInCase
  BY <1>3, IdleIsAState DEF SlowPlaced, Guarded, Underway, AtWork, SlowInCase
<1> QED
  BY <1>1, <1>2, <1>3, <1>4, SlowEntryStep

(* What the review of the manifest found.                                  *)
LEMMA MatchOf ==
  ASSUME SlowInv, NEW r \in Runs, slow[r].pc = "choose", slow[r].conn
  PROVE  /\ Row(r).man[slow[r].phase].review.match \in Found \cup {None}
         /\ slow[r].ver = Now.man[slow[r].phase].ver
         /\ slow[r].ver \in 1..MaxBuilds /\ slow[r].state = Now.status
         /\ Now.man[slow[r].phase] # None /\ Now.status \notin {"committed", "unknown"}
<1>1. /\ Row(r) = Now /\ Now \in Generations /\ slow[r].phase \in Phases
  BY WithDatabase DEF AtWork
<1>2. /\ Now.man[slow[r].phase] # None /\ Now.man[slow[r].phase].review # None
      /\ slow[r].ver = Now.man[slow[r].phase].ver /\ slow[r].state = Now.status
      /\ Now.status \notin {"committed", "unknown"}
  BY DEF SlowInv, SlowPlaced
<1>3. Now.man[slow[r].phase] \in Manifests
  BY <1>1, <1>2 DEF Generations
<1> QED
  BY <1>1, <1>2, <1>3 DEF Manifests, Matches

LEMMA ReuseStep ==
  ASSUME SlowInv, NEW r \in Runs, Reuse(r)
  PROVE  SlowInv'
<1> DEFINE m == Row(r).man[slow[r].phase].review.match
<1>1. /\ slow[r].pc = "choose" /\ slow[r].conn /\ m # None /\ slow[r].state = "planned"
      /\ Quit(r) /\ case' = case
      /\ SetRow(r, IF Accepts(m) THEN Pass(Row(r), slow[r].phase, {m})
                   ELSE [Row(r) EXCEPT !.status = "unknown"])
  BY SMTT(30) DEF Reuse, On
<1>2. /\ Row(r) = Now /\ Now \in Generations /\ Now.index \in 0..4
      /\ slow[r].phase = PHASES[Now.index + 1] /\ slow[r].phase \in Phases /\ Consistent(Now)
  BY SMTT(30), <1>1, WithDatabase DEF AtWork
<1>3. m \in Found /\ Now.status = "planned"
  BY <1>1, MatchOf
<1>4. \A s \in Runs : ~Underway(s)
  BY <1>3, NobodyUnderway
<1>5. PICK e : e = IF Accepts(m) THEN Pass(Row(r), slow[r].phase, {m})
                   ELSE [Row(r) EXCEPT !.status = "unknown"]
  OBVIOUS
<1> HIDE DEF m
<1>6. e \in Generations /\ Consistent(e)
  <2>1. CASE Accepts(m)
    BY ZenonT(60), <1>2, <1>3, <1>5, <2>1, PassedEntry
  <2>2. CASE ~Accepts(m)
    BY <1>2, <1>5, <2>2, MarkedEntry
  <2> QED
    BY <2>1, <2>2
<1>7. SetRow(r, e)
  BY <1>1, <1>5
<1> QED
  BY <1>1, <1>4, <1>6, <1>7, LastWordStep DEF AtWork

LEMMA RaisedStep ==
  ASSUME SlowInv, NEW r \in Runs, Raised(r)
  PROVE  SlowInv'
<1>1. /\ slow[r].pc = "raised" /\ slow[r].conn /\ case' = case /\ Quit(r)
      /\ SetRow(r, [Row(r) EXCEPT !.status = slow[r].then])
  BY DEF Raised, On
<1>2. Row(r) = Now /\ Now \in Generations /\ Now.index \in 0..4 /\ Consistent(Now)
  BY <1>1, WithDatabase DEF AtWork
<1>3. slow[r].then \in {"failed", "unknown"}
  BY <1>1 DEF SlowInv, SlowPlaced
<1>4. PICK st, e : /\ st \in {"failed", "unknown"} /\ st = slow[r].then
                   /\ e = [Row(r) EXCEPT !.status = st]
  BY <1>3
<1>5. /\ e \in Generations /\ Consistent(e) /\ SetRow(r, e) /\ e.index = Now.index
      /\ e.status = slow[r].then
  <2>1. e = [Now EXCEPT !.status = st] /\ st # "sending"
    BY <1>2, <1>4
  <2>2. st \in {"planned", "sending", "unknown", "failed"}
    BY <1>4
  <2>3. e \in Generations /\ Consistent(e) /\ e.index = Now.index /\ e.status = st
    BY ZenonT(60), <1>2, <2>1, <2>2, MarkedEntry
  <2> QED
    BY <1>1, <1>4, <2>3
<1>6. slow[r].then = "failed" => \A s \in Runs : s # r => ~Underway(s)
  <2>1. CASE Case(r).done = Parts
    BY <1>1, <2>1, ToldThrough DEF AtWork
  <2>2. CASE Case(r).done # Parts
    BY <1>1, <2>2 DEF SlowInv, SlowApart, Underway
  <2> QED
    BY <2>1, <2>2
<1> QED
  BY <1>1, <1>3, <1>5, <1>6, LastWordStep DEF AtWork

LEMMA TakeReceiptStep ==
  ASSUME SlowInv, NEW r \in Runs, TakeReceipt(r)
  PROVE  SlowInv'
<1> DEFINE x == [accepted |-> TRUE, bound |-> TRUE, ofManifest |-> TRUE, path |-> TRUE,
                 rebound |-> FALSE, parts |-> Case(r).done = Parts, context |-> TRUE,
                 signature |-> TRUE, content |-> Case(r).bound = slow[r].ver, sealed |-> TRUE]
<1>1. /\ slow[r].pc = "receipt" /\ slow[r].conn /\ case' = case /\ Quit(r)
      /\ SetRow(r, IF Accepts(x) THEN Pass(Row(r), slow[r].phase, {})
                   ELSE [Row(r) EXCEPT !.status = "unknown"])
  BY DEF TakeReceipt, On
<1>2. /\ Row(r) = Now /\ Now \in Generations /\ Now.index \in 0..4
      /\ slow[r].phase = PHASES[Now.index + 1] /\ slow[r].phase \in Phases /\ Consistent(Now)
  BY <1>1, WithDatabase DEF AtWork
<1>3. \A s \in Runs : ~Underway(s)
  <2>1. Case(r).done = Parts
    BY <1>1 DEF SlowInv, SlowPlaced
  <2> QED
    BY <1>1, <2>1, ToldThrough DEF AtWork
<1> HIDE DEF x
<1>4. PICK e : e = IF Accepts(x) THEN Pass(Row(r), slow[r].phase, {})
                   ELSE [Row(r) EXCEPT !.status = "unknown"]
  OBVIOUS
<1>5. e \in Generations /\ Consistent(e)
  <2>1. CASE Accepts(x)
    BY <1>2, <1>4, <2>1, PassedEntry
  <2>2. CASE ~Accepts(x)
    BY <1>2, <1>4, <2>2, MarkedEntry
  <2> QED
    BY <2>1, <2>2
<1>6. SetRow(r, e)
  BY <1>1, <1>4
<1> QED
  BY <1>1, <1>3, <1>5, <1>6, LastWordStep DEF AtWork

LEMMA SendStep ==
  ASSUME SlowInv, NEW r \in Runs, Send(r)
  PROVE  SlowInv'
<1>1. /\ slow[r].pc = "choose" /\ slow[r].conn /\ case' = case /\ owner' = owner
      /\ SetRow(r, [Row(r) EXCEPT !.status = "sending"])
      /\ IF slow[r].state = "sending" /\ Case(r).done # Parts THEN Raise(r, "unknown")
         ELSE slow' = [slow EXCEPT ![r].pc = "case", ![r].state = "none"]
  BY DEF Send, On
<1>2. /\ journal # <<>> /\ slow[r].gen = Len(journal)
      /\ Row(r) = Now /\ Now \in Generations /\ Now.index \in 0..4
      /\ slow[r].phase = PHASES[Now.index + 1] /\ slow[r].phase \in Phases /\ Consistent(Now)
      /\ \A s \in Runs : s # r => ~slow[s].conn
  BY <1>1, WithDatabase DEF AtWork
<1>3. /\ slow[r].ver \in 1..MaxBuilds /\ slow[r].state = Now.status
      /\ Now.man[slow[r].phase] # None /\ Now.status # "unknown"
  BY <1>1, MatchOf
<1>4. slow[r] \in States /\ SlowTypeOK
  BY DEF SlowInv, SlowTypeOK
<1>5. PICK e : e = [Now EXCEPT !.status = "sending"]
  OBVIOUS
<1>6. /\ e \in Generations /\ Consistent(e) /\ e.status = "sending" /\ e.index = Now.index
  <2>1. Now.man[PHASES[Now.index + 1]] # None
    BY <1>2, <1>3
  <2> QED
    BY <1>2, <1>5, <2>1, MarkedEntry
<1>7. SetNow(e)
  BY <1>1, <1>2, <1>5 DEF SetRow, SetNow
<1>8. OnlyNow(e)
  BY <1>2, <1>4, <1>6, <1>7, NowWritten
<1>9. CASE slow[r].state = "sending" /\ Case(r).done # Parts
  <2>1. /\ SlowOnlyRun(r) /\ (slow'[r] = Idle \/ slow'[r].pc = "raised")
        /\ slow'[r] # Idle => Along(slow[r], slow'[r]) /\ slow'[r].then = "unknown"
    BY <1>1, <1>4, <1>9, Raises
  <2>2. SlowOnlyRun(r)
    BY <1>1, <1>4, <1>9, Raises
  <2>3. slow'[r] # Idle => InTurn(r)'
    BY <1>2, <1>6, <1>8, <2>1 DEF InTurn, OnlyNow, Along
  <2>4. SlowPlaced(r)' /\ Guarded(r)' /\ ~Underway(r)' /\ slow'[r].pc \notin SlowInCase
    BY <1>1, <1>2, <1>8, <2>1, <2>3, IdleIsAState
       DEF SlowPlaced, Guarded, Underway, AtWork, SlowInCase, OnlyNow, Along
  <2>5. \A s \in Runs : s # r /\ Underway(s) =>
          e.index = Now.index /\ e.status \in {"sending", "unknown"}
    BY <1>6
  <2> QED
    BY <1>1, <1>2, <1>6, <1>7, <2>2, <2>4, <2>5, SlowEntryStep
<1>10. CASE slow[r].state # "sending" \/ Case(r).done = Parts
  <2>1. PICK v : v = [slow[r] EXCEPT !.pc = "case", !.state = "none"]
    OBVIOUS
  <2>2. /\ v \in States /\ v.pc = "case" /\ v.conn = slow[r].conn /\ v.gen = slow[r].gen
        /\ v.phase = slow[r].phase /\ v.ver = slow[r].ver
    BY <1>4, <2>1 DEF States
  <2>3. slow' = [slow EXCEPT ![r] = v]
    BY <1>1, <1>4, <1>10, <2>1 DEF SlowTypeOK, States
  <2>4. SlowOnlyRun(r) /\ slow'[r] = v
    BY <1>1, <1>4, <2>2, <2>3, SlowStays
  <2>5. InTurn(r)'
    BY <1>2, <1>6, <1>8, <2>2, <2>4 DEF InTurn, OnlyNow
  <2>6. SlowPlaced(r)' /\ Guarded(r)' /\ slow'[r].pc \notin SlowInCase
    BY <1>1, <1>2, <1>3, <1>6, <1>8, <2>2, <2>4, <2>5
       DEF SlowPlaced, Guarded, AtWork, SlowInCase, OnlyNow
  <2>7. \A s \in Runs : ~Underway(s)
    <3>1. CASE slow[r].state # "sending"
      BY <1>3, <3>1, NobodyUnderway
    <3>2. CASE Case(r).done = Parts
      BY <1>1, <3>2, ToldThrough DEF AtWork
    <3> QED
      BY <1>10, <3>1, <3>2
  <2> QED
    BY <1>1, <1>2, <1>6, <1>7, <2>4, <2>6, <2>7, SlowEntryStep
<1> QED
  BY <1>9, <1>10

(* A step in a case, to it or out of it.                                   *)
LEMMA SlowInCaseStep ==
  ASSUME SlowInv, NEW r \in Runs, slow[r].pc \in {"case"} \cup SlowInCase, journal' = journal,
         SlowOnlyRun(r), Along(slow[r], slow'[r]),
         NEW w \in Cases, SetCase(r, w), SlowCounted(w),
         slow[r].pc = "case" => ~Case(r).lock,
         Case(r).done = Parts => w.done = Parts,
         slow'[r].pc \in {"attempt", "answer", "release", "receipt", "raised"},
         slow'[r].pc \in SlowInCase => w.lock,
         slow'[r].pc \in {"attempt", "answer"} => w.bound # 0 /\ w.done < Parts,
         slow'[r].pc = "attempt" => w.prog # "doubt",
         slow'[r].pc = "answer" => w.prog = "doubt" /\ Len(w.sends) = w.done,
         slow'[r].pc = "release" => slow'[r].then # "none",
         slow'[r].pc = "raised" => slow'[r].then \in {"failed", "unknown"},
         slow'[r].pc \in {"raised", "receipt"} => slow[r].conn,
         slow'[r].pc = "receipt" \/ (slow'[r].pc = "release" /\ slow'[r].then = "receipt") =>
           w.done = Parts,
         slow'[r].pc \in {"attempt", "answer"} \/ slow'[r].then = "failed" =>
           w.done = Parts \/ Underway(r)
  PROVE  SlowInv'
<1>1. PICK g, p : g = slow[r].gen /\ p = slow[r].phase
  OBVIOUS
<1>2. /\ g \in 1..MaxGenerations /\ g <= Len(journal) /\ p \in Phases
      /\ Case(r) = case[g][p]
  BY <1>1, SlowInRange DEF AtWork, SlowInCase
<1>3. OnlyCase(g, p) /\ case'[g][p] = w
  BY <1>1, <1>2, CaseWritten DEF SlowInv
<1>4. slow'[r].gen = g /\ slow'[r].phase = p /\ slow'[r].conn = slow[r].conn
  BY <1>1 DEF Along
<1>5. Case(r)' = w
  BY <1>3, <1>4 DEF Case
<1>6. /\ SlowPlaced(r) /\ Guarded(r) /\ Now' = Now /\ InTurn(r)' = InTurn(r)
  BY <1>1, <1>4 DEF SlowInv, Now, InTurn
<1>7. SlowPlaced(r)'
  BY <1>1, <1>4, <1>5, <1>6 DEF SlowPlaced, AtWork, SlowInCase
<1>8. Underway(r)' => Underway(r)
  BY <1>5 DEF Underway, SlowInCase
<1>9. Guarded(r)'
  BY <1>4, <1>6, <1>8 DEF Guarded
<1>10. SlowCounted(case[g][p])'
  BY <1>3 DEF SlowCounted
<1>11. slow[r].pc \in SlowInCase \/ ~case[g][p].lock
  BY <1>2 DEF SlowInCase
<1> QED
  BY <1>1, <1>2, <1>3, <1>4, <1>7, <1>8, <1>9, <1>10, <1>11, SlowCaseStep

LEMMA BindCaseStep ==
  ASSUME SlowInv, NEW r \in Runs, BindCase(r)
  PROVE  SlowInv'
<1>1. slow[r].pc = "case" /\ journal' = journal /\ owner' = owner /\ SlowTypeOK
  BY DEF BindCase, On, SlowInv
<1>2. CASE Raise(r, "unknown") /\ case' = case
  <2>1. /\ SlowOnlyRun(r)
        /\ slow'[r] = Idle \/ /\ Along(slow[r], slow'[r]) /\ slow[r].conn
                              /\ slow'[r].pc = "raised" /\ slow'[r].then = "unknown"
    BY <1>1, <1>2, Raises
  <2>2. SlowPlaced(r) /\ Now' = Now
    BY <1>1 DEF SlowInv, Now
  <2>3. slow'[r] # Idle => (InTurn(r) => InTurn(r)')
    BY <1>1, <2>1 DEF InTurn, Along, Now
  <2>4. SlowPlaced(r)' /\ Guarded(r)' /\ ~Underway(r)' /\ slow'[r].pc \notin SlowInCase
    BY <1>1, <2>1, <2>2, <2>3, IdleIsAState DEF SlowPlaced, Guarded, Underway, AtWork, SlowInCase, Along
  <2> QED
    BY <1>1, <1>2, <2>1, <2>4, SlowRunStep
<1>3. CASE ~Case(r).lock /\ Case(r).bound \in {0, slow[r].ver} /\ Bound(r) /\ Onward(r)
  <2>1. Case(r) \in Cases /\ SlowCounted(Case(r)) /\ slow[r].ver \in 1..MaxBuilds
    BY <1>1, SlowInRange DEF AtWork, SlowInv, SlowPlaced
  <2>2. PICK w : w = [Case(r) EXCEPT !.lock = TRUE, !.bound = slow[r].ver]
    OBVIOUS
  <2>3. /\ w \in Cases /\ w.lock /\ w.bound = slow[r].ver /\ w.prog = Case(r).prog
        /\ w.done = Case(r).done /\ w.sends = Case(r).sends /\ SetCase(r, w)
    <3>1. slow[r].ver \in 0..MaxBuilds
      BY <2>1, LiveSlowAssumption
    <3>2. /\ w \in Cases /\ w.lock /\ w.bound = slow[r].ver /\ w.prog = Case(r).prog
          /\ w.done = Case(r).done /\ w.sends = Case(r).sends
      BY <2>1, <2>2, <3>1 DEF Cases
    <3> QED
      BY <1>3, <2>2, <3>2 DEF Bound
  <2>4. SlowCounted(w)
    <3>1. Case(r).bound = 0 => \A i \in DOMAIN w.sends : w.sends[i] # 0
      <4>1. w.sends \in Seq(1..MaxBuilds)
        BY <2>3 DEF Cases
      <4>2. ASSUME NEW S, NEW q \in Seq(S) PROVE \A i \in DOMAIN q : q[i] \in S
        OBVIOUS
      <4>3. \A i \in DOMAIN w.sends : w.sends[i] \in 1..MaxBuilds
        BY <4>1, <4>2
      <4> QED
        BY <4>3
    <3> QED
      BY <1>3, <2>1, <2>3, <3>1 DEF SlowCounted
  <2>5. Case(r).done \in 0..Parts /\ w.bound # 0
    BY <2>1, <2>3 DEF Cases
  <2>6. CASE Case(r).done = Parts
    <3>1. /\ SlowOnlyRun(r) /\ Along(slow[r], slow'[r]) /\ slow'[r].pc = "release"
          /\ slow'[r].then = "receipt"
      BY <1>1, <1>3, <2>6, Releases DEF Onward
    <3> QED
      BY <1>1, <1>3, <2>3, <2>4, <2>6, <3>1, SlowInCaseStep
  <2>7. CASE Case(r).done # Parts /\ Case(r).prog = "doubt"
    <3>1. /\ SlowOnlyRun(r) /\ Along(slow[r], slow'[r]) /\ slow'[r].pc = "release"
          /\ slow'[r].then = "unknown"
      BY <1>1, <1>3, <2>7, Releases DEF Onward
    <3> QED
      BY <1>1, <1>3, <2>3, <2>4, <2>7, <3>1, SlowInCaseStep
  <2>8. CASE Case(r).done # Parts /\ Case(r).prog # "doubt"
    <3>1. SlowOnlyRun(r) /\ Along(slow[r], slow'[r]) /\ slow'[r].pc = "attempt"
      BY <1>1, <1>3, <2>8, SlowGoes DEF Onward
    <3>2. Underway(r) /\ w.done < Parts
      BY <1>1, <2>3, <2>5, <2>8, LiveSlowAssumption DEF Underway
    <3> QED
      BY <1>1, <1>3, <2>3, <2>4, <2>5, <2>8, <3>1, <3>2, SlowInCaseStep DEF SlowInCase
  <2> QED
    BY <2>6, <2>7, <2>8
<1> QED
  BY <1>2, <1>3 DEF BindCase

LEMMA AttemptPartStep ==
  ASSUME SlowInv, NEW r \in Runs, AttemptPart(r)
  PROVE  SlowInv'
<1>1. /\ slow[r].pc = "attempt" /\ journal' = journal /\ owner' = owner /\ SlowTypeOK
      /\ Step(r, "answer") /\ SetCase(r, [Case(r) EXCEPT !.prog = "doubt"])
  BY DEF AttemptPart, On, SlowInv
<1>2. Case(r) \in Cases /\ SlowCounted(Case(r))
  BY <1>1, SlowInRange DEF AtWork
<1>3. Case(r).lock /\ Case(r).bound # 0 /\ Case(r).done < Parts /\ Case(r).prog # "doubt"
  BY <1>1 DEF SlowInv, SlowPlaced, SlowInCase
<1>4. PICK w : w = [Case(r) EXCEPT !.prog = "doubt"]
  OBVIOUS
<1>5. /\ w \in Cases /\ w.lock /\ w.bound = Case(r).bound /\ w.prog = "doubt"
      /\ w.done = Case(r).done /\ w.sends = Case(r).sends /\ SetCase(r, w)
  BY <1>1, <1>2, <1>3, <1>4 DEF Cases
<1>6. SlowCounted(w) /\ Len(w.sends) = w.done
  BY <1>2, <1>3, <1>5 DEF SlowCounted
<1>7. SlowOnlyRun(r) /\ Along(slow[r], slow'[r]) /\ slow'[r].pc = "answer"
  BY <1>1, SlowGoes
<1>8. Underway(r)
  <2>1. Case(r).done # Parts
    BY <1>2, <1>3, LiveSlowAssumption DEF Cases
  <2> QED
    BY <1>1, <2>1 DEF Underway
<1> QED
  BY <1>1, <1>3, <1>5, <1>6, <1>7, <1>8, SlowInCaseStep DEF SlowInCase

LEMMA SlowAnswerStep ==
  ASSUME SlowInv, NEW r \in Runs, Answer(r)
  PROVE  SlowInv'
<1> DEFINE sent == Append(Case(r).sends, Case(r).bound)
<1>1. /\ slow[r].pc = "answer" /\ journal' = journal /\ owner' = owner /\ SlowTypeOK
  BY DEF Answer, On, SlowInv
<1>2. Case(r) \in Cases /\ SlowCounted(Case(r))
  BY <1>1, SlowInRange DEF AtWork
<1>3. /\ Case(r).lock /\ Case(r).bound # 0 /\ Case(r).done < Parts
      /\ Case(r).prog = "doubt" /\ Len(Case(r).sends) = Case(r).done
  BY <1>1 DEF SlowInv, SlowPlaced, SlowInCase
<1>4. Underway(r) /\ Case(r).done \in 0..Parts /\ Case(r).done # Parts
  <2>1. Case(r).done \in 0..Parts /\ Case(r).done # Parts
    BY <1>2, <1>3, LiveSlowAssumption DEF Cases
  <2> QED
    BY <1>1, <2>1 DEF Underway
<1>5. /\ sent \in Seq(1..MaxBuilds) /\ Len(sent) = Case(r).done + 1
      /\ \A i \in DOMAIN sent : sent[i] = Case(r).bound
  <2>1. Case(r).bound \in 1..MaxBuilds /\ Case(r).sends \in Seq(1..MaxBuilds)
    BY <1>2, <1>3, LiveSlowAssumption DEF Cases
  <2>2. \A i \in DOMAIN Case(r).sends : Case(r).sends[i] = Case(r).bound
    BY <1>2 DEF SlowCounted
  <2> QED
    BY <1>3, <2>1, <2>2
<1> HIDE DEF sent
<1>6. CASE /\ SetCase(r, [Case(r) EXCEPT !.prog = "accepted", !.done = @ + 1, !.sends = sent])
           /\ IF Case(r).done + 1 = Parts THEN Release(r, "receipt") ELSE Step(r, "attempt")
  <2>1. PICK w : w = [Case(r) EXCEPT !.prog = "accepted", !.done = @ + 1, !.sends = sent]
    OBVIOUS
  <2>2. /\ w \in Cases /\ w.lock /\ w.bound = Case(r).bound /\ w.prog = "accepted"
        /\ w.done = Case(r).done + 1 /\ w.sends = sent /\ SetCase(r, w)
    <3>1. Case(r).done + 1 \in 0..Parts
      BY <1>3, <1>4, LiveSlowAssumption
    <3>2. /\ w \in Cases /\ w.lock /\ w.bound = Case(r).bound /\ w.prog = "accepted"
          /\ w.done = Case(r).done + 1 /\ w.sends = sent
      BY <1>2, <1>3, <1>5, <2>1, <3>1 DEF Cases
    <3> QED
      BY <1>6, <2>1, <3>2
  <2>3. SlowCounted(w)
    BY <1>5, <2>2 DEF SlowCounted
  <2>4. CASE Case(r).done + 1 = Parts
    <3>1. /\ SlowOnlyRun(r) /\ Along(slow[r], slow'[r]) /\ slow'[r].pc = "release"
          /\ slow'[r].then = "receipt"
      BY <1>1, <1>6, <2>4, Releases
    <3> QED
      BY <1>1, <1>4, <2>2, <2>3, <2>4, <3>1, SlowInCaseStep DEF SlowInCase
  <2>5. CASE Case(r).done + 1 # Parts
    <3>1. SlowOnlyRun(r) /\ Along(slow[r], slow'[r]) /\ slow'[r].pc = "attempt"
      BY <1>1, <1>6, <2>5, SlowGoes
    <3>2. w.done < Parts
      BY <1>3, <1>4, <2>2, <2>5, LiveSlowAssumption
    <3> QED
      BY <1>1, <1>3, <1>4, <2>2, <2>3, <3>1, <3>2, SlowInCaseStep DEF SlowInCase
  <2> QED
    BY <2>4, <2>5
<1>7. CASE SetCase(r, [Case(r) EXCEPT !.prog = "failed"]) /\ Release(r, "failed")
  <2>1. PICK w : w = [Case(r) EXCEPT !.prog = "failed"]
    OBVIOUS
  <2>2. /\ w \in Cases /\ w.lock /\ w.bound = Case(r).bound /\ w.prog = "failed"
        /\ w.done = Case(r).done /\ w.sends = Case(r).sends /\ SetCase(r, w)
    BY <1>2, <1>3, <1>7, <2>1 DEF Cases
  <2>3. SlowCounted(w)
    BY <1>2, <1>3, <2>2 DEF SlowCounted
  <2>4. /\ SlowOnlyRun(r) /\ Along(slow[r], slow'[r]) /\ slow'[r].pc = "release"
        /\ slow'[r].then = "failed"
    BY <1>1, <1>7, Releases
  <2> QED
    BY <1>1, <1>4, <2>2, <2>3, <2>4, SlowInCaseStep DEF SlowInCase
<1>8. CASE \E s \in {sent, Case(r).sends} :
              SetCase(r, [Case(r) EXCEPT !.sends = s]) /\ Release(r, "unknown")
  <2>1. PICK s \in {sent, Case(r).sends} :
              SetCase(r, [Case(r) EXCEPT !.sends = s]) /\ Release(r, "unknown")
    BY <1>8
  <2>2. PICK w : w = [Case(r) EXCEPT !.sends = s]
    OBVIOUS
  <2>3. /\ w \in Cases /\ w.lock /\ w.bound = Case(r).bound /\ w.prog = "doubt"
        /\ w.done = Case(r).done /\ w.sends = s /\ SetCase(r, w)
    BY <1>2, <1>3, <1>5, <2>1, <2>2 DEF Cases
  <2>4. SlowCounted(w)
    BY <1>2, <1>3, <1>4, <1>5, <2>3 DEF SlowCounted
  <2>5. /\ SlowOnlyRun(r) /\ Along(slow[r], slow'[r]) /\ slow'[r].pc = "release"
        /\ slow'[r].then = "unknown"
    BY <1>1, <2>1, Releases
  <2> QED
    BY <1>1, <1>4, <2>3, <2>4, <2>5, SlowInCaseStep DEF SlowInCase
<1> QED
  BY <1>6, <1>7, <1>8 DEF Answer, sent

LEMMA UnlockCaseStep ==
  ASSUME SlowInv, NEW r \in Runs, UnlockCase(r)
  PROVE  SlowInv'
<1>1. /\ slow[r].pc = "release" /\ journal' = journal /\ SlowTypeOK
      /\ SetCase(r, [Case(r) EXCEPT !.lock = FALSE])
  BY DEF UnlockCase, On, SlowInv
<1>2. /\ Case(r) \in Cases /\ SlowCounted(Case(r)) /\ slow[r].gen \in 1..MaxGenerations
      /\ slow[r].gen <= Len(journal) /\ slow[r].phase \in Phases
      /\ Case(r) = case[slow[r].gen][slow[r].phase]
  BY <1>1, SlowInRange DEF AtWork
<1>3. /\ SlowPlaced(r) /\ slow[r].then # "none"
      /\ slow[r].then = "receipt" => Case(r).done = Parts
  BY <1>1 DEF SlowInv, SlowPlaced
<1>4. PICK w : w = [Case(r) EXCEPT !.lock = FALSE]
  OBVIOUS
<1>5. /\ w \in Cases /\ ~w.lock /\ w.bound = Case(r).bound /\ w.prog = Case(r).prog
      /\ w.done = Case(r).done /\ w.sends = Case(r).sends /\ SetCase(r, w)
  BY ZenonT(60), <1>1, <1>2, <1>4 DEF Cases
<1>6. SlowCounted(w)
  BY <1>2, <1>5 DEF SlowCounted
<1>7. CASE slow[r].conn
  <2>1. PICK pc : pc = IF slow[r].then = "receipt" THEN "receipt" ELSE "raised"
    OBVIOUS
  <2>2. /\ SlowOnlyRun(r) /\ Along(slow[r], slow'[r]) /\ slow'[r].pc = pc
        /\ slow'[r].then = slow[r].then
    BY <1>1, <1>7, <2>1, SlowGoes DEF UnlockCase
  <2>3. slow[r].then \in {"receipt", "failed", "unknown"}
    BY <1>1, <1>3 DEF SlowTypeOK, States
  <2>4. slow[r].then = "failed" => w.done = Parts \/ Underway(r)
    BY SMTT(30), <1>1, <1>5 DEF Underway
  <2> QED
    BY <1>1, <1>3, <1>5, <1>6, <1>7, <2>1, <2>2, <2>3, <2>4, SlowInCaseStep DEF SlowInCase
<1>8. CASE ~slow[r].conn
  <2>1. SlowOnlyRun(r) /\ slow'[r] = Idle
    BY <1>1, <1>8, Quits DEF UnlockCase
  <2>2. SlowPlaced(r)' /\ Guarded(r)' /\ ~Underway(r)' /\ slow'[r].pc \notin SlowInCase
    BY <2>1, IdleIsAState DEF SlowPlaced, Guarded, Underway, AtWork, SlowInCase
  <2>3. PICK g, p : g = slow[r].gen /\ p = slow[r].phase
    BY SMTT(30)
  <2>4. OnlyCase(g, p) /\ case'[g][p] = w
    BY <1>1, <1>2, <1>5, <2>3, CaseWritten
  <2>5. SlowCounted(case[g][p])' /\ (case[g][p].done = Parts => case'[g][p].done = Parts)
    BY <1>2, <1>5, <1>6, <2>3, <2>4 DEF SlowCounted
  <2> QED
    BY <1>1, <1>2, <2>1, <2>2, <2>3, <2>4, <2>5, SlowCaseStep DEF SlowInCase
<1> QED
  BY <1>7, <1>8

-----------------------------------------------------------------------------
(* The invariant.                                                          *)

LEMMA SlowInitially == SlowInit => SlowInv
<1> SUFFICES ASSUME SlowInit PROVE SlowInv
  OBVIOUS
<1>1. /\ journal = <<>> /\ Len(journal) = 0 /\ DOMAIN journal = {}
      /\ case = [g \in 1..MaxGenerations |-> [p \in Phases |-> Untouched]]
      /\ owner = None /\ slow = [r \in Runs |-> Idle]
  BY DEF SlowInit
<1>2. Untouched \in Cases /\ SlowCounted(Untouched)
  <2>1. <<>> \in Seq(1..MaxBuilds) /\ 0 \in 0..Parts /\ 0 \in 0..MaxBuilds
    BY LiveSlowAssumption
  <2> QED
    BY <2>1 DEF Untouched, Cases, SlowCounted
<1>3. SlowTypeOK
  BY <1>1, <1>2, IdleIsAState, LiveSlowAssumption DEF SlowTypeOK
<1>4. Filed
  BY <1>1, <1>2 DEF Filed
<1>5. \A r \in Runs : SlowPlaced(r) /\ Guarded(r) /\ ~Underway(r)
  BY <1>1, IdleIsAState DEF SlowPlaced, Guarded, Underway, AtWork, SlowInCase
<1>6. \A r, s \in Runs : SlowApart(r, s)
  BY <1>1, <1>5, IdleIsAState DEF SlowApart, SlowInCase
<1> QED
  BY <1>1, <1>3, <1>4, <1>5, <1>6 DEF SlowInv

LEMMA SlowKept == SlowInv /\ [SlowNext]_slowVars => SlowInv'
<1> SUFFICES ASSUME SlowInv, [SlowNext]_slowVars PROVE SlowInv'
  OBVIOUS
<1>1. CASE UNCHANGED slowVars
  <2>1. UNCHANGED <<journal, case, owner, slow>>
    BY <1>1 DEF slowVars
  <2>2. SlowTypeOK' /\ Filed'
    BY <2>1 DEF SlowInv, SlowTypeOK, Filed, SlowCounted
  <2>3. \A g \in DOMAIN journal' : Consistent(journal[g])'
    BY <2>1 DEF SlowInv, Consistent
  <2>4. \A r \in Runs : /\ Underway(r)' = Underway(r) /\ Case(r)' = Case(r)
                        /\ InTurn(r)' = InTurn(r) /\ Now' = Now
    BY <2>1 DEF Underway, Case, InTurn, Now
  <2>5. \A r \in Runs : SlowPlaced(r)' /\ Guarded(r)'
    BY <2>1, <2>4 DEF SlowInv, SlowPlaced, Guarded
  <2>6. \A r, s \in Runs : SlowApart(r, s)'
    BY <2>1, <2>4 DEF SlowInv, SlowApart
  <2> QED
    BY <2>2, <2>3, <2>5, <2>6 DEF SlowInv
<1>2. CASE \E r \in Runs :
        \/ OpenWeek(r) \/ Refresh(r) \/ Continue(r) \/ BuildReport(r)
        \/ Deliver(r) \/ Review(r) \/ Reuse(r) \/ Send(r)
        \/ BindCase(r) \/ AttemptPart(r) \/ Answer(r) \/ UnlockCase(r)
        \/ Raised(r) \/ TakeReceipt(r) \/ SlowDies(r) \/ LosesDatabase(r)
  <2>1. PICK r \in Runs :
        \/ OpenWeek(r) \/ Refresh(r) \/ Continue(r) \/ BuildReport(r)
        \/ Deliver(r) \/ Review(r) \/ Reuse(r) \/ Send(r)
        \/ BindCase(r) \/ AttemptPart(r) \/ Answer(r) \/ UnlockCase(r)
        \/ Raised(r) \/ TakeReceipt(r) \/ SlowDies(r) \/ LosesDatabase(r)
    BY <1>2
  <2>2. SlowDies(r) => SlowInv'
    BY SlowDiesStep DEF SlowDies
  <2> QED
    BY <2>1, <2>2, OpenWeekStep, RefreshStep, ContinueStep, BuildReportStep, DeliverStep,
       ReviewStep, ReuseStep, SendStep, BindCaseStep, AttemptPartStep, SlowAnswerStep,
       UnlockCaseStep, RaisedStep, TakeReceiptStep, LosesDatabaseStep
<1> QED
  BY <1>1, <1>2, PreviewBuildStep, PreviewReviewStep, HourStep DEF SlowNext

(* The journal, the cases, the files and the runs agree with each other,   *)
(* whoever dies, loses the database or runs at the same time.              *)
THEOREM SlowInvariance == SlowSpec => []SlowInv
BY SlowInitially, SlowKept, PTL DEF SlowSpec

(* Every reachable state is well typed, and the lock of the department is  *)
(* held by the run that is connected.                                      *)
THEOREM SlowTypeCorrect == SlowSpec => []SlowTypeOK
<1>1. SlowInv => SlowTypeOK
  BY DEF SlowInv
<1> QED
  BY <1>1, SlowInvariance, PTL

(* At most one run can still tell a part of a phase, and while it can, the *)
(* journal stays at that phase and says that it is being sent or in doubt: *)
(* also when the run lost the database and another one has the lock.       *)
OneUnderway ==
    /\ \A r, s \in Runs : Underway(r) /\ Underway(s) => r = s
    /\ \A r \in Runs : Underway(r) => InTurn(r) /\ Now.status \in {"sending", "unknown"}
THEOREM OneTellsAtATime == SlowSpec => []OneUnderway
<1>1. SlowInv => OneUnderway
  BY DEF SlowInv, OneUnderway, SlowApart, Guarded
<1> QED
  BY <1>1, SlowInvariance, PTL

-----------------------------------------------------------------------------
(* The refinement: each step maps to a step of StageLedger or to none.     *)

LEMMA SameStages ==
  ASSUME SlowTypeOK, Len(journal') = Len(journal), (journal' = <<>>) <=> (journal = <<>>),
         journal # <<>> =>
           /\ Now'.index = Now.index /\ Now'.reused = Now.reused
           /\ \A p \in Phases : case'[Len(journal)][p].sends = case[Len(journal)][p].sends
  PROVE  UNCHANGED Stages!vars
<1>1. Behind' = Behind /\ Covered' = Covered
  BY DEF Behind, Covered
<1>2. Told' = Told
  <2>1. \A i \in DOMAIN PHASES :
          (IF journal' = <<>> THEN <<>> ELSE case'[Len(journal')][PHASES[i]].sends)
          = IF journal = <<>> THEN <<>> ELSE case[Len(journal)][PHASES[i]].sends
    BY Phasing
  <2> QED
    BY <2>1 DEF Told
<1> QED
  BY <1>1, <1>2 DEF Stages!vars

LEMMA QuietRun ==
  ASSUME SlowInv, UNCHANGED <<journal, case>>
  PROVE  UNCHANGED Stages!vars
BY SameStages DEF SlowInv, Now

LEMMA QuietEntry ==
  ASSUME SlowInv, journal # <<>>, NEW e \in Generations, SetNow(e), case' = case,
         e.index = Now.index, e.reused = Now.reused
  PROVE  UNCHANGED Stages!vars
<1>1. OnlyNow(e) /\ SlowTypeOK
  BY NowWritten DEF SlowInv
<1> QED
  BY <1>1, SameStages DEF OnlyNow

LEMMA SlowQuietCase ==
  ASSUME SlowInv, NEW r \in Runs, slow[r].pc \in AtWork, journal' = journal,
         NEW w \in Cases, SetCase(r, w), w.sends = Case(r).sends
  PROVE  UNCHANGED Stages!vars
<1>1. /\ slow[r].gen \in 1..MaxGenerations /\ slow[r].phase \in Phases
      /\ Case(r) = case[slow[r].gen][slow[r].phase] /\ SlowTypeOK
  BY SlowInRange DEF SlowInv
<1>2. PICK g, p : g = slow[r].gen /\ p = slow[r].phase
  OBVIOUS
<1>3. OnlyCase(g, p) /\ case'[g][p] = w
  BY <1>1, <1>2, CaseWritten
<1>4. \A h \in 1..MaxGenerations, q \in Phases : case'[h][q].sends = case[h][q].sends
  <2> SUFFICES ASSUME NEW h \in 1..MaxGenerations, NEW q \in Phases
               PROVE  case'[h][q].sends = case[h][q].sends
    OBVIOUS
  <2>1. CASE h = g /\ q = p
    BY <1>1, <1>2, <1>3, <2>1
  <2>2. CASE h # g \/ q # p
    BY <1>3, <2>2 DEF OnlyCase
  <2> QED
    BY <2>1, <2>2
<1>5. journal # <<>> => Len(journal) \in 1..MaxGenerations
  BY <1>1, SlowJournal
<1> QED
  BY <1>1, <1>4, <1>5, SameStages DEF Now

LEMMA StagesInit == SlowInit => Stages!Init
<1> SUFFICES ASSUME SlowInit PROVE Stages!Init
  OBVIOUS
<1>1. journal = <<>> /\ Len(journal) = 0
  BY DEF SlowInit
<1>2. Told = [i \in 1..Len(PHASES) |-> <<>>]
  BY <1>1, Phasing DEF Told
<1> QED
  BY <1>1, <1>2 DEF Stages!Init, Stages!Empty, Behind, Covered

LEMMA OpenBegins ==
  ASSUME SlowInv, NEW r \in Runs, OpenWeek(r)
  PROVE  Stages!Begin
<1>1. /\ Len(journal) < MaxGenerations /\ (journal # <<>> => Now.status = "committed")
      /\ journal' = Append(journal, Opened) /\ case' = case
  BY DEF OpenWeek
<1>2. SlowTypeOK /\ Len(journal) \in Nat /\ MaxGenerations \in Nat
  BY SlowJournal, LiveSlowAssumption DEF SlowInv
<1> DEFINE n == Len(journal) + 1
<1>3. Opened \in Generations
  BY LiveSlowAssumption, Phasing DEF Opened, Generations, Standings
<1>4. Len(journal') = n /\ journal' # <<>> /\ Now' = Opened /\ n \in 1..MaxGenerations
  <2>1. Len(journal') = n /\ journal'[n] = Opened
    BY <1>1, <1>2, <1>3, AppendProperties DEF SlowTypeOK
  <2> QED
    BY <1>1, <1>2, <2>1 DEF Now
<1>5. Len(journal) = 0 \/ Behind = Len(PHASES)
  <2>1. CASE journal = <<>>
    BY <2>1
  <2>2. CASE journal # <<>>
    <3>1. Consistent(Now)
      BY <1>2, <2>2, SlowJournal DEF SlowInv, Now
    <3> QED
      BY <1>1, <2>2, <3>1, Phasing DEF Consistent, Behind
  <2> QED
    BY <2>1, <2>2
<1>6. \A p \in Phases : case[n][p].sends = <<>>
  BY <1>2, <1>4 DEF SlowInv, Filed, Untouched
<1> HIDE DEF n
<1>7. Told' = [i \in 1..Len(PHASES) |-> <<>>]
  <2>1. Told' = [i \in DOMAIN PHASES |-> case[n][PHASES[i]].sends]
    BY <1>1, <1>4 DEF Told
  <2> QED
    BY <1>6, <2>1, Phasing
<1>8. Behind' = 0 /\ Covered' = 0
  BY <1>4 DEF Behind, Covered, Opened
<1> QED
  BY <1>4, <1>5, <1>7, <1>8 DEF Stages!Begin, Stages!Empty, n

(* A part that may have been accepted is told in its turn, and it is of    *)
(* the content of the parts before it.                                     *)
LEMMA AnswerTells ==
  ASSUME SlowInv, NEW r \in Runs, slow[r].pc = "answer", journal' = journal,
         NEW w \in Cases, SetCase(r, w), w.sends = Append(Case(r).sends, Case(r).bound)
  PROVE  Stages!Tell
<1>1. /\ Case(r).bound # 0 /\ Case(r).done < Parts /\ Len(Case(r).sends) = Case(r).done
      /\ slow[r].gen \in DOMAIN journal
  BY DEF SlowInv, SlowPlaced, AtWork
<1>2. /\ Case(r) \in Cases /\ SlowCounted(Case(r)) /\ slow[r].gen \in 1..MaxGenerations
      /\ slow[r].phase \in Phases /\ Case(r) = case[slow[r].gen][slow[r].phase] /\ SlowTypeOK
  BY SlowInRange DEF SlowInv, AtWork
<1>0. Case(r).bound \in 1..MaxBuilds /\ Case(r).done # Parts
  <2>1. Case(r).bound \in 0..MaxBuilds /\ Case(r).done \in 0..Parts
    BY <1>2 DEF Cases
  <2> QED
    BY <1>1, <2>1, LiveSlowAssumption
<1>3. InTurn(r)
  BY <1>0 DEF SlowInv, Guarded, Underway
<1>4. /\ journal # <<>> /\ Now \in Generations /\ Now.index \in 0..4
      /\ slow[r].gen = Len(journal) /\ slow[r].phase = PHASES[Now.index + 1]
  <2>1. journal # <<>> /\ Now \in Generations
    <3>1. slow[r].gen \in 1..Len(journal) /\ SlowTypeOK
      BY <1>1, <1>2, SlowJournal
    <3>2. journal # <<>>
      BY <3>1
    <3> QED
      BY <3>1, <3>2, SlowJournal
  <2> QED
    BY <1>3, <2>1, Phasing DEF InTurn, Generations
<1>5. PICK g, p, n : g = slow[r].gen /\ p = slow[r].phase /\ n = Now.index + 1
  OBVIOUS
<1>6. OnlyCase(g, p) /\ case'[g][p] = w
  BY <1>2, <1>5, CaseWritten
<1>7. n \in 1..5 /\ Behind + 1 = n /\ Behind < Len(PHASES)
  BY <1>4, <1>5, Phasing DEF Behind
<1>8. Told[n] = Case(r).sends
  BY ZenonT(60), <1>2, <1>4, <1>5, <1>7, Phasing DEF Told
<1>9. Told' = [Told EXCEPT ![n] = Append(@, Case(r).bound)]
  <2>1. Told = [i \in 1..5 |-> case[g][PHASES[i]].sends]
    BY <1>4, <1>5, Phasing DEF Told
  <2>2. Told' = [i \in 1..5 |-> case'[g][PHASES[i]].sends]
    BY <1>4, <1>5, Phasing DEF Told
  <2>3. \A i \in 1..5 : i # n => case'[g][PHASES[i]] = case[g][PHASES[i]]
    <3> SUFFICES ASSUME NEW i \in 1..5, i # n
                 PROVE  case'[g][PHASES[i]] = case[g][PHASES[i]]
      OBVIOUS
    <3>1. p \in Phases /\ Position(p) = n
      BY <1>2, <1>4, <1>5, <1>7, Phasing
    <3>2. PHASES[i] \in Phases /\ Position(PHASES[i]) = i
      BY Phasing
    <3>3. PHASES[i] # p /\ g \in 1..MaxGenerations
      BY <1>2, <1>5, <3>1, <3>2
    <3> QED
      BY <1>6, <3>2, <3>3 DEF OnlyCase
  <2>4. case'[g][PHASES[n]].sends = Append(Told[n], Case(r).bound)
    BY <1>4, <1>5, <1>6, <1>8
  <2> QED
    BY <1>7, <2>1, <2>2, <2>3, <2>4
<1>10. Len(Told[n]) < Parts
  BY <1>1, <1>8
<1>11. \A i \in DOMAIN Told[n] : Told[n][i] = Case(r).bound
  BY <1>2, <1>8 DEF SlowCounted
<1>12. Len(journal') = Len(journal) /\ Behind' = Behind /\ Covered' = Covered
  BY DEF Behind, Covered, Now
<1> QED
  BY <1>0, <1>7, <1>9, <1>10, <1>11, <1>12 DEF Stages!Tell

(* A phase is left behind when all of it was told, or the same content had *)
(* been accepted before.                                                   *)
LEMMA PassLeaves ==
  ASSUME SlowInv, NEW r \in Runs, slow[r].pc \in AtWork, slow[r].conn, case' = case,
         NEW prior \in SUBSET Found, SetRow(r, Pass(Row(r), slow[r].phase, prior)),
         \/ prior = {} /\ Case(r).done = Parts
         \/ prior # {} /\ \A e \in prior : Accepts(e)
  PROVE  Stages!Leave
<1>1. /\ journal # <<>> /\ slow[r].gen = Len(journal) /\ Row(r) = Now /\ Now \in Generations
      /\ Now.index \in 0..4 /\ slow[r].phase = PHASES[Now.index + 1]
      /\ slow[r].phase \in Phases /\ Consistent(Now)
  BY WithDatabase
<1>2. PICK e : e = Pass(Now, slow[r].phase, prior)
  OBVIOUS
<1>3. /\ e \in Generations /\ e.index = Now.index + 1
      /\ e.reused = IF prior = {} THEN Now.reused ELSE [at |-> Now.index + 1, by |-> prior]
  BY <1>1, <1>2, PassedEntry
<1>4. SetNow(e) /\ SlowTypeOK
  BY <1>1, <1>2 DEF SetRow, SetNow, SlowInv
<1>5. OnlyNow(e)
  BY <1>1, <1>3, <1>4, NowWritten
<1>6. Len(journal') = Len(journal) /\ Len(journal) > 0 /\ Told' = Told
  <2>1. Len(journal) > 0
    BY <1>1, <1>4, SlowJournal
  <2> QED
    BY <1>1, <1>5, <2>1 DEF OnlyNow, Told
<1>7. Behind = Now.index /\ Behind' = Behind + 1 /\ Behind < Len(PHASES)
  BY <1>1, <1>3, <1>5, Phasing DEF Behind, OnlyNow
<1>8. CASE prior = {} /\ Case(r).done = Parts
  <2>1. Covered' = Covered
    BY SMTT(30), <1>1, <1>3, <1>5, <1>8 DEF Covered, OnlyNow
  <2>2. Len(Told[Behind + 1]) = Parts
    <3>1. SlowCounted(Case(r)) /\ Case(r) = case[slow[r].gen][slow[r].phase]
      BY SlowInRange
    <3>2. Told[Behind + 1] = Case(r).sends
      BY <1>1, <1>7, <3>1, Phasing DEF Told
    <3> QED
      BY <1>8, <3>1, <3>2 DEF SlowCounted
  <2> QED
    BY <1>6, <1>7, <2>1, <2>2 DEF Stages!Leave
<1>9. CASE prior # {} /\ \A x \in prior : Accepts(x)
  <2>1. \A x \in prior : ToldBefore(x)
    BY <1>9, LiveSlowAssumption DEF Accepts, Classify, ToldBefore, Evidence
  <2>2. Covered' = Now.index + 1
    BY <1>3, <1>5, <1>9, <2>1 DEF Covered, OnlyNow
  <2> QED
    BY <1>6, <1>7, <2>2 DEF Stages!Leave
<1> QED
  BY <1>8, <1>9

(* Steps that write the journal and leave the phase where it is.           *)
LEMMA PreparesQuietly ==
  ASSUME SlowInv, NEW r \in Runs, Refresh(r) \/ BuildReport(r)
  PROVE  UNCHANGED Stages!vars
<1>1. CASE Refresh(r)
  <2>1. journal # <<>> /\ Stale(Now) # {} /\ case' = case
    BY <1>1 DEF Refresh, Prepares
  <2>2. Now \in Generations /\ Consistent(Now)
    BY <2>1, SlowJournal DEF SlowInv, Now
  <2>3. PICK e : e = [Now EXCEPT !.status = "planned",
                    !.man = [p \in Phases |-> IF p \in Stale(Now) THEN None ELSE @[p]]]
    OBVIOUS
  <2>4. e \in Generations /\ e.index = Now.index /\ e.reused = Now.reused
    BY <2>1, <2>2, <2>3, RefreshedEntry
  <2>5. SetNow(e)
    BY <1>1, <2>3 DEF Refresh
  <2> QED
    BY <2>1, <2>4, <2>5, QuietEntry
<1>2. CASE BuildReport(r)
  <2>1. PICK p \in Missing(Now) : SetNow(Built(Now, p)) /\ CanBuild(p)
    BY <1>2 DEF BuildReport, Missing, Reports
  <2>2. journal # <<>> /\ case' = case
    BY <1>2 DEF BuildReport, On, SlowInv, SlowPlaced
  <2>3. Now \in Generations /\ Consistent(Now)
    BY <2>2, SlowJournal DEF SlowInv, Now
  <2>4. PICK e : e = Built(Now, p)
    OBVIOUS
  <2>5. e \in Generations /\ e.index = Now.index /\ e.reused = Now.reused
    BY <2>1, <2>3, <2>4, Phasing, BuiltEntry DEF Missing, CanBuild
  <2> QED
    BY <2>1, <2>2, <2>4, <2>5, QuietEntry
<1> QED
  BY <1>1, <1>2

LEMMA PreviewsQuietly ==
  ASSUME SlowInv, PreviewBuild \/ PreviewReview \/ Hour
  PROVE  UNCHANGED Stages!vars
<1>1. journal # <<>> /\ case' = case
  BY DEF PreviewBuild, PreviewReview, Hour, Previews
<1>2. Now \in Generations /\ Consistent(Now)
  BY <1>1, SlowJournal DEF SlowInv, Now
<1>3. CASE PreviewBuild
  <2>1. PICK p \in Unbuilt : SetNow(Built(Now, p)) /\ CanBuild(p)
    BY <1>3 DEF PreviewBuild, Unbuilt
  <2>2. p \in Phases /\ Position(p) > Now.index
    BY Phasing DEF Unbuilt, Phases, PHASES, ToSet
  <2>3. PICK e : e = Built(Now, p)
    OBVIOUS
  <2>4. e \in Generations /\ e.index = Now.index /\ e.reused = Now.reused
    BY <1>2, <2>1, <2>2, <2>3, BuiltEntry DEF CanBuild
  <2> QED
    BY <1>1, <2>1, <2>3, <2>4, QuietEntry
<1>4. CASE PreviewReview
  <2>1. PICK p \in Unreviewed : \E row \in Reviews(Now, p) : SetNow([row EXCEPT !.status = "planned"])
    BY <1>4 DEF PreviewReview
  <2>2. PICK row \in Reviews(Now, p) : SetNow([row EXCEPT !.status = "planned"])
    BY <2>1
  <2>3. p \in Phases /\ Now.man[p] # None
    BY DEF Unreviewed
  <2>4. /\ row \in Generations /\ Consistent(row) /\ row.index = Now.index
        /\ row.reused = Now.reused
    BY <1>2, <2>3, ReviewedEntry
  <2>5. row.index \in 0..4
    <3>1. Now.index \in 0..5 /\ Now.index # 5
      BY <1>2, <2>3, Phasing DEF Consistent, Generations
    <3> QED
      BY <2>4, <3>1
  <2>6. PICK e : e = [row EXCEPT !.status = "planned"]
    OBVIOUS
  <2>7. e \in Generations /\ e.index = Now.index /\ e.reused = Now.reused
    BY <2>4, <2>5, <2>6, MarkedEntry
  <2> QED
    BY <1>1, <2>2, <2>6, <2>7, QuietEntry
<1>5. CASE Hour
  <2>1. PICK e : e = [Now EXCEPT !.man = [p \in Phases |->
            IF @[p] = None \/ p \notin Reports THEN @[p] ELSE [@[p] EXCEPT !.shown = FALSE]]]
    OBVIOUS
  <2>2. SetNow(e)
    BY <1>5, <2>1 DEF Hour
  <2>3. e \in Generations /\ e.index = Now.index /\ e.reused = Now.reused
    BY <1>2, <2>1, AgedEntry
  <2> QED
    BY <1>1, <2>2, <2>3, QuietEntry
<1> QED
  BY <1>3, <1>4, <1>5

LEMMA DeliversQuietly ==
  ASSUME SlowInv, NEW r \in Runs, Deliver(r)
  PROVE  UNCHANGED Stages!vars
<1> DEFINE p == PHASES[Now.index + 1]
<1>1. /\ journal # <<>> /\ Now.status # "committed" /\ case' = case
      /\ \/ journal' = journal
         \/ CanBuild(p) /\ SetNow(Built(Now, p))
  BY DEF Deliver, SetNow
<1>2. Now \in Generations /\ Consistent(Now)
  BY <1>1, SlowJournal DEF SlowInv, Now
<1>3. p \in Phases /\ Position(p) > Now.index
  <2>1. Now.index \in 0..4
    BY <1>1, <1>2, Phasing DEF Consistent, Generations
  <2> QED
    BY <2>1, Phasing
<1> HIDE DEF p
<1>4. CASE CanBuild(p) /\ SetNow(Built(Now, p))
  <2>1. PICK e : e = Built(Now, p)
    OBVIOUS
  <2>2. e \in Generations /\ e.index = Now.index /\ e.reused = Now.reused
    BY <1>2, <1>3, <1>4, <2>1, BuiltEntry DEF CanBuild
  <2> QED
    BY <1>1, <1>4, <2>1, <2>2, QuietEntry
<1> QED
  BY <1>1, <1>4, QuietRun

(* A run that has the database marks its entry, or reviews its manifest.   *)
LEMMA MarksQuietly ==
  ASSUME SlowInv, NEW r \in Runs, slow[r].pc \in AtWork, slow[r].conn, case' = case,
         NEW st \in {"sending", "unknown", "failed"},
         SetRow(r, [Row(r) EXCEPT !.status = st])
  PROVE  UNCHANGED Stages!vars
<1>1. /\ journal # <<>> /\ slow[r].gen = Len(journal) /\ Row(r) = Now /\ Now \in Generations
  BY WithDatabase
<1>2. PICK e : e = [Now EXCEPT !.status = st]
  OBVIOUS
<1>3. e \in Generations /\ e.index = Now.index /\ e.reused = Now.reused
  BY <1>1, <1>2 DEF Generations, Standings
<1>4. SetNow(e)
  BY <1>1, <1>2 DEF SetRow, SetNow
<1> QED
  BY <1>1, <1>3, <1>4, QuietEntry

LEMMA ReviewsQuietly ==
  ASSUME SlowInv, NEW r \in Runs, Review(r)
  PROVE  UNCHANGED Stages!vars
<1> DEFINE p == slow[r].phase
<1>1. /\ slow[r].pc = "stage" /\ slow[r].conn /\ case' = case
      /\ journal' = journal \/ \E row \in Reviews(Row(r), p) : SetRow(r, row)
  BY DEF Review, On
<1>2. /\ journal # <<>> /\ slow[r].gen = Len(journal) /\ Row(r) = Now /\ Now \in Generations
      /\ p \in Phases /\ Consistent(Now)
  BY <1>1, WithDatabase DEF AtWork
<1>3. Now.man[p] # None
  BY <1>1 DEF SlowInv, SlowPlaced
<1>4. CASE \E row \in Reviews(Row(r), p) : SetRow(r, row)
  <2>1. PICK e \in Reviews(Now, p) : SetRow(r, e)
    BY <1>2, <1>4
  <2>2. e \in Generations /\ e.index = Now.index /\ e.reused = Now.reused
    BY <1>2, <1>3, ReviewedEntry
  <2>3. SetNow(e)
    BY <1>2, <2>1 DEF SetRow, SetNow
  <2> QED
    BY <1>1, <1>2, <2>2, <2>3, QuietEntry
<1> QED
  BY <1>1, <1>4, QuietRun

LEMMA ReuseLeaves ==
  ASSUME SlowInv, NEW r \in Runs, Reuse(r)
  PROVE  Stages!Leave \/ UNCHANGED Stages!vars
<1> DEFINE m == Row(r).man[slow[r].phase].review.match
<1>1. /\ slow[r].pc = "choose" /\ slow[r].conn /\ m # None /\ case' = case
      /\ SetRow(r, IF Accepts(m) THEN Pass(Row(r), slow[r].phase, {m})
                   ELSE [Row(r) EXCEPT !.status = "unknown"])
  BY SMTT(30) DEF Reuse, On
<1>2. m \in Found
  BY <1>1, MatchOf
<1> HIDE DEF m
<1>3. CASE Accepts(m)
  BY <1>1, <1>2, <1>3, PassLeaves DEF AtWork
<1>4. CASE ~Accepts(m)
  BY <1>1, <1>4, MarksQuietly DEF AtWork
<1> QED
  BY SMTT(30), <1>3, <1>4

LEMMA ReceiptLeaves ==
  ASSUME SlowInv, NEW r \in Runs, TakeReceipt(r)
  PROVE  Stages!Leave \/ UNCHANGED Stages!vars
<1> DEFINE x == [accepted |-> TRUE, bound |-> TRUE, ofManifest |-> TRUE, path |-> TRUE,
                 rebound |-> FALSE, parts |-> Case(r).done = Parts, context |-> TRUE,
                 signature |-> TRUE, content |-> Case(r).bound = slow[r].ver, sealed |-> TRUE]
<1>1. /\ slow[r].pc = "receipt" /\ slow[r].conn /\ case' = case
      /\ SetRow(r, IF Accepts(x) THEN Pass(Row(r), slow[r].phase, {})
                   ELSE [Row(r) EXCEPT !.status = "unknown"])
  BY DEF TakeReceipt, On
<1>2. Case(r).done = Parts
  BY <1>1 DEF SlowInv, SlowPlaced
<1> HIDE DEF x
<1>3. CASE Accepts(x)
  BY <1>1, <1>2, <1>3, PassLeaves DEF AtWork
<1>4. CASE ~Accepts(x)
  BY <1>1, <1>4, MarksQuietly DEF AtWork
<1> QED
  BY <1>3, <1>4

LEMMA SlowCaseIsQuiet ==
  ASSUME SlowInv, NEW r \in Runs, BindCase(r) \/ AttemptPart(r) \/ UnlockCase(r)
  PROVE  UNCHANGED Stages!vars
<1>1. slow[r].pc \in AtWork /\ journal' = journal
  BY DEF BindCase, AttemptPart, UnlockCase, On, AtWork
<1>2. Case(r) \in Cases
  BY <1>1, SlowInRange
<1>3. CASE case' = case
  BY <1>1, <1>3, QuietRun
<1>4. CASE case' # case
  <2>1. PICK w : /\ SetCase(r, w)
                 /\ \/ /\ w = [Case(r) EXCEPT !.lock = TRUE, !.bound = slow[r].ver]
                       /\ slow[r].pc = "case"
                    \/ w = [Case(r) EXCEPT !.prog = "doubt"]
                    \/ w = [Case(r) EXCEPT !.lock = FALSE]
    BY <1>4 DEF BindCase, Bound, AttemptPart, UnlockCase, On
  <2>2. slow[r].ver \in 0..MaxBuilds
    BY DEF SlowInv, SlowTypeOK, States
  <2>3. w \in Cases /\ w.sends = Case(r).sends
    BY <1>2, <2>1, <2>2 DEF Cases
  <2> QED
    BY <1>1, <2>1, <2>3, SlowQuietCase
<1> QED
  BY <1>3, <1>4

LEMMA AnswerTellsOrNot ==
  ASSUME SlowInv, NEW r \in Runs, Answer(r)
  PROVE  Stages!Tell \/ UNCHANGED Stages!vars
<1> DEFINE sent == Append(Case(r).sends, Case(r).bound)
<1>1. slow[r].pc = "answer" /\ journal' = journal
  BY DEF Answer, On
<1>2. Case(r) \in Cases /\ slow[r].pc \in AtWork
  BY <1>1, SlowInRange DEF AtWork
<1>3. sent \in Seq(1..MaxBuilds) /\ Case(r).done + 1 \in 0..Parts
  <2>1. Case(r).bound # 0 /\ Case(r).done < Parts
    BY <1>1 DEF SlowInv, SlowPlaced
  <2>2. /\ Case(r).bound \in 1..MaxBuilds /\ Case(r).done \in 0..Parts
        /\ Case(r).sends \in Seq(1..MaxBuilds)
    BY <1>2, <2>1, LiveSlowAssumption DEF Cases
  <2> QED
    BY <2>1, <2>2, LiveSlowAssumption
<1>4. PICK w : /\ SetCase(r, w)
               /\ \/ w = [Case(r) EXCEPT !.prog = "accepted", !.done = @ + 1, !.sends = sent]
                  \/ w = [Case(r) EXCEPT !.prog = "failed"]
                  \/ \E s \in {sent, Case(r).sends} : w = [Case(r) EXCEPT !.sends = s]
  BY DEF Answer
<1> HIDE DEF sent
<1>5. w \in Cases /\ w.sends \in {sent, Case(r).sends}
  BY ZenonT(60), <1>2, <1>3, <1>4 DEF Cases
<1>6. CASE w.sends = sent
  BY <1>1, <1>4, <1>5, <1>6, AnswerTells DEF sent
<1>7. CASE w.sends = Case(r).sends
  BY <1>1, <1>2, <1>4, <1>5, <1>7, SlowQuietCase
<1> QED
  BY <1>5, <1>6, <1>7

(* Every behaviour of the slow cycle is one of StageLedger: the phases of  *)
(* a generation are left behind one after the other, one content is told   *)
(* of each and no part of it twice, and none is left behind before all of  *)
(* it was told or had verifiably been accepted before, whoever dies or     *)
(* goes on sending without the database.                                   *)
THEOREM SlowPromiseKept == SlowSpec => KeepsStages
<1>1. SlowInv /\ [SlowNext]_slowVars =>
           [Stages!Begin \/ Stages!Tell \/ Stages!Leave]_(Stages!vars)
  <2> SUFFICES ASSUME SlowInv, [SlowNext]_slowVars
               PROVE  [Stages!Begin \/ Stages!Tell \/ Stages!Leave]_(Stages!vars)
    OBVIOUS
  <2>1. CASE UNCHANGED slowVars
    BY <2>1, QuietRun DEF slowVars
  <2>2. CASE \E r \in Runs :
        \/ OpenWeek(r) \/ Refresh(r) \/ Continue(r) \/ BuildReport(r)
        \/ Deliver(r) \/ Review(r) \/ Reuse(r) \/ Send(r)
        \/ BindCase(r) \/ AttemptPart(r) \/ Answer(r) \/ UnlockCase(r)
        \/ Raised(r) \/ TakeReceipt(r) \/ SlowDies(r) \/ LosesDatabase(r)
    <3>1. PICK r \in Runs :
        \/ OpenWeek(r) \/ Refresh(r) \/ Continue(r) \/ BuildReport(r)
        \/ Deliver(r) \/ Review(r) \/ Reuse(r) \/ Send(r)
        \/ BindCase(r) \/ AttemptPart(r) \/ Answer(r) \/ UnlockCase(r)
        \/ Raised(r) \/ TakeReceipt(r) \/ SlowDies(r) \/ LosesDatabase(r)
      BY <2>2
    <3>2. CASE Continue(r) \/ SlowDies(r) \/ LosesDatabase(r)
      BY <3>2, QuietRun DEF Continue, SlowDies, LosesDatabase
    <3>3. CASE Send(r)
      BY <3>3, MarksQuietly DEF Send, On, AtWork
    <3>4. CASE Raised(r)
      <4>1. /\ slow[r].pc = "raised" /\ slow[r].conn /\ case' = case
            /\ SetRow(r, [Row(r) EXCEPT !.status = slow[r].then])
        BY <3>4 DEF Raised, On
      <4>2. slow[r].then \in {"failed", "unknown"}
        BY <4>1 DEF SlowInv, SlowPlaced
      <4> QED
        BY <4>1, <4>2, MarksQuietly DEF AtWork
    <3> QED
      BY <3>1, <3>2, <3>3, <3>4, OpenBegins, PreparesQuietly, DeliversQuietly, ReviewsQuietly,
         ReuseLeaves, SlowCaseIsQuiet, AnswerTellsOrNot, ReceiptLeaves
  <2> QED
    BY <2>1, <2>2, PreviewsQuietly DEF SlowNext
<1> QED
  BY <1>1, StagesInit, SlowInvariance, PTL DEF SlowSpec, KeepsStages, Stages!Spec
=============================================================================
