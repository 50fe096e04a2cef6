----------------------------- MODULE SlowReport -----------------------------
(***************************************************************************)
(* The weekly and monthly sales reports of one week: slow_report_runner.py *)
(* over the batch store of slow_report_batch.py and the part of            *)
(* workflow_io they are sent through.                                      *)
(*                                                                         *)
(* The head of the week names a content generation and a delivery          *)
(* generation.  In a content generation each phase has one directory with  *)
(* the report, prepared (renamed into place) and then published, and the   *)
(* head records each of the two in a write that follows.  A run binds the  *)
(* phase in the progress file and sends it, the weekly phase first; a      *)
(* forced or regenerating run first moves the head to the next generation. *)
(* One process runs at a time, under the job's lock; it may die, or leave  *)
(* by an exception, between any two writes.                                *)
(*                                                                         *)
(* One message stands for an account's text and file, whose order and      *)
(* recovery are those of Delivery, as are target locks and fences.         *)
(***************************************************************************)
EXTENDS Naturals, Sequences

CONSTANTS
  Accounts,   \* accounts of the recipient plan, numbers in its order
  Versions,   \* contents a freshly collected report may have
  Routes,     \* values of the activation's target map
  Uploads,    \* whether the transport leaves upload-<key> entries
  MaxContent, \* bound: content generations after the first
  MaxAgain,   \* bound: delivery generations after the first
  MaxRuns,    \* bound: runs started in a behaviour
  None

ASSUME SlowReportAssumption ==
  /\ Accounts \subseteq Nat
  /\ Accounts # {}
  /\ Uploads \in BOOLEAN
  /\ MaxContent \in Nat
  /\ MaxAgain \in Nat
  /\ MaxRuns \in Nat
  /\ None \notin Routes
  /\ None \notin [version : Versions, route : Routes]

VARIABLES
  act,        \* the activation file: target map and send_enabled
  runs,       \* runs started so far
  proc,       \* the process that holds the job's lock, if any
  head,       \* head.json of the week, or NoHead
  batch,      \* the directory of a phase in a content generation
  bound,      \* progress file: report_phase_bindings
  entry,      \* progress file: status and manifest of a notification
  uploaded,   \* progress file: whether it has an upload-<key> entry
  told,       \* history: contents the provider accepted for it, in order
  via         \* history: routes the provider accepted a phase over

store == <<head, batch>>
progress == <<bound, entry, uploaded>>
history == <<told, via>>
vars == <<act, runs, proc, store, progress, history>>

Phases == {"weekly", "monthly"}
Contents == 0..MaxContent
Agains == 0..MaxAgain
Receipts == {"provider_accepted", "failed", "unknown"}
Missing == [version |-> None, route |-> None, status |-> "missing"]
Unrecorded == [p \in Phases |-> Missing]
NoHead == [made |-> FALSE, content |-> 0, again |-> 0, phases |-> Unrecorded]
Untouched == [status |-> "not_attempted", route |-> None]
Modes == {"resume", "force_resend", "regenerate_report"}
Idle == [pc |-> "idle", mode |-> "resume", asked |-> None, wire |-> None,
         send |-> FALSE, phase |-> "weekly", todo |-> {}, resp |-> "unknown"]
PCs == {"idle", "connect", "load", "phase", "record_prepared", "publish",
        "record_published", "bind", "deliver", "stage", "next", "wire",
        "record"}

Batches == [version : Versions \cup {None}, route : Routes \cup {None},
            status : {"missing", "prepared", "published"}]
Entries == [status : Receipts \cup {"not_attempted", "in_flight"},
            route : Routes \cup {None}]

TypeOK ==
  /\ act \in [route : Routes, send : BOOLEAN]
  /\ runs \in 0..MaxRuns
  /\ proc \in [pc : PCs, mode : Modes, asked : Routes \cup {None},
               wire : Routes \cup {None}, send : BOOLEAN, phase : Phases,
               todo : SUBSET Accounts, resp : Receipts]
  /\ head \in [made : BOOLEAN, content : Contents, again : Agains,
               phases : [Phases -> Batches]]
  /\ batch \in [Contents -> [Phases -> Batches]]
  /\ bound \in [Contents -> [Phases -> Batches]]
  /\ entry \in [Contents -> [Agains -> [Phases -> [Accounts -> Entries]]]]
  /\ uploaded \in BOOLEAN
  /\ told \in [Contents -> [Agains -> [Phases -> [Accounts -> Seq(Versions)]]]]
  /\ via \in [Contents -> [Agains -> [Phases -> SUBSET Routes]]]

ForAll(x) ==
  [c \in Contents |-> [d \in Agains |-> [p \in Phases |-> [a \in Accounts |-> x]]]]

Init ==
  /\ act \in [route : Routes, send : BOOLEAN]
  /\ runs = 0
  /\ proc = Idle
  /\ head = NoHead
  /\ batch = [c \in Contents |-> Unrecorded]
  /\ bound = [c \in Contents |-> Unrecorded]
  /\ entry = ForAll(Untouched)
  /\ uploaded = FALSE
  /\ told = ForAll(<<>>)
  /\ via = [c \in Contents |-> [d \in Agains |-> [p \in Phases |-> {}]]]

-----------------------------------------------------------------------------
(* Reading what is on disk for the head's generation.                      *)

At(pc) == proc.pc = pc
Goto(pc) == proc' = [proc EXCEPT !.pc = pc]

Batch(p) == batch[head.content][p]
Entry(p) == entry[head.content][head.again][p]
Attempted(p) == \E a \in Accounts : Entry(p)[a].status # "not_attempted"

(* A phase loads if it is as the head records it, or published since.      *)
Loads(p) ==
  head.phases[p] # Missing =>
    \/ Batch(p) = head.phases[p]
    \/ /\ Batch(p).status = "published"
       /\ head.phases[p] = [Batch(p) EXCEPT !.status = "prepared"]

PhaseComplete(p) ==
  /\ Batch(p).status = "published"
  /\ bound[head.content][p] = Batch(p)
  /\ \A a \in Accounts : Entry(p)[a].status = "provider_accepted"

(* preflight_components for what is to be sent of a phase: no outcome in   *)
(* doubt, and the manifests on file are those of this run's targets.       *)
Preflight(p) ==
  \A a \in Accounts :
    /\ Entry(p)[a].status \notin {"in_flight", "unknown"}
    /\ Entry(p)[a].route \in {None, proc.wire}

(* Every component of every generation has a clear outcome.  Entries of    *)
(* uploaded files count as components and none of their statuses is clear. *)
Clear ==
  /\ ~uploaded
  /\ \A c \in Contents, d \in Agains, p \in Phases, a \in Accounts :
       entry[c][d][p][a].status \in {"not_attempted", "provider_accepted", "failed"}

-----------------------------------------------------------------------------
(* The beginning of a run.                                                 *)

Start(mode) ==
  /\ At("idle")
  /\ runs < MaxRuns
  /\ runs' = runs + 1
  /\ proc' = [Idle EXCEPT !.pc = "connect", !.mode = mode, !.asked = act.route,
                          !.send = act.send]
  /\ UNCHANGED <<act, store, progress, history>>

(* With sending enabled the transport reads the activation once more.      *)
Connect ==
  /\ At("connect")
  /\ proc.send => act.send
  /\ proc' = [proc EXCEPT !.pc = "load",
                          !.wire = IF proc.send THEN act.route ELSE None]
  /\ UNCHANGED <<act, runs, store, progress, history>>

Resume ==
  /\ At("load")
  /\ proc.mode = "resume"
  /\ Clear
  /\ \A p \in Phases : Loads(p)
  /\ head' = [head EXCEPT !.made = TRUE]
  /\ Goto("phase")
  /\ UNCHANGED <<act, runs, batch, progress, history>>

(* Both phases of a generation must be complete before it is left.         *)
Completed ==
  /\ head.made
  /\ Clear
  /\ \A p \in Phases : Loads(p) /\ PhaseComplete(p)

ForceResend ==
  /\ At("load")
  /\ proc.mode = "force_resend"
  /\ Completed
  /\ \A p \in Phases : Batch(p).route = proc.asked /\ (proc.send => Preflight(p))
  /\ head.again < MaxAgain
  /\ head' = [head EXCEPT !.again = @ + 1]
  /\ Goto("phase")
  /\ UNCHANGED <<act, runs, batch, progress, history>>

Regenerate ==
  /\ At("load")
  /\ proc.mode = "regenerate_report"
  /\ Completed
  /\ head.content < MaxContent
  /\ head' = [head EXCEPT !.content = @ + 1, !.phases = Unrecorded]
  /\ Goto("phase")
  /\ UNCHANGED <<act, runs, batch, progress, history>>

-----------------------------------------------------------------------------
(* A phase, up to its binding.                                             *)

(* The report is collected, sealed and renamed into place.  The monthly    *)
(* one takes the recipients and targets of the weekly one.                 *)
Prepare(v) ==
  /\ At("phase")
  /\ Batch(proc.phase) = Missing
  /\ bound[head.content][proc.phase] = Missing
  /\ LET targets == IF proc.phase = "weekly" THEN proc.asked
                    ELSE Batch("weekly").route
     IN /\ proc.send => targets = proc.asked /\ Preflight(proc.phase)
        /\ batch' = [batch EXCEPT ![head.content][proc.phase] =
             [version |-> v, route |-> targets, status |-> "prepared"]]
  /\ Goto("record_prepared")
  /\ UNCHANGED <<act, runs, head, progress, history>>

Recorded == [head EXCEPT !.phases[proc.phase] = Batch(proc.phase)]

RecordPrepared ==
  /\ At("record_prepared")
  /\ head' = Recorded
  /\ Goto("publish")
  /\ UNCHANGED <<act, runs, batch, progress, history>>

(* A report an earlier run left prepared is checked before it is published.*)
TakeUp ==
  /\ At("phase")
  /\ Batch(proc.phase).status = "prepared"
  /\ proc.send => Batch(proc.phase).route = proc.asked /\ Preflight(proc.phase)
  /\ Goto("publish")
  /\ UNCHANGED <<act, runs, store, progress, history>>

(* Mutant of Publish: the head is written before the report's directory.   *)
PublishInHead ==
  /\ At("publish")
  /\ head' = [head EXCEPT !.phases[proc.phase] =
       [Batch(proc.phase) EXCEPT !.status = "published"]]
  /\ Goto("record_published")
  /\ UNCHANGED <<act, runs, batch, progress, history>>

Publish ==
  /\ At("publish")
  /\ batch' = [batch EXCEPT ![head.content][proc.phase].status = "published"]
  /\ Goto("record_published")
  /\ UNCHANGED <<act, runs, head, progress, history>>

RecordPublished ==
  /\ \/ At("record_published")
     \/ /\ At("phase")
        /\ Batch(proc.phase).status = "published"
        /\ head.phases[proc.phase].status # "published"
  /\ head' = Recorded
  /\ Goto("bind")
  /\ UNCHANGED <<act, runs, batch, progress, history>>

Published ==
  /\ At("phase")
  /\ Batch(proc.phase).status = "published"
  /\ head.phases[proc.phase].status = "published"
  /\ Goto("bind")
  /\ UNCHANGED <<act, runs, store, progress, history>>

(* The phase is bound to the sealed report, once, and before any attempt.  *)
Bind ==
  /\ At("bind")
  /\ \/ bound[head.content][proc.phase] = Batch(proc.phase) /\ UNCHANGED bound
     \/ /\ bound[head.content][proc.phase] = Missing
        /\ ~Attempted(proc.phase)
        /\ bound' = [bound EXCEPT ![head.content][proc.phase] = Batch(proc.phase)]
  /\ Goto("deliver")
  /\ UNCHANGED <<act, runs, store, entry, uploaded, history>>

-----------------------------------------------------------------------------
(* Delivery of a phase.                                                    *)

(* The next phase, or the end of the run, without or after its delivery.   *)
Leave == proc' = IF proc.phase = "weekly"
                 THEN [proc EXCEPT !.phase = "monthly", !.pc = "phase"]
                 ELSE Idle

PhaseDone ==
  /\ At("deliver")
  /\ ~proc.send \/ PhaseComplete(proc.phase)
  /\ Leave
  /\ UNCHANGED <<act, runs, store, progress, history>>

Deliver ==
  /\ At("deliver")
  /\ proc.send
  /\ ~PhaseComplete(proc.phase)
  /\ Batch(proc.phase).route = proc.asked
  /\ Preflight(proc.phase)
  /\ proc' = [proc EXCEPT !.pc = "stage",
       !.todo = {a \in Accounts :
                   Entry(proc.phase)[a].status # "provider_accepted"}]
  /\ UNCHANGED <<act, runs, store, progress, history>>

Current == CHOOSE a \in proc.todo : \A c \in proc.todo : a <= c
SetEntry(e) ==
  entry' = [entry EXCEPT ![head.content][head.again][proc.phase][Current] = e]

(* A call of deliver_components for one notification: its manifest is      *)
(* written, and then its file is uploaded.                                 *)
Stage ==
  /\ At("stage")
  /\ proc.todo # {}
  /\ SetEntry([Entry(proc.phase)[Current] EXCEPT !.route = proc.wire])
  /\ uploaded' \in {uploaded, uploaded \/ Uploads}
  /\ Goto("next")
  /\ UNCHANGED <<act, runs, store, bound, history>>

MarkInFlight ==
  /\ At("next")
  /\ SetEntry([status |-> "in_flight", route |-> proc.wire])
  /\ uploaded' = (uploaded \/ Uploads)
  /\ Goto("wire")
  /\ UNCHANGED <<act, runs, store, bound, history>>

Send(receipt) ==
  /\ At("wire")
  /\ \/ /\ receipt \in {"provider_accepted", "unknown"}
        /\ told' = [told EXCEPT ![head.content][head.again][proc.phase][Current] =
             Append(@, Batch(proc.phase).version)]
        /\ via' = [via EXCEPT ![head.content][head.again][proc.phase] =
             @ \cup {proc.wire}]
     \/ receipt \in {"failed", "unknown"} /\ UNCHANGED history
  /\ proc' = [proc EXCEPT !.pc = "record", !.resp = receipt]
  /\ UNCHANGED <<act, runs, store, progress>>

(* A definite failure is put aside and the other notifications go on; an   *)
(* unknown outcome ends the run.                                           *)
Record ==
  /\ At("record")
  /\ SetEntry([status |-> proc.resp, route |-> proc.wire])
  /\ proc' = IF proc.resp = "unknown" THEN Idle
             ELSE [proc EXCEPT !.pc = "stage", !.todo = @ \ {Current}]
  /\ UNCHANGED <<act, runs, store, bound, uploaded, history>>

(* Mutant of Delivered: the phase is not looked at again after its sends.  *)
DeliveredAnyway ==
  /\ At("stage")
  /\ proc.todo = {}
  /\ Leave
  /\ UNCHANGED <<act, runs, store, progress, history>>

Delivered ==
  /\ At("stage")
  /\ proc.todo = {}
  /\ PhaseComplete(proc.phase)
  /\ Leave
  /\ UNCHANGED <<act, runs, store, progress, history>>

(* The run is over before its end: it died and its lock file was removed   *)
(* after review, an exception left it, or a check refused to go on.        *)
Stop ==
  /\ ~At("idle")
  /\ proc' = Idle
  /\ UNCHANGED <<act, runs, store, progress, history>>

(* An operator edits the activation.                                       *)
Edit(r, s) ==
  /\ act' = [route |-> r, send |-> s]
  /\ act' # act
  /\ UNCHANGED <<runs, proc, store, progress, history>>

RunStep ==
  \/ \E mode \in Modes : Start(mode)
  \/ Connect \/ Resume \/ ForceResend \/ Regenerate
  \/ \E v \in Versions : Prepare(v)
  \/ RecordPrepared \/ TakeUp \/ Publish \/ RecordPublished \/ Published
  \/ Bind \/ PhaseDone \/ Deliver \/ Stage \/ MarkInFlight \/ Record
  \/ \E receipt \in Receipts : Send(receipt)
  \/ Delivered \/ Stop

Next == RunStep \/ \E r \in Routes, s \in BOOLEAN : Edit(r, s)

Spec == Init /\ [][Next]_vars

-----------------------------------------------------------------------------
(* Properties.                                                             *)

(* What a death or an exception leaves on disk is never taken for a        *)
(* tampered batch: both phases load, a bound phase is still the one that   *)
(* was bound, and nothing was attempted for a phase that is not bound.     *)
Recoverable ==
  \A p \in Phases :
    /\ Loads(p)
    /\ bound[head.content][p] \in {Missing, Batch(p)}
    /\ Attempted(p) => bound[head.content][p] # Missing

(* All messages of a phase in one generation go over one route, whoever    *)
(* edits the activation and however many runs it takes; and a run whose    *)
(* two readings of it agree sends only over the route sealed in the report.*)
RoutesKept ==
  /\ \A c \in Contents, d \in Agains, p \in Phases :
       \A r, s \in via[c][d][p] : r = s
  /\ At("wire") /\ proc.asked = proc.wire =>
       Batch(proc.phase).route = proc.wire

(* A phase survives what happens between its steps, with the route it was  *)
(* sealed with.                                                            *)
PhasesKept == Recoverable /\ RoutesKept

(* The runner over its files keeps the promise of ReportLedger: whatever   *)
(* dies, whoever edits the activation and however runs are forced, each    *)
(* report is fixed once, with the routes of the weekly one, its content is *)
(* sent once per generation to each account, the weekly one first, and no  *)
(* generation is left before everyone has both.                            *)
Ledger == INSTANCE ReportLedger WITH
  sealed <- [p \in Phases |-> IF Batch(p) = Missing THEN None
              ELSE [version |-> Batch(p).version, route |-> Batch(p).route]],
  told <- told[head.content][head.again]
KeepsReports == Ledger!Spec
=============================================================================
