------------------------------ MODULE LiveSlow ------------------------------
(* The live slow cycle of one department and week: prepare, preview and    *)
(* deliver of workflow_live_slow on the journal, the stages of             *)
(* workflow_slow, the search for an equal prior delivery and the check of  *)
(* the receipt of workflow_delivery_review and acceptance_delivery, and    *)
(* deliver_batch on the file of one case.                                  *)
(*                                                                         *)
(* A run holds the lock of its department in the database and loses it     *)
(* with its connection, which may break while it sends; the progress file  *)
(* and the lock file of a case stay whoever dies.  A generation has one    *)
(* case per phase, and a case sends its parts one after the other.         *)
EXTENDS LiveRuns, Integers, Sequences, FiniteSets, SequencesExt

CONSTANTS Parts,           \* components of the notification of a phase
          Found,           \* earlier deliveries a search may come upon
          MaxGenerations,  \* bound: generations of the week
          MaxBuilds        \* bound: manifests built of one phase of a generation

(* task, customer, audit, weekly, monthly: slow.PHASES.                    *)
PHASES == <<"task", "customer", "audit", "weekly", "monthly">>
Phases == ToSet(PHASES)
Reports == {"weekly", "monthly"}
Position(p) == CHOOSE i \in DOMAIN PHASES : PHASES[i] = p

(* An earlier delivery found in a file: each field says whether one check  *)
(* of the search would find it as it should be.                            *)
Evidence == [accepted : BOOLEAN,   \* the receipt says the provider accepted
             bound : BOOLEAN,      \* its binding is complete and consistent
             ofManifest : BOOLEAN, \* and is the one its manifest gives
             path : BOOLEAN,       \* the progress file is the one of its case
             rebound : BOOLEAN,    \* that file has another binding by now
             parts : BOOLEAN,      \* every part of it is accepted, no other
             context : BOOLEAN,    \* same scope, week, generation, phase, target
             signature : BOOLEAN,  \* same text and files, labels left aside
             content : BOOLEAN,    \* same text and files to the byte
             sealed : BOOLEAN]     \* its files are what its manifest sealed

Matches == [match : Found \cup {None}]
Manifests == [ver : 1..MaxBuilds, shown : BOOLEAN, review : Matches \cup {None}]

ASSUME LiveSlowAssumption ==
    /\ Parts \in Nat
    /\ Found \subseteq Evidence
    /\ MaxGenerations \in Nat /\ MaxBuilds \in Nat
    /\ None \notin Runs \cup Evidence \cup Matches \cup Manifests

VARIABLES journal,  \* the generations of the week, the last one is current
          case,     \* per generation and phase: progress, lock file, sends
          owner,    \* the run whose connection holds the department's lock
          slow      \* per run: where it is and what it keeps in memory
slowVars == <<journal, case, owner, slow>>

Idle == [pc |-> "idle", conn |-> FALSE, gen |-> 0, phase |-> None, state |-> "none",
         ver |-> 0, then |-> "none"]
Untouched == [prog |-> "none", bound |-> 0, done |-> 0, lock |-> FALSE, sends |-> <<>>]

SlowInit ==
    /\ journal = <<>>
    /\ case = [g \in 1..MaxGenerations |-> [p \in Phases |-> Untouched]]
    /\ owner = None
    /\ slow = [r \in Runs |-> Idle]

-----------------------------------------------------------------------------
Now == journal[Len(journal)]
Row(r) == journal[slow[r].gen]
SetNow(row) == journal' = [journal EXCEPT ![Len(journal)] = row]
SetRow(r, row) == journal' = [journal EXCEPT ![slow[r].gen] = row]
On(r, pc) == slow[r].pc = pc
Step(r, pc) == slow' = [slow EXCEPT ![r].pc = pc]
Case(r) == case[slow[r].gen][slow[r].phase]
SetCase(r, v) == case' = [case EXCEPT ![slow[r].gen][slow[r].phase] = v]

Quit(r) ==
    /\ slow' = [slow EXCEPT ![r] = Idle]
    /\ owner' = IF owner = r THEN None ELSE owner

(* A run begins with GET_LOCK, without waiting, and reads the journal; a   *)
(* refusal changes nothing and is left out, and one later on is a run that *)
(* ends.                                                                   *)
Begin(r, pc) ==
    /\ On(r, "idle") /\ owner = None
    /\ owner' = r
    /\ slow' = [slow EXCEPT ![r] = [Idle EXCEPT !.pc = pc, !.conn = TRUE]]

-----------------------------------------------------------------------------
(* prepare: freeze the week once, then build the two reports, unless the   *)
(* run was told to leave them.                                             *)

Opened == [status |-> "planned", index |-> 0,
           man |-> [p \in Phases |-> None], builds |-> [p \in Phases |-> 0],
           reused |-> [at |-> 0, by |-> {}]]

(* The manifest of a phase: what was built, and whether the time it shows  *)
(* is within the hour.  That of a phase that is behind is not looked at    *)
(* again, and left out.                                                    *)
Built(row, p) ==
    [row EXCEPT !.man[p] = [ver |-> row.builds[p] + 1, shown |-> TRUE, review |-> None],
                !.builds[p] = @ + 1, !.status = "planned"]

(* Reports that were not delivered and are an hour old.  The report whose  *)
(* turn it is stays as it is unless nothing of its delivery was begun.     *)
Stale(row) ==
    {p \in Reports : /\ row.man[p] # None
                     /\ (row.index < Position(p) - 1 \/ row.status = "planned")
                     /\ ~row.man[p].shown}

CanBuild(p) == Now.builds[p] < MaxBuilds

Missing(row) == {p \in Reports : row.man[p] = None /\ Position(p) > row.index}

(* Mutant of OpenWeek: a generation begins before the one before it is done.   *)
OpenAnyway(r) ==
    /\ Len(journal) < MaxGenerations
    /\ Begin(r, "reports")
    /\ journal' = Append(journal, Opened)
    /\ UNCHANGED case

(* Inputs, baseline and journal entry in one transaction.  A generation is *)
(* followed by another one only when it is complete.                       *)
OpenWeek(r) ==
    /\ Len(journal) < MaxGenerations
    /\ journal # <<>> => Now.status = "committed"
    /\ Begin(r, "reports")
    /\ journal' = Append(journal, Opened)
    /\ UNCHANGED case

Prepares == journal # <<>> /\ Now.status \notin {"unknown", "sending"}

(* The old reports are set aside only after the source was read again, and *)
(* the entry is planned again, whatever it was before.                     *)
Refresh(r) ==
    /\ Prepares /\ Stale(Now) # {}
    /\ Begin(r, "reports")
    /\ SetNow([Now EXCEPT !.status = "planned",
                  !.man = [p \in Phases |-> IF p \in Stale(Now) THEN None ELSE @[p]]])
    /\ UNCHANGED case

Continue(r) ==
    /\ Prepares /\ Stale(Now) = {} /\ Missing(Now) # {}
    /\ Begin(r, "reports")
    /\ UNCHANGED <<journal, case>>

(* Reads the source again when a phase was delivered and the weekly report *)
(* is missing; else the report is of what was read last, whenever that was.*)
BuildReport(r) ==
    /\ On(r, "reports") /\ slow[r].conn
    /\ Missing(Now) # {}
    /\ LET p == IF "weekly" \in Missing(Now) THEN "weekly" ELSE "monthly" IN
       CanBuild(p) /\ SetNow(Built(Now, p))
    /\ UNCHANGED <<case, owner, slow>>

-----------------------------------------------------------------------------
(* The search for an equal delivery and the check of a receipt.            *)

(* classify_receipt: what a receipt is worth.  "content" is asked when it  *)
(* is compared with the binding of the phase itself.                       *)
Classify(e, exact) ==
    IF ~e.accepted THEN "not_provider_accepted"
    ELSE IF ~e.bound THEN "historical_provider_accepted"
    ELSE IF (exact /\ ~(e.context /\ e.content)) \/ ~e.path \/ e.rebound THEN "binding_mismatch"
    ELSE IF ~e.parts THEN "unverified_receipt"
    ELSE "verified_for_reuse"

(* review: a prior delivery may stand for this one.                        *)
Reusable(e) ==
    /\ e.bound /\ e.ofManifest
    /\ Classify(e, FALSE) = "verified_for_reuse"
    /\ e.context /\ e.signature /\ e.sealed

(* accepted with the binding of the manifest: the reused receipt must be   *)
(* of the same content to the byte, which the search does not ask.         *)
Accepts(e) == Classify(e, TRUE) = "verified_for_reuse"

Reviews(row, p) ==
    {[row EXCEPT !.man[p].review = [match |-> IF Reusable(e) THEN e ELSE None]] : e \in Found}

-----------------------------------------------------------------------------
(* preview: builds the first two phases and reviews what is to be sent, in *)
(* this order; every step is saved, and the run needs nothing else.        *)
Previews == /\ journal # <<>> /\ owner = None
            /\ Now.status \notin {"sending", "unknown", "failed"}
Unbuilt == {p \in {"task", "customer"} : Now.man[p] = None /\ Position(p) > Now.index}
Unreviewed == {p \in Phases \ {"audit"} : Now.man[p] # None /\ Now.man[p].review = None}

PreviewBuild ==
    /\ Previews /\ Unbuilt # {}
    /\ LET p == IF "task" \in Unbuilt THEN "task" ELSE "customer" IN
       CanBuild(p) /\ SetNow(Built(Now, p))
    /\ UNCHANGED <<case, owner, slow>>

PreviewReview ==
    /\ Previews /\ Unbuilt = {}
    /\ \E p \in Unreviewed :
         /\ \A q \in Unreviewed : Position(p) <= Position(q)
         /\ \E row \in Reviews(Now, p) : SetNow([row EXCEPT !.status = "planned"])
    /\ UNCHANGED <<case, owner, slow>>

-----------------------------------------------------------------------------
(* deliver: one phase of the current generation.                           *)

(* A phase without a manifest is built now, a report is not; the audit     *)
(* needs the receipt of the customer phase, which is behind by then.       *)
Deliver(r) ==
    /\ journal # <<>> /\ Now.status \notin {"committed", "unknown"}
    /\ LET p == PHASES[Now.index + 1]
           new == Now.man[p] = None IN
       /\ new => p \notin Reports /\ CanBuild(p)
       /\ journal' = IF new THEN [journal EXCEPT ![Len(journal)] = Built(Now, p)] ELSE journal
       /\ On(r, "idle") /\ owner = None /\ owner' = r
       /\ slow' = [slow EXCEPT ![r] = [Idle EXCEPT !.pc = "stage", !.conn = TRUE,
                      !.gen = Len(journal), !.phase = p,
                      !.state = IF new THEN "planned" ELSE Now.status]]
    /\ UNCHANGED case

(* Notices and files must be what was sealed; an old report is not begun.  *)
(* The review is made once for a manifest and kept.                        *)
Review(r) ==
    /\ On(r, "stage") /\ slow[r].conn
    /\ LET p == slow[r].phase IN
       /\ ~(p \in Reports /\ slow[r].state = "planned" /\ ~Row(r).man[p].shown)
       /\ IF Row(r).man[p].review # None THEN UNCHANGED journal
          ELSE \E row \in Reviews(Row(r), p) : SetRow(r, row)
       /\ slow' = [slow EXCEPT ![r].pc = "choose", ![r].ver = Row(r).man[p].ver]
    /\ UNCHANGED <<case, owner>>

Pass(row, p, prior) ==
    [row EXCEPT !.index = @ + 1, !.man[p] = None,
                !.reused = IF prior = {} THEN @ ELSE [at |-> Position(p), by |-> prior],
                !.status = IF row.index + 1 = Len(PHASES) THEN "committed" ELSE "planned"]

(* A prior delivery stands for an ordinary first generation that is still  *)
(* planned; a receipt that does not bind leaves the phase in doubt.        *)
Reuse(r) ==
    /\ On(r, "choose") /\ slow[r].conn
    /\ LET e == Row(r).man[slow[r].phase].review.match IN
       /\ e # None /\ slow[r].gen = 1 /\ slow[r].state = "planned"
       /\ SetRow(r, IF Accepts(e) THEN Pass(Row(r), slow[r].phase, {e})
                    ELSE [Row(r) EXCEPT !.status = "unknown"])
       /\ Quit(r)
    /\ UNCHANGED case

(* An exception of a run that lost its connection reaches no journal.      *)
Raise(r, status) ==
    slow' = [slow EXCEPT ![r] = IF @.conn THEN [@ EXCEPT !.pc = "raised", !.then = status] ELSE Idle]

(* A phase that was being sent is never sent again: every part of it must  *)
(* have been accepted before the normal entry is taken (recover_receipt).  *)
Send(r) ==
    /\ On(r, "choose") /\ slow[r].conn
    /\ ~(Row(r).man[slow[r].phase].review.match # None /\ slow[r].gen = 1
         /\ slow[r].state = "planned")
    /\ SetRow(r, [Row(r) EXCEPT !.status = "sending"])
    /\ IF slow[r].state = "sending" /\ Case(r).done # Parts THEN Raise(r, "unknown")
       ELSE slow' = [slow EXCEPT ![r].pc = "case", ![r].state = "none"]
    /\ UNCHANGED <<case, owner>>

-----------------------------------------------------------------------------
(* The case: deliver_batch.                                                *)

Release(r, then) == slow' = [slow EXCEPT ![r].pc = "release", ![r].then = then]
Bound(r) == SetCase(r, [Case(r) EXCEPT !.lock = TRUE, !.bound = slow[r].ver])
Onward(r) == IF Case(r).done = Parts THEN Release(r, "receipt")
             ELSE IF Case(r).prog = "doubt" THEN Release(r, "unknown")
             ELSE Step(r, "attempt")

(* The lock file of the case; then the binding, which is written before    *)
(* the first attempt and never replaced: a case whose content has changed  *)
(* since is refused, and any other may be.                                 *)
BindCase(r) ==
    /\ On(r, "case")
    /\ \/ Raise(r, "unknown") /\ UNCHANGED case
       \/ ~Case(r).lock /\ Case(r).bound \in {0, slow[r].ver} /\ Bound(r) /\ Onward(r)
    /\ UNCHANGED <<journal, owner>>

AttemptPart(r) ==
    /\ On(r, "attempt")
    /\ SetCase(r, [Case(r) EXCEPT !.prog = "doubt"])
    /\ Step(r, "answer")
    /\ UNCHANGED <<journal, owner>>

(* One part is accepted, refused, or its answer never comes and it may     *)
(* have been accepted or not.  "sends" is a history variable.              *)
Answer(r) ==
    /\ On(r, "answer")
    /\ LET sent == Append(Case(r).sends, Case(r).bound) IN
       \/ /\ SetCase(r, [Case(r) EXCEPT !.prog = "accepted", !.done = @ + 1, !.sends = sent])
          /\ IF Case(r).done + 1 = Parts THEN Release(r, "receipt") ELSE Step(r, "attempt")
       \/ SetCase(r, [Case(r) EXCEPT !.prog = "failed"]) /\ Release(r, "failed")
       \/ \E s \in {sent, Case(r).sends} :
              SetCase(r, [Case(r) EXCEPT !.sends = s]) /\ Release(r, "unknown")
    /\ UNCHANGED <<journal, owner>>

UnlockCase(r) ==
    /\ On(r, "release")
    /\ SetCase(r, [Case(r) EXCEPT !.lock = FALSE])
    /\ IF slow[r].conn THEN Step(r, IF slow[r].then = "receipt" THEN "receipt" ELSE "raised")
                          /\ UNCHANGED owner
       ELSE Quit(r)
    /\ UNCHANGED journal

Raised(r) ==
    /\ On(r, "raised") /\ slow[r].conn
    /\ SetRow(r, [Row(r) EXCEPT !.status = slow[r].then])
    /\ Quit(r)
    /\ UNCHANGED case

(* The receipt must bind to the manifest of the phase by the progress file *)
(* of the case; then the phase is behind.                                  *)
TakeReceipt(r) ==
    /\ On(r, "receipt") /\ slow[r].conn
    /\ LET c == Case(r)
           p == slow[r].phase
           e == [accepted |-> TRUE, bound |-> TRUE, ofManifest |-> TRUE, path |-> TRUE,
                 rebound |-> FALSE, parts |-> c.done = Parts, context |-> TRUE,
                 signature |-> TRUE, content |-> c.bound = slow[r].ver, sealed |-> TRUE] IN
       SetRow(r, IF Accepts(e) THEN Pass(Row(r), p, {}) ELSE [Row(r) EXCEPT !.status = "unknown"])
    /\ Quit(r)
    /\ UNCHANGED case

-----------------------------------------------------------------------------
(* A process dies; a connection breaks under a run that is busy sending    *)
(* (elsewhere the run ends with it); an hour passes.                       *)
SlowDies(r) ==
    /\ ~On(r, "idle")
    /\ Quit(r)
    /\ UNCHANGED <<journal, case>>

LosesDatabase(r) ==
    /\ slow[r].conn
    /\ slow[r].pc \in {"case", "attempt", "answer", "release"}
    /\ slow' = [slow EXCEPT ![r].conn = FALSE]
    /\ owner' = IF owner = r THEN None ELSE owner
    /\ UNCHANGED <<journal, case>>

Hour ==
    /\ journal # <<>>
    /\ SetNow([Now EXCEPT !.man = [p \in Phases |->
          IF @[p] = None \/ p \notin Reports THEN @[p] ELSE [@[p] EXCEPT !.shown = FALSE]]])
    /\ UNCHANGED <<case, owner, slow>>

SlowNext ==
    \/ \E r \in Runs :
        \/ OpenWeek(r) \/ Refresh(r) \/ Continue(r) \/ BuildReport(r)
        \/ Deliver(r) \/ Review(r) \/ Reuse(r) \/ Send(r)
        \/ BindCase(r) \/ AttemptPart(r) \/ Answer(r) \/ UnlockCase(r)
        \/ Raised(r) \/ TakeReceipt(r) \/ SlowDies(r) \/ LosesDatabase(r)
    \/ PreviewBuild \/ PreviewReview \/ Hour

SlowSpec == SlowInit /\ [][SlowNext]_slowVars

-----------------------------------------------------------------------------
Standings == {"planned", "sending", "unknown", "failed", "committed"}
Generations ==
    [status : Standings, index : 0..Len(PHASES), man : [Phases -> Manifests \cup {None}],
     builds : [Phases -> 0..MaxBuilds], reused : [at : 0..Len(PHASES), by : SUBSET Found]]
Cases == [prog : {"none", "doubt", "failed", "accepted"}, bound : 0..MaxBuilds,
          done : 0..Parts, lock : BOOLEAN, sends : Seq(1..MaxBuilds)]
States == [pc : {"idle", "reports", "stage", "choose", "case", "attempt", "answer", "release",
                 "raised", "receipt"},
           conn : BOOLEAN, gen : 0..MaxGenerations, phase : Phases \cup {None},
           state : Standings \cup {"none"}, ver : 0..MaxBuilds,
           then : {"none", "receipt", "failed", "unknown"}]

(* Every state is well typed, and the database knows who holds its lock.   *)
SlowTypeOK ==
    /\ journal \in Seq(Generations) /\ Len(journal) <= MaxGenerations
    /\ case \in [1..MaxGenerations -> [Phases -> Cases]]
    /\ owner \in Runs \cup {None}
    /\ slow \in [Runs -> States]
    /\ \A r \in Runs : slow[r].conn <=> owner = r

(* The live cycle keeps the promise of StageLedger: the phases of a        *)
(* generation one after the other, one content for each, told part by part *)
(* and never again, and left behind only when all of it was told or the    *)
(* same content had verifiably been accepted before; another generation    *)
(* only when all of them are behind.                                       *)
Behind == IF journal = <<>> THEN 0 ELSE Now.index
Told == [i \in DOMAIN PHASES |->
            IF journal = <<>> THEN <<>> ELSE case[Len(journal)][PHASES[i]].sends]
ToldBefore(e) == e.accepted /\ e.parts /\ e.content /\ e.path /\ ~e.rebound
Covered == IF journal # <<>> /\ \E e \in Now.reused.by : ToldBefore(e) THEN Now.reused.at ELSE 0
Stages ==
    INSTANCE StageLedger WITH
        Count <- Len(PHASES),
        Whole <- Parts,
        Contents <- 1..MaxBuilds,
        open <- Len(journal),
        behind <- Behind,
        told <- Told,
        covered <- Covered
KeepsStages == Stages!Spec
=============================================================================
