------------------------------ MODULE QueryCall ------------------------------
(* Calls of datasage_query and datasage_entity_resolve in tools.py: slots   *)
(* of the process, slots leased for the worker threads of one call, the    *)
(* physical branches a call expands to, the snapshot groups of linked      *)
(* branches, and the one deadline of a call that every stage compares with *)
(* the clock.                                                              *)
(*                                                                         *)
(* Public request p of a call has the physical branch 2p, and 2p-1 when it *)
(* is a complete decomposition, whose overall query that branch is.  A     *)
(* statement behaves as Statements promises: it may fail at any time and   *)
(* returns rows only before the deadline.                                  *)
EXTENDS Integers, FiniteSets, Sequences

CONSTANTS Calls,        \* concurrent calls
          Plans,        \* what the calls may ask together: functions from the
                        \* calls to sequences of request kinds, None for no call
          Capacity,     \* max_concurrent_queries
          Budget,       \* PHYSICAL_EXECUTION_BUDGET
          Servers,      \* database identities the address may lead to
          None

ASSUME QueryCallAssumption ==
    /\ Plans \subseteq [Calls -> {None} \cup Seq(STRING)]
    /\ Capacity \in Nat \ {0}
    /\ IsFiniteSet(Servers)
    /\ None \notin Servers /\ "failed" \notin Servers \cup {None}

VARIABLES active,       \* _ACTIVE_QUERY_CALLS
          held,         \* slots each call accounts for: its own and leased
          pc,           \* stage of each call
          plan,         \* the requests of each call
          late,         \* the call's deadline has passed
          br,           \* physical branches of each call
          cache,        \* resolution_cache: None, a server, or "failed"
          snap,         \* the open snapshot of a linked group
          recon,        \* branches with an authorized reconciliation
          reply,        \* what the caller got
          server        \* where a new connection leads

vars == <<active, held, pc, plan, late, br, cache, snap, recon, reply, server>>

Public(c) == DOMAIN plan[c]
Ended == {"success", "failed", "raised"}
NoSnap == [root |-> 0, src |-> None, poisoned |-> FALSE]
NoReply == [kind |-> "none", ok |-> {}, recon |-> {}]

-----------------------------------------------------------------------------
(* Planning: _allocate_public_request_branches admits the requests in      *)
(* order while the budget lasts, and a decomposition costs two; the        *)
(* _expand_complete_* functions give it its overall query.                 *)
Cost(kind) == IF kind = "decompose" THEN 2 ELSE 1

Admitted(pl) ==
    LET takes(p, left) == pl[p] # "invalid" /\ Cost(pl[p]) <= left
        left[n \in 0..Len(pl)] ==       \* of the budget after n requests
            IF n = 0 THEN Budget
            ELSE IF takes(n, left[n - 1]) THEN left[n - 1] - Cost(pl[n]) ELSE left[n - 1]
    IN {p \in DOMAIN pl : takes(p, left[p - 1])}

Physical(pl) ==
    {2 * p : p \in Admitted(pl)}
        \cup {2 * p - 1 : p \in {q \in Admitted(pl) : pl[q] = "decompose"}}

(* The branch a partition names as its overall one; 0 for no link.  A      *)
(* manual partition names the first other request of its call.             *)
Link(pl, b) ==
    IF b % 2 = 1 THEN 0
    ELSE CASE pl[b \div 2] = "decompose" -> b - 1
           [] pl[b \div 2] = "part" -> IF b = 2 THEN 4 ELSE 2
           [] OTHER -> 0

Linked(pl) == \E b \in Physical(pl) : Link(pl, b) # 0

(* A partition is grouped with its overall branch when that branch exists  *)
(* and is no partition itself.                                             *)
Grouped(pl, b) == Link(pl, b) \in Physical(pl) /\ Link(pl, Link(pl, b)) = 0
Root(pl, b) == IF Grouped(pl, b) THEN Link(pl, b) ELSE b
Stray(pl, b) == Link(pl, b) # 0 /\ ~Grouped(pl, b)
Members(pl, r) == {b \in Physical(pl) : Root(pl, b) = r}

(* Roots in order, each followed by its partitions; strays at the end.     *)
Precedes(pl, a, b) ==
    \/ ~Stray(pl, a) /\ Stray(pl, b)
    \/ /\ Stray(pl, a) = Stray(pl, b)
       /\ \/ Root(pl, a) < Root(pl, b)
          \/ /\ Root(pl, a) = Root(pl, b)
             /\ b # Root(pl, b)
             /\ a = Root(pl, a) \/ a < b

(* Branches run in threads of their own only when none is linked and none  *)
(* filters on a metric.                                                    *)
ParallelSafe(pl) ==
    /\ Cardinality(Physical(pl)) > 1
    /\ ~Linked(pl)
    /\ \A b \in Physical(pl) : pl[b \div 2] # "filtered"

-----------------------------------------------------------------------------
Init ==
    /\ active = 0
    /\ held = [c \in Calls |-> 0]
    /\ pc = [c \in Calls |-> "idle"]
    /\ plan \in Plans
    /\ late = [c \in Calls |-> FALSE]
    /\ br = [c \in Calls |-> <<>>]
    /\ cache = [c \in Calls |-> None]
    /\ snap = [c \in Calls |-> NoSnap]
    /\ recon = [c \in Calls |-> {}]
    /\ reply = [c \in Calls |-> NoReply]
    /\ server \in Servers

(* The call leaves through the finally that gives its own slot back.       *)
Answer(c, r) ==
    /\ reply' = [reply EXCEPT ![c] = r]
    /\ pc' = [pc EXCEPT ![c] = "done"]
    /\ active' = active - 1
    /\ held' = [held EXCEPT ![c] = @ - 1]

Refused == [kind |-> "failed", ok |-> {}, recon |-> {}]

(* _deadline_payload: of the results collected so far only those with a    *)
(* fallback, built before the deadline, are published; nothing derived.    *)
DeadlineReply(c, got) ==
    [kind |-> "deadline", recon |-> {},
     ok |-> {p \in Public(c) : 2 * p \in got /\ br[c][2 * p].st = "success"}]

(* datasage_query: no queueing, a call without a slot is refused.          *)
Arrive(c) ==
    /\ pc[c] = "idle"
    /\ plan[c] # None
    /\ IF active < Capacity
       THEN /\ active' = active + 1
            /\ held' = [held EXCEPT ![c] = 1]
            /\ pc' = [pc EXCEPT ![c] = "planning"]
            /\ UNCHANGED reply
       ELSE /\ reply' = [reply EXCEPT ![c] = [Refused EXCEPT !.kind = "limit"]]
            /\ pc' = [pc EXCEPT ![c] = "done"]
            /\ UNCHANGED <<active, held>>
    /\ UNCHANGED <<plan, late, br, cache, snap, recon, server>>

(* An entity resolution: the call with no requests, one bounded lookup.    *)
Resolve(c) ==
    /\ pc[c] = "planning"
    /\ plan[c] = <<>>
    /\ \/ ~late[c] /\ Answer(c, [kind |-> "full", ok |-> {}, recon |-> {}])
       \/ Answer(c, Refused)
    /\ UNCHANGED <<plan, late, br, cache, snap, recon, server>>

Plan(c) ==
    /\ pc[c] = "planning"
    /\ plan[c] # <<>>
    /\ br' = [br EXCEPT ![c] =
           [b \in Physical(plan[c]) |->
               [st |-> "todo", refs |-> {}, entity |-> None, on |-> 0, intime |-> FALSE]]]
    /\ IF late[c]
       THEN Answer(c, DeadlineReply(c, {}))
       ELSE /\ pc' = [pc EXCEPT ![c] = IF Linked(plan[c]) THEN "preparing"
                                       ELSE IF ParallelSafe(plan[c]) THEN "leasing"
                                       ELSE "running"]
            /\ UNCHANGED <<active, held, reply>>
    /\ UNCHANGED <<plan, late, cache, snap, recon, server>>

(* One slot per further branch, as many as are free at this moment.        *)
Lease(c) ==
    /\ pc[c] = "leasing"
    /\ IF held[c] < Cardinality(Physical(plan[c])) /\ active < Capacity
       THEN /\ active' = active + 1
            /\ held' = [held EXCEPT ![c] = @ + 1]
            /\ UNCHANGED pc
       ELSE pc' = [pc EXCEPT ![c] = "running"] /\ UNCHANGED <<active, held>>
    /\ UNCHANGED <<plan, late, br, cache, snap, recon, reply, server>>

-----------------------------------------------------------------------------
(* Branches.                                                               *)
Phys(c) == DOMAIN br[c]
In(c, st) == {b \in Phys(c) : br[c][b].st \in st}
Busy(c) == In(c, {"preparing", "fit", "unfit", "querying", "building"})

(* Mutant of Workers: a thread for every branch, leased or not.            *)
WorkersUnleased(c) == Cardinality(Phys(c))

(* max_workers of the pool; the sequential loop is one worker.             *)
Workers(c) == held[c]

(* A raised branch ends the loop at once; a pool goes on until its         *)
(* consumer, which takes the results in order, meets it.                   *)
Cancelled(c) ==
    \E b \in In(c, {"raised"}) :
        Workers(c) = 1 \/ \A a \in Phys(c) : a < b => br[c][a].st \in Ended

Set(c, b, r) == br' = [br EXCEPT ![c][b] = r]
To(c, b, st) == Set(c, b, [br[c][b] EXCEPT !.st = st])

(* _prepare_one begins: in input order, by a free worker; in the linked    *)
(* path one after the other before anything runs.                          *)
Prepare(c, b) ==
    /\ pc[c] \in {"preparing", "running"}
    /\ b \in In(c, {"todo"})
    /\ \A a \in In(c, {"todo"}) : b <= a
    /\ IF pc[c] = "preparing"
       THEN In(c, {"preparing"}) = {}
       ELSE Cardinality(Busy(c)) < Workers(c) /\ ~Cancelled(c)
    /\ To(c, b, IF late[c] THEN "unfit" ELSE "preparing")
    /\ UNCHANGED <<active, held, pc, plan, late, cache, snap, recon, reply, server>>

(* The request is validated and its entity resolved: not needed, from the  *)
(* cache of the call, or by a lookup.  A failure of the lookup is cached.  *)
Prepared(c, b) ==
    /\ pc[c] \in {"preparing", "running"}
    /\ b \in In(c, {"preparing"})
    /\ \/ To(c, b, "unfit") /\ UNCHANGED cache
       \/ To(c, b, "fit") /\ UNCHANGED cache
       \/ /\ cache[c] \in Servers
          /\ Set(c, b, [br[c][b] EXCEPT !.st = "fit", !.entity = cache[c]])
          /\ UNCHANGED cache
       \/ /\ cache[c] = None /\ ~late[c]
          /\ Set(c, b, [br[c][b] EXCEPT !.st = "fit", !.entity = server,
                                        !.refs = {server}])
          /\ cache' = [cache EXCEPT ![c] = server]
       \/ /\ cache[c] = None
          /\ To(c, b, "unfit")
          /\ cache' = [cache EXCEPT ![c] = "failed"]
    /\ UNCHANGED <<active, held, pc, plan, late, snap, recon, reply, server>>

(* Every entry is prepared: a generated partition whose overall query      *)
(* failed is blocked by the same failure.                                  *)
Block(c) ==
    /\ pc[c] = "preparing"
    /\ In(c, {"todo", "preparing"}) = {}
    /\ br' = [br EXCEPT ![c] = [b \in Phys(c) |->
           IF plan[c][(b + 1) \div 2] = "decompose" /\ b % 2 = 0
                  /\ br[c][b - 1].st = "unfit"
           THEN [br[c][b] EXCEPT !.st = "unfit"] ELSE br[c][b]]]
    /\ pc' = [pc EXCEPT ![c] = "grouping"]
    /\ UNCHANGED <<active, held, plan, late, cache, snap, recon, reply, server>>

(* A linked group runs on one snapshot when each member was prepared.      *)
InSnapshot(c, b) ==
    LET g == Members(plan[c], Root(plan[c], b)) IN
    Cardinality(g) > 1 /\ \A m \in g : br[c][m].st # "unfit"

NextUp(c, b) ==
    /\ b \in In(c, {"fit", "unfit"})
    /\ In(c, {"querying", "building"}) = {}
    /\ In(c, {"raised"}) = {}
    /\ \A a \in In(c, {"fit", "unfit"}) : a = b \/ Precedes(plan[c], b, a)

(* The snapshot of a group is opened, or its failure is the result of      *)
(* every member.                                                           *)
OpenSnapshot(c, b) ==
    /\ pc[c] = "grouping"
    /\ NextUp(c, b)
    /\ InSnapshot(c, b)
    /\ snap[c].root # Root(plan[c], b)
    /\ \/ /\ ~late[c]
          /\ snap' = [snap EXCEPT ![c] = [root |-> Root(plan[c], b), src |-> server,
                                          poisoned |-> FALSE]]
          /\ UNCHANGED br
       \/ /\ br' = [br EXCEPT ![c] = [m \in Phys(c) |->
                 IF m \in Members(plan[c], Root(plan[c], b))
                 THEN [br[c][m] EXCEPT !.st = "failed"] ELSE br[c][m]]]
          /\ UNCHANGED snap
    /\ UNCHANGED <<active, held, pc, plan, late, cache, recon, reply, server>>

(* _run_one up to its statement: the failure of the preparation is kept,   *)
(* whatever the clock says; the deadline and the planning may fail it.     *)
Run(c, b) ==
    LET grouped == pc[c] = "grouping" /\ InSnapshot(c, b) IN
    /\ \/ pc[c] = "running" /\ b \in In(c, {"fit", "unfit"})
       \/ pc[c] = "grouping" /\ NextUp(c, b)
    /\ grouped => snap[c].root = Root(plan[c], b)
    /\ \/ To(c, b, "failed")
       \/ /\ br[c][b].st = "fit" /\ ~late[c]
          /\ Set(c, b, [br[c][b] EXCEPT !.st = "querying",
                                        !.on = IF grouped THEN snap[c].root ELSE 0])
    /\ UNCHANGED <<active, held, pc, plan, late, cache, snap, recon, reply, server>>

(* What a failing member does to its group: the snapshot is poisoned; a    *)
(* failure that escapes _run_one replaces the results of all members.      *)
Fails(c, b, refs) ==
    LET r == [br[c][b] EXCEPT !.refs = refs,
                              !.st = IF Cardinality(refs) > 1 THEN "raised" ELSE "failed"] IN
    IF br[c][b].on = 0
    THEN Set(c, b, r) /\ UNCHANGED snap
    ELSE /\ br' = IF r.st = "failed" THEN [br EXCEPT ![c][b] = r]
                  ELSE [br EXCEPT ![c] = [m \in Phys(c) |->
                           IF m \in Members(plan[c], Root(plan[c], b))
                           THEN [br[c][m] EXCEPT !.st = "failed"] ELSE br[c][m]]]
         /\ snap' = [snap EXCEPT ![c].poisoned = TRUE]

(* The statement ended.  Rows from another database than the branch's      *)
(* lookup fail the branch; a failure that names another database escapes.  *)
Queried(c, b) ==
    LET src == IF br[c][b].on = 0 THEN server ELSE snap[c].src
        refs == br[c][b].refs \cup {src} IN
    /\ b \in In(c, {"querying"})
    /\ \/ /\ ~late[c] /\ ~(br[c][b].on # 0 /\ snap[c].poisoned)
          /\ IF Cardinality(refs) > 1
             THEN To(c, b, "failed")
             ELSE Set(c, b, [br[c][b] EXCEPT !.st = "building", !.refs = refs])
          /\ UNCHANGED snap
       \/ \E known \in {br[c][b].refs, refs} : Fails(c, b, known)
    /\ UNCHANGED <<active, held, pc, plan, late, cache, recon, reply, server>>

(* The rows are validated and the result built, with the fallback a late   *)
(* call would publish; the deadline is checked around both.                *)
Build(c, b) ==
    /\ b \in In(c, {"building"})
    /\ \/ ~late[c] /\ Set(c, b, [br[c][b] EXCEPT !.st = "success", !.intime = ~late[c]])
       \/ To(c, b, "failed")
    /\ UNCHANGED <<active, held, pc, plan, late, cache, snap, recon, reply, server>>

-----------------------------------------------------------------------------
(* The end of a call.                                                      *)

(* Mutant of Over: the groups not yet run are waited for.                  *)
OverAll(c) == Busy(c) = {} /\ (Cancelled(c) \/ In(c, {"todo"}) = {})

(* No thread is at work, and nothing is left to do or it is given up.      *)
Over(c) ==
    \/ Busy(c) = {} /\ (Cancelled(c) \/ In(c, {"todo"}) = {})
    \/ pc[c] = "grouping" /\ In(c, {"raised"}) # {}

(* The pool has ended, its running branches awaited; the leases are given  *)
(* back in a finally.  After a failure that escaped, the loop still has    *)
(* its earlier results, while a pool or a linked call would have taken     *)
(* theirs over all at once.                                                *)
Collect(c) ==
    /\ pc[c] \in {"running", "grouping"}
    /\ Over(c)
    /\ pc' = [pc EXCEPT ![c] = IF In(c, {"raised"}) = {} THEN "authorizing"
                               ELSE IF pc[c] = "running" /\ Workers(c) = 1 THEN "failing"
                               ELSE "aborting"]
    /\ active' = active - (held[c] - 1)
    /\ held' = [held EXCEPT ![c] = 1]
    /\ UNCHANGED <<plan, late, br, cache, snap, recon, reply, server>>

(* Mutant of Reconcilable: two successes are enough.                       *)
ReconcilableAnyhow(c, b) ==
    LET o == Link(plan[c], b) IN
    /\ o \in Phys(c) /\ Link(plan[c], o) = 0
    /\ br[c][b].st = "success" /\ br[c][o].st = "success"

(* What a reconciliation requires of a partition: its overall query is no  *)
(* partition, both succeeded, and both carry the marker of one snapshot.   *)
Reconcilable(c, b) ==
    LET o == Link(plan[c], b) IN
    /\ o \in Phys(c) /\ Link(plan[c], o) = 0
    /\ br[c][b].st = "success" /\ br[c][o].st = "success"
    /\ br[c][b].on # 0 /\ br[c][b].on = br[c][o].on

(* Which of them reconcile is a matter of their figures.                   *)
Authorize(c) ==
    /\ pc[c] = "authorizing"
    /\ IF late[c]
       THEN Answer(c, DeadlineReply(c, Phys(c))) /\ UNCHANGED recon
       ELSE /\ \E s \in SUBSET {b \in Phys(c) : Reconcilable(c, b)} :
                   recon' = [recon EXCEPT ![c] = s]
            /\ pc' = [pc EXCEPT ![c] = "rendering"]
            /\ UNCHANGED <<active, held, reply>>
    /\ UNCHANGED <<plan, late, br, cache, snap, server>>

(* The databases the public results name.                                  *)
Sources(c) == UNION {br[c][2 * p].refs : p \in Admitted(plan[c])}

(* Mutant of Render: the payload is not compared with the clock again.     *)
RenderLate(c) ==
    /\ pc[c] = "rendering"
    /\ IF Cardinality(Sources(c)) > 1
       THEN Answer(c, Refused)
       ELSE Answer(c, [kind |-> "full", recon |-> recon[c],
                       ok |-> {p \in Admitted(plan[c]) : br[c][2 * p].st = "success"}])
    /\ UNCHANGED <<plan, late, br, cache, snap, recon, server>>

(* One result per public request; the sources must agree; and the rendered *)
(* payload is compared with the clock a last time.                         *)
Render(c) ==
    /\ pc[c] = "rendering"
    /\ IF late[c]
       THEN Answer(c, DeadlineReply(c, Phys(c)))
       ELSE IF Cardinality(Sources(c)) > 1
       THEN Answer(c, Refused)
       ELSE Answer(c, [kind |-> "full", recon |-> recon[c],
                       ok |-> {p \in Admitted(plan[c]) : br[c][2 * p].st = "success"}])
    /\ UNCHANGED <<plan, late, br, cache, snap, recon, server>>

(* A failure that escaped a branch fails the call without any result, but  *)
(* for a last look at the clock: a late call publishes what it has.        *)
Escape(c) ==
    /\ pc[c] \in {"failing", "aborting"}
    /\ IF late[c]
       THEN Answer(c, DeadlineReply(c, IF pc[c] = "failing" THEN In(c, Ended) ELSE {}))
       ELSE Answer(c, Refused)
    /\ UNCHANGED <<plan, late, br, cache, snap, recon, server>>

(* Time passes the deadline of a call.                                     *)
Expire(c) ==
    /\ pc[c] \notin {"idle", "done"}
    /\ ~late[c]
    /\ late' = [late EXCEPT ![c] = TRUE]
    /\ UNCHANGED <<active, held, pc, plan, br, cache, snap, recon, reply, server>>

(* The address of the database leads to another server.                    *)
Failover ==
    /\ server' \in Servers \ {server}
    /\ UNCHANGED <<active, held, pc, plan, late, br, cache, snap, recon, reply>>

(* Everything a call does by itself: a statement ends, at the latest when  *)
(* its deadline has passed (Unwinds of Executor, whose exception, a        *)
(* handshake that drips behind a watchdog already spent, is left out).     *)
Step(c) ==
    \/ Resolve(c) \/ Plan(c) \/ Lease(c) \/ Block(c)
    \/ \E b \in Phys(c) :
           Prepare(c, b) \/ Prepared(c, b) \/ OpenSnapshot(c, b) \/ Run(c, b)
               \/ Queried(c, b) \/ Build(c, b)
    \/ Collect(c) \/ Authorize(c) \/ Render(c) \/ Escape(c)

Next ==
    \/ \E c \in Calls : Arrive(c) \/ Step(c) \/ Expire(c)
    \/ Failover

Spec == Init /\ [][Next]_vars

FairSpec == Spec /\ \A c \in Calls : WF_vars(late[c] /\ Step(c)) /\ WF_vars(Expire(c))

-----------------------------------------------------------------------------
Branch == [st : {"todo", "preparing", "fit", "unfit", "querying", "building"} \cup Ended,
           refs : SUBSET Servers, entity : Servers \cup {None}, on : Nat,
           intime : BOOLEAN]

Stages == {"idle", "planning", "leasing", "preparing", "grouping", "running",
           "authorizing", "rendering", "failing", "aborting", "done"}

TypeOK ==
    /\ active \in Nat /\ held \in [Calls -> Nat]
    /\ pc \in [Calls -> Stages]
    /\ plan \in Plans
    /\ late \in [Calls -> BOOLEAN]
    /\ br = [c \in Calls |-> br[c]]
    /\ \A c \in Calls : br[c] = <<>> \/ br[c] \in [Physical(plan[c]) -> Branch]
    /\ cache \in [Calls -> Servers \cup {None, "failed"}]
    /\ snap \in [Calls -> [root : Nat, src : Servers \cup {None}, poisoned : BOOLEAN]]
    /\ recon \in [Calls -> SUBSET Nat]
    /\ reply \in [Calls -> [kind : {"none", "limit", "failed", "deadline", "full"},
                            ok : SUBSET Nat, recon : SUBSET Nat]]
    /\ server \in Servers

(* The slots the calls account for, one by one.                            *)
Slots == UNION {{c} \X (1..held[c]) : c \in Calls}

(* The process never works on more than max_concurrent_queries branches at *)
(* once: every slot belongs to a call in progress, a call has no more      *)
(* threads at work than slots, and a call that ended keeps none.           *)
WithinCapacity ==
    /\ active = Cardinality(Slots)
    /\ active <= Capacity
    /\ \A c \in Calls :
        /\ Cardinality(In(c, {"preparing", "querying", "building"})) <= held[c]
        /\ pc[c] \in {"idle", "done"} => held[c] = 0

(* A complete answer was rendered before the deadline and reports exactly  *)
(* the requests that succeeded; an answer of a late call publishes only    *)
(* results that were finished in time, and no reconciliation.              *)
HonestReply ==
    \A c \in Calls :
        /\ reply[c].kind = "full" =>
            /\ ~late[c]
            /\ reply[c].ok = {p \in Public(c) :
                                  2 * p \in DOMAIN br[c] /\ br[c][2 * p].st = "success"}
        /\ reply[c].kind = "deadline" =>
            /\ late[c] /\ reply[c].recon = {}
            /\ \A p \in reply[c].ok : br[c][2 * p].st = "success" /\ br[c][2 * p].intime
        /\ reply[c].kind \in {"limit", "failed"} => reply[c].ok = {} /\ reply[c].recon = {}

(* A reconciliation is published only of a partition and an overall figure *)
(* that were both read in the same snapshot.                               *)
OneSnapshot ==
    \A c \in Calls : \A b \in reply[c].recon :
        LET o == Link(plan[c], b) IN
        /\ br[c][b].st = "success" /\ br[c][o].st = "success"
        /\ br[c][b].on = Root(plan[c], b) /\ br[c][o].on = Root(plan[c], b)

(* The results of a complete answer come from one database, the one that   *)
(* resolved their entities included.  (Not claimed of a call with a        *)
(* decomposition: see the README.)                                         *)
OneSource ==
    \A c \in Calls :
        reply[c].kind = "full" =>
            LET rows == UNION {br[c][2 * p].refs : p \in reply[c].ok}
                names == {br[c][2 * p].entity : p \in reply[c].ok} \ {None}
                decomposed == \E p \in Public(c) : plan[c][p] = "decompose" IN
            Cardinality(IF decomposed THEN rows ELSE rows \cup names) <= 1

(* What is published together is of one state: a reconciliation of one      *)
(* snapshot, the results of an answer of one database, whatever fails over  *)
(* and whatever runs outside its group.                                     *)
OneState == OneSnapshot /\ OneSource

(* Every call that arrives is answered.                                    *)
CallsEnd == \A c \in Calls : pc[c] # "idle" ~> pc[c] = "done"
=============================================================================
