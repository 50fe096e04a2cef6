------------------------------ MODULE LivePrice ------------------------------
(* The live price cycle of one side: workflow_live_prices.run on the       *)
(* journal and the delivery steps of workflow_cycle and the batches of     *)
(* acceptance_delivery.deliver_batch, with workflow_price_continuity as    *)
(* the rule that says what an observation changes.                         *)
(*                                                                         *)
(* A run holds a lock of the database, which the server frees when the     *)
(* connection of the run is gone, whether or not the process is; a batch   *)
(* is sent under a lock file, which nothing frees when the process dies.   *)
(* The components of one batch are those of Delivery; here a batch is sent *)
(* as one, and the refusals of the transport are one refusal.              *)
EXTENDS LiveRuns, Integers, FiniteSets, Sequences, SequencesExt

CONSTANTS Keys,         \* products of the price list
          Prices,
          Absent,       \* a key with no row: in a list or an observation
          Unpriced,     \* a reference that has no known price
          Bad,          \* a current row that cannot be compared
          Observations, \* what the source may show: rows, and whether each of
                        \* them could be given its key
          Legacy,       \* the list the reference is first copied from
          MaxCycles     \* bound: entries of the journal

Lists == [Keys -> Prices \cup {Absent, Unpriced}]
Observed == [Keys -> Prices \cup {Absent, Bad}]

ASSUME LivePriceAssumption ==
    /\ IsFiniteSet(Keys)
    /\ Legacy \in Lists
    /\ Observations \subseteq [rows : Observed, keyed : BOOLEAN]
    /\ MaxCycles \in Nat
    /\ Prices \cap {Absent, Unpriced, Bad} = {}
    /\ None \notin Lists \cup Runs
    /\ None \notin [before : Lists, after : Lists, parts : SUBSET (1..Cardinality(Keys))]

VARIABLES base,         \* <side>_snapshot; None before the origin is copied
          cycles,       \* the journal: entries in the order they were made
          batch,        \* per cycle and batch: progress, lock file, receipts
          holder,       \* the run whose connection holds the cycle lock
          run           \* per run: where it is and what it keeps in memory
vars == <<base, cycles, batch, holder, run>>

CycleIds == 1..MaxCycles
BatchIds == 1..Cardinality(Keys)
Home == [pc |-> "home", conn |-> FALSE, send |-> FALSE, cyc |-> 0,
         state |-> "none", bat |-> 0, sentone |-> FALSE, then |-> "none"]
Fresh == [prog |-> "none", lock |-> FALSE, sent |-> 0]

Init ==
    /\ base = None
    /\ cycles = <<>>
    /\ batch = [c \in CycleIds |-> [b \in BatchIds |-> Fresh]]
    /\ holder = None
    /\ run = [r \in Runs |-> Home]

Pending == {c \in DOMAIN cycles : cycles[c].status \notin {"committed", "blocked"}}

-----------------------------------------------------------------------------
(* What an observation changes, key by key: continuity.plan.               *)

(* A missing key is dropped only when every current row could be keyed; a  *)
(* row that cannot be compared leaves the reference as it was.             *)
After(before, seen, keyed) ==
    [k \in Keys |-> IF seen[k] = Bad \/ (seen[k] = Absent /\ ~keyed)
                    THEN before[k] ELSE seen[k]]

(* Mutant of Changed: a key that comes back is announced as changed.       *)
ChangedOrNew(before, seen) == {k \in Keys : seen[k] \in Prices /\ seen[k] # before[k]}

(* A key is worth a notice when both prices are known and differ.          *)
Changed(before, seen) ==
    {k \in Keys : before[k] \in Prices /\ seen[k] \in Prices /\ before[k] # seen[k]}

-----------------------------------------------------------------------------
At(r, p) == run[r].pc = p
Goto(r, p) == run' = [run EXCEPT ![r].pc = p]
Cyc(r) == cycles[run[r].cyc]
Bat(r) == batch[run[r].cyc][run[r].bat]
SetBat(r, v) == batch' = [batch EXCEPT ![run[r].cyc][run[r].bat] = v]
SetCyc(r, v) == cycles' = [cycles EXCEPT ![run[r].cyc] = v]
Mark(r, status) == SetCyc(r, [Cyc(r) EXCEPT !.status = status])

(* The finally of the lock: the run ends and its connection with it.       *)
Leave(r) ==
    /\ run' = [run EXCEPT ![r] = Home]
    /\ holder' = IF holder = r THEN None ELSE holder

(* GET_LOCK with no wait: a run that finds it taken leaves at once.        *)
Enter(r) ==
    /\ At(r, "home")
    /\ holder = None
    /\ holder' = r
    /\ \E send \in BOOLEAN :
           run' = [run EXCEPT ![r] = [Home EXCEPT !.pc = "look", !.conn = TRUE, !.send = send]]
    /\ UNCHANGED <<base, cycles, batch>>

(* Goes on with the pending cycle; without one only an observing run does  *)
(* more, and that once an hour unless it is started by hand: whether the   *)
(* hour has its entry is left open when there are entries.                 *)
Look(r) ==
    /\ At(r, "look") /\ run[r].conn
    /\ IF Pending # {}
       THEN \/ /\ Cardinality(Pending) > 1 \/ \E c \in Pending : cycles[c].status = "unknown"
               /\ Leave(r)
            \/ \E c \in Pending :
               /\ Pending = {c} /\ cycles[c].status # "unknown"
               /\ run' = [run EXCEPT ![r].pc = "gate", ![r].cyc = c,
                                     ![r].state = cycles[c].status]
               /\ UNCHANGED holder
       ELSE \/ (run[r].send \/ cycles # <<>>) /\ Leave(r)
            \/ ~run[r].send /\ Goto(r, "observe") /\ UNCHANGED holder
    /\ UNCHANGED <<base, cycles, batch>>

(* The reference is copied from the legacy list the first time, with its   *)
(* origin entry and in one transaction.                                    *)
CopyOrigin(r) ==
    /\ At(r, "observe") /\ run[r].conn
    /\ base = None
    /\ base' = Legacy
    /\ UNCHANGED <<cycles, batch, holder, run>>

Entry(status, after, notices) ==
    [status |-> status, before |-> base, after |-> after,
     notices |-> notices, receipts |-> {}, active |-> 0]

(* A failed observation is journalled too: it uses up its hour.            *)
Blocked(r) ==
    /\ At(r, "observe") /\ run[r].conn
    /\ Len(cycles) < MaxCycles
    /\ cycles' = Append(cycles, Entry("blocked", base, <<>>))
    /\ Leave(r)
    /\ UNCHANGED <<base, batch>>

(* A complete observation is sealed with its notices before anything else. *)
Planned(r) ==
    /\ At(r, "observe") /\ run[r].conn
    /\ base # None
    /\ Len(cycles) < MaxCycles
    /\ \E o \in Observations :
        /\ \E k \in Keys : o.rows[k] # Absent
        /\ cycles' = Append(cycles, Entry("planned", After(base, o.rows, o.keyed),
                                          SetToSeq(Changed(base, o.rows))))
    /\ run' = [run EXCEPT ![r].pc = "gate", ![r].cyc = Len(cycles) + 1,
                          ![r].state = "planned"]
    /\ UNCHANGED <<base, batch, holder>>

(* Without leave to send, notices stay prepared; their files are compared  *)
(* with the sealed digests, and the reference with the one compared with.  *)
Gate(r) ==
    /\ At(r, "gate")
    /\ \/ Cyc(r).notices # <<>> /\ Leave(r)
       \/ base # Cyc(r).before /\ Leave(r)
       \/ /\ Cyc(r).notices # <<>> => run[r].send
          /\ base = Cyc(r).before
          /\ Goto(r, IF run[r].state = "delivered" THEN "commit"
                     ELSE IF Cyc(r).notices = <<>> THEN "delivered"
                     ELSE IF run[r].state = "sending" THEN "batches" ELSE "sending")
          /\ UNCHANGED holder
    /\ UNCHANGED <<base, cycles, batch>>

Sending(r) ==
    /\ At(r, "sending") /\ run[r].conn
    /\ Mark(r, "sending")
    /\ Goto(r, "batches")
    /\ UNCHANGED <<base, batch, holder>>

Left(r) == {b \in DOMAIN Cyc(r).notices : b \notin Cyc(r).receipts}

(* The next batch without a receipt is marked as the active one before it  *)
(* is sent; one that was active already when the run began is recovered.   *)
NextBatch(r) ==
    /\ At(r, "batches") /\ run[r].conn
    /\ Left(r) # {} /\ ~run[r].sentone
    /\ \E b \in Left(r) :
        /\ \A a \in Left(r) : b <= a
        /\ SetCyc(r, [Cyc(r) EXCEPT !.status = "sending", !.active = b])
        /\ run' = [run EXCEPT ![r].bat = b,
                      ![r].pc = IF run[r].state = "sending" /\ Cyc(r).active = b
                                THEN "recover" ELSE "deliver"]
    /\ UNCHANGED <<base, batch, holder>>

(* One batch per invocation: the rest is left for the next one.            *)
Deferred(r) ==
    /\ At(r, "batches") /\ run[r].conn
    /\ Left(r) # {} /\ run[r].sentone
    /\ Mark(r, "planned")
    /\ Leave(r)
    /\ UNCHANGED <<base, batch>>

Sent(r) ==
    /\ At(r, "batches") /\ Left(r) = {}
    /\ Goto(r, "delivered")
    /\ UNCHANGED <<base, cycles, batch, holder>>

-----------------------------------------------------------------------------
(* One batch: recover_receipt and deliver_batch.                           *)

Fail(r, status) == run' = [run EXCEPT ![r].pc = "failed", ![r].then = status]

(* An interrupted batch is never sent again: every component must have     *)
(* been accepted before the normal entry is taken.                         *)
Recover(r) ==
    /\ At(r, "recover")
    /\ IF Bat(r).prog = "accepted" THEN Goto(r, "deliver") ELSE Fail(r, "unknown")
    /\ UNCHANGED <<base, cycles, batch, holder>>

(* The lock file of the case.                                              *)
TakeCase(r) ==
    /\ At(r, "deliver")
    /\ IF Bat(r).lock
       THEN Fail(r, "unknown") /\ UNCHANGED batch
       ELSE SetBat(r, [Bat(r) EXCEPT !.lock = TRUE]) /\ Goto(r, "bind")
    /\ UNCHANGED <<base, cycles, holder>>

(* The binding is written before the first attempt.  A batch in doubt is   *)
(* refused; so may be any other, by configuration, fence or upload.        *)
Bind(r) ==
    /\ At(r, "bind")
    /\ \/ /\ SetBat(r, [Bat(r) EXCEPT !.prog = IF @ = "none" THEN "bound" ELSE @])
          /\ run' = [run EXCEPT ![r].pc = IF Bat(r).prog = "doubt" THEN "release"
                                          ELSE IF Bat(r).prog = "accepted" THEN "release"
                                          ELSE "attempt",
                                ![r].then = IF Bat(r).prog = "accepted" THEN "receipt"
                                            ELSE "unknown"]
       \/ run' = [run EXCEPT ![r].pc = "release", ![r].then = "unknown"] /\ UNCHANGED batch
    /\ UNCHANGED <<base, cycles, holder>>

Attempt(r) ==
    /\ At(r, "attempt")
    /\ \/ /\ SetBat(r, [Bat(r) EXCEPT !.prog = "doubt"])
          /\ run' = [run EXCEPT ![r].pc = "answer"]
       \/ run' = [run EXCEPT ![r].pc = "release", ![r].then = "unknown"] /\ UNCHANGED batch
    /\ UNCHANGED <<base, cycles, holder>>

(* Mutant of Answered: an answer that never came counts as a failure.      *)
AnsweredFailed(r) ==
    /\ At(r, "answer")
    /\ \E p \in {"accepted", "failed", "doubt"} : \E n \in 0..1 :
        /\ p = "accepted" => n = 1
        /\ p = "failed" => n = 0
        /\ SetBat(r, [Bat(r) EXCEPT !.prog = IF p = "doubt" THEN "failed" ELSE p,
                                    !.sent = @ + n])
        /\ run' = [run EXCEPT ![r].pc = "release",
                              ![r].then = IF p = "accepted" THEN "receipt" ELSE "failed"]
    /\ UNCHANGED <<base, cycles, holder>>

(* The provider accepted, refused, or the answer never came and it may     *)
(* have done either.                                                       *)
Answered(r) ==
    /\ At(r, "answer")
    /\ \E p \in {"accepted", "failed", "doubt"} : \E n \in 0..1 :
        /\ p = "accepted" => n = 1
        /\ p = "failed" => n = 0
        /\ SetBat(r, [Bat(r) EXCEPT !.prog = p, !.sent = @ + n])
        /\ run' = [run EXCEPT ![r].pc = "release",
                              ![r].then = CASE p = "accepted" -> "receipt"
                                            [] p = "failed" -> "failed"
                                            [] p = "doubt" -> "unknown"]
    /\ UNCHANGED <<base, cycles, holder>>

ReleaseCase(r) ==
    /\ At(r, "release")
    /\ SetBat(r, [Bat(r) EXCEPT !.lock = FALSE])
    /\ Goto(r, IF run[r].then = "receipt" THEN "receipt" ELSE "failed")
    /\ UNCHANGED <<base, cycles, holder>>

-----------------------------------------------------------------------------
(* The journal after a batch.                                              *)

Receipt(r) ==
    /\ At(r, "receipt") /\ run[r].conn
    /\ SetCyc(r, [Cyc(r) EXCEPT !.status = "planned", !.receipts = @ \cup {run[r].bat}])
    /\ run' = [run EXCEPT ![r].pc = "batches", ![r].sentone = TRUE, ![r].state = "planned"]
    /\ UNCHANGED <<base, batch, holder>>

Failed(r) ==
    /\ At(r, "failed") /\ run[r].conn
    /\ Mark(r, run[r].then)
    /\ Leave(r)
    /\ UNCHANGED <<base, batch>>

Delivered(r) ==
    /\ At(r, "delivered") /\ run[r].conn
    /\ Mark(r, "delivered")
    /\ Goto(r, "commit")
    /\ UNCHANGED <<base, batch, holder>>

(* The reference and the journal entry change in one transaction.          *)
Commit(r) ==
    /\ At(r, "commit") /\ run[r].conn
    /\ base' = Cyc(r).after
    /\ Mark(r, "committed")
    /\ Leave(r)
    /\ UNCHANGED batch

-----------------------------------------------------------------------------
(* The process dies: its connection and with it the cycle lock are gone,   *)
(* the lock file of a case stays.                                          *)
Die(r) ==
    /\ ~At(r, "home")
    /\ Leave(r)
    /\ UNCHANGED <<base, cycles, batch>>

(* The connection breaks under a run that is busy elsewhere; the run goes  *)
(* on until it needs the database again.                                   *)
Disconnect(r) ==
    /\ run[r].conn
    /\ run' = [run EXCEPT ![r].conn = FALSE]
    /\ holder' = IF holder = r THEN None ELSE holder
    /\ UNCHANGED <<base, cycles, batch>>

Next ==
    \E r \in Runs :
        \/ Enter(r) \/ Look(r) \/ CopyOrigin(r) \/ Blocked(r) \/ Planned(r) \/ Gate(r)
        \/ Sending(r) \/ NextBatch(r) \/ Deferred(r) \/ Sent(r)
        \/ Recover(r) \/ TakeCase(r) \/ Bind(r) \/ Attempt(r) \/ Answered(r) \/ ReleaseCase(r)
        \/ Receipt(r) \/ Failed(r) \/ Delivered(r) \/ Commit(r)
        \/ Die(r) \/ Disconnect(r)

Spec == Init /\ [][Next]_vars

-----------------------------------------------------------------------------
Statuses == {"blocked", "planned", "sending", "failed", "unknown", "delivered", "committed"}
Cycles == [status : Statuses, before : Lists \cup {None}, after : Lists \cup {None},
           notices : Seq(Keys), receipts : SUBSET BatchIds, active : BatchIds \cup {0}]
Batches == [prog : {"none", "bound", "doubt", "failed", "accepted"}, lock : BOOLEAN, sent : Nat]
PCs == {"home", "look", "observe", "gate", "sending", "batches", "recover", "deliver", "bind",
        "attempt", "answer", "release", "receipt", "failed", "delivered", "commit"}
Processes == [pc : PCs, conn : BOOLEAN, send : BOOLEAN, cyc : 0..MaxCycles,
              state : Statuses \cup {"none"}, bat : BatchIds \cup {0}, sentone : BOOLEAN,
              then : {"none", "receipt", "failed", "unknown"}]

TypeOK ==
    /\ base \in Lists \cup {None}
    /\ cycles \in Seq(Cycles) /\ Len(cycles) <= MaxCycles
    /\ batch \in [CycleIds -> [BatchIds -> Batches]]
    /\ holder \in Runs \cup {None}
    /\ run \in [Runs -> Processes]
    /\ \A r \in Runs : run[r].conn <=> holder = r

(* Whoever dies or loses the database where, a cycle that waits for its    *)
(* delivery is alone: no second one is opened on the same reference.       *)
OnePending == Cardinality(Pending) <= 1

(* What the reference gained or lost at a commit was told, and nothing     *)
(* else: the keys whose price moved from one known value to another are    *)
(* the keys of the notices of that cycle, each of them accepted once.      *)
ChangesTold ==
    [][(base # None /\ base' # base) =>
        \E c \in DOMAIN cycles :
            /\ cycles[c].status # "committed" /\ cycles'[c].status = "committed"
            /\ ToSet(cycles[c].notices) =
                   {k \in Keys : {base[k], base'[k]} \subseteq Prices /\ base[k] # base'[k]}
            /\ \A b \in DOMAIN cycles[c].notices : batch[c][b].sent = 1]_vars

(* The live cycle keeps the promise of PriceLedger, as the engine of Price *)
(* does: one announcement at a time, every batch accepted exactly once,    *)
(* then the reference moves.  Only one cycle waits for its delivery.       *)
Open == IF Pending = {} THEN 0 ELSE CHOOSE c \in Pending : TRUE
Ledger ==
    INSTANCE PriceLedger WITH
        Accounts <- BatchIds,
        Initial <- Legacy,
        ref <- IF base = None THEN Legacy ELSE base,
        open <- IF Open = 0 THEN None
                ELSE [before |-> cycles[Open].before, after |-> cycles[Open].after,
                      parts |-> DOMAIN cycles[Open].notices],
        told <- [b \in BatchIds |-> IF Open = 0 THEN 0 ELSE batch[Open][b].sent]
KeepsLedger == Ledger!Spec /\ []OnePending
=============================================================================
