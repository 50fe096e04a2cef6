--------------------------------- MODULE Idk ---------------------------------
(* The weekly list of materials without a price: idk_runner on the sealed  *)
(* batch of idk_batch and the progress file of workflow_io, one week.      *)
(*                                                                         *)
(* The run lock lets one run in at a time, so there is one run at most;    *)
(* it may die between any two writes (the lock file it leaves is removed   *)
(* by hand before the next run).  A batch becomes visible in one rename,   *)
(* the progress file is replaced in one too.  The list is sealed with the  *)
(* recipients it was made for and cut into parts; the parts of one         *)
(* recipient form a notification.  The transport below (fences, receipts)  *)
(* is the one of Delivery: here a send is accepted, fails, or leaves       *)
(* nothing known.                                                          *)
EXTENDS Integers

CONSTANTS Accounts,     \* the executors of the list
          Lists,        \* what an observation of the source may give
          PartsOf,      \* number of parts of a list; 0 when nothing is due
          MaxParts,     \* the most parts any of them is cut into
          Targets,      \* target maps the operator may configure
          MaxAsked,     \* bound: resends the operator forces
          Nil

Contents == [list : Lists, target : Targets]

ASSUME IdkAssumption ==
    /\ MaxParts \in Nat
    /\ PartsOf \in [Lists -> 0..MaxParts]
    /\ MaxAsked \in Nat
    /\ Nil \notin Contents

VARIABLES batch,        \* the sealed directory of the week, or None
          seal,         \* idk_batch_seal of the progress file, or None
          receipt,        \* components of the progress file
          manifest,     \* notification_manifests of the progress file
          target,       \* the target map the binding now names
          run,          \* the run: where it is and what it keeps in memory;
                        \* its field had is history: what a resend is on top of
          outcome,      \* how the last run ended
          got,          \* history: per item how often a recipient got it,
                        \* and of which sealed content
          asked         \* history: resends that were let through

idkVars == <<batch, seal, receipt, manifest, target, run, outcome, got, asked>>

Items == Accounts \X (1..MaxParts)
Blank == [status |-> "none", of |-> Nil]
NoRun == [pc |-> "idle", force |-> FALSE, content |-> Nil,
         left |-> {}, item |-> Nil, answer |-> "none", bad |-> FALSE,
        had |-> [i \in Items |-> 0]]

(* The components of a content: every part for every account.              *)
Components(c) == Accounts \X (1..PartsOf[c.list])
Of(a, c) == {a} \X (1..PartsOf[c.list])
Known == {i \in Items : receipt[i].status # "none"}
Accepted(i) == receipt[i].status = "accepted"

IdkInit ==
    /\ batch = Nil /\ seal = Nil
    /\ receipt = [i \in Items |-> Blank]
    /\ manifest = [a \in Accounts |-> Nil]
    /\ target \in Targets
    /\ run = NoRun /\ outcome = "none"
    /\ got = [i \in Items |-> [n |-> 0, of |-> {}]]
    /\ asked = 0

-----------------------------------------------------------------------------
Reached(p) == run.pc = p
Go(p) == run' = [run EXCEPT !.pc = p]
End(code) == run' = NoRun /\ outcome' = code
Disk == <<batch, seal, receipt, manifest>>
Seen == <<got, asked>>

(* Mutant of Stored: only a batch the progress file knows is reused.       *)
StoredKnown == batch # Nil /\ seal # Nil

(* IdkBatchStore.exists: the directory decides, not the progress file.     *)
Stored == batch # Nil

(* A run reads the binding, the progress file and the batch, and, when     *)
(* there is none, observes the source.                                     *)
StartRun(send, force) ==
    /\ Reached("idle")
    /\ \/ /\ \E i \in Items : receipt[i].status \in {"in_flight", "unknown"}
          /\ End("review")
       \/ /\ \A i \in Items : receipt[i].status \notin {"in_flight", "unknown"}
          /\ \/ force /\ (~send \/ ~Stored) /\ End("no batch")
             \/ /\ force => send /\ Stored
                /\ Stored
                /\ \/ send /\ batch.target # target /\ End("targets changed")
                   \/ ~send /\ End("prepared")
                   \/ /\ send /\ batch.target = target
                      /\ run' = [NoRun EXCEPT !.pc = "seal", !.force = force, !.content = batch]
                      /\ UNCHANGED outcome
             \/ /\ ~force /\ ~Stored
                /\ \/ Known # {} \/ seal # Nil
                   \/ \E a \in Accounts : manifest[a] # Nil
                /\ End("legacy")
             \/ /\ ~force /\ ~Stored
                /\ Known = {} /\ seal = Nil /\ \A a \in Accounts : manifest[a] = Nil
                /\ \/ ~send /\ End("prepared")
                   \/ /\ send
                      /\ \E l \in Lists :
                             run' = [NoRun EXCEPT !.pc = "prepare",
                                                 !.content = [list |-> l, target |-> target]]
                      /\ UNCHANGED outcome
    /\ UNCHANGED <<Disk, Seen, target>>

(* IdkBatchStore.prepare: the staged directory is renamed into place; one  *)
(* that is already there is kept.                                          *)
Prepare ==
    /\ Reached("prepare")
    /\ batch' = IF batch = Nil THEN run.content ELSE batch
    /\ Go("seal")
    /\ UNCHANGED <<seal, receipt, manifest, target, outcome, Seen>>

(* Mutant of Bind: the seal is not written before the first send.          *)
BindLater ==
    /\ Reached("seal")
    /\ \/ seal \notin {Nil, batch} /\ End("seal changed") /\ UNCHANGED seal
       \/ seal = Nil /\ Known # {} /\ End("receipts unbound") /\ UNCHANGED seal
       \/ seal \in {Nil, batch} /\ (seal = Nil => Known = {}) /\ Go("check")
          /\ UNCHANGED <<seal, outcome>>
    /\ UNCHANGED <<batch, receipt, manifest, target, Seen>>

(* The progress file takes the seal of the batch before any receipt.       *)
Bind ==
    /\ Reached("seal")
    /\ \/ seal \notin {Nil, batch} /\ End("seal changed") /\ UNCHANGED seal
       \/ seal = Nil /\ Known # {} /\ End("receipts unbound") /\ UNCHANGED seal
       \/ /\ seal \in {Nil, batch} /\ (seal = Nil => Known = {})
          /\ seal' = batch
          /\ Go("check")
          /\ UNCHANGED outcome
    /\ UNCHANGED <<batch, receipt, manifest, target, Seen>>

Complete(c) == \A i \in Components(c) : Accepted(i)

(* The receipts were given for other material than this run would send.    *)
Drifted(c) ==
    \/ \E i \in Components(c) : receipt[i].of \notin {Nil, c}
    \/ \E a \in Accounts : manifest[a] \notin {Nil, c}
    \/ Complete(c) /\ \E a \in Accounts : manifest[a] = Nil

(* idk_runner: an empty list sends nothing; a complete one is reported as  *)
(* sent; only a complete one may be sent again.                            *)
CheckList ==
    /\ Reached("check")
    /\ LET c == run.content IN
       \/ /\ PartsOf[c.list] = 0
          /\ End(IF run.force THEN "not resendable" ELSE "empty")
          /\ UNCHANGED asked
       \/ /\ PartsOf[c.list] > 0 /\ Drifted(c)
          /\ End("content changed")
          /\ UNCHANGED asked
       \/ /\ PartsOf[c.list] > 0 /\ ~Drifted(c)
          /\ \/ run.force /\ ~Complete(c) /\ End("incomplete") /\ UNCHANGED asked
             \/ ~run.force /\ Complete(c) /\ End("reused") /\ UNCHANGED asked
             \/ /\ run.force = Complete(c)
                /\ run.force => asked < MaxAsked
                /\ asked' = IF run.force THEN asked + 1 ELSE asked
                /\ run' = [run EXCEPT !.pc = "archive", !.left = Accounts,
                                    !.had = IF run.force THEN [i \in Items |-> got[i].n] ELSE @]
                /\ UNCHANGED outcome
    /\ UNCHANGED <<Disk, target, got>>

(* A new generation of one notification: its receipts move to the history. *)
Reset(a, c) == [i \in Items |-> IF i \in Of(a, c) THEN [Blank EXCEPT !.status = "not_attempted"]
                                                  ELSE receipt[i]]

(* _deliver_notifications, its first loop: the notifications of a forced   *)
(* run are archived one write after the other, before the first send.      *)
Archive ==
    /\ Reached("archive") /\ run.left # {}
    /\ \E a \in run.left :
       /\ run' = [run EXCEPT !.left = @ \ {a}]
       /\ IF run.force
          THEN /\ receipt' = Reset(a, run.content)
               /\ manifest' = [b \in Accounts |-> IF b = a \/ b \notin run.left
                                                  THEN run.content ELSE manifest[b]]
          ELSE UNCHANGED <<receipt, manifest>>
    /\ UNCHANGED <<batch, seal, target, outcome, Seen>>

(* The manifests of all notifications are written, then sending begins.    *)
Manifest ==
    /\ Reached("archive") /\ run.left = {}
    /\ manifest' = [a \in Accounts |-> run.content]
    /\ run' = [run EXCEPT !.pc = "next", !.left = Components(run.content)]
    /\ UNCHANGED <<batch, seal, receipt, target, outcome, Seen>>

(* Mutant of Waiting: a part is sent again whatever its receipt says.      *)
WaitingAll == run.left

(* The items still to be sent; the parts of one account go in order, and   *)
(* an account is finished before the next.                                 *)
Waiting == {i \in run.left : ~Accepted(i)}
Turn(i) ==
    /\ i \in Waiting
    /\ \A j \in Waiting : j[1] = i[1] => i[2] <= j[2]
    /\ run.item # Nil => \/ run.item[1] = i[1]
                          \/ \A j \in Waiting : j[1] # run.item[1]

(* The intention to send is written before the send.                       *)
Post ==
    /\ Reached("next")
    /\ \E i \in Items :
       /\ Turn(i)
       /\ receipt' = [receipt EXCEPT ![i] = [status |-> "in_flight", of |-> run.content]]
       /\ run' = [run EXCEPT !.pc = "send", !.item = i]
    /\ UNCHANGED <<batch, seal, manifest, target, outcome, Seen>>

(* The transport answers: accepted, failed (nothing was delivered), or     *)
(* unknown (an exception, a timeout: the recipient may have got it).       *)
SendPart ==
    /\ Reached("send")
    /\ \E answer \in {"accepted", "failed", "unknown"}, arrived \in BOOLEAN :
       /\ answer = "accepted" => arrived
       /\ answer = "failed" => ~arrived
       /\ run' = [run EXCEPT !.pc = "record", !.answer = answer]
       /\ got' = IF arrived
                 THEN [got EXCEPT ![run.item] = [n |-> @.n + 1, of |-> @.of \cup {run.content}]]
                 ELSE got
    /\ UNCHANGED <<Disk, target, outcome, asked>>

(* Mutant of AfterPart: the failure of one account is forgotten by the next.   *)
AfterPartForget ==
    [run EXCEPT !.pc = "next", !.answer = "none", !.bad = run.answer = "failed",
                !.left = IF run.answer = "failed"
                         THEN {i \in run.left : i[1] # run.item[1]}
                         ELSE run.left \ {run.item}]

(* After a failure the rest of the account waits for another run.          *)
AfterPart ==
    [run EXCEPT !.pc = "next", !.answer = "none", !.bad = @ \/ run.answer = "failed",
                !.left = IF run.answer = "failed"
                         THEN {i \in run.left : i[1] # run.item[1]}
                         ELSE run.left \ {run.item}]

(* The answer is written; an unknown one ends the run at once.             *)
Record ==
    /\ Reached("record")
    /\ receipt' = [receipt EXCEPT ![run.item].status = run.answer]
    /\ \/ run.answer = "unknown" /\ End("unknown")
       \/ run.answer # "unknown" /\ run' = AfterPart /\ UNCHANGED outcome
    /\ UNCHANGED <<batch, seal, manifest, target, Seen>>

Finish ==
    /\ Reached("next") /\ Waiting = {}
    /\ End(IF run.bad THEN "failed" ELSE "delivered")
    /\ UNCHANGED <<Disk, target, Seen>>

(* The process dies, or a check of the transport raises, between writes.   *)
Crash ==
    /\ ~Reached("idle")
    /\ End("crashed")
    /\ UNCHANGED <<Disk, target, Seen>>

(* The operator gives the binding another target map between runs.         *)
Reconfigure ==
    /\ Reached("idle")
    /\ target' \in Targets \ {target}
    /\ UNCHANGED <<Disk, run, outcome, Seen>>

IdkNext ==
    \/ \E send, force \in BOOLEAN : StartRun(send, force)
    \/ Prepare \/ Bind \/ CheckList \/ Archive \/ Manifest
    \/ Post \/ SendPart \/ Record \/ Finish
    \/ Crash \/ Reconfigure

IdkSpec == IdkInit /\ [][IdkNext]_idkVars

-----------------------------------------------------------------------------
(* The kinds of every variable.                                            *)
Marks == {"none", "not_attempted", "in_flight", "accepted", "failed", "unknown"}
Places == {"idle", "prepare", "seal", "check", "archive", "next", "send", "record"}
RunStates ==
    [pc : Places, force : BOOLEAN, content : Contents \cup {Nil},
     left : SUBSET (Items \cup Accounts), item : Items \cup {Nil},
     answer : {"none", "accepted", "failed", "unknown"}, bad : BOOLEAN,
     had : [Items -> Nat]]
IdkTypeOK ==
    /\ batch \in Contents \cup {Nil}
    /\ seal \in Contents \cup {Nil}
    /\ receipt \in [Items -> [status : Marks, of : Contents \cup {Nil}]]
    /\ manifest \in [Accounts -> Contents \cup {Nil}]
    /\ target \in Targets
    /\ run \in RunStates
    /\ run.pc # "idle" => run.content \in Contents
    /\ run.pc = "archive" => run.left \subseteq Accounts
    /\ run.pc = "next" => run.left \subseteq Items
    /\ run.pc \in {"send", "record"} => run.item \in Items /\ run.left \subseteq Items
    /\ run.pc = "record" => run.answer \in {"accepted", "failed", "unknown"}
    /\ got \in [Items -> [n : Nat, of : SUBSET Contents]]
    /\ asked \in 0..MaxAsked

(* The recipients of a week read one list: whatever any of them ever got   *)
(* is the sealed one, for the targets it was sealed with, however often    *)
(* the source, the binding or the process changed in between               *)
(* (idk_runner.py:110, idk_batch.py:151).                                  *)
OneList == \A i \in Items : got[i].of \subseteq {batch}

(* No death between two writes leaves files that a later run refuses: the  *)
(* week can always be taken up again without editing state by hand, unless *)
(* a send is unknown or the targets were changed (idk_runner.py:95, 115).  *)
NoWedge ==
    outcome \notin {"legacy", "seal changed", "receipts unbound", "content changed"}

(* A recipient gets a part once, and once more for each resend an operator *)
(* forced and the code let through (workflow_io.py:244).                   *)
AskedFor == \A i \in Items : got[i].n <= 1 + asked

(* What a run reports is so: when it ends with `delivered' or `reused'     *)
(* every part of the sealed list has its receipt and has reached its       *)
(* account, after a forced resend once more than before it                 *)
(* (idk_runner.py:125-131, workflow_io.py:247-273).                        *)
ReportTrue ==
    [][~Reached("idle") /\ run'.pc = "idle" /\ outcome' \in {"delivered", "reused"} =>
           \A i \in Components(batch) : Accepted(i) /\ got[i].n > run.had[i]]_idkVars
=============================================================================
