------------------------------ MODULE Executor ------------------------------
(* One ReadOnlyDbExecutor of db_executor.py: the query thread that opens a *)
(* connection, runs one statement or a snapshot group on it and closes it, *)
(* and the timer threads (SocketDeadline) that shut the socket down when   *)
(* the deadline passes while the query thread is blocked in it.            *)
(*                                                                         *)
(* The server may answer, fail, or drip bytes forever; only the timer ends *)
(* such a wait, and not even that if it fired before there was a socket.   *)
(* Times are compared, never measured.                                     *)
EXTENDS Integers, Sequences, FiniteSets

CONSTANTS N,            \* statements a snapshot group may run
          MaxTime       \* bound of the clock; deadlines lie in 1..MaxTime

ASSUME ExecutorAssumption == N \in Nat \ {0} /\ MaxTime \in Nat \ {0}

VARIABLES now,          \* time.monotonic()
          mode,         \* "single_statement" or "consistent_snapshot"
          own,          \* deadline_at of the executor
          limit,        \* _effective_deadline
          at,           \* where the query thread is
          dogs,         \* every SocketDeadline made, the last one in use
          sock,         \* connection._sock: none yet, up, or shut down
          raised,       \* an exception is on its way out
          poisoned,     \* _poisoned_error / poisoned_failure
          stmt,         \* statements begun
          out           \* what the caller got for each statement

executorVars == <<now, mode, own, limit, at, dogs, sock, raised, poisoned, stmt, out>>

Earlier(x, y) == IF x < y THEN x ELSE y

(* SocketDeadline.__init__: a deadline already passed aborts at once,      *)
(* otherwise a timer thread is started.                                    *)
Watch(d) == IF now >= d
            THEN [deadline |-> d, timer |-> "ended", expired |-> TRUE]
            ELSE [deadline |-> d, timer |-> "armed", expired |-> FALSE]

Last == Len(dogs)

(* What check() and the handlers ask: expired.is_set() or the clock.       *)
Expired == dogs[Last].expired \/ now >= limit

(* abort(): the event is set, and the socket, if there is one, shut.  A    *)
(* check() of the query thread that finds the deadline passed calls it     *)
(* too; the plain comparisons with the clock raise without it.             *)
Shut(s) == IF s = "up" THEN "down" ELSE s
MayShut == sock' \in {sock, IF Expired THEN Shut(sock) ELSE sock}

(* stop(): cancel the timer and join its thread, which waits for a firing  *)
(* timer to finish.                                                        *)
CanStop == dogs[Last].timer # "firing"
Stopped == [dogs EXCEPT ![Last].timer = "ended"]

ExecutorInit ==
    /\ now = 0
    /\ mode \in {"single_statement", "consistent_snapshot"}
    /\ own \in 1..MaxTime
    /\ limit = own
    /\ at = "new"
    /\ dogs = <<>>
    /\ sock = "none"
    /\ raised = FALSE
    /\ poisoned = FALSE
    /\ stmt = 0
    /\ out = [i \in 1..N |-> "none"]

(* __enter__ of a snapshot, or execute of a single statement with deadline *)
(* d: refused when the deadline has passed, otherwise connect() makes its  *)
(* own watchdog and dials.                                                 *)
Open(d) ==
    LET eff == IF mode = "single_statement" THEN Earlier(own, d) ELSE own
        single == mode = "single_statement" IN
    /\ at = "new"
    /\ stmt' = IF single THEN 1 ELSE 0
    /\ IF now >= eff
       THEN /\ at' = "closed"
            /\ out' = IF single THEN [out EXCEPT ![1] = "failed"] ELSE out
            /\ UNCHANGED <<limit, dogs>>
       ELSE /\ at' = "dialing"
            /\ limit' = eff
            /\ dogs' = <<Watch(eff)>>
            /\ UNCHANGED out
    /\ UNCHANGED <<now, mode, own, sock, raised, poisoned>>

(* connection.connect(): the socket exists only once the dial succeeded;   *)
(* a timer that fires before that finds nothing to shut and is lost.       *)
Dialed ==
    /\ at = "dialing"
    /\ \/ sock' = "up" /\ at' = "securing" /\ UNCHANGED raised
       \/ raised' = TRUE /\ at' = "connected" /\ UNCHANGED sock
    /\ UNCHANGED <<now, mode, own, limit, dogs, poisoned, stmt, out>>

(* Handshake, TLS, grants and source identity, then check(): any of them   *)
(* may raise, and the connection is closed if it does.                     *)
Secured ==
    /\ at = "securing"
    /\ \/ sock = "up" /\ ~Expired /\ UNCHANGED <<raised, sock>>
       \/ raised' = TRUE /\ sock' = "down"
    /\ at' = "connected"
    /\ UNCHANGED <<now, mode, own, limit, dogs, poisoned, stmt, out>>

(* The finally of connect() stops its watchdog.  The executor closes with  *)
(* nothing to close when connect raised; otherwise it starts its own       *)
(* watchdog and checks it.                                                 *)
Connected ==
    /\ at = "connected"
    /\ CanStop
    /\ IF raised
       THEN /\ dogs' = Stopped
            /\ at' = "closed"
            /\ out' = IF mode = "single_statement"
                      THEN [out EXCEPT ![1] = "failed"] ELSE out
            /\ UNCHANGED <<raised, sock>>
       ELSE /\ dogs' = Append(Stopped, Watch(limit))
            /\ IF now >= limit
               THEN raised' = TRUE /\ sock' = Shut(sock) /\ at' = "closing"
               ELSE at' = "opening" /\ UNCHANGED <<raised, sock>>
            /\ UNCHANGED out
    /\ UNCHANGED <<now, mode, own, limit, poisoned, stmt>>

(* The session settings, START TRANSACTION and the read-only confirmation. *)
(* A single statement follows at once; a snapshot waits for its caller.    *)
Opened ==
    /\ at = "opening"
    /\ \/ /\ sock = "up" /\ ~Expired
          /\ at' = IF mode = "single_statement" THEN "starting" ELSE "ready"
          /\ UNCHANGED <<raised, sock>>
       \/ raised' = TRUE /\ at' = "closing" /\ MayShut
    /\ UNCHANGED <<now, mode, own, limit, dogs, poisoned, stmt, out>>

(* Mutant of Agreed: the deadline of the group before is forgotten.        *)
AgreedAfresh(d) == Earlier(own, d)

(* The deadline of the next statement: the earliest of the executor's own, *)
(* the one given with the statement and the one in force.                  *)
Agreed(d) == Earlier(own, Earlier(d, limit))

(* execute() in a snapshot.  After a failure every later statement raises  *)
(* that failure; a tighter deadline replaces the watchdog; a deadline that *)
(* has passed fails the statement and poisons the group.                   *)
Execute(d) ==
    /\ at = "ready"
    /\ stmt < N
    /\ stmt' = stmt + 1
    /\ IF poisoned
       THEN /\ out' = [out EXCEPT ![stmt + 1] = "failed"]
            /\ UNCHANGED <<limit, at>>
       ELSE /\ limit' = Agreed(d)
            /\ at' = IF Agreed(d) # limit THEN "switching" ELSE "starting"
            /\ UNCHANGED out
    /\ UNCHANGED <<now, mode, own, dogs, sock, raised, poisoned>>

(* Mutant of Switch: the watchdog that is replaced keeps its timer.        *)
SwitchOnly ==
    /\ at = "switching"
    /\ dogs' = Append(dogs, Watch(limit))
    /\ sock' = IF now >= limit THEN Shut(sock) ELSE sock
    /\ at' = "starting"
    /\ UNCHANGED <<now, mode, own, limit, raised, poisoned, stmt, out>>

(* The old watchdog is stopped, its thread joined, the new one started.    *)
Switch ==
    /\ at = "switching"
    /\ CanStop
    /\ dogs' = Append(Stopped, Watch(limit))
    /\ sock' = IF now >= limit THEN Shut(sock) ELSE sock
    /\ at' = "starting"
    /\ UNCHANGED <<now, mode, own, limit, raised, poisoned, stmt, out>>

(* A statement that failed: a snapshot remembers it, a single statement    *)
(* closes with the exception on its way out.                               *)
Failed ==
    IF mode = "single_statement"
    THEN /\ raised' = TRUE /\ at' = "closing"
         /\ UNCHANGED <<out, poisoned>>
    ELSE /\ out' = [out EXCEPT ![stmt] = "failed"]
         /\ poisoned' = TRUE /\ at' = "ready"
         /\ UNCHANGED raised

(* The remaining time is asked before the statement is sent.               *)
Start ==
    /\ at = "starting"
    /\ IF now >= limit
       THEN Failed
       ELSE at' = "reading" /\ UNCHANGED <<out, poisoned, raised>>
    /\ UNCHANGED <<now, mode, own, limit, dogs, sock, stmt>>

(* The rows are read and mapped, and the watchdog checked, before they are *)
(* handed over; a single statement still has to close.                     *)
Read ==
    /\ at = "reading"
    /\ \/ /\ sock = "up" /\ ~Expired
          /\ IF mode = "single_statement"
             THEN at' = "closing" /\ UNCHANGED out
             ELSE at' = "ready" /\ out' = [out EXCEPT ![stmt] = "rows"]
          /\ UNCHANGED <<poisoned, raised, sock>>
       \/ Failed /\ MayShut
    /\ UNCHANGED <<now, mode, own, limit, dogs, stmt>>

(* The caller leaves the snapshot.                                         *)
Leave ==
    /\ at = "ready"
    /\ at' = "closing"
    /\ UNCHANGED <<now, mode, own, limit, dogs, sock, raised, poisoned, stmt, out>>

(* Mutant of Close: the watchdog is stopped before the rollback.           *)
CloseUnwatched ==
    /\ at = "closing"
    /\ CanStop
    /\ dogs' = Stopped
    /\ sock' = IF Expired THEN Shut(sock) ELSE sock
    /\ at' = IF Expired THEN "joining" ELSE "rollback"
    /\ UNCHANGED <<now, mode, own, limit, raised, poisoned, stmt, out>>

(* close(): after the deadline the socket is shut and nothing rolled back; *)
(* before it the transaction is rolled back, which is I/O again.           *)
Close ==
    /\ at = "closing"
    /\ IF Expired
       THEN /\ dogs' = [dogs EXCEPT ![Last].expired = TRUE]
            /\ sock' = Shut(sock)
            /\ at' = "joining"
       ELSE at' = "rollback" /\ UNCHANGED <<dogs, sock>>
    /\ UNCHANGED <<now, mode, own, limit, raised, poisoned, stmt, out>>

(* The rollback ended or raised; a failure is only logged.                 *)
RolledBack ==
    /\ at = "rollback"
    /\ at' = "joining"
    /\ UNCHANGED <<now, mode, own, limit, dogs, sock, raised, poisoned, stmt, out>>

(* The connection is closed and the timer thread joined.  A single         *)
(* statement whose deadline passed meanwhile raises instead of returning.  *)
Join ==
    /\ at = "joining"
    /\ CanStop
    /\ dogs' = Stopped
    /\ sock' = "down"
    /\ at' = "closed"
    /\ out' = IF mode = "single_statement"
              THEN [out EXCEPT ![1] = IF raised \/ Expired THEN "failed" ELSE "rows"]
              ELSE out
    /\ UNCHANGED <<now, mode, own, limit, raised, poisoned, stmt>>

(* A timer thread runs abort(): the event first, then the socket.          *)
Fire(i) ==
    /\ dogs[i].timer = "armed"
    /\ now >= dogs[i].deadline
    /\ dogs' = [dogs EXCEPT ![i].timer = "firing", ![i].expired = TRUE]
    /\ UNCHANGED <<now, mode, own, limit, at, sock, raised, poisoned, stmt, out>>

Abort(i) ==
    /\ dogs[i].timer = "firing"
    /\ dogs' = [dogs EXCEPT ![i].timer = "ended"]
    /\ sock' = Shut(sock)
    /\ UNCHANGED <<now, mode, own, limit, at, raised, poisoned, stmt, out>>

Tick ==
    /\ now < MaxTime
    /\ now' = now + 1
    /\ UNCHANGED <<mode, own, limit, at, dogs, sock, raised, poisoned, stmt, out>>

(* The steps the query thread takes without waiting for the server.        *)
Own == Connected \/ Switch \/ Start \/ Leave \/ Close \/ Join

(* Only the dial has a timeout of its own.  In everything after it the     *)
(* driver bounds each recv, not the whole: greeting, authentication, TLS   *)
(* and grants, session set-up, statement and rollback may drip for ever.   *)
Timed == Dialed

(* A read or write on a socket that was shut raises.                       *)
Broken == sock = "down" /\ (Secured \/ Opened \/ Read \/ RolledBack)

ExecutorNext ==
    \/ \E d \in 1..MaxTime : Open(d) \/ Execute(d)
    \/ Own \/ Timed \/ Secured \/ Opened \/ Read \/ RolledBack
    \/ \E i \in DOMAIN dogs : Fire(i) \/ Abort(i)
    \/ Tick

ExecutorSpec == ExecutorInit /\ [][ExecutorNext]_executorVars

(* The threads and the clock run on; the server owes nothing.              *)
FairExecutor ==
    /\ ExecutorSpec
    /\ WF_executorVars(Own) /\ WF_executorVars(Timed) /\ WF_executorVars(Broken) /\ WF_executorVars(Tick)
    /\ WF_executorVars(\E i \in DOMAIN dogs : Fire(i) \/ Abort(i))

ExecutorTypeOK ==
    /\ now \in 0..MaxTime
    /\ mode \in {"single_statement", "consistent_snapshot"}
    /\ own \in 1..MaxTime /\ limit \in 1..MaxTime
    /\ at \in {"new", "dialing", "securing", "connected", "opening", "ready",
               "switching", "starting", "reading", "closing", "rollback",
               "joining", "closed"}
    /\ dogs \in Seq([deadline : 1..MaxTime, timer : {"armed", "firing", "ended"},
                     expired : BOOLEAN])
    /\ sock \in {"none", "up", "down"}
    /\ raised \in BOOLEAN /\ poisoned \in BOOLEAN
    /\ stmt \in 0..N
    /\ out \in [1..N -> {"none", "rows", "failed"}]

(* At most one timer thread of an executor is alive, it is the one in use, *)
(* and none survives the executor: no forgotten timer shuts a socket.      *)
NoStrayTimer ==
    \A i \in DOMAIN dogs :
        dogs[i].timer # "ended" => i = Last /\ at # "closed"

(* The handshake goes on over a socket that was not there yet when the one *)
(* timer behind it fired: nothing will shut that socket any more.          *)
Unwatched == at = "securing" /\ sock = "up" /\ dogs[Last].timer = "ended"

(* However the server drips, an executor that was opened ends, unless its  *)
(* deadline passes while the driver dials and the handshake then drips     *)
(* (db_executor.py:188, db_runtime.py:360).                                *)
Unwinds == at # "new" ~> (at = "closed" \/ Unwatched)

(* The executor keeps the promise of Statements.                           *)
Promise == INSTANCE Statements
KeepsStatements == Promise!Spec
=============================================================================
