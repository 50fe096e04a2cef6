---------------------------- MODULE Query_proofs ----------------------------
(* The two moving parts of a query.  First one executor: for any number of *)
(* statements and any deadlines no timer outlives its use, no wait for the *)
(* server goes unwatched, and the caller is promised what Statements says. *)
(* Then the calls of a process: for any calls, plans, capacity, budget and *)
(* servers they stay within its slots, an answer says what happened before *)
(* the deadline, and what is published together is of one state.           *)
EXTENDS Executor, QueryCall, FunctionTheorems, FiniteSetTheorems, TLAPS

-----------------------------------------------------------------------------
(* One executor.                                                           *)

Dogs == [deadline : 1..MaxTime, timer : {"armed", "firing", "ended"}, expired : BOOLEAN]

(* An executor that was opened has a watchdog, and until it is replaced    *)
(* the one in use is set to the deadline in force.                         *)
Manned ==
    /\ at = "new" => dogs = <<>> /\ limit = own
    /\ at \notin {"new", "closed"} => Len(dogs) > 0
    /\ at \notin {"new", "closed", "switching"} => dogs[Last].deadline = limit

(* While the query thread may wait for the server with no timeout but its  *)
(* own, a live timer watches it or the socket is already shut; only while  *)
(* it connects may the timer have fired to no effect.                      *)
Waiting == {"opening", "ready", "switching", "starting", "reading", "closing", "rollback"}
Guarded ==
    /\ at = "securing" \/ (at = "connected" /\ ~raised) \/ at \in Waiting => sock # "none"
    /\ at \in Waiting => sock = "down" \/ dogs[Last].timer # "ended"
    /\ at \in {"dialing", "securing"} => dogs[Last].timer = "armed" \/ dogs[Last].expired

(* What the caller got so far.                                             *)
Answers ==
    /\ \A i \in 1..N : out[i] # "none" => i <= stmt
    /\ mode = "single_statement" => at \notin {"ready", "switching"} /\ ~poisoned
    /\ mode = "single_statement" /\ at # "closed" => out[1] = "none"
    /\ at = "new" => stmt = 0
    /\ mode = "single_statement" /\ at # "new" => stmt = 1
    /\ at \in {"switching", "starting", "reading"} =>
           ~poisoned /\ stmt \in 1..N /\ out[stmt] = "none"
    /\ ~poisoned /\ mode = "consistent_snapshot" => \A i \in 1..N : out[i] # "failed"

ExecutorIInv == ExecutorTypeOK /\ NoStrayTimer /\ Manned /\ Guarded /\ Answers

-----------------------------------------------------------------------------
LEMMA DogsType == ExecutorTypeOK => dogs \in Seq(Dogs)
BY DEF ExecutorTypeOK, Dogs

(* What becomes of the watchdogs when one of them is changed or added.     *)
LEMMA Changed ==
  ASSUME NEW s \in Seq(Dogs), NEW i \in 1..Len(s), NEW d \in Dogs, NEW t,
         t = [s EXCEPT ![i] = d]
  PROVE  /\ t \in Seq(Dogs) /\ Len(t) = Len(s) /\ DOMAIN t = DOMAIN s
         /\ t[i] = d
         /\ \A j \in 1..Len(s) : j # i => t[j] = s[j]
OBVIOUS

LEMMA Added ==
  ASSUME NEW s \in Seq(Dogs), NEW d \in Dogs, NEW t, t = Append(s, d)
  PROVE  /\ t \in Seq(Dogs) /\ Len(t) = Len(s) + 1 /\ DOMAIN t = 1..(Len(s) + 1)
         /\ t[Len(s) + 1] = d
         /\ \A j \in 1..Len(s) : t[j] = s[j]
OBVIOUS

LEMMA WatchType ==
  ASSUME NEW d \in 1..MaxTime
  PROVE  Watch(d) \in Dogs /\ Watch(d).deadline = d
         /\ Watch(d).timer = IF now >= d THEN "ended" ELSE "armed"
BY DEF Watch, Dogs

(* Stopping the watchdog in use leaves no timer alive.                     *)
LEMMA StopsAll ==
  ASSUME ExecutorTypeOK, NoStrayTimer, Len(dogs) > 0
  PROVE  /\ Stopped \in Seq(Dogs) /\ Len(Stopped) = Len(dogs) /\ DOMAIN Stopped = DOMAIN dogs
         /\ \A j \in 1..Len(dogs) : Stopped[j].timer = "ended"
         /\ Stopped[Last].deadline = dogs[Last].deadline
<1> DEFINE e == dogs[Last]
           d == [e EXCEPT !.timer = "ended"]
<1>1. dogs \in Seq(Dogs) /\ Last \in 1..Len(dogs)
  BY DogsType DEF Last
<1>2. e \in Dogs
  BY <1>1
<1>3. Stopped = [dogs EXCEPT ![Last] = d]
  BY DEF Stopped
<1>4. d \in Dogs /\ d.timer = "ended" /\ d.deadline = e.deadline
  <2> HIDE DEF e
  <2> QED
    BY <1>2 DEF Dogs
<1> HIDE DEF d
<1> QED
  BY <1>1, <1>3, <1>4, Changed DEF NoStrayTimer, Last

LEMMA ExecutorInitially == ExecutorInit => ExecutorIInv
<1> SUFFICES ASSUME ExecutorInit PROVE ExecutorIInv
  OBVIOUS
<1>1. ExecutorTypeOK
  <2>1. <<>> \in Seq([deadline : 1..MaxTime, timer : {"armed", "firing", "ended"},
                      expired : BOOLEAN])
    OBVIOUS
  <2>2. /\ now \in 0..MaxTime /\ mode \in {"single_statement", "consistent_snapshot"}
        /\ own \in 1..MaxTime /\ limit \in 1..MaxTime
        /\ at = "new" /\ sock = "none" /\ raised \in BOOLEAN /\ poisoned \in BOOLEAN
        /\ stmt \in 0..N
        /\ out \in [1..N -> {"none", "rows", "failed"}]
    <3>1. /\ now = 0 /\ mode \in {"single_statement", "consistent_snapshot"}
          /\ own \in 1..MaxTime /\ limit = own
          /\ at = "new" /\ sock = "none" /\ raised = FALSE /\ poisoned = FALSE
          /\ stmt = 0
          /\ out = [i \in 1..N |-> "none"]
      BY Zenon DEF ExecutorInit
    <3>2. raised \in BOOLEAN /\ poisoned \in BOOLEAN
      BY <3>1, Zenon
    <3>3. out \in [1..N -> {"none", "rows", "failed"}]
      BY <3>1
    <3>4. now \in 0..MaxTime /\ stmt \in 0..N
      BY <3>1, ExecutorAssumption
    <3> QED
      BY <3>1, <3>2, <3>3, <3>4, Zenon
  <2>3. dogs = <<>>
    BY DEF ExecutorInit
  <2>4. dogs \in Seq([deadline : 1..MaxTime, timer : {"armed", "firing", "ended"},
                      expired : BOOLEAN])
    BY <2>1, <2>3, Zenon
  <2> QED
    BY <2>2, <2>4, Zenon DEF ExecutorTypeOK
<1>2. NoStrayTimer /\ Manned /\ Guarded /\ Answers
  BY ExecutorAssumption DEF ExecutorInit, NoStrayTimer, Manned, Guarded, Answers, Waiting
<1> QED
  BY <1>1, <1>2 DEF ExecutorIInv

-----------------------------------------------------------------------------
LEMMA OpenStep ==
  ASSUME ExecutorIInv, NEW d \in 1..MaxTime, Open(d)
  PROVE  ExecutorIInv'
<1> USE DEF ExecutorIInv
<1> DEFINE eff == IF mode = "single_statement" THEN Earlier(own, d) ELSE own
<1>1. eff \in 1..MaxTime
  BY DEF ExecutorTypeOK, Earlier
<1>2. CASE now >= eff
  <2>1. /\ at = "new" /\ at' = "closed" /\ dogs' = <<>> /\ dogs = <<>>
        /\ UNCHANGED <<limit, now, mode, own, sock, raised, poisoned>>
        /\ stmt' = IF mode = "single_statement" THEN 1 ELSE 0
        /\ out' = IF mode = "single_statement" THEN [out EXCEPT ![1] = "failed"] ELSE out
    BY <1>2 DEF Open, Manned
  <2>2. ExecutorTypeOK'
    BY <2>1, ExecutorAssumption DEF ExecutorTypeOK
  <2> QED
    BY <2>1, <2>2, ExecutorAssumption DEF ExecutorTypeOK, NoStrayTimer, Manned, Guarded, Answers, Waiting
<1>3. CASE ~(now >= eff)
  <2> DEFINE w == Watch(eff)
  <2>1. /\ at = "new" /\ at' = "dialing" /\ limit' = eff /\ dogs' = <<w>>
        /\ UNCHANGED <<out, now, mode, own, sock, raised, poisoned>>
        /\ stmt' = IF mode = "single_statement" THEN 1 ELSE 0
    BY <1>3 DEF Open
  <2>2. w \in Dogs /\ w.deadline = eff /\ w.timer = "armed"
    BY <1>1, <1>3, WatchType DEF Watch
  <2> HIDE DEF w, eff
  <2>3. dogs' \in Seq(Dogs) /\ Len(dogs') = 1 /\ DOMAIN dogs' = 1..1 /\ dogs'[1] = w
    BY <2>1, <2>2
  <2>4. ExecutorTypeOK'
    BY <1>1, <2>1, <2>3, ExecutorAssumption DEF ExecutorTypeOK, Dogs
  <2> QED
    BY <1>1, <2>1, <2>2, <2>3, <2>4 DEF ExecutorTypeOK, NoStrayTimer, Manned, Guarded, Answers, Waiting, Last
<1> QED
  BY <1>2, <1>3

LEMMA DialedStep ==
  ASSUME ExecutorIInv, Dialed
  PROVE  ExecutorIInv'
<1> USE DEF ExecutorIInv
<1>1. ExecutorTypeOK'
  BY DEF Dialed, ExecutorTypeOK
<1> QED
  BY <1>1 DEF Dialed, ExecutorTypeOK, NoStrayTimer, Manned, Guarded, Answers, Waiting, Last

LEMMA SecuredStep ==
  ASSUME ExecutorIInv, Secured
  PROVE  ExecutorIInv'
<1> USE DEF ExecutorIInv
<1>1. ExecutorTypeOK'
  BY DEF Secured, ExecutorTypeOK
<1> QED
  BY <1>1 DEF Secured, ExecutorTypeOK, NoStrayTimer, Manned, Guarded, Answers, Waiting, Last

(* The watchdog of the dial is stopped and the executor's own one started. *)
LEMMA ConnectedStep ==
  ASSUME ExecutorIInv, Connected
  PROVE  ExecutorIInv'
<1> USE DEF ExecutorIInv
<1>1. /\ Len(dogs) > 0 /\ dogs[Last].deadline = limit /\ at = "connected"
      /\ Len(dogs) \in Nat
  BY DogsType DEF Connected, Manned
<1>2. /\ Stopped \in Seq(Dogs) /\ Len(Stopped) = Len(dogs) /\ DOMAIN Stopped = DOMAIN dogs
      /\ \A j \in 1..Len(dogs) : Stopped[j].timer = "ended"
      /\ Stopped[Last].deadline = dogs[Last].deadline
  BY <1>1, StopsAll
<1> DEFINE stopped == Stopped
<1>3. CASE raised
  <2>1. /\ at' = "closed" /\ dogs' = stopped
        /\ out' = IF mode = "single_statement" THEN [out EXCEPT ![1] = "failed"] ELSE out
        /\ UNCHANGED <<now, mode, own, limit, poisoned, stmt, raised, sock>>
    BY <1>3 DEF Connected
  <2> HIDE DEF stopped
  <2>2. ExecutorTypeOK'
    BY <1>2, <2>1, ExecutorAssumption DEF ExecutorTypeOK, Dogs, stopped
  <2> QED
    BY <1>1, <1>2, <2>1, <2>2, ExecutorAssumption
    DEF ExecutorTypeOK, NoStrayTimer, Manned, Guarded, Answers, Waiting, Last, stopped
<1>4. CASE ~raised
  <2> DEFINE w == Watch(limit)
  <2>1. /\ dogs' = Append(stopped, w)
        /\ sock' = IF now >= limit THEN Shut(sock) ELSE sock
        /\ at' = IF now >= limit THEN "closing" ELSE "opening"
        /\ UNCHANGED <<now, mode, own, limit, poisoned, stmt, out>>
    BY <1>4 DEF Connected
  <2>2. raised' \in BOOLEAN
    BY <1>4, Zenon DEF Connected, ExecutorTypeOK
  <2>3. w \in Dogs /\ w.deadline = limit /\ w.timer = IF now >= limit THEN "ended" ELSE "armed"
    BY WatchType DEF ExecutorTypeOK
  <2> HIDE DEF w, stopped
  <2>4. /\ dogs' \in Seq(Dogs) /\ Len(dogs') = Len(dogs) + 1
        /\ DOMAIN dogs' = 1..(Len(dogs) + 1) /\ dogs'[Len(dogs) + 1] = w
        /\ \A j \in 1..Len(dogs) : dogs'[j].timer = "ended"
    BY <1>2, <2>1, <2>3, Added DEF stopped
  <2>5. sock # "none" /\ sock' # "none" /\ (now >= limit => sock' = "down")
    BY <1>1, <1>4, <2>1 DEF Guarded, Shut, ExecutorTypeOK
  <2>6. ExecutorTypeOK'
    BY <2>1, <2>2, <2>4, <2>5 DEF ExecutorTypeOK, Dogs, Shut
  <2> QED
    BY SMTT(30), <1>1, <2>1, <2>3, <2>4, <2>5, <2>6
    DEF ExecutorTypeOK, NoStrayTimer, Manned, Guarded, Answers, Waiting, Last
<1> QED
  BY <1>3, <1>4

LEMMA OpenedStep ==
  ASSUME ExecutorIInv, Opened
  PROVE  ExecutorIInv'
<1> USE DEF ExecutorIInv
<1>1. ExecutorTypeOK'
  BY DEF Opened, ExecutorTypeOK, MayShut, Shut
<1> QED
  BY <1>1 DEF Opened, MayShut, Shut, ExecutorTypeOK, NoStrayTimer, Manned, Guarded, Answers, Waiting, Last

LEMMA ExecuteStep ==
  ASSUME ExecutorIInv, NEW d \in 1..MaxTime, Execute(d)
  PROVE  ExecutorIInv'
<1> USE DEF ExecutorIInv
<1>1. Agreed(d) \in 1..MaxTime
  BY DEF Agreed, Earlier, ExecutorTypeOK
<1>2. ExecutorTypeOK'
  <2>1. stmt' \in 0..N
    BY ExecutorAssumption DEF Execute, ExecutorTypeOK
  <2>2. out' \in [1..N -> {"none", "rows", "failed"}]
    BY DEF Execute, ExecutorTypeOK
  <2>3. limit' \in 1..MaxTime
    BY <1>1 DEF Execute, ExecutorTypeOK
  <2>4. at' \in {"ready", "switching", "starting"}
        /\ UNCHANGED <<now, mode, own, dogs, sock, raised, poisoned>>
    BY DEF Execute
  <2> QED
    BY <2>1, <2>2, <2>3, <2>4 DEF ExecutorTypeOK
<1> QED
  BY <1>1, <1>2 DEF Execute, ExecutorTypeOK, NoStrayTimer, Manned, Guarded, Answers, Waiting, Last

(* The watchdog in use is stopped and one for the tighter deadline started. *)
LEMMA SwitchStep ==
  ASSUME ExecutorIInv, Switch
  PROVE  ExecutorIInv'
<1> USE DEF ExecutorIInv
<1>1. /\ Len(dogs) > 0 /\ at = "switching" /\ sock # "none" /\ Len(dogs) \in Nat
  BY DogsType DEF Switch, Manned, Guarded, Waiting
<1> DEFINE stopped == Stopped
           w == Watch(limit)
<1>2. /\ stopped \in Seq(Dogs) /\ Len(stopped) = Len(dogs)
      /\ \A j \in 1..Len(dogs) : stopped[j].timer = "ended"
  BY <1>1, StopsAll
<1>3. /\ dogs' = Append(stopped, w)
      /\ sock' = IF now >= limit THEN Shut(sock) ELSE sock
      /\ at' = "starting"
      /\ UNCHANGED <<now, mode, own, limit, raised, poisoned, stmt, out>>
  BY DEF Switch
<1>4. w \in Dogs /\ w.deadline = limit /\ w.timer = IF now >= limit THEN "ended" ELSE "armed"
  BY WatchType DEF ExecutorTypeOK
<1> HIDE DEF w, stopped
<1>5. /\ dogs' \in Seq(Dogs) /\ Len(dogs') = Len(dogs) + 1
      /\ DOMAIN dogs' = 1..(Len(dogs) + 1) /\ dogs'[Len(dogs) + 1] = w
      /\ \A j \in 1..Len(dogs) : dogs'[j].timer = "ended"
  BY <1>2, <1>3, <1>4, Added
<1>6. sock' # "none" /\ (now >= limit => sock' = "down") /\ sock' \in {"none", "up", "down"}
  BY <1>1, <1>3 DEF Shut, ExecutorTypeOK
<1>7. ExecutorTypeOK'
  BY <1>3, <1>5, <1>6 DEF ExecutorTypeOK, Dogs
<1> QED
  BY SMTT(30), <1>1, <1>3, <1>4, <1>5, <1>6, <1>7
  DEF ExecutorTypeOK, NoStrayTimer, Manned, Guarded, Answers, Waiting, Last

LEMMA StartStep ==
  ASSUME ExecutorIInv, Start
  PROVE  ExecutorIInv'
<1> USE DEF ExecutorIInv
<1>1. ExecutorTypeOK'
  BY DEF Start, Failed, ExecutorTypeOK
<1> QED
  BY <1>1 DEF Start, Failed, ExecutorTypeOK, NoStrayTimer, Manned, Guarded, Answers, Waiting, Last

LEMMA ReadStep ==
  ASSUME ExecutorIInv, Read
  PROVE  ExecutorIInv'
<1> USE DEF ExecutorIInv
<1>1. ExecutorTypeOK'
  BY DEF Read, Failed, ExecutorTypeOK, MayShut, Shut
<1> QED
  BY <1>1 DEF Read, Failed, MayShut, Shut, ExecutorTypeOK, NoStrayTimer, Manned, Guarded, Answers,
              Waiting, Last

LEMMA LeaveStep ==
  ASSUME ExecutorIInv, Leave \/ RolledBack
  PROVE  ExecutorIInv'
<1> USE DEF ExecutorIInv
<1>1. ExecutorTypeOK'
  BY DEF Leave, RolledBack, ExecutorTypeOK
<1> QED
  BY <1>1 DEF Leave, RolledBack, ExecutorTypeOK, NoStrayTimer, Manned, Guarded, Answers, Waiting, Last

(* After the deadline close() marks the watchdog expired and shuts the     *)
(* socket, so that nothing is left to wait for.                            *)
LEMMA CloseStep ==
  ASSUME ExecutorIInv, Close
  PROVE  ExecutorIInv'
<1> USE DEF ExecutorIInv
<1>1. /\ at = "closing" /\ Len(dogs) > 0 /\ Len(dogs) \in Nat /\ dogs \in Seq(Dogs)
      /\ Last \in 1..Len(dogs) /\ dogs[Last] \in Dogs /\ sock # "none"
  BY DogsType DEF Close, Manned, Last, Guarded, Waiting
<1>2. CASE Expired
  <2> DEFINE d == [dogs[Last] EXCEPT !.expired = TRUE]
  <2>1. /\ dogs' = [dogs EXCEPT ![Last] = d] /\ sock' = Shut(sock) /\ at' = "joining"
        /\ UNCHANGED <<now, mode, own, limit, raised, poisoned, stmt, out>>
    BY <1>2 DEF Close
  <2>2. d \in Dogs /\ d.timer = dogs[Last].timer /\ d.deadline = dogs[Last].deadline
    BY <1>1 DEF Dogs
  <2> HIDE DEF d
  <2>3. /\ dogs' \in Seq(Dogs) /\ Len(dogs') = Len(dogs) /\ DOMAIN dogs' = DOMAIN dogs
        /\ dogs'[Last] = d
        /\ \A j \in 1..Len(dogs) : j # Last => dogs'[j] = dogs[j]
    BY <1>1, <2>1, <2>2, Changed
  <2>4. ExecutorTypeOK'
    BY <2>1, <2>3 DEF ExecutorTypeOK, Dogs, Shut
  <2> QED
    BY ZenonT(60), <1>1, <2>1, <2>2, <2>3, <2>4
    DEF ExecutorTypeOK, NoStrayTimer, Manned, Guarded, Answers, Waiting, Last
<1>3. CASE ~Expired
  <2>1. at' = "rollback" /\ UNCHANGED <<now, mode, own, limit, dogs, sock, raised, poisoned, stmt, out>>
    BY <1>3 DEF Close
  <2>2. ExecutorTypeOK'
    BY <2>1 DEF ExecutorTypeOK
  <2> QED
    BY <1>1, <2>1, <2>2 DEF ExecutorTypeOK, NoStrayTimer, Manned, Guarded, Answers, Waiting, Last
<1> QED
  BY <1>2, <1>3

LEMMA JoinStep ==
  ASSUME ExecutorIInv, Join
  PROVE  ExecutorIInv'
<1> USE DEF ExecutorIInv
<1>1. /\ at = "joining" /\ Len(dogs) > 0 /\ Len(dogs) \in Nat
  BY DogsType DEF Join, Manned
<1> DEFINE stopped == Stopped
<1>2. /\ stopped \in Seq(Dogs) /\ Len(stopped) = Len(dogs) /\ DOMAIN stopped = DOMAIN dogs
      /\ \A j \in 1..Len(dogs) : stopped[j].timer = "ended"
  BY <1>1, StopsAll
<1>3. /\ dogs' = stopped /\ sock' = "down" /\ at' = "closed"
      /\ UNCHANGED <<now, mode, own, limit, raised, poisoned, stmt>>
  BY DEF Join
<1>4. out' = out \/ (mode = "single_statement"
                     /\ (out' = [out EXCEPT ![1] = "failed"] \/ out' = [out EXCEPT ![1] = "rows"]))
  BY DEF Join
<1> HIDE DEF stopped
<1>5. ExecutorTypeOK'
  BY <1>2, <1>3, <1>4, ExecutorAssumption DEF ExecutorTypeOK, Dogs
<1> QED
  BY <1>1, <1>2, <1>3, <1>4, <1>5, ExecutorAssumption
  DEF ExecutorTypeOK, NoStrayTimer, Manned, Guarded, Answers, Waiting, Last

(* A timer thread: only the watchdog in use can have one, and it ends with *)
(* the socket shut unless nothing had been dialled yet.                    *)
LEMMA FireStep ==
  ASSUME ExecutorIInv, NEW i \in DOMAIN dogs, Fire(i) \/ Abort(i)
  PROVE  ExecutorIInv'
<1> USE DEF ExecutorIInv
<1>1. /\ dogs \in Seq(Dogs) /\ Len(dogs) \in Nat /\ i \in 1..Len(dogs) /\ dogs[i] \in Dogs
      /\ i = Last /\ at # "closed"
  BY DogsType DEF Fire, Abort, NoStrayTimer
<1> DEFINE d == IF dogs[i].timer = "armed"
                THEN [dogs[i] EXCEPT !.timer = "firing", !.expired = TRUE]
                ELSE [dogs[i] EXCEPT !.timer = "ended"]
<1>2. /\ dogs' = [dogs EXCEPT ![i] = d]
      /\ UNCHANGED <<now, mode, own, limit, at, raised, poisoned, stmt, out>>
  BY DEF Fire, Abort
<1>3. sock' = sock \/ sock' = Shut(sock)
  BY DEF Fire, Abort
<1>4. d \in Dogs /\ d.deadline = dogs[i].deadline
  BY <1>1 DEF Dogs
<1>5. d.timer = "ended" => sock' = Shut(sock)
  <2>1. CASE Fire(i)
    BY <1>1, <2>1 DEF Fire, Dogs
  <2>2. CASE Abort(i)
    BY <2>2 DEF Abort
  <2> QED
    BY <2>1, <2>2
<1>9. dogs[i].timer = "armed" \/ dogs[i].expired => d.expired
  <2>1. CASE Fire(i)
    BY <1>1, <2>1 DEF Fire, Dogs
  <2>2. CASE Abort(i)
    BY <1>1, <2>2 DEF Abort, Dogs
  <2> QED
    BY <2>1, <2>2 DEF Fire, Abort
<1> HIDE DEF d
<1>6. /\ dogs' \in Seq(Dogs) /\ Len(dogs') = Len(dogs) /\ DOMAIN dogs' = DOMAIN dogs
      /\ dogs'[i] = d
      /\ \A j \in 1..Len(dogs) : j # i => dogs'[j] = dogs[j]
  BY <1>1, <1>2, <1>4, Changed
<1>7. sock' \in {"none", "up", "down"} /\ (sock # "none" => sock' # "none")
      /\ (d.timer = "ended" /\ sock # "none" => sock' = "down")
      /\ (sock = "down" => sock' = "down")
  BY <1>3, <1>5 DEF ExecutorTypeOK, Shut
<1>8. ExecutorTypeOK'
  BY <1>2, <1>6, <1>7 DEF ExecutorTypeOK, Dogs
<1> QED
  BY <1>1, <1>2, <1>4, <1>6, <1>7, <1>8, <1>9
  DEF ExecutorTypeOK, NoStrayTimer, Manned, Guarded, Answers, Waiting, Last

LEMMA TickStep ==
  ASSUME ExecutorIInv, Tick
  PROVE  ExecutorIInv'
<1> USE DEF ExecutorIInv
<1>1. ExecutorTypeOK'
  <2>1. now' \in 0..MaxTime
    BY ExecutorAssumption DEF Tick, ExecutorTypeOK
  <2> QED
    BY <2>1, Zenon DEF Tick, ExecutorTypeOK
<1> QED
  BY <1>1 DEF Tick, ExecutorTypeOK, NoStrayTimer, Manned, Guarded, Answers, Waiting, Last

-----------------------------------------------------------------------------
(* The inductive invariant: it holds at first and every step keeps it.     *)
THEOREM ExecutorInvariance == ExecutorSpec => []ExecutorIInv
<1>1. ExecutorIInv /\ [ExecutorNext]_executorVars => ExecutorIInv'
  <2> SUFFICES ASSUME ExecutorIInv, [ExecutorNext]_executorVars PROVE ExecutorIInv'
    OBVIOUS
  <2>1. ASSUME NEW d \in 1..MaxTime, Open(d) \/ Execute(d) PROVE ExecutorIInv'
    BY <2>1, OpenStep, ExecuteStep
  <2>2. CASE Own
    BY <2>2, ConnectedStep, SwitchStep, StartStep, LeaveStep, CloseStep, JoinStep DEF Own
  <2>3. CASE Timed \/ Secured
    BY <2>3, DialedStep, SecuredStep DEF Timed
  <2>4. CASE Opened \/ Read \/ RolledBack
    BY <2>4, OpenedStep, ReadStep, LeaveStep
  <2>5. ASSUME NEW i \in DOMAIN dogs, Fire(i) \/ Abort(i) PROVE ExecutorIInv'
    BY <2>5, FireStep
  <2>6. CASE Tick
    BY <2>6, TickStep
  <2>7. CASE UNCHANGED executorVars
    BY <2>7 DEF ExecutorIInv, ExecutorTypeOK, NoStrayTimer, Manned, Guarded, Answers, Waiting, Last, executorVars
  <2> QED
    BY <2>1, <2>2, <2>3, <2>4, <2>5, <2>6, <2>7 DEF ExecutorNext
<1> QED
  BY ExecutorInitially, <1>1, PTL DEF ExecutorSpec

(* Every state is one the executor can be in.                              *)
THEOREM ExecutorTypeCorrect == ExecutorSpec => []ExecutorTypeOK
BY ExecutorInvariance, PTL DEF ExecutorIInv

(* At most one timer thread of an executor is alive, it is the one in use, *)
(* and none survives the executor.                                         *)
THEOREM NoTimerStrays == ExecutorSpec => []NoStrayTimer
BY ExecutorInvariance, PTL DEF ExecutorIInv

(* From the session set-up to the rollback the query thread never blocks   *)
(* on a socket that is up with no live timer behind it.  In the handshake  *)
(* it does so only when the timer has fired, that is, when the deadline    *)
(* passed while the driver dialed (Unwatched of Executor).                 *)
Watched ==
    /\ at \in Waiting => sock = "down" \/ dogs[Last].timer # "ended"
    /\ at = "securing" => dogs[Last].timer # "ended" \/ dogs[Last].expired

THEOREM AlwaysWatched == ExecutorSpec => []Watched
<1>1. ExecutorIInv => Watched
  BY DEF ExecutorIInv, Guarded, Watched
<1> QED
  BY <1>1, ExecutorInvariance, PTL

-----------------------------------------------------------------------------
(* The steps that change what Statements speaks of.                        *)
LEMMA OpenKept ==
  ASSUME ExecutorIInv, NEW d \in 1..MaxTime, Open(d)
  PROVE  Promise!Next \/ UNCHANGED Promise!vars
<1> DEFINE eff == IF mode = "single_statement" THEN Earlier(own, d) ELSE own
<1>1. /\ at = "new" /\ limit = own /\ now' = now /\ 1 \in 1..N
      /\ own \in Nat /\ eff \in Nat /\ eff =< own
      /\ \A i \in 1..N : out[i] = "none"
  BY ExecutorAssumption DEF Open, ExecutorIInv, Manned, Answers, ExecutorTypeOK, Earlier
<1>2. CASE now >= eff
  <2>1. UNCHANGED <<limit, now>> /\ (out' = out \/ out' = [out EXCEPT ![1] = "failed"])
    BY <1>2 DEF Open
  <2>2. Promise!Fail(1) \/ UNCHANGED Promise!vars
    BY <1>1, <2>1 DEF Promise!Fail, Promise!vars
  <2> QED
    BY <1>1, <2>2 DEF Promise!Next
<1>3. CASE ~(now >= eff)
  <2>1. limit' = eff /\ UNCHANGED <<now, out>>
    BY <1>3 DEF Open
  <2> HIDE DEF eff
  <2>2. Promise!Tighten \/ UNCHANGED Promise!vars
    BY <1>1, <2>1 DEF Promise!Tighten, Promise!vars
  <2> QED
    BY <2>2 DEF Promise!Next
<1> QED
  BY <1>2, <1>3

LEMMA ConnectedKept ==
  ASSUME ExecutorIInv, Connected
  PROVE  Promise!Next \/ UNCHANGED Promise!vars
<1>1. UNCHANGED <<limit, now>>
      /\ (out' = out \/ (mode = "single_statement" /\ out' = [out EXCEPT ![1] = "failed"]))
      /\ at = "connected"
  BY DEF Connected
<1>2. Promise!Fail(1) \/ UNCHANGED Promise!vars
  BY <1>1 DEF Promise!Fail, Promise!vars, ExecutorIInv, Answers
<1> QED
  BY <1>2, ExecutorAssumption DEF Promise!Next

(* A statement of a poisoned group fails; any other one may tighten the    *)
(* deadline, never loosen it.                                              *)
LEMMA ExecuteKept ==
  ASSUME ExecutorIInv, NEW d \in 1..MaxTime, Execute(d)
  PROVE  Promise!Next \/ UNCHANGED Promise!vars
<1>1. stmt + 1 \in 1..N /\ out[stmt + 1] = "none"
  <2>1. stmt \in Nat /\ stmt < N /\ N \in Nat
    BY ExecutorAssumption DEF Execute, ExecutorIInv, ExecutorTypeOK
  <2>2. \A i \in 1..N : out[i] # "none" => i =< stmt
    BY DEF ExecutorIInv, Answers
  <2> QED
    BY <2>1, <2>2
<1>2. CASE poisoned
  <2>1. Promise!Fail(stmt + 1)
    BY <1>1, <1>2 DEF Execute, Promise!Fail
  <2> QED
    BY <1>1, <2>1 DEF Promise!Next
<1>3. CASE ~poisoned
  <2>1. Agreed(d) \in Nat /\ Agreed(d) =< limit /\ limit \in Nat
    BY DEF Agreed, Earlier, ExecutorIInv, ExecutorTypeOK
  <2>2. limit' = Agreed(d) /\ UNCHANGED <<now, out>>
    BY <1>3 DEF Execute
  <2>3. Promise!Tighten \/ UNCHANGED Promise!vars
    BY <2>1, <2>2 DEF Promise!Tighten, Promise!vars
  <2> QED
    BY <2>3 DEF Promise!Next
<1> QED
  BY <1>2, <1>3

(* A statement under way fails, or its rows are handed over in time and    *)
(* after no failure.                                                       *)
LEMMA StatementKept ==
  ASSUME ExecutorIInv, Start \/ Read
  PROVE  Promise!Next \/ UNCHANGED Promise!vars
<1>1. /\ stmt \in 1..N /\ out[stmt] = "none" /\ UNCHANGED <<now, limit>>
      /\ ~poisoned /\ now \in Int /\ limit \in Int
  BY DEF Start, Read, ExecutorIInv, Answers, ExecutorTypeOK
<1>2. CASE Failed
  <2>1. out' = out \/ out' = [out EXCEPT ![stmt] = "failed"]
    BY <1>2 DEF Failed
  <2>2. Promise!Fail(stmt) \/ UNCHANGED Promise!vars
    BY <1>1, <2>1 DEF Promise!Fail, Promise!vars
  <2> QED
    BY <1>1, <2>2 DEF Promise!Next
<1>3. CASE UNCHANGED out
  BY <1>1, <1>3 DEF Promise!vars
<1>4. CASE ~Expired /\ mode # "single_statement" /\ out' = [out EXCEPT ![stmt] = "rows"]
  <2>1. now < limit
    BY <1>1, <1>4 DEF Expired
  <2>2. \A j \in 1..(stmt - 1) : out[j] # "failed"
    <3>1. mode = "consistent_snapshot" /\ N \in Nat
      BY <1>4, ExecutorAssumption DEF ExecutorIInv, ExecutorTypeOK
    <3>2. \A j \in 1..N : out[j] # "failed"
      BY <1>1, <3>1 DEF ExecutorIInv, Answers
    <3> QED
      BY <1>1, <3>1, <3>2
  <2>3. Promise!Serve(stmt)
    BY <1>1, <1>4, <2>1, <2>2 DEF Promise!Serve
  <2> QED
    BY <1>1, <2>3 DEF Promise!Next
<1> QED
  BY <1>2, <1>3, <1>4 DEF Start, Read

(* A single statement is answered only when the connection is closed, and  *)
(* with rows only if the deadline has not passed by then.                  *)
LEMMA JoinKept ==
  ASSUME ExecutorIInv, Join
  PROVE  Promise!Next \/ UNCHANGED Promise!vars
<1>1. UNCHANGED <<now, limit>> /\ now \in Int /\ limit \in Int /\ at = "joining"
  BY DEF Join, ExecutorIInv, ExecutorTypeOK
<1>2. CASE mode # "single_statement"
  BY <1>1, <1>2 DEF Join, Promise!vars
<1>3. CASE mode = "single_statement"
  <2>1. out[1] = "none"
    BY <1>1, <1>3 DEF ExecutorIInv, Answers
  <2>2. CASE raised \/ Expired
    <3>1. Promise!Fail(1)
      BY <1>1, <1>3, <2>1, <2>2 DEF Join, Promise!Fail
    <3> QED
      BY <3>1, ExecutorAssumption DEF Promise!Next
  <2>3. CASE ~(raised \/ Expired)
    <3>1. Promise!Serve(1)
      BY <1>1, <1>3, <2>1, <2>3 DEF Join, Expired, Promise!Serve
    <3> QED
      BY <3>1, ExecutorAssumption DEF Promise!Next
  <2> QED
    BY <2>2, <2>3
<1> QED
  BY <1>2, <1>3

(* The executor implements Statements: rows only before the deadline in    *)
(* force, no deadline loosened, no success after a failure of the group.   *)
THEOREM StatementsKept == ExecutorSpec => KeepsStatements
<1>1. ExecutorInit => Promise!Init
  BY DEF ExecutorInit, Promise!Init
<1>2. ExecutorIInv /\ [ExecutorNext]_executorVars => [Promise!Next]_Promise!vars
  <2> SUFFICES ASSUME ExecutorIInv, [ExecutorNext]_executorVars PROVE Promise!Next \/ UNCHANGED Promise!vars
    OBVIOUS
  <2>1. ASSUME NEW d \in 1..MaxTime, Open(d) \/ Execute(d)
        PROVE  Promise!Next \/ UNCHANGED Promise!vars
    BY <2>1, OpenKept, ExecuteKept
  <2>2. CASE Connected \/ Start \/ Read \/ Join
    BY <2>2, ConnectedKept, StatementKept, JoinKept
  <2>3. CASE Timed \/ Secured \/ Switch \/ Leave \/ Close \/ Opened \/ RolledBack
    BY <2>3 DEF Timed, Dialed, Secured, Switch, Leave, Close, Opened, RolledBack, Promise!vars
  <2>4. ASSUME NEW i \in DOMAIN dogs, Fire(i) \/ Abort(i) PROVE UNCHANGED Promise!vars
    BY <2>4 DEF Fire, Abort, Promise!vars
  <2>5. CASE Tick
    BY <2>5 DEF Tick, Promise!Tick, Promise!Next
  <2>6. CASE UNCHANGED executorVars
    BY <2>6 DEF executorVars, Promise!vars
  <2> QED
    BY <2>1, <2>2, <2>3, <2>4, <2>5, <2>6 DEF ExecutorNext, Own
<1> QED
  BY <1>1, <1>2, ExecutorInvariance, PTL DEF ExecutorSpec, KeepsStatements, Promise!Spec

-----------------------------------------------------------------------------
(* The calls of a process.                                                 *)

(* Every slot in use belongs to a call in progress; only a call with       *)
(* worker threads accounts for more than its own.                          *)
Slotted ==
    /\ IsFiniteSet(Slots) /\ active = Cardinality(Slots) /\ active <= Capacity
    /\ \A c \in Calls : held[c] = 0 <=> pc[c] \in {"idle", "done"}
    /\ \A c \in Calls : pc[c] \notin {"leasing", "running"} => held[c] <= 1

(* A call has branches once it is planned, and its answer when it is done. *)
Working == {"leasing", "preparing", "grouping", "running", "authorizing", "rendering", "failing", "aborting"}
Planned(c) ==
    /\ pc[c] # "idle" => plan[c] \in Seq(STRING)
    /\ pc[c] \in {"idle", "planning"} => br[c] = <<>>
    /\ pc[c] \in Working => br[c] \in [Physical(plan[c]) -> Branch]
    /\ pc[c] # "done" => reply[c] = NoReply

(* How many branches of a call may be at work, stage by stage.             *)
Threads(c) ==
    /\ pc[c] = "leasing" => \A b \in Phys(c) : br[c][b].st = "todo"
    /\ pc[c] = "running" => Cardinality(Busy(c)) <= held[c]
    /\ pc[c] = "preparing" =>
        /\ In(c, {"querying", "building"} \cup Ended) = {}
        /\ \A a, b \in In(c, {"preparing"}) : a = b
    /\ pc[c] = "grouping" =>
        /\ In(c, {"todo", "preparing"}) = {}
        /\ \A a, b \in In(c, {"querying", "building"}) : a = b
        /\ In(c, {"raised"}) # {} => In(c, {"querying", "building"}) = {}
    /\ pc[c] \in {"authorizing", "rendering", "failing", "aborting", "done"} =>
           In(c, {"preparing", "querying", "building"}) = {}

(* What a branch carries: a result was built in time, a snapshot is that   *)
(* of the branch's group, an entity is the one the call resolved, and the  *)
(* branch that resolved it knows from which database.                      *)
Sound(c, b, x) ==
    /\ x.st = "success" => x.intime
    /\ x.on # 0 => x.on = Root(plan[c], b) /\ snap[c].src \in Servers
    /\ x.entity # None => x.entity = cache[c] /\ cache[c] \in Servers

Carried(c) ==
    /\ \A b \in Phys(c) : Sound(c, b, br[c][b])
    /\ snap[c].root # 0 => snap[c].src \in Servers
    /\ cache[c] \in Servers => \E b \in Phys(c) : cache[c] \in br[c][b].refs

(* What was reconciled could be, and what was answered came from there.    *)
Told(c) ==
    /\ pc[c] \notin {"rendering", "done"} => recon[c] = {}
    /\ \A b \in recon[c] : b \in Phys(c) /\ Reconcilable(c, b)
    /\ reply[c].recon \subseteq recon[c]
    /\ reply[c].kind = "full" /\ reply[c].ok # {} => Cardinality(Sources(c)) <= 1

(* HonestReply for one call.                                               *)
Honest(c) ==
    /\ reply[c].kind = "full" =>
        /\ ~late[c]
        /\ reply[c].ok = {p \in Public(c) :
                              2 * p \in DOMAIN br[c] /\ br[c][2 * p].st = "success"}
    /\ reply[c].kind = "deadline" =>
        /\ late[c] /\ reply[c].recon = {}
        /\ \A p \in reply[c].ok : br[c][2 * p].st = "success" /\ br[c][2 * p].intime
    /\ reply[c].kind \in {"limit", "failed"} => reply[c].ok = {} /\ reply[c].recon = {}

CallInv(c) == Planned(c) /\ Threads(c) /\ Carried(c) /\ Told(c) /\ Honest(c)

IInv == TypeOK /\ Slotted /\ \A c \in Calls : CallInv(c)

-----------------------------------------------------------------------------
(* The branches of a plan are finitely many positive numbers, the even     *)
(* ones for the requests admitted.                                         *)
LEMMA PlanBranches ==
  ASSUME NEW pl \in Seq(STRING)
  PROVE  /\ Admitted(pl) \subseteq DOMAIN pl
         /\ Physical(pl) \subseteq Nat \ {0}
         /\ IsFiniteSet(Physical(pl))
         /\ \A p \in Nat : 2 * p \in Physical(pl) <=> p \in Admitted(pl)
<1>1. Admitted(pl) \subseteq DOMAIN pl
  BY DEF Admitted
<1>2. DOMAIN pl = 1..Len(pl) /\ Len(pl) \in Nat
  OBVIOUS
<1>3. \A b \in Physical(pl) : b \in Nat \ {0} /\ b <= 2 * Len(pl)
  BY <1>1, <1>2 DEF Physical
<1>4. IsFiniteSet(Physical(pl))
  <2> DEFINE all == Physical(pl)
             n == 2 * Len(pl)
  <2>1. all \in SUBSET Nat /\ n \in Nat /\ \A b \in all : b <= n
    BY <1>2, <1>3
  <2> HIDE DEF all, n
  <2>2. IsFiniteSet(all)
    BY <2>1, FS_BoundedSetOfNaturals
  <2> QED
    BY <2>2 DEF all
<1>5. \A p \in Nat : 2 * p \in Physical(pl) <=> p \in Admitted(pl)
  BY <1>1, <1>2 DEF Physical
<1> QED
  BY <1>1, <1>3, <1>4, <1>5

(* What is left of the slots when a call takes one or gives some back.     *)
LEMMA SlotTaken ==
  ASSUME held \in [Calls -> Nat], IsFiniteSet(Slots), NEW c \in Calls,
         held' = [held EXCEPT ![c] = @ + 1]
  PROVE  IsFiniteSet(Slots') /\ Cardinality(Slots') = Cardinality(Slots) + 1
<1> DEFINE new == <<c, held[c] + 1>>
<1>1. Slots' = Slots \cup {new}
  BY DEF Slots
<1>2. new \notin Slots
  BY DEF Slots
<1> HIDE DEF new
<1> QED
  BY <1>1, <1>2, FS_AddElement

LEMMA SlotsReturned ==
  ASSUME held \in [Calls -> Nat], IsFiniteSet(Slots), NEW c \in Calls,
         NEW n \in Nat, n <= held[c], held' = [held EXCEPT ![c] = n]
  PROVE  IsFiniteSet(Slots') /\ Cardinality(Slots') = Cardinality(Slots) - (held[c] - n)
<1> DEFINE span == (n + 1)..held[c]
           gone == {c} \X span
           f == [i \in span |-> <<c, i>>]
<1>1. Slots' = Slots \ gone /\ gone \subseteq Slots
  BY DEF Slots
<1>2. IsFiniteSet(span) /\ Cardinality(span) = held[c] - n
  BY SMTT(30), FS_Interval
<1>3. f \in Bijection(span, gone)
  BY SMTT(30) DEF Bijection, Injection, Surjection, IsInjective
<1>4. Cardinality(gone) = held[c] - n
  BY <1>2, <1>3, FS_Bijection DEF ExistsBijection
<1>5. Slots \cap gone = gone
  BY <1>1
<1> HIDE DEF gone, span, f
<1> QED
  BY <1>1, <1>4, <1>5, FS_Difference

Reply == [kind : {"none", "limit", "failed", "deadline", "full"}, ok : SUBSET Nat,
          recon : SUBSET Nat]

LEMMA PlanType ==
  ASSUME TypeOK, NEW c \in Calls
  PROVE  plan[c] = None \/ plan[c] \in Seq(STRING)
BY QueryCallAssumption DEF TypeOK

(* The answers a call can give.                                            *)
LEMMA ReplyTypes ==
  ASSUME TypeOK, NEW c \in Calls, plan[c] \in Seq(STRING), NEW got
  PROVE  /\ NoReply \in Reply /\ Refused \in Reply /\ [Refused EXCEPT !.kind = "limit"] \in Reply
         /\ DeadlineReply(c, got) \in Reply
         /\ \A r \in SUBSET Nat : [kind |-> "full", recon |-> r,
                ok |-> {p \in Admitted(plan[c]) : br[c][2 * p].st = "success"}] \in Reply
         /\ [kind |-> "full", ok |-> {}, recon |-> {}] \in Reply
<1>1. Public(c) \subseteq Nat
  BY DEF Public
<1>2. Admitted(plan[c]) \subseteq Nat
  <2>1. Admitted(plan[c]) \subseteq DOMAIN plan[c]
    BY PlanBranches
  <2> QED
    BY <2>1
<1> QED
  BY <1>1, <1>2 DEF NoReply, Refused, DeadlineReply, Reply

-----------------------------------------------------------------------------
(* A call that stays at work, one that answers, and one that gives back    *)
(* what it leased.                                                         *)
LEMMA StaysAtWork ==
  ASSUME TypeOK, Slotted, NEW c \in Calls, NEW s \in Stages,
         pc[c] \notin {"idle", "done"}, s \notin {"idle", "done"},
         held[c] <= 1 \/ s = "running",
         pc' = [pc EXCEPT ![c] = s], UNCHANGED <<active, held>>
  PROVE  Slotted'
<1>1. Slots' = Slots
  BY DEF Slots
<1> QED
  BY <1>1 DEF TypeOK, Slotted

LEMMA AnswerSlotted ==
  ASSUME TypeOK, Slotted, NEW c \in Calls, NEW r,
         pc[c] \notin {"idle", "done", "leasing", "running"}, Answer(c, r)
  PROVE  Slotted'
<1>1. held[c] = 1
  BY DEF Slotted, TypeOK
<1>2. /\ held' = [held EXCEPT ![c] = 0] /\ active' = active - 1
      /\ pc' = [pc EXCEPT ![c] = "done"]
  BY <1>1 DEF Answer, TypeOK
<1>3. IsFiniteSet(Slots') /\ Cardinality(Slots') = Cardinality(Slots) - 1
  <2>1. held \in [Calls -> Nat] /\ IsFiniteSet(Slots) /\ 0 \in Nat /\ 0 <= held[c]
        /\ held[c] - 0 = 1
    BY <1>1 DEF TypeOK, Slotted
  <2>2. IsFiniteSet(Slots') /\ Cardinality(Slots') = Cardinality(Slots) - (held[c] - 0)
    BY <1>2, <2>1, SlotsReturned
  <2> QED
    BY <2>1, <2>2
<1> QED
  BY <1>1, <1>2, <1>3, QueryCallAssumption DEF Slotted, TypeOK

LEMMA AnswerTyped ==
  ASSUME TypeOK, Slotted, NEW c \in Calls, NEW r \in Reply,
         pc[c] \notin {"idle", "done"}, Answer(c, r)
  PROVE  /\ active' \in Nat /\ held' \in [Calls -> Nat]
         /\ pc' \in [Calls -> Stages]
         /\ reply' \in [Calls -> Reply]
<1>1. held[c] # 0 /\ held[c] \in Nat
  BY DEF Slotted, TypeOK
<1>2. <<c, 1>> \in Slots
  BY <1>1 DEF Slots
<1>3. active # 0
  BY <1>2, FS_EmptySet DEF Slotted
<1> QED
  BY <1>1, <1>3 DEF Answer, TypeOK, Stages, Reply

-----------------------------------------------------------------------------
(* Branches.  A record of a branch with a field changed, the branch that   *)
(* changes, and a call whose branches change together.                     *)
Status == {"todo", "preparing", "fit", "unfit", "querying", "building"} \cup Ended

LEMMA Turned ==
  ASSUME NEW x \in Branch, NEW st \in Status, NEW y, y = [x EXCEPT !.st = st]
  PROVE  /\ y \in Branch /\ y.st = st
         /\ y.refs = x.refs /\ y.entity = x.entity /\ y.on = x.on /\ y.intime = x.intime
BY DEF Branch, Status

LEMMA OneSet ==
  ASSUME TypeOK, NEW c \in Calls, NEW b \in Phys(c),
         br[c] \in [Physical(plan[c]) -> Branch], NEW r \in Branch, Set(c, b, r)
  PROVE  /\ br' = [d \in Calls |-> br'[d]]
         /\ br'[c] \in [Physical(plan[c]) -> Branch] /\ DOMAIN br'[c] = Phys(c)
         /\ br'[c][b] = r
         /\ \A m \in Phys(c) \ {b} : br'[c][m] = br[c][m]
         /\ \A d \in Calls \ {c} : br'[d] = br[d]
<1> DEFINE row == [br[c] EXCEPT ![b] = r]
<1>1. br' = [br EXCEPT ![c] = row]
  BY DEF Set
<1>2. /\ row \in [Physical(plan[c]) -> Branch] /\ DOMAIN row = Phys(c) /\ row[b] = r
      /\ \A m \in Phys(c) \ {b} : row[m] = br[c][m]
  BY DEF Phys
<1>3. br = [d \in Calls |-> br[d]]
  BY DEF TypeOK
<1> HIDE DEF row
<1>4. br' = [d \in Calls |-> IF d = c THEN row ELSE br[d]]
  BY <1>1, <1>3
<1> QED
  BY <1>2, <1>4

LEMMA AllSet ==
  ASSUME TypeOK, NEW c \in Calls, NEW row \in [Physical(plan[c]) -> Branch],
         br' = [br EXCEPT ![c] = row]
  PROVE  /\ br' = [d \in Calls |-> br'[d]]
         /\ br'[c] = row
         /\ \A d \in Calls \ {c} : br'[d] = br[d]
<1>1. br = [d \in Calls |-> br[d]]
  BY DEF TypeOK
<1>2. br' = [d \in Calls |-> IF d = c THEN row ELSE br[d]]
  BY <1>1
<1> QED
  BY <1>2

(* The steps of a branch change nothing but branches of the call, its      *)
(* snapshot and its cache.                                                 *)
SnapKept(c) ==
    /\ snap' \in [Calls -> [root : Nat, src : Servers \cup {None}, poisoned : BOOLEAN]]
    /\ \A d \in Calls \ {c} : snap'[d] = snap[d]
    /\ snap[c].src \in Servers => snap'[c].src \in Servers
    /\ snap'[c].root = snap[c].root \/ snap'[c].src \in Servers

LEMMA SnapSame ==
  ASSUME TypeOK, UNCHANGED snap, NEW c \in Calls
  PROVE  SnapKept(c)
BY DEF TypeOK, SnapKept

BranchStep(c) ==
    /\ UNCHANGED <<active, held, plan, late, recon, reply, server>>
    /\ br' = [d \in Calls |-> br'[d]]
    /\ br'[c] \in [Physical(plan[c]) -> Branch] /\ DOMAIN br'[c] = Phys(c)
    /\ \A d \in Calls \ {c} : br'[d] = br[d] /\ cache'[d] = cache[d]
    /\ cache' \in [Calls -> Servers \cup {None, "failed"}]
    /\ SnapKept(c)

(* A call that a step leaves alone.                                        *)
LEMMA LeftAlone ==
  ASSUME NEW d \in Calls, CallInv(d), plan' = plan, br'[d] = br[d], pc'[d] = pc[d],
         held'[d] = held[d], cache'[d] = cache[d], snap'[d] = snap[d], recon'[d] = recon[d],
         reply'[d] = reply[d], late'[d] = late[d]
  PROVE  CallInv(d)'
<1>1. Phys(d)' = Phys(d) /\ \A S : In(d, S)' = In(d, S)
  BY DEF Phys, In
<1>2. Planned(d)'
  BY DEF CallInv, Planned
<1>3. Threads(d)'
  BY <1>1 DEF CallInv, Threads, Busy, In, Phys
<1>4. Carried(d)'
  BY <1>1 DEF CallInv, Carried, Sound
<1>5. Told(d)'
  <2>1. Sources(d)' = Sources(d)
    BY DEF Sources
  <2>2. \A b : Reconcilable(d, b)' = Reconcilable(d, b)
    BY <1>1 DEF Reconcilable
  <2> QED
    BY <1>1, <2>1, <2>2 DEF CallInv, Told
<1>6. Honest(d)'
  BY DEF CallInv, Honest, Public
<1> QED
  BY <1>2, <1>3, <1>4, <1>5, <1>6 DEF CallInv

(* What is left to show of a step of the branches.                         *)
LEMMA BranchKeeps ==
  ASSUME IInv, NEW c \in Calls, BranchStep(c),
         pc[c] \in {"preparing", "running", "grouping"},
         pc' = pc \/ (pc[c] = "preparing" /\ pc' = [pc EXCEPT ![c] = "grouping"]),
         Threads(c)', Carried(c)'
  PROVE  IInv'
<1>1. TypeOK'
  BY DEF IInv, BranchStep, SnapKept, TypeOK, Stages
<1>2. Slotted'
  <2>1. CASE pc' = pc
    BY <2>1 DEF IInv, Slotted, Slots, BranchStep
  <2>2. CASE pc[c] = "preparing" /\ pc' = [pc EXCEPT ![c] = "grouping"]
    BY <2>2, StaysAtWork DEF IInv, Slotted, BranchStep, Stages
  <2> QED
    BY <2>1, <2>2
<1>3. pc'[c] \in {"preparing", "running", "grouping"} /\ \A d \in Calls \ {c} : pc'[d] = pc[d]
  BY DEF IInv, TypeOK
<1>4. ASSUME NEW d \in Calls \ {c} PROVE CallInv(d)'
  BY <1>3, <1>4, LeftAlone DEF IInv, BranchStep, SnapKept
<1>5. CallInv(c)'
  <2>1. CallInv(c) /\ reply[c] = NoReply /\ recon[c] = {}
    BY DEF IInv, CallInv, Planned, Told
  <2>2. Planned(c)'
    BY <1>3, <2>1 DEF CallInv, Planned, BranchStep, Working
  <2>3. Told(c)' /\ Honest(c)'
    BY <1>3, <2>1 DEF Told, Honest, BranchStep, NoReply
  <2> QED
    BY <2>2, <2>3 DEF CallInv
<1> QED
  BY <1>1, <1>2, <1>4, <1>5 DEF IInv

LEMMA BranchesFinite ==
  ASSUME IInv, NEW c \in Calls, pc[c] \in Working
  PROVE  IsFiniteSet(Phys(c)) /\ IsFiniteSet(Busy(c))
<1>1. Phys(c) = Physical(plan[c])
  BY DEF IInv, CallInv, Planned, Phys
<1>2. plan[c] \in Seq(STRING)
  BY DEF IInv, CallInv, Planned, Working
<1>3. IsFiniteSet(Phys(c))
  BY <1>1, <1>2, PlanBranches
<1>4. Busy(c) \in SUBSET Phys(c)
  BY DEF Busy, In
<1> QED
  BY <1>3, <1>4, FS_Subset

(* A call at work stays within its workers when no further branch is begun. *)
LEMMA FewerBusy ==
  ASSUME IInv, NEW c \in Calls, BranchStep(c), UNCHANGED pc, pc[c] = "running",
         Busy(c)' \subseteq Busy(c)
  PROVE  Threads(c)'
<1>1. IsFiniteSet(Busy(c)) /\ Cardinality(Busy(c)) <= held[c]
  BY BranchesFinite DEF Working, IInv, CallInv, Threads
<1>2. /\ IsFiniteSet(Busy(c)') /\ Cardinality(Busy(c)') <= Cardinality(Busy(c))
  <2> DEFINE b0 == Busy(c)
             b1 == Busy(c)'
  <2>1. b1 \in SUBSET b0
    OBVIOUS
  <2> HIDE DEF b0, b1
  <2> QED
    BY <1>1, <2>1, FS_Subset DEF b0, b1
<1>3. Cardinality(Busy(c)) \in Nat /\ Cardinality(Busy(c)') \in Nat /\ held[c] \in Nat
  BY <1>1, <1>2, FS_CardinalityType DEF IInv, TypeOK
<1>4. Cardinality(Busy(c)') <= held[c]
  BY <1>1, <1>2, <1>3
<1> QED
  BY <1>4 DEF Threads, BranchStep

(* A step of one branch b to the record r: nothing is lost of what the     *)
(* branches carry.                                                         *)
LEMMA CarriedOn ==
  ASSUME IInv, NEW c \in Calls, BranchStep(c), UNCHANGED pc, UNCHANGED cache,
         \A m \in Phys(c) : br[c][m].refs \subseteq br'[c][m].refs /\ Sound(c, m, br'[c][m])
  PROVE  Carried(c)'
<1>1. Phys(c)' = Phys(c) /\ plan' = plan
  BY DEF Phys, BranchStep
<1>2. \A m \in Phys(c) : Sound(c, m, br[c][m])'
  BY <1>1 DEF Sound, BranchStep, SnapKept
<1>3. snap'[c].root # 0 => snap'[c].src \in Servers
  BY DEF IInv, CallInv, Carried, BranchStep, SnapKept
<1>4. cache'[c] \in Servers => \E m \in Phys(c) : cache'[c] \in br'[c][m].refs
  BY DEF IInv, CallInv, Carried
<1> QED
  BY <1>1, <1>2, <1>3, <1>4 DEF Carried

(* One branch becomes the record r.                                        *)
LEMMA OneBranch ==
  ASSUME IInv, NEW c \in Calls, NEW b \in Phys(c), NEW r \in Branch, Set(c, b, r),
         pc[c] \in Working,
         UNCHANGED <<active, held, plan, late, recon, reply, server>>,
         \A d \in Calls \ {c} : cache'[d] = cache[d],
         cache' \in [Calls -> Servers \cup {None, "failed"}],
         SnapKept(c)
  PROVE  /\ BranchStep(c) /\ br'[c][b] = r
         /\ \A m \in Phys(c) \ {b} : br'[c][m] = br[c][m]
<1>1. TypeOK /\ br[c] \in [Physical(plan[c]) -> Branch]
  BY DEF IInv, CallInv, Planned
<1> QED
  BY <1>1, OneSet DEF BranchStep

(* The branches of G change their status together.                         *)
SetAll(c, G, st) ==
    br' = [br EXCEPT ![c] =
              [m \in Phys(c) |-> IF m \in G THEN [br[c][m] EXCEPT !.st = st] ELSE br[c][m]]]

LEMMA ManyBranches ==
  ASSUME IInv, NEW c \in Calls, NEW G, NEW st \in Status, pc[c] \in Working,
         SetAll(c, G, st),
         UNCHANGED <<active, held, plan, late, recon, reply, server, cache>>,
         SnapKept(c)
  PROVE  /\ BranchStep(c)
         /\ \A m \in Phys(c) :
                /\ br'[c][m] \in Branch
                /\ br'[c][m].st = IF m \in G THEN st ELSE br[c][m].st
                /\ br'[c][m].refs = br[c][m].refs /\ br'[c][m].on = br[c][m].on
                /\ br'[c][m].entity = br[c][m].entity /\ br'[c][m].intime = br[c][m].intime
<1> DEFINE turned(m) == [br[c][m] EXCEPT !.st = st]
           row == [m \in Phys(c) |-> IF m \in G THEN turned(m) ELSE br[c][m]]
<1>1. TypeOK /\ br[c] \in [Physical(plan[c]) -> Branch] /\ Phys(c) = Physical(plan[c])
  BY DEF IInv, CallInv, Planned, Phys
<1>2. ASSUME NEW m \in Phys(c)
      PROVE  /\ turned(m) \in Branch /\ turned(m).st = st
             /\ turned(m).refs = br[c][m].refs /\ turned(m).on = br[c][m].on
             /\ turned(m).entity = br[c][m].entity /\ turned(m).intime = br[c][m].intime
  <2>1. br[c][m] \in Branch
    BY <1>1
  <2> QED
    BY <2>1, Turned
<1> HIDE DEF turned
<1>3. row \in [Physical(plan[c]) -> Branch]
  BY <1>1, <1>2
<1>4. br' = [br EXCEPT ![c] = row]
  BY DEF turned, SetAll
<1>5. /\ br' = [d \in Calls |-> br'[d]] /\ br'[c] = row
      /\ \A d \in Calls \ {c} : br'[d] = br[d]
  BY <1>1, <1>3, <1>4, AllSet
<1>6. BranchStep(c)
  BY <1>1, <1>3, <1>5 DEF BranchStep, TypeOK
<1>7. \A m \in Phys(c) : row[m] = IF m \in G THEN turned(m) ELSE br[c][m]
  OBVIOUS
<1> HIDE DEF row
<1>8. ASSUME NEW m \in Phys(c)
      PROVE  /\ row[m] \in Branch
             /\ row[m].st = IF m \in G THEN st ELSE br[c][m].st
             /\ row[m].refs = br[c][m].refs /\ row[m].on = br[c][m].on
             /\ row[m].entity = br[c][m].entity /\ row[m].intime = br[c][m].intime
  BY <1>1, <1>2, <1>7
<1> QED
  BY <1>5, <1>6, <1>8

-----------------------------------------------------------------------------
LEMMA PrepareStep ==
  ASSUME IInv, NEW c \in Calls, NEW b \in Phys(c), Prepare(c, b)
  PROVE  IInv'
<1> DEFINE st == IF late[c] THEN "unfit" ELSE "preparing"
           r == [br[c][b] EXCEPT !.st = st]
<1>1. /\ pc[c] \in {"preparing", "running"} /\ br[c][b].st = "todo"
      /\ Set(c, b, r) /\ UNCHANGED <<active, held, pc, plan, late, cache, snap, recon, reply, server>>
      /\ IF pc[c] = "preparing" THEN In(c, {"preparing"}) = {}
                                ELSE Cardinality(Busy(c)) < Workers(c)
  BY DEF Prepare, In, To
<1>2. br[c][b] \in Branch /\ CallInv(c) /\ TypeOK
  BY <1>1 DEF IInv, CallInv, Planned, Working, Phys
<1>3. /\ r \in Branch /\ r.st = st
      /\ r.refs = br[c][b].refs /\ r.entity = br[c][b].entity /\ r.on = br[c][b].on
      /\ r.intime = br[c][b].intime
  <2>1. st \in Status
    BY DEF Status
  <2> HIDE DEF st
  <2> QED
    BY <1>2, <2>1, Turned
<1> HIDE DEF r
<1>4. /\ BranchStep(c) /\ br'[c][b] = r
      /\ \A m \in Phys(c) \ {b} : br'[c][m] = br[c][m]
  BY <1>1, <1>2, <1>3, OneBranch, SnapSame DEF TypeOK, Working
<1>6. Carried(c)'
  <2>1. \A m \in Phys(c) : Sound(c, m, br[c][m])
    BY <1>2 DEF CallInv, Carried
  <2>2. Sound(c, b, r)
    BY <1>3, <2>1 DEF Sound
  <2> QED
    BY <1>1, <1>3, <1>4, <2>1, <2>2, CarriedOn
<1>7. Threads(c)'
  <2>0. Phys(c)' = Phys(c)
    BY <1>4 DEF BranchStep, Phys
  <2>1. CASE pc[c] = "preparing"
    BY <1>1, <1>2, <1>3, <1>4, <2>0, <2>1 DEF CallInv, Threads, In, Ended
  <2>2. CASE pc[c] = "running"
    <3> DEFINE b0 == Busy(c)
               b1 == Busy(c)'
    <3>1. b1 \in SUBSET (b0 \cup {b})
      BY <1>3, <1>4, <2>0 DEF Busy, In
    <3>2. IsFiniteSet(b0) /\ Cardinality(b0) < held[c] /\ held[c] \in Nat
      BY <1>1, <1>2, <2>2, BranchesFinite DEF Workers, Working, TypeOK
    <3> HIDE DEF b0, b1
    <3>3. IsFiniteSet(b0 \cup {b}) /\ Cardinality(b0 \cup {b}) <= held[c]
      <4>1. Cardinality(b0) \in Nat
        BY <3>2, FS_CardinalityType
      <4>2. /\ IsFiniteSet(b0 \cup {b})
            /\ Cardinality(b0 \cup {b}) \in {Cardinality(b0), Cardinality(b0) + 1}
        BY <3>2, FS_AddElement
      <4> QED
        BY <3>2, <4>1, <4>2
    <3>4. Cardinality(b1) <= held[c]
      BY <3>1, <3>2, <3>3, FS_Subset, FS_CardinalityType
    <3> QED
      BY <1>1, <2>2, <3>4 DEF Threads, b1
  <2> QED
    BY <1>1, <2>1, <2>2
<1>8. /\ BranchStep(c) /\ pc[c] \in {"preparing", "running", "grouping"}
      /\ pc' = pc \/ (pc[c] = "preparing" /\ pc' = [pc EXCEPT ![c] = "grouping"])
  BY <1>1, <1>4
<1> QED
  BY <1>6, <1>7, <1>8, BranchKeeps, Zenon

(* A branch leaves the ones at work, or stays there alone: nothing is      *)
(* exceeded.                                                               *)
LEMMA OneLeaves ==
  ASSUME IInv, NEW c \in Calls, NEW b \in Phys(c), NEW r \in Branch, BranchStep(c),
         UNCHANGED pc, br'[c][b] = r,
         \A m \in Phys(c) \ {b} : br'[c][m] = br[c][m],
         \/ /\ pc[c] = "preparing" /\ br[c][b].st = "preparing" /\ r.st \in {"fit", "unfit"}
         \/ /\ pc[c] = "running"
            /\ br[c][b].st \in {"preparing", "fit", "unfit", "querying", "building"}
            /\ r.st # "todo"
         \/ /\ pc[c] = "grouping" /\ r.st \notin {"todo", "preparing"}
            /\ \/ br[c][b].st \in {"querying", "building"}
               \/ /\ In(c, {"querying", "building"} \cup {"raised"}) = {}
                  /\ r.st # "raised"
  PROVE  Threads(c)'
<1>1. Phys(c)' = Phys(c) /\ pc'[c] = pc[c] /\ Threads(c)
  BY DEF BranchStep, Phys, IInv, CallInv
<1>2. \A S, m : m \in In(c, S)' <=>
          m \in Phys(c) /\ IF m = b THEN r.st \in S ELSE br[c][m].st \in S
  BY <1>1 DEF In
<1>3. CASE pc[c] = "preparing"
  BY <1>1, <1>2, <1>3 DEF Threads, Ended, In
<1>4. CASE pc[c] = "running"
  <2>1. Busy(c)' \subseteq Busy(c)
    BY <1>1, <1>2, <1>4 DEF Busy, In
  <2> QED
    BY <1>4, <2>1, FewerBusy
<1>5. CASE pc[c] = "grouping"
  <2>1. In(c, {"todo", "preparing"})' = {}
    BY <1>1, <1>2, <1>5 DEF Threads, In
  <2>2. \A m, n \in In(c, {"querying", "building"})' : m = n
    BY <1>1, <1>2, <1>5 DEF Threads, In
  <2>3. In(c, {"raised"})' # {} => In(c, {"querying", "building"})' = {}
    BY <1>1, <1>2, <1>5 DEF Threads, In
  <2> QED
    BY <1>1, <1>5, <2>1, <2>2, <2>3 DEF Threads
<1> QED
  BY <1>3, <1>4, <1>5

(* The conclusions above for one branch that goes on with what it carries. *)
LEMMA OneGoesOn ==
  ASSUME IInv, NEW c \in Calls, NEW b \in Phys(c), NEW r \in Branch, Set(c, b, r),
         pc[c] \in {"preparing", "running", "grouping"},
         UNCHANGED <<active, held, pc, plan, late, cache, recon, reply, server>>,
         SnapKept(c),
         br[c][b].refs \subseteq r.refs, Sound(c, b, r),
         \/ /\ pc[c] = "preparing" /\ br[c][b].st = "preparing" /\ r.st \in {"fit", "unfit"}
         \/ /\ pc[c] = "running"
            /\ br[c][b].st \in {"preparing", "fit", "unfit", "querying", "building"}
            /\ r.st # "todo"
         \/ /\ pc[c] = "grouping" /\ r.st \notin {"todo", "preparing"}
            /\ \/ br[c][b].st \in {"querying", "building"}
               \/ /\ In(c, {"querying", "building"} \cup {"raised"}) = {}
                  /\ r.st # "raised"
  PROVE  IInv'
<1>1. /\ BranchStep(c) /\ br'[c][b] = r
      /\ \A m \in Phys(c) \ {b} : br'[c][m] = br[c][m]
  BY OneBranch DEF IInv, TypeOK, Working
<1>2. Threads(c)'
  BY <1>1, OneLeaves
<1>3. \A m \in Phys(c) : br[c][m].refs \subseteq br'[c][m].refs /\ Sound(c, m, br'[c][m])
  BY <1>1 DEF IInv, CallInv, Carried
<1>4. Carried(c)'
  BY <1>1, <1>3, CarriedOn
<1> QED
  BY <1>1, <1>2, <1>4, BranchKeeps

(* What is known of a branch of a planned call.                            *)
LEMMA Known ==
  ASSUME IInv, NEW c \in Calls, NEW b \in Phys(c), pc[c] \in Working
  PROVE  /\ br[c][b] \in Branch /\ Sound(c, b, br[c][b])
         /\ CallInv(c) /\ TypeOK
BY DEF IInv, CallInv, Planned, Carried, Phys

LEMMA PreparedStep ==
  ASSUME IInv, NEW c \in Calls, NEW b \in Phys(c), Prepared(c, b)
  PROVE  IInv'
<1>1. /\ pc[c] \in {"preparing", "running"} /\ br[c][b].st = "preparing"
      /\ UNCHANGED <<active, held, pc, plan, late, snap, recon, reply, server>>
  BY DEF Prepared, In
<1>2. br[c][b] \in Branch /\ Sound(c, b, br[c][b]) /\ CallInv(c) /\ TypeOK
  BY <1>1, Known DEF Working
<1> DEFINE x == br[c][b]
<1>3. CASE UNCHANGED cache /\ \E st \in {"fit", "unfit"} : Set(c, b, [x EXCEPT !.st = st])
  <2>1. PICK st \in {"fit", "unfit"} : Set(c, b, [x EXCEPT !.st = st])
    BY <1>3
  <2> DEFINE r == [x EXCEPT !.st = st]
  <2> HIDE DEF x
  <2>2. r \in Branch /\ r.st = st /\ r.refs = x.refs /\ Sound(c, b, r)
    <3>1. st \in Status
      BY DEF Status
    <3>2. x \in Branch /\ Sound(c, b, x)
      BY <1>2 DEF x
    <3> QED
      BY <3>1, <3>2, Turned DEF Sound, Ended
  <2> HIDE DEF r
  <2>3. Set(c, b, r)
    BY <2>1 DEF r
  <2> QED
    BY <1>1, <1>2, <1>3, <2>2, <2>3, OneGoesOn, SnapSame DEF x
<1>4. CASE UNCHANGED cache /\ cache[c] \in Servers
           /\ Set(c, b, [x EXCEPT !.st = "fit", !.entity = cache[c]])
  <2> DEFINE r == [x EXCEPT !.st = "fit", !.entity = cache[c]]
  <2> HIDE DEF x
  <2>1. r \in Branch /\ r.st = "fit" /\ r.refs = x.refs /\ Sound(c, b, r)
    BY <1>2, <1>4 DEF Branch, Sound, x
  <2> HIDE DEF r
  <2>2. Set(c, b, r)
    BY <1>4 DEF r
  <2> QED
    BY <1>1, <1>2, <1>4, <2>1, <2>2, OneGoesOn, SnapSame DEF x
<1>5. CASE \E v \in {server, "failed"} :
               /\ cache[c] = None /\ cache' = [cache EXCEPT ![c] = v]
               /\ IF v = "failed" THEN Set(c, b, [x EXCEPT !.st = "unfit"])
                  ELSE Set(c, b, [x EXCEPT !.st = "fit", !.entity = v, !.refs = {v}])
  <2>1. PICK v \in {server, "failed"} :
               /\ cache[c] = None /\ cache' = [cache EXCEPT ![c] = v]
               /\ IF v = "failed" THEN Set(c, b, [x EXCEPT !.st = "unfit"])
                  ELSE Set(c, b, [x EXCEPT !.st = "fit", !.entity = v, !.refs = {v}])
    BY <1>5
  <2> DEFINE r == IF v = "failed" THEN [x EXCEPT !.st = "unfit"]
                  ELSE [x EXCEPT !.st = "fit", !.entity = v, !.refs = {v}]
  <2>2. v # "failed" => v \in Servers
    BY <1>2 DEF TypeOK
  <2>3. /\ cache[c] = None /\ cache'[c] = v
        /\ \A d \in Calls \ {c} : cache'[d] = cache[d]
        /\ cache' \in [Calls -> Servers \cup {None, "failed"}]
    BY <1>2, <2>1, <2>2 DEF TypeOK
  <2>4. Set(c, b, r)
    BY <2>1
  <2>5. x.entity = None /\ \A m \in Phys(c) : br[c][m].entity = None
    BY <1>2, <2>3, QueryCallAssumption DEF Sound, CallInv, Carried
  <2>10. x \in Branch /\ Sound(c, b, x)
    BY <1>2
  <2> HIDE DEF x
  <2>6. /\ r \in Branch /\ r.st \in {"fit", "unfit"} /\ r.on = x.on
        /\ (v = "failed" => r.entity = None)
        /\ (v # "failed" => r.entity = v /\ r.refs = {v})
    BY <2>2, <2>5, <2>10 DEF Branch
  <2> HIDE DEF r
  <2>7. /\ BranchStep(c) /\ br'[c][b] = r
        /\ \A m \in Phys(c) \ {b} : br'[c][m] = br[c][m]
    BY <1>1, <1>2, <2>3, <2>4, <2>6, OneBranch, SnapSame DEF Working
  <2>8. Threads(c)'
    BY <1>1, <2>6, <2>7, OneLeaves
  <2>9. Carried(c)'
    <3>1. Phys(c)' = Phys(c) /\ plan' = plan
      BY <1>1, <2>7 DEF BranchStep, Phys
    <3>2. \A m \in Phys(c) : Sound(c, m, br[c][m])'
      BY <1>1, <1>2, <2>2, <2>3, <2>5, <2>6, <2>7, <2>10, <3>1, QueryCallAssumption
      DEF Sound, CallInv, Carried, Ended
    <3>3. cache'[c] \in Servers => \E m \in Phys(c) : cache'[c] \in br'[c][m].refs
      BY <2>3, <2>6, <2>7, QueryCallAssumption
    <3>4. snap'[c].root # 0 => snap'[c].src \in Servers
      BY <1>1, <1>2 DEF CallInv, Carried
    <3> QED
      BY <3>1, <3>2, <3>3, <3>4 DEF Carried
  <2>11. pc' = pc /\ pc[c] \in {"preparing", "running", "grouping"}
    BY <1>1
  <2> QED
    BY <2>7, <2>8, <2>9, <2>11, BranchKeeps
<1> QED
  BY <1>2, <1>3, <1>4, <1>5, QueryCallAssumption DEF Prepared, To, TypeOK

(* Branches that fail together, in a call that does not begin another.     *)
LEMMA ManyGoOn ==
  ASSUME IInv, NEW c \in Calls, NEW G, NEW st \in {"failed", "unfit"},
         SetAll(c, G, st),
         UNCHANGED <<active, held, plan, late, recon, reply, server, cache>>,
         SnapKept(c),
         \/ pc' = pc /\ pc[c] \in {"running", "grouping"} /\ st = "failed"
         \/ /\ pc[c] = "preparing" /\ pc' = [pc EXCEPT ![c] = "grouping"]
            /\ In(c, {"todo", "preparing"}) = {}
  PROVE  IInv'
<1>1. TypeOK /\ Threads(c) /\ Carried(c) /\ pc[c] \in Working /\ st \in Status
  BY DEF IInv, CallInv, Working, Status, Ended
<1>2. /\ BranchStep(c)
      /\ \A m \in Phys(c) :
             /\ br'[c][m] \in Branch
             /\ br'[c][m].st = IF m \in G THEN st ELSE br[c][m].st
             /\ br'[c][m].refs = br[c][m].refs /\ br'[c][m].on = br[c][m].on
             /\ br'[c][m].entity = br[c][m].entity /\ br'[c][m].intime = br[c][m].intime
  BY <1>1, ManyBranches
<1>3. Phys(c)' = Phys(c) /\ plan' = plan
  BY <1>2 DEF BranchStep, Phys
<1>4. \A S : st \notin S => In(c, S)' \subseteq In(c, S)
  BY <1>2, <1>3 DEF In
<1>5. Carried(c)'
  <2>1. \A m \in Phys(c) : Sound(c, m, br[c][m])'
    BY <1>1, <1>2, <1>3 DEF Sound, Carried, BranchStep, SnapKept
  <2>2. snap'[c].root # 0 => snap'[c].src \in Servers
    BY <1>1, <1>2 DEF Carried, BranchStep, SnapKept
  <2>3. cache'[c] \in Servers => \E m \in Phys(c) : cache'[c] \in br'[c][m].refs
    BY <1>1, <1>2 DEF Carried
  <2> QED
    BY <1>3, <2>1, <2>2, <2>3 DEF Carried
<1>6. Threads(c)'
  <2>1. CASE pc' = pc /\ pc[c] = "running" /\ st = "failed"
    <3>1. Busy(c)' \subseteq Busy(c)
      BY <1>2, <1>3, <2>1 DEF Busy, In
    <3> QED
      BY <1>2, <2>1, <3>1, FewerBusy
  <2>2. CASE pc' = pc /\ pc[c] = "grouping" /\ st = "failed"
    BY <1>1, <1>4, <2>2 DEF Threads
  <2>3. CASE /\ pc[c] = "preparing" /\ pc' = [pc EXCEPT ![c] = "grouping"]
             /\ In(c, {"todo", "preparing"}) = {}
    <3>1. /\ In(c, {"todo", "preparing"})' = {}
          /\ In(c, {"querying", "building"})' = {}
      BY <1>1, <1>2, <1>3, <2>3 DEF Threads, In, Ended
    <3>2. pc'[c] = "grouping"
      BY <1>1, <2>3 DEF TypeOK
    <3> QED
      BY <3>1, <3>2 DEF Threads
  <2> QED
    BY <2>1, <2>2, <2>3
<1>7. /\ pc[c] \in {"preparing", "running", "grouping"}
      /\ pc' = pc \/ (pc[c] = "preparing" /\ pc' = [pc EXCEPT ![c] = "grouping"])
  OBVIOUS
<1> QED
  BY <1>2, <1>5, <1>6, <1>7, BranchKeeps

LEMMA BlockStep ==
  ASSUME IInv, NEW c \in Calls, Block(c)
  PROVE  IInv'
<1> DEFINE G == {b \in Phys(c) : plan[c][(b + 1) \div 2] = "decompose" /\ b % 2 = 0
                                     /\ br[c][b - 1].st = "unfit"}
<1>1. SetAll(c, G, "unfit")
  BY DEF Block, SetAll
<1>2. /\ UNCHANGED <<active, held, plan, late, recon, reply, server, cache>>
      /\ SnapKept(c)
      /\ pc[c] = "preparing" /\ pc' = [pc EXCEPT ![c] = "grouping"]
      /\ In(c, {"todo", "preparing"}) = {}
  BY SnapSame DEF Block, IInv
<1> HIDE DEF G
<1> QED
  BY <1>1, <1>2, ManyGoOn

LEMMA OpenSnapshotStep ==
  ASSUME IInv, NEW c \in Calls, NEW b \in Phys(c), OpenSnapshot(c, b)
  PROVE  IInv'
<1>1. /\ pc[c] = "grouping" /\ UNCHANGED <<active, held, pc, plan, late, cache, recon, reply, server>>
      /\ TypeOK /\ Threads(c) /\ Carried(c) /\ br[c] \in [Physical(plan[c]) -> Branch]
  BY DEF OpenSnapshot, IInv, CallInv, Planned, Working
<1>2. CASE UNCHANGED br
           /\ snap' = [snap EXCEPT ![c] = [root |-> Root(plan[c], b), src |-> server,
                                           poisoned |-> FALSE]]
  <2>1. Root(plan[c], b) \in Nat
    <3>1. plan[c] \in Seq(STRING) /\ Phys(c) = Physical(plan[c])
      BY <1>1 DEF IInv, CallInv, Planned, Phys
    <3>2. Physical(plan[c]) \subseteq Nat
      BY <3>1, PlanBranches
    <3> QED
      BY <3>1, <3>2 DEF Root, Grouped
  <2>2. SnapKept(c)
    BY <1>1, <1>2, <2>1 DEF TypeOK, SnapKept
  <2>3. BranchStep(c) /\ Phys(c)' = Phys(c)
    BY <1>1, <1>2, <2>2 DEF BranchStep, TypeOK, Phys
  <2>4. Threads(c)'
    BY <1>1, <1>2, <2>3 DEF Threads, In, Busy, Phys
  <2>5. Carried(c)'
    BY <1>1, <1>2, <2>2, <2>3 DEF Carried, Sound, SnapKept
  <2> QED
    BY <1>1, <2>3, <2>4, <2>5, BranchKeeps
<1>3. CASE UNCHANGED snap /\ SetAll(c, Members(plan[c], Root(plan[c], b)), "failed")
  <2> DEFINE G == Members(plan[c], Root(plan[c], b))
  <2>1. SetAll(c, G, "failed")
    BY <1>3
  <2> HIDE DEF G
  <2>2. SnapKept(c)
    BY <1>1, <1>3, SnapSame
  <2> QED
    BY <1>1, <2>1, <2>2, ManyGoOn
<1> QED
  BY <1>2, <1>3 DEF OpenSnapshot, SetAll

LEMMA RunStep ==
  ASSUME IInv, NEW c \in Calls, NEW b \in Phys(c), Run(c, b)
  PROVE  IInv'
<1>1. /\ UNCHANGED <<active, held, pc, plan, late, cache, snap, recon, reply, server>>
      /\ br[c][b].st \in {"fit", "unfit"}
      /\ \/ pc[c] = "running"
         \/ pc[c] = "grouping" /\ In(c, {"querying", "building"} \cup {"raised"}) = {}
  BY DEF Run, NextUp, In
<1>2. br[c][b] \in Branch /\ Sound(c, b, br[c][b]) /\ CallInv(c) /\ TypeOK
  BY <1>1, Known DEF Working
<1> DEFINE x == br[c][b]
           on == IF pc[c] = "grouping" /\ InSnapshot(c, b) THEN snap[c].root ELSE 0
<1>3. CASE Set(c, b, [x EXCEPT !.st = "failed"])
  <2> DEFINE r == [x EXCEPT !.st = "failed"]
  <2>1. x \in Branch /\ Sound(c, b, x) /\ "failed" \in Status
    BY <1>2 DEF Status, Ended
  <2> HIDE DEF x
  <2>2. r \in Branch /\ r.st = "failed" /\ r.refs = x.refs /\ Sound(c, b, r)
    BY <2>1, Turned DEF Sound
  <2>3. Set(c, b, r)
    BY <1>3
  <2> HIDE DEF r
  <2> QED
    BY <1>1, <1>2, <2>2, <2>3, OneGoesOn, SnapSame DEF x
<1>4. CASE Set(c, b, [x EXCEPT !.st = "querying", !.on = on])
  <2> DEFINE r == [x EXCEPT !.st = "querying", !.on = on]
  <2>1. on \in Nat /\ (on # 0 => on = Root(plan[c], b) /\ snap[c].src \in Servers)
    BY <1>2 DEF Run, TypeOK, CallInv, Carried
  <2>2. x \in Branch /\ Sound(c, b, x)
    BY <1>2
  <2> HIDE DEF x, on
  <2>3. r \in Branch /\ r.st = "querying" /\ r.refs = x.refs /\ Sound(c, b, r)
    BY <2>1, <2>2 DEF Branch, Sound
  <2>4. Set(c, b, r)
    BY <1>4
  <2> HIDE DEF r
  <2> QED
    BY <1>1, <1>2, <2>3, <2>4, OneGoesOn, SnapSame DEF x
<1> QED
  BY <1>3, <1>4 DEF Run, To

(* A statement under way belongs to a call that runs its branches.         *)
LEMMA AtWork ==
  ASSUME IInv, NEW c \in Calls, NEW b \in Phys(c), br[c][b].st \in {"querying", "building"}
  PROVE  pc[c] \in {"running", "grouping"}
<1>1. b \in In(c, {"querying", "building"}) /\ Threads(c) /\ Planned(c) /\ pc[c] \in Stages
  BY DEF In, IInv, CallInv, TypeOK
<1>2. Phys(c) # {}
  OBVIOUS
<1> QED
  BY <1>1, <1>2 DEF Threads, Planned, Stages, In, Phys, Ended

LEMMA QueriedStep ==
  ASSUME IInv, NEW c \in Calls, NEW b \in Phys(c), Queried(c, b)
  PROVE  IInv'
<1> DEFINE x == br[c][b]
           src == IF x.on = 0 THEN server ELSE snap[c].src
           refs == x.refs \cup {src}
<1>1. /\ UNCHANGED <<active, held, pc, plan, late, cache, recon, reply, server>>
      /\ x.st = "querying"
  BY DEF Queried, In
<1>2. pc[c] \in {"running", "grouping"}
  BY <1>1, AtWork
<1>3. x \in Branch /\ Sound(c, b, x) /\ CallInv(c) /\ TypeOK
  BY <1>2, Known DEF Working
<1>4. src \in Servers
  BY <1>3 DEF Sound, TypeOK
<1>5. ASSUME NEW known \in {x.refs, refs}, NEW st \in {"failed", "building", "raised"},
             Set(c, b, [x EXCEPT !.refs = known, !.st = st]), SnapKept(c)
      PROVE  IInv'
  <2> DEFINE r == [x EXCEPT !.refs = known, !.st = st]
  <2>1. known \subseteq Servers /\ x.refs \subseteq known
    BY <1>3, <1>4, <1>5 DEF Branch
  <2>2. x \in Branch /\ Sound(c, b, x)
    BY <1>3
  <2>3. x.st = "querying"
    BY <1>1
  <2> HIDE DEF x
  <2>4. r \in Branch /\ r.st = st /\ r.refs = known /\ Sound(c, b, r)
    BY <2>1, <2>2 DEF Branch, Sound, Ended
  <2>5. Set(c, b, r)
    BY <1>5
  <2> HIDE DEF r
  <2> QED
    BY <1>1, <1>2, <1>5, <2>1, <2>3, <2>4, <2>5, OneGoesOn DEF x
<1>6. CASE To(c, b, "failed") /\ UNCHANGED snap
  <2>1. [x EXCEPT !.refs = x.refs, !.st = "failed"] = [x EXCEPT !.st = "failed"]
    <3>1. x \in Branch
      BY <1>3
    <3> HIDE DEF x
    <3> QED
      BY <3>1 DEF Branch
  <2>2. Set(c, b, [x EXCEPT !.refs = x.refs, !.st = "failed"])
    BY <1>6, <2>1 DEF To
  <2> QED
    BY <1>3, <1>5, <1>6, <2>2, SnapSame
<1>7. CASE Set(c, b, [x EXCEPT !.st = "building", !.refs = refs]) /\ UNCHANGED snap
  <2>1. [x EXCEPT !.refs = refs, !.st = "building"] = [x EXCEPT !.st = "building", !.refs = refs]
    <3>1. x \in Branch
      BY <1>3
    <3> HIDE DEF x
    <3> QED
      BY <3>1 DEF Branch
  <2>2. Set(c, b, [x EXCEPT !.refs = refs, !.st = "building"])
    BY <1>7, <2>1
  <2> QED
    BY <1>3, <1>5, <1>7, <2>2, SnapSame
<1>8. CASE \E known \in {x.refs, refs} : Fails(c, b, known)
  <2>1. PICK known \in {x.refs, refs} : Fails(c, b, known)
    BY <1>8
  <2> DEFINE st == IF Cardinality(known) > 1 THEN "raised" ELSE "failed"
             poison == [snap EXCEPT ![c].poisoned = TRUE]
  <2>2. snap' = snap \/ snap' = poison
    BY <2>1 DEF Fails
  <2>3. SnapKept(c)
    <3>1. ASSUME snap' = poison PROVE SnapKept(c)
      <4> DEFINE S == [root : Nat, src : Servers \cup {None}, poisoned : BOOLEAN]
                 o == snap[c]
                 n == [o EXCEPT !.poisoned = TRUE]
      <4>1. snap \in [Calls -> S] /\ o \in S
        BY <1>3 DEF TypeOK
      <4>2. snap' = [snap EXCEPT ![c] = n]
        BY <3>1
      <4> HIDE DEF o
      <4>3. n \in S /\ n.root = o.root /\ n.src = o.src
        BY <4>1
      <4> HIDE DEF n, S
      <4>4. /\ snap' \in [Calls -> S] /\ snap'[c] = n
            /\ \A d \in Calls \ {c} : snap'[d] = snap[d]
        BY <4>1, <4>2, <4>3
      <4> QED
        BY <4>3, <4>4 DEF SnapKept, o, S
    <3> QED
      BY <1>3, <2>2, <3>1, SnapSame
  <2>4. CASE Set(c, b, [x EXCEPT !.refs = known, !.st = st])
    BY <1>5, <2>1, <2>3, <2>4
  <2>5. CASE SetAll(c, Members(plan[c], Root(plan[c], b)), "failed")
    <3> DEFINE G == Members(plan[c], Root(plan[c], b))
    <3>1. SetAll(c, G, "failed")
      BY <2>5
    <3> HIDE DEF G
    <3> QED
      BY <1>1, <1>2, <2>3, <3>1, ManyGoOn
  <2> QED
    BY <2>1, <2>4, <2>5 DEF Fails, Set, SetAll
<1> QED
  BY <1>6, <1>7, <1>8 DEF Queried

LEMMA BuildStep ==
  ASSUME IInv, NEW c \in Calls, NEW b \in Phys(c), Build(c, b)
  PROVE  IInv'
<1> DEFINE x == br[c][b]
<1>1. /\ UNCHANGED <<active, held, pc, plan, late, cache, snap, recon, reply, server>>
      /\ x.st = "building"
  BY DEF Build, In
<1>2. pc[c] \in {"running", "grouping"}
  BY <1>1, AtWork
<1>3. x \in Branch /\ Sound(c, b, x) /\ CallInv(c) /\ TypeOK
  BY <1>2, Known DEF Working
<1>4. CASE ~late[c] /\ Set(c, b, [x EXCEPT !.st = "success", !.intime = ~late[c]])
  <2> DEFINE r == [x EXCEPT !.st = "success", !.intime = TRUE]
  <2>1. (~late[c]) = TRUE
    BY <1>4
  <2>2. Set(c, b, r)
    BY <1>4, <2>1, Zenon
  <2>3. x \in Branch /\ Sound(c, b, x) /\ x.st = "building"
    BY <1>1, <1>3
  <2> HIDE DEF x
  <2>4. r \in Branch /\ r.st = "success" /\ r.refs = x.refs /\ Sound(c, b, r)
    BY <2>3 DEF Branch, Sound, Ended
  <2> HIDE DEF r
  <2> QED
    BY <1>1, <1>2, <1>3, <2>2, <2>3, <2>4, OneGoesOn, SnapSame DEF x
<1>5. CASE To(c, b, "failed")
  <2> DEFINE r == [x EXCEPT !.st = "failed"]
  <2>1. x \in Branch /\ Sound(c, b, x) /\ x.st = "building" /\ "failed" \in Status
    BY <1>1, <1>3 DEF Status, Ended
  <2>2. Set(c, b, r)
    BY <1>5 DEF To
  <2> HIDE DEF x
  <2>3. r \in Branch /\ r.st = "failed" /\ r.refs = x.refs /\ Sound(c, b, r)
    BY <2>1, Turned DEF Sound
  <2> HIDE DEF r
  <2> QED
    BY <1>1, <1>2, <1>3, <2>1, <2>2, <2>3, OneGoesOn, SnapSame DEF x
<1> QED
  BY <1>4, <1>5 DEF Build

-----------------------------------------------------------------------------
(* A step of one call leaves the others alone.                             *)
Others(c) ==
    \A d \in Calls \ {c} :
        /\ br'[d] = br[d] /\ pc'[d] = pc[d] /\ held'[d] = held[d] /\ cache'[d] = cache[d]
        /\ snap'[d] = snap[d] /\ recon'[d] = recon[d] /\ reply'[d] = reply[d]
        /\ late'[d] = late[d]

LEMMA CallKeeps ==
  ASSUME IInv, NEW c \in Calls, Others(c), plan' = plan, TypeOK', Slotted', CallInv(c)'
  PROVE  IInv'
<1>1. ASSUME NEW d \in Calls \ {c} PROVE CallInv(d)'
  BY <1>1, LeftAlone DEF IInv, Others
<1> QED
  BY <1>1 DEF IInv

(* What an answer of a call that had begun leaves to show.                 *)
LEMMA AnswerKeeps ==
  ASSUME IInv, NEW c \in Calls, NEW r \in Reply, Answer(c, r),
         pc[c] \in {"planning", "authorizing", "rendering", "failing", "aborting"},
         UNCHANGED <<plan, late, cache, snap, recon, server>>,
         br' = [d \in Calls |-> br'[d]], \A d \in Calls \ {c} : br'[d] = br[d],
         br'[c] = <<>> \/ br'[c] \in [Physical(plan[c]) -> Branch],
         Threads(c)', Carried(c)', Told(c)', Honest(c)'
  PROVE  IInv'
<1>1. TypeOK /\ Slotted /\ Planned(c)
  BY DEF IInv, CallInv
<1>2. /\ active' \in Nat /\ held' \in [Calls -> Nat] /\ pc' \in [Calls -> Stages]
      /\ reply' \in [Calls -> Reply]
  BY <1>1, AnswerTyped
<1>3. Slotted'
  BY <1>1, AnswerSlotted
<1>4. TypeOK'
  <2>1. \A d \in Calls : br'[d] = <<>> \/ br'[d] \in [Physical(plan'[d]) -> Branch]
    BY <1>1 DEF TypeOK
  <2> QED
    BY <1>1, <1>2, <2>1 DEF TypeOK, Reply
<1>5. Others(c) /\ pc'[c] = "done"
  BY <1>1 DEF Answer, Others, TypeOK
<1>6. Planned(c)'
  BY <1>1, <1>5 DEF Planned, Working
<1> QED
  BY <1>3, <1>4, <1>5, <1>6, CallKeeps DEF CallInv

LEMMA ArriveStep ==
  ASSUME IInv, NEW c \in Calls, Arrive(c)
  PROVE  IInv'
<1>1. /\ pc[c] = "idle" /\ UNCHANGED <<plan, late, br, cache, snap, recon, server>>
      /\ TypeOK /\ Slotted /\ CallInv(c) /\ plan[c] \in Seq(STRING)
      /\ br[c] = <<>> /\ reply[c] = NoReply /\ recon[c] = {} /\ held[c] = 0
  BY PlanType DEF Arrive, IInv, CallInv, Planned, Told, Slotted, TypeOK
<1>2. Phys(c) = {} /\ Phys(c)' = {}
  BY <1>1 DEF Phys
<1>3. Carried(c)'
  BY <1>1, <1>2 DEF CallInv, Carried, Sound
<1>4. CASE active < Capacity
  <2>1. /\ active' = active + 1 /\ held' = [held EXCEPT ![c] = @ + 1]
        /\ pc' = [pc EXCEPT ![c] = "planning"] /\ UNCHANGED reply
    BY <1>1, <1>4 DEF Arrive, TypeOK
  <2>2. TypeOK'
    BY <1>1, <2>1 DEF TypeOK, Stages
  <2>3. Slotted'
    <3>1. IsFiniteSet(Slots') /\ Cardinality(Slots') = Cardinality(Slots) + 1
      <4>1. held \in [Calls -> Nat] /\ IsFiniteSet(Slots)
        BY <1>1 DEF Slotted, TypeOK
      <4> QED
        BY <2>1, <4>1, SlotTaken
    <3>2. active' = Cardinality(Slots') /\ active' <= Capacity
      BY <1>1, <1>4, <2>1, <3>1, QueryCallAssumption DEF Slotted, TypeOK
    <3>3. /\ pc'[c] = "planning" /\ held'[c] = 1
          /\ \A d \in Calls \ {c} : pc'[d] = pc[d] /\ held'[d] = held[d]
      BY <1>1, <2>1 DEF TypeOK
    <3> QED
      BY <1>1, <3>1, <3>2, <3>3 DEF Slotted
  <2>4. Others(c) /\ pc'[c] = "planning"
    BY <1>1, <2>1 DEF Others, TypeOK
  <2>5. Planned(c)' /\ Threads(c)' /\ Told(c)' /\ Honest(c)'
    BY <1>1, <2>1, <2>4 DEF Planned, Threads, Told, Honest, Working, NoReply
  <2> QED
    BY <1>1, <1>3, <2>2, <2>3, <2>4, <2>5, CallKeeps DEF CallInv
<1>5. CASE ~(active < Capacity)
  <2> DEFINE r == [Refused EXCEPT !.kind = "limit"]
  <2>1. /\ reply' = [reply EXCEPT ![c] = r] /\ pc' = [pc EXCEPT ![c] = "done"]
        /\ UNCHANGED <<active, held>>
    BY <1>5 DEF Arrive
  <2>2. r \in Reply /\ r.kind = "limit" /\ r.ok = {} /\ r.recon = {}
    BY DEF Refused, Reply
  <2> HIDE DEF r
  <2>3. TypeOK'
    BY <1>1, <2>1, <2>2 DEF TypeOK, Stages, Reply
  <2>4. Slotted'
    BY <1>1, <2>1 DEF Slotted, Slots, TypeOK
  <2>5. Others(c) /\ pc'[c] = "done" /\ reply'[c] = r
    BY <1>1, <2>1 DEF Others, TypeOK
  <2>6. Planned(c)' /\ Threads(c)' /\ Told(c)' /\ Honest(c)'
    BY <1>1, <1>2, <2>2, <2>5 DEF Planned, Threads, Told, Honest, Working, In
  <2> QED
    BY <1>1, <1>3, <2>3, <2>4, <2>5, <2>6, CallKeeps DEF CallInv
<1> QED
  BY <1>4, <1>5

LEMMA ResolveStep ==
  ASSUME IInv, NEW c \in Calls, Resolve(c)
  PROVE  IInv'
<1>1. /\ pc[c] = "planning" /\ UNCHANGED <<plan, late, br, cache, snap, recon, server>>
      /\ TypeOK /\ CallInv(c) /\ plan[c] = <<>> /\ br[c] = <<>> /\ recon[c] = {}
      /\ plan[c] \in Seq(STRING)
  BY DEF Resolve, IInv, CallInv, Planned, Told
<1>2. Phys(c) = {} /\ Phys(c)' = {} /\ Public(c)' = {}
  BY <1>1 DEF Phys, Public
<1>3. Carried(c)'
  BY <1>1, <1>2 DEF CallInv, Carried, Sound
<1> DEFINE full == [kind |-> "full", ok |-> {}, recon |-> {}]
<1>4. PICK r : Answer(c, r) /\ ((r = full /\ ~late[c]) \/ r = Refused)
  BY DEF Resolve
<1>5. r \in Reply /\ r.kind \in {"full", "failed"} /\ r.ok = {} /\ r.recon = {}
      /\ (r.kind = "full" => ~late[c])
  BY <1>4 DEF Refused, Reply
<1> HIDE DEF full
<1>6. reply'[c] = r /\ pc'[c] = "done"
  BY <1>1, <1>4 DEF Answer, TypeOK
<1>7. Threads(c)' /\ Told(c)' /\ Honest(c)'
  BY <1>1, <1>2, <1>5, <1>6 DEF Threads, Told, Honest, In
<1>8. br' = [d \in Calls |-> br'[d]] /\ \A d \in Calls \ {c} : br'[d] = br[d]
  BY <1>1 DEF TypeOK
<1> QED
  BY <1>1, <1>3, <1>4, <1>5, <1>7, <1>8, AnswerKeeps

(* The parts of a deadline answer.                                         *)
LEMMA DeadlineParts ==
  ASSUME NEW c \in Calls, NEW got
  PROVE  LET r == DeadlineReply(c, got) IN
         /\ r.kind = "deadline" /\ r.recon = {}
         /\ \A p \in r.ok : p \in Public(c) /\ 2 * p \in got /\ br[c][2 * p].st = "success"
         /\ got = {} => r.ok = {}
BY DEF DeadlineReply

LEMMA PlanStep ==
  ASSUME IInv, NEW c \in Calls, Plan(c)
  PROVE  IInv'
<1> DEFINE new == [st |-> "todo", refs |-> {}, entity |-> None, on |-> 0, intime |-> FALSE]
           row == [b \in Physical(plan[c]) |-> new]
<1>1. /\ pc[c] = "planning" /\ UNCHANGED <<plan, late, cache, snap, recon, server>>
      /\ br' = [br EXCEPT ![c] = row]
      /\ TypeOK /\ Slotted /\ CallInv(c) /\ plan[c] \in Seq(STRING)
      /\ br[c] = <<>> /\ recon[c] = {} /\ reply[c] = NoReply
  BY DEF Plan, IInv, CallInv, Planned, Told
<1>2. row \in [Physical(plan[c]) -> Branch]
  BY DEF Branch
<1>3. /\ br' = [d \in Calls |-> br'[d]] /\ br'[c] = row
      /\ \A d \in Calls \ {c} : br'[d] = br[d]
  <2> HIDE DEF row
  <2> QED
    BY <1>1, <1>2, AllSet
<1>4. /\ \A b \in Phys(c)' : br'[c][b] = new
      /\ \A b \in Phys(c)' : br'[c][b].st = "todo"
  BY <1>3 DEF Phys
<1>5. Carried(c)'
  <2>1. \A b \in Phys(c)' : Sound(c, b, br[c][b])'
    BY <1>4 DEF Sound
  <2>2. cache[c] \notin Servers
    BY <1>1 DEF CallInv, Carried, Phys
  <2>3. snap'[c].root # 0 => snap'[c].src \in Servers
    BY <1>1 DEF CallInv, Carried
  <2> QED
    BY <1>1, <2>1, <2>2, <2>3 DEF Carried
<1>6. \A S : "todo" \notin S => In(c, S)' = {}
  BY <1>4 DEF In, Phys
<1>7. CASE late[c]
  <2> DEFINE r == DeadlineReply(c, {})
  <2>1. Answer(c, r)
    BY <1>7 DEF Plan
  <2>2. r \in Reply
    BY <1>1, ReplyTypes
  <2>3. r.kind = "deadline" /\ r.recon = {} /\ r.ok = {}
    BY DeadlineParts
  <2> HIDE DEF r, row
  <2>4. pc'[c] = "done" /\ reply'[c] = r
    BY <1>1, <2>1 DEF Answer, TypeOK
  <2>5. Threads(c)' /\ Told(c)' /\ Honest(c)'
    BY <1>1, <1>6, <1>7, <2>3, <2>4 DEF Threads, Told, Honest
  <2> QED
    BY <1>1, <1>2, <1>3, <1>5, <2>1, <2>2, <2>5, AnswerKeeps
<1>8. CASE ~late[c]
  <2> DEFINE s == IF Linked(plan[c]) THEN "preparing"
                  ELSE IF ParallelSafe(plan[c]) THEN "leasing" ELSE "running"
  <2>1. pc' = [pc EXCEPT ![c] = s] /\ UNCHANGED <<active, held, reply>>
    BY <1>8 DEF Plan
  <2>2. s \in {"preparing", "leasing", "running"}
    OBVIOUS
  <2> HIDE DEF s, row
  <2>3. Slotted'
    BY <1>1, <2>1, <2>2, StaysAtWork DEF Stages, Slotted
  <2>4. TypeOK'
    BY <1>1, <1>2, <1>3, <2>1, <2>2 DEF TypeOK, Stages
  <2>5. Others(c) /\ pc'[c] = s
    BY <1>1, <1>3, <2>1 DEF Others, TypeOK
  <2>6. Planned(c)' /\ Told(c)' /\ Honest(c)'
    BY <1>1, <1>2, <1>3, <2>1, <2>2, <2>5 DEF Planned, Told, Honest, Working, NoReply
  <2>7. Threads(c)'
    <3>1. Cardinality(Busy(c)') = 0 /\ held'[c] \in Nat
      BY <1>1, <1>6, <2>1, FS_EmptySet DEF Busy, TypeOK
    <3>2. Cardinality(Busy(c))' <= held'[c]
      BY <3>1
    <3> QED
      BY <1>4, <1>6, <2>2, <2>5, <3>2 DEF Threads, In, Ended
  <2> QED
    BY <1>1, <1>5, <2>3, <2>4, <2>5, <2>6, <2>7, CallKeeps DEF CallInv
<1> QED
  BY <1>7, <1>8

LEMMA LeaseStep ==
  ASSUME IInv, NEW c \in Calls, Lease(c)
  PROVE  IInv'
<1>1. /\ pc[c] = "leasing" /\ UNCHANGED <<plan, late, br, cache, snap, recon, reply, server>>
      /\ TypeOK /\ Slotted /\ CallInv(c) /\ reply[c] = NoReply /\ held[c] # 0
      /\ \A b \in Phys(c) : br[c][b].st = "todo"
  BY DEF Lease, IInv, CallInv, Planned, Slotted, Threads
<1>2. Carried(c)' /\ Phys(c)' = Phys(c)
  BY <1>1 DEF CallInv, Carried, Sound, Phys
<1>3. CASE held[c] < Cardinality(Physical(plan[c])) /\ active < Capacity
  <2>1. active' = active + 1 /\ held' = [held EXCEPT ![c] = @ + 1] /\ UNCHANGED pc
    BY <1>3 DEF Lease
  <2>2. IsFiniteSet(Slots') /\ Cardinality(Slots') = Cardinality(Slots) + 1
    <3>1. held \in [Calls -> Nat] /\ IsFiniteSet(Slots)
      BY <1>1 DEF Slotted, TypeOK
    <3> QED
      BY <2>1, <3>1, SlotTaken
  <2>3. active' = Cardinality(Slots') /\ active' <= Capacity
    BY <1>1, <1>3, <2>1, <2>2, QueryCallAssumption DEF Slotted, TypeOK
  <2>4. /\ held'[c] = held[c] + 1 /\ held[c] \in Nat
        /\ \A d \in Calls \ {c} : held'[d] = held[d]
    BY <1>1, <2>1 DEF TypeOK
  <2>5. Slotted'
    BY <1>1, <2>1, <2>2, <2>3, <2>4 DEF Slotted
  <2>6. TypeOK' /\ Others(c)
    BY <1>1, <2>1 DEF TypeOK, Others
  <2>7. Planned(c)' /\ Threads(c)' /\ Told(c)' /\ Honest(c)'
    BY <1>1, <1>2, <2>1 DEF CallInv, Planned, Threads, Told, Honest, NoReply
  <2> QED
    BY <1>1, <1>2, <2>5, <2>6, <2>7, CallKeeps DEF CallInv
<1>4. CASE pc' = [pc EXCEPT ![c] = "running"] /\ UNCHANGED <<active, held>>
  <2>1. Slotted'
    BY <1>1, <1>4, StaysAtWork DEF Stages
  <2>2. TypeOK'
    BY <1>1, <1>4 DEF TypeOK, Stages
  <2>3. Others(c) /\ pc'[c] = "running"
    BY <1>1, <1>4 DEF TypeOK, Others
  <2>4. Planned(c)' /\ Told(c)' /\ Honest(c)'
    BY <1>1, <2>3 DEF CallInv, Planned, Told, Honest, NoReply, Working
  <2>5. Threads(c)'
    <3>1. Busy(c)' = {}
      BY <1>1, <1>2 DEF Busy, In
    <3>2. Cardinality(Busy(c)') = 0 /\ held'[c] \in Nat
      BY <1>1, <1>4, <3>1, FS_EmptySet DEF TypeOK
    <3>3. Cardinality(Busy(c))' <= held'[c]
      BY <3>2
    <3> QED
      BY <2>3, <3>3 DEF Threads
  <2> QED
    BY <1>1, <1>2, <2>1, <2>2, <2>3, <2>4, <2>5, CallKeeps DEF CallInv
<1> QED
  BY <1>3, <1>4 DEF Lease

LEMMA CollectStep ==
  ASSUME IInv, NEW c \in Calls, Collect(c)
  PROVE  IInv'
<1> DEFINE s == IF In(c, {"raised"}) = {} THEN "authorizing"
                ELSE IF pc[c] = "running" /\ Workers(c) = 1 THEN "failing"
                ELSE "aborting"
<1>1. /\ pc[c] \in {"running", "grouping"}
      /\ UNCHANGED <<plan, late, br, cache, snap, recon, reply, server>>
      /\ pc' = [pc EXCEPT ![c] = s] /\ s \in {"authorizing", "failing", "aborting"}
      /\ held' = [held EXCEPT ![c] = 1] /\ active' = active - (held[c] - 1)
      /\ TypeOK /\ Slotted /\ CallInv(c) /\ reply[c] = NoReply
  BY DEF Collect, IInv, CallInv, Planned
<1> HIDE DEF s
<1>2. held[c] \in Nat /\ 1 <= held[c]
  <2>1. held[c] # 0 /\ held[c] \in Nat
    BY <1>1 DEF Slotted, TypeOK
  <2> QED
    BY <2>1
<1>3. IsFiniteSet(Slots') /\ Cardinality(Slots') = Cardinality(Slots) - (held[c] - 1)
  <2>1. held \in [Calls -> Nat] /\ IsFiniteSet(Slots)
    BY <1>1 DEF Slotted, TypeOK
  <2> QED
    BY <1>1, <1>2, <2>1, SlotsReturned
<1>4. Cardinality(Slots') \in Nat
  BY <1>3, FS_CardinalityType
<1>5. active' = Cardinality(Slots') /\ active' \in Nat /\ active' <= Capacity
  BY <1>1, <1>2, <1>3, <1>4, QueryCallAssumption DEF Slotted, TypeOK
<1>6. Others(c) /\ pc'[c] = s /\ held'[c] = 1
  BY <1>1 DEF Others, TypeOK
<1>7. Slotted'
  BY <1>1, <1>3, <1>5, <1>6 DEF Slotted, Others
<1>8. TypeOK'
  BY <1>1, <1>5 DEF TypeOK, Stages
<1>9. Phys(c)' = Phys(c) /\ Carried(c)'
  BY <1>1 DEF Phys, CallInv, Carried, Sound
<1>10. Planned(c)' /\ Told(c)' /\ Honest(c)'
  BY <1>1, <1>6 DEF CallInv, Planned, Told, Honest, NoReply, Working
<1>11. Threads(c)'
  <2>1. In(c, {"preparing", "querying", "building"}) = {}
    BY <1>1 DEF Collect, Over, Busy, In, CallInv, Threads
  <2>2. In(c, {"preparing", "querying", "building"})' = {}
    BY <1>1, <1>9, <2>1 DEF In
  <2> QED
    BY <1>1, <1>6, <2>2 DEF Threads
<1> QED
  BY <1>1, <1>6, <1>7, <1>8, <1>9, <1>10, <1>11, CallKeeps DEF CallInv

(* An answer given up at the deadline names only results finished in time. *)
LEMMA DeadlineKeeps ==
  ASSUME IInv, NEW c \in Calls, late[c], NEW got \in SUBSET Phys(c),
         pc[c] \in {"authorizing", "rendering", "failing", "aborting"},
         Answer(c, DeadlineReply(c, got)),
         UNCHANGED <<plan, late, br, cache, snap, recon, server>>
  PROVE  IInv'
<1> DEFINE r == DeadlineReply(c, got)
<1>1. /\ TypeOK /\ CallInv(c) /\ plan[c] \in Seq(STRING)
      /\ br[c] \in [Physical(plan[c]) -> Branch]
  BY DEF IInv, CallInv, Planned, Working
<1>2. r \in Reply
  BY <1>1, ReplyTypes
<1>3. /\ r.kind = "deadline" /\ r.recon = {}
      /\ \A p \in r.ok : p \in Public(c) /\ 2 * p \in Phys(c) /\ br[c][2 * p].st = "success"
  BY DeadlineParts
<1>4. Answer(c, r)
  OBVIOUS
<1> HIDE DEF r
<1>5. pc'[c] = "done" /\ reply'[c] = r
  BY <1>1, <1>4 DEF Answer, TypeOK
<1>6. Phys(c)' = Phys(c) /\ \A S : In(c, S)' = In(c, S)
  BY DEF Phys, In
<1>7. Threads(c)' /\ Carried(c)'
  BY <1>1, <1>5, <1>6 DEF CallInv, Threads, Carried, Sound
<1>8. Told(c)'
  <2>1. \A b : Reconcilable(c, b)' = Reconcilable(c, b)
    BY <1>6 DEF Reconcilable
  <2> QED
    BY <1>1, <1>3, <1>5, <1>6, <2>1 DEF CallInv, Told
<1>9. Honest(c)'
  <2>1. \A p \in r.ok : br[c][2 * p].st = "success" /\ br[c][2 * p].intime
    BY <1>1, <1>3 DEF CallInv, Carried, Sound
  <2> QED
    BY <1>3, <1>5, <2>1 DEF Honest
<1>10. br' = [d \in Calls |-> br'[d]] /\ \A d \in Calls \ {c} : br'[d] = br[d]
  BY <1>1 DEF TypeOK
<1> QED
  BY <1>1, <1>2, <1>4, <1>7, <1>8, <1>9, <1>10, AnswerKeeps

(* A call refused after it had begun.                                      *)
LEMMA RefusedKeeps ==
  ASSUME IInv, NEW c \in Calls, pc[c] \in {"rendering", "failing", "aborting"}, Answer(c, Refused),
         UNCHANGED <<plan, late, br, cache, snap, recon, server>>
  PROVE  IInv'
<1>1. /\ TypeOK /\ CallInv(c) /\ br[c] \in [Physical(plan[c]) -> Branch]
  BY DEF IInv, CallInv, Planned, Working
<1>2. Refused \in Reply /\ Refused.kind = "failed" /\ Refused.ok = {} /\ Refused.recon = {}
  BY DEF Refused, Reply
<1>3. pc'[c] = "done" /\ reply'[c] = Refused
  BY <1>1 DEF Answer, TypeOK
<1>4. Phys(c)' = Phys(c) /\ \A S : In(c, S)' = In(c, S)
  BY DEF Phys, In
<1>5. Threads(c)' /\ Carried(c)'
  BY <1>1, <1>3, <1>4 DEF CallInv, Threads, Carried, Sound
<1>6. Told(c)'
  <2>1. \A b : Reconcilable(c, b)' = Reconcilable(c, b)
    BY <1>4 DEF Reconcilable
  <2> QED
    BY <1>1, <1>2, <1>3, <1>4, <2>1 DEF CallInv, Told
<1>7. Honest(c)'
  BY <1>2, <1>3 DEF Honest
<1>8. br' = [d \in Calls |-> br'[d]] /\ \A d \in Calls \ {c} : br'[d] = br[d]
  BY <1>1 DEF TypeOK
<1> QED
  BY <1>1, <1>2, <1>5, <1>6, <1>7, <1>8, AnswerKeeps

LEMMA EscapeStep ==
  ASSUME IInv, NEW c \in Calls, Escape(c)
  PROVE  IInv'
<1> DEFINE got == IF pc[c] = "failing" THEN In(c, Ended) ELSE {}
<1>1. /\ pc[c] \in {"failing", "aborting"} /\ UNCHANGED <<plan, late, br, cache, snap, recon, server>>
      /\ got \in SUBSET Phys(c)
  BY DEF Escape, In
<1>2. CASE late[c]
  <2>1. Answer(c, DeadlineReply(c, got))
    BY <1>2 DEF Escape
  <2> HIDE DEF got
  <2> QED
    BY <1>1, <1>2, <2>1, DeadlineKeeps
<1>3. CASE ~late[c]
  BY <1>1, <1>3, RefusedKeeps DEF Escape
<1> QED
  BY <1>2, <1>3

LEMMA AuthorizeStep ==
  ASSUME IInv, NEW c \in Calls, Authorize(c)
  PROVE  IInv'
<1>1. /\ pc[c] = "authorizing" /\ UNCHANGED <<plan, late, br, cache, snap, server>>
      /\ TypeOK /\ Slotted /\ CallInv(c) /\ plan[c] \in Seq(STRING) /\ reply[c] = NoReply
      /\ br[c] \in [Physical(plan[c]) -> Branch]
  BY DEF Authorize, IInv, CallInv, Planned, Working
<1>2. CASE late[c]
  BY <1>1, <1>2, DeadlineKeeps DEF Authorize
<1>3. CASE ~late[c]
  <2>1. PICK s \in SUBSET {b \in Phys(c) : Reconcilable(c, b)} : recon' = [recon EXCEPT ![c] = s]
    BY <1>3 DEF Authorize
  <2>2. pc' = [pc EXCEPT ![c] = "rendering"] /\ UNCHANGED <<active, held, reply>>
    BY <1>3 DEF Authorize
  <2>3. s \subseteq Nat
    <3>1. Phys(c) = Physical(plan[c]) /\ Physical(plan[c]) \subseteq Nat
      BY <1>1, PlanBranches DEF Phys
    <3> QED
      BY <3>1
  <2>4. TypeOK'
    BY <1>1, <2>1, <2>2, <2>3 DEF TypeOK, Stages
  <2>5. Slotted'
    BY <1>1, <2>2, StaysAtWork DEF Stages, Slotted
  <2>6. Others(c) /\ pc'[c] = "rendering" /\ recon'[c] = s
    BY <1>1, <2>1, <2>2 DEF Others, TypeOK
  <2>7. Phys(c)' = Phys(c) /\ \A S : In(c, S)' = In(c, S)
    BY <1>1 DEF Phys, In
  <2>8. Planned(c)' /\ Threads(c)' /\ Carried(c)' /\ Honest(c)'
    BY <1>1, <2>2, <2>6, <2>7
    DEF CallInv, Planned, Threads, Carried, Sound, Honest, Working, NoReply
  <2>9. Told(c)'
    <3>1. \A b : Reconcilable(c, b)' = Reconcilable(c, b)
      BY <1>1, <2>7 DEF Reconcilable
    <3> QED
      BY <1>1, <2>1, <2>2, <2>6, <2>7, <3>1 DEF Told, NoReply
  <2> QED
    BY <1>1, <2>4, <2>5, <2>6, <2>8, <2>9, CallKeeps DEF CallInv
<1> QED
  BY <1>2, <1>3

LEMMA RenderStep ==
  ASSUME IInv, NEW c \in Calls, Render(c)
  PROVE  IInv'
<1>1. /\ pc[c] = "rendering" /\ UNCHANGED <<plan, late, br, cache, snap, recon, server>>
      /\ TypeOK /\ CallInv(c) /\ plan[c] \in Seq(STRING)
      /\ br[c] \in [Physical(plan[c]) -> Branch]
  BY DEF Render, IInv, CallInv, Planned, Working
<1>2. CASE late[c]
  BY <1>1, <1>2, DeadlineKeeps DEF Render
<1>3. CASE ~late[c] /\ Cardinality(Sources(c)) > 1
  BY <1>1, <1>3, RefusedKeeps DEF Render
<1>4. CASE ~late[c] /\ ~(Cardinality(Sources(c)) > 1)
  <2> DEFINE ok == {p \in Admitted(plan[c]) : br[c][2 * p].st = "success"}
             r == [kind |-> "full", recon |-> recon[c], ok |-> ok]
  <2>1. Answer(c, r)
    BY <1>1, <1>4 DEF Render
  <2>2. recon[c] \subseteq Nat
    BY <1>1 DEF TypeOK
  <2>3. r \in Reply
    BY <1>1, <2>2, ReplyTypes
  <2>4. r.kind = "full" /\ r.recon = recon[c] /\ r.ok = ok
    OBVIOUS
  <2>5. ok = {p \in Public(c) : 2 * p \in DOMAIN br[c] /\ br[c][2 * p].st = "success"}
    <3>1. /\ Public(c) \subseteq Nat /\ Admitted(plan[c]) \subseteq Public(c)
          /\ DOMAIN br[c] = Physical(plan[c])
          /\ \A p \in Nat : 2 * p \in Physical(plan[c]) <=> p \in Admitted(plan[c])
      <4>1. Public(c) \subseteq Nat
        BY <1>1 DEF Public
      <4>2. /\ Admitted(plan[c]) \subseteq DOMAIN plan[c]
            /\ \A p \in Nat : 2 * p \in Physical(plan[c]) <=> p \in Admitted(plan[c])
        BY <1>1, PlanBranches
      <4> QED
        BY <1>1, <4>1, <4>2 DEF Public
    <3> QED
      BY <3>1
  <2> HIDE DEF r, ok
  <2>6. Cardinality(Sources(c)) <= 1
    <3>1. Sources(c) \in SUBSET Servers
      <4>1. \A p \in Admitted(plan[c]) : 2 * p \in Physical(plan[c])
        BY <1>1, PlanBranches
      <4> QED
        BY <1>1, <4>1 DEF Sources, Branch
    <3>2. Cardinality(Sources(c)) \in Nat
      BY <3>1, QueryCallAssumption, FS_Subset, FS_CardinalityType
    <3> QED
      BY <1>4, <3>2
  <2>7. pc'[c] = "done" /\ reply'[c] = r
    BY <1>1, <2>1 DEF Answer, TypeOK
  <2>8. Phys(c)' = Phys(c) /\ \A S : In(c, S)' = In(c, S)
    BY <1>1 DEF Phys, In
  <2>9. Threads(c)' /\ Carried(c)'
    BY <1>1, <2>7, <2>8 DEF CallInv, Threads, Carried, Sound
  <2>10. Told(c)'
    <3>1. \A b : Reconcilable(c, b)' = Reconcilable(c, b)
      BY <1>1, <2>8 DEF Reconcilable
    <3>2. Sources(c)' = Sources(c)
      BY <1>1 DEF Sources
    <3> QED
      BY <1>1, <2>4, <2>6, <2>7, <2>8, <3>1, <3>2 DEF CallInv, Told
  <2>11. Honest(c)'
    BY <1>1, <1>4, <2>4, <2>5, <2>7 DEF Honest, Public
  <2>12. br' = [d \in Calls |-> br'[d]] /\ \A d \in Calls \ {c} : br'[d] = br[d]
    BY <1>1 DEF TypeOK
  <2> QED
    BY <1>1, <2>1, <2>3, <2>9, <2>10, <2>11, <2>12, AnswerKeeps
<1> QED
  BY <1>2, <1>3, <1>4

LEMMA ExpireStep ==
  ASSUME IInv, NEW c \in Calls, Expire(c)
  PROVE  IInv'
<1>1. /\ pc[c] \notin {"idle", "done"} /\ late' = [late EXCEPT ![c] = TRUE]
      /\ UNCHANGED <<active, held, pc, plan, br, cache, snap, recon, reply, server>>
      /\ TypeOK /\ Slotted /\ CallInv(c) /\ reply[c] = NoReply
  BY DEF Expire, IInv, CallInv, Planned
<1>2. TypeOK' /\ Others(c)
  BY <1>1 DEF TypeOK, Others
<1>3. Slotted'
  BY <1>1 DEF Slotted, Slots
<1>4. Phys(c)' = Phys(c) /\ \A S : In(c, S)' = In(c, S)
  BY <1>1 DEF Phys, In
<1>5. Planned(c)' /\ Threads(c)' /\ Carried(c)' /\ Honest(c)'
  <2>1. Busy(c)' = Busy(c)
    BY <1>4 DEF Busy
  <2>2. Threads(c)'
    BY <1>1, <1>4, <2>1 DEF CallInv, Threads
  <2>3. Planned(c)' /\ Honest(c)'
    BY <1>1 DEF CallInv, Planned, Honest, NoReply
  <2>4. Carried(c)'
    BY <1>1, <1>4 DEF CallInv, Carried, Sound
  <2> QED
    BY <2>2, <2>3, <2>4
<1>6. Told(c)'
  <2>1. \A b : Reconcilable(c, b)' = Reconcilable(c, b)
    BY <1>1, <1>4 DEF Reconcilable
  <2> QED
    BY <1>1, <1>4, <2>1 DEF CallInv, Told, NoReply
<1> QED
  BY <1>1, <1>2, <1>3, <1>5, <1>6, CallKeeps DEF CallInv

LEMMA FailoverStep ==
  ASSUME IInv, Failover \/ UNCHANGED vars
  PROVE  IInv'
<1>1. /\ UNCHANGED <<active, held, pc, plan, late, br, cache, snap, recon, reply>>
      /\ server' \in Servers /\ TypeOK
  BY DEF Failover, vars, IInv, TypeOK
<1>2. TypeOK'
  BY <1>1 DEF TypeOK
<1>3. Slotted'
  BY <1>1 DEF IInv, Slotted, Slots
<1>4. ASSUME NEW d \in Calls PROVE CallInv(d)'
  BY <1>1, <1>4, LeftAlone DEF IInv
<1> QED
  BY <1>2, <1>3, <1>4 DEF IInv

LEMMA Initially == Init => IInv
<1> SUFFICES ASSUME Init PROVE IInv
  OBVIOUS
<1>1. TypeOK
  BY DEF Init, TypeOK, Stages, NoSnap, NoReply
<1>2. Slots = {}
  BY DEF Init, Slots
<1>3. Slotted
  BY <1>2, FS_EmptySet, QueryCallAssumption DEF Init, Slotted
<1>4. ASSUME NEW c \in Calls PROVE CallInv(c)
  <2>1. /\ pc[c] = "idle" /\ br[c] = <<>> /\ cache[c] = None /\ recon[c] = {}
        /\ reply[c] = NoReply /\ snap[c].root = 0
    BY DEF Init, NoSnap
  <2> QED
    BY <2>1, QueryCallAssumption
    DEF CallInv, Planned, Threads, Carried, Told, Honest, NoReply, Phys, Working
<1> QED
  BY <1>1, <1>3, <1>4 DEF IInv

(* The inductive invariant: it holds at first and every step keeps it.     *)
THEOREM Invariance == Spec => []IInv
<1>1. IInv /\ [Next]_vars => IInv'
  <2> SUFFICES ASSUME IInv, [Next]_vars PROVE IInv'
    OBVIOUS
  <2>1. ASSUME NEW c \in Calls, Step(c) PROVE IInv'
    <3>1. ASSUME NEW b \in Phys(c),
                 Prepare(c, b) \/ Prepared(c, b) \/ OpenSnapshot(c, b) \/ Run(c, b)
                     \/ Queried(c, b) \/ Build(c, b)
          PROVE  IInv'
      BY <3>1, PrepareStep, PreparedStep, OpenSnapshotStep, RunStep, QueriedStep, BuildStep
    <3>2. CASE Resolve(c) \/ Plan(c) \/ Lease(c) \/ Block(c)
      BY <3>2, ResolveStep, PlanStep, LeaseStep, BlockStep
    <3>3. CASE Collect(c) \/ Authorize(c) \/ Render(c)
      BY <3>3, CollectStep, AuthorizeStep, RenderStep
    <3>4. CASE Escape(c)
      BY <3>4, EscapeStep
    <3> QED
      BY <2>1, <3>1, <3>2, <3>3, <3>4 DEF Step
  <2>2. ASSUME NEW c \in Calls, Arrive(c) \/ Expire(c) PROVE IInv'
    BY <2>2, ArriveStep, ExpireStep
  <2> QED
    BY <2>1, <2>2, FailoverStep DEF Next
<1> QED
  BY Initially, <1>1, PTL DEF Spec

-----------------------------------------------------------------------------
LEMMA AtMostOne ==
  ASSUME NEW S, \A a, b \in S : a = b
  PROVE  IsFiniteSet(S) /\ Cardinality(S) <= 1 /\ Cardinality(S) \in Nat
<1>1. CASE S = {}
  BY <1>1, FS_EmptySet
<1>2. CASE S # {}
  <2>1. PICK a \in S : TRUE
    BY <1>2
  <2>2. S = {a}
    BY <2>1
  <2>3. IsFiniteSet({a}) /\ Cardinality({a}) = 1
    BY FS_Singleton
  <2> QED
    BY <2>2, <2>3
<1> QED
  BY <1>1, <1>2

(* Every state is one the calls can be in.                                 *)
THEOREM TypeCorrect == Spec => []TypeOK
BY Invariance, PTL DEF IInv

(* The process never works on more than its capacity of branches, every    *)
(* slot belongs to a call in progress and a call that ended keeps none.    *)
THEOREM SlotsSuffice == Spec => []WithinCapacity
<1>1. IInv => WithinCapacity
  <2> SUFFICES ASSUME IInv PROVE WithinCapacity
    OBVIOUS
  <2>1. ASSUME NEW c \in Calls
        PROVE  Cardinality(In(c, {"preparing", "querying", "building"})) <= held[c]
    <3> DEFINE w == In(c, {"preparing", "querying", "building"})
    <3>1. /\ held[c] \in Nat /\ pc[c] \in Stages /\ Threads(c) /\ Planned(c)
          /\ (pc[c] \notin {"idle", "done"} => held[c] # 0)
      BY DEF IInv, TypeOK, CallInv, Slotted
    <3>2. CASE w = {}
      BY <3>1, <3>2, FS_EmptySet
    <3>3. CASE pc[c] = "running"
      <4>1. w \in SUBSET Busy(c)
        BY DEF In, Busy
      <4>2. IsFiniteSet(Busy(c)) /\ Cardinality(Busy(c)) <= held[c]
        BY <3>1, <3>3, BranchesFinite DEF Threads, Working
      <4> HIDE DEF w
      <4>3. /\ Cardinality(w) <= Cardinality(Busy(c))
            /\ Cardinality(w) \in Nat /\ Cardinality(Busy(c)) \in Nat
        BY <4>1, <4>2, FS_Subset, FS_CardinalityType
      <4> QED
        BY <3>1, <4>2, <4>3 DEF w
    <3>4. CASE pc[c] \in {"preparing", "grouping"}
      <4>1. \A a, b \in w : a = b
        BY <3>1, <3>4 DEF Threads, In
      <4> HIDE DEF w
      <4>2. Cardinality(w) <= 1 /\ Cardinality(w) \in Nat
        BY <4>1, AtMostOne
      <4>3. held[c] # 0
        BY <3>1, <3>4
      <4> QED
        BY <3>1, <4>2, <4>3 DEF w
    <3>5. CASE pc[c] \notin {"running", "preparing", "grouping"}
      <4>1. w = {}
        BY <3>1, <3>5 DEF Threads, Planned, Stages, In, Phys
      <4> QED
        BY <3>2, <4>1
    <3> QED
      BY <3>3, <3>4, <3>5
  <2> QED
    BY <2>1 DEF WithinCapacity, IInv, Slotted
<1> QED
  BY <1>1, Invariance, PTL

(* A complete answer was rendered before the deadline and reports exactly  *)
(* what succeeded; a late one publishes only what was finished in time.    *)
THEOREM RepliesAreHonest == Spec => []HonestReply
<1>1. IInv => HonestReply
  BY DEF IInv, CallInv, Honest, HonestReply
<1> QED
  BY <1>1, Invariance, PTL

(* What is published together is of one state: reconciled figures of one   *)
(* snapshot, the results of an answer of one database.                     *)
THEOREM AnswersAreOfOneState == Spec => []OneState
<1>1. IInv => OneSnapshot
  BY DEF IInv, CallInv, Told, Carried, Sound, Reconcilable, OneSnapshot
<1>2. IInv => OneSource
  <2> SUFFICES ASSUME IInv, NEW c \in Calls, reply[c].kind = "full"
      PROVE  LET rows == UNION {br[c][2 * p].refs : p \in reply[c].ok}
                 names == {br[c][2 * p].entity : p \in reply[c].ok} \ {None}
                 decomposed == \E p \in Public(c) : plan[c][p] = "decompose" IN
             Cardinality(IF decomposed THEN rows ELSE rows \cup names) <= 1
    BY DEF OneSource
  <2> DEFINE rows == UNION {br[c][2 * p].refs : p \in reply[c].ok}
             names == {br[c][2 * p].entity : p \in reply[c].ok} \ {None}
             decomposed == \E p \in Public(c) : plan[c][p] = "decompose"
             all == IF decomposed THEN rows ELSE rows \cup names
  <2>1. CASE reply[c].ok = {}
    <3>1. all = {}
      BY <2>1
    <3> HIDE DEF all
    <3>2. Cardinality(all) = 0
      BY <3>1, FS_EmptySet
    <3> QED
      BY <3>2 DEF all
  <2>2. CASE reply[c].ok # {}
    <3>1. /\ TypeOK /\ CallInv(c) /\ Cardinality(Sources(c)) <= 1
          /\ reply[c].ok = {p \in Public(c) :
                                2 * p \in DOMAIN br[c] /\ br[c][2 * p].st = "success"}
      BY <2>2 DEF IInv, CallInv, Told, Honest
    <3>2. br[c] \in [Physical(plan[c]) -> Branch] /\ plan[c] \in Seq(STRING)
      <4>1. DOMAIN br[c] # {}
        BY <2>2, <3>1
      <4>2. pc[c] # "idle"
        BY <3>1, <4>1 DEF CallInv, Planned
      <4> QED
        BY <3>1, <4>1, <4>2 DEF TypeOK, CallInv, Planned
    <3>3. /\ Public(c) \subseteq Nat /\ Admitted(plan[c]) \subseteq Public(c)
          /\ \A p \in Nat : 2 * p \in Physical(plan[c]) <=> p \in Admitted(plan[c])
      <4>1. DOMAIN plan[c] \subseteq Nat
        BY <3>2
      <4>2. /\ Admitted(plan[c]) \subseteq DOMAIN plan[c]
            /\ \A p \in Nat : 2 * p \in Physical(plan[c]) <=> p \in Admitted(plan[c])
        BY <3>2, PlanBranches
      <4> QED
        BY <4>1, <4>2 DEF Public
    <3>4. reply[c].ok \subseteq Admitted(plan[c])
      BY <3>1, <3>2, <3>3
    <3>5. rows \subseteq Sources(c)
      BY <3>4 DEF Sources
    <3>6. ~decomposed => names \subseteq Sources(c)
      <4> SUFFICES ASSUME ~decomposed, NEW p \in reply[c].ok, br[c][2 * p].entity # None
                   PROVE  br[c][2 * p].entity \in Sources(c)
        OBVIOUS
      <4>1. br[c][2 * p].entity = cache[c] /\ cache[c] \in Servers
        BY <3>1 DEF CallInv, Carried, Sound, Phys
      <4>2. PICK b \in Phys(c) : cache[c] \in br[c][b].refs
        BY <3>1, <4>1 DEF CallInv, Carried
      <4>3. b \in Physical(plan[c])
        BY <3>2 DEF Phys
      <4>4. PICK q \in Admitted(plan[c]) : b = 2 * q
        BY <3>3, <4>3 DEF Physical
      <4> QED
        BY <4>1, <4>2, <4>4 DEF Sources
    <3>7. all \subseteq Sources(c)
      BY <3>5, <3>6
    <3>8. IsFiniteSet(Sources(c))
      <4>1. Sources(c) \in SUBSET Servers
        <5>1. \A p \in Admitted(plan[c]) : 2 * p \in Physical(plan[c])
          BY <3>2, <3>3
        <5> QED
          BY <3>2, <5>1 DEF Sources, Branch
      <4> QED
        BY <4>1, QueryCallAssumption, FS_Subset
    <3> HIDE DEF all
    <3>9. /\ Cardinality(all) <= Cardinality(Sources(c))
          /\ Cardinality(all) \in Nat /\ Cardinality(Sources(c)) \in Nat
      BY <3>7, <3>8, FS_Subset, FS_CardinalityType
    <3>10. Cardinality(all) <= 1
      BY <3>1, <3>9
    <3> QED
      BY <3>10 DEF all
  <2> QED
    BY <2>1, <2>2
<1> QED
  BY <1>1, <1>2, Invariance, PTL DEF OneState
=============================================================================
