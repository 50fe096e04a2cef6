------------------------------- MODULE Outbox -------------------------------
(***************************************************************************)
(* What the delivery layer promises, with no files, locks, runs or crashes *)
(* in it.  A notification is a text followed, for some, by a file, both to *)
(* one recipient.  A recipient works through one notification at a time,   *)
(* and within one generation of a notification the provider accepts each   *)
(* part at most once, the text before the file, both of one version of the *)
(* material.  A new generation starts only from a complete one.            *)
(***************************************************************************)
EXTENDS Naturals

CONSTANTS
  Notifs,     \* notification keys
  Targets,    \* recipients
  TargetOf,   \* the recipient of a notification
  WithFile,   \* the notifications that have a file after their text
  Versions,   \* versions of the material a run may produce
  None        \* no value

VARIABLES
  lane,       \* the notification each recipient is in the middle of, or None
  got,        \* how often the provider accepted a part in this generation
  ver,        \* the version it accepted
  gen         \* how many generations of a notification were archived

vars == <<lane, got, ver, gen>>

Kinds == {"text", "file"}
Parts(n) == IF n \in WithFile THEN Kinds ELSE {"text"}
Received(n) == \A k \in Parts(n) : got[n][k] = 1

Init ==
  /\ lane = [t \in Targets |-> None]
  /\ got = [n \in Notifs |-> [k \in Kinds |-> 0]]
  /\ ver = [n \in Notifs |-> [k \in Kinds |-> None]]
  /\ gen = [n \in Notifs |-> 0]

(* A recipient with nothing under way begins a notification. *)
Open(n) ==
  /\ lane[TargetOf[n]] = None
  /\ lane' = [lane EXCEPT ![TargetOf[n]] = n]
  /\ UNCHANGED <<got, ver, gen>>

(* The provider accepts a part, once, the text first and of one version.   *)
Accept(n, k, v) ==
  /\ lane[TargetOf[n]] = n
  /\ k \in Parts(n)
  /\ got[n][k] = 0
  /\ k = "file" => got[n]["text"] = 1 /\ ver[n]["text"] = v
  /\ got' = [got EXCEPT ![n][k] = 1]
  /\ ver' = [ver EXCEPT ![n][k] = v]
  /\ UNCHANGED <<lane, gen>>

(* The recipient is free again once it has every part. *)
Close(n) ==
  /\ lane[TargetOf[n]] = n
  /\ Received(n)
  /\ lane' = [lane EXCEPT ![TargetOf[n]] = None]
  /\ UNCHANGED <<got, ver, gen>>

(* An explicit resend archives a complete generation and starts over. *)
Renew(n) ==
  /\ Received(n)
  /\ got' = [got EXCEPT ![n] = [k \in Kinds |-> 0]]
  /\ ver' = [ver EXCEPT ![n] = [k \in Kinds |-> None]]
  /\ gen' = [gen EXCEPT ![n] = @ + 1]
  /\ UNCHANGED lane

Next ==
  \E n \in Notifs :
    \/ Open(n)
    \/ \E k \in Kinds, v \in Versions : Accept(n, k, v)
    \/ Close(n)
    \/ Renew(n)

Spec == Init /\ [][Next]_vars
=============================================================================
