----------------------------- MODULE MCDelivery -----------------------------
(* Two jobs.  Job a sends two notifications in two calls, the first with a *)
(* file; job b sends one to the target of a's first.                       *)
EXTENDS DeliveryInv

CONSTANTS a, b

MCJobs == {a, b}
MCNotifs == {1, 2, 3}
MCTargets == {1, 2}
MCJobOf == <<a, a, b>>
MCTargetOf == <<1, 2, 1>>
MCCallOf == <<1, 2, 1>>
MCWithFile == {1}

(* One job alone: two notifications in its first call and one in each of   *)
(* the others, all to one target.                                          *)
SoloJobs == {a}
SoloNotifs == {1, 2, 3, 4}
SoloTargets == {1}
SoloJobOf == <<a, a, a, a>>
SoloTargetOf == <<1, 1, 1, 1>>
SoloCallOf == <<1, 1, 2, 3>>
=============================================================================
