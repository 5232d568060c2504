---- MODULE MCFoundation ----
(***************************************************************************)
(* Reference counting and pools, the collections, the notification centre, *)
(* and audio units, for TLC: objects that the host uses and guest code can *)
(* take away.  A behaviour is about one of them.                           *)
(***************************************************************************)
EXTENDS Objects, Collections, Notifications, AudioUnit

CONSTANT Parts
VARIABLE part

allVars == <<ovars, collVars, notifVars, unitVars, part>>

\* Two of the three elements are equal, and all have the same hash but one.
SomeEqual(a, b) == a = b \/ {a, b} = {"k1", "k2"}
SomeHash(a) == IF a = "c" THEN 2 ELSE 1

Init ==
    /\ ObjectsInit /\ CollectionsInit /\ NotificationsInit /\ UnitInit
    /\ part \in Parts
    /\ part # "collections" => kind = "array" /\ order = <<1, 2>>

Next ==
    /\ UNCHANGED part
    /\ \/ part = "objects" /\ ObjectsNext /\ UNCHANGED <<collVars, notifVars, unitVars>>
       \/ part = "collections" /\ CollectionsNext /\ UNCHANGED <<ovars, notifVars, unitVars>>
       \/ part = "notifications" /\ NotificationsNext /\ UNCHANGED <<ovars, collVars, unitVars>>
       \/ part = "units" /\ UnitNext /\ UNCHANGED <<ovars, collVars, notifVars>>

Spec == Init /\ [][Next]_allVars
====
