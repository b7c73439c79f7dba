--------------------------- MODULE CharacterPlace ---------------------------
(***************************************************************************)
(* What the sessions promise of one character, without rows, keys, links   *)
(* or timeouts: it is in no zone or in one, the one the database has for   *)
(* it, on the map process that runs that zone; and nothing but the map it  *)
(* is on moves the database to another zone.                               *)
(***************************************************************************)
CONSTANTS Maps, Zones, MapOf, Home, Clients

VARIABLES
    entities,   \* <<m, k, z>>: map m has it in zone z for client k
    record      \* the zone the database has

vars == <<entities, record>>

Init == entities = {} /\ record = Home

Enter(m, k) ==
    /\ entities = {} /\ MapOf[record] = m
    /\ entities' = {<<m, k, record>>}
    /\ UNCHANGED record

(* It leaves for z, and is saved with it in the same step.                 *)
LeaveFor(z) ==
    /\ entities # {}
    /\ entities' = {} /\ record' = z

(* It logs out, times out, or goes down with its map.                      *)
Vanish ==
    /\ entities # {}
    /\ entities' = {}
    /\ UNCHANGED record

Next ==
    \/ \E m \in Maps, k \in Clients : Enter(m, k)
    \/ \E z \in Zones : LeaveFor(z)
    \/ Vanish

Spec == Init /\ [][Next]_vars
=============================================================================
