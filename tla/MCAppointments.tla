--------------------------- MODULE MCAppointments ---------------------------
(***************************************************************************)
(* Small instances of Appointments.                                        *)
(***************************************************************************)
EXTENDS Appointments, TLC

CONSTANTS a1, h1, h2, t1, t2

\* One booking whose two reminders fall due as close together as the
\* assumption allows.
OneAppt == {a1}
OneStart == [a \in {a1} |-> 8]
TwoKeys == {"1440", "60"}
Minutes2 == [k \in TwoKeys |-> IF k = "60" THEN 2 ELSE 6]
TwoHops == [h \in {h1, h2} |-> a1]
OneHop == [h \in {h1} |-> a1]

\* The instances keep the pace that SlotGetsOneAttempt needs.
ASSUME OnTimeHere == OnTime

\* Ticks, and requests that report the same booking, are interchangeable.
SymTicksHops == Permutations({t1, t2}) \cup Permutations({h1, h2})
=============================================================================
