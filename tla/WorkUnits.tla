----------------------------- MODULE WorkUnits -----------------------------
(***************************************************************************)
(* What transactions promise, without connections, pools or workers: work  *)
(* that is not settled at once belongs to a unit, a unit is of one user,   *)
(* and it is settled as a whole by one decision, for good.                 *)
(***************************************************************************)
CONSTANTS Users, Works, NoUser

VARIABLES
    units,   \* the units that are open, each a set of work
    owner,   \* [Works -> who did it, NoUser until then]
    kept     \* the work that is in the database for good

unitVars == <<units, owner, kept>>

UnitsInit ==
    /\ units = {}
    /\ owner = [w \in Works |-> NoUser]
    /\ kept = {}

Did(u, w) == owner[w] = NoUser /\ owner' = [owner EXCEPT ![w] = u]

\* User u starts a unit with work w.
Start(u, w) == Did(u, w) /\ units' = units \cup {{w}} /\ UNCHANGED kept

\* User u adds work w to a unit of its own.
Add(u, w, g) ==
    /\ g \in units
    /\ \A v \in g : owner[v] = u
    /\ Did(u, w)
    /\ units' = (units \ {g}) \cup {g \cup {w}}
    /\ UNCHANGED kept

\* Work that is settled at once.
KeepAtOnce(u, w) == Did(u, w) /\ kept' = kept \cup {w} /\ UNCHANGED units

Keep(g) ==
    /\ g \in units
    /\ units' = units \ {g}
    /\ kept' = kept \cup g
    /\ UNCHANGED owner

Drop(g) ==
    /\ g \in units
    /\ units' = units \ {g}
    /\ UNCHANGED <<owner, kept>>

UnitsNext ==
    \/ \E u \in Users, w \in Works : Start(u, w) \/ KeepAtOnce(u, w)
    \/ \E u \in Users, w \in Works, g \in SUBSET Works : Add(u, w, g)
    \/ \E g \in SUBSET Works : Keep(g) \/ Drop(g)

UnitsSpec == UnitsInit /\ [][UnitsNext]_unitVars
=============================================================================
