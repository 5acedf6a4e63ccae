----------------------------- MODULE MCUserNet -----------------------------
(***************************************************************************)
(* Instances of UserNet: a connection with data both ways, two from one    *)
(* guest port to different addresses, one to a refused address, one        *)
(* forwarded from the host, and queries, a few of them at a time.          *)
(***************************************************************************)
EXTENDS UserNet

CONSTANTS ca, cb, cd, ce, cx, ci, q1, q2, pg, pf, ea, eb, ed, ee, ex

MCConns == {ca, cb, cd, ce, cx, ci}

MCPort == [c \in MCConns |-> IF c = ci THEN pf ELSE pg]
MCExt ==
  [c \in MCConns \ {ci} |-> CASE c = ca -> ea [] c = cb -> eb [] c = cd -> ed [] c = ce -> ee [] OTHER -> ex]
MCClass == [z \in {ea, eb, ed, ee, ex} |-> IF z = ex THEN "private" ELSE "public"]

MCHostUnits == [c \in MCConns |-> CASE c \in {ca, ci} -> 2 [] c = cb -> 1 [] OTHER -> 0]
MCGuestUnits == [c \in MCConns |-> IF c \in {ca, ci} THEN 2 ELSE 0]

\* Each behaviour of the run is about one of these.
MCScenarios == {{ca}, {cb, cd, ce}, {cb, cx}, {ci}, {q1, q2}}

\* One connection, whose peer writes more than a send buffer holds.
MCBulk == {{ca}}
MCBulkUnits == [c \in MCConns |-> IF c = ca THEN 5 ELSE 0]
=============================================================================
