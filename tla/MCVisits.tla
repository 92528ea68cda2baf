------------------------------ MODULE MCVisits ------------------------------
(***************************************************************************)
(* Visits with one viewer, two joiners and one manager, of whom each scenario *)
(* has one or two.                                                         *)
(***************************************************************************)
EXTENDS Visits

CONSTANTS v, j1, j2, m, secret, other, ann

Budget(edits, lapses, crashes, faults, typos, elsewhere, changes) ==
    [edits |-> edits, lapses |-> lapses, crashes |-> crashes, faults |-> faults, typos |-> typos,
     elsewhere |-> elsewhere, changes |-> changes]

Scenario(tabs, password, budget) == [tabs |-> tabs, password |-> password, left |-> budget]

MCScenarios == {
    \* a viewer of a board that changes while tokens lapse, calls fail, the server restarts
    Scenario({v}, secret, Budget(1, 1, 0, 1, 1, 0, 0)),
    Scenario({v}, secret, Budget(0, 0, 1, 1, 0, 1, 0)),
    \* a viewer of a board that is locked
    Scenario({v, m}, NoPassword, Budget(1, 0, 0, 0, 0, 0, 1)),
    \* two who join an open board
    Scenario({j1, j2}, NoPassword, Budget(0, 0, 0, 0, 0, 0, 0)),
    \* one who joins a locked board whose tokens lapse, or that crashes or is managed meanwhile
    Scenario({j1}, secret, Budget(0, 1, 0, 0, 0, 1, 0)),
    Scenario({j1}, secret, Budget(0, 0, 0, 1, 1, 0, 0)),
    Scenario({j1}, secret, Budget(0, 0, 1, 0, 0, 0, 0)),
    Scenario({j1}, NoPassword, Budget(0, 0, 0, 0, 0, 2, 0)),
    \* one who manages a board that others manage
    Scenario({m}, secret, Budget(0, 0, 0, 1, 0, 1, 1)),
    Scenario({m}, NoPassword, Budget(0, 0, 0, 0, 0, 1, 2))}
=============================================================================
