-------------------------------- MODULE MCQa --------------------------------
EXTENDS QaService

Budget(uses, turns, sessions, closes, faults, asks) ==
    [uses |-> uses, turns |-> turns, sessions |-> sessions, closes |-> closes,
     faults |-> faults, asks |-> asks]

(* Spoken questions that are dismissed, with recorders that do not fail and *)
(* with a first one that is not finished and whose recorder may; next to    *)
(* typed ones, where any recorder may fail; edits that are dismissed, and   *)
(* edits of two sessions; a command answered by a panel that is closed; two *)
(* commands, of which a late task of the first meets the second.            *)
Together ==
    {Budget({"speak"}, 2, 0, 1, {}, Turn), Budget({"speak"}, 2, 0, 1, {1}, {2}),
     Budget({"speak", "type"}, 2, 0, 0, Turn, Turn),
     Budget({"type", "edit"}, 2, 1, 1, {}, {}), Budget({"type", "edit"}, 2, 2, 0, {}, {}),
     Budget({"command"}, 1, 1, 1, {}, {}), Budget({"command"}, 0, 2, 0, {}, {})}
=============================================================================
