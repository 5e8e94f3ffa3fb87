-------------------------- MODULE MCHotkeyDispatch --------------------------
(* Instance of HotkeyDispatch for TLC. The durations keep the order of the  *)
(* real ones: 250 ms debounce, 350 ms hold threshold, 450 ms cooldown.      *)
EXTENDS HotkeyDispatch

Budget(m, presses, ui, time) == [mode |-> m, presses |-> presses, ui |-> ui, time |-> time]

(* Two presses on their own, or one next to a session of the UI.            *)
Together ==
    {Budget("Hold", 2, 0, 2), Budget("Hold", 1, 1, 2), Budget("Auto", 2, 0, 3),
     Budget("Auto", 1, 1, 2), Budget("Toggle", 2, 0, 3)}

=============================================================================
