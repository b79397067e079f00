----------------------------- MODULE MCActionRuns -----------------------------
(* Small instances of ActionRuns for TLC. *)
EXTENDS ActionRuns, TLC

SecondStep == {2}
Unordered == Permutations(Previews) \cup Permutations(Runs)
=============================================================================
