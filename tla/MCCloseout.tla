----------------------------- MODULE MCCloseout ------------------------------
EXTENDS Closeout
\* One flaw of each way to be noticed: by a gate, by a gate and the final check,
\* by the qualification report, by the final check.  The first version is sound.
MCFlaws == {"run_tests", "missing_phrase", "untested_requirement", "stale_architecture"}
MCFlawChoices == {<<{}, {}>>} \cup {<<{}, {f}>> : f \in MCFlaws}

\* One row passed and one pending.
MCRecords == {[status |-> {}, cells |-> {{"PASS"}, {"NOT RUN"}}]}

MCFiled == {"independent-review-record", "ccb-signoff", "deployment-screening",
            "safety-case-baseline"}

\* Each question of the composition has a budget of its own.
Bounds(r, t, s, m, a, f) ==
  [runs |-> r, touches |-> t, sessions |-> s, teams |-> m, attempts |-> a, flaws |-> f]
MCBudgets ==
  {Bounds(2, 2, 0, 0, 0, MCFlaws), Bounds(1, 3, 0, 0, 0, {}),       \* the release
   Bounds(0, 1, 2, 0, 0, {}), Bounds(0, 0, 0, 1, 0, {"run_tests"}), \* the board
   Bounds(1, 1, 0, 0, 1, {}), Bounds(0, 1, 0, 0, 2, {})}           \* the host gates
=============================================================================
