----------------------------- MODULE MCRelease ------------------------------
EXTENDS Release
\* The first version is sound, the second has at most one flaw.
MCFlawChoices ==
  {<<{}, {}>>} \cup
  {<<{}, {f}>> : f \in {"run_tests", "missing_phrase", "unmitigated_hazard", "missing_test",
                        "untested_requirement", "stale_architecture"}}
=============================================================================
