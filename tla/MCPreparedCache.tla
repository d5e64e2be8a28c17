--------------------------- MODULE MCPreparedCache --------------------------
(* Scenarios of PreparedCache for TLC. *)
EXTENDS PreparedCache, TLC

Symmetry == Permutations(Handles)

Scenario(driver, flush, timeouts) ==
  [driver |-> driver, flush |-> flush, timeouts |-> timeouts]

AllScenarios == {Scenario("postgres", "quiet", FALSE),
                 Scenario("postgres", "quiet", TRUE),
                 Scenario("postgres", "any", TRUE),
                 Scenario("mariadb", "quiet", TRUE),
                 Scenario("mysql", "any", FALSE),
                 Scenario("sqlite", "quiet", FALSE)}

FlushAnyTime == {Scenario(driver, "any", FALSE) : driver \in Drivers}
=============================================================================
