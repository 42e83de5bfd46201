------------------------ MODULE MCThroughputReporter ------------------------
(* Two processors of which one or both have a global block.                *)
EXTENDS ThroughputReporter

CONSTANTS p1, p2

Two(a, b) == [p \in P |-> IF p = p1 THEN a ELSE b]
Scenario(g, f, n, k) == [global |-> g, faults |-> f, lives |-> n, payloads |-> k]

AllScenarios == {
    \* reports: both processors measure, the slot is taken now and then
    Scenario(Two("none", "on"), {}, 1, Two(2, 1)),
    Scenario(Two("none", "on"), {"send"}, 1, Two(2, 0)),
    \* the reporter is set up twice, or switched off
    Scenario(Two("on", "on"), {}, 1, Two(2, 1)),
    Scenario(Two("on", "off"), {}, 1, Two(1, 0)),
    \* reloads, failing starts, shutdowns that time out
    Scenario(Two("none", "on"), {}, 2, Two(1, 0)),
    Scenario(Two("on", "on"), {"start"}, 2, Two(0, 0)),
    Scenario(Two("none", "on"), {"timeout"}, 2, Two(0, 0)) }
=============================================================================
