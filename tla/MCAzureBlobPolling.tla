------------------------- MODULE MCAzureBlobPolling -------------------------
(* b1 is plain and b2 is gzip; their paths hold the times 1 and 2.  Blobs  *)
(* do not share an entry, so the growing ones come alone; two blobs whose  *)
(* read order matters for the watermark come together.                     *)
EXTENDS AzureBlobPolling

CONSTANTS b1, b2

MCPathTime(b) == IF b = b1 THEN 1 ELSE 2
MCGzip(b) == b = b2

Scenario(f, d, W, n) == [format |-> f, delete |-> d, written |-> W, faults |-> n]

MCScenarios ==
    {Scenario("json", TRUE, {b1}, 2), Scenario("records-json", FALSE, {b1}, 1),
     Scenario("text", TRUE, {b2}, 2), Scenario("otlp", TRUE, {b1, b2}, 1),
     Scenario("otlp", FALSE, {b1}, 1)}
=============================================================================
