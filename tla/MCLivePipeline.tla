---------------------------- MODULE MCLivePipeline ----------------------------
(* Values of the constants of LivePipeline for TLC.                          *)
EXTENDS LivePipeline

\* live-e2e, in a directory where somebody runs the tools by hand, and some of them again.
OneAfterTheOther ==
    <<<<"publish", "ingest", "approve", "send">>,
      <<"ingest", "dry">>,
      LiveE2E>>

\* Two people in one directory.
TwoTerminals ==
    <<<<"publish", "ingest", "approve", "send">>,
      <<"publish", "ingest", "approve", "dry", "verify">>>>

=============================================================================
