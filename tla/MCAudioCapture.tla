-------------------------- MODULE MCAudioCapture ---------------------------
(* Small instances of AudioCapture for TLC. *)
EXTENDS AudioCapture

\* Two changes of devices or restarts of the server, another configuration,
\* and a stream that does not start or an answer that comes late.
FullBudget == [k \in Kinds |-> IF k = "world" THEN 2 ELSE 1]

\* Only a stream that fails to start.
StartBudget == [k \in Kinds |-> IF k = "fault" THEN 1 ELSE 0]

\* The devices are alike: which one is the default at first does not matter.
MCInit == Init /\ default = "d1"
MCSpec == MCInit /\ [][Next]_vars /\ Fairness
=============================================================================
