-------------------------------- MODULE MCMonitor -------------------------------
(* Instances of Monitor for TLC. *)
EXTENDS Monitor

\* No two listeners are closures of one literal, or all are.
OwnCode == [l \in Listeners |-> l]
OneCode == [l \in Listeners |-> CHOOSE k \in Listeners : TRUE]

\* Connect racing with Close.
ConnectAndClose == {<<"none", "Connecting">>, <<"connect", "Connected">>,
                    <<"disconnect", "Disconnected">>}
==============================================================================
