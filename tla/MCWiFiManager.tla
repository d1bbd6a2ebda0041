---------------------------- MODULE MCWiFiManager ----------------------------
(* Constants for model-checking WiFiManager. *)
EXTENDS WiFiManager

\* What storeWifiCredentials may leave: nothing, all three keys, or a prefix
\* of its three putString calls when one of them fails or power is cut.
EmptyNvs  == [count |-> FALSE, ssid |-> FALSE, pass |-> FALSE]
StoredNvs == [count |-> TRUE, ssid |-> TRUE, pass |-> TRUE]
AfterPuts(n) == [count |-> n >= 1, ssid |-> n >= 2, pass |-> n >= 3]

AllNvsImages    == {AfterPuts(n) : n \in 0..3}
StoredNvsOnly   == {StoredNvs}

=============================================================================
