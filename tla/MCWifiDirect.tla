---------------------------- MODULE MCWifiDirect ----------------------------
(* Instances of WifiDirect for TLC.                                        *)
EXTENDS WifiDirect

=============================================================================
