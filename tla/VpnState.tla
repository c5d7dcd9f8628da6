------------------------------ MODULE VpnState ------------------------------
(* The engine's connection states and what the frontend is shown of them. *)

\* EngineConnectionState, its payloads left out.
EngineConnectionStates ==
    {"Disconnected", "Connecting", "ConnectingToAgent", "Connected"}

\* frontend-api's VpnState, the values the lane publishes.
VpnStates == {"Disconnected", "Connecting", "Connected", "Disconnecting"}

map_vpn_state(s) == IF s = "ConnectingToAgent" THEN "Connecting" ELSE s

=============================================================================
