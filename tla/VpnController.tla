---------------------------- MODULE VpnController ----------------------------
(* What the app shows (vpn_state.dart) and which button that puts on the home *)
(* page (connect_button.dart).  The platform composes these steps with its    *)
(* side of start and stop: see AndroidApp.                                    *)

VARIABLE stage  \* VpnController.state.stage

Stages == {"Idle", "Bootstrapping", "Connecting", "Connected", "Disconnecting", "Error"}

\* The button is Connect, Cancel or Disconnect, or disabled while stopping.
ConnectShown == stage \in {"Idle", "Error"}
DisconnectShown == stage \in {"Bootstrapping", "Connecting", "Connected"}

\* connect() up to its await; the button needs a profile to be enabled.
Connect == ConnectShown /\ stage' = "Bootstrapping"

\* connect(): the await throws.  What it returns otherwise is not looked at.
ConnectThrows == stage' = "Error"

\* disconnect() up to its await.
Disconnect == DisconnectShown /\ stage' = "Disconnecting"

\* Every 750 ms the core's status replaces whatever is shown.
Poll(status) == stage' = status
=============================================================================
