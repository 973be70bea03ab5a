-------------------------- MODULE SourceContract --------------------------
(***************************************************************************)
(* What the data source promises to the rest of the dashboard: the browser *)
(* payload, the command guards and push read these variables and never the *)
(* tasks behind them.  SourceSelection implements this module; the modules *)
(* that use a source are built on it.                                      *)
(***************************************************************************)
VARIABLES
  active,               \* gateway.active_source()
  mqttConnected, gatewayConnected,     \* the AppState flags
  authority,            \* the live MqttState holds controller state
  retired               \* no source is current: before one starts, or between two

sourceVars == <<active, mqttConnected, gatewayConnected, authority, retired>>

Sources   == {"mqtt", "igw"}
Connected == mqttConnected \/ gatewayConnected

SourceType ==
  /\ active \in Sources \union {"none"}
  /\ mqttConnected \in BOOLEAN /\ gatewayConnected \in BOOLEAN
  /\ authority \in BOOLEAN
  /\ retired \in BOOLEAN

SourceInit ==
  /\ active = "none" /\ mqttConnected = FALSE /\ gatewayConnected = FALSE
  /\ authority = FALSE /\ retired = TRUE

\* set_active_source and _new_source_state: only a retired source is replaced,
\* and its replacement starts unconnected and without controller state.
StartSource(s) ==
  /\ retired
  /\ active' = s
  /\ mqttConnected' = FALSE /\ gatewayConnected' = FALSE
  /\ authority' = FALSE
  /\ retired' = FALSE

\* ConnAck of an MQTT session, or a snapshot of the gateway
ConnectSource ==
  /\ ~retired
  /\ mqttConnected' = (active = "mqtt") /\ gatewayConnected' = (active = "igw")
  /\ authority' \in BOOLEAN
  /\ UNCHANGED <<active, retired>>

\* a message of the current source
Observe ==
  /\ ~retired
  /\ authority' \in BOOLEAN
  /\ UNCHANGED <<active, mqttConnected, gatewayConnected, retired>>

\* A session ends or a poll fails; the second of two failing polls clears
\* nothing again.  Controller state counts only while the source is connected.
Disconnect ==
  /\ ~retired
  /\ mqttConnected' = FALSE /\ gatewayConnected' = FALSE
  /\ authority' \in BOOLEAN /\ (authority' => authority)
  /\ UNCHANGED <<active, retired>>

\* the last observation of the controller has aged out
Expire ==
  /\ authority' = FALSE
  /\ UNCHANGED <<active, mqttConnected, gatewayConnected, retired>>

\* _retire_source: flags and controller state stay until the replacement
RetireSource ==
  /\ retired' = TRUE
  /\ UNCHANGED <<active, mqttConnected, gatewayConnected, authority>>

\* _clear_mqtt_client at the end of the application
CloseSource ==
  /\ mqttConnected' = FALSE
  /\ UNCHANGED <<active, gatewayConnected, authority, retired>>

SourceNext ==
  \/ \E s \in Sources : StartSource(s)
  \/ ConnectSource \/ Observe \/ Disconnect \/ Expire
  \/ RetireSource \/ CloseSource

SourceSpec == SourceInit /\ [][SourceNext]_sourceVars
=============================================================================
