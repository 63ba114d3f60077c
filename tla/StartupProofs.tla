---------------------------- MODULE StartupProofs ----------------------------
(***************************************************************************)
(* That the monitor finds its queue and that no request is looked up in a  *)
(* table that is being filled, for any number of handlers and any          *)
(* priorities of the tasks, as long as the WiFi task has the highest.      *)
(***************************************************************************)
EXTENDS Startup, TLAPS

\* TypeOK in two parts, where the tasks are and the numbers.
Places == /\ main \in {"nvs", "radio", "configure", "rx_start", "wifi_start", "done",
                       "radio failed", "hung"}
          /\ rxTask \in BOOLEAN
          /\ wifi \in WifiSteps
          /\ monitor \in {"none", "ready", "waiting", "crashed"}
          /\ queue \in BOOLEAN
          /\ server \in {"none", "running", "failed"}
          /\ raced \in BOOLEAN /\ console \in BOOLEAN
          /\ station \in {"off", "connecting", "connected", "disconnected"}

Numbers == /\ messages \in 0 .. 3 /\ registered \in 0 .. Handlers
           /\ saved \in 0 .. FieldSize /\ name \in 0 .. FieldSize
           /\ restarts \in 0 .. MaxRestarts

Empty   == registered = 0
Partial == registered \in 1 .. Handlers - 1

\* Which steps of the WiFi task have the server, the monitor and the table in
\* which state.  Where another task could see something half done, the WiFi task
\* is ready and does not wait for the console: it keeps the core.
Order ==
  /\ wifi = "none" => monitor = "none" /\ server = "none"
  /\ main # "done" => wifi = "none"
  /\ wifi \in {"create_monitor", "create_queue", "log_start", "start_server"}
       => server # "running"
  /\ wifi \in {"log_register", "register"} => server = "running"
  /\ wifi = "log_register" \/ server # "running" => Empty
  /\ wifi = "register" => Empty \/ Partial
  /\ Partial => wifi = "register"
  /\ monitor = "ready" /\ ~queue => wifi = "create_queue"
  /\ monitor # "crashed"
  /\ ~raced

IInv == Places /\ Numbers /\ Order
-----------------------------------------------------------------------------
LEMMA EmptyIsNotPartial == Empty => ~Partial
BY StartupAssumption DEF Empty, Partial

LEMMA InitIInv == Init => IInv
<1> SUFFICES ASSUME Init PROVE IInv
  OBVIOUS
<1>1. Numbers /\ Empty
  BY StartupAssumption DEF Init, Numbers, Empty
<1>2. Places
  BY DEF Init, Places, WifiSteps
<1>3. Order
  BY <1>1, EmptyIsNotPartial DEF Init, Order
<1> QED
  BY <1>1, <1>2, <1>3 DEF IInv

\* A step that registers nothing leaves the table as it was.
LEMMA TableKept == registered' = registered => (Empty' <=> Empty) /\ (Partial' <=> Partial)
BY DEF Empty, Partial

\* No task of lower priority runs while the WiFi task does what must not be seen
\* half done.
LEMMA KeepsCore ==
  ASSUME NEW priority \in Nat, priority < WifiPriority, CanRun(priority)
  PROVE  wifi \notin {"create_queue", "register"}
BY StartupAssumption DEF CanRun, WifiReady, Logging

LEMMA Calls == /\ After["nvs"] = "radio" /\ After["radio"] = "configure"
               /\ After["configure"] = "rx_start" /\ After["rx_start"] = "wifi_start"
               /\ After["wifi_start"] = "done"
BY DEF After

LEMMA MainKeeps == IInv /\ Main => IInv'
<1> SUFFICES ASSUME IInv, Main PROVE IInv'
  OBVIOUS
<1>1. registered' = registered
  BY DEF Main, InitStorage, InitRadio, ConfigureRadio, StartReceiver, StartWifi, serverVars
<1>2. saved' \in {0, saved} /\ UNCHANGED <<messages, name, restarts>>
  BY DEF Main, InitStorage, InitRadio, ConfigureRadio, StartReceiver, StartWifi, wifiVars, staVars
<1>3. Numbers'
  BY <1>1, <1>2, StartupAssumption DEF IInv, Numbers
<1>4. UNCHANGED <<monitor, queue, server, raced, console, station>> /\ rxTask' \in {TRUE, rxTask}
  BY DEF Main, InitStorage, InitRadio, ConfigureRadio, StartReceiver, StartWifi, serverVars, staVars
<1>5. /\ main # "done"
      /\ \/ /\ main' \in {"radio", "configure", "rx_start", "wifi_start", "radio failed", "hung"}
            /\ wifi' = wifi
         \/ main' = "done" /\ wifi' = "event_handler"
  <2>1. CASE InitStorage
    BY <2>1, Calls DEF InitStorage, wifiVars
  <2>2. CASE InitRadio
    BY <2>2, Calls DEF InitRadio, wifiVars
  <2>3. CASE ConfigureRadio
    BY <2>3, Calls DEF ConfigureRadio, wifiVars
  <2>4. CASE StartReceiver
    BY <2>4, Calls DEF StartReceiver, wifiVars
  <2>5. CASE StartWifi
    BY <2>5, Calls DEF StartWifi
  <2> QED
    BY <2>1, <2>2, <2>3, <2>4, <2>5 DEF Main
<1>6. Places'
  <2>1. rxTask' \in BOOLEAN /\ queue' \in BOOLEAN /\ raced' \in BOOLEAN /\ console' \in BOOLEAN
    BY <1>4, Zenon DEF IInv, Places
  <2> QED
    BY <1>4, <1>5, <2>1 DEF IInv, Places, WifiSteps
<1>7. Order'
  BY <1>1, <1>4, <1>5, TableKept DEF IInv, Order
<1> QED
  BY <1>3, <1>6, <1>7 DEF IInv

\* The WiFi task up to the first message.
LEMMA SetupKeeps ==
  IInv /\ (InitWifi \/ ConfigStation \/ StartAccessPoint \/ Connect \/ SendMessage) => IInv'
<1> SUFFICES ASSUME IInv, InitWifi \/ ConfigStation \/ StartAccessPoint \/ Connect \/ SendMessage
             PROVE  IInv'
  OBVIOUS
<1>1. registered' = registered
  BY DEF InitWifi, ConfigStation, StartAccessPoint, Connect, SendMessage, serverVars
<1>2. Numbers'
  BY <1>1, StartupAssumption
     DEF IInv, Numbers, InitWifi, ConfigStation, StartAccessPoint, Connect, SendMessage, Sent,
         Smaller, staVars
<1>3. Places'
  BY DEF IInv, Places, WifiSteps, InitWifi, ConfigStation, StartAccessPoint, Connect,
         SendMessage, serverVars, staVars
<1>4. Order'
  BY <1>1, TableKept
     DEF IInv, Order, InitWifi, ConfigStation, StartAccessPoint, Connect, SendMessage, serverVars
<1> QED
  BY <1>2, <1>3, <1>4 DEF IInv

\* http_server_start until the handlers are registered.
LEMMA ServerKeeps ==
  IInv /\ (ReceiveMessage \/ CreateMonitor \/ CreateQueue \/ Log \/ StartServer) => IInv'
<1> SUFFICES ASSUME IInv, ReceiveMessage \/ CreateMonitor \/ CreateQueue \/ Log \/ StartServer
             PROVE  IInv'
  OBVIOUS
<1>1. registered' = registered
  BY DEF ReceiveMessage, CreateMonitor, CreateQueue, Log, StartServer, serverVars
<1>2. Numbers'
  BY <1>1 DEF IInv, Numbers, ReceiveMessage, CreateMonitor, CreateQueue, Log, StartServer, staVars
<1>3. Places'
  BY DEF IInv, Places, WifiSteps, ReceiveMessage, CreateMonitor, CreateQueue, Log, StartServer,
         serverVars, staVars
<1>4. Order'
  BY <1>1, TableKept, EmptyIsNotPartial
     DEF IInv, Order, ReceiveMessage, CreateMonitor, CreateQueue, Log, Logging, StartServer,
         serverVars
<1> QED
  BY <1>2, <1>3, <1>4 DEF IInv

\* The table is partly filled exactly as long as there are handlers left.
LEMMA RegisterKeeps == IInv /\ Register => IInv'
<1> SUFFICES ASSUME IInv, Register PROVE IInv'
  OBVIOUS
<1>1. registered \in 0 .. Handlers - 1
  BY StartupAssumption DEF IInv, Numbers, Order, Empty, Partial, Register
<1>2. registered' \in 1 .. Handlers /\ (Partial' <=> More) /\ ~Empty'
  BY <1>1, StartupAssumption DEF Register, More, Partial, Empty
<1>3. Numbers'
  BY <1>2 DEF IInv, Numbers, Register, staVars
<1>4. /\ UNCHANGED <<console, main, rxTask, monitor, queue, server, raced, station>>
      /\ (queue' <=> queue) /\ (raced' <=> raced)
      /\ wifi = "register" /\ wifi' \in {"register", "receive"}
      /\ Partial' => wifi' = "register"
      /\ wifi' = "register" => Partial'
  BY <1>2 DEF Register, staVars
<1>5. Places'
  <2>1. rxTask' \in BOOLEAN /\ queue' \in BOOLEAN /\ raced' \in BOOLEAN /\ console' \in BOOLEAN
    BY <1>4, Zenon DEF IInv, Places
  <2> QED
    BY <1>4, <2>1 DEF IInv, Places, WifiSteps
<1>6. Order'
  BY <1>2, <1>4 DEF IInv, Order
<1> QED
  BY <1>3, <1>5, <1>6 DEF IInv

\* The tasks of lower priority: here the priorities are used.
LEMMA OthersKeep == IInv /\ (MonitorWaits \/ Request \/ Save) => IInv'
<1> SUFFICES ASSUME IInv, MonitorWaits \/ Request \/ Save PROVE IInv'
  OBVIOUS
<1>1. wifi \notin {"create_queue", "register"}
  BY KeepsCore, StartupAssumption DEF MonitorWaits, Request, Save
<1>2. registered' = registered
  BY DEF MonitorWaits, Request, Save, serverVars
<1>3. Numbers'
  BY <1>2 DEF IInv, Numbers, MonitorWaits, Request, Save, wifiVars, staVars
<1>4. Places'
  BY DEF IInv, Places, MonitorWaits, Request, Save, wifiVars, serverVars, staVars
<1>5. UNCHANGED <<main, wifi, server>> /\ (queue' <=> queue)
  BY DEF MonitorWaits, Request, Save, wifiVars, serverVars
<1>6. monitor' = monitor \/ (monitor = "ready" /\ monitor' = "waiting")
  <2>1. monitor = "ready" => queue
    BY <1>1 DEF IInv, Order
  <2> QED
    BY <2>1 DEF MonitorWaits, Request, Save, serverVars
<1>7. raced' = FALSE
  <2>1. raced = FALSE /\ ~Partial
    BY <1>1 DEF IInv, Order, Places
  <2> QED
    BY <2>1 DEF MonitorWaits, Request, Save, Partial, serverVars
<1>8. Order'
  BY <1>1, <1>2, <1>5, <1>6, <1>7, TableKept DEF IInv, Order
<1> QED
  BY <1>3, <1>4, <1>8 DEF IInv

LEMMA OutsideKeeps == IInv /\ (StationEvent \/ PrintPacket) => IInv'
<1> SUFFICES ASSUME IInv, StationEvent \/ PrintPacket PROVE IInv'
  OBVIOUS
<1>1. Numbers' /\ registered' = registered
  BY DEF IInv, Numbers, StationEvent, PrintPacket, wifiVars, serverVars, staVars
<1>2. Places'
  BY DEF IInv, Places, StationEvent, PrintPacket, wifiVars, serverVars, staVars
<1>3. Order'
  BY <1>1, TableKept DEF IInv, Order, StationEvent, PrintPacket, wifiVars, serverVars
<1> QED
  BY <1>1, <1>2, <1>3 DEF IInv

LEMMA RestartKeeps == IInv /\ Restart => IInv'
<1> SUFFICES ASSUME IInv, Restart PROVE IInv'
  OBVIOUS
<1>1. Numbers' /\ Empty' /\ ~Partial'
  BY StartupAssumption DEF IInv, Numbers, Restart, Empty, Partial
<1>2. Places'
  BY DEF Places, WifiSteps, Restart
<1>3. Order'
  BY <1>1 DEF Order, Restart
<1> QED
  BY <1>1, <1>2, <1>3 DEF IInv

LEMMA SpecIInv == Spec => []IInv
<1>1. IInv /\ [Next]_vars => IInv'
  <2> SUFFICES ASSUME IInv, [Next]_vars PROVE IInv'
    OBVIOUS
  <2>1. CASE Main
    BY <2>1, MainKeeps
  <2>2. CASE WifiTask
    BY <2>2, SetupKeeps, ServerKeeps, RegisterKeeps DEF WifiTask
  <2>3. CASE MonitorWaits \/ Request \/ Save
    BY <2>3, OthersKeep
  <2>4. CASE StationEvent \/ PrintPacket \/ Restart
    BY <2>4, OutsideKeeps, RestartKeeps
  <2>5. CASE UNCHANGED vars
    <3>1. Numbers' /\ registered' = registered
      BY <2>5 DEF IInv, Numbers, vars, wifiVars, serverVars, staVars
    <3>2. Places' /\ Order'
      BY <2>5, <3>1, TableKept DEF IInv, Places, Order, vars, wifiVars, serverVars, staVars
    <3> QED
      BY <3>1, <3>2 DEF IInv
  <2> QED
    BY <2>1, <2>2, <2>3, <2>4, <2>5 DEF Next
<1> QED
  BY <1>1, InitIInv, PTL DEF Spec
-----------------------------------------------------------------------------
\* The tasks and the server are in a state the code gives them; no more handlers
\* are registered than there are, no name is longer than its field.
THEOREM TypeCorrect == Spec => []TypeOK
<1>1. IInv => TypeOK
  BY DEF IInv, Places, Numbers, TypeOK
<1> QED
  BY <1>1, SpecIInv, PTL

\* http_server_configure creates the monitor's task before the queue it reads:
\* it finds the queue nevertheless, whatever its priority below the WiFi task's.
THEOREM MonitorAlwaysHasQueue == Spec => []MonitorHasQueue
<1>1. IInv => MonitorHasQueue
  BY DEF IInv, Order, MonitorHasQueue
<1> QED
  BY <1>1, SpecIInv, PTL

\* No request is looked up in a table that is being filled, for any number of
\* handlers, although nothing locks it.
THEOREM TableAlwaysStill == Spec => []TableIsStill
<1>1. IInv => TableIsStill
  BY DEF IInv, Order, TableIsStill
<1> QED
  BY <1>1, SpecIInv, PTL
=============================================================================
