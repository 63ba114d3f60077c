------------------------------ MODULE Startup ------------------------------
(***************************************************************************)
(* How the firmware starts: app_main (main.c), which brings up the         *)
(* storage, the radio and its task and leaves the rest to the WiFi task    *)
(* (wifi_app.c), which brings up the access point, the station and the     *)
(* HTTP server with its monitor task (http_server_configure).              *)
(*                                                                         *)
(* The WiFi task, the HTTP server and the monitor are pinned to one core   *)
(* and run by priority: a task runs only while no task of higher priority  *)
(* is ready.  The start-up relies on it: the monitor is created before the *)
(* queue it reads, and the table of handlers is filled, without a lock,    *)
(* while the server that reads it is running.  The WiFi task gives up the  *)
(* core only where it waits: for a message, and for the console, which the *)
(* receiving task on the other core holds while it prints.                 *)
(***************************************************************************)
EXTENDS Naturals

CONSTANTS WifiPriority, HttpPriority, MonitorPriority,  \* tasks_common.h
          Handlers,      \* number of URI handlers
          FieldSize,     \* sizeof(wifi_config.sta.ssid)
          MaxRestarts    \* bound of the restarts

ASSUME StartupAssumption ==
  /\ WifiPriority \in Nat /\ HttpPriority \in Nat /\ MonitorPriority \in Nat
  /\ MonitorPriority < HttpPriority /\ HttpPriority < WifiPriority
  /\ Handlers \in Nat \ {0}
  /\ FieldSize \in Nat \ {0}
  /\ MaxRestarts \in Nat

VARIABLES
  main,       \* where app_main is, or how it ended
  rxTask,     \* the receiving task was created
  wifi,       \* where the WiFi task is
  messages,   \* messages in wifi_app_queue
  monitor,    \* the monitor task: none, ready, waiting for a message, crashed
  queue,      \* http_server_monitor_queue was created
  server,     \* the HTTP server: none, running, failed
  registered, \* URI handlers registered so far
  raced,      \* history: a request was looked up in a table being filled
  console,    \* the receiving task is printing
  station,    \* the station's connection
  saved,      \* the SSID in the storage: its length, 0 for none
  name,       \* the SSID the station was configured with
  restarts    \* restarts so far

wifiVars   == <<wifi, messages>>
serverVars == <<monitor, queue, server, registered, raced>>
staVars    == <<station, name>>
vars == <<main, rxTask, console, wifiVars, serverVars, staVars, saved, restarts>>

WifiSteps == {"none", "event_handler", "soft_ap", "sta_config", "start", "connect",
              "send", "receive", "create_monitor", "create_queue", "log_start",
              "start_server", "log_register", "register"}

TypeOK == /\ main \in {"nvs", "radio", "configure", "rx_start", "wifi_start", "done",
                       "radio failed", "hung"}
          /\ rxTask \in BOOLEAN
          /\ wifi \in WifiSteps
          /\ messages \in 0 .. 3
          /\ monitor \in {"none", "ready", "waiting", "crashed"}
          /\ queue \in BOOLEAN
          /\ server \in {"none", "running", "failed"}
          /\ registered \in 0 .. Handlers
          /\ raced \in BOOLEAN /\ console \in BOOLEAN
          /\ station \in {"off", "connecting", "connected", "disconnected"}
          /\ saved \in 0 .. FieldSize /\ name \in 0 .. FieldSize
          /\ restarts \in 0 .. MaxRestarts

Init == /\ main = "nvs" /\ rxTask = FALSE /\ console = FALSE
        /\ wifi = "none" /\ messages = 0
        /\ monitor = "none" /\ queue = FALSE /\ server = "none" /\ registered = 0
        /\ raced = FALSE
        /\ station = "off" /\ name = 0
        /\ saved \in 0 .. FieldSize
        /\ restarts = 0
-----------------------------------------------------------------------------
(***************************************************************************)
(* app_main.                                                               *)
(***************************************************************************)
\* The order of app_main's calls.
After == [nvs |-> "radio", radio |-> "configure", configure |-> "rx_start",
          rx_start |-> "wifi_start", wifi_start |-> "done"]

InitStorage ==
  /\ main = "nvs"
  /\ main' = After[main]
  /\ saved' \in {0, saved}         \* an unusable storage is erased
  /\ UNCHANGED <<console, rxTask, wifiVars, serverVars, staVars, restarts>>

\* rf_init_module: no radio answers, or it does not get ready and LoRaError
\* never returns.  In neither case does anything else start.
InitRadio ==
  /\ main = "radio"
  /\ main' \in {After[main], "radio failed", "hung"}
  /\ UNCHANGED <<console, rxTask, wifiVars, serverVars, staVars, saved, restarts>>

\* rf_configure(RF_MODE_OGN): the commands may hang in the same way.
ConfigureRadio ==
  /\ main = "configure"
  /\ main' \in {After[main], "hung"}
  /\ UNCHANGED <<console, rxTask, wifiVars, serverVars, staVars, saved, restarts>>

\* rf_rx_start
StartReceiver ==
  /\ main = "rx_start"
  /\ rxTask' = TRUE
  /\ main' = After[main]
  /\ UNCHANGED <<console, wifiVars, serverVars, staVars, saved, restarts>>

\* wifi_app_start creates the queue before the task.
StartWifi ==
  /\ main = "wifi_start"
  /\ wifi' = "event_handler"
  /\ main' = After[main]
  /\ UNCHANGED <<console, rxTask, messages, serverVars, staVars, saved, restarts>>
-----------------------------------------------------------------------------
(***************************************************************************)
(* Which task has the core.                                                *)
(***************************************************************************)
Logging == {"log_start", "log_register"}

WifiReady == /\ wifi # "none"
             /\ wifi = "receive" => messages > 0
             /\ wifi \in Logging => ~console

\* Mutant: the tasks are not pinned, and run on the other core.
NotPinned(priority) == TRUE
\* A task of this priority may run: no ready task has a higher one.
CanRun(priority) == WifiReady => priority >= WifiPriority
-----------------------------------------------------------------------------
(***************************************************************************)
(* The WiFi task.                                                          *)
(***************************************************************************)

\* Event handlers, driver and access point: each aborts if it fails (Panic).
InitWifi ==
  /\ \/ wifi = "event_handler" /\ wifi' = "soft_ap"
     \/ wifi = "soft_ap" /\ wifi' = "sta_config"
  /\ UNCHANGED <<console, main, rxTask, messages, serverVars, staVars, saved, restarts>>

Smaller(a, b) == IF a < b THEN a ELSE b

\* wifi_app_sta_config: strncpy copies one less than the field holds.  The first
\* esp_wifi_connect fails, since WiFi is not started, and is not looked at.
ConfigStation ==
  /\ wifi = "sta_config"
  /\ name' = IF saved > 0 THEN Smaller(saved, FieldSize - 1) ELSE 0
  /\ wifi' = "start"
  /\ UNCHANGED <<console, main, rxTask, messages, serverVars, station, saved, restarts>>

StartAccessPoint ==
  /\ wifi = "start"
  /\ wifi' = "connect"
  /\ UNCHANGED <<console, main, rxTask, messages, serverVars, staVars, saved, restarts>>

\* esp_wifi_connect, which fails without a name.
Connect ==
  /\ wifi = "connect"
  /\ station' = IF name > 0 THEN "connecting" ELSE station
  /\ wifi' = "send"
  /\ UNCHANGED <<console, main, rxTask, messages, serverVars, name, saved, restarts>>

\* Mutant: the message is not sent.
NotSent == 0
\* WIFI_APP_MSG_START_HTTP_SERVER, the only message that is ever sent.
Sent == 1

SendMessage ==
  /\ wifi = "send"
  /\ messages < 3
  /\ messages' = messages + Sent
  /\ wifi' = "receive"
  /\ UNCHANGED <<console, main, rxTask, serverVars, staVars, saved, restarts>>

\* xQueueReceive, then http_server_start, which does nothing when the server has
\* been started.
ReceiveMessage ==
  /\ wifi = "receive" /\ messages > 0
  /\ messages' = messages - 1
  /\ wifi' = IF server = "running" THEN "receive" ELSE "create_monitor"
  /\ UNCHANGED <<console, main, rxTask, serverVars, staVars, saved, restarts>>

CreateMonitor ==
  /\ wifi = "create_monitor"
  /\ monitor' = "ready"
  /\ wifi' = "create_queue"
  /\ UNCHANGED <<console, main, rxTask, messages, queue, server, registered, raced, staVars, saved, restarts>>

CreateQueue ==
  /\ wifi = "create_queue"
  /\ queue' = TRUE
  /\ wifi' = "log_start"
  /\ UNCHANGED <<console, main, rxTask, messages, monitor, server, registered, raced, staVars, saved, restarts>>

\* ESP_LOGI: a step only when the console is free.  The waits before the server
\* exists have nobody to let run, and are left out.
Log ==
  /\ wifi \in Logging /\ ~console
  /\ wifi' = IF wifi = "log_start" THEN "start_server" ELSE "register"
  /\ UNCHANGED <<console, main, rxTask, messages, serverVars, staVars, saved, restarts>>

\* httpd_start may fail; nothing tries again.
StartServer ==
  /\ wifi = "start_server"
  /\ \/ server' = "running" /\ wifi' = "log_register"
     \/ server' = "failed" /\ wifi' = "receive"
  /\ UNCHANGED <<console, main, rxTask, messages, monitor, queue, registered, raced, staVars, saved, restarts>>

\* Mutant: one call too many.
OrTheLast == registered' <= Handlers
\* There are handlers left.
More == registered' < Handlers

Register ==
  /\ wifi = "register"
  /\ registered' = registered + 1
  /\ wifi' = IF More THEN "register" ELSE "receive"
  /\ UNCHANGED <<console, main, rxTask, messages, monitor, queue, server, raced, staVars, saved, restarts>>

WifiTask == \/ InitWifi \/ ConfigStation \/ StartAccessPoint \/ Connect \/ SendMessage
            \/ ReceiveMessage \/ CreateMonitor \/ CreateQueue \/ Log \/ StartServer \/ Register
-----------------------------------------------------------------------------
(***************************************************************************)
(* The other tasks, the station's access point, and restarts.              *)
(***************************************************************************)

\* The monitor's first step is to wait for the queue; without one it asserts.
MonitorWaits ==
  /\ monitor = "ready" /\ CanRun(MonitorPriority)
  /\ monitor' = IF queue THEN "waiting" ELSE "crashed"
  /\ UNCHANGED <<console, main, rxTask, wifiVars, queue, server, registered, raced, staVars, saved, restarts>>

\* The server looks a request up in its table, entry by entry to the first that is
\* empty.  One step is enough: of an empty table it reads one entry, a full one does
\* not change, and what it begins in one between the two is held against it here.
Request ==
  /\ server = "running" /\ CanRun(HttpPriority)
  /\ raced' = (raced \/ registered \in 1 .. Handlers - 1)
  /\ UNCHANGED <<console, main, rxTask, wifiVars, monitor, queue, server, registered, staVars, saved, restarts>>

\* POST /api/config/network saves another name (see NetConfig).
Save ==
  /\ server = "running" /\ CanRun(HttpPriority)
  /\ \E n \in 0 .. FieldSize : saved' = n
  /\ UNCHANGED <<console, main, rxTask, wifiVars, serverVars, staVars, restarts>>

\* The driver reports what became of the connection; wifi_app_event_handler
\* logs it.
StationEvent ==
  /\ \/ station = "connecting" /\ station' \in {"connected", "disconnected"}
     \/ station = "connected" /\ station' = "disconnected"
  /\ UNCHANGED <<console, main, rxTask, wifiVars, serverVars, name, saved, restarts>>

\* The receiving task prints what it decoded (rf.c), and is done with it.
PrintPacket ==
  /\ rxTask
  /\ console' = ~console
  /\ UNCHANGED <<main, rxTask, wifiVars, serverVars, staVars, saved, restarts>>

\* Power, a failed ESP_ERROR_CHECK, an update: everything starts again.
Restart ==
  /\ restarts < MaxRestarts
  /\ restarts' = restarts + 1
  /\ main' = "nvs" /\ rxTask' = FALSE /\ console' = FALSE
  /\ wifi' = "none" /\ messages' = 0
  /\ monitor' = "none" /\ queue' = FALSE /\ server' = "none" /\ registered' = 0
  /\ raced' = FALSE
  /\ station' = "off" /\ name' = 0
  /\ UNCHANGED saved

Main == InitStorage \/ InitRadio \/ ConfigureRadio \/ StartReceiver \/ StartWifi

Next == Main \/ WifiTask \/ MonitorWaits \/ Request \/ Save \/ StationEvent \/ PrintPacket \/ Restart

Spec == Init /\ [][Next]_vars

\* Every task runs when it has the core, and the console is free again and
\* again, which a task waiting for it then gets.
FairSpec == Spec /\ WF_vars(Main) /\ SF_vars(WifiTask) /\ WF_vars(MonitorWaits)
                 /\ WF_vars(console /\ PrintPacket)
-----------------------------------------------------------------------------
\* The monitor never waits on a queue that was not created, although it is
\* created first: its priority keeps it from running until the queue is there.
MonitorHasQueue == monitor # "crashed"

\* No request is looked up in a table that is being filled: httpd_register_uri_handler
\* takes no lock, and the server's task, of lower priority, finds none of the
\* handlers, if the WiFi task had to wait for the console, or all of them.
TableIsStill == ~raced

\* Whatever the station does, the device comes up with a complete server and a
\* monitor that waits, unless the radio or the server cannot be started.
ComesUp ==
  main = "nvs" ~> \/ server = "running" /\ registered = Handlers /\ monitor = "waiting"
                  \/ main \in {"radio failed", "hung"}
                  \/ server = "failed"
=============================================================================
