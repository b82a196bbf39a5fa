--------------------------- MODULE GatewayService ---------------------------
(***************************************************************************)
(* The gateway as a Windows service: what the service control manager says *)
(* of it (status), how far its process is (proc), which configuration it   *)
(* has loaded and its log.  The process reports Running before it has      *)
(* loaded anything, and Stopped when it has served the last request.       *)
(***************************************************************************)
EXTENDS PolicyFile

VARIABLES disk,        \* the configuration file
          status,      \* NotInstalled, Stopped, StartPending or Running
          proc,        \* none, started, reported, loaded, listening, serving, ended
          stopAsked,   \* the control handler has been told to stop
          running,     \* the configuration the process loaded
          said,        \* what this start has said of layer 2, or ""
          log          \* the layer 2 lines of the log, over all starts

serviceVars == <<status, proc, stopAsked, running, said, log>>

\* A gateway started by hand, or by the manager at boot, or none.
ServiceInit ==
    /\ status \in {"NotInstalled", "Running", "Stopped"}
    /\ proc = IF status = "Stopped" THEN "none" ELSE "serving"
    /\ stopAsked = FALSE
    /\ running = IF status = "Stopped" THEN <<>> ELSE disk
    /\ said = IF status = "Stopped" THEN "" ELSE "ready"
    /\ log = IF status = "Stopped" THEN <<>> ELSE <<"ready">>

ToPhase(from, to) == proc = from /\ proc' = to

-----------------------------------------------------------------------------
\* The manager starts the process and hands on a request to stop it.
CanStart == status = "Stopped"
CanStop == status = "Running"

StartService ==
    /\ status' = "StartPending" /\ proc' = "started"
    /\ stopAsked' = FALSE /\ running' = <<>> /\ said' = ""
    /\ \/ log' = log
       \/ log' = <<>>     \* rotated, when it has grown past MAX_LOG_BYTES

ReportRunning ==
    /\ ToPhase("started", "reported")
    /\ status' = "Running"
    /\ UNCHANGED <<stopAsked, running, said, log>>

LoadConfig ==
    /\ IF Parses(disk) THEN ToPhase("reported", "loaded") /\ running' = disk
       ELSE ToPhase("reported", "ended") /\ UNCHANGED running
    /\ UNCHANGED <<status, stopAsked, said, log>>

\* Another program may hold the port.
Bind ==
    /\ ToPhase("loaded", "listening") \/ ToPhase("loaded", "ended")
    /\ UNCHANGED <<status, stopAsked, running, said, log>>

\* With layer 2 disabled in the configuration nothing is said of it.
WithInference ==
    /\ ToPhase("listening", "serving")
    /\ \/ said' \in {"ready", "unavailable"} /\ log' = Append(log, said')
       \/ UNCHANGED <<said, log>>
    /\ UNCHANGED <<status, stopAsked, running>>

\* Requests in flight are finished first, however long that takes.
Drained ==
    /\ ToPhase("serving", "ended")
    /\ stopAsked
    /\ UNCHANGED <<status, stopAsked, running, said, log>>

ReportStopped ==
    /\ ToPhase("ended", "none")
    /\ status' = IF status = "NotInstalled" THEN status ELSE "Stopped"
    /\ UNCHANGED <<stopAsked, running, said, log>>

\* The process is killed; the manager notices.
Kill ==
    /\ proc # "none"
    /\ proc' = "none"
    /\ status' = IF status = "NotInstalled" THEN status ELSE "Stopped"
    /\ UNCHANGED <<stopAsked, running, said, log>>

ServiceNext ==
    \/ ReportRunning \/ LoadConfig \/ Bind \/ WithInference
    \/ Drained \/ ReportStopped \/ Kill
=============================================================================
