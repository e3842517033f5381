------------------------------ MODULE Thermal ------------------------------
(***************************************************************************)
(* The thermal HAL (src/thermal).  A watcher thread sleeps in a looper     *)
(* until its timeout or a uevent of the kernel, reads the monitored        *)
(* sensors (all of them after a timeout, those the uevents name            *)
(* otherwise), turns each reading into a severity with hysteresis, and     *)
(* tells the registered callbacks of every severity that changed.  The     *)
(* binder thread registers and unregisters callbacks; a new callback is    *)
(* told the current severities at once.                                    *)
(*                                                                         *)
(* sensor_status_map_ is written by the watcher alone.                     *)
(* thermal_callback_mutex_ is held for a whole registration and while the  *)
(* watcher sends.  The watcher polls every 2 s while thermal_triggered_ is *)
(* set and otherwise every 5 min; both are one Timeout here, and a         *)
(* property speaks of the flag.  Only monitored sensors are modelled, with *)
(* whole degrees for temperatures.  Changes of temperature, calls, and     *)
(* faults (failed reads and notifications) are bounded; the uevents of     *)
(* other subsystems are not.                                               *)
(***************************************************************************)
EXTENDS Integers, FiniteSets

CONSTANTS
  NumSensors,     \* sensors are visited in the order of their names
  Callbacks,
  Wants,          \* the sensors a callback asks for with its type filter
  Info,           \* sensor_info_map_: the thresholds of a sensor
  Temps,          \* the temperatures a sensor may have
  MaxChanges, MaxFaults, MaxCalls

NoValue == -1000        \* below any temperature

SHUTDOWN == 6
NONE == 0
Severities == NONE .. SHUTDOWN
Levels == 1 .. SHUTDOWN
Sensors == 1 .. NumSensors

(***************************************************************************)
(* A configuration ParseSensorInfo accepts.  hot and cold have a value for *)
(* the severities whose threshold is a number; hysteresis is never NaN,    *)
(* and nothing else is asked of it.                                        *)
(***************************************************************************)
ValidInfo(info) ==
  /\ DOMAIN info.hot \subseteq Levels /\ DOMAIN info.cold \subseteq Levels
  /\ \A i \in DOMAIN info.hot : info.hot[i] \in Int /\ info.hotHysteresis[i] \in Int
  /\ \A i \in DOMAIN info.cold : info.cold[i] \in Int /\ info.coldHysteresis[i] \in Int
  /\ \A i, j \in DOMAIN info.hot : i < j => info.hot[i] <= info.hot[j]
  /\ \A i, j \in DOMAIN info.cold : i < j => info.cold[j] <= info.cold[i]

ASSUME SensorAssumption ==
  /\ NumSensors \in Nat \ {0}
  /\ MaxChanges \in Nat /\ MaxFaults \in Nat /\ MaxCalls \in Nat
  /\ Temps \subseteq Int /\ NoValue \notin Temps
  /\ Wants \in [Callbacks -> SUBSET Sensors]
  /\ \A s \in Sensors : ValidInfo(Info[s])

VARIABLES
  temp,             \* the kernel: the temperature of each sensor
  uevents,          \* the sensors with a message in the socket, 0 for any other subsystem
  listening,        \* the looper has the uevent socket
  is_polling_, thermal_triggered_,      \* ThermalWatcher
  pc,               \* where the watcher is
  sensor,           \* the sensor it is at
  checking,         \* the sensors this pass reads
  reading,          \* what readTemperature returned, NoReading when it is not in use
  triggered,        \* the result of the pass so far
  temps,            \* the sensors whose change is to be sent
  hot, cold,        \* sensor_status_map_: prev_hot_severity, prev_cold_severity
  severity,         \* sensor_status_map_: severity
  callbacks_,
  registering,      \* the callback being registered, which holds the mutex
  toRead,           \* the sensors the registration still reads
  regValue,         \* the temperature it has just read, or NoValue
  current,          \* the severities it has
  told,             \* history: the last severity each callback was told
  changed,          \* history: the sensors that changed while a callback was registered
  missed,           \* history: the sensors this pass could not read
  changes, faults, calls

status == <<hot, cold, severity>>
watcher == <<listening, is_polling_, thermal_triggered_, pc, sensor, checking, reading, triggered,
             temps, missed>>
binder == <<callbacks_, registering, toRead, regValue, current>>
history == <<told, changed>>
vars == <<temp, uevents, watcher, status, binder, history, changes, faults, calls>>

NoCallback == "none"
NoReading == [value |-> 0, hot |-> NONE, cold |-> NONE]
Unknown == -1
NothingRead == [s \in Sensors |-> NONE]

\* The type of every variable; a severity never leaves its enumeration.
TypeOK ==
  /\ temp \in [Sensors -> Temps]
  /\ uevents \subseteq 0 .. NumSensors
  /\ listening \in BOOLEAN /\ is_polling_ \in BOOLEAN /\ thermal_triggered_ \in BOOLEAN
  /\ pc \in {"poll", "read", "update"}
  /\ sensor \in 1 .. NumSensors + 1
  /\ checking \subseteq Sensors
  /\ reading \in {NoReading} \cup [value : Temps, hot : Severities, cold : Severities]
  /\ triggered \in BOOLEAN
  /\ temps \subseteq Sensors
  /\ hot \in [Sensors -> Severities]
  /\ cold \in [Sensors -> Severities]
  /\ severity \in [Sensors -> Severities]
  /\ callbacks_ \subseteq Callbacks
  /\ registering \in Callbacks \cup {NoCallback}
  /\ toRead \subseteq Sensors
  /\ regValue \in Temps \cup {NoValue}
  /\ current \in [Sensors -> Severities]
  /\ told \in [Callbacks -> [Sensors -> Severities \cup {Unknown}]]
  /\ changed \subseteq Callbacks \X Sensors
  /\ missed \subseteq Sensors
  /\ changes \in 0 .. MaxChanges /\ faults \in 0 .. MaxFaults
  /\ calls \in 0 .. MaxCalls

(***************************************************************************)
(* getSeverityFromThresholds                                               *)
(***************************************************************************)
Top(S) == IF S = {} THEN NONE ELSE CHOOSE i \in S : \A j \in S : j <= i

HotReached(info, value) == {i \in DOMAIN info.hot : info.hot[i] <= value}
HotBand(info, value) == {i \in DOMAIN info.hot : info.hot[i] - info.hotHysteresis[i] < value}
ColdReached(info, value) == {i \in DOMAIN info.cold : info.cold[i] >= value}
ColdBand(info, value) == {i \in DOMAIN info.cold : info.cold[i] + info.coldHysteresis[i] > value}

\* mutant: hysteresis applies whatever the severity was
BandAlways(reached, band, prev) == Top(band)

WithHysteresis(reached, band, prev) ==
  IF Top(reached) < prev THEN Top(band) ELSE Top(reached)

HotSeverity(info, prev, value) ==
  WithHysteresis(HotReached(info, value), HotBand(info, value), prev)
ColdSeverity(info, prev, value) ==
  WithHysteresis(ColdReached(info, value), ColdBand(info, value), prev)

\* readTemperature: both severities of a sensor with the value v, and the one reported
readTemperature(s, v) ==
  [value |-> v,
   hot |-> HotSeverity(Info[s], hot[s], v),
   cold |-> ColdSeverity(Info[s], cold[s], v)]

throttlingStatus(r) == IF r.hot > r.cold THEN r.hot ELSE r.cold

\* registerFilesToWatch: without uevents the watcher polls; a socket that cannot be made
\* nonblocking is dropped
registerFilesToWatch ==
  \/ listening = TRUE /\ is_polling_ = FALSE /\ thermal_triggered_ = TRUE
  \/ listening = FALSE /\ is_polling_ \in BOOLEAN /\ thermal_triggered_ = FALSE

Init ==
  /\ temp \in [Sensors -> Temps]
  /\ uevents = {}
  /\ registerFilesToWatch
  /\ pc = "poll" /\ sensor = 1 /\ checking = {}
  /\ reading = NoReading
  /\ triggered = FALSE /\ temps = {} /\ missed = {}
  /\ hot = [s \in Sensors |-> NONE]
  /\ cold = [s \in Sensors |-> NONE]
  /\ severity = [s \in Sensors |-> NONE]
  /\ callbacks_ = {} /\ registering = NoCallback
  /\ toRead = {} /\ regValue = NoValue /\ current = NothingRead
  /\ told = [c \in Callbacks |-> [s \in Sensors |-> Unknown]]
  /\ changed = {}
  /\ changes = 0 /\ faults = 0 /\ calls = 0

-----------------------------------------------------------------------------
(***************************************************************************)
(* The kernel.  A change of temperature may or may not raise a uevent; the *)
(* other subsystems raise theirs.  Without a socket nothing is received.   *)
(***************************************************************************)
Fault == faults < MaxFaults /\ faults' = faults + 1

ChangeTemp ==
  /\ changes < MaxChanges /\ changes' = changes + 1
  /\ \E s \in Sensors, v \in Temps :
        /\ v # temp[s]
        /\ temp' = [temp EXCEPT ![s] = v]
        /\ uevents' \in {uevents, uevents \cup (IF listening THEN {s} ELSE {})}
  /\ UNCHANGED <<watcher, status, binder, history, faults, calls>>

OtherUevent ==
  /\ listening
  /\ 0 \notin uevents
  /\ uevents' = uevents \cup {0}
  /\ UNCHANGED <<temp, watcher, status, binder, history, changes, faults, calls>>

-----------------------------------------------------------------------------
(***************************************************************************)
(* The watcher: threadLoop and thermalWatcherCallbackFunc                  *)
(***************************************************************************)
StartPass(sensors) ==
  /\ pc' = "read" /\ sensor' = 1
  /\ checking' = sensors
  /\ triggered' = FALSE /\ temps' = {} /\ missed' = {}
  /\ UNCHANGED <<listening, is_polling_, thermal_triggered_, reading>>

\* mutant: the watcher sleeps until a uevent unless something is hot
TimeoutWhenTriggered ==
  /\ pc = "poll" /\ uevents = {}
  /\ thermal_triggered_ \/ is_polling_
  /\ StartPass(Sensors)
  /\ UNCHANGED <<temp, uevents, status, binder, history, changes, faults, calls>>

Timeout ==
  /\ pc = "poll" /\ uevents = {}
  /\ StartPass(Sensors)
  /\ UNCHANGED <<temp, uevents, status, binder, history, changes, faults, calls>>

\* parseUevent
Monitored(messages) == messages \cap Sensors

\* All messages are read; those of other subsystems alone start no pass, and the next
\* poll has the full timeout again
Uevent ==
  /\ pc = "poll" /\ uevents # {}
  /\ uevents' = {}
  /\ \/ Monitored(uevents) = {} /\ UNCHANGED watcher
     \/ Monitored(uevents) # {} /\ StartPass(Monitored(uevents))
  /\ UNCHANGED <<temp, status, binder, history, changes, faults, calls>>

\* mutant: a sensor no uevent names is passed over
SkipSilently ==
  /\ pc = "read" /\ sensor \in Sensors \ checking
  /\ sensor' = sensor + 1
  /\ UNCHANGED <<listening, is_polling_, thermal_triggered_, pc, checking, reading, triggered, temps, missed>>
  /\ UNCHANGED <<temp, uevents, status, binder, history, changes, faults, calls>>

\* A sensor no uevent names: only its severity of before counts
Skip ==
  /\ pc = "read" /\ sensor \in Sensors \ checking
  /\ sensor' = sensor + 1
  /\ triggered' = (triggered \/ severity[sensor] # NONE)
  /\ UNCHANGED <<listening, is_polling_, thermal_triggered_, pc, checking, reading, temps, missed>>
  /\ UNCHANGED <<temp, uevents, status, binder, history, changes, faults, calls>>

Read ==
  /\ pc = "read" /\ sensor \in checking
  /\ \/ /\ pc' = "update"
        /\ reading' = readTemperature(sensor, temp[sensor])
        /\ UNCHANGED <<sensor, missed, faults>>
     \/ /\ Fault
        /\ sensor' = sensor + 1
        /\ missed' = missed \cup {sensor}
        /\ UNCHANGED <<pc, reading>>
  /\ UNCHANGED <<listening, is_polling_, thermal_triggered_, checking, triggered, temps>>
  /\ UNCHANGED <<temp, uevents, status, binder, history, changes, calls>>

\* mutant: only a higher severity is sent
ChangedUp(s) == throttlingStatus(reading) > severity[s]

Changed(s) == throttlingStatus(reading) # severity[s]

Update ==
  /\ pc = "update"
  /\ pc' = "read" /\ sensor' = sensor + 1
  /\ reading' = NoReading
  /\ hot' = [hot EXCEPT ![sensor] = reading.hot]
  /\ cold' = [cold EXCEPT ![sensor] = reading.cold]
  /\ severity' = [severity EXCEPT ![sensor] = throttlingStatus(reading)]
  /\ temps' = IF Changed(sensor) THEN temps \cup {sensor} ELSE temps
  /\ triggered' = (triggered \/ throttlingStatus(reading) # NONE)
  /\ changed' = IF severity'[sensor] # severity[sensor]
                THEN changed \cup (callbacks_ \X {sensor}) ELSE changed
  /\ UNCHANGED <<listening, is_polling_, thermal_triggered_, checking, missed>>
  /\ UNCHANGED <<temp, uevents, binder, told, changes, faults, calls>>

FinishPass ==
  /\ pc' = "poll" /\ sensor' = 1
  /\ thermal_triggered_' = triggered
  /\ checking' = {} /\ triggered' = FALSE /\ temps' = {}
  /\ UNCHANGED <<listening, is_polling_, reading, missed>>
  /\ UNCHANGED <<temp, uevents, status, changes>>

NothingToSend ==
  /\ pc = "read" /\ sensor > NumSensors /\ temps = {}
  /\ FinishPass
  /\ UNCHANGED <<binder, history, faults, calls>>

\* What c was told is over when it leaves callbacks_
Forget(c) ==
  /\ callbacks_' = callbacks_ \ {c}
  /\ changed' = {p \in changed : p[1] # c}

(***************************************************************************)
(* sendThermalChangedCallback, under the mutex.  A callback whose          *)
(* notification fails is removed.                                          *)
(***************************************************************************)
Tell(c, sensors, value) ==
  [s \in Sensors |-> IF s \in sensors \cap Wants[c] THEN value[s] ELSE told[c][s]]

sendThermalChangedCallback ==
  /\ pc = "read" /\ sensor > NumSensors /\ temps # {}
  /\ registering = NoCallback
  /\ \/ UNCHANGED <<callbacks_, changed, faults>>
     \/ /\ Fault
        /\ \E c \in callbacks_ : Wants[c] \cap temps # {} /\ Forget(c)
  /\ told' = [c \in Callbacks |-> IF c \in callbacks_' THEN Tell(c, temps, severity)
                                  ELSE [s \in Sensors |-> Unknown]]
  /\ FinishPass
  /\ UNCHANGED <<registering, toRead, regValue, current, calls>>

-----------------------------------------------------------------------------
(***************************************************************************)
(* The binder thread.  registerThermalChangedCallback holds the mutex from *)
(* RegisterBegin on, and reads the sensors the callback asks for one after *)
(* the other; the first that cannot be read ends it, with the callback     *)
(* registered and told nothing.                                            *)
(***************************************************************************)
Call == calls < MaxCalls /\ calls' = calls + 1

RegisterBegin(c) ==
  /\ registering = NoCallback
  /\ Call
  /\ c \notin callbacks_
  /\ callbacks_' = callbacks_ \cup {c}
  /\ registering' = c /\ toRead' = Wants[c]
  /\ UNCHANGED <<temp, uevents, watcher, status, regValue, current, history, changes, faults>>

NextToRead == CHOOSE i \in toRead : \A j \in toRead : i <= j

fillCurrentTemperatures ==
  /\ registering # NoCallback /\ toRead # {} /\ regValue = NoValue
  /\ \/ /\ regValue' = temp[NextToRead]
        /\ UNCHANGED <<registering, toRead, current, faults>>
     \/ /\ Fault
        /\ registering' = NoCallback /\ toRead' = {}
        /\ current' = NothingRead
        /\ UNCHANGED regValue
  /\ UNCHANGED <<temp, uevents, watcher, status, callbacks_, history, changes, calls>>

\* The severities of before are read after the temperature, under a lock of their own
RegisterCompare ==
  /\ regValue # NoValue
  /\ current' = [current EXCEPT ![NextToRead] =
                    throttlingStatus(readTemperature(NextToRead, regValue))]
  /\ toRead' = toRead \ {NextToRead} /\ regValue' = NoValue
  /\ UNCHANGED <<temp, uevents, watcher, status, callbacks_, registering, history,
                 changes, faults, calls>>

RegisterNotify ==
  /\ registering # NoCallback /\ toRead = {}
  /\ told' = [told EXCEPT ![registering] = Tell(registering, Sensors, current)]
  /\ registering' = NoCallback /\ current' = NothingRead
  /\ UNCHANGED <<temp, uevents, watcher, status, callbacks_, toRead, regValue, changed,
                 changes, faults, calls>>

unregisterThermalChangedCallback(c) ==
  /\ registering = NoCallback
  /\ Call
  /\ c \in callbacks_
  /\ Forget(c)
  /\ told' = [told EXCEPT ![c] = [s \in Sensors |-> Unknown]]
  /\ UNCHANGED <<temp, uevents, watcher, status, registering, toRead, regValue, current,
                 changes, faults>>

-----------------------------------------------------------------------------
Watcher ==
  \/ Timeout \/ Uevent \/ Skip \/ Read \/ Update \/ NothingToSend
  \/ sendThermalChangedCallback

Registration == fillCurrentTemperatures \/ RegisterCompare \/ RegisterNotify

Next ==
  \/ ChangeTemp \/ OtherUevent
  \/ Watcher \/ Registration
  \/ \E c \in Callbacks : RegisterBegin(c) \/ unregisterThermalChangedCallback(c)

Spec == Init /\ [][Next]_vars

(***************************************************************************)
(* The watcher runs forever: pollOnce returns at its timeout at the        *)
(* latest, and the mutex it may wait for is held only while a registration *)
(* runs, which does not block.                                             *)
(***************************************************************************)
FairSpec == Spec /\ WF_vars(Watcher) /\ WF_vars(Registration)

-----------------------------------------------------------------------------
(***************************************************************************)
(* While the watcher sleeps, a sensor that is throttled keeps it polling   *)
(* every two seconds, whichever sensors the last pass looked at            *)
(* (thermalWatcherCallbackFunc, the flag of threadLoop).  Only a sensor    *)
(* the last pass failed to read is not counted.                            *)
(***************************************************************************)
PollsFast ==
  pc = "poll" /\ (\E s \in Sensors \ missed : severity[s] # NONE)
     => thermal_triggered_ \/ is_polling_

(***************************************************************************)
(* Once a recorded severity has changed while a callback was registered,   *)
(* what the callback was last told is what is recorded, whenever the       *)
(* watcher sleeps: no change is lost, and none is overwritten by the       *)
(* reading of a registration that runs at the same time                    *)
(* (sendThermalChangedCallback, registerThermalChangedCallback).           *)
(***************************************************************************)
ToldMatches ==
  pc = "poll" =>
     \A c \in callbacks_ : \A s \in Wants[c] :
        <<c, s>> \in changed => told[c][s] = severity[s]

(***************************************************************************)
(* The hysteresis of a severity ends above the threshold below it, and is  *)
(* positive.  The parser asks for neither.                                 *)
(***************************************************************************)
SeparateBands(info) ==
  /\ \A i, j \in DOMAIN info.hot : i < j => info.hot[i] <= info.hot[j] - info.hotHysteresis[j]
  /\ \A i, j \in DOMAIN info.cold :
        i < j => info.cold[i] >= info.cold[j] + info.coldHysteresis[j]
PositiveHysteresis(info) ==
  /\ \A i \in DOMAIN info.hot : info.hotHysteresis[i] > 0
  /\ \A i \in DOMAIN info.cold : info.coldHysteresis[i] > 0

(***************************************************************************)
(* A step that records a new severity of a sensor follows its thresholds   *)
(* (getSeverityFromThresholds across passes): a severity is given up only  *)
(* by a reading outside its hysteresis; it is raised only by a reading     *)
(* that reaches the new threshold, if the bands are separate; and what is  *)
(* recorded is never less than what the reading reaches, if every          *)
(* hysteresis is positive.                                                 *)
(***************************************************************************)
Follows(s) ==
  LET info == Info[s]
      v == reading.value
  IN /\ hot'[s] < hot[s] => v <= info.hot[hot[s]] - info.hotHysteresis[hot[s]]
     /\ cold'[s] < cold[s] => v >= info.cold[cold[s]] + info.coldHysteresis[cold[s]]
     /\ SeparateBands(info) =>
           /\ hot'[s] > hot[s] => v >= info.hot[hot'[s]]
           /\ cold'[s] > cold[s] => v <= info.cold[cold'[s]]
     /\ PositiveHysteresis(info) /\ <<hot[s], cold[s]>>' # <<hot[s], cold[s]>> =>
           /\ \A i \in HotReached(info, v) : i <= hot'[s]
           /\ \A i \in ColdReached(info, v) : i <= cold'[s]

SeverityFollows == [][\A s \in Sensors : Follows(s)]_vars

(***************************************************************************)
(* When temperatures stop changing, the recorded severities come to rest   *)
(* at what the temperatures ask for, also for a change no uevent           *)
(* announced, and every callback has been told of the changes since its    *)
(* registration (threadLoop).  This needs the other subsystems to fall     *)
(* silent: a uevent of theirs starts the timeout of the poll afresh, and   *)
(* while they keep coming the sensors are not looked at.                   *)
(***************************************************************************)
Settled ==
  /\ \A s \in Sensors : LET r == readTemperature(s, temp[s])
                        IN /\ hot[s] = r.hot /\ cold[s] = r.cold
                           /\ severity[s] = throttlingStatus(r)
  /\ \A c \in callbacks_ : \A s \in Wants[c] :
        <<c, s>> \in changed => told[c][s] = severity[s]
Settles == <>[][~OtherUevent]_vars => <>[]Settled
=============================================================================
