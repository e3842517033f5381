--------------------------- MODULE ThermalProofs ---------------------------
(***************************************************************************)
(* Theorems about the thermal HAL, for any number of sensors and callbacks *)
(* and any thresholds the parser accepts: the watcher keeps polling while  *)
(* a sensor is throttled, no change is lost to a callback, and severities  *)
(* follow the thresholds.                                                  *)
(***************************************************************************)
EXTENDS Thermal, WellFoundedInduction, TLAPS

\* The assumption on the sensors, in the form the proofs use.
LEMMA ConstantFacts ==
  /\ NumSensors \in Nat /\ NumSensors > 0
  /\ MaxChanges \in Nat /\ MaxFaults \in Nat /\ MaxCalls \in Nat
  /\ Temps \subseteq Int
  /\ NoValue \notin Temps
  /\ Wants \in [Callbacks -> SUBSET Sensors]
  /\ \A s \in Sensors : ValidInfo(Info[s])
BY SensorAssumption DEF SensorAssumption

\* The sensor a registration reads next is one it still has to read.
LEMMA NextIsToRead ==
  ASSUME toRead \subseteq Sensors, toRead # {}
  PROVE  NextToRead \in toRead
<1> DEFINE R == OpToRel(<, Nat)
<1>1. toRead \subseteq Nat
  BY ConstantFacts DEF Sensors
<1>2. IsWellFoundedOn(R, Nat)
  BY NatLessThanWellFounded
<1>3. \A x, y \in Nat : x < y => <<x, y>> \in R
  BY DEF OpToRel
<1> HIDE DEF R
<1>4. PICK i \in toRead : \A j \in toRead : ~ (<<j, i>> \in R)
  BY <1>1, <1>2, WFMin
<1>5. \A j \in toRead : ~ (j < i)
  BY <1>1, <1>3, <1>4, Zenon
<1>6. \A j \in toRead : i <= j
  BY <1>1, <1>5
<1> QED
  BY <1>6 DEF NextToRead

\* What the search from SHUTDOWN down to NONE finds is the highest severity of the set.
LEMMA TopIsMax ==
  ASSUME NEW S \in SUBSET Levels
  PROVE  /\ Top(S) \in S \cup {NONE}
         /\ Top(S) \in Severities
         /\ \A j \in S : j <= Top(S)
         /\ \A j \in S : NONE < Top(S)
<1>1. CASE S = {}
  BY <1>1 DEF Top, NONE, Severities, SHUTDOWN
<1>2. CASE S # {}
  <2>1. \E i \in S : \A j \in S : j <= i
    <3>1. SUFFICES ASSUME \A i \in S : \E j \in S : j > i
                   PROVE  FALSE
      BY DEF Levels, SHUTDOWN
    <3>2. 6 \notin S
      BY <3>1 DEF Levels, SHUTDOWN
    <3>3. 5 \notin S
      BY <3>1, <3>2 DEF Levels, SHUTDOWN
    <3>4. 4 \notin S
      BY <3>1, <3>2, <3>3 DEF Levels, SHUTDOWN
    <3>5. 3 \notin S
      BY <3>1, <3>2, <3>3, <3>4 DEF Levels, SHUTDOWN
    <3>6. 2 \notin S
      BY <3>1, <3>2, <3>3, <3>4, <3>5 DEF Levels, SHUTDOWN
    <3>7. PICK i \in S : TRUE
      BY <1>2
    <3>8. PICK j \in S : j > i
      BY <3>1
    <3>9. i \in 1 .. 6 /\ j \in 1 .. 6
      BY DEF Levels, SHUTDOWN
    <3> QED
      BY <3>2, <3>3, <3>4, <3>5, <3>6, <3>8, <3>9
  <2>2. Top(S) \in S /\ \A j \in S : j <= Top(S)
    BY <1>2, <2>1 DEF Top
  <2>3. Top(S) \in 1 .. 6
    BY <2>2 DEF Levels, SHUTDOWN
  <2>4. Top(S) \in Severities /\ NONE < Top(S)
    BY <2>3 DEF Severities, NONE, SHUTDOWN
  <2> QED
    BY <2>2, <2>4
<1> QED
  BY <1>1, <1>2

(***************************************************************************)
(* One side of getSeverityFromThresholds, for the thresholds reached and   *)
(* the bands a reading is in: the result is a severity that has a          *)
(* threshold; a lower one than before means the reading is out of the band *)
(* of the one before; and it is the highest reached unless that is lower   *)
(* than before.                                                            *)
(***************************************************************************)
LEMMA HysteresisFacts ==
  ASSUME NEW reached \in SUBSET Levels, NEW band \in SUBSET Levels, NEW prev \in Severities
  PROVE  LET r == WithHysteresis(reached, band, prev)
         IN /\ r \in reached \cup band \cup {NONE}
            /\ r \in Severities
            /\ r < prev => prev \notin band
            /\ Top(reached) >= prev => r = Top(reached)
            /\ Top(reached) < prev => r = Top(band)
BY TopIsMax DEF WithHysteresis, Severities, NONE, SHUTDOWN

\* Both severities of readTemperature are severities, those of thresholds of the sensor.
LEMMA ReadingFacts ==
  ASSUME NEW s \in Sensors, NEW v \in Temps, TypeOK
  PROVE  /\ readTemperature(s, v) \in [value : Temps, hot : Severities, cold : Severities]
         /\ readTemperature(s, v).hot \in DOMAIN Info[s].hot \cup {NONE}
         /\ readTemperature(s, v).cold \in DOMAIN Info[s].cold \cup {NONE}
<1> DEFINE info == Info[s]
<1>1. DOMAIN info.hot \subseteq Levels /\ DOMAIN info.cold \subseteq Levels
  BY ConstantFacts DEF ValidInfo
<1>2. hot[s] \in Severities /\ cold[s] \in Severities
  BY DEF TypeOK
<1>3. /\ HotReached(info, v) \in SUBSET Levels /\ HotReached(info, v) \subseteq DOMAIN info.hot
      /\ HotBand(info, v) \in SUBSET Levels /\ HotBand(info, v) \subseteq DOMAIN info.hot
  BY <1>1 DEF HotReached, HotBand
<1>4. /\ ColdReached(info, v) \in SUBSET Levels /\ ColdReached(info, v) \subseteq DOMAIN info.cold
      /\ ColdBand(info, v) \in SUBSET Levels /\ ColdBand(info, v) \subseteq DOMAIN info.cold
  BY <1>1 DEF ColdReached, ColdBand
<1>5. /\ HotSeverity(info, hot[s], v) \in Severities
      /\ HotSeverity(info, hot[s], v) \in DOMAIN info.hot \cup {NONE}
  BY <1>2, <1>3, HysteresisFacts DEF HotSeverity
<1>6. /\ ColdSeverity(info, cold[s], v) \in Severities
      /\ ColdSeverity(info, cold[s], v) \in DOMAIN info.cold \cup {NONE}
  BY <1>2, <1>4, HysteresisFacts DEF ColdSeverity
<1> QED
  BY <1>5, <1>6 DEF readTemperature

-----------------------------------------------------------------------------
(***************************************************************************)
(* The inductive invariant.  A reading waiting to be recorded is what the  *)
(* severities of before make of its value, because only the watcher writes *)
(* them; a recorded severity has a threshold.                              *)
(***************************************************************************)
WatcherInv ==
  /\ pc = "poll" => temps = {}
  /\ pc = "update" =>
        /\ sensor \in Sensors
        /\ reading.value \in Temps
        /\ reading = readTemperature(sensor, reading.value)
  /\ \A s \in Sensors : /\ hot[s] \in DOMAIN Info[s].hot \cup {NONE}
                        /\ cold[s] \in DOMAIN Info[s].cold \cup {NONE}

\* The pass so far has noted every throttled sensor it went by
TriggerInv ==
  /\ pc # "poll" =>
        \A s \in Sensors \ missed : s < sensor /\ severity[s] # NONE => triggered
  /\ PollsFast

\* A severity a callback does not know is to be sent, and is sent only after the
\* registration that runs
ToldInv ==
  /\ \A p \in changed : p[1] \in callbacks_
  /\ \A c \in callbacks_ : \A s \in Wants[c] :
        <<c, s>> \in changed => told[c][s] = severity[s] \/ s \in temps
  /\ registering # NoCallback =>
        \A s \in Sensors : <<registering, s>> \in changed => s \in temps

IInv == TypeOK /\ WatcherInv /\ TriggerInv /\ ToldInv

\* The HAL starts with nothing recorded, nobody registered and the watcher asleep.
LEMMA InitIInv == Init => IInv
<1> SUFFICES ASSUME Init PROVE IInv
  OBVIOUS
<1>1. TypeOK
  <2>1. listening \in BOOLEAN /\ is_polling_ \in BOOLEAN /\ thermal_triggered_ \in BOOLEAN
    BY DEF Init, registerFilesToWatch
  <2>2. NONE \in Severities
    BY DEF Severities, NONE, SHUTDOWN
  <2>3. /\ hot \in [Sensors -> Severities] /\ cold \in [Sensors -> Severities]
        /\ severity \in [Sensors -> Severities] /\ current \in [Sensors -> Severities]
    BY <2>2 DEF Init, NothingRead
  <2>4. told \in [Callbacks -> [Sensors -> Severities \cup {Unknown}]]
    BY DEF Init
  <2>5. sensor \in 1 .. NumSensors + 1
    BY ConstantFacts DEF Init
  <2>7. triggered \in BOOLEAN
    BY DEF Init
  <2>6. changes \in 0 .. MaxChanges /\ faults \in 0 .. MaxFaults /\ calls \in 0 .. MaxCalls
    BY ConstantFacts DEF Init
  <2> QED
    BY <2>1, <2>3, <2>4, <2>5, <2>6, <2>7 DEF Init, TypeOK
<1>2. WatcherInv
  BY DEF Init, WatcherInv
<1>3. TriggerInv
  BY DEF Init, TriggerInv, PollsFast
<1>4. ToldInv
  BY DEF Init, ToldInv
<1> QED
  BY <1>1, <1>2, <1>3, <1>4 DEF IInv

-----------------------------------------------------------------------------
\* A step of the kernel touches nothing the watcher or the HAL holds.
LEMMA KernelStep == IInv /\ (ChangeTemp \/ OtherUevent) => IInv'
<1> SUFFICES ASSUME IInv, ChangeTemp \/ OtherUevent PROVE IInv'
  OBVIOUS
<1> USE DEF IInv, watcher, status, binder, history
<1>1. CASE ChangeTemp
  <2>1. TypeOK'
    BY <1>1, ConstantFacts DEF ChangeTemp, TypeOK, Sensors
  <2>2. WatcherInv'
    BY <1>1 DEF ChangeTemp, WatcherInv, readTemperature
  <2>3. TriggerInv' /\ ToldInv'
    BY <1>1 DEF ChangeTemp, TriggerInv, PollsFast, ToldInv
  <2> QED
    BY <2>1, <2>2, <2>3
<1>2. CASE OtherUevent
  <2>1. TypeOK'
    BY <1>2, ConstantFacts DEF OtherUevent, TypeOK, Sensors
  <2>2. WatcherInv'
    BY <1>2 DEF OtherUevent, WatcherInv, readTemperature
  <2>3. TriggerInv' /\ ToldInv'
    BY <1>2 DEF OtherUevent, TriggerInv, PollsFast, ToldInv
  <2> QED
    BY <2>1, <2>2, <2>3
<1> QED
  BY <1>1, <1>2

\* The watcher wakes up, at its timeout or for a uevent.
LEMMA WakeStep == IInv /\ (Timeout \/ Uevent) => IInv'
<1> SUFFICES ASSUME IInv, Timeout \/ Uevent PROVE IInv'
  OBVIOUS
<1> USE DEF IInv, watcher, status, binder, history
<1>1. ASSUME NEW S \in SUBSET Sensors, pc = "poll", StartPass(S), uevents' \in SUBSET (0 .. NumSensors),
             UNCHANGED <<temp, status, binder, history, changes, faults, calls>>
      PROVE  IInv'
  <2>1. TypeOK'
    <3>1. sensor' \in 1 .. NumSensors + 1
      BY <1>1, ConstantFacts DEF StartPass
    <3>2. triggered' \in BOOLEAN
      BY <1>1 DEF StartPass
    <3> QED
      BY <1>1, <3>1, <3>2 DEF StartPass, TypeOK
  <2>2. WatcherInv'
    BY <1>1 DEF StartPass, WatcherInv
  <2>3. TriggerInv'
    BY <1>1 DEF StartPass, TriggerInv, PollsFast, Sensors
  <2>4. ToldInv'
    BY <1>1 DEF StartPass, WatcherInv, ToldInv
  <2> QED
    BY <2>1, <2>2, <2>3, <2>4
<1>2. CASE Timeout
  BY <1>1, <1>2 DEF Timeout, TypeOK
<1>3. CASE Uevent /\ Monitored(uevents) # {}
  BY <1>1, <1>3 DEF Uevent, Monitored
<1>4. CASE Uevent /\ Monitored(uevents) = {}
  <2>1. uevents' = {} /\ UNCHANGED <<temp, watcher, status, binder, history, changes, faults, calls>>
    BY <1>4 DEF Uevent
  <2>2. TypeOK'
    BY <2>1 DEF TypeOK
  <2>3. WatcherInv' /\ TriggerInv' /\ ToldInv'
    BY <2>1 DEF WatcherInv, TriggerInv, PollsFast, ToldInv, readTemperature
  <2> QED
    BY <2>2, <2>3
<1> QED
  BY <1>2, <1>3, <1>4

\* The watcher goes by a sensor, reads one or fails to.
LEMMA ReadStep == IInv /\ (Skip \/ Read) => IInv'
<1> SUFFICES ASSUME IInv, Skip \/ Read PROVE IInv'
  OBVIOUS
<1> USE DEF IInv, watcher, status, binder, history
<1>0. sensor \in Sensors /\ pc = "read" /\ sensor + 1 \in 1 .. NumSensors + 1
  BY ConstantFacts DEF Skip, Read, TypeOK, Sensors
<1>1. CASE Skip
  <2>1. TypeOK'
    BY <1>0, <1>1 DEF Skip, TypeOK
  <2>2. WatcherInv'
    BY <1>0, <1>1 DEF Skip, WatcherInv
  <2>3. TriggerInv'
    <3>1. (triggered => triggered') /\ (severity[sensor] # NONE => triggered')
      BY <1>1 DEF Skip
    <3>2. \A s \in Sensors : s < sensor + 1 => s < sensor \/ s = sensor
      BY <1>0 DEF Sensors
    <3> QED
      BY <1>0, <1>1, <3>1, <3>2 DEF Skip, TriggerInv, PollsFast
  <2>4. ToldInv'
    BY <1>1 DEF Skip, ToldInv
  <2> QED
    BY <2>1, <2>2, <2>3, <2>4
<1>2. CASE Read /\ pc' = "update"
  <2>0. /\ reading' = readTemperature(sensor, temp[sensor])
        /\ UNCHANGED <<sensor, missed, faults, listening, is_polling_, thermal_triggered_, checking,
                       triggered, temps, temp, uevents, status, binder, history, changes, calls>>
    BY <1>0, <1>2 DEF Read
  <2>a. temp[sensor] \in Temps
    BY <1>0 DEF TypeOK
  <2>b. reading' \in [value : Temps, hot : Severities, cold : Severities]
    BY <1>0, <2>0, <2>a, ReadingFacts
  <2>c. reading'.value = temp[sensor]
    BY <2>0 DEF readTemperature
  <2>1. TypeOK'
    BY <1>2, <2>0, <2>b DEF TypeOK
  <2>2. WatcherInv'
    <3>1. reading' = readTemperature(sensor, reading.value)'
      BY <2>0, <2>c DEF readTemperature
    <3> QED
      BY <1>0, <1>2, <2>0, <2>a, <2>c, <3>1 DEF WatcherInv
  <2>3. TriggerInv'
    BY <1>0, <1>2, <2>0 DEF TriggerInv, PollsFast
  <2>4. ToldInv'
    BY <2>0 DEF ToldInv
  <2> QED
    BY <2>1, <2>2, <2>3, <2>4
<1>3. CASE Read /\ pc' # "update"
  <2>0. /\ Fault /\ sensor' = sensor + 1 /\ missed' = missed \cup {sensor}
        /\ UNCHANGED <<pc, reading, listening, is_polling_, thermal_triggered_, checking,
                       triggered, temps, temp, uevents, status, binder, history, changes, calls>>
    BY <1>3 DEF Read
  <2>1. TypeOK'
    BY <1>0, <2>0, ConstantFacts DEF Fault, TypeOK
  <2>2. WatcherInv'
    BY <1>0, <2>0 DEF WatcherInv
  <2>3. TriggerInv'
    BY <1>0, <2>0 DEF TriggerInv, PollsFast, TypeOK, Sensors
  <2>4. ToldInv'
    BY <2>0 DEF ToldInv
  <2> QED
    BY <2>1, <2>2, <2>3, <2>4
<1> QED
  BY <1>1, <1>2, <1>3

\* The watcher records a reading.
LEMMA UpdateStep == IInv /\ Update => IInv'
<1> SUFFICES ASSUME IInv, Update PROVE IInv'
  OBVIOUS
<1> USE DEF IInv, watcher, status, binder, history
<1>0. /\ sensor \in Sensors /\ pc = "update" /\ sensor + 1 \in 1 .. NumSensors + 1
      /\ reading.value \in Temps /\ reading = readTemperature(sensor, reading.value)
  BY ConstantFacts DEF Update, WatcherInv, Sensors
<1>1. /\ reading.hot \in Severities /\ reading.cold \in Severities
      /\ reading.hot \in DOMAIN Info[sensor].hot \cup {NONE}
      /\ reading.cold \in DOMAIN Info[sensor].cold \cup {NONE}
  <2>1. reading \in [value : Temps, hot : Severities, cold : Severities]
    BY <1>0, ReadingFacts
  <2> QED
    BY <1>0, <2>1, ReadingFacts
<1> DEFINE new == throttlingStatus(reading)
<1>2. new \in Severities
  BY <1>1 DEF throttlingStatus
<1>3. /\ hot' = [hot EXCEPT ![sensor] = reading.hot]
      /\ cold' = [cold EXCEPT ![sensor] = reading.cold]
      /\ severity' = [severity EXCEPT ![sensor] = new]
      /\ pc' = "read" /\ sensor' = sensor + 1 /\ reading' = NoReading
      /\ UNCHANGED <<listening, is_polling_, thermal_triggered_, checking, missed,
                     temp, uevents, binder, told, changes, faults, calls>>
  BY DEF Update
<1>4. (triggered => triggered') /\ (new # NONE => triggered') /\ triggered' \in BOOLEAN
  BY DEF Update
<1>5. /\ temps \subseteq temps' /\ temps' \subseteq temps \cup {sensor}
      /\ new # severity[sensor] => sensor \in temps'
  BY DEF Update, Changed
<1>6. /\ changed \subseteq changed' /\ changed' \subseteq changed \cup (callbacks_ \X {sensor})
      /\ new = severity[sensor] => changed' = changed
  BY <1>0, <1>3 DEF Update, TypeOK
<1> HIDE DEF new
<1>7. TypeOK'
  BY <1>0, <1>1, <1>2, <1>3, <1>4, <1>5, <1>6 DEF TypeOK
<1>8. WatcherInv'
  BY <1>0, <1>1, <1>3 DEF WatcherInv, TypeOK
<1>9. TriggerInv'
  <2>1. \A s \in Sensors : s < sensor + 1 => s < sensor \/ s = sensor
    BY <1>0 DEF Sensors
  <2>2. \A s \in Sensors : s # sensor => severity'[s] = severity[s]
    BY <1>3 DEF TypeOK
  <2>3. severity'[sensor] = new
    BY <1>0, <1>3 DEF TypeOK
  <2> QED
    BY <1>0, <1>3, <1>4, <2>1, <2>2, <2>3 DEF TriggerInv, PollsFast
<1>10. ToldInv'
  <2>1. \A p \in changed' : p[1] \in callbacks_'
    BY <1>3, <1>6 DEF ToldInv
  <2>2. ASSUME NEW c \in callbacks_', NEW s \in Wants[c], <<c, s>> \in changed'
        PROVE  told'[c][s] = severity'[s] \/ s \in temps'
    <3>0. s \in Sensors
      BY <2>2, <1>3, ConstantFacts DEF TypeOK
    <3>1. CASE s = sensor /\ new # severity[sensor]
      BY <1>5, <3>1
    <3>2. CASE s # sensor \/ new = severity[sensor]
      <4>1. <<c, s>> \in changed
        BY <1>6, <2>2, <3>2
      <4>2. severity'[s] = severity[s]
        BY <1>0, <1>3, <3>0, <3>2 DEF TypeOK
      <4>3. told[c][s] = severity[s] \/ s \in temps
        BY <1>3, <2>2, <4>1 DEF ToldInv
      <4> QED
        BY <1>3, <1>5, <4>2, <4>3
    <3> QED
      BY <3>1, <3>2
  <2>3. ASSUME registering' # NoCallback, NEW s \in Sensors, <<registering', s>> \in changed'
        PROVE  s \in temps'
    <3>1. CASE s = sensor /\ new # severity[sensor]
      BY <1>5, <3>1
    <3>2. CASE s # sensor \/ new = severity[sensor]
      <4>1. <<registering, s>> \in changed
        BY <1>3, <1>6, <2>3, <3>2
      <4> QED
        BY <1>3, <1>5, <2>3, <4>1 DEF ToldInv
    <3> QED
      BY <3>1, <3>2
  <2> QED
    BY <2>1, <2>2, <2>3 DEF ToldInv
<1> QED
  BY <1>7, <1>8, <1>9, <1>10

\* A pass that ends, once its changes are sent, leaves the flag of the pass and nothing to send.
LEMMA FinishStep ==
  ASSUME IInv, pc = "read", sensor > NumSensors, FinishPass
  PROVE  WatcherInv' /\ TriggerInv'
<1> USE DEF IInv, status
<1>1. WatcherInv'
  BY DEF FinishPass, WatcherInv
<1>2. \A s \in Sensors : s < sensor
  BY ConstantFacts DEF TypeOK, Sensors
<1>3. TriggerInv'
  BY <1>2 DEF FinishPass, TriggerInv, PollsFast
<1> QED
  BY <1>1, <1>3

\* A pass ends, and its changes are sent first.
LEMMA SendStep == IInv /\ (NothingToSend \/ sendThermalChangedCallback) => IInv'
<1> SUFFICES ASSUME IInv, NothingToSend \/ sendThermalChangedCallback PROVE IInv'
  OBVIOUS
<1> USE DEF IInv, watcher, status, binder, history
<1>1. FinishPass /\ pc = "read" /\ sensor > NumSensors
  BY DEF NothingToSend, sendThermalChangedCallback
<1>2. WatcherInv' /\ TriggerInv'
  BY <1>1, FinishStep
<1>3. sensor' \in 1 .. NumSensors + 1
  BY <1>1, ConstantFacts DEF FinishPass
<1>4. triggered' \in BOOLEAN
  BY <1>1 DEF FinishPass
<1>5. CASE NothingToSend
  <2>1. TypeOK'
    BY <1>1, <1>3, <1>4, <1>5 DEF NothingToSend, FinishPass, TypeOK
  <2>2. ToldInv'
    BY <1>1, <1>5 DEF NothingToSend, FinishPass, ToldInv
  <2> QED
    BY <1>2, <2>1, <2>2
<1>6. CASE sendThermalChangedCallback
  <2>1. /\ callbacks_' \subseteq callbacks_ /\ changed' \subseteq changed
        /\ \A p \in changed' : p[1] \in callbacks_'
        /\ faults' \in 0 .. MaxFaults
    <3>1. CASE UNCHANGED <<callbacks_, changed, faults>>
      BY <3>1 DEF ToldInv, TypeOK
    <3>2. CASE Fault /\ \E c \in callbacks_ : Wants[c] \cap temps # {} /\ Forget(c)
      BY <3>2, ConstantFacts DEF Fault, Forget, ToldInv, TypeOK
    <3> QED
      BY <1>6, <3>1, <3>2 DEF sendThermalChangedCallback
  <2>2. /\ registering = NoCallback
        /\ UNCHANGED <<registering, toRead, regValue, current, calls>>
        /\ told' = [c \in Callbacks |-> IF c \in callbacks_' THEN Tell(c, temps, severity)
                                        ELSE [s \in Sensors |-> Unknown]]
    BY <1>6 DEF sendThermalChangedCallback
  <2>3. \A c \in Callbacks : Tell(c, temps, severity) \in [Sensors -> Severities \cup {Unknown}]
    BY DEF Tell, TypeOK
  <2>4. told' \in [Callbacks -> [Sensors -> Severities \cup {Unknown}]]
    BY <2>2, <2>3
  <2>5. TypeOK'
    BY <1>1, <1>3, <1>4, <2>1, <2>2, <2>4 DEF FinishPass, TypeOK
  <2>6. ASSUME NEW c \in callbacks_', NEW s \in Wants[c], <<c, s>> \in changed'
        PROVE  told'[c][s] = severity'[s]
    <3>1. c \in callbacks_ /\ c \in Callbacks /\ s \in Sensors /\ <<c, s>> \in changed
      BY <2>1, <2>6, ConstantFacts DEF TypeOK
    <3>2. told'[c] = Tell(c, temps, severity)
      BY <2>2, <2>6, <3>1
    <3>3. told[c][s] = severity[s] \/ s \in temps
      BY <2>6, <3>1 DEF ToldInv
    <3>4. told'[c][s] = severity[s]
      BY <2>6, <3>1, <3>2, <3>3 DEF Tell
    <3> QED
      BY <1>1, <3>4 DEF FinishPass
  <2>7. ToldInv'
    BY <2>1, <2>2, <2>6 DEF ToldInv
  <2> QED
    BY <1>2, <2>5, <2>7
<1> QED
  BY <1>5, <1>6

\* A callback registers or unregisters.
LEMMA CallStep ==
  ASSUME IInv, NEW c \in Callbacks, RegisterBegin(c) \/ unregisterThermalChangedCallback(c)
  PROVE  IInv'
<1> USE DEF IInv, watcher, status, binder, history
<1>1. /\ UNCHANGED <<watcher, status, temp, regValue, current, faults>>
      /\ registering = NoCallback /\ calls' \in 0 .. MaxCalls
  BY ConstantFacts DEF RegisterBegin, unregisterThermalChangedCallback, Call, TypeOK
<1>2. WatcherInv'
  BY <1>1 DEF WatcherInv, readTemperature
<1>3. TriggerInv'
  BY <1>1 DEF TriggerInv, PollsFast
<1>4. CASE RegisterBegin(c)
  <2>1. TypeOK'
    BY <1>1, <1>4, ConstantFacts DEF RegisterBegin, TypeOK
  <2>2. \A s \in Sensors : <<c, s>> \notin changed
    BY Zenon, <1>4 DEF RegisterBegin, ToldInv
  <2>3. ToldInv'
    BY Zenon, <1>1, <1>4, <2>2, ConstantFacts DEF RegisterBegin, ToldInv
  <2> QED
    BY <1>2, <1>3, <2>1, <2>3
<1>5. CASE unregisterThermalChangedCallback(c)
  <2>1. told' \in [Callbacks -> [Sensors -> Severities \cup {Unknown}]]
    BY <1>5 DEF unregisterThermalChangedCallback, TypeOK
  <2>2. TypeOK'
    BY <1>1, <1>5, <2>1 DEF unregisterThermalChangedCallback, Forget, TypeOK
  <2>3. ToldInv'
    BY <1>1, <1>5 DEF unregisterThermalChangedCallback, Forget, ToldInv, TypeOK
  <2> QED
    BY <1>2, <1>3, <2>2, <2>3
<1> QED
  BY <1>4, <1>5

\* A registration reads a sensor, fails to, compares, or tells its callback.
LEMMA RegistrationStep == IInv /\ Registration => IInv'
<1> SUFFICES ASSUME IInv, Registration PROVE IInv'
  OBVIOUS
<1> USE DEF IInv, watcher, status, binder, history
<1>1. /\ UNCHANGED <<watcher, status, temp, uevents, callbacks_, changed, changes, calls>>
      /\ registering' \in {registering, NoCallback}
      /\ toRead' \in {toRead, {}, toRead \ {NextToRead}}
  BY DEF Registration, fillCurrentTemperatures, RegisterCompare, RegisterNotify
<1>2. WatcherInv'
  BY <1>1 DEF WatcherInv, readTemperature
<1>3. TriggerInv'
  BY <1>1 DEF TriggerInv, PollsFast
<1>4. NothingRead \in [Sensors -> Severities]
  BY DEF NothingRead, Severities, NONE, SHUTDOWN
<1>5. CASE fillCurrentTemperatures
  <2>1. /\ regValue' \in Temps \cup {NoValue} /\ current' \in [Sensors -> Severities]
        /\ faults' \in 0 .. MaxFaults
    <3>1. NextToRead \in Sensors
      BY <1>5, NextIsToRead DEF fillCurrentTemperatures, TypeOK
    <3> QED
      BY <1>4, <1>5, <3>1, ConstantFacts DEF fillCurrentTemperatures, Fault, TypeOK
  <2>2. TypeOK'
    BY <1>1, <1>5, <2>1 DEF fillCurrentTemperatures, TypeOK
  <2>3. ToldInv'
    BY <1>1, <1>5 DEF fillCurrentTemperatures, ToldInv
  <2> QED
    BY <1>2, <1>3, <2>2, <2>3
<1>6. CASE RegisterCompare
  <2>1. current' \in [Sensors -> Severities]
    <3>1. CASE NextToRead \in Sensors
      <4>1. regValue \in Temps
        BY <1>6 DEF RegisterCompare, TypeOK
      <4>2. readTemperature(NextToRead, regValue) \in [value : Temps, hot : Severities, cold : Severities]
        BY <3>1, <4>1, ReadingFacts
      <4>3. throttlingStatus(readTemperature(NextToRead, regValue)) \in Severities
        BY <4>2 DEF throttlingStatus
      <4> QED
        BY <1>6, <4>3 DEF RegisterCompare, TypeOK
    <3>2. CASE NextToRead \notin Sensors
      BY <1>6, <3>2 DEF RegisterCompare, TypeOK
    <3> QED
      BY <3>1, <3>2
  <2>2. TypeOK'
    BY <1>1, <1>6, <2>1 DEF RegisterCompare, TypeOK
  <2>3. ToldInv'
    BY Zenon, <1>1, <1>6 DEF RegisterCompare, ToldInv
  <2> QED
    BY <1>2, <1>3, <2>2, <2>3
<1>7. CASE RegisterNotify
  <2>1. registering \in Callbacks
    BY <1>7 DEF RegisterNotify, TypeOK
  <2>2. Tell(registering, Sensors, current) \in [Sensors -> Severities \cup {Unknown}]
    BY <2>1 DEF Tell, TypeOK
  <2>3. told' \in [Callbacks -> [Sensors -> Severities \cup {Unknown}]]
    BY <1>7, <2>1, <2>2 DEF RegisterNotify, TypeOK
  <2>4. TypeOK'
    BY <1>1, <1>4, <1>7, <2>3 DEF RegisterNotify, TypeOK
  <2>5. ASSUME NEW c \in callbacks_', NEW s \in Wants[c], <<c, s>> \in changed'
        PROVE  told'[c][s] = severity'[s] \/ s \in temps'
    <3>1. c \in Callbacks /\ s \in Sensors
      BY Zenon, <1>1, <2>5, ConstantFacts DEF TypeOK
    <3>2. CASE c = registering
      BY <1>1, <1>7, <2>5, <3>1, <3>2 DEF RegisterNotify, ToldInv
    <3>3. CASE c # registering
      <4>1. told'[c] = told[c]
        BY <1>7, <3>1, <3>3 DEF RegisterNotify, TypeOK
      <4> QED
        BY <1>1, <2>5, <4>1 DEF ToldInv
    <3> QED
      BY <3>2, <3>3
  <2>6. ToldInv'
    BY <1>1, <1>7, <2>5 DEF RegisterNotify, ToldInv
  <2> QED
    BY <1>2, <1>3, <2>4, <2>6
<1> QED
  BY <1>5, <1>6, <1>7 DEF Registration

\* Every step keeps the invariant.
LEMMA StepIInv == IInv /\ [Next]_vars => IInv'
<1> SUFFICES ASSUME IInv, [Next]_vars PROVE IInv'
  OBVIOUS
<1>1. CASE UNCHANGED vars
  <2>1. TypeOK'
    BY <1>1 DEF IInv, TypeOK, vars, watcher, status, binder, history
  <2>2. WatcherInv' /\ TriggerInv' /\ ToldInv'
    BY <1>1 DEF IInv, WatcherInv, TriggerInv, PollsFast, ToldInv, readTemperature,
                vars, watcher, status, binder, history
  <2> QED
    BY <2>1, <2>2 DEF IInv
<1> QED
  BY <1>1, KernelStep, WakeStep, ReadStep, UpdateStep, SendStep, CallStep, RegistrationStep
     DEF Next, Watcher

\* The invariant holds in every state of every behaviour.
LEMMA InvariantHolds == Spec => []IInv
BY InitIInv, StepIInv, PTL DEF Spec

(***************************************************************************)
(* The state of the thermal HAL is well typed: no severity leaves the      *)
(* enumeration, whatever the thresholds.                                   *)
(***************************************************************************)
THEOREM TypeCorrect == Spec => []TypeOK
<1>1. IInv => TypeOK
  BY DEF IInv
<1> QED
  BY <1>1, InvariantHolds, PTL

(***************************************************************************)
(* Whatever uevents select the sensors of a pass, a throttled sensor that  *)
(* could be read keeps the watcher polling (thermalWatcherCallbackFunc).   *)
(***************************************************************************)
THEOREM KeepsPolling == Spec => []PollsFast
<1>1. IInv => PollsFast
  BY DEF IInv, TriggerInv
<1> QED
  BY <1>1, InvariantHolds, PTL

(***************************************************************************)
(* No change of a severity is lost to a registered callback, whatever      *)
(* registrations run meanwhile (sendThermalChangedCallback).               *)
(***************************************************************************)
THEOREM NoChangeLost == Spec => []ToldMatches
<1>1. IInv => ToldMatches
  BY DEF IInv, ToldInv, WatcherInv, ToldMatches
<1> QED
  BY <1>1, InvariantHolds, PTL

-----------------------------------------------------------------------------
\* The hot side of getSeverityFromThresholds, for one reading.
LEMMA HotFollows ==
  ASSUME NEW info, ValidInfo(info), NEW v \in Int,
         NEW prev \in Severities, prev \in DOMAIN info.hot \cup {NONE}
  PROVE  LET r == HotSeverity(info, prev, v)
         IN /\ r < prev => v <= info.hot[prev] - info.hotHysteresis[prev]
            /\ SeparateBands(info) /\ r > prev => v >= info.hot[r]
            /\ PositiveHysteresis(info) => \A i \in HotReached(info, v) : i <= r
<1> DEFINE reached == HotReached(info, v)
           band == HotBand(info, v)
           r == HotSeverity(info, prev, v)
<1>1. /\ DOMAIN info.hot \subseteq Levels
      /\ \A i \in DOMAIN info.hot : info.hot[i] \in Int /\ info.hotHysteresis[i] \in Int
  BY DEF ValidInfo
<1>2. reached \in SUBSET Levels /\ band \in SUBSET Levels
  BY <1>1 DEF HotReached, HotBand
<1>3. /\ r \in Severities
      /\ r < prev => prev \notin band
      /\ Top(reached) >= prev => r = Top(reached)
      /\ Top(reached) < prev => r = Top(band)
  <2>1. r = WithHysteresis(reached, band, prev)
    BY DEF HotSeverity
  <2> HIDE DEF reached, band, r
  <2> QED
    BY <1>2, <2>1, HysteresisFacts
<1>4. /\ Top(reached) \in reached \cup {NONE} /\ Top(reached) \in Severities
      /\ Top(band) \in band \cup {NONE} /\ Top(band) \in Severities
      /\ \A j \in reached : j <= Top(reached)
      /\ \A j \in band : j <= Top(band)
  BY <1>2, TopIsMax
<1>5. /\ \A i : i \in reached <=> i \in DOMAIN info.hot /\ info.hot[i] <= v
      /\ \A i : i \in band <=> i \in DOMAIN info.hot /\ info.hot[i] - info.hotHysteresis[i] < v
  BY DEF HotReached, HotBand
<1> HIDE DEF reached, band, r
<1>6. prev \in Int /\ r \in Int /\ r >= 0 /\ prev >= 0 /\ NONE = 0 /\ Top(reached) \in Int
  BY <1>3, <1>4 DEF Severities, SHUTDOWN, NONE
<1>7. ASSUME r < prev PROVE v <= info.hot[prev] - info.hotHysteresis[prev]
  <2>1. prev \in DOMAIN info.hot
    BY <1>6, <1>7
  <2> QED
    BY <1>1, <1>3, <1>5, <1>7, <2>1
<1>8. ASSUME SeparateBands(info), r > prev PROVE v >= info.hot[r]
  <2>1. CASE Top(reached) >= prev
    <3>1. r \in reached
      BY <1>3, <1>4, <1>6, <1>8, <2>1
    <3> QED
      BY <1>1, <1>5, <3>1
  <2>2. CASE Top(reached) < prev
    <3>1. r \in band
      BY <1>3, <1>4, <1>6, <1>8, <2>2
    <3>2. prev \in DOMAIN info.hot
      BY <1>4, <1>6, <2>2 DEF Severities, SHUTDOWN
    <3>3. info.hot[prev] <= info.hot[r] - info.hotHysteresis[r]
      BY <1>5, <1>8, <3>1, <3>2 DEF SeparateBands
    <3>4. prev \in reached
      BY <1>1, <1>5, <3>1, <3>2, <3>3
    <3> QED
      BY <1>4, <1>6, <2>2, <3>4
  <2> QED
    BY <1>6, <2>1, <2>2
<1>9. ASSUME PositiveHysteresis(info), NEW i \in reached PROVE i <= r
  <2>1. i \in band
    BY <1>1, <1>5, <1>9 DEF PositiveHysteresis
  <2> QED
    BY <1>3, <1>4, <1>6, <1>9, <2>1
<1> QED
  BY <1>7, <1>8, <1>9 DEF reached, r

\* The cold side, where thresholds fall as severities rise.
LEMMA ColdFollows ==
  ASSUME NEW info, ValidInfo(info), NEW v \in Int,
         NEW prev \in Severities, prev \in DOMAIN info.cold \cup {NONE}
  PROVE  LET r == ColdSeverity(info, prev, v)
         IN /\ r < prev => v >= info.cold[prev] + info.coldHysteresis[prev]
            /\ SeparateBands(info) /\ r > prev => v <= info.cold[r]
            /\ PositiveHysteresis(info) => \A i \in ColdReached(info, v) : i <= r
<1> DEFINE reached == ColdReached(info, v)
           band == ColdBand(info, v)
           r == ColdSeverity(info, prev, v)
<1>1. /\ DOMAIN info.cold \subseteq Levels
      /\ \A i \in DOMAIN info.cold : info.cold[i] \in Int /\ info.coldHysteresis[i] \in Int
  BY DEF ValidInfo
<1>2. reached \in SUBSET Levels /\ band \in SUBSET Levels
  BY <1>1 DEF ColdReached, ColdBand
<1>3. /\ r \in Severities
      /\ r < prev => prev \notin band
      /\ Top(reached) >= prev => r = Top(reached)
      /\ Top(reached) < prev => r = Top(band)
  <2>1. r = WithHysteresis(reached, band, prev)
    BY DEF ColdSeverity
  <2> HIDE DEF reached, band, r
  <2> QED
    BY <1>2, <2>1, HysteresisFacts
<1>4. /\ Top(reached) \in reached \cup {NONE} /\ Top(reached) \in Severities
      /\ Top(band) \in band \cup {NONE} /\ Top(band) \in Severities
      /\ \A j \in reached : j <= Top(reached)
      /\ \A j \in band : j <= Top(band)
  BY <1>2, TopIsMax
<1>5. /\ \A i : i \in reached <=> i \in DOMAIN info.cold /\ info.cold[i] >= v
      /\ \A i : i \in band <=> i \in DOMAIN info.cold /\ info.cold[i] + info.coldHysteresis[i] > v
  BY DEF ColdReached, ColdBand
<1> HIDE DEF reached, band, r
<1>6. prev \in Int /\ r \in Int /\ r >= 0 /\ prev >= 0 /\ NONE = 0 /\ Top(reached) \in Int
  BY <1>3, <1>4 DEF Severities, SHUTDOWN, NONE
<1>7. ASSUME r < prev PROVE v >= info.cold[prev] + info.coldHysteresis[prev]
  <2>1. prev \in DOMAIN info.cold
    BY <1>6, <1>7
  <2> QED
    BY <1>1, <1>3, <1>5, <1>7, <2>1
<1>8. ASSUME SeparateBands(info), r > prev PROVE v <= info.cold[r]
  <2>1. CASE Top(reached) >= prev
    <3>1. r \in reached
      BY <1>3, <1>4, <1>6, <1>8, <2>1
    <3> QED
      BY <1>1, <1>5, <3>1
  <2>2. CASE Top(reached) < prev
    <3>1. r \in band
      BY <1>3, <1>4, <1>6, <1>8, <2>2
    <3>2. prev \in DOMAIN info.cold
      BY <1>4, <1>6, <2>2 DEF Severities, SHUTDOWN
    <3>3. info.cold[prev] >= info.cold[r] + info.coldHysteresis[r]
      BY <1>5, <1>8, <3>1, <3>2 DEF SeparateBands
    <3>4. prev \in reached
      BY <1>1, <1>5, <3>1, <3>2, <3>3
    <3> QED
      BY <1>4, <1>6, <2>2, <3>4
  <2> QED
    BY <1>6, <2>1, <2>2
<1>9. ASSUME PositiveHysteresis(info), NEW i \in reached PROVE i <= r
  <2>1. i \in band
    BY <1>1, <1>5, <1>9 DEF PositiveHysteresis
  <2> QED
    BY <1>3, <1>4, <1>6, <1>9, <2>1
<1> QED
  BY <1>7, <1>8, <1>9 DEF reached, r

\* A step that leaves the severities of a sensor alone follows its thresholds.
LEMMA SameFollows ==
  ASSUME TypeOK, NEW s \in Sensors, hot'[s] = hot[s], cold'[s] = cold[s]
  PROVE  Follows(s)
BY DEF TypeOK, Follows, Severities, NONE, SHUTDOWN

(***************************************************************************)
(* Across passes, for any thresholds the parser accepts, severities are    *)
(* given up only outside their band, raised only by a crossing (separate   *)
(* bands), and never less than what a reading reaches (positive            *)
(* hysteresis): getSeverityFromThresholds with the severities that         *)
(* thermalWatcherCallbackFunc remembers.                                   *)
(***************************************************************************)
THEOREM ThresholdsFollowed == Spec => SeverityFollows
<1>1. ASSUME IInv, [Next]_vars, NEW s \in Sensors PROVE Follows(s)
  <2> USE <1>1 DEF IInv
  <2>1. CASE ~ Update
    <3>1. UNCHANGED <<hot, cold>>
      BY Zenon, <2>1 DEF Next, Watcher, Registration, ChangeTemp, OtherUevent, Timeout, Uevent, Skip, Read,
         NothingToSend, sendThermalChangedCallback, FinishPass, fillCurrentTemperatures,
         RegisterCompare, RegisterNotify, RegisterBegin, unregisterThermalChangedCallback,
         status, vars
    <3> QED
      BY Zenon, <3>1, SameFollows
  <2>2. CASE Update /\ s # sensor
    BY <2>2, SameFollows DEF Update, TypeOK
  <2>3. CASE Update /\ s = sensor
    <3> DEFINE v == reading.value
    <3>1. v \in Temps /\ reading = readTemperature(s, v)
      BY Zenon, <2>3 DEF Update, WatcherInv
    <3>2. v \in Int /\ ValidInfo(Info[s])
      BY Zenon, <3>1, ConstantFacts
    <3>3. hot'[s] = HotSeverity(Info[s], hot[s], v) /\ cold'[s] = ColdSeverity(Info[s], cold[s], v)
      BY <2>3, <3>1 DEF Update, TypeOK, readTemperature
    <3>4. /\ hot[s] \in Severities /\ hot[s] \in DOMAIN Info[s].hot \cup {NONE}
          /\ cold[s] \in Severities /\ cold[s] \in DOMAIN Info[s].cold \cup {NONE}
      BY DEF TypeOK, WatcherInv
    <3> HIDE DEF v
    <3>5. /\ hot'[s] < hot[s] => v <= Info[s].hot[hot[s]] - Info[s].hotHysteresis[hot[s]]
          /\ SeparateBands(Info[s]) /\ hot'[s] > hot[s] => v >= Info[s].hot[hot'[s]]
          /\ PositiveHysteresis(Info[s]) => \A i \in HotReached(Info[s], v) : i <= hot'[s]
      BY Zenon, <3>2, <3>3, <3>4, HotFollows
    <3>6. /\ cold'[s] < cold[s] => v >= Info[s].cold[cold[s]] + Info[s].coldHysteresis[cold[s]]
          /\ SeparateBands(Info[s]) /\ cold'[s] > cold[s] => v <= Info[s].cold[cold'[s]]
          /\ PositiveHysteresis(Info[s]) => \A i \in ColdReached(Info[s], v) : i <= cold'[s]
      BY Zenon, <3>2, <3>3, <3>4, ColdFollows
    <3> QED
      BY <3>5, <3>6, Zenon DEF Follows, v
  <2> QED
    BY <2>1, <2>2, <2>3
<1>2. IInv /\ [Next]_vars => [\A s \in Sensors : Follows(s)]_vars
  BY <1>1
<1> QED
  BY <1>2, InvariantHolds, PTL DEF Spec, SeverityFollows
=============================================================================
