-------------------------- MODULE ArmingStateProofs ---------------------------
(***************************************************************************)
(* Safety of the arming state for any number of consoles.                  *)
(***************************************************************************)
EXTENDS ArmingState, TLAPS

Reachable == {"INIT", "STANDBY", "ARMED"}

\* A console between the halves of its transition has left its mark.
CallsAreMarked == "console" \notin used => call = [c \in Consoles |-> NoCall]

\* The main loop switches to HIL once, and nobody but a console arms the vehicle
\* while it blocks the devices.
SwitchesDisarmed ==
    switching # "no" => hil_state = "OFF" /\ ("console" \notin used => arming_state # "ARMED")

\* Without a calibration, and without arming again in the air, a vehicle that has
\* left INIT has its sensors, so that nothing keeps it from being disarmed.
SensorsStay ==
    used \subseteq {"console"} =>
        /\ low \in {"idle", "reboot"}
        /\ hil_state = "OFF" /\ arming_state # "INIT" => sensors_initialized

\* What is known of the status, its flags and the checks, and of the rest.
Status(state, ready, arm, lock, initialized) ==
    /\ state \in Reachable
    /\ ready \in BOOLEAN /\ arm \in BOOLEAN /\ lock \in BOOLEAN /\ initialized \in BOOLEAN
    /\ arm <=> state = "ARMED"
    /\ ready <=> state \in {"ARMED", "STANDBY"}

StatusOK == Status(arming_state, ready_to_arm, armed, lockdown, sensors_initialized)

ChecksOK == last_prearm_ret \in BOOLEAN /\ recently_checked \in BOOLEAN

RestOK ==
    /\ hil_state \in {"OFF", "ON"}
    /\ calibration_enabled \in BOOLEAN /\ safety_on \in BOOLEAN
    /\ switching \in {"no", "ARMED", "STANDBY"}
    /\ low \in LowStates
    /\ call \in [Consoles -> Call \cup {NoCall}]
    /\ problems \in SUBSET Problems /\ used \in SUBSET Means

\* The inductive invariant.
IInv ==
    /\ StatusOK /\ ChecksOK /\ RestOK
    /\ CallsAreMarked /\ SwitchesDisarmed /\ SensorsStay
    /\ SafetySwitchDisarms

LEMMA Typing == StatusOK /\ ChecksOK /\ RestOK => TypeOK
  BY DEF StatusOK, Status, ChecksOK, RestOK, TypeOK, States, Reachable

-------------------------------------------------------------------------------
\* What a transition out of HIL does to a vehicle in one of its own states: it
\* is armed with the safety switch off only, disarmed if the sensors are there,
\* and leaves INIT with its sensors.
OutOfHil(new, safety, initialized) ==
    /\ arming_state' \in {arming_state, new}
    /\ arming_state' = "ARMED" => arming_state = "ARMED" \/ ~safety
    /\ new = "STANDBY" /\ initialized => arming_state' = "STANDBY"
    /\ arming_state = "INIT" /\ arming_state' # "INIT" => initialized

LEMMA UpdateEffect ==
    ASSUME StatusOK,
           NEW new \in Reachable, NEW from \in Reachable \cup {"IN_AIR_RESTORE"},
           from = arming_state \/ (from = "IN_AIR_RESTORE" /\ new = "ARMED"),
           NEW hil \in {"OFF", "ON"}, NEW failed \in BOOLEAN,
           NEW initialized \in BOOLEAN, NEW safety \in BOOLEAN,
           Update(new, from, hil, failed, initialized, safety)
    PROVE  /\ StatusOK'
           /\ lockdown' <=> hil = "ON"
           /\ sensors_initialized' <=> initialized \/ hil = "ON"
           /\ from = arming_state => arming_state' \in {arming_state, new}
           /\ from = arming_state /\ hil = "OFF" => OutOfHil(new, safety, initialized)
<1>1. Recovered(from, hil) = from /\ Target(new, from) = new
  BY DEF Recovered, Target, Reachable
<1>2. PICK power \in BOOLEAN :
        IF Valid(new, from, hil, failed, initialized, safety)
             /\ (new = "ARMED" /\ from # "IN_AIR_RESTORE" /\ hil = "OFF" => power)
          THEN /\ arming_state' = new
               /\ armed' = (new \in {"ARMED", "ARMED_ERROR"})
               /\ ready_to_arm' = (new \in {"ARMED", "STANDBY"})
          ELSE arming_state' = from /\ UNCHANGED <<armed, ready_to_arm>>
  BY <1>1 DEF Update
<1>3. lockdown' = (hil = "ON") /\ sensors_initialized' = (initialized \/ hil = "ON")
  BY DEF Update
<1>4. from = "IN_AIR_RESTORE" => Valid(new, from, hil, failed, initialized, safety)
  BY DEF Valid, ArmingTransitions, Target, StatusOK, Status, Reachable
<1>5. StatusOK'
  <2>1. CASE arming_state' = new /\ armed' = (new \in {"ARMED", "ARMED_ERROR"})
             /\ ready_to_arm' = (new \in {"ARMED", "STANDBY"})
    <3>1. new = "INIT" \/ new = "STANDBY" \/ new = "ARMED"
      BY DEF Reachable
    <3>2. arming_state' = new
      BY <2>1
    <3>3. armed' \in BOOLEAN /\ ready_to_arm' \in BOOLEAN
      BY <2>1
    <3>5. (armed' <=> new \in {"ARMED", "ARMED_ERROR"}) /\ (ready_to_arm' <=> new \in {"ARMED", "STANDBY"})
      BY <2>1
    <3>4. lockdown' \in BOOLEAN /\ sensors_initialized' \in BOOLEAN
      BY <1>3
    <3> QED
      BY <3>1, <3>2, <3>3, <3>4, <3>5 DEF StatusOK, Status, Reachable
  <2>2. CASE arming_state' = from /\ UNCHANGED <<armed, ready_to_arm>> /\ from = arming_state
    BY <1>3, <2>2 DEF StatusOK, Status
  <2> QED
    BY <1>2, <1>4, <2>1, <2>2
<1>6. Valid(new, from, "OFF", failed, initialized, safety) =>
          /\ new = "ARMED" => from # "INIT" /\ (from # "IN_AIR_RESTORE" => ~safety)
          /\ new = "STANDBY" => initialized
  BY <1>1 DEF Valid, ArmingTransitions, Reachable
<1>7. initialized => Valid("STANDBY", from, "OFF", failed, initialized, safety) \/ from = "IN_AIR_RESTORE"
  BY DEF Valid, ArmingTransitions, Reachable, Target
<1>8. from = arming_state => arming_state' \in {arming_state, new}
  BY <1>2
<1>9. from = arming_state /\ hil = "OFF" => OutOfHil(new, safety, initialized)
  BY <1>2, <1>6, <1>7, <1>8 DEF OutOfHil, Reachable, StatusOK, Status
<1> QED
  BY <1>3, <1>5, <1>8, <1>9

LEMMA ChecksAreBoolean ==
    ASSUME sensors_initialized \in BOOLEAN, ChecksOK, NEW new, NEW hil
    PROVE  /\ CheckFails(new, hil, TRUE) \in BOOLEAN
           /\ ChecksAfter(new, hil).initialized \in BOOLEAN
           /\ ChecksAfter(new, hil).last \in BOOLEAN
           /\ ChecksAfter(new, hil).recent \in BOOLEAN
           /\ sensors_initialized => ChecksAfter(new, hil).initialized
<1>1. PreflightFails(FALSE) \in BOOLEAN /\ PreflightFails(TRUE) \in BOOLEAN
  BY DEF PreflightFails
<1>2. Recheck(new, hil) \in BOOLEAN /\ (sensors_initialized => ~Recheck(new, hil))
  BY DEF Recheck
<1>3. CheckFails(new, hil, TRUE) \in BOOLEAN
  BY <1>1, <1>2 DEF CheckFails, ChecksOK
<1>4. \E i, l, r \in BOOLEAN :
         /\ ChecksAfter(new, hil) = [initialized |-> i, last |-> l, recent |-> r]
         /\ sensors_initialized => i
  <2>1. CASE Recheck(new, hil) /\ ~recently_checked
    <3> DEFINE fails == PreflightFails(FALSE)
               works == ~PreflightFails(FALSE)
    <3>1. ChecksAfter(new, hil) = [initialized |-> works, last |-> fails, recent |-> TRUE]
      BY <2>1 DEF ChecksAfter
    <3>2. works \in BOOLEAN /\ fails \in BOOLEAN /\ TRUE \in BOOLEAN
      BY <1>1
    <3> HIDE DEF fails, works
    <3> QED
      BY <1>2, <2>1, <3>1, <3>2
  <2>2. CASE ~(Recheck(new, hil) /\ ~recently_checked)
    <3>1. ChecksAfter(new, hil) = [initialized |-> sensors_initialized,
                                   last |-> last_prearm_ret, recent |-> recently_checked]
      BY <2>2 DEF ChecksAfter
    <3> QED
      BY <3>1 DEF ChecksOK
  <2> QED
    BY <2>1, <2>2
<1>5. PICK i \in BOOLEAN, l \in BOOLEAN, r \in BOOLEAN :
         /\ ChecksAfter(new, hil) = [initialized |-> i, last |-> l, recent |-> r]
         /\ sensors_initialized => i
  BY <1>4
<1> DEFINE after == ChecksAfter(new, hil)
<1> HIDE DEF after
<1>6. after = [initialized |-> i, last |-> l, recent |-> r]
  BY <1>5 DEF after
<1>7. after.initialized = i /\ after.last = l /\ after.recent = r
  BY <1>6
<1>8. /\ after.initialized \in BOOLEAN /\ after.last \in BOOLEAN /\ after.recent \in BOOLEAN
      /\ sensors_initialized => after.initialized
  BY <1>5, <1>7
<1> QED
  BY <1>3, <1>8 DEF after

\* The same of a whole transition, whether or not there is anything to do.
Done(new, from, hil, safety) ==
    /\ StatusOK' /\ ChecksOK'
    /\ new # from => (lockdown' <=> hil = "ON")
    /\ new = from => arming_state' = from /\ UNCHANGED <<lockdown, sensors_initialized>>
    /\ from = arming_state => arming_state' \in {arming_state, new}
    /\ sensors_initialized => sensors_initialized'
    /\ from = arming_state /\ hil = "OFF" => OutOfHil(new, safety, sensors_initialized')

LEMMA TransitionEffect ==
    ASSUME StatusOK, ChecksOK,
           NEW new \in Reachable, NEW from \in Reachable \cup {"IN_AIR_RESTORE"},
           from = arming_state \/ (from = "IN_AIR_RESTORE" /\ new = "ARMED"),
           NEW hil \in {"OFF", "ON"}, NEW safety \in BOOLEAN,
           Transition(new, from, hil, safety)
    PROVE  Done(new, from, hil, safety)
<1>1. CASE new = from
  <2>1. UNCHANGED <<arming_state, armed, lockdown, ready_to_arm, checks>>
    <3>1. new # "IN_AIR_RESTORE"
      BY DEF Reachable
    <3> QED
      BY <1>1, <3>1 DEF Transition
  <2>2. StatusOK' /\ ChecksOK'
    BY <2>1 DEF StatusOK, ChecksOK, checks
  <2>3. new = "ARMED" => arming_state' = "ARMED"
    BY <1>1, <2>1 DEF Reachable
  <2> QED
    BY <1>1, <2>1, <2>2, <2>3 DEF Done, OutOfHil, checks, Reachable
<1>2. CASE new # from
  <2> DEFINE after == ChecksAfter(new, hil)
  <2>1. /\ Update(new, from, hil, CheckFails(new, hil, TRUE), after.initialized, safety)
        /\ last_prearm_ret' = after.last
        /\ recently_checked' = after.recent
    BY <1>2 DEF Transition
  <2>2. /\ CheckFails(new, hil, TRUE) \in BOOLEAN /\ after.initialized \in BOOLEAN
        /\ after.last \in BOOLEAN /\ after.recent \in BOOLEAN
        /\ sensors_initialized => after.initialized
    BY ChecksAreBoolean DEF StatusOK, Status
  <2>3. /\ StatusOK'
        /\ lockdown' <=> hil = "ON"
        /\ sensors_initialized' <=> after.initialized \/ hil = "ON"
        /\ from = arming_state => arming_state' \in {arming_state, new}
        /\ from = arming_state /\ hil = "OFF" => OutOfHil(new, safety, after.initialized)
    <3> HIDE DEF after
    <3> QED
      BY <2>1, <2>2, UpdateEffect
  <2>4. ChecksOK'
    BY <2>1, <2>2 DEF ChecksOK
  <2>5. hil = "OFF" => (sensors_initialized' <=> after.initialized)
    BY <2>3
  <2>6. from = arming_state /\ hil = "OFF" => OutOfHil(new, safety, sensors_initialized')
    <3> HIDE DEF after
    <3> QED
      BY <2>3, <2>5 DEF OutOfHil
  <2> QED
    BY <1>2, <2>2, <2>3, <2>4, <2>6 DEF Done
<1> QED
  BY <1>1, <1>2

LEMMA InitIInv == Init => IInv
<1> SUFFICES ASSUME Init PROVE IInv
  OBVIOUS
<1>1. StatusOK /\ ChecksOK
  BY DEF Init, StatusOK, Status, ChecksOK, Reachable
<1>2. RestOK
  BY DEF Init, RestOK, LowStates
<1> QED
  BY <1>1, <1>2 DEF Init, IInv, CallsAreMarked, SwitchesDisarmed, SensorsStay,
                    SafetySwitchDisarms

\* A step of the main loop that makes one transition.
LEMMA MainKeeps ==
    ASSUME IInv, Main, NEW new \in {"ARMED", "STANDBY"}, safety_on' \in BOOLEAN,
           Transition(new, arming_state, hil_state, safety_on'),
           safety_on' = safety_on \/ (hil_state = "OFF" /\ new = "STANDBY"),
           UNCHANGED <<hil_state, switching, used>>
    PROVE  IInv'
<1>1. /\ StatusOK' /\ ChecksOK'
      /\ new # arming_state => (lockdown' <=> hil_state = "ON")
      /\ new = arming_state => arming_state' = arming_state /\ lockdown' = lockdown
      /\ sensors_initialized => sensors_initialized'
      /\ hil_state = "OFF" => OutOfHil(new, safety_on', sensors_initialized')
  <2>1. /\ StatusOK /\ ChecksOK /\ new \in Reachable /\ hil_state \in {"OFF", "ON"}
        /\ arming_state \in Reachable \cup {"IN_AIR_RESTORE"}
    BY DEF IInv, RestOK, Reachable, StatusOK, Status
  <2>2. Done(new, arming_state, hil_state, safety_on')
    BY <2>1, TransitionEffect
  <2> QED
    BY <2>2 DEF Done
<1>2. RestOK' /\ CallsAreMarked' /\ SwitchesDisarmed'
  BY DEF IInv, RestOK, Main, CallsAreMarked, SwitchesDisarmed
<1>3. SensorsStay'
  BY <1>1 DEF IInv, SensorsStay, Main, OutOfHil
<1>4. SafetySwitchDisarms'
  <2> SUFFICES ASSUME hil_state = "OFF", safety_on', used \subseteq {"console"}, armed'
               PROVE  FALSE
    BY DEF SafetySwitchDisarms
  <2>1. arming_state' = "ARMED"
    BY <1>1 DEF StatusOK, Status
  <2>2. arming_state = "ARMED"
    BY <1>1, <2>1 DEF OutOfHil
  <2>3. armed /\ sensors_initialized
    BY <2>2 DEF IInv, StatusOK, Status, SensorsStay
  <2>4. CASE safety_on' = safety_on
    BY <2>3, <2>4 DEF IInv, SafetySwitchDisarms
  <2>5. CASE new = "STANDBY"
    BY <1>1, <2>1, <2>3, <2>5 DEF OutOfHil
  <2> QED
    BY <2>4, <2>5
<1> QED
  BY <1>1, <1>2, <1>3, <1>4 DEF IInv

\* A step that leaves the status alone, but for the lock of the motors.
LEMMA StatusKeeps ==
    ASSUME IInv, RestOK', ChecksOK', sensors_initialized' \in BOOLEAN,
           UNCHANGED <<arming_state, armed, ready_to_arm, hil_state, safety_on>>,
           lockdown' \in BOOLEAN, used \subseteq used',
           used' \subseteq {"console"} =>
               (sensors_initialized => sensors_initialized') /\ low' \in {"idle", "reboot"},
           CallsAreMarked', SwitchesDisarmed'
    PROVE  IInv'
<1>1. StatusOK'
  BY DEF IInv, StatusOK, Status
<1>2. SensorsStay' /\ SafetySwitchDisarms'
  BY DEF IInv, SensorsStay, SafetySwitchDisarms
<1> QED
  BY <1>1, <1>2 DEF IInv

LEMMA SensorsKeep ==
    ASSUME IInv, RestOK', ChecksOK', sensors_initialized' \in BOOLEAN,
           UNCHANGED <<status, hil_state, safety_on>>, used \subseteq used',
           used' \subseteq {"console"} =>
               (sensors_initialized => sensors_initialized') /\ low' \in {"idle", "reboot"},
           CallsAreMarked', SwitchesDisarmed'
    PROVE  IInv'
<1>1. lockdown' \in BOOLEAN /\ UNCHANGED <<arming_state, armed, ready_to_arm>>
  BY DEF IInv, StatusOK, Status, status
<1> QED
  BY <1>1, StatusKeeps

LEMMA MainSteps ==
    ASSUME IInv, ProceedToStandby \/ StickDisarm \/ StickArm \/ AutoDisarm \/ MissionStart
                 \/ ArmDisarmCommand
    PROVE  IInv'
<1>1. arming_state \in Reachable /\ safety_on \in BOOLEAN
  BY DEF IInv, StatusOK, Status, RestOK
<1>2. \A arm \in BOOLEAN : Requested(arm) \in {"ARMED", "STANDBY"}
  BY DEF Requested
<1>3. /\ Main /\ safety_on' = safety_on /\ UNCHANGED <<hil_state, switching, used>>
      /\ \E new \in {"ARMED", "STANDBY"} : Transition(new, arming_state, hil_state, safety_on)
  <2>1. CASE ProceedToStandby
    BY <2>1 DEF ProceedToStandby, MainTransition
  <2>2. CASE StickDisarm
    BY <1>1, <2>2 DEF StickDisarm, MainTransition, Disarmed, Reachable
  <2>3. CASE StickArm
    BY <2>3 DEF StickArm, MainTransition
  <2>4. CASE AutoDisarm
    BY <1>2, <2>4 DEF AutoDisarm, MainTransition
  <2>5. CASE MissionStart
    BY <1>2, <2>5 DEF MissionStart, MainTransition
  <2>6. CASE ArmDisarmCommand
    BY <1>2, <2>6 DEF ArmDisarmCommand, MainTransition
  <2> QED
    BY <2>1, <2>2, <2>3, <2>4, <2>5, <2>6
<1> QED
  BY <1>1, <1>3, MainKeeps

LEMMA LockSteps == ASSUME IInv, KillSwitch \/ FlightTermination PROVE IInv'
<1>1. /\ Main /\ lockdown' \in BOOLEAN
      /\ UNCHANGED <<arming_state, armed, ready_to_arm, checks, hil_state, safety_on,
                     switching, used>>
  BY DEF KillSwitch, FlightTermination
<1>2. ChecksOK' /\ RestOK' /\ CallsAreMarked' /\ SwitchesDisarmed' /\ sensors_initialized' \in BOOLEAN
  BY <1>1 DEF IInv, ChecksOK, RestOK, CallsAreMarked, SwitchesDisarmed, StatusOK, Status,
              checks, Main
<1>3. used' \subseteq {"console"} =>
          (sensors_initialized => sensors_initialized') /\ low' \in {"idle", "reboot"}
  BY <1>1 DEF IInv, SensorsStay, checks, Main
<1> QED
  BY <1>1, <1>2, <1>3, StatusKeeps

LEMMA SafetySteps == ASSUME IInv, SafetyUpdate PROVE IInv'
<1>1. Main /\ safety_on' \in BOOLEAN /\ UNCHANGED <<hil_state, switching, used>>
  BY DEF SafetyUpdate
<1>2. CASE hil_state = "OFF" /\ safety_on' /\ armed
  <2>1. Disarmed = "STANDBY"
    BY <1>2 DEF IInv, StatusOK, Status, Disarmed
  <2>2. Transition("STANDBY", arming_state, hil_state, safety_on')
    BY <1>2, <2>1 DEF SafetyUpdate
  <2> QED
    BY <1>1, <1>2, <2>2, MainKeeps
<1>3. CASE ~(hil_state = "OFF" /\ safety_on' /\ armed)
  <2>1. UNCHANGED <<status, checks>>
    BY <1>3 DEF SafetyUpdate
  <2>2. StatusOK' /\ ChecksOK' /\ RestOK'
    BY <1>1, <2>1 DEF IInv, StatusOK, Status, ChecksOK, RestOK, status, checks, Main
  <2>3. CallsAreMarked' /\ SwitchesDisarmed' /\ SensorsStay'
    BY <1>1, <2>1 DEF IInv, CallsAreMarked, SwitchesDisarmed, SensorsStay,
                      status, checks, Main
  <2>4. SafetySwitchDisarms'
    BY <1>1, <1>3, <2>1 DEF SafetySwitchDisarms, status
  <2> QED
    BY <2>2, <2>3, <2>4 DEF IInv
<1> QED
  BY <1>2, <1>3

LEMMA RestoreSteps == ASSUME IInv, InAirRestore PROVE IInv'
<1>1. Done("ARMED", "IN_AIR_RESTORE", hil_state, safety_on)
  <2>1. /\ StatusOK /\ ChecksOK /\ "ARMED" \in Reachable /\ hil_state \in {"OFF", "ON"}
        /\ safety_on \in BOOLEAN
    BY DEF IInv, RestOK, Reachable
  <2> QED
    BY <2>1, TransitionEffect DEF InAirRestore
<1>2. RestOK' /\ CallsAreMarked' /\ SwitchesDisarmed'
  BY DEF IInv, RestOK, Means, CallsAreMarked, SwitchesDisarmed, InAirRestore, Main
<1>3. "restore" \in used'
  BY DEF InAirRestore
<1>4. SensorsStay' /\ SafetySwitchDisarms'
  BY <1>3 DEF SensorsStay, SafetySwitchDisarms
<1> QED
  BY <1>1, <1>2, <1>4 DEF Done, IInv

LEMMA SetModeSteps == ASSUME IInv, SetMode PROVE IInv'
<1>1. Main /\ UNCHANGED <<hil_state, safety_on, used>>
  BY DEF SetMode
<1>2. PICK arm \in BOOLEAN :
         \/ /\ hil_state = "OFF" /\ arming_state # "ARMED"
            /\ switching' = Requested(arm) /\ UNCHANGED <<status, checks>>
         \/ MainTransition(Requested(arm)) /\ UNCHANGED switching
  BY DEF SetMode
<1>3. Requested(arm) \in {"ARMED", "STANDBY"}
  BY DEF Requested
<1>4. CASE MainTransition(Requested(arm)) /\ UNCHANGED switching
  <2>1. Transition(Requested(arm), arming_state, hil_state, safety_on') /\ safety_on' \in BOOLEAN
    BY <1>1, <1>4 DEF MainTransition, IInv, RestOK
  <2> QED
    BY <1>1, <1>3, <1>4, <2>1, MainKeeps
<1>5. CASE hil_state = "OFF" /\ arming_state # "ARMED" /\ switching' = Requested(arm)
           /\ UNCHANGED <<status, checks>>
  <2>1. RestOK' /\ ChecksOK' /\ sensors_initialized' \in BOOLEAN
    BY <1>1, <1>3, <1>5 DEF IInv, RestOK, ChecksOK, StatusOK, Status, checks, Main
  <2>2. CallsAreMarked' /\ SwitchesDisarmed'
    BY <1>1, <1>5 DEF IInv, CallsAreMarked, SwitchesDisarmed, Main, status
  <2>3. used' \subseteq {"console"} =>
            (sensors_initialized => sensors_initialized') /\ low' \in {"idle", "reboot"}
    BY <1>1, <1>5 DEF IInv, SensorsStay, Main, checks
  <2> QED
    BY <1>1, <1>5, <2>1, <2>2, <2>3, SensorsKeep
<1> QED
  BY <1>2, <1>4, <1>5

LEMMA HilSteps == ASSUME IInv, HilSwitched PROVE IInv'
<1>1. /\ switching \in {"ARMED", "STANDBY"} /\ hil_state' \in {"OFF", "ON"}
      /\ safety_on \in BOOLEAN /\ hil_state = "OFF" /\ switching' = "no"
      /\ UNCHANGED <<calibration_enabled, safety_on, low, call, problems, used>>
      /\ Transition(switching, arming_state, hil_state', safety_on)
  BY DEF HilSwitched, IInv, RestOK, SwitchesDisarmed
<1>2. Done(switching, arming_state, hil_state', safety_on)
  <2>1. StatusOK /\ ChecksOK /\ switching \in Reachable /\ arming_state \in Reachable \cup {"IN_AIR_RESTORE"}
    BY <1>1 DEF IInv, Reachable, StatusOK, Status
  <2> QED
    BY <1>1, <2>1, TransitionEffect
<1>3. RestOK' /\ CallsAreMarked' /\ SwitchesDisarmed'
  BY <1>1 DEF IInv, RestOK, CallsAreMarked, SwitchesDisarmed
<1>4. SensorsStay'
  BY <1>1, <1>2 DEF IInv, SensorsStay, Done, OutOfHil
<1>5. SafetySwitchDisarms'
  <2> SUFFICES ASSUME hil_state' = "OFF", safety_on, used \subseteq {"console"}, armed' PROVE FALSE
    BY <1>1 DEF SafetySwitchDisarms
  <2>1. arming_state' = "ARMED"
    BY <1>2 DEF Done, StatusOK, Status
  <2>2. arming_state = "ARMED"
    BY <1>2, <2>1 DEF Done, OutOfHil
  <2> QED
    BY <1>1, <2>2 DEF IInv, SafetySwitchDisarms, StatusOK, Status
<1> QED
  BY <1>2, <1>3, <1>4, <1>5 DEF IInv, Done

LEMMA ConsoleRequests == ASSUME IInv, NEW c \in Consoles, ConsoleRequest(c) PROVE IInv'
<1>1. PICK new \in {"ARMED", "STANDBY"} :
         /\ call' = [call EXCEPT ![c] = [new |-> new, failed |-> CheckFails(new, hil_state, TRUE)]]
         /\ sensors_initialized' = ChecksAfter(new, hil_state).initialized
         /\ last_prearm_ret' = ChecksAfter(new, hil_state).last
         /\ recently_checked' = ChecksAfter(new, hil_state).recent
  BY DEF ConsoleRequest
<1>2. /\ CheckFails(new, hil_state, TRUE) \in BOOLEAN
      /\ ChecksOK' /\ sensors_initialized' \in BOOLEAN
      /\ sensors_initialized => sensors_initialized'
  <2>1. sensors_initialized \in BOOLEAN /\ ChecksOK
    BY DEF IInv, StatusOK, Status
  <2> QED
    BY <1>1, <2>1, ChecksAreBoolean DEF ChecksOK
<1>3. /\ UNCHANGED <<status, hil_state, calibration_enabled, safety_on, switching, low, problems>>
      /\ used' = used \cup {"console"}
  BY DEF ConsoleRequest, Console
<1>4. RestOK'
  <2>1. [new |-> new, failed |-> CheckFails(new, hil_state, TRUE)] \in Call
    BY <1>2 DEF Call
  <2> QED
    BY <1>1, <1>3, <2>1 DEF IInv, RestOK, Means
<1>5. CallsAreMarked' /\ SwitchesDisarmed'
  BY <1>3 DEF IInv, CallsAreMarked, SwitchesDisarmed
<1>6. used' \subseteq {"console"} => low' \in {"idle", "reboot"}
  BY <1>3 DEF IInv, SensorsStay
<1> QED
  BY <1>2, <1>3, <1>4, <1>5, <1>6, SensorsKeep

LEMMA ConsoleUpdates == ASSUME IInv, NEW c \in Consoles, ConsoleUpdate(c) PROVE IInv'
<1>1. /\ call[c] # NoCall /\ call[c] \in Call
      /\ Update(call[c].new, arming_state, hil_state, call[c].failed, sensors_initialized, safety_on)
      /\ call' = [call EXCEPT ![c] = NoCall]
      /\ UNCHANGED <<hil_state, calibration_enabled, safety_on, switching, low, problems,
                     last_prearm_ret, recently_checked, used>>
  BY DEF ConsoleUpdate, Console, IInv, RestOK
<1>2. "console" \in used
  BY <1>1 DEF IInv, CallsAreMarked
<1>3. /\ StatusOK'
      /\ lockdown' <=> hil_state = "ON"
      /\ sensors_initialized' <=> sensors_initialized \/ hil_state = "ON"
      /\ hil_state = "OFF" => OutOfHil(call[c].new, safety_on, sensors_initialized)
  <2>1. call[c].new \in Reachable /\ call[c].failed \in BOOLEAN
    BY <1>1 DEF Call, Reachable
  <2>2. /\ StatusOK /\ hil_state \in {"OFF", "ON"} /\ sensors_initialized \in BOOLEAN
        /\ safety_on \in BOOLEAN /\ arming_state \in Reachable \cup {"IN_AIR_RESTORE"}
    BY DEF IInv, StatusOK, Status, RestOK
  <2> QED
    BY <1>1, <2>1, <2>2, UpdateEffect
<1>4. ChecksOK' /\ RestOK' /\ CallsAreMarked' /\ SwitchesDisarmed'
  BY <1>1, <1>2, <1>3 DEF IInv, ChecksOK, RestOK, CallsAreMarked, SwitchesDisarmed
<1>5. SensorsStay'
  BY <1>1, <1>3 DEF IInv, SensorsStay, OutOfHil
<1>6. SafetySwitchDisarms'
  BY <1>1, <1>3 DEF IInv, SafetySwitchDisarms, OutOfHil, StatusOK, Status
<1> QED
  BY <1>3, <1>4, <1>5, <1>6 DEF IInv

\* The low-priority loop transitions during a calibration only.
LEMMA LowUpdates ==
    ASSUME IInv, NEW new \in {"INIT", "STANDBY"}, ~(used' \subseteq {"console"}),
           Update(new, arming_state, hil_state, FALSE, sensors_initialized, safety_on),
           UNCHANGED <<hil_state, calibration_enabled, safety_on, switching, call, problems,
                       last_prearm_ret, recently_checked>>,
           used' = used \/ used' = used \cup {"calibration"}, low' \in LowStates
    PROVE  IInv'
<1>1. /\ StatusOK'
      /\ lockdown' <=> hil_state = "ON"
      /\ arming_state' \in {arming_state, new}
  <2>1. /\ StatusOK /\ hil_state \in {"OFF", "ON"} /\ sensors_initialized \in BOOLEAN
        /\ safety_on \in BOOLEAN /\ arming_state \in Reachable \cup {"IN_AIR_RESTORE"}
        /\ new \in Reachable /\ FALSE \in BOOLEAN
    BY DEF IInv, StatusOK, Status, RestOK, Reachable
  <2> QED
    BY <2>1, UpdateEffect
<1>2. ChecksOK' /\ RestOK' /\ CallsAreMarked'
  BY <1>1 DEF IInv, ChecksOK, RestOK, Means, CallsAreMarked
<1>3. SwitchesDisarmed'
  BY <1>1 DEF IInv, SwitchesDisarmed
<1>4. SensorsStay' /\ SafetySwitchDisarms'
  BY DEF SensorsStay, SafetySwitchDisarms
<1> QED
  BY <1>1, <1>2, <1>3, <1>4 DEF IInv

\* Its other steps leave the status alone.
LEMMA LowKeeps ==
    ASSUME IInv, NEW here \in LowStates, NEW there \in LowStates, Low(here, there),
           here \in {"idle", "reboot"} =>
               there \in {"idle", "reboot"} \/ ~(used' \subseteq {"console"}),
           UNCHANGED status, ChecksOK', sensors_initialized' \in BOOLEAN,
           calibration_enabled' \in BOOLEAN,
           used' = used \/ used' = used \cup {"calibration"},
           here \in {"idle", "reboot"} => sensors_initialized' = sensors_initialized
    PROVE  IInv'
<1>1. low = here /\ low' = there /\ UNCHANGED <<hil_state, safety_on, switching, call, problems>>
  BY DEF Low
<1>2. RestOK' /\ CallsAreMarked' /\ SwitchesDisarmed'
  BY <1>1 DEF IInv, RestOK, Means, CallsAreMarked, SwitchesDisarmed, status
<1>3. used' \subseteq {"console"} =>
          (sensors_initialized => sensors_initialized') /\ low' \in {"idle", "reboot"}
  BY <1>1 DEF IInv, SensorsStay
<1> QED
  BY <1>1, <1>2, <1>3, SensorsKeep

LEMMA LowSteps ==
    ASSUME IInv,
           \/ Calibrate \/ CalibrateInInit \/ EnableCalibration \/ CalibrationFails
           \/ CalibrationSucceeds \/ CheckCalibrated \/ RequestStandby \/ EnterStandby
           \/ RequestReboot
    PROVE  IInv'
<1>1. /\ ChecksOK /\ sensors_initialized \in BOOLEAN /\ calibration_enabled \in BOOLEAN
      /\ low \in {"idle", "reboot"} \/ ~(used \subseteq {"console"})
  BY DEF IInv, StatusOK, Status, RestOK, SensorsStay, Means
<1>2. CASE Calibrate
  <2>1. /\ Update("INIT", arming_state, hil_state, FALSE, sensors_initialized, safety_on)
        /\ used' = used \cup {"calibration"} /\ ~(used' \subseteq {"console"})
        /\ UNCHANGED <<calibration_enabled, last_prearm_ret, recently_checked>>
        /\ UNCHANGED <<hil_state, safety_on, switching, call, problems>>
        /\ low' \in LowStates
    BY <1>2 DEF Calibrate, Low, LowStates
  <2> QED
    BY <2>1, LowUpdates
<1>3. CASE CalibrateInInit
  <2>1. /\ Low("idle", "enable") /\ UNCHANGED <<status, calibration_enabled, checks>>
        /\ used' = used \cup {"calibration"}
    BY <1>3 DEF CalibrateInInit
  <2> QED
    BY <1>1, <2>1, LowKeeps DEF LowStates, checks, ChecksOK
<1>4. CASE EnableCalibration
  <2>1. Low("enable", "calibrating") /\ calibration_enabled' = TRUE /\ UNCHANGED <<status, checks, used>>
    BY <1>4 DEF EnableCalibration
  <2> QED
    BY <1>1, <2>1, LowKeeps DEF LowStates, checks, ChecksOK
<1>5. CASE CalibrationFails
  <2>1. Low("calibrating", "idle") /\ calibration_enabled' = FALSE /\ UNCHANGED <<status, checks, used>>
    BY <1>5 DEF CalibrationFails
  <2> QED
    BY <1>1, <2>1, LowKeeps DEF LowStates, checks, ChecksOK
<1>6. CASE CalibrationSucceeds
  <2>1. Low("calibrating", "check") /\ calibration_enabled' = FALSE /\ UNCHANGED <<status, checks, used>>
    BY <1>6 DEF CalibrationSucceeds
  <2> QED
    BY <1>1, <2>1, LowKeeps DEF LowStates, checks, ChecksOK
<1>7. CASE CheckCalibrated
  <2>1. /\ Low("check", "standby") /\ sensors_initialized' \in BOOLEAN
        /\ UNCHANGED <<status, calibration_enabled, last_prearm_ret, recently_checked, used>>
    BY <1>7 DEF CheckCalibrated
  <2> QED
    BY <1>1, <2>1, LowKeeps DEF LowStates, ChecksOK
<1>8. CASE RequestStandby
  <2>1. /\ UNCHANGED <<status, calibration_enabled, used>>
        /\ \E there \in {"idle", "update"} : Low("standby", there)
        /\ \/ UNCHANGED checks
           \/ /\ sensors_initialized' = ChecksAfter("STANDBY", hil_state).initialized
              /\ last_prearm_ret' = ChecksAfter("STANDBY", hil_state).last
              /\ recently_checked' = ChecksAfter("STANDBY", hil_state).recent
    BY <1>8 DEF RequestStandby
  <2>2. ChecksOK' /\ sensors_initialized' \in BOOLEAN
    BY <1>1, <2>1, ChecksAreBoolean DEF checks, ChecksOK
  <2>3. {"idle", "update", "standby"} \subseteq LowStates
    BY DEF LowStates
  <2> QED
    BY <1>1, <2>1, <2>2, <2>3, LowKeeps
<1>9. CASE EnterStandby
  <2>1. /\ Low("update", "idle") /\ UNCHANGED <<calibration_enabled, last_prearm_ret, recently_checked, used>>
        /\ Update("STANDBY", arming_state, hil_state, FALSE, sensors_initialized, safety_on)
    BY <1>9 DEF EnterStandby
  <2>2. ~(used' \subseteq {"console"})
    BY <1>1, <2>1 DEF Low
  <2> QED
    BY <2>1, <2>2, LowUpdates DEF Low, LowStates
<1>10. CASE RequestReboot
  <2>1. Low("idle", "reboot") /\ UNCHANGED <<status, checks, calibration_enabled, used>>
    BY <1>10 DEF RequestReboot
  <2> QED
    BY <1>1, <2>1, LowKeeps DEF LowStates, checks, ChecksOK
<1> QED
  BY <1>2, <1>3, <1>4, <1>5, <1>6, <1>7, <1>8, <1>9, <1>10

LEMMA OtherSteps == ASSUME IInv, Reboot \/ ProblemsChange \/ Tick \/ UNCHANGED vars PROVE IInv'
<1>1. CASE Reboot
  <2>1. StatusOK' /\ ChecksOK'
    BY <1>1 DEF Reboot, StatusOK, Status, ChecksOK, Reachable
  <2>2. RestOK'
    BY <1>1 DEF Reboot, IInv, RestOK, LowStates
  <2>3. call' = [c \in Consoles |-> NoCall]
    BY <1>1 DEF Reboot, IInv, RestOK
  <2> QED
    BY <1>1, <2>1, <2>2, <2>3 DEF Reboot, IInv, CallsAreMarked, SwitchesDisarmed, SensorsStay,
                                  SafetySwitchDisarms
<1>2. CASE ProblemsChange \/ Tick \/ UNCHANGED vars
  <2>1. /\ UNCHANGED <<status, hil_state, sensors_initialized, calibration_enabled, safety_on,
                       switching, low, call, used>>
        /\ problems' \in SUBSET Problems /\ ChecksOK'
    BY <1>2 DEF ProblemsChange, Tick, vars, status, checks, IInv, RestOK, ChecksOK
  <2>2. RestOK' /\ CallsAreMarked' /\ SwitchesDisarmed' /\ sensors_initialized' \in BOOLEAN
    BY <2>1 DEF IInv, RestOK, CallsAreMarked, SwitchesDisarmed, status, StatusOK, Status
  <2>3. used' \subseteq {"console"} =>
            (sensors_initialized => sensors_initialized') /\ low' \in {"idle", "reboot"}
    BY <2>1 DEF IInv, SensorsStay
  <2> QED
    BY <2>1, <2>2, <2>3, SensorsKeep
<1> QED
  BY <1>1, <1>2

\* The inductive invariant holds for any number of consoles.
THEOREM Invariance == Spec => []IInv
<1>1. IInv /\ [Next]_vars => IInv'
  BY MainSteps, LockSteps, SafetySteps, RestoreSteps, SetModeSteps, HilSteps, ConsoleRequests,
     ConsoleUpdates, LowSteps, OtherSteps DEF Next
<1> QED
  BY InitIInv, <1>1, PTL DEF Spec

\* Every variable keeps its range, and the states armed and ready_to_arm are
\* those of the arming state, whoever was interrupted where.
THEOREM TypeCorrect == Spec => []TypeOK
<1>1. IInv => TypeOK
  BY Typing DEF IInv
<1> QED
  BY Invariance, <1>1, PTL

\* A transition in HIL locks the motors, or there is nothing to do.
LEMMA TransitionLocks ==
    ASSUME IInv, hil_state' = hil_state,
           NEW new \in {"INIT", "STANDBY", "ARMED"}, NEW safety \in BOOLEAN,
           NEW from \in {arming_state, "IN_AIR_RESTORE"},
           from = "IN_AIR_RESTORE" => new = "ARMED",
           Transition(new, from, hil_state, safety)
    PROVE  Loose' => Loose
<1>1. /\ StatusOK /\ ChecksOK /\ new \in Reachable /\ hil_state \in {"OFF", "ON"}
      /\ from \in Reachable \cup {"IN_AIR_RESTORE"}
      /\ from = arming_state \/ (from = "IN_AIR_RESTORE" /\ new = "ARMED")
  BY DEF IInv, RestOK, Reachable, StatusOK, Status
<1>2. Done(new, from, hil_state, safety)
  BY <1>1, TransitionEffect
<1>3. CASE new = from
  BY <1>1, <1>2, <1>3 DEF Done, Loose, StatusOK, Status, Reachable
<1>4. CASE new # from
  BY <1>2, <1>4 DEF Done, Loose
<1> QED
  BY <1>3, <1>4

LEMMA UpdateLocks ==
    ASSUME NEW new, NEW from, NEW failed, NEW initialized, NEW safety,
           Update(new, from, hil_state, failed, initialized, safety), hil_state' = hil_state
    PROVE  ~Loose'
  BY DEF Update, Loose

\* In HIL the motors of an armed vehicle come to be unlocked by the kill switch
\* and flight termination only, unless a console interferes
\* (arming_state_transition(): "enforce lockdown in HIL").
THEOREM HilLocked == Spec => HilIsLocked
<1>1. ASSUME IInv, [Next]_vars, Loose', ~Loose, "console" \notin used'
      PROVE  KillSwitch \/ FlightTermination
  <2> SUFFICES ASSUME ~(KillSwitch \/ FlightTermination) PROVE FALSE
    OBVIOUS
  <2>1. /\ \A arm \in BOOLEAN : Requested(arm) \in {"ARMED", "STANDBY"}
        /\ Disarmed \in {"INIT", "STANDBY", "ARMED"} \/ ~armed
        /\ safety_on \in BOOLEAN /\ arming_state \in Reachable /\ StatusOK
    BY <1>1 DEF Requested, Disarmed, IInv, RestOK, StatusOK, Status
  <2>2. CASE UNCHANGED <<status, hil_state>>
    BY <1>1, <2>2 DEF Loose, status
  <2>3. CASE ProceedToStandby \/ StickDisarm \/ StickArm \/ AutoDisarm \/ MissionStart
             \/ ArmDisarmCommand
    <3>1. /\ UNCHANGED hil_state
          /\ \E new \in {"INIT", "STANDBY", "ARMED"} :
                Transition(new, arming_state, hil_state, safety_on)
      BY <2>1, <2>3 DEF ProceedToStandby, StickDisarm, StickArm, AutoDisarm, MissionStart,
            ArmDisarmCommand, MainTransition, Disarmed, Reachable
    <3>2. PICK new \in {"INIT", "STANDBY", "ARMED"} :
                Transition(new, arming_state, hil_state, safety_on)
      BY <3>1
    <3>3. arming_state # "IN_AIR_RESTORE"
      BY <2>1 DEF Reachable
    <3> QED  BY <1>1, <2>1, <3>1, <3>2, <3>3, TransitionLocks
  <2>4. CASE SafetyUpdate
    <3>1. /\ UNCHANGED hil_state /\ safety_on' \in BOOLEAN
          /\ \/ Transition("STANDBY", arming_state, hil_state, safety_on')
             \/ UNCHANGED status
      BY <2>1, <2>4 DEF SafetyUpdate, Disarmed, StatusOK, Status
    <3>2. arming_state # "IN_AIR_RESTORE"
      BY <2>1 DEF Reachable
    <3> QED  BY <1>1, <2>1, <2>2, <3>1, <3>2, TransitionLocks
  <2>5. CASE SetMode
    <3>1. /\ UNCHANGED hil_state
          /\ \/ \E new \in {"STANDBY", "ARMED"} :
                   Transition(new, arming_state, hil_state, safety_on)
             \/ UNCHANGED status
      BY <2>1, <2>5 DEF SetMode, MainTransition
    <3>2. arming_state # "IN_AIR_RESTORE"
      BY <2>1 DEF Reachable
    <3>3. ASSUME NEW new \in {"STANDBY", "ARMED"},
                 Transition(new, arming_state, hil_state, safety_on)
          PROVE  FALSE
      BY <1>1, <2>1, <3>1, <3>2, <3>3, TransitionLocks
    <3> QED  BY <1>1, <2>2, <3>1, <3>3
  <2>6. CASE InAirRestore
    <3>1. UNCHANGED hil_state /\ Transition("ARMED", "IN_AIR_RESTORE", hil_state, safety_on)
      BY <2>6 DEF InAirRestore
    <3> QED  BY <1>1, <2>1, <3>1, TransitionLocks
  <2>7. CASE HilSwitched
    <3>1. /\ switching \in {"ARMED", "STANDBY"} /\ hil_state' \in {"OFF", "ON"}
          /\ hil_state = "OFF" /\ used' = used
          /\ Transition(switching, arming_state, hil_state', safety_on)
      BY <1>1, <2>7 DEF HilSwitched, IInv, RestOK, SwitchesDisarmed
    <3>2. Done(switching, arming_state, hil_state', safety_on)
      BY <1>1, <2>1, <3>1, TransitionEffect DEF IInv, Reachable
    <3>3. arming_state # "ARMED"
      BY <1>1, <3>1 DEF IInv, SwitchesDisarmed
    <3>4. arming_state' = "ARMED"
      BY <1>1, <3>2 DEF Done, StatusOK, Status, Loose
    <3> QED  BY <1>1, <3>2, <3>3, <3>4 DEF Done, Loose
  <2>8. CASE \E c \in Consoles : ConsoleRequest(c)
    BY <1>1, <2>8 DEF ConsoleRequest
  <2>9. CASE \E c \in Consoles : ConsoleUpdate(c)
    BY <1>1, <2>9, UpdateLocks DEF ConsoleUpdate, Console
  <2>10. CASE Calibrate \/ EnterStandby
    BY <1>1, <2>10, UpdateLocks DEF Calibrate, EnterStandby, Low
  <2>11. CASE Reboot
    BY <1>1, <2>11 DEF Reboot, Loose
  <2> QED
    BY <1>1, <2>2, <2>3, <2>4, <2>5, <2>6, <2>7, <2>8, <2>9, <2>10, <2>11
       DEF Next, CalibrateInInit, EnableCalibration, CalibrationFails, CalibrationSucceeds,
           CheckCalibrated, RequestStandby, RequestReboot, ProblemsChange, Tick, Low, vars
<1>2. IInv /\ [Next]_vars =>
        [Loose' /\ ~Loose /\ "console" \notin used' => KillSwitch \/ FlightTermination]_vars
  BY <1>1
<1> QED
  BY Invariance, <1>2, PTL DEF Spec, HilIsLocked

\* The safety switch keeps a vehicle disarmed, whatever any consoles do.
THEOREM SafetySwitch == Spec => []SafetySwitchDisarms
<1>1. IInv => SafetySwitchDisarms
  BY DEF IInv
<1> QED
  BY Invariance, <1>1, PTL

LEMMA ArmsWhenChecked ==
    ASSUME IInv, used \subseteq {"console"}, arming_state # "ARMED",
           NEW new \in {"ARMED", "STANDBY"}, NEW safety,
           Transition(new, arming_state, "OFF", safety), arming_state' = "ARMED",
           hil_state = "OFF"
    PROVE  problems = {}
<1> DEFINE after == ChecksAfter(new, "OFF")
           fails == CheckFails(new, "OFF", TRUE)
<1>1. arming_state \in {"INIT", "STANDBY"}
  BY DEF IInv, StatusOK, Status, Reachable
<1>2. Recovered(arming_state, "OFF") = arming_state /\ Target(new, arming_state) = new
  BY <1>1 DEF Recovered, Target
<1>3. Update(new, arming_state, "OFF", fails, after.initialized, safety)
  BY DEF Transition
<1>4. new = "ARMED" /\ Valid(new, arming_state, "OFF", fails, after.initialized, safety)
  <2> HIDE DEF fails, after
  <2> QED
    BY <1>1, <1>2, <1>3 DEF Update
<1>5. arming_state = "STANDBY" /\ ~fails
  <2> HIDE DEF fails, after
  <2> QED
    BY <1>1, <1>2, <1>4 DEF Valid, ArmingTransitions
<1>6. sensors_initialized
  BY <1>5 DEF IInv, SensorsStay
<1>7. ~PreflightFails(TRUE)
  BY <1>4, <1>5, <1>6 DEF CheckFails, Recheck
<1> QED
  BY <1>7 DEF PreflightFails, IInv, RestOK, Problems

\* Until a console or a calibration interferes, nothing that the pre-arm check
\* looks for is there when the main loop arms the vehicle out of HIL.
THEOREM CheckedArming == Spec => ArmingIsChecked
<1>1. ASSUME IInv, [Next]_vars, used' = {} PROVE ~ArmsUnchecked
  <2> SUFFICES ASSUME armed', ~armed, hil_state' = "OFF" PROVE problems = {}
    BY <1>1 DEF ArmsUnchecked
  <2>1. IInv'
    BY <1>1, MainSteps, LockSteps, SafetySteps, RestoreSteps, SetModeSteps, HilSteps, ConsoleRequests,
       ConsoleUpdates, LowSteps, OtherSteps DEF Next
  <2>2. arming_state' = "ARMED" /\ arming_state # "ARMED"
    BY <1>1, <2>1 DEF IInv, StatusOK, Status
  <2>3. ASSUME NEW new \in {"ARMED", "STANDBY"}, NEW safety, used = {}, hil_state = "OFF",
               Transition(new, arming_state, "OFF", safety)
        PROVE  problems = {}
    BY <1>1, <2>2, <2>3, ArmsWhenChecked
  <2>4. \A arm \in BOOLEAN : Requested(arm) \in {"ARMED", "STANDBY"}
    BY DEF Requested
  <2>5. CASE \/ ProceedToStandby \/ StickArm \/ AutoDisarm \/ MissionStart \/ ArmDisarmCommand
             \/ SetMode
    <3>1. UNCHANGED <<hil_state, used>>
      BY <2>5 DEF ProceedToStandby, StickArm, AutoDisarm, MissionStart, ArmDisarmCommand, SetMode
    <3>2. \E new \in {"ARMED", "STANDBY"} : Transition(new, arming_state, "OFF", safety_on)
      <4>1. \/ \E new \in {"ARMED", "STANDBY"} : MainTransition(new)
            \/ UNCHANGED status
        BY <2>4, <2>5 DEF ProceedToStandby, StickArm, AutoDisarm, MissionStart,
                          ArmDisarmCommand, SetMode
      <4> QED
        BY <2>2, <3>1, <4>1 DEF MainTransition, status
    <3> QED
      BY <1>1, <2>3, <3>1, <3>2
  <2>6. CASE HilSwitched
    <3>1. /\ Transition(switching, arming_state, "OFF", safety_on)
          /\ switching \in {"ARMED", "STANDBY"} /\ hil_state = "OFF" /\ used = {}
      BY <1>1, <2>6 DEF HilSwitched, IInv, RestOK, SwitchesDisarmed
    <3> QED
      BY <2>3, <3>1
  <2>7. CASE SafetyUpdate \/ StickDisarm \/ KillSwitch \/ FlightTermination
    BY <1>1, <2>2, <2>7 DEF KillSwitch, FlightTermination, SafetyUpdate, StickDisarm, status, IInv, StatusOK, Status, Reachable
  <2>8. CASE InAirRestore \/ \E c \in Consoles : ConsoleRequest(c)
    BY <1>1, <2>8 DEF InAirRestore, ConsoleRequest
  <2>9. CASE \E c \in Consoles : ConsoleUpdate(c)
    BY <1>1, <2>9 DEF ConsoleUpdate, IInv, CallsAreMarked
  <2>10. CASE \/ CalibrateInInit \/ EnableCalibration \/ CalibrationFails
              \/ CalibrationSucceeds \/ CheckCalibrated \/ RequestStandby
              \/ RequestReboot \/ Reboot \/ ProblemsChange \/ Tick \/ UNCHANGED vars
    BY <2>2, <2>10 DEF CalibrateInInit, EnableCalibration, CalibrationFails,
       CalibrationSucceeds, CheckCalibrated, RequestStandby, RequestReboot, Reboot,
       ProblemsChange, Tick, vars, status
  <2>11. CASE Calibrate \/ EnterStandby
    BY <1>1, <2>11 DEF Calibrate, EnterStandby, Low, IInv, SensorsStay
  <2> QED
    BY <1>1, <2>5, <2>6, <2>7, <2>8, <2>9, <2>10, <2>11 DEF Next
<1>2. IInv /\ [Next]_vars => [used' = {} => ~ArmsUnchecked]_vars
  BY <1>1
<1> QED
  BY Invariance, <1>2, PTL DEF Spec, ArmingIsChecked

-------------------------------------------------------------------------------
\* A transition enters the state that is asked for or none.
LEMMA UpdateEnters ==
    ASSUME NEW new, NEW from, from \notin {"STANDBY_ERROR", "ARMED_ERROR"},
           NEW hil, NEW failed, NEW initialized, NEW safety,
           Update(new, from, hil, failed, initialized, safety)
    PROVE  /\ arming_state' \in {from, new}
           /\ new = "INIT" /\ from = "ARMED" => arming_state' = "ARMED"
<1>1. Recovered(from, hil) = from /\ Target(new, from) = new
  BY DEF Recovered, Target
<1>2. ~Valid("INIT", "ARMED", hil, failed, initialized, safety)
  BY DEF Valid, ArmingTransitions, Target
<1> QED
  BY <1>1, <1>2 DEF Update

LEMMA TransitionEnters ==
    ASSUME NEW new, NEW from, from \notin {"STANDBY_ERROR", "ARMED_ERROR"},
           NEW hil, NEW safety, Transition(new, from, hil, safety)
    PROVE  arming_state' \in {from, new}
  BY UpdateEnters DEF Transition

\* Whatever order the threads come in, an armed vehicle is not set back to INIT
\* (arming_state_transition(), commander_low_prio_loop()) but by a reset.
THEOREM DisarmsToStandby == Spec => ArmedGoesToStandby
<1>1. ASSUME IInv, [Next]_vars, arming_state = "ARMED", low # "reboot"
      PROVE  arming_state' \in {"ARMED", "STANDBY"}
  <2> USE <1>1
  <2>1. \A arm \in BOOLEAN : Requested(arm) \in {"ARMED", "STANDBY"}
    BY DEF Requested
  <2>2. ASSUME NEW new \in {"ARMED", "STANDBY"}, NEW hil, NEW safety,
               Transition(new, arming_state, hil, safety)
        PROVE  arming_state' \in {"ARMED", "STANDBY"}
    BY <2>2, TransitionEnters
  <2>3. CASE StickDisarm \/ StickArm \/ AutoDisarm \/ MissionStart \/ ArmDisarmCommand
    <3>1. \E new \in {"ARMED", "STANDBY"} : Transition(new, arming_state, hil_state, safety_on)
      BY <2>1, <2>3 DEF StickDisarm, StickArm, AutoDisarm, MissionStart, ArmDisarmCommand,
                        MainTransition, Disarmed
    <3> QED  BY <2>2, <3>1
  <2>4. CASE SafetyUpdate
    <3>1. UNCHANGED status \/ Transition("STANDBY", arming_state, hil_state, safety_on')
      BY <2>4 DEF SafetyUpdate, Disarmed
    <3> QED  BY <2>2, <3>1 DEF status
  <2>5. CASE SetMode
    <3>1. \E new \in {"ARMED", "STANDBY"} : Transition(new, arming_state, hil_state, safety_on)
      BY <2>1, <2>5 DEF SetMode, MainTransition
    <3> QED  BY <2>2, <3>1
  <2>6. CASE InAirRestore
    <3>1. arming_state' \in {"IN_AIR_RESTORE", "ARMED"}
      BY <2>6, TransitionEnters DEF InAirRestore
    <3>2. StatusOK'
      BY <2>6, RestoreSteps DEF IInv
    <3> QED  BY <3>1, <3>2 DEF StatusOK, Status, Reachable
  <2>7. CASE HilSwitched
    <3>1. switching \in {"ARMED", "STANDBY"} /\ Transition(switching, arming_state, hil_state', safety_on)
      BY <2>7 DEF HilSwitched, IInv, RestOK
    <3> QED  BY <2>2, <3>1
  <2>8. ASSUME NEW c \in Consoles, ConsoleUpdate(c)
        PROVE  arming_state' \in {"ARMED", "STANDBY"}
    <3>1. call[c] \in Call
      BY <2>8 DEF ConsoleUpdate, IInv, RestOK
    <3> QED  BY <2>8, <3>1, UpdateEnters DEF ConsoleUpdate, Call
  <2>9. CASE Calibrate
    BY <2>9, UpdateEnters DEF Calibrate
  <2>10. CASE EnterStandby
    BY <2>10, UpdateEnters DEF EnterStandby
  <2>11. CASE UNCHANGED arming_state
    BY <2>11
  <2> QED
    BY <2>3, <2>4, <2>5, <2>6, <2>7, <2>8, <2>9, <2>10, <2>11
       DEF Next, ProceedToStandby, ConsoleRequest, CalibrateInInit, EnableCalibration,
           CalibrationFails, CalibrationSucceeds, CheckCalibrated, RequestStandby,
           RequestReboot, Reboot, ProblemsChange, Tick, vars, status, KillSwitch,
           FlightTermination
<1> QED
  BY <1>1, Invariance, PTL DEF Spec, ArmedGoesToStandby

\* However a calibration ends, the flag it holds the vehicle in INIT with is
\* taken down (do_*_calibration() in commander_low_prio_loop()): the part of
\* LeavesInit that is a safety property.
THEOREM CalibrationEnds == Spec => []InitIsHeldByCalibration
<1>1. Init => InitIsHeldByCalibration
  BY DEF Init, InitIsHeldByCalibration
<1>2. InitIsHeldByCalibration /\ [Next]_vars => InitIsHeldByCalibration'
  <2> SUFFICES ASSUME InitIsHeldByCalibration, [Next]_vars PROVE InitIsHeldByCalibration'
    OBVIOUS
  <2> USE DEF InitIsHeldByCalibration
  <2>1. CASE UNCHANGED <<calibration_enabled, low>>
    BY <2>1
  <2>2. CASE EnableCalibration \/ CalibrationFails \/ CalibrationSucceeds \/ Reboot
    BY <2>2 DEF EnableCalibration, CalibrationFails, CalibrationSucceeds, Reboot, Low
  <2>3. CASE \/ Calibrate \/ CalibrateInInit \/ CheckCalibrated \/ RequestStandby
             \/ EnterStandby \/ RequestReboot
    <3>1. \E here, there \in LowStates \ {"calibrating"} : Low(here, there)
      BY <2>3 DEF Calibrate, CalibrateInInit, CheckCalibrated, RequestStandby, EnterStandby,
                  RequestReboot, LowStates
    <3>2. UNCHANGED calibration_enabled
      BY <2>3 DEF Calibrate, CalibrateInInit, CheckCalibrated, RequestStandby, EnterStandby,
                  RequestReboot
    <3> QED  BY <3>1, <3>2 DEF Low
  <2> QED
    BY <2>1, <2>2, <2>3 DEF Next, vars, SafetyUpdate, ProceedToStandby, StickDisarm, StickArm,
       AutoDisarm, MissionStart, ArmDisarmCommand, InAirRestore, SetMode, Main, HilSwitched,
       KillSwitch, FlightTermination,
       ConsoleRequest, ConsoleUpdate, Console, ProblemsChange, Tick
<1> QED
  BY <1>1, <1>2, PTL DEF Spec
===============================================================================
