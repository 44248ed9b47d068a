----------------------------- MODULE ArmingState ------------------------------
(***************************************************************************)
(* The arming state of the vehicle.  arming_state_transition() is called   *)
(* by three kinds of threads on the same status: the commander's main loop *)
(* (priority default + 40), consoles (`commander arm', default) and the    *)
(* low-priority loop that calibrates and reboots (default - 50).  It first *)
(* runs the checks, which read sensors and take time, and then updates the *)
(* state in a critical section.                                            *)
(*                                                                         *)
(* A thread preempts the ones of lower priority anywhere outside the       *)
(* critical section and cannot be preempted by them: a transition of the   *)
(* main loop is one step here, one of a console or of the low-priority     *)
(* loop is two, and the low-priority loop stands still while a console is  *)
(* between the two.  Only a switch to HIL, which opens every device, lets  *)
(* others run in the middle of a command of the main loop.                 *)
(*                                                                         *)
(* The lock of the motors has two more writers in the main loop: the kill  *)
(* switch and the command of flight termination.                           *)
(*                                                                         *)
(* The vehicle is not configured as a simulation platform (is_hil_setup).  *)
(***************************************************************************)
EXTENDS Naturals

CONSTANT Consoles   \* threads of `commander arm' and `commander disarm'

VARIABLES
    arming_state, hil_state,        \* vehicle_status
    armed, lockdown, ready_to_arm,  \* actuator_armed
    sensors_initialized,            \* condition_system_sensors_initialized
    calibration_enabled,            \* condition_calibration_enabled
    last_prearm_ret,                \* the last preflight check failed
    recently_checked,               \* that was within the last second
    safety_on,                      \* the switch is there and not pressed
    switching,                      \* the main loop switches to HIL: the
                                    \* arming request of its command
    low,                            \* where the low-priority loop is
    call,                           \* a console between checks and update
    problems,                       \* what the checks would find now
    used                            \* means used since the start

status == <<arming_state, armed, lockdown, ready_to_arm>>
checks == <<sensors_initialized, last_prearm_ret, recently_checked>>
vars == <<status, hil_state, checks, calibration_enabled, safety_on,
          switching, low, call, problems, used>>

States == {"INIT", "STANDBY", "ARMED", "ARMED_ERROR", "STANDBY_ERROR", "REBOOT",
           "IN_AIR_RESTORE"}

\* Findings of Commander::preflightCheck(), a critical battery, and findings of
\* the pre-arm check only, as a USB cable.
Problems == {"sensors", "battery", "usb"}
Means == {"console", "restore", "calibration"}
LowStates == {"idle", "init", "enable", "calibrating", "check", "standby",
              "update", "reboot"}
NoCall == [new |-> "none"]
Call == [new : {"ARMED", "STANDBY"}, failed : BOOLEAN]

TypeOK ==
    /\ arming_state \in States
    /\ hil_state \in {"OFF", "ON"}
    /\ armed \in BOOLEAN /\ lockdown \in BOOLEAN /\ ready_to_arm \in BOOLEAN
    /\ armed <=> arming_state \in {"ARMED", "ARMED_ERROR"}
    /\ ready_to_arm <=> arming_state \in {"ARMED", "STANDBY"}
    /\ sensors_initialized \in BOOLEAN /\ calibration_enabled \in BOOLEAN
    /\ last_prearm_ret \in BOOLEAN /\ recently_checked \in BOOLEAN
    /\ safety_on \in BOOLEAN
    /\ switching \in {"no", "ARMED", "STANDBY"}
    /\ low \in LowStates
    /\ call \in [Consoles -> Call \cup {NoCall}]
    /\ problems \in SUBSET Problems
    /\ used \in SUBSET Means

\* The commander has started, with or without -hil, and has looked at the
\* sensors.
Init ==
    /\ arming_state = "INIT"
    /\ hil_state \in {"OFF", "ON"}
    /\ armed = FALSE /\ lockdown = FALSE /\ ready_to_arm = FALSE
    /\ problems \in SUBSET Problems
    /\ sensors_initialized = ("sensors" \notin problems)
    /\ calibration_enabled = FALSE
    /\ last_prearm_ret = TRUE /\ recently_checked = FALSE
    /\ safety_on = FALSE
    /\ switching = "no"
    /\ low = "idle"
    /\ call = [c \in Consoles |-> NoCall]
    /\ used = {}

(***************************************************************************)
(* arming_state_transition().                                              *)
(***************************************************************************)
\* From which states a new state can be reached.
ArmingTransitions ==
    [INIT |-> {"INIT", "STANDBY", "STANDBY_ERROR"},
     STANDBY |-> {"INIT", "STANDBY", "ARMED", "ARMED_ERROR"},
     ARMED |-> {"STANDBY", "ARMED", "IN_AIR_RESTORE"},
     ARMED_ERROR |-> {"ARMED", "ARMED_ERROR"},
     STANDBY_ERROR |-> {"INIT", "STANDBY", "ARMED", "ARMED_ERROR", "STANDBY_ERROR"},
     REBOOT |-> {"INIT", "STANDBY", "STANDBY_ERROR", "REBOOT", "IN_AIR_RESTORE"},
     IN_AIR_RESTORE |-> {}]

PreflightFails(prearm) ==
    {"sensors", "battery"} \cap problems # {} \/ (prearm /\ "usb" \in problems)

\* The first half, for a new state: the pre-arm check, when asked for, and the
\* preflight check again as long as the sensors fail, at most once a second;
\* its result, or the one before, replaces that of the pre-arm check.
Recheck(new, hil) == ~sensors_initialized /\ new \in {"ARMED", "STANDBY"} /\ hil = "OFF"

\* Mutant: the result of the pre-arm check counts for nothing.
CheckWithoutPrearm(new, hil, fRunPreArmChecks) ==
    Recheck(new, hil) /\ (IF recently_checked THEN last_prearm_ret ELSE PreflightFails(FALSE))

CheckFails(new, hil, fRunPreArmChecks) ==
    IF Recheck(new, hil)
      THEN IF recently_checked THEN last_prearm_ret ELSE PreflightFails(FALSE)
      ELSE fRunPreArmChecks /\ new = "ARMED" /\ hil = "OFF" /\ PreflightFails(TRUE)

ChecksAfter(new, hil) ==
    IF Recheck(new, hil) /\ ~recently_checked
      THEN [initialized |-> ~PreflightFails(FALSE), last |-> PreflightFails(FALSE),
            recent |-> TRUE]
      ELSE [initialized |-> sensors_initialized, last |-> last_prearm_ret,
            recent |-> recently_checked]

\* The second half: the state that the table and the validation are applied to
\* and the state that is entered, ...
Recovered(state, hil) ==
    IF hil = "ON" /\ state = "STANDBY_ERROR" THEN "STANDBY" ELSE state

Target(new, state) ==
    IF new = "STANDBY" /\ state = "ARMED_ERROR" THEN "STANDBY_ERROR" ELSE new

\* ... whether it may be, ...
\* Mutant: the safety switch is not asked.
ValidUnlocked(new, state, hil, failed, initialized, safety) ==
    /\ state \in ArmingTransitions[new]
    /\ new = "ARMED" /\ state # "IN_AIR_RESTORE" /\ hil = "OFF" => ~failed
    /\ Target(new, state) = "STANDBY" /\ state # "STANDBY_ERROR" /\ hil = "OFF" => initialized

Valid(new, state, hil, failed, initialized, safety) ==
    \/ hil = "ON" /\ Target(new, state) = "STANDBY"
    \/ /\ state \in ArmingTransitions[new]
       /\ new = "ARMED" /\ state # "IN_AIR_RESTORE" /\ hil = "OFF" => ~failed /\ ~safety
       /\ Target(new, state) = "STANDBY" /\ state # "STANDBY_ERROR" /\ hil = "OFF" =>
              initialized

\* Mutant: armed stays set.
UpdateStaysArmed(new, from, hil, failed, initialized, safety) ==
    LET state == Recovered(from, hil)
        valid == Valid(new, state, hil, failed, initialized, safety)
    IN  /\ lockdown' = (hil = "ON")
        /\ sensors_initialized' = (initialized \/ hil = "ON")
        /\ arming_state' = IF valid THEN Target(new, state) ELSE state
        /\ armed' = (armed \/ (valid /\ Target(new, state) = "ARMED"))
        /\ ready_to_arm' = IF valid THEN Target(new, state) # "INIT" ELSE ready_to_arm

\* ... and the update.  The power supply may be bad at any time.
Update(new, from, hil, failed, initialized, safety) ==
    LET state == Recovered(from, hil)
        needs_power == new = "ARMED" /\ state # "IN_AIR_RESTORE" /\ hil = "OFF"
        valid(power) == /\ Valid(new, state, hil, failed, initialized, safety)
                        /\ needs_power => power
        target == Target(new, state)
    IN  /\ lockdown' = (hil = "ON")
        /\ sensors_initialized' = (initialized \/ hil = "ON")
        /\ \E power \in BOOLEAN :
              IF valid(power)
                THEN /\ arming_state' = target
                     /\ armed' = (target \in {"ARMED", "ARMED_ERROR"})
                     /\ ready_to_arm' = (target \in {"ARMED", "STANDBY"})
                ELSE arming_state' = state /\ UNCHANGED <<armed, ready_to_arm>>

\* A whole transition of the main loop, from the state `from'; nothing happens
\* when the state is the one asked for.
Transition(new, from, hil, safety) ==
    IF new = from
      THEN UNCHANGED <<armed, lockdown, ready_to_arm, checks>> /\ arming_state' = from
      ELSE LET after == ChecksAfter(new, hil)
           IN  /\ Update(new, from, hil, CheckFails(new, hil, TRUE), after.initialized, safety)
               /\ last_prearm_ret' = after.last
               /\ recently_checked' = after.recent

(***************************************************************************)
(* The main loop.                                                          *)
(***************************************************************************)
Main ==
    /\ switching = "no"
    /\ UNCHANGED <<calibration_enabled, low, call, problems>>

MainTransition(new) == Transition(new, arming_state, hil_state, safety_on)

\* arm_disarm()
Requested(arm) == IF arm THEN "ARMED" ELSE "STANDBY"

\* Where the safety switch and the sticks disarm to.
Disarmed == IF arming_state = "ARMED" THEN "STANDBY" ELSE "STANDBY_ERROR"

\* The safety topic is updated: an armed vehicle is disarmed.
SafetyUpdate ==
    /\ Main
    /\ safety_on' \in BOOLEAN
    /\ IF hil_state = "OFF" /\ safety_on' /\ armed
         THEN Transition(Disarmed, arming_state, hil_state, safety_on')
         ELSE UNCHANGED <<status, checks>>
    /\ UNCHANGED <<hil_state, switching, used>>

\* If in INIT state, try to proceed to STANDBY state.
ProceedToStandby ==
    /\ Main
    /\ ~calibration_enabled /\ arming_state = "INIT"
    /\ MainTransition("STANDBY")
    /\ UNCHANGED <<hil_state, safety_on, switching, used>>

\* The sticks, or auto_disarm_hysteresis after a landing.
StickDisarm ==
    /\ Main
    /\ arming_state \in {"ARMED", "ARMED_ERROR"}
    /\ MainTransition(Disarmed)
    /\ UNCHANGED <<hil_state, safety_on, switching, used>>

StickArm ==
    /\ Main
    /\ arming_state = "STANDBY"
    /\ MainTransition("ARMED")
    /\ UNCHANGED <<hil_state, safety_on, switching, used>>

AutoDisarm ==
    /\ Main
    /\ armed
    /\ MainTransition(Requested(FALSE))
    /\ UNCHANGED <<hil_state, safety_on, switching, used>>

\* VEHICLE_CMD_MISSION_START
MissionStart ==
    /\ Main
    /\ MainTransition(Requested(TRUE))
    /\ UNCHANGED <<hil_state, safety_on, switching, used>>

\* VEHICLE_CMD_COMPONENT_ARM_DISARM of another system.  What should refuse it as
\* long as the preflight check fails, (!hil_state) != HIL_STATE_ON, does so in
\* HIL only.
ArmDisarmCommand ==
    /\ Main
    /\ hil_state = "ON" => sensors_initialized
    /\ \E arm \in BOOLEAN : MainTransition(Requested(arm))
    /\ UNCHANGED <<hil_state, safety_on, switching, used>>

\* The same command of the vehicle itself, sent by px4io after a restart in the
\* air.
InAirRestore ==
    /\ Main
    /\ Transition("ARMED", "IN_AIR_RESTORE", hil_state, safety_on)
    /\ used' = used \cup {"restore"}
    /\ UNCHANGED <<hil_state, safety_on, switching>>

\* Mutant: HIL may be switched on in any state.
SetModeArmed ==
    /\ Main
    /\ \E arm \in BOOLEAN, hil \in {"OFF", "ON"} :
          IF hil = "ON" /\ hil_state = "OFF"
            THEN switching' = Requested(arm) /\ UNCHANGED <<status, checks>>
            ELSE MainTransition(Requested(arm)) /\ UNCHANGED switching
    /\ UNCHANGED <<hil_state, safety_on, used>>

\* VEHICLE_CMD_DO_SET_MODE: hil_state_transition(), then arm_disarm() whatever
\* came of it.
SetMode ==
    /\ Main
    /\ \E arm \in BOOLEAN, hil \in {"OFF", "ON"} :
          IF hil = "ON" /\ hil_state = "OFF"
                 /\ arming_state \in {"INIT", "STANDBY", "STANDBY_ERROR"}
            THEN switching' = Requested(arm) /\ UNCHANGED <<status, checks>>
            ELSE MainTransition(Requested(arm)) /\ UNCHANGED switching
    /\ UNCHANGED <<hil_state, safety_on, used>>

\* In every iteration with a valid remote control: the kill switch, if there is
\* one, locks the motors or unlocks them, whatever locked them.
KillSwitch ==
    /\ Main
    /\ \E kill_switch \in {"ON", "OFF"} : lockdown' = (kill_switch = "ON")
    /\ UNCHANGED <<arming_state, armed, ready_to_arm, checks, hil_state, safety_on,
                   switching, used>>

\* VEHICLE_CMD_DO_FLIGHTTERMINATION with a param1 above 1.5 or up to 0.5; in
\* between it is about the failsafe only.
FlightTermination ==
    /\ Main
    /\ \E terminate \in BOOLEAN : lockdown' = terminate
    /\ UNCHANGED <<arming_state, armed, ready_to_arm, checks, hil_state, safety_on,
                   switching, used>>

\* The devices are blocked, or could not be listed.
HilSwitched ==
    /\ switching # "no"
    /\ switching' = "no"
    /\ hil_state' \in {"OFF", "ON"}
    /\ Transition(switching, arming_state, hil_state', safety_on)
    /\ UNCHANGED <<calibration_enabled, safety_on, low, call, problems, used>>

(***************************************************************************)
(* A console: `commander arm', `commander disarm'.                         *)
(***************************************************************************)
Console == UNCHANGED <<hil_state, calibration_enabled, safety_on, switching, low, problems>>

ConsoleRequest(c) ==
    /\ call[c] = NoCall
    /\ \E new \in {"ARMED", "STANDBY"} :
          /\ new # arming_state
          /\ call' = [call EXCEPT ![c] = [new |-> new,
                          failed |-> CheckFails(new, hil_state, TRUE)]]
          /\ LET after == ChecksAfter(new, hil_state)
             IN  /\ sensors_initialized' = after.initialized
                 /\ last_prearm_ret' = after.last
                 /\ recently_checked' = after.recent
    /\ used' = used \cup {"console"}
    /\ Console /\ UNCHANGED status

ConsoleUpdate(c) ==
    /\ call[c] # NoCall
    /\ Update(call[c].new, arming_state, hil_state, call[c].failed, sensors_initialized,
              safety_on)
    /\ call' = [call EXCEPT ![c] = NoCall]
    /\ Console /\ UNCHANGED <<last_prearm_ret, recently_checked, used>>

(***************************************************************************)
(* The low-priority loop.  Calibration first goes to INIT, and to STANDBY  *)
(* when it has succeeded.                                                  *)
(***************************************************************************)
Low(here, there) ==
    /\ \A c \in Consoles : call[c] = NoCall
    /\ low = here /\ low' = there
    /\ UNCHANGED <<hil_state, safety_on, switching, call, problems>>

\* VEHICLE_CMD_PREFLIGHT_CALIBRATION, which goes on when the state is INIT
\* already; a transition to INIT makes no checks, so that its halves are one.
CalibrationRefused == ~Valid("INIT", Recovered(arming_state, hil_state), hil_state, FALSE, FALSE, FALSE)

Calibrate ==
    /\ arming_state # "INIT"
    /\ Low("idle", IF CalibrationRefused THEN "idle" ELSE "enable")
    /\ Update("INIT", arming_state, hil_state, FALSE, sensors_initialized, safety_on)
    /\ used' = used \cup {"calibration"}
    /\ UNCHANGED <<calibration_enabled, last_prearm_ret, recently_checked>>

CalibrateInInit ==
    /\ arming_state = "INIT"
    /\ Low("idle", "enable")
    /\ used' = used \cup {"calibration"}
    /\ UNCHANGED <<status, calibration_enabled, checks>>

EnableCalibration ==
    /\ Low("enable", "calibrating")
    /\ calibration_enabled' = TRUE
    /\ UNCHANGED <<status, checks, used>>

\* Mutant: a failed calibration leaves its flag set.
FailsEnabled ==
    /\ Low("calibrating", "idle")
    /\ UNCHANGED <<status, checks, calibration_enabled, used>>

CalibrationFails ==
    /\ Low("calibrating", "idle")
    /\ calibration_enabled' = FALSE
    /\ UNCHANGED <<status, checks, used>>

CalibrationSucceeds ==
    /\ Low("calibrating", "check")
    /\ calibration_enabled' = FALSE
    /\ UNCHANGED <<status, checks, used>>

CheckCalibrated ==
    /\ Low("check", "standby")
    /\ sensors_initialized' = ("sensors" \notin problems)
    /\ UNCHANGED <<status, calibration_enabled, last_prearm_ret, recently_checked, used>>

\* The two halves of the transition to STANDBY; its pre-arm check is not asked
\* for and its preflight check does not decide over STANDBY.
RequestStandby ==
    LET after == ChecksAfter("STANDBY", hil_state)
    IN  /\ Low("standby", IF arming_state = "STANDBY" THEN "idle" ELSE "update")
        /\ IF arming_state = "STANDBY"
             THEN UNCHANGED checks
             ELSE /\ sensors_initialized' = after.initialized
                  /\ last_prearm_ret' = after.last
                  /\ recently_checked' = after.recent
        /\ UNCHANGED <<status, calibration_enabled, used>>

EnterStandby ==
    /\ Low("update", "idle")
    /\ Update("STANDBY", arming_state, hil_state, FALSE, sensors_initialized, safety_on)
    /\ UNCHANGED <<calibration_enabled, last_prearm_ret, recently_checked, used>>

\* VEHICLE_CMD_PREFLIGHT_REBOOT_SHUTDOWN: is_safe(), then 100 ms for the answer
\* to be sent, then the reset.
IsSafe == ~armed \/ lockdown \/ safety_on

RequestReboot ==
    /\ IsSafe
    /\ Low("idle", "reboot")
    /\ UNCHANGED <<status, checks, calibration_enabled, used>>

Reboot ==
    /\ low = "reboot"
    /\ \A c \in Consoles : call[c] = NoCall
    /\ arming_state' = "INIT" /\ hil_state' \in {"OFF", "ON"}
    /\ armed' = FALSE /\ lockdown' = FALSE /\ ready_to_arm' = FALSE
    /\ sensors_initialized' = ("sensors" \notin problems)
    /\ calibration_enabled' = FALSE
    /\ last_prearm_ret' = TRUE /\ recently_checked' = FALSE
    /\ safety_on' = FALSE
    /\ switching' = "no"
    /\ low' = "idle"
    /\ used' = {}
    /\ UNCHANGED <<call, problems>>

(***************************************************************************)
(* Surroundings.                                                           *)
(***************************************************************************)
ProblemsChange ==
    /\ problems' \in SUBSET Problems
    /\ UNCHANGED <<status, hil_state, checks, calibration_enabled, safety_on, switching,
                   low, call, used>>

\* A second has passed since the last preflight check.
Tick ==
    /\ recently_checked
    /\ recently_checked' = FALSE
    /\ UNCHANGED <<status, hil_state, sensors_initialized, last_prearm_ret,
                   calibration_enabled, safety_on, switching, low, call, problems, used>>

Next ==
    \/ SafetyUpdate \/ ProceedToStandby \/ StickDisarm \/ StickArm \/ AutoDisarm
    \/ MissionStart \/ ArmDisarmCommand \/ InAirRestore \/ SetMode \/ HilSwitched
    \/ KillSwitch \/ FlightTermination
    \/ \E c \in Consoles : ConsoleRequest(c) \/ ConsoleUpdate(c)
    \/ Calibrate \/ CalibrateInInit \/ EnableCalibration \/ CalibrationFails
    \/ CalibrationSucceeds \/ CheckCalibrated \/ RequestStandby \/ EnterStandby
    \/ RequestReboot \/ Reboot
    \/ ProblemsChange \/ Tick

Spec == Init /\ [][Next]_vars

\* The main loop comes by the test of INIT in every iteration, whatever else it
\* does there, a switch to HIL included; and time passes.
Fairness ==
    /\ SF_vars(ProceedToStandby)
    /\ WF_vars(HilSwitched)
    /\ WF_vars(Tick)

FairSpec == Spec /\ Fairness

(***************************************************************************)
(* Properties.                                                             *)
(***************************************************************************)
\* Whoever arms, disarms and switches to HIL: no vehicle comes to be armed on
\* simulated sensors without its motors being locked ("enforce lockdown in HIL"),
\* but by a kill switch that is off or the end of a flight termination, which
\* unlock the motors in HIL too.  A console that arms while the devices are being
\* blocked escapes this.
Loose == hil_state = "ON" /\ armed /\ ~lockdown

HilIsLocked ==
    [][Loose' /\ ~Loose /\ "console" \notin used' => KillSwitch \/ FlightTermination]_vars

\* Out of HIL, no vehicle is armed with the safety switch on: the switch keeps it
\* from being armed and disarms it, which no failing sensor may prevent.  Arming
\* again in the air does not ask the switch, and after a calibration it may be
\* refused.
SafetySwitchDisarms ==
    hil_state = "OFF" /\ safety_on /\ used \subseteq {"console"} => ~armed

\* A step of the main loop that arms the vehicle out of HIL, and not again in the
\* air, finds nothing that the pre-arm check looks for.
ArmsUnchecked ==
    /\ armed' /\ ~armed /\ hil_state' = "OFF" /\ arming_state # "IN_AIR_RESTORE"
    /\ "console" \notin used' /\ "restore" \notin used'
    /\ problems # {}

\* The preflight check that is made again while sensors fail, or its result, kept
\* for a second, never stands in for the pre-arm check; it does once a console
\* asks to arm in INIT, or a calibration fails the sensors in STANDBY.
ArmingIsChecked == [][used' = {} => ~ArmsUnchecked]_vars

\* An armed vehicle is disarmed to STANDBY, whoever does it and however the
\* steps of a calibration come between: only a reset takes it back to INIT, and
\* none of the states for failures is ever entered.
ArmedGoesToStandby ==
    [][arming_state = "ARMED" /\ low # "reboot" =>
          arming_state' \in {"ARMED", "STANDBY"}]_vars

\* What keeps the vehicle in INIT is up while the low-priority loop calibrates
\* and at no other time, however the calibration ends.
InitIsHeldByCalibration == calibration_enabled <=> low = "calibrating"

\* A healthy vehicle that is not being calibrated gets out of INIT.
LeavesInit ==
    <>[](problems = {} /\ low = "idle") => []<>(arming_state # "INIT")
===============================================================================
