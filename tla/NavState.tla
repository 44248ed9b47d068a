------------------------------ MODULE NavState --------------------------------
(***************************************************************************)
(* The modes of the commander: main_state_transition() decides which main  *)
(* state a pilot or a command may enter, and set_nav_state() decides in    *)
(* every iteration which navigation state is flown: that of the main state *)
(* or, in a failsafe, one that the remaining estimates still support.      *)
(* Both are functions of the flags s of the commander.                     *)
(***************************************************************************)
EXTENDS Naturals, TLAPS

\* s.gpos, s.home, s.lpos, s.alt are the condition_..._valid of the global
\* position, home position, local position and local altitude; the actions on
\* loss of the offboard signal are parameters, and 9 stands for one out of range.
Flags == {"armed", "is_rotary_wing", "landed", "gpos", "home", "lpos", "alt",
          "rc_loss_enabled", "rc_signal_lost", "rc_signal_lost_cmd",
          "data_link_loss_enabled", "data_link_lost", "data_link_lost_cmd",
          "gps_failure", "gps_failure_cmd", "engine_failure", "engine_failure_cmd",
          "vtol_failure", "vtol_failure_cmd", "mission_failure", "mission_finished",
          "stay_in_failsafe", "offboard_lost", "offboard_timeout"}

MainStates == {"ACRO", "MANUAL", "RATTITUDE", "STAB", "ALTCTL", "POSCTL", "AUTO_MISSION",
               "AUTO_LOITER", "AUTO_RTL", "AUTO_FOLLOW_TARGET", "AUTO_TAKEOFF",
               "AUTO_LAND", "OFFBOARD"}

\* A navigation state has the name of the main state that it is flown in;
\* besides these there are those of failsafes.
NavStates == MainStates \cup
    {"AUTO_RCRECOVER", "AUTO_RTGS", "AUTO_LANDENGFAIL", "DESCEND", "TERMINATION"}

Input == [on : SUBSET Flags, main_state : MainStates, nav_state : NavStates,
          offb_loss_act : {0, 1, 2, 9}, offb_loss_rc_act : {0, 1, 2, 3, 4, 9}]

(***************************************************************************)
(* main_state_transition()                                                 *)
(***************************************************************************)
MainStateAllowed(s, new) ==
    CASE new \in {"MANUAL", "STAB"} -> TRUE
      [] new \in {"ACRO", "RATTITUDE"} -> "is_rotary_wing" \in s.on
      [] new = "ALTCTL" -> {"alt", "gpos"} \cap s.on # {}
      [] new = "POSCTL" -> {"lpos", "gpos"} \cap s.on # {}
      [] new = "AUTO_LOITER" -> "gpos" \in s.on
      [] new = "OFFBOARD" -> "offboard_lost" \notin s.on
      [] OTHER -> {"gpos", "home"} \subseteq s.on

(***************************************************************************)
(* set_nav_state(): the navigation state and status.failsafe.              *)
(***************************************************************************)
Fly(nav) == [nav_state |-> nav, failsafe |-> FALSE]
Failsafe(nav) == [nav_state |-> nav, failsafe |-> TRUE]

\* What is left without a position, without an estimate at all, ...
DescendAtLeast(s) == IF "alt" \in s.on THEN "DESCEND" ELSE "TERMINATION"
LandAtLeast(s) == IF "lpos" \in s.on THEN "AUTO_LAND" ELSE DescendAtLeast(s)

\* ... and before that.
ReturnAtLeast(s, best) ==
    IF {"gpos", "home"} \subseteq s.on THEN best ELSE LandAtLeast(s)

RcLost(s) ==
    /\ {"rc_loss_enabled", "armed"} \subseteq s.on
    /\ {"rc_signal_lost", "rc_signal_lost_cmd"} \cap s.on # {}

ManualModes(s) ==
    IF RcLost(s) THEN Failsafe(ReturnAtLeast(s, "AUTO_RCRECOVER")) ELSE Fly(s.main_state)

\* As long as there is RC, fall back to ALTCTL or STAB; a fixed wing needs a
\* global position.
Posctl(s) ==
    LET positioned == (IF "is_rotary_wing" \in s.on THEN "lpos" ELSE "gpos") \in s.on
    IN  CASE RcLost(s) /\ "gps_failure" \in s.on -> Failsafe(DescendAtLeast(s))
          [] RcLost(s) /\ "gps_failure" \notin s.on ->
               Failsafe(ReturnAtLeast(s, "AUTO_RCRECOVER"))
          [] ~RcLost(s) /\ "armed" \in s.on /\ ~positioned ->
               Failsafe(IF "alt" \in s.on THEN "ALTCTL" ELSE "STAB")
          [] OTHER -> Fly("POSCTL")

\* Commands come before failures and failures before lost links; a mission that
\* should stay in failsafe stays in the state it is in.
AutoMission(s) ==
    IF "engine_failure_cmd" \in s.on THEN Fly("AUTO_LANDENGFAIL")
    ELSE IF "data_link_lost_cmd" \in s.on THEN Fly("AUTO_RTGS")
    ELSE IF "gps_failure_cmd" \in s.on THEN Failsafe("DESCEND")
    ELSE IF "rc_signal_lost_cmd" \in s.on THEN Fly("AUTO_RCRECOVER")
    ELSE IF "vtol_failure_cmd" \in s.on THEN Fly("AUTO_RTL")
    ELSE IF "gps_failure" \in s.on THEN Failsafe("DESCEND")
    ELSE IF "engine_failure" \in s.on THEN Fly("AUTO_LANDENGFAIL")
    ELSE IF {"vtol_failure", "mission_failure"} \cap s.on # {} THEN Fly("AUTO_RTL")
    ELSE IF {"data_link_loss_enabled", "data_link_lost"} \subseteq s.on
      THEN Failsafe(ReturnAtLeast(s, "AUTO_RTGS"))
    ELSE IF /\ {"data_link_loss_enabled", "landed"} \cap s.on = {}
            /\ {"rc_signal_lost", "data_link_lost", "mission_finished"} \subseteq s.on
      THEN Failsafe(ReturnAtLeast(s, "AUTO_RCRECOVER"))
    ELSE Fly(IF "stay_in_failsafe" \in s.on THEN s.nav_state ELSE "AUTO_MISSION")

AutoLoiter(s) ==
    IF "engine_failure" \in s.on THEN Fly("AUTO_LANDENGFAIL")
    ELSE IF "gps_failure" \in s.on THEN Failsafe("DESCEND")
    ELSE IF \/ {"data_link_lost", "data_link_loss_enabled"} \subseteq s.on
            \/ /\ {"rc_signal_lost", "rc_loss_enabled"} \subseteq s.on
               /\ "data_link_loss_enabled" \notin s.on
      THEN Failsafe(ReturnAtLeast(s, "AUTO_RTGS"))
    ELSE Fly("AUTO_LOITER")

AutoRtl(s) ==
    IF "engine_failure" \in s.on THEN Fly("AUTO_LANDENGFAIL")
    ELSE IF "gps_failure" \in s.on THEN Failsafe("DESCEND")
    ELSE IF ~({"gpos", "home"} \subseteq s.on) THEN Failsafe(LandAtLeast(s))
    ELSE Fly("AUTO_RTL")

AutoFollowTarget(s) ==
    IF "engine_failure" \in s.on THEN Fly("AUTO_LANDENGFAIL")
    ELSE IF "gpos" \notin s.on THEN Failsafe(LandAtLeast(s))
    ELSE Fly("AUTO_FOLLOW_TARGET")

\* A landing falls back to less than a takeoff.
AutoTakeoffOrLand(s) ==
    IF "engine_failure" \in s.on THEN Fly("AUTO_LANDENGFAIL")
    ELSE IF "gps_failure" \in s.on \/ ~({"gpos", "home"} \subseteq s.on)
      THEN Failsafe(IF s.main_state = "AUTO_LAND" THEN DescendAtLeast(s) ELSE LandAtLeast(s))
    ELSE Fly(s.main_state)

\* Without the offboard signal: after the timeout the action of the parameter,
\* with RC or without, if the estimates support it; before it, hold on.
OffboardLostWithRc(s) ==
    IF "offboard_timeout" \in s.on /\ s.offb_loss_rc_act # 9
      THEN CASE s.offb_loss_rc_act = 3 /\ {"gpos", "home"} \subseteq s.on -> "AUTO_RTL"
             [] s.offb_loss_rc_act = 0 /\ "gpos" \in s.on -> "POSCTL"
             [] s.offb_loss_rc_act = 1 /\ "alt" \in s.on -> "ALTCTL"
             [] s.offb_loss_rc_act = 2 -> "MANUAL"
             [] s.offb_loss_rc_act = 4 /\ "gpos" \in s.on -> "AUTO_LAND"
             [] OTHER -> DescendAtLeast(s)
    ELSE IF "gpos" \in s.on THEN "POSCTL"
    ELSE IF "alt" \in s.on THEN "ALTCTL"
    ELSE "TERMINATION"

OffboardLostWithoutRc(s) ==
    IF "offboard_timeout" \in s.on /\ s.offb_loss_act # 9
      THEN CASE s.offb_loss_act = 2 /\ {"gpos", "home"} \subseteq s.on -> "AUTO_RTL"
             [] s.offb_loss_act = 1 /\ "gpos" \in s.on -> "AUTO_LOITER"
             [] s.offb_loss_act = 0 /\ "gpos" \in s.on -> "AUTO_LAND"
             [] OTHER -> DescendAtLeast(s)
    ELSE IF "gpos" \in s.on THEN "AUTO_LOITER"
    ELSE DescendAtLeast(s)

Offboard(s) ==
    CASE "offboard_lost" \notin s.on -> Fly("OFFBOARD")
      [] "offboard_lost" \in s.on /\ "rc_signal_lost" \notin s.on ->
           Failsafe(OffboardLostWithRc(s))
      [] OTHER -> Failsafe(OffboardLostWithoutRc(s))

SetNavState(s) ==
    CASE s.main_state = "POSCTL" -> Posctl(s)
      [] s.main_state = "AUTO_MISSION" -> AutoMission(s)
      [] s.main_state = "AUTO_LOITER" -> AutoLoiter(s)
      [] s.main_state = "AUTO_RTL" -> AutoRtl(s)
      [] s.main_state = "AUTO_FOLLOW_TARGET" -> AutoFollowTarget(s)
      [] s.main_state \in {"AUTO_TAKEOFF", "AUTO_LAND"} -> AutoTakeoffOrLand(s)
      [] s.main_state = "OFFBOARD" -> Offboard(s)
      [] OTHER -> ManualModes(s)

(***************************************************************************)
(* Properties of the two functions, for every combination of flags.        *)
(***************************************************************************)
\* What a navigation state needs to be flown.
Supported(s, nav) ==
    /\ nav \in {"AUTO_RTL", "AUTO_RCRECOVER", "AUTO_RTGS"} => {"gpos", "home"} \subseteq s.on
    /\ nav \in {"AUTO_LOITER", "POSCTL"} => "gpos" \in s.on
    /\ nav = "AUTO_LAND" => {"gpos", "lpos"} \cap s.on # {}
    /\ nav = "ALTCTL" => "alt" \in s.on

FallsBackTo(s, nav) ==
    Supported(s, nav) /\ (nav = "TERMINATION" => "alt" \notin s.on)

\* Signals and failures that have an influence.
Trouble == Flags \ {"armed", "is_rotary_wing", "gpos", "home", "lpos", "alt",
                    "rc_loss_enabled", "data_link_loss_enabled", "landed",
                    "offboard_timeout", "mission_finished"}

LEMMA Ladder ==
    ASSUME NEW s \in Input
    PROVE  /\ FallsBackTo(s, DescendAtLeast(s))
           /\ FallsBackTo(s, LandAtLeast(s))
           /\ \A best \in {"AUTO_RCRECOVER", "AUTO_RTGS"} : FallsBackTo(s, ReturnAtLeast(s, best))
  BY DEF FallsBackTo, Supported, DescendAtLeast, LandAtLeast, ReturnAtLeast

LEMMA OffboardLadder ==
    ASSUME NEW s \in Input
    PROVE  FallsBackTo(s, OffboardLostWithRc(s)) /\ FallsBackTo(s, OffboardLostWithoutRc(s))
  BY Ladder DEF OffboardLostWithRc, OffboardLostWithoutRc, FallsBackTo, Supported,
                DescendAtLeast

\* A decision that is a failsafe falls back to what is left.
Sound(s, next) == next.failsafe => FallsBackTo(s, next.nav_state)

\* Whatever fails, a failsafe never falls back to a state that needs more than
\* what is left, and terminates the flight only when not even an altitude is;
\* eight groups of main states decide this in code of their own.
THEOREM FailsafeIsSupported ==
    ASSUME NEW s \in Input
    PROVE  Sound(s, SetNavState(s))
<1>1. \A nav : Sound(s, Fly(nav))
  BY DEF Sound, Fly
<1>2. \A nav : FallsBackTo(s, nav) => Sound(s, Failsafe(nav))
  BY DEF Sound, Failsafe
<1>3. /\ Sound(s, Failsafe(DescendAtLeast(s))) /\ Sound(s, Failsafe(LandAtLeast(s)))
      /\ Sound(s, Failsafe(ReturnAtLeast(s, "AUTO_RCRECOVER")))
      /\ Sound(s, Failsafe(ReturnAtLeast(s, "AUTO_RTGS")))
      /\ Sound(s, Failsafe("DESCEND"))
      /\ Sound(s, Failsafe(IF "alt" \in s.on THEN "ALTCTL" ELSE "STAB"))
      /\ Sound(s, Failsafe(OffboardLostWithRc(s)))
      /\ Sound(s, Failsafe(OffboardLostWithoutRc(s)))
  <2>1. FallsBackTo(s, "DESCEND") /\ FallsBackTo(s, IF "alt" \in s.on THEN "ALTCTL" ELSE "STAB")
    BY DEF FallsBackTo, Supported
  <2> QED
    BY <1>2, <2>1, Ladder, OffboardLadder
<1>4. Sound(s, ManualModes(s))
  BY <1>1, <1>3 DEF ManualModes
<1>5. Sound(s, Posctl(s))
  BY <1>1, <1>3 DEF Posctl
<1>6. Sound(s, AutoMission(s))
  BY <1>1, <1>3 DEF AutoMission
<1>7. Sound(s, AutoLoiter(s))
  BY <1>1, <1>3 DEF AutoLoiter
<1>8. Sound(s, AutoRtl(s))
  BY <1>1, <1>3 DEF AutoRtl
<1>9. Sound(s, AutoFollowTarget(s))
  BY <1>1, <1>3 DEF AutoFollowTarget
<1>10. Sound(s, AutoTakeoffOrLand(s))
  BY <1>1, <1>3 DEF AutoTakeoffOrLand
<1>11. Sound(s, Offboard(s))
  BY <1>1, <1>3 DEF Offboard
<1> QED
  BY <1>4, <1>5, <1>6, <1>7, <1>8, <1>9, <1>10, <1>11 DEF SetNavState

\* A main state that main_state_transition() lets in is the one that
\* set_nav_state() flies, as long as nothing fails: the two decide by conditions
\* of their own.  They differ over a vehicle in POSCTL with the other of the two
\* positions only, which is let in and at once in failsafe once it is armed.
THEOREM AcceptedModeIsFlown ==
    ASSUME NEW s \in Input,
           MainStateAllowed(s, s.main_state),
           Trouble \cap s.on = {},
           s.main_state = "POSCTL" =>
               IF "is_rotary_wing" \in s.on THEN "lpos" \in s.on ELSE "gpos" \in s.on
    PROVE  SetNavState(s) = Fly(s.main_state)
<1>1. \A f \in Trouble : f \notin s.on
  OBVIOUS
<1>2. ~RcLost(s)
  BY <1>1 DEF RcLost, Trouble, Flags
<1>3. /\ "engine_failure" \notin s.on /\ "engine_failure_cmd" \notin s.on
      /\ "gps_failure" \notin s.on /\ "gps_failure_cmd" \notin s.on
      /\ "vtol_failure" \notin s.on /\ "vtol_failure_cmd" \notin s.on
      /\ "mission_failure" \notin s.on /\ "stay_in_failsafe" \notin s.on
      /\ "data_link_lost" \notin s.on /\ "data_link_lost_cmd" \notin s.on
      /\ "rc_signal_lost" \notin s.on /\ "rc_signal_lost_cmd" \notin s.on
      /\ "offboard_lost" \notin s.on
  BY <1>1 DEF Trouble, Flags
<1>4. CASE s.main_state = "POSCTL"
  BY <1>2, <1>4 DEF SetNavState, Posctl
<1>5. CASE s.main_state = "AUTO_MISSION"
  BY <1>3, <1>5 DEF SetNavState, AutoMission
<1>6. CASE s.main_state = "AUTO_LOITER"
  BY <1>3, <1>6 DEF SetNavState, AutoLoiter
<1>7. CASE s.main_state = "AUTO_RTL"
  BY <1>3, <1>7 DEF SetNavState, AutoRtl, MainStateAllowed
<1>8. CASE s.main_state = "AUTO_FOLLOW_TARGET"
  BY <1>3, <1>8 DEF SetNavState, AutoFollowTarget, MainStateAllowed
<1>9. CASE s.main_state \in {"AUTO_TAKEOFF", "AUTO_LAND"}
  BY <1>3, <1>9 DEF SetNavState, AutoTakeoffOrLand, MainStateAllowed
<1>10. CASE s.main_state = "OFFBOARD"
  BY <1>3, <1>10 DEF SetNavState, Offboard
<1>11. CASE s.main_state \in {"ACRO", "MANUAL", "RATTITUDE", "STAB", "ALTCTL"}
  BY <1>2, <1>11 DEF SetNavState, ManualModes
<1> QED
  BY <1>4, <1>5, <1>6, <1>7, <1>8, <1>9, <1>10, <1>11 DEF Input, MainStates
===============================================================================
