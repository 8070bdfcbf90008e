---------------------------- MODULE KernelProperties ----------------------------
(***************************************************************************)
(* What the flight-control kernel promises across calls, in whatever order *)
(* its caller makes them, and statements of its documents that the code    *)
(* does not keep.                                                          *)
(***************************************************************************)
EXTENDS Kernel

(* The laws that may have written the memory a law finds when it runs.     *)
Authority == [Primary |-> {"Primary", "Alternate"}, Alternate |-> {"Primary", "Alternate"},
              Direct |-> {"Direct"}, Backup |-> {}]

(* LLR-CTL-101: integrators and anti-windup computed under one authority   *)
(* never reach a law with another, and none outlives the flight period:    *)
(* every path into or out of a terminal law resets the controller.         *)
MemoryMatchesLaw ==
    /\ controller \subseteq Authority[control_law]
    /\ controller # {} => init_state = "Armed"

(* A descent always knows why it engaged, and nothing but a descent does:  *)
(* the release in update() and the latch of a commanded land both decide   *)
(* on terminal_cause alone (kernel_types.rs, TerminalCause).               *)
CauseMatchesLaw == (control_law = "Direct") <=> (terminal_cause # "None")

(* LLR-FLT-209: inside a flight period the law gets better in one case     *)
(* only, a descent that engaged for command loss, in a cycle whose command *)
(* is within its timeout again.                                            *)
OnlyCommandLossReleases ==
    [][ (init_state = "Armed" /\ init_state' = "Armed") =>
          \/ severity[control_law'] >= severity[control_law]
          \/ control_law = "Direct" /\ terminal_cause = "CommandLoss" /\ out'.fresh ]_vars

(* LLR-FLT-214: a capability lost in flight refuses every later arm until  *)
(* a ground reset, whatever disarms, terminations, sensor recoveries and   *)
(* fault resets happen in between.                                         *)
NoRearmAfterLoss ==
    [][ (init_state # "Armed" /\ init_state' = "Armed") => lost = {} ]_vars

(* Ready stands on a finished set of checks: every required flag but the   *)
(* throttle's (which its own setter rewrites) is still up, and the sensors *)
(* required to have converged have their samples since the last reset.     *)
ReadyIsChecked ==
    init_state = "Ready" =>
        /\ PreArmRequired \ {"THROTTLE_LOW"} \subseteq pre_arm
        /\ \A k \in DOMAIN ConvergedFlag :
              ConvergedFlag[k] \in PreArmRequired => samples[k] = MinSamples

(* While persistent timing violations do not mask the in-flight checks, a  *)
(* cycle that drives the actuators is armed, under no critical fault, has  *)
(* an attitude to stabilise, runs no loop the estimator does not vouch     *)
(* for, and flies a stale command only as the descent, unless a required   *)
(* position or velocity was lost: the trigger reports one missing flag,    *)
(* and these two rank above the command's (get_degradation_trigger).       *)
ControlIsJustified ==
    (out.pattern = "control" /\ violations < TimingThreshold) =>
        /\ init_state = "Armed"
        /\ faults \cap CRITICAL_FAULTS = {}
        /\ AttitudeValid(est)
        /\ control_law # "Backup"
        /\ ~out.fresh => \/ control_law = "Direct"
                         \/ lost \cap {"PositionLost", "VelocityLost"} # {}
        /\ control_law # "Direct" => required_validity[out.flies] \subseteq ValidFlags(est)

-----------------------------------------------------------------------------
(* A statement of the repository the code does not keep.                   *)

(* HLR-FLT-204: a stale command moves the law to the command-loss terminal *)
(* in the same cycle.                                                      *)
StaleCommandIsNotFlown ==
    (out.pattern = "control" /\ ~out.fresh) => control_law = "Direct"
=============================================================================
