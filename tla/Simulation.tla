----------------------------- MODULE Simulation -----------------------------
(***************************************************************************)
(* The world model's rollouts and the scores made of them, side by side:   *)
(* a composition by conjunction, as neither moves the other's state.  What *)
(* Rollout says of one row's trajectories, wherever the row stands in a    *)
(* batch, is what Scoring takes for granted of the draws of one origin.    *)
(***************************************************************************)
EXTENDS Scoring, Rollout

SimulationSpec == RolloutSpec /\ ScoringSpec

(* A score is of one simulation of one context: the rollout that makes it  *)
(* is row by row the one its heads were trained for, and the benchmark's   *)
(* and serving's ways from it to a score agree (eval/systems.py,           *)
(* serve/predictor.py).                                                    *)
ScoresAreOfOneSimulation == RolloutIsOneSimulation /\ ServedIsMeasured
=============================================================================
