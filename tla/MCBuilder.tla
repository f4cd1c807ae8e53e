----------------------------- MODULE MCBuilder -----------------------------
(* Two jobs that compete for one permit, and one follower of the first one, *)
(* the only one whose cargo prints.                                         *)
EXTENDS Builder

CONSTANT Lines
MCLines == [j \in Jobs |-> IF j \in Watched THEN Lines ELSE 0]
=============================================================================
