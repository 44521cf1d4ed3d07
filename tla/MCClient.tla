------------------------------ MODULE MCClient ------------------------------
(***************************************************************************)
(* Instances of Client for TLC.                                            *)
(***************************************************************************)
EXTENDS ClientProperties, TLC

\* m_max_reconnects when the application asks for no limit.
Unlimited == -1

\* Commands and application threads are interchangeable.
Symmetry == Permutations(Cmds) \cup Permutations(Users)
=============================================================================
