----------------------------- MODULE MCProcess ------------------------------
(* A small instance of Process for TLC. *)
EXTENDS Process

\* The deployed configuration, scaled down, and one without delay and timeout.
SSHConfigs ==
    {[Retries |-> 2, DelaySeconds |-> 1, TimeoutSeconds |-> 1],
     [Retries |-> 1, DelaySeconds |-> 0, TimeoutSeconds |-> 0]}
=============================================================================
