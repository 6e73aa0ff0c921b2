---------------------------- MODULE MCOpenLogWriter ----------------------------
(***************************************************************************)
(* Small instances of OpenLogWriter: two processes, two keys, and the      *)
(* three ways the writer is configured.                                    *)
(***************************************************************************)
EXTENDS OpenLogWriter

CONSTANTS k1, k2, P1, P2

\* Self-pinned local trust (the default), keys given by the deployment, and the
\* local default with adoption of legacy chains.
LocalTrust == [trustedKeys |-> None, bootstrap |-> TRUE, adoption |-> FALSE]
GivenTrust == [trustedKeys |-> {k1}, bootstrap |-> FALSE, adoption |-> FALSE]
Adopting   == [trustedKeys |-> None, bootstrap |-> TRUE, adoption |-> TRUE]

AllConfigs   == {LocalTrust, GivenTrust, Adopting}
LocalConfigs == {LocalTrust}
=============================================================================
