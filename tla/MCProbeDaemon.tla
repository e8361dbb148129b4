------------------------------ MODULE MCProbeDaemon ------------------------------
(***************************************************************************)
(* Values of the constants of ProbeDaemon for the model checker.           *)
(***************************************************************************)
EXTENDS ProbeDaemon

Tcp4  == [dst |-> "hk", ver |-> 4, proto |-> "tcp_synack"]
Icmp4 == [dst |-> "hk", ver |-> 4, proto |-> "icmp"]
Icmp6 == [dst |-> "hk", ver |-> 6, proto |-> "icmp"]

MCMixed   == <<Tcp4, Icmp4>>
MCTcp     == <<Tcp4>>
MCBothIcmp == <<Icmp4, Icmp6>>

(* The cursor starts below its width, so that the run sees it wrap.        *)
MCStart == {TcpSeqSpace - 1}

=============================================================================
