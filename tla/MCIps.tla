-------------------------------- MODULE MCIps --------------------------------
(* Two servers, one client name besides "", three start times around the  *)
(* client's clock.                                                         *)
EXTENDS Ips

MCClients == {"", "alice"}
\* agents started before the client's clock reading (seconds)
StartedBefore == {0, 3539, 3600}
\* the same, plus an agent whose server clock is one second ahead
StartedSkewed == {0, 3600, 3601}
=============================================================================
