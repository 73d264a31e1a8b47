------------------------------ MODULE MCResolver ------------------------------
(* Two servers of one name that differ in the game port only and one with an address,
   three packets: enough for a name to overtake an address, for an answer to find the
   wrong server, for a server to be dropped and listed again while its first packet is
   under way, and for a packet to arrive at every point of the worker's loop.  *)
EXTENDS Resolver
CONSTANTS h1, a1
MCServers == {"one", "other", "address"}
MCHosts == {h1, a1}
MCHostOf == [s \in MCServers |-> IF s = "address" THEN a1 ELSE h1]
MCIPs == {a1}
=============================================================================
