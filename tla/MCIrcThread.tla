------------------------------ MODULE MCIrcThread ------------------------------
(* Two networks and two addresses, so that a session may be given the address
   another one had; or one network and three addresses, so that a session may
   have two connections at once (MCIrcThreadAgain.cfg).                        *)
EXTENDS IrcThread
CONSTANTS s1, s2, a1, a2, a3
MCTwo == {s1, s2}
MCOne == {s1}
MCTwoHandles == {a1, a2}
MCThreeHandles == {a1, a2, a3}
=============================================================================
