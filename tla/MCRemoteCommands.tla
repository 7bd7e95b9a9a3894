--------------------------- MODULE MCRemoteCommands ---------------------------
(***************************************************************************)
(* Model checking of RemoteCommands: how many buttons are pressed.         *)
(***************************************************************************)
EXTENDS RemoteCommands, TLC

CONSTANTS r1, r2, x1, x2

OneRelease  == {r1}
TwoReleases == {r1, r2}
OneRestart  == {x1}
TwoRestarts == {x1, x2}
NoRequest   == {}

(* The promises to the letter, which the races do not leave standing: a
   release opens the door once, though the door forgets it for another
   (ReleaseTwice.cfg); a restart request goes only once it is honoured, though
   it was made while a handler was about to clear the one before
   (RestartOvertaken.cfg).                                                 *)
NeverTwice == \A r \in Releases : opened[r] <= 1

NeverCleared ==
  [][\A x \in Restarts :
       row.restart = x /\ row'.restart = None => x \in rebooted]_vars

=============================================================================
