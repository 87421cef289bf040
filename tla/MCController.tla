---------------------------- MODULE MCController ----------------------------
(* Controller with two coroutines and three transports.                     *)
EXTENDS Controller

AllCommands == Starts \cup Stops
AllFaults == {"load", "build", "bind", "controls", "stop", "cancel"}
=============================================================================
