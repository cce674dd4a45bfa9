--------------------------- MODULE SignalContract ---------------------------
(***************************************************************************)
(* What class Signal (signalconnection.cc) promises the rest of the        *)
(* library about the one websocket connection to the signal server.        *)
(*                                                                         *)
(*   sig = "idle"     no connection and no attempt (con_closed, no timer)  *)
(*         "trying"   Connect() was called: con_opening, or con_closed     *)
(*                    with the reconnection timer armed                    *)
(*         "opened"   con_opened, commands can be sent                     *)
(*         "closing"  SyncClose() was called and joins the network thread  *)
(*   notified         SignalOnClosed_ was raised for the last attempt      *)
(***************************************************************************)
VARIABLES sig, notified

sigVars == <<sig, notified>>

SigTypeOK == /\ sig \in {"idle", "trying", "opened", "closing"}
             /\ notified \in BOOLEAN

SigInit == sig = "idle" /\ notified = FALSE

(* Signal::Open and Connect: an opened connection is left alone, an        *)
(* attempt under way is left alone or, between two tries, started again.   *)
SigConnect == /\ sig # "closing"
              /\ sig' = IF sig = "opened" THEN "opened" ELSE "trying"
              /\ notified' = IF sig = "idle" THEN FALSE ELSE notified

(* Signal::OnOpen.                                                         *)
SigOpened == sig = "trying" /\ sig' = "opened" /\ UNCHANGED notified

(* Signal::OnFail with the attempts used up: SignalOnClosed_ is raised.    *)
SigFailed == sig = "trying" /\ sig' = "idle" /\ notified' = TRUE

(* Signal::OnClose with a code other than normal: SignalOnClosed_.         *)
SigLost == sig = "opened" /\ sig' = "idle" /\ notified' = TRUE

(* Nobody is told: Signal::OnClose with code normal sent by the server, or *)
(* an attempt whose url ConnectInternal refuses, or one that a SyncClose   *)
(* meant for the connection before it has stopped.                         *)
SigDropped == sig \in {"trying", "opened"} /\ sig' = "idle" /\ UNCHANGED notified

(* Signal::SyncClose of an opened connection, up to the join.              *)
SigSyncClose == sig = "opened" /\ sig' = "closing" /\ UNCHANGED notified

(* The close handshake ends, normally or by its timeout (which is raised), *)
(* the network thread returns and so does the join in SyncClose.           *)
SigClosed(raise) == /\ sig = "closing"
                    /\ sig' = "idle"
                    /\ notified' = (notified \/ raise)

SigNext == \/ SigConnect \/ SigOpened \/ SigFailed \/ SigLost \/ SigDropped
           \/ SigSyncClose
           \/ \E raise \in BOOLEAN : SigClosed(raise)

SigSpec == SigInit /\ [][SigNext]_sigVars
=============================================================================
