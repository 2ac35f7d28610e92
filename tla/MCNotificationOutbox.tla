------------------------ MODULE MCNotificationOutbox ------------------------
(* Instances of NotificationOutbox for TLC; the other constants are in the   *)
(* .cfg files.                                                               *)
EXTENDS NotificationOutbox, TLC

\* An external channel first, so that its failure hides the in-app one.
ExternalThenInApp == <<"external", "in_app">>
OneExternal == <<"external">>

Symmetry == Permutations(Notifiers) \cup Permutations(Events)
=============================================================================
