--------------------------- MODULE MCNotifications ----------------------------
(* An instance of Notifications for TLC.                                       *)
EXTENDS Notifications

CONSTANT e1
OneCode == {e1}
=============================================================================
