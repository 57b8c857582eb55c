------------------------ MODULE MCNotificationOutbox ------------------------
(* Instances of NotificationOutbox.                                           *)
EXTENDS NotificationOutbox

MCStatuses == {"cancelled", "manual_review"}
=============================================================================
