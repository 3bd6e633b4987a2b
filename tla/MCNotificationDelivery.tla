----------------------- MODULE MCNotificationDelivery -----------------------
(* Instances of NotificationDelivery. *)
EXTENDS NotificationDelivery
=============================================================================
