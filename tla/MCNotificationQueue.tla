------------------------ MODULE MCNotificationQueue ------------------------
(***************************************************************************)
(* Instances of NotificationQueue for TLC.                                 *)
(***************************************************************************)
EXTENDS NotificationQueue, TLC

CONSTANTS i1, i2, i3, i4, w1, w2

MCItems == {i1, i2, i3, i4}
MCWorkers == {w1, w2}
=============================================================================
