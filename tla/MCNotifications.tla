-------------------------- MODULE MCNotifications --------------------------
EXTENDS Notifications, TLC

CONSTANTS u1

MCRecipient == [m \in Messages |-> u1]
=============================================================================
