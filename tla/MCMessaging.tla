----------------------------- MODULE MCMessaging ----------------------------
EXTENDS Messaging

CONSTANTS b, b1

MCUID     == {b, b1}
MCDevices == <<b, b1>>
=============================================================================
