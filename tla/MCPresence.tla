----------------------------- MODULE MCPresence -----------------------------
EXTENDS Presence

CONSTANTS a, b

MCUid   == {a, b}
MCWatch == {<<a, b>>, <<b, a>>, <<b, b>>}
=============================================================================
