---------------------------- MODULE MCDepartures ----------------------------
EXTENDS Departures
CONSTANTS a, b, c
MCUsers == {a, b, c}
=============================================================================
