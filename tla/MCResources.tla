---------------------------- MODULE MCResources ----------------------------
EXTENDS Resources

\* two scales of the network chart
Maxima == <<4, 8>>

DiskSteps == <<2, 4, 8>>   \* for KILO = 2
=============================================================================
