--------------------------- MODULE MCAdaptiveMission ---------------------------
EXTENDS AdaptiveMission

MCFleet == <<"a", "b">>
\* Both can enter lane 3: what is planned at once may collide there.
MCLanes == [a |-> {1, 3}, b |-> {2, 3}]
MCDeployed == [a |-> 1, b |-> 2]

\* Two candidates that meet at 1, and one actuator coordinate that splits once.
MCPartitions == << <<0, 1>>, <<1, 2>> >>
MCAffine == <<0, 4>>
MCSupport == <<2, 4>>

=============================================================================
