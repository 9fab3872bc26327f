-------------------------- MODULE MCSignalGenLink --------------------------
(* Instances of SignalGenLink for TLC.  Limits are scaled down to what TLC  *)
(* can count in these units: 20 kHz, 20 V, 9.99 V, 2 slots of 2 points.     *)
EXTENDS SignalGenLink

MCLimits == [frequency |-> 20000000, amplitude |-> 200000, offset |-> 9990, slots |-> 2, points |-> 2]

MCConfig(shape, slot, frequency, amplitude, offset, duty, enabled) ==
    [shape |-> shape, slot |-> slot, frequency |-> frequency, amplitude |-> amplitude,
     offset |-> offset, duty |-> duty, enabled |-> enabled]

\* Every limit and, in turn, each of them exceeded; what rounding turns to nothing.
MCConfigs ==
    {MCConfig(1, NoSlot, 20000000, 200000, -9990, 3333, TRUE),
     MCConfig(3, 2, 47, 7, 1234, 10000, FALSE),
     MCConfig(0, NoSlot, 4, 10000, 0, 5000, TRUE),
     MCConfig(0, NoSlot, 1000, 10000, -9991, 5000, TRUE),
     MCConfig(0, NoSlot, 20000001, 10000, 0, 5000, TRUE),
     MCConfig(0, 3, 1000, 10000, 0, 5000, TRUE)}

MCWaves == {<<-1000, 333>>, <<0>>}
MCPairs == {[ch \in {1, 2} |-> ch = 1], [ch \in {1, 2} |-> FALSE]}

MCOneConfig == {MCConfig(1, NoSlot, 1000, 10000, 0, 5000, TRUE)}
=============================================================================
