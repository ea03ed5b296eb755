------------------------ MODULE MCCapabilityGateway ------------------------
(* Small instances of CapabilityGateway for TLC.                           *)
EXTENDS CapabilityGateway

v1 == [core |-> 1, runtime |-> 1]
v2 == [core |-> 1, runtime |-> 2]

MCInstallations == {v1, v2}

MCBindings == [pins : MCInstallations, inputs : {"in", "other"}, deps : 1..2]

\* Two dialogues, and a validator that may end the run early or fail it.
AskTwiceSteps == <<"dialogue", "dialogue", "validate">>
AskTwiceGate == <<0, 0, 0>>

Symmetry == Permutations(Drivers)
=============================================================================
