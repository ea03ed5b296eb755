-------------------------- MODULE MCPlaybookEngine --------------------------
(* Small instances of PlaybookEngine for TLC.                              *)
EXTENDS PlaybookEngine

v1 == [core |-> 1, runtime |-> 1]
v2 == [core |-> 1, runtime |-> 2]

MCInstallations == {v1, v2}

\* The base binding, one with newer pins and one with a newer read dependency.
MCBindings == {[pins |-> v1, inputs |-> "in", deps |-> 1],
               [pins |-> v2, inputs |-> "in", deps |-> 1],
               [pins |-> v1, inputs |-> "in", deps |-> 2]}

\* The shape of the built-in tutor flows (evidence tool, readiness validator,
\* gated clarification, model, output validator) with a second, ungated dialogue
\* right behind the first.
FlowSteps == <<"tool", "validate", "dialogue", "dialogue", "model", "validate">>
FlowGate == <<0, 0, 2, 0, 0, 0>>
=============================================================================
