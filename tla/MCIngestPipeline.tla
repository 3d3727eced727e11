-------------------------- MODULE MCIngestPipeline --------------------------
(* Instances of IngestPipeline for TLC: inputs of up to five quads. *)
EXTENDS IngestPipeline

CONSTANTS s1, s2, a, bad

Q(s, l) == [stmt |-> s, label |-> l]

Plain == <<Q(s1, a), Q(s2, NoLabel), Q(s1, NoLabel)>>

\* Duplicates within a chunk and across chunks, with and without a label.
Twice == <<Q(s1, a), Q(s1, NoLabel), Q(s2, a), Q(s2, NoLabel), Q(s1, a)>>

GoodInputs == {<<>>, <<Q(s2, NoLabel)>>, Plain, Twice}

\* An empty field, or an invalid label, after a run has been written.
BadInputs ==
  {<<Q(s1, a), Q(s2, a), Q(EmptyStmt, a), Q(s2, NoLabel)>>,
   <<Q(s1, a), Q(s2, a), Q(s1, bad), Q(s2, a), Q(s2, NoLabel)>>}

Inputs == GoodInputs \cup BadInputs
=============================================================================
