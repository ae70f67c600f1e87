-------------------------- MODULE MCResetPipeline --------------------------
(***************************************************************************)
(* Instances of ResetPipeline for TLC: the sets of configurations.         *)
(***************************************************************************)
EXTENDS ResetPipeline

\* Every source maps every subscription on every dimension; monitoring on or
\* off, or the mapping narrowed to the first subscription.
MCFull   == [on |-> TRUE, enabled |-> Sources,
             targets |-> [s \in Sources |-> Subs], dims |-> [s \in Sources |-> Dims]]
MCOff    == [MCFull EXCEPT !.on = FALSE]
MCNarrow == [MCFull EXCEPT !.targets = [s \in Sources |-> {1}]]
MCNoDims == [MCFull EXCEPT !.dims = [s \in Sources |-> {CHOOSE d \in Dims : TRUE}]]

MCOnlyFull  == {MCFull}
MCEdits     == {MCFull, MCOff, MCNarrow, MCNoDims}
MCSubs      == 1..2
MCOneSub    == {1}

============================================================================
