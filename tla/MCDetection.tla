---------------------------- MODULE MCDetection ----------------------------
(***************************************************************************)
(* Detection for TLC: each configuration lets one kind of disturbance      *)
(* happen beside official resets.                                          *)
(***************************************************************************)
EXTENDS Detection

CONSTANT c1
MCNoCards == {}
MCOneCard == {c1}

\* DetectCards follows two kinds of behaviours: those with replaced accounts,
\* missing fields and official resets for a short time, and those with none of
\* them, but with deleted log entries and granted cards, for longer unless a
\* card is used.
MCShort == now <= 4 /\ blind = 0
MCLong  ==
  /\ staff = {} /\ ident = [f \in Fields |-> 1] /\ Cardinality(turns) <= 1
  /\ turns # {} => now <= 4
  /\ acct.init => acct.missing = {}
  /\ w.pc = "read" => w.meta.missing = {}
MCBound == MCShort \/ MCLong

============================================================================
