----------------------------- MODULE MCDFGWorklist -----------------------------
(***************************************************************************)
(* Two virtual machines, one of which may be destroyed; a code block of    *)
(* the first may be compiled again.                                        *)
(***************************************************************************)
EXTENDS DFGWorklist

MCVMs    == {"v1", "v2"}
MCKeys   == {"k1", "k2"}
MCPlans  == {"p1", "p2", "q1"}
MCKeyOf  == [p \in MCPlans |-> IF p = "q1" THEN "k2" ELSE "k1"]
MCVMOf   == [k \in MCKeys |-> IF k = "k2" THEN "v2" ELSE "v1"]
MCMortal == {"v2"}
=============================================================================
