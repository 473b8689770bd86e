----------------------------- MODULE MCSpecDecode -----------------------------
(* Small instances of SpecDecode for TLC.                                  *)
EXTENDS SpecDecode, TLC

CONSTANTS r1, r2, s1, s2, a, b, e

GreedyDef     == (r1 :> <<a, b, a, b, e, a, a, a>>) @@ (r2 :> <<b, e, a, a, a, a, a, a>>)
BudgetDef     == (r1 :> 5) @@ (r2 :> 3)
LongBudgetDef == (r1 :> 8) @@ (r2 :> 8)

(* A grammar in which no b follows a b: some drafts and some repeated      *)
(* histories are legal, others are not.                                    *)
LanguageDef ==
    {s \in Seq({a, b, e}) : \A i \in 1..(Len(s) - 1) : s[i] # b \/ s[i + 1] # b}
=============================================================================
