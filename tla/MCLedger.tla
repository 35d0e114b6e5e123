------------------------------ MODULE MCLedger ------------------------------
(* Account "old" was migrated to "new"; o1 came back as n1, o2 and n2 have    *)
(* one shape, and c offsets either pair from a third account.                 *)
EXTENDS Ledger, TLC

Home == [r \in Row |-> IF r \in {"o1", "o2"} THEN "old" ELSE IF r = "c" THEN "other" ELSE "new"]
From == [r \in Row |-> IF r = "n1" THEN "o1" ELSE None]
Linked == {<<"o1", "c">>, <<"c", "n1">>}
Before == [a \in Account |-> IF a = "new" THEN "old" ELSE None]
Dates == [r \in Row |-> CASE r \in {"o1", "n1"} -> 1 [] r = "c" -> 2 [] OTHER -> 3]
Amounts == [r \in Row |-> IF r = "c" THEN 0 - 5 ELSE 5]
=============================================================================
