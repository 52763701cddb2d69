--------------------------- MODULE MCToolInvoker ---------------------------
(* Instances of ToolInvoker for TLC. *)
EXTENDS ToolInvoker, TLC

CONSTANTS c1, c2, pay, query, k

Tool(writes, oneWay, keyed, served) ==
    [stateChanging |-> writes, irreversible |-> oneWay, keyRequired |-> keyed, served |-> served]

(* A one-way payment, and a read that no connector serves. *)
Registry2 == pay :> Tool(TRUE, TRUE, TRUE, TRUE) @@ query :> Tool(FALSE, FALSE, FALSE, FALSE)

Ask(t, args, key) ==
    [tool |-> t, scope |-> "declared", args |-> args, autonomy |-> "execute",
     verdict |-> TRUE, approval |-> TRUE, key |-> key]

(* A payment, its altered payload, the payment before it is approved, and a *)
(* read, once under a scope the tool does not declare.                       *)
Mixed ==
    {Ask(pay, "a", k), Ask(pay, "b", k), [Ask(pay, "a", k) EXCEPT !.approval = FALSE],
     Ask(query, "a", None), [Ask(query, "a", None) EXCEPT !.scope = "other"]}

Live == [enabled |-> TRUE, holdsScope |-> TRUE, stage |-> 4, forced |-> FALSE]
Stages == {Live, [Live EXCEPT !.stage = 3]}
=============================================================================
