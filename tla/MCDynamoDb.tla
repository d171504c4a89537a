------------------------------ MODULE MCDynamoDb ------------------------------
(***************************************************************************)
(* A small instance of DynamoDb: two tables, and the requests that         *)
(* interfere with each other most.                                         *)
(***************************************************************************)
EXTENDS DynamoDb

CONSTANTS k1, k2, a, b, true

MCKeys == {k1, k2}
MCIdxVals == {a, b, true}
MCBoolVals == {true}

MCPut(t, k, v, cond) == Op("put", t, k, k, v, cond)
MCDelete(t, k, cond) == Op("delete", t, k, k, None, cond)
MCUpdate(t, k, to, v, cond) == Op("update", t, k, to, v, cond)

\* Single writes with and without a condition, and an update that moves an item; a batch over
\* both tables, with a put that has no key; transactions that name the tables in either
\* order, with a condition on what the single writes change.
MCRequests ==
    [kind : {"write"},
     ops : {<<MCPut(1, k1, a, "absent")>>, <<MCDelete(1, k1, None)>>, <<MCUpdate(1, k1, k2, a, "exists")>>}]
    \cup [kind : {"batch"},
          ops : {<<MCPut(1, k1, b, None), MCPut(1, k2, true, None), Op("put", 1, None, None, a, None),
                   MCDelete(2, k1, None)>>}]
    \cup [kind : {"transact"},
          ops : {<<MCPut(2, k1, a, None), MCUpdate(1, k1, k1, b, "absent")>>,
                 <<MCDelete(1, k1, "exists"), Op("check", 2, k1, k1, None, "exists"), MCPut(2, k2, a, None)>>}]

MCCreations == {[indexed |-> TRUE, streamed |-> TRUE], [indexed |-> FALSE, streamed |-> FALSE]}

MCChanges ==
    {[stream |-> "off", index |-> "delete"], [stream |-> "on", index |-> "create"],
     [stream |-> "keep", index |-> "create"]}
==============================================================================
