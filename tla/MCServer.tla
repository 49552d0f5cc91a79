------------------------------ MODULE MCServer ------------------------------
\* Instances of Server for TLC.
EXTENDS Server

CONSTANT c1

\* Batches of three at most, of any length, and none at all.
MCConfig ==
    {[BatchRequestsEnabled |-> TRUE, BatchRequestsLimit |-> 3],
     [BatchRequestsEnabled |-> TRUE, BatchRequestsLimit |-> 0],
     [BatchRequestsEnabled |-> FALSE, BatchRequestsLimit |-> 3]}

MCRawTx == {"tx1", "tx2"}
MCString == MCRawTx \cup {"", "0x1234"}

Call(id, name, array, args) == [id |-> id, name |-> name, array |-> array, args |-> args]

\* The calls: good, unknown method, no parameters, an argument that is not a
\* string, no transaction, two arguments and three.
MCCall ==
    {Call(1, "sendRawTransaction", TRUE, <<"tx1">>),
     Call(2, "sendRawTransaction", TRUE, <<"tx2">>),
     Call(3, "blockNumber", TRUE, <<>>),
     Call(4, "sendRawTransaction", FALSE, <<>>),
     Call(5, "sendRawTransaction", TRUE, <<Nil>>),
     Call(6, "sendRawTransaction", TRUE, <<"0x1234">>),
     Call(7, "sendRawTransaction", TRUE, <<"tx1", "tx2">>),
     Call(8, "sendRawTransaction", TRUE, <<"tx1", "tx2", "tx1">>)}

Post(length, type, size, form, json, calls) ==
    [method |-> "POST", contentLength |-> length, contentType |-> type,
     size |-> size, form |-> form, json |-> json, calls |-> calls]

Small == 1
Large == 3

GoodPost(form, calls) == Post(Small, "application/json", Small, form, TRUE, calls)

Batches ==
    LET a == CHOOSE x \in MCCall : x.id = 1
        b == CHOOSE x \in MCCall : x.id = 2
    IN {<<>>, <<a>>, <<a, b, a, b>>} \cup {<<a, b, x>> : x \in MCCall} \cup {<<x, y>> : x \in {a, b}, y \in MCCall}
           \cup {<<x, a>> : x \in MCCall}

MCHttpRequest ==
    {GoodPost("{", <<call>>) : call \in MCCall}
    \cup {GoodPost("[", calls) : calls \in Batches}
    \cup {[GoodPost("", <<>>) EXCEPT !.method = m] : m \in {"OPTIONS", "GET", "PUT"}}
    \cup {Post(Large, "application/json", Large, "{", TRUE, <<>>),
          Post(-1, "application/json", Large, "{", TRUE, <<>>),
          Post(Small, "text/plain", Small, "{", TRUE, <<>>),
          GoodPost("", <<>>),
          Post(Small, "application/json", Small, "{", FALSE, <<>>),
          Post(Small, "application/json", Small, "[", FALSE, <<>>)}
============================================================================
