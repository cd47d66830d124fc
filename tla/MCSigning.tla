----------------------------- MODULE MCSigning -----------------------------
EXTENDS Signing

CONSTANTS a, b, c, d

\* b costs more to spend than it brings; c is the coin with a witness; d alone
\* is too heavy, and b, of less value, is dropped before it.
MCAmount == (a :> 9) @@ (b :> 2) @@ (c :> 6) @@ (d :> 7)
MCBase == (a :> 3) @@ (b :> 3) @@ (c :> 1) @@ (d :> 9)
MCWitness == (a :> 0) @@ (b :> 0) @@ (c :> 4) @@ (d :> 0)
MCOwner == (a :> "k") @@ (b :> "l") @@ (c :> "k") @@ (d :> "k")
MCScope == (a :> "all") @@ (b :> "single") @@ (c :> "none") @@ (d :> "all")
MCAnyone == (a :> FALSE) @@ (b :> FALSE) @@ (c :> TRUE) @@ (d :> FALSE)

Pay(v) == [value |-> v, data |-> FALSE]
Note == [value |-> 0, data |-> TRUE]
Ask(ins, outs, change, selector, rate, dust) ==
    [inputs |-> ins, outputs |-> outs, change |-> change,
     selector |-> selector, feePerVb |-> rate, dust |-> dust]

Lists == {<<>>, <<a>>, <<a, b>>, <<a, c>>, <<b, c>>, <<c, a>>, <<b, a, c>>, <<a, a>>,
          <<d>>, <<d, a>>}
Selectors == {"UseAll", "InOrder", "Ascending", "Descending"}

\* Two coins in two orders, and two amounts; and coins of two owners.
MCToSign ==
    {Ask(<<a, c>>, <<Pay(4)>>, TRUE, "UseAll", 0, 2),
     Ask(<<a, c>>, <<Pay(1)>>, TRUE, "UseAll", 0, 0),
     Ask(<<c, a>>, <<Pay(4)>>, TRUE, "UseAll", 0, 2),
     Ask(<<b, c>>, <<Pay(4)>>, TRUE, "UseAll", 0, 2)}

MCRequests ==
    {Ask(ins, <<Pay(v)>>, change, selector, rate, dust) :
        ins \in Lists, v \in {1, 4}, change \in BOOLEAN,
        selector \in Selectors, rate \in {0, 1}, dust \in {2, 4}}
    \union {Ask(ins, <<Pay(4), Note>>, TRUE, selector, 1, 2) :
        ins \in Lists, selector \in Selectors}
    \union {Ask(ins, <<Pay(0)>>, FALSE, "Max", rate, dust) :
        ins \in Lists \union {<<b, d, a>>}, rate \in {0, 1}, dust \in {2, 4}}
    \union MCToSign

=============================================================================
