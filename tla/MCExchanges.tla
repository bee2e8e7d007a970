---------------------------- MODULE MCExchanges ----------------------------
(***************************************************************************)
(* An instance of Exchanges: a budget of two bare Exchanges and a report, so *)
(* that evictions meet open requests, and headers of each kind the hop tells *)
(* apart.                                                                    *)
(***************************************************************************)
EXTENDS Exchanges

Self    == [d \in {"default-src"} |-> {"self"}]
Nothing == [d \in {"default-src"} |-> {"none"}]
Nonced  == [d \in {"script-src", "connect-src"} |-> IF d = "script-src" THEN {"n", "strict-dynamic"} ELSE {"cdn"}]
Dynamic == [d \in {"script-src", "default-src"} |-> IF d = "script-src" THEN {"self", "strict-dynamic"} ELSE {"self"}]
Elem    == [d \in {"script-src-elem", "script-src"} |-> IF d = "script-src" THEN {"self"} ELSE {"cdn"}]

Strict  == [d \in {"script-src"} |-> {"self", "strict-dynamic"}]

MCHeaders == {<<>>, <<Nothing>>, <<Nonced>>, <<Strict>>, <<Nonced, Dynamic>>, <<Elem, Self>>}
=============================================================================
