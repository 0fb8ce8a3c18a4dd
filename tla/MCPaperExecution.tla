-------------------------- MODULE MCPaperExecution --------------------------
EXTENDS PaperExecution, TLC

CONSTANTS enter, stopped, exit, p, q

OfAuths(f) == [a \in Auths |-> f[a]]

MCActionOf == OfAuths((enter :> "ENTER") @@ (stopped :> "ENTER") @@ (exit :> "EXIT"))
MCTimeOf == OfAuths((enter :> 2) @@ (stopped :> 2) @@ (exit :> 3))
MCQtyOf == OfAuths((enter :> 2) @@ (stopped :> 1) @@ (exit :> 2))
MCPrice == OfAuths((enter :> 4) @@ (stopped :> 3) @@ (exit :> 5))
MCStopPrice == OfAuths((enter :> None) @@ (stopped :> 2) @@ (exit :> None))

\* One process over all three orders, or a second one beside it that may crash, over
\* the two entries and their first two instants.
Alone == phase[q] = "down"
EntriesOnly == intents[exit] = None /\ \A a \in Auths : states[a] # None => states[a].updated < 3

MCSpec == Init /\ [][Next /\ (Alone' \/ EntriesOnly')]_vars
=============================================================================
