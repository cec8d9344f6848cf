------------------------------ MODULE MCSenhas ------------------------------
(* Instances of Senhas for TLC.                                            *)
EXTENDS Senhas, TLC

CONSTANTS n1, c0, c1, c2

De(t, c, n) == [tipo |-> t, codigo |-> c, nivel |-> n]

\* Every kind with every level for one code, the valid ones for another, and one
\* request with a short code.
TodasNovas  == [tipo : Tipos, codigo : {c1}, nivel : Niveis \cup {NULL}]
               \cup {De("ok", c2, NULL), De("emergencia", c2, Padrao),
                     De("customizada", c2, n1), De("ok", c0, NULL)}
TodasTrocas == [codigo : {c2, NULL}, nivel : Niveis \cup {NULL}]
               \cup {[codigo |-> c0, nivel |-> NULL]}

\* What the panel sends for a new guard, and a batch that uses a level twice.
DoisLotes == {<<De("ok", c1, NULL), De("emergencia", c2, Padrao)>>,
              <<De("customizada", c1, n1), De("customizada", c2, n1)>>}

Simetria == Permutations(Pedidos) \cup Permutations(Ids) \cup Permutations(Vigias)
=============================================================================
