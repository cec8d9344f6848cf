----------------------------- MODULE MCDestinos -----------------------------
(* Instances of Destinos for TLC.                                          *)
EXTENDS Destinos

CONSTANTS ana, bia, p1, p2

\* Ana is promoted and demoted, linked and unlinked; Bia takes her place in lists.
PapeisDeDuas == [u \in {ana, bia} |-> IF u = ana THEN {"admin", "supervisor"} ELSE {"supervisor"}]

DuasListas == {<<ana>>, <<bia>>}

\* Two requests overlap in every pair of operations that touch the same rows.
DoisPapeis == [p \in {p1, p2} |-> IF p = p1 THEN {"usuarios", "remover"}
                                 ELSE {"usuarios", "atualizar", "criar", "listar"}]
=============================================================================
