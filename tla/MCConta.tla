------------------------------- MODULE MCConta -------------------------------
(* Instances of Conta for TLC.                                             *)
EXTENDS Conta

CONSTANTS n1, n2, e1, p1, p2

Pessoa(n, e, r) == [nome |-> n, email |-> e, papel |-> r, ativo |-> NULL]

\* A guard without an email, an admin and a post.
NovasLinhas == {Pessoa(n1, NULL, "vigia"), Pessoa(n2, e1, "admin"), Pessoa(n1, NULL, NULL)}

\* One field at a time; a guard may get an email.
UmCampo == {[SemTroca EXCEPT !.ativo = TRUE], [SemTroca EXCEPT !.papel = "admin"],
            [SemTroca EXCEPT !.papel = "vigia"], [SemTroca EXCEPT !.email = e1]}

\* A row is updated while it is deactivated, or a token issued.
DoisPapeis == [p \in {p1, p2} |-> IF p = p1 THEN {"criar", "atualizar"}
                                 ELSE {"criar", "desativar", "entrar"}]
=============================================================================
