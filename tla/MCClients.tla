----------------------------- MODULE MCClients -----------------------------
(***************************************************************************)
(* All the programs of Examples, with each of the plugins and without.     *)
(***************************************************************************)
EXTENDS Clients

E == INSTANCE Examples

MCPrograms == DOMAIN E!AllPrograms
MCCode == E!AllPrograms
=============================================================================
