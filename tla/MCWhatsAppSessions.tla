-------------------------- MODULE MCWhatsAppSessions --------------------------
(* Instances of WhatsAppSessions for TLC; the values are in the .cfg files. *)
EXTENDS WhatsAppSessions, TLC

Symmetry == Permutations(Client) \cup Permutations(Request)
ClientSymmetry == Permutations(Client)
=============================================================================
