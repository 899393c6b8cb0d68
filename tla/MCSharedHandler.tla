---------------------------- MODULE MCSharedHandler ----------------------------
(* Small instances of SharedHandler. *)
EXTENDS SharedHandler

\* Every config has a credential of its own.
OwnCredential == [c \in Configs |-> c]

\* All configs name the same credential.
SameCredential == [c \in Configs |-> "credential"]
=============================================================================
