---------------------------- MODULE ManifestStore ----------------------------
(***************************************************************************)
(* The store of mutation manifests (internal/manifest): which messages a   *)
(* mutation has changed, for the audits of their bodies that follow.       *)
(*                                                                         *)
(* A manifest is named by the mutation it was issued for, since its 128    *)
(* random bits do not repeat.  Unlike a token it can be read many times.   *)
(***************************************************************************)
EXTENDS Naturals, Sequences

CONSTANTS Mutation, Id, TTL, None

Record == [ ids : Seq(Id), expiresAt : Nat ]

Init == [c \in Mutation |-> None]

Live(records, c, now) == records[c] # None /\ now < records[c].expiresAt

(* Seeded fault: the manifest of an earlier clock.                         *)
IssueForEver(records, c, ids, now) ==
  [records EXCEPT ![c] = [ ids |-> ids, expiresAt |-> now + 2 * TTL ]]

Issue(records, c, ids, now) ==
  [records EXCEPT ![c] = [ ids |-> ids, expiresAt |-> now + TTL ]]

(* A manifest that is found expired is dropped.                            *)
Get(records, c, now) ==
  IF Live(records, c, now) THEN records ELSE [records EXCEPT ![c] = None]
=============================================================================
