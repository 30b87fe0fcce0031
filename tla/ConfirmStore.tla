---------------------------- MODULE ConfirmStore ----------------------------
(***************************************************************************)
(* internal/confirm: the in-memory store of one-shot confirmation tokens.  *)
(*                                                                         *)
(* A token is 256 random bits, so no two calls of Generate make the same   *)
(* one: Token is any set of names, one per call of Generate.  Go's map is  *)
(* a total function whose missing keys hold None.  A fingerprint is a      *)
(* SHA-256 of the whole Binding, so comparing fingerprints is comparing    *)
(* bindings.  The mutex makes each operation one step; its answer is an    *)
(* operator evaluated in the state the operation starts from.              *)
(***************************************************************************)
EXTENDS Naturals

CONSTANTS
  Token,      \* the tokens Generate can return
  Binding,    \* what a token is bound to
  None        \* the value of a missing key

VARIABLE records

Record == [ fingerprint : Binding, expiresAt : Nat ]

TypeOK == records \in [Token -> Record \cup {None}]

Init == records = [token \in Token |-> None]

Known(token) == token \in Token /\ records[token] # None

(* Seeded fault: the record has no expiry.                                 *)
GenerateForEver(token, binding, now, ttl) ==
  records' = [records EXCEPT ![token] = [fingerprint |-> binding]]

Generate(token, binding, now, ttl) ==
  records' = [records EXCEPT ![token] =
                [fingerprint |-> binding, expiresAt |-> now + ttl]]

(* Seeded fault: the binding is not compared.                              *)
AcceptsAnyBinding(token, binding, now) ==
  Known(token) /\ now < records[token].expiresAt

(* The answer of Consume(token, binding).                                  *)
Accepts(token, binding, now) ==
  /\ Known(token)
  /\ now < records[token].expiresAt
  /\ records[token].fingerprint = binding

(* Seeded fault: a token is only looked up.                                *)
ConsumeNothing(token) == UNCHANGED records

(* A token is deleted before its expiry and binding are looked at: any     *)
(* presentation of it is its last.                                         *)
Consume(token) ==
  records' = [other \in Token |-> IF other = token THEN None ELSE records[other]]
=============================================================================
