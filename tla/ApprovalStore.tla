---------------------------- MODULE ApprovalStore ----------------------------
(***************************************************************************)
(* internal/approval: the in-memory store of approval challenges, and the  *)
(* approval policy a runtime is started with.                              *)
(*                                                                         *)
(* A challenge id is 256 random bits: Challenge is a set of names, one per *)
(* call of Issue.  An approval token is the HMAC of the challenge's        *)
(* signing payload, which spells out every field of the challenge; it is   *)
(* modelled by the id of the challenge it signs.                           *)
(***************************************************************************)
EXTENDS Naturals

CONSTANTS
  Challenge,  \* the challenge ids Issue can return
  Binding,    \* what a challenge is bound to
  None        \* the value of a missing key

VARIABLE records

Record == [ binding : Binding, expiresAt : Nat ]

(* approval.Policy: the secret and the legacy static token are either set  *)
(* or blank.                                                               *)
Policy == [ mode : {"dev", "optional", "required"},
            secret : BOOLEAN, legacyToken : BOOLEAN ]

TypeOK == records \in [Challenge -> Record \cup {None}]

Init == records = [id \in Challenge |-> None]

Known(id) == id \in Challenge /\ records[id] # None

Expired(id, now) == Known(id) /\ ~ (now < records[id].expiresAt)

Issue(id, binding, now, ttl) ==
  records' = [records EXCEPT ![id] =
                [binding |-> binding, expiresAt |-> now + ttl]]

Drop(id) ==
  [other \in Challenge |-> IF other = id THEN None ELSE records[other]]

(* Seeded fault: the binding is not compared.                              *)
AcceptsAnyBinding(policy, id, token, binding, now) ==
  Known(id) /\ ~ Expired(id, now) /\ policy.secret /\ token = id

(* The answer of Validate and of Consume: validateLocked and the           *)
(* comparison with the token SignChallenge would make.  Without a secret   *)
(* nothing can be signed, so nothing is valid.                             *)
Accepts(policy, id, token, binding, now) ==
  /\ Known(id)
  /\ ~ Expired(id, now)
  /\ records[id].binding = binding
  /\ policy.secret
  /\ token = id

(* Seeded fault: whatever Validate finds, it drops.                        *)
ValidateAndDrop(id, now) == records' = Drop(id)

(* Validate drops an expired challenge and changes nothing else.           *)
Validate(id, now) ==
  records' = IF Expired(id, now) THEN Drop(id) ELSE records

(* Seeded fault: Consume only validates.                                   *)
ConsumeOnlyValidates(policy, id, token, binding, now) == Validate(id, now)

(* Consume also drops a challenge it accepts.                              *)
Consume(policy, id, token, binding, now) ==
  records' = IF Expired(id, now) \/ Accepts(policy, id, token, binding, now)
             THEN Drop(id) ELSE records

(* RequireApproval refuses a high-risk call without a challenge and a      *)
(* token in required mode.                                                 *)
RequireApproval(policy, highRisk, id, token) ==
  ~ ( /\ highRisk
      /\ policy.mode = "required"
      /\ id = "blank" \/ token = "blank" )

ValidateLegacyToken(policy, token) ==
  policy.mode = "optional" /\ policy.legacyToken /\ token = "legacy"
=============================================================================
