--------------------------- MODULE TokenRegistry ---------------------------
(***************************************************************************)
(* What the token store promises: per app, a device token has at most one  *)
(* owner, the last pubkey that registered it, and a push to a pubkey       *)
(* reaches exactly the tokens the pubkey owns.  TokenStore implements it   *)
(* with three Redis structures and a read followed by a transaction.       *)
(***************************************************************************)
CONSTANTS Apps, PubKeys, Tokens, NoPubKey

VARIABLES
  registry,   \* registry[app][token]: the owner, or NoPubKey
  audience    \* audience[app][pubkey]: the tokens a push to pubkey reaches

registryVars == <<registry, audience>>

Owned(reg) ==
  [a \in Apps |-> [p \in PubKeys |-> {t \in Tokens : reg[a][t] = p}]]

Init ==
  /\ registry = [a \in Apps |-> [t \in Tokens |-> NoPubKey]]
  /\ audience = Owned(registry)

(* A registration takes the token over, whoever owned it.                  *)
Register(a, p, t) ==
  /\ registry' = [registry EXCEPT ![a][t] = p]
  /\ audience' = Owned(registry')

(* Only the owner's token can be removed on the owner's behalf.            *)
Remove(a, p, t) ==
  /\ registry[a][t] = p
  /\ registry' = [registry EXCEPT ![a][t] = NoPubKey]
  /\ audience' = Owned(registry')

Next ==
  \E a \in Apps, p \in PubKeys, t \in Tokens : Register(a, p, t) \/ Remove(a, p, t)

Spec == Init /\ [][Next]_registryVars
=============================================================================
