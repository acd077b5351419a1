----------------------------- MODULE AuthManager -----------------------------
(***************************************************************************)
(* LegacyAuthManager with IpNetwork, Nonce and Digest: the rules that      *)
(* decide which guests must authenticate and which are let in.  The        *)
(* manager keeps a copy of the DotsAuthentication instances, ordered by    *)
(* priority, that it maintains from the events of the host's container.    *)
(*                                                                         *)
(* An address is [version, bits], a network [version, bits, prefix]; bits  *)
(* is a sequence of 0 and 1.  A rule is a DotsAuthentication instance:     *)
(* [network, client, priority, secret, accept], the first three its key    *)
(* (the name space, also a key, is read by nothing).  Digests are taken to *)
(* be equal only if what they are made of is equal.                        *)
(***************************************************************************)
EXTENDS Integers, Sequences, FiniteSets, SequencesExt

CONSTANTS
    RuleKeys,   \* the keys rules may have: [network, client, priority]
    RuleSecrets \* the secrets of rules

VARIABLES
    rules,      \* m_rules
    default,    \* m_defaultAcceptPolicy
    published   \* the host's DotsAuthentication instances, oldest first

authVars == <<rules, default, published>>

Unset  == "unset"
Accept == {"accept", "refuse", Unset}
Rules  == {[network |-> k.network, client |-> k.client, priority |-> k.priority,
            secret |-> s, accept |-> a] :
              k \in RuleKeys, s \in RuleSecrets \cup {Unset}, a \in Accept}

Bits(b) == Len(b) \in Nat /\ b \in [1..Len(b) -> {0, 1}]

ASSUME RuleKeysAssumption ==
    \A k \in RuleKeys :
        /\ k = [network |-> k.network, client |-> k.client, priority |-> k.priority]
        /\ k.priority \in Int
        /\ k.network = [version |-> k.network.version, bits |-> k.network.bits,
                        prefix |-> k.network.prefix]
        /\ Bits(k.network.bits) /\ k.network.prefix \in Nat

-----------------------------------------------------------------------------
(* IpNetwork: a prefix longer than an address is an error.                 *)
Network(address) ==
    [version |-> address.version, bits |-> address.bits, prefix |-> Len(address.bits)]
Constructible(net) == net.prefix <= Len(net.bits)
Canonical(net, n)  == SubSeq(net.bits, 1, n)

IsStrictSubnetOf(net, of) ==
    /\ net.version = of.version
    /\ of.prefix < net.prefix
    /\ Canonical(net, of.prefix) = Canonical(of, of.prefix)

IsSubnetOf(net, of) == IsStrictSubnetOf(net, of) \/ net = of

-----------------------------------------------------------------------------
(* What a response is made of; an absent one, and the one read from an     *)
(* empty string, are equal to none of these.                               *)
Digest(nonce, cnonce, client, secret) == <<nonce, cnonce, client, secret>>
Absent == <<"absent">>
Zeros  == <<"zeros">>
NoNonce == 0

-----------------------------------------------------------------------------
(* The positions of the rules that apply, which are looked at in their     *)
(* order.  A rule whose network cannot be constructed is passed over.      *)
FindMatchingRules(address, client) ==
    {i \in DOMAIN rules : /\ rules[i].client \in {"", client}
                          /\ Constructible(rules[i].network)
                          /\ IsSubnetOf(Network(address), rules[i].network)}

(* Seeded fault: only the first rule is looked at, though it need not say.  *)
FaultRequires(address) ==
    LET matching == FindMatchingRules(address, "")
    IN  /\ matching # {}
        /\ rules[Min(matching)].accept = "accept" /\ rules[Min(matching)].secret # Unset

(* A guest must authenticate if the first rule that accepts guests with    *)
(* any name has a secret.                                                  *)
RequiresAtAddress(address) ==
    LET accepting == {i \in FindMatchingRules(address, "") : rules[i].accept = "accept"}
    IN  accepting # {} /\ rules[Min(accepting)].secret # Unset

RequiresAuthentication(endpoint) ==
    CASE endpoint.scheme \in {"tcp", "ws"} -> RequiresAtAddress(endpoint.address)
      [] endpoint.scheme = "uds"           -> FALSE
      [] OTHER                             -> default # "accept"

(* What a rule says of a guest, Unset if nothing.                          *)
Says(rule, nonce, connect) ==
    IF rule.secret = Unset THEN rule.accept
    ELSE IF connect.response = Absent THEN "refuse"
    ELSE IF connect.response = Digest(nonce, connect.cnonce, connect.client, rule.secret)
         THEN rule.accept ELSE Unset

(* The first rule that says something decides.                             *)
VerifyResponse(address, nonce, connect) ==
    LET deciding == {i \in FindMatchingRules(address, connect.client) :
                        Says(rules[i], nonce, connect) # Unset}
    IN  IF deciding = {} THEN default # "refuse"
        ELSE Says(rules[Min(deciding)], nonce, connect) = "accept"

VerifyAuthentication(endpoint, nonce, connect) ==
    CASE endpoint.scheme \in {"tcp", "ws"} -> VerifyResponse(endpoint.address, nonce, connect)
      [] endpoint.scheme = "uds"           -> TRUE
      [] OTHER                             -> default = "accept"

-----------------------------------------------------------------------------
AuthInit == rules = << >> /\ default = Unset /\ published = << >>

SameKey(r, q) ==
    r.network = q.network /\ r.client = q.client /\ r.priority = q.priority
IndexOf(seq, r) == SelectInSeq(seq, LAMBDA q : SameKey(q, r))

(* Seeded fault: in front of the rules of its priority.                    *)
FaultEmplace(r) ==
    LET n == Cardinality({i \in DOMAIN rules : rules[i].priority < r.priority})
    IN  InsertAt(rules, n + 1, r)

(* A multimap: behind the rules of its priority that are there already.    *)
Emplace(r) ==
    LET n == Cardinality({i \in DOMAIN rules : rules[i].priority <= r.priority})
    IN  InsertAt(rules, n + 1, r)

(* handleDotsAuthentication: the event that a published instance causes is *)
(* a create or an update; an update is copied over the rule of that key.   *)
PublishRule(r) ==
    LET known == IndexOf(published, r)
        rule  == IndexOf(rules, r)
    IN  /\ published' = IF known = 0 THEN Append(published, r) ELSE [published EXCEPT ![known] = r]
        /\ rules' = CASE known = 0                -> Emplace(r)
                      [] known # 0 /\ rule # 0    -> [rules EXCEPT ![rule] = r]
                      [] known # 0 /\ rule = 0    -> rules
        /\ UNCHANGED default

RemoveRule(r) ==
    /\ r \in ToSet(published)
    /\ published' = RemoveAt(published, IndexOf(published, r))
    /\ rules' = RemoveAt(rules, IndexOf(rules, r))
    /\ UNCHANGED default

(* handleDotsAuthenticationPolicy: a policy that does not say leaves the   *)
(* one before in force.                                                    *)
PublishPolicy(accept) ==
    /\ default' = IF accept = Unset THEN default ELSE accept
    /\ UNCHANGED <<rules, published>>

RemovePolicy == default' = Unset /\ UNCHANGED <<rules, published>>

-----------------------------------------------------------------------------
(* Among the published rules that apply, the one with the lowest priority  *)
(* that says something of the guest decides, the oldest of several; the    *)
(* default only if there is none.  The copy of the rules, kept up to date  *)
(* from the events, must not differ from that after any sequence of        *)
(* publications, changes and removals.                                     *)
Applies(r, address, nonce, connect) ==
    /\ r.client \in {"", connect.client}
    /\ r.network.version = address.version
    /\ r.network.prefix <= Len(address.bits)
    /\ \A b \in 1..r.network.prefix : r.network.bits[b] = address.bits[b]
    /\ Says(r, nonce, connect) # Unset
Decides(i, address, nonce, connect) ==
    /\ Applies(published[i], address, nonce, connect)
    /\ \A j \in DOMAIN published : Applies(published[j], address, nonce, connect) =>
           \/ published[i].priority < published[j].priority
           \/ published[i].priority = published[j].priority /\ i <= j
=============================================================================
