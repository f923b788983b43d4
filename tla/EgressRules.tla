----------------------------- MODULE EgressRules -----------------------------
(***************************************************************************)
(* Where a destination may point (gateway/routing/egress.py): the policy   *)
(* of a destination, the syntax of its URL, and the addresses that its     *)
(* host stands for.                                                        *)
(*                                                                         *)
(* An address is what Python's ipaddress takes it for: "shown" is the kind *)
(* of the address itself and "carried" that of the IPv4 address inside an  *)
(* IPv4-mapped one, which the tables of some versions judge differently.   *)
(***************************************************************************)
EXTENDS FiniteSets

Kinds == {"public", "loopback", "private", "shared", "unique local", "link local",
          "reserved", "multicast", "unspecified", "documentation"}

(* is_private, is_loopback, ... of the ipaddress module.                   *)
Flags(kind) ==
    CASE kind \in {"public", "shared"} -> {}
      [] kind = "multicast" -> {"multicast"}
      [] kind \in {"private", "unique local", "documentation"} -> {"private"}
      [] OTHER -> {"private", kind}

_is_globally_routable(address) == Flags(address.shown) = {}

(* The networks of _PRIVATE_NETWORKS, by the kind of their addresses.      *)
PrivateNetworks == {"loopback", "private", "shared", "unique local"}

_is_private_network(address) == address.carried \in PrivateNetworks

(* A URL is a record: whether urlsplit reads it, whether its port is 0 and *)
(* whether there is white space in it; its scheme, its host ("" if none),  *)
(* and the address that the host denotes if it is a literal.               *)

(* The resolver answers; no answer is a name that does not resolve.        *)
_resolve(url, answer) == IF url.literal # {} THEN url.literal ELSE answer

http_permitted(policy) == policy.allow_private

\* mutant: one permitted address among those of a name is enough
AnyAddress(policy, addresses) ==
    addresses = {} \/ \E a \in addresses :
        /\ policy.require_private_network => _is_private_network(a)
        /\ _is_globally_routable(a) \/ policy.allow_private

validate_addresses(policy, addresses) ==
    \A a \in addresses :
        /\ policy.require_private_network => _is_private_network(a)
        /\ _is_globally_routable(a) \/ policy.allow_private

validate_offline(policy, url) ==
    /\ url.parses /\ ~url.port0 /\ ~url.blank
    /\ url.scheme \in {"http", "https"}
    /\ url.scheme = "http" => http_permitted(policy)
    /\ url.host # ""
    /\ policy.allowed_hosts # {} => url.host \in policy.allowed_hosts
    /\ validate_addresses(policy, url.literal)

validate(policy, url, answer) ==
    /\ validate_offline(policy, url)
    /\ _resolve(url, answer) # {}
    /\ validate_addresses(policy, _resolve(url, answer))

(* Private addresses are for "local", or for all by the override, and the  *)
(* only ones left for "local" while requests are kept local.               *)
policy_for(destination, allowed_hosts, override, require_private_network) ==
    [allow_private |-> require_private_network \/ override \/ destination = "local",
     allowed_hosts |-> allowed_hosts,
     require_private_network |-> require_private_network]

(* A target is a destination with its URL and the settings that concern it *)
(* (build_providers in config.py, build_agent_providers).                  *)
PolicyOf(target) ==
    IF target.destination = "local"
    THEN policy_for("local", target.allowlist, FALSE, target.local_routing)
    ELSE policy_for(target.destination, target.allowlist, target.egress_allow_private, FALSE)
=============================================================================
