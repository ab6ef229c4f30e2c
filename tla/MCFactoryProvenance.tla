-------------------------- MODULE MCFactoryProvenance --------------------------
(***************************************************************************)
(* FactoryProvenance for TLC: a factory, relays of both versions, another  *)
(* package's account, and whatever envelopes name that factory.            *)
(***************************************************************************)
EXTENDS FactoryProvenance

CONSTANTS Other, Developer, RelayKey, s1, D, E

Root(version, pkg, owner, role) ==
    [version |-> version, pkg |-> pkg, owner |-> owner, salt |-> s1,
     init |-> [role |-> role, factory |-> NoAddress]]

FactoryEnvelope == Root("strict", Package, Developer, "factory")
Factory == AddressOf(FactoryEnvelope, D)

MCTargets == {Factory}

Relay(version) == Root(version, Package, RelayKey, "relay")

Children ==
    [version : {"strict", "permissive"}, pkg : {Package}, owner : {Factory.id},
     salt : {s1}, init : {child_init(Factory)}]

\* Accounts of the factory's owner id, or package, that are not its children.
Lookalikes ==
    {Root("strict", Package, Factory.id, "relay"),
     [version |-> "other", pkg |-> Other, owner |-> Factory.id, salt |-> s1,
      init |-> child_init(Factory)]}

MCDeploys ==
    ({FactoryEnvelope, Relay("strict"), Relay("permissive")} \cup Children \cup Lookalikes) \X {D}
    \cup {<<e, E>> : e \in {x \in Children : x.version = "permissive"}}
=============================================================================
