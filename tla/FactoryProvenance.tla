--------------------------- MODULE FactoryProvenance ---------------------------
(***************************************************************************)
(* A factory that accepts reports by the derived address of their sender   *)
(* (examples/factory-child-provenance/src/lib.rs).                         *)
(*                                                                         *)
(* An address is the account id behind a DApp, and the id is the tuple its *)
(* hash commits to: package, owner, salt and constructor data, with neither*)
(* the code version nor the deployer.  One package holds factories,        *)
(* children and relays in a strict and a permissive version; accounts of   *)
(* every other package run code of their own and may send anything, as a   *)
(* relay may.                                                              *)
(***************************************************************************)
EXTENDS Integers, FiniteSets

CONSTANTS
    Package,       \* the package of this contract
    External,      \* the caller of an external message
    NoAddress,     \* the zero address
    Salts,         \* salts of SALT_BYTES
    MaxU32,        \* 2^32 - 1
    Deploys,       \* deploy envelopes somebody may build, with a DApp, to explore
    Targets,       \* factories others name, to explore
    MaxAccounts,   \* accounts
    MaxTransit     \* messages under way at a time

ASSUME ProvenanceAssumption ==
    /\ MaxU32 \in Nat
    /\ External # NoAddress
    /\ \A d \in Deploys : d[1].pkg = Package => d[1].version \in {"strict", "permissive"}

VARIABLES
    accounts,   \* the state of every account there is, by address
    transit     \* messages under way

vars == <<accounts, transit>>

----------------------------------------------------------------------------
\* The address of what an envelope constructs.  (No UI name.)
account_id(pkg, owner, salt, init) == [pkg |-> pkg, owner |-> owner, salt |-> salt, init |-> init]

AddressOf(e, dapp) == [dapp |-> dapp, id |-> account_id(e.pkg, e.owner, e.salt, e.init)]

child_init(factory) == [role |-> "child", factory |-> factory]

child_account_id(pkg, factory, salt) == account_id(pkg, factory.id, salt, child_init(factory))

\* The envelope of child_deploy(), with the code version of the account that builds it.
child_deploy(from, factory, salt) ==
    [version |-> accounts[from].version, pkg |-> accounts[from].package,
     owner |-> factory.id, salt |-> salt, init |-> child_init(factory)]

Deploy(from, to, e) == [kind |-> "deploy", source |-> from, to |-> to, envelope |-> e]
Report(from, to, salt) == [kind |-> "accept", source |-> from, to |-> to, salt |-> salt]

----------------------------------------------------------------------------
Ours(a) == a \in DOMAIN accounts /\ accounts[a].package = Package
HasRole(a, role) == Ours(a) /\ accounts[a].role = role
MaySendAnything(a) == a \in DOMAIN accounts /\ (Ours(a) => HasRole(a, "relay"))

\* Mutant of DeployerAllowed: the strict child does not look at its deployer either.
DeployerAllowed_Any(e, caller) == caller # External

\* A child's deployer: an account, in the strict version its factory.
DeployerAllowed(e, caller) ==
    /\ caller # External
    /\ e.version # "permissive" => caller = e.init.factory

\* What init of this contract accepts, and what that of any other package may.
CanInit(e, caller) ==
    e.pkg = Package =>
      \/ e.init.role \in {"factory", "relay"} /\ e.init.factory = NoAddress
      \/ e.init.role = "child" /\ e.salt \in Salts /\ DeployerAllowed(e, caller)

Constructed(e, caller) ==
    [version |-> e.version, package |-> e.pkg, role |-> e.init.role,
     factory |-> e.init.factory, deployer |-> caller, salt |-> e.salt,
     accepted |-> 0, sender |-> NoAddress, spawned |-> NoAddress]

Accounts(a, state) == [x \in DOMAIN accounts \cup {a} |-> IF x = a THEN state ELSE accounts[x]]

Send(m) == Cardinality(transit \cup {m}) <= MaxTransit /\ transit' = transit \cup {m}

----------------------------------------------------------------------------
Room == Cardinality(DOMAIN accounts) < MaxAccounts

\* An external deploy of somebody's account.
Publish(e, dapp) ==
    /\ Room
    /\ AddressOf(e, dapp) \notin DOMAIN accounts
    /\ CanInit(e, External)
    /\ accounts' = Accounts(AddressOf(e, dapp), Constructed(e, External))
    /\ UNCHANGED transit

\* A deploy message: the address must be free and the envelope's own.
DeliverDeploy(m) ==
    /\ Room
    /\ m \in transit /\ m.kind = "deploy"
    /\ m.to \notin DOMAIN accounts
    /\ m.to = AddressOf(m.envelope, m.to.dapp)
    /\ CanInit(m.envelope, m.source)
    /\ accounts' = Accounts(m.to, Constructed(m.envelope, m.source))
    /\ transit' = transit \ {m}

\* Mutant of Derives: any account of the same owner, package and DApp is a child.
Derives_OwnerOnly(factory, sender, salt) ==
    /\ sender.dapp = factory.dapp
    /\ sender.id.owner = factory.id /\ sender.id.pkg = accounts[factory].package

\* The policy of accept().
Derives(factory, sender, salt) ==
    /\ sender.dapp = factory.dapp
    /\ sender.id = child_account_id(accounts[factory].package, factory, salt)

DeliverReport(m) ==
    /\ m \in transit /\ m.kind = "accept"
    /\ HasRole(m.to, "factory")
    /\ m.salt \in Salts
    /\ Derives(m.to, m.source, m.salt)
    /\ accounts' = Accounts(m.to, [accounts[m.to] EXCEPT !.accepted = (@ + 1) % (MaxU32 + 1),
                                                         !.sender = m.source])
    /\ transit' = transit \ {m}

\* A message that is refused, or whose delivery fails, leaves nothing behind.
Refuse(m) ==
    /\ m \in transit
    /\ transit' = transit \ {m}
    /\ UNCHANGED accounts

spawn(f, salt) ==
    /\ HasRole(f, "factory") /\ salt \in Salts
    /\ LET e == child_deploy(f, f, salt)
           child == AddressOf(e, f.dapp)
       IN /\ Send(Deploy(f, child, e))
          /\ accounts' = Accounts(f, [accounts[f] EXCEPT !.spawned = child])

report(c) ==
    /\ HasRole(c, "child")
    /\ Send(Report(c, accounts[c].factory, accounts[c].salt))
    /\ UNCHANGED accounts

relay_forge(r, factory, salt) ==
    /\ HasRole(r, "relay") /\ salt \in Salts
    /\ LET e == child_deploy(r, factory, salt) IN Send(Deploy(r, AddressOf(e, factory.dapp), e))
    /\ UNCHANGED accounts

relay_send(r, m) ==
    /\ MaySendAnything(r) /\ m.source = r
    /\ Send(m)
    /\ UNCHANGED accounts

Init == accounts = [a \in {} |-> <<>>] /\ transit = {}

Next ==
    \/ \E d \in Deploys : Publish(d[1], d[2])
    \/ \E m \in transit : DeliverDeploy(m) \/ DeliverReport(m) \/ Refuse(m)
    \/ \E f \in DOMAIN accounts, salt \in Salts : spawn(f, salt)
    \/ \E c \in DOMAIN accounts : report(c)
    \/ \E r \in DOMAIN accounts, f \in Targets, salt \in Salts : relay_forge(r, f, salt)
    \/ \E r \in DOMAIN accounts, d \in Deploys :
         relay_send(r, Deploy(r, AddressOf(d[1], d[2]), d[1]))
    \/ \E r \in DOMAIN accounts, f \in Targets, salt \in Salts : relay_send(r, Report(r, f, salt))

Spec == Init /\ [][Next]_vars

----------------------------------------------------------------------------
(***************************************************************************)
(* What the policy proves, and for whom.                                   *)
(***************************************************************************)
Accepting == {f \in DOMAIN accounts : Ours(f) /\ accounts[f].sender # NoAddress}

\* Whom a factory accepted is an account of its own package and DApp whose
\* constructor made it a child of this factory, whoever else sends messages.
AcceptedAreChildren ==
    \A f \in Accepting :
      LET s == accounts[f].sender IN
      /\ accounts[f].role = "factory" /\ s.dapp = f.dapp
      /\ HasRole(s, "child") /\ accounts[s].factory = f /\ accounts[s].salt \in Salts

\* If the accepted account runs the strict version, the factory deployed it
\* itself.  (The permissive version's children may be anybody's: the address
\* does not tell, which the example documents as its limitation.)
StrictAcceptedAreSpawned ==
    \A f \in Accepting :
      LET s == accounts[f].sender IN
      accounts[s].version = "strict" => accounts[s].deployer = f
=============================================================================
