------------------------ MODULE FactoryProvenanceProofs ------------------------
(***************************************************************************)
(* What a derived address proves, for any packages, versions, salts and    *)
(* messages.  An account's state repeats what its address commits to; with *)
(* that, the address of a sender tells what its constructor was, and the   *)
(* constructor's own check tells who deployed it.                          *)
(***************************************************************************)
EXTENDS FactoryProvenance, TLAPS

Fields == {"version", "package", "role", "factory", "deployer", "salt", "accepted", "sender",
           "spawned"}

\* An account's state agrees with its address, and init has checked a child.
Described(a, st) ==
    /\ DOMAIN st = Fields
    /\ a.id.pkg = st.package /\ a.id.salt = st.salt
    /\ a.id.init.role = st.role /\ a.id.init.factory = st.factory
    /\ st.package = Package /\ st.role = "child" =>
         /\ st.salt \in Salts /\ st.deployer # External
         /\ st.version # "permissive" => st.deployer = st.factory

\* The account a factory has accepted exists, at an address derived from it.
Chosen(f, st, existing) ==
    st.sender # NoAddress =>
      /\ st.package = Package /\ st.role = "factory"
      /\ st.sender \in existing /\ st.sender.dapp = f.dapp
      /\ \E salt \in Salts : st.sender.id = child_account_id(Package, f, salt)

\* Nobody signs with an address that has no account.
Reporters == \A m \in transit : m.kind = "accept" => m.source \in DOMAIN accounts

IInv ==
    /\ \A a \in DOMAIN accounts :
         Described(a, accounts[a]) /\ Chosen(a, accounts[a], DOMAIN accounts)
    /\ Reporters

----------------------------------------------------------------------------
\* One account is added or replaced.
LEMMA OneAccount ==
    ASSUME IInv, NEW a, NEW st,
           accounts' = Accounts(a, st),
           Described(a, st), Chosen(a, st, DOMAIN accounts \cup {a}),
           \A m \in transit' : m \in transit \/ m.kind = "deploy"
    PROVE  IInv'
  <1>1. DOMAIN accounts' = DOMAIN accounts \cup {a}
    BY DEF Accounts
  <1>2. \A x \in DOMAIN accounts' : accounts'[x] = IF x = a THEN st ELSE accounts[x]
    BY DEF Accounts
  <1>3. ASSUME NEW x \in DOMAIN accounts'
        PROVE  Described(x, accounts'[x]) /\ Chosen(x, accounts'[x], DOMAIN accounts')
    <2>1. CASE x = a
      BY <1>1, <1>2, <2>1
    <2>2. CASE x # a
      <3>1. x \in DOMAIN accounts /\ accounts'[x] = accounts[x]
        BY <1>1, <1>2, <1>3, <2>2
      <3>2. Described(x, accounts[x]) /\ Chosen(x, accounts[x], DOMAIN accounts)
        BY <3>1 DEF IInv
      <3>3. Chosen(x, accounts[x], DOMAIN accounts')
        BY <1>1, <3>2 DEF Chosen
      <3>4. QED BY <3>1, <3>2, <3>3
    <2>3. QED BY <2>1, <2>2
  <1>4. Reporters'
    BY <1>1 DEF IInv, Reporters
  <1>5. QED BY <1>3, <1>4 DEF IInv, Described, Chosen

\* An account that init constructs is described by the address of its envelope.
LEMMA ConstructedDescribed ==
    ASSUME NEW e, NEW dapp, NEW caller, CanInit(e, caller)
    PROVE  /\ Described(AddressOf(e, dapp), Constructed(e, caller))
           /\ \A existing : Chosen(AddressOf(e, dapp), Constructed(e, caller), existing)
  BY DEF CanInit, DeployerAllowed, Described, Chosen, AddressOf, account_id, Constructed, Fields

\* Messages come and go, accounts stay.
LEMMA OnlyMessages ==
    ASSUME IInv, UNCHANGED accounts,
           \A m \in transit' : m \in transit \/ (m.kind = "accept" => m.source \in DOMAIN accounts)
    PROVE  IInv'
  BY DEF IInv, Reporters, Described, Chosen

----------------------------------------------------------------------------
LEMMA InitInv == Init => IInv
  BY DEF Init, IInv, Reporters

LEMMA StepInv == IInv /\ [Next]_vars => IInv'
  <1> SUFFICES ASSUME IInv, [Next]_vars PROVE IInv'
    OBVIOUS
  <1>1. ASSUME NEW e, NEW dapp, Publish(e, dapp) PROVE IInv'
    BY <1>1, ConstructedDescribed, OneAccount DEF Publish
  <1>2. ASSUME NEW m, DeliverDeploy(m) PROVE IInv'
    <2>1. m.to = AddressOf(m.envelope, m.to.dapp)
      BY <1>2 DEF DeliverDeploy
    <2>2. /\ Described(m.to, Constructed(m.envelope, m.source))
          /\ Chosen(m.to, Constructed(m.envelope, m.source), DOMAIN accounts \cup {m.to})
      BY <1>2, <2>1, ConstructedDescribed DEF DeliverDeploy
    <2>3. QED BY <1>2, <2>2, OneAccount DEF DeliverDeploy
  <1>3. ASSUME NEW m, DeliverReport(m) PROVE IInv'
    <2> DEFINE st == [accounts[m.to] EXCEPT !.accepted = (@ + 1) % (MaxU32 + 1), !.sender = m.source]
    <2>1. m.to \in DOMAIN accounts /\ accounts[m.to].package = Package
          /\ accounts[m.to].role = "factory"
      BY <1>3 DEF DeliverReport, HasRole, Ours
    <2>2. Described(m.to, accounts[m.to])
      BY <2>1 DEF IInv
    <2>3. /\ DOMAIN st = Fields /\ st.sender = m.source
          /\ \A x \in Fields \ {"accepted", "sender"} : st[x] = accounts[m.to][x]
      BY <2>2 DEF Described, Fields
    <2>4. /\ st.package = accounts[m.to].package /\ st.role = accounts[m.to].role
          /\ st.salt = accounts[m.to].salt /\ st.factory = accounts[m.to].factory
          /\ st.version = accounts[m.to].version /\ st.deployer = accounts[m.to].deployer
      BY <2>3 DEF Fields
    <2>5. Described(m.to, st)
      BY <2>2, <2>3, <2>4 DEF Described
    <2>6. m.source \in DOMAIN accounts
      BY <1>3 DEF DeliverReport, IInv, Reporters
    <2>7. Chosen(m.to, st, DOMAIN accounts \cup {m.to})
      BY <1>3, <2>1, <2>3, <2>4, <2>6 DEF DeliverReport, Derives, Chosen
    <2>8. accounts' = Accounts(m.to, st) /\ transit' \subseteq transit
      BY <1>3 DEF DeliverReport
    <2> HIDE DEF st
    <2>9. QED BY <2>5, <2>7, <2>8, OneAccount
  <1>4. ASSUME NEW m, Refuse(m) PROVE IInv'
    BY <1>4, OnlyMessages DEF Refuse
  <1>5. ASSUME NEW f, NEW salt, spawn(f, salt) PROVE IInv'
    <2> DEFINE child == AddressOf(child_deploy(f, f, salt), f.dapp)
               st == [accounts[f] EXCEPT !.spawned = child]
    <2>1. f \in DOMAIN accounts
      BY <1>5 DEF spawn, HasRole, Ours
    <2>2. Described(f, accounts[f]) /\ Chosen(f, accounts[f], DOMAIN accounts)
      BY <2>1 DEF IInv
    <2> HIDE DEF child
    <2>3. DOMAIN st = Fields /\ \A x \in Fields \ {"spawned"} : st[x] = accounts[f][x]
      BY <2>2 DEF Described, Fields
    <2>4. /\ st.package = accounts[f].package /\ st.role = accounts[f].role
          /\ st.salt = accounts[f].salt /\ st.factory = accounts[f].factory
          /\ st.version = accounts[f].version /\ st.deployer = accounts[f].deployer
          /\ st.sender = accounts[f].sender
      BY <2>3 DEF Fields
    <2>5. Described(f, st) /\ Chosen(f, st, DOMAIN accounts \cup {f})
      BY <2>2, <2>3, <2>4 DEF Described, Chosen
    <2>6. /\ accounts' = Accounts(f, st)
          /\ \A m \in transit' : m \in transit \/ m.kind = "deploy"
      BY <1>5 DEF spawn, Send, Deploy, child
    <2> HIDE DEF st
    <2>7. QED BY <2>5, <2>6, OneAccount
  <1>6. ASSUME NEW c, report(c) PROVE IInv'
    BY <1>6, OnlyMessages DEF report, Send, Report, HasRole, Ours
  <1>7. ASSUME NEW r, NEW f, NEW salt, relay_forge(r, f, salt) PROVE IInv'
    BY <1>7, OnlyMessages DEF relay_forge, Send, Deploy
  <1>8. ASSUME NEW r, NEW m, relay_send(r, m) PROVE IInv'
    BY <1>8, OnlyMessages DEF relay_send, Send, MaySendAnything
  <1>9. CASE UNCHANGED vars
    BY <1>9, OnlyMessages DEF vars
  <1>10. QED BY <1>1, <1>2, <1>3, <1>4, <1>5, <1>6, <1>7, <1>8, <1>9 DEF Next

\* Every account's state repeats what its address commits to, and whom a factory
\* accepted exists at an address derived from that factory.
THEOREM ProvenanceInvariant == Spec => []IInv
  BY InitInv, StepInv, PTL DEF Spec

----------------------------------------------------------------------------
\* Whom a factory accepted is an account of its own package and DApp that init
\* made a child of this factory (the derived-address policy of accept()).
THEOREM OnlyChildren == Spec => []AcceptedAreChildren
  <1>1. IInv => AcceptedAreChildren
    <2> SUFFICES ASSUME IInv, NEW f \in Accepting
                 PROVE  LET s == accounts[f].sender IN
                        /\ accounts[f].role = "factory" /\ s.dapp = f.dapp
                        /\ HasRole(s, "child") /\ accounts[s].factory = f
                        /\ accounts[s].salt \in Salts
      BY DEF AcceptedAreChildren
    <2> DEFINE s == accounts[f].sender
    <2>1. f \in DOMAIN accounts /\ s # NoAddress
      BY DEF Accepting
    <2>2. /\ accounts[f].role = "factory" /\ s \in DOMAIN accounts /\ s.dapp = f.dapp
          /\ \E salt \in Salts : s.id = child_account_id(Package, f, salt)
      BY <2>1 DEF IInv, Chosen
    <2>3. s.id.pkg = Package /\ s.id.init.role = "child" /\ s.id.init.factory = f
      BY <2>2 DEF child_account_id, account_id, child_init
    <2>4. Described(s, accounts[s])
      BY <2>2 DEF IInv
    <2>5. QED BY <2>2, <2>3, <2>4 DEF Described, HasRole, Ours
  <1>2. QED BY <1>1, ProvenanceInvariant, PTL

\* An accepted account of the strict version was deployed by the factory itself
\* (the deployer check of the child's init).
THEOREM StrictAreSpawned == Spec => []StrictAcceptedAreSpawned
  <1>1. IInv /\ AcceptedAreChildren => StrictAcceptedAreSpawned
    <2> SUFFICES ASSUME IInv, AcceptedAreChildren, NEW f \in Accepting,
                        accounts[accounts[f].sender].version = "strict"
                 PROVE  accounts[accounts[f].sender].deployer = f
      BY DEF StrictAcceptedAreSpawned
    <2> DEFINE s == accounts[f].sender
    <2>1. HasRole(s, "child") /\ accounts[s].factory = f
      BY DEF AcceptedAreChildren
    <2>2. Described(s, accounts[s])
      BY <2>1 DEF IInv, HasRole, Ours
    <2>3. QED BY <2>1, <2>2 DEF Described, HasRole, Ours
  <1>2. QED BY <1>1, ProvenanceInvariant, OnlyChildren, PTL
=============================================================================
