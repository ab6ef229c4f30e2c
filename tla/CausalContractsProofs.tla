----------------------- MODULE CausalContractsProofs -----------------------
(***************************************************************************)
(* What an account of contract A can rely on between its forward and the   *)
(* answer, for any number of accounts, receivers and messages.  The ids of *)
(* an account's messages are its count of forwards, so the count tells, in *)
(* every state, whether the one outstanding message is the first.          *)
(***************************************************************************)
EXTENDS CausalContracts, FiniteSetTheorems, TLAPS

\* The account's count of forwards is the number of messages it has sent, and
\* their ids are numbered by it.
Numbered ==
    \A a \in Senders :
      /\ IsFiniteSet(IdsOf(a))
      /\ Cardinality(IdsOf(a)) = acct[a].forwards
      /\ \A id \in IdsOf(a) : id[1] = a /\ id[2] \in 1..acct[a].forwards

\* An id names one message; a deploy asks for no answer.
OneMessage ==
    /\ \A m, n \in sent : m.id = n.id => m = n
    /\ \A m \in sent : m.method = "deploy" => ~m.wants

\* A message is accepted or fails, once.
Decided ==
    /\ committed \cap refused = {}
    /\ \A id \in committed \cup refused : \E m \in sent : m.id = id

\* The tail is flipped by the upgrade alone, the marker's first byte rewritten by
\* a probe of the upgraded code alone; an answer is counted where its hash is.
Marked ==
    \A a \in Senders :
      /\ IF a \in upgraded
           THEN /\ version[a] = 2 /\ acct[a].flipped /\ acct[a].record = "migration"
                /\ acct[a].first = IF a \in probed THEN 2 ELSE V
           ELSE ~acct[a].flipped
      /\ acct[a].callbacks = 1 <=> acct[a].hash # NoHash

IInv == TypeOK /\ Numbered /\ OneMessage /\ Decided /\ Marked /\ AnswerIsOwn

----------------------------------------------------------------------------
(***************************************************************************)
(* The state changes keep the type of a state.                             *)
(***************************************************************************)
LEMMA StateTypes ==
    ASSUME NEW s \in AStates
    PROVE  /\ NewA \in AStates
           /\ Forwarded(s) \in AStates /\ Deployed(s) \in AStates /\ Migrated(s) \in AStates
           /\ \A ver \in {1, 2} : Probed(s, ver) \in AStates
           /\ \A id \in Ids : Recorded(s, id) \in AStates
  <1>1. NewA \in AStates
    BY DEF AStates, NewA
  <1>2. Forwarded(s) \in AStates
    <2>1. s.forwards + 1 \in Nat
      BY DEF AStates
    <2>2. QED BY <1>1, <2>1 DEF AStates, Forwarded
  <1>3. Deployed(s) \in AStates
    BY DEF AStates, Deployed
  <1>4. Migrated(s) \in AStates
    BY DEF AStates, Migrated
  <1>5. ASSUME NEW ver \in {1, 2} PROVE Probed(s, ver) \in AStates
    BY DEF AStates, Probed
  <1>6. ASSUME NEW id \in Ids PROVE Recorded(s, id) \in AStates
    BY DEF AStates, NewA, Recorded
  <1>7. QED BY <1>1, <1>2, <1>3, <1>4, <1>5, <1>6

LEMMA ReceiverTypes ==
    ASSUME NEW b \in BStates
    PROVE  /\ NoB \in BStates /\ NewB \in BStates /\ Received(b) \in BStates
           /\ [NewB EXCEPT !.count = 1, !.events = 1] \in BStates
           /\ [b EXCEPT !.count = 1, !.blank = FALSE] \in BStates
  <1>1. NoB \in BStates /\ NewB \in BStates
    BY DEF BStates, NoB, NewB
  <1>2. Received(b) \in BStates
    <2>1. b.count + 1 \in Nat /\ b.events + 1 \in Nat
      BY DEF BStates
    <2> DEFINE counted == [b EXCEPT !.count = b.count + 1]
    <2>2. counted \in BStates /\ counted.events = b.events
      BY <2>1 DEF BStates
    <2>3. [counted EXCEPT !.blank = FALSE, !.events = b.events + 1] \in BStates
      BY <2>1, <2>2 DEF BStates
    <2>4. Received(b) = [counted EXCEPT !.blank = FALSE, !.events = b.events + 1]
      BY DEF BStates, Received
    <2>5. QED BY <2>3, <2>4
  <1>3. [NewB EXCEPT !.count = 1, !.events = 1] \in BStates
    BY DEF BStates, NoB, NewB
  <1>4. [b EXCEPT !.count = 1, !.blank = FALSE] \in BStates
    BY DEF BStates
  <1>5. QED BY <1>1, <1>2, <1>3, <1>4

----------------------------------------------------------------------------
(***************************************************************************)
(* A new message.                                                          *)
(***************************************************************************)
LEMMA NewMessage ==
    ASSUME IInv, NEW a \in Senders, NEW to \in Receivers \cup {Patcher},
           NEW method \in Methods \cup {"deploy"}, NEW wants \in BOOLEAN, NEW st \in AStates,
           method = "deploy" => ~wants,
           st.forwards = acct[a].forwards + 1,
           acct' = [acct EXCEPT ![a] = st],
           sent' = sent \cup {Message(a, to, method, wants)}
    PROVE  /\ Numbered' /\ OneMessage'
           /\ acct' \in [Senders -> AStates]
           /\ sent' \subseteq MessageRecords
           /\ \A m \in sent' \ sent : m.from = a /\ m.method = method
           /\ NextId(a) \notin committed
  <1> DEFINE new == Message(a, to, method, wants)
  <1>1. /\ new.id = <<a, acct[a].forwards + 1>> /\ new.from = a /\ new.to = to
        /\ new.method = method /\ new.wants = wants
        /\ acct[a].forwards \in Nat /\ NextId(a) = <<a, acct[a].forwards + 1>>
    BY DEF IInv, TypeOK, AStates, Numbered, Message, NextId
  <1>2. new \in MessageRecords
    BY <1>1 DEF MessageRecords, Message, Ids
  <1>3. \A x \in Senders : IdsOf(x)' = IF x = a THEN IdsOf(x) \cup {new.id} ELSE IdsOf(x)
    BY <1>1 DEF IdsOf
  <1>4. \A x \in Senders : acct'[x] = IF x = a THEN st ELSE acct[x]
    BY DEF IInv, TypeOK
  <1>5. acct' \in [Senders -> AStates]
    BY DEF IInv, TypeOK
  <1>6. \A x \in Senders : acct[x].forwards \in Nat
    BY DEF IInv, TypeOK, AStates
  <1>7. new.id \notin IdsOf(a)
    BY <1>1 DEF IInv, Numbered
  <1>8. Numbered'
    <2> SUFFICES ASSUME NEW x \in Senders
                 PROVE  /\ IsFiniteSet(IdsOf(x)')
                        /\ Cardinality(IdsOf(x)') = acct'[x].forwards
                        /\ \A id \in IdsOf(x)' : id[1] = x /\ id[2] \in 1..acct'[x].forwards
      BY DEF Numbered
    <2>1. /\ IsFiniteSet(IdsOf(x)) /\ Cardinality(IdsOf(x)) = acct[x].forwards
          /\ \A id \in IdsOf(x) : id[1] = x /\ id[2] \in 1..acct[x].forwards
      BY DEF IInv, Numbered
    <2>2. CASE x # a
      BY <1>3, <1>4, <2>1, <2>2
    <2>3. CASE x = a
      <3>1. IsFiniteSet(IdsOf(a) \cup {new.id})
            /\ Cardinality(IdsOf(a) \cup {new.id}) = Cardinality(IdsOf(a)) + 1
        BY <1>7, <2>1, <2>3, FS_AddElement
      <3>2. new.id[1] = a /\ new.id[2] = acct[a].forwards + 1
        BY <1>1
      <3>3. \A id \in IdsOf(a) \cup {new.id} : id[1] = a /\ id[2] \in 1..(acct[a].forwards + 1)
        BY <1>6, <2>1, <2>3, <3>2
      <3>4. QED BY <1>3, <1>4, <2>1, <2>3, <3>1, <3>3
    <2>4. QED BY <2>2, <2>3
  <1>9. \A m \in sent : m.id # new.id
    <2> SUFFICES ASSUME NEW m \in sent, m.id = new.id PROVE FALSE
      OBVIOUS
    <2>1. m.from \in Senders /\ m.id \in IdsOf(m.from)
      BY DEF IInv, TypeOK, MessageRecords, IdsOf
    <2>2. m.id[1] = m.from
      BY <2>1 DEF IInv, Numbered
    <2>3. m.id[1] = a
      BY <1>1
    <2>4. QED BY <1>7, <2>1, <2>2, <2>3
  <1>10. OneMessage'
    BY <1>1, <1>9 DEF IInv, OneMessage
  <1>11. NextId(a) \notin committed
    BY <1>1, <1>9 DEF IInv, Decided
  <1>12. sent' \subseteq MessageRecords
    BY <1>2 DEF IInv, TypeOK
  <1>13. QED BY <1>1, <1>5, <1>8, <1>10, <1>11, <1>12

\* Where no message is sent and no count of forwards changes, ids stay numbered.
LEMMA SameMessages ==
    ASSUME IInv, sent' = sent, \A a \in Senders : acct'[a].forwards = acct[a].forwards
    PROVE  Numbered' /\ OneMessage'
  BY DEF IInv, Numbered, OneMessage, IdsOf

\* Handlers that write neither code nor state of contract A.
LEMMA ReceiversStep ==
    ASSUME IInv, UNCHANGED <<version, acct, upgraded, probed, sent>>,
           recv' \in [Receivers -> BStates], counter' \in Nat, payouts' \in [Senders -> Nat],
           committed \subseteq committed',
           \A id \in (committed' \cup refused') \ (committed \cup refused) : \E m \in sent : m.id = id,
           committed' \cap refused' = {}
    PROVE  IInv'
  <1>1. TypeOK'
    <2>1. committed' \subseteq Ids /\ refused' \subseteq Ids
      BY DEF IInv, TypeOK, MessageRecords
    <2>2. QED BY <2>1 DEF IInv, TypeOK
  <1>2. Numbered' /\ OneMessage'
    BY SameMessages DEF IInv
  <1>3. Decided'
    BY DEF IInv, Decided
  <1>4. Marked'
    BY DEF IInv, Marked
  <1>5. AnswerIsOwn'
    BY <1>3 DEF IInv, AnswerIsOwn, Plain, Decided
  <1>6. QED BY <1>1, <1>2, <1>3, <1>4, <1>5 DEF IInv

\* A forward finds its account without an answer; a deploy leaves what it finds.
LEMMA SendStep ==
    ASSUME IInv, NEW a \in Senders, NEW to \in Receivers \cup {Patcher},
           NEW method \in Methods \cup {"deploy"}, NEW wants \in BOOLEAN, NEW st \in AStates,
           method = "deploy" => ~wants,
           st.forwards = acct[a].forwards + 1,
           \/ st.hash = NoHash /\ st.callbacks = 0 /\ Untouched(acct[a]) /\ ~st.flipped
           \/ method = "deploy" /\ st = Deployed(acct[a]),
           acct' = [acct EXCEPT ![a] = st],
           sent' = sent \cup {Message(a, to, method, wants)},
           UNCHANGED <<version, upgraded, probed, recv, counter, payouts, committed, refused>>
    PROVE  IInv'
  <1>1. /\ Numbered' /\ OneMessage' /\ acct' \in [Senders -> AStates] /\ sent' \subseteq MessageRecords
        /\ \A m \in sent' \ sent : m.from = a /\ m.method = method
    BY NewMessage
  <1>2. TypeOK'
    BY <1>1 DEF IInv, TypeOK
  <1>3. Decided'
    BY DEF IInv, Decided
  <1>4. \A x \in Senders : acct'[x] = IF x = a THEN st ELSE acct[x]
    BY DEF IInv, TypeOK
  <1>5. st = Deployed(acct[a]) =>
          /\ st.hash = acct[a].hash /\ st.callbacks = acct[a].callbacks /\ st.flipped = acct[a].flipped
          /\ st.record = acct[a].record /\ st.first = acct[a].first
    BY DEF IInv, TypeOK, AStates, Deployed
  <1>6. Marked'
    BY <1>4, <1>5 DEF IInv, Marked, Untouched
  <1>7. AnswerIsOwn'
    <2> SUFFICES ASSUME NEW x \in Senders, acct'[x].hash # NoHash
                 PROVE  /\ acct'[x].callbacks = 1
                        /\ \E m \in Plain(x)' :
                             /\ Plain(x)' = {m} /\ m.id = acct'[x].hash
                             /\ m.wants /\ m.id \in committed' /\ m.id \notin refused'
      BY DEF AnswerIsOwn
    <2>1. acct[x].hash = acct'[x].hash /\ acct'[x].callbacks = acct[x].callbacks
      BY <1>4, <1>5
    <2>2. x = a => method = "deploy"
      BY <1>4
    <2>3. Plain(x)' = Plain(x)
      BY <1>1, <2>2 DEF Plain
    <2>4. QED BY <2>1, <2>3 DEF IInv, AnswerIsOwn
  <1>8. QED BY <1>1, <1>2, <1>3, <1>6, <1>7 DEF IInv

\* The state of one account changes, the history does not.
LEMMA WriteStep ==
    ASSUME IInv, NEW a \in Senders, NEW st \in AStates,
           st.forwards = acct[a].forwards, st.hash = acct[a].hash,
           st.callbacks = acct[a].callbacks,
           acct' = [acct EXCEPT ![a] = st],
           version' \in [Senders -> {1, 2}], upgraded' \subseteq Senders, probed' \subseteq Senders,
           Marked',
           UNCHANGED <<sent, recv, counter, payouts, committed, refused>>
    PROVE  IInv'
  <1>1. \A x \in Senders : acct'[x] = IF x = a THEN st ELSE acct[x]
    BY DEF IInv, TypeOK
  <1>2. TypeOK'
    BY DEF IInv, TypeOK
  <1>3. Numbered' /\ OneMessage'
    BY <1>1, SameMessages
  <1>4. Decided' /\ AnswerIsOwn'
    BY <1>1 DEF IInv, Decided, AnswerIsOwn, Plain
  <1>5. QED BY <1>2, <1>3, <1>4 DEF IInv

----------------------------------------------------------------------------
(***************************************************************************)
(* The answer.  It is taken at a count of one forward: the message it      *)
(* answers is the only one the account has sent.                           *)
(***************************************************************************)
LEMMA CallbackStep ==
    ASSUME IInv, NEW m \in sent, Callback(m)
    PROVE  IInv'
  <1> DEFINE a == m.from
             st == Recorded(acct[a], m.id)
  <1>1. a \in Senders /\ m.id \in Ids /\ m.id \in IdsOf(a) /\ acct[a] \in AStates
    BY DEF IInv, TypeOK, MessageRecords, IdsOf
  <1>2. /\ m.wants /\ m.id \in committed /\ m.id \notin refused /\ m.method # "deploy"
        /\ acct[a].forwards = 1 /\ Untouched(acct[a])
        /\ acct' = [acct EXCEPT ![a] = st]
        /\ UNCHANGED <<version, upgraded, probed, recv, counter, payouts, sent, committed, refused>>
    BY DEF Callback, CanRecord, IInv, OneMessage, Decided
  <1>3. /\ st \in AStates /\ st.forwards = acct[a].forwards /\ st.hash = m.id
        /\ st.callbacks = 1 /\ ~st.flipped
    BY <1>1, StateTypes DEF Recorded, NewA
  <1> HIDE DEF st
  <1>4. \A x \in Senders : acct'[x] = IF x = a THEN st ELSE acct[x]
    BY <1>2 DEF IInv, TypeOK
  <1>5. TypeOK'
    BY <1>2, <1>3 DEF IInv, TypeOK
  <1>6. Numbered' /\ OneMessage'
    BY <1>2, <1>3, <1>4, SameMessages
  <1>7. Decided'
    BY <1>2 DEF IInv, Decided
  <1>8. Marked'
    <2>1. m.id # NoHash
      BY <1>1 DEF Ids, NoHash
    <2>2. QED BY <1>2, <1>3, <1>4, <2>1 DEF IInv, Marked, Untouched
  <1>9. Plain(a) = {m}
    <2>1. IdsOf(a) = {m.id}
      BY <1>1, <1>2, FS_Singleton DEF IInv, Numbered
    <2>2. \A n \in Plain(a) : n.id = m.id
      BY <2>1 DEF Plain, IdsOf
    <2>3. QED BY <1>2, <2>2 DEF IInv, OneMessage, Plain
  <1>10. AnswerIsOwn'
    BY <1>2, <1>3, <1>4, <1>9 DEF IInv, AnswerIsOwn, Plain
  <1>11. QED BY <1>5, <1>6, <1>7, <1>8, <1>10 DEF IInv

----------------------------------------------------------------------------
LEMMA InitInv == Init => IInv
  <1> SUFFICES ASSUME Init PROVE IInv
    OBVIOUS
  <1>1. TypeOK
    BY StateTypes, RouteAssumption DEF Init, TypeOK, AStates, BStates, NewA, NewB, NoB, Ids, NoHash
  <1>2. \A a \in Senders : IdsOf(a) = {}
    BY DEF Init, IdsOf
  <1>3. Numbered
    BY <1>2, FS_EmptySet DEF Init, Numbered, NewA
  <1>4. OneMessage /\ Decided /\ Marked /\ AnswerIsOwn
    BY DEF Init, OneMessage, Decided, Marked, AnswerIsOwn, NewA, NoHash
  <1>5. QED BY <1>1, <1>3, <1>4 DEF IInv

LEMMA UserStep == IInv /\ Users => IInv'
  <1> SUFFICES ASSUME IInv, NEW a \in Senders,
                      \/ \E route \in Routes, wants \in BOOLEAN : Forward(a, route, wants)
                      \/ \E r \in Fresh : Deploy(a, r)
                      \/ Probe(a)
                      \/ Upgrade(a)
               PROVE  IInv'
    BY DEF Users
  <1>0. acct[a] \in AStates /\ version[a] \in {1, 2} /\ acct[a].forwards \in Nat
    BY DEF IInv, TypeOK, AStates
  <1>1. ASSUME NEW route \in Routes, NEW wants \in BOOLEAN, Forward(a, route, wants) PROVE IInv'
    <2>1. /\ route[1] \in Receivers \cup {Patcher} /\ route[2] \in Methods /\ route[2] # "deploy"
      BY RouteAssumption DEF Methods
    <2>2. /\ Forwarded(acct[a]) \in AStates /\ Forwarded(acct[a]).hash = NoHash
          /\ Forwarded(acct[a]).forwards = acct[a].forwards + 1 /\ ~Forwarded(acct[a]).flipped
          /\ Forwarded(acct[a]).callbacks = 0
      BY <1>0, StateTypes DEF Forwarded, NewA
    <2>3. QED BY <1>1, <2>1, <2>2, SendStep DEF Forward, CanForward
  <1>2. ASSUME NEW r \in Fresh, Deploy(a, r) PROVE IInv'
    <2>1. r \in Receivers
      BY RouteAssumption
    <2>2. /\ Deployed(acct[a]) \in AStates
          /\ Deployed(acct[a]).forwards = acct[a].forwards + 1
      BY <1>0, StateTypes DEF Deployed, AStates
    <2>3. QED BY <1>2, <2>1, <2>2, SendStep DEF Deploy
  <1>3. CASE Probe(a)
    <2> DEFINE st == Probed(acct[a], version[a])
    <2>1. /\ st \in AStates /\ st.forwards = acct[a].forwards /\ st.hash = acct[a].hash
          /\ st.callbacks = acct[a].callbacks /\ st.flipped = acct[a].flipped
          /\ st.record = acct[a].record /\ st.first = version[a]
      BY <1>0, StateTypes DEF Probed, AStates
    <2> HIDE DEF st
    <2>2. /\ probed' = probed \cup {a} /\ acct' = [acct EXCEPT ![a] = st]
          /\ UNCHANGED <<version, upgraded, recv, counter, payouts, sent, committed, refused>>
      BY <1>3 DEF Probe, st
    <2>3. Marked'
      BY <2>1, <2>2 DEF IInv, Marked, TypeOK
    <2>4. /\ version' \in [Senders -> {1, 2}] /\ upgraded' \subseteq Senders /\ probed' \subseteq Senders
      BY <2>2 DEF IInv, TypeOK
    <2>5. QED BY <2>1, <2>2, <2>3, <2>4, WriteStep
  <1>4. CASE Upgrade(a)
    <2> DEFINE st == Migrated(acct[a])
    <2>1. /\ st \in AStates /\ st.forwards = acct[a].forwards /\ st.hash = acct[a].hash
          /\ st.callbacks = acct[a].callbacks
          /\ ~acct[a].flipped => st.flipped
          /\ st.record = "migration" /\ st.first = V
      <3>1. st \in AStates
        BY <1>0, StateTypes
      <3>2. /\ st.forwards = acct[a].forwards /\ st.hash = acct[a].hash
            /\ st.callbacks = acct[a].callbacks
            /\ st.record = "migration" /\ st.first = V
        BY <1>0 DEF Migrated, AStates
      <3>3. ~acct[a].flipped => st.flipped
        BY <1>0, Zenon DEF Migrated, AStates
      <3>4. QED BY <3>1, <3>2, <3>3
    <2> HIDE DEF st
    <2>2. /\ version[a] = 1 /\ version' = [version EXCEPT ![a] = 2] /\ upgraded' = upgraded \cup {a}
          /\ probed' = probed \ {a} /\ acct' = [acct EXCEPT ![a] = st]
          /\ UNCHANGED <<recv, counter, payouts, sent, committed, refused>>
      BY <1>4 DEF Upgrade, st
    <2>3. a \notin upgraded /\ ~acct[a].flipped
      BY <2>2 DEF IInv, Marked
    <2>4. Marked'
      BY <2>1, <2>2, <2>3 DEF IInv, Marked, TypeOK
    <2>5. /\ version' \in [Senders -> {1, 2}] /\ upgraded' \subseteq Senders /\ probed' \subseteq Senders
      BY <2>2 DEF IInv, TypeOK
    <2>6. QED BY <2>1, <2>2, <2>4, <2>5, WriteStep
  <1>5. QED BY <1>1, <1>2, <1>3, <1>4

LEMMA RuntimeStep == IInv /\ Runtime => IInv'
  <1> SUFFICES ASSUME IInv, Runtime PROVE IInv'
    OBVIOUS
  <1>0. /\ recv \in [Receivers -> BStates] /\ counter \in Nat /\ payouts \in [Senders -> Nat]
        /\ \A r \in Receivers : recv[r] \in BStates
        /\ \A m \in sent : m.from \in Senders /\ m.to \in Receivers \cup {Patcher}
    BY DEF IInv, TypeOK, MessageRecords
  <1>1. ASSUME NEW m \in Transit, Receive(m) \/ Drain(m) \/ Create(m) \/ Refuse(m) PROVE IInv'
    <2>1. m \in sent /\ m.id \notin committed \cup refused
      BY DEF Transit
    <2>2. recv' \in [Receivers -> BStates] /\ counter' \in Nat /\ payouts' \in [Senders -> Nat]
      <3>1. Receive(m) => recv' \in [Receivers -> BStates]
        <4>1. m.to \in Receivers => Received(recv[m.to]) \in BStates
          BY <1>0, ReceiverTypes
        <4>2. QED BY <1>0, <4>1 DEF Receive
      <3>2. Create(m) => recv' \in [Receivers -> BStates]
        BY <1>0, <2>1, ReceiverTypes DEF Create
      <3>3. Drain(m) \/ Create(m) => payouts' \in [Senders -> Nat]
        BY <1>0, <2>1 DEF Drain, Create
      <3>4. QED BY <1>0, <1>1, <3>1, <3>2, <3>3 DEF Receive, Drain, Create, Refuse
    <2>3. /\ UNCHANGED <<version, acct, upgraded, probed, sent>>
          /\ \/ committed' = committed \cup {m.id} /\ refused' = refused
             \/ committed' = committed /\ refused' = refused \cup {m.id}
      BY <1>1 DEF Receive, Drain, Create, Refuse, Commit, senders
    <2>4. committed' \cap refused' = {}
      BY <2>1, <2>3 DEF IInv, Decided
    <2>5. QED BY <2>1, <2>2, <2>3, <2>4, ReceiversStep
  <1>2. CASE Answer
    BY <1>2, CallbackStep DEF Answer
  <1>3. ASSUME NEW batch \in SUBSET {m \in Transit : m.to = Patcher}, BatchPatch(batch) PROVE IInv'
    <2>1. \A m \in batch : m \in sent /\ m.id \notin committed \cup refused
      BY DEF Transit
    <2>2. /\ UNCHANGED <<version, acct, upgraded, probed, recv, payouts, sent>>
          /\ counter' \in Nat
          /\ \/ committed' = committed \cup {m.id : m \in batch} /\ refused' = refused
             \/ committed' = committed /\ refused' = refused \cup {m.id : m \in batch}
      BY <1>0, <1>3 DEF BatchPatch, senders
    <2>3. committed' \cap refused' = {}
      BY <2>1, <2>2 DEF IInv, Decided
    <2>4. QED BY <1>0, <2>1, <2>2, <2>3, ReceiversStep
  <1>4. ASSUME NEW a \in Senders, Payout(a) PROVE IInv'
    <2>1. acct' = [acct EXCEPT ![a] = acct[a]] /\ payouts' \in [Senders -> Nat]
      BY <1>0, <1>4 DEF Payout, PaidOut
    <2>2. acct' = acct
      BY <2>1 DEF IInv, TypeOK
    <2>3. QED BY <1>0, <1>4, <2>1, <2>2, ReceiversStep DEF Payout, IInv, Decided
  <1>5. ASSUME NEW r \in Receivers, NEW source \in Receivers, EventRead(r, source) PROVE IInv'
    <2>1. recv' \in [Receivers -> BStates]
      BY <1>0, <1>5, ReceiverTypes DEF EventRead
    <2>2. QED BY <1>0, <1>5, <2>1, ReceiversStep DEF EventRead, senders, IInv, Decided
  <1>6. QED BY <1>1, <1>2, <1>3, <1>4, <1>5 DEF Runtime, Deliver

LEMMA StepInv == IInv /\ [Next]_vars => IInv'
  <1>1. IInv /\ UNCHANGED vars => IInv'
    <2> SUFFICES ASSUME IInv, UNCHANGED vars PROVE IInv'
      OBVIOUS
    <2>1. TypeOK'
      BY DEF vars, senders, IInv, TypeOK
    <2>2. Numbered' /\ OneMessage'
      BY SameMessages DEF vars, senders
    <2>3. Decided' /\ Marked'
      BY DEF vars, senders, IInv, Decided, Marked
    <2>4. AnswerIsOwn'
      BY DEF vars, senders, IInv, AnswerIsOwn, Plain
    <2>5. QED BY <2>1, <2>2, <2>3, <2>4 DEF IInv
  <1>2. QED BY <1>1, UserStep, RuntimeStep DEF Next

LEMMA Invariance == Spec => []IInv
  BY InitInv, StepInv, PTL DEF Spec

----------------------------------------------------------------------------
\* The types of accounts, receivers and messages.
THEOREM TypeCorrect == Spec => []TypeOK
  <1>1. IInv => TypeOK
    BY DEF IInv
  <1>2. QED BY <1>1, Invariance, PTL

\* An account of contract A that holds an answer holds that of the one plain
\* message it ever sent, accepted by its receiver, however often answers are
\* repeated and whatever probes, upgrades and deploys come between.
THEOREM AnswersAreOwn == Spec => []AnswerIsOwn
  <1>1. IInv => AnswerIsOwn
    BY DEF IInv
  <1>2. QED BY <1>1, Invariance, PTL

\* What process_code_upgrade wrote is kept but for the marker's first byte, which
\* only an external probe of the new code rewrites: every later forward and
\* answer finds bytes that are not zero.
THEOREM MigrationsKept == Spec => []MigrationKept
  <1>1. IInv => MigrationKept
    BY DEF IInv, TypeOK, Marked, MigrationKept
  <1>2. QED BY <1>1, Invariance, PTL

----------------------------------------------------------------------------
(***************************************************************************)
(* The counters.  A receiver's count can be compared with its history as   *)
(* an account that does not exist has none and a message is accepted once. *)
(***************************************************************************)
Absent ==
    /\ IsFiniteSet(sent)
    /\ \A m \in sent : m.method = "deploy" => m.to \in Receivers
    /\ \A r \in Receivers : ~recv[r].exists => recv[r].events = 0 /\ recv[r].count = 0

ForPatcher == {m \in sent : m.id \in committed /\ m.to = Patcher}

\* CountsExplained for one receiver.
Explained(r) ==
    /\ recv[r].events = Cardinality(Accepted(r, "receive")) + Cardinality(Accepted(r, "deploy"))
    /\ recv[r].count - recv[r].events \in {0, 1}
    /\ recv[r].blank => recv[r].count = Cardinality(Accepted(r, "deploy"))

Counted ==
    /\ \A r \in Receivers : Explained(r)
    /\ counter = Cardinality(ForPatcher)

CInv == IInv /\ Absent /\ Counted

\* Accepting one message adds it to the set it belongs to, and to no other.
LEMMA AcceptOne ==
    ASSUME CInv, NEW m \in Transit, committed' = committed \cup {m.id}, sent' = sent
    PROVE  /\ \A r, method :
                /\ IsFiniteSet(Accepted(r, method)) /\ Cardinality(Accepted(r, method)) \in Nat
                /\ Cardinality(Accepted(r, method)') =
                     IF m.to = r /\ m.method = method THEN Cardinality(Accepted(r, method)) + 1
                     ELSE Cardinality(Accepted(r, method))
           /\ Cardinality(ForPatcher) \in Nat
           /\ Cardinality(ForPatcher') =
                IF m.to = Patcher THEN Cardinality(ForPatcher) + 1 ELSE Cardinality(ForPatcher)
  <1>1. m \in sent /\ m.id \notin committed /\ \A n \in sent : n.id = m.id => n = m
    BY DEF Transit, CInv, IInv, OneMessage
  <1>2. ASSUME NEW r, NEW method
        PROVE  /\ IsFiniteSet(Accepted(r, method)) /\ Cardinality(Accepted(r, method)) \in Nat
               /\ Cardinality(Accepted(r, method)') =
                    IF m.to = r /\ m.method = method THEN Cardinality(Accepted(r, method)) + 1
                    ELSE Cardinality(Accepted(r, method))
    <2>1. IsFiniteSet(Accepted(r, method)) /\ Cardinality(Accepted(r, method)) \in Nat
      BY FS_Subset, FS_CardinalityType DEF Accepted, CInv, Absent
    <2>2. /\ m \notin Accepted(r, method)
          /\ Accepted(r, method)' = IF m.to = r /\ m.method = method
                                    THEN Accepted(r, method) \cup {m} ELSE Accepted(r, method)
      BY <1>1 DEF Accepted
    <2>3. QED BY <2>1, <2>2, FS_AddElement
  <1>3. IsFiniteSet(ForPatcher) /\ Cardinality(ForPatcher) \in Nat
    BY FS_Subset, FS_CardinalityType DEF ForPatcher, CInv, Absent
  <1>4. /\ m \notin ForPatcher
        /\ ForPatcher' = IF m.to = Patcher THEN ForPatcher \cup {m} ELSE ForPatcher
    BY <1>1 DEF ForPatcher
  <1>5. Cardinality(ForPatcher') =
          IF m.to = Patcher THEN Cardinality(ForPatcher) + 1 ELSE Cardinality(ForPatcher)
    BY <1>3, <1>4, FS_AddElement
  <1>6. QED BY <1>2, <1>3, <1>5

\* One message more, not yet accepted, or none.
LEMMA NothingAccepted ==
    ASSUME CInv, committed' = committed, UNCHANGED <<recv, counter>>,
           \/ sent' = sent
           \/ \E m : /\ sent' = sent \cup {m} /\ m.id \notin committed
                     /\ m.method = "deploy" => m.to \in Receivers
    PROVE  Absent' /\ Counted'
  <1>1. (\A r, method : Accepted(r, method)' = Accepted(r, method)) /\ ForPatcher' = ForPatcher
    BY DEF Accepted, ForPatcher
  <1>2. Absent'
    BY FS_AddElement DEF CInv, Absent
  <1>3. QED BY <1>1, <1>2 DEF CInv, Counted, Explained

LEMMA CountsUser == CInv /\ Users => Absent' /\ Counted'
  <1> SUFFICES ASSUME CInv, NEW a \in Senders,
                      \/ \E route \in Routes, wants \in BOOLEAN : Forward(a, route, wants)
                      \/ \E r \in Fresh : Deploy(a, r)
                      \/ Probe(a)
                      \/ Upgrade(a)
               PROVE  Absent' /\ Counted'
    BY DEF Users
  <1>0. /\ acct[a] \in AStates /\ NextId(a) = <<a, acct[a].forwards + 1>>
        /\ acct[a].forwards \in Nat
    BY DEF CInv, IInv, TypeOK, AStates, Numbered, NextId
  <1>1. NextId(a) \notin committed
    <2> SUFFICES ASSUME NextId(a) \in committed PROVE FALSE
      OBVIOUS
    <2>1. PICK m \in sent : m.id = NextId(a)
      BY DEF CInv, IInv, Decided
    <2>2. m.from \in Senders /\ m.id \in IdsOf(m.from)
      BY DEF CInv, IInv, TypeOK, MessageRecords, IdsOf
    <2>3. m.id[1] = m.from /\ m.id[1] = a /\ m.id[2] = acct[a].forwards + 1
      BY <1>0, <2>1, <2>2 DEF CInv, IInv, Numbered
    <2>4. m.id[2] \in 1..acct[a].forwards
      BY <2>2, <2>3 DEF CInv, IInv, Numbered
    <2>5. QED BY <1>0, <2>3, <2>4
  <1>2. ASSUME NEW route \in Routes, NEW wants \in BOOLEAN, Forward(a, route, wants)
        PROVE  Absent' /\ Counted'
    <2> DEFINE m == Message(a, route[1], route[2], wants)
    <2>1. m.id \notin committed /\ m.method # "deploy"
      BY <1>1, RouteAssumption DEF Message, Methods
    <2>2. QED BY <1>2, <2>1, NothingAccepted DEF Forward
  <1>3. ASSUME NEW r \in Fresh, Deploy(a, r) PROVE Absent' /\ Counted'
    <2> DEFINE m == Message(a, r, "deploy", FALSE)
    <2>1. m.id \notin committed /\ m.to \in Receivers
      BY <1>1, RouteAssumption DEF Message
    <2>2. QED BY <1>3, <2>1, NothingAccepted DEF Deploy
  <1>4. CASE Probe(a)
    BY <1>4, NothingAccepted DEF Probe
  <1>5. CASE Upgrade(a)
    BY <1>5, NothingAccepted DEF Upgrade
  <1>6. QED BY <1>2, <1>3, <1>4, <1>5

LEMMA CountsRuntime == CInv /\ Runtime => Absent' /\ Counted'
  <1> SUFFICES ASSUME CInv, Runtime PROVE Absent' /\ Counted'
    OBVIOUS
  <1>0. /\ recv \in [Receivers -> BStates] /\ counter \in Nat
        /\ \A r \in Receivers : /\ recv[r] \in BStates /\ recv[r].count \in Nat
                                /\ recv[r].events \in Nat /\ Explained(r)
    BY DEF CInv, IInv, TypeOK, BStates, Counted
  <1>1. ASSUME NEW m \in Transit, Receive(m) PROVE Absent' /\ Counted'
    <2> DEFINE b == Received(recv[m.to])
    <2>1. /\ m.to \in Receivers /\ m.to # Patcher /\ m.method = "receive" /\ recv[m.to].exists
          /\ committed' = committed \cup {m.id} /\ sent' = sent /\ counter' = counter
          /\ recv' = [recv EXCEPT ![m.to] = b]
      BY <1>1, RouteAssumption DEF Receive, CanReceive, Commit, senders
    <2>2. /\ b.count = recv[m.to].count + 1 /\ b.events = recv[m.to].events + 1
          /\ b.exists /\ ~b.blank
      BY <1>0, <2>1 DEF Received, BStates
    <2> HIDE DEF b
    <2>3. \A r \in Receivers : recv'[r] = IF r = m.to THEN b ELSE recv[r]
      BY <1>0, <2>1
    <2>4. Absent'
      BY <2>1, <2>2, <2>3 DEF CInv, Absent
    <2>5. ASSUME NEW r \in Receivers PROVE Explained(r)'
      <3>1. CASE r = m.to
        <4>1. /\ Cardinality(Accepted(r, "receive")') = Cardinality(Accepted(r, "receive")) + 1
              /\ Cardinality(Accepted(r, "deploy")') = Cardinality(Accepted(r, "deploy"))
              /\ Cardinality(Accepted(r, "receive")) \in Nat
              /\ Cardinality(Accepted(r, "deploy")) \in Nat
          BY <2>1, <3>1, AcceptOne
        <4>2. QED BY <1>0, <2>2, <2>3, <3>1, <4>1 DEF Explained
      <3>2. CASE r # m.to
        BY <1>0, <2>1, <2>3, <3>2, AcceptOne DEF Explained
      <3>3. QED BY <3>1, <3>2
    <2>6. QED BY <2>1, <2>4, <2>5, AcceptOne DEF CInv, Counted
  <1>2. ASSUME NEW m \in Transit, Drain(m) PROVE Absent' /\ Counted'
    <2>1. /\ m.to # Patcher /\ m.method = "drain" /\ UNCHANGED <<recv, counter, sent>>
          /\ committed' = committed \cup {m.id}
      BY <1>2, RouteAssumption DEF Drain, Commit, senders
    <2>2. \A r \in Receivers : Explained(r)'
      BY <1>0, <2>1, AcceptOne DEF Explained
    <2>3. QED BY <2>1, <2>2, AcceptOne DEF CInv, Counted, Absent
  <1>3. ASSUME NEW m \in Transit, Create(m) PROVE Absent' /\ Counted'
    <2> DEFINE b == [NewB EXCEPT !.count = 1, !.events = 1]
    <2>1. /\ m.to \in Receivers /\ m.to # Patcher /\ m.method = "deploy" /\ ~recv[m.to].exists
          /\ committed' = committed \cup {m.id} /\ sent' = sent /\ counter' = counter
          /\ recv' = [recv EXCEPT ![m.to] = b]
      BY <1>3, RouteAssumption DEF Create, Commit, senders, Transit, CInv, Absent
    <2>2. b.exists /\ b.count = 1 /\ b.events = 1
      BY DEF NewB, NoB
    <2> HIDE DEF b
    <2>3. \A r \in Receivers : recv'[r] = IF r = m.to THEN b ELSE recv[r]
      BY <1>0, <2>1
    <2>4. Absent'
      BY <2>1, <2>2, <2>3 DEF CInv, Absent
    <2>5. ASSUME NEW r \in Receivers PROVE Explained(r)'
      <3>1. CASE r = m.to
        <4>1. recv[r].events = 0
          BY <2>1, <3>1 DEF CInv, Absent
        <4>2. Cardinality(Accepted(r, "receive")) = 0 /\ Cardinality(Accepted(r, "deploy")) = 0
          BY <1>0, <2>1, <4>1, AcceptOne DEF Explained
        <4>3. /\ Cardinality(Accepted(r, "receive")') = 0
              /\ Cardinality(Accepted(r, "deploy")') = 1
          BY <2>1, <3>1, <4>2, AcceptOne
        <4>4. QED BY <2>2, <2>3, <3>1, <4>3 DEF Explained
      <3>2. CASE r # m.to
        BY <1>0, <2>1, <2>3, <3>2, AcceptOne DEF Explained
      <3>3. QED BY <3>1, <3>2
    <2>6. QED BY <2>1, <2>4, <2>5, AcceptOne DEF CInv, Counted
  <1>4. ASSUME NEW m \in Transit, Refuse(m) PROVE Absent' /\ Counted'
    BY <1>4, NothingAccepted DEF Refuse, senders
  <1>5. ASSUME NEW m \in sent, Callback(m) PROVE Absent' /\ Counted'
    BY <1>5, NothingAccepted DEF Callback
  <1>6. ASSUME NEW batch \in SUBSET {m \in Transit : m.to = Patcher}, BatchPatch(batch)
        PROVE  Absent' /\ Counted'
    <2>1. CASE ~Patches(batch)
      BY <1>6, <2>1, NothingAccepted DEF BatchPatch, senders
    <2>2. CASE Patches(batch)
      <3>1. IsFiniteSet(batch)
        BY FS_Subset DEF Transit, CInv, Absent
      <3>2. PICK m : batch = {m}
        BY <2>2, <3>1, FS_Singleton DEF Patches
      <3>3. /\ m \in Transit /\ m.to = Patcher /\ counter' = counter + 1
            /\ committed' = committed \cup {m.id} /\ UNCHANGED <<recv, sent>>
        BY <1>6, <2>2, <3>2 DEF BatchPatch, senders
      <3>4. \A r \in Receivers : r # m.to
        BY <3>3, RouteAssumption
      <3>5. \A r \in Receivers : Explained(r)'
        BY <1>0, <3>3, <3>4, AcceptOne DEF Explained
      <3>6. QED BY <3>3, <3>5, AcceptOne DEF CInv, Counted, Absent
    <2>3. QED BY <2>1, <2>2
  <1>7. ASSUME NEW a \in Senders, Payout(a) PROVE Absent' /\ Counted'
    BY <1>7, NothingAccepted DEF Payout
  <1>8. ASSUME NEW r \in Receivers, NEW source \in Receivers, EventRead(r, source)
        PROVE  Absent' /\ Counted'
    <2> DEFINE b == [recv[r] EXCEPT !.count = 1, !.blank = FALSE]
    <2>1. /\ recv[r].exists /\ recv[r].count = 0 /\ recv' = [recv EXCEPT ![r] = b]
          /\ UNCHANGED <<counter, sent, committed>>
      BY <1>8 DEF EventRead, senders
    <2>2. b.exists /\ b.count = 1 /\ ~b.blank /\ b.events = recv[r].events
      BY <1>0, <2>1 DEF BStates
    <2> HIDE DEF b
    <2>3. \A x \in Receivers : recv'[x] = IF x = r THEN b ELSE recv[x]
      BY <1>0, <2>1
    <2>4. (\A x, method : Accepted(x, method)' = Accepted(x, method)) /\ ForPatcher' = ForPatcher
      BY <2>1 DEF Accepted, ForPatcher
    <2>5. Absent'
      BY <2>1, <2>2, <2>3 DEF CInv, Absent
    <2>6. ASSUME NEW x \in Receivers PROVE Explained(x)'
      <3>1. recv[r].events = 0
        BY <1>0, <2>1 DEF Explained
      <3>2. QED BY <1>0, <2>2, <2>3, <2>4, <3>1 DEF Explained
    <2>7. QED BY <2>1, <2>4, <2>5, <2>6 DEF CInv, Counted
  <1>9. QED BY <1>1, <1>2, <1>3, <1>4, <1>5, <1>6, <1>7, <1>8 DEF Runtime, Deliver, Answer

\* The counters of contract A, contract B and the batch patch contract agree
\* with the messages sent and accepted, for any of them.
THEOREM CountsAgree == Spec => []CountsExplained
  <1>1. Init => CInv
    <2> SUFFICES ASSUME Init PROVE CInv
      OBVIOUS
    <2>1. (\A r, method : Accepted(r, method) = {}) /\ ForPatcher = {}
      BY DEF Init, Accepted, ForPatcher
    <2>2. Absent
      BY FS_EmptySet DEF Init, Absent, NoB, NewB
    <2>3. counter = 0 /\ \A r \in Receivers : recv[r].count = 0 /\ recv[r].events = 0
      BY DEF Init, NoB, NewB
    <2>4. Counted
      BY <2>1, <2>3, FS_EmptySet DEF Counted, Explained
    <2>5. QED BY <2>2, <2>4, InitInv DEF CInv
  <1>2. CInv /\ [Next]_vars => CInv'
    <2>1. CInv /\ UNCHANGED vars => Absent' /\ Counted'
      BY NothingAccepted DEF vars, senders
    <2>2. QED BY <2>1, StepInv, CountsUser, CountsRuntime DEF CInv, Next
  <1>3. CInv => CountsExplained
    BY DEF CInv, IInv, Numbered, Counted, Explained, ForPatcher, CountsExplained
  <1>4. QED BY <1>1, <1>2, <1>3, PTL DEF Spec
============================================================================
