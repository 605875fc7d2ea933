----------------------------- MODULE QueryProofs -----------------------------
(***************************************************************************)
(* Proofs about Query, for any roles, bindings, objects and users: the     *)
(* listers that RunQuery asks for roles are right, nobody is shown what    *)
(* nothing permits, what is permitted is shown, and the store catches up.  *)
(***************************************************************************)
EXTENDS Query, FiniteSetTheorems, TLAPS

\* One look-up keeps the invariant of a lister: it files all it passes over.
LEMMA LookUpKeepsInv ==
    ASSUME roles \in Seq(Role), NEW m, NEW c, NEW k, ListerInv(m, c)
    PROVE  ListerInv(LookUp(m, c, k), c)
<1> DEFINE IsIt(i) == roles[i].cluster = c /\ Key(roles[i]) = k
           rest == m.next .. Len(roles)
           last == IF \E i \in rest : IsIt(i) THEN CHOOSE i \in rest : IsIt(i) ELSE Len(roles)
           passed == {i \in m.next .. last : roles[i].cluster = c}
           Files(x) == \E i \in passed : FileKey(roles[i]) = x
           new == [next |-> last + 1,
                   filed |->
                     [x \in DOMAIN m.filed \cup {FileKey(roles[i]) : i \in passed} \cup {k} |->
                         IF \E i \in passed : FileKey(roles[i]) = x
                         THEN CHOOSE i \in passed : FileKey(roles[i]) = x
                         ELSE IF x \in DOMAIN m.filed THEN m.filed[x] ELSE 0]]
<1>1. CASE k \in DOMAIN m.filed
  BY <1>1 DEF LookUp
<1>2. CASE k \notin DOMAIN m.filed
  <2>1. LookUp(m, c, k) = new
    BY <1>2 DEF LookUp
  <2>2. /\ Len(roles) \in Nat /\ DOMAIN roles = 1 .. Len(roles)
        /\ m.next \in Nat \ {0}
    BY DEF ListerInv
  <2>3. \/ last \in rest /\ IsIt(last)
        \/ last = Len(roles) /\ \A i \in rest : ~IsIt(i)
    OBVIOUS
  <2>4. last \in Nat /\ last <= Len(roles)
    BY <2>2, <2>3
  <2>5. passed \subseteq DOMAIN roles /\ \A i \in passed : roles[i].cluster = c
    BY <2>2, <2>4
  <2> HIDE DEF last
  <2> HIDE DEF passed
  <2>6. \A i \in passed : Key(roles[i]) \in DOMAIN new.filed
    BY DEF FileKey, Key
  <2>7. \A x \in DOMAIN new.filed :
           Files(x) => new.filed[x] \in passed /\ Key(roles[new.filed[x]]) = x
    BY DEF FileKey, Key
  <2>8. /\ DOMAIN m.filed \subseteq DOMAIN new.filed
        /\ \A x \in DOMAIN new.filed :
              ~Files(x) => IF x \in DOMAIN m.filed
                           THEN new.filed[x] = m.filed[x]
                           ELSE x = k /\ new.filed[x] = 0
    OBVIOUS
  <2>9. \A i \in DOMAIN roles : i < new.next /\ roles[i].cluster = c
           => Key(roles[i]) \in DOMAIN new.filed
    <3> SUFFICES ASSUME NEW i \in DOMAIN roles, i <= last, roles[i].cluster = c
                 PROVE  Key(roles[i]) \in DOMAIN new.filed
      BY <2>2, <2>4
    <3>1. CASE i < m.next
      BY <3>1, <2>8 DEF ListerInv
    <3>2. CASE i >= m.next
      BY <3>2, <2>2, <2>4, <2>6, <2>8 DEF passed
    <3> QED
      BY <3>1, <3>2, <2>2
  <2>10. ASSUME NEW x \in DOMAIN new.filed
         PROVE  IF new.filed[x] = 0
                THEN \A i \in DOMAIN roles : roles[i].cluster = c => Key(roles[i]) # x
                ELSE /\ new.filed[x] \in DOMAIN roles
                     /\ roles[new.filed[x]].cluster = c
                     /\ Key(roles[new.filed[x]]) = x
    <3>1. CASE Files(x)
      BY <3>1, <2>2, <2>5, <2>7, <2>8
    <3>2. CASE ~Files(x) /\ x \in DOMAIN m.filed
      BY <3>2, <2>8 DEF ListerInv
    <3>3. CASE ~Files(x) /\ x \notin DOMAIN m.filed
      <4>1. x = k /\ new.filed[x] = 0
        BY <3>3, <2>8
      <4>2. ASSUME NEW i \in DOMAIN roles, roles[i].cluster = c, Key(roles[i]) = k
            PROVE  FALSE
        <5>1. i >= m.next
          BY <4>2, <1>2, <2>2 DEF ListerInv
        <5>2. i \in rest /\ IsIt(i)
          BY <4>2, <5>1, <2>2
        <5>3. last \in passed /\ Key(roles[last]) = k
          BY <2>2, <2>3, <2>4, <5>2 DEF passed
        <5> QED
          BY <5>3, <3>3, <4>1 DEF FileKey, Key
      <4> QED
        BY <4>1, <4>2
    <3> QED
      BY <3>1, <3>2, <3>3
  <2>11. new.next \in Nat \ {0}
    BY <2>4
  <2> HIDE DEF new
  <2> QED
    BY <2>1, <2>9, <2>10, <2>11 DEF ListerInv
<1> QED
  BY <1>1, <1>2

-----------------------------------------------------------------------------
\* A new lister has filed nothing and passed over nothing.
LEMMA NewListerInv ==
    ASSUME roles \in Seq(Role), NEW c
    PROVE  ListerInv(NewLister, c)
BY DEF ListerInv, NewLister

LEMMA InitMemo == Init => MemoInv
BY NewListerInv DEF Init, MemoInv

\* Steps that leave the roles and the listers alone, and neither begin nor end
\* the use of the listers.
LEMMA MemoUnchanged ==
    ASSUME MemoInv, UNCHANGED <<roles, memo>>,
           queryPc' \in {"hits", "lookups"} \/ queryPc \notin {"hits", "lookups"}
    PROVE  MemoInv'
BY DEF MemoInv, ListerInv, Key

LEMMA StepMemo == MemoInv /\ [Next]_vars => MemoInv'
<1> SUFFICES ASSUME MemoInv, [Next]_vars
             PROVE  MemoInv'
  OBVIOUS
<1> USE DEF queryVars, readVars, checkVars, requestVars
<1>1. CASE \E e \in Entity : Change(e)
  BY <1>1, MemoUnchanged DEF Change
<1>2. CASE \E c \in Cluster : Watch(c) \/ Unwatch(c)
  BY <1>2, MemoUnchanged DEF Watch, Unwatch
<1>3. CASE CollectorStep
  BY <1>3, MemoUnchanged DEF CollectorStep, Clear, Store, Delete, DeleteAll, Receive
<1>4. CASE Begin \/ ReadRules \/ ReadBindings \/ ReadSubjects
  BY <1>4, MemoUnchanged DEF Begin, ReadRules, ReadBindings, ReadSubjects
<1>5. CASE NextHit \/ Decide
  BY <1>5, MemoUnchanged DEF NextHit, Decide
<1>6. CASE ReadRoles
  <2>1. roles' \in Seq(Role)
    <3> DEFINE S == rows \cap Role
               n == Cardinality(S)
    <3>1. n \in Nat
      BY FS_Subset, FS_CardinalityType, QueryAssumption
    <3>2. roles' \in [1 .. n -> S]
      BY <1>6 DEF ReadRoles, SetToSeqs
    <3> HIDE DEF n
    <3>3. roles' \in [1 .. n -> Role]
      BY <3>2
    <3> QED
      BY <3>1, <3>3
  <2>2. /\ memo' = memo /\ \A c \in Cluster : memo[c] = NewLister
        /\ queryPc' = "rules"
    BY <1>6 DEF ReadRoles, MemoInv
  <2> QED
    BY <2>1, <2>2 DEF MemoInv, ListerInv, NewLister
<1>7. CASE QueryFails
  <2>1. roles' = <<>> /\ memo' = memo
    BY <1>7 DEF QueryFails, Forget
  <2>2. \A c \in Cluster : memo[c] = NewLister
    BY <1>7 DEF QueryFails, MemoInv
  <2> QED
    BY <2>1, <2>2 DEF MemoInv, ListerInv, NewLister
<1>8. CASE Search
  <2>1. roles' = roles /\ memo' = [c \in Cluster |-> NewLister]
    BY <1>8 DEF Search
  <2> QED
    BY <2>1 DEF MemoInv, ListerInv, NewLister
<1>9. CASE Answer
  <2>1. roles' = <<>> /\ memo' = [c \in Cluster |-> NewLister]
    BY <1>9 DEF Answer, Forget
  <2> QED
    BY <2>1 DEF MemoInv, ListerInv, NewLister
<1>10. ASSUME NEW b \in Binding, Consult(b)
       PROVE  MemoInv'
  <2> DEFINE o == Head(hits)
             k == RefKey(b, o)
             m == LookUp(memo[o.cluster], o.cluster, k)
  <2>1. /\ memo' = [memo EXCEPT ![o.cluster] = m]
        /\ roles' = roles /\ queryPc' = queryPc /\ queryPc = "lookups"
    BY <1>10 DEF Consult
  <2>2. o.cluster \in Cluster => ListerInv(m, o.cluster)
    BY LookUpKeepsInv DEF MemoInv
  <2> HIDE DEF m, o
  <2>3. \A c \in Cluster : memo'[c] = IF c = o.cluster THEN m ELSE memo[c]
    BY <2>1 DEF MemoInv
  <2>4. \A c \in Cluster : ListerInv(memo'[c], c)
    BY <2>2, <2>3 DEF MemoInv
  <2>5. \A c \in Cluster : ListerInv(memo[c], c)'
    BY <2>1, <2>4 DEF ListerInv, Key
  <2>6. memo' = [c \in Cluster |-> memo'[c]]
    BY <2>1 DEF MemoInv
  <2> QED
    BY <2>1, <2>5, <2>6 DEF MemoInv
<1>11. CASE UNCHANGED vars
  BY <1>11, MemoUnchanged DEF vars
<1> QED
  BY <1>1, <1>2, <1>3, <1>4, <1>5, <1>6, <1>7, <1>8, <1>9, <1>10, <1>11
  DEF Next, QueryStep

\* The listers of a query answer as a search through all the roles it has read
\* would, for any clusters, roles and bindings, and any order of the roles.
THEOREM ListersRight == Spec => []MemoRight
<1>1. MemoInv => MemoRight
  BY DEF MemoInv, ListerInv, MemoRight
<1> QED
  BY InitMemo, StepMemo, <1>1, PTL DEF Spec

-----------------------------------------------------------------------------
(* What a query reads was offered to it.                                   *)

\* Whatever is written while a query is reading, it loses nothing that was
\* offered, and is offered what the rows then have.
LEMMA WritesOffer ==
    ASSUME OfferInv, Clear \/ Store \/ Delete \/ DeleteAll
    PROVE  /\ UNCHANGED queryVars
           /\ offered' = [e \in Entity |-> offered'[e]]
           /\ parts' = [e \in Entity |-> parts'[e]]
           /\ \A e \in Entity : offered[e] \subseteq offered'[e]
           /\ Reading => \A e \in rows' \cap Entity : parts'[e] \subseteq offered'[e]
           /\ Reading => \A e \in Entity :
                 parts[e] \subseteq offered[e] => parts'[e] \subseteq offered'[e]
<1>1. UNCHANGED queryVars /\ Observe
  BY DEF Clear, Store, Delete, DeleteAll
<1>2. /\ offered' = [e \in Entity |-> offered'[e]]
      /\ \A e \in Entity : offered[e] \subseteq offered'[e]
      /\ Reading => \A e \in rows' \cap Entity : parts'[e] \subseteq offered'[e]
  BY <1>1 DEF Observe, OfferInv
<1>3. /\ parts' = [e \in Entity |-> parts'[e]]
      /\ \A e \in Entity : e \in rows' \/ parts'[e] \subseteq parts[e]
  <2>1. CASE Clear
    <3>1. CASE parts' = parts
      BY <3>1 DEF OfferInv
    <3>2. CASE parts' # parts
      <4>1. PICK t \in batch : ClearParts(t.entity)
        BY <2>1, <3>2 DEF Clear
      <4> QED
        BY <4>1 DEF ClearParts, OfferInv
    <3> QED
      BY <3>1, <3>2
  <2>2. CASE Store
    <3>1. CASE parts' = parts
      BY <3>1 DEF OfferInv
    <3>2. CASE parts' # parts
      <4>1. PICK t \in batch :
                /\ rows' = rows \cup {t.entity}
                /\ parts' = [parts EXCEPT ![t.entity] = @ \cup t.content]
        BY <2>2, <3>2 DEF Store, storeVars
      <4> QED
        BY <4>1 DEF OfferInv
    <3> QED
      BY <3>1, <3>2
  <2>3. CASE Delete \/ DeleteAll
    BY <2>3 DEF Delete, DeleteAll, OfferInv
  <2> QED
    BY <2>1, <2>2, <2>3
<1> QED
  BY <1>1, <1>2, <1>3

\* A step of the clusters, of their watchers or of Receive writes nothing.
LEMMA NothingWritten ==
    ASSUME \/ \E e \in Entity : Change(e) \/ Receive(e)
           \/ \E c \in Cluster : Watch(c) \/ Unwatch(c)
           \/ UNCHANGED vars
    PROVE  UNCHANGED <<storeVars, queryVars, historyVars>>
BY DEF Change, Receive, Watch, Unwatch, vars

LEMMA StepOffer == MemoInv /\ OfferInv /\ [Next]_vars => OfferInv'
<1> SUFFICES ASSUME MemoInv, OfferInv, [Next]_vars
             PROVE  OfferInv'
  OBVIOUS
<1> USE DEF queryVars, readVars, checkVars, requestVars, historyVars, storeVars,
            queryFrame, Reading
<1>1. CASE UNCHANGED <<storeVars, queryVars, historyVars>>
  BY <1>1 DEF OfferInv
<1>2. CASE Clear \/ Store \/ Delete \/ DeleteAll
  <2>1. UNCHANGED <<queryPc, roles, rules, bindings, subjects>>
    BY <1>2, WritesOffer
  <2>2. \A i \in DOMAIN roles : roles[i] \in Entity
    BY DEF MemoInv, Entity
  <2>3. Role \subseteq Entity /\ bindings \subseteq Binding /\ Binding \subseteq Entity
    BY DEF Entity, OfferInv
  <2>4. /\ \A r \in Role : rules'[r] \subseteq offered'[r]
        /\ \A b \in Binding : subjects'[b] \subseteq offered'[b]
    BY <1>2, <2>1, <2>3, WritesOffer DEF OfferInv
  <2>5. (queryPc = "rules" => \A i \in DOMAIN roles : parts[roles[i]] \subseteq offered[roles[i]])'
    BY <1>2, <2>1, <2>2, WritesOffer DEF OfferInv
  <2>6. (queryPc = "subjects" => \A b \in bindings : parts[b] \subseteq offered[b])'
    BY <1>2, <2>1, <2>3, WritesOffer DEF OfferInv
  <2> QED
    BY <1>2, <2>1, <2>3, <2>4, <2>5, <2>6, WritesOffer DEF OfferInv
<1>3. CASE Begin
  <2>1. offered' = [e \in Entity |-> IF e \in rows THEN parts[e] ELSE {}]
    BY <1>3 DEF Begin
  <2>2. /\ UNCHANGED <<rows, parts, roles, rules, bindings, subjects>>
        /\ queryPc' = "roles" /\ queryPc \in {"idle", "done"}
    BY <1>3 DEF Begin
  <2> QED
    BY <2>1, <2>2 DEF OfferInv
<1>4. CASE ReadRoles
  <2>1. /\ UNCHANGED <<rows, parts, rules, bindings, subjects, offered>>
        /\ queryPc = "roles" /\ queryPc' = "rules"
    BY <1>4 DEF ReadRoles
  <2>2. \A i \in DOMAIN roles' : roles'[i] \in rows \cap Role
    BY <1>4 DEF ReadRoles, SetToSeqs
  <2> QED
    BY <2>1, <2>2 DEF OfferInv, Entity
<1>5. CASE ReadRules
  <2>1. /\ UNCHANGED <<rows, parts, roles, bindings, subjects, offered>>
        /\ queryPc = "rules" /\ queryPc' = "bindings"
    BY <1>5 DEF ReadRules
  <2>2. \A r \in Role : rules'[r] = {} \/ \E i \in DOMAIN roles : roles[i] = r /\ rules'[r] = parts[r]
    BY <1>5 DEF ReadRules, Contains
  <2> QED
    BY <2>1, <2>2 DEF OfferInv
<1>6. CASE ReadBindings
  BY <1>6 DEF ReadBindings, OfferInv, Entity
<1>7. CASE ReadSubjects
  <2>1. /\ UNCHANGED <<rows, parts, roles, rules, bindings, offered>>
        /\ queryPc = "subjects" /\ queryPc' = "search"
    BY <1>7 DEF ReadSubjects
  <2>2. \A b \in Binding : subjects'[b] = IF b \in bindings THEN parts[b] ELSE {}
    BY <1>7 DEF ReadSubjects
  <2> QED
    BY <2>1, <2>2 DEF OfferInv
<1>8. CASE QueryFails
  BY <1>8 DEF QueryFails, Forget, Nothing, OfferInv, Entity
<1>9. CASE Answer
  BY <1>9 DEF Answer, Forget, Nothing, OfferInv, Entity
<1>10. CASE Search \/ NextHit \/ Decide \/ \E b \in Binding : Consult(b)
  <2>1. UNCHANGED <<rows, parts, readVars, offered>>
    BY <1>10 DEF Search, NextHit, Decide, Consult
  <2>2. queryPc' \in {"hits", "lookups"}
    BY <1>10 DEF Search, NextHit, Decide, Consult
  <2> QED
    BY <2>1, <2>2 DEF OfferInv
<1> QED
  BY <1>1, <1>2, <1>3, <1>4, <1>5, <1>6, <1>7, <1>8, <1>9, <1>10, NothingWritten
  DEF Next, CollectorStep, QueryStep

-----------------------------------------------------------------------------
(* What RunQuery finds out about a hit.                                    *)

\* What was granted stays granted until the next query.
LEMMA StillGranted ==
    ASSUME NEW o, Granted(o), user' = user,
           \A e \in Entity : offered[e] \subseteq offered'[e]
    PROVE  Granted(o)'
BY DEF Granted, Gives, Entity

\* A binding that applies and the role found for it grant the object.
LEMMA FoundIsGiven ==
    ASSUME NEW b \in Binding, NEW r \in Role, NEW o,
           InScope(b, o), r.cluster = o.cluster, Key(r) = RefKey(b, o)
    PROVE  Gives(b, r, o)
<1>1. CASE b.kind = "ClusterRoleBinding"
  BY <1>1, QueryAssumption DEF InScope, Key, RefKey, Gives
<1>2. CASE b.kind = "RoleBinding"
  BY <1>2, QueryAssumption DEF InScope, Key, RefKey, Gives
<1> QED
  BY <1>1, <1>2, QueryAssumption

LEMMA ConsultGrants ==
    ASSUME MemoInv, OfferInv, HitInv, NEW b \in Binding, Consult(b), allowed'
    PROVE  Granted(Head(hits))
<1> DEFINE o == Head(hits)
           k == RefKey(b, o)
           m == LookUp(memo[o.cluster], o.cluster, k)
           i == m.filed[k]
<1>1. /\ queryPc = "lookups" /\ b \in todo
      /\ allowed' = (allowed \/ (i # 0 /\ o.kind \in rules[roles[i]]))
  BY DEF Consult
<1>2. CASE allowed
  BY <1>1, <1>2 DEF HitInv
<1>3. CASE i # 0 /\ o.kind \in rules[roles[i]]
  <2> HIDE DEF k, m, i
  <2>1. o \in Object /\ InScope(b, o) /\ user \in subjects[b]
    <3>1. hits \in Seq(Object) /\ hits # <<>> /\ Applies(b, o)
      BY <1>1 DEF HitInv
    <3>2. o \in Object
      BY <3>1
    <3> QED
      BY <3>1, <3>2 DEF Applies
  <2> USE DEF k, m, i
  <2>2. o.cluster \in Cluster
    BY <2>1 DEF Cluster
  <2>3. o.cluster \in Cluster => ListerInv(m, o.cluster)
    BY LookUpKeepsInv DEF MemoInv
  <2>4. k \in DOMAIN m.filed
    BY DEF LookUp
  <2>5. i # 0
    BY <1>3
  <2> HIDE DEF m, k, o
  <2>6. i \in DOMAIN roles /\ roles[i].cluster = o.cluster /\ Key(roles[i]) = k
    BY <2>2, <2>3, <2>4, <2>5 DEF ListerInv
  <2>7. roles[i] \in Role
    BY <2>6 DEF MemoInv
  <2> HIDE DEF i
  <2>8. Gives(b, roles[i], o)
    BY <2>1, <2>6, <2>7, FoundIsGiven DEF k
  <2>9. user \in offered[b] /\ o.kind \in offered[roles[i]]
    BY <1>3, <2>1, <2>7 DEF OfferInv
  <2> QED
    BY <2>7, <2>8, <2>9 DEF Granted, o
<1> QED
  BY <1>1, <1>2, <1>3

LEMMA StepHit ==
    ASSUME IInv, [Next]_vars
    PROVE  HitInv' /\ GrantedOnly'
<1> USE DEF IInv, queryVars, readVars, checkVars, requestVars, historyVars,
            queryFrame
<1>1. CASE UNCHANGED <<storeVars, queryVars, historyVars>>
  <2>1. \A o : Granted(o)' = Granted(o)
    BY <1>1 DEF Granted, Gives
  <2> QED
    BY <1>1, <2>1 DEF HitInv, GrantedOnly, Applies, InScope
<1>2. CASE Clear \/ Store \/ Delete \/ DeleteAll
  <2>1. UNCHANGED queryVars /\ \A e \in Entity : offered[e] \subseteq offered'[e]
    BY <1>2, WritesOffer
  <2>2. \A o : Granted(o) => Granted(o)'
    BY <2>1, StillGranted
  <2> QED
    BY <2>1, <2>2 DEF HitInv, GrantedOnly, Applies, InScope
<1>3. CASE Begin \/ QueryFails
  <2>1. queryPc' \in {"idle", "roles"} /\ hits' = hits /\ result' = <<>>
    BY <1>3 DEF Begin, QueryFails, HitInv
  <2> QED
    BY <2>1 DEF HitInv, GrantedOnly
<1>4. CASE ReadRoles \/ ReadRules \/ ReadBindings \/ ReadSubjects
  BY <1>4 DEF ReadRoles, ReadRules, ReadBindings, ReadSubjects, HitInv, GrantedOnly
<1>5. CASE Search
  <2>1. PICK S \in SUBSET Object : hits' \in SetToSeqs(S)
    BY <1>5 DEF Search
  <2> DEFINE n == Cardinality(S)
  <2>2. n \in Nat
    BY FS_Subset, FS_CardinalityType, QueryAssumption
  <2>3. hits' \in [1 .. n -> S]
    BY <2>1 DEF SetToSeqs
  <2> HIDE DEF n
  <2>4. hits' \in Seq(Object)
    BY <2>2, <2>3
  <2>5. queryPc = "search" /\ queryPc' = "hits" /\ result' = result
    BY <1>5 DEF Search
  <2> QED
    BY <2>4, <2>5 DEF HitInv, GrantedOnly
<1>6. CASE NextHit
  <2>1. /\ UNCHANGED <<bindings, subjects, user, offered, result>> /\ allowed' = FALSE
        /\ hits # <<>> /\ queryPc = "hits"
    BY <1>6 DEF NextHit
  <2>2. \A o : Granted(o)' = Granted(o)
    BY <2>1 DEF Granted, Gives
  <2>3. CASE queryPc' = "lookups" /\ hits' = hits /\ todo' = Applicable(Head(hits))
    <3>1. \A b \in todo' : b \in Binding /\ Applies(b, Head(hits))
      BY <2>3 DEF Applicable, OfferInv
    <3>2. \A b \in todo' : b \in Binding /\ Applies(b, Head(hits))'
      BY <2>1, <2>3, <3>1 DEF Applies, InScope
    <3> QED
      BY <2>1, <2>2, <2>3, <3>2 DEF HitInv, GrantedOnly
  <2>4. CASE queryPc' = queryPc /\ hits' = Tail(hits)
    BY <2>1, <2>2, <2>4 DEF HitInv, GrantedOnly
  <2> QED
    BY <1>6, <2>3, <2>4 DEF NextHit
<1>7. ASSUME NEW b \in Binding, Consult(b)
      PROVE  HitInv' /\ GrantedOnly'
  <2>1. /\ UNCHANGED <<queryPc, bindings, subjects, user, offered, result, hits>>
        /\ todo' \subseteq todo /\ queryPc = "lookups"
    BY <1>7 DEF Consult
  <2>2. \A o : Granted(o)' = Granted(o)
    BY <2>1 DEF Granted, Gives
  <2>3. allowed' => Granted(Head(hits))
    BY <1>7, ConsultGrants
  <2>4. \A d \in todo' : d \in Binding /\ Applies(d, Head(hits))'
    BY <2>1 DEF HitInv, Applies, InScope
  <2> QED
    BY <2>1, <2>2, <2>3, <2>4 DEF HitInv, GrantedOnly
<1>8. CASE Decide
  <2>1. /\ UNCHANGED <<user, offered>> /\ queryPc = "lookups" /\ queryPc' = "hits"
        /\ hits' = Tail(hits)
        /\ result' = IF Shown THEN Append(result, Head(hits)) ELSE result
    BY <1>8 DEF Decide
  <2>2. \A o : Granted(o)' = Granted(o)
    BY <2>1 DEF Granted, Gives
  <2>3. Shown => Granted(Head(hits))
    BY <2>1 DEF HitInv, Shown
  <2>4. /\ hits \in Seq(Object) /\ hits # <<>> /\ result \in Seq(Object)
    BY <2>1 DEF HitInv
  <2>5. HitInv'
    BY <2>1, <2>4 DEF HitInv
  <2>6. \A i \in DOMAIN result' : Granted(result'[i])
    BY <2>1, <2>3, <2>4 DEF GrantedOnly
  <2> QED
    BY <2>2, <2>5, <2>6 DEF GrantedOnly
<1>9. CASE Answer
  <2>1. /\ UNCHANGED <<user, offered, result>> /\ queryPc' = "done" /\ hits' = <<>>
    BY <1>9 DEF Answer
  <2>2. \A o : Granted(o)' = Granted(o)
    BY <2>1 DEF Granted, Gives
  <2> QED
    BY <2>1, <2>2 DEF HitInv, GrantedOnly
<1> QED
  BY <1>1, <1>2, <1>3, <1>4, <1>5, <1>6, <1>7, <1>8, <1>9, NothingWritten
  DEF Next, CollectorStep, QueryStep

\* The invariant of a query: its listers are right, what it has read was
\* offered to it, and what it has found out is granted.
THEOREM QueryInvariance == Spec => []IInv
<1>1. Init => IInv
  <2> SUFFICES ASSUME Init
               PROVE  IInv
    OBVIOUS
  <2>1. OfferInv
    BY DEF Init, OfferInv, Nothing, Entity, Reading
  <2>2. HitInv /\ GrantedOnly
    BY DEF Init, HitInv, GrantedOnly
  <2> QED
    BY <2>1, <2>2, InitMemo DEF IInv
<1>2. IInv /\ [Next]_vars => IInv'
  BY StepMemo, StepOffer, StepHit DEF IInv
<1> QED
  BY <1>1, <1>2, PTL DEF Spec

\* Nobody is shown an object without a binding and a role that permit it and
\* that the store held while the query was reading, however the writes of roles
\* and bindings, which are not atomic, fall between its reads.
THEOREM NobodyIsShownMore == Spec => []GrantedOnly
<1>1. IInv => GrantedOnly
  BY DEF IInv
<1> QED
  BY QueryInvariance, <1>1, PTL

-----------------------------------------------------------------------------
(* What the store has settles.                                             *)

InHand(e) == \E t \in batch : t.entity = e

\* What is under way for e is what its cluster has, and what is not under way
\* has arrived.
EntityInv(e) ==
    failures = 0 /\ e.cluster \in watched /\ e \notin pending =>
        IF InHand(e)
        THEN /\ consumerPc = "delete" => e \notin there
             /\ consumerPc \in {"clear", "store"} =>
                   e \in there /\ \A t \in batch : t.content = content[e]
             /\ consumerPc = "store" => parts[e] = {}
        ELSE /\ e \in there /\ ~Skipped(e) => e \in rows /\ parts[e] = content[e]
             /\ e \notin there /\ unwatches = 0 => e \notin rows

\* The consumer has one entity in hand, and a cluster is watched again only
\* when its stop hook has ended.
FlowInv ==
    /\ failures \in Nat /\ unwatches \in Nat
    /\ content = [e \in Entity |-> content[e]]
    /\ parts = [e \in Entity |-> parts[e]]
    /\ watched \cap leaving = {}
    /\ unwatches = 0 => Cluster \subseteq watched
    /\ consumerPc \in {"receive", "clear", "store", "delete"}
    /\ consumerPc = "receive" => batch = {}
    /\ consumerPc # "receive" => \E t : batch = {t} /\ t.entity \in Entity

SettleInv == FlowInv /\ \A e \in Entity : EntityInv(e)

LEMMA InitSettle == Init => SettleInv
<1> SUFFICES ASSUME Init PROVE SettleInv
  OBVIOUS
<1>1. FlowInv
  BY DEF Init, FlowInv, Nothing
<1>2. \A e \in Entity : EntityInv(e)
  BY DEF Init, EntityInv, InHand
<1> QED BY <1>1, <1>2 DEF SettleInv

\* Steps that change nothing that entities depend on.
LEMMA SettleUnchanged ==
    ASSUME SettleInv,
           UNCHANGED <<there, content, watched, pending, unwatches, consumerVars, leaving, storeVars>>,
           failures' = failures \/ (failures' = failures + 1)
    PROVE  SettleInv'
<1> USE DEF consumerVars, storeVars
<1>1. FlowInv'
  BY DEF SettleInv, FlowInv
<1>2. failures' = 0 => failures = 0
  BY DEF SettleInv, FlowInv
<1>3. \A e \in Entity : EntityInv(e)'
  BY <1>2 DEF SettleInv, EntityInv, InHand, Skipped, Atoms
<1> QED BY <1>1, <1>3 DEF SettleInv

LEMMA ChangeSettle ==
    ASSUME SettleInv, NEW e \in Entity, Change(e)
    PROVE  SettleInv'
<1> USE DEF consumerVars, hookVars, storeVars
<1>1. UNCHANGED <<watched, unwatches, consumerVars, leaving, storeVars, failures>>
  BY DEF Change
<1>2. PICK s : content' = [content EXCEPT ![e] = s]
  BY DEF Change
<1>3. FlowInv'
  BY <1>1, <1>2 DEF SettleInv, FlowInv
<1>4. ASSUME NEW d \in Entity PROVE EntityInv(d)'
  <2>1. CASE d = e
    <3>1. e.cluster \in watched => e \in pending'
      BY DEF Change
    <3> QED BY <1>1, <2>1, <3>1 DEF EntityInv
  <2>2. CASE d # e
    <3>1. /\ content'[d] = content[d] /\ (d \in there' <=> d \in there)
          /\ d \in pending => d \in pending'
      BY <1>2, <2>2 DEF Change, SettleInv, FlowInv
    <3> QED BY <1>1, <3>1 DEF SettleInv, EntityInv, InHand, Skipped
  <2> QED BY <2>1, <2>2
<1> QED BY <1>3, <1>4 DEF SettleInv

LEMMA WatchSettle ==
    ASSUME SettleInv, NEW c \in Cluster, Watch(c)
    PROVE  SettleInv'
<1> USE DEF clusterVars, consumerVars, hookVars, storeVars
<1>1. /\ UNCHANGED <<there, content, unwatches, consumerVars, leaving, storeVars, failures>>
      /\ watched' = watched \cup {c} /\ c \notin watched \cup leaving
      /\ pending' = pending \cup {e \in there : e.cluster = c}
      /\ \A t \in batch : t.entity.cluster # c
  BY DEF Watch
<1>2. FlowInv'
  BY <1>1 DEF SettleInv, FlowInv
<1>3. unwatches # 0
  BY <1>1 DEF SettleInv, FlowInv
<1>4. ASSUME NEW e \in Entity PROVE EntityInv(e)'
  <2>1. CASE e.cluster = c
    <3>1. ~InHand(e)'
      BY <1>1, <2>1 DEF InHand
    <3>2. e \notin pending' => e \notin there'
      BY <1>1, <2>1
    <3> QED BY <1>1, <1>3, <3>1, <3>2 DEF EntityInv
  <2>2. CASE e.cluster # c
    BY <1>1, <2>2 DEF SettleInv, EntityInv, InHand, Skipped
  <2> QED BY <2>1, <2>2
<1> QED BY <1>2, <1>4 DEF SettleInv

LEMMA UnwatchSettle ==
    ASSUME SettleInv, NEW c \in Cluster, Unwatch(c)
    PROVE  SettleInv'
<1> USE DEF clusterVars, consumerVars, storeVars
<1>1. /\ UNCHANGED <<there, content, consumerVars, storeVars, failures>>
      /\ unwatches' = unwatches + 1 /\ leaving' = {c}
      /\ watched' = watched \ {c} /\ pending' = {e \in pending : e.cluster # c}
  BY DEF Unwatch
<1>2. FlowInv' /\ unwatches' # 0
  BY <1>1 DEF SettleInv, FlowInv
<1>3. \A e \in Entity : EntityInv(e)'
  BY <1>1, <1>2 DEF SettleInv, EntityInv, InHand, Skipped
<1> QED BY <1>2, <1>3 DEF SettleInv

LEMMA ReceiveSettle ==
    ASSUME SettleInv, NEW e \in Entity, Receive(e)
    PROVE  SettleInv'
<1> USE DEF clusterVars, hookVars, storeVars
<1>1. /\ UNCHANGED <<there, content, watched, unwatches, leaving, storeVars, failures>>
      /\ pending' = pending \ {e} /\ e \in pending /\ batch = {} /\ consumerPc = "receive"
  BY DEF Receive, SettleInv, FlowInv
<1>2. CASE e \in there /\ Skipped(e)
  <2>1. UNCHANGED <<consumerPc, batch>>
    BY <1>2 DEF Receive
  <2>2. FlowInv'
    BY <1>1, <2>1 DEF SettleInv, FlowInv
  <2>3. \A d \in Entity : EntityInv(d)'
    BY <1>1, <1>2, <2>1 DEF SettleInv, EntityInv, InHand, Skipped
  <2> QED BY <2>2, <2>3 DEF SettleInv
<1>3. CASE ~(e \in there /\ Skipped(e))
  <2>1. /\ batch' = {[entity |-> e, content |-> content[e]]}
        /\ consumerPc' = IF e \in there THEN "clear" ELSE "delete"
    BY <1>3 DEF Receive
  <2>2. FlowInv'
    <3>1. PICK t : t = [entity |-> e, content |-> content[e]]
      OBVIOUS
    <3>2. batch' = {t} /\ t.entity \in Entity
      BY <2>1, <3>1
    <3> QED BY <1>1, <2>1, <3>2 DEF SettleInv, FlowInv
  <2>3. \A d \in Entity : EntityInv(d)'
    BY <1>1, <2>1 DEF SettleInv, EntityInv, InHand, Skipped
  <2> QED BY <2>2, <2>3 DEF SettleInv
<1> QED BY <1>2, <1>3

LEMMA ConsumerSettle ==
    ASSUME SettleInv, Clear \/ Store \/ Delete
    PROVE  SettleInv'
<1> USE DEF clusterVars, watcherVars, hookVars, storeVars
<1>1. /\ UNCHANGED <<there, content, watched, pending, unwatches, leaving>>
      /\ consumerPc # "receive"
  BY DEF Clear, Store, Delete
<1>2. PICK t : batch = {t} /\ t.entity \in Entity
  BY <1>1 DEF SettleInv, FlowInv
<1> DEFINE e == t.entity
<1>3. CASE failures' = failures + 1
  <2>1. failures' # 0 /\ failures' \in Nat
    BY <1>3 DEF SettleInv, FlowInv
  <2>2. Done /\ parts' = parts
    BY <1>3 DEF Clear, Store, Delete, SettleInv, FlowInv
  <2>3. FlowInv'
    BY <1>1, <2>1, <2>2 DEF SettleInv, FlowInv, Done
  <2> QED BY <2>1, <2>3 DEF SettleInv, EntityInv
<1>4. CASE failures' = failures /\ Clear
  <2>1. /\ parts' = [parts EXCEPT ![e] = {}] /\ UNCHANGED <<batch, rows>>
        /\ consumerPc = "clear" /\ consumerPc' = "store"
    BY <1>2, <1>4 DEF Clear, ClearParts, Failure, SettleInv, FlowInv
  <2>2. FlowInv'
    BY <1>1, <1>2, <1>4, <2>1 DEF SettleInv, FlowInv
  <2>3. \A d \in Entity : EntityInv(d)'
    BY <1>1, <1>2, <1>4, <2>1 DEF SettleInv, FlowInv, EntityInv, InHand, Skipped
  <2> QED BY <2>2, <2>3 DEF SettleInv
<1>5. CASE failures' = failures /\ Store
  <2>1. /\ rows' = rows \cup {e} /\ parts' = [parts EXCEPT ![e] = @ \cup t.content]
        /\ consumerPc = "store" /\ Done
    BY <1>2, <1>5 DEF Store, Failure, SettleInv, FlowInv
  <2>2. FlowInv'
    BY <1>1, <1>5, <2>1 DEF SettleInv, FlowInv, Done
  <2>3. ASSUME NEW d \in Entity PROVE EntityInv(d)'
    <3>1. CASE d = e
      BY <1>1, <1>2, <1>5, <2>1, <3>1
      DEF SettleInv, FlowInv, EntityInv, InHand, Skipped, Done
    <3>2. CASE d # e
      <4>1. parts'[d] = parts[d] /\ (d \in rows' <=> d \in rows)
        BY <2>1, <3>2 DEF SettleInv, FlowInv
      <4> QED BY <1>1, <1>2, <1>5, <2>1, <3>2, <4>1
              DEF SettleInv, EntityInv, InHand, Skipped, Done
    <3> QED BY <3>1, <3>2
  <2> QED BY <2>2, <2>3 DEF SettleInv
<1>6. CASE failures' = failures /\ Delete
  <2>1. /\ rows' = rows \ {e} /\ parts' = parts /\ consumerPc = "delete" /\ Done
    BY <1>2, <1>6 DEF Delete, Failure, SettleInv, FlowInv
  <2>2. FlowInv'
    BY <1>1, <1>6, <2>1 DEF SettleInv, FlowInv, Done
  <2>3. \A d \in Entity : EntityInv(d)'
    BY <1>1, <1>2, <1>6, <2>1 DEF SettleInv, EntityInv, InHand, Skipped, Done
  <2> QED BY <2>2, <2>3 DEF SettleInv
<1> QED BY <1>3, <1>4, <1>5, <1>6 DEF Clear, Store, Delete, Failure

\* The stop hook deletes only of a cluster that is no longer watched.
LEMMA HookSettle ==
    ASSUME SettleInv, DeleteAll
    PROVE  SettleInv'
<1> USE DEF clusterVars, watcherVars, consumerVars
<1>1. /\ UNCHANGED <<there, content, watched, pending, unwatches, consumerVars, parts>>
      /\ failures' = failures \/ failures' = failures + 1
      /\ leaving' \subseteq leaving
      /\ rows' \subseteq rows /\ \A e \in rows \ rows' : e.cluster \in leaving
  BY DEF DeleteAll, Leaving, Failure
<1>2. FlowInv' /\ (failures' = 0 => failures = 0)
  BY <1>1 DEF SettleInv, FlowInv
<1>3. \A e \in Entity : e.cluster \in watched => (e \in rows' <=> e \in rows)
  BY <1>1 DEF SettleInv, FlowInv
<1>4. \A e \in Entity : EntityInv(e)'
  BY <1>1, <1>2, <1>3 DEF SettleInv, EntityInv, InHand, Skipped
<1> QED BY <1>2, <1>4 DEF SettleInv

LEMMA StepSettle == SettleInv /\ [Next]_vars => SettleInv'
<1> SUFFICES ASSUME SettleInv, [Next]_vars PROVE SettleInv'
  OBVIOUS
<1>1. CASE QueryStep
  <2>1. UNCHANGED queryFrame /\ (failures' = failures \/ failures' = failures + 1)
    BY <1>1 DEF QueryStep, Begin, ReadRoles, ReadRules, ReadBindings, ReadSubjects,
                QueryFails, Search, NextHit, Decide, Answer, Consult, Failure
  <2> QED BY <2>1, SettleUnchanged DEF queryFrame, clusterVars, watcherVars, hookVars
<1>2. CASE UNCHANGED vars
  BY <1>2, SettleUnchanged DEF vars, clusterVars, watcherVars, hookVars
<1> QED BY <1>1, <1>2, ChangeSettle, WatchSettle, UnwatchSettle, ReceiveSettle,
           ConsumerSettle, HookSettle DEF Next, CollectorStep

\* As long as nothing has failed, what the store has of a role or binding for
\* which nothing is under way is what its cluster has, however watchers are
\* stopped and started and their stop hooks fall between the writes.
THEOREM StoreCatchesUp == Spec => []StoreSettles
<1>1. SettleInv => StoreSettles
  BY DEF SettleInv, EntityInv, StoreSettles, Settled, InHand
<1> QED BY InitSettle, StepSettle, <1>1, PTL DEF Spec

-----------------------------------------------------------------------------
(* What a user may list is shown.                                          *)

\* If the store stays as it is, a query has read it as it is.
ReadInv ==
    /\ queryPc \in {"rules", "bindings", "subjects", "search", "hits", "lookups"} =>
          \A r \in Role \cap rows : \E i \in DOMAIN roles : roles[i] = r
    /\ queryPc \in {"bindings", "subjects", "search", "hits", "lookups"} =>
          \A r \in Role \cap rows : rules[r] = parts[r]
    /\ queryPc \in {"subjects", "search", "hits", "lookups"} => bindings = rows \cap Binding
    /\ queryPc \in {"search", "hits", "lookups"} =>
          \A b \in Binding \cap rows : subjects[b] = parts[b]

MustShow(o) == MayList(o) /\ ~Dangling(o)

\* Of the hit in hand nothing speaks against it, and what speaks for it has
\* been found or will be.
LookInv ==
    queryPc = "lookups" =>
        /\ todo \subseteq bindings
        /\ MustShow(Head(hits)) =>
              /\ ~erred
              /\ \/ allowed
                 \/ \E b \in todo, r \in Role \cap rows :
                       Gives(b, r, Head(hits)) /\ Head(hits).kind \in parts[r]

ShownInv ==
    queryPc \in {"hits", "lookups", "done"} =>
        \A o \in found : MustShow(o) =>
            Shows(o) \/ (queryPc = "lookups" /\ o = Head(hits))

ShowInv ==
    /\ queryPc \in {"roles", "rules", "bindings", "subjects", "search"} => found = {}
    /\ quiet /\ queryPc # "idle" => ReadInv /\ LookInv /\ ShownInv

\* A role that a binding gives is filed where the binding looks for it.
LEMMA GivenIsFound ==
    ASSUME NEW b \in Binding, NEW r \in Role, NEW o, Gives(b, r, o)
    PROVE  r.cluster = o.cluster /\ Key(r) = RefKey(b, o)
<1>1. r.kind = "ClusterRole" <=> r.namespace = NoNamespace
  BY QueryAssumption
<1>2. r.kind \in {"Role", "ClusterRole"}
  BY QueryAssumption
<1> QED BY <1>1, <1>2 DEF Gives, Key, RefKey

LEMMA ShowUnchanged ==
    ASSUME ShowInv, UNCHANGED queryVars,
           quiet' => quiet,
           quiet' /\ queryPc # "idle" => UNCHANGED storeVars
    PROVE  ShowInv'
<1> USE DEF queryVars, readVars, checkVars, requestVars, storeVars
<1>1. (queryPc \in {"roles", "rules", "bindings", "subjects", "search"} => found = {})'
  BY DEF ShowInv
<1>2. ASSUME quiet', queryPc' # "idle"
      PROVE  ReadInv' /\ LookInv' /\ ShownInv'
  <2>1. UNCHANGED <<rows, parts>> /\ ReadInv /\ LookInv /\ ShownInv
    BY <1>2 DEF ShowInv
  <2>2. \A o : MustShow(o)' = MustShow(o)
    BY <2>1 DEF MustShow, MayList, Dangling, Gives, InScope
  <2>3. ReadInv'
    BY <2>1 DEF ReadInv
  <2>4. LookInv'
    BY <2>1, <2>2 DEF LookInv, Gives
  <2>5. ShownInv'
    BY <2>1, <2>2 DEF ShownInv, Shows
  <2> QED BY <2>3, <2>4, <2>5
<1> QED BY <1>1, <1>2 DEF ShowInv

LEMMA ReadingShow ==
    ASSUME ShowInv, MemoInv, OfferInv,
           Begin \/ ReadRoles \/ ReadRules \/ ReadBindings \/ ReadSubjects \/ QueryFails \/ Search
    PROVE  ShowInv'
<1> USE DEF queryFrame, storeVars, readVars, checkVars, requestVars, historyVars
<1>1. CASE Begin
  BY <1>1 DEF Begin, ShowInv, ReadInv, LookInv, ShownInv
<1>2. CASE ReadRoles
  <2>1. /\ queryPc = "roles" /\ queryPc' = "rules"
        /\ UNCHANGED <<rows, parts, found, quiet>>
    BY <1>2 DEF ReadRoles
  <2>2. \A r \in Role \cap rows : \E i \in DOMAIN roles' : roles'[i] = r
    <3> DEFINE S == rows \cap Role
               n == Cardinality(S)
    <3>1. roles' \in [1 .. n -> S] /\ \A y \in S : \E i \in 1 .. n : roles'[i] = y
      <4>1. IsFiniteSet(S) /\ n \in Nat
        BY FS_Subset, FS_CardinalityType, QueryAssumption
      <4>2. Cardinality(1 .. n) = n
        BY <4>1, FS_Interval
      <4>3. roles' \in Injection(1 .. n, S)
        BY <1>2 DEF ReadRoles, SetToSeqs, Injection, IsInjective
      <4>4. roles' \in Surjection(1 .. n, S)
        BY <4>1, <4>2, <4>3, FS_Injection
      <4> QED BY <4>4 DEF Surjection
    <3> HIDE DEF n
    <3> QED BY <3>1
  <2> QED BY <2>1, <2>2 DEF ShowInv, ReadInv, LookInv, ShownInv
<1>3. CASE ReadRules
  <2>1. /\ queryPc = "rules" /\ queryPc' = "bindings"
        /\ UNCHANGED <<rows, parts, found, quiet, roles>>
        /\ \A r \in Role : Contains(roles, r) => rules'[r] = parts[r]
    BY <1>3 DEF ReadRules
  <2>2. \A r : (\E i \in DOMAIN roles : roles[i] = r) => Contains(roles, r)
    BY DEF Contains
  <2> QED BY <2>1, <2>2 DEF ShowInv, ReadInv, LookInv, ShownInv
<1>4. CASE ReadBindings
  BY <1>4 DEF ReadBindings, ShowInv, ReadInv, LookInv, ShownInv
<1>5. CASE ReadSubjects
  <2>1. /\ queryPc = "subjects" /\ queryPc' = "search"
        /\ UNCHANGED <<rows, parts, found, quiet, roles, rules, bindings>>
        /\ \A b \in Binding : b \in bindings => subjects'[b] = parts[b]
    BY <1>5 DEF ReadSubjects
  <2> QED BY <2>1 DEF ShowInv, ReadInv, LookInv, ShownInv
<1>6. CASE QueryFails
  BY <1>6 DEF QueryFails, ShowInv
<1>7. CASE Search
  BY <1>7 DEF Search, ShowInv, ReadInv, LookInv, ShownInv
<1> QED BY <1>1, <1>2, <1>3, <1>4, <1>5, <1>6, <1>7

\* What the steps about hits leave alone.
LEMMA HitScope ==
    ASSUME NextHit \/ Decide \/ \E b \in Binding : Consult(b)
    PROVE  /\ UNCHANGED <<rows, parts, roles, rules, bindings, subjects, user, quiet>>
           /\ queryPc \in {"hits", "lookups"} /\ queryPc' \in {"hits", "lookups"}
           /\ \A o : MustShow(o)' = MustShow(o)
<1>1. /\ UNCHANGED <<rows, parts, roles, rules, bindings, subjects, user, quiet>>
      /\ queryPc \in {"hits", "lookups"} /\ queryPc' \in {"hits", "lookups"}
  BY DEF NextHit, Decide, Consult, queryFrame, storeVars, readVars, requestVars, historyVars
<1> QED BY <1>1 DEF MustShow, MayList, Dangling, Gives, InScope

LEMMA NextHitShow ==
    ASSUME ShowInv, NextHit
    PROVE  ShowInv'
<1> SUFFICES ASSUME quiet PROVE ReadInv' /\ LookInv' /\ ShownInv'
  BY HitScope DEF ShowInv
<1>1. ReadInv /\ ShownInv /\ queryPc = "hits" /\ result' = result
  BY DEF ShowInv, NextHit
<1>2. ReadInv'
  BY <1>1, HitScope DEF ReadInv
<1>3. \A o : Shows(o)' = Shows(o)
  BY <1>1 DEF Shows
<1>4. CASE queryPc' = "lookups"
  <2> DEFINE o == Head(hits)
  <2>1. /\ hits' = hits /\ todo' = Applicable(o) /\ found' = found \cup {o}
        /\ erred' = FALSE
    BY <1>1, <1>4 DEF NextHit
  <2>2. ASSUME MayList(o)
        PROVE  \E b \in todo', r \in Role \cap rows : Gives(b, r, o) /\ o.kind \in parts[r]
    <3>1. PICK b \in Binding \cap rows, r \in Role \cap rows :
             Gives(b, r, o) /\ user \in parts[b] /\ o.kind \in parts[r]
      BY <2>2 DEF MayList
    <3>2. b \in bindings /\ Applies(b, o)
      BY <1>1, <3>1 DEF ReadInv, Applies, InScope, Gives
    <3> QED BY <2>1, <3>1, <3>2 DEF Applicable
  <2>3. LookInv'
    <3>1. todo' \subseteq bindings'
      BY <2>1, HitScope DEF Applicable
    <3>2. MustShow(o) => \E b \in todo', r \in Role \cap rows :
                            Gives(b, r, o) /\ o.kind \in parts[r]
      BY <2>2 DEF MustShow
    <3>3. \A b, r, x : Gives(b, r, x)' = Gives(b, r, x)
      BY DEF Gives
    <3> QED BY <2>1, <3>1, <3>2, <3>3, HitScope DEF LookInv
  <2>4. ShownInv'
    BY <1>1, <1>3, <1>4, <2>1, HitScope DEF ShownInv
  <2> QED BY <1>2, <2>3, <2>4
<1>5. CASE queryPc' # "lookups"
  <2>1. found' = found
    BY <1>1, <1>5 DEF NextHit
  <2> QED BY <1>1, <1>2, <1>3, <1>5, <2>1, HitScope DEF LookInv, ShownInv
<1> QED BY <1>4, <1>5

LEMMA DecideShow ==
    ASSUME ShowInv, HitInv, Decide
    PROVE  ShowInv'
<1> SUFFICES ASSUME quiet PROVE ReadInv' /\ LookInv' /\ ShownInv'
  BY HitScope DEF ShowInv
<1>1. /\ ReadInv /\ LookInv /\ ShownInv /\ queryPc = "lookups" /\ queryPc' = "hits"
      /\ todo = {} /\ found' = found /\ result \in Seq(Object)
      /\ result' = IF Shown THEN Append(result, Head(hits)) ELSE result
  BY DEF ShowInv, Decide, HitInv
<1>2. ReadInv' /\ LookInv'
  BY <1>1, HitScope DEF ReadInv, LookInv
<1>3. \A o : Shows(o) => Shows(o)'
  BY <1>1 DEF Shows
<1>4. PICK h : h = Head(hits)
  OBVIOUS
<1>5. MustShow(h) => Shows(h)'
  <2> SUFFICES ASSUME MustShow(h) PROVE Shows(h)'
    OBVIOUS
  <2>1. result' = Append(result, h)
    BY <1>1, <1>4 DEF LookInv, Shown
  <2> QED BY <1>1, <2>1 DEF Shows
<1>6. ShownInv'
  BY <1>1, <1>3, <1>4, <1>5, HitScope DEF ShownInv
<1> QED BY <1>2, <1>6

LEMMA ConsultShow ==
    ASSUME ShowInv, MemoInv, HitInv, NEW b \in Binding, Consult(b)
    PROVE  ShowInv'
<1> SUFFICES ASSUME quiet PROVE ReadInv' /\ LookInv' /\ ShownInv'
  BY HitScope DEF ShowInv
<1> DEFINE m == LookUp(memo[Head(hits).cluster], Head(hits).cluster, RefKey(b, Head(hits)))
           i == m.filed[RefKey(b, Head(hits))]
<1>1. PICK o : o = Head(hits)
  OBVIOUS
<1>2. /\ ReadInv /\ LookInv /\ ShownInv /\ queryPc = "lookups"
      /\ b \in todo /\ todo' = todo \ {b}
      /\ UNCHANGED <<queryPc, hits, found, result>>
      /\ erred' = (erred \/ i = 0)
      /\ allowed' = (allowed \/ (i # 0 /\ o.kind \in rules[roles[i]]))
  BY <1>1 DEF ShowInv, Consult
<1>3. ReadInv' /\ ShownInv'
  BY <1>2, HitScope DEF ReadInv, ShownInv, Shows
<1>4. ASSUME MustShow(o)
      PROVE  /\ ~erred'
             /\ \/ allowed'
                \/ \E d \in todo', r \in Role \cap rows : Gives(d, r, o) /\ o.kind \in parts[r]
  <2>1. o \in Object /\ InScope(b, o) /\ user \in subjects[b]
    <3>1. hits \in Seq(Object) /\ hits # <<>> /\ Applies(b, o)
      BY <1>1, <1>2 DEF HitInv
    <3> QED BY <1>1, <3>1 DEF Applies
  <2>2. b \in rows /\ user \in parts[b]
    BY <1>2, <2>1 DEF LookInv, ReadInv
  <2>3. PICK s \in Role \cap rows : Gives(b, s, o)
    BY <1>4, <2>1, <2>2 DEF MustShow, Dangling
  <2>4. PICK j \in DOMAIN roles : roles[j] = s
    BY <1>2, <2>3 DEF ReadInv
  <2>5. o.cluster \in Cluster
    BY <2>1 DEF Cluster
  <2>6. ListerInv(m, o.cluster) /\ RefKey(b, o) \in DOMAIN m.filed
    <3>1. ListerInv(m, o.cluster)
      BY <1>1, <2>5, LookUpKeepsInv DEF MemoInv
    <3>2. RefKey(b, o) \in DOMAIN m.filed
      BY <1>1 DEF LookUp
    <3> QED BY <3>1, <3>2
  <2>7. i = m.filed[RefKey(b, o)]
    BY <1>1
  <2> HIDE DEF m, i
  <2>8. s.cluster = o.cluster /\ Key(s) = RefKey(b, o)
    BY <2>3, GivenIsFound
  <2>9. i # 0
    BY <2>4, <2>6, <2>7, <2>8 DEF ListerInv
  <2>10. i \in DOMAIN roles /\ roles[i].cluster = o.cluster /\ Key(roles[i]) = RefKey(b, o)
    BY <2>6, <2>7, <2>9 DEF ListerInv
  <2>11. roles[i] \in Role
    BY <2>10 DEF MemoInv
  <2>12. ASSUME NEW r \in Role \cap rows, Gives(b, r, o) PROVE roles[i] = r
    <3>1. r.cluster = o.cluster /\ Key(r) = RefKey(b, o)
      BY <2>12, GivenIsFound
    <3>2. r.cluster = roles[i].cluster /\ r.namespace = roles[i].namespace
          /\ r.name = roles[i].name
      BY <2>10, <3>1 DEF Key
    <3> QED BY <2>11, <3>2, QueryAssumption
  <2>13. ~erred'
    BY <1>1, <1>2, <1>4, <2>9 DEF LookInv
  <2>14. CASE allowed
    BY <1>2, <2>13, <2>14
  <2>15. CASE ~allowed
    <3>1. PICK d \in todo, r \in Role \cap rows : Gives(d, r, o) /\ o.kind \in parts[r]
      BY <1>1, <1>2, <1>4, <2>15 DEF LookInv
    <3>2. CASE d = b
      <4>1. roles[i] = r /\ rules[r] = parts[r]
        BY <1>2, <2>12, <3>1, <3>2 DEF ReadInv
      <4> QED BY <1>2, <2>9, <2>13, <3>1, <4>1
    <3>3. CASE d # b
      BY <1>2, <2>13, <3>1, <3>3
    <3> QED BY <3>2, <3>3
  <2> QED BY <2>14, <2>15
<1>5. LookInv'
  <2>1. \A d, r, x : Gives(d, r, x)' = Gives(d, r, x)
    BY DEF Gives
  <2> QED BY <1>1, <1>2, <1>4, <2>1, HitScope DEF LookInv
<1> QED BY <1>3, <1>5

LEMMA StepShow == ShowInv /\ IInv /\ [Next]_vars => ShowInv'
<1> SUFFICES ASSUME ShowInv, IInv, [Next]_vars PROVE ShowInv'
  OBVIOUS
<1> USE DEF IInv
<1>1. CASE UNCHANGED <<storeVars, queryVars, historyVars>>
  BY <1>1, ShowUnchanged DEF historyVars
<1>2. CASE Clear \/ Store \/ Delete \/ DeleteAll
  <2>1. UNCHANGED queryVars /\ Observe
    BY <1>2 DEF Clear, Store, Delete, DeleteAll
  <2> QED BY <2>1, ShowUnchanged DEF Observe, storeVars
<1>3. CASE Answer
  <2>1. /\ UNCHANGED <<rows, parts, user, quiet, found, result>>
        /\ queryPc = "hits" /\ queryPc' = "done"
    BY <1>3 DEF Answer, queryFrame, storeVars, requestVars, historyVars
  <2>2. \A o : MustShow(o)' = MustShow(o) /\ Shows(o)' = Shows(o)
    BY <2>1 DEF MustShow, MayList, Dangling, Gives, InScope, Shows
  <2> QED BY <2>1, <2>2 DEF ShowInv, ReadInv, LookInv, ShownInv
<1> QED BY <1>1, <1>2, <1>3, NothingWritten, ReadingShow, NextHitShow, DecideShow, ConsultShow
        DEF Next, CollectorStep, QueryStep

-----------------------------------------------------------------------------
(* And nothing but that.                                                   *)

\* What a query has shown, and what it knows of the hit in hand, holds of the
\* store if that has stayed as it is.
HeldInv ==
    /\ queryPc \in {"rules", "bindings", "subjects", "search", "hits", "lookups"} =>
          \A i \in DOMAIN roles : roles[i] \in Role \cap rows
    /\ queryPc = "lookups" =>
          /\ Head(hits) \in found
          /\ allowed => MayList(Head(hits))
          /\ ~erred => \A b \in Applicable(Head(hits)) \ todo :
                          \E r \in Role \cap rows : Gives(b, r, Head(hits))
    /\ queryPc \in {"hits", "lookups", "done"} =>
          \A o \in Object : Shows(o) => o \in found /\ MustShow(o)

ExactInv == quiet /\ queryPc # "idle" => HeldInv

LEMMA ExactUnchanged ==
    ASSUME ExactInv, UNCHANGED queryVars,
           quiet' => quiet,
           quiet' /\ queryPc # "idle" => UNCHANGED storeVars
    PROVE  ExactInv'
<1> USE DEF queryVars, readVars, checkVars, requestVars, storeVars
<1> SUFFICES ASSUME quiet', queryPc' # "idle" PROVE HeldInv'
  BY DEF ExactInv
<1>1. UNCHANGED <<rows, parts>> /\ HeldInv
  BY DEF ExactInv
<1>2. /\ \A o : MustShow(o)' = MustShow(o) /\ MayList(o)' = MayList(o) /\ Shows(o)' = Shows(o)
      /\ \A o : Applicable(o)' = Applicable(o)
      /\ \A b, r, o : Gives(b, r, o)' = Gives(b, r, o)
  BY <1>1 DEF MustShow, MayList, Dangling, Gives, InScope, Shows, Applicable, Applies
<1> QED BY <1>1, <1>2 DEF HeldInv

LEMMA ReadingExact ==
    ASSUME ExactInv, HitInv,
           Begin \/ ReadRoles \/ ReadRules \/ ReadBindings \/ ReadSubjects \/ QueryFails \/ Search
    PROVE  ExactInv'
<1> USE DEF queryFrame, storeVars, readVars, checkVars, requestVars, historyVars
<1>1. CASE Begin
  BY <1>1 DEF Begin, ExactInv, HeldInv
<1>2. CASE ReadRoles
  <2>1. /\ queryPc = "roles" /\ queryPc' = "rules" /\ UNCHANGED <<rows, quiet>>
        /\ \A i \in DOMAIN roles' : roles'[i] \in rows \cap Role
    BY <1>2 DEF ReadRoles, SetToSeqs
  <2> QED BY <2>1 DEF ExactInv, HeldInv
<1>3. CASE ReadRules \/ ReadBindings \/ ReadSubjects
  BY <1>3 DEF ReadRules, ReadBindings, ReadSubjects, ExactInv, HeldInv
<1>4. CASE QueryFails
  BY <1>4 DEF QueryFails, ExactInv
<1>5. CASE Search
  <2>1. /\ queryPc = "search" /\ queryPc' = "hits" /\ result' = <<>>
        /\ UNCHANGED <<rows, quiet, roles>>
    BY <1>5 DEF Search, HitInv
  <2>2. \A o : ~Shows(o)'
    BY <2>1 DEF Shows
  <2> QED BY <2>1, <2>2 DEF ExactInv, HeldInv
<1> QED BY <1>1, <1>2, <1>3, <1>4, <1>5

\* What the steps about hits leave alone, besides.
LEMMA HitFrame ==
    ASSUME NextHit \/ Decide \/ \E b \in Binding : Consult(b)
    PROVE  \A o : /\ MayList(o)' = MayList(o) /\ Applicable(o)' = Applicable(o)
                  /\ \A b, r : Gives(b, r, o)' = Gives(b, r, o)
BY HitScope DEF MayList, Gives, Applicable, Applies, InScope

LEMMA NextHitExact ==
    ASSUME ExactInv, NextHit
    PROVE  ExactInv'
<1> SUFFICES ASSUME quiet PROVE HeldInv'
  BY HitScope DEF ExactInv
<1>1. /\ HeldInv /\ queryPc = "hits" /\ result' = result /\ allowed' = FALSE
      /\ found \subseteq found'
  BY DEF ExactInv, NextHit
<1>2. \A o : Shows(o)' = Shows(o)
  BY <1>1 DEF Shows
<1>3. queryPc' = "lookups" =>
         /\ Head(hits') \in found'
         /\ todo' = Applicable(Head(hits'))
  BY <1>1 DEF NextHit
<1> QED BY <1>1, <1>2, <1>3, HitScope, HitFrame DEF HeldInv

LEMMA DecideExact ==
    ASSUME ExactInv, ShowInv, HitInv, Decide
    PROVE  ExactInv'
<1> SUFFICES ASSUME quiet PROVE HeldInv'
  BY HitScope DEF ExactInv
<1>1. /\ HeldInv /\ ReadInv /\ queryPc = "lookups" /\ queryPc' = "hits"
      /\ todo = {} /\ found' = found /\ result \in Seq(Object)
      /\ result' = IF Shown THEN Append(result, Head(hits)) ELSE result
      /\ hits \in Seq(Object) /\ hits # <<>>
  BY DEF ExactInv, ShowInv, Decide, HitInv
<1>2. PICK h : h = Head(hits)
  OBVIOUS
<1>3. \A o : Shows(o)' => Shows(o) \/ (Shown /\ o = h)
  BY <1>1, <1>2 DEF Shows
<1>4. ASSUME Shown PROVE h \in found /\ MustShow(h)
  <2>1. h \in found /\ MayList(h)
    BY <1>1, <1>2, <1>4 DEF HeldInv, Shown
  <2>2. ASSUME NEW b \in Binding \cap rows, InScope(b, h), user \in parts[b]
        PROVE  \E r \in Role \cap rows : Gives(b, r, h)
    <3>1. b \in Applicable(h)
      BY <1>1, <2>2 DEF ReadInv, Applicable, Applies
    <3> QED BY <1>1, <1>2, <1>4, <3>1 DEF HeldInv, Shown
  <2> QED BY <2>1, <2>2 DEF MustShow, Dangling
<1> QED BY <1>1, <1>3, <1>4, HitScope DEF HeldInv

LEMMA ConsultExact ==
    ASSUME ExactInv, ShowInv, MemoInv, HitInv, NEW b \in Binding, Consult(b)
    PROVE  ExactInv'
<1> SUFFICES ASSUME quiet PROVE HeldInv'
  BY HitScope DEF ExactInv
<1> DEFINE m == LookUp(memo[Head(hits).cluster], Head(hits).cluster, RefKey(b, Head(hits)))
           i == m.filed[RefKey(b, Head(hits))]
<1>1. PICK o : o = Head(hits)
  OBVIOUS
<1>2. /\ HeldInv /\ ReadInv /\ queryPc = "lookups"
      /\ b \in todo /\ todo' = todo \ {b}
      /\ UNCHANGED <<queryPc, hits, found, result>>
      /\ erred' = (erred \/ i = 0)
      /\ allowed' = (allowed \/ (i # 0 /\ o.kind \in rules[roles[i]]))
  BY <1>1 DEF ExactInv, ShowInv, Consult
<1>3. o \in Object /\ InScope(b, o) /\ user \in subjects[b]
  <2>1. hits \in Seq(Object) /\ hits # <<>> /\ Applies(b, o)
    BY <1>1, <1>2 DEF HitInv
  <2> QED BY <1>1, <2>1 DEF Applies
<1>4. b \in rows /\ user \in parts[b]
  <2>1. b \in bindings
    BY <1>2 DEF ShowInv, LookInv
  <2> QED BY <1>2, <1>3, <2>1 DEF ReadInv
<1>5. ASSUME i # 0
      PROVE  \E s \in Role \cap rows : s = roles[i] /\ Gives(b, s, o)
  <2>1. o.cluster \in Cluster
    BY <1>3 DEF Cluster
  <2>2. ListerInv(m, o.cluster) /\ RefKey(b, o) \in DOMAIN m.filed
    <3>1. ListerInv(m, o.cluster)
      BY <1>1, <2>1, LookUpKeepsInv DEF MemoInv
    <3>2. RefKey(b, o) \in DOMAIN m.filed
      BY <1>1 DEF LookUp
    <3> QED BY <3>1, <3>2
  <2>3. i = m.filed[RefKey(b, o)]
    BY <1>1
  <2> HIDE DEF m, i
  <2>4. i \in DOMAIN roles /\ roles[i].cluster = o.cluster /\ Key(roles[i]) = RefKey(b, o)
    BY <1>5, <2>2, <2>3 DEF ListerInv
  <2>5. roles[i] \in Role \cap rows
    BY <1>2, <2>4 DEF HeldInv
  <2> QED BY <1>3, <2>4, <2>5, FoundIsGiven
<1> HIDE DEF m, i
<1>6. allowed' => MayList(o)
  <2>1. CASE allowed
    BY <1>1, <1>2, <2>1 DEF HeldInv
  <2>2. CASE i # 0 /\ o.kind \in rules[roles[i]]
    <3>1. PICK s \in Role \cap rows : s = roles[i] /\ Gives(b, s, o)
      BY <1>5, <2>2
    <3>2. rules[s] = parts[s]
      BY <1>2, <3>1 DEF ReadInv
    <3> QED BY <1>4, <2>2, <3>1, <3>2 DEF MayList
  <2> QED BY <1>2, <2>1, <2>2
<1>7. ~erred' => \A d \in Applicable(o) \ todo' : \E r \in Role \cap rows : Gives(d, r, o)
  <2> SUFFICES ASSUME ~erred', NEW d \in Applicable(o) \ todo'
               PROVE  \E r \in Role \cap rows : Gives(d, r, o)
    OBVIOUS
  <2>1. CASE d = b
    BY <1>2, <1>5, <2>1
  <2>2. CASE d # b
    BY <1>1, <1>2, <2>2 DEF HeldInv
  <2> QED BY <2>1, <2>2
<1>8. \A x : Shows(x)' = Shows(x)
  BY <1>2 DEF Shows
<1> QED BY <1>1, <1>2, <1>6, <1>7, <1>8, HitScope, HitFrame DEF HeldInv

LEMMA StepExact == ExactInv /\ ShowInv /\ IInv /\ [Next]_vars => ExactInv'
<1> SUFFICES ASSUME ExactInv, ShowInv, IInv, [Next]_vars PROVE ExactInv'
  OBVIOUS
<1> USE DEF IInv
<1>1. CASE UNCHANGED <<storeVars, queryVars, historyVars>>
  BY <1>1, ExactUnchanged DEF historyVars
<1>2. CASE Clear \/ Store \/ Delete \/ DeleteAll
  <2>1. UNCHANGED queryVars /\ Observe
    BY <1>2 DEF Clear, Store, Delete, DeleteAll
  <2> QED BY <2>1, ExactUnchanged DEF Observe, storeVars
<1>3. CASE Answer
  <2>1. /\ UNCHANGED <<rows, parts, user, quiet, found, result>>
        /\ queryPc = "hits" /\ queryPc' = "done"
    BY <1>3 DEF Answer, queryFrame, storeVars, requestVars, historyVars
  <2>2. \A o : MustShow(o)' = MustShow(o) /\ Shows(o)' = Shows(o)
    BY <2>1 DEF MustShow, MayList, Dangling, Gives, InScope, Shows
  <2> QED BY <2>1, <2>2 DEF ExactInv, HeldInv
<1> QED BY <1>1, <1>2, <1>3, NothingWritten, ReadingExact, NextHitExact, DecideExact, ConsultExact
        DEF Next, CollectorStep, QueryStep

\* The answer to a query during which nobody writes to the store is exact:
\* every hit that a binding and a role of the store permit and none other,
\* whatever order the roles are read in and the listers file them, hits for
\* which a binding of the user dangles apart.
THEOREM PermittedIsShown == Spec => []ShowsGranted
<1>1. Init => ShowInv /\ ExactInv
  BY DEF Init, ShowInv, ExactInv
<1>2. ShowInv /\ ExactInv => ShowsGranted
  BY DEF ShowInv, ShownInv, ExactInv, HeldInv, MustShow, ShowsGranted
<1> QED BY QueryInvariance, StepShow, StepExact, <1>1, <1>2, PTL DEF Spec

-----------------------------------------------------------------------------
(* Types.                                                                  *)

\* What the clusters hold, what is in hand and what is stored.
KeptOK ==
    /\ there \subseteq Entity /\ rows \subseteq Entity /\ pending \subseteq Entity
    /\ content = [e \in Entity |-> content[e]]
    /\ parts = [e \in Entity |-> parts[e]]
    /\ \A e \in Entity : content[e] \subseteq Atoms(e) /\ parts[e] \subseteq Atoms(e)
    /\ watched \subseteq Cluster /\ leaving \subseteq Cluster
    /\ consumerPc \in {"receive", "clear", "store", "delete"}
    /\ hookPc \in {"idle", "roles", "bindings"}
    /\ batch \subseteq [entity : Entity, content : SUBSET (Kinds \cup Users)]
    /\ \A t \in batch : t.content \subseteq Atoms(t.entity)

CountsOK ==
    /\ changes \in Nat /\ unwatches \in Nat /\ failures \in Nat
    /\ changes + unwatches + failures <= MaxEvents /\ queries \in 0 .. MaxQueries

\* What a query has been asked, has read and has found.
AskedOK ==
    /\ queryPc \in {"idle", "roles", "rules", "bindings", "subjects", "search",
                    "hits", "lookups", "done"}
    /\ user \in Users /\ limit \in Limits
    /\ rules \in [Role -> SUBSET Kinds] /\ subjects \in [Binding -> SUBSET Users]
    /\ found \subseteq Object /\ todo \subseteq Binding
    /\ allowed \in BOOLEAN /\ erred \in BOOLEAN
    /\ offered \in [Entity -> SUBSET (Kinds \cup Users)] /\ quiet \in BOOLEAN

FiledOK == \A c \in Cluster : DOMAIN memo[c].filed \subseteq Keys

LEMMA AtomsType == \A e : Atoms(e) \subseteq Kinds \cup Users
BY DEF Atoms

LEMMA InitTypes == Init => KeptOK /\ CountsOK /\ AskedOK /\ FiledOK
<1> SUFFICES ASSUME Init PROVE KeptOK /\ CountsOK /\ AskedOK /\ FiledOK
  OBVIOUS
<1>1. KeptOK
  <2>1. content = [e \in Entity |-> content[e]] /\ \A e \in Entity : content[e] \subseteq Atoms(e)
    BY DEF Init
  <2>2. parts = [e \in Entity |-> {}]
    BY DEF Init, Nothing
  <2> QED BY <2>1, <2>2 DEF Init, KeptOK
<1>2. CountsOK
  BY QueryAssumption DEF Init, CountsOK
<1>3. AskedOK
  BY DEF Init, AskedOK, Nothing
<1>4. FiledOK
  BY DEF Init, FiledOK, NewLister
<1> QED BY <1>1, <1>2, <1>3, <1>4

LEMMA StepKept == KeptOK /\ [Next]_vars => KeptOK'
<1> SUFFICES ASSUME KeptOK, [Next]_vars PROVE KeptOK'
  OBVIOUS
<1> USE DEF clusterVars, watcherVars, consumerVars, hookVars, storeVars
<1>1. ASSUME NEW e \in Entity, Change(e) PROVE KeptOK'
  <2>1. PICK s : content' = [content EXCEPT ![e] = s] /\ s \subseteq Atoms(e)
    BY <1>1 DEF Change
  <2> QED BY <1>1, <2>1 DEF Change, KeptOK, Atoms
<1>2. ASSUME NEW c \in Cluster, Watch(c) \/ Unwatch(c) PROVE KeptOK'
  BY <1>2 DEF Watch, Unwatch, KeptOK, Atoms
<1>3. ASSUME NEW e \in Entity, Receive(e) PROVE KeptOK'
  <2>1. CASE UNCHANGED batch
    BY <1>3, <2>1 DEF Receive, KeptOK, Atoms
  <2>2. CASE batch' # batch
    <3> DEFINE t == [entity |-> e, content |-> content[e]]
    <3>1. batch' = {t} /\ consumerPc' \in {"clear", "delete"}
      BY <1>3, <2>2 DEF Receive
    <3>2. /\ t \in [entity : Entity, content : SUBSET (Kinds \cup Users)]
          /\ t.content \subseteq Atoms(t.entity)
      BY AtomsType DEF KeptOK
    <3> HIDE DEF t
    <3> QED BY <1>3, <3>1, <3>2 DEF Receive, KeptOK, Atoms
  <2> QED BY <2>1, <2>2
<1>4. ASSUME Clear \/ Store \/ Delete PROVE KeptOK'
  <2>1. /\ UNCHANGED <<clusterVars, watched, pending, hookVars>>
        /\ batch' \subseteq batch /\ consumerPc' \in {"receive", "store"}
    BY <1>4 DEF Clear, Store, Delete, Done
  <2>2. parts' = [e \in Entity |-> parts'[e]] /\ rows' \subseteq Entity
        /\ \A e \in Entity : parts'[e] \subseteq Atoms(e)
    <3>1. CASE UNCHANGED parts
      BY <1>4, <3>1 DEF Clear, Store, Delete, KeptOK
    <3>2. CASE parts' # parts
      <4>1. PICK t \in batch :
                \/ UNCHANGED rows /\ parts' = [parts EXCEPT ![t.entity] = {}]
                \/ /\ rows' = rows \cup {t.entity}
                   /\ parts' = [parts EXCEPT ![t.entity] = @ \cup t.content]
        BY <1>4, <3>2 DEF Clear, ClearParts, Store, Delete
      <4> QED BY <4>1 DEF KeptOK
    <3> QED BY <3>1, <3>2
  <2> QED BY <2>1, <2>2 DEF KeptOK, Atoms
<1>5. ASSUME DeleteAll PROVE KeptOK'
  BY <1>5 DEF DeleteAll, Leaving, KeptOK, Atoms
<1>6. ASSUME QueryStep \/ UNCHANGED vars PROVE KeptOK'
  <2>1. UNCHANGED queryFrame
    BY <1>6 DEF QueryStep, Begin, ReadRoles, ReadRules, ReadBindings, ReadSubjects,
                QueryFails, Search, NextHit, Decide, Answer, Consult, vars, queryFrame
  <2> QED BY <2>1 DEF queryFrame, KeptOK, Atoms
<1> QED BY <1>1, <1>2, <1>3, <1>4, <1>5, <1>6 DEF Next, CollectorStep

LEMMA StepCounts == CountsOK /\ [Next]_vars => CountsOK'
<1> SUFFICES ASSUME CountsOK, [Next]_vars PROVE CountsOK'
  OBVIOUS
<1>1. \/ UNCHANGED <<changes, unwatches, failures>>
      \/ MayHappen /\ changes' = changes + 1 /\ UNCHANGED <<unwatches, failures>>
      \/ MayHappen /\ unwatches' = unwatches + 1 /\ UNCHANGED <<changes, failures>>
      \/ MayHappen /\ failures' = failures + 1 /\ UNCHANGED <<changes, unwatches>>
  <2> USE DEF clusterVars, watcherVars, queryFrame
  <2>1. CASE \E e \in Entity : Change(e) \/ Receive(e)
    BY <2>1 DEF Change, Receive
  <2>2. CASE \E c \in Cluster : Watch(c) \/ Unwatch(c)
    BY <2>2 DEF Watch, Unwatch
  <2>3. CASE Clear \/ Store \/ Delete \/ DeleteAll
    BY <2>3 DEF Clear, Store, Delete, DeleteAll, Failure
  <2>4. CASE QueryStep \/ UNCHANGED vars
    BY <2>4 DEF QueryStep, Begin, ReadRoles, ReadRules, ReadBindings, ReadSubjects,
                QueryFails, Search, NextHit, Decide, Answer, Consult, Failure, vars
  <2> QED BY <2>1, <2>2, <2>3, <2>4 DEF Next, CollectorStep
<1>2. queries' = queries \/ (queries < MaxQueries /\ queries' = queries + 1)
  <2> USE DEF queryVars, requestVars
  <2>1. CASE Begin
    BY <2>1 DEF Begin
  <2>2. CASE ~Begin
    BY <2>2 DEF Next, Change, Watch, Unwatch, CollectorStep, Clear, Store, Delete,
                DeleteAll, Receive, QueryStep, ReadRoles, ReadRules, ReadBindings,
                ReadSubjects, QueryFails, Search, NextHit, Decide, Answer, Consult, vars
  <2> QED BY <2>1, <2>2
<1>3. queries' \in 0 .. MaxQueries
  BY <1>2, QueryAssumption DEF CountsOK
<1> QED BY <1>1, <1>3, QueryAssumption DEF CountsOK, MayHappen

LEMMA StepAsked ==
    ASSUME IInv, KeptOK, AskedOK, [Next]_vars
    PROVE  AskedOK'
<1> USE DEF queryVars, readVars, checkVars, requestVars, historyVars
<1>1. CASE UNCHANGED <<queryVars, historyVars>>
  BY <1>1 DEF AskedOK
<1>2. CASE Clear \/ Store \/ Delete \/ DeleteAll
  <2>1. UNCHANGED queryVars /\ Observe
    BY <1>2 DEF Clear, Store, Delete, DeleteAll
  <2>2. \A e \in Entity : parts'[e] \subseteq Kinds \cup Users
    BY <1>2, StepKept, AtomsType DEF KeptOK, Next, CollectorStep
  <2>3. offered' \in [Entity -> SUBSET (Kinds \cup Users)] /\ quiet' \in BOOLEAN
    BY <2>1, <2>2 DEF Observe, AskedOK
  <2> QED BY <2>1, <2>3 DEF AskedOK
<1>3. CASE Begin
  <2>1. offered' \in [Entity -> SUBSET (Kinds \cup Users)]
    BY <1>3, AtomsType DEF Begin, KeptOK
  <2> QED BY <1>3, <2>1 DEF Begin, AskedOK
<1>4. CASE ReadRules
  <2>1. \A r \in Role : parts[r] \subseteq Kinds
    BY DEF KeptOK, Atoms, Entity
  <2>2. rules' \in [Role -> SUBSET Kinds]
    BY <1>4, <2>1 DEF ReadRules
  <2> QED BY <1>4, <2>2 DEF ReadRules, AskedOK
<1>5. CASE ReadSubjects
  <2>1. \A b \in Binding : parts[b] \subseteq Users
    BY QueryAssumption DEF KeptOK, Atoms, Entity
  <2>2. subjects' \in [Binding -> SUBSET Users]
    BY <1>5, <2>1 DEF ReadSubjects
  <2> QED BY <1>5, <2>2 DEF ReadSubjects, AskedOK
<1>6. CASE ReadRoles \/ ReadBindings \/ Search
  BY <1>6 DEF ReadRoles, ReadBindings, Search, AskedOK
<1>7. CASE QueryFails \/ Answer
  BY <1>7 DEF QueryFails, Answer, Forget, Nothing, AskedOK
<1>8. CASE NextHit
  <2>1. Head(hits) \in Object
    BY <1>8 DEF NextHit, IInv, HitInv
  <2>2. Applicable(Head(hits)) \subseteq Binding
    BY DEF Applicable, IInv, OfferInv
  <2> QED BY <1>8, <2>1, <2>2 DEF NextHit, AskedOK
<1>9. CASE Decide
  BY <1>9 DEF Decide, AskedOK
<1>10. ASSUME NEW b \in Binding, Consult(b) PROVE AskedOK'
  <2>1. allowed' \in BOOLEAN /\ erred' \in BOOLEAN
    BY <1>10 DEF Consult, AskedOK
  <2> QED BY <1>10, <2>1 DEF Consult, AskedOK
<1> QED BY <1>1, <1>2, <1>3, <1>4, <1>5, <1>6, <1>7, <1>8, <1>9, <1>10, NothingWritten
        DEF Next, CollectorStep, QueryStep

\* What a lister files roles under, and what bindings ask for, are keys.
LEMMA KeysType ==
    /\ \A r \in Role : FileKey(r) \in Keys
    /\ \A b \in Binding, o \in Object : RefKey(b, o) \in Keys
BY DEF FileKey, RefKey, Keys, Entity

LEMMA LookUpFiles ==
    ASSUME roles \in Seq(Role), NEW m, NEW c, NEW k \in Keys,
           m.next \in Nat \ {0}, DOMAIN m.filed \subseteq Keys
    PROVE  DOMAIN LookUp(m, c, k).filed \subseteq Keys
<1> DEFINE IsIt(i) == roles[i].cluster = c /\ Key(roles[i]) = k
           rest == m.next .. Len(roles)
           last == IF \E i \in rest : IsIt(i) THEN CHOOSE i \in rest : IsIt(i) ELSE Len(roles)
           passed == {i \in m.next .. last : roles[i].cluster = c}
<1>1. CASE k \in DOMAIN m.filed
  BY <1>1 DEF LookUp
<1>2. CASE k \notin DOMAIN m.filed
  <2>1. DOMAIN LookUp(m, c, k).filed
            = DOMAIN m.filed \cup {FileKey(roles[i]) : i \in passed} \cup {k}
    BY <1>2 DEF LookUp
  <2>2. last \in rest \/ last = Len(roles)
    OBVIOUS
  <2>3. passed \subseteq DOMAIN roles
    BY <2>2
  <2> HIDE DEF passed
  <2>4. \A i \in passed : FileKey(roles[i]) \in Keys
    BY <2>3, KeysType
  <2> QED BY <2>1, <2>4
<1> QED BY <1>1, <1>2

LEMMA StepFiled ==
    ASSUME IInv, FiledOK, [Next]_vars
    PROVE  FiledOK'
<1> USE DEF queryVars, readVars, checkVars, requestVars
<1>1. CASE Search \/ Answer
  BY <1>1 DEF Search, Answer, FiledOK, NewLister
<1>2. ASSUME NEW b \in Binding, Consult(b) PROVE FiledOK'
  <2> DEFINE o == Head(hits)
             m == LookUp(memo[o.cluster], o.cluster, RefKey(b, o))
  <2>1. memo' = [memo EXCEPT ![o.cluster] = m]
    BY <1>2 DEF Consult
  <2>2. o \in Object
    <3>1. queryPc = "lookups"
      BY <1>2 DEF Consult
    <3>2. hits \in Seq(Object) /\ hits # <<>>
      BY <3>1 DEF IInv, HitInv
    <3> QED BY <3>2
  <2>3. o.cluster \in Cluster
    BY <2>2 DEF Cluster
  <2>4. DOMAIN m.filed \subseteq Keys
    BY <2>2, <2>3, KeysType, LookUpFiles DEF IInv, MemoInv, ListerInv, FiledOK
  <2> HIDE DEF m, o
  <2> QED BY <2>1, <2>3, <2>4 DEF FiledOK, IInv, MemoInv
<1>3. CASE UNCHANGED memo
  BY <1>3 DEF FiledOK
<1> QED BY <1>1, <1>2, <1>3 DEF Next, Change, Watch, Unwatch, CollectorStep, Clear,
       Store, Delete, DeleteAll, Receive, QueryStep, Begin, ReadRoles, ReadRules,
       ReadBindings, ReadSubjects, QueryFails, NextHit, Decide, vars

\* Every variable keeps its type: roles are stored with kinds and bindings with
\* users, a lister files roles only under keys it may be asked for and answers
\* with a place in what it has read or with none, and the bounds are kept.
THEOREM TypeCorrect == Spec => []TypeOK
<1> DEFINE Inv == KeptOK /\ CountsOK /\ AskedOK /\ FiledOK
<1>1. Init => Inv
  BY InitTypes
<1>2. IInv /\ Inv /\ [Next]_vars => Inv'
  BY StepKept, StepCounts, StepAsked, StepFiled
<1>3. IInv /\ Inv => TypeOK
  <2> SUFFICES ASSUME IInv, Inv PROVE TypeOK
    OBVIOUS
  <2>1. \A c \in Cluster : MemoOK(memo[c])
    BY DEF IInv, MemoInv, ListerInv, FiledOK, MemoOK
  <2> QED BY <2>1 DEF TypeOK, KeptOK, CountsOK, AskedOK, IInv, MemoInv, OfferInv, HitInv
<1> QED BY QueryInvariance, <1>1, <1>2, <1>3, PTL DEF Spec
=============================================================================
