--------------------------- MODULE IdentityProofs ---------------------------
(***************************************************************************)
(* Who may do what, for any number of users, regions and requests: what    *)
(* holds of a user's password and roles in Etcd, that a one-time link      *)
(* opens one session, and that a revoked API key stays revoked.            *)
(***************************************************************************)
EXTENDS UserIdentity, AuthSession, ApiKeys, FiniteSetTheorems, TLAPS

(* Users.  Types, the superadmin and the versions follow from the merge    *)
(* alone, whatever a region's document has become; that a confirmed change *)
(* stands needs the lock of the user as well.                              *)

RestingChange == [pc : {"refused", "dead"}, region : Regions, user : Users, lost : BOOLEAN]
AskedChange == [pc : {"refresh", "save", "publish", "confirm", "rollback", "ok"},
          region : Regions, user : Users, kind : {"password", "role", "register"},
          super : BOOLEAN, prev : Docs \cup {None}]

(* A password or role change saves over the document of a user who can log *)
(* in.                                                                     *)
SavesOverUser == \A c \in Changes :
  change[c].pc = "save" /\ change[c].kind # "register" => change[c].prev # None

UserInv == UserTypeOK /\ SavesOverUser /\ SuperadminRemains

-----------------------------------------------------------------------------
(* The merge.                                                              *)
AllFields == {{}, {"auth"}, {"roles"}, {"auth", "roles", "profile"}}

LEMMA AppliedType ==
  ASSUME NEW d \in Docs \cup {None}, NEW e \in Entries \cup {None}
  PROVE  Applied(d, e) \in Docs \cup {None}
BY DEF Applied, Doc, Docs, Entries

LEMMA MergeType ==
  ASSUME NEW e \in [Users -> Entries \cup {None}], NEW u \in Users, NEW cand \in Entries,
         NEW fields \in AllFields
  PROVE  /\ Merge(e, u, cand, fields) \in [Users -> Entries \cup {None}]
         /\ \A v \in Users \ {u} : Merge(e, u, cand, fields)[v] = e[v]
         /\ e[u] = None => Merge(e, u, cand, fields)[u] = cand
         /\ e[u] # None =>
              /\ Merge(e, u, cand, fields)[u] \in Entries
              /\ Merge(e, u, cand, fields)[u].pw = IF Takes("auth", fields, cand.av, e[u].av) THEN cand.pw ELSE e[u].pw
              /\ Merge(e, u, cand, fields)[u].av = IF Takes("auth", fields, cand.av, e[u].av) THEN cand.av ELSE e[u].av
              /\ Merge(e, u, cand, fields)[u].super =
                   IF Takes("roles", fields, cand.rv, e[u].rv) THEN cand.super ELSE e[u].super
              /\ Merge(e, u, cand, fields)[u].rv = IF Takes("roles", fields, cand.rv, e[u].rv) THEN cand.rv ELSE e[u].rv
<1> DEFINE auth == Takes("auth", fields, cand.av, e[u].av)
           roles == Takes("roles", fields, cand.rv, e[u].rv)
           merged == [pw |-> IF auth THEN cand.pw ELSE e[u].pw, av |-> IF auth THEN cand.av ELSE e[u].av,
                      super |-> IF roles THEN cand.super ELSE e[u].super,
                      rv |-> IF roles THEN cand.rv ELSE e[u].rv]
<1>1. CASE e[u] = None
  BY <1>1 DEF Merge
<1>2. CASE e[u] # None
  <2>1. Merge(e, u, cand, fields) = [e EXCEPT ![u] = merged]
    BY <1>2 DEF Merge
  <2>2. merged \in Entries
    BY <1>2 DEF Entries
  <2> HIDE DEF merged
  <2>3. /\ Merge(e, u, cand, fields) \in [Users -> Entries \cup {None}]
        /\ \A v \in Users \ {u} : Merge(e, u, cand, fields)[v] = e[v]
        /\ Merge(e, u, cand, fields)[u] = merged
    BY <2>1, <2>2
  <2> QED
    BY <1>2, <2>2, <2>3 DEF merged
<1> QED
  BY <1>1, <1>2

(* A merge that is not refused never takes the last superadmin's role.     *)
LEMMA MergeKeepsSuperadmin ==
  ASSUME NEW e \in [Users -> Entries \cup {None}], Superadmins(e) # {},
         NEW u \in Users, NEW cand \in Entries, NEW fields \in AllFields,
         ~MergeRefused(e, u, cand, fields)
  PROVE  Superadmins(Merge(e, u, cand, fields)) # {}
<1> DEFINE m == Merge(e, u, cand, fields)
<1>1. \A v \in Users \ {u} : v \in Superadmins(e) => v \in Superadmins(m)
  BY MergeType DEF Superadmins
<1>2. CASE \E v \in Superadmins(e) : v # u
  BY <1>1, <1>2 DEF Superadmins
<1>3. CASE Superadmins(e) = {u}
  <2>1. e[u] # None /\ e[u].super
    BY <1>3 DEF Superadmins
  <2>2. Cardinality(Superadmins(e)) <= 1
    <3>1. Cardinality({u}) = 1
      BY FS_Singleton
    <3> QED
      BY <1>3, <3>1
  <2>3. ~(Takes("roles", fields, cand.rv, e[u].rv) /\ ~cand.super)
    BY <2>1, <2>2 DEF MergeRefused, LastSuperadmin
  <2>4. m[u] # None /\ m[u].super
    BY <2>1, <2>3, MergeType, NoneIsNoEntry
  <2> QED
    BY <2>4 DEF Superadmins
<1> QED
  BY <1>2, <1>3

(* Nor does it bring an older version back.                                *)
LEMMA MergeGrows ==
  ASSUME NEW e \in [Users -> Entries \cup {None}],
         NEW u \in Users, NEW cand \in Entries, NEW fields \in AllFields,
         ~MergeRefused(e, u, cand, fields), NEW v \in Users, e[v] # None
  PROVE  /\ Merge(e, u, cand, fields)[v] # None
         /\ ~Older(e[v], Merge(e, u, cand, fields)[v])
<1> DEFINE m == Merge(e, u, cand, fields)
<1>1. CASE v # u
  <2>1. m[v] = e[v] /\ e[v] \in Entries
    BY <1>1, MergeType
  <2> QED
    BY <2>1 DEF Older, Entries
<1>2. CASE v = u
  <2>1. e[u] \in Entries
    BY <1>2
  <2>2. ~Conflict(e[u], cand, fields)
    BY <1>2 DEF MergeRefused
  <2>3. ~Older(e[u], m[u])
    <3> HIDE DEF m
    <3> DEFINE auth == Takes("auth", fields, cand.av, e[u].av)
               roles == Takes("roles", fields, cand.rv, e[u].rv)
    <3>1. /\ m[u].pw = IF auth THEN cand.pw ELSE e[u].pw
          /\ m[u].av = IF auth THEN cand.av ELSE e[u].av
          /\ m[u].super = IF roles THEN cand.super ELSE e[u].super
          /\ m[u].rv = IF roles THEN cand.rv ELSE e[u].rv
      BY <1>2, MergeType DEF m
    <3>2. /\ e[u].av \in Nat /\ e[u].rv \in Nat /\ cand.av \in Nat /\ cand.rv \in Nat
      BY <2>1 DEF Entries
    <3>3. auth => cand.av > e[u].av \/ (cand.av = e[u].av /\ cand.pw = e[u].pw)
      BY <2>2, <3>2 DEF Takes, Conflict, AllFields
    <3>4. roles => cand.rv > e[u].rv \/ (cand.rv = e[u].rv /\ cand.super = e[u].super)
      BY <2>2, <3>2 DEF Takes, Conflict, AllFields
    <3> HIDE DEF auth, roles
    <3> QED
      BY <3>1, <3>2, <3>3, <3>4 DEF Older
  <2> QED
    BY <1>2, <2>1, <2>3, MergeType, NoneIsNoEntry
<1> QED
  BY <1>1, <1>2

-----------------------------------------------------------------------------
(* Only a merge that is not refused writes to Etcd.                        *)
LEMMA AskedType ==
  ASSUME UserTypeOK, NEW c \in Changes,
         change[c].pc \in {"refresh", "save", "publish", "confirm", "rollback", "ok"}
  PROVE  change[c] \in AskedChange
BY DEF UserTypeOK, AskedChange, Idle

LEMMA EtcdMerges ==
  ASSUME UserTypeOK, UserNext
  PROVE  \/ UNCHANGED etcd
         \/ \E u \in Users, cand \in Entries, fields \in AllFields :
              ~MergeRefused(etcd, u, cand, fields) /\ etcd' = Merge(etcd, u, cand, fields)
<1> DEFINE Merged == \E u \in Users, cand \in Entries, fields \in AllFields :
             ~MergeRefused(etcd, u, cand, fields) /\ etcd' = Merge(etcd, u, cand, fields)
<1>1. ASSUME NEW d \in Docs PROVE Entry(d) \in Entries
  BY DEF Entry, Entries, Docs
<1>2. ASSUME NEW c \in Changes, Publish(c) PROVE UNCHANGED etcd \/ Merged
  <2>1. change[c] \in AskedChange
    BY <1>2, AskedType DEF Publish
  <2> DEFINE u == change[c].user
             d == mongo[change[c].region][u]
  <2>2. u \in Users /\ d \in Docs \cup {None} /\ Fields(c) \in AllFields
    BY <2>1 DEF AskedChange, UserTypeOK, Fields, AllFields
  <2>3. \/ UNCHANGED etcd
        \/ /\ LoginUser(d) /\ ~MergeRefused(etcd, u, Entry(d), Fields(c))
           /\ etcd' = Merge(etcd, u, Entry(d), Fields(c))
    BY <1>2 DEF Publish
  <2> HIDE DEF u, d
  <2> QED
    BY <1>1, <2>2, <2>3 DEF LoginUser
<1>3. ASSUME NEW r \in Regions, NEW u \in Users, PublishLocal(r, u) PROVE UNCHANGED etcd \/ Merged
  <2> DEFINE d == mongo[r][u]
  <2>1. d \in Docs \cup {None} /\ {} \in AllFields
    BY DEF UserTypeOK, AllFields
  <2>2. \/ UNCHANGED etcd
        \/ /\ LoginUser(d) /\ ~MergeRefused(etcd, u, Entry(d), {})
           /\ etcd' = Merge(etcd, u, Entry(d), {})
    BY <1>3 DEF PublishLocal
  <2> HIDE DEF d
  <2> QED
    BY <1>1, <2>1, <2>2 DEF LoginUser
<1> HIDE DEF Merged
<1>4. UNCHANGED etcd \/ Merged
  BY <1>2, <1>3 DEF UserNext, AskChange, Refresh, Save, Confirm, Rollback, LeaseEnds, Crash, ApplyCopy, Pull
<1> QED
  BY <1>4 DEF Merged

-----------------------------------------------------------------------------
(* The types.  What a step does to the parts of the state it changes.      *)
LEMMA ChangeType ==
  ASSUME UserTypeOK, NEW c \in Changes, NEW x \in {Idle} \cup RestingChange \cup AskedChange,
         change' = [change EXCEPT ![c] = x]
  PROVE  change' \in [Changes -> {Idle} \cup RestingChange \cup AskedChange]
BY DEF UserTypeOK, RestingChange, AskedChange

LEMMA GoType ==
  ASSUME UserTypeOK, NEW c \in Changes, change[c] \in AskedChange,
         NEW pc \in {"refresh", "save", "publish", "confirm", "rollback", "ok"}, Go(c, pc)
  PROVE  /\ change' \in [Changes -> {Idle} \cup RestingChange \cup AskedChange]
         /\ change'[c].pc = pc /\ \A b \in Changes \ {c} : change'[b] = change[b]
<1> DEFINE x == [change[c] EXCEPT !.pc = pc]
<1>1. x \in AskedChange /\ x.pc = pc
  BY DEF AskedChange
<1>2. change' = [change EXCEPT ![c] = x]
  BY DEF Go, UserTypeOK
<1> HIDE DEF x
<1> QED
  BY <1>1, <1>2 DEF UserTypeOK, RestingChange, AskedChange

LEMMA RestType ==
  ASSUME UserTypeOK, NEW c \in Changes, change[c] \in AskedChange, NEW pc \in {"refused", "dead"}
  PROVE  Rest(c, pc) \in RestingChange
BY DEF Rest, RestingChange, AskedChange, Owned

LEMMA RefuseType ==
  ASSUME UserTypeOK, NEW c \in Changes, change[c] \in AskedChange, Refuse(c)
  PROVE  /\ change' \in [Changes -> {Idle} \cup RestingChange \cup AskedChange]
         /\ change'[c].pc = "refused" /\ \A b \in Changes \ {c} : change'[b] = change[b]
         /\ lock' \in [Users -> Changes \cup {None}]
<1>1. Rest(c, "refused") \in RestingChange /\ Rest(c, "refused").pc = "refused"
  BY RestType DEF Rest
<1>2. change' = [change EXCEPT ![c] = Rest(c, "refused")]
  BY DEF Refuse
<1>3. lock' \in [Users -> Changes \cup {None}]
  BY DEF Refuse, Unlock, UserTypeOK
<1> HIDE DEF Rest
<1> QED
  BY <1>1, <1>2, <1>3 DEF UserTypeOK, RestingChange, AskedChange

LEMMA SetDocType ==
  ASSUME UserTypeOK, NEW c \in Changes, change[c] \in AskedChange, NEW d \in Docs \cup {None}, SetDoc(c, d)
  PROVE  mongo' \in [Regions -> [Users -> Docs \cup {None}]]
BY DEF SetDoc, UserTypeOK, AskedChange

LEMMA ChangedType ==
  ASSUME UserTypeOK, SavesOverUser, NEW c \in Changes, change[c].pc = "save"
  PROVE  Changed(c) \in Docs
<1>1. change[c] \in AskedChange /\ c \in Passwords
  BY AskedType DEF Passwords
<1> DEFINE p == change[c].prev
<1>2. CASE change[c].kind # "register"
  <2>1. p \in Docs /\ change[c].super \in BOOLEAN /\ change[c].kind \in {"password", "role"}
    BY <1>1, <1>2 DEF SavesOverUser, AskedChange
  <2>2. /\ [p EXCEPT !.pw = c, !.av = @ + 1] \in Docs
        /\ [p EXCEPT !.super = change[c].super, !.rv = @ + 1] \in Docs
    <3>1. ASSUME NEW d \in Docs PROVE [d EXCEPT !.pw = c, !.av = @ + 1] \in Docs
      <4>1. [d EXCEPT !.pw = c] \in Docs
        BY <1>1 DEF Docs
      <4>2. \A e \in Docs : [e EXCEPT !.av = @ + 1] \in Docs
        BY DEF Docs
      <4>3. [d EXCEPT !.pw = c].av = d.av
        BY DEF Docs
      <4> QED
        BY <4>1, <4>2, <4>3
    <3>2. ASSUME NEW d \in Docs, NEW super \in BOOLEAN
          PROVE  [d EXCEPT !.super = super, !.rv = @ + 1] \in Docs
      <4>1. [d EXCEPT !.super = super] \in Docs
        BY DEF Docs
      <4>2. \A e \in Docs : [e EXCEPT !.rv = @ + 1] \in Docs
        BY DEF Docs
      <4>3. [d EXCEPT !.super = super].rv = d.rv
        BY DEF Docs
      <4> QED
        BY <4>1, <4>2, <4>3
    <3> QED
      BY <2>1, <3>1, <3>2
  <2> QED
    BY <2>1, <2>2 DEF Changed
<1>3. CASE change[c].kind = "register"
  <2>1. p \in Docs \cup {None} /\ change[c].super \in BOOLEAN
    BY <1>1 DEF AskedChange
  <2> QED
    BY <1>1, <1>3, <2>1 DEF Changed, Docs
<1> QED
  BY <1>2, <1>3

-----------------------------------------------------------------------------
(* The steps of one request: types, and what a save stands on.             *)
ChangeStepOK(c) ==
  /\ change' \in [Changes -> {Idle} \cup RestingChange \cup AskedChange]
  /\ change'[c].pc = "save" /\ change'[c].kind # "register" => change'[c].prev # None
  /\ \A b \in Changes \ {c} : change'[b] = change[b]
  /\ lock' \in [Users -> Changes \cup {None}]
  /\ mongo' \in [Regions -> [Users -> Docs \cup {None}]]

LEMMA RefreshStep ==
  ASSUME UserTypeOK, NEW c \in Changes, Refresh(c)
  PROVE  ChangeStepOK(c)
<1> DEFINE d == Applied(mongo[change[c].region][change[c].user], etcd[change[c].user])
<1>1. change[c] \in AskedChange
  BY AskedType DEF Refresh
<1>2. d \in Docs \cup {None}
  BY <1>1, AppliedType DEF UserTypeOK, AskedChange
<1>3. \/ UNCHANGED mongo /\ Refuse(c)
      \/ SetDoc(c, d) /\ Refuse(c)
      \/ /\ SetDoc(c, d) /\ UNCHANGED lock
         /\ change[c].kind # "register" => LoginUser(d)
         /\ change' = [change EXCEPT ![c].pc = "save", ![c].prev = d]
  BY DEF Refresh
<1> HIDE DEF d
<1>4. CASE UNCHANGED mongo /\ Refuse(c)
  BY <1>1, <1>4, RefuseType DEF ChangeStepOK, UserTypeOK
<1>5. CASE SetDoc(c, d) /\ Refuse(c)
  BY <1>1, <1>2, <1>5, RefuseType, SetDocType DEF ChangeStepOK
<1>6. CASE /\ SetDoc(c, d) /\ UNCHANGED lock
           /\ change[c].kind # "register" => LoginUser(d)
           /\ change' = [change EXCEPT ![c].pc = "save", ![c].prev = d]
  <2> DEFINE x == [change[c] EXCEPT !.pc = "save", !.prev = d]
  <2>1. x \in AskedChange /\ x.prev = d /\ x.kind = change[c].kind
    BY <1>1, <1>2 DEF AskedChange
  <2>2. change' = [change EXCEPT ![c] = x]
    BY <1>1, <1>6 DEF UserTypeOK
  <2> HIDE DEF x
  <2>3. /\ change' \in [Changes -> {Idle} \cup RestingChange \cup AskedChange]
        /\ change'[c] = x /\ \A b \in Changes \ {c} : change'[b] = change[b]
    BY <2>1, <2>2, ChangeType DEF UserTypeOK
  <2>4. mongo' \in [Regions -> [Users -> Docs \cup {None}]] /\ lock' \in [Users -> Changes \cup {None}]
    BY <1>1, <1>2, <1>6, SetDocType DEF UserTypeOK
  <2> QED
    BY <1>6, <2>1, <2>3, <2>4 DEF ChangeStepOK, LoginUser
<1> QED
  BY <1>3, <1>4, <1>5, <1>6

LEMMA SaveStep ==
  ASSUME UserTypeOK, SavesOverUser, NEW c \in Changes, Save(c)
  PROVE  ChangeStepOK(c)
<1>1. change[c] \in AskedChange /\ Changed(c) \in Docs
  BY AskedType, ChangedType DEF Save
<1>2. CASE SetDoc(c, Changed(c)) /\ Go(c, "publish") /\ UNCHANGED lock
  BY <1>1, <1>2, GoType, SetDocType DEF ChangeStepOK, UserTypeOK
<1>3. CASE UNCHANGED mongo /\ Refuse(c)
  BY <1>1, <1>3, RefuseType DEF ChangeStepOK, UserTypeOK
<1>4. CASE UNCHANGED mongo /\ Go(c, "rollback") /\ UNCHANGED lock
  BY <1>1, <1>4, GoType DEF ChangeStepOK, UserTypeOK
<1> QED
  BY <1>2, <1>3, <1>4 DEF Save

LEMMA LaterSteps ==
  ASSUME UserTypeOK, NEW c \in Changes, Publish(c) \/ Confirm(c) \/ Rollback(c)
  PROVE  ChangeStepOK(c)
<1>1. change[c] \in AskedChange /\ change[c].prev \in Docs \cup {None}
  BY AskedType DEF Publish, Confirm, Rollback, AskedChange
<1>2. CASE Publish(c)
  <2>1. UNCHANGED <<mongo, lock>> /\ \E pc \in {"confirm", "rollback"} : Go(c, pc)
    BY <1>2 DEF Publish
  <2> QED
    BY <1>1, <2>1, GoType DEF ChangeStepOK, UserTypeOK
<1>3. CASE Confirm(c)
  <2>1. UNCHANGED mongo /\ lock' \in [Users -> Changes \cup {None}]
    BY <1>3 DEF Confirm, Accept, Unlock, UserTypeOK
  <2>2. \E pc \in {"ok", "rollback"} : Go(c, pc)
    BY <1>3 DEF Confirm, Accept
  <2> QED
    BY <1>1, <2>1, <2>2, GoType DEF ChangeStepOK, UserTypeOK
<1>4. CASE Rollback(c)
  BY <1>1, <1>4, RefuseType, SetDocType DEF Rollback, ChangeStepOK
<1> QED
  BY <1>2, <1>3, <1>4

LEMMA ChangeSteps ==
  ASSUME UserTypeOK, SavesOverUser, NEW c \in Changes, ChangeStep(c),
         etcd' \in [Users -> Entries \cup {None}]
  PROVE  UserTypeOK' /\ SavesOverUser'
<1>1. ChangeStepOK(c)
  BY RefreshStep, SaveStep, LaterSteps DEF ChangeStep
<1>2. UNCHANGED <<copy, starting>>
  BY DEF ChangeStep, Refresh, Save, Publish, Confirm, Rollback
<1>3. UserTypeOK'
  BY <1>1, <1>2 DEF UserTypeOK, ChangeStepOK, RestingChange, AskedChange
<1>4. SavesOverUser'
  BY <1>1 DEF SavesOverUser, ChangeStepOK
<1> QED
  BY <1>3, <1>4

(* The other steps.                                                        *)
LEMMA OtherSteps ==
  ASSUME UserTypeOK, SavesOverUser, UserNext, \A c \in Changes : ~ChangeStep(c),
         etcd' \in [Users -> Entries \cup {None}]
  PROVE  UserTypeOK' /\ SavesOverUser'
<1>1. ASSUME NEW c \in Changes, NEW r \in Regions, NEW u \in Users,
             NEW k \in {"password", "role", "register"}, NEW s \in BOOLEAN, AskChange(c, r, u, k, s)
      PROVE  UserTypeOK' /\ SavesOverUser'
  <2> DEFINE x == [pc |-> "refresh", region |-> r, user |-> u, kind |-> k, super |-> s, prev |-> None]
  <2>1. x \in AskedChange /\ x.pc = "refresh"
    BY DEF AskedChange
  <2>2. /\ change' = [change EXCEPT ![c] = x] /\ lock' = [lock EXCEPT ![u] = c]
        /\ UNCHANGED <<mongo, copy, starting>>
    BY <1>1 DEF AskChange
  <2> HIDE DEF x
  <2>3. /\ change' \in [Changes -> {Idle} \cup RestingChange \cup AskedChange]
        /\ change'[c] = x /\ \A b \in Changes \ {c} : change'[b] = change[b]
    BY <2>1, <2>2, ChangeType DEF UserTypeOK
  <2>4. lock' \in [Users -> Changes \cup {None}]
    BY <2>2 DEF UserTypeOK
  <2>5. UserTypeOK'
    BY <2>2, <2>3, <2>4 DEF UserTypeOK, RestingChange, AskedChange
  <2>6. SavesOverUser'
    BY <2>1, <2>3 DEF SavesOverUser
  <2> QED
    BY <2>5, <2>6
<1>2. ASSUME NEW u \in Users, LeaseEnds(u) PROVE UserTypeOK' /\ SavesOverUser'
  BY <1>2 DEF LeaseEnds, UserTypeOK, SavesOverUser
<1>3. ASSUME NEW r \in Regions, Crash(r) PROVE UserTypeOK' /\ SavesOverUser'
  <2>1. \A c \in Changes : Running(c) => Rest(c, "dead") \in RestingChange
    BY RestType, AskedType DEF Running
  <2>2. change' \in [Changes -> {Idle} \cup RestingChange \cup AskedChange]
    <3>1. change \in [Changes -> {Idle} \cup RestingChange \cup AskedChange]
      BY DEF UserTypeOK, RestingChange, AskedChange
    <3> QED
      BY <1>3, <2>1, <3>1 DEF Crash
  <2>3. \A c \in Changes : change'[c].pc = "save" => change'[c] = change[c]
    BY <1>3 DEF Crash, Rest
  <2>4. UNCHANGED <<mongo, lock>> /\ copy' \in [Regions -> [user : Users, entry : Entries] \cup {None}]
        /\ starting' \in [Regions -> SUBSET Users]
    BY <1>3 DEF Crash, UserTypeOK
  <2>5. UserTypeOK'
    BY <2>2, <2>4 DEF UserTypeOK, RestingChange, AskedChange
  <2>6. SavesOverUser'
    BY <2>3 DEF SavesOverUser
  <2> QED
    BY <2>5, <2>6
<1>4. ASSUME NEW r \in Regions, ApplyCopy(r) PROVE UserTypeOK' /\ SavesOverUser'
  <2>1. copy[r].user \in Users /\ copy[r].entry \in Entries
    BY <1>4 DEF ApplyCopy, UserTypeOK
  <2>2. Applied(mongo[r][copy[r].user], copy[r].entry) \in Docs \cup {None}
    BY <2>1, AppliedType DEF UserTypeOK
  <2>3. mongo' \in [Regions -> [Users -> Docs \cup {None}]]
    BY <1>4, <2>1, <2>2 DEF ApplyCopy, UserTypeOK
  <2>4. UNCHANGED <<lock, change, starting>> /\ copy' \in [Regions -> [user : Users, entry : Entries] \cup {None}]
    BY <1>4 DEF ApplyCopy, UserTypeOK
  <2> QED
    BY <2>3, <2>4 DEF UserTypeOK, SavesOverUser
<1>5. ASSUME NEW r \in Regions, NEW u \in Users, PublishLocal(r, u) PROVE UserTypeOK' /\ SavesOverUser'
  BY <1>5 DEF PublishLocal, UserTypeOK, SavesOverUser
<1>6. ASSUME NEW r \in Regions, NEW u \in Users, Pull(r, u) PROVE UserTypeOK' /\ SavesOverUser'
  <2>1. [user |-> u, entry |-> etcd[u]] \in [user : Users, entry : Entries]
    BY <1>6 DEF Pull, UserTypeOK
  <2>2. copy' \in [Regions -> [user : Users, entry : Entries] \cup {None}]
    BY <1>6, <2>1 DEF Pull, UserTypeOK
  <2> QED
    BY <1>6, <2>2 DEF Pull, UserTypeOK, SavesOverUser
<1> QED
  BY <1>1, <1>2, <1>3, <1>4, <1>5, <1>6 DEF UserNext, ChangeStep

-----------------------------------------------------------------------------
LEMMA UserInvInit == UserInit => UserInv
<1> SUFFICES ASSUME UserInit PROVE UserInv
  OBVIOUS
<1> DEFINE first == [pw |-> Initial, av |-> 0, super |-> TRUE, rv |-> 1]
           firstDoc == [pw |-> Initial, av |-> 0, super |-> TRUE, rv |-> 1, sync |-> FALSE]
<1>1. first \in Entries /\ Placeholder \in Docs /\ firstDoc \in Docs
  BY DEF Entries, Docs, Placeholder, Passwords
<1>2. etcd \in [Users -> Entries \cup {None}] /\ mongo \in [Regions -> [Users -> Docs \cup {None}]]
  <2>1. etcd \in [Users -> {None, first}] /\ mongo \in [Regions -> [Users -> {None, Placeholder, firstDoc}]]
    BY DEF UserInit
  <2> HIDE DEF first, firstDoc
  <2> QED
    BY <1>1, <2>1
<1>3. UserTypeOK
  BY <1>2 DEF UserInit, UserTypeOK
<1>4. SavesOverUser
  BY DEF UserInit, SavesOverUser, Idle
<1>5. SuperadminRemains
  <2>1. PICK u \in Users : etcd[u] # None
    BY UserConstants DEF UserInit
  <2>2. etcd[u].super
    BY <2>1 DEF UserInit
  <2> QED
    BY <2>1, <2>2 DEF SuperadminRemains, Superadmins
<1> QED
  BY <1>3, <1>4, <1>5 DEF UserInv

LEMMA UserInvStep == UserInv /\ [UserNext]_uvars => UserInv'
<1> SUFFICES ASSUME UserInv, [UserNext]_uvars PROVE UserInv'
  OBVIOUS
<1>1. CASE UserNext
  <2>1. etcd' \in [Users -> Entries \cup {None}]
    BY <1>1, EtcdMerges, MergeType DEF UserInv, UserTypeOK
  <2>2. UserTypeOK' /\ SavesOverUser'
    BY <1>1, <2>1, ChangeSteps, OtherSteps DEF UserInv
  <2>3. SuperadminRemains'
    <3>1. CASE UNCHANGED etcd
      BY <3>1 DEF UserInv, SuperadminRemains, Superadmins
    <3>2. CASE \E u \in Users, cand \in Entries, fields \in AllFields :
                 ~MergeRefused(etcd, u, cand, fields) /\ etcd' = Merge(etcd, u, cand, fields)
      BY <3>2, MergeKeepsSuperadmin DEF UserInv, UserTypeOK, SuperadminRemains
    <3> QED
      BY <1>1, <3>1, <3>2, EtcdMerges DEF UserInv
  <2> QED
    BY <2>2, <2>3 DEF UserInv
<1>2. CASE UNCHANGED uvars
  BY <1>2 DEF uvars, UserInv, UserTypeOK, SavesOverUser, SuperadminRemains, Superadmins
<1> QED
  BY <1>1, <1>2

LEMMA VersionsGrow ==
  ASSUME UserTypeOK, [UserNext]_uvars, NEW u \in Users, etcd[u] # None
  PROVE  etcd'[u] # None /\ ~Older(etcd[u], etcd'[u])
<1>1. CASE UNCHANGED etcd
  <2>1. etcd[u] \in Entries
    BY DEF UserTypeOK
  <2> QED
    BY <1>1, <2>1 DEF Older, Entries
<1>2. CASE \E v \in Users, cand \in Entries, fields \in AllFields :
             ~MergeRefused(etcd, v, cand, fields) /\ etcd' = Merge(etcd, v, cand, fields)
  BY <1>2, MergeGrows DEF UserTypeOK
<1> QED
  BY <1>1, <1>2, EtcdMerges DEF uvars

LEMMA UserAlways == UserSpec => []UserInv
BY UserInvInit, UserInvStep, PTL DEF UserSpec

(* The regions' copies and the requests keep their types, through every    *)
(* merge, roll-back and replay.                                            *)
THEOREM TypesCorrect == UserSpec => []UserTypeOK
<1>1. UserInv => UserTypeOK
  BY DEF UserInv
<1> QED
  BY <1>1, UserAlways, PTL

(* However many regions change, publish and replay users at once, the      *)
(* compare-and-swap never lets the last superadmin go.                     *)
THEOREM SuperadminCorrect == UserSpec => []SuperadminRemains
<1>1. UserInv => SuperadminRemains
  BY DEF UserInv
<1> QED
  BY <1>1, UserAlways, PTL

(* A version names one password, or one set of roles, for good, and does   *)
(* not come back once a later one was published.                           *)
THEOREM VersionsCorrect == UserSpec => VersionsOnlyGrow
<1>1. UserInv /\ [UserNext]_uvars =>
        [\A u \in Users : etcd[u] # None => etcd'[u] # None /\ ~Older(etcd[u], etcd'[u])]_uvars
  BY VersionsGrow DEF UserInv
<1> QED
  BY <1>1, UserAlways, PTL DEF UserSpec, VersionsOnlyGrow

-----------------------------------------------------------------------------
(* What a request x (of c) saves and publishes, and how it gets into Etcd: *)
(* what it saved is newer than what Etcd has, what it published stands.    *)
ChangedOf(c, x) ==
  CASE x.kind = "password" -> [x.prev EXCEPT !.pw = c, !.av = @ + 1]
    [] x.kind = "role" -> [x.prev EXCEPT !.super = x.super, !.rv = @ + 1]
    [] OTHER -> [pw |-> c, av |-> IF x.prev = None THEN 0 ELSE x.prev.av, super |-> x.super,
                 rv |-> IF x.prev = None THEN 1 ELSE x.prev.rv + 1, sync |-> FALSE]
FieldsOf(x) == CASE x.kind = "password" -> {"auth"} [] x.kind = "role" -> {"roles"}
                 [] OTHER -> {"auth", "roles", "profile"}
AheadOf(e, n, f) == e # None =>
  /\ "auth" \in f => e.av < n.av
  /\ "roles" \in f => e.rv < n.rv
SavedOf(d, n, f) ==
  /\ LoginUser(d)
  /\ "auth" \in f => d.av = n.av /\ d.pw = n.pw
  /\ "roles" \in f => d.rv = n.rv /\ d.super = n.super
StandsOf(e, n, f) ==
  /\ e # None
  /\ "auth" \in f => e.av > n.av \/ (e.av = n.av /\ e.pw = n.pw)
  /\ "roles" \in f => e.rv > n.rv \/ (e.rv = n.rv /\ e.super = n.super)
Followed(c) ==
  LET x == change[c]  n == ChangedOf(c, x)  f == FieldsOf(x)
  IN /\ x.pc \in {"save", "publish", "confirm", "ok"} /\ x.kind # "register" => LoginUser(x.prev)
     /\ x.pc \in {"save", "publish"} /\ Owned(c) => AheadOf(etcd[x.user], n, f)
     /\ x.pc = "publish" /\ Owned(c) => SavedOf(mongo[x.region][x.user], n, f) \/ Lost(x.region, x.user)
     /\ x.pc \in {"confirm", "ok"} => StandsOf(etcd[x.user], n, f) \/ Lost(x.region, x.user)
LEMMA ChangedMeans ==
  ASSUME NEW c \in Changes
  PROVE  Changed(c) = ChangedOf(c, change[c]) /\ Fields(c) = FieldsOf(change[c])
BY DEF Changed, ChangedOf, Fields, FieldsOf

(* A pull does not undo what is ahead of Etcd.                             *)
LEMMA AppliedKeeps ==
  ASSUME NEW d \in Docs \cup {None}, NEW e \in Entries \cup {None}, NEW n \in Docs, NEW f,
         AheadOf(e, n, f), SavedOf(d, n, f)
  PROVE  SavedOf(Applied(d, e), n, f)
<1>1. CASE e = None
  BY <1>1 DEF Applied
<1>2. CASE e # None
  <2>1. d \in Docs /\ d # None /\ e \in Entries
    BY <1>2 DEF SavedOf, LoginUser
  <2> DEFINE a == [pw |-> IF e.av >= d.av THEN e.pw ELSE d.pw, av |-> IF e.av >= d.av THEN e.av ELSE d.av,
                   super |-> IF e.rv >= d.rv THEN e.super ELSE d.super,
                   rv |-> IF e.rv >= d.rv THEN e.rv ELSE d.rv, sync |-> FALSE]
  <2>2. Applied(d, e) = a
    BY <1>2, <2>1 DEF Applied
  <2>3. d.av \in Nat /\ d.rv \in Nat /\ e.av \in Nat /\ e.rv \in Nat
    BY <2>1 DEF Docs, Entries
  <2>4. "auth" \in f => a.av = n.av /\ a.pw = n.pw
    BY <1>2, <2>3 DEF AheadOf, SavedOf
  <2>5. "roles" \in f => a.rv = n.rv /\ a.super = n.super
    BY <1>2, <2>3 DEF AheadOf, SavedOf
  <2>6. a.sync = FALSE
    OBVIOUS
  <2>7. a \in Docs
    BY <2>1 DEF Docs, Entries
  <2> HIDE DEF a
  <2> QED BY <2>2, <2>4, <2>5, <2>6, <2>7, NoneIsNoEntry DEF SavedOf, LoginUser
<1> QED BY <1>1, <1>2

(* Nor does what grows in Etcd.                                            *)
LEMMA StandsStays ==
  ASSUME NEW e \in Entries \cup {None}, NEW g \in Entries \cup {None}, NEW n \in Docs, NEW f,
         StandsOf(e, n, f), g # None, ~Older(e, g)
  PROVE  StandsOf(g, n, f)
<1>1. e \in Entries /\ g \in Entries
  BY DEF StandsOf
<1>2. e.av \in Nat /\ e.rv \in Nat /\ g.av \in Nat /\ g.rv \in Nat /\ n.av \in Nat /\ n.rv \in Nat
  BY <1>1 DEF Entries, Docs
<1> QED BY <1>2 DEF StandsOf, Older

(* A merge of what was saved makes it stand.                               *)
LEMMA MergeStands ==
  ASSUME NEW e \in [Users -> Entries \cup {None}], NEW u \in Users, NEW d \in Docs, NEW n \in Docs,
         NEW f \in AllFields \ {{}}, SavedOf(d, n, f), ~MergeRefused(e, u, Entry(d), f)
  PROVE  StandsOf(Merge(e, u, Entry(d), f)[u], n, f)
<1> DEFINE cand == Entry(d)
           m == Merge(e, u, cand, f)
<1>1. cand \in Entries /\ cand.pw = d.pw /\ cand.av = d.av /\ cand.super = d.super /\ cand.rv = d.rv
  BY DEF Entry, Entries, Docs
<1>0. f \in AllFields
  OBVIOUS
<1> SUFFICES StandsOf(m[u], n, f)
  OBVIOUS
<1> HIDE DEF cand
<1>2. CASE e[u] = None
  <2>1. m[u] = cand /\ cand # None
    BY <1>0, <1>1, <1>2, MergeType, NoneIsNoEntry
  <2> QED BY <1>1, <2>1 DEF StandsOf, SavedOf
<1>3. CASE e[u] # None
  <2>1. /\ m[u] \in Entries
        /\ Takes("auth", f, cand.av, e[u].av) => m[u].pw = cand.pw /\ m[u].av = cand.av
        /\ Takes("roles", f, cand.rv, e[u].rv) => m[u].super = cand.super /\ m[u].rv = cand.rv
    BY <1>0, <1>1, <1>3, MergeType
  <2>2. ("auth" \in f => Takes("auth", f, cand.av, e[u].av)) /\ ("roles" \in f => Takes("roles", f, cand.rv, e[u].rv))
    BY DEF Takes
  <2>3. m[u] # None
    BY <2>1, NoneIsNoEntry
  <2> QED BY <1>1, <2>1, <2>2, <2>3 DEF StandsOf, SavedOf
<1> QED BY <1>2, <1>3

(* What a request wants to save, once it has read Etcd, is newer than that.*)
LEMMA RefreshAhead ==
  ASSUME NEW c \in Changes, NEW d \in Docs \cup {None}, NEW e \in Entries \cup {None}, NEW x \in AskedChange,
         x.prev = Applied(d, e), IF x.kind = "register" THEN ~LoginUser(x.prev) ELSE LoginUser(x.prev)
  PROVE  AheadOf(e, ChangedOf(c, x), FieldsOf(x))
<1> DEFINE p == x.prev
<1> SUFFICES ASSUME e # None PROVE AheadOf(e, ChangedOf(c, x), FieldsOf(x))
  BY DEF AheadOf
<1>1. p \in Docs /\ e \in Entries
  BY AppliedType, NoneIsNoEntry DEF Applied, Doc, Docs, Entries
<1>2. p.sync = FALSE /\ p # None /\ e.av \in Nat /\ e.rv \in Nat /\ p.av >= e.av /\ p.rv >= e.rv
  <2>1. CASE d = None
    <3>1. p = Doc(e)
      BY <2>1 DEF Applied
    <3>2. p.sync = FALSE /\ p.av = e.av /\ p.rv = e.rv
      BY <3>1 DEF Doc
    <3>3. e.av \in Nat /\ e.rv \in Nat
      BY <1>1 DEF Entries
    <3> QED BY <1>1, <3>2, <3>3, NoneIsNoEntry
  <2>2. CASE d # None
    <3>1. /\ p.av = IF e.av >= d.av THEN e.av ELSE d.av
          /\ p.rv = IF e.rv >= d.rv THEN e.rv ELSE d.rv
          /\ p.sync = FALSE
      BY <2>2 DEF Applied
    <3>2. d.av \in Nat /\ d.rv \in Nat /\ e.av \in Nat /\ e.rv \in Nat
      BY <1>1, <2>2 DEF Docs, Entries
    <3> QED BY <1>1, <3>1, <3>2, NoneIsNoEntry
  <2> QED BY <2>1, <2>2
<1>3. x.kind \in {"password", "role"}
  BY <1>2 DEF AskedChange, LoginUser
<1>4. CASE x.kind = "password"
  <2>1. ChangedOf(c, x).av = p.av + 1
    BY <1>1, <1>4 DEF ChangedOf, Docs
  <2> QED BY <1>1, <1>2, <1>4, <2>1 DEF AheadOf, FieldsOf, Docs
<1>5. CASE x.kind = "role"
  <2>1. ChangedOf(c, x).rv = p.rv + 1
    BY <1>1, <1>5 DEF ChangedOf, Docs
  <2> QED BY <1>1, <1>2, <1>5, <2>1 DEF AheadOf, FieldsOf, Docs
<1> QED BY <1>3, <1>4, <1>5

(* What is saved is what is wanted.                                        *)
LEMMA SavedIsWanted ==
  ASSUME NEW n \in Docs, n.sync = FALSE, NEW f
  PROVE  SavedOf(n, n, f)
BY NoneIsNoEntry DEF SavedOf, LoginUser

LEMMA WantedType ==
  ASSUME NEW c \in Changes, NEW x \in AskedChange, x.kind # "register" => LoginUser(x.prev)
  PROVE  /\ ChangedOf(c, x) \in Docs /\ ChangedOf(c, x).sync = FALSE
         /\ FieldsOf(x) \in AllFields \ {{}}
         /\ "auth" \in FieldsOf(x) => ChangedOf(c, x).pw = c
<1> DEFINE p == x.prev
<1>1. c \in Passwords
  BY DEF Passwords
<1>2. CASE x.kind # "register"
  <2>1. p \in Docs /\ p.sync = FALSE /\ x.super \in BOOLEAN /\ x.kind \in {"password", "role"}
    BY <1>2 DEF AskedChange, LoginUser, Docs
  <2>2. ASSUME NEW d \in Docs
        PROVE  LET y == [d EXCEPT !.pw = c, !.av = @ + 1] IN y \in Docs /\ y.pw = c /\ y.sync = d.sync
    <3>1. [d EXCEPT !.pw = c] \in Docs
      BY <1>1 DEF Docs
    <3>2. \A e \in Docs : [e EXCEPT !.av = @ + 1] \in Docs
      BY DEF Docs
    <3>3. [d EXCEPT !.pw = c].av = d.av
      BY DEF Docs
    <3> QED BY <3>1, <3>2, <3>3 DEF Docs
  <2>3. ASSUME NEW d \in Docs, NEW super \in BOOLEAN
        PROVE  LET y == [d EXCEPT !.super = super, !.rv = @ + 1] IN y \in Docs /\ y.sync = d.sync
    <3>1. [d EXCEPT !.super = super] \in Docs
      BY DEF Docs
    <3>2. \A e \in Docs : [e EXCEPT !.rv = @ + 1] \in Docs
      BY DEF Docs
    <3>3. [d EXCEPT !.super = super].rv = d.rv
      BY DEF Docs
    <3> QED BY <3>1, <3>2, <3>3 DEF Docs
  <2>4. CASE x.kind = "password"
    <3>1. ChangedOf(c, x) = [p EXCEPT !.pw = c, !.av = @ + 1] /\ FieldsOf(x) = {"auth"}
      BY <2>4 DEF ChangedOf, FieldsOf
    <3>2. LET y == [p EXCEPT !.pw = c, !.av = @ + 1] IN y \in Docs /\ y.pw = c /\ y.sync = p.sync
      BY <2>1, <2>2
    <3> HIDE DEF p
    <3> QED BY <2>1, <3>1, <3>2 DEF AllFields
  <2>5. CASE x.kind = "role"
    <3>1. ChangedOf(c, x) = [p EXCEPT !.super = x.super, !.rv = @ + 1] /\ FieldsOf(x) = {"roles"}
      BY <2>5 DEF ChangedOf, FieldsOf
    <3>2. LET y == [p EXCEPT !.super = x.super, !.rv = @ + 1] IN y \in Docs /\ y.sync = p.sync
      BY <2>1, <2>3
    <3> HIDE DEF p
    <3> QED BY <2>1, <3>1, <3>2 DEF AllFields
  <2> QED BY <2>1, <2>4, <2>5
<1>3. CASE x.kind = "register"
  <2>1. p \in Docs \cup {None} /\ x.super \in BOOLEAN
    BY DEF AskedChange
  <2>2. /\ ChangedOf(c, x) = [pw |-> c, av |-> IF p = None THEN 0 ELSE p.av, super |-> x.super,
                              rv |-> IF p = None THEN 1 ELSE p.rv + 1, sync |-> FALSE]
        /\ FieldsOf(x) = {"auth", "roles", "profile"}
    BY <1>3 DEF ChangedOf, FieldsOf
  <2> QED BY <1>1, <2>1, <2>2 DEF Docs, AllFields
<1> QED BY <1>2, <1>3

LEMMA GoSame ==
  ASSUME UserTypeOK, NEW c \in Changes, change[c] \in AskedChange, NEW pc \in {"publish", "confirm", "rollback", "ok"},
         Go(c, pc)
  PROVE  /\ change'[c].pc = pc /\ change'[c].region = change[c].region /\ change'[c].user = change[c].user
         /\ change'[c].kind = change[c].kind /\ change'[c].prev = change[c].prev
         /\ ChangedOf(c, change'[c]) = ChangedOf(c, change[c]) /\ FieldsOf(change'[c]) = FieldsOf(change[c])
<1> DEFINE x == [change[c] EXCEPT !.pc = pc]
<1>1. /\ x.pc = pc /\ x.region = change[c].region /\ x.user = change[c].user /\ x.kind = change[c].kind
      /\ x.prev = change[c].prev /\ x.super = change[c].super
  BY DEF AskedChange
<1>2. change'[c] = x
  BY DEF Go, UserTypeOK
<1> HIDE DEF x
<1> QED BY <1>1, <1>2 DEF ChangedOf, FieldsOf

(* What one request's step may do to the others.                           *)
LEMMA StepEffects ==
  ASSUME UserTypeOK, SavesOverUser, NEW b \in Changes, ChangeStep(b)
  PROVE  /\ change[b] \in AskedChange /\ change[b].pc \notin {"ok", "refused"}
         /\ \A c \in Changes \ {b} : change'[c] = change[c]
         /\ \A v \in Users : lock'[v] \in {lock[v], None}
         /\ \A v \in Users : etcd'[v] = etcd[v] \/ (v = change[b].user /\ Owned(b))
         /\ \A r \in Regions, v \in Users :
              \/ mongo'[r][v] = mongo[r][v]
              \/ /\ r = change[b].region /\ v = change[b].user
                 /\ \/ Owned(b)
                    \/ mongo'[r][v] = Applied(mongo[r][v], etcd[v])
                    \/ change'[b] = Rest(b, "refused")
<1>1. change[b] \in AskedChange /\ change[b].pc \in {"refresh", "save", "publish", "confirm", "rollback"}
  BY AskedType DEF ChangeStep, Refresh, Save, Publish, Confirm, Rollback
<1>2. \A c \in Changes \ {b} : change'[c] = change[c]
  BY RefreshStep, SaveStep, LaterSteps DEF ChangeStep, ChangeStepOK
<1>3. change[b].user \in Users /\ change[b].region \in Regions
  BY <1>1 DEF AskedChange
<1>4. \A v \in Users : lock'[v] \in {lock[v], None}
  <2>1. UNCHANGED lock \/ Unlock(b)
    BY DEF ChangeStep, Refresh, Save, Publish, Confirm, Rollback, Refuse, Accept
  <2> QED BY <2>1 DEF Unlock, UserTypeOK
<1>5. \A v \in Users : etcd'[v] = etcd[v] \/ (v = change[b].user /\ Owned(b))
  <2>1. CASE UNCHANGED etcd
    BY <2>1
  <2>2. CASE Owned(b) /\ LoginUser(mongo[change[b].region][change[b].user])
             /\ etcd' = Merge(etcd, change[b].user, Entry(mongo[change[b].region][change[b].user]), Fields(b))
    <3> DEFINE d == mongo[change[b].region][change[b].user]
    <3>1. d \in Docs /\ Fields(b) \in AllFields
      BY <1>1, <1>3, <2>2 DEF LoginUser, UserTypeOK, Fields, AllFields
    <3>2. Entry(d) \in Entries
      BY <3>1 DEF Entry, Entries, Docs
    <3>3. etcd \in [Users -> Entries \cup {None}]
      BY DEF UserTypeOK
    <3> HIDE DEF d
    <3>4. \A v \in Users \ {change[b].user} : Merge(etcd, change[b].user, Entry(d), Fields(b))[v] = etcd[v]
      BY <1>3, <3>1, <3>2, <3>3, MergeType
    <3> QED BY <2>2, <3>4 DEF d
  <2> QED BY <2>1, <2>2 DEF ChangeStep, Refresh, Save, Publish, Confirm, Rollback
<1>6. ASSUME NEW d \in Docs \cup {None}, SetDoc(b, d), NEW r \in Regions, NEW v \in Users
      PROVE  mongo'[r][v] = IF r = change[b].region /\ v = change[b].user THEN d ELSE mongo[r][v]
  BY <1>3, <1>6 DEF SetDoc, UserTypeOK
<1>7. \A r \in Regions, v \in Users :
              \/ mongo'[r][v] = mongo[r][v]
              \/ /\ r = change[b].region /\ v = change[b].user
                 /\ \/ Owned(b)
                    \/ mongo'[r][v] = Applied(mongo[r][v], etcd[v])
                    \/ change'[b] = Rest(b, "refused")
  <2>1. CASE Refresh(b)
    <3> DEFINE d == Applied(mongo[change[b].region][change[b].user], etcd[change[b].user])
    <3>1. d \in Docs \cup {None}
      <4>1. /\ mongo[change[b].region][change[b].user] \in Docs \cup {None}
            /\ etcd[change[b].user] \in Entries \cup {None}
        BY <1>3 DEF UserTypeOK
      <4> QED BY <4>1, AppliedType
    <3>2. UNCHANGED mongo \/ SetDoc(b, d)
      BY <2>1 DEF Refresh
    <3> QED BY <1>6, <3>1, <3>2
  <2>2. CASE Save(b)
    <3>1. UNCHANGED mongo \/ (Owned(b) /\ SetDoc(b, Changed(b)))
      BY <2>2 DEF Save
    <3>2. Changed(b) \in Docs
      BY <2>2, ChangedType DEF Save
    <3> QED BY <1>6, <3>1, <3>2
  <2>3. CASE Publish(b) \/ Confirm(b)
    BY <2>3 DEF Publish, Confirm
  <2>4. CASE Rollback(b)
    <3>1. SetDoc(b, change[b].prev) /\ change[b].prev \in Docs \cup {None}
      BY <1>1, <2>4 DEF Rollback, AskedChange
    <3>2. change'[b] = Rest(b, "refused")
      BY <2>4 DEF Rollback, Refuse, UserTypeOK
    <3> QED BY <1>6, <3>1, <3>2
  <2> QED BY <2>1, <2>2, <2>3, <2>4 DEF ChangeStep
<1> QED BY <1>1, <1>2, <1>4, <1>5, <1>7

LEMMA LostStays ==
  ASSUME UserTypeOK, SavesOverUser, UserNext, NEW r \in Regions, NEW u \in Users, Lost(r, u)
  PROVE  Lost(r, u)'
<1>1. PICK b \in Changes : change[b].pc = "refused" /\ change[b].lost /\ change[b].region = r /\ change[b].user = u
  BY DEF Lost
<1>2. change'[b] = change[b]
  <2>1. ASSUME NEW c \in Changes, ChangeStep(c) PROVE change'[b] = change[b]
    BY <1>1, <2>1, StepEffects
  <2>2. ASSUME NEW c \in Changes, NEW s \in Regions, NEW v \in Users, NEW k \in {"password", "role", "register"},
               NEW super \in BOOLEAN, AskChange(c, s, v, k, super)
        PROVE  change'[b] = change[b]
    BY <1>1, <2>2 DEF AskChange, Idle, UserTypeOK
  <2>3. ASSUME NEW s \in Regions, Crash(s) PROVE change'[b] = change[b]
    BY <1>1, <2>3 DEF Crash, Running
  <2> QED BY <2>1, <2>2, <2>3 DEF UserNext, ChangeStep, LeaseEnds, ApplyCopy, PublishLocal, Pull
<1> QED BY <1>1, <1>2 DEF Lost

(* A step that leaves request c alone, and what it has saved.              *)
LEMMA Bystander ==
  ASSUME UserTypeOK, UserTypeOK', SavesOverUser, UserNext, NEW c \in Changes, Followed(c), change'[c] = change[c],
         change[c].pc \in {"save", "publish"} /\ Owned(c)' =>
           /\ Owned(c) /\ etcd'[change[c].user] = etcd[change[c].user]
           /\ LET r == change[c].region  u == change[c].user
              IN mongo'[r][u] = mongo[r][u] \/ mongo'[r][u] = Applied(mongo[r][u], etcd[u]) \/ Lost(r, u)'
  PROVE  Followed(c)'
<1> DEFINE x == change[c]
           n == ChangedOf(c, x)
           f == FieldsOf(x)
           r == x.region
           u == x.user
<1> SUFFICES ASSUME x.pc \in {"save", "publish", "confirm", "ok"} PROVE Followed(c)'
  BY DEF Followed
<1>1. x \in AskedChange /\ (x.kind # "register" => LoginUser(x.prev))
  BY AskedType DEF Followed
<1>2. n \in Docs /\ r \in Regions /\ u \in Users
  BY <1>1, WantedType DEF AskedChange
<1>3. /\ etcd[u] \in Entries \cup {None} /\ etcd'[u] \in Entries \cup {None}
      /\ mongo[r][u] \in Docs \cup {None}
  BY <1>2 DEF UserTypeOK
<1>4. /\ x.pc \in {"save", "publish"} /\ Owned(c) => AheadOf(etcd[u], n, f)
      /\ x.pc = "publish" /\ Owned(c) => SavedOf(mongo[r][u], n, f) \/ Lost(r, u)
      /\ x.pc \in {"confirm", "ok"} => StandsOf(etcd[u], n, f) \/ Lost(r, u)
  BY DEF Followed
<1>5. Lost(r, u) => Lost(r, u)'
  BY <1>2, LostStays
<1>6. StandsOf(etcd[u], n, f) => StandsOf(etcd'[u], n, f)
  <2> SUFFICES ASSUME StandsOf(etcd[u], n, f) PROVE StandsOf(etcd'[u], n, f)
    OBVIOUS
  <2>1. etcd'[u] # None /\ ~Older(etcd[u], etcd'[u])
    BY <1>2, VersionsGrow DEF StandsOf
  <2> QED BY <1>2, <1>3, <2>1, StandsStays
<1>7. x.pc = "publish" /\ Owned(c)' => SavedOf(mongo'[r][u], n, f) \/ Lost(r, u)'
  <2> SUFFICES ASSUME x.pc = "publish", Owned(c)' PROVE SavedOf(mongo'[r][u], n, f) \/ Lost(r, u)'
    OBVIOUS
  <2>1. Owned(c) /\ (mongo'[r][u] = mongo[r][u] \/ mongo'[r][u] = Applied(mongo[r][u], etcd[u]) \/ Lost(r, u)')
    OBVIOUS
  <2>2. AheadOf(etcd[u], n, f) /\ (SavedOf(mongo[r][u], n, f) \/ Lost(r, u))
    BY <1>4, <2>1
  <2>3. SavedOf(mongo[r][u], n, f) => SavedOf(Applied(mongo[r][u], etcd[u]), n, f)
    BY <1>2, <1>3, <2>2, AppliedKeeps
  <2> QED BY <1>5, <2>1, <2>2, <2>3
<1>8. x.pc \in {"save", "publish"} /\ Owned(c)' => AheadOf(etcd'[u], n, f)
  BY <1>4
<1> QED BY <1>1, <1>4, <1>5, <1>6, <1>7, <1>8 DEF Followed

(* The steps of the request itself.                                        *)
LEMMA OwnStep ==
  ASSUME UserTypeOK, UserTypeOK', SavesOverUser, UserNext, NEW c \in Changes, Followed(c), ChangeStep(c)
  PROVE  Followed(c)'
<1> DEFINE x == change[c]
           n == ChangedOf(c, x)
           f == FieldsOf(x)
<1>0. x \in AskedChange /\ x.region \in Regions /\ x.user \in Users
  BY StepEffects DEF AskedChange
<1>1. PICK r \in Regions, u \in Users : x \in AskedChange /\ r = x.region /\ u = x.user
  BY <1>0
<1>2. SUFFICES ASSUME change'[c].pc \notin {"refused", "rollback"} PROVE Followed(c)'
  BY DEF Followed
<1>3. ~Refuse(c)
  BY <1>2 DEF Refuse, Rest, UserTypeOK
<1>4. /\ etcd[u] \in Entries \cup {None} /\ mongo[r][u] \in Docs \cup {None}
  BY <1>1 DEF UserTypeOK
<1>5. Lost(r, u) => Lost(r, u)'
  BY <1>1, LostStays
<1>6. ~Go(c, "rollback")
  BY <1>1, <1>2, GoSame
<1>7. CASE Refresh(c)
  <2> DEFINE d == Applied(mongo[r][u], etcd[u])
             y == [x EXCEPT !.pc = "save", !.prev = d]
  <2>1. /\ change' = [change EXCEPT ![c].pc = "save", ![c].prev = d] /\ UNCHANGED <<lock, etcd>>
        /\ IF x.kind = "register" THEN ~LoginUser(d) ELSE LoginUser(d)
    BY <1>1, <1>3, <1>7 DEF Refresh
  <2>2. d \in Docs \cup {None}
    BY <1>4, AppliedType
  <2>3. y \in AskedChange /\ y.pc = "save" /\ y.prev = d /\ y.kind = x.kind /\ y.user = u /\ y.region = r
    BY <1>1, <2>2 DEF AskedChange
  <2>4. change'[c] = y
    BY <2>1 DEF UserTypeOK
  <2> HIDE DEF y
  <2>5. AheadOf(etcd[u], ChangedOf(c, y), FieldsOf(y))
    BY <1>4, <2>1, <2>3, RefreshAhead
  <2> QED BY <2>1, <2>3, <2>4, <2>5 DEF Followed
<1>8. ASSUME ~Refresh(c) PROVE Followed(c)'
  <2>1. PICK pc \in {"publish", "confirm", "ok"} : Go(c, pc)
    BY <1>3, <1>6, <1>8 DEF ChangeStep, Save, Publish, Confirm, Rollback, Accept
  <2>2. /\ change'[c].pc = pc /\ change'[c].region = r /\ change'[c].user = u
        /\ change'[c].kind = x.kind /\ change'[c].prev = x.prev
        /\ ChangedOf(c, change'[c]) = n /\ FieldsOf(change'[c]) = f
    BY <1>1, <2>1, GoSame
  <2>3. x.pc \in {"save", "publish", "confirm"} /\ (x.kind # "register" => LoginUser(x.prev))
    BY <1>3, <1>8 DEF ChangeStep, Save, Publish, Confirm, Rollback, Followed
  <2>4. n \in Docs /\ n.sync = FALSE /\ f \in AllFields \ {{}}
    BY <1>1, <2>3, WantedType
  <2>5. n = Changed(c) /\ f = Fields(c)
    BY ChangedMeans
  <2>6. CASE Save(c)
    <3>1. Owned(c) /\ SetDoc(c, n) /\ Go(c, "publish") /\ UNCHANGED <<lock, etcd>>
      BY <1>3, <1>6, <2>5, <2>6 DEF Save
    <3>2. pc = "publish"
      BY <1>1, <2>2, <3>1, GoSame
    <3>3. mongo'[r][u] = n
      BY <1>1, <3>1 DEF SetDoc, UserTypeOK
    <3>4. SavedOf(n, n, f)
      BY <2>4, SavedIsWanted
    <3>5. AheadOf(etcd[u], n, f)
      BY <1>1, <2>6, <3>1 DEF Save, Followed
    <3> QED BY <2>2, <2>3, <3>1, <3>2, <3>3, <3>4, <3>5 DEF Followed
  <2>7. CASE Publish(c)
    <3>1. pc = "confirm" /\ Owned(c) /\ x.pc = "publish"
      BY <1>1, <1>6, <2>2, <2>7, GoSame DEF Publish
    <3>2. SavedOf(mongo[r][u], n, f) \/ Lost(r, u)
      BY <1>1, <3>1 DEF Followed
    <3>3. CASE SavedOf(mongo[r][u], n, f)
      <4> DEFINE d == mongo[r][u]
      <4>1. LoginUser(d) /\ d \in Docs
        BY <1>4, <3>3 DEF SavedOf, LoginUser
      <4>2. ~MergeRefused(etcd, u, Entry(d), f) /\ etcd' = Merge(etcd, u, Entry(d), f)
        BY <1>1, <1>6, <2>5, <2>7, <4>1 DEF Publish
      <4>3. etcd \in [Users -> Entries \cup {None}]
        BY DEF UserTypeOK
      <4> HIDE DEF d
      <4>4. StandsOf(etcd'[u], n, f)
        BY <1>1, <2>4, <3>3, <4>1, <4>2, <4>3, MergeStands DEF d
      <4> QED BY <2>2, <2>3, <3>1, <4>4 DEF Followed
    <3>4. CASE Lost(r, u)
      BY <1>5, <2>2, <2>3, <3>1, <3>4 DEF Followed
    <3> QED BY <3>2, <3>3, <3>4
  <2>8. CASE Confirm(c)
    <3>1. pc = "ok" /\ UNCHANGED etcd /\ x.pc = "confirm"
      BY <1>1, <1>6, <2>2, <2>8, GoSame DEF Confirm, Accept
    <3>2. StandsOf(etcd[u], n, f) \/ Lost(r, u)
      BY <1>1, <3>1 DEF Followed
    <3> QED BY <1>5, <2>2, <2>3, <3>1, <3>2 DEF Followed
  <2> QED BY <1>3, <1>8, <2>6, <2>7, <2>8 DEF ChangeStep, Rollback
<1> QED BY <1>7, <1>8

LEMMA FollowsStep ==
  ASSUME UserTypeOK, UserTypeOK', SavesOverUser, UserNext, NEW c \in Changes, Followed(c)
  PROVE  Followed(c)'
<1>1. ASSUME NEW b \in Changes, ChangeStep(b), b # c PROVE Followed(c)'
  <2>1. change'[c] = change[c]
    BY <1>1, StepEffects
  <2> DEFINE r == change[c].region
             u == change[c].user
  <2>2. ASSUME change[c].pc \in {"save", "publish"}, Owned(c)'
        PROVE  /\ Owned(c) /\ etcd'[u] = etcd[u]
               /\ mongo'[r][u] = mongo[r][u] \/ mongo'[r][u] = Applied(mongo[r][u], etcd[u]) \/ Lost(r, u)'
    <3>1. u \in Users /\ r \in Regions
      BY <2>2, AskedType DEF AskedChange
    <3>2. lock'[u] = c /\ lock'[u] \in {lock[u], None} /\ c # None
      BY <1>1, <2>1, <2>2, <3>1, StepEffects, UserConstants DEF Owned
    <3>3. lock[u] = c
      BY <3>2
    <3>4. u = change[b].user => ~Owned(b)
      BY <1>1, <3>3 DEF Owned
    <3>5. etcd'[u] = etcd[u]
      BY <1>1, <3>1, <3>4, StepEffects
    <3>6. \/ mongo'[r][u] = mongo[r][u]
          \/ /\ r = change[b].region /\ u = change[b].user
             /\ mongo'[r][u] = Applied(mongo[r][u], etcd[u]) \/ change'[b] = Rest(b, "refused")
      BY <1>1, <3>1, <3>4, StepEffects
    <3>7. ASSUME r = change[b].region, u = change[b].user, change'[b] = Rest(b, "refused") PROVE Lost(r, u)'
      <4>1. change'[b].pc = "refused" /\ change'[b].region = r /\ change'[b].user = u
        BY <3>7 DEF Rest
      <4>2. change'[b].lost = ~Owned(b) /\ ~Owned(b)
        BY <3>4, <3>7 DEF Rest
      <4>3. change'[c].region = r /\ change'[c].user = u
        BY <2>1
      <4> QED BY <4>1, <4>2, <4>3, Zenon DEF Lost
    <3> QED BY <3>3, <3>5, <3>6, <3>7 DEF Owned
  <2> QED BY <2>1, <2>2, Bystander
<1>2. ASSUME \A b \in Changes : ~ChangeStep(b), change'[c] # change[c] PROVE Followed(c)'
  <2>1. CASE \E r \in Regions : Crash(r)
    <3>1. change'[c].pc = "dead"
      BY <1>2, <2>1 DEF Crash, Rest
    <3> QED BY <3>1 DEF Followed
  <2>2. CASE \E b \in Changes, r \in Regions, u \in Users, k \in {"password", "role", "register"},
                s \in BOOLEAN : AskChange(b, r, u, k, s)
    <3>1. change'[c].pc = "refresh"
      BY <1>2, <2>2 DEF AskChange, UserTypeOK
    <3> QED BY <3>1 DEF Followed
  <2> QED BY <1>2, <2>1, <2>2 DEF UserNext, ChangeStep, LeaseEnds, ApplyCopy, PublishLocal, Pull
<1>3. ASSUME \A b \in Changes : ~ChangeStep(b), change'[c] = change[c] PROVE Followed(c)'
  <2> DEFINE r == change[c].region
             u == change[c].user
  <2>1. ASSUME change[c].pc \in {"save", "publish"}, Owned(c)'
        PROVE  Owned(c) /\ etcd'[u] = etcd[u] /\ mongo'[r][u] = mongo[r][u]
    <3>1. u \in Users /\ r \in Regions /\ lock'[u] = c /\ c # None
      BY <1>3, <2>1, AskedType, UserConstants DEF AskedChange, Owned
    <3>2. lock[u] = c
      <4>1. ASSUME NEW b \in Changes, NEW s \in Regions, NEW v \in Users, NEW k \in {"password", "role", "register"},
                   NEW super \in BOOLEAN, AskChange(b, s, v, k, super)
            PROVE  lock[u] = c
        <5>1. b # c
          BY <2>1, <4>1 DEF AskChange, Idle
        <5> QED BY <3>1, <4>1, <5>1 DEF AskChange, UserTypeOK
      <4>2. ASSUME NEW v \in Users, LeaseEnds(v) PROVE lock[u] = c
        BY <3>1, <4>2 DEF LeaseEnds, UserTypeOK
      <4> QED BY <1>3, <3>1, <4>1, <4>2 DEF UserNext, ChangeStep, Crash, ApplyCopy, PublishLocal, Pull
    <3>3. etcd'[u] = etcd[u]
      <4>1. ASSUME NEW s \in Regions, NEW v \in Users, PublishLocal(s, v) PROVE etcd'[u] = etcd[u]
        <5>1. CASE etcd' = etcd
          BY <5>1
        <5>2. CASE lock[v] = None /\ LoginUser(mongo[s][v]) /\ etcd' = Merge(etcd, v, Entry(mongo[s][v]), {})
          <6>1. v # u /\ mongo[s][v] \in Docs /\ {} \in AllFields /\ etcd \in [Users -> Entries \cup {None}]
            BY <3>1, <3>2, <5>2 DEF LoginUser, UserTypeOK, AllFields
          <6>2. Entry(mongo[s][v]) \in Entries
            BY <6>1 DEF Entry, Entries, Docs
          <6> QED BY <3>1, <5>2, <6>1, <6>2, MergeType
        <5> QED BY <4>1, <5>1, <5>2 DEF PublishLocal
      <4> QED BY <1>3, <4>1 DEF UserNext, ChangeStep, AskChange, LeaseEnds, Crash, ApplyCopy, Pull
    <3>4. mongo'[r][u] = mongo[r][u]
      <4>1. ASSUME NEW s \in Regions, ApplyCopy(s) PROVE mongo'[r][u] = mongo[r][u]
        BY <3>1, <3>2, <4>1 DEF ApplyCopy, UserTypeOK
      <4> QED BY <1>3, <4>1 DEF UserNext, ChangeStep, AskChange, LeaseEnds, Crash, PublishLocal, Pull
    <3> QED BY <3>2, <3>3, <3>4 DEF Owned
  <2> QED BY <1>3, <2>1, Bystander
<1> QED BY <1>1, <1>2, <1>3, OwnStep

(* A change the client was told had succeeded is in Etcd, or a later one.  *)
(* A change whose client was told it had succeeded stays in Etcd, or a     *)
(* later one of that kind is there, whatever requests and copies write     *)
(* meanwhile, unless a request that had lost its lock put its region's     *)
(* document back.                                                          *)
THEOREM ChangesStand == UserSpec => []ChangeStands
<1> DEFINE All == \A c \in Changes : Followed(c)
<1>1. UserInit => All
  BY DEF UserInit, Followed, Idle
<1>2. UserInv /\ UserInv' /\ All /\ [UserNext]_uvars => All'
  <2> SUFFICES ASSUME UserInv, UserInv', All, [UserNext]_uvars, NEW c \in Changes PROVE Followed(c)'
    OBVIOUS
  <2>1. CASE UserNext
    BY <2>1, FollowsStep DEF UserInv
  <2>2. CASE UNCHANGED uvars
    BY <2>2 DEF uvars, Followed, Owned, Lost
  <2> QED BY <2>1, <2>2
<1>3. UserInv /\ All => ChangeStands
  <2> SUFFICES ASSUME UserInv, All, NEW c \in Changes, change[c].pc = "ok"
               PROVE  Stands(c) \/ Lost(change[c].region, change[c].user)
    BY DEF ChangeStands
  <2> DEFINE x == change[c]
  <2>1. x \in AskedChange /\ (x.kind # "register" => LoginUser(x.prev)) /\ Followed(c)
    BY AskedType DEF UserInv, Followed
  <2>2. "auth" \in FieldsOf(x) => ChangedOf(c, x).pw = c
    BY <2>1, WantedType
  <2> QED BY <2>1, <2>2, ChangedMeans DEF Followed, StandsOf, Stands
<1> HIDE DEF All
<1> QED BY <1>1, <1>2, <1>3, UserAlways, PTL DEF UserSpec

-----------------------------------------------------------------------------
(* One-time links.  However many requests follow one, fail and put it back. *)
Brief == [pc : {"new", "exchange", "putBack", "closed"}]
Destroying == [pc : {"destroy", "spread", "renew"}, region : Regions, token : Tokens, renew : BOOLEAN]
Trades(c) == session[c].pc \in {"exchange", "putBack"}

LinkTypes ==
  /\ link \in [consumed : Sessions \cup {None}] \cup {None}
  /\ sending \in {"new", "sending", "arrived", "answered"} /\ linkOver \in BOOLEAN
  /\ rearmed \in BOOLEAN /\ uses \in Nat
  /\ session \in [Sessions -> Brief \cup Destroying]

(* Nobody can follow a link that has not arrived.                          *)
BeforeArrival == sending \in {"new", "sending"} => uses = 0 /\ \A c \in Sessions : ~Trades(c)

(* A link that is missing was not sent, is over, or was withdrawn.         *)
Missed == link = None => sending \in {"new", "answered"} \/ linkOver

(* One request at most is at the link, which it has consumed, and nobody   *)
(* was let in before.  Somebody else may only see it fresh when its time   *)
(* is over.                                                                *)
OneFollows == ~rearmed => \A c \in Sessions : Trades(c) =>
  /\ uses = 0
  /\ \A d \in Sessions : Trades(d) => d = c
  /\ link = [consumed |-> c] \/ link = None \/ linkOver

(* Nor is it fresh once it has been used.                                  *)
UsedIsGone == ~rearmed => uses \in {0, 1} /\ (uses = 1 => link # Fresh \/ linkOver)

LinkInv == /\ LinkTypes /\ BeforeArrival /\ Missed /\ (sending = "new" => link = None)
           /\ OneFollows /\ UsedIsGone

-----------------------------------------------------------------------------
LEMMA LinkValues ==
  /\ Fresh # None
  /\ \A c \in Sessions : [consumed |-> c] # None /\ [consumed |-> c] # Fresh
  /\ \A c, d \in Sessions : [consumed |-> c] = [consumed |-> d] => c = d
BY NoneIsNoLink DEF Fresh

(* A request that goes on, in the types it may have.                       *)
LEMMA SessionEndType ==
  ASSUME LinkTypes, NEW c \in Sessions, EndSession(c)
  PROVE  /\ session' \in [Sessions -> Brief \cup Destroying]
         /\ session'[c].pc = "closed" /\ \A d \in Sessions \ {c} : session'[d] = session[d]
BY DEF EndSession, LinkTypes, Brief

LEMMA PutBackType ==
  ASSUME LinkTypes, NEW c \in Sessions, session[c].pc = "exchange", SessionTo(c, "putBack")
  PROVE  /\ session' \in [Sessions -> Brief \cup Destroying]
         /\ \A d \in Sessions \ {c} : session'[d] = session[d]
<1> DEFINE x == [session[c] EXCEPT !.pc = "putBack"]
<1>1. x \in Brief
  BY DEF LinkTypes, Brief, Destroying
<1>2. session' = [session EXCEPT ![c] = x]
  BY DEF SessionTo, LinkTypes
<1> HIDE DEF x
<1> QED
  BY <1>1, <1>2 DEF LinkTypes

LEMMA DestroyingType ==
  ASSUME LinkTypes, NEW c \in Sessions, session[c].pc \in {"destroy", "spread"},
         NEW pc \in {"spread", "renew"}, SessionTo(c, pc)
  PROVE  /\ session' \in [Sessions -> Brief \cup Destroying]
         /\ session'[c].pc = pc /\ \A d \in Sessions \ {c} : session'[d] = session[d]
<1> DEFINE x == [session[c] EXCEPT !.pc = pc]
<1>1. session[c] \in Destroying
  BY DEF LinkTypes, Brief, Destroying
<1>2. x \in Destroying /\ x.pc = pc
  BY <1>1 DEF Destroying
<1>3. session' = [session EXCEPT ![c] = x]
  BY DEF SessionTo, LinkTypes
<1> HIDE DEF x
<1> QED
  BY <1>2, <1>3 DEF LinkTypes

(* Steps that leave the link alone and let nobody follow it.               *)
LinkAside ==
  /\ UNCHANGED linkVars
  /\ session' \in [Sessions -> Brief \cup Destroying]
  /\ \A c \in Sessions : Trades(c)' => Trades(c)

LEMMA AsideKeeps ==
  ASSUME LinkInv, LinkAside
  PROVE  LinkInv'
BY DEF LinkAside, linkVars, LinkInv, LinkTypes, BeforeArrival, Missed, OneFollows, UsedIsGone

LEMMA LinkInvInit == SessionInit => LinkInv
<1> SUFFICES ASSUME SessionInit PROVE LinkInv
  OBVIOUS
<1>1. \A c \in Sessions : session[c] \in Brief /\ session[c].pc = "new"
  BY DEF SessionInit, NoSession, Brief
<1>2. LinkTypes
  BY <1>1 DEF SessionInit, LinkTypes
<1>3. \A c \in Sessions : ~Trades(c)
  BY <1>1 DEF Trades
<1> QED
  BY <1>2, <1>3 DEF SessionInit, LinkInv, BeforeArrival, Missed, OneFollows, UsedIsGone

LEMMA LinkInvStep == LinkInv /\ [SessionNext]_hvars => LinkInv'
<1> SUFFICES ASSUME LinkInv, [SessionNext]_hvars PROVE LinkInv'
  OBVIOUS
<1> USE DEF linkVars
<1>1. CASE RequestLink \/ LinkArrives \/ SaveDelivery \/ LinkExpires
  <2>1. UNCHANGED session
    BY <1>1 DEF RequestLink, LinkArrives, SaveDelivery, LinkExpires
  <2>2. CASE RequestLink
    BY <2>1, <2>2, LinkValues DEF RequestLink, Fresh, LinkInv, LinkTypes, BeforeArrival, Missed, OneFollows, UsedIsGone, Trades
  <2>3. CASE LinkArrives
    BY <2>1, <2>3 DEF LinkArrives, LinkInv, LinkTypes, BeforeArrival, Missed, OneFollows, UsedIsGone, Trades
  <2>4. CASE SaveDelivery
    <3>1. /\ sending \in {"sending", "arrived"} /\ sending' = "answered"
          /\ UNCHANGED <<linkOver, uses, session>>
          /\ \A c \in Sessions : Trades(c)' = Trades(c)
      BY <2>1, <2>4 DEF SaveDelivery, Trades
    <3>2. CASE sending = "arrived" /\ link' = Fresh /\ rearmed' = (rearmed \/ (link # None /\ link # Fresh))
      <4>1. Fresh \in [consumed : Sessions \cup {None}]
        BY DEF Fresh
      <4>2. LinkTypes'
        BY <3>1, <3>2, <4>1 DEF LinkInv, LinkTypes
      <4>3. ~rearmed' => ~rearmed /\ (linkOver \/ link = Fresh)
        BY <3>2 DEF LinkInv, LinkTypes, Missed
      <4>4. ~rearmed' => \A c \in Sessions : Trades(c) => linkOver
        BY <4>3, LinkValues DEF LinkInv, OneFollows
      <4> QED
        BY <3>1, <3>2, <4>2, <4>3, <4>4, LinkValues DEF LinkInv, BeforeArrival, Missed, OneFollows, UsedIsGone
    <3>3. CASE link' = None /\ UNCHANGED rearmed
      BY <3>1, <3>3, LinkValues DEF LinkInv, LinkTypes, BeforeArrival, Missed, OneFollows, UsedIsGone
    <3> QED
      BY <2>4, <3>2, <3>3 DEF SaveDelivery
  <2>5. CASE LinkExpires
    BY <2>1, <2>5 DEF LinkExpires, LinkInv, LinkTypes, BeforeArrival, Missed, OneFollows, UsedIsGone, Trades
  <2> QED
    BY <1>1, <2>2, <2>3, <2>4, <2>5
<1>2. ASSUME NEW c \in Sessions, ConsumeLink(c) PROVE LinkInv'
  <2>1. session' \in [Sessions -> Brief \cup Destroying]
    BY <1>2 DEF ConsumeLink, LinkInv, LinkTypes, Brief
  <2>2. /\ session'[c].pc = "exchange" /\ \A d \in Sessions \ {c} : session'[d] = session[d]
    BY <1>2 DEF ConsumeLink, LinkInv, LinkTypes
  <2>3. ~rearmed => uses = 0 /\ \A d \in Sessions : ~Trades(d)
    BY <1>2, LinkValues DEF ConsumeLink, LinkInv, OneFollows, UsedIsGone
  <2>4. sending \in {"arrived", "answered"}
    BY <1>2, LinkValues DEF ConsumeLink, LinkInv, LinkTypes
  <2> QED
    BY <1>2, <2>1, <2>2, <2>3, <2>4, LinkValues
    DEF ConsumeLink, LinkInv, LinkTypes, BeforeArrival, Missed, OneFollows, UsedIsGone, Trades
<1>3. ASSUME NEW c \in Sessions, Exchange(c) PROVE LinkInv'
  <2>1. CASE SessionTo(c, "putBack") /\ UNCHANGED uses
    <3>1. LinkAside
      BY <1>3, <2>1, PutBackType DEF Exchange, LinkAside, LinkInv, Trades
    <3> QED
      BY <3>1, AsideKeeps
  <2>2. CASE EndSession(c) /\ uses' = uses + 1
    <3>1. /\ session' \in [Sessions -> Brief \cup Destroying]
          /\ session'[c].pc = "closed" /\ \A d \in Sessions \ {c} : session'[d] = session[d]
      BY <2>2, SessionEndType DEF LinkInv
    <3>2. Trades(c)
      BY <1>3 DEF Exchange, Trades
    <3> QED
      BY <1>3, <2>2, <3>1, <3>2, LinkValues
      DEF Exchange, LinkInv, LinkTypes, BeforeArrival, Missed, OneFollows, UsedIsGone, Trades
  <2> QED
    BY <1>3, <2>1, <2>2 DEF Exchange
<1>4. ASSUME NEW c \in Sessions, PutBackLink(c) PROVE LinkInv'
  <2>1. /\ session' \in [Sessions -> Brief \cup Destroying]
        /\ session'[c].pc = "closed" /\ \A d \in Sessions \ {c} : session'[d] = session[d]
    BY <1>4, SessionEndType DEF PutBackLink, LinkInv
  <2>2. Trades(c)
    BY <1>4 DEF PutBackLink, Trades
  <2>3. link' \in [consumed : Sessions \cup {None}] \cup {None} /\ (link' = None <=> link = None)
    BY <1>4, LinkValues DEF PutBackLink, LinkInv, LinkTypes, Fresh
  <2> QED
    BY <1>4, <2>1, <2>2, <2>3, LinkValues
    DEF PutBackLink, LinkInv, LinkTypes, BeforeArrival, Missed, OneFollows, UsedIsGone, Trades
<1>5. ASSUME NEW c \in Sessions,
             DestroyToken(c) \/ SpreadRevocation(c) \/ RenewToken(c) \/ SessionStops(c)
      PROVE  LinkInv'
  <2>1. UNCHANGED linkVars
    BY <1>5 DEF DestroyToken, SpreadRevocation, RenewToken, SessionStops
  <2>2. \/ EndSession(c)
        \/ session[c].pc \in {"destroy", "spread"} /\ \E pc \in {"spread", "renew"} : SessionTo(c, pc)
    BY <1>5 DEF DestroyToken, SpreadRevocation, RenewToken, SessionStops, AfterDestroy
  <2>3. LinkAside
    BY <2>1, <2>2, SessionEndType, DestroyingType DEF LinkAside, LinkInv, Trades
  <2> QED
    BY <2>3, AsideKeeps
<1>6. ASSUME NEW c \in Sessions, NEW r \in Regions, NEW t \in Tokens, NEW renew \in BOOLEAN,
             BeginDestroy(c, r, t, renew)
      PROVE  LinkInv'
  <2>1. LinkAside
    BY <1>6 DEF BeginDestroy, LinkAside, LinkInv, LinkTypes, Destroying, Trades
  <2> QED
    BY <2>1, AsideKeeps
<1>7. CASE \/ \E t \in Tokens : TokenExpires(t)
           \/ \E r \in Regions : CleanBlacklist(r) \/ ReadRevoked(r) \/ ImportRevoked(r)
           \/ UNCHANGED hvars
  <2>1. LinkAside
    BY <1>7 DEF TokenExpires, CleanBlacklist, ReadRevoked, ImportRevoked, hvars, LinkAside, LinkInv, LinkTypes, Trades
  <2> QED
    BY <2>1, AsideKeeps
<1> QED
  BY <1>1, <1>2, <1>3, <1>4, <1>5, <1>6, <1>7 DEF SessionNext, SessionStep

(* However many follow a link at once, fail and put it back, and whenever  *)
(* its time ends: it opens one session, unless its sender saved the        *)
(* delivery after the link had been consumed.                              *)
THEOREM LinkCorrect == SessionSpec => []LinkUsedOnce
<1>1. LinkInv => LinkUsedOnce
  BY DEF LinkInv, UsedIsGone, LinkUsedOnce
<1> QED
  BY <1>1, LinkInvInit, LinkInvStep, PTL DEF SessionSpec

-----------------------------------------------------------------------------
(* API keys.                                                               *)
Reads == {None} \cup [of : {"application"}, value : {"none", "off", "on"}]
                \cup [of : {"key"}, value : {"active", "revoked"}]
KeyWorking ==
  [pc : {"new", "ended"}] \cup [pc : {"publish"}, region : Regions, creates : BOOLEAN]
  \cup [pc : {"merge"}, region : Regions, creates : BOOLEAN, entry : {"active", "revoked"}]
\* Until the request that creates it, the key is nowhere.
KeyNotYet == ~Created =>
  /\ keyEntry = "none" /\ \A r \in Regions : keyDoc[r] = "none"
  /\ \A r \in Regions : inbox[r] # None => inbox[r].of = "application"
KeyInv ==
  /\ keyEntry \in States /\ keyDoc \in [Regions -> States]
  /\ appEntry \in {"none", "off", "on"} /\ appDoc \in [Regions -> {"none", "off", "on"}]
  /\ appEvents \in 0..MaxAppEvents /\ unpublished \in BOOLEAN /\ undone \in BOOLEAN
  /\ keyCall \in [KeyCalls -> KeyWorking] /\ inbox \in [Regions -> Reads]
  /\ KeyNotYet

LEMMA KeyStart == KeyInit => KeyInv
<1> SUFFICES ASSUME KeyInit PROVE KeyInv
  OBVIOUS
<1>1. [pc |-> "new"] \in KeyWorking /\ None \in Reads
  BY DEF KeyWorking, Reads
<1>2. keyCall \in [KeyCalls -> KeyWorking] /\ inbox \in [Regions -> Reads]
  BY <1>1 DEF KeyInit
<1>3. KeyNotYet
  BY DEF KeyInit, KeyNotYet
<1>4. appEvents \in 0..MaxAppEvents
  BY AppEventsBound DEF KeyInit
<1> QED BY <1>2, <1>3, <1>4 DEF KeyInit, KeyInv, States

\* A request that has begun never becomes a new one again.
LEMMA Begun ==
  ASSUME KeyInv, NEW c \in KeyCalls, NEW x \in KeyWorking, keyCall' = [keyCall EXCEPT ![c] = x], x.pc # "new"
  PROVE  Created' /\ keyCall' \in [KeyCalls -> KeyWorking]
BY DEF KeyInv, Created, KeyAt

LEMMA KeyProjections ==
  ASSUME NEW old \in States, NEW entry \in {"active", "revoked"}
  PROVE  KeyProjected(old, entry) \in States /\ (old = "revoked" => KeyProjected(old, entry) = "revoked")
BY DEF KeyProjected, States

LEMMA TakingKey ==
  ASSUME KeyInv, NEW r \in Regions, NEW entry \in {"active", "revoked"}, TakeKey(r, entry)
  PROVE  /\ keyDoc' \in [Regions -> States] /\ appDoc' \in [Regions -> {"none", "off", "on"}]
         /\ \A s \in Regions : keyDoc[s] = "revoked" => keyDoc'[s] = "revoked"
<1>1. keyDoc[r] \in States
  BY DEF KeyInv
<1>2. KeyProjected(keyDoc[r], entry) \in States /\ (keyDoc[r] = "revoked" => KeyProjected(keyDoc[r], entry) = "revoked")
  BY <1>1, KeyProjections
<1>3. keyDoc' = [keyDoc EXCEPT ![r] = KeyProjected(keyDoc[r], entry)] /\ appDoc' = [appDoc EXCEPT ![r] = "on"]
  BY DEF TakeKey, AppOfKey
<1> QED BY <1>2, <1>3 DEF KeyInv

KeepsRevoked == \A r \in Regions : keyDoc[r] = "revoked" => keyDoc'[r] = "revoked" \/ unpublished'

LEMMA CreatingKey ==
  ASSUME KeyInv, NEW c \in KeyCalls, NEW r \in Regions, CreateKey(c, r) \/ RevokeKey(c, r)
  PROVE  KeyInv' /\ KeepsRevoked
<1>1. PICK b \in BOOLEAN : keyCall' = [keyCall EXCEPT ![c] = [pc |-> "publish", region |-> r, creates |-> b]]
  BY DEF CreateKey, RevokeKey
<1>2. [pc |-> "publish", region |-> r, creates |-> b] \in KeyWorking
  BY DEF KeyWorking
<1>3. Created' /\ keyCall' \in [KeyCalls -> KeyWorking]
  BY <1>1, <1>2, Begun
<1>4. KeyNotYet'
  BY <1>3 DEF KeyNotYet
<1>5. keyDoc' \in [Regions -> States] /\ KeepsRevoked
  BY DEF CreateKey, RevokeKey, KeyInv, KeyNotYet, States, KeepsRevoked
<1>6. UNCHANGED <<keyEntry, appEntry, appDoc, inbox, appEvents, unpublished, undone>>
  BY DEF CreateKey, RevokeKey
<1> QED BY <1>3, <1>4, <1>5, <1>6 DEF KeyInv

LEMMA PublishingKey ==
  ASSUME KeyInv, NEW c \in KeyCalls, ReadKeyDoc(c) \/ MergeKey(c) \/ KeyCallStops(c)
  PROVE  KeyInv' /\ KeepsRevoked
<1>1. [pc |-> "ended"] \in KeyWorking
  BY DEF KeyWorking
<1>2. keyCall[c] \in KeyWorking
  BY DEF KeyInv
<1>a. keyCall[c].pc # "new"
  BY DEF ReadKeyDoc, MergeKey, KeyCallStops, KeyAt
<1>b. Created
  BY <1>a DEF Created, KeyAt
<1>3. Created' /\ keyCall' \in [KeyCalls -> KeyWorking]
  <2>1. CASE EndKeyCall(c)
    BY <2>1, <1>1, Begun DEF EndKeyCall
  <2>2. CASE ReadKeyDoc(c) /\ ~EndKeyCall(c)
    <3> DEFINE x == [pc |-> "merge", region |-> keyCall[c].region, creates |-> keyCall[c].creates,
                     entry |-> keyDoc[keyCall[c].region]]
    <3>1. keyCall[c] \in [pc : {"publish"}, region : Regions, creates : BOOLEAN]
      BY <2>2, <1>2 DEF ReadKeyDoc, KeyAt, KeyWorking
    <3>2. x \in KeyWorking /\ x.pc # "new"
      BY <2>2, <3>1 DEF KeyInv, KeyWorking, States, ReadKeyDoc
    <3>3. keyCall' = [keyCall EXCEPT ![c] = x]
      BY <2>2 DEF ReadKeyDoc, KeyInv
    <3> HIDE DEF x
    <3> QED BY <3>2, <3>3, Begun
  <2> QED BY <2>1, <2>2 DEF MergeKey, KeyCallStops
<1>4. KeyNotYet'
  BY <1>3 DEF KeyNotYet
<1>5. UNCHANGED <<appEntry, appDoc, inbox, appEvents>>
  BY DEF ReadKeyDoc, MergeKey, KeyCallStops
<1>6. keyEntry' \in States /\ keyDoc' \in [Regions -> States] /\ unpublished' \in BOOLEAN /\ undone' \in BOOLEAN
      /\ KeepsRevoked
  <2>1. CASE MergeKey(c)
    <3>1. keyCall[c] \in [pc : {"merge"}, region : Regions, creates : BOOLEAN, entry : {"active", "revoked"}]
      BY <2>1, <1>2 DEF MergeKey, KeyAt, KeyWorking
    <3>2. keyEntry' \in States /\ unpublished' \in BOOLEAN /\ undone' \in BOOLEAN
      BY <2>1, <3>1 DEF MergeKey, KeyInv, States
    <3>3. keyDoc' \in [Regions -> States] /\ (keyDoc' = keyDoc \/ unpublished')
      BY <2>1, <3>1 DEF MergeKey, KeyInv, States, SetKeyDoc
    <3> QED BY <3>2, <3>3 DEF KeepsRevoked
  <2>2. CASE ReadKeyDoc(c) \/ KeyCallStops(c)
    BY <2>2 DEF ReadKeyDoc, KeyCallStops, KeyInv, KeepsRevoked
  <2> QED BY <2>1, <2>2
<1> QED BY <1>3, <1>4, <1>5, <1>6 DEF KeyInv

LEMMA AppOfKeyChanges ==
  ASSUME KeyInv, NEW r \in Regions, DeleteOwner(r) \/ CreateOwner(r) \/ EnableOwner(r) \/ PullAppKey(r)
  PROVE  KeyInv' /\ KeepsRevoked
<1>1. UNCHANGED <<keyEntry, keyDoc, keyCall, inbox, unpublished, undone>>
  BY DEF DeleteOwner, CreateOwner, EnableOwner, PullAppKey, AppEvent, TakeApp
<1>2. appEntry' \in {"none", "off", "on"} /\ appDoc' \in [Regions -> {"none", "off", "on"}]
      /\ appEvents' \in 0..MaxAppEvents
  BY AppEventsBound DEF DeleteOwner, CreateOwner, EnableOwner, PullAppKey, AppEvent, TakeApp, KeyInv
<1> QED BY <1>1, <1>2 DEF KeyInv, KeyNotYet, Created, KeyAt, KeepsRevoked

LEMMA PullingKey ==
  ASSUME KeyInv, NEW r \in Regions, PullApiKeys(r) \/ ReadAppKey(r) \/ ReadApiKeys(r) \/ ApplyInbox(r)
  PROVE  KeyInv' /\ KeepsRevoked
<1>1. UNCHANGED <<keyEntry, appEntry, keyCall, appEvents, unpublished, undone>>
  BY DEF PullApiKeys, ReadAppKey, ReadApiKeys, ApplyInbox
<1>2. inbox[r] \in Reads
  BY DEF KeyInv
<1>3. CASE PullApiKeys(r)
  <2>1. keyEntry \in {"active", "revoked"}
    BY <1>3 DEF PullApiKeys, KeyInv, States
  <2>2. Created /\ Created'
    BY <1>1, <2>1 DEF KeyInv, KeyNotYet, Created, KeyAt
  <2>3. inbox' = inbox /\ TakeKey(r, keyEntry)
    BY <1>3 DEF PullApiKeys
  <2>4. /\ keyDoc' \in [Regions -> States] /\ appDoc' \in [Regions -> {"none", "off", "on"}]
        /\ \A s \in Regions : keyDoc[s] = "revoked" => keyDoc'[s] = "revoked"
    BY <2>1, <2>3, TakingKey
  <2> QED BY <1>1, <2>2, <2>3, <2>4 DEF KeyInv, KeyNotYet, KeepsRevoked
<1>4. CASE ReadAppKey(r) \/ ReadApiKeys(r)
  <2>1. UNCHANGED <<keyDoc, appDoc>>
    BY <1>4 DEF ReadAppKey, ReadApiKeys
  <2>2. PICK m \in Reads : inbox' = [inbox EXCEPT ![r] = m] /\ (m # None /\ ~Created => m.of = "application")
    <3>1. CASE ReadAppKey(r)
      <4>1. [of |-> "application", value |-> appEntry] \in Reads
        BY DEF Reads, KeyInv
      <4> QED BY <3>1, <4>1 DEF ReadAppKey
    <3>2. CASE ReadApiKeys(r)
      <4>1. [of |-> "key", value |-> keyEntry] \in Reads /\ Created
        BY <3>2 DEF ReadApiKeys, Reads, KeyInv, States, KeyNotYet
      <4> QED BY <3>2, <4>1 DEF ReadApiKeys
    <3> QED BY <1>4, <3>1, <3>2
  <2>3. inbox' \in [Regions -> Reads]
    BY <2>2 DEF KeyInv
  <2>4. KeyNotYet'
    BY <1>1, <2>1, <2>2 DEF KeyInv, KeyNotYet, Created, KeyAt
  <2> QED BY <1>1, <2>1, <2>3, <2>4 DEF KeyInv, KeepsRevoked
<1>5. CASE ApplyInbox(r)
  <2>1. inbox[r] # None /\ inbox' = [inbox EXCEPT ![r] = None] /\ inbox' \in [Regions -> Reads]
    BY <1>5 DEF ApplyInbox, KeyInv, Reads
  <2>2. CASE inbox[r].of = "application"
    <3>1. inbox[r].value \in {"none", "off", "on"} /\ TakeApp(r, inbox[r].value)
      BY <1>5, <1>2, <2>1, <2>2 DEF ApplyInbox, Reads
    <3>2. UNCHANGED keyDoc /\ appDoc' \in [Regions -> {"none", "off", "on"}]
      BY <3>1 DEF TakeApp, KeyInv
    <3>3. KeyNotYet'
      BY <1>1, <2>1, <3>2 DEF KeyInv, KeyNotYet, Created, KeyAt
    <3> QED BY <1>1, <2>1, <3>2, <3>3 DEF KeyInv, KeepsRevoked
  <2>3. CASE inbox[r].of # "application"
    <3>1. inbox[r].value \in {"active", "revoked"} /\ TakeKey(r, inbox[r].value)
      BY <1>5, <1>2, <2>1, <2>3 DEF ApplyInbox, Reads
    <3>2. /\ keyDoc' \in [Regions -> States] /\ appDoc' \in [Regions -> {"none", "off", "on"}]
          /\ \A s \in Regions : keyDoc[s] = "revoked" => keyDoc'[s] = "revoked"
      BY <3>1, TakingKey
    <3>3. KeyNotYet'
      BY <1>1, <2>1, <2>3 DEF KeyInv, KeyNotYet, Created, KeyAt
    <3> QED BY <1>1, <2>1, <3>2, <3>3 DEF KeyInv, KeepsRevoked
  <2> QED BY <2>2, <2>3
<1> QED BY <1>3, <1>4, <1>5

LEMMA KeyStepKeeps == KeyInv /\ [KeyNext]_kvars => KeyInv' /\ KeepsRevoked
<1> SUFFICES ASSUME KeyInv, [KeyNext]_kvars PROVE KeyInv' /\ KeepsRevoked
  OBVIOUS
<1>1. CASE KeyNext
  BY <1>1, CreatingKey, PublishingKey, AppOfKeyChanges, PullingKey DEF KeyNext, KeyStep
<1>2. CASE UNCHANGED kvars
  BY <1>2 DEF kvars, KeyInv, KeyNotYet, Created, KeyAt, KeepsRevoked
<1> QED BY <1>1, <1>2

(* A region that has refused a key as revoked refuses it for good, unless  *)
(* the call that created the key failed or stopped on the way.             *)
THEOREM RevocationsLast == KeySpec => RevokedForGood
<1>1. KeyInv /\ [KeyNext]_kvars => KeyInv' /\ [KeepsRevoked]_kvars
  BY KeyStepKeeps
<1>2. KeySpec => [][KeepsRevoked]_kvars
  BY <1>1, KeyStart, PTL DEF KeySpec
<1> QED BY <1>2 DEF RevokedForGood, KeepsRevoked
=============================================================================
