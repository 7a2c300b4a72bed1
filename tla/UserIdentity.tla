---------------------------- MODULE UserIdentity ----------------------------
(***************************************************************************)
(* One user's password and roles live in Etcd (key `users') and, as a copy *)
(* every handler reads, in the MongoDB of each region.  A change takes the *)
(* cross-region lock of the user, brings the local copy up to date, saves  *)
(* it with the next version, merges it into Etcd with a compare-and-swap,  *)
(* and puts the local copy back when anything failed.  Reconciliation and  *)
(* the watch copy Etcd into MongoDB; the authority region, and every       *)
(* region once at its start, publish what is newer in MongoDB.             *)
(*                                                                         *)
(* The two fields that are versioned are modelled: the password with       *)
(* auth_version, and the roles, of which only superadmin matters, with     *)
(* roles_version.  Names and dates are left out.                           *)
(***************************************************************************)
EXTENDS Deployment, FiniteSets, Integers

CONSTANTS Users,
          Changes,        \* the password, role and registration requests
          Initial,        \* the password every user starts with
          Preset,         \* preset_admin_user: the first superadmins
          MaxCopies       \* the copies that may wait at once

ASSUME UserConstants ==
  /\ Preset \subseteq Users /\ Preset # {}
  /\ Initial \notin Changes
  /\ None \notin Changes \cup Users

VARIABLES etcd,      \* the users key
          mongo,     \* the users collection of each region
          lock,      \* /storagent/locks/user-role-update/<user>
          change,    \* the requests
          copy,      \* the user a region's pull or watch event has read
          starting   \* the users a starting region has not tried to publish

uvars == <<etcd, mongo, lock, change, copy, starting>>

Passwords == Changes \cup {Initial}   \* each request brings a password of its own
Entries == [pw : Passwords, av : Nat, super : BOOLEAN, rv : Nat]
Docs == [pw : Passwords, av : Nat, super : BOOLEAN, rv : Nat, sync : BOOLEAN]
ASSUME NoneIsNoEntry == None \notin Entries /\ None \notin Docs

Entry(d) == [pw |-> d.pw, av |-> d.av, super |-> d.super, rv |-> d.rv]
Doc(e) == [pw |-> e.pw, av |-> e.av, super |-> e.super, rv |-> e.rv, sync |-> FALSE]
Placeholder == [pw |-> Initial, av |-> 0, super |-> FALSE, rv |-> 0, sync |-> TRUE]
LoginUser(d) == d # None /\ ~d.sync

Idle == [pc |-> "new"]
Owned(c) == lock[change[c].user] = c
Running(c) == change[c].pc \in {"refresh", "save", "publish", "confirm", "rollback"}
ChangeEnded(c) == change[c].pc \in {"ok", "refused", "dead"}

-----------------------------------------------------------------------------
(* The merge of a candidate into the Etcd map, under compare-and-swap.     *)

Superadmins(e) == {u \in Users : e[u] # None /\ e[u].super}
\* Mutant of Takes: an equal version is taken as well.
TakesEqual(field, fields, new, old) == IF fields # {} THEN field \in fields ELSE new >= old
Takes(field, fields, new, old) == IF fields # {} THEN field \in fields ELSE new > old

Conflict(cur, cand, fields) ==
  \/ /\ "auth" \in fields
     /\ cand.av < cur.av \/ (cand.av = cur.av /\ cand.pw # cur.pw)
  \/ /\ "roles" \in fields
     /\ cand.rv < cur.rv \/ (cand.rv = cur.rv /\ cand.super # cur.super)

\* Mutant of LastSuperadmin: the one who steps down is counted as staying.
LastSuperadminLate(e, u, cand, fields) ==
  /\ Takes("roles", fields, cand.rv, e[u].rv)
  /\ e[u].super /\ ~cand.super /\ Superadmins(e) = {}
LastSuperadmin(e, u, cand, fields) ==
  /\ Takes("roles", fields, cand.rv, e[u].rv)
  /\ e[u].super /\ ~cand.super
  /\ Cardinality(Superadmins(e)) <= 1

MergeRefused(e, u, cand, fields) ==
  e[u] # None /\ (Conflict(e[u], cand, fields) \/ LastSuperadmin(e, u, cand, fields))

Merge(e, u, cand, fields) ==
  IF e[u] = None THEN [e EXCEPT ![u] = cand]
  ELSE LET auth == Takes("auth", fields, cand.av, e[u].av)
           roles == Takes("roles", fields, cand.rv, e[u].rv)
       IN [e EXCEPT ![u] =
            [pw |-> IF auth THEN cand.pw ELSE @.pw, av |-> IF auth THEN cand.av ELSE @.av,
             super |-> IF roles THEN cand.super ELSE @.super,
             rv |-> IF roles THEN cand.rv ELSE @.rv]]

\* Mutant of Applied: only a user the region does not have is taken.
AppliedOnce(d, e) == IF e = None \/ d # None THEN d ELSE Doc(e)

\* _sync_user_to_mongo_locked: each field is taken unless the local one is newer.
Applied(d, e) ==
  IF e = None THEN d
  ELSE IF d = None THEN Doc(e)
  ELSE [pw |-> IF e.av >= d.av THEN e.pw ELSE d.pw, av |-> IF e.av >= d.av THEN e.av ELSE d.av,
        super |-> IF e.rv >= d.rv THEN e.super ELSE d.super,
        rv |-> IF e.rv >= d.rv THEN e.rv ELSE d.rv, sync |-> FALSE]

Admins(r) == {u \in Users : LoginUser(mongo[r][u]) /\ mongo[r][u].super}

-----------------------------------------------------------------------------
(* The preset superadmins are registered, others in Etcd and in every      *)
(* region or nowhere; a region may hold a placeholder for one who is not.  *)
UserInit ==
  /\ etcd \in [Users -> {None, [pw |-> Initial, av |-> 0, super |-> TRUE, rv |-> 1]}]
  /\ \A u \in Preset : etcd[u] # None
  /\ mongo \in [Regions -> [Users -> {None, Placeholder, [pw |-> Initial, av |-> 0,
                                      super |-> TRUE, rv |-> 1, sync |-> FALSE]}]]
  /\ \A r \in Regions, u \in Users :
       IF etcd[u] = None THEN mongo[r][u] \in {None, Placeholder} ELSE mongo[r][u] = Doc(etcd[u])
  /\ lock = [u \in Users |-> None]
  /\ change = [c \in Changes |-> Idle]
  /\ copy = [r \in Regions |-> None]
  /\ starting = [r \in Regions |-> {}]

Unlock(c) == lock' = IF Owned(c) THEN [lock EXCEPT ![change[c].user] = None] ELSE lock
Go(c, pc) == change' = [change EXCEPT ![c].pc = pc]
\* What is kept of a change that failed: where, and whether it had lost its lock.
Rest(c, pc) == [pc |-> pc, region |-> change[c].region, user |-> change[c].user, lost |-> ~Owned(c)]
Accept(c) == Go(c, "ok") /\ Unlock(c)
Refuse(c) == change' = [change EXCEPT ![c] = Rest(c, "refused")] /\ Unlock(c)
SetDoc(c, d) == mongo' = [mongo EXCEPT ![change[c].region][change[c].user] = d]

\* A request acquires the lock of its user (a busy lock refuses it).
AskChange(c, r, u, kind, super) ==
  /\ change[c] = Idle /\ lock[u] = None
  /\ kind = "role" \/ super = (u \in Preset)
  /\ lock' = [lock EXCEPT ![u] = c]
  /\ change' = [change EXCEPT ![c] = [pc |-> "refresh", region |-> r, user |-> u,
                                     kind |-> kind, super |-> super, prev |-> None]]
  /\ UNCHANGED <<etcd, mongo, copy, starting>>

\* The local copy is brought up to date; then the checks of each handler.
Refresh(c) ==
  LET r == change[c].region  u == change[c].user  k == change[c].kind
      d == Applied(mongo[r][u], etcd[u])
      lastHere == /\ k = "role" /\ LoginUser(d) /\ d.super /\ ~change[c].super
                  /\ Cardinality(Admins(r) \cup {u}) <= 1
      refused == IF k = "register" THEN LoginUser(d) ELSE ~LoginUser(d) \/ lastHere
  IN /\ change[c].pc = "refresh"
     /\ \/ UNCHANGED mongo /\ Refuse(c)                 \* Etcd could not be read
        \/ refused /\ SetDoc(c, d) /\ Refuse(c)
        \/ /\ ~refused /\ SetDoc(c, d)
           /\ change' = [change EXCEPT ![c].pc = "save", ![c].prev = d]
           /\ UNCHANGED lock
     /\ UNCHANGED <<etcd, copy, starting>>

\* The document a change saves.
Changed(c) ==
  LET p == change[c].prev  s == change[c].super
  IN CASE change[c].kind = "password" -> [p EXCEPT !.pw = c, !.av = @ + 1]
       [] change[c].kind = "role" -> [p EXCEPT !.super = s, !.rv = @ + 1]
       [] OTHER -> [pw |-> c, av |-> IF p = None THEN 0 ELSE p.av, super |-> s,
                    rv |-> IF p = None THEN 1 ELSE p.rv + 1, sync |-> FALSE]

Fields(c) == CASE change[c].kind = "password" -> {"auth"}
               [] change[c].kind = "role" -> {"roles"}
               [] OTHER -> {"auth", "roles", "profile"}

\* Without the lock nothing is saved but, for an existing user, the rollback.
Save(c) ==
  /\ change[c].pc = "save"
  /\ \/ Owned(c) /\ SetDoc(c, Changed(c)) /\ Go(c, "publish") /\ UNCHANGED lock
     \/ /\ ~Owned(c) /\ UNCHANGED mongo
        /\ IF change[c].prev = None THEN Refuse(c) ELSE Go(c, "rollback") /\ UNCHANGED lock
  /\ UNCHANGED <<etcd, copy, starting>>

\* Mutant of Publish: a refused merge goes unnoticed.
PublishUnheard(c) ==
  LET u == change[c].user  d == mongo[change[c].region][u]
  IN /\ change[c].pc = "publish" /\ Owned(c) /\ LoginUser(d)
     /\ etcd' = IF MergeRefused(etcd, u, Entry(d), Fields(c)) THEN etcd
                ELSE Merge(etcd, u, Entry(d), Fields(c))
     /\ Go(c, "confirm")
     /\ UNCHANGED <<mongo, lock, copy, starting>>

\* publish_user reads the document again and merges it.  The merge may have
\* been carried out although the call failed.
Publish(c) ==
  LET u == change[c].user  d == mongo[change[c].region][u]
      merged == Merge(etcd, u, Entry(d), Fields(c))
  IN /\ change[c].pc = "publish"
     /\ \/ UNCHANGED etcd /\ Go(c, "rollback")      \* not owned, refused or failed
        \/ Owned(c) /\ ~LoginUser(d) /\ UNCHANGED etcd /\ Go(c, "confirm")
        \/ /\ Owned(c) /\ LoginUser(d)
           /\ ~MergeRefused(etcd, u, Entry(d), Fields(c))
           /\ etcd' = merged
           /\ \E pc \in {"confirm", "rollback"} : Go(c, pc)
     /\ UNCHANGED <<mongo, lock, copy, starting>>

Confirm(c) ==
  /\ change[c].pc = "confirm"
  /\ IF Owned(c) THEN Accept(c) ELSE Go(c, "rollback") /\ UNCHANGED lock
  /\ UNCHANGED <<etcd, mongo, copy, starting>>

\* The shielded save of what was there before, or delete of what was created.
Rollback(c) ==
  /\ change[c].pc = "rollback"
  /\ SetDoc(c, change[c].prev)
  /\ Refuse(c)
  /\ UNCHANGED <<etcd, copy, starting>>

\* The lease of a lock ends: its holder finds out at its next check.
LeaseEnds(u) ==
  /\ lock[u] # None
  /\ lock' = [lock EXCEPT ![u] = None]
  /\ UNCHANGED <<etcd, mongo, change, copy, starting>>

-----------------------------------------------------------------------------
(* A region's process stops and starts again; it then tries once to        *)
(* publish each of its users (the authority does so again and again).      *)
Crash(r) ==
  /\ \E c \in Changes : Running(c) /\ change[c].region = r
  /\ change' = [c \in Changes |-> IF Running(c) /\ change[c].region = r
                                  THEN Rest(c, "dead") ELSE change[c]]
  /\ copy' = [copy EXCEPT ![r] = None]
  /\ starting' = [starting EXCEPT ![r] = IF r = Authority THEN {} ELSE Users]
  /\ UNCHANGED <<etcd, mongo, lock>>

\* publish_local_users for one user: skipped while the lock is busy, or when
\* the merge refuses; otherwise only what is newer is taken.
PublishLocal(r, u) ==
  LET d == mongo[r][u]
  IN /\ r = Authority \/ u \in starting[r]
     /\ starting' = [starting EXCEPT ![r] = @ \ {u}]
     /\ etcd' = IF lock[u] = None /\ LoginUser(d) /\ ~MergeRefused(etcd, u, Entry(d), {})
                THEN Merge(etcd, u, Entry(d), {}) ELSE etcd
     /\ UNCHANGED <<mongo, lock, change, copy>>

\* A pull, or a watch event, reads the key; the users in it are independent
\* of one another, and each is followed by itself ...
Pull(r, u) ==
  /\ copy[r] = None /\ etcd[u] # None
  /\ Cardinality({s \in Regions : copy[s] # None}) < MaxCopies
  /\ copy' = [copy EXCEPT ![r] = [user |-> u, entry |-> etcd[u]]]
  /\ UNCHANGED <<etcd, mongo, lock, change, starting>>

\* ... and is applied later, under the lock of the user or not at all.
ApplyCopy(r) ==
  LET u == copy[r].user
  IN /\ copy[r] # None
     /\ copy' = [copy EXCEPT ![r] = None]
     /\ mongo' = IF lock[u] = None
                 THEN [mongo EXCEPT ![r][u] = Applied(@, copy[r].entry)] ELSE mongo
     /\ UNCHANGED <<etcd, lock, change, starting>>

ChangeStep(c) == Refresh(c) \/ Save(c) \/ Publish(c) \/ Confirm(c) \/ Rollback(c)

UserNext ==
  \/ \E c \in Changes, r \in Regions, u \in Users, k \in {"password", "role", "register"},
        s \in BOOLEAN : AskChange(c, r, u, k, s)
  \/ \E c \in Changes : Refresh(c) \/ Save(c) \/ Publish(c) \/ Confirm(c) \/ Rollback(c)
  \/ \E u \in Users : LeaseEnds(u)
  \/ \E r \in Regions : Crash(r) \/ ApplyCopy(r)
  \/ \E r \in Regions, u \in Users : PublishLocal(r, u) \/ Pull(r, u)

UserFairness ==
  /\ \A c \in Changes : WF_uvars(ChangeStep(c))
  /\ \A u \in Users : WF_uvars(lock[u] # None /\ ChangeEnded(lock[u]) /\ LeaseEnds(u))
  /\ \A r \in Regions : WF_uvars(ApplyCopy(r))
  /\ \A r \in Regions, u \in Users : WF_uvars(PublishLocal(r, u)) /\ WF_uvars(Pull(r, u))

UserSpec == UserInit /\ [][UserNext]_uvars
UserFairSpec == UserSpec /\ UserFairness

-----------------------------------------------------------------------------
UserTypeOK ==
  /\ etcd \in [Users -> Entries \cup {None}]
  /\ mongo \in [Regions -> [Users -> Docs \cup {None}]]
  /\ lock \in [Users -> Changes \cup {None}]
  /\ change \in [Changes -> {Idle} \cup
       [pc : {"refused", "dead"}, region : Regions, user : Users, lost : BOOLEAN] \cup
       [pc : {"refresh", "save", "publish", "confirm", "rollback", "ok"},
        region : Regions, user : Users, kind : {"password", "role", "register"},
        super : BOOLEAN, prev : Docs \cup {None}]]
  /\ copy \in [Regions -> [user : Users, entry : Entries] \cup {None}]
  /\ starting \in [Regions -> SUBSET Users]

\* Whatever regions change, publish, roll back or replay at once, Etcd names
\* at least one superadmin: the count is taken inside the compare-and-swap.
SuperadminRemains == Superadmins(etcd) # {}

\* An earlier version, or another value under the same version.
Older(old, new) ==
  \/ new.av < old.av \/ (new.av = old.av /\ new.pw # old.pw)
  \/ new.rv < old.rv \/ (new.rv = old.rv /\ new.super # old.super)

\* In Etcd a version of a user's password, or of the roles, names one value
\* for good, and never comes back once a later one was published.
VersionsOnlyGrow ==
  [][\A u \in Users : etcd[u] # None => etcd'[u] # None /\ ~Older(etcd[u], etcd'[u])]_uvars

\* What a change publishes is in Etcd, or something later is.
Stands(c) ==
  LET e == etcd[change[c].user]  new == Changed(c)
  IN /\ e # None
     /\ "auth" \in Fields(c) => e.av > new.av \/ (e.av = new.av /\ e.pw = c)
     /\ "roles" \in Fields(c) => e.rv > new.rv \/ (e.rv = new.rv /\ e.super = new.super)

\* In this region a change of the user had lost its lock and was put back, or
\* stopped half-way.
Lost(r, u) == \E c \in Changes :
  change[c].pc = "refused" /\ change[c].lost /\ change[c].region = r /\ change[c].user = u
Died(r, u) == \E c \in Changes :
  change[c].pc = "dead" /\ change[c].region = r /\ change[c].user = u

\* A change the client was told had succeeded is in Etcd, or a later one is,
\* unless a change of that user that had lost its lock was put back in the
\* same region.
ChangeStands == \A c \in Changes :
  change[c].pc = "ok" => Stands(c) \/ Lost(change[c].region, change[c].user)

Agrees(r, u) == etcd[u] # None => mongo[r][u] = Doc(etcd[u])
\* In the end every region agrees with Etcd on every user, except where a
\* change of that user died or had lost its lock.
RegionsConverge == \A r \in Regions, u \in Users : <>[](Agrees(r, u) \/ Died(r, u) \/ Lost(r, u))
=============================================================================
