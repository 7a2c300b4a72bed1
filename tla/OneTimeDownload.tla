-------------------------- MODULE OneTimeDownload --------------------------
(***************************************************************************)
(* One-time links to objects.  A link is a key in Etcd under a lease; it   *)
(* is bound to the row of an object and its deletion generation.  Redeeming*)
(* it deletes the key with a compare-and-swap, opens the object in MinIO   *)
(* and hands the stream over; what fails after the claim puts the key back.*)
(* It runs beside the life of the objects.                                 *)
(***************************************************************************)
EXTENDS ObjectLifecycle

CONSTANTS Links, Redeemers

VARIABLES grant,      \* the key of each link: its payload and revision
          share,      \* the request that creates each link
          redeem,     \* the requests that redeem one
          handed,     \* (ghost) the streams handed over, per link
          revoked,    \* (ghost) the links whose object was hidden since
          twice       \* (ghost) the links whose object had its generation a second time

dvars == <<grant, share, redeem, handed, revoked, twice>>

DownloadInit ==
  /\ LifecycleInit
  /\ grant = [l \in Links |-> None]
  /\ share = [l \in Links |-> [pc |-> "new"]]
  /\ redeem = [d \in Redeemers |-> [pc |-> "new"]]
  /\ handed = [l \in Links |-> 0] /\ revoked = {} /\ twice = {}

\* The objects go on living; hiding one revokes its links.  A row saved late,
\* as it was when it was read, takes the generation back.
Hidden(k) == catalog[k] # None /\ catalog[k].state = "active" /\ catalog'[k].state = "soft_deleted"
Again(k) ==
  /\ catalog[k] # None
  /\ catalog'[k].gen <= catalog[k].gen
  /\ Hidden(k) \/ catalog'[k].gen # catalog[k].gen
LinksOf(k) == {l \in Links : share[l].pc # "new" /\ share[l].key = k}
ObjectsLive ==
  /\ LifecycleNext
  /\ revoked' = revoked \cup UNION {LinksOf(k) : k \in {j \in Keys : Hidden(j)}}
  /\ twice' = twice \cup UNION {LinksOf(k) : k \in {j \in Keys : Again(j)}}
  /\ UNCHANGED <<grant, share, redeem, handed>>

\* create_share reads the row; the key is written after a call to MinIO.
CreateShare(l, k) ==
  /\ k \in Active /\ share[l].pc = "new"
  /\ share' = [share EXCEPT ![l] = [pc |-> "issue", key |-> k, gen |-> catalog[k].gen]]
  /\ UNCHANGED <<ovars, grant, redeem, handed, revoked, twice>>
StoreGrant(l) ==
  /\ share[l].pc = "issue"
  /\ share' = [share EXCEPT ![l].pc = "issued"]
  /\ grant' \in {grant, [grant EXCEPT ![l] = [key |-> share[l].key, gen |-> share[l].gen, rev |-> 0]]}
  /\ UNCHANGED <<ovars, redeem, handed, revoked, twice>>
\* The lease of a link ends, or an expired one is found and deleted.
GrantEnds(l) ==
  /\ grant[l] # None
  /\ grant' = [grant EXCEPT ![l] = None]
  /\ UNCHANGED <<ovars, share, redeem, handed, revoked, twice>>

Link(d) == redeem[d].link
Pay(d) == redeem[d].pay
ToRedeem(d, pc) == redeem' = [redeem EXCEPT ![d].pc = pc]
EndRedeem(d) == redeem' = [redeem EXCEPT ![d] = [pc |-> "over"]]
\* Mutant of Valid: the generation does not count.
ValidIfActive(p) == p.key \in Active
Valid(p) == p.key \in Active /\ catalog[p.key].gen = p.gen

Snapshot(d, l) ==
  /\ redeem[d].pc = "new" /\ grant[l] # None
  /\ redeem' = [redeem EXCEPT ![d] = [pc |-> "check", link |-> l, pay |-> grant[l]]]
  /\ UNCHANGED <<ovars, grant, share, handed, revoked, twice>>
\* A link to an object that was deleted, or uploaded again, is deleted too.
CheckFirst(d) ==
  /\ redeem[d].pc = "check"
  /\ IF Valid(Pay(d)) THEN ToRedeem(d, "claim") /\ UNCHANGED grant
     ELSE EndRedeem(d) /\ grant' = [grant EXCEPT ![Link(d)] = None]
  /\ UNCHANGED <<ovars, share, handed, revoked, twice>>
\* Mutant of ClaimGrant: the key is deleted without comparing its revision.
ClaimAnyGrant(d) ==
  /\ redeem[d].pc = "claim"
  /\ \/ grant' = [grant EXCEPT ![Link(d)] = None] /\ ToRedeem(d, "checkAgain")
     \/ UNCHANGED grant /\ EndRedeem(d)
  /\ UNCHANGED <<ovars, share, handed, revoked, twice>>

\* The claim; when its outcome is unknown the link counts as not claimed.
ClaimGrant(d) ==
  LET same == grant[Link(d)] = Pay(d)
  IN /\ redeem[d].pc = "claim"
     /\ \/ same /\ grant' = [grant EXCEPT ![Link(d)] = None] /\ ToRedeem(d, "checkAgain")
        \/ ~same /\ UNCHANGED grant /\ EndRedeem(d)
        \/ grant' \in {grant, IF same THEN [grant EXCEPT ![Link(d)] = None] ELSE grant} /\ EndRedeem(d)
     /\ UNCHANGED <<ovars, share, handed, revoked, twice>>
CheckAgain(d) ==
  /\ redeem[d].pc = "checkAgain"
  /\ redeem' = [redeem EXCEPT ![d] = [pc |-> IF Valid(Pay(d)) THEN "open" ELSE "restore",
                                      link |-> Link(d), pay |-> Pay(d), late |-> Link(d) \in revoked]]
  /\ UNCHANGED <<ovars, grant, share, handed, revoked, twice>>
OpenStream(d) ==
  /\ redeem[d].pc = "open"
  /\ \/ EndRedeem(d) /\ handed' = [handed EXCEPT ![Link(d)] = @ + 1]
     \/ ToRedeem(d, "restore") /\ UNCHANGED handed          \* failed or cancelled
  /\ UNCHANGED <<ovars, grant, share, revoked, twice>>
\* _restore_claimed_grant creates the key again, if nobody did and time is left.
RestoreGrant(d) ==
  /\ redeem[d].pc = "restore"
  /\ grant' \in {grant, IF grant[Link(d)] = None
                        THEN [grant EXCEPT ![Link(d)] = [Pay(d) EXCEPT !.rev = @ + 1]] ELSE grant}
  /\ EndRedeem(d)
  /\ UNCHANGED <<ovars, share, handed, revoked, twice>>
RedeemStops(d) ==
  /\ redeem[d].pc \notin {"new", "over"} /\ EndRedeem(d)
  /\ UNCHANGED <<ovars, grant, share, handed, revoked, twice>>

DownloadNext ==
  \/ ObjectsLive
  \/ \E l \in Links, k \in Keys : CreateShare(l, k)
  \/ \E l \in Links : StoreGrant(l) \/ GrantEnds(l)
  \/ \E d \in Redeemers, l \in Links : Snapshot(d, l)
  \/ \E d \in Redeemers : CheckFirst(d) \/ ClaimGrant(d) \/ CheckAgain(d) \/ OpenStream(d)
                          \/ RestoreGrant(d) \/ RedeemStops(d)

DownloadSpec == DownloadInit /\ [][DownloadNext]_<<ovars, dvars>>

-----------------------------------------------------------------------------
DownloadTypeOK ==
  /\ \A l \in Links : grant[l] # None => grant[l].key \in Keys /\ grant[l].gen \in Nat /\ grant[l].rev \in Nat
  /\ handed \in [Links -> Nat] /\ revoked \subseteq Links /\ twice \subseteq Links
  /\ \A d \in Redeemers : redeem[d].pc \notin {"new", "over"} => Link(d) \in Links /\ Pay(d).key \in Keys

\* However many redeem a link, fail, are cancelled and put it back, at most
\* one stream is handed over, and afterwards there is nothing left to redeem.
HandedOnce == \A l \in Links :
  /\ handed[l] <= 1
  /\ handed[l] = 1 => grant[l] = None /\ \A d \in Redeemers :
       redeem[d].pc \in {"checkAgain", "open", "restore"} => Link(d) # l

\* A link opens nothing once its object has been deleted, even if the object
\* was restored, unless its row was saved late with a generation it had had
\* before: by the second of two deletes, or by a repeated completion.
DeletedStaysClosed == \A d \in Redeemers :
  redeem[d].pc = "open" => ~redeem[d].late \/ Link(d) \in twice
=============================================================================
