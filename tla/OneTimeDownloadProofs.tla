----------------------- MODULE OneTimeDownloadProofs -----------------------
(***************************************************************************)
(* That a one-time link hands over one stream, and none of an object that  *)
(* was deleted since, for any number of links, of requests that redeem     *)
(* them and of objects.  For the first the objects matter only in that     *)
(* they may make any of these requests fail; for the second every link is  *)
(* compared with the row it is bound to (LinksBound).                      *)
(***************************************************************************)
EXTENDS MCDataPlane, ObjectLifecycleProofs

(* The requests, without the types of what a link is bound to.             *)
ShareOK(x) == x.pc = "new" \/ (x.pc \in {"issue", "issued"} /\ x = [pc |-> x.pc, key |-> x.key, gen |-> x.gen])
RedeemOK(x) ==
  \/ x.pc \in {"new", "over"}
  \/ x.pc \in {"check", "claim", "checkAgain"} /\ x = [pc |-> x.pc, link |-> x.link, pay |-> x.pay]
  \/ x.pc \in {"open", "restore"} /\ x = [pc |-> x.pc, link |-> x.link, pay |-> x.pay, late |-> x.late]

Shapes ==
  /\ grant = [l \in Links |-> grant[l]] /\ handed \in [Links -> Nat]
  /\ share = [l \in Links |-> share[l]] /\ \A l \in Links : ShareOK(share[l])
  /\ redeem = [d \in Redeemers |-> redeem[d]]
  /\ \A d \in Redeemers : /\ RedeemOK(redeem[d])
                          /\ redeem[d].pc \notin {"new", "over"} => Link(d) \in Links /\ Pay(d) # None

(* Who holds a link: its key, a request that has claimed it, or the one it *)
(* was handed to.  There is one of them at most, and none before the key   *)
(* was written.                                                            *)
Holds(d, l) == redeem[d].pc \in {"checkAgain", "open", "restore"} /\ Link(d) = l
OneHolderOf(l) ==
  /\ share[l].pc # "issued" => grant[l] = None /\ handed[l] = 0 /\ \A d \in Redeemers : ~Holds(d, l)
  /\ handed[l] <= 1
  /\ handed[l] = 1 => grant[l] = None /\ \A d \in Redeemers : ~Holds(d, l)
  /\ \A d \in Redeemers : Holds(d, l) => grant[l] = None /\ \A e \in Redeemers : Holds(e, l) => e = d
OneHolder == \A l \in Links : OneHolderOf(l)

Inv == Shapes /\ OneHolder

-----------------------------------------------------------------------------
(* How a request goes on.                                                  *)
LEMMA ToRedeemShape ==
  ASSUME Shapes, NEW d \in Redeemers, NEW pc, ToRedeem(d, pc),
         \/ redeem[d].pc \in {"check", "claim"} /\ pc \in {"claim", "checkAgain"}
         \/ redeem[d].pc = "open" /\ pc = "restore"
  PROVE  /\ redeem' = [e \in Redeemers |-> redeem'[e]] /\ RedeemOK(redeem'[d])
         /\ redeem'[d].pc = pc /\ redeem'[d].link = Link(d) /\ redeem'[d].pay = Pay(d)
         /\ \A e \in Redeemers \ {d} : redeem'[e] = redeem[e]
<1> DEFINE x == redeem[d]
           y == [x EXCEPT !.pc = pc]
<1>1. redeem' = [redeem EXCEPT ![d] = y]
  BY DEF ToRedeem, Shapes
<1>2. RedeemOK(x)
  BY DEF Shapes
<1>3. CASE x.pc \in {"check", "claim"} /\ pc \in {"claim", "checkAgain"}
  <2>1. x = [pc |-> x.pc, link |-> x.link, pay |-> x.pay]
    BY <1>2, <1>3 DEF RedeemOK
  <2> HIDE DEF x
  <2>2. y = [pc |-> pc, link |-> x.link, pay |-> x.pay]
    BY <2>1
  <2> HIDE DEF y
  <2>3. RedeemOK(y) /\ y.pc = pc /\ y.link = x.link /\ y.pay = x.pay
    BY <1>3, <2>2 DEF RedeemOK
  <2> QED
    BY <1>1, <2>3 DEF Shapes, x, Link, Pay
<1>4. CASE x.pc = "open" /\ pc = "restore"
  <2>1. x = [pc |-> x.pc, link |-> x.link, pay |-> x.pay, late |-> x.late]
    BY <1>2, <1>4 DEF RedeemOK
  <2> HIDE DEF x
  <2>2. y = [pc |-> pc, link |-> x.link, pay |-> x.pay, late |-> x.late]
    BY <2>1
  <2> HIDE DEF y
  <2>3. RedeemOK(y) /\ y.pc = pc /\ y.link = x.link /\ y.pay = x.pay
    BY <1>4, <2>2 DEF RedeemOK
  <2> QED
    BY <1>1, <2>3 DEF Shapes, x, Link, Pay
<1> QED
  BY <1>3, <1>4

LEMMA EndRedeemShape ==
  ASSUME Shapes, NEW d \in Redeemers, EndRedeem(d)
  PROVE  /\ redeem' = [e \in Redeemers |-> redeem'[e]] /\ RedeemOK(redeem'[d])
         /\ redeem'[d].pc = "over" /\ \A e \in Redeemers \ {d} : redeem'[e] = redeem[e]
BY DEF EndRedeem, Shapes, RedeemOK

LEMMA InvInit == DownloadInit => Inv
BY DEF DownloadInit, Inv, Shapes, OneHolder, OneHolderOf, Holds, ShareOK, RedeemOK

(* The steps in which a request neither takes nor gives up a link, nor     *)
(* writes its key: the key may go at any time.                             *)
Aside ==
  /\ grant' = [l \in Links |-> grant'[l]] /\ \A l \in Links : grant'[l] \in {grant[l], None}
  /\ UNCHANGED <<share, handed>>
  /\ redeem' = [d \in Redeemers |-> redeem'[d]]
  /\ \A d \in Redeemers :
       /\ RedeemOK(redeem'[d])
       /\ redeem'[d].pc \notin {"new", "over"} => Link(d)' \in Links /\ Pay(d)' # None
       /\ \A l \in Links : Holds(d, l)' => Holds(d, l)

LEMMA AsideKeeps ==
  ASSUME Inv, Aside
  PROVE  Inv'
<1>1. Shapes'
  BY DEF Aside, Inv, Shapes
<1>2. OneHolder'
  BY DEF Aside, Inv, OneHolder, OneHolderOf
<1> QED
  BY <1>1, <1>2 DEF Inv

LEMMA ShareSteps ==
  ASSUME Inv, NEW l \in Links, (\E k \in Keys : CreateShare(l, k)) \/ StoreGrant(l) \/ GrantEnds(l)
  PROVE  Inv'
<1>1. ASSUME NEW k \in Keys, CreateShare(l, k) PROVE Inv'
  <2>1. /\ share' = [m \in Links |-> share'[m]] /\ share'[l].pc = "issue" /\ ShareOK(share'[l])
        /\ \A m \in Links \ {l} : share'[m] = share[m]
        /\ UNCHANGED <<grant, redeem, handed>> /\ share[l].pc = "new"
    BY <1>1 DEF CreateShare, Inv, Shapes, ShareOK
  <2>2. Shapes'
    BY <2>1 DEF Inv, Shapes, Link, Pay
  <2>3. OneHolder'
    BY <2>1 DEF Inv, OneHolder, OneHolderOf, Holds, Link
  <2> QED
    BY <2>2, <2>3 DEF Inv
<1>2. CASE StoreGrant(l)
  <2> DEFINE x == share[l]
             y == [x EXCEPT !.pc = "issued"]
  <2>1. x = [pc |-> x.pc, key |-> x.key, gen |-> x.gen]
    BY <1>2 DEF StoreGrant, Inv, Shapes, ShareOK
  <2>2. share' = [share EXCEPT ![l] = y]
    BY <1>2 DEF StoreGrant, Inv, Shapes
  <2> HIDE DEF x
  <2>3. y = [pc |-> "issued", key |-> x.key, gen |-> x.gen]
    BY <2>1
  <2> HIDE DEF y
  <2>4. ShareOK(y) /\ y.pc = "issued"
    BY <2>3 DEF ShareOK
  <2>5. /\ share' = [m \in Links |-> share'[m]] /\ share'[l] = y
        /\ \A m \in Links \ {l} : share'[m] = share[m]
    BY <2>2 DEF Inv, Shapes
  <2>6. /\ grant' = [m \in Links |-> grant'[m]] /\ \A m \in Links \ {l} : grant'[m] = grant[m]
        /\ UNCHANGED <<redeem, handed>> /\ share[l].pc = "issue"
    BY <1>2 DEF StoreGrant, Inv, Shapes
  <2>7. Shapes'
    BY <2>4, <2>5, <2>6 DEF Inv, Shapes, Link, Pay
  <2>8. OneHolder'
    BY <2>4, <2>5, <2>6 DEF Inv, OneHolder, OneHolderOf, Holds, Link
  <2> QED
    BY <2>7, <2>8 DEF Inv
<1>3. CASE GrantEnds(l)
  <2>1. Aside
    BY <1>3 DEF GrantEnds, Aside, Inv, Shapes, Holds, Link, Pay
  <2> QED
    BY <2>1, AsideKeeps
<1> QED
  BY <1>1, <1>2, <1>3

LEMMA RedeemSteps ==
  ASSUME Inv, NEW d \in Redeemers,
         \/ \E l \in Links : Snapshot(d, l)
         \/ CheckFirst(d) \/ ClaimGrant(d) \/ CheckAgain(d) \/ OpenStream(d) \/ RestoreGrant(d) \/ RedeemStops(d)
  PROVE  Inv'
<1> DEFINE l == Link(d)
<1>0. Shapes /\ OneHolder
  BY DEF Inv
<1>1. ASSUME NEW m \in Links, Snapshot(d, m) PROVE Inv'
  <2>1. Aside
    BY <1>0, <1>1 DEF Snapshot, Aside, Shapes, RedeemOK, Holds, Link, Pay
  <2> QED
    BY <2>1, AsideKeeps
<1>2. ASSUME EndRedeem(d), UNCHANGED <<share, handed>>, grant' = [m \in Links |-> grant'[m]],
             \A m \in Links : grant'[m] \in {grant[m], None}
      PROVE  Inv'
  <2>1. Aside
    BY <1>0, <1>2, EndRedeemShape DEF Aside, Shapes, Holds, Link, Pay
  <2> QED
    BY <2>1, AsideKeeps
<1>3. CASE CheckFirst(d)
  <2>1. CASE ToRedeem(d, "claim") /\ UNCHANGED grant
    <3>1. Aside
      BY <1>0, <1>3, <2>1, ToRedeemShape DEF CheckFirst, Aside, Shapes, Holds, Link, Pay
    <3> QED
      BY <3>1, AsideKeeps
  <2>2. CASE EndRedeem(d) /\ grant' = [grant EXCEPT ![Link(d)] = None]
    BY <1>0, <1>2, <1>3, <2>2 DEF CheckFirst, Shapes
  <2> QED
    BY <1>3, <2>1, <2>2 DEF CheckFirst
<1>4. CASE ClaimGrant(d)
  <2>0. redeem[d].pc = "claim" /\ UNCHANGED <<share, handed>> /\ l \in Links /\ Pay(d) # None
    BY <1>0, <1>4 DEF ClaimGrant, Shapes
  <2>1. CASE grant[l] = Pay(d) /\ grant' = [grant EXCEPT ![l] = None] /\ ToRedeem(d, "checkAgain")
    <3>1. /\ redeem' = [e \in Redeemers |-> redeem'[e]] /\ RedeemOK(redeem'[d])
          /\ redeem'[d].pc = "checkAgain" /\ redeem'[d].link = l /\ redeem'[d].pay = Pay(d)
          /\ \A e \in Redeemers \ {d} : redeem'[e] = redeem[e]
      BY <1>0, <2>0, <2>1, ToRedeemShape
    <3>2. /\ grant' = [m \in Links |-> grant'[m]] /\ grant'[l] = None
          /\ \A m \in Links \ {l} : grant'[m] = grant[m]
      BY <1>0, <2>0, <2>1 DEF Shapes
    <3> HIDE DEF l
    <3>3. Shapes'
      BY <1>0, <2>0, <3>1, <3>2 DEF Shapes, Link, Pay
    <3>4. \A e \in Redeemers : ~Holds(e, l)
      BY <1>0, <2>0, <2>1 DEF OneHolder, OneHolderOf
    <3>5. \A e \in Redeemers, m \in Links : Holds(e, m)' <=> (IF e = d THEN m = l ELSE Holds(e, m))
      BY <3>1 DEF Holds, Link
    <3>6. share[l].pc = "issued" /\ handed[l] = 0
      <4>1. handed[l] \in Nat /\ grant[l] # None
        BY <1>0, <2>0, <2>1 DEF Shapes
      <4> QED
        BY <1>0, <2>0, <4>1 DEF OneHolder, OneHolderOf
    <3>7. \A m \in Links \ {l} : ~Holds(d, m)'
      BY <3>5
    <3>8. ASSUME NEW m \in Links PROVE OneHolderOf(m)'
      <4>1. CASE m = l
        BY <2>0, <3>2, <3>4, <3>5, <3>6, <4>1 DEF OneHolderOf
      <4>2. CASE m # l
        BY <1>0, <2>0, <3>2, <3>5, <4>2 DEF OneHolder, OneHolderOf
      <4> QED
        BY <4>1, <4>2
    <3> QED
      BY <3>3, <3>8 DEF Inv, OneHolder, OneHolderOf
  <2>2. CASE EndRedeem(d) /\ grant' \in {grant, [grant EXCEPT ![l] = None]}
    BY <1>0, <1>2, <2>0, <2>2 DEF Shapes
  <2> QED
    BY <1>4, <2>1, <2>2 DEF ClaimGrant
<1>5. CASE CheckAgain(d)
  <2>1. Aside
    <3> DEFINE pc == IF Valid(Pay(d)) THEN "open" ELSE "restore"
               late == l \in revoked
    <3>1. redeem' = [redeem EXCEPT ![d] = [pc |-> pc, link |-> Link(d), pay |-> Pay(d), late |-> late]]
      BY <1>0, <1>5 DEF CheckAgain, Link
    <3>0. pc \in {"open", "restore"}
      OBVIOUS
    <3> HIDE DEF pc, late
    <3>2. redeem[d].pc = "checkAgain" /\ UNCHANGED <<grant, share, handed>> /\ l \in Links /\ Pay(d) # None
      BY <1>0, <1>5 DEF CheckAgain, Shapes
    <3>3. /\ redeem' = [e \in Redeemers |-> redeem'[e]]
          /\ redeem'[d] = [pc |-> pc, link |-> Link(d), pay |-> Pay(d), late |-> late]
          /\ \A e \in Redeemers \ {d} : redeem'[e] = redeem[e]
      BY <1>0, <3>1 DEF Shapes
    <3>4. RedeemOK(redeem'[d]) /\ redeem'[d].link = l /\ redeem'[d].pay = Pay(d)
      BY <3>0, <3>3 DEF RedeemOK
    <3> QED
      BY <1>0, <3>0, <3>2, <3>3, <3>4 DEF Aside, Shapes, Holds, Link, Pay
  <2> QED
    BY <2>1, AsideKeeps
<1>6. CASE OpenStream(d)
  <2>0. redeem[d].pc = "open" /\ UNCHANGED <<grant, share>> /\ l \in Links /\ Holds(d, l) /\ Pay(d) # None
    BY <1>0, <1>6 DEF OpenStream, Shapes, Holds
  <2>1. CASE EndRedeem(d) /\ handed' = [handed EXCEPT ![l] = @ + 1]
    <3>1. /\ redeem' = [e \in Redeemers |-> redeem'[e]] /\ RedeemOK(redeem'[d])
          /\ redeem'[d].pc = "over" /\ \A e \in Redeemers \ {d} : redeem'[e] = redeem[e]
      BY <1>0, <2>1, EndRedeemShape
    <3>2. /\ handed' \in [Links -> Nat] /\ handed'[l] = handed[l] + 1
          /\ \A m \in Links \ {l} : handed'[m] = handed[m]
      BY <1>0, <2>0, <2>1 DEF Shapes
    <3> HIDE DEF l
    <3>3. Shapes'
      BY <1>0, <2>0, <3>1, <3>2 DEF Shapes, Link, Pay
    <3>4. /\ grant[l] = None /\ handed[l] = 0 /\ share[l].pc = "issued"
          /\ \A e \in Redeemers : Holds(e, l) => e = d
      BY <1>0, <2>0 DEF OneHolder, OneHolderOf, Shapes
    <3>5. /\ \A e \in Redeemers, m \in Links : Holds(e, m)' <=> Holds(e, m) /\ e # d
      BY <3>1 DEF Holds, Link
    <3>6. ASSUME NEW m \in Links PROVE OneHolderOf(m)'
      <4>1. CASE m = l
        BY <2>0, <3>2, <3>4, <3>5, <4>1 DEF OneHolderOf
      <4>2. CASE m # l
        BY <1>0, <2>0, <3>2, <3>5, <4>2 DEF OneHolder, OneHolderOf
      <4> QED
        BY <4>1, <4>2
    <3> QED
      BY <3>3, <3>6 DEF Inv, OneHolder, OneHolderOf
  <2>2. CASE ToRedeem(d, "restore") /\ UNCHANGED handed
    <3>1. Aside
      BY <1>0, <2>0, <2>2, ToRedeemShape DEF Aside, Shapes, Holds, Link, Pay
    <3> QED
      BY <3>1, AsideKeeps
  <2> QED
    BY <1>6, <2>1, <2>2 DEF OpenStream
<1>7. CASE RestoreGrant(d)
  <2>0. /\ redeem[d].pc = "restore" /\ UNCHANGED <<share, handed>> /\ l \in Links /\ Holds(d, l)
        /\ EndRedeem(d)
    BY <1>0, <1>7 DEF RestoreGrant, Shapes, Holds
  <2>1. /\ grant' = [m \in Links |-> grant'[m]] /\ \A m \in Links \ {l} : grant'[m] = grant[m]
    BY <1>0, <1>7 DEF RestoreGrant, Shapes
  <2>2. /\ redeem' = [e \in Redeemers |-> redeem'[e]] /\ RedeemOK(redeem'[d])
        /\ redeem'[d].pc = "over" /\ \A e \in Redeemers \ {d} : redeem'[e] = redeem[e]
    BY <1>0, <2>0, EndRedeemShape
  <2> HIDE DEF l
  <2>3. Shapes'
    BY <1>0, <2>0, <2>1, <2>2 DEF Shapes, Link, Pay
  <2>4. /\ handed[l] = 0 /\ share[l].pc = "issued" /\ \A e \in Redeemers : Holds(e, l) => e = d
    BY <1>0, <2>0 DEF OneHolder, OneHolderOf, Shapes
  <2>5. \A e \in Redeemers, m \in Links : Holds(e, m)' <=> Holds(e, m) /\ e # d
    BY <2>2 DEF Holds, Link
  <2>6. ASSUME NEW m \in Links PROVE OneHolderOf(m)'
    <3>1. CASE m = l
      BY <2>0, <2>4, <2>5, <3>1 DEF OneHolderOf
    <3>2. CASE m # l
      BY <1>0, <2>0, <2>1, <2>5, <3>2 DEF OneHolder, OneHolderOf
    <3> QED
      BY <3>1, <3>2
  <2> QED
    BY <2>3, <2>6 DEF Inv, OneHolder, OneHolderOf
<1>8. CASE RedeemStops(d)
  BY <1>0, <1>2, <1>8 DEF RedeemStops, Shapes
<1> QED
  BY <1>1, <1>3, <1>4, <1>5, <1>6, <1>7, <1>8

LEMMA InvStep == Inv /\ [DownloadNext]_<<ovars, dvars>> => Inv'
<1> SUFFICES ASSUME Inv, [DownloadNext]_<<ovars, dvars>> PROVE Inv'
  OBVIOUS
<1>1. CASE ObjectsLive \/ UNCHANGED <<ovars, dvars>>
  <2>1. UNCHANGED <<grant, share, redeem, handed>>
    BY <1>1 DEF ObjectsLive, dvars
  <2> QED
    BY <2>1 DEF Inv, Shapes, OneHolder, OneHolderOf, Holds, Link, Pay
<1> QED
  BY <1>1, ShareSteps, RedeemSteps DEF DownloadNext

(* However many redeem a link at once, fail at any point and put it back,  *)
(* and whatever becomes of its object: one stream is handed over at most,  *)
(* and then nothing is left to redeem.                                     *)
THEOREM HandedOnceCorrect == DownloadSpec => []HandedOnce
<1>1. Inv => HandedOnce
  BY DEF Inv, OneHolder, OneHolderOf, HandedOnce, Holds
<1> QED
  BY <1>1, InvInit, InvStep, PTL DEF DownloadSpec

-----------------------------------------------------------------------------
(* What a link is bound to: its key and whoever redeems it know the row and *)
(* generation it was created for.  The row's generation only grows, and it *)
(* has grown since a link was revoked, or the link is one of twice.        *)
Payload(l, p) == p = [key |-> share[l].key, gen |-> share[l].gen, rev |-> p.rev] /\ p.rev \in Nat
Bound(l) ==
  /\ share[l].pc # "new" => share[l].key \in Keys /\ share[l].gen \in Nat /\ catalog[share[l].key] # None
  /\ share[l].pc # "new" /\ l \notin twice => share[l].gen <= catalog[share[l].key].gen
  /\ l \in revoked => share[l].pc # "new"
  /\ l \in revoked /\ l \notin twice => share[l].gen < catalog[share[l].key].gen
  /\ grant[l] # None => Payload(l, grant[l]) /\ share[l].pc = "issued"
  /\ \A d \in Redeemers : redeem[d].pc \notin {"new", "over"} /\ Link(d) = l =>
       Payload(l, Pay(d)) /\ share[l].pc = "issued"
LinksBound == \A l \in Links : Bound(l)

(* The links through a step of the objects.                               *)
LEMMA LinksLive ==
  ASSUME Objects, Objects', LinksBound, ObjectsLive \/ UNCHANGED <<ovars, dvars>>
  PROVE  LinksBound'
<1>1. UNCHANGED <<grant, share, redeem>> /\ [LifecycleNext]_ovars
  BY DEF ObjectsLive, dvars
<1>2. ASSUME NEW l \in Links PROVE Bound(l)'
  <2>0. Bound(l)
    BY DEF LinksBound
  <2> DEFINE k == share[l].key
  <2>1. CASE share[l].pc = "new"
    <3>1. l \notin revoked'
      BY <2>0, <2>1 DEF Bound, ObjectsLive, LinksOf, dvars
    <3> QED
      BY <1>1, <2>0, <2>1, <3>1 DEF Bound, Link, Pay, Payload
  <2>2. CASE share[l].pc # "new"
    <3>1. k \in Keys /\ share[l].gen \in Nat /\ catalog[k] # None
      BY <2>0, <2>2 DEF Bound
    <3>2. catalog'[k] # None
      BY <1>1, <3>1, RowsKept
    <3>3. catalog[k].gen \in Nat /\ catalog'[k].gen \in Nat
      <4>1. catalog[k] \in Rows /\ catalog'[k] \in Rows
        BY <3>1, <3>2 DEF Objects
      <4> QED
        BY <4>1 DEF Rows
    <3>4. CASE ObjectsLive
      <4>1. l \in LinksOf(k)
        BY <2>2 DEF LinksOf
      <4>2. (l \in revoked' => l \in revoked \/ Hidden(k)) /\ (l \in twice \/ Again(k) => l \in twice')
        BY <3>1, <3>4, <4>1 DEF ObjectsLive, LinksOf
      <4>3. ASSUME l \notin twice'
            PROVE  share[l].gen <= catalog'[k].gen /\ (l \in revoked' => share[l].gen < catalog'[k].gen)
        <5>1. l \notin twice /\ ~Again(k) /\ share[l].gen <= catalog[k].gen
          BY <2>0, <2>2, <4>2, <4>3 DEF Bound
        <5>2. \/ catalog[k].gen < catalog'[k].gen
              \/ ~Hidden(k) /\ catalog'[k].gen = catalog[k].gen
          BY <3>1, <3>3, <5>1 DEF Again
        <5>3. l \in revoked => share[l].gen < catalog[k].gen
          BY <2>0, <5>1 DEF Bound
        <5> HIDE DEF k
        <5> QED
          BY <3>1, <3>3, <4>2, <5>1, <5>2, <5>3
      <4> QED
        BY <1>1, <2>0, <2>2, <3>1, <3>2, <4>3 DEF Bound, Link, Pay, Payload
    <3>5. CASE UNCHANGED <<ovars, dvars>>
      BY <1>1, <2>0, <3>5 DEF Bound, ovars, dvars, Link, Pay, Payload
    <3> QED
      BY <3>4, <3>5
  <2> QED
    BY <2>1, <2>2
<1> QED
  BY <1>2 DEF LinksBound

LEMMA LinkTurn ==
  ASSUME Shapes, LinksBound, UNCHANGED <<catalog, share, revoked, twice>>,
         \A l \in Links : grant'[l] # None => Payload(l, grant'[l]) /\ share[l].pc = "issued",
         NEW d \in Redeemers, \A e \in Redeemers \ {d} : redeem'[e] = redeem[e],
         redeem'[d].pc \notin {"new", "over"} =>
           /\ redeem'[d].link \in Links /\ share[redeem'[d].link].pc = "issued"
           /\ Payload(redeem'[d].link, redeem'[d].pay)
  PROVE  LinksBound'
<1>1. ASSUME NEW l \in Links PROVE Bound(l)'
  <2>1. Bound(l)
    BY DEF LinksBound
  <2>2. ASSUME NEW e \in Redeemers, redeem'[e].pc \notin {"new", "over"}, redeem'[e].link = l
        PROVE  Payload(l, redeem'[e].pay) /\ share[l].pc = "issued"
    <3>1. CASE e = d
      BY <2>2, <3>1
    <3>2. CASE e # d
      BY <2>1, <2>2, <3>2 DEF Bound, Link, Pay
    <3> QED
      BY <3>1, <3>2
  <2> QED
    BY <2>1, <2>2 DEF Bound, Link, Pay, Payload
<1> QED
  BY <1>1 DEF LinksBound

(* What the requests that redeem links know of them.                       *)
LEMMA Known ==
  ASSUME Shapes, LinksBound
  PROVE  /\ \A l \in Links : grant[l] # None => Payload(l, grant[l]) /\ share[l].pc = "issued"
         /\ \A d \in Redeemers : redeem[d].pc \notin {"new", "over"} =>
              Link(d) \in Links /\ Payload(Link(d), Pay(d)) /\ share[Link(d)].pc = "issued"
BY DEF Shapes, LinksBound, Bound

LEMMA ShareBinds ==
  ASSUME Objects, Shapes, LinksBound, NEW l \in Links,
         (\E k \in Keys : CreateShare(l, k)) \/ StoreGrant(l) \/ GrantEnds(l)
  PROVE  LinksBound'
<1>0. /\ share = [m \in Links |-> share[m]] /\ grant = [m \in Links |-> grant[m]]
      /\ \A m \in Links : Bound(m)
  BY DEF Shapes, LinksBound
<1>1. ASSUME NEW k \in Keys, CreateShare(l, k) PROVE LinksBound'
  <2> DEFINE x == [pc |-> "issue", key |-> k, gen |-> catalog[k].gen]
  <2>1. /\ share[l].pc = "new" /\ share'[l] = x /\ \A m \in Links \ {l} : share'[m] = share[m]
        /\ UNCHANGED <<catalog, grant, redeem, revoked, twice>>
    BY <1>0, <1>1 DEF CreateShare, ovars
  <2>2. catalog[k] \in Rows /\ catalog[k] # None
    BY <1>1 DEF CreateShare, Active, Objects
  <2>3. catalog[k].gen \in Nat
    BY <2>2 DEF Rows
  <2>4. share'[l].pc = "issue" /\ share'[l].key = k /\ share'[l].gen = catalog[k].gen
    BY <2>1
  <2> HIDE DEF x
  <2>5. Bound(l)'
    <3>1. l \notin revoked /\ grant[l] = None
      BY <1>0, <2>1 DEF Bound
    <3>2. \A d \in Redeemers : redeem[d].pc \notin {"new", "over"} => Link(d) # l
      BY <1>0, <2>1 DEF Bound
    <3> QED
      BY <2>1, <2>2, <2>3, <2>4, <3>1, <3>2 DEF Bound, Link
  <2>6. ASSUME NEW m \in Links \ {l} PROVE Bound(m)'
    BY <1>0, <2>1 DEF Bound, Link, Pay, Payload
  <2> QED
    BY <2>5, <2>6 DEF LinksBound
<1>2. CASE StoreGrant(l)
  <2> DEFINE x == share[l]
             y == [x EXCEPT !.pc = "issued"]
             p == [key |-> x.key, gen |-> x.gen, rev |-> 0]
  <2>1. x = [pc |-> x.pc, key |-> x.key, gen |-> x.gen]
    BY <1>2 DEF StoreGrant, Shapes, ShareOK
  <2>2. /\ share' = [share EXCEPT ![l] = y] /\ x.pc = "issue"
        /\ grant' = grant \/ grant' = [grant EXCEPT ![l] = p]
        /\ UNCHANGED <<catalog, redeem, revoked, twice>>
    BY <1>0, <1>2 DEF StoreGrant, ovars
  <2> HIDE DEF x
  <2>3. y = [pc |-> "issued", key |-> x.key, gen |-> x.gen]
    BY <2>1
  <2> HIDE DEF y
  <2>4. y.pc = "issued" /\ y.key = x.key /\ y.gen = x.gen
    BY <2>3
  <2>5. /\ share'[l] = y /\ \A m \in Links \ {l} : share'[m] = share[m]
        /\ grant'[l] = grant[l] \/ grant'[l] = p
        /\ \A m \in Links \ {l} : grant'[m] = grant[m]
    BY <1>0, <2>2
  <2>6. p = [key |-> y.key, gen |-> y.gen, rev |-> p.rev] /\ p.rev \in Nat
    BY <2>4
  <2> HIDE DEF p
  <2>7. Bound(l)'
    <3>1. grant'[l] # None => grant'[l] = [key |-> y.key, gen |-> y.gen, rev |-> grant'[l].rev] /\ grant'[l].rev \in Nat
      BY <1>0, <2>4, <2>5, <2>6 DEF Bound, Payload, x
    <3>2. share'[l].pc # "new" /\ share'[l].pc = "issued" /\ share'[l].key = share[l].key /\ share'[l].gen = share[l].gen
      BY <2>4, <2>5 DEF x
    <3>3. \A d \in Redeemers : redeem[d].pc \notin {"new", "over"} => Link(d) # l
      BY <1>0, <2>2 DEF Bound, x
    <3>4. share[l].pc # "new"
      BY <2>2 DEF x
    <3> QED
      BY <1>0, <2>2, <2>5, <3>1, <3>2, <3>3, <3>4 DEF Bound, Payload, Link
  <2>8. ASSUME NEW m \in Links \ {l} PROVE Bound(m)'
    BY <1>0, <2>2, <2>5 DEF Bound, Link, Pay, Payload
  <2> QED
    BY <2>7, <2>8 DEF LinksBound
<1>3. CASE GrantEnds(l)
  <2>1. /\ \A m \in Links : grant'[m] \in {grant[m], None}
        /\ UNCHANGED <<catalog, share, redeem, revoked, twice>>
    BY <1>0, <1>3 DEF GrantEnds, ovars
  <2> QED
    BY <1>0, <2>1 DEF LinksBound, Bound, Link, Pay, Payload
<1> QED
  BY <1>1, <1>2, <1>3

LEMMA RedeemBinds ==
  ASSUME Shapes, LinksBound, NEW d \in Redeemers,
         \/ \E l \in Links : Snapshot(d, l)
         \/ CheckFirst(d) \/ ClaimGrant(d) \/ CheckAgain(d) \/ OpenStream(d) \/ RestoreGrant(d) \/ RedeemStops(d)
  PROVE  LinksBound' /\ (DeletedStaysClosed => DeletedStaysClosed')
<1> DEFINE l == Link(d)
<1>0. UNCHANGED <<catalog, share, revoked, twice>>
  BY DEF Snapshot, CheckFirst, ClaimGrant, CheckAgain, OpenStream, RestoreGrant, RedeemStops, ovars
<1>1. grant = [m \in Links |-> grant[m]]
  BY DEF Shapes
<1>2. ASSUME EndRedeem(d) PROVE redeem'[d].pc = "over" /\ \A e \in Redeemers \ {d} : redeem'[e] = redeem[e]
  BY <1>2, EndRedeemShape
<1>3. ASSUME \A m \in Links : grant'[m] \in {grant[m], None}, EndRedeem(d)
      PROVE  LinksBound' /\ (DeletedStaysClosed => DeletedStaysClosed')
  <2>1. LinksBound'
    BY <1>0, <1>2, <1>3, Known, LinkTurn
  <2> QED
    BY <1>0, <1>2, <1>3, <2>1 DEF DeletedStaysClosed, Link
<1>4. ASSUME NEW pc, ToRedeem(d, pc), pc # "open", \A m \in Links : grant'[m] \in {grant[m], None},
             \/ redeem[d].pc \in {"check", "claim"} /\ pc \in {"claim", "checkAgain"}
             \/ redeem[d].pc = "open" /\ pc = "restore"
      PROVE  LinksBound' /\ (DeletedStaysClosed => DeletedStaysClosed')
  <2>1. redeem'[d].pc = pc /\ redeem'[d].link = l /\ redeem'[d].pay = Pay(d)
        /\ \A e \in Redeemers \ {d} : redeem'[e] = redeem[e]
    BY <1>4, ToRedeemShape
  <2>2. redeem[d].pc \notin {"new", "over"}
    BY <1>4
  <2>3. LinksBound'
    BY <1>0, <1>4, <2>1, <2>2, Known, LinkTurn
  <2> QED
    BY <1>0, <1>4, <2>1, <2>3 DEF DeletedStaysClosed, Link
<1>5. ASSUME NEW m \in Links, Snapshot(d, m) PROVE LinksBound' /\ (DeletedStaysClosed => DeletedStaysClosed')
  <2>1. /\ redeem'[d] = [pc |-> "check", link |-> m, pay |-> grant[m]] /\ grant[m] # None
        /\ \A e \in Redeemers \ {d} : redeem'[e] = redeem[e] /\ grant' = grant
    BY <1>5 DEF Snapshot, Shapes
  <2>2. redeem'[d].pc = "check" /\ redeem'[d].link = m /\ redeem'[d].pay = grant[m]
    BY <2>1
  <2>3. grant' = grant
    BY <1>5 DEF Snapshot
  <2>4. LinksBound'
    BY <1>0, <2>1, <2>2, <2>3, Known, LinkTurn
  <2> QED
    BY <1>0, <2>1, <2>2, <2>4 DEF DeletedStaysClosed, Link
<1>6. CASE CheckFirst(d)
  <2>1. CASE ToRedeem(d, "claim") /\ UNCHANGED grant
    BY <1>4, <1>6, <2>1 DEF CheckFirst
  <2>2. CASE EndRedeem(d) /\ grant' = [grant EXCEPT ![Link(d)] = None]
    BY <1>1, <1>3, <2>2
  <2> QED
    BY <1>6, <2>1, <2>2 DEF CheckFirst
<1>7. CASE ClaimGrant(d)
  <2>1. \A m \in Links : grant'[m] \in {grant[m], None}
    BY <1>1, <1>7 DEF ClaimGrant
  <2>2. redeem[d].pc = "claim" /\ (ToRedeem(d, "checkAgain") \/ EndRedeem(d))
    BY <1>7 DEF ClaimGrant
  <2> QED
    BY <1>3, <1>4, <2>1, <2>2
<1>8. CASE CheckAgain(d)
  <2> DEFINE pc == IF Valid(Pay(d)) THEN "open" ELSE "restore"
             late == l \in revoked
  <2>1. /\ redeem[d].pc = "checkAgain" /\ UNCHANGED grant
        /\ redeem' = [redeem EXCEPT ![d] = [pc |-> pc, link |-> l, pay |-> Pay(d), late |-> late]]
    BY <1>8 DEF CheckAgain
  <2>2. l \in Links /\ Payload(l, Pay(d)) /\ share[l].pc = "issued" /\ Bound(l)
    BY <2>1, Known DEF LinksBound
  <2>3. pc = "open" => ~late \/ l \in twice
    <3>1. Pay(d).key = share[l].key /\ Pay(d).gen = share[l].gen
      BY <2>2 DEF Payload
    <3>2. SUFFICES ASSUME Valid(Pay(d)), l \in revoked, l \notin twice PROVE FALSE
      OBVIOUS
    <3>3. catalog[share[l].key].gen = share[l].gen /\ share[l].gen \in Nat
      BY <2>2, <3>1, <3>2 DEF Valid, Bound
    <3> QED
      BY <2>2, <3>2, <3>3 DEF Bound
  <2>4. pc \in {"open", "restore"}
    OBVIOUS
  <2> HIDE DEF pc, l
  <2>5. /\ redeem'[d].pc = pc /\ redeem'[d].link = l /\ redeem'[d].pay = Pay(d)
        /\ (redeem'[d].late <=> late) /\ \A e \in Redeemers \ {d} : redeem'[e] = redeem[e]
    BY <2>1 DEF Shapes
  <2>6. LinksBound'
    BY <1>0, <2>1, <2>2, <2>5, Known, LinkTurn DEF l
  <2> QED
    BY <1>0, <2>3, <2>5, <2>6 DEF DeletedStaysClosed, Link
<1>9. CASE OpenStream(d)
  <2>1. redeem[d].pc = "open" /\ UNCHANGED grant /\ (EndRedeem(d) \/ ToRedeem(d, "restore"))
    BY <1>9 DEF OpenStream
  <2> QED
    BY <1>3, <1>4, <2>1
<1>10. CASE RestoreGrant(d)
  <2> DEFINE x == Pay(d)
             p == [x EXCEPT !.rev = @ + 1]
  <2>1. /\ redeem[d].pc = "restore" /\ EndRedeem(d)
        /\ grant' = grant \/ grant' = [grant EXCEPT ![l] = p]
    BY <1>10 DEF RestoreGrant
  <2>2. l \in Links /\ Payload(l, x) /\ share[l].pc = "issued"
    BY <2>1, Known
  <2>3. x = [key |-> share[l].key, gen |-> share[l].gen, rev |-> x.rev] /\ x.rev \in Nat
    BY <2>2 DEF Payload
  <2> HIDE DEF x
  <2>4. p = [key |-> share[l].key, gen |-> share[l].gen, rev |-> x.rev + 1]
    BY <2>3
  <2>5. Payload(l, p)
    BY <2>3, <2>4 DEF Payload
  <2> HIDE DEF p, l
  <2>6. \A m \in Links : grant'[m] # None => Payload(m, grant'[m]) /\ share[m].pc = "issued"
    BY <1>1, <2>1, <2>2, <2>5, Known
  <2>7. LinksBound'
    BY <1>0, <1>2, <2>1, <2>6, LinkTurn
  <2> QED
    BY <1>0, <1>2, <2>1, <2>7 DEF DeletedStaysClosed, Link
<1>11. CASE RedeemStops(d)
  BY <1>3, <1>11 DEF RedeemStops
<1> QED
  BY <1>5, <1>6, <1>7, <1>8, <1>9, <1>10, <1>11

LinkInv == Inv /\ LifeInv /\ LinksBound /\ DeletedStaysClosed

LEMMA LinkInvInit == DownloadInit => LinkInv
<1> SUFFICES ASSUME DownloadInit PROVE LinkInv
  OBVIOUS
<1>1. LifeInv
  BY LifeInit DEF DownloadInit
<1>2. LinksBound /\ DeletedStaysClosed
  BY DEF DownloadInit, LinksBound, Bound, DeletedStaysClosed
<1> QED
  BY <1>1, <1>2, InvInit DEF LinkInv

LEMMA LinkInvStep == LinkInv /\ [DownloadNext]_<<ovars, dvars>> => LinkInv'
<1> SUFFICES ASSUME LinkInv, [DownloadNext]_<<ovars, dvars>> PROVE LinkInv'
  OBVIOUS
<1>0. Inv' /\ Inv /\ Shapes /\ LifeInv /\ LinksBound /\ DeletedStaysClosed /\ Objects
  BY InvStep DEF LinkInv, LifeInv, Inv
<1>1. CASE ObjectsLive \/ UNCHANGED <<ovars, dvars>>
  <2>1. LifeInv' /\ Objects'
    BY <1>0, <1>1, LifeStep DEF ObjectsLive, LifeInv
  <2>2. LinksBound'
    BY <1>0, <1>1, <2>1, LinksLive
  <2>3. UNCHANGED redeem /\ twice \subseteq twice'
    BY <1>1 DEF ObjectsLive, dvars
  <2> QED
    BY <1>0, <2>1, <2>2, <2>3 DEF LinkInv, DeletedStaysClosed, Link
<1>2. ASSUME UNCHANGED ovars PROVE LifeInv'
  BY <1>0, <1>2, LifeStep
<1>3. ASSUME NEW l \in Links, (\E k \in Keys : CreateShare(l, k)) \/ StoreGrant(l) \/ GrantEnds(l)
      PROVE  LinkInv'
  <2>1. UNCHANGED <<ovars, redeem, twice>>
    BY <1>3 DEF CreateShare, StoreGrant, GrantEnds
  <2> QED
    BY <1>0, <1>2, <1>3, <2>1, ShareBinds DEF LinkInv, DeletedStaysClosed, Link
<1>4. ASSUME NEW d \in Redeemers,
             \/ \E l \in Links : Snapshot(d, l)
             \/ CheckFirst(d) \/ ClaimGrant(d) \/ CheckAgain(d) \/ OpenStream(d) \/ RestoreGrant(d) \/ RedeemStops(d)
      PROVE  LinkInv'
  <2>1. UNCHANGED ovars
    BY <1>4 DEF Snapshot, CheckFirst, ClaimGrant, CheckAgain, OpenStream, RestoreGrant, RedeemStops
  <2> QED
    BY <1>0, <1>2, <1>4, <2>1, RedeemBinds DEF LinkInv
<1> QED
  BY <1>1, <1>3, <1>4 DEF DownloadNext

(* A link whose object was deleted before the second look at the row opens *)
(* nothing, even if the object was restored, unless the row was saved with *)
(* a generation it had had before.                                         *)
THEOREM DeletedStaysClosedCorrect == DownloadSpec => []DeletedStaysClosed
<1>1. LinkInv => DeletedStaysClosed
  BY DEF LinkInv
<1> QED
  BY <1>1, LinkInvInit, LinkInvStep, PTL DEF DownloadSpec

(* The links change nothing of the objects, so beside them too no object is*)
(* lost, what is active is charged, and the ledgers agree.                 *)
THEOREM ObjectsBesideLinks == DownloadSpec => LifecycleSpec /\ [](NothingIsLost /\ ActiveIsCharged /\ LedgersAgree)
<1>1. DownloadInit => LifecycleInit
  BY DEF DownloadInit
<1>2. [DownloadNext]_<<ovars, dvars>> => [LifecycleNext]_ovars
  BY DEF DownloadNext, ObjectsLive, CreateShare, StoreGrant, GrantEnds, Snapshot, CheckFirst, ClaimGrant,
         CheckAgain, OpenStream, RestoreGrant, RedeemStops
<1> QED
  BY <1>1, <1>2, NothingIsLostCorrect, ActiveIsChargedCorrect, LedgersAgreeCorrect, PTL DEF DownloadSpec, LifecycleSpec

-----------------------------------------------------------------------------
(* What a call of an object works on, and the links that are marked.       *)
LEMMA LifecycleTypes == LifeInv => LifecycleTypeOK
<1> SUFFICES ASSUME LifeInv PROVE LifecycleTypeOK
  OBVIOUS
<1>1. Objects
  BY DEF LifeInv
<1>2. ASSUME NEW c \in Callers, call[c].pc \notin {"new", "over"}
      PROVE  Key(c) \in Keys /\ Row(c) \in Rows \cup {None}
  <2>1. CallOK(call[c])
    BY <1>1 DEF Objects
  <2> QED
    BY <1>2, <2>1 DEF CallOK, Key, Row
<1> QED
  BY <1>1, <1>2 DEF Objects, LifecycleTypeOK

LEMMA MarkedLinks ==
  (revoked \in SUBSET Links /\ twice \in SUBSET Links) /\ [DownloadNext]_<<ovars, dvars>>
    => (revoked \in SUBSET Links /\ twice \in SUBSET Links)'
BY DEF DownloadNext, dvars, ObjectsLive, LinksOf, CreateShare, StoreGrant, GrantEnds, Snapshot, CheckFirst, ClaimGrant,
       CheckAgain, OpenStream, RestoreGrant, RedeemStops

(* The rows, the calls, the links and the requests for them have their     *)
(* types.                                                                  *)
THEOREM DataTypesCorrect == DownloadSpec => []DataTypesOK
<1>1. LinkInv /\ revoked \in SUBSET Links /\ twice \in SUBSET Links => DownloadTypeOK
  <2> SUFFICES ASSUME LinkInv, revoked \in SUBSET Links, twice \in SUBSET Links PROVE DownloadTypeOK
    OBVIOUS
  <2>0. Shapes /\ LinksBound
    BY DEF LinkInv, Inv
  <2>1. ASSUME NEW l \in Links, grant[l] # None
        PROVE  grant[l].key \in Keys /\ grant[l].gen \in Nat /\ grant[l].rev \in Nat
    <3>1. Bound(l)
      BY <2>0 DEF LinksBound
    <3>2. Payload(l, grant[l]) /\ share[l].pc = "issued" /\ share[l].key \in Keys /\ share[l].gen \in Nat
      BY <2>1, <3>1 DEF Bound
    <3> QED
      BY <3>2 DEF Payload
  <2>2. ASSUME NEW d \in Redeemers, redeem[d].pc \notin {"new", "over"}
        PROVE  Link(d) \in Links /\ Pay(d).key \in Keys
    <3>1. Link(d) \in Links
      BY <2>0, <2>2 DEF Shapes
    <3>2. Bound(Link(d))
      BY <2>0, <3>1 DEF LinksBound
    <3>3. Payload(Link(d), Pay(d)) /\ share[Link(d)].key \in Keys
      BY <2>2, <3>2 DEF Bound
    <3> QED
      BY <3>1, <3>3 DEF Payload
  <2> QED
    BY <2>0, <2>1, <2>2 DEF DownloadTypeOK, Shapes
<1>2. LinkInv => LifecycleTypeOK
  BY LifecycleTypes DEF LinkInv
<1>3. DownloadInit => revoked \in SUBSET Links /\ twice \in SUBSET Links
  BY DEF DownloadInit
<1> QED
  BY <1>1, <1>2, <1>3, LinkInvInit, LinkInvStep, MarkedLinks, PTL DEF DownloadSpec, DataTypesOK
=============================================================================
