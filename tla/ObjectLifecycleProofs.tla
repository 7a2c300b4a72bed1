------------------------ MODULE ObjectLifecycleProofs ------------------------
(***************************************************************************)
(* That no object is lost, that what is shown is charged, and that the two *)
(* ledgers agree, for any number of objects, requests and archive workers. *)
(*                                                                         *)
(* LifeInv is the inductive invariant.  Objects gives every call the row   *)
(* it saves, Copies the copy of what is archived.  The rest holds until a  *)
(* lock is lost, or a change of both ledgers stops half-way (slipped):     *)
(*   Held       a call between Lock and its end has the lock;              *)
(*   Calm       what is being archived, or is no longer in MinIO, is past  *)
(*              its recovery window, and no restore of it is past its look *)
(*              at the row;                                                *)
(*   Ledgers    the bytes that a delete or restore under way has yet to    *)
(*              give back are still counted.                               *)
(***************************************************************************)
EXTENDS ObjectLifecycle, FiniteSetTheorems, TLAPS

(* The calls on an object.                                                 *)
Completing == {"complete", "row", "upsert"}
Deleting == {"delete", "locked", "hide", "release", "releaseLegacy", "show"}
Restoring == {"restore", "again", "charge", "chargeLegacy", "find", "return", "takeBack"}
Archivers == {"archive", "pending"} \cup Archiving
CallOK(x) ==
  \/ x.pc \in {"new", "over"}
  \/ /\ x.pc \in Completing \cup Deleting \cup Restoring \cup Archivers /\ x.key \in Keys
     /\ x.pc \in Completing => x.row \in Rows \cup {None}
     /\ x.pc \notin Completing => x.row \in Rows
     /\ IF x.pc \in Archivers
        THEN x = [pc |-> x.pc, key |-> x.key, row |-> x.row, name |-> x.name, alone |-> x.alone] /\ x.name \in Nat
        ELSE x = [pc |-> x.pc, key |-> x.key, row |-> x.row]
     /\ x.pc = "hide" => x.row.state = "soft_deleted" /\ ~x.row.over
     /\ x.pc = "return" => x.row.state = "active" /\ ~x.row.over
     /\ x.pc \in Archiving => x.row.state = "archive_pending" /\ x.row.over

Objects ==
  /\ catalog \in [Keys -> Rows \cup {None}]
  /\ source \subseteq Keys /\ completed \subseteq Keys /\ archive \subseteq Keys \X Nat
  /\ compact \in 0..Room /\ legacy \in 0..Room
  /\ appLock \in Callers \cup {None} /\ slipped \in BOOLEAN /\ revived \in Nat
  /\ call = [c \in Callers |-> call[c]] /\ \A c \in Callers : CallOK(call[c])
  /\ \A k \in Keys : catalog[k] # None => k \in completed
  /\ \A c \in Callers : call[c].pc \notin {"new", "over"} =>
       IF call[c].pc = "complete" THEN TRUE
       ELSE Key(c) \in completed /\ (call[c].pc \notin Completing => catalog[Key(c)] # None)
  /\ \A c \in Callers : call[c].pc = "upsert" /\ Row(c) # None => catalog[Key(c)] # None

(* What is archived has a copy.                                            *)
HasCopy(k) == \E copy \in archive : copy[1] = k
Copies ==
  /\ \A k \in Keys : catalog[k] # None /\ catalog[k].state = "archived" => HasCopy(k)
  /\ \A c \in Callers : call[c].pc \in {"remove", "archived"} => HasCopy(Key(c))

Holding == {"locked", "hide", "release", "releaseLegacy", "show", "again", "charge", "chargeLegacy",
            "find", "return", "takeBack", "pending"}
Checked == {"charge", "chargeLegacy", "find", "return"}
Debt == {"release", "show", "chargeLegacy", "find", "return", "takeBack"}

Held == \A c \in Callers : call[c].pc \in Holding => appLock = c
Dead(k) == catalog[k] # None /\ catalog[k].state \in Gone /\ catalog[k].over
Doomed(k) ==
  \/ \E c \in Callers : call[c].pc \in Archiving /\ Key(c) = k
  \/ k \in completed /\ k \notin source
DoomedDead == \A k \in Keys : Doomed(k) =>
  Dead(k) /\ \A c \in Callers : call[c].pc \in Brief \cup Checked => Key(c) # k
OverGone == \A k \in Keys : catalog[k] # None /\ catalog[k].over =>
  Dead(k) /\ \A c \in Callers : call[c].pc \in Brief => Key(c) # k
Visible == \A c \in Callers : /\ call[c].pc = "hide" => Key(c) \in Active
                              /\ call[c].pc = "complete" => Key(c) \in source
Calm == DoomedDead /\ OverGone /\ Visible
Charged == {k \in completed : catalog[k] = None \/ catalog[k].state = "active"}
Some(pcs) == IF \E c \in Callers : call[c].pc \in pcs THEN 1 ELSE 0
Ledgers ==
  /\ Cardinality(Charged) + Some(Debt) <= compact + revived
  /\ legacy + Some({"chargeLegacy"}) <= compact + Some({"releaseLegacy"})

Sound == Held /\ Calm /\ Ledgers
LifeInv == Objects /\ Copies /\ (slipped \/ Sound)

-----------------------------------------------------------------------------
(* One call goes on: the others stay as they are.                          *)
Alone(c) == call' = [e \in Callers |-> call'[e]] /\ \A e \in Callers \ {c} : call'[e] = call[e]
Moves(c, p) == Alone(c) /\ call'[c].pc = p /\ call'[c].key = Key(c)
AtWork(c) == call[c].pc \notin {"new", "over"}

LEMMA NoneIsNoRow == None \notin Rows /\ None \notin Callers /\ IsFiniteSet(Keys) /\ Room \in Nat
BY LifecycleConstants

LEMMA Opens ==
  ASSUME Objects, NEW c \in Callers, NEW k \in Keys, NEW p, Open(c, p, k)
  PROVE  /\ Alone(c) /\ call[c].pc = "new" /\ call'[c] = [pc |-> p, key |-> k, row |-> catalog[k]]
BY DEF Objects, Open, In, Alone

LEMMA GoesOn ==
  ASSUME Objects, NEW c \in Callers, AtWork(c), NEW p, Next1(c, p), p \notin {"new", "over"},
         call[c].pc \in Archivers <=> p \in Archivers
  PROVE  /\ Moves(c, p) /\ Row(c)' = Row(c) /\ (p \in Archivers => call'[c].name = call[c].name)
         /\ IF p \in Archivers
            THEN call'[c] = [pc |-> p, key |-> Key(c), row |-> Row(c), name |-> call[c].name, alone |-> call[c].alone]
            ELSE call'[c] = [pc |-> p, key |-> Key(c), row |-> Row(c)]
<1> DEFINE x == call[c]
           y == [x EXCEPT !.pc = p]
<1>1. call' = [call EXCEPT ![c] = y] /\ CallOK(x)
  BY DEF Objects, Next1
<1>2. Alone(c) /\ call'[c] = y
  BY <1>1 DEF Objects, Alone
<1>3. CASE p \in Archivers
  <2>1. x = [pc |-> x.pc, key |-> x.key, row |-> x.row, name |-> x.name, alone |-> x.alone]
    BY <1>1, <1>3 DEF CallOK, AtWork
  <2> HIDE DEF x
  <2>2. y = [pc |-> p, key |-> x.key, row |-> x.row, name |-> x.name, alone |-> x.alone]
    BY <2>1
  <2> HIDE DEF y
  <2> QED
    BY <1>2, <1>3, <2>2 DEF x, Moves, Key, Row
<1>4. CASE p \notin Archivers
  <2>1. x = [pc |-> x.pc, key |-> x.key, row |-> x.row]
    BY <1>1, <1>4 DEF CallOK, AtWork
  <2> HIDE DEF x
  <2>2. y = [pc |-> p, key |-> x.key, row |-> x.row]
    BY <2>1
  <2> HIDE DEF y
  <2> QED
    BY <1>2, <1>4, <2>2 DEF x, Moves, Key, Row
<1> QED
  BY <1>3, <1>4

With(c, p, r) == call' = [call EXCEPT ![c].pc = p, ![c].row = r]
LEMMA GoesOnWith ==
  ASSUME Objects, NEW c \in Callers, AtWork(c), NEW p, NEW r, p \notin {"new", "over"},
         With(c, p, r),
         call[c].pc \in Archivers <=> p \in Archivers
  PROVE  /\ Moves(c, p) /\ Row(c)' = r /\ (p \in Archivers => call'[c].name = call[c].name)
         /\ IF p \in Archivers
            THEN call'[c] = [pc |-> p, key |-> Key(c), row |-> r, name |-> call[c].name, alone |-> call[c].alone]
            ELSE call'[c] = [pc |-> p, key |-> Key(c), row |-> r]
<1> DEFINE x == call[c]
           z == [x EXCEPT !.pc = p]
           y == [z EXCEPT !.row = r]
<1>1. call' = [call EXCEPT ![c] = y] /\ CallOK(x)
  BY DEF Objects, With
<1>2. Alone(c) /\ call'[c] = y
  BY <1>1 DEF Objects, Alone
<1>3. CASE p \in Archivers
  <2>1. x = [pc |-> x.pc, key |-> x.key, row |-> x.row, name |-> x.name, alone |-> x.alone]
    BY <1>1, <1>3 DEF CallOK, AtWork
  <2> HIDE DEF x
  <2>2. z = [pc |-> p, key |-> x.key, row |-> x.row, name |-> x.name, alone |-> x.alone]
    BY <2>1
  <2> HIDE DEF z
  <2>3. y = [pc |-> p, key |-> x.key, row |-> r, name |-> x.name, alone |-> x.alone]
    BY <2>2
  <2> HIDE DEF y
  <2> QED
    BY <1>2, <1>3, <2>3 DEF x, Moves, Key, Row
<1>4. CASE p \notin Archivers
  <2>1. x = [pc |-> x.pc, key |-> x.key, row |-> x.row]
    BY <1>1, <1>4 DEF CallOK, AtWork
  <2> HIDE DEF x
  <2>2. z = [pc |-> p, key |-> x.key, row |-> x.row]
    BY <2>1
  <2> HIDE DEF z
  <2>3. y = [pc |-> p, key |-> x.key, row |-> r]
    BY <2>2
  <2> HIDE DEF y
  <2> QED
    BY <1>2, <1>4, <2>3 DEF x, Moves, Key, Row
<1> QED
  BY <1>3, <1>4

LEMMA Ends ==
  ASSUME Objects, NEW c \in Callers, Over(c)
  PROVE  /\ Alone(c) /\ call'[c].pc = "over" /\ CallOK(call'[c])
         /\ appLock' \in Callers \cup {None} /\ appLock' = IF appLock = c THEN None ELSE appLock
BY DEF Objects, Over, Alone, CallOK

-----------------------------------------------------------------------------
(* The types, after a step of one call.                                    *)
Typed ==
  /\ source \subseteq Keys /\ completed \subseteq Keys /\ archive \subseteq Keys \X Nat
  /\ compact \in 0..Room /\ legacy \in 0..Room
  /\ appLock \in Callers \cup {None} /\ slipped \in BOOLEAN /\ revived \in Nat
Placed(c) ==
  /\ call[c].pc \notin {"new", "over", "complete"} =>
       Key(c) \in completed /\ (call[c].pc \notin Completing => catalog[Key(c)] # None)
  /\ call[c].pc = "upsert" /\ Row(c) # None => catalog[Key(c)] # None
RowsStay ==
  /\ completed \subseteq completed'
  /\ catalog' = [k \in Keys |-> catalog'[k]]
  /\ \A k \in Keys : catalog'[k] = catalog[k] \/ (catalog'[k] \in Rows /\ k \in completed')

LEMMA ObjectsTurn ==
  ASSUME Objects, NEW c \in Callers, Alone(c), CallOK(call'[c]), Placed(c)', Typed', RowsStay
  PROVE  Objects'
<1>1. catalog' \in [Keys -> Rows \cup {None}]
  BY DEF Objects, RowsStay
<1>2. call' = [e \in Callers |-> call'[e]] /\ \A e \in Callers : CallOK(call'[e])
  BY DEF Objects, Alone
<1>3. \A k \in Keys : catalog'[k] # None => k \in completed'
  BY DEF Objects, RowsStay
<1>4. \A k \in Keys : catalog[k] # None => catalog'[k] # None
  BY NoneIsNoRow DEF RowsStay
<1>5. ASSUME NEW e \in Callers PROVE Placed(e)'
  <2>1. CASE e # c
    <3>1. call'[e] = call[e]
      BY <2>1 DEF Alone
    <3>2. call[e].pc \notin {"new", "over"} => call[e].key \in Keys
      BY DEF Objects, CallOK
    <3> QED
      BY <1>4, <3>1, <3>2 DEF Placed, Objects, Key, Row, Completing, RowsStay
  <2> QED
    BY <2>1
<1> QED
  BY <1>1, <1>2, <1>3, <1>5 DEF Objects, Typed, Placed

-----------------------------------------------------------------------------
(* The lock, after a step of one call.                                     *)
LEMMA HeldTurn ==
  ASSUME Held, NEW c \in Callers, Alone(c), call'[c].pc \in Holding => appLock' = c,
         appLock' # appLock => appLock \in {c, None}
  PROVE  Held'
BY NoneIsNoRow DEF Held, Alone

(* The objects, after a step of one call that changes none of them.        *)
Fits(c) ==
  LET p == call[c].pc
      q == call'[c].pc
      k == call'[c].key
      on == Key(c) = k
  IN /\ q \in Archiving =>
          \/ on /\ p \in Archiving
          \/ Dead(k) /\ \A e \in Callers : call[e].pc \in Brief \cup Checked => Key(e) # k
     /\ q \in Brief => (on /\ p \in Brief) \/ ~Dead(k)
     /\ q \in Checked => (on /\ p \in Checked) \/ ~Dead(k)
     /\ q = "hide" => k \in Active
     /\ q = "complete" => k \in source

LEMMA QuietTurn ==
  ASSUME Calm, NEW c \in Callers, Alone(c), Fits(c), UNCHANGED <<catalog, source, completed>>,
         AtWork(c)' => call'[c].key \in Keys
  PROVE  Calm'
<1> DEFINE q == call'[c].pc
           k == call'[c].key
<1>1. \A j \in Keys : Dead(j)' <=> Dead(j)
  BY DEF Dead
<1>2. Active' = Active
  BY DEF Active
<1>3. q \in Archiving \cup Brief \cup Checked => k \in Keys
  BY DEF AtWork, Archiving, Brief, Checked
<1>4. \A e \in Callers : e # c => call'[e] = call[e]
  BY DEF Alone
<1>5. Archiving \cap (Brief \cup Checked) = {}
  BY DEF Archiving, Brief, Checked
<1>6. ASSUME NEW j \in Keys, Doomed(j)'
      PROVE  Dead(j)' /\ \A e \in Callers : call'[e].pc \in Brief \cup Checked => Key(e)' # j
  <2>1. CASE Doomed(j)
    <3>1. Dead(j) /\ \A e \in Callers : call[e].pc \in Brief \cup Checked => Key(e) # j
      BY <2>1 DEF Calm, DoomedDead
    <3>2. q \in Brief \cup Checked => k # j
      BY <3>1 DEF Fits
    <3> QED
      BY <1>1, <1>4, <3>1, <3>2 DEF Key
  <2>2. CASE ~Doomed(j)
    <3>1. q \in Archiving /\ k = j /\ ~(call[c].pc \in Archiving /\ Key(c) = j)
      BY <1>4, <1>6, <2>2 DEF Doomed, Key
    <3>2. Dead(j) /\ \A e \in Callers : call[e].pc \in Brief \cup Checked => Key(e) # j
      BY <3>1 DEF Fits
    <3> QED
      BY <1>1, <1>4, <1>5, <3>1, <3>2 DEF Key
  <2> QED
    BY <2>1, <2>2
<1>7. DoomedDead'
  BY <1>6 DEF DoomedDead
<1>8. OverGone'
  <2>1. ASSUME NEW j \in Keys, catalog[j] # None, catalog[j].over
        PROVE  Dead(j)' /\ \A e \in Callers : call'[e].pc \in Brief => Key(e)' # j
    <3>1. Dead(j) /\ \A e \in Callers : call[e].pc \in Brief => Key(e) # j
      BY <2>1 DEF Calm, OverGone
    <3>2. q \in Brief => k # j
      BY <3>1 DEF Fits
    <3> QED
      BY <1>1, <1>4, <3>1, <3>2 DEF Key
  <2> QED
    BY <2>1 DEF OverGone
<1>9. Visible'
  BY <1>2, <1>4 DEF Calm, Visible, Fits, Key
<1> QED
  BY <1>7, <1>8, <1>9 DEF Calm

(* A row is saved by a call that is past its check, or completes, deletes. *)
LEMMA SaveTurn ==
  ASSUME Calm, NEW c \in Callers, Alone(c), NEW r \in Rows, SaveRow(c, r), ~r.over,
         UNCHANGED <<source, completed>>, catalog = [k \in Keys |-> catalog[k]],
         call[c].pc \in Brief \cup Checked, Key(c) \in Keys,
         \/ call'[c].pc = "over"
         \/ call[c].pc = "hide" /\ call'[c].pc = "release" /\ call'[c].key = Key(c),
         \A e \in Callers \ {c} : call[e].pc = "hide" /\ Key(e) = Key(c) => r.state = "active"
  PROVE  Calm'
<1> DEFINE k == Key(c)
<1>1. catalog'[k] = r /\ r # None /\ \A j \in Keys : j # k => catalog'[j] = catalog[j]
  BY NoneIsNoRow DEF SaveRow
<1>2. \A e \in Callers : e # c => call'[e] = call[e]
  BY DEF Alone
<1>3. ~Doomed(k)
  BY DEF Calm, DoomedDead
<1>4. \A j \in Keys : j # k => (Dead(j)' <=> Dead(j))
  BY <1>1 DEF Dead
<1>5. \A j \in Keys : Doomed(j)' => Doomed(j)
  BY <1>2 DEF Doomed, Key, Archiving
<1>6. call'[c].pc \in Brief \cup Checked => call[c].pc \in Brief /\ Key(c)' = k
  BY DEF Brief, Checked, Key
<1>7. DoomedDead'
  BY <1>2, <1>3, <1>4, <1>5, <1>6 DEF Calm, DoomedDead, Key
<1>8. OverGone'
  <2>1. ASSUME NEW j \in Keys, catalog'[j] # None, catalog'[j].over
        PROVE  Dead(j)' /\ \A e \in Callers : call'[e].pc \in Brief => Key(e)' # j
    <3>1. j # k /\ catalog'[j] = catalog[j]
      BY <1>1, <2>1
    <3>2. Dead(j) /\ \A e \in Callers : call[e].pc \in Brief => Key(e) # j
      BY <2>1, <3>1 DEF Calm, OverGone
    <3> QED
      BY <1>2, <1>4, <1>6, <3>1, <3>2 DEF Key
  <2> QED
    BY <2>1 DEF OverGone
<1>9. Visible'
  <2>1. ASSUME NEW e \in Callers, call'[e].pc = "hide" PROVE Key(e)' \in Active'
    <3>1. e # c /\ call'[e] = call[e]
      BY <1>2, <2>1
    <3>2. Key(e) \in Active
      BY <2>1, <3>1 DEF Calm, Visible
    <3>3. CASE Key(e) = k
      BY <1>1, <2>1, <3>1, <3>3 DEF Active, Key
    <3>4. CASE Key(e) # k
      BY <1>1, <3>1, <3>2, <3>4 DEF Active, Key
    <3> QED
      BY <3>3, <3>4
  <2>2. ASSUME NEW e \in Callers, call'[e].pc = "complete" PROVE Key(e)' \in source'
    BY <1>2, <2>2 DEF Calm, Visible, Key
  <2> QED
    BY <2>1, <2>2 DEF Visible
<1> QED
  BY <1>7, <1>8, <1>9 DEF Calm

(* A row that is gone changes, and is dead if it was.                      *)
LEMMA GoneTurn ==
  ASSUME Calm, NEW k \in Keys, NEW r \in Rows, catalog' = [catalog EXCEPT ![k] = r],
         catalog = [j \in Keys |-> catalog[j]], UNCHANGED <<source, completed>>,
         \A e \in Callers : call'[e] = call[e] \/ call'[e].pc \in {"archive", "over"},
         k \in Active => r.state = "active",
         r.over => r.state \in Gone /\ \A e \in Callers : call[e].pc \in Brief => Key(e) # k,
         Dead(k) => r.over
  PROVE  Calm'
<1>1. catalog'[k] = r /\ r # None /\ \A j \in Keys : j # k => catalog'[j] = catalog[j]
  BY NoneIsNoRow
<1>2. {"archive", "over"} \cap (Archiving \cup Brief \cup Checked \cup {"hide", "complete"}) = {}
  BY DEF Archiving, Brief, Checked
<1>3. \A e \in Callers : call'[e].pc \in Archiving \cup Brief \cup Checked \cup {"hide", "complete"} => call'[e] = call[e]
  BY <1>2
<1>4. \A j \in Keys : Dead(j) => Dead(j)'
  BY <1>1 DEF Dead
<1>5. \A j \in Keys : Doomed(j)' => Doomed(j)
  BY <1>3 DEF Doomed, Key
<1>6. DoomedDead'
  BY <1>3, <1>4, <1>5 DEF Calm, DoomedDead, Key
<1>7. OverGone'
  BY <1>1, <1>3, <1>4 DEF Calm, OverGone, Key, Dead
<1>8. Active \subseteq Active'
  BY <1>1 DEF Active
<1>9. Visible'
  BY <1>3, <1>8 DEF Calm, Visible, Key
<1> QED
  BY <1>6, <1>7, <1>9 DEF Calm

-----------------------------------------------------------------------------
(* The ledgers.                                                            *)
LEMMA SomeTurn ==
  ASSUME Held, NEW c \in Callers, Alone(c), NEW pcs
  PROVE  /\ pcs \subseteq Holding /\ call[c].pc \in Holding =>
              /\ Some(pcs) = IF call[c].pc \in pcs THEN 1 ELSE 0
              /\ Some(pcs)' = IF call'[c].pc \in pcs THEN 1 ELSE 0
         /\ call[c].pc \notin pcs /\ call'[c].pc \notin pcs => Some(pcs)' = Some(pcs)
<1>1. \A e \in Callers : e # c => call'[e] = call[e]
  BY DEF Alone
<1>2. ASSUME pcs \subseteq Holding, call[c].pc \in Holding
      PROVE  /\ Some(pcs) = IF call[c].pc \in pcs THEN 1 ELSE 0
             /\ Some(pcs)' = IF call'[c].pc \in pcs THEN 1 ELSE 0
  <2>1. \A e \in Callers : e # c => call[e].pc \notin pcs
    BY <1>2 DEF Held
  <2>2. \A e \in Callers : e # c => call'[e].pc \notin pcs
    BY <1>1, <2>1
  <2> QED
    BY <2>1, <2>2 DEF Some
<1>3. ASSUME call[c].pc \notin pcs, call'[c].pc \notin pcs PROVE Some(pcs)' = Some(pcs)
  <2>1. (\E e \in Callers : call'[e].pc \in pcs) <=> (\E e \in Callers : call[e].pc \in pcs)
    BY <1>1, <1>3
  <2> QED
    BY <2>1 DEF Some
<1> QED
  BY <1>2, <1>3

LEMMA SomeType == ASSUME NEW pcs PROVE Some(pcs) \in {0, 1}
BY DEF Some

LEMMA ChargedSize ==
  ASSUME Objects
  PROVE  /\ Charged \subseteq Keys /\ IsFiniteSet(Charged) /\ Cardinality(Charged) \in Nat
         /\ Active \subseteq Charged
<1>1. Charged \subseteq Keys
  BY DEF Objects, Charged
<1>2. IsFiniteSet(Charged)
  BY <1>1, NoneIsNoRow, FS_Subset
<1>3. Cardinality(Charged) \in Nat
  BY <1>2, FS_CardinalityType
<1> QED
  BY <1>1, <1>2, <1>3 DEF Active, Charged, Objects

(* The charged objects gain one, or lose one.                              *)
LEMMA ChargedGains ==
  ASSUME Objects, NEW k, Charged' \subseteq Charged \cup {k}
  PROVE  Cardinality(Charged') \in Nat /\ Cardinality(Charged') <= Cardinality(Charged) + 1
<1>0. IsFiniteSet(Charged) /\ Cardinality(Charged) \in Nat
  BY ChargedSize
<1>1. IsFiniteSet(Charged \cup {k}) /\ Cardinality(Charged \cup {k}) <= Cardinality(Charged) + 1
      /\ Cardinality(Charged \cup {k}) \in Nat
  BY <1>0, FS_AddElement, FS_CardinalityType
<1>2. IsFiniteSet(Charged') /\ Cardinality(Charged') <= Cardinality(Charged \cup {k})
  BY <1>1, FS_Subset
<1>3. Cardinality(Charged') \in Nat
  BY <1>2, FS_CardinalityType
<1> QED
  BY <1>0, <1>1, <1>2, <1>3
LEMMA ChargedStays ==
  ASSUME Objects, Charged' \subseteq Charged
  PROVE  Cardinality(Charged') \in Nat /\ Cardinality(Charged') <= Cardinality(Charged)
<1>0. IsFiniteSet(Charged)
  BY ChargedSize
<1>1. IsFiniteSet(Charged') /\ Cardinality(Charged') <= Cardinality(Charged)
  BY <1>0, FS_Subset
<1> QED
  BY <1>1, FS_CardinalityType
LEMMA ChargedLoses ==
  ASSUME Objects, NEW k \in Charged, Charged' \subseteq Charged \ {k}
  PROVE  Cardinality(Charged') \in Nat /\ Cardinality(Charged') + 1 <= Cardinality(Charged)
<1>0. IsFiniteSet(Charged) /\ Cardinality(Charged) \in Nat
  BY ChargedSize
<1>1. IsFiniteSet(Charged \ {k}) /\ Cardinality(Charged \ {k}) = Cardinality(Charged) - 1
  BY <1>0, FS_RemoveElement
<1>2. IsFiniteSet(Charged') /\ Cardinality(Charged') <= Cardinality(Charged \ {k})
  BY <1>1, FS_Subset
<1>3. Cardinality(Charged') \in Nat
  BY <1>2, FS_CardinalityType
<1> QED
  BY <1>0, <1>1, <1>2, <1>3

-----------------------------------------------------------------------------
(* A step of one call that changes no object.                              *)
LEMMA LedgerStep ==
  ASSUME LifeInv, NEW c \in Callers, Alone(c), CallOK(call'[c]), Placed(c)',
         UNCHANGED <<catalog, source, archive, completed, revived>>,
         compact' \in 0..Room, legacy' \in 0..Room,
         slipped' \in BOOLEAN, ~slipped' => ~slipped, appLock' \in Callers \cup {None},
         ~slipped' => Fits(c),
         ~slipped' => (call'[c].pc \in Holding => appLock' = c), appLock' # appLock => appLock \in {c, None},
         call'[c].pc \in {"remove", "archived"} => HasCopy(call'[c].key),
         ~slipped' => Ledgers'
  PROVE  LifeInv'
<1>0. Objects /\ Copies /\ \A e \in Callers : e # c => call'[e] = call[e]
  BY DEF LifeInv, Alone
<1>1. Objects'
  <2>1. Typed' /\ RowsStay
    BY <1>0 DEF Objects, Typed, RowsStay
  <2> QED
    BY <1>0, <2>1, ObjectsTurn
<1>2. Copies'
  BY <1>0 DEF Copies, HasCopy, Key
<1>3. ASSUME ~slipped' PROVE Sound'
  <2>0. Held /\ Calm
    BY <1>3 DEF LifeInv, Sound
  <2>1. Held'
    BY <1>3, <2>0, HeldTurn
  <2>2. AtWork(c)' => call'[c].key \in Keys
    BY DEF CallOK, AtWork
  <2>3. Calm'
    BY <1>3, <2>0, <2>2, QuietTurn
  <2> QED
    BY <1>3, <2>1, <2>3 DEF Sound
<1> QED
  BY <1>1, <1>2, <1>3 DEF LifeInv

(* ... nor a ledger.                                                       *)
LEMMA QuietStep ==
  ASSUME LifeInv, NEW c \in Callers, Alone(c), CallOK(call'[c]), Placed(c)',
         UNCHANGED <<catalog, source, archive, completed, compact, legacy, revived>>,
         slipped' \in BOOLEAN, ~slipped' => ~slipped, appLock' \in Callers \cup {None},
         ~slipped' => Fits(c),
         ~slipped' => (call'[c].pc \in Holding => appLock' = c), appLock' # appLock => appLock \in {c, None},
         call'[c].pc \in {"remove", "archived"} => HasCopy(call'[c].key),
         call'[c].pc \in Debt => call[c].pc \in Debt,
         call'[c].pc = "chargeLegacy" => call[c].pc = "chargeLegacy",
         ~slipped' => (call[c].pc = "releaseLegacy" => call'[c].pc = "releaseLegacy")
  PROVE  LifeInv'
<1>0. Objects /\ Copies /\ \A e \in Callers : e # c => call'[e] = call[e]
  BY DEF LifeInv, Alone
<1>1. ASSUME ~slipped' PROVE Ledgers'
  <2>0. Ledgers
    BY <1>1 DEF LifeInv, Sound
  <2>1. Charged' = Charged
    BY DEF Charged
  <2>2. /\ Some(Debt)' <= Some(Debt) /\ Some(Debt) \in {0, 1} /\ Some(Debt)' \in {0, 1}
        /\ Some({"chargeLegacy"})' <= Some({"chargeLegacy"}) /\ Some({"chargeLegacy"}) \in {0, 1}
        /\ Some({"chargeLegacy"})' \in {0, 1}
        /\ Some({"releaseLegacy"}) <= Some({"releaseLegacy"})' /\ Some({"releaseLegacy"}) \in {0, 1}
        /\ Some({"releaseLegacy"})' \in {0, 1}
    BY <1>0, <1>1 DEF Some
  <2>3. compact \in Nat /\ legacy \in Nat /\ revived \in Nat /\ Cardinality(Charged) \in Nat
    BY <1>0, ChargedSize, NoneIsNoRow DEF Objects
  <2> QED
    BY <2>0, <2>1, <2>2, <2>3 DEF Ledgers
<1> QED
  BY <1>0, <1>1, LedgerStep DEF Objects

LEMMA LockStep ==
  ASSUME LifeInv, NEW c \in Callers, NEW p, NEW q, Lock(c, p, q),
         \/ p = "delete" /\ q = "locked"
         \/ p = "restore" /\ q = "again"
         \/ p = "archive" /\ q = "pending"
  PROVE  LifeInv'
<1>0. Objects /\ Copies
  BY DEF LifeInv
<1>2. /\ call[c].pc = p /\ appLock' = c /\ appLock = None /\ Next1(c, q)
      /\ UNCHANGED <<catalog, source, archive, completed, compact, legacy, slipped, revived>>
  BY DEF Lock, In, ghosts
<1>3. /\ p \in {"delete", "restore", "archive"} /\ q \in {"locked", "again", "pending"}
      /\ (p = "delete" <=> q = "locked")
      /\ (p = "archive" <=> q = "pending")
  OBVIOUS
<1>4. AtWork(c) /\ q \notin {"new", "over"} /\ (call[c].pc \in Archivers <=> q \in Archivers)
  BY <1>2, <1>3 DEF AtWork, Archivers, Archiving
<1>5. /\ Moves(c, q) /\ Row(c)' = Row(c) /\ (q \in Archivers => call'[c].name = call[c].name)
      /\ IF q \in Archivers
         THEN call'[c] = [pc |-> q, key |-> Key(c), row |-> Row(c), name |-> call[c].name, alone |-> call[c].alone]
         ELSE call'[c] = [pc |-> q, key |-> Key(c), row |-> Row(c)]
  BY <1>0, <1>2, <1>4, GoesOn
<1>6. CallOK(call[c])
  BY <1>0 DEF Objects
<1>7. CallOK(call'[c])
  BY <1>2, <1>3, <1>5, <1>6 DEF CallOK, Key, Row, Moves, Completing, Deleting, Restoring, Archivers, Archiving
<1>8. Placed(c)'
  BY <1>0, <1>2, <1>3, <1>5 DEF Placed, Objects, Key, Moves, Completing
<1>9. Fits(c)
  BY <1>2, <1>3, <1>5 DEF Fits, Moves, Key, Archiving, Brief, Checked
<1> QED
  BY <1>0, <1>2, <1>3, <1>5, <1>7, <1>8, <1>9, QuietStep DEF Objects, Moves, Debt

-----------------------------------------------------------------------------
(* A call that ends, or goes on, and changes nothing else.                 *)
LEMMA QuietEnds ==
  ASSUME LifeInv, NEW c \in Callers, Over(c),
         UNCHANGED <<catalog, source, archive, completed, compact, legacy, revived>>,
         slipped' \in BOOLEAN, ~slipped' => ~slipped /\ call[c].pc # "releaseLegacy"
  PROVE  LifeInv'
<1>0. Objects /\ Copies
  BY DEF LifeInv
<1>1. /\ Alone(c) /\ call'[c].pc = "over" /\ CallOK(call'[c])
      /\ appLock' \in Callers \cup {None} /\ appLock' = IF appLock = c THEN None ELSE appLock
  BY <1>0, Ends
<1>2. Placed(c)' /\ Fits(c)
  BY <1>1 DEF Placed, Fits, Archiving, Brief, Checked
<1> QED
  BY <1>1, <1>2, QuietStep DEF Holding, Debt

(* A quiet step in which a call goes on with its key.                      *)
LEMMA QuietOn ==
  ASSUME LifeInv, NEW c \in Callers, AtWork(c), NEW p, Next1(c, p), UNCHANGED appLock,
         \/ p \in Deleting \ {"hide"} /\ call[c].pc \in Deleting
         \/ p \in Restoring \ {"return"} /\ call[c].pc \in Restoring
         \/ p \in Archiving /\ call[c].pc \in Archiving,
         UNCHANGED <<catalog, source, archive, completed, compact, legacy, revived>>,
         slipped' \in BOOLEAN, ~slipped' => ~slipped /\ call[c].pc # "releaseLegacy",
         ~slipped' => (p \in Checked => call[c].pc \in Checked \/ ~Dead(Key(c))),
         p \in Holding => call[c].pc \in Holding,
         p \in {"remove", "archived"} => HasCopy(Key(c)),
         p \in Debt => call[c].pc \in Debt, p # "chargeLegacy"
  PROVE  LifeInv'
<1>0. Objects /\ Copies
  BY DEF LifeInv
<1>1. /\ p \notin {"new", "over"} /\ (call[c].pc \in Archivers <=> p \in Archivers)
      /\ p \in Deleting \cup Restoring \cup Archivers /\ p \notin Completing \cup {"hide", "return"}
      /\ call[c].pc \notin Completing /\ (p \in Archiving => call[c].pc \in Archiving)
      /\ (p \in Brief => call[c].pc \in Brief)
  BY DEF Deleting, Restoring, Archivers, Archiving, Completing, Brief
<1>2. /\ Moves(c, p) /\ Row(c)' = Row(c) /\ (p \in Archivers => call'[c].name = call[c].name)
      /\ IF p \in Archivers
         THEN call'[c] = [pc |-> p, key |-> Key(c), row |-> Row(c), name |-> call[c].name, alone |-> call[c].alone]
         ELSE call'[c] = [pc |-> p, key |-> Key(c), row |-> Row(c)]
  BY <1>0, <1>1, GoesOn
<1>3. CallOK(call[c])
  BY <1>0 DEF Objects
<1>4. CallOK(call'[c])
  BY <1>1, <1>2, <1>3 DEF CallOK, Key, Row, Moves, AtWork, Archivers
<1>5. Placed(c)'
  BY <1>0, <1>1, <1>2 DEF Placed, Objects, Key, Moves, Completing, AtWork
<1>6. ~slipped' => Fits(c)
  BY <1>1, <1>2 DEF Fits, Moves, Key, Completing
<1>7. ~slipped' => (p \in Holding => appLock' = c)
  BY DEF LifeInv, Sound, Held
<1> QED
  BY <1>0, <1>1, <1>2, <1>4, <1>5, <1>6, <1>7, QuietStep DEF Objects, Moves, Key

-----------------------------------------------------------------------------
(* The steps of a call that change no object and no ledger.                *)
LEMMA OpenStep ==
  ASSUME LifeInv, NEW c \in Callers, NEW k \in Keys, Delete(c, k) \/ Restore(c, k)
  PROVE  LifeInv'
<1>0. Objects /\ Copies
  BY DEF LifeInv
<1>1. PICK p \in {"delete", "restore"} :
        /\ Open(c, p, k) /\ catalog[k] # None
        /\ p = "delete" => catalog[k].state = "active"
        /\ UNCHANGED <<catalog, source, archive, completed, compact, legacy, appLock, slipped, revived>>
  BY DEF Delete, Restore, Restorable, Active, ghosts
<1>2. Alone(c) /\ call[c].pc = "new" /\ call'[c] = [pc |-> p, key |-> k, row |-> catalog[k]]
  BY <1>0, <1>1, Opens
<1>3. catalog[k] \in Rows /\ k \in completed
  BY <1>0, <1>1 DEF Objects
<1>4. CallOK(call'[c])
  BY <1>2, <1>3 DEF CallOK, Completing, Deleting, Restoring, Archivers, Archiving
<1>5. Placed(c)'
  BY <1>1, <1>2, <1>3 DEF Placed, Key, Completing
<1>6. Fits(c)
  BY <1>1, <1>2 DEF Fits, Archiving, Brief, Checked, Dead, Gone
<1> QED
  BY <1>0, <1>1, <1>2, <1>4, <1>5, <1>6, QuietStep DEF Objects, Holding, Debt

LEMMA ReadRowStep ==
  ASSUME LifeInv, NEW c \in Callers, ReadRow(c)
  PROVE  LifeInv'
<1>0. Objects /\ Copies
  BY DEF LifeInv
<1> DEFINE r == catalog[Key(c)]
<1>1. /\ call[c].pc = "row" /\ With(c, "upsert", r)
      /\ UNCHANGED <<catalog, source, archive, completed, compact, legacy, appLock, slipped, revived>>
  BY DEF ReadRow, In, ghosts, With
<1>2. CallOK(call[c]) /\ AtWork(c) /\ Key(c) \in Keys /\ r \in Rows \cup {None}
  BY <1>0, <1>1 DEF Objects, AtWork, CallOK, Key
<1> HIDE DEF r
<1>3. Moves(c, "upsert") /\ Row(c)' = r /\ call'[c] = [pc |-> "upsert", key |-> Key(c), row |-> r]
  BY <1>0, <1>1, <1>2, GoesOnWith DEF Archivers, Archiving
<1>4. CallOK(call'[c])
  BY <1>2, <1>3 DEF CallOK, Key, Completing, Archivers, Archiving
<1>5. Placed(c)'
  BY <1>0, <1>1, <1>3 DEF Placed, Objects, Key, Row, Completing, r
<1>6. Fits(c)
  BY <1>1, <1>3 DEF Fits, Key, Archiving, Brief, Checked
<1> QED
  BY <1>0, <1>1, <1>3, <1>4, <1>5, <1>6, QuietStep DEF Objects, Moves, Holding, Debt

LEMMA DeleteFindStep ==
  ASSUME LifeInv, NEW c \in Callers, DeleteFind(c)
  PROVE  LifeInv'
<1>0. Objects /\ Copies
  BY DEF LifeInv
<1> DEFINE row == catalog[Key(c)]
           g == Row(c).gen + 1
           r == [row EXCEPT !.state = "soft_deleted", !.gen = g, !.over = FALSE, !.waiting = FALSE]
<1>1. /\ call[c].pc = "locked"
      /\ UNCHANGED <<catalog, source, archive, completed, compact, legacy, slipped, revived>>
  BY DEF DeleteFind, In, ghosts
<1>2. CASE row.state # "active"
  BY <1>0, <1>1, <1>2, QuietEnds DEF DeleteFind, Objects
<1>3. CASE row.state = "active"
  <2>1. With(c, "hide", r) /\ UNCHANGED appLock
    BY <1>3 DEF DeleteFind, With
  <2>2. CallOK(call[c]) /\ AtWork(c) /\ Key(c) \in Keys /\ row \in Rows /\ Row(c) \in Rows /\ row # None
    BY <1>0, <1>1 DEF Objects, AtWork, CallOK, Key, Row, Completing
  <2>a. g \in Nat
    BY <2>2 DEF Rows
  <2> HIDE DEF g
  <2>3. r \in Rows /\ r.state = "soft_deleted" /\ ~r.over
    BY <2>2, <2>a DEF Rows, Gone
  <2>4. Key(c) \in Active
    BY <1>3, <2>2 DEF Active
  <2> HIDE DEF r, row
  <2>5. Moves(c, "hide") /\ Row(c)' = r /\ call'[c] = [pc |-> "hide", key |-> Key(c), row |-> r]
    BY <1>0, <1>1, <2>1, <2>2, GoesOnWith DEF Archivers, Archiving
  <2>6. CallOK(call'[c])
    BY <2>2, <2>3, <2>5 DEF CallOK, Key, Completing, Deleting, Archivers, Archiving
  <2>7. Placed(c)'
    BY <1>0, <1>1, <2>5 DEF Placed, Objects, Key, Row, Completing
  <2>8. Fits(c)
    BY <1>1, <2>4, <2>5 DEF Fits, Key, Archiving, Brief, Checked
  <2>9. ~slipped' => appLock' = c
    BY <1>1, <2>1 DEF LifeInv, Sound, Held, Holding
  <2> QED
    BY <1>0, <1>1, <2>1, <2>5, <2>6, <2>7, <2>8, <2>9, QuietStep DEF Objects, Moves, Debt
<1> QED
  BY <1>2, <1>3

LEMMA RestoreCheckStep ==
  ASSUME LifeInv, NEW c \in Callers, RestoreCheck(c)
  PROVE  LifeInv'
<1>0. Objects /\ Copies
  BY DEF LifeInv
<1>1. /\ call[c].pc = "again"
      /\ UNCHANGED <<catalog, source, archive, completed, compact, legacy, slipped, revived>>
  BY DEF RestoreCheck, In, ghosts
<1>2. CASE Over(c)
  BY <1>0, <1>1, <1>2, QuietEnds DEF Objects
<1>3. CASE Restorable(catalog[Key(c)]) /\ Next1(c, "charge") /\ UNCHANGED appLock
  <2>1. ~Dead(Key(c))
    BY <1>3 DEF Restorable, Dead
  <2> QED
    BY <1>0, <1>1, <1>3, <2>1, QuietOn DEF AtWork, Objects, Restoring, Holding, Debt
<1> QED
  BY <1>2, <1>3 DEF RestoreCheck

LEMMA RestoreFindStep ==
  ASSUME LifeInv, NEW c \in Callers, RestoreFind(c)
  PROVE  LifeInv'
<1>0. Objects /\ Copies
  BY DEF LifeInv
<1> DEFINE row == catalog[Key(c)]
           r == [row EXCEPT !.state = "active", !.over = FALSE, !.waiting = FALSE]
<1>1. /\ call[c].pc = "find"
      /\ UNCHANGED <<catalog, source, archive, completed, compact, legacy, appLock, slipped, revived>>
  BY DEF RestoreFind, In, ghosts
<1>2. CASE row.state \notin Gone
  <2>1. Next1(c, "takeBack")
    BY <1>2 DEF RestoreFind, Next1
  <2> QED
    BY <1>0, <1>1, <2>1, QuietOn DEF AtWork, Objects, Restoring, Holding, Debt, Checked
<1>3. CASE row.state \in Gone
  <2>1. With(c, "return", r)
    BY <1>3 DEF RestoreFind, With
  <2>2. CallOK(call[c]) /\ AtWork(c) /\ Key(c) \in Keys /\ row \in Rows
    BY <1>0, <1>1 DEF Objects, AtWork, CallOK, Key, Row, Completing
  <2>3. r \in Rows /\ r.state = "active" /\ ~r.over
    BY <2>2 DEF Rows
  <2> HIDE DEF r, row
  <2>5. Moves(c, "return") /\ Row(c)' = r /\ call'[c] = [pc |-> "return", key |-> Key(c), row |-> r]
    BY <1>0, <1>1, <2>1, <2>2, GoesOnWith DEF Archivers, Archiving
  <2>6. CallOK(call'[c])
    BY <2>2, <2>3, <2>5 DEF CallOK, Key, Completing, Restoring, Archivers, Archiving
  <2>7. Placed(c)'
    BY <1>0, <1>1, <2>5 DEF Placed, Objects, Key, Row, Completing
  <2>8. Fits(c)
    BY <1>1, <2>5 DEF Fits, Key, Archiving, Brief, Checked
  <2>9. ~slipped' => appLock' = c
    BY <1>1 DEF LifeInv, Sound, Held, Holding
  <2> QED
    BY <1>0, <1>1, <2>1, <2>5, <2>6, <2>7, <2>8, <2>9, QuietStep DEF Objects, Moves, Debt
<1> QED
  BY <1>2, <1>3

-----------------------------------------------------------------------------
(* The ledgers while one call holds the lock.                              *)
LEMMA Sums ==
  ASSUME Objects, Held, Ledgers, NEW c \in Callers, Alone(c), call[c].pc \in Holding
  PROVE  LET C == Cardinality(Charged)
             p == call[c].pc
             q == call'[c].pc
         IN /\ C \in Nat /\ compact \in Nat /\ legacy \in Nat /\ revived \in Nat
            /\ C + (IF p \in Debt THEN 1 ELSE 0) <= compact + revived
            /\ legacy + (IF p = "chargeLegacy" THEN 1 ELSE 0) <= compact + (IF p = "releaseLegacy" THEN 1 ELSE 0)
            /\ Some(Debt)' = IF q \in Debt THEN 1 ELSE 0
            /\ Some({"chargeLegacy"})' = IF q = "chargeLegacy" THEN 1 ELSE 0
            /\ Some({"releaseLegacy"})' = IF q = "releaseLegacy" THEN 1 ELSE 0
<1>1. Debt \subseteq Holding /\ {"chargeLegacy"} \subseteq Holding /\ {"releaseLegacy"} \subseteq Holding
  BY DEF Debt, Holding
<1>2. /\ Some(Debt) = IF call[c].pc \in Debt THEN 1 ELSE 0
      /\ Some(Debt)' = IF call'[c].pc \in Debt THEN 1 ELSE 0
  BY <1>1, SomeTurn
<1>3. /\ Some({"chargeLegacy"}) = IF call[c].pc \in {"chargeLegacy"} THEN 1 ELSE 0
      /\ Some({"chargeLegacy"})' = IF call'[c].pc \in {"chargeLegacy"} THEN 1 ELSE 0
  BY <1>1, SomeTurn
<1>4. /\ Some({"releaseLegacy"}) = IF call[c].pc \in {"releaseLegacy"} THEN 1 ELSE 0
      /\ Some({"releaseLegacy"})' = IF call'[c].pc \in {"releaseLegacy"} THEN 1 ELSE 0
  BY <1>1, SomeTurn
<1>5. Cardinality(Charged) \in Nat /\ compact \in Nat /\ legacy \in Nat /\ revived \in Nat
  BY ChargedSize, NoneIsNoRow DEF Objects
<1> QED
  BY <1>2, <1>3, <1>4, <1>5 DEF Ledgers

LEMMA LessOK == ASSUME NEW n \in 0..Room PROVE Less(n) \in 0..Room /\ Less(n) = IF n = 0 THEN 0 ELSE n - 1
BY NoneIsNoRow DEF Less

(* A step of the lock's holder that changes the ledgers and goes on.       *)
LEMMA CountsOn ==
  ASSUME LifeInv, NEW c \in Callers, NEW p, Next1(c, p), UNCHANGED appLock,
         \/ p \in {"releaseLegacy"} /\ call[c].pc = "release"
         \/ p \in {"chargeLegacy"} /\ call[c].pc = "charge"
         \/ p \in {"find"} /\ call[c].pc = "chargeLegacy",
         UNCHANGED <<catalog, source, archive, completed, revived, slipped>>,
         compact' \in 0..Room, legacy' \in 0..Room,
         ~slipped => (Alone(c) /\ call'[c].pc = p => Ledgers')
  PROVE  LifeInv'
<1>0. Objects /\ Copies
  BY DEF LifeInv
<1>1. /\ p \notin {"new", "over"} /\ p \notin Archivers /\ call[c].pc \notin Archivers /\ AtWork(c)
      /\ p \in Deleting \cup Restoring /\ p \notin Completing \cup {"hide", "return", "remove", "archived"}
      /\ call[c].pc \notin Completing /\ p \notin Archiving
      /\ (p \in Brief => call[c].pc \in Brief) /\ (p \in Checked => call[c].pc \in Checked)
      /\ call[c].pc \in Holding
  BY DEF Deleting, Restoring, Archivers, Archiving, Completing, Brief, Checked, Holding, AtWork
<1>2. /\ Moves(c, p) /\ Row(c)' = Row(c) /\ call'[c] = [pc |-> p, key |-> Key(c), row |-> Row(c)]
  BY <1>0, <1>1, GoesOn
<1>3. CallOK(call[c])
  BY <1>0 DEF Objects
<1>4. CallOK(call'[c])
  BY <1>1, <1>2, <1>3 DEF CallOK, Key, Row, AtWork
<1>5. Placed(c)'
  BY <1>0, <1>1, <1>2 DEF Placed, Objects, Key, Moves, Completing, AtWork
<1>6. Fits(c)
  BY <1>1, <1>2 DEF Fits, Moves, Key, Completing
<1>7. ~slipped' => appLock' = c
  BY <1>1 DEF LifeInv, Sound, Held
<1>8. ~slipped' => Ledgers'
  BY <1>2 DEF Moves
<1> QED
  BY <1>0, <1>1, <1>2, <1>4, <1>5, <1>6, <1>7, <1>8, LedgerStep DEF Objects, Moves, Key

(* ... and ends.                                                           *)
LEMMA CountsEnds ==
  ASSUME LifeInv, NEW c \in Callers, Over(c), UNCHANGED <<catalog, source, archive, completed, revived, slipped>>,
         compact' \in 0..Room, legacy' \in 0..Room,
         ~slipped => (Alone(c) /\ call'[c].pc = "over" => Ledgers')
  PROVE  LifeInv'
<1>0. Objects /\ Copies
  BY DEF LifeInv
<1>1. /\ Alone(c) /\ call'[c].pc = "over" /\ CallOK(call'[c])
      /\ appLock' \in Callers \cup {None} /\ appLock' = IF appLock = c THEN None ELSE appLock
  BY <1>0, Ends
<1>2. Placed(c)' /\ Fits(c)
  BY <1>1 DEF Placed, Fits, Archiving, Brief, Checked
<1> QED
  BY <1>0, <1>1, <1>2, LedgerStep DEF Holding, Objects

LEMMA ReleaseCompactStep ==
  ASSUME LifeInv, NEW c \in Callers, ReleaseCompact(c)
  PROVE  LifeInv'
<1>0. Objects /\ Copies
  BY DEF LifeInv
<1>1. /\ call[c].pc = "release"
      /\ UNCHANGED <<catalog, source, archive, completed, legacy, appLock, slipped, revived>>
  BY DEF ReleaseCompact, In, ghosts
<1>2. CASE compact' = Less(compact) /\ Next1(c, "releaseLegacy")
  <2>1. compact \in 0..Room /\ legacy' \in 0..Room
    BY <1>0, <1>1 DEF Objects
  <2>2. compact' \in 0..Room /\ compact' = IF compact = 0 THEN 0 ELSE compact - 1
    BY <1>2, <2>1, LessOK
  <2>3. ASSUME ~slipped, Alone(c), call'[c].pc = "releaseLegacy" PROVE Ledgers'
    <3>1. Held /\ Ledgers
      BY <2>3 DEF LifeInv, Sound
    <3>2. Charged' = Charged
      BY <1>1 DEF Charged
    <3> QED
      BY <1>0, <1>1, <2>2, <2>3, <3>1, <3>2, Sums DEF Ledgers, Debt, Holding
  <2> QED
    BY <1>1, <1>2, <2>1, <2>2, <2>3, CountsOn
<1>3. CASE UNCHANGED compact /\ Next1(c, "show")
  BY <1>0, <1>1, <1>3, QuietOn DEF AtWork, Objects, Deleting, Holding, Debt, Checked
<1> QED
  BY <1>2, <1>3 DEF ReleaseCompact

LEMMA ReleaseLegacyStep ==
  ASSUME LifeInv, NEW c \in Callers, ReleaseLegacy(c)
  PROVE  LifeInv'
<1>0. Objects /\ Copies
  BY DEF LifeInv
<1>1. /\ call[c].pc = "releaseLegacy"
      /\ UNCHANGED <<catalog, source, archive, completed, compact, revived>>
  BY DEF ReleaseLegacy, In
<1>2. CASE legacy' = Less(legacy) /\ Over(c) /\ UNCHANGED slipped
  <2>1. legacy \in 0..Room /\ compact' \in 0..Room
    BY <1>0, <1>1 DEF Objects
  <2>2. legacy' \in 0..Room /\ legacy' = IF legacy = 0 THEN 0 ELSE legacy - 1
    BY <1>2, <2>1, LessOK
  <2>3. ASSUME ~slipped, Alone(c), call'[c].pc = "over" PROVE Ledgers'
    <3>1. Held /\ Ledgers
      BY <2>3 DEF LifeInv, Sound
    <3>2. Charged' = Charged
      BY <1>1 DEF Charged
    <3> QED
      BY <1>0, <1>1, <2>2, <2>3, <3>1, <3>2, Sums DEF Ledgers, Debt, Holding
  <2> QED
    BY <1>1, <1>2, <2>1, <2>2, <2>3, CountsEnds
<1>3. CASE UNCHANGED <<legacy, appLock>> /\ slipped' = TRUE /\ Next1(c, "show")
  <2>2. /\ AtWork(c) /\ "show" \notin {"new", "over"} /\ (call[c].pc \in Archivers <=> "show" \in Archivers)
        /\ "show" \notin Archivers
    BY <1>1 DEF AtWork, Archivers, Archiving
  <2>3. Moves(c, "show") /\ call'[c] = [pc |-> "show", key |-> Key(c), row |-> Row(c)]
    BY <1>0, <1>3, <2>2, GoesOn
  <2>4. CallOK(call[c])
    BY <1>0 DEF Objects
  <2>5. CallOK(call'[c])
    BY <1>1, <2>3, <2>4 DEF CallOK, Key, Row, Completing, Deleting, Archivers, Archiving
  <2>6. Placed(c)'
    BY <1>0, <1>1, <2>3 DEF Placed, Objects, Key, Completing
  <2> QED
    BY <1>0, <1>1, <1>3, <2>3, <2>5, <2>6, LedgerStep DEF Objects, Moves
<1> QED
  BY <1>2, <1>3 DEF ReleaseLegacy

LEMMA ChargeCompactStep ==
  ASSUME LifeInv, NEW c \in Callers, ChargeCompact(c)
  PROVE  LifeInv'
<1>0. Objects /\ Copies
  BY DEF LifeInv
<1>1. /\ call[c].pc = "charge"
      /\ UNCHANGED <<catalog, source, archive, completed, legacy, slipped, revived>>
  BY DEF ChargeCompact, In, ghosts
<1>2. CASE compact < Room /\ compact' = compact + 1 /\ Next1(c, "chargeLegacy") /\ UNCHANGED appLock
  <2>1. compact \in 0..Room /\ legacy' \in 0..Room /\ compact' \in 0..Room
    BY <1>0, <1>1, <1>2, NoneIsNoRow DEF Objects
  <2>3. ASSUME ~slipped, Alone(c), call'[c].pc = "chargeLegacy" PROVE Ledgers'
    <3>1. Held /\ Ledgers
      BY <2>3 DEF LifeInv, Sound
    <3>2. Charged' = Charged
      BY <1>1 DEF Charged
    <3> QED
      BY <1>0, <1>1, <1>2, <2>3, <3>1, <3>2, Sums DEF Ledgers, Debt, Holding
  <2> QED
    BY <1>1, <1>2, <2>1, <2>3, CountsOn
<1>3. CASE UNCHANGED compact /\ Over(c)
  BY <1>0, <1>1, <1>3, QuietEnds DEF Objects
<1> QED
  BY <1>2, <1>3 DEF ChargeCompact

LEMMA ChargeLegacyStep ==
  ASSUME LifeInv, NEW c \in Callers, ChargeLegacy(c)
  PROVE  LifeInv'
<1>0. Objects /\ Copies
  BY DEF LifeInv
<1>1. /\ call[c].pc = "chargeLegacy"
      /\ UNCHANGED <<catalog, source, archive, completed, compact, revived>>
  BY DEF ChargeLegacy, In
<1>2. CASE legacy < Room /\ legacy' = legacy + 1 /\ Next1(c, "find") /\ UNCHANGED <<appLock, slipped>>
  <2>1. legacy \in 0..Room /\ legacy' \in 0..Room /\ compact' \in 0..Room
    BY <1>0, <1>1, <1>2, NoneIsNoRow DEF Objects
  <2>3. ASSUME ~slipped, Alone(c), call'[c].pc = "find" PROVE Ledgers'
    <3>1. Held /\ Ledgers
      BY <2>3 DEF LifeInv, Sound
    <3>2. Charged' = Charged
      BY <1>1 DEF Charged
    <3> QED
      BY <1>0, <1>1, <1>2, <2>3, <3>1, <3>2, Sums DEF Ledgers, Debt, Holding
  <2> QED
    BY <1>1, <1>2, <2>1, <2>3, CountsOn
<1>3. CASE UNCHANGED legacy /\ slipped' = TRUE /\ Over(c)
  BY <1>0, <1>1, <1>3, QuietEnds DEF Objects
<1> QED
  BY <1>2, <1>3 DEF ChargeLegacy

LEMMA TakeBackStep ==
  ASSUME LifeInv, NEW c \in Callers, TakeBack(c)
  PROVE  LifeInv'
<1>0. Objects /\ Copies
  BY DEF LifeInv
<1>1. /\ call[c].pc = "takeBack" /\ compact' = Less(compact) /\ legacy' = Less(legacy) /\ Over(c)
      /\ UNCHANGED <<catalog, source, archive, completed, slipped, revived>>
  BY DEF TakeBack, In, ghosts
<1>2. compact \in 0..Room /\ legacy \in 0..Room
  BY <1>0 DEF Objects
<1>3. /\ compact' \in 0..Room /\ compact' = IF compact = 0 THEN 0 ELSE compact - 1
      /\ legacy' \in 0..Room /\ legacy' = IF legacy = 0 THEN 0 ELSE legacy - 1
  BY <1>1, <1>2, LessOK
<1>4. ASSUME ~slipped, Alone(c), call'[c].pc = "over" PROVE Ledgers'
  <2>1. Held /\ Ledgers
    BY <1>4 DEF LifeInv, Sound
  <2>2. Charged' = Charged
    BY <1>1 DEF Charged
  <2>3. /\ Cardinality(Charged) \in Nat /\ compact \in Nat /\ legacy \in Nat /\ revived \in Nat
        /\ Cardinality(Charged) + 1 <= compact + revived /\ legacy <= compact
        /\ Some(Debt)' = 0 /\ Some({"chargeLegacy"})' = 0 /\ Some({"releaseLegacy"})' = 0
    BY <1>0, <1>1, <1>4, <2>1, Sums DEF Debt, Holding
  <2>4. Cardinality(Charged') <= compact' + revived' /\ legacy' <= compact'
    BY <1>1, <1>3, <2>2, <2>3
  <2>5. Cardinality(Charged') \in Nat /\ compact' \in Nat /\ legacy' \in Nat /\ revived' \in Nat
    BY <1>1, <1>3, <2>2, <2>3, NoneIsNoRow
  <2>6. (Cardinality(Charged) + Some(Debt) <= compact + revived)'
    BY <2>3, <2>4, <2>5
  <2>7. (legacy + Some({"chargeLegacy"}) <= compact + Some({"releaseLegacy"}))'
    <3>1. ASSUME NEW x, NEW y, NEW a \in Nat, NEW b \in Nat, x = 0, y = 0, a <= b PROVE a + x <= b + y
      BY <3>1
    <3> QED
      BY <2>3, <2>4, <2>5, <3>1
  <2> QED
    BY <2>6, <2>7 DEF Ledgers
<1> QED
  BY <1>1, <1>3, <1>4, CountsEnds

-----------------------------------------------------------------------------
(* A call saves a row that was not over.                                   *)
LEMMA SaveStep ==
  ASSUME LifeInv, NEW c \in Callers, Alone(c), CallOK(call'[c]), Placed(c)', NEW r \in Rows,
         SaveRow(c, r), ~r.over, r.state # "archived", Key(c) \in completed,
         UNCHANGED <<source, archive, completed, compact, legacy, slipped>>, revived' \in Nat,
         call[c].pc \in Brief \cup Checked, appLock' \in Callers \cup {None},
         appLock' # appLock => appLock \in {c, None}, call'[c].pc \in Holding => UNCHANGED appLock,
         \/ call'[c].pc = "over"
         \/ call[c].pc = "hide" /\ call'[c].pc = "release" /\ call'[c].key = Key(c),
         r.state = "active" \/ call[c].pc \in Holding,
         ~slipped => Ledgers'
  PROVE  LifeInv'
<1>0. Objects /\ Copies /\ (\A e \in Callers : e # c => call'[e] = call[e]) /\ Key(c) \in Keys
      /\ catalog = [k \in Keys |-> catalog[k]]
  BY DEF LifeInv, Alone, Objects
<1>1. /\ catalog' = [k \in Keys |-> catalog'[k]] /\ catalog'[Key(c)] = r
      /\ \A k \in Keys : k # Key(c) => catalog'[k] = catalog[k]
  BY <1>0 DEF SaveRow
<1>2. Objects'
  <2>1. Typed' /\ RowsStay
    BY <1>0, <1>1 DEF Objects, Typed, RowsStay
  <2> QED
    BY <1>0, <2>1, ObjectsTurn
<1>3. Copies'
  BY <1>0, <1>1 DEF Copies, HasCopy, Key
<1>4. ASSUME ~slipped PROVE Sound'
  <2>0. Held /\ Calm
    BY <1>4 DEF LifeInv, Sound
  <2>1. Held'
    <3>1. call'[c].pc \in Holding => call[c].pc \in Holding
      BY DEF Holding
    <3> QED
      BY <2>0, <3>1, HeldTurn DEF Held
  <2>2. \A e \in Callers \ {c} : call[e].pc = "hide" /\ Key(e) = Key(c) => r.state = "active"
    BY <2>0, NoneIsNoRow DEF Held, Holding
  <2>3. Calm'
    BY <1>0, <2>0, <2>2, SaveTurn
  <2> QED
    BY <1>4, <2>1, <2>3 DEF Sound
<1> QED
  BY <1>2, <1>3, <1>4 DEF LifeInv

LEMMA HideStep ==
  ASSUME LifeInv, NEW c \in Callers, Hide(c)
  PROVE  LifeInv'
<1> DEFINE r == Row(c)
<1>0. Objects /\ Copies
  BY DEF LifeInv
<1>1. /\ call[c].pc = "hide" /\ SaveRow(c, r) /\ Next1(c, "release")
      /\ UNCHANGED <<source, archive, completed, compact, legacy, appLock, slipped, revived>>
  BY DEF Hide, In, ghosts
<1>2. CallOK(call[c])
  BY <1>0 DEF Objects
<1>3. /\ r \in Rows /\ r.state = "soft_deleted" /\ ~r.over /\ Key(c) \in Keys
  BY <1>1, <1>2 DEF CallOK, Completing, Key, Row
<1>4. Key(c) \in completed
  BY <1>0, <1>1 DEF Objects, Completing
<1>5. AtWork(c) /\ call[c].pc \notin Archivers /\ "release" \notin Archivers /\ call[c].pc \in Brief /\ call[c].pc \in Holding
  BY <1>1 DEF AtWork, Archivers, Archiving, Brief, Holding
<1>6. Moves(c, "release") /\ call'[c] = [pc |-> "release", key |-> Key(c), row |-> r]
  BY <1>0, <1>1, <1>5, GoesOn
<1>7. CallOK(call'[c])
  BY <1>3, <1>6 DEF CallOK, Completing, Deleting, Archivers, Archiving
<1>8. catalog'[Key(c)] = r /\ \A k \in Keys : k # Key(c) => catalog'[k] = catalog[k]
  BY <1>0, <1>1, <1>3 DEF Objects, SaveRow
<1>9. Placed(c)'
  BY <1>1, <1>3, <1>4, <1>6, <1>8, NoneIsNoRow DEF Placed, Key, Completing
<1>10. ASSUME ~slipped PROVE Ledgers'
  <2>1. Held /\ Ledgers /\ Key(c) \in Active
    BY <1>1, <1>10 DEF LifeInv, Sound, Calm, Visible
  <2>2. Key(c) \in Charged
    BY <1>4, <2>1 DEF Charged, Active
  <2>3. Charged' \subseteq Charged \ {Key(c)}
    BY <1>0, <1>1, <1>3, <1>8, NoneIsNoRow DEF Charged, Objects
  <2>4. Cardinality(Charged') \in Nat /\ Cardinality(Charged') + 1 <= Cardinality(Charged)
    BY <1>0, <2>2, <2>3, ChargedLoses
  <2> QED
    BY <1>0, <1>1, <1>5, <1>6, <2>1, <2>4, Sums DEF Ledgers, Moves, Debt
<1> QED
  BY <1>0, <1>1, <1>3, <1>4, <1>5, <1>6, <1>7, <1>9, <1>10, SaveStep DEF Objects, Moves

LEMMA ReturnStep ==
  ASSUME LifeInv, NEW c \in Callers, Return(c)
  PROVE  LifeInv'
<1> DEFINE r == Row(c)
<1>0. Objects /\ Copies
  BY DEF LifeInv
<1>1. /\ call[c].pc = "return" /\ SaveRow(c, r) /\ Over(c)
      /\ UNCHANGED <<source, archive, completed, compact, legacy, slipped, revived>>
  BY DEF Return, In, ghosts
<1>2. CallOK(call[c])
  BY <1>0 DEF Objects
<1>3. /\ r \in Rows /\ r.state = "active" /\ ~r.over /\ Key(c) \in Keys
  BY <1>1, <1>2 DEF CallOK, Completing, Key, Row
<1>4. Key(c) \in completed
  BY <1>0, <1>1 DEF Objects, Completing
<1>5. call[c].pc \in Checked /\ call[c].pc \in Holding
  BY <1>1 DEF Checked, Holding
<1>6. /\ Alone(c) /\ call'[c].pc = "over" /\ CallOK(call'[c])
      /\ appLock' \in Callers \cup {None} /\ appLock' = IF appLock = c THEN None ELSE appLock
  BY <1>0, <1>1, Ends
<1>8. \A k \in Keys : k # Key(c) => catalog'[k] = catalog[k]
  BY <1>0, <1>1, <1>3 DEF Objects, SaveRow
<1>9. Placed(c)'
  BY <1>6 DEF Placed
<1>10. ASSUME ~slipped PROVE Ledgers'
  <2>1. Held /\ Ledgers
    BY <1>10 DEF LifeInv, Sound
  <2>3. Charged' \subseteq Charged \cup {Key(c)}
    BY <1>0, <1>1, <1>8 DEF Charged, Objects
  <2>4. Cardinality(Charged') \in Nat /\ Cardinality(Charged') <= Cardinality(Charged) + 1
    BY <1>0, <2>3, ChargedGains
  <2> QED
    BY <1>0, <1>1, <1>5, <1>6, <2>1, <2>4, Sums DEF Ledgers, Debt
<1> QED
  BY <1>0, <1>1, <1>3, <1>4, <1>5, <1>6, <1>9, <1>10, SaveStep DEF Objects, Holding

LEMMA ShowStep ==
  ASSUME LifeInv, NEW c \in Callers, Show(c)
  PROVE  LifeInv'
<1> DEFINE row == catalog[Key(c)]
           r == NewRow(row.gen)
<1>0. Objects /\ Copies
  BY DEF LifeInv
<1>1. /\ call[c].pc = "show" /\ Over(c)
      /\ UNCHANGED <<source, archive, completed, compact, legacy, slipped, revived>>
      /\ catalog' = catalog \/ SaveRow(c, r)
  BY DEF Show, In, ghosts, SaveRow
<1>2. CASE catalog' = catalog
  BY <1>0, <1>1, <1>2, QuietEnds DEF Objects
<1>3. CASE SaveRow(c, r)
  <2>2. CallOK(call[c])
    BY <1>0 DEF Objects
  <2>3. Key(c) \in Keys /\ Key(c) \in completed /\ row # None
    BY <1>0, <1>1, <2>2 DEF CallOK, Key, Objects, Completing
  <2>4. row \in Rows
    BY <1>0, <2>3 DEF Objects
  <2>5. r \in Rows /\ r.state = "active" /\ ~r.over
    BY <2>4 DEF Rows, NewRow
  <2> HIDE DEF r, row
  <2>6. call[c].pc \in Brief /\ call[c].pc \in Holding
    BY <1>1 DEF Brief, Holding
  <2>7. /\ Alone(c) /\ call'[c].pc = "over" /\ CallOK(call'[c])
        /\ appLock' \in Callers \cup {None} /\ appLock' = IF appLock = c THEN None ELSE appLock
    BY <1>0, <1>1, Ends
  <2>8. \A k \in Keys : k # Key(c) => catalog'[k] = catalog[k]
    BY <1>0, <1>3, <2>3 DEF Objects, SaveRow
  <2>9. Placed(c)'
    BY <2>7 DEF Placed
  <2>10. ASSUME ~slipped PROVE Ledgers'
    <3>1. Held /\ Ledgers
      BY <2>10 DEF LifeInv, Sound
    <3>3. Charged' \subseteq Charged \cup {Key(c)}
      BY <1>0, <1>1, <2>8 DEF Charged, Objects
    <3>4. Cardinality(Charged') \in Nat /\ Cardinality(Charged') <= Cardinality(Charged) + 1
      BY <1>0, <3>3, ChargedGains
    <3> QED
      BY <1>0, <1>1, <2>6, <2>7, <3>1, <3>4, Sums DEF Ledgers, Debt
  <2> QED
    BY <1>0, <1>1, <1>3, <2>3, <2>5, <2>6, <2>7, <2>9, <2>10, SaveStep DEF Objects, Holding
<1> QED
  BY <1>1, <1>2, <1>3

LEMMA UpsertStep ==
  ASSUME LifeInv, NEW c \in Callers, Upsert(c)
  PROVE  LifeInv'
<1> DEFINE seen == Row(c)
           row == catalog[Key(c)]
           g == IF seen = None THEN 0 ELSE seen.gen + 1
           r == NewRow(g)
<1>0. Objects /\ Copies
  BY DEF LifeInv
<1>1. /\ call[c].pc = "upsert" /\ Over(c)
      /\ IF seen = None /\ row # None THEN UNCHANGED catalog ELSE SaveRow(c, r)
      /\ revived' = IF seen # None /\ row.state \in Gone THEN revived + 1 ELSE revived
      /\ UNCHANGED <<source, archive, completed, compact, legacy, slipped>>
  BY DEF Upsert, In
<1>2. CallOK(call[c]) /\ revived \in Nat
  BY <1>0 DEF Objects
<1>3. CASE seen = None /\ row # None
  <2>1. UNCHANGED <<catalog, revived>>
    BY <1>1, <1>3
  <2> QED
    BY <1>0, <1>1, <2>1, QuietEnds DEF Objects
<1>4. CASE ~(seen = None /\ row # None)
  <2>3. Key(c) \in Keys /\ Key(c) \in completed /\ seen \in Rows \cup {None} /\ (seen # None => row # None)
    BY <1>0, <1>1, <1>2 DEF CallOK, Key, Row, Objects, Completing
  <2>4. g \in Nat
    BY <2>3 DEF Rows
  <2> HIDE DEF g
  <2>5. r \in Rows /\ r.state = "active" /\ ~r.over
    BY <2>4 DEF Rows, NewRow
  <2>a. SaveRow(c, r) /\ row \in Rows \cup {None}
    BY <1>0, <1>1, <1>4, <2>3 DEF Objects
  <2>6. call[c].pc \in Brief /\ call[c].pc \notin Holding
    BY <1>1 DEF Brief, Holding
  <2>7. /\ Alone(c) /\ call'[c].pc = "over" /\ CallOK(call'[c])
        /\ appLock' \in Callers \cup {None} /\ appLock' = IF appLock = c THEN None ELSE appLock
    BY <1>0, <1>1, Ends
  <2> HIDE DEF r
  <2>8. \A k \in Keys : k # Key(c) => catalog'[k] = catalog[k]
    BY <1>0, <2>a, <2>3 DEF Objects, SaveRow
  <2>9. Placed(c)'
    BY <2>7 DEF Placed
  <2>10. ASSUME ~slipped PROVE Ledgers'
    <3>1. Held /\ Ledgers
      BY <2>10 DEF LifeInv, Sound
    <3>2. /\ Some(Debt)' = Some(Debt) /\ Some({"chargeLegacy"})' = Some({"chargeLegacy"})
          /\ Some({"releaseLegacy"})' = Some({"releaseLegacy"})
      <4>1. call[c].pc \notin Debt /\ call'[c].pc \notin Debt
        BY <1>1, <2>7 DEF Debt
      <4>2. call[c].pc \notin {"chargeLegacy"} /\ call'[c].pc \notin {"chargeLegacy"}
        BY <1>1, <2>7
      <4>3. call[c].pc \notin {"releaseLegacy"} /\ call'[c].pc \notin {"releaseLegacy"}
        BY <1>1, <2>7
      <4> QED
        BY <2>7, <3>1, <4>1, <4>2, <4>3, SomeTurn
    <3>3. Charged' \subseteq Charged \cup {Key(c)}
      BY <1>0, <1>1, <2>8 DEF Charged, Objects
    <3>4. /\ Cardinality(Charged) \in Nat /\ Cardinality(Charged') \in Nat
          /\ Cardinality(Charged') <= Cardinality(Charged) + 1
      BY <1>0, <3>3, ChargedGains, ChargedSize
    <3>5. Cardinality(Charged') + revived <= Cardinality(Charged) + revived'
      <4>1. CASE seen # None /\ row.state \in Gone
        BY <1>1, <1>2, <3>4, <4>1
      <4>2. CASE ~(seen # None /\ row.state \in Gone)
        <5>1. row = None \/ row.state = "active"
          BY <1>4, <2>a, <2>3, <4>2 DEF Rows
        <5>2. Charged' \subseteq Charged
          BY <2>3, <3>3, <5>1 DEF Charged
        <5> QED
          BY <1>0, <1>1, <1>2, <3>4, <4>2, <5>2, ChargedStays
      <4> QED
        BY <4>1, <4>2
    <3>6. compact \in Nat /\ compact' = compact /\ legacy' = legacy /\ Some(Debt) \in {0, 1} /\ revived' \in Nat
      BY <1>0, <1>1, <1>2, SomeType, NoneIsNoRow DEF Objects
    <3> QED
      BY <1>2, <3>1, <3>2, <3>4, <3>5, <3>6 DEF Ledgers
  <2>11. revived' \in Nat
    BY <1>1, <1>2
  <2> QED
    BY <1>0, <1>1, <2>a, <2>3, <2>5, <2>6, <2>7, <2>9, <2>10, <2>11, SaveStep DEF Objects, Holding
<1> QED
  BY <1>3, <1>4

LEMMA CompleteStep ==
  ASSUME LifeInv, NEW c \in Callers, NEW k \in Keys, Complete(c, k)
  PROVE  LifeInv'
<1>0. Objects /\ Copies
  BY DEF LifeInv
<1>1. /\ k \notin completed /\ Open(c, "complete", k) /\ source' = source \cup {k}
      /\ UNCHANGED <<catalog, archive, completed, compact, legacy, appLock, slipped, revived>>
  BY DEF Complete, ghosts
<1>2. Alone(c) /\ call[c].pc = "new" /\ call'[c] = [pc |-> "complete", key |-> k, row |-> catalog[k]]
  BY <1>0, <1>1, Opens
<1>3. catalog[k] \in Rows \cup {None} /\ catalog[k] = None
  BY <1>0, <1>1 DEF Objects
<1>4. CallOK(call'[c])
  BY <1>2, <1>3 DEF CallOK, Completing, Deleting, Restoring, Archivers, Archiving
<1>5. Placed(c)'
  BY <1>2 DEF Placed
<1>6. \A e \in Callers : e # c => call'[e] = call[e]
  BY <1>2 DEF Alone
<1>7. Objects'
  <2>1. Typed' /\ RowsStay
    BY <1>0, <1>1 DEF Objects, Typed, RowsStay
  <2> QED
    BY <1>0, <1>2, <1>4, <1>5, <2>1, ObjectsTurn
<1>8. Copies'
  BY <1>0, <1>1, <1>2, <1>6 DEF Copies, HasCopy, Key
<1>9. ASSUME ~slipped PROVE Sound'
  <2>0. Held /\ Calm /\ Ledgers
    BY <1>9 DEF LifeInv, Sound
  <2>1. Held'
    BY <1>1, <1>2, <2>0, HeldTurn DEF Holding
  <2>2. DoomedDead'
    <3>1. ASSUME NEW j \in Keys, Doomed(j)'
          PROVE  Dead(j)' /\ \A e \in Callers : call'[e].pc \in Brief \cup Checked => Key(e)' # j
      <4>1. Doomed(j)
        BY <1>1, <1>2, <1>6, <3>1 DEF Doomed, Key, Archiving
      <4>2. Dead(j) /\ \A e \in Callers : call[e].pc \in Brief \cup Checked => Key(e) # j
        BY <2>0, <4>1 DEF Calm, DoomedDead
      <4>3. j # k
        BY <1>3, <4>2 DEF Dead
      <4> QED
        BY <1>1, <1>2, <1>6, <4>2, <4>3 DEF Dead, Key
    <3> QED
      BY <3>1 DEF DoomedDead
  <2>3. OverGone'
    BY <1>1, <1>2, <1>3, <1>6, <2>0 DEF Calm, OverGone, Dead, Key
  <2>4. Visible'
    BY <1>1, <1>2, <1>6, <2>0 DEF Calm, Visible, Active, Key
  <2>5. Charged' = Charged
    BY <1>1 DEF Charged
  <2>6. /\ Some(Debt)' = Some(Debt) /\ Some({"chargeLegacy"})' = Some({"chargeLegacy"})
        /\ Some({"releaseLegacy"})' = Some({"releaseLegacy"})
    BY <1>2, <2>0, SomeTurn DEF Debt
  <2>7. Ledgers'
    BY <1>1, <2>0, <2>5, <2>6 DEF Ledgers
  <2> QED
    BY <2>1, <2>2, <2>3, <2>4, <2>7 DEF Sound, Calm
<1> QED
  BY <1>1, <1>7, <1>8, <1>9 DEF LifeInv

LEMMA RecordStep ==
  ASSUME LifeInv, NEW c \in Callers, RecordCompleted(c)
  PROVE  LifeInv'
<1> DEFINE k == Key(c)
<1>0. Objects /\ Copies
  BY DEF LifeInv
<1>1. /\ call[c].pc = "complete" /\ completed' = completed \cup {k} /\ Next1(c, "row")
      /\ IF k \in completed THEN UNCHANGED compact ELSE compact < Room /\ compact' = compact + 1
      /\ UNCHANGED <<catalog, source, archive, legacy, appLock, slipped, revived>>
  BY DEF RecordCompleted, In, ghosts
<1>2. CallOK(call[c]) /\ compact \in 0..Room /\ legacy \in 0..Room /\ revived \in Nat
  BY <1>0 DEF Objects
<1>3. k \in Keys /\ Row(c) \in Rows \cup {None}
  BY <1>1, <1>2 DEF CallOK, Key, Row, Completing
<1>4. AtWork(c) /\ call[c].pc \notin Archivers /\ "row" \notin Archivers
  BY <1>1 DEF AtWork, Archivers, Archiving
<1>5. Moves(c, "row") /\ call'[c] = [pc |-> "row", key |-> k, row |-> Row(c)]
  BY <1>0, <1>1, <1>4, GoesOn
<1>6. CallOK(call'[c])
  BY <1>3, <1>4, <1>5 DEF CallOK, Completing, Archiving
<1>7. Placed(c)'
  BY <1>1, <1>5 DEF Placed, Key, Completing
<1>8. \A e \in Callers : e # c => call'[e] = call[e]
  BY <1>5 DEF Moves, Alone
<1>9. Objects'
  <2>1. Typed' /\ RowsStay
    BY <1>0, <1>1, <1>2, <1>3, NoneIsNoRow DEF Objects, Typed, RowsStay
  <2> QED
    BY <1>0, <1>5, <1>6, <1>7, <2>1, ObjectsTurn DEF Moves
<1>10. Copies'
  BY <1>0, <1>1, <1>5, <1>8 DEF Copies, HasCopy, Key
<1>11. ASSUME ~slipped PROVE Sound'
  <2>0. Held /\ Calm /\ Ledgers
    BY <1>11 DEF LifeInv, Sound
  <2>1. Held'
    BY <1>1, <1>5, <2>0, HeldTurn DEF Holding, Moves
  <2>2. k \in source
    BY <1>1, <2>0 DEF Calm, Visible
  <2>3. \A j \in Keys : Doomed(j)' => Doomed(j)
    BY <1>1, <1>5, <1>8, <2>2 DEF Doomed, Key, Archiving
  <2>4. DoomedDead'
    BY <1>1, <1>5, <1>8, <2>0, <2>3 DEF Calm, DoomedDead, Dead, Key, Brief, Checked
  <2>5. OverGone'
    BY <1>1, <1>5, <1>8, <2>0 DEF Calm, OverGone, Dead, Key, Brief
  <2>6. Visible'
    BY <1>1, <1>5, <1>8, <2>0 DEF Calm, Visible, Active, Key
  <2>7. /\ Some(Debt)' = Some(Debt) /\ Some({"chargeLegacy"})' = Some({"chargeLegacy"})
        /\ Some({"releaseLegacy"})' = Some({"releaseLegacy"})
    BY <1>1, <1>5, <2>0, SomeTurn DEF Debt, Moves
  <2>8. Charged' \subseteq Charged \cup {k} /\ (k \in completed => Charged' \subseteq Charged)
    BY <1>1 DEF Charged
  <2>9. /\ Cardinality(Charged) \in Nat /\ Cardinality(Charged') \in Nat
        /\ Cardinality(Charged') <= Cardinality(Charged) + 1
        /\ k \in completed => Cardinality(Charged') <= Cardinality(Charged)
    BY <1>0, <2>8, ChargedGains, ChargedSize, ChargedStays
  <2>10. Cardinality(Charged') + compact <= Cardinality(Charged) + compact' /\ compact <= compact'
         /\ compact' \in Nat /\ compact \in Nat /\ legacy \in Nat
    BY <1>1, <1>2, <2>9, NoneIsNoRow
  <2>11. Some(Debt) \in {0, 1} /\ Some({"chargeLegacy"}) \in {0, 1} /\ Some({"releaseLegacy"}) \in {0, 1}
    BY SomeType
  <2>12. Ledgers'
    BY <1>1, <1>2, <2>0, <2>7, <2>9, <2>10, <2>11 DEF Ledgers
  <2> QED
    BY <2>1, <2>4, <2>5, <2>6, <2>12 DEF Sound, Calm
<1> QED
  BY <1>1, <1>9, <1>10, <1>11 DEF LifeInv

-----------------------------------------------------------------------------
(* A row is changed by time, or by an archiving.                           *)
LEMMA GoneStep ==
  ASSUME LifeInv, NEW k \in Keys, NEW r \in Rows, catalog' = [catalog EXCEPT ![k] = r], Objects',
         UNCHANGED <<source, archive, completed, compact, legacy, revived, slipped>>,
         \A e \in Callers : call'[e] = call[e] \/ (call[e].pc \notin Holding /\ call'[e].pc \in {"archive", "over"}),
         \A e \in Callers : call[e].pc \in Holding /\ appLock = e => appLock' = e,
         r.state = "archived" => HasCopy(k),
         ~slipped => /\ catalog[k] # None /\ (catalog[k].state = "active" <=> r.state = "active")
                     /\ r.over => r.state \in Gone /\ \A e \in Callers : call[e].pc \in Brief => Key(e) # k
                     /\ Dead(k) => r.over
  PROVE  LifeInv'
<1>0. Objects /\ Copies /\ catalog = [j \in Keys |-> catalog[j]]
  BY DEF LifeInv, Objects
<1>1. catalog'[k] = r /\ \A j \in Keys : j # k => catalog'[j] = catalog[j]
  BY <1>0
<1>2. Copies'
  BY <1>0, <1>1 DEF Copies, HasCopy, Key
<1>3. ASSUME ~slipped PROVE Sound'
  <2>0. Held /\ Calm /\ Ledgers
    BY <1>3 DEF LifeInv, Sound
  <2>1. Held'
    BY <2>0 DEF Held, Holding
  <2>2. k \in Active => r.state = "active"
    BY <1>3 DEF Active
  <2>3. Calm'
    BY <1>0, <1>3, <2>0, <2>2, GoneTurn
  <2>4. Charged' = Charged
    <3>1. \A j : j \in Charged' <=> j \in Charged
      BY <1>0, <1>1, <1>3, NoneIsNoRow DEF Charged, Objects
    <3> QED
      BY <3>1
  <2>5. /\ Some(Debt)' = Some(Debt) /\ Some({"chargeLegacy"})' = Some({"chargeLegacy"})
        /\ Some({"releaseLegacy"})' = Some({"releaseLegacy"})
    BY DEF Some, Debt, Holding
  <2>6. Ledgers'
    BY <2>0, <2>4, <2>5 DEF Ledgers
  <2> QED
    BY <2>1, <2>3, <2>6 DEF Sound
<1> QED
  BY <1>2, <1>3 DEF LifeInv

LEMMA TimeStep ==
  ASSUME LifeInv, NEW k \in Keys, WindowEnds(k) \/ RetryDue(k)
  PROVE  LifeInv'
<1> DEFINE row == catalog[k]
<1>0. Objects /\ Copies
  BY DEF LifeInv
<1>1. row \in Rows /\ row # None /\ k \in completed
  BY <1>0 DEF WindowEnds, RetryDue, Objects
<1>2. PICK r \in Rows :
        /\ catalog' = [catalog EXCEPT ![k] = r] /\ r.state = row.state /\ (row.over => r.over)
        /\ r.over => row.over \/ (row.state \in Gone /\ \A e \in Callers : call[e].pc \in Brief => Key(e) # k)
        /\ UNCHANGED <<source, archive, completed, compact, legacy, appLock, call, slipped, revived>>
  <2>1. CASE WindowEnds(k)
    <3>1. [row EXCEPT !.over = TRUE] \in Rows
      BY <1>1 DEF Rows
    <3>2. catalog' = [catalog EXCEPT ![k] = [row EXCEPT !.over = TRUE]]
      BY <2>1 DEF WindowEnds
    <3>3. [row EXCEPT !.over = TRUE].state = row.state
      BY <1>1 DEF Rows
    <3> QED
      BY <1>1, <2>1, <3>1, <3>2, <3>3 DEF WindowEnds, ghosts
  <2>2. CASE RetryDue(k)
    <3>1. [row EXCEPT !.waiting = FALSE] \in Rows
      BY <1>1 DEF Rows
    <3>2. catalog' = [catalog EXCEPT ![k] = [row EXCEPT !.waiting = FALSE]]
      BY <2>2 DEF RetryDue
    <3>3. [row EXCEPT !.waiting = FALSE].state = row.state /\ [row EXCEPT !.waiting = FALSE].over = row.over
      BY <1>1 DEF Rows
    <3> QED
      BY <2>2, <3>1, <3>2, <3>3 DEF RetryDue, ghosts
  <2> QED
    BY <2>1, <2>2
<1>3. Objects'
  <2>1. catalog' \in [Keys -> Rows \cup {None}] /\ catalog'[k] = r /\ r # None
        /\ \A j \in Keys : j # k => catalog'[j] = catalog[j]
    BY <1>0, <1>2, NoneIsNoRow DEF Objects
  <2>2. \A j \in Keys : catalog'[j] # None <=> catalog[j] # None
    BY <1>1, <2>1
  <2>3. \A c \in Callers : call[c].pc \notin {"new", "over"} => Key(c) \in Keys
    BY <1>0 DEF Objects, CallOK, Key
  <2> QED
    BY <1>0, <1>2, <2>1, <2>2, <2>3 DEF Objects, Key, Row, CallOK, Completing
<1>4. r.state = "archived" => HasCopy(k)
  BY <1>0, <1>1, <1>2 DEF Copies
<1>5. ASSUME ~slipped
      PROVE  /\ row # None /\ (row.state = "active" <=> r.state = "active")
             /\ r.over => r.state \in Gone /\ \A e \in Callers : call[e].pc \in Brief => Key(e) # k
             /\ Dead(k) => r.over
  <2>1. row.over => Dead(k) /\ \A e \in Callers : call[e].pc \in Brief => Key(e) # k
    BY <1>1, <1>5 DEF LifeInv, Sound, Calm, OverGone
  <2> QED
    BY <1>1, <1>2, <2>1 DEF Dead
<1> HIDE DEF row
<1>6. ~slipped => /\ catalog[k] # None /\ (catalog[k].state = "active" <=> r.state = "active")
                  /\ r.over => r.state \in Gone /\ \A e \in Callers : call[e].pc \in Brief => Key(e) # k
                  /\ Dead(k) => r.over
  BY <1>5 DEF row
<1> QED
  BY <1>2, <1>3, <1>4, <1>6, GoneStep

LEMMA ClaimStep ==
  ASSUME LifeInv, NEW c \in Callers, NEW k \in Keys, ArchiveClaim(c, k)
  PROVE  LifeInv'
<1> DEFINE row == catalog[k]
           r == [row EXCEPT !.state = "archive_pending", !.waiting = TRUE]
<1>0. Objects /\ Copies
  BY DEF LifeInv
<1>1. /\ row # None /\ row.state \in {"soft_deleted", "archive_pending", "archive_failed"} /\ row.over
      /\ call[c].pc = "new" /\ catalog' = [catalog EXCEPT ![k] = r]
      /\ call' = [call EXCEPT ![c] = [pc |-> "archive", key |-> k, row |-> r, name |-> r.gen, alone |-> FALSE]]
      /\ UNCHANGED <<source, archive, completed, compact, legacy, appLock, slipped, revived>>
  BY DEF ArchiveClaim, In, ghosts
<1>2. row \in Rows /\ k \in completed
  BY <1>0, <1>1 DEF Objects
<1>3. r \in Rows /\ r.state = "archive_pending" /\ r.over /\ r.gen \in Nat
  BY <1>1, <1>2 DEF Rows, Gone
<1>4. row.state \in Gone
  BY <1>1 DEF Gone
<1> HIDE DEF r
<1>5. /\ Alone(c) /\ call'[c] = [pc |-> "archive", key |-> k, row |-> r, name |-> r.gen, alone |-> FALSE]
      /\ \A e \in Callers : e # c => call'[e] = call[e]
  BY <1>0, <1>1 DEF Objects, Alone
<1>6. CallOK(call'[c])
  BY <1>3, <1>5 DEF CallOK, Completing, Archivers, Archiving
<1>7. catalog'[k] = r /\ r # None /\ \A j \in Keys : j # k => catalog'[j] = catalog[j]
  BY <1>0, <1>1, <1>3, NoneIsNoRow DEF Objects
<1>8. Placed(c)'
  BY <1>1, <1>2, <1>5, <1>7 DEF Placed, Key, Completing
<1>9. Objects'
  <2>1. Typed' /\ RowsStay
    BY <1>0, <1>1, <1>2, <1>3, <1>7 DEF Objects, Typed, RowsStay
  <2> QED
    BY <1>0, <1>5, <1>6, <1>8, <2>1, ObjectsTurn
<1>10. \A e \in Callers : call'[e] = call[e] \/ (call[e].pc \notin Holding /\ call'[e].pc \in {"archive", "over"})
  BY <1>1, <1>5 DEF Holding
<1>11. ~slipped => /\ catalog[k] # None /\ (catalog[k].state = "active" <=> r.state = "active")
                   /\ r.over => r.state \in Gone /\ \A e \in Callers : call[e].pc \in Brief => Key(e) # k
                   /\ Dead(k) => r.over
  BY <1>1, <1>3, <1>4 DEF LifeInv, Sound, Calm, OverGone, Gone
<1> QED
  BY <1>1, <1>3, <1>9, <1>10, <1>11, GoneStep

LEMMA SaveArchivedStep ==
  ASSUME LifeInv, NEW c \in Callers, SaveArchived(c)
  PROVE  LifeInv'
<1> DEFINE k == Key(c)
           seen == Row(c)
           s == IF In(c, "archived") THEN "archived" ELSE "archive_failed"
           r == [seen EXCEPT !.state = s]
<1>0. Objects /\ Copies
  BY DEF LifeInv
<1>1. /\ call[c].pc \in {"archived", "failed"} /\ SaveRow(c, r) /\ Over(c)
      /\ UNCHANGED <<source, archive, completed, compact, legacy, slipped, revived>>
  BY DEF SaveArchived, ghosts
<1>2. CallOK(call[c])
  BY <1>0 DEF Objects
<1>3. call[c].pc \in Archiving /\ call[c].pc \notin Holding /\ call[c].pc \notin Completing
  BY <1>1 DEF Archiving, Holding, Completing
<1>4. k \in Keys /\ seen \in Rows /\ seen.over /\ k \in completed
  BY <1>0, <1>1, <1>2, <1>3 DEF CallOK, Key, Row, Objects
<1>5. s \in {"archived", "archive_failed"} /\ (s = "archived" => call[c].pc = "archived")
  BY DEF In
<1> HIDE DEF s
<1>6. r \in Rows /\ r.state = s /\ r.over
  BY <1>4, <1>5 DEF Rows, Gone
<1> HIDE DEF r
<1>7. /\ Alone(c) /\ call'[c].pc = "over" /\ CallOK(call'[c])
      /\ appLock' \in Callers \cup {None} /\ appLock' = IF appLock = c THEN None ELSE appLock
  BY <1>0, <1>1, Ends
<1>8. /\ catalog' = [catalog EXCEPT ![k] = r] /\ catalog'[k] = r
      /\ \A j \in Keys : j # k => catalog'[j] = catalog[j]
  BY <1>0, <1>1, <1>4 DEF Objects, SaveRow
<1>9. Objects'
  <2>1. Typed' /\ RowsStay
    BY <1>0, <1>1, <1>4, <1>6, <1>7, <1>8 DEF Objects, Typed, RowsStay
  <2>2. Placed(c)'
    BY <1>7 DEF Placed
  <2> QED
    BY <1>0, <1>7, <2>1, <2>2, ObjectsTurn
<1>10. \A e \in Callers : call'[e] = call[e] \/ (call[e].pc \notin Holding /\ call'[e].pc \in {"archive", "over"})
  BY <1>3, <1>7 DEF Alone
<1>11. \A e \in Callers : call[e].pc \in Holding /\ appLock = e => appLock' = e
  BY <1>3, <1>7
<1>12. r.state = "archived" => HasCopy(k)
  BY <1>0, <1>5, <1>6 DEF Copies
<1>13. ~slipped => /\ catalog[k] # None /\ (catalog[k].state = "active" <=> r.state = "active")
                   /\ r.over => r.state \in Gone /\ \A e \in Callers : call[e].pc \in Brief => Key(e) # k
                   /\ Dead(k) => r.over
  <2>1. ASSUME ~slipped PROVE Dead(k) /\ \A e \in Callers : call[e].pc \in Brief \cup Checked => Key(e) # k
    <3>1. Doomed(k)
      BY <1>3 DEF Doomed
    <3> QED
      BY <1>4, <2>1, <3>1 DEF LifeInv, Sound, Calm, DoomedDead
  <2> QED
    BY <1>5, <1>6, <2>1 DEF Dead, Gone
<1> QED
  BY <1>1, <1>4, <1>6, <1>8, <1>9, <1>10, <1>11, <1>12, <1>13, GoneStep

LEMMA ArchiveCheckStep ==
  ASSUME LifeInv, NEW c \in Callers, ArchiveCheck(c)
  PROVE  LifeInv'
<1> DEFINE k == Key(c)
           row == catalog[k]
<1>0. Objects /\ Copies
  BY DEF LifeInv
<1>1. /\ call[c].pc = "pending"
      /\ UNCHANGED <<catalog, source, archive, completed, compact, legacy, slipped, revived>>
  BY DEF ArchiveCheck, In, ghosts
<1>2. CASE Over(c)
  BY <1>0, <1>1, <1>2, QuietEnds DEF Objects
<1>3. CASE row.state = "archive_pending" /\ row.over /\ With(c, "copy", row) /\ UNCHANGED appLock
  <2>1. CallOK(call[c]) /\ AtWork(c) /\ call[c].pc \in Archivers /\ "copy" \in Archivers
    BY <1>0, <1>1 DEF Objects, AtWork, Archivers, Archiving
  <2>2. k \in Keys /\ row # None /\ row \in Rows /\ k \in completed
    BY <1>0, <1>1, <2>1 DEF CallOK, Key, Objects, Completing
  <2> HIDE DEF row
  <2>3. /\ Moves(c, "copy")
        /\ call'[c] = [pc |-> "copy", key |-> k, row |-> row, name |-> call[c].name, alone |-> call[c].alone]
    BY <1>0, <1>3, <2>1, GoesOnWith
  <2>4. call[c].name \in Nat
    BY <2>1, <1>1 DEF CallOK
  <2>5. CallOK(call'[c])
    BY <1>3, <2>1, <2>2, <2>3, <2>4 DEF CallOK, Completing
  <2>6. Placed(c)'
    BY <1>1, <2>2, <2>3 DEF Placed, Key, Completing, row
  <2>7. ASSUME ~slipped PROVE Fits(c)
    <3>1. Held /\ Calm /\ appLock = c
      BY <1>1, <2>7 DEF LifeInv, Sound, Held, Holding
    <3>2. Dead(k) /\ \A e \in Callers : call[e].pc \in Brief => Key(e) # k
      BY <1>3, <2>2, <3>1 DEF Calm, OverGone, row
    <3>3. \A e \in Callers : call[e].pc \notin Checked
      BY <1>1, <3>1 DEF Held, Checked, Holding
    <3> QED
      BY <2>3, <3>2, <3>3 DEF Fits, Brief, Checked
  <2> QED
    BY <1>0, <1>1, <1>3, <2>3, <2>5, <2>6, <2>7, QuietStep DEF Objects, Moves, Debt, Holding
<1> QED
  BY <1>2, <1>3 DEF ArchiveCheck, With

LEMMA CopyStep ==
  ASSUME LifeInv, NEW c \in Callers, Copy(c)
  PROVE  LifeInv'
<1> DEFINE k == Key(c)
           name == call[c].name
<1>0. Objects /\ Copies
  BY DEF LifeInv
<1>1. /\ call[c].pc = "copy"
      /\ UNCHANGED <<catalog, source, completed, compact, legacy, appLock, slipped, revived>>
  BY DEF Copy, In, ghosts
<1>2. CallOK(call[c]) /\ AtWork(c) /\ call[c].pc \in Archivers /\ call[c].pc \in Archiving
  BY <1>0, <1>1 DEF Objects, AtWork, Archivers, Archiving
<1>3. k \in Keys /\ name \in Nat
  BY <1>1, <1>2 DEF CallOK, Key
<1>4. CASE archive' = archive \cup {<<k, name>>} /\ Next1(c, "remove")
  <2>1. /\ Moves(c, "remove") /\ Row(c)' = Row(c)
        /\ call'[c] = [pc |-> "remove", key |-> k, row |-> Row(c), name |-> name, alone |-> call[c].alone]
    BY <1>0, <1>2, <1>4, GoesOn DEF Archivers, Archiving
  <2>2. CallOK(call'[c])
    BY <1>2, <1>3, <2>1 DEF CallOK, Row, Completing, Archivers, Archiving
  <2>3. Placed(c)'
    BY <1>0, <1>1, <1>2, <2>1 DEF Placed, Objects, Key, Completing, AtWork
  <2>4. \A e \in Callers : e # c => call'[e] = call[e]
    BY <2>1 DEF Moves, Alone
  <2>5. Objects'
    <3>1. Typed' /\ RowsStay
      BY <1>0, <1>1, <1>3, <1>4 DEF Objects, Typed, RowsStay
    <3> QED
      BY <1>0, <2>1, <2>2, <2>3, <3>1, ObjectsTurn DEF Moves
  <2>6. /\ \E copy \in archive' : copy[1] = k
        /\ \A j \in Keys : (\E copy \in archive : copy[1] = j) => \E copy \in archive' : copy[1] = j
    <3>1. <<k, name>> \in archive' /\ <<k, name>>[1] = k
      BY <1>4
    <3> HIDE DEF k, name
    <3> QED
      BY <1>4, <3>1
  <2>7. \A e \in Callers : call[e].pc \in {"remove", "archived"} => call[e].key \in Keys
    BY <1>0 DEF Objects, CallOK
  <2>8. Copies'
    <3>1. \A j \in Keys : catalog'[j] # None /\ catalog'[j].state = "archived" => \E copy \in archive' : copy[1] = j
      BY <1>0, <1>1, <2>6 DEF Copies, HasCopy
    <3>2. ASSUME NEW e \in Callers, call'[e].pc \in {"remove", "archived"}
          PROVE  \E copy \in archive' : copy[1] = call'[e].key
      <4>1. CASE e = c
        BY <2>1, <2>6, <4>1
      <4>2. CASE e # c
        <5>1. call'[e] = call[e] /\ call[e].key \in Keys
          BY <2>4, <2>7, <3>2, <4>2
        <5>2. \E copy \in archive : copy[1] = call[e].key
          BY <1>0, <3>2, <5>1 DEF Copies, HasCopy, Key
        <5> QED
          BY <2>6, <5>1, <5>2
      <4> QED
        BY <4>1, <4>2
    <3> QED
      BY <3>1, <3>2 DEF Copies, HasCopy, Key
  <2>9. ASSUME ~slipped PROVE Sound'
    <3>0. Held /\ Calm /\ Ledgers
      BY <2>9 DEF LifeInv, Sound
    <3>1. Held'
      BY <1>1, <2>1, <3>0, HeldTurn DEF Moves, Holding
    <3>2. Fits(c)
      BY <1>2, <2>1 DEF Fits, Key, Brief, Checked
    <3>3. Calm'
      BY <1>1, <1>3, <2>1, <3>0, <3>2, QuietTurn DEF Moves
    <3>4. Charged' = Charged
      BY <1>1 DEF Charged
    <3>5. /\ Some(Debt)' = Some(Debt) /\ Some({"chargeLegacy"})' = Some({"chargeLegacy"})
          /\ Some({"releaseLegacy"})' = Some({"releaseLegacy"})
      BY <1>1, <2>1, <3>0, SomeTurn DEF Debt, Moves
    <3>6. Ledgers'
      BY <1>1, <3>0, <3>4, <3>5 DEF Ledgers
    <3> QED
      BY <3>1, <3>3, <3>6 DEF Sound
  <2> QED
    BY <1>1, <2>5, <2>8, <2>9 DEF LifeInv
<1>5. CASE UNCHANGED archive /\ \E p \in {"archived", "failed"} : Next1(c, p) /\ (p = "archived" => Copied(c))
  <2>1. PICK p \in {"archived", "failed"} : Next1(c, p) /\ (p = "archived" => Copied(c))
    BY <1>5
  <2>2. p = "archived" => HasCopy(k)
    <3>1. <<k, name>>[1] = k
      OBVIOUS
    <3> QED
      BY <2>1, <3>1 DEF Copied, HasCopy
  <2> QED
    BY <1>0, <1>1, <1>2, <1>5, <2>1, <2>2, QuietOn DEF Objects, Archiving, Holding, Debt, Checked
<1> QED
  BY <1>4, <1>5 DEF Copy

LEMMA RemoveStep ==
  ASSUME LifeInv, NEW c \in Callers, Remove(c)
  PROVE  LifeInv'
<1> DEFINE k == Key(c)
<1>0. Objects /\ Copies
  BY DEF LifeInv
<1>1. /\ call[c].pc = "remove" /\ source' \in {source, source \ {k}}
      /\ UNCHANGED <<catalog, archive, completed, compact, legacy, appLock, slipped, revived>>
  BY DEF Remove, In, ghosts
<1>2. CallOK(call[c]) /\ AtWork(c) /\ call[c].pc \in Archivers /\ call[c].pc \in Archiving
  BY <1>0, <1>1 DEF Objects, AtWork, Archivers, Archiving
<1>3. k \in Keys /\ call[c].name \in Nat /\ HasCopy(k)
  BY <1>0, <1>1, <1>2 DEF CallOK, Key, Copies
<1>4. PICK p \in {"archived", "failed"} : Next1(c, p)
  BY DEF Remove
<1>5. /\ Moves(c, p)
      /\ call'[c] = [pc |-> p, key |-> k, row |-> Row(c), name |-> call[c].name, alone |-> call[c].alone]
  BY <1>0, <1>2, <1>4, GoesOn DEF Archivers, Archiving
<1>6. CallOK(call'[c])
  BY <1>2, <1>3, <1>5 DEF CallOK, Row, Completing, Archivers, Archiving
<1>7. Placed(c)'
  BY <1>0, <1>1, <1>2, <1>5 DEF Placed, Objects, Key, Completing, AtWork
<1>8. \A e \in Callers : e # c => call'[e] = call[e]
  BY <1>5 DEF Moves, Alone
<1>9. Objects'
  <2>1. Typed' /\ RowsStay
    BY <1>0, <1>1, <1>3 DEF Objects, Typed, RowsStay
  <2> QED
    BY <1>0, <1>5, <1>6, <1>7, <2>1, ObjectsTurn DEF Moves
<1>10. Copies'
  BY <1>0, <1>1, <1>3, <1>5, <1>8 DEF Copies, HasCopy, Key
<1>11. ASSUME ~slipped PROVE Sound'
  <2>0. Held /\ Calm /\ Ledgers
    BY <1>11 DEF LifeInv, Sound
  <2>1. Held'
    BY <1>1, <1>5, <2>0, HeldTurn DEF Moves, Holding
  <2>2. Doomed(k)
    BY <1>2 DEF Doomed
  <2>3. \A j \in Keys : Doomed(j)' => Doomed(j)
    BY <1>1, <1>2, <1>5, <1>8, <2>2 DEF Doomed, Key
  <2>4. \A e \in Callers : call[e].pc \in Brief => Key(e) # k
    BY <1>3, <2>0, <2>2 DEF Calm, DoomedDead
  <2>5. DoomedDead'
    BY <1>1, <1>5, <1>8, <2>0, <2>3 DEF Calm, DoomedDead, Dead, Key, Brief, Checked
  <2>6. OverGone'
    BY <1>1, <1>5, <1>8, <2>0 DEF Calm, OverGone, Dead, Key, Brief
  <2>7. Visible'
    <3>1. "complete" \in Brief
      BY DEF Brief
    <3> QED
      BY <1>1, <1>5, <1>8, <2>0, <2>4, <3>1 DEF Calm, Visible, Active, Key
  <2>8. Charged' = Charged
    BY <1>1 DEF Charged
  <2>9. /\ Some(Debt)' = Some(Debt) /\ Some({"chargeLegacy"})' = Some({"chargeLegacy"})
        /\ Some({"releaseLegacy"})' = Some({"releaseLegacy"})
    BY <1>1, <1>5, <2>0, SomeTurn DEF Debt, Moves
  <2>10. Ledgers'
    BY <1>1, <2>0, <2>8, <2>9 DEF Ledgers
  <2> QED
    BY <2>1, <2>5, <2>6, <2>7, <2>10 DEF Sound, Calm
<1> QED
  BY <1>1, <1>9, <1>10, <1>11 DEF LifeInv

LEMMA StopStep ==
  ASSUME LifeInv, NEW c \in Callers, Stop(c)
  PROVE  LifeInv'
BY QuietEnds DEF Stop, Both, LifeInv, Objects

LEMMA Left ==
  ASSUME NEW p, NEW k, NEW r, NEW n, NEW o, NEW t, NEW x,
         x = [pc |-> p, key |-> k, row |-> r, name |-> n, alone |-> o]
  PROVE  [x EXCEPT !.alone = t] = [pc |-> p, key |-> k, row |-> r, name |-> n, alone |-> t]
OBVIOUS

LEMMA AbandonStep ==
  ASSUME LifeInv, NEW c \in Callers, Abandon(c)
  PROVE  LifeInv'
<1>0. Objects /\ Copies
  BY DEF LifeInv
<1>1. /\ call[c].pc \in {"copy", "remove"} /\ call' = [call EXCEPT ![c] = [@ EXCEPT !.alone = TRUE]]
      /\ appLock' = IF appLock = c THEN None ELSE appLock
      /\ UNCHANGED <<catalog, source, archive, completed, compact, legacy, slipped, revived>>
  BY <1>0 DEF Abandon, ghosts, Objects
<1>2. CallOK(call[c]) /\ call[c].pc \in Archivers /\ call[c].pc \in Archiving /\ AtWork(c)
  BY <1>0, <1>1 DEF Objects, Archivers, Archiving, AtWork
<1>3. call[c] = [pc |-> call[c].pc, key |-> call[c].key, row |-> call[c].row, name |-> call[c].name, alone |-> call[c].alone]
  BY <1>1, <1>2 DEF CallOK
<1>4. [call[c] EXCEPT !.alone = TRUE] =
        [pc |-> call[c].pc, key |-> call[c].key, row |-> call[c].row, name |-> call[c].name, alone |-> TRUE]
  <2> DEFINE t == TRUE
  <2>1. [call[c] EXCEPT !.alone = t] =
        [pc |-> call[c].pc, key |-> call[c].key, row |-> call[c].row, name |-> call[c].name, alone |-> t]
    <3> HIDE DEF t
    <3> QED
      BY <1>3, Left
  <2> QED
    BY <2>1, Zenon
<1>5. Alone(c) /\ call'[c] = [call[c] EXCEPT !.alone = TRUE]
  BY <1>0, <1>1 DEF Objects, Alone
<1>6. /\ call'[c] = [pc |-> call[c].pc, key |-> call[c].key, row |-> call[c].row, name |-> call[c].name, alone |-> TRUE]
      /\ call'[c].pc = call[c].pc /\ call'[c].key = call[c].key /\ call'[c].row = call[c].row
      /\ call'[c].name = call[c].name /\ call'[c].alone = TRUE
  BY <1>4, <1>5
<1>7. CallOK(call'[c])
  <2>1. call'[c] = [pc |-> call'[c].pc, key |-> call'[c].key, row |-> call'[c].row,
                    name |-> call'[c].name, alone |-> call'[c].alone]
    BY <1>6
  <2>2. call[c].key \in Keys /\ call[c].row \in Rows /\ call[c].name \in Nat
        /\ call[c].row.state = "archive_pending" /\ call[c].row.over
    BY <1>1, <1>2 DEF CallOK, Completing
  <2> QED
    BY <1>1, <1>2, <1>6, <2>1, <2>2 DEF CallOK, Completing, Archivers, Archiving
<1>8. Placed(c)'
  BY <1>0, <1>1, <1>2, <1>6 DEF Placed, Objects, Key, Completing, AtWork
<1>9. Fits(c)
  BY <1>1, <1>2, <1>6 DEF Fits, Key, Brief, Checked, Archiving
<1>10. call'[c].pc \in {"remove", "archived"} => HasCopy(call'[c].key)
  BY <1>0, <1>6 DEF Copies, Key
<1>11. /\ slipped' \in BOOLEAN /\ (~slipped' => ~slipped) /\ appLock' \in Callers \cup {None}
       /\ (appLock' # appLock => appLock \in {c, None})
  BY <1>0, <1>1 DEF Objects
<1>12. call'[c].pc \notin Holding \cup Debt \cup {"chargeLegacy"} /\ call[c].pc # "releaseLegacy"
  BY <1>1, <1>6 DEF Holding, Debt
<1>13. UNCHANGED <<catalog, source, archive, completed, compact, legacy, revived>>
  BY <1>1
<1> QED
  BY <1>5, <1>7, <1>8, <1>9, <1>10, <1>11, <1>12, <1>13, QuietStep

-----------------------------------------------------------------------------
(* The lease of the lock, the reconciliation, and all steps together.      *)
LEMMA LeaseStep ==
  ASSUME LifeInv, LeaseLapses
  PROVE  LifeInv'
<1>0. Objects /\ Copies
  BY DEF LifeInv
<1>1. /\ appLock \in Callers /\ appLock' = None
      /\ slipped' = (slipped \/ call[appLock].pc \notin Archiving)
      /\ UNCHANGED <<catalog, source, archive, completed, compact, legacy, call, revived>>
  BY <1>0 DEF LeaseLapses, Objects
<1>2. Objects'
  BY <1>0, <1>1 DEF Objects, Key, Row
<1>3. Copies'
  BY <1>0, <1>1 DEF Copies, HasCopy, Key
<1>4. ASSUME ~slipped' PROVE Sound'
  <2>1. Held /\ Calm /\ Ledgers /\ call[appLock].pc \in Archiving
    BY <1>0, <1>1, <1>4 DEF LifeInv, Sound, Objects
  <2>2. \A c \in Callers : call[c].pc \notin Holding
    BY <1>1, <2>1 DEF Held, Holding, Archiving
  <2>3. Held'
    BY <1>1, <2>2 DEF Held
  <2>4. Calm'
    BY <1>1, <2>1 DEF Calm, DoomedDead, Doomed, Dead, OverGone, Visible, Active, Key
  <2>5. Ledgers'
    BY <1>1, <2>1 DEF Ledgers, Charged, Some
  <2> QED
    BY <2>3, <2>4, <2>5 DEF Sound
<1> QED
  BY <1>2, <1>3, <1>4 DEF LifeInv

LEMMA ReconcileStep ==
  ASSUME LifeInv, Reconcile
  PROVE  LifeInv'
<1>0. Objects /\ Copies
  BY DEF LifeInv
<1>1. /\ appLock = None /\ legacy > compact /\ compact' = legacy
      /\ UNCHANGED <<catalog, source, archive, completed, legacy, appLock, call, slipped, revived>>
  BY DEF Reconcile, ghosts
<1>2. Objects'
  BY <1>0, <1>1 DEF Objects, Key, Row
<1>3. Copies'
  BY <1>0, <1>1 DEF Copies, HasCopy, Key
<1>4. ASSUME ~slipped PROVE FALSE
  <2>1. Held /\ Ledgers
    BY <1>4 DEF LifeInv, Sound
  <2>2. \A c \in Callers : call[c].pc \notin Holding
    BY <1>1, <2>1, NoneIsNoRow DEF Held
  <2>3. Some({"chargeLegacy"}) = 0 /\ Some({"releaseLegacy"}) = 0
    BY <2>2 DEF Some, Holding
  <2>4. compact \in Nat /\ legacy \in Nat
    BY <1>0, NoneIsNoRow DEF Objects
  <2> QED
    BY <1>1, <2>1, <2>3, <2>4 DEF Ledgers
<1> QED
  BY <1>0, <1>1, <1>2, <1>3, <1>4 DEF LifeInv, Objects

LEMMA NewRowOK ==
  ASSUME NEW g \in Nat
  PROVE  NewRow(g) \in Rows /\ NewRow(g).state = "active" /\ ~NewRow(g).over
BY DEF NewRow, Rows

LEMMA LifeInit ==
  ASSUME LifecycleInit
  PROVE  LifeInv
<1>1. /\ completed \subseteq Keys /\ source = completed /\ archive = {}
      /\ catalog = [k \in Keys |-> IF k \in completed THEN NewRow(0) ELSE None]
      /\ compact = Cardinality(completed) /\ compact <= Room /\ legacy \in {0, compact}
      /\ appLock = None /\ slipped = FALSE /\ revived = 0
      /\ call = [c \in Callers |-> [pc |-> "new"]]
  BY DEF LifecycleInit
<1>2. NewRow(0) \in Rows /\ NewRow(0) # None /\ NewRow(0).state = "active" /\ ~NewRow(0).over
  BY NewRowOK, NoneIsNoRow
<1>3. compact \in Nat
  BY <1>1, NoneIsNoRow, FS_Subset, FS_CardinalityType
<1>4. Objects
  <2>1. compact \in 0..Room /\ legacy \in 0..Room
    BY <1>1, <1>3, NoneIsNoRow
  <2>2. catalog \in [Keys -> Rows \cup {None}]
    BY <1>1, <1>2
  <2>3. \A c \in Callers : call[c].pc = "new"
    BY <1>1
  <2>4. archive \subseteq Keys \X Nat /\ slipped \in BOOLEAN /\ call = [c \in Callers |-> call[c]]
    BY <1>1
  <2> QED
    BY <1>1, <2>1, <2>2, <2>3, <2>4 DEF Objects, CallOK, Completing
<1>5. \A c \in Callers : call[c].pc = "new"
  BY <1>1
<1>6. \A k \in Keys : catalog[k] # None => catalog[k].state = "active" /\ ~catalog[k].over
  BY <1>1, <1>2
<1>7. Copies
  BY <1>5, <1>6 DEF Copies
<1>8. Held /\ Calm
  BY <1>1, <1>5, <1>6 DEF Held, Holding, Calm, DoomedDead, Doomed, OverGone, Visible, Archiving
<1>9. Ledgers
  <2>1. Charged = completed
    BY <1>1, <1>2 DEF Charged
  <2>2. Some(Debt) = 0 /\ Some({"chargeLegacy"}) = 0 /\ Some({"releaseLegacy"}) = 0
    BY <1>5 DEF Some, Debt
  <2> QED
    BY <1>1, <1>3, <2>1, <2>2 DEF Ledgers
<1> QED
  BY <1>4, <1>7, <1>8, <1>9 DEF LifeInv, Sound

LEMMA CallSteps ==
  ASSUME LifeInv, NEW c \in Callers, CallStep(c)
  PROVE  LifeInv'
<1>1. CASE RecordCompleted(c) \/ ReadRow(c) \/ Upsert(c)
  BY <1>1, RecordStep, ReadRowStep, UpsertStep
<1>2. CASE Lock(c, "delete", "locked")
  BY <1>2, LockStep
<1>3. CASE Lock(c, "restore", "again")
  BY <1>3, LockStep
<1>4. CASE Lock(c, "archive", "pending")
  BY <1>4, LockStep
<1>5. CASE DeleteFind(c) \/ Hide(c) \/ ReleaseCompact(c) \/ ReleaseLegacy(c) \/ Show(c)
  BY <1>5, DeleteFindStep, HideStep, ReleaseCompactStep, ReleaseLegacyStep, ShowStep
<1>6. CASE \/ RestoreCheck(c) \/ ChargeCompact(c) \/ ChargeLegacy(c)
           \/ RestoreFind(c) \/ Return(c) \/ TakeBack(c)
  BY <1>6, RestoreCheckStep, ChargeCompactStep, ChargeLegacyStep, RestoreFindStep, ReturnStep, TakeBackStep
<1>7. CASE ArchiveCheck(c) \/ Copy(c) \/ Remove(c) \/ SaveArchived(c)
  BY <1>7, ArchiveCheckStep, CopyStep, RemoveStep, SaveArchivedStep
<1> QED
  BY <1>1, <1>2, <1>3, <1>4, <1>5, <1>6, <1>7 DEF CallStep

LEMMA LifeStep ==
  ASSUME LifeInv, [LifecycleNext]_ovars
  PROVE  LifeInv'
<1>1. ASSUME NEW c \in Callers, NEW k \in Keys, Complete(c, k) \/ Delete(c, k) \/ Restore(c, k) \/ ArchiveClaim(c, k)
      PROVE  LifeInv'
  BY <1>1, CompleteStep, OpenStep, ClaimStep
<1>2. ASSUME NEW c \in Callers, CallStep(c) \/ Stop(c) \/ Abandon(c)
      PROVE  LifeInv'
  BY <1>2, CallSteps, StopStep, AbandonStep
<1>3. ASSUME NEW k \in Keys, WindowEnds(k) \/ RetryDue(k) PROVE LifeInv'
  BY <1>3, TimeStep
<1>4. CASE Reconcile \/ LeaseLapses
  BY <1>4, ReconcileStep, LeaseStep
<1>5. CASE UNCHANGED ovars
  <2>1. UNCHANGED <<catalog, source, archive, completed, compact, legacy, appLock, call, slipped, revived>>
    BY <1>5 DEF ovars
  <2>2. Objects' /\ Copies'
    BY <2>1 DEF LifeInv, Objects, Copies, HasCopy, Key, Row
  <2>3. Sound => Sound'
    BY <2>1 DEF Sound, Held, Calm, DoomedDead, Doomed, Dead, OverGone, Visible, Active, Key, Ledgers, Charged, Some
  <2> QED
    BY <2>1, <2>2, <2>3 DEF LifeInv
<1> QED
  BY <1>1, <1>2, <1>3, <1>4, <1>5 DEF LifecycleNext

(* A row stays in the catalog.                                            *)
LEMMA RowsKept ==
  ASSUME Objects, [LifecycleNext]_ovars, NEW k \in Keys, catalog[k] # None
  PROVE  catalog'[k] # None
<1>0. catalog \in [Keys -> Rows \cup {None}] /\ catalog[k] \in Rows /\ None \notin Rows
  BY NoneIsNoRow DEF Objects
<1>1. ASSUME NEW c \in Callers, Hide(c) \/ Return(c) PROVE catalog'[k] # None
  <2>1. Row(c) \in Rows
    BY <1>1 DEF Hide, Return, In, Objects, CallOK, Completing, Row
  <2>2. catalog' = [catalog EXCEPT ![Key(c)] = Row(c)]
    BY <1>1 DEF Hide, Return, SaveRow
  <2> QED
    BY <1>0, <2>1, <2>2
<1>2. ASSUME NEW c \in Callers, SaveArchived(c) PROVE catalog'[k] # None
  <2> DEFINE s == IF In(c, "archived") THEN "archived" ELSE "archive_failed"
             r == [Row(c) EXCEPT !.state = s]
  <2>1. Row(c) \in Rows
    BY <1>2 DEF SaveArchived, Objects, CallOK, Completing, Row
  <2>2. s \in Gone
    BY DEF Gone
  <2>3. catalog' = [catalog EXCEPT ![Key(c)] = r]
    BY <1>2 DEF SaveArchived, SaveRow
  <2> HIDE DEF s
  <2>4. r \in Rows
    BY <2>1, <2>2 DEF Rows
  <2> HIDE DEF r
  <2> QED
    BY <1>0, <2>3, <2>4
<1>3. ASSUME NEW c \in Callers, Upsert(c) PROVE catalog'[k] # None
  <2> DEFINE g == IF Row(c) = None THEN 0 ELSE Row(c).gen + 1
             r == NewRow(g)
  <2>1. Row(c) \in Rows \cup {None}
    BY <1>3 DEF Upsert, In, Objects, CallOK, Completing, Row
  <2>2. g \in Nat
    BY <2>1 DEF Rows
  <2>3. catalog' = catalog \/ catalog' = [catalog EXCEPT ![Key(c)] = r]
    BY <1>3 DEF Upsert, SaveRow
  <2> HIDE DEF g
  <2>4. r \in Rows
    BY <2>2, NewRowOK
  <2> HIDE DEF r
  <2> QED
    BY <1>0, <2>3, <2>4
<1>4. ASSUME NEW c \in Callers, Show(c) PROVE catalog'[k] # None
  <2> DEFINE row == catalog[Key(c)]
             r == NewRow(row.gen)
  <2>1. Key(c) \in Keys /\ row # None
    BY <1>4 DEF Show, In, Objects, CallOK, Completing, Key
  <2>2. row \in Rows
    BY <1>0, <2>1
  <2>3. catalog' = catalog \/ catalog' = [catalog EXCEPT ![Key(c)] = r]
    BY <1>4 DEF Show
  <2>4. row.gen \in Nat
    BY <2>2 DEF Rows
  <2> HIDE DEF row
  <2>5. r \in Rows
    BY <2>4, NewRowOK
  <2> HIDE DEF r
  <2> QED
    BY <1>0, <2>3, <2>5
<1>5. ASSUME NEW j \in Keys, WindowEnds(j) \/ RetryDue(j) PROVE catalog'[k] # None
  <2>1. catalog[j] \in Rows
    BY <1>0, <1>5 DEF WindowEnds, RetryDue
  <2>2. [catalog[j] EXCEPT !.over = TRUE] \in Rows /\ [catalog[j] EXCEPT !.waiting = FALSE] \in Rows
    BY <2>1 DEF Rows
  <2>3. \/ catalog' = [catalog EXCEPT ![j] = [catalog[j] EXCEPT !.over = TRUE]]
        \/ catalog' = [catalog EXCEPT ![j] = [catalog[j] EXCEPT !.waiting = FALSE]]
    BY <1>5 DEF WindowEnds, RetryDue
  <2> QED
    BY <1>0, <2>2, <2>3
<1>6. ASSUME NEW c \in Callers, NEW j \in Keys, ArchiveClaim(c, j) PROVE catalog'[k] # None
  <2> DEFINE r == [catalog[j] EXCEPT !.state = "archive_pending", !.waiting = TRUE]
  <2>1. catalog[j] \in Rows
    BY <1>0, <1>6 DEF ArchiveClaim
  <2>2. r \in Rows
    BY <2>1 DEF Rows, Gone
  <2>3. catalog' = [catalog EXCEPT ![j] = r]
    BY <1>6 DEF ArchiveClaim
  <2> HIDE DEF r
  <2> QED
    BY <1>0, <2>2, <2>3
<1>7. CASE UNCHANGED catalog
  BY <1>7
<1>8. ASSUME NEW c \in Callers, CallStep(c) \/ Stop(c) \/ Abandon(c) PROVE catalog'[k] # None
  <2>1. CASE Hide(c) \/ Return(c) \/ SaveArchived(c) \/ Upsert(c) \/ Show(c)
    BY <1>1, <1>2, <1>3, <1>4, <2>1
  <2>2. CASE \/ RecordCompleted(c) \/ ReadRow(c) \/ DeleteFind(c) \/ ReleaseCompact(c) \/ ReleaseLegacy(c)
             \/ Lock(c, "delete", "locked") \/ Lock(c, "restore", "again") \/ Lock(c, "archive", "pending")
             \/ RestoreCheck(c) \/ ChargeCompact(c) \/ ChargeLegacy(c) \/ RestoreFind(c) \/ TakeBack(c)
             \/ ArchiveCheck(c) \/ Copy(c) \/ Remove(c) \/ Stop(c) \/ Abandon(c)
    BY <1>7, <2>2 DEF RecordCompleted, ReadRow, DeleteFind, ReleaseCompact, ReleaseLegacy, Lock, RestoreCheck,
         ChargeCompact, ChargeLegacy, RestoreFind, TakeBack, ArchiveCheck, Copy, Remove, Stop, Abandon
  <2> QED
    BY <1>8, <2>1, <2>2 DEF CallStep
<1>9. ASSUME NEW c \in Callers, NEW j \in Keys, Complete(c, j) \/ Delete(c, j) \/ Restore(c, j)
      PROVE  catalog'[k] # None
  BY <1>7, <1>9 DEF Complete, Delete, Restore
<1>10. CASE Reconcile \/ LeaseLapses \/ UNCHANGED ovars
  BY <1>7, <1>10 DEF Reconcile, LeaseLapses, ovars
<1> QED
  BY <1>5, <1>6, <1>8, <1>9, <1>10 DEF LifecycleNext

-----------------------------------------------------------------------------
(* The invariant holds, whatever the calls do and wherever they stop.      *)
THEOREM LifeInvCorrect == LifecycleSpec => []LifeInv
<1>1. LifecycleInit => LifeInv
  BY LifeInit
<1>2. LifeInv /\ [LifecycleNext]_ovars => LifeInv'
  BY LifeStep
<1> QED
  BY <1>1, <1>2, PTL DEF LifecycleSpec

(* No delete, restore or archiving, late, repeated or abandoned, removes an *)
(* object that is active or may still be restored, while no lock is lost;  *)
(* and what a row says is archived has a copy.                             *)
THEOREM NothingIsLostCorrect == LifecycleSpec => []NothingIsLost
<1>1. LifeInv => NothingIsLost
  <2> SUFFICES ASSUME LifeInv, NEW k \in Keys
               PROVE  /\ k \in Active \/ Restorable(catalog[k]) => slipped \/ k \in source
                      /\ catalog[k] # None /\ catalog[k].state = "archived" => \E copy \in archive : copy[1] = k
    BY DEF NothingIsLost
  <2>1. ASSUME k \in Active \/ Restorable(catalog[k]), ~slipped, k \notin source PROVE FALSE
    <3>1. catalog[k] # None /\ ~Dead(k)
      BY <2>1 DEF Active, Restorable, Dead, Gone
    <3>2. k \in completed /\ DoomedDead
      BY <2>1, <3>1 DEF LifeInv, Objects, Sound, Calm
    <3> QED
      BY <2>1, <3>1, <3>2 DEF DoomedDead, Doomed
  <2>2. catalog[k] # None /\ catalog[k].state = "archived" => \E copy \in archive : copy[1] = k
    BY DEF LifeInv, Copies, HasCopy
  <2> QED
    BY <2>1, <2>2
<1> QED
  BY <1>1, LifeInvCorrect, PTL

(* Every active object is charged in the compact ledger, but for those a   *)
(* repeated completion showed again, while no lock is lost and no change   *)
(* of both ledgers stops half-way.                                         *)
THEOREM ActiveIsChargedCorrect == LifecycleSpec => []ActiveIsCharged
<1>1. LifeInv => ActiveIsCharged
  <2> SUFFICES ASSUME LifeInv, ~slipped PROVE Cardinality(Active) <= compact + revived
    BY DEF ActiveIsCharged
  <2>1. Objects /\ Ledgers
    BY DEF LifeInv, Sound
  <2>2. Cardinality(Active) \in Nat /\ Cardinality(Active) <= Cardinality(Charged) /\ Cardinality(Charged) \in Nat
    BY <2>1, ChargedSize, FS_Subset, FS_CardinalityType
  <2>3. compact \in Nat /\ revived \in Nat /\ Some(Debt) \in {0, 1}
    BY <2>1, NoneIsNoRow, SomeType DEF Objects
  <2> QED
    BY <2>1, <2>2, <2>3 DEF Ledgers
<1> QED
  BY <1>1, LifeInvCorrect, PTL

(* While nobody has the lock, the legacy ledger is not ahead of the compact*)
(* one, so reconcile_usage_aggregate changes nothing.                      *)
THEOREM LedgersAgreeCorrect == LifecycleSpec => []LedgersAgree
<1>1. LifeInv => LedgersAgree
  <2> SUFFICES ASSUME LifeInv, appLock = None, ~slipped PROVE legacy <= compact
    BY DEF LedgersAgree
  <2>1. Objects /\ Ledgers /\ Held
    BY DEF LifeInv, Sound
  <2>2. \A c \in Callers : call[c].pc \notin Holding
    BY <2>1, NoneIsNoRow DEF Held
  <2>3. Some({"chargeLegacy"}) = 0 /\ Some({"releaseLegacy"}) = 0
    BY <2>2 DEF Some, Holding
  <2>4. compact \in Nat /\ legacy \in Nat
    BY <2>1, NoneIsNoRow DEF Objects
  <2> QED
    BY <2>1, <2>3, <2>4 DEF Ledgers
<1> QED
  BY <1>1, LifeInvCorrect, PTL
=============================================================================
