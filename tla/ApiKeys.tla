------------------------------- MODULE ApiKeys -------------------------------
(***************************************************************************)
(* One API key of one application: its entry in the Etcd key `api_keys',   *)
(* its document in the MongoDB of every region, and the application it     *)
(* belongs to, whose document the synchronisation of keys writes too.  The *)
(* key is created by one request and revoked by others; the application is *)
(* deleted, created again under its name and enabled, in one step each     *)
(* here (ApplicationRegistry has them in full).                            *)
(***************************************************************************)
EXTENDS Deployment, Naturals

CONSTANTS KeyCalls,      \* the requests about the key
          MaxAppEvents   \* how often the application changes

ASSUME AppEventsBound == MaxAppEvents \in Nat

VARIABLES keyEntry,    \* in the api_keys key: none, active or revoked
          keyDoc,      \* the api_key document of each region
          appEntry,    \* in the applications key: none, off or on
          appDoc,      \* the application document of each region
          keyCall,
          inbox,       \* what a region's pull or watch event has read
          appEvents,   \* the changes of the application so far
          unpublished, \* (ghost) a revocation did not reach Etcd
          undone       \* (ghost) the key was published as active after it was revoked

kvars == <<keyEntry, keyDoc, appEntry, appDoc, keyCall, inbox, appEvents, unpublished, undone>>

States == {"none", "active", "revoked"}

KeyInit ==
  /\ keyEntry = "none" /\ keyDoc = [r \in Regions |-> "none"]
  /\ appEntry = "on" /\ appDoc = [r \in Regions |-> "on"] /\ appEvents = 0
  /\ keyCall = [c \in KeyCalls |-> [pc |-> "new"]] /\ inbox = [r \in Regions |-> None]
  /\ unpublished = FALSE /\ undone = FALSE

KeyAt(c, pc) == keyCall[c].pc = pc
EndKeyCall(c) == keyCall' = [keyCall EXCEPT ![c] = [pc |-> "ended"]]
Created == \E c \in KeyCalls : ~KeyAt(c, "new")
SetKeyDoc(c, s) == keyDoc' = [keyDoc EXCEPT ![keyCall[c].region] = s]

-----------------------------------------------------------------------------
(* create_api_key saves the document and publishes it, or deletes it again;*)
(* revoke_api_key marks it and publishes it, and what fails is not tried   *)
(* again, for a revoked key is refused.                                    *)
CreateKey(c, r) ==
  /\ ~Created /\ appDoc[r] = "on"
  /\ keyDoc' = [keyDoc EXCEPT ![r] = "active"]
  /\ keyCall' = [keyCall EXCEPT ![c] = [pc |-> "publish", region |-> r, creates |-> TRUE]]
  /\ UNCHANGED <<keyEntry, appEntry, appDoc, inbox, appEvents, unpublished, undone>>
RevokeKey(c, r) ==
  /\ KeyAt(c, "new") /\ keyDoc[r] = "active"
  /\ keyDoc' = [keyDoc EXCEPT ![r] = "revoked"]
  /\ keyCall' = [keyCall EXCEPT ![c] = [pc |-> "publish", region |-> r, creates |-> FALSE]]
  /\ UNCHANGED <<keyEntry, appEntry, appDoc, inbox, appEvents, unpublished, undone>>

\* publish_api_key reads the document and writes the entry whole.
ReadKeyDoc(c) ==
  /\ KeyAt(c, "publish")
  /\ IF keyDoc[keyCall[c].region] = "none" THEN EndKeyCall(c)
     ELSE keyCall' = [keyCall EXCEPT ![c] = [pc |-> "merge", region |-> @.region, creates |-> @.creates,
                                             entry |-> keyDoc[@.region]]]
  /\ UNCHANGED <<keyEntry, keyDoc, appEntry, appDoc, inbox, appEvents, unpublished, undone>>
MergeKey(c) ==
  /\ KeyAt(c, "merge")
  /\ \/ keyEntry' = keyCall[c].entry /\ EndKeyCall(c) /\ UNCHANGED <<keyDoc, unpublished>>
        /\ undone' = (undone \/ (keyEntry = "revoked" /\ keyEntry' = "active"))
     \/ /\ keyEntry' \in {keyEntry, keyCall[c].entry}           \* failed, carried out or not
        /\ undone' = (undone \/ (keyEntry = "revoked" /\ keyEntry' = "active"))
        /\ EndKeyCall(c)
        /\ IF keyCall[c].creates THEN SetKeyDoc(c, "none") /\ unpublished' = TRUE
           ELSE UNCHANGED keyDoc /\ unpublished' = (unpublished \/ keyEntry' # "revoked")
  /\ UNCHANGED <<appEntry, appDoc, inbox, appEvents>>
KeyCallStops(c) ==
  /\ keyCall[c].pc \notin {"new", "ended"} /\ EndKeyCall(c)
  /\ unpublished' = TRUE
  /\ UNCHANGED <<keyEntry, keyDoc, appEntry, appDoc, inbox, appEvents, undone>>

-----------------------------------------------------------------------------
(* The application.  Its deletion leaves the entries of its keys.          *)
AppEvent(r, entry) ==
  /\ appEvents < MaxAppEvents /\ appEvents' = appEvents + 1
  /\ appEntry' = entry /\ appDoc' = [appDoc EXCEPT ![r] = entry]
  /\ UNCHANGED <<keyEntry, keyDoc, keyCall, inbox, unpublished, undone>>
DeleteOwner(r) == appDoc[r] # "none" /\ AppEvent(r, "none")
CreateOwner(r) == appEntry = "none" /\ AppEvent(r, "off")
EnableOwner(r) == appEntry = "off" /\ appDoc[r] = "off" /\ AppEvent(r, "on")

-----------------------------------------------------------------------------
(* A pull takes the applications first and the keys second ...             *)

\* Mutant of KeyProjected: the entry is taken as it is.
KeyAsRead(old, entry) == entry

\* Mutant of KeyProjected: a key the region knows is left alone.
KeyAsKnown(old, entry) == IF old = "none" THEN entry ELSE old

\* upsert_api_key_from_etcd makes the application, or enables it, whatever
\* the applications key says; a revocation is final, an absent key is made.
KeyProjected(old, entry) == IF entry = "revoked" THEN (IF old = "none" THEN "none" ELSE "revoked")
                            ELSE IF old = "none" THEN "active" ELSE old
AppOfKey(old) == "on"
TakeApp(r, entry) == appDoc' = [appDoc EXCEPT ![r] = entry] /\ UNCHANGED keyDoc
TakeKey(r, entry) ==
  /\ keyDoc' = [keyDoc EXCEPT ![r] = KeyProjected(@, entry)]
  /\ appDoc' = [appDoc EXCEPT ![r] = AppOfKey(@)]
PullAppKey(r) ==
  /\ TakeApp(r, appEntry)
  /\ UNCHANGED <<keyEntry, appEntry, keyCall, inbox, appEvents, unpublished, undone>>
PullApiKeys(r) ==
  /\ keyEntry # "none" /\ TakeKey(r, keyEntry)
  /\ UNCHANGED <<keyEntry, appEntry, keyCall, inbox, appEvents, unpublished, undone>>

\* ... and what it, or a watch event of either, has read may be applied late.
ReadAppKey(r) ==
  /\ inbox[r] = None /\ inbox' = [inbox EXCEPT ![r] = [of |-> "application", value |-> appEntry]]
  /\ UNCHANGED <<keyEntry, keyDoc, appEntry, appDoc, keyCall, appEvents, unpublished, undone>>
ReadApiKeys(r) ==
  /\ inbox[r] = None /\ keyEntry # "none"
  /\ inbox' = [inbox EXCEPT ![r] = [of |-> "key", value |-> keyEntry]]
  /\ UNCHANGED <<keyEntry, keyDoc, appEntry, appDoc, keyCall, appEvents, unpublished, undone>>
ApplyInbox(r) ==
  LET m == inbox[r]
  IN /\ m # None /\ inbox' = [inbox EXCEPT ![r] = None]
     /\ IF m.of = "application" THEN TakeApp(r, m.value) ELSE TakeKey(r, m.value)
     /\ UNCHANGED <<keyEntry, appEntry, keyCall, appEvents, unpublished, undone>>

KeyStep(c) == ReadKeyDoc(c) \/ MergeKey(c)
KeyNext ==
  \/ \E c \in KeyCalls, r \in Regions : CreateKey(c, r) \/ RevokeKey(c, r)
  \/ \E c \in KeyCalls : KeyStep(c) \/ KeyCallStops(c)
  \/ \E r \in Regions : DeleteOwner(r) \/ CreateOwner(r) \/ EnableOwner(r)
                        \/ PullAppKey(r) \/ PullApiKeys(r)
                        \/ ReadAppKey(r) \/ ReadApiKeys(r) \/ ApplyInbox(r)

\* The second read of a pull comes again and again, after the first.
KeyFairness ==
  /\ \A c \in KeyCalls : WF_kvars(KeyStep(c))
  /\ \A r \in Regions : WF_kvars(PullApiKeys(r)) /\ WF_kvars(ApplyInbox(r))

KeySpec == KeyInit /\ [][KeyNext]_kvars
KeyFairSpec == KeySpec /\ KeyFairness

-----------------------------------------------------------------------------
KeyTypeOK ==
  /\ keyEntry \in States /\ keyDoc \in [Regions -> States]
  /\ appEntry \in {"none", "off", "on"} /\ appDoc \in [Regions -> {"none", "off", "on"}]
  /\ appEvents \in 0..MaxAppEvents /\ {unpublished, undone} \subseteq BOOLEAN
  /\ \A c \in KeyCalls : KeyAt(c, "merge") => keyCall[c].entry \in {"active", "revoked"}

\* A key that a region has refused as revoked is refused there for good,
\* unless a call of its creation failed or stopped on the way.
RevokedForGood == [][\A r \in Regions :
  keyDoc[r] = "revoked" => keyDoc'[r] = "revoked" \/ unpublished']_kvars

\* A revocation that reached Etcd reaches every region, unless the creation of
\* the key, still on its way, was published after it.
RevocationReaches == \A r \in Regions :
  keyEntry = "revoked" ~> (keyDoc[r] # "active" \/ undone)
=============================================================================
