----------------------------- MODULE AuthSession -----------------------------
(***************************************************************************)
(* How a session begins and ends: a one-time link sent through the office  *)
(* messenger and kept in the MongoDB of the region that sent it; the       *)
(* tokens it is exchanged for, which are renewed by rotation; and the list *)
(* of revoked tokens, written to the local MongoDB, then to Etcd, and from *)
(* there to the other regions.                                             *)
(***************************************************************************)
EXTENDS Deployment, Integers

CONSTANTS Tokens, Sessions      \* refresh tokens; the requests

VARIABLES link,        \* the temp_code document: consumed by whom
          linkOver,    \* its time is over
          sending,     \* the request that sends it
          rearmed,     \* (ghost) the delivery was saved over its consumption
          uses,        \* (ghost) the sessions it opened
          token,       \* unused, live or expired
          black,       \* destroyed_token of each region
          revokedKey,  \* the revoked_tokens key
          revokedRead, \* what a region's pull or watch event has read
          session,     \* the requests
          unspread     \* (ghost) the revocations that were not published

hvars == <<link, linkOver, sending, rearmed, uses, token, black, revokedKey, revokedRead,
           session, unspread>>
linkVars == <<link, linkOver, sending, rearmed, uses>>
tokenVars == <<token, black, revokedKey, revokedRead, unspread>>

Fresh == [consumed |-> None]
NoSession == [pc |-> "new"]
ASSUME NoneIsNoLink == None \notin Sessions /\ None \notin [consumed : Sessions \cup {None}]

SessionInit ==
  /\ link = None /\ linkOver = FALSE /\ sending = "new" /\ rearmed = FALSE /\ uses = 0
  /\ token = [t \in Tokens |-> "unused"]
  /\ black = [r \in Regions |-> {}] /\ revokedKey = {} /\ revokedRead = [r \in Regions |-> None]
  /\ session = [c \in Sessions |-> NoSession] /\ unspread = {}

SessionTo(c, pc) == session' = [session EXCEPT ![c].pc = pc]
EndSession(c) == session' = [session EXCEPT ![c] = [pc |-> "closed"]]

-----------------------------------------------------------------------------
(* _request_oa_challenge: the link is saved, sent, and saved once more with*)
(* the outcome, as it was before it was sent; or deleted.                  *)
RequestLink ==
  /\ sending = "new" /\ sending' = "sending" /\ link' = Fresh
  /\ UNCHANGED <<linkOver, rearmed, uses, session>> /\ UNCHANGED tokenVars
LinkArrives ==
  /\ sending = "sending" /\ sending' = "arrived"
  /\ UNCHANGED <<link, linkOver, rearmed, uses, session>> /\ UNCHANGED tokenVars
SaveDelivery ==
  /\ sending \in {"sending", "arrived"} /\ sending' = "answered"
  /\ \/ sending = "arrived" /\ link' = Fresh
        /\ rearmed' = (rearmed \/ (link # None /\ link # Fresh))
     \/ link' = None /\ UNCHANGED rearmed
  /\ UNCHANGED <<linkOver, uses, session>> /\ UNCHANGED tokenVars
LinkExpires ==
  /\ link # None /\ linkOver' = TRUE /\ link' \in {link, None}
  /\ UNCHANGED <<sending, rearmed, uses, session>> /\ UNCHANGED tokenVars

\* Mutant of ConsumeLink: a consumed link is only refused to the one who used it.
ConsumeAnyLink(c) ==
  /\ session[c] = NoSession /\ sending # "sending" /\ link # None /\ ~linkOver
  /\ link' = [consumed |-> c] /\ session' = [session EXCEPT ![c] = [pc |-> "exchange"]]
  /\ UNCHANGED <<linkOver, sending, rearmed, uses>> /\ UNCHANGED tokenVars

\* login_by_code: consumed in one update, then exchanged, or put back by the
\* one whose consumption it still is.
ConsumeLink(c) ==
  /\ session[c] = NoSession /\ sending # "sending" /\ link = Fresh /\ ~linkOver
  /\ link' = [consumed |-> c] /\ session' = [session EXCEPT ![c] = [pc |-> "exchange"]]
  /\ UNCHANGED <<linkOver, sending, rearmed, uses>> /\ UNCHANGED tokenVars
Exchange(c) ==
  /\ session[c].pc = "exchange"
  /\ \/ /\ \E t \in Tokens : token[t] = "unused" /\ token' = [token EXCEPT ![t] = "live"]
        /\ uses' = uses + 1 /\ EndSession(c)
     \/ UNCHANGED <<uses, token>> /\ SessionTo(c, "putBack")
  /\ UNCHANGED <<link, linkOver, sending, rearmed, black, revokedKey, revokedRead, unspread>>
PutBackLink(c) ==
  /\ session[c].pc = "putBack" /\ EndSession(c)
  /\ link' = IF link = [consumed |-> c] THEN Fresh ELSE link
  /\ UNCHANGED <<linkOver, sending, rearmed, uses>> /\ UNCHANGED tokenVars

-----------------------------------------------------------------------------
(* check_token_valid, in the region asked.                                 *)
Accepted(r, t) == token[t] = "live" /\ t \notin black[r]

\* logout_user and refresh_token check first and destroy later.
BeginDestroy(c, r, t, renew) ==
  /\ session[c] = NoSession /\ Accepted(r, t)
  /\ session' = [session EXCEPT ![c] = [pc |-> "destroy", region |-> r, token |-> t, renew |-> renew]]
  /\ UNCHANGED <<linkVars, tokenVars>>

AfterDestroy(c) == IF session[c].renew THEN SessionTo(c, "renew") ELSE EndSession(c)
\* destroy_token: what is on the list is neither saved nor published again.
DestroyToken(c) ==
  LET r == session[c].region  t == session[c].token
  IN /\ session[c].pc = "destroy"
     /\ IF t \in black[r] THEN UNCHANGED black /\ AfterDestroy(c)
        ELSE black' = [black EXCEPT ![r] = @ \cup {t}] /\ SessionTo(c, "spread")
     /\ UNCHANGED <<linkVars, token, revokedKey, revokedRead, unspread>>
\* publish_revoked_token; a failure is logged and forgotten.
SpreadRevocation(c) ==
  /\ session[c].pc = "spread" /\ AfterDestroy(c)
  /\ \/ revokedKey' = revokedKey \cup {session[c].token} /\ UNCHANGED unspread
     \/ UNCHANGED revokedKey /\ unspread' = unspread \cup {session[c].token}
  /\ UNCHANGED <<linkVars, token, black, revokedRead>>
RenewToken(c) ==
  /\ session[c].pc = "renew" /\ EndSession(c)
  /\ \E t \in Tokens : token[t] = "unused" /\ token' = [token EXCEPT ![t] = "live"]
  /\ UNCHANGED <<linkVars, black, revokedKey, revokedRead, unspread>>
SessionStops(c) ==
  /\ session[c].pc \notin {"new", "closed"} /\ EndSession(c)
  /\ unspread' = IF session[c].pc = "spread" THEN unspread \cup {session[c].token} ELSE unspread
  /\ UNCHANGED <<linkVars, token, black, revokedKey, revokedRead>>

\* A token ends with its time; only then is it struck off a region's list.
TokenExpires(t) ==
  /\ token[t] = "live" /\ token' = [token EXCEPT ![t] = "expired"]
  /\ UNCHANGED <<linkVars, black, revokedKey, revokedRead, session, unspread>>
Outdated(t) == token[t] = "expired"
CleanBlacklist(r) ==
  /\ black' = [black EXCEPT ![r] = {t \in @ : ~Outdated(t)}]
  /\ UNCHANGED <<linkVars, token, revokedKey, revokedRead, session, unspread>>

\* sync_revoked_tokens_to_mongo, from a pull or a watch event.
ReadRevoked(r) ==
  /\ revokedRead[r] = None
  /\ revokedRead' = [revokedRead EXCEPT ![r] = revokedKey]
  /\ UNCHANGED <<linkVars, token, black, revokedKey, session, unspread>>
\* Mutant of ImportRevoked: the list that was read is not taken.
ImportNothing(r) ==
  /\ revokedRead[r] # None
  /\ revokedRead' = [revokedRead EXCEPT ![r] = None]
  /\ UNCHANGED <<linkVars, token, black, revokedKey, session, unspread>>
ImportRevoked(r) ==
  /\ revokedRead[r] # None
  /\ black' = [black EXCEPT ![r] = @ \cup revokedRead[r]]
  /\ revokedRead' = [revokedRead EXCEPT ![r] = None]
  /\ UNCHANGED <<linkVars, token, revokedKey, session, unspread>>

SessionStep(c) ==
  \/ Exchange(c) \/ PutBackLink(c) \/ DestroyToken(c) \/ SpreadRevocation(c) \/ RenewToken(c)

SessionNext ==
  \/ RequestLink \/ LinkArrives \/ SaveDelivery \/ LinkExpires
  \/ \E c \in Sessions : ConsumeLink(c) \/ SessionStep(c) \/ SessionStops(c)
  \/ \E c \in Sessions, r \in Regions, t \in Tokens, renew \in BOOLEAN : BeginDestroy(c, r, t, renew)
  \/ \E t \in Tokens : TokenExpires(t)
  \/ \E r \in Regions : CleanBlacklist(r) \/ ReadRevoked(r) \/ ImportRevoked(r)

SessionFairness ==
  /\ \A c \in Sessions : WF_hvars(SessionStep(c))
  /\ \A r \in Regions : WF_hvars(ReadRevoked(r)) /\ WF_hvars(ImportRevoked(r))

SessionSpec == SessionInit /\ [][SessionNext]_hvars
SessionFairSpec == SessionSpec /\ SessionFairness

-----------------------------------------------------------------------------
SessionTypeOK ==
  /\ link \in [consumed : Sessions \cup {None}] \cup {None}
  /\ sending \in {"new", "sending", "arrived", "answered"} /\ linkOver \in BOOLEAN
  /\ uses \in Nat /\ token \in [Tokens -> {"unused", "live", "expired"}]
  /\ black \in [Regions -> SUBSET Tokens] /\ revokedKey \subseteq Tokens
  /\ revokedRead \in [Regions -> (SUBSET Tokens) \cup {None}]
  /\ session \in [Sessions -> [pc : {"new", "exchange", "putBack", "closed"}] \cup
       [pc : {"destroy", "spread", "renew"}, region : Regions, token : Tokens, renew : BOOLEAN]]

\* A link opens one session, whoever follows it at once, fails and puts it
\* back, unless its sender saved the delivery after it had been consumed.
LinkUsedOnce == uses > 1 => rearmed

\* A token revoked in one region ends in every region: it is on every list or
\* its time is over, unless the revocation was not published.
RevocationsSpread == \A r, s \in Regions, t \in Tokens :
  t \in black[r] ~> (t \in black[s] \/ Outdated(t) \/ t \in unspread)
=============================================================================
