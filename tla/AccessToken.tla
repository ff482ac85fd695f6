---------------------------- MODULE AccessToken ----------------------------
(***************************************************************************)
(* Access tokens: what identity signs when a Login or a Refresh is         *)
(* answered, and what the gateway accepts later from the text and its      *)
(* clock alone.  No row stands for one and nothing can withdraw one, so    *)
(* all they promise has to follow from the reading of the clock they were  *)
(* issued with.                                                            *)
(*                                                                         *)
(* The calls are those of RefreshSession.  A token is a function of the    *)
(* locals of its call, so no variable holds it; the variable added here is *)
(* history.  HMAC-SHA256 is ideal: a signature is its key and its text.    *)
(***************************************************************************)
EXTENDS RefreshSession

CONSTANTS
  Secret,    \* the JWT secret identity and the gateway are both started with
  Ttl,       \* accessTokenMs: how long an access token lasts
  Second     \* milliseconds in one unit of iat and exp

ASSUME AccessTimeAssumption == Ttl \in Nat /\ Second \in Nat \ {0}

VARIABLE endedAt   \* when a session's revocation took effect, Null before

accessVars == <<vars, endedAt>>

-----------------------------------------------------------------------------
(* Identity: issueTokens and Hs256AccessTokenIssuer.issue.                 *)

(* Calls whose answer has been built, whether or not it arrived.           *)
Issuers == {r \in Requests : pc[r] \in {"granted", "lost"}}

(* Fault: issueTokens reads the clock itself.                              *)
ReadAgain(r) == clock

(* The reading that execute took before it waited for anything.            *)
IssuedAt(r) == now[r]

(* accessTokenExpiresAt, which the answer names to the millisecond.        *)
AccessExpiresAt(r) == IssuedAt(r) + Ttl

(* Fault: rounded up.                                                      *)
NumericDateUp(ms) == (ms + Second - 1) \div Second

NumericDate(ms) == ms \div Second

Header == [alg |-> "HS256", typ |-> "JWT"]

(* sub is the account of the session's row and goes with sid.              *)
Payload(r) ==
  [sid |-> sess[r],
   iat |-> NumericDate(IssuedAt(r)), exp |-> NumericDate(AccessExpiresAt(r))]

Sign(header, payload) == [key |-> Secret, text |-> <<header, payload>>]

Issue(r) == <<Header, Payload(r), Sign(Header, Payload(r))>>

-----------------------------------------------------------------------------
(* The gateway: AccessTokenGuard and Hs256AccessTokenVerifier.             *)

(* Over the text as it came, before anything of it is decoded.             *)
SignatureMatches(header, payload, signature) ==
  signature = Sign(header, payload)

(* Past the last second in which it can be: exp names a whole second.      *)
Expired(payload, t) == t >= payload.exp * Second

(* readClaims also insists on the type of each claim.                      *)
ClaimsHold(payload, t) ==
  /\ {"sid", "exp"} \subseteq DOMAIN payload
  /\ payload.sid \in Sessions
  /\ payload.exp \in Int
  /\ ~Expired(payload, t)

(* verify, for a text of these segments read at time t.                    *)
Verifies(text, t) ==
  /\ DOMAIN text = 1 .. 3
  /\ SignatureMatches(text[1], text[2], text[3])
  /\ text[1] = Header
  /\ ClaimsHold(text[2], t)

(* What canActivate hands to the handler as the principal's session.       *)
Principal(text) == text[2].sid

-----------------------------------------------------------------------------
AccessInit == Init /\ endedAt = [s \in Sessions |-> Null]

AccessNext ==
  /\ Next
  /\ endedAt' = [s \in Sessions |->
       IF revokedAt[s] = Null /\ revokedAt'[s] # Null THEN clock ELSE endedAt[s]]

AccessSpec == AccessInit /\ [][AccessNext]_accessVars

FairAccessSpec ==
  AccessSpec /\ \A r \in Requests : WF_vars(Step(r))

-----------------------------------------------------------------------------
(* Every reading of a clock at which a token of this behaviour matters.    *)
Horizon == 0 .. MaxTime + Lifetime + Ttl + Second

(* Nothing withdraws an access token, and yet a session that ends takes    *)
(* them with it: none is accepted a Ttl after the revocation took effect   *)
(* or a Ttl after the session's deadline.  This holds of answers to calls  *)
(* that were under way when the session was revoked, too.                  *)
AccessEndsWithTheSession ==
  \A r \in Issuers, t \in Horizon :
    Verifies(Issue(r), t) =>
      LET s == Principal(Issue(r))
      IN /\ t < expiresAt[s] + Ttl
         /\ endedAt[s] # Null => t < endedAt[s] + Ttl

(* The two services agree, though one speaks of milliseconds and the other *)
(* reads seconds: a token is never accepted at or after the expiry its     *)
(* answer named, and never refused before it but in the last second.       *)
ToldExpiryHolds ==
  \A r \in Issuers, t \in Horizon :
    /\ Verifies(Issue(r), t) => t < AccessExpiresAt(r)
    /\ t + Second <= AccessExpiresAt(r) => Verifies(Issue(r), t)
=============================================================================
