---------------------------- MODULE MicrosoftToken ----------------------------
(***************************************************************************)
(* The token cache of a Microsoft connection (SyncService._acquire_token,  *)
(* MicrosoftConnectionRepository): every sync, discovery and refresh reads *)
(* the row, lets MSAL use the cache, and writes the cache back, or flags   *)
(* the row when Microsoft refuses it.  Meanwhile the user may log in       *)
(* again, or disconnect, and other runs do the same.                       *)
(*                                                                         *)
(* A cache is named by the login it comes from: rotating its refresh token *)
(* leaves the older ones good, so caches of one login are alike.           *)
(***************************************************************************)
EXTENDS Integers

CONSTANTS
  TokenRuns,  (* whatever calls _acquire_token, in any process                 *)
  MaxLogins   (* bound: how often the user logs in                             *)

ASSUME TokenAssumption == MaxLogins \in Nat

VARIABLES
  connection,  (* the user's row of microsoft_connections                      *)
  nextRowId,   (* the id its next INSERT gets                                  *)
  logins,      (* how many logins there have been                              *)
  refused,     (* Microsoft: the logins whose refresh tokens it refuses        *)
  tokenRun,    (* the runs                                                     *)
  madeBy,      (* history: the login that made the row there is, or the last   *)
  overlapped   (* history: was a run under way at the last login of this row?  *)

tokenVars == <<connection, nextRowId, logins, refused, tokenRun, madeBy, overlapped>>

NoConnection == [id |-> 0, cache |-> 0, status |-> "none"]
NoTokenRun == [stage |-> "idle", id |-> 0, cache |-> 0]
Connected == connection # NoConnection

----------------------------------------------------------------------------
(* The user *)

(* Mutant: a new login leaves the status of the row *)
UpsertedCacheOnly(id, cache) ==
  [id |-> id, cache |-> cache,
   status |-> IF Connected THEN connection.status ELSE "ACTIVE"]

Upserted(id, cache) == [id |-> id, cache |-> cache, status |-> "ACTIVE"]

(* MicrosoftConnectionRepository.upsert at the end of a login *)
LogInAgain ==
  /\ logins < MaxLogins
  /\ logins' = logins + 1
  /\ connection' = Upserted(IF Connected THEN connection.id ELSE nextRowId, logins')
  /\ nextRowId' = nextRowId + 1
  /\ madeBy' = IF Connected THEN madeBy ELSE logins'
  /\ overlapped' = \E r \in TokenRuns : Connected /\ tokenRun[r].id = connection.id
  /\ UNCHANGED <<refused, tokenRun>>

(* AuthService.disconnect *)
DropConnection ==
  /\ Connected
  /\ connection' = NoConnection
  /\ UNCHANGED <<nextRowId, logins, refused, tokenRun, madeBy, overlapped>>

(* External: consent withdrawn, password changed *)
MicrosoftRevokes ==
  /\ refused' = 1..logins /\ refused' # refused
  /\ UNCHANGED <<connection, nextRowId, logins, tokenRun, madeBy, overlapped>>

----------------------------------------------------------------------------
(* _acquire_token.  The content sync of a notebook does not look at the      *)
(* status of the connection it reads; the other runs want it ACTIVE.         *)
ReadConnection(r, anyStatus) ==
  /\ tokenRun[r].stage = "idle"
  /\ Connected /\ (anyStatus \/ connection.status = "ACTIVE")
  /\ tokenRun' = [tokenRun EXCEPT ![r] =
                    [stage |-> "asking", id |-> connection.id, cache |-> connection.cache]]
  /\ UNCHANGED <<connection, nextRowId, logins, refused, madeBy, overlapped>>

(* MSAL answers from the cached access token, or refreshes it, or raises
   MSALAuthError; any other error ends the run *)
AskMicrosoft(r) ==
  LET run == tokenRun[r] IN
  /\ run.stage = "asking"
  /\ \/ tokenRun' = [tokenRun EXCEPT ![r].stage = "granted"]
     \/ run.cache \in refused /\ tokenRun' = [tokenRun EXCEPT ![r].stage = "denied"]
     \/ tokenRun' = [tokenRun EXCEPT ![r] = NoTokenRun]
  /\ UNCHANGED <<connection, nextRowId, logins, refused, madeBy, overlapped>>

(* Mutant: the user's row is updated, whichever it is *)
UpdatesUsersRow(id) == Connected
UpdatesRow(id) == connection.id = id

(* MicrosoftConnectionRepository.update by id, and the commit *)
SaveOutcome(r) ==
  LET run == tokenRun[r] IN
  /\ run.stage \in {"granted", "denied"}
  /\ connection' = IF ~ UpdatesRow(run.id) THEN connection
                   ELSE IF run.stage = "granted" THEN [connection EXCEPT !.cache = run.cache]
                   ELSE [connection EXCEPT !.status = "NEEDS_REAUTH"]
  /\ tokenRun' = [tokenRun EXCEPT ![r] = NoTokenRun]
  /\ UNCHANGED <<nextRowId, logins, refused, madeBy, overlapped>>

----------------------------------------------------------------------------
TokenInit ==
  /\ connection = NoConnection
  /\ nextRowId = 1
  /\ logins = 0
  /\ refused = {}
  /\ tokenRun = [r \in TokenRuns |-> NoTokenRun]
  /\ madeBy = 0
  /\ overlapped = FALSE

TokenNext ==
  \/ LogInAgain \/ DropConnection \/ MicrosoftRevokes
  \/ \E r \in TokenRuns :
       \/ \E anyStatus \in BOOLEAN : ReadConnection(r, anyStatus)
       \/ AskMicrosoft(r) \/ SaveOutcome(r)

TokenSpec == TokenInit /\ [][TokenNext]_tokenVars

----------------------------------------------------------------------------
(* Every variable holds what the code can store there. *)
TokenTypeOK ==
  /\ connection = NoConnection \/
     connection \in [id : Nat \ {0}, cache : 1..logins, status : {"ACTIVE", "NEEDS_REAUTH"}]
  /\ nextRowId \in Nat \ {0} /\ logins \in Nat
  /\ refused \subseteq 1..logins
  /\ tokenRun \in [TokenRuns -> [stage : {"idle", "asking", "granted", "denied"},
                                 id : Nat, cache : 0..logins]]
  /\ madeBy \in 0..logins
  /\ overlapped \in BOOLEAN

(* A disconnect is final: however long a run that read the old connection goes
   on, and however often the user logs in again meanwhile, the new row holds a
   cache of a login made since the disconnect, and NEEDS_REAUTH says of one of
   those that Microsoft refuses it. *)
DisconnectIsFinal ==
  Connected =>
    /\ connection.cache >= madeBy
    /\ connection.status = "NEEDS_REAUTH" => \E login \in madeBy..logins : login \in refused

(* The user is told to log in again, or has the cache of an earlier login put
   back under the new one, only if a run that had read the earlier cache was
   under way while the user logged in.  Otherwise the row holds the newest
   cache, and NEEDS_REAUTH says that Microsoft refuses it. *)
StaleWritesNeedAnOverlap ==
  Connected /\ ~ overlapped =>
    /\ connection.cache = logins
    /\ connection.status = "NEEDS_REAUTH" => connection.cache \in refused
=============================================================================
