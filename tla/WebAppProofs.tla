----------------------------- MODULE WebAppProofs -----------------------------
(***************************************************************************)
(* What the web application and its MCP server promise, for any number of  *)
(* runs, logins, people, callbacks, rows and clicks, keys, notebooks and   *)
(* pages, and any query: what a run writes about a Microsoft connection is *)
(* true of it, unless it is of an earlier connection, or the run had begun *)
(* before the connection's newest login, and a disconnect is final; a used *)
(* login flow is gone, and an id means one person; the notebook page comes *)
(* to rest with the server's rows; the snippets of an answer end in their  *)
(* pages, apart from each other, have all the text that matched, and are   *)
(* charged for what they cost; a revoked key stays revoked, an answer      *)
(* stays in the scope of its key, and a handle opens the text it was made  *)
(* for.                                                                    *)
(***************************************************************************)
EXTENDS MicrosoftToken, LoginFlow, Dashboard, SnippetSelection, McpServer, FiniteSetTheorems,
        WellFoundedInduction, TLAPS

----------------------------------------------------------------------------
(* The Microsoft connection *)

TokenStages == {"idle", "asking", "granted", "denied"}
Runs == [stage : TokenStages, id : Nat, cache : Nat]
ConnectionRows == [id : Nat \ {0}, cache : Nat, status : {"ACTIVE", "NEEDS_REAUTH"}]

(* Types, and the ids that exist: they have been given out, and 0 is none. *)
TokenShape ==
  /\ connection = NoConnection \/ connection \in ConnectionRows
  /\ nextRowId \in Nat \ {0} /\ logins \in Nat
  /\ Connected => connection.id < nextRowId /\ connection.cache \in 1..logins
  /\ refused \subseteq 1..logins
  /\ tokenRun \in [TokenRuns -> Runs]
  /\ \A r \in TokenRuns :
       /\ tokenRun[r].id < nextRowId /\ tokenRun[r].cache \in 0..logins
       /\ tokenRun[r].stage # "idle" => tokenRun[r].id # 0 /\ tokenRun[r].cache \in 1..logins
       /\ tokenRun[r].stage = "idle" => tokenRun[r].id = 0
  /\ madeBy \in 0..logins
  /\ overlapped \in BOOLEAN

(* What a run knows of the connection as it is now *)
Informed(r) ==
  tokenRun[r].id = connection.id =>
    /\ tokenRun[r].cache = logins
    /\ tokenRun[r].stage = "denied" => tokenRun[r].cache \in refused

RowIsTrue ==
  /\ connection.cache = logins
  /\ connection.status = "NEEDS_REAUTH" => connection.cache \in refused

TokenInv == Connected /\ ~ overlapped => RowIsTrue /\ \A r \in TokenRuns : Informed(r)

LEMMA NoTokenRunTyped == NoTokenRun \in Runs
BY DEF NoTokenRun, Runs, TokenStages

(* A connection has an id, and no connection has none. *)
LEMMA ConnectedHasId ==
  ASSUME TokenShape
  PROVE  Connected <=> connection.id # 0
BY DEF TokenShape, Connected, ConnectionRows, NoConnection

(* Only a run that goes on writes what it holds. *)
LEMMA ShapeStep == TokenShape /\ [TokenNext]_tokenVars => TokenShape'
<1> SUFFICES ASSUME TokenShape, [TokenNext]_tokenVars PROVE TokenShape'
  OBVIOUS
<1>1. CASE LogInAgain
  <2>1. connection' \in ConnectionRows /\ connection'.cache = logins' /\ connection'.id < nextRowId'
    BY <1>1 DEF LogInAgain, Upserted, TokenShape, Connected, ConnectionRows, NoConnection
  <2>2. overlapped' \in BOOLEAN
    BY <1>1, Zenon DEF LogInAgain
  <2>3. logins' \in Nat /\ nextRowId' \in Nat \ {0} /\ logins' = logins + 1 /\ nextRowId' = nextRowId + 1
    BY <1>1 DEF LogInAgain, TokenShape
  <2>4. logins' \in 1..logins' /\ 1..logins \subseteq 1..logins' /\ 0..logins \subseteq 0..logins'
    BY <2>3 DEF TokenShape
  <2>5. /\ refused' \subseteq 1..logins'
        /\ tokenRun' = tokenRun
        /\ madeBy' \in 0..logins'
    BY <1>1, <2>3, <2>4 DEF LogInAgain, TokenShape
  <2>6. \A r \in TokenRuns :
          /\ tokenRun[r].id < nextRowId' /\ tokenRun[r].cache \in 0..logins'
          /\ tokenRun[r].stage # "idle" => tokenRun[r].id # 0 /\ tokenRun[r].cache \in 1..logins'
          /\ tokenRun[r].stage = "idle" => tokenRun[r].id = 0
    BY <2>3, <2>4 DEF TokenShape, Runs
  <2> QED BY <2>1, <2>2, <2>3, <2>4, <2>5, <2>6 DEF TokenShape, Connected
<1>2. CASE DropConnection
  BY <1>2 DEF DropConnection, TokenShape, Connected
<1>3. CASE MicrosoftRevokes
  BY <1>3 DEF MicrosoftRevokes, TokenShape, Connected
<1>4. ASSUME NEW r \in TokenRuns, NEW anyStatus \in BOOLEAN, ReadConnection(r, anyStatus)
      PROVE  TokenShape'
  <2>1. connection \in ConnectionRows /\ connection.id < nextRowId /\ connection.cache \in 1..logins
    BY <1>4 DEF ReadConnection, TokenShape, Connected
  <2>2. [stage |-> "asking", id |-> connection.id, cache |-> connection.cache] \in Runs
    BY <2>1 DEF Runs, TokenStages, ConnectionRows
  <2> QED BY <1>4, <2>1, <2>2 DEF ReadConnection, TokenShape, Connected, ConnectionRows
<1>5. ASSUME NEW r \in TokenRuns, AskMicrosoft(r) PROVE TokenShape'
  <2>1. \E run \in Runs :
          /\ tokenRun' = [tokenRun EXCEPT ![r] = run]
          /\ run.id < nextRowId /\ run.cache \in 0..logins
          /\ run.stage # "idle" => run.id # 0 /\ run.cache \in 1..logins
          /\ run.stage = "idle" => run.id = 0
    BY <1>5, NoTokenRunTyped DEF AskMicrosoft, TokenShape, NoTokenRun, Runs, TokenStages
  <2> QED BY <1>5, <2>1 DEF AskMicrosoft, TokenShape, Connected
<1>6. ASSUME NEW r \in TokenRuns, SaveOutcome(r) PROVE TokenShape'
  <2>1. tokenRun[r].stage # "idle" /\ tokenRun[r].id # 0 /\ tokenRun[r].cache \in 1..logins
    BY <1>6 DEF SaveOutcome, TokenShape
  <2>2. /\ connection' = NoConnection \/ connection' \in ConnectionRows
        /\ Connected' => connection'.id < nextRowId /\ connection'.cache \in 1..logins
    BY <1>6, <2>1, ConnectedHasId
       DEF SaveOutcome, UpdatesRow, TokenShape, Connected, ConnectionRows, NoConnection
  <2>3. tokenRun' = [tokenRun EXCEPT ![r] = NoTokenRun]
    BY <1>6 DEF SaveOutcome
  <2> QED BY <1>6, <2>2, <2>3, NoTokenRunTyped DEF SaveOutcome, TokenShape, NoTokenRun
<1>7. CASE UNCHANGED tokenVars
  BY <1>7 DEF tokenVars, TokenShape, Connected
<1> QED BY <1>1, <1>2, <1>3, <1>4, <1>5, <1>6, <1>7 DEF TokenNext

LEMMA ShapeInvariant == TokenSpec => []TokenShape
<1>1. TokenInit => TokenShape
  <2> SUFFICES ASSUME TokenInit PROVE TokenShape
    OBVIOUS
  <2>1. overlapped \in BOOLEAN
    BY Zenon DEF TokenInit
  <2>2. \A r \in TokenRuns : tokenRun[r] = NoTokenRun
    BY DEF TokenInit
  <2> QED BY <2>1, <2>2, NoTokenRunTyped DEF TokenInit, TokenShape, Connected, NoTokenRun
<1> QED BY <1>1, ShapeStep, PTL DEF TokenSpec

(* The rows and the runs hold what the code can store there. *)
THEOREM TokenTypeCorrect == TokenSpec => []TokenTypeOK
<1>1. TokenShape => TokenTypeOK
  BY DEF TokenShape, TokenTypeOK, ConnectionRows, Runs, TokenStages, Connected
<1> QED BY <1>1, ShapeInvariant, PTL

----------------------------------------------------------------------------
(* A run is informed of the connection it read, until the next login; a later
   connection has an id that no run has seen. *)
LEMMA TokenStep == TokenShape /\ TokenInv /\ [TokenNext]_tokenVars => TokenInv'
<1> SUFFICES ASSUME TokenShape, TokenInv, [TokenNext]_tokenVars, Connected', ~ overlapped'
             PROVE  RowIsTrue' /\ \A q \in TokenRuns : Informed(q)'
  BY DEF TokenInv
<1>1. CASE LogInAgain
  <2>1. connection' = Upserted(IF Connected THEN connection.id ELSE nextRowId, logins')
    BY <1>1 DEF LogInAgain
  <2>2. RowIsTrue'
    BY <2>1 DEF RowIsTrue, Upserted
  <2>3. ASSUME NEW q \in TokenRuns PROVE tokenRun'[q].id # connection'.id
    BY <1>1, <2>1 DEF LogInAgain, Upserted, TokenShape, Runs
  <2> QED BY <2>2, <2>3 DEF Informed
<1>2. CASE DropConnection
  BY <1>2 DEF DropConnection, Connected
<1>3. CASE MicrosoftRevokes
  <2>1. Connected /\ ~ overlapped /\ refused' = 1..logins
    BY <1>3 DEF MicrosoftRevokes, Connected
  <2>2. RowIsTrue /\ \A q \in TokenRuns : Informed(q)
    BY <2>1 DEF TokenInv
  <2>3. connection.cache \in 1..logins
    BY <2>1 DEF TokenShape
  <2>4. logins \in 1..logins
    BY <2>2, <2>3 DEF RowIsTrue
  <2> QED BY <1>3, <2>1, <2>2, <2>4 DEF MicrosoftRevokes, RowIsTrue, Informed
<1>4. ASSUME NEW r \in TokenRuns, NEW anyStatus \in BOOLEAN, ReadConnection(r, anyStatus)
      PROVE  RowIsTrue' /\ \A q \in TokenRuns : Informed(q)'
  <2>1. RowIsTrue /\ \A q \in TokenRuns : Informed(q)
    BY <1>4 DEF ReadConnection, TokenInv
  <2>2. \A q \in TokenRuns : tokenRun'[q] =
          IF q = r THEN [stage |-> "asking", id |-> connection.id, cache |-> connection.cache]
          ELSE tokenRun[q]
    BY <1>4 DEF ReadConnection, TokenShape
  <2> QED BY <1>4, <2>1, <2>2 DEF ReadConnection, RowIsTrue, Informed
<1>5. ASSUME NEW r \in TokenRuns, AskMicrosoft(r)
      PROVE  RowIsTrue' /\ \A q \in TokenRuns : Informed(q)'
  <2>1. RowIsTrue /\ (\A q \in TokenRuns : Informed(q)) /\ connection.id # 0
    BY <1>5, ConnectedHasId DEF AskMicrosoft, TokenInv, Connected
  <2>2. ASSUME NEW q \in TokenRuns PROVE Informed(q)'
    <3>1. \/ tokenRun'[q].id = 0
          \/ /\ tokenRun'[q].id = tokenRun[q].id /\ tokenRun'[q].cache = tokenRun[q].cache
             /\ \/ tokenRun'[q].stage = tokenRun[q].stage
                \/ tokenRun'[q].stage = "granted"
                \/ tokenRun[q].cache \in refused
      BY <1>5 DEF AskMicrosoft, TokenShape, Runs, NoTokenRun
    <3> QED BY <1>5, <2>1, <3>1 DEF AskMicrosoft, Informed
  <2> QED BY <1>5, <2>1, <2>2 DEF AskMicrosoft, RowIsTrue
<1>6. ASSUME NEW r \in TokenRuns, SaveOutcome(r)
      PROVE  RowIsTrue' /\ \A q \in TokenRuns : Informed(q)'
  <2>1. tokenRun[r].stage \in {"granted", "denied"} /\ tokenRun[r].id # 0
    BY <1>6 DEF SaveOutcome, TokenShape
  <2>2. Connected /\ connection'.id = connection.id
    BY <1>6, <2>1, ConnectedHasId
       DEF SaveOutcome, UpdatesRow, TokenShape, Connected, ConnectionRows, NoConnection
  <2>3. RowIsTrue /\ (\A q \in TokenRuns : Informed(q)) /\ connection.id # 0
    BY <1>6, <2>2, ConnectedHasId DEF SaveOutcome, TokenInv
  <2>4. RowIsTrue'
    BY <1>6, <2>1, <2>2, <2>3
       DEF SaveOutcome, UpdatesRow, RowIsTrue, Informed, TokenShape, Connected, ConnectionRows
  <2>5. ASSUME NEW q \in TokenRuns PROVE Informed(q)'
    <3>1. tokenRun'[q] = tokenRun[q] \/ tokenRun'[q].id = 0
      BY <1>6 DEF SaveOutcome, TokenShape, NoTokenRun
    <3> QED BY <1>6, <2>2, <2>3, <3>1 DEF SaveOutcome, Informed
  <2> QED BY <2>4, <2>5
<1>7. CASE UNCHANGED tokenVars
  BY <1>7 DEF tokenVars, TokenInv, RowIsTrue, Informed, Connected
<1> QED BY <1>1, <1>2, <1>3, <1>4, <1>5, <1>6, <1>7 DEF TokenNext

(* The row holds the newest cache, and NEEDS_REAUTH is true of it, unless a
   run was under way at the login (_acquire_token, repository upsert). *)
THEOREM OnlyOverlapsGoStale == TokenSpec => []StaleWritesNeedAnOverlap
<1>1. TokenInit => TokenInv
  BY DEF TokenInit, TokenInv, Connected
<1>2. TokenInv => StaleWritesNeedAnOverlap
  BY DEF TokenInv, RowIsTrue, StaleWritesNeedAnOverlap
<1> QED BY <1>1, <1>2, TokenStep, ShapeInvariant, PTL DEF TokenSpec

(* What a run holds is of a login made since the row was, if the row is the one
   it read, and a run that was denied knows a login that is refused. *)
RunIsOfTheRow(r) ==
  /\ Connected /\ tokenRun[r].id = connection.id => tokenRun[r].cache >= madeBy
  /\ tokenRun[r].stage = "denied" => tokenRun[r].cache \in refused

DisconnectInv == DisconnectIsFinal /\ \A r \in TokenRuns : RunIsOfTheRow(r)

(* Ids are not given again, so no run holds the id of a row made after it read. *)
LEMMA DisconnectStep == TokenShape /\ DisconnectInv /\ [TokenNext]_tokenVars => DisconnectInv'
<1> SUFFICES ASSUME TokenShape, DisconnectInv, [TokenNext]_tokenVars PROVE DisconnectInv'
  OBVIOUS
<1> USE DEF DisconnectInv, DisconnectIsFinal, RunIsOfTheRow
<1>1. CASE LogInAgain
  <2>1. logins \in Nat /\ logins' = logins + 1 /\ madeBy \in 0..logins
    BY <1>1 DEF LogInAgain, TokenShape
  <2>2. connection' = Upserted(IF Connected THEN connection.id ELSE nextRowId, logins')
    BY <1>1 DEF LogInAgain
  <2>3. DisconnectIsFinal'
    BY <1>1, <2>1, <2>2 DEF LogInAgain, Upserted
  <2>4. CASE Connected
    BY <1>1, <2>2, <2>3, <2>4 DEF LogInAgain, Upserted
  <2>5. CASE ~ Connected
    <3>1. \A r \in TokenRuns : tokenRun'[r].id # connection'.id
      BY <1>1, <2>2, <2>5 DEF LogInAgain, Upserted, TokenShape, Runs
    <3> QED BY <1>1, <2>3, <3>1 DEF LogInAgain
  <2> QED BY <2>4, <2>5
<1>2. CASE DropConnection
  BY <1>2 DEF DropConnection, Connected
<1>3. CASE MicrosoftRevokes
  <2>1. refused \subseteq refused'
    BY <1>3 DEF MicrosoftRevokes, TokenShape
  <2> QED BY <1>3, <2>1 DEF MicrosoftRevokes, Connected
<1>4. ASSUME NEW r \in TokenRuns, NEW anyStatus \in BOOLEAN, ReadConnection(r, anyStatus)
      PROVE  DisconnectInv'
  <2>1. \A q \in TokenRuns : tokenRun'[q] =
          IF q = r THEN [stage |-> "asking", id |-> connection.id, cache |-> connection.cache]
          ELSE tokenRun[q]
    BY <1>4 DEF ReadConnection, TokenShape
  <2> QED BY <1>4, <2>1 DEF ReadConnection, Connected
<1>5. ASSUME NEW r \in TokenRuns, AskMicrosoft(r) PROVE DisconnectInv'
  <2>1. ASSUME NEW q \in TokenRuns PROVE RunIsOfTheRow(q)'
    <3>1. \/ tokenRun'[q] = NoTokenRun
          \/ /\ tokenRun'[q].id = tokenRun[q].id /\ tokenRun'[q].cache = tokenRun[q].cache
             /\ \/ tokenRun'[q].stage = tokenRun[q].stage
                \/ tokenRun'[q].stage = "granted"
                \/ tokenRun[q].cache \in refused
      BY <1>5 DEF AskMicrosoft, TokenShape, Runs
    <3>2. Connected => connection.id # 0
      BY ConnectedHasId
    <3> QED BY <1>5, <3>1, <3>2 DEF AskMicrosoft, NoTokenRun, Connected
  <2> QED BY <1>5, <2>1 DEF AskMicrosoft, Connected
<1>6. ASSUME NEW r \in TokenRuns, SaveOutcome(r) PROVE DisconnectInv'
  <2>1. tokenRun[r].stage \in {"granted", "denied"} /\ tokenRun[r].id # 0
        /\ tokenRun[r].cache \in 1..logins
    BY <1>6 DEF SaveOutcome, TokenShape
  <2>2. Connected' => Connected /\ connection'.id = connection.id
    BY <1>6, <2>1, ConnectedHasId
       DEF SaveOutcome, UpdatesRow, TokenShape, Connected, ConnectionRows, NoConnection
  <2>3. \A q \in TokenRuns : RunIsOfTheRow(q)'
    <3>1. \A q \in TokenRuns : tokenRun'[q] = tokenRun[q] \/ tokenRun'[q] = NoTokenRun
      BY <1>6 DEF SaveOutcome, TokenShape
    <3>2. Connected => connection.id # 0
      BY ConnectedHasId
    <3> QED BY <1>6, <2>2, <3>1, <3>2 DEF SaveOutcome, NoTokenRun
  <2>4. DisconnectIsFinal'
    <3>1. CASE ~ UpdatesRow(tokenRun[r].id)
      BY <1>6, <3>1 DEF SaveOutcome, Connected
    <3>2. CASE UpdatesRow(tokenRun[r].id)
      <4>1. Connected /\ connection \in ConnectionRows
        BY <2>1, <3>2 DEF UpdatesRow, TokenShape, Connected, NoConnection
      <4>2. madeBy \in 0..logins /\ logins \in Nat /\ tokenRun[r].cache >= madeBy
        BY <3>2, <4>1 DEF UpdatesRow, TokenShape
      <4>3. CASE tokenRun[r].stage = "granted"
        BY <1>6, <3>2, <4>1, <4>2, <4>3 DEF SaveOutcome, ConnectionRows
      <4>4. CASE tokenRun[r].stage = "denied"
        <5>1. tokenRun[r].cache \in madeBy..logins /\ tokenRun[r].cache \in refused
          BY <2>1, <4>2, <4>4
        <5> QED BY <1>6, <3>2, <4>1, <4>4, <5>1 DEF SaveOutcome, ConnectionRows
      <4> QED BY <2>1, <4>3, <4>4
    <3> QED BY <3>1, <3>2
  <2> QED BY <2>3, <2>4
<1>7. CASE UNCHANGED tokenVars
  BY <1>7 DEF tokenVars, Connected
<1> QED BY <1>1, <1>2, <1>3, <1>4, <1>5, <1>6, <1>7 DEF TokenNext

(* However long a run goes on that read an earlier connection, the row holds a
   cache of a login made since the disconnect, and is flagged for one of those:
   the run updates by id, and ids do not come back. *)
THEOREM DisconnectKept == TokenSpec => []DisconnectIsFinal
<1>1. TokenInit => DisconnectInv
  BY DEF TokenInit, DisconnectInv, DisconnectIsFinal, RunIsOfTheRow, Connected, NoTokenRun
<1>2. DisconnectInv => DisconnectIsFinal
  BY DEF DisconnectInv
<1> QED BY <1>1, <1>2, DisconnectStep, ShapeInvariant, PTL DEF TokenSpec

----------------------------------------------------------------------------
(* Logins: types *)

Flows == [createdAt : 0..LoginTimeLimit, external : BOOLEAN] \cup {NoFlow}
Requests ==
  [stage : {"free", "read", "popped", "redeemed", "upserted", "answered"},
   code : AuthCodes \cup {Nobody}, state : OAuthStates \cup {Nobody}, flow : Flows,
   userId : 0..MaxUserId]
Codes == [state : OAuthStates \cup {Nobody}, by : People \cup {Nobody}, redeemed : BOOLEAN]

LEMMA NobodyIsNoPerson == Nobody \notin People /\ MaxUserId \in Nat /\ LoginTimeLimit \in Nat
BY LoginAssumption DEF Nobody

LEMMA NoCallbackTyped == NoCallback \in Requests
BY NobodyIsNoPerson DEF NoCallback, Requests, Flows

(* A callback that goes on, or ends, is a callback. *)
LEMMA StageTyped ==
  ASSUME callback \in [Callbacks -> Requests], NEW r \in Callbacks,
         NEW s \in {"read", "popped", "redeemed", "upserted", "answered"}
  PROVE  [callback EXCEPT ![r].stage = s] \in [Callbacks -> Requests]
BY DEF Requests

LEMMA RedeemTyped ==
  ASSUME codes \in [AuthCodes -> Codes], NEW k, codes' = [codes EXCEPT ![k].redeemed = TRUE]
  PROVE  codes' \in [AuthCodes -> Codes]
<1> PICK code : code = [codes[k] EXCEPT !.redeemed = TRUE]
  OBVIOUS
<1>1. codes' = [codes EXCEPT ![k] = code]
  OBVIOUS
<1>2. k \in AuthCodes => code \in Codes
  BY DEF Codes
<1> QED BY <1>1, <1>2

LEMMA FinishTyped ==
  ASSUME callback \in [Callbacks -> Requests], NEW r \in Callbacks, Finish(r)
  PROVE  callback' \in [Callbacks -> Requests]
BY NoCallbackTyped DEF Finish

(* A code that was issued, to somebody who signed in for a flow *)
Signed(k) == codes[k].state \in OAuthStates /\ codes[k].state \in begun /\ codes[k].by \in People

SignedFor(r) ==
  /\ callback[r].code \in AuthCodes /\ Signed(callback[r].code)
  /\ callback[r].state \in OAuthStates /\ callback[r].state \in begun

(* A callback under way came with the code of a flow that was begun, and one
   that has written its user has an id. *)
Traced ==
  /\ \A k \in AuthCodes : codes[k] # NoCode => Signed(k)
  /\ \A s \in OAuthStates : flows[s] # NoFlow => s \in begun
  /\ \A s \in signedIn : s \in begun
  /\ \A r \in Callbacks : callback[r].stage # "free" => SignedFor(r)
  /\ \A r \in Callbacks : WroteUser(r) => callback[r].userId # 0

LEMMA LoginTypeStep == LoginTypeOK /\ Traced /\ [LoginNext]_loginVars => LoginTypeOK'
<1> SUFFICES ASSUME LoginTypeOK, Traced, [LoginNext]_loginVars PROVE LoginTypeOK'
  OBVIOUS
<1>1. /\ loginClock \in 0..LoginTimeLimit /\ flows \in [OAuthStates -> Flows]
      /\ begun \subseteq OAuthStates /\ signedIn \subseteq OAuthStates
      /\ codes \in [AuthCodes -> Codes] /\ users \in [People -> 0..MaxUserId]
      /\ sequence \in 0..MaxUserId /\ callback \in [Callbacks -> Requests]
      /\ handedOut \subseteq [userId : 1..MaxUserId, person : People]
  BY DEF LoginTypeOK, Flows, Requests, Codes
<1>2. LoginTypeOK' <=>
      /\ loginClock' \in 0..LoginTimeLimit /\ flows' \in [OAuthStates -> Flows]
      /\ begun' \subseteq OAuthStates /\ signedIn' \subseteq OAuthStates
      /\ codes' \in [AuthCodes -> Codes] /\ users' \in [People -> 0..MaxUserId]
      /\ sequence' \in 0..MaxUserId /\ callback' \in [Callbacks -> Requests]
      /\ handedOut' \subseteq [userId : 1..MaxUserId, person : People]
  BY DEF LoginTypeOK, Flows, Requests, Codes
<1>3. CASE LoginTick
  BY <1>1, <1>2, <1>3, NobodyIsNoPerson DEF LoginTick
<1>4. ASSUME NEW s \in OAuthStates, NEW external \in BOOLEAN, BeginLogin(s, external)
      PROVE  LoginTypeOK'
  BY <1>1, <1>2, <1>4 DEF BeginLogin, Flows
<1>5. ASSUME NEW k \in AuthCodes, NEW s \in OAuthStates, NEW p \in People, Authorize(k, s, p)
      PROVE  LoginTypeOK'
  BY <1>1, <1>2, <1>5 DEF Authorize, Codes
<1>6. ASSUME NEW k \in AuthCodes, NEW r \in Callbacks, ReadFlow(r, k), Signed(k) PROVE LoginTypeOK'
  <2> PICK s : s = codes[k].state
    OBVIOUS
  <2> PICK reading :
        reading = [stage |-> "read", code |-> k, state |-> s, flow |-> flows[s], userId |-> 0]
    OBVIOUS
  <2>1. reading \in Requests
    BY <1>1, <1>6, NobodyIsNoPerson DEF Requests, Signed
  <2>2. callback' = [callback EXCEPT ![r] = reading]
    BY <1>6 DEF ReadFlow
  <2> QED BY <1>1, <1>2, <1>6, <2>1, <2>2 DEF ReadFlow
<1>7. ASSUME NEW r \in Callbacks, PopFlow(r) \/ AbortCallback(r) PROVE LoginTypeOK'
  <2>1. callback' = [callback EXCEPT ![r].stage = "popped"] \/ Finish(r)
    BY <1>7, Zenon DEF PopFlow, AbortCallback
  <2>2. callback' \in [Callbacks -> Requests]
    BY <1>1, <2>1, StageTyped, FinishTyped
  <2> QED BY <1>1, <1>2, <1>7, <2>2 DEF PopFlow, AbortCallback
<1>8. ASSUME NEW r \in Callbacks, ExchangeCode(r) PROVE LoginTypeOK'
  <2>1. callback' = [callback EXCEPT ![r].stage = "redeemed"] \/ Finish(r)
    BY <1>8, Zenon DEF ExchangeCode
  <2>2. callback' \in [Callbacks -> Requests]
    BY <1>1, <2>1, StageTyped, FinishTyped
  <2>3. codes' \in [AuthCodes -> Codes]
    <3>1. codes' = codes \/ codes' = [codes EXCEPT ![callback[r].code].redeemed = TRUE]
      BY <1>8, Zenon DEF ExchangeCode
    <3> QED BY <1>1, <3>1, RedeemTyped
  <2> QED BY <1>1, <1>2, <1>8, <2>2, <2>3 DEF ExchangeCode
<1>9. ASSUME NEW r \in Callbacks, UpsertUser(r), SignedFor(r) PROVE LoginTypeOK'
  <2> DEFINE p == Signer(callback[r].code)
  <2> PICK i : i = (IF users[p] = 0 THEN NextId ELSE users[p])
    OBVIOUS
  <2> PICK reading : reading = [callback[r] EXCEPT !.stage = "upserted", !.userId = i]
    OBVIOUS
  <2>1. sequence + 1 \in 0..MaxUserId /\ sequence' = sequence + 1
    BY <1>1, <1>9, NobodyIsNoPerson DEF UpsertUser
  <2>2. i \in 0..MaxUserId
    <3>1. p \in People /\ users[p] \in 0..MaxUserId
      BY <1>1, <1>9 DEF Signer, SignedFor, Signed
    <3> QED BY <2>1, <3>1 DEF NextId
  <2>3. reading \in Requests
    BY <1>1, <2>2 DEF Requests
  <2>4. callback' = [callback EXCEPT ![r] = reading]
    BY <1>1, <1>9 DEF UpsertUser, Requests
  <2> QED BY <1>1, <1>2, <1>9, <2>1, <2>3, <2>4 DEF UpsertUser
<1>10. ASSUME NEW r \in Callbacks, AnswerCallback(r), SignedFor(r), callback[r].userId # 0
       PROVE  LoginTypeOK'
  <2>1. callback' = [callback EXCEPT ![r].stage = "answered"] \/ Finish(r)
    BY <1>10, Zenon DEF AnswerCallback
  <2>2. callback' \in [Callbacks -> Requests]
    BY <1>1, <2>1, StageTyped, FinishTyped
  <2>3. Identity(r) \in [userId : 1..MaxUserId, person : People]
    BY <1>1, <1>10, NobodyIsNoPerson DEF Identity, SignedFor, Signed, Signer, Requests
  <2> QED BY <1>1, <1>2, <1>10, <2>2, <2>3 DEF AnswerCallback
<1>11. ASSUME NEW r \in Callbacks, CommitCallback(r), SignedFor(r) PROVE LoginTypeOK'
  <2>1. callback' \in [Callbacks -> Requests]
    BY <1>1, <1>11, FinishTyped DEF CommitCallback
  <2>2. flows' \in [OAuthStates -> Flows]
    BY <1>1, <1>11 DEF CommitCallback, FlowsWithout, Flows
  <2>3. users' \in [People -> 0..MaxUserId]
    BY <1>1, <1>11 DEF CommitCallback, SignedFor, Signed, Signer, Requests
  <2> QED BY <1>1, <1>2, <1>11, <2>1, <2>2, <2>3 DEF CommitCallback, SignedFor
<1>12. CASE UNCHANGED loginVars
  BY <1>1, <1>2, <1>12 DEF loginVars
<1>13. ASSUME NEW r \in Callbacks, WroteUser(r)
       PROVE  SignedFor(r) /\ callback[r].userId # 0
  BY <1>13 DEF Traced, WroteUser
<1> QED BY <1>3, <1>4, <1>5, <1>6, <1>7, <1>8, <1>9, <1>10, <1>11, <1>12, <1>13
        DEF LoginNext, ReadFlow, UpsertUser, AnswerCallback, CommitCallback, WroteUser, Traced

----------------------------------------------------------------------------
(* Tracing *)

(* What a step does to the callbacks: one of them moves, and moves on. *)
LEMMA TracedStep == LoginTypeOK /\ Traced /\ [LoginNext]_loginVars => Traced'
<1> SUFFICES ASSUME LoginTypeOK, Traced, [LoginNext]_loginVars PROVE Traced'
  OBVIOUS
<1>1. /\ flows \in [OAuthStates -> Flows] /\ codes \in [AuthCodes -> Codes]
      /\ callback \in [Callbacks -> Requests] /\ sequence \in Nat
      /\ signedIn \subseteq OAuthStates
  BY NobodyIsNoPerson DEF LoginTypeOK, Flows, Requests, Codes
<1> USE DEF Traced, Signed, SignedFor, WroteUser
<1>3. CASE LoginTick \/ UNCHANGED loginVars
  BY <1>3 DEF LoginTick, loginVars
<1>4. ASSUME NEW s \in OAuthStates, NEW external \in BOOLEAN, BeginLogin(s, external)
      PROVE  Traced'
  BY <1>1, <1>4 DEF BeginLogin
<1>5. ASSUME NEW k \in AuthCodes, NEW s \in OAuthStates, NEW p \in People, Authorize(k, s, p)
      PROVE  Traced'
  <2>1. \A q \in Callbacks : callback[q].stage # "free" => callback[q].code # k
    BY <1>5, NobodyIsNoPerson DEF Authorize, NoCode
  <2>2. \A j \in AuthCodes : codes'[j] =
          IF j = k THEN [state |-> s, by |-> p, redeemed |-> FALSE] ELSE codes[j]
    BY <1>1, <1>5 DEF Authorize
  <2> QED BY <1>5, <2>1, <2>2 DEF Authorize
<1>6. ASSUME NEW k \in AuthCodes, NEW r \in Callbacks, ReadFlow(r, k) PROVE Traced'
  BY <1>1, <1>6 DEF ReadFlow
<1>7. ASSUME NEW r \in Callbacks, PopFlow(r) \/ AbortCallback(r) PROVE Traced'
  BY <1>1, <1>7 DEF PopFlow, AbortCallback, Finish, NoCallback, Requests
<1>8. ASSUME NEW r \in Callbacks, ExchangeCode(r) PROVE Traced'
  <2>1. \A k \in AuthCodes :
          /\ codes'[k].by = codes[k].by /\ codes'[k].state = codes[k].state
          /\ codes'[k] # NoCode => codes[k] # NoCode \/ k = callback[r].code
    BY <1>1, <1>8 DEF ExchangeCode, Codes
  <2>2. /\ callback[r].stage = "popped" /\ UNCHANGED <<flows, begun, signedIn>>
        /\ (callback' = [callback EXCEPT ![r].stage = "redeemed"] \/ Finish(r))
    BY <1>8, Zenon DEF ExchangeCode
  <2>3. \A q \in Callbacks :
          \/ callback'[q].stage = "free"
          \/ callback'[q] = callback[q]
          \/ /\ q = r /\ callback'[q].stage = "redeemed"
             /\ callback'[q].state = callback[q].state /\ callback'[q].code = callback[q].code
    BY <1>1, <2>2 DEF Finish, NoCallback, Requests
  <2>4. \A q \in Callbacks : callback'[q].stage # "free" => SignedFor(q)'
    BY <2>1, <2>2, <2>3
  <2>5. \A q \in Callbacks : WroteUser(q)' => callback'[q].userId # 0
    BY <2>2, <2>3
  <2> QED BY <2>1, <2>2, <2>4, <2>5
<1>9. ASSUME NEW r \in Callbacks, UpsertUser(r) PROVE Traced'
  <2> PICK i : i = (IF users[Signer(callback[r].code)] = 0 THEN NextId
                    ELSE users[Signer(callback[r].code)])
    OBVIOUS
  <2>1. i # 0
    BY <1>1 DEF NextId
  <2>2. callback' = [callback EXCEPT ![r].stage = "upserted", ![r].userId = i]
    BY <1>9 DEF UpsertUser
  <2>3. \A q \in Callbacks :
          /\ callback'[q].state = callback[q].state /\ callback'[q].code = callback[q].code
          /\ IF q = r THEN callback'[q].userId = i ELSE callback'[q] = callback[q]
    BY <1>1, <2>2 DEF Requests
  <2>4. callback[r].stage # "free" /\ UNCHANGED <<flows, begun, codes, signedIn>>
    BY <1>9 DEF UpsertUser
  <2> QED BY <2>1, <2>3, <2>4
<1>10. ASSUME NEW r \in Callbacks, AnswerCallback(r) PROVE Traced'
  BY <1>1, <1>10 DEF AnswerCallback, Finish, NoCallback, Requests
<1>11. ASSUME NEW r \in Callbacks, CommitCallback(r) PROVE Traced'
  BY <1>1, <1>11 DEF CommitCallback, FlowsWithout, Finish, NoCallback, Requests
<1> QED BY <1>3, <1>4, <1>5, <1>6, <1>7, <1>8, <1>9, <1>10, <1>11 DEF LoginNext

LEMMA LoginInvariant == LoginSpec => [](LoginTypeOK /\ Traced)
<1>1. LoginInit => LoginTypeOK /\ Traced
  BY NoCallbackTyped, NobodyIsNoPerson
     DEF LoginInit, LoginTypeOK, Traced, WroteUser, NoCallback, NoCode, Requests, Flows
<1> QED BY <1>1, LoginTypeStep, TracedStep, PTL DEF LoginSpec

(* The rows and the callbacks hold what the code can store there. *)
THEOREM LoginTypeCorrect == LoginSpec => []LoginTypeOK
BY LoginInvariant, PTL

(* A flow that somebody signed in with is gone for good: the state of a new
   flow is a new one, and nothing else writes flows (pop_flow, persist_flow). *)
THEOREM UsedFlowsGone == LoginSpec => []UsedFlowIsGone
<1>1. LoginInit => UsedFlowIsGone
  BY DEF LoginInit, UsedFlowIsGone
<1>2. LoginTypeOK /\ Traced /\ UsedFlowIsGone /\ [LoginNext]_loginVars => UsedFlowIsGone'
  <2> SUFFICES ASSUME LoginTypeOK, Traced, UsedFlowIsGone, [LoginNext]_loginVars
               PROVE  UsedFlowIsGone'
    OBVIOUS
  <2>1. flows \in [OAuthStates -> Flows] /\ signedIn \subseteq OAuthStates
    BY DEF LoginTypeOK, Flows
  <2>2. ASSUME NEW s \in OAuthStates, NEW external \in BOOLEAN, BeginLogin(s, external)
        PROVE  UsedFlowIsGone'
    BY <2>1, <2>2 DEF BeginLogin, UsedFlowIsGone, Traced
  <2>3. ASSUME NEW r \in Callbacks, CommitCallback(r) PROVE UsedFlowIsGone'
    BY <2>1, <2>3 DEF CommitCallback, FlowsWithout, UsedFlowIsGone, Traced, SignedFor
  <2>4. CASE UNCHANGED <<flows, signedIn>>
    BY <2>4 DEF UsedFlowIsGone
  <2> QED BY <2>2, <2>3, <2>4
          DEF LoginNext, loginVars, LoginTick, Authorize, ReadFlow, PopFlow, ExchangeCode,
              UpsertUser, AnswerCallback, AbortCallback
<1> QED BY <1>1, <1>2, LoginInvariant, PTL DEF LoginSpec

----------------------------------------------------------------------------
(* Identities *)

(* Who says that the id is the person's: the row, a callback that has written
   one, or a token *)
Claims(i, p) ==
  \/ users[p] = i /\ i # 0
  \/ \E r \in Callbacks : WroteUser(r) /\ callback[r].userId = i /\ Signer(callback[r].code) = p
  \/ [userId |-> i, person |-> p] \in handedOut

(* An id that has been claimed was drawn, and all claims of it name one
   person; callbacks of one person write one after the other, and write the id
   that the person's row has, if there is one. *)
Identified ==
  /\ \A i \in Nat, p \in People : Claims(i, p) => i =< sequence
  /\ \A i \in Nat, p, q \in People : Claims(i, p) /\ Claims(i, q) => p = q
  /\ \A r, q \in Callbacks :
       WroteUser(r) /\ WroteUser(q) /\ Signer(callback[r].code) = Signer(callback[q].code) => r = q
  /\ \A r \in Callbacks :
       WroteUser(r) => users[Signer(callback[r].code)] \in {0, callback[r].userId}

(* A callback that writes its user is of somebody. *)
LEMMA WriterIsSomebody ==
  ASSUME LoginTypeOK, Traced, NEW r \in Callbacks, callback[r].stage # "free"
  PROVE  /\ Signer(callback[r].code) \in People /\ callback[r].code \in AuthCodes
         /\ callback[r].userId \in Nat
BY NobodyIsNoPerson DEF LoginTypeOK, Traced, SignedFor, Signed, Signer

(* Steps that neither add a claim nor draw an id *)
LEMMA NoNewClaim ==
  ASSUME LoginTypeOK, Traced, Identified, sequence' = sequence,
         UNCHANGED <<users, handedOut>>,
         \A r \in Callbacks :
           WroteUser(r)' => /\ WroteUser(r) /\ callback'[r].userId = callback[r].userId
                            /\ Signer(callback[r].code)' = Signer(callback[r].code)
  PROVE  Identified'
<1>1. \A i \in Nat, p \in People : Claims(i, p)' => Claims(i, p)
  BY DEF Claims
<1>2. \A i \in Nat, p \in People : Claims(i, p)' => i =< sequence'
  BY <1>1 DEF Identified
<1>3. \A i \in Nat, p, q \in People : Claims(i, p)' /\ Claims(i, q)' => p = q
  BY <1>1 DEF Identified
<1>4. \A r, q \in Callbacks :
       (WroteUser(r) /\ WroteUser(q) /\ Signer(callback[r].code) = Signer(callback[q].code))' => r = q
  BY DEF Identified
<1>5. \A r \in Callbacks :
       (WroteUser(r) => users[Signer(callback[r].code)] \in {0, callback[r].userId})'
  BY DEF Identified
<1> QED BY <1>2, <1>3, <1>4, <1>5 DEF Identified

(* The upsert claims the id of the row, or one that nobody has claimed. *)
LEMMA UpsertIdentified ==
  ASSUME LoginTypeOK, Traced, Identified, NEW r \in Callbacks, UpsertUser(r)
  PROVE  Identified'
<1> PICK p : p = Signer(callback[r].code)
  OBVIOUS
<1> PICK i : i = (IF users[p] = 0 THEN NextId ELSE users[p])
  OBVIOUS
<1>1. callback \in [Callbacks -> Requests] /\ sequence \in Nat /\ users \in [People -> 0..MaxUserId]
  BY NobodyIsNoPerson DEF LoginTypeOK, Requests, Flows
<1>2. /\ callback[r].stage = "redeemed" /\ ~ UserLocked(p, r) /\ sequence' = sequence + 1
      /\ callback' = [callback EXCEPT ![r].stage = "upserted", ![r].userId = i]
      /\ UNCHANGED <<codes, users, handedOut>>
  BY DEF UpsertUser, MayUpsert
<1>3. p \in People
  BY <1>2, WriterIsSomebody
<1>4. i \in Nat /\ i # 0 /\ i =< sequence' /\ (users[p] = 0 => i = sequence + 1) /\ (users[p] # 0 => i = users[p])
  <2>1. users[p] \in Nat
    BY <1>1, <1>3, NobodyIsNoPerson
  <2>2. users[p] # 0 => users[p] =< sequence
    BY <1>3, <2>1 DEF Identified, Claims
  <2> QED BY <1>1, <1>2, <2>1, <2>2 DEF NextId
<1>5. /\ WroteUser(r)' /\ callback'[r].userId = i /\ Signer(callback[r].code)' = p
      /\ \A q \in Callbacks \ {r} :
           /\ WroteUser(q)' <=> WroteUser(q)
           /\ callback'[q].userId = callback[q].userId
           /\ Signer(callback[q].code)' = Signer(callback[q].code)
  BY <1>1, <1>2 DEF WroteUser, Signer, Requests
<1>6. \A j \in Nat, q \in People : Claims(j, q)' => Claims(j, q) \/ (j = i /\ q = p)
  BY <1>2, <1>5 DEF Claims
<1>7. \A q \in People : Claims(i, q) => q = p
  <2>1. CASE users[p] # 0
    <3>1. Claims(i, p)
      BY <1>4, <2>1 DEF Claims
    <3> QED BY <1>3, <1>4, <3>1 DEF Identified
  <2>2. CASE users[p] = 0
    BY <1>1, <1>4, <2>2 DEF Identified
  <2> QED BY <2>1, <2>2
<1>8. \A j \in Nat, q \in People : Claims(j, q)' => j =< sequence'
  BY <1>1, <1>2, <1>4, <1>6 DEF Identified
<1>9. \A j \in Nat, q, s \in People : Claims(j, q)' /\ Claims(j, s)' => q = s
  BY <1>6, <1>7 DEF Identified
<1>10. ASSUME NEW q \in Callbacks, NEW s \in Callbacks, WroteUser(q)', WroteUser(s)',
              Signer(callback[q].code)' = Signer(callback[s].code)'
       PROVE  q = s
  <2>1. \A o \in Callbacks \ {r} : ~ (WroteUser(o) /\ Signer(callback[o].code) = p)
    BY <1>2 DEF UserLocked
  <2>2. CASE q # r /\ s # r
    BY <1>5, <1>10, <2>2 DEF Identified
  <2>3. CASE q = r \/ s = r
    BY <1>5, <1>10, <2>1, <2>3
  <2> QED BY <2>2, <2>3
<1>11. \A q \in Callbacks :
        (WroteUser(q) => users[Signer(callback[q].code)] \in {0, callback[q].userId})'
  BY <1>2, <1>4, <1>5 DEF Identified
<1> QED BY <1>8, <1>9, <1>10, <1>11 DEF Identified

(* What leaves in the answer is what the callback claims. *)
LEMMA AnswerIdentified ==
  ASSUME LoginTypeOK, Traced, Identified, NEW r \in Callbacks, AnswerCallback(r)
  PROVE  Identified'
<1>1. callback \in [Callbacks -> Requests]
  BY DEF LoginTypeOK, Requests, Flows
<1>2. /\ callback[r].stage = "upserted" /\ handedOut' = handedOut \cup {Identity(r)}
      /\ UNCHANGED <<codes, users, sequence>>
      /\ callback' = [callback EXCEPT ![r].stage = "answered"] \/ Finish(r)
  BY Zenon DEF AnswerCallback
<1>3. \A q \in Callbacks :
        WroteUser(q)' => /\ WroteUser(q) /\ callback'[q].userId = callback[q].userId
                         /\ Signer(callback[q].code)' = Signer(callback[q].code)
  BY <1>1, <1>2 DEF Finish, NoCallback, WroteUser, Signer, Requests
<1>4. \A i \in Nat, p \in People : Claims(i, p)' => Claims(i, p)
  <2>1. WroteUser(r)
    BY <1>2 DEF WroteUser
  <2> QED BY <1>2, <1>3, <2>1 DEF Claims, Identity
<1>5. \A i \in Nat, p \in People : Claims(i, p)' => i =< sequence'
  BY <1>2, <1>4 DEF Identified
<1>6. \A i \in Nat, p, q \in People : Claims(i, p)' /\ Claims(i, q)' => p = q
  BY <1>4 DEF Identified
<1>7. \A s, q \in Callbacks :
       (WroteUser(s) /\ WroteUser(q) /\ Signer(callback[s].code) = Signer(callback[q].code))' => s = q
  BY <1>3 DEF Identified
<1>8. \A s \in Callbacks :
       (WroteUser(s) => users[Signer(callback[s].code)] \in {0, callback[s].userId})'
  BY <1>2, <1>3 DEF Identified
<1> QED BY <1>5, <1>6, <1>7, <1>8 DEF Identified

(* The commit gives the row the id that the callback claims, and the row
   claims no other: it had none, or that one. *)
LEMMA CommitIdentified ==
  ASSUME LoginTypeOK, Traced, Identified, NEW r \in Callbacks, CommitCallback(r)
  PROVE  /\ Identified'
         /\ \A p \in People : users[p] # 0 => users'[p] = users[p]
<1> PICK p : p = Signer(callback[r].code)
  OBVIOUS
<1>1. callback \in [Callbacks -> Requests] /\ users \in [People -> 0..MaxUserId]
  BY DEF LoginTypeOK, Requests, Flows
<1>2. /\ WroteUser(r) /\ callback[r].stage # "free"
      /\ users' = [users EXCEPT ![p] = callback[r].userId]
      /\ callback' = [callback EXCEPT ![r] = NoCallback]
      /\ UNCHANGED <<codes, sequence, handedOut>>
  BY DEF CommitCallback, Finish, WroteUser
<1>3. p \in People
  BY <1>2, WriterIsSomebody
<1>4. users[p] \in {0, callback[r].userId}
  BY <1>2 DEF Identified
<1>5. \A q \in People : users[q] # 0 => users'[q] = users[q]
  BY <1>1, <1>2, <1>3, <1>4
<1>6. ~ WroteUser(r)' /\ \A q \in Callbacks \ {r} :
        /\ WroteUser(q)' <=> WroteUser(q)
        /\ callback'[q].userId = callback[q].userId
        /\ Signer(callback[q].code)' = Signer(callback[q].code)
  BY <1>1, <1>2 DEF WroteUser, Signer, NoCallback
<1>7. \A i \in Nat, q \in People : Claims(i, q)' => Claims(i, q)
  BY <1>1, <1>2, <1>3, <1>6 DEF Claims
<1>8. \A i \in Nat, q \in People : Claims(i, q)' => i =< sequence'
  BY <1>2, <1>7 DEF Identified
<1>9. \A i \in Nat, q, s \in People : Claims(i, q)' /\ Claims(i, s)' => q = s
  BY <1>7 DEF Identified
<1>10. \A s, q \in Callbacks :
        (WroteUser(s) /\ WroteUser(q) /\ Signer(callback[s].code) = Signer(callback[q].code))' => s = q
  BY <1>6 DEF Identified
<1>11. \A s \in Callbacks :
        (WroteUser(s) => users[Signer(callback[s].code)] \in {0, callback[s].userId})'
  <2>1. ASSUME NEW s \in Callbacks \ {r}, WroteUser(s)
        PROVE  Signer(callback[s].code) # p /\ users[Signer(callback[s].code)] \in {0, callback[s].userId}
    BY <1>2, <2>1 DEF Identified
  <2> QED BY <1>1, <1>2, <1>6, <2>1
<1> QED BY <1>5, <1>8, <1>9, <1>10, <1>11 DEF Identified

LEMMA IdentifiedStep == LoginTypeOK /\ Traced /\ Identified /\ [LoginNext]_loginVars => Identified'
<1> SUFFICES ASSUME LoginTypeOK, Traced, Identified, [LoginNext]_loginVars PROVE Identified'
  OBVIOUS
<1>1. callback \in [Callbacks -> Requests] /\ codes \in [AuthCodes -> Codes]
  BY DEF LoginTypeOK, Requests, Flows, Codes
<1> DEFINE Quiet == \A r \in Callbacks :
             WroteUser(r)' => /\ WroteUser(r) /\ callback'[r].userId = callback[r].userId
                              /\ Signer(callback[r].code)' = Signer(callback[r].code)
<1>2. CASE LoginTick \/ UNCHANGED loginVars
      \/ \E s \in OAuthStates, external \in BOOLEAN : BeginLogin(s, external)
  <2>1. Quiet /\ UNCHANGED <<users, handedOut, sequence>>
    BY <1>2 DEF LoginTick, loginVars, BeginLogin, WroteUser, Signer
  <2> QED BY <2>1, NoNewClaim
<1>3. ASSUME NEW k \in AuthCodes, NEW s \in OAuthStates, NEW p \in People, Authorize(k, s, p)
      PROVE  Identified'
  <2>1. ASSUME NEW r \in Callbacks, WroteUser(r)
        PROVE  Signer(callback[r].code)' = Signer(callback[r].code)
    <3>1. callback[r].stage # "free" /\ callback[r].code \in AuthCodes
      BY <2>1, WriterIsSomebody DEF WroteUser
    <3>2. codes[callback[r].code].by # Nobody
      BY <3>1, WriterIsSomebody, NobodyIsNoPerson DEF Signer
    <3>3. callback[r].code # k
      BY <1>3, <3>2 DEF Authorize, NoCode
    <3> QED BY <1>1, <1>3, <3>1, <3>3 DEF Authorize, Signer
  <2>2. Quiet /\ UNCHANGED <<users, handedOut, sequence>>
    BY <1>3, <2>1 DEF Authorize, WroteUser
  <2> QED BY <2>2, NoNewClaim
<1>4. ASSUME NEW k \in AuthCodes, NEW r \in Callbacks, ReadFlow(r, k) PROVE Identified'
  <2>1. Quiet /\ UNCHANGED <<users, handedOut, sequence>>
    BY <1>1, <1>4 DEF ReadFlow, WroteUser, Signer, Requests
  <2> QED BY <2>1, NoNewClaim
<1>5. ASSUME NEW r \in Callbacks, PopFlow(r) \/ ExchangeCode(r) \/ AbortCallback(r)
      PROVE  Identified'
  <2>1. /\ UNCHANGED <<users, handedOut, sequence>>
        /\ \A k \in AuthCodes : codes'[k].by = codes[k].by
    BY <1>1, <1>5 DEF PopFlow, ExchangeCode, AbortCallback, Codes
  <2>2. ASSUME NEW q \in Callbacks, WroteUser(q)' PROVE callback'[q] = callback[q]
    BY <1>1, <1>5, <2>2 DEF PopFlow, ExchangeCode, AbortCallback, Finish, NoCallback, WroteUser, Requests
  <2>3. Quiet
    <3>1. ASSUME NEW q \in Callbacks, WroteUser(q)' PROVE callback[q].code \in AuthCodes
      BY <2>2, <3>1, WriterIsSomebody DEF WroteUser
    <3> QED BY <2>1, <2>2, <3>1 DEF WroteUser, Signer
  <2> QED BY <2>1, <2>3, NoNewClaim
<1> QED BY <1>2, <1>3, <1>4, <1>5, UpsertIdentified, AnswerIdentified, CommitIdentified DEF LoginNext

LEMMA IdentifiedInvariant == LoginSpec => []Identified
<1>1. LoginInit => Identified
  BY DEF LoginInit, Identified, Claims, WroteUser, NoCallback
<1> QED BY <1>1, IdentifiedStep, LoginInvariant, PTL DEF LoginSpec

(* An id that has left in a JWT or for WorkOS never resolves to another
   person, for ids come from a sequence that no rollback turns back
   (UserRepository.upsert_by_oid, get_session). *)
THEOREM IdentitiesUnshared == LoginSpec => []IdentitiesAreNeverShared
<1>1. LoginTypeOK /\ Identified => IdentitiesAreNeverShared
  <2> SUFFICES ASSUME LoginTypeOK, Identified, NEW identity \in handedOut, NEW p \in People,
                      users[p] = identity.userId
               PROVE  p = identity.person
    BY DEF IdentitiesAreNeverShared
  <2>1. /\ identity = [userId |-> identity.userId, person |-> identity.person]
        /\ identity.userId \in Nat /\ identity.userId # 0 /\ identity.person \in People
    BY NobodyIsNoPerson DEF LoginTypeOK
  <2>2. Claims(identity.userId, p) /\ Claims(identity.userId, identity.person)
    BY <2>1 DEF Claims
  <2> QED BY <2>1, <2>2 DEF Identified
<1> QED BY <1>1, LoginInvariant, IdentifiedInvariant, PTL

(* Whoever has signed in keeps the id: overlapping first logins of a person
   wait for each other at the upsert by oid. *)
THEOREM UserIdsKept == LoginSpec => UsersKeepTheirId
<1>1. LoginTypeOK /\ Traced /\ Identified /\ [LoginNext]_loginVars =>
        [\A p \in People : users[p] # 0 => users'[p] = users[p]]_loginVars
  <2> SUFFICES ASSUME LoginTypeOK, Traced, Identified, LoginNext
               PROVE  \A p \in People : users[p] # 0 => users'[p] = users[p]
    OBVIOUS
  <2>1. ASSUME NEW r \in Callbacks, CommitCallback(r)
        PROVE  \A p \in People : users[p] # 0 => users'[p] = users[p]
    BY <2>1, CommitIdentified
  <2>2. CASE UNCHANGED users
    BY <2>2
  <2> QED BY <2>1, <2>2
          DEF LoginNext, LoginTick, BeginLogin, Authorize, ReadFlow, PopFlow, ExchangeCode,
              UpsertUser, AnswerCallback, AbortCallback
<1> QED BY <1>1, LoginInvariant, IdentifiedInvariant, PTL DEF LoginSpec, UsersKeepTheirId

----------------------------------------------------------------------------
(* The notebook page *)

(* Something is under way that ends with the list read again *)
Awaited ==
  \/ \E m \in Posts : syncing[m] # Unsent
  \/ \E r \in Rows : toggling[r].stage = "replied"

(* Rows that show the server's, or a SYNCING that will be polled away *)
UpToDate(rows) ==
  \A r \in Rows \ missed : /\ rows[r].enabled = served[r].enabled
                           /\ rows[r].status \in {served[r].status, "SYNCING"}

PageIsFollowed ==
  /\ fetch.stage = "read" => Awaited \/ UpToDate(fetch.rows)
  /\ fetch = NoFetch => Awaited \/ readFailed \/ UpToDate(cached)

DashboardInv == DashboardTypeOK /\ PageIsFollowed

PostStates ==
  {Unsent} \cup [stage : {"sent", "accepted", "failed"}, row : Rows, previous : [Rows -> RowStates]]
PatchStates == {Unsent} \cup [stage : {"sent", "replied", "failed"}, enabled : BOOLEAN]
LateStates == [row : Rows, sets : {{}, {TRUE}, {FALSE}}]
FetchStates == {NoFetch, Asked} \cup [stage : {"read"}, rows : [Rows -> RowStates]]

LEMMA RowChanges ==
  ASSUME NEW s \in RowStates, NEW status \in {"FRESH", "SYNCING", "FAILED"}, NEW on \in BOOLEAN
  PROVE  [s EXCEPT !.status = status] \in RowStates /\ [s EXCEPT !.enabled = on] \in RowStates
  BY DEF RowStates

LEMMA DashboardTypeStep == DashboardTypeOK /\ [DashboardNext]_dashboardVars => DashboardTypeOK'
<1> SUFFICES ASSUME DashboardTypeOK, [DashboardNext]_dashboardVars PROVE DashboardTypeOK'
  OBVIOUS
<1> USE DEF PostStates, PatchStates, FetchStates, LateStates
<1>0. /\ served \in [Rows -> RowStates] /\ cached \in [Rows -> RowStates]
      /\ tentative \in [Rows -> {{}, {TRUE}, {FALSE}}]
      /\ fetch \in FetchStates /\ syncing \in [Posts -> PostStates]
      /\ toggling \in [Rows -> PatchStates] /\ late \subseteq LateStates
      /\ readFailed \in BOOLEAN /\ missed \subseteq Rows
      /\ clicks \in 0..MaxClicks /\ outside \in 0..MaxOutside
      /\ MaxClicks \in Nat /\ MaxOutside \in Nat
  BY DashboardAssumption DEF DashboardTypeOK
<1> HIDE DEF PostStates, PatchStates, FetchStates, LateStates
<1>1. ASSUME served' \in [Rows -> RowStates], cached' \in [Rows -> RowStates],
             tentative' \in [Rows -> {{}, {TRUE}, {FALSE}}],
             fetch' \in FetchStates, syncing' \in [Posts -> PostStates],
             toggling' \in [Rows -> PatchStates], late' \subseteq LateStates,
             readFailed' \in BOOLEAN, missed' \subseteq Rows,
             clicks' \in 0..MaxClicks, outside' \in 0..MaxOutside
      PROVE  DashboardTypeOK'
  BY <1>1 DEF DashboardTypeOK, PostStates, PatchStates, FetchStates, LateStates
<1>2. NoFetch \in FetchStates /\ Asked \in FetchStates
  BY DEF FetchStates
<1>3. Clicked => clicks' \in 0..MaxClicks
  BY <1>0 DEF Clicked
<1>4. CASE Refetch \/ FetchFails
  BY <1>0, <1>1, <1>2, <1>4 DEF Refetch, FetchFails
<1>5. CASE ListNotebooks
  <2>1. fetch' \in FetchStates
    BY <1>0, <1>5 DEF ListNotebooks, FetchStates
  <2> QED BY <1>0, <1>1, <1>5, <2>1 DEF ListNotebooks
<1>6. CASE FetchArrives
  <2>1. cached' \in [Rows -> RowStates]
    BY <1>0, <1>6 DEF FetchArrives, FetchStates, NoFetch, Asked
  <2> QED BY <1>0, <1>1, <1>2, <1>6, <2>1 DEF FetchArrives
<1>7. ASSUME NEW m \in Posts, NEW r \in Rows, ClickSync(m, r) PROVE DashboardTypeOK'
  <2>1. Flipped(r) \in [Rows -> RowStates]
    <3>1. [cached[r] EXCEPT !.status = "SYNCING"] \in RowStates
      BY <1>0, RowChanges
    <3> QED BY <1>0, <3>1 DEF Flipped
  <2>2. syncing' \in [Posts -> PostStates]
    <3>1. [stage |-> "sent", row |-> r, previous |-> cached] \in PostStates
      BY <1>0 DEF PostStates
    <3> QED BY <1>0, <1>7, <3>1 DEF ClickSync
  <2> QED BY <1>0, <1>1, <1>2, <1>3, <1>7, <2>1, <2>2 DEF ClickSync
<1>8. ASSUME NEW m \in Posts, ServeSync(m) PROVE DashboardTypeOK'
  <2>1. syncing[m] \in PostStates /\ syncing[m].row \in Rows
    BY <1>0, <1>8 DEF ServeSync, PostStates, Unsent
  <2>2. \A reply \in {"accepted", "failed"} : [syncing[m] EXCEPT !.stage = reply] \in PostStates
    BY <2>1, <1>8 DEF ServeSync, PostStates, Unsent
  <2>3. syncing' \in [Posts -> PostStates] /\ late' \subseteq LateStates
    <3>1. LateSync(syncing[m].row) \in LateStates
      BY <2>1 DEF LateSync, LateStates
    <3>2. late' = late \/ late' = late \cup {LateSync(syncing[m].row)}
      BY <1>8 DEF ServeSync
    <3> QED BY <1>0, <1>8, <2>2, <3>1, <3>2 DEF ServeSync
  <2>4. served' \in [Rows -> RowStates]
    <3>1. [served[syncing[m].row] EXCEPT !.status = "SYNCING"] \in RowStates
      BY <1>0, <2>1, RowChanges
    <3> QED BY <1>0, <1>8, <3>1 DEF ServeSync
  <2> QED BY <1>0, <1>1, <1>8, <2>3, <2>4 DEF ServeSync
<1>9. ASSUME NEW m \in Posts, SettleSync(m) PROVE DashboardTypeOK'
  <2>1. cached' \in [Rows -> RowStates]
    BY <1>0, <1>9 DEF SettleSync, PostStates, Unsent
  <2>2. syncing' \in [Posts -> PostStates]
    BY <1>0, <1>9 DEF SettleSync, PostStates
  <2> QED BY <1>0, <1>1, <1>2, <1>9, <2>1, <2>2 DEF SettleSync, Invalidated
<1>10. ASSUME NEW r \in Rows, ClickToggle(r) PROVE DashboardTypeOK'
  <2>1. toggling' \in [Rows -> PatchStates]
    BY <1>0, <1>10 DEF ClickToggle, PatchStates
  <2> QED BY <1>0, <1>1, <1>3, <1>10, <2>1 DEF ClickToggle
<1>11. ASSUME NEW r \in Rows, ServeToggle(r) PROVE DashboardTypeOK'
  <2>1. toggling[r] \in [stage : {"sent", "replied", "failed"}, enabled : BOOLEAN]
    BY <1>0, <1>11 DEF ServeToggle, PatchStates, Unsent
  <2>2. \A reply \in {"replied", "failed"} : [toggling[r] EXCEPT !.stage = reply] \in PatchStates
    BY <2>1 DEF PatchStates
  <2>3. toggling' \in [Rows -> PatchStates] /\ late' \subseteq LateStates
    <3>1. LateToggle(r) \in LateStates
      BY <2>1 DEF LateToggle, LateStates
    <3> QED BY <1>0, <1>11, <2>2, <3>1 DEF ServeToggle
  <2>4. tentative' \in [Rows -> {{}, {TRUE}, {FALSE}}]
    <3>1. {toggling[r].enabled} \in {{}, {TRUE}, {FALSE}}
      BY <2>1
    <3> QED BY <1>0, <1>11, <3>1 DEF ServeToggle
  <2> QED BY <1>0, <1>1, <1>11, <2>3, <2>4 DEF ServeToggle
<1>12. ASSUME NEW r \in Rows, SettleToggle(r) PROVE DashboardTypeOK'
  <2>1. toggling' \in [Rows -> PatchStates]
    BY <1>0, <1>12 DEF SettleToggle, PatchStates
  <2> QED BY <1>0, <1>1, <1>2, <1>12, <2>1 DEF SettleToggle, Invalidated
<1>13. ASSUME NEW r \in Rows, EndToggle(r) PROVE DashboardTypeOK'
  <2>1. tentative' \in [Rows -> {{}, {TRUE}, {FALSE}}]
    BY <1>0, <1>13 DEF EndToggle
  <2>2. \A on \in tentative[r] : on \in BOOLEAN
    BY <1>0
  <2>3. \A on \in tentative[r] : [served[r] EXCEPT !.enabled = on] \in RowStates
    BY <1>0, <2>2, RowChanges
  <2>4. served' \in [Rows -> RowStates]
    <3>1. \/ served' = served
          \/ \E on \in tentative[r] : served' = [served EXCEPT ![r].enabled = on]
      BY <1>13 DEF EndToggle
    <3>2. ASSUME NEW on \in tentative[r], served' = [served EXCEPT ![r].enabled = on]
          PROVE  served' \in [Rows -> RowStates]
      BY <1>0, <2>3, <3>2
    <3> QED BY <1>0, <3>1, <3>2
  <2> QED BY <1>0, <1>1, <1>13, <2>1, <2>4 DEF EndToggle
<1>14. ASSUME NEW r \in Rows, WorkerFinishes(r) \/ WorkerStarts(r) PROVE DashboardTypeOK'
  <2>1. \A status \in {"FRESH", "SYNCING", "FAILED"} : [served[r] EXCEPT !.status = status] \in RowStates
    BY <1>0, RowChanges
  <2>2. served' \in [Rows -> RowStates]
    BY <1>0, <1>14, <2>1 DEF WorkerFinishes, WorkerStarts
  <2>3. missed' \subseteq Rows /\ outside' \in 0..MaxOutside
    BY <1>0, <1>14 DEF WorkerFinishes, WorkerStarts
  <2>4. UNCHANGED <<tentative, cached, fetch, syncing, toggling, late, readFailed, clicks>>
    BY <1>14 DEF WorkerFinishes, WorkerStarts
  <2> QED BY <1>0, <1>1, <2>2, <2>3, <2>4
<1>15. ASSUME NEW q \in late, ServeLate(q) PROVE DashboardTypeOK'
  <2>1. q.row \in Rows /\ q.sets \in {{}, {TRUE}, {FALSE}}
    BY <1>0 DEF LateStates
  <2>2. [served[q.row] EXCEPT !.status = "SYNCING"] \in RowStates
    BY <1>0, <2>1, RowChanges
  <2>3. /\ served' \in [Rows -> RowStates] /\ tentative' \in [Rows -> {{}, {TRUE}, {FALSE}}]
        /\ missed' \subseteq Rows /\ late' \subseteq LateStates
    BY <1>0, <1>15, <2>1, <2>2 DEF ServeLate
  <2> QED BY <1>0, <1>1, <1>15, <2>3 DEF ServeLate
<1>16. CASE UNCHANGED dashboardVars
  BY <1>0, <1>1, <1>16 DEF dashboardVars
<1> QED
  BY <1>4, <1>5, <1>6, <1>7, <1>8, <1>9, <1>10, <1>11, <1>12, <1>13, <1>14, <1>15, <1>16
  DEF DashboardNext

(* A page that awaits nothing new goes on as it was. *)
LEMMA PageGoesOn ==
  ASSUME PageIsFollowed, UNCHANGED <<fetch, cached, readFailed>>, Awaited => Awaited',
         \A rows : UpToDate(rows) => UpToDate(rows)'
  PROVE  PageIsFollowed'
  BY DEF PageIsFollowed

LEMMA PageFollowedStep ==
  ASSUME DashboardInv, [DashboardNext]_dashboardVars
  PROVE  PageIsFollowed'
<1>0. /\ PageIsFollowed /\ served \in [Rows -> RowStates]
      /\ toggling \in [Rows -> PatchStates] /\ syncing \in [Posts -> PostStates]
  BY DEF DashboardInv, DashboardTypeOK, PostStates, PatchStates
<1>1. ASSUME fetch' = Asked PROVE PageIsFollowed'
  BY <1>1 DEF PageIsFollowed, Asked, NoFetch
<1>2. ASSUME Awaited' PROVE PageIsFollowed'
  BY <1>2 DEF PageIsFollowed
<1>3. CASE Refetch
  BY <1>1, <1>3 DEF Refetch
<1>4. CASE ListNotebooks
  BY <1>4 DEF ListNotebooks, PageIsFollowed, UpToDate, NoFetch
<1>5. CASE FetchArrives
  BY <1>0, <1>5 DEF FetchArrives, PageIsFollowed, UpToDate, Awaited, NoFetch
<1>6. CASE FetchFails
  BY <1>6 DEF FetchFails, PageIsFollowed, NoFetch
<1>7. ASSUME NEW m \in Posts, (\E r \in Rows : ClickSync(m, r)) \/ ServeSync(m)
      PROVE  PageIsFollowed'
  <2>1. syncing'[m] # Unsent
    BY <1>0, <1>7 DEF ClickSync, ServeSync, Unsent, PostStates
  <2> QED BY <1>2, <2>1 DEF Awaited
<1>8. ASSUME NEW m \in Posts, SettleSync(m) PROVE PageIsFollowed'
  BY <1>1, <1>8 DEF SettleSync, Invalidated
<1>9. ASSUME NEW r \in Rows, ClickToggle(r) \/ ServeToggle(r) PROVE PageIsFollowed'
  <2>1. Awaited => Awaited'
    <3>1. toggling[r].stage # "replied" /\ \A q \in Rows : q # r => toggling'[q] = toggling[q]
      BY <1>0, <1>9 DEF ClickToggle, ServeToggle, Unsent
    <3> QED BY <1>9, <3>1 DEF Awaited, ClickToggle, ServeToggle
  <2>2. \A rows : UpToDate(rows) => UpToDate(rows)'
    BY <1>9 DEF UpToDate, ClickToggle, ServeToggle
  <2> QED BY <1>0, <1>9, <2>1, <2>2, PageGoesOn DEF ClickToggle, ServeToggle
<1>10. ASSUME NEW r \in Rows, SettleToggle(r) PROVE PageIsFollowed'
  <2>1. CASE toggling[r].stage = "replied"
    BY <1>1, <1>10, <2>1 DEF SettleToggle, Invalidated
  <2>2. CASE toggling[r].stage = "failed"
    <3>1. Awaited => Awaited'
      BY <1>0, <1>10, <2>2 DEF Awaited, SettleToggle
    <3>2. \A rows : UpToDate(rows) => UpToDate(rows)'
      BY <1>10 DEF UpToDate, SettleToggle
    <3> QED BY <1>0, <1>10, <2>2, <3>1, <3>2, PageGoesOn DEF SettleToggle
  <2> QED BY <1>10, <2>1, <2>2 DEF SettleToggle
<1>11. ASSUME NEW r \in Rows, EndToggle(r) PROVE PageIsFollowed'
  <2>1. Awaited => Awaited'
    BY <1>11 DEF Awaited, EndToggle
  <2>2. CASE toggling[r].stage = "replied"
    BY <1>2, <2>1, <2>2 DEF Awaited
  <2>3. CASE toggling[r].stage # "replied"
    <3>1. \A q \in Rows \ missed' : served'[q] = served[q]
      BY <1>0, <1>11, <2>3 DEF EndToggle
    <3>2. missed \subseteq missed'
      BY <1>11 DEF EndToggle
    <3>3. \A rows : UpToDate(rows) => UpToDate(rows)'
      BY <3>1, <3>2 DEF UpToDate
    <3> QED BY <1>0, <1>11, <2>1, <3>3, PageGoesOn DEF EndToggle
  <2> QED BY <2>2, <2>3
<1>12. ASSUME NEW r \in Rows, WorkerFinishes(r) \/ WorkerStarts(r) PROVE PageIsFollowed'
  <2>1. Awaited => Awaited'
    BY <1>12 DEF Awaited, WorkerFinishes, WorkerStarts
  <2>2. /\ \A q \in Rows : q # r => served'[q] = served[q]
        /\ served'[r].enabled = served[r].enabled
    BY <1>0, <1>12 DEF WorkerFinishes, WorkerStarts, RowStates
  <2>3. \A rows : UpToDate(rows) => UpToDate(rows)'
    BY <1>12, <2>2 DEF UpToDate, WorkerFinishes, WorkerStarts
  <2> QED BY <1>0, <1>12, <2>1, <2>3, PageGoesOn DEF WorkerFinishes, WorkerStarts
<1>13. ASSUME NEW q \in late, ServeLate(q) PROVE PageIsFollowed'
  <2>1. Awaited => Awaited'
    BY <1>13 DEF Awaited, ServeLate
  <2>2. missed \subseteq missed' /\ \A r \in Rows \ missed' : served'[r] = served[r]
    BY <1>0, <1>13 DEF ServeLate
  <2>3. \A rows : UpToDate(rows) => UpToDate(rows)'
    BY <2>2 DEF UpToDate
  <2> QED BY <1>0, <1>13, <2>1, <2>3, PageGoesOn DEF ServeLate
<1>14. CASE UNCHANGED dashboardVars
  BY <1>0, <1>14 DEF dashboardVars, PageIsFollowed, UpToDate, Awaited
<1> QED
  BY <1>3, <1>4, <1>5, <1>6, <1>7, <1>8, <1>9, <1>10, <1>11, <1>12, <1>13, <1>14 DEF DashboardNext

LEMMA DashboardInvariant == DashboardSpec => []DashboardInv
<1>1. DashboardInit => DashboardInv
  <2> SUFFICES ASSUME DashboardInit PROVE DashboardInv
    OBVIOUS
  <2>1. served \in [Rows -> RowStates]
    BY DEF DashboardInit, RowStates
  <2>2. DashboardTypeOK
    <3>1. clicks \in 0..MaxClicks /\ outside \in 0..MaxOutside
      BY DashboardAssumption DEF DashboardInit
    <3> QED BY <2>1, <3>1 DEF DashboardInit, DashboardTypeOK
  <2>3. PageIsFollowed
    BY DEF DashboardInit, PageIsFollowed, UpToDate, NoFetch
  <2> QED BY <2>2, <2>3 DEF DashboardInv
<1>2. DashboardInv /\ [DashboardNext]_dashboardVars => DashboardInv'
  BY DashboardTypeStep, PageFollowedStep DEF DashboardInv
<1> QED BY <1>1, <1>2, PTL DEF DashboardSpec

(* Type correctness: a mutation, an answer in flight and the rows shown are of
   the kinds that its hooks handle (use-notebooks.ts, use-sync-notebook.ts,
   use-toggle-sync.ts). *)
THEOREM DashboardTypes == DashboardSpec => []DashboardTypeOK
<1>1. DashboardInv => DashboardTypeOK
  BY DEF DashboardInv
<1> QED BY <1>1, DashboardInvariant, PTL

(* A page that has nothing more to wait for shows the server's rows, whatever
   clicks, toggles, lost answers, cancelled GETs and worker steps led there,
   except for what changed from outside since it read them. *)
THEOREM PageAtRest == DashboardSpec => []PageAtRestIsCurrent
<1>1. DashboardInv => PageAtRestIsCurrent
  <2> SUFFICES ASSUME DashboardInv, AtRest, ~readFailed, NEW r \in Rows \ missed
               PROVE  cached[r] = served[r]
    BY DEF PageAtRestIsCurrent
  <2>1. UpToDate(cached)
    BY DEF DashboardInv, PageIsFollowed, AtRest, Awaited, Unsent
  <2>2. cached[r] \in RowStates /\ served[r] \in RowStates
    BY DEF DashboardInv, DashboardTypeOK
  <2>3. cached[r].enabled = served[r].enabled /\ cached[r].status = served[r].status
    BY <2>1 DEF UpToDate, AtRest, Polls
  <2> QED BY <2>2, <2>3 DEF RowStates
<1> QED BY <1>1, DashboardInvariant, PTL

----------------------------------------------------------------------------
(* SnippetSelection *)

SnippetWindows == [page : Pages, start : Nat, end : Nat, copy : Nat]

(* A window ends in its page's content, and begins there or has no text. *)
Placed(w) ==
  /\ w.page \in Pages /\ w.start \in Nat /\ w.end \in Nat
  /\ w.end =< ContentLength[w.page]
  /\ w.start =< w.end \/ w.end = ContentLength[w.page]

(* Neither overlapping nor touching *)
Apart(v, w) == v # w /\ v.page = w.page => v.end < w.start \/ w.end < v.start

(* The copies are numbered below the windows there are, so the next is new. *)
SnippetInv ==
  /\ chosen \subseteq SnippetWindows /\ IsFiniteSet(chosen)
  /\ \A w \in chosen : Placed(w) /\ w.copy < Cardinality(chosen)
  /\ \A v, w \in chosen : Apart(v, w)

(* A match may be found past the end of the content, its window's end is not. *)
LEMMA CandidatePlaced ==
  ASSUME NEW c \in Candidates
  PROVE  Placed(c)
<1>1. PICK p \in Pages, length \in TermLengths :
        \E index \in 0..(LoweredLength[p] - length) : c = WindowAt(p, index, length)
  BY DEF Candidates
<1> PICK index \in 0..(LoweredLength[p] - length) : c = WindowAt(p, index, length)
  BY <1>1
<1>2. /\ ContentLength[p] \in Nat /\ LoweredLength[p] \in Nat
      /\ length \in Nat \ {0} /\ HalfWidth \in Nat /\ index \in Nat
  BY SnippetAssumption
<1>3. c = [page |-> p, start |-> LargerOf(0, index - HalfWidth),
           end |-> SmallerOf(ContentLength[p], index + length + HalfWidth)]
  BY DEF WindowAt
<1> QED BY <1>2, <1>3 DEF Placed, LargerOf, SmallerOf

LEMMA ContentLengthTyped ==
  ASSUME NEW w, Placed(w)
  PROVE  ContentLength[w.page] \in Nat
BY SnippetAssumption DEF Placed

(* What two windows do not do, they are apart by. *)
LEMMA NotMeetingIsApart ==
  ASSUME NEW v, Placed(v), NEW w, Placed(w), ~ Meets(v, w)
  PROVE  Apart(v, w) /\ Apart(w, v)
BY DEF Placed, Meets, Apart

(* Windows that meet have their starts before their ends. *)
LEMMA MeetingHaveText ==
  ASSUME NEW w, Placed(w), NEW c, Placed(c), Meets(w, c)
  PROVE  w.start =< w.end /\ c.start =< c.end
BY ContentLengthTyped DEF Placed, Meets

(* A widened window is a window, meets itself, and has the text of both. *)
LEMMA WidenedPlaced ==
  ASSUME NEW w \in SnippetWindows, Placed(w), NEW c, Placed(c), Meets(w, c)
  PROVE  /\ Widened(w, c) \in SnippetWindows /\ Placed(Widened(w, c))
         /\ Widened(w, c).copy = w.copy /\ Widened(w, c).page = w.page
         /\ Widened(w, c).start = SmallerOf(w.start, c.start)
         /\ Widened(w, c).end = LargerOf(w.end, c.end)
         /\ Meets(Widened(w, c), Widened(w, c))
<1>1. w.start =< w.end /\ c.start =< c.end /\ w.page = c.page
  BY MeetingHaveText DEF Meets
<1>2. /\ Widened(w, c) \in SnippetWindows
      /\ Widened(w, c).copy = w.copy /\ Widened(w, c).page = w.page
      /\ Widened(w, c).start = SmallerOf(w.start, c.start)
      /\ Widened(w, c).end = LargerOf(w.end, c.end)
  BY DEF Widened, SnippetWindows, Placed, SmallerOf, LargerOf
<1> HIDE DEF SnippetWindows
<1>3. Placed(Widened(w, c)) /\ Meets(Widened(w, c), Widened(w, c))
  BY <1>1, <1>2, ContentLengthTyped DEF Placed, Meets, SmallerOf, LargerOf
<1> QED BY <1>2, <1>3

LEMMA WidenedText ==
  ASSUME NEW w \in SnippetWindows, Placed(w), NEW c, Placed(c), Meets(w, c)
  PROVE  TextOf(Widened(w, c)) = TextOf(w) \cup TextOf(c)
<1> PICK u : u = Widened(w, c)
  OBVIOUS
<1>1. /\ u.page = w.page /\ w.page = c.page
      /\ u.start = SmallerOf(w.start, c.start) /\ u.end = LargerOf(w.end, c.end)
  BY WidenedPlaced DEF Meets
<1>2. u.start..(u.end - 1) = (w.start..(w.end - 1)) \cup (c.start..(c.end - 1))
  BY <1>1, MeetingHaveText DEF Placed, Meets, SmallerOf, LargerOf
<1> QED BY <1>1, <1>2 DEF TextOf

(* A window that is taken is a copy of the candidate that is not there yet. *)
LEMMA TakenPlaced ==
  ASSUME SnippetInv, NEW c \in Candidates, \A w \in chosen : ~ Meets(w, c)
  PROVE  /\ Taken(c) \in SnippetWindows /\ Placed(Taken(c)) /\ Taken(c) \notin chosen
         /\ Taken(c).copy =< Cardinality(chosen)
         /\ \A w \in chosen : ~ Meets(w, Taken(c))
         /\ TextOf(Taken(c)) = TextOf(c) /\ Cost(Taken(c)) = Cost(c)
<1>1. Placed(c) /\ Cardinality(chosen) \in Nat
  BY CandidatePlaced, FS_CardinalityType DEF SnippetInv
<1>2. /\ Taken(c).page = c.page /\ Taken(c).start = c.start /\ Taken(c).end = c.end
      /\ Taken(c).copy = IF Meets(c, c) THEN 0 ELSE Cardinality(chosen)
  BY DEF Taken
<1>3. Taken(c) \in SnippetWindows
  BY <1>1 DEF Taken, SnippetWindows, Placed
<1> HIDE DEF SnippetWindows
<1>4. ASSUME Taken(c) \in chosen PROVE FALSE
  <2>1. ~ Meets(c, c)
    BY <1>2, <1>4 DEF Meets
  <2>2. Taken(c).copy = Cardinality(chosen) /\ Taken(c).copy < Cardinality(chosen)
    BY <1>2, <1>4, <2>1 DEF SnippetInv
  <2> QED BY <1>1, <2>2
<1>5. Placed(Taken(c)) /\ \A w \in chosen : ~ Meets(w, Taken(c))
  BY <1>1, <1>2 DEF Placed, Meets
<1>6. TextOf(Taken(c)) = TextOf(c) /\ Cost(Taken(c)) = Cost(c)
  BY <1>2 DEF TextOf, Cost, Width
<1>7. Taken(c).copy =< Cardinality(chosen)
  BY <1>1, <1>2
<1> QED BY <1>3, <1>4, <1>5, <1>6, <1>7

(* What an absorption does: the widened window is new, and in the place of one. *)
LEMMA AbsorbedPlaced ==
  ASSUME SnippetInv, NEW c \in Candidates, NEW w \in chosen, Meets(w, c), Absorbable(w, c)
  PROVE  /\ w \in SnippetWindows /\ Placed(w) /\ Placed(c)
         /\ Widened(w, c) \notin chosen \ {w}
         /\ IsFiniteSet((chosen \ {w}) \cup {Widened(w, c)})
         /\ Cardinality((chosen \ {w}) \cup {Widened(w, c)}) = Cardinality(chosen)
<1> PICK others : others = chosen \ {w}
  OBVIOUS
<1> PICK u : u = Widened(w, c)
  OBVIOUS
<1>1. w \in SnippetWindows /\ Placed(w) /\ Placed(c)
  BY CandidatePlaced DEF SnippetInv
<1>2. u \notin others
  BY <1>1, WidenedPlaced DEF Absorbable
<1>3. IsFiniteSet(others) /\ Cardinality(others) = Cardinality(chosen) - 1
  BY FS_RemoveElement, Zenon DEF SnippetInv
<1>4. /\ IsFiniteSet(others \cup {u})
      /\ Cardinality(others \cup {u}) = Cardinality(others) + 1
  BY <1>2, <1>3, FS_AddElement, Zenon
<1>5. Cardinality(chosen) \in Nat /\ Cardinality(others) \in Nat
  BY <1>3, FS_CardinalityType DEF SnippetInv
<1> QED BY <1>1, <1>2, <1>3, <1>4, <1>5

(* One turn of the loop keeps the windows placed and apart. *)
LEMMA SnippetStep == SnippetInv /\ [SnippetNext]_snippetVars => SnippetInv'
<1> SUFFICES ASSUME SnippetInv, [SnippetNext]_snippetVars PROVE SnippetInv'
  OBVIOUS
<1>1. CASE UNCHANGED chosen
  BY <1>1 DEF SnippetInv
<1>2. ASSUME NEW c \in Candidates, AbsorbCandidate(c) PROVE SnippetInv'
  <2>1. PICK w \in chosen : /\ Meets(w, c) /\ Absorbable(w, c)
                            /\ chosen' = (chosen \ {w}) \cup {Widened(w, c)}
    BY <1>2 DEF AbsorbCandidate
  <2> PICK u : u = Widened(w, c)
    OBVIOUS
  <2>2. /\ w \in SnippetWindows /\ Placed(w) /\ Placed(c)
        /\ IsFiniteSet(chosen') /\ Cardinality(chosen') = Cardinality(chosen)
    BY <2>1, AbsorbedPlaced
  <2>3. u \in SnippetWindows /\ Placed(u) /\ u.copy = w.copy
    BY <2>1, <2>2, WidenedPlaced
  <2>4. \A v \in chosen \ {w} : Placed(v) /\ Apart(u, v) /\ Apart(v, u)
    BY <2>1, <2>3, NotMeetingIsApart DEF Absorbable, SnippetInv
  <2>5. Apart(u, u)
    BY DEF Apart
  <2>6. chosen' = (chosen \ {w}) \cup {u}
    BY <2>1
  <2> HIDE DEF SnippetWindows
  <2>7. \A v \in chosen' : v \in SnippetWindows /\ Placed(v) /\ v.copy < Cardinality(chosen')
    BY <2>2, <2>3, <2>6 DEF SnippetInv
  <2>8. \A v, x \in chosen' : Apart(v, x)
    BY <2>4, <2>5, <2>6 DEF SnippetInv
  <2> QED BY <2>2, <2>7, <2>8 DEF SnippetInv
<1>3. ASSUME NEW c \in Candidates, TakeCandidate(c) PROVE SnippetInv'
  <2>1. CASE chosen' = chosen
    BY <2>1 DEF SnippetInv
  <2>2. CASE chosen' = chosen \cup {Taken(c)}
    <3> PICK u : u = Taken(c)
      OBVIOUS
    <3>1. /\ u \in SnippetWindows /\ Placed(u) /\ u \notin chosen
          /\ u.copy =< Cardinality(chosen) /\ \A w \in chosen : ~ Meets(w, u)
      BY <1>3, TakenPlaced DEF TakeCandidate
    <3>2. \A w \in chosen : Apart(w, u) /\ Apart(u, w)
      BY <3>1, NotMeetingIsApart DEF SnippetInv
    <3>3. Apart(u, u)
      BY DEF Apart
    <3>4. IsFiniteSet(chosen \cup {u}) /\ Cardinality(chosen \cup {u}) = Cardinality(chosen) + 1
      BY <3>1, FS_AddElement, Zenon DEF SnippetInv
    <3>5. Cardinality(chosen) \in Nat
      BY FS_CardinalityType DEF SnippetInv
    <3> HIDE DEF SnippetWindows
    <3>6. \A v \in SnippetWindows : v.copy \in Nat
      BY DEF SnippetWindows
    <3>7. \A v \in chosen' : v \in SnippetWindows /\ Placed(v) /\ v.copy < Cardinality(chosen')
      BY <2>2, <3>1, <3>4, <3>5, <3>6 DEF SnippetInv
    <3>8. \A v, x \in chosen' : Apart(v, x)
      BY <2>2, <3>2, <3>3 DEF SnippetInv
    <3> QED BY <2>2, <3>4, <3>7, <3>8 DEF SnippetInv
  <2> QED BY <1>3, <2>1, <2>2 DEF TakeCandidate
<1> QED BY <1>1, <1>2, <1>3 DEF SnippetNext, snippetVars, Answer

LEMMA SnippetInvariant == SnippetSpec => []SnippetInv
<1>1. SnippetInit => SnippetInv
  BY FS_EmptySet DEF SnippetInit, SnippetInv
<1> QED BY <1>1, SnippetStep, PTL DEF SnippetSpec

(* The snippets of a page neither overlap nor touch, whatever the ranking and
   however often a window was widened (_absorb, _assemble). *)
THEOREM SnippetsApart == SnippetSpec => []SnippetsAreDisjoint
<1>1. SnippetInv => SnippetsAreDisjoint
  BY DEF SnippetInv, SnippetsAreDisjoint, Apart
<1> QED BY <1>1, SnippetInvariant, PTL

(* The text of a set of windows *)
AllText(S) == UNION {TextOf(v) : v \in S}

LEMMA AllTextWith ==
  ASSUME NEW S, NEW u
  PROVE  AllText(S \cup {u}) = AllText(S) \cup TextOf(u)
BY Zenon DEF AllText

(* An answer has the text of every window it took or absorbed, and no other:
   a widening covers both windows whole, and they meet, so it fills no gap. *)
THEOREM AnswerKept == SnippetSpec => []AnswerIsWhatMatched
<1>1. SnippetInit => AnswerIsWhatMatched
  BY DEF SnippetInit, AnswerIsWhatMatched
<1>2. SnippetInv /\ AnswerIsWhatMatched /\ [SnippetNext]_snippetVars => AnswerIsWhatMatched'
  <2> SUFFICES ASSUME SnippetInv, matched = AllText(chosen), [SnippetNext]_snippetVars
               PROVE  matched' = AllText(chosen')
    BY DEF AnswerIsWhatMatched, AllText
  <2>1. CASE UNCHANGED <<chosen, matched>>
    BY <2>1
  <2>2. ASSUME NEW c \in Candidates, AbsorbCandidate(c) PROVE matched' = AllText(chosen')
    <3>1. PICK w \in chosen : /\ Meets(w, c) /\ Absorbable(w, c)
                              /\ chosen' = (chosen \ {w}) \cup {Widened(w, c)}
      BY <2>2 DEF AbsorbCandidate
    <3>2. TextOf(Widened(w, c)) = TextOf(w) \cup TextOf(c)
      BY <3>1, AbsorbedPlaced, WidenedText
    <3>3. AllText(chosen') = AllText(chosen \ {w}) \cup TextOf(w) \cup TextOf(c)
      BY <3>1, <3>2, AllTextWith
    <3>4. AllText((chosen \ {w}) \cup {w}) = AllText(chosen \ {w}) \cup TextOf(w)
      BY AllTextWith
    <3>5. (chosen \ {w}) \cup {w} = chosen
      OBVIOUS
    <3>6. matched' = matched \cup TextOf(c)
      BY <2>2 DEF AbsorbCandidate
    <3> QED BY <3>3, <3>4, <3>5, <3>6
  <2>3. ASSUME NEW c \in Candidates, TakeCandidate(c), chosen' = chosen \cup {Taken(c)},
               matched' = matched \cup TextOf(c)
        PROVE  matched' = AllText(chosen')
    <3>1. TextOf(Taken(c)) = TextOf(c)
      BY <2>3, TakenPlaced DEF TakeCandidate
    <3> QED BY <2>3, <3>1, AllTextWith
  <2> QED BY <2>1, <2>2, <2>3 DEF SnippetNext, snippetVars, Answer, TakeCandidate
<1> QED BY <1>1, <1>2, SnippetInvariant, PTL DEF SnippetSpec

(* What the budget is charged: for a widening never more than the ceiling. *)
LEMMA CostTyped ==
  ASSUME NEW w, Placed(w)
  PROVE  Cost(w) \in Int
BY SnippetAssumption DEF Placed, Cost, Width

LEMMA GainIsSmall ==
  ASSUME SnippetInv, NEW c \in Candidates, NEW w \in chosen, Meets(w, c), Absorbable(w, c)
  PROVE  Gained(w, c) \in Int /\ Gained(w, c) =< MaxSnippetChars
<1>1. w \in SnippetWindows /\ Placed(w) /\ Placed(c) /\ Width(Widened(w, c)) =< MaxSnippetChars
  BY AbsorbedPlaced DEF Absorbable
<1>2. Placed(Widened(w, c)) /\ w.start =< w.end
  BY <1>1, WidenedPlaced, MeetingHaveText
<1> QED BY <1>1, <1>2, SnippetAssumption DEF Placed, Gained, Width

UsedCounted == usedChars \in Int

LEMMA CountedStep == SnippetInv /\ UsedCounted /\ [SnippetNext]_snippetVars => UsedCounted'
<1> SUFFICES ASSUME SnippetInv, UsedCounted, [SnippetNext]_snippetVars PROVE UsedCounted'
  OBVIOUS
<1>1. ASSUME NEW c \in Candidates, AbsorbCandidate(c) PROVE UsedCounted'
  <2>1. PICK w \in chosen : Absorbable(w, c) /\ Meets(w, c) /\ usedChars' = usedChars + Gained(w, c)
    BY <1>1 DEF AbsorbCandidate
  <2>2. Gained(w, c) \in Int
    BY <2>1, GainIsSmall
  <2> QED BY <2>1, <2>2 DEF UsedCounted
<1>2. ASSUME NEW c \in Candidates, TakeCandidate(c) PROVE UsedCounted'
  <2>1. Cost(c) \in Int
    BY CandidatePlaced, CostTyped
  <2> QED BY <1>2, <2>1 DEF TakeCandidate, UsedCounted
<1> QED BY <1>1, <1>2 DEF SnippetNext, snippetVars, Answer, UsedCounted

LEMMA CountedInvariant == SnippetSpec => []UsedCounted
<1>1. SnippetInit => UsedCounted
  BY DEF SnippetInit, UsedCounted
<1> QED BY <1>1, CountedStep, SnippetInvariant, PTL DEF SnippetSpec

(* The response exceeds RESPONSE_BUDGET_CHARS by less than the ceiling of a
   snippet, since the loop ends when the budget is used up and a widening that
   starts below it gains no more; only a lone snippet may cost more. *)
THEOREM OverrunIsSmall == SnippetSpec => []OverrunIsOneAbsorption
<1>1. SnippetInit => OverrunIsOneAbsorption
  BY SnippetAssumption DEF SnippetInit, OverrunIsOneAbsorption
<1>2. SnippetInv /\ UsedCounted /\ OverrunIsOneAbsorption /\ [SnippetNext]_snippetVars
        => OverrunIsOneAbsorption'
  <2> SUFFICES ASSUME SnippetInv, UsedCounted, OverrunIsOneAbsorption, [SnippetNext]_snippetVars
               PROVE  OverrunIsOneAbsorption'
    OBVIOUS
  <2> USE SnippetAssumption
  <2>1. ASSUME NEW c \in Candidates, AbsorbCandidate(c) PROVE OverrunIsOneAbsorption'
    <3>1. PICK w \in chosen : Absorbable(w, c) /\ Meets(w, c) /\ usedChars' = usedChars + Gained(w, c)
      BY <2>1 DEF AbsorbCandidate
    <3>2. Gained(w, c) \in Int /\ Gained(w, c) =< MaxSnippetChars
      BY <3>1, GainIsSmall
    <3>3. usedChars < ResponseBudget
      BY <2>1 DEF AbsorbCandidate, Full, UsedCounted
    <3> QED BY <3>1, <3>2, <3>3 DEF OverrunIsOneAbsorption, UsedCounted
  <2>2. ASSUME NEW c \in Candidates, TakeCandidate(c) PROVE OverrunIsOneAbsorption'
    <3>1. CASE UNCHANGED <<chosen, usedChars>>
      BY <3>1 DEF OverrunIsOneAbsorption
    <3>2. CASE chosen = {} /\ chosen' = chosen \cup {Taken(c)}
      <4>1. chosen' = {Taken(c)}
        BY <3>2
      <4>2. Cardinality(chosen') = 1
        BY <4>1, FS_Singleton
      <4> QED BY <4>2 DEF OverrunIsOneAbsorption
    <3>3. CASE usedChars + Cost(c) =< ResponseBudget /\ usedChars' = usedChars + Cost(c)
      <4>1. MaxSnippetChars \in Nat \ {0} /\ ResponseBudget \in Nat /\ Cost(c) \in Int
        BY CandidatePlaced, CostTyped
      <4>2. usedChars' \in Int /\ usedChars' =< ResponseBudget
        BY <3>3, <4>1 DEF UsedCounted
      <4> QED BY <4>1, <4>2 DEF OverrunIsOneAbsorption
    <3> QED BY <2>2, <3>1, <3>2, <3>3 DEF TakeCandidate, FitsBudget
  <2> QED BY <2>1, <2>2 DEF SnippetNext, snippetVars, Answer, OverrunIsOneAbsorption
<1> QED BY <1>1, <1>2, SnippetInvariant, CountedInvariant, PTL DEF SnippetSpec

(* Every snippet ends in the content of its page, the text it brings is text
   of its page, and the budget used is a number of characters. *)
THEOREM SnippetTypeCorrect == SnippetSpec => []SnippetTypeOK
<1>1. SnippetInit => answered \in BOOLEAN
  BY Zenon DEF SnippetInit
<1>2. answered \in BOOLEAN /\ [SnippetNext]_snippetVars => (answered \in BOOLEAN)'
  BY DEF SnippetNext, snippetVars, Answer, AbsorbCandidate, TakeCandidate
<1>3. SnippetInv /\ AnswerIsWhatMatched => matched \subseteq Pages \X Nat
  <2> SUFFICES ASSUME SnippetInv, NEW w \in chosen, NEW x \in TextOf(w) PROVE x \in Pages \X Nat
    BY Zenon DEF AnswerIsWhatMatched
  <2>1. Placed(w)
    BY DEF SnippetInv
  <2>2. PICK i \in w.start..(w.end - 1) : x = <<w.page, i>>
    BY DEF TextOf
  <2>3. i \in Nat /\ w.page \in Pages
    BY <2>1 DEF Placed
  <2> QED BY <2>2, <2>3
<1>4. SnippetInv /\ UsedCounted /\ answered \in BOOLEAN /\ matched \subseteq Pages \X Nat
        => SnippetTypeOK
  BY DEF SnippetInv, Placed, SnippetWindows, SnippetTypeOK, UsedCounted
<1> QED BY <1>1, <1>2, <1>3, <1>4, SnippetInvariant, CountedInvariant, AnswerKept, PTL DEF SnippetSpec

----------------------------------------------------------------------------
(* Sums over a set of windows.  MapThenSumSet is recursive, so what it yields is
   shown by the smallest set on which it would yield something else. *)

Some(S) == CHOOSE w \in S : TRUE
Remaining(S) == S \ {Some(S)}
Chars(S) == MapThenSumSet(Cost, S)

(* `g` is the sum over each part of `S`. *)
Sums(g, S) ==
  g = [T \in SUBSET S |-> IF T = {} THEN 0 ELSE Cost(Some(T)) + g[Remaining(T)]]

LEMMA CharsChosen ==
  ASSUME NEW S
  PROVE  Chars(S) = (CHOOSE g : Sums(g, S))[S]
BY DEF Chars, Sums, Some, Remaining, MapThenSumSet, MapThenFoldSet

(* Of any parts of a finite set, one has the fewest elements. *)
LEMMA Smallest ==
  ASSUME NEW S, IsFiniteSet(S), NEW P \in SUBSET (SUBSET S), P # {}
  PROVE  \E T \in P : \A U \in P : Cardinality(T) =< Cardinality(U)
<1> DEFINE R == OpToRel(<, Nat)
<1> DEFINE Sizes == {Cardinality(T) : T \in P}
<1>1. \A T \in P : IsFiniteSet(T) /\ Cardinality(T) \in Nat
  BY FS_Subset, FS_CardinalityType
<1>2. Sizes \subseteq Nat /\ Sizes # {}
  BY <1>1
<1>3. IsWellFoundedOn(R, Nat)
  BY NatLessThanWellFounded
<1> HIDE DEF R, Sizes
<1>4. PICK n \in Sizes : \A m \in Sizes : ~ (<<m, n>> \in R)
  BY <1>2, <1>3, WFMin, Zenon
<1>5. \A m \in Sizes : ~ (m < n)
  <2> SUFFICES ASSUME NEW m \in Sizes, m < n PROVE FALSE
    OBVIOUS
  <2>1. m \in Nat /\ n \in Nat
    BY <1>2
  <2> QED BY <1>4, <2>1 DEF R, OpToRel
<1>6. PICK T \in P : Cardinality(T) = n
  BY DEF Sizes
<1>7. ASSUME NEW U \in P PROVE Cardinality(T) =< Cardinality(U)
  <2>1. Cardinality(U) \in Sizes /\ Cardinality(U) \in Nat /\ n \in Nat
    BY <1>1, <1>2 DEF Sizes
  <2> QED BY <1>5, <1>6, <2>1
<1> QED BY <1>7

(* A set without one of its elements *)
LEMMA RestOf ==
  ASSUME NEW S, IsFiniteSet(S), NEW T \in SUBSET S, NEW w \in T
  PROVE  T \ {w} \in SUBSET S /\ Cardinality(T \ {w}) < Cardinality(T)
<1>1. IsFiniteSet(T) /\ Cardinality(T) \in Nat
  BY FS_Subset, FS_CardinalityType
<1>2. Cardinality(T \ {w}) = Cardinality(T) - 1
  BY <1>1, FS_RemoveElement, Zenon
<1> QED BY <1>1, <1>2

LEMMA SomeOf ==
  ASSUME NEW S, S # {}
  PROVE  Some(S) \in S
BY DEF Some

(* Sums over a set and over a part of it agree. *)
LEMMA SumsAgree ==
  ASSUME NEW S, IsFiniteSet(S), NEW g, Sums(g, S), NEW T \in SUBSET S, NEW h, Sums(h, T)
  PROVE  g[T] = h[T]
<1> DEFINE P == {U \in SUBSET T : g[U] # h[U]}
<1>1. \A U \in SUBSET T :
        /\ g[U] = IF U = {} THEN 0 ELSE Cost(Some(U)) + g[Remaining(U)]
        /\ h[U] = IF U = {} THEN 0 ELSE Cost(Some(U)) + h[Remaining(U)]
  <2> SUFFICES ASSUME NEW U \in SUBSET T
               PROVE  /\ g[U] = IF U = {} THEN 0 ELSE Cost(Some(U)) + g[Remaining(U)]
                      /\ h[U] = IF U = {} THEN 0 ELSE Cost(Some(U)) + h[Remaining(U)]
    OBVIOUS
  <2>1. U \in SUBSET S
    OBVIOUS
  <2> QED BY <2>1, Zenon DEF Sums
<1>2. SUFFICES ASSUME P # {} PROVE FALSE
  OBVIOUS
<1>3. IsFiniteSet(T)
  BY FS_Subset
<1>4. PICK U \in P : \A V \in P : Cardinality(U) =< Cardinality(V)
  BY <1>2, <1>3, Smallest
<1>5. U # {}
  BY <1>1
<1>6. Remaining(U) \in SUBSET T /\ Cardinality(Remaining(U)) < Cardinality(U)
  BY <1>3, <1>5, SomeOf, RestOf DEF Remaining
<1>7. Cardinality(Remaining(U)) \in Nat /\ Cardinality(U) \in Nat
  BY <1>3, <1>6, FS_Subset, FS_CardinalityType
<1>8. g[Remaining(U)] = h[Remaining(U)]
  BY <1>4, <1>6, <1>7
<1> QED BY <1>1, <1>5, <1>8

(* There is such a sum over every finite set, so CHOOSE finds one. *)
LEMMA SumsExist ==
  ASSUME NEW S, IsFiniteSet(S)
  PROVE  \E g : Sums(g, S)
<1> DEFINE P == {T \in SUBSET S : ~ \E g : Sums(g, T)}
<1>1. SUFFICES ASSUME P # {} PROVE FALSE
  <2>1. S \in SUBSET S
    OBVIOUS
  <2> QED BY <2>1
<1>2. PICK T \in P : \A U \in P : Cardinality(T) =< Cardinality(U)
  BY <1>1, Smallest
<1>3. ASSUME NEW U \in SUBSET T, U # T
      PROVE  Sums(CHOOSE g : Sums(g, U), U)
  <2>1. IsFiniteSet(T)
    BY FS_Subset
  <2>2. PICK w \in T : U \in SUBSET (T \ {w})
    BY <1>3
  <2>3. IsFiniteSet(T \ {w}) /\ Cardinality(T \ {w}) < Cardinality(T)
    BY <2>1, FS_Subset, RestOf
  <2>4. Cardinality(U) =< Cardinality(T \ {w})
    BY <2>2, <2>3, FS_Subset
  <2>5. Cardinality(U) \in Nat /\ Cardinality(T \ {w}) \in Nat /\ Cardinality(T) \in Nat
    BY <2>1, <2>3, FS_Subset, FS_CardinalityType
  <2>6. U \in SUBSET S /\ U \notin P
    BY <1>2, <2>3, <2>4, <2>5
  <2>7. \E g : Sums(g, U)
    BY <2>6
  <2> QED BY <2>7, Zenon
<1> DEFINE h == [U \in SUBSET T |-> IF U = {} THEN 0 ELSE Cost(Some(U)) + Chars(Remaining(U))]
<1>4. ASSUME NEW U \in SUBSET T, U # {}
      PROVE  h[Remaining(U)] = Chars(Remaining(U))
  <2>1. Remaining(U) \in SUBSET T /\ Remaining(U) # T
    BY <1>4, SomeOf DEF Remaining
  <2>2. PICK g : g = CHOOSE f : Sums(f, Remaining(U))
    OBVIOUS
  <2>3. Sums(g, Remaining(U)) /\ Chars(Remaining(U)) = g[Remaining(U)]
    BY <1>3, <2>1, <2>2, CharsChosen
  <2>4. g[Remaining(U)] = IF Remaining(U) = {} THEN 0 ELSE Cost(Some(Remaining(U))) + g[Remaining(Remaining(U))]
    <3>1. Remaining(U) \in SUBSET Remaining(U)
      OBVIOUS
    <3> QED BY <2>3, <3>1, Zenon DEF Sums
  <2>5. h[Remaining(U)] = IF Remaining(U) = {} THEN 0 ELSE Cost(Some(Remaining(U))) + Chars(Remaining(Remaining(U)))
    BY <2>1
  <2>6. CASE Remaining(U) = {}
    BY <2>3, <2>4, <2>5, <2>6
  <2>7. CASE Remaining(U) # {}
    <3>1. Remaining(Remaining(U)) \in SUBSET T /\ Remaining(Remaining(U)) # T /\ Remaining(Remaining(U)) \in SUBSET Remaining(U)
      BY <1>4, <2>1, SomeOf DEF Remaining
    <3>2. PICK f : f = CHOOSE k : Sums(k, Remaining(Remaining(U)))
      OBVIOUS
    <3>3. Sums(f, Remaining(Remaining(U))) /\ Chars(Remaining(Remaining(U))) = f[Remaining(Remaining(U))]
      BY <1>3, <3>1, <3>2, CharsChosen
    <3>4. IsFiniteSet(Remaining(U))
      BY <2>1, FS_Subset
    <3>5. g[Remaining(Remaining(U))] = f[Remaining(Remaining(U))]
      BY <2>3, <3>1, <3>3, <3>4, SumsAgree
    <3> QED BY <2>3, <2>4, <2>5, <2>7, <3>3, <3>5
  <2> QED BY <2>6, <2>7
<1>5. h = [U \in SUBSET T |-> IF U = {} THEN 0 ELSE Cost(Some(U)) + h[Remaining(U)]]
  <2>1. \A U \in SUBSET T :
          (IF U = {} THEN 0 ELSE Cost(Some(U)) + Chars(Remaining(U)))
            = IF U = {} THEN 0 ELSE Cost(Some(U)) + h[Remaining(U)]
    BY <1>4
  <2> QED BY <2>1
<1>6. Sums(h, T)
  BY <1>5 DEF Sums
<1> QED BY <1>2, <1>6

(* The sum over a set is the sum over all but one, and that one. *)
LEMMA CharsFrom ==
  ASSUME NEW S, IsFiniteSet(S)
  PROVE  Chars(S) = IF S = {} THEN 0 ELSE Cost(Some(S)) + Chars(Remaining(S))
<1> PICK g : g = CHOOSE f : Sums(f, S)
  OBVIOUS
<1>1. Sums(g, S) /\ Chars(S) = g[S]
  BY SumsExist, CharsChosen, Zenon
<1>2. g[S] = IF S = {} THEN 0 ELSE Cost(Some(S)) + g[Remaining(S)]
  <2>1. S \in SUBSET S
    OBVIOUS
  <2> QED BY <1>1, <2>1, Zenon DEF Sums
<1>3. Remaining(S) \in SUBSET S /\ IsFiniteSet(Remaining(S))
  BY FS_Subset DEF Remaining
<1> PICK h : h = CHOOSE f : Sums(f, Remaining(S))
  OBVIOUS
<1>4. Sums(h, Remaining(S)) /\ Chars(Remaining(S)) = h[Remaining(S)]
  BY <1>3, SumsExist, CharsChosen, Zenon
<1>5. g[Remaining(S)] = h[Remaining(S)]
  BY <1>1, <1>3, <1>4, SumsAgree
<1> QED BY <1>1, <1>2, <1>4, <1>5

LEMMA CharsOfNone == Chars({}) = 0
BY CharsFrom, FS_EmptySet

LEMMA CharsTyped ==
  ASSUME NEW S, IsFiniteSet(S), \A w \in S : Cost(w) \in Int
  PROVE  Chars(S) \in Int
<1> DEFINE P == {T \in SUBSET S : Chars(T) \notin Int}
<1>1. SUFFICES ASSUME P # {} PROVE FALSE
  OBVIOUS
<1>2. PICK T \in P : \A U \in P : Cardinality(T) =< Cardinality(U)
  BY <1>1, Smallest
<1>3. IsFiniteSet(T)
  BY FS_Subset
<1>4. T # {}
  BY CharsOfNone
<1>5. Remaining(T) \in SUBSET S /\ Cardinality(Remaining(T)) < Cardinality(T)
  BY <1>4, SomeOf, RestOf DEF Remaining
<1>6. Cardinality(Remaining(T)) \in Nat /\ Cardinality(T) \in Nat
  BY <1>3, <1>5, FS_Subset, FS_CardinalityType
<1>7. Chars(Remaining(T)) \in Int
  BY <1>2, <1>5, <1>6
<1>8. Chars(T) = Cost(Some(T)) + Chars(Remaining(T)) /\ Cost(Some(T)) \in Int
  BY <1>3, <1>4, CharsFrom, SomeOf
<1> QED BY <1>7, <1>8

(* Whichever element is taken out, the sum loses its cost. *)
LEMMA CharsWithout ==
  ASSUME NEW S, IsFiniteSet(S), \A w \in S : Cost(w) \in Int, NEW w \in S
  PROVE  Chars(S) = Cost(w) + Chars(S \ {w})
<1> DEFINE P == {T \in SUBSET S : \E v \in T : Chars(T) # Cost(v) + Chars(T \ {v})}
<1>1. SUFFICES ASSUME P # {} PROVE FALSE
  <2>1. S \in SUBSET S /\ (S \notin P => Chars(S) = Cost(w) + Chars(S \ {w}))
    OBVIOUS
  <2> QED BY <2>1
<1>2. PICK T \in P : \A U \in P : Cardinality(T) =< Cardinality(U)
  BY <1>1, Smallest
<1>3. PICK v \in T : Chars(T) # Cost(v) + Chars(T \ {v})
  BY <1>2
<1>4. \A U \in SUBSET S : IsFiniteSet(U) /\ Cardinality(U) \in Nat /\ Chars(U) \in Int
  BY FS_Subset, FS_CardinalityType, CharsTyped
<1>5. ASSUME NEW u \in T, NEW x \in T \ {u}
      PROVE  Chars(T \ {u}) = Cost(x) + Chars((T \ {u}) \ {x})
  <2>1. T \ {u} \in SUBSET S /\ Cardinality(T \ {u}) < Cardinality(T)
    BY RestOf
  <2>2. Cardinality(T \ {u}) \in Nat /\ Cardinality(T) \in Nat
    BY <1>4, <2>1
  <2> PICK U : U = T \ {u}
    OBVIOUS
  <2>3. U \in SUBSET S /\ U \notin P
    BY <1>2, <2>1, <2>2
  <2>4. \A z \in U : Chars(U) = Cost(z) + Chars(U \ {z})
    BY <2>3
  <2>5. Chars(U) = Cost(x) + Chars(U \ {x})
    BY <2>4
  <2> QED BY <2>5, Zenon
<1> PICK y : y = Some(T)
  OBVIOUS
<1>6. y \in T /\ Chars(T) = Cost(y) + Chars(T \ {y})
  BY <1>4, SomeOf, CharsFrom DEF Remaining
<1>7. v # y
  BY <1>3, <1>6
<1>8. /\ Chars(T \ {y}) = Cost(v) + Chars((T \ {y}) \ {v})
      /\ Chars(T \ {v}) = Cost(y) + Chars((T \ {v}) \ {y})
  BY <1>5, <1>6, <1>7
<1>9. (T \ {y}) \ {v} = (T \ {v}) \ {y} /\ (T \ {v}) \ {y} \in SUBSET S
  OBVIOUS
<1>10. Chars((T \ {v}) \ {y}) \in Int /\ Cost(v) \in Int /\ Cost(y) \in Int
  BY <1>4, <1>6, <1>9
<1> PICK a \in Int, b \in Int, c \in Int :
      a = Cost(v) /\ b = Cost(y) /\ c = Chars((T \ {v}) \ {y})
  BY <1>10
<1>11. Chars(T \ {y}) = a + c /\ Chars(T \ {v}) = b + c
  BY <1>8, <1>9
<1>12. Chars(T) = b + (a + c)
  BY <1>6, <1>11
<1>13. Chars(T) # a + (b + c)
  BY <1>3, <1>11
<1> QED BY <1>12, <1>13

(* The windows taken are finitely many, and the budget is charged what they cost. *)
Accounted == IsFiniteSet(chosen) /\ usedChars = Chars(chosen)

LEMMA AccountedStep == SnippetInv /\ Accounted /\ [SnippetNext]_snippetVars => Accounted'
<1> SUFFICES ASSUME SnippetInv, Accounted, [SnippetNext]_snippetVars PROVE Accounted'
  OBVIOUS
<1>1. CASE UNCHANGED <<chosen, usedChars>>
  BY <1>1 DEF Accounted, Chars
<1>2. \A w \in chosen : Placed(w) /\ Cost(w) \in Int
  BY CostTyped DEF SnippetInv
<1>3. ASSUME NEW c \in Candidates, AbsorbCandidate(c) PROVE Accounted'
  <2>1. PICK w \in chosen : /\ Meets(w, c) /\ Absorbable(w, c)
                            /\ chosen' = (chosen \ {w}) \cup {Widened(w, c)}
                            /\ usedChars' = usedChars + Gained(w, c)
    BY <1>3 DEF AbsorbCandidate
  <2> PICK u : u = Widened(w, c)
    OBVIOUS
  <2> PICK others : others = chosen \ {w}
    OBVIOUS
  <2>2. Placed(w) /\ Placed(c) /\ Placed(u) /\ u.page = w.page
    BY <2>1, AbsorbedPlaced, WidenedPlaced
  <2>3. u \notin others
    BY <2>1, AbsorbedPlaced
  <2>4. IsFiniteSet(others) /\ IsFiniteSet(others \cup {u})
    BY FS_RemoveElement, FS_AddElement DEF Accounted
  <2>5. Chars(chosen) = Cost(w) + Chars(others)
    BY <1>2, CharsWithout DEF Accounted
  <2>6. Chars(others \cup {u}) = Cost(u) + Chars(others)
    <3>1. \A v \in others \cup {u} : Cost(v) \in Int
      BY <1>2, <2>2, CostTyped
    <3>2. (others \cup {u}) \ {u} = others
      BY <2>3
    <3>3. Chars(others \cup {u}) = Cost(u) + Chars((others \cup {u}) \ {u})
      BY <2>4, <3>1, CharsWithout
    <3> QED BY <3>2, <3>3
  <2>7. Chars(others) \in Int
    BY <1>2, <2>4, CharsTyped
  <2>8. Gained(w, c) \in Int /\ Cost(w) \in Int /\ Cost(u) = Cost(w) + Gained(w, c)
    BY <2>2, SnippetAssumption DEF Placed, Cost, Gained, Width
  <2>9. usedChars' = Chars(others \cup {u})
    BY <2>1, <2>5, <2>6, <2>7, <2>8 DEF Accounted
  <2> QED BY <2>1, <2>4, <2>9 DEF Accounted, Chars
<1>4. ASSUME NEW c \in Candidates, TakeCandidate(c), chosen' = chosen \cup {Taken(c)},
             usedChars' = usedChars + Cost(c)
      PROVE  Accounted'
  <2> PICK u : u = Taken(c)
    OBVIOUS
  <2>1. u \notin chosen /\ Cost(u) \in Int /\ Cost(u) = Cost(c)
    BY <1>4, TakenPlaced, CostTyped DEF TakeCandidate
  <2> PICK all : all = chosen \cup {u}
    OBVIOUS
  <2>2. IsFiniteSet(all) /\ all \ {u} = chosen
    BY <2>1, FS_AddElement DEF Accounted
  <2>3. \A v \in all : Cost(v) \in Int
    BY <1>2, <2>1
  <2>4. Chars(all) = Cost(u) + Chars(chosen)
    BY <2>2, <2>3, CharsWithout
  <2>5. Chars(chosen) \in Int
    BY <1>2, CharsTyped DEF Accounted
  <2>6. usedChars' = Chars(all)
    BY <1>4, <2>1, <2>4, <2>5 DEF Accounted
  <2> QED BY <1>4, <2>2, <2>6 DEF Accounted, Chars
<1> QED BY <1>1, <1>3, <1>4 DEF SnippetNext, snippetVars, Answer, TakeCandidate

(* used_chars, kept up by costs and gains while windows are taken and widened,
   is at every turn what the windows as they are cost (_assemble). *)
THEOREM BudgetAccounted == SnippetSpec => []BudgetIsAccounted
<1>1. SnippetInit => Accounted
  BY FS_EmptySet, CharsOfNone DEF SnippetInit, Accounted
<1>2. Accounted => BudgetIsAccounted
  BY DEF Accounted, BudgetIsAccounted, Chars
<1> QED BY <1>1, <1>2, AccountedStep, SnippetInvariant, PTL DEF SnippetSpec

----------------------------------------------------------------------------
(* McpServer: types *)

KeyRows == [issued : BOOLEAN, all : BOOLEAN, requested : SUBSET Notebooks, revoked : BOOLEAN]
ToolRequests ==
  [stage : {"idle", "lookedUp", "verified", "ranked"}, key : Keys \cup {WebToken},
   row : KeyRows, allowed : SUBSET Notebooks, hits : SUBSET NotePages, seen : SUBSET Notebooks]
Shown == [notebook : Notebooks, asked : Handles, given : Handles, content : 1..MaxRevision]

LEMMA McpConstants ==
  /\ TextLength \in Nat /\ ExpandStep \in Nat /\ MaxRevision \in Nat
  /\ NotebookOf \in [NotePages -> Notebooks]
BY McpAssumption

LEMMA NoKeyTyped == NoKey \in KeyRows /\ NoRequest \in ToolRequests
<1>1. NoKey \in KeyRows
  BY DEF NoKey, KeyRows
<1> QED BY <1>1 DEF NoRequest, ToolRequests

(* The handles that a tool makes *)
LEMMA HandlesTyped ==
  ASSUME McpTypeOK
  PROVE  /\ \A p \in NotePages, cut \in Cuts : HasContent(p) => EncodeHandle(p, cut) \in Handles
         /\ \A h \in Handles \ {NoHandle} :
              /\ Wider(h) \in Handles /\ Wider(h).page = h.page /\ Wider(h).revision = h.revision
              /\ Wider(h).start =< h.start /\ h.end =< Wider(h).end
              /\ h.page \in NotePages
<1>1. revision \in [NotePages -> 0..MaxRevision \cup {Gone}]
  BY DEF McpTypeOK
<1>2. ASSUME NEW p \in NotePages, NEW cut \in Cuts, HasContent(p)
      PROVE  EncodeHandle(p, cut) \in Handles
  <2>1. revision[p] \in 1..MaxRevision
    BY <1>1, <1>2, McpConstants DEF HasContent, Gone
  <2>2. cut[1] \in 0..TextLength /\ cut[2] \in 0..TextLength
    BY McpAssumption
  <2> QED BY <2>1, <2>2 DEF EncodeHandle, Handles
<1>3. ASSUME NEW h \in Handles \ {NoHandle}
      PROVE  /\ Wider(h) \in Handles /\ Wider(h).page = h.page /\ Wider(h).revision = h.revision
             /\ Wider(h).start =< h.start /\ h.end =< Wider(h).end
             /\ h.page \in NotePages
  <2>1. h \in [page : NotePages, revision : 1..MaxRevision, start : 0..TextLength, end : 0..TextLength]
    BY DEF Handles
  <2> PICK start : start = (IF h.start > ExpandStep THEN h.start - ExpandStep ELSE 0)
    OBVIOUS
  <2> PICK end : end = (IF h.end + ExpandStep < TextLength THEN h.end + ExpandStep ELSE TextLength)
    OBVIOUS
  <2>2. start \in 0..TextLength /\ start =< h.start /\ end \in 0..TextLength /\ h.end =< end
    BY <2>1, McpConstants
  <2>3. Wider(h) = [h EXCEPT !.start = start, !.end = end]
    BY DEF Wider
  <2> QED BY <2>1, <2>2, <2>3 DEF Handles
<1> QED BY <1>2, <1>3

(* What a search or an expansion shows *)
SearchShows(cuts) == {Snippet(p, NoHandle, EncodeHandle(p, cuts[p])) : p \in DOMAIN cuts}
ExpandShows == {Snippet(h.page, h, Wider(h)) : h \in {g \in {held} : Expandable(g)}}

LEMMA ShownTyped ==
  ASSUME McpTypeOK
  PROVE  /\ \A cuts \in [{p \in request.hits : HasContent(p)} -> Cuts] : SearchShows(cuts) \subseteq Shown
         /\ held # NoHandle => ExpandShows \subseteq Shown
<1>1. /\ revision \in [NotePages -> 0..MaxRevision \cup {Gone}] /\ request \in ToolRequests
      /\ held \in Handles
  BY DEF McpTypeOK, ToolRequests, KeyRows, Key
<1>2. ASSUME NEW cuts \in [{p \in request.hits : HasContent(p)} -> Cuts], NEW p \in DOMAIN cuts
      PROVE  Snippet(p, NoHandle, EncodeHandle(p, cuts[p])) \in Shown
  <2>1. p \in NotePages /\ HasContent(p) /\ cuts[p] \in Cuts
    BY <1>1 DEF ToolRequests
  <2>2. revision[p] \in 1..MaxRevision
    BY <1>1, <2>1, McpConstants DEF HasContent, Gone
  <2>3. EncodeHandle(p, cuts[p]) \in Handles /\ NoHandle \in Handles
    BY <2>1, HandlesTyped DEF Handles
  <2> QED BY <2>1, <2>2, <2>3, McpConstants DEF Snippet, Shown
<1>3. ASSUME held # NoHandle, Expandable(held)
      PROVE  Snippet(held.page, held, Wider(held)) \in Shown
  <2>1. Wider(held) \in Handles /\ held.page \in NotePages
    BY <1>1, <1>3, HandlesTyped
  <2>2. revision[held.page] \in 1..MaxRevision
    BY <1>1, <1>3, <2>1, McpConstants DEF Expandable, HasContent, Gone
  <2> QED BY <1>1, <2>1, <2>2, McpConstants DEF Snippet, Shown
<1> QED BY <1>2, <1>3 DEF SearchShows, ExpandShows

LEMMA RespondTyped ==
  ASSUME McpTypeOK, NEW snippets \in SUBSET Shown, Respond(snippets)
  PROVE  McpTypeOK'
<1>1. /\ request \in ToolRequests /\ held \in Handles
  BY DEF McpTypeOK, ToolRequests, KeyRows, Key
<1>2. held' \in Handles
  BY <1>1 DEF Respond, Shown
<1>3. /\ answer'.key \in Keys \cup {WebToken} /\ answer'.seen \subseteq Notebooks
      /\ answer'.snippets \subseteq Shown
  BY <1>1 DEF Respond, ToolRequests
<1>4. request' \in ToolRequests
  BY NoKeyTyped DEF Respond
<1> QED BY <1>2, <1>3, <1>4 DEF McpTypeOK, Respond, ToolRequests, KeyRows, Key, Shown

LEMMA McpTypeStep == McpTypeOK /\ [McpNext]_mcpVars => McpTypeOK'
<1> SUFFICES ASSUME McpTypeOK, [McpNext]_mcpVars PROVE McpTypeOK'
  OBVIOUS
<1>1. /\ keys \in [Keys -> KeyRows] /\ enabled \subseteq Notebooks
      /\ revision \in [NotePages -> 0..MaxRevision \cup {Gone}] /\ request \in ToolRequests
      /\ held \in Handles
      /\ answer.key \in Keys \cup {WebToken} /\ answer.seen \subseteq Notebooks
      /\ answer.snippets \subseteq Shown
  BY DEF McpTypeOK, ToolRequests, KeyRows, Key, Shown
<1>2. McpTypeOK' <=>
      /\ keys' \in [Keys -> KeyRows] /\ enabled' \subseteq Notebooks
      /\ revision' \in [NotePages -> 0..MaxRevision \cup {Gone}] /\ request' \in ToolRequests
      /\ held' \in Handles
      /\ answer'.key \in Keys \cup {WebToken} /\ answer'.seen \subseteq Notebooks
      /\ answer'.snippets \subseteq Shown
  BY DEF McpTypeOK, ToolRequests, KeyRows, Key, Shown
<1>3. NoAnswer.key \in Keys \cup {WebToken} /\ NoAnswer.seen \subseteq Notebooks
      /\ NoAnswer.snippets \subseteq Shown
  BY DEF NoAnswer
<1>4. ASSUME NEW k \in Keys, NEW all \in BOOLEAN, NEW requested \in SUBSET Notebooks,
             CreateKey(k, all, requested)
      PROVE  McpTypeOK'
  BY <1>1, <1>2, <1>4 DEF CreateKey, KeyRows
<1>5. ASSUME NEW k \in Keys, RevokeKey(k) PROVE McpTypeOK'
  BY <1>1, <1>2, <1>5 DEF RevokeKey, KeyRows
<1>6. ASSUME NEW k \in Keys, LookUpKey(k) PROVE McpTypeOK'
  <2>1. request' \in ToolRequests
    BY <1>1, <1>6, NoKeyTyped DEF LookUpKey, ToolRequests
  <2> QED BY <1>1, <1>2, <1>3, <1>6, <2>1 DEF LookUpKey
<1>7. ASSUME NEW n \in Notebooks, ToggleNotebook(n) PROVE McpTypeOK'
  <2>1. enabled' \subseteq Notebooks
    BY <1>1, <1>7 DEF ToggleNotebook
  <2>2. request' \in ToolRequests
    BY <1>1, <1>7, <2>1 DEF ToggleNotebook, ToolRequests
  <2> QED BY <1>1, <1>2, <1>7, <2>1, <2>2 DEF ToggleNotebook
<1>8. ASSUME NEW p \in NotePages, RewritePage(p) \/ RemovePage(p) PROVE McpTypeOK'
  BY <1>1, <1>2, <1>8, McpConstants DEF RewritePage, RemovePage, Gone
<1>9. CASE ResolveScope
  <2>1. Scope(request.row) \subseteq Notebooks
    BY <1>1 DEF Scope, ToolRequests, KeyRows
  <2>2. request' \in ToolRequests
    BY <1>1, <1>9, <2>1 DEF ResolveScope, ToolRequests
  <2>3. keys' = keys
    BY <1>1, <1>9 DEF ResolveScope, Touched
  <2> QED BY <1>1, <1>2, <1>9, <2>2, <2>3 DEF ResolveScope
<1>10. CASE ResolveJwtIdentity
  <2>1. request' \in ToolRequests
    BY <1>1, <1>10, NoKeyTyped DEF ResolveJwtIdentity, ToolRequests, NoRequest
  <2> QED BY <1>1, <1>2, <1>3, <1>10, <2>1 DEF ResolveJwtIdentity
<1>11. ASSUME NEW hits \in SUBSET NotePages, RankPages(hits) PROVE McpTypeOK'
  <2>1. request' \in ToolRequests
    BY <1>1, <1>11 DEF RankPages, ToolRequests
  <2> QED BY <1>1, <1>2, <1>11, <2>1 DEF RankPages
<1>12. CASE AnswerNothing
  BY <1>12, RespondTyped DEF AnswerNothing
<1>13. CASE AnswerSearch
  BY <1>13, ShownTyped, RespondTyped DEF AnswerSearch, SearchShows
<1>14. CASE AnswerExpand
  BY <1>14, ShownTyped, RespondTyped DEF AnswerExpand, ExpandShows
<1>15. CASE UNCHANGED mcpVars
  BY <1>1, <1>2, <1>15 DEF mcpVars
<1> QED BY <1>4, <1>5, <1>6, <1>7, <1>8, <1>9, <1>10, <1>11, <1>12, <1>13, <1>14, <1>15 DEF McpNext

LEMMA McpTypeInit == McpInit => McpTypeOK
<1> SUFFICES ASSUME McpInit PROVE McpTypeOK
  OBVIOUS
<1>1. keys \in [Keys -> Key] /\ enabled \subseteq Notebooks
  BY NoKeyTyped DEF McpInit, KeyRows, Key
<1>2. revision \in [NotePages -> 0..MaxRevision \cup {Gone}]
  BY McpConstants DEF McpInit
<1>3. request \in ToolRequests
  BY NoKeyTyped DEF McpInit
<1>4. held \in Handles
  BY DEF McpInit, Handles
<1>5. /\ answer.key \in Keys \cup {WebToken} /\ answer.seen \subseteq Notebooks
      /\ answer.snippets \subseteq Shown
  BY DEF McpInit, NoAnswer
<1> QED BY <1>1, <1>2, <1>3, <1>4, <1>5 DEF McpTypeOK, ToolRequests, KeyRows, Key, Shown

(* The rows, the request and what the client holds are of their types. *)
THEOREM McpTypeCorrect == McpSpec => []McpTypeOK
BY McpTypeInit, McpTypeStep, PTL DEF McpSpec

----------------------------------------------------------------------------
(* McpServer: revocation and scope *)

RevokedWasIssued == \A k \in Keys : keys[k].revoked => keys[k].issued

(* The keys only come to be issued, or revoked. *)
LEMMA KeysStep ==
  ASSUME McpTypeOK, [McpNext]_mcpVars, NEW k \in Keys, keys[k].issued
  PROVE  /\ keys'[k].issued /\ keys'[k].all = keys[k].all /\ keys'[k].requested = keys[k].requested
         /\ keys[k].revoked => keys'[k].revoked
<1>1. keys \in [Keys -> KeyRows]
  BY DEF McpTypeOK, KeyRows, Key
<1>2. ASSUME NEW l \in Keys, NEW all \in BOOLEAN, NEW requested \in SUBSET Notebooks,
             CreateKey(l, all, requested)
      PROVE  keys'[k] = keys[k]
  BY <1>1, <1>2 DEF CreateKey
<1>3. ASSUME NEW l \in Keys, RevokeKey(l)
      PROVE  /\ keys'[k].issued /\ keys'[k].all = keys[k].all /\ keys'[k].requested = keys[k].requested
             /\ keys[k].revoked => keys'[k].revoked
  BY <1>1, <1>3 DEF RevokeKey, KeyRows
<1>4. CASE ResolveScope
  BY <1>1, <1>4 DEF ResolveScope, Touched
<1>5. CASE UNCHANGED keys
  BY <1>5
<1> QED BY <1>2, <1>3, <1>4, <1>5
        DEF McpNext, mcpVars, LookUpKey, ToggleNotebook, RewritePage, RemovePage, ResolveJwtIdentity,
            RankPages, AnswerNothing, AnswerSearch, AnswerExpand, Respond

(* Only a key that was issued is revoked. *)
LEMMA RevokedStep ==
  ASSUME McpTypeOK, RevokedWasIssued, [McpNext]_mcpVars
  PROVE  RevokedWasIssued'
<1> SUFFICES ASSUME NEW k \in Keys, keys'[k].revoked PROVE keys'[k].issued
  BY DEF RevokedWasIssued
<1>1. keys \in [Keys -> KeyRows]
  BY DEF McpTypeOK, KeyRows, Key
<1>2. ASSUME NEW l \in Keys, NEW all \in BOOLEAN, NEW requested \in SUBSET Notebooks,
             CreateKey(l, all, requested)
      PROVE  keys'[k].issued
  BY <1>1, <1>2 DEF CreateKey, RevokedWasIssued
<1>3. ASSUME NEW l \in Keys, RevokeKey(l) PROVE keys'[k].issued
  BY <1>1, <1>3 DEF RevokeKey, RevokedWasIssued, KeyRows
<1>4. CASE ResolveScope
  BY <1>1, <1>4 DEF ResolveScope, Touched, RevokedWasIssued
<1>5. CASE UNCHANGED keys
  BY <1>5 DEF RevokedWasIssued
<1> QED BY <1>2, <1>3, <1>4, <1>5
        DEF McpNext, mcpVars, LookUpKey, ToggleNotebook, RewritePage, RemovePage, ResolveJwtIdentity,
            RankPages, AnswerNothing, AnswerSearch, AnswerExpand, Respond

(* No request brings a revoked key back by touching its row. *)
THEOREM RevocationKept == McpSpec => RevocationIsFinal
<1>1. McpInit => McpTypeOK /\ RevokedWasIssued
  BY McpTypeInit DEF McpInit, NoKey, RevokedWasIssued
<1>2. McpTypeOK /\ RevokedWasIssued /\ [McpNext]_mcpVars => McpTypeOK' /\ RevokedWasIssued'
  BY McpTypeStep, RevokedStep
<1>3. McpTypeOK /\ RevokedWasIssued /\ [McpNext]_mcpVars =>
        [\A k \in Keys : keys[k].revoked => keys'[k].revoked]_mcpVars
  BY KeysStep DEF RevokedWasIssued
<1> QED BY <1>1, <1>2, <1>3, PTL DEF McpSpec, RevocationIsFinal

(* What a request may show lies within what was switched on since it began,
   and within what its key was made for. *)
KeyOpens(rows, k, n) == k # WebToken => rows[k].issued /\ (rows[k].all \/ n \in rows[k].requested)

RowIsCurrent(rows, r) ==
  r.key # WebToken =>
    /\ rows[r.key].issued
    /\ rows[r.key].all = r.row.all /\ rows[r.key].requested = r.row.requested

RequestInScope(rows, on, r) ==
  r.stage # "idle" =>
    /\ on \subseteq r.seen
    /\ RowIsCurrent(rows, r)
    /\ r.stage # "lookedUp" => \A n \in r.allowed : n \in r.seen /\ KeyOpens(rows, r.key, n)
    /\ r.stage = "ranked" => \A p \in r.hits : NotebookOf[p] \in r.allowed

AnswerInScope(rows, a) ==
  \A snippet \in a.snippets : snippet.notebook \in a.seen /\ KeyOpens(rows, a.key, snippet.notebook)

ScopeInv == RequestInScope(keys, enabled, request) /\ AnswerInScope(keys, answer)

(* What a key opens it still opens after a step. *)
LEMMA ScopeOfKeysStep ==
  ASSUME McpTypeOK, ScopeInv, [McpNext]_mcpVars
  PROVE  RequestInScope(keys', enabled, request) /\ AnswerInScope(keys', answer)
<1>1. request.key \in Keys \cup {WebToken} /\ answer.key \in Keys \cup {WebToken}
  BY DEF McpTypeOK
<1>2. ASSUME NEW k \in Keys \cup {WebToken}, NEW n, KeyOpens(keys, k, n)
      PROVE  KeyOpens(keys', k, n)
  BY <1>2, KeysStep DEF KeyOpens
<1>3. RowIsCurrent(keys, request) => RowIsCurrent(keys', request)
  BY <1>1, KeysStep DEF RowIsCurrent
<1>4. RequestInScope(keys', enabled, request)
  BY <1>1, <1>2, <1>3 DEF ScopeInv, RequestInScope
<1>5. AnswerInScope(keys', answer)
  BY <1>1, <1>2 DEF ScopeInv, AnswerInScope
<1> QED BY <1>4, <1>5

LEMMA RespondInScope ==
  ASSUME NEW snippets, Respond(snippets),
         \A snippet \in snippets :
           snippet.notebook \in request.seen /\ KeyOpens(keys, request.key, snippet.notebook)
  PROVE  ScopeInv'
<1>1. AnswerInScope(keys', answer')
  BY DEF Respond, AnswerInScope
<1>2. RequestInScope(keys', enabled', request')
  BY DEF Respond, RequestInScope, NoRequest
<1> QED BY <1>1, <1>2 DEF ScopeInv

LEMMA ScopeStep == McpTypeOK /\ ScopeInv /\ [McpNext]_mcpVars => ScopeInv'
<1> SUFFICES ASSUME McpTypeOK, ScopeInv, [McpNext]_mcpVars PROVE ScopeInv'
  OBVIOUS
<1>1. RequestInScope(keys', enabled, request) /\ AnswerInScope(keys', answer)
  BY ScopeOfKeysStep
<1>2. request \in ToolRequests /\ keys \in [Keys -> KeyRows] /\ enabled \subseteq Notebooks
  BY DEF McpTypeOK, ToolRequests, KeyRows, Key
<1>3. AnswerInScope(keys', NoAnswer)
  BY DEF AnswerInScope, NoAnswer
<1>4. ASSUME NEW k \in Keys, LookUpKey(k) PROVE ScopeInv'
  <2>1. /\ request'.stage = "lookedUp" /\ request'.key = k /\ request'.row = keys[k]
        /\ request'.seen = enabled
    BY <1>4 DEF LookUpKey, NoRequest
  <2>2. keys' = keys /\ enabled' = enabled /\ answer' = NoAnswer /\ keys[k].issued
    BY <1>4 DEF LookUpKey
  <2>3. RequestInScope(keys', enabled', request')
    BY <2>1, <2>2 DEF RequestInScope, RowIsCurrent
  <2> QED BY <1>3, <2>2, <2>3 DEF ScopeInv
<1>5. ASSUME NEW n \in Notebooks, ToggleNotebook(n) PROVE ScopeInv'
  <2>1. CASE request.stage = "idle"
    <3>1. request'.stage = "idle" /\ answer' = answer
      BY <1>5, <2>1 DEF ToggleNotebook
    <3> QED BY <1>1, <3>1 DEF ScopeInv, RequestInScope
  <2>2. CASE request.stage # "idle"
    <3>1. request' = [request EXCEPT !.seen = @ \cup enabled'] /\ answer' = answer
      BY <1>5, <2>2 DEF ToggleNotebook
    <3>2. /\ request'.stage = request.stage /\ request'.key = request.key
          /\ request'.row = request.row /\ request'.allowed = request.allowed
          /\ request'.hits = request.hits /\ request'.seen = request.seen \cup enabled'
      BY <1>2, <3>1 DEF ToolRequests
    <3>3. RequestInScope(keys', enabled', request')
      BY <1>1, <2>2, <3>2 DEF RequestInScope, RowIsCurrent
    <3> QED BY <1>1, <3>1, <3>3 DEF ScopeInv
  <2> QED BY <2>1, <2>2
<1>6. CASE ResolveScope
  <2>1. /\ request'.stage = "verified" /\ request'.key = request.key /\ request'.row = request.row
        /\ request'.seen = request.seen /\ request'.allowed = Scope(request.row)
    BY <1>2, <1>6 DEF ResolveScope, ToolRequests
  <2>2. enabled' = enabled /\ answer' = answer /\ request.stage # "idle"
    BY <1>6 DEF ResolveScope
  <2>3. RowIsCurrent(keys', request) /\ enabled \subseteq request.seen
    BY <1>1, <2>2 DEF RequestInScope
  <2>4. ASSUME NEW n \in Scope(request.row) PROVE n \in request.seen /\ KeyOpens(keys', request.key, n)
    BY <2>3, <2>4 DEF Scope, KeyOpens, RowIsCurrent
  <2>5. RowIsCurrent(keys', request')
    BY <2>1, <2>3 DEF RowIsCurrent
  <2>6. RequestInScope(keys', enabled', request')
    BY <2>1, <2>2, <2>3, <2>4, <2>5 DEF RequestInScope
  <2> QED BY <1>1, <2>2, <2>6 DEF ScopeInv
<1>7. CASE ResolveJwtIdentity
  <2>1. /\ request'.stage = "verified" /\ request'.key = WebToken
        /\ request'.seen = enabled /\ request'.allowed = enabled
    BY <1>7 DEF ResolveJwtIdentity, NoRequest
  <2>2. enabled' = enabled /\ answer' = NoAnswer
    BY <1>7 DEF ResolveJwtIdentity
  <2>3. RequestInScope(keys', enabled', request')
    BY <2>1, <2>2 DEF RequestInScope, RowIsCurrent, KeyOpens
  <2> QED BY <1>3, <2>2, <2>3 DEF ScopeInv
<1>8. ASSUME NEW hits \in SUBSET NotePages, RankPages(hits) PROVE ScopeInv'
  <2>1. /\ request'.stage = "ranked" /\ request'.key = request.key /\ request'.row = request.row
        /\ request'.seen = request.seen /\ request'.allowed = request.allowed /\ request'.hits = hits
    BY <1>2, <1>8 DEF RankPages, ToolRequests
  <2>2. enabled' = enabled /\ answer' = answer /\ request.stage = "verified"
    BY <1>8 DEF RankPages
  <2>3. \A p \in hits : NotebookOf[p] \in request.allowed
    BY <1>8 DEF RankPages, Searchable
  <2>4. RequestInScope(keys', enabled', request')
    BY <1>1, <2>1, <2>2, <2>3 DEF RequestInScope, RowIsCurrent
  <2> QED BY <1>1, <2>2, <2>4 DEF ScopeInv
<1>9. CASE AnswerNothing
  BY <1>9, RespondInScope DEF AnswerNothing
<1>10. CASE AnswerSearch
  <2>1. PICK cuts \in [{p \in request.hits : HasContent(p)} -> Cuts] : Respond(SearchShows(cuts))
    BY <1>10 DEF AnswerSearch, SearchShows
  <2>2. request.stage = "ranked"
    BY <1>10 DEF AnswerSearch
  <2>3. ASSUME NEW snippet \in SearchShows(cuts)
        PROVE  snippet.notebook \in request.seen /\ KeyOpens(keys, request.key, snippet.notebook)
    <3>1. PICK p \in request.hits : snippet.notebook = NotebookOf[p]
      BY DEF SearchShows, Snippet
    <3> QED BY <2>2, <3>1 DEF ScopeInv, RequestInScope
  <2> QED BY <2>1, <2>3, RespondInScope
<1>11. CASE AnswerExpand
  <2>1. request.stage = "verified" /\ Respond(ExpandShows)
    BY <1>11 DEF AnswerExpand, ExpandShows
  <2>2. ASSUME NEW snippet \in ExpandShows
        PROVE  snippet.notebook \in request.seen /\ KeyOpens(keys, request.key, snippet.notebook)
    <3>1. snippet.notebook = NotebookOf[held.page] /\ NotebookOf[held.page] \in request.allowed
      BY DEF ExpandShows, Snippet, Expandable
    <3> QED BY <2>1, <3>1 DEF ScopeInv, RequestInScope
  <2> QED BY <2>1, <2>2, RespondInScope
<1>12. CASE UNCHANGED <<enabled, request, answer>>
  BY <1>1, <1>12 DEF ScopeInv
<1> QED BY <1>4, <1>5, <1>6, <1>7, <1>8, <1>9, <1>10, <1>11, <1>12
        DEF McpNext, mcpVars, CreateKey, RevokeKey, RewritePage, RemovePage

(* A tool shows nothing of a notebook that its key was not made for, or that
   was off all through the request. *)
THEOREM ScopeKept == McpSpec => []AnswersStayInScope
<1>1. McpInit => McpTypeOK /\ ScopeInv
  BY McpTypeInit DEF McpInit, ScopeInv, RequestInScope, AnswerInScope, NoRequest, NoAnswer
<1>2. McpTypeOK /\ ScopeInv /\ [McpNext]_mcpVars => McpTypeOK' /\ ScopeInv'
  BY McpTypeStep, ScopeStep
<1>3. ScopeInv => AnswersStayInScope
  BY DEF ScopeInv, AnswerInScope, KeyOpens, AnswersStayInScope
<1> QED BY <1>1, <1>2, <1>3, PTL DEF McpSpec

----------------------------------------------------------------------------
(* McpServer: handles *)

(* An answer is made in one step, and its parts do not change afterwards. *)
NamesItsText(snippet) ==
  /\ snippet.given.revision = snippet.content
  /\ snippet.asked # NoHandle =>
       /\ snippet.asked.revision = snippet.content
       /\ snippet.asked.page = snippet.given.page
       /\ snippet.given.start =< snippet.asked.start /\ snippet.asked.end =< snippet.given.end

LEMMA HandlesStep == McpTypeOK /\ HandlesNameTheirText /\ [McpNext]_mcpVars => HandlesNameTheirText'
<1> SUFFICES ASSUME McpTypeOK, HandlesNameTheirText, [McpNext]_mcpVars
             PROVE  \A snippet \in answer'.snippets : NamesItsText(snippet)
  BY DEF HandlesNameTheirText, NamesItsText
<1>1. CASE UNCHANGED answer
  BY <1>1 DEF HandlesNameTheirText, NamesItsText
<1>2. CASE answer' = NoAnswer
  BY <1>2 DEF NoAnswer
<1>3. CASE AnswerNothing
  BY <1>3 DEF AnswerNothing, Respond
<1>4. CASE AnswerSearch
  <2>1. PICK cuts \in [{p \in request.hits : HasContent(p)} -> Cuts] : Respond(SearchShows(cuts))
    BY <1>4 DEF AnswerSearch, SearchShows
  <2>2. answer'.snippets = SearchShows(cuts)
    BY <2>1 DEF Respond
  <2>3. ASSUME NEW snippet \in SearchShows(cuts) PROVE NamesItsText(snippet)
    <3>1. PICK p \in DOMAIN cuts : snippet = Snippet(p, NoHandle, EncodeHandle(p, cuts[p]))
      BY DEF SearchShows
    <3> QED BY <3>1 DEF NamesItsText, Snippet, EncodeHandle
  <2> QED BY <2>2, <2>3
<1>5. CASE AnswerExpand
  <2>1. held # NoHandle /\ answer'.snippets = ExpandShows /\ held \in Handles
    BY <1>5 DEF AnswerExpand, ExpandShows, Respond, McpTypeOK
  <2>2. ASSUME NEW snippet \in ExpandShows PROVE NamesItsText(snippet)
    <3>1. snippet = Snippet(held.page, held, Wider(held)) /\ revision[held.page] = held.revision
      BY DEF ExpandShows, Expandable
    <3>2. /\ Wider(held).page = held.page /\ Wider(held).revision = held.revision
          /\ Wider(held).start =< held.start /\ held.end =< Wider(held).end
      BY <2>1, HandlesTyped
    <3> QED BY <3>1, <3>2 DEF NamesItsText, Snippet
  <2> QED BY <2>1, <2>2
<1> QED BY <1>1, <1>2, <1>3, <1>4, <1>5
        DEF McpNext, mcpVars, CreateKey, RevokeKey, LookUpKey, ToggleNotebook, RewritePage,
            RemovePage, ResolveScope, ResolveJwtIdentity, RankPages

(* A handle opens the content it was made for, or nothing, and what it opens
   contains its passage. *)
THEOREM HandlesKept == McpSpec => []HandlesNameTheirText
<1>1. McpInit => McpTypeOK /\ HandlesNameTheirText
  BY McpTypeInit DEF McpInit, HandlesNameTheirText, NoAnswer
<1>2. McpTypeOK /\ HandlesNameTheirText /\ [McpNext]_mcpVars => McpTypeOK' /\ HandlesNameTheirText'
  BY McpTypeStep, HandlesStep
<1> QED BY <1>1, <1>2, PTL DEF McpSpec
=============================================================================
