------------------------------ MODULE LoginFlow ------------------------------
(***************************************************************************)
(* Signing in with Microsoft (routers/auth.py, routers/oauth_bridge.py,    *)
(* services/auth_service.py): the login stores a flow under its OAuth      *)
(* state, the browser comes back with a code, and the callback redeems     *)
(* both for a row of `users`, whose id goes out in a JWT or, for a login   *)
(* that WorkOS asked for, to WorkOS.                                       *)
(*                                                                         *)
(* A callback is one database transaction.  It shows its writes to the     *)
(* others when it commits, which is after the response is on its way, and  *)
(* until then its row locks keep them from writing the same rows.          *)
(***************************************************************************)
EXTENDS Integers

CONSTANTS
  OAuthStates,      (* the states of the flows; none is ever drawn twice       *)
  AuthCodes,        (* the codes Microsoft issues; none is ever issued twice   *)
  People,           (* Microsoft oids                                          *)
  Callbacks,        (* requests of /auth/microsoft/callback                    *)
  FlowTTL,          (* _LOGIN_FLOW_TTL                                         *)
  LoginTimeLimit,   (* bound: how long the clock runs                          *)
  MaxUserId         (* bound: how many ids the sequence hands out              *)

ASSUME LoginAssumption ==
  /\ {FlowTTL, LoginTimeLimit, MaxUserId} \subseteq Nat
  /\ "nobody" \notin People

VARIABLES
  loginClock,  (* the time                                                     *)
  flows,       (* oauth_login_flows, as committed                              *)
  begun,       (* the states drawn so far                                      *)
  codes,       (* Microsoft: the state of each code, whose and whether redeemed *)
  users,       (* users.id by microsoft_oid, as committed; 0 is no row         *)
  sequence,    (* the last id the sequence of users.id gave                    *)
  callback,    (* the requests                                                 *)
  handedOut,   (* history: the ids that JWTs and WorkOS carry, and for whom    *)
  signedIn     (* history: the states a committed login came from              *)

loginVars ==
  <<loginClock, flows, begun, codes, users, sequence, callback, handedOut, signedIn>>

NoFlow == [createdAt |-> -1, external |-> FALSE]
Nobody == "nobody"
NoCode == [state |-> Nobody, by |-> Nobody, redeemed |-> FALSE]
NoCallback == [stage |-> "free", code |-> Nobody, state |-> Nobody, flow |-> NoFlow, userId |-> 0]

----------------------------------------------------------------------------
(* Row locks: what a callback wrote and has not committed *)

DeletedFlow(r) == callback[r].stage \in {"popped", "redeemed", "upserted", "answered"}
WroteUser(r) == callback[r].stage \in {"upserted", "answered"}
Signer(k) == codes[k].by
FlowLocked(s, r) ==
  flows[s] # NoFlow /\ \E q \in Callbacks \ {r} : DeletedFlow(q) /\ callback[q].state = s
UserLocked(p, r) == \E q \in Callbacks \ {r} : WroteUser(q) /\ Signer(callback[q].code) = p

Outlived(flow) == flow # NoFlow /\ loginClock - flow.createdAt > FlowTTL

(* begin_login and persist_flow, from either login route, and the sweep in it *)
BeginLogin(s, external) ==
  /\ s \notin begun
  /\ \A t \in OAuthStates :
       Outlived(flows[t]) => ~ \E q \in Callbacks : DeletedFlow(q) /\ callback[q].state = t
  /\ begun' = begun \cup {s}
  /\ flows' = [t \in OAuthStates |->
                 IF t = s THEN [createdAt |-> loginClock, external |-> external]
                 ELSE IF Outlived(flows[t]) THEN NoFlow ELSE flows[t]]
  /\ UNCHANGED <<loginClock, codes, users, sequence, callback, handedOut, signedIn>>

(* External: somebody signs in at Microsoft, who issues a code for the state.
   The page can be opened again, by anyone, for another code. *)
Authorize(k, s, p) ==
  /\ s \in begun /\ codes[k] = NoCode
  /\ codes' = [codes EXCEPT ![k] = [state |-> s, by |-> p, redeemed |-> FALSE]]
  /\ UNCHANGED <<loginClock, flows, begun, users, sequence, callback, handedOut, signedIn>>

----------------------------------------------------------------------------
(* The callback *)

Finish(r) == callback' = [callback EXCEPT ![r] = NoCallback]

(* The browser arrives, perhaps not for the first time, and the flow is read;
   without a row the answer is 400 *)
ReadFlow(r, k) ==
  LET s == codes[k].state IN
  /\ callback[r].stage = "free"
  /\ codes[k] # NoCode /\ flows[s] # NoFlow
  /\ callback' = [callback EXCEPT ![r] =
       [stage |-> "read", code |-> k, state |-> s, flow |-> flows[s], userId |-> 0]]
  /\ UNCHANGED <<loginClock, flows, begun, codes, users, sequence, handedOut, signedIn>>

(* pop_flow's DELETE, which waits for whoever deletes the same row, and the
   check of the age; an expired flow is answered 400, which rolls the DELETE
   back.  The row that was read decides: it may be gone by now, and used by a
   callback with another code, for nobody counts the rows the DELETE hits. *)
PopFlow(r) ==
  /\ callback[r].stage = "read" /\ ~ FlowLocked(callback[r].state, r)
  /\ \/ ~ Outlived(callback[r].flow) /\ callback' = [callback EXCEPT ![r].stage = "popped"]
     \/ Outlived(callback[r].flow) /\ Finish(r)
  /\ UNCHANGED <<loginClock, flows, begun, codes, users, sequence, handedOut, signedIn>>

(* exchange_code: Microsoft redeems a code once; the error is a 500 *)
ExchangeCode(r) ==
  LET k == callback[r].code IN
  /\ callback[r].stage = "popped"
  /\ \/ /\ ~ codes[k].redeemed
        /\ codes' = [codes EXCEPT ![k].redeemed = TRUE]
        /\ callback' = [callback EXCEPT ![r].stage = "redeemed"]
     \/ /\ codes[k].redeemed
        /\ Finish(r)
        /\ UNCHANGED codes
  /\ UNCHANGED <<loginClock, flows, begun, users, sequence, handedOut, signedIn>>

(* Mutant: the id of a rolled back insert is given again *)
NextIdUnused ==
  CHOOSE i \in 1..MaxUserId :
    i \notin {users[p] : p \in People} \cup {callback[q].userId : q \in Callbacks}
NextId == sequence + 1

(* Mutant: the insert does not wait for another insert of the same oid *)
MayUpsertAtOnce(p, r) == TRUE
MayUpsert(p, r) == ~ UserLocked(p, r)

(* The upsert of the user by oid, which draws an id even when it updates, and
   of the connection *)
UpsertUser(r) ==
  LET p == Signer(callback[r].code) IN
  /\ callback[r].stage = "redeemed"
  /\ MayUpsert(p, r)
  /\ sequence < MaxUserId
  /\ sequence' = sequence + 1
  /\ callback' = [callback EXCEPT ![r].stage = "upserted",
                                  ![r].userId = IF users[p] = 0 THEN NextId ELSE users[p]]
  /\ UNCHANGED <<loginClock, flows, begun, codes, users, handedOut, signedIn>>

Identity(r) == [userId |-> callback[r].userId, person |-> Signer(callback[r].code)]

(* The redirect with a JWT; for a bridge login WorkOS is told first, and it may
   have been told even though its answer is an error *)
AnswerCallback(r) ==
  /\ callback[r].stage = "upserted"
  /\ handedOut' = handedOut \cup {Identity(r)}
  /\ \/ callback' = [callback EXCEPT ![r].stage = "answered"]
     \/ callback[r].flow.external /\ Finish(r)
  /\ UNCHANGED <<loginClock, flows, begun, codes, users, sequence, signedIn>>

(* Mutant: the flow is read and not deleted *)
FlowsWithUsed(s) == flows
FlowsWithout(s) == [flows EXCEPT ![s] = NoFlow]

(* get_session's commit *)
CommitCallback(r) ==
  LET s == callback[r].state IN
  /\ callback[r].stage = "answered"
  /\ flows' = FlowsWithout(s)
  /\ users' = [users EXCEPT ![Signer(callback[r].code)] = callback[r].userId]
  /\ signedIn' = signedIn \cup {s}
  /\ Finish(r)
  /\ UNCHANGED <<loginClock, begun, codes, sequence, handedOut>>

(* An error, a lock timeout, a crash or a failed commit: everything is undone *)
AbortCallback(r) ==
  /\ callback[r].stage # "free"
  /\ Finish(r)
  /\ UNCHANGED <<loginClock, flows, begun, codes, users, sequence, handedOut, signedIn>>

LoginTick ==
  /\ loginClock < LoginTimeLimit
  /\ loginClock' = loginClock + 1
  /\ UNCHANGED <<flows, begun, codes, users, sequence, callback, handedOut, signedIn>>

----------------------------------------------------------------------------
LoginInit ==
  /\ loginClock = 0
  /\ flows = [s \in OAuthStates |-> NoFlow]
  /\ begun = {}
  /\ codes = [k \in AuthCodes |-> NoCode]
  /\ users = [p \in People |-> 0]
  /\ sequence = 0
  /\ callback = [r \in Callbacks |-> NoCallback]
  /\ handedOut = {} /\ signedIn = {}

LoginNext ==
  \/ LoginTick
  \/ \E s \in OAuthStates :
       \/ \E external \in BOOLEAN : BeginLogin(s, external)
       \/ \E k \in AuthCodes, p \in People : Authorize(k, s, p)
  \/ \E r \in Callbacks :
       \/ \E k \in AuthCodes : ReadFlow(r, k)
       \/ PopFlow(r) \/ ExchangeCode(r) \/ UpsertUser(r)
       \/ AnswerCallback(r) \/ CommitCallback(r) \/ AbortCallback(r)

LoginSpec == LoginInit /\ [][LoginNext]_loginVars

----------------------------------------------------------------------------
(* Every variable holds what the code can store there. *)
LoginTypeOK ==
  LET Flow == [createdAt : 0..LoginTimeLimit, external : BOOLEAN] \cup {NoFlow} IN
  /\ loginClock \in 0..LoginTimeLimit
  /\ flows \in [OAuthStates -> Flow]
  /\ begun \subseteq OAuthStates /\ signedIn \subseteq OAuthStates
  /\ codes \in [AuthCodes ->
       [state : OAuthStates \cup {Nobody}, by : People \cup {Nobody}, redeemed : BOOLEAN]]
  /\ users \in [People -> 0..MaxUserId]
  /\ sequence \in 0..MaxUserId
  /\ callback \in [Callbacks ->
       [stage : {"free", "read", "popped", "redeemed", "upserted", "answered"},
        code : AuthCodes \cup {Nobody}, state : OAuthStates \cup {Nobody},
        flow : Flow, userId : 0..MaxUserId]]
  /\ handedOut \subseteq [userId : 1..MaxUserId, person : People]

(* A flow that somebody signed in with is gone for good: no rollback of another
   callback, no sweep and no reload of the page brings it back. *)
UsedFlowIsGone ==
  \A s \in signedIn : flows[s] = NoFlow

(* The id that a JWT or WorkOS carries never resolves to another person, even
   when the transaction it was drawn in was rolled back after it went out: it
   is an account of its own, or it is nobody's. *)
IdentitiesAreNeverShared ==
  \A identity \in handedOut, p \in People :
    users[p] = identity.userId => p = identity.person

(* Whoever has signed in keeps the id, also when two first logins of the same
   person overlap: what the tokens of one say stays true after the other. *)
UsersKeepTheirId ==
  [][\A p \in People : users[p] # 0 => users'[p] = users[p]]_loginVars
=============================================================================
