--------------------------- MODULE AppConnections ---------------------------
(***************************************************************************)
(* One member's connection to one app (integrations/service.rs, repo.rs):  *)
(* connecting and connecting again with another account, previews that     *)
(* refresh the tokens, disconnecting, suspension, and the re-sealing of    *)
(* stored tokens when the key changes (sealed/reseal.rs), each process     *)
(* restarting in its own time.  Every await ends a step.                   *)
(*                                                                         *)
(* A token is a number with the account it is for; an access token and the *)
(* refresh token that came with it have the same number.  The provider is  *)
(* external: one that rotates gives a new refresh token each time and      *)
(* takes none twice, the other gives none and takes the first for ever.    *)
(***************************************************************************)
EXTENDS Naturals, Sequences

CONSTANTS
    Account,            \* the member's accounts with the provider
    Replica,            \* processes, each with one request in progress
    MaxLinks,           \* bound: connections completed
    MaxTokens,          \* bound: tokens issued
    MaxLosses           \* bound: refreshed tokens lost

ASSUME AppConnectionAssumption ==
    MaxLinks \in Nat /\ MaxTokens \in Nat /\ MaxLosses \in Nat

NoToken == [n |-> 0, key |-> "none"]
NoConnection == [account |-> "none", access |-> NoToken, refresh |-> NoToken]

VARIABLES
    rotates,            \* which kind of provider it is
    taken,              \* links that were completed
    connection,         \* the row of app_connections
    isFor,              \* the account of each token issued
    spent,              \* refresh tokens the provider has replaced
    request,            \* each process: its step, the token it read and the one it got
    sealsWith,          \* each process: its first key
    sealer,             \* the re-sealing: its step and the token it read
    member,             \* "active", "suspended" or "out"
    straddled,          \* history: connected anew while the row was being worked on
    mixed,              \* history: the last re-sealing ran while a process had the old key
    everMixed,          \* history: some re-sealing did
    late,               \* history: a completion was under way when the rows were deleted
    losses              \* history: refreshed tokens lost, to a failed write or a restart

connectionVars == <<rotates, taken, connection, isFor, spent, request,
                    sealsWith, sealer, member, straddled, mixed, everMixed, late, losses>>
provider == <<rotates, isFor, spent>>
keyVars == <<sealsWith, sealer, mixed, everMixed>>

Free == [does |-> "rest", from |-> 0, token |-> 0]
Sealing == [does |-> "rest", of |-> "access", token |-> NoToken, clean |-> TRUE]

AppConnectionInit ==
    /\ rotates \in BOOLEAN
    /\ taken = 0
    /\ connection = NoConnection
    /\ isFor = <<>> /\ spent = {}
    /\ request = [r \in Replica |-> Free]
    /\ sealsWith = [r \in Replica |-> "old"]
    /\ sealer = Sealing
    /\ member = "active"
    /\ straddled = FALSE /\ mixed = FALSE /\ everMixed = FALSE
    /\ late = FALSE /\ losses = 0

Connected == connection # NoConnection
Lose == losses < MaxLosses /\ losses' = losses + 1
Token(r) == [n |-> request[r].token, key |-> sealsWith[r]]
Rests(r) == request' = [request EXCEPT ![r] = Free]

(* Somebody has read the row, or a token that follows from it, and not     *)
(* written it yet.                                                         *)
InUse == (\E r \in Replica : request[r].from # 0) \/ sealer.token # NoToken

-----------------------------------------------------------------------------
(* complete_connection: GETDEL takes the link that start_connection left   *)
(* in Redis, and the code is worth tokens for the account that was signed  *)
(* in at the provider.  A link that runs out or fails there changes        *)
(* nothing.                                                                *)
CompleteConnection(r) ==
    /\ request[r] = Free /\ member = "active"
    /\ taken < MaxLinks /\ taken' = taken + 1
    /\ Len(isFor) < MaxTokens
    /\ \E a \in Account : isFor' = Append(isFor, a)
    /\ request' = [request EXCEPT ![r].does = "upsert", ![r].token = Len(isFor) + 1]
    /\ UNCHANGED <<rotates, spent, connection, keyVars, member, straddled, late, losses>>

(* app_connections, its foreign key on workspace_members *)
MayConnect == member # "out"

(* upsert_connection: every column, or, failing, none *)
UpsertConnection(r) ==
    /\ request[r].does = "upsert"
    /\ \/ /\ MayConnect
          /\ connection' = [account |-> isFor[request[r].token],
                            access |-> Token(r), refresh |-> Token(r)]
          /\ straddled' = (straddled \/ InUse)
       \/ UNCHANGED <<connection, straddled>>
    /\ Rests(r)
    /\ UNCHANGED <<provider, taken, keyVars, member, late, losses>>

(* A preview finds the connection (access_token); its token may be about   *)
(* to expire at any moment.                                                *)
OpenRefreshToken(r) ==
    /\ request[r] = Free /\ Connected
    /\ request' = [request EXCEPT ![r].does = "refresh", ![r].from = connection.refresh.n]
    /\ UNCHANGED <<provider, taken, connection, keyVars, member, straddled, late, losses>>

(* The provider's answer.  Refused, or out of reach, it ends the request. *)
RefreshTokens(r) ==
    LET from == request[r].from IN
    /\ request[r].does = "refresh"
    /\ \/ /\ from \notin spent /\ Len(isFor) < MaxTokens
          /\ isFor' = Append(isFor, isFor[from])
          /\ spent' = IF rotates THEN spent \cup {from} ELSE spent
          /\ request' = [request EXCEPT ![r].does = "store", ![r].token = Len(isFor) + 1]
       \/ Rests(r) /\ UNCHANGED <<isFor, spent>>
    /\ UNCHANGED <<rotates, taken, connection, keyVars, member, straddled, late, losses>>

(* store_refreshed_tokens: COALESCE keeps the token that was not replaced *)
Renewed(r) == IF rotates THEN Token(r) ELSE connection.refresh

(* ... and the row is whichever the member has by now. *)
StoreRefreshedTokens(r) ==
    /\ request[r].does = "store"
    /\ \/ /\ connection' = IF Connected
                           THEN [connection EXCEPT !.access = Token(r), !.refresh = Renewed(r)]
                           ELSE connection
          /\ UNCHANGED losses
       \/ Lose /\ UNCHANGED connection
    /\ Rests(r)
    /\ UNCHANGED <<provider, taken, keyVars, member, straddled, late>>

(* disconnect_app, and remove_app, which takes the connections with it *)
Disconnect ==
    /\ Connected
    /\ connection' = NoConnection
    /\ UNCHANGED <<provider, taken, request, keyVars, member, straddled, late, losses>>

Completing(r) == request[r].does = "upsert"

(* suspend_user: the sessions end, so that no request of the member        *)
(* begins, and delete_user_connections.  The membership stays.             *)
SuspendMember ==
    /\ member = "active" /\ member' = "suspended"
    /\ connection' = NoConnection
    /\ late' = \E r \in Replica : Completing(r)
    /\ UNCHANGED <<provider, taken, request, keyVars, straddled, losses>>

(* The member leaves the workspace: a cascade deletes the connection. *)
LeaveWorkspace ==
    /\ member = "active" /\ member' = "out"
    /\ connection' = NoConnection
    /\ UNCHANGED <<provider, taken, request, keyVars, straddled, late, losses>>

-----------------------------------------------------------------------------
(* A process restarts with the new key first in SECRETS_KEYS; what it was  *)
(* doing is lost.  The API re-seals before it serves; the worker does not. *)
Promote(r) ==
    /\ sealsWith[r] = "old" /\ sealsWith' = [sealsWith EXCEPT ![r] = "new"]
    /\ IF request[r].does = "store" THEN Lose ELSE UNCHANGED losses
    /\ Rests(r)
    /\ \/ /\ sealer.does \in {"rest", "done"}
          /\ sealer' = [Sealing EXCEPT !.does = "list"]
       \/ UNCHANGED sealer
    /\ UNCHANGED <<provider, taken, connection, member, straddled, mixed, everMixed, late>>

(* access_tokens_off, refresh_tokens_off *)
ListOff ==
    /\ sealer.does = "list"
    /\ sealer' = [sealer EXCEPT !.does = "write",
                                !.token = IF connection[sealer.of].key = "old"
                                          THEN connection[sealer.of] ELSE NoToken]
    /\ mixed' = \/ sealer.of = "refresh" /\ mixed
                \/ \E r \in Replica : sealsWith[r] = "old"
    /\ everMixed' = (everMixed \/ mixed')
    /\ UNCHANGED <<provider, taken, connection, request, sealsWith, member, straddled,
                   late, losses>>

(* Mutant: whatever the row has by now is written over. *)
StillOffAny == Connected /\ sealer.token # NoToken

(* reseal_access_token, reseal_refresh_token, their WHERE *)
StillOff == sealer.token # NoToken /\ connection[sealer.of].key = sealer.token.key

(* The token that was read, sealed again.  After the refresh tokens the    *)
(* run reports that every secret is on the new key, unless a write failed. *)
WriteResealed ==
    /\ sealer.does = "write"
    /\ \E fails \in BOOLEAN :
        /\ connection' = IF StillOff /\ ~fails
                         THEN [connection EXCEPT ![sealer.of] = [sealer.token EXCEPT !.key = "new"]]
                         ELSE connection
        /\ sealer' = [Sealing EXCEPT !.clean = sealer.clean /\ ~fails, !.of = "refresh",
                                     !.does = IF sealer.of = "access" THEN "list" ELSE "done"]
    /\ UNCHANGED <<provider, taken, request, sealsWith, member, straddled, mixed, everMixed,
                   late, losses>>

ReplicaStep(r) ==
    \/ CompleteConnection(r) \/ UpsertConnection(r)
    \/ OpenRefreshToken(r) \/ RefreshTokens(r) \/ StoreRefreshedTokens(r) \/ Promote(r)

AppConnectionNext ==
    \/ Disconnect
    \/ SuspendMember \/ LeaveWorkspace
    \/ ListOff \/ WriteResealed
    \/ \E r \in Replica : ReplicaStep(r)

-----------------------------------------------------------------------------
(* Every variable stays in its domain. *)
ConnectionTypeOK ==
    LET Tokens == [n : 0..MaxTokens, key : {"none", "old", "new"}] IN
    /\ rotates \in BOOLEAN /\ taken \in 0..MaxLinks
    /\ connection \in [account : Account \cup {"none"}, access : Tokens, refresh : Tokens]
    /\ isFor \in Seq(Account) /\ spent \subseteq 1..MaxTokens
    /\ request \in [Replica -> [does : {"rest", "upsert", "refresh", "store"},
                                from : 0..MaxTokens, token : 0..MaxTokens]]
    /\ sealsWith \in [Replica -> {"old", "new"}]
    /\ sealer \in [does : {"rest", "list", "write", "done"}, of : {"access", "refresh"},
                   token : Tokens, clean : BOOLEAN]
    /\ member \in {"active", "suspended", "out"}
    /\ straddled \in BOOLEAN /\ mixed \in BOOLEAN /\ everMixed \in BOOLEAN
    /\ late \in BOOLEAN /\ losses \in 0..MaxLosses

(* The tokens of a connection belong to the account it names, unless the   *)
(* member connected again while a preview or the re-sealing was at work    *)
(* with the tokens before: both write by member, not by connection.        *)
AccountFits ==
    Connected /\ ~straddled =>
        isFor[connection.access.n] = connection.account /\
        isFor[connection.refresh.n] = connection.account

(* A connection can always be refreshed: previews that refresh it at once, *)
(* and a provider that takes each token once, leave the newest refresh     *)
(* token in the row.  Not so when an answer was lost, or when the row was  *)
(* re-sealed while a process still used the old key: the new token is then *)
(* taken for the one that was read (reseal_refresh_token compares the key  *)
(* alone).                                                                 *)
CanRefresh ==
    Connected /\ losses = 0 /\ ~everMixed =>
        /\ connection.refresh # NoToken
        /\ \/ connection.refresh.n \notin spent
           \/ \E r \in Replica : request[r].does = "store" /\ request[r].from = connection.refresh.n

(* "Remove the old key once that line is in the log": when the run has     *)
(* reported, nothing is sealed with the old key, or is again, unless a     *)
(* process had not been restarted when the rows were listed.               *)
SealedWithNew ==
    sealer.does = "done" /\ sealer.clean /\ ~mixed =>
        connection.access.key # "old" /\ connection.refresh.key # "old"

(* "Connections deleted when a member leaves the workspace [...], is       *)
(* suspended": none is left or comes back, unless one was being completed  *)
(* when those of a suspended member were deleted.                          *)
GoneHasNone == member = "out" \/ (member = "suspended" /\ ~late) => ~Connected

(* A connection is its member's, usable, and sealed with a key that is in  *)
(* use.                                                                    *)
ConnectionSafety ==
    ConnectionTypeOK /\ AccountFits /\ CanRefresh /\ SealedWithNew /\ GoneHasNone
=============================================================================
