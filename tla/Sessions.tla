------------------------------ MODULE Sessions ------------------------------
(***************************************************************************)
(* One user's sessions: auth/service/tokens.rs (minting and rotation),     *)
(* sessions.rs (revoke, restore), middleware.rs (what a request is asked   *)
(* for) and the routes that end sessions.                                  *)
(*                                                                         *)
(* A session is a jti, shared by an access token, which is checked against *)
(* the revocation record in Redis, and a row of refresh_tokens, which is   *)
(* traded for the next session.  Every await of a handler ends a step.     *)
(* Access tokens carry whole seconds; neither kind expires here, which     *)
(* only lets more requests through.                                        *)
(***************************************************************************)
EXTENDS Integers, FiniteSets

CONSTANTS
    Jti,            \* identifiers, drawn in order: they are random and only compared
    Handler,        \* requests that can be in progress at once
    MaxTime,        \* bound: seconds that pass
    MaxFaults,      \* bound: failed deletes, failed writes and crashes
    MaxTrouble      \* bound: revocations, restorations and faults together

NoJti == 0

ASSUME JtiAssumption == Jti \subseteq Nat \ {NoJti}
ASSUME SessionBounds == MaxTime \in Nat /\ MaxFaults \in Nat /\ MaxTrouble \in Nat

VARIABLES
    now,            \* the clock, in seconds
    status,         \* users.status
    refresh,        \* rows of refresh_tokens
    iat, parent,    \* each session handed out: its second, and what it was traded for
    record,         \* revoked:{user} in Redis
    req,            \* each handler: its next step and its locals
    cut,            \* history: sessions that a revocation ended
    missed,         \* history: rows that a revocation's delete did not see
    stale,          \* minting handlers that overlap a revocation
    overlap,        \* history: two revocations, or one and a restore, overlapped
    doubled,        \* history: sessions that two handlers traded at once
    revokes, faults

sessionVars == <<now, status, refresh, iat, parent, record, req, cut, missed, stale,
                 overlap, doubled, revokes, faults>>
histories == <<cut, missed, stale, overlap, doubled>>

NoRecord == [at |-> -1, except |-> NoJti]
Idle == [pc |-> "idle", old |-> NoJti, new |-> NoJti, spare |-> NoJti, at |-> -1]

SessionInit ==
    /\ now = 0 /\ status = "active"
    /\ refresh = {}
    /\ iat = [j \in Jti |-> -1] /\ parent = [j \in Jti |-> NoJti]
    /\ record = NoRecord
    /\ req = [h \in Handler |-> Idle]
    /\ cut = {} /\ missed = {} /\ stale = {} /\ overlap = FALSE /\ doubled = {}
    /\ revokes = 0 /\ faults = 0

Issued == {j \in Jti : iat[j] >= 0}

Begin(h, r) == req[h] = Idle /\ req' = [req EXCEPT ![h] = r]
Goto(h, label) == req' = [req EXCEPT ![h].pc = label]
Return(h) == req' = [req EXCEPT ![h] = Idle] /\ stale' = stale \ {h}
MoreTrouble == revokes + faults < MaxTrouble
Fault == faults < MaxFaults /\ MoreTrouble /\ faults' = faults + 1

Minting == {"checked", "found", "swap", "store"}
Revoking == {"purge", "record", "write"}

-----------------------------------------------------------------------------
(* What a request with an access token is told. *)

(* RevocationRecord::covers *)
Covers(r, j) == iat[j] <= r.at /\ (r.except = NoJti \/ r.except # j)

(* auth_middleware; a Redis that does not answer only refuses more. *)
Accepts(j) == j \in Issued /\ ~(record # NoRecord /\ Covers(record, j))

-----------------------------------------------------------------------------
(* Minting: a sign-in, or the trade of a refresh token. *)

(* A handler that starts between a purge and its record is as unseen by    *)
(* the purge as one that was under way.                                    *)
StartsMinting(h) ==
    stale' = IF \E g \in Handler : req[g].pc \in {"record", "write"}
             THEN stale \cup {h} ELSE stale

(* verify_password_only has found an active account and the second factor  *)
(* has passed.                                                             *)
SignedIn(h) ==
    /\ status = "active"
    /\ Begin(h, [Idle EXCEPT !.pc = "checked"])
    /\ StartsMinting(h)
    /\ UNCHANGED <<now, status, refresh, iat, parent, record, cut, missed, overlap, doubled,
                   revokes, faults>>

(* refresh_access_token: find_refresh_token *)
FindRefresh(h, j) ==
    /\ j \in refresh
    /\ Begin(h, [Idle EXCEPT !.pc = "found", !.old = j])
    /\ StartsMinting(h)
    /\ doubled' = IF \E g \in Handler : req[g].pc \in Minting /\ req[g].old = j
                  THEN doubled \cup {j} ELSE doubled
    /\ UNCHANGED <<now, status, refresh, iat, parent, record, cut, missed, overlap, revokes,
                   faults>>

(* Uuid::new_v4 and the claims, with this second's iat. *)
Draw(h, label) ==
    \E j \in Jti \ (Issued \cup {req[g].new : g \in Handler}) :
        /\ \A k \in 1..(j - 1) : k \in Issued \cup {req[g].new : g \in Handler}
        /\ req' = [req EXCEPT ![h].pc = label, ![h].new = j, ![h].at = now]

(* generate_tokens, up to the insert *)
DrawFirst(h) ==
    /\ req[h].pc = "checked"
    /\ Draw(h, "store")
    /\ UNCHANGED <<now, status, refresh, iat, parent, record, histories, revokes, faults>>

(* refresh_access_token: find_by_id, and the claims of the next pair *)
DrawNext(h) ==
    /\ req[h].pc = "found"
    /\ \/ status = "active" /\ Draw(h, "swap") /\ UNCHANGED stale
       \/ status # "active" /\ Return(h)
    /\ UNCHANGED <<now, status, refresh, iat, parent, record, cut, missed, overlap, doubled,
                   revokes, faults>>

(* The insert is committed and the tokens are handed out.  The row is one  *)
(* that a purge did not see, if the handler began before it or trades such *)
(* a row.                                                                  *)
Issue(h, gone) ==
    LET r == req[h] IN
    /\ refresh' = (refresh \ gone) \cup {r.new}
    /\ iat' = [iat EXCEPT ![r.new] = r.at]
    /\ parent' = [parent EXCEPT ![r.new] = r.old]
    /\ missed' = IF h \in stale \/ r.old \in missed THEN missed \cup {r.new} ELSE missed
    /\ Return(h)
    /\ UNCHANGED <<now, status, record, cut, overlap, doubled, revokes, faults>>

(* store_refresh_token *)
Store(h) == req[h].pc = "store" /\ Issue(h, {})

(* Mutant: the old refresh token is kept. *)
SwapKeeps(h) == req[h].pc = "swap" /\ Issue(h, {})

(* One transaction: delete_refresh_token_tx, which does not look whether   *)
(* the row was there, and store_refresh_token_tx.                          *)
Swap(h) == req[h].pc = "swap" /\ Issue(h, {req[h].old})

Logout(j) ==
    /\ j \in refresh
    /\ refresh' = refresh \ {j}
    /\ UNCHANGED <<now, status, iat, parent, record, req, histories, revokes, faults>>

-----------------------------------------------------------------------------
(* Ending sessions, and restoring them. *)

BeginRevoke(h, label, j) ==
    /\ MoreTrouble /\ revokes' = revokes + 1
    /\ Begin(h, [Idle EXCEPT !.pc = label, !.spare = j])
    /\ overlap' = (overlap \/ \E g \in Handler : req[g].pc \in Revoking \cup {"restore"})
    /\ UNCHANGED <<now, refresh, iat, parent, record, cut, missed, stale, doubled, faults>>

(* By session j, which the middleware let in: every session but this goes. *)
ChangePassword(h, j) == Accepts(j) /\ BeginRevoke(h, "purge", j) /\ UNCHANGED status

ResetPassword(h) == BeginRevoke(h, "purge", NoJti) /\ UNCHANGED status

(* suspend_user; SCIM's deactivate and the erasure of an account do the    *)
(* same to the sessions.                                                   *)
Suspend(h) == BeginRevoke(h, "purge", NoJti) /\ status' = "suspended"

(* delete_user_refresh_tokens and its _except form *)
Purged(h) == refresh \ {req[h].spare}

(* revoke: an error is logged, and the next step comes all the same. *)
Purge(h) ==
    /\ req[h].pc = "purge"
    /\ \/ /\ refresh' = refresh \ Purged(h)
          /\ UNCHANGED <<missed, faults>>
       \/ /\ Fault
          /\ missed' = missed \cup refresh
          /\ UNCHANGED refresh
    /\ stale' = stale \cup {g \in Handler : req[g].pc \in Minting}
    /\ Goto(h, "record")
    /\ UNCHANGED <<now, status, iat, parent, record, cut, overlap, doubled, revokes>>

(* RevocationRecord { at: Utc::now(), .. } *)
StampRecord(h) ==
    /\ req[h].pc = "record"
    /\ req' = [req EXCEPT ![h].pc = "write", ![h].at = now]
    /\ UNCHANGED <<now, status, refresh, iat, parent, record, histories, revokes, faults>>

(* SETEX, then the event that closes the live sockets.  A failed write is  *)
(* logged and changes nothing.                                             *)
WriteRecord(h) ==
    LET r == req[h] IN
    /\ r.pc = "write"
    /\ \/ /\ record' = [at |-> r.at, except |-> r.spare]
          /\ cut' = (cut \cup {j \in Issued : iat[j] <= r.at}) \ {r.spare}
          /\ UNCHANGED faults
       \/ Fault /\ UNCHANGED <<record, cut>>
    /\ Return(h)
    /\ UNCHANGED <<now, status, refresh, iat, parent, missed, overlap, doubled, revokes>>

(* activate_user and SCIM's reactivate: the account first ... *)
Reactivate(h) == BeginRevoke(h, "restore", NoJti) /\ status' = "active"

(* ... then DEL of the record.  What it covered is let in again, and only  *)
(* its refresh token is gone.                                              *)
Restore(h) ==
    /\ req[h].pc = "restore"
    /\ \/ record' = NoRecord /\ cut' = {} /\ UNCHANGED faults
       \/ Fault /\ UNCHANGED <<record, cut>>
    /\ Return(h)
    /\ UNCHANGED <<now, status, refresh, iat, parent, missed, overlap, doubled, revokes>>

(* The process dies in the middle of a revocation or a restore: the rest   *)
(* of it is not done.  A minting handler that dies has stored nothing, as  *)
(* one that is never scheduled again.                                      *)
Die(h) ==
    /\ req[h].pc \in Revoking \cup {"restore"}
    /\ Fault
    /\ Return(h)
    /\ UNCHANGED <<now, status, refresh, iat, parent, record, cut, missed, overlap, doubled,
                   revokes>>

Second ==
    /\ now < MaxTime
    /\ now' = now + 1
    /\ UNCHANGED <<status, refresh, iat, parent, record, req, histories, revokes, faults>>

SessionNext ==
    \/ Second
    \/ \E j \in Jti : Logout(j)
    \/ \E h \in Handler :
        \/ SignedIn(h) \/ DrawFirst(h) \/ DrawNext(h) \/ Store(h) \/ Swap(h)
        \/ ResetPassword(h) \/ Suspend(h) \/ Purge(h) \/ StampRecord(h)
        \/ WriteRecord(h) \/ Reactivate(h) \/ Restore(h) \/ Die(h)
        \/ \E j \in Jti : FindRefresh(h, j) \/ ChangePassword(h, j)

-----------------------------------------------------------------------------
(* Every variable stays in its domain, and only sessions that were handed  *)
(* out have rows.                                                          *)
SessionTypeOK ==
    /\ now \in 0..MaxTime /\ status \in {"active", "suspended"}
    /\ iat \in [Jti -> -1..MaxTime] /\ parent \in [Jti -> Jti \cup {NoJti}]
    /\ refresh \subseteq Issued
    /\ record \in [at : -1..MaxTime, except : Jti \cup {NoJti}]
    /\ req \in [Handler -> [pc : {"idle", "restore"} \cup Minting \cup Revoking,
                            old : Jti \cup {NoJti}, new : Jti \cup {NoJti},
                            spare : Jti \cup {NoJti}, at : -1..MaxTime]]
    /\ cut \subseteq Jti /\ missed \subseteq Jti /\ doubled \subseteq Jti
    /\ stale \subseteq Handler /\ overlap \in BOOLEAN
    /\ revokes \in 0..MaxTrouble /\ faults \in 0..MaxFaults

(* "The flag has to outlive every access token issued before": a session   *)
(* that a finished revocation ended is refused from then on, through later *)
(* revocations that spare another one, as long as no two of them overlap   *)
(* and the account is not restored (sessions.rs, RevocationRecord::covers). *)
RevokedStaysRefused == overlap \/ \A j \in cut : ~Accepts(j)

(* The rows go with the access tokens: no refresh token of an ended        *)
(* session is left, except where a delete failed or a sign-in or a trade   *)
(* overlapped the revocation.                                              *)
RevokedIsPurged == cut \cap refresh \subseteq missed

(* Nor does an ended session live on in another one: it is never traded,   *)
(* with the same exceptions (refresh_access_token against revoke).         *)
RevokedIsNotTraded ==
    [][\A k \in refresh' \ (refresh \cup missed') : parent'[k] \notin cut]_sessionVars

(* "Refresh tokens are DB-backed, single-use, and rotated": a session is   *)
(* traded for one other, unless two handlers held it at the same time      *)
(* (refresh_access_token).                                                 *)
TradedOnce ==
    \A j \in Jti \ doubled : Cardinality({k \in Issued : parent[k] = j}) <= 1

(* A refresh token is traded once, and what a revocation covers is neither *)
(* accepted nor kept.                                                      *)
SessionSafety == SessionTypeOK /\ RevokedStaysRefused /\ RevokedIsPurged /\ TradedOnce
=============================================================================
